--------------------------- MODULE MCVoiceManager ---------------------------
(* Three connections, two channels, rooms of two: the smallest limit the   *)
(* configuration allows, met by the third join into a channel.  Neither    *)
(* connections nor channels are told apart.                                *)
EXTENDS VoiceManager, TLC

CONSTANTS c1, c2, c3, x, y
ThreeConns == {c1, c2, c3}
MCChannels == {x, y}
Interchangeable == Permutations(ThreeConns) \cup Permutations(MCChannels)
=============================================================================
