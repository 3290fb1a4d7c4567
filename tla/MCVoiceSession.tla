--------------------------- MODULE MCVoiceSession ---------------------------
(* The constants of VoiceSession are numbers and switches, given in the    *)
(* configurations.                                                         *)
EXTENDS VoiceSession
=============================================================================
