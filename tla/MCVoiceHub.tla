----------------------------- MODULE MCVoiceHub -----------------------------
(* The voice roster with its media sessions (two connections of user u1,   *)
(* one of user u2, two channels; in each load the connections, channels    *)
(* and operations whose interleavings are the question), and beside it the *)
(* tracks of one voice room with three interchangeable connections.  A     *)
(* behaviour runs one of the two; the other rests in an initial state.     *)
EXTENDS VoiceHub, TLC

CONSTANTS a1, a2, b1, u1, u2, x, y, s1, s2, s3, Parts

VARIABLES part, member, tracks, room, made, open, arrived, forward, senders, deaf, due, turns

MCConns == {a1, a2, b1}
OneUser == {a1, a2}
MCUsers == {u1, u2}
MCChannels == {x, y}
MCOwner(d) == IF d = b1 THEN u2 ELSE u1

Load(ops, conns, channels, encrypted, maxJoins, maxChanges) ==
  [ops |-> ops, conns |-> conns, channels |-> channels, encrypted |-> encrypted,
   joins |-> maxJoins, changes |-> maxChanges]

Media(channels, n) == Load({"leave", "media"}, {a1, a2}, channels, {}, n, 0)
Drops(channels, n) == Load({"leave", "drop"}, {a1, a2}, channels, {}, n, 0)
Revocations(channels, n) == Load({"refresh", "revoke", "media"}, {a1, a2}, channels, {}, 2, n)
Deletions(channels, n) == Load({"revokeServer", "removeChannel", "leave", "dberror", "refresh"},
                              {a1, b1}, channels, {}, 2, n)
Encryption == Load({"reset", "revalidate", "leave"}, {a1, a2}, {x}, {x}, 3, 2)

Safety == {Media({x, y}, 3), Drops({x, y}, 3), Revocations({x, y}, 2),
           Deletions({x, y}, 1), Deletions({x}, 2), Encryption}
Progress == {Media({x}, 2), Drops({x}, 2), Revocations({x}, 1)}

Speakers == {s1, s2, s3}
Interchangeable == Permutations(Speakers)
Tracks == INSTANCE VoiceTracks
            WITH Conns <- Speakers, Repeats <- FALSE, MaxSessions <- 3, MaxDeaf <- 1

media == <<member, tracks, room, made, open, arrived, forward, senders, deaf, due, turns>>

MCInit ==
  /\ part \in Parts /\ Init /\ Tracks!Init
  /\ part = "tracks" => load = CHOOSE l \in Loads : TRUE

MCNext ==
  \/ part = "roster" /\ Next /\ UNCHANGED <<part, media>>
  \/ part = "tracks" /\ Tracks!Next /\ UNCHANGED <<part, vars>>

MCSpec == MCInit /\ [][MCNext]_<<part, vars, media>>
MCFairSpec == MCSpec /\ Fairness

(* Every speaker of a voice room stays published and is heard by exactly   *)
(* the members that are not deaf, once all synchronizations are done       *)
(* (forwardAudio, synchronizeTracks).                                      *)
VoiceHeard == Tracks!SpeakerPublished /\ Tracks!EveryoneHeard
=============================================================================
