---------------------------- MODULE VoiceTracks ----------------------------
(***************************************************************************)
(* The microphone tracks of a voice room: forwardAudio publishes the track *)
(* of a session, room.synchronizeSessions makes every session of the room  *)
(* send the tracks of the others, and leaving takes a track away again     *)
(* (src/internal/voice: session.go, room.go, Manager.leave).               *)
(*                                                                         *)
(* The n-th session of the channel is named n, its k-th track <<n, k>>.  A *)
(* room maps track IDs to tracks, and the ID of a microphone is that of    *)
(* its connection, so the map is by connection.  Sessions to synchronize   *)
(* are in `due`: the goroutines that loop over the room's sessions take    *)
(* the listeners' negotiationMu one after the other, in any order.  When   *)
(* the last session leaves, the channel gets a new room object and late    *)
(* forwarders only touch the old one.  Camera tracks follow the same code  *)
(* under a key of their own and are left out, as is the exchange of offers *)
(* (VoiceSession).                                                         *)
(***************************************************************************)
EXTENDS Integers, FiniteSets

CONSTANTS Conns,
          Repeats,      \* may a connection send another track, by joining again
                        \* or within a session?
          MaxSessions,  \* bound: sessions
          MaxDeaf       \* bound: changes of self_deaf

VARIABLES member,   \* room.sessions, 0 for none
          tracks,   \* room.tracks
          room,     \* which room object the channel has
          made,     \* sessions so far: connection and room of each
          open,     \* sessions not closed
          arrived,  \* remote tracks of each session so far
          forward,  \* forwardAudio of the latest of them
          senders,  \* what each session's peer connection sends, by track ID
          deaf,     \* selfDeaf
          due,      \* sessions with a synchronizeTracks under way
          turns     \* changes of self_deaf so far

vars == <<member, tracks, room, made, open, arrived, forward, senders, deaf, due, turns>>

Sessions == 1..MaxSessions
NoTrack == <<0, 0>>
Nothing == [c \in Conns |-> NoTrack]
Track(s) == <<s, arrived[s]>>
Members == {member[c] : c \in Conns} \ {0}

Init ==
  /\ member = [c \in Conns |-> 0] /\ tracks = Nothing /\ room = 1 /\ made = <<>> /\ open = {}
  /\ arrived = [s \in Sessions |-> 0] /\ forward = [s \in Sessions |-> "none"]
  /\ senders = [s \in Sessions |-> Nothing]
  /\ deaf = [s \in Sessions |-> FALSE] /\ due = {} /\ turns = 0

(* Manager.Join: the session is in the room and makes its first offer.     *)
Join(c) ==
  /\ member[c] = 0 /\ Cardinality(DOMAIN made) < MaxSessions
  /\ Repeats \/ \A s \in DOMAIN made : made[s].conn # c
  /\ LET s == Cardinality(DOMAIN made) + 1
     IN /\ member' = [member EXCEPT ![c] = s]
        /\ made' = [n \in 1..s |-> IF n = s THEN [conn |-> c, room |-> room] ELSE made[n]]
        /\ open' = open \cup {s} /\ due' = due \cup {s}
  /\ UNCHANGED <<arrived, tracks, room, forward, senders, deaf, turns>>

(* OnTrack calls forwardAudio, which looks whether the session is closed   *)
(* ... While the track before is still read a new one changes nothing: the *)
(* room refuses it and forwardAudio returns.                               *)
TrackArrives(s) ==
  /\ s \in DOMAIN made /\ forward[s] \in {"none", "done"} /\ s \in open
  /\ arrived[s] < (IF Repeats THEN 2 ELSE 1)
  /\ forward' = [forward EXCEPT ![s] = "adding"] /\ arrived' = [arrived EXCEPT ![s] = @ + 1]
  /\ UNCHANGED <<member, tracks, room, made, open, senders, deaf, due, turns>>

(* ... adds the track, if the connection is in the room without one, and   *)
(* synchronizes the sessions of the room ...                               *)
AddTrackUnpublished(s) ==
  /\ forward[s] = "adding"
  /\ forward' = [forward EXCEPT ![s] = "reading"] /\ due' = due \cup Members
  /\ UNCHANGED <<arrived, member, tracks, room, made, open, senders, deaf, turns>>
AddTrack(s) ==
  /\ forward[s] = "adding"
  /\ IF made[s].room = room /\ member[made[s].conn] # 0 /\ tracks[made[s].conn] = NoTrack
     THEN /\ tracks' = [tracks EXCEPT ![made[s].conn] = Track(s)]
          /\ forward' = [forward EXCEPT ![s] = "reading"]
          /\ due' = due \cup Members
     ELSE forward' = [forward EXCEPT ![s] = "done"] /\ UNCHANGED <<tracks, due>>
  /\ UNCHANGED <<arrived, member, room, made, open, senders, deaf, turns>>

(* ... and reads packets until the peer connection or the track ends, when *)
(* it removes the track of the connection again.                           *)
ReadFails(s) ==
  /\ forward[s] = "reading"
  /\ forward' = [forward EXCEPT ![s] = "ended"]
  /\ UNCHANGED <<arrived, member, tracks, room, made, open, senders, deaf, due, turns>>

RemoveNothing(s) ==
  /\ forward[s] = "ended" /\ forward' = [forward EXCEPT ![s] = "done"]
  /\ UNCHANGED <<arrived, member, tracks, room, made, open, senders, deaf, due, turns>>
RemoveTrack(s) ==
  /\ forward[s] = "ended" /\ forward' = [forward EXCEPT ![s] = "done"]
  /\ IF made[s].room = room /\ tracks[made[s].conn] # NoTrack
     THEN /\ tracks' = [tracks EXCEPT ![made[s].conn] = NoTrack]
          /\ due' = due \cup Members
     ELSE UNCHANGED <<tracks, due>>
  /\ UNCHANGED <<arrived, member, room, made, open, senders, deaf, turns>>

(* synchronizeTracks: senders whose ID is wanted stay, the others go, and  *)
(* missing ones are added.                                                 *)
Wanted(s, d) == d # made[s].conn /\ tracks[d] # NoTrack /\ ~deaf[s]

Synchronize(s) ==
  /\ s \in due /\ due' = due \ {s}
  /\ IF s \in open
     THEN senders' = [senders EXCEPT ![s] =
            [d \in Conns |-> IF ~Wanted(s, d) THEN NoTrack
                             ELSE IF senders[s][d] # NoTrack THEN senders[s][d] ELSE tracks[d]]]
     ELSE UNCHANGED senders
  /\ UNCHANGED <<arrived, member, tracks, room, made, open, forward, deaf, turns>>

(* Manager.leave, by the hub or by a failure: the session and its track go,*)
(* and the others are synchronized if there was a track.                   *)
Leave(c) ==
  /\ member[c] # 0
  /\ member' = [member EXCEPT ![c] = 0] /\ open' = open \ {member[c]}
  /\ LET rest == Members \ {member[c]}
     IN /\ tracks' = IF rest = {} THEN Nothing ELSE [tracks EXCEPT ![c] = NoTrack]
        /\ room' = IF rest = {} THEN room + 1 ELSE room
        /\ due' = IF tracks[c] # NoTrack THEN due \cup rest ELSE due
  /\ UNCHANGED <<arrived, made, forward, senders, deaf, turns>>

(* Manager.SetState with another self_deaf.                                *)
SetDeaf(s) ==
  /\ s \in Members /\ turns < MaxDeaf /\ turns' = turns + 1
  /\ deaf' = [deaf EXCEPT ![s] = ~@] /\ due' = due \cup {s}
  /\ UNCHANGED <<arrived, member, tracks, room, made, open, forward, senders>>

ForwardStep(s) == TrackArrives(s) \/ AddTrack(s) \/ ReadFails(s) \/ RemoveTrack(s)

Next ==
  \/ \E c \in Conns : Join(c) \/ Leave(c)
  \/ \E s \in Sessions : ForwardStep(s) \/ Synchronize(s) \/ SetDeaf(s)

Spec == Init /\ [][Next]_vars

----------------------------------------------------------------------------
(* The track of a member whose packets are being read is in the room: only *)
(* the end of its own reading takes a speaker's track away (forwardAudio). *)
(* It takes that no connection sends a second track: with Repeats it and   *)
(* the next one fail.                                                      *)
SpeakerPublished ==
  \A c \in Conns : member[c] # 0 /\ forward[member[c]] = "reading" => tracks[c] = Track(member[c])

(* When all callbacks and synchronizations are over, every member sends    *)
(* exactly the tracks of the others who speak, or none when deaf: nobody   *)
(* hears someone who left, and nobody misses someone who speaks.           *)
AtRest == due = {} /\ \A s \in Sessions : forward[s] \notin {"adding", "ended"}
EveryoneHeard ==
  AtRest => \A s \in Members : \A d \in Conns \ {made[s].conn} :
    senders[s][d] = IF ~deaf[s] /\ member[d] # 0 /\ forward[member[d]] = "reading"
                    THEN Track(member[d]) ELSE NoTrack
=============================================================================
