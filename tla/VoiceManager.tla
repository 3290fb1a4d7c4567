---------------------------- MODULE VoiceManager ----------------------------
(***************************************************************************)
(* The voice manager of src/internal/voice (manager.go, room.go): sessions *)
(* by connection, rooms by channel, and the places a join reserves in a    *)
(* room while it builds its peer connection.                               *)
(*                                                                         *)
(* One step is one critical section of Manager.mu (room.mu nests in it) or *)
(* of room.mu alone, or one call of the WebRTC library.  A connection has  *)
(* one Join at a time (its reader, under the user's voiceJoins key), while *)
(* Leave, failSession and Close run in other goroutines.  The n-th join    *)
(* names the room object it creates, its peer connection and its session n.*)
(* Closing a peer follows the removal of its session at some later time.   *)
(***************************************************************************)
EXTENDS Integers, FiniteSets

CONSTANTS Conns, Channels,
          MaxParticipants,  \* Manager.maxParticipants
          MaxJoins          \* bound: joins

ASSUME ManagerAssumption ==
  /\ IsFiniteSet(Conns) /\ MaxJoins \in Nat /\ MaxParticipants \in Nat \ {0}

VARIABLES sessions,      \* Manager.sessions, 0 for none
          rooms,         \* Manager.rooms: room objects, 0 for none
          closed,        \* Manager.closed
          members,       \* room.sessions of each room object
          reservations,  \* room.reservations of each room object
          joining,       \* the Join of each connection
          joins,         \* joins so far
          made,          \* the sessions installed, with their connection, room, channel
          peers,         \* open peer connections
          reported       \* sessions whose failure was passed to the sink

vars == <<sessions, rooms, closed, members, reservations, joining, joins, made, peers, reported>>

Ids == 1..MaxJoins
Resting == [at |-> "idle", ch |-> "none", room |-> 0, id |-> 0]

Init ==
  /\ sessions = [c \in Conns |-> 0] /\ rooms = [x \in Channels |-> 0]
  /\ closed = FALSE
  /\ members = [r \in Ids |-> {}] /\ reservations = [r \in Ids |-> 0]
  /\ joining = [c \in Conns |-> Resting] /\ joins = 0
  /\ made = {} /\ peers = {} /\ reported = {}

----------------------------------------------------------------------------
(* room.empty, for the contents a room has or is about to have.            *)
Empty(conns, places) == conns = {} /\ places = 0

(* Manager.leave: the session goes from the manager and its room, and an   *)
(* emptied room from the manager, in one critical section.                 *)
Remove(c) ==
  LET m == CHOOSE m \in made : m.id = sessions[c]
      rest == members[m.room] \ {c}
  IN /\ sessions' = [sessions EXCEPT ![c] = 0]
     /\ members' = [members EXCEPT ![m.room] = rest]
     /\ rooms' = IF Empty(rest, reservations[m.room]) /\ rooms[m.ch] = m.room
                 THEN [rooms EXCEPT ![m.ch] = 0] ELSE rooms

leave(c) ==
  IF sessions[c] = 0 THEN UNCHANGED <<sessions, members, rooms>> ELSE Remove(c)

(* Manager.Join closes the previous session of the connection ...          *)
JoinLeave(c) ==
  /\ joining[c] = Resting /\ joins < MaxJoins
  /\ leave(c)
  /\ joins' = joins + 1
  /\ \E x \in Channels :
       joining' = [joining EXCEPT ![c] = [at |-> "left", ch |-> x, room |-> 0, id |-> joins + 1]]
  /\ UNCHANGED <<closed, reservations, made, peers, reported>>

(* ... reserves a place in the room of the channel, which it creates when  *)
(* there is none, unless the manager is closed or the room is full ...     *)
RoomFor(c) == IF rooms[joining[c].ch] = 0 THEN joining[c].id ELSE rooms[joining[c].ch]
FullByMembers(r) == Cardinality(members[r]) >= MaxParticipants
Full(r) == Cardinality(members[r]) + reservations[r] >= MaxParticipants

Rest(c) == joining' = [joining EXCEPT ![c] = Resting]
At(c, at) == joining' = [joining EXCEPT ![c].at = at]

Reserve(c) ==
  /\ joining[c].at = "left"
  /\ \/ closed /\ Rest(c) /\ UNCHANGED <<rooms, reservations>>
     \/ /\ ~closed
        /\ rooms' = [rooms EXCEPT ![joining[c].ch] = RoomFor(c)]
        /\ \/ Full(RoomFor(c)) /\ Rest(c) /\ UNCHANGED reservations
           \/ /\ ~Full(RoomFor(c))
              /\ reservations' = [reservations EXCEPT ![RoomFor(c)] = @ + 1]
              /\ joining' = [joining EXCEPT ![c] =
                   [at |-> "reserved", ch |-> joining[c].ch,
                    room |-> RoomFor(c), id |-> joining[c].id]]
  /\ UNCHANGED <<sessions, closed, members, joins, made, peers, reported>>

(* ... builds the peer connection, which may fail before or after it opens *)
Build(c) ==
  /\ joining[c].at = "reserved"
  /\ \/ At(c, "built") /\ peers' = peers \cup {joining[c].id}
     \/ At(c, "cancelling") /\ UNCHANGED peers
  /\ UNCHANGED <<sessions, rooms, closed, members, reservations, joins, made, reported>>

(* ... installs the session, turning the place into it, unless the manager *)
(* was closed meanwhile ...                                                *)
ClosedUnseen == FALSE
ClosedMeanwhile == closed
Install(c) ==
  /\ joining[c].at = "built"
  /\ LET r == joining[c].room
         s == joining[c].id
     IN \/ /\ ClosedMeanwhile /\ At(c, "cancelling")
           /\ peers' = peers \ {s}
           /\ UNCHANGED <<sessions, members, reservations, made>>
        \/ /\ ~ClosedMeanwhile /\ At(c, "installed")
           /\ sessions' = [sessions EXCEPT ![c] = s]
           /\ members' = [members EXCEPT ![r] = @ \cup {c}]
           /\ reservations' = [reservations EXCEPT ![r] = IF @ > 0 THEN @ - 1 ELSE @]
           /\ made' = made \cup {[id |-> s, conn |-> c, room |-> r, ch |-> joining[c].ch]}
           /\ UNCHANGED peers
  /\ UNCHANGED <<rooms, closed, joins, reported>>

(* ... and sends the first offer.  When none can be made it leaves again.  *)
FirstOffer(c) ==
  /\ joining[c].at = "installed"
  /\ Rest(c)
  /\ leave(c) \/ UNCHANGED <<sessions, members, rooms>>
  /\ UNCHANGED <<closed, reservations, joins, made, peers, reported>>

(* A join that fails gives its place back and removes the room if that     *)
(* emptied it: a look without the manager's lock, a second one with it.    *)
ForgetCancel(c) ==
  /\ joining[c].at = "cancelling" /\ At(c, "checking")
  /\ UNCHANGED <<sessions, rooms, closed, members, reservations, joins, made, peers, reported>>
CancelReservation(c) ==
  /\ joining[c].at = "cancelling"
  /\ reservations' = [reservations EXCEPT ![joining[c].room] = IF @ > 0 THEN @ - 1 ELSE @]
  /\ At(c, "checking")
  /\ UNCHANGED <<sessions, rooms, closed, members, joins, made, peers, reported>>

CheckRoom(c) ==
  /\ joining[c].at = "checking"
  /\ IF Empty(members[joining[c].room], reservations[joining[c].room])
     THEN At(c, "removing") ELSE Rest(c)
  /\ UNCHANGED <<sessions, rooms, closed, members, reservations, joins, made, peers, reported>>

StillEmptyUnchecked(c) == rooms[joining[c].ch] = joining[c].room
StillEmpty(c) ==
  /\ Empty(members[joining[c].room], reservations[joining[c].room])
  /\ rooms[joining[c].ch] = joining[c].room

RemoveRoom(c) ==
  /\ joining[c].at = "removing"
  /\ rooms' = IF StillEmpty(c) THEN [rooms EXCEPT ![joining[c].ch] = 0] ELSE rooms
  /\ Rest(c)
  /\ UNCHANGED <<sessions, closed, members, reservations, joins, made, peers, reported>>

----------------------------------------------------------------------------
(* Leave by connection; a failure, of a session old or new, which only     *)
(* counts while the session is its connection's; Close; and the closing of *)
(* the peers of removed sessions.                                          *)
Leave(c) ==
  /\ sessions[c] # 0 /\ Remove(c)
  /\ UNCHANGED <<closed, reservations, joining, joins, made, peers, reported>>

AnySession(m) == sessions[m.conn] # 0
Expected(m) == sessions[m.conn] = m.id

failSession(m) ==
  /\ Expected(m) /\ Remove(m.conn)
  /\ reported' = reported \cup {m.id}
  /\ UNCHANGED <<closed, reservations, joining, joins, made, peers>>

Close ==
  /\ ~closed /\ closed' = TRUE
  /\ sessions' = [c \in Conns |-> 0] /\ rooms' = [x \in Channels |-> 0]
  /\ UNCHANGED <<members, reservations, joining, joins, made, peers, reported>>

ClosePeer(m) ==
  /\ m.id \in peers /\ sessions[m.conn] # m.id
  /\ peers' = peers \ {m.id}
  /\ UNCHANGED <<sessions, rooms, closed, members, reservations, joining, joins, made, reported>>

JoinStep(c) ==
  \/ Reserve(c) \/ Build(c) \/ Install(c) \/ FirstOffer(c)
  \/ CancelReservation(c) \/ CheckRoom(c) \/ RemoveRoom(c)

Next ==
  \/ \E c \in Conns : JoinLeave(c) \/ JoinStep(c) \/ Leave(c)
  \/ \E m \in made : failSession(m) \/ ClosePeer(m)
  \/ Close

Spec == Init /\ [][Next]_vars

----------------------------------------------------------------------------
Stages == {"idle", "left", "reserved", "built", "installed", "cancelling", "checking", "removing"}

Joining == [at : Stages, ch : Channels \cup {"none"}, room : 0..MaxJoins, id : 0..MaxJoins]

(* A room never holds more sessions and reserved places than the limit,    *)
(* whichever joins are under way (maxParticipants, Manager.Join).          *)
Capacity ==
  \A r \in Ids : Cardinality(members[r]) + reservations[r] <= MaxParticipants

(* Everybody in a channel is in the one room the manager has for it: a     *)
(* reserved place keeps a room from being removed under its join.          *)
OneRoomPerChannel ==
  ~closed => \A m \in made : sessions[m.conn] = m.id =>
    rooms[m.ch] = m.room /\ m.conn \in members[m.room]

(* Rooms and peer connections go when their last user does.  A room the    *)
(* manager keeps has a session, or a join that holds a place in it, or one *)
(* that gave its place back and is about to look whether the room is       *)
(* empty: no place leaks and no empty room stays.  A peer connection is    *)
(* open only for a join that is building its session or for a session that *)
(* was installed, and none of a closed manager is still a connection's     *)
(* session: its ClosePeer is due, also when Close came in the middle of    *)
(* the join.                                                               *)
NothingKept ==
  /\ [](\A x \in Channels : rooms[x] # 0 /\ members[rooms[x]] = {} =>
           \E c \in Conns : joining[c].room = rooms[x])
  /\ [](\A p \in peers :
           \/ \E c \in Conns : joining[c].id = p /\ joining[c].at = "built"
           \/ \E m \in made : m.id = p /\ (closed => sessions[m.conn] # p))

(* The inductive invariant.  A reserved place is held by exactly one join, *)
(* and a held place keeps the join's room in the manager's table.          *)
Holding == {"reserved", "built", "cancelling"}
Unborn == {"left", "reserved", "built"}
Holders(r) == {c \in Conns : joining[c].at \in Holding /\ joining[c].room = r}

PlacesHeld == \A r \in Ids : reservations[r] = Cardinality(Holders(r))

HeldRooms ==
  \A c \in Conns : joining[c].at \in Holding =>
    /\ joining[c].room \in Ids
    /\ ~closed => rooms[joining[c].ch] = joining[c].room

JoinsApart ==
  /\ \A c \in Conns : joining[c].id \in 0..joins
  /\ \A c \in Conns : joining[c].at # "idle" =>
       /\ joining[c].id # 0 /\ joining[c].ch \in Channels
       /\ \A d \in Conns : joining[d].id = joining[c].id => c = d
  /\ \A c \in Conns : joining[c].at \in Unborn =>
       sessions[c] = 0 /\ \A m \in made : m.id # joining[c].id

SessionsKnown ==
  /\ \A m \in made : m.id \in 1..joins /\ m.room \in Ids /\ m.conn \in Conns /\ m.ch \in Channels
  /\ \A m, n \in made : m.id = n.id => m = n
  /\ \A c \in Conns : sessions[c] # 0 =>
       /\ sessions[c] \notin reported
       /\ \E m \in made : m.id = sessions[c] /\ m.conn = c
  /\ \A s \in reported : \E m \in made : m.id = s

Tables ==
  /\ sessions \in [Conns -> 0..MaxJoins] /\ rooms \in [Channels -> 0..MaxJoins]
  /\ members \in [Ids -> SUBSET Conns] /\ reservations \in [Ids -> Nat]
  /\ closed \in BOOLEAN /\ joins \in 0..MaxJoins

ManagerInv ==
  /\ Tables /\ joining \in [Conns -> Joining]
  /\ PlacesHeld /\ HeldRooms /\ JoinsApart /\ SessionsKnown
  /\ Capacity /\ OneRoomPerChannel

(* The manager keeps the promise of MediaSessions.                         *)
Promise == INSTANCE MediaSessions
             WITH Sessions <- Ids, session <- sessions, used <- {m.id : m \in made}
KeepsPromise == Promise!ASpec
=============================================================================
