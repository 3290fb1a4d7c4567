------------------------- MODULE VoiceManagerProofs -------------------------
(***************************************************************************)
(* For any number of connections, channels and joins: rooms stay within    *)
(* their limit, everybody in a channel is in the same room, and the        *)
(* manager keeps what the hub relies on (MediaSessions).  For one WebRTC   *)
(* session (VoiceSession): recoveries and the handshake deadline do not    *)
(* end what is connected, and no change is forgotten.                      *)
(***************************************************************************)
EXTENDS VoiceManager, VoiceSession, FiniteSetTheorems, TLAPS

USE ManagerAssumption DEF Ids

LEMMA InitManagerInv == Init => ManagerInv
<1> SUFFICES ASSUME Init PROVE ManagerInv
  OBVIOUS
<1>1. \A r \in Ids : Holders(r) = {}
  BY Zenon DEF Init, Holders, Holding, Resting
<1>2. Cardinality({}) = 0
  BY Zenon, FS_EmptySet
<1>3. PlacesHeld
  BY Zenon, <1>1, <1>2 DEF PlacesHeld, Init
<1>4. Tables
  <2>1. closed \in BOOLEAN
    BY Zenon DEF Init
  <2>2. members \in [Ids -> SUBSET Conns] /\ reservations \in [Ids -> Nat]
    BY Zenon DEF Init
  <2>3. /\ sessions \in [Conns -> 0..MaxJoins] /\ rooms \in [Channels -> 0..MaxJoins]
        /\ joins \in 0..MaxJoins
    BY DEF Init
  <2> QED
    BY Zenon, <2>1, <2>2, <2>3 DEF Tables
<1>8. joining \in [Conns -> Joining]
  <2>1. Resting \in Joining
    BY DEF Joining, Stages, Resting
  <2> QED
    BY Zenon, <2>1 DEF Init
<1>5. HeldRooms /\ JoinsApart
  BY DEF HeldRooms, JoinsApart, Init, Holding, Unborn, Resting
<1>6. SessionsKnown /\ OneRoomPerChannel
  BY Zenon DEF SessionsKnown, OneRoomPerChannel, Init
<1>7. Capacity
  BY <1>2 DEF Capacity, Init
<1> QED
  BY Zenon, <1>3, <1>4, <1>5, <1>6, <1>7, <1>8 DEF ManagerInv

LEMMA HoldersFinite ==
  \A r : IsFiniteSet(Holders(r)) /\ Cardinality(Holders(r)) \in Nat
BY Zenon, FS_Subset, FS_CardinalityType DEF Holders

(* A stage of a join that neither takes nor gives back a place.            *)
LEMMA SamePlaces ==
  ASSUME PlacesHeld, reservations' = reservations,
         \A c \in Conns : joining'[c].at \in Holding <=> joining[c].at \in Holding,
         \A c \in Conns : joining[c].at \in Holding => joining'[c].room = joining[c].room
  PROVE  PlacesHeld'
<1>1. \A r \in Ids : Holders(r)' = Holders(r)
  BY Zenon DEF Holders
<1> QED
  BY Zenon, <1>1 DEF PlacesHeld

(* Removing a session leaves the others where they were.                   *)
LEMMA RemoveKeeps ==
  ASSUME ManagerInv, NEW c \in Conns, sessions[c] # 0, Remove(c),
         UNCHANGED <<closed, reservations, made>>, joins' \in joins..MaxJoins,
         \A d \in Conns : joining'[d].at \in Holding =>
            joining'[d] = joining[d]
  PROVE  /\ Tables' /\ Capacity' /\ OneRoomPerChannel' /\ HeldRooms'
         /\ sessions'[c] = 0
         /\ \A d \in Conns \ {c} : sessions'[d] = sessions[d]
<1> USE DEF ManagerInv
<1>1. PICK m \in made : m.id = sessions[c] /\ m.conn = c
  BY Zenon DEF SessionsKnown
<1> DEFINE rest == members[m.room] \ {c}
<1>2. (CHOOSE n \in made : n.id = sessions[c]) = m
  BY <1>1 DEF SessionsKnown
<1>3. /\ sessions' = [sessions EXCEPT ![c] = 0]
      /\ members' = [members EXCEPT ![m.room] = rest]
      /\ rooms' = IF Empty(rest, reservations[m.room]) /\ rooms[m.ch] = m.room
                  THEN [rooms EXCEPT ![m.ch] = 0] ELSE rooms
  BY Zenon, <1>2 DEF Remove
<1>4. m.room \in Ids /\ m.ch \in Channels
  BY Zenon, <1>1 DEF SessionsKnown
<1> HIDE DEF rest
<1>5. rest \subseteq Conns /\ rest \subseteq members[m.room]
  BY Zenon, <1>4 DEF rest, Tables
<1>6. Tables'
  BY <1>3, <1>4, <1>5 DEF Tables
<1>7. Capacity'
  <2> SUFFICES ASSUME NEW r \in Ids
               PROVE  Cardinality(members'[r]) + reservations'[r] <= MaxParticipants
    BY Zenon DEF Capacity
  <2>1. members'[r] \subseteq members[r] /\ members[r] \subseteq Conns
    BY Zenon, <1>3, <1>4, <1>5 DEF Tables
  <2>2. /\ Cardinality(members'[r]) \in Nat /\ Cardinality(members[r]) \in Nat
        /\ Cardinality(members'[r]) <= Cardinality(members[r])
    BY Zenon, <2>1, FS_Subset, FS_CardinalityType
  <2> QED
    BY <2>2 DEF Capacity, Tables
<1>8. \A d \in Conns \ {c} : sessions'[d] = sessions[d]
  BY Zenon, <1>3 DEF Tables
<1>9. sessions'[c] = 0
  BY Zenon, <1>3 DEF Tables
<1>10. OneRoomPerChannel'
  <2> SUFFICES ASSUME ~closed, NEW n \in made, sessions'[n.conn] = n.id
               PROVE  rooms'[n.ch] = n.room /\ n.conn \in members'[n.room]
    BY Zenon DEF OneRoomPerChannel
  <2>1. n.id # 0 /\ n.conn \in Conns /\ n.room \in Ids /\ n.ch \in Channels
    BY DEF SessionsKnown, Tables
  <2>2. n.conn # c /\ sessions[n.conn] = n.id
    BY Zenon, <2>1, <1>8, <1>9
  <2>3. rooms[n.ch] = n.room /\ n.conn \in members[n.room]
    BY Zenon, <2>2 DEF OneRoomPerChannel
  <2>4. n.conn \in members'[n.room]
    BY Zenon, <1>3, <1>4, <2>1, <2>2, <2>3 DEF Tables, rest
  <2>5. rooms'[n.ch] = n.room
    <3>1. CASE n.ch = m.ch /\ rooms[m.ch] = m.room
      <4>1. n.conn \in rest
        BY Zenon, <3>1, <2>2, <2>3 DEF rest
      <4> QED
        BY Zenon, <4>1, <1>3, <2>3 DEF Empty
    <3>2. CASE ~(n.ch = m.ch /\ rooms[m.ch] = m.room)
      BY Zenon, <3>2, <1>3, <1>4, <2>1, <2>3 DEF Tables
    <3> QED
      BY Zenon, <3>1, <3>2
  <2> QED
    BY Zenon, <2>4, <2>5
<1>11. HeldRooms'
  <2> SUFFICES ASSUME NEW d \in Conns, joining'[d].at \in Holding
               PROVE  /\ joining[d].room \in Ids
                      /\ ~closed => rooms'[joining[d].ch] = joining[d].room
    BY Zenon DEF HeldRooms
  <2>1. joining[d].at \in Holding
    OBVIOUS
  <2>2. joining[d].room \in Ids /\ joining[d].ch \in Channels
    BY Zenon, <2>1 DEF HeldRooms, JoinsApart, Holding
  <2>3. ASSUME ~closed PROVE rooms'[joining[d].ch] = joining[d].room
    <3>1. rooms[joining[d].ch] = joining[d].room
      BY Zenon, <2>1, <2>3 DEF HeldRooms
    <3>2. CASE joining[d].ch = m.ch /\ rooms[m.ch] = m.room
      <4>1. d \in Holders(m.room)
        BY Zenon, <2>1, <3>1, <3>2 DEF Holders
      <4>2. Cardinality(Holders(m.room)) # 0
        BY Zenon, <4>1, HoldersFinite, FS_EmptySet
      <4>3. reservations[m.room] # 0
        BY Zenon, <4>2, <1>4 DEF PlacesHeld
      <4> QED
        BY Zenon, <4>3, <1>3, <3>1 DEF Empty
    <3>3. CASE ~(joining[d].ch = m.ch /\ rooms[m.ch] = m.room)
      BY <3>3, <3>1, <1>3, <1>4, <2>2 DEF Tables
    <3> QED
      BY Zenon, <3>2, <3>3
  <2> QED
    BY Zenon, <2>2, <2>3
<1> QED
  BY Zenon, <1>6, <1>7, <1>8, <1>9, <1>10, <1>11
(* A step that only moves the join of c from one stage to the next, while  *)
(* it keeps or does not have a place.                                      *)
LEMMA MoveKeeps ==
  ASSUME ManagerInv, NEW c \in Conns, NEW at \in Stages,
         joining[c].at # "idle", at # "idle",
         joining' = [joining EXCEPT ![c].at = at],
         at \in Holding <=> joining[c].at \in Holding,
         at \in Unborn => joining[c].at \in Unborn,
         UNCHANGED <<sessions, rooms, closed, members, reservations, joins, made, reported>>
  PROVE  ManagerInv'
<1> USE DEF ManagerInv
<1>1. /\ joining' \in [Conns -> Joining]
      /\ joining'[c].at = at /\ joining'[c].room = joining[c].room
      /\ joining'[c].ch = joining[c].ch /\ joining'[c].id = joining[c].id
      /\ \A d \in Conns \ {c} : joining'[d] = joining[d]
  BY Zenon DEF Joining
<1>2. PlacesHeld'
  BY <1>1, SamePlaces
<1>3. HeldRooms' /\ JoinsApart'
  BY <1>1 DEF HeldRooms, JoinsApart
<1>4. Tables' /\ SessionsKnown' /\ Capacity' /\ OneRoomPerChannel'
  BY DEF Tables, SessionsKnown, Capacity, OneRoomPerChannel
<1> QED
  BY Zenon, <1>1, <1>2, <1>3, <1>4

(* A join that ends without a place to give back.                          *)
LEMMA RestKeeps ==
  ASSUME ManagerInv, NEW c \in Conns, joining[c].at \notin Holding, Rest(c),
         UNCHANGED <<sessions, closed, members, reservations, joins, made, reported>>,
         Tables', HeldRooms', OneRoomPerChannel'
  PROVE  ManagerInv'
<1> USE DEF ManagerInv
<1>0. Resting \in Joining /\ Resting.at = "idle" /\ Resting.id = 0
  BY DEF Joining, Stages, Resting
<1>1. /\ joining' \in [Conns -> Joining] /\ joining'[c] = Resting
      /\ \A d \in Conns \ {c} : joining'[d] = joining[d]
  BY Zenon, <1>0 DEF Rest
<1>2. PlacesHeld'
  BY Zenon, <1>0, <1>1, SamePlaces DEF Holding
<1>3. JoinsApart'
  <2>1. \A d \in Conns : joining'[d].id \in 0..joins
    <3>1. 0 \in 0..joins
      BY DEF Tables
    <3> QED
      BY <1>0, <1>1, <3>1 DEF JoinsApart
  <2>2. \A d \in Conns : joining'[d].at \in Unborn =>
          sessions[d] = 0 /\ \A m \in made : m.id # joining'[d].id
    BY <1>0, <1>1 DEF JoinsApart, Unborn
  <2>3. ASSUME NEW d \in Conns, joining'[d].at # "idle"
        PROVE  /\ joining'[d].id # 0 /\ joining'[d].ch \in Channels
               /\ \A e \in Conns : joining'[e].id = joining'[d].id => d = e
    <3>1. d # c /\ joining'[d] = joining[d]
      BY Zenon, <2>3, <1>0, <1>1
    <3> QED
      BY <2>3, <3>1, <1>0, <1>1 DEF JoinsApart
  <2> QED
    BY Zenon, <2>1, <2>2, <2>3 DEF JoinsApart
<1>4. SessionsKnown' /\ Capacity'
  BY DEF SessionsKnown, Capacity
<1> QED
  BY Zenon, <1>1, <1>2, <1>3, <1>4

(* Removing a session, alone or as part of a join or a failure.            *)
LEMMA RemovalKeeps ==
  ASSUME ManagerInv, NEW c \in Conns, sessions[c] # 0, Remove(c),
         UNCHANGED <<closed, reservations, made, joining, joins>>,
         reported' \in {reported, reported \cup {sessions[c]}}
  PROVE  ManagerInv'
<1> USE DEF ManagerInv
<1>0. joins' \in joins..MaxJoins
  BY DEF Tables
<1>1. /\ Tables' /\ Capacity' /\ OneRoomPerChannel' /\ HeldRooms'
      /\ sessions'[c] = 0
      /\ \A d \in Conns \ {c} : sessions'[d] = sessions[d]
  BY Zenon, <1>0, RemoveKeeps
<1>2. PlacesHeld'
  BY Zenon, SamePlaces
<1>3. JoinsApart'
  BY <1>1 DEF JoinsApart
<1>4. SessionsKnown'
  BY <1>1 DEF SessionsKnown
<1> QED
  BY Zenon, <1>1, <1>2, <1>3, <1>4
LEMMA JoinLeaveKeeps ==
  ASSUME ManagerInv, NEW c \in Conns, JoinLeave(c) PROVE ManagerInv'
<1> USE DEF ManagerInv
<1>0. PICK x \in Channels :
        joining' = [joining EXCEPT ![c] = [at |-> "left", ch |-> x, room |-> 0, id |-> joins + 1]]
  BY Zenon DEF JoinLeave
<1> DEFINE j == [at |-> "left", ch |-> x, room |-> 0, id |-> joins + 1]
<1>1. j \in Joining /\ j.at = "left" /\ j.id = joins + 1 /\ j.ch = x
  BY DEF Joining, Stages, JoinLeave, Tables
<1>2. /\ joining' \in [Conns -> Joining] /\ joining'[c] = j
      /\ \A d \in Conns \ {c} : joining'[d] = joining[d]
  BY Zenon, <1>0, <1>1
<1> HIDE DEF j
<1>3. joining[c].at = "idle"
  BY DEF JoinLeave, Resting
<1>4. PlacesHeld'
  BY Zenon, <1>1, <1>2, <1>3, SamePlaces DEF JoinLeave, Holding
<1>5. joins' = joins + 1 /\ joins' \in joins..MaxJoins /\ joins \in Nat
  BY DEF JoinLeave, Tables
<1>6. /\ Tables' /\ Capacity' /\ OneRoomPerChannel' /\ HeldRooms'
      /\ sessions'[c] = 0
      /\ \A d \in Conns \ {c} : sessions'[d] = sessions[d]
  <2>1. CASE sessions[c] # 0
    <3>1. \A d \in Conns : joining'[d].at \in Holding => joining'[d] = joining[d]
      BY Zenon, <1>1, <1>2 DEF Holding
    <3> QED
      BY Zenon, <2>1, <3>1, <1>5, RemoveKeeps DEF JoinLeave, leave
  <2>2. CASE sessions[c] = 0
    <3>1. UNCHANGED <<sessions, members, rooms, closed, reservations, made>>
      BY Zenon, <2>2 DEF JoinLeave, leave
    <3>2. HeldRooms'
      BY <3>1, <1>1, <1>2 DEF HeldRooms, Holding
    <3>3. Tables'
      BY <3>1, <1>5 DEF Tables
    <3> QED
      BY Zenon, <2>2, <3>1, <3>2, <3>3 DEF Capacity, OneRoomPerChannel
  <2> QED
    BY Zenon, <2>1, <2>2
<1>7. JoinsApart'
  <2>1. \A d \in Conns : joining'[d].id \in 0..joins'
    BY <1>1, <1>2, <1>5 DEF JoinsApart
  <2>2. \A m \in made : m.id # joins + 1
    BY <1>5 DEF SessionsKnown
  <2>3. \A d \in Conns : joining'[d].at \in Unborn =>
          sessions'[d] = 0 /\ \A m \in made' : m.id # joining'[d].id
    BY <1>1, <1>2, <1>6, <2>2 DEF JoinsApart, JoinLeave
  <2>4. \A d \in Conns \ {c} : joining[d].id # joins + 1
    BY <1>5 DEF JoinsApart
  <2>5. \A d \in Conns : joining'[d].at # "idle" =>
          /\ joining'[d].id # 0 /\ joining'[d].ch \in Channels
          /\ \A e \in Conns : joining'[e].id = joining'[d].id => d = e
    BY SMTT(30), <1>1, <1>2, <1>5, <2>4 DEF JoinsApart
  <2> QED
    BY Zenon, <2>1, <2>3, <2>5 DEF JoinsApart
<1>8. SessionsKnown'
  BY <1>5, <1>6 DEF SessionsKnown, JoinLeave
<1> QED
  BY Zenon, <1>2, <1>4, <1>6, <1>7, <1>8

LEMMA ReserveKeeps ==
  ASSUME ManagerInv, NEW c \in Conns, Reserve(c) PROVE ManagerInv'
<1> USE DEF ManagerInv
<1>1. /\ joining[c].at = "left" /\ joining[c].at # "idle" /\ joining[c].at \notin Holding
      /\ joining[c].ch \in Channels /\ joining[c].id \in Ids
  BY DEF Reserve, JoinsApart, Holding, Tables, Joining
<1>2. PICK r \in Ids : r = RoomFor(c) /\ (rooms[joining[c].ch] # 0 => r = rooms[joining[c].ch])
  BY <1>1 DEF RoomFor, Tables
<1>3. CASE closed
  <2>1. Rest(c) /\ UNCHANGED <<rooms, reservations>>
    BY SMTT(30), <1>3 DEF Reserve
  <2>2. Tables' /\ HeldRooms' /\ OneRoomPerChannel'
    BY <1>3, <2>1 DEF Tables, HeldRooms, OneRoomPerChannel, Rest, Reserve, Resting, Holding
  <2> QED
    BY Zenon, <1>1, <2>1, <2>2, RestKeeps DEF Reserve
<1>4. CASE ~closed
  <2>1. /\ rooms' = [rooms EXCEPT ![joining[c].ch] = r]
        /\ UNCHANGED <<sessions, closed, members, joins, made, reported>>
    BY SMTT(30), <1>2, <1>4 DEF Reserve
  <2>2. \A d \in Conns : joining[d].at \in Holding =>
          joining[d].room \in Ids /\ rooms'[joining[d].ch] = joining[d].room
    <3> SUFFICES ASSUME NEW d \in Conns, joining[d].at \in Holding
                 PROVE  joining[d].room \in Ids /\ rooms'[joining[d].ch] = joining[d].room
      OBVIOUS
    <3>1. /\ joining[d].room \in Ids /\ joining[d].ch \in Channels
          /\ rooms[joining[d].ch] = joining[d].room
      BY Zenon, <1>4 DEF HeldRooms, JoinsApart, Holding
    <3> QED
      BY SMTT(30), <3>1, <1>1, <1>2, <2>1 DEF Tables
  <2>3. OneRoomPerChannel'
    <3> SUFFICES ASSUME NEW m \in made, sessions[m.conn] = m.id
                 PROVE  rooms'[m.ch] = m.room /\ m.conn \in members[m.room]
      BY Zenon, <2>1 DEF OneRoomPerChannel
    <3>1. /\ rooms[m.ch] = m.room /\ m.conn \in members[m.room]
          /\ m.room \in Ids /\ m.ch \in Channels
      BY Zenon, <1>4 DEF OneRoomPerChannel, SessionsKnown
    <3> QED
      BY <3>1, <1>1, <1>2, <2>1 DEF Tables
  <2>4. rooms' \in [Channels -> 0..MaxJoins] /\ rooms'[joining[c].ch] = r
    BY <1>1, <1>2, <2>1 DEF Tables
  <2>5. CASE Full(r)
    <3>1. Rest(c) /\ UNCHANGED reservations
      BY Zenon, <1>2, <1>4, <2>5 DEF Reserve
    <3>2. Tables'
      BY <2>1, <2>4, <3>1 DEF Tables
    <3>3. HeldRooms'
      BY <2>1, <2>2, <3>1 DEF HeldRooms, Rest, Resting, Holding
    <3> QED
      BY Zenon, <1>1, <2>1, <2>3, <3>1, <3>2, <3>3, RestKeeps
  <2>6. CASE ~Full(r)
    <3>1. /\ reservations' = [reservations EXCEPT ![r] = @ + 1]
          /\ joining' = [joining EXCEPT ![c] =
                         [at |-> "reserved", ch |-> joining[c].ch, room |-> r, id |-> joining[c].id]]
      BY <1>2, <1>4, <2>6 DEF Reserve
    <3>2. /\ joining' \in [Conns -> Joining]
          /\ joining'[c].at = "reserved" /\ joining'[c].room = r
          /\ joining'[c].ch = joining[c].ch /\ joining'[c].id = joining[c].id
          /\ \A d \in Conns \ {c} : joining'[d] = joining[d]
      <4> DEFINE j == [at |-> "reserved", ch |-> joining[c].ch, room |-> r, id |-> joining[c].id]
      <4>1. /\ j \in Joining /\ j.at = "reserved" /\ j.room = r
            /\ j.ch = joining[c].ch /\ j.id = joining[c].id
        BY <1>1, <1>2 DEF Joining, Stages
      <4>2. joining' = [joining EXCEPT ![c] = j]
        BY Zenon, <3>1
      <4> HIDE DEF j
      <4> QED
        BY <4>1, <4>2
    <3>3. Tables'
      BY SMTT(30), <2>1, <2>4, <3>1, <1>2 DEF Tables
    <3>4. HeldRooms'
      BY SMTT(30), <1>2, <2>1, <2>2, <2>4, <3>2 DEF HeldRooms
    <3>5. JoinsApart'
      BY SMTT(30), <1>1, <2>1, <3>2 DEF JoinsApart, Unborn
    <3>6. SessionsKnown'
      BY <2>1 DEF SessionsKnown
    <3>7. Capacity'
      <4>1. \A q \in Ids : Cardinality(members[q]) \in Nat
        BY SMTT(30), FS_Subset, FS_CardinalityType DEF Tables
      <4> QED
        BY SMTT(30), <4>1, <2>1, <2>6, <3>1, <1>2 DEF Capacity, Full, Tables
    <3>8. PlacesHeld'
      <4>1. Holders(r)' = Holders(r) \cup {c} /\ c \notin Holders(r)
        BY <1>1, <3>2 DEF Holders, Holding
      <4>2. \A q \in Ids \ {r} : Holders(q)' = Holders(q)
        BY <1>1, <3>2 DEF Holders, Holding
      <4>3. Cardinality(Holders(r)') = Cardinality(Holders(r)) + 1
        BY Zenon, <4>1, HoldersFinite, FS_AddElement
      <4> QED
        BY SMTT(30), <4>2, <4>3, <3>1, <1>2 DEF PlacesHeld, Tables
    <3> QED
      BY SMTT(30), <2>3, <3>2, <3>3, <3>4, <3>5, <3>6, <3>7, <3>8
  <2> QED
    BY <2>5, <2>6
<1> QED
  BY Zenon, <1>3, <1>4
LEMMA GivesBack ==
  ASSUME ManagerInv, NEW c \in Conns, NEW r \in Ids,
         joining[c].at \in Holding, joining[c].room = r,
         joining'[c].at \notin Holding,
         \A d \in Conns \ {c} : joining'[d] = joining[d],
         reservations' = [reservations EXCEPT ![r] = IF @ > 0 THEN @ - 1 ELSE @]
  PROVE  PlacesHeld' /\ reservations[r] > 0 /\ reservations' \in [Ids -> Nat]
         /\ reservations'[r] = reservations[r] - 1
         /\ \A q \in Ids \ {r} : reservations'[q] = reservations[q]
<1> USE DEF ManagerInv
<1>1. c \in Holders(r) /\ Holders(r)' = Holders(r) \ {c}
  BY DEF Holders
<1>2. \A q \in Ids \ {r} : Holders(q)' = Holders(q)
  BY DEF Holders
<1>3. Cardinality(Holders(r)') = Cardinality(Holders(r)) - 1
  <2>1. Cardinality(Holders(r) \ {c}) = Cardinality(Holders(r)) - 1
    BY Zenon, <1>1, HoldersFinite, FS_RemoveElement
  <2> QED
    BY Zenon, <1>1, <2>1
<1>4. Cardinality(Holders(r)) # 0
  BY Zenon, <1>1, HoldersFinite, FS_EmptySet
<1>5. reservations[r] > 0
  BY <1>4, HoldersFinite DEF PlacesHeld, Tables
<1>6. /\ reservations' \in [Ids -> Nat] /\ reservations'[r] = reservations[r] - 1
      /\ \A q \in Ids \ {r} : reservations'[q] = reservations[q]
  BY <1>5 DEF Tables
<1>7. PlacesHeld'
  BY <1>2, <1>3, <1>6 DEF PlacesHeld
<1> QED
  BY SMTT(30), <1>5, <1>6, <1>7

LEMMA InstallKeeps ==
  ASSUME ManagerInv, NEW c \in Conns, Install(c) PROVE ManagerInv'
<1> USE DEF ManagerInv
<1>1. /\ joining[c].at = "built" /\ joining[c].at \in Holding /\ joining[c].at \in Unborn
      /\ joining[c].at # "idle"
  BY Zenon DEF Install, Holding, Unborn
<1>2. PICK r \in Ids, s \in Ids : r = joining[c].room /\ s = joining[c].id
  BY <1>1 DEF HeldRooms, JoinsApart, Joining
<1>3. joining[c].ch \in Channels /\ s \in 1..joins
  BY <1>1, <1>2 DEF JoinsApart, Tables
<1>4. CASE closed
  <2>1. At(c, "cancelling") /\ UNCHANGED <<sessions, members, reservations, made>>
    BY <1>4 DEF Install, ClosedMeanwhile
  <2> QED
    BY Zenon, <2>1, <1>1, MoveKeeps DEF At, Stages, Holding, Unborn, Install
<1>5. CASE ~closed
  <2> DEFINE n == [id |-> s, conn |-> c, room |-> r, ch |-> joining[c].ch]
  <2>1. /\ At(c, "installed")
        /\ sessions' = [sessions EXCEPT ![c] = s]
        /\ members' = [members EXCEPT ![r] = @ \cup {c}]
        /\ reservations' = [reservations EXCEPT ![r] = IF @ > 0 THEN @ - 1 ELSE @]
        /\ made' = made \cup {n}
        /\ UNCHANGED <<rooms, closed, joins, reported>>
    BY <1>2, <1>5 DEF Install, ClosedMeanwhile
  <2>2. n.id = s /\ n.conn = c /\ n.room = r /\ n.ch = joining[c].ch
    OBVIOUS
  <2> HIDE DEF n
  <2>3. /\ joining' \in [Conns -> Joining]
        /\ joining'[c].at = "installed" /\ joining'[c].room = r
        /\ joining'[c].ch = joining[c].ch /\ joining'[c].id = s
        /\ \A d \in Conns \ {c} : joining'[d] = joining[d]
    BY <2>1, <1>2 DEF At, Joining, Stages
  <2>4. /\ PlacesHeld' /\ reservations[r] > 0 /\ reservations' \in [Ids -> Nat]
        /\ reservations'[r] = reservations[r] - 1
        /\ \A q \in Ids \ {r} : reservations'[q] = reservations[q]
    BY Zenon, <1>1, <1>2, <2>1, <2>3, GivesBack DEF Holding
  <2>5. Tables'
    BY SMTT(30), <2>1, <2>4 DEF Tables
  <2>6. HeldRooms'
    BY <2>1, <2>3 DEF HeldRooms, Holding
  <2>7. \A m \in made : m.id # s
    BY SMTT(30), <1>1, <1>2 DEF JoinsApart
  <2>8. JoinsApart'
    <3>1. \A d \in Conns \ {c} : joining[d].id # s
      BY Zenon, <1>1, <1>2 DEF JoinsApart
    <3>2. \A d \in Conns \ {c} : sessions'[d] = sessions[d]
      BY ZenonT(40), <2>1 DEF Tables
    <3>3. \A d \in Conns : joining'[d].at \in Unborn =>
            sessions'[d] = 0 /\ \A m \in made' : m.id # joining'[d].id
      BY SMTT(30), <2>1, <2>2, <2>3, <3>1, <3>2 DEF JoinsApart, Unborn
    <3>4. \A d \in Conns : joining'[d].id \in 0..joins
      BY ZenonT(40), <1>2, <1>3, <2>3 DEF JoinsApart
    <3> QED
      BY SMTT(30), <2>1, <2>3, <1>1, <1>2, <1>3, <3>3, <3>4 DEF JoinsApart
  <2>9. SessionsKnown'
    <3>1. \A m \in made' : m.id \in 1..joins' /\ m.room \in Ids /\ m.conn \in Conns /\ m.ch \in Channels
      BY Zenon, <1>3, <2>1, <2>2 DEF SessionsKnown
    <3>2. \A m, k \in made' : m.id = k.id => m = k
      BY <2>1, <2>2, <2>7 DEF SessionsKnown
    <3>3. s \notin reported
      BY Zenon, <2>7 DEF SessionsKnown
    <3>4. \A d \in Conns : sessions'[d] # 0 =>
            /\ sessions'[d] \notin reported'
            /\ \E m \in made' : m.id = sessions'[d] /\ m.conn = d
      BY Zenon, <2>1, <2>2, <3>3 DEF SessionsKnown, Tables
    <3> QED
      BY <2>1, <3>1, <3>2, <3>4 DEF SessionsKnown
  <2>10. Capacity'
    <3>1. /\ IsFiniteSet(members[r]) /\ Cardinality(members[r]) \in Nat
          /\ Cardinality(members[r] \cup {c}) \in Nat
          /\ Cardinality(members[r] \cup {c}) <= Cardinality(members[r]) + 1
      <4>1. members[r] \subseteq Conns
        BY Zenon DEF Tables
      <4>2. IsFiniteSet(members[r]) /\ Cardinality(members[r]) \in Nat
        BY Zenon, <4>1, FS_Subset, FS_CardinalityType
      <4>3. CASE c \in members[r]
        <5>1. members[r] \cup {c} = members[r]
          BY Zenon, <4>3
        <5>2. Cardinality(members[r] \cup {c}) = Cardinality(members[r])
          BY Zenon, <5>1
        <5> QED
          BY <4>2, <5>2
      <4>4. CASE c \notin members[r]
        <5>1. Cardinality(members[r] \cup {c}) = Cardinality(members[r]) + 1
          BY Zenon, <4>2, <4>4, FS_AddElement
        <5> QED
          BY <4>2, <5>1
      <4> QED
        BY Zenon, <4>2, <4>3, <4>4
    <3>2. members'[r] = members[r] \cup {c} /\ \A q \in Ids \ {r} : members'[q] = members[q]
      BY Zenon, <2>1 DEF Tables
    <3>3. Cardinality(members'[r]) + reservations'[r] <= MaxParticipants
      BY SMTT(30), <3>1, <3>2, <2>4 DEF Capacity, Tables
    <3> QED
      BY Zenon, <3>2, <3>3, <2>4 DEF Capacity
  <2>11. OneRoomPerChannel'
    <3>1. rooms[joining[c].ch] = r
      BY Zenon, <1>1, <1>2, <1>5 DEF HeldRooms
    <3>2. \A m \in made : m.conn \in Conns /\ m.room \in Ids
      BY Zenon DEF SessionsKnown
    <3>3. c \in members'[r] /\ \A q \in Ids : members[q] \subseteq members'[q]
      BY Zenon, <2>1 DEF Tables
    <3>4. sessions'[c] = s /\ \A d \in Conns \ {c} : sessions'[d] = sessions[d]
      BY Zenon, <2>1 DEF Tables
    <3>5. \A m \in made : sessions'[m.conn] = m.id =>
            rooms[m.ch] = m.room /\ m.conn \in members'[m.room]
      BY Zenon, <1>5, <2>7, <3>2, <3>3, <3>4 DEF OneRoomPerChannel
    <3> QED
      BY Zenon, <2>1, <2>2, <3>1, <3>3, <3>5 DEF OneRoomPerChannel
  <2> QED
    BY SMTT(30), <2>3, <2>4, <2>5, <2>6, <2>8, <2>9, <2>10, <2>11
<1> QED
  BY Zenon, <1>4, <1>5
LEMMA CancelKeeps ==
  ASSUME ManagerInv, NEW c \in Conns, CancelReservation(c) PROVE ManagerInv'
<1> USE DEF ManagerInv
<1>1. joining[c].at = "cancelling" /\ joining[c].at \in Holding /\ joining[c].at # "idle"
  BY Zenon DEF CancelReservation, Holding
<1>2. PICK r \in Ids : r = joining[c].room
  BY Zenon, <1>1 DEF HeldRooms
<1>3. /\ reservations' = [reservations EXCEPT ![r] = IF @ > 0 THEN @ - 1 ELSE @]
      /\ At(c, "checking")
      /\ UNCHANGED <<sessions, rooms, closed, members, joins, made, reported>>
  BY Zenon, <1>2 DEF CancelReservation
<1>4. /\ joining' \in [Conns -> Joining]
      /\ joining'[c].at = "checking" /\ joining'[c].ch = joining[c].ch
      /\ joining'[c].id = joining[c].id
      /\ \A d \in Conns \ {c} : joining'[d] = joining[d]
  BY <1>3 DEF At, Joining, Stages
<1>5. /\ PlacesHeld' /\ reservations[r] > 0 /\ reservations' \in [Ids -> Nat]
      /\ reservations'[r] = reservations[r] - 1
      /\ \A q \in Ids \ {r} : reservations'[q] = reservations[q]
  BY Zenon, <1>1, <1>2, <1>3, <1>4, GivesBack DEF Holding
<1>6. Tables'
  BY ZenonT(40), <1>3, <1>5 DEF Tables
<1>7. HeldRooms' /\ JoinsApart'
  BY SMTT(30), <1>1, <1>3, <1>4 DEF HeldRooms, JoinsApart, Holding, Unborn
<1>8. Capacity'
  <2>1. \A q \in Ids : Cardinality(members[q]) \in Nat
    BY Zenon, FS_Subset, FS_CardinalityType DEF Tables
  <2> QED
    BY SMTT(30), <2>1, <1>3, <1>5 DEF Capacity, Tables
<1>9. SessionsKnown' /\ OneRoomPerChannel'
  BY Zenon, <1>3 DEF SessionsKnown, OneRoomPerChannel
<1> QED
  BY Zenon, <1>4, <1>5, <1>6, <1>7, <1>8, <1>9

LEMMA RemoveRoomKeeps ==
  ASSUME ManagerInv, NEW c \in Conns, RemoveRoom(c) PROVE ManagerInv'
<1> USE DEF ManagerInv
<1>1. /\ joining[c].at = "removing" /\ joining[c].at \notin Holding
      /\ joining[c].ch \in Channels
  BY Zenon DEF RemoveRoom, JoinsApart, Holding
<1>2. Rest(c) /\ UNCHANGED <<sessions, closed, members, reservations, joins, made, reported>>
  BY Zenon DEF RemoveRoom
<1>3. CASE ~StillEmpty(c)
  <2>1. rooms' = rooms
    BY Zenon, <1>3 DEF RemoveRoom
  <2>2. Tables' /\ HeldRooms' /\ OneRoomPerChannel'
    BY Zenon, <1>2, <2>1 DEF Tables, HeldRooms, OneRoomPerChannel, Rest, Resting, Holding
  <2> QED
    BY Zenon, <1>1, <1>2, <2>2, RestKeeps
<1>4. CASE StillEmpty(c)
  <2>1. PICK x \in Channels, r \in 0..MaxJoins : x = joining[c].ch /\ r = joining[c].room
    BY Zenon, <1>1 DEF Joining
  <2>2. rooms' = [rooms EXCEPT ![x] = 0] /\ rooms[x] = r
    BY Zenon, <1>4, <2>1 DEF RemoveRoom, StillEmpty
  <2>3. members[r] = {} /\ reservations[r] = 0
    BY Zenon, <1>4, <2>1 DEF StillEmpty, Empty
  <2>4. Tables'
    BY SMTT(30), <1>2, <2>2 DEF Tables
  <2>5. OneRoomPerChannel'
    BY SMTT(30), <1>2, <2>2, <2>3 DEF OneRoomPerChannel, SessionsKnown, Tables
  <2>6. HeldRooms'
    <3> SUFFICES ASSUME NEW d \in Conns, joining'[d].at \in Holding
                 PROVE  /\ joining'[d].room \in Ids
                        /\ ~closed => rooms'[joining'[d].ch] = joining'[d].room
      BY Zenon, <1>2 DEF HeldRooms
    <3>1. joining'[d] = joining[d] /\ joining[d].at \in Holding /\ joining[d].ch \in Channels
      BY Zenon, <1>2 DEF Rest, Resting, Holding, JoinsApart
    <3>2. ASSUME joining[d].room = r PROVE FALSE
      <4>1. d \in Holders(r) /\ r \in Ids
        BY Zenon, <3>1, <3>2 DEF Holders, HeldRooms
      <4>2. Cardinality(Holders(r)) # 0
        BY Zenon, <4>1, HoldersFinite, FS_EmptySet
      <4> QED
        BY Zenon, <4>1, <4>2, <2>3 DEF PlacesHeld
    <3> QED
      BY Zenon, <3>1, <3>2, <2>2 DEF HeldRooms, Tables
  <2> QED
    BY Zenon, <1>1, <1>2, <2>4, <2>5, <2>6, RestKeeps
<1> QED
  BY Zenon, <1>3, <1>4

LEMMA FirstOfferKeeps ==
  ASSUME ManagerInv, NEW c \in Conns, FirstOffer(c) PROVE ManagerInv'
<1> USE DEF ManagerInv
<1>1. /\ joining[c].at = "installed" /\ joining[c].at \notin Holding /\ Rest(c)
      /\ UNCHANGED <<closed, reservations, joins, made, reported>>
  BY Zenon DEF FirstOffer, Holding
<1>2. CASE UNCHANGED <<sessions, members, rooms>>
  <2>1. Tables' /\ HeldRooms' /\ OneRoomPerChannel'
    BY Zenon, <1>1, <1>2 DEF Tables, HeldRooms, OneRoomPerChannel, Rest, Resting, Holding
  <2> QED
    BY Zenon, <1>1, <1>2, <2>1, RestKeeps
<1>3. CASE sessions[c] # 0 /\ Remove(c)
  <2>1. Resting \in Joining /\ Resting.at = "idle" /\ Resting.id = 0
    BY DEF Joining, Stages, Resting
  <2>2. /\ joining' \in [Conns -> Joining] /\ joining'[c] = Resting
        /\ \A d \in Conns \ {c} : joining'[d] = joining[d]
    BY Zenon, <1>1, <2>1 DEF Rest
  <2>3. joins' \in joins..MaxJoins /\ 0 \in 0..joins
    BY <1>1 DEF Tables
  <2>4. \A d \in Conns : joining'[d].at \in Holding => joining'[d] = joining[d]
    BY Zenon, <2>1, <2>2 DEF Holding
  <2>5. /\ Tables' /\ Capacity' /\ OneRoomPerChannel' /\ HeldRooms'
        /\ sessions'[c] = 0
        /\ \A d \in Conns \ {c} : sessions'[d] = sessions[d]
    BY Zenon, <1>1, <1>3, <2>3, <2>4, RemoveKeeps
  <2>6. PlacesHeld'
    BY Zenon, <1>1, <2>1, <2>2, SamePlaces DEF Holding
  <2>7. JoinsApart'
    <3>1. \A d \in Conns : joining'[d].id \in 0..joins
      BY ZenonT(40), <2>1, <2>2, <2>3 DEF JoinsApart
    <3>2. \A d \in Conns : joining'[d].at \in Unborn =>
            sessions'[d] = 0 /\ \A m \in made : m.id # joining'[d].id
      BY SMTT(30), <2>1, <2>2, <2>5 DEF JoinsApart, Unborn
    <3>3. \A d \in Conns : joining'[d].at # "idle" =>
            /\ joining'[d].id # 0 /\ joining'[d].ch \in Channels
            /\ \A e \in Conns : joining'[e].id = joining'[d].id => d = e
      BY <2>1, <2>2 DEF JoinsApart
    <3> QED
      BY <1>1, <3>1, <3>2, <3>3 DEF JoinsApart
  <2>8. SessionsKnown'
    <3>1. SessionsKnown
      OBVIOUS
    <3>2. made' = made /\ reported' = reported /\ joins' = joins
      BY Zenon, <1>1
    <3> HIDE DEF ManagerInv
    <3>3. \A d \in Conns : sessions'[d] # 0 => sessions'[d] = sessions[d]
      BY ZenonT(40), <2>5
    <3>4. \A d \in Conns : sessions'[d] # 0 =>
            /\ sessions'[d] \notin reported
            /\ \E m \in made : m.id = sessions'[d] /\ m.conn = d
      BY <3>1, <3>3 DEF SessionsKnown
    <3> QED
      BY Zenon, <3>1, <3>2, <3>4 DEF SessionsKnown
  <2> QED
    BY Zenon, <2>2, <2>5, <2>6, <2>7, <2>8
<1> QED
  BY Zenon, <1>2, <1>3 DEF FirstOffer, leave
LEMMA CloseKeeps ==
  ASSUME ManagerInv, Close PROVE ManagerInv'
<1> USE DEF ManagerInv
<1>1. PlacesHeld'
  BY Zenon, SamePlaces DEF Close
<1>2. closed' = TRUE /\ UNCHANGED <<members, reservations, joining, joins, made, reported>>
  BY Zenon DEF Close
<1>3. \A c \in Conns : sessions'[c] = 0
  BY Zenon DEF Close
<1>4. Tables'
  <2>1. closed' \in BOOLEAN
    BY <1>2, Zenon
  <2>2. sessions' \in [Conns -> 0..MaxJoins] /\ rooms' \in [Channels -> 0..MaxJoins]
    BY DEF Close
  <2> QED
    BY Zenon, <1>2, <2>1, <2>2 DEF Tables
<1>5. HeldRooms' /\ OneRoomPerChannel'
  BY ZenonT(40), <1>2 DEF HeldRooms, OneRoomPerChannel
<1>6. JoinsApart' /\ SessionsKnown' /\ Capacity'
  BY <1>2, <1>3 DEF JoinsApart, SessionsKnown, Capacity
<1> QED
  BY Zenon, <1>1, <1>2, <1>4, <1>5, <1>6

LEMMA NextManagerInv == ManagerInv /\ [Next]_vars => ManagerInv'
<1> SUFFICES ASSUME ManagerInv, [Next]_vars PROVE ManagerInv'
  OBVIOUS
<1>1. ASSUME NEW c \in Conns, JoinLeave(c) PROVE ManagerInv'
  BY Zenon, <1>1, JoinLeaveKeeps
<1>2. ASSUME NEW c \in Conns, Reserve(c) PROVE ManagerInv'
  BY Zenon, <1>2, ReserveKeeps
<1>3. ASSUME NEW c \in Conns, Build(c) PROVE ManagerInv'
  <2>1. CASE At(c, "built")
    BY Zenon, <1>3, <2>1, MoveKeeps DEF Build, At, Stages, Holding, Unborn
  <2>2. CASE At(c, "cancelling")
    BY Zenon, <1>3, <2>2, MoveKeeps DEF Build, At, Stages, Holding, Unborn
  <2> QED
    BY Zenon, <1>3, <2>1, <2>2 DEF Build
<1>4. ASSUME NEW c \in Conns, Install(c) PROVE ManagerInv'
  BY Zenon, <1>4, InstallKeeps
<1>5. ASSUME NEW c \in Conns, FirstOffer(c) PROVE ManagerInv'
  BY Zenon, <1>5, FirstOfferKeeps
<1>6. ASSUME NEW c \in Conns, CancelReservation(c) PROVE ManagerInv'
  BY Zenon, <1>6, CancelKeeps
<1>7. ASSUME NEW c \in Conns, CheckRoom(c) PROVE ManagerInv'
  <2>1. CASE At(c, "removing")
    BY Zenon, <1>7, <2>1, MoveKeeps DEF CheckRoom, At, Stages, Holding, Unborn
  <2>2. CASE Rest(c)
    <3>1. Tables' /\ HeldRooms' /\ OneRoomPerChannel'
      BY Zenon, <1>7, <2>2 DEF ManagerInv, CheckRoom, Tables, HeldRooms, OneRoomPerChannel, Rest, Resting, Holding
    <3> QED
      BY Zenon, <1>7, <2>2, <3>1, RestKeeps DEF CheckRoom, Holding
  <2> QED
    BY Zenon, <1>7, <2>1, <2>2 DEF CheckRoom
<1>8. ASSUME NEW c \in Conns, RemoveRoom(c) PROVE ManagerInv'
  BY Zenon, <1>8, RemoveRoomKeeps
<1>9. ASSUME NEW c \in Conns, Leave(c) PROVE ManagerInv'
  BY Zenon, <1>9, RemovalKeeps DEF Leave
<1>10. ASSUME NEW m \in made, failSession(m) PROVE ManagerInv'
  <2>1. PICK c \in Conns : c = m.conn
    BY Zenon DEF ManagerInv, SessionsKnown
  <2>2. sessions[c] = m.id /\ sessions[c] # 0
    BY SMTT(30), <1>10, <2>1 DEF failSession, Expected, ManagerInv, SessionsKnown
  <2> QED
    BY Zenon, <1>10, <2>1, <2>2, RemovalKeeps DEF failSession
<1>11. ASSUME NEW m \in made, ClosePeer(m) PROVE ManagerInv'
  <2>1. UNCHANGED <<sessions, rooms, closed, members, reservations, joining, joins, made, reported>>
    BY Zenon, <1>11 DEF ClosePeer
  <2>2. PlacesHeld'
    BY Zenon, <2>1, SamePlaces DEF ManagerInv
  <2> QED
    BY SMTT(30), <2>1, <2>2 DEF ManagerInv, Tables, HeldRooms, JoinsApart, SessionsKnown, Capacity, OneRoomPerChannel
<1>12. CASE Close
  BY ZenonT(40), <1>12, CloseKeeps
<1>13. CASE UNCHANGED vars
  <2>1. PlacesHeld'
    BY Zenon, <1>13, SamePlaces DEF vars, ManagerInv
  <2> QED
    BY SMTT(30), <1>13, <2>1 DEF vars, ManagerInv, Tables, HeldRooms, JoinsApart, SessionsKnown, Capacity, OneRoomPerChannel
<1> QED
  BY Zenon, <1>1, <1>2, <1>3, <1>4, <1>5, <1>6, <1>7, <1>8, <1>9, <1>10, <1>11, <1>12, <1>13
     DEF Next, JoinStep

(* The manager's tables and the joins at work agree: a place is reserved   *)
(* for each join between reserve and its end, and each session is in the   *)
(* room of its channel.                                                    *)
THEOREM ManagerInvariant == Spec => []ManagerInv
BY InitManagerInv, NextManagerInv, PTL DEF Spec

(* No interleaving of joins, failures and leaves overfills a room: the     *)
(* check of room.reserve counts the places of joins still building their   *)
(* peer connection.                                                        *)
THEOREM RoomsWithinLimit == Spec => []Capacity
<1>1. ManagerInv => Capacity
  BY Zenon DEF ManagerInv
<1> QED
  BY <1>1, ManagerInvariant, PTL

(* All sessions of a channel are in the room the manager has for it, so    *)
(* everybody who joined hears everybody: neither leave nor                 *)
(* removeRoomIfEmpty takes a room away from a join that holds a place.     *)
THEOREM ChannelHasOneRoom == Spec => []OneRoomPerChannel
<1>1. ManagerInv => OneRoomPerChannel
  BY Zenon DEF ManagerInv
<1> QED
  BY <1>1, ManagerInvariant, PTL

(* The manager implements MediaSessions, what the hub relies on: at most   *)
(* one session for a connection, each installed once and where there was   *)
(* none, and a failure reported once, for the session that was current.    *)
THEOREM ManagerRefines == Spec => KeepsPromise
<1> DEFINE used == {m.id : m \in made}
<1> USE DEF Promise!Remove, Promise!Install, Promise!Fail, Promise!Shut, Promise!ANext, Promise!avars
<1>1. Init => Promise!AInit
  BY Zenon DEF Init, Promise!AInit
<1>2. ManagerInv /\ [Next]_vars => [Promise!ANext]_(Promise!avars)
  <2> SUFFICES ASSUME ManagerInv, [Next]_vars PROVE [Promise!ANext]_(Promise!avars)
    BY Zenon
  <2>0. ASSUME UNCHANGED <<sessions, made, reported>> PROVE UNCHANGED Promise!avars
    BY Zenon, <2>0
  <2>1. ASSUME NEW c \in Conns, sessions[c] # 0, Remove(c), UNCHANGED <<made, reported>>
        PROVE  Promise!Remove(c)
    BY Zenon, <2>1 DEF Remove
  <2>2. ASSUME NEW c \in Conns, leave(c), UNCHANGED <<made, reported>>
        PROVE  [Promise!ANext]_(Promise!avars)
    BY Zenon, <2>0, <2>1, <2>2 DEF leave
  <2>3. ASSUME NEW c \in Conns, Install(c) PROVE [Promise!ANext]_(Promise!avars)
    <3>1. CASE closed
      BY Zenon, <2>0, <2>3, <3>1 DEF Install, ClosedMeanwhile
    <3>2. CASE ~closed
      <4>1. PICK s \in Ids : s = joining[c].id
        <5>1. joining[c].id \in 0..MaxJoins /\ joining[c].id # 0
          BY ZenonT(40), <2>3 DEF Install, ManagerInv, JoinsApart, Joining
        <5> QED
          BY <5>1
      <4>2. sessions[c] = 0 /\ s \notin used
        BY <2>3, <4>1 DEF Install, ManagerInv, JoinsApart, Unborn
      <4>3. /\ sessions' = [sessions EXCEPT ![c] = s] /\ UNCHANGED reported
            /\ made' = made \cup {[id |-> s, conn |-> c, room |-> joining[c].room, ch |-> joining[c].ch]}
        BY Zenon, <2>3, <3>2, <4>1 DEF Install, ClosedMeanwhile
      <4>4. used' = used \cup {s}
        <5> DEFINE n == [id |-> s, conn |-> c, room |-> joining[c].room, ch |-> joining[c].ch]
        <5>1. n.id = s /\ made' = made \cup {n}
          BY Zenon, <4>3
        <5> HIDE DEF n
        <5> QED
          BY Zenon, <5>1
      <4>5. Promise!Install(c, s)
        BY Zenon, <4>2, <4>3, <4>4
      <4> QED
        BY Zenon, <4>5
    <3> QED
      BY Zenon, <3>1, <3>2
  <2>4. ASSUME NEW m \in made, failSession(m) PROVE [Promise!ANext]_(Promise!avars)
    <3>1. PICK c \in Conns : c = m.conn
      BY Zenon DEF ManagerInv, SessionsKnown
    <3>2. sessions[c] = m.id /\ sessions[c] # 0 /\ sessions[c] \notin reported
      <4>1. sessions[c] = m.id BY Zenon, <2>4, <3>1 DEF failSession, Expected
      <4>2. m.id # 0
        <5>1. m.id \in 1..joins BY Zenon DEF ManagerInv, SessionsKnown
        <5>2. joins \in 0..MaxJoins BY Zenon DEF ManagerInv, Tables
        <5> QED BY <5>1, <5>2
      <4>3. sessions[c] \notin reported BY Zenon, <3>1, <4>1, <4>2 DEF ManagerInv, SessionsKnown
      <4> QED BY Zenon, <4>1, <4>2, <4>3
    <3>3. /\ sessions' = [sessions EXCEPT ![c] = 0] /\ reported' = reported \cup {sessions[c]}
          /\ made' = made
      BY Zenon, <2>4, <3>1, <3>2 DEF failSession, Remove
    <3>4. Promise!Fail(c)
      BY Zenon, <3>2, <3>3
    <3> QED
      BY Zenon, <3>4
  <2>5. ASSUME NEW c \in Conns, JoinLeave(c) \/ FirstOffer(c) \/ Leave(c)
        PROVE  [Promise!ANext]_(Promise!avars)
    <3>1. UNCHANGED <<made, reported>>
      BY Zenon, <2>5 DEF JoinLeave, FirstOffer, Leave
    <3>2. leave(c) \/ UNCHANGED <<sessions, members, rooms>>
      BY Zenon, <2>5 DEF JoinLeave, FirstOffer, Leave, leave
    <3> QED
      BY Zenon, <3>1, <3>2, <2>0, <2>2
  <2>6. ASSUME NEW c \in Conns,
               Reserve(c) \/ Build(c) \/ CancelReservation(c) \/ CheckRoom(c) \/ RemoveRoom(c)
        PROVE  [Promise!ANext]_(Promise!avars)
    BY Zenon, <2>0, <2>6 DEF Reserve, Build, CancelReservation, CheckRoom, RemoveRoom
  <2>7. ASSUME NEW m \in made, ClosePeer(m) PROVE [Promise!ANext]_(Promise!avars)
    BY Zenon, <2>0, <2>7 DEF ClosePeer
  <2>8. CASE Close
    BY Zenon, <2>8 DEF Close
  <2>9. CASE UNCHANGED vars
    BY Zenon, <2>0, <2>9 DEF vars
  <2> QED
    BY Zenon, <2>3, <2>4, <2>5, <2>6, <2>7, <2>8, <2>9 DEF Next, JoinStep
<1> QED
  BY <1>1, <1>2, ManagerInvariant, PTL DEF Spec, KeepsPromise, Promise!ASpec
-----------------------------------------------------------------------------
(* One session's peer connection.  For any limits and any number of        *)
(* changes, callbacks in any order: one recovery at a time, no expiry once  *)
(* connected, and no deferred change forgotten unless Pion refuses a        *)
(* buffered candidate.                                                     *)
(* OneRecovery with what it needs to be inductive.                         *)
RecoveryInv == DOMAIN runs = Runs /\ \A r \in Runs : OneRecovery(r)

(* Nothing expires once the deadline is finished, and the Connected        *)
(* callback finishes it.                                                   *)
DeadlineInv == greeted => stage = 3

LEMMA GoKeeps ==
  ASSUME RecoveryInv, NEW r \in Runs, NEW at \in RunStages \ {"none"},
         runs[r] \notin {"none", "done"}, Go(r, at), UNCHANGED <<cancel, stopped>>
  PROVE  RecoveryInv'
BY Zenon DEF RecoveryInv, OneRecovery, Go, RunStages

LEMMA StopKeeps ==
  ASSUME RecoveryInv, StopRecovery PROVE RecoveryInv'
BY Zenon DEF RecoveryInv, OneRecovery, StopRecovery

LEMMA StartKeeps ==
  ASSUME RecoveryInv, NEW now, Start(now) PROVE RecoveryInv'
<1>1. CASE cancel # 0 /\ ~now
  BY Zenon, <1>1 DEF RecoveryInv, OneRecovery, Start, recovery
<1>2. CASE ~(cancel # 0 /\ ~now)
  <2>1. PICK r \in Runs :
          /\ cancel' = r
          /\ stopped' = IF cancel = 0 THEN stopped ELSE stopped \cup {cancel}
          /\ runs' = [runs EXCEPT ![r] = IF now THEN "soon" ELSE "waiting"]
    BY Zenon, <1>2 DEF Start
  <2>2. DOMAIN runs' = Runs /\ \A q \in Runs \ {r} : runs'[q] = runs[q]
    BY Zenon, <2>1 DEF RecoveryInv
  <2>3. ASSUME NEW q \in Runs \ {r}, runs'[q] \notin {"none", "done"}
        PROVE  q \in stopped'
    <3>1. q \in stopped \/ cancel = q
      BY Zenon, <2>2, <2>3 DEF RecoveryInv, OneRecovery
    <3>2. q # 0
      BY DEF Runs
    <3> QED
      BY Zenon, <2>1, <3>1, <3>2
  <2> QED
    BY Zenon, <2>1, <2>2, <2>3 DEF RecoveryInv, OneRecovery
<1> QED
  BY Zenon, <1>1, <1>2

LEMMA NextRecoveryInv == RecoveryInv /\ [SessionNext]_sessionVars => RecoveryInv'
<1> SUFFICES ASSUME RecoveryInv, [SessionNext]_sessionVars PROVE RecoveryInv'
  OBVIOUS
<1>0. ASSUME UNCHANGED <<cancel, runs, stopped>> PROVE RecoveryInv'
  BY Zenon, <1>0 DEF RecoveryInv, OneRecovery
<1>1. CASE TracksChange \/ AcceptAnswer \/ AddBuffered \/ EndAnswer \/ AddCandidate
  BY Zenon, <1>0, <1>1 DEF TracksChange, AcceptAnswer, AddBuffered, EndAnswer, AddCandidate, recovery
<1>2. ASSUME NEW k \in {1, 2}, TimerStep(k) PROVE RecoveryInv'
  BY Zenon, <1>0, <1>2 DEF TimerStep, TimerFires, TimerRuns, recovery
<1>3. ASSUME NEW r \in Runs, Wait(r) PROVE RecoveryInv'
  BY Zenon, <1>3, GoKeeps DEF Wait, RunStages
<1>4. ASSUME NEW r \in Runs, Check(r) PROVE RecoveryInv'
  BY Zenon, <1>4, GoKeeps DEF Check, RunStages
<1>5. ASSUME NEW r \in Runs, Attempt(r) PROVE RecoveryInv'
  BY Zenon, <1>5, GoKeeps DEF Attempt, RunStages
<1>6. ASSUME NEW r \in Runs, Exhaust(r) PROVE RecoveryInv'
  BY Zenon, <1>6, GoKeeps DEF Exhaust, RunStages
<1>7. ASSUME NEW r \in Runs, Clear(r) PROVE RecoveryInv'
  BY Zenon, <1>7 DEF Clear, Go, RecoveryInv, OneRecovery
<1>8. CASE PeerChanges \/ Fail \/ LeaveSession
  BY Zenon, <1>0, <1>8 DEF PeerChanges, Fail, LeaveSession, recovery
<1>9. CASE HandleState
  <2>1. StopRecovery \/ UNCHANGED recovery
    BY Zenon, <1>9 DEF HandleState
  <2> QED
    BY Zenon, <1>0, <2>1, StopKeeps DEF recovery
<1>10. CASE StartRecovery
  <2>1. PICK i \in DOMAIN starting : Start(starting[i])
    BY Zenon, <1>10 DEF StartRecovery
  <2>2. PICK now : now = starting[i]
    OBVIOUS
  <2> QED
    BY Zenon, <2>1, <2>2, StartKeeps
<1>11. CASE CloseSession
  BY Zenon, <1>11, StopKeeps DEF CloseSession
<1>12. CASE UNCHANGED sessionVars
  BY Zenon, <1>0, <1>12 DEF sessionVars, recovery
<1> QED
  BY SMTT(30), <1>1, <1>2, <1>3, <1>4, <1>5, <1>6, <1>7, <1>8, <1>9, <1>10, <1>11, <1>12 DEF SessionNext, RunStep

(* The controller never has two recoveries at work: a run whose channel is *)
(* still open is the one the controller holds.                             *)
THEOREM RecoveriesDoNotCompete == SessionSpec => [](\A r \in Runs : OneRecovery(r))
<1>1. SessionInit => RecoveryInv
  BY Zenon DEF SessionInit, RecoveryInv, OneRecovery
<1>2. RecoveryInv => \A r \in Runs : OneRecovery(r)
  BY Zenon DEF RecoveryInv
<1> QED
  BY <1>1, <1>2, NextRecoveryInv, PTL DEF SessionSpec
----------------------------------------------------------------------------
LEMMA NextDeadlineInv == DeadlineInv /\ [SessionNext]_sessionVars => DeadlineInv'
<1> SUFFICES ASSUME DeadlineInv, [SessionNext]_sessionVars PROVE DeadlineInv'
  OBVIOUS
<1> USE DEF DeadlineInv
<1>1. CASE TracksChange \/ AddBuffered \/ EndAnswer \/ AddCandidate
  BY Zenon, <1>1 DEF TracksChange, AddBuffered, EndAnswer, AddCandidate, deadline, history
<1>2. CASE AcceptAnswer
  BY <1>2 DEF AcceptAnswer, Answer, deadline, history
<1>3. ASSUME NEW k \in {1, 2}, TimerStep(k) PROVE DeadlineInv'
  BY Zenon, <1>3 DEF TimerStep, TimerFires, TimerRuns, history
<1>4. ASSUME NEW r \in Runs, RunStep(r) PROVE DeadlineInv'
  BY Zenon, <1>4 DEF RunStep, Wait, Check, Attempt, Exhaust, Clear, deadline, history
<1>5. CASE PeerChanges \/ StartRecovery \/ Fail \/ LeaveSession
  BY Zenon, <1>5 DEF PeerChanges, StartRecovery, Fail, LeaveSession, deadline, history
<1>6. CASE HandleState
  <2>1. Stop \/ (UNCHANGED stage /\ UNCHANGED greeted)
    BY Zenon, <1>6 DEF HandleState, deadline
  <2> QED
    BY Zenon, <2>1 DEF Stop
<1>7. CASE CloseSession
  BY Zenon, <1>7 DEF CloseSession, Stop, history
<1>8. CASE UNCHANGED sessionVars
  BY Zenon, <1>8 DEF sessionVars, deadline, history
<1> QED
  BY SMTT(30), <1>1, <1>2, <1>3, <1>4, <1>5, <1>6, <1>7, <1>8 DEF SessionNext

LEMMA OnlyTimersExpire ==
  DeadlineInv /\ [SessionNext]_sessionVars => (greeted /\ ~expired => ~expired')
<1> SUFFICES ASSUME DeadlineInv, [SessionNext]_sessionVars, greeted, ~expired PROVE ~expired'
  OBVIOUS
<1>1. stage = 3
  BY Zenon DEF DeadlineInv
<1>2. CASE TracksChange \/ AddBuffered \/ EndAnswer \/ AddCandidate
  BY Zenon, <1>2 DEF TracksChange, AddBuffered, EndAnswer, AddCandidate, deadline
<1>3. CASE AcceptAnswer
  BY Zenon, <1>1, <1>3 DEF AcceptAnswer, Answer, deadline
<1>4. ASSUME NEW k \in {1, 2}, TimerStep(k) PROVE ~expired'
  <2>1. ~StageCurrent(k)
    BY <1>1 DEF StageCurrent
  <2>2. expired' = expired
    BY Zenon, <1>4, <2>1 DEF TimerStep, TimerFires, TimerRuns
  <2> QED
    BY Zenon, <2>2
<1>5. ASSUME NEW r \in Runs, RunStep(r) PROVE ~expired'
  BY Zenon, <1>5 DEF RunStep, Wait, Check, Attempt, Exhaust, Clear, deadline
<1>6. CASE PeerChanges \/ StartRecovery \/ Fail \/ LeaveSession
  BY Zenon, <1>6 DEF PeerChanges, StartRecovery, Fail, LeaveSession, deadline
<1>7. CASE HandleState
  BY Zenon, <1>7 DEF HandleState, Stop, deadline
<1>8. CASE CloseSession
  BY Zenon, <1>8 DEF CloseSession, Stop
<1>9. CASE UNCHANGED sessionVars
  BY Zenon, <1>9 DEF sessionVars, deadline
<1> QED
  BY <1>2, <1>3, <1>4, <1>5, <1>6, <1>7, <1>8, <1>9 DEF SessionNext

(* A timer of the first exchange that had fired before the connection was  *)
(* up finds the deadline finished and does not fail the session.           *)
THEOREM ConnectedIsSafe == SessionSpec => NoExpiryOnceConnected
<1>1. SessionInit => DeadlineInv
  BY Zenon DEF SessionInit, Offered, Established, DeadlineInv
<1>2. DeadlineInv /\ [SessionNext]_sessionVars => [greeted /\ ~expired => ~expired']_sessionVars
  BY Zenon, OnlyTimersExpire
<1> QED
  BY <1>1, <1>2, NextDeadlineInv, PTL DEF SessionSpec, NoExpiryOnceConnected

(* Together: a run of the recovery never works beside another, and no      *)
(* deadline ends a session that is connected.                              *)
THEOREM RecoveryIsSafe == SessionSpec => RecoverySafe
  BY RecoveriesDoNotCompete, ConnectedIsSafe, PTL DEF RecoverySafe

----------------------------------------------------------------------------
LEMMA OfferSettles ==
  ASSUME Synchronize \/ RestartICE
  PROVE  (pending' \/ restart') => signalling' # "stable"
BY Zenon DEF Synchronize, RestartICE, Offer, Unsent

LEMMA NextDeferred ==
  ASSUME BadCandidates = FALSE, DeferredOfferSent, [SessionNext]_sessionVars
  PROVE  DeferredOfferSent'
<1> USE DEF DeferredOfferSent
<1>0. ASSUME UNCHANGED <<signalling, pending, restart, accepting>>, ended => ended'
      PROVE  DeferredOfferSent'
  BY Zenon, <1>0
<1>1. CASE TracksChange
  BY Zenon, <1>1, OfferSettles DEF TracksChange
<1>2. CASE AcceptAnswer
  BY Zenon, <1>2 DEF AcceptAnswer, ChangeDeferred
<1>3. CASE AddBuffered
  BY Zenon, <1>3 DEF AddBuffered, negotiation, ending
<1>4. CASE EndAnswer
  <2>1. CASE accepting = "resync" /\ ~ended /\ (pending \/ restart)
    BY Zenon, <1>4, <2>1, OfferSettles DEF EndAnswer
  <2>2. CASE ~(accepting = "resync" /\ ~ended /\ (pending \/ restart))
    BY Zenon, <1>4, <2>2 DEF EndAnswer, negotiation
  <2> QED
    BY Zenon, <2>1, <2>2
<1>5. CASE AddCandidate
  BY Zenon, <1>0, <1>5 DEF AddCandidate, RemoveSession, negotiation
<1>6. ASSUME NEW k \in {1, 2}, TimerStep(k) PROVE DeferredOfferSent'
  BY Zenon, <1>0, <1>6 DEF TimerStep, TimerFires, TimerRuns, negotiation, candidates, ending
<1>7. ASSUME NEW r \in Runs, Attempt(r) PROVE DeferredOfferSent'
  <2>1. CASE ended
    BY Zenon, <1>7, <2>1 DEF Attempt
  <2>2. CASE ~ended
    BY Zenon, <1>7, <2>2, OfferSettles DEF Attempt
  <2> QED
    BY Zenon, <2>1, <2>2
<1>8. ASSUME NEW r \in Runs, Wait(r) \/ Check(r) \/ Exhaust(r) \/ Clear(r)
      PROVE  DeferredOfferSent'
  BY Zenon, <1>0, <1>8 DEF Wait, Check, Exhaust, Clear, negotiation, candidates, ending
<1>9. CASE PeerChanges \/ StartRecovery
  BY Zenon, <1>0, <1>9 DEF PeerChanges, StartRecovery, negotiation, candidates, ending
<1>10. CASE HandleState
  BY <1>0, <1>10 DEF HandleState, negotiation, candidates
<1>11. CASE Fail \/ LeaveSession \/ CloseSession
  BY Zenon, <1>0, <1>11 DEF Fail, LeaveSession, CloseSession, RemoveSession, negotiation, candidates
<1>12. CASE UNCHANGED sessionVars
  BY Zenon, <1>0, <1>12 DEF sessionVars, negotiation, candidates, ending
<1> QED
  BY <1>1, <1>2, <1>3, <1>4, <1>5, <1>6, <1>7, <1>8, <1>9, <1>10, <1>11, <1>12 DEF SessionNext, RunStep

(* While Pion accepts the buffered candidates, a change that came while an *)
(* answer was due is never forgotten: either an answer is still due or the *)
(* acceptAnswer at work is going to offer it.                              *)
THEOREM DeferredChangesKept ==
  ASSUME BadCandidates = FALSE
  PROVE  SessionSpec => []DeferredOfferSent
<1>1. SessionInit => DeferredOfferSent
  BY Zenon DEF SessionInit, DeferredOfferSent
<1>2. DeferredOfferSent /\ [SessionNext]_sessionVars => DeferredOfferSent'
  BY Zenon, NextDeferred
<1> QED
  BY <1>1, <1>2, PTL DEF SessionSpec
=============================================================================
