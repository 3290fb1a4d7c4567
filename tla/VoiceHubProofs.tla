--------------------------- MODULE VoiceHubProofs ---------------------------
(***************************************************************************)
(* For every set of connections, users, channels and operations: the       *)
(* roster of module VoiceHub stays exact, a failure callback only ever     *)
(* removes the join it was made for, the media sessions follow the roster, *)
(* and what an administrator revokes stays revoked, although joins check   *)
(* their access before they enter, install their session after it, and are *)
(* undone by callbacks.                                                    *)
(***************************************************************************)
EXTENDS VoiceHub, TLAPS

RosterOK == RosterType /\ UsersOwn /\ RosterExact

(* What an operation that admits nobody does to the entries.               *)
OnlyRemoves == \A d \in Conns : byClient'[d] = byClient[d] \/ byClient'[d].gen = 0

(* removeLocked and leave keep the three maps in agreement.                *)
LEMMA LeaveKeeps ==
  ASSUME RosterOK, NEW c \in Conns, leave(c), UNCHANGED nextGeneration
  PROVE  RosterOK' /\ OnlyRemoves
<1>. USE VoiceAssumption DEF RosterOK, RosterType, UsersOwn, RosterExact, In
<1>1. CASE ~In(c)
  BY <1>1 DEF leave, roster, OnlyRemoves
<1>2. CASE In(c)
  <2>1. removeLocked(c) BY Zenon, <1>2 DEF leave
  <2>2. byClient[c].ch \in Channels /\ Owner(c) \in Users /\ byUser[Owner(c)] = c
    BY Zenon, <1>2
  <2>3. RosterType' BY <2>1, <2>2 DEF removeLocked, NoParticipant
  <2>4. \A d \in Conns : d # c => byClient'[d] = byClient[d]
    BY <2>1 DEF removeLocked
  <2>5. byClient'[c] = NoParticipant BY <2>1 DEF removeLocked
  <2>6. byUser' = [byUser EXCEPT ![Owner(c)] = "none"]
    BY Zenon, <2>1, <2>2 DEF removeLocked
  <2>7. UsersOwn' BY <2>6
  <2>8. \A d \in Conns : In(d)' <=> (byUser[Owner(d)] = d)'
    <3>. TAKE d \in Conns
    <3>1. CASE d = c BY <3>1, <2>5, <2>6, <2>2 DEF NoParticipant
    <3>2. CASE d # c /\ Owner(d) = Owner(c) BY <3>2, <2>4, <2>6, <2>2
    <3>3. CASE Owner(d) # Owner(c) BY <3>3, <2>4, <2>6, <2>2
    <3>. QED BY Zenon, <3>1, <3>2, <3>3
  <2>9. \A d \in Conns, x \in Channels :
          (d \in byChannel[x])' <=> (In(d) /\ byClient[d].ch = x)'
    BY <2>1, <2>2, <2>4, <2>5 DEF removeLocked, NoParticipant
  <2>10. OnlyRemoves BY <2>4, <2>5 DEF OnlyRemoves, NoParticipant
  <2>. QED BY Zenon, <2>3, <2>7, <2>8, <2>9, <2>10
<1>. QED BY Zenon, <1>1, <1>2

(* removeChannel and removeServer do too: they remove every connection of  *)
(* some rooms.                                                             *)
LEMMA RemoveAllKeeps ==
  ASSUME RosterOK, NEW X \in SUBSET Channels, NEW S,
         S = {c \in Conns : In(c) /\ byClient[c].ch \in X}, RemoveAll(S),
         byChannel' = [x \in Channels |-> IF x \in X THEN {} ELSE byChannel[x]],
         UNCHANGED nextGeneration
  PROVE  RosterOK' /\ OnlyRemoves
<1>. USE VoiceAssumption DEF RosterOK, RosterType, UsersOwn, RosterExact, In
<1>1. RosterType' BY DEF RemoveAll, NoParticipant
<1>2. UsersOwn' BY Zenon DEF RemoveAll
<1>3. \A d \in Conns : d \in S <=> In(d) /\ byClient[d].ch \in X OBVIOUS
<1>4. \A d \in Conns : byClient'[d] = IF d \in S THEN NoParticipant ELSE byClient[d]
  BY Zenon DEF RemoveAll
<1>5. \A d \in Conns : In(d)' <=> (byUser[Owner(d)] = d)'
  BY <1>3, <1>4 DEF RemoveAll, NoParticipant
<1>6. \A d \in Conns, x \in Channels :
        (d \in byChannel[x])' <=> (In(d) /\ byClient[d].ch = x)'
  BY <1>3, <1>4 DEF NoParticipant
<1>7. OnlyRemoves BY <1>4 DEF OnlyRemoves, NoParticipant
<1>. QED BY Zenon, <1>1, <1>2, <1>5, <1>6, <1>7
(* join admits c alone, under a new generation, and removes the user's     *)
(* other connection.                                                       *)
LEMMA JoinKeeps ==
  ASSUME RosterOK, NEW c \in Conns, NEW x \in Channels, NEW e \in BOOLEAN, join(c, x, e)
  PROVE  /\ RosterOK'
         /\ \A d \in Conns : Owner(d) # Owner(c) => byClient'[d] = byClient[d]
<1>. DEFINE entry == [gen |-> nextGeneration + 1, ch |-> x, e2ee |-> e]
<1>. USE VoiceAssumption DEF RosterOK, RosterType, UsersOwn, RosterExact, In
<1>0. nextGeneration' \in Nat /\ entry.gen > 0 /\ entry.ch = x /\ Owner(c) \in Users
      /\ entry \in [gen : Nat, ch : Channels \cup {"none"}, e2ee : BOOLEAN]
  BY DEF join
<1>1. CASE Refreshes(c, x, e)
  <2>1. byClient' = [byClient EXCEPT ![c] = entry] /\ UNCHANGED <<byChannel, byUser>>
    BY Zenon, <1>1 DEF join
  <2>2. In(c) /\ byClient[c].ch = x BY Zenon, <1>1 DEF Refreshes
  <2>. HIDE DEF entry
  <2>3. \A d \in Conns : byClient'[d] = IF d = c THEN entry ELSE byClient[d] BY <2>1
  <2>4. RosterType' BY <2>1, <2>3, <1>0
  <2>5. RosterExact' BY <2>1, <2>2, <2>3, <1>0
  <2>. QED BY Zenon, <2>1, <2>3, <2>4, <2>5
<1>2. CASE ~Refreshes(c, x, e)
  <2>1. /\ byClient' = [d \in Conns |-> IF d = c THEN entry
                                        ELSE IF d \in Replaced(c) \cup {c} THEN NoParticipant
                                        ELSE byClient[d]]
        /\ byChannel' = [y \in Channels |->
             (byChannel[y] \ {d \in Replaced(c) \cup {c} : byClient[d].ch = y})
               \cup (IF y = x THEN {c} ELSE {})]
        /\ byUser' = [byUser EXCEPT ![Owner(c)] = c]
    BY Zenon, <1>2 DEF join
  <2>. HIDE DEF entry
  <2>2. \A d \in Conns : d \in Replaced(c) <=> d # c /\ Owner(d) = Owner(c) /\ In(d)
    BY DEF Replaced
  <2>3. Replaced(c) \subseteq Conns BY Zenon DEF Replaced
  <2>4. \A d \in Conns : byClient'[d] =
          IF d = c THEN entry ELSE IF d \in Replaced(c) THEN NoParticipant ELSE byClient[d]
    BY Zenon, <2>1
  <2>5. \A d \in Conns : In(d)' <=> d = c \/ (In(d) /\ Owner(d) # Owner(c))
    BY <2>2, <2>4, <1>0 DEF NoParticipant
  <2>6. RosterType'
    <3>1. byClient' \in [Conns -> [gen : Nat, ch : Channels \cup {"none"}, e2ee : BOOLEAN]]
      BY <2>1, <1>0 DEF NoParticipant
    <3>2. byChannel' \in [Channels -> SUBSET Conns] BY <2>1, <2>3
    <3>3. byUser' \in [Users -> Conns \cup {"none"}] BY Zenon, <2>1, <1>0
    <3>4. \A d \in Conns : In(d)' => byClient'[d].ch \in Channels
      BY <2>2, <2>4, <2>5, <1>0
    <3>. QED BY Zenon, <3>1, <3>2, <3>3, <3>4, <1>0
  <2>7. UsersOwn' BY <2>1, <1>0
  <2>8. \A d \in Conns : In(d)' <=> (byUser[Owner(d)] = d)'
    BY <2>1, <2>5, <1>0
  <2>9. ASSUME NEW d \in Conns, NEW y \in Channels
        PROVE  d \in byChannel'[y] <=> In(d)' /\ byClient'[d].ch = y
    <3>1. d \in byChannel'[y] <=>
            \/ d \in byChannel[y] /\ ~(d \in Replaced(c) \cup {c} /\ byClient[d].ch = y)
            \/ y = x /\ d = c
      BY Zenon, <2>1
    <3>2. CASE d = c BY Zenon, <3>1, <3>2, <2>4, <2>5, <1>0
    <3>3. CASE d # c /\ d \in Replaced(c) BY Zenon, <3>1, <3>3, <2>2, <2>4, <2>5
    <3>4. CASE d # c /\ d \notin Replaced(c) BY <3>1, <3>4, <2>2, <2>4, <2>5
    <3>. QED BY Zenon, <3>2, <3>3, <3>4
  <2>10. \A d \in Conns : Owner(d) # Owner(c) => byClient'[d] = byClient[d]
    BY Zenon, <2>2, <2>4
  <2>. QED BY Zenon, <2>6, <2>7, <2>8, <2>9, <2>10
<1>. QED BY Zenon, <1>1, <1>2
LEMMA Halves == VoiceInv <=> RosterOK /\ Subjects /\ LockExcludes /\ FailureStillCurrent
BY Zenon DEF VoiceInv, RosterOK

LEMMA InitVoiceInv == Init => VoiceInv
<1>. SUFFICES ASSUME Init PROVE VoiceInv
  OBVIOUS
<1>. USE VoiceAssumption DEF Init
<1>1. RosterOK
  BY DEF RosterOK, RosterType, UsersOwn, RosterExact, In, NoParticipant
<1>2. reader \in [Conns -> Readers] /\ \A c \in Conns : ~InGate(c)
  BY Zenon DEF Idle, Stopped, InGate, Readers, ReaderStages
<1>3. /\ DOMAIN admin = {"op", "at", "arg", "conn", "failed", "todo"}
      /\ admin.at = "idle" /\ admin.op = "none"
  BY Zenon DEF NoAdmin
<1>4. Subjects BY Zenon, <1>2, <1>3 DEF Subjects
<1>5. LockExcludes /\ FailureStillCurrent
  BY Zenon DEF LockExcludes, FailureStillCurrent
<1>. QED BY Zenon, <1>1, <1>4, <1>5, Halves

(* Every action keeps the roster exact; only EnterRoster admits anybody.   *)
LEMMA RosterStep ==
  ASSUME RosterOK, Subjects, Next
  PROVE  /\ RosterOK'
         /\ \/ OnlyRemoves
            \/ \E c \in Conns : reader[c].at = "validated"
                 /\ \A d \in Conns : Owner(d) # Owner(c) => byClient'[d] = byClient[d]
<1>. DEFINE Goal == RosterOK' /\ (\/ OnlyRemoves
            \/ \E c \in Conns : reader[c].at = "validated"
                 /\ \A d \in Conns : Owner(d) # Owner(c) => byClient'[d] = byClient[d])
<1>1. ASSUME UNCHANGED <<roster, nextGeneration>> PROVE Goal
  BY Zenon, <1>1 DEF roster, RosterOK, RosterType, UsersOwn, RosterExact, In, OnlyRemoves
<1>2. ASSUME NEW c \in Conns, leave(c), UNCHANGED nextGeneration PROVE Goal
  BY Zenon, <1>2, LeaveKeeps
<1>3. ASSUME NEW c \in Conns, EnterRoster(c) PROVE Goal
  <2>1. reader[c].ch \in Channels /\ reader[c].e2ee \in BOOLEAN
    BY Zenon, <1>3 DEF EnterRoster, Subjects, InGate, Readers
  <2>2. PICK x \in Channels, e \in BOOLEAN : x = reader[c].ch /\ e = reader[c].e2ee
    BY Zenon, <2>1
  <2>3. join(c, x, e) /\ reader[c].at = "validated" BY Zenon, <1>3, <2>2 DEF EnterRoster
  <2>4. RosterOK' /\ \A d \in Conns : Owner(d) # Owner(c) => byClient'[d] = byClient[d]
    BY Zenon, <2>3, JoinKeeps
  <2>. QED BY Zenon, <2>3, <2>4
<1>4. ASSUME AdminRemove PROVE Goal
  <2>1. CASE admin.op = "removeChannel"
    <3>1. admin.arg \in Channels BY Zenon, <2>1 DEF Subjects
    <3>2. byChannel[admin.arg] = {c \in Conns : In(c) /\ byClient[c].ch \in {admin.arg}}
      BY <3>1 DEF RosterOK, RosterType, RosterExact
    <3>3. /\ RemoveAll(byChannel[admin.arg]) /\ UNCHANGED nextGeneration
          /\ byChannel' = [byChannel EXCEPT ![admin.arg] = {}]
      BY Zenon, <1>4, <2>1 DEF AdminRemove, removeChannel
    <3>4. byChannel' = [x \in Channels |-> IF x \in {admin.arg} THEN {} ELSE byChannel[x]]
      BY Zenon, <3>1, <3>3 DEF RosterOK, RosterType
    <3>5. PICK x \in Channels, S \in SUBSET Conns : x = admin.arg /\ S = byChannel[admin.arg]
      BY Zenon, <3>1 DEF RosterOK, RosterType
    <3>6. S = {c \in Conns : In(c) /\ byClient[c].ch \in {x}} BY Zenon, <3>2, <3>5
    <3>7. RemoveAll(S) /\ UNCHANGED nextGeneration BY Zenon, <3>3, <3>5
    <3>8. byChannel' = [y \in Channels |-> IF y \in {x} THEN {} ELSE byChannel[y]]
      BY Zenon, <3>4, <3>5
    <3>9. {x} \in SUBSET Channels OBVIOUS
    <3>. QED BY Zenon, <3>6, <3>7, <3>8, <3>9, RemoveAllKeeps
  <2>2. CASE admin.op = "revokeServer"
    <3>1. {c \in Conns : In(c)} = {c \in Conns : In(c) /\ byClient[c].ch \in Channels}
      BY Zenon DEF RosterOK, RosterType
    <3>2. /\ RemoveAll({c \in Conns : In(c)}) /\ UNCHANGED nextGeneration
          /\ byChannel' = [x \in Channels |-> {}]
      BY Zenon, <1>4, <2>2 DEF AdminRemove, removeServer
    <3>3. byChannel' = [x \in Channels |-> IF x \in Channels THEN {} ELSE byChannel[x]]
      BY Zenon, <3>2
    <3>4. PICK S : S = {c \in Conns : In(c)} BY Zenon
    <3>. QED BY Zenon, <3>1, <3>2, <3>3, <3>4, RemoveAllKeeps
  <2>. QED BY Zenon, <1>4, <2>1, <2>2 DEF AdminRemove
<1>5. ASSUME NEW c \in Conns, JoinStep(c) PROVE Goal
  <2>1. CASE EnterRoster(c) BY Zenon, <1>3, <2>1
  <2>2. CASE UndoJoin(c) BY Zenon, <1>2, <2>2 DEF UndoJoin
  <2>3. CASE ~EnterRoster(c) /\ ~UndoJoin(c)
    BY Zenon, <1>1, <1>5, <2>3 DEF JoinStep, LockJoin, Validate, CloseReplaced, QueueJoined,
       MediaLeave, MediaInstall, Offer, ReaderCloses
  <2>. QED BY Zenon, <2>1, <2>2, <2>3
<1>6. ASSUME NEW c \in Conns, TeardownStep(c) PROVE Goal
  BY Zenon, <1>6, <1>1, <1>2 DEF TeardownStep, Detach, TeardownLeave, TeardownClose
<1>7. ASSUME NEW c \in Conns,
             BeginJoin(c) \/ LeaveVoice(c) \/ ReaderStops(c) \/ MediaFails(c) \/ Drop(c)
      PROVE  Goal
  BY Zenon, <1>7, <1>1, <1>2 DEF BeginJoin, LeaveVoice, ReaderStops, MediaFails, SessionFails, Drop
<1>8. ASSUME NEW f \in failures, FailureStep(f) PROVE Goal
  <2>1. f.conn \in Conns BY Zenon DEF Subjects
  <2>. QED BY Zenon, <1>8, <2>1, <1>1, <1>2 DEF FailureStep, FailureLock, FailureLeave, FailureClose
<1>9. ASSUME AdminStep PROVE Goal
  <2>1. CASE AdminRemove BY Zenon, <2>1, <1>4
  <2>2. CASE AdminLeave
    <3>1. admin.conn \in Conns BY Zenon, <2>2 DEF AdminLeave, Subjects
    <3>. QED BY Zenon, <2>2, <3>1, <1>2 DEF AdminLeave
  <2>3. CASE ~AdminRemove /\ ~AdminLeave
    BY Zenon, <1>9, <2>3, <1>1 DEF AdminStep, Ask, AdminEnter, Revalidate, AdminClose, AdminEnd,
       AdminNext, AdminUnregisters, AdminCloseRemoved
  <2>. QED BY Zenon, <2>1, <2>2, <2>3
<1>10. ASSUME Commit PROVE Goal
  BY Zenon, <1>10, <1>1 DEF Commit
<1>. QED BY Zenon, <1>5, <1>6, <1>7, <1>8, <1>9, <1>10 DEF Next
(* Moving a reader's program counter keeps its record well formed.         *)
LEMMA ReaderMoves ==
  ASSUME NEW r \in Readers, NEW s \in ReaderStages
  PROVE  /\ [r EXCEPT !.at = s] \in Readers
         /\ [r EXCEPT !.at = s].at = s /\ [r EXCEPT !.at = s].ch = r.ch
BY Zenon DEF Readers

LEMMA ReaderRests ==
  /\ Idle \in Readers /\ Stopped \in Readers
  /\ Idle.at = "idle" /\ Stopped.at = "stopped"
BY Zenon DEF Idle, Stopped, Readers, ReaderStages

ReaderType == reader \in [Conns -> Readers] /\ \A c \in Conns : InGate(c) => reader[c].ch \in Channels

(* Every action leaves the readers well formed, and a join keeps its       *)
(* channel to its end.                                                     *)
LEMMA ReaderStep ==
  ASSUME RosterOK, Subjects, Next
  PROVE  ReaderType'
<1>0. ReaderType BY Zenon DEF ReaderType, Subjects
<1>1. ASSUME UNCHANGED reader PROVE ReaderType'
  BY Zenon, <1>0, <1>1 DEF ReaderType, InGate
<1>2. ASSUME NEW c \in Conns, NEW s \in ReaderStages, Reader(c, s),
             InGate(c) \/ s \in {"idle", "stopped", "leaving"}
      PROVE  ReaderType'
  <2>1. reader' = [reader EXCEPT ![c] = [reader[c] EXCEPT !.at = s]]
    BY Zenon, <1>0, <1>2 DEF Reader, ReaderType
  <2>. QED BY <1>0, <1>2, <2>1, ReaderMoves DEF ReaderType, InGate
<1>3. ASSUME NEW c \in Conns, NEW r \in {Idle, Stopped}, reader' = [reader EXCEPT ![c] = r]
      PROVE  ReaderType'
  BY Zenon, <1>0, <1>3, ReaderRests DEF ReaderType, InGate<1>4. ASSUME NEW c \in Conns, BeginJoin(c) PROVE ReaderType'
  <2>1. PICK x \in Channels : reader' = [reader EXCEPT ![c] =
            [at |-> "checked", ch |-> x, e2ee |-> (x \in required), old |-> "none"]]
    BY Zenon, <1>4, VoiceAssumption DEF BeginJoin, Subjects
  <2>. DEFINE r == [at |-> "checked", ch |-> x, e2ee |-> (x \in required), old |-> "none"]
  <2>2. r \in Readers /\ r.ch = x BY DEF Readers, ReaderStages
  <2>3. reader' = [reader EXCEPT ![c] = r] BY Zenon, <2>1
  <2>. HIDE DEF r
  <2>. QED BY Zenon, <1>0, <2>2, <2>3 DEF ReaderType, InGate
<1>5. ASSUME NEW c \in Conns, LockJoin(c) PROVE ReaderType'
  <2>1. Reader(c, "locked") \/ reader' = [reader EXCEPT ![c] = Idle]
    BY Zenon, <1>5 DEF LockJoin, Reader
  <2>. QED BY Zenon, <1>2, <1>3, <1>5, <2>1 DEF LockJoin, InGate, ReaderStages
<1>6. ASSUME NEW c \in Conns, Validate(c) PROVE ReaderType'
  <2>1. Reader(c, "validated") \/ reader' = [reader EXCEPT ![c] = Idle]
    BY Zenon, <1>6 DEF Validate, Reader
  <2>. QED BY Zenon, <1>2, <1>3, <1>6, <2>1 DEF Validate, InGate, ReaderStages
<1>7. ASSUME NEW c \in Conns, EnterRoster(c) PROVE ReaderType'
  <2>1. CASE reader' = [reader EXCEPT ![c] = [@ EXCEPT !.at = "announced"]]
    BY Zenon, <1>2, <1>7, <2>1 DEF EnterRoster, Reader, InGate, ReaderStages
  <2>2. CASE Replaced(c) # {} /\ reader' = [reader EXCEPT ![c] =
          [@ EXCEPT !.at = "replacing", !.old = CHOOSE p \in Replaced(c) : TRUE]]
    <3>1. PICK p \in Conns : p = CHOOSE q \in Replaced(c) : TRUE
      BY Zenon, <2>2 DEF Replaced
    <3>. DEFINE r == [reader[c] EXCEPT !.at = "replacing", !.old = p]
    <3>2. r \in Readers /\ r.ch = reader[c].ch
      BY Zenon, <1>0 DEF ReaderType, Readers, ReaderStages
    <3>3. reader' = [reader EXCEPT ![c] = r] BY Zenon, <2>2, <3>1
    <3>4. InGate(c) BY Zenon, <1>7 DEF EnterRoster, InGate
    <3>. HIDE DEF r
    <3>. QED BY Zenon, <1>0, <3>2, <3>3, <3>4 DEF ReaderType, InGate
  <2>. QED BY Zenon, <1>7, <2>1, <2>2 DEF EnterRoster
<1>8. ASSUME NEW c \in Conns, CloseReplaced(c) PROVE ReaderType'
  <2>. DEFINE r == [reader[c] EXCEPT !.at = "announced", !.old = "none"]
  <2>1. r \in Readers /\ r.ch = reader[c].ch
    BY Zenon, <1>0 DEF ReaderType, Readers, ReaderStages
  <2>2. reader' = [reader EXCEPT ![c] = r] BY Zenon, <1>0, <1>8 DEF CloseReplaced, ReaderType
  <2>3. InGate(c) BY Zenon, <1>8 DEF CloseReplaced, InGate
  <2>. HIDE DEF r
  <2>. QED BY Zenon, <1>0, <2>1, <2>2, <2>3 DEF ReaderType, InGate
<1>9. ASSUME NEW c \in Conns,
             QueueJoined(c) \/ MediaLeave(c) \/ MediaInstall(c) \/ Offer(c) \/ UndoJoin(c)
      PROVE  ReaderType'
  BY Zenon, <1>2, <1>3, <1>9
     DEF QueueJoined, MediaLeave, MediaInstall, Offer, UndoJoin, InGate, ReaderStages
<1>10. ASSUME NEW c \in Conns, LeaveVoice(c) \/ ReaderCloses(c) \/ ReaderStops(c)
       PROVE  ReaderType'
  BY Zenon, <1>2, <1>3, <1>10 DEF LeaveVoice, ReaderCloses, ReaderStops, ReaderStages
<1>11. ASSUME NEW c \in Conns, MediaFails(c) \/ Drop(c) \/ TeardownStep(c) PROVE ReaderType'
  BY Zenon, <1>1, <1>11 DEF MediaFails, SessionFails, Drop, TeardownStep, Detach, TeardownLeave,
     TeardownClose
<1>12. ASSUME NEW f \in failures, FailureStep(f) PROVE ReaderType'
  BY Zenon, <1>1, <1>12 DEF FailureStep, FailureLock, FailureLeave, FailureClose
<1>13. ASSUME Commit \/ AdminStep PROVE ReaderType'
  BY Zenon, <1>1, <1>13 DEF Commit, AdminStep, Ask, AdminEnter, Revalidate, AdminLeave, AdminClose,
     AdminRemove, AdminEnd, AdminNext, AdminUnregisters, AdminCloseRemoved
<1>. QED BY Zenon, <1>4, <1>5, <1>6, <1>7, <1>8, <1>9, <1>10, <1>11, <1>12, <1>13
         DEF Next, JoinStep
FailuresOK == \A f \in failures : f.conn \in Conns /\ f = [conn |-> f.conn, gen |-> f.gen, at |-> f.at]

(* What a step does to the callbacks: they move on, end, or one is started *)
(* that still waits for the lock.                                          *)
FailuresMove ==
  \A g \in failures' :
    \/ g \in failures
    \/ g.at = "waiting"
    \/ \E f \in failures : /\ g.conn = f.conn /\ g.gen = f.gen
                           /\ \/ f.at # "waiting" /\ g.at = "closing"
                              \/ /\ g.at = "leaving" /\ FailureCurrent(f)
                                 /\ ~InTransition(Owner(f.conn)) /\ UNCHANGED roster

LEMMA FailuresStep ==
  ASSUME Subjects, Next
  PROVE  /\ FailuresOK' /\ FailuresMove
         /\ failures' # failures => UNCHANGED reader
<1>0. FailuresOK BY Zenon DEF FailuresOK, Subjects
<1>1. ASSUME UNCHANGED failures
      PROVE  FailuresOK' /\ FailuresMove /\ (failures' # failures => UNCHANGED reader)
  BY Zenon, <1>0, <1>1 DEF FailuresOK, FailuresMove
<1>2. ASSUME NEW c \in Conns, MediaFails(c)
      PROVE  FailuresOK' /\ FailuresMove /\ UNCHANGED reader
  <2>1. \A g \in failures' : g \in failures \/ g = [conn |-> c, gen |-> sessions[c].gen, at |-> "waiting"]
    BY Zenon, <1>2 DEF MediaFails, SessionFails
  <2>. QED BY <1>0, <1>2, <2>1 DEF FailuresOK, FailuresMove, MediaFails, SessionFails
<1>3. ASSUME NEW f \in failures, NEW s \in {"leaving", "closing"}, Move(f, s)
      PROVE  /\ FailuresOK'
             /\ \A g \in failures' : g \in failures \/ (g.conn = f.conn /\ g.gen = f.gen /\ g.at = s)
  <2>1. [f EXCEPT !.at = s] = [conn |-> f.conn, gen |-> f.gen, at |-> s]
    BY <1>0 DEF FailuresOK
  <2>2. \A g \in failures' : g \in failures \/ g = [conn |-> f.conn, gen |-> f.gen, at |-> s]
    BY Zenon, <1>3, <2>1 DEF Move
  <2>. QED BY <1>0, <2>2 DEF FailuresOK
<1>4. ASSUME NEW f \in failures, End(f) PROVE FailuresOK' /\ FailuresMove
  BY Zenon, <1>0, <1>4 DEF End, FailuresOK, FailuresMove
<1>5. ASSUME NEW f \in failures, FailureStep(f)
      PROVE  FailuresOK' /\ FailuresMove /\ UNCHANGED reader
  <2>1. UNCHANGED reader
    BY Zenon, <1>5 DEF FailureStep, FailureLock, FailureLeave, FailureClose
  <2>2. CASE FailureLock(f)
    <3>1. CASE FailureCurrent(f)
      <4>1. Move(f, "leaving") /\ ~InTransition(Owner(f.conn)) /\ UNCHANGED roster
        BY Zenon, <2>2, <3>1 DEF FailureLock
      <4>. QED BY Zenon, <1>3, <2>1, <3>1, <4>1 DEF FailuresMove
    <3>2. CASE ~FailureCurrent(f) BY Zenon, <1>4, <2>1, <2>2, <3>2 DEF FailureLock
    <3>. QED BY Zenon, <3>1, <3>2
  <2>3. CASE FailureLeave(f)
    <3>1. f.at # "waiting" /\ (Move(f, "closing") \/ End(f)) BY Zenon, <2>3 DEF FailureLeave
    <3>2. CASE Move(f, "closing") BY Zenon, <1>3, <2>1, <3>1, <3>2 DEF FailuresMove
    <3>3. CASE End(f) BY Zenon, <1>4, <2>1, <3>3
    <3>. QED BY Zenon, <3>1, <3>2, <3>3
  <2>4. CASE FailureClose(f) BY Zenon, <1>4, <2>1, <2>4 DEF FailureClose
  <2>. QED BY Zenon, <1>5, <2>2, <2>3, <2>4 DEF FailureStep
<1>6. ASSUME NEW c \in Conns,
             BeginJoin(c) \/ JoinStep(c) \/ LeaveVoice(c) \/ ReaderStops(c) \/ Drop(c) \/ TeardownStep(c)
      PROVE  UNCHANGED failures
  BY Zenon, <1>6 DEF BeginJoin, JoinStep, LeaveVoice, ReaderStops, Drop, TeardownStep, LockJoin,
     Validate, EnterRoster, CloseReplaced, QueueJoined, MediaLeave, MediaInstall, Offer,
     UndoJoin, ReaderCloses, Detach, TeardownLeave, TeardownClose
<1>7. ASSUME Commit \/ AdminStep PROVE UNCHANGED failures
  BY Zenon, <1>7 DEF Commit, AdminStep, Ask, AdminEnter, Revalidate, AdminLeave, AdminClose,
     AdminRemove, AdminEnd, AdminNext, AdminUnregisters, AdminCloseRemoved
<1>. QED BY Zenon, <1>1, <1>2, <1>5, <1>6, <1>7 DEF Next

AdminOK ==
  /\ DOMAIN admin = {"op", "at", "arg", "conn", "failed", "todo"}
  /\ admin.at \in {"leaving", "closing"} => admin.conn \in Conns
  /\ admin.op \in {"removeChannel", "reset"} => admin.arg \in Channels
  /\ admin.op = "revalidate" => admin.arg \in Users
  /\ policy \in [Users -> SUBSET Channels] /\ active \subseteq Users

(* An administrative operation knows whom it is about.                     *)
LEMMA AdminKnows ==
  ASSUME RosterOK, Subjects, Next
  PROVE  AdminOK'
<1>0. AdminOK BY Zenon DEF AdminOK, Subjects
<1>1. ASSUME UNCHANGED <<admin, policy, active>> PROVE AdminOK'
  BY Zenon, <1>0, <1>1 DEF AdminOK
<1>2. ASSUME admin' = NoAdmin, UNCHANGED <<policy, active>> PROVE AdminOK'
  BY Zenon, <1>0, <1>2 DEF AdminOK, NoAdmin
<1>3. ASSUME Commit PROVE AdminOK'
  <2>1. policy' \in [Users -> SUBSET Channels] /\ active' \subseteq Users
    BY Zenon, <1>0, <1>3 DEF AdminOK, Commit
  <2>2. PICK op, arg : /\ Begin(op, arg)
                       /\ op \in {"removeChannel", "reset"} => arg \in Channels
                       /\ op = "revalidate" => arg \in Users
    <3>1. CASE \E u \in Users : Begin("refresh", u) \/ Begin("revoke", u) BY Zenon, <3>1
    <3>2. CASE Begin("revokeServer", "none") BY <3>2
    <3>3. CASE \E x \in Channels : Begin("removeChannel", x) \/ Begin("reset", x) BY <3>3
    <3>4. CASE \E u \in Users : Begin("revalidate", u) BY Zenon, <3>4
    <3>. QED BY Zenon, <1>0, <1>3, <3>1, <3>2, <3>3, <3>4 DEF Commit, AdminOK
  <2>3. /\ DOMAIN admin' = {"op", "at", "arg", "conn", "failed", "todo"}
        /\ admin'.at = "committed" /\ admin'.op = op /\ admin'.arg = arg
    BY Zenon, <2>2 DEF Begin, NoAdmin
  <2>. QED BY Zenon, <2>1, <2>2, <2>3 DEF AdminOK
<1>4. ASSUME Ask \/ AdminEnd \/ AdminEnter PROVE AdminOK'
  BY Zenon, <1>0, <1>2, <1>4 DEF AdminOK, Ask, AdminEnd, AdminEnter, tables
<1>5. ASSUME Revalidate PROVE AdminOK'
  <2>1. CASE admin' = NoAdmin BY Zenon, <1>2, <1>5, <2>1 DEF Revalidate, tables
  <2>2. CASE /\ byUser[admin.arg] # "none"
             /\ admin' = [admin EXCEPT !.at = "leaving", !.conn = byUser[admin.arg],
                                       !.todo = {byUser[admin.arg]}]
    <3>1. admin.arg \in Users BY Zenon, <1>0, <1>5 DEF AdminOK, Revalidate
    <3>2. byUser[admin.arg] \in Conns BY Zenon, <2>2, <3>1 DEF RosterOK, RosterType
    <3>. QED BY Zenon, <1>0, <1>5, <2>2, <3>2 DEF AdminOK, Revalidate, tables
  <2>. QED BY Zenon, <1>5, <2>1, <2>2 DEF Revalidate
<1>6. ASSUME AdminLeave \/ AdminClose \/ AdminRemove PROVE AdminOK'
  BY ZenonT(40), <1>0, <1>6 DEF AdminOK, AdminLeave, AdminClose, AdminRemove, Visited, tables
<1>7. ASSUME NEW c \in Conns, AdminNext(c) \/ AdminUnregisters(c) \/ AdminCloseRemoved(c)
      PROVE  AdminOK'
  BY Zenon, <1>0, <1>7 DEF AdminOK, AdminNext, AdminUnregisters, AdminCloseRemoved, Visited, tables
<1>8. ASSUME NEW c \in Conns,
             \/ BeginJoin(c) \/ JoinStep(c) \/ LeaveVoice(c) \/ ReaderStops(c)
             \/ MediaFails(c) \/ Drop(c) \/ TeardownStep(c)
      PROVE  UNCHANGED <<admin, policy, active>>
  BY Zenon, <1>8 DEF BeginJoin, JoinStep, LeaveVoice, ReaderStops, MediaFails, SessionFails, Drop,
     TeardownStep, LockJoin, Validate, EnterRoster, CloseReplaced, QueueJoined, MediaLeave,
     MediaInstall, Offer, UndoJoin, ReaderCloses, Detach, TeardownLeave, TeardownClose, tables
<1>9. ASSUME NEW f \in failures, FailureStep(f) PROVE UNCHANGED <<admin, policy, active>>
  BY Zenon, <1>9 DEF FailureStep, FailureLock, FailureLeave, FailureClose, tables
<1>. QED BY Zenon, <1>1, <1>3, <1>4, <1>5, <1>6, <1>7, <1>8, <1>9 DEF Next, AdminStep
(* A reader enters the user's transition only when nobody is in it.        *)
LEMMA EntersAlone ==
  ASSUME Subjects, Next, NEW c \in Conns, reader'[c].at \in {"validated", "replacing"}
  PROVE  reader[c].at \in {"validated", "replacing"} \/ ~InTransition(Owner(c))
<1>0. reader \in [Conns -> Readers] BY Zenon DEF Subjects
<1>1. CASE UNCHANGED reader BY Zenon, <1>1
<1>2. ASSUME NEW d \in Conns, JoinStep(d) \/ BeginJoin(d) \/ LeaveVoice(d) \/ ReaderStops(d)
      PROVE  reader[c].at \in {"validated", "replacing"} \/ ~InTransition(Owner(c))
  <2>1. CASE c # d
    BY Zenon, <1>0, <1>2, <2>1 DEF JoinStep, BeginJoin, LeaveVoice, ReaderStops, LockJoin, Validate,
       EnterRoster, CloseReplaced, QueueJoined, MediaLeave, MediaInstall, Offer, UndoJoin,
       ReaderCloses, Reader
  <2>2. CASE c = d /\ (EnterRoster(d) \/ Validate(d))
    BY Zenon, <2>2 DEF EnterRoster, Validate, TransitionFree
  <2>3. CASE c = d /\ ~EnterRoster(d) /\ ~Validate(d)
    BY <1>0, <1>2, <2>3 DEF JoinStep, BeginJoin, LeaveVoice, ReaderStops, LockJoin,
       CloseReplaced, QueueJoined, MediaLeave, MediaInstall, Offer, UndoJoin,
       ReaderCloses, Reader, Readers, Idle, Stopped
  <2>. QED BY Zenon, <2>1, <2>2, <2>3
<1>3. ASSUME NEW d \in Conns, MediaFails(d) \/ Drop(d) \/ TeardownStep(d) PROVE UNCHANGED reader
  BY Zenon, <1>3 DEF MediaFails, SessionFails, Drop, TeardownStep, Detach, TeardownLeave, TeardownClose
<1>4. ASSUME NEW f \in failures, FailureStep(f) PROVE UNCHANGED reader
  BY Zenon, <1>4 DEF FailureStep, FailureLock, FailureLeave, FailureClose
<1>5. ASSUME Commit \/ AdminStep PROVE UNCHANGED reader
  BY Zenon, <1>5 DEF Commit, AdminStep, Ask, AdminEnter, Revalidate, AdminLeave, AdminClose,
     AdminRemove, AdminEnd, AdminNext, AdminUnregisters, AdminCloseRemoved
<1>. QED BY Zenon, <1>1, <1>2, <1>3, <1>4, <1>5 DEF Next

(* Every step preserves the inductive invariant.                           *)
LEMMA NextVoiceInv == VoiceInv /\ [Next]_vars => VoiceInv'
<1>1. CASE UNCHANGED vars
  BY Zenon, <1>1 DEF vars, VoiceInv, RosterType, Subjects, UsersOwn, RosterExact, LockExcludes,
     FailureStillCurrent, In, InGate
<1>2. ASSUME VoiceInv, Next PROVE VoiceInv'
  <2>0. RosterOK /\ Subjects /\ LockExcludes /\ FailureStillCurrent BY Zenon, <1>2, Halves
  <2>1. RosterOK' BY Zenon, <1>2, <2>0, RosterStep
  <2>2. Subjects'
    <3>1. ReaderType' BY Zenon, <1>2, <2>0, ReaderStep
    <3>2. FailuresOK' BY Zenon, <1>2, <2>0, FailuresStep
    <3>3. AdminOK' BY Zenon, <1>2, <2>0, AdminKnows
    <3>. QED BY Zenon, <3>1, <3>2, <3>3 DEF Subjects, ReaderType, FailuresOK, AdminOK
  <2>3. FailuresMove /\ (failures' # failures => UNCHANGED reader) BY Zenon, <1>2, <2>0, FailuresStep
  <2>4. FailuresOK /\ FailuresOK' BY Zenon, <1>2, <2>0, FailuresStep DEF FailuresOK, Subjects
  <2>5. ASSUME NEW g \in failures', NEW c \in Conns, g.at # "waiting", Owner(c) = Owner(g.conn)
        PROVE  reader'[c].at \notin {"validated", "replacing"}
    <3>1. CASE g \in failures
      <4>1. reader[c].at \notin {"validated", "replacing"} BY Zenon, <2>0, <2>5, <3>1 DEF LockExcludes
      <4>2. InTransition(Owner(c)) BY Zenon, <2>5, <3>1 DEF InTransition
      <4>. QED BY Zenon, <1>2, <2>0, <4>1, <4>2, EntersAlone
    <3>2. CASE g \notin failures
      <4>1. UNCHANGED reader BY Zenon, <2>3, <2>5, <3>2
      <4>2. PICK f \in failures : /\ g.conn = f.conn
                                  /\ f.at # "waiting" \/ ~InTransition(Owner(f.conn))
        BY Zenon, <2>3, <2>5, <3>2 DEF FailuresMove
      <4>. QED BY Zenon, <2>0, <2>5, <4>1, <4>2 DEF LockExcludes, InTransition
    <3>. QED BY Zenon, <3>1, <3>2
  <2>6. ASSUME NEW g \in failures', g.at = "leaving", In(g.conn)'
        PROVE  byClient'[g.conn].gen = g.gen
    <3>0. g.conn \in Conns BY Zenon, <2>4 DEF FailuresOK
    <3>1. CASE g \in failures
      <4>1. In(g.conn) => byClient[g.conn].gen = g.gen
        BY Zenon, <2>0, <2>6, <3>1 DEF FailureStillCurrent
      <4>2. CASE OnlyRemoves
        <5>1. byClient'[g.conn] = byClient[g.conn] BY <2>6, <3>0, <4>2 DEF OnlyRemoves, In
        <5>2. In(g.conn) BY Zenon, <2>6, <5>1 DEF In
        <5>. QED BY Zenon, <4>1, <5>1, <5>2
      <4>3. ASSUME NEW c \in Conns, reader[c].at = "validated",
                   \A d \in Conns : Owner(d) # Owner(c) => byClient'[d] = byClient[d]
            PROVE  byClient'[g.conn].gen = g.gen
        <5>1. Owner(g.conn) # Owner(c) BY Zenon, <2>0, <2>6, <3>1, <4>3 DEF LockExcludes
        <5>2. byClient'[g.conn] = byClient[g.conn] BY Zenon, <3>0, <4>3, <5>1
        <5>3. In(g.conn) BY Zenon, <2>6, <5>2 DEF In
        <5>. QED BY Zenon, <4>1, <5>2, <5>3
      <4>. QED BY Zenon, <1>2, <2>0, <4>2, <4>3, RosterStep
    <3>2. CASE g \notin failures
      <4>1. PICK f \in failures : /\ g.conn = f.conn /\ g.gen = f.gen
                                  /\ FailureCurrent(f) /\ UNCHANGED roster
        BY Zenon, <2>3, <2>6, <3>2 DEF FailuresMove
      <4>. QED BY Zenon, <4>1 DEF FailureCurrent, roster
    <3>. QED BY Zenon, <3>1, <3>2
  <2>7. LockExcludes' BY Zenon, <2>5 DEF LockExcludes
  <2>8. FailureStillCurrent' BY Zenon, <2>6 DEF FailureStillCurrent
  <2>9. RosterType' /\ UsersOwn' /\ RosterExact' BY Zenon, <2>1 DEF RosterOK
  <2>. QED BY Zenon, <2>2, <2>7, <2>8, <2>9 DEF VoiceInv
<1>. QED BY Zenon, <1>1, <1>2

(* The maps of voiceState always agree, and a user takes part at most once.*)
THEOREM RosterIsExact == Spec => []RosterExact
<1>1. VoiceInv => RosterExact BY Zenon DEF VoiceInv
<1>. QED BY InitVoiceInv, NextVoiceInv, <1>1, PTL DEF Spec

(* A delayed failure callback never removes a newer join.                  *)
THEOREM FailureIsCurrent == Spec => []FailureStillCurrent
<1>1. VoiceInv => FailureStillCurrent BY Zenon DEF VoiceInv
<1>. QED BY InitVoiceInv, NextVoiceInv, <1>1, PTL DEF Spec
-----------------------------------------------------------------------------
(* What each step does to sessions, joins and the administrator, and the   *)
(* invariant by which the sessions follow the roster.                      *)


(* The stages of a join that is in the roster and has no session yet.      *)
Joined == {"replacing", "announced", "media", "reserving"}

Sessions == [on : BOOLEAN, gen : Nat, ch : Channels \cup {"none"}, e2ee : BOOLEAN, lost : BOOLEAN]

(* Teardown stages, done and registered tell the same story.               *)
ClosedOK ==
  /\ teardown \in [Conns -> {"no", "closed", "detached", "closing", "gone"}]
  /\ done \in [Conns -> BOOLEAN]
  /\ \A c \in Conns : /\ done[c] <=> teardown[c] # "no"
                      /\ c \in registered <=> teardown[c] \in {"no", "closed"}

(* No generation is ahead of the counter nextVoiceGeneration.              *)
GenerationsOK ==
  /\ sessions \in [Conns -> Sessions]
  /\ \A c \in Conns : byClient[c].gen <= nextGeneration /\ sessions[c].gen <= nextGeneration
  /\ \A f \in failures : f.gen \in Nat /\ f.gen <= nextGeneration

(* voiceJoins: a user has one join at a time.                              *)
OneJoin ==
  \A c, d \in Conns : HasJoinLock(c) /\ HasJoinLock(d) /\ Owner(c) = Owner(d) => c = d

(* channelAccessMu: an operation that holds it alone excludes the joins.   *)
AdminStages ==
  /\ admin.op \in {"none", "refresh", "revoke", "revokeServer", "removeChannel", "reset", "revalidate"}
  /\ admin.op = "none" => admin = NoAdmin
  /\ admin.op # "none" => admin.op \in load.ops
  /\ admin.op \in Exclusive /\ admin.at \notin {"committed", "wanting"} => NobodyJoins

(* Those who are about to close a session have taken the participant out.  *)
LeftFirst ==
  /\ \A c \in Conns : reader[c].at \in {"undone", "leaving"} => ~In(c)
  /\ \A c \in Conns : reader[c].at = "replacing" =>
       /\ reader[c].old \in Conns /\ Owner(reader[c].old) = Owner(c) /\ reader[c].old # c
       /\ ~In(reader[c].old)
  /\ \A f \in failures : f.at = "closing" => ~In(f.conn)
  /\ admin.op \in Exclusive /\ admin.at = "closing" => ~In(admin.conn)
  /\ admin.op \in Exclusive /\ admin.at = "removed" => \A c \in Conns \cap admin.todo : ~In(c)

(* The session of c is the one of the join that put c into the roster.     *)
Serves(c) == sessions[c].on /\ In(c) /\ sessions[c].gen = byClient[c].gen

(* A join under way has a generation that no session and no failure has,   *)
(* and no failure is of a session that still stands: what closes an older  *)
(* session cannot take the new one for it.                                 *)
Fresh ==
  /\ \A f \in failures : f.gen # 0
  /\ \A c \in Conns : reader[c].at \in Joined /\ In(c) =>
       /\ byClient[c].ch = reader[c].ch /\ sessions[c].gen # byClient[c].gen
       /\ \A f \in failures : f.conn = c => f.gen # byClient[c].gen
  /\ \A f \in failures : sessions[f.conn].on => sessions[f.conn].gen # f.gen
  /\ \A c \in Conns : Serves(c) => sessions[c].ch = byClient[c].ch
  /\ \A c \in Conns : teardown[c] \in {"closing", "gone"} => ~Serves(c)
  /\ \A c \in Conns : reader[c].at \in {"reserving", "undoing"} => ~sessions[c].on

(* Somebody is about to close the session of c.                            *)
Closing(c) ==
  \/ done[c]
  \/ \E d \in Conns : reader[d].at = "replacing" /\ reader[d].old = c
  \/ \E f \in failures : f.conn = c /\ f.at = "closing"
  \/ admin.at = "closing" /\ admin.conn = c
  \/ admin.at = "removed" /\ c \in admin.todo

(* Somebody is about to take c out of the roster.                          *)
Failing(c) ==
  \/ done[c]
  \/ \E f \in failures : f.conn = c /\ f.gen = byClient[c].gen /\ f.at \in {"waiting", "leaving"}

(* Every session serves the current join or is about to be closed, and     *)
(* every participant has a session, is getting one, or is about to be      *)
(* taken out.  (Resets take joins under way out of the roster.)            *)
Accounted ==
  NoReset => \A c \in Conns :
    /\ reader[c].at \in Joined /\ ~done[c] => In(c)
    /\ sessions[c].on /\ reader[c].at \in {"idle", "checked", "locked", "validated", "offering"}
       => Serves(c) \/ Closing(c)
    /\ In(c) /\ reader[c].at \notin Joined \cup {"undoing", "stopped"} => Serves(c) \/ Failing(c)

(* The invariant of the media.                                             *)
MediaInv == ClosedOK /\ GenerationsOK /\ OneJoin /\ AdminStages /\ LeftFirst /\ Fresh /\ Accounted

(* A connection is closed once, and leaves the registry after that.        *)
LEMMA ClosedStep ==
  ASSUME ClosedOK, Next
  PROVE  ClosedOK'
<1>1. ASSUME UNCHANGED <<teardown, done, registered>> PROVE ClosedOK'
  BY Zenon, <1>1 DEF ClosedOK
<1>2. ASSUME NEW c \in Conns, CloseClient(c), teardown[c] = "no", UNCHANGED registered
      PROVE  ClosedOK'
  BY Zenon, <1>2 DEF ClosedOK, CloseClient
<1>3. ASSUME NEW c \in Conns, Drop(c) \/ TeardownStep(c) PROVE ClosedOK'
  BY <1>2, <1>3 DEF ClosedOK, Drop, TeardownStep, Detach, TeardownLeave, TeardownClose
<1>4. ASSUME NEW c \in Conns, AdminUnregisters(c) PROVE ClosedOK'
  BY Zenon, <1>1, <1>2, <1>4 DEF AdminUnregisters
<1>5. ASSUME NEW c \in Conns,
             BeginJoin(c) \/ JoinStep(c) \/ LeaveVoice(c) \/ ReaderStops(c) \/ MediaFails(c)
      PROVE  UNCHANGED <<teardown, done, registered>>
  BY Zenon, <1>5 DEF BeginJoin, JoinStep, LeaveVoice, ReaderStops, MediaFails, SessionFails,
     LockJoin, Validate, EnterRoster, CloseReplaced, QueueJoined, MediaLeave, MediaInstall,
     Offer, UndoJoin, ReaderCloses
<1>6. ASSUME NEW f \in failures, FailureStep(f) PROVE UNCHANGED <<teardown, done, registered>>
  BY Zenon, <1>6 DEF FailureStep, FailureLock, FailureLeave, FailureClose
<1>7. ASSUME Commit \/ Ask \/ AdminEnter \/ Revalidate \/ AdminLeave \/ AdminClose
             \/ AdminRemove \/ AdminEnd
      PROVE  UNCHANGED <<teardown, done, registered>>
  BY Zenon, <1>7 DEF Commit, Ask, AdminEnter, Revalidate, AdminLeave, AdminClose, AdminRemove, AdminEnd
<1>8. ASSUME NEW c \in Conns, AdminNext(c) \/ AdminCloseRemoved(c)
      PROVE  UNCHANGED <<teardown, done, registered>>
  BY Zenon, <1>8 DEF AdminNext, AdminCloseRemoved
<1>. QED BY Zenon, <1>1, <1>3, <1>4, <1>5, <1>6, <1>7, <1>8 DEF Next, AdminStep

(* What a step does to the participants: it removes some, or it is a join  *)
(* that enters one with a new generation and removes only connections of   *)
(* the same user.                                                          *)
Enters(c) ==
  /\ EnterRoster(c)
  /\ byClient'[c] = [gen |-> nextGeneration + 1, ch |-> reader[c].ch, e2ee |-> reader[c].e2ee]
  /\ nextGeneration' = nextGeneration + 1
  /\ \A d \in Conns : d # c => \/ byClient'[d] = byClient[d]
                               \/ byClient'[d].gen = 0 /\ Owner(d) = Owner(c) /\ byUser[Owner(c)] = d

(* A join that enters the roster replaces only a connection of its user.   *)
LEMMA EntersOne ==
  ASSUME RosterOK, Subjects, NEW c \in Conns, EnterRoster(c)
  PROVE  Enters(c)
<1>. DEFINE entry == [gen |-> nextGeneration + 1, ch |-> reader[c].ch, e2ee |-> reader[c].e2ee]
<1>0. byClient \in [Conns -> [gen : Nat, ch : Channels \cup {"none"}, e2ee : BOOLEAN]]
  BY Zenon DEF RosterOK, RosterType
<1>1. join(c, reader[c].ch, reader[c].e2ee) BY Zenon DEF EnterRoster
<1>2. nextGeneration' = nextGeneration + 1 BY Zenon, <1>1 DEF join
<1>3. CASE byClient' = [byClient EXCEPT ![c] = entry]
  BY Zenon, <1>0, <1>2, <1>3 DEF Enters
<1>4. CASE byClient' = [d \in Conns |-> IF d = c THEN entry
                                        ELSE IF d \in Replaced(c) \cup {c} THEN NoParticipant
                                        ELSE byClient[d]]
  <2>1. byClient'[c] = entry BY Zenon, <1>4
  <2>. HIDE DEF entry
  <2>2. \A d \in Conns : d # c => byClient'[d] = IF d \in Replaced(c) THEN NoParticipant ELSE byClient[d]
    BY Zenon, <1>4
  <2>3. \A d \in Replaced(c) : Owner(d) = Owner(c) /\ byUser[Owner(c)] = d
    BY Zenon, VoiceAssumption DEF Replaced, RosterOK, UsersOwn
  <2>. USE DEF entry
  <2>. QED BY <1>2, <2>1, <2>2, <2>3 DEF Enters, NoParticipant
<1>. QED BY Zenon, <1>1, <1>3, <1>4 DEF join

(* Every step enters at most one connection and only takes others out.     *)
LEMMA EntriesStep ==
  ASSUME RosterOK, Subjects, Next
  PROVE  \/ OnlyRemoves /\ UNCHANGED nextGeneration
         \/ \E c \in Conns : Enters(c)
<1>1. ASSUME NEW c \in Conns, leave(c) PROVE OnlyRemoves
  <2>1. CASE In(c)
    BY <1>1, <2>1 DEF leave, removeLocked, OnlyRemoves, NoParticipant, RosterOK, RosterType
  <2>2. CASE ~In(c) BY Zenon, <1>1, <2>2 DEF leave, roster, OnlyRemoves
  <2>. QED BY Zenon, <2>1, <2>2
<1>2. ASSUME UNCHANGED roster PROVE OnlyRemoves BY Zenon, <1>2 DEF roster, OnlyRemoves
<1>3. ASSUME NEW c \in Conns, JoinStep(c) \/ BeginJoin(c) \/ LeaveVoice(c) \/ ReaderStops(c)
      PROVE  EnterRoster(c) \/ (OnlyRemoves /\ UNCHANGED nextGeneration)
  BY Zenon, <1>1, <1>2, <1>3 DEF JoinStep, BeginJoin, LeaveVoice, ReaderStops, LockJoin, Validate, CloseReplaced,
     QueueJoined, MediaLeave, MediaInstall, Offer, UndoJoin, ReaderCloses
<1>4. ASSUME NEW c \in Conns, MediaFails(c) \/ Drop(c) \/ TeardownStep(c)
      PROVE  OnlyRemoves /\ UNCHANGED nextGeneration
  BY Zenon, <1>1, <1>2, <1>4 DEF MediaFails, SessionFails, Drop, TeardownStep, Detach, TeardownLeave, TeardownClose
<1>5. ASSUME NEW f \in failures, FailureStep(f) PROVE OnlyRemoves /\ UNCHANGED nextGeneration
  <2>1. f.conn \in Conns BY Zenon DEF Subjects
  <2>. QED BY Zenon, <1>1, <1>2, <1>5, <2>1 DEF FailureStep, FailureLock, FailureLeave, FailureClose
<1>6. ASSUME AdminRemove PROVE OnlyRemoves /\ UNCHANGED nextGeneration
  BY <1>6 DEF AdminRemove, removeChannel, removeServer, RemoveAll, OnlyRemoves, NoParticipant
<1>7. ASSUME AdminLeave PROVE OnlyRemoves /\ UNCHANGED nextGeneration
  <2>1. admin.conn \in Conns BY Zenon, <1>7 DEF AdminLeave, Subjects
  <2>. QED BY Zenon, <1>1, <1>7, <2>1 DEF AdminLeave
<1>8. ASSUME Commit \/ AdminStep, ~AdminRemove, ~AdminLeave
      PROVE  UNCHANGED roster /\ UNCHANGED nextGeneration
  BY Zenon, <1>8 DEF Commit, AdminStep, Ask, AdminEnter, Revalidate, AdminClose, AdminEnd,
     AdminNext, AdminUnregisters, AdminCloseRemoved
<1>. QED BY Zenon, <1>2, <1>3, <1>4, <1>5, <1>6, <1>7, <1>8, EntersOne DEF Next

(* One join of a user at a time: voiceJoins.                               *)
LEMMA OneJoinStep ==
  ASSUME Subjects, OneJoin, Next
  PROVE  OneJoin'
<1>0. reader \in [Conns -> Readers] BY Zenon DEF Subjects
<1>1. ASSUME UNCHANGED reader PROVE OneJoin'
  BY Zenon, <1>1 DEF OneJoin, HasJoinLock, InGate
<1>2. ASSUME NEW c \in Conns, \A d \in Conns : d # c => reader'[d] = reader[d],
             HasJoinLock(c)' => HasJoinLock(c)
      PROVE  OneJoin'
  BY Zenon, <1>2 DEF OneJoin, HasJoinLock, InGate
<1>3. ASSUME NEW c \in Conns, LockJoin(c) PROVE OneJoin'
  <2>1. \A d \in Conns : d # c => reader'[d] = reader[d] BY Zenon, <1>0, <1>3 DEF LockJoin
  <2>2. \A d \in Conns : Owner(d) = Owner(c) => ~HasJoinLock(d) BY Zenon, <1>3 DEF LockJoin
  <2>. QED BY Zenon, <2>1, <2>2 DEF OneJoin, HasJoinLock, InGate
<1>4. ASSUME NEW c \in Conns, JoinStep(c) \/ BeginJoin(c) \/ LeaveVoice(c) \/ ReaderStops(c), ~LockJoin(c)
      PROVE  \A d \in Conns : d # c => reader'[d] = reader[d]
  BY Zenon, <1>0, <1>4 DEF JoinStep, BeginJoin, LeaveVoice, ReaderStops, Validate,
     EnterRoster, CloseReplaced, QueueJoined, MediaLeave, MediaInstall, Offer, UndoJoin,
     ReaderCloses, Reader
<1>5. ASSUME NEW c \in Conns, JoinStep(c), ~LockJoin(c) PROVE HasJoinLock(c)' => HasJoinLock(c)
  BY <1>0, <1>5 DEF JoinStep, Validate,
     EnterRoster, CloseReplaced, QueueJoined, MediaLeave, MediaInstall, Offer, UndoJoin,
     ReaderCloses, Reader, Readers, HasJoinLock, InGate, Idle, Stopped
<1>6. ASSUME NEW c \in Conns, BeginJoin(c) \/ LeaveVoice(c) \/ ReaderStops(c) PROVE ~HasJoinLock(c)'
  BY <1>0, <1>6 DEF BeginJoin, LeaveVoice, ReaderStops, Reader, Readers, HasJoinLock, InGate, Idle, Stopped
<1>7. ASSUME NEW d \in Conns, MediaFails(d) \/ Drop(d) \/ TeardownStep(d) PROVE UNCHANGED reader
  BY Zenon, <1>7 DEF MediaFails, SessionFails, Drop, TeardownStep, Detach, TeardownLeave, TeardownClose
<1>8. ASSUME NEW f \in failures, FailureStep(f) PROVE UNCHANGED reader
  BY Zenon, <1>8 DEF FailureStep, FailureLock, FailureLeave, FailureClose
<1>9. ASSUME Commit \/ AdminStep PROVE UNCHANGED reader
  BY Zenon, <1>9 DEF Commit, AdminStep, Ask, AdminEnter, Revalidate, AdminLeave, AdminClose,
     AdminRemove, AdminEnd, AdminNext, AdminUnregisters, AdminCloseRemoved
<1>. QED BY Zenon, <1>1, <1>2, <1>3, <1>4, <1>5, <1>6, <1>7, <1>8, <1>9 DEF Next, JoinStep

(* A join installs its session, or finds that its first offer was lost.    *)
Installs(c) == sessions' = [sessions EXCEPT ![c] =
  [on |-> TRUE, gen |-> Captured(c), ch |-> reader[c].ch, e2ee |-> reader[c].e2ee, lost |-> FALSE]]
Marks(c) == sessions' = [sessions EXCEPT ![c].lost = OfferLost(c)]

(* Sessions and failures have generations that were given out.             *)
LEMMA GenerationsStep ==
  ASSUME RosterOK, Subjects, GenerationsOK, Next
  PROVE  GenerationsOK'
<1>0. /\ byClient \in [Conns -> [gen : Nat, ch : Channels \cup {"none"}, e2ee : BOOLEAN]]
      /\ nextGeneration \in Nat /\ sessions \in [Conns -> Sessions]
      /\ \A c \in Conns : sessions[c].gen \in Nat /\ sessions[c].gen <= nextGeneration
      /\ NoSession \in Sessions /\ NoSession.gen = 0
  BY Zenon DEF RosterOK, RosterType, GenerationsOK, NoSession, Sessions
<1>1. /\ nextGeneration' \in Nat /\ nextGeneration <= nextGeneration'
      /\ \A c \in Conns : byClient'[c].gen <= nextGeneration'
  <2>1. CASE OnlyRemoves /\ UNCHANGED nextGeneration
    BY <1>0, <2>1 DEF OnlyRemoves, GenerationsOK
  <2>2. ASSUME NEW c \in Conns, Enters(c)
        PROVE  /\ nextGeneration' = nextGeneration + 1
               /\ \A d \in Conns : byClient'[d].gen <= nextGeneration'
    BY <1>0, <2>2 DEF Enters, GenerationsOK
  <2>. QED BY <1>0, <2>1, <2>2, EntriesStep
<1>. DEFINE Good == /\ sessions' \in [Conns -> Sessions]
                    /\ \A c \in Conns : sessions'[c].gen <= nextGeneration'
<1>2. ASSUME UNCHANGED sessions PROVE Good BY <1>0, <1>1, <1>2
<1>3. ASSUME NEW c, CloseSession(c) PROVE Good
  <2>1. sessions' \in [Conns -> Sessions] BY Zenon, <1>0, <1>3 DEF CloseSession
  <2>2. \A d \in Conns : sessions'[d] = sessions[d] \/ sessions'[d] = NoSession
    BY Zenon, <1>0, <1>3 DEF CloseSession
  <2>. QED BY <1>0, <1>1, <2>1, <2>2
<1>4. ASSUME NEW c \in Conns, reader[c].at = "reserving", Installs(c) PROVE Good
  <2>. DEFINE s == [on |-> TRUE, gen |-> Captured(c), ch |-> reader[c].ch,
                    e2ee |-> reader[c].e2ee, lost |-> FALSE]
  <2>1. Captured(c) \in Nat /\ Captured(c) <= nextGeneration
    BY <1>0 DEF Captured, GenerationsOK
  <2>2. s \in Sessions /\ s.gen <= nextGeneration
    BY Zenon, <2>1 DEF Sessions, Subjects, Readers
  <2>3. sessions' = [sessions EXCEPT ![c] = s] BY Zenon, <1>4 DEF Installs
  <2>4. s.gen \in Nat /\ s.gen <= nextGeneration' BY <1>0, <1>1, <2>1
  <2>. HIDE DEF s
  <2>5. \A d \in Conns : sessions'[d] = IF d = c THEN s ELSE sessions[d] BY Zenon, <1>0, <2>3
  <2>. QED BY <1>0, <1>1, <2>2, <2>3, <2>4, <2>5
<1>5. ASSUME NEW c \in Conns, Marks(c) PROVE Good
  <2>1. OfferLost(c) \in BOOLEAN BY Zenon DEF OfferLost
  <2>. DEFINE s == [sessions[c] EXCEPT !.lost = OfferLost(c)]
  <2>2. s \in Sessions /\ s.gen = sessions[c].gen BY Zenon, <1>0, <2>1 DEF Sessions
  <2>3. sessions' = [sessions EXCEPT ![c] = s] BY Zenon, <1>0, <1>5 DEF Marks
  <2>. HIDE DEF s
  <2>4. \A d \in Conns : sessions'[d] = IF d = c THEN s ELSE sessions[d] BY Zenon, <1>0, <2>3
  <2>5. \A d \in Conns : sessions'[d].gen = sessions[d].gen BY Zenon, <2>2, <2>4
  <2>. QED BY <1>0, <1>1, <2>2, <2>3, <2>5
<1>6. ASSUME NEW c \in Conns, MediaInstall(c) \/ Offer(c) PROVE Good
  <2>1. CASE MediaInstall(c) BY Zenon, <1>2, <1>4, <2>1 DEF MediaInstall, Installs
  <2>2. CASE Offer(c) BY Zenon, <1>3, <1>5, <2>2 DEF Offer, Marks
  <2>. QED BY Zenon, <1>6, <2>1, <2>2
<1>7. ASSUME NEW c \in Conns, JoinStep(c) \/ BeginJoin(c) \/ LeaveVoice(c) \/ ReaderStops(c),
             ~MediaInstall(c), ~Offer(c)
      PROVE  Good
  BY Zenon, <1>2, <1>3, <1>7 DEF JoinStep, BeginJoin, LeaveVoice, ReaderStops, LockJoin, Validate,
     EnterRoster, CloseReplaced, QueueJoined, MediaLeave, UndoJoin, ReaderCloses
<1>8. ASSUME NEW c \in Conns, MediaFails(c) \/ Drop(c) \/ TeardownStep(c) PROVE Good
  BY Zenon, <1>2, <1>3, <1>8 DEF MediaFails, SessionFails, Drop, TeardownStep, Detach,
     TeardownLeave, TeardownClose
<1>9. ASSUME NEW f \in failures, FailureStep(f) PROVE Good
  BY Zenon, <1>2, <1>3, <1>9 DEF FailureStep, FailureLock, FailureLeave, FailureClose
<1>10. ASSUME Commit \/ AdminStep PROVE Good
  BY Zenon, <1>2, <1>3, <1>10 DEF Commit, AdminStep, Ask, AdminEnter, Revalidate, AdminLeave,
     AdminClose, AdminRemove, AdminEnd, AdminNext, AdminUnregisters, AdminCloseRemoved
<1>11. Good BY Zenon, <1>6, <1>7, <1>8, <1>9, <1>10 DEF Next
<1>12. \A g \in failures' : \/ \E f \in failures : g.gen = f.gen
                            \/ \E c \in Conns : g.gen = sessions[c].gen
  <2>1. ASSUME NEW f \in failures, FailureStep(f) PROVE \A g \in failures' : \E h \in failures : g.gen = h.gen
    <3>1. ASSUME NEW s, Move(f, s) PROVE \A g \in failures' : \E h \in failures : g.gen = h.gen
      <4>1. [f EXCEPT !.at = s].gen = f.gen BY DEF Subjects
      <4>. QED BY Zenon, <3>1, <4>1 DEF Move
    <3>2. End(f) => failures' \subseteq failures BY Zenon DEF End
    <3>3. End(f) \/ Move(f, "leaving") \/ Move(f, "closing")
      BY Zenon, <2>1 DEF FailureStep, FailureLock, FailureLeave, FailureClose
    <3>. QED BY Zenon, <3>1, <3>2, <3>3
  <2>2. ASSUME NEW c \in Conns, MediaFails(c)
        PROVE  \A g \in failures' : g \in failures \/ g.gen = sessions[c].gen
    BY <2>2 DEF MediaFails, SessionFails
  <2>3. ASSUME NEW c \in Conns,
               BeginJoin(c) \/ JoinStep(c) \/ LeaveVoice(c) \/ ReaderStops(c) \/ Drop(c) \/ TeardownStep(c)
        PROVE  UNCHANGED failures
    BY Zenon, <2>3 DEF BeginJoin, JoinStep, LeaveVoice, ReaderStops, Drop, TeardownStep, LockJoin,
       Validate, EnterRoster, CloseReplaced, QueueJoined, MediaLeave, MediaInstall, Offer,
       UndoJoin, ReaderCloses, Detach, TeardownLeave, TeardownClose
  <2>4. ASSUME Commit \/ AdminStep PROVE UNCHANGED failures
    BY Zenon, <2>4 DEF Commit, AdminStep, Ask, AdminEnter, Revalidate, AdminLeave, AdminClose,
       AdminRemove, AdminEnd, AdminNext, AdminUnregisters, AdminCloseRemoved
  <2>5. CASE UNCHANGED failures BY Zenon, <2>5
  <2>6. CASE \E f \in failures : FailureStep(f) BY Zenon, <2>1, <2>6
  <2>7. CASE \E c \in Conns : MediaFails(c) BY Zenon, <2>2, <2>7
  <2>. QED BY Zenon, <2>3, <2>4, <2>5, <2>6, <2>7 DEF Next
<1>13. \A g \in failures' : g.gen \in Nat /\ g.gen <= nextGeneration'
  <2>1. \A f \in failures : f.gen \in Nat /\ f.gen <= nextGeneration BY Zenon DEF GenerationsOK
  <2>2. \A g \in failures' : g.gen \in Nat /\ g.gen <= nextGeneration BY Zenon, <1>0, <1>12, <2>1
  <2>. QED BY <1>0, <1>1, <2>2
<1>. QED BY Zenon, <1>1, <1>11, <1>13 DEF GenerationsOK

(* An exclusive operation that has taken channelAccessMu is alone.         *)
LEMMA AdminStagesStep ==
  ASSUME RosterOK, Subjects, AdminStages, Next
  PROVE  AdminStages'
<1>0. reader \in [Conns -> Readers] /\ DOMAIN admin = {"op", "at", "arg", "conn", "failed", "todo"}
  BY Zenon DEF Subjects
<1>1. load' = load
  BY ZenonT(40) DEF Next, BeginJoin, JoinStep, LeaveVoice, ReaderStops, LockJoin, Validate, EnterRoster,
     CloseReplaced, QueueJoined, MediaLeave, MediaInstall, Offer, UndoJoin, ReaderCloses,
     MediaFails, SessionFails, Drop, TeardownStep, Detach, TeardownLeave, TeardownClose,
     FailureStep, FailureLock, FailureLeave, FailureClose, Commit, AdminStep, Ask, AdminEnter,
     Revalidate, AdminLeave, AdminClose, AdminRemove, AdminEnd, AdminNext, AdminUnregisters,
     AdminCloseRemoved
<1>2. ASSUME UNCHANGED <<admin, reader>> PROVE AdminStages'
  BY Zenon, <1>1, <1>2 DEF AdminStages, NobodyJoins, InGate, NoAdmin
<1>3. ASSUME UNCHANGED admin, NEW c \in Conns, \A d \in Conns : d # c => reader'[d] = reader[d],
             InGate(c)' => InGate(c) \/ ~(admin.op \in Exclusive /\ admin.at # "committed")
      PROVE  AdminStages'
  BY Zenon, <1>1, <1>3 DEF AdminStages, NobodyJoins, InGate, NoAdmin
<1>4. ASSUME NEW c \in Conns, BeginJoin(c) \/ JoinStep(c) \/ LeaveVoice(c) \/ ReaderStops(c)
      PROVE  UNCHANGED admin /\ \A d \in Conns : d # c => reader'[d] = reader[d]
  BY Zenon, <1>0, <1>4 DEF BeginJoin, JoinStep, LeaveVoice, ReaderStops, LockJoin, Validate,
     EnterRoster, CloseReplaced, QueueJoined, MediaLeave, MediaInstall, Offer, UndoJoin,
     ReaderCloses, Reader
<1>5. ASSUME NEW c \in Conns, JoinStep(c) \/ LeaveVoice(c) \/ ReaderStops(c)
      PROVE  InGate(c)' => InGate(c)
  BY <1>0, <1>5 DEF JoinStep, LeaveVoice, ReaderStops, LockJoin, Validate, EnterRoster,
     CloseReplaced, QueueJoined, MediaLeave, MediaInstall, Offer, UndoJoin,
     ReaderCloses, Reader, Readers, InGate, Idle, Stopped
<1>6. ASSUME NEW c \in Conns, BeginJoin(c) PROVE ~(admin.op \in Exclusive /\ admin.at # "committed")
  BY Zenon, <1>6 DEF BeginJoin
<1>7. ASSUME NEW c \in Conns, MediaFails(c) \/ Drop(c) \/ TeardownStep(c) PROVE UNCHANGED <<admin, reader>>
  BY Zenon, <1>7 DEF MediaFails, SessionFails, Drop, TeardownStep, Detach, TeardownLeave, TeardownClose
<1>8. ASSUME NEW f \in failures, FailureStep(f) PROVE UNCHANGED <<admin, reader>>
  BY Zenon, <1>8 DEF FailureStep, FailureLock, FailureLeave, FailureClose
<1>9. ASSUME UNCHANGED reader, admin' = NoAdmin PROVE AdminStages'
  BY Zenon, <1>9 DEF AdminStages, NoAdmin, Exclusive
<1>10. ASSUME UNCHANGED reader, admin'.op = admin.op, admin.op # "none",
              admin'.at \in {"committed", "wanting"} \/ NobodyJoins \/ admin.op \notin Exclusive
       PROVE  AdminStages'
  BY Zenon, <1>1, <1>10 DEF AdminStages, NobodyJoins, InGate
<1>11. ASSUME Commit PROVE AdminStages'
  <2>1. PICK op \in {"refresh", "revoke", "revokeServer", "removeChannel", "reset", "revalidate"} :
          \E arg : Begin(op, arg)
    <3>1. CASE \E u : Begin("refresh", u) \/ Begin("revoke", u) \/ Begin("revalidate", u) BY Zenon, <3>1
    <3>2. CASE Begin("revokeServer", "none") BY Zenon, <3>2
    <3>3. CASE \E x : Begin("removeChannel", x) \/ Begin("reset", x) BY Zenon, <3>3
    <3>. QED BY Zenon, <1>11, <3>1, <3>2, <3>3 DEF Commit
  <2>2. admin'.op = op /\ admin'.at = "committed" /\ op \in load.ops BY Zenon, <2>1 DEF Begin, NoAdmin
  <2>. QED BY Zenon, <1>1, <2>1, <2>2 DEF AdminStages
<1>12. ASSUME AdminStep PROVE AdminStages'
  <2>0. UNCHANGED reader
    BY Zenon, <1>12 DEF AdminStep, Ask, AdminEnter, Revalidate, AdminLeave, AdminClose,
       AdminRemove, AdminEnd, AdminNext, AdminUnregisters, AdminCloseRemoved
  <2>1. admin.op # "none"
    <3>1. admin.at # "idle"
      BY Zenon, <1>12 DEF AdminStep, Ask, AdminEnter, Revalidate, AdminLeave, AdminClose,
         AdminRemove, AdminEnd, AdminNext, AdminUnregisters, AdminCloseRemoved
    <3>. QED BY <3>1 DEF AdminStages, NoAdmin
  <2>2. admin' = NoAdmin \/ admin'.op = admin.op
    BY ZenonT(40), <1>0, <1>12 DEF AdminStep, Ask, AdminEnter, Revalidate, AdminLeave, AdminClose,
       AdminRemove, AdminEnd, AdminNext, AdminUnregisters, AdminCloseRemoved, Visited
  <2>3. admin.at \notin {"committed", "wanting"} => NobodyJoins \/ admin.op \notin Exclusive
    BY Zenon DEF AdminStages
  <2>4. CASE admin.at = "committed"
    BY Zenon, <1>0, <1>10, <1>12, <2>0, <2>1, <2>4 DEF AdminStep, Ask, AdminEnter, Revalidate, AdminLeave, AdminClose,
       AdminRemove, AdminEnd, AdminNext, AdminUnregisters, AdminCloseRemoved
  <2>5. CASE admin.at = "wanting"
    <3>1. NobodyJoins \/ admin.op \notin Exclusive
      BY Zenon, <1>12, <2>5 DEF AdminStep, Ask, AdminEnter, Revalidate, AdminLeave, AdminClose,
       AdminRemove, AdminEnd, AdminNext, AdminUnregisters, AdminCloseRemoved, Exclusive
    <3>. QED BY Zenon, <1>9, <1>10, <2>0, <2>1, <2>2, <3>1
  <2>. QED BY Zenon, <1>9, <1>10, <2>0, <2>1, <2>2, <2>3, <2>4, <2>5
<1>. QED BY Zenon, <1>2, <1>3, <1>4, <1>5, <1>6, <1>7, <1>8, <1>11, <1>12 DEF Next

(* The reader of c goes from one stage to another, with the same request.  *)
Goes(c, from, to) == reader[c].at = from /\ reader'[c].at = to
SameJoin(c) == reader'[c].ch = reader[c].ch /\ reader'[c].e2ee = reader[c].e2ee

(* The steps of a reader, from stage to stage.                             *)
Stages(c) ==
  \/ BeginJoin(c) /\ Goes(c, "idle", "checked")
  \/ LockJoin(c) /\ Goes(c, "checked", "locked") /\ SameJoin(c)
       /\ reader[c].ch \in policy[Owner(c)]
  \/ LockJoin(c) /\ Goes(c, "checked", "idle")
  \/ Validate(c) /\ Goes(c, "locked", "validated") /\ SameJoin(c) /\ MayJoin(c)
  \/ Validate(c) /\ Goes(c, "locked", "idle")
  \/ EnterRoster(c) /\ Goes(c, "validated", "announced") /\ SameJoin(c)
       /\ (Refreshes(c, reader[c].ch, reader[c].e2ee) \/ Replaced(c) = {})
  \/ EnterRoster(c) /\ Goes(c, "validated", "replacing") /\ SameJoin(c)
       /\ ~Refreshes(c, reader[c].ch, reader[c].e2ee) /\ reader'[c].old \in Replaced(c)
  \/ CloseReplaced(c) /\ Goes(c, "replacing", "announced") /\ SameJoin(c)
  \/ QueueJoined(c) /\ Goes(c, "announced", "media") /\ SameJoin(c) /\ ~done[c]
  \/ QueueJoined(c) /\ Goes(c, "announced", "stopped")
  \/ MediaLeave(c) /\ Goes(c, "media", "reserving") /\ SameJoin(c)
  \/ MediaInstall(c) /\ Goes(c, "reserving", "offering") /\ Installs(c)
  \/ MediaInstall(c) /\ Goes(c, "reserving", "undoing") /\ UNCHANGED sessions
  \/ Offer(c) /\ Goes(c, "offering", "idle") /\ Marks(c)
  \/ Offer(c) /\ Goes(c, "offering", "undoing") /\ CloseSession(c)
  \/ UndoJoin(c) /\ Goes(c, "undoing", "undone") /\ In(c)
  \/ UndoJoin(c) /\ Goes(c, "undoing", "idle") /\ ~In(c)
  \/ LeaveVoice(c) /\ Goes(c, "idle", "leaving")
  \/ ReaderCloses(c) /\ (Goes(c, "undone", "idle") \/ Goes(c, "leaving", "idle"))
  \/ ReaderStops(c) /\ Goes(c, "idle", "stopped")

(* No other step moves a reader.                                           *)
LEMMA StagesStep ==
  ASSUME Subjects, Next, NEW c \in Conns
  PROVE  reader'[c] = reader[c] \/ Stages(c)
<1>0. reader \in [Conns -> Readers] BY Zenon DEF Subjects
<1>1. ASSUME NEW s, Reader(c, s) PROVE reader'[c].at = s /\ SameJoin(c)
  BY Zenon, <1>0, <1>1 DEF Reader, Readers, SameJoin
<1>2. ASSUME reader' = [reader EXCEPT ![c] = Idle] PROVE reader'[c].at = "idle"
  BY Zenon, <1>0, <1>2, ReaderRests
<1>3. ASSUME reader' = [reader EXCEPT ![c] = Stopped] PROVE reader'[c].at = "stopped"
  BY Zenon, <1>0, <1>3, ReaderRests
<1>4. CASE BeginJoin(c)
  <2>1. Goes(c, "idle", "checked") BY <1>0, <1>4, ReaderRests DEF BeginJoin, Goes
  <2>. QED BY Zenon, <1>4, <2>1 DEF Stages
<1>5. CASE LockJoin(c)
  <2>1. CASE Reader(c, "locked") /\ reader[c].ch \in policy[Owner(c)]
    BY Zenon, <1>1, <1>5, <2>1 DEF LockJoin, Stages, Goes
  <2>2. CASE reader' = [reader EXCEPT ![c] = Idle] BY Zenon, <1>2, <1>5, <2>2 DEF LockJoin, Stages, Goes
  <2>. QED BY Zenon, <1>5, <2>1, <2>2 DEF LockJoin, Reader
<1>6. CASE Validate(c)
  <2>1. CASE Reader(c, "validated") /\ MayJoin(c) BY Zenon, <1>1, <1>6, <2>1 DEF Validate, Stages, Goes
  <2>2. CASE reader' = [reader EXCEPT ![c] = Idle] BY Zenon, <1>2, <1>6, <2>2 DEF Validate, Stages, Goes
  <2>. QED BY Zenon, <1>6, <2>1, <2>2 DEF Validate, Reader
<1>7. CASE EnterRoster(c)
  <2>. DEFINE stays == Refreshes(c, reader[c].ch, reader[c].e2ee) \/ Replaced(c) = {}
  <2>1. CASE stays
    <3>1. Reader(c, "announced") BY Zenon, <1>7, <2>1 DEF EnterRoster, Reader
    <3>. QED BY Zenon, <1>1, <1>7, <2>1, <3>1 DEF EnterRoster, Stages, Goes
  <2>2. CASE ~stays
    <3>1. PICK p : p = CHOOSE q \in Replaced(c) : TRUE OBVIOUS
    <3>2. p \in Replaced(c) BY Zenon, <2>2, <3>1
    <3>3. reader' = [reader EXCEPT ![c] = [reader[c] EXCEPT !.at = "replacing", !.old = p]]
      BY Zenon, <1>7, <2>2, <3>1 DEF EnterRoster
    <3>4. reader'[c] = [reader[c] EXCEPT !.at = "replacing", !.old = p] BY Zenon, <1>0, <3>3
    <3>5. reader'[c].at = "replacing" /\ reader'[c].old = p /\ SameJoin(c)
      BY <1>0, <3>4 DEF Readers, SameJoin
    <3>. QED BY Zenon, <1>7, <2>2, <3>2, <3>5 DEF EnterRoster, Stages, Goes
  <2>. QED BY Zenon, <2>1, <2>2
<1>8. CASE CloseReplaced(c)
  <2>1. reader'[c] = [reader[c] EXCEPT !.at = "announced", !.old = "none"]
    BY Zenon, <1>0, <1>8 DEF CloseReplaced
  <2>2. reader'[c].at = "announced" /\ SameJoin(c) BY <1>0, <2>1 DEF Readers, SameJoin
  <2>. QED BY Zenon, <1>8, <2>2 DEF CloseReplaced, Stages, Goes
<1>9. CASE QueueJoined(c) BY Zenon, <1>1, <1>3, <1>9 DEF QueueJoined, Stages, Goes
<1>10. CASE MediaLeave(c) BY Zenon, <1>1, <1>10 DEF MediaLeave, Stages, Goes
<1>11. CASE MediaInstall(c) BY Zenon, <1>1, <1>11 DEF MediaInstall, Installs, Stages, Goes
<1>12. CASE Offer(c) BY Zenon, <1>1, <1>2, <1>12 DEF Offer, Marks, Stages, Goes
<1>13. CASE UndoJoin(c) BY Zenon, <1>1, <1>2, <1>13 DEF UndoJoin, Stages, Goes
<1>14. CASE LeaveVoice(c) BY Zenon, <1>1, <1>14 DEF LeaveVoice, Stages, Goes
<1>15. CASE ReaderCloses(c) BY Zenon, <1>2, <1>15 DEF ReaderCloses, Stages, Goes
<1>16. CASE ReaderStops(c) BY Zenon, <1>3, <1>16, ReaderRests DEF ReaderStops, Stages, Goes
<1>17. ASSUME NEW d \in Conns, d # c, JoinStep(d) \/ BeginJoin(d) \/ LeaveVoice(d) \/ ReaderStops(d)
       PROVE  reader'[c] = reader[c]
  BY Zenon, <1>0, <1>17 DEF JoinStep, BeginJoin, LeaveVoice, ReaderStops, LockJoin, Validate,
     EnterRoster, CloseReplaced, QueueJoined, MediaLeave, MediaInstall, Offer, UndoJoin,
     ReaderCloses, Reader
<1>18. ASSUME NEW d \in Conns, MediaFails(d) \/ Drop(d) \/ TeardownStep(d) PROVE UNCHANGED reader
  BY Zenon, <1>18 DEF MediaFails, SessionFails, Drop, TeardownStep, Detach, TeardownLeave, TeardownClose
<1>19. ASSUME NEW f \in failures, FailureStep(f) PROVE UNCHANGED reader
  BY Zenon, <1>19 DEF FailureStep, FailureLock, FailureLeave, FailureClose
<1>20. ASSUME Commit \/ AdminStep PROVE UNCHANGED reader
  BY Zenon, <1>20 DEF Commit, AdminStep, Ask, AdminEnter, Revalidate, AdminLeave, AdminClose,
     AdminRemove, AdminEnd, AdminNext, AdminUnregisters, AdminCloseRemoved
<1>21. ASSUME NEW d \in Conns, d = c, JoinStep(d) \/ BeginJoin(d) \/ LeaveVoice(d) \/ ReaderStops(d)
       PROVE  reader'[c] = reader[c] \/ Stages(c)
  BY Zenon, <1>21, <1>4, <1>5, <1>6, <1>7, <1>8, <1>9, <1>10, <1>11, <1>12, <1>13, <1>14, <1>15, <1>16
     DEF JoinStep
<1>. QED BY Zenon, <1>17, <1>18, <1>19, <1>20, <1>21 DEF Next

(* The steps that end a session.                                           *)
ClosedBy(c) ==
  \/ \E d \in Conns : CloseReplaced(d) /\ reader[d].old = c
  \/ MediaLeave(c) \/ (Offer(c) /\ CloseSession(c)) \/ ReaderCloses(c)
  \/ MediaFails(c)
  \/ \E f \in failures : FailureClose(f) /\ f.conn = c
  \/ TeardownClose(c)
  \/ AdminClose /\ admin.conn = c
  \/ AdminCloseRemoved(c)

(* The session of c stays the same.                                        *)
Kept(c) == /\ sessions'[c].on = sessions[c].on /\ sessions'[c].gen = sessions[c].gen
           /\ sessions'[c].ch = sessions[c].ch

(* A session stays, is installed by its join, or is ended by one of these. *)
LEMMA SessionsStep ==
  ASSUME sessions \in [Conns -> Sessions], Next, NEW c \in Conns
  PROVE  \/ Kept(c)
         \/ MediaInstall(c) /\ Installs(c)
         \/ sessions'[c] = NoSession /\ ClosedBy(c)
<1>1. ASSUME UNCHANGED sessions PROVE Kept(c) BY Zenon, <1>1 DEF Kept
<1>2. ASSUME NEW d, CloseSession(d) PROVE (d # c => Kept(c)) /\ (d = c => sessions'[c] = NoSession)
  BY Zenon, <1>2 DEF CloseSession, Kept
<1>. DEFINE Ended == sessions'[c] = NoSession /\ ClosedBy(c)
<1>. HIDE DEF Ended
<1>a. ASSUME NEW d, CloseSession(d), d = c => ClosedBy(c) PROVE Kept(c) \/ Ended
  BY Zenon, <1>2, <1>a DEF Ended
<1>3. ASSUME NEW d \in Conns, JoinStep(d) \/ BeginJoin(d) \/ LeaveVoice(d) \/ ReaderStops(d)
      PROVE  Kept(c) \/ (MediaInstall(c) /\ Installs(c)) \/ Ended
  <2>1. CASE MediaInstall(d)
    <3>1. CASE UNCHANGED sessions BY Zenon, <1>1, <3>1
    <3>2. CASE Installs(d) /\ d # c BY Zenon, <3>2 DEF Installs, Kept
    <3>3. CASE Installs(d) /\ d = c BY Zenon, <2>1, <3>3
    <3>. QED BY Zenon, <2>1, <3>1, <3>2, <3>3 DEF MediaInstall, Installs
  <2>2. CASE Offer(d)
    <3>1. CASE Marks(d)
      <4>1. sessions'[c] = sessions[c] \/ sessions'[c] = [sessions[c] EXCEPT !.lost = OfferLost(c)]
        BY Zenon, <3>1 DEF Marks
      <4>. QED BY Zenon, <4>1 DEF Kept, Sessions
    <3>2. CASE CloseSession(d)
      <4>1. d = c => ClosedBy(c) BY Zenon, <2>2, <3>2 DEF ClosedBy
      <4>. QED BY Zenon, <1>a, <3>2, <4>1
    <3>. QED BY Zenon, <2>2, <3>1, <3>2 DEF Offer, Marks
  <2>3. CASE CloseReplaced(d)
    <3>1. CloseSession(reader[d].old) BY Zenon, <2>3 DEF CloseReplaced
    <3>2. reader[d].old = c => ClosedBy(c) BY Zenon, <2>3 DEF ClosedBy
    <3>. QED BY Zenon, <1>a, <3>1, <3>2
  <2>4. CASE MediaLeave(d)
    <3>1. CloseSession(d) BY Zenon, <2>4 DEF MediaLeave
    <3>2. d = c => ClosedBy(c) BY Zenon, <2>4 DEF ClosedBy
    <3>. QED BY Zenon, <1>a, <3>1, <3>2
  <2>5. CASE ReaderCloses(d)
    <3>1. CloseSession(d) BY Zenon, <2>5 DEF ReaderCloses
    <3>2. d = c => ClosedBy(c) BY Zenon, <2>5 DEF ClosedBy
    <3>. QED BY Zenon, <1>a, <3>1, <3>2
  <2>6. CASE \/ BeginJoin(d) \/ LeaveVoice(d) \/ ReaderStops(d) \/ LockJoin(d) \/ Validate(d)
             \/ EnterRoster(d) \/ QueueJoined(d) \/ UndoJoin(d)
    BY Zenon, <1>1, <2>6 DEF BeginJoin, LeaveVoice, ReaderStops, LockJoin, Validate, EnterRoster,
       QueueJoined, UndoJoin
  <2>. QED BY Zenon, <1>3, <2>1, <2>2, <2>3, <2>4, <2>5, <2>6 DEF JoinStep
<1>4. ASSUME NEW d \in Conns, MediaFails(d) \/ Drop(d) \/ TeardownStep(d)
      PROVE  Kept(c) \/ Ended
  <2>1. CASE MediaFails(d)
    <3>1. CloseSession(d) BY Zenon, <2>1 DEF MediaFails, SessionFails
    <3>2. d = c => ClosedBy(c) BY Zenon, <2>1 DEF ClosedBy
    <3>. QED BY Zenon, <1>a, <3>1, <3>2
  <2>2. CASE TeardownClose(d)
    <3>1. CloseSession(d) BY Zenon, <2>2 DEF TeardownClose
    <3>2. d = c => ClosedBy(c) BY Zenon, <2>2 DEF ClosedBy
    <3>. QED BY Zenon, <1>a, <3>1, <3>2
  <2>3. CASE Drop(d) \/ Detach(d) \/ TeardownLeave(d)
    BY Zenon, <1>1, <2>3 DEF Drop, Detach, TeardownLeave
  <2>. QED BY Zenon, <1>4, <2>1, <2>2, <2>3 DEF TeardownStep
<1>5. ASSUME NEW f \in failures, FailureStep(f)
      PROVE  Kept(c) \/ Ended
  <2>1. CASE FailureClose(f)
    <3>1. CloseSession(f.conn) BY Zenon, <2>1 DEF FailureClose
    <3>2. f.conn = c => ClosedBy(c) BY Zenon, <2>1 DEF ClosedBy
    <3>. QED BY Zenon, <1>a, <3>1, <3>2
  <2>2. CASE FailureLock(f) \/ FailureLeave(f) BY Zenon, <1>1, <2>2 DEF FailureLock, FailureLeave
  <2>. QED BY Zenon, <1>5, <2>1, <2>2 DEF FailureStep
<1>6. ASSUME AdminClose PROVE Kept(c) \/ Ended
  <2>1. CloseSession(admin.conn) BY Zenon, <1>6 DEF AdminClose
  <2>2. admin.conn = c => ClosedBy(c) BY Zenon, <1>6 DEF ClosedBy
  <2>. QED BY Zenon, <1>a, <2>1, <2>2
<1>7. ASSUME NEW d \in Conns, AdminCloseRemoved(d)
      PROVE  Kept(c) \/ Ended
  <2>1. CloseSession(d) BY Zenon, <1>7 DEF AdminCloseRemoved
  <2>2. d = c => ClosedBy(c) BY Zenon, <1>7 DEF ClosedBy
  <2>. QED BY Zenon, <1>a, <2>1, <2>2
<1>8. ASSUME NEW d \in Conns, AdminNext(d) \/ AdminUnregisters(d) PROVE Kept(c)
  BY Zenon, <1>1, <1>8 DEF AdminNext, AdminUnregisters
<1>9. ASSUME Commit \/ Ask \/ AdminEnter \/ Revalidate \/ AdminLeave \/ AdminRemove \/ AdminEnd
      PROVE  Kept(c)
  BY Zenon, <1>1, <1>9 DEF Commit, Ask, AdminEnter, Revalidate, AdminLeave, AdminRemove, AdminEnd
<1>. QED BY Zenon, <1>3, <1>4, <1>5, <1>6, <1>7, <1>8, <1>9 DEF Next, AdminStep, Ended

(* The steps that take a connection out of the roster.                     *)
RemovedBy(c) ==
  \/ \E d \in Conns : Enters(d) /\ d # c /\ Owner(d) = Owner(c) /\ byUser[Owner(d)] = c
  \/ UndoJoin(c) \/ LeaveVoice(c)
  \/ \E f \in failures : FailureLeave(f) /\ f.conn = c /\ c \in registered
  \/ TeardownLeave(c)
  \/ AdminLeave /\ admin.conn = c
  \/ AdminRemove

(* A participant stays, enters, or is taken out by one of these.           *)
LEMMA RemovalsStep ==
  ASSUME RosterOK, Subjects, Next, NEW c \in Conns
  PROVE  \/ byClient'[c] = byClient[c]
         \/ Enters(c)
         \/ byClient'[c].gen = 0 /\ RemovedBy(c)
<1>0. byClient \in [Conns -> [gen : Nat, ch : Channels \cup {"none"}, e2ee : BOOLEAN]]
  BY Zenon DEF RosterOK, RosterType
<1>1. ASSUME NEW d \in Conns, leave(d)
      PROVE  (d # c => byClient'[c] = byClient[c]) /\ (byClient'[c] # byClient[c] => byClient'[c].gen = 0)
  <2>1. CASE In(d) BY <1>0, <1>1, <2>1 DEF leave, removeLocked, NoParticipant
  <2>2. CASE ~In(d) BY Zenon, <1>1, <2>2 DEF leave, roster
  <2>. QED BY Zenon, <2>1, <2>2
<1>2. ASSUME UNCHANGED roster PROVE byClient'[c] = byClient[c] BY Zenon, <1>2 DEF roster
<1>3. ASSUME NEW d \in Conns, EnterRoster(d)
      PROVE  byClient'[c] = byClient[c] \/ Enters(c) \/ (byClient'[c].gen = 0 /\ RemovedBy(c))
  <2>1. Enters(d) BY Zenon, <1>3, EntersOne
  <2>2. CASE d = c BY Zenon, <2>1, <2>2
  <2>3. CASE d # c
    <3>1. \/ byClient'[c] = byClient[c]
          \/ byClient'[c].gen = 0 /\ Owner(c) = Owner(d) /\ byUser[Owner(d)] = c
      BY Zenon, <2>1, <2>3 DEF Enters
    <3>. QED BY Zenon, <2>1, <2>3, <3>1 DEF RemovedBy
  <2>. QED BY Zenon, <2>2, <2>3
<1>4. ASSUME NEW d \in Conns, UndoJoin(d) \/ LeaveVoice(d) \/ TeardownLeave(d)
      PROVE  byClient'[c] = byClient[c] \/ (byClient'[c].gen = 0 /\ RemovedBy(c))
  <2>1. leave(d) BY Zenon, <1>4 DEF UndoJoin, LeaveVoice, TeardownLeave
  <2>. QED BY Zenon, <1>1, <1>4, <2>1 DEF RemovedBy
<1>5. ASSUME NEW f \in failures, FailureStep(f)
      PROVE  byClient'[c] = byClient[c] \/ (byClient'[c].gen = 0 /\ RemovedBy(c))
  <2>1. f.conn \in Conns BY Zenon DEF Subjects
  <2>2. CASE FailureLeave(f) /\ f.conn \in registered /\ leave(f.conn)
    BY Zenon, <1>1, <2>1, <2>2 DEF RemovedBy
  <2>3. CASE UNCHANGED roster BY Zenon, <1>2, <2>3
  <2>. QED BY Zenon, <1>5, <2>2, <2>3 DEF FailureStep, FailureLock, FailureLeave, FailureClose
<1>6. ASSUME AdminRemove PROVE byClient'[c] = byClient[c] \/ (byClient'[c].gen = 0 /\ RemovedBy(c))
  BY <1>6 DEF AdminRemove, removeChannel, removeServer, RemoveAll, NoParticipant, RemovedBy
<1>7. ASSUME AdminLeave PROVE byClient'[c] = byClient[c] \/ (byClient'[c].gen = 0 /\ RemovedBy(c))
  <2>1. admin.conn \in Conns /\ leave(admin.conn) BY Zenon, <1>7 DEF AdminLeave, Subjects
  <2>. QED BY Zenon, <1>1, <1>7, <2>1 DEF RemovedBy
<1>8. ASSUME Commit \/ AdminStep, ~AdminRemove, ~AdminLeave PROVE UNCHANGED roster
  BY Zenon, <1>8 DEF Commit, AdminStep, Ask, AdminEnter, Revalidate, AdminClose, AdminEnd,
     AdminNext, AdminUnregisters, AdminCloseRemoved
<1>9. ASSUME NEW d \in Conns,
             \/ JoinStep(d) /\ ~EnterRoster(d) /\ ~UndoJoin(d)
             \/ BeginJoin(d) \/ ReaderStops(d) \/ MediaFails(d) \/ Drop(d) \/ Detach(d)
             \/ TeardownClose(d)
      PROVE  UNCHANGED roster
  BY Zenon, <1>9 DEF JoinStep, BeginJoin, ReaderStops, LockJoin, Validate, CloseReplaced,
     QueueJoined, MediaLeave, MediaInstall, Offer, ReaderCloses, MediaFails, SessionFails,
     Drop, Detach, TeardownClose
<1>10. ASSUME NEW d \in Conns,
              \/ BeginJoin(d) \/ JoinStep(d) \/ LeaveVoice(d) \/ ReaderStops(d)
              \/ MediaFails(d) \/ Drop(d) \/ TeardownStep(d)
       PROVE  byClient'[c] = byClient[c] \/ Enters(c) \/ (byClient'[c].gen = 0 /\ RemovedBy(c))
  BY Zenon, <1>2, <1>3, <1>4, <1>9, <1>10 DEF TeardownStep
<1>. QED BY Zenon, <1>2, <1>5, <1>6, <1>7, <1>8, <1>10 DEF Next

(* Who starts, moves and ends a failure callback.                          *)
LEMMA CallbacksMove ==
  ASSUME Subjects, Next
  PROVE  /\ \A f \in failures : f \in failures' \/ FailureStep(f)
         /\ \A g \in failures' : g \notin failures =>
              \/ \E c \in Conns : /\ MediaFails(c) /\ sessions[c].gen # 0
                                  /\ g = [conn |-> c, gen |-> sessions[c].gen, at |-> "waiting"]
              \/ \E f \in failures : /\ g.conn = f.conn /\ g.gen = f.gen
                                     /\ \/ FailureLock(f) /\ g.at = "leaving"
                                        \/ FailureLeave(f) /\ g.at = "closing" /\ leave(f.conn)
<1>1. ASSUME NEW c \in Conns,
             BeginJoin(c) \/ JoinStep(c) \/ LeaveVoice(c) \/ ReaderStops(c) \/ Drop(c) \/ TeardownStep(c)
      PROVE  UNCHANGED failures
  BY Zenon, <1>1 DEF BeginJoin, JoinStep, LeaveVoice, ReaderStops, Drop, TeardownStep, LockJoin,
     Validate, EnterRoster, CloseReplaced, QueueJoined, MediaLeave, MediaInstall, Offer,
     UndoJoin, ReaderCloses, Detach, TeardownLeave, TeardownClose
<1>2. ASSUME Commit \/ AdminStep PROVE UNCHANGED failures
  BY Zenon, <1>2 DEF Commit, AdminStep, Ask, AdminEnter, Revalidate, AdminLeave, AdminClose,
     AdminRemove, AdminEnd, AdminNext, AdminUnregisters, AdminCloseRemoved
<1>3. ASSUME NEW c \in Conns, MediaFails(c)
      PROVE  /\ failures \subseteq failures'
             /\ \A g \in failures' : g \notin failures =>
                  sessions[c].gen # 0 /\ g = [conn |-> c, gen |-> sessions[c].gen, at |-> "waiting"]
  BY Zenon, <1>3 DEF MediaFails, SessionFails
<1>4. ASSUME NEW f \in failures, FailureStep(f)
      PROVE  /\ \A h \in failures : h # f => h \in failures'
             /\ \A g \in failures' : g \notin failures =>
                  /\ g.conn = f.conn /\ g.gen = f.gen
                  /\ \/ FailureLock(f) /\ g.at = "leaving"
                     \/ FailureLeave(f) /\ g.at = "closing" /\ leave(f.conn)
  <2>1. ASSUME NEW s, Move(f, s)
        PROVE  /\ \A h \in failures : h # f => h \in failures'
               /\ \A g \in failures' : g \notin failures => g.conn = f.conn /\ g.gen = f.gen /\ g.at = s
    <3>1. [f EXCEPT !.at = s] = [conn |-> f.conn, gen |-> f.gen, at |-> s] BY DEF Subjects
    <3>. QED BY Zenon, <2>1, <3>1 DEF Move
  <2>2. ASSUME End(f)
        PROVE  (\A h \in failures : h # f => h \in failures') /\ failures' \subseteq failures
    BY Zenon, <2>2 DEF End
  <2>. QED BY Zenon, <1>4, <2>1, <2>2 DEF FailureStep, FailureLock, FailureLeave, FailureClose
<1>5. CASE UNCHANGED failures BY Zenon, <1>5
<1>6. CASE \E c \in Conns : MediaFails(c) BY Zenon, <1>3, <1>6
<1>7. CASE \E f \in failures : FailureStep(f) BY Zenon, <1>4, <1>7
<1>. QED BY ZenonT(40), <1>1, <1>2, <1>5, <1>6, <1>7 DEF Next

(* Who moves an administrative operation, and how it gets to the stages in *)
(* which sessions are closed.                                              *)
LEMMA AdminMoves == ASSUME Next PROVE UNCHANGED admin \/ Commit \/ AdminStep
<1>1. ASSUME NEW c \in Conns,
             \/ BeginJoin(c) \/ JoinStep(c) \/ LeaveVoice(c) \/ ReaderStops(c)
             \/ MediaFails(c) \/ Drop(c) \/ TeardownStep(c)
      PROVE  UNCHANGED admin
  BY Zenon, <1>1 DEF BeginJoin, JoinStep, LeaveVoice, ReaderStops, MediaFails, SessionFails, Drop,
     TeardownStep, LockJoin, Validate, EnterRoster, CloseReplaced, QueueJoined, MediaLeave,
     MediaInstall, Offer, UndoJoin, ReaderCloses, Detach, TeardownLeave, TeardownClose
<1>2. ASSUME NEW f \in failures, FailureStep(f) PROVE UNCHANGED admin
  BY Zenon, <1>2 DEF FailureStep, FailureLock, FailureLeave, FailureClose
<1>. QED BY Zenon, <1>1, <1>2 DEF Next

(* A commit begins an operation that has not asked for its lock yet.       *)
LEMMA CommitBegins ==
  ASSUME Commit
  PROVE  /\ admin = NoAdmin
         /\ \E op \in {"refresh", "revoke", "revokeServer", "removeChannel", "reset", "revalidate"} :
              \E arg : Begin(op, arg) /\ admin' = [op |-> op, at |-> "committed", arg |-> arg, conn |-> "none",
                                         failed |-> FALSE, todo |-> {}]
<1>1. PICK op \in {"refresh", "revoke", "revokeServer", "removeChannel", "reset", "revalidate"} :
        \E arg : Begin(op, arg)
  <2>1. CASE \E u : Begin("refresh", u) \/ Begin("revoke", u) \/ Begin("revalidate", u) BY Zenon, <2>1
  <2>2. CASE Begin("revokeServer", "none") BY Zenon, <2>2
  <2>3. CASE \E x : Begin("removeChannel", x) \/ Begin("reset", x) BY Zenon, <2>3
  <2>. QED BY Zenon, <2>1, <2>2, <2>3 DEF Commit
<1>. QED BY Zenon, <1>1 DEF Begin, NoAdmin

(* An operation closes the session of a connection that it, or the removal *)
(* before, has taken out of the roster.                                    *)
LEMMA AdminCloses ==
  ASSUME Subjects, AdminStep
  PROVE  /\ admin' = NoAdmin \/ (admin'.op = admin.op /\ admin'.arg = admin.arg)
         /\ admin'.at = "closing" => AdminLeave /\ In(admin.conn) /\ admin'.conn = admin.conn /\ admin'.todo = admin.todo
         /\ admin'.at = "removed" =>
              \/ AdminRemove
              \/ /\ admin.at = "removed"
                 /\ \E c \in Conns : AdminCloseRemoved(c) /\ admin'.todo = admin.todo \ {c}
         /\ admin'.at # "committed"
<1>0. DOMAIN admin = {"op", "at", "arg", "conn", "failed", "todo"} BY Zenon DEF Subjects
<1>1. CASE Ask BY Zenon, <1>0, <1>1 DEF Ask
<1>2. CASE AdminEnter
  <2>. DEFINE Good == /\ admin'.op = admin.op /\ admin'.arg = admin.arg
                      /\ admin'.at \in {"next", "removing"}
  <2>1. ASSUME NEW t, NEW e, admin' = [admin EXCEPT !.at = "next", !.todo = t, !.failed = e] PROVE Good
    BY Zenon, <1>0, <2>1
  <2>2. ASSUME NEW t, NEW e, NEW failed, admin' = [admin EXCEPT !.at = IF failed THEN "next" ELSE "removing",
                                       !.todo = IF failed THEN t ELSE {}, !.failed = e] PROVE Good
    <3>1. CASE failed BY Zenon, <1>0, <2>2, <3>1
    <3>2. CASE ~failed BY Zenon, <1>0, <2>2, <3>2
    <3>. QED BY Zenon, <3>1, <3>2
  <2>3. ASSUME admin' = [admin EXCEPT !.at = "removing"] PROVE Good BY Zenon, <1>0, <2>3
  <2>4. ASSUME admin' = [admin EXCEPT !.at = "next", !.todo = Visits] PROVE Good BY Zenon, <1>0, <2>4
  <2>. HIDE DEF Good
  <2>5. ASSUME admin.op \in {"refresh", "revoke"} PROVE Good
    <3>1. PICK failed : admin' = [admin EXCEPT !.at = "next", !.todo = Visits, !.failed = failed]
      BY Zenon, <1>2, <2>5 DEF AdminEnter
    <3>. QED BY Zenon, <2>1, <3>1
  <2>6. ASSUME admin.op = "revokeServer" PROVE Good
    <3>1. PICK failed : admin' = [admin EXCEPT !.at = IF failed THEN "next" ELSE "removing",
                                  !.todo = IF failed THEN Visits ELSE {}, !.failed = failed]
      BY Zenon, <1>2, <2>6 DEF AdminEnter
    <3>. QED BY Zenon, <2>2, <3>1
  <2>7. Good BY Zenon, <1>2, <2>3, <2>4, <2>5, <2>6 DEF AdminEnter
  <2>. QED BY Zenon, <2>7 DEF Good
<1>3. CASE Revalidate
  <2>1. CASE admin' = NoAdmin BY Zenon, <2>1 DEF NoAdmin
  <2>2. ASSUME NEW c, admin' = [admin EXCEPT !.at = "leaving", !.conn = c, !.todo = {c}]
        PROVE  admin'.op = admin.op /\ admin'.arg = admin.arg /\ admin'.at = "leaving"
    BY Zenon, <1>0, <2>2
  <2>3. admin' = NoAdmin \/ \E c : admin' = [admin EXCEPT !.at = "leaving", !.conn = c, !.todo = {c}]
    BY Zenon, <1>3 DEF Revalidate
  <2>. QED BY Zenon, <2>1, <2>2, <2>3
<1>4. CASE AdminLeave BY Zenon, <1>0, <1>4 DEF AdminLeave, Visited
<1>5. CASE AdminClose BY Zenon, <1>0, <1>5 DEF AdminClose, Visited
<1>6. CASE AdminRemove
  <2>1. PICK S : admin' = [admin EXCEPT !.at = "removed", !.todo = S] BY Zenon, <1>6 DEF AdminRemove
  <2>. QED BY Zenon, <1>0, <1>6, <2>1
<1>7. CASE AdminEnd BY Zenon, <1>0, <1>7 DEF AdminEnd, NoAdmin
<1>8. ASSUME NEW c \in Conns, AdminNext(c)
      PROVE  /\ admin'.op = admin.op /\ admin'.arg = admin.arg
             /\ admin'.at \in {"next", "leaving"}
  BY Zenon, <1>0, <1>8 DEF AdminNext
<1>9. ASSUME NEW c \in Conns, AdminUnregisters(c)
      PROVE  /\ admin'.op = admin.op /\ admin'.arg = admin.arg /\ admin'.at = "next"
  BY Zenon, <1>0, <1>9 DEF AdminUnregisters, Visited
<1>10. ASSUME NEW c \in Conns, AdminCloseRemoved(c)
      PROVE  /\ admin'.op = admin.op /\ admin'.arg = admin.arg /\ admin'.at = "removed"
             /\ admin.at = "removed" /\ admin'.todo = admin.todo \ {c}
  BY Zenon, <1>0, <1>10 DEF AdminCloseRemoved
<1>. QED BY ZenonT(40), <1>1, <1>2, <1>3, <1>4, <1>5, <1>6, <1>7, <1>8, <1>9, <1>10 DEF AdminStep

(* Sessions are closed after the participant has left.                     *)
LEMMA LeftFirstStep ==
  ASSUME RosterOK, Subjects, LockExcludes, OneJoin, AdminStages, LeftFirst, Next
  PROVE  LeftFirst'
<1>1. ASSUME NEW c \in Conns, ~In(c), ~EnterRoster(c) PROVE ~In(c)'
  <2>1. byClient'[c] = byClient[c] \/ byClient'[c].gen = 0
    BY Zenon, <1>1, RemovalsStep DEF Enters
  <2>. QED BY <1>1, <2>1 DEF In
<1>2. ASSUME NEW c \in Conns, leave(c) PROVE ~In(c)'
  <2>1. CASE In(c)
    BY <1>2, <2>1 DEF leave, removeLocked, NoParticipant, RosterOK, RosterType, In
  <2>2. CASE ~In(c) BY Zenon, <1>2, <2>2 DEF leave, roster, In
  <2>. QED BY Zenon, <2>1, <2>2
<1>3. ASSUME NEW c \in Conns, reader'[c].at \in {"undone", "leaving"} PROVE ~In(c)'
  <2>1. CASE reader'[c] = reader[c]
    <3>1. ~In(c) /\ ~EnterRoster(c) BY Zenon, <1>3, <2>1 DEF LeftFirst, EnterRoster
    <3>. QED BY Zenon, <1>1, <3>1
  <2>2. CASE Stages(c)
    <3>1. UndoJoin(c) \/ LeaveVoice(c) BY Zenon, <1>3, <2>2 DEF Stages, Goes
    <3>. QED BY Zenon, <1>2, <3>1 DEF UndoJoin, LeaveVoice
  <2>. QED BY Zenon, <2>1, <2>2, StagesStep
<1>4. ASSUME NEW c \in Conns, reader'[c].at = "replacing"
      PROVE  /\ reader'[c].old \in Conns /\ Owner(reader'[c].old) = Owner(c) /\ reader'[c].old # c
             /\ ~In(reader[c].old)'
  <2>1. CASE reader'[c] = reader[c]
    <3>1. PICK p : p = reader[c].old OBVIOUS
    <3>2. p \in Conns /\ Owner(p) = Owner(c) /\ p # c /\ ~In(p)
      BY Zenon, <1>4, <2>1, <3>1 DEF LeftFirst
    <3>3. ~EnterRoster(p)
      BY Zenon, <1>4, <2>1, <3>2 DEF EnterRoster, OneJoin, HasJoinLock, InGate
    <3>4. ~In(p)' BY Zenon, <1>1, <3>2, <3>3
    <3>. QED BY Zenon, <2>1, <3>1, <3>2, <3>4 DEF In
  <2>2. CASE Stages(c)
    <3>1. /\ EnterRoster(c) /\ ~Refreshes(c, reader[c].ch, reader[c].e2ee)
          /\ reader'[c].old \in Replaced(c)
      BY Zenon, <1>4, <2>2 DEF Stages, Goes
    <3>2. PICK p \in Conns : p = reader'[c].old /\ p \in Replaced(c) BY Zenon, <3>1 DEF Replaced
    <3>3. p # c /\ Owner(p) = Owner(c)
      BY Zenon, <3>2, VoiceAssumption DEF Replaced, RosterOK, UsersOwn
    <3>4. join(c, reader[c].ch, reader[c].e2ee) BY Zenon, <3>1 DEF EnterRoster
    <3>5. byClient'[p] = NoParticipant BY Zenon, <3>1, <3>2, <3>3, <3>4 DEF join
    <3>. QED BY <3>2, <3>3, <3>5 DEF In, NoParticipant
  <2>. QED BY Zenon, <2>1, <2>2, StagesStep
<1>5. ASSUME NEW g \in failures', g.at = "closing" PROVE ~In(g.conn)'
  <2>1. CASE g \in failures
    <3>1. g.conn \in Conns /\ ~In(g.conn) BY Zenon, <1>5, <2>1 DEF LeftFirst, Subjects
    <3>2. ~EnterRoster(g.conn) BY Zenon, <1>5, <2>1, <3>1 DEF EnterRoster, LockExcludes
    <3>. QED BY Zenon, <1>1, <3>1, <3>2
  <2>2. CASE g \notin failures
    <3>1. PICK f \in failures : g.conn = f.conn /\ leave(f.conn)
      BY <1>5, <2>2, CallbacksMove
    <3>. QED BY Zenon, <1>2, <3>1 DEF Subjects
  <2>. QED BY Zenon, <2>1, <2>2
<1>6. ASSUME admin'.op \in Exclusive, admin'.at = "closing" PROVE ~In(admin.conn)'
  <2>0. DOMAIN admin = {"op", "at", "arg", "conn", "failed", "todo"} BY Zenon DEF Subjects
  <2>1. CASE UNCHANGED admin
    <3>1. admin.conn \in Conns /\ ~In(admin.conn) /\ NobodyJoins
      BY Zenon, <1>6, <2>1 DEF LeftFirst, Subjects, AdminStages
    <3>2. ~EnterRoster(admin.conn) BY Zenon, <3>1 DEF NobodyJoins, InGate, EnterRoster
    <3>. QED BY Zenon, <1>1, <2>1, <3>1, <3>2 DEF In
  <2>2. CASE AdminLeave
    <3>1. admin.conn \in Conns /\ leave(admin.conn) /\ admin'.conn = admin.conn
      BY Zenon, <1>6, <2>0, <2>2 DEF AdminLeave, Subjects, Visited
    <3>. QED BY Zenon, <1>2, <3>1 DEF In
  <2>3. CASE Commit BY <1>6, <2>3, CommitBegins
  <2>. QED BY Zenon, <1>6, <2>1, <2>2, <2>3, AdminMoves, AdminCloses
<1>7. ASSUME admin'.op \in Exclusive, admin'.at = "removed", NEW c \in Conns \cap admin'.todo PROVE ~In(c)'
  <2>1. ASSUME admin.op \in Exclusive, admin.at = "removed", c \in admin.todo PROVE ~In(c)'
    <3>1. ~In(c) /\ NobodyJoins BY Zenon, <2>1 DEF LeftFirst, AdminStages
    <3>2. ~EnterRoster(c) BY Zenon, <3>1 DEF NobodyJoins, InGate, EnterRoster
    <3>. QED BY Zenon, <1>1, <3>1, <3>2
  <2>2. CASE UNCHANGED admin BY Zenon, <1>7, <2>1, <2>2
  <2>3. CASE AdminRemove
    <3>1. PICK S : RemoveAll(S) /\ admin' = [admin EXCEPT !.at = "removed", !.todo = S]
      BY Zenon, <2>3 DEF AdminRemove, removeChannel, removeServer
    <3>2. c \in S BY Zenon, <1>7, <3>1 DEF Subjects
    <3>3. byClient'[c] = NoParticipant BY Zenon, <3>1, <3>2 DEF RemoveAll
    <3>. QED BY <3>3 DEF In, NoParticipant
  <2>4. CASE Commit BY <1>7, <2>4, CommitBegins
  <2>5. CASE AdminStep /\ ~AdminRemove
    <3>1. admin.at = "removed" /\ c \in admin.todo /\ (admin' = NoAdmin \/ admin'.op = admin.op)
      BY Zenon, <1>7, <2>5, AdminCloses
    <3>2. admin.op \in Exclusive BY <1>7, <3>1 DEF NoAdmin
    <3>. QED BY Zenon, <2>1, <3>1, <3>2
  <2>. QED BY Zenon, <2>2, <2>3, <2>4, <2>5, AdminMoves
<1>. QED BY Zenon, <1>3, <1>4, <1>5, <1>6, <1>7 DEF LeftFirst

-----------------------------------------------------------------------------
(* Media sessions and revocations. *)

(* A connection that enters the roster gets a generation nobody has seen.  *)
LEMMA EntersFresh ==
  ASSUME RosterOK, GenerationsOK, NEW c \in Conns, Enters(c)
  PROVE  /\ byClient'[c].gen \in Nat /\ byClient'[c].gen # 0
         /\ byClient'[c].ch = reader[c].ch
         /\ sessions[c].gen # byClient'[c].gen
         /\ \A f \in failures : f.gen # byClient'[c].gen
<1>1. byClient'[c] = [gen |-> nextGeneration + 1, ch |-> reader[c].ch, e2ee |-> reader[c].e2ee]
  BY Zenon DEF Enters
<1>2. byClient'[c].gen = nextGeneration + 1 /\ byClient'[c].ch = reader[c].ch BY <1>1
<1>3. nextGeneration \in Nat /\ sessions[c].gen \in Nat /\ sessions[c].gen <= nextGeneration
  BY Zenon DEF RosterOK, RosterType, GenerationsOK, Sessions
<1>4. \A f \in failures : f.gen \in Nat /\ f.gen <= nextGeneration BY Zenon DEF GenerationsOK
<1>. QED BY <1>2, <1>3, <1>4

(* The session that a join installs has its generation, or none.           *)
LEMMA InstallsCaptured ==
  ASSUME RosterOK, GenerationsOK, NEW c \in Conns, MediaInstall(c), Installs(c)
  PROVE  /\ reader[c].at = "reserving" /\ UNCHANGED <<byClient, failures, teardown, done>>
         /\ sessions'[c].on /\ sessions'[c].ch = reader[c].ch
         /\ sessions'[c].gen = IF c \in registered THEN byClient[c].gen ELSE 0
<1>1. sessions'[c] = [on |-> TRUE, gen |-> Captured(c), ch |-> reader[c].ch,
                      e2ee |-> reader[c].e2ee, lost |-> FALSE]
  BY Zenon DEF GenerationsOK, Installs
<1>2. reader[c].at = "reserving" /\ UNCHANGED <<roster, failures, teardown, done>>
  BY Zenon DEF MediaInstall
<1>. QED BY <1>1, <1>2 DEF Captured, roster

(* A teardown reaches its last stages only by leaving.                     *)
LEMMA TeardownMoves ==
  ASSUME ClosedOK, Next, NEW c \in Conns, ~TeardownLeave(c), ~TeardownClose(c),
         teardown'[c] \in {"closing", "gone"}
  PROVE  teardown'[c] = teardown[c]
<1>1. ASSUME NEW d \in Conns, Drop(d) \/ Detach(d) \/ AdminUnregisters(d) PROVE teardown'[c] = teardown[c]
  BY Zenon, <1>1 DEF ClosedOK, Drop, Detach, AdminUnregisters, CloseClient
<1>2. ASSUME NEW d \in Conns, d # c, TeardownLeave(d) \/ TeardownClose(d) PROVE teardown'[c] = teardown[c]
  BY Zenon, <1>2 DEF ClosedOK, TeardownLeave, TeardownClose
<1>3. ASSUME NEW d \in Conns,
             BeginJoin(d) \/ JoinStep(d) \/ LeaveVoice(d) \/ ReaderStops(d) \/ MediaFails(d)
      PROVE  UNCHANGED teardown
  BY Zenon, <1>3 DEF BeginJoin, JoinStep, LeaveVoice, ReaderStops, MediaFails, SessionFails,
     LockJoin, Validate, EnterRoster, CloseReplaced, QueueJoined, MediaLeave, MediaInstall,
     Offer, UndoJoin, ReaderCloses
<1>4. ASSUME NEW f \in failures, FailureStep(f) PROVE UNCHANGED teardown
  BY Zenon, <1>4 DEF FailureStep, FailureLock, FailureLeave, FailureClose
<1>5. ASSUME Commit \/ Ask \/ AdminEnter \/ Revalidate \/ AdminLeave \/ AdminClose
             \/ AdminRemove \/ AdminEnd
      PROVE  UNCHANGED teardown
  BY Zenon, <1>5 DEF Commit, Ask, AdminEnter, Revalidate, AdminLeave, AdminClose, AdminRemove, AdminEnd
<1>6. ASSUME NEW d \in Conns, AdminNext(d) \/ AdminCloseRemoved(d) PROVE UNCHANGED teardown
  BY Zenon, <1>6 DEF AdminNext, AdminCloseRemoved
<1>. QED BY Zenon, <1>1, <1>2, <1>3, <1>4, <1>5, <1>6 DEF Next, AdminStep, TeardownStep

(* A new join is told from every session and failure there is, and a       *)
(* failure is reported when its session is gone.                           *)
LEMMA FreshStep ==
  ASSUME RosterOK, Subjects, ClosedOK, GenerationsOK, Fresh, Next
  PROVE  Fresh'
<1>0. /\ sessions \in [Conns -> Sessions] /\ NoSession.on = FALSE /\ NoSession.gen = 0
      /\ \A c \in Conns : byClient[c].gen \in Nat /\ (In(c) <=> byClient[c].gen # 0)
  BY DEF GenerationsOK, NoSession, RosterOK, RosterType, In
<1>1. RosterOK' BY Zenon, RosterStep
<1>2. \A c \in Conns : In(c)' <=> byClient'[c].gen # 0
  BY <1>1 DEF RosterOK, RosterType, In
<1>3. \A g \in failures' : g.gen # 0 /\ g.conn \in Conns
  BY CallbacksMove DEF Fresh, Subjects
<1>4. ASSUME NEW c \in Conns, reader'[c].at \in Joined, In(c)'
      PROVE  /\ byClient'[c].ch = reader'[c].ch /\ sessions'[c].gen # byClient'[c].gen
             /\ \A g \in failures' : g.conn = c => g.gen # byClient'[c].gen
  <2>0. byClient'[c].gen # 0 BY Zenon, <1>2, <1>4
  <2>1. CASE Enters(c)
    <3>1. EnterRoster(c) BY Zenon, <2>1 DEF Enters
    <3>2. UNCHANGED <<sessions, failures>> BY Zenon, <3>1 DEF EnterRoster
    <3>3. reader[c].at = "validated" BY Zenon, <3>1 DEF EnterRoster
    <3>4. reader'[c] # reader[c] BY Zenon, <1>4, <3>3 DEF Joined
    <3>5. reader'[c].ch = reader[c].ch BY Zenon, <1>4, <3>3, <3>4, StagesStep DEF Stages, Goes, SameJoin, Joined
    <3>. QED BY Zenon, <2>1, <3>2, <3>5, EntersFresh
  <2>2. CASE byClient'[c] = byClient[c] /\ ~EnterRoster(c)
    <3>1. reader[c].at \in Joined /\ reader'[c].ch = reader[c].ch
      <4>1. CASE reader'[c] = reader[c] BY Zenon, <1>4, <4>1
      <4>2. CASE Stages(c) BY Zenon, <1>4, <2>2, <4>2 DEF Stages, Goes, SameJoin, Joined
      <4>. QED BY Zenon, <4>1, <4>2, StagesStep
    <3>2. In(c) BY Zenon, <1>0, <2>0, <2>2
    <3>3. /\ byClient[c].ch = reader[c].ch /\ sessions[c].gen # byClient[c].gen
          /\ \A f \in failures : f.conn = c => f.gen # byClient[c].gen
      BY Zenon, <3>1, <3>2 DEF Fresh
    <3>4. ~(MediaInstall(c) /\ Installs(c))
      <4>1. SUFFICES ASSUME MediaInstall(c), Installs(c) PROVE FALSE OBVIOUS
      <4>2. reader[c].at = "reserving" BY Zenon, <4>1 DEF MediaInstall
      <4>3. CASE reader'[c] = reader[c]
        BY <4>1, <4>2, <4>3 DEF MediaInstall, Reader, Subjects, Readers
      <4>4. CASE Stages(c) BY Zenon, <1>4, <4>2, <4>4, <4>1 DEF Stages, Goes, Joined
      <4>. QED BY Zenon, <4>3, <4>4, StagesStep
    <3>5. sessions'[c].gen = sessions[c].gen \/ sessions'[c].gen = 0
      BY Zenon, <1>0, <3>4, SessionsStep DEF Kept
    <3>6. ASSUME NEW g \in failures', g.conn = c PROVE g.gen # byClient[c].gen
      BY SMTT(30), <3>3, <3>6, CallbacksMove
    <3>. QED BY Zenon, <2>0, <2>2, <3>1, <3>3, <3>5, <3>6
  <2>3. CASE EnterRoster(c) BY Zenon, <2>1, <2>3, EntersOne
  <2>. QED BY Zenon, <2>0, <2>1, <2>2, <2>3, RemovalsStep
<1>5. ASSUME NEW g \in failures', sessions'[g.conn].on PROVE sessions'[g.conn].gen # g.gen
  <2>. DEFINE c == g.conn
  <2>0. c \in Conns /\ g.gen # 0 BY Zenon, <1>3
  <2>. HIDE DEF c
  <2>1. ASSUME NEW f \in failures, f.conn = c, f.gen = g.gen PROVE sessions'[c].gen # g.gen
    <3>1. CASE MediaInstall(c) /\ Installs(c)
      <4>1. reader[c].at \in Joined BY Zenon, <3>1 DEF MediaInstall, Joined
      <4>2. In(c) => f.gen # byClient[c].gen BY Zenon, <2>0, <2>1, <4>1 DEF Fresh
      <4>. QED BY Zenon, <1>0, <2>0, <2>1, <3>1, <4>2, InstallsCaptured
    <3>2. CASE Kept(c)
      <4>1. sessions[c].on BY Zenon, <1>5, <3>2 DEF Kept, c
      <4>. QED BY Zenon, <2>1, <3>2, <4>1 DEF Kept, Fresh
    <3>3. CASE sessions'[c] = NoSession BY Zenon, <1>0, <2>0, <3>3
    <3>. QED BY Zenon, <1>0, <2>0, <3>1, <3>2, <3>3, SessionsStep
  <2>2. ASSUME MediaFails(c) PROVE ~sessions'[c].on
    BY Zenon, <1>0, <2>0, <2>2 DEF MediaFails, SessionFails, CloseSession
  <2>3. \/ \E f \in failures : f.conn = c /\ f.gen = g.gen
        \/ MediaFails(c)
    BY CallbacksMove DEF c
  <2>. QED BY Zenon, <1>5, <2>1, <2>2, <2>3 DEF c
<1>6. ASSUME NEW c \in Conns, Serves(c)' PROVE sessions'[c].ch = byClient'[c].ch
  <2>0. sessions'[c].on /\ byClient'[c].gen # 0 /\ sessions'[c].gen = byClient'[c].gen
    BY Zenon, <1>2, <1>6 DEF Serves
  <2>1. CASE MediaInstall(c) /\ Installs(c)
    <3>1. /\ reader[c].at = "reserving" /\ byClient' = byClient /\ sessions'[c].ch = reader[c].ch
      BY Zenon, <2>1, InstallsCaptured
    <3>2. reader[c].at \in Joined /\ In(c) BY Zenon, <1>0, <2>0, <3>1 DEF Joined
    <3>. QED BY Zenon, <3>1, <3>2 DEF Fresh
  <2>2. CASE Kept(c)
    <3>1. sessions[c].on /\ sessions[c].gen = byClient'[c].gen /\ sessions'[c].ch = sessions[c].ch
      BY Zenon, <2>0, <2>2 DEF Kept
    <3>2. ~Enters(c) BY Zenon, <3>1, EntersFresh
    <3>3. byClient'[c] = byClient[c] BY Zenon, <2>0, <3>2, RemovalsStep
    <3>4. Serves(c) BY Zenon, <1>0, <2>0, <3>1, <3>3 DEF Serves
    <3>. QED BY Zenon, <3>1, <3>3, <3>4 DEF Fresh
  <2>3. CASE sessions'[c] = NoSession BY Zenon, <1>0, <2>0, <2>3
  <2>. QED BY Zenon, <1>0, <2>1, <2>2, <2>3, SessionsStep
<1>7. ASSUME NEW c \in Conns, teardown'[c] \in {"closing", "gone"} PROVE ~Serves(c)'
  <2>0. SUFFICES ASSUME Serves(c)' PROVE FALSE OBVIOUS
  <2>1. sessions'[c].on /\ byClient'[c].gen # 0 /\ sessions'[c].gen = byClient'[c].gen
    BY Zenon, <1>2, <2>0 DEF Serves
  <2>2. teardown[c] \in {"closing", "gone"}
    <3>1. CASE TeardownLeave(c)
      <4>1. leave(c) BY Zenon, <3>1 DEF TeardownLeave
      <4>2. byClient'[c].gen = 0
        BY <1>0, <4>1 DEF leave, removeLocked, NoParticipant, roster, RosterOK, RosterType
      <4>. QED BY Zenon, <2>1, <4>2
    <3>2. CASE TeardownClose(c) BY Zenon, <3>2 DEF TeardownClose
    <3>3. CASE ~TeardownLeave(c) /\ ~TeardownClose(c)
      BY Zenon, <1>7, <3>3, TeardownMoves
    <3>. QED BY Zenon, <3>1, <3>2, <3>3
  <2>3. c \notin registered /\ ~Serves(c) BY Zenon, <2>2 DEF ClosedOK, Fresh
  <2>4. CASE MediaInstall(c) /\ Installs(c)
    BY Zenon, <2>1, <2>3, <2>4, InstallsCaptured
  <2>5. CASE Kept(c)
    <3>1. sessions[c].on /\ sessions[c].gen = byClient'[c].gen BY Zenon, <2>1, <2>5 DEF Kept
    <3>2. ~Enters(c) BY Zenon, <3>1, EntersFresh
    <3>3. byClient'[c] = byClient[c] BY Zenon, <2>1, <3>2, RemovalsStep
    <3>. QED BY Zenon, <1>0, <2>1, <2>3, <3>1, <3>3 DEF Serves
  <2>6. CASE sessions'[c] = NoSession BY Zenon, <1>0, <2>1, <2>6
  <2>. QED BY Zenon, <1>0, <2>4, <2>5, <2>6, SessionsStep
<1>8. ASSUME NEW c \in Conns, reader'[c].at \in {"reserving", "undoing"} PROVE ~sessions'[c].on
  <2>1. CASE reader'[c] = reader[c]
    <3>1. ~sessions[c].on BY Zenon, <1>8, <2>1 DEF Fresh
    <3>2. ~(MediaInstall(c) /\ Installs(c))
      <4>1. SUFFICES ASSUME MediaInstall(c), Installs(c) PROVE FALSE OBVIOUS
      <4>2. reader[c].at = "reserving" BY Zenon, <4>1 DEF MediaInstall
      <4>. QED BY <2>1, <4>1, <4>2 DEF MediaInstall, Reader, Subjects, Readers
    <3>. QED BY Zenon, <1>0, <3>1, <3>2, SessionsStep DEF Kept
  <2>2. CASE MediaLeave(c) \/ (Offer(c) /\ CloseSession(c))
    BY Zenon, <1>0, <2>2 DEF MediaLeave, Offer, CloseSession
  <2>3. CASE Goes(c, "reserving", "undoing") /\ UNCHANGED sessions BY Zenon, <2>3 DEF Goes, Fresh
  <2>. QED BY Zenon, <1>8, <2>1, <2>2, <2>3, StagesStep DEF Stages, Goes
<1>. QED BY Zenon, <1>3, <1>4, <1>5, <1>6, <1>7, <1>8 DEF Fresh

(* Without resets an operation that has begun to remove is exclusive.      *)
LEMMA AdminAlone ==
  ASSUME NoReset, AdminStages, admin.at \in {"leaving", "closing", "removing", "removed"}
  PROVE  admin.op \in Exclusive /\ NobodyJoins
<1>1. admin.op # "none" BY DEF AdminStages, NoAdmin
<1>2. admin.op \notin {"reset", "revalidate"} BY Zenon, <1>1 DEF AdminStages, NoReset
<1>. QED BY Zenon, <1>1, <1>2 DEF AdminStages, Exclusive

(* Whoever ends the session of the current join is its failure, or the     *)
(* join giving up.                                                         *)
LEMMA EndsOwn ==
  ASSUME NoReset, RosterOK, Subjects, AdminStages, LeftFirst, Fresh, Next,
         NEW c \in Conns, Serves(c), ClosedBy(c)
  PROVE  Offer(c) \/ (MediaFails(c) /\ \E f \in failures' \ failures : f.conn = c /\ f.gen = sessions[c].gen
                                        /\ f.at = "waiting")
<1>0. sessions[c].on /\ In(c) /\ sessions[c].gen = byClient[c].gen /\ sessions[c].gen # 0
  BY DEF Serves, RosterOK, RosterType, In
<1>1. ASSUME NEW d \in Conns, CloseReplaced(d), reader[d].old = c PROVE FALSE
  BY Zenon, <1>0, <1>1 DEF CloseReplaced, LeftFirst
<1>2. CASE MediaLeave(c)
  <2>1. reader[c].at \in Joined BY Zenon, <1>2 DEF MediaLeave, Joined
  <2>. QED BY Zenon, <1>0, <2>1 DEF Fresh
<1>3. CASE ReaderCloses(c) BY Zenon, <1>0, <1>3 DEF ReaderCloses, LeftFirst
<1>4. ASSUME NEW f \in failures, FailureClose(f), f.conn = c PROVE FALSE
  BY Zenon, <1>0, <1>4 DEF FailureClose, LeftFirst
<1>5. CASE TeardownClose(c) BY Zenon, <1>5 DEF TeardownClose, Fresh
<1>6. CASE AdminClose /\ admin.conn = c
  <2>1. admin.op \in Exclusive BY Zenon, <1>6, AdminAlone DEF AdminClose
  <2>. QED BY Zenon, <1>0, <1>6, <2>1 DEF AdminClose, LeftFirst
<1>7. CASE AdminCloseRemoved(c)
  <2>1. admin.op \in Exclusive BY Zenon, <1>7, AdminAlone DEF AdminCloseRemoved
  <2>. QED BY Zenon, <1>0, <1>7, <2>1 DEF AdminCloseRemoved, LeftFirst
<1>8. CASE MediaFails(c)
  <2>. DEFINE f == [conn |-> c, gen |-> sessions[c].gen, at |-> "waiting"]
  <2>1. f \in failures' BY Zenon, <1>0, <1>8 DEF MediaFails, SessionFails
  <2>2. f.conn = c /\ f.gen = sessions[c].gen /\ f.at = "waiting" OBVIOUS
  <2>. HIDE DEF f
  <2>3. f \notin failures BY Zenon, <1>0, <2>2 DEF Fresh
  <2>. QED BY Zenon, <1>8, <2>1, <2>2, <2>3
<1>. QED BY Zenon, <1>1, <1>2, <1>3, <1>4, <1>5, <1>6, <1>7, <1>8 DEF ClosedBy

(* Without resets nobody takes a join out of the roster before it has its  *)
(* session, except the teardown of its connection.                         *)
LEMMA JoinedStays ==
  ASSUME NoReset, RosterOK, Subjects, FailureStillCurrent, ClosedOK, OneJoin, AdminStages, Fresh,
         NEW c \in Conns, In(c), reader[c].at \in Joined, RemovedBy(c)
  PROVE  done[c]
<1>0. InGate(c) /\ HasJoinLock(c) /\ reader[c].at \notin {"undoing", "idle", "validated"}
  BY Zenon DEF Joined, InGate, HasJoinLock
<1>1. ASSUME NEW d \in Conns, Enters(d), d # c, Owner(d) = Owner(c) PROVE FALSE
  <2>1. HasJoinLock(d) BY Zenon, <1>1 DEF Enters, EnterRoster, HasJoinLock, InGate
  <2>. QED BY Zenon, <1>0, <1>1, <2>1 DEF OneJoin
<1>2. ~UndoJoin(c) /\ ~LeaveVoice(c) BY Zenon, <1>0 DEF UndoJoin, LeaveVoice
<1>3. ASSUME NEW f \in failures, FailureLeave(f), f.conn = c PROVE FALSE
  BY Zenon, <1>3 DEF FailureLeave, FailureStillCurrent, Fresh
<1>4. CASE TeardownLeave(c) BY Zenon, <1>4 DEF TeardownLeave, ClosedOK
<1>5. CASE AdminLeave \/ AdminRemove
  <2>1. NobodyJoins BY Zenon, <1>5, AdminAlone DEF AdminLeave, AdminRemove
  <2>. QED BY Zenon, <1>0, <2>1 DEF NobodyJoins
<1>. QED BY Zenon, <1>1, <1>2, <1>3, <1>4, <1>5 DEF RemovedBy

(* A closed connection stays closed.                                       *)
LEMMA DoneStays ==
  ASSUME ClosedOK, Next, NEW c \in Conns, done[c]
  PROVE  done'[c]
<1>1. ASSUME NEW d \in Conns, Drop(d) \/ AdminUnregisters(d) PROVE done'[c]
  BY Zenon, <1>1 DEF ClosedOK, Drop, AdminUnregisters, CloseClient
<1>2. ASSUME NEW d \in Conns,
             \/ BeginJoin(d) \/ JoinStep(d) \/ LeaveVoice(d) \/ ReaderStops(d) \/ MediaFails(d)
             \/ TeardownStep(d)
      PROVE  UNCHANGED done
  BY Zenon, <1>2 DEF BeginJoin, JoinStep, LeaveVoice, ReaderStops, MediaFails, SessionFails,
     LockJoin, Validate, EnterRoster, CloseReplaced, QueueJoined, MediaLeave, MediaInstall,
     Offer, UndoJoin, ReaderCloses, TeardownStep, Detach, TeardownLeave, TeardownClose
<1>3. ASSUME NEW f \in failures, FailureStep(f) PROVE UNCHANGED done
  BY Zenon, <1>3 DEF FailureStep, FailureLock, FailureLeave, FailureClose
<1>4. ASSUME Commit \/ Ask \/ AdminEnter \/ Revalidate \/ AdminLeave \/ AdminClose
             \/ AdminRemove \/ AdminEnd
      PROVE  UNCHANGED done
  BY Zenon, <1>4 DEF Commit, Ask, AdminEnter, Revalidate, AdminLeave, AdminClose, AdminRemove, AdminEnd
<1>5. ASSUME NEW d \in Conns, AdminNext(d) \/ AdminCloseRemoved(d) PROVE UNCHANGED done
  BY Zenon, <1>5 DEF AdminNext, AdminCloseRemoved
<1>. QED BY Zenon, <1>1, <1>2, <1>3, <1>4, <1>5 DEF Next, AdminStep

(* What is about to close a session stays so until it has closed it.       *)
LEMMA ClosingStays ==
  ASSUME Subjects, ClosedOK, LeftFirst, sessions \in [Conns -> Sessions], Next,
         NEW c \in Conns, Closing(c), sessions'[c].on
  PROVE  Closing(c)'
<1>0. ASSUME CloseSession(c) PROVE FALSE BY Zenon, <1>0 DEF CloseSession, NoSession
<1>1. CASE done[c]
  <2>1. done'[c] BY Zenon, <1>1, DoneStays
  <2>. QED BY Zenon, <2>1 DEF Closing
<1>2. ASSUME NEW d \in Conns, reader[d].at = "replacing", reader[d].old = c PROVE Closing(c)'
  <2>1. CASE reader'[d] = reader[d] BY Zenon, <1>2, <2>1 DEF Closing
  <2>2. CASE CloseReplaced(d) BY Zenon, <1>0, <1>2, <2>2 DEF CloseReplaced
  <2>. QED BY Zenon, <1>2, <2>1, <2>2, StagesStep DEF Stages, Goes
<1>3. ASSUME NEW f \in failures, f.conn = c, f.at = "closing" PROVE Closing(c)'
  <2>1. CASE f \in failures' BY Zenon, <1>3, <2>1 DEF Closing
  <2>2. CASE FailureStep(f) BY Zenon, <1>0, <1>3, <2>2 DEF FailureStep, FailureLock, FailureLeave, FailureClose
  <2>. QED BY Zenon, <2>1, <2>2, CallbacksMove
<1>4. CASE (admin.at = "closing" /\ admin.conn = c) \/ (admin.at = "removed" /\ c \in admin.todo)
  <2>1. CASE UNCHANGED admin BY Zenon, <1>4, <2>1 DEF Closing
  <2>2. CASE Commit BY <1>4, <2>2, CommitBegins DEF NoAdmin
  <2>3. CASE AdminStep
    <3>0. DOMAIN admin = {"op", "at", "arg", "conn", "failed", "todo"} BY Zenon DEF Subjects
    <3>1. \/ AdminClose \/ (AdminEnd /\ admin.todo = {})
          \/ \E d \in Conns : AdminCloseRemoved(d)
      BY Zenon, <1>4, <2>3 DEF AdminStep, Ask, AdminEnter, Revalidate, AdminLeave, AdminClose,
         AdminRemove, AdminEnd, AdminNext, AdminUnregisters, AdminCloseRemoved
    <3>2. CASE AdminClose BY Zenon, <1>0, <1>4, <3>2 DEF AdminClose
    <3>3. CASE AdminEnd /\ admin.todo = {} BY Zenon, <1>4, <3>3 DEF AdminEnd
    <3>4. ASSUME NEW d \in Conns, AdminCloseRemoved(d) PROVE Closing(c)'
      <4>1. d # c BY Zenon, <1>0, <3>4 DEF AdminCloseRemoved
      <4>2. admin'.at = "removed" /\ admin'.todo = admin.todo \ {d} /\ admin.at = "removed"
        BY SMTT(30), <3>0, <3>4 DEF AdminCloseRemoved
      <4>. QED BY Zenon, <1>4, <4>1, <4>2 DEF Closing
    <3>. QED BY Zenon, <3>1, <3>2, <3>3, <3>4
  <2>. QED BY Zenon, <2>1, <2>2, <2>3, AdminMoves
<1>. QED BY Zenon, <1>1, <1>2, <1>3, <1>4 DEF Closing

(* The stages in which a reader leaves its session alone.                  *)
Resting == {"idle", "checked", "locked", "validated", "offering"}

(* The operations that happen in a behaviour are chosen at its start.      *)
LEMMA LoadFixed == ASSUME Next PROVE UNCHANGED load
BY ZenonT(40) DEF Next, BeginJoin, JoinStep, LeaveVoice, ReaderStops, LockJoin, Validate, EnterRoster,
     CloseReplaced, QueueJoined, MediaLeave, MediaInstall, Offer, UndoJoin, ReaderCloses,
     MediaFails, SessionFails, Drop, TeardownStep, Detach, TeardownLeave, TeardownClose,
     FailureStep, FailureLock, FailureLeave, FailureClose, Commit, AdminStep, Ask, AdminEnter,
     Revalidate, AdminLeave, AdminClose, AdminRemove, AdminEnd, AdminNext, AdminUnregisters,
     AdminCloseRemoved

(* A join that has entered the roster goes on.                             *)
LEMMA EntererMoves ==
  ASSUME Subjects, NEW c \in Conns, EnterRoster(c)
  PROVE  reader[c].at = "validated" /\ reader'[c].at \in {"announced", "replacing"}
<1>1. reader'[c] = IF Refreshes(c, reader[c].ch, reader[c].e2ee) \/ Replaced(c) = {}
                   THEN [reader[c] EXCEPT !.at = "announced"]
                   ELSE [reader[c] EXCEPT !.at = "replacing", !.old = CHOOSE p \in Replaced(c) : TRUE]
  BY Zenon DEF EnterRoster, Subjects
<1>2. reader[c] \in Readers BY Zenon DEF Subjects
<1>3. CASE reader'[c] = [reader[c] EXCEPT !.at = "announced"] BY <1>2, <1>3 DEF Readers, EnterRoster
<1>4. ASSUME NEW p, reader'[c] = [reader[c] EXCEPT !.at = "replacing", !.old = p]
      PROVE  reader'[c].at \in {"announced", "replacing"}
  BY Zenon, <1>2, <1>4 DEF Readers
<1>. QED BY Zenon, <1>1, <1>3, <1>4 DEF EnterRoster

(* A join under way on an open connection stays in the roster.             *)
LEMMA JoinKept ==
  ASSUME NoReset, RosterOK, Subjects, FailureStillCurrent, ClosedOK, OneJoin, AdminStages, Fresh,
         Accounted, Next, NEW c \in Conns, reader'[c].at \in Joined, ~done'[c]
  PROVE  In(c)'
<1>0. ~done[c] BY Zenon, DoneStays
<1>1. ASSUME Enters(c) PROVE In(c)'
  BY <1>1 DEF Enters, In, RosterOK, RosterType
<1>2. CASE reader[c].at \in Joined
  <2>1. In(c) BY Zenon, <1>0, <1>2 DEF Accounted
  <2>2. ~RemovedBy(c) BY Zenon, <1>0, <1>2, <2>1, JoinedStays
  <2>3. CASE byClient'[c] = byClient[c] BY Zenon, <2>1, <2>3 DEF In
  <2>. QED BY Zenon, <1>1, <2>2, <2>3, RemovalsStep
<1>3. CASE reader[c].at \notin Joined
  <2>1. EnterRoster(c) BY Zenon, <1>3, StagesStep DEF Stages, Goes, Joined
  <2>. QED BY Zenon, <1>1, <2>1, EntersOne
<1>. QED BY Zenon, <1>2, <1>3

(* Whoever takes a participant with a session out of the roster goes on to *)
(* close the session.                                                      *)
LEMMA RemoverCloses ==
  ASSUME RosterOK, Subjects, ClosedOK, Next, NEW c \in Conns, In(c), RemovedBy(c),
         byClient'[c].gen = 0, ~UndoJoin(c), ~LeaveVoice(c)
  PROVE  Closing(c)'
<1>0. DOMAIN admin = {"op", "at", "arg", "conn", "failed", "todo"} BY Zenon DEF Subjects
<1>1. ASSUME NEW d \in Conns, Enters(d), d # c, Owner(d) = Owner(c), byUser[Owner(d)] = c
      PROVE  Closing(c)'
  <2>1. Replaced(d) = {c} BY Zenon, <1>1 DEF Replaced
  <2>2. ~In(d) BY Zenon, <1>1 DEF RosterOK, RosterExact
  <2>3. EnterRoster(d) /\ reader[d].at = "validated" BY Zenon, <1>1 DEF Enters, EnterRoster
  <2>4. Goes(d, "validated", "replacing") /\ reader'[d].old \in Replaced(d)
    <3>1. reader'[d] = reader[d] \/ Stages(d) BY Zenon, StagesStep
    <3>2. reader'[d].at # reader[d].at BY Zenon, <2>3, EntererMoves
    <3>. QED BY Zenon, <2>1, <2>2, <2>3, <3>1, <3>2 DEF Stages, Goes, Refreshes
  <2>. QED BY Zenon, <2>1, <2>4 DEF Closing, Goes
<1>2. ASSUME NEW f \in failures, FailureLeave(f), f.conn = c, c \in registered PROVE Closing(c)'
  <2>1. Move(f, "closing") BY Zenon, <1>2 DEF FailureLeave
  <2>2. f = [conn |-> f.conn, gen |-> f.gen, at |-> f.at] BY Zenon DEF Subjects
  <2>3. [f EXCEPT !.at = "closing"] = [conn |-> c, gen |-> f.gen, at |-> "closing"] BY <1>2, <2>2
  <2>4. [conn |-> c, gen |-> f.gen, at |-> "closing"] \in failures' BY Zenon, <2>1, <2>3 DEF Move
  <2>. QED BY Zenon, <2>4 DEF Closing
<1>3. CASE TeardownLeave(c)
  <2>1. done[c] BY Zenon, <1>3 DEF TeardownLeave, ClosedOK
  <2>. QED BY Zenon, <2>1, DoneStays DEF Closing
<1>4. CASE AdminLeave /\ admin.conn = c
  <2>1. admin' = [admin EXCEPT !.at = "closing"] BY Zenon, <1>4 DEF AdminLeave
  <2>2. admin'.at = "closing" /\ admin'.conn = c BY Zenon, <1>0, <1>4, <2>1
  <2>. QED BY Zenon, <2>2 DEF Closing
<1>5. CASE AdminRemove
  <2>1. ASSUME NEW t, admin' = [admin EXCEPT !.at = "removed", !.todo = t], c \in t PROVE Closing(c)'
    <3>1. admin'.at = "removed" /\ admin'.todo = t BY Zenon, <1>0, <2>1
    <3>. QED BY Zenon, <2>1, <3>1 DEF Closing
  <2>2. CASE removeChannel(admin.arg) /\ admin' = [admin EXCEPT !.at = "removed", !.todo = byChannel[admin.arg]]
    <3>1. c \in byChannel[admin.arg] BY <2>2 DEF removeChannel, RemoveAll, In
    <3>. QED BY Zenon, <2>1, <2>2, <3>1
  <2>3. CASE admin' = [admin EXCEPT !.at = "removed", !.todo = {d \in Conns : In(d)}]
    BY Zenon, <2>1, <2>3
  <2>. QED BY Zenon, <1>5, <2>2, <2>3 DEF AdminRemove
<1>. QED BY Zenon, <1>1, <1>2, <1>3, <1>4, <1>5 DEF RemovedBy

(* The session that a join installs serves it, unless its connection has   *)
(* closed meanwhile.                                                       *)
LEMMA InstalledServes ==
  ASSUME NoReset, RosterOK, ClosedOK, GenerationsOK, Accounted, Next,
         NEW c \in Conns, MediaInstall(c), Installs(c)
  PROVE  Serves(c)' \/ done'[c]
<1>1. CASE done[c] BY Zenon, <1>1, DoneStays
<1>2. CASE ~done[c]
  <2>1. reader[c].at = "reserving" /\ UNCHANGED byClient /\ sessions'[c].on
        /\ sessions'[c].gen = IF c \in registered THEN byClient[c].gen ELSE 0
    BY Zenon, InstallsCaptured
  <2>2. In(c) /\ c \in registered BY Zenon, <1>2, <2>1 DEF Accounted, Joined, ClosedOK
  <2>. QED BY Zenon, <2>1, <2>2 DEF Serves, In
<1>. QED BY Zenon, <1>1, <1>2

(* The session of a connection whose reader is not changing it serves the  *)
(* current join, or somebody is about to close it.                         *)
LEMMA SessionKept ==
  ASSUME NoReset, RosterOK, Subjects, ClosedOK, GenerationsOK, LeftFirst, Fresh, Accounted,
         Next, NEW c \in Conns, sessions'[c].on, reader'[c].at \in Resting
  PROVE  Serves(c)' \/ Closing(c)'
<1>0. sessions \in [Conns -> Sessions] BY Zenon DEF GenerationsOK
<1>1. reader'[c] = reader[c] \/ Stages(c) BY Zenon, StagesStep
<1>2. CASE MediaInstall(c) /\ Installs(c) BY Zenon, <1>2, InstalledServes DEF Closing
<1>3. CASE Kept(c)
  <2>1. sessions[c].on BY Zenon, <1>3 DEF Kept
  <2>2. reader[c].at \in Resting
    <3>1. ~ReaderCloses(c) BY SMTT(30) DEF ReaderCloses, CloseSession, NoSession, GenerationsOK
    <3>2. reader[c].at \notin {"reserving", "undoing"} BY Zenon, <2>1 DEF Fresh
    <3>. QED BY Zenon, <1>1, <3>1, <3>2 DEF Stages, Goes, Resting
  <2>3. CASE Closing(c) BY Zenon, <1>0, <2>3, ClosingStays
  <2>4. CASE Serves(c)
    <3>1. CASE byClient'[c] = byClient[c] BY Zenon, <1>3, <2>4, <3>1 DEF Serves, In, Kept
    <3>2. ~Enters(c) BY Zenon, EntererMoves DEF Enters, Resting
    <3>3. CASE byClient'[c].gen = 0 /\ RemovedBy(c)
      <4>1. ~UndoJoin(c) BY Zenon, <2>2 DEF UndoJoin, Resting
      <4>2. ~LeaveVoice(c)
        <5>1. LeaveVoice(c) => reader'[c].at = "leaving" BY DEF LeaveVoice, Reader, Subjects, Readers
        <5>. QED BY Zenon, <5>1 DEF Resting
      <4>3. In(c) BY Zenon, <2>4 DEF Serves
      <4>. QED BY Zenon, <3>3, <4>1, <4>2, <4>3, RemoverCloses
    <3>. QED BY Zenon, <3>1, <3>2, <3>3, RemovalsStep
  <2>. QED BY Zenon, <2>1, <2>2, <2>3, <2>4 DEF Accounted, Resting
<1>. QED BY SMTT(30), <1>0, <1>2, <1>3, SessionsStep DEF NoSession

(* A participant whose join is over has a session that serves it, or a     *)
(* callback that will take it out.                                         *)
LEMMA ParticipantKept ==
  ASSUME NoReset, RosterOK, Subjects, ClosedOK, GenerationsOK, AdminStages, LeftFirst, Fresh, Accounted,
         Next, NEW c \in Conns, In(c)', reader'[c].at \notin Joined \cup {"undoing", "stopped"}
  PROVE  Serves(c)' \/ Failing(c)'
<1>0. sessions \in [Conns -> Sessions] BY Zenon DEF GenerationsOK
<1>1. reader'[c] = reader[c] \/ Stages(c) BY Zenon, StagesStep
<1>2. byClient'[c] = byClient[c]
  <2>1. ~Enters(c) BY Zenon, EntererMoves DEF Enters, Joined
  <2>. QED BY <2>1, RemovalsStep DEF In
<1>3. In(c) BY Zenon, <1>2 DEF In
<1>4. CASE reader[c].at \in Joined
  <2>1. MediaInstall(c) /\ Installs(c) BY Zenon, <1>1, <1>4 DEF Stages, Goes, Joined
  <2>. QED BY Zenon, <2>1, InstalledServes DEF Failing
<1>5. reader[c].at \notin {"undoing", "stopped"}
  <2>1. CASE UndoJoin(c) /\ In(c)
    <3>1. leave(c) BY Zenon, <2>1 DEF UndoJoin
    <3>. QED BY <1>2, <1>3, <3>1 DEF leave, removeLocked, NoParticipant, In, RosterOK, RosterType
  <2>. QED BY Zenon, <1>1, <1>3, <2>1 DEF Stages, Goes
<1>6. CASE Serves(c) /\ reader[c].at \notin Joined
  <2>1. CASE Kept(c) BY Zenon, <1>2, <1>6, <2>1 DEF Serves, Kept, In
  <2>2. ~MediaInstall(c) BY Zenon, <1>6 DEF MediaInstall, Joined
  <2>3. CASE sessions'[c] = NoSession /\ ClosedBy(c)
    <3>1. ~Offer(c)
      <4>1. SUFFICES ASSUME Offer(c) PROVE FALSE OBVIOUS
      <4>2. CASE CloseSession(c) /\ Reader(c, "undoing")
        BY <4>2 DEF Reader, Subjects, Readers
      <4>3. CASE sessions' = [sessions EXCEPT ![c].lost = OfferLost(c)]
        <5>1. sessions'[c] = [sessions[c] EXCEPT !.lost = OfferLost(c)] BY Zenon, <1>0, <4>3
        <5>2. sessions'[c].on = sessions[c].on BY <1>0, <5>1 DEF Sessions
        <5>. QED BY <1>6, <2>3, <5>2 DEF Serves, NoSession
      <4>. QED BY Zenon, <4>1, <4>2, <4>3 DEF Offer
    <3>2. PICK f \in failures' : f.conn = c /\ f.gen = sessions[c].gen /\ f.at = "waiting"
      BY Zenon, <1>6, <2>3, <3>1, EndsOwn
    <3>. QED BY Zenon, <1>2, <1>6, <3>2 DEF Serves, Failing
  <2>. QED BY Zenon, <1>0, <2>1, <2>2, <2>3, SessionsStep
<1>7. ASSUME NEW f \in failures, f.conn = c, f.gen = byClient[c].gen, f.at \in {"waiting", "leaving"}
      PROVE  Failing(c)'
  <2>1. CASE f \in failures' BY Zenon, <1>2, <1>7, <2>1 DEF Failing
  <2>2. CASE FailureLock(f)
    <3>1. Move(f, "leaving") BY Zenon, <1>3, <1>7, <2>2 DEF FailureLock, FailureCurrent
    <3>2. f = [conn |-> f.conn, gen |-> f.gen, at |-> f.at] BY Zenon DEF Subjects
    <3>3. [f EXCEPT !.at = "leaving"] = [conn |-> c, gen |-> f.gen, at |-> "leaving"] BY <1>7, <3>2
    <3>4. [conn |-> c, gen |-> f.gen, at |-> "leaving"] \in failures' BY Zenon, <3>1, <3>3 DEF Move
    <3>. QED BY Zenon, <1>2, <1>7, <3>4 DEF Failing
  <2>3. CASE FailureLeave(f)
    <3>1. CASE c \in registered
      <4>1. leave(c) BY Zenon, <1>3, <1>7, <2>3, <3>1 DEF FailureLeave
      <4>2. removeLocked(c) BY Zenon, <1>3, <4>1 DEF leave
      <4>3. byClient'[c].gen = 0
        BY Zenon, <4>2 DEF removeLocked, NoParticipant, RosterOK, RosterType
      <4>. QED BY <1>2, <4>3 DEF In
    <3>2. CASE c \notin registered
      <4>1. done[c] BY Zenon, <3>2 DEF ClosedOK
      <4>. QED BY Zenon, <4>1, DoneStays DEF Failing
    <3>. QED BY Zenon, <3>1, <3>2
  <2>4. ~FailureClose(f) BY Zenon, <1>7 DEF FailureClose
  <2>. QED BY Zenon, <2>1, <2>2, <2>3, <2>4, CallbacksMove DEF FailureStep
<1>8. CASE Failing(c)
  <2>1. CASE done[c] BY Zenon, <2>1, DoneStays DEF Failing
  <2>. QED BY Zenon, <1>7, <1>8, <2>1 DEF Failing
<1>. QED BY Zenon, <1>3, <1>4, <1>5, <1>6, <1>8 DEF Accounted

(* Sessions and participants stay accounted for.                           *)
LEMMA AccountedStep ==
  ASSUME RosterOK, Subjects, FailureStillCurrent, ClosedOK, GenerationsOK, OneJoin, AdminStages,
         LeftFirst, Fresh, Accounted, Next
  PROVE  Accounted'
<1>1. SUFFICES ASSUME NoReset', NEW c \in Conns
               PROVE  /\ reader'[c].at \in Joined /\ ~done'[c] => In(c)'
                      /\ sessions'[c].on /\ reader'[c].at \in Resting => Serves(c)' \/ Closing(c)'
                      /\ In(c)' /\ reader'[c].at \notin Joined \cup {"undoing", "stopped"}
                         => Serves(c)' \/ Failing(c)'
  BY Zenon DEF Accounted, Resting
<1>2. NoReset BY Zenon, <1>1, LoadFixed DEF NoReset
<1>. QED BY Zenon, <1>2, JoinKept, SessionKept, ParticipantKept

(* Every step keeps the invariant of the media.                            *)
LEMMA MediaStep ==
  ASSUME VoiceInv, MediaInv, Next
  PROVE  MediaInv'
<1>1. RosterOK BY Zenon DEF RosterOK, VoiceInv
<1>2. Subjects /\ LockExcludes /\ FailureStillCurrent BY Zenon DEF VoiceInv
<1>3. ClosedOK /\ GenerationsOK /\ OneJoin /\ AdminStages /\ LeftFirst /\ Fresh /\ Accounted
  BY Zenon DEF MediaInv
<1>4. ClosedOK' /\ GenerationsOK' /\ OneJoin' BY Zenon, <1>1, <1>2, <1>3, ClosedStep, GenerationsStep, OneJoinStep
<1>5. AdminStages' /\ LeftFirst' BY Zenon, <1>1, <1>2, <1>3, AdminStagesStep, LeftFirstStep
<1>6. Fresh' /\ Accounted' BY Zenon, <1>1, <1>2, <1>3, FreshStep, AccountedStep
<1>. QED BY Zenon, <1>4, <1>5, <1>6 DEF MediaInv

(* At the start nobody takes part and there is no session.                 *)
LEMMA MediaInit == ASSUME Init PROVE MediaInv
<1>0. /\ load.conns \subseteq Conns
      /\ \A c \in Conns : byClient[c] = NoParticipant /\ sessions[c] = NoSession /\ ~In(c)
      /\ \A c \in Conns : reader[c] = IF c \in load.conns THEN Idle ELSE Stopped
  <2>1. /\ load \in Loads /\ byClient = [c \in Conns |-> NoParticipant]
        /\ sessions = [c \in Conns |-> NoSession]
        /\ reader = [c \in Conns |-> IF c \in load.conns THEN Idle ELSE Stopped]
    BY Zenon DEF Init
  <2>2. load.conns \subseteq Conns BY Zenon, VoiceAssumption, <2>1
  <2>. QED BY <2>1, <2>2 DEF In, NoParticipant
<1>1. \A c \in Conns : reader[c].at \in {"idle", "stopped"} /\ reader[c].old = "none"
  BY <1>0 DEF Idle, Stopped
<1>2. ClosedOK BY Zenon, <1>0 DEF Init, ClosedOK
<1>3. GenerationsOK
  <2>1. nextGeneration = 0 /\ failures = {} /\ sessions = [c \in Conns |-> NoSession]
    BY Zenon DEF Init
  <2>2. NoSession \in Sessions BY Zenon DEF NoSession, Sessions
  <2>3. NoSession.gen = 0 /\ NoParticipant.gen = 0 BY Zenon DEF NoSession, NoParticipant
  <2>4. sessions \in [Conns -> Sessions] BY Zenon, <2>1, <2>2
  <2>. QED BY <1>0, <2>1, <2>3, <2>4 DEF GenerationsOK
<1>4. OneJoin BY Zenon, <1>1 DEF OneJoin, HasJoinLock, InGate
<1>5. AdminStages BY Zenon DEF Init, AdminStages, NoAdmin, Exclusive
<1>6. LeftFirst BY Zenon, <1>0, <1>1 DEF Init, LeftFirst, NoAdmin, Exclusive
<1>7. Fresh BY Zenon, <1>0, <1>1 DEF Init, Fresh, Joined, Serves, NoSession
<1>8. Accounted
  <2>1. \A c \in Conns : ~sessions[c].on BY <1>0 DEF NoSession
  <2>2. \A c \in Conns : reader[c].at \notin Joined BY Zenon, <1>1 DEF Joined
  <2>. QED BY Zenon, <1>0, <2>1, <2>2 DEF Accounted
<1>. QED BY Zenon, <1>2, <1>3, <1>4, <1>5, <1>6, <1>7, <1>8 DEF MediaInv

(* A connection with nothing under way has a session exactly when it takes *)
(* part, and it is the session of that join.                               *)
LEMMA MediaRests ==
  ASSUME Subjects, Fresh, Accounted
  PROVE  \A c \in Conns : MediaFollowsRoster(c)
<1>1. SUFFICES ASSUME NoReset, NEW c \in Conns, Settled(c)
               PROVE  /\ In(c) <=> sessions[c].on
                      /\ In(c) => sessions[c].gen = byClient[c].gen /\ sessions[c].ch = byClient[c].ch
  BY Zenon DEF MediaFollowsRoster
<1>2. reader[c].at = "idle" /\ ~done[c] BY <1>1 DEF Settled, Idle
<1>3. ~Failing(c) BY Zenon, <1>1 DEF Settled, Failing
<1>4. admin.at \in {"closing"} => admin.conn # c BY Zenon, <1>1 DEF Settled
<1>5. ~Closing(c) BY Zenon, <1>1 DEF Settled, Closing
<1>6. In(c) => Serves(c) BY Zenon, <1>1, <1>2, <1>3 DEF Accounted, Joined
<1>7. sessions[c].on => Serves(c) BY Zenon, <1>1, <1>2, <1>5 DEF Accounted
<1>. QED BY Zenon, <1>6, <1>7 DEF Fresh, Serves

(* The session of the current join ends with a failure that is reported,   *)
(* or by the join that could not send its offer.                           *)
LEMMA MediaOwn ==
  ASSUME VoiceInv, MediaInv, Next, NoReset
  PROVE  EndsOwnSession
<1>1. SUFFICES ASSUME NEW c \in Conns, sessions[c].on, ~sessions'[c].on, In(c), byClient[c].gen = sessions[c].gen
               PROVE  \/ reader[c].at = "offering"
                      \/ \E f \in failures' \ failures : f.conn = c /\ f.gen = sessions[c].gen
  BY Zenon DEF EndsOwnSession
<1>2. RosterOK /\ Subjects /\ sessions \in [Conns -> Sessions]
  BY Zenon DEF RosterOK, VoiceInv, MediaInv, GenerationsOK
<1>3. ClosedBy(c)
  <2>1. ~Kept(c) BY Zenon, <1>1 DEF Kept
  <2>2. ~(MediaInstall(c) /\ Installs(c)) BY Zenon, <1>1, InstallsCaptured, <1>2 DEF MediaInv
  <2>. QED BY Zenon, <1>2, <2>1, <2>2, SessionsStep
<1>4. Serves(c) BY Zenon, <1>1 DEF Serves
<1>. QED BY Zenon, <1>2, <1>3, <1>4, EndsOwn DEF MediaInv, Offer

(* The invariant is about the variables only.                              *)
LEMMA MediaStutter == ASSUME MediaInv, UNCHANGED vars PROVE MediaInv'
<1>. USE DEF vars
<1>1. ClosedOK' /\ GenerationsOK' /\ OneJoin'
  BY Zenon DEF MediaInv, ClosedOK, GenerationsOK, OneJoin, HasJoinLock, InGate
<1>2. AdminStages' /\ LeftFirst'
  BY Zenon DEF MediaInv, AdminStages, LeftFirst, NobodyJoins, InGate, In
<1>3. Fresh' BY Zenon DEF MediaInv, Fresh, Serves, In
<1>4. Accounted' BY ZenonT(40) DEF MediaInv, Accounted, NoReset, Serves, Closing, Failing, In
<1>. QED BY Zenon, <1>1, <1>2, <1>3, <1>4 DEF MediaInv

(* For any connections, channels and operations in any order: once nothing *)
(* is under way for a connection it has a media session exactly when it is *)
(* in the roster, of the same join and channel, and no leave, replacement, *)
(* callback or revocation ends the session of a join it is not about       *)
(* (JoinVoiceWithDevice, LeaveVoice, Unregister, the failure callback of   *)
(* the media and the hub's revocations).                                   *)
THEOREM MediaIsOfTheJoin == Spec => MediaMatchesRoster
<1>. DEFINE Inv == VoiceInv /\ MediaInv
<1>1. Init => Inv BY Zenon, InitVoiceInv, MediaInit
<1>2. Inv /\ [Next]_vars => Inv'
  BY Zenon, NextVoiceInv, MediaStep, MediaStutter
<1>3. Inv => \A c \in Conns : MediaFollowsRoster(c) BY Zenon, MediaRests DEF VoiceInv, MediaInv
<1>4. Inv /\ [Next]_vars => [NoReset => EndsOwnSession]_vars BY Zenon, MediaOwn
<1>. QED BY <1>1, <1>2, <1>3, <1>4, PTL DEF Spec, MediaMatchesRoster, SessionServesJoin

-----------------------------------------------------------------------------
(* Revocations. *)

(* The operation under way is one that may shut u out of channel ch.       *)
Concerns(u, ch) ==
  /\ admin.op \in Exclusive
  /\ admin.op \in {"refresh", "revoke"} => admin.arg = u
  /\ admin.op = "removeChannel" => admin.arg = ch

(* What the variables of the access checks hold.                           *)
AccessType == inServer \in [Conns -> BOOLEAN] /\ access \in [Conns -> SUBSET Channels]

(* A join that is past its access check is allowed, or the operation that  *)
(* shuts it out has not got channelAccessMu yet.                           *)
JoinsAllowed ==
  \A c \in Conns : reader[c].at \in {"locked", "validated"} /\ reader[c].ch \notin policy[Owner(c)] =>
    Concerns(Owner(c), reader[c].ch) /\ admin.at \in {"committed", "wanting"}

(* The operation under way has yet to come to c.                           *)
Pending(c) ==
  \/ admin.at \in {"committed", "wanting", "removing"}
  \/ admin.at \in {"next", "leaving", "closing"} /\ (c \in admin.todo \/ admin.op = "revokeServer")

(* A participant is allowed in its channel, or the operation that shuts it *)
(* out has yet to come to it.                                              *)
VoiceAllowed ==
  \A c \in Conns : In(c) /\ ~done[c] /\ byClient[c].ch \notin policy[Owner(c)] =>
    Concerns(Owner(c), byClient[c].ch) /\ Pending(c)

(* RefreshChannelAccess goes through the connections with the policy it    *)
(* has loaded for them.                                                    *)
Reloaded ==
  admin.op = "refresh" /\ admin.at \in {"next", "leaving", "closing"} /\ ~admin.failed =>
    \A c \in Conns \cap admin.todo : access[c] \subseteq policy[Owner(c)]

(* Only the server being revoked has participants that are not in it.      *)
ServerFirst ==
  /\ \A c \in Conns : reader[c].at = "validated" => inServer[c]
  /\ \A c \in Conns : In(c) /\ ~inServer[c] => admin.op = "revokeServer" /\ admin.at = "removing"
  /\ admin.op = "removeChannel" => admin.at \in {"committed", "wanting", "removing", "removed"}

(* The invariant of the access revocations.                                *)
AccessInv == AccessType /\ JoinsAllowed /\ VoiceAllowed /\ Reloaded /\ ServerFirst

(* The invariant of the device revocations: an encrypted participant, or   *)
(* one about to be, has an active device, or RevalidateVoiceE2EE is on its *)
(* way to it.                                                              *)
DeviceInv ==
  /\ \A c \in Conns : In(c) /\ byClient[c].e2ee /\ Owner(c) \notin active =>
       /\ admin.op = "revalidate" /\ admin.arg = Owner(c)
       /\ admin.at \in {"committed", "wanting"} \/ (admin.at = "leaving" /\ admin.conn = c)
  /\ \A c \in Conns : reader[c].at = "validated" /\ reader[c].e2ee /\ Owner(c) \notin active =>
       admin.op = "revalidate" /\ admin.arg = Owner(c) /\ admin.at \in {"committed", "wanting"}

(* The operation under way goes from stage to stage.                       *)
SameOp == admin'.op = admin.op /\ admin'.arg = admin.arg
Turns(from, to) == admin.at = from /\ admin'.at = to
Shrinks(c) == admin'.todo = admin.todo \ {c} /\ admin'.failed = admin.failed
SameTodo == admin'.todo = admin.todo /\ admin'.failed = admin.failed

(* The steps of an administrative operation, from stage to stage.          *)
AdminTurns ==
  \/ Ask /\ SameOp /\ Turns("committed", "wanting")
  \/ /\ AdminEnter /\ SameOp /\ Turns("wanting", "next") /\ admin.op \in {"refresh", "revoke"}
     /\ NobodyJoins /\ admin'.todo = Visits /\ UNCHANGED inServer
  \/ /\ AdminEnter /\ SameOp /\ admin.op = "revokeServer" /\ NobodyJoins
     /\ (Turns("wanting", "next") /\ inServer' = inServer) \/ Turns("wanting", "removing")
  \/ /\ AdminEnter /\ SameOp /\ Turns("wanting", "removing") /\ admin.op = "removeChannel"
     /\ NobodyJoins /\ UNCHANGED inServer
  \/ AdminEnter /\ SameOp /\ Turns("wanting", "next") /\ admin.op = "reset" /\ UNCHANGED inServer
  \/ /\ Revalidate /\ admin.at = "wanting" /\ admin.op = "revalidate"
     /\ admin' = NoAdmin \/ (SameOp /\ admin'.at = "leaving")
  \/ /\ AdminLeave /\ SameOp /\ In(admin.conn) /\ Turns("leaving", "closing") /\ SameTodo
  \/ /\ AdminLeave /\ SameOp /\ ~In(admin.conn) /\ Turns("leaving", "next") /\ Shrinks(admin.conn)
  \/ /\ AdminClose /\ SameOp /\ Turns("closing", "next") /\ Shrinks(admin.conn)
  \/ \E c \in Conns :
       /\ AdminNext(c) /\ SameOp /\ ~admin.failed
       /\ \/ Turns("next", "leaving") /\ SameTodo
          \/ Turns("next", "next") /\ Shrinks(c) /\ ~Removes(c)
  \/ \E c \in Conns :
       /\ AdminUnregisters(c) /\ SameOp /\ Turns("next", "next") /\ admin.failed
       /\ SameTodo \/ (Shrinks(c) /\ teardown[c] = "gone")
  \/ AdminRemove /\ SameOp /\ Turns("removing", "removed")
  \/ \E c \in Conns : AdminCloseRemoved(c) /\ SameOp /\ Turns("removed", "removed")
  \/ /\ AdminEnd /\ admin.at \in {"next", "removed"} /\ admin.todo = {} /\ admin' = NoAdmin
     /\ ~(admin.at = "next" /\ admin.op = "revokeServer")
  \/ AdminEnd /\ SameOp /\ Turns("next", "removing") /\ admin.op = "revokeServer"

(* No other step moves an operation.                                       *)
LEMMA AdminTurnsStep ==
  ASSUME Subjects, AccessType, AdminStep
  PROVE  AdminTurns
<1>0. DOMAIN admin = {"op", "at", "arg", "conn", "failed", "todo"} BY Zenon DEF Subjects
<1>1. CASE Ask
  <2>1. admin' = [admin EXCEPT !.at = "wanting"] /\ admin.at = "committed" BY Zenon, <1>1 DEF Ask
  <2>2. SameOp /\ Turns("committed", "wanting") BY Zenon, <1>0, <2>1 DEF SameOp, Turns
  <2>. QED BY Zenon, <1>1, <2>2 DEF AdminTurns
<1>2. CASE AdminEnter
  <2>0. admin.at = "wanting" BY Zenon, <1>2 DEF AdminEnter
  <2>1. CASE admin.op \in {"refresh", "revoke"}
    <3>1. PICK failed : admin' = [admin EXCEPT !.at = "next", !.todo = Visits, !.failed = failed]
      BY Zenon, <1>2, <2>1 DEF AdminEnter
    <3>2. NobodyJoins /\ UNCHANGED inServer BY Zenon, <1>2, <2>1 DEF AdminEnter
    <3>3. SameOp /\ Turns("wanting", "next") /\ admin'.todo = Visits
      BY Zenon, <1>0, <2>0, <3>1 DEF SameOp, Turns
    <3>. QED BY Zenon, <1>2, <2>1, <3>2, <3>3 DEF AdminTurns
  <2>2. CASE admin.op = "revokeServer"
    <3>1. PICK failed \in {FALSE} \cup {"dberror" \in load.ops} :
            /\ inServer' = [c \in Conns |-> inServer[c] /\ (failed \/ c \notin Visits)]
            /\ admin' = [admin EXCEPT !.at = IF failed THEN "next" ELSE "removing",
                                      !.todo = IF failed THEN Visits ELSE {}, !.failed = failed]
      BY Zenon, <1>2, <2>2 DEF AdminEnter
    <3>2. NobodyJoins BY Zenon, <1>2, <2>2 DEF AdminEnter
    <3>3. PICK s, t : /\ s = IF failed THEN "next" ELSE "removing"
                      /\ t = IF failed THEN Visits ELSE {}
      BY Zenon
    <3>4. admin' = [admin EXCEPT !.at = s, !.todo = t, !.failed = failed] BY Zenon, <3>1, <3>3
    <3>5. SameOp /\ admin'.at = s BY Zenon, <1>0, <3>4 DEF SameOp
    <3>6. CASE failed
      <4>1. inServer' = inServer BY Zenon, <3>1, <3>6 DEF AccessType
      <4>2. Turns("wanting", "next") BY Zenon, <2>0, <3>3, <3>5, <3>6 DEF Turns
      <4>. QED BY Zenon, <1>2, <2>2, <3>2, <3>5, <4>1, <4>2 DEF AdminTurns
    <3>7. CASE ~failed
      <4>1. Turns("wanting", "removing") BY Zenon, <2>0, <3>3, <3>5, <3>7 DEF Turns
      <4>. QED BY Zenon, <1>2, <2>2, <3>2, <3>5, <4>1 DEF AdminTurns
    <3>. QED BY Zenon, <3>6, <3>7
  <2>3. CASE admin.op = "removeChannel"
    <3>1. /\ NobodyJoins /\ UNCHANGED inServer /\ admin' = [admin EXCEPT !.at = "removing"]
      BY Zenon, <1>2, <2>3 DEF AdminEnter
    <3>2. SameOp /\ Turns("wanting", "removing") BY Zenon, <1>0, <2>0, <3>1 DEF SameOp, Turns
    <3>. QED BY Zenon, <1>2, <2>3, <3>1, <3>2 DEF AdminTurns
  <2>4. CASE admin.op = "reset"
    <3>1. UNCHANGED inServer /\ admin' = [admin EXCEPT !.at = "next", !.todo = Visits]
      BY Zenon, <1>2, <2>4 DEF AdminEnter
    <3>2. SameOp /\ Turns("wanting", "next") BY Zenon, <1>0, <2>0, <3>1 DEF SameOp, Turns
    <3>. QED BY Zenon, <1>2, <2>4, <3>1, <3>2 DEF AdminTurns
  <2>. QED BY Zenon, <1>2, <2>1, <2>2, <2>3, <2>4 DEF AdminEnter
<1>3. CASE Revalidate
  <2>1. ASSUME NEW c, NEW t, admin' = [admin EXCEPT !.at = "leaving", !.conn = c, !.todo = t]
        PROVE  SameOp /\ admin'.at = "leaving"
    BY Zenon, <1>0, <2>1 DEF SameOp
  <2>2. admin' = NoAdmin \/ (SameOp /\ admin'.at = "leaving") BY Zenon, <1>3, <2>1 DEF Revalidate
  <2>3. admin.at = "wanting" /\ admin.op = "revalidate" BY Zenon, <1>3 DEF Revalidate
  <2>. QED BY Zenon, <1>3, <2>2, <2>3 DEF AdminTurns
<1>4. ASSUME NEW c, admin' = Visited(c) PROVE SameOp /\ admin'.at = "next" /\ Shrinks(c)
  BY Zenon, <1>0, <1>4 DEF Visited, SameOp, Shrinks
<1>5. CASE AdminLeave
  <2>0. admin.at = "leaving" BY Zenon, <1>5 DEF AdminLeave
  <2>1. CASE In(admin.conn)
    <3>1. admin' = [admin EXCEPT !.at = "closing"] BY Zenon, <1>5, <2>1 DEF AdminLeave
    <3>2. SameOp /\ Turns("leaving", "closing") /\ SameTodo
      BY Zenon, <1>0, <2>0, <3>1 DEF SameOp, Turns, SameTodo
    <3>. QED BY Zenon, <1>5, <2>1, <3>2 DEF AdminTurns
  <2>2. CASE ~In(admin.conn)
    <3>1. admin' = Visited(admin.conn) BY Zenon, <1>5, <2>2 DEF AdminLeave
    <3>2. SameOp /\ Turns("leaving", "next") /\ Shrinks(admin.conn) BY Zenon, <1>4, <2>0, <3>1 DEF Turns
    <3>. QED BY Zenon, <1>5, <2>2, <3>2 DEF AdminTurns
  <2>. QED BY Zenon, <2>1, <2>2
<1>6. CASE AdminClose
  <2>1. admin' = Visited(admin.conn) /\ admin.at = "closing" BY Zenon, <1>6 DEF AdminClose
  <2>2. SameOp /\ Turns("closing", "next") /\ Shrinks(admin.conn) BY Zenon, <1>4, <2>1 DEF Turns
  <2>. QED BY Zenon, <1>6, <2>2 DEF AdminTurns
<1>7. ASSUME NEW c \in Conns, AdminNext(c) PROVE AdminTurns
  <2>0. admin.at = "next" /\ ~admin.failed BY Zenon, <1>7 DEF AdminNext
  <2>1. CASE Removes(c)
    <3>1. admin' = [admin EXCEPT !.at = "leaving", !.conn = c] BY Zenon, <1>7, <2>1 DEF AdminNext
    <3>2. SameOp /\ Turns("next", "leaving") /\ SameTodo
      BY Zenon, <1>0, <2>0, <3>1 DEF SameOp, Turns, SameTodo
    <3>. QED BY Zenon, <1>7, <2>0, <3>2 DEF AdminTurns
  <2>2. CASE ~Removes(c)
    <3>1. admin' = [admin EXCEPT !.todo = admin.todo \ {c}] BY Zenon, <1>7, <2>2 DEF AdminNext
    <3>2. SameOp /\ Turns("next", "next") /\ Shrinks(c)
      BY Zenon, <1>0, <2>0, <3>1 DEF SameOp, Turns, Shrinks
    <3>. QED BY Zenon, <1>7, <2>0, <2>2, <3>2 DEF AdminTurns
  <2>. QED BY Zenon, <2>1, <2>2
<1>8. ASSUME NEW c \in Conns, AdminUnregisters(c) PROVE AdminTurns
  <2>0. admin.at = "next" /\ admin.failed BY Zenon, <1>8 DEF AdminUnregisters
  <2>1. CASE UNCHANGED admin
    <3>1. SameOp /\ Turns("next", "next") /\ SameTodo BY Zenon, <2>0, <2>1 DEF SameOp, Turns, SameTodo
    <3>. QED BY Zenon, <1>8, <2>0, <3>1 DEF AdminTurns
  <2>2. CASE teardown[c] = "gone" /\ admin' = Visited(c)
    <3>1. SameOp /\ Turns("next", "next") /\ Shrinks(c) BY Zenon, <1>4, <2>0, <2>2 DEF Turns
    <3>. QED BY Zenon, <1>8, <2>0, <2>2, <3>1 DEF AdminTurns
  <2>. QED BY Zenon, <1>8, <2>1, <2>2 DEF AdminUnregisters
<1>9. CASE AdminRemove
  <2>1. ASSUME NEW t, admin' = [admin EXCEPT !.at = "removed", !.todo = t]
        PROVE  SameOp /\ admin'.at = "removed"
    BY Zenon, <1>0, <2>1 DEF SameOp
  <2>2. SameOp /\ Turns("removing", "removed") BY Zenon, <1>9, <2>1 DEF AdminRemove, Turns
  <2>. QED BY Zenon, <1>9, <2>2 DEF AdminTurns
<1>10. ASSUME NEW c \in Conns, AdminCloseRemoved(c) PROVE AdminTurns
  <2>1. admin.at = "removed" /\ admin' = [admin EXCEPT !.todo = admin.todo \ {c}]
    BY Zenon, <1>10 DEF AdminCloseRemoved
  <2>2. SameOp /\ Turns("removed", "removed") BY Zenon, <1>0, <2>1 DEF SameOp, Turns
  <2>. QED BY Zenon, <1>10, <2>2 DEF AdminTurns
<1>11. CASE AdminEnd
  <2>1. CASE admin.at = "next" /\ admin.op = "revokeServer"
    <3>1. admin' = [admin EXCEPT !.at = "removing"] BY Zenon, <1>11, <2>1 DEF AdminEnd
    <3>2. SameOp /\ Turns("next", "removing") BY Zenon, <1>0, <2>1, <3>1 DEF SameOp, Turns
    <3>. QED BY Zenon, <1>11, <2>1, <3>2 DEF AdminTurns
  <2>2. CASE ~(admin.at = "next" /\ admin.op = "revokeServer")
    BY SMTT(30), <1>11, <2>2 DEF AdminEnd, AdminTurns
  <2>. QED BY Zenon, <2>1, <2>2
<1>. QED BY Zenon, <1>1, <1>2, <1>3, <1>5, <1>6, <1>7, <1>8, <1>9, <1>10, <1>11 DEF AdminStep

(* Who changes the database, the cached access and the membership.         *)
LEMMA TablesFixed ==
  ASSUME Next
  PROVE  /\ Commit \/ UNCHANGED <<policy, active>>
         /\ AdminEnter \/ UNCHANGED access
         /\ AdminEnter \/ AdminLeave \/ AdminClose \/ UNCHANGED inServer
BY ZenonT(40) DEF Next, BeginJoin, JoinStep, LeaveVoice, ReaderStops, LockJoin, Validate, EnterRoster,
     CloseReplaced, QueueJoined, MediaLeave, MediaInstall, Offer, UndoJoin, ReaderCloses,
     MediaFails, SessionFails, Drop, TeardownStep, Detach, TeardownLeave, TeardownClose,
     FailureStep, FailureLock, FailureLeave, FailureClose, Commit, AdminStep, Ask, AdminEnter,
     Revalidate, AdminLeave, AdminClose, AdminRemove, AdminEnd, AdminNext, AdminUnregisters,
     AdminCloseRemoved, tables

(* Operations do not move the readers, and a commit not the roster.        *)
LEMMA AdminOnly ==
  /\ Commit => UNCHANGED <<reader, byClient, done, access, inServer>>
  /\ AdminStep => UNCHANGED reader
BY Zenon DEF Commit, AdminStep, Ask, AdminEnter, Revalidate, AdminLeave, AdminClose,
     AdminRemove, AdminEnd, AdminNext, AdminUnregisters, AdminCloseRemoved, roster

(* A change of the policy concerns whoever it shuts out.                   *)
LEMMA CommitConcerns ==
  ASSUME Subjects, Commit, NEW u \in Users, NEW x \in Channels, x \in policy[u], x \notin policy'[u]
  PROVE  Concerns(u, x)' /\ admin'.at = "committed"
<1>0. policy \in [Users -> SUBSET Channels] BY Zenon DEF Subjects
<1>1. ASSUME NEW op, NEW arg, Begin(op, arg)
      PROVE  admin'.op = op /\ admin'.arg = arg /\ admin'.at = "committed"
  BY Zenon, <1>1 DEF Begin, NoAdmin
<1>2. ASSUME NEW v \in Present, NEW S \in SUBSET Channels, Begin("refresh", v),
             policy' = [policy EXCEPT ![v] = S]
      PROVE  Concerns(u, x)' /\ admin'.at = "committed"
  <2>1. u = v BY Zenon, <1>0, <1>2
  <2>2. admin'.op = "refresh" /\ admin'.arg = v /\ admin'.at = "committed" BY Zenon, <1>1, <1>2
  <2>. QED BY Zenon, <2>1, <2>2 DEF Concerns, Exclusive
<1>3. ASSUME NEW v \in Present, Begin("revoke", v), policy' = [policy EXCEPT ![v] = {}]
      PROVE  Concerns(u, x)' /\ admin'.at = "committed"
  <2>1. u = v BY Zenon, <1>0, <1>3
  <2>2. admin'.op = "revoke" /\ admin'.arg = v /\ admin'.at = "committed" BY Zenon, <1>1, <1>3
  <2>. QED BY Zenon, <2>1, <2>2 DEF Concerns, Exclusive
<1>4. ASSUME Begin("revokeServer", "none") PROVE Concerns(u, x)' /\ admin'.at = "committed"
  <2>1. admin'.op = "revokeServer" /\ admin'.at = "committed" BY Zenon, <1>1, <1>4
  <2>. QED BY Zenon, <2>1 DEF Concerns, Exclusive
<1>5. ASSUME NEW y, Begin("removeChannel", y), policy' = [v \in Users |-> policy[v] \ {y}]
      PROVE  Concerns(u, x)' /\ admin'.at = "committed"
  <2>1. x = y BY Zenon, <1>0, <1>5
  <2>2. admin'.op = "removeChannel" /\ admin'.arg = y /\ admin'.at = "committed" BY Zenon, <1>1, <1>5
  <2>. QED BY Zenon, <2>1, <2>2 DEF Concerns, Exclusive
<1>6. CASE UNCHANGED policy BY Zenon, <1>6
<1>. QED BY Zenon, <1>2, <1>3, <1>4, <1>5, <1>6 DEF Commit

(* A commit leaves whoever it shuts out to the operation it begins.        *)
LEMMA CommitAllows ==
  ASSUME RosterOK, Subjects, AccessInv, Commit
  PROVE  AccessInv'
<1>1. UNCHANGED <<reader, byClient, done, access, inServer>> BY Zenon, AdminOnly
<1>2. admin = NoAdmin /\ admin.op = "none" /\ admin.at = "idle" BY SMTT(30), CommitBegins DEF NoAdmin
<1>3. admin'.at = "committed" BY CommitBegins
<1>4. \A u \in Users, x \in Channels : ~Concerns(u, x) BY Zenon, <1>2 DEF Concerns, Exclusive
<1>5. ASSUME NEW c \in Conns, reader'[c].at \in {"locked", "validated"}, reader'[c].ch \notin policy'[Owner(c)]
      PROVE  Concerns(Owner(c), reader[c].ch)' /\ admin'.at \in {"committed", "wanting"}
  <2>1. reader[c].at \in {"locked", "validated"} BY Zenon, <1>1, <1>5
  <2>2. reader[c].ch \in Channels BY Zenon, <2>1 DEF Subjects, InGate
  <2>3. Owner(c) \in Users BY Zenon, VoiceAssumption
  <2>4. reader[c].ch \in policy[Owner(c)] BY Zenon, <1>4, <2>1, <2>2, <2>3 DEF AccessInv, JoinsAllowed
  <2>. QED BY Zenon, <1>1, <1>5, <2>2, <2>3, <2>4, CommitConcerns DEF Concerns
<1>6. ASSUME NEW c \in Conns, In(c)', ~done'[c], byClient'[c].ch \notin policy'[Owner(c)]
      PROVE  Concerns(Owner(c), byClient[c].ch)' /\ Pending(c)'
  <2>1. In(c) /\ ~done[c] BY Zenon, <1>1, <1>6 DEF In
  <2>2. byClient[c].ch \in Channels BY Zenon, <2>1 DEF RosterOK, RosterType
  <2>3. Owner(c) \in Users BY Zenon, VoiceAssumption
  <2>4. byClient[c].ch \in policy[Owner(c)] BY Zenon, <1>4, <2>1, <2>2, <2>3 DEF AccessInv, VoiceAllowed
  <2>5. Concerns(Owner(c), byClient[c].ch)' BY Zenon, <1>1, <1>6, <2>2, <2>3, <2>4, CommitConcerns DEF Concerns
  <2>. QED BY Zenon, <1>3, <2>5 DEF Pending
<1>7. Reloaded' BY Zenon, <1>3 DEF Reloaded
<1>8. ServerFirst'
  <2>1. \A c \in Conns : In(c)' => inServer[c]
    BY Zenon, <1>1, <1>2 DEF AccessInv, ServerFirst, In
  <2>. QED BY Zenon, <1>1, <1>3, <2>1 DEF AccessInv, ServerFirst
<1>9. AccessType' BY Zenon, <1>1 DEF AccessInv, AccessType
<1>. QED BY Zenon, <1>5, <1>6, <1>7, <1>8, <1>9 DEF AccessInv, JoinsAllowed, VoiceAllowed

(* Access checked under voiceJoins and channelAccessMu stays right.        *)
LEMMA ReadersAllowed ==
  ASSUME Subjects, AdminStages, AccessType, JoinsAllowed, Next, ~Commit
  PROVE  JoinsAllowed'
<1>1. UNCHANGED policy BY Zenon, TablesFixed
<1>2. SUFFICES ASSUME NEW c \in Conns, reader'[c].at \in {"locked", "validated"},
                      reader'[c].ch \notin policy[Owner(c)]
               PROVE  Concerns(Owner(c), reader[c].ch)' /\ admin'.at \in {"committed", "wanting"}
  BY Zenon, <1>1 DEF JoinsAllowed
<1>3. reader[c].at \in {"locked", "validated"} /\ reader'[c].ch = reader[c].ch
  BY Zenon, <1>2, StagesStep DEF Stages, Goes, SameJoin
<1>4. Concerns(Owner(c), reader[c].ch) /\ admin.at \in {"committed", "wanting"}
  BY Zenon, <1>2, <1>3 DEF JoinsAllowed
<1>5. CASE UNCHANGED admin BY Zenon, <1>3, <1>4, <1>5 DEF Concerns
<1>6. CASE AdminStep
  <2>1. ~NobodyJoins BY Zenon, <1>3 DEF NobodyJoins, InGate
  <2>2. Ask /\ SameOp /\ Turns("committed", "wanting")
    BY Zenon, <1>4, <1>6, <2>1, AdminTurnsStep DEF AdminTurns, Concerns, Exclusive, Turns
  <2>. QED BY Zenon, <1>3, <1>4, <2>2 DEF Concerns, SameOp, Turns
<1>. QED BY Zenon, <1>5, <1>6, AdminMoves

(* RemoveChannel and RevokeServer take everybody they concern out at once. *)
LEMMA RemoveConcerned ==
  ASSUME RosterOK, Subjects, AdminRemove, NEW c \in Conns, In(c),
         admin.op = "removeChannel" => admin.arg = byClient[c].ch
  PROVE  ~In(c)'
<1>1. CASE admin.op = "removeChannel" /\ removeChannel(admin.arg)
  <2>1. c \in byChannel[admin.arg] BY Zenon, <1>1 DEF RosterOK, RosterExact, Subjects
  <2>. QED BY SMTT(30), <1>1, <2>1 DEF removeChannel, RemoveAll, NoParticipant, In
<1>2. CASE removeServer BY SMTT(30), <1>2 DEF removeServer, RemoveAll, NoParticipant, In
<1>. QED BY Zenon, <1>1, <1>2 DEF AdminRemove

(* An operation does not pass by a participant it shuts out, and no join   *)
(* gets in behind it.                                                      *)
LEMMA VoiceStaysAllowed ==
  ASSUME RosterOK, Subjects, ClosedOK, AdminStages, LeftFirst, AccessInv, Next, ~Commit
  PROVE  VoiceAllowed'
<1>0. AccessType /\ JoinsAllowed /\ VoiceAllowed /\ Reloaded /\ ServerFirst BY Zenon DEF AccessInv
<1>1. UNCHANGED policy BY Zenon, TablesFixed
<1>2. SUFFICES ASSUME NEW c \in Conns, In(c)', ~done'[c], byClient'[c].ch \notin policy[Owner(c)]
               PROVE  Concerns(Owner(c), byClient[c].ch)' /\ Pending(c)'
  BY Zenon, <1>1 DEF VoiceAllowed
<1>3. ~done[c] BY Zenon, <1>2, DoneStays
<1>4. CASE Enters(c)
  <2>1. reader[c].at = "validated" /\ UNCHANGED admin /\ byClient'[c].ch = reader[c].ch
    BY <1>4 DEF Enters, EnterRoster
  <2>2. Concerns(Owner(c), reader[c].ch) /\ admin.at \in {"committed", "wanting"}
    BY Zenon, <1>0, <1>2, <2>1 DEF JoinsAllowed
  <2>. QED BY Zenon, <2>1, <2>2 DEF Concerns, Pending
<1>5. CASE byClient'[c] = byClient[c]
  <2>1. In(c) BY Zenon, <1>2, <1>5 DEF In
  <2>2. Concerns(Owner(c), byClient[c].ch) /\ Pending(c)
    BY Zenon, <1>0, <1>2, <1>3, <1>5, <2>1 DEF VoiceAllowed
  <2>3. admin.op \in Exclusive BY Zenon, <2>2 DEF Concerns
  <2>4. ASSUME SameOp PROVE Concerns(Owner(c), byClient[c].ch)'
    BY Zenon, <1>5, <2>2, <2>4 DEF SameOp, Concerns
  <2>5. CASE UNCHANGED admin BY Zenon, <1>5, <2>2, <2>5 DEF Concerns, Pending
  <2>6. ASSUME NEW d, SameOp, Shrinks(d), d # c, admin.at \in {"next", "leaving", "closing"},
               admin'.at \in {"next", "leaving", "closing"}
        PROVE  Pending(c)'
    BY Zenon, <2>2, <2>6 DEF Pending, SameOp, Shrinks
  <2>7. ASSUME SameOp, SameTodo, admin.at \in {"next", "leaving", "closing"},
               admin'.at \in {"next", "leaving", "closing"}
        PROVE  Pending(c)'
    BY Zenon, <2>2, <2>7 DEF Pending, SameOp, SameTodo
  <2>8. ASSUME AdminEnter, SameOp, Turns("wanting", "next"), admin.op \in {"refresh", "revoke"},
               admin'.todo = Visits
        PROVE  Pending(c)'
    <3>1. c \in registered BY Zenon, <1>3 DEF ClosedOK
    <3>2. inServer[c] BY Zenon, <1>0, <2>1, <2>8 DEF ServerFirst
    <3>3. admin.op = "revoke" => Owner(c) = admin.arg BY Zenon, <2>2 DEF Concerns
    <3>4. c \in Visits BY Zenon, <2>8, <3>1, <3>2, <3>3 DEF Visits
    <3>. QED BY Zenon, <2>8, <3>4 DEF Pending, Turns
  <2>9. CASE AdminStep
    <3>1. AdminTurns BY Zenon, <1>0, <2>9, AdminTurnsStep
    <3>2. ASSUME SameOp, admin'.at \in {"wanting", "removing"} PROVE Pending(c)' BY Zenon, <3>2 DEF Pending
    <3>3. ASSUME SameOp, admin.op = "revokeServer", admin'.at = "next" PROVE Pending(c)'
      BY Zenon, <3>3 DEF Pending, SameOp
    <3>4. ~In(admin.conn) => admin.conn # c BY Zenon, <2>1
    <3>5. AdminClose => ~In(admin.conn) BY Zenon, <2>3 DEF AdminClose, LeftFirst
    <3>6. ASSUME NEW d \in Conns, AdminNext(d), ~Removes(d), ~admin.failed PROVE d # c
      <4>1. SUFFICES ASSUME d = c PROVE FALSE OBVIOUS
      <4>2. admin.op = "refresh" /\ byClient[c].ch \in access[c] BY Zenon, <2>1, <3>6, <4>1 DEF Removes
      <4>3. access[c] \subseteq policy[Owner(c)]
        BY Zenon, <1>0, <3>6, <4>1, <4>2 DEF Reloaded, AdminNext
      <4>. QED BY Zenon, <1>2, <1>5, <4>2, <4>3
    <3>7. ASSUME NEW d \in Conns, teardown[d] = "gone" PROVE d # c BY Zenon, <1>3, <3>7 DEF ClosedOK
    <3>8. ~AdminRemove
      <4>1. admin.op = "removeChannel" => admin.arg = byClient[c].ch BY Zenon, <2>2 DEF Concerns
      <4>. QED BY Zenon, <1>2, <2>1, <4>1, RemoveConcerned
    <3>9. admin.at # "removed" BY Zenon, <2>2 DEF Pending
    <3>10. admin.op \notin {"reset", "revalidate"} BY Zenon, <2>3 DEF Exclusive
    <3>11. ~(admin.at = "next" /\ admin.todo = {} /\ admin.op # "revokeServer") BY Zenon, <2>2 DEF Pending
    <3>12. SameOp /\ Pending(c)'
      BY ZenonT(40), <3>1, <3>2, <3>3, <3>4, <3>5, <3>6, <3>7, <3>8, <3>9, <3>10, <3>11, <2>6, <2>7, <2>8
         DEF AdminTurns, Turns
    <3>. QED BY Zenon, <2>4, <3>12
  <2>. QED BY Zenon, <2>5, <2>9, AdminMoves
<1>6. byClient'[c].gen # 0 BY <1>2 DEF In
<1>. QED BY Zenon, <1>4, <1>5, <1>6, RemovalsStep

(* RefreshChannelAccess installs what the database says.                   *)
LEMMA AccessReloaded ==
  ASSUME Subjects, AccessType, Reloaded, Next, ~Commit
  PROVE  Reloaded'
<1>1. UNCHANGED policy BY Zenon, TablesFixed
<1>2. SUFFICES ASSUME admin'.op = "refresh", admin'.at \in {"next", "leaving", "closing"}, ~admin'.failed,
                      NEW c \in Conns, c \in admin'.todo
               PROVE  access'[c] \subseteq policy[Owner(c)]
  BY Zenon, <1>1 DEF Reloaded
<1>3. CASE AdminEnter
  <2>1. AdminTurns BY Zenon, <1>3, AdminTurnsStep DEF AdminStep
  <2>2. admin.op = "refresh" /\ admin'.todo = Visits
    BY Zenon, <1>2, <1>3, AdminTurnsStep DEF AdminStep, AdminTurns, SameOp, Ask, AdminEnter, Revalidate,
       AdminLeave, AdminClose, AdminNext, AdminUnregisters, AdminRemove, AdminCloseRemoved, AdminEnd, NoAdmin
  <2>3. PICK failed : Reload(failed) BY Zenon, <1>3, <2>2 DEF AdminEnter
  <2>4. c \in Visits BY Zenon, <1>2, <2>2
  <2>. QED BY Zenon, <2>3, <2>4 DEF Reload
<1>4. CASE ~AdminEnter
  <2>1. UNCHANGED access BY Zenon, <1>4, TablesFixed
  <2>2. /\ admin.op = "refresh" /\ admin.at \in {"next", "leaving", "closing"} /\ ~admin.failed
        /\ c \in admin.todo
    <3>1. CASE UNCHANGED admin BY Zenon, <1>2, <3>1
    <3>2. CASE AdminStep
      <4>1. AdminTurns BY Zenon, <3>2, AdminTurnsStep
      <4>2. admin' # NoAdmin BY <1>2 DEF NoAdmin
      <4>3. SameOp \/ admin.op = "revalidate" BY Zenon, <4>1, <4>2 DEF AdminTurns
      <4>4. SameOp /\ admin.op = "refresh"
        BY Zenon, <1>2, <1>4, <4>1, <4>2, <4>3 DEF AdminTurns, SameOp
      <4>5. \/ Turns("leaving", "closing") /\ SameTodo
            \/ Turns("leaving", "next") /\ Shrinks(admin.conn)
            \/ Turns("closing", "next") /\ Shrinks(admin.conn)
            \/ ~admin.failed /\ Turns("next", "leaving") /\ SameTodo
            \/ \E d \in Conns : Turns("next", "next") /\ (SameTodo \/ Shrinks(d))
        BY Zenon, <1>2, <1>4, <4>1, <4>2, <4>4 DEF AdminTurns, Turns
      <4>. QED BY Zenon, <1>2, <4>4, <4>5 DEF Turns, SameTodo, Shrinks
    <3>. QED BY Zenon, <3>1, <3>2, AdminMoves
  <2>. QED BY Zenon, <2>1, <2>2 DEF Reloaded
<1>. QED BY Zenon, <1>3, <1>4

(* RevokeUserFromServer takes a connection out of voice before it takes it *)
(* out of the server.                                                      *)
LEMMA MembershipEnds ==
  ASSUME Subjects, AccessType, AdminStages, LeftFirst, Next, NEW c \in Conns, inServer'[c] # inServer[c]
  PROVE  /\ NobodyJoins /\ UNCHANGED reader
         /\ (admin'.op = "revokeServer" /\ admin'.at = "removing") \/ ~In(c)'
<1>1. CASE AdminEnter
  <2>1. UNCHANGED reader BY Zenon, <1>1 DEF AdminEnter
  <2>2. AdminTurns BY Zenon, <1>1, AdminTurnsStep DEF AdminStep
  <2>3. ASSUME ~(AdminEnter /\ SameOp /\ admin.op = "revokeServer" /\ NobodyJoins /\ Turns("wanting", "removing"))
        PROVE  FALSE
    BY Zenon, <1>1, <2>2, <2>3 DEF AdminTurns, Turns, AdminEnter, Ask, Revalidate, AdminLeave, AdminClose, AdminNext,
       AdminUnregisters, AdminRemove, AdminCloseRemoved, AdminEnd
  <2>. QED BY Zenon, <2>1, <2>3 DEF SameOp, Turns
<1>2. CASE AdminLeave \/ AdminClose
  <2>1. inServer' = [inServer EXCEPT ![admin.conn] = inServer[admin.conn] /\ admin.op # "revoke"]
    BY Zenon, <1>2 DEF AdminLeave, AdminClose
  <2>2. admin.conn = c /\ admin.op = "revoke" BY Zenon, <2>1 DEF AccessType
  <2>3. NobodyJoins BY Zenon, <1>2, <2>2 DEF AdminStages, Exclusive, AdminLeave, AdminClose
  <2>4. ~In(c) /\ UNCHANGED byClient
    BY Zenon, <1>2, <2>2 DEF AdminLeave, AdminClose, LeftFirst, Exclusive, leave, roster
  <2>. QED BY Zenon, <1>2, <2>3, <2>4 DEF In, AdminLeave, AdminClose
<1>. QED BY Zenon, <1>1, <1>2, TablesFixed

(* Nobody takes part on a server they have left.                           *)
LEMMA ServerStaysFirst ==
  ASSUME RosterOK, Subjects, AdminStages, LeftFirst, AccessType, ServerFirst, Next, ~Commit
  PROVE  ServerFirst'
<1>1. ASSUME NEW c \in Conns, reader'[c].at = "validated" PROVE inServer'[c]
  <2>1. CASE inServer'[c] # inServer[c]
    BY Zenon, <1>1, <2>1, MembershipEnds DEF NobodyJoins, InGate
  <2>2. inServer[c]
    <3>1. CASE reader'[c] = reader[c] BY Zenon, <1>1, <3>1 DEF ServerFirst
    <3>2. CASE Stages(c) BY Zenon, <1>1, <3>2 DEF Stages, Goes, MayJoin
    <3>. QED BY Zenon, <3>1, <3>2, StagesStep
  <2>. QED BY Zenon, <2>1, <2>2
<1>2. ASSUME NEW c \in Conns, In(c)', ~inServer'[c] PROVE admin'.op = "revokeServer" /\ admin'.at = "removing"
  <2>1. CASE inServer'[c] # inServer[c] BY Zenon, <1>2, <2>1, MembershipEnds
  <2>2. CASE ~inServer[c]
    <3>1. ~Enters(c) BY Zenon, <2>2 DEF ServerFirst, Enters, EnterRoster
    <3>2. byClient'[c] = byClient[c] BY <1>2, <3>1, RemovalsStep DEF In
    <3>3. In(c) /\ admin.op = "revokeServer" /\ admin.at = "removing"
      BY Zenon, <1>2, <2>2, <3>2 DEF In, ServerFirst
    <3>4. ~AdminRemove BY Zenon, <1>2, <3>3, RemoveConcerned
    <3>5. ~AdminStep BY Zenon, <3>3, <3>4, AdminTurnsStep DEF AdminTurns, Turns
    <3>. QED BY Zenon, <3>3, <3>5, AdminMoves
  <2>. QED BY Zenon, <1>2, <2>1, <2>2
<1>3. ASSUME admin'.op = "removeChannel" PROVE admin'.at \in {"committed", "wanting", "removing", "removed"}
  <2>1. CASE UNCHANGED admin BY Zenon, <1>3, <2>1 DEF ServerFirst
  <2>2. CASE AdminStep
    <3>1. AdminTurns BY Zenon, <2>2, AdminTurnsStep
    <3>2. admin' # NoAdmin BY <1>3 DEF NoAdmin
    <3>3. admin.op = "removeChannel" => admin.at \in {"committed", "wanting", "removing", "removed"}
      BY Zenon DEF ServerFirst
    <3>. QED BY Zenon, <1>3, <3>1, <3>2, <3>3 DEF AdminTurns, SameOp, Turns
  <2>. QED BY Zenon, <2>1, <2>2, AdminMoves
<1>. QED BY Zenon, <1>1, <1>2, <1>3 DEF ServerFirst

(* The policies are sets of channels.                                      *)
LEMMA AccessTypeStep ==
  ASSUME Subjects, AccessType, Next
  PROVE  AccessType'
<1>0. \A c \in Conns : policy[Owner(c)] \subseteq Channels BY Zenon, VoiceAssumption DEF Subjects
<1>1. access' \in [Conns -> SUBSET Channels]
  <2>1. ASSUME NEW failed, Reload(failed) PROVE access' \in [Conns -> SUBSET Channels]
    BY Zenon, <1>0, <2>1 DEF Reload, AccessType
  <2>. QED BY Zenon, <2>1, TablesFixed DEF AccessType, AdminEnter
<1>2. inServer' \in [Conns -> BOOLEAN]
  BY Zenon, TablesFixed DEF AccessType, AdminEnter, AdminLeave, AdminClose
<1>. QED BY Zenon, <1>1, <1>2 DEF AccessType

(* Every step keeps the invariant of the access revocations.               *)
LEMMA AccessStep ==
  ASSUME VoiceInv, MediaInv, AccessInv, Next
  PROVE  AccessInv'
<1>1. RosterOK /\ Subjects /\ ClosedOK /\ AdminStages /\ LeftFirst
  BY Zenon DEF RosterOK, VoiceInv, MediaInv
<1>2. AccessType /\ JoinsAllowed /\ VoiceAllowed /\ Reloaded /\ ServerFirst BY Zenon DEF AccessInv
<1>3. CASE Commit BY Zenon, <1>1, <1>3, CommitAllows
<1>4. CASE ~Commit
  BY Zenon, <1>1, <1>2, <1>4, AccessTypeStep, ReadersAllowed, VoiceStaysAllowed, AccessReloaded, ServerStaysFirst
     DEF AccessInv
<1>. QED BY Zenon, <1>3, <1>4

(* A join checks its device under the lock, so RevalidateVoiceE2EE meets   *)
(* every participant whose device it takes away.                           *)
LEMMA DeviceStep ==
  ASSUME RosterOK, Subjects, AccessType, DeviceInv, Next
  PROVE  DeviceInv'
<1>0. ASSUME NEW u \in Users, u \notin active'
      PROVE  \/ u \notin active /\ active' = active
             \/ /\ Commit
                /\ (u \in active /\ admin'.op = "revalidate" /\ admin'.arg = u /\ admin'.at = "committed")
                     \/ u \notin active
  <2>1. ASSUME NEW op, NEW arg, Begin(op, arg)
        PROVE  admin'.op = op /\ admin'.arg = arg /\ admin'.at = "committed"
    BY Zenon, <2>1 DEF Begin, NoAdmin
  <2>2. CASE Commit
    <3>1. CASE active' = active BY Zenon, <1>0, <2>2, <3>1
    <3>2. ASSUME NEW v \in active, Begin("revalidate", v), active' = active \ {v}
          PROVE  u \notin active \/ (u \in active /\ admin'.op = "revalidate" /\ admin'.arg = u /\ admin'.at = "committed")
      BY Zenon, <1>0, <2>1, <3>2
    <3>. QED BY Zenon, <2>2, <3>1, <3>2 DEF Commit
  <2>. QED BY Zenon, <1>0, <2>2, TablesFixed
<1>1. Commit => admin.op = "none" BY CommitBegins DEF NoAdmin
<1>2. ASSUME NEW c \in Conns, reader'[c].at = "validated", reader'[c].e2ee, Owner(c) \notin active'
      PROVE  admin'.op = "revalidate" /\ admin'.arg = Owner(c) /\ admin'.at \in {"committed", "wanting"}
  <2>0. Owner(c) \in Users BY Zenon, VoiceAssumption
  <2>1. CASE Owner(c) \in active BY Zenon, <1>0, <1>2, <2>0, <2>1
  <2>2. CASE Owner(c) \notin active
    <3>1. reader[c].at = "validated" /\ reader[c].e2ee
      BY Zenon, <1>2, <2>2, StagesStep DEF Stages, Goes, SameJoin, MayJoin
    <3>2. admin.op = "revalidate" /\ admin.arg = Owner(c) /\ admin.at \in {"committed", "wanting"}
      BY Zenon, <2>2, <3>1 DEF DeviceInv
    <3>3. ~Revalidate BY Zenon, <3>1, <3>2 DEF Revalidate, InTransition
    <3>4. AdminStep => Ask /\ SameOp /\ Turns("committed", "wanting")
      BY Zenon, <3>2, <3>3, AdminTurnsStep DEF AdminTurns, Turns
    <3>. QED BY Zenon, <1>1, <3>2, <3>4, AdminMoves DEF SameOp, Turns
  <2>. QED BY Zenon, <2>1, <2>2
<1>3. ASSUME NEW c \in Conns, In(c)', byClient'[c].e2ee, Owner(c) \notin active'
      PROVE  /\ admin'.op = "revalidate" /\ admin'.arg = Owner(c)
             /\ admin'.at \in {"committed", "wanting"} \/ (admin'.at = "leaving" /\ admin'.conn = c)
  <2>0. Owner(c) \in Users BY Zenon, VoiceAssumption
  <2>1. CASE Owner(c) \in active BY Zenon, <1>0, <1>3, <2>0, <2>1
  <2>2. CASE Owner(c) \notin active /\ Enters(c)
    <3>1. reader[c].at = "validated" /\ reader[c].e2ee /\ UNCHANGED admin
      BY <1>3, <2>2 DEF Enters, EnterRoster
    <3>. QED BY Zenon, <2>2, <3>1 DEF DeviceInv
  <2>3. CASE Owner(c) \notin active /\ byClient'[c] = byClient[c]
    <3>1. In(c) /\ byClient[c].e2ee BY Zenon, <1>3, <2>3 DEF In
    <3>2. /\ admin.op = "revalidate" /\ admin.arg = Owner(c)
          /\ admin.at \in {"committed", "wanting"} \/ (admin.at = "leaving" /\ admin.conn = c)
      BY Zenon, <2>3, <3>1 DEF DeviceInv
    <3>3. CASE Revalidate
      <4>1. byUser[admin.arg] = c BY Zenon, <3>1, <3>2 DEF RosterOK, RosterExact
      <4>2. c # "none" BY Zenon, VoiceAssumption
      <4>3. admin' = [admin EXCEPT !.at = "leaving", !.conn = c, !.todo = {c}]
        BY ZenonT(40), <2>3, <3>1, <3>2, <3>3, <4>1, <4>2 DEF Revalidate
      <4>. QED BY Zenon, <3>2, <4>3 DEF Subjects
    <3>4. ~AdminLeave
      <4>1. SUFFICES ASSUME AdminLeave PROVE FALSE OBVIOUS
      <4>2. admin.conn = c /\ leave(c) BY Zenon, <3>2, <4>1 DEF AdminLeave
      <4>. QED BY <1>3, <3>1, <4>2 DEF leave, removeLocked, NoParticipant, In, RosterOK, RosterType
    <3>5. CASE AdminStep /\ ~Revalidate
      <4>1. Ask /\ SameOp /\ Turns("committed", "wanting")
        BY Zenon, <3>2, <3>4, <3>5, AdminTurnsStep DEF AdminTurns, Turns
      <4>. QED BY Zenon, <3>2, <4>1 DEF SameOp, Turns
    <3>. QED BY Zenon, <1>1, <3>2, <3>3, <3>5, AdminMoves
  <2>. QED BY SMTT(30), <1>3, <2>1, <2>2, <2>3, RemovalsStep DEF In
<1>. QED BY Zenon, <1>2, <1>3 DEF DeviceInv

(* At the start nobody takes part.                                         *)
LEMMA RevocationInit == ASSUME Init PROVE AccessInv /\ DeviceInv
<1>0. load.channels \subseteq Channels BY Zenon, VoiceAssumption DEF Init
<1>1. \A c \in Conns : reader[c].at \in {"idle", "stopped"} /\ ~In(c) /\ inServer[c]
  BY DEF Init, Idle, Stopped, NoParticipant, In
<1>2. AccessType BY Zenon, <1>0 DEF Init, AccessType
<1>3. AccessInv BY Zenon, <1>1, <1>2 DEF Init, AccessInv, JoinsAllowed, VoiceAllowed, Reloaded, ServerFirst, NoAdmin
<1>. QED BY Zenon, <1>1, <1>3 DEF DeviceInv

(* The invariants are about the variables only.                            *)
LEMMA RevocationStutter == ASSUME AccessInv, DeviceInv, UNCHANGED vars PROVE (AccessInv /\ DeviceInv)'
<1>. USE DEF vars
<1>1. AccessType' /\ JoinsAllowed' /\ VoiceAllowed'
  BY Zenon DEF AccessInv, AccessType, JoinsAllowed, VoiceAllowed, Concerns, Pending, In
<1>2. Reloaded' /\ ServerFirst' BY Zenon DEF AccessInv, Reloaded, ServerFirst, In
<1>3. DeviceInv' BY Zenon DEF DeviceInv, In
<1>. QED BY Zenon, <1>1, <1>2, <1>3 DEF AccessInv

(* When no operation is under way, what is left is allowed.                *)
LEMMA RevocationsRest ==
  ASSUME VoiceInv, MediaInv, AccessInv, DeviceInv
  PROVE  RevocationsHold
<1>1. RevokedDeviceLeaves BY Zenon DEF RevokedDeviceLeaves, DeviceInv
<1>2. ASSUME admin = NoAdmin, NEW c \in Conns, ~done[c], In(c) PROVE byClient[c].ch \in policy[Owner(c)]
  BY Zenon, <1>2 DEF AccessInv, VoiceAllowed, Concerns, NoAdmin, Exclusive
<1>3. \A c \in Conns : MediaFollowsRoster(c) BY Zenon, MediaRests DEF VoiceInv, MediaInv
<1>4. ASSUME admin = NoAdmin, NEW c \in Conns, ~done[c], NoReset, Settled(c), sessions[c].on
      PROVE  sessions[c].ch \in policy[Owner(c)]
  BY Zenon, <1>2, <1>3, <1>4 DEF MediaFollowsRoster
<1>. QED BY Zenon, <1>1, <1>2, <1>4 DEF RevocationsHold, AccessRespected

(* For any connections, channels and operations in any order: once a       *)
(* revocation has returned nobody it shut out takes part, has a session,   *)
(* or gets in with a check made before it (RefreshChannelAccess,           *)
(* RevokeUserFromServer, RevokeServer, RemoveChannel,                      *)
(* RevalidateVoiceE2EE).                                                   *)
THEOREM RevokedStaysRevoked == Spec => []RevocationsHold
<1>. DEFINE Inv == VoiceInv /\ MediaInv /\ AccessInv /\ DeviceInv
<1>1. Init => Inv BY Zenon, InitVoiceInv, MediaInit, RevocationInit
<1>2. ASSUME Inv, Next PROVE Inv'
  <2>1. RosterOK /\ Subjects /\ AccessType BY Zenon, <1>2 DEF VoiceInv, RosterOK, AccessInv
  <2>. QED BY Zenon, <1>2, <2>1, NextVoiceInv, MediaStep, AccessStep, DeviceStep
<1>3. Inv /\ UNCHANGED vars => Inv' BY Zenon, NextVoiceInv, MediaStutter, RevocationStutter
<1>4. Inv => RevocationsHold BY Zenon, RevocationsRest
<1>. QED BY <1>1, <1>2, <1>3, <1>4, PTL DEF Spec
=============================================================================
