-------------------------- MODULE CommunityProofs --------------------------
(***************************************************************************)
(* For any users, groups, sessions, devices, jobs, destinations, guests,   *)
(* requests and interruptions: everyone's client shows a call truly once   *)
(* the requests about it are answered; a scheduled message is delivered    *)
(* once and where it says it is; and everyone who comes to an event is     *)
(* reminded of it once.                                                    *)
(***************************************************************************)
EXTENDS Community, FiniteSetTheorems, TLAPS

-----------------------------------------------------------------------------
(* Calls.  Every change of who is in a call counts the revision up and     *)
(* leaves behind a request that reads the call again and tells everybody;  *)
(* so from some revision on every snapshot is accurate, and each member's  *)
(* client shows one of those or is about to be told one.  The revision     *)
(* from which on is not a variable of the code, hence the existential in   *)
(* CallRight.                                                              *)

Entries   == [user : Users, session : Sessions, device : Devices \cup {"none"}]
Snapshots == [revision : Int, members : SUBSET Entries]
LeaseRows == [conversation : Conversations, session : Sessions, device : Devices \cup {"none"}, age : Ages]
Tasks     == [step : {"read", "emit", "respond", "revalidate"}, conversation : Conversations \cup {{}},
              caller : Users, emits : BOOLEAN, also : SUBSET Users, state : Snapshots]

CallsTyped ==
    /\ load \in Loads
    /\ members \in [Conversations -> SUBSET Users]
    /\ leases \in [Users -> LeaseRows \cup {NoLease}]
    /\ revision \in [Conversations -> Nat]
    /\ working \subseteq Tasks
    /\ \A t \in working : t.step # "revalidate" => t.conversation \in Conversations
    /\ shown \in [Users -> [Conversations -> Snapshots]]
    /\ DOMAIN devices = Users

Holders(c) == {<<v, leases[v].session>> : v \in Lease(c)}
Named(st)  == {<<m.user, m.session>> : m \in st.members}

Accurate(c, st) == Named(st) \subseteq Holders(c) \cup lapsed /\ Holders(c) \subseteq Named(st) \cup lapsed

(* A lease is of a member, and one without a recent heartbeat is known for it. *)
LeasesRight ==
    \A u \in Users : leases[u] # NoLease =>
      /\ u \in members[leases[u].conversation]
      /\ leases[u].age # "fresh" => <<u, leases[u].session>> \in lapsed

(* No snapshot is ahead of the call. *)
Snapshot(t) == t.step \in {"emit", "respond"}
NotAhead(c) ==
    /\ \A u \in Users : shown[u][c].revision <= revision[c]
    /\ \A t \in working : t.conversation = c /\ Snapshot(t) => t.state.revision <= revision[c]

(* Task t will show u a snapshot of revision b or later. *)
Covers(t, u, b) ==
    \/ t.step = "read" /\ (t.emits \/ t.caller = u)
    \/ t.step = "emit" /\ t.state.revision >= b
    \/ t.step = "respond" /\ t.caller = u /\ t.state.revision >= b

Since(c, b) ==
    /\ b <= revision[c]
    /\ \A t \in working : t.conversation = c /\ Snapshot(t) /\ t.state.revision >= b => Accurate(c, t.state)
    /\ \A u \in Users : shown[u][c].revision >= b => Accurate(c, shown[u][c])
    /\ \A u \in members[c] :
         shown[u][c].revision >= b \/ \E t \in working : t.conversation = c /\ Covers(t, u, b)

CallRight(c) == NotAhead(c) /\ \E b \in Int : Since(c, b)

CallsInv == CallsTyped /\ LeasesRight /\ (\A c \in Conversations : CallRight(c)) /\ RevokedDeviceHangsUp

LEMMA NoLeaseIsNone == NoLease \notin LeaseRows /\ NoLease.age = "none" /\ NoLease.device = "none"
  BY CallsAssumption DEF NoLease, LeaseRows

LEMMA NothingTyped == Nothing \in Snapshots /\ Nothing.revision = -1
  BY DEF Nothing, Snapshots

LEMMA CallsInit == Init => CallsInv
<1> SUFFICES ASSUME Init PROVE CallsInv OBVIOUS
<1>1. load \in Loads /\ load.people \subseteq Users BY CallsAssumption DEF Init
<1>2. CallsTyped BY Zenon, <1>1, NothingTyped DEF Init, CallsTyped
<1>3. LeasesRight BY DEF Init, LeasesRight
<1>4. ASSUME NEW c \in Conversations PROVE CallRight(c)
  <2>1. NotAhead(c) BY NothingTyped DEF Init, NotAhead
  <2>2. working = {} /\ revision[c] = 0 /\ (\A u \in Users : shown[u][c] = Nothing) /\ members[c] \subseteq Users
    BY <1>1 DEF Init
  <2>3. Holders(c) = {} /\ Named(Nothing) = {} BY DEF Init, Holders, Lease, Named, Nothing
  <2>4. Accurate(c, Nothing) BY Zenon, <2>3 DEF Accurate
  <2>5. Since(c, -1) BY <2>2, <2>4, NothingTyped DEF Since
  <2> QED BY <2>1, <2>5 DEF CallRight
<1>5. RevokedDeviceHangsUp BY NoLeaseIsNone DEF Init, RevokedDeviceHangsUp, NoDevice
<1> QED BY Zenon, <1>2, <1>3, <1>4, <1>5 DEF CallsInv

(* What a request adds: tasks that have yet to read, or to check devices. *)
Adds(tasks) ==
    /\ \A t \in working : t.step # "revalidate" => t \in working'
    /\ working' \subseteq working \cup tasks
    /\ \A t \in tasks : t.step \in {"read", "revalidate"}

(* A conversation of which only leases are gone that were late, if any. *)
LEMMA CallKept ==
    ASSUME NEW c \in Conversations, CallsTyped, CallRight(c), CallsTyped', NEW tasks, Adds(tasks),
           shown' = shown, revision'[c] >= revision[c], lapsed \subseteq lapsed',
           Holders(c)' \subseteq Holders(c) \cup lapsed', Holders(c) \subseteq Holders(c)' \cup lapsed',
           \A u \in members'[c] \ members[c] :
             \E t \in working' : t.conversation = c /\ t.step = "read" /\ t.caller = u
    PROVE  CallRight(c)'
<1>1. \A st : Accurate(c, st) => Accurate(c, st)' BY Zenon DEF Accurate
<1>2. /\ revision[c] \in Nat /\ revision'[c] \in Nat
      /\ \A u \in Users : shown[u][c].revision \in Int
      /\ \A t \in working : t.state.revision \in Int
  BY DEF CallsTyped, Snapshots, Tasks
<1>3. \A t \in working' : Snapshot(t) => t \in working BY DEF Adds, Snapshot
<1>4. NotAhead(c)' BY <1>2, <1>3 DEF CallRight, NotAhead
<1>5. PICK b \in Int : Since(c, b) BY Zenon DEF CallRight
<1>6. \A t \in working : t.conversation = c /\ Snapshot(t) /\ t.state.revision >= b => Accurate(c, t.state)'
  BY Zenon, <1>1, <1>5 DEF Since
<1>7. \A u \in Users : shown[u][c].revision >= b => Accurate(c, shown[u][c])'
  BY Zenon, <1>1, <1>5 DEF Since
<1>8. ASSUME NEW u \in members'[c]
      PROVE  shown[u][c].revision >= b \/ \E t \in working' : t.conversation = c /\ Covers(t, u, b)
  <2>1. CASE u \in members[c]
    <3>1. CASE shown[u][c].revision >= b BY Zenon, <3>1
    <3>2. CASE \E t \in working : t.conversation = c /\ Covers(t, u, b)
      BY Zenon, <3>2 DEF Adds, Covers
    <3> QED BY Zenon, <1>5, <2>1, <3>1, <3>2 DEF Since
  <2>2. CASE u \notin members[c] BY Zenon, <2>2 DEF Covers
  <2> QED BY Zenon, <2>1, <2>2
<1>9. Since(c, b)'
  BY SMTT(30), <1>2, <1>3, <1>5, <1>6, <1>7, <1>8 DEF Since
<1> QED BY Zenon, <1>4, <1>9 DEF CallRight

(* A conversation whose call changed: nobody has a snapshot of the new      *)
(* revision yet, and a task will tell everybody.                            *)
LEMMA CallChanged ==
    ASSUME NEW c \in Conversations, CallsTyped, CallRight(c), CallsTyped', NEW tasks, Adds(tasks),
           shown' = shown, revision'[c] > revision[c],
           \E t \in working' : t.conversation = c /\ t.step = "read" /\ t.emits
    PROVE  CallRight(c)'
<1>1. /\ revision[c] \in Nat /\ revision'[c] \in Nat
      /\ \A u \in Users : shown[u][c].revision \in Int
      /\ \A t \in working : t.state.revision \in Int
  BY DEF CallsTyped, Snapshots, Tasks
<1>2. \A t \in working' : Snapshot(t) => t \in working BY Zenon DEF Adds, Snapshot
<1>3. NotAhead(c)' BY <1>1, <1>2 DEF CallRight, NotAhead
<1>4. \A u \in Users : ~(shown[u][c].revision >= revision'[c]) BY <1>1 DEF CallRight, NotAhead
<1>5. \A t \in working' : t.conversation = c /\ Snapshot(t) => ~(t.state.revision >= revision'[c])
  BY <1>1, <1>2 DEF CallRight, NotAhead
<1>6. \A u : \E t \in working' : t.conversation = c /\ Covers(t, u, revision'[c]) BY Zenon DEF Covers
<1>7. Since(c, revision[c])' BY <1>1, <1>4, <1>5, <1>6 DEF Since
<1> QED BY SMTT(30), <1>1, <1>3, <1>7 DEF CallRight

(* Leases that go: none, or the one of a user in conversation c. *)
LEMMA NothingDropped ==
    ASSUME CallsTyped, DropLeases({}) PROVE leases' = leases /\ revision' = revision
<1>1. \A c : {} \cap Lease(c) = {} OBVIOUS
<1>2. Cardinality({}) = 0 BY Zenon, FS_EmptySet
<1> QED BY <1>1, <1>2 DEF DropLeases, CallsTyped

LEMMA OneDropped ==
    ASSUME CallsTyped, NEW u \in Users, NEW c \in Conversations, u \in Lease(c), DropLeases({u})
    PROVE  /\ leases' = [leases EXCEPT ![u] = NoLease]
           /\ revision' = [revision EXCEPT ![c] = @ + 1]
           /\ \A k \in Conversations \ {c} : Holders(k)' = Holders(k)
<1>1. leases[u] # NoLease /\ leases[u].conversation = c BY DEF Lease
<1>2. {u} \cap Lease(c) = {u} /\ \A k \in Conversations \ {c} : {u} \cap Lease(k) = {}
  BY <1>1 DEF Lease
<1>3. Cardinality({}) = 0 /\ Cardinality({u}) = 1 BY Zenon, FS_EmptySet, FS_Singleton
<1>4. leases' = [leases EXCEPT ![u] = NoLease] BY Zenon DEF DropLeases, CallsTyped
<1>5. \A k \in Conversations : revision'[k] = revision[k] + Cardinality({u} \cap Lease(k))
  BY DEF DropLeases
<1>6. revision' = [revision EXCEPT ![c] = @ + 1]
  <2>1. \A k \in Conversations \ {c} : revision'[k] = revision[k] /\ revision'[c] = revision[c] + 1
    BY <1>2, <1>3, <1>5 DEF CallsTyped
  <2>2. revision' = [k \in Conversations |-> revision'[k]] BY Zenon DEF DropLeases
  <2> QED BY Zenon, <1>2, <1>3, <1>5, <2>1, <2>2 DEF CallsTyped
<1>7. \A k \in Conversations \ {c} : Lease(k)' = Lease(k) /\ \A v \in Lease(k) : leases'[v] = leases[v]
  BY Zenon, <1>1, <1>4 DEF Lease, CallsTyped
<1>8. \A k \in Conversations \ {c} : Holders(k)' = Holders(k)
  BY Zenon, <1>7 DEF Holders
<1> QED BY Zenon, <1>4, <1>6, <1>8

(* A task as a request leaves it behind. *)
LEMMA TaskTyped ==
    ASSUME NEW c \in Conversations, NEW u \in Users, NEW emits \in BOOLEAN, NEW also \in SUBSET Users
    PROVE  LET t == Task(c, u, emits, also)
           IN  /\ t \in Tasks /\ t.step = "read" /\ t.conversation = c
               /\ t.caller = u /\ t.emits = emits
  BY Zenon, NothingTyped DEF Task, Tasks

(* Requests that touch neither leases nor the members of conversations. *)
LEMMA CallsUntouched ==
    ASSUME CallsInv, NEW tasks, Adds(tasks), tasks \subseteq Tasks,
           \A t \in tasks : t.step # "revalidate" => t.conversation \in Conversations,
           UNCHANGED <<load, members, leases, revision, shown, lapsed>>, DOMAIN devices' = Users,
           RevokedDeviceHangsUp'
    PROVE  CallsInv'
<1>1. CallsTyped' BY Zenon DEF CallsInv, CallsTyped, Adds
<1>2. LeasesRight' BY Zenon DEF CallsInv, LeasesRight
<1>3. ASSUME NEW c \in Conversations PROVE CallRight(c)'
  <2>1. Holders(c)' = Holders(c) BY Zenon DEF Holders, Lease
  <2>2. revision'[c] >= revision[c] BY DEF CallsInv, CallsTyped
  <2>3. CallsTyped /\ CallRight(c) BY Zenon DEF CallsInv
  <2> QED BY Zenon, <1>1, <2>1, <2>2, <2>3, CallKept
<1> QED BY Zenon, <1>1, <1>2, <1>3 DEF CallsInv

(* Whoever keeps lease and keys keeps them right, and a check that is under *)
(* way stays so.                                                            *)
LEMMA DevicesKept ==
    ASSUME RevokedDeviceHangsUp, UNCHANGED <<devices, leases>>,
           \A t \in working : t.step = "revalidate" => t \in working'
    PROVE  RevokedDeviceHangsUp'
  BY DEF RevokedDeviceHangsUp, Active

LEMMA CallsContacts ==
    ASSUME CallsInv, NEW u, NEW v, NEW mode, SetPrivacy(u, mode) \/ block(u, v) \/ Ban(u)
    PROVE  CallsInv'
<1>1. UNCHANGED <<load, members, leases, revision, shown, lapsed, working, devices>>
  BY DEF SetPrivacy, block, Ban, Request, keys
<1>2. Adds({}) BY Zenon, <1>1 DEF Adds
<1>3. RevokedDeviceHangsUp' BY Zenon, <1>1, DevicesKept DEF CallsInv
<1>4. DOMAIN devices' = Users BY Zenon, <1>1 DEF CallsInv, CallsTyped
<1> QED BY ZenonT(40), <1>1, <1>2, <1>3, <1>4, CallsUntouched

LEMMA CallsState ==
    ASSUME CallsInv, NEW u \in Users, NEW c \in Conversations, callState(u, c) PROVE CallsInv'
<1> DEFINE t == Task(c, u, FALSE, {})
<1>1. /\ working' = working \cup {t}
      /\ UNCHANGED <<load, members, leases, revision, shown, lapsed, devices>>
  BY Zenon DEF callState, Request, keys
<1>2. t \in Tasks /\ t.step = "read" /\ t.conversation = c BY Zenon, NothingTyped DEF Task, Tasks
<1> HIDE DEF t
<1>3. Adds({t}) BY Zenon, <1>1, <1>2 DEF Adds
<1>4. RevokedDeviceHangsUp' BY Zenon, <1>1, DevicesKept DEF CallsInv
<1>5. DOMAIN devices' = Users BY Zenon, <1>1 DEF CallsInv, CallsTyped
<1> QED BY Zenon, <1>1, <1>2, <1>3, <1>4, <1>5, CallsUntouched

LEMMA CallsDevices ==
    ASSUME CallsInv, NEW u \in Users, NEW d, Register(u, d) \/ Revoke(u, d) PROVE CallsInv'
<1> DEFINE t == [Task({}, u, FALSE, {}) EXCEPT !.step = "revalidate"]
<1>1. /\ working' = working \cup {t}
      /\ UNCHANGED <<load, members, leases, revision, shown, lapsed>>
  BY Zenon DEF Register, Revoke, DevicesChanged, Request
<1>2. \E seq : devices' = [devices EXCEPT ![u] = seq] BY Zenon DEF Register, Revoke
<1>3. t \in Tasks /\ t.step = "revalidate" /\ t.caller = u BY Zenon, NothingTyped DEF Task, Tasks
<1> HIDE DEF t
<1>4. Adds({t}) BY Zenon, <1>1, <1>3 DEF Adds
<1>5. DOMAIN devices = Users /\ RevokedDeviceHangsUp BY Zenon DEF CallsInv, CallsTyped
<1>6. RevokedDeviceHangsUp'
  <2> SUFFICES ASSUME NEW v \in Users
               PROVE  \/ leases[v].device = NoDevice \/ Active(v, leases[v].device)'
                      \/ \E k \in working' : k.step = "revalidate" /\ k.caller = v
    BY Zenon, <1>1 DEF RevokedDeviceHangsUp, Active
  <2>1. CASE v = u BY Zenon, <1>1, <1>3, <2>1
  <2>2. CASE v # u
    <3>1. devices'[v] = devices[v] BY Zenon, <1>2, <1>5, <2>2
    <3>2. Active(v, leases[v].device)' <=> Active(v, leases[v].device) BY Zenon, <1>1, <3>1 DEF Active
    <3> QED BY Zenon, <1>1, <1>5, <3>2 DEF RevokedDeviceHangsUp
  <2> QED BY Zenon, <2>1, <2>2
<1>7. DOMAIN devices' = Users BY Zenon, <1>2, <1>5
<1> QED BY Zenon, <1>1, <1>3, <1>4, <1>6, <1>7, CallsUntouched

(* A call as readCall finds it: who is in it, but for leases known to lapse. *)
LEMMA ReadIsAccurate ==
    ASSUME CallsTyped, LeasesRight, NEW c \in Conversations
    PROVE  readCall(c) \in Snapshots /\ readCall(c).revision = revision[c] /\ Accurate(c, readCall(c))
<1>1. \A v \in Lease(c) : leases[v] \in LeaseRows BY Zenon DEF Lease, CallsTyped
<1> DEFINE entry(v) == [user |-> v, session |-> leases[v].session, device |-> leases[v].device]
           found == {v \in Lease(c) : leases[v].age = "fresh"}
<1>2. readCall(c) = [revision |-> revision[c], members |-> {entry(v) : v \in found}] BY Zenon DEF readCall
<1>3. \A v \in found : v \in Users /\ entry(v) \in Entries /\ entry(v).user = v
                       /\ entry(v).session = leases[v].session
  BY Zenon, <1>1 DEF Lease, LeaseRows, Entries
<1>4. \A v \in Lease(c) \ found : <<v, leases[v].session>> \in lapsed BY DEF LeasesRight, Lease
<1> HIDE DEF entry
<1>5. revision[c] \in Int BY DEF CallsTyped
<1>6. readCall(c) \in Snapshots BY SMTT(30), <1>2, <1>3, <1>5 DEF Snapshots
<1>7. readCall(c).revision = revision[c] /\ readCall(c).members = {entry(v) : v \in found} BY <1>2
<1>8. Named(readCall(c)) = {<<v, leases[v].session>> : v \in found} BY <1>3, <1>7 DEF Named
<1>9. Accurate(c, readCall(c)) BY Zenon, <1>4, <1>8 DEF Accurate, Holders
<1> QED BY Zenon, <1>6, <1>7, <1>9

LEMMA CallsRead == ASSUME CallsInv, NEW t \in working, Read(t) PROVE CallsInv'
<1> DEFINE c == t.conversation
<1>1. /\ UNCHANGED <<load, members, leases, revision, shown, lapsed, devices>>
      /\ t.step = "read"
  BY Zenon DEF Read, keys
<1>2. t \in Tasks /\ c \in Conversations BY Zenon, <1>1 DEF CallsInv, CallsTyped
<1>3. readCall(c) \in Snapshots /\ readCall(c).revision = revision[c] /\ Accurate(c, readCall(c))
  BY Zenon, <1>2, ReadIsAccurate DEF CallsInv
<1>4. PICK n \in Tasks : /\ n.step = (IF t.emits THEN "emit" ELSE "respond") /\ n.state = readCall(c)
                         /\ n.conversation = c /\ n.caller = t.caller
                         /\ working' = (working \ {t}) \cup {n}
  <2>1. PICK m : m = [t EXCEPT !.step = IF t.emits THEN "emit" ELSE "respond"] BY Zenon
  <2>2. /\ m \in Tasks /\ m.step = (IF t.emits THEN "emit" ELSE "respond")
        /\ m.conversation = c /\ m.caller = t.caller
    BY Zenon, <1>2, <2>1 DEF Tasks
  <2>3. PICK n : n = [m EXCEPT !.state = readCall(c)] BY Zenon
  <2>4. /\ n \in Tasks /\ n.step = m.step /\ n.conversation = m.conversation
        /\ n.caller = m.caller /\ n.state = readCall(c)
    BY Zenon, <1>3, <2>2, <2>3 DEF Tasks
  <2>5. working' = (working \ {t}) \cup {n} BY Zenon, <2>1, <2>3 DEF Read
  <2> QED BY Zenon, <2>2, <2>4, <2>5
<1>5. CallsTyped' BY Zenon, <1>1, <1>2, <1>4 DEF CallsInv, CallsTyped
<1>6. LeasesRight' BY Zenon, <1>1 DEF CallsInv, LeasesRight
<1>7. ASSUME NEW k \in Conversations PROVE CallRight(k)'
  <2>1. PICK b \in Int : Since(k, b) BY Zenon DEF CallsInv, CallRight
  <2>2. NotAhead(k) /\ revision[k] \in Int BY DEF CallsInv, CallRight, CallsTyped
  <2>3. \A st : Accurate(k, st)' <=> Accurate(k, st) BY Zenon, <1>1 DEF Accurate, Holders, Lease
  <2>4. NotAhead(k)' BY <1>1, <1>3, <1>4, <2>2 DEF NotAhead
  <2>5. \A x \in working' : x.conversation = k /\ Snapshot(x) /\ x.state.revision >= b => Accurate(k, x.state)
    BY Zenon, <1>3, <1>4, <2>1 DEF Since
  <2>6. ASSUME NEW u PROVE (\E x \in working : x.conversation = k /\ Covers(x, u, b))
                            => \E x \in working' : x.conversation = k /\ Covers(x, u, b)
    <3>1. c = k /\ Covers(t, u, b) => n.conversation = k /\ Covers(n, u, b)
      <4>1. b <= revision[k] BY Zenon, <2>1 DEF Since
      <4>2. c = k => n.state.revision >= b BY Zenon, <1>3, <1>4, <2>2, <4>1
      <4> QED BY Zenon, <1>1, <1>4, <4>2 DEF Covers
    <3> QED BY Zenon, <1>4, <3>1
  <2>7. Since(k, b)' BY Zenon, <1>1, <2>1, <2>3, <2>5, <2>6 DEF Since
  <2> QED BY Zenon, <2>4, <2>7 DEF CallRight
<1>8. RevokedDeviceHangsUp' BY Zenon, <1>1, <1>4, DevicesKept DEF CallsInv
<1> QED BY Zenon, <1>5, <1>6, <1>7, <1>8 DEF CallsInv

(* The snapshot of task t is handed to some clients, at least to those that *)
(* it is owed to, and t is done with or left to respond.                    *)
Tells(t, who, n) ==
    /\ Tell(who, t.conversation, t.state)
    /\ t.step = "emit" => members[t.conversation] \subseteq who
    /\ t.step = "respond" => t.caller \in who
    /\ n.step = "respond" /\ n.conversation = t.conversation /\ n.state = t.state
    /\ working \ {t} \subseteq working' /\ working' \subseteq (working \ {t}) \cup {n}
    /\ UNCHANGED <<load, members, leases, revision, lapsed, devices>>

LEMMA CallsTold ==
    ASSUME CallsInv, NEW t \in working, Snapshot(t), NEW who, NEW n \in Tasks, Tells(t, who, n)
    PROVE  CallsInv'
<1> DEFINE c == t.conversation
<1>1. t \in Tasks /\ c \in Conversations /\ t.state \in Snapshots /\ t.step # "revalidate"
  BY DEF CallsInv, CallsTyped, Snapshot, Tasks
<1>2. CallsTyped /\ LeasesRight /\ RevokedDeviceHangsUp BY Zenon DEF CallsInv
<1>3. UNCHANGED <<load, members, leases, revision, lapsed, devices>> BY Zenon DEF Tells
<1>4. /\ shown' \in [Users -> [Conversations -> Snapshots]]
      /\ \A u \in Users, k \in Conversations :
           shown'[u][k] = IF u \in who /\ k = c THEN Keep(shown[u][c], t.state) ELSE shown[u][k]
  <2>1. shown' = [u \in Users |-> IF u \in who THEN [shown[u] EXCEPT ![c] = Keep(shown[u][c], t.state)] ELSE shown[u]]
    BY Zenon DEF Tells, Tell
  <2> HIDE DEF c
  <2>2. \A u \in Users : Keep(shown[u][c], t.state) \in Snapshots BY Zenon, <1>1, <1>2 DEF CallsTyped, Keep
  <2>3. \A u \in Users : shown[u] \in [Conversations -> Snapshots] BY Zenon, <1>2 DEF CallsTyped
  <2> QED BY Zenon, <1>1, <2>1, <2>2, <2>3
<1>5. CallsTyped'
  <2>1. working' \subseteq Tasks /\ \A x \in working' : x.step # "revalidate" => x.conversation \in Conversations
    BY Zenon, <1>1, <1>2 DEF CallsTyped, Tells
  <2> QED BY Zenon, <1>2, <1>3, <1>4, <2>1 DEF CallsTyped
<1>6. LeasesRight' BY Zenon, <1>2, <1>3 DEF LeasesRight
<1>7. ASSUME NEW k \in Conversations PROVE CallRight(k)'
  <2>1. PICK b \in Int : Since(k, b) BY Zenon DEF CallsInv, CallRight
  <2>2. NotAhead(k) /\ revision[k] \in Int /\ members[k] \subseteq Users
    BY <1>2 DEF CallsInv, CallRight, CallsTyped
  <2>3. t.state.revision \in Int /\ \A u \in Users : shown[u][k].revision \in Int
    BY Zenon, <1>1, <1>2 DEF CallsTyped, Snapshots
  <2>4. \A st : Accurate(k, st)' <=> Accurate(k, st) BY Zenon, <1>3 DEF Accurate, Holders, Lease
  <2>5. \A x \in working' : x.conversation = k /\ Snapshot(x) =>
           \E y \in working : y.conversation = k /\ Snapshot(y) /\ y.state = x.state
    BY Zenon DEF Tells
  <2>6. \A u \in Users : shown'[u][k] = shown[u][k] \/ (c = k /\ shown'[u][k] = t.state)
    BY Zenon, <1>4 DEF Keep
  <2>7. NotAhead(k)' BY Zenon, <1>3, <2>2, <2>5, <2>6 DEF NotAhead
  <2>8. \A x \in working' : x.conversation = k /\ Snapshot(x) /\ x.state.revision >= b => Accurate(k, x.state)
    BY Zenon, <2>1, <2>5 DEF Since
  <2>9. \A u \in Users : shown'[u][k].revision >= b => Accurate(k, shown'[u][k]) BY Zenon, <2>1, <2>6 DEF Since
  <2>10. ASSUME NEW u \in members[k]
         PROVE  shown'[u][k].revision >= b \/ \E x \in working' : x.conversation = k /\ Covers(x, u, b)
    <3>1. u \in Users /\ shown'[u][k] = IF u \in who /\ k = c THEN Keep(shown[u][c], t.state) ELSE shown[u][k]
      BY Zenon, <1>4, <2>2
    <3>2. CASE shown[u][k].revision >= b BY SMTT(30), <2>3, <3>1, <3>2 DEF Keep
    <3>3. CASE c = k /\ Covers(t, u, b)
      <4>1. u \in who /\ t.state.revision >= b BY Zenon, <3>3 DEF Covers, Snapshot, Tells
      <4> QED BY SMTT(30), <2>3, <3>1, <3>3, <4>1 DEF Keep
    <3>4. CASE \E x \in working \ {t} : x.conversation = k /\ Covers(x, u, b) BY Zenon, <3>4 DEF Tells
    <3> QED BY SMTT(30), <2>1, <3>2, <3>3, <3>4 DEF Since
  <2>11. Since(k, b)' BY Zenon, <1>3, <2>1, <2>4, <2>8, <2>9, <2>10 DEF Since
  <2> QED BY Zenon, <2>7, <2>11 DEF CallRight
<1>8. RevokedDeviceHangsUp'
  <2>1. \A x \in working : x.step = "revalidate" => x \in working' BY Zenon, <1>1 DEF Tells
  <2> QED BY Zenon, <1>2, <1>3, <2>1, DevicesKept
<1> QED BY Zenon, <1>5, <1>6, <1>7, <1>8 DEF CallsInv

LEMMA CallsEmit ==
    ASSUME CallsInv, NEW t \in working, emitConversation(t) \/ Respond(t) PROVE CallsInv'
<1>1. t \in Tasks BY DEF CallsInv, CallsTyped
<1>2. PICK n : n = [t EXCEPT !.step = "respond"] BY Zenon
<1>3. n \in Tasks /\ n.step = "respond" /\ n.conversation = t.conversation /\ n.state = t.state
  BY Zenon, <1>1, <1>2 DEF Tasks
<1>4. UNCHANGED <<load, members, leases, revision, lapsed, devices>>
  BY Zenon DEF emitConversation, Respond, keys
<1>5. CASE emitConversation(t)
  <2> DEFINE who == members[t.conversation] \cup t.also
  <2>1. t.step = "emit" /\ Tell(who, t.conversation, t.state) /\ working' = (working \ {t}) \cup {n}
    BY Zenon, <1>2, <1>5 DEF emitConversation
  <2>2. Tells(t, who, n) BY Zenon, <1>3, <1>4, <2>1 DEF Tells
  <2> QED BY Zenon, <1>3, <2>1, <2>2, CallsTold DEF Snapshot
<1>6. CASE Respond(t)
  <2>1. t.step = "respond" /\ Tell({t.caller}, t.conversation, t.state) /\ working' = working \ {t}
    BY Zenon, <1>6 DEF Respond
  <2>2. Tells(t, {t.caller}, n) BY Zenon, <1>3, <1>4, <2>1 DEF Tells
  <2> QED BY Zenon, <1>3, <2>1, <2>2, CallsTold DEF Snapshot
<1> QED BY Zenon, <1>5, <1>6

LEMMA CallsLapse == ASSUME CallsInv, NEW u \in Users, Lapse(u) PROVE CallsInv'
<1>1. PICK age \in {"edge", "late"} : leases' = [leases EXCEPT ![u].age = age]
  BY Zenon DEF Lapse
<1>2. /\ UNCHANGED <<load, members, revision, working, shown, devices>>
      /\ lapsed' = lapsed \cup {<<u, leases[u].session>>} /\ leases[u].age \in {"fresh", "edge"}
  BY DEF Lapse, keys
<1>3. CallsTyped BY Zenon DEF CallsInv
<1>4. leases[u] \in LeaseRows BY Zenon, <1>2, <1>3, NoLeaseIsNone DEF CallsTyped
<1>5. PICK l : l = [leases[u] EXCEPT !.age = age] BY Zenon
<1>6. /\ l \in LeaseRows /\ l.conversation = leases[u].conversation
      /\ l.session = leases[u].session /\ l.device = leases[u].device
  BY Zenon, <1>4, <1>5 DEF LeaseRows, Ages
<1>7. leases' = [leases EXCEPT ![u] = l] BY Zenon, <1>1, <1>3, <1>5 DEF CallsTyped
<1>8. CallsTyped' BY Zenon, <1>2, <1>3, <1>6, <1>7 DEF CallsTyped
<1>9. l # NoLease /\ leases[u] # NoLease BY Zenon, <1>4, <1>6, NoLeaseIsNone
<1>10. LeasesRight'
  <2>1. LeasesRight BY Zenon DEF CallsInv
  <2> SUFFICES ASSUME NEW v \in Users, leases'[v] # NoLease
               PROVE  /\ v \in members[leases'[v].conversation]
                      /\ leases'[v].age # "fresh" => <<v, leases'[v].session>> \in lapsed'
    BY Zenon, <1>2 DEF LeasesRight
  <2>2. CASE v = u BY Zenon, <1>2, <1>3, <1>6, <1>7, <1>9, <2>1, <2>2 DEF LeasesRight, CallsTyped
  <2>3. CASE v # u BY Zenon, <1>2, <1>3, <1>7, <2>1, <2>3 DEF LeasesRight, CallsTyped
  <2> QED BY Zenon, <2>2, <2>3
<1>11. ASSUME NEW c \in Conversations PROVE CallRight(c)'
  <2>1. Lease(c)' = Lease(c) BY Zenon, <1>3, <1>6, <1>7, <1>9 DEF Lease, CallsTyped
  <2>2. \A v \in Users : leases'[v].session = leases[v].session BY Zenon, <1>3, <1>6, <1>7 DEF CallsTyped
  <2>3. Holders(c)' = Holders(c) BY Zenon, <2>1, <2>2 DEF Holders, Lease
  <2>4. Adds({}) BY Zenon, <1>2 DEF Adds
  <2>5. revision'[c] >= revision[c] BY <1>2, <1>3 DEF CallsTyped
  <2>6. CallRight(c) BY Zenon DEF CallsInv
  <2> QED BY Zenon, <1>2, <1>3, <1>8, <2>3, <2>4, <2>5, <2>6, CallKept
<1>12. RevokedDeviceHangsUp'
  <2>1. \A v \in Users : leases'[v].device = leases[v].device BY Zenon, <1>3, <1>6, <1>7 DEF CallsTyped
  <2> QED BY <1>2, <2>1 DEF CallsInv, RevokedDeviceHangsUp, Active
<1> QED BY Zenon, <1>8, <1>10, <1>11, <1>12 DEF CallsInv

(* The request of u about conversation c drops the lease of u, or none, and *)
(* its task t will tell everybody; the check of devices may be done with.   *)
Drops(u, gone, c, t) ==
    /\ DropLeases(gone) /\ (gone # {} => u \in Lease(c))
    /\ \A x \in working : x.step # "revalidate" => x \in working'
    /\ \A x \in working : x.step = "revalidate" =>
         \/ x \in working'
         \/ x.caller = u /\ (gone = {u} \/ leases[u].device = NoDevice \/ Active(u, leases[u].device))
    /\ working' \subseteq working \cup {t} /\ (gone # {} => t \in working')
    /\ UNCHANGED <<load, shown, lapsed, devices>>
    /\ \/ members' = members
       \/ members' = [members EXCEPT ![c] = @ \ {u}] /\ (gone = {} => u \notin Lease(c))

LEMMA CallsDrop ==
    ASSUME CallsInv, NEW u \in Users, NEW gone, gone = {} \/ gone = {u}, NEW c \in Conversations,
           NEW t \in Tasks, t.step = "read" /\ t.conversation = c /\ t.emits, Drops(u, gone, c, t)
    PROVE  CallsInv'
<1>1. CallsTyped /\ LeasesRight /\ RevokedDeviceHangsUp BY Zenon DEF CallsInv
<1>2. Adds({t}) BY Zenon DEF Adds, Drops
<1>3. UNCHANGED <<load, shown, lapsed, devices>> BY Zenon DEF Drops
<1>4. /\ gone = {} => leases' = leases /\ revision' = revision
      /\ gone = {u} => /\ leases' = [leases EXCEPT ![u] = NoLease]
                       /\ revision' = [revision EXCEPT ![c] = @ + 1]
                       /\ \A k \in Conversations \ {c} : Holders(k)' = Holders(k)
  <2>1. DropLeases(gone) /\ (gone = {u} => u \in Lease(c)) BY Zenon DEF Drops
  <2> QED BY Zenon, <1>1, <2>1, NothingDropped, OneDropped
<1>5. \A k \in Conversations : revision'[k] \in Nat /\ revision'[k] >= revision[k]
                               /\ (gone = {u} /\ k = c => revision'[k] > revision[k])
  BY <1>1, <1>4 DEF CallsTyped
<1>6. CallsTyped'
  <2>1. members' \in [Conversations -> SUBSET Users] BY <1>1 DEF CallsTyped, Drops
  <2>2. leases' \in [Users -> LeaseRows \cup {NoLease}] BY Zenon, <1>1, <1>4 DEF CallsTyped
  <2>3. revision' \in [Conversations -> Nat] BY ZenonT(40), <1>1, <1>4, <1>5 DEF CallsTyped
  <2>4. working' \subseteq Tasks /\ \A x \in working' : x.step # "revalidate" => x.conversation \in Conversations
    BY <1>1 DEF CallsTyped, Drops
  <2> QED BY ZenonT(40), <1>1, <1>3, <2>1, <2>2, <2>3, <2>4 DEF CallsTyped
<1>7. \A v \in Users : IF v = u /\ gone = {u} THEN leases'[v] = NoLease ELSE leases'[v] = leases[v]
  BY Zenon, <1>1, <1>4 DEF CallsTyped
<1>8. LeasesRight'
  <2> SUFFICES ASSUME NEW v \in Users, leases'[v] # NoLease
               PROVE  v \in members'[leases'[v].conversation]
    BY SMTT(30), <1>1, <1>3, <1>7 DEF LeasesRight
  <2>1. leases'[v] = leases[v] /\ v \in members[leases[v].conversation] BY Zenon, <1>1, <1>7 DEF LeasesRight
  <2>2. CASE members' = members BY Zenon, <2>1, <2>2
  <2>3. CASE members' = [members EXCEPT ![c] = @ \ {u}] /\ (gone = {} => u \notin Lease(c))
    <3>1. leases[v].conversation \in Conversations BY Zenon, <1>1, <2>1 DEF CallsTyped, LeaseRows
    <3>2. ~(v = u /\ leases[v].conversation = c) BY Zenon, <1>7, <2>1, <2>3 DEF Lease
    <3> QED BY Zenon, <1>1, <2>1, <2>3, <3>1, <3>2 DEF CallsTyped
  <2> QED BY Zenon, <2>2, <2>3 DEF Drops
<1>9. ASSUME NEW k \in Conversations PROVE CallRight(k)'
  <2>1. CallRight(k) BY Zenon DEF CallsInv
  <2>2. members'[k] \subseteq members[k] BY <1>1 DEF CallsTyped, Drops
  <2>3. CASE gone = {u} /\ k = c
    <3>1. \E x \in working' : x.conversation = k /\ x.step = "read" /\ x.emits BY Zenon, <2>3 DEF Drops
    <3> QED BY ZenonT(40), <1>1, <1>2, <1>3, <1>5, <1>6, <2>1, <2>3, <3>1, CallChanged
  <2>4. CASE gone = {} \/ k # c
    <3>1. Holders(k)' = Holders(k) BY <1>4, <2>4 DEF Holders, Lease
    <3> QED BY ZenonT(40), <1>1, <1>2, <1>3, <1>5, <1>6, <2>1, <2>2, <3>1, CallKept
  <2> QED BY Zenon, <2>3, <2>4
<1>10. RevokedDeviceHangsUp'
  <2> SUFFICES ASSUME NEW v \in Users
               PROVE  \/ leases'[v].device = NoDevice \/ Active(v, leases'[v].device)
                      \/ \E k \in working' : k.step = "revalidate" /\ k.caller = v
    BY Zenon, <1>3 DEF RevokedDeviceHangsUp, Active
  <2>1. CASE leases'[v] = NoLease BY ZenonT(40), <2>1, NoLeaseIsNone DEF NoDevice
  <2>2. CASE leases'[v] = leases[v] /\ leases'[v] # NoLease
    <3>1. v = u => gone # {u} BY Zenon, <1>7, <2>2
    <3> QED BY SMTT(30), <1>1, <2>2, <3>1 DEF RevokedDeviceHangsUp, Drops
  <2> QED BY Zenon, <1>7, <2>1, <2>2
<1> QED BY Zenon, <1>6, <1>8, <1>9, <1>10 DEF CallsInv

LEMMA CallsLeave ==
    ASSUME CallsInv, NEW u \in Users, NEW c \in Conversations, NEW s,
           leaveConversation(u, c) \/ leaveCall(u, c, s)
    PROVE  CallsInv'
<1>1. ASSUME NEW also \in SUBSET Users
      PROVE  LET t == Task(c, u, TRUE, also)
             IN  t \in Tasks /\ t.step = "read" /\ t.conversation = c /\ t.emits
  BY Zenon, NothingTyped DEF Task, Tasks
<1>2. CASE leaveConversation(u, c)
  <2> DEFINE t == Task(c, u, TRUE, {u})
             gone == IF u \in Lease(c) THEN {u} ELSE {}
  <2>1. /\ members' = [members EXCEPT ![c] = @ \ {u}] /\ DropLeases(gone) /\ working' = working \cup {t}
        /\ UNCHANGED <<load, shown, lapsed, devices>>
    BY Zenon, <1>2 DEF leaveConversation, Request, keys
  <2>2. (gone = {} \/ gone = {u}) /\ (gone # {} <=> u \in Lease(c)) OBVIOUS
  <2>3. t \in Tasks /\ t.step = "read" /\ t.conversation = c /\ t.emits BY Zenon, <1>1
  <2> HIDE DEF t, gone
  <2>4. Drops(u, gone, c, t) BY Zenon, <2>1, <2>2 DEF Drops
  <2> QED BY Zenon, <2>2, <2>3, <2>4, CallsDrop
<1>3. CASE leaveCall(u, c, s)
  <2> DEFINE t == Task(c, u, TRUE, {})
             gone == IF u \in Lease(c) /\ leases[u].session = s THEN {u} ELSE {}
  <2>1. /\ members' = members /\ DropLeases(gone) /\ working' = working \cup {t}
        /\ UNCHANGED <<load, shown, lapsed, devices>>
    BY Zenon, <1>3 DEF leaveCall, Request, keys
  <2>2. (gone = {} \/ gone = {u}) /\ (gone # {} => u \in Lease(c)) OBVIOUS
  <2>3. t \in Tasks /\ t.step = "read" /\ t.conversation = c /\ t.emits BY Zenon, <1>1
  <2> HIDE DEF t, gone
  <2>4. Drops(u, gone, c, t) BY Zenon, <2>1, <2>2 DEF Drops
  <2> QED BY Zenon, <2>2, <2>3, <2>4, CallsDrop
<1> QED BY Zenon, <1>2, <1>3

LEMMA CallsRevalidate ==
    ASSUME CallsInv, NEW t \in working, RevokeInvalidCallDevices(t) PROVE CallsInv'
<1> DEFINE u == t.caller
           gone == {v \in {u} : leases[v].device # NoDevice /\ ~Active(v, leases[v].device)}
<1>1. /\ t.step = "revalidate" /\ DropLeases(gone)
      /\ working' = (working \ {t}) \cup {Task(leases[v].conversation, v, TRUE, {}) : v \in gone}
      /\ UNCHANGED <<load, members, shown, lapsed, devices>>
  BY Zenon DEF RevokeInvalidCallDevices, keys
<1>2. u \in Users BY Zenon DEF CallsInv, CallsTyped, Tasks
<1>3. (gone = {} \/ gone = {u}) /\ (gone = {} <=> leases[u].device = NoDevice \/ Active(u, leases[u].device)) OBVIOUS
<1>4. CASE gone = {}
  <2>1. /\ leases' = leases /\ revision' = revision /\ working' = working \ {t}
    BY Zenon, <1>1, <1>4, NothingDropped DEF CallsInv
  <2>2. Adds({}) BY Zenon, <1>1, <2>1 DEF Adds
  <2>3. RevokedDeviceHangsUp' BY Zenon, <1>1, <1>3, <1>4, <2>1 DEF CallsInv, RevokedDeviceHangsUp, Active
  <2>4. DOMAIN devices' = Users BY Zenon, <1>1 DEF CallsInv, CallsTyped
  <2> QED BY ZenonT(40), <1>1, <2>1, <2>2, <2>3, <2>4, CallsUntouched
<1>5. CASE gone = {u}
  <2> DEFINE c == leases[u].conversation
             n == Task(c, u, TRUE, {})
  <2>1. leases[u] # NoLease BY Zenon, <1>3, <1>5, NoLeaseIsNone DEF NoDevice
  <2>2. c \in Conversations BY Zenon, <1>2, <2>1 DEF CallsInv, CallsTyped, LeaseRows
  <2>3. u \in Lease(c) BY Zenon, <1>2, <2>1 DEF Lease
  <2>4. n \in Tasks /\ n.step = "read" /\ n.conversation = c /\ n.emits
    BY Zenon, <1>2, <2>2, NothingTyped DEF Task, Tasks
  <2>5. working' = (working \ {t}) \cup {n} BY Zenon, <1>1, <1>5
  <2> HIDE DEF n, gone
  <2>6. Drops(u, gone, c, n) BY Zenon, <1>1, <1>5, <2>3, <2>5 DEF Drops
  <2> QED BY ZenonT(40), <1>2, <1>5, <2>2, <2>4, <2>6, CallsDrop
<1> QED BY Zenon, <1>3, <1>4, <1>5

LEMMA CallsCreate ==
    ASSUME CallsInv, NEW u \in Users, NEW others \in SUBSET Users, createConversation(u, others)
    PROVE  CallsInv'
<1>1. CallsTyped /\ LeasesRight BY DEF CallsInv
<1>2. PICK c \in IF Cardinality(others) = 1 THEN {others \cup {u}} ELSE {g \in Groups : members[g] = {}} :
         /\ members' = [members EXCEPT ![c] = @ \cup others \cup {u}]
         /\ working' = working \cup {Task(c, v, FALSE, {}) : v \in (others \cup {u}) \ members[c]}
  BY Zenon DEF createConversation
<1>3. UNCHANGED <<load, leases, revision, shown, lapsed, devices>>
  BY Zenon DEF createConversation, Request, keys
<1>4. c \in Conversations
  <2>1. CASE Cardinality(others) = 1
    <3>1. IsFiniteSet(others) BY Zenon, CallsAssumption, FS_Subset
    <3>2. PICK v : others = {v} BY Zenon, <2>1, <3>1, FS_Singleton
    <3> QED BY SMTT(30), <1>2, <2>1, <3>2 DEF Conversations, Direct
  <2>2. CASE Cardinality(others) # 1 BY <1>2, <2>2 DEF Conversations
  <2> QED BY SMTT(30), <2>1, <2>2
<1> DEFINE new == (others \cup {u}) \ members[c]
           task(v) == Task(c, v, FALSE, {})
           tasks == {task(v) : v \in new}
<1>5. \A v \in new : task(v) \in Tasks /\ task(v).step = "read" /\ task(v).conversation = c /\ task(v).caller = v
  BY Zenon, <1>4, NothingTyped DEF Task, Tasks
<1>6. /\ tasks \subseteq Tasks /\ (\A t \in tasks : t.step = "read" /\ t.conversation = c)
      /\ \A v \in new : \E t \in tasks : t.conversation = c /\ t.step = "read" /\ t.caller = v
  <2> HIDE DEF new, task
  <2> QED BY <1>5
<1>7. working' = working \cup tasks /\ (\A k \in Conversations : members'[k] \ members[k] = IF k = c THEN new ELSE {})
  BY Zenon, <1>1, <1>2, <1>4 DEF CallsTyped
<1>8. members' \in [Conversations -> SUBSET Users] /\ \A k \in Conversations : members[k] \subseteq members'[k]
  BY Zenon, <1>1, <1>2, <1>4 DEF CallsTyped
<1> HIDE DEF tasks, new
<1>9. Adds(tasks) BY Zenon, <1>6, <1>7 DEF Adds
<1>10. CallsTyped' BY ZenonT(40), <1>1, <1>3, <1>4, <1>6, <1>7, <1>8 DEF CallsTyped
<1>11. LeasesRight'
  <2>1. \A v \in Users : leases[v] # NoLease => leases[v].conversation \in Conversations
    BY Zenon, <1>1 DEF CallsTyped, LeaseRows
  <2> QED BY Zenon, <1>1, <1>3, <1>8, <2>1 DEF LeasesRight
<1>12. ASSUME NEW k \in Conversations PROVE CallRight(k)'
  <2>1. Holders(k)' = Holders(k) BY Zenon, <1>3 DEF Holders, Lease
  <2>2. revision'[k] >= revision[k] BY <1>1, <1>3 DEF CallsTyped
  <2>3. CallRight(k) BY Zenon DEF CallsInv
  <2>4. \A v \in members'[k] \ members[k] :
          \E t \in working' : t.conversation = k /\ t.step = "read" /\ t.caller = v
    BY <1>6, <1>7
  <2> QED BY ZenonT(40), <1>1, <1>3, <1>9, <1>10, <2>1, <2>2, <2>3, <2>4, CallKept
<1>13. RevokedDeviceHangsUp' BY Zenon, <1>3, <1>7, DevicesKept DEF CallsInv
<1> QED BY Zenon, <1>10, <1>11, <1>12, <1>13 DEF CallsInv

LEMMA CallsJoin ==
    ASSUME CallsInv, NEW u \in Users, NEW c \in Conversations, NEW s \in Sessions,
           NEW d \in Devices \cup {"none"}, NEW replace, joinCall(u, c, s, d, replace)
    PROVE  CallsInv'
<1> DEFINE late     == {v \in Users : leases[v].age = "late"}
           previous == IF u \in Lease(c) \ late THEN leases[u] ELSE NoLease
           mine     == [conversation |-> c, session |-> s, device |-> d, age |-> "fresh"]
           emits    == previous.session # s \/ previous.device # d
           t        == Task(c, u, emits, {})
           counted  == u \notin Lease(c) \/ u \in late \/ leases[u].session # s
<1>1. CallsTyped /\ LeasesRight /\ RevokedDeviceHangsUp BY DEF CallsInv
<1>2. /\ u \in members[c] /\ DeviceAccepted(u, d)
      /\ u \notin UNION {Lease(k) \ late : k \in Conversations \ {c}}
      /\ working' = working \cup {t}
      /\ UNCHANGED <<load, members, shown, lapsed, devices>>
  BY Zenon DEF joinCall, canSendTransaction, conversationAccess, Request, keys
<1>3. leases' = [v \in Users |-> IF v = u THEN mine ELSE IF v \in late THEN NoLease ELSE leases[v]]
  BY Zenon DEF joinCall, Upsert
<1>4. \A k \in Conversations :
         revision'[k] = revision[k] + Cardinality(late \cap Lease(k)) + (IF k = c /\ counted THEN 1 ELSE 0)
  BY Zenon DEF joinCall, Upsert
<1>5. revision' = [k \in Conversations |-> revision'[k]] BY Zenon DEF joinCall, Upsert
<1>6. t \in Tasks /\ t.step = "read" /\ t.conversation = c /\ t.emits = emits
  BY Zenon, NothingTyped DEF Task, Tasks
<1>7. counted => emits BY Zenon, CallsAssumption DEF NoLease
<1>8. mine \in LeaseRows BY Zenon DEF LeaseRows, Ages
<1>9. mine # NoLease BY Zenon, <1>8, NoLeaseIsNone
<1>10. \A v \in late : leases[v] # NoLease /\ <<v, leases[v].session>> \in lapsed
  BY Zenon, <1>1, NoLeaseIsNone DEF LeasesRight
<1>11. mine.conversation = c /\ mine.session = s /\ mine.device = d /\ mine.age = "fresh" OBVIOUS
<1>12. \A k \in Conversations \ {c} : u \in Lease(k) => u \in late BY <1>2
<1>13. \A k \in Conversations : Cardinality(late \cap Lease(k)) \in Nat
  <2>1. \A k : IsFiniteSet(late \cap Lease(k)) BY ZenonT(40), CallsAssumption, FS_Subset
  <2> QED BY Zenon, <2>1, FS_CardinalityType
<1> HIDE DEF late, mine, emits, t, previous
<1>14. /\ \A k \in Conversations : revision'[k] \in Nat /\ revision'[k] >= revision[k]
       /\ counted => revision'[c] > revision[c]
  <2> DEFINE purged(k) == Cardinality(late \cap Lease(k))
             more(k) == IF k = c /\ counted THEN 1 ELSE 0
  <2>1. \A k \in Conversations : revision'[k] = revision[k] + purged(k) + more(k) BY <1>4
  <2>2. \A k \in Conversations : purged(k) \in Nat /\ revision[k] \in Nat BY Zenon, <1>1, <1>13 DEF CallsTyped
  <2>3. (\A k \in Conversations : more(k) \in Nat) /\ (counted => more(c) = 1) OBVIOUS
  <2> HIDE DEF purged, more, counted
  <2> QED BY SMTT(30), <2>1, <2>2, <2>3
<1>16. Adds({t}) BY Zenon, <1>2, <1>6 DEF Adds
<1>17. CallsTyped'
  <2>1. leases' \in [Users -> LeaseRows \cup {NoLease}] BY Zenon, <1>1, <1>3, <1>8 DEF CallsTyped
  <2>2. revision' \in [Conversations -> Nat] BY Zenon, <1>5, <1>14
  <2> QED BY Zenon, <1>1, <1>2, <1>6, <2>1, <2>2 DEF CallsTyped
<1>18. \A v \in Users : leases'[v] = IF v = u THEN mine ELSE IF v \in late THEN NoLease ELSE leases[v]
  BY Zenon, <1>3
<1>19. LeasesRight' BY Zenon, <1>1, <1>2, <1>11, <1>18 DEF LeasesRight
<1>20. ASSUME NEW k \in Conversations PROVE CallRight(k)'
  <2>1. CallRight(k) BY Zenon DEF CallsInv
  <2>2. CASE k = c /\ counted
    <3>1. \E x \in working' : x.conversation = k /\ x.step = "read" /\ x.emits BY Zenon, <1>2, <1>6, <1>7, <2>2
    <3> QED BY ZenonT(40), <1>1, <1>2, <1>14, <1>16, <1>17, <2>1, <2>2, <3>1, CallChanged
  <2>3. CASE k # c \/ ~counted
    <3>1. \A v \in Users : v \in Lease(k)' => v \in Lease(k) /\ leases'[v].session = leases[v].session
      BY Zenon, <1>9, <1>11, <1>18, <2>3 DEF Lease
    <3>2. \A v \in Lease(k) : v \in late \/ (v \in Lease(k)' /\ leases'[v].session = leases[v].session)
      BY Zenon, <1>9, <1>11, <1>12, <1>18, <2>3 DEF Lease
    <3>3. Holders(k)' \subseteq Holders(k) BY Zenon, <3>1 DEF Holders, Lease
    <3>4. Holders(k) \subseteq Holders(k)' \cup lapsed BY Zenon, <1>10, <3>2 DEF Holders
    <3> QED BY ZenonT(40), <1>1, <1>2, <1>14, <1>16, <1>17, <2>1, <3>3, <3>4, CallKept
  <2> QED BY Zenon, <2>2, <2>3
<1>21. RevokedDeviceHangsUp'
  <2> SUFFICES ASSUME NEW v \in Users
               PROVE  \/ leases'[v].device = NoDevice \/ Active(v, leases'[v].device)
                      \/ \E x \in working' : x.step = "revalidate" /\ x.caller = v
    BY Zenon, <1>2 DEF RevokedDeviceHangsUp, Active
  <2>1. CASE v = u BY Zenon, <1>2, <1>11, <1>18, <2>1 DEF DeviceAccepted
  <2>2. CASE v # u BY Zenon, <1>1, <1>2, <1>18, <2>2, NoLeaseIsNone DEF RevokedDeviceHangsUp, NoDevice
  <2> QED BY Zenon, <2>1, <2>2
<1> QED BY Zenon, <1>17, <1>19, <1>20, <1>21 DEF CallsInv

LEMMA CallsNext == CallsInv /\ [Next]_vars => CallsInv'
<1> SUFFICES ASSUME CallsInv, [Next]_vars PROVE CallsInv' OBVIOUS
<1>1. load \in Loads BY Zenon DEF CallsInv, CallsTyped
<1>2. /\ load.people \subseteq Users /\ load.open \subseteq Conversations
      /\ load.sessions \subseteq Sessions /\ load.devices \subseteq Devices \cup {"none"}
  BY Zenon, <1>1, CallsAssumption
<1>3. ASSUME NEW u \in load.people, Calls(u) PROVE CallsInv'
  <2>1. PICK c \in load.open :
          \/ \E s \in load.sessions, d \in load.devices, replace \in BOOLEAN : joinCall(u, c, s, d, replace)
          \/ \E s \in load.sessions : leaveCall(u, c, s)
          \/ callState(u, c)
          \/ leaveConversation(u, c)
    BY Zenon, <1>3 DEF Calls
  <2> QED BY Zenon, <1>2, <2>1, CallsJoin, CallsLeave, CallsState
<1>4. CASE UNCHANGED vars
  <2>1. UNCHANGED <<load, members, leases, revision, working, shown, lapsed, devices>> BY Zenon, <1>4 DEF vars
  <2>2. Adds({}) BY Zenon, <2>1 DEF Adds
  <2>3. RevokedDeviceHangsUp' BY Zenon, <2>1, DevicesKept DEF CallsInv
  <2>4. DOMAIN devices' = Users BY <2>1 DEF CallsInv, CallsTyped
  <2> QED BY ZenonT(40), <2>1, <2>2, <2>3, <2>4, CallsUntouched
<1>5. ASSUME NEW u \in load.people, NEW others \in SUBSET load.people, createConversation(u, others)
      PROVE  CallsInv'
  BY Zenon, <1>2, <1>5, CallsCreate
<1> QED BY ZenonT(40), <1>2, <1>3, <1>4, <1>5, CallsContacts, CallsDevices, CallsLapse, CallsRead, CallsEmit, CallsRevalidate
     DEF Next

LEMMA CallsInvShows == CallsInv => CallShown
<1> SUFFICES ASSUME CallsInv, NEW c \in Conversations, Settled(c), NEW u \in members[c]
             PROVE  LET holders == {<<v, leases[v].session>> : v \in Lease(c)}
                    IN  /\ Seen(u, c) \subseteq holders \cup lapsed
                        /\ holders \subseteq Seen(u, c) \cup lapsed
                        /\ \A m \in shown[u][c].members : <<m.user, m.session>> \in lapsed \/ m.user \in members[c]
  BY Zenon DEF CallShown
<1>1. CallsTyped /\ LeasesRight /\ CallRight(c) BY Zenon DEF CallsInv
<1>2. PICK b \in Int : Since(c, b) BY Zenon, <1>1 DEF CallRight
<1>3. u \in Users BY Zenon, <1>1 DEF CallsTyped
<1>4. ~\E t \in working : t.conversation = c /\ Covers(t, u, b) BY DEF Settled, Covers
<1>5. Accurate(c, shown[u][c]) BY ZenonT(40), <1>2, <1>3, <1>4 DEF Since
<1>6. Seen(u, c) = Named(shown[u][c]) BY DEF Seen, Named
<1>7. \A v \in Lease(c) : v \in members[c] BY Zenon, <1>1 DEF LeasesRight, Lease
<1>8. ASSUME NEW m \in shown[u][c].members
      PROVE  <<m.user, m.session>> \in lapsed \/ m.user \in members[c]
  <2>1. <<m.user, m.session>> \in Holders(c) \cup lapsed BY <1>5 DEF Accurate, Named
  <2> QED BY Zenon, <1>7, <2>1 DEF Holders
<1> QED BY Zenon, <1>5, <1>6, <1>8 DEF Accurate, Holders

(* Joins, leaves, revocations and responses in any order: what clients show *)
(* of a settled call is who is in it, and no lease keeps a revoked device   *)
(* (joinCall, leaveCall, leaveConversation, emitConversation,               *)
(* RevokeInvalidCallDevices).                                               *)
THEOREM CallsShownTruly == Spec => []CallsTrue
<1>1. CallsInv => CallsTrue BY Zenon, CallsInvShows DEF CallsTrue, CallsInv
<1> QED BY <1>1, CallsInit, CallsNext, PTL DEF Spec


-----------------------------------------------------------------------------
(* Scheduled messages.  The argument is about the stable key: a message    *)
(* made for a job leaves the key behind, which only deleting a saved       *)
(* message takes away again; whoever finds the key knows of the message,   *)
(* because nobody else uses it; and while the worker is at a job, workMu   *)
(* keeps the job as it is.                                                 *)

KeyRow(d, j) == [destination |-> d, key |-> Schedules!scheduleKey(j)]

JobRows == [status : {"pending", "sent", "failed", "cancelled"}, destination : Schedules!Destinations,
            text : Texts, attempts : Nat, ready : BOOLEAN]

Works == [at : {"idle", "next", "mark"}, batch : SUBSET Jobs, job : Jobs \cup {0},
          outcome : {"none", "sent", "failed", "retry"}]

(* What the variables hold. *)
JobsTyped ==
    /\ jobs \in [Jobs -> JobRows \cup {Schedules!NoJob}]
    /\ made \in [Jobs -> [Schedules!Destinations -> Nat]]
    /\ worker \in Works

(* A message made outside the saved messages has its key, and was made once. *)
KeyedOnce ==
    \A j \in Jobs, d \in Channels \cup Chats :
      made[j][d] <= 1 /\ (made[j][d] > 0 => KeyRow(d, j) \in sent)

(* A key of a job stands for a message that was made. *)
KeyMeansMade == \A j \in Jobs, d \in Schedules!Destinations : KeyRow(d, j) \in sent => made[j][d] > 0

(* While the worker runs, the jobs it is still to do are pending and the one *)
(* it is about to mark as sent has its message.                              *)
WorkHeld ==
    /\ \A j \in worker.batch : Schedules!Pending(j)
    /\ worker.at = "mark" =>
         /\ worker.job \in Jobs \ worker.batch
         /\ Schedules!Pending(worker.job)
         /\ worker.outcome # "none"
         /\ worker.outcome = "sent" => made[worker.job][jobs[worker.job].destination] > 0

SentDelivered == Schedules!SentDelivered

JobsInv == JobsTyped /\ KeyedOnce /\ KeyMeansMade /\ WorkHeld /\ SentDelivered

LEMMA NoJobIsNone == Schedules!NoJob.status = "none" BY DEF Schedules!NoJob

LEMMA JobsInit == Schedules!Init => JobsInv
<1> SUFFICES ASSUME Schedules!Init PROVE JobsInv OBVIOUS
<1>1. JobsTyped BY Zenon DEF Schedules!Init, JobsTyped, Works, Schedules!Idle
<1>2. KeyedOnce BY DEF Schedules!Init, KeyedOnce, Schedules!Destinations
<1>3. KeyMeansMade BY Zenon DEF Schedules!Init, KeyMeansMade
<1>4. WorkHeld BY Zenon DEF Schedules!Init, WorkHeld, Schedules!Idle
<1>5. SentDelivered BY Zenon, NoJobIsNone DEF Schedules!Init, SentDelivered, Schedules!SentDelivered
<1> QED BY ZenonT(40), <1>1, <1>2, <1>3, <1>4, <1>5 DEF JobsInv

(* Where the message, the keys and the worker stay, only the job changed    *)
(* matters.                                                                 *)
LEMMA JobChanges ==
    ASSUME JobsInv, NEW j \in Jobs, NEW row \in JobRows, jobs' = [jobs EXCEPT ![j] = row],
           UNCHANGED <<sent, made>>, worker' \in Works,
           row.status = "sent" => made[j][row.destination] > 0,
           WorkHeld'
    PROVE  JobsInv'
<1>1. jobs \in [Jobs -> JobRows \cup {Schedules!NoJob}] BY Zenon DEF JobsInv, JobsTyped
<1>2. JobsTyped' BY Zenon, <1>1 DEF JobsInv, JobsTyped
<1>3. KeyedOnce' /\ KeyMeansMade' BY Zenon DEF JobsInv, KeyedOnce, KeyMeansMade
<1>4. SentDelivered' BY Zenon, <1>1 DEF JobsInv, SentDelivered, Schedules!SentDelivered
<1> QED BY Zenon, <1>2, <1>3, <1>4 DEF JobsInv

(* A job that is not NoJob is a row, and keeps its other fields. *)
LEMMA JobUpdated ==
    ASSUME JobsTyped, NEW j \in Jobs, jobs[j].status # "none",
           NEW s \in {"pending", "sent", "failed", "cancelled"}
    PROVE  /\ jobs[j] \in JobRows
           /\ [jobs[j] EXCEPT !.status = s] \in JobRows
           /\ [jobs[j] EXCEPT !.status = s].status = s
           /\ [jobs[j] EXCEPT !.status = s].destination = jobs[j].destination
<1>1. jobs[j] \in JobRows BY Zenon, NoJobIsNone DEF JobsTyped
<1> QED BY Zenon, <1>1 DEF JobRows

(* The author's requests: only a job that is not at work changes, and only  *)
(* the keys of clients appear and those of saved messages disappear.        *)
LEMMA JobsRequests ==
    ASSUME JobsInv, Schedules!Requests
    PROVE  JobsInv'
<1>1. ASSUME NEW j \in Jobs, Schedules!cancelSchedule(j) PROVE JobsInv'
  <2>1. worker = Schedules!Idle /\ jobs[j].status \in {"pending", "failed"}
        /\ jobs' = [jobs EXCEPT ![j] = [jobs[j] EXCEPT !.status = "cancelled"]]
        /\ UNCHANGED <<sent, made, worker>>
    BY Zenon, <1>1 DEF Schedules!cancelSchedule, Schedules!Edit, Schedules!Editable
  <2>2. [jobs[j] EXCEPT !.status = "cancelled"] \in JobRows
        /\ [jobs[j] EXCEPT !.status = "cancelled"].status = "cancelled"
    BY Zenon, <2>1, JobUpdated DEF JobsInv
  <2>3. WorkHeld' BY Zenon, <2>1 DEF WorkHeld, Schedules!Idle
  <2>4. worker' \in Works BY Zenon, <2>1 DEF JobsInv, JobsTyped
  <2> QED BY Zenon, <2>1, <2>2, <2>3, <2>4, JobChanges
<1>2. ASSUME NEW j \in Jobs, NEW d \in Schedules!Destinations, NEW text \in Texts,
             Schedules!schedule(j, d, text) \/ Schedules!reschedule(j, d, text)
      PROVE JobsInv'
  <2>1. worker = Schedules!Idle /\ jobs' = [jobs EXCEPT ![j] = Schedules!Fresh(d, text)]
        /\ UNCHANGED <<sent, made, worker>>
    BY Zenon, <1>2 DEF Schedules!schedule, Schedules!reschedule, Schedules!Edit
  <2>2. Schedules!Fresh(d, text) \in JobRows /\ Schedules!Fresh(d, text).status # "sent"
    BY Zenon DEF Schedules!Fresh, JobRows
  <2>3. WorkHeld' BY Zenon, <2>1 DEF WorkHeld, Schedules!Idle
  <2>4. worker' \in Works BY Zenon, <2>1 DEF JobsInv, JobsTyped
  <2> QED BY ZenonT(40), <2>1, <2>2, <2>3, <2>4, JobChanges
<1>3. ASSUME NEW d \in Schedules!Destinations, NEW key \in ClientKeys, NEW text \in Texts,
             Schedules!sendConversation(d, key, text)
      PROVE JobsInv'
  <2>1. UNCHANGED <<jobs, made, worker>> /\ sent \subseteq sent'
        /\ sent' \subseteq sent \cup {[destination |-> d, key |-> key]}
    BY Zenon, <1>3 DEF Schedules!sendConversation, Schedules!createDirect
  <2>2. \A j \in Jobs, x \in Schedules!Destinations : KeyRow(x, j) \in sent' => KeyRow(x, j) \in sent
    BY Zenon, <2>1, SchedulesAssumption DEF KeyRow, Schedules!scheduleKey
  <2>3. JobsTyped' /\ WorkHeld' /\ SentDelivered'
    BY Zenon, <2>1 DEF JobsInv, JobsTyped, WorkHeld, SentDelivered, Schedules!SentDelivered, Schedules!Pending
  <2> QED BY Zenon, <2>1, <2>2, <2>3 DEF JobsInv, KeyedOnce, KeyMeansMade
<1>4. ASSUME NEW m \in stored, Schedules!deleteSaved(m) PROVE JobsInv'
  <2>1. UNCHANGED <<jobs, made, worker>> /\ sent' = sent \ {[destination |-> Saved, key |-> m.key]}
    BY Zenon, <1>4 DEF Schedules!deleteSaved
  <2>2. \A j \in Jobs, d \in Channels \cup Chats : KeyRow(d, j) \in sent => KeyRow(d, j) \in sent'
    BY Zenon, <2>1, SchedulesAssumption DEF KeyRow, Schedules!scheduleKey
  <2>3. JobsTyped' /\ WorkHeld' /\ SentDelivered'
    BY Zenon, <2>1 DEF JobsInv, JobsTyped, WorkHeld, SentDelivered, Schedules!SentDelivered, Schedules!Pending
  <2> QED BY Zenon, <2>1, <2>2, <2>3 DEF JobsInv, KeyedOnce, KeyMeansMade
<1>5. ASSUME UNCHANGED <<jobs, sent, made, worker>> PROVE JobsInv'
  BY Zenon, <1>5 DEF JobsInv, JobsTyped, KeyedOnce, KeyMeansMade, WorkHeld, SentDelivered,
              Schedules!SentDelivered, Schedules!Pending
<1>6. ASSUME NEW m \in stored, Schedules!deleteMessage(m) PROVE JobsInv'
  BY Zenon, <1>5, <1>6 DEF Schedules!deleteMessage
<1>7. ASSUME NEW d \in Schedules!Destinations, Schedules!AccessChanges(d) PROVE JobsInv'
  BY SMTT(30), <1>5, <1>7 DEF Schedules!AccessChanges
<1> QED BY Zenon, <1>1, <1>2, <1>3, <1>4, <1>6, <1>7 DEF Schedules!Requests

(* A step of the worker at job j, which it takes from the batch. *)
LEMMA JobsRecover == ASSUME JobsInv, NEW j \in Jobs, Schedules!Recover(j) PROVE JobsInv'
<1> DEFINE row == [jobs[j] EXCEPT !.status = "sent"]
<1>1. /\ worker.at = "next" /\ j \in worker.batch
      /\ jobs' = [jobs EXCEPT ![j] = row]
      /\ worker' = [worker EXCEPT !.batch = worker.batch \ {j}]
      /\ UNCHANGED <<sent, made>>
      /\ [destination |-> jobs[j].destination, key |-> Schedules!scheduleKey(j)] \in sent
  BY DEF Schedules!Recover, Schedules!Delivered
<1>2. jobs[j].status = "pending" BY Zenon, <1>1 DEF JobsInv, WorkHeld, Schedules!Pending
<1>3. /\ jobs[j] \in JobRows /\ row \in JobRows
      /\ row.status = "sent" /\ row.destination = jobs[j].destination
  BY Zenon, <1>2, JobUpdated DEF JobsInv
<1>4. made[j][row.destination] > 0
  BY Zenon, <1>1, <1>3 DEF JobsInv, KeyMeansMade, KeyRow, JobRows
<1>5. worker' \in Works BY Zenon, <1>1 DEF JobsInv, JobsTyped, Works
<1>6. WorkHeld'
  BY Zenon, <1>1 DEF JobsInv, JobsTyped, WorkHeld, Works, Schedules!Pending
<1> QED BY ZenonT(40), <1>1, <1>3, <1>4, <1>5, <1>6, JobChanges

LEMMA JobsSend == ASSUME JobsInv, NEW j \in Jobs, Schedules!Send(j) PROVE JobsInv'
<1> DEFINE d == jobs[j].destination
           Marking(outcome) == worker' = [at |-> "mark", batch |-> worker.batch \ {j}, job |-> j,
                                          outcome |-> outcome]
<1>1. worker.at = "next" /\ j \in worker.batch /\ jobs' = jobs /\ KeyRow(d, j) \notin sent
  BY Zenon DEF Schedules!Send, Schedules!Delivered, KeyRow
<1>2. jobs[j].status = "pending" BY Zenon, <1>1 DEF JobsInv, WorkHeld, Schedules!Pending
<1>3. d \in Schedules!Destinations BY Zenon, <1>2, JobUpdated DEF JobsInv, JobRows
<1>4. ASSUME NEW outcome \in {"sent", "failed", "retry"}, Marking(outcome),
             outcome = "sent" => made'[j][d] > 0
      PROVE worker' \in Works /\ WorkHeld'
  BY Zenon, <1>1, <1>2, <1>4 DEF JobsInv, JobsTyped, WorkHeld, Works, Schedules!Pending
<1>5. CASE /\ sent' = sent \cup {KeyRow(d, j)}
           /\ made' = [made EXCEPT ![j][d] = @ + 1]
           /\ Marking("sent")
  <2>1. made \in [Jobs -> [Schedules!Destinations -> Nat]] BY ZenonT(40) DEF JobsInv, JobsTyped
  <2>2. made' \in [Jobs -> [Schedules!Destinations -> Nat]] /\ made'[j][d] = made[j][d] + 1
        /\ \A i \in Jobs, e \in Schedules!Destinations : i # j \/ e # d => made'[i][e] = made[i][e]
    BY SMTT(30), <1>3, <1>5, <2>1
  <2>3. JobsTyped' BY SMTT(30), <1>1, <1>4, <1>5, <2>1, <2>2, <1>3 DEF JobsInv, JobsTyped
  <2>4. \A i \in Jobs, e \in Schedules!Destinations : KeyRow(e, i) = KeyRow(d, j) => e = d /\ i = j
    BY ZenonT(40) DEF KeyRow, Schedules!scheduleKey
  <2>5. KeyMeansMade' BY SMTT(30), <1>3, <1>5, <2>1, <2>2, <2>4 DEF JobsInv, KeyMeansMade
  <2>6. d \in Channels \cup Chats => made[j][d] = 0
    BY SMTT(30), <1>1, <1>3, <2>1 DEF JobsInv, KeyedOnce
  <2>7. KeyedOnce'
    <3>1. SUFFICES ASSUME NEW i \in Jobs, NEW e \in Channels \cup Chats
                   PROVE made'[i][e] <= 1 /\ (made'[i][e] > 0 => KeyRow(e, i) \in sent')
      BY Zenon DEF KeyedOnce, KeyRow
    <3>2. e \in Schedules!Destinations BY Zenon DEF Schedules!Destinations
    <3>3. CASE i = j /\ e = d
      <4>1. made[j][d] = 0 BY Zenon, <3>3, <2>6
      <4>2. made'[i][e] = 0 + 1 BY Zenon, <3>3, <4>1, <2>2
      <4>3. made'[i][e] <= 1 BY SMTT(30), <4>2
      <4>4. KeyRow(e, i) \in sent' BY Zenon, <3>3, <1>5
      <4> QED BY Zenon, <4>3, <4>4
    <3>4. CASE i # j \/ e # d
      <4>1. made'[i][e] = made[i][e] BY Zenon, <2>2, <3>2, <3>4
      <4>2. made[i][e] <= 1 /\ (made[i][e] > 0 => KeyRow(e, i) \in sent)
        BY ZenonT(40) DEF JobsInv, KeyedOnce
      <4> QED BY Zenon, <4>1, <4>2, <1>5
    <3> QED BY Zenon, <3>3, <3>4
  <2>8. WorkHeld' BY SMTT(30), <1>4, <1>5, <2>2, <2>1, <1>3
  <2>9. SentDelivered'
    <3>1. SUFFICES ASSUME NEW i \in Jobs, jobs[i].status = "sent"
                   PROVE made'[i][jobs[i].destination] > 0
      BY Zenon, <1>1 DEF SentDelivered, Schedules!SentDelivered
    <3>2. made[i][jobs[i].destination] > 0
      BY Zenon, <3>1 DEF JobsInv, SentDelivered, Schedules!SentDelivered
    <3>3. jobs[i].destination \in Schedules!Destinations BY Zenon, <3>1, JobUpdated DEF JobsInv, JobRows
    <3> QED BY ZenonT(40), <1>2, <3>1, <3>2, <3>3, <2>1, <2>2
  <2> QED BY ZenonT(40), <2>3, <2>5, <2>7, <2>8, <2>9 DEF JobsInv
<1>6. CASE UNCHANGED <<sent, made>> /\ \E outcome \in {"failed", "retry"} : Marking(outcome)
  BY Zenon, <1>1, <1>4, <1>6 DEF JobsInv, JobsTyped, KeyedOnce, KeyMeansMade, SentDelivered,
                          Schedules!SentDelivered
<1> QED
  BY Zenon, <1>1, <1>5, <1>6 DEF Schedules!Send, Schedules!Goto, Schedules!createDirect, KeyRow

LEMMA JobsMark == ASSUME JobsInv, Schedules!Mark PROVE JobsInv'
<1> DEFINE j == worker.job
           row == Schedules!Outcome(j, worker.outcome)
<1>1. /\ worker.at = "mark" /\ worker' = [worker EXCEPT !.at = "next"] /\ UNCHANGED <<sent, made>>
      /\ jobs' = IF Schedules!Pending(j) THEN [jobs EXCEPT ![j] = row] ELSE jobs
  BY Zenon DEF Schedules!Mark
<1>2. /\ j \in Jobs \ worker.batch /\ jobs[j].status = "pending" /\ worker.outcome # "none"
      /\ worker.outcome = "sent" => made[j][jobs[j].destination] > 0
  BY Zenon, <1>1 DEF JobsInv, WorkHeld, Schedules!Pending
<1>3. jobs[j] \in JobRows BY Zenon, <1>2, JobUpdated DEF JobsInv
<1>4. /\ row \in JobRows /\ row.destination = jobs[j].destination
      /\ row.status = "sent" => worker.outcome = "sent"
  <2>1. worker.outcome \in {"sent", "failed", "retry"} BY Zenon, <1>2 DEF JobsInv, JobsTyped, Works
  <2>2. ASSUME NEW r \in JobRows, NEW status \in {"sent", "failed"}
        PROVE  /\ [r EXCEPT !.attempts = @ + 1, !.ready = FALSE] \in JobRows
               /\ [r EXCEPT !.attempts = @ + 1, !.ready = FALSE].destination = r.destination
               /\ [r EXCEPT !.attempts = @ + 1, !.ready = FALSE].status = r.status
               /\ [r EXCEPT !.attempts = @ + 1, !.status = status] \in JobRows
               /\ [r EXCEPT !.attempts = @ + 1, !.status = status].destination = r.destination
               /\ [r EXCEPT !.attempts = @ + 1, !.status = status].status = status
    <3>1. r.attempts + 1 \in Nat BY DEF JobRows
    <3>2. PICK q \in JobRows : q = [r EXCEPT !.attempts = @ + 1]
      BY Zenon, <3>1 DEF JobRows
    <3>3. q.destination = r.destination /\ q.status = r.status BY Zenon, <3>2 DEF JobRows
    <3>4. /\ [q EXCEPT !.ready = FALSE] \in JobRows /\ [q EXCEPT !.status = status] \in JobRows
          /\ [q EXCEPT !.ready = FALSE].destination = q.destination
          /\ [q EXCEPT !.ready = FALSE].status = q.status
          /\ [q EXCEPT !.status = status].destination = q.destination
          /\ [q EXCEPT !.status = status].status = status
      BY Zenon DEF JobRows
    <3> QED BY Zenon, <3>2, <3>3, <3>4
  <2>3. CASE worker.outcome = "retry" BY Zenon, <1>2, <1>3, <2>2, <2>3 DEF Schedules!Outcome
  <2>4. CASE worker.outcome # "retry"
    <3>1. row = [jobs[j] EXCEPT !.attempts = @ + 1, !.status = worker.outcome]
      BY Zenon, <2>4 DEF Schedules!Outcome
    <3>2. worker.outcome \in {"sent", "failed"} BY Zenon, <2>1, <2>4
    <3> HIDE DEF row
    <3>3. row \in JobRows /\ row.destination = jobs[j].destination /\ row.status = worker.outcome
      BY Zenon, <1>3, <2>2, <3>1, <3>2
    <3> QED BY Zenon, <3>3
  <2> QED BY Zenon, <2>3, <2>4
<1>5. jobs' = [jobs EXCEPT ![j] = row] BY Zenon, <1>1, <1>2 DEF Schedules!Pending
<1>6. worker' \in Works BY Zenon, <1>1 DEF JobsInv, JobsTyped, Works
<1>7. WorkHeld' BY Zenon, <1>1, <1>2, <1>5 DEF JobsInv, JobsTyped, WorkHeld, Works, Schedules!Pending
<1> QED BY ZenonT(40), <1>1, <1>2, <1>3, <1>4, <1>5, <1>6, <1>7, JobChanges

(* The worker begins, returns or stops, and a job becomes due. *)
LEMMA JobsRest ==
    ASSUME JobsInv, Schedules!ProcessDue \/ Schedules!Return \/ Schedules!Interrupt
    PROVE  JobsInv'
<1>1. UNCHANGED <<jobs, sent, made>>
  BY Zenon DEF Schedules!ProcessDue, Schedules!Return, Schedules!Interrupt
<1>2. worker' \in Works /\ WorkHeld'
  <2>1. CASE Schedules!ProcessDue
    <3>1. PICK batch \in SUBSET {j \in Jobs : Schedules!Pending(j) /\ jobs[j].ready} :
             worker' = [Schedules!Idle EXCEPT !.at = "next", !.batch = batch]
      BY Zenon, <2>1 DEF Schedules!ProcessDue
    <3> QED BY Zenon, <1>1, <3>1 DEF Works, WorkHeld, Schedules!Idle, Schedules!Pending
  <2>2. CASE worker' = Schedules!Idle BY Zenon, <2>2 DEF Works, WorkHeld, Schedules!Idle
  <2> QED BY Zenon, <2>1, <2>2 DEF Schedules!Return, Schedules!Interrupt
<1> QED BY Zenon, <1>1, <1>2 DEF JobsInv, JobsTyped, KeyedOnce, KeyMeansMade, SentDelivered,
                          Schedules!SentDelivered

LEMMA JobsDue == ASSUME JobsInv, NEW j \in Jobs, Schedules!Due(j) PROVE JobsInv'
<1> DEFINE row == [jobs[j] EXCEPT !.ready = TRUE]
<1>1. jobs[j].status = "pending" /\ jobs' = [jobs EXCEPT ![j] = row] /\ UNCHANGED <<sent, made, worker>>
  BY Zenon DEF Schedules!Due, Schedules!Pending
<1>2. jobs[j] \in JobRows BY Zenon, <1>1, JobUpdated DEF JobsInv
<1>3. row \in JobRows /\ row.status = "pending" /\ row.destination = jobs[j].destination
  BY Zenon, <1>1, <1>2 DEF JobRows
<1>4. worker' \in Works BY Zenon, <1>1 DEF JobsInv, JobsTyped
<1>5. WorkHeld' BY Zenon, <1>1, <1>3 DEF JobsInv, JobsTyped, WorkHeld, Works, Schedules!Pending
<1> QED BY ZenonT(40), <1>1, <1>3, <1>4, <1>5, JobChanges

LEMMA JobsStep == ASSUME JobsInv, [Schedules!Next]_schedules PROVE JobsInv'
<1>1. CASE UNCHANGED schedules
  BY Zenon, <1>1 DEF schedules, JobsInv, JobsTyped, KeyedOnce, KeyMeansMade, WorkHeld, SentDelivered,
              Schedules!SentDelivered, Schedules!Pending
<1>2. CASE Schedules!Next
  BY ZenonT(40), <1>2, JobsRequests, JobsRecover, JobsSend, JobsMark, JobsRest, JobsDue
  DEF Schedules!Next, Schedules!Work
<1> QED BY Zenon, <1>1, <1>2

(* A scheduled message is delivered once, and a job shown as sent has been  *)
(* delivered where it was last told to go, whatever is interrupted, edited  *)
(* or refused meanwhile (ProcessDue, createDirect).                         *)
THEOREM ScheduledMessagesOnce == CommunitySpec => []ScheduledOnce
<1>1. CommunityInit => JobsInv BY Zenon, JobsInit DEF CommunityInit
<1>2. JobsInv /\ [CommunityNext]_<<part, vars, schedules, events>> => JobsInv'
  BY Zenon, JobsStep DEF CommunityNext
<1>3. JobsInv => ScheduledOnce
  BY DEF JobsInv, KeyedOnce, ScheduledOnce, SentDelivered, Schedules!DeliveredOnce
<1> QED BY <1>1, <1>2, <1>3, PTL DEF CommunitySpec

(* A cancelled message is never sent afterwards, and its row never changes  *)
(* again: cancelSchedule takes workMu, so no dispatch is under way with it. *)
THEOREM CancelledIsFinal == CommunitySpec => Schedules!CancelIsFinal
<1> DEFINE Kept == \A j \in Jobs : jobs[j].status = "cancelled" => made'[j] = made[j] /\ jobs'[j] = jobs[j]
<1>1. CommunityInit => JobsInv BY SMTT(30), JobsInit DEF CommunityInit
<1>2. JobsInv /\ [CommunityNext]_<<part, vars, schedules, events>> => JobsInv'
  BY JobsStep DEF CommunityNext
<1>3. JobsInv /\ [CommunityNext]_<<part, vars, schedules, events>> => [Kept]_schedules
  <2> SUFFICES ASSUME JobsInv, Schedules!Next, NEW j \in Jobs, jobs[j].status = "cancelled"
               PROVE  made'[j] = made[j] /\ jobs'[j] = jobs[j]
    BY Zenon DEF CommunityNext
  <2>1. jobs \in [Jobs -> JobRows \cup {Schedules!NoJob}] BY Zenon DEF JobsInv, JobsTyped
  <2>2. j \notin worker.batch /\ (worker.at = "mark" => j # worker.job)
    BY Zenon DEF JobsInv, WorkHeld, Schedules!Pending
  <2>3. jobs[j] # Schedules!NoJob BY Zenon, NoJobIsNone
  <2>4. CASE Schedules!Requests
    BY Zenon, <2>1, <2>3, <2>4 DEF Schedules!Requests, Schedules!cancelSchedule, Schedules!schedule, Schedules!reschedule,
       Schedules!sendConversation, Schedules!deleteSaved, Schedules!deleteMessage, Schedules!AccessChanges,
       Schedules!Editable
  <2>5. CASE Schedules!ProcessDue \/ Schedules!Return \/ Schedules!Interrupt
    BY Zenon, <2>5 DEF Schedules!ProcessDue, Schedules!Return, Schedules!Interrupt
  <2>6. CASE Schedules!Mark BY Zenon, <2>1, <2>2, <2>6 DEF Schedules!Mark
  <2>7. ASSUME NEW i \in Jobs, Schedules!Recover(i) PROVE made'[j] = made[j] /\ jobs'[j] = jobs[j]
    BY Zenon, <2>1, <2>2, <2>7 DEF Schedules!Recover
  <2>8. ASSUME NEW i \in Jobs, Schedules!Send(i) PROVE made'[j] = made[j] /\ jobs'[j] = jobs[j]
    <3>1. i # j /\ jobs' = jobs BY Zenon, <2>2, <2>8 DEF Schedules!Send
    <3>2. made' = made \/ \E d, n : made' = [made EXCEPT ![i][d] = n] BY Zenon, <2>8 DEF Schedules!Send
    <3> QED BY Zenon, <3>1, <3>2 DEF JobsInv, JobsTyped
  <2>9. ASSUME NEW i \in Jobs, Schedules!Due(i) PROVE made'[j] = made[j] /\ jobs'[j] = jobs[j]
    BY Zenon, <2>1, <2>9 DEF Schedules!Due, Schedules!Pending
  <2> QED BY ZenonT(40), <2>4, <2>5, <2>6, <2>7, <2>8, <2>9 DEF Schedules!Next, Schedules!Work
<1>4. Schedules!CancelIsFinal <=> [][Kept]_schedules BY Zenon DEF Schedules!CancelIsFinal, Schedules!vars, schedules
<1> QED BY <1>1, <1>2, <1>3, <1>4, PTL DEF CommunitySpec

-----------------------------------------------------------------------------
(* Reminders.  Somebody whose reminders went undisturbed is marked as      *)
(* reminded exactly if the reminder for the event as it stands was         *)
(* received or is being sent; so nobody is selected twice, and the clock   *)
(* cannot reach the start while somebody is due.                           *)

Revisions == 0..MaxAsks
EventRows == [creator : Guests \cup {"none"}, starts : Nat, cancelled : BOOLEAN, revision : Revisions]
Notices   == [user : Guests, revision : Revisions, marked : BOOLEAN]

EventsTyped ==
    /\ clock \in Nat /\ asks \in Nat
    /\ event \in EventRows /\ event.revision <= asks
    /\ answers \in [Guests -> {"going", "maybe", "none"}]
    /\ readers \subseteq Guests
    /\ notices \subseteq Notices
    /\ received \in [Guests -> [Revisions -> Nat]]

(* A selected reminder is the only one of its user, for the event as it is  *)
(* unless that was cancelled, and not yet received.                         *)
NoticeRight(n) ==
    /\ \A o \in notices : o.user = n.user => o = n
    /\ n.revision <= event.revision
    /\ n.user \notin missed =>
         /\ answers[n.user] # "none"
         /\ n.revision = event.revision \/ event.cancelled
         /\ received[n.user][n.revision] = 0
         /\ n.user \in reminded <=> n.marked

ReceivedOnce(u) ==
    \A r \in Revisions : received[u][r] <= 1 /\ (r > event.revision => received[u][r] = 0)

(* reminded says whether the reminder went out. *)
MarkTells(u) ==
    ~event.cancelled =>
      IF u \in reminded
      THEN received[u][event.revision] > 0 \/ \E n \in notices : n.user = u /\ n.marked
      ELSE received[u][event.revision] = 0

RemindersInv ==
    /\ EventsTyped
    /\ \A n \in notices : NoticeRight(n)
    /\ \A u \in Guests \ missed : ReceivedOnce(u) /\ MarkTells(u)
    /\ Events!EveryoneReminded

USE DEF Revisions

LEMMA RemindersInit == Events!Init => RemindersInv
<1> SUFFICES ASSUME Events!Init PROVE RemindersInv OBVIOUS
<1>1. EventsTyped
  BY SMTT(30), EventsAssumption DEF Events!Init, EventsTyped, EventRows, Events!NoEvent
<1>2. \A u \in Guests \ missed : ReceivedOnce(u) /\ MarkTells(u)
  BY EventsAssumption DEF Events!Init, ReceivedOnce, MarkTells, Events!NoEvent
<1>3. Events!EveryoneReminded BY Zenon DEF Events!Init, Events!EveryoneReminded
<1> QED BY ZenonT(40), <1>1, <1>2, <1>3 DEF RemindersInv, Events!Init

(* Counting one more reminder of somebody. *)
LEMMA Counted ==
    ASSUME NEW u \in Guests, NEW r \in Revisions, received \in [Guests -> [Revisions -> Nat]],
           received' = [received EXCEPT ![u][r] = @ + 1]
    PROVE  /\ received' \in [Guests -> [Revisions -> Nat]]
           /\ received'[u][r] = received[u][r] + 1
           /\ \A v \in Guests, q \in Revisions : v # u \/ q # r => received'[v][q] = received[v][q]
<1> HIDE DEF Revisions
<1> QED OBVIOUS

(* Saving an event, first or again. *)
LEMMA RemindersSave ==
    ASSUME RemindersInv, NEW u \in Guests, NEW starts \in 1..MaxTime, Events!saveEvent(u, starts)
    PROVE  RemindersInv'
<1> USE EventsAssumption
<1>1. /\ starts > clock /\ asks < MaxAsks /\ asks' = asks + 1
      /\ missed' = missed \cup {n.user : n \in notices}
      /\ UNCHANGED <<clock, readers, answers, notices, received, halts>>
  BY Zenon DEF Events!saveEvent, Events!Request, Events!Overtaken
<1>2. event \in EventRows /\ event.revision <= asks /\ asks \in Nat /\ clock \in Nat
  BY Zenon DEF RemindersInv, EventsTyped
<1>3. \A n \in notices : n.user \in missed' BY ZenonT(40), <1>1
<1>4. ASSUME event'.revision \in Nat, event'.revision >= event.revision
      PROVE \A n \in notices : NoticeRight(n)'
  <2> SUFFICES ASSUME NEW n \in notices PROVE NoticeRight(n)' OBVIOUS
  <2>1. n.revision \in Nat /\ event.revision \in Nat
    BY SMTT(30) DEF RemindersInv, EventsTyped, Notices, EventRows
  <2> QED BY SMTT(30), <1>1, <1>3, <1>4, <2>1 DEF RemindersInv, NoticeRight
<1>5. event'.starts = starts /\ event' \in EventRows => Events!EveryoneReminded'
  BY SMTT(30), <1>1, <1>2 DEF Events!EveryoneReminded
<1>6. CASE event = Events!NoEvent
  <2>1. event' = [creator |-> u, starts |-> starts, cancelled |-> FALSE, revision |-> 0] /\ reminded' = reminded
    BY Zenon, <1>6 DEF Events!saveEvent
  <2>2. event.revision = 0 /\ ~event.cancelled BY Zenon, <1>6 DEF Events!NoEvent
  <2>3. event' \in EventRows /\ event'.starts = starts /\ event'.revision = 0 /\ ~event'.cancelled
    BY SMTT(30), <2>1 DEF EventRows
  <2>4. EventsTyped' BY SMTT(30), <1>1, <1>2, <2>3 DEF RemindersInv, EventsTyped
  <2>5. \A v \in Guests \ missed' : ReceivedOnce(v)' /\ MarkTells(v)'
    BY ZenonT(40), <1>1, <2>1, <2>2, <2>3 DEF RemindersInv, ReceivedOnce, MarkTells
  <2>6. \A n \in notices' : NoticeRight(n)' BY SMTT(30), <1>1, <1>4, <2>2, <2>3
  <2> QED BY Zenon, <1>5, <2>3, <2>4, <2>5, <2>6 DEF RemindersInv
<1>7. CASE event # Events!NoEvent
  <2>1. ~event.cancelled /\ reminded' = {} /\ event' = [event EXCEPT !.starts = starts, !.revision = @ + 1]
    BY Zenon, <1>7 DEF Events!saveEvent
  <2>2. /\ event' \in EventRows /\ event'.starts = starts
        /\ event'.revision = event.revision + 1 /\ event'.cancelled = event.cancelled
    <3>1. event.revision + 1 \in Revisions /\ starts \in Nat BY SMTT(30), <1>1, <1>2 DEF EventRows
    <3>2. PICK e : e = [event EXCEPT !.starts = starts] BY Zenon
    <3>3. e \in EventRows /\ e.starts = starts /\ e.cancelled = event.cancelled
      BY Zenon, <1>2, <3>1, <3>2 DEF EventRows
    <3>4. event' = [e EXCEPT !.revision = event.revision + 1] BY ZenonT(40), <2>1, <3>2
    <3> QED BY ZenonT(40), <3>1, <3>3, <3>4 DEF EventRows
  <2>3. EventsTyped'
    <3>1. event.revision \in Nat BY SMTT(30), <1>2 DEF EventRows
    <3> QED BY SMTT(30), <1>1, <1>2, <2>2, <3>1 DEF RemindersInv, EventsTyped
  <2>4. \A v \in Guests \ missed' : ReceivedOnce(v)' /\ MarkTells(v)'
    <3> SUFFICES ASSUME NEW v \in Guests \ missed' PROVE ReceivedOnce(v)' /\ MarkTells(v)' OBVIOUS
    <3>1. ReceivedOnce(v) BY Zenon, <1>1 DEF RemindersInv
    <3>2. event.revision \in Nat /\ event.revision + 1 \in Revisions
      BY SMTT(30), <1>1, <1>2 DEF EventRows
    <3>3. ReceivedOnce(v)' BY SMTT(30), <1>1, <2>2, <3>1, <3>2 DEF ReceivedOnce
    <3>4. MarkTells(v)' BY SMTT(30), <1>1, <2>1, <2>2, <3>1, <3>2 DEF ReceivedOnce, MarkTells
    <3> QED BY SMTT(30), <3>3, <3>4
  <2>5. event.revision \in Nat BY <1>2 DEF EventRows
  <2>6. \A n \in notices' : NoticeRight(n)' BY SMTT(30), <1>1, <1>4, <2>2, <2>5
  <2> QED BY ZenonT(40), <1>5, <2>2, <2>3, <2>4, <2>6 DEF RemindersInv
<1> QED BY Zenon, <1>6, <1>7

LEMMA RemindersCancel ==
    ASSUME RemindersInv, NEW u \in Guests, Events!cancelEvent(u) PROVE RemindersInv'
<1> USE EventsAssumption
<1>1. /\ asks < MaxAsks /\ asks' = asks + 1
      /\ event' = [event EXCEPT !.cancelled = TRUE, !.revision = @ + 1]
      /\ UNCHANGED <<clock, readers, answers, reminded, notices, received, missed>>
  BY Zenon DEF Events!cancelEvent, Events!Request
<1>2. /\ event \in EventRows /\ event.revision <= asks /\ asks \in Nat /\ event.revision \in Nat
  BY DEF RemindersInv, EventsTyped, EventRows
<1>3. event' \in EventRows /\ event'.cancelled /\ event'.revision = event.revision + 1
  <2>1. PICK q : q = [event EXCEPT !.cancelled = TRUE] BY Zenon
  <2>2. q \in EventRows /\ q.cancelled = TRUE /\ q.revision = event.revision BY Zenon, <1>2, <2>1 DEF EventRows
  <2>3. event.revision + 1 \in Revisions BY <1>1, <1>2
  <2>4. event' = [q EXCEPT !.revision = event.revision + 1] BY Zenon, <1>1, <2>1
  <2> QED BY Zenon, <2>2, <2>3, <2>4 DEF EventRows
<1>4. EventsTyped' BY SMTT(30), <1>1, <1>2, <1>3 DEF RemindersInv, EventsTyped
<1>5. \A n \in notices : NoticeRight(n)'
  <2> SUFFICES ASSUME NEW n \in notices PROVE NoticeRight(n)' OBVIOUS
  <2>1. n.revision \in Nat BY DEF RemindersInv, EventsTyped, Notices
  <2> QED BY SMTT(30), <1>1, <1>2, <1>3, <2>1 DEF RemindersInv, NoticeRight
<1>6. \A v \in Guests \ missed : ReceivedOnce(v)' /\ MarkTells(v)'
  BY SMTT(30), <1>1, <1>2, <1>3 DEF RemindersInv, ReceivedOnce, MarkTells
<1>7. Events!EveryoneReminded' BY Zenon, <1>3 DEF Events!EveryoneReminded
<1> QED BY ZenonT(40), <1>1, <1>4, <1>5, <1>6, <1>7 DEF RemindersInv

(* An answer comes before the start; withdrawing it forgets the reminder.   *)
LEMMA RemindersAnswer ==
    ASSUME RemindersInv, NEW u \in Guests, NEW answer \in {"going", "maybe", "none"},
           Events!eventResponse(u, answer)
    PROVE  RemindersInv'
<1> USE EventsAssumption
<1>1. /\ event.starts > clock /\ asks' = asks + 1
      /\ answers' = [answers EXCEPT ![u] = answer]
      /\ reminded' = IF answer = "none" THEN reminded \ {u} ELSE reminded
      /\ received' = IF answer = "none" THEN [received EXCEPT ![u] = [r \in 0..MaxAsks |-> 0]] ELSE received
      /\ missed' = missed \cup ({n.user : n \in notices} \cap {u})
      /\ UNCHANGED <<clock, readers, event, notices>>
  BY Zenon DEF Events!eventResponse, Events!Request, Events!Overtaken
<1>2. EventsTyped BY Zenon DEF RemindersInv
<1>3. received' \in [Guests -> [Revisions -> Nat]]
      /\ \A v \in Guests \ {u} : received'[v] = received[v]
      /\ received'[u] = IF answer = "none" THEN [r \in Revisions |-> 0] ELSE received[u]
  BY ZenonT(40), <1>1, <1>2 DEF EventsTyped
<1>4. EventsTyped'
  <2>1. event.revision \in Nat BY <1>2 DEF EventsTyped, EventRows
  <2> QED BY SMTT(30), <1>1, <1>2, <1>3, <2>1 DEF EventsTyped
<1>5. \A n \in notices : NoticeRight(n)'
  <2> SUFFICES ASSUME NEW n \in notices PROVE NoticeRight(n)' OBVIOUS
  <2>1. n.user \in Guests /\ n.revision \in Revisions BY Zenon, <1>2 DEF EventsTyped, Notices
  <2>2. NoticeRight(n) BY Zenon DEF RemindersInv
  <2>3. CASE n.user = u BY Zenon, <1>1, <2>2, <2>3 DEF NoticeRight
  <2>4. CASE n.user # u BY ZenonT(40), <1>1, <1>2, <1>3, <2>1, <2>2, <2>4 DEF NoticeRight, EventsTyped
  <2> QED BY SMTT(30), <2>3, <2>4
<1>6. \A v \in Guests \ missed' : ReceivedOnce(v)' /\ MarkTells(v)'
  <2> SUFFICES ASSUME NEW v \in Guests \ missed' PROVE ReceivedOnce(v)' /\ MarkTells(v)' OBVIOUS
  <2>1. ReceivedOnce(v) /\ MarkTells(v) BY Zenon, <1>1 DEF RemindersInv
  <2>2. event.revision \in Revisions BY ZenonT(40), <1>2 DEF EventsTyped, EventRows
  <2>3. CASE v = u /\ answer = "none" BY SMTT(30), <1>1, <1>3, <2>2, <2>3 DEF ReceivedOnce, MarkTells
  <2>4. CASE v # u \/ answer # "none" BY ZenonT(40), <1>1, <1>3, <2>1, <2>2, <2>4 DEF ReceivedOnce, MarkTells
  <2> QED BY Zenon, <2>3, <2>4
<1>7. Events!EveryoneReminded'
  BY SMTT(30), <1>1, <1>2 DEF EventsTyped, EventRows, Events!EveryoneReminded
<1> QED BY ZenonT(40), <1>1, <1>4, <1>5, <1>6, <1>7 DEF RemindersInv

LEMMA RemindersPermission ==
    ASSUME RemindersInv, NEW u \in Guests, Events!PermissionChanges(u) PROVE RemindersInv'
<1>1. /\ asks' = asks + 1 /\ readers' \subseteq readers \cup {u} /\ missed' = missed \cup {u}
      /\ UNCHANGED <<clock, event, answers, reminded, notices, received>>
  BY DEF Events!PermissionChanges, Events!Request
<1>2. EventsTyped'
  <2>1. event.revision \in Nat BY EventsAssumption DEF RemindersInv, EventsTyped, EventRows
  <2>2. asks \in Nat /\ event.revision <= asks /\ readers \subseteq Guests BY Zenon DEF RemindersInv, EventsTyped
  <2>3. asks' \in Nat /\ event'.revision <= asks' /\ readers' \subseteq Guests BY SMTT(30), <1>1, <2>1, <2>2
  <2>4. EventsTyped BY DEF RemindersInv
  <2> QED BY Zenon, <1>1, <2>3, <2>4 DEF EventsTyped
<1>3. \A n \in notices : NoticeRight(n)' BY Zenon, <1>1 DEF RemindersInv, NoticeRight
<1>4. \A v \in Guests \ missed' : ReceivedOnce(v)' /\ MarkTells(v)'
  BY Zenon, <1>1 DEF RemindersInv, ReceivedOnce, MarkTells
<1>5. Events!EveryoneReminded' BY Zenon, <1>1 DEF RemindersInv, Events!EveryoneReminded
<1> QED BY SMTT(30), <1>1, <1>2, <1>3, <1>4, <1>5 DEF RemindersInv

(* The worker selects whoever is due ... *)
LEMMA RemindersSelect ==
    ASSUME RemindersInv, Events!processEventReminders PROVE RemindersInv'
<1> DEFINE picked(u) == [user |-> u, revision |-> event.revision, marked |-> FALSE]
<1>1. /\ notices = {} /\ notices' = {picked(u) : u \in {v \in Guests : Events!Due(v)}}
      /\ UNCHANGED <<clock, readers, event, answers, reminded, received, missed, asks>>
  BY DEF Events!processEventReminders
<1>2. EventsTyped'
  <2>1. event.revision \in Revisions BY Zenon DEF RemindersInv, EventsTyped, EventRows
  <2>2. \A u \in Guests : picked(u) \in Notices BY Zenon, <2>1 DEF Notices
  <2>3. notices' \subseteq Notices BY Zenon, <1>1, <2>2
  <2> QED BY Zenon, <1>1, <2>3 DEF RemindersInv, EventsTyped
<1>3. \A u \in Guests : Events!Due(u) => u \notin reminded /\ answers[u] # "none" /\ ~event.cancelled
  BY DEF Events!Due
<1>4. \A n \in notices' : NoticeRight(n)'
  <2> SUFFICES ASSUME NEW n \in notices' PROVE NoticeRight(n)' OBVIOUS
  <2>1. PICK u \in Guests : Events!Due(u) /\ n = picked(u) BY Zenon, <1>1
  <2>2. n.user = u /\ n.revision = event.revision /\ n.marked = FALSE BY ZenonT(40), <2>1
  <2>3. \A o \in notices' : o.user = n.user => o = n BY SMTT(30), <1>1, <2>1
  <2>4. u \notin missed => MarkTells(u) BY Zenon DEF RemindersInv
  <2>5. event.revision <= event.revision BY EventsAssumption DEF RemindersInv, EventsTyped, EventRows
  <2> QED BY ZenonT(40), <1>1, <1>3, <2>1, <2>2, <2>3, <2>4, <2>5 DEF NoticeRight, MarkTells
<1>5. \A v \in Guests \ missed' : ReceivedOnce(v)' /\ MarkTells(v)'
  BY Zenon, <1>1 DEF RemindersInv, ReceivedOnce, MarkTells
<1>6. Events!EveryoneReminded' BY Zenon, <1>1 DEF RemindersInv, Events!EveryoneReminded
<1> QED BY ZenonT(40), <1>2, <1>4, <1>5, <1>6 DEF RemindersInv

(* ... marks them one by one and sends each its reminder ... *)
LEMMA RemindersMark ==
    ASSUME RemindersInv, NEW n \in notices, Events!MarkReminded(n) PROVE RemindersInv'
<1> DEFINE now == [n EXCEPT !.marked = TRUE]
<1>1. /\ ~n.marked /\ notices' = (notices \ {n}) \cup {now}
      /\ reminded' = IF answers[n.user] = "none" THEN reminded ELSE reminded \cup {n.user}
      /\ UNCHANGED <<clock, readers, event, answers, received, missed, asks>>
  BY Zenon DEF Events!MarkReminded
<1>2. n \in Notices BY DEF RemindersInv, EventsTyped
<1>3. now \in Notices /\ now.user = n.user /\ now.revision = n.revision /\ now.marked
  BY Zenon, <1>2 DEF Notices
<1>4. \A o \in notices : NoticeRight(o) BY DEF RemindersInv
<1>5. EventsTyped' BY Zenon, <1>1, <1>3 DEF RemindersInv, EventsTyped
<1>6. \A o \in notices' : NoticeRight(o)'
  <2> HIDE DEF now
  <2> SUFFICES ASSUME NEW o \in notices' PROVE NoticeRight(o)' OBVIOUS
  <2>1. CASE o = now BY ZenonT(40), <1>1, <1>3, <1>4, <2>1 DEF NoticeRight
  <2>2. CASE o \in notices \ {n} BY ZenonT(40), <1>1, <1>3, <1>4, <2>2 DEF NoticeRight
  <2> QED BY Zenon, <1>1, <2>1, <2>2
<1>7. \A v \in Guests \ missed' : ReceivedOnce(v)' /\ MarkTells(v)'
  <2> HIDE DEF now
  <2> SUFFICES ASSUME NEW v \in Guests \ missed' PROVE ReceivedOnce(v)' /\ MarkTells(v)' OBVIOUS
  <2>1. ReceivedOnce(v) /\ MarkTells(v) BY Zenon, <1>1 DEF RemindersInv
  <2>2. ReceivedOnce(v)' BY Zenon, <1>1, <2>1 DEF ReceivedOnce
  <2>3. CASE v = n.user
    <3>1. v \in reminded' BY Zenon, <1>1, <1>4, <2>3 DEF NoticeRight
    <3>2. \E o \in notices' : o.user = v /\ o.marked BY Zenon, <1>1, <1>3, <2>3
    <3> QED BY SMTT(30), <2>2, <3>1, <3>2 DEF MarkTells
  <2>4. CASE v # n.user
    <3>1. \A o \in notices : o.user = v => o \in notices' BY Zenon, <1>1, <2>4
    <3>2. v \in reminded' <=> v \in reminded BY Zenon, <1>1, <2>4
    <3> QED BY Zenon, <1>1, <2>1, <2>2, <3>1, <3>2 DEF MarkTells
  <2> QED BY Zenon, <2>3, <2>4
<1>8. Events!EveryoneReminded' BY Zenon, <1>1 DEF RemindersInv, Events!EveryoneReminded
<1> QED BY Zenon, <1>5, <1>6, <1>7, <1>8 DEF RemindersInv

LEMMA RemindersSend ==
    ASSUME RemindersInv, NEW n \in notices, Events!SendReminder(n) PROVE RemindersInv'
<1> DEFINE u == n.user  r == n.revision
<1>1. /\ n.marked /\ notices' = notices \ {n}
      /\ received' = [received EXCEPT ![u][r] = @ + 1]
      /\ UNCHANGED <<clock, readers, event, answers, reminded, missed, asks>>
  BY Zenon DEF Events!SendReminder
<1>2. u \in Guests /\ r \in Revisions /\ received \in [Guests -> [Revisions -> Nat]]
      /\ event.revision \in Revisions /\ notices \subseteq Notices
  BY ZenonT(40) DEF RemindersInv, EventsTyped, Notices, EventRows
<1>3. /\ received' \in [Guests -> [Revisions -> Nat]] /\ received'[u][r] = received[u][r] + 1
      /\ \A v \in Guests, q \in Revisions : v # u \/ q # r => received'[v][q] = received[v][q]
  <2> HIDE DEF u, r, Revisions
  <2>1. received' = [received EXCEPT ![u][r] = @ + 1] BY Zenon, <1>1
  <2> QED BY SMTT(30), <1>2, <2>1, Counted
<1>4. \A o \in notices : NoticeRight(o) BY DEF RemindersInv
<1>5. EventsTyped' BY Zenon, <1>1, <1>3 DEF RemindersInv, EventsTyped
<1>6. \A o \in notices' : NoticeRight(o)'
  <2> SUFFICES ASSUME NEW o \in notices' PROVE NoticeRight(o)' OBVIOUS
  <2>1. o \in notices /\ o.user # u BY Zenon, <1>1, <1>4 DEF NoticeRight
  <2>2. o.user \in Guests /\ o.revision \in Revisions BY Zenon, <1>2, <2>1 DEF Notices
  <2> QED BY ZenonT(40), <1>1, <1>3, <1>4, <2>1, <2>2 DEF NoticeRight
<1>7. \A v \in Guests \ missed' : ReceivedOnce(v)' /\ MarkTells(v)'
  <2> SUFFICES ASSUME NEW v \in Guests \ missed' PROVE ReceivedOnce(v)' /\ MarkTells(v)' OBVIOUS
  <2>1. ReceivedOnce(v) /\ MarkTells(v) BY Zenon, <1>1 DEF RemindersInv
  <2>2. CASE v = u
    <3>1. /\ received[u][r] = 0 /\ (r = event.revision \/ event.cancelled) /\ u \in reminded
      BY Zenon, <1>1, <1>4, <2>2 DEF NoticeRight
    <3>2. r <= event.revision BY ZenonT(40), <1>4 DEF NoticeRight
    <3>3. ReceivedOnce(v)' BY SMTT(30), <1>1, <1>2, <1>3, <2>1, <2>2, <3>1, <3>2, EventsAssumption DEF ReceivedOnce
    <3>4. MarkTells(v)' BY SMTT(30), <1>1, <1>2, <1>3, <2>2, <3>1 DEF MarkTells
    <3> QED BY Zenon, <3>3, <3>4
  <2>3. CASE v # u
    <3>1. \A o \in notices : o.user = v => o \in notices' BY Zenon, <1>1, <2>3
    <3>2. \A q \in Revisions : received'[v][q] = received[v][q] BY Zenon, <1>3, <2>3
    <3>3. ReceivedOnce(v)' BY Zenon, <1>1, <2>1, <3>2 DEF ReceivedOnce
    <3>4. MarkTells(v)' BY Zenon, <1>1, <1>2, <2>1, <3>1, <3>2 DEF MarkTells
    <3> QED BY SMTT(30), <3>3, <3>4
  <2> QED BY Zenon, <2>2, <2>3
<1>8. Events!EveryoneReminded'
  <2> SUFFICES ASSUME event # Events!NoEvent, ~event.cancelled, clock >= event.starts,
                      NEW v \in readers \ missed, answers[v] # "none"
               PROVE  received'[v][event.revision] > 0
    BY Zenon, <1>1 DEF Events!EveryoneReminded
  <2>1. received[v][event.revision] > 0 BY Zenon DEF RemindersInv, Events!EveryoneReminded
  <2>2. v \in Guests BY Zenon DEF RemindersInv, EventsTyped
  <2>3. received[v][event.revision] \in Nat BY ZenonT(40), <1>2, <2>2
  <2>4. CASE v = u /\ event.revision = r BY SMTT(30), <1>3, <2>1, <2>3, <2>4
  <2>5. CASE v # u \/ event.revision # r BY ZenonT(40), <1>2, <1>3, <2>1, <2>2, <2>5
  <2> QED BY Zenon, <2>4, <2>5
<1> QED BY SMTT(30), <1>5, <1>6, <1>7, <1>8 DEF RemindersInv

(* ... unless it is interrupted. *)
LEMMA RemindersInterrupt == ASSUME RemindersInv, Events!Interrupt PROVE RemindersInv'
<1>1. /\ notices' = {} /\ missed' = missed \cup {n.user : n \in {o \in notices : o.marked}}
      /\ UNCHANGED <<clock, readers, event, answers, reminded, received, asks>>
  BY Zenon DEF Events!Interrupt
<1>2. EventsTyped' BY Zenon, <1>1 DEF RemindersInv, EventsTyped
<1>3. \A v \in Guests \ missed' : ReceivedOnce(v)' /\ MarkTells(v)'
  <2> SUFFICES ASSUME NEW v \in Guests \ missed' PROVE ReceivedOnce(v)' /\ MarkTells(v)' OBVIOUS
  <2>1. ReceivedOnce(v) /\ MarkTells(v) BY Zenon, <1>1 DEF RemindersInv
  <2>2. ~ \E n \in notices : n.user = v /\ n.marked BY Zenon, <1>1
  <2> QED BY Zenon, <1>1, <2>1, <2>2 DEF ReceivedOnce, MarkTells
<1>4. Events!EveryoneReminded' BY Zenon, <1>1 DEF RemindersInv, Events!EveryoneReminded
<1> QED BY Zenon, <1>1, <1>2, <1>3, <1>4 DEF RemindersInv

(* The clock reaches the start only when nobody is due any more. *)
LEMMA RemindersTick == ASSUME RemindersInv, Events!Tick PROVE RemindersInv'
<1> USE EventsAssumption
<1>1. /\ notices = {} /\ (\A u \in Guests : ~Events!Due(u)) /\ clock' = clock + 1
      /\ UNCHANGED <<readers, event, answers, reminded, notices, received, missed, asks>>
  BY Zenon DEF Events!Tick
<1>2. clock \in Nat /\ event.starts \in Nat /\ readers \subseteq Guests
  BY Zenon DEF RemindersInv, EventsTyped, EventRows
<1>3. EventsTyped' BY SMTT(30), <1>1, <1>2 DEF RemindersInv, EventsTyped
<1>4. \A v \in Guests \ missed' : ReceivedOnce(v)' /\ MarkTells(v)'
  BY ZenonT(40), <1>1 DEF RemindersInv, ReceivedOnce, MarkTells
<1>5. Events!EveryoneReminded'
  <2> SUFFICES ASSUME event # Events!NoEvent, ~event.cancelled, clock + 1 >= event.starts,
                      NEW v \in readers \ missed, answers[v] # "none"
               PROVE  received[v][event.revision] > 0
    BY Zenon, <1>1 DEF Events!EveryoneReminded
  <2>1. CASE clock >= event.starts BY Zenon, <2>1 DEF RemindersInv, Events!EveryoneReminded
  <2>2. CASE event.starts > clock
    <3>1. event.starts <= clock + Window BY SMTT(30), <1>2, <2>2
    <3>2. v \in reminded BY Zenon, <1>1, <1>2, <2>2, <3>1 DEF Events!Due
    <3>3. MarkTells(v) BY Zenon, <1>2 DEF RemindersInv
    <3> QED BY ZenonT(40), <1>1, <3>2, <3>3 DEF MarkTells
  <2> QED BY SMTT(30), <1>2, <2>1, <2>2
<1> QED BY ZenonT(40), <1>1, <1>3, <1>4, <1>5 DEF RemindersInv

LEMMA RemindersStep == ASSUME RemindersInv, [Events!Next]_events PROVE RemindersInv'
<1>1. CASE UNCHANGED events
  BY Zenon, <1>1 DEF events, RemindersInv, EventsTyped, NoticeRight, ReceivedOnce, MarkTells,
              Events!EveryoneReminded
<1>2. CASE Events!Next
  BY ZenonT(40), <1>2, RemindersSave, RemindersCancel, RemindersAnswer, RemindersPermission, RemindersSelect,
     RemindersMark, RemindersSend, RemindersInterrupt, RemindersTick
  DEF Events!Next
<1> QED BY <1>1, <1>2

(* When an event starts, everyone who comes and was not disturbed by an     *)
(* interruption, a move of the event or a change of access has received     *)
(* its reminder, and nobody received one twice (processEventReminders).     *)
THEOREM EventReminders == CommunitySpec => []RemindersRight
<1>1. CommunityInit => RemindersInv BY Zenon, RemindersInit DEF CommunityInit
<1>2. RemindersInv /\ [CommunityNext]_<<part, vars, schedules, events>> => RemindersInv'
  BY Zenon, RemindersStep DEF CommunityNext
<1>3. RemindersInv => RemindersRight
  BY Zenon DEF RemindersInv, ReceivedOnce, RemindersRight, Events!RemindedOnce
<1> QED BY <1>1, <1>2, <1>3, PTL DEF CommunitySpec
=============================================================================
