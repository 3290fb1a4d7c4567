--------------------------- MODULE RealtimeProofs ---------------------------
(***************************************************************************)
(* What every operation of the realtime hub rests on.  Package keylock,    *)
(* for every set of goroutines, keys and entry objects: its table of       *)
(* counted entries excludes, leaks nothing, and implements one mutex per   *)
(* key.  The registry, for any connections, users and servers: its index   *)
(* by server is exact.  The queue of a connection, for lanes of any size,  *)
(* any set of channels and any mix of events: the writer is never left     *)
(* asleep beside a queued event, and an ordinary event never waits for     *)
(* more than Burst media events.                                           *)
(***************************************************************************)
EXTENDS KeyLock, HubPresence, OutgoingQueue, FiniteSetTheorems, TLAPS

-----------------------------------------------------------------------------
(* The locks. *)

(* The goroutines that point at an entry are finitely many. *)
LEMMA UsersFinite == \A e : IsFiniteSet(UsersOf(e)) /\ Cardinality(UsersOf(e)) \in Nat
  BY Zenon, KeyLockAssumption, FS_Subset, FS_CardinalityType DEF UsersOf

(* An entry with one reference has one user: the goroutine that is leaving. *)
LEMMA OneUser ==
  ASSUME NEW e, NEW p \in UsersOf(e), Cardinality(UsersOf(e)) = 1
  PROVE  UsersOf(e) = {p}
<1>1. IsFiniteSet(UsersOf(e)) BY Zenon, UsersFinite
<1>2. IsFiniteSet(UsersOf(e) \ {p}) /\ Cardinality(UsersOf(e) \ {p}) = 0
  BY SMTT(30), <1>1, FS_RemoveElement
<1>3. UsersOf(e) \ {p} = {} BY Zenon, <1>2, FS_EmptySet
<1> QED BY Zenon, <1>3

(* No goroutine is in Lock at start. *)
LEMMA InitIInv == Init => IInv
<1> SUFFICES ASSUME Init PROVE IInv OBVIOUS
<1>1. TypeOK BY DEF Init, TypeOK, Stages
<1>2. \A e \in Ids : UsersOf(e) = {} BY Zenon DEF Init, UsersOf
<1>3. \A e \in Ids : refs[e] = Cardinality(UsersOf(e)) BY Zenon, <1>2, FS_EmptySet DEF Init
<1> QED BY Zenon, <1>1, <1>3 DEF Init, IInv

(* Every critical section of Lock and of its unlock preserves IInv. *)
LEMMA NextIInv == IInv /\ [Next]_vars => IInv'
<1> SUFFICES ASSUME IInv, [Next]_vars PROVE IInv' OBVIOUS
<1> USE DEF IInv, TypeOK, Stages
<1>1. ASSUME NEW p \in Procs, NEW k \in Keys, Lookup(p, k) PROVE IInv'
  <2>1. PICK e \in Ids :
          /\ IF entries[k] = NoEntry
             THEN /\ Unreachable(e)
                  /\ refs' = [refs EXCEPT ![e] = 1]
                  /\ mu' = [mu EXCEPT ![e] = NoProc]
             ELSE /\ e = entries[k]
                  /\ refs' = [refs EXCEPT ![e] = @ + 1]
                  /\ UNCHANGED mu
          /\ entries' = [entries EXCEPT ![k] = e]
          /\ value' = [value EXCEPT ![p] = e]
    BY Zenon, <1>1 DEF Lookup
  <2>2. /\ pc[p] = "idle"
        /\ key' = [key EXCEPT ![p] = k]
        /\ pc' = [pc EXCEPT ![p] = "waiting"]
    BY ZenonT(40), <1>1 DEF Lookup
  <2>3. TypeOK' BY SMTT(30), <2>1, <2>2
  <2>4. /\ UsersOf(e)' = UsersOf(e) \cup {p}
        /\ p \notin UsersOf(e)
        /\ \A d \in Ids : d # e => UsersOf(d)' = UsersOf(d)
    BY SMTT(30), <2>1, <2>2 DEF UsersOf
  <2>5. Cardinality(UsersOf(e)') = Cardinality(UsersOf(e)) + 1
    BY ZenonT(40), <2>4, UsersFinite, FS_AddElement
  <2>6. refs'[e] = Cardinality(UsersOf(e)')
    <3>1. CASE entries[k] = NoEntry
      <4>1. UsersOf(e) = {} BY ZenonT(40), <2>1, <3>1 DEF Unreachable
      <4> QED BY SMTT(30), <2>1, <2>5, <3>1, <4>1, FS_EmptySet
    <3>2. CASE entries[k] # NoEntry BY SMTT(30), <2>1, <2>5, <3>2
    <3> QED BY Zenon, <3>1, <3>2
  <2>7. (\A d \in Ids : refs[d] = Cardinality(UsersOf(d)))'
    BY ZenonT(40), <2>1, <2>4, <2>6
  <2>8. (\A q \in Procs : pc[q] # "idle" => entries[key[q]] = value[q])'
    BY SMTT(30), <2>1, <2>2, KeyLockAssumption
  <2>9. (\A i, j \in Keys : entries[i] = entries[j] /\ entries[i] # NoEntry => i = j)'
    BY SMTT(30), <2>1, KeyLockAssumption DEF Unreachable
  <2>10. (\A j \in Keys : entries[j] # NoEntry => UsersOf(entries[j]) # {})'
    <3> SUFFICES ASSUME NEW j \in Keys, entries'[j] # NoEntry
        PROVE UsersOf(entries[j])' # {}
      OBVIOUS
    <3>1. CASE j = k
      <4>1. entries'[j] = e BY ZenonT(40), <2>1, <3>1
      <4> QED BY ZenonT(40), <2>4, <4>1
    <3>2. CASE j # k
      <4>1. entries'[j] = entries[j] BY ZenonT(40), <2>1, <3>2
      <4>2. PICK d \in Ids : d = entries[j] BY SMTT(30), <4>1
      <4>3. UsersOf(d) # {} BY ZenonT(40), <4>1, <4>2
      <4>4. UsersOf(d)' # {} BY ZenonT(40), <2>4, <4>3
      <4> QED BY ZenonT(40), <4>1, <4>2, <4>4
    <3> QED BY ZenonT(40), <3>1, <3>2
  <2>11. (\A q \in Procs : pc[q] = "holding" => mu[value[q]] = q)'
    BY SMTT(30), <2>1, <2>2 DEF Unreachable, UsersOf
  <2> QED BY ZenonT(40), <2>3, <2>7, <2>8, <2>9, <2>10, <2>11
<1>2. ASSUME NEW p \in Procs, Enter(p) PROVE IInv'
  <2>1. \A d \in Ids : UsersOf(d)' = UsersOf(d) BY ZenonT(40), <1>2 DEF Enter, UsersOf
  <2> QED BY SMTT(30), <1>2, <2>1, KeyLockAssumption DEF Enter
<1>3. ASSUME NEW p \in Procs, Unlock(p) PROVE IInv'
  <2>1. \A d \in Ids : UsersOf(d)' = UsersOf(d) BY ZenonT(40), <1>3 DEF Unlock, UsersOf
  <2> QED BY SMTT(30), <1>3, <2>1 DEF Unlock
<1>4. ASSUME NEW p \in Procs, Forget(p) PROVE IInv'
  <2>0. PICK e \in Ids : e = value[p] OBVIOUS
  <2>1. /\ pc[p] = "unlocking" /\ entries[key[p]] = e
        /\ refs' = [refs EXCEPT ![e] = @ - 1]
        /\ entries' = IF refs[e] = 1 THEN [entries EXCEPT ![key[p]] = NoEntry] ELSE entries
        /\ pc' = [pc EXCEPT ![p] = "idle"]
        /\ mu' = mu /\ key' = key /\ value' = value
    BY ZenonT(40), <1>4, <2>0 DEF Forget, LastUser
  <2>2. TypeOK' BY SMTT(30), <2>1
  <2>3. /\ UsersOf(e)' = UsersOf(e) \ {p}
        /\ p \in UsersOf(e)
        /\ \A d \in Ids : d # e => UsersOf(d)' = UsersOf(d)
    BY ZenonT(40), <2>0, <2>1 DEF UsersOf
  <2>4. Cardinality(UsersOf(e)') = Cardinality(UsersOf(e)) - 1
    <3>1. IsFiniteSet(UsersOf(e)) BY Zenon, UsersFinite
    <3>2. Cardinality(UsersOf(e) \ {p}) = Cardinality(UsersOf(e)) - 1
      BY ZenonT(40), <2>3, <3>1, FS_RemoveElement
    <3> QED BY ZenonT(40), <2>3, <3>2
  <2>5. (\A d \in Ids : refs[d] = Cardinality(UsersOf(d)))'
    BY ZenonT(40), <2>1, <2>3, <2>4
  <2>6. refs[e] = 1 => UsersOf(e) = {p} BY SMTT(30), <2>1, <2>3, OneUser
  <2>7. refs[e] # 1 => UsersOf(e)' # {}
    <3>1. refs[e] = Cardinality(UsersOf(e)) /\ Cardinality(UsersOf(e)) \in Nat
      BY ZenonT(40), UsersFinite
    <3>2. refs[e] # 1 => Cardinality(UsersOf(e)') # 0 BY SMTT(30), <2>4, <3>1
    <3> QED BY ZenonT(40), <3>2, FS_EmptySet
  <2>8. (\A q \in Procs : pc[q] # "idle" => entries[key[q]] = value[q])'
    BY SMTT(30), <2>1, <2>6 DEF UsersOf
  <2>9. (\A i, j \in Keys : entries[i] = entries[j] /\ entries[i] # NoEntry => i = j)'
    BY Zenon, <2>1
  <2>10. (\A j \in Keys : entries[j] # NoEntry => UsersOf(entries[j]) # {})'
    <3> SUFFICES ASSUME NEW j \in Keys, entries'[j] # NoEntry
        PROVE UsersOf(entries[j])' # {}
      OBVIOUS
    <3>1. entries'[j] = entries[j] BY ZenonT(40), <2>1
    <3>2. PICK d \in Ids : d = entries[j] BY SMTT(30), <3>1
    <3>3. UsersOf(d) # {} BY ZenonT(40), <3>1, <3>2
    <3>4. CASE d = e
      <4>1. j = key[p] BY ZenonT(40), <2>1, <3>1, <3>2, <3>4
      <4>2. refs[e] # 1 BY ZenonT(40), <2>1, <4>1
      <4> QED BY ZenonT(40), <2>7, <3>1, <3>2, <3>4, <4>2
    <3>5. CASE d # e
      <4>1. UsersOf(d)' # {} BY ZenonT(40), <2>3, <3>3, <3>5
      <4> QED BY ZenonT(40), <3>1, <3>2, <4>1
    <3> QED BY ZenonT(40), <3>4, <3>5
  <2>11. (\A q \in Procs : pc[q] = "holding" => mu[value[q]] = q)'
    BY ZenonT(40), <2>1
  <2> QED BY ZenonT(40), <2>2, <2>5, <2>8, <2>9, <2>10, <2>11
<1>5. CASE UNCHANGED vars
  <2>1. \A d \in Ids : UsersOf(d)' = UsersOf(d) BY Zenon, <1>5 DEF UsersOf, vars
  <2> QED BY SMTT(30), <1>5, <2>1 DEF vars
<1> QED BY ZenonT(40), <1>1, <1>2, <1>3, <1>4, <1>5 DEF Next

(* The inductive invariant holds in every reachable state. *)
THEOREM Invariance == Spec => []IInv
  BY InitIInv, NextIInv, PTL DEF Spec

(* Two goroutines never hold one key, for any number of goroutines and keys. *)
THEOREM Exclusion == Spec => []MutualExclusion
<1>1. IInv => MutualExclusion BY SMTT(30) DEF IInv, MutualExclusion
<1> QED BY <1>1, Invariance, PTL

(* The table holds no entry of a key nobody is locking. *)
THEOREM NoLeak == Spec => []NoLeakedEntry
<1>1. IInv => NoLeakedEntry
  <2> SUFFICES ASSUME IInv, NEW k \in Keys
      PROVE (entries[k] # NoEntry) <=> (\E p \in Procs : pc[p] # "idle" /\ key[p] = k)
    BY Zenon DEF NoLeakedEntry
  <2>1. ASSUME entries[k] # NoEntry PROVE \E p \in Procs : pc[p] # "idle" /\ key[p] = k
    BY SMTT(30), <2>1 DEF IInv, TypeOK, UsersOf
  <2>2. ASSUME NEW p \in Procs, pc[p] # "idle", key[p] = k PROVE entries[k] # NoEntry
    BY SMTT(30), <2>2, KeyLockAssumption DEF IInv, TypeOK
  <2> QED BY Zenon, <2>1, <2>2
<1> QED BY <1>1, Invariance, PTL

(* The abstract owner of a key is its one holder, or nobody. *)
LEMMA HolderIs ==
  ASSUME MutualExclusion, NEW k
  PROVE  /\ \A p \in Procs : pc[p] = "holding" /\ key[p] = k => Holder(k) = p
         /\ (\A p \in Procs : ~(pc[p] = "holding" /\ key[p] = k)) => Holder(k) = NoProc
  BY Zenon DEF MutualExclusion, Holder

(* The table of counted entries implements one mutex per key: Lookup asks,  *)
(* Enter is granted, Unlock gives back, and Forget is invisible.            *)
THEOREM Refinement == Spec => ImplementsPerKeyMutex
<1>1. Init => Abstract!AInit
  BY Zenon DEF Init, Abstract!AInit, Holder, Wanted
<1>2. IInv /\ IInv' /\ [Next]_vars => [Abstract!ANext]_(Abstract!avars)
  <2> SUFFICES ASSUME IInv, IInv', [Next]_vars PROVE [Abstract!ANext]_(Abstract!avars)
    BY SMTT(30)
  <2>0. MutualExclusion /\ MutualExclusion' BY DEF IInv, MutualExclusion
  <2>h. \A k \in Keys :
          /\ \A p \in Procs : pc[p] = "holding" /\ key[p] = k => Holder(k) = p
          /\ (\A p \in Procs : ~(pc[p] = "holding" /\ key[p] = k)) => Holder(k) = NoProc
    BY ZenonT(40), <2>0, HolderIs
  <2>i. \A k \in Keys :
          /\ \A p \in Procs : (pc[p] = "holding")' /\ (key[p])' = k => Holder(k)' = p
          /\ (\A p \in Procs : ~((pc[p] = "holding")' /\ (key[p])' = k)) => Holder(k)' = NoProc
    BY ZenonT(40), <2>0 DEF MutualExclusion, Holder
  <2> USE KeyLockAssumption DEF IInv, TypeOK, Stages
  <2>1. ASSUME NEW p \in Procs, NEW k \in Keys, Lookup(p, k) PROVE Abstract!Ask(p, k)
    <3>1. /\ pc[p] = "idle" /\ pc' = [pc EXCEPT ![p] = "waiting"]
          /\ key' = [key EXCEPT ![p] = k]
      BY ZenonT(40), <2>1 DEF Lookup
    <3>2. \A j \in Keys : Holder(j)' = Holder(j)
      <4> SUFFICES ASSUME NEW j \in Keys PROVE Holder(j)' = Holder(j) OBVIOUS
      <4>1. \A q \in Procs : (pc'[q] = "holding" /\ key'[q] = j) <=> (pc[q] = "holding" /\ key[q] = j)
        BY ZenonT(40), <3>1
      <4> QED BY SMTT(30), <4>1, <2>h, <2>i
    <3>3. \A j \in Keys : Holder(j) # p
      BY ZenonT(40), <3>1, <2>h DEF Holder
    <3>4. /\ Wanted(p) = {} /\ Wanted(p)' = {k}
          /\ \A q \in Procs : q # p => Wanted(q)' = Wanted(q)
      BY Zenon, <3>1 DEF Wanted
    <3>5. UNCHANGED [j \in Keys |-> Holder(j)]
      BY Zenon, <3>2
    <3>6. [q \in Procs |-> Wanted(q)]' = [[q \in Procs |-> Wanted(q)] EXCEPT ![p] = {k}]
      BY Zenon, <3>4
    <3> QED BY ZenonT(40), <3>3, <3>4, <3>5, <3>6 DEF Abstract!Ask
  <2>2. ASSUME NEW p \in Procs, Enter(p) PROVE Abstract!Grant(p, key[p])
    <3>1. /\ pc[p] = "waiting" /\ pc' = [pc EXCEPT ![p] = "holding"] /\ key' = key
          /\ mu[value[p]] = NoProc
      BY ZenonT(40), <2>2 DEF Enter
    <3>2. \A q \in Procs : ~(pc[q] = "holding" /\ key[q] = key[p]) BY SMTT(30), <3>1
    <3>3. Holder(key[p]) = NoProc BY ZenonT(40), <3>2, <2>h
    <3>4. PICK k \in Keys : k = key[p] OBVIOUS
    <3>5. Holder(k)' = p BY ZenonT(40), <3>1, <3>4, <2>i
    <3>6. \A j \in Keys : j # k => Holder(j)' = Holder(j)
      <4> SUFFICES ASSUME NEW j \in Keys, j # k PROVE Holder(j)' = Holder(j) OBVIOUS
      <4>1. \A q \in Procs : (pc'[q] = "holding" /\ key'[q] = j) <=> (pc[q] = "holding" /\ key[q] = j)
        BY ZenonT(40), <3>1, <3>4
      <4> QED BY SMTT(30), <4>1, <2>h, <2>i
    <3>7. /\ Wanted(p) = {k} /\ Wanted(p)' = {}
          /\ \A q \in Procs : q # p => Wanted(q)' = Wanted(q)
      BY ZenonT(40), <3>1, <3>4 DEF Wanted
    <3>8. [j \in Keys |-> Holder(j)]' = [[j \in Keys |-> Holder(j)] EXCEPT ![k] = p]
      BY ZenonT(40), <3>5, <3>6
    <3>9. [q \in Procs |-> Wanted(q)]' = [[q \in Procs |-> Wanted(q)] EXCEPT ![p] = {}]
      BY ZenonT(40), <3>7
    <3>10. Abstract!Grant(p, k) BY ZenonT(40), <3>3, <3>4, <3>7, <3>8, <3>9 DEF Abstract!Grant
    <3> QED BY ZenonT(40), <3>4, <3>10
  <2>3. ASSUME NEW p \in Procs, Unlock(p) PROVE Abstract!Give(p, key[p])
    <3>1. /\ pc[p] = "holding" /\ pc' = [pc EXCEPT ![p] = "unlocking"] /\ key' = key
      BY Zenon, <2>3 DEF Unlock
    <3>2. PICK k \in Keys : k = key[p] OBVIOUS
    <3>3. Holder(k) = p BY ZenonT(40), <3>1, <3>2, <2>h
    <3>4. \A q \in Procs : ~(pc'[q] = "holding" /\ key'[q] = k)
      BY ZenonT(40), <3>1, <3>2, <2>0 DEF MutualExclusion
    <3>5. Holder(k)' = NoProc BY ZenonT(40), <3>4, <2>i
    <3>6. \A j \in Keys : j # k => Holder(j)' = Holder(j)
      <4> SUFFICES ASSUME NEW j \in Keys, j # k PROVE Holder(j)' = Holder(j) OBVIOUS
      <4>1. \A q \in Procs : (pc'[q] = "holding" /\ key'[q] = j) <=> (pc[q] = "holding" /\ key[q] = j)
        BY ZenonT(40), <3>1, <3>2
      <4> QED BY <4>1, <2>h, <2>i
    <3>7. \A q \in Procs : Wanted(q)' = Wanted(q) BY Zenon, <3>1 DEF Wanted
    <3>8. [j \in Keys |-> Holder(j)]' = [[j \in Keys |-> Holder(j)] EXCEPT ![k] = NoProc]
      BY ZenonT(40), <3>5, <3>6
    <3>9. UNCHANGED [q \in Procs |-> Wanted(q)]
      BY Zenon, <3>7
    <3>10. Abstract!Give(p, k) BY ZenonT(40), <3>3, <3>8, <3>9 DEF Abstract!Give
    <3> QED BY Zenon, <3>2, <3>10
  <2>4. ASSUME \/ \E p \in Procs : Forget(p)
               \/ UNCHANGED vars
        PROVE UNCHANGED Abstract!avars
    <3>1. /\ key' = key
          /\ \A q \in Procs : /\ (pc'[q] = "holding") <=> (pc[q] = "holding")
                              /\ (pc'[q] = "waiting") <=> (pc[q] = "waiting")
      BY SMTT(30), <2>4 DEF Forget, vars
    <3>2. \A j \in Keys : Holder(j)' = Holder(j)
      <4> SUFFICES ASSUME NEW j \in Keys PROVE Holder(j)' = Holder(j) OBVIOUS
      <4>1. \A q \in Procs : (pc'[q] = "holding" /\ key'[q] = j) <=> (pc[q] = "holding" /\ key[q] = j)
        BY Zenon, <3>1
      <4> QED BY SMTT(30), <4>1, <2>h, <2>i
    <3>3. \A q \in Procs : Wanted(q)' = Wanted(q) BY Zenon, <3>1 DEF Wanted
    <3> QED BY SMTT(30), <3>2, <3>3 DEF Abstract!avars
  <2> QED BY ZenonT(40), <2>1, <2>2, <2>3, <2>4 DEF Next, Abstract!ANext
<1> QED BY <1>1, <1>2, Invariance, PTL DEF Spec, ImplementsPerKeyMutex, Abstract!ASpec
-----------------------------------------------------------------------------
(* The hub's index.  For any number of connections, users, servers and     *)
(* membership changes, and every combination of operations: the index from *)
(* servers to connections is exact.                                        *)
(* removeClientServer takes one pair out of both sides of the index. *)
LEMMA RemoveKeepsIndex ==
  ASSUME IndexInv, NEW c \in Conns, NEW s \in Servers, NEW announce, NEW by,
         removeClientServer(c, s, announce, by),
         clients' = clients, stage' = stage, member' = member
  PROVE  /\ byServer' \in [Servers -> SUBSET Conns]
         /\ servers' \in [Conns -> SUBSET Servers]
         /\ IndexExact'
<1>1. /\ servers' = [servers EXCEPT ![c] = @ \ {s}]
      /\ byServer' = [byServer EXCEPT ![s] = @ \ {c}]
  BY Zenon DEF removeClientServer
<1>2. /\ byServer' \in [Servers -> SUBSET Conns]
      /\ servers' \in [Conns -> SUBSET Servers]
  BY ZenonT(40), <1>1 DEF IndexInv
<1>3. ASSUME NEW t \in Servers PROVE byServer'[t] = {d \in clients' : t \in servers'[d]}
  BY SMTT(30), <1>1 DEF IndexInv, IndexExact
<1> QED BY Zenon, <1>2, <1>3 DEF IndexExact

(* Every operation of the hub preserves the exactness of the index. *)
LEMMA NextIndexInv ==
  ASSUME IndexInv, [HubNext]_hubVars PROVE IndexInv'
<1> USE HubAssumption
<1>1. ASSUME NEW c \in Conns, ListMemberships(c) PROVE IndexInv'
  BY ZenonT(40), <1>1 DEF ListMemberships, IndexInv, IndexExact
<1>2. ASSUME NEW c \in Conns, Register(c) PROVE IndexInv'
  <2>1. ASSUME NEW t \in Servers PROVE byServer'[t] = {d \in clients' : t \in servers'[d]}
    BY Zenon, <1>2 DEF Register, IndexInv, IndexExact
  <2> QED BY SMTT(30), <1>2, <2>1 DEF Register, IndexInv, IndexExact
<1>3. ASSUME NEW c \in Conns, RegisterPresence(c) PROVE IndexInv'
  BY Zenon, <1>3 DEF RegisterPresence, IndexInv, IndexExact
<1>4. ASSUME NEW c \in Conns, Registered(c) PROVE IndexInv'
  BY Zenon, <1>4 DEF Registered, IndexInv, IndexExact
<1>5. ASSUME NEW c \in Conns, Detach(c) PROVE IndexInv'
  <2>1. ASSUME NEW t \in Servers PROVE byServer'[t] = {d \in clients' : t \in servers'[d]}
    BY Zenon, <1>5 DEF Detach, IndexInv, IndexExact
  <2> QED BY ZenonT(40), <1>5, <2>1 DEF Detach, IndexInv, IndexExact
<1>6. ASSUME NEW c \in Conns, NEW s \in Servers, UnregisterServer(c, s) PROVE IndexInv'
  <2>1. /\ removeClientServer(c, s, TRUE, <<"unregister", c>>)
        /\ UNCHANGED <<clients, stage, member, admin>>
    BY Zenon, <1>6 DEF UnregisterServer
  <2>2. /\ byServer' \in [Servers -> SUBSET Conns]
        /\ servers' \in [Conns -> SUBSET Servers]
        /\ IndexExact'
    BY ZenonT(40), <2>1, RemoveKeepsIndex
  <2> QED BY ZenonT(40), <2>1, <2>2 DEF IndexInv
<1>7. ASSUME NEW c \in Conns, AddUserToServer(c) PROVE IndexInv'
  <2>1. PICK s \in Servers : s = admin.s BY Zenon, <1>7 DEF AddUserToServer, IndexInv
  <2>2. /\ UNCHANGED <<clients, stage, member>>
        /\ \/ admin' = [admin EXCEPT !.todo = @ \ {c}]
           \/ admin' = [admin EXCEPT !.todo = @ \ {c}, !.drop = @ \cup {c}]
    BY ZenonT(40), <1>7 DEF AddUserToServer
  <2>3. /\ admin'.s = admin.s /\ admin'.at = admin.at
        /\ admin'.todo \subseteq Conns /\ DOMAIN admin' = DOMAIN admin
    <3>1. CASE admin' = [admin EXCEPT !.todo = @ \ {c}] BY ZenonT(40), <3>1 DEF IndexInv
    <3>2. CASE admin' = [admin EXCEPT !.todo = @ \ {c}, !.drop = @ \cup {c}]
      BY ZenonT(40), <3>2 DEF IndexInv
    <3> QED BY ZenonT(40), <2>2, <3>1, <3>2
  <2>4. CASE MayAdd(c, s)
    <3>1. /\ servers' = [servers EXCEPT ![c] = @ \cup {s}]
          /\ byServer' = [byServer EXCEPT ![s] = @ \cup {c}]
      BY ZenonT(40), <1>7, <2>1, <2>4 DEF AddUserToServer
    <3>2. /\ servers' \in [Conns -> SUBSET Servers] /\ byServer' \in [Servers -> SUBSET Conns]
      BY SMTT(30), <3>1 DEF IndexInv
    <3>3. ASSUME NEW t \in Servers PROVE byServer'[t] = {d \in clients' : t \in servers'[d]}
      BY SMTT(30), <2>2, <2>4, <3>1 DEF MayAdd, IndexInv, IndexExact
    <3> QED BY ZenonT(40), <2>2, <2>3, <3>2, <3>3 DEF IndexInv, IndexExact
  <2>5. CASE ~MayAdd(c, s)
    <3>1. UNCHANGED <<servers, byServer>> BY ZenonT(40), <1>7, <2>1, <2>5 DEF AddUserToServer
    <3> QED BY ZenonT(40), <2>2, <2>3, <3>1 DEF IndexInv, IndexExact
  <2> QED BY ZenonT(40), <2>4, <2>5
<1>8. ASSUME NEW c \in Conns, RevokeFromServer(c) PROVE IndexInv'
  <2>1. /\ UNCHANGED <<clients, stage, member>>
        /\ admin' = [admin EXCEPT !.todo = @ \ {c}]
        /\ admin.s \in Servers
    BY Zenon, <1>8 DEF RevokeFromServer, Revoking, IndexInv
  <2>2. CASE removeClientServer(c, admin.s, FALSE, <<"revoke", c>>)
    <3>1. PICK s \in Servers : s = admin.s BY Zenon, <2>1
    <3>2. removeClientServer(c, s, FALSE, <<"revoke", c>>) BY ZenonT(40), <2>2, <3>1
    <3>3. /\ byServer' \in [Servers -> SUBSET Conns]
          /\ servers' \in [Conns -> SUBSET Servers]
          /\ IndexExact'
      BY ZenonT(40), <2>1, <3>2, RemoveKeepsIndex
    <3> QED BY ZenonT(40), <2>1, <3>3 DEF IndexInv
  <2>3. CASE UNCHANGED <<servers, byServer, presence, counted, casts>>
    BY ZenonT(40), <2>1, <2>3 DEF IndexInv, IndexExact
  <2> QED BY ZenonT(40), <1>8, <2>2, <2>3 DEF RevokeFromServer
<1>9. CASE Deliver
  <2>1. UNCHANGED <<clients, byServer, servers, stage, member, admin>>
    BY Zenon, <1>9 DEF Deliver, CastLock, CastRecheck, CastList, CastSend, SnapRead, SnapSend, registry
  <2> QED BY Zenon, <2>1 DEF IndexInv, IndexExact
<1>10. ASSUME NEW op, NEW u \in Users, NEW s \in Servers, Commit(op, u, s) PROVE IndexInv'
  BY Zenon, <1>10 DEF Commit, registry, IndexInv, IndexExact
<1>11. CASE Begin
  <2>1. UNCHANGED <<clients, byServer, servers, stage, member>> BY Zenon, <1>11 DEF Begin, registry
  <2>2. /\ admin'.s = admin.s /\ admin.s \in Servers
        /\ admin'.todo \subseteq Conns /\ DOMAIN admin' = DOMAIN admin
    BY Zenon, <1>11 DEF Begin, IndexInv, ConnsOf
  <2> QED BY ZenonT(40), <2>1, <2>2 DEF IndexInv, IndexExact
<1>12. CASE Leave BY Zenon, <1>12 DEF Leave, NoAdmin, IndexInv, IndexExact
<1>13. CASE UNCHANGED hubVars BY Zenon, <1>13 DEF hubVars, IndexInv, IndexExact
<1> QED BY ZenonT(40), <1>1, <1>2, <1>3, <1>4, <1>5, <1>6, <1>7, <1>8, <1>9, <1>10, <1>11, <1>12, <1>13
        DEF HubNext, ConnStep

(* The index from servers to connections is exact in every reachable state, *)
(* so a server broadcast reaches exactly the server's connections.          *)
THEOREM IndexIsExact == HubSpec => []IndexExact
<1>1. HubInit => IndexInv BY SMTT(30), HubAssumption DEF HubInit, NoAdmin, IndexInv, IndexExact
<1>2. IndexInv => IndexExact BY Zenon DEF IndexInv
<1>3. IndexInv /\ [HubNext]_hubVars => IndexInv' BY Zenon, NextIndexInv
<1> QED BY <1>1, <1>2, <1>3, PTL DEF HubSpec
-----------------------------------------------------------------------------
(* The queue of a connection. *)
(* An empty ordinary lane accepts every event. *)
LEMMA EmptyAccepts ==
  ASSUME NEW e PROVE EnqueueOrdinary(<<>>, e) # {}
<1>1. {i \in DOMAIN <<>> : /\ replacementKey(e) # <<>>
                           /\ replacementKey(<<>>[i]) = replacementKey(e)} = {}
  OBVIOUS
<1>2. ~ \E ch \in eventMessageChannel(e), i \in DOMAIN <<>> : <<>>[i] = Marker(ch) OBVIOUS
<1>3. Len(<<>>) = 0 /\ 0 < Cap BY SMTT(30), QueueAssumption
<1>4. EnqueueOrdinary(<<>>, e) = {Append(<<>>, e)} BY SMTT(30), <1>1, <1>2, <1>3 DEF EnqueueOrdinary
<1> QED BY Zenon, <1>4

(* Replacing the channel policy leaves an empty lane empty. *)
LEMMA EmptyStaysEmpty == \A access : FilterLane(<<>>, access) = <<>>
  BY DEF FilterLane

(* Whatever is published, and however the enqueue ends, the turn counters   *)
(* of PopOutgoing do not move.                                              *)
THEOREM OrdinaryTurn == QueueSpec => []OrdinaryGetsATurn
<1> USE QueueAssumption
<1>1. QueueInit => TurnInv BY DEF QueueInit, NewClient, TurnInv
<1>2. TurnInv /\ [QueueNext]_queueVars => TurnInv'
  <2> SUFFICES ASSUME TurnInv, [QueueNext]_queueVars PROVE TurnInv' OBVIOUS
  <2>1. CASE PublishAny BY ZenonT(40), <2>1 DEF PublishAny, Publish, TurnInv
  <2>2. ASSUME NEW ch \in Channels, Subscribe(ch) \/ Unsubscribe(ch) PROVE TurnInv'
    BY SMTT(30), <2>2 DEF Subscribe, Unsubscribe, TurnInv
  <2>3. ASSUME NEW ids, replaceChannelAccess(ids) PROVE TurnInv'
    BY SMTT(30), <2>3 DEF replaceChannelAccess, TurnInv
  <2>4. CASE PopOutgoing
    <3>1. CASE PopMedia BY SMTT(30), <3>1 DEF PopMedia, MediaTurn, TurnInv
    <3>2. CASE PopOrdinary BY SMTT(30), <3>2 DEF PopOrdinary, TurnInv
    <3>3. CASE PopNothing BY SMTT(30), <3>3 DEF PopNothing, TurnInv
    <3> QED BY SMTT(30), <2>4, <3>1, <3>2, <3>3 DEF PopOutgoing
  <2>5. CASE Wake \/ WriterStops BY SMTT(30), <2>5 DEF Wake, WriterStops, TurnInv
  <2>6. ASSUME NEW why, Close(why) PROVE TurnInv' BY SMTT(30), <2>6 DEF Close, TurnInv
  <2>7. CASE UNCHANGED queueVars BY SMTT(30), <2>7 DEF queueVars, TurnInv
  <2> QED BY ZenonT(40), <2>1, <2>2, <2>3, <2>4, <2>5, <2>6, <2>7 DEF QueueNext
<1>3. TurnInv => OrdinaryGetsATurn BY DEF TurnInv, OrdinaryGetsATurn
<1> QED BY <1>1, <1>2, <1>3, PTL DEF QueueSpec

(* While a lane holds an event, the writer is about to pop or its token is  *)
(* set: an enqueue that is accepted sets it, one that is refused met a full *)
(* lane, a pop renews it, and a policy change only removes events.          *)
THEOREM WakeupKept == QueueSpec => []NoLostWakeup
<1> USE DEF NoLostWakeup
<1>1. QueueInit => NoLostWakeup BY DEF QueueInit, NewClient
<1>2. NoLostWakeup /\ [QueueNext]_queueVars => NoLostWakeup'
  <2> SUFFICES ASSUME NoLostWakeup, [QueueNext]_queueVars PROVE NoLostWakeup' BY SMTT(30)
  <2>1. ASSUME NEW kind, NEW chs, Publish(kind, chs) PROVE NoLostWakeup'
    <3>1. PICK e : enqueue(e) BY SMTT(30), <2>1 DEF Publish
    <3>2. writer' = writer BY SMTT(30), <2>1 DEF Publish
    <3>3. ASSUME NEW f, EnqueueMedia(f), UNCHANGED outgoing PROVE NoLostWakeup'
      <4>1. CASE Len(priority) = Cap BY SMTT(30), <3>2, <3>3, <4>1 DEF EnqueueMedia
      <4>2. CASE Len(priority) # Cap BY SMTT(30), <3>2, <3>3, <4>2 DEF EnqueueMedia, Accept
      <4> QED BY SMTT(30), <4>1, <4>2
    <3>4. ASSUME NEW f, EnqueueChat(f), UNCHANGED priority PROVE NoLostWakeup'
      <4>1. CASE EnqueueOrdinary(outgoing, f) = {}
        <5>1. outgoing # <<>> BY SMTT(30), <4>1, EmptyAccepts
        <5>2. ready' = ready BY SMTT(30), <3>4, <4>1 DEF EnqueueChat
        <5> QED BY SMTT(30), <3>2, <5>1, <5>2
      <4>2. CASE EnqueueOrdinary(outgoing, f) # {}
        BY SMTT(30), <3>2, <3>4, <4>2 DEF EnqueueChat, Accept
      <4> QED BY SMTT(30), <4>1, <4>2
    <3> QED BY SMTT(30), <3>1, <3>2, <3>3, <3>4 DEF enqueue
  <2>2. ASSUME NEW ch \in Channels, Subscribe(ch) \/ Unsubscribe(ch) PROVE NoLostWakeup'
    BY SMTT(30), <2>2 DEF Subscribe, Unsubscribe
  <2>3. ASSUME NEW ids, replaceChannelAccess(ids) PROVE NoLostWakeup'
    <3>1. /\ outgoing' = FilterLane(outgoing, ids) /\ priority' = FilterLane(priority, ids)
          /\ ready' = ready /\ writer' = writer
      BY SMTT(30), <2>3 DEF replaceChannelAccess, Purge
    <3>2. outgoing' # <<>> => outgoing # <<>> BY SMTT(30), <3>1, EmptyStaysEmpty
    <3>3. priority' # <<>> => priority # <<>> BY SMTT(30), <3>1, EmptyStaysEmpty
    <3> QED BY SMTT(30), <3>1, <3>2, <3>3
  <2>4. CASE PopOutgoing BY ZenonT(40), <2>4 DEF PopOutgoing, NotifyRest
  <2>5. CASE Wake \/ WriterStops BY SMTT(30), <2>5 DEF Wake, WriterStops
  <2>6. ASSUME NEW why, Close(why) PROVE NoLostWakeup' BY SMTT(30), <2>6 DEF Close
  <2>7. CASE UNCHANGED queueVars BY SMTT(30), <2>7 DEF queueVars
  <2>8. CASE PublishAny BY Zenon, <2>1, <2>8 DEF PublishAny
  <2> QED BY ZenonT(40), <2>2, <2>3, <2>4, <2>5, <2>6, <2>7, <2>8 DEF QueueNext
<1> QED BY <1>1, <1>2, PTL DEF QueueSpec
=============================================================================
