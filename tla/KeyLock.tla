------------------------------ MODULE KeyLock ------------------------------
(***************************************************************************)
(* The reference-counted table of per-key mutexes of                       *)
(* src/internal/keylock/keylock.go.  The hub serializes media transitions  *)
(* and presence broadcasts of one user with it, the WebSocket handler the  *)
(* voice joins of one user.                                                *)
(*                                                                         *)
(* Lock(key) looks the key's entry up (or creates it) and counts itself in *)
(* under the table's mutex, then blocks on the entry's own mutex.  The     *)
(* function it returns unlocks the entry, then counts itself out under the *)
(* table's mutex and deletes the entry at zero.  Entries are therefore     *)
(* created and deleted while other goroutines wait on them: the hazard is  *)
(* two goroutines of one key on two different entries.                     *)
(***************************************************************************)
EXTENDS Integers, FiniteSets

CONSTANTS Procs,    \* goroutines
          Keys,     \* keys
          Ids,      \* entry objects
          NoEntry,  \* "no entry in the table"
          NoProc    \* "mutex not locked"

ASSUME KeyLockAssumption ==
  /\ IsFiniteSet(Procs)
  /\ NoEntry \notin Ids
  /\ NoProc \notin Procs
  /\ Keys # {} /\ Ids # {}

VARIABLES entries,  \* Set.entries: the table
          refs,     \* entry.refs
          mu,       \* entry.mu: the goroutine that holds it
          pc,       \* where each goroutine is in Lock and in its unlock
          key,      \* the key argument of its Lock
          value     \* the entry pointer it got

vars == <<entries, refs, mu, pc, key, value>>

Stages == {"idle", "waiting", "holding", "unlocking"}

Init == /\ entries = [k \in Keys |-> NoEntry]
        /\ refs = [e \in Ids |-> 0]
        /\ mu = [e \in Ids |-> NoProc]
        /\ pc = [p \in Procs |-> "idle"]
        /\ key \in [Procs -> Keys]
        /\ value \in [Procs -> Ids]

(* The goroutines that hold a pointer to entry e. *)
UsersOf(e) == {p \in Procs : pc[p] # "idle" /\ value[p] = e}

(* &entry{} is memory nobody can reach. *)
Unreachable(e) == UsersOf(e) = {} /\ \A k \in Keys : entries[k] # e

(* The table half of Lock: one critical section of the table's mutex. *)
Lookup(p, k) ==
  /\ pc[p] = "idle"
  /\ \E e \in Ids :
       /\ IF entries[k] = NoEntry
          THEN /\ Unreachable(e)
               /\ refs' = [refs EXCEPT ![e] = 1]
               /\ mu' = [mu EXCEPT ![e] = NoProc]
          ELSE /\ e = entries[k]
               /\ refs' = [refs EXCEPT ![e] = @ + 1]
               /\ UNCHANGED mu
       /\ entries' = [entries EXCEPT ![k] = e]
       /\ value' = [value EXCEPT ![p] = e]
  /\ key' = [key EXCEPT ![p] = k]
  /\ pc' = [pc EXCEPT ![p] = "waiting"]

(* value.mu.Lock() *)
Enter(p) ==
  /\ pc[p] = "waiting"
  /\ mu[value[p]] = NoProc
  /\ mu' = [mu EXCEPT ![value[p]] = p]
  /\ pc' = [pc EXCEPT ![p] = "holding"]
  /\ UNCHANGED <<entries, refs, key, value>>

(* value.mu.Unlock(), the first half of the function Lock returned. *)
Unlock(p) ==
  /\ pc[p] = "holding"
  /\ mu' = [mu EXCEPT ![value[p]] = NoProc]
  /\ pc' = [pc EXCEPT ![p] = "unlocking"]
  /\ UNCHANGED <<entries, refs, key, value>>

(* Mutants of the test below: the entry is dropped although others wait on *)
(* it; the entry is never dropped.                                         *)
LastUserAlways(p) == TRUE
LastUserNever(p) == FALSE
(* value.refs == 0 after the decrement *)
LastUser(p) == refs[value[p]] = 1

(* The second half of the unlock function. *)
Forget(p) ==
  /\ pc[p] = "unlocking"
  /\ refs' = [refs EXCEPT ![value[p]] = @ - 1]
  /\ entries' = IF LastUser(p) THEN [entries EXCEPT ![key[p]] = NoEntry] ELSE entries
  /\ pc' = [pc EXCEPT ![p] = "idle"]
  /\ UNCHANGED <<mu, key, value>>

Next == \E p \in Procs : \/ \E k \in Keys : Lookup(p, k)
                         \/ Enter(p)
                         \/ Unlock(p)
                         \/ Forget(p)

Spec == Init /\ [][Next]_vars

----------------------------------------------------------------------------
TypeOK == /\ entries \in [Keys -> Ids \cup {NoEntry}]
          /\ refs \in [Ids -> Int]
          /\ mu \in [Ids -> Procs \cup {NoProc}]
          /\ pc \in [Procs -> Stages]
          /\ key \in [Procs -> Keys]
          /\ value \in [Procs -> Ids]

(* Two goroutines are never inside the critical section of one key, although *)
(* entries are deleted and created again while goroutines wait: the promise  *)
(* of mediaTransitions, presenceBroadcasts and voiceJoins.                   *)
MutualExclusion ==
  \A p, q \in Procs :
    pc[p] = "holding" /\ pc[q] = "holding" /\ key[p] = key[q] => p = q

(* The table holds an entry exactly as long as some goroutine is between the *)
(* first statement of Lock and the last of its unlock: the map does not grow *)
(* with the number of users that ever locked.                                *)
NoLeakedEntry ==
  \A k \in Keys : (entries[k] # NoEntry) <=> (\E p \in Procs : pc[p] # "idle" /\ key[p] = k)

(* The inductive invariant: whoever is inside Lock or its unlock for a key  *)
(* points at the entry the table holds for that key, an entry serves one    *)
(* key, the count is the number of pointers, and a locked entry is held by  *)
(* the goroutine its mutex names.                                           *)
IInv ==
  /\ TypeOK
  /\ \A p \in Procs : pc[p] # "idle" => entries[key[p]] = value[p]
  /\ \A j, k \in Keys : entries[j] = entries[k] /\ entries[j] # NoEntry => j = k
  /\ \A k \in Keys : entries[k] # NoEntry => UsersOf(entries[k]) # {}
  /\ \A e \in Ids : refs[e] = Cardinality(UsersOf(e))
  /\ \A p \in Procs : pc[p] = "holding" => mu[value[p]] = p

(* Projection onto the abstract per-key mutex. *)
Holder(k) == IF \E p \in Procs : pc[p] = "holding" /\ key[p] = k
             THEN CHOOSE p \in Procs : pc[p] = "holding" /\ key[p] = k
             ELSE NoProc
Wanted(p) == IF pc[p] = "waiting" THEN {key[p]} ELSE {}
Abstract == INSTANCE PerKeyMutex
              WITH owner <- [k \in Keys |-> Holder(k)],
                   want <- [p \in Procs |-> Wanted(p)]

(* The table of counted entries implements one mutex per key. *)
ImplementsPerKeyMutex == Abstract!ASpec
=============================================================================
