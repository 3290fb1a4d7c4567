---------------------------- MODULE PerKeyMutex ----------------------------
(***************************************************************************)
(* What package keylock promises ("serializes transitions for one key      *)
(* without blocking other keys", src/internal/keylock/keylock.go): each    *)
(* key has its own mutex.  A goroutine asks for a key, holds it alone, and *)
(* gives it back; nothing is said of table entries or reference counts.    *)
(***************************************************************************)
CONSTANTS Procs,   \* the goroutines that call Lock
          Keys,    \* the keys (user IDs in every use the program makes)
          NoProc   \* the owner of a key nobody holds

VARIABLES owner,   \* owner[k]: the goroutine inside the critical section of k
          want     \* want[p]: the set of keys p has asked for and not got

avars == <<owner, want>>

AInit == /\ owner = [k \in Keys |-> NoProc]
         /\ want = [p \in Procs |-> {}]

Ask(p, k) == /\ want[p] = {}
             /\ \A j \in Keys : owner[j] # p
             /\ want' = [want EXCEPT ![p] = {k}]
             /\ UNCHANGED owner

Grant(p, k) == /\ k \in want[p]
               /\ owner[k] = NoProc
               /\ owner' = [owner EXCEPT ![k] = p]
               /\ want' = [want EXCEPT ![p] = {}]

Give(p, k) == /\ owner[k] = p
              /\ owner' = [owner EXCEPT ![k] = NoProc]
              /\ UNCHANGED want

ANext == \E p \in Procs, k \in Keys : Ask(p, k) \/ Grant(p, k) \/ Give(p, k)

ASpec == AInit /\ [][ANext]_avars
=============================================================================
