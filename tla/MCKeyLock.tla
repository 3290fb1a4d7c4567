----------------------------- MODULE MCKeyLock -----------------------------
(* Three goroutines over two keys and three entry objects: enough for two   *)
(* goroutines to meet on one key while a third recycles an entry.           *)
EXTENDS KeyLock
CONSTANTS p1, p2, p3, k1, k2, e1, e2, e3
MCProcs == {p1, p2, p3}
MCKeys == {k1, k2}
MCIds == {e1, e2, e3}
=============================================================================
