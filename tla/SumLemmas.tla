----------------------------- MODULE SumLemmas -----------------------------
(***************************************************************************)
(* What sums over finite sets do: the quotas of attachments and recordings *)
(* are sums of sizes (MapThenSumSet).  Induction on the set is replaced by *)
(* its smallest counterexample.                                            *)
(***************************************************************************)
EXTENDS Naturals, Integers, FiniteSets, FiniteSetsExt, FiniteSetTheorems, WellFoundedInduction, TLAPS

-----------------------------------------------------------------------------
(* Sums over finite sets, and smallest elements. *)

Sum(f, S) == MapThenSumSet(LAMBDA i : f[i], S)

(* A nonempty set of finite subsets of S has a minimal element: what takes *)
(* the place of induction on finite sets.                                  *)
LEMMA MinimalSubset ==
  ASSUME NEW S, IsFiniteSet(S), NEW Bad \in SUBSET SUBSET S, Bad # {}
  PROVE  \E T \in Bad : \A U \in Bad : U \subseteq T => U = T
<1> DEFINE R == StrictSubsetOrdering(S)
<1>1. IsWellFoundedOn(R, SUBSET S)
  BY FS_StrictSubsetOrderingWellFounded, FS_FiniteSubsetsOfFinite
<1>2. PICK T \in Bad : \A U \in Bad : ~(<<U, T>> \in R)
  <2> HIDE DEF R
  <2> QED BY <1>1, WFMin
<1>3. ASSUME NEW U \in Bad, U \subseteq T, U # T PROVE FALSE
  BY <1>2, <1>3 DEF StrictSubsetOrdering
<1> QED BY <1>3

Pick(s) == CHOOSE x \in s : TRUE
SumStep(f, g, s) == IF s = {} THEN 0 ELSE f[Pick(s)] + g[s \ {Pick(s)}]
Sums(f, S, g) == g = [s \in SUBSET S |-> SumStep(f, g, s)]

LEMMA PickIn == \A s : s # {} => Pick(s) \in s BY DEF Pick

LEMMA SumIs == \A f, S : Sum(f, S) = (CHOOSE g : Sums(f, S, g))[S]
BY DEF Sum, MapThenSumSet, MapThenFoldSet, Sums, SumStep, Pick

LEMMA SumsUnique ==
  ASSUME NEW f, NEW S, NEW T, NEW g, NEW h, Sums(f, S, g), Sums(f, T, h),
         NEW U, IsFiniteSet(U), U \subseteq S, U \subseteq T
  PROVE  g[U] = h[U]
<1> DEFINE Bad == {V \in SUBSET U : g[V] # h[V]}
<1> SUFFICES ASSUME g[U] # h[U] PROVE FALSE OBVIOUS
<1>1. Bad # {} /\ Bad \in SUBSET SUBSET U OBVIOUS
<1>2. PICK V \in Bad : \A W \in Bad : W \subseteq V => W = V
  <2> HIDE DEF Bad
  <2> QED BY <1>1, MinimalSubset
<1>3. V \in SUBSET S /\ V \in SUBSET T /\ V \subseteq U /\ g[V] # h[V] OBVIOUS
<1>4. g[V] = SumStep(f, g, V) /\ h[V] = SumStep(f, h, V) BY <1>3 DEF Sums
<1>5. V # {} BY <1>3, <1>4 DEF SumStep
<1>6. Pick(V) \in V BY <1>5, PickIn
<1>7. g[V \ {Pick(V)}] = h[V \ {Pick(V)}] BY <1>2, <1>6
<1> QED BY <1>3, <1>4, <1>5, <1>7 DEF SumStep

LEMMA SumsExist == ASSUME NEW f, NEW S, IsFiniteSet(S) PROVE \E g : Sums(f, S, g)
<1> DEFINE H(s) == CHOOSE g : Sums(f, s, g)
           Bad == {T \in SUBSET S : ~\E g : Sums(f, T, g)}
<1> SUFFICES ASSUME S \in Bad PROVE FALSE OBVIOUS
<1>1. Bad # {} /\ Bad \in SUBSET SUBSET S OBVIOUS
<1>2. PICK T \in Bad : \A W \in Bad : W \subseteq T => W = T
  <2> HIDE DEF Bad
  <2> QED BY <1>1, MinimalSubset
<1>3. T \subseteq S /\ ~\E g : Sums(f, T, g) OBVIOUS
<1>4. \A s \in SUBSET T : s # T => Sums(f, s, H(s)) BY <1>2, <1>3
<1>5. \A s \in SUBSET T : s # T => H(s)[s] = SumStep(f, H(s), s)
  <2> SUFFICES ASSUME NEW s \in SUBSET T, s # T PROVE H(s)[s] = SumStep(f, H(s), s) OBVIOUS
  <2>1. Sums(f, s, H(s)) BY <1>4
  <2> HIDE DEF H
  <2> QED BY <2>1 DEF Sums
<1>6. \A s \in SUBSET T : \A u : s # T /\ u \subseteq s => H(s)[u] = H(u)[u]
  <2> SUFFICES ASSUME NEW s \in SUBSET T, NEW u, s # T, u \subseteq s PROVE H(s)[u] = H(u)[u] OBVIOUS
  <2>1. u \in SUBSET T /\ u # T OBVIOUS
  <2>2. Sums(f, s, H(s)) /\ Sums(f, u, H(u)) BY <1>4, <2>1
  <2>3. IsFiniteSet(u) BY <1>3, <2>1, FS_Subset
  <2> HIDE DEF H
  <2> QED BY <2>2, <2>3, SumsUnique
<1> HIDE DEF H, Bad
<1> DEFINE p == Pick(T)
           G == [s \in SUBSET T |-> IF s = T THEN IF T = {} THEN 0 ELSE f[p] + H(T \ {p})[T \ {p}]
                                   ELSE H(s)[s]]
<1>7. ASSUME NEW s \in SUBSET T PROVE G[s] = SumStep(f, G, s)
  <2>1. CASE s = {} BY <1>5, <2>1 DEF SumStep
  <2>2. CASE s # {} /\ s = T
    <3>1. p \in T BY <2>2, PickIn
    <3>2. T \ {p} \in SUBSET T /\ T \ {p} # T BY <3>1
    <3>3. G[T \ {p}] = H(T \ {p})[T \ {p}] BY <3>2
    <3> QED BY <2>2, <3>3 DEF SumStep
  <2>3. CASE s # {} /\ s # T
    <3> DEFINE q == Pick(s)
               u == s \ {q}
    <3>1. q \in s BY <2>3, PickIn
    <3>2. u \in SUBSET T /\ u # T /\ u \subseteq s BY <3>1
    <3>3. G[s] = H(s)[s] /\ G[u] = H(u)[u] BY <2>3, <3>2
    <3>4. H(s)[u] = H(u)[u] BY <1>6, <2>3, <3>2
    <3>5. H(s)[s] = SumStep(f, H(s), s) BY <1>5, <2>3
    <3> HIDE DEF G
    <3> QED BY <2>3, <3>3, <3>4, <3>5 DEF SumStep
  <2> QED BY <2>1, <2>2, <2>3
<1>8. Sums(f, T, G)
  <2>1. G = [s \in SUBSET T |-> G[s]] OBVIOUS
  <2> HIDE DEF G
  <2> QED BY <1>7, <2>1 DEF Sums
<1> QED BY <1>3, <1>8

(* The sum is that of any element and of the rest.                         *)
LEMMA SumUnfold ==
  ASSUME NEW f, NEW S, IsFiniteSet(S)
  PROVE  Sum(f, S) = IF S = {} THEN 0 ELSE f[Pick(S)] + Sum(f, S \ {Pick(S)})
<1> DEFINE H(s) == CHOOSE g : Sums(f, s, g)
<1>1. \A s \in SUBSET S : Sums(f, s, H(s)) /\ IsFiniteSet(s) BY SumsExist, FS_Subset
<1>2. \A s : Sum(f, s) = H(s)[s] BY SumIs
<1> HIDE DEF H
<1>3. H(S)[S] = SumStep(f, H(S), S) BY <1>1 DEF Sums
<1>4. CASE S = {} BY <1>2, <1>3, <1>4 DEF SumStep
<1>5. CASE S # {}
  <2> DEFINE u == S \ {Pick(S)}
  <2>1. u \in SUBSET S OBVIOUS
  <2>2. H(S)[u] = H(u)[u]
    <3> HIDE DEF u
    <3> QED BY <1>1, <2>1, SumsUnique
  <2> QED BY <1>2, <1>3, <1>5, <2>2 DEF SumStep
<1> QED BY <1>4, <1>5

LEMMA SumType ==
  ASSUME NEW D, NEW f \in [D -> Int], NEW S \in SUBSET D, IsFiniteSet(S)
  PROVE  Sum(f, S) \in Int
<1> DEFINE Bad == {T \in SUBSET S : Sum(f, T) \notin Int}
<1> SUFFICES ASSUME S \in Bad PROVE FALSE OBVIOUS
<1>1. Bad # {} /\ Bad \in SUBSET SUBSET S OBVIOUS
<1>2. PICK T \in Bad : \A W \in Bad : W \subseteq T => W = T
  <2> HIDE DEF Bad
  <2> QED BY <1>1, MinimalSubset
<1>3. T \subseteq S /\ Sum(f, T) \notin Int /\ IsFiniteSet(T) BY FS_Subset
<1>4. Sum(f, T) = IF T = {} THEN 0 ELSE f[Pick(T)] + Sum(f, T \ {Pick(T)}) BY <1>3, SumUnfold
<1>5. T # {} BY <1>3, <1>4
<1>6. Pick(T) \in T BY <1>5, PickIn
<1>7. Sum(f, T \ {Pick(T)}) \in Int BY <1>2, <1>6
<1> QED BY <1>3, <1>4, <1>5, <1>6, <1>7

LEMMA SumRemove ==
  ASSUME NEW D, NEW f \in [D -> Int], NEW S \in SUBSET D, IsFiniteSet(S), NEW x \in S
  PROVE  Sum(f, S) = f[x] + Sum(f, S \ {x})
<1> DEFINE Rest(T, y) == f[y] + Sum(f, T \ {y})
           Bad == {T \in SUBSET S : \E y \in T : Sum(f, T) # Rest(T, y)}
<1> SUFFICES ASSUME S \in Bad PROVE FALSE OBVIOUS
<1>1. Bad # {} /\ Bad \in SUBSET SUBSET S OBVIOUS
<1>2. PICK T \in Bad : \A W \in Bad : W \subseteq T => W = T
  <2> HIDE DEF Bad
  <2> QED BY <1>1, MinimalSubset
<1>3. PICK y \in T : Sum(f, T) # Rest(T, y) BY <1>2
<1>4. \A W \in SUBSET T : IsFiniteSet(W) /\ Sum(f, W) \in Int
  <2> SUFFICES ASSUME NEW W \in SUBSET T PROVE IsFiniteSet(W) /\ Sum(f, W) \in Int OBVIOUS
  <2>1. W \in SUBSET D BY <1>2
  <2>2. IsFiniteSet(W) BY <1>2, FS_Subset
  <2> QED BY <2>1, <2>2, SumType
<1> DEFINE p == Pick(T)
<1>5. p \in T BY <1>3, PickIn
<1>6. Sum(f, T) = f[p] + Sum(f, T \ {p}) BY <1>3, <1>4, SumUnfold
<1>7. p # y BY <1>3, <1>6
<1>a. ASSUME NEW W \in SUBSET T, W # T, NEW z \in W PROVE Sum(f, W) = f[z] + Sum(f, W \ {z})
  BY <1>2, <1>a
<1>8. Sum(f, T \ {p}) = f[y] + Sum(f, (T \ {p}) \ {y})
  <2>1. T \ {p} \in SUBSET T /\ T \ {p} # T /\ y \in T \ {p} BY <1>3, <1>5, <1>7
  <2> HIDE DEF p, Bad, Rest
  <2> QED BY <1>a, <2>1
<1>9. Sum(f, T \ {y}) = f[p] + Sum(f, (T \ {y}) \ {p})
  <2>1. T \ {y} \in SUBSET T /\ T \ {y} # T /\ p \in T \ {y} BY <1>3, <1>5, <1>7
  <2> HIDE DEF p, Bad, Rest
  <2> QED BY <1>a, <2>1
<1>10. (T \ {y}) \ {p} = (T \ {p}) \ {y} OBVIOUS
<1>11. Sum(f, (T \ {p}) \ {y}) \in Int BY <1>4
<1>12. f[p] \in Int /\ f[y] \in Int BY <1>2, <1>3, <1>5
<1>13. Sum(f, T) # f[y] + Sum(f, T \ {y}) BY <1>3
<1> HIDE DEF p, Bad, Rest
<1> DEFINE rest == Sum(f, (T \ {p}) \ {y})
<1>14. Sum(f, T) = f[p] + (f[y] + rest) BY <1>6, <1>8
<1>15. Sum(f, T \ {y}) = f[p] + rest BY <1>9, <1>10
<1>16. rest \in Int BY <1>11
<1> HIDE DEF rest
<1> QED BY <1>12, <1>13, <1>14, <1>15, <1>16

(* Functions that agree on S have the same sum over S.                     *)
LEMMA SumSame ==
  ASSUME NEW S, IsFiniteSet(S), NEW f, NEW g, \A x \in S : f[x] = g[x]
  PROVE  Sum(f, S) = Sum(g, S)
<1> DEFINE Bad == {T \in SUBSET S : Sum(f, T) # Sum(g, T)}
<1> SUFFICES ASSUME S \in Bad PROVE FALSE OBVIOUS
<1>1. Bad # {} /\ Bad \in SUBSET SUBSET S OBVIOUS
<1>2. PICK T \in Bad : \A W \in Bad : W \subseteq T => W = T
  <2> HIDE DEF Bad
  <2> QED BY <1>1, MinimalSubset
<1>3. T \subseteq S /\ Sum(f, T) # Sum(g, T) /\ IsFiniteSet(T) BY FS_Subset
<1>4. /\ Sum(f, T) = IF T = {} THEN 0 ELSE f[Pick(T)] + Sum(f, T \ {Pick(T)})
      /\ Sum(g, T) = IF T = {} THEN 0 ELSE g[Pick(T)] + Sum(g, T \ {Pick(T)})
  BY <1>3, SumUnfold
<1>5. T # {} BY <1>3, <1>4
<1>6. Pick(T) \in T BY <1>5, PickIn
<1>7. Sum(f, T \ {Pick(T)}) = Sum(g, T \ {Pick(T)}) BY <1>2, <1>6
<1>8. f[Pick(T)] = g[Pick(T)] BY <1>3, <1>6
<1> QED BY <1>3, <1>4, <1>5, <1>7, <1>8

(* A sum of natural numbers over a larger set is larger.                   *)
LEMMA SumSubset ==
  ASSUME NEW D, NEW f \in [D -> Nat], NEW S \in SUBSET D, IsFiniteSet(S), NEW T \in SUBSET S
  PROVE  Sum(f, T) <= Sum(f, S)
<1> DEFINE Bad == {V \in SUBSET S : T \subseteq V /\ ~(Sum(f, T) <= Sum(f, V))}
<1> SUFFICES ASSUME S \in Bad PROVE FALSE OBVIOUS
<1>0. f \in [D -> Int] OBVIOUS
<1>1. Bad # {} /\ Bad \in SUBSET SUBSET S OBVIOUS
<1>2. PICK V \in Bad : \A W \in Bad : W \subseteq V => W = V
  <2> HIDE DEF Bad
  <2> QED BY <1>1, MinimalSubset
<1>3. V \in SUBSET S /\ T \subseteq V /\ ~(Sum(f, T) <= Sum(f, V)) OBVIOUS
<1>4. \A W \in SUBSET S : IsFiniteSet(W) /\ Sum(f, W) \in Int
  <2> SUFFICES ASSUME NEW W \in SUBSET S PROVE IsFiniteSet(W) /\ Sum(f, W) \in Int OBVIOUS
  <2>1. W \in SUBSET D OBVIOUS
  <2>2. IsFiniteSet(W) BY FS_Subset
  <2> QED BY <1>0, <2>1, <2>2, SumType
<1>5. V # T BY <1>3, <1>4
<1>6. PICK x \in V : x \notin T BY SMTT(30), <1>3, <1>5
<1>7. Sum(f, V) = f[x] + Sum(f, V \ {x})
  <2>1. V \in SUBSET D /\ IsFiniteSet(V) BY <1>3, <1>4
  <2> HIDE DEF Bad
  <2> QED BY <1>0, <2>1, SumRemove
<1>8. V \ {x} \notin Bad BY <1>2, <1>6
<1>9. Sum(f, T) <= Sum(f, V \ {x}) BY <1>3, <1>6, <1>8
<1>10. f[x] \in Nat /\ Sum(f, V \ {x}) \in Int /\ Sum(f, T) \in Int BY <1>3, <1>4
<1> HIDE DEF Bad
<1> QED BY <1>3, <1>7, <1>9, <1>10

LEMMA SumNat ==
  ASSUME NEW D, NEW f \in [D -> Nat], NEW S \in SUBSET D, IsFiniteSet(S)
  PROVE  Sum(f, S) \in Nat
<1>1. Sum(f, {}) = 0 BY FS_EmptySet, SumUnfold
<1>2. Sum(f, {}) <= Sum(f, S) BY SumSubset
<1>3. f \in [D -> Int] OBVIOUS
<1>4. Sum(f, S) \in Int BY <1>3, SumType
<1> QED BY <1>1, <1>2, <1>4

LEMMA MinimalOf ==
  \A S : IsFiniteSet(S) => \A B \in SUBSET SUBSET S :
    B # {} => \E T \in B : \A U \in B : U \subseteq T => U = T
<1> SUFFICES ASSUME NEW S, IsFiniteSet(S), NEW B \in SUBSET SUBSET S, B # {}
             PROVE  \E T \in B : \A U \in B : U \subseteq T => U = T
  OBVIOUS
<1> QED BY MinimalSubset

LEMMA MinIn == ASSUME NEW S, \A n \in S : n \in Nat, S # {}, IsFiniteSet(S) PROVE Min(S) \in S
<1> DEFINE Past(x) == {y \in S : y < x}
           Pasts == {Past(x) : x \in S}
<1>1. Pasts # {} /\ Pasts \in SUBSET SUBSET S OBVIOUS
<1>2. \E V \in Pasts : \A W \in Pasts : W \subseteq V => W = V
  <2>1. Pasts # {} BY <1>1
  <2>2. Pasts \in SUBSET SUBSET S BY <1>1
  <2> HIDE DEF Pasts
  <2> QED BY <2>1, <2>2, MinimalOf
<1>a. PICK V \in Pasts : \A W \in Pasts : W \subseteq V => W = V BY Zenon, <1>2
<1>3. PICK x \in S : V = Past(x) BY <1>a
<1>4. ASSUME NEW y \in S, y < x PROVE FALSE
  <2>0. x \in Nat /\ y \in Nat OBVIOUS
  <2>1. y \in V /\ y \notin Past(y) BY <1>3, <1>4, <2>0
  <2>2. ASSUME NEW z \in Past(y) PROVE z \in V
    <3>1. z \in S /\ z \in Nat /\ z < y OBVIOUS
    <3>2. z < x BY <1>4, <2>0, <3>1
    <3> QED BY <1>3, <3>1, <3>2
  <2>3. Past(y) \in Pasts OBVIOUS
  <2> HIDE DEF Pasts, Past
  <2> QED BY Zenon, <1>a, <2>1, <2>2, <2>3
<1>5. \A y \in S : x <= y BY <1>4
<1> HIDE DEF Pasts, Past
<1> QED BY <1>5 DEF Min

LEMMA MaxNat == ASSUME NEW S, \A n \in S : n \in Nat, S # {}, IsFiniteSet(S) PROVE Max(S) \in Nat
<1> DEFINE Past(x) == {y \in S : y > x}
           Pasts == {Past(x) : x \in S}
<1>1. Pasts # {} /\ Pasts \in SUBSET SUBSET S OBVIOUS
<1>2. \E V \in Pasts : \A W \in Pasts : W \subseteq V => W = V
  <2>1. Pasts # {} BY <1>1
  <2>2. Pasts \in SUBSET SUBSET S BY <1>1
  <2> HIDE DEF Pasts
  <2> QED BY <2>1, <2>2, MinimalOf
<1>a. PICK V \in Pasts : \A W \in Pasts : W \subseteq V => W = V BY Zenon, <1>2
<1>3. PICK x \in S : V = Past(x) BY <1>a
<1>4. ASSUME NEW y \in S, y > x PROVE FALSE
  <2>0. x \in Nat /\ y \in Nat OBVIOUS
  <2>1. y \in V /\ y \notin Past(y) BY <1>3, <1>4, <2>0
  <2>2. ASSUME NEW z \in Past(y) PROVE z \in V
    <3>1. z \in S /\ z \in Nat /\ z > y OBVIOUS
    <3>2. z > x BY <1>4, <2>0, <3>1
    <3> QED BY <1>3, <3>1, <3>2
  <2>3. Past(y) \in Pasts OBVIOUS
  <2> HIDE DEF Pasts, Past
  <2> QED BY Zenon, <1>a, <2>1, <2>2, <2>3
<1>5. \A y \in S : x >= y BY <1>4
<1> HIDE DEF Pasts, Past
<1> QED BY <1>5 DEF Max

LEMMA MaxOfTwo == ASSUME NEW a \in Nat, NEW b \in Nat
                  PROVE Max({a, b}) \in Nat /\ Max({a, b}) >= a /\ Max({a, b}) >= b
<1>1. \E x \in {a, b} : \A y \in {a, b} : x >= y OBVIOUS
<1> QED BY <1>1 DEF Max

LEMMA FinitePart == ASSUME NEW S, IsFiniteSet(S), NEW T \in SUBSET S PROVE IsFiniteSet(T)
BY FS_Subset
=============================================================================
