------------------------------ MODULE SetSums ------------------------------
(***************************************************************************)
(* What MapThenSumSet of the community modules computes, as far as the     *)
(* proofs about TenantMetrics need it: the sum over a finite set is        *)
(* defined, is the sum of the values whatever order they are taken in, and *)
(* grows with them.                                                        *)
(*                                                                         *)
(* The sum of F over S is g[S] for a function g on the subsets of S that   *)
(* takes one element after the other.  Induction over the subsets is by a  *)
(* minimal counterexample.                                                 *)
(***************************************************************************)
EXTENDS Naturals, FiniteSetsExt, FiniteSetTheorems, WellFoundedInduction, TLAPS

Pick(s) == CHOOSE x \in s : TRUE
Rest(s) == s \ {Pick(s)}

IsSum(g, F, S) ==
  g = [s \in SUBSET S |-> IF s = {} THEN 0 ELSE F[Pick(s)] + g[Rest(s)]]

-----------------------------------------------------------------------------
(* A nonempty set of subsets of a finite set has a minimal member. *)
LEMMA MinimalSubset ==
  ASSUME NEW S, IsFiniteSet(S), NEW T, T \subseteq SUBSET S, T # {}
  PROVE  \E s \in T : \A u \in T : u \subseteq s => u = s
PROOF
<1>1. IsWellFoundedOn(StrictSubsetOrdering(S), SUBSET S)
  BY FS_StrictSubsetOrderingWellFounded, FS_FiniteSubsetsOfFinite, Zenon
<1>2. PICK s \in T : \A u \in T : <<u, s>> \notin StrictSubsetOrdering(S)
  BY <1>1, WFMin, Zenon
<1>3. ASSUME NEW u \in T, u \subseteq s PROVE u = s
  <2> SUFFICES ASSUME u # s PROVE FALSE
    OBVIOUS
  <2>1. u \in SUBSET S /\ s \in SUBSET S
    OBVIOUS
  <2>2. <<u, s>> \in StrictSubsetOrdering(S)
    BY <1>3, <2>1 DEF StrictSubsetOrdering
  <2> QED BY <1>2, <2>2, Zenon
<1> QED BY <1>3, Zenon

(* Taking an element out of a nonempty set leaves a smaller one. *)
LEMMA RestIsSmaller ==
  ASSUME NEW s, s # {}
  PROVE  Pick(s) \in s /\ Rest(s) \subseteq s /\ Rest(s) # s /\ Pick(s) \notin Rest(s)
PROOF
<1>1. Pick(s) \in s
  BY DEF Pick
<1> QED BY <1>1 DEF Rest

(* The equation that a sum satisfies at a subset. *)
LEMMA SumStep ==
  ASSUME NEW g, NEW F, NEW S, IsSum(g, F, S), NEW s, s \subseteq S
  PROVE  /\ s = {} => g[s] = 0
         /\ s # {} => /\ g[s] = F[Pick(s)] + g[Rest(s)]
                      /\ Rest(s) \subseteq S /\ Rest(s) \subseteq s /\ Rest(s) # s
                      /\ Pick(s) \in S /\ Pick(s) \in s /\ Pick(s) \notin Rest(s)
PROOF
<1> DEFINE Val(u) == IF u = {} THEN 0 ELSE F[Pick(u)] + g[Rest(u)]
<1>1. g = [u \in SUBSET S |-> Val(u)]
  BY DEF IsSum
<1>2. g[s] = Val(s)
  <2> HIDE DEF Val
  <2> QED BY <1>1
<1> QED BY <1>2, RestIsSmaller

(* Two sums of the same values agree wherever both are defined. *)
LEMMA SumUnique ==
  ASSUME NEW F, NEW A, NEW B, NEW g, NEW h, IsSum(g, F, A), IsSum(h, F, B),
         NEW w, w \subseteq A, w \subseteq B, IsFiniteSet(w)
  PROVE  g[w] = h[w]
PROOF
<1> DEFINE Bad == {s \in SUBSET w : g[s] # h[s]}
<1> SUFFICES ASSUME Bad # {} PROVE FALSE
  OBVIOUS
<1>1. PICK s \in Bad : \A u \in Bad : u \subseteq s => u = s
  <2>1. Bad \subseteq SUBSET w OBVIOUS
  <2> HIDE DEF Bad
  <2> QED BY <2>1, MinimalSubset
<1>2. s \subseteq A /\ s \subseteq B /\ g[s] # h[s]
  OBVIOUS
<1>3. CASE s = {}
  BY <1>2, <1>3, SumStep
<1>4. CASE s # {}
  <2>1. Rest(s) \notin Bad
    BY <1>1, <1>4, RestIsSmaller
  <2>2. Rest(s) \subseteq w
    BY <1>4, RestIsSmaller
  <2>3. g[Rest(s)] = h[Rest(s)]
    BY <2>1, <2>2
  <2>4. g[s] = F[Pick(s)] + g[Rest(s)] /\ h[s] = F[Pick(s)] + h[Rest(s)]
    BY <1>2, <1>4, SumStep
  <2> QED BY <1>2, <2>3, <2>4
<1> QED BY <1>3, <1>4

(* The recursion has a solution over every finite set. *)
LEMMA SumExists ==
  ASSUME NEW F, NEW S, IsFiniteSet(S)
  PROVE  \E g : IsSum(g, F, S)
PROOF
<1> DEFINE Bad == {s \in SUBSET S : ~ \E g : IsSum(g, F, s)}
<1> SUFFICES ASSUME Bad # {} PROVE FALSE
  OBVIOUS
<1>1. PICK s \in Bad : \A u \in Bad : u \subseteq s => u = s
  <2>1. Bad \subseteq SUBSET S OBVIOUS
  <2> HIDE DEF Bad
  <2> QED BY <2>1, MinimalSubset
<1> DEFINE Of(v) == CHOOSE g : IsSum(g, F, v)
           Val(u) == IF u = {} THEN 0 ELSE F[Pick(u)] + Of(Rest(u))[Rest(u)]
           G == [u \in SUBSET s |-> Val(u)]
<1>2. \A v : v \subseteq s /\ v # s => IsSum(Of(v), F, v) /\ IsFiniteSet(v)
  <2> SUFFICES ASSUME NEW v, v \subseteq s, v # s
               PROVE  IsSum(Of(v), F, v) /\ IsFiniteSet(v)
    OBVIOUS
  <2>1. v \in SUBSET S /\ v \notin Bad
    BY <1>1
  <2>2. \E g : IsSum(g, F, v)
    BY <2>1
  <2>3. IsSum(Of(v), F, v)
    BY <2>2, Zenon
  <2>4. IsFiniteSet(v)
    BY <2>1, FS_Subset
  <2> QED BY <2>3, <2>4
<1>3. ASSUME NEW v, v \subseteq s, v # s
      PROVE  G[v] = Of(v)[v]
  <2>1. G[v] = Val(v)
    <3> HIDE DEF Val
    <3> QED BY <1>3
  <2>2. IsSum(Of(v), F, v)
    BY <1>2, <1>3, Zenon
  <2>3. CASE v = {}
    <3>1. Of(v)[v] = 0
      <4> HIDE DEF Of
      <4> QED BY <2>2, <2>3, SumStep
    <3> QED BY <2>1, <2>3, <3>1, Zenon
  <2>4. CASE v # {}
    <3>1. Rest(v) \subseteq v /\ Rest(v) \subseteq s /\ Rest(v) # s
      BY <1>3, <2>4, RestIsSmaller
    <3>2. IsSum(Of(Rest(v)), F, Rest(v)) /\ IsFiniteSet(Rest(v))
      BY <1>2, <3>1, Zenon
    <3>3. Of(v)[Rest(v)] = Of(Rest(v))[Rest(v)]
      <4> HIDE DEF Of
      <4> QED BY <2>2, <3>1, <3>2, SumUnique
    <3>4. Of(v)[v] = F[Pick(v)] + Of(v)[Rest(v)]
      <4> HIDE DEF Of
      <4> QED BY <2>2, <2>4, SumStep
    <3> QED BY <2>1, <2>4, <3>3, <3>4, Zenon
  <2> QED BY <2>3, <2>4
<1>4. ASSUME NEW u \in SUBSET s
      PROVE  Val(u) = IF u = {} THEN 0 ELSE F[Pick(u)] + G[Rest(u)]
  <2>1. CASE u = {}
    BY <2>1, Zenon
  <2>2. CASE u # {}
    <3>1. Rest(u) \subseteq s /\ Rest(u) # s
      BY <2>2, RestIsSmaller
    <3>2. G[Rest(u)] = Of(Rest(u))[Rest(u)]
      BY <1>3, <3>1, Zenon
    <3> QED BY <2>2, <3>2
  <2> QED BY <2>1, <2>2
<1>5. G = [u \in SUBSET s |-> IF u = {} THEN 0 ELSE F[Pick(u)] + G[Rest(u)]]
  <2>1. G = [u \in SUBSET s |-> Val(u)]
    BY Zenon
  <2> HIDE DEF G, Val
  <2> QED BY <2>1, <1>4, Zenon
<1>6. IsSum(G, F, s)
  <2> HIDE DEF G
  <2> QED BY <1>5 DEF IsSum
<1>7. \E g : IsSum(g, F, s)
  <2> HIDE DEF G
  <2> QED BY <1>6, Zenon
<1> QED BY <1>7


-----------------------------------------------------------------------------
\* The sum of a function's values, as FiniteSetsExt defines it.
SumOf(F, S) == MapThenSumSet(LAMBDA r : F[r], S)

LEMMA SumOfIsSum ==
  ASSUME NEW F, NEW S, IsFiniteSet(S)
  PROVE  \E g : IsSum(g, F, S) /\ SumOf(F, S) = g[S]
PROOF
<1>1. \E g : IsSum(g, F, S)
  BY SumExists
<1> QED BY <1>1, Zenon DEF IsSum, Pick, Rest, SumOf, MapThenSumSet, MapThenFoldSet

(* A sum of natural numbers is one, is no less than each of them, and zero *)
(* if they are.                                                            *)
LEMMA SumOfNaturals ==
  ASSUME NEW S, IsFiniteSet(S), NEW F \in [S -> Nat]
  PROVE  /\ SumOf(F, S) \in Nat
         /\ \A r \in S : F[r] <= SumOf(F, S)
         /\ (\A r \in S : F[r] = 0) => SumOf(F, S) = 0
PROOF
<1>1. PICK g : IsSum(g, F, S) /\ SumOf(F, S) = g[S]
  BY SumOfIsSum
<1> DEFINE Good(s) == /\ g[s] \in Nat
                      /\ \A r \in s : F[r] <= g[s]
                      /\ (\A r \in S : F[r] = 0) => g[s] = 0
           Bad == {s \in SUBSET S : ~ Good(s)}
<1> SUFFICES ASSUME Bad # {} PROVE FALSE
  BY <1>1
<1>2. PICK s \in Bad : \A u \in Bad : u \subseteq s => u = s
  <2>1. Bad \subseteq SUBSET S OBVIOUS
  <2> HIDE DEF Bad
  <2> QED BY <2>1, MinimalSubset
<1>3. s \subseteq S /\ ~ Good(s)
  OBVIOUS
<1>4. CASE s = {}
  <2>1. g[s] = 0
    BY <1>1, <1>3, <1>4, SumStep
  <2> QED BY <1>3, <1>4, <2>1
<1>5. CASE s # {}
  <2>1. Rest(s) \in SUBSET S /\ Rest(s) \notin Bad
    <3> HIDE DEF Bad
    <3> QED BY <1>2, <1>3, <1>5, RestIsSmaller
  <2>2. Good(Rest(s))
    BY <2>1
  <2>3. g[s] = F[Pick(s)] + g[Rest(s)] /\ Pick(s) \in S
    BY <1>1, <1>3, <1>5, SumStep
  <2>4. \A r \in s : r = Pick(s) \/ r \in Rest(s)
    BY DEF Rest
  <2>5. F[Pick(s)] \in Nat
    BY <2>3
  <2> QED BY <1>3, <2>2, <2>3, <2>4, <2>5
<1> QED BY <1>4, <1>5

(* When one of the numbers grows by one, so does the sum. *)
LEMMA SumIncrement ==
  ASSUME NEW S, IsFiniteSet(S), NEW F \in [S -> Nat], NEW G \in [S -> Nat],
         NEW r \in S, G[r] = F[r] + 1, \A q \in S \ {r} : G[q] = F[q]
  PROVE  SumOf(G, S) = SumOf(F, S) + 1
PROOF
<1>1. PICK g : IsSum(g, F, S) /\ SumOf(F, S) = g[S]
  BY SumOfIsSum
<1>2. PICK h : IsSum(h, G, S) /\ SumOf(G, S) = h[S]
  BY SumOfIsSum
<1> DEFINE Good(s) == /\ g[s] \in Nat
                      /\ r \in s => h[s] = g[s] + 1
                      /\ r \notin s => h[s] = g[s]
           Bad == {s \in SUBSET S : ~ Good(s)}
<1> SUFFICES ASSUME Bad # {} PROVE FALSE
  BY <1>1, <1>2
<1>3. PICK s \in Bad : \A u \in Bad : u \subseteq s => u = s
  <2>1. Bad \subseteq SUBSET S OBVIOUS
  <2> HIDE DEF Bad
  <2> QED BY <2>1, MinimalSubset
<1>4. s \subseteq S /\ ~ Good(s)
  OBVIOUS
<1>5. CASE s = {}
  <2>1. g[s] = 0 /\ h[s] = 0
    BY <1>1, <1>2, <1>4, <1>5, SumStep
  <2> QED BY <1>4, <1>5, <2>1
<1>6. CASE s # {}
  <2>1. Rest(s) \in SUBSET S /\ Rest(s) \notin Bad
    <3> HIDE DEF Bad
    <3> QED BY <1>3, <1>4, <1>6, RestIsSmaller
  <2>2. Good(Rest(s))
    BY <2>1
  <2>3. /\ g[s] = F[Pick(s)] + g[Rest(s)] /\ h[s] = G[Pick(s)] + h[Rest(s)]
        /\ Pick(s) \in S /\ Pick(s) \in s /\ Pick(s) \notin Rest(s)
    BY <1>1, <1>2, <1>4, <1>6, SumStep
  <2>4. r \in s <=> r = Pick(s) \/ r \in Rest(s)
    BY <2>3 DEF Rest
  <2>5. F[Pick(s)] \in Nat
    BY <2>3
  <2>6. CASE r = Pick(s)
    BY <1>4, <2>2, <2>3, <2>4, <2>5, <2>6
  <2>7. CASE r # Pick(s)
    BY <1>4, <2>2, <2>3, <2>4, <2>5, <2>7
  <2> QED BY <2>6, <2>7
<1> QED BY <1>5, <1>6

=============================================================================
