----------------------------- MODULE SumLemmas -----------------------------
(***************************************************************************)
(* Sums of functions over finite sets, SumFunctionOnSet of FiniteSetsExt:  *)
(* what the proofs about balances and ledgers need of them.                *)
(*                                                                         *)
(* The operator is a fold over a recursive function that takes the         *)
(* elements in an order CHOOSE picks.  The induction over finite sets that *)
(* this asks for is done with minimal counterexamples: a statement that    *)
(* fails of some subset fails of a smallest one.                           *)
(***************************************************************************)
EXTENDS Integers, FiniteSets, FiniteSetsExt, FiniteSetTheorems, WellFoundedInduction, TLAPS

\* A nonempty collection of subsets of a finite set has a minimal member: with
\* this, a statement about finite sets is proved from its minimal counterexample.
LEMMA MinimalSet ==
    ASSUME NEW S, IsFiniteSet(S), NEW B, B \subseteq SUBSET S, B # {}
    PROVE  \E m \in B : \A t \in B : ~ (t \subseteq m /\ t # m)
<1>1. B \subseteq FiniteSubsetsOf(S)
  BY FS_Subset DEF FiniteSubsetsOf
<1>2. IsWellFoundedOn(StrictSubsetOrdering(S), FiniteSubsetsOf(S))
  BY FS_StrictSubsetOrderingWellFounded
<1>3. PICK m \in B : \A t \in B : <<t, m>> \notin StrictSubsetOrdering(S)
  BY <1>1, <1>2, WFMin
<1>4. ASSUME NEW t \in B, t \subseteq m, t # m PROVE FALSE
  BY <1>3, <1>4 DEF StrictSubsetOrdering
<1> QED
  BY <1>4

Chosen(s) == CHOOSE x \in s : TRUE
PartialSums(f, S, g) ==
    g = [s \in SUBSET S |-> IF s = {} THEN 0 ELSE f[Chosen(s)] + g[s \ {Chosen(s)}]]

LEMMA ChosenIn == ASSUME NEW s, s # {} PROVE Chosen(s) \in s
BY DEF Chosen

\* What the fold of SumFunctionOnSet computes.
LEMMA SumUnfolds ==
    ASSUME NEW f, NEW S
    PROVE  SumFunctionOnSet(f, S) = (CHOOSE g : PartialSums(f, S, g))[S]
BY DEF SumFunctionOnSet, FoldFunctionOnSet, MapThenFoldSet, PartialSums, Chosen

LEMMA PartialSumAt ==
    ASSUME NEW f, NEW S, NEW g, PartialSums(f, S, g), NEW s \in SUBSET S
    PROVE  g[s] = IF s = {} THEN 0 ELSE f[Chosen(s)] + g[s \ {Chosen(s)}]
BY DEF PartialSums

\* Partial sums over different sets agree where both are defined.
LEMMA PartialSumsAgree ==
    ASSUME NEW f, NEW S, IsFiniteSet(S), NEW T \in SUBSET S,
           NEW g, PartialSums(f, S, g), NEW h, PartialSums(f, T, h)
    PROVE  \A s \in SUBSET T : g[s] = h[s]
<1> DEFINE B == {s \in SUBSET T : g[s] # h[s]}
<1> SUFFICES ASSUME B # {} PROVE FALSE
  OBVIOUS
<1>0. IsFiniteSet(T)
  BY FS_Subset
<1>1. PICK m \in B : \A t \in B : ~ (t \subseteq m /\ t # m)
  <2>1. B \subseteq SUBSET T
    OBVIOUS
  <2> HIDE DEF B
  <2> QED
    BY <1>0, <2>1, MinimalSet
<1>2. m \in SUBSET T /\ m \in SUBSET S /\ g[m] # h[m]
  BY <1>1
<1>3. m # {}
  BY <1>2, PartialSumAt
<1> DEFINE t == m \ {Chosen(m)}
<1>4. t \in SUBSET T /\ t \subseteq m /\ t # m
  BY <1>2, <1>3, ChosenIn
<1>5. g[t] = h[t]
  BY <1>1, <1>4
<1>6. g[m] = f[Chosen(m)] + g[t] /\ h[m] = f[Chosen(m)] + h[t]
  BY <1>2, <1>3, PartialSumAt
<1> QED
  BY <1>2, <1>5, <1>6


LEMMA TotalIsPartialSum ==
    ASSUME NEW f, NEW S, IsFiniteSet(S), NEW g, PartialSums(f, S, g), NEW s \in SUBSET S,
           \E h : PartialSums(f, s, h)
    PROVE  SumFunctionOnSet(f, s) = g[s]
<1> DEFINE h == CHOOSE x : PartialSums(f, s, x)
<1>1. PartialSums(f, s, h)
  OBVIOUS
<1>2. SumFunctionOnSet(f, s) = h[s]
  BY SumUnfolds
<1> HIDE DEF h
<1>3. g[s] = h[s]
  BY <1>1, PartialSumsAgree
<1> QED
  BY <1>2, <1>3

LEMMA PartialSumsExist ==
    ASSUME NEW f, NEW S, IsFiniteSet(S)
    PROVE  \E g : PartialSums(f, S, g)
<1> DEFINE B == {s \in SUBSET S : ~ \E g : PartialSums(f, s, g)}
<1> SUFFICES ASSUME B # {} PROVE FALSE
  OBVIOUS
<1>1. PICK m \in B : \A t \in B : ~ (t \subseteq m /\ t # m)
  <2>1. B \subseteq SUBSET S
    OBVIOUS
  <2> HIDE DEF B
  <2> QED
    BY <2>1, MinimalSet
<1>2. m \in SUBSET S /\ ~ \E g : PartialSums(f, m, g)
  BY <1>1
<1>3. \A s \in SUBSET m : s # m => \E g : PartialSums(f, s, g)
  BY <1>1, <1>2
<1> DEFINE v(s) == SumFunctionOnSet(f, s)
           top == IF m = {} THEN 0 ELSE f[Chosen(m)] + v(m \ {Chosen(m)})
           G == [s \in SUBSET m |-> IF s = m THEN top ELSE v(s)]
<1>4. ASSUME NEW s \in SUBSET m, s # m, s # {}
      PROVE  v(s) = f[Chosen(s)] + v(s \ {Chosen(s)})
  <2>1. PICK g : PartialSums(f, s, g)
    BY <1>3, <1>4
  <2>2. s \in SUBSET S /\ IsFiniteSet(s)
    BY <1>2, FS_Subset
  <2>3. s \ {Chosen(s)} \in SUBSET m /\ s \ {Chosen(s)} # m
    BY <1>4, ChosenIn
  <2>4. v(s) = g[s]
    BY <2>1, <2>2, TotalIsPartialSum
  <2>5. \E h : PartialSums(f, s \ {Chosen(s)}, h)
    BY <1>3, <2>3
  <2>6. v(s \ {Chosen(s)}) = g[s \ {Chosen(s)}]
    BY <2>1, <2>2, <2>5, TotalIsPartialSum
  <2> QED
    BY <1>4, <2>1, <2>4, <2>6, PartialSumAt
<1>5. ASSUME {} # m PROVE v({}) = 0
  <2>1. PICK g : PartialSums(f, {}, g)
    BY <1>3, <1>5
  <2>2. v({}) = g[{}]
    BY <2>1, FS_EmptySet, TotalIsPartialSum
  <2> QED
    BY <2>1, <2>2, PartialSumAt
<1> HIDE DEF v
<1>6. ASSUME NEW s \in SUBSET m
      PROVE  G[s] = IF s = {} THEN 0 ELSE f[Chosen(s)] + G[s \ {Chosen(s)}]
  <2>1. CASE s = {}
    BY <2>1, <1>5
  <2>2. CASE s # {}
    <3>1. s \ {Chosen(s)} \in SUBSET m /\ s \ {Chosen(s)} # m
      BY <2>2, ChosenIn
    <3>2. G[s \ {Chosen(s)}] = v(s \ {Chosen(s)})
      BY <3>1
    <3>3. G[s] = f[Chosen(s)] + v(s \ {Chosen(s)})
      BY <2>2, <1>4
    <3> QED
      BY <2>2, <3>2, <3>3
  <2> QED
    BY <2>1, <2>2
<1>7. G = [s \in SUBSET m |-> IF s = {} THEN 0 ELSE f[Chosen(s)] + G[s \ {Chosen(s)}]]
  <2> DEFINE H == [s \in SUBSET m |-> IF s = {} THEN 0 ELSE f[Chosen(s)] + G[s \ {Chosen(s)}]]
  <2>1. \A s \in SUBSET m : G[s] = H[s]
    BY <1>6
  <2> QED
    BY <2>1
<1>8. PartialSums(f, m, G)
  BY <1>7 DEF PartialSums
<1> QED
  BY <1>2, <1>8

\* The sum over a set is that of a chosen element and of the rest ...
LEMMA SumOfNone == ASSUME NEW f PROVE SumFunctionOnSet(f, {}) = 0
<1>1. PICK g : PartialSums(f, {}, g)
  BY FS_EmptySet, PartialSumsExist
<1>2. SumFunctionOnSet(f, {}) = g[{}]
  BY <1>1, FS_EmptySet, TotalIsPartialSum
<1> QED
  BY <1>1, <1>2, PartialSumAt

LEMMA SumOfChosen ==
    ASSUME NEW f, NEW S, IsFiniteSet(S), S # {}
    PROVE  SumFunctionOnSet(f, S) = f[Chosen(S)] + SumFunctionOnSet(f, S \ {Chosen(S)})
<1>1. PICK g : PartialSums(f, S, g)
  BY PartialSumsExist
<1>2. S \ {Chosen(S)} \in SUBSET S /\ IsFiniteSet(S \ {Chosen(S)})
  BY FS_Subset
<1>3. SumFunctionOnSet(f, S) = g[S]
  BY <1>1, TotalIsPartialSum
<1>4. \E h : PartialSums(f, S \ {Chosen(S)}, h)
  BY <1>2, PartialSumsExist
<1>5. SumFunctionOnSet(f, S \ {Chosen(S)}) = g[S \ {Chosen(S)}]
  BY <1>1, <1>2, <1>4, TotalIsPartialSum
<1> QED
  BY <1>1, <1>3, <1>5, PartialSumAt

LEMMA SumIsNat ==
    ASSUME NEW S, IsFiniteSet(S), NEW f \in [S -> Nat]
    PROVE  \A s \in SUBSET S : SumFunctionOnSet(f, s) \in Nat
<1> DEFINE B == {s \in SUBSET S : SumFunctionOnSet(f, s) \notin Nat}
<1> SUFFICES ASSUME B # {} PROVE FALSE
  OBVIOUS
<1>1. PICK m \in B : \A t \in B : ~ (t \subseteq m /\ t # m)
  <2>1. B \subseteq SUBSET S
    OBVIOUS
  <2> HIDE DEF B
  <2> QED
    BY <2>1, MinimalSet
<1>2. m \in SUBSET S /\ IsFiniteSet(m) /\ SumFunctionOnSet(f, m) \notin Nat
  BY <1>1, FS_Subset
<1>3. m # {}
  BY <1>2, SumOfNone
<1>4. Chosen(m) \in m /\ f[Chosen(m)] \in Nat
  BY <1>2, <1>3, ChosenIn
<1>5. SumFunctionOnSet(f, m \ {Chosen(m)}) \in Nat
  BY <1>1, <1>2, <1>4
<1> QED
  BY <1>2, <1>3, <1>4, <1>5, SumOfChosen

\* ... and of any element and the rest.
LEMMA SumOfElement ==
    ASSUME NEW S, IsFiniteSet(S), NEW f \in [S -> Nat]
    PROVE  \A s \in SUBSET S, y \in S :
               y \in s => SumFunctionOnSet(f, s) = f[y] + SumFunctionOnSet(f, s \ {y})
<1> DEFINE v(s) == SumFunctionOnSet(f, s)
           B == {s \in SUBSET S : \E y \in s : v(s) # f[y] + v(s \ {y})}
<1> SUFFICES ASSUME B # {} PROVE FALSE
  OBVIOUS
<1>1. PICK m \in B : \A t \in B : ~ (t \subseteq m /\ t # m)
  <2>1. B \subseteq SUBSET S
    OBVIOUS
  <2> HIDE DEF B
  <2> QED
    BY <2>1, MinimalSet
<1>2. PICK y \in m : v(m) # f[y] + v(m \ {y})
  BY <1>1
<1>3. m \in SUBSET S /\ IsFiniteSet(m) /\ m # {}
  BY <1>1, <1>2, FS_Subset
<1> DEFINE c == Chosen(m)
<1>4. c \in m /\ f[c] \in Nat /\ f[y] \in Nat
  BY <1>3, ChosenIn
<1>5. v(m) = f[c] + v(m \ {c})
  BY <1>3, SumOfChosen
<1>6. \A s \in SUBSET S : v(s) \in Nat
  BY SumIsNat
<1> HIDE DEF v, c
<1>7. c # y
  BY <1>2, <1>5
<1>8. v(m \ {c}) = f[y] + v((m \ {c}) \ {y})
  <2>1. m \ {c} \in SUBSET S /\ m \ {c} \notin B /\ y \in m \ {c}
    BY <1>1, <1>3, <1>4, <1>7
  <2> QED
    BY <2>1
<1>9. v(m \ {y}) = f[c] + v((m \ {y}) \ {c})
  <2>1. m \ {y} \in SUBSET S /\ m \ {y} \notin B /\ c \in m \ {y}
    BY <1>1, <1>3, <1>4, <1>7
  <2> QED
    BY <2>1
<1>10. (m \ {c}) \ {y} = (m \ {y}) \ {c}
  OBVIOUS
<1>11. v((m \ {y}) \ {c}) \in Nat
  BY <1>3, <1>6
<1> QED
  BY <1>2, <1>4, <1>5, <1>8, <1>9, <1>10, <1>11

\* Sums of smaller functions are smaller.
LEMMA SumIsMonotone ==
    ASSUME NEW S, IsFiniteSet(S), NEW f \in [S -> Nat], NEW g \in [S -> Nat],
           \A x \in S : f[x] <= g[x]
    PROVE  SumFunctionOnSet(f, S) <= SumFunctionOnSet(g, S)
<1> DEFINE v(s) == SumFunctionOnSet(f, s)
           w(s) == SumFunctionOnSet(g, s)
           B == {s \in SUBSET S : ~ (v(s) <= w(s))}
<1> SUFFICES ASSUME B # {} PROVE FALSE
  OBVIOUS
<1>1. PICK m \in B : \A t \in B : ~ (t \subseteq m /\ t # m)
  <2>1. B \subseteq SUBSET S
    OBVIOUS
  <2> HIDE DEF B
  <2> QED
    BY <2>1, MinimalSet
<1>2. m \in SUBSET S /\ IsFiniteSet(m) /\ ~ (v(m) <= w(m))
  BY <1>1, FS_Subset
<1>3. m # {}
  BY <1>2, SumOfNone
<1>4. PICK c \in m : c \in S
  BY <1>2, <1>3
<1>5. v(m) = f[c] + v(m \ {c}) /\ w(m) = g[c] + w(m \ {c})
  BY <1>2, <1>4, SumOfElement
<1>6. \A s \in SUBSET S : v(s) \in Nat /\ w(s) \in Nat
  BY SumIsNat
<1> HIDE DEF v, w
<1>7. v(m \ {c}) <= w(m \ {c})
  BY <1>1, <1>2, <1>4
<1>8. v(m \ {c}) \in Nat /\ w(m \ {c}) \in Nat /\ f[c] \in Nat /\ g[c] \in Nat /\ f[c] <= g[c]
  BY <1>2, <1>4, <1>6
<1> QED
  BY <1>2, <1>5, <1>7, <1>8

\* Functions that agree on a set have the same sum over it.
LEMMA SumDependsOnSet ==
    ASSUME NEW S, IsFiniteSet(S), NEW f \in [S -> Nat], NEW g \in [S -> Nat], NEW T \in SUBSET S,
           \A x \in T : f[x] = g[x]
    PROVE  SumFunctionOnSet(f, T) = SumFunctionOnSet(g, T)
<1> DEFINE v(s) == SumFunctionOnSet(f, s)
           w(s) == SumFunctionOnSet(g, s)
           B == {s \in SUBSET T : v(s) # w(s)}
<1> SUFFICES ASSUME B # {} PROVE FALSE
  OBVIOUS
<1>0. IsFiniteSet(T)
  BY FS_Subset
<1>1. PICK m \in B : \A t \in B : ~ (t \subseteq m /\ t # m)
  <2>1. B \subseteq SUBSET T
    OBVIOUS
  <2> HIDE DEF B
  <2> QED
    BY <1>0, <2>1, MinimalSet
<1>2. m \in SUBSET S /\ m \in SUBSET T /\ v(m) # w(m)
  BY <1>1
<1>3. m # {}
  BY <1>2, SumOfNone
<1>4. PICK c \in m : c \in S /\ c \in T
  BY <1>2, <1>3
<1>5. v(m) = f[c] + v(m \ {c}) /\ w(m) = g[c] + w(m \ {c})
  BY <1>2, <1>4, SumOfElement
<1> HIDE DEF v, w
<1>7. v(m \ {c}) = w(m \ {c})
  BY <1>1, <1>2, <1>4
<1> QED
  BY <1>2, <1>4, <1>5, <1>7

\* One more for one element is one more in the sum.
LEMMA SumOfUpdate ==
    ASSUME NEW S, IsFiniteSet(S), NEW f \in [S -> Nat], NEW x \in S, NEW k \in Nat
    PROVE  SumFunctionOnSet([f EXCEPT ![x] = k], S) + f[x] = SumFunctionOnSet(f, S) + k
<1> DEFINE g == [f EXCEPT ![x] = k]
<1>1. g \in [S -> Nat] /\ g[x] = k /\ \A y \in S \ {x} : f[y] = g[y]
  OBVIOUS
<1> HIDE DEF g
<1>2. SumFunctionOnSet(f, S \ {x}) = SumFunctionOnSet(g, S \ {x})
  BY <1>1, SumDependsOnSet
<1>3. SumFunctionOnSet(f, S) = f[x] + SumFunctionOnSet(f, S \ {x})
  BY SumOfElement
<1>4. SumFunctionOnSet(g, S) = k + SumFunctionOnSet(g, S \ {x})
  BY <1>1, SumOfElement
<1>5. SumFunctionOnSet(f, S \ {x}) \in Nat /\ f[x] \in Nat
  BY SumIsNat
<1>6. SumFunctionOnSet(g, S) + f[x] = SumFunctionOnSet(f, S) + k
  BY <1>2, <1>3, <1>4, <1>5
<1> QED
  BY <1>6 DEF g

LEMMA SumOfZeros ==
    ASSUME NEW S, IsFiniteSet(S)
    PROVE  SumFunctionOnSet([x \in S |-> 0], S) = 0
<1> DEFINE f == [x \in S |-> 0]
           v(s) == SumFunctionOnSet(f, s)
           B == {s \in SUBSET S : v(s) # 0}
<1> SUFFICES ASSUME B # {} PROVE FALSE
  OBVIOUS
<1>0. f \in [S -> Nat] /\ \A x \in S : f[x] = 0
  OBVIOUS
<1> HIDE DEF f
<1>1. PICK m \in B : \A t \in B : ~ (t \subseteq m /\ t # m)
  <2>1. B \subseteq SUBSET S
    OBVIOUS
  <2> HIDE DEF B
  <2> QED
    BY <2>1, MinimalSet
<1>2. m \in SUBSET S /\ v(m) # 0
  BY <1>1
<1>3. m # {}
  BY <1>2, SumOfNone
<1>4. PICK c \in m : c \in S
  BY <1>2, <1>3
<1>5. v(m) = f[c] + v(m \ {c})
  BY <1>0, <1>2, <1>4, SumOfElement
<1> HIDE DEF v
<1>7. v(m \ {c}) = 0
  BY <1>1, <1>2, <1>4
<1> QED
  BY <1>0, <1>2, <1>4, <1>5, <1>7
=============================================================================
