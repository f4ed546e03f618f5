--------------------------- MODULE TotalTheorems ---------------------------
(***************************************************************************)
(* What the sum of the values of a function is (Totals): the equation it   *)
(* is computed by, that the order of its summands does not matter, and how *)
(* it changes with one of them.  The library folds a set by a recursive    *)
(* function that is chosen; the proofs by induction over the subsets of a  *)
(* finite set take a smallest counterexample instead.                      *)
(***************************************************************************)
EXTENDS Integers, FiniteSets, Totals, FiniteSetTheorems, WellFoundedInduction, TLAPS

FirstOf(s) == CHOOSE x \in s : TRUE

\* g is the recursive function that adds F up over the subsets of S.
AddsUp(F, S, g) ==
  g = [s \in SUBSET S |-> IF s = {} THEN 0 ELSE F[FirstOf(s)] + g[s \ {FirstOf(s)}]]

LEMMA TotalDef ==
  ASSUME NEW F PROVE Total(F) = (CHOOSE g : AddsUp(F, DOMAIN F, g))[DOMAIN F]
BY DEF Total, MapThenSumSet, MapThenFoldSet, AddsUp, FirstOf

\* A set of finite sets has a smallest one.
LEMMA Smallest ==
  ASSUME NEW Q, Q # {}, \A s \in Q : IsFiniteSet(s)
  PROVE  \E s \in Q : \A r \in Q : Cardinality(s) <= Cardinality(r)
<1> DEFINE N == {Cardinality(s) : s \in Q}
<1>1. N \subseteq Nat /\ N # {}
  BY FS_CardinalityType
<1>2. \E x \in N : \A y \in N : ~(<<y, x>> \in OpToRel(<, Nat))
  BY <1>1, NatLessThanWellFounded, WFMin
<1>3. PICK x \in N : \A y \in N : ~(y < x)
  BY <1>1, <1>2 DEF OpToRel
<1>4. PICK s \in Q : x = Cardinality(s)
  BY <1>3
<1>5. ASSUME NEW r \in Q PROVE Cardinality(s) <= Cardinality(r)
  <2>1. Cardinality(r) \in N
    OBVIOUS
  <2> QED
    BY <1>1, <1>3, <1>4, <2>1
<1> QED
  BY <1>5

\* Induction: Q has every subset of S, if it has a set as soon as it has all of its
\* proper parts.
LEMMA Subsets ==
  ASSUME NEW S, IsFiniteSet(S), NEW Q,
         \A s \in SUBSET S : (\A r \in SUBSET s : r # s => r \in Q) => s \in Q
  PROVE  \A s \in SUBSET S : s \in Q
<1> SUFFICES ASSUME \E s \in SUBSET S : s \notin Q PROVE FALSE
  OBVIOUS
<1> DEFINE B == {s \in SUBSET S : s \notin Q}
<1>1. \A s \in SUBSET S : IsFiniteSet(s)
  BY FS_Subset
<1>2. B # {} /\ \A s \in B : IsFiniteSet(s)
  BY <1>1
<1> HIDE DEF B
<1>3. PICK s \in B : \A r \in B : Cardinality(s) <= Cardinality(r)
  BY <1>2, Smallest
<1>s. s \in SUBSET S /\ s \notin Q
  BY DEF B
<1>4. ASSUME NEW r \in SUBSET s, r # s PROVE r \in Q
  <2>1. IsFiniteSet(s) /\ r \in SUBSET S
    BY <1>1, <1>s
  <2>2. IsFiniteSet(r) /\ Cardinality(r) <= Cardinality(s) /\ Cardinality(r) # Cardinality(s)
    BY <1>4, <2>1, FS_Subset
  <2>3. Cardinality(r) \in Nat /\ Cardinality(s) \in Nat
    BY <2>1, <2>2, FS_CardinalityType
  <2> QED
    BY <1>3, <2>1, <2>2, <2>3 DEF B
<1> QED
  BY <1>4, <1>s

\* The sum of F over the finite set s.
SumOver(F, s) == (CHOOSE g : AddsUp(F, s, g))[s]

LEMMA FirstIn == ASSUME NEW s, s # {} PROVE FirstOf(s) \in s
BY DEF FirstOf

\* The equation of the sum: one summand and the sum of the rest.
SumStep(F, s) == IF s = {} THEN 0 ELSE F[FirstOf(s)] + SumOver(F, s \ {FirstOf(s)})

LEMMA SumEquation ==
  ASSUME NEW F, NEW S, IsFiniteSet(S)
  PROVE  SumOver(F, S) = SumStep(F, S)
<1> DEFINE Q == {s \in SUBSET S : SumOver(F, s) = SumStep(F, s)}
<1>1. ASSUME NEW s \in SUBSET S, \A r \in SUBSET s : r # s => r \in Q
      PROVE  s \in Q
  <2> DEFINE h == [r \in SUBSET s |-> IF r = s THEN SumStep(F, s) ELSE SumOver(F, r)]
  <2>0. \A r \in SUBSET s : r # {} => FirstOf(r) \in r /\ r \ {FirstOf(r)} \in SUBSET s /\ r \ {FirstOf(r)} # s
    BY FirstIn
  <2>1. ASSUME NEW r \in SUBSET s
        PROVE  h[r] = IF r = {} THEN 0 ELSE F[FirstOf(r)] + h[r \ {FirstOf(r)}]
    <3>1. h[r] = SumStep(F, r)
      BY <1>1
    <3>2. r # {} => h[r \ {FirstOf(r)}] = SumOver(F, r \ {FirstOf(r)})
      BY <2>0
    <3> HIDE DEF h
    <3> QED
      BY <3>1, <3>2 DEF SumStep
  <2>2. AddsUp(F, s, h)
    <3>1. h = [r \in SUBSET s |-> h[r]]
      OBVIOUS
    <3> HIDE DEF h
    <3>2. h = [r \in SUBSET s |-> IF r = {} THEN 0 ELSE F[FirstOf(r)] + h[r \ {FirstOf(r)}]]
      BY <2>1, <3>1
    <3> QED
      BY <3>2 DEF AddsUp
  <2>g. PICK g : g = CHOOSE k : AddsUp(F, s, k)
    OBVIOUS
  <2>3. AddsUp(F, s, g)
    BY <2>2, <2>g
  <2>4. \A r \in SUBSET s : g[r] = IF r = {} THEN 0 ELSE F[FirstOf(r)] + g[r \ {FirstOf(r)}]
    BY <2>3 DEF AddsUp
  <2>5. \A r \in SUBSET s : r \in {q \in SUBSET s : q # s => g[q] = SumOver(F, q)}
    <3> DEFINE R == {q \in SUBSET s : q # s => g[q] = SumOver(F, q)}
    <3>1. ASSUME NEW r \in SUBSET s, \A q \in SUBSET r : q # r => q \in R PROVE r \in R
      <4>1. CASE r = s
        BY <4>1
      <4>2. CASE r # s /\ r = {}
        BY <1>1, <2>4, <4>2 DEF SumStep
      <4>3. CASE r # s /\ r # {}
        <5>1. r \ {FirstOf(r)} \in R /\ r \ {FirstOf(r)} # s
          BY <2>0, <3>1, <4>3
        <5>2. SumOver(F, r) = SumStep(F, r)
          BY <1>1, <4>3
        <5> QED
          BY <2>4, <4>3, <5>1, <5>2 DEF SumStep
      <4> QED
        BY <4>1, <4>2, <4>3
    <3>2. IsFiniteSet(s)
      BY FS_Subset
    <3> HIDE DEF R
    <3>3. \A r \in SUBSET s : r \in R
      BY <3>1, <3>2, Subsets
    <3> QED
      BY <3>3 DEF R
  <2>6. SumOver(F, s) = g[s]
    BY <2>g DEF SumOver
  <2>7. s # {} => g[s \ {FirstOf(s)}] = SumOver(F, s \ {FirstOf(s)})
    BY <2>0, <2>5
  <2>8. SumOver(F, s) = SumStep(F, s)
    BY <2>4, <2>6, <2>7 DEF SumStep
  <2> QED
    BY <2>8
<1> HIDE DEF Q
<1>2. \A s \in SUBSET S : s \in Q
  BY <1>1, Subsets
<1> QED
  BY <1>2 DEF Q

\* A sum of whole (natural) numbers is one.
LEMMA SumInt ==
  ASSUME NEW F, NEW S, IsFiniteSet(S), NEW V, V \in {Int, Nat}, \A x \in S : F[x] \in V
  PROVE  SumOver(F, S) \in V
<1> DEFINE Q == {s \in SUBSET S : SumOver(F, s) \in V}
<1>1. ASSUME NEW s \in SUBSET S, \A r \in SUBSET s : r # s => r \in Q PROVE s \in Q
  <2>1. SumOver(F, s) = SumStep(F, s)
    BY FS_Subset, SumEquation
  <2>2. CASE s = {}
    BY <2>1, <2>2 DEF SumStep
  <2>3. CASE s # {}
    <3>1. FirstOf(s) \in s /\ s \ {FirstOf(s)} \in Q
      BY <1>1, <2>3, FirstIn
    <3>2. SumOver(F, s) = F[FirstOf(s)] + SumOver(F, s \ {FirstOf(s)})
      BY <2>1, <2>3 DEF SumStep
    <3>3. F[FirstOf(s)] \in V /\ SumOver(F, s \ {FirstOf(s)}) \in V
      BY <3>1
    <3>4. F[FirstOf(s)] + SumOver(F, s \ {FirstOf(s)}) \in V
      BY <3>3
    <3> QED
      BY <3>2, <3>4
  <2> QED
    BY <2>2, <2>3
<1> HIDE DEF Q
<1>2. \A s \in SUBSET S : s \in Q
  BY <1>1, Subsets
<1> QED
  BY <1>2 DEF Q

\* A sum depends on the summands only.
LEMMA SumSame ==
  ASSUME NEW F, NEW G, NEW S, IsFiniteSet(S), \A x \in S : F[x] = G[x]
  PROVE  SumOver(F, S) = SumOver(G, S)
<1> DEFINE Q == {s \in SUBSET S : SumOver(F, s) = SumOver(G, s)}
<1>1. ASSUME NEW s \in SUBSET S, \A r \in SUBSET s : r # s => r \in Q PROVE s \in Q
  <2>1. SumOver(F, s) = SumStep(F, s) /\ SumOver(G, s) = SumStep(G, s)
    BY FS_Subset, SumEquation
  <2>2. s # {} => FirstOf(s) \in s /\ s \ {FirstOf(s)} \in Q
    BY <1>1, FirstIn
  <2> QED
    BY <2>1, <2>2 DEF SumStep
<1> HIDE DEF Q
<1>2. \A s \in SUBSET S : s \in Q
  BY <1>1, Subsets
<1> QED
  BY <1>2 DEF Q

\* The order of the summands does not matter.
LEMMA SumRemove ==
  ASSUME NEW F, NEW S, IsFiniteSet(S), \A x \in S : F[x] \in Int, NEW x \in S
  PROVE  SumOver(F, S) = F[x] + SumOver(F, S \ {x})
<1> DEFINE Q == {s \in SUBSET S : \A y \in s : SumOver(F, s) = F[y] + SumOver(F, s \ {y})}
<1>1. ASSUME NEW s \in SUBSET S, \A r \in SUBSET s : r # s => r \in Q PROVE s \in Q
  <2> SUFFICES ASSUME NEW y \in s PROVE SumOver(F, s) = F[y] + SumOver(F, s \ {y})
    OBVIOUS
  <2>c. PICK c : c = FirstOf(s)
    OBVIOUS
  <2>1. c \in s
    BY <2>c, FirstIn
  <2>2. \A r \in SUBSET s : IsFiniteSet(r) /\ SumOver(F, r) \in Int
    <3>1. ASSUME NEW r \in SUBSET s PROVE IsFiniteSet(r) /\ SumOver(F, r) \in Int
      <4>1. IsFiniteSet(r) /\ \A z \in r : F[z] \in Int
        BY FS_Subset
      <4> QED
        BY <4>1, SumInt
    <3> QED
      BY <3>1
  <2>3. SumOver(F, s) = F[c] + SumOver(F, s \ {c})
    <3>1. IsFiniteSet(s) /\ s # {}
      BY <2>2
    <3> QED
      BY <3>1, <2>c, SumEquation DEF SumStep
  <2>4. CASE y = c
    BY <2>3, <2>4
  <2>5. CASE y # c
    <3>1. s \ {c} \in Q /\ s \ {y} \in Q /\ y \in s \ {c} /\ c \in s \ {y}
      BY <1>1, <2>1, <2>5
    <3>2. SumOver(F, s \ {c}) = F[y] + SumOver(F, (s \ {c}) \ {y})
      BY <3>1
    <3>3. SumOver(F, s \ {y}) = F[c] + SumOver(F, (s \ {y}) \ {c})
      BY <3>1
    <3>4. (s \ {c}) \ {y} = (s \ {y}) \ {c}
      OBVIOUS
    <3>r. PICK r : r = (s \ {y}) \ {c}
      OBVIOUS
    <3>5. F[c] \in Int /\ F[y] \in Int /\ SumOver(F, r) \in Int
      BY <2>1, <2>2, <3>r
    <3>6. SumOver(F, s) = F[c] + (F[y] + SumOver(F, r)) /\ SumOver(F, s \ {y}) = F[c] + SumOver(F, r)
      BY <2>3, <3>2, <3>3, <3>4, <3>r
    <3> QED
      BY <3>5, <3>6
  <2> QED
    BY <2>4, <2>5
<1> HIDE DEF Q
<1>2. \A s \in SUBSET S : s \in Q
  BY <1>1, Subsets
<1>3. S \in Q
  BY <1>2
<1> QED
  BY <1>3 DEF Q
-----------------------------------------------------------------------------
LEMMA TotalOver == ASSUME NEW F PROVE Total(F) = SumOver(F, DOMAIN F)
BY TotalDef DEF SumOver

\* A total of whole (natural) numbers is one.
LEMMA TotalInt ==
  ASSUME NEW S, IsFiniteSet(S), NEW F \in [S -> Int] PROVE Total(F) \in Int
BY TotalOver, SumInt

LEMMA TotalNat ==
  ASSUME NEW S, IsFiniteSet(S), NEW F \in [S -> Nat] PROVE Total(F) \in Nat
BY TotalOver, SumInt

LEMMA TotalEmpty == ASSUME NEW F, DOMAIN F = {} PROVE Total(F) = 0
BY TotalOver, SumEquation, FS_EmptySet DEF SumStep

\* One summand taken out of a total.
LEMMA TotalSplit ==
  ASSUME NEW S, IsFiniteSet(S), NEW F \in [S -> Int], NEW x \in S
  PROVE  Total(F) = F[x] + Total([y \in S \ {x} |-> F[y]])
<1> DEFINE G == [y \in S \ {x} |-> F[y]]
<1>1. Total(F) = SumOver(F, S)
  BY TotalOver
<1>2. Total(G) = SumOver(G, S \ {x})
  BY TotalOver
<1>3. \A y \in S \ {x} : F[y] = G[y]
  OBVIOUS
<1> HIDE DEF G
<1>4. IsFiniteSet(S \ {x})
  BY FS_RemoveElement
<1>5. SumOver(F, S \ {x}) = SumOver(G, S \ {x})
  BY <1>3, <1>4, SumSame
<1>6. SumOver(F, S) = F[x] + SumOver(F, S \ {x})
  BY SumRemove
<1>7. Total(F) = F[x] + Total(G)
  BY <1>1, <1>2, <1>5, <1>6
<1> QED
  BY <1>7 DEF G

\* A part of natural numbers comes to no more than all of them.
LEMMA TotalPart ==
  ASSUME NEW S, IsFiniteSet(S), NEW F \in [S -> Nat], NEW T \in SUBSET S
  PROVE  Total([x \in T |-> F[x]]) <= Total(F)
<1> DEFINE Q == {s \in SUBSET S : SumOver(F, T \cap s) <= SumOver(F, s)}
<1>1. ASSUME NEW s \in SUBSET S, \A r \in SUBSET s : r # s => r \in Q PROVE s \in Q
  <2>1. IsFiniteSet(s) /\ IsFiniteSet(T \cap s) /\ (\A x \in s : F[x] \in Nat)
    BY FS_Subset
  <2>2. CASE s = {}
    <3>1. T \cap s = s
      BY <2>2
    <3>2. SumOver(F, s) \in Nat
      BY <2>1, SumInt
    <3> QED
      BY <3>1, <3>2
  <2>3. CASE s # {}
    <3>x. PICK x \in s : TRUE
      BY <2>3
    <3>r. PICK r : r = s \ {x}
      OBVIOUS
    <3>1. r \in Q /\ IsFiniteSet(r) /\ IsFiniteSet(T \cap r)
      BY <1>1, <3>r, <2>1, FS_Subset
    <3>2. SumOver(F, T \cap r) <= SumOver(F, r)
      BY <3>1
    <3>3. SumOver(F, T \cap r) \in Nat /\ SumOver(F, r) \in Nat
      <4>1. \A y \in r : F[y] \in Nat
        BY <2>1, <3>r
      <4> QED
        BY <3>1, <4>1, SumInt
    <3>4. SumOver(F, s) = F[x] + SumOver(F, r)
      BY <2>1, <3>r, SumRemove
    <3>f. F[x] \in Nat
      BY <2>1
    <3>5. CASE x \in T
      <4>1. SumOver(F, T \cap s) = F[x] + SumOver(F, (T \cap s) \ {x})
        BY <2>1, <3>5, SumRemove
      <4>2. (T \cap s) \ {x} = T \cap r
        BY <3>r
      <4>3. SumOver(F, T \cap s) <= SumOver(F, s)
        BY <3>2, <3>3, <3>4, <3>f, <4>1, <4>2
      <4> QED
        BY <4>3
    <3>6. CASE x \notin T
      <4>1. T \cap s = T \cap r
        BY <3>6, <3>r
      <4>2. SumOver(F, T \cap s) = SumOver(F, T \cap r)
        BY <4>1
      <4>3. SumOver(F, T \cap r) <= SumOver(F, s)
        BY <3>2, <3>3, <3>4, <3>f
      <4>4. SumOver(F, T \cap s) <= SumOver(F, s)
        BY <4>2, <4>3
      <4> QED
        BY <4>4
    <3> QED
      BY <3>5, <3>6
  <2> QED
    BY <2>2, <2>3
<1> HIDE DEF Q
<1>2. \A s \in SUBSET S : s \in Q
  BY <1>1, Subsets
<1>3. SumOver(F, T) <= SumOver(F, S)
  <2>1. T \cap S = T /\ S \in Q
    BY <1>2
  <2> QED
    BY <2>1 DEF Q
<1> DEFINE G == [x \in T |-> F[x]]
<1>4. Total(G) = SumOver(G, T) /\ Total(F) = SumOver(F, S)
  BY TotalOver
<1>5. \A x \in T : G[x] = F[x]
  OBVIOUS
<1> HIDE DEF G
<1>6. SumOver(G, T) = SumOver(F, T)
  BY <1>5, FS_Subset, SumSame
<1>7. Total(G) <= Total(F)
  BY <1>3, <1>4, <1>6
<1> QED
  BY <1>7 DEF G

\* One summand changed.
LEMMA TotalChange ==
  ASSUME NEW S, IsFiniteSet(S), NEW F \in [S -> Int], NEW x \in S, NEW v \in Int
  PROVE  Total([F EXCEPT ![x] = v]) = Total(F) - F[x] + v
<1> DEFINE G == [F EXCEPT ![x] = v]
           rest == [y \in S \ {x} |-> F[y]]
<1>1. G \in [S -> Int] /\ G[x] = v /\ [y \in S \ {x} |-> G[y]] = rest
  OBVIOUS
<1>2. Total(rest) \in Int
  BY FS_RemoveElement, TotalInt
<1>3. Total(F) = F[x] + Total(rest)
  BY TotalSplit
<1> HIDE DEF G, rest
<1>4. Total(G) = v + Total(rest)
  <2>1. Total(G) = G[x] + Total([y \in S \ {x} |-> G[y]])
    BY <1>1, TotalSplit
  <2> QED
    BY <1>1, <2>1
<1>5. Total(G) = Total(F) - F[x] + v
  BY <1>2, <1>3, <1>4
<1> QED
  BY <1>5 DEF G
=============================================================================
