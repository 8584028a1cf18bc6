-------------------------------- MODULE Sums --------------------------------
(***************************************************************************)
(* Lemmas about SumFunctionOnSet, for the money, the stock and the counts  *)
(* that the models add up.  None of them is about this system.             *)
(*                                                                         *)
(* The sum is defined as the last entry of a table of the sums over all    *)
(* subsets, which CHOOSE picks.  That there is one such table (TableExists *)
(* and TablesAgree) takes an induction.  The induction is that of a set of *)
(* numbers with 0 and the successor of each of its members (AllNumbers):   *)
(* the least number outside would have a predecessor inside.               *)
(***************************************************************************)
EXTENDS Integers, Functions, FiniteSetTheorems, WellFoundedInduction, TLAPS

\* The element SumFunctionOnSet takes out of a set first.
Pick(s) == CHOOSE x \in s : TRUE

\* i is the table of sums over the subsets of S, up to n elements.
Upto(S, n) == {s \in SUBSET S : Cardinality(s) <= n}
SumsOver(i, f, D) ==
    i = [s \in D |-> IF s = {} THEN 0 ELSE f[Pick(s)] + i[s \ {Pick(s)}]]

\* A set of numbers has a least one.
LEMMA Least ==
    ASSUME NEW T, T \subseteq Nat, T # {}
    PROVE  \E x \in T : \A y \in T : x <= y
<1> DEFINE R == OpToRel(<, Nat)
<1>1. IsWellFoundedOn(R, Nat)
  BY NatLessThanWellFounded
<1>2. \A x, y \in Nat : x < y => <<x, y>> \in R
  BY DEF OpToRel
<1> HIDE DEF R
<1>3. PICK x \in T : \A y \in T : ~ (<<y, x>> \in R)
  BY <1>1, WFMin
<1>4. ASSUME NEW y \in T PROVE x <= y
  <2>1. x \in Nat /\ y \in Nat /\ ~ (y < x)
    BY <1>2, <1>3
  <2> QED BY <2>1
<1> QED BY <1>4

\* Induction: a set of numbers that has 0 and the successors of its members is Nat.
LEMMA AllNumbers ==
    ASSUME NEW T, 0 \in T, \A n \in Nat : n \in T => n + 1 \in T
    PROVE  Nat \subseteq T
<1> DEFINE bad == {n \in Nat : n \notin T}
<1>1. SUFFICES ASSUME bad # {} PROVE FALSE
  OBVIOUS
<1>2. PICK n \in bad : \A m \in bad : n <= m
  BY <1>1, Least
<1>3. n \in Nat /\ n # 0 /\ n - 1 \in Nat
  OBVIOUS
<1>4. n - 1 \in T
  BY <1>2, <1>3
<1>5. (n - 1) + 1 \in T
  BY <1>3, <1>4
<1> QED BY <1>3, <1>5

\* What Pick takes is there, and without it the set is smaller.
LEMMA Taken ==
    ASSUME NEW s, s # {}
    PROVE  Pick(s) \in s
BY DEF Pick

LEMMA Smaller ==
    ASSUME NEW S, IsFiniteSet(S), NEW s \in SUBSET S, s # {}
    PROVE  /\ s \ {Pick(s)} \in SUBSET S /\ IsFiniteSet(s) /\ Cardinality(s) \in Nat
           /\ Cardinality(s) # 0
           /\ Cardinality(s \ {Pick(s)}) = Cardinality(s) - 1
<1>1. IsFiniteSet(s)
  BY FS_Subset
<1>2. Cardinality(s \ {Pick(s)}) = Cardinality(s) - 1
  BY <1>1, Taken, FS_RemoveElement
<1>3. Cardinality(s) \in Nat /\ Cardinality(s) # 0
  BY <1>1, FS_CardinalityType, FS_EmptySet
<1> QED BY <1>1, <1>2, <1>3

\* There is a table of sums: each entry is computed from those of smaller sets.
LEMMA TableExists ==
    ASSUME NEW S, IsFiniteSet(S), NEW f
    PROVE  \E i : SumsOver(i, f, SUBSET S)
<1> DEFINE T == {n \in Nat : \E i : SumsOver(i, f, Upto(S, n))}
<1>0. \A s \in SUBSET S : IsFiniteSet(s) /\ Cardinality(s) \in Nat /\ (Cardinality(s) = 0 <=> s = {})
  BY FS_Subset, FS_CardinalityType, FS_EmptySet
<1>1. 0 \in T
  <2> DEFINE i == [s \in Upto(S, 0) |-> 0]
  <2>1. \A s \in Upto(S, 0) : s = {}
    BY <1>0 DEF Upto
  <2>2. SumsOver(i, f, Upto(S, 0))
    BY <2>1 DEF SumsOver
  <2> QED BY <2>2
<1>2. ASSUME NEW n \in Nat, n \in T PROVE n + 1 \in T
  <2>1. PICK j : SumsOver(j, f, Upto(S, n))
    BY <1>2
  <2> DEFINE i == [s \in Upto(S, n + 1) |-> IF s = {} THEN 0 ELSE f[Pick(s)] + j[s \ {Pick(s)}]]
  <2>2. \A s \in Upto(S, n) : i[s] = j[s] /\ s \in Upto(S, n + 1)
    <3>1. ASSUME NEW s \in Upto(S, n) PROVE s \in Upto(S, n + 1)
      BY <1>0, <3>1 DEF Upto
    <3>2. ASSUME NEW s \in Upto(S, n) PROVE j[s] = IF s = {} THEN 0 ELSE f[Pick(s)] + j[s \ {Pick(s)}]
      BY <2>1, <3>2 DEF SumsOver
    <3> QED BY <3>1, <3>2
  <2>3. \A s \in Upto(S, n + 1) : s # {} => s \ {Pick(s)} \in Upto(S, n)
    BY <1>0, Smaller DEF Upto
  <2>4. \A s \in Upto(S, n + 1) : s # {} => i[s \ {Pick(s)}] = j[s \ {Pick(s)}]
    BY <2>2, <2>3
  <2>5. SumsOver(i, f, Upto(S, n + 1))
    BY <2>4 DEF SumsOver
  <2> QED BY <2>5
<1>3. Cardinality(S) \in T
  <2> HIDE DEF T
  <2>1. Nat \subseteq T
    BY <1>1, <1>2, AllNumbers
  <2> QED BY <2>1, FS_CardinalityType
<1>4. Upto(S, Cardinality(S)) = SUBSET S
  BY FS_Subset DEF Upto
<1> QED BY <1>3, <1>4

\* Two tables agree where both are defined.
LEMMA TablesAgree ==
    ASSUME NEW S, IsFiniteSet(S), NEW R \in SUBSET S, NEW f, NEW i, NEW j,
           SumsOver(i, f, SUBSET S), SumsOver(j, f, SUBSET R)
    PROVE  \A s \in SUBSET R : i[s] = j[s]
<1> DEFINE T == {n \in Nat : \A s \in Upto(R, n) : i[s] = j[s]}
<1>0. IsFiniteSet(R) /\ \A s \in SUBSET R :
        s \in SUBSET S /\ IsFiniteSet(s) /\ Cardinality(s) \in Nat /\ (Cardinality(s) = 0 <=> s = {})
  BY FS_Subset, FS_CardinalityType, FS_EmptySet
<1>1. 0 \in T
  BY <1>0 DEF Upto, SumsOver
<1>2. ASSUME NEW n \in Nat, n \in T PROVE n + 1 \in T
  <2>1. ASSUME NEW s \in Upto(R, n + 1) PROVE i[s] = j[s]
    <3>1. CASE s = {}
      BY <3>1 DEF SumsOver
    <3>2. CASE s # {}
      <4>1. s \ {Pick(s)} \in Upto(R, n)
        BY <1>0, <3>2, Smaller DEF Upto
      <4>2. i[s \ {Pick(s)}] = j[s \ {Pick(s)}]
        BY <1>2, <4>1
      <4> QED BY <1>0, <3>2, <4>2 DEF SumsOver, Upto
    <3> QED BY <3>1, <3>2
  <2> QED BY <2>1
<1>3. ASSUME NEW s \in SUBSET R PROVE i[s] = j[s]
  <2>1. Cardinality(s) \in T
    <3> HIDE DEF T
    <3> QED BY <1>0, <1>1, <1>2, AllNumbers
  <2> QED BY <1>0, <2>1 DEF Upto
<1> QED BY <1>3

\* The table of a subset is a part of the table of the set.
LEMMA PartOfTable ==
    ASSUME NEW S, IsFiniteSet(S), NEW R \in SUBSET S, NEW f, NEW i, NEW j,
           SumsOver(i, f, SUBSET S), SumsOver(j, f, SUBSET R)
    PROVE  i[R] = j[R]
BY ONLY TablesAgree, IsFiniteSet(S), SumsOver(i, f, SUBSET S), SumsOver(j, f, SUBSET R), R \in SUBSET R

\* The definition of SumFunctionOnSet, unfolded.
LEMMA SumIsTable ==
    ASSUME NEW S, NEW f
    PROVE  SumFunctionOnSet(f, S) = (CHOOSE i : SumsOver(i, f, SUBSET S))[S]
BY Zenon DEF SumFunctionOnSet, FoldFunctionOnSet, MapThenFoldSet, SumsOver, Pick

\* One step of the recursion.
LEMMA SumStep ==
    ASSUME NEW S, IsFiniteSet(S), NEW f
    PROVE  SumFunctionOnSet(f, S) =
             IF S = {} THEN 0 ELSE f[Pick(S)] + SumFunctionOnSet(f, S \ {Pick(S)})
<1> DEFINE R == S \ {Pick(S)}
           i == CHOOSE t : SumsOver(t, f, SUBSET S)
           j == CHOOSE t : SumsOver(t, f, SUBSET R)
<1>1. R \in SUBSET S /\ IsFiniteSet(R)
  BY FS_Subset
<1>2. SumsOver(i, f, SUBSET S)
  BY TableExists
<1>3. SumsOver(j, f, SUBSET R)
  BY <1>1, TableExists
<1>4. SumFunctionOnSet(f, S) = i[S] /\ SumFunctionOnSet(f, R) = j[R]
  BY SumIsTable
<1> HIDE DEF i, j
<1>5. i[R] = j[R]
  <2> HIDE DEF R
  <2> QED BY <1>1, <1>2, <1>3, PartOfTable
<1>6. i[S] = IF S = {} THEN 0 ELSE f[Pick(S)] + i[R]
  BY <1>2 DEF SumsOver
<1> QED BY <1>4, <1>5, <1>6

-----------------------------------------------------------------------------
(* What the proofs about the models use *)

\* Nothing to add.
LEMMA SumEmpty == ASSUME NEW f PROVE SumFunctionOnSet(f, {}) = 0
BY SumStep, FS_EmptySet

\* Any element may be taken out first.
LEMMA SumRemove ==
    ASSUME NEW S, IsFiniteSet(S), NEW f, \A x \in S : f[x] \in Int
    PROVE  /\ SumFunctionOnSet(f, S) \in Int
           /\ \A x \in S : SumFunctionOnSet(f, S) = f[x] + SumFunctionOnSet(f, S \ {x})
<1> DEFINE Sum(s) == SumFunctionOnSet(f, s)
           Good(s) == Sum(s) \in Int /\ \A x \in s : Sum(s) = f[x] + Sum(s \ {x})
           T == {n \in Nat : \A s \in Upto(S, n) : Good(s)}
<1>0. \A s \in SUBSET S : IsFiniteSet(s) /\ Cardinality(s) \in Nat /\ (Cardinality(s) = 0 <=> s = {})
  BY FS_Subset, FS_CardinalityType, FS_EmptySet
<1>a. \A s \in SUBSET S : Sum(s) = IF s = {} THEN 0 ELSE f[Pick(s)] + Sum(s \ {Pick(s)})
  BY <1>0, SumStep
<1> HIDE DEF Sum
<1>1. 0 \in T
  BY <1>0, <1>a DEF Upto
<1>2. ASSUME NEW n \in Nat, n \in T PROVE n + 1 \in T
  <2>1. ASSUME NEW s \in Upto(S, n + 1), s # {} PROVE Good(s)
    <3> DEFINE p == Pick(s)
               R == s \ {p}
    <3>1. p \in s /\ s \in SUBSET S /\ R \in Upto(S, n) /\ f[p] \in Int
      BY <1>0, <2>1, Smaller, Taken DEF Upto
    <3>2. Good(R) /\ Sum(s) = f[p] + Sum(R)
      BY <1>2, <1>a, <2>1, <3>1
    <3> HIDE DEF p
    <3>3. Sum(s) \in Int
      BY <3>1, <3>2
    <3>4. ASSUME NEW x \in s, x # p PROVE Sum(s) = f[x] + Sum(s \ {x})
      <4> DEFINE Q == s \ {x}
                 B == R \ {x}
      <4>1. Q \in Upto(S, n)
        <5>1. IsFiniteSet(s) /\ Cardinality(Q) = Cardinality(s) - 1 /\ Cardinality(s) <= n + 1
              /\ Cardinality(s) \in Nat
          BY <1>0, <2>1, <3>1, FS_RemoveElement DEF Upto
        <5> QED BY <3>1, <5>1 DEF Upto
      <4>2. Good(Q) /\ p \in Q /\ Q \ {p} = B /\ f[x] \in Int
        BY <1>2, <3>1, <3>4, <4>1
      <4>3. Sum(Q) = f[p] + Sum(B)
        BY <4>2
      <4>4. Sum(R) = f[x] + Sum(B)
        BY <3>2, <3>4
      <4>5. B \in Upto(S, n)
        <5>1. IsFiniteSet(R) /\ Cardinality(B) <= Cardinality(R) /\ Cardinality(R) <= n
          BY <1>0, <3>1, FS_Subset DEF Upto
        <5>2. Cardinality(R) \in Nat /\ Cardinality(B) \in Nat
          BY <1>0, <3>1
        <5> QED BY <3>1, <5>1, <5>2 DEF Upto
      <4>6. Sum(B) \in Int
        BY <1>2, <4>5
      <4> HIDE DEF Q, R, B
      <4>7. Sum(s) = f[x] + Sum(Q)
        BY <3>1, <3>2, <4>2, <4>3, <4>4, <4>6
      <4> QED BY <4>7 DEF Q
    <3> QED BY <3>2, <3>3, <3>4
  <2>2. Good({})
    BY <1>a
  <2> QED BY <2>1, <2>2
<1>3. Cardinality(S) \in T
  <2> HIDE DEF T
  <2>1. Nat \subseteq T
    BY <1>1, <1>2, AllNumbers
  <2> QED BY <2>1, FS_CardinalityType
<1>4. S \in Upto(S, Cardinality(S))
  BY <1>0 DEF Upto
<1>5. Good(S)
  BY <1>3, <1>4
<1> QED BY <1>5 DEF Sum

\* One element more.
LEMMA SumAdd ==
    ASSUME NEW S, IsFiniteSet(S), NEW f, NEW x, x \notin S, \A y \in S \cup {x} : f[y] \in Int
    PROVE  /\ SumFunctionOnSet(f, S) \in Int
           /\ SumFunctionOnSet(f, S \cup {x}) = SumFunctionOnSet(f, S) + f[x]
<1>1. IsFiniteSet(S \cup {x}) /\ (S \cup {x}) \ {x} = S
  BY FS_AddElement
<1>2. SumFunctionOnSet(f, S) \in Int /\ f[x] \in Int
  BY SumRemove
<1>3. SumFunctionOnSet(f, S \cup {x}) = f[x] + SumFunctionOnSet(f, S)
  <2> DEFINE U == S \cup {x}
  <2>1. IsFiniteSet(U) /\ x \in U /\ U \ {x} = S /\ \A y \in U : f[y] \in Int
    BY <1>1
  <2> HIDE DEF U
  <2>2. SumFunctionOnSet(f, U) = f[x] + SumFunctionOnSet(f, S)
    BY <2>1, SumRemove
  <2> QED BY <2>2 DEF U
<1> QED BY <1>2, <1>3

\* A property of finite sets is proved one element at a time.
LEMMA SubsetInduction ==
    ASSUME NEW S, IsFiniteSet(S), NEW T, {} \in T,
           \A s \in SUBSET S, x \in S : s \in T /\ x \notin s => s \cup {x} \in T
    PROVE  S \in T
<1> DEFINE N == {n \in Nat : \A s \in Upto(S, n) : s \in T}
<1>0. \A s \in SUBSET S : IsFiniteSet(s) /\ Cardinality(s) \in Nat /\ (Cardinality(s) = 0 <=> s = {})
  BY FS_Subset, FS_CardinalityType, FS_EmptySet
<1>1. 0 \in N
  <2>1. \A s \in Upto(S, 0) : s = {}
    BY <1>0 DEF Upto
  <2> QED BY <2>1
<1>2. ASSUME NEW n \in Nat, n \in N PROVE n + 1 \in N
  <2>1. ASSUME NEW s \in Upto(S, n + 1), s # {} PROVE s \in T
    <3> DEFINE R == s \ {Pick(s)}
    <3>1. R \in Upto(S, n) /\ Pick(s) \in s /\ R \in SUBSET S
      BY <1>0, <2>1, Smaller, Taken DEF Upto
    <3>2. R \in T /\ Pick(s) \in S /\ Pick(s) \notin R
      BY <1>2, <3>1 DEF Upto
    <3>3. R \cup {Pick(s)} = s
      BY <3>1
    <3> QED BY <3>1, <3>2, <3>3
  <2>2. \A s \in Upto(S, n + 1) : s \in T
    BY <2>1
  <2> QED BY <2>2
<1>3. Cardinality(S) \in N
  <2> HIDE DEF N
  <2>1. Nat \subseteq N
    BY <1>1, <1>2, AllNumbers
  <2> QED BY <2>1, FS_CardinalityType
<1> QED BY <1>0, <1>3 DEF Upto

\* Only the summands matter.
LEMMA SumSame ==
    ASSUME NEW S, IsFiniteSet(S), NEW f, NEW g, \A x \in S : f[x] = g[x] /\ f[x] \in Int
    PROVE  SumFunctionOnSet(f, S) = SumFunctionOnSet(g, S)
<1> DEFINE T == {s \in SUBSET S : SumFunctionOnSet(f, s) = SumFunctionOnSet(g, s)}
<1>1. {} \in T
  BY SumEmpty
<1>2. ASSUME NEW s \in SUBSET S, NEW x \in S, s \in T, x \notin s PROVE s \cup {x} \in T
  <2>1. IsFiniteSet(s)
    BY FS_Subset
  <2>2. \A y \in s \cup {x} : f[y] \in Int /\ g[y] \in Int
    OBVIOUS
  <2>n. x \notin s
    BY <1>2
  <2>3. SumFunctionOnSet(f, s \cup {x}) = SumFunctionOnSet(f, s) + f[x]
    BY ONLY <2>n, <2>1, <2>2, SumAdd
  <2>4. SumFunctionOnSet(g, s \cup {x}) = SumFunctionOnSet(g, s) + g[x]
    BY ONLY <2>n, <2>1, <2>2, SumAdd
  <2>5. f[x] = g[x] /\ SumFunctionOnSet(f, s) = SumFunctionOnSet(g, s)
    BY <1>2
  <2> QED BY <2>3, <2>4, <2>5
<1>3. S \in T
  <2> HIDE DEF T
  <2> QED BY <1>1, <1>2, SubsetInduction
<1> QED BY <1>3

\* Two sets with nothing in common.
LEMMA SumUnion ==
    ASSUME NEW S, IsFiniteSet(S), NEW R, IsFiniteSet(R), S \cap R = {}, NEW f,
           \A x \in S \cup R : f[x] \in Int
    PROVE  SumFunctionOnSet(f, S \cup R) = SumFunctionOnSet(f, S) + SumFunctionOnSet(f, R)
<1> DEFINE T == {s \in SUBSET S :
                   SumFunctionOnSet(f, s \cup R) = SumFunctionOnSet(f, s) + SumFunctionOnSet(f, R)}
<1>0. SumFunctionOnSet(f, R) \in Int
  BY SumRemove
<1>1. {} \in T
  <2>1. {} \cup R = R
    OBVIOUS
  <2> QED BY <1>0, <2>1, SumEmpty
<1>2. ASSUME NEW s \in SUBSET S, NEW x \in S, s \in T, x \notin s PROVE s \cup {x} \in T
  <2>1. IsFiniteSet(s) /\ IsFiniteSet(s \cup R)
    BY FS_Subset, FS_Union
  <2>2. \A y \in (s \cup R) \cup {x} : f[y] \in Int
    OBVIOUS
  <2>3. x \notin s \cup R
    BY <1>2
  <2>4. /\ SumFunctionOnSet(f, s) \in Int
        /\ SumFunctionOnSet(f, s \cup {x}) = SumFunctionOnSet(f, s) + f[x]
    BY <1>2, <2>1, <2>2, SumAdd
  <2>5. SumFunctionOnSet(f, (s \cup R) \cup {x}) = SumFunctionOnSet(f, s \cup R) + f[x]
    BY <2>1, <2>2, <2>3, SumAdd
  <2>6. SumFunctionOnSet(f, (s \cup {x}) \cup R) = SumFunctionOnSet(f, (s \cup R) \cup {x})
    <3>1. (s \cup R) \cup {x} = (s \cup {x}) \cup R
      OBVIOUS
    <3> QED BY <3>1, Zenon
  <2>7. SumFunctionOnSet(f, s \cup R) = SumFunctionOnSet(f, s) + SumFunctionOnSet(f, R) /\ f[x] \in Int
    BY <1>2, <2>2
  <2>8. SumFunctionOnSet(f, (s \cup {x}) \cup R)
          = SumFunctionOnSet(f, s \cup {x}) + SumFunctionOnSet(f, R)
    BY ONLY <1>0, <2>4, <2>5, <2>6, <2>7
  <2> QED BY <2>8
<1>3. S \in T
  <2> HIDE DEF T
  <2> QED BY <1>1, <1>2, SubsetInduction
<1> QED BY <1>3

\* One summand changes.
LEMMA SumUpdate ==
    ASSUME NEW S, IsFiniteSet(S), NEW f, NEW g, NEW x \in S, \A y \in S : f[y] \in Int,
           g[x] \in Int, \A y \in S : y # x => g[y] = f[y]
    PROVE  SumFunctionOnSet(g, S) = SumFunctionOnSet(f, S) + g[x] - f[x]
<1>1. IsFiniteSet(S \ {x}) /\ \A y \in S : g[y] \in Int
  BY FS_RemoveElement
<1>2. SumFunctionOnSet(g, S \ {x}) = SumFunctionOnSet(f, S \ {x})
  BY <1>1, SumSame
<1>3. /\ SumFunctionOnSet(f, S) = f[x] + SumFunctionOnSet(f, S \ {x})
      /\ SumFunctionOnSet(g, S) = g[x] + SumFunctionOnSet(g, S \ {x})
  BY <1>1, SumRemove
<1>4. SumFunctionOnSet(f, S \ {x}) \in Int
  BY <1>1, SumRemove
<1> QED BY <1>2, <1>3, <1>4

\* Larger summands.
LEMMA SumLe ==
    ASSUME NEW S, IsFiniteSet(S), NEW f, NEW g,
           \A x \in S : f[x] \in Int /\ g[x] \in Int /\ f[x] <= g[x]
    PROVE  SumFunctionOnSet(f, S) <= SumFunctionOnSet(g, S)
<1> DEFINE T == {s \in SUBSET S : SumFunctionOnSet(f, s) <= SumFunctionOnSet(g, s)}
<1>1. {} \in T
  BY SumEmpty
<1>2. ASSUME NEW s \in SUBSET S, NEW x \in S, s \in T, x \notin s PROVE s \cup {x} \in T
  <2>1. IsFiniteSet(s)
    BY FS_Subset
  <2>2. \A y \in s \cup {x} : f[y] \in Int /\ g[y] \in Int
    OBVIOUS
  <2>3. /\ SumFunctionOnSet(f, s \cup {x}) = SumFunctionOnSet(f, s) + f[x]
        /\ SumFunctionOnSet(g, s \cup {x}) = SumFunctionOnSet(g, s) + g[x]
        /\ SumFunctionOnSet(f, s) \in Int /\ SumFunctionOnSet(g, s) \in Int
    BY <1>2, <2>1, <2>2, SumAdd
  <2> QED BY <1>2, <2>2, <2>3
<1>3. S \in T
  <2> HIDE DEF T
  <2> QED BY <1>1, <1>2, SubsetInduction
<1> QED BY <1>3

\* Nothing negative.
LEMMA SumNat ==
    ASSUME NEW S, IsFiniteSet(S), NEW f, \A x \in S : f[x] \in Nat
    PROVE  SumFunctionOnSet(f, S) \in Nat
<1> DEFINE z == [x \in S |-> 0]
           T == {s \in SUBSET S : SumFunctionOnSet(z, s) = 0}
<1>1. {} \in T
  BY SumEmpty
<1>2. ASSUME NEW s \in SUBSET S, NEW x \in S, s \in T, x \notin s PROVE s \cup {x} \in T
  <2>1. IsFiniteSet(s) /\ z[x] = 0 /\ \A y \in s \cup {x} : z[y] \in Int
    BY FS_Subset
  <2>2. SumFunctionOnSet(z, s) = 0
    BY <1>2
  <2> HIDE DEF z
  <2>3. SumFunctionOnSet(z, s \cup {x}) = SumFunctionOnSet(z, s) + z[x]
    BY <1>2, <2>1, SumAdd
  <2>4. SumFunctionOnSet(z, s \cup {x}) = 0
    BY ONLY <2>1, <2>2, <2>3
  <2> QED BY <2>4
<1>3. S \in T
  <2> HIDE DEF T
  <2> QED BY <1>1, <1>2, SubsetInduction
<1>4. SumFunctionOnSet(z, S) <= SumFunctionOnSet(f, S)
  <2>1. \A x \in S : z[x] \in Int /\ f[x] \in Int /\ z[x] <= f[x]
    OBVIOUS
  <2> HIDE DEF z
  <2> QED BY <2>1, SumLe
<1>5. SumFunctionOnSet(f, S) \in Int
  BY SumRemove
<1> QED BY <1>3, <1>4, <1>5

\* A sum over a set that contains another's is no smaller.
LEMMA SumPart ==
    ASSUME NEW S, IsFiniteSet(S), NEW R \in SUBSET S, NEW f, \A x \in S : f[x] \in Nat
    PROVE  SumFunctionOnSet(f, R) <= SumFunctionOnSet(f, S)
<1>1. IsFiniteSet(R) /\ IsFiniteSet(S \ R) /\ R \cap (S \ R) = {}
  BY FS_Subset, FS_Difference
<1>2. SumFunctionOnSet(f, R) \in Nat /\ SumFunctionOnSet(f, S \ R) \in Nat
  BY <1>1, SumNat
<1>3. SumFunctionOnSet(f, S) = SumFunctionOnSet(f, R) + SumFunctionOnSet(f, S \ R)
  <2>1. \A x \in R \cup (S \ R) : f[x] \in Int
    OBVIOUS
  <2>2. SumFunctionOnSet(f, R \cup (S \ R)) = SumFunctionOnSet(f, R) + SumFunctionOnSet(f, S \ R)
    BY <1>1, <2>1, SumUnion
  <2>3. R \cup (S \ R) = S
    OBVIOUS
  <2> QED BY <2>2, <2>3
<1> QED BY <1>2, <1>3

\* The sum over a set is the sum of the sums over its classes, c[x] being x's class.
LEMMA SumByClass ==
    ASSUME NEW S, IsFiniteSet(S), NEW f, \A x \in S : f[x] \in Int,
           NEW C, IsFiniteSet(C), NEW c, \A x \in S : c[x] \in C
    PROVE  SumFunctionOnSet([b \in C |-> SumFunctionOnSet(f, {x \in S : c[x] = b})], C)
             = SumFunctionOnSet(f, S)
<1> DEFINE of(B) == {x \in S : c[x] \in B}
           class(b) == {x \in S : c[x] = b}
           g == [b \in C |-> SumFunctionOnSet(f, class(b))]
           T == {B \in SUBSET C : SumFunctionOnSet(g, B) = SumFunctionOnSet(f, of(B))}
<1>0. \A b \in C : g[b] \in Int /\ g[b] = SumFunctionOnSet(f, class(b))
  <2> SUFFICES ASSUME NEW b \in C PROVE SumFunctionOnSet(f, class(b)) \in Int
    OBVIOUS
  <2>1. IsFiniteSet(class(b)) /\ \A x \in class(b) : f[x] \in Int
    BY FS_Subset
  <2> HIDE DEF class
  <2> QED BY <2>1, SumRemove
<1>1. {} \in T
  <2>1. of({}) = {}
    OBVIOUS
  <2> HIDE DEF of
  <2> QED BY <2>1, SumEmpty
<1>2. ASSUME NEW B \in SUBSET C, NEW b \in C, B \in T, b \notin B PROVE B \cup {b} \in T
  <2>1. IsFiniteSet(B) /\ IsFiniteSet(of(B)) /\ IsFiniteSet(class(b))
    BY FS_Subset
  <2>2. of(B) \cap class(b) = {} /\ of(B \cup {b}) = of(B) \cup class(b)
    BY <1>2
  <2>3. \A x \in of(B) \cup class(b) : f[x] \in Int
    OBVIOUS
  <2>4. SumFunctionOnSet(g, B) = SumFunctionOnSet(f, of(B)) /\ b \notin B
    BY <1>2
  <2>5. \A y \in B \cup {b} : g[y] \in Int
    BY <1>0
  <2>6. g[b] = SumFunctionOnSet(f, class(b))
    BY <1>0
  <2> HIDE DEF of, class, g
  <2>a. IsFiniteSet(B) /\ b \notin B
    BY <2>1, <2>4
  <2>7. SumFunctionOnSet(g, B \cup {b}) = SumFunctionOnSet(g, B) + g[b]
    BY ONLY <2>a, <2>5, SumAdd
  <2>8. SumFunctionOnSet(f, of(B) \cup class(b))
          = SumFunctionOnSet(f, of(B)) + SumFunctionOnSet(f, class(b))
    BY ONLY <2>1, <2>2, <2>3, SumUnion
  <2>9. SumFunctionOnSet(g, B \cup {b}) = SumFunctionOnSet(f, of(B \cup {b}))
    BY ONLY <2>2, <2>4, <2>6, <2>7, <2>8
  <2> QED BY <2>9
<1>3. C \in T
  <2> HIDE DEF T
  <2> QED BY <1>1, <1>2, SubsetInduction
<1>4. of(C) = S
  OBVIOUS
<1> HIDE DEF g, of
<1>5. SumFunctionOnSet(g, C) = SumFunctionOnSet(f, S)
  BY <1>3, <1>4
<1> QED BY <1>5 DEF g
=============================================================================
