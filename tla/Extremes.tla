------------------------------ MODULE Extremes ------------------------------
(***************************************************************************)
(* A finite set of integers has a least and a greatest member, for the     *)
(* proofs about Scan and Store.                                            *)
(***************************************************************************)
EXTENDS Integers, FiniteSets, FiniteSetTheorems, WellFoundedInduction, TLAPS

\* A nonempty family of subsets of a finite set has a minimal member.
LEMMA SmallestMember ==
  \A S, F : IsFiniteSet(S) /\ F \subseteq SUBSET S /\ F # {}
            => \E T \in F : \A U \in F : U \subseteq T => U = T
<1> SUFFICES ASSUME NEW S, NEW F, IsFiniteSet(S), F \subseteq SUBSET S, F # {}
             PROVE  \E T \in F : \A U \in F : U \subseteq T => U = T
  OBVIOUS
<1>1. IsWellFoundedOn(StrictSubsetOrdering(S), FiniteSubsetsOf(S))
  BY FS_StrictSubsetOrderingWellFounded
<1>2. IsWellFoundedOn(StrictSubsetOrdering(S), SUBSET S)
  BY <1>1, FS_FiniteSubsetsOfFinite
<1>3. \E T \in F : \A U \in F : ~ (<<U, T>> \in StrictSubsetOrdering(S))
  BY <1>2, WFMin, Zenon
<1> QED BY <1>3 DEF StrictSubsetOrdering

\* A finite set of integers has a least member.
LEMMA HasLeast ==
  ASSUME NEW S, S \subseteq Int, IsFiniteSet(S), S # {}
  PROVE  \E x \in S : \A y \in S : x <= y
<1> DEFINE B(x) == {y \in S : y < x}
<1>1. PICK F : F = {B(x) : x \in S}
  OBVIOUS
<1>2. \E T \in F : \A U \in F : U \subseteq T => U = T
  <2>1. F # {} /\ F \subseteq SUBSET S
    BY <1>1
  <2>2. IsFiniteSet(S)
    OBVIOUS
  <2> QED BY ONLY <2>1, <2>2, SmallestMember
<1>3. PICK x \in S : \A z \in S : B(z) \subseteq B(x) => B(z) = B(x)
  <2>1. PICK T \in F : \A U \in F : U \subseteq T => U = T
    BY <1>2
  <2>2. PICK x \in S : T = B(x)
    BY <1>1
  <2>3. ASSUME NEW z \in S, B(z) \subseteq B(x) PROVE B(z) = B(x)
    <3>1. B(z) \in F
      BY <1>1
    <3> HIDE DEF B
    <3> QED BY <3>1, <2>1, <2>2, <2>3
  <2> QED BY <2>3
<1>4. ASSUME NEW y \in S, y < x PROVE FALSE
  <2>0. x \in Int /\ y \in Int /\ S \subseteq Int
    OBVIOUS
  <2>1. ASSUME NEW w \in B(y) PROVE w \in B(x)
    BY <1>4, <2>0, <2>1
  <2>2. y \in B(x) /\ y \notin B(y)
    BY <1>4, <2>0
  <2>3. B(y) \subseteq B(x)
    BY <2>1
  <2> HIDE DEF B
  <2> QED BY <2>2, <2>3, <1>3
<1> QED BY <1>4

\* And a greatest.
LEMMA HasGreatest ==
  ASSUME NEW S, S \subseteq Int, IsFiniteSet(S), S # {}
  PROVE  \E x \in S : \A y \in S : x >= y
<1> DEFINE B(x) == {y \in S : y > x}
<1>1. PICK F : F = {B(x) : x \in S}
  OBVIOUS
<1>2. \E T \in F : \A U \in F : U \subseteq T => U = T
  <2>1. F # {} /\ F \subseteq SUBSET S
    BY <1>1
  <2>2. IsFiniteSet(S)
    OBVIOUS
  <2> QED BY ONLY <2>1, <2>2, SmallestMember
<1>3. PICK x \in S : \A z \in S : B(z) \subseteq B(x) => B(z) = B(x)
  <2>1. PICK T \in F : \A U \in F : U \subseteq T => U = T
    BY <1>2
  <2>2. PICK x \in S : T = B(x)
    BY <1>1
  <2>3. ASSUME NEW z \in S, B(z) \subseteq B(x) PROVE B(z) = B(x)
    <3>1. B(z) \in F
      BY <1>1
    <3> HIDE DEF B
    <3> QED BY <3>1, <2>1, <2>2, <2>3
  <2> QED BY <2>3
<1>4. ASSUME NEW y \in S, y > x PROVE FALSE
  <2>0. x \in Int /\ y \in Int /\ S \subseteq Int
    OBVIOUS
  <2>1. ASSUME NEW w \in B(y) PROVE w \in B(x)
    BY <1>4, <2>0, <2>1
  <2>2. y \in B(x) /\ y \notin B(y)
    BY <1>4, <2>0
  <2>3. B(y) \subseteq B(x)
    BY <2>1
  <2> HIDE DEF B
  <2> QED BY <2>2, <2>3, <1>3
<1> QED BY <1>4
=============================================================================
