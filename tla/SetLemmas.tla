------------------------------ MODULE SetLemmas ------------------------------
(***************************************************************************)
(* Lemmas on finite sets that the proofs about several modules use: how    *)
(* the numbers of requests that stand somewhere change when one of them    *)
(* moves.                                                                  *)
(***************************************************************************)
EXTENDS Integers, FiniteSets, FiniteSetTheorems, WellFoundedInduction, TLAPS

One(P) == IF P THEN 1 ELSE 0

\* A set counts without one element, and with it if it has it.
LEMMA WithAndWithout ==
  ASSUME NEW S, NEW r, IsFiniteSet(S)
  PROVE  /\ Cardinality(S) \in Nat /\ Cardinality(S \ {r}) \in Nat
         /\ Cardinality(S) = Cardinality(S \ {r}) + One(r \in S)
<1>1. Cardinality(S) \in Nat /\ Cardinality(S \ {r}) \in Nat
  BY FS_CardinalityType, FS_RemoveElement
<1>2. Cardinality(S \ {r}) = IF r \in S THEN Cardinality(S) - 1 ELSE Cardinality(S)
  BY FS_RemoveElement
<1> QED
  BY <1>1, <1>2 DEF One

\* Two sets that differ in one element at most.
LEMMA OneMoves ==
  ASSUME NEW U, IsFiniteSet(U), NEW r, NEW S \in SUBSET U, NEW T \in SUBSET U,
         S \ {r} = T \ {r}
  PROVE  /\ Cardinality(S) \in Nat /\ Cardinality(T) \in Nat
         /\ Cardinality(T) + One(r \in S) = Cardinality(S) + One(r \in T)
<1>1. IsFiniteSet(S) /\ IsFiniteSet(T)
  BY FS_Subset
<1>2. /\ Cardinality(S) \in Nat /\ Cardinality(S \ {r}) \in Nat
      /\ Cardinality(S) = Cardinality(S \ {r}) + One(r \in S)
  BY <1>1, WithAndWithout
<1>3. Cardinality(T) \in Nat /\ Cardinality(T) = Cardinality(T \ {r}) + One(r \in T)
  BY <1>1, WithAndWithout
<1> QED
  BY <1>2, <1>3 DEF One

\* Two disjoint parts of a set leave room for what is in neither.
LEMMA RoomForOne ==
  ASSUME NEW U, IsFiniteSet(U), NEW r \in U, NEW S \in SUBSET U, NEW T \in SUBSET U,
         S \cap T = {}, r \notin S \cup T
  PROVE  Cardinality(S) + Cardinality(T) + 1 <= Cardinality(U)
<1>1. IsFiniteSet(S) /\ IsFiniteSet(T)
  BY FS_Subset
<1>2. Cardinality(S) \in Nat /\ Cardinality(T) \in Nat /\ Cardinality(U) \in Nat
  BY <1>1, FS_CardinalityType
<1>3. IsFiniteSet(S \cup T) /\ Cardinality(S \cup T) = Cardinality(S) + Cardinality(T)
  <2>1. /\ IsFiniteSet(S \cup T)
        /\ Cardinality(S \cup T) = Cardinality(S) + Cardinality(T) - Cardinality(S \cap T)
    BY <1>1, FS_Union
  <2>2. Cardinality(S \cap T) = 0
    BY FS_EmptySet
  <2> QED
    BY <1>2, <2>1, <2>2
<1>4. Cardinality((S \cup T) \cup {r}) = Cardinality(S) + Cardinality(T) + 1
  BY <1>3, FS_AddElement
<1>5. (S \cup T) \cup {r} \in SUBSET U
  OBVIOUS
<1> QED
  BY <1>4, <1>5, FS_Subset

\* Some numbers up to a bound have a largest one.
LEMMA LargestExists ==
  ASSUME NEW n \in Nat, NEW S \in SUBSET (1..n), S # {}
  PROVE  \E m \in S : \A k \in S : k <= m
<1> DEFINE T == {n - k : k \in S}
<1>1. T \subseteq Nat /\ T # {}
  <2>1. \A k \in S : n - k \in Nat
    OBVIOUS
  <2>2. PICK k \in S : TRUE
    OBVIOUS
  <2>3. n - k \in T
    OBVIOUS
  <2> QED
    BY <2>1, <2>3
<1>2. PICK x \in T : \A y \in T : ~(<<y, x>> \in OpToRel(<, Nat))
  BY <1>1, NatLessThanWellFounded, WFMin
<1>3. \A y \in T : ~(y < x)
  BY <1>1, <1>2 DEF OpToRel
<1>4. PICK m \in S : x = n - m
  OBVIOUS
<1>5. \A k \in S : k <= m
  <2> SUFFICES ASSUME NEW k \in S PROVE k <= m
    OBVIOUS
  <2>1. ~(n - k < n - m)
    BY <1>3, <1>4
  <2> QED
    BY <2>1
<1> QED
  BY <1>5
=============================================================================
