---------------------------- MODULE QueueLemmas ----------------------------
(***************************************************************************)
(* Queues as sequences: what Append and Tail do to the elements and to the *)
(* number of elements of a kind.  Used by the proofs about Calibration,    *)
(* Chain, HwController and RtlStart.                                       *)
(***************************************************************************)
EXTENDS FrameOrder, Integers, FiniteSets, SequenceTheorems, FiniteSetTheorems, FunctionTheorems,
        WellFoundedInduction, TLAPS

\* A least number takes the place of induction: what fails for a number fails for a least
\* one.
LEMMA LeastOfNaturals ==
    ASSUME NEW S, S \subseteq Nat, S # {}
    PROVE  \E x \in S : \A y \in S : x <= y
<1>1. PICK x \in S : \A y \in S : ~(<<y, x>> \in OpToRel(<, Nat))
  BY NatLessThanWellFounded, WFMin
<1>2. \A y \in S : ~(y < x)
  BY <1>1 DEF OpToRel
<1> QED
  BY <1>2

\* The elements of a queue after x has been put at its end.
LEMMA AppendElements ==
    ASSUME NEW S, NEW q \in Seq(S), NEW x \in S
    PROVE  /\ Append(q, x) \in Seq(S) /\ Len(Append(q, x)) = Len(q) + 1
           /\ \A i \in DOMAIN Append(q, x) :
                 \/ i \in DOMAIN q /\ Append(q, x)[i] = q[i]
                 \/ i = Len(q) + 1 /\ Append(q, x)[i] = x
<1>1. Len(q) \in Nat /\ DOMAIN q = 1 .. Len(q)
  BY LenProperties
<1>2. /\ Append(q, x) \in Seq(S) /\ Len(Append(q, x)) = Len(q) + 1
      /\ \A i \in 1 .. Len(q) : Append(q, x)[i] = q[i]
      /\ Append(q, x)[Len(q) + 1] = x
  BY AppendProperties
<1>3. DOMAIN Append(q, x) = 1 .. Len(q) + 1
  BY <1>2, LenProperties
<1> QED
  BY <1>1, <1>2, <1>3

\* The elements of a queue after its head has been taken.
LEMMA TailElements ==
    ASSUME NEW S, NEW q \in Seq(S), q # <<>>
    PROVE  /\ Head(q) \in S /\ 1 \in DOMAIN q /\ Head(q) = q[1]
           /\ Tail(q) \in Seq(S) /\ Len(Tail(q)) = Len(q) - 1
           /\ \A i \in DOMAIN Tail(q) : i \in Nat /\ i + 1 \in DOMAIN q /\ Tail(q)[i] = q[i + 1]
           /\ \A i \in DOMAIN q : i \in Nat /\ (i = 1 \/ i - 1 \in DOMAIN Tail(q))
<1>1. Len(q) \in Nat /\ DOMAIN q = 1 .. Len(q)
  BY LenProperties
<1>2. /\ Head(q) \in S /\ Tail(q) \in Seq(S) /\ Len(Tail(q)) = Len(q) - 1
      /\ \A i \in 1 .. Len(Tail(q)) : Tail(q)[i] = q[i + 1]
      /\ Len(q) # 0
  BY HeadTailProperties, EmptySeq
<1>3. DOMAIN Tail(q) = 1 .. Len(q) - 1
  BY <1>2, LenProperties
<1>4. Head(q) = q[1]
  BY <1>1, <1>2
<1> QED
  BY <1>1, <1>2, <1>3, <1>4

-----------------------------------------------------------------------------
(* How often x occurs in q *)

Occurrences(q, x) == {i \in DOMAIN q : q[i] = x}

LEMMA OccurrencesFinite ==
    ASSUME NEW S, NEW q \in Seq(S), NEW x
    PROVE  IsFiniteSet(Occurrences(q, x)) /\ Cardinality(Occurrences(q, x)) \in Nat
<1>1. Len(q) \in Nat /\ DOMAIN q = 1 .. Len(q)
  BY LenProperties
<1>2. IsFiniteSet(1 .. Len(q))
  BY <1>1, FS_Interval
<1>3. IsFiniteSet(Occurrences(q, x))
  BY <1>1, <1>2, FS_Subset DEF Occurrences
<1> QED
  BY <1>3, FS_CardinalityType

LEMMA OccurrencesAppend ==
    ASSUME NEW S, NEW q \in Seq(S), NEW x, NEW y \in S
    PROVE  Cardinality(Occurrences(Append(q, y), x)) =
              Cardinality(Occurrences(q, x)) + (IF y = x THEN 1 ELSE 0)
<1>1. Len(q) \in Nat /\ DOMAIN q = 1 .. Len(q)
  BY LenProperties
<1>2. /\ DOMAIN Append(q, y) = 1 .. Len(q) + 1
      /\ \A i \in 1 .. Len(q) : Append(q, y)[i] = q[i]
      /\ Append(q, y)[Len(q) + 1] = y
  <2>1. /\ Append(q, y) \in Seq(S) /\ Len(Append(q, y)) = Len(q) + 1
        /\ \A i \in 1 .. Len(q) : Append(q, y)[i] = q[i]
        /\ Append(q, y)[Len(q) + 1] = y
    BY AppendProperties
  <2>2. DOMAIN Append(q, y) = 1 .. Len(Append(q, y))
    BY <2>1, LenProperties
  <2> QED
    BY <2>1, <2>2
<1>3. IsFiniteSet(Occurrences(q, x)) /\ Cardinality(Occurrences(q, x)) \in Nat
  BY OccurrencesFinite
<1>4. CASE y = x
  <2>1. Occurrences(Append(q, y), x) = Occurrences(q, x) \cup {Len(q) + 1}
    BY <1>1, <1>2, <1>4 DEF Occurrences
  <2>2. Len(q) + 1 \notin Occurrences(q, x)
    BY <1>1 DEF Occurrences
  <2> QED
    BY <1>3, <1>4, <2>1, <2>2, FS_AddElement
<1>5. CASE y # x
  <2>1. Occurrences(Append(q, y), x) = Occurrences(q, x)
    BY <1>1, <1>2, <1>5 DEF Occurrences
  <2> QED
    BY <1>3, <1>5, <2>1
<1> QED
  BY <1>4, <1>5

LEMMA OccurrencesTail ==
    ASSUME NEW S, NEW q \in Seq(S), NEW x, q # <<>>
    PROVE  Cardinality(Occurrences(q, x)) =
              Cardinality(Occurrences(Tail(q), x)) + (IF Head(q) = x THEN 1 ELSE 0)
<1> DEFINE A == Occurrences(q, x)
           B == Occurrences(Tail(q), x)
           F == [i \in B |-> i + 1]
<1>1. /\ Head(q) = q[1] /\ Tail(q) \in Seq(S) /\ 1 \in DOMAIN q
      /\ \A i \in DOMAIN Tail(q) : i \in Nat /\ i + 1 \in DOMAIN q /\ Tail(q)[i] = q[i + 1]
      /\ \A i \in DOMAIN q : i \in Nat /\ (i = 1 \/ i - 1 \in DOMAIN Tail(q))
  BY TailElements
<1>2. \A i \in DOMAIN Tail(q) : i >= 1
  <2>1. DOMAIN Tail(q) = 1 .. Len(Tail(q)) /\ Len(Tail(q)) \in Nat
    BY <1>1, LenProperties
  <2> QED
    BY <2>1
<1>3. \A i \in B : i \in Nat /\ i >= 1 /\ i + 1 \in A \ {1}
  BY <1>1, <1>2 DEF Occurrences
<1>4. \A j \in A \ {1} : j \in Nat /\ j - 1 \in B /\ (j - 1) + 1 = j
  <2> SUFFICES ASSUME NEW j \in A \ {1}
               PROVE  j \in Nat /\ j - 1 \in B /\ (j - 1) + 1 = j
    OBVIOUS
  <2>1. j \in DOMAIN q /\ q[j] = x /\ j # 1
    BY DEF Occurrences
  <2>2. j \in Nat /\ j - 1 \in DOMAIN Tail(q) /\ (j - 1) + 1 = j
    BY <1>1, <2>1
  <2>3. Tail(q)[j - 1] = q[j]
    BY <1>1, <2>2
  <2> QED
    BY <2>1, <2>2, <2>3 DEF Occurrences
<1>5. F \in Bijection(B, A \ {1})
  <2>1. F \in [B -> A \ {1}]
    BY <1>3
  <2>2. \A i, j \in B : F[i] = F[j] => i = j
    BY <1>3
  <2>3. \A j \in A \ {1} : \E i \in B : F[i] = j
    <3> SUFFICES ASSUME NEW j \in A \ {1} PROVE \E i \in B : F[i] = j
      OBVIOUS
    <3>1. j - 1 \in B /\ F[j - 1] = j
      BY <1>4
    <3> QED
      BY <3>1
  <2> QED
    BY <2>1, <2>2, <2>3, Fun_IsBij
<1>6. IsFiniteSet(A) /\ IsFiniteSet(B) /\ Cardinality(A) \in Nat
  BY <1>1, OccurrencesFinite
<1>7. Cardinality(A \ {1}) = Cardinality(B)
  BY <1>5, <1>6, Fun_ExistsBij, FS_Bijection
<1>8. Head(q) = x <=> 1 \in A
  BY <1>1 DEF Occurrences
<1>9. Cardinality(A \ {1}) = IF 1 \in A THEN Cardinality(A) - 1 ELSE Cardinality(A)
  BY <1>6, FS_RemoveElement
<1> HIDE DEF A, B
<1>10. CASE 1 \in A
  BY <1>6, <1>7, <1>8, <1>9, <1>10 DEF A, B
<1>11. CASE 1 \notin A
  BY <1>6, <1>7, <1>8, <1>9, <1>11 DEF A, B
<1> QED
  BY <1>10, <1>11

-----------------------------------------------------------------------------
(* Queues of old and new frames *)

LEMMA ClearAppend ==
    ASSUME NEW S, NEW N, NEW q \in Seq(S), NEW x \in S
    PROVE  Clear(q, N) /\ x \notin N => Clear(Append(q, x), N)
BY AppendElements DEF Clear

LEMMA ClearTail ==
    ASSUME NEW S, NEW N, NEW q \in Seq(S), q # <<>>
    PROVE  /\ Clear(q, N) => Clear(Tail(q), N) /\ Head(q) \notin N
           /\ Clear(Tail(q), N) /\ Head(q) \notin N => Clear(q, N)
<1>1. Clear(q, N) => Clear(Tail(q), N) /\ Head(q) \notin N
  BY TailElements DEF Clear
<1>2. ASSUME Clear(Tail(q), N), Head(q) \notin N, NEW i \in DOMAIN q
      PROVE  q[i] \notin N
  <2>1. CASE i = 1
    BY <1>2, <2>1, TailElements
  <2>2. CASE i # 1
    <3>1. i \in Nat /\ i - 1 \in DOMAIN Tail(q) /\ Tail(q)[i - 1] = q[(i - 1) + 1]
      BY <2>2, TailElements
    <3> QED
      BY <1>2, <3>1 DEF Clear
  <2> QED
    BY <2>1, <2>2
<1> QED
  BY <1>1, <1>2 DEF Clear

LEMMA TurnsAppend ==
    ASSUME NEW S, NEW N, NEW O, NEW q \in Seq(S), NEW x \in S,
           Turns(q, N, O), Clear(q, N) \/ x \notin O
    PROVE  Turns(Append(q, x), N, O)
<1> SUFFICES ASSUME NEW i \in DOMAIN Append(q, x), NEW j \in DOMAIN Append(q, x),
                    i < j, Append(q, x)[i] \in N
             PROVE  Append(q, x)[j] \notin O
  BY DEF Turns
<1>1. DOMAIN q = 1 .. Len(q) /\ Len(q) \in Nat
  BY LenProperties
<1>2. i \in DOMAIN q /\ Append(q, x)[i] = q[i]
  BY <1>1, AppendElements
<1>3. ~Clear(q, N)
  BY <1>2 DEF Clear
<1> QED
  BY <1>2, <1>3, AppendElements DEF Turns

\* A queue that turns goes on to do so, and after a new head it is all new.
LEMMA TurnsTail ==
    ASSUME NEW S, NEW N, NEW O, NEW q \in Seq(S), q # <<>>, Turns(q, N, O)
    PROVE  /\ Turns(Tail(q), N, O)
           /\ Head(q) \in N => Clear(Tail(q), O)
<1>1. Turns(Tail(q), N, O)
  <2> SUFFICES ASSUME NEW i \in DOMAIN Tail(q), NEW j \in DOMAIN Tail(q),
                      i < j, Tail(q)[i] \in N
               PROVE  Tail(q)[j] \notin O
    BY DEF Turns
  <2>1. /\ i \in Nat /\ j \in Nat /\ i + 1 \in DOMAIN q /\ j + 1 \in DOMAIN q
        /\ Tail(q)[i] = q[i + 1] /\ Tail(q)[j] = q[j + 1]
    BY TailElements
  <2>2. i + 1 < j + 1
    BY <2>1
  <2> QED
    BY <2>1, <2>2 DEF Turns
<1>2. ASSUME Head(q) \in N, NEW i \in DOMAIN Tail(q)
      PROVE  Tail(q)[i] \notin O
  <2>1. /\ i \in Nat /\ i + 1 \in DOMAIN q /\ Tail(q)[i] = q[i + 1]
        /\ 1 \in DOMAIN q /\ q[1] \in N
    BY <1>2, TailElements
  <2>2. i # 0
    BY LenProperties, TailElements
  <2>3. 1 < i + 1
    BY <2>1, <2>2
  <2> QED
    BY <2>1, <2>3 DEF Turns
<1> QED
  BY <1>1, <1>2 DEF Clear
=============================================================================
