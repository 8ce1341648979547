--------------------------- MODULE SequenceFacts ---------------------------
(***************************************************************************)
(* Facts about sequences without repetitions, as the chains of the master  *)
(* are, and about the first or least of something, which the loops of the  *)
(* master and the client look for.                                         *)
(***************************************************************************)
EXTENDS Integers, Sequences, FiniteSetTheorems, SequenceTheorems, TLAPS

Distinct(q) == \A i, j \in DOMAIN q : q[i] = q[j] => i = j

Elements(q) == {q[i] : i \in DOMAIN q}

Drop(q, k) == SubSeq(q, 1, k - 1) \o SubSeq(q, k + 1, Len(q))

\* A nonempty set of numbers has a least one: the intervals 0..n that end at
\* one of them have a smallest one.
LEMMA LeastNumber ==
  ASSUME NEW T \in SUBSET Nat, T # {}
  PROVE  \E n \in T : \A m \in T : n <= m
  <1> DEFINE U == {0..n : n \in T}
  <1>1. U \subseteq FiniteSubsetsOf(Nat)
    <2>1. ASSUME NEW n \in T
          PROVE  0..n \in FiniteSubsetsOf(Nat)
      BY FS_Interval DEF FiniteSubsetsOf
    <2> QED BY <2>1
  <1>2. U # {}
    OBVIOUS
  <1>3. PICK x \in U : \A y \in U : <<y, x>> \notin StrictSubsetOrdering(Nat)
    BY <1>1, <1>2, FS_StrictSubsetOrderingWellFounded, WFMin
  <1>4. PICK n \in T : x = 0..n
    OBVIOUS
  <1>5. ASSUME NEW m \in T, m < n
        PROVE  FALSE
    <2>1. 0..m \in U
      OBVIOUS
    <2>2. 0..m \subseteq 0..n /\ n \in 0..n /\ n \notin 0..m
      BY <1>5
    <2>3. 0..m \in SUBSET Nat /\ 0..n \in SUBSET Nat
      OBVIOUS
    <2>4. <<0..m, 0..n>> \in StrictSubsetOrdering(Nat)
      BY <2>2, <2>3 DEF StrictSubsetOrdering
    <2> QED BY <1>3, <1>4, <2>1, <2>4
  <1> QED BY <1>5

\* A value that occurs in a sequence occurs in it for a first time.
LEMMA FirstIndex ==
  ASSUME NEW S, NEW q \in Seq(S), NEW p, NEW i \in DOMAIN q, q[i] = p
  PROVE  \E k \in DOMAIN q : q[k] = p /\ \A j \in 1..(k - 1) : q[j] # p
  <1> DEFINE T == {k \in DOMAIN q : q[k] = p}
  <1>1. DOMAIN q = 1..Len(q) /\ Len(q) \in Nat
    OBVIOUS
  <1>2. T \in SUBSET Nat /\ T # {}
    BY <1>1
  <1> HIDE DEF T
  <1>3. PICK k \in T : \A m \in T : k <= m
    BY <1>2, LeastNumber
  <1> USE DEF T
  <1>4. ASSUME NEW j \in 1..(k - 1), q[j] = p
        PROVE  FALSE
    BY <1>1, <1>3, <1>4
  <1> QED BY <1>3, <1>4

\* Taking an element out of a sequence leaves a sequence.
LEMMA RemoveType ==
  ASSUME NEW S, NEW q \in Seq(S), NEW i \in DOMAIN q
  PROVE  SubSeq(q, 1, i - 1) \o SubSeq(q, i + 1, Len(q)) \in Seq(S)
  <1>1. i \in 1..Len(q) /\ Len(q) \in Nat
    OBVIOUS
  <1>2. SubSeq(q, 1, i - 1) \in Seq(S)
    BY <1>1, SubSeqProperties
  <1>3. SubSeq(q, i + 1, Len(q)) \in Seq(S)
    BY <1>1, SubSeqProperties
  <1> QED BY <1>1, <1>2, <1>3, ConcatProperties

\* Where the elements of a sequence are when one has been taken out.
LEMMA DropIndex ==
  ASSUME NEW S, NEW q \in Seq(S), NEW k \in DOMAIN q
  PROVE  /\ Drop(q, k) \in Seq(S)
         /\ Len(Drop(q, k)) = Len(q) - 1
         /\ \A i \in 1..(Len(q) - 1) :
               Drop(q, k)[i] = IF i < k THEN q[i] ELSE q[i + 1]
  <1> DEFINE a == SubSeq(q, 1, k - 1)
             b == SubSeq(q, k + 1, Len(q))
  <1>1. k \in 1..Len(q) /\ Len(q) \in Nat
    OBVIOUS
  <1>2. /\ a \in Seq(S) /\ Len(a) = k - 1
        /\ \A i \in 1..(k - 1) : a[i] = q[i]
    BY <1>1, SubSeqProperties
  <1>3. /\ b \in Seq(S) /\ Len(b) = Len(q) - k
        /\ \A i \in 1..(Len(q) - k) : b[i] = q[i + k]
    BY <1>1, SubSeqProperties
  <1> HIDE DEF a, b
  <1>4. /\ a \o b \in Seq(S) /\ Len(a \o b) = Len(a) + Len(b)
        /\ \A i \in 1..(Len(a) + Len(b)) :
              (a \o b)[i] = IF i <= Len(a) THEN a[i] ELSE b[i - Len(a)]
    BY <1>2, <1>3, ConcatProperties, Zenon
  <1> DEFINE c == a \o b
  <1>5. /\ c \in Seq(S) /\ Len(c) = Len(q) - 1
        /\ \A i \in 1..(Len(q) - 1) :
              c[i] = IF i < k THEN a[i] ELSE b[i - (k - 1)]
    <2> HIDE DEF c
    <2>1. /\ c \in Seq(S) /\ Len(c) = Len(a) + Len(b)
          /\ \A i \in 1..(Len(a) + Len(b)) :
                c[i] = IF i <= Len(a) THEN a[i] ELSE b[i - Len(a)]
      BY <1>4, Zenon DEF c
    <2>2. Len(a) = k - 1 /\ Len(b) = Len(q) - k
      BY <1>2, <1>3
    <2>3. Len(a) + Len(b) = Len(q) - 1
      BY <1>1, <2>2
    <2>4. \A i \in 1..(Len(q) - 1) : i <= k - 1 <=> i < k
      BY <1>1
    <2>5. \A i \in 1..(Len(q) - 1) : c[i] = IF i <= k - 1 THEN a[i] ELSE b[i - (k - 1)]
      BY <2>1, <2>2, <2>3
    <2> QED BY <2>1, <2>3, <2>4, <2>5
  <1> HIDE DEF c
  <1>6. ASSUME NEW i \in 1..(Len(q) - 1)
        PROVE  c[i] = IF i < k THEN q[i] ELSE q[i + 1]
    <2>1. CASE i < k
      BY <1>1, <1>2, <1>5, <2>1
    <2>2. CASE ~(i < k)
      <3>1. i - (k - 1) \in 1..(Len(q) - k) /\ (i - (k - 1)) + k = i + 1
        BY <1>1, <2>2
      <3>2. b[i - (k - 1)] = q[i + 1]
        BY <1>3, <3>1
      <3> QED BY <1>5, <2>2, <3>2
    <2> QED BY <2>1, <2>2
  <1>7. c = Drop(q, k)
    BY DEF c, a, b, Drop
  <1> QED BY <1>5, <1>6, <1>7

\* Taking an element out of a chain without repetitions leaves one, and the
\* element is gone.
LEMMA DropDistinct ==
  ASSUME NEW S, NEW q \in Seq(S), NEW k \in DOMAIN q, Distinct(q)
  PROVE  /\ Distinct(Drop(q, k))
         /\ Elements(Drop(q, k)) = Elements(q) \ {q[k]}
  <1> DEFINE d == Drop(q, k)
             From(i) == IF i < k THEN i ELSE i + 1
  <1>1. /\ d \in Seq(S) /\ DOMAIN d = 1..(Len(q) - 1)
        /\ DOMAIN q = 1..Len(q) /\ Len(q) \in Nat /\ k \in 1..Len(q)
        /\ \A i \in 1..(Len(q) - 1) : d[i] = IF i < k THEN q[i] ELSE q[i + 1]
    BY DropIndex
  <1> HIDE DEF d
  <1>2. \A i \in DOMAIN d : d[i] = q[From(i)] /\ From(i) \in DOMAIN q /\ From(i) # k
    BY <1>1
  <1>3. Distinct(d)
    <2>1. ASSUME NEW i \in DOMAIN d, NEW j \in DOMAIN d, d[i] = d[j]
          PROVE  i = j
      <3>1. From(i) = From(j)
        BY <1>2, <2>1 DEF Distinct
      <3> QED BY <1>1, <3>1
    <2> QED BY <2>1 DEF Distinct
  <1>4. Elements(d) \subseteq Elements(q) \ {q[k]}
    <2>1. ASSUME NEW i \in DOMAIN d
          PROVE  d[i] \in Elements(q) \ {q[k]}
      <3> HIDE DEF From
      <3>1. q[From(i)] \in Elements(q) /\ q[From(i)] # q[k]
        BY <1>2 DEF Elements, Distinct
      <3> QED BY <1>2, <3>1
    <2> QED BY <2>1 DEF Elements
  <1>5. ASSUME NEW j \in DOMAIN q, q[j] # q[k]
        PROVE  q[j] \in Elements(d)
    <2> DEFINE i == IF j < k THEN j ELSE j - 1
    <2>1. i \in DOMAIN d /\ From(i) = j
      BY <1>1, <1>5
    <2> HIDE DEF i, From
    <2> QED BY <1>2, <2>1 DEF Elements
  <1>6. Elements(q) \ {q[k]} \subseteq Elements(d)
    BY <1>5 DEF Elements
  <1> QED BY <1>3, <1>4, <1>6 DEF d

\* Appending a new element to a chain without repetitions leaves one.
LEMMA AppendDistinct ==
  ASSUME NEW S, NEW q \in Seq(S), NEW e \in S, Distinct(q), e \notin Elements(q)
  PROVE  Distinct(Append(q, e)) /\ Elements(Append(q, e)) = Elements(q) \cup {e}
  <1> DEFINE d == Append(q, e)
  <1>1. /\ DOMAIN d = 1..(Len(q) + 1) /\ DOMAIN q = 1..Len(q) /\ Len(q) \in Nat
        /\ \A i \in 1..Len(q) : d[i] = q[i]
        /\ d[Len(q) + 1] = e
    BY AppendProperties
  <1> HIDE DEF d
  <1>2. \A i \in DOMAIN q : q[i] # e
    BY DEF Elements
  <1>3. Distinct(d)
    BY <1>1, <1>2 DEF Distinct
  <1>4. Elements(d) = Elements(q) \cup {e}
    <2>1. ASSUME NEW i \in DOMAIN d
          PROVE  d[i] \in Elements(q) \cup {e}
      BY <1>1 DEF Elements
    <2>2. ASSUME NEW i \in DOMAIN q
          PROVE  q[i] \in Elements(d)
      BY <1>1 DEF Elements
    <2>3. e \in Elements(d)
      BY <1>1 DEF Elements
    <2> QED BY <2>1, <2>2, <2>3 DEF Elements
  <1> QED BY <1>3, <1>4 DEF d
=============================================================================
