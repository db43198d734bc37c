--------------------------- MODULE Filtering_proofs ---------------------------
EXTENDS Filtering, TLAPS, FiniteSetTheorems, SequenceTheorems, WellFoundedInduction

\* Every set of natural numbers that is not empty has a least element.
LEMMA LeastNumber ==
    ASSUME NEW T \in SUBSET Nat, T # {}
    PROVE  \E x \in T : \A y \in T : x <= y
  <1>1. IsWellFoundedOn(OpToRel(<, Nat), Nat)
    BY NatLessThanWellFounded
  <1>2. \E x \in T : \A y \in T : ~ (<<y, x>> \in OpToRel(<, Nat))
    BY <1>1, WFMin
  <1>3. PICK x \in T : \A y \in T : ~ (<<y, x>> \in OpToRel(<, Nat))
    BY <1>2
  <1>4. ASSUME NEW y \in T
        PROVE  x <= y
    <2>1. ~ (<<y, x>> \in {p \in Nat \X Nat : p[1] < p[2]})
      BY <1>3 DEF OpToRel
    <2>2. QED
      BY <2>1
  <1>5. QED
    BY <1>4

LEMMA PlacesFinite ==
    ASSUME NEW A, NEW s \in Seq(A), NEW S
    PROVE  /\ IsFiniteSet(Places(s, S))
           /\ Cardinality(Places(s, S)) \in Nat
           /\ \A i : IsFiniteSet({j \in Places(s, S) : j <= i}) /\ Rank(s, S, i) \in Nat
           /\ Len(s) \in Nat
  <1>1. IsFiniteSet(1 .. Len(s)) /\ Len(s) \in Nat
    BY FS_Interval, LenProperties
  <1>2. IsFiniteSet(Places(s, S))
    BY <1>1, FS_Subset DEF Places
  <1>3. \A i : IsFiniteSet({j \in Places(s, S) : j <= i})
    BY <1>2, FS_Subset
  <1>4. QED
    BY <1>1, <1>2, <1>3, FS_CardinalityType DEF Rank

\* Rank counts up by one at each place that is kept.
LEMMA RankSteps ==
    ASSUME NEW A, NEW s \in Seq(A), NEW S
    PROVE  /\ Rank(s, S, 0) = 0
           /\ Rank(s, S, Len(s)) = Cardinality(Places(s, S))
           /\ \A i \in 1 .. Len(s) :
                 Rank(s, S, i) = IF i \in Places(s, S) THEN Rank(s, S, i - 1) + 1
                                                       ELSE Rank(s, S, i - 1)
  <1>0. Len(s) \in Nat
    BY PlacesFinite
  <1>1. Rank(s, S, 0) = 0
    <2>1. {j \in Places(s, S) : j <= 0} = {}
      BY <1>0 DEF Places
    <2>2. QED
      BY <2>1, FS_EmptySet DEF Rank
  <1>2. Rank(s, S, Len(s)) = Cardinality(Places(s, S))
    <2>1. {j \in Places(s, S) : j <= Len(s)} = Places(s, S)
      BY <1>0 DEF Places
    <2>2. QED
      BY <2>1 DEF Rank
  <1>3. ASSUME NEW i \in 1 .. Len(s)
        PROVE  Rank(s, S, i) = IF i \in Places(s, S) THEN Rank(s, S, i - 1) + 1
                                                     ELSE Rank(s, S, i - 1)
    <2> DEFINE below == {j \in Places(s, S) : j <= i - 1}
               upto == {j \in Places(s, S) : j <= i}
    <2>1. IsFiniteSet(below)
      BY PlacesFinite
    <2>2. i \notin below
      BY <1>0
    <2>3. CASE i \in Places(s, S)
      <3>1. upto = below \cup {i}
        BY <1>0, <2>3 DEF Places
      <3>2. Cardinality(below \cup {i}) = Cardinality(below) + 1
        BY <2>1, <2>2, FS_AddElement
      <3>3. QED
        BY <2>3, <3>1, <3>2 DEF Rank
    <2>4. CASE i \notin Places(s, S)
      <3>1. upto = below
        BY <1>0, <2>4 DEF Places
      <3>2. QED
        BY <2>4, <3>1 DEF Rank
    <2>5. QED
      BY <2>3, <2>4
  <1>4. QED
    BY <1>1, <1>2, <1>3

\* Every rank is taken by a place: the least one that reaches it.
LEMMA RankTaken ==
    ASSUME NEW A, NEW s \in Seq(A), NEW S, NEW k \in 1 .. Cardinality(Places(s, S))
    PROVE  \E i \in Places(s, S) : Rank(s, S, i) = k
  <1> DEFINE T == {i \in 0 .. Len(s) : Rank(s, S, i) >= k}
  <1>1. Len(s) \in Nat /\ Cardinality(Places(s, S)) \in Nat /\ k \in Nat
    BY PlacesFinite
  <1>2. T \in SUBSET Nat /\ T # {}
    <2>1. Len(s) \in T
      BY <1>1, RankSteps
    <2>2. QED
      BY <1>1, <2>1
  <1>3. PICK i \in T : \A j \in T : i <= j
    BY <1>2, LeastNumber
  <1>4. i # 0
    BY <1>1, RankSteps
  <1>5. i \in 1 .. Len(s) /\ i - 1 \in 0 .. Len(s) /\ i - 1 \notin T
    BY <1>1, <1>3, <1>4
  <1>6. Rank(s, S, i - 1) \in Nat /\ Rank(s, S, i) \in Nat
    BY PlacesFinite
  <1>7. Rank(s, S, i - 1) < k /\ Rank(s, S, i) >= k
    BY <1>1, <1>5, <1>6
  <1>8. Rank(s, S, i) = IF i \in Places(s, S) THEN Rank(s, S, i - 1) + 1 ELSE Rank(s, S, i - 1)
    BY <1>5, RankSteps
  <1>9. i \in Places(s, S) /\ Rank(s, S, i) = k
    BY <1>1, <1>6, <1>7, <1>8
  <1>10. QED
    BY <1>9

\* A filtered sequence consists of elements of the sequence that are in the set, ...
LEMMA KeptType ==
    ASSUME NEW A, NEW s \in Seq(A), NEW S
    PROVE  /\ Kept(s, S) \in Seq(A \cap S)
           /\ Kept(s, S) \in Seq(A)
           /\ \A k \in 1 .. Len(Kept(s, S)) :
                 \E i \in 1 .. Len(s) : Kept(s, S)[k] = s[i] /\ s[i] \in S
           /\ Len(Kept(s, S)) = Cardinality(Places(s, S))
           /\ Len(Kept(s, S)) <= Len(s)
  <1> DEFINE n == Cardinality(Places(s, S))
             at(k) == CHOOSE i \in Places(s, S) : Rank(s, S, i) = k
  <1>1. Len(s) \in Nat /\ n \in Nat /\ s \in [1 .. Len(s) -> A]
    BY PlacesFinite, LenProperties
  <1>2. \A k \in 1 .. n : at(k) \in Places(s, S)
    BY RankTaken
  <1>3. \A k \in 1 .. n : at(k) \in 1 .. Len(s) /\ s[at(k)] \in A \cap S
    BY <1>1, <1>2 DEF Places
  <1> HIDE DEF at
  <1>4. Kept(s, S) = [k \in 1 .. n |-> s[at(k)]]
    BY DEF Kept, at
  <1> HIDE DEF n
  <1>5. Kept(s, S) \in Seq(A \cap S) /\ Len(Kept(s, S)) = n
    BY <1>1, <1>3, <1>4
  <1>6. Kept(s, S) \in Seq(A)
    BY <1>5, SeqMonotonic
  <1>7. \A k \in 1 .. Len(Kept(s, S)) :
           \E i \in 1 .. Len(s) : Kept(s, S)[k] = s[i] /\ s[i] \in S
    BY <1>3, <1>4, <1>5
  <1>8. n <= Len(s)
    <2>1. Places(s, S) \subseteq 1 .. Len(s) /\ IsFiniteSet(1 .. Len(s))
      BY <1>1, FS_Interval DEF Places
    <2>2. n <= Cardinality(1 .. Len(s))
      BY <2>1, FS_Subset DEF n
    <2>3. Cardinality(1 .. Len(s)) = Len(s)
      BY <1>1, FS_Interval
    <2>4. QED
      BY <2>2, <2>3
  <1>9. QED
    BY <1>5, <1>6, <1>7, <1>8 DEF n

\* As many elements are kept as have a rank.
LEMMA KeptLen ==
    ASSUME NEW A, NEW s \in Seq(A), NEW S
    PROVE  /\ Kept(s, S) \in Seq(A)
           /\ Len(Kept(s, S)) \in Nat
           /\ Len(Kept(s, S)) = Rank(s, S, Len(s))
           /\ \A k \in 1 .. Len(Kept(s, S)) : \E i \in Places(s, S) : Rank(s, S, i) = k
  <1>1. Kept(s, S) \in Seq(A) /\ Len(Kept(s, S)) = Cardinality(Places(s, S))
    BY KeptType
  <1>2. Len(Kept(s, S)) = Rank(s, S, Len(s)) /\ Len(Kept(s, S)) \in Nat
    BY <1>1, RankSteps, PlacesFinite
  <1>3. \A k \in 1 .. Len(Kept(s, S)) : \E i \in Places(s, S) : Rank(s, S, i) = k
    BY <1>1, RankTaken
  <1>4. QED
    BY <1>1, <1>2, <1>3

\* Later places that are kept have a greater rank.
LEMMA RankGrows ==
    ASSUME NEW A, NEW s \in Seq(A), NEW S,
           NEW i \in Places(s, S), NEW j \in Places(s, S), i < j
    PROVE  Rank(s, S, i) < Rank(s, S, j)
  <1>1. i \in 1 .. Len(s) /\ j \in 1 .. Len(s) /\ Len(s) \in Nat
    BY PlacesFinite DEF Places
  <1>2. {h \in Places(s, S) : h <= i} \subseteq {h \in Places(s, S) : h <= j - 1}
    BY <1>1 DEF Places
  <1>3. IsFiniteSet({h \in Places(s, S) : h <= j - 1})
    BY PlacesFinite
  <1>4. Rank(s, S, i) <= Rank(s, S, j - 1)
    BY <1>2, <1>3, FS_Subset DEF Rank
  <1>5. Rank(s, S, j) = Rank(s, S, j - 1) + 1
    BY <1>1, RankSteps
  <1>6. Rank(s, S, i) \in Nat /\ Rank(s, S, j - 1) \in Nat
    BY PlacesFinite
  <1>7. QED
    BY <1>4, <1>5, <1>6

\* The k-th element that is kept is the one whose place has rank k, ...
LEMMA KeptAt ==
    ASSUME NEW A, NEW s \in Seq(A), NEW S, NEW i \in Places(s, S)
    PROVE  /\ Rank(s, S, i) \in 1 .. Len(Kept(s, S))
           /\ Kept(s, S)[Rank(s, S, i)] = s[i]
  <1> DEFINE k == Rank(s, S, i)
             at == CHOOSE j \in Places(s, S) : Rank(s, S, j) = k
  <1>1. i \in 1 .. Len(s) /\ Len(s) \in Nat
    BY PlacesFinite DEF Places
  <1>2. k \in 1 .. Cardinality(Places(s, S))
    <2>1. Rank(s, S, i) = Rank(s, S, i - 1) + 1 /\ Rank(s, S, i - 1) \in Nat
      BY <1>1, RankSteps, PlacesFinite
    <2>2. {j \in Places(s, S) : j <= i} \subseteq Places(s, S)
      OBVIOUS
    <2>3. Rank(s, S, i) <= Cardinality(Places(s, S))
      BY <2>2, PlacesFinite, FS_Subset DEF Rank
    <2>4. QED
      BY <2>1, <2>3, PlacesFinite
  <1>3. at \in Places(s, S) /\ Rank(s, S, at) = k
    OBVIOUS
  <1>4. at = i
    <2>1. at \in Nat /\ i \in Nat
      BY <1>3 DEF Places
    <2>2. Rank(s, S, at) \in Nat /\ Rank(s, S, i) \in Nat
      BY PlacesFinite
    <2> HIDE DEF at
    <2>3. at < i => Rank(s, S, at) < Rank(s, S, i)
      BY <1>3, RankGrows
    <2>4. i < at => Rank(s, S, i) < Rank(s, S, at)
      BY <1>3, RankGrows
    <2>5. QED
      BY <1>3, <2>1, <2>2, <2>3, <2>4
  <1>5. Kept(s, S)[k] = s[at]
    BY <1>2 DEF Kept
  <1>6. Len(Kept(s, S)) = Cardinality(Places(s, S))
    BY KeptType
  <1> HIDE DEF k, at
  <1>7. QED
    BY <1>2, <1>4, <1>5, <1>6 DEF k

\* ... so that no element of the sequence that is in the set is lost.
LEMMA KeptFinds ==
    ASSUME NEW A, NEW s \in Seq(A), NEW S, NEW i \in 1 .. Len(s), s[i] \in S
    PROVE  \E k \in 1 .. Len(Kept(s, S)) : Kept(s, S)[k] = s[i]
  <1>1. i \in Places(s, S)
    BY DEF Places
  <1>2. QED
    BY <1>1, KeptAt

\* Filtering a longer sequence.
LEMMA KeptAppend ==
    ASSUME NEW A, NEW s \in Seq(A), NEW e \in A, NEW S
    PROVE  Kept(Append(s, e), S) = IF e \in S THEN Append(Kept(s, S), e) ELSE Kept(s, S)
  <1> DEFINE t == Append(s, e)
             last == Len(s) + 1
             c == IF e \in S THEN 1 ELSE 0
             u == IF e \in S THEN Append(Kept(s, S), e) ELSE Kept(s, S)
  <1>1. /\ Len(s) \in Nat /\ t \in Seq(A) /\ Len(t) = last
        /\ \A i \in 1 .. Len(s) : t[i] = s[i]
        /\ t[last] = e
    BY AppendProperties, LenProperties
  <1> HIDE DEF t
  <1>2. \A i \in 1 .. Len(s) : i \in Places(t, S) <=> i \in Places(s, S)
    BY <1>1 DEF Places
  <1>3. last \in Places(t, S) <=> e \in S
    BY <1>1 DEF Places
  <1>4. \A i \in 0 .. Len(s) : Rank(t, S, i) = Rank(s, S, i)
    <2> SUFFICES ASSUME NEW i \in 0 .. Len(s)
                 PROVE  Rank(t, S, i) = Rank(s, S, i)
      OBVIOUS
    <2>1. {j \in Places(t, S) : j <= i} = {j \in Places(s, S) : j <= i}
      BY <1>1 DEF Places
    <2>2. QED
      BY <2>1 DEF Rank
  <1>5. Rank(t, S, last) = Rank(s, S, Len(s)) + c
    <2>1. last \in 1 .. Len(t) /\ last - 1 = Len(s)
      BY <1>1
    <2>2. Rank(s, S, Len(s)) \in Nat
      BY PlacesFinite
    <2>3. Rank(t, S, last) = IF last \in Places(t, S) THEN Rank(t, S, last - 1) + 1
                                                     ELSE Rank(t, S, last - 1)
      BY <1>1, <2>1, RankSteps
    <2>4. QED
      BY <1>1, <1>3, <1>4, <2>1, <2>2, <2>3
  <1>6. /\ Kept(s, S) \in Seq(A) /\ Kept(t, S) \in Seq(A)
        /\ Len(Kept(s, S)) = Rank(s, S, Len(s)) /\ Len(Kept(t, S)) = Rank(t, S, last)
        /\ Len(Kept(s, S)) \in Nat
    BY <1>1, KeptLen
  <1>7. /\ u \in Seq(A) /\ Len(u) = Len(Kept(s, S)) + c
        /\ \A k \in 1 .. Len(Kept(s, S)) : u[k] = Kept(s, S)[k]
        /\ e \in S => u[Len(Kept(s, S)) + 1] = e
    BY <1>6, AppendProperties
  <1> HIDE DEF u
  <1>8. ASSUME NEW k \in 1 .. Len(Kept(t, S))
        PROVE  Kept(t, S)[k] = u[k]
    <2>1. CASE k \in 1 .. Len(Kept(s, S))
      <3>1. PICK i \in Places(s, S) : Rank(s, S, i) = k
        BY <2>1, KeptLen
      <3>2. i \in 1 .. Len(s) /\ i \in Places(t, S) /\ Rank(t, S, i) = k /\ t[i] = s[i]
        BY <1>1, <1>2, <1>4, <3>1 DEF Places
      <3>3. Kept(t, S)[k] = t[i] /\ Kept(s, S)[k] = s[i]
        BY <1>1, <3>1, <3>2, KeptAt
      <3>4. QED
        BY <1>7, <2>1, <3>2, <3>3
    <2>2. CASE k \notin 1 .. Len(Kept(s, S))
      <3>1. e \in S /\ k = Len(Kept(s, S)) + 1 /\ k = Rank(t, S, last)
        BY <1>5, <1>6, <2>2
      <3>2. Kept(t, S)[k] = t[last]
        BY <1>1, <1>3, <3>1, KeptAt
      <3>3. QED
        BY <1>1, <1>7, <3>1, <3>2
    <2>3. QED
      BY <2>1, <2>2
  <1>9. QED
    BY <1>5, <1>6, <1>7, <1>8, SeqEqual DEF t, u

\* Filtering a sequence without its head.
LEMMA KeptTail ==
    ASSUME NEW A, NEW s \in Seq(A), s # <<>>, NEW S
    PROVE  IF Head(s) \in S THEN /\ Kept(s, S) # <<>>
                                 /\ Head(Kept(s, S)) = Head(s)
                                 /\ Kept(Tail(s), S) = Tail(Kept(s, S))
                            ELSE Kept(Tail(s), S) = Kept(s, S)
  <1> DEFINE t == Tail(s)
             c == IF Head(s) \in S THEN 1 ELSE 0
  <1>1. /\ Len(s) \in Nat /\ Len(s) > 0 /\ t \in Seq(A) /\ Len(t) = Len(s) - 1
        /\ \A i \in 1 .. Len(t) : t[i] = s[i + 1]
        /\ Head(s) = s[1]
    BY HeadTailProperties, LenProperties, EmptySeq
  <1> HIDE DEF t
  <1>2. \A i \in 1 .. Len(t) : i \in Places(t, S) <=> i + 1 \in Places(s, S)
    BY <1>1 DEF Places
  <1>3. \A i \in 0 .. Len(t) : Rank(s, S, i + 1) = Rank(t, S, i) + c
    <2> DEFINE T == {i \in 0 .. Len(t) : Rank(s, S, i + 1) # Rank(t, S, i) + c}
    <2> SUFFICES T = {}
      OBVIOUS
    <2>1. SUFFICES ASSUME T # {} PROVE FALSE
      OBVIOUS
    <2>2. PICK i \in T : \A j \in T : i <= j
      <3>1. T \in SUBSET Nat
        BY <1>1
      <3>2. QED
        BY <2>1, <3>1, LeastNumber
    <2>3. i \in 0 .. Len(t) /\ i \in Nat
      BY <1>1
    <2>4. CASE i = 0
      <3>1. Rank(s, S, 1) = Rank(s, S, 0) + c
        <4>1. 1 \in Places(s, S) <=> Head(s) \in S
          BY <1>1 DEF Places
        <4>2. 1 \in 1 .. Len(s) /\ 1 - 1 = 0 /\ Rank(s, S, 0) = 0
          BY <1>1, RankSteps
        <4>3. QED
          BY <4>1, <4>2, RankSteps
      <3>2. QED
        BY <1>1, <2>4, <3>1, RankSteps
    <2>5. CASE i # 0
      <3>1. i - 1 \notin T /\ i - 1 \in 0 .. Len(t) /\ i \in 1 .. Len(t) /\ i + 1 \in 1 .. Len(s)
        BY <1>1, <2>2, <2>3, <2>5
      <3>2. Rank(s, S, i) = Rank(t, S, i - 1) + c
        BY <2>3, <3>1
      <3>3. Rank(s, S, i + 1) = IF i + 1 \in Places(s, S) THEN Rank(s, S, i) + 1 ELSE Rank(s, S, i)
        <4>1. i + 1 - 1 = i
          BY <2>3
        <4>2. QED
          BY <3>1, <4>1, RankSteps
      <3>4. Rank(t, S, i) = IF i \in Places(t, S) THEN Rank(t, S, i - 1) + 1 ELSE Rank(t, S, i - 1)
        BY <1>1, <3>1, RankSteps
      <3>5. Rank(t, S, i - 1) \in Nat
        BY <1>1, PlacesFinite
      <3>6. Rank(s, S, i + 1) = Rank(t, S, i) + c
        BY <1>2, <3>1, <3>2, <3>3, <3>4, <3>5
      <3>7. QED
        BY <3>6
    <2>6. QED
      BY <2>4, <2>5
  <1>4. /\ Kept(s, S) \in Seq(A) /\ Kept(t, S) \in Seq(A)
        /\ Len(Kept(t, S)) \in Nat /\ Len(Kept(s, S)) = Len(Kept(t, S)) + c
    <2>1. Len(t) \in 0 .. Len(t) /\ Len(t) + 1 = Len(s)
      BY <1>1
    <2>2. Rank(s, S, Len(s)) = Rank(t, S, Len(t)) + c
      BY <1>3, <2>1
    <2>3. QED
      BY <1>1, <2>2, KeptLen
  <1>5. ASSUME NEW k \in 1 .. Len(Kept(t, S))
        PROVE  Kept(s, S)[k + c] = Kept(t, S)[k]
    <2>1. PICK i \in Places(t, S) : Rank(t, S, i) = k
      BY <1>1, KeptLen
    <2>2. i \in 1 .. Len(t) /\ i + 1 \in Places(s, S)
      BY <1>2, <2>1 DEF Places
    <2>3. Rank(s, S, i + 1) = k + c
      BY <1>1, <1>3, <2>1, <2>2
    <2>4. Kept(s, S)[k + c] = s[i + 1] /\ Kept(t, S)[k] = t[i]
      BY <1>1, <2>1, <2>2, <2>3, KeptAt
    <2>5. QED
      BY <1>1, <2>2, <2>4
  <1>6. CASE Head(s) \in S
    <2>1. Kept(s, S) # <<>> /\ Len(Kept(s, S)) = Len(Kept(t, S)) + 1
      BY <1>4, <1>6, EmptySeq
    <2>2. /\ Tail(Kept(s, S)) \in Seq(A) /\ Len(Tail(Kept(s, S))) = Len(Kept(t, S))
          /\ \A k \in 1 .. Len(Kept(t, S)) : Tail(Kept(s, S))[k] = Kept(s, S)[k + 1]
      BY <1>4, <2>1, HeadTailProperties
    <2>3. Kept(t, S) = Tail(Kept(s, S))
      BY <1>4, <1>5, <1>6, <2>2, SeqEqual
    <2>4. Head(Kept(s, S)) = Head(s)
      <3>1. 1 \in Places(s, S) /\ 0 \in 0 .. Len(t)
        BY <1>1, <1>6 DEF Places
      <3>2. Rank(s, S, 1) = 1
        BY <1>1, <1>3, <1>6, <3>1, RankSteps
      <3>3. Kept(s, S)[1] = s[1]
        BY <3>1, <3>2, KeptAt
      <3>4. QED
        BY <1>1, <1>4, <2>1, <3>3
    <2>5. QED
      BY <1>6, <2>1, <2>3, <2>4 DEF t
  <1>7. CASE Head(s) \notin S
    <2>1. Len(Kept(s, S)) = Len(Kept(t, S)) /\ \A k \in 1 .. Len(Kept(t, S)) : Kept(s, S)[k] = Kept(t, S)[k]
      BY <1>4, <1>5, <1>7
    <2>2. QED
      BY <1>4, <1>7, <2>1, SeqEqual DEF t
  <1>8. QED
    BY <1>6, <1>7

\* What has been filtered stays as it is.
LEMMA KeptKept ==
    ASSUME NEW A, NEW s \in Seq(A), NEW S, \A i \in 1 .. Len(s) : s[i] \in S
    PROVE  Kept(s, S) = s
  <1>1. Len(s) \in Nat
    BY LenProperties
  <1>2. Places(s, S) = 1 .. Len(s)
    BY DEF Places
  <1>3. \A i \in 1 .. Len(s) : Rank(s, S, i) = i
    <2> SUFFICES ASSUME NEW i \in 1 .. Len(s) PROVE Rank(s, S, i) = i
      OBVIOUS
    <2>1. {j \in Places(s, S) : j <= i} = 1 .. i
      BY <1>1, <1>2
    <2>2. Cardinality(1 .. i) = i
      BY <1>1, FS_Interval
    <2>3. QED
      BY <2>1, <2>2 DEF Rank
  <1>4. Len(Kept(s, S)) = Len(s) /\ Kept(s, S) \in Seq(A)
    <2>1. Cardinality(1 .. Len(s)) = Len(s)
      BY <1>1, FS_Interval
    <2>2. QED
      BY <1>2, <2>1, KeptType
  <1>5. \A i \in 1 .. Len(s) : Kept(s, S)[i] = s[i]
    BY <1>2, <1>3, KeptAt
  <1>6. QED
    BY <1>4, <1>5, SeqEqual

\* What is kept of nothing, and of two sequences one after the other.
LEMMA KeptNone ==
    ASSUME NEW A, NEW s \in Seq(A), NEW S, \A i \in 1 .. Len(s) : s[i] \notin S
    PROVE  Kept(s, S) = <<>>
  <1>1. Places(s, S) = {}
    BY DEF Places
  <1>2. Kept(s, S) \in Seq(A) /\ Len(Kept(s, S)) = 0
    <2>1. Cardinality({}) = 0
      BY FS_EmptySet
    <2>2. Kept(s, S) \in Seq(A) /\ Len(Kept(s, S)) = Cardinality(Places(s, S))
      BY KeptType
    <2>3. QED
      BY <1>1, <2>1, <2>2
  <1>3. QED
    BY <1>2, EmptySeq

LEMMA KeptConcat ==
    ASSUME NEW A, NEW s \in Seq(A), NEW t \in Seq(A), NEW S
    PROVE  Kept(s \o t, S) = Kept(s, S) \o Kept(t, S)
  <1> DEFINE Upto(n) == SubSeq(t, 1, n)
             Good(n) == Kept(s \o Upto(n), S) = Kept(s, S) \o Kept(Upto(n), S)
             T == {n \in 0 .. Len(t) : ~Good(n)}
  <1>1. Len(t) \in Nat
    BY LenProperties
  <1>2. \A n \in 0 .. Len(t) : Upto(n) \in Seq(A)
    <2> SUFFICES ASSUME NEW n \in 0 .. Len(t) PROVE SubSeq(t, 1, n) \in Seq(A)
      OBVIOUS
    <2>1. 1 \in Int /\ n \in Int /\ \A i \in 1 .. n : t[i] \in A
      BY <1>1, ElementOfSeq
    <2>2. QED
      BY <2>1, SubSeqProperties
  <1>3. Good(0)
    <2>1. Upto(0) = <<>>
      BY SubSeqEmpty
    <2>2. Kept(<<>>, S) = <<>>
      <3> DEFINE z == <<>>
      <3>1. z \in Seq(A) /\ \A i \in 1 .. Len(z) : z[i] \notin S
        BY EmptySeq
      <3> HIDE DEF z
      <3>2. Kept(z, S) = <<>>
        BY <3>1, KeptNone
      <3>3. QED
        BY <3>2 DEF z
    <2>3. Kept(s, S) \in Seq(A)
      BY KeptType
    <2>4. s \o <<>> = s /\ Kept(s, S) \o <<>> = Kept(s, S)
      BY <2>3, ConcatEmptySeq
    <2>5. QED
      BY <2>1, <2>2, <2>4
  <1>4. ASSUME NEW n \in 1 .. Len(t), Good(n - 1) PROVE Good(n)
    <2> DEFINE u == Upto(n - 1)
               e == t[n]
    <2>1. u \in Seq(A) /\ e \in A /\ s \o u \in Seq(A)
      BY <1>1, <1>2, ElementOfSeq, ConcatProperties
    <2>2. Upto(n) = Append(u, e)
      <3>1. Upto(n) = u \o <<e>>
        BY <1>1, SubSeqRecursiveSecond
      <3>2. QED
        BY <2>1, <3>1, AppendIsConcat
    <2>3. Kept(s \o u, S) = Kept(s, S) \o Kept(u, S)
      BY <1>4
    <2> HIDE DEF u, e
    <2>4. s \o Append(u, e) = Append(s \o u, e)
      <3>1. <<e>> \in Seq(A) /\ Append(u, e) = u \o <<e>> /\ Append(s \o u, e) = (s \o u) \o <<e>>
        BY <2>1, AppendIsConcat
      <3>2. QED
        BY <2>1, <3>1, ConcatAssociative
    <2>5. Kept(Append(u, e), S) = IF e \in S THEN Append(Kept(u, S), e) ELSE Kept(u, S)
      BY <2>1, KeptAppend
    <2>6. Kept(Append(s \o u, e), S)
            = IF e \in S THEN Append(Kept(s \o u, S), e) ELSE Kept(s \o u, S)
      BY <2>1, KeptAppend
    <2>7. Kept(s, S) \in Seq(A) /\ Kept(u, S) \in Seq(A)
      BY <2>1, KeptType
    <2>8. Kept(s, S) \o Append(Kept(u, S), e) = Append(Kept(s, S) \o Kept(u, S), e)
      <3> DEFINE a == Kept(s, S)
                 b == Kept(u, S)
      <3>0. a \in Seq(A) /\ b \in Seq(A)
        BY <2>7
      <3> HIDE DEF a, b
      <3>1. <<e>> \in Seq(A) /\ a \o b \in Seq(A)
        BY <2>1, <3>0, ConcatProperties
      <3>2. Append(b, e) = b \o <<e>> /\ Append(a \o b, e) = (a \o b) \o <<e>>
        BY <2>1, <3>0, <3>1, AppendIsConcat
      <3>3. a \o Append(b, e) = Append(a \o b, e)
        BY <3>0, <3>1, <3>2, ConcatAssociative
      <3>4. QED
        BY <3>3 DEF a, b
    <2>9. Kept(s \o Append(u, e), S) = Kept(s, S) \o Kept(Append(u, e), S)
      BY <2>3, <2>4, <2>5, <2>6, <2>8
    <2>10. QED
      BY <2>2, <2>9
  <1>5. T = {}
    <2> SUFFICES ASSUME T # {} PROVE FALSE
      OBVIOUS
    <2>1. T \in SUBSET Nat
      BY <1>1
    <2>2. PICK n \in T : \A m \in T : n <= m
      <3> HIDE DEF T
      <3> QED BY <2>1, LeastNumber
    <2>3. n \in 0 .. Len(t) /\ ~Good(n)
      BY DEF T
    <2> HIDE DEF Good
    <2>4. n # 0
      BY <1>3, <2>3
    <2>5. n \in 1 .. Len(t) /\ n - 1 \in 0 .. Len(t) /\ n - 1 < n
      BY <1>1, <2>3, <2>4
    <2>6. Good(n - 1)
      BY <2>1, <2>2, <2>5
    <2>7. QED
      BY <1>4, <2>3, <2>5, <2>6
  <1>6. Good(Len(t))
    <2> HIDE DEF Good
    <2> QED BY <1>1, <1>5
  <1>7. Upto(Len(t)) = t
    BY SubSeqFull
  <1>8. QED
    BY <1>6, <1>7
=============================================================================
