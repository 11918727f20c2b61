----------------------------- MODULE ListProofs -----------------------------
(***************************************************************************)
(* What the list operations keep: the elements, their being distinct, and  *)
(* the first element.                                                      *)
(***************************************************************************)
EXTENDS Lists, SequenceTheorems, WellFoundedInduction, TLAPS

\* A non empty set of naturals has a least element.
LEMMA LeastNatural ==
  ASSUME NEW T \in SUBSET Nat, T # {}
  PROVE  \E x \in T : \A y \in T : x <= y
  <1> DEFINE R == OpToRel(<, Nat)
  <1>1. IsWellFoundedOn(R, Nat)
    BY NatLessThanWellFounded, Zenon
  <1>2. \A x, y \in Nat : <<y, x>> \in R <=> y < x
    BY DEF OpToRel
  <1> HIDE DEF R
  <1>3. PICK x \in T : \A y \in T : ~ (<<y, x>> \in R)
    BY <1>1, WFMin, Zenon
  <1>4. ASSUME NEW y \in T PROVE x <= y
    <2>1. x \in Nat /\ y \in Nat
      OBVIOUS
    <2>2. ~ (y < x)
      BY <1>2, <1>3, <2>1, Zenon
    <2> QED BY <2>1, <2>2
  <1> QED BY <1>4

\* The head and the elements of a sequence are in its range.
LEMMA RangeOf ==
  ASSUME NEW S, NEW q \in Seq(S)
  PROVE  /\ Range(q) = {q[i] : i \in 1..Len(q)}
         /\ Range(q) \subseteq S
         /\ Range(q) = {} <=> q = <<>>
         /\ q # <<>> => Head(q) \in Range(q) /\ Head(q) = q[1] /\ Len(q) \in Nat \ {0}
  BY DEF Range

\* Membership in the range of a sequence, by index.
LEMMA InRange ==
  ASSUME NEW S, NEW q \in Seq(S), NEW i \in 1..Len(q)
  PROVE  q[i] \in Range(q)
  BY DEF Range

\* The elements of a concatenation, by index.
LEMMA ConcatIndex ==
  ASSUME NEW S, NEW a \in Seq(S), NEW b \in Seq(S)
  PROVE  /\ a \o b \in Seq(S) /\ Len(a \o b) = Len(a) + Len(b)
         /\ \A i \in 1..Len(a) : (a \o b)[i] = a[i]
         /\ \A i \in 1..Len(b) : (a \o b)[Len(a) + i] = b[i]
  <1>1. /\ a \o b \in Seq(S) /\ Len(a \o b) = Len(a) + Len(b)
        /\ Len(a) \in Nat /\ Len(b) \in Nat
    OBVIOUS
  <1>2. \A i \in 1..Len(a) : (a \o b)[i] = a[i]
    OBVIOUS
  <1>3. ASSUME NEW i \in 1..Len(b) PROVE (a \o b)[Len(a) + i] = b[i]
    <2>1. Len(a) + i \in 1..(Len(a) + Len(b)) /\ Len(a) + i > Len(a) /\ (Len(a) + i) - Len(a) = i
      BY <1>1
    <2> QED BY <2>1, ConcatProperties
  <1> QED BY <1>1, <1>2, <1>3

\* clist_push_back of an element that is not in the list keeps it duplicate
\* free.
LEMMA AppendRange ==
  ASSUME NEW S, NEW q \in Seq(S), NEW t \in S
  PROVE  /\ Append(q, t) \in Seq(S)
         /\ Append(q, t) # <<>>
         /\ Range(Append(q, t)) = Range(q) \cup {t}
         /\ IsInjective(q) /\ t \notin Range(q) => IsInjective(Append(q, t))
         /\ Head(Append(q, t)) = IF q = <<>> THEN t ELSE Head(q)
  BY AppendProperties DEF Range, IsInjective

\* Popping the head of a duplicate free list removes that element only.
LEMMA TailRange ==
  ASSUME NEW S, NEW q \in Seq(S), q # <<>>, IsInjective(q)
  PROVE  /\ Tail(q) \in Seq(S)
         /\ Range(Tail(q)) = Range(q) \ {Head(q)}
         /\ IsInjective(Tail(q))
  <1>1. /\ Tail(q) \in Seq(S) /\ Len(Tail(q)) = Len(q) - 1 /\ Head(q) = q[1]
        /\ \A i \in 1..Len(Tail(q)) : Tail(q)[i] = q[i + 1]
    BY HeadTailProperties
  <1>2. IsInjective(Tail(q))
    BY <1>1 DEF IsInjective
  <1>3. ASSUME NEW x \in Range(Tail(q)) PROVE x \in Range(q) \ {Head(q)}
    <2>1. PICK i \in 1..Len(Tail(q)) : x = q[i + 1]
      BY <1>1 DEF Range
    <2>2. i + 1 \in DOMAIN q /\ 1 \in DOMAIN q /\ i + 1 # 1
      BY <1>1
    <2> QED BY <1>1, <2>1, <2>2 DEF Range, IsInjective
  <1>4. ASSUME NEW x \in Range(q), x # Head(q) PROVE x \in Range(Tail(q))
    <2>1. PICK i \in 1..Len(q) : x = q[i]
      BY DEF Range
    <2>2. i - 1 \in 1..Len(Tail(q)) /\ Tail(q)[i - 1] = x
      BY <1>1, <1>4, <2>1
    <2> QED BY <1>1, <2>2, InRange, Zenon
  <1> QED BY <1>1, <1>2, <1>3, <1>4

\* rotate_ready_queue keeps the elements of the queue.
LEMMA RotatedRange ==
  ASSUME NEW S, NEW q \in Seq(S), IsInjective(q)
  PROVE  /\ Rotated(q) \in Seq(S)
         /\ Range(Rotated(q)) = Range(q)
         /\ IsInjective(Rotated(q))
         /\ Rotated(q) = <<>> <=> q = <<>>
  <1>1. CASE Len(q) <= 1
    BY <1>1 DEF Rotated
  <1>2. CASE Len(q) > 1
    <2>1. q # <<>> /\ Head(q) \in S
      BY <1>2
    <2>2. /\ Tail(q) \in Seq(S) /\ IsInjective(Tail(q))
          /\ Range(Tail(q)) = Range(q) \ {Head(q)} /\ Head(q) \in Range(q)
      BY <2>1, TailRange, RangeOf
    <2>3. Rotated(q) = Append(Tail(q), Head(q))
      BY <1>2 DEF Rotated
    <2>4. /\ Append(Tail(q), Head(q)) \in Seq(S)
          /\ Append(Tail(q), Head(q)) # <<>>
          /\ Range(Append(Tail(q), Head(q))) = Range(Tail(q)) \cup {Head(q)}
          /\ IsInjective(Append(Tail(q), Head(q)))
      <3> HIDE DEF IsInjective, Range
      <3> DEFINE tl == Tail(q)
                 hd == Head(q)
      <3>1. tl \in Seq(S) /\ hd \in S /\ IsInjective(tl) /\ hd \notin Range(tl)
        BY <2>1, <2>2
      <3> HIDE DEF tl, hd
      <3>2. /\ Append(tl, hd) \in Seq(S)
            /\ Append(tl, hd) # <<>>
            /\ Range(Append(tl, hd)) = Range(tl) \cup {hd}
            /\ IsInjective(Append(tl, hd))
        BY <3>1, AppendRange
      <3> QED BY <3>2 DEF tl, hd
    <2> QED
      BY <2>1, <2>2, <2>3, <2>4, Zenon
  <1> QED
    BY <1>1, <1>2

\* The elements that RemovedAt leaves, by index.
LEMMA RemoveAtIndex ==
  ASSUME NEW S, NEW q \in Seq(S), NEW k \in 1..Len(q)
  PROVE  /\ RemovedAt(q, k) \in Seq(S) /\ Len(RemovedAt(q, k)) = Len(q) - 1
         /\ \A i \in 1..Len(RemovedAt(q, k)) :
              RemovedAt(q, k)[i] = IF i < k THEN q[i] ELSE q[i + 1]
  <1> DEFINE w == RemovedAt(q, k)
             a == SubSeq(q, 1, k - 1)
             b == SubSeq(q, k + 1, Len(q))
  <1>1. /\ a \in Seq(S) /\ Len(a) = k - 1
        /\ \A i \in 1..(k - 1) : a[i] = q[i]
    BY SubSeqProperties
  <1>2. /\ b \in Seq(S) /\ Len(b) = Len(q) - k
        /\ \A i \in 1..(Len(q) - k) : b[i] = q[k + i]
    BY SubSeqProperties
  <1>3. w = a \o b
    BY DEF RemovedAt
  <1> HIDE DEF a, b, w
  <1>4. /\ a \o b \in Seq(S) /\ Len(a \o b) = Len(a) + Len(b)
        /\ \A i \in 1..(Len(a) + Len(b)) :
             (a \o b)[i] = IF i <= Len(a) THEN a[i] ELSE b[i - Len(a)]
    BY <1>1, <1>2, ConcatProperties, Zenon
  <1>5. ASSUME NEW i \in 1..Len(w)
        PROVE  w[i] = IF i < k THEN q[i] ELSE q[i + 1]
    BY <1>1, <1>2, <1>3, <1>4, SMTT(30)
  <1> QED BY <1>1, <1>2, <1>3, <1>4, <1>5, SMTT(30) DEF w

\* clist_remove of t from a duplicate free list removes t and nothing else.
LEMMA WithoutRange ==
  ASSUME NEW S, NEW q \in Seq(S), NEW t, IsInjective(q)
  PROVE  /\ Without(q, t) \in Seq(S)
         /\ Range(Without(q, t)) = Range(q) \ {t}
         /\ IsInjective(Without(q, t))
         /\ q # <<>> /\ Head(q) # t => Without(q, t) # <<>> /\ Head(Without(q, t)) = Head(q)
  <1>1. CASE ~ \E i \in DOMAIN q : q[i] = t
    BY <1>1 DEF Without, Range
  <1>2. CASE \E i \in DOMAIN q : q[i] = t
    <2> DEFINE k == CHOOSE i \in DOMAIN q : q[i] = t
               w == RemovedAt(q, k)
    <2>1. k \in 1..Len(q) /\ q[k] = t
      BY <1>2
    <2>2. Without(q, t) = w
      BY <1>2 DEF Without
    <2> HIDE DEF k
    <2>3. /\ w \in Seq(S) /\ Len(w) = Len(q) - 1
          /\ \A i \in 1..Len(w) : w[i] = IF i < k THEN q[i] ELSE q[i + 1]
      BY <2>1, RemoveAtIndex
    <2> HIDE DEF w
    <2>4. Range(w) = Range(q) \ {t}
      <3>1. ASSUME NEW x \in Range(w) PROVE x \in Range(q) \ {t}
        <4>1. PICK i \in 1..Len(w) : x = w[i]
          BY <2>3 DEF Range
        <4> DEFINE j == IF i < k THEN i ELSE i + 1
        <4>2. j \in 1..Len(q) /\ j # k /\ x = q[j]
          BY <4>1, <2>1, <2>3
        <4> QED BY <4>2, <2>1 DEF Range, IsInjective
      <3>2. ASSUME NEW x \in Range(q), x # t PROVE x \in Range(w)
        <4>1. PICK i \in 1..Len(q) : x = q[i]
          BY DEF Range
        <4>2. CASE i < k
          BY <4>1, <4>2, <2>1, <2>3 DEF Range
        <4>3. CASE i > k
          <5>1. i - 1 \in 1..Len(w) /\ w[i - 1] = x
            BY <4>1, <4>3, <2>1, <2>3
          <5> QED BY <5>1, <2>3 DEF Range
        <4> QED BY <4>1, <4>2, <4>3, <3>2, <2>1
      <3> QED BY <3>1, <3>2
    <2>5. IsInjective(w)
      <3>1. SUFFICES ASSUME NEW i \in 1..Len(w), NEW j \in 1..Len(w), w[i] = w[j]
                     PROVE  i = j
        BY <2>3 DEF IsInjective
      <3>2. PICK m \in 1..Len(q) : w[i] = q[m] /\ m = IF i < k THEN i ELSE i + 1
        BY <2>1, <2>3
      <3>3. PICK n \in 1..Len(q) : w[j] = q[n] /\ n = IF j < k THEN j ELSE j + 1
        BY <2>1, <2>3
      <3>4. q[m] = q[n]
        BY <3>1, <3>2, <3>3, Zenon
      <3>5. m = n
        BY <3>4 DEF IsInjective
      <3>6. k \in Int /\ i \in Int /\ j \in Int
        BY <2>1, <2>3
      <3> QED BY <3>2, <3>3, <3>5, <3>6
    <2>6. q # <<>> /\ Head(q) # t => w # <<>> /\ Head(w) = Head(q)
      BY <2>1, <2>3
    <2> QED BY <2>2, <2>3, <2>4, <2>5, <2>6
  <1> QED BY <1>1, <1>2

\* Removing an element keeps the list sorted.
LEMMA WithoutSorted ==
  ASSUME NEW S, NEW q \in Seq(S), NEW t, NEW date,
         SortedBy(q, date)
  PROVE  SortedBy(Without(q, t), date)
  <1>1. CASE ~ \E i \in DOMAIN q : q[i] = t
    BY <1>1 DEF Without
  <1>2. CASE \E i \in DOMAIN q : q[i] = t
    <2> DEFINE k == CHOOSE i \in DOMAIN q : q[i] = t
               w == RemovedAt(q, k)
    <2>1. k \in 1..Len(q)
      BY <1>2
    <2>2. Without(q, t) = w
      BY <1>2 DEF Without
    <2> HIDE DEF k
    <2>3. /\ w \in Seq(S) /\ Len(w) = Len(q) - 1
          /\ \A i \in 1..Len(w) : w[i] = IF i < k THEN q[i] ELSE q[i + 1]
      BY <2>1, RemoveAtIndex
    <2> HIDE DEF w
    <2>5. ASSUME NEW i \in 1..Len(w)
          PROVE  \E m \in 1..Len(q) : w[i] = q[m] /\ m = IF i < k THEN i ELSE i + 1
      BY <2>1, <2>3
    <2>6. DOMAIN w = 1..Len(w) /\ Len(w) \in Nat
      BY <2>3
    <2>7. ASSUME NEW i \in 1..Len(w), NEW j \in 1..Len(w), i < j
          PROVE  date[w[i]] <= date[w[j]]
      <3>1. PICK m \in 1..Len(q) : w[i] = q[m] /\ m = IF i < k THEN i ELSE i + 1
        BY <2>5
      <3>2. PICK n \in 1..Len(q) : w[j] = q[n] /\ n = IF j < k THEN j ELSE j + 1
        BY <2>5
      <3>3. i \in Int /\ j \in Int /\ k \in Int /\ i < j
        BY <2>1, <2>6, <2>7
      <3>4. m < n
        BY <3>1, <3>2, <3>3
      <3>5. m \in DOMAIN q /\ n \in DOMAIN q
        OBVIOUS
      <3> QED BY <3>1, <3>2, <3>4, <3>5 DEF SortedBy
    <2> QED BY <2>2, <2>6, <2>7 DEF SortedBy
  <1> QED BY <1>1, <1>2

\* The position clist_insert_sorted stops at exists and splits the list.
LEMMA InsertPosition ==
  ASSUME NEW S, NEW q \in Seq(S), NEW t \in S, NEW date \in [S -> Nat]
  PROVE  \E k \in 1..(Len(q) + 1) :
           /\ k <= Len(q) => date[q[k]] > date[t]
           /\ \A i \in 1..(k - 1) : date[q[i]] <= date[t]
  <1> DEFINE T == {i \in 1..(Len(q) + 1) : i <= Len(q) => date[q[i]] > date[t]}
  <1>1. Len(q) + 1 \in T /\ T \in SUBSET Nat
    OBVIOUS
  <1>2. PICK k \in T : \A y \in T : k <= y
    BY <1>1, LeastNatural, Zenon
  <1>3. ASSUME NEW i \in 1..(k - 1) PROVE date[q[i]] <= date[t]
    <2>1. i \notin T /\ i \in 1..Len(q)
      BY <1>2
    <2> QED BY <2>1
  <1> QED BY <1>2, <1>3

\* clist_insert_sorted adds t, keeps the other elements and the order of the
\* dates.
LEMMA InsertSortedRange ==
  ASSUME NEW S, NEW q \in Seq(S), NEW t \in S, NEW date \in [S -> Nat]
  PROVE  /\ InsertSorted(q, t, date) \in Seq(S)
         /\ Range(InsertSorted(q, t, date)) = Range(q) \cup {t}
         /\ IsInjective(q) /\ t \notin Range(q) => IsInjective(InsertSorted(q, t, date))
         /\ SortedBy(q, date) => SortedBy(InsertSorted(q, t, date), date)
  <1> DEFINE k == CHOOSE k \in 1..(Len(q) + 1) :
                    /\ k <= Len(q) => date[q[k]] > date[t]
                    /\ \A i \in 1..(k - 1) : date[q[i]] <= date[t]
             r == InsertedAt(q, k, t)
  <1>1. /\ k \in 1..(Len(q) + 1)
        /\ k <= Len(q) => date[q[k]] > date[t]
        /\ \A i \in 1..(k - 1) : date[q[i]] <= date[t]
    BY InsertPosition, Zenon
  <1>2. InsertSorted(q, t, date) = r
    BY DEF InsertSorted
  <1> HIDE DEF k
  <1>3. /\ r \in Seq(S) /\ Len(r) = Len(q) + 1
        /\ \A i \in 1..(k - 1) : r[i] = q[i]
        /\ r[k] = t
        /\ \A i \in k..Len(q) : r[i + 1] = q[i]
    <2> DEFINE a == SubSeq(q, 1, k - 1)
               b == SubSeq(q, k, Len(q))
               c == a \o <<t>>
    <2>1. /\ a \in Seq(S) /\ Len(a) = k - 1
          /\ \A i \in 1..(k - 1) : a[i] = q[i]
      BY <1>1, SubSeqProperties
    <2>2. /\ b \in Seq(S) /\ Len(b) = Len(q) + 1 - k
          /\ \A i \in 1..(Len(q) + 1 - k) : b[i] = q[k + i - 1]
      BY <1>1, SubSeqProperties
    <2>3. r = c \o b
      BY DEF InsertedAt
    <2> HIDE DEF a, b
    <2>4. /\ c \in Seq(S) /\ Len(c) = k /\ c[k] = t
          /\ \A i \in 1..(k - 1) : c[i] = q[i]
      BY <1>1, <2>1, SMTT(30)
    <2> HIDE DEF c, r
    <2>5. /\ c \o b \in Seq(S) /\ Len(c \o b) = Len(c) + Len(b)
          /\ \A i \in 1..Len(c) : (c \o b)[i] = c[i]
          /\ \A i \in 1..Len(b) : (c \o b)[Len(c) + i] = b[i]
      <3>1. b \in Seq(S) /\ c \in Seq(S)
        BY <2>2, <2>4
      <3>2. \A u, v \in Seq(S) : \A i \in 1..Len(v) : (u \o v)[Len(u) + i] = v[i]
        BY ConcatIndex
      <3>3. \A i \in 1..Len(b) : (c \o b)[Len(c) + i] = b[i]
        BY <3>1, <3>2, Zenon
      <3>4. c \o b \in Seq(S) /\ Len(c \o b) = Len(c) + Len(b)
        BY <3>1
      <3>5. \A i \in 1..Len(c) : (c \o b)[i] = c[i]
        BY <3>1
      <3> QED BY <3>3, <3>4, <3>5, SMTT(30)
    <2>6. \A i \in 1..(k - 1) : r[i] = q[i]
      BY <1>1, <2>3, <2>4, <2>5
    <2>7. r[k] = t
      BY <1>1, <2>3, <2>4, <2>5
    <2>8. ASSUME NEW i \in k..Len(q) PROVE r[i + 1] = q[i]
      <3>1. i + 1 - k \in 1..Len(b) /\ b[i + 1 - k] = q[i]
        BY <1>1, <2>2
      <3>2. r[k + (i + 1 - k)] = b[i + 1 - k]
        BY <2>3, <2>4, <2>5, <3>1, Zenon
      <3> QED BY <1>1, <3>1, <3>2, SMTT(30)
    <2>9. r \in Seq(S) /\ Len(r) = Len(q) + 1
      BY <1>1, <2>2, <2>3, <2>4, <2>5
    <2> QED BY <2>6, <2>7, <2>8, <2>9
  <1> HIDE DEF r
  <1>4. ASSUME NEW i \in 1..Len(r), i # k
        PROVE  \E m \in 1..Len(q) : r[i] = q[m] /\ (i < k => m = i) /\ (i > k => i = m + 1)
    <2>1. CASE i < k
      <3>1. i \in 1..(k - 1) /\ i \in 1..Len(q) /\ ~(i > k)
        BY <2>1, <1>1, <1>3
      <3>2. r[i] = q[i]
        BY <3>1, <1>3
      <3> QED BY <3>1, <3>2
    <2>2. CASE i > k
      <3> DEFINE m == i - 1
      <3>1. m \in k..Len(q) /\ m \in 1..Len(q) /\ i = m + 1 /\ ~(i < k)
        BY <2>2, <1>1, <1>3
      <3> HIDE DEF m
      <3>2. r[m + 1] = q[m]
        BY <3>1, <1>3
      <3> QED BY <3>1, <3>2
    <2> QED BY <2>1, <2>2, <1>1, <1>3, <1>4
  <1>5. Range(r) = Range(q) \cup {t}
    <2>1. ASSUME NEW x \in Range(r) PROVE x \in Range(q) \cup {t}
      <3>1. PICK i \in 1..Len(r) : x = r[i]
        BY <1>3 DEF Range
      <3>2. CASE i # k
        BY <3>1, <3>2, <1>4, InRange
      <3> QED BY <3>1, <3>2, <1>3
    <2>2. ASSUME NEW x \in Range(q) PROVE x \in Range(r)
      <3>1. PICK i \in 1..Len(q) : x = q[i]
        BY DEF Range
      <3>2. CASE i < k
        <4>1. i \in 1..Len(r) /\ i \in 1..(k - 1)
          BY <3>1, <3>2, <1>1, <1>3
        <4>2. r[i] = x
          BY <4>1, <3>1, <1>3, SMTT(30)
        <4> QED BY <4>1, <4>2, <1>3, InRange, Zenon
      <3>3. CASE i >= k
        <4>1. i + 1 \in 1..Len(r) /\ i \in k..Len(q)
          BY <3>1, <3>3, <1>1, <1>3
        <4>2. r[i + 1] = x
          BY <4>1, <3>1, <1>3
        <4> QED BY <4>1, <4>2, <1>3, InRange, Zenon
      <3> QED BY <3>1, <3>2, <3>3, <1>1
    <2>3. t \in Range(r)
      <3>1. k \in 1..Len(r) /\ r[k] = t
        BY <1>1, <1>3
      <3> QED BY <3>1, <1>3, InRange
    <2> QED BY <2>1, <2>2, <2>3
  <1>6. ASSUME IsInjective(q), t \notin Range(q) PROVE IsInjective(r)
    <2>1. \A i \in 1..Len(q) : q[i] # t
      BY <1>6, InRange
    <2>2. \A m, n \in 1..Len(q) : q[m] = q[n] => m = n
      BY <1>6 DEF IsInjective
    <2>3. ASSUME NEW i \in 1..Len(r), NEW j \in 1..Len(r), i < j PROVE r[i] # r[j]
      <3>0. i \in Int /\ j \in Int /\ k \in Int
        BY <1>1, <1>3
      <3>1. CASE i = k
        <4>1. PICK n \in 1..Len(q) : r[j] = q[n]
          BY <3>0, <3>1, <2>3, <1>4
        <4> QED BY <3>1, <4>1, <2>1, <1>3, SMTT(30)
      <3>2. CASE j = k
        <4>1. PICK m \in 1..Len(q) : r[i] = q[m]
          BY <3>0, <3>2, <2>3, <1>4
        <4> QED BY <3>2, <4>1, <2>1, <1>3
      <3>3. CASE i # k /\ j # k
        <4>1. PICK m \in 1..Len(q) : r[i] = q[m] /\ (i < k => m = i) /\ (i > k => i = m + 1)
          BY <3>3, <1>4, SMTT(30)
        <4>2. PICK n \in 1..Len(q) : r[j] = q[n] /\ (j < k => n = j) /\ (j > k => j = n + 1)
          BY <3>3, <1>4
        <4>3. m # n
          BY <3>0, <3>3, <4>1, <4>2, <2>3
        <4> QED BY <4>1, <4>2, <4>3, <2>2
      <3> QED BY <3>1, <3>2, <3>3
    <2>4. DOMAIN r = 1..Len(r) /\ Len(r) \in Nat
      BY <1>3
    <2> QED BY <2>3, <2>4 DEF IsInjective
  <1>7. ASSUME SortedBy(q, date),
               NEW i \in 1..Len(r), NEW j \in 1..Len(r), i < j
        PROVE  date[r[i]] <= date[r[j]]
    <2>0. i \in Int /\ j \in Int /\ k \in Int /\ i < j
      BY <1>1, <1>3, <1>7
    <2>1. \A m \in 1..Len(q) : q[m] \in S /\ date[q[m]] \in Nat
      OBVIOUS
    <2>2. ASSUME NEW m \in k..Len(q) PROVE date[q[m]] > date[t]
      <3>1. m \in 1..Len(q) /\ k \in 1..Len(q) /\ k <= Len(q)
        BY <1>1
      <3>2. date[q[k]] <= date[q[m]]
        BY <1>7, <3>1, <2>1, SMTT(30) DEF SortedBy
      <3> QED BY <3>1, <3>2, <1>1, <2>1, SMTT(30)
    <2>3. CASE j = k
      <3>1. PICK m \in 1..Len(q) : r[i] = q[m] /\ m \in 1..(k - 1)
        BY <2>0, <2>3, <1>4, SMTT(30)
      <3> QED BY <3>1, <2>3, <1>1, <1>3
    <2>4. CASE i = k
      <3>1. PICK n \in 1..Len(q) : r[j] = q[n] /\ n \in k..Len(q)
        BY <2>0, <2>4, <1>4
      <3> QED BY <3>1, <2>1, <2>2, <2>4, <1>3, SMTT(30)
    <2>5. CASE i # k /\ j # k
      <3>1. PICK m \in 1..Len(q) : r[i] = q[m] /\ (i < k => m = i) /\ (i > k => i = m + 1)
        BY <2>5, <1>4
      <3>2. PICK n \in 1..Len(q) : r[j] = q[n] /\ (j < k => n = j) /\ (j > k => j = n + 1)
        BY <2>5, <1>4
      <3>3. m < n
        <4>1. m \in Int /\ n \in Int
          OBVIOUS
        <4>2. (i < k => m = i) /\ (i > k => i = m + 1) /\ (j < k => n = j) /\ (j > k => j = n + 1)
          BY <3>1, <3>2
        <4>3. i # k /\ j # k
          BY <2>5
        <4> HIDE DEF k, r
        <4> QED BY <2>0, <4>1, <4>2, <4>3, SMTT(30)
      <3>4. m \in DOMAIN q /\ n \in DOMAIN q
        OBVIOUS
      <3> QED BY <3>1, <3>2, <3>3, <3>4, <1>7 DEF SortedBy
    <2> QED BY <2>3, <2>4, <2>5
  <1>8. DOMAIN r = 1..Len(r)
    BY <1>3
  <1> QED BY <1>2, <1>3, <1>5, <1>6, <1>7, <1>8, SMTT(30) DEF SortedBy
=============================================================================
