--------------------------- MODULE VirtioBlkProofs ---------------------------
(***************************************************************************)
(* The block driver for every finite set of tasks, every size of the queue *)
(* and every width of the indices: the chains of the requests are          *)
(* disjoint, a completion reaches the request that waits for it, and a     *)
(* request returns after the device served it, once.                       *)
(***************************************************************************)
EXTENDS VirtioBlk, FiniteSetTheorems, WellFoundedInduction, TLAPS

\* The leaves that need arithmetic cite SMT.
USE ZenonT(20)

\* The place after i in a ring, and the index after x
NextPlace(i) == IF i + 1 = Num THEN 0 ELSE i + 1
Bump(x) == (x + 1) % IdxMod
Indices == 0..(IdxMod - 1)

\* How far place j is after place i, and index y after index x
RingDist(i, j) == IF j >= i THEN j - i ELSE j - i + Num
IdxDist(x, y) == IF y >= x THEN y - x ELSE y - x + IdxMod

\* The entries of a ring from index lo up to index hi wait to be read, and no
\* others.
Window(ring, lo, hi) ==
  /\ IdxDist(lo, hi) < Num
  /\ RingDist(lo % Num, hi % Num) = IdxDist(lo, hi)
  /\ \A j \in Descs : ring[j] # Stale <=> RingDist(lo % Num, j) < IdxDist(lo, hi)

\* The index of avail once the request that is being written is published
AvailEnd == IF vq_lock = NoTask THEN avail.idx ELSE Bump(avail.idx)

Rings ==
  /\ Window(avail.ring, dev_seen, AvailEnd) /\ (vq_lock # NoTask => dev_seen # AvailEnd)
  /\ Window(used.ring, last_seen_used, used.idx)
  /\ handler = "posted" => last_seen_used # used.idx

\* The request whose descriptors are being published
Lock ==
  \A t \in Tasks : /\ pc[t] = "publish" <=> vq_lock = t
                   /\ vq_lock = t => avail.ring[avail.idx % Num] = head[t]

Waits(t, h) == t \in Tasks /\ head[t] = h /\ posted[t] = 0 /\ inflight[h] = t

\* A request in flight is in one of three places: avail, taken and used.
Avail ==
  /\ \A j \in Descs : avail.ring[j] # Stale =>
       LET t == inflight[avail.ring[j]]
       IN  /\ Waits(t, avail.ring[j]) /\ pc[t] \in {"publish", "wait"} /\ t \notin served
           /\ \A r \in taken : r.req # t
  /\ \A j, k \in Descs : avail.ring[j] # Stale /\ avail.ring[j] = avail.ring[k] => j = k

Taken ==
  \A r \in taken : Waits(r.req, r.head) /\ pc[r.req] = "wait" /\ r.req \notin served

\* The entries of used whose request the handler has not posted yet
Fresh == {j \in Descs : /\ used.ring[j] # Stale
                        /\ ~(handler = "posted" /\ j = last_seen_used % Num)}

Used ==
  /\ \A j \in Fresh : LET t == inflight[used.ring[j]]
                      IN  Waits(t, used.ring[j]) /\ pc[t] = "wait" /\ t \in served
  /\ \A j, k \in Fresh : used.ring[j] = used.ring[k] => j = k

\* What the statement a request is at says of it
Stages ==
  \A t \in Tasks :
    /\ pc[t] \in {"publish", "wait", "release", "link"} => inflight[head[t]] = t
    /\ pc[t] \in {"submit", "publish"} => t \notin served /\ posted[t] = 0
    /\ pc[t] \in {"release", "link", "post"} => t \in served
    /\ pc[t] = "wait" /\ posted[t] > 0 => t \in served

Second(t) == desc[head[t]].next
Third(t) == desc[Second(t)].next

\* The chain of t is as submit_req or release_desc_chain left it.
ChainOf(t) ==
  /\ head[t] # Second(t) /\ head[t] # Third(t) /\ Second(t) # Third(t)
  /\ \A i \in OwnChain(t) : desc[i].req = t
  /\ pc[t] # "link" => /\ desc[head[t]].flags = "NEXT" /\ desc[Second(t)].flags = "NEXT"
                       /\ desc[Third(t)].flags = "WRITE"
  /\ pc[t] = "link" => curr[t] = Third(t)

Chains ==
  /\ \A t \in Owners : ChainOf(t)
  /\ \A t, u \in Owners : t # u => OwnChain(t) \cap OwnChain(u) = {}

\* f lists n free descriptors, in the order the driver takes them.
FreeList(f, n) ==
  /\ f \in [0..(n - 1) -> Descs]
  /\ n > 0 => f[0] = free_head_idx
  /\ \A i \in 0..(n - 2) : desc[f[i]].next = f[i + 1]
  /\ \A i, j \in 0..(n - 1) : f[i] = f[j] => i = j
  /\ \A i \in 0..(n - 1) : \A t \in Owners : f[i] \notin OwnChain(t)

Busy == {t \in Tasks : pc[t] # "idle"}
FreeNum == VIRTIO_REQ_NUM_DESC * (Slots - Cardinality(Owners))

Lists == \E f : FreeList(f, FreeNum)

Counts == free_slots + Cardinality(Busy) = Slots

BlkInv ==
  /\ TypeOK /\ Rings /\ Lock /\ Avail /\ Taken /\ Used /\ Stages /\ Chains /\ Lists /\ Counts
-----------------------------------------------------------------------------
\* Remainders are unique.
LEMMA ModIs ==
  ASSUME NEW n \in Nat, n > 0, NEW x \in Int, NEW q \in Int, NEW r \in 0..(n - 1), x = n * q + r
  PROVE  x % n = r
  <1>1. x = n * (x \div n) + (x % n) /\ x \div n \in Int /\ x % n \in 0..(n - 1)
    BY Z3T(30)
  <1> DEFINE d == x \div n
             m == x % n
  <1>2. d \in Int /\ m \in 0..(n - 1) /\ n * d + m = n * q + r
    BY <1>1
  <1> HIDE DEF d, m
  <1>3. n * (d - q) = r - m /\ r - m < n /\ m - r < n
    BY <1>2, Z3T(30)
  <1> DEFINE e == d - q
  <1>4. e \in Int /\ n * e = r - m
    BY <1>2, <1>3, SMTT(30)
  <1> HIDE DEF e
  <1>5. CASE e >= 1
    <2>1. n * e >= n
      BY <1>4, <1>5, Z3T(30)
    <2> QED
      BY <1>2, <1>3, <1>4, <2>1, SMTT(30)
  <1>6. CASE e <= -1
    <2>1. n * e <= -n
      BY <1>4, <1>6, Z3T(30)
    <2> QED
      BY <1>2, <1>3, <1>4, <2>1, SMTT(30)
  <1>7. CASE e = 0
    <2>1. n * e = 0
      BY <1>7, SMTT(30)
    <2>2. r = m
      BY <1>2, <1>4, <2>1, SMTT(30)
    <2> QED
      BY <2>2 DEF m
  <1> QED
    BY <1>4, <1>5, <1>6, <1>7, SMTT(30)

\* The constants: a slot less than the queue has places for is always free.
LEMMA Consts ==
  /\ Num \in Nat /\ Num >= 3 /\ IdxMod \in Nat /\ IdxMod >= Num /\ IdxMod % Num = 0
  /\ Slots \in Nat /\ Slots + 1 < Num /\ 3 * Slots <= Num
  /\ NoTask \notin Tasks /\ IsFiniteSet(Tasks)
  /\ Descs = 0..(Num - 1) /\ Stale = Num
  <1>1. Num \in Nat /\ Num >= 3 /\ IdxMod \in Nat /\ IdxMod > 0 /\ IdxMod % Num = 0
    BY VirtioAssumption, SMTT(30)
  <1>2. IdxMod >= Num
    <2>1. ASSUME IdxMod < Num
          PROVE  FALSE
      BY <1>1, <2>1, Z3T(30)
    <2> QED
      BY <1>1, <2>1, SMTT(30)
  <1>3. Slots \in Nat /\ 3 * Slots <= Num
    BY <1>1, SMTT(30) DEF Slots, VIRTIO_REQ_NUM_DESC
  <1>4. Slots + 1 < Num
    BY <1>1, <1>3, SMTT(30)
  <1> QED
    BY <1>1, <1>2, <1>3, <1>4, VirtioAssumption DEF Descs, Stale

\* The place of an index
LEMMA PlaceType ==
  ASSUME NEW x \in Indices
  PROVE  x % Num \in Descs
  <1>1. Num \in Nat /\ Num > 0 /\ x \in Int
    BY Consts, SMTT(30) DEF Indices
  <1>2. x % Num \in 0..(Num - 1)
    BY <1>1, Z3T(30)
  <1> QED
    BY <1>2, Consts

\* The index of a ring is incremented at its width, and its place in the ring
\* with it: the width is a multiple of the size.
LEMMA BumpIs ==
  ASSUME NEW x \in Indices
  PROVE  /\ Bump(x) = (IF x + 1 = IdxMod THEN 0 ELSE x + 1)
         /\ Bump(x) \in Indices
         /\ Bump(x) % Num = NextPlace(x % Num)
  <1>1. /\ Num \in Nat /\ Num >= 3 /\ IdxMod \in Nat /\ IdxMod >= Num /\ IdxMod % Num = 0
        /\ x \in Nat /\ x < IdxMod
    BY Consts, SMTT(30) DEF Indices
  <1>2. Bump(x) = IF x + 1 = IdxMod THEN 0 ELSE x + 1
    <2>1. CASE x + 1 = IdxMod
      <3>1. IdxMod % IdxMod = 0
        BY <1>1, Z3T(30)
      <3> QED
        BY <2>1, <3>1 DEF Bump
    <2>2. CASE x + 1 < IdxMod
      BY <1>1, <2>2, Z3T(30) DEF Bump
    <2> QED
      BY <1>1, <2>1, <2>2, SMTT(30)
  <1>3. (x + 1) % Num = NextPlace(x % Num)
    <2>1. PICK q \in Int, r \in 0..(Num - 1) : x = Num * q + r /\ x % Num = r
      <3>1. x = Num * (x \div Num) + (x % Num) /\ x \div Num \in Int /\ x % Num \in 0..(Num - 1)
        BY <1>1, Z3T(30)
      <3> QED
        BY <3>1
    <2>2. CASE r + 1 < Num
      <3>1. /\ x + 1 = Num * q + (r + 1) /\ r + 1 \in 0..(Num - 1)
            /\ Num \in Nat /\ Num > 0 /\ x + 1 \in Int
        BY <1>1, <2>1, <2>2, SMTT(30)
      <3>2. (x + 1) % Num = r + 1
        BY <3>1, ModIs
      <3> QED
        BY <1>1, <2>1, <2>2, <3>2, SMTT(30) DEF NextPlace
    <2>3. CASE r + 1 = Num
      <3>1. x + 1 = Num * (q + 1) + 0
        BY <1>1, <2>1, <2>3, Z3T(30)
      <3>2. (x + 1) % Num = 0
        BY <1>1, <3>1, ModIs, SMTT(30)
      <3> QED
        BY <1>1, <2>1, <2>3, <3>2 DEF NextPlace
    <2> QED
      BY <1>1, <2>2, <2>3, SMTT(30)
  <1>4. Bump(x) % Num = NextPlace(x % Num)
    <2>1. CASE x + 1 = IdxMod
      <3>1. 0 % Num = 0
        BY <1>1, Z3T(30)
      <3> QED
        BY <1>1, <1>2, <1>3, <2>1, <3>1
    <2>2. CASE x + 1 # IdxMod
      BY <1>2, <1>3, <2>2
    <2> QED
      BY <2>1, <2>2
  <1> QED
    BY <1>1, <1>2, <1>4, SMTT(30) DEF Indices

\* The window of a ring: the entry at lo waits if there is one, the one at hi
\* does not.
LEMMA WindowEnds ==
  ASSUME NEW ring, NEW lo \in Indices, NEW hi \in Indices, Window(ring, lo, hi)
  PROVE  /\ lo # hi => ring[lo % Num] # Stale
         /\ ring[hi % Num] = Stale
  <1>1. lo % Num \in Descs /\ hi % Num \in Descs
    BY PlaceType
  <1> QED
    BY <1>1, Consts, SMTT(30) DEF Window, RingDist, IdxDist, Indices

\* Writing the entry at hi, if a place remains free
LEMMA Push ==
  ASSUME NEW ring \in [Descs -> Descs \cup {Stale}], NEW lo \in Indices, NEW hi \in Indices,
         Window(ring, lo, hi), IdxDist(lo, hi) + 1 < Num, NEW h \in Descs
  PROVE  /\ Window([ring EXCEPT ![hi % Num] = h], lo, Bump(hi))
         /\ lo # Bump(hi)
  <1> DEFINE a == lo % Num
             b == hi % Num
             new == [ring EXCEPT ![b] = h]
  <1>1. a \in Descs /\ b \in Descs
    BY PlaceType
  <1>2. /\ Bump(hi) = (IF hi + 1 = IdxMod THEN 0 ELSE hi + 1)
        /\ Bump(hi) % Num = NextPlace(b)
    BY BumpIs
  <1>3. /\ IdxDist(lo, Bump(hi)) = IdxDist(lo, hi) + 1
        /\ lo # Bump(hi)
    BY <1>2, Consts, SMTT(30) DEF IdxDist, Indices
  <1>4. RingDist(a, b) = IdxDist(lo, hi)
    BY DEF Window
  <1> HIDE DEF a, b
  <1>5. RingDist(a, NextPlace(b)) = RingDist(a, b) + 1
    BY <1>1, <1>4, Consts, SMTT(30) DEF RingDist, NextPlace
  <1>6. ASSUME NEW j \in Descs
        PROVE  new[j] # Stale <=> RingDist(a, j) < IdxDist(lo, hi) + 1
    <2>1. ring[j] # Stale <=> RingDist(a, j) < IdxDist(lo, hi)
      BY DEF Window, a
    <2>2. RingDist(a, j) = RingDist(a, b) <=> j = b
      BY <1>1, Consts, SMTT(30) DEF RingDist
    <2>3. RingDist(a, j) \in Int /\ RingDist(a, b) \in Int
      BY <1>1, Consts, SMTT(30) DEF RingDist
    <2>4. CASE j = b
      <3>1. new[j] = h /\ h # Stale
        BY <1>1, <2>4, Consts, SMTT(30)
      <3> QED
        BY <1>4, <2>3, <2>4, <3>1, SMTT(30)
    <2>5. CASE j # b
      <3>1. new[j] = ring[j]
        BY <2>5
      <3> QED
        BY <1>4, <2>1, <2>2, <2>3, <2>5, <3>1, SMTT(30)
    <2> QED
      BY <2>4, <2>5
  <1>7. Window(new, lo, Bump(hi))
    BY <1>2, <1>3, <1>4, <1>5, <1>6 DEF Window, a
  <1> QED
    BY <1>3, <1>7 DEF b

\* Reading the entry at lo
LEMMA Pop ==
  ASSUME NEW ring \in [Descs -> Descs \cup {Stale}], NEW lo \in Indices, NEW hi \in Indices,
         Window(ring, lo, hi), lo # hi
  PROVE  Window([ring EXCEPT ![lo % Num] = Stale], Bump(lo), hi)
  <1> DEFINE a == lo % Num
             new == [ring EXCEPT ![a] = Stale]
  <1>1. a \in Descs /\ hi % Num \in Descs
    BY PlaceType
  <1>2. /\ Bump(lo) = (IF lo + 1 = IdxMod THEN 0 ELSE lo + 1)
        /\ Bump(lo) % Num = NextPlace(a)
    BY BumpIs
  <1>3. /\ IdxDist(Bump(lo), hi) = IdxDist(lo, hi) - 1
        /\ IdxDist(lo, hi) \in Nat /\ IdxDist(lo, hi) > 0 /\ IdxDist(lo, hi) < Num
    BY <1>2, Consts, SMTT(30) DEF IdxDist, Indices, Window
  <1>4. RingDist(a, hi % Num) = IdxDist(lo, hi)
    BY DEF Window
  <1> HIDE DEF a
  <1>5. ASSUME NEW j \in Descs
        PROVE  RingDist(NextPlace(a), j) = IF j = a THEN Num - 1 ELSE RingDist(a, j) - 1
    BY <1>1, Consts, SMTT(30) DEF RingDist, NextPlace
  <1>6. RingDist(NextPlace(a), hi % Num) = IdxDist(lo, hi) - 1
    <2>1. hi % Num # a
      BY <1>1, <1>3, <1>4, Consts, SMTT(30) DEF RingDist
    <2> QED
      BY <1>1, <1>4, <1>5, <2>1
  <1>7. ASSUME NEW j \in Descs
        PROVE  new[j] # Stale <=> RingDist(NextPlace(a), j) < IdxDist(lo, hi) - 1
    <2>1. ring[j] # Stale <=> RingDist(a, j) < IdxDist(lo, hi)
      BY DEF Window, a
    <2>2. RingDist(a, j) \in Int
      BY <1>1, Consts, SMTT(30) DEF RingDist
    <2>3. CASE j = a
      <3>1. new[j] = Stale
        BY <1>1, <2>3
      <3>2. RingDist(NextPlace(a), j) = Num - 1
        BY <1>5, <2>3
      <3> QED
        BY <1>3, <3>1, <3>2, Consts, SMTT(30)
    <2>4. CASE j # a
      <3>1. new[j] = ring[j]
        BY <2>4
      <3>2. RingDist(NextPlace(a), j) = RingDist(a, j) - 1
        BY <1>5, <2>4
      <3> QED
        BY <1>3, <2>1, <2>2, <3>1, <3>2, SMTT(30)
    <2> QED
      BY <2>3, <2>4
  <1>8. Window(new, Bump(lo), hi)
    <2>1. IdxDist(Bump(lo), hi) < Num
      BY <1>3, Consts, SMTT(30)
    <2> QED
      BY <1>2, <1>3, <1>6, <1>7, <2>1 DEF Window
  <1> QED
    BY <1>8 DEF a

\* As many entries wait as the window is long.
LEMMA WindowSize ==
  ASSUME NEW ring, NEW lo \in Indices, NEW hi \in Indices, Window(ring, lo, hi)
  PROVE  LET S == {j \in Descs : ring[j] # Stale}
         IN  IsFiniteSet(S) /\ Cardinality(S) = IdxDist(lo, hi)
  <1> DEFINE S == {j \in Descs : ring[j] # Stale}
             a == lo % Num
             n == IdxDist(lo, hi)
             place == [i \in 1..n |-> IF a + i - 1 < Num THEN a + i - 1 ELSE a + i - 1 - Num]
  <1>1. a \in Descs /\ n \in Nat /\ n < Num
    BY PlaceType, Consts, SMTT(30) DEF Window, IdxDist, Indices
  <1>2. \A j \in Descs : j \in S <=> RingDist(a, j) < n
    BY DEF Window
  <1> HIDE DEF a, n, S
  <1>3. \A i \in 1..n : place[i] \in Descs /\ RingDist(a, place[i]) = i - 1
    BY <1>1, Consts, SMTT(30) DEF RingDist
  <1>4. place \in [1..n -> S]
    <2>1. ASSUME NEW i \in 1..n
          PROVE  place[i] \in S
      BY <1>1, <1>2, <1>3, SMTT(30)
    <2> QED
      BY <2>1
  <1>5. \A i, j \in 1..n : place[i] = place[j] => i = j
    <2>1. ASSUME NEW i \in 1..n, NEW j \in 1..n, place[i] = place[j]
          PROVE  i = j
      <3>1. i - 1 = j - 1
        BY <1>3, <2>1
      <3> QED
        BY <1>1, <3>1, SMTT(30)
    <2> QED
      BY <2>1
  <1>6. \A j \in S : \E i \in 1..n : place[i] = j
    <2>1. ASSUME NEW j \in S
          PROVE  \E i \in 1..n : place[i] = j
      <3>1. j \in Descs /\ RingDist(a, j) < n
        BY <1>2 DEF S
      <3>2. /\ RingDist(a, j) + 1 \in 1..n
            /\ j = IF a + (RingDist(a, j) + 1) - 1 < Num THEN a + (RingDist(a, j) + 1) - 1
                   ELSE a + (RingDist(a, j) + 1) - 1 - Num
        BY <1>1, <3>1, Consts, SMTT(30) DEF RingDist
      <3> QED
        BY <3>2
    <2> QED
      BY <2>1
  <1>7. place \in Bijection(1..n, S)
    BY <1>4, <1>5, <1>6 DEF Bijection, Injection, Surjection, IsInjective
  <1>8. IsFiniteSet(1..n) /\ Cardinality(1..n) = n
    BY <1>1, FS_Interval, SMTT(30)
  <1>9. ExistsBijection(1..n, S)
    BY <1>7 DEF ExistsBijection
  <1>10. IsFiniteSet(S) /\ Cardinality(S) = n
    BY <1>8, <1>9, FS_Bijection
  <1> QED
    BY <1>10 DEF S, n
-----------------------------------------------------------------------------
\* The types of the variables, one by one
LEMMA Types ==
  ASSUME TypeOK
  PROVE  /\ \A t \in Tasks : /\ pc[t] \in Statements /\ head[t] \in Descs /\ curr[t] \in Descs
                             /\ posted[t] \in 0..1
         /\ \A i \in Descs : /\ desc[i].next \in Descs
                             /\ avail.ring[i] \in Descs \cup {Stale}
                             /\ used.ring[i] \in Descs \cup {Stale}
         /\ avail.ring \in [Descs -> Descs \cup {Stale}] /\ avail.idx \in Indices
         /\ used.ring \in [Descs -> Descs \cup {Stale}] /\ used.idx \in Indices
         /\ last_seen_used \in Indices /\ dev_seen \in Indices
         /\ AvailEnd \in Indices
         /\ \A r \in taken : r.head \in Descs /\ r.req \in Tasks
  <1>1. /\ avail.ring \in [Descs -> Descs \cup {Stale}] /\ avail.idx \in Indices
        /\ used.ring \in [Descs -> Descs \cup {Stale}] /\ used.idx \in Indices
        /\ last_seen_used \in Indices /\ dev_seen \in Indices
    BY DEF TypeOK, Ring, Indices
  <1>2. AvailEnd \in Indices
    BY <1>1, BumpIs DEF AvailEnd
  <1>3. \A t \in Tasks : /\ pc[t] \in Statements /\ head[t] \in Descs /\ curr[t] \in Descs
                         /\ posted[t] \in 0..1
    BY DEF TypeOK
  <1>4. \A i \in Descs : desc[i].next \in Descs
    BY DEF TypeOK
  <1>5. \A r \in taken : r.head \in Descs /\ r.req \in Tasks
    BY DEF TypeOK
  <1> QED
    BY <1>1, <1>2, <1>3, <1>4, <1>5

\* The sets of tasks that are counted
LEMMA Finite ==
  ASSUME TypeOK, Counts
  PROVE  /\ IsFiniteSet(Busy) /\ IsFiniteSet(Owners)
         /\ Cardinality(Busy) \in Nat /\ Cardinality(Owners) \in Nat
         /\ Cardinality(Owners) <= Cardinality(Busy) /\ Cardinality(Busy) <= Slots
         /\ free_slots \in 0..Slots
  <1>1. Owners \subseteq Busy /\ Busy \subseteq Tasks
    BY DEF Owners, Busy
  <1>2. IsFiniteSet(Busy)
    BY <1>1, Consts, FS_Subset
  <1>3. IsFiniteSet(Owners) /\ Cardinality(Owners) <= Cardinality(Busy)
    BY <1>1, <1>2, FS_Subset
  <1>4. Cardinality(Busy) \in Nat /\ Cardinality(Owners) \in Nat
    BY <1>2, <1>3, FS_CardinalityType
  <1>5. free_slots \in 0..Slots
    BY DEF TypeOK
  <1> QED
    BY <1>2, <1>3, <1>4, <1>5, Consts, SMTT(30) DEF Counts

\* What belongs to requests other than that of t is less than the slots.
LEMMA OthersFit ==
  ASSUME TypeOK, Counts, NEW t \in Busy, NEW S, NEW g \in [S -> Busy \ {t}],
         \A i, j \in S : g[i] = g[j] => i = j
  PROVE  IsFiniteSet(S) /\ Cardinality(S) \in Nat /\ Cardinality(S) + 1 <= Slots
  <1>1. IsFiniteSet(Busy \ {t}) /\ Cardinality(Busy \ {t}) = Cardinality(Busy) - 1
    BY Finite, FS_RemoveElement
  <1>2. g \in Injection(S, Busy \ {t})
    BY DEF Injection, IsInjective
  <1>3. IsFiniteSet(S) /\ Cardinality(S) <= Cardinality(Busy \ {t})
    BY <1>1, <1>2, FS_Injection
  <1>4. Cardinality(S) \in Nat
    BY <1>3, FS_CardinalityType
  <1> QED
    BY <1>1, <1>3, <1>4, Finite, Consts, SMTT(30)

\* submit_req finds a free place in avail.
LEMMA AvailHasRoom ==
  ASSUME BlkInv, NEW t \in Tasks, pc[t] = "submit"
  PROVE  IdxDist(dev_seen, AvailEnd) + 1 < Num
  <1> DEFINE S == {j \in Descs : avail.ring[j] # Stale}
             g == [j \in S |-> inflight[avail.ring[j]]]
  <1>1. t \in Busy
    BY DEF Busy
  <1>2. g \in [S -> Busy \ {t}]
    BY DEF BlkInv, Avail, Waits, Busy
  <1>3. \A i, j \in S : g[i] = g[j] => i = j
    BY SMTT(30) DEF BlkInv, Avail, Waits
  <1>4. Cardinality(S) \in Nat /\ Cardinality(S) + 1 <= Slots
    BY <1>1, <1>2, <1>3, OthersFit, ZenonT(40) DEF BlkInv
  <1>5. Cardinality(S) = IdxDist(dev_seen, AvailEnd)
    BY Types, WindowSize DEF BlkInv, Rings
  <1> QED
    BY <1>4, <1>5, Consts, SMTT(30)

\* The device finds a free place in used.
LEMMA UsedHasRoom ==
  ASSUME BlkInv, NEW r \in taken
  PROVE  IdxDist(last_seen_used, used.idx) + 1 < Num
  <1> DEFINE S == {j \in Descs : used.ring[j] # Stale}
             p == last_seen_used % Num
             g == [j \in Fresh |-> inflight[used.ring[j]]]
             t == r.req
  <1>1. t \in Busy
    BY DEF Busy, BlkInv, Taken, Waits
  <1>2. g \in [Fresh -> Busy \ {t}]
    BY DEF BlkInv, Used, Taken, Waits, Busy
  <1>3. \A i, j \in Fresh : g[i] = g[j] => i = j
    BY SMTT(30) DEF BlkInv, Used, Waits
  <1> HIDE DEF g, t
  <1>4. IsFiniteSet(Fresh) /\ Cardinality(Fresh) \in Nat /\ Cardinality(Fresh) + 1 <= Slots
    BY <1>1, <1>2, <1>3, OthersFit DEF BlkInv
  <1>5. IsFiniteSet(Fresh \cup {p}) /\ Cardinality(Fresh \cup {p}) <= Cardinality(Fresh) + 1
    BY <1>4, FS_AddElement, SMTT(30)
  <1>6. S \subseteq Fresh \cup {p}
    BY DEF Fresh
  <1>7. IsFiniteSet(S) /\ Cardinality(S) <= Cardinality(Fresh \cup {p})
    BY <1>5, <1>6, FS_Subset
  <1>8. Cardinality(S) = IdxDist(last_seen_used, used.idx)
    BY Types, WindowSize DEF BlkInv, Rings
  <1>9. Cardinality(S) \in Nat /\ Cardinality(Fresh \cup {p}) \in Nat
    BY <1>5, <1>7, FS_CardinalityType
  <1> QED
    BY <1>4, <1>5, <1>7, <1>8, <1>9, Consts, SMTT(30)
-----------------------------------------------------------------------------
\* What a step that touches no chain leaves alone
LEMMA ChainsStay ==
  ASSUME TypeOK, Chains, Lists, UNCHANGED <<desc, free_head_idx>>, Owners' = Owners,
         \A u \in Owners : /\ head'[u] = head[u] /\ curr'[u] = curr[u]
                           /\ pc'[u] = "link" <=> pc[u] = "link"
  PROVE  Chains' /\ Lists'
  <1>1. ASSUME NEW u \in Owners
        PROVE  OwnChain(u)' = OwnChain(u) /\ ChainOf(u)'
    <2>1. head'[u] = head[u] /\ curr'[u] = curr[u] /\ (pc'[u] = "link" <=> pc[u] = "link")
      BY <1>1
    <2>2. Second(u)' = Second(u) /\ Third(u)' = Third(u) /\ OwnChain(u)' = OwnChain(u)
      BY <2>1 DEF Second, Third, OwnChain
    <2>3. ChainOf(u)
      BY <1>1 DEF Chains
    <2> QED
      BY <2>1, <2>2, <2>3 DEF ChainOf
  <1>2. Chains'
    BY <1>1 DEF Chains
  <1>3. FreeNum' = FreeNum
    BY DEF FreeNum
  <1>4. PICK f : FreeList(f, FreeNum)
    BY DEF Lists
  <1>5. FreeList(f, FreeNum)'
    BY <1>1, <1>3, <1>4 DEF FreeList
  <1> QED
    BY <1>2, <1>5 DEF Lists

\* What a step that touches no request in flight leaves alone
LEMMA InFlightStays ==
  ASSUME TypeOK, Avail, Taken, Used,
         UNCHANGED <<inflight, avail, used, taken, handler, last_seen_used>>,
         \A u \in Tasks : pc[u] \in {"publish", "wait"} /\ posted[u] = 0 =>
           /\ pc'[u] \in {"publish", "wait"} /\ (pc[u] = "wait" => pc'[u] = "wait")
           /\ posted'[u] = 0 /\ head'[u] = head[u] /\ (u \in served' <=> u \in served)
  PROVE  Avail' /\ Taken' /\ Used'
  <1>1. Avail'
    BY SMTT(30) DEF Avail, Waits
  <1>2. Taken'
    BY DEF Taken, Waits
  <1>3. Used'
    BY DEF Used, Waits, Fresh
  <1> QED
    BY <1>1, <1>2, <1>3

\* virtio_blk_request takes a slot.
LEMMA RequestStep ==
  ASSUME BlkInv, NEW t \in Tasks, virtio_blk_request(t)
  PROVE  BlkInv'
  <1> USE DEF BlkInv
  <1>0. /\ pc[t] = "idle" /\ pc' = [pc EXCEPT ![t] = "submit"] /\ served' = served \ {t}
        /\ posted' = [posted EXCEPT ![t] = 0] /\ free_slots > 0 /\ free_slots' = free_slots - 1
        /\ UNCHANGED <<head, curr, desc, free_head_idx, inflight, vq_lock, avail, last_seen_used,
                       handler, victim, used, isr, dev_seen, taken>>
    BY DEF virtio_blk_request, At, Goto, driver, irq
  <1>1. TypeOK'
    <2>1. free_slots' \in 0..Slots
      BY <1>0, Finite, Consts, SMTT(30)
    <2>2. /\ pc' \in [Tasks -> Statements] /\ posted' \in [Tasks -> 0..1]
          /\ served' \subseteq Tasks
      BY <1>0, SMTT(30) DEF TypeOK, Statements
    <2> QED
      BY <1>0, <2>1, <2>2 DEF TypeOK
  <1>2. Rings'
    BY <1>0 DEF Rings, AvailEnd, Window
  <1>3. Lock'
    BY <1>0 DEF Lock, TypeOK
  <1>4. Avail' /\ Taken' /\ Used'
    <2>1. ASSUME NEW u \in Tasks, pc[u] \in {"publish", "wait"}
          PROVE  pc'[u] = pc[u] /\ posted'[u] = posted[u] /\ (u \in served' <=> u \in served)
      BY <1>0, <2>1 DEF TypeOK
    <2> QED
      BY <1>0, <2>1, InFlightStays
  <1>5. Stages'
    BY <1>0 DEF Stages, TypeOK
  <1>6. Owners' = Owners
    BY <1>0 DEF Owners, TypeOK
  <1>7. Chains' /\ Lists'
    <2>1. \A u \in Owners : pc'[u] = "link" <=> pc[u] = "link"
      BY <1>0 DEF Owners, TypeOK
    <2> QED
      BY <1>0, <1>6, <2>1, ChainsStay
  <1>8. Counts'
    <2>1. Busy' = Busy \cup {t} /\ t \notin Busy
      BY <1>0 DEF Busy, TypeOK
    <2>2. Cardinality(Busy') = Cardinality(Busy) + 1
      BY <2>1, Finite, FS_AddElement
    <2> QED
      BY <1>0, <2>2, Finite, Consts, SMTT(30) DEF Counts
  <1> QED
    BY <1>1, <1>2, <1>3, <1>4, <1>5, <1>7, <1>8

\* submit_req publishes the request and unlocks.
LEMMA PublishStep ==
  ASSUME BlkInv, NEW t \in Tasks, Publish(t)
  PROVE  BlkInv'
  <1> USE DEF BlkInv
  <1>0. /\ pc[t] = "publish" /\ pc' = [pc EXCEPT ![t] = "wait"]
        /\ avail' = [avail EXCEPT !.idx = Bump(avail.idx)] /\ vq_lock' = NoTask
        /\ UNCHANGED <<head, curr, posted, free_slots, desc, free_head_idx, inflight,
                       last_seen_used, handler, victim, used, isr, dev_seen, taken, served>>
    BY DEF Publish, At, Goto, irq, device, Bump
  <1>1. /\ avail'.ring = avail.ring /\ avail'.idx = Bump(avail.idx) /\ avail' \in Ring
        /\ AvailEnd' = AvailEnd /\ vq_lock = t
    <2>1. Bump(avail.idx) \in 0..(IdxMod - 1)
      BY Types, BumpIs DEF Indices
    <2>2. avail'.ring = avail.ring /\ avail'.idx = Bump(avail.idx) /\ avail' \in Ring
      BY <1>0, <2>1 DEF TypeOK, Ring
    <2>3. vq_lock = t /\ t # NoTask
      BY <1>0, Consts DEF Lock
    <2> QED
      BY <1>0, <2>2, <2>3 DEF AvailEnd
  <1>2. TypeOK'
    <2>1. pc' \in [Tasks -> Statements]
      BY <1>0 DEF TypeOK, Statements
    <2> QED
      BY <1>0, <1>1, <2>1 DEF TypeOK
  <1>3. Rings'
    BY <1>0, <1>1 DEF Rings, Window
  <1>4. Lock'
    BY <1>0, <1>1, Consts DEF Lock, TypeOK
  <1>5. ASSUME NEW u \in Tasks
        PROVE  pc'[u] = IF u = t THEN "wait" ELSE pc[u]
    BY <1>0 DEF TypeOK
  <1>6. Avail'
    BY <1>0, <1>1, <1>5, SMTT(30) DEF Avail, Waits
  <1>7. Taken' /\ Used'
    BY <1>0, <1>5, SMTT(30) DEF Taken, Used, Waits, Fresh
  <1>8. Stages'
    BY <1>0, <1>5, SMTT(30) DEF Stages
  <1>9. Owners' = Owners
    BY <1>0, <1>5 DEF Owners
  <1>10. Chains' /\ Lists'
    <2>1. \A u \in Owners : pc'[u] = "link" <=> pc[u] = "link"
      BY <1>0, <1>5, SMTT(30) DEF Owners
    <2> QED
      BY <1>0, <1>9, <2>1, ChainsStay
  <1>11. Counts'
    <2>1. Busy' = Busy
      BY <1>0, <1>5, SMTT(30) DEF Busy
    <2> QED
      BY <1>0, <2>1 DEF Counts
  <1> QED
    BY <1>2, <1>3, <1>4, <1>6, <1>7, <1>8, <1>10, <1>11

\* The request goes on after its completion was posted.
LEMMA CompletedStep ==
  ASSUME BlkInv, NEW t \in Tasks, Completed(t)
  PROVE  BlkInv'
  <1> USE DEF BlkInv
  <1>0. /\ pc[t] = "wait" /\ posted[t] > 0 /\ pc' = [pc EXCEPT ![t] = "release"]
        /\ posted' = [posted EXCEPT ![t] = @ - 1]
        /\ UNCHANGED <<head, curr, free_slots, desc, free_head_idx, inflight, vq_lock, avail,
                       last_seen_used, handler, victim, used, isr, dev_seen, taken, served>>
    BY DEF Completed, At, Goto, driver, irq, device
  <1>1. TypeOK'
    <2>1. pc' \in [Tasks -> Statements]
      BY <1>0 DEF TypeOK, Statements
    <2>2. posted[t] - 1 \in 0..1
      BY <1>0, Types, SMTT(30)
    <2>3. posted' \in [Tasks -> 0..1]
      BY <1>0, <2>2 DEF TypeOK
    <2> QED
      BY <1>0, <2>1, <2>3 DEF TypeOK
  <1>2. ASSUME NEW u \in Tasks
        PROVE  pc'[u] = (IF u = t THEN "release" ELSE pc[u]) /\ (u # t => posted'[u] = posted[u])
    BY <1>0 DEF TypeOK
  <1>3. Rings'
    BY <1>0 DEF Rings, AvailEnd, Window
  <1>4. Lock'
    BY <1>0, <1>2, SMTT(30) DEF Lock
  <1>5. Avail' /\ Taken' /\ Used'
    <2>1. \A u \in Tasks : pc[u] \in {"publish", "wait"} /\ posted[u] = 0 =>
            pc'[u] = pc[u] /\ posted'[u] = posted[u]
      BY <1>0, <1>2, SMTT(30)
    <2> QED
      BY <1>0, <2>1, InFlightStays
  <1>6. Stages'
    BY <1>0, <1>2, SMTT(30) DEF Stages
  <1>7. Owners' = Owners
    BY <1>0, <1>2 DEF Owners
  <1>8. Chains' /\ Lists'
    <2>1. \A u \in Owners : pc'[u] = "link" <=> pc[u] = "link"
      BY <1>0, <1>2, SMTT(30) DEF Owners
    <2> QED
      BY <1>0, <1>7, <2>1, ChainsStay
  <1>9. Counts'
    <2>1. Busy' = Busy
      BY <1>0, <1>2, SMTT(30) DEF Busy
    <2> QED
      BY <1>0, <2>1 DEF Counts
  <1> QED
    BY <1>1, <1>3, <1>4, <1>5, <1>6, <1>8, <1>9

\* The request gives its slot back and returns.
LEMMA PostSlotStep ==
  ASSUME BlkInv, NEW t \in Tasks, PostSlot(t)
  PROVE  BlkInv'
  <1> USE DEF BlkInv
  <1>0. /\ pc[t] = "post" /\ pc' = [pc EXCEPT ![t] = "idle"] /\ free_slots' = free_slots + 1
        /\ head' = [head EXCEPT ![t] = 0] /\ curr' = [curr EXCEPT ![t] = 0]
        /\ UNCHANGED <<posted, desc, free_head_idx, inflight, vq_lock, avail,
                       last_seen_used, handler, victim, used, isr, dev_seen, taken, served>>
    BY DEF PostSlot, At, Goto, driver, irq, device
  <1>1. ASSUME NEW u \in Tasks
        PROVE  pc'[u] = (IF u = t THEN "idle" ELSE pc[u])
               /\ (u # t => head'[u] = head[u] /\ curr'[u] = curr[u])
    BY <1>0 DEF TypeOK
  <1>2. Counts'
    <2>1. Busy' = Busy \ {t} /\ t \in Busy
      BY <1>0, <1>1 DEF Busy
    <2>2. Cardinality(Busy') = Cardinality(Busy) - 1
      BY <2>1, Finite, FS_RemoveElement
    <2> QED
      BY <1>0, <2>2, Finite, Consts, SMTT(30) DEF Counts
  <1>3. TypeOK'
    <2>1. pc' \in [Tasks -> Statements]
      BY <1>0 DEF TypeOK, Statements
    <2>2. head' \in [Tasks -> Descs] /\ curr' \in [Tasks -> Descs]
      <3>1. 0 \in Descs
        BY Consts, SMTT(30)
      <3> QED
        BY <1>0, <3>1 DEF TypeOK
    <2>3. free_slots' \in 0..Slots
      <3>1. t \in Busy
        BY <1>0 DEF Busy
      <3>2. Cardinality(Busy) >= 1
        BY <3>1, Finite, FS_EmptySet, SMTT(30)
      <3> QED
        BY <1>0, <3>2, Finite, Consts, SMTT(30) DEF Counts
    <2> QED
      BY <1>0, <2>1, <2>2, <2>3 DEF TypeOK
  <1>4. Rings'
    BY <1>0 DEF Rings, AvailEnd, Window
  <1>5. Lock'
    BY <1>0, <1>1, SMTT(30) DEF Lock
  <1>6. Avail' /\ Taken' /\ Used'
    <2>1. \A u \in Tasks : pc[u] \in {"publish", "wait"} /\ posted[u] = 0 =>
            pc'[u] = pc[u] /\ head'[u] = head[u]
      BY <1>0, <1>1
    <2> QED
      BY <1>0, <2>1, InFlightStays
  <1>7. Stages'
    BY <1>0, <1>1, SMTT(30) DEF Stages
  <1>8. Owners' = Owners
    BY <1>0, <1>1, SMTT(30) DEF Owners
  <1>9. Chains' /\ Lists'
    <2>1. \A u \in Owners : /\ head'[u] = head[u] /\ curr'[u] = curr[u]
                            /\ pc'[u] = "link" <=> pc[u] = "link"
      BY <1>0, <1>1 DEF Owners
    <2> QED
      BY <1>0, <1>8, <2>1, ChainsStay
  <1> QED
    BY <1>2, <1>3, <1>4, <1>5, <1>6, <1>7, <1>9
-----------------------------------------------------------------------------
\* The handler and the device change no chain and no slot.
LEMMA TasksStay ==
  ASSUME TypeOK, Chains, Lists, Counts,
         UNCHANGED <<pc, head, curr, desc, free_head_idx, free_slots>>
  PROVE  Chains' /\ Lists' /\ Counts'
  <1>1. Owners' = Owners /\ Busy' = Busy
    BY DEF Owners, Busy
  <1>2. Chains' /\ Lists'
    BY <1>1, ChainsStay
  <1> QED
    BY <1>1, <1>2 DEF Counts

\* The interrupt begins, or its handler returns: nothing is seen or posted.
LEMMA HandlerStep ==
  ASSUME BlkInv, virtio_irq_handler \/ IrqReturn
  PROVE  BlkInv'
  <1> USE DEF BlkInv
  <1>0. /\ handler # "posted" /\ handler' \in {"none", "loop"} /\ isr' \in BOOLEAN
        /\ victim' \in Tasks \cup {NoTask}
        /\ UNCHANGED <<pc, head, curr, posted, free_slots, desc, free_head_idx, inflight, vq_lock,
                       avail, last_seen_used, used, dev_seen, taken, served>>
    <2>1. CASE virtio_irq_handler
      BY <2>1 DEF virtio_irq_handler, driver
    <2>2. CASE IrqReturn
      BY <2>2 DEF IrqReturn, driver, device, TypeOK
    <2> QED
      BY <2>1, <2>2
  <1>1. TypeOK'
    BY <1>0 DEF TypeOK
  <1>2. Rings'
    BY <1>0 DEF Rings, AvailEnd, Window
  <1>3. Lock' /\ Stages'
    BY <1>0 DEF Lock, Stages
  <1>4. Avail' /\ Taken'
    BY <1>0 DEF Avail, Taken, Waits
  <1>5. Fresh' = Fresh
    BY <1>0 DEF Fresh
  <1>6. Used'
    BY <1>0, <1>5 DEF Used, Waits
  <1>7. Chains' /\ Lists' /\ Counts'
    BY <1>0, TasksStay
  <1> QED
    BY <1>1, <1>2, <1>3, <1>4, <1>6, <1>7

\* What the handler finds at last_seen_used while there is something to see
LEMMA SeenWaits ==
  ASSUME BlkInv, handler = "loop", last_seen_used # used.idx
  PROVE  /\ last_seen_used % Num \in Fresh /\ Seen \in Descs
         /\ Waits(inflight[Seen], Seen) /\ pc[inflight[Seen]] = "wait"
         /\ inflight[Seen] \in served
  <1>1. last_seen_used % Num \in Descs
    BY Types, PlaceType DEF BlkInv
  <1>2. Seen # Stale
    BY Types, WindowEnds DEF BlkInv, Rings, Seen
  <1>3. last_seen_used % Num \in Fresh
    BY <1>1, <1>2 DEF Fresh, Seen
  <1>4. Seen \in Descs
    BY <1>1, <1>2, Types DEF BlkInv, Seen
  <1> QED
    BY <1>3, <1>4 DEF BlkInv, Used, Seen

\* The handler posts the completion of the request it finds.
LEMMA PostCompletionStep ==
  ASSUME BlkInv, PostCompletion
  PROVE  BlkInv'
  <1> DEFINE t == inflight[Seen]
             p == last_seen_used % Num
  <1> USE DEF BlkInv
  <1>0. /\ handler = "loop" /\ last_seen_used # used.idx /\ handler' = "posted"
        /\ posted' = [posted EXCEPT ![t] = @ + 1]
        /\ UNCHANGED <<pc, head, curr, free_slots, desc, free_head_idx, inflight, vq_lock, avail,
                       last_seen_used, victim, used, isr, dev_seen, taken, served>>
    BY DEF PostCompletion, driver, device
  <1>1. /\ p \in Fresh /\ t \in Tasks /\ head[t] = Seen /\ posted[t] = 0 /\ pc[t] = "wait"
        /\ t \in served /\ Seen = used.ring[p]
    BY <1>0, SeenWaits DEF Waits, Seen
  <1> HIDE DEF t, p
  <1>2. posted' \in [Tasks -> 0..1] /\ posted'[t] = 1
        /\ \A u \in Tasks : u # t => posted'[u] = posted[u]
    BY <1>0, <1>1, SMTT(30) DEF TypeOK
  <1>3. TypeOK'
    BY <1>0, <1>2 DEF TypeOK
  <1>4. Rings'
    BY <1>0 DEF Rings, AvailEnd, Window
  <1>5. Lock'
    BY <1>0 DEF Lock
  <1>6. Stages'
    BY <1>0, <1>1, <1>2 DEF Stages
  <1>7. Avail'
    BY <1>0, <1>1, <1>2, SMTT(30) DEF Avail, Waits
  <1>8. Taken'
    BY <1>0, <1>1, <1>2 DEF Taken, Waits
  <1>9. Used'
    <2>1. Fresh' = Fresh \ {p}
      BY <1>0 DEF Fresh, p
    <2>2. ASSUME NEW j \in Fresh, j # p
          PROVE  inflight[used.ring[j]] # t
      BY <1>1, <2>2, SMTT(30) DEF Used, Waits
    <2> QED
      BY <1>0, <1>2, <2>1, <2>2, SMTT(30) DEF Used, Waits
  <1>10. Chains' /\ Lists' /\ Counts'
    BY <1>0, TasksStay
  <1> QED
    BY <1>3, <1>4, <1>5, <1>6, <1>7, <1>8, <1>9, <1>10

\* The handler goes on to the next entry of used.
LEMMA AdvanceStep ==
  ASSUME BlkInv, Advance
  PROVE  BlkInv'
  <1> DEFINE p == last_seen_used % Num
  <1> USE DEF BlkInv
  <1>0. /\ handler = "posted" /\ handler' = "loop" /\ last_seen_used' = Bump(last_seen_used)
        /\ used' = [used EXCEPT !.ring[p] = Stale]
        /\ UNCHANGED <<pc, head, curr, posted, free_slots, desc, free_head_idx, inflight, vq_lock,
                       avail, victim, isr, dev_seen, taken, served>>
    BY DEF Advance, driver, Bump
  <1>1. p \in Descs /\ Bump(last_seen_used) \in Indices
    BY Types, PlaceType, BumpIs
  <1>2. used'.ring = [used.ring EXCEPT ![p] = Stale] /\ used'.idx = used.idx /\ used' \in Ring
    BY <1>0, <1>1 DEF TypeOK, Ring
  <1>3. TypeOK'
    BY <1>0, <1>1, <1>2 DEF TypeOK, Indices
  <1>4. Rings'
    <2>1. Window([used.ring EXCEPT ![p] = Stale], Bump(last_seen_used), used.idx)
      BY <1>0, Types, Pop DEF Rings
    <2>2. Window(used'.ring, last_seen_used', used'.idx)
      BY <1>0, <1>2, <2>1
    <2>3. AvailEnd' = AvailEnd
      BY <1>0 DEF AvailEnd
    <2> QED
      BY <1>0, <2>2, <2>3 DEF Rings, Window
  <1>5. Lock' /\ Stages'
    BY <1>0 DEF Lock, Stages
  <1>6. Avail' /\ Taken'
    BY <1>0 DEF Avail, Taken, Waits
  <1> HIDE DEF p
  <1>7. Used'
    <2>1. \A j \in Descs : used'.ring[j] = IF j = p THEN Stale ELSE used.ring[j]
      BY <1>1, <1>2, Types
    <2>2. Fresh' = Fresh /\ p \notin Fresh
      BY <1>0, <2>1 DEF Fresh, p
    <2>3. \A j \in Fresh : used'.ring[j] = used.ring[j]
      BY <2>1, <2>2 DEF Fresh
    <2> QED
      BY <1>0, <2>2, <2>3, SMTT(30) DEF Used, Waits
  <1>8. Chains' /\ Lists' /\ Counts'
    BY <1>0, TasksStay
  <1> QED
    BY <1>3, <1>4, <1>5, <1>6, <1>7, <1>8

\* The device reads no entry of avail that is not published.
LEMMA TakeIsPublished ==
  ASSUME BlkInv, dev_seen # avail.idx
  PROVE  /\ dev_seen # AvailEnd
         /\ vq_lock # NoTask => /\ Bump(dev_seen) # AvailEnd
                                /\ avail.idx % Num # dev_seen % Num
  <1>1. CASE vq_lock = NoTask
    BY <1>1 DEF AvailEnd
  <1>2. CASE vq_lock # NoTask
    <2>1. AvailEnd = Bump(avail.idx) /\ dev_seen # AvailEnd
      BY <1>2 DEF AvailEnd, BlkInv, Rings
    <2>2. dev_seen \in Indices /\ avail.idx \in Indices /\ AvailEnd \in Indices
      BY Types DEF BlkInv
    <2> DEFINE x == dev_seen
               y == avail.idx
    <2>3. /\ Bump(x) = (IF x + 1 = IdxMod THEN 0 ELSE x + 1)
          /\ Bump(y) = (IF y + 1 = IdxMod THEN 0 ELSE y + 1)
          /\ x \in 0..(IdxMod - 1) /\ y \in 0..(IdxMod - 1) /\ x # y
      BY <2>2, BumpIs DEF Indices
    <2>4. Bump(dev_seen) # AvailEnd
      <3> HIDE DEF x, y
      <3>1. Bump(x) # Bump(y)
        BY <2>3, Consts, SMTT(30)
      <3> QED
        BY <2>1, <3>1 DEF x, y
    <2>5. ASSUME avail.idx % Num = dev_seen % Num
          PROVE  FALSE
      <3>1. dev_seen % Num \in Descs
        BY <2>2, PlaceType
      <3>2. AvailEnd % Num = NextPlace(dev_seen % Num)
        BY <2>1, <2>2, <2>5, BumpIs
      <3>3. RingDist(dev_seen % Num, AvailEnd % Num) = 1
        BY <3>1, <3>2, Consts, SMTT(30) DEF RingDist, NextPlace
      <3>4. IdxDist(dev_seen, AvailEnd) = 1
        BY <3>3 DEF BlkInv, Rings, Window
      <3>5. Bump(dev_seen) = AvailEnd
        BY <2>2, <2>3, <3>4, Consts, SMTT(30) DEF IdxDist, Indices
      <3> QED
        BY <2>4, <3>5
    <2> QED
      BY <2>1, <2>4, <2>5
  <1> QED
    BY <1>1, <1>2

\* The device takes a request.
LEMMA TakeStep ==
  ASSUME BlkInv, DeviceTake
  PROVE  BlkInv'
  <1> DEFINE p == dev_seen % Num
             h == avail.ring[p]
             t == inflight[h]
  <1> USE DEF BlkInv
  <1>0. /\ dev_seen # avail.idx /\ dev_seen' = Bump(dev_seen)
        /\ taken' = taken \cup {[head |-> h, req |-> desc[h].req]}
        /\ avail' = [avail EXCEPT !.ring[p] = Stale]
        /\ UNCHANGED <<pc, head, curr, posted, free_slots, desc, free_head_idx, inflight, vq_lock,
                       last_seen_used, handler, victim, used, isr, served>>
    BY DEF DeviceTake, irq, Bump
  <1>1. p \in Descs /\ Bump(dev_seen) \in Indices /\ avail.idx % Num \in Descs
    BY Types, PlaceType, BumpIs
  <1>2. dev_seen # AvailEnd /\ (vq_lock # NoTask => Bump(dev_seen) # AvailEnd /\ avail.idx % Num # p)
    BY <1>0, TakeIsPublished
  <1>3. h \in Descs
    <2>1. h # Stale
      BY <1>2, Types, WindowEnds, SMTT(30) DEF Rings
    <2> QED
      BY <1>1, <2>1, Types
  <1>4. /\ Waits(t, h) /\ t \notin served /\ pc[t] \in {"publish", "wait"}
        /\ \A r \in taken : r.req # t
    <2>1. h # Stale
      BY <1>3, Consts, SMTT(30)
    <2> QED
      BY <1>1, <2>1 DEF Avail
  <1>5. pc[t] = "wait"
    <2>1. ASSUME pc[t] = "publish"
          PROVE  FALSE
      <3>1. vq_lock = t /\ avail.ring[avail.idx % Num] = h /\ t # NoTask
        BY <1>4, <2>1, Consts DEF Lock, Waits
      <3>2. h # Stale
        BY <1>3, Consts, SMTT(30)
      <3>3. avail.idx % Num = p
        BY <1>1, <3>1, <3>2 DEF Avail
      <3> QED
        BY <1>2, <3>1, <3>3
    <2> QED
      BY <1>4, <2>1
  <1>6. desc[h].req = t
    <2>1. t \in Owners /\ h \in OwnChain(t)
      BY <1>4, <1>5 DEF Owners, OwnChain, Waits
    <2> QED
      BY <2>1 DEF Chains, ChainOf
  <1>7. /\ avail'.ring = [avail.ring EXCEPT ![p] = Stale] /\ avail'.idx = avail.idx
        /\ avail' \in Ring /\ AvailEnd' = AvailEnd
    <2>1. /\ avail'.ring = [avail.ring EXCEPT ![p] = Stale] /\ avail'.idx = avail.idx
          /\ avail' \in Ring
      BY <1>0, <1>1 DEF TypeOK, Ring
    <2> QED
      BY <1>0, <2>1, SMTT(30) DEF AvailEnd
  <1>8. \A j \in Descs : avail'.ring[j] = IF j = p THEN Stale ELSE avail.ring[j]
    BY <1>7, Types
  <1>9. TypeOK'
    <2>1. taken' \subseteq [head : Descs, req : Tasks]
      <3>1. h \in Descs /\ desc[h].req \in Tasks
        BY <1>3, <1>4, <1>6 DEF Waits
      <3> HIDE DEF h, t
      <3>2. taken \subseteq [head : Descs, req : Tasks]
        BY DEF TypeOK
      <3>3. [head |-> h, req |-> desc[h].req] \in [head : Descs, req : Tasks]
        BY <3>1
      <3> QED
        BY <1>0, <3>2, <3>3
    <2> QED
      BY <1>0, <1>1, <1>7, <2>1 DEF TypeOK, Indices
  <1>10. Rings'
    <2>1. Window([avail.ring EXCEPT ![p] = Stale], Bump(dev_seen), AvailEnd)
      BY <1>2, Types, Pop DEF Rings
    <2>2. Window(avail'.ring, dev_seen', AvailEnd')
      BY <1>0, <1>7, <2>1
    <2> QED
      BY <1>0, <1>2, <1>7, <2>2 DEF Rings, Window
  <1> HIDE DEF p, h, t
  <1>11. Lock'
    BY <1>0, <1>1, <1>2, <1>7, <1>8, Consts, SMTT(30) DEF Lock
  <1>12. Stages'
    BY <1>0 DEF Stages
  <1>13. Avail'
    <2>1. ASSUME NEW j \in Descs, avail'.ring[j] # Stale
          PROVE  j # p /\ avail'.ring[j] = avail.ring[j] /\ inflight[avail.ring[j]] # t
      <3>1. j # p /\ avail'.ring[j] = avail.ring[j]
        BY <1>8, <2>1
      <3>2. avail.ring[p] = h
        BY DEF h, p
      <3> QED
        BY <1>1, <1>4, <2>1, <3>1, <3>2, SMTT(30) DEF Avail, Waits
    <2>2. \A r \in taken' : r \in taken \/ r.req = t
      BY <1>0, <1>6, SMTT(30)
    <2> QED
      BY <1>0, <2>1, <2>2, SMTT(30) DEF Avail, Waits
  <1>14. Taken'
    <2>1. \A r \in taken' : r \in taken \/ (r.req = t /\ r.head = h)
      BY <1>0, <1>6, SMTT(30)
    <2> QED
      BY <1>0, <1>4, <1>5, <2>1, SMTT(30) DEF Taken, Waits
  <1>15. Used'
    BY <1>0 DEF Used, Waits, Fresh
  <1>16. Chains' /\ Lists' /\ Counts'
    BY <1>0, TasksStay
  <1> QED
    BY <1>9, <1>10, <1>11, <1>12, <1>13, <1>14, <1>15, <1>16

\* The device serves a request.
LEMMA ServeStep ==
  ASSUME BlkInv, NEW r \in taken, DeviceServe(r)
  PROVE  BlkInv'
  <1> DEFINE q == used.idx % Num
             t == r.req
  <1> USE DEF BlkInv
  <1>0. /\ taken' = taken \ {r} /\ served' = served \cup {t} /\ isr' = TRUE
        /\ used' = [ring |-> [used.ring EXCEPT ![q] = r.head], idx |-> Bump(used.idx)]
        /\ UNCHANGED <<pc, head, curr, posted, free_slots, desc, free_head_idx, inflight, vq_lock,
                       avail, last_seen_used, handler, victim, dev_seen>>
    BY DEF DeviceServe, driver, irq, Bump
  <1>1. /\ t \in Tasks /\ r.head \in Descs /\ q \in Descs /\ Bump(used.idx) \in Indices
        /\ last_seen_used % Num \in Descs
    BY Types, PlaceType, BumpIs
  <1>2. Waits(t, r.head) /\ pc[t] = "wait" /\ t \notin served
    BY DEF Taken
  <1>3. used'.ring = [used.ring EXCEPT ![q] = r.head] /\ used'.idx = Bump(used.idx)
    BY <1>0
  <1>4. \A j \in Descs : used'.ring[j] = IF j = q THEN r.head ELSE used.ring[j]
    BY <1>3, Types
  <1>5. TypeOK'
    <2>1. used' \in Ring
      BY <1>0, <1>1, Types DEF Ring, Indices
    <2>2. taken' \subseteq [head : Descs, req : Tasks]
      BY <1>0 DEF TypeOK
    <2>3. served' \subseteq Tasks
      BY <1>0, <1>1 DEF TypeOK
    <2> QED
      BY <1>0, <2>1, <2>2, <2>3 DEF TypeOK
  <1>6. used.ring[q] = Stale /\ (handler = "posted" => q # last_seen_used % Num)
    <2>1. used.ring[q] = Stale
          /\ (last_seen_used # used.idx => used.ring[last_seen_used % Num] # Stale)
      BY Types, WindowEnds DEF Rings
    <2> QED
      BY <2>1 DEF Rings
  <1>7. Rings'
    <2>1. IdxDist(last_seen_used, used.idx) + 1 < Num
      BY UsedHasRoom
    <2>2. /\ Window([used.ring EXCEPT ![q] = r.head], last_seen_used, Bump(used.idx))
          /\ last_seen_used # Bump(used.idx)
      BY <1>1, <2>1, Types, Push DEF Rings
    <2>3. Window(used'.ring, last_seen_used', used'.idx) /\ last_seen_used' # used'.idx
      BY <1>0, <1>3, <2>2
    <2>4. AvailEnd' = AvailEnd
      BY <1>0 DEF AvailEnd
    <2> QED
      BY <1>0, <2>3, <2>4 DEF Rings, Window
  <1> HIDE DEF q, t
  <1>8. Lock'
    BY <1>0 DEF Lock
  <1>9. Stages'
    BY <1>0, <1>2 DEF Stages
  <1>10. Avail'
    <2>1. r.req = t
      BY DEF t
    <2> QED
      BY <1>0, <2>1 DEF Avail, Waits
  <1>11. Taken'
    <2>1. ASSUME NEW s \in taken, s.req = t
          PROVE  s = r
      <3>1. s.head = r.head
        BY <1>2, <2>1 DEF Taken, Waits
      <3> QED
        BY <2>1, <3>1, SMTT(30) DEF TypeOK, t
    <2> QED
      BY <1>0, <2>1 DEF Taken, Waits
  <1>12. Used'
    <2>1. Fresh' = Fresh \cup {q} /\ q \notin Fresh
      <3>1. r.head # Stale
        BY <1>1, Consts, SMTT(30)
      <3> QED
        <4>1. ASSUME NEW j \in Descs, j # q
              PROVE  j \in Fresh' <=> j \in Fresh
          BY <1>0, <1>4, <4>1 DEF Fresh
        <4>2. q \in Fresh' /\ q \notin Fresh
          BY <1>0, <1>1, <1>4, <1>6, <3>1, SMTT(30) DEF Fresh
        <4>3. Fresh' \subseteq Descs /\ Fresh \subseteq Descs
          BY DEF Fresh
        <4> QED
          BY <1>1, <4>1, <4>2, <4>3
    <2>2. \A j \in Fresh : used'.ring[j] = used.ring[j]
      BY <1>4, <2>1 DEF Fresh
    <2>3. used'.ring[q] = r.head
      BY <1>1, <1>4
    <2>4. ASSUME NEW j \in Fresh
          PROVE  used.ring[j] # r.head /\ inflight[used.ring[j]] # t
      BY <1>2 DEF Used, Waits
    <2> QED
      BY <1>0, <1>2, <2>1, <2>2, <2>3, <2>4, SMTT(30) DEF Used, Waits
  <1>13. Chains' /\ Lists' /\ Counts'
    BY <1>0, TasksStay, ZenonT(40)
  <1> QED
    BY <1>5, <1>7, <1>8, <1>9, <1>10, <1>11, <1>12, <1>13
-----------------------------------------------------------------------------
\* A chain none of whose descriptors is written stays as it is.
LEMMA ChainKept ==
  ASSUME NEW u, ChainOf(u), head'[u] = head[u], curr'[u] = curr[u], pc'[u] = pc[u],
         \A i \in OwnChain(u) : desc'[i] = desc[i]
  PROVE  OwnChain(u)' = OwnChain(u) /\ ChainOf(u)'
  <1>1. /\ desc'[head[u]] = desc[head[u]] /\ desc'[Second(u)] = desc[Second(u)]
        /\ desc'[Third(u)] = desc[Third(u)]
    BY DEF OwnChain, Second, Third
  <1>2. Second(u)' = Second(u) /\ Third(u)' = Third(u)
    BY <1>1 DEF Second, Third
  <1>3. OwnChain(u)' = OwnChain(u)
    BY <1>1 DEF OwnChain, Second, Third
  <1>4. \A i \in OwnChain(u) : desc'[i].req = u
    BY DEF ChainOf
  <1> QED
    BY <1>1, <1>2, <1>3, <1>4 DEF ChainOf

\* The descriptors of an owner
LEMMA OwnChainIs ==
  ASSUME TypeOK, NEW u \in Tasks
  PROVE  /\ OwnChain(u) = {head[u], Second(u), Third(u)}
         /\ head[u] \in Descs /\ Second(u) \in Descs /\ Third(u) \in Descs
  BY Types DEF OwnChain, Second, Third

\* A request is at a statement at which its chain is its own.
LEMMA WaitingOwns ==
  ASSUME NEW u \in Tasks, pc[u] \in {"publish", "wait", "release", "link"}
  PROVE  u \in Owners /\ head[u] \in OwnChain(u)
  BY DEF Owners, OwnChain

\* release_desc_chain clears the flags of the first two descriptors of the chain.
LEMMA ReleaseStep ==
  ASSUME BlkInv, NEW t \in Tasks, release_desc_chain(t)
  PROVE  BlkInv'
  <1> DEFINE S == {head[t], Second(t)}
  <1> USE DEF BlkInv
  <1>1. pc[t] = "release" /\ t \in Owners /\ ChainOf(t)
    BY DEF release_desc_chain, At, Owners, Chains
  <1>2. /\ pc' = [pc EXCEPT ![t] = "link"]
        /\ desc' = [i \in Descs |-> IF i \in S THEN [desc[i] EXCEPT !.flags = "NONE"] ELSE desc[i]]
        /\ curr' = [curr EXCEPT ![t] = Third(t)]
        /\ UNCHANGED <<head, posted, free_slots, free_head_idx, inflight, vq_lock, avail,
                       last_seen_used, handler, victim, used, isr, dev_seen, taken, served>>
    <2> DEFINE c == Chain(head[t])
               n == IF desc[c[1]].flags # "NEXT" THEN 1 ELSE IF desc[c[2]].flags # "NEXT" THEN 2 ELSE 3
               passed == {c[i] : i \in 1..(n - 1)}
    <2>1. c[1] = head[t] /\ c[2] = Second(t) /\ c[3] = Third(t)
      BY DEF Chain, Second, Third
    <2> HIDE DEF c
    <2>2. n = 3
      BY <1>1, <2>1 DEF ChainOf
    <2>3. passed = S
      <3>1. 1..(n - 1) = {1, 2}
        BY <2>2, SMTT(30)
      <3> QED
        BY <2>1, <3>1
    <2>4. c[n] = Third(t)
      BY <2>1, <2>2
    <2> HIDE DEF n, passed, S
    <2> QED
      BY <2>3, <2>4 DEF release_desc_chain, Goto, irq, device, c, n, passed
  <1>3. ASSUME NEW i \in Descs
        PROVE  /\ desc'[i].next = desc[i].next /\ desc'[i].req = desc[i].req
               /\ i \notin S => desc'[i] = desc[i]
               /\ desc'[i] \in [req : Tasks \cup {NoTask}, flags : {"NONE", "NEXT", "WRITE"},
                                next : Descs]
    <2>1. desc[i] \in [req : Tasks \cup {NoTask}, flags : {"NONE", "NEXT", "WRITE"}, next : Descs]
      BY DEF TypeOK
    <2>2. desc'[i] = IF i \in S THEN [desc[i] EXCEPT !.flags = "NONE"] ELSE desc[i]
      BY <1>2
    <2> HIDE DEF S
    <2> QED
      BY <2>1, <2>2
  <1>4. ASSUME NEW u \in Tasks
        PROVE  /\ pc'[u] = (IF u = t THEN "link" ELSE pc[u])
               /\ curr'[u] = (IF u = t THEN Third(t) ELSE curr[u])
    BY <1>2 DEF TypeOK
  <1>5. TypeOK'
    <2>1. pc' \in [Tasks -> Statements]
      BY <1>2 DEF TypeOK, Statements
    <2>2. curr' \in [Tasks -> Descs]
      BY <1>2, OwnChainIs DEF TypeOK
    <2>3. desc' \in [Descs -> [req : Tasks \cup {NoTask}, flags : {"NONE", "NEXT", "WRITE"},
                               next : Descs]]
      BY <1>2, <1>3
    <2> QED
      BY <1>2, <2>1, <2>2, <2>3 DEF TypeOK
  <1>6. Rings'
    BY <1>2 DEF Rings, AvailEnd, Window
  <1>7. Lock'
    BY <1>1, <1>2, <1>4, SMTT(30) DEF Lock
  <1>8. Stages'
    BY <1>1, <1>2, <1>4, SMTT(30) DEF Stages
  <1>9. Avail' /\ Taken' /\ Used'
    <2>1. \A u \in Tasks : pc[u] \in {"publish", "wait"} /\ posted[u] = 0 => pc'[u] = pc[u]
      BY <1>1, <1>4
    <2> QED
      BY <1>2, <2>1, InFlightStays
  <1>10. Owners' = Owners /\ Busy' = Busy
    BY <1>1, <1>4 DEF Owners, Busy
  <1>11. Counts'
    BY <1>2, <1>10 DEF Counts
  <1>12. OwnChain(t)' = OwnChain(t) /\ ChainOf(t)'
    <2>1. Second(t)' = Second(t) /\ Third(t)' = Third(t) /\ OwnChain(t)' = OwnChain(t)
      <3>1. head[t] \in Descs /\ Second(t) \in Descs /\ head'[t] = head[t]
        BY <1>2, OwnChainIs
      <3>2. Second(t)' = Second(t)
        BY <1>3, <3>1 DEF Second
      <3>3. Third(t)' = Third(t)
        BY <1>3, <3>1, <3>2 DEF Third
      <3> QED
        BY <3>1, <3>2, <3>3 DEF OwnChain, Second, Third
    <2>2. \A i \in OwnChain(t) : desc'[i].req = t
      BY <1>1, <1>3, OwnChainIs, SMTT(30) DEF ChainOf
    <2> QED
      BY <1>1, <1>2, <1>4, <2>1, <2>2 DEF ChainOf
  <1>13. ASSUME NEW u \in Owners, u # t
         PROVE  OwnChain(u)' = OwnChain(u) /\ ChainOf(u)'
    <2>1. u \in Tasks
      BY DEF Owners
    <2>2. \A i \in OwnChain(u) : i \in Descs /\ i \notin S
      BY <1>1, <1>13, <2>1, OwnChainIs DEF Chains
    <2> QED
      BY <1>2, <1>3, <1>4, <1>13, <2>1, <2>2, ChainKept, SMTT(30) DEF Chains
  <1>14. Chains'
    BY <1>10, <1>12, <1>13, SMTT(30) DEF Chains
  <1>15. Lists'
    <2>1. PICK f : FreeList(f, FreeNum)
      BY DEF Lists
    <2>2. FreeNum' = FreeNum
      BY <1>10 DEF FreeNum
    <2>3. \A u \in Owners : OwnChain(u)' = OwnChain(u)
      BY <1>12, <1>13
    <2> DEFINE n == FreeNum
    <2> HIDE DEF n
    <2>4. FreeList(f, n)
      BY <2>1 DEF n
    <2>5. /\ n > 0 => f[0] = free_head_idx'
          /\ \A i, j \in 0..(n - 1) : f[i] = f[j] => i = j
          /\ \A i \in 0..(n - 1) : \A u \in Owners' : f[i] \notin OwnChain(u)'
      BY <1>2, <1>10, <2>3, <2>4 DEF FreeList
    <2>6. ASSUME NEW i \in 0..(n - 2)
          PROVE  desc'[f[i]].next = f[i + 1]
      <3>1. n \in Int
        BY Finite, Consts, SMTT(30) DEF n, FreeNum, VIRTIO_REQ_NUM_DESC
      <3>2. i \in 0..(n - 1)
        BY <3>1, SMTT(30)
      <3>3. f[i] \in Descs
        BY <2>4, <3>2 DEF FreeList
      <3> QED
        BY <1>3, <2>4, <3>3 DEF FreeList
    <2>7. FreeList(f, n)'
      <3>1. n' = n
        BY <2>2 DEF n
      <3>2. f \in [0..(n - 1) -> Descs]
        BY <2>4 DEF FreeList
      <3> QED
        BY <2>5, <2>6, <3>1, <3>2 DEF FreeList
    <2> QED
      BY <2>7 DEF Lists, n
  <1> QED
    BY <1>5, <1>6, <1>7, <1>8, <1>9, <1>11, <1>14, <1>15

\* How many descriptors the free list has
LEMMA FreeNumIs ==
  ASSUME TypeOK, Counts
  PROVE  FreeNum = 3 * (Slots - Cardinality(Owners)) /\ FreeNum \in Nat
  BY Finite, Consts, SMTT(30) DEF FreeNum, VIRTIO_REQ_NUM_DESC

\* The critical section of release_desc_chain puts the chain before the free list.
LEMMA LinkStep ==
  ASSUME BlkInv, NEW t \in Tasks, Link(t)
  PROVE  BlkInv'
  <1> DEFINE a == head[t]
             b == Second(t)
             c == Third(t)
  <1> USE DEF BlkInv
  <1>1. pc[t] = "link" /\ t \in Owners /\ ChainOf(t)
    BY DEF Link, At, Owners, Chains
  <1>2. /\ pc' = [pc EXCEPT ![t] = "post"] /\ free_head_idx' = a
        /\ desc' = [desc EXCEPT ![c].next = free_head_idx]
        /\ UNCHANGED <<head, curr, posted, free_slots, inflight, vq_lock, avail,
                       last_seen_used, handler, victim, used, isr, dev_seen, taken, served>>
    BY <1>1 DEF Link, Goto, irq, device, ChainOf
  <1>3. /\ a \in Descs /\ b \in Descs /\ c \in Descs /\ a # b /\ a # c /\ b # c
        /\ OwnChain(t) = {a, b, c} /\ desc[a].next = b /\ desc[b].next = c
    BY <1>1, OwnChainIs DEF ChainOf, Second, Third
  <1> HIDE DEF a, b, c
  <1>4. /\ \A i \in Descs : i # c => desc'[i] = desc[i]
        /\ desc'[c].next = free_head_idx
        /\ desc' \in [Descs -> [req : Tasks \cup {NoTask}, flags : {"NONE", "NEXT", "WRITE"},
                               next : Descs]]
    BY <1>2, <1>3, SMTT(30) DEF TypeOK
  <1>5. ASSUME NEW u \in Tasks
        PROVE  pc'[u] = IF u = t THEN "post" ELSE pc[u]
    BY <1>2 DEF TypeOK
  <1>6. TypeOK'
    <2>1. pc' \in [Tasks -> Statements]
      BY <1>2 DEF TypeOK, Statements
    <2> QED
      BY <1>2, <1>3, <1>4, <2>1 DEF TypeOK
  <1>7. Rings'
    BY <1>2 DEF Rings, AvailEnd, Window
  <1>8. Lock'
    BY <1>1, <1>2, <1>5, SMTT(30) DEF Lock
  <1>9. Stages'
    BY <1>1, <1>2, <1>5, SMTT(30) DEF Stages
  <1>10. Avail' /\ Taken' /\ Used'
    <2>1. \A u \in Tasks : pc[u] \in {"publish", "wait"} /\ posted[u] = 0 => pc'[u] = pc[u]
      BY <1>1, <1>5
    <2> QED
      BY <1>2, <2>1, InFlightStays
  <1>11. Owners' = Owners \ {t} /\ Busy' = Busy
    BY <1>1, <1>5 DEF Owners, Busy
  <1>12. Counts'
    BY <1>2, <1>11 DEF Counts
  <1>13. ASSUME NEW u \in Owners, u # t
         PROVE  /\ OwnChain(u)' = OwnChain(u) /\ ChainOf(u)'
                /\ a \notin OwnChain(u) /\ b \notin OwnChain(u) /\ c \notin OwnChain(u)
    <2>1. u \in Tasks
      BY DEF Owners
    <2>2. OwnChain(u) \cap OwnChain(t) = {}
      BY <1>1, <1>13 DEF Chains
    <2>3. a \notin OwnChain(u) /\ b \notin OwnChain(u) /\ c \notin OwnChain(u)
      BY <1>3, <2>2
    <2>4. \A i \in OwnChain(u) : desc'[i] = desc[i]
      BY <1>4, <2>1, <2>3, OwnChainIs, SMTT(30)
    <2> QED
      BY <1>2, <1>5, <1>13, <2>1, <2>3, <2>4, ChainKept DEF Chains
  <1>14. Chains'
    BY <1>11, <1>13 DEF Chains
  <1>15. Lists'
    <2>0. PICK n : n = FreeNum
      OBVIOUS
    <2>1. PICK f : FreeList(f, n)
      BY <2>0 DEF Lists
    <2>2. FreeNum' = n + 3 /\ n \in Nat
      <3>1. Cardinality(Owners') = Cardinality(Owners) - 1
        BY <1>1, <1>11, Finite, FS_RemoveElement
      <3>2. FreeNum' = 3 * (Slots - Cardinality(Owners'))
        BY DEF FreeNum, VIRTIO_REQ_NUM_DESC
      <3> QED
        BY <2>0, <3>1, <3>2, Finite, FreeNumIs, Consts, SMTT(30)
    <2>11. PICK g : g = [i \in 0..(n + 2) |-> IF i = 0 THEN a ELSE IF i = 1 THEN b
                                              ELSE IF i = 2 THEN c ELSE f[i - 3]]
      OBVIOUS
    <2>3. /\ g[0] = a /\ g[1] = b /\ g[2] = c
          /\ \A i \in 3..(n + 2) : i - 3 \in 0..(n - 1) /\ g[i] = f[i - 3]
      BY <2>2, <2>11, SMTT(30)
    <2>4. /\ f \in [0..(n - 1) -> Descs] /\ (n > 0 => f[0] = free_head_idx)
          /\ \A i \in 0..(n - 2) : desc[f[i]].next = f[i + 1]
          /\ \A i, j \in 0..(n - 1) : f[i] = f[j] => i = j
          /\ \A i \in 0..(n - 1) : \A u \in Owners : f[i] \notin OwnChain(u)
      BY <2>1 DEF FreeList
    <2>5. g \in [0..(n + 2) -> Descs]
      BY <1>3, <2>2, <2>4, <2>11, SMTT(30)
    <2>6. \A i \in 0..(n - 1) : f[i] \in Descs /\ f[i] # a /\ f[i] # b /\ f[i] # c
      BY <1>1, <1>3, <2>4
    <2>7. ASSUME NEW i \in 0..(n + 1)
          PROVE  desc'[g[i]].next = g[i + 1]
      <3>1. CASE i = 0
        BY <1>3, <1>4, <2>3, <3>1, SMTT(30)
      <3>2. CASE i = 1
        BY <1>3, <1>4, <2>3, <3>2, SMTT(30)
      <3>3. CASE i = 2
        <4>1. n > 0 /\ 3 \in 3..(n + 2)
          BY <2>2, <3>3, SMTT(30)
        <4>2. g[3] = f[0]
          BY <2>3, <4>1, SMTT(30)
        <4> QED
          BY <1>4, <2>3, <2>4, <3>3, <4>1, <4>2, SMTT(30)
      <3>4. CASE i > 2
        <4>1. /\ i \in 3..(n + 2) /\ i + 1 \in 3..(n + 2) /\ i - 3 \in 0..(n - 2)
              /\ i - 3 \in 0..(n - 1) /\ (i + 1) - 3 = (i - 3) + 1
          BY <2>2, <3>4, SMTT(30)
        <4>2. g[i] = f[i - 3] /\ g[i + 1] = f[(i - 3) + 1]
          BY <2>3, <4>1, SMTT(30)
        <4>3. desc'[f[i - 3]] = desc[f[i - 3]]
          BY <1>4, <2>6, <4>1
        <4> QED
          BY <2>4, <4>1, <4>2, <4>3
      <3> QED
        BY <2>2, <3>1, <3>2, <3>3, <3>4, SMTT(30)
    <2>8. ASSUME NEW i \in 0..(n + 2), NEW j \in 0..(n + 2), g[i] = g[j]
          PROVE  i = j
      <3>1. ASSUME NEW k \in 0..(n + 2)
            PROVE  k = 0 \/ k = 1 \/ k = 2 \/ k \in 3..(n + 2)
        BY <2>2, SMTT(30)
      <3>2. ASSUME NEW k \in 3..(n + 2)
            PROVE  g[k] # a /\ g[k] # b /\ g[k] # c
        BY <2>3, <2>6
      <3>3. CASE i \in 3..(n + 2) /\ j \in 3..(n + 2)
        <4>1. i - 3 = j - 3
          BY <2>3, <2>4, <2>8, <3>3
        <4> QED
          BY <2>2, <3>3, <4>1, SMTT(30)
      <3> QED
        BY <1>3, <2>3, <2>8, <3>1, <3>2, <3>3
    <2>9. ASSUME NEW i \in 0..(n + 2), NEW u \in Owners, u # t
          PROVE  g[i] \notin OwnChain(u)
      <3>1. i = 0 \/ i = 1 \/ i = 2 \/ i \in 3..(n + 2)
        BY <2>2, SMTT(30)
      <3> QED
        BY <1>13, <2>3, <2>4, <2>9, <3>1
    <2>10. FreeList(g, n + 3)'
      <3>1. /\ (n + 3) - 1 = n + 2 /\ (n + 3) - 2 = n + 1
        BY <2>2, SMTT(30)
      <3>2. \A i \in 0..(n + 2) : \A u \in Owners' : g[i] \notin OwnChain(u)'
        BY <1>11, <1>13, <2>9
      <3>3. g[0] = free_head_idx'
        BY <1>2, <2>3
      <3> QED
        BY <2>5, <2>7, <2>8, <3>1, <3>2, <3>3 DEF FreeList
    <2> QED
      BY <2>2, <2>10 DEF Lists
  <1> QED
    BY <1>6, <1>7, <1>8, <1>9, <1>10, <1>12, <1>14, <1>15

\* submit_req takes the first three descriptors of the free list.
LEMMA SubmitStep ==
  ASSUME BlkInv, NEW t \in Tasks, submit_req(t)
  PROVE  BlkInv'
  <1> USE DEF BlkInv
  <1>1. /\ pc[t] = "submit" /\ t \in Busy /\ t \notin Owners /\ vq_lock = NoTask
        /\ t \notin served /\ posted[t] = 0 /\ t # NoTask
    BY Consts DEF submit_req, At, CanRun, Busy, Owners, Lock, Stages
  <1>2. PICK n : n = FreeNum
    OBVIOUS
  <1>3. n \in Nat /\ n >= 3
    <2>1. Owners \cup {t} \subseteq Busy
      BY <1>1 DEF Owners, Busy
    <2>2. IsFiniteSet(Owners \cup {t}) /\ Cardinality(Owners \cup {t}) = Cardinality(Owners) + 1
      BY <1>1, Finite, FS_AddElement
    <2>3. Cardinality(Owners \cup {t}) <= Cardinality(Busy)
      BY <2>1, Finite, FS_Subset
    <2> QED
      BY <1>2, <2>2, <2>3, Finite, FreeNumIs, Consts, SMTT(30)
  <1>4. PICK f : FreeList(f, n)
    BY <1>2 DEF Lists
  <1>5. /\ f \in [0..(n - 1) -> Descs] /\ f[0] = free_head_idx
        /\ \A i \in 0..(n - 2) : desc[f[i]].next = f[i + 1]
        /\ \A i, j \in 0..(n - 1) : f[i] = f[j] => i = j
        /\ \A i \in 0..(n - 1) : \A u \in Owners : f[i] \notin OwnChain(u)
    BY <1>3, <1>4, SMTT(30) DEF FreeList
  <1>6. PICK a, b, c : a = f[0] /\ b = f[1] /\ c = f[2]
    OBVIOUS
  <1>7. /\ a \in Descs /\ b \in Descs /\ c \in Descs /\ a # b /\ a # c /\ b # c
        /\ a = free_head_idx /\ desc[a].next = b /\ desc[b].next = c
        /\ \A u \in Owners : a \notin OwnChain(u) /\ b \notin OwnChain(u) /\ c \notin OwnChain(u)
    <2>1. /\ 0 \in 0..(n - 1) /\ 1 \in 0..(n - 1) /\ 2 \in 0..(n - 1)
          /\ 0 \in 0..(n - 2) /\ 1 \in 0..(n - 2) /\ 0 + 1 = 1 /\ 1 + 1 = 2
      BY <1>3, SMTT(30)
    <2> QED
      BY <1>5, <1>6, <2>1, SMTT(30)
  <1> DEFINE q == avail.idx % Num
             Desc(d) == [req |-> t, flags |-> IF d = c THEN "WRITE" ELSE "NEXT",
                         next |-> IF d = a THEN b ELSE IF d = b THEN c ELSE 0]
  <1>8. /\ pc' = [pc EXCEPT ![t] = "publish"] /\ vq_lock' = t
        /\ desc' = [desc EXCEPT ![a] = Desc(a), ![b] = Desc(b), ![c] = Desc(c)]
        /\ avail' = [avail EXCEPT !.ring[q] = a]
        /\ free_head_idx' = desc[c].next
        /\ inflight' = [inflight EXCEPT ![a] = t]
        /\ head' = [head EXCEPT ![t] = a]
        /\ UNCHANGED <<curr, posted, free_slots, last_seen_used, handler, victim, used, isr,
                       dev_seen, taken, served>>
    <2>1. Chain(free_head_idx) = <<a, b, c>>
      BY <1>7 DEF Chain
    <2>2. /\ Desc(a) = [req |-> t, flags |-> "NEXT", next |-> b]
          /\ Desc(b) = [req |-> t, flags |-> "NEXT", next |-> c]
          /\ Desc(c) = [req |-> t, flags |-> "WRITE", next |-> 0]
      BY <1>7
    <2> HIDE DEF Desc
    <2> QED
      BY <2>1, <2>2, SMTT(30) DEF submit_req, Goto, irq, device
  <1> HIDE DEF Desc
  <1>9. /\ \A i \in Descs \ {a, b, c} : desc'[i] = desc[i]
        /\ desc'[a] = Desc(a) /\ desc'[b] = Desc(b) /\ desc'[c] = Desc(c)
    BY <1>7, <1>8 DEF TypeOK
  <1>10. desc' \in [Descs -> [req : Tasks \cup {NoTask}, flags : {"NONE", "NEXT", "WRITE"},
                              next : Descs]]
    <2>1. 0 \in Descs
      BY Consts, SMTT(30)
    <2>2. \A d \in {a, b, c} : Desc(d) \in [req : Tasks \cup {NoTask},
                                            flags : {"NONE", "NEXT", "WRITE"}, next : Descs]
      BY <1>7, <2>1 DEF Desc
    <2> QED
      BY <1>7, <1>8, <2>2 DEF TypeOK
  <1>11. /\ \A u \in Tasks : /\ pc'[u] = (IF u = t THEN "publish" ELSE pc[u])
                             /\ head'[u] = (IF u = t THEN a ELSE head[u])
         /\ \A i \in Descs : inflight'[i] = (IF i = a THEN t ELSE inflight[i])
    BY <1>8 DEF TypeOK
  <1>12. /\ avail'.ring = [avail.ring EXCEPT ![q] = a] /\ avail'.idx = avail.idx
         /\ avail' \in Ring /\ q \in Descs /\ q = avail.idx % Num
    <2>1. q \in Descs
      BY Types, PlaceType
    <2> QED
      BY <1>7, <1>8, <2>1 DEF TypeOK, Ring
  <1> HIDE DEF q
  <1>13. \A j \in Descs : avail'.ring[j] = IF j = q THEN a ELSE avail.ring[j]
    BY <1>12, Types
  <1>14. TypeOK'
    <2>1. pc' \in [Tasks -> Statements]
      BY <1>8 DEF TypeOK, Statements
    <2>2. head' \in [Tasks -> Descs] /\ inflight' \in [Descs -> Tasks \cup {NoTask}]
      BY <1>7, <1>8 DEF TypeOK
    <2>3. free_head_idx' \in Descs
      BY <1>7, <1>8, Types
    <2> QED
      BY <1>8, <1>10, <1>12, <2>1, <2>2, <2>3 DEF TypeOK
  <1>15. Rings'
    <2>1. AvailEnd = avail.idx /\ AvailEnd' = Bump(avail.idx)
      BY <1>1, <1>8, <1>12 DEF AvailEnd
    <2>2. IdxDist(dev_seen, avail.idx) + 1 < Num
      BY <1>1, <2>1, AvailHasRoom
    <2>3. /\ Window([avail.ring EXCEPT ![avail.idx % Num] = a], dev_seen, Bump(avail.idx))
          /\ dev_seen # Bump(avail.idx)
      <3>1. /\ avail.ring \in [Descs -> Descs \cup {Stale}] /\ dev_seen \in Indices
            /\ avail.idx \in Indices /\ Window(avail.ring, dev_seen, avail.idx)
        BY <2>1, Types DEF Rings
      <3> QED
        BY <1>7, <2>2, <3>1, Push
    <2>4. Window(avail'.ring, dev_seen', AvailEnd') /\ dev_seen' # AvailEnd'
      BY <1>8, <1>12, <2>1, <2>3
    <2> QED
      BY <1>8, <2>4 DEF Rings, Window
  <1>16. Lock'
    BY <1>1, <1>8, <1>11, <1>12, <1>13, Consts, SMTT(30) DEF Lock
  <1>17. ASSUME NEW u \in Tasks, pc[u] \in {"publish", "wait", "release", "link"}
         PROVE  u \in Owners /\ u # t /\ head[u] # a /\ head[u] \in Descs
    <2>1. u \in Owners /\ head[u] \in OwnChain(u)
      BY <1>17, WaitingOwns
    <2> QED
      BY <1>1, <1>7, <1>17, <2>1, Types
  <1>18. Stages'
    <2>1. ASSUME NEW u \in Tasks, pc'[u] \in {"publish", "wait", "release", "link"}
          PROVE  inflight'[head'[u]] = u
      <3>1. CASE u = t
        BY <1>7, <1>11, <3>1
      <3>2. CASE u # t
        <4>1. pc[u] \in {"publish", "wait", "release", "link"} /\ head'[u] = head[u]
          BY <1>11, <2>1, <3>2
        <4> QED
          BY <1>11, <1>17, <4>1 DEF Stages
      <3> QED
        BY <3>1, <3>2
    <2> QED
      BY <1>1, <1>8, <1>11, <2>1, SMTT(30) DEF Stages
  <1>19. ASSUME NEW u, NEW h, Waits(u, h), pc[u] \in {"publish", "wait"}
         PROVE  /\ head'[u] = h /\ posted'[u] = 0 /\ inflight'[h] = u
                /\ u \in Tasks /\ h # a /\ u # t /\ pc'[u] = pc[u]
    <2>1. u \in Tasks /\ head[u] = h /\ posted[u] = 0 /\ inflight[h] = u
      BY <1>19 DEF Waits
    <2>2. u # t /\ h # a /\ h \in Descs
      BY <1>17, <1>19, <2>1
    <2> QED
      BY <1>8, <1>11, <2>1, <2>2
  <1>20. Avail'
    <2>1. avail.ring[q] = Stale
      BY <1>1, <1>12, Types, WindowEnds, SMTT(30) DEF Rings, AvailEnd
    <2>2. ASSUME NEW j \in Descs, j # q, avail.ring[j] # Stale, NEW h, h = avail.ring[j],
                 NEW u, u = inflight[h]
          PROVE  /\ h # a /\ u \in Tasks /\ head'[u] = h /\ posted'[u] = 0 /\ inflight'[h] = u
                 /\ pc'[u] \in {"publish", "wait"} /\ u \notin served
                 /\ \A r \in taken : r.req # u
      <3>1. Waits(u, h) /\ pc[u] \in {"publish", "wait"} /\ u \notin served
            /\ \A r \in taken : r.req # u
        BY <2>2 DEF Avail
      <3>2. /\ head'[u] = h /\ posted'[u] = 0 /\ inflight'[h] = u
            /\ u \in Tasks /\ h # a /\ pc'[u] = pc[u]
        BY <1>19, <3>1, ZenonT(40)
      <3> QED
        BY <3>1, <3>2
    <2>3. /\ inflight'[a] = t /\ head'[t] = a /\ posted'[t] = 0 /\ pc'[t] = "publish"
          /\ t \notin served /\ \A r \in taken : r.req # t
      BY <1>1, <1>7, <1>8, <1>11 DEF Taken
    <2>4. ASSUME NEW j \in Descs, avail'.ring[j] # Stale, NEW h, h = avail'.ring[j],
                 NEW u, u = inflight'[h]
          PROVE  /\ u \in Tasks /\ head'[u] = h /\ posted'[u] = 0
                 /\ pc'[u] \in {"publish", "wait"}
                 /\ u \notin served /\ \A r \in taken : r.req # u
      <3>1. CASE j = q
        <4>1. h = a /\ u = t
          BY <1>13, <2>3, <2>4, <3>1
        <4> QED
          BY <2>3, <4>1
      <3>2. CASE j # q
        <4>1. h = avail.ring[j] /\ h # Stale
          BY <1>13, <2>4, <3>2
        <4>2. u = inflight[h]
          BY <2>2, <2>4, <3>2, <4>1, SMTT(30)
        <4> QED
          BY <2>2, <2>4, <3>2, <4>1, <4>2, SMTT(30)
      <3> QED
        BY <3>1, <3>2
    <2>5. ASSUME NEW j \in Descs, NEW k \in Descs, avail'.ring[j] # Stale,
                 avail'.ring[j] = avail'.ring[k]
          PROVE  j = k
      <3>1. CASE j # q /\ k # q
        <4>1. avail'.ring[j] = avail.ring[j] /\ avail'.ring[k] = avail.ring[k]
          BY <1>13, <3>1
        <4> QED
          BY <2>5, <4>1 DEF Avail
      <3>2. ASSUME NEW i \in Descs, i # q, avail'.ring[i] # Stale
            PROVE  avail'.ring[i] # a
        BY <1>13, <2>2, <3>2, SMTT(30)
      <3>3. avail'.ring[q] = a
        BY <1>12, <1>13
      <3> QED
        BY <2>5, <3>1, <3>2, <3>3
    <2> QED
      BY <1>8, <2>4, <2>5, SMTT(30) DEF Avail, Waits
  <1>21. Taken'
    BY <1>8, <1>19, SMTT(30) DEF Taken, Waits
  <1>22. Used'
    <2>1. Fresh' = Fresh
      BY <1>8 DEF Fresh
    <2>2. ASSUME NEW j \in Fresh
          PROVE  LET u == inflight'[used.ring[j]]
                 IN  /\ u \in Tasks /\ head'[u] = used.ring[j] /\ posted'[u] = 0
                     /\ pc'[u] = "wait" /\ u \in served
      <3>1. PICK h, u : h = used.ring[j] /\ u = inflight[h]
        OBVIOUS
      <3>2. Waits(u, h) /\ pc[u] = "wait" /\ u \in served
        BY <3>1 DEF Used
      <3>3. /\ head'[u] = h /\ posted'[u] = 0 /\ inflight'[h] = u
            /\ u \in Tasks /\ pc'[u] = pc[u]
        BY <1>19, <3>2, ZenonT(40)
      <3> QED
        BY <3>1, <3>2, <3>3
    <2> QED
      BY <1>8, <2>1, <2>2, SMTT(30) DEF Used, Waits
  <1>23. Owners' = Owners \cup {t} /\ Busy' = Busy
    BY <1>1, <1>11 DEF Owners, Busy
  <1>24. Counts'
    BY <1>8, <1>23 DEF Counts
  <1>25. ASSUME NEW u \in Owners
         PROVE  OwnChain(u)' = OwnChain(u) /\ ChainOf(u)'
    <2>1. u \in Tasks /\ u # t
      BY <1>1 DEF Owners
    <2>2. \A i \in OwnChain(u) : desc'[i] = desc[i]
      BY <1>7, <1>9, <2>1, OwnChainIs, SMTT(30)
    <2> QED
      BY <1>8, <1>11, <2>1, <2>2, ChainKept DEF Chains
  <1>26. OwnChain(t)' = {a, b, c} /\ ChainOf(t)'
    <2>1. /\ desc'[a].next = b /\ desc'[a].flags = "NEXT" /\ desc'[a].req = t
          /\ desc'[b].next = c /\ desc'[b].flags = "NEXT" /\ desc'[b].req = t
          /\ desc'[c].flags = "WRITE" /\ desc'[c].req = t
      <3>1. /\ Desc(a).next = b /\ Desc(a).flags = "NEXT" /\ Desc(a).req = t
            /\ Desc(b).next = c /\ Desc(b).flags = "NEXT" /\ Desc(b).req = t
            /\ Desc(c).flags = "WRITE" /\ Desc(c).req = t
        BY <1>7 DEF Desc
      <3> QED
        BY <1>9, <3>1
    <2>2. head'[t] = a /\ pc'[t] = "publish"
      BY <1>11
    <2>3. Second(t)' = b /\ Third(t)' = c /\ OwnChain(t)' = {a, b, c}
      BY <2>1, <2>2 DEF Second, Third, OwnChain
    <2> QED
      BY <1>7, <2>1, <2>2, <2>3 DEF ChainOf
  <1>27. Chains'
    <2>1. ASSUME NEW u \in Owners'
          PROVE  ChainOf(u)'
      BY <1>23, <1>25, <1>26
    <2>2. ASSUME NEW u \in Owners
          PROVE  OwnChain(u)' \cap OwnChain(t)' = {}
      BY <1>7, <1>25, <1>26
    <2>3. ASSUME NEW u \in Owners', NEW v \in Owners', u # v
          PROVE  OwnChain(u)' \cap OwnChain(v)' = {}
      <3>1. CASE u \in Owners /\ v \in Owners
        BY <1>25, <2>3, <3>1 DEF Chains
      <3>2. CASE u = t \/ v = t
        BY <1>23, <2>2, <2>3, <3>2
      <3> QED
        BY <1>23, <3>1, <3>2
    <2> QED
      BY <2>1, <2>3 DEF Chains
  <1>28. Lists'
    <2>1. FreeNum' = n - 3
      <3>1. Cardinality(Owners') = Cardinality(Owners) + 1
        BY <1>1, <1>23, Finite, FS_AddElement
      <3>2. FreeNum' = 3 * (Slots - Cardinality(Owners'))
        BY DEF FreeNum, VIRTIO_REQ_NUM_DESC
      <3> QED
        BY <1>2, <3>1, <3>2, Finite, FreeNumIs, Consts, SMTT(30)
    <2>2. PICK g : g = [i \in 0..(n - 4) |-> f[i + 3]]
      OBVIOUS
    <2>3. \A i \in 0..(n - 4) : i + 3 \in 0..(n - 1) /\ g[i] = f[i + 3]
      BY <1>3, <2>2, SMTT(30)
    <2>4. g \in [0..(n - 4) -> Descs]
      BY <1>5, <2>2, <2>3
    <2>5. ASSUME NEW i \in 0..(n - 4)
          PROVE  g[i] \in Descs \ {a, b, c}
      <3>1. /\ i + 3 \in 0..(n - 1) /\ i + 3 # 0 /\ i + 3 # 1 /\ i + 3 # 2
            /\ 0 \in 0..(n - 1) /\ 1 \in 0..(n - 1) /\ 2 \in 0..(n - 1)
        BY <1>3, SMTT(30)
      <3> QED
        BY <1>5, <1>6, <2>3, <3>1, SMTT(30)
    <2>6. ASSUME n - 3 > 0
          PROVE  g[0] = free_head_idx'
      <3>1. 0 \in 0..(n - 4) /\ 2 \in 0..(n - 2) /\ 0 + 3 = 3 /\ 2 + 1 = 3
        BY <1>3, <2>6, SMTT(30)
      <3>2. g[0] = f[3] /\ desc[f[2]].next = f[3]
        BY <1>5, <2>3, <3>1
      <3> QED
        BY <1>6, <1>8, <3>2
    <2>7. ASSUME NEW i \in 0..(n - 5)
          PROVE  desc'[g[i]].next = g[i + 1]
      <3>1. /\ i \in 0..(n - 4) /\ i + 1 \in 0..(n - 4) /\ i + 3 \in 0..(n - 2)
            /\ (i + 1) + 3 = (i + 3) + 1
        BY <1>3, SMTT(30)
      <3>2. g[i] = f[i + 3] /\ g[i + 1] = f[(i + 3) + 1]
        BY <2>3, <3>1, SMTT(30)
      <3>3. desc'[g[i]] = desc[g[i]]
        BY <1>9, <2>5, <3>1
      <3> QED
        BY <1>5, <3>1, <3>2, <3>3, SMTT(30)
    <2>8. ASSUME NEW i \in 0..(n - 4), NEW j \in 0..(n - 4), g[i] = g[j]
          PROVE  i = j
      <3>1. i + 3 = j + 3
        BY <1>5, <2>3, <2>8, SMTT(30)
      <3> QED
        BY <1>3, <3>1, SMTT(30)
    <2>9. ASSUME NEW i \in 0..(n - 4), NEW u \in Owners'
          PROVE  g[i] \notin OwnChain(u)'
      <3>1. CASE u = t
        BY <1>26, <2>5, <3>1
      <3>2. CASE u # t
        BY <1>5, <1>23, <1>25, <2>3, <2>9, <3>2, SMTT(30)
      <3> QED
        BY <3>1, <3>2
    <2>10. FreeList(g, n - 3)'
      <3>1. (n - 3) - 1 = n - 4 /\ (n - 3) - 2 = n - 5
        BY <1>3, SMTT(30)
      <3> QED
        BY <2>4, <2>6, <2>7, <2>8, <2>9, <3>1 DEF FreeList
    <2> QED
      BY <2>1, <2>10 DEF Lists
  <1> QED
    BY <1>14, <1>15, <1>16, <1>18, <1>20, <1>21, <1>22, <1>24, <1>27, <1>28
-----------------------------------------------------------------------------
\* init_free_list: the descriptors are linked in order, and nothing is in flight.
LEMMA InitInv == Init => BlkInv
  <1> SUFFICES ASSUME Init
               PROVE  BlkInv
    OBVIOUS
  <1>1. /\ pc = [t \in Tasks |-> "idle"] /\ head = [t \in Tasks |-> 0]
        /\ curr = [t \in Tasks |-> 0] /\ posted = [t \in Tasks |-> 0]
        /\ desc = [i \in Descs |-> [req |-> NoTask, flags |-> "NONE", next |-> (i + 1) % Num]]
        /\ free_head_idx = 0 /\ free_slots = Slots /\ inflight = [i \in Descs |-> NoTask]
        /\ vq_lock = NoTask
        /\ avail = [ring |-> [i \in Descs |-> Stale], idx |-> 0]
        /\ used = [ring |-> [i \in Descs |-> Stale], idx |-> 0]
        /\ last_seen_used = 0 /\ handler = "none" /\ victim = NoTask
        /\ isr = FALSE /\ dev_seen = 0 /\ taken = {} /\ served = {}
    BY DEF Init
  <1>2. ASSUME NEW i \in Descs
        PROVE  (i + 1) % Num \in Descs /\ (i + 1 < Num => (i + 1) % Num = i + 1)
    <2>1. Num \in Nat /\ Num > 0 /\ i \in Nat /\ i < Num
      BY Consts, SMTT(30)
    <2>2. (i + 1) % Num \in 0..(Num - 1) /\ (i + 1 < Num => (i + 1) % Num = i + 1)
      BY <2>1, Z3T(30)
    <2> QED
      BY <2>2, Consts
  <1>3. 0 \in Descs /\ 0 \in Indices /\ 0 % Num = 0
    <2>1. Num \in Nat /\ Num > 0
      BY Consts, SMTT(30)
    <2>2. 0 % Num = 0
      BY <2>1, Z3T(30)
    <2> QED
      BY <2>2, Consts, SMTT(30) DEF Indices
  <1>4. TypeOK
    <2>1. desc \in [Descs -> [req : Tasks \cup {NoTask}, flags : {"NONE", "NEXT", "WRITE"},
                              next : Descs]]
      BY <1>1, <1>2
    <2>2. avail \in Ring /\ used \in Ring
      BY <1>1, <1>3 DEF Ring, Indices
    <2>3. /\ pc \in [Tasks -> Statements] /\ head \in [Tasks -> Descs] /\ curr \in [Tasks -> Descs]
          /\ posted \in [Tasks -> 0..1] /\ inflight \in [Descs -> Tasks \cup {NoTask}]
      BY <1>1, <1>3, SMTT(30) DEF Statements
    <2>4. free_slots \in 0..Slots
      BY <1>1, Consts, SMTT(30)
    <2> QED
      BY <1>1, <1>3, <2>1, <2>2, <2>3, <2>4 DEF TypeOK, Indices
  <1>5. Rings
    <2>1. Window([i \in Descs |-> Stale], 0, 0)
      BY <1>3, Consts, SMTT(30) DEF Window, IdxDist, RingDist
    <2> QED
      BY <1>1, <2>1 DEF Rings, AvailEnd
  <1>6. Lock /\ Avail /\ Taken /\ Used /\ Stages
    BY <1>1, Consts DEF Lock, Avail, Taken, Used, Fresh, Stages
  <1>7. Owners = {} /\ Busy = {}
    BY <1>1 DEF Owners, Busy
  <1>8. Cardinality(Owners) = 0 /\ Cardinality(Busy) = 0
    BY <1>7, FS_EmptySet
  <1>9. Counts
    BY <1>1, <1>8, Consts, SMTT(30) DEF Counts
  <1>10. Chains
    BY <1>7 DEF Chains
  <1>11. Lists
    <2>1. FreeNum = 3 * Slots
      BY <1>8, Consts, SMTT(30) DEF FreeNum, VIRTIO_REQ_NUM_DESC
    <2> DEFINE n == 3 * Slots
               f == [i \in 0..(n - 1) |-> i]
    <2>2. n \in Nat /\ n <= Num
      BY Consts, SMTT(30)
    <2> HIDE DEF n
    <2>3. f \in [0..(n - 1) -> Descs]
      BY <2>2, Consts, SMTT(30)
    <2>4. ASSUME NEW i \in 0..(n - 2)
          PROVE  desc[f[i]].next = f[i + 1]
      <3>1. i \in 0..(n - 1) /\ i + 1 \in 0..(n - 1) /\ i \in Descs /\ i + 1 < Num
        BY <2>2, Consts, SMTT(30)
      <3>2. f[i] = i /\ f[i + 1] = i + 1
        BY <3>1
      <3>3. desc[i].next = (i + 1) % Num
        BY <1>1, <3>1
      <3> QED
        BY <1>2, <3>1, <3>2, <3>3
    <2>5. \A i \in 0..(n - 1) : f[i] = i
      OBVIOUS
    <2> HIDE DEF f
    <2>6. n > 0 => f[0] = free_head_idx
      BY <1>1, <2>2, <2>5, SMTT(30)
    <2>7. FreeList(f, n)
      BY <1>7, <2>3, <2>4, <2>5, <2>6 DEF FreeList
    <2> QED
      BY <2>1, <2>7 DEF Lists, n
  <1> QED
    BY <1>4, <1>5, <1>6, <1>9, <1>10, <1>11 DEF BlkInv

\* Every step of a request, of the handler and of the device keeps the invariant.
LEMMA Inductive == BlkInv /\ [Next]_vars => BlkInv'
  <1> SUFFICES ASSUME BlkInv, [Next]_vars
               PROVE  BlkInv'
    OBVIOUS
  <1>1. ASSUME NEW t \in Tasks, Request(t)
        PROVE  BlkInv'
    BY <1>1, RequestStep, SubmitStep, PublishStep, CompletedStep, ReleaseStep, LinkStep,
       PostSlotStep DEF Request
  <1>2. CASE Handler
    BY <1>2, HandlerStep, PostCompletionStep, AdvanceStep DEF Handler
  <1>3. CASE Device
    <2>1. CASE DeviceTake
      BY <2>1, TakeStep
    <2>2. ASSUME NEW r \in [head : Descs, req : Tasks], DeviceServe(r)
          PROVE  BlkInv'
      <3>1. r \in taken
        BY <2>2 DEF DeviceServe
      <3> QED
        BY <2>2, <3>1, ServeStep
    <2> QED
      BY <1>3, <2>1, <2>2 DEF Device
  <1>4. CASE UNCHANGED vars
    <2> USE <1>4 DEF vars, driver, irq, device, BlkInv
    <2>1. TypeOK'
      BY DEF TypeOK
    <2>2. Rings'
      BY DEF Rings, AvailEnd, Window
    <2>3. Lock' /\ Stages'
      BY DEF Lock, Stages
    <2>4. Avail' /\ Taken' /\ Used'
      BY InFlightStays
    <2>5. Chains' /\ Lists' /\ Counts'
      BY TasksStay
    <2> QED
      BY <2>1, <2>2, <2>3, <2>4, <2>5
  <1> QED
    BY <1>1, <1>2, <1>3, <1>4 DEF Next

\* The driver keeps the invariant.
LEMMA InvAlways == Spec => []BlkInv
  BY InitInv, Inductive, PTL DEF Spec
-----------------------------------------------------------------------------
\* A list of descriptors can be followed for n steps.
Follows(f, n) ==
  /\ f \in [0..n -> Descs] /\ f[0] = free_head_idx
  /\ \A i \in 0..(n - 1) : f[i + 1] = desc[f[i]].next

\* Descriptors are linked to descriptors, so a list can be followed for ever.
LEMMA CanFollow ==
  ASSUME TypeOK, NEW n \in Nat
  PROVE  \E f : Follows(f, n)
  <1> DEFINE Bad == {m \in Nat : ~ \E f : Follows(f, m)}
  <1> SUFFICES ASSUME n \in Bad
               PROVE  FALSE
    OBVIOUS
  <1>1. PICK m \in Bad : \A k \in Bad : ~(<<k, m>> \in OpToRel(<, Nat))
    BY NatLessThanWellFounded, WFMin
  <1>2. m \in Nat /\ (\A k \in Nat : k < m => k \notin Bad) /\ ~ \E f : Follows(f, m)
    BY <1>1 DEF OpToRel
  <1>3. CASE m = 0
    <2>1. Follows([i \in 0..0 |-> free_head_idx], 0)
      BY SMTT(30) DEF Follows, TypeOK
    <2> QED
      BY <1>2, <1>3, <2>1
  <1>4. CASE m > 0
    <2>1. m - 1 \in Nat /\ m - 1 < m
      BY <1>2, <1>4, SMTT(30)
    <2>2. PICK f : Follows(f, m - 1)
      BY <1>2, <2>1
    <2> DEFINE g == [i \in 0..m |-> IF i < m THEN f[i] ELSE desc[f[m - 1]].next]
    <2>3. f \in [0..(m - 1) -> Descs] /\ f[0] = free_head_idx
          /\ \A i \in 0..((m - 1) - 1) : f[i + 1] = desc[f[i]].next
      BY <2>2 DEF Follows
    <2>4. desc[f[m - 1]].next \in Descs
      BY <1>2, <1>4, <2>3, Types, SMTT(30)
    <2>5. g \in [0..m -> Descs]
      BY <1>2, <2>3, <2>4, SMTT(30)
    <2>6. /\ \A i \in 0..(m - 1) : g[i] = f[i]
          /\ g[m] = desc[f[m - 1]].next
      BY <1>2, SMTT(30)
    <2> HIDE DEF g
    <2>7. ASSUME NEW i \in 0..(m - 1)
          PROVE  g[i + 1] = desc[g[i]].next
      <3>1. CASE i = m - 1
        BY <1>2, <2>6, <3>1, SMTT(30)
      <3>2. CASE i < m - 1
        <4>1. i + 1 \in 0..(m - 1) /\ i \in 0..((m - 1) - 1)
          BY <1>2, <3>2, SMTT(30)
        <4> QED
          BY <2>3, <2>6, <4>1
      <3> QED
        BY <1>2, <3>1, <3>2, SMTT(30)
    <2>8. g[0] = free_head_idx
      BY <1>2, <1>4, <2>3, <2>6, SMTT(30)
    <2>9. Follows(g, m)
      BY <2>5, <2>7, <2>8 DEF Follows
    <2> QED
      BY <1>2, <2>9
  <1> QED
    BY <1>2, <1>3, <1>4, SMTT(30)

\* Two lists that begin and go on alike are alike.
LEMMA Agree ==
  ASSUME NEW n \in Nat, NEW f, NEW g, f[0] = g[0],
         \A i \in 0..(n - 1) : f[i] = g[i] => f[i + 1] = g[i + 1]
  PROVE  \A i \in 0..n : f[i] = g[i]
  <1> DEFINE Bad == {m \in Nat : m <= n /\ f[m] # g[m]}
  <1> SUFFICES ASSUME Bad # {}
               PROVE  FALSE
    BY SMTT(30)
  <1>1. PICK m \in Bad : \A k \in Bad : ~(<<k, m>> \in OpToRel(<, Nat))
    BY NatLessThanWellFounded, WFMin
  <1>2. m \in Nat /\ m <= n /\ f[m] # g[m] /\ \A k \in Nat : k < m => f[k] = g[k]
    <2>1. m \in Nat /\ m <= n /\ f[m] # g[m]
      OBVIOUS
    <2>2. ASSUME NEW k \in Nat, k < m
          PROVE  f[k] = g[k]
      <3>1. k \notin Bad
        BY <1>1, <2>1, <2>2 DEF OpToRel
      <3> QED
        BY <2>1, <2>2, <3>1, SMTT(30)
    <2> QED
      BY <2>1, <2>2
  <1>3. m - 1 \in 0..(n - 1) /\ (m - 1) + 1 = m /\ m - 1 \in Nat /\ m - 1 < m
    BY <1>2, SMTT(30)
  <1>4. f[(m - 1) + 1] = g[(m - 1) + 1]
    BY <1>2, <1>3
  <1> QED
    BY <1>2, <1>3, <1>4

\* FreeDesc follows the free list.
LEMMA FreeDescIs ==
  ASSUME TypeOK
  PROVE  Follows(FreeDesc, Num)
  <1> DEFINE Eq(f) == f = [i \in 0..Num |-> IF i = 0 THEN free_head_idx ELSE desc[f[i - 1]].next]
  <1>1. Num \in Nat
    BY Consts
  <1>2. PICK f : Follows(f, Num)
    BY <1>1, CanFollow
  <1>3. Eq(f)
    <2>1. f \in [0..Num -> Descs] /\ f[0] = free_head_idx
          /\ \A i \in 0..(Num - 1) : f[i + 1] = desc[f[i]].next
      BY <1>2 DEF Follows
    <2>2. ASSUME NEW i \in 0..Num
          PROVE  f[i] = IF i = 0 THEN free_head_idx ELSE desc[f[i - 1]].next
      <3>1. CASE i > 0
        <4>1. i - 1 \in 0..(Num - 1) /\ (i - 1) + 1 = i
          BY <1>1, <3>1, SMTT(30)
        <4>2. f[(i - 1) + 1] = desc[f[i - 1]].next
          BY <2>1, <4>1
        <4> QED
          BY <3>1, <4>1, <4>2, SMTT(30)
      <3> QED
        BY <1>1, <2>1, <3>1, SMTT(30)
    <2> QED
      BY <2>1, <2>2
  <1>4. FreeDesc = CHOOSE g : Eq(g)
    BY DEF FreeDesc
  <1>5. Eq(FreeDesc)
    BY <1>3, <1>4
  <1> HIDE DEF Eq
  <1>6. DOMAIN FreeDesc = 0..Num /\ FreeDesc[0] = free_head_idx
        /\ \A i \in 0..(Num - 1) : FreeDesc[i + 1] = desc[FreeDesc[i]].next
    <2>1. FreeDesc = [i \in 0..Num |-> IF i = 0 THEN free_head_idx ELSE desc[FreeDesc[i - 1]].next]
      BY <1>5 DEF Eq
    <2>2. DOMAIN FreeDesc = 0..Num
      BY <2>1
    <2>3. ASSUME NEW i \in 0..Num
          PROVE  FreeDesc[i] = IF i = 0 THEN free_head_idx ELSE desc[FreeDesc[i - 1]].next
      BY <2>1
    <2>4. FreeDesc[0] = free_head_idx
      BY <1>1, <2>3, SMTT(30)
    <2>5. ASSUME NEW i \in 0..(Num - 1)
          PROVE  FreeDesc[i + 1] = desc[FreeDesc[i]].next
      <3>1. i + 1 \in 0..Num /\ i + 1 # 0 /\ (i + 1) - 1 = i
        BY <1>1, SMTT(30)
      <3> QED
        BY <2>3, <3>1
    <2> QED
      BY <2>2, <2>4, <2>5
  <1>7. f \in [0..Num -> Descs] /\ f[0] = free_head_idx
        /\ \A i \in 0..(Num - 1) : f[i + 1] = desc[f[i]].next
    BY <1>2 DEF Follows
  <1>8. \A i \in 0..Num : f[i] = FreeDesc[i]
    <2>1. \A i \in 0..(Num - 1) : f[i] = FreeDesc[i] => f[i + 1] = FreeDesc[i + 1]
      BY <1>6, <1>7
    <2>2. Num \in Nat /\ f[0] = FreeDesc[0]
      BY <1>1, <1>6, <1>7
    <2> QED
      BY <2>1, <2>2, Agree
  <1>9. FreeDesc = f
    <2>1. FreeDesc = [i \in 0..Num |-> FreeDesc[i]]
      BY <1>5 DEF Eq
    <2> QED
      BY <1>7, <1>8, <2>1
  <1> QED
    BY <1>2, <1>9

\* The invariant says that chains are disjoint from each other and the free list.
LEMMA Disjoint ==
  ASSUME BlkInv
  PROVE  ChainsAreDisjoint
  <1> USE DEF BlkInv
  <1>1. PICK n : n = FreeNum
    OBVIOUS
  <1>2. n \in Nat /\ n <= Num
    BY <1>1, FreeNumIs, Finite, Consts, SMTT(30)
  <1>3. PICK f : FreeList(f, n)
    BY <1>1 DEF Lists
  <1>4. /\ f \in [0..(n - 1) -> Descs] /\ (n > 0 => f[0] = free_head_idx)
        /\ \A i \in 0..(n - 2) : desc[f[i]].next = f[i + 1]
        /\ \A i, j \in 0..(n - 1) : f[i] = f[j] => i = j
        /\ \A i \in 0..(n - 1) : \A t \in Owners : f[i] \notin OwnChain(t)
    BY <1>3 DEF FreeList
  <1>5. \A i \in 0..(n - 1) : f[i] = FreeDesc[i]
    <2>1. FreeDesc[0] = free_head_idx /\ \A i \in 0..(Num - 1) : FreeDesc[i + 1] = desc[FreeDesc[i]].next
      BY FreeDescIs DEF Follows
    <2>2. CASE n > 0
      <3>1. n - 1 \in Nat /\ (n - 1) - 1 = n - 2 /\ \A i \in 0..(n - 2) : i \in 0..(Num - 1)
        BY <1>2, <2>2, Consts, SMTT(30)
      <3>2. \A i \in 0..((n - 1) - 1) : f[i] = FreeDesc[i] => f[i + 1] = FreeDesc[i + 1]
        BY <1>4, <2>1, <3>1
      <3>3. f[0] = FreeDesc[0] /\ n - 1 \in Nat
        BY <1>4, <2>1, <2>2, <3>1
      <3> QED
        BY <3>2, <3>3, Agree
    <2> QED
      BY <1>2, <2>2, SMTT(30)
  <1>6. FreeDescs = {f[i] : i \in 0..(n - 1)}
    BY <1>1, <1>5 DEF FreeDescs, FreeNum
  <1>7. Cardinality(FreeDescs) = n
    <2> DEFINE T == {f[i] : i \in 0..(n - 1)}
    <2>1. IsFiniteSet(0..(n - 1)) /\ Cardinality(0..(n - 1)) = n
      BY <1>2, FS_Interval, SMTT(30)
    <2>2. f \in [0..(n - 1) -> T] /\ \A x \in T : \E i \in 0..(n - 1) : f[i] = x
      BY <1>4
    <2> HIDE DEF T
    <2>3. f \in Bijection(0..(n - 1), T)
      BY <1>4, <2>2 DEF Bijection, Injection, Surjection, IsInjective
    <2>4. ExistsBijection(0..(n - 1), T)
      BY <2>3 DEF ExistsBijection
    <2>5. Cardinality(T) = n
      BY <2>1, <2>4, FS_Bijection
    <2> QED
      BY <1>6, <2>5 DEF T
  <1>8. ASSUME NEW t \in Owners
        PROVE  Cardinality(OwnChain(t)) = VIRTIO_REQ_NUM_DESC /\ OwnChain(t) \cap FreeDescs = {}
    <2>1. ChainOf(t) /\ t \in Tasks
      BY DEF Chains, Owners
    <2>2. /\ OwnChain(t) = ({head[t]} \cup {Second(t)}) \cup {Third(t)}
          /\ head[t] # Second(t) /\ head[t] # Third(t) /\ Second(t) # Third(t)
      BY <2>1, OwnChainIs DEF ChainOf
    <2>3. IsFiniteSet({head[t]}) /\ Cardinality({head[t]}) = 1
      BY FS_Singleton
    <2>4. /\ IsFiniteSet({head[t]} \cup {Second(t)})
          /\ Cardinality({head[t]} \cup {Second(t)}) = 1 + 1
      BY <2>2, <2>3, FS_AddElement
    <2>5. Cardinality(OwnChain(t)) = 1 + 1 + 1
      BY <2>2, <2>4, FS_AddElement, SMTT(30)
    <2>6. OwnChain(t) \cap FreeDescs = {}
      BY <1>4, <1>6, SMTT(30)
    <2> QED
      BY <2>5, <2>6, SMTT(30) DEF VIRTIO_REQ_NUM_DESC
  <1>9. n = VIRTIO_REQ_NUM_DESC * (Slots - Cardinality(Owners))
    BY <1>1 DEF FreeNum
  <1> QED
    BY <1>7, <1>8, <1>9 DEF ChainsAreDisjoint, Chains

\* A descriptor belongs to one request, or is free: submit_req never hands out one
\* that the device works on, for any number of tasks and any queue.
THEOREM ChainsCorrect == Spec => []ChainsAreDisjoint
  BY Disjoint, InvAlways, PTL

\* The device works on the descriptors of requests that wait, and the handler posts
\* the completion of a request that waits, never that of a call that has returned.
THEOREM AwaitedCorrect == Spec => []RequestsAreAwaited
  <1>1. BlkInv => RequestsAreAwaited
    <2> SUFFICES ASSUME BlkInv
                 PROVE  RequestsAreAwaited
      OBVIOUS
    <2>1. ASSUME NEW r \in taken
          PROVE  /\ pc[r.req] = "wait" /\ head[r.req] = r.head
                 /\ \A i \in OwnChain(r.req) : desc[i].req = r.req /\ desc[i].flags # "NONE"
      <3>1. r.req \in Tasks /\ pc[r.req] = "wait" /\ head[r.req] = r.head
        BY DEF BlkInv, Taken, Waits
      <3>2. ChainOf(r.req)
        BY <3>1, WaitingOwns DEF BlkInv, Chains
      <3>3. OwnChain(r.req) = {head[r.req], Second(r.req), Third(r.req)}
        BY <3>1, OwnChainIs DEF BlkInv
      <3> QED
        BY <3>1, <3>2, <3>3 DEF ChainOf
    <2> QED
      BY <2>1, SeenWaits DEF RequestsAreAwaited, Waits
  <1> QED
    BY <1>1, InvAlways, PTL

\* The driver is a disk: a request is served once, and returns after it was
\* served.
THEOREM BlkCorrect == Spec => ImplementsBlk
  <1> DEFINE Stage(t) == IF pc[t] \in {"idle", "submit", "publish"} THEN "none"
                         ELSE IF t \in served THEN "served" ELSE "queued"
             request == [t \in Tasks |-> Stage(t)]
  <1>1. Init => Blk!Init
    BY DEF Init, Blk!Init
  <1>2. BlkInv /\ [Next]_vars => [Blk!Next]_request
    <2> SUFFICES ASSUME BlkInv, [Next]_vars
                 PROVE  [Blk!Next]_request
      OBVIOUS
    <2> USE DEF BlkInv
    <2>1. ASSUME \A u \in Tasks : Stage(u)' = Stage(u)
          PROVE  request' = request
      BY <2>1
    <2>2. ASSUME NEW t \in Tasks, \A u \in Tasks : u # t => Stage(u)' = Stage(u),
                 \/ Stage(t) = "none" /\ Stage(t)' = "queued"
                 \/ Stage(t) = "queued" /\ Stage(t)' = "served"
                 \/ Stage(t) = "served" /\ Stage(t)' = "none"
          PROVE  Blk!Next
      <3>1. request[t] = Stage(t)
        OBVIOUS
      <3>2. request' = [request EXCEPT ![t] = Stage(t)']
        BY <2>2
      <3> HIDE DEF Stage, request
      <3>3. Blk!Submit(t) \/ Blk!Serve(t) \/ Blk!Return(t)
        BY <2>2, <3>1, <3>2 DEF Blk!Submit, Blk!Serve, Blk!Return, request, Stage
      <3> QED
        BY <3>3 DEF Blk!Next
    <2> HIDE DEF request
    <2>3. pc \in [Tasks -> Statements]
      BY DEF TypeOK
    <2>4. ASSUME NEW t \in Tasks, Request(t)
          PROVE  [Blk!Next]_request
      <3>1. ASSUME served' = served, NEW s, pc' = [pc EXCEPT ![t] = s]
            PROVE  /\ pc'[t] = s
                   /\ \A u \in Tasks : u # t => Stage(u)' = Stage(u)
        BY <2>3, <3>1
      <3>2. CASE virtio_blk_request(t)
        <4>1. /\ pc[t] = "idle" /\ pc' = [pc EXCEPT ![t] = "submit"] /\ served' = served \ {t}
          BY <3>2 DEF virtio_blk_request, At, Goto
        <4>2. \A u \in Tasks : Stage(u)' = Stage(u)
          BY <2>3, <4>1
        <4> QED
          BY <2>1, <4>2
      <3>3. CASE submit_req(t)
        <4>1. pc[t] = "submit" /\ pc' = [pc EXCEPT ![t] = "publish"] /\ served' = served
          BY <3>3 DEF submit_req, At, Goto, device
        <4>2. \A u \in Tasks : Stage(u)' = Stage(u)
          BY <2>3, <4>1
        <4> QED
          BY <2>1, <4>2
      <3>4. CASE Publish(t)
        <4>1. pc[t] = "publish" /\ pc' = [pc EXCEPT ![t] = "wait"] /\ served' = served
          BY <3>4 DEF Publish, At, Goto, device
        <4>2. t \notin served
          BY <4>1 DEF Stages
        <4>3. Stage(t) = "none" /\ Stage(t)' = "queued"
          BY <2>3, <4>1, <4>2
        <4> QED
          BY <2>2, <3>1, <4>1, <4>3
      <3>5. CASE Completed(t)
        <4>1. pc[t] = "wait" /\ pc' = [pc EXCEPT ![t] = "release"] /\ served' = served
          BY <3>5 DEF Completed, At, Goto, device
        <4>2. \A u \in Tasks : Stage(u)' = Stage(u)
          BY <2>3, <4>1
        <4> QED
          BY <2>1, <4>2
      <3>6. CASE release_desc_chain(t)
        <4>1. pc[t] = "release" /\ pc' = [pc EXCEPT ![t] = "link"] /\ served' = served
          BY <3>6 DEF release_desc_chain, At, Goto, device
        <4>2. \A u \in Tasks : Stage(u)' = Stage(u)
          BY <2>3, <4>1
        <4> QED
          BY <2>1, <4>2
      <3>7. CASE Link(t)
        <4>1. pc[t] = "link" /\ pc' = [pc EXCEPT ![t] = "post"] /\ served' = served
          BY <3>7 DEF Link, At, Goto, device
        <4>2. \A u \in Tasks : Stage(u)' = Stage(u)
          BY <2>3, <4>1
        <4> QED
          BY <2>1, <4>2
      <3>8. CASE PostSlot(t)
        <4>1. pc[t] = "post" /\ pc' = [pc EXCEPT ![t] = "idle"] /\ served' = served
          BY <3>8 DEF PostSlot, At, Goto, device
        <4>2. t \in served
          BY <4>1 DEF Stages
        <4>3. Stage(t) = "served" /\ Stage(t)' = "none"
          BY <2>3, <4>1, <4>2
        <4> QED
          BY <2>2, <3>1, <4>1, <4>3
      <3> QED
        BY <2>4, <3>2, <3>3, <3>4, <3>5, <3>6, <3>7, <3>8 DEF Request
    <2>5. CASE pc' = pc /\ served' = served
      <3>1. \A u \in Tasks : Stage(u)' = Stage(u)
        BY <2>5
      <3> QED
        BY <2>1, <3>1
    <2>6. CASE Handler \/ DeviceTake \/ UNCHANGED vars
      BY <2>5, <2>6 DEF Handler, virtio_irq_handler, PostCompletion, Advance, IrqReturn,
                        DeviceTake, device, vars
    <2>7. ASSUME NEW r \in [head : Descs, req : Tasks], DeviceServe(r)
          PROVE  [Blk!Next]_request
      <3>1. r \in taken /\ served' = served \cup {r.req} /\ pc' = pc /\ r.req \in Tasks
        BY <2>7 DEF DeviceServe
      <3>2. pc[r.req] = "wait" /\ r.req \notin served
        BY <3>1 DEF Taken
      <3>3. Stage(r.req) = "queued" /\ Stage(r.req)' = "served"
        BY <3>1, <3>2
      <3>4. \A u \in Tasks : u # r.req => Stage(u)' = Stage(u)
        BY <3>1
      <3> QED
        BY <2>2, <3>1, <3>3, <3>4
    <2> QED
      BY <2>4, <2>6, <2>7 DEF Next, Device
  <1> QED
    BY <1>1, <1>2, InvAlways, PTL DEF Spec, ImplementsBlk, Blk!Spec
=============================================================================
