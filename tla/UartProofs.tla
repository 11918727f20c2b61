----------------------------- MODULE UartProofs -----------------------------
(***************************************************************************)
(* The receiving side of the UART for every size of the ring buffer, every *)
(* depth of the fifo and every finite set of readers: each character is    *)
(* counted once, and reads return what was typed, in that order.           *)
(***************************************************************************)
EXTENDS Uart, FiniteSetTheorems, TLAPS

\* The leaves that need arithmetic cite SMT.
USE ZenonT(20)

N == UART_RX_BUFFER_SIZE
BufferType == [buf : [Indices -> Chars], head : Indices, tail : Indices]

\* The characters of the ring buffer, the oldest first
Slot(b, i) == (b.tail + i - 1) % N
Ring(b) == [i \in 1..Held(b) |-> b.buf[Slot(b, i)]]

Getters == {r \in Readers : reader[r] = "get"}

\* RXEN is off from the interrupt until the daemon has served it.
OneSignal ==
  /\ fill_signal = 1 => daemon = "wait" /\ ~rxen
  /\ daemon # "wait" => ~rxen

UartInv == CharsAreCounted /\ OneSignal
-----------------------------------------------------------------------------
\* The remainders that indices of the ring buffer meet
LEMMA Wrap ==
  ASSUME NEW a \in (-N)..(2 * N - 1)
  PROVE  a % N = IF a < 0 THEN a + N ELSE IF a < N THEN a ELSE a - N
  <1>1. N \in Nat \ {0, 1}
    BY UartAssumption DEF N
  <1>2. CASE a < 0
    BY <1>1, <1>2, Z3T(30)
  <1>3. CASE a >= 0 /\ a < N
    BY <1>1, <1>3, Z3T(30)
  <1>4. CASE a >= N
    BY <1>1, <1>4, Z3T(30)
  <1> QED
    BY <1>1, <1>2, <1>3, <1>4, SMTT(30)

\* Held counts the places from tail to head; one place stays free.
LEMMA HeldIs ==
  ASSUME NEW b \in BufferType
  PROVE  /\ Held(b) = IF b.head < b.tail THEN b.head - b.tail + N ELSE b.head - b.tail
         /\ Held(b) \in 0..(N - 1)
         /\ buffer_empty(b) <=> Held(b) = 0
         /\ buffer_full(b) <=> Held(b) = N - 1
  <1>1. N \in Nat \ {0, 1} /\ b.head \in 0..(N - 1) /\ b.tail \in 0..(N - 1)
    BY UartAssumption DEF N, BufferType, Indices
  <1>2. Held(b) = (b.head - b.tail) % N /\ b.head - b.tail \in (-N)..(2 * N - 1)
    BY <1>1, SMTT(30) DEF Held, N
  <1>3. Held(b) = IF b.head < b.tail THEN b.head - b.tail + N ELSE b.head - b.tail
    BY <1>1, <1>2, Wrap, SMTT(30)
  <1>4. (b.head + 1) % N = IF b.head + 1 < N THEN b.head + 1 ELSE b.head + 1 - N
    BY <1>1, Wrap, SMTT(30)
  <1>5. buffer_full(b) <=> (b.head + 1) % N = b.tail
    BY DEF buffer_full, N
  <1> QED
    BY <1>1, <1>3, <1>4, <1>5, SMTT(30) DEF buffer_empty

\* The place of the ith character
LEMMA SlotIs ==
  ASSUME NEW b \in BufferType, NEW i \in 1..N
  PROVE  /\ Slot(b, i) = IF b.tail + i - 1 < N THEN b.tail + i - 1 ELSE b.tail + i - 1 - N
         /\ Slot(b, i) \in 0..(N - 1)
  <1>1. N \in Nat \ {0, 1} /\ b.tail \in 0..(N - 1)
    BY UartAssumption DEF N, BufferType, Indices
  <1>2. PICK a \in (-N)..(2 * N - 1) : a = b.tail + i - 1
    BY <1>1, SMTT(30)
  <1>3. Slot(b, i) = a % N
    BY <1>2 DEF Slot
  <1>4. a % N = IF a < 0 THEN a + N ELSE IF a < N THEN a ELSE a - N
    BY Wrap
  <1> QED
    BY <1>1, <1>2, <1>3, <1>4, SMTT(30)

\* The ring buffer is a sequence of characters.
LEMMA RingIsSeq ==
  ASSUME NEW b \in BufferType
  PROVE  Ring(b) \in Seq(Chars) /\ Len(Ring(b)) = Held(b)
  <1>1. N \in Nat \ {0, 1} /\ b.tail \in 0..(N - 1) /\ b.buf \in [0..(N - 1) -> Chars]
    BY UartAssumption DEF N, BufferType, Indices
  <1>2. Held(b) \in 0..(N - 1)
    BY HeldIs
  <1>3. ASSUME NEW i \in 1..Held(b)
        PROVE  b.buf[Slot(b, i)] \in Chars
    <2>1. i \in 1..N
      BY <1>1, <1>2, SMTT(30)
    <2> QED
      BY <1>1, <2>1, SlotIs
  <1> QED
    BY <1>2, <1>3, SMTT(30) DEF Ring

\* buffer_put appends, unless the buffer is full.
LEMMA PutAppends ==
  ASSUME NEW b \in BufferType, NEW c \in Chars, ~buffer_full(b)
  PROVE  /\ buffer_put(b, c) \in BufferType
         /\ Held(buffer_put(b, c)) = Held(b) + 1
         /\ Ring(buffer_put(b, c)) = Append(Ring(b), c)
  <1> DEFINE p == buffer_put(b, c)
  <1>1. N \in Nat \ {0, 1} /\ b.head \in 0..(N - 1) /\ b.tail \in 0..(N - 1)
        /\ b.buf \in [0..(N - 1) -> Chars]
    BY UartAssumption DEF N, BufferType, Indices
  <1>2. (b.head + 1) % N = IF b.head + 1 < N THEN b.head + 1 ELSE b.head + 1 - N
    BY <1>1, Wrap, SMTT(30)
  <1>3. /\ p.tail = b.tail
        /\ p.head = IF b.head + 1 < N THEN b.head + 1 ELSE b.head + 1 - N
        /\ p.buf = [b.buf EXCEPT ![b.head] = c]
    BY <1>1, <1>2 DEF buffer_put, BufferType, N
  <1>4. p \in BufferType
    <2>1. (b.head + 1) % N \in Indices
      BY <1>1, <1>2, SMTT(30) DEF Indices, N
    <2> QED
      BY <2>1 DEF buffer_put, BufferType, N
  <1>5. Held(b) \in 0..(N - 2)
    BY <1>1, HeldIs, SMTT(30)
  <1> HIDE DEF p
  <1>6. Held(p) = Held(b) + 1
    <2>1. Held(p) = IF p.head < p.tail THEN p.head - p.tail + N ELSE p.head - p.tail
      BY <1>4, HeldIs
    <2>2. Held(b) = IF b.head < b.tail THEN b.head - b.tail + N ELSE b.head - b.tail
      BY HeldIs
    <2>3. CASE b.head < b.tail
      <3>1. Held(b) = b.head - b.tail + N /\ p.head = b.head + 1
        BY <1>1, <1>3, <2>2, <2>3, SMTT(30)
      <3>2. p.head < p.tail
        BY <1>1, <1>3, <1>5, <3>1, SMTT(30)
      <3> QED
        BY <1>1, <1>3, <2>1, <3>1, <3>2, SMTT(30)
    <2>4. CASE b.head >= b.tail
      BY <1>1, <1>3, <1>5, <2>1, <2>2, <2>4, SMTT(30)
    <2> QED
      BY <1>1, <2>3, <2>4, SMTT(30)
  <1>7. ASSUME NEW i \in 1..(Held(b) + 1)
        PROVE  p.buf[Slot(p, i)] = Append(Ring(b), c)[i]
    <2>1. i \in 1..N
      BY <1>1, <1>5, SMTT(30)
    <2>2. /\ Slot(b, i) = IF b.tail + i - 1 < N THEN b.tail + i - 1 ELSE b.tail + i - 1 - N
          /\ Slot(b, i) \in 0..(N - 1) /\ Slot(p, i) = Slot(b, i)
      BY <1>3, <1>4, <2>1, SlotIs DEF Slot
    <2>3. Held(b) = IF b.head < b.tail THEN b.head - b.tail + N ELSE b.head - b.tail
      BY HeldIs
    <2>4. CASE i = Held(b) + 1
      <3>1. Slot(b, i) = b.head
        <4>1. CASE b.head < b.tail
          <5>1. i = b.head - b.tail + N + 1
            BY <2>3, <2>4, <4>1
          <5> QED
            BY <1>1, <2>2, <4>1, <5>1, SMTT(30)
        <4>2. CASE b.head >= b.tail
          BY <1>1, <2>2, <2>3, <2>4, <4>2, SMTT(30)
        <4> QED
          BY <1>1, <4>1, <4>2, SMTT(30)
      <3>2. Append(Ring(b), c)[i] = c
        BY <2>4, <1>5, RingIsSeq, SMTT(30)
      <3> QED
        BY <1>1, <1>3, <2>2, <3>1, <3>2
    <2>5. CASE i \in 1..Held(b)
      <3>1. Slot(b, i) # b.head
        BY <1>1, <1>5, <2>2, <2>3, <2>5, SMTT(30)
      <3>2. Append(Ring(b), c)[i] = Ring(b)[i]
        BY <2>5, <1>5, RingIsSeq, SMTT(30)
      <3> QED
        BY <1>1, <1>3, <2>2, <2>5, <3>1, <3>2 DEF Ring
    <2>6. i = Held(b) + 1 \/ i \in 1..Held(b)
      BY <1>5, SMTT(30)
    <2> QED
      BY <2>4, <2>5, <2>6
  <1>8. Ring(p) = Append(Ring(b), c)
    <2>1. Append(Ring(b), c) \in Seq(Chars) /\ Len(Append(Ring(b), c)) = Held(b) + 1
      BY <1>5, RingIsSeq, SMTT(30)
    <2>2. Ring(p) \in Seq(Chars) /\ Len(Ring(p)) = Held(b) + 1
      BY <1>4, <1>6, RingIsSeq
    <2>3. \A i \in 1..(Held(b) + 1) : Ring(p)[i] = Append(Ring(b), c)[i]
      BY <1>6, <1>7 DEF Ring
    <2> QED
      BY <2>1, <2>2, <2>3, SMTT(30)
  <1> QED
    BY <1>4, <1>6, <1>8 DEF p

\* buffer_get takes the first character.
LEMMA GetTails ==
  ASSUME NEW b \in BufferType, ~buffer_empty(b)
  PROVE  /\ buffer_get(b) \in BufferType
         /\ Held(buffer_get(b)) = Held(b) - 1
         /\ Ring(buffer_get(b)) = Tail(Ring(b))
         /\ b.buf[b.tail] = Head(Ring(b))
  <1> DEFINE p == buffer_get(b)
  <1>1. N \in Nat \ {0, 1} /\ b.head \in 0..(N - 1) /\ b.tail \in 0..(N - 1)
        /\ b.buf \in [0..(N - 1) -> Chars]
    BY UartAssumption DEF N, BufferType, Indices
  <1>2. (b.tail + 1) % N = IF b.tail + 1 < N THEN b.tail + 1 ELSE b.tail + 1 - N
    BY <1>1, Wrap, SMTT(30)
  <1>3. /\ p.tail = IF b.tail + 1 < N THEN b.tail + 1 ELSE b.tail + 1 - N
        /\ p.head = b.head /\ p.buf = b.buf
    BY <1>1, <1>2 DEF buffer_get, BufferType, N
  <1>4. p \in BufferType
    <2>1. (b.tail + 1) % N \in Indices
      BY <1>1, <1>2, SMTT(30) DEF Indices, N
    <2> QED
      BY <2>1 DEF buffer_get, BufferType, N
  <1>5. Held(b) \in 1..(N - 1)
    BY <1>1, HeldIs, SMTT(30)
  <1> HIDE DEF p
  <1>6. Held(p) = Held(b) - 1
    <2>1. Held(p) = IF p.head < p.tail THEN p.head - p.tail + N ELSE p.head - p.tail
      BY <1>4, HeldIs
    <2>2. Held(b) = IF b.head < b.tail THEN b.head - b.tail + N ELSE b.head - b.tail
      BY HeldIs
    <2>3. CASE b.head < b.tail
      BY <1>1, <1>3, <1>5, <2>1, <2>2, <2>3, SMTT(30)
    <2>4. CASE b.head >= b.tail
      BY <1>1, <1>3, <1>5, <2>1, <2>2, <2>4, SMTT(30)
    <2> QED
      BY <1>1, <2>3, <2>4, SMTT(30)
  <1>7. Ring(b) \in Seq(Chars) /\ Len(Ring(b)) = Held(b) /\ Ring(b) # <<>>
    BY <1>5, RingIsSeq, SMTT(30)
  <1>8. b.buf[b.tail] = Head(Ring(b))
    <2>1. Slot(b, 1) = b.tail
      BY <1>1, SlotIs, SMTT(30)
    <2>2. Ring(b)[1] = b.buf[b.tail]
      BY <1>5, <2>1, SMTT(30) DEF Ring
    <2> QED
      BY <1>7, <2>2, SMTT(30)
  <1>9. ASSUME NEW i \in 1..(Held(b) - 1)
        PROVE  Ring(p)[i] = Tail(Ring(b))[i]
    <2>1. i \in 1..N /\ i + 1 \in 1..N
      BY <1>1, <1>5, SMTT(30)
    <2>2. /\ Slot(p, i) = IF p.tail + i - 1 < N THEN p.tail + i - 1 ELSE p.tail + i - 1 - N
          /\ Slot(b, i + 1) = IF b.tail + (i + 1) - 1 < N THEN b.tail + (i + 1) - 1
                                                         ELSE b.tail + (i + 1) - 1 - N
      BY <1>4, <2>1, SlotIs
    <2>3. Slot(p, i) = Slot(b, i + 1)
      <3>1. CASE b.tail + 1 < N
        <4>1. p.tail = b.tail + 1
          BY <1>3, <3>1
        <4> QED
          BY <1>1, <2>1, <2>2, <4>1, SMTT(30)
      <3>2. CASE b.tail + 1 = N
        BY <1>1, <1>3, <1>5, <2>2, <3>2, SMTT(30)
      <3> QED
        BY <1>1, <3>1, <3>2, SMTT(30)
    <2>4. Tail(Ring(b))[i] = Ring(b)[i + 1] /\ i + 1 \in 1..Held(b) /\ i \in 1..Held(p)
      BY <1>5, <1>6, <1>7, SMTT(30)
    <2> QED
      BY <1>3, <2>3, <2>4 DEF Ring
  <1>10. Ring(p) \in Seq(Chars) /\ Len(Ring(p)) = Held(b) - 1
    BY <1>4, <1>6, RingIsSeq
  <1>11. Ring(p) = Tail(Ring(b))
    <2>1. Tail(Ring(b)) \in Seq(Chars) /\ Len(Tail(Ring(b))) = Held(b) - 1
      BY <1>7, SMTT(30)
    <2> QED
      BY <1>9, <1>10, <2>1, SMTT(30)
  <1> QED
    BY <1>4, <1>6, <1>8, <1>11 DEF p
-----------------------------------------------------------------------------
\* How the two ends of two sequences in a row move
LEMMA Queued ==
  ASSUME NEW s \in Seq(Chars), NEW q \in Seq(Chars)
  PROVE  /\ \A c \in Chars : s \o Append(q, c) = Append(s \o q, c)
         /\ q # <<>> => Append(s, Head(q)) \o Tail(q) = s \o q
         /\ s # <<>> => /\ s \o q # <<>> /\ Head(s) = Head(s \o q)
                        /\ Tail(s) \o q = Tail(s \o q)
  <1>1. ASSUME NEW c \in Chars
        PROVE  s \o Append(q, c) = Append(s \o q, c)
    BY SMTT(30)
  <1>2. ASSUME q # <<>>
        PROVE  Append(s, Head(q)) \o Tail(q) = s \o q
    BY <1>2, SMTT(30)
  <1>3. ASSUME s # <<>>
        PROVE  s \o q # <<>> /\ Head(s) = Head(s \o q) /\ Tail(s) \o q = Tail(s \o q)
    BY <1>3, SMTT(30)
  <1> QED
    BY <1>1, <1>2, <1>3

\* The element that is dropped is the first of the second one.
LEMMA Dropped ==
  ASSUME NEW s \in Seq(Chars), NEW q \in Seq(Chars), q # <<>>
  PROVE  /\ Len(s \o q) > Len(s)
         /\ s \o Tail(q) = Tty!DropAt(s \o q, Len(s) + 1)
  <1> DEFINE z == s \o q
             f == SubSeq(z, 1, Len(s))
             g == SubSeq(z, Len(s) + 2, Len(z))
  <1>1. z \in Seq(Chars) /\ Len(z) = Len(s) + Len(q) /\ Len(q) > 0
    BY SMTT(30)
  <1>2. f = s
    BY <1>1, SMTT(30)
  <1>3. g = Tail(q)
    BY <1>1, SMTT(30)
  <1>4. PICK m : m = Len(s) + 1
    OBVIOUS
  <1>5. m - 1 = Len(s) /\ m + 1 = Len(s) + 2
    BY <1>4, SMTT(30)
  <1>6. Tty!DropAt(z, m) = f \o g
    BY <1>5 DEF Tty!DropAt
  <1>7. s \o Tail(q) = Tty!DropAt(z, Len(s) + 1)
    BY <1>2, <1>3, <1>4, <1>6
  <1> QED
    BY <1>1, <1>7, SMTT(30)
-----------------------------------------------------------------------------
\* The readers past sem_wait are finitely many.
LEMMA GettersFinite == IsFiniteSet(Getters) /\ Cardinality(Getters) \in Nat
  BY UartAssumption, FS_Subset, FS_CardinalityType DEF Getters

\* uart_init establishes the invariant.
LEMMA InitInv == UartInit => UartInv /\ Ring(rx_buffer) = <<>>
  <1> SUFFICES ASSUME UartInit
               PROVE  UartInv /\ Ring(rx_buffer) = <<>>
    OBVIOUS
  <1>1. N \in Nat \ {0, 1} /\ Indices = 0..(N - 1)
    BY UartAssumption DEF N, Indices
  <1>2. rx_buffer \in BufferType /\ rx_buffer.head = 0 /\ rx_buffer.tail = 0
    BY <1>1, UartAssumption, SMTT(30) DEF UartInit, BufferType
  <1>3. Held(rx_buffer) = 0
    BY <1>2, HeldIs, SMTT(30)
  <1>4. Getters = {}
    BY DEF Getters, UartInit
  <1>5. Cardinality(Getters) = 0
    BY <1>4, FS_EmptySet
  <1>6. UartTypeOK
    <2>1. fifo \in Seq(Chars) /\ Len(fifo) <= FifoDepth /\ 0 \in 0..(UART_RX_BUFFER_SIZE - 1)
      BY UartAssumption, SMTT(30) DEF UartInit
    <2>2. rx_buffer \in [buf : [Indices -> Chars], head : Indices, tail : Indices]
      BY <1>2 DEF BufferType
    <2>3. rxen \in BOOLEAN /\ claimed \in BOOLEAN
      BY DEF UartInit
    <2>4. reader \in [Readers -> {"idle", "wait", "get"}] /\ fill_signal \in 0..1
      BY SMTT(30) DEF UartInit
    <2> QED
      BY <2>1, <2>2, <2>3, <2>4, UartAssumption DEF UartTypeOK, UartInit
  <1>7. CharsAreCounted
    BY <1>3, <1>5, <1>6, SMTT(30) DEF CharsAreCounted, Getters, UartInit
  <1>8. Ring(rx_buffer) \in Seq(Chars) /\ Len(Ring(rx_buffer)) = 0
    BY <1>2, <1>3, RingIsSeq
  <1> QED
    BY <1>7, <1>8, SMTT(30) DEF UartInv, OneSignal, UartInit

\* What the invariant says, in the terms of the lemmas
LEMMA Counted ==
  ASSUME UartInv
  PROVE  /\ rx_buffer \in BufferType /\ fifo \in Seq(Chars) /\ rx_count \in Nat
         /\ Ring(rx_buffer) \in Seq(Chars) /\ Len(Ring(rx_buffer)) = Held(rx_buffer)
         /\ Held(rx_buffer) \in 0..(N - 1)
         /\ Held(rx_buffer) = rx_count + Cardinality(Getters) + (IF daemon = "post" THEN 1 ELSE 0)
  <1>1. rx_buffer \in BufferType /\ fifo \in Seq(Chars) /\ rx_count \in Nat
    BY UartAssumption, SMTT(30) DEF UartInv, CharsAreCounted, UartTypeOK, BufferType
  <1>2. Held(rx_buffer) = rx_count + Cardinality(Getters) + (IF daemon = "post" THEN 1 ELSE 0)
    BY DEF UartInv, CharsAreCounted, Getters
  <1> QED
    BY <1>1, <1>2, HeldIs, RingIsSeq

\* A reader that sem_wait let through finds a character.
LEMMA GetFindsOne ==
  ASSUME UartInv, NEW r \in Readers, reader[r] = "get"
  PROVE  ~buffer_empty(rx_buffer)
  <1>1. r \in Getters
    BY DEF Getters
  <1>2. Cardinality(Getters) > 0
    BY <1>1, GettersFinite, FS_EmptySet, SMTT(30)
  <1>3. Held(rx_buffer) > 0
    BY <1>2, Counted, GettersFinite, SMTT(30)
  <1> QED
    BY <1>3, Counted, HeldIs, SMTT(30)

\* The bound of rx_count follows from the room in the buffer.
LEMMA CountFits ==
  ASSUME NEW b \in BufferType, NEW n \in Nat, NEW k \in Nat, NEW p \in {0, 1}, Held(b) = n + k + p
  PROVE  n \in 0..(UART_RX_BUFFER_SIZE - 1)
  <1>1. Held(b) \in 0..(N - 1)
    BY HeldIs
  <1> QED
    BY <1>1, UartAssumption, SMTT(30) DEF N
-----------------------------------------------------------------------------
(* The steps.  What each does to the characters not yet read goes with it. *)

\* The buffer, the readers and the daemon's count decide about CharsAreCounted.
LEMMA CountsStay ==
  ASSUME UartInv, UartTypeOK', OneSignal', UNCHANGED <<rx_buffer, rx_count, reader>>,
         daemon' = "post" <=> daemon = "post"
  PROVE  UartInv'
  <1>1. Getters' = Getters
    BY DEF Getters
  <1>2. Held(rx_buffer') = rx_count' + Cardinality(Getters') + (IF daemon' = "post" THEN 1 ELSE 0)
    BY <1>1, Counted
  <1> QED
    BY <1>2 DEF UartInv, CharsAreCounted, Getters

\* A character arrives.
LEMMA ArriveStep ==
  ASSUME UartInv, NEW c \in Chars, Arrive(c)
  PROVE  UartInv' /\ Unread' = Append(Unread, c) /\ UNCHANGED read
  <1>1. fifo' \in Seq(Chars) /\ Len(fifo') <= FifoDepth
    BY UartAssumption, Counted, SMTT(30) DEF Arrive
  <1>2. UartTypeOK' /\ OneSignal'
    BY <1>1 DEF UartInv, CharsAreCounted, UartTypeOK, OneSignal, Arrive
  <1>3. Ring(rx_buffer) \o Append(fifo, c) = Append(Ring(rx_buffer) \o fifo, c)
    BY Counted, Queued
  <1> QED
    BY <1>2, <1>3, CountsStay DEF Arrive, Unread, Ring, Slot, N

\* The handler posts fill_signal once, because it clears RXEN.
LEMMA HandlerStep ==
  ASSUME UartInv, uart_irq_handler
  PROVE  UartInv' /\ UNCHANGED <<Unread, read>>
  <1>1. fill_signal = 0 /\ daemon = "wait"
    <2>1. fill_signal \in 0..1 /\ fill_signal # 1 /\ daemon = "wait"
      BY DEF UartInv, CharsAreCounted, UartTypeOK, OneSignal, uart_irq_handler
    <2> QED
      BY <2>1, SMTT(30)
  <1>2. fill_signal' \in 0..1
    BY <1>1, SMTT(30) DEF uart_irq_handler
  <1>3. UartTypeOK' /\ OneSignal'
    BY <1>1, <1>2 DEF UartInv, CharsAreCounted, UartTypeOK, OneSignal, uart_irq_handler
  <1> QED
    BY <1>3, CountsStay DEF uart_irq_handler, Unread

\* complete_plic
LEMMA CompleteStep ==
  ASSUME UartInv, Complete
  PROVE  UartInv' /\ UNCHANGED <<Unread, read>>
  <1>1. UartTypeOK' /\ OneSignal'
    BY DEF UartInv, CharsAreCounted, UartTypeOK, OneSignal, Complete
  <1> QED
    BY <1>1, CountsStay DEF Complete, Unread

\* The daemon's sem_wait
LEMMA WaitStep ==
  ASSUME UartInv, fill_rx_buff_daemon
  PROVE  UartInv' /\ UNCHANGED <<Unread, read>>
  <1>1. fill_signal = 1 /\ fill_signal' = 0 /\ fill_signal' \in 0..1 /\ fill_signal' # 1
    BY SMTT(30) DEF UartInv, CharsAreCounted, UartTypeOK, fill_rx_buff_daemon
  <1>2. UartTypeOK' /\ OneSignal'
    BY <1>1 DEF UartInv, CharsAreCounted, UartTypeOK, OneSignal, fill_rx_buff_daemon
  <1>3. daemon' # "post" /\ daemon # "post"
    BY DEF fill_rx_buff_daemon
  <1> QED
    BY <1>2, <1>3, CountsStay DEF fill_rx_buff_daemon, Unread

\* The daemon takes a character from the fifo: it moves into the ring buffer, or
\* is lost when that one is full.
LEMMA FillStep ==
  ASSUME UartInv, Fill
  PROVE  /\ UartInv' /\ UNCHANGED read
         /\ Unread' = Unread \/ Tty!Lose
  <1>1. Head(fifo) \in Chars /\ Tail(fifo) \in Seq(Chars) /\ Len(Tail(fifo)) <= FifoDepth
    BY UartAssumption, Counted, SMTT(30) DEF Fill, UartInv, CharsAreCounted, UartTypeOK
  <1>2. fill_signal # 1 /\ ~rxen
    BY DEF UartInv, OneSignal, Fill
  <1>3. OneSignal'
    BY <1>2 DEF OneSignal, Fill
  <1>4. Getters' = Getters
    BY DEF Getters, Fill
  <1>5. CASE buffer_full(rx_buffer)
    <2>1. UNCHANGED <<rx_buffer, rx_count, reader>> /\ daemon' = "test" /\ daemon = "test"
      BY <1>5 DEF Fill, buffer_put
    <2>2. UartTypeOK'
      BY <1>1, <2>1 DEF UartInv, CharsAreCounted, UartTypeOK, Fill
    <2>3. UartInv'
      BY <1>3, <2>1, <2>2, CountsStay
    <2>4. Len(Ring(rx_buffer)) = UART_RX_BUFFER_SIZE - 1
      BY <1>5, Counted, HeldIs DEF N
    <2>5. /\ Len(Ring(rx_buffer) \o fifo) > UART_RX_BUFFER_SIZE - 1
          /\ Ring(rx_buffer) \o Tail(fifo)
               = Tty!DropAt(Ring(rx_buffer) \o fifo, UART_RX_BUFFER_SIZE - 1 + 1)
      BY <2>4, Counted, Dropped DEF Fill
    <2>6. Unread = Ring(rx_buffer) \o fifo /\ Unread' = Ring(rx_buffer) \o Tail(fifo)
      BY <2>1 DEF Unread, Ring, Slot, N, Fill
    <2>7. Tty!Lose
      BY <2>5, <2>6 DEF Tty!Lose, Fill
    <2> QED
      BY <2>3, <2>7 DEF Fill
  <1>6. CASE ~buffer_full(rx_buffer)
    <2>1. /\ rx_buffer' \in BufferType
          /\ Held(rx_buffer') = Held(rx_buffer) + 1
          /\ Ring(rx_buffer') = Append(Ring(rx_buffer), Head(fifo))
      BY <1>1, <1>6, Counted, PutAppends DEF Fill
    <2>2. daemon' = "post" /\ daemon = "test" /\ rx_count' = rx_count
      BY <1>6 DEF Fill
    <2>3. Held(rx_buffer') = rx_count' + Cardinality(Getters') + 1
      BY <1>4, <2>1, <2>2, Counted, GettersFinite, SMTT(30)
    <2>4. UartTypeOK'
      BY <1>1, <2>1, <2>2 DEF UartInv, CharsAreCounted, UartTypeOK, BufferType, Fill
    <2>5. UartInv'
      BY <1>3, <2>2, <2>3, <2>4 DEF UartInv, CharsAreCounted, Getters
    <2>6. Append(Ring(rx_buffer), Head(fifo)) \o Tail(fifo) = Ring(rx_buffer) \o fifo
      BY Counted, Queued DEF Fill
    <2>7. Unread = Ring(rx_buffer) \o fifo /\ Unread' = Ring(rx_buffer') \o Tail(fifo)
      BY DEF Unread, Ring, Slot, N, Fill
    <2> QED
      BY <2>1, <2>5, <2>6, <2>7 DEF Fill
  <1> QED
    BY <1>5, <1>6

\* The daemon's sem_post: the character it put is counted.
LEMMA PostStep ==
  ASSUME UartInv, PostChar
  PROVE  UartInv' /\ UNCHANGED <<Unread, read>>
  <1>1. Getters' = Getters /\ rx_buffer' = rx_buffer
    BY DEF Getters, PostChar
  <1>2. daemon = "post" /\ daemon' = "test" /\ rx_count' = rx_count + 1 /\ rx_count' \in Nat
    BY Counted, SMTT(30) DEF PostChar
  <1>3. Held(rx_buffer') = rx_count' + Cardinality(Getters') + 0
    BY <1>1, <1>2, Counted, GettersFinite, SMTT(30)
  <1>4. rx_count' \in 0..(UART_RX_BUFFER_SIZE - 1)
    BY <1>1, <1>2, <1>3, Counted, CountFits, GettersFinite
  <1>5. UartTypeOK' /\ OneSignal'
    BY <1>2, <1>4 DEF UartInv, CharsAreCounted, UartTypeOK, OneSignal, PostChar
  <1>6. UartInv'
    BY <1>2, <1>3, <1>5 DEF UartInv, CharsAreCounted, Getters
  <1> QED
    BY <1>6 DEF PostChar, Unread

\* The daemon leaves its loop.
LEMMA NoDataStep ==
  ASSUME UartInv, NoData
  PROVE  UartInv' /\ UNCHANGED <<Unread, read>>
  <1>1. UartTypeOK' /\ OneSignal'
    BY DEF UartInv, CharsAreCounted, UartTypeOK, OneSignal, NoData
  <1>2. daemon' # "post" /\ daemon # "post"
    BY DEF NoData
  <1> QED
    BY <1>1, <1>2, CountsStay DEF NoData, Unread

\* uart_enable_rxirq comes when no signal is left.
LEMMA EnableStep ==
  ASSUME UartInv, Enable
  PROVE  UartInv' /\ UNCHANGED <<Unread, read>>
  <1>1. daemon = "enable" /\ daemon' = "wait" /\ daemon # "wait" /\ daemon # "post" /\ daemon' # "post"
    BY DEF Enable
  <1>2. fill_signal # 1
    BY <1>1 DEF UartInv, OneSignal
  <1>3. UartTypeOK' /\ OneSignal'
    BY <1>1, <1>2 DEF UartInv, CharsAreCounted, UartTypeOK, OneSignal, Enable
  <1> QED
    BY <1>1, <1>3, CountsStay DEF Enable, Unread

\* A task enters uart_read.
LEMMA CallStep ==
  ASSUME UartInv, NEW r \in Readers, Call(r)
  PROVE  UartInv' /\ UNCHANGED <<Unread, read>>
  <1>1. reader \in [Readers -> {"idle", "wait", "get"}]
    BY DEF UartInv, CharsAreCounted, UartTypeOK
  <1>2. reader' \in [Readers -> {"idle", "wait", "get"}] /\ Getters' = Getters
    BY <1>1 DEF Call, Getters
  <1>3. UartTypeOK' /\ OneSignal'
    BY <1>2 DEF UartInv, CharsAreCounted, UartTypeOK, OneSignal, Call
  <1>4. Held(rx_buffer') = rx_count' + Cardinality(Getters') + (IF daemon' = "post" THEN 1 ELSE 0)
    BY <1>2, Counted DEF Call
  <1>5. UartInv'
    BY <1>3, <1>4 DEF UartInv, CharsAreCounted, Getters
  <1> QED
    BY <1>5 DEF Call, Unread

\* sem_wait grants a character to a reader.
LEMMA ReadStep ==
  ASSUME UartInv, NEW r \in Readers, uart_read(r)
  PROVE  UartInv' /\ UNCHANGED <<Unread, read>>
  <1>1. reader \in [Readers -> {"idle", "wait", "get"}]
    BY DEF UartInv, CharsAreCounted, UartTypeOK
  <1>2. /\ reader' \in [Readers -> {"idle", "wait", "get"}]
        /\ Getters' = Getters \cup {r} /\ r \notin Getters
    BY <1>1 DEF uart_read, Getters
  <1>3. Cardinality(Getters') = Cardinality(Getters) + 1
    BY <1>2, FS_AddElement, GettersFinite
  <1>4. rx_count' = rx_count - 1 /\ rx_count' \in Nat /\ UNCHANGED <<rx_buffer, daemon>>
    BY Counted, SMTT(30) DEF uart_read
  <1>5. Held(rx_buffer') = rx_count' + Cardinality(Getters') + (IF daemon' = "post" THEN 1 ELSE 0)
    BY <1>3, <1>4, Counted, GettersFinite, SMTT(30)
  <1>6. rx_count' \in 0..(UART_RX_BUFFER_SIZE - 1)
    BY <1>4, UartAssumption, SMTT(30) DEF UartInv, CharsAreCounted, UartTypeOK
  <1>7. UartTypeOK' /\ OneSignal'
    BY <1>2, <1>6 DEF UartInv, CharsAreCounted, UartTypeOK, OneSignal, uart_read
  <1>8. UartInv'
    BY <1>5, <1>7 DEF UartInv, CharsAreCounted, Getters
  <1> QED
    BY <1>8 DEF uart_read, Unread

\* buffer_get returns the oldest character.
LEMMA GetStep ==
  ASSUME UartInv, NEW r \in Readers, Get(r)
  PROVE  UartInv' /\ Tty!Read
  <1>1. reader \in [Readers -> {"idle", "wait", "get"}] /\ reader[r] = "get"
    BY DEF UartInv, CharsAreCounted, UartTypeOK, Get
  <1>2. ~buffer_empty(rx_buffer)
    BY <1>1, GetFindsOne
  <1>3. read' = rx_buffer.buf[rx_buffer.tail] /\ rx_buffer' = buffer_get(rx_buffer)
    BY <1>2 DEF Get
  <1>4. /\ reader' \in [Readers -> {"idle", "wait", "get"}]
        /\ Getters' = Getters \ {r} /\ r \in Getters
    BY <1>1 DEF Get, Getters
  <1>5. Cardinality(Getters') = Cardinality(Getters) - 1
    BY <1>4, FS_RemoveElement, GettersFinite
  <1>6. /\ rx_buffer' \in BufferType /\ Held(rx_buffer') = Held(rx_buffer) - 1
        /\ Ring(rx_buffer') = Tail(Ring(rx_buffer)) /\ read' = Head(Ring(rx_buffer))
    BY <1>2, <1>3, Counted, GetTails
  <1>7. Ring(rx_buffer) # <<>> /\ read' \in Chars
    BY <1>2, <1>6, Counted, HeldIs, SMTT(30)
  <1>8. Held(rx_buffer') = rx_count' + Cardinality(Getters') + (IF daemon' = "post" THEN 1 ELSE 0)
    BY <1>5, <1>6, Counted, GettersFinite, SMTT(30) DEF Get
  <1>9. UartTypeOK' /\ OneSignal'
    BY <1>4, <1>6, <1>7 DEF UartInv, CharsAreCounted, UartTypeOK, OneSignal, BufferType, Get
  <1>10. UartInv'
    BY <1>8, <1>9 DEF UartInv, CharsAreCounted, Getters
  <1>11. Unread = Ring(rx_buffer) \o fifo /\ Unread' = Ring(rx_buffer') \o fifo
    BY DEF Unread, Ring, Slot, N, Get
  <1>12. Tty!Read
    BY <1>6, <1>7, <1>11, Counted, Queued DEF Tty!Read
  <1> QED
    BY <1>10, <1>12
-----------------------------------------------------------------------------
\* Every step keeps the invariant, and is a step of a terminal or none.
LEMMA Inductive ==
  ASSUME UartInv, [UartNext]_uartvars
  PROVE  UartInv' /\ [Tty!Next]_<<Unread, read>>
  <1>1. CASE UNCHANGED uartvars
    <2>1. UartInv'
      BY <1>1 DEF uartvars, UartInv, CharsAreCounted, UartTypeOK, OneSignal, Held
    <2> QED
      BY <1>1, <2>1 DEF uartvars, Unread
  <1>2. ASSUME NEW c \in Chars, Arrive(c)
        PROVE  UartInv' /\ Tty!Next
    BY <1>2, ArriveStep DEF Tty!Next, Tty!Type
  <1>3. CASE uart_irq_handler \/ Complete
    BY <1>3, HandlerStep, CompleteStep
  <1>4. CASE Daemon
    <2>1. CASE Fill
      BY <2>1, FillStep DEF Tty!Next
    <2>2. CASE fill_rx_buff_daemon \/ PostChar \/ NoData \/ Enable
      BY <2>2, WaitStep, PostStep, NoDataStep, EnableStep
    <2> QED
      BY <1>4, <2>1, <2>2 DEF Daemon
  <1>5. ASSUME NEW r \in Readers, Call(r) \/ uart_read(r)
        PROVE  UartInv' /\ UNCHANGED <<Unread, read>>
    BY <1>5, CallStep, ReadStep
  <1>6. ASSUME NEW r \in Readers, Get(r)
        PROVE  UartInv' /\ Tty!Next
    BY <1>6, GetStep DEF Tty!Next
  <1> QED
    BY <1>1, <1>2, <1>3, <1>4, <1>5, <1>6 DEF UartNext

\* The invariant holds in every state.
LEMMA InvAlways == UartSpec => []UartInv
  <1>1. UartInit => UartInv
    BY InitInv
  <1>2. UartInv /\ [UartNext]_uartvars => UartInv'
    BY Inductive
  <1> QED
    BY <1>1, <1>2, PTL DEF UartSpec

\* rx_count, the readers past sem_wait and the daemon account for every character
\* of the ring buffer: buffer_get never makes up a character, whatever the size
\* of the buffer and the number of readers.
THEOREM CountsCorrect == UartSpec => []CharsAreCounted
  <1>1. UartInv => CharsAreCounted
    BY DEF UartInv
  <1> QED
    BY <1>1, InvAlways, PTL

\* The handler, the daemon and uart_read together are a terminal: reads return
\* the characters in the order they came, each once, and one is lost only behind
\* a full ring buffer.
THEOREM TtyCorrect == UartSpec => ImplementsTty
  <1>1. UartInit => Tty!Init
    <2>1. ASSUME UartInit
          PROVE  Unread = <<>> /\ read \in Chars
      <3>1. Unread = Ring(rx_buffer) \o fifo
        BY DEF Unread, Ring, Slot, N
      <3>2. Ring(rx_buffer) = <<>> /\ fifo = <<>>
        BY <2>1, InitInv DEF UartInit
      <3> QED
        BY <2>1, <3>1, <3>2, UartAssumption, SMTT(30) DEF UartInit
    <2> QED
      BY <2>1 DEF Tty!Init
  <1>2. UartInv /\ [UartNext]_uartvars => [Tty!Next]_<<Unread, read>>
    BY Inductive
  <1> QED
    BY <1>1, <1>2, InvAlways, PTL DEF UartSpec, ImplementsTty, Tty!Spec
=============================================================================
