------------------------------- MODULE Uart --------------------------------
(***************************************************************************)
(* The receiving side of drivers/uart/ns16550.c: the interrupt handler,    *)
(* the daemon that empties the fifo of the device into the ring buffer,    *)
(* and the tasks in uart_read.  A step ends where another of them may run: *)
(* system calls, the only callers of uart_read, run with the interrupts    *)
(* masked, and no reader runs before the daemon, whose priority is HIGH,   *)
(* blocks.  The model lets readers in between its statements all the same. *)
(* The semaphores are those of AbstractSync.                               *)
(***************************************************************************)
EXTENDS Integers, Sequences, FiniteSets

CONSTANTS
  Readers,
  Chars,
  Nul,                   \* the character 0
  UART_RX_BUFFER_SIZE,
  FifoDepth              \* of the device

ASSUME UartAssumption ==
  /\ UART_RX_BUFFER_SIZE \in Nat \ {0, 1} /\ FifoDepth \in Nat \ {0} /\ Nul \in Chars
  /\ IsFiniteSet(Readers)

VARIABLES
  fifo,            \* the characters in the device
  rxen,            \* UART_IER_RXEN
  claimed,         \* the interrupt is claimed and not completed in the PLIC
  fill_signal,
  rx_count,
  rx_buffer,       \* buf, head and tail
  daemon,          \* the next statement of fill_rx_buff_daemon
  reader,          \* of each reader, the next statement of uart_read
  read             \* history: the character the last uart_read returned

uartvars == <<fifo, rxen, claimed, fill_signal, rx_count, rx_buffer, daemon, reader, read>>

Indices == 0..(UART_RX_BUFFER_SIZE - 1)

buffer_empty(b) == b.head = b.tail
buffer_full(b) == (b.head + 1) % UART_RX_BUFFER_SIZE = b.tail

\* Faulty buffer_put: it writes to the full buffer, which is then empty
StoredAlways(b, c) ==
  [b EXCEPT !.buf[b.head] = c, !.head = (@ + 1) % UART_RX_BUFFER_SIZE]

\* buffer_put returns an error and leaves the buffer alone when it is full.
buffer_put(b, c) ==
  IF buffer_full(b) THEN b
  ELSE [b EXCEPT !.buf[b.head] = c, !.head = (@ + 1) % UART_RX_BUFFER_SIZE]

\* What buffer_get leaves of a buffer that is not empty
buffer_get(b) == [b EXCEPT !.tail = (@ + 1) % UART_RX_BUFFER_SIZE]
-----------------------------------------------------------------------------
\* A character arrives; the device drops it when its fifo is full.
Arrive(c) ==
  /\ Len(fifo) < FifoDepth
  /\ fifo' = Append(fifo, c)
  /\ UNCHANGED <<rxen, claimed, fill_signal, rx_count, rx_buffer, daemon, reader, read>>

\* The interrupt is raised while there is data and RXEN is set.
uart_irq_handler ==
  /\ fifo # <<>> /\ rxen /\ ~claimed
  /\ rxen' = FALSE /\ claimed' = TRUE
  /\ fill_signal' = fill_signal + 1
  /\ UNCHANGED <<fifo, rx_count, rx_buffer, daemon, reader, read>>

\* complete_plic, when the interrupted task goes on: the daemon may run before
Complete ==
  /\ claimed
  /\ claimed' = FALSE
  /\ UNCHANGED <<fifo, rxen, fill_signal, rx_count, rx_buffer, daemon, reader, read>>

\* sem_wait(&fill_signal)
fill_rx_buff_daemon ==
  /\ daemon = "wait" /\ fill_signal > 0
  /\ fill_signal' = fill_signal - 1
  /\ daemon' = "test"
  /\ UNCHANGED <<fifo, rxen, claimed, rx_count, rx_buffer, reader, read>>

\* Faulty daemon: it posts for a character that it dropped too
FillCountsAll ==
  /\ daemon = "test" /\ fifo # <<>>
  /\ fifo' = Tail(fifo)
  /\ rx_buffer' = buffer_put(rx_buffer, Head(fifo))
  /\ daemon' = "post"
  /\ UNCHANGED <<rxen, claimed, fill_signal, rx_count, reader, read>>

\* An iteration of its loop up to sem_post
Fill ==
  /\ daemon = "test" /\ fifo # <<>>
  /\ fifo' = Tail(fifo)
  /\ rx_buffer' = buffer_put(rx_buffer, Head(fifo))
  /\ daemon' = IF buffer_full(rx_buffer) THEN "test" ELSE "post"
  /\ UNCHANGED <<rxen, claimed, fill_signal, rx_count, reader, read>>

\* sem_post(&rx_count)
PostChar ==
  /\ daemon = "post"
  /\ rx_count' = rx_count + 1
  /\ daemon' = "test"
  /\ UNCHANGED <<fifo, rxen, claimed, fill_signal, rx_buffer, reader, read>>

\* The loop ends: data may arrive before the interrupt is enabled again.
NoData ==
  /\ daemon = "test" /\ fifo = <<>>
  /\ daemon' = "enable"
  /\ UNCHANGED <<fifo, rxen, claimed, fill_signal, rx_count, rx_buffer, reader, read>>

\* Faulty daemon: it enables the interrupt only if no data came meanwhile
EnableIfEmpty ==
  /\ daemon = "enable"
  /\ rxen' = (fifo = <<>>)
  /\ daemon' = "wait"
  /\ UNCHANGED <<fifo, claimed, fill_signal, rx_count, rx_buffer, reader, read>>

\* uart_enable_rxirq()
Enable ==
  /\ daemon = "enable"
  /\ rxen' = TRUE
  /\ daemon' = "wait"
  /\ UNCHANGED <<fifo, claimed, fill_signal, rx_count, rx_buffer, reader, read>>

\* A task calls uart_read.
Call(r) ==
  /\ reader[r] = "idle"
  /\ reader' = [reader EXCEPT ![r] = "wait"]
  /\ UNCHANGED <<fifo, rxen, claimed, fill_signal, rx_count, rx_buffer, daemon, read>>

\* sem_wait(&rx_count)
uart_read(r) ==
  /\ reader[r] = "wait" /\ rx_count > 0
  /\ rx_count' = rx_count - 1
  /\ reader' = [reader EXCEPT ![r] = "get"]
  /\ UNCHANGED <<fifo, rxen, claimed, fill_signal, rx_buffer, daemon, read>>

\* buffer_get, which returns 0 of an empty buffer, and the return
Get(r) ==
  /\ reader[r] = "get"
  /\ IF buffer_empty(rx_buffer)
     THEN read' = Nul /\ UNCHANGED rx_buffer
     ELSE /\ read' = rx_buffer.buf[rx_buffer.tail]
          /\ rx_buffer' = buffer_get(rx_buffer)
  /\ reader' = [reader EXCEPT ![r] = "idle"]
  /\ UNCHANGED <<fifo, rxen, claimed, fill_signal, rx_count, daemon>>
-----------------------------------------------------------------------------
\* uart_init enabled the interrupt; a static buffer is zeroed.
UartInit ==
  /\ fifo = <<>> /\ rxen = TRUE /\ claimed = FALSE
  /\ fill_signal = 0 /\ rx_count = 0
  /\ read = Nul
  /\ rx_buffer = [buf |-> [i \in Indices |-> Nul], head |-> 0, tail |-> 0]
  /\ daemon = "wait" /\ reader = [r \in Readers |-> "idle"]

Daemon == fill_rx_buff_daemon \/ Fill \/ PostChar \/ NoData \/ Enable

UartNext ==
  \/ \E c \in Chars : Arrive(c)
  \/ uart_irq_handler \/ Complete \/ Daemon
  \/ \E r \in Readers : Call(r) \/ uart_read(r) \/ Get(r)

UartSpec == UartInit /\ [][UartNext]_uartvars

\* The interrupted task goes on some time, the daemon has the highest priority,
\* and a reader whose semaphore is posted runs.
UartFairness ==
  /\ WF_uartvars(uart_irq_handler) /\ WF_uartvars(Complete) /\ WF_uartvars(Daemon)
  /\ \A r \in Readers : WF_uartvars(uart_read(r)) /\ WF_uartvars(Get(r))
-----------------------------------------------------------------------------
(* Properties.                                                             *)

\* The types; fill_signal counts one interrupt at most, RXEN is off until the
\* daemon has served it.
UartTypeOK ==
  /\ fifo \in Seq(Chars) /\ Len(fifo) <= FifoDepth
  /\ rxen \in BOOLEAN /\ claimed \in BOOLEAN /\ read \in Chars
  /\ fill_signal \in 0..1 /\ rx_count \in 0..(UART_RX_BUFFER_SIZE - 1)
  /\ rx_buffer \in [buf : [Indices -> Chars], head : Indices, tail : Indices]
  /\ daemon \in {"wait", "test", "post", "enable"}
  /\ reader \in [Readers -> {"idle", "wait", "get"}]

\* The number of characters in the ring buffer
Held(b) == (b.head - b.tail) % UART_RX_BUFFER_SIZE

\* Every character in the buffer is counted by rx_count, was granted to a reader
\* that has not taken it, or is about to be counted: no reader gets past sem_wait
\* to an empty buffer, where buffer_get makes up a 0, and no character is
\* left that nobody can wait for.
CharsAreCounted ==
  /\ UartTypeOK
  /\ Held(rx_buffer) = rx_count + Cardinality({r \in Readers : reader[r] = "get"})
                       + (IF daemon = "post" THEN 1 ELSE 0)

\* The characters typed and not read, the oldest first
Unread ==
  [i \in 1..Held(rx_buffer) |-> rx_buffer.buf[(rx_buffer.tail + i - 1) % UART_RX_BUFFER_SIZE]]
  \o fifo

Tty == INSTANCE AbstractTty WITH unread <- Unread, Room <- UART_RX_BUFFER_SIZE - 1

\* Characters are read in the order they arrived, each once, and the daemon drops
\* one only when the ring buffer is full of older ones.
ImplementsTty == Tty!Spec

\* A task that waits in uart_read while there are characters is not left alone
\* with them: the interrupt that the daemon enables after its last test of the
\* fifo brings what arrived in between.
TypedIsRead ==
  (\E r \in Readers : reader[r] = "wait") /\ Unread # <<>> ~> \E r \in Readers : reader[r] = "get"
=============================================================================
