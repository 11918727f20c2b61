CONSTANTS
  t1 = t1
  t2 = t2
  t3 = t3
  Tasks <- MCThree
  NoTask = NoTask
  Num = 6
  IdxMod = 6
  Readers = {r1, r2}
  Chars = {x, y}
  Nul = x
  UART_RX_BUFFER_SIZE = 3
  FifoDepth = 2
SPECIFICATION DevicesSpec
INVARIANTS ChainsAreDisjoint RequestsAreAwaited CharsAreCounted
PROPERTIES ImplementsBlk RequestsReturn ImplementsTty TypedIsRead
