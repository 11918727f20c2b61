---------------------------- MODULE AbstractTty ----------------------------
(***************************************************************************)
(* What the receiving side of the UART promises: the characters are read   *)
(* in the order they were typed, each once, and one is lost only when      *)
(* Room unread ones are before it.                                         *)
(***************************************************************************)
EXTENDS Integers, Sequences

CONSTANTS Chars, Room
VARIABLES unread, read  \* what was typed and not read, and the last one read

Init == unread = <<>> /\ read \in Chars

Type(c) == unread' = Append(unread, c) /\ UNCHANGED read
Read == unread # <<>> /\ read' = Head(unread) /\ unread' = Tail(unread)
\* s without its ith element
DropAt(s, i) == SubSeq(s, 1, i - 1) \o SubSeq(s, i + 1, Len(s))
Lose == Len(unread) > Room /\ unread' = DropAt(unread, Room + 1) /\ UNCHANGED read

Next == (\E c \in Chars : Type(c)) \/ Read \/ Lose

Spec == Init /\ [][Next]_<<unread, read>>
=============================================================================
