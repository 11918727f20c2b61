--------------------------- MODULE AbstractFiles ---------------------------
(***************************************************************************)
(* What the inode layer promises: a file is a sequence of blocks of its    *)
(* own, and a write that reports an error has written nothing.             *)
(***************************************************************************)
EXTENDS Naturals, Sequences

CONSTANTS Files, Vals
VARIABLES content, ok  \* ok: the last call reported no error

Init == (\A f \in Files : content[f] = <<>>) /\ ok = TRUE

\* Write block i of f, or append it
Write(f, i, v) ==
  /\ content' = [content EXCEPT ![f] = SubSeq(@, 1, i - 1) \o <<v>> \o SubSeq(@, i + 1, Len(@))]
  /\ ok' = TRUE

Fail == ok' = FALSE /\ UNCHANGED content

\* A longer write fails after some blocks, and reports those.
Short == ok' = TRUE /\ UNCHANGED content

Next ==
  \/ Fail \/ Short
  \/ \E f \in Files : \E i \in 1..(Len(content[f]) + 1), v \in Vals : Write(f, i, v)

Spec == Init /\ [][Next]_<<content, ok>>
=============================================================================
