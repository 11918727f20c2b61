---------------------------- MODULE AbstractBlk ----------------------------
(***************************************************************************)
(* What the block driver promises its callers: a request returns after the *)
(* device served it, and the device serves it once.                        *)
(***************************************************************************)
CONSTANT Tasks
VARIABLE request  \* of each task: none, queued or served

Init == request = [t \in Tasks |-> "none"]

Submit(t) == request[t] = "none" /\ request' = [request EXCEPT ![t] = "queued"]
Serve(t) == request[t] = "queued" /\ request' = [request EXCEPT ![t] = "served"]
Return(t) == request[t] = "served" /\ request' = [request EXCEPT ![t] = "none"]

Next == \E t \in Tasks : Submit(t) \/ Serve(t) \/ Return(t)

Spec == Init /\ [][Next]_request
=============================================================================
