----------------------------- MODULE MCDevices ------------------------------
(* The interrupt driven drivers, each on its own: part says which one a     *)
(* behaviour is about.                                                      *)
(* Three tasks share a disk queue with room for two requests; two readers   *)
(* share a ring buffer of three places, two of which can be used.           *)
EXTENDS VirtioBlk, Uart

CONSTANTS t1, t2, t3

VARIABLE part

allvars == <<part, vars, uartvars>>

MCThree == {t1, t2, t3}

DevicesInit == part \in {"virtio", "uart"} /\ Init /\ UartInit

DevicesNext ==
  /\ UNCHANGED part
  /\ \/ part = "virtio" /\ Next /\ UNCHANGED uartvars
     \/ part = "uart" /\ UartNext /\ UNCHANGED vars

DevicesSpec == DevicesInit /\ [][DevicesNext]_allvars /\ Fairness /\ UartFairness
=============================================================================
