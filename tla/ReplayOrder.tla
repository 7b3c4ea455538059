---------------------------- MODULE ReplayOrder -----------------------------
(***************************************************************************)
(* What the replay promises: the packets of the capture are handed to the  *)
(* NIC in file order, from the first, over and over, none skipped and none *)
(* repeated.                                                               *)
(***************************************************************************)
EXTENDS Naturals

CONSTANTS
  FilePkts,   \* packets in the capture
  TxCounts    \* sizes a burst may have

VARIABLES
  burst,      \* the packets handed over last, numbered from 0 in file order
  pos         \* the packet due next

vars == <<burst, pos>>

Init == burst = <<>> /\ pos = 0

Hand(n) ==
  /\ burst' = [i \in 1 .. n |-> (pos + i - 1) % FilePkts]
  /\ pos' = (pos + n) % FilePkts

Next == \E n \in TxCounts : Hand(n)

Spec == Init /\ [][Next]_vars
=============================================================================
