----------------------------- MODULE MCPcapWire -----------------------------
(* Instances of PcapWire for TLC. *)
EXTENDS PcapWire, TLC

CapTwoTwo  == 0 :> 2 @@ 1 :> 2
CapFourTwo == 0 :> 4 @@ 1 :> 2
=============================================================================
