---------------------------- MODULE MCPcapReplay ----------------------------
(* Instances of PcapReplay for TLC. *)
EXTENDS PcapReplay, TLC

CapTwoTwo == 0 :> 2 @@ 1 :> 2
CapTwoOne == 0 :> 2 @@ 1 :> 1

\* Everything but the chunk numbers, which no guard reads: a view under which
\* states that differ only in them are explored once.
ControlView ==
  <<active, pktIndex, loaded, locked, request, inProgress, syncVars, portVars, queueVars, wpc,
    otherVars>>
=============================================================================
