----------------------------- MODULE MCClientScan -----------------------------
(* TLC instances of ClientScan.                                             *)
EXTENDS ClientScan

\* Bound: of all chains, the one where two blocks concern the wallet, either
\* side of the tip a scan finds, and the block below is a false positive.
MCInit == Init /\ relevant = Blocks \ {1} /\ noise = {1}

MCSpec == MCInit /\ [][Next]_vars

\* Bound: the application leaves at most two events in the channel, and its
\* Custom scans start above the first block.
MCBound == /\ Len(events) <= 2
           /\ scan.kind = "Custom" => scan.from = 2
==============================================================================
