------------------------------- MODULE MCSession -------------------------------
(* TLC instances of Session.                                                *)
EXTENDS Session

\* Bound: of all chains, the one where the second block concerns the wallet
\* and the first is a false positive.
MCInit == SessionInit /\ relevant = Blocks \ {1} /\ noise = {1}

MCSpec == MCInit /\ [][SessionNext]_allVars /\ SessionFairness
================================================================================
