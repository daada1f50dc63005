--------------------------- MODULE MCNodeLifecycle ---------------------------
(* TLC instances of NodeLifecycle: one caller of shutdown() where the       *)
(* stores grow and the process restarts; for liveness, two that compete for *)
(* the handle, or none and stores that grow.                                *)
EXTENDS NodeLifecycle

\* Bound, for liveness: the chain grows only where nobody calls shutdown()
\* (SIGINT may come all the same).
MCApart == chainTip > StartHeight => \A c \in Callers : stop[c] = "idle"

MCFairSpec == Init /\ [][Next /\ MCApart']_vars /\ Fairness
==============================================================================
