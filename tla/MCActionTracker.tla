--------------------------- MODULE MCActionTracker ---------------------------
(* TLC instance of ActionTracker: three tasks, so that two calls can share  *)
(* an action beside a third.                                                *)
EXTENDS ActionTracker
==============================================================================
