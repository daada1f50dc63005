----------------------------- MODULE NodeService -----------------------------
(***************************************************************************)
(* What a Node promises to whoever runs it, without its tasks: a chain     *)
(* that grows while the node is up, a part of it that is safe on disk, and *)
(* shutdown() calls that may be answered only when the node is down.       *)
(*                                                                         *)
(*   - What is safe never shrinks, and a crash keeps at least that.        *)
(*   - A node whose shutdown went without a hitch is down for good, with   *)
(*     its whole chain safe.                                               *)
(*   - A call of shutdown() made on a node that is up is answered when the *)
(*     node is down, unless another call was abandoned meanwhile.          *)
(***************************************************************************)
EXTENDS Naturals

CONSTANTS Callers, StartHeight

VARIABLES
  tip,       \* height of the chain the node has validated
  saved,     \* the height a crash cannot take back
  run,       \* "built", "starting" or "up"
  close,     \* "no", "closing" or "down"
  clean,     \* nothing has gone wrong in the shutdown
  calls,     \* each caller's call of shutdown()
  deserted   \* a call was abandoned

vars == <<tip, saved, run, close, clean, calls, deserted>>

\* A call is owed the node's end if the node was up when it was made.
CallStates == {"none", "owed", "early", "answered", "abandoned"}

Init ==
  /\ tip = StartHeight /\ saved = StartHeight
  /\ run = "built" /\ close = "no" /\ clean = TRUE
  /\ calls = [c \in Callers |-> "none"] /\ deserted = FALSE

Start ==
  /\ run = "built" /\ run' = "starting"
  /\ UNCHANGED <<tip, saved, close, clean, calls, deserted>>

Started ==
  /\ run = "starting" /\ run' = "up"
  /\ UNCHANGED <<tip, saved, close, clean, calls, deserted>>

\* The chain may grow until the node is down, and after a failed shutdown.
Grow ==
  /\ run # "built" /\ ~(close = "down" /\ clean)
  /\ tip' = tip + 1
  /\ UNCHANGED <<saved, run, close, clean, calls, deserted>>

Save ==
  /\ run # "built" /\ saved' = tip
  /\ UNCHANGED <<tip, run, close, clean, calls, deserted>>

Close ==
  /\ run # "built" /\ close = "no" /\ close' = "closing"
  /\ UNCHANGED <<tip, saved, run, clean, calls, deserted>>

Fail ==
  /\ close = "closing" /\ clean' = FALSE
  /\ UNCHANGED <<tip, saved, run, close, calls, deserted>>

Down ==
  /\ close = "closing" /\ (clean => saved = tip)
  /\ close' = "down"
  /\ UNCHANGED <<tip, saved, run, clean, calls, deserted>>

CallStep(c, from, to) ==
  /\ calls[c] \in from /\ calls' = [calls EXCEPT ![c] = to]
  /\ UNCHANGED <<tip, saved, run, close, clean>>

Ask(c) ==
  /\ CallStep(c, {"none"}, IF run = "up" THEN "owed" ELSE "early")
  /\ UNCHANGED deserted

Answer(c) ==
  /\ calls[c] = "owed" => close = "down" \/ deserted
  /\ CallStep(c, {"owed", "early"}, "answered")
  /\ UNCHANGED deserted

Abandon(c) ==
  /\ CallStep(c, {"owed", "early"}, "abandoned")
  /\ deserted' \in {deserted, TRUE}

Crash ==
  /\ run # "built"
  /\ tip' \in saved..tip /\ saved' = tip'
  /\ run' = "built" /\ close' = "no" /\ clean' = TRUE
  /\ calls' = [c \in Callers |-> "none"] /\ deserted' = FALSE

Next == \/ Start \/ Started \/ Grow \/ Save \/ Close \/ Fail \/ Down \/ Crash
        \/ \E c \in Callers : Ask(c) \/ Answer(c) \/ Abandon(c)

Spec == Init /\ [][Next]_vars
=============================================================================
