------------------------------- MODULE NodeFsm -------------------------------
(***************************************************************************)
(* The node's finite-state machine: the states of node/fsm.rs and the pure *)
(* function that computes the next one from the node's three heights.      *)
(*                                                                         *)
(* A state is its variant's name.  The heights some variants carry are     *)
(* display data: no caller branches on them, so they are left out.  The    *)
(* sum node_height + OPERATIONAL_TOLERANCE is a u32 in the code; block     *)
(* heights are some 2^12 times too small for it to wrap.                   *)
(***************************************************************************)
EXTENDS Naturals

CONSTANT OPERATIONAL_TOLERANCE

ASSUME ToleranceAssumption == OPERATIONAL_TOLERANCE \in Nat

\* The variants the polling task moves between.
PolledStates == {"Active", "HeaderSync", "InitialBlockDownload",
                 "CompactBlockFilterDownload", "Operational"}

\* A slip: Inactive forgotten among the skipped variants.
SkippedStates_Slip == {"ShuttingDown", "DnsBootstrapping", "Backfill"}

\* The variants whose next state is decided outside compute_next_state.
SkippedStates == {"ShuttingDown", "Inactive", "DnsBootstrapping", "Backfill"}

States == PolledStates \cup SkippedStates

\* A slip: the filter height taken as it is.
ClampedFilter_Slip(filter_height, node_height) == filter_height

\* The filter tip can be ahead of the validated tip (the two stores do not
\* survive a crash together); the machine then works with the lower one.
ClampedFilter(filter_height, node_height) ==
  IF filter_height > node_height THEN node_height ELSE filter_height

compute_next_state(wire_ready, current_state, node_height, chain_height, filter_height) ==
  IF current_state \in SkippedStates THEN current_state
  ELSE IF ~wire_ready THEN "Active"
  ELSE IF node_height = 0 /\ chain_height > 0 THEN "HeaderSync"
  ELSE IF node_height + OPERATIONAL_TOLERANCE < chain_height
       THEN "InitialBlockDownload"
  ELSE IF ClampedFilter(filter_height, node_height) < chain_height
       THEN "CompactBlockFilterDownload"
  ELSE IF node_height > 0 THEN "Operational"
  ELSE "Active"
==============================================================================
