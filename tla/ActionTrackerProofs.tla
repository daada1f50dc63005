-------------------------- MODULE ActionTrackerProofs --------------------------
(***************************************************************************)
(* Proofs about ActionTracker for any tasks and any actions.               *)
(***************************************************************************)
EXTENDS ActionTracker, TLAPS

CallsTyped == /\ pc \in [Calls -> {"idle", "awaiting", "matching"}]
              /\ act \in [Calls -> Actions]

LEMMA CallsStayTyped == CallsTyped /\ [Next]_vars => CallsTyped'
<1> SUFFICES ASSUME CallsTyped, [Next]_vars
             PROVE  CallsTyped'
  OBVIOUS
<1> USE DEF CallsTyped
<1>1. ASSUME NEW c \in Calls, P2PCall(c) \/ MatchCall(c)
      PROVE  CallsTyped'
  BY <1>1 DEF P2PCall, MatchCall, Begins, Actions
<1>2. ASSUME NEW c \in Calls,
             P2PAnswered(c) \/ P2PUnresponsive(c) \/ MatchDone(c)
      PROVE  CallsTyped'
  BY <1>2 DEF P2PAnswered, P2PUnresponsive, MatchDone, Returns
<1>3. ASSUME NEW c \in Calls, P2PDropped(c)
      PROVE  CallsTyped'
  BY <1>3 DEF P2PDropped
<1>4. CASE StateChanges \/ NodeEnds \/ UNCHANGED vars
  BY <1>4 DEF StateChanges, NodeEnds, vars
<1> QED
  BY <1>1, <1>2, <1>3, <1>4 DEF Next

(* The set of actions is right up to what dropped calls leave in it and what *)
(* equal calls take out of it, for any number of concurrent calls.           *)
THEOREM TrackingIsSound == Spec => []TrackedUpToDropsAndTwins
<1>1. Init => CallsTyped /\ TrackedUpToDropsAndTwins
  BY DEF Init, CallsTyped, TrackedUpToDropsAndTwins, InFlight, Actions
<1>2. CallsTyped /\ TrackedUpToDropsAndTwins /\ [Next]_vars
        => TrackedUpToDropsAndTwins'
  <2> SUFFICES ASSUME CallsTyped, TrackedUpToDropsAndTwins, [Next]_vars
               PROVE  TrackedUpToDropsAndTwins'
    OBVIOUS
  <2> USE DEF CallsTyped, TrackedUpToDropsAndTwins, InFlight
  <2>1. ASSUME NEW c \in Calls, P2PCall(c)
        PROVE  TrackedUpToDropsAndTwins'
    BY <2>1 DEF P2PCall, Begins, track_action, Actions
  <2>2. ASSUME NEW c \in Calls, MatchCall(c)
        PROVE  TrackedUpToDropsAndTwins'
    BY <2>2 DEF MatchCall, Begins, track_action, Actions
  <2>3. ASSUME NEW c \in Calls,
               P2PAnswered(c) \/ P2PUnresponsive(c) \/ MatchDone(c)
        PROVE  TrackedUpToDropsAndTwins'
    BY <2>3 DEF P2PAnswered, P2PUnresponsive, MatchDone, Returns,
       untrack_action
  <2>4. ASSUME NEW c \in Calls, P2PDropped(c)
        PROVE  TrackedUpToDropsAndTwins'
    BY <2>4 DEF P2PDropped
  <2>5. CASE StateChanges \/ NodeEnds \/ UNCHANGED vars
    BY <2>5 DEF StateChanges, NodeEnds, vars
  <2> QED
    BY <2>1, <2>2, <2>3, <2>4, <2>5 DEF Next
<1> QED BY <1>1, <1>2, CallsStayTyped, PTL DEF Spec

(* Type correctness: whatever is tracked, left behind or taken out by the    *)
(* P2P methods is an action, and every task is idle or in one call.          *)
THEOREM TrackerTypeCorrect == Spec => []TypeOK
<1>1. Init => TypeOK
  BY DEF Init, TypeOK, Actions
<1>2. TypeOK /\ [Next]_vars => TypeOK'
  <2> SUFFICES ASSUME TypeOK, [Next]_vars PROVE TypeOK'
    OBVIOUS
  <2>1. CallsTyped'
    BY CallsStayTyped DEF TypeOK, CallsTyped
  <2>2. actions' \subseteq Actions /\ leaked' \subseteq Actions
        /\ hidden' \subseteq Calls
    <3> USE DEF TypeOK, Actions
    <3>1. ASSUME NEW c \in Calls, P2PCall(c) \/ MatchCall(c)
          PROVE  actions' \subseteq Actions /\ UNCHANGED <<leaked, hidden>>
      BY <3>1 DEF P2PCall, MatchCall, Begins, track_action
    <3>2. ASSUME NEW c \in Calls,
                 P2PAnswered(c) \/ P2PUnresponsive(c) \/ MatchDone(c)
          PROVE  /\ actions' \subseteq actions /\ leaked' \subseteq leaked
                 /\ hidden' \subseteq Calls
      BY <3>2 DEF P2PAnswered, P2PUnresponsive, MatchDone, Returns,
         untrack_action, InFlight
    <3>3. ASSUME NEW c \in Calls, P2PDropped(c)
          PROVE  /\ actions' = actions /\ leaked' \subseteq Actions
                 /\ hidden' \subseteq Calls
      BY <3>3 DEF P2PDropped
    <3>4. CASE StateChanges \/ NodeEnds \/ UNCHANGED vars
      BY <3>4 DEF StateChanges, NodeEnds, vars
    <3> QED BY <3>1, <3>2, <3>3, <3>4 DEF Next
  <2>3. operational' \in BOOLEAN /\ nodeUp' \in BOOLEAN
    <3>1. UNCHANGED operational \/ operational' = ~operational
      BY DEF Next, P2PCall, MatchCall, Begins, P2PAnswered, P2PUnresponsive,
             MatchDone, Returns, P2PDropped, StateChanges, NodeEnds, vars
    <3>2. UNCHANGED nodeUp \/ nodeUp' = FALSE
      BY DEF Next, P2PCall, MatchCall, Begins, P2PAnswered, P2PUnresponsive,
             MatchDone, Returns, P2PDropped, StateChanges, NodeEnds, vars
    <3>3. (~operational) \in BOOLEAN
      OBVIOUS
    <3>4. operational' \in BOOLEAN
      BY <3>1, <3>3, Zenon DEF TypeOK
    <3>5. nodeUp' \in BOOLEAN
      BY <3>2, Zenon DEF TypeOK
    <3> QED BY <3>4, <3>5
  <2> QED BY <2>1, <2>2, <2>3 DEF TypeOK, CallsTyped
<1> QED BY <1>1, <1>2, PTL DEF Spec
================================================================================
