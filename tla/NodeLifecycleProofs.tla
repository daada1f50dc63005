------------------------- MODULE NodeLifecycleProofs -------------------------
(***************************************************************************)
(* Proofs about NodeLifecycle for every tolerance, set of callers, height  *)
(* and number of restarts.                                                 *)
(***************************************************************************)
EXTENDS NodeLifecycle, TLAPS


(* The state machine never leaves its states, and it keeps the variants     *)
(* that are handled outside it.                                             *)
LEMMA NextStateType ==
  ASSUME NEW w \in BOOLEAN, NEW s \in States,
         NEW n \in Nat, NEW c \in Nat, NEW f \in Nat
  PROVE  /\ compute_next_state(w, s, n, c, f) \in States
         /\ s \in SkippedStates => compute_next_state(w, s, n, c, f) = s
  BY ToleranceAssumption DEF compute_next_state, States, PolledStates, SkippedStates

(* The state machine reports Operational only when blocks and filters reach *)
(* the chain tip - the tolerance does not weaken that.                      *)
LEMMA OperationalNeedsAll ==
  ASSUME NEW w \in BOOLEAN, NEW s \in States,
         NEW n \in Nat, NEW c \in Nat, NEW f \in Nat,
         compute_next_state(w, s, n, c, f) = "Operational"
  PROVE  /\ w = TRUE /\ n > 0 /\ n >= c /\ f >= c
  BY ToleranceAssumption DEF compute_next_state, States, PolledStates, SkippedStates,
         ClampedFilter

-----------------------------------------------------------------------------
(* A step of any task keeps the flags' type.                                *)
LEMMA FlagsTyped == FlagsOK /\ [Next]_vars => FlagsOK'
<1> SUFFICES ASSUME FlagsOK, [Next]_vars
             PROVE  FlagsOK'
  OBVIOUS
<1> USE DEF FlagsOK, control, history, round
<1>1. CASE Run
  BY <1>1 DEF Run, RunSpawn, RunStoreHandle, RunAnnounce
<1>2. CASE InnerNode
  BY <1>2 DEF InnerNode, NewHeader, ValidateBlock, StoreFilter, NodeStops,
     NodeEnds, NodePanics
<1>3. CASE Updater
  BY <1>3 DEF Updater, UpdaterStops, UpdaterTick, UpdaterPeersAnswered,
     UpdaterPeersGone, UpdaterReadChain, UpdaterReadNode, UpdaterReadFilter,
     UpdaterReadFails, UpdaterPublish, UpdaterStep
<1>4. CASE CloserWakes \/ CloserWorks
  BY <1>4 DEF CloserWakes, CloserWorks, CloserKills, CloserMarks,
     CloserCancels, CloserAwaitsStop, CloserJoinsNode, CloserJoinsUpdater,
     CloserWaits, CloserFlushes, CloserFinishes, CloserStep
<1>5. ASSUME NEW c \in Callers, Caller(c)
      PROVE  FlagsOK'
  BY <1>5 DEF Caller, Shutdown, ShutdownTakesHandle, ShutdownFindsNothing,
     ShutdownJoins, ShutdownDropped, CallerStep
<1>6. CASE Flush \/ Restart \/ UNCHANGED vars
  BY <1>6 DEF Flush, Restart, vars
<1> QED
  BY <1>1, <1>2, <1>3, <1>4, <1>5, <1>6 DEF Next

(* A step of any task keeps the type of the heights, states and counters.   *)
LEMMA DataTyped == DataOK /\ wireReady \in BOOLEAN /\ [Next]_vars => DataOK'
<1> SUFFICES ASSUME DataOK, wireReady \in BOOLEAN, [Next]_vars
             PROVE  DataOK'
  OBVIOUS
<1> USE BoundsAssumption DEF DataOK, Heights, stores, control, history, round
<1>1. CASE Run
  BY <1>1 DEF Run, RunSpawn, RunStoreHandle, RunAnnounce, UpdaterPcs,
     CloserPcs, States, PolledStates
<1>2. CASE InnerNode
  BY <1>2 DEF InnerNode, NewHeader, ValidateBlock, StoreFilter, NodeStops,
     NodeEnds, NodePanics, NodeWorks
<1>3. CASE Updater
  <2>1. CASE UpdaterPublish
    <3>1. compute_next_state(wireReady, state, sample.node, sample.chain,
                             sample.filter) \in States
      BY NextStateType
    <3> QED
      BY <2>1, <3>1 DEF UpdaterPublish, UpdaterStep, UpdaterPcs, NoSample
  <2>2. CASE UpdaterStops \/ UpdaterTick \/ UpdaterReadFails
    BY <2>2 DEF UpdaterStops, UpdaterTick, UpdaterReadFails, UpdaterStep,
       UpdaterPcs, NoSample
  <2>3. CASE UpdaterPeersAnswered \/ UpdaterPeersGone
    BY <2>3 DEF UpdaterPeersAnswered, UpdaterPeersGone, UpdaterStep,
       UpdaterPcs
  <2>4. CASE UpdaterReadChain \/ UpdaterReadNode \/ UpdaterReadFilter
    BY <2>4 DEF UpdaterReadChain, UpdaterReadNode, UpdaterReadFilter,
       UpdaterStep, UpdaterPcs
  <2> QED BY <1>3, <2>1, <2>2, <2>3, <2>4 DEF Updater
<1>4. CASE CloserWakes \/ CloserWorks
  <2>1. CASE CloserWakes \/ CloserKills \/ CloserMarks \/ CloserCancels
             \/ CloserFinishes
    BY <2>1 DEF CloserWakes, CloserKills, CloserMarks, CloserCancels,
       CloserFinishes, CloserStep, CloserPcs, States, SkippedStates
  <2>2. CASE CloserAwaitsStop \/ CloserJoinsNode \/ CloserJoinsUpdater
             \/ CloserFlushes
    BY <2>2 DEF CloserAwaitsStop, CloserJoinsNode, CloserJoinsUpdater,
       CloserWaits, CloserFlushes, CloserStep, CloserPcs
  <2> QED BY <1>4, <2>1, <2>2 DEF CloserWorks
<1>5. ASSUME NEW c \in Callers, Caller(c)
      PROVE  DataOK'
  BY <1>5 DEF Caller, Shutdown, ShutdownTakesHandle, ShutdownFindsNothing,
     ShutdownJoins, ShutdownDropped, CallerStep
<1>6. CASE Flush \/ Restart \/ UNCHANGED vars
  BY <1>6 DEF Flush, Restart, vars, NoSample, States, SkippedStates,
     UpdaterPcs, CloserPcs
<1> QED
  BY <1>1, <1>2, <1>3, <1>4, <1>5, <1>6 DEF Next

(* Every reachable state of the node's tasks has its type: no step leaves   *)
(* the states of fsm.rs or the bounds.                                      *)
THEOREM TypeCorrect == Spec => []TypeOK
<1>1. Init => FlagsOK
  BY DEF Init, FlagsOK
<1>2. Init => DataOK
  BY BoundsAssumption
     DEF Init, DataOK, Heights, NoSample, States, SkippedStates, UpdaterPcs,
         CloserPcs
<1>3. TypeOK /\ [Next]_vars => TypeOK'
  BY FlagsTyped, DataTyped DEF TypeOK, FlagsOK
<1> QED BY <1>1, <1>2, <1>3, PTL DEF Spec, TypeOK

-----------------------------------------------------------------------------
(* CleanShutdown, strengthened by what has to hold while the closer is       *)
(* still under way: from the join of the inner node's task on, that task     *)
(* has ended or the shutdown is not a clean one.                             *)
CleanInv ==
  /\ closer \in {"joinUpdater", "flush", "inactive", "done"} /\ ~unclean
       => nodeTask = "ended"
  /\ closer \in {"inactive", "done"} /\ ~unclean => flushed = nodeTip

(* Every step keeps the closer's promise along its way.                      *)
LEMMA CleanIsInvariant == Spec => []CleanInv
<1>1. Init => CleanInv
  BY DEF Init, CleanInv
<1>2. CleanInv /\ [Next]_vars => CleanInv'
  <2> SUFFICES ASSUME CleanInv, [Next]_vars
               PROVE  CleanInv'
    OBVIOUS
  <2> USE DEF CleanInv, stores, control, history, round
  <2>1. CASE Run
    BY <2>1 DEF Run, RunSpawn, RunStoreHandle, RunAnnounce
  <2>2. CASE InnerNode
    BY <2>2 DEF InnerNode, NewHeader, ValidateBlock, StoreFilter, NodeStops,
       NodeEnds, NodePanics, NodeWorks
  <2>3. CASE Updater
    BY <2>3 DEF Updater, UpdaterStops, UpdaterTick, UpdaterPeersAnswered,
       UpdaterPeersGone, UpdaterReadChain, UpdaterReadNode,
       UpdaterReadFilter, UpdaterReadFails, UpdaterPublish, UpdaterStep
  <2>4. CASE CloserWakes \/ CloserWorks
    <3>1. CASE CloserWakes \/ CloserKills \/ CloserMarks \/ CloserCancels
               \/ CloserFinishes
      BY <3>1 DEF CloserWakes, CloserKills, CloserMarks, CloserCancels,
         CloserFinishes, CloserStep
    <3>2. CASE CloserAwaitsStop \/ CloserJoinsNode \/ CloserJoinsUpdater
      BY <3>2 DEF CloserAwaitsStop, CloserJoinsNode, CloserJoinsUpdater,
         CloserWaits, CloserStep
    <3>3. CASE CloserFlushes
      BY <3>3 DEF CloserFlushes, CloserStep
    <3> QED BY <2>4, <3>1, <3>2, <3>3 DEF CloserWorks
  <2>5. ASSUME NEW c \in Callers, Caller(c)
        PROVE  CleanInv'
    BY <2>5 DEF Caller, Shutdown, ShutdownTakesHandle, ShutdownFindsNothing,
       ShutdownJoins, ShutdownDropped, CallerStep
  <2>6. CASE Flush \/ Restart \/ UNCHANGED vars
    BY <2>6 DEF Flush, Restart, vars
  <2> QED
    BY <2>1, <2>2, <2>3, <2>4, <2>5, <2>6 DEF Next
<1> QED BY <1>1, <1>2, PTL DEF Spec

(* After a shutdown in which nothing timed out or failed the inner node is   *)
(* gone and every validated block is on disk.                                *)
THEOREM ShutdownIsClean == Spec => []CleanShutdown
<1>1. CleanInv => CleanShutdown
  BY DEF CleanInv, CleanShutdown
<1> QED BY <1>1, CleanIsInvariant, PTL

-----------------------------------------------------------------------------
(* FinallyInactive, strengthened along the closer's way: woken after run()   *)
(* returned, it marks ShuttingDown, which only it can leave.                 *)
FinalInv ==
  ~overtaken =>
    /\ closer \notin {"off", "wait"} => runPc = "returned"
    /\ closer \in {"cancel", "awaitStop", "joinNode", "joinUpdater", "flush",
                   "inactive"} => state = "ShuttingDown"
    /\ closer = "done" => state = "Inactive"

(* After the shutdown task the node stays Inactive, whatever the updater was *)
(* in the middle of, unless the task overtook run().                         *)
THEOREM StaysInactive == Spec => []FinallyInactive
<1>1. Init => FinalInv
  BY DEF Init, FinalInv
<1>2. TypeOK /\ FinalInv /\ [Next]_vars => FinalInv'
  <2> SUFFICES ASSUME TypeOK, FinalInv, [Next]_vars
               PROVE  FinalInv'
    OBVIOUS
  <2> USE DEF FinalInv, stores, control, history, round
  <2>1. CASE Run
    BY <2>1 DEF Run, RunSpawn, RunStoreHandle, RunAnnounce
  <2>2. CASE InnerNode
    BY <2>2 DEF InnerNode, NewHeader, ValidateBlock, StoreFilter, NodeStops,
       NodeEnds, NodePanics
  <2>3. CASE Updater
    <3>1. CASE UpdaterPublish
      <4>1. state \in SkippedStates =>
              compute_next_state(wireReady, state, sample.node, sample.chain,
                                 sample.filter) = state
        BY NextStateType, BoundsAssumption
           DEF TypeOK, FlagsOK, DataOK, Heights
      <4>2. state \in SkippedStates => state' = state
        BY <3>1, <4>1 DEF UpdaterPublish
      <4> QED
        BY <3>1, <4>2 DEF UpdaterPublish, UpdaterStep, SkippedStates
    <3>2. CASE UNCHANGED state
      BY <2>3, <3>2 DEF Updater, UpdaterStops, UpdaterTick,
         UpdaterPeersAnswered, UpdaterPeersGone, UpdaterReadChain,
         UpdaterReadNode, UpdaterReadFilter, UpdaterReadFails,
         UpdaterPublish, UpdaterStep
    <3> QED
      BY <2>3, <3>1, <3>2 DEF Updater, UpdaterStops, UpdaterTick,
         UpdaterPeersAnswered, UpdaterPeersGone, UpdaterReadChain,
         UpdaterReadNode, UpdaterReadFilter, UpdaterReadFails
  <2>4. CASE CloserWakes \/ CloserWorks
    BY <2>4 DEF CloserWakes, CloserWorks, CloserKills, CloserMarks,
       CloserCancels, CloserAwaitsStop, CloserJoinsNode, CloserJoinsUpdater,
       CloserWaits, CloserFlushes, CloserFinishes, CloserStep
  <2>5. ASSUME NEW c \in Callers, Caller(c)
        PROVE  FinalInv'
    BY <2>5 DEF Caller, Shutdown, ShutdownTakesHandle, ShutdownFindsNothing,
       ShutdownJoins, ShutdownDropped, CallerStep
  <2>6. CASE Flush \/ Restart \/ UNCHANGED vars
    BY <2>6 DEF Flush, Restart, vars
  <2> QED
    BY <2>1, <2>2, <2>3, <2>4, <2>5, <2>6 DEF Next
<1>3. FinalInv => FinallyInactive
  BY DEF FinalInv, FinallyInactive
<1> QED BY <1>1, <1>2, <1>3, TypeCorrect, PTL DEF Spec

-----------------------------------------------------------------------------
(* ShutdownAwaitsTask, strengthened by who may have the handle: as long as   *)
(* no awaiting caller was dropped, a handle that was taken is with a caller  *)
(* that still awaits it, or the task is done.                                *)
HandleInv ==
  /\ handle = "none" <=> runPc \in {"idle", "spawned"}
  /\ handle = "none" => promised = {}
  /\ handle = "taken" /\ ~detached =>
       closer = "done" \/ \E c \in Callers : stop[c] = "awaiting"
  /\ ShutdownAwaitsTask

(* Every step accounts for the handle.                                       *)
LEMMA HandleIsInvariant == Spec => []HandleInv
<1>1. Init => HandleInv
  BY DEF Init, HandleInv, ShutdownAwaitsTask
<1>2. TypeOK /\ HandleInv /\ [Next]_vars => HandleInv'
  <2> SUFFICES ASSUME TypeOK, HandleInv, [Next]_vars
               PROVE  HandleInv'
    OBVIOUS
  <2>0. DataOK
    BY DEF TypeOK
  <2> USE DEF HandleInv, ShutdownAwaitsTask, stores, control, history, round
  <2>1. CASE Run
    BY <2>1 DEF Run, RunSpawn, RunStoreHandle, RunAnnounce
  <2>2. CASE InnerNode
    BY <2>2 DEF InnerNode, NewHeader, ValidateBlock, StoreFilter, NodeStops,
       NodeEnds, NodePanics
  <2>3. CASE Updater
    BY <2>3 DEF Updater, UpdaterStops, UpdaterTick, UpdaterPeersAnswered,
       UpdaterPeersGone, UpdaterReadChain, UpdaterReadNode,
       UpdaterReadFilter, UpdaterReadFails, UpdaterPublish, UpdaterStep
  <2>4. CASE CloserWakes \/ CloserWorks
    BY <2>4 DEF CloserWakes, CloserWorks, CloserKills, CloserMarks,
       CloserCancels, CloserAwaitsStop, CloserJoinsNode, CloserJoinsUpdater,
       CloserWaits, CloserFlushes, CloserFinishes, CloserStep
  <2>5. ASSUME NEW c \in Callers, Caller(c)
        PROVE  HandleInv'
    <3> USE <2>0 DEF DataOK, CallerStep
    <3>1. CASE Shutdown(c)
      BY <3>1 DEF Shutdown
    <3>2. CASE ShutdownTakesHandle(c)
      BY <3>2 DEF ShutdownTakesHandle
    <3>3. CASE ShutdownFindsNothing(c)
      BY <3>3 DEF ShutdownFindsNothing, SlotFree
    <3>4. CASE ShutdownJoins(c)
      BY <3>4 DEF ShutdownJoins
    <3>5. CASE ShutdownDropped(c)
      BY <3>5 DEF ShutdownDropped
    <3> QED BY <2>5, <3>1, <3>2, <3>3, <3>4, <3>5 DEF Caller
  <2>6. CASE Flush \/ Restart \/ UNCHANGED vars
    BY <2>6 DEF Flush, Restart, vars
  <2> QED
    BY <2>1, <2>2, <2>3, <2>4, <2>5, <2>6 DEF Next
<1> QED BY <1>1, <1>2, TypeCorrect, PTL DEF Spec

(* A call of shutdown() made once the node runs returns after the shutdown   *)
(* task, however many callers there are.                                     *)
THEOREM ShutdownWaits == Spec => []ShutdownAwaitsTask
<1>1. HandleInv => ShutdownAwaitsTask
  BY DEF HandleInv
<1> QED BY <1>1, HandleIsInvariant, PTL

-----------------------------------------------------------------------------
(* OperationalIsSynced, strengthened by what makes the updater's stale reads *)
(* safe: the tips only grow while the node lives, so what a round has read   *)
(* is a lower bound of what the stores hold.                                 *)
SampleInv ==
  /\ sample.node <= nodeTip /\ sample.filter <= filterTip
  /\ OperationalIsSynced

LEMMA SampleIsInvariant == Spec => []SampleInv
<1>1. Init => SampleInv
  BY BoundsAssumption DEF Init, SampleInv, OperationalIsSynced, NoSample
<1>2. TypeOK /\ SampleInv /\ [Next]_vars => SampleInv'
  <2> SUFFICES ASSUME TypeOK, SampleInv, [Next]_vars
               PROVE  SampleInv'
    OBVIOUS
  <2>0. DataOK /\ wireReady \in BOOLEAN
    BY DEF TypeOK, FlagsOK
  <2> USE <2>0, BoundsAssumption
      DEF DataOK, Heights, SampleInv, OperationalIsSynced, stores, control,
          history, round
  <2>1. CASE Run
    BY <2>1 DEF Run, RunSpawn, RunStoreHandle, RunAnnounce
  <2>2. CASE InnerNode
    BY <2>2 DEF InnerNode, NewHeader, ValidateBlock, StoreFilter, NodeStops,
       NodeEnds, NodePanics
  <2>3. CASE Updater
    <3>1. CASE UpdaterPublish
      <4>1. CASE state = "ShuttingDown"
        BY <3>1, <4>1 DEF UpdaterPublish, UpdaterStep, NoSample
      <4>2. CASE state # "ShuttingDown"
        <5>1. /\ state' = compute_next_state(wireReady, state, sample.node,
                                             sample.chain, sample.filter)
              /\ reported' = sample.chain
          BY <3>1, <4>2 DEF UpdaterPublish
        <5>2. state' = "Operational" =>
                /\ sample.node > 0
                /\ sample.node >= sample.chain
                /\ sample.filter >= sample.chain
          <6>1. /\ sample.node \in Nat /\ sample.chain \in Nat
                /\ sample.filter \in Nat
            OBVIOUS
          <6> HIDE DEF DataOK, Heights, SampleInv, OperationalIsSynced
          <6>2. state \in States
            BY <2>0 DEF DataOK
          <6> QED BY <2>0, <5>1, <6>1, <6>2, OperationalNeedsAll
        <5> QED
          BY <3>1, <5>1, <5>2 DEF UpdaterPublish, UpdaterStep, NoSample
      <4> QED BY <4>1, <4>2
    <3>2. CASE UpdaterStops \/ UpdaterTick \/ UpdaterPeersAnswered
               \/ UpdaterPeersGone \/ UpdaterReadFails
      BY <3>2 DEF UpdaterStops, UpdaterTick, UpdaterPeersAnswered,
         UpdaterPeersGone, UpdaterReadFails, UpdaterStep, NoSample
    <3>3. CASE UpdaterReadChain \/ UpdaterReadNode \/ UpdaterReadFilter
      BY <3>3 DEF UpdaterReadChain, UpdaterReadNode, UpdaterReadFilter,
         UpdaterStep
    <3> QED BY <2>3, <3>1, <3>2, <3>3 DEF Updater
  <2>4. CASE CloserWakes \/ CloserWorks
    BY <2>4 DEF CloserWakes, CloserWorks, CloserKills, CloserMarks,
       CloserCancels, CloserAwaitsStop, CloserJoinsNode, CloserJoinsUpdater,
       CloserWaits, CloserFlushes, CloserFinishes, CloserStep
  <2>5. ASSUME NEW c \in Callers, Caller(c)
        PROVE  SampleInv'
    BY <2>5 DEF Caller, Shutdown, ShutdownTakesHandle, ShutdownFindsNothing,
       ShutdownJoins, ShutdownDropped, CallerStep
  <2>6. CASE Flush \/ Restart \/ UNCHANGED vars
    BY <2>6 DEF Flush, Restart, vars, NoSample
  <2> QED
    BY <2>1, <2>2, <2>3, <2>4, <2>5, <2>6 DEF Next
<1> QED BY <1>1, <1>2, TypeCorrect, PTL DEF Spec

(* Operational is never announced of a node whose blocks or filters do not   *)
(* reach the chain tip the round saw: also not after a restart that kept     *)
(* filters ahead of the blocks.                                              *)
THEOREM OperationalMeansSynced == Spec => []OperationalIsSynced
<1>1. SampleInv => OperationalIsSynced
  BY DEF SampleInv
<1> QED BY <1>1, SampleIsInvariant, PTL
=============================================================================
