-------------------------- MODULE NodeServiceProofs --------------------------
(***************************************************************************)
(* The node's tasks implement NodeService, for any number of callers and   *)
(* any bounds: initial states map to initial states, and every step of     *)
(* run(), of the inner node, the updater, the closer, a caller or a crash  *)
(* maps to a step of the service or to none.                               *)
(***************************************************************************)
EXTENDS NodeLifecycleProofs

\* Before run() there are no tasks.
BuiltInv == runPc = "idle" => closer = "off" /\ nodeTask = "unspawned"

(* Only run() spawns, and only a restart goes back before it.               *)
LEMMA BuiltIsInvariant == Spec => []BuiltInv
<1>1. Init => BuiltInv
  BY DEF Init, BuiltInv
<1>2. BuiltInv /\ [Next]_vars => BuiltInv'
  <2> SUFFICES ASSUME BuiltInv, [Next]_vars
               PROVE  BuiltInv'
    OBVIOUS
  <2> USE DEF BuiltInv, stores, control, history, round
  <2>1. CASE Run
    BY <2>1 DEF Run, RunSpawn, RunStoreHandle, RunAnnounce
  <2>2. CASE InnerNode
    BY <2>2 DEF InnerNode, NewHeader, ValidateBlock, StoreFilter, NodeStops,
       NodeEnds, NodePanics, NodeWorks
  <2>3. CASE Updater
    BY <2>3 DEF Updater, UpdaterStops, UpdaterTick, UpdaterPeersAnswered,
       UpdaterPeersGone, UpdaterReadChain, UpdaterReadNode,
       UpdaterReadFilter, UpdaterReadFails, UpdaterPublish, UpdaterStep
  <2>4. CASE CloserWakes \/ CloserWorks
    BY <2>4 DEF CloserWakes, CloserWorks, CloserKills, CloserMarks,
       CloserCancels, CloserAwaitsStop, CloserJoinsNode, CloserJoinsUpdater,
       CloserWaits, CloserFlushes, CloserFinishes, CloserStep
  <2>5. ASSUME NEW c \in Callers, Caller(c)
        PROVE  BuiltInv'
    BY <2>5 DEF Caller, Shutdown, ShutdownTakesHandle, ShutdownFindsNothing,
       ShutdownJoins, ShutdownDropped, CallerStep
  <2>6. CASE Flush \/ Restart \/ UNCHANGED vars
    BY <2>6 DEF Flush, Restart, vars
  <2> QED
    BY <2>1, <2>2, <2>3, <2>4, <2>5, <2>6 DEF Next
<1> QED BY <1>1, <1>2, PTL DEF Spec

-----------------------------------------------------------------------------
\* What the steps' proofs use of the invariants.
ServiceInv == TypeOK /\ CleanInv /\ HandleInv /\ BuiltInv

(* A step that leaves chain, disk, run(), closer and calls alone is none of *)
(* the service's.                                                           *)
LEMMA Stutter ==
  UNCHANGED <<nodeTip, flushed, runPc, closer, unclean, stop, promised,
              detached>>
    => UNCHANGED Service!vars
BY DEF Service!vars, CallView, RunView, CloseView

(* What a call of shutdown() does is a step of its call.                     *)
LEMMA CallerSimulated ==
  ASSUME ServiceInv, NEW c \in Callers, Caller(c)
  PROVE  [Service!Next]_(Service!vars)
<1>0. /\ DataOK /\ HandleInv /\ stop \in [Callers -> {"idle", "locking", "awaiting", "ok", "dropped"}]
      /\ promised \subseteq Callers
  BY DEF ServiceInv, TypeOK, DataOK
<1> DEFINE calls == [d \in Callers |-> CallView(d)]
<1>1. CASE Shutdown(c)
  <2>1. Service!Ask(c)
    <3>1. calls' = [calls EXCEPT ![c] =
                      IF RunView = "up" THEN "owed" ELSE "early"]
      BY <1>0, <1>1 DEF Shutdown, CallerStep, CallView, RunView, HandleInv,
         DataOK
    <3> QED
      BY <1>1, <3>1 DEF Shutdown, CallerStep, Service!Ask,
         Service!CallStep, CallView, RunView, CloseView, stores
  <2> QED BY <2>1 DEF Service!Next
<1>2. CASE ShutdownTakesHandle(c)
  <2>1. calls' = calls
    BY <1>0, <1>2 DEF ShutdownTakesHandle, CallerStep, CallView
  <2> QED
    BY <1>2, <2>1 DEF ShutdownTakesHandle, CallerStep, RunView, CloseView,
       stores, Service!vars
<1>3. CASE ShutdownFindsNothing(c) \/ ShutdownJoins(c)
  <2>1. calls' = [calls EXCEPT ![c] = "answered"]
    BY <1>0, <1>3 DEF ShutdownFindsNothing, ShutdownJoins, CallerStep,
       CallView
  <2>2. calls[c] = "owed" => CloseView = "down" \/ detached
    BY <1>0, <1>3 DEF ShutdownFindsNothing, ShutdownJoins, CallerStep,
       CallView, CloseView, HandleInv, SlotFree, DataOK
  <2>3. calls[c] \in {"owed", "early"}
    BY <1>3 DEF ShutdownFindsNothing, ShutdownJoins, CallerStep, CallView
  <2>4. Service!Answer(c)
    BY <1>3, <2>1, <2>2, <2>3
       DEF ShutdownFindsNothing, ShutdownJoins, CallerStep, Service!Answer,
           Service!CallStep, RunView, CloseView, stores
  <2> QED BY <2>4 DEF Service!Next
<1>4. CASE ShutdownDropped(c)
  <2>1. calls' = [calls EXCEPT ![c] = "abandoned"]
    BY <1>0, <1>4 DEF ShutdownDropped, CallerStep, CallView
  <2>2. calls[c] \in {"owed", "early"}
    BY <1>4 DEF ShutdownDropped, CallerStep, CallView
  <2>3. detached' \in {detached, TRUE}
    BY <1>4 DEF ShutdownDropped, ServiceInv, TypeOK, FlagsOK
  <2>4. Service!Abandon(c)
    <3>1. UNCHANGED <<nodeTip, flushed, runPc, closer, unclean>>
      BY <1>4 DEF ShutdownDropped, CallerStep, stores
    <3>2. UNCHANGED <<RunView, CloseView, ~unclean>>
      BY <3>1 DEF RunView, CloseView
    <3>3. Service!CallStep(c, {"owed", "early"}, "abandoned")
      BY <2>1, <2>2, <3>1, <3>2 DEF Service!CallStep
    <3> QED BY <2>3, <3>3 DEF Service!Abandon
  <2> QED BY <2>4 DEF Service!Next
<1> QED BY <1>1, <1>2, <1>3, <1>4 DEF Caller

(* What the closer does is a step of the service's ending: it begins, saves, *)
(* fails and is done.                                                        *)
LEMMA CloserSimulated ==
  ASSUME ServiceInv, CloserWakes \/ CloserWorks
  PROVE  [Service!Next]_(Service!vars)
<1> DEFINE calls == [d \in Callers |-> CallView(d)]
<1>0. closer \notin {"off", "wait"} => runPc # "idle"
  BY DEF ServiceInv, BuiltInv
<1>1. ASSUME NEW pc, NEW next, CloserStep(pc, next)
      PROVE  calls' = calls /\ RunView' = RunView /\ UNCHANGED <<nodeTip, detached>>
  BY <1>1 DEF CloserStep, CallView, RunView
<1>2. CASE CloserWakes
  <2>1. Service!Close
    BY <1>1, <1>2 DEF CloserWakes, CloserStep, Service!Close, RunView,
       CloseView, ServiceInv, BuiltInv
  <2> QED BY <2>1 DEF Service!Next
<1>3. CASE CloserKills \/ CloserMarks \/ CloserCancels
  BY <1>1, <1>3 DEF CloserKills, CloserMarks, CloserCancels, CloserStep,
     CloseView, Service!vars
<1>4. CASE CloserAwaitsStop \/ CloserJoinsNode \/ CloserJoinsUpdater
  <2>1. PICK done : \/ CloserWaits("awaitStop", "joinNode", done)
                    \/ CloserWaits("joinNode", "joinUpdater", done)
                    \/ CloserWaits("joinUpdater", "flush", done)
    BY <1>4 DEF CloserAwaitsStop, CloserJoinsNode, CloserJoinsUpdater
  <2>2. /\ CloseView = "closing" /\ CloseView' = "closing"
        /\ calls' = calls /\ RunView' = RunView
        /\ UNCHANGED <<nodeTip, flushed, detached>>
    BY <1>1, <2>1 DEF CloserWaits, CloserStep, CloseView
  <2>3. CASE unclean' = unclean
    BY <2>2, <2>3 DEF Service!vars
  <2>4. CASE unclean' # unclean
    <3>1. ~unclean' = FALSE
      BY <2>1, <2>4 DEF CloserWaits, ServiceInv, TypeOK, FlagsOK
    <3>2. Service!Fail
      BY <2>2, <3>1 DEF Service!Fail
    <3> QED BY <3>2 DEF Service!Next
  <2> QED BY <2>3, <2>4
<1>5. CASE CloserFlushes
  <2>1. /\ CloseView = "closing" /\ CloseView' = "closing"
        /\ calls' = calls /\ RunView' = RunView
        /\ UNCHANGED <<nodeTip, detached>>
    BY <1>1, <1>5 DEF CloserFlushes, CloserStep, CloseView
  <2>2. RunView # "built"
    BY <1>0, <1>5 DEF CloserFlushes, CloserStep, RunView
  <2>3. CASE flushed' = nodeTip /\ UNCHANGED unclean
    <3>1. Service!Save
      BY <2>1, <2>2, <2>3 DEF Service!Save
    <3> QED BY <3>1 DEF Service!Next
  <2>4. CASE unclean' = TRUE /\ UNCHANGED flushed
    <3>1. Service!Fail
      BY <2>1, <2>4 DEF Service!Fail
    <3> QED BY <3>1 DEF Service!Next
  <2> QED BY <1>5, <2>3, <2>4 DEF CloserFlushes
<1>6. CASE CloserFinishes
  <2>1. ~unclean => flushed = nodeTip
    BY <1>6 DEF CloserFinishes, CloserStep, ServiceInv, CleanInv
  <2>2. Service!Down
    BY <1>1, <1>6, <2>1 DEF CloserFinishes, CloserStep, CloseView,
       Service!Down
  <2> QED BY <2>2 DEF Service!Next
<1> QED BY <1>2, <1>3, <1>4, <1>5, <1>6 DEF CloserWorks

(* Every step of the tasks is a step of the service or none of its.          *)
LEMMA StepSimulated ==
  ServiceInv /\ [Next]_vars => [Service!Next]_(Service!vars)
<1> SUFFICES ASSUME ServiceInv, [Next]_vars
             PROVE  [Service!Next]_(Service!vars)
  OBVIOUS
<1> USE DEF stores, control, history, round
<1>1. CASE RunSpawn
  <2>1. Service!Start
    BY <1>1 DEF RunSpawn, Service!Start, RunView, CloseView, CallView,
       ServiceInv, BuiltInv
  <2> QED BY <2>1 DEF Service!Next
<1>2. CASE RunStoreHandle
  <2>1. Service!Started
    BY <1>2 DEF RunStoreHandle, Service!Started, RunView, CloseView, CallView
  <2> QED BY <2>1 DEF Service!Next
<1>3. CASE RunAnnounce
  BY <1>3 DEF RunAnnounce, RunView, CloseView, CallView, Service!vars
<1>4. CASE ValidateBlock
  <2>1. RunView # "built"
    BY <1>4 DEF ValidateBlock, NodeWorks, RunView, ServiceInv, BuiltInv
  <2>2. ~(CloseView = "down" /\ ~unclean)
    BY <1>4 DEF ValidateBlock, NodeWorks, CloseView, ServiceInv, CleanInv
  <2>3. Service!Grow
    BY <1>4, <2>1, <2>2 DEF ValidateBlock, Service!Grow, RunView, CloseView,
       CallView
  <2> QED BY <2>3 DEF Service!Next
<1>5. CASE NewHeader \/ StoreFilter \/ NodeStops \/ NodeEnds \/ NodePanics
  BY <1>5, Stutter DEF NewHeader, StoreFilter, NodeStops, NodeEnds,
     NodePanics
<1>6. CASE Updater
  BY <1>6, Stutter DEF Updater, UpdaterStops, UpdaterTick,
     UpdaterPeersAnswered, UpdaterPeersGone, UpdaterReadChain,
     UpdaterReadNode, UpdaterReadFilter, UpdaterReadFails, UpdaterPublish,
     UpdaterStep
<1>7. CASE CloserWakes \/ CloserWorks
  BY <1>7, CloserSimulated
<1>8. ASSUME NEW c \in Callers, Caller(c)
      PROVE  [Service!Next]_(Service!vars)
  BY <1>8, CallerSimulated
<1>9. CASE Flush
  <2>1. Service!Save
    BY <1>9 DEF Flush, Service!Save, RunView, CloseView, CallView
  <2> QED BY <2>1 DEF Service!Next
<1>10. CASE Restart
  <2>1. Service!Crash
    BY <1>10 DEF Restart, Service!Crash, RunView, CloseView, CallView
  <2> QED BY <2>1 DEF Service!Next
<1>11. CASE UNCHANGED vars
  BY <1>11, Stutter DEF vars
<1> QED
  BY <1>1, <1>2, <1>3, <1>4, <1>5, <1>6, <1>7, <1>8, <1>9, <1>10, <1>11
     DEF Next, Run, InnerNode

(* A Node is what NodeService says: whatever its tasks, its callers, the     *)
(* inner node and a crash do, and in whatever order.                         *)
THEOREM NodeServes == Spec => ImplementsService
<1>1. Init => Service!Init
  BY DEF Init, Service!Init, RunView, CloseView, CallView
<1>2. Spec => []ServiceInv
  BY TypeCorrect, CleanIsInvariant, HandleIsInvariant, BuiltIsInvariant, PTL
     DEF ServiceInv
<1> QED
  BY <1>1, <1>2, StepSimulated, PTL DEF Spec, ImplementsService, Service!Spec
=============================================================================
