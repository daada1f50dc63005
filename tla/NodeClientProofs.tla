---------------------------- MODULE NodeClientProofs ----------------------------
(***************************************************************************)
(* Proofs about NodeClient for every tolerance, set of callers and bound.  *)
(* A step of the composition is one of NodeLifecycle's or none, so what is *)
(* proved of that module holds of the node here; with it, a step is also   *)
(* one of ClientScan's or none, so what is proved of that one holds of the *)
(* client here.                                                            *)
(***************************************************************************)
EXTENDS NodeClient, ClientServiceProofs

\* NodeLifecycle again, with its theorems.
L == INSTANCE NodeLifecycleProofs WITH
  stop <- calls, token <- nodeToken, restarts <- 0, MaxRestarts <- 0

\* What the client, its watcher and the application do.
Visits == Watcher \/ Wait \/ Scan \/ Fetch \/ NodeCallFails \/ Stream
          \/ Application

LEMMA VisitsLeaveNode == Visits => UNCHANGED node
<1> USE DEF node, chain, env, Goes, ScanOver
<1>1. CASE Watcher \/ Wait \/ Fetch \/ NodeCallFails \/ Stream
  BY <1>1 DEF Watcher, WatcherCancels, WatcherCloses, Wait, WaitLooks, WaitFails,
              WaitWakes, WaitAborted, Fetch, NodeCallFails, Stream,
              StreamCancelled, StreamBlock
<1>2. CASE Scan
  BY <1>2 DEF Scan, Subscribe, Begin, RangeInvalid, Match, MatchRefused,
              ScanAborted, ApplyBlock, FinalCheckpoint, ReportDone,
              ReportStreaming, ReportError
<1>3. CASE Application
  BY <1>3 DEF Application, StartScan, UserCancels, DropScan, DropClient,
              NewClient, TakeEvent
<1> QED BY <1>1, <1>2, <1>3 DEF Visits

LEMMA ClientRunsVisits ==
  ClientRuns => /\ Visits /\ UNCHANGED tasks /\ runPc = "returned"
                /\ awaited' = IF pc = "look" /\ pc' \in {"begin", "subscribe"}
                              THEN reported
                              ELSE IF pc' = "idle" THEN 0 ELSE awaited
BY DEF ClientRuns, AfterRun, Visits

LEMMA SinkRunsLeaveNode ==
  SinkRuns => UNCHANGED node /\ UNCHANGED tasks /\ (OnBlockLooks \/ OnBlockSends)
BY DEF SinkRuns, OnBlockLooks, OnBlockSends

(* The node's part of the composition is NodeLifecycle, without a restart.   *)
LEMMA LifeSteps == [NodeClientNext]_allVars => [L!Next]_(L!vars)
<1> SUFFICES ASSUME [NodeClientNext]_allVars PROVE [L!Next]_(L!vars)
  OBVIOUS
<1>1. CASE UNCHANGED <<tasks, nodeTip, filterTip, nodeToken>>
  BY <1>1 DEF tasks, L!vars, L!stores, L!control, L!round, L!history
<1>2. CASE NodeRuns
  <2> USE DEF L!Next
  <2>1. CASE Life!Run
    <3>1. L!Run
      BY <2>1 DEF Life!Run, L!Run, Life!RunSpawn, L!RunSpawn,
            Life!RunStoreHandle, L!RunStoreHandle, Life!RunAnnounce, L!RunAnnounce,
            Life!SlotFree, L!SlotFree, Life!stores, L!stores, Life!control,
            L!control, Life!round, L!round, Life!history, L!history
    <3> QED BY <3>1
  <2>2. CASE Life!InnerNode
    <3>1. L!InnerNode
      BY <2>2 DEF Life!InnerNode, L!InnerNode, Life!NewHeader, L!NewHeader,
            Life!ValidateBlock, L!ValidateBlock, Life!StoreFilter, L!StoreFilter,
            Life!NodeStops, L!NodeStops, Life!NodeEnds, L!NodeEnds,
            Life!NodePanics, L!NodePanics, Life!NodeWorks, L!NodeWorks,
            Life!stores, L!stores, Life!control, L!control, Life!round, L!round,
            Life!history, L!history
    <3> QED BY <3>1
  <2>3. CASE Life!Updater
    <3>1. L!Updater
      BY <2>3 DEF Life!Updater, L!Updater, Life!UpdaterStops, L!UpdaterStops,
            Life!UpdaterTick, L!UpdaterTick, Life!UpdaterPeersAnswered,
            L!UpdaterPeersAnswered, Life!UpdaterPeersGone, L!UpdaterPeersGone,
            Life!UpdaterReadChain, L!UpdaterReadChain, Life!UpdaterReadNode,
            L!UpdaterReadNode, Life!UpdaterReadFilter, L!UpdaterReadFilter,
            Life!UpdaterReadFails, L!UpdaterReadFails, Life!UpdaterPublish,
            L!UpdaterPublish, Life!UpdaterStep, L!UpdaterStep, Life!NodeWorks,
            L!NodeWorks, Life!NoSample, L!NoSample, Life!compute_next_state,
            L!compute_next_state, Life!SkippedStates, L!SkippedStates,
            Life!ClampedFilter, L!ClampedFilter,
            Life!stores, L!stores, Life!control, L!control, Life!round, L!round
    <3> QED BY <3>1
  <2>4. CASE Life!CloserWakes \/ Life!CloserWorks
    <3>1. L!CloserWakes \/ L!CloserWorks
      BY <2>4 DEF Life!CloserWakes, L!CloserWakes, Life!CloserWorks,
            L!CloserWorks, Life!CloserKills, L!CloserKills, Life!CloserMarks,
            L!CloserMarks, Life!CloserCancels, L!CloserCancels,
            Life!CloserAwaitsStop, L!CloserAwaitsStop, Life!CloserJoinsNode,
            L!CloserJoinsNode, Life!CloserJoinsUpdater, L!CloserJoinsUpdater,
            Life!CloserFlushes, L!CloserFlushes, Life!CloserFinishes,
            L!CloserFinishes, Life!CloserWaits, L!CloserWaits,
            Life!CloserStep, L!CloserStep, Life!round, L!round
    <3> QED BY <3>1
  <2>5. ASSUME NEW c \in Callers, Life!Caller(c) PROVE L!Next
    <3>1. L!Caller(c)
      BY <2>5 DEF Life!Caller, L!Caller, Life!Shutdown, L!Shutdown,
            Life!ShutdownTakesHandle, L!ShutdownTakesHandle,
            Life!ShutdownFindsNothing, L!ShutdownFindsNothing,
            Life!ShutdownJoins, L!ShutdownJoins, Life!ShutdownDropped,
            L!ShutdownDropped, Life!CallerStep, L!CallerStep, Life!SlotFree,
            L!SlotFree, Life!stores, L!stores, Life!round, L!round
    <3> QED BY <3>1
  <2>6. CASE Life!Flush
    <3>1. L!Flush
      BY <2>6 DEF Life!Flush, L!Flush, Life!control, L!control, Life!round,
                  L!round, Life!history, L!history
    <3> QED BY <3>1
  <2> QED BY <1>2, <2>1, <2>2, <2>3, <2>4, <2>5, <2>6 DEF NodeRuns
<1>3. CASE SinkRuns
  BY <1>1, <1>3, SinkRunsLeaveNode DEF node, chain
<1>4. CASE ClientRuns
  BY <1>1, <1>4, ClientRunsVisits, VisitsLeaveNode DEF node, chain
<1>5. CASE UNCHANGED allVars
  BY <1>1, <1>5 DEF allVars, vars, node, chain
<1> QED BY <1>2, <1>3, <1>4, <1>5 DEF NodeClientNext

(* Clients do nothing to the node that NodeLifecycle does not have: for all  *)
(* that is proved of a node by itself it may have clients.                   *)
THEOREM NodeClientIsNode == NodeClientSpec => L!Spec
<1>1. NodeClientInit => L!Init
  BY DEF NodeClientInit, Life!Init, L!Init, Life!NoSample, L!NoSample
<1> QED BY <1>1, LifeSteps, PTL DEF NodeClientSpec, L!Spec

(* What NodeLifecycle's theorems say of the node here.                       *)
LifeInv == L!TypeOK /\ L!SampleInv /\ L!CleanShutdown

LEMMA LifeIsInvariant == NodeClientSpec => []LifeInv
<1>1. MaxHeight \in Nat /\ StartHeight \in 0..MaxHeight /\ 0 \in Nat
  BY BoundsAssumption
<1>2. L!Spec => []L!TypeOK
  BY <1>1, ToleranceAssumption, L!TypeCorrect
<1>3. L!Spec => []L!SampleInv
  BY <1>1, ToleranceAssumption, L!SampleIsInvariant
<1>4. L!Spec => []L!CleanShutdown
  BY <1>1, ToleranceAssumption, L!ShutdownIsClean
<1> QED BY <1>2, <1>3, <1>4, NodeClientIsNode, PTL DEF LifeInv

-----------------------------------------------------------------------------
(* The client is told of the node's state as it is, from the moment on that  *)
(* it may look at it.                                                        *)
WatchInv ==
  /\ nodeState = Seen(state, runPc)
  /\ runPc # "returned" => pc = "idle" /\ notified = FALSE

LEMMA WatchInit == NodeClientInit => WatchInv
BY DEF NodeClientInit, Init, Life!Init, WatchInv, Seen

\* Nothing but run() itself goes on from or back to before its return.
LEMMA RunReturns ==
  NodeRuns => \/ runPc = "returned" /\ runPc' = "returned"
              \/ runPc # "returned" /\ runPc' # "returned"
              \/ Life!RunAnnounce
<1> SUFFICES ASSUME NodeRuns
             PROVE  \/ runPc' = runPc
                    \/ runPc # "returned" /\ runPc' # "returned"
                    \/ Life!RunAnnounce
  OBVIOUS
<1>1. CASE Life!Run
  BY <1>1 DEF Life!Run, Life!RunSpawn, Life!RunStoreHandle
<1>2. CASE Life!InnerNode \/ Life!Flush
  BY <1>2 DEF Life!InnerNode, Life!NewHeader, Life!ValidateBlock,
              Life!StoreFilter, Life!NodeStops, Life!NodeEnds, Life!NodePanics,
              Life!Flush
<1>3. CASE Life!Updater
  BY <1>3 DEF Life!Updater, Life!UpdaterStops, Life!UpdaterTick,
              Life!UpdaterPeersAnswered, Life!UpdaterPeersGone,
              Life!UpdaterReadChain, Life!UpdaterReadNode,
              Life!UpdaterReadFilter, Life!UpdaterReadFails,
              Life!UpdaterPublish, Life!UpdaterStep
<1>4. CASE Life!CloserWakes \/ Life!CloserWorks
  BY <1>4 DEF Life!CloserWakes, Life!CloserWorks, Life!CloserKills,
              Life!CloserMarks, Life!CloserCancels, Life!CloserAwaitsStop,
              Life!CloserJoinsNode, Life!CloserJoinsUpdater, Life!CloserWaits,
              Life!CloserFlushes, Life!CloserFinishes, Life!CloserStep
<1>5. CASE \E c \in Callers : Life!Caller(c)
  BY <1>5 DEF Life!Caller, Life!Shutdown, Life!ShutdownTakesHandle,
              Life!ShutdownFindsNothing, Life!ShutdownJoins,
              Life!ShutdownDropped, Life!CallerStep
<1> QED BY <1>1, <1>2, <1>3, <1>4, <1>5 DEF NodeRuns

\* Nobody looks or waits.
LEMMA IdleIsDeaf == pc = "idle" => (pc \in {"look", "parked"}) = FALSE
OBVIOUS

LEMMA WatchStep == WatchInv /\ [NodeClientNext]_allVars => WatchInv'
<1> SUFFICES ASSUME WatchInv, [NodeClientNext]_allVars PROVE WatchInv'
  OBVIOUS
<1> USE DEF WatchInv
<1>1. CASE NodeRuns
  <2>1. nodeState' = Seen(state', runPc') /\ pc' = pc
    BY <1>1 DEF NodeRuns, Watched
  <2>2. pc = "idle" /\ notified = FALSE => notified' = FALSE
    BY <1>1, IdleIsDeaf, Zenon DEF NodeRuns, Watched
  <2>3. CASE Life!RunAnnounce
    BY <2>1, <2>3 DEF Life!RunAnnounce
  <2> QED BY <1>1, <2>1, <2>2, <2>3, RunReturns
<1>2. CASE SinkRuns
  BY <1>2, SinkRunsLeaveNode DEF tasks, node, OnBlockLooks, OnBlockSends
<1>3. CASE ClientRuns
  BY <1>3, ClientRunsVisits, VisitsLeaveNode DEF tasks, node
<1>4. CASE UNCHANGED allVars
  BY <1>4 DEF allVars, vars, tasks, node
<1> QED BY <1>1, <1>2, <1>3, <1>4 DEF NodeClientNext

-----------------------------------------------------------------------------
(* A state that the machine makes Operational is one that heights of this    *)
(* round would make so from Active; it makes no state one that closes.       *)
LEMMA Computed ==
  ASSUME NEW w \in BOOLEAN, NEW s \in States,
         NEW n \in Nat, NEW c \in Nat, NEW f \in Nat
  PROVE  /\ /\ Life!compute_next_state(w, s, n, c, f) = "Operational"
            /\ s # "Operational"
            => compute_next_state(TRUE, "Active", n, c, f) = "Operational"
         /\ Life!compute_next_state(w, s, n, c, f)
              \in {"ShuttingDown", "Inactive"}
            => Life!compute_next_state(w, s, n, c, f) = s
BY ToleranceAssumption
   DEF compute_next_state, SkippedStates, ClampedFilter, States, PolledStates,
       Life!compute_next_state, Life!SkippedStates, Life!ClampedFilter

LEMMA LifeTypes ==
  LifeInv => /\ wireReady \in BOOLEAN /\ state \in States
             /\ nodeTip \in Heights /\ filterTip \in Heights
             /\ chainTip \in Heights /\ reported \in Heights
             /\ sample.chain \in Heights
             /\ sample.node \in 0..nodeTip /\ sample.filter \in 0..filterTip
BY BoundsAssumption
   DEF LifeInv, L!TypeOK, L!FlagsOK, L!DataOK, L!States, L!PolledStates,
       L!SkippedStates, States, PolledStates, SkippedStates, L!Heights, Heights,
       L!SampleInv

(* A step of the node that publishes nothing, on the watch channel.          *)
LEMMA Silent ==
  ASSUME WatchInv, NodeRuns, state' = state, ~Life!UpdaterPublish
  PROVE  UNCHANGED <<nodeState, notified>>
<1>1. CASE Life!RunAnnounce
  BY <1>1 DEF WatchInv, NodeRuns, Watched, Seen, Life!RunAnnounce
<1> QED BY <1>1, RunReturns DEF WatchInv, NodeRuns, Watched, Seen

(* A step that changes none of what is shared is none to the client.         *)
LEMMA Unnoticed ==
  ASSUME WatchInv, NodeRuns,
         UNCHANGED <<nodeTip, filterTip, nodeToken, nodeState, notified>>
  PROVE  UNCHANGED vars
BY DEF NodeRuns, Consumed, vars, node, chain, sink

(* A new state is published to whoever looks or waits, unless run() has not  *)
(* returned yet: then nobody does.                                           *)
LEMMA Noticed ==
  ASSUME WatchInv, NodeRuns, UNCHANGED <<nodeTip, filterTip, nodeToken>>,
         state' # state \/ notified' # notified
  PROVE  \/ /\ runPc = "returned" /\ runPc' = "returned"
            /\ Publish(Seen(state', "returned"))
         \/ UNCHANGED vars
<1>1. /\ nodeState' = Seen(state', runPc') /\ notified' = (pc \in {"look", "parked"})
      /\ onBlock' = onBlock
  BY DEF NodeRuns, Watched, Consumed
<1>2. CASE runPc = "returned" /\ runPc' = "returned"
  BY <1>1, <1>2 DEF Publish, NodeRuns, chain, sink
<1>3. CASE runPc # "returned"
  <2>1. pc = "idle" /\ notified = FALSE
    BY <1>3 DEF WatchInv
  <2>0. notified' = FALSE
    BY <1>1, <2>1, IdleIsDeaf, Zenon
  <2>2. nodeState = "Syncing" /\ nodeState' = "Syncing"
    <3>1. CASE Life!RunAnnounce
      BY <1>1, <1>3, <3>1 DEF WatchInv, Seen, Life!RunAnnounce
    <3> QED BY <1>1, <1>3, <3>1, RunReturns DEF WatchInv, Seen
  <2> QED BY <1>1, <2>0, <2>1, <2>2 DEF NodeRuns, vars, node, chain, sink
<1> QED BY <1>2, <1>3, RunReturns DEF Life!RunAnnounce

\* The steps that change what the node shares with the client.
Shared == \/ Life!ValidateBlock \/ Life!StoreFilter \/ Life!UpdaterPublish
          \/ Life!CloserMarks \/ Life!CloserFinishes \/ Life!RunAnnounce
          \/ Life!CloserCancels \/ \E c \in Callers : Life!Shutdown(c)

LEMMA NotShared ==
  NodeRuns /\ ~Shared => UNCHANGED <<nodeTip, filterTip, nodeToken, state>>
<1> SUFFICES ASSUME NodeRuns, ~Shared
             PROVE  UNCHANGED <<nodeTip, filterTip, nodeToken, state>>
  OBVIOUS
<1> USE DEF Shared, Life!stores, Life!control
<1>1. CASE Life!Run
  BY <1>1 DEF Life!Run, Life!RunSpawn, Life!RunStoreHandle
<1>2. CASE Life!InnerNode \/ Life!Flush
  BY <1>2 DEF Life!InnerNode, Life!NewHeader, Life!NodeStops, Life!NodeEnds,
              Life!NodePanics, Life!Flush
<1>3. CASE Life!Updater
  BY <1>3 DEF Life!Updater, Life!UpdaterStops, Life!UpdaterTick,
              Life!UpdaterPeersAnswered, Life!UpdaterPeersGone,
              Life!UpdaterReadChain, Life!UpdaterReadNode,
              Life!UpdaterReadFilter, Life!UpdaterReadFails, Life!UpdaterStep
<1>4. CASE Life!CloserWakes \/ Life!CloserWorks
  BY <1>4 DEF Life!CloserWakes, Life!CloserWorks, Life!CloserKills,
              Life!CloserAwaitsStop, Life!CloserJoinsNode,
              Life!CloserJoinsUpdater, Life!CloserWaits, Life!CloserFlushes,
              Life!CloserStep
<1>5. CASE \E c \in Callers : Life!Caller(c)
  BY <1>5 DEF Life!Caller, Life!ShutdownTakesHandle,
              Life!ShutdownFindsNothing, Life!ShutdownJoins,
              Life!ShutdownDropped, Life!CallerStep
<1> QED BY <1>1, <1>2, <1>3, <1>4, <1>5 DEF NodeRuns

(* A step of the node's tasks is one that ClientScan leaves to its node, or  *)
(* none.                                                                     *)
LEMMA NodeSimulated ==
  ASSUME LifeInv, WatchInv, NodeRuns
  PROVE  [Next]_vars
<1> USE DEF Next, Node
<1>1. CASE Life!ValidateBlock
  <2>1. /\ nodeTip' = nodeTip + 1 /\ UNCHANGED <<filterTip, nodeToken, state>>
        /\ nodeTip < chainTip /\ ~Life!UpdaterPublish
    BY <1>1 DEF Life!ValidateBlock, Life!UpdaterPublish, Life!UpdaterStep,
                Life!control
  <2>2. nodeTip < MaxHeight /\ nodeTip' # nodeTip
    BY <2>1, LifeTypes, BoundsAssumption DEF Heights
  <2>3. ValidateBlock
    BY <2>1, <2>2, Silent DEF ValidateBlock, NodeRuns, Consumed
  <2> QED BY <2>3
<1>2. CASE Life!StoreFilter
  <2>1. /\ filterTip' = filterTip + 1 /\ UNCHANGED <<nodeTip, nodeToken, state>>
        /\ filterTip < chainTip /\ ~Life!UpdaterPublish
    BY <1>2 DEF Life!StoreFilter, Life!UpdaterPublish, Life!UpdaterStep,
                Life!control
  <2>2. filterTip < MaxHeight
    BY <2>1, LifeTypes, BoundsAssumption DEF Heights
  <2>3. StoreFilter
    BY <2>1, <2>2, Silent DEF StoreFilter, NodeRuns, Consumed, sink
  <2> QED BY <2>3
<1>3. CASE Life!UpdaterPublish
  <2>1. /\ UNCHANGED <<nodeTip, filterTip, nodeToken>>
        /\ \/ state = "ShuttingDown" /\ state' = state
           \/ /\ state # "ShuttingDown"
              /\ state' = Life!compute_next_state(wireReady, state, sample.node,
                                                  sample.chain, sample.filter)
    BY <1>3 DEF Life!UpdaterPublish, Life!UpdaterStep, Life!stores, Life!control
  <2>2. CASE UNCHANGED <<nodeState, notified>>
    BY <2>1, <2>2, Unnoticed
  <2>3. CASE ~UNCHANGED <<nodeState, notified>>
    <3>1. /\ Publish(Seen(state', "returned")) /\ nodeState = Seen(state, "returned")
          /\ state' # state \/ state \in HasHeights
      <4>1. state' # state \/ (notified' # notified /\ state \in HasHeights)
        BY <2>1, <2>3, <1>3 DEF NodeRuns, Watched, WatchInv, Life!UpdaterPublish, Life!UpdaterStep
      <4> QED BY <2>1, <2>3, <4>1, Noticed DEF WatchInv, vars, node
    <3>2. /\ sample.node \in 0..nodeTip /\ sample.filter \in 0..filterTip
          /\ sample.chain \in Heights /\ state \in States /\ wireReady \in BOOLEAN
          /\ sample.node \in Nat /\ sample.filter \in Nat /\ sample.chain \in Nat
      BY LifeTypes, BoundsAssumption DEF Heights
    <3>3. CASE state' \in {"ShuttingDown", "Inactive"}
      <4>1. state' = state
        <5>1. CASE state' = Life!compute_next_state(wireReady, state, sample.node,
                                                    sample.chain, sample.filter)
          BY <3>2, <3>3, <5>1, Computed
        <5> QED BY <2>1, <5>1
      <4> QED BY <3>1, <3>3, <4>1 DEF HasHeights
    <3>4. CASE state' = "Operational"
      <4>1. /\ state # "Operational"
            /\ compute_next_state(TRUE, "Active", sample.node, sample.chain,
                                  sample.filter) = "Operational"
        BY <2>1, <3>1, <3>2, <3>4, Computed DEF HasHeights
      <4>2. nodeState \notin {"Closing", "Operational"}
        <5>1. state \notin {"ShuttingDown", "Inactive"}
          BY <2>1, <3>4 DEF Life!compute_next_state, Life!SkippedStates
        <5> QED BY <3>1, <4>1, <5>1 DEF Seen
      <4>3. Poll
        BY <3>1, <3>2, <3>4, <4>1, <4>2 DEF Poll, Seen
      <4> QED BY <4>3
    <3>5. CASE state' \notin {"ShuttingDown", "Inactive", "Operational"}
      <4>1. state \notin {"ShuttingDown", "Inactive"}
        BY <2>1, <3>2, <3>5
           DEF Life!compute_next_state, Life!SkippedStates
      <4>2. Poll
        BY <3>1, <3>5, <4>1 DEF Poll, Seen
      <4> QED BY <4>2
    <3> QED BY <3>3, <3>4, <3>5
  <2> QED BY <2>2, <2>3
<1>4. CASE Life!CloserMarks \/ Life!CloserFinishes
  <2>1. /\ UNCHANGED <<nodeTip, filterTip, nodeToken>>
        /\ state' \in {"ShuttingDown", "Inactive"}
    BY <1>4 DEF Life!CloserMarks, Life!CloserFinishes, Life!CloserStep
  <2>2. CASE UNCHANGED <<nodeState, notified>>
    BY <2>1, <2>2, Unnoticed
  <2>3. CASE ~UNCHANGED <<nodeState, notified>>
    <3>1. Publish(Seen(state', "returned"))
      <4>1. ~Life!UpdaterPublish
        BY <1>4 DEF Life!CloserMarks, Life!CloserFinishes, Life!CloserStep,
                    Life!UpdaterPublish, Life!UpdaterStep
      <4> QED BY <2>1, <2>3, <4>1, Silent, Noticed DEF vars, node
    <3>2. NodeCloses
      BY <2>1, <3>1 DEF NodeCloses, Seen
    <3> QED BY <3>2
  <2> QED BY <2>2, <2>3
<1>5. CASE Life!CloserCancels \/ \E c \in Callers : Life!Shutdown(c)
  <2>1. /\ UNCHANGED <<nodeTip, filterTip, state>> /\ nodeToken' = TRUE
        /\ ~Life!UpdaterPublish
    BY <1>5 DEF Life!CloserCancels, Life!CloserStep, Life!Shutdown,
                Life!CallerStep, Life!stores, Life!UpdaterPublish, Life!UpdaterStep
  <2>2. CASE nodeToken' = nodeToken
    BY <2>1, <2>2, Silent, Unnoticed
  <2>3. CASE nodeToken' # nodeToken
    <3>0. ~nodeToken
      BY <2>1, <2>3 DEF LifeInv, L!TypeOK, L!FlagsOK
    <3>1. NodeCancels
      BY <2>1, <3>0, Silent DEF NodeCancels, NodeRuns, Consumed, chain, sink
    <3> QED BY <3>1
  <2> QED BY <2>2, <2>3
<1>6. CASE Life!RunAnnounce
  <2>1. /\ UNCHANGED <<nodeTip, filterTip, nodeToken>> /\ runPc # "returned"
        /\ ~Life!UpdaterPublish
    BY <1>6 DEF Life!RunAnnounce, Life!stores, Life!control,
                Life!UpdaterPublish, Life!UpdaterStep
  <2> QED BY <2>1, Silent, Noticed, Unnoticed
<1>7. CASE ~Shared
  <2>1. UNCHANGED <<nodeTip, filterTip, nodeToken, state>> /\ ~Life!UpdaterPublish
    BY <1>7, NotShared DEF Shared
  <2> QED BY <2>1, Silent, Unnoticed
<1> QED BY <1>1, <1>2, <1>3, <1>4, <1>5, <1>6, <1>7 DEF Shared

LEMMA StepSimulated ==
  LifeInv /\ WatchInv /\ [NodeClientNext]_allVars => [Next]_vars
<1> SUFFICES ASSUME LifeInv, WatchInv, [NodeClientNext]_allVars
             PROVE  [Next]_vars
  OBVIOUS
<1>1. CASE SinkRuns
  BY <1>1 DEF SinkRuns, Next, Node
<1>2. CASE ClientRuns
  BY <1>2, ClientRunsVisits DEF Visits, Next
<1>3. CASE UNCHANGED allVars
  BY <1>3 DEF allVars
<1> QED BY <1>1, <1>2, <1>3, NodeSimulated DEF NodeClientNext

LEMMA WatchIsInvariant == NodeClientSpec => []WatchInv
BY WatchInit, WatchStep, PTL DEF NodeClientSpec

(* Whatever run(), the updater, the shutdown task, the callers of shutdown() *)
(* and the inner node do, the client lives with a node as ClientScan has it: *)
(* there is no assumption left in that module but the application's.         *)
THEOREM NodeClientIsClientScan == NodeClientSpec => ImplementsClientScan
<1>1. NodeClientInit => Init
  BY DEF NodeClientInit
<1> QED BY <1>1, StepSimulated, LifeIsInvariant, WatchIsInvariant, PTL
           DEF NodeClientSpec, ImplementsClientScan, Spec

-----------------------------------------------------------------------------
(* ScanReachesTip, from the moment on that the scan no longer waits: until   *)
(* it fixes its stop height, the filters reach that far.                     *)
TipInv ==
  /\ awaited \in Nat
  /\ pc \in {"subscribe", "begin"} => awaited <= filterTip
  /\ ScanReachesTip

\* What has been stored stays stored.
LEMMA FiltersGrow ==
  NodeRuns /\ filterTip \in Nat => filterTip' \in Nat /\ filterTip <= filterTip'
<1> SUFFICES ASSUME NodeRuns, filterTip \in Nat
             PROVE  filterTip' \in {filterTip, filterTip + 1}
  OBVIOUS
<1>1. CASE Shared
  BY <1>1 DEF Shared, Life!ValidateBlock, Life!StoreFilter,
              Life!UpdaterPublish, Life!UpdaterStep, Life!CloserMarks,
              Life!CloserFinishes, Life!CloserCancels, Life!CloserStep,
              Life!RunAnnounce, Life!Shutdown, Life!CallerStep, Life!stores
<1> QED BY <1>1, NotShared

LEMMA TipStep ==
  LifeInv /\ WatchInv /\ TipInv /\ [NodeClientNext]_allVars => TipInv'
<1> SUFFICES ASSUME LifeInv, WatchInv, TipInv, [NodeClientNext]_allVars
             PROVE  TipInv'
  OBVIOUS
<1>0. filterTip \in Nat /\ reported \in Nat
  BY LifeTypes, BoundsAssumption DEF Heights
<1> USE DEF TipInv, ScanReachesTip
<1>1. CASE NodeRuns
  <2>1. UNCHANGED <<pc, stop, awaited>>
    BY <1>1 DEF NodeRuns, work
  <2> QED BY <1>0, <1>1, <2>1, FiltersGrow
<1>2. CASE SinkRuns \/ UNCHANGED allVars
  <2>1. UNCHANGED <<pc, stop, awaited, filterTip>>
    BY <1>2 DEF SinkRuns, OnBlockLooks, OnBlockSends, work, node, chain,
                allVars, vars
  <2> QED BY <2>1
<1>3. CASE ClientRuns
  <2>0. /\ Visits /\ filterTip' = filterTip /\ runPc = "returned"
        /\ awaited' = IF pc = "look" /\ pc' \in {"begin", "subscribe"}
                      THEN reported ELSE IF pc' = "idle" THEN 0 ELSE awaited
    BY <1>3, ClientRunsVisits, VisitsLeaveNode DEF node, chain
  <2>1. awaited' \in Nat
    BY <1>0, <2>0
  <2>2. CASE WaitLooks /\ pc' \in {"begin", "subscribe"}
    <3>1. pc = "look" /\ nodeState = "Operational"
      BY <2>2 DEF WaitLooks, Goes
    <3>2. state = "Operational"
      BY <2>0, <3>1 DEF WatchInv, Seen
    <3>3. reported <= filterTip
      BY <1>0, <3>2 DEF LifeInv, L!SampleInv, L!OperationalIsSynced
    <3> QED BY <2>0, <2>1, <2>2, <3>1, <3>3
  <2>3. CASE Begin
    BY <2>0, <2>1, <2>3 DEF Begin, Goes
  <2>4. CASE pc' \in {"idle", "look", "parked", "failed"}
    BY <2>1, <2>4
  <2>5. CASE UNCHANGED <<pc, stop>>
    BY <2>0, <2>1, <2>5
  <2>6. CASE Subscribe
    BY <2>0, <2>1, <2>6 DEF Subscribe, Goes
  <2>7. CASE /\ pc \in {"match", "fetch", "apply", "succeeded"}
             /\ pc' \in {"fetch", "apply", "succeeded", "stream"}
             /\ stop' = stop
    BY <2>0, <2>1, <2>7
  <2>8. \/ WaitLooks /\ pc' \in {"begin", "subscribe"}
        \/ Begin \/ Subscribe
        \/ pc' \in {"idle", "look", "parked", "failed"}
        \/ UNCHANGED <<pc, stop>>
        \/ /\ pc \in {"match", "fetch", "apply", "succeeded"}
           /\ pc' \in {"fetch", "apply", "succeeded", "stream"}
           /\ stop' = stop
    <3> USE DEF work
    <3>1. CASE Watcher
      BY <3>1 DEF Watcher, WatcherCancels, WatcherCloses
    <3>2. CASE Wait
      BY <3>2 DEF Wait, WaitLooks, WaitFails, WaitWakes, WaitAborted, Goes,
                  ScanOver
    <3>3. CASE Scan
      BY <3>3 DEF Scan, RangeInvalid, Match, MatchRefused, ScanAborted,
                  ApplyBlock, FinalCheckpoint, ReportDone, ReportStreaming,
                  ReportError, Goes, ScanOver
    <3>4. CASE Fetch \/ NodeCallFails \/ Stream
      BY <3>4 DEF Fetch, NodeCallFails, Stream, StreamCancelled, StreamBlock,
                  Goes, ScanOver
    <3>5. CASE Application
      BY <3>5 DEF Application, StartScan, UserCancels, DropScan, DropClient,
                  NewClient, TakeEvent, ScanOver
    <3> QED BY <2>0, <3>1, <3>2, <3>3, <3>4, <3>5 DEF Visits
  <2> QED BY <2>2, <2>3, <2>4, <2>5, <2>6, <2>7, <2>8
<1> QED BY <1>1, <1>2, <1>3 DEF NodeClientNext

(* A scan covers at least the chain behind the Operational that it waited    *)
(* for, for every tolerance and height and whatever is published meanwhile.  *)
THEOREM ScansReachTip == NodeClientSpec => []ScanReachesTip
<1>1. NodeClientInit => TipInv
  BY DEF NodeClientInit, Init, TipInv, ScanReachesTip
<1>2. TipInv => ScanReachesTip
  BY DEF TipInv
<1> QED BY <1>1, <1>2, TipStep, LifeIsInvariant, WatchIsInvariant, PTL
           DEF NodeClientSpec

-----------------------------------------------------------------------------
(* The promises of ClientScan and ClientService are kept beside this node.   *)
THEOREM NodeClientKeepsPromises ==
  NodeClientSpec => /\ [](CheckpointIsComplete /\ WalletIsComplete)
                    /\ ImplementsService
BY NodeClientIsClientScan, CheckpointPromise, WalletPromise, ClientServes, PTL
   DEF ImplementsClientScan

(* Once a node is down without a hitch, the blocks its clients' wallets have *)
(* seen are flushed, or their filters are stored.                            *)
THEOREM WalletsAreBacked == NodeClientSpec => []WalletIsBacked
<1>1. ServiceInv /\ LifeInv => WalletIsBacked
  <2> SUFFICES ASSUME ServiceInv, LifeInv, closer = "done", ~unclean
               PROVE  walletCp <= Higher(flushed, filterTip)
    BY DEF WalletIsBacked
  <2>1. flushed = nodeTip
    BY DEF LifeInv, L!CleanShutdown
  <2>2. walletCp <= cp /\ cp <= Tip
    BY DEF ServiceInv, ScanInv, BehindInv, ReachInv
  <2>3. walletCp \in Nat /\ cp \in Nat /\ Tip \in Nat
    <3>1. /\ walletCp \in Nat /\ cp \in Nat
          /\ nodeTip \in Nat /\ filterTip \in Nat
      BY BoundsAssumption
         DEF ServiceInv, ScanInv, Types, PassTypes, ChainTypes, Heights
    <3> QED BY <3>1, HigherFacts DEF Tip
  <2> QED BY <2>1, <2>2, <2>3 DEF Tip
<1>2. Spec => []ServiceInv
  BY ServiceInvInit, ServiceInvStep, PTL DEF Spec
<1> QED BY <1>1, <1>2, LifeIsInvariant, NodeClientIsClientScan, PTL
           DEF ImplementsClientScan
================================================================================
