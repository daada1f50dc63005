---------------------------- MODULE NodeLifecycle ----------------------------
(***************************************************************************)
(* The life of a bdk_floresta Node, from run() to the end of its shutdown  *)
(* task, as the interleaving of the tasks that share its state:            *)
(*                                                                         *)
(*   run()        spawns the tasks, stores the shutdown task's handle and  *)
(*                announces Active;                                        *)
(*   inner node   the UtreexoNode's task (external), which downloads       *)
(*                headers, validates blocks and stores filters;            *)
(*   updater      the state_update_task, which polls the inner node and    *)
(*                publishes the state machine's next state;                *)
(*   closer       the shutdown_task, which waits for SIGINT or the token,  *)
(*                stops the other tasks within a timeout, flushes, and     *)
(*                announces Inactive;                                      *)
(*   callers      the concurrent calls of Node::shutdown.                  *)
(*                                                                         *)
(* The process may also die at any point and be started again on what its  *)
(* stores kept.                                                            *)
(***************************************************************************)
EXTENDS NodeFsm

CONSTANTS Callers,      \* the calls of Node::shutdown
          StartHeight,  \* what the stores hold when the first node is built
          MaxHeight,    \* bound: the best chain's height
          MaxRestarts   \* bound: how often the process is started again

ASSUME BoundsAssumption ==
  /\ MaxHeight \in Nat /\ StartHeight \in 0..MaxHeight
  /\ MaxRestarts \in Nat

VARIABLES
  chainTip,   \* height of the best known header
  nodeTip,    \* height of the last validated block
  filterTip,  \* height of the last stored compact block filter
  flushed,    \* the validated height that is safe on disk
  state,      \* the watch channel's State
  token,      \* the cancellation token has fired
  kill,       \* the kill signal shared with the inner node
  handle,     \* Node.shutdown_task: "none", "stored" or "taken"
  runPc,      \* progress of the one run() that gets the inner node
  nodeTask,   \* the inner node's task
  updater,    \* the updater's program counter
  wireReady,  \* the inner node's answer in this round
  sample,     \* the heights the updater has read in this round
  closer,     \* the closer's program counter
  stop,       \* progress of each caller of shutdown()
  restarts,   \* how often the process has been restarted
  \* History, read by properties only:
  reported,   \* the chain tip behind the last state the updater published
  unclean,    \* a shutdown step timed out or failed
  overtaken,  \* the closer woke before run() had returned
  promised,   \* callers that began once the handle was stored
  detached    \* a caller was dropped while it awaited the closer

round   == <<wireReady, sample>>
stores  == <<chainTip, nodeTip, filterTip, flushed>>
control == <<token, kill, handle>>
history == <<reported, unclean, overtaken, promised, detached>>
vars == <<stores, state, control, runPc, nodeTask, updater, round, closer,
          stop, restarts, history>>

Heights == 0..MaxHeight
NoSample == [chain |-> 0, node |-> 0, filter |-> 0]

UpdaterPcs == {"off", "sleep", "peers", "chain", "node", "filter", "publish",
               "done"}
CloserPcs == {"off", "wait", "kill", "mark", "cancel", "awaitStop",
              "joinNode", "joinUpdater", "flush", "inactive", "done"}

FlagsOK ==
  /\ token \in BOOLEAN /\ kill \in BOOLEAN /\ wireReady \in BOOLEAN
  /\ unclean \in BOOLEAN /\ overtaken \in BOOLEAN /\ detached \in BOOLEAN

DataOK ==
  /\ chainTip \in Heights /\ nodeTip \in Heights
  /\ filterTip \in Heights /\ flushed \in Heights
  /\ state \in States
  /\ handle \in {"none", "stored", "taken"}
  /\ runPc \in {"idle", "spawned", "stored", "returned"}
  /\ nodeTask \in {"unspawned", "running", "stopped", "ended"}
  /\ updater \in UpdaterPcs
  /\ sample \in [chain : Heights, node : Heights, filter : Heights]
  /\ closer \in CloserPcs
  /\ stop \in [Callers -> {"idle", "locking", "awaiting", "ok", "dropped"}]
  /\ restarts \in 0..MaxRestarts
  /\ reported \in Heights
  /\ promised \in SUBSET Callers

\* The type invariant.
TypeOK == FlagsOK /\ DataOK

-----------------------------------------------------------------------------
Init ==
  /\ chainTip = StartHeight /\ nodeTip = StartHeight
  /\ filterTip = StartHeight /\ flushed = StartHeight
  /\ state = "Inactive" /\ token = FALSE /\ kill = FALSE /\ handle = "none"
  /\ runPc = "idle" /\ nodeTask = "unspawned"
  /\ updater = "off" /\ wireReady = FALSE /\ sample = NoSample
  /\ closer = "off"
  /\ stop = [c \in Callers |-> "idle"]
  /\ restarts = 0 /\ reported = 0
  /\ unclean = FALSE /\ overtaken = FALSE
  /\ promised = {} /\ detached = FALSE

-----------------------------------------------------------------------------
(* run(): a later call finds no inner node and returns AlreadyRunning        *)
(* without touching anything, so one call is enough.                         *)

\* A slip: the guard released before the handle is awaited.
SlotFree_Slip == TRUE

\* Nobody holds the mutex around the handle: shutdown() keeps the guard of
\* its `if let` for as long as it awaits the handle it took.
SlotFree == \A c \in Callers : stop[c] # "awaiting"

RunSpawn ==
  /\ runPc = "idle"
  /\ runPc' = "spawned"
  /\ nodeTask' = "running" /\ updater' = "sleep" /\ closer' = "wait"
  /\ UNCHANGED <<stores, state, control, round, stop, restarts, history>>

RunStoreHandle ==
  /\ runPc = "spawned" /\ SlotFree
  /\ runPc' = "stored" /\ handle' = "stored"
  /\ UNCHANGED <<stores, state, token, kill, nodeTask, updater, round,
                 closer, stop, restarts, history>>

RunAnnounce ==
  /\ runPc = "stored"
  /\ runPc' = "returned" /\ state' = "Active"
  /\ UNCHANGED <<stores, control, nodeTask, updater, round, closer, stop,
                 restarts, history>>

-----------------------------------------------------------------------------
(* The inner node (external): until its task has ended it may move the       *)
(* stores' tips; it notices the kill signal, reports that it stopped, and    *)
(* ends.  It may also panic, which drops the stop channel.                   *)

NodeWorks == nodeTask \in {"running", "stopped"}

NewHeader ==
  /\ NodeWorks /\ chainTip < MaxHeight
  /\ chainTip' = chainTip + 1
  /\ UNCHANGED <<nodeTip, filterTip, flushed, state, control, runPc, nodeTask,
                 updater, round, closer, stop, restarts, history>>

ValidateBlock ==
  /\ NodeWorks /\ nodeTip < chainTip
  /\ nodeTip' = nodeTip + 1
  /\ UNCHANGED <<chainTip, filterTip, flushed, state, control, runPc,
                 nodeTask, updater, round, closer, stop, restarts, history>>

StoreFilter ==
  /\ NodeWorks /\ filterTip < chainTip
  /\ filterTip' = filterTip + 1
  /\ UNCHANGED <<chainTip, nodeTip, flushed, state, control, runPc, nodeTask,
                 updater, round, closer, stop, restarts, history>>

NodeStops ==
  /\ nodeTask = "running" /\ kill
  /\ nodeTask' = "stopped"
  /\ UNCHANGED <<stores, state, control, runPc, updater, round, closer, stop,
                 restarts, history>>

NodeEnds ==
  /\ nodeTask = "stopped"
  /\ nodeTask' = "ended"
  /\ UNCHANGED <<stores, state, control, runPc, updater, round, closer, stop,
                 restarts, history>>

NodePanics ==
  /\ nodeTask = "running"
  /\ nodeTask' = "ended"
  /\ UNCHANGED <<stores, state, control, runPc, updater, round, closer, stop,
                 restarts, history>>

-----------------------------------------------------------------------------
(* The updater.  Its select takes either ready branch; a round asks the      *)
(* inner node for its peers, then reads the three heights one by one.        *)

UpdaterStep(pc, next) ==
  /\ updater = pc /\ updater' = next
  /\ UNCHANGED <<stores, control, runPc, nodeTask, closer, stop, restarts,
                 unclean, overtaken, promised, detached>>

UpdaterStops ==
  /\ token
  /\ UpdaterStep("sleep", "done")
  /\ UNCHANGED <<state, round, reported>>

UpdaterTick ==
  /\ UpdaterStep("sleep", "peers")
  /\ UNCHANGED <<state, round, reported>>

\* The node answers with its peers, none of them, or an error.
UpdaterPeersAnswered ==
  /\ NodeWorks
  /\ UpdaterStep("peers", "chain")
  /\ wireReady' \in BOOLEAN
  /\ UNCHANGED <<state, sample, reported>>

\* A slip: only an empty answer counts as not ready, an error does not.
UpdaterPeersGone_Slip ==
  /\ nodeTask = "ended"
  /\ UpdaterStep("peers", "chain")
  /\ wireReady' = TRUE
  /\ UNCHANGED <<state, sample, reported>>

\* The node's task is gone, and the request's answer channel with it.
UpdaterPeersGone ==
  /\ nodeTask = "ended"
  /\ UpdaterStep("peers", "chain")
  /\ wireReady' = FALSE
  /\ UNCHANGED <<state, sample, reported>>

\* A slip: the number of headers taken for the best height.
UpdaterReadChain_Slip ==
  /\ UpdaterStep("chain", "node")
  /\ sample' = [sample EXCEPT !.chain = chainTip + 1]
  /\ UNCHANGED <<state, wireReady, reported>>

UpdaterReadChain ==
  /\ UpdaterStep("chain", "node")
  /\ sample' = [sample EXCEPT !.chain = chainTip]
  /\ UNCHANGED <<state, wireReady, reported>>

UpdaterReadNode ==
  /\ UpdaterStep("node", "filter")
  /\ sample' = [sample EXCEPT !.node = nodeTip]
  /\ UNCHANGED <<state, wireReady, reported>>

UpdaterReadFilter ==
  /\ UpdaterStep("filter", "publish")
  /\ sample' = [sample EXCEPT !.filter = filterTip]
  /\ UNCHANGED <<state, wireReady, reported>>

\* A read that fails is logged and ends the round (`continue`).
UpdaterReadFails ==
  /\ \E pc \in {"chain", "node", "filter"} : UpdaterStep(pc, "sleep")
  /\ wireReady' = FALSE /\ sample' = NoSample
  /\ UNCHANGED <<state, reported>>

UpdaterPublish ==
  /\ UpdaterStep("publish", "sleep")
  /\ IF state = "ShuttingDown"
     THEN UNCHANGED <<state, reported>>
     ELSE /\ state' = compute_next_state(wireReady, state, sample.node,
                                         sample.chain, sample.filter)
          /\ reported' = sample.chain
  /\ wireReady' = FALSE /\ sample' = NoSample

-----------------------------------------------------------------------------
(* The closer: a straight line once woken, whose waits are each limited by   *)
(* SHUTDOWN_TIMEOUT.  A wait that times out is only logged; so is a flush    *)
(* that fails.                                                               *)

CloserStep(pc, next) ==
  /\ closer = pc /\ closer' = next
  /\ UNCHANGED <<chainTip, nodeTip, filterTip, handle, runPc, nodeTask,
                 updater, round, stop, restarts, reported, promised, detached>>

\* By the token, or (the token still unset) by SIGINT.
CloserWakes ==
  /\ CloserStep("wait", "kill")
  /\ overtaken' = (runPc # "returned")
  /\ UNCHANGED <<flushed, state, token, kill, unclean>>

CloserKills ==
  /\ CloserStep("kill", "mark")
  /\ kill' = TRUE
  /\ UNCHANGED <<flushed, state, token, unclean, overtaken>>

CloserMarks ==
  /\ CloserStep("mark", "cancel")
  /\ state' = "ShuttingDown"
  /\ UNCHANGED <<flushed, token, kill, unclean, overtaken>>

\* A slip: nothing is cancelled if it was SIGINT that woke the task.
CloserCancels_Slip ==
  /\ CloserStep("cancel", "awaitStop")
  /\ UNCHANGED <<flushed, state, token, kill, unclean, overtaken>>

CloserCancels ==
  /\ CloserStep("cancel", "awaitStop")
  /\ token' = TRUE
  /\ UNCHANGED <<flushed, state, kill, unclean, overtaken>>

\* A wait of the closer: over when `done` holds, or given up.
CloserWaits(pc, next, done) ==
  /\ CloserStep(pc, next)
  /\ unclean' = (unclean \/ ~done)
  /\ UNCHANGED <<flushed, state, token, kill, overtaken>>

\* A slip: the stop notification taken for the end of the node's task.
CloserAwaitsStop_Slip == CloserWaits("awaitStop", "joinUpdater",
                                     nodeTask \in {"stopped", "ended"})

\* The stop channel yields when the node sent on it or dropped it.
CloserAwaitsStop == CloserWaits("awaitStop", "joinNode",
                                nodeTask \in {"stopped", "ended"})

\* A slip: the join without its timeout.
CloserJoinsNode_Slip ==
  nodeTask = "ended" /\ CloserWaits("joinNode", "joinUpdater", TRUE)

CloserJoinsNode == CloserWaits("joinNode", "joinUpdater", nodeTask = "ended")

CloserJoinsUpdater == CloserWaits("joinUpdater", "flush", updater = "done")

CloserFlushes ==
  /\ CloserStep("flush", "inactive")
  /\ \/ flushed' = nodeTip /\ UNCHANGED unclean
     \/ unclean' = TRUE /\ UNCHANGED flushed
  /\ UNCHANGED <<state, token, kill, overtaken>>

CloserFinishes ==
  /\ CloserStep("inactive", "done")
  /\ state' = "Inactive"
  /\ UNCHANGED <<flushed, token, kill, unclean, overtaken>>

-----------------------------------------------------------------------------
(* shutdown() and flush(), called by the application.                        *)

CallerStep(c, pc, next) ==
  /\ stop[c] = pc /\ stop' = [stop EXCEPT ![c] = next]
  /\ UNCHANGED <<stores, state, kill, runPc, nodeTask, updater, round,
                 closer, restarts, reported, unclean, overtaken>>

\* A slip: the task is awaited but never told.
Shutdown_Slip(c) ==
  /\ CallerStep(c, "idle", "locking")
  /\ promised' = IF handle = "none" THEN promised ELSE promised \cup {c}
  /\ UNCHANGED <<token, handle, detached>>

Shutdown(c) ==
  /\ CallerStep(c, "idle", "locking")
  /\ token' = TRUE
  /\ promised' = IF handle = "none" THEN promised ELSE promised \cup {c}
  /\ UNCHANGED <<handle, detached>>

ShutdownTakesHandle(c) ==
  /\ SlotFree /\ handle = "stored"
  /\ CallerStep(c, "locking", "awaiting")
  /\ handle' = "taken"
  /\ UNCHANGED <<token, promised, detached>>

ShutdownFindsNothing(c) ==
  /\ SlotFree /\ handle # "stored"
  /\ CallerStep(c, "locking", "ok")
  /\ UNCHANGED <<token, handle, promised, detached>>

ShutdownJoins(c) ==
  /\ closer = "done"
  /\ CallerStep(c, "awaiting", "ok")
  /\ UNCHANGED <<token, handle, promised, detached>>

\* The caller drops the future at its await point; the task it was waiting
\* for runs on, but its handle is lost.
ShutdownDropped(c) ==
  /\ \E pc \in {"locking", "awaiting"} : CallerStep(c, pc, "dropped")
  /\ detached' = (detached \/ stop[c] = "awaiting")
  /\ UNCHANGED <<token, handle, promised>>

\* A slip: what is downloaded taken for what is validated.
Flush_Slip ==
  /\ runPc # "idle"
  /\ flushed' = chainTip
  /\ UNCHANGED <<chainTip, nodeTip, filterTip, state, control, runPc,
                 nodeTask, updater, round, closer, stop, restarts, history>>

\* Node::flush, called by the user or by the inner node.
Flush ==
  /\ runPc # "idle"
  /\ flushed' = nodeTip
  /\ UNCHANGED <<chainTip, nodeTip, filterTip, state, control, runPc,
                 nodeTask, updater, round, closer, stop, restarts, history>>

-----------------------------------------------------------------------------
(* The process dies, at any point, and a new one builds a node on what the   *)
(* stores kept: at least the flushed part of the chain; of the filters,      *)
(* which the shutdown task does not flush, any prefix.                       *)

Restart ==
  /\ runPc # "idle" /\ restarts < MaxRestarts
  /\ restarts' = restarts + 1
  /\ nodeTip' \in flushed..nodeTip
  /\ chainTip' \in nodeTip'..chainTip
  /\ filterTip' \in 0..filterTip
  /\ flushed' = nodeTip'
  /\ state' = "Inactive" /\ token' = FALSE /\ kill' = FALSE
  /\ handle' = "none" /\ runPc' = "idle" /\ nodeTask' = "unspawned"
  /\ updater' = "off" /\ wireReady' = FALSE /\ sample' = NoSample
  /\ closer' = "off"
  /\ stop' = [c \in Callers |-> "idle"]
  /\ reported' = 0 /\ unclean' = FALSE /\ overtaken' = FALSE
  /\ promised' = {} /\ detached' = FALSE

-----------------------------------------------------------------------------
Run == RunSpawn \/ RunStoreHandle \/ RunAnnounce

InnerNode == \/ NewHeader \/ ValidateBlock \/ StoreFilter
             \/ NodeStops \/ NodeEnds \/ NodePanics

Updater == \/ UpdaterStops \/ UpdaterTick
           \/ UpdaterPeersAnswered \/ UpdaterPeersGone
           \/ UpdaterReadChain \/ UpdaterReadNode \/ UpdaterReadFilter
           \/ UpdaterReadFails \/ UpdaterPublish

CloserWorks == \/ CloserKills \/ CloserMarks \/ CloserCancels
               \/ CloserAwaitsStop \/ CloserJoinsNode \/ CloserJoinsUpdater
               \/ CloserFlushes \/ CloserFinishes

Caller(c) == \/ Shutdown(c) \/ ShutdownTakesHandle(c)
             \/ ShutdownFindsNothing(c) \/ ShutdownJoins(c)
             \/ ShutdownDropped(c)

Next == \/ Run \/ InnerNode \/ Updater \/ CloserWakes \/ CloserWorks
        \/ (\E c \in Callers : Caller(c))
        \/ Flush \/ Restart

Spec == Init /\ [][Next]_vars

UpdaterRuns == UpdaterStops \/ UpdaterTick \/ UpdaterPeersGone \/ UpdaterPublish

CallerRuns(c) == \/ ShutdownTakesHandle(c) \/ ShutdownFindsNothing(c)
                 \/ ShutdownJoins(c)

(* What the runtime's scheduling justifies.  A task that is ready is polled, *)
(* the closer wakes once the token is set, and each of its waits ends by its *)
(* timeout at the latest; a store's reads do not fail for ever.  Nothing is  *)
(* assumed of the inner node, of SIGINT, or of the application.              *)
Fairness ==
  /\ WF_vars(RunStoreHandle \/ RunAnnounce)
  /\ WF_vars(UpdaterRuns)
  /\ SF_vars(UpdaterReadChain) /\ SF_vars(UpdaterReadNode)
  /\ SF_vars(UpdaterReadFilter)
  /\ WF_vars((token /\ CloserWakes) \/ CloserWorks)
  /\ \A c \in Callers : WF_vars(CallerRuns(c))

FairSpec == Spec /\ Fairness

-----------------------------------------------------------------------------
(* A shutdown without a timeout and without a failed flush leaves nothing    *)
(* behind: the inner node's task has ended, so nothing can move the chain    *)
(* any more, and everything it validated is on disk.  (shutdown_task joins   *)
(* the tasks before it flushes.)                                             *)
CleanShutdown ==
  closer = "done" /\ ~unclean => nodeTask = "ended" /\ flushed = nodeTip

(* shutdown() means it: a call that began once run() had stored the handle   *)
(* returns only when the shutdown task is done, whoever of the concurrent    *)
(* callers took the handle, unless the one that took it was dropped.         *)
ShutdownAwaitsTask ==
  \A c \in promised : stop[c] = "ok" /\ ~detached => closer = "done"

(* The tasks together keep the promises of NodeService: nobody else's step   *)
(* saves, loses or grows the chain, and an answer to shutdown() means what   *)
(* it says whatever the interleaving (run, shutdown_task and shutdown).      *)
RunView == IF runPc = "idle" THEN "built"
           ELSE IF runPc = "spawned" THEN "starting" ELSE "up"

CloseView == IF closer \in {"off", "wait"} THEN "no"
             ELSE IF closer = "done" THEN "down" ELSE "closing"

CallView(c) == IF stop[c] \in {"locking", "awaiting"}
               THEN IF c \in promised THEN "owed" ELSE "early"
               ELSE IF stop[c] = "ok" THEN "answered"
               ELSE IF stop[c] = "dropped" THEN "abandoned" ELSE "none"

Service == INSTANCE NodeService WITH
  tip <- nodeTip, saved <- flushed, run <- RunView, close <- CloseView,
  clean <- ~unclean, calls <- [c \in Callers |-> CallView(c)],
  deserted <- detached

ImplementsService == Service!Spec

(* After the shutdown task the state is Inactive for good, also when a join  *)
(* timed out and the updater is still in the middle of a round - unless the  *)
(* task was woken before run() had announced Active.                         *)
FinallyInactive ==
  closer = "done" /\ ~overtaken => state = "Inactive"

(* Operational is a promise about the stores: blocks and filters reach up to *)
(* the chain tip that the last round saw, although the three heights were    *)
(* read at different moments and the filters may be ahead of the blocks      *)
(* after a crash.                                                            *)
OperationalIsSynced ==
  state = "Operational" =>
    /\ nodeTip > 0
    /\ nodeTip >= reported /\ filterTip >= reported

(* fsm.rs, on the variants compute_next_state skips: "S8 (ShuttingDown):     *)
(* handled by the shutdown task".  So nothing else should move the node out  *)
(* of ShuttingDown; run()'s late announcement of Active does.                *)
ShuttingDownIsFinal ==
  [][state = "ShuttingDown" => state' \in {"ShuttingDown", "Inactive"}]_state

(* fsm.rs on OPERATIONAL_TOLERANCE: "How many blocks behind the chain tip    *)
(* the node can be while still being considered State::Operational.          *)
(* Prevents flapping at the chain tip when a new block arrives and           *)
(* validation briefly lags."  So a round of an Operational node that finds   *)
(* it within the tolerance, with a filter for every validated block, should  *)
(* leave it Operational.                                                     *)
ToleranceHonoured ==
  [][state = "Operational" /\ UpdaterPublish /\ wireReady
       /\ sample.node > 0 /\ sample.filter >= sample.node
       /\ sample.node + OPERATIONAL_TOLERANCE >= sample.chain
     => state' = "Operational"]_vars

(* Once the token is set, the shutdown task runs to its end, though the      *)
(* inner node may be stuck and the updater with it.                          *)
ShutdownCompletes ==
  (token /\ closer # "off") ~> (closer \in {"done", "off"})

(* Every call of shutdown() returns.                                         *)
ShutdownReturns ==
  \A c \in Callers : (stop[c] = "locking") ~> (stop[c] \in {"ok", "dropped", "idle"})

(* An inner node whose task is gone does not stay Operational, or syncing,   *)
(* in the eyes of the application: the updater's failed peer request takes   *)
(* it back to Active.  (Not so when the closer overtook run(): the late      *)
(* Active lets a last round publish Operational after the node is gone.)     *)
DeadNodeNoticed ==
  (nodeTask = "ended" /\ runPc = "returned" /\ ~overtaken)
    ~> (state \in {"Active", "ShuttingDown", "Inactive"})
=============================================================================
