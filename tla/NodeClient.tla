------------------------------- MODULE NodeClient -------------------------------
(***************************************************************************)
(* A Node and a Client of it in one process.  What ClientScan leaves open  *)
(* about the node is here NodeLifecycle's tasks: the stores' tips are      *)
(* theirs, the token is the one that shutdown() and the shutdown task      *)
(* cancel, the state comes through the watch channel that run(), the       *)
(* updater and the shutdown task write, and the sink is called from the    *)
(* inner node's task.                                                      *)
(*                                                                         *)
(* One process: a wallet kept over a restart is the application's matter.  *)
(* The client is used once run() has returned, as the examples do.         *)
(***************************************************************************)
EXTENDS ClientScan

CONSTANT Callers \* the calls of Node::shutdown

VARIABLES
  \* NodeLifecycle's, but for the two tips and the token, which are shared.
  chainTip, flushed, state, kill, handle, runPc, nodeTask, updater, wireReady,
  sample, closer, calls, reported, unclean, overtaken, promised, detached,
  \* History, read by properties only:
  awaited  \* the chain tip behind the Operational that the scan waited for

Life == INSTANCE NodeLifecycle WITH
  stop <- calls, token <- nodeToken, restarts <- 0, MaxRestarts <- 0

tasks == <<chainTip, flushed, state, kill, handle, runPc, nodeTask, updater,
           wireReady, sample, closer, calls, reported, unclean, overtaken,
           promised, detached>>
allVars == <<vars, tasks, awaited>>

\* The watch channel's state, as far as a client tells states apart: of one
\* that is announced before run() has returned it takes no notice.
Seen(s, run) ==
  IF run # "returned" THEN "Syncing"
  ELSE IF s \in {"ShuttingDown", "Inactive"} THEN "Closing"
  ELSE IF s = "Operational" THEN s ELSE "Syncing"

NodeClientInit ==
  /\ Init /\ Life!Init
  /\ awaited = 0

-----------------------------------------------------------------------------
\* Some variants carry heights, so the updater may publish one of them again.
HasHeights == {"HeaderSync", "InitialBlockDownload",
               "CompactBlockFilterDownload"}

\* A slip: only whoever waits already is woken.
Watched_Slip ==
  /\ nodeState' = Seen(state', runPc')
  /\ notified' = IF state' # state THEN pc = "parked" ELSE notified

\* A receiver is told of every state that is published after it has looked.
Watched ==
  /\ nodeState' = Seen(state', runPc')
  /\ \/ state' = state /\ notified' = notified
     \/ /\ state' # state \/ (Life!UpdaterPublish /\ state \in HasHeights)
        /\ notified' = (pc \in {"look", "parked"})

\* The consumers of a validated block are called before the next one.
Consumed ==
  IF nodeTip' = nodeTip THEN onBlock' = onBlock
  ELSE onBlock = "none" /\ onBlock' = "called"

\* A step of the node's tasks, as the client's variables notice it.
NodeRuns ==
  /\ \/ Life!Run \/ Life!InnerNode \/ Life!Updater
     \/ Life!CloserWakes \/ Life!CloserWorks \/ Life!Flush
     \/ \E c \in Callers : Life!Caller(c)
  /\ Watched /\ Consumed
  /\ UNCHANGED <<relevant, noise, forwarding, queue, clientToken, watcher, cp,
                 found, pc, work, eventTx, events, wallet, scans, clients, gaps,
                 awaited>>

\* The sink is called from the inner node's task.
SinkRuns ==
  /\ Life!NodeWorks
  /\ OnBlockLooks \/ OnBlockSends
  /\ UNCHANGED <<tasks, awaited>>

\* The client, its watcher and the application do not touch the node's tasks,
\* and use them only once run() has returned.
AfterRun(A) ==
  /\ runPc = "returned" /\ A
  /\ UNCHANGED tasks
  /\ awaited' = IF pc = "look" /\ pc' \in {"begin", "subscribe"} THEN reported
                ELSE IF pc' = "idle" THEN 0 ELSE awaited

\* An answer may be on its way when the inner node's task ends, so a fetch is
\* as open here as in ClientScan.
ClientRuns ==
  \/ AfterRun(Watcher) \/ AfterRun(Wait) \/ AfterRun(Scan)
  \/ AfterRun(Fetch) \/ AfterRun(NodeCallFails) \/ AfterRun(Stream)
  \/ AfterRun(Application)

NodeClientNext == NodeRuns \/ SinkRuns \/ ClientRuns

NodeClientSpec == NodeClientInit /\ [][NodeClientNext]_allVars

(* The node's fairness, and for the client's tasks that of ClientScan.  The  *)
(* sink's calls are the inner node's, of which nothing is assumed.           *)
NodeClientFairness ==
  /\ Life!Fairness
  /\ WF_allVars(AfterRun(Watcher)) /\ WF_allVars(AfterRun(Wait))
  /\ WF_allVars(AfterRun(Scan)) /\ WF_allVars(AfterRun(Stream))
  /\ SF_allVars(AfterRun(WaitAborted))

-----------------------------------------------------------------------------
(* What ClientScan assumes of a node, this one does, whatever its tasks do   *)
(* at the same time: a state is published as Operational only if the stores  *)
(* allowed it at some moment, a node that closes never comes back, and no    *)
(* publication is missed.  (state_update_task, shutdown_task and run.)       *)
ImplementsClientScan == Spec

(* A scan that has waited for the node covers the whole chain the node knew  *)
(* when it called itself Operational, although the updater read the heights  *)
(* at different moments, the scan reads the filters' own height later, and   *)
(* the state may have changed twice in between.  (scan_inner takes the stop  *)
(* height from the filter store and not from the state.)                     *)
ScanReachesTip ==
  pc \in {"match", "fetch", "apply", "succeeded", "stream"} => stop >= awaited

(* A clean shutdown of the node leaves no wallet ahead of it: what a wallet  *)
(* has taken is a block that is flushed, or one whose filter is stored, also *)
(* when the client's tasks outlive the node's.  (shutdown_task flushes after *)
(* it has joined the inner node; nothing waits for the client.)              *)
WalletIsBacked ==
  closer = "done" /\ ~unclean => walletCp <= Higher(flushed, filterTip)

(* SIGINT reaches the client: once the shutdown task is on its way, a scan   *)
(* ends wherever it waits and the application sees the channel close.        *)
ShutdownReachesClient ==
  (closer = "kill" /\ runPc = "returned") ~> (pc = "idle" /\ ~eventTx)
================================================================================
