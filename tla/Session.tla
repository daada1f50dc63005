-------------------------------- MODULE Session --------------------------------
(***************************************************************************)
(* A program around a Client, as the examples are.  A task applies the     *)
(* events to the wallet.  Main scans with the client itself, or moves the  *)
(* client into a task that scans and holds a ScanHandle: the client's      *)
(* token and that task's JoinHandle.  Through the handle it joins or stops *)
(* the scan, and it may give up on either call at its await (a select, a   *)
(* timeout).  It leaves by stopping the scan, waiting for the events to be *)
(* drained and shutting the node down, or at once, dropping the handle.    *)
(*                                                                         *)
(* The scan, its client and the node behave as in ClientScan.              *)
(***************************************************************************)
EXTENDS ClientScan

VARIABLES
  task,      \* the scan task: "none", "running" or "over"
  aborted,   \* it has been told to abort
  inner,     \* the handle's JoinHandle: "none", "held", or "moved" into stop()
  call,      \* the method of the handle main awaits: "none", "join" or "stop"
  main,      \* "starting", "using" the handle, "leaving", "draining",
             \* "closing", "exited", or "gone" without any of that
  listener,  \* the event loop's task: "running" or "over"
  \* History, read by properties only:
  detached   \* main gave up on stop(), and with it on the JoinHandle

handle == <<aborted, inner, call, detached>>
session == <<task, handle, main, listener>>
allVars == <<vars, session>>

SessionTypeOK ==
  /\ TypeOK
  /\ task \in {"none", "running", "over"} /\ aborted \in BOOLEAN
  /\ inner \in {"none", "held", "moved"} /\ call \in {"none", "join", "stop"}
  /\ main \in {"starting", "using", "leaving", "draining", "closing", "exited",
               "gone"}
  /\ listener \in {"running", "over"} /\ detached \in BOOLEAN

SessionInit ==
  /\ Init
  /\ task = "none" /\ aborted = FALSE /\ inner = "none" /\ call = "none"
  /\ main = "starting" /\ listener = "running" /\ detached = FALSE

-----------------------------------------------------------------------------
(* The scan task.                                                            *)

\* The client moves into the task, the JoinHandle into the ScanHandle.
Spawn ==
  /\ main = "starting"
  /\ \E m \in Modes : StartScan([kind |-> "FullScan", from |-> 0, mode |-> m])
  /\ task' = "running" /\ inner' = "held" /\ main' = "using"
  /\ UNCHANGED <<aborted, call, detached, listener>>

\* Before that, main may use the client itself, with no task and no handle.
UseDirectly ==
  /\ task = "none"
  /\ (\E p \in Params : StartScan(p)) \/ UserCancels \/ DropScan \/ DropClient
  /\ UNCHANGED session

\* The task's future is over, and the client it owns is dropped.
TaskEnds ==
  /\ task = "running" /\ DropClient
  /\ task' = "over"
  /\ UNCHANGED <<handle, main, listener>>

\* A slip: the abort takes effect wherever the task is.
TaskAborts_Slip ==
  /\ aborted /\ pc # "idle"
  /\ ScanOver /\ UNCHANGED events
  /\ UNCHANGED session

\* An abort takes effect where the task yields, or before it was ever polled.
TaskAborts ==
  /\ aborted /\ DropScan
  /\ UNCHANGED session

-----------------------------------------------------------------------------
(* The methods of ScanHandle.                                                *)

\* What cancelling the client's token does, also when it already is.
CancelsToken ==
  /\ clientToken' = TRUE
  /\ UNCHANGED <<node, sink, watcher, cp, found, pc, work, notified, eventTx,
                 events, wallet, scans, clients, gaps>>

Cancel ==
  /\ main = "using" /\ call = "none" /\ CancelsToken
  /\ UNCHANGED session

\* join() borrows the JoinHandle; without one it returns at once.
Join ==
  /\ main = "using" /\ call = "none" /\ inner = "held"
  /\ call' = "join"
  /\ UNCHANGED <<vars, task, aborted, inner, detached, main, listener>>

JoinReturns ==
  /\ call = "join" /\ task = "over"
  /\ call' = "none" /\ inner' = "none"
  /\ UNCHANGED <<vars, task, aborted, detached, main, listener>>

\* A slip: join() takes the JoinHandle, and a join that is dropped loses it.
GiveUpJoin_Slip ==
  /\ call = "join"
  /\ call' = "none" /\ inner' = "none"
  /\ UNCHANGED <<vars, task, aborted, detached, main, listener>>

\* Its future is dropped, as by a select whose other branch is taken.
GiveUpJoin ==
  /\ call = "join"
  /\ call' = "none"
  /\ UNCHANGED <<vars, task, aborted, inner, detached, main, listener>>

\* A slip: the task is awaited, but not told to stop.
Stop_Slip ==
  /\ main \in {"using", "leaving"} /\ call = "none" /\ inner = "held"
  /\ inner' = "moved" /\ call' = "stop"
  /\ UNCHANGED <<vars, task, aborted, detached, main, listener>>

\* stop() takes the JoinHandle into its future.
Stop ==
  /\ main \in {"using", "leaving"} /\ call = "none" /\ inner = "held"
  /\ CancelsToken
  /\ inner' = "moved" /\ call' = "stop"
  /\ UNCHANGED <<task, aborted, detached, main, listener>>

StopReturns ==
  /\ call = "stop" /\ task = "over"
  /\ call' = "none" /\ inner' = "none"
  /\ main' = IF main = "leaving" THEN "draining" ELSE main
  /\ UNCHANGED <<vars, task, aborted, detached, listener>>

\* Without a JoinHandle stop() returns at once.
StopReturnsAtOnce ==
  /\ main = "leaving" /\ call = "none" /\ inner = "none"
  /\ CancelsToken
  /\ main' = "draining"
  /\ UNCHANGED <<task, handle, listener>>

\* The future of stop() is dropped, which detaches the task.
GiveUpStop ==
  /\ main = "using" /\ call = "stop"
  /\ call' = "none" /\ inner' = "none" /\ detached' = TRUE
  /\ UNCHANGED <<vars, task, aborted, main, listener>>

\* A slip: dropping the handle lets go of the task.
DropHandle_Slip ==
  /\ main = "using" /\ call = "none"
  /\ main' = "gone" /\ inner' = "none"
  /\ UNCHANGED <<vars, task, aborted, call, detached, listener>>

\* Drop for ScanHandle: cancel, and abort whatever task it still holds.
DropHandle ==
  /\ main = "using" /\ call = "none" /\ CancelsToken
  /\ main' = "gone" /\ inner' = "none"
  /\ aborted' = (inner = "held")
  /\ UNCHANGED <<task, call, detached, listener>>

-----------------------------------------------------------------------------
(* The event loop and main.                                                  *)

\* An update is applied to the wallet; an error ends the loop.
ListenerTakes ==
  /\ listener = "running" /\ TakeEvent
  /\ listener' = IF Head(events).type = "error" THEN "over" ELSE "running"
  /\ UNCHANGED <<task, handle, main>>

\* A slip: a closed channel ends the loop with what it still holds.
ListenerEnds_Slip ==
  /\ listener = "running" /\ ~eventTx
  /\ listener' = "over"
  /\ UNCHANGED <<vars, task, handle, main>>

\* recv() returns None once the channel is closed and empty.
ListenerEnds ==
  /\ listener = "running" /\ ~eventTx /\ events = <<>>
  /\ listener' = "over"
  /\ UNCHANGED <<vars, task, handle, main>>

\* SIGINT, or join() has returned.
Leave ==
  /\ main = "using" /\ call = "none"
  /\ main' = "leaving"
  /\ UNCHANGED <<vars, task, handle, listener>>

\* The event loop's task is joined.
Drained ==
  /\ main = "draining" /\ listener = "over"
  /\ main' = "closing"
  /\ UNCHANGED <<vars, task, handle, listener>>

\* node.shutdown() cancels the node's tasks, and returns when it has closed.
ShutDownNode ==
  /\ main = "closing"
  /\ NodeCancels \/ NodeCloses
  /\ UNCHANGED session

Exit ==
  /\ main = "closing" /\ nodeToken /\ nodeState = "Closing"
  /\ main' = "exited"
  /\ UNCHANGED <<vars, task, handle, listener>>

-----------------------------------------------------------------------------
ScanProceeds ==
  /\ Node \/ Watcher \/ Wait \/ Scan \/ Fetch \/ NodeCallFails \/ Stream
  /\ UNCHANGED session

Main == \/ StopReturns \/ StopReturnsAtOnce \/ JoinReturns
        \/ Drained \/ ShutDownNode \/ Exit
        \/ main = "leaving" /\ Stop

Listener == ListenerTakes \/ ListenerEnds

SessionNext ==
  \/ ScanProceeds
  \/ UseDirectly \/ Spawn \/ TaskEnds \/ TaskAborts
  \/ Cancel \/ Join \/ JoinReturns \/ GiveUpJoin
  \/ Stop \/ StopReturns \/ StopReturnsAtOnce \/ GiveUpStop \/ DropHandle
  \/ Listener
  \/ Leave \/ Drained \/ ShutDownNode \/ Exit

SessionSpec == SessionInit /\ [][SessionNext]_allVars

(* ClientScan's fairness, and the same for the tasks around it.  That        *)
(* node.shutdown() closes the node is NodeLifecycle's ShutdownReturns.       *)
(* Nothing makes main stop the scan, leave, or give up on a call.            *)
SessionFairness ==
  /\ Fairness
  /\ WF_allVars(TaskEnds) /\ WF_allVars(TaskAborts)
  /\ WF_allVars(Listener) /\ WF_allVars(Main)

FairSessionSpec == SessionSpec /\ SessionFairness

-----------------------------------------------------------------------------
(* To the client, the handle, the task it is moved into, the event loop and  *)
(* main are an application like any other: a spawned task scans as a direct  *)
(* call does, a cancel through the handle is a cancel by the user, repeated  *)
(* or not, and an abort drops the scan where it could be dropped anyway.     *)
ImplementsClientScan == Spec

(* A stop() that returns leaves nothing of the scan behind: the task is over *)
(* and its client dropped, no block is queued for it any more and no event   *)
(* follows - also after a join() that was given up for it.  (It does not     *)
(* hold of a stop() that comes after one that was given up: that finds no    *)
(* JoinHandle and returns at once.)                                          *)
StoppedIsOver ==
  main \in {"draining", "closing", "exited"} /\ ~detached =>
    task = "over" /\ ~eventTx /\ ~forwarding /\ queue = <<>>

(* An event loop that has ended has left nothing out: unless the node's own  *)
(* shutdown closed the channel, the wallet is where the client was.  (Main   *)
(* scans once, as the examples do: what another scan found after an error    *)
(* has ended the loop would stay in the channel.)                            *)
DrainedIsCaughtUp ==
  listener = "over" /\ ~nodeToken /\ scans <= 1 => walletCp = cp /\ walletTxs = found

(* A program that is told to stop exits, whatever the scan is waiting for    *)
(* and whoever gave up on what before: the examples' SIGINT.                 *)
LeavingExits == (main = "leaving") ~> (main = "exited")

(* "Cancel ... and abort": a handle that is dropped takes the scan task with *)
(* it, or has left it to a stop() that cancelled it.                         *)
DropEndsTask == (main = "gone") ~> (task = "over")

(* The event loop does not outlive the node, nor a scan task that is         *)
(* cancelled: its channel closes, and it ends.                               *)
ListenerIsReleased ==
  (nodeToken \/ (task # "none" /\ clientToken)) ~> (listener = "over")
=============================================================================
