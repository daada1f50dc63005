------------------------------ MODULE ClientScan ------------------------------
(***************************************************************************)
(* A Client scanning the chain on behalf of a Wallet: scan(), which matches *)
(* the stored compact block filters and fetches the blocks that match, and *)
(* scan_continuous(), which goes on with the blocks the node validates,    *)
(* queued by a BlockSink since before the filter scan began.               *)
(*                                                                         *)
(* Around the client are the node (external here: its tips, its state and  *)
(* its cancellation token), the shutdown watcher, and the application that *)
(* starts, cancels and drops scans and applies the updates to its wallet.  *)
(*                                                                         *)
(* A block is its height.  Which blocks concern the wallet, and which      *)
(* others a filter wrongly reports, is fixed in the initial state.         *)
(***************************************************************************)
EXTENDS NodeFsm, Sequences, FiniteSets

CONSTANTS StartHeight, \* how far the node is when the client is created
          MaxHeight,   \* bound: the chain's height
          MaxScans,    \* bound: scans started over the whole behaviour
          MaxClients   \* bound: clients created, one after the other

ASSUME BoundsAssumption ==
  /\ MaxHeight \in Nat /\ StartHeight \in 0..MaxHeight
  /\ MaxScans \in Nat /\ MaxClients \in Nat \ {0}

VARIABLES
  \* The node and its chain.
  relevant,    \* blocks with transactions of the wallet
  noise,       \* blocks whose filter matches although they have none
  nodeTip,     \* height of the last validated block
  filterTip,   \* height of the last stored filter
  nodeState,   \* the state, as far as a client tells states apart
  nodeToken,   \* the node's cancellation token has fired
  onBlock,     \* the sink's call for block nodeTip
  \* The client.
  clientToken, \* the client's cancellation token has fired
  watcher,     \* the shutdown watcher's task
  forwarding,  \* the sink has a sender
  queue,       \* what that sender's receiver holds
  cp,          \* the checkpoint's height
  found,       \* the relevant blocks applied, by this client or before it
  pc, scan,    \* the running scan
  stop, todo,  \* its last height and the fetched blocks yet to apply
  notified,    \* the state changed since the waiting scan was last told
  \* The application.
  eventTx,     \* event_tx still holds the sender
  events,      \* the event channel
  walletCp, walletTxs,
  scans, clients,
  \* History, read by properties only:
  subTip,      \* the last block validated too early for the sink
  gaps         \* heights a scan's checkpoint may pass without looking

chain  == <<relevant, noise, nodeTip, filterTip>>
node   == <<chain, nodeState, nodeToken>>
sink   == <<forwarding, queue, onBlock>>
work   == <<scan, stop, todo, subTip>>
wallet == <<walletCp, walletTxs>>
vars == <<node, sink, clientToken, watcher, cp, found, pc, work, notified,
          eventTx, events, wallet, scans, clients, gaps>>

Heights == 0..MaxHeight
Blocks == 1..MaxHeight

Higher(a, b) == IF a > b THEN a ELSE b

Modes == {"once", "continuous"}

\* What the application may ask for; only a Custom scan names its start.
Params == [kind : {"Sync", "FullScan"}, from : {0}, mode : Modes]
          \cup [kind : {"Custom"}, from : Heights, mode : Modes]

NoScan == [kind |-> "Sync", from |-> 0, mode |-> "once"]

Events == [type : {"update", "finished", "error"}, cp : Heights,
           txs : SUBSET Blocks]

ScanPcs == {"idle", "look", "parked", "subscribe", "begin", "match", "fetch",
            "apply", "succeeded", "failed", "stream"}

TypeOK ==
  /\ relevant \subseteq Blocks /\ noise \subseteq Blocks
  /\ nodeTip \in Heights /\ filterTip \in Heights
  /\ nodeState \in {"Syncing", "Operational", "Closing"}
  /\ nodeToken \in BOOLEAN /\ clientToken \in BOOLEAN
  /\ onBlock \in {"none", "called", "sending", "stale"}
  /\ watcher \in {"waiting", "closing", "done", "aborted"}
  /\ forwarding \in BOOLEAN /\ queue \in Seq(Blocks)
  /\ cp \in Heights /\ found \subseteq Blocks
  /\ pc \in ScanPcs
  /\ scan \in [kind : {"Sync", "FullScan", "Custom"}, from : Heights,
               mode : Modes]
  /\ stop \in Heights /\ todo \subseteq Blocks
  /\ notified \in BOOLEAN
  /\ eventTx \in BOOLEAN /\ events \in Seq(Events)
  /\ walletCp \in Heights /\ walletTxs \subseteq Blocks
  /\ scans \in 0..MaxScans /\ clients \in 0..MaxClients
  /\ subTip \in Heights /\ gaps \subseteq Blocks

Init ==
  /\ relevant \in SUBSET Blocks /\ noise \in SUBSET (Blocks \ relevant)
  /\ nodeTip = StartHeight /\ filterTip = StartHeight
  /\ nodeState = "Syncing" /\ nodeToken = FALSE /\ onBlock = "none"
  /\ clientToken = FALSE /\ watcher = "waiting"
  /\ forwarding = FALSE /\ queue = <<>>
  /\ cp = 0 /\ found = {}
  /\ pc = "idle" /\ scan = NoScan /\ stop = 0 /\ todo = {} /\ subTip = 0
  /\ notified = FALSE
  /\ eventTx = TRUE /\ events = <<>>
  /\ walletCp = 0 /\ walletTxs = {}
  /\ scans = 0 /\ clients = 1
  /\ gaps = {}

-----------------------------------------------------------------------------
(* The node.                                                                 *)

\* Blocks are validated one at a time, with their consumers called in turn.
ValidateBlock ==
  /\ onBlock = "none" /\ nodeTip < MaxHeight
  /\ nodeTip' = nodeTip + 1
  /\ onBlock' = "called"
  /\ UNCHANGED <<relevant, noise, filterTip, nodeState, nodeToken, forwarding,
                 queue, clientToken, watcher, cp, found, pc, work, notified,
                 eventTx, events, wallet, scans, clients, gaps>>

\* The filters have a store of their own, which can be ahead of the blocks.
StoreFilter ==
  /\ filterTip < MaxHeight
  /\ filterTip' = filterTip + 1
  /\ UNCHANGED <<relevant, noise, nodeTip, nodeState, nodeToken, sink,
                 clientToken, watcher, cp, found, pc, work, notified, eventTx,
                 events, wallet, scans, clients, gaps>>

\* BlockSink::on_block: under the lock it clones the sender, if there is one;
\* after the lock it sends - to whatever scan the sender belonged to.
OnBlockLooks ==
  /\ onBlock = "called"
  /\ onBlock' = IF forwarding THEN "sending" ELSE "none"
  /\ UNCHANGED <<node, forwarding, queue, clientToken, watcher, cp, found, pc,
                 work, notified, eventTx, events, wallet, scans, clients, gaps>>

\* A slip: the height the next block will have.
OnBlockSends_Slip ==
  /\ onBlock \in {"sending", "stale"}
  /\ onBlock' = "none"
  /\ queue' = IF onBlock = "sending" THEN Append(queue, nodeTip + 1) ELSE queue
  /\ UNCHANGED <<node, forwarding, clientToken, watcher, cp, found, pc, work,
                 notified, eventTx, events, wallet, scans, clients, gaps>>

OnBlockSends ==
  /\ onBlock \in {"sending", "stale"}
  /\ onBlock' = "none"
  /\ queue' = IF onBlock = "sending" THEN Append(queue, nodeTip) ELSE queue
  /\ UNCHANGED <<node, forwarding, clientToken, watcher, cp, found, pc, work,
                 notified, eventTx, events, wallet, scans, clients, gaps>>

\* A slip: the closure of send_if_modified says it modified nothing.
Publish_Slip(s) ==
  /\ nodeState' = s
  /\ UNCHANGED <<chain, nodeToken, sink, clientToken, watcher, cp, found, pc,
                 work, notified, eventTx, events, wallet, scans, clients, gaps>>

\* A state is published on the watch channel, which wakes whoever waits.
Publish(s) ==
  /\ nodeState' = s
  /\ notified' = (pc \in {"look", "parked"})
  /\ UNCHANGED <<chain, nodeToken, sink, clientToken, watcher, cp, found, pc,
                 work, eventTx, events, wallet, scans, clients, gaps>>

\* A round of the node's updater, on heights it has read one by one: any best
\* header, and what the stores had at some moment before.  Between two rounds
\* the state grows stale.  The states short of Operational change too.
Poll ==
  /\ nodeState # "Closing"
  /\ \/ Publish("Syncing")
     \/ /\ nodeState # "Operational" /\ Publish("Operational")
        /\ \E best \in Heights, n \in 0..nodeTip, f \in 0..filterTip :
             compute_next_state(TRUE, "Active", n, best, f) = "Operational"

\* The shutdown task marks ShuttingDown and, later, Inactive, and each wakes
\* whoever waits.  There is no way back once run() has returned.
NodeCloses == Publish("Closing")

NodeCancels ==
  /\ ~nodeToken /\ nodeToken' = TRUE
  /\ UNCHANGED <<chain, nodeState, sink, clientToken, watcher, cp, found, pc,
                 work, notified, eventTx, events, wallet, scans, clients, gaps>>

-----------------------------------------------------------------------------
(* The shutdown watcher: once the node's token fires it cancels the client's *)
(* and then drops the event sender.                                          *)

WatcherCancels ==
  /\ watcher = "waiting" /\ nodeToken
  /\ watcher' = "closing" /\ clientToken' = TRUE
  /\ UNCHANGED <<node, sink, cp, found, pc, work, notified, eventTx, events,
                 wallet, scans, clients, gaps>>

\* A slip: the sender stays where it is.
WatcherCloses_Slip ==
  /\ watcher = "closing" /\ watcher' = "done"
  /\ UNCHANGED <<node, sink, clientToken, cp, found, pc, work, notified,
                 eventTx, events, wallet, scans, clients, gaps>>

WatcherCloses ==
  /\ watcher = "closing"
  /\ watcher' = "done" /\ eventTx' = FALSE
  /\ UNCHANGED <<node, sink, clientToken, cp, found, pc, work, notified,
                 events, wallet, scans, clients, gaps>>

-----------------------------------------------------------------------------
(* The scan's steps.                                                         *)

env == <<node, clientToken, watcher, eventTx, wallet, scans, clients>>

\* send_event: without a sender the event is dropped without an error.
send_event(e) == events' = IF eventTx THEN Append(events, e) ELSE events

Update(height, txs) == [type |-> "update", cp |-> height, txs |-> txs]

\* One point of the scan to the next, leaving chain and application alone.
Goes(from, to) ==
  /\ pc = from /\ pc' = to
  /\ UNCHANGED <<env, onBlock>>

Quietly == UNCHANGED <<cp, found, events, gaps>>

\* A slip: no guard, the sink keeps its sender.
ScanOver_Slip ==
  /\ pc' = "idle"
  /\ scan' = NoScan /\ stop' = 0 /\ todo' = {} /\ subTip' = 0
  /\ notified' = FALSE /\ queue' = <<>>
  /\ gaps' = gaps \cap 1..cp
  /\ UNCHANGED <<env, forwarding, onBlock, cp, found>>

\* The scan's future is over: with it go the receiver and the guard that
\* takes the sender out of the sink.
ScanOver ==
  /\ pc' = "idle"
  /\ scan' = NoScan /\ stop' = 0 /\ todo' = {} /\ subTip' = 0
  /\ notified' = FALSE
  /\ forwarding' = FALSE /\ queue' = <<>>
  /\ onBlock' = IF onBlock = "sending" THEN "stale" ELSE onBlock
  /\ gaps' = gaps \cap 1..cp
  /\ UNCHANGED <<env, cp, found>>

(* wait_until_ready: look at the state, then wait for a change or the token. *)

\* A slip: a node that is still syncing is taken for ready.
WaitLooks_Slip ==
  /\ nodeState # "Closing"
  /\ Goes("look", IF scan.mode = "once" THEN "begin" ELSE "subscribe")
  /\ notified' = FALSE
  /\ Quietly /\ UNCHANGED <<forwarding, queue, work>>

WaitLooks ==
  /\ nodeState # "Closing"
  /\ Goes("look", IF nodeState # "Operational" THEN "parked"
                  ELSE IF scan.mode = "once" THEN "begin" ELSE "subscribe")
  /\ notified' = (notified /\ pc' = "parked")
  /\ Quietly /\ UNCHANGED <<forwarding, queue, work>>

WaitFails ==
  /\ pc = "look" /\ nodeState = "Closing"
  /\ ScanOver /\ UNCHANGED events

WaitWakes ==
  /\ notified /\ notified' = FALSE
  /\ Goes("parked", "look")
  /\ Quietly /\ UNCHANGED <<forwarding, queue, work>>

WaitAborted ==
  /\ pc = "parked" /\ clientToken
  /\ ScanOver /\ UNCHANGED events

\* enable_block_forwarding: a fresh channel.  A block whose consumers have
\* not been called yet will still come through it.
Subscribe ==
  /\ Goes("subscribe", "begin")
  /\ forwarding' = TRUE /\ queue' = <<>>
  /\ subTip' = IF onBlock = "called" THEN nodeTip - 1 ELSE nodeTip
  /\ Quietly /\ UNCHANGED <<scan, stop, todo, notified>>

(* scan_inner.                                                               *)

ScanStart == IF scan.kind = "Sync" THEN cp ELSE scan.from

\* A slip: up to the best header, filters or not.
Begin_Slip ==
  /\ ScanStart <= MaxHeight
  /\ Goes("begin", "match")
  /\ scan' = [scan EXCEPT !.from = ScanStart] /\ stop' = MaxHeight
  /\ gaps' = gaps \cup (cp + 1)..(ScanStart - 1)
  /\ UNCHANGED <<forwarding, queue, todo, subTip, cp, found, events, notified>>

\* The range is fixed: up to the filter tip of this moment.
Begin ==
  /\ ScanStart <= filterTip
  /\ Goes("begin", "match")
  /\ scan' = [scan EXCEPT !.from = ScanStart] /\ stop' = filterTip
  /\ gaps' = gaps \cup (cp + 1)..(ScanStart - 1)
                  \cup (Higher(cp, filterTip) + 1)..subTip
  /\ UNCHANGED <<forwarding, queue, todo, subTip, cp, found, events, notified>>

RangeInvalid ==
  /\ ScanStart > filterTip
  /\ Goes("begin", "failed")
  /\ Quietly /\ UNCHANGED <<forwarding, queue, work, notified>>

\* A slip: the stop height taken as exclusive.
Match_Slip ==
  /\ ~clientToken /\ nodeState = "Operational"
  /\ todo' = (relevant \cup noise) \cap scan.from..(stop - 1)
  /\ Goes("match", IF todo' = {} THEN "apply" ELSE "fetch")
  /\ Quietly /\ UNCHANGED <<forwarding, queue, scan, stop, subTip, notified>>

\* The node refuses unless it is Operational now; no hit, nothing to fetch.
Match ==
  /\ ~clientToken /\ nodeState = "Operational"
  /\ todo' = (relevant \cup noise) \cap scan.from..stop
  /\ Goes("match", IF todo' = {} THEN "apply" ELSE "fetch")
  /\ Quietly /\ UNCHANGED <<forwarding, queue, scan, stop, subTip, notified>>

MatchRefused ==
  /\ clientToken \/ nodeState # "Operational"
  /\ Goes("match", "failed")
  /\ Quietly /\ UNCHANGED <<forwarding, queue, work, notified>>

\* The select is biased: the blocks are taken only if the token is not set.
Fetch ==
  /\ ~clientToken
  /\ Goes("fetch", "apply")
  /\ Quietly /\ UNCHANGED <<forwarding, queue, work, notified>>

\* A slip: the token is not watched while the blocks are fetched.
ScanAborted_Slip ==
  /\ clientToken /\ todo # {} /\ Goes("apply", "failed")
  /\ Quietly /\ UNCHANGED <<forwarding, queue, work, notified>>

\* The token is set, before or between blocks.
ScanAborted ==
  /\ clientToken
  /\ \/ Goes("fetch", "failed")
     \/ todo # {} /\ Goes("apply", "failed")
  /\ Quietly /\ UNCHANGED <<forwarding, queue, work, notified>>

\* A call of the node returns an error: a store's read, or the fetch.
NodeCallFails ==
  /\ \/ \E at \in {"begin", "match", "fetch"} : Goes(at, "failed")
     \/ (todo # {} \/ cp < stop) /\ Goes("apply", "failed")
  /\ Quietly /\ UNCHANGED <<forwarding, queue, work, notified>>

\* The next of the fetched blocks, which come in the order of the chain.
Lowest(h) == h \in todo /\ \A k \in todo : h <= k

\* A false positive leaves the graph as it is and moves nothing; inserting a
\* checkpoint below the latest one leaves the latest in place.
ApplyBlock ==
  /\ ~clientToken
  /\ Goes("apply", "apply")
  /\ \E h \in todo :
       /\ Lowest(h)
       /\ todo' = todo \ {h}
       /\ IF h \in relevant
          THEN /\ cp' = Higher(cp, h)
               /\ found' = found \cup {h}
               /\ send_event(Update(cp', {h}))
          ELSE UNCHANGED <<cp, found, events>>
  /\ UNCHANGED <<forwarding, queue, scan, stop, subTip, notified, gaps>>

\* A slip: the last checkpoint is kept from the wallet.
FinalCheckpoint_Slip ==
  /\ todo = {}
  /\ Goes("apply", "succeeded")
  /\ cp' = Higher(cp, stop)
  /\ UNCHANGED <<forwarding, queue, work, found, events, notified, gaps>>

\* The last checkpoint, at the stop height.
FinalCheckpoint ==
  /\ todo = {}
  /\ Goes("apply", "succeeded")
  /\ cp' = Higher(cp, stop)
  /\ IF cp < stop THEN send_event(Update(stop, {})) ELSE UNCHANGED events
  /\ UNCHANGED <<forwarding, queue, work, found, notified, gaps>>

(* The outcome is announced; a continuous scan that succeeded streams on.    *)
(* The event's txs are a claim for the properties, not data it carries.      *)

Finished == [type |-> "finished", cp |-> stop,
             txs |-> relevant \cap scan.from..stop]

ReportDone ==
  /\ pc = "succeeded" /\ scan.mode = "once"
  /\ send_event(Finished)
  /\ ScanOver

ReportStreaming ==
  /\ scan.mode = "continuous"
  /\ Goes("succeeded", "stream")
  /\ send_event(Finished)
  /\ UNCHANGED <<forwarding, queue, work, cp, found, gaps, notified>>

\* A slip: the error is announced and the scan streams on regardless.
ReportError_Slip ==
  /\ scan.mode = "continuous"
  /\ Goes("failed", "stream")
  /\ send_event([type |-> "error", cp |-> 0, txs |-> {}])
  /\ UNCHANGED <<forwarding, queue, work, cp, found, gaps, notified>>

ReportError ==
  /\ pc = "failed"
  /\ send_event([type |-> "error", cp |-> 0, txs |-> {}])
  /\ ScanOver

(* The second stage of scan_continuous; cancelling it sends no event.        *)

StreamCancelled ==
  /\ pc = "stream" /\ clientToken
  /\ ScanOver /\ UNCHANGED events

\* A slip: the height compared as if the checkpoint were the next block.
StreamBlock_Slip ==
  /\ ~clientToken /\ queue # <<>>
  /\ Goes("stream", "stream")
  /\ queue' = Tail(queue)
  /\ IF Head(queue) <= cp + 1
     THEN UNCHANGED <<cp, found, events>>
     ELSE /\ cp' = Head(queue)
          /\ found' = found \cup ({Head(queue)} \cap relevant)
          /\ send_event(Update(cp', {Head(queue)} \cap relevant))
  /\ UNCHANGED <<forwarding, work, notified, gaps>>

StreamBlock ==
  /\ ~clientToken /\ queue # <<>>
  /\ Goes("stream", "stream")
  /\ queue' = Tail(queue)
  /\ IF Head(queue) <= cp
     THEN UNCHANGED <<cp, found, events>>
     ELSE /\ cp' = Head(queue)
          /\ found' = found \cup ({Head(queue)} \cap relevant)
          /\ send_event(Update(cp', {Head(queue)} \cap relevant))
  /\ UNCHANGED <<forwarding, work, notified, gaps>>

-----------------------------------------------------------------------------
(* The application.                                                          *)

Alive == watcher # "aborted"

StartScan(p) ==
  /\ Alive /\ pc = "idle" /\ scans < MaxScans
  /\ scans' = scans + 1
  /\ scan' = p /\ pc' = "look" /\ notified' = FALSE
  /\ UNCHANGED <<node, sink, clientToken, watcher, cp, found, stop, todo,
                 subTip, eventTx, events, wallet, clients, gaps>>

\* ScanHandle::cancel and stop, or any clone of the client's token.
UserCancels ==
  /\ Alive /\ ~clientToken /\ clientToken' = TRUE
  /\ UNCHANGED <<node, sink, watcher, cp, found, pc, work, notified, eventTx,
                 events, wallet, scans, clients, gaps>>

\* The scan's future is dropped at one of its awaits or before its first poll:
\* by a select of the caller's, or because dropping a ScanHandle aborts the task.
DropScan ==
  /\ pc \in {"look", "parked", "fetch", "stream"}
  /\ ScanOver /\ UNCHANGED events

\* Drop for Client; no scan can be running, for it borrows the client.
DropClient ==
  /\ Alive /\ pc = "idle"
  /\ clientToken' = TRUE /\ watcher' = "aborted" /\ eventTx' = FALSE
  /\ UNCHANGED <<node, sink, cp, found, pc, work, notified, events, wallet,
                 scans, clients, gaps>>

\* A slip: the new client goes on from the old one's checkpoint.
NewClient_Slip ==
  /\ ~Alive /\ clients < MaxClients
  /\ clients' = clients + 1
  /\ clientToken' = FALSE /\ watcher' = "waiting"
  /\ eventTx' = TRUE /\ events' = <<>>
  /\ UNCHANGED <<node, sink, cp, found, pc, work, notified, wallet, scans,
                 gaps>>

\* Client::new starts from what the wallet has; the events of the old client
\* that the application has not applied by then are lost.
NewClient ==
  /\ ~Alive /\ clients < MaxClients
  /\ clients' = clients + 1
  /\ clientToken' = FALSE /\ watcher' = "waiting"
  /\ eventTx' = TRUE /\ events' = <<>>
  /\ cp' = walletCp /\ found' = walletTxs
  /\ gaps' = gaps \cap 1..walletCp
  /\ UNCHANGED <<node, sink, pc, work, notified, wallet, scans>>

\* The application takes the next event and, if it is an update, applies it.
TakeEvent ==
  /\ events # <<>> /\ events' = Tail(events)
  /\ IF Head(events).type = "update"
     THEN /\ walletCp' = Higher(walletCp, Head(events).cp)
          /\ walletTxs' = walletTxs \cup Head(events).txs
     ELSE UNCHANGED wallet
  /\ UNCHANGED <<node, sink, clientToken, watcher, cp, found, pc, work,
                 notified, eventTx, scans, clients, gaps>>

-----------------------------------------------------------------------------
Node == \/ ValidateBlock \/ StoreFilter \/ OnBlockLooks \/ OnBlockSends
        \/ Poll \/ NodeCloses \/ NodeCancels

Watcher == WatcherCancels \/ WatcherCloses

Wait == WaitLooks \/ WaitFails \/ WaitWakes \/ WaitAborted

Scan == \/ Subscribe \/ Begin \/ RangeInvalid \/ Match \/ MatchRefused
        \/ ScanAborted \/ ApplyBlock \/ FinalCheckpoint
        \/ ReportDone \/ ReportStreaming \/ ReportError

Stream == StreamCancelled \/ StreamBlock

Application == \/ \E p \in Params : StartScan(p)
               \/ UserCancels \/ DropScan \/ DropClient \/ NewClient
               \/ TakeEvent

Next == Node \/ Watcher \/ Wait \/ Scan \/ Fetch \/ NodeCallFails \/ Stream
        \/ Application

Spec == Init /\ [][Next]_vars

(* The watcher and the scan are tasks the runtime polls when they are ready, *)
(* and a block's consumers are called.  The select of wait_until_ready picks *)
(* a ready branch at random, so a token that stays set is seen in the end    *)
(* however often the state changes too.  Nothing makes the peers answer a    *)
(* fetch, the node progress or close, or the application do anything.        *)
Fairness ==
  /\ WF_vars(Watcher) /\ WF_vars(Wait) /\ WF_vars(Scan) /\ WF_vars(Stream)
  /\ WF_vars(OnBlockLooks \/ OnBlockSends)
  /\ SF_vars(WaitAborted)

-----------------------------------------------------------------------------
(* The checkpoint is a promise: every block of the wallet's up to it has     *)
(* been applied, whatever was aborted, dropped, refused or streamed on the   *)
(* way - except in the gaps, which are exactly the blocks a Custom scan was  *)
(* told to start above and those validated before a continuous scan          *)
(* subscribed whose filters came too late for its stop height.               *)
CheckpointIsComplete ==
  \A h \in relevant : h <= cp => h \in found \cup gaps

(* The same promise of the wallet, across clients that are dropped with      *)
(* events the application never saw.                                         *)
WalletIsComplete ==
  \A h \in relevant : h <= walletCp => h \in walletTxs \cup gaps

(* Scans, the sink, the watcher and the application together keep the        *)
(* promises of ClientService step by step: no scan moves the checkpoint past *)
(* what the node has, none declares a gap behind it, and no block is found   *)
(* that is not there (scan_inner and scan_continuous, sync or stream).       *)
Service == INSTANCE ClientService WITH
  tip <- Higher(nodeTip, filterTip), alive <- Alive

ImplementsService == Service!Spec

UpdatesIn(q) == {q[i] : i \in {j \in DOMAIN q : q[j].type = "update"}}

(* While the channel is open, the wallet and the updates on their way to it  *)
(* hold all that the client has applied, and reach its checkpoint.           *)
NoUpdateLost ==
  eventTx =>
    /\ found = walletTxs \cup UNION {u.txs : u \in UpdatesIn(events)}
    /\ cp = walletCp \/ \E u \in UpdatesIn(events) : u.cp = cp

(* An application that has received Finished is synced: its wallet has every *)
(* transaction of the scanned range and a checkpoint at its end, also when   *)
(* the watcher closed the channel in the middle of the scan.                 *)
FinishedMeansSynced ==
  events # <<>> /\ Head(events).type = "finished" =>
    /\ Head(events).txs \subseteq walletTxs
    /\ Head(events).cp <= walletCp

(* "Keep block forwarding active until the returned guard is dropped": the   *)
(* unbounded queue is fed only while a continuous scan is there to read it.  *)
ForwardsOnlyToScan ==
  forwarding \/ queue # <<>> \/ onBlock = "sending" =>
    scan.mode = "continuous"
      /\ pc \in {"begin", "match", "fetch", "apply", "succeeded", "failed",
                 "stream"}

(* client/mod.rs on the subscription: "The CBF scan below covers any blocks  *)
(* validated before this point, while the subscriber queues blocks that      *)
(* arrive after this point".  So a full continuous scan should have no gap.  *)
HandoffIsComplete ==
  pc = "stream" /\ scan.kind = "FullScan" =>
    \A h \in relevant : h <= cp => h \in found

(* Cancelling the client's token ends whatever scan there is, wherever it    *)
(* is and whether or not the node or its peers still answer.                 *)
CancelEndsScan == (clientToken /\ pc # "idle") ~> (pc = "idle")

(* A scan that waits for the node goes on once the node is Operational and   *)
(* stays so: no transition is missed between looking and waiting.            *)
NoLostWakeup ==
  (pc = "parked" /\ nodeState = "Operational")
    ~> (pc # "parked" \/ nodeState # "Operational")

(* A block queued for a streaming scan reaches the checkpoint, or the scan   *)
(* is over.                                                                  *)
StreamDelivers ==
  \A h \in Blocks :
    (pc = "stream" /\ \E i \in DOMAIN queue : queue[i] = h)
      ~> (pc # "stream" \/ cp >= h)
=============================================================================
