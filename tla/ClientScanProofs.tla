--------------------------- MODULE ClientScanProofs ---------------------------
(***************************************************************************)
(* What holds of ClientScan for every chain, and any number of scans and   *)
(* clients.                                                                *)
(***************************************************************************)
EXTENDS ClientScan, SequenceTheorems, TLAPS

\* A step beside the scan: of the node, the watcher or the application, that
\* touches states and tokens only, and the event channel by closing it.
Aside ==
  /\ eventTx' \in {eventTx, FALSE}
  /\ watcher' = "aborted" => watcher = "aborted" \/ pc = "idle"
  /\ watcher = "aborted" => watcher' = "aborted"
  /\ UNCHANGED <<chain, sink, cp, found, pc, work, events, wallet, scans,
                 clients, gaps>>

\* The scan gets from one point to the next, or fails.
Moves ==
  /\ \/ pc \in {"look", "parked"} /\ pc' \in {"look", "parked"}
     \/ pc = "look" /\ pc' = "begin" /\ scan.mode = "once"
     \/ pc = "look" /\ pc' = "subscribe" /\ scan.mode # "once"
     \/ pc = "fetch" /\ pc' = "apply"
     \/ pc \in {"begin", "match", "fetch", "apply"} /\ pc' = "failed"
  /\ UNCHANGED <<chain, sink, watcher, cp, found, work, eventTx, events, wallet,
                 scans, clients, gaps>>

\* The events that end or interrupt a scan.
ErrorEvent == [type |-> "error", cp |-> 0, txs |-> {}]

\* A scan is over.
Ends ==
  /\ pc # "idle" /\ ScanOver
  /\ \/ UNCHANGED events
     \/ pc = "succeeded" /\ send_event(Finished)
     \/ pc = "failed" /\ send_event(ErrorEvent)

Starts == \E p \in Params : StartScan(p)

Step == \/ ValidateBlock \/ StoreFilter \/ OnBlockLooks \/ OnBlockSends
        \/ Aside \/ Moves \/ Ends
        \/ Subscribe \/ Begin \/ Match \/ ApplyBlock \/ FinalCheckpoint
        \/ ReportStreaming \/ StreamBlock \/ Starts \/ NewClient \/ TakeEvent

(* Every step is of one of these kinds.                                      *)
LEMMA StepKinds == [Next]_vars => Step
<1> SUFFICES ASSUME [Next]_vars PROVE Step
  OBVIOUS
<1>1. CASE Poll \/ NodeCloses \/ NodeCancels \/ Watcher \/ UserCancels
             \/ DropClient \/ UNCHANGED vars
  <2>1. Aside
    BY <1>1 DEF Poll, NodeCloses, Publish, NodeCancels, Watcher, WatcherCancels,
                WatcherCloses, UserCancels, DropClient, Aside, vars, node,
                chain, sink, work, wallet
  <2> QED BY <2>1 DEF Step
<1>2. CASE WaitLooks \/ WaitWakes
  <2>1. Moves
    BY <1>2 DEF WaitLooks, WaitWakes, Goes, Quietly, Moves, env, node, chain,
                sink, work, wallet
  <2> QED BY <2>1 DEF Step
<1>3. CASE RangeInvalid \/ MatchRefused \/ ScanAborted \/ Fetch \/ NodeCallFails
  <2>1. Moves
    BY <1>3 DEF RangeInvalid, MatchRefused, ScanAborted, Fetch, NodeCallFails,
                Goes, Quietly, Moves, env, node, chain, sink, work, wallet
  <2> QED BY <2>1 DEF Step
<1>4. CASE WaitFails \/ WaitAborted \/ ReportDone \/ ReportError
             \/ StreamCancelled \/ DropScan
  <2>1. Ends
    BY <1>4 DEF WaitFails, WaitAborted, ReportDone, ReportError,
                StreamCancelled, DropScan, Ends, ErrorEvent
  <2> QED BY <2>1 DEF Step
<1> QED
  BY <1>1, <1>2, <1>3, <1>4
     DEF Next, Node, Wait, Scan, Stream, Application, Starts, Step

-----------------------------------------------------------------------------
(* Types, group by group: what a step of each kind may disturb.              *)

ChainTypes ==
  /\ relevant \subseteq Blocks /\ noise \subseteq Blocks
  /\ nodeTip \in Heights /\ filterTip \in Heights
  /\ onBlock \in {"none", "called", "sending", "stale"}
  /\ onBlock # "none" => nodeTip \in Blocks

FlagTypes ==
  /\ nodeState \in {"Syncing", "Operational", "Closing"}
  /\ watcher \in {"waiting", "closing", "done", "aborted"}
  /\ nodeToken \in BOOLEAN /\ clientToken \in BOOLEAN
  /\ forwarding \in BOOLEAN /\ notified \in BOOLEAN /\ eventTx \in BOOLEAN

ScanTypes ==
  /\ pc \in ScanPcs
  /\ scan.kind \in {"Sync", "FullScan", "Custom"}
  /\ scan.from \in Heights /\ scan.mode \in Modes
  /\ scan = [kind |-> scan.kind, from |-> scan.from, mode |-> scan.mode]
  /\ stop \in Heights /\ todo \subseteq Blocks /\ subTip \in Heights

PassTypes ==
  /\ cp \in Heights /\ found \subseteq Blocks /\ gaps \subseteq Blocks
  /\ walletCp \in Heights /\ walletTxs \subseteq Blocks

ChannelTypes == queue \in Seq(Blocks) /\ events \in Seq(Events)

CountTypes == scans \in 0..MaxScans /\ clients \in 0..MaxClients

Types == /\ ChainTypes /\ FlagTypes /\ ScanTypes /\ PassTypes /\ ChannelTypes
         /\ CountTypes

LEMMA TypesInit == Init => Types
<1> SUFFICES ASSUME Init PROVE Types
  OBVIOUS
<1> USE BoundsAssumption
<1>1. ChainTypes
  BY DEF Init, ChainTypes, Heights, Blocks
<1>2. FlagTypes
  BY DEF Init, FlagTypes
<1>3. ScanTypes
  BY DEF Init, NoScan, ScanTypes, ScanPcs, Modes, Heights, Blocks
<1>4. PassTypes
  BY DEF Init, PassTypes, Heights, Blocks
<1>5. ChannelTypes
  BY DEF Init, ChannelTypes
<1>6. CountTypes
  BY DEF Init, CountTypes
<1> QED BY <1>1, <1>2, <1>3, <1>4, <1>5, <1>6 DEF Types

(* The chain only grows, up to its bound; a block whose consumers are called *)
(* is a block.                                                               *)
LEMMA ChainStep == ChainTypes /\ Step => ChainTypes'
<1> SUFFICES ASSUME ChainTypes, Step PROVE ChainTypes'
  OBVIOUS
<1> USE BoundsAssumption DEF ChainTypes, Heights, Blocks
<1>1. CASE ValidateBlock
  BY <1>1 DEF ValidateBlock
<1>2. CASE StoreFilter
  BY <1>2 DEF StoreFilter, sink
<1>3. CASE OnBlockLooks \/ OnBlockSends
  BY <1>3 DEF OnBlockLooks, OnBlockSends, node, chain
<1>4. CASE Aside \/ Moves
  BY <1>4 DEF Aside, Moves, chain, sink
<1>5. CASE Ends
  BY <1>5 DEF Ends, ScanOver, env, node, chain
<1>6. CASE Subscribe \/ Begin \/ Match \/ ApplyBlock \/ FinalCheckpoint
             \/ ReportStreaming \/ StreamBlock
  BY <1>6 DEF Subscribe, Begin, Match, ApplyBlock, FinalCheckpoint,
              ReportStreaming, StreamBlock, Goes, env, node, chain
<1>7. CASE Starts \/ NewClient \/ TakeEvent
  BY <1>7 DEF Starts, StartScan, NewClient, TakeEvent, node, chain, sink
<1> QED BY <1>1, <1>2, <1>3, <1>4, <1>5, <1>6, <1>7 DEF Step

(* The scan's own registers: its range lies on the chain.                    *)
LEMMA ScanStep == Types /\ Step => ScanTypes'
<1> SUFFICES ASSUME Types, Step PROVE ScanTypes'
  OBVIOUS
<1> USE BoundsAssumption DEF Heights, Blocks
<1>0. ChainTypes /\ ScanTypes /\ cp \in Heights
  BY DEF Types, PassTypes
<1>1. CASE ValidateBlock \/ StoreFilter \/ OnBlockLooks \/ OnBlockSends
             \/ Aside \/ NewClient \/ TakeEvent
  BY <1>0, <1>1 DEF ScanTypes, ValidateBlock, StoreFilter, OnBlockLooks,
                    OnBlockSends, Aside, NewClient, TakeEvent, work
<1>2. CASE Moves \/ ReportStreaming
  BY <1>0, <1>2 DEF ScanTypes, Moves, ReportStreaming, Goes, work, ScanPcs
<1>3. CASE Ends
  BY <1>3 DEF ScanTypes, Ends, ScanOver, NoScan, ScanPcs, Modes
<1>4. CASE Subscribe
  BY <1>0, <1>4 DEF ScanTypes, ChainTypes, Subscribe, Goes, ScanPcs
<1>5. CASE Begin
  <2>1. ScanStart \in Heights
    BY <1>0 DEF ScanStart, ScanTypes
  <2>2. /\ scan'.kind = scan.kind /\ scan'.mode = scan.mode
        /\ scan'.from = ScanStart
        /\ scan' = [kind |-> scan.kind, from |-> ScanStart, mode |-> scan.mode]
    BY <1>0, <1>5 DEF ScanTypes, Begin
  <2>3. pc' \in ScanPcs /\ stop' = filterTip /\ UNCHANGED <<todo, subTip>>
    BY <1>5 DEF Begin, Goes, ScanPcs
  <2> QED BY <1>0, <2>1, <2>2, <2>3 DEF ScanTypes, ChainTypes
<1>6. CASE Match
  BY <1>0, <1>6 DEF ScanTypes, ChainTypes, Match, Goes, ScanPcs
<1>7. CASE ApplyBlock \/ FinalCheckpoint \/ StreamBlock
  BY <1>0, <1>7 DEF ScanTypes, ApplyBlock, FinalCheckpoint, StreamBlock, Goes,
                    ScanPcs, work
<1>8. CASE Starts
  <2> PICK p \in Params : StartScan(p)
    BY <1>8 DEF Starts
  <2>1. /\ p.kind \in {"Sync", "FullScan", "Custom"}
        /\ p.from \in Heights /\ p.mode \in Modes
        /\ p = [kind |-> p.kind, from |-> p.from, mode |-> p.mode]
    BY DEF Params
  <2> QED BY <1>0, <2>1 DEF StartScan, ScanTypes, ScanPcs, work
<1> QED BY <1>1, <1>2, <1>3, <1>4, <1>5, <1>6, <1>7, <1>8 DEF Step

LEMMA EventFields ==
  \A e \in Events : e.cp \in Heights /\ e.txs \in SUBSET Blocks
BY DEF Events

(* What the scan has applied, and what of it the wallet has.                 *)
LEMMA PassStep == Types /\ Step => PassTypes'
<1> SUFFICES ASSUME Types, Step PROVE PassTypes'
  OBVIOUS
<1> USE BoundsAssumption DEF Heights, Blocks, PassTypes
<1>0. PassTypes /\ ChainTypes /\ ScanTypes /\ ChannelTypes
  BY DEF Types
<1>1. CASE ValidateBlock \/ StoreFilter \/ OnBlockLooks \/ OnBlockSends
             \/ Aside \/ Moves \/ Subscribe \/ Match \/ ReportStreaming \/ Starts
  BY <1>0, <1>1 DEF ValidateBlock, StoreFilter, OnBlockLooks, OnBlockSends,
                    Aside, Moves, Subscribe, Match, ReportStreaming, Starts,
                    StartScan, Goes, Quietly, env, wallet
<1>2. CASE Ends
  BY <1>0, <1>2 DEF Ends, ScanOver, env, wallet
<1>3. CASE Begin
  <2>1. ScanStart \in Heights
    BY <1>0 DEF ScanStart, ScanTypes
  <2>2. gaps' \subseteq Blocks
    BY <1>0, <1>3, <2>1 DEF Begin, Higher, ScanTypes, ChainTypes
  <2> QED BY <1>0, <1>3, <2>2 DEF Begin, Goes, env, wallet
<1>4. CASE ApplyBlock
  <2>1. PICK h \in todo : \/ cp' = Higher(cp, h) /\ found' = found \cup {h}
                          \/ cp' = cp /\ found' = found
    BY <1>4 DEF ApplyBlock
  <2>2. h \in Blocks
    BY <1>0, <2>1 DEF ScanTypes
  <2>a. Higher(cp, h) \in {cp, h}
    BY DEF Higher
  <2>b. cp' \in {cp, h} /\ found' \in {found, found \cup {h}}
    BY <2>1, <2>a
  <2>3. cp' \in Heights
    BY <1>0, <2>2, <2>b
  <2>4. found' \subseteq Blocks
    BY <1>0, <2>2, <2>b
  <2> QED BY <1>0, <1>4, <2>3, <2>4 DEF ApplyBlock, Goes, env, wallet
<1>5. CASE FinalCheckpoint
  BY <1>0, <1>5 DEF FinalCheckpoint, Goes, env, wallet, Higher, ScanTypes
<1>6. CASE StreamBlock
  <2>1. Head(queue) \in Blocks
    BY <1>0, <1>6, HeadTailProperties DEF StreamBlock, ChannelTypes
  <2>2. /\ cp' \in {cp, Head(queue)}
        /\ found' \in {found, found \cup ({Head(queue)} \cap relevant)}
    BY <1>6 DEF StreamBlock
  <2>3. cp' \in Heights /\ found' \subseteq Blocks
    BY <1>0, <2>1, <2>2
  <2> QED BY <1>0, <1>6, <2>3 DEF StreamBlock, Goes, env, wallet
<1>7. CASE NewClient
  BY <1>0, <1>7 DEF NewClient, wallet
<1>8. CASE TakeEvent
  <2>1. Head(events) \in Events
    BY <1>0, <1>8, HeadTailProperties DEF TakeEvent, ChannelTypes
  <2>2. Head(events).cp \in Heights /\ Head(events).txs \subseteq Blocks
    BY <2>1, EventFields
  <2> QED BY <1>0, <1>8, <2>2 DEF TakeEvent, Higher, wallet
<1> QED BY <1>1, <1>2, <1>3, <1>4, <1>5, <1>6, <1>7, <1>8 DEF Step

(* The two channels.                                                         *)
LEMMA ChannelStep == Types /\ Step => ChannelTypes'
<1> SUFFICES ASSUME Types, Step PROVE ChannelTypes'
  OBVIOUS
<1> USE BoundsAssumption
<1>0. PassTypes /\ ChainTypes /\ ScanTypes /\ ChannelTypes
  BY DEF Types
<1>a. \A e \in Events : send_event(e) => events' \in Seq(Events)
  BY <1>0 DEF send_event, ChannelTypes
<1>b. \A q \in Heights, t \in SUBSET Blocks : Update(q, t) \in Events
  BY DEF Update, Events
<1>1. CASE ValidateBlock \/ StoreFilter \/ OnBlockLooks \/ Aside \/ Moves
             \/ Begin \/ Match \/ Starts
  BY <1>0, <1>1 DEF ValidateBlock, StoreFilter, OnBlockLooks, Aside, Moves,
                    Begin, Match, Starts, StartScan, Goes, Quietly, sink,
                    ChannelTypes
<1>2. CASE OnBlockSends
  <2>1. nodeTip \in Blocks
    BY <1>0, <1>2 DEF OnBlockSends, ChainTypes
  <2> QED BY <1>0, <1>2, <2>1 DEF OnBlockSends, ChannelTypes
<1>3. Finished \in Events
  BY <1>0 DEF Finished, Events, ScanTypes, ChainTypes
<1>4. CASE Ends
  <2>1. ErrorEvent \in Events
    BY DEF ErrorEvent, Events, Heights
  <2>2. events' \in Seq(Events)
    BY <1>0, <1>a, <1>3, <1>4, <2>1 DEF Ends, ChannelTypes
  <2> QED BY <1>4, <2>2 DEF Ends, ScanOver, ChannelTypes
<1>5. CASE Subscribe
  BY <1>0, <1>5 DEF Subscribe, Quietly, ChannelTypes
<1>6. CASE ApplyBlock
  <2>1. PICK h \in todo : \/ cp' = Higher(cp, h) /\ send_event(Update(cp', {h}))
                          \/ UNCHANGED events
    BY <1>6 DEF ApplyBlock
  <2>2. h \in Blocks /\ Higher(cp, h) \in Heights
    BY <1>0, <2>1 DEF ScanTypes, PassTypes, Higher, Heights, Blocks
  <2>3. events' \in Seq(Events)
    BY <1>0, <1>a, <1>b, <2>1, <2>2 DEF ChannelTypes
  <2> QED BY <1>0, <1>6, <2>3 DEF ApplyBlock, ChannelTypes
<1>7. CASE FinalCheckpoint
  <2>1. events' \in Seq(Events)
    BY <1>0, <1>a, <1>b, <1>7 DEF FinalCheckpoint, ChannelTypes, ScanTypes
  <2> QED BY <1>0, <1>7, <2>1 DEF FinalCheckpoint, ChannelTypes
<1>8. CASE ReportStreaming
  BY <1>0, <1>a, <1>3, <1>8 DEF ReportStreaming, ChannelTypes
<1>9. CASE StreamBlock
  <2>1. Head(queue) \in Blocks /\ queue' \in Seq(Blocks)
    BY <1>0, <1>9, HeadTailProperties DEF StreamBlock, ChannelTypes
  <2>2. Head(queue) \in Heights /\ {Head(queue)} \cap relevant \in SUBSET Blocks
    BY <2>1 DEF Heights, Blocks
  <2>3. events' \in Seq(Events)
    BY <1>0, <1>a, <1>b, <1>9, <2>2 DEF StreamBlock, ChannelTypes
  <2> QED BY <2>1, <2>3 DEF ChannelTypes
<1>10. CASE NewClient
  BY <1>0, <1>10 DEF NewClient, sink, ChannelTypes
<1>11. CASE TakeEvent
  BY <1>0, <1>11, HeadTailProperties DEF TakeEvent, sink, ChannelTypes
<1> QED
  BY <1>1, <1>2, <1>4, <1>5, <1>6, <1>7, <1>8, <1>9, <1>10, <1>11 DEF Step

(* The bounds.                                                               *)
LEMMA CountStep == CountTypes /\ Step => CountTypes'
<1> SUFFICES ASSUME CountTypes, Step PROVE CountTypes'
  OBVIOUS
<1> USE BoundsAssumption DEF CountTypes
<1>1. CASE Starts
  BY <1>1 DEF Starts, StartScan
<1>2. CASE NewClient
  BY <1>2 DEF NewClient
<1>3. CASE ValidateBlock \/ StoreFilter \/ OnBlockLooks \/ OnBlockSends
             \/ Aside \/ Moves \/ TakeEvent
  BY <1>3 DEF ValidateBlock, StoreFilter, OnBlockLooks, OnBlockSends, Aside,
              Moves, TakeEvent
<1>4. CASE Subscribe \/ Begin \/ Match \/ ApplyBlock \/ FinalCheckpoint
             \/ ReportStreaming \/ StreamBlock \/ Ends
  BY <1>4 DEF Subscribe, Begin, Match, ApplyBlock, FinalCheckpoint,
              ReportStreaming, StreamBlock, Ends, ScanOver, Goes, env
<1> QED BY <1>1, <1>2, <1>3, <1>4 DEF Step

(* States and flags, action by action.                                       *)
LEMMA FlagStep == FlagTypes /\ [Next]_vars => FlagTypes'
<1> SUFFICES ASSUME FlagTypes, [Next]_vars PROVE FlagTypes'
  OBVIOUS
<1> USE DEF FlagTypes
<1>1. CASE Poll \/ NodeCloses
  <2>1. /\ nodeState' \in {"Syncing", "Operational", "Closing"}
        /\ UNCHANGED <<watcher, nodeToken, clientToken, forwarding, eventTx>>
    BY <1>1 DEF Poll, NodeCloses, Publish, sink
  <2>2. notified' \in BOOLEAN
    <3>1. notified' = (pc \in {"look", "parked"})
      BY <1>1 DEF Poll, NodeCloses, Publish
    <3>2. (pc \in {"look", "parked"}) \in BOOLEAN
      OBVIOUS
    <3> QED BY <3>1, <3>2, Zenon
  <2> QED BY <2>1, <2>2
<1>2. CASE ValidateBlock \/ StoreFilter \/ OnBlockLooks \/ OnBlockSends
  BY <1>2 DEF ValidateBlock, StoreFilter, OnBlockLooks, OnBlockSends, sink, node
<1>9. CASE NodeCancels \/ Watcher
  BY <1>9 DEF NodeCancels, Watcher, WatcherCancels, WatcherCloses, sink, node
<1>3. ScanOver => FlagTypes'
  BY DEF ScanOver, env, node
<1>4. CASE WaitFails \/ WaitAborted \/ ReportDone \/ ReportError
             \/ StreamCancelled \/ DropScan
  BY <1>3, <1>4 DEF WaitFails, WaitAborted, ReportDone, ReportError,
                    StreamCancelled, DropScan
<1>5. CASE WaitLooks
  <2>1. UNCHANGED <<nodeState, watcher, nodeToken, clientToken, forwarding,
                    eventTx>>
    BY <1>5 DEF WaitLooks, Goes, env, node
  <2>2. notified' = (notified /\ pc' = "parked")
    BY <1>5 DEF WaitLooks
  <2>3. (notified /\ pc' = "parked") \in BOOLEAN
    OBVIOUS
  <2>4. notified' \in BOOLEAN
    BY <2>2, <2>3, Zenon
  <2> QED BY <2>1, <2>4
<1>6. CASE \/ WaitWakes \/ Subscribe \/ Begin \/ RangeInvalid \/ Match
           \/ MatchRefused \/ ScanAborted \/ ApplyBlock \/ FinalCheckpoint
           \/ ReportStreaming \/ Fetch \/ NodeCallFails \/ StreamBlock
  BY <1>6 DEF WaitWakes, Subscribe, Begin, RangeInvalid, Match, MatchRefused,
              ScanAborted, ApplyBlock, FinalCheckpoint, ReportStreaming, Fetch,
              NodeCallFails, StreamBlock, Goes, env, node
<1>7. CASE Application
  BY <1>3, <1>7 DEF Application, StartScan, UserCancels, DropScan, DropClient,
                    NewClient, TakeEvent, sink, node
<1>8. CASE UNCHANGED vars
  BY <1>8 DEF vars, node, sink
<1> QED BY <1>1, <1>2, <1>4, <1>5, <1>6, <1>7, <1>8, <1>9
           DEF Next, Node, Wait, Scan, Stream

LEMMA TypesStep == Types /\ [Next]_vars => Types'
<1> SUFFICES ASSUME Types, [Next]_vars PROVE Types'
  OBVIOUS
<1>1. Step
  BY StepKinds
<1> QED BY <1>1, ChainStep, ScanStep, PassStep, ChannelStep, CountStep, FlagStep
           DEF Types

LEMMA TypesAlways == Spec => []Types
<1> QED BY TypesInit, TypesStep, PTL DEF Spec

LEMMA TypesAreTypeOK == Types => TypeOK
BY BoundsAssumption DEF Types, ChainTypes, FlagTypes, ScanTypes, PassTypes,
   ChannelTypes, CountTypes, TypeOK

(* Type correctness: every register of the scan, both channels, the wallet   *)
(* and the tokens stay within their types, which for the checkpoint and the  *)
(* scan's range means that they lie on the chain.                            *)
THEOREM ScanTypeCorrect == Spec => []TypeOK
<1> QED BY TypesAreTypeOK, TypesAlways, PTL

-----------------------------------------------------------------------------
(* Forwarding.                                                               *)

\* Where a continuous scan has a receiver for the blocks the node validates.
Receives ==
  /\ scan.mode = "continuous"
  /\ pc \in {"begin", "match", "fetch", "apply", "succeeded", "failed",
             "stream"}

ForwardInv ==
  /\ forwarding <=> Receives
  /\ queue # <<>> \/ onBlock = "sending" => forwarding
  /\ pc = "subscribe" => scan.mode = "continuous"

LEMMA ForwardStep == Types /\ ForwardInv /\ Step => ForwardInv'
<1> SUFFICES ASSUME Types, ForwardInv, Step PROVE ForwardInv'
  OBVIOUS
<1>0. ScanTypes
  BY DEF Types
<1> USE DEF ForwardInv, Receives
<1>1. CASE ValidateBlock \/ StoreFilter \/ Aside
  <2>1. UNCHANGED <<forwarding, queue, scan, pc>>
    BY <1>1 DEF ValidateBlock, StoreFilter, Aside, work, sink
  <2>2. onBlock' = "sending" => onBlock = "sending"
    BY <1>1 DEF ValidateBlock, StoreFilter, Aside, sink
  <2> QED BY <2>1, <2>2
<1>10. CASE OnBlockLooks
  <2>1. UNCHANGED <<forwarding, queue, scan, pc>>
    BY <1>10 DEF OnBlockLooks, work
  <2>2. onBlock' = "sending" => forwarding
    BY <1>10 DEF OnBlockLooks
  <2> QED BY <2>1, <2>2
<1>2. CASE OnBlockSends
  BY <1>2 DEF OnBlockSends, work
<1>3. CASE Moves
  BY <1>0, <1>3 DEF Moves, work, sink, ScanTypes, Modes
<1>4. CASE Ends
  BY <1>4 DEF Ends, ScanOver
<1>5. CASE Subscribe
  BY <1>5 DEF Subscribe, Goes
<1>6. CASE Begin
  <2>1. scan'.mode = scan.mode
    BY <1>0, <1>6 DEF ScanTypes, Begin
  <2> QED BY <1>6, <2>1 DEF Begin, Goes
<1>7. CASE Match \/ ApplyBlock \/ FinalCheckpoint \/ ReportStreaming
  BY <1>7 DEF Match, ApplyBlock, FinalCheckpoint, ReportStreaming, Goes, work
<1>8. CASE StreamBlock
  BY <1>8 DEF StreamBlock, Goes, work
<1>9. CASE Starts \/ NewClient \/ TakeEvent
  BY <1>9 DEF Starts, StartScan, NewClient, TakeEvent, work, sink
<1> QED BY <1>1, <1>2, <1>3, <1>4, <1>5, <1>6, <1>7, <1>8, <1>9, <1>10
           DEF Step

(* BlockSink feeds its unbounded queue only while a continuous scan holds    *)
(* the receiver, however a scan ends and wherever on_block is at that time.  *)
THEOREM ScanForwardsOnlyToScan == Spec => []ForwardsOnlyToScan
<1>1. Init => ForwardInv
  BY DEF Init, ForwardInv, Receives, NoScan
<1>2. Types /\ ForwardInv /\ [Next]_vars => ForwardInv'
  BY StepKinds, ForwardStep
<1>3. ForwardInv => ForwardsOnlyToScan
  BY DEF ForwardInv, Receives, ForwardsOnlyToScan
<1> QED BY <1>1, <1>2, <1>3, TypesAlways, PTL DEF Spec

-----------------------------------------------------------------------------
(* The checkpoint.                                                           *)

\* The last block that has gone through the sink or has passed it by, and the
\* last one the scan has had from it: what is between them is in the queue.
Passed == IF onBlock \in {"called", "sending"} THEN nodeTip - 1 ELSE nodeTip

Taken == Passed - Len(queue)

QueueInv ==
  Receives => /\ \A i \in 1..Len(queue) : queue[i] = Taken + i
              /\ pc # "stream" => subTip = Taken

\* What a scan has yet to look at, it has not passed; what it will not look
\* at is a gap.
RangeInv ==
  /\ pc \in {"match", "fetch", "apply"} =>
       \A h \in Blocks : cp < h /\ h < scan.from => h \in gaps
  /\ pc \in {"fetch", "apply"} =>
       /\ \A h \in todo : scan.from <= h /\ h <= stop
       /\ \A h \in relevant :
            scan.from <= h /\ h <= stop => h \in found \cup todo
  /\ pc = "succeeded" =>
       /\ stop <= cp
       /\ \A h \in relevant : scan.from <= h /\ h <= stop => h \in found

\* What the queue will not bring either is a gap.
HandoffInv ==
  Receives =>
    /\ pc \in {"match", "fetch", "apply", "succeeded"} =>
         \A h \in Blocks : cp < h /\ stop < h /\ h <= subTip => h \in gaps
    /\ pc = "stream" => \A h \in Blocks : cp < h /\ h <= Taken => h \in gaps

DroppedInv == watcher = "aborted" => pc = "idle"

\* The event channel, in the order the application takes it.
IsUpdate(e) == e.type = "update"

Brings(q, i, h) == \E j \in 1..i : IsUpdate(q[j]) /\ h \in q[j].txs

OrderInv ==
  \A i \in 1..Len(events) :
    /\ IsUpdate(events[i]) =>
         \A h \in relevant : h <= events[i].cp =>
           h \in walletTxs \cup gaps \/ Brings(events, i, h)
    /\ events[i].type = "finished" =>
         /\ \A h \in events[i].txs : h \in walletTxs \/ Brings(events, i, h)
         /\ \/ events[i].cp <= walletCp
            \/ \E j \in 1..i : IsUpdate(events[j]) /\ events[i].cp <= events[j].cp

BehindInv ==
  /\ walletCp <= cp
  /\ \A i \in 1..Len(events) : events[i].cp <= cp

\* The wallet and the updates in the channel make up what the client has.
Arrives ==
  /\ \A h \in Blocks :
       h \in found <=> h \in walletTxs \/ Brings(events, Len(events), h)
  /\ \/ cp = walletCp
     \/ \E j \in 1..Len(events) : IsUpdate(events[j]) /\ events[j].cp = cp

LostInv == eventTx => Arrives

LEMMA DroppedStep == DroppedInv /\ Step => DroppedInv'
<1> SUFFICES ASSUME DroppedInv, Step PROVE DroppedInv'
  OBVIOUS
<1> USE DEF DroppedInv
<1>1. CASE ValidateBlock \/ StoreFilter \/ OnBlockLooks \/ OnBlockSends
             \/ NewClient \/ TakeEvent
  BY <1>1 DEF ValidateBlock, StoreFilter, OnBlockLooks, OnBlockSends,
              NewClient, TakeEvent
<1>2. CASE Aside \/ Moves \/ Starts
  BY <1>2 DEF Aside, Moves, Starts, StartScan, Alive
<1>3. CASE Ends
  BY <1>3 DEF Ends, ScanOver
<1>4. CASE Subscribe \/ Begin \/ Match \/ ApplyBlock \/ FinalCheckpoint
             \/ ReportStreaming \/ StreamBlock
  BY <1>4 DEF Subscribe, Begin, Match, ApplyBlock, FinalCheckpoint,
              ReportStreaming, StreamBlock, Goes, env
<1> QED BY <1>1, <1>2, <1>3, <1>4 DEF Step

(* The queue is a run of consecutive blocks that ends with the last one      *)
(* passed to the sink, and starts after the one the scan subscribed at.      *)
LEMMA QueueStep == Types /\ ForwardInv /\ QueueInv /\ Step => QueueInv'
<1> SUFFICES ASSUME Types, ForwardInv, QueueInv, Step PROVE QueueInv'
  OBVIOUS
<1>0. /\ nodeTip \in Nat /\ subTip \in Nat /\ queue \in Seq(Blocks)
      /\ Len(queue) \in Nat
      /\ ScanTypes
      /\ onBlock \in {"none", "called", "sending", "stale"}
  BY BoundsAssumption
     DEF Types, ChainTypes, ScanTypes, ChannelTypes, Heights
<1>1. CASE /\ UNCHANGED <<queue, subTip, Passed>>
           /\ Receives' => Receives /\ (pc' # "stream" => pc # "stream")
  BY <1>1 DEF QueueInv, Taken
<1>2. CASE ValidateBlock
  <2>1. UNCHANGED <<queue, subTip, Passed, scan, pc>>
    BY <1>0, <1>2 DEF ValidateBlock, Passed, work
  <2> QED BY <1>1, <2>1 DEF Receives
<1>3. CASE StoreFilter \/ Aside \/ NewClient \/ TakeEvent
  <2>1. UNCHANGED <<queue, subTip, nodeTip, onBlock, scan, pc>>
    BY <1>3 DEF StoreFilter, Aside, NewClient, TakeEvent, sink, work, chain, node
  <2> QED BY <1>1, <2>1 DEF Receives, Passed
<1>4. CASE OnBlockLooks
  <2>1. UNCHANGED <<queue, subTip, nodeTip, scan, pc>>
    BY <1>4 DEF OnBlockLooks, work, chain, node
  <2>2. Receives => onBlock = "called" /\ onBlock' = "sending"
    BY <1>4 DEF OnBlockLooks, ForwardInv
  <2>3. CASE Receives
    <3>1. UNCHANGED Passed
      BY <2>1, <2>2, <2>3 DEF Passed
    <3> QED BY <1>1, <2>1, <3>1 DEF Receives
  <2>4. CASE ~Receives
    BY <2>1, <2>4 DEF Receives, QueueInv
  <2> QED BY <2>3, <2>4
<1>5. CASE OnBlockSends
  <2>1. UNCHANGED <<subTip, nodeTip, scan, pc>>
    BY <1>5 DEF OnBlockSends, work, chain, node
  <2>2. CASE onBlock = "stale"
    BY <1>1, <1>5, <2>1, <2>2 DEF OnBlockSends, Receives, Passed
  <2>3. CASE onBlock = "sending"
    <3>1. queue' = Append(queue, nodeTip) /\ onBlock' = "none"
      BY <1>5, <2>3 DEF OnBlockSends
    <3>2. /\ Len(queue') = Len(queue) + 1
          /\ \A i \in 1..Len(queue) : queue'[i] = queue[i]
          /\ queue'[Len(queue) + 1] = nodeTip
      BY <1>0, <3>1
    <3>3. Passed = nodeTip - 1 /\ Passed' = nodeTip
      BY <2>1, <2>3, <3>1 DEF Passed
    <3>4. Taken' = Taken
      BY <1>0, <3>2, <3>3 DEF Taken
    <3>5. nodeTip = Taken + (Len(queue) + 1)
      BY <1>0, <3>3 DEF Taken
    <3>6. ASSUME Receives, NEW i \in 1..Len(queue') PROVE queue'[i] = Taken' + i
      <4>1. CASE i = Len(queue) + 1
        BY <3>2, <3>4, <3>5, <4>1
      <4>2. CASE i # Len(queue) + 1
        <5>1. i \in 1..Len(queue)
          BY <1>0, <3>2, <3>6, <4>2
        <5> QED BY <3>2, <3>4, <3>6, <5>1 DEF QueueInv
      <4> QED BY <4>1, <4>2
    <3>7. Receives' => Receives
      BY <2>1 DEF Receives
    <3>8. Receives /\ pc' # "stream" => subTip' = Taken'
      BY <2>1, <3>4 DEF QueueInv
    <3> QED BY <3>6, <3>7, <3>8 DEF QueueInv
  <2> QED BY <1>5, <2>2, <2>3 DEF OnBlockSends
<1>6. CASE Moves
  <2>1. UNCHANGED <<queue, subTip, nodeTip, onBlock, scan>>
    BY <1>6 DEF Moves, sink, work, chain
  <2>2. Receives' => Receives
    BY <1>0, <1>6, <2>1 DEF Moves, Receives
  <2>3. pc # "stream"
    BY <1>6 DEF Moves
  <2> QED BY <1>1, <2>1, <2>2, <2>3 DEF Passed
<1>7. CASE Ends \/ Starts
  <2>1. pc' \in {"idle", "look"}
    BY <1>7 DEF Ends, ScanOver, Starts, StartScan
  <2> QED BY <2>1 DEF QueueInv, Receives
<1>8. CASE Subscribe
  <2>1. /\ queue' = <<>> /\ UNCHANGED <<nodeTip, onBlock>>
        /\ subTip' = IF onBlock = "called" THEN nodeTip - 1 ELSE nodeTip
        /\ pc = "subscribe"
    BY <1>8 DEF Subscribe, Goes, env, node, chain
  <2>2. onBlock # "sending"
    BY <2>1 DEF ForwardInv, Receives
  <2>3. Len(queue') = 0
    BY <2>1
  <2>4. Passed' = subTip'
    BY <1>0, <2>1, <2>2 DEF Passed
  <2>5. subTip' \in Int
    BY <1>0, <2>1
  <2>6. Taken' = subTip'
    <3>1. Taken' = Passed' - Len(queue')
      BY DEF Taken
    <3>2. \A k \in Int : k - 0 = k
      OBVIOUS
    <3> QED BY <2>3, <2>4, <2>5, <3>1, <3>2
  <2> QED BY <2>3, <2>6 DEF QueueInv
<1>9. CASE Begin
  <2>1. scan'.mode = scan.mode
    BY <1>0, <1>9 DEF ScanTypes, Begin
  <2>2. /\ UNCHANGED <<queue, subTip, nodeTip, onBlock>>
        /\ pc = "begin" /\ pc' = "match"
    BY <1>9 DEF Begin, Goes, env, node, chain
  <2> QED BY <1>1, <2>1, <2>2 DEF Receives, Passed
<1>10. CASE Match \/ ApplyBlock \/ FinalCheckpoint \/ ReportStreaming
  <2>1. UNCHANGED <<queue, subTip, nodeTip, onBlock, scan>>
    BY <1>10 DEF Match, ApplyBlock, FinalCheckpoint, ReportStreaming, Goes, env,
                 node, chain, work
  <2>2. pc \in {"match", "apply", "succeeded"}
    BY <1>10 DEF Match, ApplyBlock, FinalCheckpoint, ReportStreaming, Goes
  <2> QED BY <1>1, <2>1, <2>2 DEF Receives, Passed
<1>11. CASE StreamBlock
  <2>1. /\ UNCHANGED <<nodeTip, onBlock, scan, pc>>
        /\ pc = "stream" /\ queue # <<>> /\ queue' = Tail(queue)
    BY <1>11 DEF StreamBlock, Goes, env, node, chain, work
  <2>2. /\ Len(queue') = Len(queue) - 1
        /\ \A i \in 1..Len(queue') : queue'[i] = queue[i + 1]
    BY <1>0, <2>1, HeadTailProperties
  <2>3. Passed \in Int /\ Passed' = Passed
    BY <1>0, <2>1 DEF Passed
  <2>4. Taken \in Int /\ Taken' = Taken + 1
    BY <1>0, <2>2, <2>3 DEF Taken
  <2>5. ASSUME Receives, NEW i \in 1..Len(queue') PROVE queue'[i] = Taken' + i
    <3>1. i + 1 \in 1..Len(queue) /\ i \in Nat
      BY <1>0, <2>2
    <3>2. queue'[i] = Taken + (i + 1)
      BY <2>2, <2>5, <3>1 DEF QueueInv
    <3> QED BY <2>4, <3>1, <3>2
  <2> QED BY <2>1, <2>5 DEF QueueInv, Receives
<1> QED BY <1>2, <1>3, <1>4, <1>5, <1>6, <1>7, <1>8, <1>9, <1>10, <1>11 DEF Step

(* The range: what the scan leaves behind it has been applied or is a gap.   *)
LEMMA RangeStep == Types /\ DroppedInv /\ RangeInv /\ Step => RangeInv'
<1> SUFFICES ASSUME Types, DroppedInv, RangeInv, Step PROVE RangeInv'
  OBVIOUS
<1>0. /\ \A h \in Blocks : h \in Nat
      /\ \A h \in relevant : h \in Blocks
      /\ \A h \in todo : h \in Blocks
      /\ cp \in Nat /\ stop \in Nat /\ scan.from \in Nat /\ filterTip \in Nat
  BY BoundsAssumption
     DEF Types, ChainTypes, ScanTypes, PassTypes, Heights, Blocks
<1>1. CASE /\ UNCHANGED <<relevant, cp, found, todo, stop, scan>>
           /\ \/ pc' = pc \/ pc' \notin {"match", "fetch", "apply", "succeeded"}
              \/ pc = "fetch" /\ pc' = "apply"
           /\ pc \in {"match", "fetch", "apply"} => gaps \subseteq gaps'
  BY <1>1 DEF RangeInv
<1>2. CASE ValidateBlock \/ StoreFilter \/ OnBlockLooks \/ OnBlockSends \/ Aside
             \/ TakeEvent
  BY <1>1, <1>2 DEF ValidateBlock, StoreFilter, OnBlockLooks, OnBlockSends,
                    Aside, TakeEvent, work, chain, node
<1>3. CASE Moves \/ Subscribe
  BY <1>1, <1>3 DEF Moves, Subscribe, Goes, Quietly, env, node, work, chain
<1>4. CASE Ends \/ Starts
  <2>1. pc' \in {"idle", "look"}
    BY <1>4 DEF Ends, ScanOver, Starts, StartScan
  <2> QED BY <2>1 DEF RangeInv
<1>5. CASE Begin
  <2>1. scan'.from = ScanStart
    BY <1>5 DEF Begin, Types, ScanTypes
  <2>2. ScanStart \in Nat
    BY <1>0 DEF ScanStart
  <2>3. cp' = cp /\ pc' = "match" /\ (cp + 1)..(ScanStart - 1) \subseteq gaps'
    BY <1>5 DEF Begin, Goes
  <2>4. ASSUME NEW h \in Blocks, cp < h, h < ScanStart PROVE h \in gaps'
    <3>1. h \in (cp + 1)..(ScanStart - 1)
      BY <1>0, <2>2, <2>4
    <3> QED BY <2>3, <3>1
  <2> QED BY <2>1, <2>3, <2>4 DEF RangeInv
<1>6. CASE Match
  <2>1. /\ UNCHANGED <<relevant, cp, found, gaps, scan, stop>>
        /\ pc = "match" /\ pc' \in {"fetch", "apply"}
        /\ todo' = (relevant \cup noise) \cap scan.from..stop
    BY <1>6 DEF Match, Goes, Quietly, env, node, chain
  <2>2. \A h \in todo' : scan.from <= h /\ h <= stop
    BY <1>0, <2>1
  <2>3. ASSUME NEW h \in relevant, scan.from <= h, h <= stop PROVE h \in todo'
    BY <1>0, <2>1, <2>3
  <2> QED BY <2>1, <2>2, <2>3 DEF RangeInv
<1>7. CASE ApplyBlock
  <2>1. /\ UNCHANGED <<relevant, gaps, scan, stop>> /\ pc = "apply" /\ pc' = "apply"
    BY <1>7 DEF ApplyBlock, Goes, env, node, chain
  <2>2. PICK h \in todo :
          /\ todo' = todo \ {h}
          /\ \/ h \in relevant /\ cp' = Higher(cp, h) /\ found' = found \cup {h}
             \/ h \notin relevant /\ cp' = cp /\ found' = found
    BY <1>7 DEF ApplyBlock
  <2>3. cp' \in Nat /\ cp <= cp'
    <3>1. h \in Nat
      BY <1>0
    <3> QED BY <1>0, <2>2, <3>1 DEF Higher
  <2>4. \A k \in Blocks : cp' < k => cp < k
    BY <1>0, <2>3
  <2>5. \A k \in relevant : k \in found \cup todo => k \in found' \cup todo'
    BY <2>2
  <2> QED BY <2>1, <2>2, <2>4, <2>5 DEF RangeInv
<1>8. CASE FinalCheckpoint
  <2>1. /\ UNCHANGED <<relevant, found, scan, stop>>
        /\ pc = "apply" /\ pc' = "succeeded" /\ todo = {}
        /\ cp' = Higher(cp, stop)
    BY <1>8 DEF FinalCheckpoint, Goes, env, node, chain, work
  <2>2. stop <= cp'
    BY <1>0, <2>1 DEF Higher
  <2> QED BY <2>1, <2>2 DEF RangeInv
<1>9. CASE ReportStreaming \/ StreamBlock
  <2>1. pc' = "stream"
    BY <1>9 DEF ReportStreaming, StreamBlock, Goes
  <2> QED BY <2>1 DEF RangeInv
<1>10. CASE NewClient
  <2>1. pc' = "idle"
    BY <1>10 DEF NewClient, Alive, DroppedInv
  <2> QED BY <2>1 DEF RangeInv
<1> QED BY <1>2, <1>3, <1>4, <1>5, <1>6, <1>7, <1>8, <1>9, <1>10 DEF Step

(* The node's side of the sink takes nothing from the queue.                 *)
LEMMA TakenKept ==
  /\ Types /\ ForwardInv /\ Receives
  /\ ValidateBlock \/ OnBlockLooks \/ OnBlockSends
  => Taken' = Taken
<1> SUFFICES ASSUME Types, ForwardInv, Receives,
                    ValidateBlock \/ OnBlockLooks \/ OnBlockSends
             PROVE  Taken' = Taken
  OBVIOUS
<1>0. nodeTip \in Nat /\ queue \in Seq(Blocks) /\ Len(queue) \in Nat
  BY BoundsAssumption DEF Types, ChainTypes, ChannelTypes, Heights
<1>1. CASE UNCHANGED <<queue, Passed>>
  BY <1>1 DEF Taken
<1>2. CASE ValidateBlock
  <2>1. UNCHANGED <<queue, Passed>>
    BY <1>0, <1>2 DEF ValidateBlock, Passed
  <2> QED BY <1>1, <2>1
<1>3. CASE OnBlockLooks
  <2>1. UNCHANGED <<queue, Passed>>
    BY <1>3 DEF OnBlockLooks, ForwardInv, Passed, node, chain
  <2> QED BY <1>1, <2>1
<1>4. CASE OnBlockSends
  <2>1. CASE onBlock = "stale"
    <3>1. UNCHANGED <<queue, Passed>>
      BY <1>4, <2>1 DEF OnBlockSends, Passed, node, chain
    <3> QED BY <1>1, <3>1
  <2>2. CASE onBlock = "sending"
    <3>1. Len(queue') = Len(queue) + 1
      BY <1>0, <1>4, <2>2 DEF OnBlockSends
    <3>2. Passed = nodeTip - 1 /\ Passed' = nodeTip
      BY <1>4, <2>2 DEF OnBlockSends, Passed, node, chain
    <3> QED BY <1>0, <3>1, <3>2 DEF Taken
  <2> QED BY <1>4, <2>1, <2>2 DEF OnBlockSends
<1> QED BY <1>2, <1>3, <1>4

(* The handoff from the filters to the queue: the blocks neither will bring  *)
(* are gaps.                                                                 *)
LEMMA HandoffStep ==
  /\ Types /\ DroppedInv /\ ForwardInv /\ QueueInv /\ RangeInv /\ HandoffInv
  /\ Step
  => HandoffInv'
<1> SUFFICES ASSUME Types, DroppedInv, ForwardInv, QueueInv, RangeInv,
                    HandoffInv, Step
             PROVE  HandoffInv'
  OBVIOUS
<1>0. /\ \A h \in Blocks : h \in Nat
      /\ \A h \in todo : h \in Blocks
      /\ cp \in Nat /\ stop \in Nat /\ filterTip \in Nat /\ subTip \in Nat
      /\ nodeTip \in Nat /\ queue \in Seq(Blocks) /\ Len(queue) \in Nat
      /\ ScanTypes
  BY BoundsAssumption
     DEF Types, ChainTypes, ScanTypes, PassTypes, ChannelTypes, Heights, Blocks
<1>1. CASE /\ UNCHANGED <<cp, stop, subTip, scan>>
           /\ pc = "stream" /\ Receives => Taken' = Taken
           /\ \/ pc' = pc
              \/ pc' \notin {"match", "fetch", "apply", "succeeded", "stream"}
              \/ pc \in {"match", "fetch"} /\ pc' \in {"fetch", "apply"}
           /\ pc \in {"match", "fetch", "apply", "succeeded", "stream"} =>
                gaps \subseteq gaps'
  BY <1>1 DEF HandoffInv, Receives
<1>2. CASE ValidateBlock \/ OnBlockLooks \/ OnBlockSends
  BY <1>1, <1>2, TakenKept DEF ValidateBlock, OnBlockLooks, OnBlockSends, work
<1>3. CASE StoreFilter \/ Aside \/ TakeEvent
  <2>1. UNCHANGED <<cp, stop, subTip, scan, pc, gaps, Taken>>
    BY <1>3 DEF StoreFilter, Aside, TakeEvent, work, chain, node, sink, Taken,
                Passed
  <2> QED BY <1>1, <2>1
<1>4. CASE Moves \/ Subscribe
  <2>1. pc # "stream" /\ pc' \in {"look", "parked", "begin", "subscribe",
                                  "apply", "failed"}
    BY <1>4 DEF Moves, Subscribe, Goes
  <2>2. pc' = "apply" =>
          UNCHANGED <<cp, stop, subTip, scan, gaps>> /\ pc = "fetch"
    BY <1>4 DEF Moves, Subscribe, Goes, work
  <2> QED BY <2>1, <2>2, <1>1 DEF HandoffInv
<1>5. CASE Ends \/ Starts
  <2>1. pc' \in {"idle", "look"}
    BY <1>5 DEF Ends, ScanOver, Starts, StartScan
  <2> QED BY <2>1 DEF HandoffInv
<1>6. CASE Begin
  <2>1. /\ cp' = cp /\ subTip' = subTip /\ stop' = filterTip /\ pc' = "match"
        /\ (Higher(cp, filterTip) + 1)..subTip \subseteq gaps'
    BY <1>6 DEF Begin, Goes
  <2>2. ASSUME NEW h \in Blocks, cp < h, filterTip < h, h <= subTip
        PROVE  h \in gaps'
    <3>1. h \in (Higher(cp, filterTip) + 1)..subTip
      BY <1>0, <2>2 DEF Higher
    <3> QED BY <2>1, <3>1
  <2> QED BY <2>1, <2>2 DEF HandoffInv
<1>7. CASE Match
  BY <1>1, <1>7 DEF Match, Goes, Quietly
<1>8. CASE ApplyBlock \/ FinalCheckpoint
  <2>1. /\ UNCHANGED <<scan, stop, subTip, gaps>>
        /\ pc = "apply" /\ pc' \in {"apply", "succeeded"}
    BY <1>8 DEF ApplyBlock, FinalCheckpoint, Goes, work
  <2>2. \A k \in Blocks : cp' < k => cp < k
    <3>1. CASE ApplyBlock
      <4>1. PICK h \in todo : cp' = Higher(cp, h) \/ cp' = cp
        BY <3>1 DEF ApplyBlock
      <4>2. h \in Nat
        BY <1>0
      <4> QED BY <1>0, <4>1, <4>2 DEF Higher
    <3>2. CASE FinalCheckpoint
      BY <1>0, <3>2 DEF FinalCheckpoint, Higher
    <3> QED BY <1>8, <3>1, <3>2
  <2> QED BY <2>1, <2>2 DEF HandoffInv, Receives
<1>9. CASE ReportStreaming
  <2>1. /\ UNCHANGED <<scan, stop, subTip, gaps, cp, Taken>>
        /\ pc = "succeeded" /\ pc' = "stream" /\ scan.mode = "continuous"
    BY <1>9 DEF ReportStreaming, Goes, work, env, node, chain, Taken, Passed
  <2>2. subTip = Taken /\ stop <= cp
    BY <2>1 DEF QueueInv, RangeInv, Receives
  <2>3. \A h \in Blocks : cp < h => stop < h
    BY <1>0, <2>2
  <2> QED BY <2>1, <2>2, <2>3 DEF HandoffInv, Receives
<1>10. CASE StreamBlock
  <2>1. /\ UNCHANGED <<scan, nodeTip, onBlock, gaps>>
        /\ pc = "stream" /\ pc' = "stream"
        /\ queue # <<>> /\ queue' = Tail(queue)
        /\ \/ Head(queue) <= cp /\ cp' = cp
           \/ cp' = Head(queue)
    BY <1>10 DEF StreamBlock, Goes, work, env, node, chain
  <2>2. Len(queue') = Len(queue) - 1 /\ Head(queue) = queue[1]
    BY <1>0, <2>1, HeadTailProperties
  <2>3. Passed \in Int /\ Passed' = Passed
    BY <1>0, <2>1 DEF Passed
  <2>4. Taken \in Int /\ Taken' = Taken + 1
    BY <1>0, <2>2, <2>3 DEF Taken
  <2>5. 1 \in 1..Len(queue)
    BY <1>0, <2>1
  <2>6. Receives => Head(queue) = Taken + 1
    BY <2>2, <2>5 DEF QueueInv
  <2>7. Receives => Taken' <= cp'
    BY <1>0, <2>1, <2>4, <2>6
  <2>8. cp' \in Int
    BY <1>0, <2>1, HeadTailProperties
  <2>9. Receives => \A h \in Blocks : ~(cp' < h /\ h <= Taken')
    BY <1>0, <2>4, <2>7, <2>8
  <2> QED BY <2>1, <2>9 DEF HandoffInv, Receives
<1>11. CASE NewClient
  <2>1. pc' = "idle"
    BY <1>11 DEF NewClient, Alive, DroppedInv
  <2> QED BY <2>1 DEF HandoffInv
<1> QED BY <1>2, <1>3, <1>4, <1>5, <1>6, <1>7, <1>8, <1>9, <1>10, <1>11 DEF Step

-----------------------------------------------------------------------------
(* What a step does as seen from the event channel.                          *)

Adds(e) ==
  \/ /\ IsUpdate(e) /\ e.cp = cp'
     /\ \A h \in Blocks : h \in found' <=> h \in found \/ h \in e.txs
  \/ pc = "succeeded" /\ e = Finished /\ UNCHANGED <<cp, found>>
  \/ e = ErrorEvent /\ pc' = "idle" /\ UNCHANGED <<cp, found>>

\* The scan gets on, with an event or without.
Progress ==
  /\ UNCHANGED <<relevant, walletCp, walletTxs>>
  /\ eventTx' = eventTx \/ eventTx' = FALSE
  /\ cp' \in Nat /\ cp <= cp'
  /\ \A h \in Blocks : h <= cp /\ h \in gaps => h \in gaps'
  /\ \/ UNCHANGED <<events, cp, found>>
     \/ eventTx' = eventTx /\ \E e \in Events : send_event(e) /\ Adds(e)

LEMMA ProgressKinds == Types /\ Step => Progress \/ NewClient \/ TakeEvent
<1> SUFFICES ASSUME Types, Step, ~NewClient, ~TakeEvent PROVE Progress
  OBVIOUS
<1>0. /\ \A h \in Blocks : h \in Nat /\ 1 <= h
      /\ \A h \in todo : h \in Blocks
      /\ cp \in Nat /\ stop \in Nat /\ queue \in Seq(Blocks)
      /\ ScanTypes /\ ChainTypes /\ PassTypes
  BY BoundsAssumption
     DEF Types, ChainTypes, ScanTypes, PassTypes, ChannelTypes, Heights, Blocks
<1>a. ErrorEvent \in Events /\ Finished \in Events
  <2>1. ErrorEvent \in Events
    BY BoundsAssumption DEF ErrorEvent, Events, Heights
  <2>2. Finished \in Events
    BY <1>0 DEF Finished, Events, ScanTypes, ChainTypes
  <2> QED BY <2>1, <2>2
<1>b. \A q \in Heights, t \in SUBSET Blocks :
        /\ Update(q, t) \in Events /\ IsUpdate(Update(q, t))
        /\ Update(q, t).cp = q /\ Update(q, t).txs = t
  BY DEF Update, Events, IsUpdate
<1>1. CASE ValidateBlock \/ StoreFilter \/ OnBlockLooks \/ OnBlockSends
             \/ Aside \/ Moves \/ Starts
  <2>1. UNCHANGED <<relevant, walletCp, walletTxs, events, cp, found, gaps>>
    BY <1>1 DEF ValidateBlock, StoreFilter, OnBlockLooks, OnBlockSends,
                Aside, Moves, Starts, StartScan, wallet, node, chain
  <2>2. eventTx' = eventTx \/ eventTx' = FALSE
    BY <1>1 DEF ValidateBlock, StoreFilter, OnBlockLooks, OnBlockSends,
                Aside, Moves, Starts, StartScan
  <2> QED BY <1>0, <2>1, <2>2 DEF Progress
<1>2. CASE Subscribe \/ Match
  BY <1>0, <1>2 DEF Subscribe, Match, Goes, Quietly, Progress, env, wallet,
                    node, chain
<1>3. CASE Begin
  <2>1. UNCHANGED <<relevant, walletCp, walletTxs, eventTx, events, cp, found>>
    BY <1>3 DEF Begin, Goes, env, wallet, node, chain
  <2>2. gaps \subseteq gaps'
    BY <1>3 DEF Begin
  <2> QED BY <1>0, <2>1, <2>2 DEF Progress
<1>4. CASE Ends
  <2>1. /\ UNCHANGED <<relevant, walletCp, walletTxs, eventTx, cp, found>>
        /\ pc' = "idle"
    BY <1>4 DEF Ends, ScanOver, env, wallet, node, chain
  <2>2. \A h \in Blocks : h <= cp /\ h \in gaps => h \in gaps'
    <3>1. gaps' = gaps \cap 1..cp
      BY <1>4 DEF Ends, ScanOver
    <3> QED BY <1>0, <3>1
  <2>3. UNCHANGED events \/ \E e \in Events : send_event(e) /\ Adds(e)
    <3>1. CASE UNCHANGED events
      BY <3>1
    <3>2. CASE pc = "succeeded" /\ send_event(Finished)
      BY <1>a, <2>1, <3>2 DEF Adds
    <3>3. CASE pc = "failed" /\ send_event(ErrorEvent)
      BY <1>a, <2>1, <3>3 DEF Adds
    <3> QED BY <1>4, <3>1, <3>2, <3>3 DEF Ends
  <2> QED BY <1>0, <2>1, <2>2, <2>3 DEF Progress
<1>5. CASE ApplyBlock
  <2>1. UNCHANGED <<relevant, walletCp, walletTxs, eventTx, gaps>>
    BY <1>5 DEF ApplyBlock, Goes, env, wallet, node, chain
  <2>2. PICK h \in todo :
          \/ /\ cp' = Higher(cp, h) /\ found' = found \cup {h}
             /\ send_event(Update(cp', {h}))
          \/ UNCHANGED <<cp, found, events>>
    BY <1>5 DEF ApplyBlock
  <2>3. h \in Blocks /\ Higher(cp, h) \in Heights /\ cp <= Higher(cp, h)
    BY <1>0 DEF Higher, Heights, Blocks, PassTypes
  <2>4. CASE UNCHANGED <<cp, found, events>>
    BY <1>0, <2>1, <2>4 DEF Progress
  <2>5. CASE /\ cp' = Higher(cp, h) /\ found' = found \cup {h}
             /\ send_event(Update(cp', {h}))
    <3> DEFINE e == Update(cp', {h})
    <3>1. e \in Events /\ IsUpdate(e) /\ e.cp = cp' /\ e.txs = {h}
      BY <1>b, <2>3, <2>5
    <3>2. Adds(e)
      BY <2>5, <3>1 DEF Adds
    <3>3. cp' \in Nat /\ cp <= cp'
      BY <2>3, <2>5, BoundsAssumption DEF Heights
    <3> HIDE DEF e
    <3>4. send_event(e)
      BY <2>5 DEF e
    <3> QED BY <2>1, <3>1, <3>2, <3>3, <3>4 DEF Progress
  <2> QED BY <2>2, <2>4, <2>5
<1>6. CASE FinalCheckpoint
  <2>1. UNCHANGED <<relevant, walletCp, walletTxs, eventTx, gaps, found>>
    BY <1>6 DEF FinalCheckpoint, Goes, env, wallet, node, chain
  <2>2. CASE cp < stop
    <3> DEFINE e == Update(stop, {})
    <3>1. e \in Events /\ IsUpdate(e) /\ e.cp = stop /\ e.txs = {}
      BY <1>0, <1>b DEF ScanTypes
    <3>2. cp' = stop
      BY <1>0, <1>6, <2>2 DEF FinalCheckpoint, Higher
    <3>3. send_event(e)
      BY <1>6, <2>2 DEF FinalCheckpoint
    <3>4. Adds(e)
      BY <2>1, <3>1, <3>2 DEF Adds
    <3> HIDE DEF e
    <3> QED BY <1>0, <2>1, <2>2, <3>1, <3>2, <3>3, <3>4 DEF Progress
  <2>3. CASE ~(cp < stop)
    <3>1. cp' = cp /\ events' = events
      BY <1>0, <1>6, <2>3 DEF FinalCheckpoint, Higher
    <3> QED BY <1>0, <2>1, <3>1 DEF Progress
  <2> QED BY <2>2, <2>3
<1>7. CASE ReportStreaming
  <2>1. UNCHANGED <<relevant, walletCp, walletTxs, eventTx, cp, gaps, found>>
    BY <1>7 DEF ReportStreaming, Goes, env, wallet, node, chain
  <2>2. send_event(Finished) /\ Adds(Finished)
    BY <1>7, <2>1 DEF ReportStreaming, Goes, Adds
  <2> QED BY <1>0, <1>a, <2>1, <2>2 DEF Progress
<1>8. CASE StreamBlock
  <2>1. UNCHANGED <<relevant, walletCp, walletTxs, eventTx, gaps>>
    BY <1>8 DEF StreamBlock, Goes, env, wallet, node, chain
  <2>2. Head(queue) \in Blocks /\ Head(queue) \in Nat /\ Head(queue) \in Heights
    BY <1>0, <1>8, HeadTailProperties, BoundsAssumption
       DEF StreamBlock, Heights, Blocks
  <2>3. CASE Head(queue) <= cp
    BY <1>0, <1>8, <2>1, <2>3 DEF StreamBlock, Progress
  <2>4. CASE ~(Head(queue) <= cp)
    <3> DEFINE t == {Head(queue)} \cap relevant
               e == Update(cp', t)
    <3>1. /\ cp' = Head(queue) /\ found' = found \cup t
          /\ send_event(Update(cp', t))
      BY <1>8, <2>4 DEF StreamBlock
    <3>2. t \in SUBSET Blocks
      BY <2>2
    <3>3. e \in Events /\ IsUpdate(e) /\ e.cp = cp' /\ e.txs = t
      BY <1>b, <2>2, <3>1, <3>2
    <3>4. send_event(e)
      BY <3>1
    <3>5. Adds(e)
      BY <3>1, <3>3 DEF Adds
    <3>6. cp' \in Nat /\ cp <= cp'
      BY <1>0, <2>2, <2>4, <3>1
    <3> HIDE DEF e
    <3> QED BY <2>1, <3>3, <3>4, <3>5, <3>6 DEF Progress
  <2> QED BY <2>3, <2>4
<1> QED BY <1>1, <1>2, <1>3, <1>4, <1>5, <1>6, <1>7, <1>8 DEF Step

-----------------------------------------------------------------------------
(* The promises.                                                             *)

LEMMA CheckpointStep ==
  /\ Types /\ ForwardInv /\ QueueInv /\ RangeInv /\ HandoffInv
  /\ CheckpointIsComplete /\ WalletIsComplete /\ Step
  => CheckpointIsComplete'
<1> SUFFICES ASSUME Types, ForwardInv, QueueInv, RangeInv, HandoffInv,
                    CheckpointIsComplete, WalletIsComplete, Step
             PROVE  CheckpointIsComplete'
  OBVIOUS
<1>0. /\ \A h \in Blocks : h \in Nat /\ 1 <= h
      /\ \A h \in relevant : h \in Blocks
      /\ \A h \in todo : h \in Blocks
      /\ cp \in Nat /\ walletCp \in Nat /\ stop \in Nat /\ scan.from \in Nat
      /\ nodeTip \in Nat /\ queue \in Seq(Blocks) /\ Len(queue) \in Nat
  BY BoundsAssumption
     DEF Types, ChainTypes, ScanTypes, PassTypes, ChannelTypes, Heights, Blocks
<1>1. CASE /\ UNCHANGED <<relevant, cp, found>>
           /\ \A h \in Blocks : h <= cp /\ h \in gaps => h \in gaps'
  BY <1>0, <1>1 DEF CheckpointIsComplete
<1>2. CASE ValidateBlock \/ StoreFilter \/ OnBlockLooks \/ OnBlockSends
             \/ Aside \/ Moves \/ Starts \/ TakeEvent
  BY <1>1, <1>2 DEF ValidateBlock, StoreFilter, OnBlockLooks, OnBlockSends,
                    Aside, Moves, Starts, StartScan, TakeEvent, node, chain
<1>3. CASE Subscribe \/ Begin \/ Match \/ ReportStreaming
  BY <1>1, <1>3 DEF Subscribe, Begin, Match, ReportStreaming, Goes, Quietly,
                    env, node, chain
<1>4. CASE Ends
  <2>1. UNCHANGED <<relevant, cp, found>> /\ gaps' = gaps \cap 1..cp
    BY <1>4 DEF Ends, ScanOver, env, node, chain
  <2>2. \A h \in Blocks : h <= cp /\ h \in gaps => h \in gaps'
    BY <1>0, <2>1
  <2> QED BY <1>1, <2>1, <2>2
<1>5. CASE ApplyBlock
  <2>1. UNCHANGED <<relevant, gaps>> /\ pc = "apply"
    BY <1>5 DEF ApplyBlock, Goes, env, node, chain
  <2>2. PICK h \in todo :
          /\ \A k \in todo : h <= k
          /\ \/ cp' = Higher(cp, h) /\ found' = found \cup {h}
             \/ cp' = cp /\ found' = found
    BY <1>5 DEF ApplyBlock, Lowest
  <2>3. CASE cp' = cp /\ found' = found
    BY <2>1, <2>3 DEF CheckpointIsComplete
  <2>4. CASE cp' = Higher(cp, h) /\ found' = found \cup {h}
    <3>1. SUFFICES ASSUME NEW k \in relevant, k <= Higher(cp, h), ~(k <= cp)
                   PROVE  k \in found \cup {h} \cup gaps
      BY <2>1, <2>4 DEF CheckpointIsComplete
    <3>2. k \in Blocks /\ k \in Nat /\ h \in Nat /\ cp < k /\ k <= h
      BY <1>0, <3>1 DEF Higher
    <3>3. CASE k < scan.from
      BY <2>1, <3>2, <3>3 DEF RangeInv
    <3>4. CASE ~(k < scan.from)
      <4>1. scan.from <= k /\ k <= stop
        BY <1>0, <2>1, <3>2, <3>4 DEF RangeInv
      <4>2. k \in found \cup todo
        BY <2>1, <4>1 DEF RangeInv
      <4>3. k \in todo => k = h
        BY <2>2, <3>2
      <4> QED BY <4>2, <4>3
    <3> QED BY <3>3, <3>4
  <2> QED BY <2>2, <2>3, <2>4
<1>6. CASE FinalCheckpoint
  <2>1. /\ UNCHANGED <<relevant, gaps, found>>
        /\ pc = "apply" /\ todo = {} /\ cp' = Higher(cp, stop)
    BY <1>6 DEF FinalCheckpoint, Goes, env, node, chain
  <2>2. SUFFICES ASSUME NEW k \in relevant, k <= Higher(cp, stop), ~(k <= cp)
                 PROVE  k \in found \cup gaps
    BY <2>1 DEF CheckpointIsComplete
  <2>3. k \in Blocks /\ k \in Nat /\ cp < k /\ k <= stop
    BY <1>0, <2>2 DEF Higher
  <2>4. CASE k < scan.from
    BY <2>1, <2>3, <2>4 DEF RangeInv
  <2>5. CASE ~(k < scan.from)
    <3>1. scan.from <= k
      BY <1>0, <2>3, <2>5
    <3> QED BY <2>1, <2>3, <3>1 DEF RangeInv
  <2> QED BY <2>4, <2>5
<1>7. CASE StreamBlock
  <2>1. /\ UNCHANGED <<relevant, gaps>> /\ pc = "stream" /\ queue # <<>>
        /\ \/ UNCHANGED <<cp, found>>
           \/ /\ cp' = Head(queue)
              /\ found' = found \cup ({Head(queue)} \cap relevant)
    BY <1>7 DEF StreamBlock, Goes, env, node, chain
  <2>2. CASE UNCHANGED <<cp, found>>
    BY <2>1, <2>2 DEF CheckpointIsComplete
  <2>3. CASE /\ cp' = Head(queue)
             /\ found' = found \cup ({Head(queue)} \cap relevant)
    <3>1. Receives
      BY <2>1 DEF ForwardInv
    <3>2. 1 \in 1..Len(queue) /\ Head(queue) = queue[1]
      BY <1>0, <2>1
    <3>3. Passed \in Int
      BY <1>0 DEF Passed
    <3>4. Taken \in Int /\ Head(queue) = Taken + 1
      BY <1>0, <3>1, <3>2, <3>3 DEF QueueInv, Taken
    <3>5. SUFFICES ASSUME NEW k \in relevant, k <= Head(queue), ~(k <= cp),
                          k # Head(queue)
                   PROVE  k \in gaps
      BY <2>1, <2>3 DEF CheckpointIsComplete
    <3>6. k \in Blocks /\ cp < k /\ k <= Taken
      BY <1>0, <3>4, <3>5
    <3> QED BY <2>1, <3>1, <3>6 DEF HandoffInv
  <2> QED BY <2>1, <2>2, <2>3
<1>8. CASE NewClient
  <2>1. /\ relevant' = relevant
        /\ cp' = walletCp /\ found' = walletTxs /\ gaps' = gaps \cap 1..walletCp
    BY <1>8 DEF NewClient, node, chain
  <2>2. \A h \in relevant : h <= walletCp => h \in 1..walletCp
    BY <1>0
  <2> QED BY <2>1, <2>2 DEF CheckpointIsComplete, WalletIsComplete
<1> QED BY <1>2, <1>3, <1>4, <1>5, <1>6, <1>7, <1>8 DEF Step

(* Sending an event, seen from the channel.                                  *)
LEMMA SendFacts ==
  ASSUME events \in Seq(Events), NEW e \in Events, send_event(e)
  PROVE  /\ ~eventTx => events' = events
         /\ eventTx => /\ Len(events') = Len(events) + 1
                       /\ events'[Len(events) + 1] = e
         /\ \A i \in 1..Len(events) : events'[i] = events[i]
BY DEF send_event

(* The wallet and the events on their way are never ahead of the client.     *)
LEMMA BehindStep ==
  Types /\ RangeInv /\ BehindInv /\ Step => BehindInv'
<1> SUFFICES ASSUME Types, RangeInv, BehindInv, Step PROVE BehindInv'
  OBVIOUS
<1>0. /\ cp \in Nat /\ walletCp \in Nat /\ stop \in Nat
      /\ events \in Seq(Events) /\ Len(events) \in Nat
  BY BoundsAssumption
     DEF Types, ScanTypes, PassTypes, ChannelTypes, Heights
<1>a. \A i \in 1..Len(events) : events[i].cp \in Nat
  <2>1. \A i \in 1..Len(events) : events[i] \in Events
    BY <1>0
  <2> QED BY <2>1, EventFields, BoundsAssumption DEF Heights
<1>1. CASE Progress
  <2>1. walletCp' = walletCp /\ cp' \in Nat /\ cp <= cp'
    BY <1>1 DEF Progress
  <2>2. CASE UNCHANGED <<events, cp, found>>
    BY <1>0, <2>1, <2>2 DEF BehindInv
  <2>3. CASE \E e \in Events : send_event(e) /\ Adds(e)
    <3>1. PICK e \in Events : send_event(e) /\ Adds(e)
      BY <2>3
    <3>2. e.cp <= cp'
      <4>1. CASE IsUpdate(e) /\ e.cp = cp'
        BY <2>1, <4>1
      <4>2. CASE pc = "succeeded" /\ e = Finished
        <5>1. e.cp = stop /\ stop <= cp
          BY <4>2 DEF Finished, RangeInv
        <5> QED BY <1>0, <2>1, <5>1
      <4>3. CASE e = ErrorEvent
        BY <2>1, <4>3 DEF ErrorEvent
      <4> QED BY <3>1, <4>1, <4>2, <4>3 DEF Adds
    <3>3. \A i \in 1..Len(events) : events'[i].cp <= cp'
      BY <1>0, <1>a, <2>1, <3>1, SendFacts DEF BehindInv
    <3>4. \A i \in 1..Len(events') : events'[i].cp <= cp'
      <4>1. CASE eventTx
        <5>1. /\ Len(events') = Len(events) + 1
              /\ events'[Len(events) + 1] = e
          BY <1>0, <3>1, <4>1, SendFacts
        <5>2. \A i \in 1..Len(events') :
                i \in 1..Len(events) \/ i = Len(events) + 1
          BY <1>0, <5>1
        <5> QED BY <3>2, <3>3, <5>1, <5>2
      <4>2. CASE ~eventTx
        BY <1>0, <3>1, <3>3, <4>2, SendFacts
      <4> QED BY <4>1, <4>2
    <3> QED BY <1>0, <2>1, <3>4 DEF BehindInv
  <2> QED BY <1>1, <2>2, <2>3 DEF Progress
<1>2. CASE NewClient
  <2>1. cp' = walletCp /\ walletCp' = walletCp /\ events' = <<>>
    BY <1>2 DEF NewClient, wallet
  <2>2. Len(events') = 0
    BY <2>1
  <2> QED BY <1>0, <2>1, <2>2 DEF BehindInv
<1>3. CASE TakeEvent
  <2>1. /\ events # <<>> /\ events' = Tail(events) /\ cp' = cp
        /\ walletCp' = walletCp \/ walletCp' = Higher(walletCp, Head(events).cp)
    BY <1>3 DEF TakeEvent, wallet
  <2>2. /\ Len(events') = Len(events) - 1
        /\ \A i \in 1..Len(events') : events'[i] = events[i + 1]
        /\ 1 \in 1..Len(events) /\ Head(events) = events[1]
    BY <1>0, <2>1, HeadTailProperties
  <2>3. walletCp' <= cp
    BY <1>0, <1>a, <2>1, <2>2 DEF BehindInv, Higher
  <2>4. \A i \in 1..Len(events') : events'[i].cp <= cp
    <3>1. \A i \in 1..Len(events') : i + 1 \in 1..Len(events)
      BY <1>0, <2>2
    <3> QED BY <2>2, <3>1 DEF BehindInv
  <2> QED BY <2>1, <2>3, <2>4 DEF BehindInv
<1> QED BY <1>1, <1>2, <1>3, ProgressKinds

(* What the updates bring, when one is sent and when one is taken.           *)
LEMMA BringsSend ==
  ASSUME events \in Seq(Events), NEW e \in Events, send_event(e), eventTx,
         NEW h \in Blocks
  PROVE  /\ \A i \in 1..Len(events) :
              Brings(events, i, h) => Brings(events', i, h)
         /\ Brings(events', Len(events'), h)
              <=> Brings(events, Len(events), h) \/ (IsUpdate(e) /\ h \in e.txs)
<1>0. /\ Len(events) \in Nat /\ Len(events') = Len(events) + 1
      /\ events'[Len(events) + 1] = e
      /\ \A i \in 1..Len(events) : events'[i] = events[i]
  BY SendFacts
<1>1. ASSUME NEW i \in 1..Len(events), Brings(events, i, h)
      PROVE  Brings(events', i, h)
  <2>1. PICK j \in 1..i : IsUpdate(events[j]) /\ h \in events[j].txs
    BY <1>1 DEF Brings
  <2>2. j \in 1..Len(events)
    BY <1>0
  <2> QED BY <1>0, <2>1, <2>2 DEF Brings
<1>2. ASSUME Brings(events, Len(events), h) \/ (IsUpdate(e) /\ h \in e.txs)
      PROVE  Brings(events', Len(events'), h)
  <2>1. CASE Brings(events, Len(events), h)
    <3>1. PICK j \in 1..Len(events) : IsUpdate(events[j]) /\ h \in events[j].txs
      BY <2>1 DEF Brings
    <3>2. j \in 1..Len(events') /\ events'[j] = events[j]
      BY <1>0
    <3> QED BY <3>1, <3>2 DEF Brings
  <2>2. CASE IsUpdate(e) /\ h \in e.txs
    <3>1. Len(events) + 1 \in 1..Len(events')
      BY <1>0
    <3> QED BY <1>0, <2>2, <3>1 DEF Brings
  <2> QED BY <1>2, <2>1, <2>2
<1>3. ASSUME Brings(events', Len(events'), h)
      PROVE  Brings(events, Len(events), h) \/ (IsUpdate(e) /\ h \in e.txs)
  <2>1. PICK j \in 1..Len(events') : IsUpdate(events'[j]) /\ h \in events'[j].txs
    BY <1>3 DEF Brings
  <2>2. j = Len(events) + 1 \/ j \in 1..Len(events)
    BY <1>0
  <2> QED BY <1>0, <2>1, <2>2 DEF Brings
<1> QED BY <1>1, <1>2, <1>3

LEMMA BringsTake ==
  ASSUME events \in Seq(Events), events # <<>>, events' = Tail(events),
         NEW h \in Blocks, NEW i \in Nat, i < Len(events),
         Brings(events, i + 1, h)
  PROVE  \/ IsUpdate(Head(events)) /\ h \in Head(events).txs
         \/ Brings(events', i, h)
<1>0. /\ Len(events) \in Nat /\ Len(events') = Len(events) - 1
      /\ \A j \in 1..Len(events') : events'[j] = events[j + 1]
      /\ Head(events) = events[1]
  BY HeadTailProperties
<1>1. PICK j \in 1..(i + 1) : IsUpdate(events[j]) /\ h \in events[j].txs
  BY DEF Brings
<1>2. CASE j = 1
  BY <1>0, <1>1, <1>2
<1>3. CASE j # 1
  <2>1. j - 1 \in 1..i /\ j - 1 \in 1..Len(events') /\ (j - 1) + 1 = j
    BY <1>0, <1>3
  <2>2. events'[j - 1] = events[j]
    BY <1>0, <2>1
  <2> QED BY <1>1, <2>1, <2>2 DEF Brings
<1> QED BY <1>2, <1>3

(* A taken update is not lost: the wallet has it.                            *)
LEMMA TakeArrives ==
  Types /\ BehindInv /\ Arrives /\ TakeEvent => Arrives'
<1> SUFFICES ASSUME Types, BehindInv, Arrives, TakeEvent PROVE Arrives'
  OBVIOUS
<1>0. /\ cp \in Nat /\ walletCp \in Nat
      /\ events \in Seq(Events) /\ Len(events) \in Nat
      /\ \A h \in found : h \in Blocks
  BY BoundsAssumption DEF Types, PassTypes, ChannelTypes, Heights
<1>a. \A i \in 1..Len(events) : events[i].cp \in Nat
  <2>1. \A i \in 1..Len(events) : events[i] \in Events
    BY <1>0
  <2> QED BY <2>1, EventFields, BoundsAssumption DEF Heights
<1>1. /\ events # <<>> /\ events' = Tail(events) /\ UNCHANGED <<cp, found>>
  BY DEF TakeEvent
<1>2. /\ Len(events') = Len(events) - 1
      /\ \A i \in 1..Len(events') : events'[i] = events[i + 1]
      /\ 1 \in 1..Len(events) /\ Head(events) = events[1]
  BY <1>0, <1>1, HeadTailProperties
<1>3. \/ /\ IsUpdate(Head(events))
         /\ walletCp' = Higher(walletCp, Head(events).cp)
         /\ walletTxs' = walletTxs \cup Head(events).txs
      \/ /\ ~IsUpdate(Head(events)) /\ UNCHANGED <<walletCp, walletTxs>>
  BY DEF TakeEvent, IsUpdate, wallet
<1>4. ASSUME NEW h \in Blocks
      PROVE  Brings(events, Len(events), h)
               <=> \/ IsUpdate(Head(events)) /\ h \in Head(events).txs
                   \/ Brings(events', Len(events'), h)
  <2>1. ASSUME Brings(events, Len(events), h)
        PROVE  \/ IsUpdate(Head(events)) /\ h \in Head(events).txs
               \/ Brings(events', Len(events'), h)
    <3>1. /\ Len(events') \in Nat /\ Len(events') < Len(events)
          /\ Len(events') + 1 = Len(events)
      BY <1>0, <1>2
    <3> QED BY <1>0, <1>1, <2>1, <3>1, BringsTake
  <2>2. IsUpdate(Head(events)) /\ h \in Head(events).txs
          => Brings(events, Len(events), h)
    BY <1>2 DEF Brings
  <2>3. ASSUME Brings(events', Len(events'), h)
        PROVE  Brings(events, Len(events), h)
    <3>1. PICK j \in 1..Len(events') :
                 IsUpdate(events'[j]) /\ h \in events'[j].txs
      BY <2>3 DEF Brings
    <3>2. j + 1 \in 1..Len(events) /\ events'[j] = events[j + 1]
      BY <1>0, <1>2
    <3> QED BY <3>1, <3>2 DEF Brings
  <2> QED BY <2>1, <2>2, <2>3
<1>5. \A h \in Blocks :
        h \in found' <=> h \in walletTxs' \/ Brings(events', Len(events'), h)
  <2>1. TAKE h \in Blocks
  <2>2. h \in found <=> h \in walletTxs \/ Brings(events, Len(events), h)
    BY <1>1 DEF Arrives
  <2> QED BY <1>1, <1>3, <1>4, <2>2
<1>6. \/ cp' = walletCp'
      \/ \E j \in 1..Len(events') : IsUpdate(events'[j]) /\ events'[j].cp = cp'
  <2>1. CASE cp = walletCp
    <3>1. Head(events).cp \in Nat /\ Head(events).cp <= cp
      BY <1>a, <1>2 DEF BehindInv
    <3> QED BY <1>0, <1>1, <1>3, <2>1, <3>1 DEF Higher
  <2>2. CASE \E j \in 1..Len(events) : IsUpdate(events[j]) /\ events[j].cp = cp
    <3>1. PICK j \in 1..Len(events) : IsUpdate(events[j]) /\ events[j].cp = cp
      BY <2>2
    <3>2. CASE j = 1
      <4>1. walletCp' = Higher(walletCp, cp) /\ walletCp <= cp
        BY <1>2, <1>3, <3>1, <3>2 DEF BehindInv
      <4> QED BY <1>0, <1>1, <4>1 DEF Higher
    <3>3. CASE j # 1
      <4>1. j - 1 \in 1..Len(events') /\ (j - 1) + 1 = j
        BY <1>0, <1>2, <3>3
      <4>2. events'[j - 1] = events[j]
        BY <1>2, <4>1
      <4> QED BY <1>1, <3>1, <4>1, <4>2
    <3> QED BY <3>2, <3>3
  <2> QED BY <1>1, <2>1, <2>2 DEF Arrives
<1> QED BY <1>5, <1>6 DEF Arrives

(* No update is lost while the channel is open.                              *)
LEMMA LostStep == Types /\ BehindInv /\ LostInv /\ Step => LostInv'
<1> SUFFICES ASSUME Types, BehindInv, LostInv, Step, eventTx' PROVE LostInv'
  BY DEF LostInv
<1>0. /\ cp \in Nat /\ walletCp \in Nat
      /\ events \in Seq(Events) /\ Len(events) \in Nat
      /\ \A h \in found : h \in Blocks
  BY BoundsAssumption DEF Types, PassTypes, ChannelTypes, Heights
<1>1. CASE Progress
  <2>0. eventTx /\ UNCHANGED <<walletCp, walletTxs>>
    BY <1>1 DEF Progress
  <2>1. CASE UNCHANGED <<events, cp, found>>
    BY <2>0, <2>1 DEF LostInv, Arrives, Brings
  <2>2. CASE \E e \in Events : send_event(e) /\ Adds(e)
    <3>1. PICK e \in Events : send_event(e) /\ Adds(e)
      BY <2>2
    <3>2. /\ Len(events') = Len(events) + 1
          /\ events'[Len(events) + 1] = e
          /\ \A i \in 1..Len(events) : events'[i] = events[i]
      BY <1>0, <2>0, <3>1, SendFacts
    <3>3. \A h \in Blocks : h \in found' <=> h \in found \/ (IsUpdate(e) /\ h \in e.txs)
      BY <3>1 DEF Adds, IsUpdate, ErrorEvent, Finished
    <3>4. \A h \in Blocks :
            h \in found' <=> h \in walletTxs' \/ Brings(events', Len(events'), h)
      <4>1. TAKE h \in Blocks
      <4>2. Brings(events', Len(events'), h)
              <=> Brings(events, Len(events), h) \/ (IsUpdate(e) /\ h \in e.txs)
        BY <1>0, <2>0, <3>1, BringsSend
      <4>3. h \in found <=> h \in walletTxs \/ Brings(events, Len(events), h)
        BY <2>0 DEF LostInv, Arrives
      <4> QED BY <2>0, <3>3, <4>2, <4>3
    <3>5. \/ cp' = walletCp'
          \/ \E j \in 1..Len(events') : IsUpdate(events'[j]) /\ events'[j].cp = cp'
      <4>1. CASE IsUpdate(e) /\ e.cp = cp'
        <5>1. Len(events) + 1 \in 1..Len(events')
          BY <1>0, <3>2
        <5> QED BY <3>2, <4>1, <5>1
      <4>2. CASE cp' = cp
        <5>1. \A j \in 1..Len(events) : j \in 1..Len(events')
          BY <1>0, <3>2
        <5> QED BY <2>0, <3>2, <4>2, <5>1 DEF LostInv, Arrives
      <4> QED BY <3>1, <4>1, <4>2 DEF Adds
    <3> QED BY <3>4, <3>5 DEF LostInv, Arrives
  <2> QED BY <1>1, <2>1, <2>2 DEF Progress
<1>2. CASE NewClient
  <2>1. /\ cp' = walletCp /\ found' = walletTxs /\ events' = <<>>
        /\ UNCHANGED <<walletCp, walletTxs>>
    BY <1>2 DEF NewClient, wallet
  <2>2. Len(events') = 0
    BY <2>1
  <2>3. \A h \in Blocks : ~Brings(events', Len(events'), h)
    BY <2>2 DEF Brings
  <2> QED BY <2>1, <2>3 DEF LostInv, Arrives
<1>3. CASE TakeEvent
  <2>1. eventTx
    BY <1>3 DEF TakeEvent
  <2> QED BY <1>3, <2>1, TakeArrives DEF LostInv
<1> QED BY <1>1, <1>2, <1>3, ProgressKinds

(* The events come in an order the application can follow: before an update  *)
(* raises the wallet's checkpoint, and before Finished, it has been brought  *)
(* whatever they speak of.                                                   *)
LEMMA OrderStep ==
  /\ Types /\ RangeInv /\ BehindInv /\ LostInv /\ OrderInv
  /\ CheckpointIsComplete' /\ Step
  => OrderInv'
<1> SUFFICES ASSUME Types, RangeInv, BehindInv, LostInv, OrderInv,
                    CheckpointIsComplete', Step
             PROVE  OrderInv'
  OBVIOUS
<1>0. /\ \A h \in Blocks : h \in Nat
      /\ \A h \in relevant : h \in Blocks
      /\ cp \in Nat /\ walletCp \in Nat /\ stop \in Nat
      /\ events \in Seq(Events) /\ Len(events) \in Nat
  BY BoundsAssumption
     DEF Types, ChainTypes, ScanTypes, PassTypes, ChannelTypes, Heights, Blocks
<1>a. \A i \in 1..Len(events) : events[i].cp \in Nat /\ events[i].txs \subseteq Blocks
  <2>1. \A i \in 1..Len(events) : events[i] \in Events
    BY <1>0
  <2> QED BY <2>1, EventFields, BoundsAssumption DEF Heights
<1>1. CASE Progress
  <2>0. /\ UNCHANGED <<relevant, walletCp, walletTxs>>
        /\ \A h \in Blocks : h <= cp /\ h \in gaps => h \in gaps'
    BY <1>1 DEF Progress
  <2>1. \A i \in 1..Len(events), h \in relevant :
          h <= events[i].cp /\ h \in gaps => h \in gaps'
    <3>1. \A i \in 1..Len(events), h \in relevant : h <= events[i].cp => h <= cp
      BY <1>0, <1>a DEF BehindInv
    <3> QED BY <1>0, <2>0, <3>1
  <2>2. CASE UNCHANGED <<events, cp, found>>
    BY <2>0, <2>1, <2>2 DEF OrderInv, Brings
  <2>3. CASE \E e \in Events : send_event(e) /\ Adds(e)
    <3>1. PICK e \in Events : send_event(e) /\ Adds(e)
      BY <2>3
    <3>2. CASE ~eventTx
      <4>1. events' = events
        BY <1>0, <3>1, <3>2, SendFacts
      <4> QED BY <2>0, <2>1, <4>1 DEF OrderInv, Brings
    <3>3. CASE eventTx
      <4>1. /\ Len(events') = Len(events) + 1
            /\ events'[Len(events) + 1] = e
            /\ \A i \in 1..Len(events) : events'[i] = events[i]
        BY <1>0, <3>1, <3>3, SendFacts
      <4>2. \A h \in Blocks, i \in 1..Len(events) :
              Brings(events, i, h) => Brings(events', i, h)
        BY <1>0, <3>1, <3>3, BringsSend
      <4>3. \A h \in Blocks :
              Brings(events', Len(events'), h)
                <=> Brings(events, Len(events), h) \/ (IsUpdate(e) /\ h \in e.txs)
        BY <1>0, <3>1, <3>3, BringsSend
      <4>4. \A h \in Blocks :
              h \in found => h \in walletTxs \/ Brings(events', Len(events'), h)
        BY <3>3, <4>3 DEF LostInv, Arrives
      <4>5. ASSUME NEW i \in 1..Len(events') , i # Len(events')
            PROVE  i \in 1..Len(events) /\ events'[i] = events[i]
        BY <1>0, <4>1, <4>5
      <4>6. ASSUME NEW i \in 1..Len(events'), IsUpdate(events'[i]),
                   NEW h \in relevant, h <= events'[i].cp
            PROVE  h \in walletTxs \cup gaps' \/ Brings(events', i, h)
        <5>1. h \in Blocks
          BY <1>0
        <5>2. CASE i # Len(events')
          <6>1. i \in 1..Len(events) /\ events'[i] = events[i]
            BY <4>5, <5>2
          <6>2. h \in walletTxs \cup gaps \/ Brings(events, i, h)
            BY <4>6, <6>1 DEF OrderInv
          <6>3. h \in gaps => h \in gaps'
            BY <2>1, <4>6, <6>1
          <6> QED BY <4>2, <5>1, <6>1, <6>2, <6>3
        <5>3. CASE i = Len(events')
          <6>1. events'[i] = e /\ IsUpdate(e)
            BY <1>0, <4>1, <4>6, <5>3
          <6>2. /\ e.cp = cp'
                /\ \A k \in Blocks : k \in found' <=> k \in found \/ k \in e.txs
            BY <3>1, <6>1 DEF Adds, IsUpdate, ErrorEvent, Finished
          <6>3. h \in found' \cup gaps'
            BY <2>0, <4>6, <6>1, <6>2 DEF CheckpointIsComplete
          <6>4. h \in e.txs => Brings(events', i, h)
            BY <4>3, <5>1, <5>3, <6>1
          <6> QED BY <4>4, <5>1, <5>3, <6>2, <6>3, <6>4
        <5> QED BY <5>2, <5>3
      <4>7. ASSUME NEW i \in 1..Len(events'), events'[i].type = "finished"
            PROVE  /\ \A h \in events'[i].txs :
                        h \in walletTxs \/ Brings(events', i, h)
                   /\ \/ events'[i].cp <= walletCp
                      \/ \E j \in 1..i : /\ IsUpdate(events'[j])
                                         /\ events'[i].cp <= events'[j].cp
        <5>1. CASE i # Len(events')
          <6>1. i \in 1..Len(events) /\ events'[i] = events[i]
            BY <4>5, <5>1
          <6>2. \A j \in 1..i : j \in 1..Len(events) /\ events'[j] = events[j]
            BY <1>0, <4>1, <6>1
          <6>3. \A h \in events[i].txs : h \in Blocks
            BY <1>a, <6>1
          <6>4. \A h \in events[i].txs : h \in walletTxs \/ Brings(events, i, h)
            BY <4>7, <6>1 DEF OrderInv
          <6>5. \/ events[i].cp <= walletCp
                \/ \E j \in 1..i : /\ IsUpdate(events[j])
                                   /\ events[i].cp <= events[j].cp
            BY <4>7, <6>1 DEF OrderInv
          <6> QED BY <4>2, <6>1, <6>2, <6>3, <6>4, <6>5
        <5>2. CASE i = Len(events')
          <6>1. events'[i] = e /\ e.type = "finished"
            BY <1>0, <4>1, <4>7, <5>2
          <6>2. pc = "succeeded" /\ e = Finished /\ UNCHANGED <<cp, found>>
            BY <3>1, <6>1 DEF Adds, IsUpdate, ErrorEvent
          <6>3. /\ \A h \in e.txs : h \in relevant /\ scan.from <= h /\ h <= stop
                /\ e.cp = stop
            <7>1. e.txs = relevant \cap scan.from..stop /\ e.cp = stop
              BY <6>2 DEF Finished
            <7>2. scan.from \in Nat
              BY BoundsAssumption DEF Types, ScanTypes, Heights
            <7> QED BY <1>0, <7>1, <7>2
          <6>4. \A h \in e.txs : h \in found /\ h \in Blocks
            BY <1>0, <6>2, <6>3 DEF RangeInv
          <6>5. stop <= cp
            BY <6>2 DEF RangeInv
          <6>6. \/ stop <= walletCp
                \/ \E j \in 1..i : IsUpdate(events'[j]) /\ stop <= events'[j].cp
            <7>1. CASE cp = walletCp
              BY <6>5, <7>1
            <7>2. CASE \E j \in 1..Len(events) :
                         IsUpdate(events[j]) /\ events[j].cp = cp
              <8>1. PICK j \in 1..Len(events) :
                           IsUpdate(events[j]) /\ events[j].cp = cp
                BY <7>2
              <8>2. j \in 1..i /\ events'[j] = events[j]
                BY <1>0, <4>1, <5>2
              <8> QED BY <6>5, <8>1, <8>2
            <7> QED BY <3>3, <7>1, <7>2 DEF LostInv, Arrives
          <6> QED BY <4>4, <5>2, <6>1, <6>3, <6>4, <6>6
        <5> QED BY <5>1, <5>2
      <4> QED BY <2>0, <4>6, <4>7 DEF OrderInv
    <3> QED BY <3>2, <3>3
  <2> QED BY <1>1, <2>2, <2>3 DEF Progress
<1>2. CASE NewClient
  <2>1. Len(events') = 0
    BY <1>2 DEF NewClient
  <2> QED BY <2>1 DEF OrderInv
<1>3. CASE TakeEvent
  <2>1. /\ events # <<>> /\ events' = Tail(events) /\ UNCHANGED <<relevant, gaps>>
    BY <1>3 DEF TakeEvent, node, chain
  <2>2. /\ Len(events') = Len(events) - 1
        /\ \A i \in 1..Len(events') : events'[i] = events[i + 1]
        /\ 1 \in 1..Len(events) /\ Head(events) = events[1]
    BY <1>0, <2>1, HeadTailProperties
  <2>3. \/ /\ IsUpdate(Head(events))
           /\ walletCp' = Higher(walletCp, Head(events).cp)
           /\ walletTxs' = walletTxs \cup Head(events).txs
        \/ /\ ~IsUpdate(Head(events)) /\ UNCHANGED <<walletCp, walletTxs>>
    BY <1>3 DEF TakeEvent, IsUpdate, wallet
  <2>4. Head(events).cp \in Nat
    BY <1>a, <2>2
  <2>5. ASSUME NEW i \in 1..Len(events')
        PROVE  /\ i + 1 \in 1..Len(events) /\ events'[i] = events[i + 1]
               /\ i \in Nat /\ i < Len(events)
    BY <1>0, <2>2, <2>5
  <2>6. ASSUME NEW i \in 1..Len(events'), NEW h \in Blocks,
               h \in walletTxs \/ Brings(events, i + 1, h)
        PROVE  h \in walletTxs' \/ Brings(events', i, h)
    <3>1. CASE h \in walletTxs
      BY <2>3, <3>1
    <3>2. CASE Brings(events, i + 1, h)
      <4>1. \/ IsUpdate(Head(events)) /\ h \in Head(events).txs
            \/ Brings(events', i, h)
        BY <1>0, <2>1, <2>5, <3>2, BringsTake
      <4> QED BY <2>3, <4>1
    <3> QED BY <2>6, <3>1, <3>2
  <2>7. ASSUME NEW i \in 1..Len(events'), IsUpdate(events'[i]),
               NEW h \in relevant, h <= events'[i].cp
        PROVE  h \in walletTxs' \cup gaps \/ Brings(events', i, h)
    <3>1. h \in walletTxs \cup gaps \/ Brings(events, i + 1, h)
      BY <2>5, <2>7 DEF OrderInv
    <3> QED BY <1>0, <2>6, <3>1
  <2>8. ASSUME NEW i \in 1..Len(events'), events'[i].type = "finished"
        PROVE  /\ \A h \in events'[i].txs :
                    h \in walletTxs' \/ Brings(events', i, h)
               /\ \/ events'[i].cp <= walletCp'
                  \/ \E j \in 1..i : /\ IsUpdate(events'[j])
                                     /\ events'[i].cp <= events'[j].cp
    <3>1. i + 1 \in 1..Len(events) /\ events'[i] = events[i + 1]
      BY <2>5
    <3>2. \A h \in events[i + 1].txs :
            h \in Blocks /\ (h \in walletTxs \/ Brings(events, i + 1, h))
      BY <1>a, <2>8, <3>1 DEF OrderInv
    <3>3. \A h \in events'[i].txs : h \in walletTxs' \/ Brings(events', i, h)
      BY <2>6, <3>1, <3>2
    <3>4. events[i + 1].cp \in Nat
      BY <1>a, <3>1
    <3>5. \/ events[i + 1].cp <= walletCp
          \/ \E j \in 1..(i + 1) : /\ IsUpdate(events[j])
                                   /\ events[i + 1].cp <= events[j].cp
      BY <2>8, <3>1 DEF OrderInv
    <3>6. \/ events'[i].cp <= walletCp'
          \/ \E j \in 1..i : /\ IsUpdate(events'[j])
                             /\ events'[i].cp <= events'[j].cp
      <4>1. CASE events[i + 1].cp <= walletCp
        BY <1>0, <2>3, <2>4, <3>1, <3>4, <4>1 DEF Higher
      <4>2. CASE \E j \in 1..(i + 1) : /\ IsUpdate(events[j])
                                       /\ events[i + 1].cp <= events[j].cp
        <5>1. PICK j \in 1..(i + 1) : /\ IsUpdate(events[j])
                                      /\ events[i + 1].cp <= events[j].cp
          BY <4>2
        <5>2. CASE j = 1
          <6>1. /\ walletCp' = Higher(walletCp, Head(events).cp)
                /\ events[i + 1].cp <= Head(events).cp
            BY <2>2, <2>3, <5>1, <5>2
          <6> QED BY <1>0, <2>4, <3>1, <3>4, <6>1 DEF Higher
        <5>3. CASE j # 1
          <6>1. j - 1 \in 1..i /\ j - 1 \in 1..Len(events') /\ (j - 1) + 1 = j
            BY <1>0, <2>2, <5>3
          <6>2. events'[j - 1] = events[j]
            BY <2>2, <6>1
          <6> QED BY <3>1, <5>1, <6>1, <6>2
        <5> QED BY <5>2, <5>3
      <4> QED BY <3>5, <4>1, <4>2
    <3> QED BY <3>3, <3>6
  <2> QED BY <2>1, <2>7, <2>8 DEF OrderInv
<1> QED BY <1>1, <1>2, <1>3, ProgressKinds

LEMMA WalletStep ==
  Types /\ BehindInv /\ OrderInv /\ WalletIsComplete /\ Step => WalletIsComplete'
<1> SUFFICES ASSUME Types, BehindInv, OrderInv, WalletIsComplete, Step
             PROVE  WalletIsComplete'
  OBVIOUS
<1>0. /\ \A h \in Blocks : h \in Nat /\ 1 <= h
      /\ \A h \in relevant : h \in Blocks
      /\ cp \in Nat /\ walletCp \in Nat
      /\ events \in Seq(Events) /\ Len(events) \in Nat
  BY BoundsAssumption
     DEF Types, ChainTypes, PassTypes, ChannelTypes, Heights, Blocks
<1>1. CASE Progress
  <2>1. /\ UNCHANGED <<relevant, walletCp, walletTxs>>
        /\ \A h \in Blocks : h <= cp /\ h \in gaps => h \in gaps'
    BY <1>1 DEF Progress
  <2>2. \A h \in relevant : h <= walletCp => h <= cp
    BY <1>0 DEF BehindInv
  <2> QED BY <1>0, <2>1, <2>2 DEF WalletIsComplete
<1>2. CASE NewClient
  <2>1. UNCHANGED <<relevant, walletCp, walletTxs>> /\ gaps' = gaps \cap 1..walletCp
    BY <1>2 DEF NewClient, node, chain, wallet
  <2>2. \A h \in relevant : h <= walletCp => h \in 1..walletCp
    BY <1>0
  <2> QED BY <2>1, <2>2 DEF WalletIsComplete
<1>3. CASE TakeEvent
  <2>1. events # <<>> /\ UNCHANGED <<relevant, gaps>>
    BY <1>3 DEF TakeEvent, node, chain
  <2>2. 1 \in 1..Len(events) /\ Head(events) = events[1]
    BY <1>0, <2>1
  <2>3. CASE ~IsUpdate(Head(events))
    <3>1. UNCHANGED <<walletCp, walletTxs>>
      BY <1>3, <2>3 DEF TakeEvent, IsUpdate, wallet
    <3> QED BY <2>1, <3>1 DEF WalletIsComplete
  <2>4. CASE IsUpdate(Head(events))
    <3>1. /\ walletCp' = Higher(walletCp, Head(events).cp)
          /\ walletTxs' = walletTxs \cup Head(events).txs
      BY <1>3, <2>4 DEF TakeEvent, IsUpdate
    <3>2. \A h \in relevant : h <= walletCp' =>
            h <= walletCp \/ h <= Head(events).cp
      BY <3>1 DEF Higher
    <3>3. \A h \in relevant : h <= Head(events).cp =>
            h \in walletTxs \cup gaps \/ Brings(events, 1, h)
      BY <2>2, <2>4 DEF OrderInv
    <3>4. \A h \in Blocks : Brings(events, 1, h) => h \in Head(events).txs
      <4>1. \A j \in 1..1 : j = 1
        OBVIOUS
      <4> QED BY <2>2, <4>1 DEF Brings
    <3> QED BY <1>0, <2>1, <3>1, <3>2, <3>3, <3>4 DEF WalletIsComplete
  <2> QED BY <2>3, <2>4
<1> QED BY <1>1, <1>2, <1>3, ProgressKinds

\* The inductive invariant: the promises, and what they rest on.
ScanInv ==
  /\ Types /\ DroppedInv /\ ForwardInv /\ QueueInv /\ RangeInv /\ HandoffInv
  /\ BehindInv /\ OrderInv /\ LostInv /\ CheckpointIsComplete /\ WalletIsComplete

LEMMA ScanInvInit == Init => ScanInv
<1> SUFFICES ASSUME Init PROVE ScanInv
  OBVIOUS
<1>1. Types
  BY TypesInit
<1>2. /\ pc = "idle" /\ scan.mode = "once" /\ watcher # "aborted"
      /\ forwarding = FALSE /\ queue = <<>> /\ onBlock = "none"
      /\ cp = 0 /\ walletCp = 0 /\ found = {} /\ walletTxs = {}
      /\ events = <<>> /\ relevant \subseteq Blocks
  BY DEF Init, NoScan
<1>3. ~Receives
  BY <1>2 DEF Receives
<1>4. DroppedInv /\ ForwardInv
  BY <1>2, <1>3 DEF DroppedInv, ForwardInv
<1>5. QueueInv /\ RangeInv /\ HandoffInv
  BY <1>2, <1>3 DEF QueueInv, RangeInv, HandoffInv
<1>6. Len(events) = 0
  BY <1>2
<1>7. BehindInv /\ OrderInv
  BY <1>2, <1>6 DEF BehindInv, OrderInv
<1>8. LostInv
  BY <1>2, <1>6 DEF LostInv, Arrives, Brings
<1>9. CheckpointIsComplete /\ WalletIsComplete
  <2>1. \A h \in relevant : ~(h <= 0)
    BY <1>2, BoundsAssumption DEF Blocks
  <2> QED BY <1>2, <2>1 DEF CheckpointIsComplete, WalletIsComplete
<1> QED BY <1>1, <1>4, <1>5, <1>7, <1>8, <1>9 DEF ScanInv

LEMMA ScanInvStep == ScanInv /\ Step /\ FlagTypes' => ScanInv'
<1> SUFFICES ASSUME ScanInv, Step, FlagTypes' PROVE ScanInv'
  OBVIOUS
<1> USE DEF ScanInv
<1>1. Types'
  BY ChainStep, ScanStep, PassStep, ChannelStep, CountStep DEF Types
<1>2. CheckpointIsComplete'
  BY CheckpointStep
<1>3. OrderInv'
  BY <1>2, OrderStep
<1>4. DroppedInv' /\ ForwardInv' /\ QueueInv' /\ RangeInv' /\ HandoffInv'
  BY DroppedStep, ForwardStep, QueueStep, RangeStep, HandoffStep
<1>5. BehindInv' /\ LostInv' /\ WalletIsComplete'
  BY BehindStep, LostStep, WalletStep
<1> QED BY <1>1, <1>2, <1>3, <1>4, <1>5

LEMMA ScanInvAlways == Spec => []ScanInv
<1>1. ScanInv /\ [Next]_vars => ScanInv'
  BY StepKinds, FlagStep, ScanInvStep DEF ScanInv, Types
<1> QED BY <1>1, ScanInvInit, PTL DEF Spec

(* The checkpoint is a promise: whatever of the scan was aborted, dropped,   *)
(* refused, or handed over from the filters to the blocks of the sink, all   *)
(* blocks of the wallet's up to it have been applied, save the named gaps.   *)
THEOREM CheckpointPromise == Spec => []CheckpointIsComplete
<1>1. ScanInv => CheckpointIsComplete
  BY DEF ScanInv
<1> QED BY <1>1, ScanInvAlways, PTL

(* The same promise of the wallet the application applies the updates to,    *)
(* whichever of them a dropped client takes with it.                         *)
THEOREM WalletPromise == Spec => []WalletIsComplete
<1>1. ScanInv => WalletIsComplete
  BY DEF ScanInv
<1> QED BY <1>1, ScanInvAlways, PTL

(* While send_event has a sender, the wallet and the updates in the channel  *)
(* together hold what the client has applied.                                *)
THEOREM UpdatesArrive == Spec => []NoUpdateLost
<1>1. ScanInv => NoUpdateLost
  <2> SUFFICES ASSUME ScanInv, eventTx PROVE NoUpdateLost
    BY DEF NoUpdateLost
  <2>1. LostInv /\ Types
    BY DEF ScanInv
  <2>2. /\ events \in Seq(Events) /\ found \subseteq Blocks
        /\ walletTxs \subseteq Blocks
    BY <2>1 DEF Types, PassTypes, ChannelTypes
  <2>3. \A h \in Blocks :
          Brings(events, Len(events), h)
            <=> h \in UNION {u.txs : u \in UpdatesIn(events)}
    <3>1. DOMAIN events = 1..Len(events)
      BY <2>2
    <3> QED BY <3>1 DEF Brings, UpdatesIn, IsUpdate
  <2>4. UNION {u.txs : u \in UpdatesIn(events)} \subseteq Blocks
    <3>1. \A u \in UpdatesIn(events) : u \in Events
      BY <2>2 DEF UpdatesIn
    <3>2. \A u \in UpdatesIn(events) : u.txs \subseteq Blocks
      BY <3>1, EventFields
    <3> QED BY <3>2
  <2>5. found = walletTxs \cup UNION {u.txs : u \in UpdatesIn(events)}
    BY <2>1, <2>2, <2>3, <2>4 DEF LostInv, Arrives
  <2>6. cp = walletCp \/ \E u \in UpdatesIn(events) : u.cp = cp
    <3>1. DOMAIN events = 1..Len(events)
      BY <2>2
    <3> QED BY <2>1, <3>1 DEF LostInv, Arrives, UpdatesIn, IsUpdate
  <2> QED BY <2>5, <2>6 DEF NoUpdateLost
<1> QED BY <1>1, ScanInvAlways, PTL

(* When the application takes Finished, its wallet has all the scanned range *)
(* had for it, and a checkpoint at its end.                                  *)
THEOREM FinishedIsSynced == Spec => []FinishedMeansSynced
<1>1. ScanInv => FinishedMeansSynced
  <2> SUFFICES ASSUME ScanInv, events # <<>>, Head(events).type = "finished"
               PROVE  /\ Head(events).txs \subseteq walletTxs
                      /\ Head(events).cp <= walletCp
    BY DEF FinishedMeansSynced
  <2>1. events \in Seq(Events) /\ OrderInv
    BY DEF ScanInv, Types, ChannelTypes
  <2>2. 1 \in 1..Len(events) /\ Head(events) = events[1]
    BY <2>1
  <2>3. \A j \in 1..1 : ~IsUpdate(events[j])
    <3>1. \A j \in 1..1 : j = 1
      OBVIOUS
    <3> QED BY <2>2, <3>1 DEF IsUpdate
  <2>4. \A h : ~Brings(events, 1, h)
    BY <2>3 DEF Brings
  <2> QED BY <2>1, <2>2, <2>3, <2>4 DEF OrderInv
<1> QED BY <1>1, ScanInvAlways, PTL

=============================================================================
