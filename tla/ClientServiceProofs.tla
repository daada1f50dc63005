-------------------------- MODULE ClientServiceProofs --------------------------
(***************************************************************************)
(* ClientScan implements ClientService: every step of a scan, of the sink, *)
(* of the watcher and of the application is a step the client has promised *)
(* or none at all.                                                         *)
(***************************************************************************)
EXTENDS ClientScanProofs

Tip == Higher(nodeTip, filterTip)

\* What the scan goes by is on the chain: its range has filters, and what
\* comes through the queue has been validated.
ReachInv ==
  /\ stop <= filterTip /\ subTip <= nodeTip /\ cp <= Tip
  /\ \A i \in 1..Len(queue) : queue[i] <= nodeTip

\* What the wallet has, or is on the way to it, the client has found.
CarriedInv ==
  /\ walletTxs \subseteq found
  /\ \A i \in 1..Len(events) : IsUpdate(events[i]) => events[i].txs \subseteq found

LEMMA HigherFacts ==
  ASSUME NEW a \in Nat, NEW b \in Nat
  PROVE  /\ Higher(a, b) \in Nat /\ a <= Higher(a, b) /\ b <= Higher(a, b)
         /\ Higher(a, b) \in {a, b}
BY DEF Higher

LEMMA ReachStep ==
  ASSUME Types, ForwardInv, QueueInv, RangeInv, BehindInv, ReachInv, Step
  PROVE  ReachInv'
<1>0. /\ nodeTip \in Nat /\ filterTip \in Nat /\ stop \in Nat /\ subTip \in Nat
      /\ cp \in Nat /\ walletCp \in Nat /\ scan.from \in Nat
      /\ \A h \in todo : h \in Nat
      /\ queue \in Seq(Blocks) /\ Len(queue) \in Nat
      /\ \A i \in 1..Len(queue) : queue[i] \in Nat
  BY BoundsAssumption
     DEF Types, ChainTypes, ScanTypes, PassTypes, ChannelTypes, Heights, Blocks
<1>a. Tip \in Nat /\ nodeTip <= Tip /\ filterTip <= Tip
  BY <1>0, HigherFacts DEF Tip
<1>b. /\ stop <= filterTip /\ subTip <= nodeTip /\ cp <= Tip
      /\ \A i \in 1..Len(queue) : queue[i] <= nodeTip
  BY DEF ReachInv
<1>1. CASE ValidateBlock \/ StoreFilter
  <2>1. /\ UNCHANGED <<stop, subTip, cp, queue>>
        /\ \/ nodeTip' = nodeTip + 1 /\ filterTip' = filterTip
           \/ nodeTip' = nodeTip /\ filterTip' = filterTip + 1
    BY <1>1 DEF ValidateBlock, StoreFilter, work, sink
  <2>2. Tip <= Tip' /\ nodeTip <= nodeTip' /\ filterTip <= filterTip'
    BY <1>0, <2>1 DEF Tip, Higher
  <2>3. Tip' \in Nat
    BY <1>0, <2>1 DEF Tip, Higher
  <2> QED BY <1>0, <1>a, <1>b, <2>1, <2>2, <2>3 DEF ReachInv
<1>2. CASE OnBlockLooks \/ Aside \/ Moves \/ Starts \/ TakeEvent \/ Match
             \/ ReportStreaming
  <2>1. UNCHANGED <<nodeTip, filterTip, stop, subTip, cp, queue>>
    BY <1>2 DEF OnBlockLooks, Aside, Moves, Starts, StartScan, TakeEvent, Match,
                ReportStreaming, Goes, Quietly, env, work, sink, node, chain
  <2> QED BY <2>1 DEF ReachInv, Tip
<1>3. CASE OnBlockSends
  <2>1. /\ UNCHANGED <<nodeTip, filterTip, stop, subTip, cp>>
        /\ queue' = queue \/ queue' = Append(queue, nodeTip)
    BY <1>3 DEF OnBlockSends, node, chain, work
  <2>2. ASSUME queue' = Append(queue, nodeTip), NEW i \in 1..Len(queue')
        PROVE  queue'[i] <= nodeTip
    BY <1>0, <1>b, <2>2
  <2> QED BY <1>b, <2>1, <2>2 DEF ReachInv, Tip
<1>4. CASE Ends
  <2>1. /\ UNCHANGED <<nodeTip, filterTip, cp>>
        /\ stop' = 0 /\ subTip' = 0 /\ queue' = <<>>
    BY <1>4 DEF Ends, ScanOver, env, node, chain
  <2>2. \A i \in 1..Len(queue') : FALSE
    BY <2>1
  <2> QED BY <1>0, <1>b, <2>1, <2>2 DEF ReachInv, Tip
<1>5. CASE Subscribe
  <2>1. /\ UNCHANGED <<nodeTip, filterTip, cp, stop>> /\ queue' = <<>>
        /\ subTip' \in {nodeTip - 1, nodeTip}
    BY <1>5 DEF Subscribe, Goes, Quietly, env, node, chain
  <2>2. \A i \in 1..Len(queue') : FALSE
    BY <2>1
  <2> QED BY <1>0, <1>b, <2>1, <2>2 DEF ReachInv, Tip
<1>6. CASE Begin
  <2>1. /\ UNCHANGED <<nodeTip, filterTip, cp, subTip, queue>>
        /\ stop' = filterTip
    BY <1>6 DEF Begin, Goes, env, node, chain
  <2> QED BY <1>0, <1>b, <2>1 DEF ReachInv, Tip
<1>7. CASE ApplyBlock
  <2>1. UNCHANGED <<nodeTip, filterTip, stop, subTip, queue>> /\ pc = "apply"
    BY <1>7 DEF ApplyBlock, Goes, env, node, chain
  <2>2. PICK h \in todo : cp' = cp \/ cp' = Higher(cp, h)
    BY <1>7 DEF ApplyBlock
  <2>3. h \in Nat /\ h <= stop
    BY <1>0, <2>1 DEF RangeInv
  <2>4. cp' \in {cp, h}
    BY <1>0, <2>2, <2>3, HigherFacts
  <2>5. cp' <= Tip
    BY <1>0, <1>a, <1>b, <2>3, <2>4
  <2> QED BY <1>b, <2>1, <2>5 DEF ReachInv, Tip
<1>8. CASE FinalCheckpoint
  <2>1. /\ UNCHANGED <<nodeTip, filterTip, stop, subTip, queue>>
        /\ cp' = Higher(cp, stop)
    BY <1>8 DEF FinalCheckpoint, Goes, env, node, chain, work
  <2>2. cp' \in {cp, stop}
    BY <1>0, <2>1, HigherFacts
  <2>3. cp' <= Tip
    BY <1>0, <1>a, <1>b, <2>2
  <2> QED BY <1>b, <2>1, <2>3 DEF ReachInv, Tip
<1>9. CASE StreamBlock
  <2>1. /\ UNCHANGED <<nodeTip, filterTip, stop, subTip>>
        /\ queue # <<>> /\ queue' = Tail(queue) /\ cp' \in {cp, Head(queue)}
    BY <1>9 DEF StreamBlock, Goes, env, node, chain, work
  <2>2. 1 \in 1..Len(queue) /\ Head(queue) = queue[1]
    BY <1>0, <2>1
  <2>3. /\ Len(queue') = Len(queue) - 1
        /\ \A i \in 1..Len(queue') : queue'[i] = queue[i + 1]
    BY <1>0, <2>1, HeadTailProperties
  <2>4. \A i \in 1..Len(queue') : queue'[i] <= nodeTip
    BY <1>0, <1>b, <2>3
  <2>5. cp' <= Tip
    BY <1>0, <1>a, <1>b, <2>1, <2>2
  <2> QED BY <1>b, <2>1, <2>4, <2>5 DEF ReachInv, Tip
<1>10. CASE NewClient
  <2>1. /\ UNCHANGED <<nodeTip, filterTip, stop, subTip, queue>>
        /\ cp' = walletCp /\ walletCp <= cp
    BY <1>10 DEF NewClient, BehindInv, node, chain, work, sink
  <2>2. cp' <= Tip
    BY <1>0, <1>a, <1>b, <2>1
  <2> QED BY <1>b, <2>1, <2>2 DEF ReachInv, Tip
<1> QED BY <1>1, <1>2, <1>3, <1>4, <1>5, <1>6, <1>7, <1>8, <1>9, <1>10 DEF Step

LEMMA CarriedStep ==
  ASSUME Types, CarriedInv, Step
  PROVE  CarriedInv'
<1>0. /\ events \in Seq(Events) /\ Len(events) \in Nat
      /\ found \subseteq Blocks /\ walletTxs \subseteq Blocks
  BY DEF Types, ChannelTypes, PassTypes
<1>1. CASE Progress
  <2>1. walletTxs' = walletTxs
    BY <1>1 DEF Progress
  <2>2. CASE UNCHANGED <<events, found>>
    BY <2>1, <2>2 DEF CarriedInv
  <2>3. ASSUME NEW e \in Events, send_event(e), Adds(e) PROVE CarriedInv'
    <3>1. e.txs \subseteq Blocks
      BY <2>3, EventFields
    <3>2. found \subseteq found' /\ (IsUpdate(e) => e.txs \subseteq found')
      <4>1. CASE \A h \in Blocks : h \in found' <=> h \in found \/ h \in e.txs
        BY <1>0, <3>1, <4>1
      <4>2. CASE e \in {Finished, ErrorEvent} /\ found' = found
        BY <4>2 DEF IsUpdate, Finished, ErrorEvent
      <4> QED BY <2>3, <4>1, <4>2 DEF Adds
    <3>3. /\ ~eventTx => events' = events
          /\ eventTx => /\ Len(events') = Len(events) + 1
                        /\ events'[Len(events) + 1] = e
          /\ \A i \in 1..Len(events) : events'[i] = events[i]
      BY <1>0, <2>3, SendFacts
    <3>4. ASSUME NEW i \in 1..Len(events'), IsUpdate(events'[i])
          PROVE  events'[i].txs \subseteq found'
      <4>1. CASE i \in 1..Len(events)
        BY <3>2, <3>3, <3>4, <4>1 DEF CarriedInv
      <4>2. CASE i \notin 1..Len(events)
        <5>1. eventTx /\ i = Len(events) + 1
          BY <1>0, <3>3, <3>4, <4>2
        <5> QED BY <3>2, <3>3, <3>4, <5>1
      <4> QED BY <4>1, <4>2
    <3> QED BY <2>1, <3>2, <3>4 DEF CarriedInv
  <2> QED BY <1>1, <2>2, <2>3 DEF Progress
<1>2. CASE NewClient
  <2>1. events' = <<>> /\ found' = walletTxs /\ walletTxs' = walletTxs
    BY <1>2 DEF NewClient, wallet
  <2>2. \A i \in 1..Len(events') : FALSE
    BY <2>1
  <2> QED BY <2>1, <2>2 DEF CarriedInv
<1>3. CASE TakeEvent
  <2>1. /\ events # <<>> /\ events' = Tail(events) /\ found' = found
        /\ \/ walletTxs' = walletTxs
           \/ /\ IsUpdate(Head(events))
              /\ walletTxs' = walletTxs \cup Head(events).txs
    BY <1>3 DEF TakeEvent, wallet, IsUpdate
  <2>2. 1 \in 1..Len(events) /\ Head(events) = events[1]
    BY <1>0, <2>1
  <2>3. /\ Len(events') = Len(events) - 1
        /\ \A i \in 1..Len(events') : events'[i] = events[i + 1]
    BY <1>0, <2>1, HeadTailProperties
  <2>4. \A i \in 1..Len(events') : i + 1 \in 1..Len(events)
    BY <1>0, <2>3
  <2> QED BY <2>1, <2>2, <2>3, <2>4 DEF CarriedInv
<1> QED BY <1>1, <1>2, <1>3, ProgressKinds
-----------------------------------------------------------------------------
ServiceInv == ScanInv /\ ReachInv /\ CarriedInv

LEMMA ServiceInvInit == Init => ServiceInv
<1> SUFFICES ASSUME Init PROVE ServiceInv
  OBVIOUS
<1>1. /\ stop = 0 /\ subTip = 0 /\ cp = 0 /\ walletTxs = {}
      /\ nodeTip \in Nat /\ filterTip \in Nat /\ queue = <<>> /\ events = <<>>
  BY BoundsAssumption DEF Init
<1>2. 0 <= Tip
  BY <1>1 DEF Tip, Higher
<1>3. Len(queue) = 0 /\ Len(events) = 0
  BY <1>1
<1> QED BY <1>1, <1>2, <1>3, ScanInvInit DEF ServiceInv, ReachInv, CarriedInv

LEMMA ServiceInvStep == ServiceInv /\ [Next]_vars => ServiceInv' /\ Step
<1> SUFFICES ASSUME ServiceInv, [Next]_vars PROVE ServiceInv' /\ Step
  OBVIOUS
<1>1. Step /\ FlagTypes'
  BY StepKinds, FlagStep DEF ServiceInv, ScanInv, Types
<1> QED BY <1>1, ScanInvStep, ReachStep, CarriedStep DEF ServiceInv, ScanInv

\* What the abstract client sees, and what of it a step may leave alone.
served == <<relevant, Tip, Alive, cp, found, gaps, walletCp, walletTxs>>

LEMMA ServesAdvance ==
  ASSUME ServiceInv, ServiceInv', Alive, UNCHANGED <<relevant, Tip, Alive, gaps, wallet>>,
         cp <= cp', found \subseteq found',
         found' \ found \subseteq relevant \cap 1..cp'
  PROVE  Service!Advance
<1>1. cp' \in Nat /\ cp \in Nat /\ cp' <= Tip /\ Tip \in Nat
  <2>1. cp' \in Heights /\ cp \in Heights /\ nodeTip \in Nat /\ filterTip \in Nat
    BY BoundsAssumption
       DEF ServiceInv, ScanInv, Types, PassTypes, ChainTypes, Heights
  <2>2. cp' <= Tip' /\ Tip' = Tip
    BY DEF ServiceInv, ReachInv
  <2> QED BY <2>1, <2>2, HigherFacts, BoundsAssumption DEF Tip, Heights
<1>2. cp' \in cp..Tip
  BY <1>1
<1>3. Service!Complete(cp, cp', found')
  BY DEF Service!Complete, ServiceInv, ScanInv, CheckpointIsComplete
<1> QED BY <1>2, <1>3 DEF Service!Advance, Tip, wallet, Service!wallet

(* Every step of the client and of what surrounds it is one it has promised, *)
(* or nothing to whom it serves.                                             *)
LEMMA ServesStep ==
  ASSUME ServiceInv, ServiceInv', Step
  PROVE  [Service!Next]_(Service!vars)
<1>0. /\ nodeTip \in Nat /\ filterTip \in Nat /\ cp \in Nat /\ walletCp \in Nat
      /\ gaps \subseteq Blocks /\ gaps' \subseteq Blocks
      /\ Tip \in Nat /\ nodeTip <= Tip /\ filterTip <= Tip
  <2>1. /\ nodeTip \in Nat /\ filterTip \in Nat /\ cp \in Nat /\ walletCp \in Nat
        /\ gaps \subseteq Blocks /\ gaps' \subseteq Blocks
    BY BoundsAssumption
       DEF ServiceInv, ScanInv, Types, PassTypes, ChainTypes, Heights
  <2> QED BY <2>1, HigherFacts DEF Tip
<1>s. UNCHANGED served => [Service!Next]_(Service!vars)
  BY DEF served, Tip, Service!vars, Service!client, Service!wallet
<1>p. pc # "idle" => Alive
  BY DEF ServiceInv, ScanInv, DroppedInv, Alive
<1> USE DEF Service!Next
<1>1. CASE ValidateBlock \/ StoreFilter
  <2>1. /\ UNCHANGED <<relevant, watcher, cp, found, gaps, wallet>>
        /\ \/ nodeTip' = nodeTip + 1 /\ filterTip' = filterTip
           \/ nodeTip' = nodeTip /\ filterTip' = filterTip + 1
    BY <1>1 DEF ValidateBlock, StoreFilter
  <2>2. Tip' = Tip \/ Tip' = Tip + 1
    BY <1>0, <2>1 DEF Tip, Higher
  <2>3. CASE Tip' = Tip
    BY <1>s, <2>1, <2>3 DEF served, Alive, wallet
  <2>4. CASE Tip' = Tip + 1
    <3>1. Service!Grow
      BY <2>1, <2>4 DEF Service!Grow, Service!client, Service!wallet, Tip, Alive,
                        wallet
    <3> QED BY <3>1
  <2> QED BY <2>2, <2>3, <2>4
<1>2. CASE OnBlockLooks \/ OnBlockSends \/ Moves \/ Starts \/ Subscribe \/ Match
             \/ ReportStreaming
  <2>1. UNCHANGED <<relevant, nodeTip, filterTip, watcher, cp, found, gaps, wallet>>
    BY <1>2 DEF OnBlockLooks, OnBlockSends, Moves, Starts, StartScan, Subscribe,
                Match, ReportStreaming, Goes, Quietly, env, node, chain
  <2> QED BY <1>s, <2>1 DEF served, Tip, Alive, wallet
<1>3. CASE Aside
  <2>1. /\ UNCHANGED <<relevant, nodeTip, filterTip, cp, found, gaps, wallet>>
        /\ ~Alive => ~Alive'
    BY <1>3 DEF Aside, chain, Alive
  <2>2. CASE Alive' = Alive
    BY <1>s, <2>1, <2>2 DEF served, Tip, wallet
  <2>3. CASE Alive /\ ~Alive'
    <3>1. Service!Drop
      BY <2>1, <2>3 DEF Service!Drop, Service!wallet, wallet
    <3> QED BY <3>1
  <2> QED BY <2>1, <2>2, <2>3 DEF Alive
<1>4. CASE Ends
  <2>1. /\ UNCHANGED <<relevant, nodeTip, filterTip, watcher, cp, found, wallet>>
        /\ gaps' = gaps \cap 1..cp /\ pc # "idle"
    BY <1>4 DEF Ends, ScanOver, env, node, chain
  <2>2. Service!Declare
    BY <1>p, <2>1 DEF Service!Declare, Service!wallet, Tip, Alive, wallet
  <2> QED BY <2>2
<1>5. CASE Begin
  <2>1. /\ UNCHANGED <<relevant, nodeTip, filterTip, watcher, cp, found, wallet>>
        /\ ScanStart <= filterTip /\ pc # "idle"
        /\ gaps' = gaps \cup (cp + 1)..(ScanStart - 1)
                        \cup (Higher(cp, filterTip) + 1)..subTip
    BY <1>5 DEF Begin, Goes, env, node, chain
  <2>2. /\ ScanStart \in Nat /\ subTip \in Nat /\ subTip <= Tip
        /\ Higher(cp, filterTip) \in Nat /\ cp <= Higher(cp, filterTip)
    <3>1. scan.from \in Nat /\ subTip \in Nat /\ subTip <= nodeTip
      BY BoundsAssumption
         DEF ServiceInv, ReachInv, ScanInv, Types, ScanTypes, Heights
    <3> QED BY <1>0, <3>1, HigherFacts DEF ScanStart
  <2>3. gaps' \ gaps \subseteq (cp + 1)..Tip /\ gaps \subseteq gaps'
    BY <1>0, <2>1, <2>2
  <2>4. Service!Declare
    BY <1>p, <2>1, <2>3 DEF Service!Declare, Service!wallet, Tip, Alive, wallet
  <2> QED BY <2>4
<1>6. CASE ApplyBlock
  <2>1. /\ UNCHANGED <<relevant, nodeTip, filterTip, watcher, gaps, wallet>>
        /\ pc # "idle"
    BY <1>6 DEF ApplyBlock, Goes, env, node, chain
  <2>2. PICK h \in todo :
          IF h \in relevant
          THEN cp' = Higher(cp, h) /\ found' = found \cup {h}
          ELSE cp' = cp /\ found' = found
    BY <1>6 DEF ApplyBlock
  <2>3. CASE h \notin relevant
    BY <1>s, <2>1, <2>2, <2>3 DEF served, Tip, Alive, wallet
  <2>4. CASE h \in relevant
    <3>1. h \in Nat \ {0}
      BY BoundsAssumption DEF ServiceInv, ScanInv, Types, ScanTypes, Blocks
    <3>2. cp <= cp' /\ h <= cp' /\ cp' \in Nat
      BY <1>0, <2>2, <2>4, <3>1, HigherFacts
    <3>3. found' \ found \subseteq relevant \cap 1..cp'
      BY <2>2, <2>4, <3>1, <3>2
    <3>4. Service!Advance
      BY <1>p, <2>1, <2>2, <2>4, <3>2, <3>3, ServesAdvance DEF Tip, Alive
    <3> QED BY <3>4
  <2> QED BY <2>3, <2>4
<1>7. CASE FinalCheckpoint
  <2>1. /\ UNCHANGED <<relevant, nodeTip, filterTip, watcher, gaps, found, wallet>>
        /\ pc # "idle" /\ cp' = Higher(cp, stop) /\ stop \in Nat
    BY <1>7, BoundsAssumption
       DEF FinalCheckpoint, Goes, env, node, chain, ServiceInv, ScanInv, Types,
           ScanTypes, Heights
  <2>2. cp <= cp'
    BY <1>0, <2>1, HigherFacts
  <2>3. Service!Advance
    BY <1>p, <2>1, <2>2, ServesAdvance DEF Tip, Alive
  <2> QED BY <2>3
<1>8. CASE StreamBlock
  <2>1. /\ UNCHANGED <<relevant, nodeTip, filterTip, watcher, gaps, wallet>>
        /\ pc # "idle" /\ queue # <<>>
        /\ \/ cp' = cp /\ found' = found
           \/ /\ ~(Head(queue) <= cp) /\ cp' = Head(queue)
              /\ found' = found \cup ({Head(queue)} \cap relevant)
    BY <1>8 DEF StreamBlock, Goes, env, node, chain
  <2>2. CASE cp' = cp /\ found' = found
    BY <1>s, <2>1, <2>2 DEF served, Tip, Alive, wallet
  <2>3. CASE /\ ~(Head(queue) <= cp) /\ cp' = Head(queue)
             /\ found' = found \cup ({Head(queue)} \cap relevant)
    <3>1. Head(queue) \in Nat \ {0}
      BY <2>1, HeadTailProperties, BoundsAssumption
         DEF ServiceInv, ScanInv, Types, ChannelTypes, Blocks
    <3>2. cp <= cp' /\ found' \ found \subseteq relevant \cap 1..cp'
      BY <1>0, <2>3, <3>1
    <3>3. Service!Advance
      BY <1>p, <2>1, <2>3, <3>2, ServesAdvance DEF Tip, Alive
    <3> QED BY <3>3
  <2> QED BY <2>1, <2>2, <2>3
<1>9. CASE NewClient
  <2>1. Service!Renew
    BY <1>9 DEF NewClient, Service!Renew, Service!wallet, Alive, node, chain, wallet
  <2> QED BY <2>1
<1>10. CASE TakeEvent
  <2>1. /\ UNCHANGED <<relevant, nodeTip, filterTip, watcher, cp, found, gaps>>
        /\ events # <<>>
        /\ \/ UNCHANGED wallet
           \/ /\ IsUpdate(Head(events))
              /\ walletCp' = Higher(walletCp, Head(events).cp)
              /\ walletTxs' = walletTxs \cup Head(events).txs
    BY <1>10 DEF TakeEvent, node, chain, IsUpdate
  <2>2. CASE UNCHANGED wallet
    BY <1>s, <2>1, <2>2 DEF served, Tip, Alive, wallet
  <2>3. CASE /\ IsUpdate(Head(events))
             /\ walletCp' = Higher(walletCp, Head(events).cp)
             /\ walletTxs' = walletTxs \cup Head(events).txs
    <3>1. events \in Seq(Events) /\ 1 \in 1..Len(events) /\ Head(events) = events[1]
      BY <2>1 DEF ServiceInv, ScanInv, Types, ChannelTypes
    <3>2. Head(events) \in Events
      BY <2>1, <3>1, HeadTailProperties
    <3>3. Head(events).cp \in Nat
      BY <3>2, EventFields, BoundsAssumption DEF Heights
    <3>4. walletCp' \in walletCp..cp
      <4>1. walletCp' \in {walletCp, Head(events).cp} /\ walletCp <= walletCp'
        BY <1>0, <2>3, <3>3, HigherFacts
      <4>2. walletCp <= cp /\ Head(events).cp <= cp
        BY <3>1 DEF ServiceInv, ScanInv, BehindInv
      <4> QED BY <1>0, <3>3, <4>1, <4>2
    <3>5. walletTxs' \subseteq found
      BY <2>3, <3>1 DEF ServiceInv, CarriedInv
    <3>6. Service!Complete(walletCp, walletCp', walletTxs')
      BY <2>1 DEF Service!Complete, ServiceInv, ScanInv, WalletIsComplete
    <3>7. Service!Deliver
      BY <2>1, <2>3, <3>4, <3>5, <3>6 DEF Service!Deliver, Service!client, Alive
    <3> QED BY <3>7
  <2> QED BY <2>1, <2>2, <2>3
<1> QED BY <1>1, <1>2, <1>3, <1>4, <1>5, <1>6, <1>7, <1>8, <1>9, <1>10 DEF Step

(* Client: whatever interleaving of scans, cancels, drops, blocks of the     *)
(* sink, shutdowns of the node and new clients there is, the checkpoint and  *)
(* the wallet move as ClientService allows.                                  *)
THEOREM ClientServes == Spec => ImplementsService
<1>1. Init => Service!Init
  <2> SUFFICES ASSUME Init PROVE Service!Init
    OBVIOUS
  <2>1. /\ relevant \subseteq Nat \ {0} /\ nodeTip \in Nat /\ filterTip \in Nat
        /\ watcher # "aborted"
    BY BoundsAssumption DEF Init, Blocks
  <2>2. Higher(nodeTip, filterTip) \in Nat
    BY <2>1, HigherFacts
  <2> QED BY <2>1, <2>2 DEF Init, Service!Init, Alive
<1>2. ServiceInv /\ ServiceInv' /\ [Next]_vars => [Service!Next]_(Service!vars)
  BY ServiceInvStep, ServesStep
<1>3. ServiceInv /\ [Next]_vars => ServiceInv'
  BY ServiceInvStep
<1> QED BY <1>1, <1>2, <1>3, ServiceInvInit, PTL
           DEF Spec, ImplementsService, Service!Spec
================================================================================
