----------------------------- MODULE SessionProofs -----------------------------
(***************************************************************************)
(* What holds of Session: its scan keeps the promises of ClientScan, and a *)
(* stop() that returns leaves nothing of the scan behind.                  *)
(***************************************************************************)
EXTENDS Session, ClientScanProofs

\* A client that was dropped has its token cancelled.
DroppedToken == ~Alive => clientToken

(* Every step of the program is one of the client's or none: to repeat a     *)
(* cancel, also after the client is gone, changes nothing.                   *)
LEMMA SessionSteps == DroppedToken /\ [SessionNext]_allVars => [Next]_vars
<1> SUFFICES ASSUME DroppedToken, [SessionNext]_allVars PROVE [Next]_vars
  OBVIOUS
<1>1. CASE ScanProceeds
  BY <1>1 DEF ScanProceeds, Next
<1>2. CASE UseDirectly \/ Spawn \/ TaskEnds \/ TaskAborts \/ ListenerTakes
  <2>1. \A m \in Modes : [kind |-> "FullScan", from |-> 0, mode |-> m] \in Params
    BY DEF Params
  <2>2. Application
    BY <1>2, <2>1 DEF UseDirectly, Spawn, TaskEnds, TaskAborts, ListenerTakes,
                      Application
  <2> QED BY <2>2 DEF Next
<1>3. CASE Cancel \/ Stop \/ StopReturnsAtOnce \/ DropHandle
  <2>1. CancelsToken
    BY <1>3 DEF Cancel, Stop, StopReturnsAtOnce, DropHandle
  <2>2. CASE clientToken
    <3>1. UNCHANGED vars
      BY <2>1, <2>2 DEF CancelsToken, vars
    <3> QED BY <3>1
  <2>3. CASE ~clientToken
    <3>1. UserCancels
      BY <2>1, <2>3 DEF CancelsToken, UserCancels, DroppedToken
    <3> QED BY <3>1 DEF Next, Application
  <2> QED BY <2>2, <2>3
<1>4. CASE ShutDownNode
  BY <1>4 DEF ShutDownNode, Next, Node
<1>5. CASE \/ Join \/ JoinReturns \/ GiveUpJoin \/ StopReturns \/ GiveUpStop
           \/ ListenerEnds \/ Leave \/ Drained \/ Exit \/ UNCHANGED allVars
  <2>1. UNCHANGED vars
    BY <1>5 DEF Join, JoinReturns, GiveUpJoin, StopReturns, GiveUpStop,
                ListenerEnds, Leave, Drained, Exit, allVars
  <2> QED BY <2>1
<1> QED BY <1>1, <1>2, <1>3, <1>4, <1>5 DEF SessionNext, Listener

LEMMA DroppedTokenStep == FlagTypes /\ DroppedToken /\ [Next]_vars => DroppedToken'
<1> SUFFICES ASSUME FlagTypes, DroppedToken, [Next]_vars PROVE DroppedToken'
  OBVIOUS
<1> USE DEF DroppedToken, Alive, FlagTypes
<1>1. CASE UNCHANGED <<watcher, clientToken>>
  BY <1>1
<1>2. CASE Node
  BY <1>1, <1>2 DEF Node, ValidateBlock, StoreFilter, OnBlockLooks,
                    OnBlockSends, Poll, NodeCloses, Publish, NodeCancels
<1>3. CASE Watcher
  BY <1>3 DEF Watcher, WatcherCancels, WatcherCloses
<1>4. CASE Wait
  BY <1>1, <1>4 DEF Wait, WaitLooks, WaitFails, WaitWakes, WaitAborted, Goes,
                    ScanOver, env
<1>5. CASE Scan
  BY <1>1, <1>5 DEF Scan, Subscribe, Begin, RangeInvalid, Match, MatchRefused,
                    ScanAborted, ApplyBlock, FinalCheckpoint, ReportDone,
                    ReportStreaming, ReportError, Goes, ScanOver, env
<1>6. CASE Fetch \/ NodeCallFails \/ Stream
  BY <1>1, <1>6 DEF Fetch, NodeCallFails, Stream, StreamCancelled, StreamBlock,
                    Goes, ScanOver, env
<1>7. CASE Application
  BY <1>1, <1>7 DEF Application, StartScan, UserCancels, DropScan, DropClient,
                    NewClient, TakeEvent, ScanOver, env
<1>8. CASE UNCHANGED vars
  BY <1>1, <1>8 DEF vars
<1> QED BY <1>2, <1>3, <1>4, <1>5, <1>6, <1>7, <1>8 DEF Next

\* What holds of the client, here as there.
ClientInv == ScanInv /\ DroppedToken

LEMMA ClientInvInit == SessionInit => ClientInv
BY ScanInvInit DEF SessionInit, Init, ClientInv, DroppedToken, Alive

LEMMA ClientInvStep ==
  ClientInv /\ [SessionNext]_allVars => ClientInv' /\ [Next]_vars /\ Step
BY SessionSteps, DroppedTokenStep, StepKinds, FlagStep, ScanInvStep
   DEF ClientInv, ScanInv, Types

(* A program that moves its client into a task, cancels, stops, aborts and   *)
(* drops that task, and ends its event loop, does with the client nothing    *)
(* that ClientScan's application might not do.                               *)
THEOREM SessionIsClientScan == SessionSpec => ImplementsClientScan
<1>1. SessionInit => Init
  BY DEF SessionInit
<1> QED BY <1>1, ClientInvInit, ClientInvStep, PTL
           DEF SessionSpec, ImplementsClientScan, Spec

(* So the promises of the client hold in such a program.                     *)
THEOREM SessionKeepsPromises ==
  SessionSpec => [](CheckpointIsComplete /\ WalletIsComplete)
<1> QED BY SessionIsClientScan, CheckpointPromise, WalletPromise, PTL
           DEF ImplementsClientScan

-----------------------------------------------------------------------------
SessionTypes ==
  /\ task \in {"none", "running", "over"} /\ aborted \in BOOLEAN
  /\ inner \in {"none", "held", "moved"} /\ call \in {"none", "join", "stop"}
  /\ main \in {"starting", "using", "leaving", "draining", "closing", "exited",
               "gone"}
  /\ listener \in {"running", "over"} /\ detached \in BOOLEAN

LEMMA SessionTypesStep ==
  SessionTypes /\ [SessionNext]_allVars => SessionTypes'
<1> SUFFICES ASSUME SessionTypes, [SessionNext]_allVars PROVE SessionTypes'
  OBVIOUS
<1> USE DEF SessionTypes
<1>1. CASE ScanProceeds \/ UseDirectly \/ TaskAborts \/ Cancel \/ ShutDownNode
             \/ UNCHANGED allVars
  BY <1>1 DEF ScanProceeds, UseDirectly, TaskAborts, Cancel, ShutDownNode,
              allVars, session, handle
<1>2. CASE Spawn \/ TaskEnds
  BY <1>2 DEF Spawn, TaskEnds, handle
<1>3. CASE Join \/ JoinReturns \/ GiveUpJoin \/ Stop \/ StopReturns \/ GiveUpStop
  BY <1>3 DEF Join, JoinReturns, GiveUpJoin, Stop, StopReturns, GiveUpStop
<1>4. CASE StopReturnsAtOnce \/ Listener \/ Leave \/ Drained \/ Exit
  BY <1>4 DEF StopReturnsAtOnce, Listener, ListenerTakes, ListenerEnds, Leave,
              Drained, Exit, handle
<1>5. CASE DropHandle
  <2>1. aborted' = (inner = "held")
    BY <1>5 DEF DropHandle
  <2>2. (inner = "held") \in BOOLEAN
    OBVIOUS
  <2>3. aborted' \in BOOLEAN
    BY <2>1, <2>2, Zenon
  <2> QED BY <1>5, <2>3 DEF DropHandle
<1> QED BY <1>1, <1>2, <1>3, <1>4, <1>5 DEF SessionNext

\* Main has the JoinHandle of a running task, or awaits it in stop(), unless
\* it gave up on that; and a task that is over has dropped its client.
HandleInv ==
  /\ task = "over" => watcher = "aborted" /\ ~eventTx
  /\ main # "starting" => task # "none"
  /\ task = "running" /\ main \in {"using", "leaving"} /\ ~detached =>
       inner = "held" \/ call = "stop"
  /\ main \in {"draining", "closing", "exited"} /\ ~detached => task = "over"

\* A task that is over has no client left to start another scan with.
LEMMA HandleStep ==
  /\ SessionTypes /\ HandleInv /\ DroppedInv /\ [SessionNext]_allVars
  => HandleInv'
<1> SUFFICES ASSUME SessionTypes, HandleInv, DroppedInv, [SessionNext]_allVars
             PROVE  HandleInv'
  OBVIOUS
<1> USE DEF HandleInv, SessionTypes
<1>a. CASE /\ UNCHANGED session
           /\ watcher = "aborted" /\ ~eventTx => watcher' = "aborted" /\ ~eventTx'
  BY <1>a DEF session, handle
<1>1. CASE ScanProceeds
  <2>1. watcher = "aborted" /\ ~eventTx => watcher' = "aborted" /\ ~eventTx'
    <3>1. CASE Node
      BY <3>1 DEF Node, ValidateBlock, StoreFilter, OnBlockLooks, OnBlockSends,
                  Poll, NodeCloses, Publish, NodeCancels
    <3>2. CASE Watcher
      BY <3>2 DEF Watcher, WatcherCancels, WatcherCloses
    <3>3. CASE Wait
      BY <3>3 DEF Wait, WaitLooks, WaitFails, WaitWakes, WaitAborted, Goes,
                  ScanOver, env
    <3>4. CASE Scan
      BY <3>4 DEF Scan, Subscribe, Begin, RangeInvalid, Match, MatchRefused,
                  ScanAborted, ApplyBlock, FinalCheckpoint, ReportDone,
                  ReportStreaming, ReportError, Goes, ScanOver, env
    <3>5. CASE Fetch \/ NodeCallFails \/ Stream
      BY <3>5 DEF Fetch, NodeCallFails, Stream, StreamCancelled, StreamBlock,
                  Goes, ScanOver, env
    <3> QED BY <1>1, <3>1, <3>2, <3>3, <3>4, <3>5 DEF ScanProceeds
  <2> QED BY <1>1, <1>a, <2>1 DEF ScanProceeds
<1>2. CASE UseDirectly
  BY <1>2 DEF UseDirectly, session, handle
<1>3. CASE TaskAborts
  BY <1>3, <1>a DEF TaskAborts, DropScan, ScanOver, env
<1>4. CASE Spawn
  BY <1>4 DEF Spawn
<1>5. CASE TaskEnds
  BY <1>5 DEF TaskEnds, DropClient, handle
<1>6. CASE Cancel \/ ShutDownNode
  BY <1>6, <1>a DEF Cancel, CancelsToken, ShutDownNode, NodeCancels, NodeCloses,
                    Publish
<1>7. CASE Join \/ GiveUpJoin \/ JoinReturns
  BY <1>7 DEF Join, GiveUpJoin, JoinReturns, vars
<1>8. CASE Stop \/ StopReturnsAtOnce \/ DropHandle
  BY <1>8 DEF Stop, StopReturnsAtOnce, DropHandle, CancelsToken, handle
<1>9. CASE StopReturns \/ GiveUpStop
  BY <1>9 DEF StopReturns, GiveUpStop, vars
<1>10. CASE Listener
  BY <1>10 DEF Listener, ListenerTakes, ListenerEnds, TakeEvent, handle, vars
<1>11. CASE Leave \/ Drained \/ Exit \/ UNCHANGED allVars
  BY <1>11, <1>a DEF Leave, Drained, Exit, allVars, vars, handle, session
<1> QED BY <1>1, <1>2, <1>3, <1>4, <1>5, <1>6, <1>7, <1>8, <1>9, <1>10, <1>11
           DEF SessionNext

(* ScanHandle::stop: when it has returned, however many joins were given up  *)
(* before it, the task is over and its client dropped, the sink is quiet and *)
(* the event channel closed.                                                 *)
THEOREM StopEndsScan == SessionSpec => []StoppedIsOver
<1> DEFINE Inv == ClientInv /\ SessionTypes /\ HandleInv
<1>1. SessionInit => Inv
  BY ClientInvInit DEF SessionInit, SessionTypes, HandleInv
<1>2. Inv /\ [SessionNext]_allVars => Inv'
  BY ClientInvStep, SessionTypesStep, HandleStep DEF ClientInv, ScanInv
<1>3. Inv => StoppedIsOver
  BY DEF ClientInv, ScanInv, HandleInv, DroppedInv, ForwardInv, Receives,
         StoppedIsOver
<1> HIDE DEF Inv
<1> QED BY <1>1, <1>2, <1>3, PTL DEF SessionSpec

(* The handle, the task, main and the event loop keep to their types, and so *)
(* does everything of the client they share.                                 *)
THEOREM SessionTypeCorrect == SessionSpec => []SessionTypeOK
<1>1. SessionInit => SessionTypes
  BY DEF SessionInit, SessionTypes
<1>2. SessionTypes /\ TypeOK => SessionTypeOK
  BY DEF SessionTypes, SessionTypeOK
<1> QED BY <1>1, <1>2, SessionTypesStep, SessionIsClientScan, ScanTypeCorrect, PTL
           DEF SessionSpec, ImplementsClientScan

-----------------------------------------------------------------------------
\* Without a shutdown of the node, the channel closes when the client goes.
TokenInv ==
  ~nodeToken => /\ watcher \in {"waiting", "aborted"}
                /\ ~eventTx => watcher = "aborted"

\* What no step of the program does: make a second client, take back the
\* node's token, end the event loop but as it ends itself.
Frame ==
  /\ clients' = clients
  /\ nodeToken => nodeToken'
  /\ TokenInv => TokenInv'
  /\ listener' = listener \/ ListenerTakes \/ ListenerEnds

LEMMA FrameStep == SessionTypes /\ Types /\ [SessionNext]_allVars => Frame
<1> SUFFICES ASSUME SessionTypes, Types, [SessionNext]_allVars PROVE Frame
  OBVIOUS
<1> USE DEF Frame, TokenInv, Types, FlagTypes
<1>a. CASE /\ UNCHANGED <<clients, nodeToken, watcher, eventTx, listener>>
  BY <1>a
<1>1. CASE ScanProceeds
  <2>0. listener' = listener
    BY <1>1 DEF ScanProceeds, session
  <2>1. CASE Node
    BY <2>0, <2>1 DEF Node, ValidateBlock, StoreFilter, OnBlockLooks,
                      OnBlockSends, Poll, NodeCloses, Publish, NodeCancels, node
  <2>2. CASE Watcher
    BY <2>0, <2>2 DEF Watcher, WatcherCancels, WatcherCloses, node
  <2>3. CASE Wait
    BY <1>a, <2>0, <2>3 DEF Wait, WaitLooks, WaitFails, WaitWakes, WaitAborted,
                            Goes, ScanOver, env, node
  <2>4. CASE Scan
    BY <1>a, <2>0, <2>4
       DEF Scan, Subscribe, Begin, RangeInvalid, Match, MatchRefused,
           ScanAborted, ApplyBlock, FinalCheckpoint, ReportDone,
           ReportStreaming, ReportError, Goes, ScanOver, env, node
  <2>5. CASE Fetch \/ NodeCallFails \/ Stream
    BY <1>a, <2>0, <2>5 DEF Fetch, NodeCallFails, Stream, StreamCancelled,
                            StreamBlock, Goes, ScanOver, env, node
  <2> QED BY <1>1, <2>1, <2>2, <2>3, <2>4, <2>5 DEF ScanProceeds
<1>2. CASE UseDirectly \/ Spawn \/ TaskEnds
  <2>0. listener' = listener
    BY <1>2 DEF UseDirectly, Spawn, TaskEnds, session
  <2>1. (\E p : StartScan(p)) \/ UserCancels \/ DropScan \/ DropClient
    BY <1>2 DEF UseDirectly, Spawn, TaskEnds
  <2> QED BY <2>0, <2>1 DEF StartScan, UserCancels, DropScan, DropClient,
                            ScanOver, env, node
<1>3. CASE TaskAborts
  BY <1>a, <1>3 DEF TaskAborts, DropScan, ScanOver, env, node, session
<1>4. CASE ShutDownNode
  BY <1>4 DEF ShutDownNode, NodeCancels, NodeCloses, Publish, session
<1>5. CASE Cancel \/ Stop \/ StopReturnsAtOnce \/ DropHandle
  BY <1>a, <1>5 DEF Cancel, Stop, StopReturnsAtOnce, DropHandle, CancelsToken,
                    node, session
<1>6. CASE ListenerTakes
  BY <1>6 DEF ListenerTakes, TakeEvent, node
<1>7. CASE ListenerEnds
  BY <1>7 DEF ListenerEnds, vars, node
<1>8. CASE \/ Join \/ JoinReturns \/ GiveUpJoin \/ StopReturns \/ GiveUpStop
           \/ Leave \/ Drained \/ Exit \/ UNCHANGED allVars
  BY <1>a, <1>8 DEF Join, JoinReturns, GiveUpJoin, StopReturns, GiveUpStop,
                    Leave, Drained, Exit, allVars, vars, node, session
<1> QED BY <1>1, <1>2, <1>3, <1>4, <1>5, <1>6, <1>7, <1>8
           DEF SessionNext, Listener

(* Between two scans nothing is applied and nothing is sent.                 *)
LEMMA IdleKeeps ==
  ASSUME Types, Step, pc = "idle", clients' = clients
  PROVE  \/ TakeEvent /\ UNCHANGED <<pc, scans>>
         \/ /\ UNCHANGED <<events, cp, found, walletCp, walletTxs>>
            /\ \/ UNCHANGED <<pc, scans>>
               \/ Starts /\ pc' = "look" /\ scans' = scans + 1
<1>1. CASE ValidateBlock \/ StoreFilter \/ OnBlockLooks \/ OnBlockSends
  BY <1>1 DEF ValidateBlock, StoreFilter, OnBlockLooks, OnBlockSends, wallet
<1>2. CASE Aside
  BY <1>2 DEF Aside, wallet
<1>3. CASE Ends
  BY <1>3 DEF Ends, ScanOver, env, wallet
<1>4. CASE Starts
  BY <1>4 DEF Starts, StartScan, wallet
<1>5. CASE TakeEvent
  BY <1>5 DEF TakeEvent
<1>6. CASE NewClient
  BY <1>6 DEF NewClient, Types, CountTypes
<1>7. CASE \/ Moves \/ Subscribe \/ Begin \/ Match \/ ApplyBlock
           \/ FinalCheckpoint \/ ReportStreaming \/ StreamBlock
  BY <1>7 DEF Moves, Subscribe, Begin, Match, ApplyBlock, FinalCheckpoint,
              ReportStreaming, StreamBlock, Goes
<1> QED BY <1>1, <1>2, <1>3, <1>4, <1>5, <1>6, <1>7 DEF Step

(* A scan is counted when it starts.                                         *)
LEMMA ScansCount ==
  ASSUME Types, Step, clients' = clients
  PROVE  /\ pc # "idle" => scans' = scans
         /\ scans' = scans \/ scans' = scans + 1
<1>1. CASE pc = "idle"
  BY <1>1, IdleKeeps
<1>2. CASE pc # "idle"
  BY <1>2 DEF Step, ValidateBlock, StoreFilter, OnBlockLooks, OnBlockSends,
              Aside, Moves, Ends, Subscribe, Begin, Match, ApplyBlock,
              FinalCheckpoint, ReportStreaming, StreamBlock, Starts,
              StartScan, NewClient, TakeEvent, Goes, ScanOver, env
<1> QED BY <1>1, <1>2

\* Unless the node was shut down, what the client has arrives, also after the
\* client is gone.
KeptInv == ~nodeToken => Arrives

LEMMA KeptStep ==
  /\ ScanInv /\ TokenInv /\ KeptInv /\ Frame /\ Step /\ LostInv' /\ TokenInv'
  => KeptInv'
<1> SUFFICES ASSUME ScanInv, TokenInv, KeptInv, Frame, Step, LostInv',
                    TokenInv', ~nodeToken'
             PROVE  Arrives'
  BY DEF KeptInv
<1>0. /\ Types /\ BehindInv /\ LostInv /\ DroppedInv
      /\ ~nodeToken /\ Arrives /\ clients' = clients
  BY DEF ScanInv, Frame, KeptInv
<1>1. CASE eventTx'
  BY <1>1 DEF LostInv
<1>2. CASE TakeEvent
  BY <1>0, <1>2, TakeArrives
<1>3. CASE ~TakeEvent /\ ~eventTx' /\ eventTx
  <2>1. Progress
    BY <1>0, <1>3, ProgressKinds DEF NewClient
  <2>2. UNCHANGED <<events, cp, found, walletCp, walletTxs>>
    BY <1>3, <2>1 DEF Progress
  <2> QED BY <1>0, <2>2 DEF Arrives, Brings
<1>4. CASE ~TakeEvent /\ ~eventTx
  <2>1. pc = "idle"
    BY <1>0, <1>4 DEF TokenInv, DroppedInv
  <2>2. UNCHANGED <<events, cp, found, walletCp, walletTxs>>
    BY <1>0, <1>4, <2>1, IdleKeeps
  <2> QED BY <1>0, <2>2 DEF Arrives, Brings
<1> QED BY <1>1, <1>2, <1>3, <1>4

\* As long as main scans but once, an error is the last thing it is told.
ErrorInv ==
  scans <= 1 =>
    /\ pc # "idle" => scans = 1
    /\ \A i \in 1..Len(events) :
         events[i].type = "error" =>
           i = Len(events) /\ pc = "idle" /\ scans = 1

LEMMA ErrorStep ==
  ASSUME Types, ErrorInv, Step, clients' = clients
  PROVE  ErrorInv'
<1> SUFFICES ASSUME scans' <= 1 PROVE ErrorInv'
  BY DEF ErrorInv
<1>0. /\ events \in Seq(Events) /\ Len(events) \in Nat
      /\ scans \in Nat /\ stop \in Heights
  BY BoundsAssumption DEF Types, ChannelTypes, CountTypes, ScanTypes
<1>1. CASE pc = "idle"
  <2>1. CASE UNCHANGED <<events, pc, scans>>
    BY <2>1 DEF ErrorInv
  <2>2. CASE /\ UNCHANGED events
             /\ pc' = "look" /\ scans' = scans + 1
    <3>1. scans = 0 /\ scans' = 1
      BY <1>0, <2>2
    <3>2. \A i \in 1..Len(events) : events[i].type # "error"
      BY <3>1 DEF ErrorInv
    <3> QED BY <2>2, <3>1, <3>2 DEF ErrorInv
  <2>3. CASE TakeEvent /\ UNCHANGED <<pc, scans>>
    <3>1. events # <<>> /\ events' = Tail(events)
      BY <2>3 DEF TakeEvent
    <3>2. /\ Len(events') = Len(events) - 1
          /\ \A i \in 1..Len(events') : events'[i] = events[i + 1]
      BY <1>0, <3>1, HeadTailProperties
    <3>3. \A i \in 1..Len(events') : i + 1 \in 1..Len(events)
      BY <1>0, <3>2
    <3> QED BY <1>0, <1>1, <2>3, <3>2, <3>3 DEF ErrorInv
  <2> QED BY <1>1, <2>1, <2>2, <2>3, IdleKeeps
<1>2. CASE pc # "idle"
  <2>1. scans' = scans
    BY <1>2, ScansCount
  <2>2. scans = 1 /\ \A i \in 1..Len(events) : events[i].type # "error"
    BY <1>0, <1>2, <2>1 DEF ErrorInv
  <2>3. CASE UNCHANGED events
    BY <2>1, <2>2, <2>3 DEF ErrorInv
  <2>4. ASSUME NEW e \in Events, send_event(e),
               e.type = "error" => pc' = "idle"
        PROVE  ErrorInv'
    <3>1. /\ ~eventTx => events' = events
          /\ eventTx => /\ Len(events') = Len(events) + 1
                        /\ events'[Len(events) + 1] = e
          /\ \A i \in 1..Len(events) : events'[i] = events[i]
      BY <1>0, <2>4, SendFacts
    <3>2. CASE eventTx
      <4>1. \A i \in 1..Len(events') :
              i \in 1..Len(events) \/ i = Len(events) + 1
        BY <1>0, <3>1, <3>2
      <4> QED BY <2>1, <2>2, <2>4, <3>1, <3>2, <4>1 DEF ErrorInv
    <3>3. CASE ~eventTx
      BY <2>1, <2>2, <3>1, <3>3 DEF ErrorInv
    <3> QED BY <3>2, <3>3
  <2>5. CASE TakeEvent
    <3>1. events # <<>> /\ events' = Tail(events) /\ pc' = pc
      BY <2>5 DEF TakeEvent
    <3>2. /\ Len(events') = Len(events) - 1
          /\ \A i \in 1..Len(events') : events'[i] = events[i + 1]
      BY <1>0, <3>1, HeadTailProperties
    <3>3. \A i \in 1..Len(events') : i + 1 \in 1..Len(events)
      BY <1>0, <3>2
    <3> QED BY <2>1, <2>2, <3>1, <3>2, <3>3 DEF ErrorInv
  <2>6. CASE Progress
    <3>1. ASSUME NEW e \in Events, send_event(e), Adds(e)
          PROVE  ErrorInv'
      <4>1. e.type = "error" => pc' = "idle"
        BY <3>1 DEF Adds, IsUpdate, Finished
      <4> QED BY <2>4, <3>1, <4>1
    <3> QED BY <2>3, <2>6, <3>1 DEF Progress
  <2>7. CASE NewClient
    BY <2>7 DEF NewClient, Types, CountTypes
  <2> QED BY <2>5, <2>6, <2>7, ProgressKinds
<1> QED BY <1>1, <1>2

\* The event loop ends with an error, or with a channel that is closed and
\* empty; either way there is nothing more to come.
ListenInv ==
  scans <= 1 /\ listener = "over" /\ ~nodeToken =>
    events = <<>> /\ pc = "idle" /\ (scans = 1 \/ ~eventTx)

LEMMA ListenStep ==
  ASSUME ScanInv, TokenInv, ErrorInv, ListenInv, Frame, Step
  PROVE  ListenInv'
<1> SUFFICES ASSUME scans' <= 1, listener' = "over", ~nodeToken'
             PROVE  events' = <<>> /\ pc' = "idle" /\ (scans' = 1 \/ ~eventTx')
  BY DEF ListenInv
<1>0. /\ Types /\ DroppedInv /\ ~nodeToken /\ clients' = clients
      /\ events \in Seq(Events) /\ Len(events) \in Nat /\ scans \in Nat
  BY BoundsAssumption
     DEF ScanInv, Frame, Types, ChannelTypes, CountTypes
<1>1. CASE ListenerEnds
  BY <1>0, <1>1 DEF ListenerEnds, TokenInv, DroppedInv, vars
<1>2. CASE ListenerTakes
  <2>1. /\ TakeEvent /\ Head(events).type = "error" /\ scans' = scans
        /\ events # <<>> /\ events' = Tail(events) /\ pc' = pc
    BY <1>2 DEF ListenerTakes, TakeEvent
  <2>2. 1 \in 1..Len(events) /\ Head(events) = events[1]
    BY <1>0, <2>1
  <2>3. Len(events) = 1 /\ pc = "idle" /\ scans = 1
    BY <2>1, <2>2 DEF ErrorInv
  <2>4. events' \in Seq(Events) /\ Len(events') = 0
    BY <1>0, <2>1, <2>3, HeadTailProperties
  <2>5. events' = <<>>
    BY <2>4, EmptySeq
  <2> QED BY <2>1, <2>3, <2>5
<1>3. CASE listener' = listener /\ ~ListenerTakes
  <2>1. scans <= 1
    BY <1>0, ScansCount
  <2>2. events = <<>> /\ pc = "idle" /\ (scans = 1 \/ ~eventTx)
    BY <1>0, <1>3, <2>1 DEF ListenInv
  <2>3. ~TakeEvent
    BY <2>2 DEF TakeEvent
  <2>4. ~(Starts /\ scans' = scans + 1)
    <3>1. CASE scans = 1
      BY <3>1
    <3>2. CASE ~eventTx
      BY <1>0, <3>2 DEF TokenInv, Starts, StartScan, Alive
    <3> QED BY <2>2, <3>1, <3>2
  <2>5. UNCHANGED <<events, pc, scans>>
    BY <1>0, <2>2, <2>3, <2>4, IdleKeeps
  <2>6. ~eventTx => ~eventTx'
    <3>1. Progress
      BY <1>0, <2>3, ProgressKinds DEF NewClient, Types, CountTypes
    <3> QED BY <3>1 DEF Progress
  <2> QED BY <2>2, <2>5, <2>6
<1> QED BY <1>1, <1>2, <1>3 DEF Frame

(* The event loop of the examples, which ends with the channel or with an    *)
(* error, has by then applied all that the client had for the wallet, unless *)
(* the node's shutdown closed the channel under the scan.                    *)
THEOREM DrainCatchesUp == SessionSpec => []DrainedIsCaughtUp
<1> DEFINE Inv == /\ ClientInv /\ SessionTypes /\ TokenInv /\ KeptInv
                  /\ ErrorInv /\ ListenInv
<1>1. SessionInit => Inv
  <2> SUFFICES ASSUME SessionInit PROVE Inv
    OBVIOUS
  <2>1. ClientInv /\ ScanInv /\ SessionTypes
    BY ClientInvInit DEF ClientInv, SessionInit, SessionTypes
  <2>2. /\ ~nodeToken /\ watcher = "waiting" /\ eventTx /\ events = <<>>
        /\ pc = "idle" /\ listener = "running"
    BY DEF SessionInit, Init
  <2>3. TokenInv /\ ErrorInv /\ ListenInv
    BY <2>2 DEF TokenInv, ErrorInv, ListenInv
  <2>4. KeptInv
    BY <2>1, <2>2 DEF KeptInv, ScanInv, LostInv
  <2> QED BY <2>1, <2>3, <2>4
<1>2. Inv /\ [SessionNext]_allVars => Inv'
  <2> SUFFICES ASSUME Inv, [SessionNext]_allVars PROVE Inv'
    OBVIOUS
  <2>1. Step /\ Types /\ ScanInv
    BY ClientInvStep DEF ClientInv, ScanInv
  <2>2. ClientInv' /\ ScanInv' /\ SessionTypes'
    BY ClientInvStep, SessionTypesStep DEF ClientInv
  <2>3. Frame /\ clients' = clients /\ TokenInv'
    BY <2>1, FrameStep DEF Frame
  <2>4. KeptInv'
    BY <2>1, <2>2, <2>3, KeptStep DEF ScanInv
  <2>5. ErrorInv' /\ ListenInv'
    BY <2>1, <2>3, ErrorStep, ListenStep
  <2> QED BY <2>2, <2>3, <2>4, <2>5
<1>3. Inv => DrainedIsCaughtUp
  <2> SUFFICES ASSUME Inv, listener = "over", ~nodeToken, scans <= 1
               PROVE  walletCp = cp /\ walletTxs = found
    BY DEF DrainedIsCaughtUp
  <2>1. events = <<>> /\ Arrives /\ Types
    BY DEF ListenInv, KeptInv, ClientInv, ScanInv
  <2>2. Len(events) = 0
    BY <2>1
  <2>3. \A h \in Blocks : h \in found <=> h \in walletTxs
    BY <2>1, <2>2 DEF Arrives, Brings
  <2>4. found \subseteq Blocks /\ walletTxs \subseteq Blocks
    BY <2>1 DEF Types, PassTypes
  <2> QED BY <2>1, <2>2, <2>3, <2>4 DEF Arrives
<1> HIDE DEF Inv
<1> QED BY <1>1, <1>2, <1>3, PTL DEF SessionSpec
================================================================================
