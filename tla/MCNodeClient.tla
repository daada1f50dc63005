------------------------------ MODULE MCNodeClient ------------------------------
(* TLC instance of NodeClient.  One block concerns the wallet: the one the   *)
(* node has from the start, and then the chain stays as it is and nothing    *)
(* else of the tasks is bounded; or the one after it, and then the chain     *)
(* grows and TLC leaves out what the two modules' own runs explore already.  *)
EXTENDS NodeClient

MCInit ==
  /\ NodeClientInit
  /\ relevant \in {{StartHeight}, {MaxHeight}} /\ noise = {}

\* Bounds: the application asks for one Sync, leaves cancelling to the node and
\* does not drop the client; nothing overtakes run().
MCCalm ==
  /\ scan.kind = "Sync" /\ Alive /\ (clientToken => nodeToken)
  /\ runPc # "returned" => /\ chainTip = StartHeight /\ nodeTip = StartHeight
                           /\ ~nodeToken /\ closer \in {"off", "wait"}

Rounds == {"peers", "chain", "node", "filter", "publish"}

\* Bounds where the chain grows: no flush before the shutdown task, peers and
\* an inner node that are there, at most one event that nobody has received, a
\* shutdown task that leaves alone a scan that waits for the node, and no round
\* of the updater before run() has returned, beside a scan that has read where
\* to stop, or (but for a publication that is late) beside the shutdown task.
MCGrows ==
  /\ closer \in {"off", "wait"} => flushed = StartHeight /\ nodeTask # "ended"
  /\ updater \in {"node", "filter", "publish"} => wireReady
  /\ Len(events) <= 1
  /\ closer \notin {"off", "wait"} => pc \notin {"look", "parked"}
  /\ updater \in Rounds => /\ runPc = "returned"
                           /\ pc \in {"idle", "look", "parked", "subscribe",
                                      "begin"}
  /\ updater \in Rounds \ {"publish"} => closer \in {"off", "wait"}

MCBound ==
  /\ MCCalm
  /\ IF relevant = {StartHeight} THEN chainTip = StartHeight ELSE MCGrows

\* The bounds forbid steps, and fairness is that of the whole specification: a
\* behaviour that only a bound keeps from going on is not one of these.
MCFairSpec ==
  MCInit /\ [][NodeClientNext /\ MCBound']_allVars /\ NodeClientFairness
================================================================================
