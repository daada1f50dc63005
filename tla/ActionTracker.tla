---------------------------- MODULE ActionTracker ----------------------------
(***************************************************************************)
(* Node.actions, the watch channel with the set of actions in flight, and  *)
(* the calls that maintain it.  Every P2P method tracks its action, awaits *)
(* the inner node's answer, and untracks the action; match_filters does    *)
(* the same around a synchronous search, once its checks have passed.      *)
(*                                                                         *)
(* An Action is an opaque value: two calls have the same one when they are *)
(* the same method with the same argument (for fetch_blocks: the same      *)
(* number of hashes).                                                      *)
(***************************************************************************)
CONSTANTS Calls,            \* the tasks that call the node's methods
          P2PActions,       \* the actions of the P2P methods
          MatchingFilters   \* the action of match_filters

ASSUME MatchingAssumption == MatchingFilters \notin P2PActions

VARIABLES
  pc,           \* per task: "idle", "awaiting" (P2P) or "matching"
  act,          \* per task: the action of its current or last call
  actions,      \* the watch channel's set
  operational,  \* the node's state is Operational
  nodeUp,       \* the inner node's task runs
  \* History, read by properties only:
  leaked,       \* actions whose call was dropped while it was tracked
  hidden        \* tasks in a call whose twin, with the same action, ended

vars == <<pc, act, actions, operational, nodeUp, leaked, hidden>>

Actions == P2PActions \cup {MatchingFilters}

TypeOK ==
  /\ pc \in [Calls -> {"idle", "awaiting", "matching"}]
  /\ act \in [Calls -> Actions]
  /\ actions \subseteq Actions
  /\ operational \in BOOLEAN /\ nodeUp \in BOOLEAN
  /\ leaked \subseteq Actions /\ hidden \subseteq Calls

Init ==
  /\ pc = [c \in Calls |-> "idle"]
  /\ act = [c \in Calls |-> MatchingFilters]
  /\ actions = {}
  /\ operational = FALSE /\ nodeUp = TRUE
  /\ leaked = {} /\ hidden = {}

InFlight == {c \in Calls : pc[c] # "idle"}

track_action(a) == actions' = actions \cup {a}

untrack_action(a) == actions' = actions \ {a}

\* A call that tracks `a` and goes on in `next`.
Begins(c, a, next) ==
  /\ pc[c] = "idle"
  /\ pc' = [pc EXCEPT ![c] = next]
  /\ act' = [act EXCEPT ![c] = a]
  /\ track_action(a)
  /\ UNCHANGED <<operational, nodeUp, leaked, hidden>>

\* A call that untracks its action and returns, with or without an error.
Returns(c) ==
  /\ pc' = [pc EXCEPT ![c] = "idle"]
  /\ untrack_action(act[c])
  /\ leaked' = leaked \ {act[c]}
  /\ hidden' = (hidden \cup {d \in InFlight : act[d] = act[c]}) \ {c}
  /\ UNCHANGED <<act, operational, nodeUp>>

-----------------------------------------------------------------------------
(* fetch_block, fetch_blocks, broadcast_tx, add_peer, disconnect_peer,       *)
(* remove_peer and ping.                                                     *)

P2PCall(c) == \E a \in P2PActions : Begins(c, a, "awaiting")

\* The inner node answers, possibly with an error.
P2PAnswered(c) == nodeUp /\ pc[c] = "awaiting" /\ Returns(c)

\* A slip: `?` on the answer, before the action is untracked.
P2PUnresponsive_Early(c) ==
  /\ ~nodeUp /\ pc[c] = "awaiting"
  /\ pc' = [pc EXCEPT ![c] = "idle"] /\ hidden' = hidden \ {c}
  /\ UNCHANGED <<act, actions, operational, nodeUp, leaked>>


\* The inner node is gone and the answer channel closed: UnresponsiveNode.
P2PUnresponsive(c) == ~nodeUp /\ pc[c] = "awaiting" /\ Returns(c)

\* A slip: the task that held the dropped call never calls again.
P2PDropped_Slip(c) ==
  /\ pc[c] = "awaiting"
  /\ pc' = [pc EXCEPT ![c] = "dropped"]
  /\ UNCHANGED <<act, actions, operational, nodeUp, leaked, hidden>>

\* The caller drops the future at its await (a select, a timeout, an abort);
\* nothing after the await runs.
P2PDropped(c) ==
  /\ pc[c] = "awaiting"
  /\ pc' = [pc EXCEPT ![c] = "idle"]
  /\ leaked' = leaked \cup ({act[c]} \cap actions)
  /\ hidden' = hidden \ {c}
  /\ UNCHANGED <<act, actions, operational, nodeUp>>

-----------------------------------------------------------------------------
(* match_filters: refused without a trace unless the node is Operational     *)
(* (and the range is within the stored filters); it never awaits, so it      *)
(* cannot be dropped half way.                                               *)

MatchCall(c) == operational /\ Begins(c, MatchingFilters, "matching")

MatchDone(c) == pc[c] = "matching" /\ Returns(c)

-----------------------------------------------------------------------------
(* The environment: the updater publishes another state; the inner node's    *)
(* task ends.                                                                *)

StateChanges ==
  /\ operational' = ~operational
  /\ UNCHANGED <<pc, act, actions, nodeUp, leaked, hidden>>

NodeEnds ==
  /\ nodeUp /\ nodeUp' = FALSE
  /\ UNCHANGED <<pc, act, actions, operational, leaked, hidden>>

Next ==
  \/ \E c \in Calls : \/ P2PCall(c) \/ P2PAnswered(c) \/ P2PUnresponsive(c)
                      \/ P2PDropped(c) \/ MatchCall(c) \/ MatchDone(c)
  \/ StateChanges \/ NodeEnds

(* A search ends; a call whose answer channel is closed is resumed.  Nothing *)
(* makes a living inner node answer.                                         *)
Spec == /\ Init /\ [][Next]_vars
        /\ \A c \in Calls : WF_vars(P2PUnresponsive(c)) /\ WF_vars(MatchDone(c))

-----------------------------------------------------------------------------
(* What the set does show: a call in flight is in it unless a twin's return  *)
(* took it out, and whatever else is in it was left by a dropped call.       *)
TrackedUpToDropsAndTwins ==
  /\ \A c \in InFlight \ hidden : act[c] \in actions
  /\ actions \subseteq {act[c] : c \in InFlight} \cup leaked


(* node/mod.rs on Node.actions: "The set of Actions that the Node is         *)
(* currently performing."  A dropped call stays in it, and of two equal      *)
(* calls the first to return takes it out.                                   *)
ActionsAreInFlight == actions = {act[c] : c \in InFlight}
=============================================================================
