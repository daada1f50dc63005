----------------------------- MODULE ClientService -----------------------------
(***************************************************************************)
(* What a Client promises to the application whose wallet it feeds, with   *)
(* no scan, no filter, no queue and no token: its checkpoint moves forward *)
(* on blocks the node has, and only over blocks it has looked at or said   *)
(* beforehand it would not look at; the wallet follows in the same way;    *)
(* and a client made after another one goes on where the wallet is.        *)
(*                                                                         *)
(* A block is its height, as in ClientScan, which implements this.         *)
(***************************************************************************)
EXTENDS Naturals

VARIABLES
  relevant,   \* blocks with transactions of the wallet
  tip,        \* the highest block the node has a filter of, or has validated
  alive,      \* there is a client
  cp, found,  \* its checkpoint, and the relevant blocks it has applied
  gaps,       \* blocks it says it will pass without looking
  walletCp, walletTxs

client == <<alive, cp, found, gaps>>
wallet == <<walletCp, walletTxs>>
vars == <<relevant, tip, client, wallet>>

Init ==
  /\ relevant \subseteq Nat \ {0} /\ tip \in Nat
  /\ alive = TRUE /\ cp = 0 /\ found = {} /\ gaps = {}
  /\ walletCp = 0 /\ walletTxs = {}

\* Whoever moves from one checkpoint to another has the blocks in between.
Complete(from, to, has) ==
  \A h \in relevant : from < h /\ h <= to => h \in has \cup gaps

Grow ==
  /\ tip' = tip + 1
  /\ UNCHANGED <<relevant, client, wallet>>

\* Nothing is found above the checkpoint, or that is not there.
Advance ==
  /\ alive
  /\ cp' \in cp..tip
  /\ found \subseteq found' /\ found' \ found \subseteq relevant \cap 1..cp'
  /\ Complete(cp, cp', found')
  /\ UNCHANGED <<relevant, tip, alive, gaps, wallet>>

\* What will not be looked at is said before the checkpoint gets there; what
\* it has passed stays said.
Declare ==
  /\ alive
  /\ gaps' \ gaps \subseteq (cp + 1)..tip /\ gaps \cap 1..cp \subseteq gaps'
  /\ UNCHANGED <<relevant, tip, alive, cp, found, wallet>>

\* The wallet gets what the client has found, also when that is gone.
Deliver ==
  /\ walletCp' \in walletCp..cp
  /\ walletTxs \subseteq walletTxs' /\ walletTxs' \subseteq found
  /\ Complete(walletCp, walletCp', walletTxs')
  /\ UNCHANGED <<relevant, tip, client>>

Drop ==
  /\ alive /\ alive' = FALSE
  /\ UNCHANGED <<relevant, tip, cp, found, gaps, wallet>>

\* What the old client had and the wallet has not is forgotten.
Renew ==
  /\ ~alive /\ alive' = TRUE
  /\ cp' = walletCp /\ found' = walletTxs /\ gaps' = gaps \cap 1..walletCp
  /\ UNCHANGED <<relevant, tip, wallet>>

Next == Grow \/ Advance \/ Declare \/ Deliver \/ Drop \/ Renew

Spec == Init /\ [][Next]_vars
================================================================================
