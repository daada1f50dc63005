------------------------------- MODULE Keychain -------------------------------
(***************************************************************************)
(* Which of the wallet's payments a Client can see.  A script is its index *)
(* in the keychain.  Three views of the keychain move apart:               *)
(*                                                                         *)
(*   the wallet       reveals addresses, and learns from updates which     *)
(*                    were used;                                           *)
(*   the client       has a clone of the wallet's index, taken when it was *)
(*                    created, which recognises a script up to Lookahead   *)
(*                    beyond what it has revealed, and reveals what it     *)
(*                    recognises;                                          *)
(*   a filter scan    has the scripts derived when it began.               *)
(*                                                                         *)
(* The two keychains of a wallet do not interact: this is one of them.     *)
(* How scans are cancelled, refused and handed over to the stream of new   *)
(* blocks is ClientScan's matter.                                          *)
(***************************************************************************)
EXTENDS Naturals

CONSTANTS Lookahead,    \* the lookahead of the wallet's index
          Lookaheads,   \* what FullScan and Custom scans may ask for
          MaxHeight,    \* bound: the chain's height
          MaxIndex,     \* bound: the highest script anybody pays or reveals
          MaxClients    \* bound: clients created, one after the other

ASSUME KeychainAssumption ==
  /\ Lookahead \in Nat /\ Lookaheads \subseteq Nat
  /\ MaxHeight \in Nat /\ MaxIndex \in Nat /\ MaxClients \in Nat \ {0}

VARIABLES
  pays,         \* the wallet's script each block pays, if it pays one
  tip,          \* height of the node's chain and filters
  walletNext,   \* scripts the wallet has revealed
  walletCp, walletFound,
  clientNext,   \* scripts the client's index has revealed
  cp, found,    \* the client's checkpoint, and the blocks it recognised
  clients,
  pc,           \* "idle", "apply" (a filter scan) or "stream"
  from, stop,   \* the filter scan's range
  bound,        \* how many scripts it has derived
  todo,         \* the fetched blocks yet to apply
  \* History, read by properties only:
  start, ask,   \* clientNext when the filter scan began, and its lookahead
  missed,       \* the blocks it fetched and did not recognise
  due,          \* blocks passed when they paid a script the wallet had revealed
  ahead         \* the wallet was too far ahead of the client or of its scan

chain  == <<pays, tip>>
wallet == <<walletNext, walletCp, walletFound>>
client == <<clientNext, cp, found, clients>>
range  == <<from, stop, bound, start, ask>>
vars == <<chain, wallet, client, pc, range, todo, missed, due, ahead>>

Blocks == 1..MaxHeight
Heights == 0..MaxHeight
Scripts == 0..MaxIndex

Higher(a, b) == IF a > b THEN a ELSE b

TypeOK ==
  /\ pays \in [Blocks -> SUBSET Scripts] /\ tip \in Heights
  /\ walletNext \in 0..(MaxIndex + 1) /\ walletCp \in Heights
  /\ walletFound \subseteq Blocks
  /\ clientNext \in 0..(MaxIndex + 1) /\ cp \in Heights
  /\ found \subseteq Blocks /\ clients \in 1..MaxClients
  /\ pc \in {"idle", "apply", "stream"}
  /\ from \in Heights /\ stop \in Heights
  /\ bound \in Nat /\ start \in 0..(MaxIndex + 1) /\ ask \in Nat
  /\ todo \subseteq Blocks /\ missed \subseteq Blocks
  /\ due \subseteq Blocks /\ ahead \in BOOLEAN

\* A restored wallet: it knows nothing of what its scripts have received.
Init ==
  /\ pays \in [Blocks -> {{}} \cup {{i} : i \in Scripts}]
  /\ tip = 0
  /\ walletNext = 0 /\ walletCp = 0 /\ walletFound = {}
  /\ clientNext = 0 /\ cp = 0 /\ found = {} /\ clients = 1
  /\ pc = "idle" /\ from = 0 /\ stop = 0 /\ bound = 0 /\ todo = {}
  /\ start = 0 /\ ask = 0 /\ missed = {} /\ due = {} /\ ahead = FALSE

-----------------------------------------------------------------------------
\* The scripts with an index below n.
Below(n) == {i \in Scripts : i < n}

PaysBelow(h, n) == pays[h] \cap Below(n) # {}

\* The wallet is not so far ahead that the client's index no longer reaches,
\* or that a scan, which looks `ask` scripts beyond the last one that was
\* revealed when it began, does not.
Covered == /\ walletNext <= clientNext + Lookahead
           /\ pc = "apply" => walletNext < Higher(start, 1) + ask

\* The history is kept with every step: who runs ahead, and who passes blocks.
NotesLead == ahead' = (ahead \/ ~Covered')

Passes(first) ==
  /\ due' = due \cup {h \in Blocks : /\ h > cp /\ h >= first /\ h <= cp'
                                     /\ PaysBelow(h, walletNext)}
  /\ NotesLead

PassesNone == due' = due /\ NotesLead

-----------------------------------------------------------------------------
(* The chain, and the wallet.                                                *)

NewBlock ==
  /\ tip < MaxHeight /\ tip' = tip + 1
  /\ UNCHANGED <<pays, wallet, client, pc, range, todo, missed, due, ahead>>

\* The application asks its wallet for a new address.
Reveal ==
  /\ walletNext <= MaxIndex /\ walletNext' = walletNext + 1
  /\ UNCHANGED <<chain, walletCp, walletFound, client, pc, range, todo,
                 missed>>
  /\ PassesNone

\* What the recognised blocks have revealed.
Used == UNION {{i + 1 : i \in pays[h]} : h \in found}

\* The application applies the updates it has been sent: the checkpoint, the
\* transactions, and the last active indices, which the wallet reveals.
ApplyUpdates ==
  /\ walletCp' = cp /\ walletFound' = found
  /\ \E n \in {walletNext} \cup Used :
       walletNext' = n /\ \A m \in {walletNext} \cup Used : m <= n
  /\ UNCHANGED <<chain, client, pc, range, todo, missed>>
  /\ PassesNone

-----------------------------------------------------------------------------
(* The client.                                                               *)

\* Client::new clones the wallet's index as it is.
NewClient ==
  /\ clients < MaxClients /\ pc = "idle"
  /\ clients' = clients + 1
  /\ clientNext' = walletNext /\ cp' = walletCp /\ found' = walletFound
  /\ UNCHANGED <<chain, wallet, pc, range, todo, missed>>
  /\ due' = {h \in due : h <= walletCp}
  /\ NotesLead

\* A slip: the lookahead alone, whatever has been revealed.
Derived_Slip(lookahead) == lookahead

\* derive_spks_with_custom_lookahead: take(last revealed + lookahead), from
\* index 0; without a revealed index, 0 stands in for the last one.
Derived(lookahead) == (IF clientNext = 0 THEN 0 ELSE clientNext - 1) + lookahead

\* The filters report every block that pays a derived script, and any others.
BeginScan(first, lookahead) ==
  /\ pc = "idle" /\ first <= tip
  /\ pc' = "apply" /\ from' = first /\ stop' = tip
  /\ bound' = Derived(lookahead) /\ start' = clientNext
  /\ ask' = lookahead
  /\ \E noise \in SUBSET Blocks :
       todo' = {h \in Blocks : /\ first <= h /\ h <= tip
                               /\ h \in noise \/ PaysBelow(h, bound')}
  /\ missed' = {}
  /\ UNCHANGED <<chain, wallet, client>>
  /\ PassesNone

Sync == BeginScan(cp, Lookahead)

FullScan == \E lookahead \in Lookaheads : BeginScan(0, lookahead)

Custom ==
  \E first \in Heights, lookahead \in Lookaheads : BeginScan(first, lookahead)

\* A slip: whichever block arrives first.
NextToApply_Slip(h) == h \in todo

\* The blocks are fetched in parallel and applied in the order of the chain.
NextToApply(h) == h \in todo /\ \A k \in todo : h <= k

\* A slip: one script more is taken for revealed.
Recognises_Slip(h) ==
  \E i \in pays[h] : /\ i < clientNext + Lookahead
                     /\ clientNext' = Higher(clientNext, i + 2)

\* apply_block_relevant: the index recognises a script that lies within its
\* lookahead, and reveals the keychain up to it.
Recognises(h) ==
  \E i \in pays[h] : /\ i < clientNext + Lookahead
                     /\ clientNext' = Higher(clientNext, i + 1)

Overlooks(h) == ~PaysBelow(h, clientNext + Lookahead)

ApplyBlock(h) ==
  /\ pc = "apply" /\ NextToApply(h)
  /\ Recognises(h)
  /\ todo' = todo \ {h}
  /\ found' = found \cup {h} /\ cp' = Higher(cp, h)
  /\ UNCHANGED <<chain, wallet, clients, pc, range, missed>>
  /\ Passes(from)

\* An empty change set: the next block.
SkipBlock(h) ==
  /\ pc = "apply" /\ NextToApply(h)
  /\ Overlooks(h)
  /\ todo' = todo \ {h} /\ missed' = missed \cup {h}
  /\ UNCHANGED <<chain, wallet, client, pc, range>>
  /\ PassesNone

RangeGone == /\ from' = 0 /\ stop' = 0 /\ bound' = 0
             /\ start' = 0 /\ ask' = 0

\* The final checkpoint; a continuous scan streams on.
FinishScan ==
  /\ pc = "apply" /\ todo = {}
  /\ pc' \in {"idle", "stream"} /\ cp' = Higher(cp, stop)
  /\ missed' = {} /\ RangeGone
  /\ UNCHANGED <<chain, wallet, clientNext, found, clients, todo>>
  /\ Passes(from)

\* The scan is cancelled, fails or is dropped.
ScanOver ==
  /\ pc # "idle" /\ pc' = "idle" /\ todo' = {} /\ missed' = {} /\ RangeGone
  /\ UNCHANGED <<chain, wallet, client, due, ahead>>

\* A block of the stream is applied, and moves the checkpoint in any case.
StreamBlock ==
  /\ pc = "stream" /\ cp < tip
  /\ cp' = cp + 1
  /\ \/ Recognises(cp + 1) /\ found' = found \cup {cp + 1}
     \/ Overlooks(cp + 1) /\ UNCHANGED <<clientNext, found>>
  /\ UNCHANGED <<chain, wallet, clients, pc, range, todo, missed>>
  /\ Passes(cp + 1)

-----------------------------------------------------------------------------
Next == \/ NewBlock \/ Reveal \/ ApplyUpdates \/ NewClient
        \/ Sync \/ FullScan \/ Custom
        \/ (\E h \in Blocks : ApplyBlock(h) \/ SkipBlock(h))
        \/ FinishScan \/ ScanOver \/ StreamBlock

Spec == Init /\ [][Next]_vars

-----------------------------------------------------------------------------
(* A payment to an address the wallet had handed out is found when the       *)
(* checkpoint passes it, though the client works on a clone of the index     *)
(* that is never refreshed and a scan on scripts derived when it began -     *)
(* as long as the wallet never got further ahead of them than they see.      *)
RevealedIsFound == ~ahead => due \subseteq found

\* The scripts a scan can have revealed before it applied block h.
Reached(h) == {start} \cup {i + 1 : i \in UNION {pays[k] : k \in {b \in found : from <= b /\ b < h}}}

(* A filter scan follows a wallet's history: a block of its range that pays  *)
(* a derived script, at most Lookahead beyond the ones paid before it, is    *)
(* recognised - which holds because the blocks, fetched in parallel, are     *)
(* applied in the order of the chain (scan_inner).                           *)
GapsAreBridged ==
  pc = "apply" /\ todo = {} =>
    \A h \in Blocks : \A i \in pays[h] :
      /\ from <= h /\ h <= stop /\ i < bound
      /\ \E n \in Reached(h) : i < n + Lookahead
      => h \in found

(* client/mod.rs on a block that changes nothing: "An empty change set means *)
(* the block was a false positive".  So a block that is skipped should pay   *)
(* none of the scripts the scan was looking for.                             *)
EmptyMeansFalsePositive ==
  pc = "apply" => \A h \in missed : ~PaysBelow(h, bound)
=============================================================================
