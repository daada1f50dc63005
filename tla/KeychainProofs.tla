---------------------------- MODULE KeychainProofs ----------------------------
(***************************************************************************)
(* What holds of Keychain for every lookahead, chain and number of         *)
(* clients.                                                                *)
(***************************************************************************)
EXTENDS Keychain, TLAPS

\* The type invariant, in the parts a step can disturb together.
ChainOK ==
  /\ pays \in [Blocks -> SUBSET Scripts] /\ tip \in Heights
  /\ walletCp \in Heights /\ cp \in Heights
  /\ walletFound \subseteq Blocks /\ found \subseteq Blocks
  /\ from \in Heights /\ stop \in Heights
  /\ todo \subseteq Blocks /\ missed \subseteq Blocks /\ due \subseteq Blocks

IndexOK ==
  /\ walletNext \in 0..(MaxIndex + 1) /\ clientNext \in 0..(MaxIndex + 1)
  /\ start \in 0..(MaxIndex + 1) /\ bound \in Nat /\ ask \in Nat

ControlOK ==
  /\ clients \in 1..MaxClients /\ ahead \in BOOLEAN
  /\ pc \in {"idle", "apply", "stream"}

(* A step keeps the type of what is counted in blocks.                       *)
LEMMA ChainTyped == ChainOK /\ [Next]_vars => ChainOK'
<1> SUFFICES ASSUME ChainOK, [Next]_vars PROVE ChainOK'
  OBVIOUS
<1> USE KeychainAssumption
    DEF ChainOK, Blocks, Heights, chain, wallet, client, range, PassesNone
<1>0. ASSUME NEW first, Passes(first) PROVE due' \subseteq Blocks
  BY <1>0 DEF Passes
<1>1. CASE NewBlock
  <2>1. tip' \in Heights
    BY <1>1 DEF NewBlock
  <2> QED BY <1>1, <2>1 DEF NewBlock
<1>11. CASE Reveal
  BY <1>11 DEF Reveal
<1>2. CASE ApplyUpdates
  BY <1>2 DEF ApplyUpdates
<1>3. CASE NewClient
  BY <1>3 DEF NewClient
<1>4. CASE ScanOver
  BY <1>4 DEF ScanOver, RangeGone
<1>5. CASE Sync \/ FullScan \/ Custom
  <2>1. PICK first \in Heights, lookahead \in Lookaheads \cup {Lookahead} :
          BeginScan(first, lookahead)
    BY <1>5 DEF Sync, FullScan, Custom
  <2> QED BY <2>1 DEF BeginScan
<1>6. ASSUME NEW h \in Blocks, ApplyBlock(h)
      PROVE  ChainOK'
  BY <1>0, <1>6 DEF ApplyBlock, Higher
<1>7. ASSUME NEW h \in Blocks, SkipBlock(h)
      PROVE  ChainOK'
  BY <1>7 DEF SkipBlock
<1>8. CASE FinishScan
  BY <1>0, <1>8 DEF FinishScan, RangeGone, Higher
<1>9. CASE StreamBlock
  <2>1. cp + 1 \in Blocks /\ cp' = cp + 1
    BY <1>9 DEF StreamBlock
  <2>2. found' \in {found, found \cup {cp + 1}}
    BY <1>9 DEF StreamBlock
  <2>3. cp' \in Heights /\ found' \subseteq Blocks
    BY <2>1, <2>2
  <2> QED BY <1>0, <1>9, <2>3 DEF StreamBlock
<1>10. CASE UNCHANGED vars
  BY <1>10 DEF vars
<1> QED
  BY <1>1, <1>11, <1>2, <1>3, <1>4, <1>5, <1>6, <1>7, <1>8, <1>9, <1>10 DEF Next

(* A block that is recognised reveals a script there is.                     *)
LEMMA RecognisesTyped ==
  ASSUME ChainOK, IndexOK, NEW h \in Blocks, Recognises(h)
  PROVE  clientNext' \in 0..(MaxIndex + 1) /\ clientNext' >= clientNext
<1>1. PICK i \in Scripts : clientNext' = Higher(clientNext, i + 1)
  BY DEF Recognises, ChainOK
<1> QED
  BY <1>1, KeychainAssumption DEF IndexOK, Scripts, Higher

(* A step keeps the type of what is counted in scripts.                      *)
LEMMA IndexTyped == ChainOK /\ IndexOK /\ [Next]_vars => IndexOK'
<1> SUFFICES ASSUME ChainOK, IndexOK, [Next]_vars PROVE IndexOK'
  OBVIOUS
<1> USE KeychainAssumption
    DEF IndexOK, chain, wallet, client, range, RangeGone
<1>1. CASE NewBlock \/ Reveal \/ NewClient \/ ScanOver \/ FinishScan
  BY <1>1 DEF NewBlock, Reveal, NewClient, ScanOver, FinishScan
<1>2. CASE ApplyUpdates
  <2>1. walletNext' \in {walletNext} \cup Used
    BY <1>2 DEF ApplyUpdates
  <2>2. Used \subseteq 0..(MaxIndex + 1)
    BY DEF Used, ChainOK, Scripts
  <2> QED BY <1>2, <2>1, <2>2 DEF ApplyUpdates
<1>3. CASE Sync \/ FullScan \/ Custom
  <2>1. ASSUME NEW first, NEW lookahead \in Nat, BeginScan(first, lookahead)
        PROVE  IndexOK'
    BY <2>1 DEF BeginScan, Derived
  <2> QED BY <1>3, <2>1 DEF Sync, FullScan, Custom
<1>4. ASSUME NEW h \in Blocks, ApplyBlock(h) \/ SkipBlock(h)
      PROVE  IndexOK'
  BY <1>4, RecognisesTyped DEF ApplyBlock, SkipBlock
<1>5. CASE StreamBlock
  <2>1. cp + 1 \in Blocks
    BY <1>5 DEF StreamBlock, ChainOK, Blocks, Heights
  <2> QED BY <1>5, <2>1, RecognisesTyped DEF StreamBlock
<1>6. CASE UNCHANGED vars
  BY <1>6 DEF vars
<1> QED BY <1>1, <1>2, <1>3, <1>4, <1>5, <1>6 DEF Next

(* A step keeps the type of the control state.                               *)
LEMMA ControlTyped == ControlOK /\ [Next]_vars => ControlOK'
<1> SUFFICES ASSUME ControlOK, [Next]_vars PROVE ControlOK'
  OBVIOUS
<1> USE KeychainAssumption
    DEF ControlOK, chain, wallet, client, range, PassesNone, Passes
<1>0. ASSUME NotesLead PROVE ahead' \in BOOLEAN
  BY <1>0 DEF NotesLead
<1>1. CASE NewBlock \/ Reveal \/ ApplyUpdates \/ ScanOver
  BY <1>0, <1>1 DEF NewBlock, Reveal, ApplyUpdates, ScanOver
<1>6. CASE NewClient
  BY <1>0, <1>6 DEF NewClient
<1>2. CASE Sync \/ FullScan \/ Custom
  BY <1>0, <1>2 DEF Sync, FullScan, Custom, BeginScan
<1>3. ASSUME NEW h \in Blocks, ApplyBlock(h) \/ SkipBlock(h)
      PROVE  ControlOK'
  BY <1>0, <1>3 DEF ApplyBlock, SkipBlock
<1>4. CASE FinishScan \/ StreamBlock
  BY <1>0, <1>4 DEF FinishScan, StreamBlock
<1>5. CASE UNCHANGED vars
  BY <1>5 DEF vars
<1> QED BY <1>1, <1>2, <1>3, <1>4, <1>5, <1>6 DEF Next

(* No step leaves the chain's heights or the keychain's scripts: what a      *)
(* client derives and reveals are scripts that somebody can pay.             *)
THEOREM KeychainTypeCorrect == Spec => []TypeOK
<1>1. Init => ChainOK /\ IndexOK /\ ControlOK
  <2> SUFFICES ASSUME Init PROVE ChainOK /\ IndexOK /\ ControlOK
    OBVIOUS
  <2>1. pays \in [Blocks -> SUBSET Scripts]
    BY DEF Init
  <2>2. 0 \in Heights /\ 0 \in 0..(MaxIndex + 1) /\ 1 \in 1..MaxClients
    BY KeychainAssumption DEF Heights
  <2>3. ChainOK
    BY <2>1, <2>2 DEF Init, ChainOK
  <2>4. IndexOK
    BY <2>2 DEF Init, IndexOK
  <2>5. ControlOK
    BY <2>2 DEF Init, ControlOK
  <2> QED BY <2>3, <2>4, <2>5
<1>2. ChainOK /\ IndexOK /\ ControlOK /\ [Next]_vars
        => (ChainOK /\ IndexOK /\ ControlOK)'
  BY ChainTyped, IndexTyped, ControlTyped
<1>3. ChainOK /\ IndexOK /\ ControlOK <=> TypeOK
  BY DEF ChainOK, IndexOK, ControlOK, TypeOK
<1> QED BY <1>1, <1>2, <1>3, PTL DEF Spec


-----------------------------------------------------------------------------
\* A filter scan has looked at every block of its range it is done with.  A
\* block it missed matters until the checkpoint has passed it.
ScanInv ==
  pc = "apply" =>
    /\ bound = Higher(start, 1) - 1 + ask
    /\ \A h \in todo : from <= h /\ h <= stop
    /\ \A h \in missed, k \in todo : h < k
    /\ \A h \in missed : h > cp => ~PaysBelow(h, clientNext + Lookahead)
    /\ \A h \in Blocks :
         from <= h /\ h <= stop /\ h \notin todo \cup missed \cup found
           => ~PaysBelow(h, bound)

\* What is due is found, and the wallet has it once its checkpoint says so:
\* the next client starts from there.
DueInv ==
  /\ walletCp <= cp
  /\ ~ahead => /\ Covered
               /\ due \subseteq found
               /\ \A h \in due : h <= walletCp => h \in walletFound

(* Looking further finds no less.                                            *)
LEMMA PaysBelowMonotone ==
  ASSUME NEW h, NEW n \in Nat, NEW m \in Nat, n <= m, PaysBelow(h, n)
  PROVE  PaysBelow(h, m)
BY KeychainAssumption DEF PaysBelow, Below, Scripts

(* A step keeps the account a filter scan can give of its range.             *)
LEMMA ScanAccounts == TypeOK /\ ScanInv /\ [Next]_vars => ScanInv'
<1> SUFFICES ASSUME TypeOK, ScanInv, [Next]_vars PROVE ScanInv'
  OBVIOUS
<1> USE KeychainAssumption
<1>1. CASE NewBlock \/ Reveal \/ ApplyUpdates \/ UNCHANGED vars
  <2>1. UNCHANGED <<pays, pc, range, todo, missed, cp, found, clientNext>>
    BY <1>1 DEF NewBlock, Reveal, ApplyUpdates, vars, chain, client
  <2> QED BY <2>1 DEF ScanInv, PaysBelow, Below, range
<1>2. CASE NewClient \/ FinishScan \/ ScanOver \/ StreamBlock
  <2>1. pc' # "apply"
    BY <1>2 DEF NewClient, FinishScan, ScanOver, StreamBlock
  <2> QED BY <2>1 DEF ScanInv
<1>3. ASSUME NEW first \in Heights, NEW lookahead \in Nat,
             BeginScan(first, lookahead)
      PROVE  ScanInv'
  <2>1. /\ bound' = Higher(start', 1) - 1 + ask'
        /\ missed' = {} /\ UNCHANGED <<pays, cp, found, clientNext>>
    BY <1>3 DEF BeginScan, Derived, Higher, TypeOK, chain, client
  <2>2. \A h \in todo' : from' <= h /\ h <= stop'
    BY <1>3 DEF BeginScan
  <2>3. ASSUME NEW h \in Blocks, from' <= h, h <= stop', h \notin todo'
        PROVE  ~PaysBelow(h, bound')
    BY <1>3, <2>3 DEF BeginScan
  <2> QED BY <2>1, <2>2, <2>3 DEF ScanInv, PaysBelow, Below
<1>4. ASSUME NEW k \in Blocks, ApplyBlock(k)
      PROVE  ScanInv'
  <2>1. /\ pc = "apply" /\ k \in todo
        /\ todo' = todo \ {k} /\ found' = found \cup {k} /\ k <= cp'
        /\ UNCHANGED <<pays, range, missed>>
    BY <1>4 DEF ApplyBlock, NextToApply, Higher, chain, TypeOK, Blocks, Heights
  <2>2. \A h \in missed : ~(h > cp')
    BY <2>1, <1>4 DEF ScanInv, TypeOK, Blocks, Heights, ApplyBlock, Higher
  <2> QED BY <2>1, <2>2 DEF ScanInv, PaysBelow, Below, range
<1>5. ASSUME NEW k \in Blocks, SkipBlock(k)
      PROVE  ScanInv'
  <2>1. /\ pc = "apply" /\ k \in todo
        /\ todo' = todo \ {k} /\ missed' = missed \cup {k}
        /\ UNCHANGED <<pays, range, cp, found, clientNext>>
    BY <1>5 DEF SkipBlock, NextToApply, chain, client
  <2>2. \A h \in todo' : k < h
    BY <2>1, <1>5 DEF SkipBlock, NextToApply, TypeOK, Blocks
  <2>3. ~PaysBelow(k, clientNext + Lookahead)
    BY <1>5 DEF SkipBlock, Overlooks
  <2> QED BY <2>1, <2>2, <2>3 DEF ScanInv, PaysBelow, Below, range
<1>6. CASE Sync \/ FullScan \/ Custom
  <2>1. 0 \in Heights /\ cp \in Heights
    BY DEF Heights, TypeOK
  <2> QED BY <1>3, <1>6, <2>1 DEF Sync, FullScan, Custom
<1> QED BY <1>1, <1>2, <1>4, <1>5, <1>6 DEF Next

(* What a step passes over while nobody is too far ahead, it finds.          *)
LEMMA PassedIsFound ==
  ASSUME TypeOK, ScanInv, Covered, pc = "apply",
         NEW last \in Heights, last <= stop, todo \cap 1..last = {},
         NEW h \in Blocks, h > cp, from <= h, h <= last,
         PaysBelow(h, walletNext)
  PROVE  h \in found
<1> USE KeychainAssumption DEF TypeOK, Heights, Blocks
<1>1. h \notin todo /\ h <= stop
  OBVIOUS
<1>2. h \notin missed
  BY PaysBelowMonotone DEF ScanInv, Covered
<1>3. walletNext <= bound /\ bound \in Nat /\ walletNext \in Nat
  BY DEF ScanInv, Covered, Higher
<1>4. PaysBelow(h, bound)
  BY <1>3, PaysBelowMonotone
<1> QED BY <1>1, <1>2, <1>4 DEF ScanInv

(* Whoever runs ahead is noted by the step that lets it happen.              *)
LEMMA LeadIsNoted ==
  (~ahead => Covered) /\ [Next]_vars => (ahead => ahead') /\ (~ahead' => Covered')
<1> SUFFICES ASSUME ~ahead => Covered, [Next]_vars
             PROVE  (ahead => ahead') /\ (~ahead' => Covered')
  OBVIOUS
<1>1. CASE NotesLead
  BY <1>1 DEF NotesLead
<1>2. CASE NewBlock \/ UNCHANGED vars
  BY <1>2 DEF NewBlock, Covered, vars, wallet, client, range
<1>3. CASE ScanOver
  BY <1>3 DEF ScanOver, Covered, wallet, client
<1>4. CASE Reveal \/ ApplyUpdates \/ NewClient \/ FinishScan \/ StreamBlock
  BY <1>1, <1>4
     DEF Reveal, ApplyUpdates, NewClient, FinishScan, StreamBlock, Passes,
         PassesNone
<1>5. CASE Sync \/ FullScan \/ Custom
  BY <1>1, <1>5 DEF Sync, FullScan, Custom, BeginScan, PassesNone
<1>6. CASE \E h \in Blocks : ApplyBlock(h) \/ SkipBlock(h)
  BY <1>1, <1>6 DEF ApplyBlock, SkipBlock, Passes, PassesNone
<1> QED BY <1>2, <1>3, <1>4, <1>5, <1>6 DEF Next

(* A step that passes blocks and finds those it had to keeps DueInv.         *)
LEMMA PassingKeepsDue ==
  ASSUME TypeOK, DueInv, NEW first, Passes(first), cp <= cp',
         UNCHANGED <<walletCp, walletFound>>, found \subseteq found',
         ~ahead' => Covered', ahead => ahead',
         ~ahead => \A h \in Blocks :
           h > cp /\ h >= first /\ h <= cp' /\ PaysBelow(h, walletNext)
             => h \in found',
         cp' \in Heights
  PROVE  DueInv'
<1> USE DEF Passes, DueInv, TypeOK, Heights, Blocks
<1>1. walletCp' <= cp'
  OBVIOUS
<1>2. ASSUME ~ahead' PROVE due' \subseteq found'
  BY <1>2
<1>3. ASSUME ~ahead', NEW h \in due', h <= walletCp' PROVE h \in walletFound'
  BY <1>3, KeychainAssumption
<1> QED BY <1>1, <1>2, <1>3

(* A step keeps the account of what is due.                                  *)
LEMMA DueIsKept == TypeOK /\ ScanInv /\ DueInv /\ [Next]_vars => DueInv'
<1> SUFFICES ASSUME TypeOK, ScanInv, DueInv, [Next]_vars PROVE DueInv'
  OBVIOUS
<1> USE KeychainAssumption
<1>0. (ahead => ahead') /\ (~ahead' => Covered')
  BY LeadIsNoted DEF DueInv
<1>1. CASE NewBlock \/ Reveal \/ ScanOver \/ UNCHANGED vars
  <2>1. UNCHANGED <<walletCp, walletFound, cp, found, due>>
    BY <1>1 DEF NewBlock, Reveal, ScanOver, vars, wallet, client, PassesNone
  <2> QED BY <1>0, <2>1 DEF DueInv
<1>2. CASE ApplyUpdates
  <2>1. walletCp' = cp /\ walletFound' = found /\ UNCHANGED <<cp, found, due>>
    BY <1>2 DEF ApplyUpdates, client, PassesNone
  <2> QED BY <1>0, <2>1 DEF DueInv, TypeOK, Heights
<1>3. CASE NewClient
  <2>1. /\ cp' = walletCp /\ found' = walletFound
        /\ due' = {h \in due : h <= walletCp}
        /\ UNCHANGED <<walletCp, walletFound>>
    BY <1>3 DEF NewClient, wallet
  <2> QED BY <1>0, <2>1 DEF DueInv, TypeOK, Heights
<1>4. CASE Sync \/ FullScan \/ Custom
  <2>1. UNCHANGED <<walletCp, walletFound, cp, found, due>>
    BY <1>4 DEF Sync, FullScan, Custom, BeginScan, wallet, client, PassesNone
  <2> QED BY <1>0, <2>1 DEF DueInv
<1>5. ASSUME NEW k \in Blocks, SkipBlock(k)
      PROVE  DueInv'
  <2>1. UNCHANGED <<walletCp, walletFound, cp, found, due>>
    BY <1>5 DEF SkipBlock, wallet, client, PassesNone
  <2> QED BY <1>0, <2>1 DEF DueInv
<1>6. ASSUME NEW k \in Blocks, ApplyBlock(k)
      PROVE  DueInv'
  <2>1. /\ pc = "apply" /\ k \in todo /\ \A j \in todo : k <= j
        /\ found' = found \cup {k} /\ cp' = Higher(cp, k) /\ Passes(from)
        /\ UNCHANGED <<walletCp, walletFound>>
    BY <1>6 DEF ApplyBlock, NextToApply, wallet
  <2>2. k <= stop
    BY <2>1 DEF ScanInv
  <2>3. cp' \in Heights /\ cp <= cp'
    BY <2>1, <1>6 DEF TypeOK, Heights, Blocks, Higher
  <2>4. ASSUME ~ahead, NEW h \in Blocks, h > cp, h >= from, h <= cp',
               PaysBelow(h, walletNext)
        PROVE  h \in found'
    <3>1. h <= k
      BY <2>1, <2>4, <1>6 DEF TypeOK, Heights, Blocks, Higher
    <3>2. CASE h = k
      BY <2>1, <3>2
    <3>3. CASE h < k
      <4>1. k - 1 \in Heights /\ k - 1 <= stop /\ h <= k - 1
        BY <2>2, <3>3, <1>6 DEF TypeOK, Heights, Blocks
      <4>2. todo \cap 1..(k - 1) = {}
        BY <2>1, <1>6 DEF TypeOK, Blocks
      <4>3. Covered /\ from <= h
        BY <2>4 DEF DueInv, TypeOK, Heights, Blocks
      <4> QED BY <2>1, <2>4, <4>1, <4>2, <4>3, PassedIsFound
    <3> QED BY <3>1, <3>2, <3>3, <1>6 DEF Blocks
  <2> QED BY <1>0, <2>1, <2>3, <2>4, PassingKeepsDue
<1>7. CASE FinishScan
  <2>1. /\ pc = "apply" /\ todo = {}
        /\ found' = found /\ cp' = Higher(cp, stop) /\ Passes(from)
        /\ UNCHANGED <<walletCp, walletFound>>
    BY <1>7 DEF FinishScan, wallet
  <2>2. cp' \in Heights /\ cp <= cp' /\ stop \in Heights
    BY <2>1 DEF TypeOK, Heights, Higher
  <2>3. ASSUME ~ahead, NEW h \in Blocks, h > cp, h >= from, h <= cp',
               PaysBelow(h, walletNext)
        PROVE  h \in found'
    <3>1. h <= stop /\ from <= h
      BY <2>1, <2>3 DEF TypeOK, Heights, Blocks, Higher
    <3>2. Covered /\ stop <= stop /\ todo \cap 1..stop = {}
      BY <2>1, <2>2, <2>3 DEF DueInv, Heights
    <3> QED BY <2>1, <2>2, <2>3, <3>1, <3>2, PassedIsFound
  <2> QED BY <1>0, <2>1, <2>2, <2>3, PassingKeepsDue
<1>8. CASE StreamBlock
  <2>1. /\ cp' = cp + 1 /\ cp + 1 \in Blocks /\ cp + 1 \in Heights
        /\ Passes(cp + 1) /\ UNCHANGED <<walletCp, walletFound>>
    BY <1>8 DEF StreamBlock, wallet, TypeOK, Heights, Blocks
  <2>2. \/ found' = found \cup {cp + 1}
        \/ found' = found /\ Overlooks(cp + 1)
    BY <1>8 DEF StreamBlock
  <2>3. cp <= cp' /\ found \subseteq found'
    BY <2>1, <2>2 DEF TypeOK, Heights
  <2>4. ASSUME ~ahead, NEW h \in Blocks, h > cp, h >= cp + 1, h <= cp',
               PaysBelow(h, walletNext)
        PROVE  h \in found'
    <3>1. h = cp + 1
      BY <2>1, <2>4 DEF TypeOK, Heights, Blocks
    <3>2. ~Overlooks(h)
      BY <2>4, PaysBelowMonotone DEF Overlooks, DueInv, Covered, TypeOK
    <3> QED BY <2>2, <3>1, <3>2
  <2> QED BY <1>0, <2>1, <2>3, <2>4, PassingKeepsDue
<1> QED BY <1>1, <1>2, <1>3, <1>4, <1>5, <1>6, <1>7, <1>8 DEF Next

(* However far the client's clone and a scan's scripts fall behind, a        *)
(* payment to a revealed address is found unless they fall further behind    *)
(* than their lookaheads (Client::new, scan_inner, scan_continuous).         *)
THEOREM RevealedAreFound == Spec => []RevealedIsFound
<1>1. Init => ScanInv /\ DueInv
  BY KeychainAssumption
     DEF Init, ScanInv, DueInv, Covered
<1>2. TypeOK /\ ScanInv /\ DueInv /\ [Next]_vars => (ScanInv /\ DueInv)'
  BY ScanAccounts, DueIsKept
<1>3. DueInv => RevealedIsFound
  BY DEF DueInv, RevealedIsFound
<1> QED BY <1>1, <1>2, <1>3, KeychainTypeCorrect, PTL DEF Spec

-----------------------------------------------------------------------------
\* Whoever has seen a payment has revealed its script; a block pays one.
NextInv ==
  /\ \A h \in Blocks : \A i \in pays[h], j \in pays[h] : i = j
  /\ \A h \in found : \A i \in pays[h] : i + 1 <= clientNext
  /\ \A h \in walletFound : \A i \in pays[h] : i + 1 <= walletNext
  /\ pc = "apply" => start <= clientNext

\* GapsAreBridged, of the blocks a filter scan is done with.
BridgeInv ==
  pc = "apply" =>
    \A h \in Blocks \ todo : \A i \in pays[h] :
      /\ from <= h /\ h <= stop /\ i < bound
      /\ \E n \in Reached(h) : i < n + Lookahead
      => h \in found

(* A block that is recognised leaves all of its script revealed.             *)
LEMMA RecognisesReveals ==
  ASSUME TypeOK, NextInv, NEW h \in Blocks, Recognises(h)
  PROVE  /\ clientNext <= clientNext'
         /\ \A i \in pays[h] : i + 1 <= clientNext'
<1>1. PICK i \in pays[h] : clientNext' = Higher(clientNext, i + 1)
  BY DEF Recognises
<1>2. \A j \in pays[h] : j = i
  BY DEF NextInv
<1>3. i \in Nat /\ clientNext \in Nat
  BY KeychainAssumption DEF TypeOK, Scripts
<1> QED BY <1>1, <1>2, <1>3 DEF Higher

(* A step keeps what has been seen revealed.                                 *)
LEMMA SeenIsRevealed == TypeOK /\ NextInv /\ [Next]_vars => NextInv'
<1> SUFFICES ASSUME TypeOK, NextInv, [Next]_vars PROVE NextInv'
  OBVIOUS
<1> USE KeychainAssumption
<1>0. /\ clientNext \in Nat /\ walletNext \in Nat
      /\ \A h \in Blocks : pays[h] \subseteq Nat
      /\ found \subseteq Blocks /\ walletFound \subseteq Blocks
  BY DEF TypeOK, Scripts
<1>1. CASE NewBlock \/ ScanOver \/ UNCHANGED vars
  <2>1. /\ UNCHANGED <<pays, walletNext, walletFound, clientNext, found>>
        /\ pc' = "apply" => pc = "apply" /\ start' = start
    BY <1>1 DEF NewBlock, ScanOver, vars, chain, wallet, client, range
  <2> QED BY <2>1 DEF NextInv
<1>2. CASE Reveal
  <2>1. /\ UNCHANGED <<pays, walletFound, clientNext, found, pc, start>>
        /\ walletNext' = walletNext + 1
    BY <1>2 DEF Reveal, chain, client, range
  <2> QED BY <1>0, <2>1 DEF NextInv
<1>3. CASE ApplyUpdates
  <2>1. /\ UNCHANGED <<pays, clientNext, found, pc, start>>
        /\ walletFound' = found
        /\ \A m \in Used : m <= walletNext'
    BY <1>3 DEF ApplyUpdates, chain, client, range
  <2>2. \A h \in found : \A i \in pays[h] : i + 1 \in Used
    BY DEF Used
  <2> QED BY <2>1, <2>2 DEF NextInv
<1>4. CASE NewClient
  <2>1. /\ UNCHANGED <<pays, walletNext, walletFound, pc>> /\ pc = "idle"
        /\ clientNext' = walletNext /\ found' = walletFound
    BY <1>4 DEF NewClient, chain, wallet
  <2> QED BY <2>1 DEF NextInv
<1>5. CASE Sync \/ FullScan \/ Custom
  <2>1. /\ UNCHANGED <<pays, walletNext, walletFound, clientNext, found>>
        /\ start' = clientNext
    BY <1>5 DEF Sync, FullScan, Custom, BeginScan, chain, wallet, client
  <2> QED BY <1>0, <2>1 DEF NextInv
<1>6. ASSUME NEW k \in Blocks, SkipBlock(k)
      PROVE  NextInv'
  <2>1. UNCHANGED <<pays, walletNext, walletFound, clientNext, found, pc, start>>
    BY <1>6 DEF SkipBlock, chain, wallet, client, range
  <2> QED BY <2>1 DEF NextInv
<1>7. ASSUME NEW k \in Blocks, Recognises(k), found' = found \cup {k},
             UNCHANGED <<pays, walletNext, walletFound, pc, start>>
      PROVE  NextInv'
  <2>1. clientNext <= clientNext' /\ \A i \in pays[k] : i + 1 <= clientNext'
    BY <1>7, RecognisesReveals
  <2>2. clientNext' \in Nat
    BY <1>7, <1>0 DEF Recognises, Higher
  <2>3. start \in Nat
    BY DEF TypeOK
  <2>4. ASSUME NEW h \in found', NEW i \in pays'[h] PROVE i + 1 <= clientNext'
    BY <1>0, <1>7, <2>1, <2>2, <2>4 DEF NextInv
  <2>5. pc' = "apply" => start' <= clientNext'
    BY <1>0, <1>7, <2>1, <2>2, <2>3 DEF NextInv
  <2> QED BY <1>7, <2>4, <2>5 DEF NextInv
<1>8. ASSUME NEW k \in Blocks, ApplyBlock(k)
      PROVE  NextInv'
  BY <1>7, <1>8 DEF ApplyBlock, chain, wallet, range
<1>9. CASE FinishScan
  <2>1. /\ UNCHANGED <<pays, walletNext, walletFound, clientNext, found>>
        /\ pc' # "apply"
    BY <1>9 DEF FinishScan, chain, wallet
  <2> QED BY <2>1 DEF NextInv
<1>10. CASE StreamBlock
  <2>1. cp + 1 \in Blocks
    BY <1>10 DEF StreamBlock, TypeOK, Heights, Blocks
  <2>2. UNCHANGED <<pays, walletNext, walletFound, pc, start>>
    BY <1>10 DEF StreamBlock, chain, wallet, range
  <2>3. CASE Recognises(cp + 1) /\ found' = found \cup {cp + 1}
    BY <1>7, <2>1, <2>2, <2>3
  <2>4. CASE UNCHANGED <<clientNext, found>>
    BY <2>2, <2>4 DEF NextInv
  <2> QED BY <1>10, <2>3, <2>4 DEF StreamBlock
<1> QED
  BY <1>1, <1>2, <1>3, <1>4, <1>5, <1>6, <1>8, <1>9, <1>10 DEF Next

(* A script that a scan may have reached is one the client has revealed.     *)
LEMMA ReachedIsRevealed ==
  ASSUME TypeOK, NextInv, pc = "apply", NEW h, NEW n \in Reached(h)
  PROVE  n \in Nat /\ n <= clientNext
<1>1. CASE n = start
  BY <1>1 DEF NextInv, TypeOK
<1>2. CASE n # start
  <2>1. PICK b \in found : \E i \in pays[b] : n = i + 1
    BY <1>2 DEF Reached
  <2>0. PICK i \in pays[b] : n = i + 1
    BY <2>1
  <2>2. i \in Nat
    BY <2>0, KeychainAssumption DEF TypeOK, Scripts
  <2> QED BY <2>0, <2>2 DEF NextInv
<1> QED BY <1>1, <1>2

(* A step recognises what the blocks before have brought within reach.       *)
LEMMA BridgeStep ==
  TypeOK /\ ScanInv /\ NextInv /\ BridgeInv /\ [Next]_vars => BridgeInv'
<1> SUFFICES ASSUME TypeOK, ScanInv, NextInv, BridgeInv, [Next]_vars
             PROVE  BridgeInv'
  OBVIOUS
<1> USE KeychainAssumption
<1>1. CASE NewBlock \/ Reveal \/ ApplyUpdates \/ UNCHANGED vars
  <2>1. UNCHANGED <<pays, pc, range, todo, found>>
    BY <1>1 DEF NewBlock, Reveal, ApplyUpdates, vars, chain, client
  <2> QED BY <2>1 DEF BridgeInv, Reached, range
<1>2. CASE NewClient \/ FinishScan \/ ScanOver \/ StreamBlock
  <2>1. pc' # "apply"
    BY <1>2 DEF NewClient, FinishScan, ScanOver, StreamBlock
  <2> QED BY <2>1 DEF BridgeInv
<1>3. CASE Sync \/ FullScan \/ Custom
  <2>1. PICK first, lookahead : BeginScan(first, lookahead)
    BY <1>3 DEF Sync, FullScan, Custom
  <2>2. ASSUME NEW h \in Blocks \ todo', NEW i \in pays'[h],
               from' <= h, h <= stop', i < bound'
        PROVE  FALSE
    <3>1. ~PaysBelow(h, bound')
      BY <2>1, <2>2 DEF BeginScan
    <3>2. i \in pays[h] /\ i \in Scripts
      BY <2>1, <2>2 DEF BeginScan, chain, TypeOK
    <3> QED BY <2>2, <3>1, <3>2 DEF PaysBelow, Below
  <2> QED BY <2>2 DEF BridgeInv
<1>4. ASSUME NEW k \in Blocks, ApplyBlock(k)
      PROVE  BridgeInv'
  <2>1. /\ pc = "apply" /\ k \in todo
        /\ todo' = todo \ {k} /\ found' = found \cup {k}
        /\ UNCHANGED <<pays, range>>
    BY <1>4 DEF ApplyBlock, NextToApply, chain
  <2>2. ASSUME NEW h \in Blocks \ todo', NEW i \in pays[h],
               from <= h, h <= stop, i < bound, h \notin found',
               NEW n \in Reached(h)', i < n + Lookahead
        PROVE  FALSE
    <3>1. h \notin todo /\ h \notin found /\ h # k
      BY <2>1, <2>2
    <3>2. PaysBelow(h, bound)
      BY <2>2 DEF PaysBelow, Below, TypeOK
    <3>3. h \in missed
      BY <2>1, <2>2, <3>1, <3>2 DEF ScanInv
    <3>4. h < k
      BY <2>1, <3>3 DEF ScanInv
    <3>5. {b \in found' : from <= b /\ b < h} = {b \in found : from <= b /\ b < h}
      BY <2>1, <3>4 DEF TypeOK, Blocks
    <3>6. n \in Reached(h)
      BY <2>1, <2>2, <3>5 DEF Reached, range
    <3> QED BY <2>1, <2>2, <3>1, <3>6 DEF BridgeInv
  <2> QED BY <2>1, <2>2 DEF BridgeInv, range
<1>5. ASSUME NEW k \in Blocks, SkipBlock(k)
      PROVE  BridgeInv'
  <2>1. /\ pc = "apply" /\ k \in todo /\ todo' = todo \ {k}
        /\ UNCHANGED <<pays, range, pc, clientNext, found>>
    BY <1>5 DEF SkipBlock, NextToApply, chain, client
  <2>2. ASSUME NEW i \in pays[k], NEW n \in Reached(k), i < n + Lookahead
        PROVE  FALSE
    <3>1. n \in Nat /\ n <= clientNext /\ clientNext \in Nat
      BY <2>1, ReachedIsRevealed DEF TypeOK
    <3>2. i \in Scripts /\ i \in Nat
      BY <2>2 DEF TypeOK, Scripts
    <3>3. i < clientNext + Lookahead
      BY <2>2, <3>1, <3>2
    <3>4. ~PaysBelow(k, clientNext + Lookahead)
      BY <1>5 DEF SkipBlock, Overlooks
    <3> QED BY <2>2, <3>2, <3>3, <3>4 DEF PaysBelow, Below
  <2>3. ASSUME NEW h \in Blocks \ todo', NEW i \in pays[h],
               from <= h, h <= stop, i < bound,
               NEW n \in Reached(h), i < n + Lookahead
        PROVE  h \in found
    <3>1. h # k
      BY <2>2, <2>3
    <3> QED BY <2>1, <2>3, <3>1 DEF BridgeInv
  <2>4. \A h : Reached(h)' = Reached(h)
    BY <2>1 DEF Reached, range
  <2> QED BY <2>1, <2>3, <2>4 DEF BridgeInv, range
<1> QED BY <1>1, <1>2, <1>3, <1>4, <1>5 DEF Next

(* A filter scan bridges the gaps of a wallet's history that are within the  *)
(* index's lookahead, for every chain (scan_inner applies the blocks in      *)
(* order, and each reveals its script before the next is looked at).         *)
THEOREM HistoryIsFollowed == Spec => []GapsAreBridged
<1>1. Init => ScanInv /\ NextInv /\ BridgeInv
  <2> SUFFICES ASSUME Init PROVE ScanInv /\ NextInv /\ BridgeInv
    OBVIOUS
  <2>1. pc = "idle" /\ found = {} /\ walletFound = {}
    BY DEF Init
  <2>2. \A h \in Blocks : \A i \in pays[h], j \in pays[h] : i = j
    BY DEF Init
  <2> QED BY <2>1, <2>2 DEF ScanInv, NextInv, BridgeInv
<1>2. TypeOK /\ ScanInv /\ NextInv /\ BridgeInv /\ [Next]_vars
        => (ScanInv /\ NextInv /\ BridgeInv)'
  BY ScanAccounts, SeenIsRevealed, BridgeStep
<1>3. BridgeInv => GapsAreBridged
  BY DEF BridgeInv, GapsAreBridged
<1> QED BY <1>1, <1>2, <1>3, KeychainTypeCorrect, PTL DEF Spec
=============================================================================
