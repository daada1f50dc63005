------------------------------ MODULE MCKeychain ------------------------------
(* TLC instances of Keychain.                                               *)
EXTENDS Keychain

\* Bound: of all chains, those where every block pays the wallet, and none
\* pays a script an earlier block has paid.
MCInit == /\ Init
          /\ \A h \in Blocks : pays[h] # {}
          /\ \A h, k \in Blocks : pays[h] = pays[k] => h = k

MCSpec == MCInit /\ [][Next]_vars
==============================================================================
