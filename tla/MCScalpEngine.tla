---------------------------- MODULE MCScalpEngine ----------------------------
(* Instances of ScalpEngine and of its ledger for TLC. *)
EXTENDS ScalpLedger, TLC

Symmetric == Permutations(Symbols)

\* 30 %: a premium of 7 on an entry of 10; 20 %: 12 on 10.
FewPremiums == {7, 10, 12}
OnePremium  == {10}

=============================================================================
