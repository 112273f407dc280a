----------------------------- MODULE MCScalpAlerts -----------------------------
(* Instances of ScalpAlerts for TLC. *)
EXTENDS ScalpAlerts, TLC

CONSTANTS s1, s2

TwoSymbols == {s1, s2}

\* Sound: the properties and the actions treat all symbols alike.
Alike == Permutations(TwoSymbols)

=============================================================================
