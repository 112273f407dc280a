----------------------------- MODULE MCSignalScan -----------------------------
(* Instances of SignalScan for TLC. *)
EXTENDS SignalScan

TwoLevels == {0, 1}
TwoSources == {"nse", "angel"}
BothWays  == {"LONG_BUILDUP", "SHORT_BUILDUP"}

=============================================================================
