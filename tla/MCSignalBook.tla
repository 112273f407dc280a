---------------------------- MODULE MCSignalBook ----------------------------
(* Instances of SignalBook for TLC. *)
EXTENDS SignalBook

\* With Risk = T1 = 2 and T2 = 4: a gap through the stop, and the first or
\* the second target.
StopOrGain   == {-3, 2}
StopOrTarget == {-3, 4}

\* Results are in half points: a loss of R is -2 * Risk.
OneR == -4
TwoR == -8

=============================================================================
