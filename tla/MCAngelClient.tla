----------------------------- MODULE MCAngelClient -----------------------------
(* Instances of AngelClient for TLC. *)
EXTENDS AngelClient

CONSTANTS t1, t2

TwoThreads == {t1, t2}

=============================================================================
