----------------------------- MODULE MCMarketStream -----------------------------
(* Instances of MarketStream for TLC. *)
EXTENDS MarketStream

CONSTANTS a, b, n1

TwoTokens  == {a, b}
OneScanner == {n1}

=============================================================================
