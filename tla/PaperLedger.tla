----------------------------- MODULE PaperLedger -----------------------------
(***************************************************************************)
(* What the scalp engine and its table promise, whatever fails: a ledger   *)
(* of paper trades.  A trade is opened once, for a symbol that has no      *)
(* other open trade and only below the cap; it is closed once; it may be   *)
(* dropped from the history after it was closed, and never comes back.     *)
(***************************************************************************)
EXTENDS Naturals, FiniteSets

CONSTANTS
  Symbols, Trades, Cap

VARIABLES
  life,   \* of each trade: "new", "open", "closed" or "dropped"
  of      \* the symbol of each open trade, None otherwise

None == "none"
ledger == <<life, of>>

LedgerInit ==
  /\ life = [t \in Trades |-> "new"]
  /\ of = [t \in Trades |-> None]

OpenTrades == {t \in Trades : life[t] = "open"}

OpenTrade(t, s) ==
  /\ life[t] = "new"
  /\ Cardinality(OpenTrades) < Cap
  /\ \A u \in OpenTrades : of[u] # s
  /\ life' = [life EXCEPT ![t] = "open"]
  /\ of' = [of EXCEPT ![t] = s]

\* The rollover repair closes several at once.
CloseTrades(T) ==
  /\ T # {} /\ T \subseteq OpenTrades
  /\ life' = [t \in Trades |-> IF t \in T THEN "closed" ELSE life[t]]
  /\ of' = [t \in Trades |-> IF t \in T THEN None ELSE of[t]]

DropTrades(T) ==
  /\ T # {} /\ \A t \in T : life[t] = "closed"
  /\ life' = [t \in Trades |-> IF t \in T THEN "dropped" ELSE life[t]]
  /\ UNCHANGED of

LedgerNext ==
  \/ \E t \in Trades, s \in Symbols : OpenTrade(t, s)
  \/ \E T \in SUBSET Trades : CloseTrades(T) \/ DropTrades(T)

LedgerSpec == LedgerInit /\ [][LedgerNext]_ledger

=============================================================================
