------------------------------ MODULE ScalpLedger ------------------------------
(* The paper ledger that the scalp engine and its table implement. *)
EXTENDS ScalpEngine

\* The refinement mapping: a trade is what its row says; a trade that was
\* entered and has no row any more was dropped.
RowsOf(t) == {i \in Ids : rows[i] # NoRow /\ rows[i].trade = t}
RowOf(t)  == rows[CHOOSE i \in RowsOf(t) : TRUE]
LifeOf(t) ==
  IF t > entries THEN "new"
  ELSE IF RowsOf(t) = {} THEN "dropped"
  ELSE IF RowOf(t).status = "OPEN" THEN "open" ELSE "closed"

Ledger == INSTANCE PaperLedger WITH
  Cap  <- MaxConcurrent,
  life <- [t \in Trades |-> LifeOf(t)],
  of   <- [t \in Trades |-> IF LifeOf(t) = "open" THEN RowOf(t).sym ELSE "none"]

\* The engine and its table implement the paper ledger: no position is
\* opened twice, lost while open, reopened or resurrected.
ImplementsLedger == Ledger!LedgerSpec

=============================================================================
