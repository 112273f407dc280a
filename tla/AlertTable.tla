------------------------------- MODULE AlertTable ------------------------------
(***************************************************************************)
(* One row of alert_deliveries, which makes an alert idempotent: it is     *)
(* reserved before the post and completed after it, in two transactions.   *)
(* Time is counted in steps, Retry of them to the five minutes.            *)
(***************************************************************************)
EXTENDS Naturals

CONSTANTS
  Retry,   \* 300 s
  MaxLag   \* the longest a scan takes from captured_at to its post

ASSUME AlertAssumption == Retry \in Nat \ {0} /\ MaxLag \in Nat

\* Ages beyond this one are all alike.
Old == Retry + MaxLag

Row == [status : {"none", "PENDING", "DELIVERED", "FAILED"}, age : 0 .. Old]

NoRow == [status |-> "none", age |-> Old]

\* Mutant: the retry does not ask for a failure.
MayReserveAny(row, lag) ==
  row.status = "none" \/ row.age - lag >= Retry

\* Mutant: INSERT OR IGNORE and no retry.
MayReserveNew(row, lag) == row.status = "none"

\* Mutant: the retry does not wait.
MayReserveNow(row, lag) == row.status \in {"none", "FAILED"}

\* INSERT OR IGNORE of a new key, or the retry of a failed one.  Both times
\* are a job's observed_at, lag steps ago for the caller.
MayReserve(row, lag) ==
  \/ row.status = "none"
  \/ row.status = "FAILED" /\ row.age - lag >= Retry

Reserved(row, lag) == [status |-> "PENDING", age |-> lag]

Completed(row, delivered) ==
  [row EXCEPT !.status = IF delivered THEN "DELIVERED" ELSE "FAILED"]

Later(n) == IF n < Old THEN n + 1 ELSE Old
Aged(row) == [row EXCEPT !.age = Later(@)]

=============================================================================
