---------------------------- MODULE CandidateAlerts ----------------------------
(***************************************************************************)
(* The alert of one candidate on one channel, under the key of one day.    *)
(* Every scan of the day that publishes the candidate with enough          *)
(* confidence tries again: reserve, post, complete.  The scans of a        *)
(* process are serialised by _refresh_lock.                                *)
(***************************************************************************)
EXTENDS AlertTable

VARIABLES
  listing, \* "in" if the last scan published the candidate, "out" if not,
           \* "over" when the day of the key is
  row,     \* the row of the candidate's key
  pc,      \* where the scan is
  lag,     \* steps since the scan's captured_at
  ok,      \* what the post returned
  acked,   \* history: answers 2xx that the scan has seen
  since    \* history: steps since the last post

vars == <<listing, row, pc, lag, ok, acked, since>>

Init ==
  /\ listing = "out" /\ row = NoRow /\ pc = "idle" /\ lag = 0 /\ ok = FALSE
  /\ acked = 0 /\ since = Old

\* A scan publishes the candidate, takes captured_at and with it the key.
Capture ==
  /\ pc = "idle" /\ pc' = "scan" /\ lag' = 0
  /\ listing # "over" /\ listing' = "in"
  /\ UNCHANGED <<row, ok, acked, since>>

\* A scan does not publish it, or with less confidence than is asked for.
Pass ==
  /\ pc = "idle" /\ listing = "in" /\ listing' = "out"
  /\ UNCHANGED <<row, pc, lag, ok, acked, since>>

\* The next day has a key of its own.  A scan in progress keeps this one.
DayEnds ==
  /\ listing # "over" /\ listing' = "over"
  /\ UNCHANGED <<row, pc, lag, ok, acked, since>>

Reserve ==
  /\ pc = "scan"
  /\ IF MayReserve(row, lag)
       THEN row' = Reserved(row, lag) /\ pc' = "post"
       ELSE pc' = "idle" /\ UNCHANGED row
  /\ UNCHANGED <<listing, lag, ok, acked, since>>

Posted(answer) ==
  /\ pc = "post" /\ pc' = "complete"
  /\ ok' = answer /\ since' = 0
  /\ acked' = IF answer /\ acked < 2 THEN acked + 1 ELSE acked
  /\ UNCHANGED <<listing, row, lag>>

Accepted == Posted(TRUE)

\* Refused, timed out, or accepted and the answer lost.
NotAccepted == Posted(FALSE)

Complete ==
  /\ pc = "complete" /\ pc' = "idle"
  /\ row' = Completed(row, ok)
  /\ UNCHANGED <<listing, lag, ok, acked, since>>

\* A transaction that raises ends the scan, and so does a crash.  A Telegram
\* token without a chat id ends it before the post: dispatch returns nothing to
\* complete.
Abort ==
  /\ pc # "idle" /\ pc' = "idle"
  /\ UNCHANGED <<listing, row, lag, ok, acked, since>>

Tick ==
  /\ pc = "idle" \/ lag < MaxLag
  /\ row' = Aged(row) /\ since' = Later(since)
  /\ lag' = IF pc = "idle" THEN lag ELSE lag + 1
  /\ UNCHANGED <<listing, pc, ok, acked>>

Next ==
  \/ Capture \/ Pass \/ DayEnds \/ Reserve \/ Accepted \/ NotAccepted
  \/ Complete \/ Abort \/ Tick

Spec == Init /\ [][Next]_vars

\* A published candidate meets another scan, which may publish it or not.
Rescan == listing = "in" /\ (Capture \/ Pass)

\* The scheduler keeps scanning, the database does not raise for ever, and an
\* endpoint that does not always refuse accepts a post in the end.  No scan has
\* to publish the candidate.
Fairness ==
  /\ WF_vars(Rescan) /\ WF_vars(NotAccepted) /\ WF_vars(Complete)
  /\ WF_vars(Tick) /\ SF_vars(Reserve) /\ SF_vars(Accepted)

FairSpec == Spec /\ Fairness

-----------------------------------------------------------------------------
(***************************************************************************)
(* Properties.                                                             *)
(***************************************************************************)

\* Every variable keeps its type, and a scan that is about to post or to
\* record the answer holds the row as PENDING.
TypeOK ==
  /\ listing \in {"in", "out", "over"} /\ row \in Row
  /\ pc \in {"idle", "scan", "post", "complete"}
  /\ lag \in 0 .. MaxLag /\ ok \in BOOLEAN
  /\ acked \in 0 .. 2 /\ since \in 0 .. Old
  /\ pc \in {"post", "complete"} => row.status = "PENDING"

\* repository.py:1012: "Reserve an idempotent alert": an alert that the
\* endpoint is known to have accepted is not accepted again, whatever crashes
\* or raises between the reservation, the post and the completion.
AcceptedOnce == acked <= 1

\* repository.py:1012: "retry failed delivery at most once per five minutes".
\* The five minutes are counted between the captured_at of two scans, so two
\* posts of one alert may be closer by the time a scan takes, and no closer.
SpacedRetry ==
  pc = "post" /\ pc' = "complete" => since >= Retry - MaxLag
RetrySpacing == [][SpacedRetry]_vars

\* A row that a crash, a raising completion or a post without an address leaves
\* PENDING, which no later scan may reserve.
Stranded == pc = "idle" /\ row.status = "PENDING"

\* main.py:443-469: a candidate that scans keep publishing under one key is
\* delivered in the end, unless the endpoint refuses for ever: only a failure
\* between the reservation and the completion loses it.  One that drops out of
\* the scans, or whose day ends, before a refused post was retried is lost too.
EventuallyDelivered ==
  \/ <>(row.status = "DELIVERED" \/ Stranded)
  \/ <>[](listing # "in")

=============================================================================
