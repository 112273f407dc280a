------------------------------- MODULE DailyBars -------------------------------
(***************************************************************************)
(* The daily bars of the F&O stocks.  Batches of names are filled from the *)
(* broker's daily candles: a few names each minute of the session, one     *)
(* larger batch after the close, and one at the start of the process.  At  *)
(* 18:10 the exchange's bhavcopy, if it is to be had, gives every name its *)
(* bar of the day.                                                         *)
(*                                                                         *)
(* The broker's candles of a running session end with the bar that is      *)
(* still forming, and the batch stores it with the others.                 *)
(***************************************************************************)
EXTENDS Naturals, FiniteSets

CONSTANTS
  Names,       \* numbers, in the order of the alphabet
  Unfillable,  \* the names of which fewer than 60 bars are to be had
  DayCap,      \* 3: the names of a batch of the session, or of the start
  CloseCap,    \* 60: the names of the batch after the close
  Batches      \* how many batches a session has time for

VARIABLES
  phase,  \* "pre", "open", "close" from 15:30, "late" from 18:30
  bars,   \* of each name: "none", "short", or "deep" from 60
  newest, \* trading days since the date of the newest bar
  forming,\* trading days since the date of a bar that was forming
  todo,   \* the names of the batch that are left
  rows,   \* what the batch fetched of the first of them
  room,   \* bound: batches the session still has time for
  jobs,   \* the jobs of after the close that are still to come today
  last    \* history: what the last step did

table == <<bars, newest, forming>>
vars  == <<phase, table, todo, rows, room, jobs, last>>

\* All names that can be filled; of the others nothing matters.
Fillable == Names \ Unfillable

\* This many trading days or more, or never.
Ago   == 2
Never == Ago + 1
Older(n) == IF n < Ago THEN n + 1 ELSE n

NoRows == "none"
AllJobs == {"topup", "bhavcopy"}

-----------------------------------------------------------------------------
(***************************************************************************)
(* What a batch takes.                                                     *)
(***************************************************************************)

\* The date that is expected is the day before, and today's from 18:30.
Expected == IF phase = "late" THEN 0 ELSE 1

Short(n) == n \in Unfillable \/ bars[n] # "deep"

\* Mutant: the newest bar of the whole table is looked at.
StaleTable(n) == \A m \in Fillable : newest[m] > Expected

Stale(n) == newest[n] > Expected

Wanted == {n \in Names : Short(n) \/ Stale(n)}

First(cap) == {n \in Wanted : Cardinality({m \in Wanted : m < n}) < cap}

\* The summary of the table: its fewest bars of a name that has any, and its
\* newest date.  Unfillable names may have bars.
Summarised == \/ \E n \in Fillable : bars[n] = "short"
              \/ \A n \in Fillable : Stale(n)
StartupTodo ==
  {First(DayCap)} \union (IF Summarised THEN {} ELSE {{}})

Init ==
  /\ phase = "pre"
  /\ bars \in [Fillable -> {"none", "short", "deep"}]
  /\ newest = [n \in Fillable |-> IF bars[n] = "none" THEN Never ELSE Ago]
  /\ forming = [n \in Fillable |-> Never]
  /\ todo \in StartupTodo /\ rows = NoRows
  /\ room = 0 /\ jobs = {} /\ last = "filled"

Idle == todo = {}

\* Every minute of the session.
Daytime ==
  /\ phase = "open" /\ Idle /\ room > 0 /\ room' = room - 1
  /\ todo' = First(DayCap) /\ last' = "filled"
  /\ UNCHANGED <<phase, table, rows, jobs>>

\* At 16:05.
PostClose ==
  /\ phase = "close" /\ Idle
  /\ "topup" \in jobs /\ jobs' = jobs \ {"topup"}
  /\ todo' = First(CloseCap) /\ last' = "filled"
  /\ UNCHANGED <<phase, table, rows, room>>

-----------------------------------------------------------------------------
(***************************************************************************)
(* A batch, name by name.                                                  *)
(***************************************************************************)

Current == CHOOSE n \in todo : \A m \in todo : n <= m

\* What the broker has: bars up to the day before, a bar of today that is
\* forming, or today's final bar.
BrokerRows ==
  CASE phase = "pre"  -> "before"
    [] phase = "open" -> "forming"
    [] OTHER          -> "final"

Fetched(r) ==
  /\ ~Idle /\ rows = NoRows /\ rows' = r
  /\ UNCHANGED <<phase, table, todo, room, jobs>>

Answered == Fetched(BrokerRows) /\ last' = "filled"

\* The broker fails and the exchange answers, up to the date expected when the
\* batch began.
Fallback ==
  /\ \/ Fetched("before")
     \/ phase = "late" /\ Fetched("final")
  /\ last' = IF Current \in Fillable THEN "failed" ELSE "filled"

\* INSERT ... ON CONFLICT DO UPDATE.
Newest(n, r) ==
  IF r # "before" THEN 0 ELSE IF newest[n] > 1 THEN 1 ELSE newest[n]

\* Mutant: a bar that is there already stays as it is.
FormingKept(n, r) ==
  IF forming[n] # Never THEN forming[n]
  ELSE IF r = "forming" THEN 0 ELSE Never

Forming(n, r) ==
  CASE r = "forming" -> 0
    [] r = "final"   -> Never
    [] r = "before"  -> IF forming[n] = 0 THEN 0 ELSE Never

Store ==
  /\ rows # NoRows /\ rows' = NoRows /\ last' = "filled"
  /\ todo' = todo \ {Current}
  /\ IF Current \in Unfillable THEN UNCHANGED table
     ELSE /\ bars' = [bars EXCEPT ![Current] = "deep"]
          /\ newest' = [newest EXCEPT ![Current] = Newest(Current, rows)]
          /\ forming' = [forming EXCEPT ![Current] = Forming(Current, rows)]
  /\ UNCHANGED <<phase, room, jobs>>

\* No rows, or the transaction raises.
Skip ==
  /\ ~Idle /\ rows' = NoRows
  /\ todo' = todo \ {Current} /\ last' = IF Current \in Fillable THEN "failed" ELSE "filled"
  /\ UNCHANGED <<phase, table, room, jobs>>

\* Refused for the rate of the requests: the batch stops.
RateLimited ==
  /\ ~Idle /\ rows = NoRows
  /\ todo' = {} /\ last' = "failed"
  /\ UNCHANGED <<phase, table, rows, room, jobs>>

-----------------------------------------------------------------------------
(***************************************************************************)
(* The other jobs, the process and the day.                                *)
(***************************************************************************)

\* At 18:10, if the exchange lets it be had.  (That sixty of them make a name
\* deep is left out.)
Bhavcopy ==
  /\ phase = "close"
  /\ "bhavcopy" \in jobs /\ jobs' = jobs \ {"bhavcopy"}
  /\ \/ /\ last' = "published"
        /\ bars' = [n \in Fillable |->
             IF bars[n] = "none" THEN "short" ELSE bars[n]]
        /\ newest' = [n \in Fillable |-> 0]
        /\ forming' = [n \in Fillable |->
             IF forming[n] = 0 THEN Never ELSE forming[n]]
     \/ last' = "filled" /\ UNCHANGED table
  /\ UNCHANGED <<phase, todo, rows, room>>

\* The batch is lost, and so are jobs whose time passes meanwhile.
Restart ==
  /\ rows' = NoRows /\ todo' \in StartupTodo
  /\ jobs' \in SUBSET jobs /\ last' = "failed"
  /\ UNCHANGED <<phase, table, room>>

Opens ==
  /\ phase = "pre" /\ phase' = "open" /\ room' = Batches
  /\ UNCHANGED <<table, todo, rows, jobs>>

Closes ==
  /\ phase = "open" /\ room = 0 /\ phase' = "close" /\ jobs' = AllJobs
  /\ UNCHANGED <<table, todo, rows, room>>

\* 18:30.
Publishes ==
  /\ phase = "close" /\ jobs = {} /\ phase' = "late"
  /\ UNCHANGED <<table, todo, rows, room, jobs>>

\* Midnight before a trading day.  (No batch is under way.)
Midnight ==
  /\ phase = "late" /\ Idle /\ phase' = "pre"
  /\ newest' = [n \in Fillable |-> Older(newest[n])]
  /\ forming' = [n \in Fillable |-> Older(forming[n])]
  /\ UNCHANGED <<bars, todo, rows, room, jobs>>

Clock == (Opens \/ Closes \/ Publishes \/ Midnight) /\ last' = "filled"

Batch == Answered \/ Fallback \/ Store \/ Skip \/ RateLimited

Next == Daytime \/ PostClose \/ Batch \/ Bhavcopy \/ Restart \/ Clock

Spec == Init /\ [][Next]_vars

\* The scheduler runs, and the requests of a batch have timeouts.
Fairness ==
  /\ WF_vars(Daytime) /\ WF_vars(PostClose) /\ WF_vars(Bhavcopy)
  /\ WF_vars(Answered) /\ WF_vars(Store) /\ WF_vars(Clock)

FairSpec == Spec /\ Fairness

-----------------------------------------------------------------------------
(***************************************************************************)
(* Properties.                                                             *)
(***************************************************************************)

\* Every variable keeps its type.
TypeOK ==
  /\ phase \in {"pre", "open", "close", "late"}
  /\ bars \in [Fillable -> {"none", "short", "deep"}]
  /\ newest \in [Fillable -> 0 .. Never]
  /\ forming \in [Fillable -> 0 .. Never]
  /\ todo \subseteq Names /\ rows \in {NoRows, "before", "forming", "final"}
  /\ room \in 0 .. Batches /\ jobs \subseteq AllJobs 
  /\ last \in {"filled", "failed", "published"}

\* From some time on the process runs and names that can be filled are.
Untroubled == <>[](last # "failed")

\* The exchange refuses its files for good.
Unpublished == <>[](last # "published")

\* main.py:855: "repair symbols whose depth is sufficient but whose newest
\* daily bar is stale": once the broker answers, every name that can be filled
\* has its depth and the session's expected date by the evening, though
\* unfillable names are at the head of every batch and no batch has room for
\* all.
NamesAreFilled ==
  Untroubled =>
    <>[](phase = "late" =>
           \A n \in Fillable : bars[n] = "deep" /\ newest[n] <= 1)

\* main.py:840: while the exchange refuses its files, as it "is persistently
\* returning HTTP 403", a bar that was stored while its session ran is gone by
\* the evening of the session after the next: no batch looks for such bars, but
\* they are replaced with the rest when the name goes stale.
FormingBarsAreReplaced ==
  Untroubled /\ Unpublished =>
    <>[](phase = "late" => \A n \in Fillable : forming[n] # Ago)

-----------------------------------------------------------------------------
(***************************************************************************)
(* What the documents say and the code does not keep.  No configuration    *)
(* checks these; the README tells where TLC finds them violated ("Where    *)
(* the code and its words differ").                                        *)
(***************************************************************************)

\* main.py:824: the backfill's boundary is "the latest expected published
\* bhavcopy date".  The request to the broker takes no end date: the bar that
\* an open session leaves is the previous close of the next day.
PreviousCloseIsFinal ==
  phase = "open" => \A n \in Fillable : forming[n] # 1

\* repository.py:426: storing a file of the exchange is "replacing only matching
\* date/symbol bars".  A name that the exchange keeps fresh is not fetched again,
\* and a bar of a running session stays for as long.
FormingBarsNeverStay ==
  Untroubled =>
    <>[](phase = "late" => \A n \in Fillable : forming[n] # Ago)

\* main.py:181: the start backfills unless there are "both a current published
\* date and enough depth".  The summary is that of the whole table.
StartNoticesGaps == [][Restart /\ Wanted # {} => todo' # {}]_vars

=============================================================================
