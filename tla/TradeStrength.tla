----------------------------- MODULE TradeStrength -----------------------------
(***************************************************************************)
(* The advisory strength of one open paper trade, which update_open_events *)
(* keeps in payload_json: monitor_status and monitor_weak_count.  (The     *)
(* history of the changes of status is left out.)                          *)
(*                                                                         *)
(* Two jobs look at the trade, the scan with the signals it published and  *)
(* the 30-second monitor with prices only.  Each reads the payload before  *)
(* its transaction begins and writes all of it back, and the two overlap.  *)
(***************************************************************************)
EXTENDS Naturals, Sequences

CONSTANTS
  Looks   \* what the scan can find: a subset of AllLooks

AllLooks == {"missing", "stale", "weak", "strong"}

Jobs     == {"scan", "monitor"}
Statuses == {"STRONG", "WEAKENING", "EXIT SIGNAL", "DATA STALE"}

VARIABLES
  trade,    \* "live", or "closed" by a fill or by the market close
  payload,  \* status and weak count of the trade's row
  pc,       \* where each job is in update_open_events
  read,     \* the payload each job read
  looked,   \* history: the looks whose writes committed, the last two
  scanned,  \* history: the last look of the scan
  clobbered \* history: some write rested on a payload that had changed

vars == <<trade, payload, pc, read, looked, scanned, clobbered>>

Unmonitored == [status |-> "none", weak |-> 0]

\* The count matters up to two only.
OneMore(n) == IF n = 0 THEN 1 ELSE 2

\* Mutant: observations that are not weak leave the count alone.
WeakAfterSticky(p, look) ==
  IF look = "weak" THEN OneMore(p.weak) ELSE p.weak

\* Mutant: the count is set and never increased.
WeakAfterFlat(p, look) == IF look = "weak" THEN 1 ELSE 0

WeakAfter(p, look) == IF look = "weak" THEN OneMore(p.weak) ELSE 0

StatusAfter(p, look) ==
  CASE look \in {"missing", "stale"} -> "DATA STALE"
    [] look = "strong" -> "STRONG"
    [] look = "weak" -> IF WeakAfter(p, look) = 2 THEN "EXIT SIGNAL"
                        ELSE "WEAKENING"

LastOf(s, n) == IF Len(s) <= n THEN s ELSE SubSeq(s, Len(s) - n + 1, Len(s))

Observed(p, look) ==
  [status |-> StatusAfter(p, look), weak |-> WeakAfter(p, look)]

\* A stop or target fill overwrites the status.
Filled(p, look) == [Observed(p, look) EXCEPT !.status = "EXIT SIGNAL"]

-----------------------------------------------------------------------------

Init ==
  /\ trade = "live" /\ payload = Unmonitored
  /\ pc = [j \in Jobs |-> "idle"] /\ read = [j \in Jobs |-> Unmonitored]
  /\ looked = << >> /\ scanned = "none" /\ clobbered = FALSE

\* The SELECT of the live trades.
Select(j) ==
  /\ trade = "live" /\ pc[j] = "idle"
  /\ pc' = [pc EXCEPT ![j] = "write"]
  /\ read' = [read EXCEPT ![j] = payload]
  /\ UNCHANGED <<trade, payload, looked, scanned, clobbered>>

\* The monitor passes no signals: a trade with a price then lacks its
\* confirmation, and its price is never called stale.
LooksOf(j) == IF j = "scan" THEN Looks ELSE {"missing", "weak"}

\* The UPDATE by id, of the payload as it was read.  A trade that another
\* job closed meanwhile is written all the same.
Write(j) ==
  /\ pc[j] = "write"
  /\ pc' = [pc EXCEPT ![j] = "idle"]
  /\ \E look \in LooksOf(j) :
       /\ looked' = LastOf(Append(looked, look), 2)
       /\ scanned' = IF j = "scan" THEN look ELSE scanned
       /\ \/ payload' = Observed(read[j], look) /\ trade' = "live"
          \/ /\ look # "missing"
             /\ payload' = Filled(read[j], look) /\ trade' = "closed"
  /\ clobbered' = (clobbered \/ read[j] # payload)
  /\ UNCHANGED read

\* The write fails and the job gives up until its next turn.
Fail(j) ==
  /\ pc[j] = "write"
  /\ pc' = [pc EXCEPT ![j] = "idle"]
  /\ UNCHANGED <<trade, payload, read, looked, scanned, clobbered>>

\* expire_open_events leaves the payload alone.
MarketClose ==
  /\ trade = "live" /\ trade' = "closed"
  /\ UNCHANGED <<payload, pc, read, looked, scanned, clobbered>>

Next == (\E j \in Jobs : Select(j) \/ Write(j) \/ Fail(j)) \/ MarketClose

Spec == Init /\ [][Next]_vars

\* Both jobs keep being scheduled, and a job that is not always failing
\* gets a write through.
Fairness ==
  \A j \in Jobs : WF_vars(Select(j)) /\ SF_vars(Write(j))

FairSpec == Spec /\ Fairness

-----------------------------------------------------------------------------
(***************************************************************************)
(* Properties.                                                             *)
(***************************************************************************)

Payload == [status : Statuses \union {"none"}, weak : 0 .. 2]

\* Every variable keeps its type.
TypeOK ==
  /\ trade \in {"live", "closed"}
  /\ payload \in Payload
  /\ pc \in [Jobs -> {"idle", "write"}]
  /\ read \in [Jobs -> Payload]
  /\ looked \in Seq(AllLooks) /\ scanned \in AllLooks \union {"none"}
  /\ clobbered \in BOOLEAN

BothWeak == Len(looked) = 2 /\ looked[1] = "weak" /\ looked[2] = "weak"

\* repository.py:1457: "Two consecutive weak observations produce an EXIT
\* SIGNAL warning."  Unless a write rested on a payload that the other job
\* had changed, a live trade shows it after two weak looks in a row.
ExitSignalIsEarned ==
  ~clobbered /\ trade = "live" /\ payload.status = "EXIT SIGNAL" => BothWeak

\* A trade whose looks stay weak shows EXIT SIGNAL or is closed: the two jobs
\* cannot undo each other's count for ever.
WeaknessIsSignalled ==
  []<>(trade = "closed" \/ payload.status = "EXIT SIGNAL"
       \/ (Len(looked) > 0 /\ looked[Len(looked)] # "weak"))

-----------------------------------------------------------------------------
(***************************************************************************)
(* What the documents say and the code does not keep.  No configuration    *)
(* checks these; the README tells where TLC finds them violated ("Where    *)
(* the code and its words differ").                                        *)
(***************************************************************************)

\* repository.py:1518: a trade weakens because the "current OI candidate/
\* confirmation is absent from the latest scan", so a trade that the latest
\* scan found strong does not show EXIT SIGNAL.
ExitSignalNeedsScan ==
  trade = "live" /\ payload.status = "EXIT SIGNAL" => scanned # "strong"

=============================================================================
