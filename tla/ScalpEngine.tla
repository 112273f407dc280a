----------------------------- MODULE ScalpEngine -----------------------------
(***************************************************************************)
(* The paper-scalp engine of signal_engine/scalp_chain.py together with    *)
(* the scalp_events table of database/repository.py that backs it.         *)
(*                                                                         *)
(* One worker runs refresh() (APScheduler, max_instances = 1): it manages  *)
(* the positions held in memory, one symbol at a time, and then may scan   *)
(* for new entries, one candidate at a time.  The wall clock moves while   *)
(* it runs, the process may die between any two steps, a SQLite write may  *)
(* raise, and an HTTP reader of the history may purge rows at any moment.  *)
(*                                                                         *)
(* A trading day is cut at the instants the code compares the clock with:  *)
(*   0  before 09:15        1  09:15-09:30        2  09:30-15:00           *)
(*   3  15:00-15:15         4  15:15-15:30        5  15:30-24:00           *)
(***************************************************************************)
EXTENDS Integers, FiniteSets, Sequences

CONSTANTS
  Symbols,        \* F&O underlyings the universe can offer
  MaxConcurrent,  \* MAX_CONCURRENT, scalp_chain.py:37
  TopN,           \* TOP_N, candidates examined per refresh
  Premiums,       \* option premiums the chain can quote (positive)
  StopPct,        \* OPTION_STOP_PCT
  TargetPct,      \* OPTION_TARGET_PCT
  TrailPct,       \* TRAIL_DRAWDOWN_PCT
  KeepSamples,    \* learning samples kept (100 in the code)
  LoadMayFail,    \* may open_scalps() raise while positions are restored?
  LastDay,        \* bound: days 0 .. LastDay are explored
  MaxTrades,      \* bound: entries over the whole behaviour
  MaxCrashes      \* bound: process deaths over the whole behaviour

ASSUME ConstantsAssumption ==
  /\ MaxConcurrent \in Nat \ {0}
  /\ TopN \in Nat \ {0}
  /\ Premiums \subseteq Nat \ {0}
  /\ Premiums # {}
  /\ StopPct \in Nat \ {0}
  /\ TargetPct \in Nat
  /\ TrailPct \in Nat \ {0}
  /\ KeepSamples \in Nat \ {0}
  /\ LoadMayFail \in BOOLEAN
  /\ LastDay \in Nat
  /\ MaxTrades \in Nat
  /\ MaxCrashes \in Nat

Days   == 0 .. LastDay
Phases == 0 .. 5
Trades == 1 .. MaxTrades
Ids    == 1 .. MaxTrades      \* rowids: never more rows than entries

EntryPhase    == 2            \* ENTRY_START .. ENTRY_END
HardFlatPhase == 4            \* from ABSOLUTE_EXIT on
QuotePhases   == 1 .. 4       \* 09:15 .. 15:30

Reasons == {"none", "CLOCK", "OPTION_STOP", "MOMENTUM_WEAK",
            "TRAILING_MOMENTUM_WEAK", "SESSION_ROLLOVER_UNPRICED"}

NoRow   == [status |-> "absent"]
NotHeld == [id |-> 0]

(***************************************************************************)
(* A row of scalp_events.  "at" is the phase of entry_time_ist, "exit"     *)
(* tells a NULL exit_option_ltp from a quoted one; "trade" numbers the     *)
(* entries for the properties, it is not a column.                         *)
(***************************************************************************)
Row == [status : {"OPEN", "CLOSED"}, trade : Trades, sym : Symbols,
        day : Days, at : Phases, entry : Premiums,
        exit : {"NULL", "QUOTE"}, reason : Reasons]

\* What the engine remembers of a position in _open.  "weak" saturates at
\* 2: the code only compares it with 1 and 2.
Position == [id : Ids, entry : Premiums, peak : Premiums,
             armed : BOOLEAN, weak : 0 .. 2]

VARIABLES
  day, phase,     \* now_ist()
  rows,           \* scalp_events, by rowid
  samples,        \* scalp_quality_samples: the trades, oldest first
  open,           \* ScalpChainEngine._open, by symbol
  pc,             \* where the refresh worker is; "down": no process
  rday, rphase,   \* `now` as read when this refresh started
  todo,           \* symbols _manage_open has not reached yet
  cands,          \* candidates refresh() has not reached yet
  crashes,        \* deaths so far
  entries,        \* history: number of entries made
  weakRun,        \* history: weak looks at a trade since its last strong one
  audit           \* trades whose observations scalp_monitor_snapshots holds
                  \* under an event id

clock  == <<day, phase>>
store  == <<rows, samples>>
worker == <<pc, rday, rphase, todo, cands>>
vars   == <<clock, store, open, worker, crashes, entries, weakRun, audit>>

Held      == {s \in Symbols : open[s] # NotHeld}
OpenIds   == {i \in Ids : rows[i].status = "OPEN"}
UpToTwo(n) == IF n >= 2 THEN 2 ELSE n

-----------------------------------------------------------------------------
(***************************************************************************)
(* The exit rules, _exit_reason.  A look at a position is a pair of a      *)
(* quoted premium and the underlying context: "strong", "weak", or "none"  *)
(* when no fresh context could be built.                                   *)
(***************************************************************************)
Contexts == {"none", "weak", "strong"}

\* _chain: the exact contract can be quoted while the option market is open,
\* and whether it is quoted is up to the broker.
Quotable == rphase \in QuotePhases

StopHit(entry, q) == (q - entry) * 100 <= -(StopPct * entry)

PeakAfter(pos, q) == IF q > pos.peak THEN q ELSE pos.peak

ArmedAfter(pos, q) ==
  \/ pos.armed
  \/ /\ TargetPct > 0
     /\ (PeakAfter(pos, q) - pos.entry) * 100 >= TargetPct * pos.entry

\* Mutant: a strong look does not reset the count.
WeakAfterNoReset(pos, ctx) ==
  IF ctx = "weak" THEN UpToTwo(pos.weak + 1) ELSE pos.weak

\* A missing context is not evidence of weakness: the count stays.
WeakAfter(pos, ctx) ==
  CASE ctx = "weak"   -> UpToTwo(pos.weak + 1)
    [] ctx = "strong" -> 0
    [] ctx = "none"   -> pos.weak

\* The position as the look leaves it; a protective stop returns before
\* anything is remembered.
PositionAfter(pos, ctx, q) ==
  IF StopHit(pos.entry, q) THEN pos
  ELSE [id |-> pos.id, entry |-> pos.entry,
        peak  |-> PeakAfter(pos, q),
        armed |-> ArmedAfter(pos, q),
        weak  |-> WeakAfter(pos, ctx)]

DrawdownHit(pos, q) == (pos.peak - q) * 100 >= TrailPct * pos.peak

\* A context that is present decides momentum weakness at once; a missing
\* one leaves the count, so only the trailing rule can still fire.
ExitReason(pos, ctx, q) ==
  LET after == PositionAfter(pos, ctx, q)
  IN  CASE StopHit(pos.entry, q)                 -> "OPTION_STOP"
        [] /\ ~StopHit(pos.entry, q)
           /\ ctx # "none" /\ after.weak >= 2    -> "MOMENTUM_WEAK"
        [] /\ ~StopHit(pos.entry, q)
           /\ ctx = "none" \/ after.weak < 2
           /\ after.armed /\ DrawdownHit(after, q)
           /\ after.weak >= 1                    -> "TRAILING_MOMENTUM_WEAK"
        [] OTHER                                 -> "none"

-----------------------------------------------------------------------------
(***************************************************************************)
(* The store.                                                              *)
(***************************************************************************)

\* INTEGER PRIMARY KEY without AUTOINCREMENT: one above the largest rowid
\* present, so a purge of the newest rows gives their ids away again.
IsNextId(i) ==
  /\ \A j \in Ids : rows[j] # NoRow => j < i
  /\ i > 1 => rows[i - 1] # NoRow

\* close_scalp: an unguarded UPDATE by id; a quoted exit of an entry that
\* recorded its evidence becomes a learning sample.
Closed(row, exit, reason) ==
  [row EXCEPT !.status = "CLOSED", !.exit = exit, !.reason = reason]


SampleAdded(trade) ==
  LET all == Append(samples, trade)
      len == Len(all)
  IN  IF len <= KeepSamples THEN all ELSE SubSeq(all, len - KeepSamples + 1, len)

CloseScalp(i, exit, reason) ==
  /\ rows' = [rows EXCEPT ![i] = Closed(rows[i], exit, reason)]
  /\ samples' = IF exit = "QUOTE" THEN SampleAdded(rows[i].trade) ELSE samples

\* Mutant: the repair forgets the status test.
StaleAnyStatus(row) == row # NoRow /\ row.day < day

\* _repair_scalp_event_integrity: an OPEN row of an earlier day is closed
\* without an exit.  Its first half, for CLOSED rows with the mark
\* "option_quote_unavailable", is left out: nothing writes that mark any more.
Stale(row) == row.status = "OPEN" /\ row.day < day

Repaired ==
  [i \in Ids |-> IF Stale(rows[i])
                 THEN Closed(rows[i], "NULL", "SESSION_ROLLOVER_UNPRICED")
                 ELSE rows[i]]

\* Mutant: the purge forgets the status test.
PurgeableAnyStatus(row) ==
  row.day < day /\ row.reason # "SESSION_ROLLOVER_UNPRICED"

\* scalp_events_for_date: what a reader of today's history deletes.
Purgeable(row) ==
  /\ row.status = "CLOSED"
  /\ row.day < day
  /\ row.reason # "SESSION_ROLLOVER_UNPRICED"

-----------------------------------------------------------------------------
Init ==
  /\ day = 0 /\ phase = 0
  /\ rows = [i \in Ids |-> NoRow]
  /\ samples = <<>>
  /\ open = [s \in Symbols |-> NotHeld]
  /\ pc = "idle" /\ rday = 0 /\ rphase = 0
  /\ todo = {} /\ cands = {}
  /\ crashes = 0 /\ entries = 0
  /\ weakRun = [t \in Trades |-> 0]
  /\ audit = [i \in Ids |-> {}]

\* A refresh makes a bounded number of calls with bounded timeouts: it
\* never spans two of the day's boundaries.
OneBoundaryPerRefresh ==
  pc \in {"manage", "scan"} => rday = day /\ rphase = phase

Tick ==
  /\ OneBoundaryPerRefresh
  /\ \/ /\ phase < 5
        /\ phase' = phase + 1
        /\ day' = day
     \/ /\ phase = 5 /\ day < LastDay
        /\ phase' = 0
        /\ day' = day + 1
  /\ UNCHANGED <<store, open, worker, crashes, entries, weakRun, audit>>

-----------------------------------------------------------------------------
(***************************************************************************)
(* refresh(): the clock is read once; _manage_open reads it again at once  *)
(* and is given the same reading.                                          *)
(***************************************************************************)
RefreshStart ==
  /\ pc = "idle"
  /\ pc' = "manage"
  /\ rday' = day /\ rphase' = phase
  /\ todo' = Held
  /\ UNCHANGED <<clock, store, open, cands, crashes, entries, weakRun, audit>>

\* An exception leaves refresh(); scheduled_scalp_refresh only logs it.
RefreshAborted ==
  /\ pc' = "idle"
  /\ rday' = 0 /\ rphase' = 0
  /\ todo' = {} /\ cands' = {}

\* _record_monitor_snapshot swallows its own failures.
Observed(i) ==
  \/ audit' = [audit EXCEPT ![i] = @ \union {rows[i].trade}]
  \/ UNCHANGED audit

\* Mutant: the exit clock is only honoured in its own minute range.
DueOnlyAtHardFlat == rphase = HardFlatPhase

Due == rphase >= HardFlatPhase

\* No exact quote and not due: the position is left for the next cycle.
ManageUnquoted(s) ==
  /\ pc = "manage" /\ s \in todo /\ ~Due
  /\ Observed(open[s].id)
  /\ todo' = todo \ {s}
  /\ UNCHANGED <<clock, store, open, pc, rday, rphase, cands, crashes,
                 entries, weakRun>>

\* History: the run of weak looks the exit rule was shown for a trade.
WeakRunAfter(t, ctx) ==
  CASE ctx = "weak"   -> UpToTwo(weakRun[t] + 1)
    [] ctx = "strong" -> 0
    [] ctx = "none"   -> weakRun[t]

Looked(s, ctx, q) ==
  weakRun' = IF StopHit(open[s].entry, q) THEN weakRun
             ELSE LET t == rows[open[s].id].trade
                  IN  [weakRun EXCEPT ![t] = WeakRunAfter(t, ctx)]

ManageHold(s, ctx, q) ==
  /\ pc = "manage" /\ s \in todo /\ ~Due
  /\ Quotable
  /\ ExitReason(open[s], ctx, q) = "none"
  /\ open' = [open EXCEPT ![s] = PositionAfter(open[s], ctx, q)]
  /\ Looked(s, ctx, q)
  /\ Observed(open[s].id)
  /\ todo' = todo \ {s}
  /\ UNCHANGED <<clock, store, pc, rday, rphase, cands, crashes, entries>>

\* close_scalp commits, then the symbol is popped from _open.
Close(s, exit, reason) ==
  /\ CloseScalp(open[s].id, exit, reason)
  /\ open' = [open EXCEPT ![s] = NotHeld]
  /\ todo' = todo \ {s}
  /\ UNCHANGED <<pc, rday, rphase, cands>>

\* Mutant: the symbol is popped before close_scalp is called.
ClosePopsFirst(s, pos) ==
  /\ open' = [open EXCEPT ![s] = NotHeld]
  /\ RefreshAborted
  /\ UNCHANGED store

\* Mutant: what fails comes after the commit and before the pop, so that
\* the next refresh closes, and learns from, the same trade again.
CloseRaisesCommitted(s, pos) ==
  /\ Quotable
  /\ CloseScalp(open[s].id, "QUOTE", "CLOCK")
  /\ open' = [open EXCEPT ![s] = pos]
  /\ RefreshAborted

\* close_scalp raises: the position stays, with what the look left in it,
\* and the rest of this refresh is lost.
CloseRaises(s, pos) ==
  /\ open' = [open EXCEPT ![s] = pos]
  /\ RefreshAborted
  /\ UNCHANGED store

ManageExit(s, ctx, q) ==
  LET reason == ExitReason(open[s], ctx, q)
  IN  /\ pc = "manage" /\ s \in todo /\ ~Due
      /\ Quotable
      /\ reason # "none"
      /\ \/ Close(s, "QUOTE", reason)
         \/ CloseRaises(s, PositionAfter(open[s], ctx, q))
      /\ Looked(s, ctx, q)
      /\ Observed(open[s].id)
      /\ UNCHANGED <<clock, crashes, entries>>

\* The hard flat closes with or without a quote.
HardFlat(s, exit) ==
  /\ pc = "manage" /\ s \in todo /\ Due
  /\ exit = "QUOTE" => Quotable
  /\ Close(s, exit, "CLOCK")
  /\ Observed(open[s].id)
  /\ UNCHANGED <<clock, crashes, entries, weakRun>>

HardFlatRaises(s) ==
  /\ pc = "manage" /\ s \in todo /\ Due
  /\ CloseRaises(s, open[s])
  /\ Observed(open[s].id)
  /\ UNCHANGED <<clock, crashes, entries, weakRun>>

-----------------------------------------------------------------------------
(***************************************************************************)
(* The entry scan.                                                         *)
(***************************************************************************)

\* Mutant: entries are allowed until the hard flat.
ScanAllowedLate ==
  /\ rphase \in EntryPhase .. EntryPhase + 1
  /\ Cardinality(Held) < MaxConcurrent

\* Every gate is judged with the clock read when the refresh started.
ScanAllowed ==
  /\ rphase = EntryPhase
  /\ Cardinality(Held) < MaxConcurrent

\* The ranked universe skips held symbols; banned ones never get further
\* than the loop's first test, and are left out of cands here.
ScanStart ==
  /\ pc = "manage" /\ todo = {}
  /\ ScanAllowed
  /\ \E C \in SUBSET (Symbols \ Held) :
       /\ Cardinality(C) <= TopN
       /\ cands' = C
  /\ pc' = "scan"
  /\ UNCHANGED <<clock, store, open, rday, rphase, todo, crashes, entries,
                 weakRun, audit>>

\* Outside the window, at the cap, Angel not configured or ban list
\* unknown: refresh() returns after managing.
NoScan ==
  /\ pc = "manage" /\ todo = {}
  /\ RefreshAborted
  /\ UNCHANGED <<clock, store, open, crashes, entries, weakRun, audit>>

\* No chain, or _chain_confirmation rejects it: for its liquidity or spread, a
\* premium that does not follow, or no earlier snapshot to compare with.
SkipCandidate(s) ==
  /\ pc = "scan" /\ s \in cands
  /\ Cardinality(Held) < MaxConcurrent
  /\ cands' = cands \ {s}
  /\ UNCHANGED <<clock, store, open, pc, rday, rphase, todo, crashes,
                 entries, weakRun, audit>>

EntryRow(s, p) ==
  [status |-> "OPEN", trade |-> entries + 1, sym |-> s, day |-> day,
   at |-> phase, entry |-> p, exit |-> "NULL", reason |-> "none"]

FreshPosition(i, p) ==
  [id |-> i, entry |-> p, peak |-> p, armed |-> FALSE, weak |-> 0]

\* Mutant: the cap is only checked before the loop.
EnterUncapped(s, p) ==
  /\ pc = "scan" /\ s \in cands
  /\ entries < MaxTrades
  /\ \E i \in Ids :
       /\ IsNextId(i)
       /\ rows' = [rows EXCEPT ![i] = EntryRow(s, p)]
       /\ open' = [open EXCEPT ![s] = FreshPosition(i, p)]
  /\ entries' = entries + 1
  /\ cands' = cands \ {s}
  /\ UNCHANGED <<clock, samples, pc, rday, rphase, todo, crashes, weakRun,
                 audit>>

\* _enter: a second reading of the clock, the INSERT, then _open.
Enter(s, p) ==
  /\ pc = "scan" /\ s \in cands
  /\ Cardinality(Held) < MaxConcurrent
  /\ entries < MaxTrades
  /\ \E i \in Ids :
       /\ IsNextId(i)
       /\ rows' = [rows EXCEPT ![i] = EntryRow(s, p)]
       /\ open' = [open EXCEPT ![s] = FreshPosition(i, p)]
  /\ entries' = entries + 1
  /\ cands' = cands \ {s}
  /\ UNCHANGED <<clock, samples, pc, rday, rphase, todo, crashes, weakRun,
                 audit>>

\* The INSERT raises; nothing was put in _open.
EnterRaises(s) ==
  /\ pc = "scan" /\ s \in cands
  /\ Cardinality(Held) < MaxConcurrent
  /\ RefreshAborted
  /\ UNCHANGED <<clock, store, open, crashes, entries, weakRun, audit>>

\* The list is exhausted, or the cap is reached in the middle of it.
ScanEnd ==
  /\ pc = "scan"
  /\ cands = {} \/ Cardinality(Held) >= MaxConcurrent
  /\ RefreshAborted
  /\ UNCHANGED <<clock, store, open, crashes, entries, weakRun, audit>>

-----------------------------------------------------------------------------
(***************************************************************************)
(* The process: death at any step, restart on the same database, and the   *)
(* reader whose SELECT is preceded by a DELETE.                            *)
(***************************************************************************)
Crash ==
  /\ pc # "down" /\ crashes < MaxCrashes
  /\ pc' = "down"
  /\ crashes' = crashes + 1
  /\ open' = [s \in Symbols |-> NotHeld]
  /\ rday' = 0 /\ rphase' = 0 /\ todo' = {} /\ cands' = {}
  /\ UNCHANGED <<clock, store, entries, weakRun, audit>>

\* _load_open_events: today's OPEN rows, the newest of a symbol winning;
\* peak, arming and weak count were never stored.
Loadable(R, s) ==
  {i \in Ids : R[i].status = "OPEN" /\ R[i].day = day /\ R[i].sym = s}

Loaded(R, s) ==
  IF Loadable(R, s) = {} THEN NotHeld
  ELSE LET i == CHOOSE i \in Loadable(R, s) :
                  \A j \in Loadable(R, s) : j <= i
       IN  FreshPosition(i, R[i].entry)

\* The import repairs the table and loads the positions before any job runs.
\* The start does both again, after the restore of the disk.
Restart ==
  /\ pc = "down"
  /\ pc' = "idle"
  /\ rows' = Repaired
  /\ open' = [s \in Symbols |-> Loaded(Repaired, s)]
  /\ UNCHANGED <<clock, samples, rday, rphase, todo, cands, crashes,
                 entries, weakRun, audit>>

\* The exception is logged and the engine goes on with what it had read.
RestartLoadRaises ==
  /\ LoadMayFail
  /\ pc = "down"
  /\ pc' = "idle"
  /\ rows' = Repaired
  /\ \E S \in SUBSET Symbols :
       open' = [s \in Symbols |-> IF s \in S THEN Loaded(Repaired, s)
                                  ELSE NotHeld]
  /\ UNCHANGED <<clock, samples, rday, rphase, todo, cands, crashes,
                 entries, weakRun, audit>>

PurgeOnRead ==
  /\ pc # "down"
  /\ \E i \in Ids : rows[i] # NoRow /\ Purgeable(rows[i])
  /\ rows' = [i \in Ids |-> IF rows[i] # NoRow /\ Purgeable(rows[i])
                            THEN NoRow ELSE rows[i]]
  /\ UNCHANGED <<clock, samples, open, worker, crashes, entries, weakRun,
                 audit>>

-----------------------------------------------------------------------------
Manage(s) ==
  \/ ManageUnquoted(s)
  \/ \E ctx \in Contexts, q \in Premiums :
       ManageHold(s, ctx, q) \/ ManageExit(s, ctx, q)
  \/ \E exit \in {"NULL", "QUOTE"} : HardFlat(s, exit)
  \/ HardFlatRaises(s)

Scan(s) ==
  \/ SkipCandidate(s)
  \/ \E p \in Premiums : Enter(s, p)
  \/ EnterRaises(s)

Next ==
  \/ Tick
  \/ RefreshStart \/ ScanStart \/ NoScan \/ ScanEnd
  \/ \E s \in Symbols : Manage(s) \/ Scan(s)
  \/ Crash \/ Restart \/ RestartLoadRaises \/ PurgeOnRead

Spec == Init /\ [][Next]_vars

(***************************************************************************)
(* Fairness: the clock runs, the 60 s job keeps firing and each of its     *)
(* steps ends, a dead process is started again, and a write that is tried  *)
(* again and again succeeds in the end.                                    *)
(***************************************************************************)
Fairness ==
  /\ WF_vars(Tick)
  /\ WF_vars(RefreshStart) /\ WF_vars(NoScan) /\ WF_vars(ScanEnd)
  /\ WF_vars(\E s \in Symbols : Manage(s))
  /\ WF_vars(\E s \in Symbols : Scan(s))
  /\ WF_vars(Restart)
  /\ \A s \in Symbols : SF_vars(\E exit \in {"NULL", "QUOTE"} : HardFlat(s, exit))

FairSpec == Spec /\ Fairness

-----------------------------------------------------------------------------
(***************************************************************************)
(* Properties.                                                             *)
(***************************************************************************)

\* Every variable has its type; a rowid never exceeds the entries made.
TypeOK ==
  /\ day \in Days /\ phase \in Phases
  /\ rows \in [Ids -> Row \union {NoRow}]
  /\ samples \in Seq(Trades)
  /\ open \in [Symbols -> Position \union {NotHeld}]
  /\ pc \in {"down", "idle", "manage", "scan"}
  /\ rday \in Days /\ rphase \in Phases
  /\ todo \subseteq Symbols /\ cands \subseteq Symbols
  /\ crashes \in 0 .. MaxCrashes
  /\ entries \in 0 .. MaxTrades
  /\ weakRun \in [Trades -> 0 .. 2]
  /\ audit \in [Ids -> SUBSET Trades]

\* While the process is up, _open and the OPEN rows are the same positions:
\* every held position is an OPEN row of its symbol, and every OPEN row is
\* the position held for its symbol (so no symbol has two), through crashes,
\* failed writes, midnight and purges.  (_enter, _close_paper_position,
\* _load_open_events, _repair_scalp_event_integrity.)
StoreMatchesMemory ==
  pc # "down" =>
    /\ \A s \in Held : /\ open[s].id \in OpenIds
                       /\ rows[open[s].id].sym = s
                       /\ rows[open[s].id].entry = open[s].entry
    /\ \A i \in OpenIds : open[rows[i].sym].id = i

\* The cap holds for what is persisted, process up or down: the database
\* never holds more OPEN positions than MAX_CONCURRENT.
CapOnStore == Cardinality(OpenIds) <= MaxConcurrent

\* A position closed for weak momentum was shown weak at least twice with no
\* strong look between, whatever restarts and failed closes intervened.
WeakExitJustified ==
  \A i \in Ids : rows[i] # NoRow /\ rows[i].reason = "MOMENTUM_WEAK"
                 => weakRun[rows[i].trade] >= 2

\* No exit price is invented and no result is learned twice: a trade is in
\* the learning samples at most once, and a row of it that is still there
\* is CLOSED on a real quote.
LearnsQuotedExitsOnce ==
  /\ \A m, n \in DOMAIN samples : m # n => samples[m] # samples[n]
  /\ \A i \in Ids, n \in DOMAIN samples :
       rows[i] # NoRow /\ rows[i].trade = samples[n]
       => rows[i].status = "CLOSED" /\ rows[i].exit = "QUOTE"

\* Nothing is entered from 15:15 on, though the clock is only checked when
\* a refresh starts.
NoEntryAfterHardFlat ==
  \A i \in Ids : rows[i] # NoRow => rows[i].at < HardFlatPhase

\* A recorded outcome is final: a CLOSED row is never rewritten, it can
\* only be purged.
OutcomeIsFinal ==
  [][\A i \in Ids : rows[i].status = "CLOSED"
                    => rows'[i] = rows[i] \/ rows'[i] = NoRow]_rows

\* Every paper position ends: hard flat, a rule, or the rollover repair.
EveryPositionEnds ==
  \A t \in Trades :
    (\E i \in OpenIds : rows[i].trade = t)
      ~> ~(\E i \in OpenIds : rows[i].trade = t)

\* repository.py:789, "a single trade's latest monitor observations": the
\* observations stored under one event id are those of one trade.
AuditOfOneTrade == \A i \in Ids : Cardinality(audit[i]) <= 1

-----------------------------------------------------------------------------
(***************************************************************************)
(* What the documents say and the code does not keep.  No configuration    *)
(* checks these; the README tells where TLC finds them violated ("Where    *)
(* the code and its words differ").                                        *)
(***************************************************************************)

\* README.md:120, "Entry window: 09:30-15:00 IST": the entry time recorded
\* for every position lies in the window.
EntryInsideWindow ==
  \A i \in Ids : rows[i] # NoRow => rows[i].at = EntryPhase

=============================================================================
