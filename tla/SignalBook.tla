------------------------------ MODULE SignalBook ------------------------------
(***************************************************************************)
(* The paper trades of the swing scanner: the TRADE rows of signal_events  *)
(* and the jobs that write them.                                           *)
(*                                                                         *)
(*   scan     refresh_signals(): record_scan() admits trades, then         *)
(*            update_open_events() looks at the live ones (every 60 s)     *)
(*   monitor  scheduled_trade_monitor(): update_open_events([], prices)    *)
(*            every 30 s until 15:15                                       *)
(*   close    scheduled_market_close() at 15:15: expire_open_events()      *)
(*                                                                         *)
(* Each runs in a worker thread on a connection of its own.  SQLite gives  *)
(* one writer at a time, but only from the first INSERT, UPDATE or DELETE: *)
(* the SELECT that tells update_open_events and expire_open_events which   *)
(* rows are live is made before their transaction begins, and their        *)
(* UPDATEs name the row by id only.                                        *)
(*                                                                         *)
(* Prices are counted in points in favour of the trade, from its entry.    *)
(* Every trade risks Risk points; r is the result in half points, that is  *)
(* 2 * Risk times the result in R with half of the position booked at the  *)
(* first target.  Time is counted in slots of the trading day.             *)
(***************************************************************************)
EXTENDS Integers, FiniteSets, FiniteSetsExt

CONSTANTS
  Symbols,        \* scanned underlyings
  MaxOpen,        \* settings.max_open
  MaxSetupsDay,   \* settings.max_setups_day
  MaxSl,          \* settings.max_sl_per_symbol_dir_day
  DailyStop,      \* settings.daily_stop_r, in half points (negative)
  Cooldown,       \* stop_loss_cooldown_minutes, in slots
  FlipGap,        \* min(cooldown_after_sl_min, 30), in slots
  EntryStart,     \* settings.entry_start
  EntryEnd,       \* settings.entry_end: the first slot without entries
  CloseSlot,      \* 15:15
  LastSlot,       \* 23:59
  Risk, T1, T2,   \* |entry - stop|, |target_1 - entry|, |target_2 - entry|
  Noise,          \* 0.05% of the entry: a move that is graded FLAT
  Favours,        \* the prices a look can find
  LastDay,        \* bound: days 0 .. LastDay
  MaxRows,        \* bound: rows present at the same time
  MaxCrashes      \* bound: process deaths

\* build_risk_plan: the targets are one and two risks away when the daily range
\* is known, and otherwise at least one and a half and three.
PlanIsSound ==
  /\ Risk \in Nat \ {0} /\ T1 \in Nat \ {0} /\ T2 \in Nat
  /\ Risk <= T1 /\ T1 < T2

ASSUME BookAssumption ==
  /\ MaxOpen \in Nat \ {0} /\ MaxSetupsDay \in Nat \ {0} /\ MaxSl \in Nat \ {0}
  /\ DailyStop \in Int
  /\ Cooldown \in Nat /\ FlipGap \in Nat
  /\ EntryStart \in Nat /\ EntryEnd \in Nat
  /\ CloseSlot \in Nat /\ LastSlot \in Nat
  /\ EntryEnd <= CloseSlot /\ CloseSlot < LastSlot
  /\ PlanIsSound
  /\ Noise \in Nat /\ Noise < Risk
  /\ Favours \subseteq Int
  /\ LastDay \in Nat /\ MaxRows \in Nat /\ MaxCrashes \in Nat

Days       == 0 .. LastDay
Slots      == 0 .. LastSlot
Ids        == 1 .. MaxRows
Directions == {"BUY", "SELL"}
Opposite(d) == IF d = "BUY" THEN "SELL" ELSE "BUY"
Actors     == {"scan", "monitor", "close"}

LiveStatus   == {"OPEN", "TG1_HIT"}
ClosedStatus == {"TG2_HIT", "SL_HIT", "BE_EXIT", "EXPIRED"}
Results      == {"none", "TG2_HIT", "SL_HIT", "BE_EXIT", "WIN", "LOSS", "FLAT"}
Sources      == {"none", "live_monitor", "live_exit", "estimate", "bhavcopy_close"}

NoRow     == [status |-> "absent"]
NotClosed == -1

\* A row of signal_events with tier TRADE and archived 0; "closed" is
\* closed_at_ist, and r = 0 stands for NULL as well.  What the looks write
\* into payload_json is TradeStrength's.
Row == [status : LiveStatus \union ClosedStatus, sym : Symbols,
        dir : Directions, day : Days, hit : 0 .. 2,
        closed : Slots \union {NotClosed}, r : Int, result : Results,
        source : Sources]

VARIABLES
  day, slot,   \* now_ist()
  rows,        \* the committed rows, by id
  draft,       \* what the open transaction of record_scan would commit
  pc,          \* where each actor is
  seen,        \* what each actor's SELECT returned
  todo,        \* symbols record_scan has not considered yet
  crashes,     \* deaths so far
  graded,      \* days whose bhavcopy is stored and re-graded
  settled,     \* history: days whose market close has committed
  clobbered    \* history: some write rested on a row that had been closed
               \* or armed since it was read

clock == <<day, slot>>
book  == <<rows, draft>>
jobs  == <<pc, seen, todo>>
vars  == <<clock, book, jobs, crashes, graded, settled, clobbered>>

Empty == [i \in Ids |-> NoRow]

Live(B)     == {i \in Ids : B[i].status \in LiveStatus}
OfDay(B, d) == {i \in Ids : B[i] # NoRow /\ B[i].day = d}
LiveOn(B, d) == Live(B) \intersect OfDay(B, d)
Side(B, s, d) == {i \in OfDay(B, day) : B[i].sym = s /\ B[i].dir = d}

LargerOf(a, b)  == IF a >= b THEN a ELSE b
SmallerOf(a, b) == IF a <= b THEN a ELSE b

-----------------------------------------------------------------------------
(***************************************************************************)
(* _closed_r: half is booked at the first target, after which the stop     *)
(* moves to the entry.                                                     *)
(***************************************************************************)

\* Mutant: after the first target the fade is not floored at the entry.
ClosedRUnfloored(status, armed, f) ==
  CASE status = "TG2_HIT" -> T1 + T2
    [] status = "BE_EXIT" -> T1 + SmallerOf(0, f)
    [] status = "EXPIRED" /\ armed -> 2 * f
    [] OTHER -> 2 * f

ClosedR(status, armed, f) ==
  CASE status = "TG2_HIT" -> T1 + T2
    [] status = "BE_EXIT" -> T1 + SmallerOf(0, f)
    [] status = "EXPIRED" /\ armed -> T1 + LargerOf(0, f)
    [] OTHER -> 2 * f

\* What a row counts for in the daily stop: its result, and while that is
\* NULL a whole R for each target reached.
Credit(row) == IF row.result # "none" THEN row.r ELSE 2 * Risk * row.hit

\* Mutant: losing trades are left out of the sum.
RealizedGains(B) ==
  MapThenSumSet(LAMBDA i : LargerOf(0, Credit(B[i])), OfDay(B, day))

\* _realized_r: the sum that is compared with the daily stop.
Realized(B) == MapThenSumSet(LAMBDA i : Credit(B[i]), OfDay(B, day))

-----------------------------------------------------------------------------
(***************************************************************************)
(* record_scan: what stands between a confirmed signal and a trade.        *)
(***************************************************************************)

\* Mutant: the end of the window belongs to it.
InsideWindowClosed == EntryStart <= slot /\ slot <= EntryEnd

InsideEntryWindow == EntryStart <= slot /\ slot < EntryEnd

\* Mutant: off by one.
CapsAllowOneMore(B) ==
  /\ Cardinality(LiveOn(B, day)) <= MaxOpen
  /\ Cardinality(OfDay(B, day)) < MaxSetupsDay

CapsAllow(B) ==
  /\ Cardinality(LiveOn(B, day)) < MaxOpen
  /\ Cardinality(OfDay(B, day)) < MaxSetupsDay

LossAllows(B) == Realized(B) > DailyStop

\* Mutant: the cooldown runs, but the stops of the day are not counted.
StopsAllowUncounted(B, s, d) ==
  LET stopped == {i \in Side(B, s, d) : B[i].status = "SL_HIT"}
  IN  \A i \in stopped : B[i].closed < slot - Cooldown

StopsAllow(B, s, d) ==
  LET stopped == {i \in Side(B, s, d) : B[i].status = "SL_HIT"}
  IN  /\ \A i \in stopped : B[i].closed < slot - Cooldown
      /\ Cardinality(stopped) < MaxSl

\* Mutant: a live trade on the other side does not matter, only the gap.
FlipAllowsLive(B, s, d) ==
  \A i \in Side(B, s, Opposite(d)) :
    (\A j \in Side(B, s, Opposite(d)) : j <= i)
    => \/ B[i].closed = NotClosed
       \/ slot - B[i].closed >= FlipGap

\* Only the newest trade of the other side is looked at.
FlipAllows(B, s, d) ==
  \A i \in Side(B, s, Opposite(d)) :
    (\A j \in Side(B, s, Opposite(d)) : j <= i)
    => /\ B[i].status \notin LiveStatus
       /\ B[i].closed = NotClosed \/ slot - B[i].closed >= FlipGap

\* A signal whose own side is live is a re-sighting, never a second trade.
Admissible(B, s, d) ==
  /\ \A i \in Side(B, s, d) : B[i].status \notin LiveStatus
  /\ InsideEntryWindow
  /\ CapsAllow(B)
  /\ LossAllows(B)
  /\ StopsAllow(B, s, d)
  /\ FlipAllows(B, s, d)

NewRow(s, d) ==
  [status |-> "OPEN", sym |-> s, dir |-> d, day |-> day, hit |-> 0,
   closed |-> NotClosed, r |-> 0, result |-> "none",
   source |-> "none"]

IsNextId(B, i) ==
  /\ \A j \in Ids : B[j] # NoRow => j < i
  /\ i > 1 => B[i - 1] # NoRow

-----------------------------------------------------------------------------
(***************************************************************************)
(* update_open_events: the prices of one look against one row as it was    *)
(* read, and the UPDATE by id that follows.                                *)
(***************************************************************************)
Armed(row) == row.hit >= 1

HitAfter(was, f) ==
  LargerOf(was.hit, IF f >= T2 THEN 2 ELSE IF f >= T1 THEN 1 ELSE 0)

StopReached(was, f) == f <= (IF Armed(was) THEN 0 ELSE -Risk)

\* Mutant: after the first target the exit is still called a stop loss.
StatusAfterStopLoss(was, f) ==
  IF f >= T2 THEN "TG2_HIT"
  ELSE IF StopReached(was, f) THEN "SL_HIT"
  ELSE IF HitAfter(was, f) >= 1 THEN "TG1_HIT" ELSE "OPEN"

\* The status the prices call for; a live one when no exit was reached.
StatusAfter(was, f) ==
  IF f >= T2 THEN "TG2_HIT"
  ELSE IF StopReached(was, f)
       THEN IF Armed(was) THEN "BE_EXIT" ELSE "SL_HIT"
       ELSE IF HitAfter(was, f) >= 1 THEN "TG1_HIT" ELSE "OPEN"

\* What is set comes from the row that was read, the rest stays as it is
\* now: without an exit, the result columns stay.
LookedAt(now, was, f) ==
  LET status == StatusAfter(was, f)
  IN  IF status \in LiveStatus
      THEN [now EXCEPT !.status = status, !.hit = HitAfter(was, f)]
      ELSE [now EXCEPT !.status = status, !.hit = HitAfter(was, f),
                       !.closed = slot, !.result = status,
                       !.r = ClosedR(status, Armed(was), f),
                       !.source = "live_monitor"]

\* _day_end_result, and the UPDATE of expire_open_events.
DayEndResult(was, f) ==
  IF Armed(was) \/ f > Noise THEN "WIN"
  ELSE IF f < -Noise THEN "LOSS" ELSE "FLAT"

Expired(now, was, f) ==
  [now EXCEPT !.status = "EXPIRED", !.result = DayEndResult(was, f),
              !.r = ClosedR("EXPIRED", Armed(was), f),
              !.closed = slot, !.source = "live_exit"]

\* regrade_with_bhavcopy_close: the official close replaces an estimate.
Regradable(row) ==
  /\ row.status = "EXPIRED"
  /\ row.source = "estimate"
  /\ ~Armed(row)

Regraded(row, f) ==
  [row EXCEPT !.result = DayEndResult(row, f), !.source = "bhavcopy_close"]

-----------------------------------------------------------------------------
Idle == [a \in Actors |-> "idle"]

Init ==
  /\ day = 0 /\ slot = 0
  /\ rows = Empty /\ draft = Empty
  /\ pc = Idle
  /\ seen = [a \in Actors |-> Empty]
  /\ todo = {}
  /\ crashes = 0 /\ graded = {} /\ settled = {}
  /\ clobbered = FALSE

\* A job takes seconds; the clock is only compared with the boundaries.
Tick ==
  /\ pc = Idle
  /\ \/ /\ slot < LastSlot
        /\ slot' = slot + 1
        /\ day' = day
     \/ /\ slot = LastSlot /\ day < LastDay
        /\ slot' = 0
        /\ day' = day + 1
  /\ UNCHANGED <<book, jobs, crashes, graded, settled, clobbered>>

Step(a, to) == pc' = [pc EXCEPT ![a] = to]

\* record_scan holds the write lock from its first INSERT to its commit;
\* every other transaction is one step of this model.
WriteLocked == pc["scan"] = "record"

-----------------------------------------------------------------------------
(***************************************************************************)
(* record_scan: the INSERT of the snapshot comes first, so everything it   *)
(* reads it reads inside its transaction.                                  *)
(***************************************************************************)
ScanStart(S) ==
  /\ pc["scan"] = "idle"
  /\ draft' = rows
  /\ todo' = S
  /\ Step("scan", "record")
  /\ UNCHANGED <<clock, rows, seen, crashes, graded, settled, clobbered>>

\* Re-sighted, gate failed, low confidence, stale price, or blocked by a
\* rule: at most a row of setup_skips is written.
ScanSkip(s) ==
  /\ WriteLocked /\ s \in todo
  /\ todo' = todo \ {s}
  /\ UNCHANGED <<clock, book, pc, seen, crashes, graded, settled, clobbered>>

ScanAdmit(s, d) ==
  /\ WriteLocked /\ s \in todo
  /\ Admissible(draft, s, d)
  /\ \E i \in Ids : /\ IsNextId(draft, i)
                    /\ draft' = [draft EXCEPT ![i] = NewRow(s, d)]
  /\ todo' = todo \ {s}
  /\ UNCHANGED <<clock, rows, pc, seen, crashes, graded, settled, clobbered>>

ScanRecorded ==
  /\ WriteLocked /\ todo = {}
  /\ rows' = draft /\ draft' = Empty
  /\ Step("scan", "select")
  /\ UNCHANGED <<clock, seen, todo, crashes, graded, settled, clobbered>>

\* This minute's snapshot is already there: no signal is considered.
ScanDuplicate ==
  /\ pc["scan"] = "idle"
  /\ Step("scan", "select")
  /\ UNCHANGED <<clock, book, seen, todo, crashes, graded, settled, clobbered>>

\* An exception: the whole scan is rolled back and nothing is monitored.
ScanFails ==
  /\ WriteLocked
  /\ draft' = Empty /\ todo' = {}
  /\ Step("scan", "idle")
  /\ UNCHANGED <<clock, rows, seen, crashes, graded, settled, clobbered>>

-----------------------------------------------------------------------------
(***************************************************************************)
(* update_open_events and expire_open_events: a SELECT outside of any      *)
(* transaction, then a transaction with one UPDATE per row.                *)
(***************************************************************************)

\* No live row: the call returns without writing.
Select(a, ids) ==
  /\ Step(a, IF ids = {} THEN "idle" ELSE "write")
  /\ seen' = [seen EXCEPT ![a] = [i \in Ids |-> IF i \in ids THEN rows[i]
                                                ELSE NoRow]]
  /\ UNCHANGED <<clock, book, todo, crashes, graded, settled, clobbered>>

ScanSelect ==
  /\ pc["scan"] = "select"
  /\ Select("scan", LiveOn(rows, day))

MonitorSelect ==
  /\ pc["monitor"] = "idle" /\ slot <= CloseSlot
  /\ LiveOn(rows, day) # {}
  /\ Select("monitor", LiveOn(rows, day))

\* Today's session, or else the newest one with an unresolved trade.
UnresolvedDay ==
  IF LiveOn(rows, day) # {} THEN day
  ELSE CHOOSE d \in Days : /\ LiveOn(rows, d) # {}
                           /\ \A e \in Days : LiveOn(rows, e) # {} => e <= d

\* The lookup of the unresolved symbols and the SELECT of expire_open_events,
\* with the refresh of current_price between them, are one step.
CloseSelect ==
  /\ pc["close"] = "idle" /\ slot = CloseSlot
  /\ Live(rows) # {}
  /\ Select("close", LiveOn(rows, UnresolvedDay))

SeenIds(a) == {i \in Ids : seen[a][i] # NoRow}

\* History: a row has left the state it was read in.
Overtaken(a, i) ==
  /\ rows[i] # NoRow
  /\ \/ rows[i].status # seen[a][i].status
     \/ rows[i].hit # seen[a][i].hit

WriteDone(a, touched) ==
  /\ Step(a, "idle")
  /\ seen' = [seen EXCEPT ![a] = Empty]
  /\ clobbered' = (clobbered \/ \E i \in touched : Overtaken(a, i))
  /\ UNCHANGED <<clock, draft, todo, crashes, graded>>

\* A row without a price only has its payload marked stale; an UPDATE of a
\* row that was deleted meanwhile touches nothing.
Look(a, price) ==
  /\ pc[a] = "write" /\ ~WriteLocked
  /\ rows' = [i \in Ids |-> IF i \in DOMAIN price /\ rows[i] # NoRow
                            THEN LookedAt(rows[i], seen[a][i], price[i])
                            ELSE rows[i]]
  /\ WriteDone(a, DOMAIN price)
  /\ UNCHANGED settled

Expire(price) ==
  /\ pc["close"] = "write" /\ ~WriteLocked
  /\ DOMAIN price = SeenIds("close")
  /\ rows' = [i \in Ids |-> IF i \in DOMAIN price /\ rows[i] # NoRow
                            THEN Expired(rows[i], seen["close"][i], price[i])
                            ELSE rows[i]]
  /\ WriteDone("close", DOMAIN price)
  /\ settled' = settled \union {seen["close"][i].day : i \in DOMAIN price}

\* The lock times out or the transaction raises: everything is undone.
WriteFails(a) ==
  /\ pc[a] = "write"
  /\ UNCHANGED <<rows, settled>>
  /\ WriteDone(a, {})

-----------------------------------------------------------------------------
(***************************************************************************)
(* The jobs around the session, each a single statement.                   *)
(***************************************************************************)
Without(B, gone) == [i \in Ids |-> IF i \in gone THEN NoRow ELSE B[i]]

\* scheduled_bhavcopy_ingestion: bars are stored, then the day re-graded.
Regrade(f) ==
  /\ slot > CloseSlot /\ ~WriteLocked
  /\ day \notin graded
  /\ rows' = [i \in Ids |-> IF i \in OfDay(rows, day) /\ Regradable(rows[i])
                            THEN Regraded(rows[i], f) ELSE rows[i]]
  /\ graded' = graded \union {day}
  /\ UNCHANGED <<clock, draft, jobs, crashes, settled, clobbered>>

\* 23:59: the day's confirmed trades are deleted.
Cleanup ==
  /\ slot = LastSlot /\ ~WriteLocked
  /\ OfDay(rows, day) # {}
  /\ rows' = Without(rows, OfDay(rows, day))
  /\ UNCHANGED <<clock, draft, jobs, crashes, graded, settled, clobbered>>

\* 00:05: rows of earlier days are archived, which no query sees again.
Rollover ==
  /\ slot = 0 /\ ~WriteLocked
  /\ \E i \in Ids : rows[i] # NoRow /\ rows[i].day < day
  /\ rows' = Without(rows, {i \in Ids : rows[i] # NoRow /\ rows[i].day < day})
  /\ UNCHANGED <<clock, draft, jobs, crashes, graded, settled, clobbered>>

\* The process dies and starts again: an open transaction is gone, and the
\* start-up catch-up deletes the trades of the calendar day before.
Restart ==
  /\ crashes < MaxCrashes
  /\ crashes' = crashes + 1
  /\ draft' = Empty
  /\ rows' = Without(rows, {i \in Ids : rows[i] # NoRow /\ rows[i].day = day - 1})
  /\ pc' = Idle
  /\ seen' = [a \in Actors |-> Empty]
  /\ todo' = {}
  /\ UNCHANGED <<clock, graded, settled, clobbered>>

-----------------------------------------------------------------------------
RecordScan ==
  \/ \E S \in SUBSET Symbols : ScanStart(S)
  \/ \E s \in Symbols : ScanSkip(s)
  \/ \E s \in Symbols, d \in Directions : ScanAdmit(s, d)
  \/ ScanRecorded \/ ScanDuplicate \/ ScanFails

UpdateOpenEvents ==
  \/ ScanSelect \/ MonitorSelect
  \/ \E a \in {"scan", "monitor"} :
       \E priced \in SUBSET SeenIds(a) :
         \E price \in [priced -> Favours] : Look(a, price)

MarketClose ==
  \/ CloseSelect
  \/ \E price \in [SeenIds("close") -> Favours] : Expire(price)

Upkeep ==
  \/ \E f \in Favours : Regrade(f)
  \/ Cleanup \/ Rollover \/ Restart

Next ==
  \/ Tick
  \/ RecordScan \/ UpdateOpenEvents \/ MarketClose
  \/ \E a \in Actors : WriteFails(a)
  \/ Upkeep

Spec == Init /\ [][Next]_vars

-----------------------------------------------------------------------------
(***************************************************************************)
(* Properties.  "Unless clobbered" says: unless one of the read-then-write *)
(* races has already rewritten a row that another job had closed.          *)
(***************************************************************************)

\* Every variable has its type.
TypeOK ==
  /\ day \in Days /\ slot \in Slots
  /\ rows \in [Ids -> Row \union {NoRow}]
  /\ draft \in [Ids -> Row \union {NoRow}]
  /\ pc \in [Actors -> {"idle", "record", "select", "write"}]
  /\ seen \in [Actors -> [Ids -> Row \union {NoRow}]]
  /\ todo \subseteq Symbols
  /\ crashes \in 0 .. MaxCrashes
  /\ graded \subseteq Days /\ settled \subseteq Days
  /\ clobbered \in BOOLEAN

\* Unless clobbered, a symbol never has two live trades on one day, on the
\* same side or on both: a flip waits for the first trade to end.
\* (record_scan, repository.py:1294-1399.)
OneLiveTradePerSymbol ==
  ~clobbered =>
    \A i, j \in Live(rows) :
      rows[i].sym = rows[j].sym /\ rows[i].day = rows[j].day => i = j

\* Unless clobbered, no more than max_open trades of a day are live.
LiveWithinCap ==
  ~clobbered => \A d \in Days : Cardinality(LiveOn(rows, d)) <= MaxOpen

\* Unless clobbered, one side of a symbol is stopped out at most
\* max_sl_per_symbol_dir_day times on a day.
StopsPerSideBounded ==
  ~clobbered =>
    \A s \in Symbols, d \in Directions, e \in Days :
      Cardinality({i \in OfDay(rows, e) :
        rows[i].sym = s /\ rows[i].dir = d /\ rows[i].status = "SL_HIT"}) <= MaxSl

\* What the trades of a day have booked: the results of the closed ones and,
\* of the live ones that reached the first target, the half sold there.
Booked(B, d) ==
  MapThenSumSet(LAMBDA i : IF B[i].result # "none" THEN B[i].r
                           ELSE IF B[i].hit >= 1 THEN T1 ELSE 0, OfDay(B, d))

WorstLoss == LET least == CHOOSE f \in Favours : \A g \in Favours : f <= g
             IN  2 * LargerOf(Risk, -least)

\* The bound is relative to the worst gap a look can find, so there must be
\* one; and the daily stop (-4 R unless DAILY_STOP_R sets another, of any
\* sign) is less than what max_open worst losses come to: above that, the
\* bound asks for a profit before the first trade.
ASSUME LossAssumption ==
  /\ \E f \in Favours : \A g \in Favours : f <= g
  /\ DailyStop < MaxOpen * WorstLoss

\* Unless clobbered, the day's loss is bounded: the daily stop plus one
\* worst loss for each of the max_open trades that may be live when it is
\* reached.
LossBounded ==
  ~clobbered => Booked(rows, day) > DailyStop - MaxOpen * WorstLoss

\* Unless clobbered, once the market close of a day has committed, nothing
\* of that day is live again: entries have ended before the close reads.
FlatAfterClose == ~clobbered => \A d \in settled : LiveOn(rows, d) = {}

\* The verdict of a closed trade and its result agree, races included: a
\* win is positive, a loss negative, and a flat within the noise.
VerdictMatchesResult ==
  \A i \in Ids : rows[i] # NoRow /\ rows[i].status \in ClosedStatus =>
    /\ rows[i].result \in {"WIN", "TG2_HIT"} => rows[i].r > 0
    /\ rows[i].result \in {"LOSS", "SL_HIT"} => rows[i].r < 0
    /\ rows[i].result = "FLAT" => rows[i].r \in -2 * Noise .. 2 * Noise

\* Unless clobbered, a trade that reached its first target is never recorded
\* as stopped out, and no step takes back a target, a close or a result.
ProgressIsKept ==
  [][\A i \in Ids :
       rows[i] # NoRow /\ rows'[i] # NoRow /\ ~clobbered' =>
         /\ rows'[i].hit >= rows[i].hit
         /\ rows[i].hit >= 1 => rows'[i].status # "SL_HIT"
         /\ rows[i].status \in ClosedStatus =>
              /\ rows'[i].status = rows[i].status
              /\ rows'[i].r = rows[i].r
              /\ rows'[i].closed = rows[i].closed]_rows

-----------------------------------------------------------------------------
(***************************************************************************)
(* What the documents say and the code does not keep.  No configuration    *)
(* checks these; the README tells where TLC finds them violated ("Where    *)
(* the code and its words differ").                                        *)
(***************************************************************************)

\* repository.py:40, "Half is booked at TG1 (1R)", and the gate at :1346: no
\* trade is admitted on a day whose booked result is at the daily stop.
NoEntryAtDailyStop ==
  [][\A i \in Ids : draft[i] = NoRow /\ draft'[i] # NoRow /\ WriteLocked
                    => Booked(draft, day) > DailyStop]_draft

\* repository.py:1458, "Existing stop/target fills and end-of-day flat rules
\* remain authoritative": a closed trade is never live again.
FillsAreAuthoritative ==
  [][\A i \in Ids : rows[i].status \in ClosedStatus
                    => rows'[i].status \notin LiveStatus]_rows

\* repository.py:1742, "events whose exit price was an estimate get the true
\* closing price": after the day's bhavcopy is in, no trade that ended by
\* the clock short of its first target keeps the polled price as its exit.
OfficialCloseGrades ==
  \A i \in Ids :
    (rows[i].status = "EXPIRED" /\ rows[i].day \in graded /\ ~Armed(rows[i]))
    => rows[i].source = "bhavcopy_close"

\* docs/architecture.md:35, "prior-day events are archived from the visible
\* API and kept locally for the retention period": a trade leaves the
\* visible history through the archive only.
KeptForRetention ==
  [][\A i \in Ids : rows[i] # NoRow /\ rows'[i] = NoRow => Rollover]_rows

=============================================================================
