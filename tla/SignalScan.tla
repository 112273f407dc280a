------------------------------ MODULE SignalScan ------------------------------
(***************************************************************************)
(* From the feed to an actionable signal, for one stock:                   *)
(*                                                                         *)
(*   _track_window     feeds the rolling price/OI window (OIWindow)        *)
(*   scan_all_fno_...  publishes day-change candidates that kept their     *)
(*                     direction for RequiredScans scans                   *)
(*   _window_candidates publishes build-ups the window itself shows        *)
(*   note_agreement    counts the evaluations in a row that agreed         *)
(*   evaluate_gate     lets a published signal become a paper entry        *)
(*                                                                         *)
(* Scans are serialised by _refresh_lock and at least 45 s apart, and all  *)
(* of this state is in memory.  Prices and open interest are counted in    *)
(* steps of the classification thresholds; time is counted in ticks.       *)
(***************************************************************************)
EXTENDS Integers, Sequences, FiniteSetsExt

CONSTANTS
  Levels,         \* the prices and open interests a row can show
  DaySignals,     \* what the day change of a row can classify as
  FeedSources,    \* "nse" and "angel" measure open interest differently
  Elapses,        \* the times that can pass between two scans
  Short, Long,    \* the 15- and the 30-minute horizon
  MaxSpan,        \* how long the window is kept, 90 minutes
  MaxGap,         \* note_agreement: max_gap_minutes
  MinHistory,     \* GateConfig.min_history_minutes
  Persistence,    \* GateConfig.persistence_scans
  RequiredScans,  \* QUALITY_REQUIRED_SCANS
  CandidateMove,  \* WINDOW_CAND_PRICE_PCT and WINDOW_CAND_OI_PCT, in steps
  DayLength,      \* ticks from one date to the next
  LastDay,        \* bound: days 0 .. LastDay
  MaxScans        \* bound: scans

BuildUps  == {"LONG_BUILDUP", "SHORT_BUILDUP"}
Classes   == BuildUps \union {"SHORT_COVERING", "LONG_UNWINDING", "NEUTRAL"}

None  == "none"
Never == -1     \* no date, no time

ASSUME ScanAssumption ==
  /\ None \notin FeedSources
  /\ Levels \subseteq Nat /\ DaySignals \subseteq Classes
  /\ Elapses \subseteq Nat \ {0}
  /\ Short \in Nat \ {0} /\ Long \in Nat /\ Short < Long
  /\ MaxSpan \in Nat /\ MaxGap \in Nat /\ MinHistory \in Nat
  /\ Persistence \in Nat \ {0}
  /\ RequiredScans \in Nat /\ RequiredScans > 1
  /\ CandidateMove \in Nat \ {0}
  /\ DayLength \in Nat \ {0} /\ LastDay \in Nat /\ MaxScans \in Nat

DayOf(t) == t \div DayLength

\* SIGNAL_META: the direction a class trades in.
Direction(c) ==
  IF c \in {"LONG_BUILDUP", "SHORT_COVERING"} THEN "BUY" ELSE "SELL"

\* What confidence_score and the open interest make of a row: "strong" passes
\* the confidence and the open-interest gate, "unsure" only the latter, "thin"
\* neither.
Grades == {"strong", "unsure", "thin"}

Row == [price : Levels, oi : Levels, src : FeedSources, sig : DaySignals,
        grade : Grades]

VARIABLES
  now,        \* now_ist() of the last scan
  window,     \* OIWindow: date, source, points and streak of the stock
  stability,  \* _signal_stability: direction and number of scans
  out,        \* what the last scan published of the stock
  scans,      \* number of scans so far
  notes       \* history: the last Persistence calls of note_agreement

vars == <<now, window, stability, out, scans, notes>>

NoStreak == [count |-> 0, at |-> Never]
Fresh(d) == [day |-> d, src |-> None, points |-> << >>, streak |-> NoStreak]
Nothing  == [sig |-> None, origin |-> None, actionable |-> FALSE]
NoDirection == [dir |-> None, count |-> 0]

-----------------------------------------------------------------------------
(***************************************************************************)
(* OIWindow.                                                               *)
(***************************************************************************)

\* Mutant: yesterday's points stay.
RollKeeps(w, d) == [w EXCEPT !.day = d]

\* The first update of a new date clears the window of every stock.
Roll(w, d) == IF w.day = d THEN w ELSE Fresh(d)

\* A row from the other source restarts the stock.  (That it clears the streak
\* makes no difference: the new window stays silent for longer than MaxGap.)
Resource(w, src) ==
  IF w.src \in {None, src} THEN [w EXCEPT !.src = src]
  ELSE [w EXCEPT !.src = src, !.points = << >>, !.streak = NoStreak]

Final(p) == p[Len(p)]

\* Append unless out of order, then drop from the left what is too old.
Record(p, point) ==
  IF p # << >> /\ point.at <= Final(p).at THEN p
  ELSE LET q == Append(p, point)
       IN  SubSeq(q, Min({i \in DOMAIN q : q[i].at >= point.at - MaxSpan}),
                  Len(q))

Update(w, t, row) ==
  LET u == Resource(Roll(w, DayOf(t)), row.src)
  IN  [u EXCEPT !.points =
         Record(@, [at |-> t, price |-> row.price, oi |-> row.oi,
                    src |-> row.src])]

\* _horizon: the change since the last point that is m old, or since the
\* oldest one if that covers six tenths of m.
NoMove == [price |-> 0, oi |-> 0, known |-> FALSE]
Since(p, i) == [price |-> Final(p).price - p[i].price,
                oi |-> Final(p).oi - p[i].oi, known |-> TRUE]
Horizon(p, m) ==
  LET old == {i \in DOMAIN p : p[i].at <= Final(p).at - m}
  IN  IF old # {} THEN Since(p, Max(old))
      ELSE IF 10 * (Final(p).at - p[1].at) >= 6 * m THEN Since(p, 1)
      ELSE NoMove

classify(move) ==
  CASE move.price >= 1  /\ move.oi >= 1  -> "LONG_BUILDUP"
    [] move.price <= -1 /\ move.oi >= 1  -> "SHORT_BUILDUP"
    [] move.price >= 1  /\ move.oi <= -1 -> "SHORT_COVERING"
    [] move.price <= -1 /\ move.oi <= -1 -> "LONG_UNWINDING"
    [] OTHER -> "NEUTRAL"

\* context()["window_signal"] and context()["history_minutes"]
WindowSignal(p) ==
  IF Len(p) < 2 \/ ~Horizon(p, Short).known THEN None
  ELSE classify(Horizon(p, Short))

History(p) == IF Len(p) < 2 THEN 0 ELSE Final(p).at - p[1].at

\* Mutant: a stock that dropped out keeps its streak.
NotedThroughGap(streak, agrees, t) ==
  [count |-> IF agrees THEN streak.count + 1 ELSE 0, at |-> t]

\* note_agreement
Noted(streak, agrees, t) ==
  LET gone == streak.at # Never /\ t - streak.at > MaxGap
      base == IF gone THEN 0 ELSE streak.count
  IN  [count |-> IF agrees THEN base + 1 ELSE 0, at |-> t]

-----------------------------------------------------------------------------
(***************************************************************************)
(* One scan.                                                               *)
(***************************************************************************)

\* Mutant: a reversal does not start the count again.
CountedOn(s, dir) == [dir |-> dir, count |-> s.count + 1]

\* How often in a row the stock was parsed with this direction.
Counted(s, dir) ==
  [dir |-> dir, count |-> IF s.dir = dir THEN s.count + 1 ELSE 1]

IsParsed(row) == row.sig # "NEUTRAL" /\ row.grade = "strong"

StabilityAfter(row) ==
  IF IsParsed(row) THEN Counted(stability, Direction(row.sig)) ELSE stability

IsDayCandidate(row) ==
  IsParsed(row) /\ StabilityAfter(row).count >= RequiredScans

\* _window_candidates: both horizons of the window show the build-up.
IsWindowCandidate(row, p) ==
  LET sig   == WindowSignal(p)
      short == Horizon(p, Short)
      long  == Horizon(p, Long)
  IN  /\ row.grade # "thin"
      /\ sig \in BuildUps
      /\ short.oi >= CandidateMove
      /\ short.price >= CandidateMove \/ short.price <= -CandidateMove
      /\ long.known => /\ long.oi > 0
                       /\ (long.price > 0) = (sig = "LONG_BUILDUP")

\* evaluate_gate; "confirmed" stands for everything it asks of candles,
\* daily bars, the ban list and the staleness of the price.
GatePasses(sig, w, confirmed) ==
  /\ sig \in BuildUps
  /\ History(w.points) >= MinHistory
  /\ WindowSignal(w.points) = sig
  /\ w.streak.count >= Persistence
  /\ confirmed

Remember(note) ==
  LET all == Append(notes, note)
  IN  SubSeq(all, Max({1, Len(all) - Persistence + 1}), Len(all))

\* _apply_confirmation_gate: the row that leaves the scan, with the verdict.
Published(sig, origin, w, confirmed) ==
  [sig |-> sig, origin |-> origin, actionable |-> GatePasses(sig, w, confirmed)]

\* The stock is evaluated as a candidate of the given origin.  It is noted
\* whether or not it is among the few that are kept for publication.
Evaluate(t, w, sig, origin, src) ==
  \E kept, confirmed \in BOOLEAN :
    LET agrees == WindowSignal(w.points) = sig
        noted  == [w EXCEPT !.streak = Noted(@, agrees, t)]
    IN  /\ window' = noted
        /\ notes' = Remember([at |-> t, sig |-> sig, agrees |-> agrees,
                              src |-> src])
        /\ out' = IF kept THEN Published(sig, origin, noted, confirmed)
                  ELSE Nothing

ScanRow(t, row) ==
  LET w == Update(window, t, row)
  IN  /\ stability' = StabilityAfter(row)
      /\ IF IsDayCandidate(row) THEN Evaluate(t, w, row.sig, "day", row.src)
         ELSE IF IsWindowCandidate(row, w.points)
         THEN Evaluate(t, w, WindowSignal(w.points), "window", row.src)
         ELSE window' = w /\ out' = Nothing /\ UNCHANGED notes

\* The feed has rows, and none of this stock with a price.
ScanWithoutRow(t) ==
  /\ window' = Roll(window, DayOf(t))
  /\ out' = Nothing
  /\ UNCHANGED <<stability, notes>>

scan_all_fno_realtime ==
  /\ scans < MaxScans
  /\ scans' = scans + 1
  /\ \E e \in Elapses :
       /\ DayOf(now + e) = DayOf(now)
       /\ now' = now + e
       /\ ScanWithoutRow(now + e) \/ \E row \in Row : ScanRow(now + e, row)

\* No feed: the scan returns before it tracks anything.
ScanUnavailable ==
  /\ scans < MaxScans
  /\ scans' = scans + 1
  /\ \E e \in Elapses : DayOf(now + e) = DayOf(now) /\ now' = now + e
  /\ out' = Nothing
  /\ UNCHANGED <<window, stability, notes>>

\* The session ends; the process keeps its memory until the next one.
NextDay ==
  /\ DayOf(now) < LastDay
  /\ now' = (DayOf(now) + 1) * DayLength
  /\ UNCHANGED <<window, stability, out, scans, notes>>

Restart ==
  /\ window' = Fresh(Never) /\ stability' = NoDirection /\ out' = Nothing
  /\ UNCHANGED <<now, scans, notes>>

Init ==
  /\ now = 0 /\ window = Fresh(Never) /\ stability = NoDirection
  /\ out = Nothing /\ scans = 0 /\ notes = << >>

Next == scan_all_fno_realtime \/ ScanUnavailable \/ NextDay \/ Restart

Spec == Init /\ [][Next]_vars

-----------------------------------------------------------------------------
(***************************************************************************)
(* Properties.                                                             *)
(***************************************************************************)

Point == [at : Nat, price : Levels, oi : Levels, src : FeedSources]
Note  == [at : Nat, sig : Classes, agrees : BOOLEAN, src : FeedSources]

\* Every variable keeps its type.
TypeOK ==
  /\ now \in Nat /\ scans \in 0 .. MaxScans
  /\ window \in [day : 0 .. LastDay \union {Never},
                 src : FeedSources \union {None}, points : Seq(Point),
                 streak : [count : Nat, at : Nat \union {Never}]]
  /\ stability \in [dir : {"BUY", "SELL", None}, count : Nat]
  /\ out \in [sig : Classes \union {None}, origin : {"day", "window", None},
              actionable : BOOLEAN]
  /\ notes \in Seq(Note) /\ Len(notes) <= Persistence

\* Open interest of two sources, or of two dates, is never compared: all
\* points of a window have its source and its date, are in order of time and
\* span no more than MaxSpan (OIWindow.update clears and prunes).
WindowIsPure ==
  LET p == window.points IN
  /\ \A i \in DOMAIN p : p[i].src = window.src /\ DayOf(p[i].at) = window.day
  /\ \A i, j \in DOMAIN p : i < j => p[i].at < p[j].at
  /\ p # << >> => Final(p).at - p[1].at <= MaxSpan

\* A signal that passes the gate was evaluated Persistence times in a row on
\* one source and one date, each at another moment and none more than MaxGap
\* after the one before, and the window agreed every time.
EntriesPersist ==
  out.actionable =>
    /\ Len(notes) = Persistence
    /\ \A i \in DOMAIN notes :
         /\ notes[i].agrees /\ notes[i].src = window.src
         /\ DayOf(notes[i].at) = window.day
    /\ \A i \in 1 .. Persistence - 1 :
         notes[i + 1].at - notes[i].at \in 1 .. MaxGap

\* A day-change candidate is not followed in the next scan by one of the
\* opposite direction (_signal_stability counts from one after a reversal).
DayReversalsWait ==
  [][out.origin = "day" /\ out'.origin = "day" =>
       Direction(out'.sig) = Direction(out.sig)]_vars

-----------------------------------------------------------------------------
(***************************************************************************)
(* What the documents say and the code does not keep.  No configuration    *)
(* checks these; the README tells where TLC finds them violated ("Where    *)
(* the code and its words differ").                                        *)
(***************************************************************************)

\* oi_analyzer.py:59: "A reversal resets the count, preventing rapid opposing
\* signals for the same stock from being published."
NoRapidReversal ==
  [][out.sig # None /\ out'.sig # None =>
       Direction(out'.sig) = Direction(out.sig)]_vars

\* oi_window.py:145: "Consecutive evaluations where the window agrees with the
\* published signal": the evaluations that a signal's persistence is counted
\* from were of that signal.
PersistenceIsOfTheSignal ==
  out.actionable => \A i \in DOMAIN notes : notes[i].sig = out.sig

=============================================================================
