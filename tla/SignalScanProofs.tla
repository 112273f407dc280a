--------------------------- MODULE SignalScanProofs ---------------------------
(***************************************************************************)
(* Proofs about SignalScan for all values of its constants.                *)
(***************************************************************************)
EXTENDS SignalScan, WellFoundedInduction, TLAPS

\* What the last scan published for its day change is what _signal_stability
\* remembers of the stock.
RemembersDirection ==
  out.origin = "day" => stability.dir = Direction(out.sig)

LEMMA InitRemembers == Init => RemembersDirection
BY DEF Init, RemembersDirection, Nothing, None

\* A published day candidate is a parsed row of the remembered direction.
LEMMA DayScan ==
  ASSUME NEW t, NEW row, ScanRow(t, row), out'.origin = "day"
  PROVE  /\ IsDayCandidate(row)
         /\ out'.sig = row.sig
         /\ stability' = Counted(stability, Direction(row.sig))
<1>1. ASSUME IsDayCandidate(row)
      PROVE  out'.sig = row.sig
  BY <1>1 DEF ScanRow, Evaluate, Published, Nothing, None
<1>2. ASSUME ~IsDayCandidate(row)
      PROVE  FALSE
  BY <1>2 DEF ScanRow, Evaluate, Published, Nothing, None
<1> QED
  BY <1>1, <1>2 DEF ScanRow, IsDayCandidate, StabilityAfter

LEMMA NextRemembers ==
  RemembersDirection /\ [Next]_vars => RemembersDirection'
<1> SUFFICES ASSUME RemembersDirection, [Next]_vars, out'.origin = "day"
             PROVE  stability'.dir = Direction(out'.sig)
  BY DEF RemembersDirection
<1>1. ASSUME NEW t, NEW row, ScanRow(t, row)
      PROVE  stability'.dir = Direction(out'.sig)
  BY <1>1, DayScan DEF Counted
<1>2. CASE out' = Nothing
  BY <1>2 DEF Nothing, None
<1>3. CASE UNCHANGED <<out, stability>>
  BY <1>3 DEF RemembersDirection
<1> QED
  BY <1>1, <1>2, <1>3
  DEF Next, scan_all_fno_realtime, ScanWithoutRow, ScanUnavailable, NextDay,
      Restart, vars

LEMMA ReversalCountsOne ==
  ASSUME RemembersDirection, [Next]_vars,
         out.origin = "day", out'.origin = "day"
  PROVE  Direction(out'.sig) = Direction(out.sig)
<1>1. ASSUME NEW t, NEW row, ScanRow(t, row),
             Direction(row.sig) # Direction(out.sig)
      PROVE  FALSE
  <2>1. /\ IsDayCandidate(row)
        /\ stability' = Counted(stability, Direction(row.sig))
    BY <1>1, DayScan
  <2>2. Counted(stability, Direction(row.sig)).count = 1
    BY <1>1 DEF RemembersDirection, Counted
  <2>3. StabilityAfter(row) = stability'
    BY <1>1 DEF ScanRow
  <2> QED
    BY <2>1, <2>2, <2>3, ScanAssumption DEF IsDayCandidate
<1>2. ASSUME NEW t, NEW row, ScanRow(t, row)
      PROVE  Direction(out'.sig) = Direction(out.sig)
  BY <1>1, <1>2, DayScan
<1>3. CASE out' = Nothing
  BY <1>3 DEF Nothing, None
<1>4. CASE UNCHANGED out
  BY <1>4
<1> QED
  BY <1>2, <1>3, <1>4
  DEF Next, scan_all_fno_realtime, ScanWithoutRow, ScanUnavailable, NextDay,
      Restart, vars

\* Day-change candidates of opposite directions are never published in two
\* scans in a row (QUALITY_REQUIRED_SCANS is more than one).
THEOREM ReversalsWait == Spec => DayReversalsWait
<1>1. RemembersDirection /\ [Next]_vars =>
        [out.origin = "day" /\ out'.origin = "day" =>
           Direction(out'.sig) = Direction(out.sig)]_vars
  BY ReversalCountsOne
<1> QED
  BY <1>1, InitRemembers, NextRemembers, PTL DEF Spec, DayReversalsWait

-----------------------------------------------------------------------------
(***************************************************************************)
(* The window.                                                             *)
(***************************************************************************)

\* A nonempty set of numbers has a least one.
LEMMA LeastIndex ==
  ASSUME NEW S \in SUBSET Nat, S # {}
  PROVE  Min(S) \in S /\ \A i \in S : Min(S) <= i
<1>1. \E x \in S : \A y \in S : ~(<<y, x>> \in OpToRel(<, Nat))
  BY WFMin, NatLessThanWellFounded, Zenon
<1>2. \A x, y \in Nat : x < y => <<x, y>> \in OpToRel(<, Nat)
  BY DEF OpToRel
<1>3. PICK x \in S : \A y \in S : ~(<<y, x>> \in OpToRel(<, Nat))
  BY <1>1
<1>4. \A y \in S : ~(y < x)
  BY <1>2, <1>3
<1>5. \A y \in S : x <= y
  BY <1>4
<1> QED
  BY <1>5 DEF Min

\* Dates are numbers, and the next one begins later.
LEMMA Dates ==
  ASSUME NEW t \in Nat
  PROVE  /\ DayOf(t) \in Nat
         /\ (DayOf(t) + 1) * DayLength \in Nat
         /\ t <= (DayOf(t) + 1) * DayLength
<1>1. DayLength \in Nat /\ DayLength > 0
  BY ScanAssumption
<1>2. DayOf(t) \in Nat
  BY <1>1 DEF DayOf
<1>3. (DayOf(t) + 1) * DayLength \in Nat
  BY <1>1, <1>2
<1>4. t <= (DayOf(t) + 1) * DayLength
  BY <1>1 DEF DayOf
<1> QED
  BY <1>2, <1>3, <1>4

Streak == [count : Nat, at : Nat \union {Never}]
Window == [day : Int, src : FeedSources \union {None}, points : Seq(Point),
           streak : Streak]

\* What WindowIsPure says of the points of one source and date.
Pure(p, src, day) ==
  /\ \A i \in DOMAIN p : p[i].src = src /\ DayOf(p[i].at) = day
  /\ \A i, j \in DOMAIN p : i < j => p[i].at < p[j].at
  /\ p # << >> => Final(p).at - p[1].at <= MaxSpan

\* A point that is appended is later than the others; the first are dropped.
LEMMA RecordIsPure ==
  ASSUME NEW p \in Seq(Point), NEW point \in Point, NEW src, NEW day,
         Pure(p, src, day), point.src = src, DayOf(point.at) = day
  PROVE  Record(p, point) \in Seq(Point) /\ Pure(Record(p, point), src, day)
<1>1. CASE p # << >> /\ point.at <= Final(p).at
  BY <1>1 DEF Record
<1>2. CASE ~(p # << >> /\ point.at <= Final(p).at)
  <2> DEFINE q == Append(p, point)
             S == {i \in DOMAIN q : q[i].at >= point.at - MaxSpan}
             m == Min(S)
             r == SubSeq(q, m, Len(q))
  <2>1. /\ q \in Seq(Point) /\ Len(q) = Len(p) + 1 /\ DOMAIN q = 1 .. Len(q)
        /\ q[Len(q)] = point /\ \A i \in 1 .. Len(p) : q[i] = p[i]
        /\ Len(p) \in Nat /\ DOMAIN p = 1 .. Len(p)
    OBVIOUS
  <2>2. point.at \in Nat /\ MaxSpan \in Nat
    BY ScanAssumption DEF Point
  <2>3. \A i \in 1 .. Len(p) : p[i].at \in Nat
    <3>1. \A i \in 1 .. Len(p) : p[i] \in Point
      BY <2>1
    <3> QED  BY <3>1 DEF Point
  <2>4. \A i \in 1 .. Len(p) : p[i].at < point.at
    <3> SUFFICES ASSUME NEW i \in 1 .. Len(p)
                 PROVE  p[i].at < point.at
      OBVIOUS
    <3>1. p # << >> /\ Len(p) \in 1 .. Len(p)
      BY <2>1
    <3>2. Final(p).at < point.at /\ Final(p) = p[Len(p)]
      BY <1>2, <2>2, <2>3, <3>1 DEF Final
    <3>3. p[i].at <= p[Len(p)].at
      BY <2>1, <2>3, <3>1 DEF Pure
    <3> QED
      BY <2>2, <2>3, <3>1, <3>2, <3>3
  <2>5. Len(q) \in S /\ S \subseteq 1 .. Len(q)
    BY <2>1, <2>2
  <2>6. m \in S /\ m \in 1 .. Len(q) /\ q[m].at >= point.at - MaxSpan
    <3>1. S \in SUBSET Nat /\ S # {}
      BY <2>1, <2>5
    <3>2. m \in S
      <4> HIDE DEF S
      <4> QED  BY <3>1, LeastIndex
    <3> HIDE DEF q, m
    <3> QED
      BY <2>1, <2>5, <3>2
  <2>7. /\ r \in Seq(Point) /\ Len(r) = Len(q) - m + 1
        /\ \A i \in 1 .. Len(r) : r[i] = q[m + i - 1]
    <3> HIDE DEF q, m
    <3> QED  BY <2>1, <2>6
  <2>8. /\ \A i \in 1 .. Len(q) : q[i].src = src /\ DayOf(q[i].at) = day
        /\ \A i \in 1 .. Len(q) : q[i].at \in Nat
        /\ \A i, j \in 1 .. Len(q) : i < j => q[i].at < q[j].at
    <3>1. \A i \in 1 .. Len(q) : i \in 1 .. Len(p) \/ i = Len(q)
      BY <2>1
    <3>2. \A i \in 1 .. Len(p) : p[i].src = src /\ DayOf(p[i].at) = day
      BY <2>1 DEF Pure
    <3>3. \A i, j \in 1 .. Len(p) : i < j => p[i].at < p[j].at
      BY <2>1 DEF Pure
    <3> HIDE DEF q
    <3>4. \A i \in 1 .. Len(q) : q[i].src = src /\ DayOf(q[i].at) = day
      BY <2>1, <3>1, <3>2
    <3>5. \A i \in 1 .. Len(q) : q[i].at \in Nat
      BY <2>1, <2>2, <2>3, <3>1
    <3>6. \A i, j \in 1 .. Len(q) : i < j => q[i].at < q[j].at
      BY <2>1, <2>4, <3>1, <3>3
    <3> QED
      BY <3>4, <3>5, <3>6
  <2>9. Record(p, point) = r
    BY <1>2 DEF Record
  <2>10. /\ Len(r) \in Nat /\ Len(r) >= 1 /\ DOMAIN r = 1 .. Len(r)
         /\ \A i \in 1 .. Len(r) : m + i - 1 \in 1 .. Len(q)
         /\ r[1] = q[m] /\ Final(r) = point
    <3> HIDE DEF q, m, r
    <3> QED  BY <2>1, <2>6, <2>7 DEF Final
  <2>11. Pure(r, src, day)
    <3> HIDE DEF q, m, r
    <3>1. \A i \in DOMAIN r : r[i].src = src /\ DayOf(r[i].at) = day
      BY <2>7, <2>8, <2>10
    <3>2. \A i, j \in DOMAIN r : i < j => r[i].at < r[j].at
      <4> SUFFICES ASSUME NEW i \in DOMAIN r, NEW j \in DOMAIN r, i < j
                   PROVE  r[i].at < r[j].at
        OBVIOUS
      <4>1. m + i - 1 < m + j - 1
        BY <2>6, <2>10
      <4> QED
        BY <4>1, <2>7, <2>8, <2>10
    <3>3. Final(r).at - r[1].at <= MaxSpan
      BY <2>2, <2>6, <2>8, <2>10
    <3> QED
      BY <3>1, <3>2, <3>3 DEF Pure
  <2> QED
    BY <2>7, <2>9, <2>11
<1> QED
  BY <1>1, <1>2

\* A window without a source has no points yet, and no streak.
WellKept(w) ==
  /\ w \in Window /\ Pure(w.points, w.src, w.day)
  /\ w.src = None => w.streak.count = 0

LEMMA FreshIsKept ==
  ASSUME NEW d \in Int
  PROVE  WellKept(Fresh(d)) /\ Fresh(d).day = d /\ Fresh(d).streak = NoStreak
         /\ Fresh(d).src = None
BY DEF WellKept, Fresh, Window, Pure, NoStreak, Streak

\* update() leaves a window of the row's source and date, and a streak only if
\* both are still what they were.
LEMMA UpdateKeeps ==
  ASSUME NEW t \in Nat, NEW row \in Row, NEW w, WellKept(w)
  PROVE  LET v == Update(w, t, row) IN
         /\ WellKept(v) /\ v.src = row.src /\ v.day = DayOf(t)
         /\ \/ v.streak = NoStreak
            \/ /\ v.streak = w.streak /\ v.day = w.day
               /\ v.src = w.src \/ w.streak.count = 0
<1> DEFINE r == Roll(w, DayOf(t))
           u == Resource(r, row.src)
           point == [at |-> t, price |-> row.price, oi |-> row.oi,
                     src |-> row.src]
           v == Update(w, t, row)
<1>1. row.src \in FeedSources /\ row.src # None /\ point \in Point
  BY ScanAssumption DEF Row, Point
<1>2. DayOf(t) \in Int
  BY Dates
<1>3. /\ WellKept(r) /\ r.day = DayOf(t)
      /\ \/ r.streak = NoStreak /\ r.src = None
         \/ r = w
  BY <1>2, FreshIsKept DEF Roll
<1>4. /\ u \in Window /\ u.src = row.src /\ u.day = DayOf(t)
      /\ Pure(u.points, u.src, u.day)
      /\ \/ u.streak = NoStreak
         \/ /\ u.streak = r.streak
            /\ u.src = r.src \/ r.streak.count = 0
  <2> HIDE DEF r
  <2>1. CASE r.src = row.src
    <3>1. u = [r EXCEPT !.src = row.src]
      BY <2>1 DEF Resource
    <3> QED
      BY <1>1, <1>3, <2>1, <3>1 DEF WellKept, Window
  <2>2. CASE r.src = None
    <3>1. u = [r EXCEPT !.src = row.src]
      BY <2>2 DEF Resource
    <3>2. r.points = << >>
      <4>1. /\ r.points \in Seq(Point)
            /\ \A i \in DOMAIN r.points : r.points[i].src = None
        BY <1>3, <2>2 DEF WellKept, Window, Pure
      <4>2. \A i \in DOMAIN r.points : r.points[i] \in Point
        BY <4>1
      <4>3. \A i \in DOMAIN r.points : FALSE
        BY <4>1, <4>2, ScanAssumption DEF Point
      <4> QED
        BY <4>1, <4>3
    <3>3. Pure(u.points, u.src, u.day)
      BY <1>3, <3>1, <3>2 DEF WellKept, Window, Pure
    <3> QED
      BY <1>1, <1>3, <2>2, <3>1, <3>3 DEF WellKept, Window
  <2>3. CASE r.src \notin {None, row.src}
    <3>1. u = [r EXCEPT !.src = row.src, !.points = << >>, !.streak = NoStreak]
      BY <2>3 DEF Resource
    <3>2. r \in Window
      BY <1>3 DEF WellKept
    <3>3. << >> \in Seq(Point) /\ NoStreak \in Streak
      BY DEF NoStreak, Streak
    <3>4. /\ u \in Window /\ u.src = row.src /\ u.day = r.day
          /\ u.points = << >> /\ u.streak = NoStreak
      <4> HIDE DEF u
      <4> QED  BY <1>1, <3>1, <3>2, <3>3 DEF Window
    <3>5. Pure(u.points, u.src, u.day)
      <4> HIDE DEF u
      <4> QED  BY <3>4 DEF Pure
    <3> QED
      BY <1>3, <3>4, <3>5
  <2> QED
    BY <2>1, <2>2, <2>3
<1>5. v = [u EXCEPT !.points = Record(u.points, point)]
  BY <1>4 DEF Update, Window
<1>6. /\ Record(u.points, point) \in Seq(Point)
      /\ Pure(Record(u.points, point), u.src, u.day)
  <2> HIDE DEF u
  <2> QED  BY <1>1, <1>4, RecordIsPure DEF Window
<1>7. /\ v \in Window /\ v.src = row.src /\ v.day = DayOf(t)
      /\ v.streak = u.streak /\ Pure(v.points, v.src, v.day)
  <2> HIDE DEF u, point, v
  <2> QED  BY <1>4, <1>5, <1>6 DEF Window
<1> HIDE DEF u, r, v
<1> QED
  BY <1>1, <1>3, <1>4, <1>7 DEF WellKept, v, NoStreak

-----------------------------------------------------------------------------
(***************************************************************************)
(* The streak and the notes.                                               *)
(***************************************************************************)

Typed(ns) == ns \in Seq(Note) /\ Len(ns) <= Persistence

\* Remember appends a note and drops the first once there are Persistence.
LEMMA LastNotes ==
  ASSUME NEW note \in Note, NEW new, Typed(notes), new = Remember(note)
  PROVE  /\ Typed(new) /\ Len(new) \in Nat /\ Len(new) >= 1
         /\ new[Len(new)] = note
         /\ Len(new) = Len(notes) + 1 \/ Len(new) = Persistence
         /\ \A i \in 1 .. Len(new) - 1 :
              /\ i + Len(notes) + 1 - Len(new) \in 1 .. Len(notes)
              /\ new[i] = notes[i + Len(notes) + 1 - Len(new)]
<1> DEFINE all == Append(notes, note)
           k == Max({1, Len(all) - Persistence + 1})
<1>1. /\ Len(notes) \in Nat /\ Len(notes) <= Persistence
      /\ Persistence \in Nat /\ Persistence > 0
  BY ScanAssumption DEF Typed
<1>2. /\ all \in Seq(Note) /\ Len(all) = Len(notes) + 1
      /\ all[Len(all)] = note
      /\ \A i \in 1 .. Len(notes) : all[i] = notes[i]
  BY DEF Typed
<1> HIDE DEF all
<1>3. /\ k \in 1 .. Len(all)
      /\ k = 1 \/ Len(all) - k + 1 = Persistence
      /\ Len(all) - k + 1 <= Persistence
  <2>1. \A x \in Int : Max({1, x}) = IF 1 >= x THEN 1 ELSE x
    BY DEF Max
  <2> QED
    BY <1>1, <1>2, <2>1
<1> HIDE DEF k
<1>4. new = SubSeq(all, k, Len(all))
  BY DEF Remember, all, k
<1>5. /\ new \in Seq(Note) /\ Len(new) = Len(all) - k + 1
      /\ \A i \in 1 .. Len(new) : new[i] = all[k + i - 1]
  BY <1>2, <1>3, <1>4
<1>6. /\ Len(new) \in Nat /\ Len(new) >= 1 /\ Len(new) <= Persistence
      /\ Len(new) = Len(notes) + 1 \/ Len(new) = Persistence
      /\ k + Len(new) - 1 = Len(all)
  BY <1>1, <1>2, <1>3, <1>5
<1>7. new[Len(new)] = note
  BY <1>2, <1>5, <1>6
<1>8. ASSUME NEW i \in 1 .. Len(new) - 1
      PROVE  /\ i + Len(notes) + 1 - Len(new) \in 1 .. Len(notes)
             /\ new[i] = notes[i + Len(notes) + 1 - Len(new)]
  <2>1. /\ k + i - 1 = i + Len(notes) + 1 - Len(new)
        /\ k + i - 1 \in 1 .. Len(notes) /\ i \in 1 .. Len(new)
    BY <1>1, <1>2, <1>3, <1>6
  <2> QED
    BY <1>2, <1>5, <2>1
<1> QED
  BY <1>5, <1>6, <1>7, <1>8 DEF Typed

\* The last notes, as many as the streak counts or all, agreed in the window
\* and follow one another closely.
Persisted(ns, w) ==
  LET c == w.streak.count IN
  /\ c <= Len(ns) \/ Len(ns) = Persistence
  /\ c > 0 => w.streak.at = Final(ns).at
  /\ \A i \in 1 .. Len(ns) :
       Len(ns) - i < c => /\ ns[i].agrees /\ ns[i].src = w.src
                          /\ DayOf(ns[i].at) = w.day
  /\ \A i \in 1 .. Len(ns) - 1 :
       Len(ns) - i < c => ns[i + 1].at - ns[i].at \in 1 .. MaxGap

LEMMA NewStreak ==
  ASSUME NEW w, w.streak.count = 0, Typed(notes)
  PROVE  Persisted(notes, w)
BY DEF Persisted, Typed

\* note_agreement and the note of it go together.
LEMMA NotedKeeps ==
  ASSUME NEW t \in Nat, NEW note \in Note, note.at = t, NEW w \in Window,
         Typed(notes), \A i \in DOMAIN notes : notes[i].at < t,
         Persisted(notes, w), w.src = note.src, w.day = DayOf(t)
  PROVE  Persisted(Remember(note),
                   [w EXCEPT !.streak = Noted(@, note.agrees, t)])
<1> DEFINE new == Remember(note)
           v == [w EXCEPT !.streak = Noted(@, note.agrees, t)]
           c == w.streak.count
           n == Len(notes)
<1>0. SUFFICES Persisted(new, v)
  OBVIOUS
<1>1. /\ n \in Nat /\ Persistence \in Nat /\ Persistence > 0 /\ MaxGap \in Nat
      /\ DOMAIN notes = 1 .. n
      /\ \A i \in 1 .. n : notes[i].at \in Nat
  <2>1. \A i \in 1 .. n : notes[i] \in Note
    BY DEF Typed
  <2> QED
    BY <2>1, ScanAssumption DEF Typed, Note
<1>2. c \in Nat /\ w.streak.at \in Nat \union {-1}
  BY DEF Window, Streak, Never
<1>3. /\ v.src = w.src /\ v.day = w.day
      /\ v.streak = Noted(w.streak, note.agrees, t)
  BY DEF Window
<1>6. /\ c <= n \/ n = Persistence
      /\ c > 0 => w.streak.at = notes[n].at
      /\ \A i \in 1 .. n :
           n - i < c => /\ notes[i].agrees /\ notes[i].src = w.src
                        /\ DayOf(notes[i].at) = w.day
      /\ \A i \in 1 .. n - 1 :
           n - i < c => notes[i + 1].at - notes[i].at \in 1 .. MaxGap
  BY DEF Persisted, Final
<1> HIDE DEF v, c, n
<1>4. CASE ~note.agrees
  <2>1. v.streak.count = 0
    BY <1>3, <1>4 DEF Noted
  <2>2. Typed(new)
    BY LastNotes
  <2> HIDE DEF new
  <2> QED
    BY <2>1, <2>2, <1>1 DEF Persisted, Typed
<1>5. CASE note.agrees
  <2>1. /\ Typed(new) /\ Len(new) \in Nat /\ Len(new) >= 1
        /\ new[Len(new)] = note
        /\ Len(new) = n + 1 \/ Len(new) = Persistence
        /\ \A i \in 1 .. Len(new) - 1 :
             /\ i + n + 1 - Len(new) \in 1 .. n
             /\ new[i] = notes[i + n + 1 - Len(new)]
    BY LastNotes DEF n
  <2>2. v.streak.at = t
    BY <1>3 DEF Noted
  <2> HIDE DEF new
  <2>3. CASE v.streak.count = 1
    <3>1. \A i \in 1 .. Len(new) : Len(new) - i < 1 => i = Len(new)
      BY <2>1
    <3> QED
      <4>1. \A i \in 1 .. Len(new) :
              Len(new) - i < 1 => /\ new[i].agrees /\ new[i].src = w.src
                                  /\ DayOf(new[i].at) = w.day
        BY <1>5, <2>1, <3>1
      <4>2. \A i \in 1 .. Len(new) - 1 : ~(Len(new) - i < 1)
        BY <2>1
      <4>3. Final(new).at = t
        BY <2>1 DEF Final
      <4> QED
        BY <1>3, <2>1, <2>2, <2>3, <4>1, <4>2, <4>3 DEF Persisted
  <2>4. CASE v.streak.count # 1
    <3>1. /\ c > 0 /\ v.streak.count = c + 1
          /\ w.streak.at = Never \/ t - w.streak.at <= MaxGap
      BY <1>1, <1>2, <1>3, <1>5, <2>4 DEF Noted, Never, c
    <3>2. n >= 1 /\ notes[n].at = w.streak.at
      BY <1>1, <1>2, <1>6, <3>1
    <3>7. t - notes[n].at \in 1 .. MaxGap
      BY <1>1, <3>1, <3>2 DEF Never
    <3>3. c + 1 <= Len(new) \/ Len(new) = Persistence
      BY <1>1, <1>2, <1>6, <2>1 DEF Typed
    <3>4. ASSUME NEW i \in 1 .. Len(new), Len(new) - i < c + 1
          PROVE  /\ new[i].agrees /\ new[i].src = w.src
                 /\ DayOf(new[i].at) = w.day
      <4>1. CASE i = Len(new)
        BY <4>1, <1>5, <2>1
      <4>2. CASE i # Len(new)
        <5> DEFINE j == i + n + 1 - Len(new)
        <5>1. j \in 1 .. n /\ new[i] = notes[j] /\ n - j < c
          BY <4>2, <1>1, <1>2, <2>1, <3>4
        <5> HIDE DEF j
        <5> QED
          BY <5>1, <1>6
      <4> QED
        BY <4>1, <4>2
    <3>5. ASSUME NEW i \in 1 .. Len(new) - 1, Len(new) - i < c + 1
          PROVE  new[i + 1].at - new[i].at \in 1 .. MaxGap
      <4>1. CASE i = Len(new) - 1
        <5>1. new[i + 1] = note /\ new[i] = notes[n]
          BY <4>1, <1>1, <2>1
        <5> QED
          BY <5>1, <1>1, <3>7
      <4>2. CASE i # Len(new) - 1
        <5> DEFINE j == i + n + 1 - Len(new)
        <5>1. /\ j \in 1 .. n - 1 /\ new[i] = notes[j]
              /\ new[i + 1] = notes[j + 1] /\ n - j < c
          BY <4>2, <1>1, <1>2, <2>1, <3>5
        <5> HIDE DEF j
        <5> QED
          BY <5>1, <1>6
      <4> QED
        BY <4>1, <4>2
    <3>6. Final(new).at = t
      BY <2>1 DEF Final
    <3> QED
      BY <1>3, <2>2, <3>1, <3>3, <3>4, <3>5, <3>6 DEF Persisted
  <2> QED
    BY <2>3, <2>4
<1> QED
  BY <1>4, <1>5

-----------------------------------------------------------------------------
(***************************************************************************)
(* The scans.                                                              *)
(***************************************************************************)

\* Points and notes are not from the future; what may be traded was published
\* by the last scan, whose streak is the one of the window.
ScanInv ==
  /\ now \in Nat /\ WellKept(window) /\ Typed(notes)
  /\ \A i \in DOMAIN notes : notes[i].at <= now
  /\ Persisted(notes, window)
  /\ out.actionable => window.streak.count >= Persistence

LEMMA InitScan == Init => ScanInv
<1> SUFFICES ASSUME Init  PROVE ScanInv
  OBVIOUS
<1>1. WellKept(window) /\ window.streak.count = 0
  BY FreshIsKept DEF Init, Never, NoStreak
<1>2. notes = << >> /\ Typed(notes)
  BY ScanAssumption DEF Init, Typed
<1> QED
  BY <1>1, <1>2, NewStreak DEF Init, ScanInv, Nothing

\* The stock is evaluated: its streak and its notes go on together.
LEMMA EvaluateInv ==
  ASSUME ScanInv, NEW t \in Nat, t > now, now' = t,
         NEW w, WellKept(w), w.src # None, Persisted(notes, w),
         NEW sig \in Classes, NEW origin, w.src \in FeedSources,
         w.day = DayOf(t), Evaluate(t, w, sig, origin, w.src)
  PROVE  ScanInv'
<1> DEFINE note == [at |-> t, sig |-> sig,
                    agrees |-> WindowSignal(w.points) = sig, src |-> w.src]
           noted == [w EXCEPT !.streak = Noted(@, note.agrees, t)]
<1>1. PICK kept, confirmed \in BOOLEAN :
        /\ window' = noted /\ notes' = Remember(note)
        /\ out' = IF kept THEN Published(sig, origin, noted, confirmed)
                  ELSE Nothing
  BY DEF Evaluate
<1>2. note \in Note /\ note.at = t /\ note.src = w.src /\ w \in Window
  BY DEF Note, WellKept
<1>3. \A i \in DOMAIN notes : notes[i].at \in Nat /\ notes[i].at < t
  <2>1. \A i \in DOMAIN notes : notes[i] \in Note
    BY DEF ScanInv, Typed
  <2> QED
    BY <2>1 DEF ScanInv, Note
<1> HIDE DEF note
<1>4. Persisted(notes', window')
  BY <1>1, <1>2, <1>3, NotedKeeps DEF ScanInv
<1>5. /\ Typed(notes') /\ Len(notes') \in Nat
      /\ \A i \in 1 .. Len(notes') : notes'[i].at <= t
  <2>1. /\ Typed(notes') /\ Len(notes') \in Nat /\ notes'[Len(notes')] = note
        /\ \A i \in 1 .. Len(notes') - 1 :
             \E j \in DOMAIN notes : notes'[i] = notes[j]
    <3>1. DOMAIN notes = 1 .. Len(notes)
      BY DEF ScanInv, Typed
    <3> QED
      BY <1>1, <1>2, <3>1, LastNotes DEF ScanInv
  <2> QED
    BY <1>2, <1>3, <2>1
<1>6. WellKept(window')
  <2>1. Noted(w.streak, note.agrees, t) \in Streak
    BY <1>2 DEF Window, Streak, Noted
  <2>2. /\ window' \in Window /\ window'.points = w.points
        /\ window'.src = w.src /\ window'.day = w.day
    BY <1>1, <1>2, <2>1 DEF Window
  <2> QED
    BY <2>2 DEF WellKept
<1>7. out'.actionable => window'.streak.count >= Persistence
  BY <1>1 DEF Published, GatePasses, Nothing
<1>8. DOMAIN notes' = 1 .. Len(notes')
  BY <1>5 DEF Typed
<1> QED
  BY <1>4, <1>5, <1>6, <1>7, <1>8 DEF ScanInv

\* A scan with a row of the stock.
LEMMA RowInv ==
  ASSUME ScanInv, NEW t \in Nat, t > now, now' = t, NEW row \in Row,
         ScanRow(t, row)
  PROVE  ScanInv'
<1> DEFINE w == Update(window, t, row)
<1>1. /\ WellKept(w) /\ w.src = row.src /\ w.day = DayOf(t)
      /\ \/ w.streak = NoStreak
         \/ /\ w.streak = window.streak /\ w.day = window.day
            /\ w.src = window.src \/ window.streak.count = 0
  BY UpdateKeeps DEF ScanInv
<1>2. row.src \in FeedSources /\ row.src # None /\ row.sig \in Classes
  BY ScanAssumption DEF Row
<1> HIDE DEF w
<1>3. Persisted(notes, w)
  <2>1. CASE w.streak.count = 0
    BY <2>1, NewStreak DEF ScanInv
  <2>2. CASE w.streak.count # 0
    BY <1>1, <2>2 DEF ScanInv, Persisted, NoStreak
  <2> QED
    BY <2>1, <2>2
<1>4. ASSUME NEW sig \in Classes, NEW origin,
             Evaluate(t, w, sig, origin, row.src)
      PROVE  ScanInv'
  BY <1>1, <1>2, <1>3, <1>4, EvaluateInv
<1>5. CASE window' = w /\ out' = Nothing /\ UNCHANGED notes
  <2>1. \A i \in DOMAIN notes : notes[i].at <= t
    <3>1. \A i \in DOMAIN notes : notes[i].at \in Nat
      <4>1. \A i \in DOMAIN notes : notes[i] \in Note
        BY DEF ScanInv, Typed
      <4> QED  BY <4>1 DEF Note
    <3> QED
      BY <3>1 DEF ScanInv
  <2> QED
    BY <1>1, <1>3, <1>5, <2>1 DEF ScanInv, Nothing
<1>6. \/ Evaluate(t, w, row.sig, "day", row.src)
      \/ /\ WindowSignal(w.points) \in Classes
         /\ Evaluate(t, w, WindowSignal(w.points), "window", row.src)
      \/ window' = w /\ out' = Nothing /\ UNCHANGED notes
  BY DEF ScanRow, w, IsWindowCandidate, Classes
<1> QED
  BY <1>2, <1>4, <1>5, <1>6

\* Time passes, or the window starts afresh: nothing is evaluated.
LEMMA QuietInv ==
  ASSUME ScanInv, now' \in Nat, now' >= now, UNCHANGED notes,
         \/ UNCHANGED window
         \/ /\ out' = Nothing
            /\ \E d \in Int : window' = Fresh(d),
         out' = Nothing \/ UNCHANGED out
  PROVE  ScanInv'
<1>1. \A i \in DOMAIN notes : notes[i].at <= now'
  <2>1. \A i \in DOMAIN notes : notes[i] \in Note
    BY DEF ScanInv, Typed
  <2> QED
    BY <2>1 DEF ScanInv, Note
<1>2. CASE UNCHANGED window
  BY <1>1, <1>2 DEF ScanInv, Nothing
<1>3. CASE out' = Nothing /\ \E d \in Int : window' = Fresh(d)
  <2>1. WellKept(window') /\ window'.streak.count = 0
    BY <1>3, FreshIsKept DEF NoStreak
  <2>2. Persisted(notes, window')
    BY <2>1, NewStreak DEF ScanInv
  <2> QED
    BY <1>1, <1>3, <2>1, <2>2 DEF ScanInv, Nothing
<1> QED
  BY <1>2, <1>3

LEMMA NextScan == ScanInv /\ [Next]_vars => ScanInv'
<1> SUFFICES ASSUME ScanInv, [Next]_vars  PROVE ScanInv'
  OBVIOUS
<1>1. CASE scan_all_fno_realtime
  <2>1. PICK e \in Elapses :
          /\ now' = now + e
          /\ ScanWithoutRow(now + e) \/ \E row \in Row : ScanRow(now + e, row)
    BY <1>1 DEF scan_all_fno_realtime
  <2>2. now + e \in Nat /\ now + e > now /\ now + e >= now
    BY ScanAssumption DEF ScanInv
  <2>3. CASE ScanWithoutRow(now + e)
    <3>1. DayOf(now + e) \in Int
      BY <2>2, Dates
    <3>2. window' = window \/ window' = Fresh(DayOf(now + e))
      BY <2>3 DEF ScanWithoutRow, Roll
    <3>3. out' = Nothing /\ UNCHANGED notes
      BY <2>3 DEF ScanWithoutRow
    <3> QED
      BY <2>1, <2>2, <3>1, <3>2, <3>3, QuietInv
  <2> QED
    BY <2>1, <2>2, <2>3, RowInv
<1>2. CASE ScanUnavailable
  <2>1. PICK e \in Elapses : now' = now + e
    BY <1>2 DEF ScanUnavailable
  <2>2. now + e \in Nat /\ now + e > now /\ now + e >= now
    BY ScanAssumption DEF ScanInv
  <2> QED
    BY <1>2, <2>1, <2>2, QuietInv DEF ScanUnavailable
<1>3. CASE NextDay
  <2>1. now' \in Nat /\ now' >= now
    BY <1>3, Dates DEF NextDay, ScanInv
  <2> QED
    BY <1>3, <2>1, QuietInv DEF NextDay
<1>4. CASE Restart
  <2>1. Never \in Int /\ now \in Nat
    BY DEF Never, ScanInv
  <2> QED
    BY <1>4, <2>1, QuietInv DEF Restart
<1>5. CASE UNCHANGED vars
  BY <1>5 DEF vars, ScanInv
<1> QED
  BY <1>1, <1>2, <1>3, <1>4, <1>5 DEF Next

\* The points of a window are of one source and one date, in order of time, and
\* span MaxSpan at most (OIWindow.update).
THEOREM WindowsArePure == Spec => []WindowIsPure
<1>1. ScanInv => WindowIsPure
  BY DEF ScanInv, WellKept, Pure, WindowIsPure
<1> QED
  BY <1>1, InitScan, NextScan, PTL DEF Spec

\* What passes the gate was evaluated Persistence times in a row on one source
\* and date, no more than MaxGap apart, and the window agreed every time
\* (note_agreement, evaluate_gate).
THEOREM GatesNeedAgreement == Spec => []EntriesPersist
<1>1. ASSUME ScanInv, out.actionable
      PROVE  /\ Len(notes) = Persistence
             /\ \A i \in DOMAIN notes :
                  /\ notes[i].agrees /\ notes[i].src = window.src
                  /\ DayOf(notes[i].at) = window.day
             /\ \A i \in 1 .. Persistence - 1 :
                  notes[i + 1].at - notes[i].at \in 1 .. MaxGap
  <2> DEFINE c == window.streak.count
  <2>1. /\ c \in Nat /\ c >= Persistence /\ Persistence \in Nat
        /\ Len(notes) \in Nat /\ Len(notes) <= Persistence
        /\ DOMAIN notes = 1 .. Len(notes)
    BY <1>1, ScanAssumption DEF ScanInv, WellKept, Window, Streak, Typed
  <2>2. /\ c <= Len(notes) \/ Len(notes) = Persistence
        /\ \A i \in 1 .. Len(notes) :
             Len(notes) - i < c => /\ notes[i].agrees
                                   /\ notes[i].src = window.src
                                   /\ DayOf(notes[i].at) = window.day
        /\ \A i \in 1 .. Len(notes) - 1 :
             Len(notes) - i < c =>
               notes[i + 1].at - notes[i].at \in 1 .. MaxGap
    BY <1>1 DEF ScanInv, Persisted
  <2> HIDE DEF c
  <2>3. Len(notes) = Persistence
    <3>1. c <= Len(notes) \/ Len(notes) = Persistence
      BY <2>2
    <3>2. /\ c \in Nat /\ c >= Persistence /\ Persistence \in Nat
          /\ Len(notes) \in Nat /\ Len(notes) <= Persistence
      BY <2>1
    <3> QED
      BY <3>1, <3>2
  <2> QED
    BY <2>1, <2>2, <2>3
<1>2. ScanInv => EntriesPersist
  BY <1>1 DEF EntriesPersist
<1> QED
  BY <1>2, InitScan, NextScan, PTL DEF Spec

=============================================================================
