--------------------------- MODULE SignalBookProofs ---------------------------
(***************************************************************************)
(* The book of paper trades: type correctness, and what record_scan        *)
(* promises of the live trades unless a read-then-write race has rewritten *)
(* a row.  The admission rules are evaluated inside the transaction of the *)
(* scan, so each part of the invariant is stated of any book and holds of  *)
(* the committed rows and of the draft alike.                              *)
(***************************************************************************)
EXTENDS SignalBook, FiniteSetTheorems, WellFoundedInduction, TLAPS

Books == [Ids -> Row \union {NoRow}]

LEMMA NoRowIsNoRow == NoRow \notin Row /\ NoRow.status \notin LiveStatus
BY DEF NoRow, Row, LiveStatus, ClosedStatus

LEMMA RowFacts ==
  ASSUME NEW B \in Books, NEW i \in Ids, B[i].status \in LiveStatus \/ B[i] # NoRow
  PROVE  B[i] \in Row
BY NoRowIsNoRow DEF Books

LEMMA IdsFinite ==
  ASSUME NEW S \in SUBSET Ids
  PROVE  IsFiniteSet(S) /\ Cardinality(S) \in Nat
<1>1. IsFiniteSet(Ids)
  BY BookAssumption, FS_Interval DEF BookAssumption, Ids
<1> QED
  BY <1>1, FS_Subset, FS_CardinalityType

-----------------------------------------------------------------------------
(***************************************************************************)
(* Types.                                                                  *)
(***************************************************************************)
LEMMA EmptyType == Empty \in Books
BY DEF Empty, Books

LEMMA WithoutType ==
  ASSUME NEW B \in Books, NEW gone  PROVE Without(B, gone) \in Books
BY DEF Without, Books

LEMMA ClosedRType ==
  ASSUME NEW status, NEW armed, NEW f \in Int
  PROVE  ClosedR(status, armed, f) \in Int
BY BookAssumption DEF BookAssumption, PlanIsSound, ClosedR, SmallerOf, LargerOf

LEMMA HitAfterType ==
  ASSUME NEW was \in Row, NEW f \in Int
  PROVE  HitAfter(was, f) \in 0 .. 2
BY DEF HitAfter, LargerOf, Row

LEMMA StatusAfterType ==
  ASSUME NEW was, NEW f
  PROVE  StatusAfter(was, f) \in LiveStatus \union {"TG2_HIT", "SL_HIT", "BE_EXIT"}
BY DEF StatusAfter, LiveStatus

LEMMA LookedAtType ==
  ASSUME NEW now \in Row, NEW was \in Row, NEW f \in Int, slot \in Slots
  PROVE  LookedAt(now, was, f) \in Row
<1>1. HitAfter(was, f) \in 0 .. 2
  BY HitAfterType
<1>2. StatusAfter(was, f) \in LiveStatus \union {"TG2_HIT", "SL_HIT", "BE_EXIT"}
  BY StatusAfterType
<1>3. ClosedR(StatusAfter(was, f), Armed(was), f) \in Int
  BY ClosedRType
<1> DEFINE st == StatusAfter(was, f)  hit == HitAfter(was, f)
           r  == ClosedR(StatusAfter(was, f), Armed(was), f)
<1>4. CASE st \in LiveStatus
  <2>1. LookedAt(now, was, f) = [now EXCEPT !.status = st, !.hit = hit]
    BY <1>4 DEF LookedAt
  <2> HIDE DEF st, hit
  <2> QED
    BY <1>1, <1>4, <2>1 DEF Row, hit
<1>5. CASE st \notin LiveStatus
  <2>1. LookedAt(now, was, f) = [now EXCEPT !.status = st, !.hit = hit, !.closed = slot,
                                            !.result = st, !.r = r,
                                            !.source = "live_monitor"]
    BY <1>5 DEF LookedAt
  <2>2. st \in {"TG2_HIT", "SL_HIT", "BE_EXIT"} /\ hit \in 0 .. 2 /\ r \in Int
    BY <1>1, <1>2, <1>3, <1>5
  <2> HIDE DEF st, hit, r
  <2> QED
    BY <2>1, <2>2 DEF Row, Results, Sources, ClosedStatus
<1> QED
  BY <1>4, <1>5

LEMMA ExpiredType ==
  ASSUME NEW now \in Row, NEW was \in Row, NEW f \in Int, slot \in Slots
  PROVE  Expired(now, was, f) \in Row
<1> DEFINE res == DayEndResult(was, f)  r == ClosedR("EXPIRED", Armed(was), f)
<1>1. res \in {"WIN", "LOSS", "FLAT"} /\ r \in Int
  BY ClosedRType DEF DayEndResult
<1>2. Expired(now, was, f) = [now EXCEPT !.status = "EXPIRED", !.result = res, !.r = r,
                                         !.closed = slot, !.source = "live_exit"]
  BY DEF Expired
<1> HIDE DEF res, r
<1> QED
  BY <1>1, <1>2 DEF Row, Results, Sources, ClosedStatus

LEMMA RegradedType ==
  ASSUME NEW row \in Row, NEW f
  PROVE  Regraded(row, f) \in Row
<1>1. DayEndResult(row, f) \in {"WIN", "LOSS", "FLAT"}
  BY DEF DayEndResult
<1> HIDE DEF DayEndResult
<1> QED
  BY <1>1 DEF Regraded, Row, Results, Sources

LEMMA NewRowType ==
  ASSUME NEW s \in Symbols, NEW d \in Directions, day \in Days
  PROVE  NewRow(s, d) \in Row
BY DEF NewRow, Row, LiveStatus, NotClosed, Results, Sources

LEMMA NewRowLive ==
  ASSUME NEW s, NEW d
  PROVE  /\ NewRow(s, d).status = "OPEN" /\ NewRow(s, d).sym = s
         /\ NewRow(s, d).dir = d /\ NewRow(s, d).day = day
BY DEF NewRow

-----------------------------------------------------------------------------
\* What a job has read were live rows.
SeenLive ==
  \A a \in Actors : \A i \in SeenIds(a) : seen[a][i].status \in LiveStatus

TypeInv == TypeOK /\ SeenLive

LEMMA SeenFacts ==
  ASSUME TypeInv, NEW a \in Actors, NEW i \in SeenIds(a)
  PROVE  i \in Ids /\ seen[a][i] \in Row /\ seen[a][i].status \in LiveStatus
BY DEF TypeInv, TypeOK, SeenLive, SeenIds

LEMMA DaysAreInts == Days \subseteq Int /\ Slots \subseteq Int
BY DEF Days, Slots

LEMMA FavoursAreInts == Favours \subseteq Int
BY BookAssumption DEF BookAssumption

LEMMA LookRow ==
  ASSUME TypeInv, NEW a \in Actors, NEW priced \in SUBSET SeenIds(a),
         NEW price \in [priced -> Favours], Look(a, price), NEW i \in Ids
  PROVE  \/ rows'[i] = rows[i] /\ (i \in priced => rows[i] = NoRow)
         \/ /\ i \in priced /\ rows[i] \in Row /\ seen[a][i] \in Row
            /\ price[i] \in Int /\ price[i] \in Favours
            /\ rows'[i] = LookedAt(rows[i], seen[a][i], price[i])
<1>1. DOMAIN price = priced /\ \A k \in priced : price[k] \in Int
  BY BookAssumption DEF BookAssumption, PlanIsSound
<1>2. CASE i \in priced /\ rows[i] # NoRow
  BY <1>1, <1>2, SeenFacts DEF Look, TypeInv, TypeOK
<1>3. CASE ~(i \in priced /\ rows[i] # NoRow)
  BY <1>1, <1>3 DEF Look
<1> QED
  BY <1>2, <1>3

LEMMA ExpireRow ==
  ASSUME TypeInv, NEW price \in [SeenIds("close") -> Favours], Expire(price),
         NEW i \in Ids
  PROVE  \/ rows'[i] = rows[i] /\ (i \in SeenIds("close") => rows[i] = NoRow)
         \/ /\ i \in SeenIds("close") /\ rows[i] \in Row
            /\ price[i] \in Int /\ price[i] \in Favours
            /\ seen["close"][i] \in Row
            /\ rows'[i] = Expired(rows[i], seen["close"][i], price[i])
<1>1. DOMAIN price = SeenIds("close") /\ \A k \in SeenIds("close") : price[k] \in Int
  BY BookAssumption DEF BookAssumption, PlanIsSound
<1>2. CASE i \in SeenIds("close") /\ rows[i] # NoRow
  BY <1>1, <1>2, SeenFacts DEF Expire, TypeInv, TypeOK, Actors
<1>3. CASE ~(i \in SeenIds("close") /\ rows[i] # NoRow)
  BY <1>1, <1>3 DEF Expire
<1> QED
  BY <1>2, <1>3

LEMMA RegradeRow ==
  ASSUME TypeInv, NEW f \in Favours, Regrade(f), NEW i \in Ids
  PROVE  \/ rows'[i] = rows[i]
         \/ rows[i] \in Row /\ rows'[i] = Regraded(rows[i], f)
BY DEF Regrade, OfDay, TypeInv, TypeOK

LEMMA SelectType ==
  ASSUME TypeInv, NEW a \in Actors, NEW ids \in SUBSET Live(rows), Select(a, ids)
  PROVE  /\ pc' \in [Actors -> {"idle", "record", "select", "write"}]
         /\ seen' \in [Actors -> Books]
         /\ SeenLive'
<1>1. [i \in Ids |-> IF i \in ids THEN rows[i] ELSE NoRow] \in Books
  BY DEF TypeInv, TypeOK, Books
<1>2. seen' \in [Actors -> Books]
  BY <1>1 DEF Select, TypeInv, TypeOK, Books
<1>3. pc' \in [Actors -> {"idle", "record", "select", "write"}]
  BY DEF Select, Step, TypeInv, TypeOK
<1>4. ASSUME NEW b \in Actors, NEW i \in Ids, seen'[b][i] # NoRow
      PROVE  seen'[b][i].status \in LiveStatus
  <2>1. CASE b = a
    BY <1>4, <2>1 DEF Select, TypeInv, TypeOK, Live
  <2>2. CASE b # a
    <3>1. seen'[b] = seen[b]
      BY <2>2 DEF Select, TypeInv, TypeOK
    <3> QED
      BY <1>4, <3>1, SeenFacts DEF SeenIds
  <2> QED
    BY <2>1, <2>2
<1> QED
  BY <1>2, <1>3, <1>4 DEF SeenLive, SeenIds

LEMMA WriteDoneType ==
  ASSUME TypeInv, NEW a \in Actors, NEW touched \in SUBSET Ids, WriteDone(a, touched)
  PROVE  /\ pc' \in [Actors -> {"idle", "record", "select", "write"}]
         /\ seen' \in [Actors -> Books]
         /\ clobbered' \in BOOLEAN
         /\ SeenLive'
<1>1. seen' \in [Actors -> Books]
  BY EmptyType DEF WriteDone, TypeInv, TypeOK, Books
<1>2. pc' \in [Actors -> {"idle", "record", "select", "write"}]
  BY DEF WriteDone, Step, TypeInv, TypeOK
<1>3. clobbered' \in BOOLEAN
  BY DEF WriteDone, TypeInv, TypeOK
<1>4. ASSUME NEW b \in Actors, NEW i \in Ids, seen'[b][i] # NoRow
      PROVE  seen'[b][i].status \in LiveStatus
  BY <1>4, SeenFacts DEF WriteDone, TypeInv, TypeOK, Empty, SeenIds
<1> QED
  BY <1>1, <1>2, <1>3, <1>4 DEF SeenLive, SeenIds

LEMMA TypeInvInit == Init => TypeInv
<1> SUFFICES ASSUME Init PROVE TypeInv
  OBVIOUS
<1>1. 0 \in Days /\ 0 \in Slots
  BY BookAssumption DEF BookAssumption, Days, Slots
<1>2. SeenLive
  BY DEF Init, SeenLive, SeenIds, Empty
<1>3. rows \in Books /\ draft \in Books /\ seen \in [Actors -> Books]
  BY EmptyType DEF Init
<1>4. pc \in [Actors -> {"idle", "record", "select", "write"}]
  BY DEF Init, Idle
<1>5. crashes \in 0 .. MaxCrashes
  BY BookAssumption DEF Init, BookAssumption
<1> QED
  BY <1>1, <1>2, <1>3, <1>4, <1>5 DEF Init, TypeInv, TypeOK, Books

LEMMA TypeInvStep == TypeInv /\ [Next]_vars => TypeInv'
<1> SUFFICES ASSUME TypeInv, [Next]_vars PROVE TypeInv'
  OBVIOUS
<1>0. /\ day \in Days /\ slot \in Slots /\ rows \in Books /\ draft \in Books
      /\ pc \in [Actors -> {"idle", "record", "select", "write"}]
      /\ todo \subseteq Symbols /\ settled \subseteq Days
  BY DEF TypeInv, TypeOK, Books
<1>1. CASE UNCHANGED vars
  BY <1>1 DEF vars, clock, book, jobs, TypeInv, TypeOK, SeenLive, SeenIds
<1>2. CASE Tick
  <2>1. day' \in Days /\ slot' \in Slots
    BY <1>0, <1>2, BookAssumption DEF Tick, Days, Slots, BookAssumption
  <2> QED
    BY <1>2, <2>1 DEF Tick, book, jobs, TypeInv, TypeOK, SeenLive, SeenIds
<1>3. CASE RecordScan
  <2>1. /\ rows' \in Books /\ draft' \in Books /\ todo' \subseteq Symbols
        /\ UNCHANGED <<clock, seen, crashes, graded, settled, clobbered>>
    <3>1. ASSUME NEW s \in Symbols, NEW d \in Directions, ScanAdmit(s, d)
          PROVE  draft' \in Books
      BY <1>0, <3>1, NewRowType DEF ScanAdmit, Books
    <3> QED
      BY <1>0, <1>3, <3>1, EmptyType
      DEF RecordScan, ScanStart, ScanSkip, ScanAdmit, ScanRecorded,
         ScanDuplicate,
          ScanFails, book
  <2>2. pc' \in [Actors -> {"idle", "record", "select", "write"}]
    BY <1>0, <1>3 DEF RecordScan, ScanStart, ScanSkip, ScanAdmit, ScanRecorded,
       ScanDuplicate, ScanFails, Step
  <2> QED
    BY <2>1, <2>2 DEF TypeInv, TypeOK, SeenLive, SeenIds, clock, Books
<1>4. ASSUME NEW a \in Actors, NEW ids \in SUBSET Live(rows), Select(a, ids)
      PROVE  TypeInv'
  BY <1>4, SelectType DEF Select, TypeInv, TypeOK, clock, book, Books
<1>5. CASE ScanSelect \/ MonitorSelect \/ CloseSelect
  <2>1. \A d : LiveOn(rows, d) \in SUBSET Live(rows)
    BY DEF LiveOn
  <2> QED
    BY <1>4, <1>5, <2>1 DEF ScanSelect, MonitorSelect, CloseSelect, Actors
<1>6. ASSUME NEW a \in {"scan", "monitor"}, NEW priced \in SUBSET SeenIds(a),
             NEW price \in [priced -> Favours], Look(a, price)
      PROVE  TypeInv'
  <2>1. a \in Actors /\ priced \in SUBSET Ids /\ DOMAIN price = priced
    BY DEF Actors, SeenIds
  <2>2. ASSUME NEW i \in Ids  PROVE rows'[i] \in Row \union {NoRow}
    <3>1. CASE rows'[i] = rows[i]
      BY <1>0, <3>1 DEF Books
    <3>2. CASE /\ rows[i] \in Row /\ seen[a][i] \in Row /\ price[i] \in Int
               /\ rows'[i] = LookedAt(rows[i], seen[a][i], price[i])
      BY <1>0, <3>2, LookedAtType
    <3> QED
      BY <1>6, <2>1, <3>1, <3>2, LookRow
  <2>3. rows' \in Books
    BY <1>6, <2>2 DEF Look, Books
  <2>4. WriteDone(a, priced)
    BY <1>6, <2>1 DEF Look
  <2> QED
    BY <1>6, <2>1, <2>3, <2>4, WriteDoneType
    DEF Look, WriteDone, TypeInv, TypeOK, clock, Books
<1>7. ASSUME NEW price \in [SeenIds("close") -> Favours], Expire(price)
      PROVE  TypeInv'
  <2>1. ASSUME NEW i \in Ids  PROVE rows'[i] \in Row \union {NoRow}
    <3>1. CASE rows'[i] = rows[i]
      BY <1>0, <3>1 DEF Books
    <3>2. CASE /\ rows[i] \in Row /\ seen["close"][i] \in Row /\ price[i] \in Int
               /\ rows'[i] = Expired(rows[i], seen["close"][i], price[i])
      BY <1>0, <3>2, ExpiredType
    <3> QED
      BY <1>7, <3>1, <3>2, ExpireRow
  <2>2. rows' \in Books
    BY <1>7, <2>1 DEF Expire, Books
  <2>3. WriteDone("close", SeenIds("close")) /\ "close" \in Actors
        /\ SeenIds("close") \in SUBSET Ids
    BY <1>7 DEF Expire, SeenIds, Actors
  <2>4. settled' \subseteq Days
    <3>1. \A i \in SeenIds("close") : seen["close"][i].day \in Days
      BY <2>3, SeenFacts DEF Row
    <3> QED
      BY <1>0, <1>7, <3>1 DEF Expire
  <2> QED
    BY <1>7, <2>2, <2>3, <2>4, WriteDoneType
    DEF WriteDone, TypeInv, TypeOK, clock, Books
<1>8. ASSUME NEW a \in Actors, WriteFails(a)  PROVE TypeInv'
  <2>1. WriteDone(a, {})
    BY <1>8 DEF WriteFails
  <2>2. /\ pc' \in [Actors -> {"idle", "record", "select", "write"}]
        /\ seen' \in [Actors -> Books] /\ clobbered' \in BOOLEAN /\ SeenLive'
    <3>1. {} \in SUBSET Ids
      OBVIOUS
    <3> QED
      BY <2>1, <3>1, WriteDoneType
  <2>3. UNCHANGED <<day, slot, rows, draft, todo, crashes, graded, settled>>
    BY <1>8 DEF WriteFails, WriteDone, clock
  <2> QED
    BY <2>2, <2>3 DEF TypeInv, TypeOK, Books
<1>9. ASSUME NEW f \in Favours, Regrade(f)  PROVE TypeInv'
  <2>1. \A i \in Ids : rows'[i] \in Row \union {NoRow}
    BY <1>0, <1>9, RegradeRow, RegradedType DEF Books
  <2>2. rows' \in Books /\ graded' \subseteq Days
    BY <1>0, <1>9, <2>1 DEF Regrade, Books, TypeInv, TypeOK
  <2> QED
    BY <1>9, <2>2 DEF Regrade, TypeInv, TypeOK, SeenLive, SeenIds, clock, jobs,
       Books
<1>10. CASE Cleanup \/ Rollover
  <2>1. rows' \in Books
    BY <1>0, <1>10, WithoutType DEF Cleanup, Rollover
  <2> QED
    BY <1>10, <2>1
    DEF Cleanup, Rollover, TypeInv, TypeOK, SeenLive, SeenIds, clock, jobs,
       Books
<1>11. CASE Restart
  <2>1. rows' \in Books /\ draft' \in Books
    BY <1>0, <1>11, WithoutType, EmptyType DEF Restart
  <2>2. seen' \in [Actors -> Books] /\ SeenLive'
    BY <1>11, EmptyType DEF Restart, SeenLive, SeenIds, Empty
  <2>3. crashes' \in 0 .. MaxCrashes
    BY <1>11, BookAssumption DEF Restart, TypeInv, TypeOK, BookAssumption
  <2> QED
    BY <1>11, <2>1, <2>2, <2>3 DEF Restart, TypeInv, TypeOK, clock, Books, Idle
<1> QED
  BY <1>1, <1>2, <1>3, <1>5, <1>6, <1>7, <1>8, <1>9, <1>10, <1>11
  DEF Next, UpdateOpenEvents, MarketClose, Upkeep

\* Every variable keeps its type, and what the jobs have read were live rows.
THEOREM BookTypeCorrect == Spec => []TypeOK
<1>1. TypeInv => TypeOK
  BY DEF TypeInv
<1> QED
  BY <1>1, TypeInvInit, TypeInvStep, PTL DEF Spec

-----------------------------------------------------------------------------
(***************************************************************************)
(* What the admission rules of record_scan add up to, for all constants.   *)
(*                                                                         *)
(* The rules look at one book at one moment; that they bound the live      *)
(* trades and the stops of a whole day rests on two facts about any book:  *)
(* only an admission makes a trade live, and a trade ends once.  The races *)
(* break the second, which is why the theorems speak of unclobbered books. *)
(*                                                                         *)
(* The last two parts follow one row: its verdict and its progress.        *)
(***************************************************************************)

\* The trades of one side of a symbol that were stopped out on a day.
Stopped(B, s, d, e) ==
  {i \in OfDay(B, e) : B[i].sym = s /\ B[i].dir = d /\ B[i].status = "SL_HIT"}

SameSide(B, i, j) ==
  B[i].sym = B[j].sym /\ B[i].dir = B[j].dir /\ B[i].day = B[j].day

OneLive(B) ==
  \A i, j \in Live(B) : B[i].sym = B[j].sym /\ B[i].day = B[j].day => i = j

\* Why it is enough that a flip looks at the newest trade of the other side.
NewestIsLive(B) ==
  \A i \in Live(B), j \in Ids : B[j] # NoRow /\ i < j => ~SameSide(B, i, j)

\* The room for one more stop that an admission found is still there.
RoomForStop(B) ==
  \A i \in Live(B) :
    Cardinality(Stopped(B, B[i].sym, B[i].dir, B[i].day)) < MaxSl

StopsKept(B) ==
  \A s \in Symbols, d \in Directions, e \in Days :
    Cardinality(Stopped(B, s, d, e)) <= MaxSl

CapKept(B) == \A e \in Days : Cardinality(LiveOn(B, e)) <= MaxOpen

BookInv(B) == /\ OneLive(B) /\ NewestIsLive(B) /\ RoomForStop(B)
              /\ StopsKept(B) /\ CapKept(B)

-----------------------------------------------------------------------------
\* What any step but an admission does to a row: it is dropped, or keeps its
\* trade and, unless it was live, its status.
Worked(B, C, i) ==
  \/ C[i] = B[i]
  \/ C[i] = NoRow
  \/ /\ B[i] \in Row /\ C[i] \in Row
     /\ C[i].sym = B[i].sym /\ C[i].dir = B[i].dir /\ C[i].day = B[i].day
     /\ B[i].status \in LiveStatus \/ C[i].status = B[i].status

LEMMA WorkedFacts ==
  ASSUME NEW B \in Books, NEW C \in Books, \A i \in Ids : Worked(B, C, i)
  PROVE  /\ \A i \in Ids : C[i] # NoRow =>
              /\ B[i] \in Row /\ C[i] \in Row
              /\ C[i].sym = B[i].sym /\ C[i].dir = B[i].dir /\ C[i].day = B[i].day
              /\ B[i].status \in LiveStatus \/ C[i].status = B[i].status
         /\ Live(C) \subseteq Live(B)
<1>1. ASSUME NEW i \in Ids, C[i] # NoRow
      PROVE  /\ B[i] \in Row /\ C[i] \in Row
             /\ C[i].sym = B[i].sym /\ C[i].dir = B[i].dir /\ C[i].day = B[i].day
             /\ B[i].status \in LiveStatus \/ C[i].status = B[i].status
  BY <1>1 DEF Worked, Books
<1>2. Live(C) \subseteq Live(B)
  BY <1>1, NoRowIsNoRow DEF Live
<1> QED
  BY <1>1, <1>2

LEMMA BookInvWorked ==
  ASSUME NEW B \in Books, NEW C \in Books, BookInv(B),
         \A i \in Ids : Worked(B, C, i)
  PROVE  BookInv(C)
<1>1. \A i \in Ids : C[i] # NoRow =>
        /\ B[i] \in Row /\ C[i] \in Row
        /\ C[i].sym = B[i].sym /\ C[i].dir = B[i].dir /\ C[i].day = B[i].day
        /\ B[i].status \in LiveStatus \/ C[i].status = B[i].status
  BY WorkedFacts
<1>2. Live(C) \subseteq Live(B) /\ Live(B) \subseteq Ids
  BY WorkedFacts DEF Live
<1>3. \A i \in Live(C) : C[i] # NoRow
  BY NoRowIsNoRow DEF Live
<1>4. OneLive(C)
  BY <1>1, <1>2, <1>3 DEF BookInv, OneLive
<1>5. NewestIsLive(C)
  BY <1>1, <1>2, <1>3, NoRowIsNoRow DEF BookInv, NewestIsLive, SameSide
<1>6. CapKept(C)
  <2> SUFFICES ASSUME NEW e \in Days PROVE Cardinality(LiveOn(C, e)) <= MaxOpen
    BY DEF CapKept
  <2>1. LiveOn(C, e) \in SUBSET LiveOn(B, e) /\ LiveOn(B, e) \in SUBSET Ids
    BY <1>1, <1>2, <1>3, NoRowIsNoRow DEF LiveOn, OfDay
  <2>2. Cardinality(LiveOn(C, e)) <= Cardinality(LiveOn(B, e))
    BY <2>1, IdsFinite, FS_Subset
  <2>3. Cardinality(LiveOn(C, e)) \in Nat /\ Cardinality(LiveOn(B, e)) \in Nat
    BY <2>1, IdsFinite
  <2>4. Cardinality(LiveOn(B, e)) <= MaxOpen
    BY DEF BookInv, CapKept
  <2> QED
    BY <2>2, <2>3, <2>4, BookAssumption DEF BookAssumption
<1>7. ASSUME NEW s \in Symbols, NEW d \in Directions, NEW e \in Days,
             NEW j \in Stopped(C, s, d, e), j \notin Stopped(B, s, d, e)
      PROVE  j \in Live(B) /\ B[j].sym = s /\ B[j].dir = d /\ B[j].day = e
  <2>1. j \in Ids /\ C[j] # NoRow /\ C[j].status = "SL_HIT"
        /\ C[j].sym = s /\ C[j].dir = d /\ C[j].day = e
    BY <1>7 DEF Stopped, OfDay
  <2>2. B[j] \in Row /\ B[j].sym = s /\ B[j].dir = d /\ B[j].day = e
    BY <1>1, <2>1
  <2>3. B[j].status # "SL_HIT"
    BY <1>7, <2>1, <2>2, NoRowIsNoRow DEF Stopped, OfDay
  <2> QED
    BY <1>1, <2>1, <2>2, <2>3 DEF Live
<1>8. \A s, d, e : Stopped(B, s, d, e) \in SUBSET Ids /\ Stopped(C, s, d, e) \in SUBSET Ids
  BY DEF Stopped, OfDay
<1>9. RoomForStop(C)
  <2> SUFFICES ASSUME NEW i \in Live(C)
               PROVE  Cardinality(Stopped(C, C[i].sym, C[i].dir, C[i].day)) < MaxSl
    BY DEF RoomForStop
  <2> DEFINE s == C[i].sym  d == C[i].dir  e == C[i].day
  <2>1. /\ i \in Live(B) /\ B[i].sym = s /\ B[i].dir = d /\ B[i].day = e
        /\ s \in Symbols /\ d \in Directions /\ e \in Days
    BY <1>1, <1>2, <1>3 DEF Row
  <2>2. Stopped(C, s, d, e) \in SUBSET Stopped(B, s, d, e)
    <3> SUFFICES ASSUME NEW j \in Stopped(C, s, d, e), j \notin Stopped(B, s, d, e)
                 PROVE  FALSE
      OBVIOUS
    <3>1. j \in Live(B) /\ B[j].sym = s /\ B[j].day = e
      BY <1>7, <2>1
    <3>2. j = i
      BY <2>1, <3>1 DEF BookInv, OneLive
    <3> QED
      BY <3>2 DEF Stopped, Live, LiveStatus
  <2>3. Cardinality(Stopped(C, s, d, e)) <= Cardinality(Stopped(B, s, d, e))
    BY <1>8, <2>2, IdsFinite, FS_Subset
  <2>4. /\ Cardinality(Stopped(C, s, d, e)) \in Nat
        /\ Cardinality(Stopped(B, s, d, e)) \in Nat
    BY <1>8, IdsFinite
  <2>5. Cardinality(Stopped(B, s, d, e)) < MaxSl
    BY <2>1 DEF BookInv, RoomForStop
  <2> QED
    BY <2>3, <2>4, <2>5, BookAssumption DEF BookAssumption
<1>10. StopsKept(C)
  <2> SUFFICES ASSUME NEW s \in Symbols, NEW d \in Directions, NEW e \in Days
               PROVE  Cardinality(Stopped(C, s, d, e)) <= MaxSl
    BY DEF StopsKept
  <2> DEFINE was == Stopped(B, s, d, e)  now == Stopped(C, s, d, e)
  <2>1. /\ Cardinality(was) \in Nat /\ Cardinality(now) \in Nat /\ IsFiniteSet(was)
        /\ MaxSl \in Nat
    BY <1>8, IdsFinite, BookAssumption DEF BookAssumption
  <2>2. CASE now \in SUBSET was
    <3>1. Cardinality(now) <= Cardinality(was)
      BY <2>1, <2>2, FS_Subset
    <3>2. Cardinality(was) <= MaxSl
      BY DEF BookInv, StopsKept
    <3> QED
      BY <2>1, <3>1, <3>2
  <2>3. ASSUME NEW j \in now, j \notin was  PROVE Cardinality(now) <= MaxSl
    <3>1. j \in Live(B) /\ B[j].sym = s /\ B[j].dir = d /\ B[j].day = e
      BY <1>7, <2>3
    <3>2. now \in SUBSET (was \union {j})
      <4> SUFFICES ASSUME NEW k \in now, k \notin was PROVE k = j
        OBVIOUS
      <4>1. k \in Live(B) /\ B[k].sym = s /\ B[k].day = e
        BY <1>7
      <4> QED
        BY <3>1, <4>1 DEF BookInv, OneLive
    <3>3. Cardinality(was) < MaxSl
      BY <3>1 DEF BookInv, RoomForStop
    <3>4. IsFiniteSet(was \union {j}) /\ Cardinality(was \union {j}) = Cardinality(was) + 1
      BY <2>1, <2>3, FS_AddElement
    <3>5. Cardinality(now) <= Cardinality(was \union {j})
      BY <3>2, <3>4, FS_Subset
    <3> QED
      BY <2>1, <3>3, <3>4, <3>5
  <2> QED
    BY <2>2, <2>3
<1> QED
  BY <1>4, <1>5, <1>6, <1>9, <1>10 DEF BookInv

-----------------------------------------------------------------------------
(***************************************************************************)
(* An admission.                                                           *)
(***************************************************************************)
LEMMA BookInvAdmit ==
  ASSUME NEW B \in Books, BookInv(B), day \in Days,
         NEW s \in Symbols, NEW d \in Directions, NEW i \in Ids,
         Admissible(B, s, d), IsNextId(B, i)
  PROVE  BookInv([B EXCEPT ![i] = NewRow(s, d)])
<1> DEFINE C == [B EXCEPT ![i] = NewRow(s, d)]
<1>1. /\ C[i] = NewRow(s, d) /\ C[i] \in Row
      /\ C[i].sym = s /\ C[i].dir = d /\ C[i].day = day /\ C[i].status = "OPEN"
      /\ \A j \in Ids \ {i} : C[j] = B[j]
  BY NewRowType, NewRowLive DEF Books
<1>2. B[i] = NoRow /\ C[i] # NoRow
  BY <1>1, NoRowIsNoRow DEF IsNextId, Ids
<1>3. \A j \in Ids : B[j] # NoRow => j < i
  BY DEF IsNextId
<1>4. Live(C) = Live(B) \union {i} /\ i \notin Live(B)
  BY <1>1, <1>2, NoRowIsNoRow DEF Live, LiveStatus
<1>5. \A j \in Live(B) : j \in Ids /\ j # i /\ C[j] = B[j] /\ B[j] # NoRow
  BY <1>1, <1>4, NoRowIsNoRow DEF Live
<1>6. \A u, v, e : Stopped(C, u, v, e) = Stopped(B, u, v, e)
  BY <1>1, <1>2 DEF Stopped, OfDay
<1>7. \A j \in Ids : B[j] # NoRow => B[j] \in Row
  BY DEF Books
<1>8. ASSUME NEW j \in Live(B), B[j].sym = s, B[j].day = day  PROVE FALSE
  <2>1. B[j] \in Row /\ j \in Ids
    BY <1>5, <1>7
  <2>2. CASE B[j].dir = d
    BY <1>5, <1>8, <2>2 DEF Admissible, Side, OfDay, Live
  <2>3. CASE B[j].dir # d
    <3>1. j \in Side(B, s, Opposite(d))
      BY <1>5, <1>8, <2>1, <2>3 DEF Side, OfDay, Opposite, Directions, Row
    <3>2. \A k \in Side(B, s, Opposite(d)) : k <= j
      <4> SUFFICES ASSUME NEW k \in Side(B, s, Opposite(d)), ~(k <= j)  PROVE FALSE
        OBVIOUS
      <4>1. k \in Ids /\ j \in Ids /\ B[k] # NoRow /\ SameSide(B, j, k)
        BY <1>8, <2>1, <3>1 DEF Side, OfDay, SameSide
      <4>2. j < k
        BY <4>1, BookAssumption DEF Ids, BookAssumption
      <4> QED
        BY <1>8, <4>1, <4>2 DEF BookInv, NewestIsLive
    <3>3. B[j].status \notin LiveStatus
      BY <3>1, <3>2 DEF Admissible, FlipAllows
    <3> QED
      BY <3>3 DEF Live
  <2> QED
    BY <2>2, <2>3
<1> HIDE DEF C
<1>9. OneLive(C)
  <2> SUFFICES ASSUME NEW j \in Live(C), NEW k \in Live(C),
                      C[j].sym = C[k].sym, C[j].day = C[k].day
               PROVE  j = k
    BY DEF OneLive
  <2>1. CASE j # i /\ k # i
    BY <1>4, <1>5, <2>1 DEF BookInv, OneLive
  <2>2. CASE j = i /\ k # i
    BY <1>1, <1>4, <1>5, <1>8, <2>2
  <2>3. CASE j # i /\ k = i
    BY <1>1, <1>4, <1>5, <1>8, <2>3
  <2> QED
    BY <2>1, <2>2, <2>3
<1>10. NewestIsLive(C)
  <2> SUFFICES ASSUME NEW j \in Live(C), NEW k \in Ids, C[k] # NoRow, j < k,
                      SameSide(C, j, k)
               PROVE  FALSE
    BY DEF NewestIsLive
  <2>1. CASE j = i
    <3>1. B[k] # NoRow
      BY <1>1, <2>1, BookAssumption DEF Ids, BookAssumption
    <3> QED
      BY <1>3, <2>1, <3>1, BookAssumption DEF Ids, BookAssumption
  <2>2. CASE j # i /\ k = i
    BY <1>1, <1>4, <1>5, <1>8, <2>2 DEF SameSide
  <2>3. CASE j # i /\ k # i
    BY <1>1, <1>4, <1>5, <2>3 DEF SameSide, BookInv, NewestIsLive
  <2> QED
    BY <2>1, <2>2, <2>3
<1>11. RoomForStop(C)
  <2> SUFFICES ASSUME NEW j \in Live(C)
               PROVE  Cardinality(Stopped(C, C[j].sym, C[j].dir, C[j].day)) < MaxSl
    BY DEF RoomForStop
  <2>1. CASE j = i
    <3>1. Stopped(B, s, d, day) = {k \in Side(B, s, d) : B[k].status = "SL_HIT"}
      BY DEF Stopped, Side
    <3>2. Cardinality(Stopped(B, s, d, day)) < MaxSl
      BY <3>1 DEF Admissible, StopsAllow
    <3> QED
      BY <1>1, <1>6, <2>1, <3>2
  <2>2. CASE j # i
    BY <1>4, <1>5, <1>6, <2>2 DEF BookInv, RoomForStop
  <2> QED
    BY <2>1, <2>2
<1>12. StopsKept(C)
  BY <1>6 DEF BookInv, StopsKept
<1>13. CapKept(C)
  <2> SUFFICES ASSUME NEW e \in Days PROVE Cardinality(LiveOn(C, e)) <= MaxOpen
    BY DEF CapKept
  <2>1. LiveOn(B, e) \in SUBSET Ids
    BY DEF LiveOn, OfDay
  <2>2. Cardinality(LiveOn(B, e)) \in Nat /\ IsFiniteSet(LiveOn(B, e)) /\ MaxOpen \in Nat
    BY <2>1, IdsFinite, BookAssumption DEF BookAssumption
  <2>3. CASE e = day
    <3>1. LiveOn(C, e) = LiveOn(B, e) \union {i} /\ i \notin LiveOn(B, e)
      BY <1>1, <1>2, <1>4, <1>5, <2>3 DEF LiveOn, OfDay
    <3>2. Cardinality(LiveOn(B, e)) < MaxOpen
      BY <2>3 DEF Admissible, CapsAllow
    <3>3. Cardinality(LiveOn(B, e) \union {i}) = Cardinality(LiveOn(B, e)) + 1
      BY <2>2, <3>1, FS_AddElement
    <3> QED
      BY <2>2, <3>1, <3>2, <3>3
  <2>4. CASE e # day
    <3>1. LiveOn(C, e) = LiveOn(B, e)
      BY <1>1, <1>4, <1>5, <2>4 DEF LiveOn, OfDay
    <3> QED
      BY <3>1 DEF BookInv, CapKept
  <2> QED
    BY <2>3, <2>4
<1> QED
  BY <1>9, <1>10, <1>11, <1>12, <1>13 DEF BookInv, C

LEMMA BookInvEmpty == BookInv(Empty)
<1>1. Live(Empty) = {}
  BY NoRowIsNoRow DEF Live, Empty
<1>2. \A s, d, e : Stopped(Empty, s, d, e) = {} /\ LiveOn(Empty, e) = {}
  BY <1>1 DEF Stopped, OfDay, Empty, LiveOn
<1>3. Cardinality({}) = 0
  BY FS_EmptySet
<1> QED
  BY <1>1, <1>2, <1>3, BookAssumption
  DEF BookInv, OneLive, NewestIsLive, RoomForStop, StopsKept, CapKept,
     BookAssumption

-----------------------------------------------------------------------------
(***************************************************************************)
(* The invariant of the whole system.                                      *)
(***************************************************************************)
RulesInv == ~clobbered => BookInv(rows) /\ BookInv(draft)

\* What the other jobs do to the committed rows, unless it is a race.
LEMMA LookWorked ==
  ASSUME TypeInv, NEW a \in {"scan", "monitor"}, NEW priced \in SUBSET SeenIds(a),
         NEW price \in [priced -> Favours], Look(a, price), ~clobbered'
  PROVE  ~clobbered /\ \A i \in Ids : Worked(rows, rows', i)
<1>1. a \in Actors /\ DOMAIN price = priced /\ slot \in Slots
  BY DEF Actors, TypeInv, TypeOK
<1>2. ~clobbered /\ \A i \in priced : ~Overtaken(a, i)
  BY <1>1 DEF Look, WriteDone, TypeInv, TypeOK
<1>3. ASSUME NEW i \in Ids  PROVE Worked(rows, rows', i)
  <2>1. CASE rows'[i] = rows[i]
    BY <2>1 DEF Worked
  <2>2. CASE /\ i \in priced /\ rows[i] \in Row /\ seen[a][i] \in Row
             /\ price[i] \in Int
             /\ rows'[i] = LookedAt(rows[i], seen[a][i], price[i])
    <3>1. rows[i].status \in LiveStatus
      BY <1>1, <1>2, <2>2, SeenFacts, NoRowIsNoRow DEF Overtaken
    <3>2. rows'[i] \in Row
      BY <1>1, <2>2, LookedAtType
    <3>3. /\ rows'[i].sym = rows[i].sym /\ rows'[i].dir = rows[i].dir
          /\ rows'[i].day = rows[i].day
      BY <2>2 DEF LookedAt, Row
    <3> QED
      BY <2>2, <3>1, <3>2, <3>3 DEF Worked
  <2> QED
    BY <1>1, <2>1, <2>2, LookRow
<1> QED
  BY <1>2, <1>3

LEMMA ExpireWorked ==
  ASSUME TypeInv, NEW price \in [SeenIds("close") -> Favours], Expire(price),
         ~clobbered'
  PROVE  ~clobbered /\ \A i \in Ids : Worked(rows, rows', i)
<1>1. "close" \in Actors /\ DOMAIN price = SeenIds("close") /\ slot \in Slots
  BY DEF Actors, TypeInv, TypeOK
<1>2. ~clobbered /\ \A i \in SeenIds("close") : ~Overtaken("close", i)
  BY <1>1 DEF Expire, WriteDone, TypeInv, TypeOK
<1>3. ASSUME NEW i \in Ids  PROVE Worked(rows, rows', i)
  <2>1. CASE rows'[i] = rows[i]
    BY <2>1 DEF Worked
  <2>2. CASE /\ i \in SeenIds("close") /\ rows[i] \in Row /\ price[i] \in Int
             /\ seen["close"][i] \in Row
             /\ rows'[i] = Expired(rows[i], seen["close"][i], price[i])
    <3>1. rows[i].status \in LiveStatus
      BY <1>1, <1>2, <2>2, SeenFacts, NoRowIsNoRow DEF Overtaken
    <3>2. rows'[i] \in Row
      BY <1>1, <2>2, ExpiredType
    <3>3. /\ rows'[i].sym = rows[i].sym /\ rows'[i].dir = rows[i].dir
          /\ rows'[i].day = rows[i].day
      BY <2>2 DEF Expired, Row
    <3> QED
      BY <2>2, <3>1, <3>2, <3>3 DEF Worked
  <2> QED
    BY <2>1, <2>2, ExpireRow
<1> QED
  BY <1>2, <1>3

LEMMA RegradeWorked ==
  ASSUME TypeInv, NEW f \in Favours, Regrade(f), NEW i \in Ids
  PROVE  Worked(rows, rows', i)
<1>1. CASE rows'[i] = rows[i]
  BY <1>1 DEF Worked
<1>2. CASE rows[i] \in Row /\ rows'[i] = Regraded(rows[i], f)
  <2>1. rows'[i] \in Row
    BY <1>2, RegradedType
  <2>2. /\ rows'[i].sym = rows[i].sym /\ rows'[i].dir = rows[i].dir
        /\ rows'[i].day = rows[i].day /\ rows'[i].status = rows[i].status
    BY <1>2 DEF Regraded, Row
  <2> QED
    BY <1>2, <2>1, <2>2 DEF Worked
<1> QED
  BY <1>1, <1>2, RegradeRow

LEMMA WithoutWorked ==
  ASSUME NEW B \in Books, NEW gone, NEW i \in Ids
  PROVE  Worked(B, Without(B, gone), i)
BY DEF Worked, Without

\* Only an admission, and only inside the scan's transaction, adds a trade.
LEMMA StepWorked ==
  ASSUME TypeInv, [Next]_vars, ~clobbered', ~ScanRecorded
  PROVE  ~clobbered /\ \A i \in Ids : Worked(rows, rows', i)
<1>0. rows \in Books
  BY DEF TypeInv, TypeOK, Books
<1>1. CASE UNCHANGED <<rows, clobbered>>
  BY <1>1 DEF Worked
<1>2. ASSUME NEW a \in {"scan", "monitor"}, NEW priced \in SUBSET SeenIds(a),
             NEW price \in [priced -> Favours], Look(a, price)
      PROVE  ~clobbered /\ \A i \in Ids : Worked(rows, rows', i)
  BY <1>2, LookWorked
<1>3. ASSUME NEW price \in [SeenIds("close") -> Favours], Expire(price)
      PROVE  ~clobbered /\ \A i \in Ids : Worked(rows, rows', i)
  BY <1>3, ExpireWorked
<1>4. ASSUME NEW f \in Favours, Regrade(f)
      PROVE  ~clobbered /\ \A i \in Ids : Worked(rows, rows', i)
  BY <1>4, RegradeWorked DEF Regrade
<1>5. CASE Cleanup \/ Rollover \/ Restart
  BY <1>0, <1>5, WithoutWorked DEF Cleanup, Rollover, Restart
<1>6. ASSUME NEW a \in Actors, WriteFails(a)
      PROVE  ~clobbered /\ \A i \in Ids : Worked(rows, rows', i)
  <2>1. rows' = rows /\ ~clobbered
    BY <1>6 DEF WriteFails, WriteDone, TypeInv, TypeOK
  <2> QED
    BY <2>1 DEF Worked
<1> QED
  BY <1>1, <1>2, <1>3, <1>4, <1>5, <1>6
  DEF Next, RecordScan, UpdateOpenEvents, MarketClose, Upkeep, vars, book,
     Tick,
      ScanStart, ScanSkip, ScanAdmit, ScanDuplicate, ScanFails, ScanSelect,
      MonitorSelect, CloseSelect, Select

LEMMA DraftSteps ==
  ASSUME TypeInv, [Next]_vars
  PROVE  \/ UNCHANGED draft
         \/ draft' = rows /\ UNCHANGED <<rows, clobbered>>
         \/ draft' = Empty
         \/ \E s \in Symbols, d \in Directions, i \in Ids :
              /\ ScanAdmit(s, d) /\ Admissible(draft, s, d) /\ IsNextId(draft, i)
              /\ draft' = [draft EXCEPT ![i] = NewRow(s, d)]
BY DEF Next, RecordScan, UpdateOpenEvents, MarketClose, Upkeep, vars, book,
   Tick,
   ScanStart, ScanSkip, ScanAdmit, ScanRecorded, ScanDuplicate, ScanFails,
   ScanSelect, MonitorSelect, CloseSelect, Select, Look, Expire, WriteFails,
   WriteDone, Regrade, Cleanup, Rollover, Restart

LEMMA RulesInvStep ==
  ASSUME TypeInv, TypeInv', RulesInv, [Next]_vars
  PROVE  RulesInv'
<1> SUFFICES ASSUME ~clobbered' PROVE BookInv(rows') /\ BookInv(draft')
  BY DEF RulesInv
<1>0. /\ rows \in Books /\ draft \in Books /\ rows' \in Books /\ draft' \in Books
      /\ day \in Days
  BY DEF TypeInv, TypeOK, Books
<1>1. ~clobbered
  <2>1. CASE ScanRecorded
    BY <2>1 DEF ScanRecorded
  <2>2. CASE ~ScanRecorded
    BY <2>2, StepWorked
  <2> QED
    BY <2>1, <2>2
<1>2. BookInv(rows) /\ BookInv(draft)
  BY <1>1 DEF RulesInv
<1>3. BookInv(rows')
  <2>1. CASE ScanRecorded
    BY <1>2, <2>1 DEF ScanRecorded
  <2>2. CASE ~ScanRecorded
    BY <1>0, <1>2, <2>2, StepWorked, BookInvWorked
  <2> QED
    BY <2>1, <2>2
<1>4. BookInv(draft')
  <2>1. ASSUME NEW s \in Symbols, NEW d \in Directions, NEW i \in Ids,
               Admissible(draft, s, d), IsNextId(draft, i),
               draft' = [draft EXCEPT ![i] = NewRow(s, d)]
        PROVE  BookInv(draft')
    BY <1>0, <1>2, <2>1, BookInvAdmit
  <2> QED
    BY <1>2, <2>1, BookInvEmpty, DraftSteps
<1> QED
  BY <1>3, <1>4

LEMMA RulesInvariant == Spec => [](TypeInv /\ RulesInv)
<1>1. Init => TypeInv /\ RulesInv
  BY TypeInvInit, BookInvEmpty DEF Init, RulesInv
<1>2. TypeInv /\ RulesInv /\ [Next]_vars => (TypeInv /\ RulesInv)'
  BY TypeInvStep, RulesInvStep
<1> QED
  BY <1>1, <1>2, PTL DEF Spec

-----------------------------------------------------------------------------
\* Unless clobbered, a symbol never has two live trades on one day.
THEOREM OneTradePerSymbol == Spec => []OneLiveTradePerSymbol
<1>1. TypeInv /\ RulesInv => OneLiveTradePerSymbol
  BY DEF RulesInv, BookInv, OneLive, OneLiveTradePerSymbol
<1> QED
  BY <1>1, RulesInvariant, PTL

\* Unless clobbered, the live trades of a day never exceed max_open.
THEOREM OpenTradesCapped == Spec => []LiveWithinCap
<1>1. TypeInv /\ RulesInv => LiveWithinCap
  BY DEF RulesInv, BookInv, CapKept, LiveWithinCap
<1> QED
  BY <1>1, RulesInvariant, PTL

\* Unless clobbered, one side of a symbol is stopped out at most
\* max_sl_per_symbol_dir_day times on a day.
THEOREM StopsPerSide == Spec => []StopsPerSideBounded
<1>1. TypeInv /\ RulesInv => StopsPerSideBounded
  BY DEF RulesInv, BookInv, StopsKept, Stopped, StopsPerSideBounded
<1> QED
  BY <1>1, RulesInvariant, PTL

-----------------------------------------------------------------------------
(***************************************************************************)
(* The market close.  What it selected at 15:15 is all that is live of its *)
(* day, because a scan that is still writing can admit nothing any more.   *)
(***************************************************************************)
PhaseInv ==
  /\ pc["scan"] # "record" => draft = Empty
  /\ pc["scan"] = "record" /\ slot >= CloseSlot => draft = rows
  /\ pc["close"] = "write" => slot = CloseSlot
  /\ \A i \in SeenIds("close") : seen["close"][i].day <= day
  /\ \A i \in Ids : /\ rows[i] # NoRow => rows[i].day <= day
                    /\ draft[i] # NoRow => draft[i].day <= day
  /\ \A d \in settled : d < day \/ (d = day /\ slot >= CloseSlot)

FlatInv ==
  ~clobbered =>
    /\ \A d \in settled : LiveOn(rows, d) = {} /\ LiveOn(draft, d) = {}
    /\ pc["close"] = "write" =>
         \A i \in SeenIds("close") :
           LiveOn(rows, seen["close"][i].day) \subseteq SeenIds("close")

CloseInv == PhaseInv /\ FlatInv

LEMMA LiveOnWorked ==
  ASSUME NEW B \in Books, NEW C \in Books, \A i \in Ids : Worked(B, C, i), NEW d
  PROVE  LiveOn(C, d) \subseteq LiveOn(B, d)
BY WorkedFacts, NoRowIsNoRow DEF LiveOn, OfDay, Live

LEMMA LiveOnEmpty == \A d : LiveOn(Empty, d) = {}
BY NoRowIsNoRow DEF LiveOn, Live, OfDay, Empty

LEMMA RowDays ==
  ASSUME TypeInv, PhaseInv, [Next]_vars, NEW i \in Ids, rows'[i] # NoRow,
         ~ScanRecorded
  PROVE  rows'[i].day <= day
<1>1. CASE UNCHANGED rows
  BY <1>1 DEF PhaseInv
<1>2. ASSUME NEW a \in {"scan", "monitor"}, NEW priced \in SUBSET SeenIds(a),
             NEW price \in [priced -> Favours], Look(a, price)
      PROVE  rows'[i].day <= day
  <2>1. a \in Actors
    BY DEF Actors
  <2>2. CASE rows'[i] = rows[i]
    BY <2>2 DEF PhaseInv
  <2>3. CASE rows[i] \in Row /\ rows'[i] = LookedAt(rows[i], seen[a][i], price[i])
    <3>1. rows'[i].day = rows[i].day
      BY <2>3 DEF LookedAt, Row
    <3> QED
      BY <2>3, <3>1, NoRowIsNoRow DEF PhaseInv
  <2> QED
    BY <1>2, <2>1, <2>2, <2>3, LookRow
<1>3. ASSUME NEW price \in [SeenIds("close") -> Favours], Expire(price)
      PROVE  rows'[i].day <= day
  <2>1. CASE rows'[i] = rows[i]
    BY <2>1 DEF PhaseInv
  <2>2. CASE rows[i] \in Row /\ rows'[i] = Expired(rows[i], seen["close"][i], price[i])
    <3>1. rows'[i].day = rows[i].day
      BY <2>2 DEF Expired, Row
    <3> QED
      BY <2>2, <3>1, NoRowIsNoRow DEF PhaseInv
  <2> QED
    BY <1>3, <2>1, <2>2, ExpireRow
<1>4. ASSUME NEW f \in Favours, Regrade(f)  PROVE rows'[i].day <= day
  <2>1. CASE rows'[i] = rows[i]
    BY <2>1 DEF PhaseInv
  <2>2. CASE rows[i] \in Row /\ rows'[i] = Regraded(rows[i], f)
    <3>1. rows'[i].day = rows[i].day
      BY <2>2 DEF Regraded, Row
    <3> QED
      BY <2>2, <3>1, NoRowIsNoRow DEF PhaseInv
  <2> QED
    BY <1>4, <2>1, <2>2, RegradeRow
<1>5. CASE Cleanup \/ Rollover \/ Restart
  BY <1>5 DEF Cleanup, Rollover, Restart, Without, PhaseInv
<1>6. ASSUME NEW a \in Actors, WriteFails(a)  PROVE rows'[i].day <= day
  BY <1>6 DEF WriteFails, PhaseInv
<1> QED
  BY <1>1, <1>2, <1>3, <1>4, <1>5, <1>6
  DEF Next, RecordScan, UpdateOpenEvents, MarketClose, Upkeep, vars, book,
     Tick,
      ScanStart, ScanSkip, ScanAdmit, ScanDuplicate, ScanFails, ScanSelect,
      MonitorSelect, CloseSelect, Select

\* How the variables that CloseInv mentions move, but for the books.
LEMMA PcSteps ==
  ASSUME TypeInv, [Next]_vars
  PROVE  \/ /\ UNCHANGED <<day, slot, settled>>
            /\ pc'["close"] = pc["close"] /\ seen'["close"] = seen["close"]
            /\ ~Tick
         \/ Tick
         \/ CloseSelect
         \/ \E price \in [SeenIds("close") -> Favours] : Expire(price)
         \/ WriteFails("close")
         \/ Restart
<1>1. ASSUME UNCHANGED vars  PROVE UNCHANGED <<day, slot, settled, pc, seen>> /\ (~Tick \/ Tick)
  BY <1>1 DEF vars, clock, jobs
<1>2. CASE RecordScan
  BY <1>2 DEF RecordScan, ScanStart, ScanSkip, ScanAdmit, ScanRecorded,
     ScanDuplicate, ScanFails, Step, clock, TypeInv, TypeOK, Actors
<1>3. ASSUME NEW a \in {"scan", "monitor"}, WriteFails(a)
      PROVE  /\ UNCHANGED <<day, slot, settled>>
             /\ pc'["close"] = pc["close"] /\ seen'["close"] = seen["close"]
  BY <1>3 DEF WriteFails, WriteDone, Step, clock, TypeInv, TypeOK, Actors
<1>4. ASSUME NEW a \in {"scan", "monitor"}, NEW price, Look(a, price)
      PROVE  /\ UNCHANGED <<day, slot, settled>>
             /\ pc'["close"] = pc["close"] /\ seen'["close"] = seen["close"]
  BY <1>4 DEF Look, WriteDone, Step, clock, TypeInv, TypeOK, Actors
<1>5. CASE ScanSelect \/ MonitorSelect
  BY <1>5 DEF ScanSelect, MonitorSelect, Select, Step, clock, TypeInv, TypeOK,
     Actors
<1>6. ASSUME NEW f, Regrade(f)
      PROVE  UNCHANGED <<day, slot, settled, pc, seen>>
  BY <1>6 DEF Regrade, clock, jobs
<1>7. CASE Cleanup \/ Rollover
  BY <1>7 DEF Cleanup, Rollover, clock, jobs
<1> QED
  BY <1>1, <1>2, <1>3, <1>4, <1>5, <1>6, <1>7
  DEF Next, UpdateOpenEvents, MarketClose, Upkeep, Actors

\* While a scan writes, nobody else does; at 15:15 it has nothing to add.
LEMMA ScanPhase ==
  ASSUME TypeInv, PhaseInv, [Next]_vars
  PROVE  /\ pc'["scan"] # "record" => draft' = Empty
         /\ pc'["scan"] = "record" /\ slot' >= CloseSlot => draft' = rows'
<1>0. /\ pc \in [Actors -> {"idle", "record", "select", "write"}] /\ "scan" \in Actors
      /\ slot \in Int /\ EntryEnd \in Int /\ CloseSlot \in Int /\ EntryEnd <= CloseSlot
  BY DaysAreInts, BookAssumption DEF TypeInv, TypeOK, Actors, BookAssumption
<1>1. CASE RecordScan
  <2>1. ASSUME NEW s \in Symbols, NEW d \in Directions, ScanAdmit(s, d)
        PROVE  slot < CloseSlot
    BY <1>0, <2>1 DEF ScanAdmit, Admissible, InsideEntryWindow
  <2> QED
    BY <1>0, <1>1, <2>1 DEF RecordScan, ScanStart, ScanSkip, ScanAdmit,
       ScanRecorded, ScanDuplicate, ScanFails, Step, PhaseInv, WriteLocked,
       clock, book
<1>2. CASE /\ pc["scan"] # "record" /\ pc'["scan"] # "record" /\ UNCHANGED draft
  BY <1>2 DEF PhaseInv
<1>3. CASE UNCHANGED <<pc, draft, rows, slot>>
  BY <1>3 DEF PhaseInv
<1>4. CASE Tick
  BY <1>2, <1>4 DEF Tick, book, jobs, Idle, Actors
<1>5. CASE Restart
  BY <1>5 DEF Restart, Idle, Actors
<1>6. ASSUME NEW a \in Actors, NEW ids, Select(a, ids), pc["scan"] # "record" \/ a # "scan"
      PROVE  \/ pc["scan"] # "record" /\ pc'["scan"] # "record" /\ UNCHANGED draft
             \/ pc'["scan"] = pc["scan"] /\ UNCHANGED <<draft, rows, slot>>
  BY <1>0, <1>6 DEF Select, Step, clock, book
<1>7. CASE ScanSelect \/ MonitorSelect \/ CloseSelect
  <2>1. \/ pc["scan"] # "record" /\ pc'["scan"] # "record" /\ UNCHANGED draft
        \/ pc'["scan"] = pc["scan"] /\ UNCHANGED <<draft, rows, slot>>
    BY <1>6, <1>7 DEF ScanSelect, MonitorSelect, CloseSelect, Actors
  <2> QED
    BY <1>2, <2>1 DEF PhaseInv
<1>8. ASSUME NEW a \in {"scan", "monitor"}, NEW price, Look(a, price)
      PROVE  pc["scan"] # "record" /\ pc'["scan"] # "record" /\ UNCHANGED draft
  BY <1>0, <1>8 DEF Look, WriteDone, Step, WriteLocked, Actors
<1>9. ASSUME NEW price, Expire(price)
      PROVE  pc["scan"] # "record" /\ pc'["scan"] # "record" /\ UNCHANGED draft
  BY <1>0, <1>9 DEF Expire, WriteDone, Step, WriteLocked, Actors
<1>10. ASSUME NEW a \in Actors, WriteFails(a)
       PROVE  \/ pc["scan"] # "record" /\ pc'["scan"] # "record" /\ UNCHANGED draft
              \/ pc'["scan"] = pc["scan"] /\ UNCHANGED <<draft, rows, slot>>
  BY <1>0, <1>10 DEF WriteFails, WriteDone, Step, clock
<1>11. ASSUME NEW a \in Actors, WriteFails(a)
       PROVE  /\ pc'["scan"] # "record" => draft' = Empty
              /\ pc'["scan"] = "record" /\ slot' >= CloseSlot => draft' = rows'
  BY <1>10, <1>11 DEF PhaseInv
<1>12. CASE (\E f \in Favours : Regrade(f)) \/ Cleanup \/ Rollover
  BY <1>2, <1>12 DEF Regrade, Cleanup, Rollover, WriteLocked, jobs
<1> QED
  BY <1>1, <1>2, <1>3, <1>4, <1>5, <1>7, <1>8, <1>9, <1>11, <1>12
  DEF Next, UpdateOpenEvents, MarketClose, Upkeep, vars, clock, book, jobs

LEMMA PhaseInvStep ==
  ASSUME TypeInv, TypeInv', PhaseInv, [Next]_vars
  PROVE  PhaseInv'
<1>0. /\ day \in Int /\ slot \in Int /\ day' \in Int /\ slot' \in Int
      /\ CloseSlot \in Int /\ "close" \in Actors
      /\ \A d \in settled : d \in Int
      /\ \A i \in Ids : /\ rows[i] # NoRow => rows[i].day \in Int
                        /\ draft[i] # NoRow => draft[i].day \in Int
      /\ \A i \in SeenIds("close") : seen["close"][i].day \in Int
  <2>1. \A B \in Books : \A i \in Ids : B[i] # NoRow => B[i].day \in Int
    BY DaysAreInts DEF Books, Row
  <2> QED
    BY <2>1, DaysAreInts, BookAssumption
    DEF TypeInv, TypeOK, Actors, BookAssumption, Books, SeenIds
<1>1. /\ pc'["scan"] # "record" => draft' = Empty
      /\ pc'["scan"] = "record" /\ slot' >= CloseSlot => draft' = rows'
  BY ScanPhase
<1>2. /\ day <= day' /\ \A d \in settled : d < day' \/ (d = day' /\ slot' >= CloseSlot)
  <2>1. CASE UNCHANGED <<day, slot>>
    BY <1>0, <2>1 DEF PhaseInv
  <2>2. CASE Tick
    BY <1>0, <2>2 DEF Tick, PhaseInv
  <2> QED
    BY <2>1, <2>2, PcSteps
    DEF CloseSelect, Select, Expire, WriteFails, WriteDone, Restart, clock
<1>3. \A d \in settled' : d < day' \/ (d = day' /\ slot' >= CloseSlot)
  <2>1. CASE UNCHANGED settled
    BY <1>2, <2>1
  <2>2. ASSUME NEW price \in [SeenIds("close") -> Favours], Expire(price),
               NEW d \in settled', d \notin settled
        PROVE  d < day' \/ (d = day' /\ slot' >= CloseSlot)
    <3>1. PICK i \in SeenIds("close") : d = seen["close"][i].day
      BY <2>2 DEF Expire
    <3>2. d <= day /\ slot = CloseSlot /\ UNCHANGED <<day, slot>>
      BY <2>2, <3>1 DEF PhaseInv, Expire, WriteDone, clock
    <3> QED
      BY <1>0, <3>1, <3>2
  <2> QED
    BY <1>2, <2>1, <2>2, PcSteps
    DEF Tick, CloseSelect, Select, WriteFails, WriteDone, Restart
<1>4. /\ pc'["close"] = "write" => slot' = CloseSlot
      /\ \A i \in SeenIds("close")' : seen'["close"][i].day <= day'
  <2>1. CASE /\ UNCHANGED <<day, slot>>
             /\ pc'["close"] = pc["close"] /\ seen'["close"] = seen["close"]
    BY <2>1 DEF PhaseInv, SeenIds
  <2>2. CASE Tick
    BY <1>0, <1>2, <2>2 DEF Tick, PhaseInv, jobs, Idle, Actors, SeenIds
  <2>3. CASE CloseSelect
    <3>1. /\ UNCHANGED <<day, slot, rows>> /\ slot = CloseSlot
          /\ seen'["close"] = [i \in Ids |-> IF i \in LiveOn(rows, UnresolvedDay)
                                             THEN rows[i] ELSE NoRow]
      BY <1>0, <2>3 DEF CloseSelect, Select, clock, book, TypeInv, TypeOK
    <3> QED
      BY <3>1 DEF PhaseInv, SeenIds
  <2>4. CASE \/ \E price \in [SeenIds("close") -> Favours] : Expire(price)
             \/ WriteFails("close") \/ Restart
    <3>1. pc'["close"] = "idle" /\ seen'["close"] = Empty
      BY <1>0, <2>4 DEF Expire, WriteFails, WriteDone, Step, Restart, Idle,
         TypeInv,
         TypeOK
    <3> QED
      BY <3>1 DEF SeenIds, Empty
  <2> QED
    BY <2>1, <2>2, <2>3, <2>4, PcSteps
<1>5. \A i \in Ids : rows'[i] # NoRow => rows'[i].day <= day'
  <2>1. CASE ScanRecorded
    BY <2>1 DEF ScanRecorded, PhaseInv, clock
  <2>2. CASE ~ScanRecorded
    <3>1. ASSUME NEW i \in Ids, rows'[i] # NoRow
          PROVE  rows'[i].day <= day /\ rows'[i].day \in Int
      BY <2>2, <3>1, RowDays, DaysAreInts DEF TypeInv, TypeOK, Row
    <3> QED
      BY <1>0, <1>2, <3>1
  <2> QED
    BY <2>1, <2>2
<1>6. \A i \in Ids : draft'[i] # NoRow => draft'[i].day <= day'
  <2>1. \A i \in Ids : draft[i] # NoRow => draft[i].day <= day'
    BY <1>0, <1>2 DEF PhaseInv
  <2>2. \A i \in Ids : rows[i] # NoRow => rows[i].day <= day'
    BY <1>0, <1>2 DEF PhaseInv
  <2>3. ASSUME NEW s \in Symbols, NEW d \in Directions, NEW k \in Ids, ScanAdmit(s, d),
               draft' = [draft EXCEPT ![k] = NewRow(s, d)], NEW i \in Ids,
               draft'[i] # NoRow
        PROVE  draft'[i].day <= day'
    <3>1. UNCHANGED day
      BY <2>3 DEF ScanAdmit, clock
    <3>2. draft \in Books
      BY DEF TypeInv, TypeOK, Books
    <3>3. CASE i = k
      BY <1>0, <2>3, <3>1, <3>2, <3>3, NewRowLive DEF Books
    <3>4. CASE i # k
      BY <2>1, <2>3, <3>2, <3>4 DEF Books
    <3> QED
      BY <3>3, <3>4
  <2> QED
    BY <2>1, <2>2, <2>3, DraftSteps DEF Empty
<1> QED
  BY <1>1, <1>3, <1>4, <1>5, <1>6 DEF PhaseInv, SeenIds

LEMMA FlatInvStep ==
  ASSUME TypeInv, TypeInv', CloseInv, [Next]_vars
  PROVE  FlatInv'
<1> SUFFICES ASSUME ~clobbered'
             PROVE  /\ \A d \in settled' : LiveOn(rows', d) = {} /\ LiveOn(draft', d) = {}
                    /\ pc'["close"] = "write" =>
                         \A i \in SeenIds("close")' :
                           LiveOn(rows', seen'["close"][i].day) \subseteq SeenIds("close")'
  BY DEF FlatInv, LiveOn, Live, OfDay
<1>0. /\ rows \in Books /\ draft \in Books /\ rows' \in Books /\ "close" \in Actors
  BY DEF TypeInv, TypeOK, Books, Actors
<1>1. /\ ~clobbered
      /\ ~ScanRecorded => \A d : LiveOn(rows', d) \subseteq LiveOn(rows, d)
  <2>1. CASE ScanRecorded
    BY <2>1 DEF ScanRecorded
  <2>2. CASE ~ScanRecorded
    BY <1>0, <2>2, StepWorked, LiveOnWorked
  <2> QED
    BY <2>1, <2>2
<1>2. \A d \in settled : LiveOn(rows', d) = {} /\ LiveOn(draft', d) = {}
  <2> SUFFICES ASSUME NEW d \in settled
               PROVE  LiveOn(rows', d) = {} /\ LiveOn(draft', d) = {}
    OBVIOUS
  <2>1. LiveOn(rows, d) = {} /\ LiveOn(draft, d) = {}
    BY <1>1 DEF CloseInv, FlatInv
  <2>2. LiveOn(rows', d) = {}
    <3>1. CASE ScanRecorded
      BY <2>1, <3>1 DEF ScanRecorded
    <3>2. CASE ~ScanRecorded
      BY <1>1, <2>1, <3>2
    <3> QED
      BY <3>1, <3>2
  <2>3. ASSUME NEW s \in Symbols, NEW r \in Directions, NEW i \in Ids, ScanAdmit(s, r),
               draft' = [draft EXCEPT ![i] = NewRow(s, r)]
        PROVE  LiveOn(draft', d) = {}
    <3>1. slot < CloseSlot
      BY <2>3, DaysAreInts, BookAssumption
      DEF ScanAdmit, Admissible, InsideEntryWindow, BookAssumption, TypeInv,
         TypeOK
    <3>2. d # day
      BY <3>1, DaysAreInts, BookAssumption
      DEF CloseInv, PhaseInv, BookAssumption, TypeInv, TypeOK
    <3>3. draft'[i].day = day /\ \A j \in Ids \ {i} : draft'[j] = draft[j]
      BY <1>0, <2>3, NewRowLive DEF Books
    <3> QED
      BY <2>1, <3>2, <3>3 DEF LiveOn, Live, OfDay
  <2>4. LiveOn(draft', d) = {}
    BY <2>1, <2>3, LiveOnEmpty, DraftSteps
  <2> QED
    BY <2>2, <2>4
<1>3. CASE /\ UNCHANGED <<slot, settled>> /\ pc'["close"] = pc["close"]
           /\ seen'["close"] = seen["close"]
  <2> SUFFICES ASSUME pc'["close"] = "write", NEW i \in SeenIds("close")'
               PROVE  LiveOn(rows', seen'["close"][i].day) \subseteq SeenIds("close")'
    BY <1>2, <1>3
  <2>1. i \in SeenIds("close") /\ SeenIds("close")' = SeenIds("close") /\ slot = CloseSlot
    BY <1>3 DEF SeenIds, CloseInv, PhaseInv
  <2>2. LiveOn(rows, seen["close"][i].day) \subseteq SeenIds("close")
    BY <1>1, <1>3, <2>1 DEF CloseInv, FlatInv
  <2>3. LiveOn(rows', seen["close"][i].day) \subseteq LiveOn(rows, seen["close"][i].day)
    <3>1. CASE ScanRecorded
      <4>1. rows' = rows
        BY <2>1, <3>1, DaysAreInts
        DEF ScanRecorded, WriteLocked, CloseInv, PhaseInv, TypeInv, TypeOK
      <4> QED
        BY <4>1
    <3>2. CASE ~ScanRecorded
      BY <1>1, <3>2
    <3> QED
      BY <3>1, <3>2
  <2> QED
    BY <1>3, <2>1, <2>2, <2>3
<1>4. CASE Tick
  BY <1>2, <1>4 DEF Tick, jobs, Idle, Actors
<1>5. CASE CloseSelect
  <2> DEFINE e == UnresolvedDay
  <2>1. /\ UNCHANGED <<settled, rows>>
        /\ seen'["close"] = [i \in Ids |-> IF i \in LiveOn(rows, e) THEN rows[i] ELSE NoRow]
    BY <1>0, <1>5 DEF CloseSelect, Select, book, TypeInv, TypeOK
  <2>2. \A i \in SeenIds("close")' : i \in LiveOn(rows, e) /\ seen'["close"][i].day = e
    BY <2>1 DEF SeenIds, LiveOn, OfDay
  <2>3. LiveOn(rows, e) \subseteq SeenIds("close")'
    BY <2>1 DEF SeenIds, LiveOn, OfDay
  <2> HIDE DEF e
  <2> QED
    BY <1>2, <2>1, <2>2, <2>3
<1>6. ASSUME NEW price \in [SeenIds("close") -> Favours], Expire(price)
      PROVE  /\ \A d \in settled' : LiveOn(rows', d) = {} /\ LiveOn(draft', d) = {}
             /\ pc'["close"] # "write"
  <2>1. pc'["close"] = "idle" /\ draft' = Empty /\ pc["close"] = "write"
    BY <1>0, <1>6 DEF Expire, WriteDone, Step, WriteLocked, CloseInv, PhaseInv,
       TypeInv,
       TypeOK
  <2>2. ~ScanRecorded
    BY <1>6 DEF Expire, ScanRecorded
  <2>3. ASSUME NEW i \in SeenIds("close")
        PROVE  LiveOn(rows', seen["close"][i].day) = {}
    <3> DEFINE d == seen["close"][i].day
    <3>1. LiveOn(rows', d) \subseteq SeenIds("close")
      BY <1>1, <2>1, <2>2 DEF CloseInv, FlatInv
    <3>2. \A k \in SeenIds("close") : k \notin Live(rows')
      <4> SUFFICES ASSUME NEW k \in SeenIds("close") PROVE rows'[k].status \notin LiveStatus
        BY DEF Live
      <4>1. k \in Ids
        BY DEF SeenIds
      <4>2. CASE rows'[k] = NoRow
        BY <4>2, NoRowIsNoRow
      <4>3. CASE /\ rows[k] \in Row
                 /\ rows'[k] = Expired(rows[k], seen["close"][k], price[k])
        BY <4>3 DEF Expired, Row, LiveStatus
      <4> QED
        BY <1>6, <4>1, <4>2, <4>3, ExpireRow
    <3> QED
      BY <3>1, <3>2 DEF LiveOn
  <2>4. settled' = settled \union {seen["close"][i].day : i \in SeenIds("close")}
    BY <1>6 DEF Expire
  <2> QED
    BY <1>2, <2>1, <2>3, <2>4, LiveOnEmpty
<1>7. CASE WriteFails("close") \/ Restart
  BY <1>0, <1>2, <1>7 DEF WriteFails, WriteDone, Step, Restart, Idle, TypeInv,
     TypeOK
<1> QED
  BY <1>3, <1>4, <1>5, <1>6, <1>7, PcSteps

LEMMA CloseInvInit == Init => CloseInv
<1> SUFFICES ASSUME Init PROVE CloseInv
  OBVIOUS
<1>1. SeenIds("close") = {}
  BY DEF Init, SeenIds, Empty, Actors
<1> QED
  BY <1>1, LiveOnEmpty DEF Init, CloseInv, PhaseInv, FlatInv, Idle, Actors,
     Empty

\* Unless clobbered, once the market close of a day has committed, nothing of
\* that day is live again.
THEOREM NothingLiveAfterClose == Spec => []FlatAfterClose
<1>1. Init => TypeInv /\ CloseInv
  BY TypeInvInit, CloseInvInit
<1>2. TypeInv /\ CloseInv /\ [Next]_vars => (TypeInv /\ CloseInv)'
  BY TypeInvStep, PhaseInvStep, FlatInvStep DEF CloseInv
<1>3. CloseInv => FlatAfterClose
  BY DEF CloseInv, FlatInv, FlatAfterClose
<1> QED
  BY <1>1, <1>2, <1>3, PTL DEF Spec

-----------------------------------------------------------------------------
(***************************************************************************)
(* One row.  A committed row is dropped, looked at, expired or regraded;   *)
(* the write of a look or of the close rests on the row that was read,     *)
(* which unless clobbered is what the row still says.                      *)
(***************************************************************************)
StillReads(now, was) == was.status = now.status /\ was.hit = now.hit

RowMoves(i) ==
  \/ rows'[i] = rows[i] \/ rows'[i] = NoRow
  \/ /\ rows[i] \in Row
     /\ \/ \E was \in Row, f \in Favours :
             /\ was.status \in LiveStatus
             /\ ~clobbered' => StillReads(rows[i], was)
             /\ \/ rows'[i] = LookedAt(rows[i], was, f)
                \/ rows'[i] = Expired(rows[i], was, f)
        \/ \E f \in Favours : Regradable(rows[i]) /\ rows'[i] = Regraded(rows[i], f)

LEMMA RowStep ==
  ASSUME TypeInv, [Next]_vars, ~ScanRecorded, NEW i \in Ids
  PROVE  RowMoves(i)
<1>1. CASE UNCHANGED rows
  BY <1>1 DEF RowMoves
<1>2. ASSUME NEW a \in {"scan", "monitor"}, NEW priced \in SUBSET SeenIds(a),
             NEW price \in [priced -> Favours], Look(a, price)
      PROVE  RowMoves(i)
  <2>1. a \in Actors /\ DOMAIN price = priced
    BY DEF Actors
  <2>2. ~clobbered' => \A k \in priced : ~Overtaken(a, k)
    BY <1>2, <2>1 DEF Look, WriteDone, TypeInv, TypeOK
  <2>3. CASE rows'[i] = rows[i]
    BY <2>3 DEF RowMoves
  <2>4. CASE /\ i \in priced /\ rows[i] \in Row /\ seen[a][i] \in Row
             /\ price[i] \in Favours
             /\ rows'[i] = LookedAt(rows[i], seen[a][i], price[i])
    <3>1. seen[a][i].status \in LiveStatus
      BY <2>1, <2>4, SeenFacts
    <3>2. ~clobbered' => StillReads(rows[i], seen[a][i])
      BY <2>2, <2>4, NoRowIsNoRow DEF Overtaken, StillReads
    <3> QED
      BY <2>4, <3>1, <3>2 DEF RowMoves
  <2> QED
    BY <1>2, <2>1, <2>3, <2>4, LookRow
<1>3. ASSUME NEW price \in [SeenIds("close") -> Favours], Expire(price)
      PROVE  RowMoves(i)
  <2>1. "close" \in Actors /\ DOMAIN price = SeenIds("close")
    BY DEF Actors
  <2>2. ~clobbered' => \A k \in SeenIds("close") : ~Overtaken("close", k)
    BY <1>3, <2>1 DEF Expire, WriteDone, TypeInv, TypeOK
  <2>3. CASE rows'[i] = rows[i]
    BY <2>3 DEF RowMoves
  <2>4. CASE /\ i \in SeenIds("close") /\ rows[i] \in Row /\ price[i] \in Favours
             /\ seen["close"][i] \in Row
             /\ rows'[i] = Expired(rows[i], seen["close"][i], price[i])
    <3>1. seen["close"][i].status \in LiveStatus
      BY <2>1, <2>4, SeenFacts
    <3>2. ~clobbered' => StillReads(rows[i], seen["close"][i])
      BY <2>2, <2>4, NoRowIsNoRow DEF Overtaken, StillReads
    <3> QED
      BY <2>4, <3>1, <3>2 DEF RowMoves
  <2> QED
    BY <1>3, <2>3, <2>4, ExpireRow
<1>4. ASSUME NEW f \in Favours, Regrade(f)  PROVE RowMoves(i)
  BY <1>4 DEF Regrade, OfDay, TypeInv, TypeOK, RowMoves
<1>5. CASE Cleanup \/ Rollover \/ Restart
  BY <1>5 DEF Cleanup, Rollover, Restart, Without, RowMoves
<1>6. ASSUME NEW a \in Actors, WriteFails(a)  PROVE RowMoves(i)
  BY <1>6 DEF WriteFails, RowMoves
<1> QED
  BY <1>1, <1>2, <1>3, <1>4, <1>5, <1>6
  DEF Next, RecordScan, UpdateOpenEvents, MarketClose, Upkeep, vars, book,
     Tick,
      ScanStart, ScanSkip, ScanAdmit, ScanDuplicate, ScanFails, ScanSelect,
      MonitorSelect, CloseSelect, Select

-----------------------------------------------------------------------------
(***************************************************************************)
(* Verdict and result.  They are written together but for the regrading,   *)
(* which replaces the verdict of an estimate only: the close writes none.  *)
(***************************************************************************)
VerdictFits(row) ==
  row.status \in ClosedStatus =>
    /\ row.result \in {"WIN", "TG2_HIT"} => row.r > 0
    /\ row.result \in {"LOSS", "SL_HIT"} => row.r < 0
    /\ row.result = "FLAT" => row.r \in -2 * Noise .. 2 * Noise

Graded(row) == row # NoRow => row.source # "estimate" /\ VerdictFits(row)

GradeInv == \A i \in Ids : Graded(rows[i]) /\ Graded(draft[i])

LEMMA PlanFacts ==
  /\ Risk \in Int /\ T1 \in Int /\ T2 \in Int /\ Noise \in Int
  /\ 0 < Risk /\ Risk <= T1 /\ T1 < T2 /\ 0 <= Noise
BY BookAssumption DEF BookAssumption, PlanIsSound

LEMMA LookedAtFits ==
  ASSUME NEW now \in Row, NEW was \in Row, NEW f \in Int, Graded(now)
  PROVE  Graded(LookedAt(now, was, f))
<1> DEFINE st == StatusAfter(was, f)  hit == HitAfter(was, f)
           r  == ClosedR(StatusAfter(was, f), Armed(was), f)
           row == LookedAt(now, was, f)
<1>1. st \in LiveStatus \union {"TG2_HIT", "SL_HIT", "BE_EXIT"}
  BY StatusAfterType
<1>2. now.source # "estimate"
  BY NoRowIsNoRow DEF Graded
<1>3. CASE st \in LiveStatus
  <2>1. row = [now EXCEPT !.status = st, !.hit = hit]
    BY <1>3 DEF LookedAt
  <2>2. row.status = st /\ row.source = now.source
    <3> HIDE DEF st, hit, row
    <3> QED
      BY <2>1 DEF Row
  <2>3. row.status \notin ClosedStatus /\ row.source # "estimate"
    BY <1>2, <1>3, <2>2 DEF LiveStatus, ClosedStatus
  <2> QED
    BY <2>3 DEF Graded, VerdictFits
<1>4. CASE st \notin LiveStatus
  <2>1. row = [now EXCEPT !.status = st, !.hit = hit, !.closed = slot, !.result = st,
                          !.r = r, !.source = "live_monitor"]
    BY <1>4 DEF LookedAt
  <2>2. row.status = st /\ row.result = st /\ row.r = r /\ row.source = "live_monitor"
    <3> HIDE DEF st, hit, r, row
    <3> QED
      BY <2>1 DEF Row
  <2>3. st \in {"TG2_HIT", "SL_HIT", "BE_EXIT"}
    BY <1>1, <1>4
  <2>4. st = "TG2_HIT" => r > 0
    BY PlanFacts DEF ClosedR
  <2>5. st = "SL_HIT" => r < 0
    <3>1. st = "SL_HIT" => f < 0 /\ r = 2 * f
      BY PlanFacts DEF StatusAfter, StopReached, ClosedR
    <3> QED
      BY <3>1
  <2> HIDE DEF st, r
  <2> QED
    BY <2>2, <2>3, <2>4, <2>5 DEF Graded, VerdictFits
<1> QED
  BY <1>3, <1>4

LEMMA ExpiredFits ==
  ASSUME NEW now \in Row, NEW was \in Row, NEW f \in Int
  PROVE  Graded(Expired(now, was, f))
<1> DEFINE res == DayEndResult(was, f)  r == ClosedR("EXPIRED", Armed(was), f)
           row == Expired(now, was, f)
<1>1. row = [now EXCEPT !.status = "EXPIRED", !.result = res, !.r = r,
                        !.closed = slot, !.source = "live_exit"]
  BY DEF Expired
<1>2. row.result = res /\ row.r = r /\ row.source = "live_exit"
  <2> HIDE DEF res, r, row
  <2> QED
    BY <1>1 DEF Row
<1>3. res \in {"WIN", "LOSS", "FLAT"}
  BY DEF DayEndResult
<1>4. /\ res = "WIN" => r > 0
      /\ res = "LOSS" => r < 0
      /\ res = "FLAT" => r \in -2 * Noise .. 2 * Noise
  <2>1. CASE Armed(was)
    BY <2>1, PlanFacts DEF DayEndResult, ClosedR, LargerOf
  <2>2. CASE ~Armed(was)
    <3>1. r = 2 * f
      BY <2>2 DEF ClosedR
    <3> QED
      BY <2>2, <3>1, PlanFacts DEF DayEndResult
  <2> QED
    BY <2>1, <2>2
<1> HIDE DEF res, r
<1> QED
  BY <1>2, <1>3, <1>4 DEF Graded, VerdictFits

LEMMA GradeInvStep ==
  ASSUME TypeInv, GradeInv, [Next]_vars
  PROVE  GradeInv'
<1>1. ASSUME NEW i \in Ids, ~ScanRecorded  PROVE Graded(rows'[i])
  <2>1. CASE rows'[i] = rows[i] \/ rows'[i] = NoRow
    BY <2>1 DEF GradeInv, Graded
  <2>2. ASSUME rows[i] \in Row, NEW was \in Row, NEW f \in Favours,
               \/ rows'[i] = LookedAt(rows[i], was, f)
               \/ rows'[i] = Expired(rows[i], was, f)
        PROVE  Graded(rows'[i])
    BY <2>2, FavoursAreInts, LookedAtFits, ExpiredFits DEF GradeInv
  <2>3. rows[i] \in Row => ~Regradable(rows[i])
    BY NoRowIsNoRow DEF GradeInv, Graded, Regradable
  <2> QED
    BY <1>1, <2>1, <2>2, <2>3, RowStep DEF RowMoves
<1>2. ASSUME NEW i \in Ids  PROVE Graded(draft'[i])
  <2>1. ASSUME NEW s \in Symbols, NEW d \in Directions, NEW k \in Ids,
               draft' = [draft EXCEPT ![k] = NewRow(s, d)]
        PROVE  Graded(draft'[i])
    <3>1. Graded(NewRow(s, d))
      BY DEF Graded, VerdictFits, NewRow, ClosedStatus
    <3> QED
      BY <2>1, <3>1 DEF GradeInv, TypeInv, TypeOK
  <2>2. Graded(Empty[i])
    BY DEF Graded, Empty
  <2> QED
    BY <2>1, <2>2, DraftSteps DEF GradeInv
<1>3. CASE ScanRecorded
  BY <1>2, <1>3 DEF ScanRecorded, GradeInv
<1> QED
  BY <1>1, <1>2, <1>3 DEF GradeInv

\* The verdict of a closed trade and its result agree, races included.
THEOREM VerdictsAreSound == Spec => []VerdictMatchesResult
<1>1. Init => TypeInv /\ GradeInv
  <2>1. \A i \in Ids : Graded(Empty[i])
    BY DEF Graded, Empty
  <2> QED
    BY <2>1, TypeInvInit DEF Init, GradeInv
<1>2. TypeInv /\ GradeInv /\ [Next]_vars => (TypeInv /\ GradeInv)'
  BY TypeInvStep, GradeInvStep
<1>3. GradeInv => VerdictMatchesResult
  BY DEF GradeInv, Graded, VerdictFits, VerdictMatchesResult
<1> QED
  BY <1>1, <1>2, <1>3, PTL DEF Spec

-----------------------------------------------------------------------------
(***************************************************************************)
(* Progress.  Nobody writes while a scan holds the lock, so its commit     *)
(* only adds trades; every other write is of a row as it still is.         *)
(***************************************************************************)
ArmedNotStopped(row) ==
  row # NoRow /\ row.hit >= 1 => row.status # "SL_HIT"

DraftExtends ==
  pc["scan"] = "record" =>
    \A i \in Ids : rows[i] # NoRow => draft[i] = rows[i]

ProgressInv ==
  /\ DraftExtends
  /\ ~clobbered =>
       \A i \in Ids : ArmedNotStopped(rows[i]) /\ ArmedNotStopped(draft[i])

\* What ProgressIsKept says of one row.
Kept(old, new) ==
  /\ new.hit >= old.hit
  /\ old.hit >= 1 => new.status # "SL_HIT"
  /\ old.status \in ClosedStatus =>
       /\ new.status = old.status /\ new.r = old.r /\ new.closed = old.closed

LEMMA LookedAtKeeps ==
  ASSUME NEW now \in Row, NEW was \in Row, NEW f \in Int,
         was.status \in LiveStatus, StillReads(now, was)
  PROVE  Kept(now, LookedAt(now, was, f)) /\ ArmedNotStopped(LookedAt(now, was, f))
<1> DEFINE st == StatusAfter(was, f)  hit == HitAfter(was, f)
           row == LookedAt(now, was, f)
<1>1. row.status = st /\ row.hit = hit
  <2> DEFINE r == ClosedR(StatusAfter(was, f), Armed(was), f)
  <2>1. \/ row = [now EXCEPT !.status = st, !.hit = hit]
        \/ row = [now EXCEPT !.status = st, !.hit = hit, !.closed = slot,
                             !.result = st, !.r = r, !.source = "live_monitor"]
    BY DEF LookedAt
  <2> HIDE DEF st, hit, r, row
  <2> QED
    BY <2>1 DEF Row
<1>2. hit >= was.hit /\ was.hit \in Int
  BY DEF HitAfter, LargerOf, Row
<1>3. was.hit >= 1 => st # "SL_HIT"
  BY DEF StatusAfter, Armed
<1>4. hit >= 1 => st # "SL_HIT"
  <2>1. CASE was.hit >= 1
    BY <1>3, <2>1
  <2>2. CASE ~(was.hit >= 1)
    BY <2>2, PlanFacts DEF StatusAfter, StopReached, HitAfter, LargerOf, Armed,
       Row
  <2> QED
    BY <2>1, <2>2
<1>5. now.status \notin ClosedStatus /\ was.hit = now.hit
  BY DEF StillReads, LiveStatus, ClosedStatus
<1> HIDE DEF st, hit
<1> QED
  BY <1>1, <1>2, <1>3, <1>4, <1>5 DEF Kept, ArmedNotStopped

LEMMA ExpiredKeeps ==
  ASSUME NEW now \in Row, NEW was \in Row, NEW f \in Int,
         was.status \in LiveStatus, StillReads(now, was)
  PROVE  Kept(now, Expired(now, was, f)) /\ ArmedNotStopped(Expired(now, was, f))
<1> DEFINE res == DayEndResult(was, f)  r == ClosedR("EXPIRED", Armed(was), f)
           row == Expired(now, was, f)
<1>1. row = [now EXCEPT !.status = "EXPIRED", !.result = res, !.r = r,
                        !.closed = slot, !.source = "live_exit"]
  BY DEF Expired
<1>2. row.status = "EXPIRED" /\ row.hit = now.hit
  <2> HIDE DEF res, r, row
  <2> QED
    BY <1>1 DEF Row
<1>3. now.status \notin ClosedStatus /\ now.hit \in Int
  BY DEF StillReads, LiveStatus, ClosedStatus, Row
<1> QED
  BY <1>2, <1>3 DEF Kept, ArmedNotStopped

LEMMA RegradedKeeps ==
  ASSUME NEW row \in Row, NEW f \in Int, ArmedNotStopped(row)
  PROVE  Kept(row, Regraded(row, f)) /\ ArmedNotStopped(Regraded(row, f))
<1> DEFINE new == Regraded(row, f)
<1>1. /\ new.status = row.status /\ new.hit = row.hit /\ new.r = row.r
      /\ new.closed = row.closed
  BY DEF Regraded, Row
<1>2. row.hit \in Int /\ row # NoRow
  BY NoRowIsNoRow DEF Row
<1> QED
  BY <1>1, <1>2 DEF Kept, ArmedNotStopped

LEMMA RowKept ==
  ASSUME TypeInv, ProgressInv, [Next]_vars, ~ScanRecorded, ~clobbered',
         NEW i \in Ids
  PROVE  /\ ArmedNotStopped(rows'[i])
         /\ rows[i] # NoRow /\ rows'[i] # NoRow => Kept(rows[i], rows'[i])
<1>1. ~clobbered
  BY StepWorked
<1>2. ArmedNotStopped(rows[i])
  BY <1>1 DEF ProgressInv
<1>3. CASE rows'[i] = rows[i]
  <2>1. rows[i] # NoRow => rows[i] \in Row
    BY DEF TypeInv, TypeOK
  <2> QED
    BY <1>2, <1>3, <2>1 DEF Kept, ArmedNotStopped, Row
<1>4. CASE rows'[i] = NoRow
  BY <1>4 DEF ArmedNotStopped
<1>5. ASSUME rows[i] \in Row, NEW was \in Row, NEW f \in Favours,
             was.status \in LiveStatus, StillReads(rows[i], was),
             \/ rows'[i] = LookedAt(rows[i], was, f)
             \/ rows'[i] = Expired(rows[i], was, f)
      PROVE  ArmedNotStopped(rows'[i]) /\ Kept(rows[i], rows'[i])
  BY <1>5, FavoursAreInts, LookedAtKeeps, ExpiredKeeps
<1>6. ASSUME rows[i] \in Row, NEW f \in Favours, rows'[i] = Regraded(rows[i], f)
      PROVE  ArmedNotStopped(rows'[i]) /\ Kept(rows[i], rows'[i])
  BY <1>2, <1>6, FavoursAreInts, RegradedKeeps
<1> QED
  BY <1>3, <1>4, <1>5, <1>6, RowStep DEF RowMoves

LEMMA DraftExtendsStep ==
  ASSUME TypeInv, DraftExtends, [Next]_vars
  PROVE  DraftExtends'
<1>0. pc \in [Actors -> {"idle", "record", "select", "write"}] /\ "scan" \in Actors
      /\ draft \in Books /\ rows \in Books
  BY DEF TypeInv, TypeOK, Actors, Books
<1>1. CASE pc'["scan"] # "record"
  BY <1>1 DEF DraftExtends
<1>2. CASE UNCHANGED <<pc, rows, draft>>
  BY <1>2 DEF DraftExtends
<1>3. CASE RecordScan
  <2>1. ASSUME NEW s \in Symbols, NEW d \in Directions, ScanAdmit(s, d)
        PROVE  DraftExtends'
    <3>1. PICK k \in Ids : /\ IsNextId(draft, k)
                           /\ draft' = [draft EXCEPT ![k] = NewRow(s, d)]
      BY <2>1 DEF ScanAdmit
    <3>2. draft[k] = NoRow
      BY <3>1 DEF IsNextId, Ids
    <3> QED
      BY <1>0, <2>1, <3>1, <3>2 DEF ScanAdmit, DraftExtends, WriteLocked, Books
  <2> QED
    BY <1>0, <1>2, <1>3, <2>1 DEF RecordScan, ScanStart, ScanSkip,
       ScanRecorded,
       ScanDuplicate, ScanFails, Step, DraftExtends, book
<1>4. ASSUME NEW a \in Actors, NEW ids, Select(a, ids)
      PROVE  \/ pc'["scan"] # "record"
             \/ UNCHANGED <<rows, draft>> /\ pc'["scan"] = pc["scan"]
  <2>1. CASE a = "scan"
    BY <1>0, <1>4, <2>1 DEF Select, Step
  <2>2. CASE a # "scan"
    BY <1>0, <1>4, <2>2 DEF Select, Step, book
  <2> QED
    BY <2>1, <2>2
<1>5. CASE ScanSelect \/ MonitorSelect \/ CloseSelect
  BY <1>4, <1>5 DEF ScanSelect, MonitorSelect, CloseSelect, Actors,
     DraftExtends
<1>6. ASSUME NEW a \in {"scan", "monitor"}, NEW price, Look(a, price)
      PROVE  pc'["scan"] # "record"
  BY <1>0, <1>6 DEF Look, WriteDone, Step, WriteLocked, Actors
<1>7. ASSUME NEW price, Expire(price)
      PROVE  pc'["scan"] # "record"
  BY <1>0, <1>7 DEF Expire, WriteDone, Step, WriteLocked, Actors
<1>8. ASSUME NEW a \in Actors, WriteFails(a)
      PROVE  DraftExtends'
  BY <1>0, <1>8 DEF WriteFails, WriteDone, Step, DraftExtends
<1>9. CASE (\E f \in Favours : Regrade(f)) \/ Cleanup \/ Rollover
  BY <1>1, <1>9 DEF Regrade, Cleanup, Rollover, WriteLocked, jobs
<1>10. CASE Tick \/ Restart
  BY <1>1, <1>10 DEF Tick, Restart, Idle, Actors, book, jobs
<1> QED
  BY <1>1, <1>2, <1>3, <1>5, <1>6, <1>7, <1>8, <1>9, <1>10
  DEF Next, UpdateOpenEvents, MarketClose, Upkeep, vars, book, jobs

LEMMA ProgressInvStep ==
  ASSUME TypeInv, ProgressInv, [Next]_vars
  PROVE  ProgressInv'
<1>1. DraftExtends'
  BY DraftExtendsStep DEF ProgressInv
<1>2. SUFFICES ASSUME ~clobbered'
               PROVE  \A i \in Ids : ArmedNotStopped(rows'[i]) /\ ArmedNotStopped(draft'[i])
  BY <1>1 DEF ProgressInv
<1>3. ~clobbered
  BY <1>2, StepWorked DEF ScanRecorded
<1>4. ASSUME NEW i \in Ids  PROVE ArmedNotStopped(draft'[i])
  <2>1. ASSUME NEW s \in Symbols, NEW d \in Directions, NEW k \in Ids,
               draft' = [draft EXCEPT ![k] = NewRow(s, d)]
        PROVE  ArmedNotStopped(draft'[i])
    <3>1. ArmedNotStopped(NewRow(s, d))
      BY DEF ArmedNotStopped, NewRow
    <3> QED
      BY <1>3, <2>1, <3>1 DEF ProgressInv, TypeInv, TypeOK
  <2>2. ArmedNotStopped(Empty[i])
    BY DEF ArmedNotStopped, Empty
  <2> QED
    BY <1>3, <2>1, <2>2, DraftSteps DEF ProgressInv
<1>5. CASE ScanRecorded
  BY <1>3, <1>4, <1>5 DEF ScanRecorded, ProgressInv
<1>6. CASE ~ScanRecorded
  BY <1>2, <1>4, <1>6, RowKept
<1> QED
  BY <1>5, <1>6

\* Unless clobbered, a trade that reached its first target is never recorded
\* as stopped out, and no step takes back a target, a close or a result.
THEOREM ProgressKept == Spec => ProgressIsKept
<1>1. Init => TypeInv /\ ProgressInv
  <2>1. \A i \in Ids : ArmedNotStopped(Empty[i])
    BY DEF ArmedNotStopped, Empty
  <2> QED
    BY <2>1, TypeInvInit DEF Init, ProgressInv, DraftExtends, Idle, Actors
<1>2. TypeInv /\ ProgressInv /\ [Next]_vars => (TypeInv /\ ProgressInv)'
  BY TypeInvStep, ProgressInvStep
<1>3. ASSUME TypeInv, ProgressInv, [Next]_vars, NEW i \in Ids,
             rows[i] # NoRow, rows'[i] # NoRow, ~clobbered'
      PROVE  Kept(rows[i], rows'[i])
  <2>1. CASE ScanRecorded
    <3>1. rows'[i] = rows[i] /\ rows[i] \in Row /\ ~clobbered
      BY <1>3, <2>1 DEF ScanRecorded, WriteLocked, ProgressInv, DraftExtends,
         TypeInv, TypeOK
    <3>2. ArmedNotStopped(rows[i])
      BY <1>3, <3>1 DEF ProgressInv
    <3> QED
      BY <3>1, <3>2, NoRowIsNoRow DEF Kept, ArmedNotStopped, Row
  <2>2. CASE ~ScanRecorded
    BY <1>3, <2>2, RowKept
  <2> QED
    BY <2>1, <2>2
<1>4. TypeInv /\ ProgressInv /\ [Next]_vars =>
        [\A i \in Ids :
           rows[i] # NoRow /\ rows'[i] # NoRow /\ ~clobbered' =>
             /\ rows'[i].hit >= rows[i].hit
             /\ rows[i].hit >= 1 => rows'[i].status # "SL_HIT"
             /\ rows[i].status \in ClosedStatus =>
                  /\ rows'[i].status = rows[i].status
                  /\ rows'[i].r = rows[i].r
                  /\ rows'[i].closed = rows[i].closed]_rows
  BY <1>3 DEF Kept
<1> QED
  BY <1>1, <1>2, <1>4, PTL DEF Spec, ProgressIsKept

-----------------------------------------------------------------------------
(***************************************************************************)
(* Sums over a finite set, as MapThenSumSet takes them: one element after  *)
(* another.  What such a sum does when a summand changes or an element is  *)
(* added follows by induction over the subsets of the set.                 *)
(***************************************************************************)
\* The element the sum takes first.
Pick(S) == CHOOSE x \in S : TRUE

\* F is the recursive function by which MapThenSumSet adds up g over U.
IsSum(F, g, U) ==
  F = [S \in SUBSET U |->
         IF S = {} THEN 0 ELSE g[Pick(S)] + F[S \ {Pick(S)}]]

Sum(g, U) == (CHOOSE F : IsSum(F, g, U))[U]

\* Every smaller set is in P.
Among(P, T) == \A V \in SUBSET T : V # T => V \in P

LEMMA SubsetInduction ==
  ASSUME NEW U, IsFiniteSet(U), NEW P,
         \A T \in SUBSET U : Among(P, T) => T \in P
  PROVE  SUBSET U \subseteq P
<1> DEFINE Bad == (SUBSET U) \ P
<1> SUFFICES ASSUME Bad # {} PROVE FALSE
  OBVIOUS
<1>1. IsWellFoundedOn(StrictSubsetOrdering(U), SUBSET U)
  BY FS_StrictSubsetOrderingWellFounded, FS_FiniteSubsetsOfFinite
<1>2. Bad \subseteq SUBSET U
  OBVIOUS
<1> HIDE DEF Bad
<1>3. PICK T \in Bad : \A V \in Bad : ~(<<V, T>> \in StrictSubsetOrdering(U))
  BY <1>1, <1>2, WFMin
<1> USE DEF Bad
<1>4. T \in SUBSET U /\ T \notin P
  OBVIOUS
<1>5. ASSUME NEW V \in SUBSET T, V # T  PROVE V \in P
  <2>1. V \in SUBSET U
    BY <1>4
  <2>2. <<V, T>> \in StrictSubsetOrdering(U)
    BY <1>4, <1>5, <2>1 DEF StrictSubsetOrdering
  <2> QED
    BY <1>3, <2>1, <2>2
<1> QED
  BY <1>4, <1>5 DEF Among

LEMMA PickIn ==
  ASSUME NEW S, S # {}
  PROVE  Pick(S) \in S /\ S \ {Pick(S)} \subseteq S /\ S \ {Pick(S)} # S
BY DEF Pick

LEMMA SumEquation ==
  ASSUME NEW F, NEW g, NEW U, IsSum(F, g, U)
  PROVE  /\ F[{}] = 0
         /\ \A S \in SUBSET U :
              S # {} => F[S] = g[Pick(S)] + F[S \ {Pick(S)}]
<1>1. ASSUME NEW S \in SUBSET U
      PROVE  F[S] = IF S = {} THEN 0 ELSE g[Pick(S)] + F[S \ {Pick(S)}]
  BY DEF IsSum
<1>2. {} \in SUBSET U
  OBVIOUS
<1> QED
  BY <1>1, <1>2

LEMMA SumUnique ==
  ASSUME NEW U, IsFiniteSet(U), NEW V, U \subseteq V, NEW g, NEW h,
         \A i \in U : g[i] = h[i],
         NEW F, NEW G, IsSum(F, g, U), IsSum(G, h, V)
  PROVE  F[U] = G[U]
<1>1. \A S \in SUBSET U : S # {} => F[S] = g[Pick(S)] + F[S \ {Pick(S)}]
  BY SumEquation
<1>6. \A S \in SUBSET V : S # {} => G[S] = h[Pick(S)] + G[S \ {Pick(S)}]
  BY SumEquation
<1>7. \A S \in SUBSET U : S # {} => G[S] = h[Pick(S)] + G[S \ {Pick(S)}]
  BY <1>6
<1>2. F[{}] = 0 /\ G[{}] = 0
  BY SumEquation
<1> DEFINE P == {S \in SUBSET U : F[S] = G[S]}
<1>3. ASSUME NEW S \in SUBSET U, Among(P, S), S # {}  PROVE F[S] = G[S]
  <2>1. S \ {Pick(S)} \in P /\ Pick(S) \in U
    BY <1>3, PickIn DEF Among
  <2>2. F[S \ {Pick(S)}] = G[S \ {Pick(S)}]
    BY <2>1
  <2> QED
    BY <1>1, <1>3, <1>7, <2>1, <2>2
<1>4. \A S \in SUBSET U : Among(P, S) => S \in P
  BY <1>2, <1>3
<1>5. U \in P
  <2> HIDE DEF P
  <2> QED
    BY <1>4, SubsetInduction
<1> QED
  BY <1>5

LEMMA SumExists ==
  ASSUME NEW U, IsFiniteSet(U), NEW g
  PROVE  \E F : IsSum(F, g, U)
<1> DEFINE P == {S \in SUBSET U : \E F : IsSum(F, g, S)}
           C(S) == CHOOSE F : IsSum(F, g, S)
<1>1. ASSUME NEW T \in SUBSET U, Among(P, T)  PROVE T \in P
  <2> DEFINE val(S) == IF S = {} THEN 0 ELSE g[Pick(S)] + Sum(g, S \ {Pick(S)})
             F == [S \in SUBSET T |-> val(S)]
  <2>1. ASSUME NEW S \in SUBSET T, S # T  PROVE IsSum(C(S), g, S) /\ Sum(g, S) = C(S)[S]
    <3>1. \E H : IsSum(H, g, S)
      BY <1>1, <2>1 DEF Among
    <3> QED
      BY <3>1 DEF Sum
  <2>2. ASSUME NEW S \in SUBSET T, S # T  PROVE Sum(g, S) = val(S)
    <3> DEFINE R == S \ {Pick(S)}
    <3>1. IsSum(C(S), g, S) /\ Sum(g, S) = C(S)[S]
      BY <2>1, <2>2
    <3>2. CASE S = {}
      BY <3>1, <3>2, SumEquation
    <3>3. CASE S # {}
      <4>1. R \subseteq S /\ R # S /\ R \in SUBSET T /\ R # T
        BY <3>3, PickIn
      <4>2. IsSum(C(R), g, R) /\ Sum(g, R) = C(R)[R]
        BY <2>1, <4>1
      <4>3. IsFiniteSet(R)
        BY <4>1, FS_Subset
      <4> HIDE DEF C, R
      <4>4. C(R)[R] = C(S)[R]
        BY <3>1, <4>1, <4>2, <4>3, SumUnique
      <4>5. C(S)[S] = g[Pick(S)] + C(S)[R]
        BY <3>1, <3>3, SumEquation DEF R
      <4> QED
        BY <3>1, <3>3, <4>2, <4>4, <4>5 DEF R
    <3> QED
      BY <3>2, <3>3
  <2> HIDE DEF C
  <2>3. ASSUME NEW S \in SUBSET T, S # {}
        PROVE  val(S) = g[Pick(S)] + F[S \ {Pick(S)}]
    <3>1. S \ {Pick(S)} \in SUBSET T /\ S \ {Pick(S)} # T
      BY <2>3, PickIn
    <3>2. Sum(g, S \ {Pick(S)}) = val(S \ {Pick(S)})
      BY <2>2, <3>1
    <3> QED
      BY <2>3, <3>1, <3>2
  <2>4. IsSum(F, g, T)
    BY <2>3 DEF IsSum
  <2> QED
    BY <2>4
<1>2. U \in P
  <2> HIDE DEF P
  <2> QED
    BY <1>1, SubsetInduction
<1> QED
  BY <1>2

\* How a sum is taken apart.
LEMMA SumIs ==
  ASSUME NEW U, IsFiniteSet(U), NEW g, NEW F, IsSum(F, g, U)
  PROVE  F[U] = Sum(g, U)
<1> DEFINE G == CHOOSE H : IsSum(H, g, U)
<1>1. IsSum(G, g, U)
  OBVIOUS
<1>2. Sum(g, U) = G[U]
  BY DEF Sum
<1> HIDE DEF G
<1> QED
  BY <1>1, <1>2, SumUnique

LEMMA SumStep ==
  ASSUME NEW U, IsFiniteSet(U), NEW g
  PROVE  /\ U = {} => Sum(g, U) = 0
         /\ U # {} => Sum(g, U) = g[Pick(U)] + Sum(g, U \ {Pick(U)})
<1>1. PICK F : IsSum(F, g, U)
  BY SumExists
<1>2. Sum(g, U) = F[U]
  BY <1>1, SumIs
<1>3. CASE U = {}
  BY <1>1, <1>2, <1>3, SumEquation
<1>4. CASE U # {}
  <2> DEFINE R == U \ {Pick(U)}
  <2>1. R \subseteq U /\ IsFiniteSet(R)
    BY <1>4, PickIn, FS_Subset
  <2>2. PICK G : IsSum(G, g, R)
    BY <2>1, SumExists
  <2>3. F[U] = g[Pick(U)] + F[R]
    BY <1>1, <1>4, SumEquation
  <2>4. G[R] = F[R] /\ G[R] = Sum(g, R)
    BY <1>1, <2>1, <2>2, SumUnique, SumIs
  <2> QED
    BY <1>2, <1>4, <2>3, <2>4
<1> QED
  BY <1>3, <1>4

LEMMA SumSame ==
  ASSUME NEW U, IsFiniteSet(U), NEW g, NEW h, \A i \in U : g[i] = h[i]
  PROVE  Sum(g, U) = Sum(h, U)
<1>1. PICK F : IsSum(F, g, U)
  BY SumExists
<1>2. PICK G : IsSum(G, h, U)
  BY SumExists
<1> QED
  BY <1>1, <1>2, SumIs, SumUnique

LEMMA SumType ==
  ASSUME NEW U, IsFiniteSet(U), NEW g, \A i \in U : g[i] \in Int
  PROVE  Sum(g, U) \in Int
<1> DEFINE P == {S \in SUBSET U : Sum(g, S) \in Int}
<1>1. ASSUME NEW S \in SUBSET U, Among(P, S)  PROVE S \in P
  <2>1. IsFiniteSet(S)
    BY FS_Subset
  <2>2. ASSUME S = {}  PROVE Sum(g, S) \in Int
    <3>1. Sum(g, S) = 0
      BY <2>1, <2>2, SumStep
    <3> QED
      BY <3>1
  <2>3. ASSUME S # {}  PROVE Sum(g, S) \in Int
    <3> DEFINE p == Pick(S)  R == S \ {p}
    <3>1. p \in U /\ R \in P
      BY <1>1, <2>3, PickIn DEF Among
    <3>2. g[p] \in Int /\ Sum(g, R) \in Int
      BY <3>1
    <3>3. Sum(g, S) = g[p] + Sum(g, R)
      BY <2>1, <2>3, SumStep
    <3> HIDE DEF p, R
    <3> QED
      BY <3>2, <3>3
  <2> QED
    BY <2>2, <2>3
<1>2. U \in P
  <2> HIDE DEF P
  <2> QED
    BY <1>1, SubsetInduction
<1> QED
  BY <1>2

\* Any element may be taken out of a sum.
LEMMA SumRemove ==
  ASSUME NEW U, IsFiniteSet(U), NEW g, \A i \in U : g[i] \in Int, NEW x \in U
  PROVE  Sum(g, U) = g[x] + Sum(g, U \ {x})
<1> DEFINE P == {S \in SUBSET U : \A y \in S : Sum(g, S) = g[y] + Sum(g, S \ {y})}
<1>1. ASSUME NEW S \in SUBSET U, Among(P, S)  PROVE S \in P
  <2> SUFFICES ASSUME NEW y \in S  PROVE Sum(g, S) = g[y] + Sum(g, S \ {y})
    OBVIOUS
  <2> DEFINE p == Pick(S)  R == S \ {p}  Q == S \ {y}
  <2>1. /\ p \in S /\ R \subseteq S /\ R # S /\ Q \subseteq S /\ Q # S
        /\ p \in U /\ y \in U /\ g[p] \in Int /\ g[y] \in Int
    BY PickIn
  <2>2. IsFiniteSet(S) /\ IsFiniteSet(R) /\ IsFiniteSet(Q)
    BY <2>1, FS_Subset
  <2>3. Sum(g, S) = g[p] + Sum(g, R)
    BY <2>2, SumStep
  <2>4. CASE y = p
    BY <2>3, <2>4
  <2>5. CASE y # p
    <3>1. R \in P /\ Q \in P /\ y \in R /\ p \in Q
      BY <1>1, <2>1, <2>5 DEF Among
    <3>2. R \ {y} = Q \ {p}
      OBVIOUS
    <3>3. Sum(g, R) = g[y] + Sum(g, R \ {y})
      BY <3>1
    <3>4. Sum(g, Q) = g[p] + Sum(g, Q \ {p})
      BY <3>1
    <3>5. Sum(g, R \ {y}) \in Int
      <4>1. IsFiniteSet(R \ {y}) /\ \A i \in R \ {y} : g[i] \in Int
        BY <2>2, FS_RemoveElement
      <4> HIDE DEF R
      <4> QED
        BY <4>1, SumType
    <3>6. Sum(g, S) = g[y] + Sum(g, S \ {y}) <=> Sum(g, S) = g[y] + Sum(g, Q)
      OBVIOUS
    <3> HIDE DEF p, R, Q, P
    <3> DEFINE rest == Sum(g, R \ {y})
    <3>8. Sum(g, Q) = g[p] + rest /\ Sum(g, S) = g[p] + (g[y] + rest)
      BY <2>3, <3>2, <3>3, <3>4
    <3>9. rest \in Int
      BY <3>5
    <3>7. Sum(g, S) = g[y] + Sum(g, Q)
      <4> HIDE DEF rest
      <4> QED
        BY <2>1, <3>8, <3>9
    <3> QED
      BY <3>6, <3>7
  <2> QED
    BY <2>4, <2>5
<1>2. U \in P
  <2> HIDE DEF P
  <2> QED
    BY <1>1, SubsetInduction
<1> QED
  BY <1>2

\* A sum is monotone.
LEMMA SumMonotone ==
  ASSUME NEW U, IsFiniteSet(U), NEW g, NEW h,
         \A i \in U : g[i] \in Int /\ h[i] \in Int /\ g[i] <= h[i]
  PROVE  Sum(g, U) <= Sum(h, U)
<1> DEFINE P == {S \in SUBSET U : Sum(g, S) <= Sum(h, S)}
<1>1. ASSUME NEW S \in SUBSET U, Among(P, S)  PROVE S \in P
  <2>1. IsFiniteSet(S)
    BY FS_Subset
  <2>2. CASE S = {}
    <3>1. Sum(g, S) = 0 /\ Sum(h, S) = 0
      BY <2>1, <2>2, SumStep
    <3> QED
      BY <3>1
  <2>3. CASE S # {}
    <3> DEFINE p == Pick(S)  R == S \ {p}
    <3>1. R \in P /\ p \in U /\ R \subseteq U
      BY <1>1, <2>3, PickIn DEF Among
    <3>2. IsFiniteSet(R)
      BY <3>1, FS_Subset
    <3>3. Sum(g, R) \in Int /\ Sum(h, R) \in Int
      BY <3>1, <3>2, SumType
    <3>4. Sum(g, S) = g[p] + Sum(g, R) /\ Sum(h, S) = h[p] + Sum(h, R)
      BY <2>1, <2>3, SumStep
    <3>5. g[p] \in Int /\ h[p] \in Int /\ g[p] <= h[p] /\ Sum(g, R) <= Sum(h, R)
      BY <3>1
    <3> HIDE DEF p, R
    <3> QED
      BY <3>3, <3>4, <3>5
  <2> QED
    BY <2>2, <2>3
<1>2. U \in P
  <2> HIDE DEF P
  <2> QED
    BY <1>1, SubsetInduction
<1> QED
  BY <1>2

\* Taking w off each element of L takes it off the sum as often.
LEMMA SumLess ==
  ASSUME NEW U, IsFiniteSet(U), NEW L, NEW w \in Int, NEW g, NEW h,
         \A i \in U : /\ g[i] \in Int /\ h[i] \in Int
                      /\ h[i] = IF i \in L THEN g[i] - w ELSE g[i]
  PROVE  Sum(h, U) = Sum(g, U) - w * Cardinality(U \intersect L)
<1> DEFINE P == {S \in SUBSET U :
                   Sum(h, S) = Sum(g, S) - w * Cardinality(S \intersect L)}
<1>1. ASSUME NEW S \in SUBSET U, Among(P, S)  PROVE S \in P
  <2>1. IsFiniteSet(S)
    BY FS_Subset
  <2>2. CASE S = {}
    <3>1. Cardinality(S \intersect L) = 0
      BY <2>2, FS_EmptySet
    <3>2. Sum(g, S) = 0 /\ Sum(h, S) = 0
      BY <2>1, <2>2, SumStep
    <3> QED
      BY <3>1, <3>2
  <2>3. CASE S # {}
    <3> DEFINE p == Pick(S)  R == S \ {p}  c == Cardinality(R \intersect L)
    <3>1. R \in P /\ p \in U /\ R \subseteq U /\ p \in S /\ p \notin R
      BY <1>1, <2>3, PickIn DEF Among
    <3>2. IsFiniteSet(R) /\ IsFiniteSet(R \intersect L)
      BY <3>1, FS_Subset, FS_Intersection
    <3>3. Sum(g, R) \in Int /\ Sum(h, R) \in Int /\ c \in Nat
      BY <3>1, <3>2, SumType, FS_CardinalityType
    <3>4. Sum(g, S) = g[p] + Sum(g, R) /\ Sum(h, S) = h[p] + Sum(h, R)
      BY <2>1, <2>3, SumStep
    <3>5. /\ g[p] \in Int /\ h[p] \in Int
          /\ h[p] = IF p \in L THEN g[p] - w ELSE g[p]
          /\ Sum(h, R) = Sum(g, R) - w * c
      BY <3>1
    <3>6. Cardinality(S \intersect L) = IF p \in L THEN c + 1 ELSE c
      <4>1. CASE p \in L
        <5>1. S \intersect L = (R \intersect L) \union {p} /\ p \notin R \intersect L
          BY <3>1, <4>1
        <5> QED
          BY <3>2, <4>1, <5>1, FS_AddElement
      <4>2. CASE p \notin L
        <5>1. S \intersect L = R \intersect L
          BY <3>1, <4>2
        <5> QED
          BY <4>2, <5>1
      <4> QED
        BY <4>1, <4>2
    <3>7. w * (c + 1) = w * c + w /\ w * c \in Int
      BY <3>3
    <3> HIDE DEF p, R, c
    <3>8. Sum(h, S) = Sum(g, S) - w * Cardinality(S \intersect L)
      BY <3>3, <3>4, <3>5, <3>6, <3>7
    <3> QED
      BY <3>8
  <2> QED
    BY <2>2, <2>3
<1>2. U \in P
  <2> HIDE DEF P
  <2> QED
    BY <1>1, SubsetInduction
<1> QED
  BY <1>2

-----------------------------------------------------------------------------
(***************************************************************************)
(* The loss of a day.  The daily stop is compared with a sum that credits  *)
(* a live trade with a whole R for each target, more than half a position  *)
(* may book, and charges it nothing; so that sum alone bounds nothing.     *)
(* What every step keeps is its worth, the credit less the worst loss of   *)
(* the trades still live: a look or the close never lowers it, for what is *)
(* booked is at least what was credited less the worst loss; and an        *)
(* admission finds the credit above the stop and less than max_open trades *)
(* live.                                                                   *)
(***************************************************************************)
LEMMA DayFinite ==
  ASSUME NEW B, NEW d
  PROVE  OfDay(B, d) \subseteq Ids /\ IsFiniteSet(OfDay(B, d))
<1>1. OfDay(B, d) \in SUBSET Ids
  BY DEF OfDay
<1> QED
  BY <1>1, IdsFinite

\* The two sums of the book.
LEMMA RealizedIsSum ==
  ASSUME NEW B
  PROVE  Realized(B) = Sum([i \in Ids |-> Credit(B[i])], OfDay(B, day))
<1> DEFINE g == [i \in Ids |-> Credit(B[i])]
           U == OfDay(B, day)
           body(F) == [S \in SUBSET U |-> IF S = {} THEN 0
                         ELSE Credit(B[Pick(S)]) + F[S \ {Pick(S)}]]
           G == CHOOSE F : F = body(F)
<1>1. Realized(B) = G[U]
  BY DEF Realized, MapThenSumSet, MapThenFoldSet, Pick
<1>2. ASSUME NEW F  PROVE F = body(F) <=> IsSum(F, g, U)
  <2>1. \A S \in SUBSET U : S # {} => g[Pick(S)] = Credit(B[Pick(S)])
    BY PickIn, DayFinite
  <2> QED
    BY <2>1 DEF IsSum
<1>3. \E F : F = body(F)
  BY <1>2, DayFinite, SumExists
<1>4. IsSum(G, g, U)
  BY <1>2, <1>3
<1>5. IsFiniteSet(U)
  BY DayFinite
<1> HIDE DEF G, g, U
<1>6. G[U] = Sum(g, U)
  BY <1>4, <1>5, SumIs
<1> QED
  BY <1>1, <1>6 DEF g, U

\* What Booked adds up.
BookedOf(row) == IF row.result # "none" THEN row.r
                 ELSE IF row.hit >= 1 THEN T1 ELSE 0

LEMMA BookedIsSum ==
  ASSUME NEW B, NEW d
  PROVE  Booked(B, d) = Sum([i \in Ids |-> BookedOf(B[i])], OfDay(B, d))
<1> DEFINE g == [i \in Ids |-> BookedOf(B[i])]
           U == OfDay(B, d)
           body(F) == [S \in SUBSET U |-> IF S = {} THEN 0
                         ELSE BookedOf(B[Pick(S)]) + F[S \ {Pick(S)}]]
           G == CHOOSE F : F = body(F)
<1>1. Booked(B, d) = G[U]
  BY DEF Booked, BookedOf, MapThenSumSet, MapThenFoldSet, Pick
<1>2. ASSUME NEW F  PROVE F = body(F) <=> IsSum(F, g, U)
  <2>1. \A S \in SUBSET U : S # {} => g[Pick(S)] = BookedOf(B[Pick(S)])
    BY PickIn, DayFinite
  <2> QED
    BY <2>1 DEF IsSum
<1>3. \E F : F = body(F)
  BY <1>2, DayFinite, SumExists
<1>4. IsSum(G, g, U)
  BY <1>2, <1>3
<1>5. IsFiniteSet(U)
  BY DayFinite
<1> HIDE DEF G, g, U
<1>6. G[U] = Sum(g, U)
  BY <1>4, <1>5, SumIs
<1> QED
  BY <1>1, <1>6 DEF g, U

-----------------------------------------------------------------------------
LEMMA WorstLossFacts ==
  /\ WorstLoss \in Int /\ 2 * Risk <= WorstLoss
  /\ \A f \in Favours : -WorstLoss <= 2 * f
<1> DEFINE least == CHOOSE f \in Favours : \A g \in Favours : f <= g
<1>1. least \in Favours /\ \A g \in Favours : least <= g
  BY LossAssumption DEF LossAssumption
<1>2. WorstLoss = 2 * LargerOf(Risk, -least)
  BY DEF WorstLoss
<1> HIDE DEF least
<1>3. \A g \in Favours : g \in Int
  BY FavoursAreInts
<1> QED
  BY <1>1, <1>2, <1>3, PlanFacts DEF LargerOf

\* A trade counts for its result, or for what the daily stop credits it with
\* less the worst that can still come of it.
Worth(row) ==
  Credit(row) - (IF row.status \in LiveStatus THEN WorstLoss ELSE 0)

\* A trade has a result once it is closed, and a live one has not reached its
\* second target.
Earned(row) ==
  row # NoRow => /\ row.status \in LiveStatus <=> row.result = "none"
                 /\ row.status \in LiveStatus => row.hit <= 1

\* The worth of a day, and what it never sinks to.
Worths(B, d) == Sum([i \in Ids |-> Worth(B[i])], OfDay(B, d))

Floor == DailyStop - MaxOpen * WorstLoss

FundInv ==
  ~clobbered =>
    /\ \A i \in Ids : Earned(rows[i]) /\ Earned(draft[i])
    /\ Worths(rows, day) > Floor /\ Worths(draft, day) > Floor

LEMMA WorthType ==
  ASSUME NEW row \in Row
  PROVE  Worth(row) \in Int /\ Credit(row) \in Int
<1>1. row.r \in Int /\ row.hit \in Int
  BY DEF Row
<1> QED
  BY <1>1, WorstLossFacts, PlanFacts DEF Worth, Credit

\* No write of a row as it still is makes it worth less.
LEMMA LookedAtWorth ==
  ASSUME NEW now \in Row, NEW was \in Row, NEW f \in Favours,
         was.status \in LiveStatus, StillReads(now, was), Earned(now)
  PROVE  /\ Earned(LookedAt(now, was, f))
         /\ Worth(now) <= Worth(LookedAt(now, was, f))
<1> DEFINE st == StatusAfter(was, f)  hit == HitAfter(was, f)
           r  == ClosedR(StatusAfter(was, f), Armed(was), f)
           row == LookedAt(now, was, f)
<1>1. f \in Int /\ -WorstLoss <= 2 * f /\ WorstLoss \in Int /\ 2 * Risk <= WorstLoss
  BY FavoursAreInts, WorstLossFacts
<1>2. /\ now.status \in LiveStatus /\ now.result = "none"
      /\ now.hit = was.hit /\ was.hit \in {0, 1} /\ now # NoRow
  BY NoRowIsNoRow DEF StillReads, Earned, Row
<1>3. Worth(now) = 2 * Risk * was.hit - WorstLoss
  BY <1>2 DEF Worth, Credit
<1>4. CASE st \in LiveStatus
  <2>1. row = [now EXCEPT !.status = st, !.hit = hit]
    BY <1>4 DEF LookedAt
  <2>2. row.status = st /\ row.hit = hit /\ row.result = "none"
    <3> HIDE DEF st, hit, row
    <3> QED
      BY <1>2, <2>1 DEF Row
  <2>3. ~(f >= T2)
    BY <1>4 DEF StatusAfter, LiveStatus
  <2>4. hit \in {0, 1} /\ was.hit <= hit
    BY <1>1, <1>2, <2>3, PlanFacts DEF HitAfter, LargerOf
  <2>5. Worth(row) = 2 * Risk * hit - WorstLoss
    <3> HIDE DEF st, hit, row
    <3> QED
      BY <1>4, <2>2 DEF Worth, Credit
  <2> HIDE DEF st, hit, row
  <2>6. Worth(now) <= Worth(row)
    BY <1>1, <1>2, <1>3, <2>4, <2>5, PlanFacts
  <2>7. Earned(row)
    BY <1>4, <2>2, <2>4 DEF Earned
  <2> QED
    BY <2>6, <2>7 DEF row
<1>5. CASE st \notin LiveStatus
  <2>1. row = [now EXCEPT !.status = st, !.hit = hit, !.closed = slot, !.result = st,
                          !.r = r, !.source = "live_monitor"]
    BY <1>5 DEF LookedAt
  <2>2. row.status = st /\ row.result = st /\ row.r = r
    <3> HIDE DEF st, hit, r, row
    <3> QED
      BY <2>1 DEF Row
  <2>3. st \in {"TG2_HIT", "SL_HIT", "BE_EXIT"}
    BY <1>5, StatusAfterType
  <2>4. Worth(row) = r
    <3>1. r \in Int
      BY <1>1, ClosedRType
    <3> HIDE DEF st, hit, r, row
    <3> QED
      BY <1>5, <2>2, <2>3, <3>1 DEF Worth, Credit
  <2>5. /\ st = "TG2_HIT" => r = T1 + T2
        /\ st = "BE_EXIT" => r = T1 + SmallerOf(0, f) /\ was.hit = 1
        /\ st = "SL_HIT" => r = 2 * f /\ was.hit = 0
    BY <1>2 DEF ClosedR, StatusAfter, Armed
  <2> HIDE DEF st, hit, r, row
  <2>6. Worth(now) <= r
    <3>1. CASE was.hit = 0
      BY <1>1, <1>3, <2>3, <2>5, <3>1, PlanFacts
    <3>2. CASE was.hit = 1
      BY <1>1, <1>2, <1>3, <2>3, <2>5, <3>2, PlanFacts DEF SmallerOf
    <3> QED
      BY <1>2, <3>1, <3>2
  <2>7. Earned(row)
    BY <1>5, <2>2, <2>3 DEF Earned
  <2> QED
    BY <2>4, <2>6, <2>7 DEF row
<1> QED
  BY <1>4, <1>5

LEMMA ExpiredWorth ==
  ASSUME NEW now \in Row, NEW was \in Row, NEW f \in Favours,
         was.status \in LiveStatus, StillReads(now, was), Earned(now)
  PROVE  /\ Earned(Expired(now, was, f))
         /\ Worth(now) <= Worth(Expired(now, was, f))
<1> DEFINE res == DayEndResult(was, f)  r == ClosedR("EXPIRED", Armed(was), f)
           row == Expired(now, was, f)
<1>1. f \in Int /\ -WorstLoss <= 2 * f /\ WorstLoss \in Int /\ 2 * Risk <= WorstLoss
  BY FavoursAreInts, WorstLossFacts
<1>2. /\ now.status \in LiveStatus /\ now.result = "none"
      /\ now.hit = was.hit /\ was.hit \in {0, 1} /\ now # NoRow
  BY NoRowIsNoRow DEF StillReads, Earned, Row
<1>3. Worth(now) = 2 * Risk * was.hit - WorstLoss
  BY <1>2 DEF Worth, Credit
<1>4. row = [now EXCEPT !.status = "EXPIRED", !.result = res, !.r = r,
                        !.closed = slot, !.source = "live_exit"]
  BY DEF Expired
<1>5. row.status = "EXPIRED" /\ row.result = res /\ row.r = r
  <2> HIDE DEF res, r, row
  <2> QED
    BY <1>4 DEF Row
<1>6. res # "none" /\ r \in Int
  BY <1>1, ClosedRType DEF DayEndResult
<1>7. /\ was.hit = 0 => r = 2 * f
      /\ was.hit = 1 => r = T1 + LargerOf(0, f)
  BY DEF ClosedR, Armed
<1> HIDE DEF res, r, row
<1>8. Worth(row) = r /\ Earned(row)
  BY <1>5, <1>6 DEF Worth, Credit, Earned, LiveStatus
<1>9. Worth(now) <= r
  <2>1. CASE was.hit = 0
    BY <1>1, <1>3, <1>7, <2>1, PlanFacts
  <2>2. CASE was.hit = 1
    BY <1>1, <1>3, <1>7, <2>2, PlanFacts DEF LargerOf
  <2> QED
    BY <1>2, <2>1, <2>2
<1> QED
  BY <1>8, <1>9 DEF row

LEMMA RegradedWorth ==
  ASSUME NEW row \in Row, NEW f \in Favours, Regradable(row), Earned(row)
  PROVE  Earned(Regraded(row, f)) /\ Worth(row) <= Worth(Regraded(row, f))
<1> DEFINE res == DayEndResult(row, f)  new == Regraded(row, f)
<1>1. res # "none"
  BY DEF DayEndResult
<1>2. new = [row EXCEPT !.result = res, !.source = "bhavcopy_close"]
  BY DEF Regraded
<1>3. row.status = "EXPIRED" /\ row.result # "none" /\ row.r \in Int
  BY NoRowIsNoRow DEF Regradable, Earned, LiveStatus, Row
<1> HIDE DEF res, new
<1>4. new.status = "EXPIRED" /\ new.result = res /\ new.r = row.r
  BY <1>2, <1>3 DEF Row
<1>5. Worth(new) = row.r /\ Worth(row) = row.r
  BY <1>1, <1>3, <1>4 DEF Worth, Credit, LiveStatus
<1>6. Earned(new)
  BY <1>1, <1>4 DEF Earned, LiveStatus
<1> QED
  BY <1>3, <1>5, <1>6 DEF new

\* What a step but the scan's commit does to a committed row.
LEMMA RowWorth ==
  ASSUME TypeInv, [Next]_vars, ~ScanRecorded, ~clobbered', NEW i \in Ids,
         Earned(rows[i])
  PROVE  /\ Earned(rows'[i])
         /\ rows'[i] # NoRow => Worth(rows[i]) <= Worth(rows'[i])
<1>1. CASE rows'[i] = rows[i]
  <2>1. rows[i] # NoRow => Worth(rows[i]) \in Int
    BY WorthType DEF TypeInv, TypeOK
  <2> QED
    BY <1>1, <2>1
<1>2. CASE rows'[i] = NoRow
  BY <1>2 DEF Earned
<1>3. ASSUME rows[i] \in Row, NEW was \in Row, NEW f \in Favours,
             was.status \in LiveStatus, StillReads(rows[i], was),
             \/ rows'[i] = LookedAt(rows[i], was, f)
             \/ rows'[i] = Expired(rows[i], was, f)
      PROVE  Earned(rows'[i]) /\ Worth(rows[i]) <= Worth(rows'[i])
  BY <1>3, LookedAtWorth, ExpiredWorth
<1>4. ASSUME rows[i] \in Row, NEW f \in Favours, Regradable(rows[i]),
             rows'[i] = Regraded(rows[i], f)
      PROVE  Earned(rows'[i]) /\ Worth(rows[i]) <= Worth(rows'[i])
  BY <1>4, RegradedWorth
<1> QED
  BY <1>1, <1>2, <1>3, <1>4, RowStep DEF RowMoves

\* The trades of the day stay together: they are all deleted, or none is.
LEMMA DayTogether ==
  ASSUME TypeInv, TypeInv', PhaseInv, [Next]_vars, ~ScanRecorded, ~clobbered'
  PROVE  OfDay(rows', day') = {} \/ OfDay(rows', day') = OfDay(rows, day)
<1>0. rows \in Books /\ rows' \in Books
  BY DEF TypeInv, TypeOK, Books
<1>1. \A i \in Ids : rows'[i] # NoRow => rows[i] # NoRow /\ rows'[i].day = rows[i].day
  BY <1>0, StepWorked, WorkedFacts, NoRowIsNoRow
<1>2. CASE UNCHANGED day /\ \A i \in Ids : rows[i] # NoRow => rows'[i] # NoRow
  BY <1>1, <1>2 DEF OfDay
<1>3. CASE UNCHANGED day /\ UNCHANGED rows
  BY <1>2, <1>3
<1>4. CASE Tick
  <2>1. rows' = rows /\ (day' = day \/ day' = day + 1)
    BY <1>4 DEF Tick, book
  <2>2. ASSUME NEW i \in Ids, rows[i] # NoRow, day' = day + 1
        PROVE  rows[i].day # day'
    <3>1. rows[i].day \in Int /\ day \in Int /\ rows[i].day <= day
      BY <2>2, DaysAreInts DEF TypeInv, TypeOK, Row, PhaseInv
    <3> QED
      BY <2>2, <3>1
  <2> QED
    BY <2>1, <2>2 DEF OfDay
<1>5. ASSUME NEW a \in {"scan", "monitor"}, NEW priced \in SUBSET SeenIds(a),
             NEW price \in [priced -> Favours], Look(a, price)
      PROVE  UNCHANGED day /\ \A i \in Ids : rows[i] # NoRow => rows'[i] # NoRow
  <2>1. a \in Actors /\ UNCHANGED day /\ slot \in Slots
    BY <1>5 DEF Actors, Look, WriteDone, clock, TypeInv, TypeOK
  <2>2. ASSUME NEW i \in Ids, rows[i] # NoRow  PROVE rows'[i] # NoRow
    <3>1. CASE /\ rows[i] \in Row /\ seen[a][i] \in Row /\ price[i] \in Int
               /\ rows'[i] = LookedAt(rows[i], seen[a][i], price[i])
      BY <2>1, <3>1, LookedAtType, NoRowIsNoRow
    <3> QED
      BY <1>5, <2>1, <2>2, <3>1, LookRow
  <2> QED
    BY <2>1, <2>2
<1>6. ASSUME NEW price \in [SeenIds("close") -> Favours], Expire(price)
      PROVE  UNCHANGED day /\ \A i \in Ids : rows[i] # NoRow => rows'[i] # NoRow
  <2>1. UNCHANGED day /\ slot \in Slots
    BY <1>6 DEF Expire, WriteDone, clock, TypeInv, TypeOK
  <2>2. ASSUME NEW i \in Ids, rows[i] # NoRow  PROVE rows'[i] # NoRow
    BY <1>6, <2>1, <2>2, ExpireRow, ExpiredType, NoRowIsNoRow
  <2> QED
    BY <2>1, <2>2
<1>7. ASSUME NEW f \in Favours, Regrade(f)
      PROVE  UNCHANGED day /\ \A i \in Ids : rows[i] # NoRow => rows'[i] # NoRow
  <2>1. UNCHANGED day
    BY <1>7 DEF Regrade, clock
  <2>2. ASSUME NEW i \in Ids, rows[i] # NoRow  PROVE rows'[i] # NoRow
    BY <1>7, <2>2, RegradeRow, RegradedType, NoRowIsNoRow
  <2> QED
    BY <2>1, <2>2
<1>8. CASE Cleanup
  BY <1>8 DEF Cleanup, Without, OfDay, clock
<1>9. CASE Rollover \/ Restart
  <2>1. day \in Int /\ ~(day < day) /\ day # day - 1
    BY DaysAreInts DEF TypeInv, TypeOK
  <2>2. /\ UNCHANGED day
        /\ \A i \in Ids : rows[i] # NoRow /\ rows[i].day = day => rows'[i] = rows[i]
    BY <1>9, <2>1 DEF Rollover, Restart, Without, clock
  <2> QED
    BY <1>1, <2>2 DEF OfDay
<1>10. ASSUME NEW a \in Actors, WriteFails(a)
       PROVE  UNCHANGED day /\ UNCHANGED rows
  BY <1>10 DEF WriteFails, WriteDone, clock
<1> QED
  BY <1>2, <1>3, <1>4, <1>5, <1>6, <1>7, <1>8, <1>9, <1>10
  DEF Next, RecordScan, UpdateOpenEvents, MarketClose, Upkeep, vars, book,
      clock, ScanStart, ScanSkip, ScanAdmit, ScanDuplicate, ScanFails,
      ScanSelect, MonitorSelect, CloseSelect, Select

-----------------------------------------------------------------------------
\* The day's worth is kept by every write and stays above the floor when a
\* trade is admitted.
LEMMA FloorFacts == Floor \in Int /\ Floor < 0
<1>1. WorstLoss \in Int /\ MaxOpen \in Int /\ DailyStop \in Int
  BY WorstLossFacts, BookAssumption DEF BookAssumption
<1> QED
  BY <1>1, LossAssumption DEF LossAssumption, Floor

LEMMA WorthsNone ==
  ASSUME NEW B, NEW d, OfDay(B, d) = {}
  PROVE  Worths(B, d) > Floor
<1>1. Worths(B, d) = 0
  BY DayFinite, SumStep DEF Worths
<1> QED
  BY <1>1, FloorFacts

LEMMA WorthsKept ==
  ASSUME NEW B \in Books, NEW C \in Books, NEW d, NEW e,
         OfDay(C, e) = OfDay(B, d),
         \A i \in OfDay(C, e) : Worth(B[i]) <= Worth(C[i]),
         Worths(B, d) > Floor
  PROVE  Worths(C, e) > Floor
<1> DEFINE U == OfDay(B, d)
           g == [i \in Ids |-> Worth(B[i])]
           h == [i \in Ids |-> Worth(C[i])]
<1>1. U \subseteq Ids /\ IsFiniteSet(U)
  BY DayFinite
<1>2. \A i \in U : B[i] \in Row /\ C[i] \in Row
  BY DEF Books, OfDay
<1>3. \A i \in U : g[i] \in Int /\ h[i] \in Int /\ g[i] <= h[i]
  BY <1>1, <1>2, WorthType
<1>4. Worths(B, d) = Sum(g, U) /\ Worths(C, e) = Sum(h, U)
  BY DEF Worths
<1> HIDE DEF U, g, h
<1>5. Sum(g, U) <= Sum(h, U) /\ Sum(g, U) \in Int /\ Sum(h, U) \in Int
  BY <1>1, <1>3, SumMonotone, SumType
<1> QED
  BY <1>4, <1>5, FloorFacts

LEMMA WorthsAdmit ==
  ASSUME NEW B \in Books, day \in Days, NEW s \in Symbols, NEW d \in Directions,
         NEW i \in Ids, Admissible(B, s, d), IsNextId(B, i)
  PROVE  Worths([B EXCEPT ![i] = NewRow(s, d)], day) > Floor
<1> DEFINE C == [B EXCEPT ![i] = NewRow(s, d)]
           U == OfDay(B, day)
           V == OfDay(C, day)
           credit == [k \in Ids |-> Credit(B[k])]
           was == [k \in Ids |-> Worth(B[k])]
           now == [k \in Ids |-> Worth(C[k])]
           open == Cardinality(LiveOn(B, day))
<1>1. /\ C[i] = NewRow(s, d) /\ C[i] \in Row /\ B[i] = NoRow
      /\ \A j \in Ids \ {i} : C[j] = B[j]
  BY NewRowType DEF Books, IsNextId, Ids
<1>2. V = U \union {i} /\ i \notin U /\ V \ {i} = U
  BY <1>1, NoRowIsNoRow, NewRowLive DEF OfDay
<1>3. /\ U \subseteq Ids /\ IsFiniteSet(U) /\ V \subseteq Ids /\ IsFiniteSet(V)
  BY DayFinite
<1>4. \A k \in U : B[k] \in Row /\ B[k] = C[k]
  BY <1>1, <1>2 DEF Books, OfDay
<1>5. \A k \in U : credit[k] \in Int /\ was[k] \in Int /\ now[k] = was[k]
  BY <1>3, <1>4, WorthType
<1>6. \A k \in U : was[k] = IF k \in Live(B) THEN credit[k] - WorstLoss ELSE credit[k]
  <2>1. ASSUME NEW k \in U
        PROVE  was[k] = IF k \in Live(B) THEN credit[k] - WorstLoss ELSE credit[k]
    <3>1. k \in Ids /\ (k \in Live(B) <=> B[k].status \in LiveStatus) /\ Credit(B[k]) \in Int
      BY <1>3, <1>4, WorthType DEF Live
    <3> QED
      BY <3>1 DEF Worth
  <2> QED
    BY <2>1
<1>7. now[i] = -WorstLoss /\ WorstLoss \in Int
  <2>1. Credit(C[i]) = 0 /\ C[i].status \in LiveStatus
    BY <1>1, PlanFacts DEF Credit, NewRow, LiveStatus
  <2> QED
    BY <2>1, WorstLossFacts DEF Worth
<1>8. Sum(credit, U) > DailyStop
  BY RealizedIsSum DEF Admissible, LossAllows
<1>9. open = Cardinality(U \intersect Live(B)) /\ open \in Nat /\ open < MaxOpen
  <2>1. LiveOn(B, day) = U \intersect Live(B) /\ LiveOn(B, day) \in SUBSET Ids
    BY DEF LiveOn, OfDay
  <2> QED
    BY <2>1, IdsFinite DEF Admissible, CapsAllow
<1>10. Worths(C, day) = Sum(now, V)
  BY DEF Worths
<1> HIDE DEF C, U, V, credit, was, now, open
<1>11. \A k \in V : now[k] \in Int
  BY <1>2, <1>5, <1>7
<1>12. Sum(was, U) = Sum(credit, U) - WorstLoss * open
  <2>1. \A k \in U : /\ credit[k] \in Int /\ was[k] \in Int
                     /\ was[k] = IF k \in Live(B) THEN credit[k] - WorstLoss
                                                    ELSE credit[k]
    BY <1>5, <1>6
  <2>2. Sum(was, U) = Sum(credit, U) - WorstLoss * Cardinality(U \intersect Live(B))
    BY <1>3, <1>7, <2>1, SumLess
  <2> QED
    BY <1>9, <2>2
<1>13. Sum(now, V) = now[i] + Sum(now, U)
  BY <1>2, <1>3, <1>11, SumRemove
<1>14. Sum(now, U) = Sum(was, U)
  BY <1>3, <1>5, SumSame
<1>15. Sum(credit, U) \in Int
  BY <1>3, <1>5, SumType
<1>16. /\ Worths(C, day) = Sum(credit, U) - WorstLoss * (open + 1)
       /\ WorstLoss * open \in Int
  BY <1>7, <1>9, <1>10, <1>12, <1>13, <1>14, <1>15
<1>17. WorstLoss * (open + 1) <= MaxOpen * WorstLoss
  <2>1. WorstLoss \in Nat /\ MaxOpen - (open + 1) \in Nat /\ MaxOpen \in Int
    BY <1>9, WorstLossFacts, PlanFacts, BookAssumption DEF BookAssumption
  <2>2. WorstLoss * (MaxOpen - (open + 1)) >= 0
    BY <2>1
  <2>3. WorstLoss * (MaxOpen - (open + 1)) = MaxOpen * WorstLoss - WorstLoss * (open + 1)
    BY <1>9, <2>1
  <2>4. MaxOpen * WorstLoss \in Int /\ WorstLoss * (open + 1) \in Int
    BY <1>9, <2>1
  <2> QED
    BY <2>2, <2>3, <2>4
<1>18. /\ DailyStop \in Int /\ MaxOpen * WorstLoss \in Int
       /\ WorstLoss * (open + 1) \in Int
  BY <1>7, <1>9, BookAssumption DEF BookAssumption
<1>19. Worths(C, day) > Floor
  BY <1>8, <1>15, <1>16, <1>17, <1>18 DEF Floor
<1> QED
  BY <1>19 DEF C

LEMMA FundInvStep ==
  ASSUME TypeInv, TypeInv', PhaseInv, PhaseInv', FundInv, [Next]_vars
  PROVE  FundInv'
<1> SUFFICES ASSUME ~clobbered'
             PROVE  /\ \A i \in Ids : Earned(rows'[i]) /\ Earned(draft'[i])
                    /\ Worths(rows', day') > Floor /\ Worths(draft', day') > Floor
  BY DEF FundInv
<1>0. /\ rows \in Books /\ draft \in Books /\ rows' \in Books /\ draft' \in Books
      /\ day \in Days
  BY DEF TypeInv, TypeOK, Books
<1>1. ~clobbered
  BY StepWorked DEF ScanRecorded
<1>2. /\ \A i \in Ids : Earned(rows[i]) /\ Earned(draft[i])
      /\ Worths(rows, day) > Floor /\ Worths(draft, day) > Floor
  BY <1>1 DEF FundInv
<1>3. /\ \A i \in Ids : Earned(Empty[i])
      /\ \A d : Worths(Empty, d) > Floor
  <2>1. \A d : OfDay(Empty, d) = {}
    BY DEF OfDay, Empty
  <2> QED
    BY <2>1, WorthsNone DEF Earned, Empty
<1>4. ASSUME NEW i \in Ids  PROVE Earned(draft'[i])
  <2>1. ASSUME NEW s \in Symbols, NEW d \in Directions, NEW k \in Ids,
               draft' = [draft EXCEPT ![k] = NewRow(s, d)]
        PROVE  Earned(draft'[i])
    <3>1. Earned(NewRow(s, d))
      BY DEF Earned, NewRow, LiveStatus
    <3> QED
      BY <1>0, <1>2, <2>1, <3>1 DEF Books
  <2> QED
    BY <1>2, <1>3, <2>1, DraftSteps
<1>5. Worths(draft', day') > Floor
  <2>1. CASE Tick
    <3>1. draft' = draft /\ (day' = day \/ draft = Empty)
      BY <2>1 DEF Tick, book, PhaseInv, Idle, Actors
    <3> QED
      BY <1>2, <1>3, <3>1
  <2>2. CASE ~Tick
    <3>1. day' = day
      BY <2>2, PcSteps DEF CloseSelect, Select, Expire, WriteFails, WriteDone,
         Restart, clock
    <3>2. ASSUME NEW s \in Symbols, NEW d \in Directions, NEW k \in Ids,
                 Admissible(draft, s, d), IsNextId(draft, k),
                 draft' = [draft EXCEPT ![k] = NewRow(s, d)]
          PROVE  Worths(draft', day) > Floor
      BY <1>0, <3>2, WorthsAdmit
    <3> QED
      BY <1>2, <1>3, <3>1, <3>2, DraftSteps
  <2> QED
    BY <2>1, <2>2
<1>6. CASE ScanRecorded
  <2>1. rows' = draft /\ day' = day
    BY <1>6 DEF ScanRecorded, clock
  <2> QED
    BY <1>2, <1>4, <1>5, <2>1
<1>7. CASE ~ScanRecorded
  <2>1. ASSUME NEW i \in Ids
        PROVE  /\ Earned(rows'[i])
               /\ rows'[i] # NoRow => Worth(rows[i]) <= Worth(rows'[i])
    BY <1>2, <1>7, RowWorth
  <2>2. Worths(rows', day') > Floor
    <3>1. CASE OfDay(rows', day') = {}
      BY <3>1, WorthsNone
    <3>2. CASE OfDay(rows', day') = OfDay(rows, day)
      <4>1. \A i \in OfDay(rows', day') : Worth(rows[i]) <= Worth(rows'[i])
        BY <2>1 DEF OfDay
      <4> QED
        BY <1>0, <1>2, <3>2, <4>1, WorthsKept
    <3> QED
      BY <1>7, <3>1, <3>2, DayTogether
  <2> QED
    BY <1>4, <1>5, <2>1, <2>2
<1> QED
  BY <1>6, <1>7, <1>5

\* Unless clobbered, the day's loss is bounded by the daily stop and one worst
\* loss for each of the max_open trades that may be live when it is reached.
THEOREM LossIsBounded == Spec => []LossBounded
<1>1. Init => TypeInv /\ CloseInv /\ FundInv
  <2> SUFFICES ASSUME Init PROVE FundInv
    BY TypeInvInit, CloseInvInit
  <2>1. OfDay(Empty, day) = {} /\ \A i \in Ids : Earned(Empty[i])
    BY DEF OfDay, Empty, Earned
  <2>2. Worths(Empty, day) > Floor
    BY <2>1, WorthsNone
  <2> QED
    BY <2>1, <2>2 DEF Init, FundInv
<1>2. TypeInv /\ CloseInv /\ FundInv /\ [Next]_vars => (TypeInv /\ CloseInv /\ FundInv)'
  BY TypeInvStep, PhaseInvStep, FlatInvStep, FundInvStep DEF CloseInv
<1>3. TypeInv /\ FundInv => LossBounded
  <2> SUFFICES ASSUME TypeInv, FundInv, ~clobbered
               PROVE  Booked(rows, day) > DailyStop - MaxOpen * WorstLoss
    BY DEF LossBounded
  <2> DEFINE U == OfDay(rows, day)
             worth == [i \in Ids |-> Worth(rows[i])]
             booked == [i \in Ids |-> BookedOf(rows[i])]
  <2>1. U \subseteq Ids /\ IsFiniteSet(U) /\ \A i \in U : rows[i] \in Row /\ Earned(rows[i])
    BY DayFinite DEF TypeInv, TypeOK, OfDay, FundInv
  <2>2. ASSUME NEW i \in U
        PROVE  /\ Worth(rows[i]) \in Int /\ BookedOf(rows[i]) \in Int
               /\ Worth(rows[i]) <= BookedOf(rows[i])
    <3> DEFINE row == rows[i]
    <3>1. /\ row \in Row /\ row # NoRow /\ Earned(row)
          /\ row.r \in Int /\ row.hit \in 0 .. 2
      BY <2>1, NoRowIsNoRow DEF Row
    <3>2. Worth(row) \in Int
      BY <3>1, WorthType
    <3> HIDE DEF row
    <3>3. CASE row.result # "none"
      <4>1. Worth(row) = row.r /\ BookedOf(row) = row.r
        BY <3>1, <3>3 DEF Worth, Credit, BookedOf, Earned
      <4> QED
        BY <3>1, <3>2, <4>1 DEF row
    <3>4. CASE row.result = "none"
      <4>1. /\ Worth(row) = 2 * Risk * row.hit - WorstLoss
            /\ BookedOf(row) = IF row.hit >= 1 THEN T1 ELSE 0
            /\ row.hit \in {0, 1}
        BY <3>1, <3>4 DEF Worth, Credit, BookedOf, Earned
      <4>2. BookedOf(row) \in Int /\ 0 <= BookedOf(row)
        BY <4>1, PlanFacts
      <4>3. Worth(row) <= 0
        BY <4>1, WorstLossFacts, PlanFacts
      <4> QED
        BY <3>2, <4>2, <4>3 DEF row
    <3> QED
      BY <3>3, <3>4
  <2>3. \A i \in U : worth[i] \in Int /\ booked[i] \in Int /\ worth[i] <= booked[i]
    BY <2>1, <2>2
  <2>4. Worths(rows, day) = Sum(worth, U) /\ Worths(rows, day) > Floor
    BY DEF Worths, FundInv
  <2>5. Booked(rows, day) = Sum(booked, U)
    BY BookedIsSum
  <2> HIDE DEF U, worth, booked
  <2>6. /\ Sum(worth, U) <= Sum(booked, U)
        /\ Sum(worth, U) \in Int /\ Sum(booked, U) \in Int
    BY <2>1, <2>3, SumMonotone, SumType
  <2>7. Booked(rows, day) > Floor
    BY <2>4, <2>5, <2>6, FloorFacts
  <2> QED
    BY <2>7 DEF Floor
<1> QED
  BY <1>1, <1>2, <1>3, PTL DEF Spec

=============================================================================
