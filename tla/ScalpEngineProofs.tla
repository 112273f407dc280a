-------------------------- MODULE ScalpEngineProofs --------------------------
(***************************************************************************)
(* Theorems about ScalpEngine and its ledger, for every value of the       *)
(* constants that meets ConstantsAssumption.                               *)
(***************************************************************************)
EXTENDS ScalpLedger, TLAPS, WellFoundedInduction, FiniteSetTheorems

\* Every held position is backed by the OPEN row it names.
MemoryInStore ==
  \A s \in Held : /\ rows[open[s].id].status = "OPEN"
                  /\ rows[open[s].id].sym = s
                  /\ rows[open[s].id].entry = open[s].entry

\* What the worker has in hand: only held symbols are still to be managed,
\* only symbols that are not held are candidates, a dead process holds none.
WorkerInv ==
  /\ todo \subseteq Held
  /\ cands \cap Held = {}
  /\ pc # "manage" => todo = {}
  /\ pc # "scan" => cands = {}
  /\ pc = "down" => Held = {}

TypeInv == TypeOK /\ MemoryInStore /\ WorkerInv

LEMMA RowFacts ==
  ASSUME TypeOK, NEW i \in Ids, rows[i].status \in {"OPEN", "CLOSED"}
  PROVE  rows[i] \in Row
BY DEF TypeOK, NoRow

LEMMA HeldFacts ==
  ASSUME TypeOK, MemoryInStore, NEW s \in Held
  PROVE  /\ s \in Symbols
         /\ open[s] \in Position
         /\ open[s].id \in Ids
         /\ rows[open[s].id] \in Row
         /\ rows[open[s].id].status = "OPEN"
         /\ rows[open[s].id].sym = s
         /\ rows[open[s].id].entry = open[s].entry
<1>1. s \in Symbols /\ open[s] # NotHeld
  BY DEF Held
<1>2. open[s] \in Position
  BY <1>1 DEF TypeOK
<1>3. open[s].id \in Ids
  BY <1>2 DEF Position
<1> QED
  BY <1>1, <1>2, <1>3, RowFacts DEF MemoryInStore

LEMMA PositionAfterType ==
  ASSUME NEW pos \in Position, NEW ctx \in Contexts, NEW q \in Premiums,
         ConstantsAssumption
  PROVE  /\ PositionAfter(pos, ctx, q) \in Position
         /\ PositionAfter(pos, ctx, q).id = pos.id
         /\ PositionAfter(pos, ctx, q).entry = pos.entry
<1> DEFINE peak  == PeakAfter(pos, q)
           armed == ArmedAfter(pos, q)
           weak  == WeakAfter(pos, ctx)
           moved == [id |-> pos.id, entry |-> pos.entry, peak |-> peak,
                     armed |-> armed, weak |-> weak]
<1>1. /\ pos.id \in Ids /\ pos.entry \in Premiums /\ pos.peak \in Premiums
      /\ pos.weak \in 0 .. 2
  BY DEF Position
<1>2. peak \in Premiums
  BY <1>1 DEF PeakAfter
<1>3. armed \in BOOLEAN
  BY DEF ArmedAfter
<1>4. weak \in 0 .. 2
  BY <1>1 DEF WeakAfter, UpToTwo, Contexts
<1>5. moved \in Position /\ moved.id = pos.id /\ moved.entry = pos.entry
  <2> HIDE DEF peak, armed, weak
  <2> QED  BY <1>1, <1>2, <1>3, <1>4 DEF Position
<1> QED
  BY <1>5 DEF PositionAfter

LEMMA ClosedType ==
  ASSUME NEW row \in Row, NEW exit \in {"NULL", "QUOTE"}, NEW reason \in Reasons
  PROVE  /\ Closed(row, exit, reason) \in Row
         /\ Closed(row, exit, reason).status = "CLOSED"
         /\ Closed(row, exit, reason).trade = row.trade
         /\ Closed(row, exit, reason).sym = row.sym
         /\ Closed(row, exit, reason).day = row.day
BY DEF Row, Closed

LEMMA RepairedType ==
  ASSUME TypeOK
  PROVE  /\ Repaired \in [Ids -> Row \union {NoRow}]
         /\ \A i \in Ids : Repaired[i].status = "OPEN"
                            => Repaired[i] = rows[i] /\ ~Stale(rows[i])
<1> SUFFICES ASSUME NEW i \in Ids
             PROVE  /\ Repaired[i] \in Row \union {NoRow}
                    /\ Repaired[i].status = "OPEN"
                       => Repaired[i] = rows[i] /\ ~Stale(rows[i])
  BY DEF Repaired
<1>1. CASE Stale(rows[i])
  <2>1. rows[i] \in Row
    BY <1>1, RowFacts DEF Stale
  <2>2. Repaired[i] = Closed(rows[i], "NULL", "SESSION_ROLLOVER_UNPRICED")
    BY <1>1 DEF Repaired
  <2> QED
    BY <2>1, <2>2, ClosedType DEF Reasons
<1>2. CASE ~Stale(rows[i])
  BY <1>2 DEF Repaired, TypeOK
<1> QED
  BY <1>1, <1>2

\* A nonempty set of rowids has a largest one.
LEMMA LargestId ==
  ASSUME NEW S \in SUBSET Ids, S # {}, ConstantsAssumption
  PROVE  \E i \in S : \A j \in S : j <= i
<1> DEFINE T == {MaxTrades - i : i \in S}
<1>1. T \subseteq Nat /\ T # {}
  <2>1. ASSUME NEW i \in S  PROVE MaxTrades - i \in Nat
    <3>1. i \in Int /\ i <= MaxTrades /\ MaxTrades \in Int
      BY DEF Ids, ConstantsAssumption
    <3> QED
      BY <3>1
  <2> QED
    BY <2>1
<1>2. PICK m \in T : \A k \in T : <<k, m>> \notin OpToRel(<, Nat)
  <2> HIDE DEF T
  <2> QED  BY <1>1, WFMin, NatLessThanWellFounded, Zenon
<1>3. \A k \in T : ~(k < m)
  <2> HIDE DEF T
  <2> QED  BY <1>1, <1>2 DEF OpToRel
<1>4. PICK i \in S : m = MaxTrades - i
  OBVIOUS
<1>5. ASSUME NEW j \in S  PROVE j <= i
  <2>1. ~(MaxTrades - j < m)
    BY <1>3
  <2> QED
    BY <1>4, <2>1 DEF Ids, ConstantsAssumption
<1> QED
  BY <1>5

LEMMA LoadedType ==
  ASSUME NEW R \in [Ids -> Row \union {NoRow}], NEW s \in Symbols,
         ConstantsAssumption
  PROVE  /\ Loaded(R, s) \in Position \union {NotHeld}
         /\ Loaded(R, s) # NotHeld =>
              /\ Loaded(R, s).id \in Loadable(R, s)
              /\ R[Loaded(R, s).id].entry = Loaded(R, s).entry
<1>1. CASE Loadable(R, s) = {}
  BY <1>1 DEF Loaded
<1>2. CASE Loadable(R, s) # {}
  <2>1. Loadable(R, s) \in SUBSET Ids
    BY DEF Loadable
  <2> DEFINE i == CHOOSE i \in Loadable(R, s) :
                    \A j \in Loadable(R, s) : j <= i
  <2>2. i \in Loadable(R, s)
    <3>1. \E k \in Loadable(R, s) : \A j \in Loadable(R, s) : j <= k
      BY <1>2, <2>1, LargestId
    <3> QED
      BY <3>1
  <2>3. i \in Ids /\ R[i] \in Row
    BY <2>2 DEF Loadable, NoRow
  <2>4. Loaded(R, s) = FreshPosition(i, R[i].entry)
    BY <1>2 DEF Loaded
  <2> HIDE DEF i
  <2>5. R[i].entry \in Premiums
    BY <2>3 DEF Row
  <2>6. FreshPosition(i, R[i].entry) \in Position
    BY <2>3, <2>5 DEF FreshPosition, Position
  <2> QED
    BY <2>2, <2>4, <2>6 DEF FreshPosition
<1> QED
  BY <1>1, <1>2

LEMMA SampleAddedType ==
  ASSUME samples \in Seq(Trades), NEW t \in Trades, ConstantsAssumption
  PROVE  SampleAdded(t) \in Seq(Trades)
<1> DEFINE all == Append(samples, t)
<1>1. all \in Seq(Trades) /\ Len(all) \in Nat
  OBVIOUS
<1> HIDE DEF all
<1>2. CASE Len(all) > KeepSamples
  <2>1. \A n \in (Len(all) - KeepSamples + 1) .. Len(all) : all[n] \in Trades
    BY <1>1, <1>2 DEF ConstantsAssumption
  <2>2. SubSeq(all, Len(all) - KeepSamples + 1, Len(all)) \in Seq(Trades)
    BY <1>1, <1>2, <2>1 DEF ConstantsAssumption
  <2> QED
    BY <1>1, <1>2, <2>2 DEF SampleAdded, ConstantsAssumption, all
<1> QED
  BY <1>1, <1>2 DEF SampleAdded, ConstantsAssumption, all

-----------------------------------------------------------------------------
(***************************************************************************)
(* TypeInv is inductive: one lemma per kind of change to the positions,    *)
(* then one step per action.                                               *)
(***************************************************************************)
LEMMA TypeInvInit == ConstantsAssumption /\ Init => TypeInv
<1> SUFFICES ASSUME ConstantsAssumption, Init PROVE TypeInv
  OBVIOUS
<1>1. Held = {}
  BY DEF Init, Held
<1>2. TypeOK
  BY DEF TypeOK, Init, ConstantsAssumption, Days, Phases, Ids, Trades
<1> QED
  BY <1>1, <1>2 DEF TypeInv, MemoryInStore, WorkerInv, Init

LEMMA MemoryUntouched ==
  ASSUME MemoryInStore, UNCHANGED <<rows, open>>
  PROVE  MemoryInStore' /\ Held' = Held
BY DEF MemoryInStore, Held

\* One position is replaced by one with the same row and entry premium.
LEMMA PositionMoved ==
  ASSUME TypeOK, MemoryInStore, NEW s \in Held, NEW pos \in Position,
         pos.id = open[s].id, pos.entry = open[s].entry,
         open' = [open EXCEPT ![s] = pos], UNCHANGED rows
  PROVE  /\ open' \in [Symbols -> Position \union {NotHeld}]
         /\ Held' = Held
         /\ MemoryInStore'
<1>1. s \in Symbols /\ open[s] # NotHeld
  BY DEF Held
<1>2. pos # NotHeld
  <2>1. pos.id \in Ids
    BY DEF Position
  <2>2. pos.id # 0
    BY <2>1 DEF Ids
  <2> QED
    BY <2>2 DEF NotHeld
<1>3. open' \in [Symbols -> Position \union {NotHeld}]
  BY <1>1 DEF TypeOK
<1>4. Held' = Held
  BY <1>1, <1>2 DEF Held, TypeOK
<1>5. ASSUME NEW u \in Held
      PROVE  open'[u].id = open[u].id /\ open'[u].entry = open[u].entry
  BY <1>1 DEF Held, TypeOK
<1> QED
  BY <1>3, <1>4, <1>5 DEF MemoryInStore

\* A row is closed and its position popped.
LEMMA PositionClosed ==
  ASSUME TypeOK, MemoryInStore, ConstantsAssumption, NEW s \in Held,
         NEW exit \in {"NULL", "QUOTE"}, NEW reason \in Reasons,
         CloseScalp(open[s].id, exit, reason),
         open' = [open EXCEPT ![s] = NotHeld]
  PROVE  /\ rows' \in [Ids -> Row \union {NoRow}]
         /\ samples' \in Seq(Trades)
         /\ open' \in [Symbols -> Position \union {NotHeld}]
         /\ Held' = Held \ {s}
         /\ MemoryInStore'
<1> DEFINE i == open[s].id
<1>1. s \in Symbols /\ i \in Ids /\ rows[i] \in Row /\ rows[i].sym = s
  BY HeldFacts
<1>2. rows' = [rows EXCEPT ![i] = Closed(rows[i], exit, reason)]
  BY DEF CloseScalp
<1>3. rows' \in [Ids -> Row \union {NoRow}]
  BY <1>1, <1>2, ClosedType DEF TypeOK
<1>4. samples' \in Seq(Trades)
  <2>1. rows[i].trade \in Trades
    BY <1>1 DEF Row
  <2> QED
    BY <2>1, SampleAddedType DEF CloseScalp, TypeOK
<1>5. open' \in [Symbols -> Position \union {NotHeld}]
  BY DEF TypeOK
<1>6. Held' = Held \ {s}
  BY <1>1 DEF Held, TypeOK
<1>7. ASSUME NEW u \in Held \ {s}
      PROVE  open'[u] = open[u] /\ rows'[open[u].id] = rows[open[u].id]
  <2>1. u \in Symbols /\ open[u].id \in Ids /\ rows[open[u].id].sym = u
    BY <1>7, HeldFacts
  <2>2. open[u].id # i
    BY <1>1, <1>7, <2>1
  <2> QED
    BY <1>1, <1>2, <1>7, <2>1, <2>2 DEF TypeOK
<1>8. MemoryInStore'
  <2> SUFFICES ASSUME NEW u \in Held \ {s}
               PROVE  /\ rows'[open'[u].id].status = "OPEN"
                      /\ rows'[open'[u].id].sym = u
                      /\ rows'[open'[u].id].entry = open'[u].entry
    BY <1>6 DEF MemoryInStore
  <2> QED
    BY <1>7, HeldFacts
<1> QED
  BY <1>3, <1>4, <1>5, <1>6, <1>8

LEMMA ExitReasonType ==
  ASSUME NEW pos, NEW ctx, NEW q
  PROVE  ExitReason(pos, ctx, q) \in Reasons
<1> DEFINE after == PositionAfter(pos, ctx, q)
<1> HIDE DEF after
<1>1. CASE StopHit(pos.entry, q)
  BY <1>1 DEF ExitReason, Reasons
<1>2. CASE ~StopHit(pos.entry, q) /\ ctx # "none" /\ after.weak >= 2
  BY <1>2 DEF ExitReason, Reasons, after
<1>3. CASE /\ ~StopHit(pos.entry, q) /\ (ctx = "none" \/ after.weak < 2)
           /\ after.armed /\ DrawdownHit(after, q) /\ after.weak >= 1
           /\ ~(ctx # "none" /\ after.weak >= 2)
  BY <1>3 DEF ExitReason, Reasons, after
<1>4. CASE /\ ~StopHit(pos.entry, q)
           /\ ~(ctx # "none" /\ after.weak >= 2)
           /\ ~(/\ ctx = "none" \/ after.weak < 2
                /\ after.armed /\ DrawdownHit(after, q) /\ after.weak >= 1)
  BY <1>4 DEF ExitReason, Reasons, after
<1> QED
  BY <1>1, <1>2, <1>3, <1>4

\* The history variables keep their types, and an observation is of the
\* trade in the row.
LEMMA HistoryType ==
  ASSUME TypeOK, MemoryInStore, NEW s \in Held
  PROVE  /\ Observed(open[s].id) => audit' \in [Ids -> SUBSET Trades]
         /\ \A ctx \in Contexts, q \in Premiums :
              Looked(s, ctx, q) => weakRun' \in [Trades -> 0 .. 2]
<1>1. rows[open[s].id].trade \in Trades
  BY HeldFacts DEF Row
<1>2. Observed(open[s].id) => audit' \in [Ids -> SUBSET Trades]
  BY <1>1 DEF Observed, TypeOK
<1>3. ASSUME NEW ctx \in Contexts, NEW q \in Premiums, Looked(s, ctx, q)
      PROVE  weakRun' \in [Trades -> 0 .. 2]
  <2> DEFINE t == rows[open[s].id].trade
  <2>1. WeakRunAfter(t, ctx) \in 0 .. 2
    BY <1>1 DEF WeakRunAfter, UpToTwo, Contexts, TypeOK
  <2> QED
    BY <1>1, <1>3, <2>1 DEF Looked, TypeOK
<1> QED
  BY <1>2, <1>3

LEMMA TypeInvStep ==
  ASSUME ConstantsAssumption, TypeInv, [Next]_vars
  PROVE  TypeInv'
<1> USE DEF TypeInv
<1>0. CASE UNCHANGED vars
  BY <1>0 DEF vars, clock, store, worker, TypeOK, MemoryInStore, WorkerInv,
     Held
<1>1. CASE Tick
  BY <1>1, MemoryUntouched
  DEF Tick, store, worker, TypeOK, WorkerInv, Held, Days, Phases,
     ConstantsAssumption
<1>2. CASE RefreshStart
  BY <1>2, MemoryUntouched
  DEF RefreshStart, clock, store, TypeOK, WorkerInv, Held
<1>3. ASSUME NEW s \in Symbols, ManageUnquoted(s)  PROVE TypeInv'
  <2>1. s \in Held
    BY <1>3 DEF ManageUnquoted, WorkerInv
  <2>2. MemoryInStore' /\ Held' = Held
    BY <1>3, MemoryUntouched DEF ManageUnquoted, store
  <2>3. audit' \in [Ids -> SUBSET Trades]
    BY <1>3, <2>1, HistoryType DEF ManageUnquoted
  <2> QED
    BY <1>3, <2>2, <2>3 DEF ManageUnquoted, clock, store, TypeOK, WorkerInv
<1>4. ASSUME NEW s \in Symbols, NEW ctx \in Contexts, NEW q \in Premiums,
             ManageHold(s, ctx, q)
      PROVE  TypeInv'
  <2>1. s \in Held /\ open[s] \in Position
    BY <1>4, HeldFacts DEF ManageHold, WorkerInv
  <2>2. /\ open' \in [Symbols -> Position \union {NotHeld}]
        /\ Held' = Held /\ MemoryInStore'
    BY <1>4, <2>1, PositionAfterType, PositionMoved DEF ManageHold, store
  <2>3. audit' \in [Ids -> SUBSET Trades] /\ weakRun' \in [Trades -> 0 .. 2]
    BY <1>4, <2>1, HistoryType DEF ManageHold
  <2> QED
    BY <1>4, <2>2, <2>3 DEF ManageHold, clock, store, TypeOK, WorkerInv
<1>5. ASSUME NEW s \in Symbols, NEW ctx \in Contexts, NEW q \in Premiums,
             ManageExit(s, ctx, q)
      PROVE  TypeInv'
  <2> DEFINE reason == ExitReason(open[s], ctx, q)
             pos    == PositionAfter(open[s], ctx, q)
  <2>1. s \in Held /\ open[s] \in Position
    BY <1>5, HeldFacts DEF ManageExit, WorkerInv
  <2>2. reason \in Reasons
    BY ExitReasonType
  <2>3. audit' \in [Ids -> SUBSET Trades] /\ weakRun' \in [Trades -> 0 .. 2]
    BY <1>5, <2>1, HistoryType DEF ManageExit
  <2>4. pos \in Position /\ pos.id = open[s].id /\ pos.entry = open[s].entry
    BY <2>1, PositionAfterType
  <2>5. Close(s, "QUOTE", reason) \/ CloseRaises(s, pos)
    BY <1>5 DEF ManageExit
  <2> HIDE DEF reason, pos
  <2>6. CASE Close(s, "QUOTE", reason)
    <3>1. /\ rows' \in [Ids -> Row \union {NoRow}] /\ samples' \in Seq(Trades)
          /\ open' \in [Symbols -> Position \union {NotHeld}]
          /\ Held' = Held \ {s} /\ MemoryInStore'
      BY <2>1, <2>2, <2>6, PositionClosed DEF Close
    <3> QED
      BY <1>5, <2>3, <2>6, <3>1 DEF ManageExit, Close, clock, TypeOK, WorkerInv
  <2>7. CASE CloseRaises(s, pos)
    <3>1. /\ open' \in [Symbols -> Position \union {NotHeld}]
          /\ Held' = Held /\ MemoryInStore'
      BY <2>1, <2>4, <2>7, PositionMoved DEF CloseRaises, store
    <3> QED
      BY <1>5, <2>3, <2>7, <3>1
      DEF ManageExit, CloseRaises, RefreshAborted, clock, store, TypeOK,
          WorkerInv, Days, Phases, ConstantsAssumption
  <2> QED
    BY <2>5, <2>6, <2>7
<1>6. ASSUME NEW s \in Symbols, NEW exit \in {"NULL", "QUOTE"}, HardFlat(s, exit)
      PROVE  TypeInv'
  <2>1. s \in Held
    BY <1>6 DEF HardFlat, WorkerInv
  <2>2. /\ rows' \in [Ids -> Row \union {NoRow}] /\ samples' \in Seq(Trades)
        /\ open' \in [Symbols -> Position \union {NotHeld}]
        /\ Held' = Held \ {s} /\ MemoryInStore'
    BY <1>6, <2>1, PositionClosed DEF HardFlat, Close, Reasons
  <2>3. audit' \in [Ids -> SUBSET Trades]
    BY <1>6, <2>1, HistoryType DEF HardFlat
  <2> QED
    BY <1>6, <2>2, <2>3 DEF HardFlat, Close, clock, TypeOK, WorkerInv
<1>7. ASSUME NEW s \in Symbols, HardFlatRaises(s)  PROVE TypeInv'
  <2>1. s \in Held /\ open[s] \in Position
    BY <1>7, HeldFacts DEF HardFlatRaises, WorkerInv
  <2>2. /\ open' \in [Symbols -> Position \union {NotHeld}]
        /\ Held' = Held /\ MemoryInStore'
    BY <1>7, <2>1, PositionMoved DEF HardFlatRaises, CloseRaises, store
  <2>3. audit' \in [Ids -> SUBSET Trades]
    BY <1>7, <2>1, HistoryType DEF HardFlatRaises
  <2> QED
    BY <1>7, <2>2, <2>3
    DEF HardFlatRaises, CloseRaises, RefreshAborted, clock, store, TypeOK,
        WorkerInv, Days, Phases, ConstantsAssumption
<1>8. CASE ScanStart
  BY <1>8, MemoryUntouched DEF ScanStart, clock, store, TypeOK, WorkerInv
<1>9. CASE NoScan
  BY <1>9, MemoryUntouched
  DEF NoScan, RefreshAborted, clock, store, TypeOK, WorkerInv, Days, Phases,
      ConstantsAssumption
<1>10. ASSUME NEW s \in Symbols, SkipCandidate(s)  PROVE TypeInv'
  BY <1>10, MemoryUntouched DEF SkipCandidate, clock, store, TypeOK, WorkerInv
<1>11. ASSUME NEW s \in Symbols, NEW p \in Premiums, Enter(s, p)  PROVE TypeInv'
  <2>1. PICK i \in Ids : /\ IsNextId(i)
                         /\ rows' = [rows EXCEPT ![i] = EntryRow(s, p)]
                         /\ open' = [open EXCEPT ![s] = FreshPosition(i, p)]
    BY <1>11 DEF Enter
  <2>2. EntryRow(s, p) \in Row
    <3>1. entries + 1 \in Trades
      BY <1>11 DEF Enter, TypeOK, Trades, ConstantsAssumption
    <3> QED
      BY <3>1 DEF EntryRow, Row, TypeOK, Reasons
  <2>3. FreshPosition(i, p) \in Position /\ FreshPosition(i, p) # NotHeld
    <3>1. FreshPosition(i, p) \in Position
      BY DEF FreshPosition, Position
    <3>2. FreshPosition(i, p).id # NotHeld.id
      BY DEF FreshPosition, NotHeld, Ids
    <3> QED
      BY <3>1, <3>2
  <2>4. /\ rows' \in [Ids -> Row \union {NoRow}]
        /\ open' \in [Symbols -> Position \union {NotHeld}]
    BY <2>1, <2>2, <2>3 DEF TypeOK
  <2>5. Held' = Held \union {s}
    BY <2>1, <2>3 DEF Held, TypeOK
  <2>6. MemoryInStore'
    <3> SUFFICES ASSUME NEW u \in Held \union {s}
                 PROVE  /\ rows'[open'[u].id].status = "OPEN"
                        /\ rows'[open'[u].id].sym = u
                        /\ rows'[open'[u].id].entry = open'[u].entry
      BY <2>5 DEF MemoryInStore
    <3>1. CASE u = s
      <4>1. open'[s] = FreshPosition(i, p) /\ rows'[i] = EntryRow(s, p)
        BY <2>1 DEF TypeOK
      <4> QED
        BY <3>1, <4>1 DEF FreshPosition, EntryRow
    <3>2. CASE u # s
      <4>1. u \in Held /\ open'[u] = open[u]
        BY <2>1, <3>2 DEF Held, TypeOK
      <4>2. open[u].id \in Ids /\ open[u].id # i
        <5>1. open[u].id \in Ids /\ rows[open[u].id].status = "OPEN"
          BY <4>1, HeldFacts
        <5>2. rows[open[u].id] # NoRow
          BY <5>1 DEF NoRow
        <5> QED
          BY <2>1, <5>1, <5>2 DEF IsNextId, Ids
      <4> QED
        BY <2>1, <4>1, <4>2, HeldFacts DEF TypeOK
    <3> QED
      BY <3>1, <3>2
  <2>7. entries' \in 0 .. MaxTrades
    BY <1>11 DEF Enter, TypeOK, ConstantsAssumption
  <2>8. cands' \cap Held' = {}
    BY <1>11, <2>5 DEF Enter, WorkerInv
  <2> QED
    BY <1>11, <2>4, <2>5, <2>6, <2>7, <2>8 DEF Enter, clock, TypeOK, WorkerInv
<1>12. ASSUME NEW s \in Symbols, EnterRaises(s)  PROVE TypeInv'
  BY <1>12, MemoryUntouched
  DEF EnterRaises, RefreshAborted, clock, store, TypeOK, WorkerInv, Days,
      Phases, ConstantsAssumption
<1>13. CASE ScanEnd
  BY <1>13, MemoryUntouched
  DEF ScanEnd, RefreshAborted, clock, store, TypeOK, WorkerInv, Days, Phases,
      ConstantsAssumption
<1>14. CASE Crash
  <2>1. Held' = {}
    BY <1>14 DEF Crash, Held
  <2>2. TypeOK'
    BY <1>14 DEF Crash, clock, store, TypeOK, Days, Phases, ConstantsAssumption
  <2> QED
    BY <1>14, <2>1, <2>2 DEF Crash, MemoryInStore, WorkerInv
<1>15. ASSUME NEW S \in SUBSET Symbols, pc = "down", pc' = "idle",
              rows' = Repaired,
              open' = [s \in Symbols |-> IF s \in S THEN Loaded(Repaired, s)
                                         ELSE NotHeld],
              UNCHANGED <<clock, samples, rday, rphase, todo, cands, crashes,
                          entries, weakRun, audit>>
       PROVE  TypeInv'
  <2>1. Repaired \in [Ids -> Row \union {NoRow}]
    BY RepairedType
  <2>2. open' \in [Symbols -> Position \union {NotHeld}]
    BY <1>15, <2>1, LoadedType
  <2>3. MemoryInStore'
    <3> SUFFICES ASSUME NEW s \in Symbols, open'[s] # NotHeld
                 PROVE  /\ rows'[open'[s].id].status = "OPEN"
                        /\ rows'[open'[s].id].sym = s
                        /\ rows'[open'[s].id].entry = open'[s].entry
      BY DEF MemoryInStore, Held
    <3>1. open'[s] = Loaded(Repaired, s)
      BY <1>15
    <3> QED
      BY <1>15, <2>1, <3>1, LoadedType DEF Loadable
  <2>4. todo' = {} /\ cands' = {}
    BY <1>15 DEF WorkerInv
  <2> QED
    BY <1>15, <2>1, <2>2, <2>3, <2>4 DEF clock, TypeOK, WorkerInv
<1>16. CASE Restart
  BY <1>16, <1>15 DEF Restart
<1>17. CASE RestartLoadRaises
  BY <1>17, <1>15 DEF RestartLoadRaises
<1>18. CASE PurgeOnRead
  <2>1. rows' \in [Ids -> Row \union {NoRow}]
    BY <1>18 DEF PurgeOnRead, TypeOK
  <2>2. Held' = Held
    BY <1>18 DEF PurgeOnRead, Held
  <2>3. ASSUME NEW s \in Held  PROVE rows'[open[s].id] = rows[open[s].id]
    <3>1. open[s].id \in Ids /\ rows[open[s].id].status = "OPEN"
      BY HeldFacts
    <3> QED
      BY <1>18, <3>1 DEF PurgeOnRead, Purgeable
  <2>4. MemoryInStore'
    BY <1>18, <2>2, <2>3 DEF PurgeOnRead, MemoryInStore
  <2> QED
    BY <1>18, <2>1, <2>2, <2>4 DEF PurgeOnRead, clock, worker, TypeOK,
       WorkerInv
<1> QED
  BY <1>0, <1>1, <1>2, <1>3, <1>4, <1>5, <1>6, <1>7, <1>8, <1>9, <1>10, <1>11,
     <1>12, <1>13, <1>14, <1>16, <1>17, <1>18
  DEF Next, Manage, Scan

\* Every variable keeps its type, whatever fails; in particular every rowid
\* that is given out is one the table can hold.
THEOREM TypeCorrect == Spec => []TypeOK
<1>1. Init => TypeInv
  BY ConstantsAssumption, TypeInvInit
<1>2. TypeInv /\ [Next]_vars => TypeInv'
  BY ConstantsAssumption, TypeInvStep
<1>3. TypeInv => TypeOK
  BY DEF TypeInv
<1> QED
  BY <1>1, <1>2, <1>3, PTL DEF Spec

-----------------------------------------------------------------------------
(***************************************************************************)
(* The table and the memory of the scalp engine agree, and the cap holds   *)
(* for what is persisted, as long as restoring the positions succeeds.     *)
(***************************************************************************)

\* Every OPEN row is held by the process.
RowsInMemory ==
  pc # "down" => \A i \in OpenIds : open[rows[i].sym].id = i

\* Needed while the process is down: the reload would keep only one of two
\* OPEN rows of a symbol.
OneOpenPerSymbol ==
  \A i, j \in OpenIds : rows[i].sym = rows[j].sym => i = j

\* Needed by the reload, which looks for rows of today only, after the
\* repair closed those of earlier days.
RowsNotInFuture ==
  \A i \in OpenIds : rows[i].day <= day

StoreInv == RowsInMemory /\ OneOpenPerSymbol /\ RowsNotInFuture

LEMMA StoreUntouched ==
  ASSUME StoreInv, UNCHANGED <<rows, open>>, pc' # "down" => pc # "down",
         day' \in Int, day \in Int, day' >= day, TypeOK
  PROVE  StoreInv'
<1>1. OpenIds' = OpenIds
  BY DEF OpenIds
<1>2. \A i \in OpenIds : rows[i].day \in Int
  BY RowFacts DEF OpenIds, Row, Days
<1> QED
  BY <1>1, <1>2 DEF StoreInv, RowsInMemory, OneOpenPerSymbol, RowsNotInFuture

\* The OPEN rows shrink, and those that stay are the same and still held.
LEMMA StoreShrinks ==
  ASSUME StoreInv, OpenIds' \subseteq OpenIds, UNCHANGED day, pc # "down",
         \A i \in OpenIds' : /\ rows'[i] = rows[i]
                             /\ open'[rows[i].sym].id = open[rows[i].sym].id
  PROVE  StoreInv'
BY DEF StoreInv, RowsInMemory, OneOpenPerSymbol, RowsNotInFuture

LEMMA StoreAfterClose ==
  ASSUME TypeInv, StoreInv, pc # "down", UNCHANGED day,
         NEW s \in Held, NEW exit \in {"NULL", "QUOTE"}, NEW reason \in Reasons,
         CloseScalp(open[s].id, exit, reason),
         open' = [open EXCEPT ![s] = NotHeld]
  PROVE  StoreInv'
<1> DEFINE i == open[s].id
<1>1. /\ s \in Symbols /\ i \in Ids /\ rows[i] \in Row
      /\ rows[i].sym = s /\ rows[i].status = "OPEN"
  BY HeldFacts DEF TypeInv
<1>2. rows' = [rows EXCEPT ![i] = Closed(rows[i], exit, reason)]
  BY DEF CloseScalp
<1>3. rows'[i].status = "CLOSED"
  BY <1>1, <1>2, ClosedType DEF TypeInv, TypeOK
<1>4. ASSUME NEW j \in OpenIds'
      PROVE  j \in OpenIds /\ rows'[j] = rows[j] /\ rows[j].sym # s
  <2>1. j \in Ids /\ j # i
    BY <1>3 DEF OpenIds
  <2>2. rows'[j] = rows[j]
    BY <1>2, <2>1 DEF TypeInv, TypeOK
  <2>3. j \in OpenIds
    BY <2>1, <2>2 DEF OpenIds
  <2>4. i \in OpenIds
    BY <1>1 DEF OpenIds
  <2> QED
    BY <1>1, <2>1, <2>2, <2>3, <2>4 DEF StoreInv, OneOpenPerSymbol
<1>5. \A j \in OpenIds' : open'[rows[j].sym].id = open[rows[j].sym].id
  BY <1>4 DEF TypeInv, TypeOK
<1> QED
  BY <1>4, <1>5, StoreShrinks

LEMMA StoreAfterEnter ==
  ASSUME TypeInv, StoreInv, ConstantsAssumption, NEW s \in Symbols,
         NEW p \in Premiums, Enter(s, p)
  PROVE  StoreInv'
<1>1. PICK i \in Ids : /\ IsNextId(i)
                       /\ rows' = [rows EXCEPT ![i] = EntryRow(s, p)]
                       /\ open' = [open EXCEPT ![s] = FreshPosition(i, p)]
  BY DEF Enter
<1>2. rows[i] = NoRow
  BY <1>1 DEF IsNextId, Ids
<1>3. /\ rows'[i] = EntryRow(s, p) /\ open'[s] = FreshPosition(i, p)
      /\ \A j \in Ids \ {i} : rows'[j] = rows[j]
      /\ \A u \in Symbols \ {s} : open'[u] = open[u]
  BY <1>1 DEF TypeInv, TypeOK
<1>4. OpenIds' = OpenIds \union {i} /\ i \notin OpenIds
  BY <1>2, <1>3 DEF OpenIds, EntryRow, NoRow
<1>5. s \notin Held
  BY DEF Enter, TypeInv, WorkerInv
<1>6. ASSUME NEW j \in OpenIds
      PROVE  /\ rows'[j] = rows[j] /\ rows[j].sym # s
             /\ open'[rows[j].sym].id = j
  <2>1. rows'[j] = rows[j] /\ rows[j] \in Row
    BY <1>3, <1>4, RowFacts DEF OpenIds, TypeInv
  <2>2. open[rows[j].sym].id = j
    BY DEF StoreInv, RowsInMemory, Enter
  <2>3. rows[j].sym # s
    BY <1>5, <2>2 DEF Held, NotHeld, OpenIds, Ids
  <2> QED
    BY <1>3, <2>1, <2>2, <2>3 DEF Row
<1>7. /\ rows'[i].sym = s /\ rows'[i].day = day /\ open'[s].id = i
  BY <1>3 DEF EntryRow, FreshPosition
<1>8. RowsInMemory'
  BY <1>4, <1>6, <1>7 DEF RowsInMemory
<1>9. OneOpenPerSymbol'
  BY <1>4, <1>6, <1>7 DEF OneOpenPerSymbol, StoreInv
<1>10. RowsNotInFuture'
  BY <1>4, <1>6, <1>7 DEF RowsNotInFuture, StoreInv, Enter, clock, TypeInv,
     TypeOK, Days
<1> QED
  BY <1>8, <1>9, <1>10 DEF StoreInv

LEMMA StoreAfterRestart ==
  ASSUME TypeInv, StoreInv, ConstantsAssumption, Restart
  PROVE  StoreInv'
<1>1. ASSUME NEW i \in OpenIds'
      PROVE  /\ i \in OpenIds /\ rows'[i] = rows[i] /\ rows[i] \in Row
             /\ rows[i].day = day
  <2>1. i \in Ids /\ Repaired[i].status = "OPEN" /\ rows' = Repaired
    BY DEF OpenIds, Restart
  <2>2. rows'[i] = rows[i] /\ ~Stale(rows[i])
    BY <2>1, RepairedType DEF TypeInv
  <2>3. i \in OpenIds /\ rows[i] \in Row
    BY <2>1, <2>2, RowFacts DEF OpenIds, TypeInv
  <2>4. rows[i].day <= day /\ ~(rows[i].day < day)
    BY <2>2, <2>3 DEF Stale, OpenIds, StoreInv, RowsNotInFuture
  <2>5. rows[i].day \in Int /\ day \in Int
    BY <2>3 DEF Row, Days, TypeInv, TypeOK
  <2> QED
    BY <2>2, <2>3, <2>4, <2>5
<1>2. ASSUME NEW i \in OpenIds'
      PROVE  open'[rows'[i].sym].id = i
  <2> DEFINE u == rows[i].sym
  <2>1. rows' = Repaired /\ Repaired \in [Ids -> Row \union {NoRow}]
    BY RepairedType DEF Restart, TypeInv
  <2>2. u \in Symbols /\ rows'[i].sym = u
    BY <1>1 DEF Row
  <2>3. i \in Loadable(Repaired, u)
    BY <1>1, <2>1 DEF Loadable, OpenIds
  <2>4. Loaded(Repaired, u) # NotHeld
    <3>1. \E k \in Loadable(Repaired, u) : \A j \in Loadable(Repaired, u) : j <= k
      BY <2>3, LargestId DEF Loadable
    <3>2. Loaded(Repaired, u).id \in Ids
      BY <2>3, <3>1 DEF Loaded, FreshPosition, Loadable
    <3> QED
      BY <3>2 DEF Ids, NotHeld
  <2>5. Loaded(Repaired, u).id \in Loadable(Repaired, u)
    BY <2>1, <2>2, <2>4, LoadedType
  <2> DEFINE k == Loaded(Repaired, u).id
  <2>6. k \in OpenIds' /\ rows'[k].sym = u
    BY <2>1, <2>5 DEF Loadable, OpenIds
  <2>7. k = i
    <3>1. rows[k].sym = u /\ k \in OpenIds
      BY <1>1, <2>6
    <3> QED
      BY <1>1, <3>1 DEF StoreInv, OneOpenPerSymbol
  <2>8. open'[u] = Loaded(Repaired, u)
    BY <2>2 DEF Restart
  <2> QED
    BY <2>2, <2>7, <2>8
<1>3. UNCHANGED day /\ OpenIds' \subseteq OpenIds
  BY <1>1 DEF Restart, clock
<1> QED
  BY <1>1, <1>2, <1>3 DEF StoreInv, RowsInMemory, OneOpenPerSymbol,
     RowsNotInFuture

LEMMA StoreInvStep ==
  ASSUME ConstantsAssumption, ~LoadMayFail, TypeInv, StoreInv, [Next]_vars
  PROVE  StoreInv'
<1>0. day \in Int /\ TypeOK /\ MemoryInStore
  BY DEF TypeInv, TypeOK, Days
<1>1. CASE /\ UNCHANGED <<rows, open, day>>
           /\ pc' # "down" => pc # "down"
  BY <1>0, <1>1, StoreUntouched
<1>2. CASE Tick
  BY <1>0, <1>2, StoreUntouched DEF Tick, store, worker
<1>3. CASE UNCHANGED vars \/ RefreshStart \/ ScanStart \/ NoScan \/ ScanEnd
  BY <1>1, <1>3 DEF vars, clock, store, worker, RefreshStart, ScanStart,
     NoScan,
     ScanEnd, RefreshAborted
<1>4. ASSUME NEW s \in Symbols, ManageUnquoted(s) \/ SkipCandidate(s) \/ EnterRaises(s)
      PROVE  StoreInv'
  BY <1>1, <1>4 DEF ManageUnquoted, SkipCandidate, EnterRaises, RefreshAborted,
     clock, store
<1>5. ASSUME NEW s \in Held, NEW pos \in Position, pos.id = open[s].id,
             open' = [open EXCEPT ![s] = pos], UNCHANGED <<rows, day>>, pc # "down"
      PROVE  StoreInv'
  <2>1. OpenIds' = OpenIds
    BY <1>5 DEF OpenIds
  <2>2. \A i \in OpenIds : open'[rows[i].sym].id = open[rows[i].sym].id
    <3>1. \A i \in OpenIds : rows[i].sym \in Symbols
      BY <1>0, RowFacts DEF OpenIds, Row
    <3> QED
      BY <1>0, <1>5, <3>1 DEF TypeOK
  <2> QED
    BY <1>5, <2>1, <2>2, StoreShrinks
<1>6. ASSUME NEW s \in Symbols, NEW ctx \in Contexts, NEW q \in Premiums,
             ManageHold(s, ctx, q) \/ ManageExit(s, ctx, q)
      PROVE  StoreInv'
  <2> DEFINE reason == ExitReason(open[s], ctx, q)
             pos    == PositionAfter(open[s], ctx, q)
  <2>1. s \in Held /\ pc # "down"
    BY <1>6 DEF ManageHold, ManageExit, TypeInv, WorkerInv
  <2>2. pos \in Position /\ pos.id = open[s].id
    BY <1>0, <2>1, HeldFacts, PositionAfterType
  <2>3. reason \in Reasons
    BY ExitReasonType
  <2>4. \/ open' = [open EXCEPT ![s] = pos] /\ UNCHANGED rows
        \/ Close(s, "QUOTE", reason)
    BY <1>6 DEF ManageHold, ManageExit, CloseRaises, store
  <2>5. UNCHANGED day
    BY <1>6 DEF ManageHold, ManageExit, clock
  <2> HIDE DEF reason, pos
  <2> QED
    BY <1>5, <2>1, <2>2, <2>3, <2>4, <2>5, StoreAfterClose DEF Close
<1>7. ASSUME NEW s \in Symbols, NEW exit \in {"NULL", "QUOTE"}, HardFlat(s, exit)
      PROVE  StoreInv'
  <2>1. s \in Held /\ pc # "down" /\ UNCHANGED day
    BY <1>7 DEF HardFlat, TypeInv, WorkerInv, clock
  <2> QED
    BY <1>7, <2>1, StoreAfterClose DEF HardFlat, Close, Reasons
<1>8. ASSUME NEW s \in Symbols, HardFlatRaises(s)  PROVE StoreInv'
  <2>1. s \in Held /\ pc # "down" /\ UNCHANGED <<day, rows>>
    BY <1>8 DEF HardFlatRaises, CloseRaises, TypeInv, WorkerInv, clock, store
  <2>2. open[s] \in Position
    BY <1>0, <2>1, HeldFacts
  <2> QED
    BY <1>5, <1>8, <2>1, <2>2 DEF HardFlatRaises, CloseRaises
<1>9. ASSUME NEW s \in Symbols, NEW p \in Premiums, Enter(s, p)  PROVE StoreInv'
  BY <1>9, StoreAfterEnter
<1>10. CASE Crash
  BY <1>10 DEF Crash, StoreInv, RowsInMemory, OneOpenPerSymbol,
     RowsNotInFuture,
     OpenIds, store, clock
<1>11. CASE Restart
  BY <1>11, StoreAfterRestart
<1>12. CASE PurgeOnRead
  <2>1. \A i \in OpenIds' : i \in OpenIds /\ rows'[i] = rows[i]
    BY <1>12 DEF PurgeOnRead, OpenIds, NoRow
  <2> QED
    BY <1>12, <2>1, StoreShrinks DEF PurgeOnRead, clock
<1>13. ~RestartLoadRaises
  BY DEF RestartLoadRaises
<1> QED
  BY <1>2, <1>3, <1>4, <1>6, <1>7, <1>8, <1>9, <1>10, <1>11, <1>12, <1>13
  DEF Next, Manage, Scan

LEMMA StoreInvInit == Init => StoreInv
BY DEF Init, StoreInv, RowsInMemory, OneOpenPerSymbol, RowsNotInFuture,
   OpenIds,
   NoRow

\* The invariants of this module hold of every behaviour in which the
\* positions are always restored completely.
LEMMA StoreInvariant == ~LoadMayFail => (Spec => [](TypeInv /\ StoreInv))
<1> SUFFICES ASSUME ~LoadMayFail PROVE Spec => [](TypeInv /\ StoreInv)
  OBVIOUS
<1>1. Init => TypeInv /\ StoreInv
  BY ConstantsAssumption, TypeInvInit, StoreInvInit
<1>2. TypeInv /\ StoreInv /\ [Next]_vars => (TypeInv /\ StoreInv)'
  BY ConstantsAssumption, TypeInvStep, StoreInvStep
<1> QED
  BY <1>1, <1>2, PTL DEF Spec

-----------------------------------------------------------------------------
\* While the process is up the held positions and the OPEN rows are the
\* same, one for one, through crashes, failed writes, midnight and purges.
THEOREM StoreAndMemoryAgree ==
  ASSUME ~LoadMayFail
  PROVE  Spec => []StoreMatchesMemory
<1>1. TypeInv /\ StoreInv => StoreMatchesMemory
  <2> SUFFICES ASSUME TypeInv, StoreInv PROVE StoreMatchesMemory
    OBVIOUS
  <2>1. \A s \in Held : open[s].id \in OpenIds
    BY HeldFacts DEF TypeInv, OpenIds
  <2> QED
    BY <2>1 DEF StoreMatchesMemory, TypeInv, StoreInv, MemoryInStore,
       RowsInMemory
<1> QED
  BY <1>1, StoreInvariant, PTL

-----------------------------------------------------------------------------
(***************************************************************************)
(* The cap.  Rows and positions are counted against each other: different  *)
(* held symbols name different rowids, so what is held is finite, and      *)
(* different OPEN rows are held by different symbols.                      *)
(***************************************************************************)
LEMMA HeldIsFinite ==
  ASSUME TypeInv, ConstantsAssumption
  PROVE  IsFiniteSet(Held) /\ IsFiniteSet(OpenIds)
<1>1. IsFiniteSet(Ids)
  BY FS_Interval DEF Ids, ConstantsAssumption
<1>2. [s \in Held |-> open[s].id] \in Injection(Held, Ids)
  <2> DEFINE f == [s \in Held |-> open[s].id]
  <2>1. f \in [Held -> Ids]
    BY HeldFacts DEF TypeInv
  <2>2. ASSUME NEW s \in Held, NEW u \in Held, f[s] = f[u]  PROVE s = u
    BY <2>2, HeldFacts DEF TypeInv
  <2> QED
    BY <2>1, <2>2 DEF Injection, IsInjective
<1>3. IsFiniteSet(Held)
  BY <1>1, <1>2, FS_Injection
<1>4. IsFiniteSet(OpenIds)
  BY <1>1, FS_Subset DEF OpenIds
<1> QED
  BY <1>3, <1>4

LEMMA NoMoreRowsThanHeld ==
  ASSUME TypeInv, StoreInv, ConstantsAssumption, pc # "down"
  PROVE  Cardinality(OpenIds) <= Cardinality(Held)
<1> DEFINE f == [i \in OpenIds |-> rows[i].sym]
<1>1. ASSUME NEW i \in OpenIds  PROVE rows[i].sym \in Held
  <2>1. rows[i].sym \in Symbols
    BY RowFacts DEF OpenIds, Row, TypeInv
  <2>2. open[rows[i].sym].id = i /\ i # 0
    BY DEF StoreInv, RowsInMemory, OpenIds, Ids
  <2> QED
    BY <2>1, <2>2 DEF Held, NotHeld
<1>2. \A i, j \in OpenIds : f[i] = f[j] => i = j
  BY DEF StoreInv, OneOpenPerSymbol
<1>3. f \in Injection(OpenIds, Held)
  BY <1>1, <1>2 DEF Injection, IsInjective
<1> QED
  BY <1>3, HeldIsFinite, FS_Injection

LEMMA OnlyEnterOpensRows ==
  ASSUME ConstantsAssumption, TypeInv, StoreInv, [Next]_vars
  PROVE  \/ OpenIds' \subseteq OpenIds
         \/ \E s \in Symbols, p \in Premiums : Enter(s, p)
<1>1. ASSUME NEW s \in Symbols, NEW exit, NEW reason, Close(s, exit, reason)
      PROVE  OpenIds' \subseteq OpenIds
  <2> DEFINE i == open[s].id
  <2>1. rows' = [rows EXCEPT ![i] = Closed(rows[i], exit, reason)]
    BY <1>1 DEF Close, CloseScalp
  <2>2. \A j \in Ids : rows'[j] = rows[j] \/ rows'[j] = Closed(rows[j], exit, reason)
    BY <2>1 DEF TypeInv, TypeOK
  <2>3. ASSUME NEW j \in Ids, rows'[j].status = "OPEN"  PROVE rows[j].status = "OPEN"
    <3>1. CASE rows'[j] = Closed(rows[j], exit, reason)
      <4>1. CASE rows[j] \in Row
        BY <2>3, <3>1, <4>1 DEF Closed, Row
      <4>2. CASE rows[j] = NoRow
        BY <2>3, <3>1, <4>2 DEF Closed, NoRow
      <4> QED
        BY <4>1, <4>2 DEF TypeInv, TypeOK
    <3> QED
      BY <2>2, <2>3, <3>1
  <2> QED
    BY <2>3 DEF OpenIds
<1>2. ASSUME NEW s \in Symbols, Manage(s)  PROVE OpenIds' \subseteq OpenIds
  BY <1>1, <1>2 DEF Manage, ManageUnquoted, ManageHold, ManageExit, HardFlat,
     HardFlatRaises, CloseRaises, OpenIds, store
<1>3. ASSUME rows' = Repaired  PROVE OpenIds' \subseteq OpenIds
  BY <1>3, RepairedType DEF OpenIds, TypeInv
<1>4. CASE PurgeOnRead
  BY <1>4 DEF PurgeOnRead, OpenIds, NoRow
<1>5. CASE UNCHANGED rows
  BY <1>5 DEF OpenIds
<1> QED
  BY <1>2, <1>3, <1>4, <1>5
  DEF Next, Scan, Tick, RefreshStart, ScanStart, NoScan, ScanEnd,
     SkipCandidate,
      EnterRaises, Crash, Restart, RestartLoadRaises, vars, store

LEMMA CapStep ==
  ASSUME ConstantsAssumption, TypeInv, StoreInv, CapOnStore, [Next]_vars
  PROVE  CapOnStore'
<1>0. IsFiniteSet(OpenIds) /\ Cardinality(OpenIds) \in Nat /\ MaxConcurrent \in Nat
  BY HeldIsFinite, FS_CardinalityType DEF ConstantsAssumption
<1>1. CASE OpenIds' \subseteq OpenIds
  <2>1. Cardinality(OpenIds') <= Cardinality(OpenIds) /\ Cardinality(OpenIds') \in Nat
    BY <1>0, <1>1, FS_Subset, FS_CardinalityType
  <2> QED
    BY <1>0, <2>1 DEF CapOnStore
<1>2. ASSUME NEW s \in Symbols, NEW p \in Premiums, Enter(s, p)
      PROVE  CapOnStore'
  <2>1. PICK i \in Ids : rows' = [rows EXCEPT ![i] = EntryRow(s, p)]
    BY <1>2 DEF Enter
  <2>2. OpenIds' \subseteq OpenIds \union {i}
    <3>1. \A j \in Ids : j # i => rows'[j] = rows[j]
      BY <2>1 DEF TypeInv, TypeOK
    <3> QED
      BY <3>1 DEF OpenIds
  <2>3. Cardinality(OpenIds) < MaxConcurrent
    <3>1. pc # "down" /\ Cardinality(Held) < MaxConcurrent
      BY <1>2 DEF Enter
    <3>2. Cardinality(Held) \in Nat
      BY HeldIsFinite, FS_CardinalityType
    <3> QED
      BY <1>0, <3>1, <3>2, NoMoreRowsThanHeld
  <2>4. /\ IsFiniteSet(OpenIds \union {i})
        /\ Cardinality(OpenIds \union {i}) \in Nat
        /\ Cardinality(OpenIds \union {i}) <= Cardinality(OpenIds) + 1
    <3>1. /\ IsFiniteSet(OpenIds \union {i})
          /\ Cardinality(OpenIds \union {i})
               = IF i \in OpenIds THEN Cardinality(OpenIds) ELSE Cardinality(OpenIds) + 1
      BY <1>0, FS_AddElement
    <3> QED
      BY <1>0, <3>1
  <2>5. Cardinality(OpenIds') <= Cardinality(OpenIds \union {i})
        /\ Cardinality(OpenIds') \in Nat
    BY <2>2, <2>4, FS_Subset, FS_CardinalityType
  <2> QED
    BY <1>0, <2>3, <2>4, <2>5 DEF CapOnStore
<1> QED
  BY <1>1, <1>2, OnlyEnterOpensRows

\* The database never holds more OPEN positions than MAX_CONCURRENT.
THEOREM CapHolds ==
  ASSUME ~LoadMayFail
  PROVE  Spec => []CapOnStore
<1>1. Init => CapOnStore
  <2> SUFFICES ASSUME Init PROVE CapOnStore
    OBVIOUS
  <2>1. OpenIds = {}
    BY DEF Init, OpenIds, NoRow
  <2> QED
    BY <2>1, FS_EmptySet, ConstantsAssumption DEF CapOnStore,
       ConstantsAssumption
<1>2. TypeInv /\ StoreInv /\ CapOnStore /\ [Next]_vars => CapOnStore'
  BY ConstantsAssumption, CapStep
<1> QED
  BY <1>1, <1>2, StoreInvariant, PTL DEF Spec

-----------------------------------------------------------------------------
(***************************************************************************)
(* What becomes of one trade, what is learned from it, and the ledger that *)
(* the table keeps.  But for the ledger, these theorems assume nothing     *)
(* about the restore: they hold also when it fails half-way.               *)
(***************************************************************************)

\* Outcomes are final.
Final == \A i \in Ids : rows[i].status = "CLOSED"
                        => rows'[i] = rows[i] \/ rows'[i] = NoRow

LEMMA CloseTouchesOneRow ==
  ASSUME TypeInv, NEW s \in Held, NEW exit, NEW reason,
         CloseScalp(open[s].id, exit, reason)
  PROVE  \A j \in Ids : j # open[s].id => rows'[j] = rows[j]
BY HeldFacts DEF TypeInv, TypeOK, CloseScalp

LEMMA FinalStep ==
  ASSUME TypeInv, [Next]_vars
  PROVE  Final
<1>1. ASSUME NEW s \in Symbols, NEW exit, NEW reason, Close(s, exit, reason),
             s \in Held
      PROVE  Final
  <2>1. rows[open[s].id].status # "CLOSED"
    BY <1>1, HeldFacts DEF TypeInv
  <2>2. \A j \in Ids : j # open[s].id => rows'[j] = rows[j]
    BY <1>1, CloseTouchesOneRow DEF Close
  <2> QED
    BY <2>1, <2>2 DEF Final
<1>2. ASSUME NEW s \in Symbols, Manage(s)  PROVE Final
  <2>1. s \in Held
    BY <1>2 DEF Manage, ManageUnquoted, ManageHold, ManageExit, HardFlat,
       HardFlatRaises, TypeInv, WorkerInv
  <2> QED
    BY <1>1, <1>2, <2>1 DEF Manage, ManageUnquoted, ManageHold, ManageExit,
       HardFlat, HardFlatRaises, CloseRaises, Final, store
<1>3. ASSUME NEW s \in Symbols, NEW p \in Premiums, Enter(s, p)  PROVE Final
  <2>1. PICK i \in Ids : IsNextId(i) /\ rows' = [rows EXCEPT ![i] = EntryRow(s, p)]
    BY <1>3 DEF Enter
  <2>2. rows[i].status # "CLOSED"
    BY <2>1 DEF IsNextId, Ids, NoRow
  <2>3. \A j \in Ids : j # i => rows'[j] = rows[j]
    BY <2>1 DEF TypeInv, TypeOK
  <2> QED
    BY <2>2, <2>3 DEF Final
<1>4. ASSUME rows' = Repaired  PROVE Final
  BY <1>4 DEF Repaired, Stale, Final
<1>5. CASE PurgeOnRead
  BY <1>5 DEF PurgeOnRead, Final
<1>6. CASE UNCHANGED rows
  BY <1>6 DEF Final
<1> QED
  BY <1>2, <1>3, <1>4, <1>5, <1>6
  DEF Next, Scan, Tick, RefreshStart, ScanStart, NoScan, ScanEnd,
     SkipCandidate,
      EnterRaises, Crash, Restart, RestartLoadRaises, vars, store

\* A recorded outcome is never rewritten; it can only be purged.
THEOREM OutcomesAreFinal == Spec => OutcomeIsFinal
<1>1. Init => TypeInv
  BY ConstantsAssumption, TypeInvInit
<1>2. TypeInv /\ [Next]_vars => TypeInv'
  BY ConstantsAssumption, TypeInvStep
<1>3. TypeInv /\ [Next]_vars => [\A i \in Ids : rows[i].status = "CLOSED"
                    => rows'[i] = rows[i] \/ rows'[i] = NoRow]_rows
  BY FinalStep DEF Final
<1> QED
  BY <1>1, <1>2, <1>3, PTL DEF Spec, OutcomeIsFinal

-----------------------------------------------------------------------------
(***************************************************************************)
(* Nothing is entered from 15:15 on.                                       *)
(***************************************************************************)

\* A scan only runs for a refresh that started in the entry window, and at
\* most one boundary has passed since.
ScanIsYoung ==
  /\ pc \in {"manage", "scan"} => \/ rday = day /\ phase \in {rphase, rphase + 1}
                                  \/ rday + 1 = day /\ rphase = 5 /\ phase = 0
  /\ pc = "scan" => rphase = EntryPhase

EntriesEarly == ScanIsYoung /\ NoEntryAfterHardFlat

LEMMA EntriesEarlyStep ==
  ASSUME ConstantsAssumption, TypeInv, EntriesEarly, [Next]_vars
  PROVE  EntriesEarly'
<1>1. ScanIsYoung'
  <2>1. CASE UNCHANGED vars
    BY <2>1 DEF vars, clock, worker, EntriesEarly, ScanIsYoung
  <2>2. CASE Tick
    BY <2>2 DEF Tick, OneBoundaryPerRefresh, worker, EntriesEarly, ScanIsYoung,
       TypeInv, TypeOK, Days, Phases, EntryPhase
  <2>3. CASE RefreshStart \/ NoScan \/ ScanEnd \/ ScanStart \/ Crash
    BY <2>3 DEF RefreshStart, NoScan, ScanEnd, ScanStart, Crash,
       RefreshAborted,
       ScanAllowed, clock, EntriesEarly, ScanIsYoung
  <2>4. CASE Restart \/ RestartLoadRaises \/ PurgeOnRead
    BY <2>4 DEF Restart, RestartLoadRaises, PurgeOnRead, clock, worker,
       EntriesEarly, ScanIsYoung
  <2>5. ASSUME NEW s \in Symbols, Manage(s) \/ Scan(s)  PROVE ScanIsYoung'
    BY <2>5 DEF Manage, Scan, ManageUnquoted, ManageHold, ManageExit, HardFlat,
       HardFlatRaises, Close, CloseRaises, SkipCandidate, Enter, EnterRaises,
       RefreshAborted, clock, EntriesEarly, ScanIsYoung
  <2> QED
    BY <2>1, <2>2, <2>3, <2>4, <2>5 DEF Next
<1>2. NoEntryAfterHardFlat'
  <2> DEFINE SameEntry(i) == rows'[i] = NoRow \/ (rows[i] # NoRow /\ rows'[i].at = rows[i].at)
  <2>1. ASSUME \A i \in Ids : SameEntry(i)  PROVE NoEntryAfterHardFlat'
    BY <2>1 DEF NoEntryAfterHardFlat, EntriesEarly
  <2>2. ASSUME NEW s \in Symbols, NEW p \in Premiums, Enter(s, p)
        PROVE  NoEntryAfterHardFlat'
    <3>1. PICK i \in Ids : rows' = [rows EXCEPT ![i] = EntryRow(s, p)]
      BY <2>2 DEF Enter
    <3>2. phase < HardFlatPhase
      BY <2>2 DEF Enter, EntriesEarly, ScanIsYoung, EntryPhase, HardFlatPhase
    <3>3. rows'[i].at < HardFlatPhase /\ \A j \in Ids : j # i => rows'[j] = rows[j]
      BY <3>1, <3>2 DEF EntryRow, TypeInv, TypeOK
    <3> QED
      BY <3>3 DEF NoEntryAfterHardFlat, EntriesEarly
  <2>3. ASSUME NEW s \in Symbols, NEW exit \in {"NULL", "QUOTE"},
               NEW reason \in Reasons, Close(s, exit, reason), s \in Held
        PROVE  \A i \in Ids : SameEntry(i)
    <3> DEFINE k == open[s].id
    <3>1. k \in Ids /\ rows[k] \in Row /\ rows[k] # NoRow
      BY <2>3, HeldFacts DEF TypeInv, NoRow
    <3>2. rows' = [rows EXCEPT ![k] = Closed(rows[k], exit, reason)]
      BY <2>3 DEF Close, CloseScalp
    <3>3. rows'[k] = Closed(rows[k], exit, reason)
      BY <3>1, <3>2 DEF TypeInv, TypeOK
    <3>4. Closed(rows[k], exit, reason).at = rows[k].at
      BY <3>1 DEF Closed, Row
    <3>5. \A j \in Ids : j # k => rows'[j] = rows[j]
      BY <3>2 DEF TypeInv, TypeOK
    <3> QED
      BY <3>1, <3>3, <3>4, <3>5
  <2>4. ASSUME NEW s \in Symbols, Manage(s)  PROVE \A i \in Ids : SameEntry(i)
    <3>1. s \in Held
      BY <2>4 DEF Manage, ManageUnquoted, ManageHold, ManageExit, HardFlat,
         HardFlatRaises, TypeInv, WorkerInv
    <3>2. CASE UNCHANGED rows
      BY <3>2
    <3>3. CASE \E exit \in {"NULL", "QUOTE"}, reason \in Reasons : Close(s, exit, reason)
      BY <2>3, <3>1, <3>3
    <3> QED
      BY <2>4, <3>2, <3>3, ExitReasonType DEF Manage, ManageUnquoted,
         ManageHold,
         ManageExit, HardFlat, HardFlatRaises, CloseRaises, store, Reasons
  <2>5. ASSUME rows' = Repaired  PROVE \A i \in Ids : SameEntry(i)
    <3> SUFFICES ASSUME NEW i \in Ids PROVE SameEntry(i)
      OBVIOUS
    <3>1. CASE Stale(rows[i])
      <4>1. rows[i] \in Row /\ rows[i] # NoRow
        BY <3>1, RowFacts DEF Stale, TypeInv, NoRow
      <4>2. rows'[i] = Closed(rows[i], "NULL", "SESSION_ROLLOVER_UNPRICED")
        BY <2>5, <3>1 DEF Repaired
      <4> QED
        BY <4>1, <4>2 DEF Closed, Row
    <3>2. CASE ~Stale(rows[i])
      BY <2>5, <3>2 DEF Repaired
    <3> QED
      BY <3>1, <3>2
  <2>6. CASE PurgeOnRead
    <3>1. \A i \in Ids : SameEntry(i)
      BY <2>6 DEF PurgeOnRead
    <3> QED
      BY <2>1, <3>1
  <2>7. CASE UNCHANGED rows
    BY <2>7 DEF NoEntryAfterHardFlat, EntriesEarly
  <2> HIDE DEF SameEntry
  <2> QED
    BY <2>1, <2>2, <2>4, <2>5, <2>6, <2>7
    DEF Next, Scan, Tick, RefreshStart, ScanStart, NoScan, ScanEnd,
       SkipCandidate,
        EnterRaises, Crash, Restart, RestartLoadRaises, vars, store
<1> QED
  BY <1>1, <1>2 DEF EntriesEarly

\* No position is entered from 15:15 on, although the clock is read before
\* the scan and not again.
THEOREM EntriesBeforeHardFlat == Spec => []NoEntryAfterHardFlat
<1>1. Init => TypeInv /\ EntriesEarly
  BY ConstantsAssumption, TypeInvInit
  DEF Init, EntriesEarly, ScanIsYoung, NoEntryAfterHardFlat
<1>2. TypeInv /\ EntriesEarly /\ [Next]_vars => (TypeInv /\ EntriesEarly)'
  BY ConstantsAssumption, TypeInvStep, EntriesEarlyStep
<1>3. EntriesEarly => NoEntryAfterHardFlat
  BY DEF EntriesEarly
<1> QED
  BY <1>1, <1>2, <1>3, PTL DEF Spec

-----------------------------------------------------------------------------
(***************************************************************************)
(* Trades and what is recorded of them.                                    *)
(***************************************************************************)

\* A trade has one row, and was entered.
TradesApart ==
  /\ \A i, j \in Ids : /\ rows[i] # NoRow /\ rows[j] # NoRow
                       /\ rows[i].trade = rows[j].trade
                       => i = j
  /\ \A i \in Ids : rows[i] # NoRow => rows[i].trade <= entries

\* The engine never remembers more weak looks than it was shown: a restart
\* forgets some, nothing adds any.
WeakCounted ==
  \A s \in Held : open[s].weak <= weakRun[rows[open[s].id].trade]

\* An exit reason is only written when the row is closed.
OpenUnexplained ==
  \A i \in Ids : rows[i].status = "OPEN" => rows[i].reason = "none"

WeakInv == TradesApart /\ OpenUnexplained /\ WeakCounted /\ WeakExitJustified

\* What a step does to the rows, as far as the trades are concerned.
SameTrades ==
  \A i \in Ids : rows'[i] = NoRow \/ (rows[i] # NoRow /\ rows'[i].trade = rows[i].trade)

LEMMA SameTradesApart ==
  ASSUME TradesApart, SameTrades, UNCHANGED entries
  PROVE  TradesApart'
BY DEF TradesApart, SameTrades

LEMMA CloseSameTrades ==
  ASSUME TypeInv, NEW s \in Held, NEW exit \in {"NULL", "QUOTE"},
         NEW reason \in Reasons, CloseScalp(open[s].id, exit, reason)
  PROVE  /\ SameTrades
         /\ rows'[open[s].id].reason = reason
         /\ rows'[open[s].id].trade = rows[open[s].id].trade
         /\ rows'[open[s].id].status = "CLOSED"
         /\ rows'[open[s].id].exit = exit
<1> DEFINE k == open[s].id
<1>1. k \in Ids /\ rows[k] \in Row /\ rows[k] # NoRow
  BY HeldFacts DEF TypeInv, NoRow
<1>2. rows'[k] = Closed(rows[k], exit, reason)
  BY <1>1 DEF TypeInv, TypeOK, CloseScalp
<1>3. \A j \in Ids : j # k => rows'[j] = rows[j]
  BY CloseTouchesOneRow
<1>4. /\ Closed(rows[k], exit, reason).trade = rows[k].trade
      /\ Closed(rows[k], exit, reason).reason = reason
      /\ Closed(rows[k], exit, reason).status = "CLOSED"
      /\ Closed(rows[k], exit, reason).exit = exit
  BY <1>1 DEF Closed, Row
<1> QED
  BY <1>1, <1>2, <1>3, <1>4 DEF SameTrades

LEMMA RepairedSameTrades ==
  ASSUME TypeInv, rows' = Repaired
  PROVE  /\ SameTrades
         /\ \A i \in Ids : \/ rows'[i] = rows[i]
                           \/ /\ rows'[i].reason = "SESSION_ROLLOVER_UNPRICED"
                              /\ rows'[i].status = "CLOSED"
<1> SUFFICES ASSUME NEW i \in Ids
             PROVE  /\ rows'[i] = NoRow \/ (rows[i] # NoRow /\ rows'[i].trade = rows[i].trade)
                    /\ \/ rows'[i] = rows[i]
                       \/ /\ rows'[i].reason = "SESSION_ROLLOVER_UNPRICED"
                          /\ rows'[i].status = "CLOSED"
  BY DEF SameTrades
<1>1. CASE Stale(rows[i])
  <2>1. rows[i] \in Row /\ rows[i] # NoRow
    BY <1>1, RowFacts DEF Stale, TypeInv, NoRow
  <2>2. rows'[i] = Closed(rows[i], "NULL", "SESSION_ROLLOVER_UNPRICED")
    BY <1>1 DEF Repaired
  <2> QED
    BY <1>1, <2>1, <2>2 DEF Closed, Row, Stale
<1>2. CASE ~Stale(rows[i])
  BY <1>2 DEF Repaired
<1> QED
  BY <1>1, <1>2

\* One look: the engine's count and the history move together, and a
\* weak exit has two weak looks to show.
LEMMA LookCounts ==
  ASSUME TypeInv, WeakInv, ConstantsAssumption, NEW s \in Held,
         NEW ctx \in Contexts, NEW q \in Premiums, Looked(s, ctx, q)
  PROVE  LET t == rows[open[s].id].trade
         IN  /\ PositionAfter(open[s], ctx, q).weak <= weakRun'[t]
             /\ ExitReason(open[s], ctx, q) = "MOMENTUM_WEAK" => weakRun'[t] >= 2
             /\ \A u \in Trades : u # t => weakRun'[u] = weakRun[u]
<1> DEFINE t == rows[open[s].id].trade
           pos == open[s]
           after == PositionAfter(pos, ctx, q)
<1>1. /\ t \in Trades /\ pos \in Position /\ pos.weak \in 0 .. 2
      /\ weakRun[t] \in 0 .. 2 /\ pos.weak <= weakRun[t]
  BY HeldFacts DEF Row, Position, TypeInv, TypeOK, WeakInv, WeakCounted
<1>2. CASE StopHit(pos.entry, q)
  <2>1. weakRun' = weakRun /\ after = pos
    BY <1>2 DEF Looked, PositionAfter
  <2>2. ExitReason(pos, ctx, q) # "MOMENTUM_WEAK"
    BY <1>2 DEF ExitReason
  <2> QED
    BY <1>1, <2>1, <2>2
<1>3. CASE ~StopHit(pos.entry, q)
  <2>1. weakRun' = [weakRun EXCEPT ![t] = WeakRunAfter(t, ctx)]
    BY <1>3 DEF Looked
  <2>2. weakRun'[t] = WeakRunAfter(t, ctx) /\ \A u \in Trades : u # t => weakRun'[u] = weakRun[u]
    BY <1>1, <2>1 DEF TypeInv, TypeOK
  <2>3. after.weak = WeakAfter(pos, ctx)
    BY <1>3 DEF PositionAfter
  <2>4. WeakAfter(pos, ctx) <= WeakRunAfter(t, ctx) /\ WeakRunAfter(t, ctx) \in 0 .. 2
        /\ WeakAfter(pos, ctx) \in 0 .. 2
    BY <1>1 DEF WeakAfter, WeakRunAfter, UpToTwo, Contexts
  <2>5. ExitReason(pos, ctx, q) = "MOMENTUM_WEAK" => after.weak >= 2
    <3>1. ASSUME ~(after.weak >= 2)  PROVE ExitReason(pos, ctx, q) # "MOMENTUM_WEAK"
      <4> HIDE DEF after, pos
      <4>1. CASE /\ ctx = "none" \/ after.weak < 2
                 /\ after.armed /\ DrawdownHit(after, q) /\ after.weak >= 1
        BY <1>3, <3>1, <4>1 DEF ExitReason, after
      <4>2. CASE ~(/\ ctx = "none" \/ after.weak < 2
                   /\ after.armed /\ DrawdownHit(after, q) /\ after.weak >= 1)
        BY <1>3, <3>1, <4>2 DEF ExitReason, after
      <4> QED
        BY <4>1, <4>2
    <3> QED
      BY <3>1
  <2> QED
    BY <2>2, <2>3, <2>4, <2>5
<1> QED
  BY <1>2, <1>3

\* Steps at which neither the looks nor the positions matter.
LEMMA WeakUntouched ==
  ASSUME TypeInv, WeakInv, SameTrades, UNCHANGED <<entries, weakRun>>,
         \A i \in Ids : \/ rows'[i] = rows[i] \/ rows'[i] = NoRow
                        \/ /\ rows'[i].status = "CLOSED"
                           /\ rows'[i].reason # "MOMENTUM_WEAK",
         MemoryInStore',
         \A s \in Held' : \/ open'[s].weak = 0
                          \/ s \in Held /\ open'[s] = open[s],
         open' \in [Symbols -> Position \union {NotHeld}],
         rows' \in [Ids -> Row \union {NoRow}]
  PROVE  WeakInv'
<1>1. TradesApart'
  BY SameTradesApart DEF WeakInv
<1>2. WeakExitJustified' /\ OpenUnexplained'
  BY DEF WeakInv, WeakExitJustified, OpenUnexplained, NoRow
<1>3. WeakCounted'
  <2> SUFFICES ASSUME NEW s \in Held'
               PROVE  open'[s].weak <= weakRun[rows'[open'[s].id].trade]
    BY DEF WeakCounted
  <2>1. open'[s] \in Position /\ open'[s].id \in Ids
    BY DEF Held, Position
  <2>2. rows'[open'[s].id] \in Row /\ rows'[open'[s].id] # NoRow
    BY <2>1 DEF MemoryInStore, NoRow
  <2>3. CASE open'[s].weak = 0
    BY <2>2, <2>3 DEF Row, TypeInv, TypeOK
  <2>4. CASE s \in Held /\ open'[s] = open[s]
    BY <2>1, <2>2, <2>4 DEF SameTrades, WeakInv, WeakCounted
  <2> QED
    BY <2>3, <2>4
<1> QED
  BY <1>1, <1>2, <1>3 DEF WeakInv

\* A look that leaves the position in place, changed or not.
LEMMA WeakAfterHold ==
  ASSUME TypeInv, WeakInv, ConstantsAssumption, NEW s \in Held,
         NEW ctx \in Contexts, NEW q \in Premiums, Looked(s, ctx, q),
         open' = [open EXCEPT ![s] = PositionAfter(open[s], ctx, q)],
         UNCHANGED <<rows, entries>>
  PROVE  WeakInv'
<1> DEFINE pos == PositionAfter(open[s], ctx, q)
           t == rows[open[s].id].trade
<1>1. pos \in Position /\ pos.id = open[s].id /\ pos.entry = open[s].entry
  <2>1. open[s] \in Position
    BY HeldFacts DEF TypeInv
  <2> QED
    BY <2>1, PositionAfterType
<1> HIDE DEF pos
<1>2. Held' = Held /\ s \in Symbols /\ open'[s] = pos
      /\ \A u \in Held \ {s} : open'[u] = open[u]
  <2>1. open' = [open EXCEPT ![s] = pos]
    BY DEF pos
  <2>2. Held' = Held
    BY <1>1, <2>1, PositionMoved DEF TypeInv
  <2> QED
    BY <2>1, <2>2 DEF TypeInv, TypeOK, Held
<1>3. TradesApart'
  BY DEF WeakInv, TradesApart
<1>4. ASSUME NEW i \in Ids, rows[i] # NoRow, i # open[s].id
      PROVE  weakRun'[rows[i].trade] = weakRun[rows[i].trade]
  <2>1. rows[i].trade \in Trades
    BY <1>4 DEF TypeInv, TypeOK, Row
  <2>2. rows[i].trade # t
    <3>1. open[s].id \in Ids /\ rows[open[s].id] # NoRow
      BY HeldFacts DEF TypeInv, NoRow
    <3> QED
      BY <1>4, <3>1 DEF WeakInv, TradesApart
  <2> QED
    BY <2>1, <2>2, LookCounts
<1>5. WeakCounted'
  <2>1. ASSUME NEW u \in Held \ {s}
        PROVE  open[u].weak <= weakRun'[rows[open[u].id].trade]
    <3>1. open[u].id \in Ids /\ rows[open[u].id] # NoRow /\ open[u].id # open[s].id
      BY HeldFacts DEF TypeInv, NoRow
    <3> QED
      BY <1>4, <3>1 DEF WeakInv, WeakCounted
  <2>2. pos.weak <= weakRun'[rows[open[s].id].trade]
    BY LookCounts DEF pos
  <2> QED
    BY <1>1, <1>2, <2>1, <2>2 DEF WeakCounted
<1>6. WeakExitJustified'
  <2> SUFFICES ASSUME NEW i \in Ids, rows[i] # NoRow, rows[i].reason = "MOMENTUM_WEAK"
               PROVE  weakRun'[rows[i].trade] >= 2
    BY DEF WeakExitJustified
  <2>1. CASE i = open[s].id
    BY <2>1, HeldFacts DEF WeakInv, OpenUnexplained, TypeInv
  <2>2. CASE i # open[s].id
    BY <1>4, <2>2 DEF WeakInv, WeakExitJustified
  <2> QED
    BY <2>1, <2>2
<1>7. OpenUnexplained'
  BY DEF WeakInv, OpenUnexplained
<1> QED
  BY <1>3, <1>5, <1>6, <1>7 DEF WeakInv

LEMMA WeakAfterClose ==
  ASSUME TypeInv, WeakInv, ConstantsAssumption, NEW s \in Held,
         NEW exit \in {"NULL", "QUOTE"}, NEW reason \in Reasons,
         CloseScalp(open[s].id, exit, reason),
         open' = [open EXCEPT ![s] = NotHeld], UNCHANGED entries,
         weakRun' \in [Trades -> 0 .. 2],
         \A u \in Trades : u # rows[open[s].id].trade => weakRun'[u] = weakRun[u],
         reason = "MOMENTUM_WEAK" => weakRun'[rows[open[s].id].trade] >= 2
  PROVE  WeakInv'
<1> DEFINE k == open[s].id
           t == rows[k].trade
<1>1. /\ SameTrades /\ rows'[k].reason = reason /\ rows'[k].trade = t
      /\ rows'[k].status = "CLOSED"
  BY CloseSameTrades
<1>2. \A j \in Ids : j # k => rows'[j] = rows[j]
  BY CloseTouchesOneRow
<1>3. /\ Held' = Held \ {s} /\ k \in Ids /\ rows[k] # NoRow
      /\ \A u \in Held \ {s} : open'[u] = open[u]
  <2>1. Held' = Held \ {s}
    BY PositionClosed DEF TypeInv
  <2>2. k \in Ids /\ rows[k] # NoRow
    BY HeldFacts DEF TypeInv, NoRow
  <2> QED
    BY <2>1, <2>2 DEF TypeInv, TypeOK, Held
<1>4. ASSUME NEW i \in Ids, rows[i] # NoRow, i # k
      PROVE  weakRun'[rows[i].trade] = weakRun[rows[i].trade]
  <2>1. rows[i].trade \in Trades
    BY <1>4 DEF TypeInv, TypeOK, Row
  <2>2. rows[i].trade # t
    BY <1>3, <1>4 DEF WeakInv, TradesApart
  <2> QED
    BY <2>1, <2>2
<1>5. TradesApart'
  BY <1>1, SameTradesApart DEF WeakInv
<1>6. WeakCounted'
  <2> SUFFICES ASSUME NEW u \in Held \ {s}
               PROVE  open'[u].weak <= weakRun'[rows'[open'[u].id].trade]
    BY <1>3 DEF WeakCounted
  <2>1. open[u].id \in Ids /\ rows[open[u].id] # NoRow /\ open[u].id # k
    BY HeldFacts DEF TypeInv, NoRow
  <2> QED
    BY <1>2, <1>3, <1>4, <2>1 DEF WeakInv, WeakCounted
<1>7. WeakExitJustified'
  <2> SUFFICES ASSUME NEW i \in Ids, rows'[i] # NoRow, rows'[i].reason = "MOMENTUM_WEAK"
               PROVE  weakRun'[rows'[i].trade] >= 2
    BY DEF WeakExitJustified
  <2>1. CASE i = k
    BY <1>1, <2>1
  <2>2. CASE i # k
    BY <1>2, <1>4, <2>2 DEF WeakInv, WeakExitJustified
  <2> QED
    BY <2>1, <2>2
<1>8. OpenUnexplained'
  BY <1>1, <1>2 DEF WeakInv, OpenUnexplained
<1> QED
  BY <1>5, <1>6, <1>7, <1>8 DEF WeakInv

LEMMA WeakAfterEnter ==
  ASSUME TypeInv, TypeInv', WeakInv, ConstantsAssumption, NEW s \in Symbols,
         NEW p \in Premiums, Enter(s, p)
  PROVE  WeakInv'
<1>1. PICK i \in Ids : /\ IsNextId(i)
                       /\ rows' = [rows EXCEPT ![i] = EntryRow(s, p)]
                       /\ open' = [open EXCEPT ![s] = FreshPosition(i, p)]
  BY DEF Enter
<1>2. /\ rows'[i] = EntryRow(s, p) /\ open'[s] = FreshPosition(i, p)
      /\ \A j \in Ids \ {i} : rows'[j] = rows[j]
      /\ \A u \in Symbols \ {s} : open'[u] = open[u]
  BY <1>1 DEF TypeInv, TypeOK
<1>3. /\ rows'[i].trade = entries + 1 /\ rows'[i].reason = "none"
      /\ open'[s].weak = 0 /\ open'[s].id = i
  BY <1>2 DEF EntryRow, FreshPosition
<1>4. entries' = entries + 1 /\ weakRun' = weakRun /\ entries \in Nat
  BY DEF Enter, TypeInv, TypeOK
<1>5. \A j \in Ids \ {i} : rows[j] # NoRow =>
        rows[j].trade <= entries /\ rows[j].trade \in Nat
  BY DEF WeakInv, TradesApart, TypeInv, TypeOK, Row, Trades
<1>6. TradesApart'
  BY <1>2, <1>3, <1>4, <1>5 DEF TradesApart, WeakInv
<1>7. WeakExitJustified' /\ OpenUnexplained'
  BY <1>2, <1>3, <1>4 DEF WeakExitJustified, OpenUnexplained, WeakInv
<1>8. WeakCounted'
  <2> SUFFICES ASSUME NEW u \in Held'
               PROVE  open'[u].weak <= weakRun'[rows'[open'[u].id].trade]
    BY DEF WeakCounted
  <2>1. CASE u = s
    <3>1. entries + 1 \in Trades
      BY DEF Enter, TypeInv, TypeOK, Trades, ConstantsAssumption
    <3> QED
      BY <1>3, <1>4, <2>1, <3>1 DEF TypeInv, TypeOK
  <2>2. CASE u # s
    <3>1. u \in Held /\ open'[u] = open[u]
      BY <1>2, <2>2 DEF Held
    <3>2. open[u].id \in Ids /\ open[u].id # i
      <4>1. open[u].id \in Ids /\ rows[open[u].id] # NoRow
        BY <3>1, HeldFacts DEF TypeInv, NoRow
      <4> QED
        BY <1>1, <4>1 DEF IsNextId, Ids
    <3> QED
      BY <1>2, <1>4, <3>1, <3>2 DEF WeakInv, WeakCounted
  <2> QED
    BY <2>1, <2>2
<1> QED
  BY <1>6, <1>7, <1>8 DEF WeakInv

LEMMA WeakInvStep ==
  ASSUME ConstantsAssumption, TypeInv, TypeInv', WeakInv, [Next]_vars
  PROVE  WeakInv'
<1>0. /\ MemoryInStore' /\ open' \in [Symbols -> Position \union {NotHeld}]
      /\ rows' \in [Ids -> Row \union {NoRow}]
      /\ weakRun' \in [Trades -> 0 .. 2]
  BY DEF TypeInv, TypeOK
<1>1. CASE UNCHANGED <<rows, open, entries, weakRun>>
  BY <1>1 DEF WeakInv, TradesApart, OpenUnexplained, WeakCounted,
     WeakExitJustified, Held
<1>2. CASE \/ UNCHANGED vars \/ Tick \/ RefreshStart \/ ScanStart \/ NoScan \/ ScanEnd
  BY <1>1, <1>2 DEF vars, store, Tick, RefreshStart, ScanStart, NoScan, ScanEnd
<1>3. ASSUME NEW s \in Symbols, ManageUnquoted(s) \/ SkipCandidate(s) \/ EnterRaises(s)
      PROVE  WeakInv'
  BY <1>1, <1>3 DEF store, ManageUnquoted, SkipCandidate, EnterRaises
<1>4. ASSUME NEW s \in Symbols, NEW ctx \in Contexts, NEW q \in Premiums,
             ManageHold(s, ctx, q)
      PROVE  WeakInv'
  <2>1. s \in Held
    BY <1>4 DEF ManageHold, TypeInv, WorkerInv
  <2> QED
    BY <1>4, <2>1, WeakAfterHold DEF ManageHold, store
<1>5. ASSUME NEW s \in Symbols, NEW ctx \in Contexts, NEW q \in Premiums,
             ManageExit(s, ctx, q)
      PROVE  WeakInv'
  <2> DEFINE reason == ExitReason(open[s], ctx, q)
  <2>1. s \in Held /\ Looked(s, ctx, q) /\ UNCHANGED entries
    BY <1>5 DEF ManageExit, TypeInv, WorkerInv
  <2>2. CASE Close(s, "QUOTE", reason)
    <3>1. reason \in Reasons
      BY ExitReasonType
    <3>2. /\ reason = "MOMENTUM_WEAK" => weakRun'[rows[open[s].id].trade] >= 2
          /\ \A u \in Trades : u # rows[open[s].id].trade => weakRun'[u] = weakRun[u]
      BY <2>1, LookCounts
    <3> HIDE DEF reason
    <3> QED
      BY <1>0, <2>1, <2>2, <3>1, <3>2, WeakAfterClose DEF Close
  <2>3. CASE CloseRaises(s, PositionAfter(open[s], ctx, q))
    BY <2>1, <2>3, WeakAfterHold DEF CloseRaises, store
  <2> QED
    BY <1>5, <2>2, <2>3 DEF ManageExit
<1>6. ASSUME NEW s \in Symbols, NEW exit \in {"NULL", "QUOTE"}, HardFlat(s, exit)
      PROVE  WeakInv'
  <2>1. s \in Held /\ UNCHANGED <<entries, weakRun>> /\ Close(s, exit, "CLOCK")
    BY <1>6 DEF HardFlat, TypeInv, WorkerInv
  <2>2. "CLOCK" \in Reasons
    BY DEF Reasons
  <2> QED
    BY <1>0, <2>1, <2>2, WeakAfterClose DEF Close
<1>7. ASSUME NEW s \in Symbols, HardFlatRaises(s)  PROVE WeakInv'
  <2>1. open' = [open EXCEPT ![s] = open[s]] /\ UNCHANGED <<rows, entries, weakRun>>
    BY <1>7 DEF HardFlatRaises, CloseRaises, store
  <2>2. open' = open
    BY <2>1 DEF TypeInv, TypeOK
  <2> QED
    BY <1>1, <2>1, <2>2
<1>8. ASSUME NEW s \in Symbols, NEW p \in Premiums, Enter(s, p)  PROVE WeakInv'
  BY <1>8, WeakAfterEnter
<1>9. CASE Crash
  <2>1. Held' = {} /\ UNCHANGED <<rows, entries, weakRun>>
    BY <1>9 DEF Crash, Held, store
  <2> QED
    BY <2>1 DEF WeakInv, TradesApart, OpenUnexplained, WeakCounted,
       WeakExitJustified
<1>10. ASSUME rows' = Repaired, UNCHANGED <<entries, weakRun>>,
              \A s \in Held' : open'[s] = Loaded(Repaired, s)
       PROVE  WeakInv'
  <2>1. ASSUME NEW s \in Held'  PROVE open'[s].weak = 0
    <3>1. Loaded(Repaired, s) # NotHeld /\ open'[s] = Loaded(Repaired, s)
      BY <1>10 DEF Held
    <3>2. PICK i, p : Loaded(Repaired, s) = FreshPosition(i, p)
      BY <3>1 DEF Loaded
    <3> QED
      BY <3>1, <3>2 DEF FreshPosition
  <2>2. /\ SameTrades
        /\ \A i \in Ids : \/ rows'[i] = rows[i]
                          \/ /\ rows'[i].reason = "SESSION_ROLLOVER_UNPRICED"
                             /\ rows'[i].status = "CLOSED"
    BY <1>10, RepairedSameTrades
  <2>3. \A i \in Ids : \/ rows'[i] = rows[i] \/ rows'[i] = NoRow
                       \/ /\ rows'[i].status = "CLOSED"
                          /\ rows'[i].reason # "MOMENTUM_WEAK"
    BY <2>2
  <2>4. SameTrades /\ UNCHANGED <<entries, weakRun>>
    BY <1>10, <2>2
  <2>5. \A s \in Held' : \/ open'[s].weak = 0
                         \/ s \in Held /\ open'[s] = open[s]
    BY <2>1
  <2> QED
    BY <1>0, <2>3, <2>4, <2>5, WeakUntouched
<1>11. CASE Restart
  BY <1>10, <1>11 DEF Restart, Held
<1>12. CASE RestartLoadRaises
  BY <1>10, <1>12 DEF RestartLoadRaises, Held
<1>13. CASE PurgeOnRead
  <2>1. /\ SameTrades /\ UNCHANGED <<entries, weakRun, open>>
        /\ \A i \in Ids : rows'[i] = rows[i] \/ rows'[i] = NoRow
    BY <1>13 DEF PurgeOnRead, SameTrades
  <2>2. Held' = Held
    BY <2>1 DEF Held
  <2> QED
    BY <1>0, <2>1, <2>2, WeakUntouched
<1> QED
  BY <1>2, <1>3, <1>4, <1>5, <1>6, <1>7, <1>8, <1>9, <1>11, <1>12, <1>13
  DEF Next, Manage, Scan

LEMMA TradesInit == Init => TypeInv /\ WeakInv
<1> SUFFICES ASSUME Init PROVE TypeInv /\ WeakInv
  OBVIOUS
<1>1. TypeInv
  BY ConstantsAssumption, TypeInvInit
<1> QED
  BY <1>1 DEF Init, WeakInv, TradesApart, OpenUnexplained, WeakCounted,
     WeakExitJustified, Held, NoRow

\* A position closed for weak momentum was shown weak at least twice with no
\* strong look between, whatever restarts and failed closes intervened.
THEOREM WeakExitsAreJustified == Spec => []WeakExitJustified
<1>1. Init => TypeInv /\ WeakInv
  BY TradesInit
<1>2. TypeInv /\ WeakInv /\ [Next]_vars => (TypeInv /\ WeakInv)'
  BY ConstantsAssumption, TypeInvStep, WeakInvStep
<1>3. WeakInv => WeakExitJustified
  BY DEF WeakInv
<1> QED
  BY <1>1, <1>2, <1>3, PTL DEF Spec

-----------------------------------------------------------------------------
(***************************************************************************)
(* What the engine learns from.                                            *)
(***************************************************************************)

\* Only trades that were entered are learned from.
SampleInv ==
  /\ LearnsQuotedExitsOnce
  /\ \A n \in DOMAIN samples : samples[n] <= entries

\* S is what is left of all without the first d.
Shifted(S, all, d) ==
  /\ S \in Seq(Trades)
  /\ d <= Len(all) /\ Len(S) = Len(all) - d
  /\ \A n \in 1 .. Len(S) : S[n] = all[n + d]

\* The samples are the last ones of the old samples and the new one.
LEMMA SampleAddedElements ==
  ASSUME ConstantsAssumption, samples \in Seq(Trades), NEW trade \in Trades
  PROVE  \E d \in Nat : Shifted(SampleAdded(trade), Append(samples, trade), d)
<1> DEFINE S == SampleAdded(trade)
           all == Append(samples, trade)
           len == Len(all)
<1> SUFFICES \E d \in Nat : Shifted(S, all, d)
  OBVIOUS
<1>1. all \in Seq(Trades) /\ len \in Nat /\ KeepSamples \in Nat \ {0}
  BY DEF ConstantsAssumption
<1>2. CASE len <= KeepSamples
  <2>1. S = all
    BY <1>2 DEF SampleAdded
  <2> HIDE DEF all, S
  <2>2. Shifted(S, all, 0)
    BY <1>1, <2>1 DEF len, Shifted
  <2> QED
    BY <2>2
<1>3. CASE len > KeepSamples
  <2> DEFINE d == len - KeepSamples
  <2>1. S = SubSeq(all, d + 1, len)
    BY <1>1, <1>3 DEF SampleAdded
  <2>2. d \in Nat /\ d <= len /\ len - d = KeepSamples
    BY <1>1, <1>3
  <2> HIDE DEF all, S, d
  <2>3. Shifted(S, all, d)
    BY <1>1, <2>1, <2>2 DEF len, Shifted
  <2> QED
    BY <2>2, <2>3
<1> HIDE DEF all, S
<1> QED
  BY <1>1, <1>2, <1>3 DEF len

\* What a step does to the rows, as far as the samples are concerned: it may
\* drop some, and an OPEN one may be closed.
RowsLearnable ==
  \A i \in Ids : \/ rows'[i] = NoRow \/ rows'[i] = rows[i]
                 \/ rows[i].status = "OPEN" /\ rows[i] # NoRow
                    /\ rows'[i].trade = rows[i].trade

LEMMA SamplesUntouched ==
  ASSUME SampleInv, RowsLearnable, UNCHANGED <<samples, entries>>
  PROVE  SampleInv'
<1>1. ASSUME NEW i \in Ids, NEW n \in DOMAIN samples,
             rows'[i] # NoRow, rows'[i].trade = samples[n]
      PROVE  rows'[i].status = "CLOSED" /\ rows'[i].exit = "QUOTE"
  <2>1. rows'[i] = rows[i]
    BY <1>1 DEF SampleInv, LearnsQuotedExitsOnce, RowsLearnable
  <2> QED
    BY <1>1, <2>1 DEF SampleInv, LearnsQuotedExitsOnce
<1> QED
  BY <1>1 DEF SampleInv, LearnsQuotedExitsOnce

LEMMA SamplesAfterQuotedClose ==
  ASSUME ConstantsAssumption, TypeInv, TradesApart, TradesApart', SampleInv,
         NEW s \in Held, NEW reason \in Reasons,
         CloseScalp(open[s].id, "QUOTE", reason), UNCHANGED entries
  PROVE  SampleInv'
<1> DEFINE k == open[s].id
           t == rows[k].trade
           all == Append(samples, t)
<1>1. /\ k \in Ids /\ rows[k] # NoRow /\ rows[k].status = "OPEN"
      /\ t \in Trades /\ t <= entries
  BY HeldFacts DEF TypeInv, NoRow, Row, TradesApart
<1>2. /\ rows'[k].trade = t /\ rows'[k].status = "CLOSED"
      /\ rows'[k].exit = "QUOTE" /\ rows'[k] # NoRow
  BY CloseSameTrades DEF NoRow
<1>3. \A j \in Ids : j # k => rows'[j] = rows[j]
  BY CloseTouchesOneRow
<1>4. samples \in Seq(Trades) /\ samples' = SampleAdded(t)
  BY DEF TypeInv, TypeOK, CloseScalp
<1>5. PICK d \in Nat : Shifted(samples', all, d)
  BY <1>1, <1>4, SampleAddedElements
<1> HIDE DEF k, t
<1>6. /\ Len(all) = Len(samples) + 1 /\ Len(samples) \in Nat
      /\ \A m \in 1 .. Len(samples) : all[m] = samples[m]
      /\ all[Len(samples) + 1] = t
  BY <1>1, <1>4
<1>7. \A m \in 1 .. Len(samples) : samples[m] # t /\ samples[m] <= entries
  BY <1>1, <1>4 DEF SampleInv, LearnsQuotedExitsOnce, k, t
<1>8. \A m, n \in 1 .. Len(samples) : m # n => samples[m] # samples[n]
  BY <1>4 DEF SampleInv, LearnsQuotedExitsOnce
<1>9. \A m, n \in 1 .. Len(all) : m # n => all[m] # all[n]
  <2> HIDE DEF all
  <2> QED  BY <1>6, <1>7, <1>8
<1>10. \A m \in 1 .. Len(all) : \/ all[m] = t
                                \/ \E n \in 1 .. Len(samples) : all[m] = samples[n]
  <2> HIDE DEF all
  <2> QED  BY <1>6
<1> HIDE DEF all
<1>11. DOMAIN samples' = 1 .. Len(samples') /\ Len(samples') \in Nat
       /\ Len(all) \in Nat /\ DOMAIN samples = 1 .. Len(samples)
  BY <1>4, <1>5, <1>6 DEF Shifted
<1>12. \A m \in DOMAIN samples' :
         /\ m \in Nat /\ m + d \in 1 .. Len(all) /\ samples'[m] = all[m + d]
  BY <1>5, <1>11 DEF Shifted
<1>13. \A m, n \in DOMAIN samples' : m # n => samples'[m] # samples'[n]
  BY <1>9, <1>12
<1>14. ASSUME NEW i \in Ids, NEW n \in DOMAIN samples',
              rows'[i] # NoRow, rows'[i].trade = samples'[n]
       PROVE  rows'[i].status = "CLOSED" /\ rows'[i].exit = "QUOTE"
  <2>1. CASE samples'[n] = t
    <3>1. i = k
      BY <1>1, <1>2, <1>14, <2>1 DEF TradesApart
    <3> QED
      BY <1>2, <3>1
  <2>2. ASSUME NEW m \in 1 .. Len(samples), samples'[n] = samples[m]
        PROVE  rows'[i].status = "CLOSED" /\ rows'[i].exit = "QUOTE"
    <3>1. i # k
      BY <1>2, <1>7, <1>14, <2>2
    <3> QED
      BY <1>3, <1>11, <1>14, <2>2, <3>1 DEF SampleInv, LearnsQuotedExitsOnce
  <2> QED
    BY <1>10, <1>12, <2>1, <2>2
<1>15. \A n \in DOMAIN samples' : samples'[n] <= entries'
  BY <1>1, <1>7, <1>10, <1>12
<1> QED
  BY <1>13, <1>14, <1>15 DEF SampleInv, LearnsQuotedExitsOnce

LEMMA SampleInvStep ==
  ASSUME ConstantsAssumption, TypeInv, TradesApart, TradesApart', SampleInv,
         [Next]_vars
  PROVE  SampleInv'
<1>1. CASE UNCHANGED <<rows, samples, entries>>
  BY <1>1, SamplesUntouched DEF RowsLearnable
<1>2. ASSUME NEW s \in Held, NEW exit \in {"NULL", "QUOTE"},
             NEW reason \in Reasons, Close(s, exit, reason), UNCHANGED entries
      PROVE  SampleInv'
  <2>1. CASE exit = "QUOTE"
    BY <1>2, <2>1, SamplesAfterQuotedClose DEF Close
  <2>2. CASE exit # "QUOTE"
    <3>1. UNCHANGED samples
      BY <1>2, <2>2 DEF Close, CloseScalp
    <3>2. /\ rows[open[s].id].status = "OPEN" /\ rows[open[s].id] # NoRow
          /\ rows'[open[s].id].trade = rows[open[s].id].trade
      BY <1>2, HeldFacts, CloseSameTrades DEF Close, TypeInv, NoRow
    <3>3. RowsLearnable
      BY <1>2, <3>2, CloseTouchesOneRow DEF Close, RowsLearnable
    <3> QED
      BY <1>2, <3>1, <3>3, SamplesUntouched
  <2> QED
    BY <2>1, <2>2
<1>3. ASSUME NEW s \in Symbols, Manage(s)  PROVE SampleInv'
  <2>1. s \in Held
    BY <1>3 DEF Manage, ManageUnquoted, ManageHold, ManageExit, HardFlat,
       HardFlatRaises, TypeInv, WorkerInv
  <2>2. CASE \E exit \in {"NULL", "QUOTE"}, reason \in Reasons :
               Close(s, exit, reason) /\ UNCHANGED entries
    BY <1>2, <2>1, <2>2
  <2> QED
    BY <1>1, <1>3, <2>2, ExitReasonType DEF Manage, ManageUnquoted, ManageHold,
       ManageExit, HardFlat, HardFlatRaises, CloseRaises, store, Reasons
<1>4. ASSUME NEW s \in Symbols, NEW p \in Premiums, Enter(s, p)
      PROVE  SampleInv'
  <2>1. PICK i \in Ids : rows' = [rows EXCEPT ![i] = EntryRow(s, p)]
    BY <1>4 DEF Enter
  <2>2. /\ rows'[i].trade = entries + 1
        /\ \A j \in Ids \ {i} : rows'[j] = rows[j]
    BY <2>1 DEF EntryRow, TypeInv, TypeOK
  <2>3. UNCHANGED samples /\ entries' = entries + 1 /\ entries \in Nat
    BY <1>4 DEF Enter, TypeInv, TypeOK
  <2>4. \A n \in DOMAIN samples : samples[n] \in Nat /\ samples[n] <= entries
    BY DEF SampleInv, TypeInv, TypeOK, Trades
  <2> QED
    BY <2>2, <2>3, <2>4 DEF SampleInv, LearnsQuotedExitsOnce
<1>5. ASSUME rows' = Repaired, UNCHANGED <<samples, entries>>
      PROVE  SampleInv'
  <2>1. SameTrades
    BY <1>5, RepairedSameTrades
  <2>2. \A i \in Ids : rows'[i] = rows[i] \/ rows[i].status = "OPEN"
    BY <1>5 DEF Repaired, Stale
  <2> QED
    BY <1>5, <2>1, <2>2, SamplesUntouched DEF RowsLearnable, SameTrades
<1>6. CASE PurgeOnRead
  BY <1>6, SamplesUntouched DEF PurgeOnRead, RowsLearnable
<1> QED
  BY <1>1, <1>3, <1>4, <1>5, <1>6
  DEF Next, Scan, Tick, RefreshStart, ScanStart, NoScan, ScanEnd,
     SkipCandidate,
      EnterRaises, Crash, Restart, RestartLoadRaises, vars, store

\* Only quoted exits are learned from, and each once: no crash, failed close,
\* repair or reused rowid puts a trade among the samples twice, or one whose
\* row is not closed on a real quote.
THEOREM LearningIsSound == Spec => []LearnsQuotedExitsOnce
<1>1. Init => TypeInv /\ WeakInv /\ SampleInv
  <2> SUFFICES ASSUME Init PROVE SampleInv
    BY TradesInit
  <2> QED
    BY DEF Init, SampleInv, LearnsQuotedExitsOnce
<1>2. TypeInv /\ WeakInv /\ [Next]_vars => (TypeInv /\ WeakInv)'
  BY ConstantsAssumption, TypeInvStep, WeakInvStep
<1>3. TypeInv /\ WeakInv /\ SampleInv /\ [Next]_vars => SampleInv'
  <2> SUFFICES ASSUME TypeInv, WeakInv, SampleInv, [Next]_vars
               PROVE  SampleInv'
    OBVIOUS
  <2>1. WeakInv'
    BY <1>2
  <2> QED
    BY <2>1, ConstantsAssumption, SampleInvStep DEF WeakInv
<1>4. SampleInv => LearnsQuotedExitsOnce
  BY DEF SampleInv
<1> QED
  BY <1>1, <1>2, <1>3, <1>4, PTL DEF Spec

-----------------------------------------------------------------------------
(***************************************************************************)
(* The refinement.  A trade that has a row is what the row says, and one   *)
(* that has none was dropped or is still to come; so a step closes, drops  *)
(* or opens the trades of the rows that it changes.                        *)
(***************************************************************************)
LEMMA LedgerInit ==
  ASSUME Init
  PROVE  Ledger!LedgerInit
<1>1. ASSUME NEW t \in Trades  PROVE LifeOf(t) = "new"
  BY ConstantsAssumption DEF Init, LifeOf, Trades, ConstantsAssumption
<1> QED
  BY <1>1 DEF Ledger!LedgerInit, Ledger!None

\* The life that a row, or the lack of one, gives a trade.
LivesOfRows ==
  /\ \A i \in Ids : rows[i] # NoRow =>
       /\ rows[i].trade \in Trades
       /\ RowsOf(rows[i].trade) = {i} /\ RowOf(rows[i].trade) = rows[i]
       /\ LifeOf(rows[i].trade)
            = IF rows[i].status = "OPEN" THEN "open" ELSE "closed"
  /\ \A t \in Trades : RowsOf(t) = {} =>
       LifeOf(t) = IF t > entries THEN "new" ELSE "dropped"

LEMMA LivesHold == TypeInv /\ TradesApart => LivesOfRows
<1> SUFFICES ASSUME TypeInv, TradesApart  PROVE LivesOfRows
  OBVIOUS
<1>1. ASSUME NEW i \in Ids, rows[i] # NoRow
      PROVE  /\ rows[i].trade \in Trades
             /\ RowsOf(rows[i].trade) = {i} /\ RowOf(rows[i].trade) = rows[i]
             /\ LifeOf(rows[i].trade)
                  = IF rows[i].status = "OPEN" THEN "open" ELSE "closed"
  <2>1. rows[i].trade \in Trades /\ rows[i].trade <= entries /\ entries \in Int
    BY <1>1 DEF TradesApart, TypeInv, TypeOK, Row
  <2>2. RowsOf(rows[i].trade) = {i}
    BY <1>1 DEF RowsOf, TradesApart
  <2>3. RowOf(rows[i].trade) = rows[i]
    BY <2>2 DEF RowOf
  <2> QED
    BY <2>1, <2>2, <2>3 DEF LifeOf, Trades
<1>2. ASSUME NEW t \in Trades, RowsOf(t) = {}
      PROVE  LifeOf(t) = IF t > entries THEN "new" ELSE "dropped"
  BY <1>2 DEF LifeOf
<1> QED
  BY <1>1, <1>2 DEF LivesOfRows

LEMMA LivesHoldNext == TypeInv' /\ TradesApart' => LivesOfRows'
BY LivesHold, PTL

\* The trades of the rows that a step changes.
TradesIn(K) == {rows[i].trade : i \in K}

\* A step that closes or drops rows leaves the other trades as they are.
LEMMA OthersKept ==
  ASSUME LivesOfRows, LivesOfRows', UNCHANGED entries,
         NEW K \in SUBSET Ids, \A i \in Ids \ K : rows'[i] = rows[i],
         \A i \in K : /\ rows[i] # NoRow
                      /\ rows'[i] = NoRow \/ rows'[i].trade = rows[i].trade,
         NEW t \in Trades, t \notin TradesIn(K)
  PROVE  /\ LifeOf(t)' = LifeOf(t)
         /\ LifeOf(t) = "open" => RowOf(t)' = RowOf(t)
<1>1. CASE RowsOf(t) = {}
  <2>1. RowsOf(t)' = {}
    BY <1>1 DEF RowsOf, TradesIn
  <2> QED
    BY <1>1, <2>1 DEF LivesOfRows
<1>2. ASSUME NEW i \in RowsOf(t)
      PROVE  /\ LifeOf(t)' = LifeOf(t)
             /\ LifeOf(t) = "open" => RowOf(t)' = RowOf(t)
  <2>1. i \in Ids /\ rows[i] # NoRow /\ rows[i].trade = t /\ rows'[i] = rows[i]
    BY DEF RowsOf, TradesIn
  <2> QED
    BY <2>1 DEF LivesOfRows
<1> QED
  BY <1>1, <1>2

LEMMA ClosesTrades ==
  ASSUME LivesOfRows, LivesOfRows', UNCHANGED entries,
         NEW K \in SUBSET Ids, K # {}, \A i \in Ids \ K : rows'[i] = rows[i],
         \A i \in K : /\ rows[i].status = "OPEN"
                      /\ rows'[i].status = "CLOSED"
                      /\ rows'[i].trade = rows[i].trade
  PROVE  Ledger!CloseTrades(TradesIn(K))
<1>1. \A i \in K : rows[i] # NoRow /\ rows'[i] # NoRow
  BY DEF NoRow
<1>2. /\ TradesIn(K) # {} /\ TradesIn(K) \subseteq Trades
      /\ \A t \in TradesIn(K) : LifeOf(t) = "open" /\ LifeOf(t)' = "closed"
  BY <1>1 DEF TradesIn, LivesOfRows
<1>3. \A t \in Trades \ TradesIn(K) :
        /\ LifeOf(t)' = LifeOf(t)
        /\ LifeOf(t) = "open" => RowOf(t)' = RowOf(t)
  BY <1>1, OthersKept
<1>4. TradesIn(K) \subseteq Ledger!OpenTrades
  BY <1>2 DEF Ledger!OpenTrades
<1> QED
  BY <1>2, <1>3, <1>4 DEF Ledger!CloseTrades, Ledger!None

LEMMA DropsTrades ==
  ASSUME LivesOfRows, LivesOfRows', UNCHANGED entries, TypeInv, TradesApart,
         NEW K \in SUBSET Ids, K # {}, \A i \in Ids \ K : rows'[i] = rows[i],
         \A i \in K : rows[i].status = "CLOSED" /\ rows'[i] = NoRow
  PROVE  Ledger!DropTrades(TradesIn(K))
<1>1. \A i \in K : rows[i] # NoRow
  BY DEF NoRow
<1>2. /\ TradesIn(K) # {} /\ TradesIn(K) \subseteq Trades
      /\ \A t \in TradesIn(K) : LifeOf(t) = "closed"
  BY <1>1 DEF TradesIn, LivesOfRows
<1>3. ASSUME NEW t \in TradesIn(K)  PROVE LifeOf(t)' = "dropped"
  <2>1. PICK i \in K : rows[i].trade = t
    BY DEF TradesIn
  <2>2. RowsOf(t)' = {}
    BY <1>1, <2>1 DEF RowsOf, TradesApart
  <2>3. t <= entries /\ entries \in Int /\ t \in Trades
    BY <1>1, <1>2, <2>1 DEF TradesApart, TypeInv, TypeOK
  <2> QED
    BY <2>2, <2>3 DEF LifeOf, Trades
<1>4. \A t \in Trades \ TradesIn(K) :
        /\ LifeOf(t)' = LifeOf(t)
        /\ LifeOf(t) = "open" => RowOf(t)' = RowOf(t)
  BY <1>1, OthersKept
<1> QED
  BY <1>2, <1>3, <1>4 DEF Ledger!DropTrades

LEMMA KeepsTrades ==
  ASSUME UNCHANGED <<rows, entries>>
  PROVE  UNCHANGED Ledger!ledger
<1>1. \A t \in Trades : LifeOf(t)' = LifeOf(t) /\ RowOf(t)' = RowOf(t)
  BY DEF LifeOf, RowOf, RowsOf
<1> QED
  BY <1>1 DEF Ledger!ledger

\* The trades that are open are those of the OPEN rows, and no more of them.
LEMMA NoMoreOpenTradesThanRows ==
  ASSUME ConstantsAssumption, TypeInv, TradesApart, LivesOfRows
  PROVE  Cardinality(Ledger!OpenTrades) <= Cardinality(OpenIds)
<1> DEFINE f == [t \in Ledger!OpenTrades |-> CHOOSE i \in RowsOf(t) : TRUE]
<1>1. ASSUME NEW t \in Ledger!OpenTrades
      PROVE  f[t] \in OpenIds /\ rows[f[t]].trade = t
  <2>1. t \in Trades /\ LifeOf(t) = "open"
    BY DEF Ledger!OpenTrades
  <2>2. RowsOf(t) # {} /\ rows[f[t]].status = "OPEN"
    BY <2>1 DEF LifeOf, RowOf
  <2>3. f[t] \in RowsOf(t)
    BY <2>2
  <2> QED
    BY <2>2, <2>3 DEF RowsOf, OpenIds
<1> HIDE DEF f
<1>2. f \in [Ledger!OpenTrades -> OpenIds]
  BY <1>1 DEF f
<1>3. f \in Injection(Ledger!OpenTrades, OpenIds)
  BY <1>1, <1>2 DEF Injection, IsInjective
<1> QED
  BY <1>3, HeldIsFinite, FS_Injection

\* The ledger counts with the Cardinality of its own instance.
LEMMA SameCount ==
  ASSUME NEW S  PROVE Ledger!Cardinality(S) = Cardinality(S)
BY DEF Ledger!Cardinality, Cardinality

LEMMA OpensTrade ==
  ASSUME ConstantsAssumption, TypeInv, StoreInv, TradesApart, LivesOfRows,
         LivesOfRows', NEW s \in Symbols, NEW p \in Premiums, Enter(s, p)
  PROVE  \E t \in Trades : Ledger!OpenTrade(t, s)
<1>1. PICK i \in Ids : IsNextId(i) /\ rows' = [rows EXCEPT ![i] = EntryRow(s, p)]
  BY DEF Enter
<1>2. /\ rows[i] = NoRow
      /\ rows'[i] = EntryRow(s, p) /\ \A j \in Ids \ {i} : rows'[j] = rows[j]
  BY <1>1 DEF IsNextId, Ids, TypeInv, TypeOK
<1>3. /\ rows'[i] # NoRow /\ rows'[i].trade = entries + 1
      /\ rows'[i].status = "OPEN" /\ rows'[i].sym = s
  BY <1>2 DEF EntryRow, NoRow
<1>4. /\ entries \in Nat /\ entries' = entries + 1 /\ entries + 1 \in Trades
  BY DEF Enter, TypeInv, TypeOK, Trades, ConstantsAssumption
<1>5. PICK u \in Trades : u = entries + 1
  BY <1>4
<1>6. /\ LifeOf(u) = "new"
      /\ LifeOf(u)' = "open" /\ RowOf(u)' = rows'[i]
  BY <1>3, <1>4, <1>5 DEF LifeOf, LivesOfRows
<1>7. ASSUME NEW t \in Trades, t # u
      PROVE  /\ LifeOf(t)' = LifeOf(t)
             /\ LifeOf(t) = "open" => RowOf(t)' = RowOf(t)
  <2>1. RowsOf(t)' = RowsOf(t)
    BY <1>2, <1>3, <1>5, <1>7 DEF RowsOf
  <2>2. t \in Int /\ (t > entries' <=> t > entries)
    BY <1>4, <1>5, <1>7 DEF Trades
  <2>3. RowsOf(t) # {} => RowOf(t)' = RowOf(t)
    BY <1>2, <2>1 DEF RowOf, RowsOf
  <2>4. LifeOf(t) = "open" => RowsOf(t) # {}
    BY DEF LifeOf
  <2> QED
    BY <2>1, <2>2, <2>3, <2>4 DEF LifeOf
<1>8. Cardinality(Ledger!OpenTrades) < MaxConcurrent
  <2>1. pc # "down" /\ Cardinality(Held) < MaxConcurrent
    BY DEF Enter
  <2>2. /\ Cardinality(Ledger!OpenTrades) <= Cardinality(OpenIds)
        /\ Cardinality(OpenIds) <= Cardinality(Held)
    BY <2>1, NoMoreOpenTradesThanRows, NoMoreRowsThanHeld
  <2>3. /\ Cardinality(Held) \in Nat /\ Cardinality(OpenIds) \in Nat
        /\ Cardinality(Ledger!OpenTrades) \in Nat /\ MaxConcurrent \in Nat
    <3>1. IsFiniteSet(Ledger!OpenTrades)
      <4>1. IsFiniteSet(Trades)
        BY FS_Interval DEF Trades, ConstantsAssumption
      <4> QED
        BY <4>1, FS_Subset DEF Ledger!OpenTrades
    <3> QED
      BY <3>1, HeldIsFinite, FS_CardinalityType DEF ConstantsAssumption
  <2> QED
    BY <2>1, <2>2, <2>3
<1>9. ASSUME NEW t \in Ledger!OpenTrades  PROVE RowOf(t).sym # s
  <2>1. t \in Trades /\ LifeOf(t) = "open"
    BY DEF Ledger!OpenTrades
  <2>2. RowsOf(t) # {} /\ RowOf(t).status = "OPEN"
    BY <2>1 DEF LifeOf
  <2>3. PICK j \in OpenIds : RowOf(t) = rows[j]
    BY <2>2 DEF RowOf, RowsOf, OpenIds
  <2>4. open[rows[j].sym].id = j
    BY DEF StoreInv, RowsInMemory, Enter
  <2>5. s \notin Held
    BY DEF Enter, TypeInv, WorkerInv
  <2> QED
    BY <2>3, <2>4, <2>5 DEF Held, NotHeld, OpenIds, Ids
<1> DEFINE life == [t \in Trades |-> LifeOf(t)]
           of   == [t \in Trades |-> IF LifeOf(t) = "open" THEN RowOf(t).sym
                                     ELSE "none"]
<1>10. life' = [life EXCEPT ![u] = "open"]
  BY <1>6, <1>7
<1>11. of' = [of EXCEPT ![u] = s]
  BY <1>3, <1>6, <1>7
<1>12. life[u] = "new" /\ \A t \in Ledger!OpenTrades : of[t] # s
  BY <1>6, <1>9 DEF Ledger!OpenTrades
<1>13. Ledger!OpenTrade(u, s)
  BY <1>8, <1>10, <1>11, <1>12, SameCount DEF Ledger!OpenTrade
<1> QED
  BY <1>13

\* Every step of the engine is a step of the ledger, or none.
LEMMA LedgerStep ==
  ASSUME ConstantsAssumption, TypeInv, StoreInv, TradesApart, LivesOfRows,
         LivesOfRows', [Next]_vars
  PROVE  [Ledger!LedgerNext]_(Ledger!ledger)
<1>1. CASE UNCHANGED <<rows, entries>>
  BY <1>1, KeepsTrades
<1>2. ASSUME NEW K \in SUBSET Trades,
             Ledger!CloseTrades(K) \/ Ledger!DropTrades(K)
      PROVE  Ledger!LedgerNext
  BY <1>2 DEF Ledger!LedgerNext
<1>3. ASSUME NEW K \in SUBSET Ids, \A i \in K : rows[i] # NoRow
      PROVE  TradesIn(K) \in SUBSET Trades
  BY <1>3 DEF TradesIn, LivesOfRows
<1>4. ASSUME NEW s \in Held, NEW exit \in {"NULL", "QUOTE"},
             NEW reason \in Reasons, Close(s, exit, reason), UNCHANGED entries
      PROVE  Ledger!LedgerNext
  <2> DEFINE k == open[s].id
  <2>1. k \in Ids /\ rows[k].status = "OPEN" /\ rows[k] # NoRow
    BY HeldFacts DEF TypeInv, NoRow
  <2>2. rows'[k].status = "CLOSED" /\ rows'[k].trade = rows[k].trade
    BY <1>4, CloseSameTrades DEF Close
  <2>3. \A j \in Ids \ {k} : rows'[j] = rows[j]
    BY <1>4, CloseTouchesOneRow DEF Close
  <2> HIDE DEF k
  <2>4. Ledger!CloseTrades(TradesIn({k}))
    BY <1>4, <2>1, <2>2, <2>3, ClosesTrades
  <2> QED
    BY <1>2, <1>3, <2>1, <2>4
<1>5. ASSUME NEW s \in Symbols, Manage(s)
      PROVE  Ledger!LedgerNext \/ UNCHANGED <<rows, entries>>
  <2>1. s \in Held
    BY <1>5 DEF Manage, ManageUnquoted, ManageHold, ManageExit, HardFlat,
       HardFlatRaises, TypeInv, WorkerInv
  <2>2. CASE \E exit \in {"NULL", "QUOTE"}, reason \in Reasons :
               Close(s, exit, reason) /\ UNCHANGED entries
    BY <1>4, <2>1, <2>2
  <2> QED
    BY <1>5, <2>2, ExitReasonType DEF Manage, ManageUnquoted, ManageHold,
       ManageExit, HardFlat, HardFlatRaises, CloseRaises, store, Reasons
<1>6. ASSUME NEW s \in Symbols, NEW p \in Premiums, Enter(s, p)
      PROVE  Ledger!LedgerNext
  BY <1>6, OpensTrade DEF Ledger!LedgerNext
<1>7. ASSUME rows' = Repaired, UNCHANGED entries
      PROVE  Ledger!LedgerNext \/ UNCHANGED <<rows, entries>>
  <2> DEFINE K == {i \in Ids : Stale(rows[i])}
  <2>1. \A i \in K : /\ rows[i] # NoRow /\ rows[i].status = "OPEN"
                     /\ rows'[i].status = "CLOSED"
                     /\ rows'[i].trade = rows[i].trade
    <3> SUFFICES ASSUME NEW i \in K
                 PROVE  /\ rows[i] # NoRow /\ rows[i].status = "OPEN"
                        /\ rows'[i].status = "CLOSED"
                        /\ rows'[i].trade = rows[i].trade
      OBVIOUS
    <3>1. rows[i].status = "OPEN" /\ rows[i] \in Row /\ rows[i] # NoRow
      BY RowFacts DEF Stale, TypeInv, NoRow
    <3>2. rows'[i] = Closed(rows[i], "NULL", "SESSION_ROLLOVER_UNPRICED")
      BY <1>7 DEF Repaired
    <3> QED
      BY <3>1, <3>2, ClosedType DEF Reasons
  <2>2. \A i \in Ids \ K : rows'[i] = rows[i]
    BY <1>7 DEF Repaired
  <2>3. K \in SUBSET Ids
    OBVIOUS
  <2>4. CASE K = {}
    <3>1. \A i \in Ids : rows'[i] = rows[i]
      BY <2>2, <2>4
    <3>2. rows' = rows
      BY <1>7, <3>1 DEF Repaired, TypeInv, TypeOK
    <3> QED
      BY <1>7, <3>2
  <2>5. CASE K # {}
    <3> HIDE DEF K
    <3>1. Ledger!CloseTrades(TradesIn(K))
      BY <1>7, <2>1, <2>2, <2>3, <2>5, ClosesTrades
    <3> QED
      BY <1>2, <1>3, <2>1, <2>3, <3>1
  <2> QED
    BY <2>4, <2>5
<1>8. CASE PurgeOnRead
  <2> DEFINE K == {i \in Ids : rows[i] # NoRow /\ Purgeable(rows[i])}
  <2>1. /\ K \in SUBSET Ids /\ K # {} /\ UNCHANGED entries
        /\ \A i \in Ids \ K : rows'[i] = rows[i]
        /\ \A i \in K : /\ rows[i] # NoRow /\ rows[i].status = "CLOSED"
                        /\ rows'[i] = NoRow
    BY <1>8 DEF PurgeOnRead, Purgeable
  <2> HIDE DEF K
  <2>2. Ledger!DropTrades(TradesIn(K))
    BY <2>1, DropsTrades
  <2> QED
    BY <1>2, <1>3, <2>1, <2>2
<1> QED
  BY <1>1, <1>5, <1>6, <1>7, <1>8
  DEF Next, Scan, Tick, RefreshStart, ScanStart, NoScan, ScanEnd,
     SkipCandidate,
      EnterRaises, Crash, Restart, RestartLoadRaises, vars, store

\* As long as restoring the positions does not raise, the engine and its table
\* keep the paper ledger: no position is opened twice, lost while open,
\* reopened or resurrected, and none is opened beyond the cap or for a symbol
\* that has one, whatever crashes, fails or is purged.
THEOREM LedgerIsImplemented ==
  ASSUME ~LoadMayFail
  PROVE  Spec => ImplementsLedger
<1>1. Init => TypeInv /\ WeakInv /\ Ledger!LedgerInit
  BY TradesInit, LedgerInit
<1>2. TypeInv /\ WeakInv /\ [Next]_vars => (TypeInv /\ WeakInv)'
  BY ConstantsAssumption, TypeInvStep, WeakInvStep
<1>3. TypeInv /\ WeakInv => LivesOfRows /\ TradesApart
  BY LivesHold DEF WeakInv
<1>4. /\ TypeInv /\ StoreInv /\ TradesApart /\ LivesOfRows /\ LivesOfRows'
      /\ [Next]_vars
      => [Ledger!LedgerNext]_(Ledger!ledger)
  BY ConstantsAssumption, LedgerStep
<1> QED
  BY <1>1, <1>2, <1>3, <1>4, StoreInvariant, PTL
  DEF Spec, ImplementsLedger, Ledger!LedgerSpec

=============================================================================
