------------------------------ MODULE PartsProofs ------------------------------
(***************************************************************************)
(* Proofs about three parts for all values of their constants: the         *)
(* strength of a trade (TradeStrength) and the alert of a candidate        *)
(* (CandidateAlerts), as MCParts explores them, and the durable snapshot   *)
(* (SnapshotStore).                                                        *)
(***************************************************************************)
EXTENDS MCParts, SnapshotStore, SequenceTheorems, TLAPS

-----------------------------------------------------------------------------
(***************************************************************************)
(* The strength of a trade.                                                *)
(***************************************************************************)
TypeInv ==
  /\ looked \in Seq(Strength!AllLooks) /\ Len(looked) <= 2
  /\ payload.weak \in 0 .. 2
  /\ DOMAIN read = Strength!Jobs /\ \A j \in Strength!Jobs : read[j].weak \in 0 .. 2

\* The count is that of the last looks.
CountInv ==
  /\ payload.weak >= 1 => Len(looked) >= 1 /\ looked[Len(looked)] = "weak"
  /\ payload.weak = 2 => Strength!BothWeak

\* A live trade shows EXIT SIGNAL because of the count and not because of a
\* fill.
ShownInv ==
  trade = "live" /\ payload.status = "EXIT SIGNAL" => payload.weak = 2

Inv == TypeInv /\ (~clobbered => CountInv /\ ShownInv)

LEMMA Remembered ==
  ASSUME NEW S, NEW s \in Seq(S), Len(s) <= 2, NEW look \in S, NEW t,
         t = Strength!LastOf(Append(s, look), 2)
  PROVE  /\ t \in Seq(S) /\ Len(t) \in 1 .. 2
         /\ t[Len(t)] = look
         /\ Len(s) >= 1 => Len(t) = 2 /\ t[1] = s[Len(s)]
<1> DEFINE u == Append(s, look)
<1>1. /\ u \in Seq(S) /\ Len(u) = Len(s) + 1 /\ u[Len(s) + 1] = look
      /\ \A i \in 1 .. Len(s) : u[i] = s[i]
      /\ Len(s) \in Nat
  BY AppendProperties, LenProperties
<1> HIDE DEF u
<1>2. t = Strength!LastOf(u, 2)
  BY DEF u
<1>3. CASE Len(s) = 0
  <2>1. t = u
    BY <1>1, <1>2, <1>3 DEF Strength!LastOf
  <2>2. t \in Seq(S) /\ Len(t) = 1 /\ t[1] = look
    BY <1>1, <1>3, <2>1
  <2> QED
    BY <1>3, <2>2
<1>4. CASE Len(s) = 1
  <2>1. t = u
    BY <1>1, <1>2, <1>4 DEF Strength!LastOf
  <2>2. /\ t \in Seq(S) /\ Len(t) = 2
        /\ t[1] = s[1] /\ t[2] = look
    BY <1>1, <1>4, <2>1
  <2> QED
    BY <1>4, <2>2
<1>5. CASE Len(s) = 2
  <2>6. Len(u) = 3
    BY <1>1, <1>5
  <2>1. t = SubSeq(u, 2, 3)
    BY <1>2, <2>6 DEF Strength!LastOf
  <2>2. \A i \in 2 .. 3 : u[i] \in S
    BY <1>1, <1>5, ElementOfSeq
  <2> DEFINE v == SubSeq(u, 2, 3)
  <2>8. v \in Seq(S) /\ Len(v) = 2 /\ v[1] = u[2] /\ v[2] = u[3]
    <3>1. /\ v \in Seq(S)
          /\ Len(v) = IF 2 <= 3 THEN 3 - 2 + 1 ELSE 0
          /\ \A i \in 1 .. 3 - 2 + 1 : v[i] = u[2 + i - 1]
      BY <2>2, SubSeqProperties
    <3> HIDE DEF v
    <3>2. v[1] = u[2 + 1 - 1] /\ v[2] = u[2 + 2 - 1]
      BY <3>1
    <3> QED
      BY <3>1, <3>2
  <2> HIDE DEF v
  <2>9. t = v
    BY <2>1 DEF v
  <2>3. t \in Seq(S) /\ Len(t) = 2
    BY <2>8, <2>9
  <2>4. t[1] = u[2] /\ t[2] = u[3]
    BY <2>8, <2>9
  <2>5. u[2] = s[Len(s)] /\ u[3] = look
    BY <1>1, <1>5
  <2> QED
    BY <1>5, <2>3, <2>4, <2>5
<1>6. Len(s) = 0 \/ Len(s) = 1 \/ Len(s) = 2
  <2> DEFINE l == Len(s)
  <2>1. l \in Nat /\ l <= 2
    BY <1>1
  <2> HIDE DEF l
  <2>2. l = 0 \/ l = 1 \/ l = 2
    BY <2>1
  <2> QED
    BY <2>2 DEF l
<1> QED
  BY <1>3, <1>4, <1>5, <1>6

LEMMA InitInv == Strength!Init => Inv
<1> SUFFICES ASSUME Strength!Init
             PROVE  Inv
  OBVIOUS
<1>1. TypeInv
  <2>1. looked \in Seq(Strength!AllLooks) /\ Len(looked) = 0
    BY EmptySeq DEF Strength!Init
  <2>2. /\ payload.weak = 0
        /\ DOMAIN read = Strength!Jobs /\ \A j \in Strength!Jobs : read[j].weak = 0
    BY DEF Strength!Init, Strength!Unmonitored
  <2> QED
    BY <2>1, <2>2 DEF TypeInv
<1>2. payload.weak = 0 /\ payload.status = "none"
  BY DEF Strength!Init, Strength!Unmonitored
<1> QED
  BY <1>1, <1>2 DEF Inv, CountInv, ShownInv

\* What one committed look does.
LEMMA WriteKeepsInv ==
  ASSUME Inv, NEW j \in Strength!Jobs, Strength!Write(j)
  PROVE  Inv'
<1>1. PICK look \in Strength!LooksOf(j) :
        /\ looked' = Strength!LastOf(Append(looked, look), 2)
        /\ \/ payload' = Strength!Observed(read[j], look) /\ trade' = "live"
           \/ payload' = Strength!Filled(read[j], look) /\ trade' = "closed"
  BY DEF Strength!Write
<1>2. look \in Strength!AllLooks
  BY <1>1, PartsAssumption DEF PartsAssumption, Strength!LooksOf, Strength!AllLooks
<1>3. /\ looked' \in Seq(Strength!AllLooks) /\ Len(looked') \in 1 .. 2
      /\ looked'[Len(looked')] = look
      /\ Len(looked) >= 1 => Len(looked') = 2 /\ looked'[1] = looked[Len(looked)]
  BY <1>1, <1>2, Remembered DEF Inv, TypeInv
<1>4. /\ read' = read
      /\ ~clobbered' => ~clobbered /\ read[j] = payload
  BY DEF Strength!Write
<1>5. payload'.weak = Strength!WeakAfter(read[j], look)
  <2>1. Strength!Observed(read[j], look).weak = Strength!WeakAfter(read[j], look)
    BY DEF Strength!Observed
  <2>2. Strength!Filled(read[j], look).weak = Strength!Observed(read[j], look).weak
    BY DEF Strength!Filled, Strength!Observed
  <2> QED
    BY <1>1, <2>1, <2>2
<1>6. /\ look # "weak" => payload'.weak = 0
      /\ look = "weak" => payload'.weak = Strength!OneMore(read[j].weak)
  BY <1>5 DEF Strength!WeakAfter
<1>7. TypeInv'
  BY <1>3, <1>4, <1>6 DEF Inv, TypeInv, Strength!OneMore
<1>8. ASSUME ~clobbered'
      PROVE  CountInv'
  <2>1. CASE look = "weak"
    <3>1. Len(looked') >= 1 /\ looked'[Len(looked')] = "weak"
      BY <2>1, <1>3
    <3>2. ASSUME payload'.weak = 2
          PROVE  Strength!BothWeak'
      <4>1. payload.weak >= 1
        BY <2>1, <1>4, <1>6, <1>8, <3>2 DEF Strength!OneMore, Inv, TypeInv
      <4>2. Len(looked) >= 1 /\ looked[Len(looked)] = "weak"
        BY <4>1, <1>4, <1>8 DEF Inv, CountInv
      <4> QED
        BY <4>2, <1>3, <2>1 DEF Strength!BothWeak
    <3> QED
      BY <3>1, <3>2 DEF CountInv
  <2>2. CASE look # "weak"
    BY <2>2, <1>6 DEF CountInv
  <2> QED
    BY <2>1, <2>2
<1>9. ShownInv'
  <2>1. CASE trade' = "closed"
    BY <2>1 DEF ShownInv
  <2>2. CASE payload' = Strength!Observed(read[j], look)
    <3>1. payload'.status = Strength!StatusAfter(read[j], look)
      BY <2>2 DEF Strength!Observed
    <3>2. payload'.status = "EXIT SIGNAL" => Strength!WeakAfter(read[j], look) = 2
      BY <3>1, <1>2 DEF Strength!StatusAfter, Strength!AllLooks
    <3> QED
      BY <3>2, <1>5 DEF ShownInv
  <2> QED
    BY <2>1, <2>2, <1>1
<1> QED
  BY <1>7, <1>8, <1>9 DEF Inv

LEMMA NextInv ==
  ASSUME Inv, [Strength!Next]_(Strength!vars)
  PROVE  Inv'
<1>1. ASSUME NEW j \in Strength!Jobs, Strength!Select(j)
      PROVE  Inv'
  <2>1. /\ read' = [read EXCEPT ![j] = payload]
        /\ UNCHANGED <<trade, payload, looked, clobbered>>
    BY <1>1 DEF Strength!Select
  <2>2. DOMAIN read' = Strength!Jobs /\ \A k \in Strength!Jobs : read'[k].weak \in 0 .. 2
    BY <2>1 DEF Inv, TypeInv
  <2> QED
    BY <2>1, <2>2 DEF Inv, TypeInv, CountInv, ShownInv, Strength!BothWeak
<1>2. ASSUME NEW j \in Strength!Jobs, Strength!Fail(j)
      PROVE  Inv'
  BY <1>2 DEF Strength!Fail, Inv, TypeInv, CountInv, ShownInv, Strength!BothWeak
<1>3. CASE Strength!MarketClose
  <2>1. trade' = "closed" /\ UNCHANGED <<payload, read, looked, clobbered>>
    BY <1>3 DEF Strength!MarketClose
  <2> QED
    BY <2>1 DEF Inv, TypeInv, CountInv, ShownInv, Strength!BothWeak
<1>4. CASE UNCHANGED Strength!vars
  BY <1>4 DEF Strength!vars, Inv, TypeInv, CountInv, ShownInv, Strength!BothWeak
<1> QED
  BY <1>1, <1>2, <1>3, <1>4, WriteKeepsInv DEF Strength!Next

\* Unless a write rested on a payload that the other job had changed, a live
\* trade shows EXIT SIGNAL only after two weak observations in a row.
THEOREM ExitSignalsAreEarned == PartsSpec => []ExitSignalIsEarned
<1>1. PartsInit => Inv
  BY InitInv DEF PartsInit
<1>2. Inv /\ [PartsNext]_partsVars => Inv'
  BY NextInv DEF PartsNext, InStrength, InAlert, InDaily, partsVars,
     strengthVars, Strength!vars
<1>3. Inv => ExitSignalIsEarned
  BY DEF Inv, CountInv, ShownInv, ExitSignalIsEarned,
     Strength!ExitSignalIsEarned
<1> QED
  BY <1>1, <1>2, <1>3, PTL DEF PartsSpec

-----------------------------------------------------------------------------
(***************************************************************************)
(* The alert of a candidate.                                               *)
(***************************************************************************)
Locations == {"idle", "scan", "post", "complete"}

\* The row is PENDING from the reservation to the completion.
AlertTyped ==
  /\ listing \in {"in", "out", "over"}
  /\ row \in Alert!Row /\ scan \in Locations /\ lag \in 0 .. MaxLag
  /\ ok \in BOOLEAN /\ acked \in 0 .. 1 /\ since \in 0 .. Alert!Old
  /\ scan \in {"post", "complete"} => row.status = "PENDING"

\* A row that can be reserved, or that is reserved and not posted, has had no
\* answer 2xx; one that is to be completed has had at most the last.
AckedInv ==
  /\ row.status \in {"none", "FAILED"} \/ scan = "post" => acked = 0
  /\ scan = "complete" /\ ~ok => acked = 0

\* The row is younger than the last post by at most the time that a scan
\* takes, and the scan that is to post has reserved a row that was old enough.
SpacedInv ==
  /\ row.status = "none" => since = Alert!Old
  /\ row.status = "FAILED" \/ scan = "complete" => row.age <= since + MaxLag
  /\ scan = "post" => row.age = lag /\ since + MaxLag >= Retry

AlertInv == AlertTyped /\ AckedInv /\ SpacedInv

LEMMA AlertRow ==
  ASSUME NEW r \in Alert!Row
  PROVE  /\ r.status \in {"none", "PENDING", "DELIVERED", "FAILED"}
         /\ r.age \in 0 .. Retry + MaxLag
         /\ \A n \in 0 .. MaxLag :
              /\ Alert!Reserved(r, n) \in Alert!Row
              /\ Alert!Reserved(r, n).status = "PENDING"
              /\ Alert!Reserved(r, n).age = n
         /\ \A d \in BOOLEAN :
              /\ Alert!Completed(r, d) \in Alert!Row
              /\ Alert!Completed(r, d).age = r.age
              /\ Alert!Completed(r, d).status
                   = IF d THEN "DELIVERED" ELSE "FAILED"
         /\ Alert!Aged(r) \in Alert!Row /\ Alert!Aged(r).status = r.status
         /\ Alert!Aged(r).age
              = IF r.age < Retry + MaxLag THEN r.age + 1 ELSE Retry + MaxLag
BY PartsAssumption DEF PartsAssumption, Alert!Row, Alert!Old, Alert!Reserved,
   Alert!Completed, Alert!Aged, Alert!Later

LEMMA AlertInit == Alert!Init => AlertInv
<1> SUFFICES ASSUME Alert!Init PROVE AlertInv
  OBVIOUS
<1>1. Alert!Old \in 0 .. Alert!Old /\ 0 \in 0 .. MaxLag
  BY PartsAssumption DEF PartsAssumption, Alert!Old
<1>2. row \in Alert!Row /\ row.status = "none"
  BY <1>1 DEF Alert!Init, Alert!NoRow, Alert!Row
<1>3. /\ listing = "out" /\ scan = "idle" /\ lag = 0 /\ ok = FALSE
      /\ acked = 0 /\ since = Alert!Old
  BY DEF Alert!Init
<1>4. AlertTyped
  <2>1. scan \in Locations /\ scan \notin {"post", "complete"}
    BY <1>3 DEF Locations
  <2>2. /\ lag \in 0 .. MaxLag /\ ok \in BOOLEAN
        /\ since \in 0 .. Alert!Old
    BY <1>1, <1>3
  <2>3. acked \in 0 .. 1
    BY <1>3
  <2> QED
    BY <1>2, <1>3, <2>1, <2>2, <2>3 DEF AlertTyped
<1>5. AckedInv /\ SpacedInv
  BY <1>2, <1>3 DEF AckedInv, SpacedInv
<1> QED
  BY <1>4, <1>5 DEF AlertInv

LEMMA AlertStep ==
  ASSUME AlertInv, Alert!Next
  PROVE  AlertInv'
<1> USE PartsAssumption DEF PartsAssumption, AlertInv, AlertTyped, AckedInv,
    SpacedInv, Locations
<1>1. CASE Alert!Capture \/ Alert!Pass \/ Alert!DayEnds \/ Alert!Abort
  BY <1>1 DEF Alert!Capture, Alert!Pass, Alert!DayEnds, Alert!Abort
<1>2. CASE Alert!Reserve
  <2>1. CASE Alert!MayReserve(row, lag)
    <3>1. row' = Alert!Reserved(row, lag) /\ scan' = "post"
      BY <1>2, <2>1 DEF Alert!Reserve
    <3>2. acked = 0 /\ since + MaxLag >= Retry
      BY <2>1, AlertRow DEF Alert!MayReserve, Alert!Old
    <3> QED
      BY <1>2, <3>1, <3>2, AlertRow DEF Alert!Reserve
  <2>2. CASE ~Alert!MayReserve(row, lag)
    BY <1>2, <2>2 DEF Alert!Reserve
  <2> QED
    BY <2>1, <2>2
<1>3. ASSUME NEW answer \in BOOLEAN, Alert!Posted(answer)  PROVE AlertInv'
  BY <1>3, AlertRow DEF Alert!Posted, Alert!Old
<1>4. CASE Alert!Complete
  BY <1>4, AlertRow DEF Alert!Complete
<1>5. CASE Alert!Tick
  <2>1. /\ row' \in Alert!Row /\ row'.status = row.status
        /\ row'.age = IF row.age < Retry + MaxLag THEN row.age + 1
                      ELSE Retry + MaxLag
        /\ row.age \in 0 .. Retry + MaxLag
    BY <1>5, AlertRow DEF Alert!Tick
  <2>2. /\ since' = IF since < Retry + MaxLag THEN since + 1 ELSE Retry + MaxLag
        /\ lag' = IF scan = "idle" THEN lag ELSE lag + 1
        /\ scan = "idle" \/ lag < MaxLag
        /\ UNCHANGED <<listing, scan, ok, acked>>
    BY <1>5 DEF Alert!Tick, Alert!Later, Alert!Old
  <2> QED
    BY <2>1, <2>2 DEF Alert!Old
<1> QED
  BY <1>1, <1>2, <1>3, <1>4, <1>5 DEF Alert!Next, Alert!Accepted, Alert!NotAccepted

LEMMA AlertInvariant == PartsSpec => []AlertInv
<1>1. PartsInit => AlertInv
  BY AlertInit DEF PartsInit
<1>2. AlertInv /\ [PartsNext]_partsVars => AlertInv'
  <2> SUFFICES ASSUME AlertInv, [PartsNext]_partsVars PROVE AlertInv'
    OBVIOUS
  <2>1. CASE Alert!Next
    BY <2>1, AlertStep
  <2>2. CASE UNCHANGED alertVars
    BY <2>2 DEF alertVars, AlertInv, AlertTyped, AckedInv, SpacedInv
  <2> QED
    BY <2>1, <2>2 DEF PartsNext, InStrength, InAlert, InDaily, partsVars
<1> QED
  BY <1>1, <1>2, PTL DEF PartsSpec

\* Every variable of the alert keeps its type, and the row is PENDING from the
\* reservation to the completion.
THEOREM AlertTypeCorrect == PartsSpec => []Alert!TypeOK
<1>1. AlertInv => Alert!TypeOK
  BY DEF AlertInv, AlertTyped, Locations, Alert!TypeOK
<1> QED
  BY <1>1, AlertInvariant, PTL

\* An alert that the endpoint is known to have accepted is not accepted again.
THEOREM AlertsAreAcceptedOnce == PartsSpec => []AcceptedOnce
<1>1. AlertInv => AcceptedOnce
  BY DEF AlertInv, AlertTyped, AcceptedOnce, Alert!AcceptedOnce
<1> QED
  BY <1>1, AlertInvariant, PTL

\* Two posts of an alert are five minutes apart, less the time that one scan
\* takes.
THEOREM RetriesAreSpaced == PartsSpec => RetrySpacing
<1>1. AlertInv /\ [PartsNext]_partsVars => [Alert!SpacedRetry]_alertVars
  <2> SUFFICES ASSUME AlertInv, scan = "post" PROVE since >= Retry - MaxLag
    BY DEF Alert!SpacedRetry
  <2> QED
    BY PartsAssumption DEF PartsAssumption, AlertInv, AlertTyped, SpacedInv, Alert!Old
<1> QED
  BY <1>1, AlertInvariant, PTL DEF PartsSpec, RetrySpacing

-----------------------------------------------------------------------------
(***************************************************************************)
(* The snapshot.                                                           *)
(***************************************************************************)

\* An upload that compared its database with the file has as many bars.
ComparedInv ==
  \A t \in compared :
    /\ job[t] # Idle
    /\ remote # None => job[t].db.depth >= remote.depth

\* While the databases have not forked there is one instance at a time, and no
\* other disk is left.
AloneInv ==
  \A i, j \in Instances : inst[i] # "off" /\ j # i =>
    inst[j] = "off" /\ disk[j] = Empty

Keeps(db) == remote = None \/ remote.trades \ purged \subseteq db.trades

\* A running instance has every trade of the file that no job deleted.  A disk
\* that is not so thin that the file replaces it has them as well.
SavedInv ==
  \A i \in Instances :
    /\ inst[i] = "up" => Keeps(disk[i])
    /\ inst[i] # "up" => disk[i].depth < Target \/ Keeps(disk[i])
    /\ inst[i] = "replace" => remote # None /\ got[i] = remote

\* An upload has no trade that its instance has not, deleted ones apart, and
\* all those of the file that it is to replace, if it compressed the database
\* after the last put.
UploadInv ==
  \A t \in Threads : job[t] # Idle =>
    /\ job[t].db.trades \ purged \subseteq disk[job[t].by].trades
    /\ t \in recent => Keeps(job[t].db)

\* An upload that compressed the database after the last put still runs.
BusyInv == \A t \in recent : job[t] # Idle

OneHistory == ~forked => AloneInv /\ SavedInv /\ UploadInv

\* Every database holds recorded trades only.
Recorded(db) == \A x \in db.trades : x \in Trades /\ day[x] # 0

RecordedInv ==
  /\ \A i \in Instances : Recorded(disk[i]) /\ Recorded(got[i])
  /\ remote # None => Recorded(remote)
  /\ \A t \in Threads : job[t] # Idle => Recorded(job[t].db)

\* The day of a deleted trade is over, and no trade is of a day to come.
DueInv ==
  /\ \A x \in purged : day[x] # 0 /\ Due(x)
  /\ \A x \in Trades : day[x] <= today

StoreInv ==
  /\ TypeOK /\ ComparedInv /\ BusyInv /\ OneHistory
  /\ RecordedInv /\ DueInv

\* What a job deletes is due.
LEMMA PurgesAreDue ==
  ASSUME TypeOK, NEW i \in Instances,
         Cleanup(i) \/ Rollover(i) \/ PurgeOnRead(i)
  PROVE  \E trades \in SUBSET Trades :
           Purge(i, trades) /\ \A x \in trades : Due(x)
<1>1. /\ today \in Int /\ Retention \in Nat
      /\ \A x \in Trades : day[x] \in Int
  BY SnapshotAssumption DEF TypeOK
<1>2. CASE Cleanup(i)
  <2>1. Purge(i, SignalsOf(today)) /\ night
    BY <1>2 DEF Cleanup
  <2>2. /\ SignalsOf(today) \in SUBSET Trades
        /\ \A x \in SignalsOf(today) : Due(x)
    BY <2>1 DEF SignalsOf, Due, Trades
  <2> QED
    BY <2>1, <2>2
<1>3. CASE Rollover(i)
  <2> DEFINE old == {x \in Signals : day[x] < today - Retention}
  <2>1. Purge(i, old)
    BY <1>3 DEF Rollover
  <2>2. old \in SUBSET Trades
    BY DEF Trades
  <2>3. \A x \in old : Due(x)
    BY <1>1, <2>2 DEF Due
  <2> HIDE DEF old
  <2> QED
    BY <2>1, <2>2, <2>3
<1>4. CASE PurgeOnRead(i)
  <2>1. PICK ended \in SUBSET {x \in Scalps : day[x] < today} :
          Purge(i, ended)
    BY <1>4 DEF PurgeOnRead
  <2> QED
    BY <2>1 DEF Due, Trades
<1> QED
  BY <1>2, <1>3, <1>4

LEMMA JobParts ==
  ASSUME TypeOK, NEW t \in Threads
  PROVE  /\ job[t] # Idle => job[t] \in Job
         /\ job[t].pc \in {"judge", "sha1", "put1", "sha2", "put2"}
              => job[t] # Idle
BY DEF TypeOK, Idle

LEMMA StoreType ==
  ASSUME TypeOK,
         [Next]_vars
  PROVE  TypeOK'
<1> USE DEF TypeOK, dates, clock
<1>0. /\ Empty \in Database
      /\ \A db \in Database : Seeded(db) \in Database
  BY SnapshotAssumption DEF Empty, Database,
     Seeded
<1>1. ASSUME NEW i \in Instances, Boot(i)  PROVE TypeOK'
  <2>1. disk' \in [Instances -> Database]
    BY <1>0, <1>1 DEF Boot
  <2>2. /\ inst[i] = "off" /\ inst' = [inst EXCEPT ![i] = "sweep"]
        /\ UNCHANGED <<got, remote, job, dates, recent, compared>>
        /\ forked' \in BOOLEAN
    BY <1>1 DEF Boot
  <2> QED
    BY <2>1, <2>2
<1>2. ASSUME NEW i \in Instances, NEW db \in Database,
             Start(i, db), forked' \in BOOLEAN, inst[i] # "up"
      PROVE  TypeOK'
  <2>1. /\ inst' = [inst EXCEPT ![i] = "up"]
        /\ got' = [got EXCEPT ![i] = Empty]
        /\ disk' = [disk EXCEPT ![i] = Seeded(db)]
        /\ caught' = caught \ {i}
        /\ UNCHANGED <<remote, job, clock, day, purged, recent, compared>>
    BY <1>2 DEF Start
  <2> QED
    BY <1>0, <1>2, <2>1
<1>3. ASSUME NEW i \in Instances,
             \/ Replace(i) \/ NoRestore(i)
             \/ RestoreFails(i)
      PROVE  TypeOK'
  BY <1>2, <1>3
  DEF Replace, NoRestore, RestoreFails
<1>4. ASSUME NEW i \in Instances, Download(i)  PROVE TypeOK'
  BY <1>4 DEF Download, histories
<1>5. ASSUME NEW i \in Instances,
             Ingest(i) \/ \E tr \in Trades : Record(i, tr)
      PROVE  TypeOK'
  <2>1. disk[i] \in Database
    OBVIOUS
  <2>2. CASE Ingest(i)
    <3>1. [disk[i] EXCEPT !.depth = @ + 1] \in Database
      BY SnapshotAssumption, <2>1, <2>2 DEF Database,
         Ingest
    <3> QED
      BY <2>2, <3>1 DEF Ingest, histories
  <2>3. ASSUME NEW tr \in Trades, Record(i, tr)
        PROVE  TypeOK'
    <3>1. [disk[i] EXCEPT !.trades = @ \union {tr}] \in Database
      BY <2>1 DEF Database
    <3>2. today \in 0 .. LastDay
      BY SnapshotAssumption
    <3> QED
      BY <2>3, <3>1, <3>2 DEF Record, histories
  <2> QED
    BY <1>5, <2>2, <2>3
<1>6. ASSUME NEW i \in Instances, Stop(i)  PROVE TypeOK'
  <2> DEFINE ended == {t \in Threads : job[t] # Idle /\ job[t].by = i}
  <2>1. /\ inst' = [inst EXCEPT ![i] = "off"]
        /\ got' = [got EXCEPT ![i] = Empty]
        /\ job' = [t \in Threads |->
                     IF t \in ended THEN Idle ELSE job[t]]
        /\ recent' = recent \ ended /\ compared' = compared \ ended
        /\ caught' = caught \ {i}
        /\ UNCHANGED <<disk, remote, clock, day, purged, forked>>
    BY <1>6 DEF Stop
  <2>2. ASSUME NEW t \in Threads, job'[t] # Idle
        PROVE  inst'[job'[t].by] = "up"
    <3>1. t \notin ended /\ job'[t] = job[t] /\ job[t] # Idle
      BY <2>1, <2>2
    <3>2. job[t].by # i /\ job[t].by \in Instances
      BY <3>1, JobParts DEF Job
    <3> QED
      BY <2>1, <3>1, <3>2
  <2> QED
    BY <1>0, <2>1, <2>2
<1>7. ASSUME NEW t \in Threads, Leave(t)  PROVE TypeOK'
  BY <1>7 DEF Leave
<1>8. ASSUME NEW t \in Threads, NEW i \in Instances, Compress(t, i)
      PROVE  TypeOK'
  <2> DEFINE new == [pc |-> "judge", by |-> i, db |-> disk[i], fresh |-> FALSE]
  <2>1. /\ job' = [job EXCEPT ![t] = new] /\ inst[i] = "up"
        /\ recent' = recent \union {t}
        /\ UNCHANGED <<inst, disk, got, remote, dates, compared, forked>>
    BY <1>8 DEF Compress
  <2>2. new \in Job /\ new.by = i
    BY DEF Job
  <2> HIDE DEF new
  <2> QED
    BY <2>1, <2>2
<1>9. ASSUME NEW t \in Threads, job[t] # Idle,
             NEW next \in Job, next.by = job[t].by,
             job' = [job EXCEPT ![t] = next],
             UNCHANGED <<inst, disk, got, remote, dates, recent, forked>>,
             compared' \subseteq Threads
      PROVE  TypeOK'
  BY <1>9
<1>10. ASSUME NEW t \in Threads, Judge(t)  PROVE TypeOK'
  <2>1. job[t] \in Job /\ job[t] # Idle
    BY <1>10, JobParts DEF Judge
  <2>2. /\ [job[t] EXCEPT !.pc = "sha1"] \in Job
        /\ [job[t] EXCEPT !.pc = "sha1"].by = job[t].by
    BY <2>1 DEF Job
  <2>3. CASE Regresses(job[t].db)
    BY <1>7, <1>10, <2>3 DEF Judge
  <2>4. CASE ~Regresses(job[t].db)
    BY <1>9, <1>10, <2>1, <2>2, <2>4 DEF Judge
  <2> QED
    BY <2>3, <2>4
<1>11. ASSUME NEW t \in Threads,
              ReadSha(t) \/ Conflict(t) \/ Fail(t)
       PROVE  TypeOK'
  <2>1. job[t] \in Job /\ job[t] # Idle
    BY <1>11, JobParts
    DEF ReadSha, Conflict, Fail
  <2>2. CASE ReadSha(t)
    <3> DEFINE to == IF job[t].pc = "sha1" THEN "put1" ELSE "put2"
    <3>1. /\ job' = [job EXCEPT ![t] =
                       [job[t] EXCEPT !.fresh = TRUE, !.pc = to]]
          /\ UNCHANGED <<inst, disk, got, remote, dates, recent, compared,
                         forked>>
      BY <2>2 DEF ReadSha, histories
    <3>2. /\ [job[t] EXCEPT !.fresh = TRUE, !.pc = to] \in Job
          /\ [job[t] EXCEPT !.fresh = TRUE, !.pc = to].by = job[t].by
      BY <2>1 DEF Job
    <3> QED
      BY <1>9, <2>1, <3>1, <3>2
  <2>3. CASE Conflict(t) /\ job[t].pc = "put1"
    <3>1. /\ job' = [job EXCEPT ![t] = [job[t] EXCEPT !.pc = "sha2"]]
          /\ UNCHANGED <<inst, disk, got, remote, dates, recent, compared,
                         forked>>
      BY <2>3 DEF Conflict, Again, histories
    <3>2. /\ [job[t] EXCEPT !.pc = "sha2"] \in Job
          /\ [job[t] EXCEPT !.pc = "sha2"].by = job[t].by
      BY <2>1 DEF Job
    <3> QED
      BY <1>9, <2>1, <3>1, <3>2
  <2>4. CASE Leave(t)
    BY <1>7, <2>4
  <2> QED
    BY <1>11, <2>2, <2>3, <2>4 DEF Conflict, Fail
<1>12. ASSUME NEW t \in Threads, Put(t)  PROVE TypeOK'
  <2>1. job[t] \in Job
    BY <1>12, JobParts DEF Put
  <2>2. /\ remote' = job[t].db
        /\ job' = [u \in Threads |->
             IF u = t \/ job[u] = Idle THEN Idle
             ELSE [job[u] EXCEPT !.fresh = FALSE]]
        /\ recent' = {} /\ compared' = {}
        /\ UNCHANGED <<inst, disk, got, dates, forked>>
    BY <1>12 DEF Put
  <2>3. remote' \in Database
    BY <2>1, <2>2 DEF Job
  <2>4. ASSUME NEW u \in Threads, job[u] # Idle
        PROVE  /\ [job[u] EXCEPT !.fresh = FALSE] \in Job
               /\ [job[u] EXCEPT !.fresh = FALSE].by = job[u].by
    BY <2>4, JobParts DEF Job
  <2>5. job' \in [Threads -> Job \union {Idle}]
    BY <2>2, <2>4
  <2>6. \A u \in Threads : job'[u] # Idle => inst'[job'[u].by] = "up"
    BY <2>2, <2>4
  <2> QED
    BY <2>2, <2>3, <2>5, <2>6
<1>13. ASSUME NEW i \in Instances, NEW trades, Delete(i, trades),
              \A j \in Instances : inst[j] = "up" => inst'[j] = "up",
              inst' \in [Instances ->
                            {"off", "sweep", "boot", "replace", "up"}],
              caught' \subseteq Instances,
              UNCHANGED <<got, remote, job, clock, day, histories>>
       PROVE  TypeOK'
  <2>1. disk[i] \in Database
    OBVIOUS
  <2>2. [disk[i] EXCEPT !.trades = @ \ trades] \in Database
    BY <2>1 DEF Database
  <2>3. disk' \in [Instances -> Database]
    BY <1>13, <2>2 DEF Delete
  <2>4. purged' \subseteq Trades
    BY <1>13, <2>1 DEF Delete, Database
  <2>5. \A t \in Threads : job[t] # Idle => job[t].by \in Instances
    BY JobParts DEF Job
  <2> QED
    BY <1>13, <2>3, <2>4, <2>5 DEF histories
<1>14. ASSUME NEW i \in Instances, CatchUp(i)  PROVE TypeOK'
  <2>1. CASE UNCHANGED <<disk, purged, caught>>
    BY <1>14, <2>1 DEF CatchUp, histories
  <2>2. CASE Delete(i, SignalsOf(today - 1)) /\ caught' = caught \union {i}
    <3>1. /\ inst[i] = "sweep" /\ inst' = [inst EXCEPT ![i] = "boot"]
          /\ UNCHANGED <<got, remote, job, clock, day, histories>>
      BY <1>14 DEF CatchUp
    <3>2. \A j \in Instances : inst[j] = "up" => inst'[j] = "up"
      BY <3>1
    <3>3. inst' \in [Instances -> {"off", "sweep", "boot", "replace", "up"}]
      BY <3>1
    <3>4. caught' \subseteq Instances
      BY <2>2
    <3> QED
      BY <1>13, <2>2, <3>1, <3>2, <3>3, <3>4
  <2> QED
    BY <1>14, <2>1, <2>2 DEF CatchUp
<1>15. ASSUME NEW i \in Instances,
              Cleanup(i) \/ Rollover(i) \/ PurgeOnRead(i)
       PROVE  TypeOK'
  <2>1. PICK trades \in SUBSET Trades : Purge(i, trades)
    BY <1>15, PurgesAreDue
  <2> QED
    BY <1>13, <2>1 DEF Purge
<1>16. CASE Nightfall
  BY <1>16 DEF Nightfall, histories
<1>17. CASE Midnight
  <2>1. today + 1 \in 1 .. LastDay
    BY SnapshotAssumption, <1>17 DEF Midnight
  <2> QED
    BY <1>17, <2>1 DEF Midnight, histories
<1>18. CASE UNCHANGED vars
  BY <1>18 DEF vars, histories
<1> QED
  BY <1>1, <1>3, <1>4, <1>5, <1>6, <1>8, <1>10, <1>11, <1>12, <1>14, <1>15,
     <1>16, <1>17, <1>18
  DEF Next

\* A step of an upload other than a put keeps the database that it compressed.
UploadStep(t) ==
  /\ UNCHANGED <<inst, disk, got, remote, dates, forked>>
  /\ \A u \in Threads : u # t => job'[u] = job[u]
  /\ recent' \subseteq recent
  /\ \/ job'[t] = Idle /\ t \notin recent' /\ t \notin compared'
        /\ compared' \subseteq compared
     \/ /\ job[t] # Idle /\ job'[t] # Idle
        /\ job'[t].db = job[t].db /\ job'[t].by = job[t].by
        /\ \/ compared' \subseteq compared
           \/ compared' = compared \union {t}
              /\ ~Regresses(job[t].db)

LEMMA UploadSteps ==
  ASSUME TypeOK, NEW t \in Threads,
         Judge(t) \/ ReadSha(t) \/ Conflict(t)
           \/ Fail(t)
  PROVE  UploadStep(t)
<1>0. job \in [Threads -> Job \union {Idle}]
  BY DEF TypeOK
<1>1. job[t] \in Job /\ job[t] # Idle
  BY JobParts
  DEF Judge, ReadSha, Conflict, Fail
<1>2. ASSUME NEW next, job' = [job EXCEPT ![t] = next],
             next.db = job[t].db, next.by = job[t].by,
             next.pc \in {"sha1", "put1", "sha2", "put2"},
             UNCHANGED <<inst, disk, got, remote, dates, forked, recent>>,
             \/ compared' = compared
             \/ compared' = compared \union {t}
                /\ ~Regresses(job[t].db)
      PROVE  UploadStep(t)
  <2>1. next # Idle
    BY <1>2 DEF Idle
  <2> QED
    BY <1>0, <1>1, <1>2, <2>1 DEF UploadStep
<1>3. CASE Leave(t)
  BY <1>0, <1>3 DEF Leave, UploadStep
<1>4. CASE Judge(t) /\ ~Regresses(job[t].db)
  <2>1. /\ job' = [job EXCEPT ![t] = [job[t] EXCEPT !.pc = "sha1"]]
        /\ compared' = compared \union {t}
        /\ UNCHANGED <<inst, disk, got, remote, dates, forked, recent>>
    BY <1>4 DEF Judge
  <2> QED
    BY <1>1, <1>2, <1>4, <2>1 DEF Job
<1>5. CASE ReadSha(t)
  <2> DEFINE to == IF job[t].pc = "sha1" THEN "put1" ELSE "put2"
  <2>1. /\ job' = [job EXCEPT ![t] =
                     [job[t] EXCEPT !.fresh = TRUE, !.pc = to]]
        /\ UNCHANGED <<inst, disk, got, remote, dates, forked, recent,
                       compared>>
    BY <1>5 DEF ReadSha, histories
  <2> QED
    BY <1>1, <1>2, <2>1 DEF Job
<1>6. CASE Again(t, "sha2")
  <2>1. /\ job' = [job EXCEPT ![t] = [job[t] EXCEPT !.pc = "sha2"]]
        /\ UNCHANGED <<inst, disk, got, remote, dates, forked, recent,
                       compared>>
    BY <1>6 DEF Again, histories
  <2> QED
    BY <1>1, <1>2, <2>1 DEF Job
<1> QED
  BY <1>3, <1>4, <1>5, <1>6
  DEF Judge, ReadSha, Conflict, Fail

\* Every put ends its upload, and the comparison of the others.
LEMMA PutStep ==
  ASSUME TypeOK, NEW t \in Threads, Put(t)
  PROVE  /\ job[t] # Idle /\ remote' = job[t].db
         /\ \A u \in Threads : job'[u] # Idle =>
              /\ u # t /\ job[u] # Idle
              /\ job'[u].db = job[u].db /\ job'[u].by = job[u].by
         /\ recent' = {} /\ compared' = {}
         /\ UNCHANGED <<inst, disk, got, dates, forked>>
<1>1. /\ remote' = job[t].db
      /\ job' = [u \in Threads |->
           IF u = t \/ job[u] = Idle THEN Idle
           ELSE [job[u] EXCEPT !.fresh = FALSE]]
      /\ recent' = {} /\ compared' = {}
         /\ UNCHANGED <<inst, disk, got, dates, forked>>
  BY DEF Put
<1>2. job[t] # Idle
  BY JobParts DEF Put
<1>3. ASSUME NEW u \in Threads, job'[u] # Idle
      PROVE  /\ u # t /\ job[u] # Idle
             /\ job'[u].db = job[u].db /\ job'[u].by = job[u].by
  <2>1. u # t /\ job[u] # Idle
        /\ job'[u] = [job[u] EXCEPT !.fresh = FALSE]
    BY <1>1, <1>3
  <2>2. job[u] \in Job
    BY <2>1, JobParts
  <2> QED
    BY <2>1, <2>2 DEF Job
<1> QED
  BY <1>1, <1>2, <1>3

\* A shutdown or a crash ends the uploads of the instance and no other.
LEMMA StopStep ==
  ASSUME TypeOK, NEW i \in Instances, Stop(i)
  PROVE  /\ inst' = [inst EXCEPT ![i] = "off"] /\ inst[i] # "off"
         /\ \A u \in Threads : job'[u] # Idle =>
              job'[u] = job[u] /\ job[u].by # i
         /\ \A u \in Threads : u \in recent' \/ u \in compared' =>
              job'[u] = job[u]
         /\ recent' \subseteq recent /\ compared' \subseteq compared
         /\ UNCHANGED <<disk, remote, clock, day, purged, forked>>
<1> DEFINE ended == {t \in Threads : job[t] # Idle /\ job[t].by = i}
<1>1. /\ inst' = [inst EXCEPT ![i] = "off"] /\ inst[i] # "off"
      /\ job' = [t \in Threads |->
                   IF t \in ended THEN Idle ELSE job[t]]
      /\ recent' = recent \ ended /\ compared' = compared \ ended
      /\ UNCHANGED <<disk, remote, clock, day, purged, forked>>
  BY DEF Stop
<1> QED
  BY <1>1

\* What the instances do between the puts leaves the file and the uploads alone.
InstanceStep(i) ==
  \/ Boot(i) \/ CatchUp(i) \/ Download(i) \/ Replace(i)
  \/ NoRestore(i) \/ RestoreFails(i)
  \/ Ingest(i) \/ (\E tr \in Trades : Record(i, tr))
  \/ Cleanup(i) \/ Rollover(i) \/ PurgeOnRead(i)

LEMMA InstanceSteps ==
  ASSUME NEW i \in Instances, InstanceStep(i)
  PROVE  UNCHANGED <<remote, job, recent, compared>>
BY DEF InstanceStep, Boot, CatchUp, Download, Replace, NoRestore,
   RestoreFails, Start, Ingest, Record, Cleanup, Rollover, PurgeOnRead,
   Purge, histories

\* The clock moves alone.
LEMMA ClockSteps ==
  ASSUME Nightfall \/ Midnight
  PROVE  UNCHANGED <<inst, disk, got, remote, job, day, purged, histories>>
BY DEF Nightfall, Midnight

LEMMA ComparedStep ==
  ASSUME TypeOK, ComparedInv, BusyInv,
         [Next]_vars
  PROVE  ComparedInv' /\ BusyInv'
<1> USE DEF ComparedInv, BusyInv
<1>0. compared \subseteq Threads /\ recent \subseteq Threads
      /\ job \in [Threads -> Job \union {Idle}]
  BY DEF TypeOK
<1>1. ASSUME NEW i \in Instances, InstanceStep(i)
      PROVE  ComparedInv' /\ BusyInv'
  <2>1. UNCHANGED <<remote, job, recent, compared>>
    BY <1>1, InstanceSteps
  <2> QED
    BY <2>1
<1>2. ASSUME NEW i \in Instances, Stop(i)
      PROVE  ComparedInv' /\ BusyInv'
  BY <1>0, <1>2, StopStep
<1>3. ASSUME NEW t \in Threads, NEW i \in Instances, Compress(t, i)
      PROVE  ComparedInv' /\ BusyInv'
  <2> DEFINE new == [pc |-> "judge", by |-> i, db |-> disk[i], fresh |-> FALSE]
  <2>1. /\ job[t] = Idle /\ job' = [job EXCEPT ![t] = new]
        /\ recent' = recent \union {t} /\ UNCHANGED <<remote, compared>>
    BY <1>3 DEF Compress
  <2>2. new # Idle
    BY DEF Idle
  <2>3. t \notin compared /\ t \notin recent
    BY <2>1
  <2> HIDE DEF new
  <2> QED
    BY <1>0, <2>1, <2>2, <2>3
<1>4. ASSUME NEW t \in Threads, UploadStep(t)  PROVE ComparedInv' /\ BusyInv'
  <2>1. /\ remote' = remote /\ recent' \subseteq recent
        /\ \A u \in Threads : u # t => job'[u] = job[u]
    BY <1>4 DEF UploadStep
  <2>2. CASE /\ job'[t] = Idle /\ t \notin recent' /\ t \notin compared'
             /\ compared' \subseteq compared
    BY <1>0, <2>1, <2>2
  <2>3. CASE /\ job[t] # Idle /\ job'[t] # Idle
             /\ job'[t].db = job[t].db
             /\ \/ compared' \subseteq compared
                \/ compared' = compared \union {t}
                   /\ ~Regresses(job[t].db)
    <3>1. ASSUME ~Regresses(job[t].db), remote # None
          PROVE  job[t].db.depth >= remote.depth
      <4>1. job[t].db \in Database /\ remote \in Database
        BY <2>3, <3>1, JobParts DEF Job, TypeOK
      <4>2. job[t].db.depth \in Nat /\ remote.depth \in Nat
        BY SnapshotAssumption, <4>1 DEF Database
      <4> QED
        BY <3>1, <4>2 DEF Regresses
    <3>2. ASSUME NEW u \in compared', remote' # None
          PROVE  job'[u].db.depth >= remote'.depth
      BY <1>0, <2>1, <2>3, <3>1, <3>2
    <3> QED
      BY <1>0, <2>1, <2>3, <3>2
  <2> QED
    BY <1>4, <2>2, <2>3 DEF UploadStep
<1>5. ASSUME NEW t \in Threads, Put(t)
      PROVE  ComparedInv' /\ BusyInv'
  BY <1>5, PutStep
<1>6. CASE Nightfall \/ Midnight
  BY <1>6, ClockSteps DEF histories
<1>7. CASE UNCHANGED vars
  BY <1>7 DEF vars, histories
<1> QED
  BY <1>1, <1>2, <1>3, <1>4, <1>5, <1>6, <1>7, UploadSteps
  DEF Next, InstanceStep

\* A step that leaves the instances, the disks and the file alone, and of which
\* every upload that goes on keeps its database.
LEMMA HistoryStays ==
  ASSUME AloneInv, SavedInv, UploadInv,
         UNCHANGED <<inst, disk, got, remote, purged>>,
         \A u \in Threads : job'[u] # Idle =>
           /\ job[u] # Idle
           /\ job'[u].db = job[u].db /\ job'[u].by = job[u].by
           /\ u \in recent' => u \in recent
  PROVE  AloneInv' /\ SavedInv' /\ UploadInv'
<1>1. AloneInv' /\ SavedInv'
  BY DEF AloneInv, SavedInv, Keeps
<1>2. UploadInv'
  BY DEF UploadInv, Keeps
<1> QED
  BY <1>1, <1>2

LEMMA InstanceHistory ==
  ASSUME TypeOK, BusyInv,
         AloneInv, SavedInv, UploadInv, NEW i \in Instances, ~forked',
         InstanceStep(i), ~RestoreFails(i)
  PROVE  AloneInv' /\ SavedInv' /\ UploadInv'
<1>0. /\ inst \in [Instances -> {"off", "sweep", "boot", "replace", "up"}]
      /\ disk \in [Instances -> Database]
      /\ got \in [Instances -> Database]
      /\ \A t \in Threads : job[t] # Idle =>
           inst[job[t].by] = "up" /\ job[t].by \in Instances
  BY JobParts DEF TypeOK, Job
<1>1. UNCHANGED <<remote, job, recent>>
  BY InstanceSteps
<1>2. Empty.depth = 0 /\ 0 < Target
  BY SnapshotAssumption DEF Empty
<1>3. CASE Boot(i)
  <2>1. PICK kept \in SUBSET {i} :
          disk' = [j \in Instances |-> IF inst[j] # "off" \/ j \in kept
                                       THEN disk[j] ELSE Empty]
    BY <1>3 DEF Boot
  <2>2. /\ inst[i] = "off" /\ inst' = [inst EXCEPT ![i] = "sweep"]
        /\ \A j \in Instances : inst[j] = "off"
        /\ purged' = purged
    BY <1>3 DEF Boot, dates
  <2>3. \A j \in Instances :
          /\ inst'[j] = IF j = i THEN "sweep" ELSE "off"
          /\ disk'[j] = disk[j] \/ disk'[j] = Empty
          /\ j # i => disk'[j] = Empty
    BY <1>0, <2>1, <2>2
  <2>4. AloneInv'
    BY <2>3 DEF AloneInv
  <2>5. SavedInv'
    BY <1>1, <1>2, <2>2, <2>3 DEF SavedInv, Keeps
  <2>6. UploadInv'
    BY <1>0, <1>1, <2>2 DEF UploadInv
  <2> QED
    BY <2>4, <2>5, <2>6
<1>4. CASE Download(i)
  <2>1. /\ inst[i] = "boot" /\ inst' = [inst EXCEPT ![i] = "replace"]
        /\ got' = [got EXCEPT ![i] = remote] /\ remote # None
        /\ disk' = disk /\ purged' = purged
    BY <1>4 DEF Download, dates
  <2>2. AloneInv'
    BY <1>0, <2>1 DEF AloneInv
  <2>3. SavedInv'
    BY <1>0, <1>1, <2>1 DEF SavedInv, Keeps
  <2>4. UploadInv'
    BY <1>1, <2>1 DEF UploadInv, Keeps
  <2> QED
    BY <2>2, <2>3, <2>4
<1>5. ASSUME NEW db \in Database, Start(i, db),
             inst[i] \in {"boot", "replace"}, Keeps(db)
      PROVE  AloneInv' /\ SavedInv' /\ UploadInv'
  <2>1. /\ inst' = [inst EXCEPT ![i] = "up"]
        /\ got' = [got EXCEPT ![i] = Empty]
        /\ disk' = [disk EXCEPT ![i] = Seeded(db)] /\ purged' = purged
    BY <1>5 DEF Start
  <2>2. Seeded(db).trades = db.trades
    BY DEF Seeded, Database
  <2>3. AloneInv'
    BY <1>0, <1>5, <2>1 DEF AloneInv
  <2>4. SavedInv'
    BY <1>0, <1>1, <1>5, <2>1, <2>2 DEF SavedInv, Keeps
  <2>5. UploadInv'
    <3>1. \A t \in Threads : job[t] # Idle => job[t].by # i
      BY <1>0, <1>5
    <3> QED
      BY <1>0, <1>1, <2>1, <3>1 DEF UploadInv, Keeps
  <2> QED
    BY <2>3, <2>4, <2>5
<1>6. CASE Replace(i)
  BY <1>0, <1>5, <1>6 DEF Replace, SavedInv, Keeps
<1>7. CASE NoRestore(i)
  <2>1. inst[i] = "boot" /\ Start(i, disk[i])
        /\ (~(disk[i].depth < Target) \/ remote = None)
    BY <1>7 DEF NoRestore, Thin
  <2>2. Keeps(disk[i])
    BY <2>1 DEF SavedInv, Keeps
  <2> QED
    BY <1>0, <1>5, <2>1, <2>2
<1>8. ASSUME NEW db, disk' = [disk EXCEPT ![i] = db], inst[i] # "off",
             purged \subseteq purged',
             disk[i].trades \ purged' \subseteq db.trades,
             inst[i] # "up" => db.depth = disk[i].depth,
             UNCHANGED got,
             \/ UNCHANGED inst
             \/ inst[i] = "sweep" /\ inst' = [inst EXCEPT ![i] = "boot"]
      PROVE  AloneInv' /\ SavedInv' /\ UploadInv'
  <2>1. AloneInv'
    BY <1>0, <1>8 DEF AloneInv
  <2>2. \A j \in Instances : Keeps(disk[j]) => Keeps(disk[j])'
    BY <1>0, <1>1, <1>8 DEF Keeps
  <2>3. SavedInv'
    BY <1>0, <1>1, <1>8, <2>2 DEF SavedInv, Keeps
  <2>4. \A j \in Instances : disk[j].trades \ purged' \subseteq disk'[j].trades
    BY <1>0, <1>8
  <2>5. UploadInv'
    BY <1>0, <1>1, <1>8, <2>4 DEF UploadInv, Keeps
  <2> QED
    BY <2>1, <2>3, <2>5
<1>9. CASE Ingest(i)
  <2>1. /\ disk' = [disk EXCEPT ![i] = [disk[i] EXCEPT !.depth = @ + 1]]
        /\ inst[i] = "up" /\ UNCHANGED <<inst, got, purged>>
    BY <1>9 DEF Ingest, dates
  <2>2. [disk[i] EXCEPT !.depth = @ + 1].trades = disk[i].trades
    BY <1>0 DEF Database
  <2> QED
    BY <1>8, <2>1, <2>2
<1>10. ASSUME NEW tr \in Trades, Record(i, tr)
       PROVE  AloneInv' /\ SavedInv' /\ UploadInv'
  <2> DEFINE db == [disk[i] EXCEPT !.trades = @ \union {tr}]
  <2>1. /\ disk' = [disk EXCEPT ![i] = db]
        /\ inst[i] # "off" /\ UNCHANGED <<inst, got, purged>>
    BY <1>10 DEF Record
  <2>2. db.trades = disk[i].trades \union {tr} /\ db.depth = disk[i].depth
    BY <1>0 DEF Database
  <2> HIDE DEF db
  <2> QED
    BY <1>8, <2>1, <2>2
<1>11. ASSUME NEW trades, Delete(i, trades), inst[i] # "off",
              UNCHANGED got,
              \/ UNCHANGED inst
              \/ inst[i] = "sweep" /\ inst' = [inst EXCEPT ![i] = "boot"]
       PROVE  AloneInv' /\ SavedInv' /\ UploadInv'
  <2> DEFINE db == [disk[i] EXCEPT !.trades = @ \ trades]
  <2>1. /\ disk' = [disk EXCEPT ![i] = db]
        /\ purged' = purged \union (disk[i].trades \cap trades)
    BY <1>11 DEF Delete
  <2>2. db.trades = disk[i].trades \ trades /\ db.depth = disk[i].depth
    BY <1>0 DEF Database
  <2> HIDE DEF db
  <2> QED
    BY <1>8, <1>11, <2>1, <2>2
<1>12. CASE CatchUp(i)
  <2>1. /\ inst[i] = "sweep" /\ inst' = [inst EXCEPT ![i] = "boot"]
        /\ UNCHANGED got
    BY <1>12 DEF CatchUp
  <2>2. CASE Delete(i, SignalsOf(today - 1))
    BY <1>11, <2>1, <2>2
  <2>3. CASE UNCHANGED <<disk, purged>>
    <3>1. disk' = [disk EXCEPT ![i] = disk[i]]
      BY <1>0, <2>3
    <3> QED
      BY <1>8, <2>1, <2>3, <3>1
  <2> QED
    BY <1>12, <2>2, <2>3 DEF CatchUp
<1>13. CASE Cleanup(i) \/ Rollover(i) \/ PurgeOnRead(i)
  <2>1. PICK trades \in SUBSET Trades : Purge(i, trades)
    BY <1>13, PurgesAreDue
  <2> QED
    BY <1>11, <2>1 DEF Purge
<1> QED
  BY <1>3, <1>4, <1>6, <1>7, <1>9, <1>10, <1>12, <1>13 DEF InstanceStep

\* A fork is never undone.
LEMMA ForkStays ==
  ASSUME TypeOK, [Next]_vars, forked
  PROVE  forked'
BY DEF Next, vars, histories, Boot, CatchUp,
   Download, Replace, NoRestore,
   RestoreFails, Start, Ingest, Record,
   Cleanup, Rollover, PurgeOnRead, Purge, Nightfall, Midnight, Stop,
   Compress, Judge, ReadSha,
   Put, Conflict, Fail, Leave,
   Again

LEMMA HistoryStep ==
  ASSUME StoreInv, [Next]_vars
  PROVE  OneHistory'
<1> SUFFICES ASSUME ~forked' PROVE AloneInv' /\ SavedInv' /\ UploadInv'
  BY DEF OneHistory
<1>0. /\ TypeOK /\ BusyInv
      /\ job \in [Threads -> Job \union {Idle}]
      /\ inst \in [Instances -> {"off", "sweep", "boot", "replace", "up"}]
      /\ \A t \in Threads : job[t] # Idle =>
           inst[job[t].by] = "up" /\ job[t].by \in Instances
  BY JobParts DEF StoreInv, TypeOK, Job
<1>1. ~forked
  BY <1>0, ForkStays
<1>2. AloneInv /\ SavedInv /\ UploadInv
  BY <1>1 DEF StoreInv, OneHistory
<1>3. ASSUME NEW i \in Instances, InstanceStep(i), ~RestoreFails(i)
      PROVE  AloneInv' /\ SavedInv' /\ UploadInv'
  BY <1>0, <1>2, <1>3, InstanceHistory
<1>4. ASSUME NEW i \in Instances, RestoreFails(i)  PROVE FALSE
  BY <1>4 DEF RestoreFails
<1>5. ASSUME NEW i \in Instances, Stop(i)
      PROVE  AloneInv' /\ SavedInv' /\ UploadInv'
  <2>1. /\ inst' = [inst EXCEPT ![i] = "off"] /\ inst[i] # "off"
        /\ \A u \in Threads : job'[u] # Idle => job'[u] = job[u]
        /\ recent' \subseteq recent /\ UNCHANGED <<disk, remote, purged>>
    BY <1>0, <1>5, StopStep
  <2>2. got' = [got EXCEPT ![i] = Empty]
    BY <1>5 DEF Stop
  <2>3. AloneInv'
    BY <1>0, <1>2, <2>1 DEF AloneInv
  <2>4. got \in [Instances -> Database]
    BY <1>0 DEF TypeOK
  <2>5. SavedInv'
    BY <1>0, <1>2, <2>1, <2>2, <2>4 DEF SavedInv, Keeps
  <2>6. UploadInv'
    BY <1>2, <2>1 DEF UploadInv, Keeps
  <2> QED
    BY <2>3, <2>5, <2>6
<1>6. ASSUME NEW t \in Threads, NEW i \in Instances, Compress(t, i)
      PROVE  AloneInv' /\ SavedInv' /\ UploadInv'
  <2> DEFINE new == [pc |-> "judge", by |-> i, db |-> disk[i], fresh |-> FALSE]
  <2>1. /\ job' = [job EXCEPT ![t] = new] /\ inst[i] = "up"
        /\ recent' = recent \union {t}
        /\ UNCHANGED <<inst, disk, got, remote, purged>>
    BY <1>6 DEF Compress, dates
  <2>2. new.by = i /\ new.db = disk[i] /\ Keeps(disk[i])
    BY <1>2, <2>1 DEF SavedInv
  <2> HIDE DEF new
  <2>3. AloneInv' /\ SavedInv'
    BY <1>2, <2>1 DEF AloneInv, SavedInv, Keeps
  <2>4. UploadInv'
    BY <1>0, <1>2, <2>1, <2>2 DEF UploadInv, Keeps
  <2> QED
    BY <2>3, <2>4
<1>7. ASSUME NEW t \in Threads, UploadStep(t)
      PROVE  AloneInv' /\ SavedInv' /\ UploadInv'
  BY <1>2, <1>7, HistoryStays DEF UploadStep, dates
<1>8. CASE Nightfall \/ Midnight
  BY <1>2, <1>8, ClockSteps, HistoryStays DEF histories
<1>9. ASSUME NEW t \in Threads, Put(t)
      PROVE  AloneInv' /\ SavedInv' /\ UploadInv'
  <2>1. /\ job[t] # Idle /\ remote' = job[t].db /\ recent' = {}
        /\ \A u \in Threads : job'[u] # Idle =>
             /\ job[u] # Idle
             /\ job'[u].db = job[u].db /\ job'[u].by = job[u].by
        /\ UNCHANGED <<inst, disk, got, purged>>
    BY <1>0, <1>9, PutStep DEF dates
  <2>2. AloneInv'
    BY <1>2, <2>1 DEF AloneInv
  <2>4. PICK i \in Instances : i = job[t].by /\ inst[i] = "up"
    BY <1>0, <2>1
  <2>5. /\ remote'.trades \ purged \subseteq disk[i].trades
        /\ \A j \in Instances : j # i => inst[j] = "off"
                                        /\ disk[j].depth < Target
    <3>1. Empty.depth = 0 /\ 0 < Target
      BY SnapshotAssumption DEF Empty
    <3> QED
      BY <1>2, <2>1, <2>4, <3>1 DEF AloneInv, UploadInv
  <2>6. SavedInv'
    BY <2>1, <2>4, <2>5 DEF SavedInv, Keeps
  <2>7. UploadInv'
    BY <1>2, <2>1 DEF UploadInv
  <2> QED
    BY <2>2, <2>6, <2>7
<1>10. CASE UNCHANGED vars
  BY <1>2, <1>10, HistoryStays DEF vars, histories, dates
<1> QED
  BY <1>0, <1>3, <1>4, <1>5, <1>6, <1>7, <1>8, <1>9, <1>10, UploadSteps
  DEF Next, InstanceStep

\* A step that keeps the dates of the trades, and of which every database is
\* one that was there, or part of one.
LEMMA RecordedStays ==
  ASSUME RecordedInv, UNCHANGED day,
         \A i \in Instances :
           /\ \/ disk'[i].trades \subseteq disk[i].trades
              \/ disk'[i].trades \subseteq got[i].trades
           /\ \/ got'[i].trades \subseteq got[i].trades
              \/ remote # None /\ got'[i].trades \subseteq remote.trades,
         \/ remote' = remote
         \/ \E t \in Threads : job[t] # Idle /\ remote' = job[t].db,
         \A t \in Threads : job'[t] # Idle =>
           \/ job[t] # Idle /\ job'[t].db = job[t].db
           \/ \E i \in Instances : job'[t].db = disk[i]
  PROVE  RecordedInv'
<1> USE DEF Recorded
<1>1. \A i \in Instances : Recorded(disk[i])' /\ Recorded(got[i])'
  BY DEF RecordedInv
<1>2. remote' # None => Recorded(remote)'
  BY DEF RecordedInv
<1>3. ASSUME NEW t \in Threads, job'[t] # Idle  PROVE Recorded(job[t].db)'
  BY <1>3 DEF RecordedInv
<1> QED
  BY <1>1, <1>2, <1>3 DEF RecordedInv

LEMMA RecordedStep ==
  ASSUME TypeOK, RecordedInv, [Next]_vars
  PROVE  RecordedInv'
<1>0. /\ disk \in [Instances -> Database] /\ got \in [Instances -> Database]
      /\ job \in [Threads -> Job \union {Idle}]
      /\ Empty.trades = {}
  BY DEF TypeOK, Empty
<1>1. ASSUME NEW i \in Instances, NEW tr \in Trades, Record(i, tr)
      PROVE  RecordedInv'
  <2>1. /\ disk' = [disk EXCEPT ![i].trades = @ \union {tr}]
        /\ day' = [day EXCEPT ![tr] = today]
        /\ UNCHANGED <<got, remote, job>>
    BY <1>1 DEF Record
  <2>2. day \in [Trades -> 0 .. LastDay] /\ today # 0
    BY SnapshotAssumption DEF TypeOK
  <2>3. \A x \in Trades : day[x] # 0 => day'[x] # 0
    BY <2>1, <2>2
  <2>4. day'[tr] # 0
    BY <2>1, <2>2
  <2>5. \A j \in Instances : disk'[j].trades \subseteq disk[j].trades \union {tr}
    <3>1. [disk[i] EXCEPT !.trades = @ \union {tr}].trades
            = disk[i].trades \union {tr}
      BY <1>0 DEF Database
    <3> QED
      BY <1>0, <2>1, <3>1
  <2> QED
    BY <2>1, <2>3, <2>4, <2>5 DEF RecordedInv, Recorded
<1>2. ASSUME NEW i \in Instances, NEW trades, Delete(i, trades),
             UNCHANGED <<got, remote, job, day>>
      PROVE  RecordedInv'
  <2>1. [disk[i] EXCEPT !.trades = @ \ trades].trades \subseteq disk[i].trades
    BY <1>0 DEF Database
  <2>2. \A j \in Instances : disk'[j].trades \subseteq disk[j].trades
    BY <1>0, <1>2, <2>1 DEF Delete
  <2> QED
    BY <1>2, <2>2, RecordedStays
<1>3. ASSUME NEW i \in Instances, CatchUp(i)  PROVE RecordedInv'
  <2>1. UNCHANGED <<got, remote, job, day>>
    BY <1>3 DEF CatchUp
  <2>2. CASE Delete(i, SignalsOf(today - 1))
    BY <1>2, <2>1, <2>2
  <2>3. CASE disk' = disk
    BY <2>1, <2>3, RecordedStays
  <2> QED
    BY <1>3, <2>2, <2>3 DEF CatchUp
<1>4. ASSUME NEW i \in Instances,
             Cleanup(i) \/ Rollover(i) \/ PurgeOnRead(i)
      PROVE  RecordedInv'
  <2>1. PICK trades \in SUBSET Trades : Purge(i, trades)
    BY <1>4, PurgesAreDue
  <2> QED
    BY <1>2, <2>1 DEF Purge
<1>5. ASSUME NEW i \in Instances, Boot(i)  PROVE RecordedInv'
  <2>1. UNCHANGED <<got, remote, job, day>>
    BY <1>5 DEF Boot, dates
  <2>2. \A j \in Instances : disk'[j].trades \subseteq disk[j].trades
    BY <1>0, <1>5 DEF Boot
  <2> QED
    BY <2>1, <2>2, RecordedStays
<1>6. ASSUME NEW i \in Instances, Download(i)  PROVE RecordedInv'
  <2>1. /\ UNCHANGED <<disk, remote, job, day>> /\ remote # None
        /\ got' = [got EXCEPT ![i] = remote]
    BY <1>6 DEF Download, dates
  <2>2. \A j \in Instances : got'[j] = got[j] \/ got'[j] = remote
    BY <1>0, <2>1
  <2> QED
    BY <2>1, <2>2, RecordedStays
<1>7. ASSUME NEW i \in Instances, NEW db \in {disk[i], got[i]}, Start(i, db)
      PROVE  RecordedInv'
  <2>1. /\ UNCHANGED <<remote, job, day>>
        /\ disk' = [disk EXCEPT ![i] = Seeded(db)]
        /\ got' = [got EXCEPT ![i] = Empty]
    BY <1>7 DEF Start
  <2>2. Seeded(db).trades = db.trades
    BY <1>0 DEF Seeded, Database
  <2>3. \A j \in Instances :
          /\ disk'[j].trades = disk[j].trades \/ disk'[j].trades = got[j].trades
          /\ got'[j].trades \subseteq got[j].trades
    BY <1>0, <2>1, <2>2
  <2> QED
    BY <2>1, <2>3, RecordedStays
<1>8. ASSUME NEW i \in Instances, Ingest(i)  PROVE RecordedInv'
  <2>1. /\ UNCHANGED <<got, remote, job, day>>
        /\ disk' = [disk EXCEPT ![i] = [disk[i] EXCEPT !.depth = @ + 1]]
    BY <1>8 DEF Ingest, dates
  <2>2. [disk[i] EXCEPT !.depth = @ + 1].trades = disk[i].trades
    BY <1>0 DEF Database
  <2>3. \A j \in Instances : disk'[j].trades = disk[j].trades
    BY <1>0, <2>1, <2>2
  <2> QED
    BY <2>1, <2>3, RecordedStays
<1>9. ASSUME NEW i \in Instances, Stop(i)  PROVE RecordedInv'
  <2>1. /\ \A u \in Threads : job'[u] # Idle => job'[u] = job[u]
        /\ UNCHANGED <<disk, remote, day>>
    BY <1>9, StopStep
  <2>2. \A j \in Instances : got'[j].trades \subseteq got[j].trades
    BY <1>0, <1>9 DEF Stop
  <2> QED
    BY <2>1, <2>2, RecordedStays
<1>10. ASSUME NEW t \in Threads, NEW i \in Instances, Compress(t, i)
       PROVE  RecordedInv'
  <2> DEFINE new == [pc |-> "judge", by |-> i, db |-> disk[i], fresh |-> FALSE]
  <2>1. /\ job' = [job EXCEPT ![t] = new]
        /\ UNCHANGED <<disk, got, remote, day>>
    BY <1>10 DEF Compress, dates
  <2>2. new.db = disk[i]
    OBVIOUS
  <2> HIDE DEF new
  <2>3. \A u \in Threads : job'[u] # Idle =>
          job'[u] = job[u] \/ job'[u].db = disk[i]
    BY <1>0, <2>1, <2>2
  <2> QED
    BY <2>1, <2>3, RecordedStays
<1>11. ASSUME NEW t \in Threads, UploadStep(t)  PROVE RecordedInv'
  <2>1. /\ UNCHANGED <<disk, got, remote, day>>
        /\ \A u \in Threads : job'[u] # Idle =>
              job[u] # Idle /\ job'[u].db = job[u].db
    BY <1>11 DEF UploadStep, dates
  <2> QED
    BY <2>1, RecordedStays
<1>12. ASSUME NEW t \in Threads, Put(t)  PROVE RecordedInv'
  <2>1. /\ job[t] # Idle /\ remote' = job[t].db
        /\ \A u \in Threads : job'[u] # Idle =>
              job[u] # Idle /\ job'[u].db = job[u].db
        /\ UNCHANGED <<disk, got, day>>
    BY <1>12, PutStep DEF dates
  <2> QED
    BY <2>1, RecordedStays
<1>13. CASE Nightfall \/ Midnight \/ UNCHANGED vars
  <2>1. UNCHANGED <<disk, got, remote, job, day>>
    BY <1>13, ClockSteps DEF vars, dates
  <2> QED
    BY <2>1, RecordedStays
<1> QED
  BY <1>1, <1>3, <1>4, <1>5, <1>6, <1>7, <1>8, <1>9, <1>10, <1>11, <1>12,
     <1>13, UploadSteps
  DEF Next, Replace, NoRestore, RestoreFails

\* A trade that is due stays due, whatever the clock does.
LEMMA DueStep ==
  ASSUME TypeOK, RecordedInv, DueInv, [Next]_vars
  PROVE  DueInv'
<1>0. /\ today \in Nat /\ disk \in [Instances -> Database]
      /\ \A x \in Trades : day[x] \in Nat
      /\ day \in [Trades -> 0 .. LastDay]
      /\ purged \subseteq Trades
  BY SnapshotAssumption DEF TypeOK
<1>1. ASSUME NEW i \in Instances, NEW trades, Delete(i, trades),
             \A x \in trades : Due(x),
             UNCHANGED <<clock, day>>
      PROVE  DueInv'
  <2>1. purged' = purged \union (disk[i].trades \cap trades)
    BY <1>1 DEF Delete
  <2>2. \A x \in disk[i].trades : day[x] # 0
    BY DEF RecordedInv, Recorded
  <2>3. \A x \in purged' : day[x] # 0 /\ Due(x)
    BY <1>1, <2>1, <2>2 DEF DueInv
  <2>4. UNCHANGED <<today, night, day>>
    BY <1>1 DEF clock
  <2> QED
    BY <2>3, <2>4 DEF DueInv, Due
<1>2. ASSUME UNCHANGED dates  PROVE DueInv'
  BY <1>2 DEF dates, clock, DueInv, Due
<1>3. ASSUME NEW i \in Instances, CatchUp(i)  PROVE DueInv'
  <2>1. UNCHANGED <<clock, day>>
    BY <1>3 DEF CatchUp
  <2>2. \A x \in SignalsOf(today - 1) : Due(x)
    BY <1>0 DEF SignalsOf, Due
  <2>3. CASE Delete(i, SignalsOf(today - 1))
    BY <1>1, <2>1, <2>2, <2>3
  <2>4. CASE purged' = purged
    BY <2>1, <2>4 DEF clock, DueInv, Due
  <2> QED
    BY <1>3, <2>3, <2>4 DEF CatchUp
<1>4. ASSUME NEW i \in Instances,
             Cleanup(i) \/ Rollover(i) \/ PurgeOnRead(i)
      PROVE  DueInv'
  <2>1. PICK trades \in SUBSET Trades :
          Purge(i, trades) /\ \A x \in trades : Due(x)
    BY <1>4, PurgesAreDue
  <2> QED
    BY <1>1, <2>1 DEF Purge
<1>5. ASSUME NEW i \in Instances, NEW tr \in Trades, Record(i, tr)
      PROVE  DueInv'
  <2>1. /\ UNCHANGED <<today, night, purged>> /\ day[tr] = 0
        /\ day' = [day EXCEPT ![tr] = today]
    BY <1>5 DEF Record, clock
  <2>2. tr \notin purged
    BY <2>1 DEF DueInv
  <2>3. \A x \in purged : day'[x] = day[x]
    BY <1>0, <2>1, <2>2
  <2>4. \A x \in Trades : day'[x] <= today
    BY <1>0, <2>1 DEF DueInv
  <2> QED
    BY <2>1, <2>3, <2>4 DEF DueInv, Due
<1>6. CASE Nightfall
  <2>1. UNCHANGED <<today, day, purged>> /\ night' = TRUE
    BY <1>6 DEF Nightfall
  <2> QED
    BY <2>1 DEF DueInv, Due
<1>7. CASE Midnight
  <2>1. UNCHANGED <<day, purged>> /\ today' = today + 1
    BY <1>7 DEF Midnight
  <2>2. \A x \in Trades : day[x] < today'
    BY <1>0, <2>1 DEF DueInv
  <2> QED
    BY <1>0, <2>1, <2>2 DEF DueInv, Due
<1>8. ASSUME NEW i \in Instances, NEW db, Start(i, db)  PROVE DueInv'
  BY <1>8 DEF Start, clock, DueInv, Due
<1>9. ASSUME NEW i \in Instances, Stop(i)  PROVE DueInv'
  BY <1>9 DEF Stop, clock, DueInv, Due
<1>10. ASSUME NEW i \in Instances, Boot(i) \/ Download(i) \/ Ingest(i)
       PROVE  DueInv'
  BY <1>2, <1>10 DEF Boot, Download, Ingest
<1>11. ASSUME NEW t \in Threads,
              \/ \E i \in Instances : Compress(t, i)
              \/ Judge(t) \/ ReadSha(t) \/ Put(t) \/ Conflict(t) \/ Fail(t)
       PROVE  DueInv'
  <2>1. UNCHANGED dates
    BY <1>11 DEF Compress, Judge, ReadSha, Put, Conflict, Fail, Leave, Again
  <2> QED
    BY <1>2, <2>1
<1>12. CASE UNCHANGED vars
  BY <1>2, <1>12 DEF vars
<1> QED
  BY <1>3, <1>4, <1>5, <1>6, <1>7, <1>8, <1>9, <1>10, <1>11, <1>12
  DEF Next, Replace, NoRestore, RestoreFails

LEMMA StoreInvariant ==
  Spec => []StoreInv
<1>1. Init => StoreInv
  <2> SUFFICES ASSUME Init PROVE StoreInv
    OBVIOUS
  <2>1. /\ Empty \in Database
        /\ Empty.depth = 0 /\ 0 < Target
        /\ 1 \in 1 .. LastDay /\ 0 \in 0 .. LastDay
    BY SnapshotAssumption DEF Empty, Database
  <2>2. TypeOK
    BY <2>1 DEF Init, TypeOK
  <2>3. ComparedInv /\ BusyInv
    BY DEF Init, ComparedInv, BusyInv
  <2>4. OneHistory
    BY <2>1 DEF Init, OneHistory, AloneInv, SavedInv, UploadInv
  <2>5. RecordedInv
    BY <2>1 DEF Init, RecordedInv, Recorded, Empty
  <2>6. DueInv
    BY DEF Init, DueInv, Due
  <2> QED
    BY <2>2, <2>3, <2>4, <2>5, <2>6 DEF StoreInv
<1>2. StoreInv /\ [Next]_vars => StoreInv'
  <2> SUFFICES ASSUME StoreInv, [Next]_vars
               PROVE  StoreInv'
    OBVIOUS
  <2>1. TypeOK'
    BY StoreType DEF StoreInv
  <2>2. ComparedInv' /\ BusyInv'
    BY ComparedStep DEF StoreInv
  <2>3. OneHistory'
    BY HistoryStep
  <2>4. RecordedInv' /\ DueInv'
    BY RecordedStep, DueStep DEF StoreInv
  <2> QED
    BY <2>1, <2>2, <2>3, <2>4 DEF StoreInv
<1> QED
  BY <1>1, <1>2, PTL DEF Spec

-----------------------------------------------------------------------------

\* Every variable of the snapshot keeps its type, and only a running instance
\* uploads.
THEOREM SnapshotTypeCorrect ==
  Spec => []TypeOK
<1>1. StoreInv => TypeOK
  BY DEF StoreInv
<1> QED
  BY <1>1, StoreInvariant, PTL

\* The step that ends an upload and changes the file is its own put.
LEMMA PutsArePuts ==
  ASSUME TypeOK, [Next]_vars,
         NEW t \in Threads, Puts(t)
  PROVE  Put(t)
<1>1. remote' # remote /\ job[t] # Idle /\ job'[t] = Idle
  BY DEF Puts
<1>2. PICK u \in Threads : Put(u)
  BY <1>1
  DEF Next, vars, Boot, CatchUp, Download,
      Replace, NoRestore, RestoreFails, Cleanup, Rollover, PurgeOnRead,
      Purge, Nightfall, Midnight, Start, Ingest, Record, Stop,
      Compress, Judge, ReadSha, Conflict,
      Fail, Leave, Again
<1>3. u = t
  <2> SUFFICES ASSUME u # t PROVE FALSE
    OBVIOUS
  <2>1. job'[t] = [job[t] EXCEPT !.fresh = FALSE]
    BY <1>1, <1>2 DEF Put
  <2>2. job[t] \in Job
    BY <1>1, JobParts
  <2> QED
    BY <1>1, <2>1, <2>2 DEF Job, Idle
<1> QED
  BY <1>2, <1>3

\* database_backup.py:190: an upload never replaces the file that it compared
\* its database with by a shallower history.
THEOREM HistoryIsKept ==
  Spec => HistoryNeverShrinks
<1> DEFINE Kept == \A t \in compared :
             Puts(t) /\ remote # None
               => remote'.depth >= remote.depth
<1>1. StoreInv /\ [Next]_vars => [Kept]_vars
  <2> SUFFICES ASSUME StoreInv, [Next]_vars,
                      NEW t \in compared, Puts(t),
                      remote # None
               PROVE  remote'.depth >= remote.depth
    OBVIOUS
  <2>1. t \in Threads /\ TypeOK
    BY DEF StoreInv, TypeOK
  <2>2. remote' = job[t].db
    BY <2>1, PutsArePuts, PutStep
  <2> QED
    BY <2>2 DEF StoreInv, ComparedInv
<1> QED
  BY <1>1, StoreInvariant, PTL DEF Spec, HistoryNeverShrinks

\* docs/deployment.md:58: while one instance runs at a time and restores
\* without error, an upload of a database that was compressed after the last
\* put drops a trade from the file only when its day is over and a job deleted
\* it.
THEOREM SavedTradesAreKept ==
  Spec => TradesAreKept
<1> DEFINE Kept == \A t \in recent :
             Puts(t) /\ remote # None /\ ~forked' =>
               \A x \in remote.trades \ remote'.trades :
                 x \in purged /\ Due(x)
<1>1. StoreInv /\ [Next]_vars => [Kept]_vars
  <2> SUFFICES ASSUME StoreInv, [Next]_vars,
                      NEW t \in recent, Puts(t),
                      remote # None, ~forked',
                      NEW x \in remote.trades \ remote'.trades
               PROVE  x \in purged /\ Due(x)
    OBVIOUS
  <2>1. t \in Threads /\ TypeOK
    BY DEF StoreInv, TypeOK
  <2>2. remote' = job[t].db /\ forked' = forked /\ job[t] # Idle
    BY <2>1, PutsArePuts, PutStep
  <2>3. x \in purged
    BY <2>1, <2>2 DEF StoreInv, OneHistory, UploadInv, Keeps
  <2> QED
    BY <2>3 DEF StoreInv, DueInv
<1> QED
  BY <1>1, StoreInvariant, PTL DEF Spec, TradesAreKept

=============================================================================
