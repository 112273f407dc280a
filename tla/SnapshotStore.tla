----------------------------- MODULE SnapshotStore -----------------------------
(***************************************************************************)
(* The durable snapshot of a disk that may be lost: the working database   *)
(* every instance uploads whole to one file of a GitHub branch, and that a *)
(* starting instance restores.                                             *)
(*                                                                         *)
(* Rolling deploys let two instances overlap, and within one instance the  *)
(* uploads at start, by the jobs and at shutdown may: the first and the    *)
(* last are abandoned after ten seconds and go on in their thread.         *)
(*                                                                         *)
(* A database is a depth of daily bars, which stands for the minimum per   *)
(* symbol, the total and the latest date at once, and a set of trades:     *)
(* confirmed signals and paper scalps, which the program deletes when      *)
(* their day has passed.                                                   *)
(***************************************************************************)
EXTENDS Naturals

CONSTANTS
  Instances,
  Threads,      \* uploads
  Signals, Scalps,
  LastDay,      \* bound of the days
  Retention,    \* NSE_OI_HISTORY_RETENTION_DAYS
  MaxDepth,     \* bound of the history of bars
  Target,       \* DAILY_HISTORY_TARGET_BARS
  Seed          \* depth of the bundled seed

Trades == Signals \union Scalps

\* The target is not 0: an empty database is always thin.
ASSUME SnapshotAssumption ==
  /\ LastDay \in Nat \ {0} /\ Retention \in Nat \ {0}
  /\ MaxDepth \in Nat /\ Target \in 1 .. MaxDepth /\ Seed \in 0 .. MaxDepth

VARIABLES
  inst,     \* "off", "sweep" until the catch-up of the purge, "boot" until the
            \* restore, "replace" during it, "up"
  disk,     \* the database of each instance
  got,      \* the snapshot that a starting instance downloaded
  remote,   \* the file on the branch, None if there is none
  job,      \* each upload: where it is, its instance, the database that it
            \* compressed, and whether the file still has the sha that it read
  today, night,  \* the date, and whether it is 23:59
  day,      \* trade_date of each trade, 0 if it was never recorded
  purged,   \* history: trades that a job deleted
  caught,   \* history: instances in a start whose catch-up went through today
  recent,   \* history: uploads that compressed the database after the last put
  compared, \* history: uploads whose file is still the one they compared with
  forked    \* history: two databases went their own ways

histories == <<recent, compared, forked>>
clock == <<today, night>>
dates == <<clock, day, purged, caught>>
vars == <<inst, disk, got, remote, job, dates, histories>>

Database == [depth : 0 .. MaxDepth, trades : SUBSET Trades]
Empty    == [depth |-> 0, trades |-> {}]
None     == [depth |-> 0, trades |-> {"none"}]

Job  == [pc : {"judge", "sha1", "put1", "sha2", "put2"}, by : Instances,
         db : Database, fresh : BOOLEAN]
Idle == [pc |-> "idle"]

Init ==
  /\ inst = [i \in Instances |-> "off"]
  /\ disk = [i \in Instances |-> Empty] /\ got = [i \in Instances |-> Empty]
  /\ remote = None /\ job = [t \in Threads |-> Idle]
  /\ today = 1 /\ night = FALSE /\ day = [x \in Trades |-> 0]
  /\ purged = {} /\ caught = {}
  /\ recent = {} /\ compared = {} /\ forked = FALSE

-----------------------------------------------------------------------------
(***************************************************************************)
(* An instance.                                                            *)
(***************************************************************************)

\* A disk may outlive its instance, until another one takes its place.  The
\* databases fork when two instances overlap.
Boot(i) ==
  /\ inst[i] = "off"
  /\ inst' = [inst EXCEPT ![i] = "sweep"]
  /\ \E kept \in SUBSET {i} :
       disk' = [j \in Instances |->
                  IF inst[j] # "off" \/ j \in kept THEN disk[j] ELSE Empty]
  /\ forked' = (forked \/ \E j \in Instances : inst[j] # "off")
  /\ UNCHANGED <<got, remote, job, dates, recent, compared>>

\* DELETE FROM the table of some trades.
Delete(i, trades) ==
  /\ disk' = [disk EXCEPT ![i].trades = @ \ trades]
  /\ purged' = purged \union (disk[i].trades \cap trades)

SignalsOf(d) == {x \in Signals : day[x] = d}

\* The catch-up of the purge comes before the restore.  A failure is logged.
CatchUp(i) ==
  /\ inst[i] = "sweep" /\ inst' = [inst EXCEPT ![i] = "boot"]
  /\ \/ Delete(i, SignalsOf(today - 1)) /\ caught' = caught \union {i}
     \/ UNCHANGED <<disk, purged, caught>>
  /\ UNCHANGED <<got, remote, job, clock, day, histories>>

\* Mutant: the seed is merged before the depth is looked at.
ThinAfterSeed(db) == db.depth < Target /\ Seed < Target

Thin(db) == db.depth < Target

\* restore_bundled_seed merges the bars that are missing.
Seeded(db) ==
  IF db.depth < Target /\ db.depth < Seed THEN [db EXCEPT !.depth = Seed]
  ELSE db

Download(i) ==
  /\ inst[i] = "boot" /\ Thin(disk[i]) /\ remote # None
  /\ inst' = [inst EXCEPT ![i] = "replace"]
  /\ got' = [got EXCEPT ![i] = remote]
  /\ UNCHANGED <<disk, remote, job, dates, histories>>

Start(i, db) ==
  /\ inst' = [inst EXCEPT ![i] = "up"] /\ got' = [got EXCEPT ![i] = Empty]
  /\ disk' = [disk EXCEPT ![i] = Seeded(db)]
  /\ caught' = caught \ {i}
  /\ UNCHANGED <<remote, job, clock, day, purged, recent, compared>>

\* _restore_payload replaces the whole file.
Replace(i) == inst[i] = "replace" /\ Start(i, got[i]) /\ UNCHANGED forked

\* Nothing to restore, or no need to.
NoRestore(i) ==
  /\ inst[i] = "boot" /\ (~Thin(disk[i]) \/ remote = None)
  /\ Start(i, disk[i]) /\ UNCHANGED forked

\* The download failed, or the file is no usable backup: the instance goes on
\* without it.
RestoreFails(i) ==
  /\ inst[i] \in {"boot", "replace"} /\ Thin(disk[i]) /\ remote # None
  /\ Start(i, disk[i]) /\ forked' = TRUE

\* The daily ingestion and the backfill, which needs no snapshot.
Ingest(i) ==
  /\ inst[i] = "up" /\ disk[i].depth < MaxDepth
  /\ disk' = [disk EXCEPT ![i].depth = @ + 1]
  /\ UNCHANGED <<inst, got, remote, job, dates, histories>>

\* The jobs are started before the catch-up and the restore.
Record(i, x) ==
  /\ inst[i] # "off" /\ day[x] = 0 /\ ~night
  /\ disk' = [disk EXCEPT ![i].trades = @ \union {x}]
  /\ day' = [day EXCEPT ![x] = today]
  /\ UNCHANGED <<inst, got, remote, job, clock, purged, caught, histories>>

Purge(i, trades) ==
  /\ inst[i] # "off" /\ Delete(i, trades)
  /\ UNCHANGED <<inst, got, remote, job, clock, day, caught, histories>>

\* 23:59: the confirmed signals of the day.
Cleanup(i) == night /\ Purge(i, SignalsOf(today))

\* 00:05: the signals of before the retention.
Rollover(i) ==
  Purge(i, {x \in Signals : day[x] < today - Retention})

\* Whoever reads the scalps of the day purges those of earlier days, but not
\* an open one nor one that a repair closed.
PurgeOnRead(i) ==
  \E ended \in SUBSET {x \in Scalps : day[x] < today} : Purge(i, ended)

\* A shutdown or a crash ends the threads of the process.
Stop(i) ==
  /\ inst[i] # "off"
  /\ inst' = [inst EXCEPT ![i] = "off"] /\ got' = [got EXCEPT ![i] = Empty]
  /\ caught' = caught \ {i}
  /\ LET ended == {t \in Threads : job[t] # Idle /\ job[t].by = i}
     IN /\ job' = [t \in Threads |-> IF t \in ended THEN Idle ELSE job[t]]
        /\ recent' = recent \ ended /\ compared' = compared \ ended
  /\ UNCHANGED <<disk, remote, clock, day, purged, forked>>

Nightfall ==
  /\ ~night /\ night' = TRUE
  /\ UNCHANGED <<inst, disk, got, remote, job, today, day, purged, caught>>
  /\ UNCHANGED histories

Midnight ==
  /\ night /\ today < LastDay
  /\ today' = today + 1 /\ night' = FALSE /\ caught' = {}
  /\ UNCHANGED <<inst, disk, got, remote, job, day, purged, histories>>

-----------------------------------------------------------------------------
(***************************************************************************)
(* upload_github_snapshot.                                                 *)
(***************************************************************************)

\* The first upload of a start comes after the restore, and the first run of
\* scheduled_durable_snapshot minutes later.
Compress(t, i) ==
  /\ job[t] = Idle /\ inst[i] = "up"
  /\ job' = [job EXCEPT ![t] =
       [pc |-> "judge", by |-> i, db |-> disk[i], fresh |-> FALSE]]
  /\ recent' = recent \union {t}
  /\ UNCHANGED <<inst, disk, got, remote, dates, compared, forked>>

Leave(t) ==
  /\ job' = [job EXCEPT ![t] = Idle]
  /\ recent' = recent \ {t} /\ compared' = compared \ {t}
  /\ UNCHANGED <<inst, disk, got, remote, dates, forked>>

\* Mutant: the latest upload wins.
RegressesNever(db) == FALSE

\* The history of bars alone is compared.
Regresses(db) == remote # None /\ db.depth < remote.depth

\* A snapshot that regresses is skipped and reported as saved.
Judge(t) ==
  /\ job[t].pc = "judge"
  /\ IF Regresses(job[t].db) THEN Leave(t)
     ELSE /\ job' = [job EXCEPT ![t].pc = "sha1"]
          /\ compared' = compared \union {t}
          /\ UNCHANGED <<inst, disk, got, remote, dates, recent, forked>>

\* _github_put reads the sha of the file again, and does not compare again.
ReadSha(t) ==
  /\ job[t].pc \in {"sha1", "sha2"}
  /\ job' = [job EXCEPT ![t].fresh = TRUE,
                        ![t].pc = IF @ = "sha1" THEN "put1" ELSE "put2"]
  /\ UNCHANGED <<inst, disk, got, remote, dates, histories>>

Put(t) ==
  /\ job[t].pc \in {"put1", "put2"} /\ job[t].fresh
  /\ remote' = job[t].db
  /\ job' = [u \in Threads |->
       IF u = t \/ job[u] = Idle THEN Idle ELSE [job[u] EXCEPT !.fresh = FALSE]]
  /\ recent' = {} /\ compared' = {}
  /\ UNCHANGED <<inst, disk, got, dates, forked>>

Again(t, l) ==
  /\ job' = [job EXCEPT ![t].pc = l]
  /\ UNCHANGED <<inst, disk, got, remote, dates, histories>>

\* 409: one more attempt.
Conflict(t) ==
  \/ job[t].pc = "put1" /\ ~job[t].fresh /\ Again(t, "sha2")
  \/ job[t].pc = "put2" /\ ~job[t].fresh /\ Leave(t)

\* Any other error of any request.
Fail(t) == job[t] # Idle /\ Leave(t)

Next ==
  \/ \E i \in Instances :
       \/ Boot(i) \/ CatchUp(i) \/ Download(i) \/ Replace(i)
       \/ NoRestore(i) \/ RestoreFails(i)
       \/ Ingest(i) \/ Stop(i) \/ (\E x \in Trades : Record(i, x))
       \/ Cleanup(i) \/ Rollover(i) \/ PurgeOnRead(i)
  \/ Nightfall \/ Midnight
  \/ \E t \in Threads :
       \/ (\E i \in Instances : Compress(t, i))
       \/ Judge(t) \/ ReadSha(t) \/ Put(t) \/ Conflict(t) \/ Fail(t)

Spec == Init /\ [][Next]_vars

-----------------------------------------------------------------------------
(***************************************************************************)
(* Properties.                                                             *)
(***************************************************************************)

\* Every variable keeps its type, only a running instance uploads, and an
\* upload makes at most two attempts.
TypeOK ==
  /\ inst \in [Instances -> {"off", "sweep", "boot", "replace", "up"}]
  /\ disk \in [Instances -> Database] /\ got \in [Instances -> Database]
  /\ remote \in Database \union {None}
  /\ job \in [Threads -> Job \union {Idle}]
  /\ today \in 1 .. LastDay /\ night \in BOOLEAN
  /\ day \in [Trades -> 0 .. LastDay] /\ purged \subseteq Trades
  /\ caught \subseteq Instances /\ forked \in BOOLEAN
  /\ recent \subseteq Threads /\ compared \subseteq Threads
  /\ \A t \in Threads : job[t] # Idle => inst[job[t].by] = "up"

Puts(t) == job[t] # Idle /\ job'[t] = Idle /\ remote' # remote

\* database_backup.py:190: "Never let a smaller/older local DB replace a
\* remote snapshot with deeper history."  _github_put reads the sha of the file
\* again, so a put that replaces another file than the one compared is exempt,
\* and no other.
HistoryNeverShrinks ==
  [][\A t \in compared :
       Puts(t) /\ remote # None => remote'.depth >= remote.depth]_vars

\* The same sentence as it stands, for every put; TLC refutes it, with two
\* uploads of one instance.
ShallowerNeverReplaces ==
  [][\A t \in Threads :
       Puts(t) /\ remote # None => remote'.depth >= remote.depth]_vars

\* A confirmed signal may go at 23:59, a scalp on the next day.
Due(x) == day[x] < today \/ (x \in Signals /\ night)

\* docs/deployment.md:58: the backup is there "to preserve signal events and
\* analytics across redeploys": while one instance runs at a time and restores
\* without error, a trade that reached the snapshot stays in it until its day
\* is over and a job deleted it, wherever an instance or an upload is cut off.
\* A put of a database that was compressed before the last put is exempt, and
\* no other.
TradesAreKept ==
  [][\A t \in recent :
       Puts(t) /\ remote # None /\ ~forked' =>
         \A x \in remote.trades \ remote'.trades :
           x \in purged /\ Due(x)]_vars

\* main.py:1470: "Free Render instances may sleep through 23:59 IST. Catch up
\* the prior day's confirmed-signal purge whenever the service starts on a new
\* day": an instance whose catch-up went through comes up without a signal of
\* the day before.  TLC refutes it: the restore brings them back.
NewDayStartsClean ==
  [][\A i \in caught :
       inst[i] # "up" /\ inst'[i] = "up" =>
         disk'[i].trades \cap SignalsOf(today - 1) = {}]_vars

=============================================================================
