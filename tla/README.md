# nse-oi-tracker: models, checks and proofs

nse-oi-tracker is one Python process. It polls NSE and the broker Angel One
during market hours, classifies price and open-interest moves of the F&O
stocks, keeps two books of paper trades in SQLite (swing trades from the scan,
option scalps from the option chain), sends alerts, and saves its database to a
GitHub branch because its disk does not survive a deploy. No order is ever
placed. What can go wrong is not arithmetic. Its jobs overlap, on threads, with
a database that serialises writers and nothing else, with a broker that refuses
logins and requests, and in a process that is replaced at any moment. The
modules here are about that.

Contents: [parts](#the-system) · [modules](#the-modules) ·
[runs](#what-the-runs-check) · [proofs](#what-is-proved) ·
[abstractions](#abstractions-and-bounds) ·
[where code and words differ](#where-the-code-and-its-words-differ) ·
[not modelled](#what-is-not-modelled) · [plan](#plan)

Paths are relative to the repository. Each definition of a module that stands
for code is listed with its lines in `PROJECT.json` under `map`.

## The system

| Part | State it keeps | Operations | Talks to |
|---|---|---|---|
| Scalp engine, `signal_engine/scalp_chain.py` | `_open` (positions by symbol, with peak, trailing flag, weak count), learning samples | `refresh` = manage every position, then scan; `_enter`, `_close_paper_position`, `reload_open_positions` | table `scalp_events` and its monitor snapshots, Angel quotes, alerts |
| Swing trades, `database/repository.py` | table `signal_events`: status, targets hit, result, R, source | `record_scan`, `update_open_events`, `expire_open_events`, `regrade_with_bhavcopy_close`, archive and delete | scan, 30 s monitor, 15:15 close, bhavcopy after 18:10, 23:59 and 00:05 jobs |
| Trade strength, same file | `payload_json` of a live trade: shown status, weak count | the read-modify-write inside `update_open_events` | scan and monitor |
| Scan, `app/oi_analyzer.py`, `analytics/oi_window.py`, `signal_engine/confirmation.py` | rolling windows, streaks, `_signal_stability`, all in memory | `_track_window`, `scan_all_fno_realtime`, `_window_candidates`, `note_agreement`, `evaluate_gate` | NSE or Angel feed, `record_scan` |
| Alerts, `alerts/dispatcher.py`, `app/main.py` | table `alert_deliveries` | `reserve_alert`, post, `complete_alert` | scan, scalp job, three channels |
| Snapshots, `app/database_backup.py` | one file on a branch | restore at start; upload at start, by jobs, at shutdown | every other instance of the service, the jobs and readers that delete rows |
| Angel session and requests, `integrations/angel_one_market_data.py` | token, login breaker, quote and candle times, 403 cooldown | `_login`, `full_quotes`, `quotes_by_token`, `option_chain_near_atm`, `intraday_candles` | all jobs, on their threads |
| Market stream, `integrations/angel_one_stream.py` | connection, subscriptions, heartbeat, candles | `_run`, `_on_open`, `ensure_subscriptions`, `_text_heartbeat_loop`, `LocalFiveMinuteBuilder.add` | session (login), scans |
| Readiness, `app/self_test.py` and `app/main.py` | the last result per stage, the startup state | `run_stage`, `readiness`, `scalp_readiness`, three writers of the state | session, scan, `/api/health` |
| Daily history, `collector/backfill.py`, `app/main.py` | table `daily_equity_bars`, `_backfill_lock` | `run_backfill` at start, each minute of the session and after the close; `ingest_daily_bhavcopy` | broker's daily candles, the exchange's files, snapshots (depth), regrading, analytics |
| Universe and ban list, NSE fetcher, calendar, analytics, grading, API | caches or nothing | pure I/O or pure functions | readers and inputs of the above |

How they meet. APScheduler runs the jobs on one event loop; each hands its
blocking part to a worker thread, so two jobs interleave at every SQL statement
and every request. Refreshes are serialised by `_refresh_lock`, the scalp job by
`max_instances=1`; the monitor, the close and the nightly jobs are not
serialised with either. The database is opened per operation. Everything in
`_open`, the windows and the broker session is lost with the process.

What makes each part right, and what makes it hard:

- **Scalp engine**: memory and table are the same positions, the cap holds, an
  outcome is final, every position ends. Hard because a write may raise between
  the two copies, the process may die there, a reader deletes rows, and the
  clock is read more than once per refresh.
- **Swing trades**: a symbol has one live trade, caps and daily stop bound the
  day, a closed trade stays closed. Hard because live rows are selected before
  the transaction that updates them by id.
- **Trade strength**: EXIT SIGNAL needs two weak looks. Hard because two jobs
  write back a JSON value they read earlier.
- **Scan**: no comparison across sources or days; a signal persists before it is
  traded; no quick reversals. Hard because three counters with different resets
  are fed by rows that come and go.
- **Alerts**: at most once when accepted, retried with spacing, not forgotten.
  Hard because a process may die between reservation, post and completion.
- **Snapshots**: never lose history, nor a trade before its day is over. Hard
  because of overlapping instances, uploads that outlive their timeout, and
  deletions that a restore undoes.
- **Readiness**: the shown verdict is recent and, in the session, rests on an
  answered call; a blocked start recovers. Hard because runs overlap, results
  expire, and the state shown is a copy that is not always written.
- **Daily history**: every name gets its depth and its date; no unfinished bar
  stays. Hard because batches are small, always begin at the same names, and end
  at the first refusal.
- **Session and stream**: spacing, backoff and cooldown on all threads;
  subscriptions and heartbeats survive reconnects; a valid volume is exact.

`PROJECT.json` lists these hazards line by line with the properties for them.

## The modules

| Module | Models | Actions and code |
|---|---|---|
| `ScalpEngine` | engine and table | `RefreshStart`, `ManageUnquoted`, `ManageHold`, `ManageExit`, `HardFlat` (`_manage_open`, `_exit_reason`), `ScanStart`, `SkipCandidate`, `Enter` (`_enter`), each write with its raising twin, `Crash`, `Restart` (repair, then `open_scalps`), `RestartLoadRaises`, `PurgeOnRead`, `Tick` |
| `PaperLedger` | what engine and table promise together | open below the cap, close, drop |
| `SignalBook` | swing trades | `ScanStart`..`ScanRecorded` (`record_scan`, one transaction), `Select` and the writes of `update_open_events` for scan and monitor, the close, `regrade_with_bhavcopy_close`, nightly jobs, `Restart` |
| `TradeStrength` | payload of one trade | `Select`, `Write`, `Fail` per job, `MarketClose` |
| `SignalScan` | one stock from feed to gate | `ScanRow`, `ScanWithoutRow`, `ScanUnavailable`, `NextDay`, `Restart` |
| `AlertTable` | one row of `alert_deliveries` | operators `MayReserve`, `Reserved`, `Completed` |
| `CandidateAlerts` | a candidate's alert, EXTENDS `AlertTable` | `Capture`, `Pass`, `DayEnds` (what the scans publish under the key), `Reserve`, `Accepted`, `NotAccepted`, `Complete`, `Abort`, `Tick` |
| `ScalpAlerts` | the lifecycle messages, EXTENDS `AlertTable` | `CopyBefore`, `Manage`, `Enter`, `CopyAfter`, `Reserve`, `Post`, `Complete`, `Raise`, restart |
| `SnapshotStore` | instances, disks, the branch, days | `Boot`, `CatchUp`, `Download`, `Replace`, `NoRestore`, `RestoreFails`, `Ingest`, `Record`, `Stop`; the deletions `Cleanup` (23:59), `Rollover` (00:05), `PurgeOnRead`; `Nightfall`, `Midnight`; per upload `Compress`, `Judge`, `ReadSha`, `Put`, `Conflict`, `Fail` |
| `StreamClient` | runner, scanners, heartbeats | `Open`, `OnOpen`, `ReadAll`, `SendAll`, `Ensure`, `SendNew`, `OnClose`, `Backoff`, `BeatEnds` |
| `CandleBuilder` | candles of a token | `Tick`, `Trade`, `Reset` |
| `MarketStream` | both: ticks come while the token is sent on a live connection | composition by `INSTANCE CandleBuilder WITH online <- ...` |
| `Readiness` | self-test and startup state, EXTENDS `AngelSession` | `RecheckBegins`, `BootBegins`, `ExtraBegins`; per run `Login`, `Served`, `Denied`, `Unserved`, `Store` (`run_stage`), `Publish`; `BootWaits`, `BackfillTimesOut`, `OtherLogin`, `Drop`, `Tick` |
| `DailyBars` | daily bars of the F&O names | `Daytime`, `PostClose` (`scheduled_backfill_topup`), per name `Answered`, `Fallback`, `Store`, `Skip`, `RateLimited` (`backfill_symbol_history`), `Bhavcopy`, `Restart`, the clock |
| `AngelSession` | token, lock, breaker | `Refuse`, `Reuse`, `PostLogin`, `LoginAccepted`, `LoginFails`, `TokenEnds` |
| `AngelClient` | threads with quotes, chains, candles and what the broker is owed, EXTENDS `AngelSession` | `Begin`, `AskChain`, `Take`, `PaceQuote`, `PaceHist`, `Send`, `Repost`, `Served`, `Denied`, `Limited`, `Failed`, `Tick` |

`MC*` modules name the instances TLC runs. `*Proofs` modules hold theorems.
A definition whose comment starts with "Mutant:" is a plausible bug in the
definition after it; `PROJECT.json` pairs it with the property that must catch
it. Variables marked "history" record what happened and guard no action of the
code.

Two composition arguments run through the set. `ScalpEngine` and its table
implement `PaperLedger` under the mapping in `ScalpLedger`: a trade is what its
row says and "dropped" once the row is gone. `MarketStream` is `StreamClient`
and `CandleBuilder` side by side, joined by the one fact that the second sees of
the first: ticks arrive only on a live connection that the token was sent on.
Likewise `AngelClient` and `Readiness` add the request paths, and the
self-test's runs, to `AngelSession`, so that a forced login in one thread meets
the breaker another thread opened.

`MCParts` is an instance of three modules that share no state, `TradeStrength`,
`CandidateAlerts` and `DailyBars`. Its first state chooses which of them moves;
the other two stand still. Each is explored as it would be alone, and the
fairness of each is asked of its own steps. `MCSnapshotStore` chooses
between two scopes of one module in the same way.

## What the runs check

Twelve configurations, each a question of its own. `tlc -config X.cfg M` in
this directory reproduces any of them; the state counts are distinct states.

| Run | Module, cfg | Question and answer |
|---|---|---|
| scalp_store | `MCScalpEngine`, `ScalpStore.cfg` | Two symbols against a cap of one, two days, a crash, failed writes, purges. Memory and table agree (`StoreMatchesMemory`), the cap holds in the table across reloads (`CapOnStore`), nothing enters from 15:15 (`NoEntryAfterHardFlat`), only quoted exits are learned, once, with room for two samples of the two trades (`LearnsQuotedExitsOnce`), outcomes are final, every position ends, and the ledger is implemented (`ImplementsLedger`). |
| scalp_exits | same, `ScalpExits.cfg` | Three premiums that reach stop, target and draw-down, a restart that may lose the position: a weak exit needs two weak looks with no strong one between (`WeakExitJustified`). |
| scalp_audit | same, `ScalpAudit.cfg` | A violation: see [below](#where-the-code-and-its-words-differ). |
| signal_rules | `MCSignalBook`, `SignalRules.cfg` | One symbol stopped out, flipped and re-entered over two days while scan, monitor and close interleave: one live trade per symbol, bounded stops per side, verdict and result agree, nothing live after the close, progress is only taken back by a write on a stale read. |
| signal_money | same, `SignalMoney.cfg` | Two symbols, `max_open` 1, a daily stop of one R: the cap counts armed trades, and the booked loss stays within the daily stop plus one worst loss per live trade. |
| scan_window | `MCSignalScan`, `ScanWindow.cfg` | A stock whose feed changes source, drops out and returns, with restarts: windows are pure, what is traded agreed `Persistence` times in a row, day-change reversals wait. |
| parts | `MCParts`, `Parts.cfg` | Three parts, one at a time. *Strength*: in all interleavings of scan, monitor and close, EXIT SIGNAL is earned, and lasting weakness is signalled. *Alert*: under crashes, raising transactions and lost answers, never accepted twice as far as the sender knows, posts spaced by five minutes less a scan, delivered or stranded as long as scans keep publishing the candidate. *Daily bars*: four names, one of them unfillable, batches of two; once the broker answers every name that can be filled is (`NamesAreFilled`), and no bar of a running session stays (`FormingBarsAreReplaced`). |
| scalp_alerts | `MCScalpAlerts`, `ScalpAlerts.cfg` | Two symbols, two positions, re-entries, raising transactions, restarts: nothing accepted twice, every entry and exit is posted except those a named failure hid. |
| snapshot | `MCSnapshotStore`, `Snapshot.cfg` | Two uploads at any point of their life, in two scopes that the first state chooses: two instances that overlap on one day, and one instance at a time over three days with a signal, a scalp and every deletion. An upload never replaces the file it compared itself with by a shallower history (`HistoryNeverShrinks`); without a fork a trade leaves the snapshot only when its day is over and a job deleted it (`TradesAreKept`). |
| market_stream | `MCMarketStream`, `MarketStream.cfg` | Three connections lost at any step, a scanner, a counter that restarts: subscriptions on the live connection, heartbeat, exact valid volumes. |
| angel_client | `MCAngelClient`, `AngelClient.cfg` | Two threads under refused logins, dropped tokens and HTTP 403: login backoff, candle spacing, cooldown, and the session recovers. |
| readiness | `MCReadiness`, `Readiness.cfg` | The recheck and one other thread run stages through a session with refused logins and dropped tokens, over nights and sessions: the verdict is of the newest run (`VerdictIsRecent`), READY in the session rests on an answered call (`ReadyInSessionIsLive`), a blocked state recovers (`BlockedRecovers`), an outage takes READY away (`OutageIsReported`). |

`SPECIFICATION FairSpec` is used where a liveness property is checked.
`CHECK_DEADLOCK FALSE` stands where the bounds of the instance end the
behaviour (`LastDay`, `MaxTrades`, `MaxScans`, `MaxConnections`) and, in
`MCParts`, the close of the trade. A type invariant documents the state of each
module. No run carries them: those of `ScalpEngine`, `SignalBook`,
`CandidateAlerts`, `ScalpAlerts`, `SnapshotStore`, `StreamClient`,
`CandleBuilder` and `AngelClient` are theorems, and `SignalScanProofs` and
`ReadinessProofs` prove what they need of those of `SignalScan` and
`Readiness`.

### Exemptions, and why they are narrow

Several properties hold "unless" something happened. Each exemption is a history
variable that names one event, so that the property still excludes everything
else:

- `clobbered` (`SignalBook`, `TradeStrength`): a write that rested on a row
  another job had changed since it was read. The code has this race (below). The
  theorems say that it is the *only* way to lose the rules.
- `lost` (`ScalpAlerts`): the events of a position that a raising transaction or
  a death dropped before the post, or that a re-entry of the same symbol hid.
  One lost event, a weakening included, exempts the whole position.
- `compared`, `recent`, `forked` (`SnapshotStore`): an upload whose remote file
  was replaced after it compared; one that compressed before the last put; a
  second database that does not descend from the snapshot.
- `purged`, `Due` (`SnapshotStore`): the trades that a job deleted, and those
  whose day is over, for a signal from 23:59 on. A trade may leave the snapshot
  only if it is both. `caught`: the instances that went through the catch-up.
- `missed` (`CandleBuilder`): the buckets with a trade that made no tick.
- `Stranded` (`CandidateAlerts`): a row that a death, a raising completion or a
  Telegram token without a chat id left PENDING. `listing`: the key carries the
  date and only a scan that publishes the candidate tries, so delivery is asked
  of behaviours in which it does not drop out for good before the day ends; a
  refused post that meets no further scan is lost.
- `newest` (`Readiness`): the age of the newest finished run, which the verdict
  may trail by the time one run takes. The code replaces the result of a stage
  by whichever run of it stores last.
- `Trouble`, `Service` (`Readiness`): steps in which the broker or a local input
  fails, and steps in which the broker answers. Recovery is asked of behaviours
  with no trouble from some time on, the report of an outage of those with no
  service. A call refused for a token that was dropped before is no trouble.
- `last` (`DailyBars`): `Untroubled` is a behaviour in which, from some time on,
  no request for a name that can be filled fails and the process lives;
  `Unpublished` one in which no file of the exchange arrives any more, as
  `app/main.py:840` says of production.

### Bounds

Small instances are enough where the rule under test is about two things: two
symbols against a cap of one, two threads against one lock, two instances
against one file, two days around one midnight. `Snapshot.cfg` has three days
where one instance runs at a time, so that a signal outlives a retention of one,
and one day where two overlap. Counts in the code (cap 3, quota 1,000, 100
samples, 78 candles) are constants, set so low in the instance that the limit is
hit within a few steps. Times keep their order and, where they are compared with
each other, their ratio: `Retry` > `MaxLag`, cooldown doubling up to its maximum
in two steps, horizons that a gap can outlast. Every bound that is not a
constant of the code is named with "bound" in its module. In `Readiness` a tick
is five minutes (`Gap` 1), a run is shorter (`MaxRun` 1), 15 minutes and 18
hours keep their order only (1 and 2), and one run besides the rechecks overlaps
them; at most one run begins in a tick, so that no two results have the same
time. In `DailyBars` a session has three batches for three fillable names and
batches of two, one place of which the unfillable name always takes; the code
has 375 batches of three for some 210 names. `SYMMETRY` is declared only in runs
with invariants and action properties.

### Fairness

- `ScalpEngine`: the 60 s job keeps firing, each of its steps ends (every call
  has a timeout), a dead process is restarted by the platform, and the hard-flat
  close, tried on every refresh, is not refused for ever (strong fairness: a
  write may raise any finite number of times). `EveryPositionEnds` uses no
  fairness of quotes or of weak looks.
- `TradeStrength`: both jobs are scheduled (weak), and a job's write is not
  overtaken by an exception for ever (strong).
- `CandidateAlerts`: scans go on, and each may publish the candidate or not; the
  database does not raise for ever, an endpoint accepts in the end.
- `Readiness`: the five-minute job fires on time, and every probe and the
  backfill of the start end, since their requests have timeouts (weak). Nothing
  is assumed of the broker; that is in the premises.
- `DailyBars`: the jobs fire and a request that is made is answered or fails
  (weak). In `MCParts` each of these is asked of the part that moves.
- `AngelClient`: jobs keep calling, requests have timeouts, and the broker does
  not reject every login.

## What is proved

Theorems hold for all constants that meet the named assumptions; the runs show
the same formulas on small instances. All of them are invariants or action
properties of the specification without fairness.

| Theorem | Assumes | Argument |
|---|---|---|
| `ScalpEngineProofs!TypeCorrect` | | Typing `_open` needs `MemoryInStore` (a held position names an OPEN row of its symbol) and `WorkerInv` (only held symbols are left to manage): a position whose row is gone would have no entry price. The crash, the repair and the reload are the hard cases; `LoadedType` shows that a reload picks an OPEN row of today per symbol. |
| `ScalpEngineProofs!StoreAndMemoryAgree` | `LoadMayFail = FALSE` | The converse of `MemoryInStore` is not inductive while the process is down: a reload of two OPEN rows of one symbol keeps one. So `StoreInv` adds `OneOpenPerSymbol`, of the table alone, and that rows are not from the future, which the repair at start needs. |
| `ScalpEngineProofs!CapHolds` | `LoadMayFail = FALSE` | With the table in memory, `_enter`'s test of `len(_open)` bounds the rows (`NoMoreRowsThanHeld`), and `OnlyEnterOpensRows`. |
| `ScalpEngineProofs!OutcomesAreFinal` | | Every write to a row names an OPEN one, or removes it. |
| `ScalpEngineProofs!EntriesBeforeHardFlat` | a refresh spans at most one boundary of the day | `ScanIsYoung`: a scan belongs to a refresh begun in the entry window. The assumption is the guard `OneBoundaryPerRefresh` of `Tick`. |
| `ScalpEngineProofs!WeakExitsAreJustified` | | The count in memory never exceeds the weak looks in a row (`WeakCounted`): a restart forgets, nothing adds. `TradesApart` keeps a reused rowid from inheriting a count. |
| `ScalpEngineProofs!LearningIsSound` | | `SampleInv` adds that only trades that were entered are samples. A sample is taken when an OPEN row is closed on a quote, so by `TradesApart` no trade gives two; no step rewrites the row afterwards (`RowsLearnable`); and the list that drops its oldest samples is a shifted copy (`Shifted`), so distinct stays distinct. |
| `ScalpEngineProofs!LedgerIsImplemented` | `LoadMayFail = FALSE` | The refinement, step by step. `TradesApart` (one row per trade, none beyond `entries`) makes the mapping a function of the rows (`LivesOfRows`); an entry opens a new trade below the cap, a close or a purge changes the lives of the rows it names and of no other (`OthersKept`), and every other step stutters. |
| `SignalBookProofs!BookTypeCorrect` | | `SeenLive`: jobs remember rows that were live. |
| `SignalBookProofs!OneTradePerSymbol`, `OpenTradesCapped`, `StopsPerSide` | unless `clobbered` | `BookInv`, stated of any book and kept for the committed rows and for the open transaction's draft. `NewestIsLive` is why a flip may look at the newest trade of the other side only; `RoomForStop` is why the count of stops, taken at admission, still bounds them when the trade ends. Every step but an admission only *works* rows (`Worked`): drops them, or ends live ones. |
| `SignalBookProofs!NothingLiveAfterClose` | unless `clobbered`; entries end by the close (`BookAssumption`) | `PhaseInv`: from 15:15 on the draft of a running scan equals the committed rows, so what the close selected is all that is live. |
| `SignalBookProofs!VerdictsAreSound` | targets beyond the stop, noise below it (`PlanIsSound`, `BookAssumption`) | `GradeInv`, row by row and races included: every exit writes verdict and result together. The regrading writes the verdict alone, but only over an estimate, and no row is one. |
| `SignalBookProofs!ProgressKept` | unless `clobbered` | `DraftExtends`: nobody writes while a scan holds the lock, so its commit only adds rows. Every other write rests on the row as it still is (`RowStep`), and a trade that reached its target is never stopped out (`ArmedNotStopped`). |
| `SignalBookProofs!LossIsBounded` | unless `clobbered`; a worst gap exists, and the daily stop is below `MaxOpen * WorstLoss` (`LossAssumption`) | `FundInv`. The sum the daily stop is compared with credits a live trade a whole R at its first target, where the target may book half as much, and charges it nothing: no step need keep it. What every step keeps is the day's worth, the credit less one worst loss for each live trade; the admission finds the credit above the stop with fewer than `MaxOpen` live, so the worth stays above `Floor`. `DayTogether`: a day's trades are deleted together or not at all, so no gain leaves the sum alone. The facts about sums over finite sets (`SumRemove`, `SumMonotone`, `SumLess`) come from `SubsetInduction`. |
| `SignalScanProofs!WindowsArePure` | `None` is not a feed (in `ScanAssumption`) | `WellKept`: a record of another source or date clears the window before it appends (`UpdateKeeps`), and appending keeps order and prunes the span. |
| `SignalScanProofs!GatesNeedAgreement` | as above | `Persisted` ties the streak kept in the window to the last notes; no note is from the future, and the streak ends with the window's source or date. |
| `SignalScanProofs!ReversalsWait` | `RequiredScans > 1` (in `ScanAssumption`) | `RemembersDirection`: what was published for the day change is what `_signal_stability` holds; a reversal counts from one. |
| `PartsProofs!ExitSignalsAreEarned` | unless `clobbered` | `CountInv` ties the weak count to the last committed looks, `ShownInv` the shown status to the count. |
| `PartsProofs!AlertTypeCorrect`, `AlertsAreAcceptedOnce`, `RetriesAreSpaced` | `AlertAssumption` | `AckedInv`: a row that a scan may reserve, or has reserved and not posted, has had no accepted post. `SpacedInv`: a row that failed is younger than the time since the post by `MaxLag` at most, and the row's age is what the next reservation looks at. |
| `ScalpAlertProofs!NotifierTypeCorrect` | | With it that two symbols never share a position, on which the comparison of two copies of `_open` rests. |
| `ScalpAlertProofs!ScalpsAreNotifiedOnce` | | `AckedInv`: an event whose row may be reserved, or is reserved and not posted, has had no accepted post. |
| `ScalpAlertProofs!ScalpsAreNotified` | | `OwedInv`: every entry and exit is posted, counted as lost, or still ahead in this run of the job: to be found by the comparison, reserved or posted. It needs `FreshInv`: what is still ahead has no row yet, so the reservation of an entry or exit is never refused. |
| `PartsProofs!SnapshotTypeCorrect`, `HistoryIsKept` | `Target >= 1` (`SnapshotAssumption`) | `ComparedInv`: as long as the file is the one compared, the upload has as many bars, and whoever replaces the file ends every comparison. |
| `PartsProofs!SavedTradesAreKept` | as above; no fork; a retention of at least a day | `OneHistory`: while nothing has forked one instance runs and no other disk is left (`AloneInv`); a running instance has every trade of the file but those a job deleted, and a disk that lacks another one is so thin that the file replaces it (`SavedInv`); an upload compressed since the last put has them too (`UploadInv`). `DueInv`: what a job has deleted is due, since no deletion names a trade of the day before its end (`PurgesAreDue`) and a day that is over stays over. A target of 0 would break `SavedInv`: an empty disk would not be restored. |
| `AngelClientProofs!ClientTypeCorrect`, `CandlesAreSpaced`, `CooldownIsHonoured` | paces of at least one tick, a maximum of at most eight cooldowns (`ClientAssumption`) | `Locked`: from its wait to its last answer, reposts included, a candle request holds the lock. `PaceInv`: the ages that the client keeps are the true ones, and a request that sleeps will have waited long enough, outside any cooldown. |
| `AngelClientProofs!LoginsBackOff` | `1 <= Breaker <= MaxBreaker` (`SessionAssumption`) | `LoginInv`: the breaker's next wait is at least what one more failure calls for, and what is left of the present one makes up what is owed; `OwedDoubles` ties the owed waits to the doubling in the code. |
| `MarketStreamProofs!StreamTypeCorrect` | finitely many tokens (`StreamAssumption`) | With it the quota: tokens are added only while there is room. |
| `MarketStreamProofs!SubscriptionsReachTheConnection`, `HeartbeatGoesOn` | as above | `OnItsWay`: once `_on_open` has read the subscriptions, each of them has been sent, or `_on_open` or a scan is about to send it on the live connection. `BeatInv`: the stop event is cleared before the heartbeat starts and not set again before the connection is closed. |
| `MarketStreamProofs!CandlesTypeCorrect`, `ValidVolumesAreExact` | `MaxCounter >= 1` and the like (`MarketAssumption`) | `Counted`: every candle is exact, the one being built too, and while no trade was missed since its bucket began its last counter is the present one, or the counter has started again below it by more than a trade. `Ordered` and `Extends` carry this over the list that drops its oldest candles. |
| `ReadinessProofs!VerdictsAreRecent` | | A result that is not the newest of its own stage was stored by a run that overlapped a newer one, so it is younger than that one by `MaxRun` at most: `RecentInv` bounds the age of the youngest result by `newest + MaxRun`, and holds whatever the session does, of which the proof uses the type only. |
| `ReadinessProofs!ReadyRestsOnACall` | `Gap <= PostExpiry <= PreExpiry` (`ReadinessAssumption`) | `LiveInv`: a result after the open has a core that passed only if its call was answered, and so has a run that is about to store one. `Stale` then leaves no other result in the session. |

The inductive invariants hold in the instances above too (TLC, as invariants of
the modules that extend the proofs); no run carries them, the theorems do.

Only model-checked: all liveness (`EveryPositionEnds`, `StaysWeakSignalled`,
`EventuallyDelivered`, `LoginRecovers`, `BlockedRecovers`, `OutageIsReported`,
`NamesAreFilled`, `FormingBarsAreReplaced`), which is outside the prover's
reach.

## Abstractions and bounds

**Scalp engine.** The day is cut at the instants the code compares the clock
with. `OneBoundaryPerRefresh` bounds a refresh to one of them: a refresh makes a
bounded number of calls with bounded timeouts, far less than 15 minutes. Which
stock qualifies and what its chain quotes is a free choice (`SkipCandidate`,
`Enter`, quotes from `Premiums`); the candle history behind that choice and its
cache are left out. `Restart` keeps the database: a lost disk is
`SnapshotStore`'s subject. The start repairs and loads a second time, after the
restore (`app/main.py:1498`), with the jobs already scheduled: on the same disk
and between two refreshes that changes nothing, and a restore so slow that it
ends inside the first refresh is left out. The repair's half for rows marked
`option_quote_unavailable` is left out too, as nothing writes that mark any
more. A purge by a reader of the history can happen at any step.

**Swing trades.** Prices count points in favour of the trade from its entry, R
counts half points, as half a position is booked at the first target. A slot is
the time between two boundaries the rules compare (entry window, cooldown, flip
gap, close); a job does not straddle slots, since it takes seconds.
`WriteLocked` is SQLite's single writer: `record_scan` holds it from its first
INSERT, every other transaction is one step, and the SELECTs before a
transaction are steps of their own, but for the close: its lookup of the
unresolved symbols, the refresh of their prices, which touches nothing but
`current_price`, and the SELECT of `expire_open_events` are one step. Archived
rows are removed: every query of the rules filters them out. WATCH rows and
skips do not feed back.

**Scan.** One stock, because the parts share nothing but the scan's clock.
Prices and open interest count in steps of the classification thresholds;
"confirmed" is the rest of the gate (candles, bars, ban list), ranking and caps
on published rows are a free choice.

**Trade strength.** The weak count is capped at two, the only value compared.
The history in the payload repeats the statuses for display and is left out.

**Alerts.** One key and channel in `CandidateAlerts`; the keys are independent.
The day may end at any step; a scan that captured before keeps its key.
`ScalpAlerts` keeps of the engine what a refresh may do to open positions.

**Snapshots.** The three numbers `_snapshot_history_quality` compares (minimum,
total and latest bars) are one depth; uploads start only on an instance that is
up. Archive bytes are a consistent copy. The URL backend is left out. A trade is
a confirmed signal or a scalp and has the date it was recorded on; a day has its
time before 23:59 and the minute after. The jobs run from the boot on, so each
deletion may come at any step from then on: the 23:59 job while that minute
lasts, the rollover of 00:05 and the purge by a reader at any time (readers
purge any of the scalps of earlier days, which stands for open ones and for
those a repair closed). The catch-up deletes the day before's signals or fails.
Trades do not change state, and the rows of WATCH signals are left out.

**Stream.** The parser is left out; every trade makes a tick while the token is
sent on a live connection, in order of time. A send raises only on a connection
that its peer has closed: one that raised on a live connection would end
`_on_open` without a heartbeat and the rest of the batch. `_stop` is never set:
the process ends with it.

**Session.** Time counts in ticks; waiting to the end of the pace and sending
are one step; two threads. `_hist_lock`, which is taken inside
`_hist_request_lock` alone, is one lock with it. The count of HTTP 403 in a row
stops at `Streak`, from which on doubling exceeds the maximum (60 s and 300 s:
the fourth). The download of the instrument master, which also holds the session
lock, is left out. The properties are those of one client: `backfill.py:134` and
`nse_fetcher.py` build clients of their own, whose breaker, spacing and cooldown
know nothing of the first one's.

**Readiness.** A run makes its broker calls as one call that logs in first; the
probes of the local inputs pass or fail freely when it stores. Before the open
the first probe reads the session without a call and is merged with the start of
the run. A process that dies begins again in an initial state, since nothing is
kept. Left out: the token's eight hours (a token that ends is dropped by the
broker instead), the core verdict DEGRADED that no run produces, and
`scalp_readiness`, which the dashboard alone reads.

**Daily bars.** A day has four phases, cut where the code compares its clock and
the exchange publishes. Of a name's bars only the depth ("short", "deep"), the
date of the newest and the date of a bar stored while it was forming are kept,
dates as trading days back to two. One batch at a time, as `_backfill_lock` has
it; a batch that outlives the 180 seconds of the start is left out, and no batch
lasts over midnight. Sixty files of the exchange do not make a name deep, and
purges of names outside the universe are left out.

## Where the code and its words differ

A run in the project, `scalp_audit`, carries one of these as a finding. The
others are stated as properties at the end of their module, and TLC refutes each
when it is added to the cfg named here.

| What is said | What the code does | Reproduce |
|---|---|---|
| `database/repository.py:789`: "Return a single trade's latest monitor observations" | Reading the history purges other days' rows and leaves their observations; `scalp_events.id` is a rowid without AUTOINCREMENT, so the next trade inherits id and observations. | run scalp_audit |
| `app/database_backup.py:190`: "Never let a smaller/older local DB replace a remote snapshot with deeper history" | The comparison and the put are apart, and `_github_put` reads a fresh sha: a put between them is overwritten, also by an older upload of the same instance. | `ShallowerNeverReplaces` in `Snapshot.cfg` |
| `app/main.py:1470`: a start on a new day catches up "the prior day's confirmed-signal purge" | The catch-up deletes from the disk that the instance found; the restore comes after it and brings the signals back. | `NewDayStartsClean` in `Snapshot.cfg` |
| `README.md:120`: "Entry window: 09:30–15:00 IST" | `_enter` takes a second reading of the clock after the chain requests; an entry can be stamped past the end of the window (never past 15:15: `NoEntryAfterHardFlat`). | `EntryInsideWindow` in `ScalpStore.cfg` |
| `database/repository.py:1458`: fills and end-of-day rules "remain authoritative" | The UPDATE of a running trade names its id only and can set a trade that was closed meanwhile back to OPEN. | `FillsAreAuthoritative` in `SignalRules.cfg` |
| `database/repository.py:1742`: events graded by an estimate "get the true closing price" | The regrade filters `result_source = 'estimate'`; the scheduled close stamps `live_exit` (`app/main.py:728`), so it finds nothing of a normal day. | `OfficialCloseGrades` in `SignalRules.cfg` |
| `docs/architecture.md:35`: prior-day events are archived and "kept locally for the retention period" | The 23:59 job deletes the day's trades before the 00:05 archive sees them; the start-up catch-up does the same. | `KeptForRetention` in `SignalRules.cfg` |
| `database/repository.py:40`: "Half is booked at TG1 (1R)" | The daily stop credits a whole R per target reached to trades that have no result yet; half is what is booked. A trade can be admitted below the stop. | `NoEntryAtDailyStop` with `SignalRules.cfg` changed to two symbols, `DailyStop <- OneR`, `MaxRows = 3`, `LastDay = 0` |
| `database/repository.py:1518`: weakness is a confirmation "absent from the latest scan" | A monitor that read before a scan wrote can write EXIT SIGNAL back over a trade that scan found strong. | `ExitSignalNeedsScan` in `Parts.cfg`, as `Strength!ExitSignalNeedsScan` |
| `app/oi_analyzer.py:59`: a reversal resets the count, "preventing rapid opposing signals for the same stock" | True of the day-change path (`DayReversalsWait`); window candidates do not pass the count. | `NoRapidReversal` in `ScanWindow.cfg` |
| `analytics/oi_window.py:145`: "evaluations where the window agrees with the published signal" | The streak is per stock: agreements with a day signal count for a window signal, also of the other direction. | `PersistenceIsOfTheSignal` in `ScanWindow.cfg` |
| `app/self_test.py:3`: the test proves "with real calls, not assumptions" that inputs arrive | Before the open the broker's candles are not critical and the critical session probe reads a token kept from before: READY may be stored by a run every call of which was refused. | `ReadyIsProved` in `Readiness.cfg` |
| `app/main.py:1214`: the wrong stage at 09:16 reports a false BLOCKED, "so pick by the clock" | From 09:15 to 09:30 the clock picks the stage before the open, which `readiness()` calls STALE in the session: the start shows UNTESTED until the recheck. | `BootGivesVerdict` in `Readiness.cfg` |
| `database/repository.py:426`: a file of the exchange is stored "replacing only matching date/symbol bars" | A name that the files keep fresh is not asked of the broker again, so a bar of a running session stays in its history until its file is read again. | `FormingBarsNeverStay` in `Parts.cfg`, as `part = "daily" => Daily!FormingBarsNeverStay` |
| `app/main.py:824`: the boundary is "the latest expected published bhavcopy date" | The broker's candles are asked without an end date and stored whole; the next session may begin with the bar of 10:00 as its previous close. | `Daily!PreviousCloseIsFinal` in `Parts.cfg` |
| `app/main.py:181`: "Require both a current published date and enough depth" | The start looks at the fewest bars and the newest date of the whole table: a name without a bar, or with an old one, is not noticed. | `Daily!StartNoticesGaps` in `Parts.cfg` |

Limits of the same kind that the checked properties state as exemptions:

- `database_backup.py:190`: but for that race the sentence holds (`compared`). A
  refused upload is reported as a success.
- `docs/deployment.md:58`, the backup is "to preserve signal events": only bars
  are compared. An instance whose restore failed fills up again and replaces the
  snapshot and its trades; so does the older of two overlapping instances
  (`forked`). The events that are preserved are those of the day: the next
  upload after 23:59 drops a day's confirmed signals, and after a purge by a
  reader its scalps (`purged`). `docs/deployment.md:58` also says that the
  restore happens "when local daily history is empty"; the code restores below
  the 60-bar target.
- `database/repository.py:1012`, "at most once per five minutes": the minutes
  are between the starts of two scans (`MaxLag`).
- `app/main.py:443`: a refused alert is retried only while scans of the same day
  publish the candidate with enough confidence (`listing`), and a Telegram token
  without a chat id posts nothing and leaves the row reserved (`Stranded`).
- `app/main.py:523`, "Notify once for paper entry ... and recorded exit": an
  event dropped by an error or a restart is never tried again, and a position
  that is replaced within one refresh hides its exit (`lost`).
- `angel_one_stream.py:137`, "conservatively validate cumulative volume": a
  candle after a gap measures from the last counter before the gap and stays
  valid (`missed`).
- `app/main.py:899`, "the rest is topped up after the close": every batch begins
  at the first name that needs bars, and a name the broker has too few bars of
  always needs them. With as many such names as a batch of the session has
  places (three), the names behind them wait for the batch after the close, and
  a day without that batch leaves them stale (`NamesAreFilled` fails in
  `Parts.cfg` with `Unfillable = {1, 2}`).
- `scalp_chain.py:232`: a failed restore of positions is logged and the engine
  goes on with fewer positions than OPEN rows. `StoreMatchesMemory` and
  `CapOnStore` need `LoadMayFail = FALSE`.

## What is not modelled

Of the daily history: the index bars, the seed, the fill of feed gaps, the
download of older archive files. Of the broker: parsers and the instrument
master. The universe, the ban list and the NSE fetcher: downloads with caches,
whose outcome is an input of the models. The calendar, the analytics and the
grading reports: functions of one snapshot without state. The API and the
dashboard: readers, but for the scalp history, whose purge is in `ScalpEngine`.
Rendering, logging and the wording of messages.

## Plan

Done: every part in the table of modules, their runs, and the theorems above.

Next, in order of weight:

1. The scalp engine's candle-history cache and its cooldown, and two clients
   with one account: what the broker sees of spacing and cooldown.
2. `DailyBars` with the batch that outlives the start's 180 seconds and with the
   fill of feed gaps, and as the source of `SnapshotStore`'s `Ingest`.
3. Theorems for what these two add: the spacing of two clients' requests, and
   which bars a fill may replace.
