------------------------------- MODULE Readiness -------------------------------
(***************************************************************************)
(* The self-test and the startup state.  Runs of a stage probe the session *)
(* with the broker, the broker itself and the local inputs (bars and       *)
(* universe, or the rows of the last scan), and leave a result that        *)
(* carries the time the run began.  readiness() shows the result that      *)
(* began last, unless it has expired; the recheck every five minutes and   *)
(* the start of the process copy it to _startup_state.                     *)
(*                                                                         *)
(* Runs overlap: the recheck, the start of the process, the runs of 09:05  *)
(* and 09:35 and those of an operator each have a thread.  Everything here *)
(* is lost with the process, so a restart is an initial state.             *)
(***************************************************************************)
EXTENDS AngelSession

CONSTANTS
  Gap,         \* five minutes, in ticks
  MaxRun,      \* bound: a run takes no longer
  PostExpiry,  \* 900 seconds
  PreExpiry,   \* 18 hours
  MaxExtras    \* bound: runs besides those of the recheck

ASSUME ReadinessAssumption ==
  /\ Gap \in Nat \ {0} /\ MaxRun \in Nat /\ MaxRun <= Gap
  /\ PostExpiry \in Nat /\ Gap <= PostExpiry
  /\ PreExpiry \in Nat /\ PostExpiry <= PreExpiry
  /\ MaxExtras \in Nat
  /\ "recheck" \in Threads /\ "other" \in Threads

VARIABLES
  phase,   \* "closed", "session" from 09:15, "late" from 15:15 to 15:30
  run,     \* the run of each thread
  latest,  \* _latest: the last result of each stage
  state,   \* _startup_state
  boot,    \* the start: "due", "waiting" for the backfill, or "done"
  wait,    \* ticks since the recheck began its last run
  began,   \* bound: a run began in this tick
  extras,  \* bound: runs besides those of the recheck
  newest   \* history: ticks since the start of the newest finished run

jobs == <<boot, wait, began, extras>>
vars == <<session, phase, run, latest, state, jobs, newest>>

Stages == {"pre_open", "post_open"}

\* A result of this age has expired in either stage.
Expired == PreExpiry + 1
Ages    == 0 .. Expired
Older(age) == Lesser(age + 1, Expired)

Run == [kind : {"recheck", "boot", "extra"}, stage : Stages,
        pc : {"login", "posting", "call", "store", "publish"},
        age : 0 .. MaxRun,
        core : BOOLEAN,   \* no critical probe has failed
        live : BOOLEAN,   \* history: the broker answered its call
        again : BOOLEAN]  \* after "invalid token"
Idle == [pc |-> "idle"]

Result == [age : Ages, core : BOOLEAN, live : BOOLEAN]
NoResult == [age |-> Expired]

Init ==
  /\ SessionInit
  /\ phase \in {"closed", "session", "late"}
  /\ run = [t \in Threads |-> Idle]
  /\ latest = [s \in Stages |-> NoResult]
  /\ state = "STARTING" /\ boot = "due"
  /\ wait = 0 /\ began = FALSE /\ extras = 0
  /\ newest = Expired

-----------------------------------------------------------------------------
(***************************************************************************)
(* The verdict.                                                            *)
(***************************************************************************)

Tested == {s \in Stages : latest[s] # NoResult}

\* Mutant: the stage that was tested first is shown.
FirstStage == IF "pre_open" \in Tested THEN "pre_open" ELSE "post_open"

\* The result whose run began last.
Newest ==
  IF \A s \in Stages : latest["post_open"].age <= latest[s].age
    THEN "post_open" ELSE "pre_open"

\* Mutant: a result of before the open is good for its 18 hours.
StaleByAge(s) ==
  latest[s].age > (IF s = "pre_open" THEN PreExpiry ELSE PostExpiry)

Stale(s) ==
  \/ s = "post_open" /\ latest[s].age > PostExpiry
  \/ s = "pre_open" /\ (latest[s].age > PreExpiry \/ phase = "session")

Readiness ==
  IF Tested = {} THEN "UNTESTED"
  ELSE IF Stale(Newest) THEN "STALE"
  ELSE IF latest[Newest].core THEN "READY" ELSE "BLOCKED"

-----------------------------------------------------------------------------
(***************************************************************************)
(* The runs.                                                               *)
(***************************************************************************)

\* Mutant: the stage of before the open leaves the broker alone.
FirstCallAfterOpen(s) == IF s = "pre_open" THEN "store" ELSE "login"

\* Both stages call the broker: for candles, or for quotes.
FirstCall(s) == "login"

\* angel_session reads what the client knows of its session, without a call.
KnowsSession == breaker = 0 /\ jwt # "none"

\* A run of a stage and, before the open, its first probe.
Begin(t, kind, s) ==
  /\ run[t] = Idle /\ ~began /\ began' = TRUE
  /\ run' = [run EXCEPT ![t] =
       [kind |-> kind, stage |-> s, pc |-> FirstCall(s), age |-> 0,
        core |-> s = "pre_open" => KnowsSession,
        live |-> FALSE, again |-> FALSE]]
  /\ UNCHANGED <<session, phase, latest, state, newest>>

RecheckBegins ==
  /\ wait >= Gap /\ wait' = 0
  /\ Begin("recheck", "recheck", IF phase = "closed" THEN "pre_open" ELSE "post_open")
  /\ UNCHANGED <<boot, extras>>

\* From 09:15 to 09:30 the start runs the stage of before the open.
BootBegins ==
  /\ boot # "done" /\ boot' = "done" /\ extras' = extras + 1
  /\ \E s \in Stages :
       /\ phase = "closed" => s = "pre_open"
       /\ phase = "late" => s = "post_open"
       /\ Begin("other", "boot", s)
  /\ UNCHANGED wait

\* The runs of 09:05 and 09:35, and an operator's of any stage.
ExtraBegins ==
  /\ boot = "done" /\ extras < MaxExtras /\ extras' = extras + 1
  /\ \E s \in Stages : Begin("other", "extra", s)
  /\ UNCHANGED <<boot, wait>>

At(t, l) == run[t].pc = l
Goto(t, l) == run' = [run EXCEPT ![t].pc = l]

\* The probe of the broker ends.  It is critical after the open only.
Probed(t, answered) ==
  run' = [run EXCEPT ![t].core = @ /\ (answered \/ run[t].stage = "pre_open"),
                     ![t].live = answered, ![t].again = FALSE,
                     ![t].pc = "store"]

\* The calls that a stage makes of the broker log in first.
Login(t) ==
  /\ At(t, "login") /\ lock = "nobody"
  /\ \/ Refuse(run[t].again) /\ Probed(t, FALSE)
     \/ Reuse(run[t].again) /\ Goto(t, "call")
     \/ PostLogin(t, run[t].again) /\ Goto(t, "posting")
  /\ UNCHANGED <<phase, latest, state, jobs, newest>>

Accepted(t) ==
  /\ At(t, "posting") /\ LoginAccepted /\ Goto(t, "call")
  /\ UNCHANGED <<phase, latest, state, jobs, newest>>

NotAccepted(t) ==
  /\ At(t, "posting") /\ (LoginFails \/ LoginEmpty) /\ Probed(t, FALSE)
  /\ UNCHANGED <<phase, latest, state, jobs, newest>>

Served(t) ==
  /\ At(t, "call") /\ jwt = "valid" /\ Probed(t, TRUE)
  /\ UNCHANGED <<session, phase, latest, state, jobs, newest>>

\* "invalid token": the call logs in once more.
Denied(t) ==
  /\ At(t, "call") /\ jwt # "valid"
  /\ IF run[t].again THEN Probed(t, FALSE)
     ELSE run' = [run EXCEPT ![t].pc = "login", ![t].again = TRUE]
  /\ UNCHANGED <<session, phase, latest, state, jobs, newest>>

\* Refused, timed out, or answered with too little.
Unserved(t) ==
  /\ At(t, "call") /\ Probed(t, FALSE)
  /\ UNCHANGED <<session, phase, latest, state, jobs, newest>>

\* The probes of the local inputs pass or fail, and run_stage stores the result
\* under the time the run began.
Store(t, pass) ==
  /\ At(t, "store")
  /\ latest' = [latest EXCEPT ![run[t].stage] =
       [age |-> run[t].age, core |-> run[t].core /\ pass, live |-> run[t].live]]
  /\ newest' = Lesser(newest, run[t].age)
  /\ IF run[t].kind = "extra" THEN run' = [run EXCEPT ![t] = Idle]
     ELSE Goto(t, "publish")
  /\ UNCHANGED <<session, phase, state, jobs>>

\* Mutant: the recheck only ever promotes.
RecheckedUp(verdict) == IF verdict = "READY" THEN verdict ELSE state

\* The recheck leaves the state alone when the verdict is STALE.
Rechecked(verdict) ==
  IF verdict \in {"READY", "BLOCKED"} THEN verdict ELSE state

Booted(verdict) ==
  IF verdict \in {"READY", "BLOCKED"} THEN verdict ELSE "UNTESTED"

Publish(t) ==
  /\ At(t, "publish")
  /\ state' = IF run[t].kind = "boot" THEN Booted(Readiness)
              ELSE Rechecked(Readiness)
  /\ run' = [run EXCEPT ![t] = Idle]
  /\ UNCHANGED <<session, phase, latest, jobs, newest>>

-----------------------------------------------------------------------------
(***************************************************************************)
(* The start, the other jobs and the day.                                  *)
(***************************************************************************)

\* The daily history is short: the start waits for its backfill.
BootWaits ==
  /\ boot = "due" /\ boot' = "waiting" /\ state' = "BLOCKED"
  /\ UNCHANGED <<session, phase, run, latest, wait, began, extras, newest>>

\* The backfill takes longer than 180 seconds, and the start tests nothing.
\* It looked at the market when it began, a phase ago at most.
BackfillTimesOut ==
  /\ boot = "waiting" /\ boot' = "done"
  /\ state' \in {"BLOCKED", "DEGRADED"}
  /\ UNCHANGED <<session, phase, run, latest, wait, began, extras, newest>>

\* A scan or a trade monitor logs in.
OtherLogin ==
  /\ lock = "nobody" /\ breaker = 0 /\ ~Fresh(jwt)
  /\ LoginAccepted \/ LoginFails
  /\ UNCHANGED <<phase, run, latest, state, jobs, newest>>

\* The broker drops the token.  (A token of eight hours is renewed like a
\* missing one, and left out.)
Drop ==
  /\ TokenEnds /\ jwt' = "rejected"
  /\ UNCHANGED <<phase, run, latest, state, jobs, newest>>

NextPhase ==
  CASE phase = "closed"  -> "session"
    [] phase = "session" -> "late"
    [] phase = "late"    -> "closed"

\* The scheduler is on time: a tick does not pass a recheck that is due, unless
\* another run began in it.
Tick ==
  /\ \A t \in Threads : run[t] # Idle => run[t].age < MaxRun
  /\ wait < Gap \/ began \/ run["recheck"] # Idle
  /\ SessionTick
  /\ phase' \in {phase, NextPhase}
  /\ run' = [t \in Threads |->
       IF run[t] = Idle THEN Idle ELSE [run[t] EXCEPT !.age = @ + 1]]
  /\ latest' = [s \in Stages |-> [latest[s] EXCEPT !.age = Older(@)]]
  /\ wait' = Lesser(wait + 1, Gap) /\ began' = FALSE
  /\ newest' = Older(newest)
  /\ UNCHANGED <<state, boot, extras>>

Step(t) ==
  \/ Login(t) \/ Accepted(t) \/ NotAccepted(t)
  \/ Served(t) \/ Denied(t) \/ Unserved(t)
  \/ Store(t, TRUE) \/ Store(t, FALSE) \/ Publish(t)

Next ==
  \/ (\E t \in Threads : Step(t))
  \/ RecheckBegins \/ BootBegins \/ ExtraBegins
  \/ BootWaits \/ BackfillTimesOut \/ OtherLogin \/ Drop \/ Tick

Spec == Init /\ [][Next]_vars

\* The scheduler runs, and every probe and the startup backfill end: their
\* requests have timeouts.
Fairness ==
  /\ WF_vars(Tick) /\ WF_vars(RecheckBegins)
  /\ WF_vars(BootBegins \/ BackfillTimesOut)
  /\ \A t \in Threads : WF_vars(Step(t))

FairSpec == Spec /\ Fairness

-----------------------------------------------------------------------------
(***************************************************************************)
(* Properties.                                                             *)
(***************************************************************************)

\* Every variable keeps its type, and the lock of the session is held by the
\* run that posts a login.
TypeOK ==
  /\ SessionTypeOK
  /\ phase \in {"closed", "session", "late"}
  /\ run \in [Threads -> Run \union {Idle}]
  /\ latest \in [Stages -> Result \union {NoResult}]
  /\ state \in {"STARTING", "UNTESTED", "READY", "DEGRADED", "BLOCKED"}
  /\ boot \in {"due", "waiting", "done"} /\ wait \in 0 .. Gap
  /\ began \in BOOLEAN /\ extras \in 0 .. MaxExtras
  /\ newest \in Ages
  /\ \A t \in Threads : At(t, "posting") <=> lock = t

\* self_test.py:159: the verdict shown is that of the newest run, whichever
\* stage it was of and whichever thread finished last.  A slow run of the same
\* stage may replace a newer result, so the verdict may be older than the
\* newest finished run by the time one run takes, and no more.
VerdictIsRecent ==
  Readiness \in {"READY", "BLOCKED"}
    => latest[Newest].age <= newest + MaxRun

\* self_test.py:155: "old successful probes are not live proof": between 09:15
\* and 15:15 the service only reads READY on a run of the last quarter of an
\* hour that the broker answered, whatever was tested before the open or is
\* being tested, and though the session probe makes no call.
ReadyInSessionIsLive ==
  phase = "session" /\ Readiness = "READY"
    => latest[Newest].live /\ latest[Newest].age <= PostExpiry

\* A call that fails, a token that ends, local inputs that fall short.
Trouble ==
  \/ \E t \in Threads :
       \/ NotAccepted(t)
       \/ At(t, "call") /\ (jwt = "valid" \/ ~run[t].again) /\ Unserved(t)
       \/ At(t, "store") /\ run[t].core /\ Store(t, FALSE)
  \/ OtherLogin /\ breaker' > 0
  \/ Drop

\* A login or a call that the broker answers.
Service == \E t \in Threads : Accepted(t) \/ Served(t)

\* main.py:1240: "so the service can recover without another restart": once
\* the broker and the inputs are back for good, the startup state is READY
\* again and again, at any time of the day, after a refused login opened the
\* breaker and though the first probe of the night only reads the session.
BlockedRecovers ==
  <>[][~Trouble]_vars => []<>(state = "READY")

\* An outage that lasts through a session takes READY off the startup state
\* for good: a STALE verdict, which the recheck does not write, cannot keep it.
OutageIsReported ==
  <>[][~Service]_vars /\ <>[](phase = "session") => <>[](state # "READY")

-----------------------------------------------------------------------------
(***************************************************************************)
(* What the documents say and the code does not keep.  No configuration    *)
(* checks these; the README tells where TLC finds them violated ("Where    *)
(* the code and its words differ").                                        *)
(***************************************************************************)

\* self_test.py:3: the test "Proves - with real calls, not assumptions" that
\* the inputs arrive.  Before the open the critical session probe reads a token
\* kept from before: a run that the broker refused throughout may store READY.
ReadyIsProved == Readiness = "READY" => latest[Newest].live

\* main.py:1214: running the wrong stage at 09:16 "reports a false BLOCKED for
\* hours, so pick by the clock".  The stage it picks from 09:15 to 09:30 is the
\* one readiness() never accepts in the session.
BootGivesVerdict ==
  [][\A t \in Threads :
       At(t, "publish") /\ run[t].kind = "boot" => state' # "UNTESTED"]_vars

=============================================================================
