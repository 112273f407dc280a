---------------------------- MODULE ReadinessProofs ----------------------------
(***************************************************************************)
(* Proofs about Readiness for all values of its constants: how old the     *)
(* verdict may be, and what READY in the session rests on.                 *)
(*                                                                         *)
(* Neither depends on what the session with the broker does, so the        *)
(* invariant says nothing of its variables.                                *)
(***************************************************************************)
EXTENDS Readiness, TLAPS

-----------------------------------------------------------------------------
\* A run that is about to store a good result of after the open has been
\* answered by the broker.
GoodRuns ==
  {Idle} \union
  {r \in Run : r.pc = "store" /\ r.stage = "post_open" /\ r.core => r.live}

\* So has a good result of after the open.
Backed(s, r) == s = "post_open" /\ r # NoResult /\ r.core => r.live

TypeInv ==
  /\ run \in [Threads -> GoodRuns]
  /\ latest \in [Stages -> Result \union {NoResult}]
  /\ newest \in Ages

\* Some stage has a result of about the age of the newest finished run.
RecentInv == \E s \in Stages : latest[s].age <= newest + MaxRun

LiveInv == \A s \in Stages : Backed(s, latest[s])

Inv == TypeInv /\ RecentInv /\ LiveInv

-----------------------------------------------------------------------------

LEMMA Numbers ==
  /\ MaxRun \in Nat /\ PostExpiry \in Nat /\ PreExpiry \in Nat
  /\ PostExpiry <= PreExpiry
  /\ Expired \in Nat /\ Expired > PostExpiry
  /\ \A a \in Ages : a \in Nat /\ a <= Expired
  /\ \A a \in Ages : Older(a) \in Ages
BY ReadinessAssumption DEF Expired, Ages, Older, Lesser

LEMMA ResultsHaveAges ==
  ASSUME TypeInv, NEW s \in Stages
  PROVE  latest[s].age \in Ages
BY Numbers DEF TypeInv, Result, NoResult, Ages

\* The stage that is shown is one with the least age.
LEMMA NewestIsLeast ==
  ASSUME TypeInv, NEW s \in Stages
  PROVE  Newest \in Stages /\ latest[Newest].age <= latest[s].age
<1>1. /\ latest["pre_open"].age \in Nat /\ latest["post_open"].age \in Nat
      /\ Stages = {"pre_open", "post_open"}
  BY ResultsHaveAges, Numbers DEF Stages
<1> QED
  BY <1>1 DEF Newest

-----------------------------------------------------------------------------
(***************************************************************************)
(* What the steps of a run leave in run.                                   *)
(***************************************************************************)

LEMMA GoodRunIsRun ==
  ASSUME TypeInv, NEW t \in Threads, run[t].pc # "idle"
  PROVE  run[t] \in Run /\ run[t] \in GoodRuns
BY DEF TypeInv, GoodRuns, Idle

LEMMA ReplacedRun ==
  ASSUME TypeInv, NEW t \in Threads, NEW r \in GoodRuns,
         run' = [run EXCEPT ![t] = r]
  PROVE  run' \in [Threads -> GoodRuns]
BY DEF TypeInv

LEMMA GotoKeepsRuns ==
  ASSUME TypeInv, NEW t \in Threads, run[t].pc # "idle",
         NEW l \in {"posting", "call", "publish"}, Goto(t, l)
  PROVE  run' \in [Threads -> GoodRuns]
<1> DEFINE r == [run[t] EXCEPT !.pc = l]
<1>1. run[t] \in Run
  BY GoodRunIsRun
<1>2. r \in Run /\ r.pc = l
  BY <1>1 DEF Run
<1>3. r \in GoodRuns
  BY <1>2 DEF GoodRuns
<1>4. run' = [run EXCEPT ![t] = r]
  BY DEF Goto, TypeInv
<1> QED
  BY <1>3, <1>4, ReplacedRun

LEMMA ProbedKeepsRuns ==
  ASSUME TypeInv, NEW t \in Threads, run[t].pc # "idle",
         NEW answered \in BOOLEAN, Probed(t, answered)
  PROVE  run' \in [Threads -> GoodRuns]
<1> DEFINE r == [run[t] EXCEPT
                   !.core = run[t].core /\ (answered \/ run[t].stage = "pre_open"),
                   !.live = answered, !.again = FALSE, !.pc = "store"]
<1>1. run[t] \in Run
  BY GoodRunIsRun
<1>2. /\ r \in Run
      /\ r.stage = run[t].stage /\ r.live = answered
      /\ r.core = (run[t].core /\ (answered \/ run[t].stage = "pre_open"))
  BY <1>1 DEF Run
<1>3. r.stage = "post_open" /\ r.core => r.live
  BY <1>2
<1>4. r \in GoodRuns
  BY <1>2, <1>3 DEF GoodRuns
<1>5. run' = [run EXCEPT ![t] = r]
  BY DEF Probed, TypeInv
<1> QED
  BY <1>4, <1>5, ReplacedRun

LEMMA EndKeepsRuns ==
  ASSUME TypeInv, NEW t \in Threads, run' = [run EXCEPT ![t] = Idle]
  PROVE  run' \in [Threads -> GoodRuns]
BY ReplacedRun DEF GoodRuns

LEMMA BeginKeepsRuns ==
  ASSUME TypeInv, NEW t \in Threads,
         NEW kind \in {"recheck", "boot", "extra"}, NEW s \in Stages,
         Begin(t, kind, s)
  PROVE  run' \in [Threads -> GoodRuns]
<1> DEFINE core == s = "pre_open" => KnowsSession
           r == [kind |-> kind, stage |-> s, pc |-> "login", age |-> 0,
                 core |-> core, live |-> FALSE, again |-> FALSE]
<1>1. core \in BOOLEAN
  OBVIOUS
<1>2. 0 \in 0 .. MaxRun
  BY Numbers
<1>3. r \in Run
  BY <1>1, <1>2 DEF Run
<1>4. r \in GoodRuns
  BY <1>3 DEF GoodRuns
<1>5. run' = [run EXCEPT ![t] = r]
  BY DEF Begin, FirstCall
<1> QED
  BY <1>4, <1>5, ReplacedRun

-----------------------------------------------------------------------------
(***************************************************************************)
(* What the steps do to the invariant.                                     *)
(***************************************************************************)

\* A step that stores nothing.
LEMMA NothingStored ==
  ASSUME Inv, run' \in [Threads -> GoodRuns], UNCHANGED <<latest, newest>>
  PROVE  Inv'
BY DEF Inv, TypeInv, RecentInv, LiveInv, Backed

LEMMA StoreInv ==
  ASSUME Inv, NEW t \in Threads, NEW pass \in BOOLEAN, Store(t, pass)
  PROVE  Inv'
<1> DEFINE s == run[t].stage
           r == [age |-> run[t].age, core |-> run[t].core /\ pass,
                 live |-> run[t].live]
<1>1. run[t] \in Run /\ run[t] \in GoodRuns /\ run[t].pc = "store"
  BY GoodRunIsRun DEF Store, At, Inv
<1>2. /\ s \in Stages /\ run[t].age \in 0 .. MaxRun
      /\ run[t].core \in BOOLEAN /\ run[t].live \in BOOLEAN
  BY <1>1 DEF Run
<1>3. MaxRun <= Expired
  BY ReadinessAssumption, Numbers DEF Expired
<1>4. run[t].age \in Ages /\ r \in Result
  BY <1>2, <1>3, Numbers DEF Result, Ages
<1>5. latest' = [latest EXCEPT ![s] = r]
  BY DEF Store
<1>6. TypeInv'
  <2>1. run' \in [Threads -> GoodRuns]
    <3>1. CASE run[t].kind = "extra"
      BY <3>1, EndKeepsRuns DEF Store, Inv
    <3>2. CASE run[t].kind # "extra"
      BY <1>1, <3>2, GotoKeepsRuns DEF Store, Inv
    <3> QED
      BY <3>1, <3>2
  <2>2. latest' \in [Stages -> Result \union {NoResult}]
    BY <1>2, <1>4, <1>5 DEF Inv, TypeInv
  <2>3. newest' \in Ages
    BY <1>4 DEF Store, Lesser, Inv, TypeInv
  <2> QED
    BY <2>1, <2>2, <2>3 DEF TypeInv
<1>7. RecentInv'
  <2>1. latest'[s].age = run[t].age
    BY <1>2, <1>5 DEF Inv, TypeInv
  <2>2. newest' \in Nat
    BY <1>6, Numbers DEF TypeInv
  <2>3. latest'[s].age <= newest' + MaxRun
    BY <1>2, <2>1, <2>2, Numbers
  <2> QED
    BY <1>2, <2>3 DEF RecentInv
<1>8. LiveInv'
  <2>1. Backed(s, r)
    <3>1. s = "post_open" /\ run[t].core => run[t].live
      BY <1>1 DEF GoodRuns, Idle
    <3> QED
      BY <3>1 DEF Backed
  <2>2. \A q \in Stages : Backed(q, latest'[q])
    BY <1>2, <1>5, <2>1 DEF Inv, TypeInv, LiveInv
  <2> QED
    BY <2>2 DEF LiveInv, Backed
<1> QED
  BY <1>6, <1>7, <1>8 DEF Inv

LEMMA TickInv ==
  ASSUME Inv, Tick
  PROVE  Inv'
<1> DEFINE older(r) == [r EXCEPT !.age = Older(r.age)]
           aged(r) == IF r = Idle THEN Idle ELSE [r EXCEPT !.age = r.age + 1]
<1>1. latest' = [s \in Stages |-> older(latest[s])]
  BY DEF Tick, Inv, TypeInv
<1>2. \A r \in Result \union {NoResult} :
        /\ older(r) \in Result \union {NoResult}
        /\ older(r).age = Older(r.age)
        /\ older(r) # NoResult =>
             r # NoResult /\ older(r).core = r.core /\ older(r).live = r.live
  <2>1. ASSUME NEW r \in Result
        PROVE  /\ older(r) \in Result /\ older(r).age = Older(r.age)
               /\ older(r).core = r.core /\ older(r).live = r.live
    BY Numbers DEF Result
  <2>2. older(NoResult) = NoResult /\ Older(Expired) = Expired
    BY Numbers DEF NoResult, Older, Lesser
  <2>3. \A r \in Result : r # NoResult
    BY DEF Result, NoResult
  <2> QED
    BY <2>1, <2>2, <2>3 DEF NoResult
<1>3. run' \in [Threads -> GoodRuns]
  <2>1. run' = [t \in Threads |-> aged(run[t])]
    BY DEF Tick, Inv, TypeInv
  <2>2. ASSUME NEW t \in Threads
        PROVE  aged(run[t]) \in GoodRuns
    <3>1. CASE run[t] = Idle
      BY <3>1 DEF GoodRuns
    <3>2. CASE run[t] # Idle
      <4>1. run[t] \in Run /\ run[t] \in GoodRuns /\ run[t].age < MaxRun
        BY <3>2 DEF Tick, Inv, TypeInv, GoodRuns
      <4>2. run[t].age + 1 \in 0 .. MaxRun
        BY <4>1, Numbers DEF Run
      <4>3. /\ aged(run[t]) \in Run
            /\ aged(run[t]).pc = run[t].pc /\ aged(run[t]).stage = run[t].stage
            /\ aged(run[t]).core = run[t].core /\ aged(run[t]).live = run[t].live
        BY <3>2, <4>1, <4>2 DEF Run
      <4> QED
        BY <3>2, <4>1, <4>3 DEF GoodRuns
    <3> QED
      BY <3>1, <3>2
  <2> QED
    BY <2>1, <2>2
<1>4. TypeInv'
  BY <1>1, <1>2, <1>3, Numbers DEF Tick, Inv, TypeInv
<1>5. RecentInv'
  <2>1. PICK s \in Stages : latest[s].age <= newest + MaxRun
    BY DEF Inv, RecentInv
  <2>2. latest'[s].age = Older(latest[s].age) /\ newest' = Older(newest)
    BY <1>1, <1>2 DEF Tick, Inv, TypeInv
  <2>3. latest[s].age \in Nat /\ newest \in Nat
    BY ResultsHaveAges, Numbers DEF Inv, TypeInv
  <2>4. Older(latest[s].age) <= Older(newest) + MaxRun
    BY <2>1, <2>3, Numbers DEF Older, Lesser
  <2> QED
    BY <2>2, <2>4 DEF RecentInv
<1>6. LiveInv'
  <2>1. \A s \in Stages : Backed(s, latest'[s])
    BY <1>1, <1>2 DEF Inv, TypeInv, LiveInv, Backed
  <2> QED
    BY <2>1 DEF LiveInv, Backed
<1> QED
  BY <1>4, <1>5, <1>6 DEF Inv

LEMMA StepInv ==
  ASSUME Inv, NEW t \in Threads, Step(t)
  PROVE  Inv'
<1>0. TypeInv
  BY DEF Inv
<1>1. CASE Login(t)
  <2>1. run' \in [Threads -> GoodRuns]
    <3>1. run[t].pc # "idle"
      BY <1>1 DEF Login, At
    <3>2. Probed(t, FALSE) \/ Goto(t, "call") \/ Goto(t, "posting")
      BY <1>1 DEF Login
    <3> QED
      BY <1>0, <3>1, <3>2, ProbedKeepsRuns, GotoKeepsRuns
  <2> QED
    BY <1>1, <2>1, NothingStored DEF Login
<1>2. CASE Accepted(t)
  <2>1. run' \in [Threads -> GoodRuns]
    BY <1>0, <1>2, GotoKeepsRuns DEF Accepted, At
  <2> QED
    BY <1>2, <2>1, NothingStored DEF Accepted
<1>3. CASE NotAccepted(t)
  <2>1. run' \in [Threads -> GoodRuns]
    BY <1>0, <1>3, ProbedKeepsRuns DEF NotAccepted, At
  <2> QED
    BY <1>3, <2>1, NothingStored DEF NotAccepted
<1>4. CASE Served(t)
  <2>1. run' \in [Threads -> GoodRuns]
    BY <1>0, <1>4, ProbedKeepsRuns DEF Served, At
  <2> QED
    BY <1>4, <2>1, NothingStored DEF Served
<1>5. CASE Denied(t)
  <2> DEFINE r == [run[t] EXCEPT !.pc = "login", !.again = TRUE]
  <2>1. run[t] \in Run /\ run[t].pc # "idle"
    BY <1>0, <1>5, GoodRunIsRun DEF Denied, At
  <2>2. r \in GoodRuns
    BY <2>1 DEF Run, GoodRuns
  <2>3. Probed(t, FALSE) \/ run' = [run EXCEPT ![t] = r]
    BY <1>0, <1>5 DEF Denied, TypeInv
  <2>4. run' \in [Threads -> GoodRuns]
    BY <1>0, <2>1, <2>2, <2>3, ProbedKeepsRuns, ReplacedRun
  <2> QED
    BY <1>5, <2>4, NothingStored DEF Denied
<1>6. CASE Unserved(t)
  <2>1. run' \in [Threads -> GoodRuns]
    BY <1>0, <1>6, ProbedKeepsRuns DEF Unserved, At
  <2> QED
    BY <1>6, <2>1, NothingStored DEF Unserved
<1>7. CASE Store(t, TRUE) \/ Store(t, FALSE)
  BY <1>7, StoreInv
<1>8. CASE Publish(t)
  <2>1. run' \in [Threads -> GoodRuns]
    BY <1>0, <1>8, EndKeepsRuns DEF Publish
  <2> QED
    BY <1>8, <2>1, NothingStored DEF Publish
<1> QED
  BY <1>1, <1>2, <1>3, <1>4, <1>5, <1>6, <1>7, <1>8 DEF Step

\* The steps that begin a run.
LEMMA BeginInv ==
  ASSUME Inv, RecheckBegins \/ BootBegins \/ ExtraBegins
  PROVE  Inv'
<1>1. \E t \in Threads, kind \in {"recheck", "boot", "extra"}, s \in Stages :
        Begin(t, kind, s)
  BY ReadinessAssumption DEF RecheckBegins, BootBegins, ExtraBegins, Stages
<1>2. PICK t \in Threads, kind \in {"recheck", "boot", "extra"}, s \in Stages :
        Begin(t, kind, s)
  BY <1>1
<1>3. run' \in [Threads -> GoodRuns]
  BY <1>2, BeginKeepsRuns DEF Inv
<1> QED
  BY <1>2, <1>3, NothingStored DEF Begin

LEMMA InitInv == Init => Inv
<1> SUFFICES ASSUME Init
             PROVE  Inv
  OBVIOUS
<1>1. TypeInv
  BY Numbers DEF Init, TypeInv, GoodRuns, Ages
<1>2. RecentInv
  BY Numbers DEF Init, RecentInv, NoResult, Stages
<1>3. LiveInv
  BY DEF Init, LiveInv, Backed
<1> QED
  BY <1>1, <1>2, <1>3 DEF Inv

LEMMA NextInv == Inv /\ [Next]_vars => Inv'
<1> SUFFICES ASSUME Inv, [Next]_vars
             PROVE  Inv'
  OBVIOUS
<1>1. CASE \E t \in Threads : Step(t)
  BY <1>1, StepInv
<1>2. CASE RecheckBegins \/ BootBegins \/ ExtraBegins
  BY <1>2, BeginInv
<1>3. CASE BootWaits \/ BackfillTimesOut \/ OtherLogin \/ Drop
  <2>1. UNCHANGED <<run, latest, newest>>
    BY <1>3 DEF BootWaits, BackfillTimesOut, OtherLogin, Drop
  <2> QED
    BY <2>1, NothingStored DEF Inv, TypeInv
<1>4. CASE Tick
  BY <1>4, TickInv
<1>5. CASE UNCHANGED vars
  <2>1. UNCHANGED <<run, latest, newest>>
    BY <1>5 DEF vars
  <2> QED
    BY <2>1, NothingStored DEF Inv, TypeInv
<1> QED
  BY <1>1, <1>2, <1>3, <1>4, <1>5 DEF Next

-----------------------------------------------------------------------------
(***************************************************************************)
(* The theorems.                                                           *)
(***************************************************************************)

\* The verdict shown (self_test.readiness) is older than the newest finished
\* run by the time one run takes at most, whatever the stages, the threads and
\* their number.
THEOREM VerdictsAreRecent == Spec => []VerdictIsRecent
<1>1. Inv => VerdictIsRecent
  <2> SUFFICES ASSUME Inv
               PROVE  latest[Newest].age <= newest + MaxRun
    BY DEF VerdictIsRecent
  <2>1. PICK s \in Stages : latest[s].age <= newest + MaxRun
    BY DEF Inv, RecentInv
  <2>2. Newest \in Stages /\ latest[Newest].age <= latest[s].age
    BY NewestIsLeast DEF Inv
  <2>3. latest[Newest].age \in Nat /\ latest[s].age \in Nat /\ newest \in Nat
    BY <2>2, ResultsHaveAges, Numbers DEF Inv, TypeInv
  <2> QED
    BY <2>1, <2>2, <2>3, Numbers
<1> QED
  BY <1>1, InitInv, NextInv, PTL DEF Spec

\* READY between 09:15 and 15:15 (self_test.readiness) rests on a run of the
\* last quarter of an hour whose call the broker answered.
THEOREM ReadyRestsOnACall == Spec => []ReadyInSessionIsLive
<1>1. Inv => ReadyInSessionIsLive
  <2> SUFFICES ASSUME Inv, phase = "session", Readiness = "READY"
               PROVE  latest[Newest].live /\ latest[Newest].age <= PostExpiry
    BY DEF ReadyInSessionIsLive
  <2>1. ~Stale(Newest) /\ latest[Newest].core
    BY DEF Readiness
  <2>2. Newest = "post_open"
    BY <2>1 DEF Stale, Newest
  <2>3. latest[Newest].age <= PostExpiry
    <3>1. Newest \in Stages
      BY <2>2 DEF Stages
    <3>2. latest[Newest].age \in Nat
      BY <3>1, ResultsHaveAges, Numbers DEF Inv
    <3> QED
      BY <2>1, <2>2, <3>2, Numbers DEF Stale
  <2>4. latest[Newest] # NoResult
    BY <2>3, Numbers DEF NoResult
  <2>5. latest[Newest].live
    BY <2>1, <2>2, <2>4 DEF Inv, LiveInv, Backed, Stages
  <2> QED
    BY <2>3, <2>5
<1> QED
  BY <1>1, InitInv, NextInv, PTL DEF Spec

=============================================================================
