------------------------------ MODULE AngelClient ------------------------------
(***************************************************************************)
(* The threads that ask the broker for quotes and for historical candles.  *)
(* Quotes are spaced by a time that is read and written without a lock;    *)
(* candle requests by a lock that is held through the whole request, and a *)
(* cooldown after HTTP 403 or 429.  A request that the broker answers with *)
(* "invalid token" is posted once more after a forced login.               *)
(***************************************************************************)
EXTENDS AngelSession

CONSTANTS
  QuoteGap,   \* one second, in ticks
  HistGap,    \* ANGEL_HIST_MIN_INTERVAL and ANGEL_HIST_QUOTE_GAP_S, 4 s
  RetryWait,  \* ANGEL_HIST_RETRY_WAIT_S
  Cooldown,   \* ANGEL_HIST_COOLDOWN_S
  MaxCooldown \* ANGEL_HIST_COOLDOWN_MAX_S

ASSUME ClientAssumption ==
  /\ QuoteGap \in Nat \ {0} /\ HistGap \in Nat \ {0} /\ RetryWait \in Nat
  /\ Cooldown \in Nat \ {0} /\ MaxCooldown \in Nat
  /\ MaxCooldown <= 8 * Cooldown  \* 60 s and 300 s

VARIABLES
  call,       \* what each thread does
  histLock,   \* the thread that holds _hist_request_lock, within which alone
              \* _hist_wait takes _hist_lock
  quoteAge,   \* ticks since _last_quote_at
  histAge,    \* ticks since _last_hist_at
  block,      \* ticks until _hist_block_until
  n403,       \* _hist_consecutive_403, up to Streak
  posted,     \* history: ticks since a candle request that was paced
  owed,       \* history: ticks of cooldown left, counted from the failures
  fails,      \* history: logins that failed since the last success, up to 3
  cooled      \* history: ticks since the last of them

pace  == <<quoteAge, histAge, block, n403>>
tally == <<fails, cooled>>
vars  == <<session, call, histLock, pace, posted, owed, tally>>

Greater(m, n) == IF m < n THEN n ELSE m

\* A longer streak of HTTP 403 doubles the cooldown to no more than its
\* maximum.
Streak == IF MaxCooldown <= 4 * Cooldown THEN 3 ELSE 4

\* Ages beyond this one are all alike.
Farthest == Greater(QuoteGap, HistGap)

\* No quote has been answered yet: nothing waits for one.
NeverAsked == Farthest + 1

\* The quotes of symbols, the option chain of a symbol, and its candles.
Kinds == {"quote", "chain", "hist"}

Call == [pc : {"login", "posting", "lock", "pace", "sleep", "repost", "answer"},
         kind : Kinds,
         again : BOOLEAN,  \* after "invalid token"
         try : 0 .. 1,     \* of the loop that retries 403
         wait : 0 .. Greater(Farthest, RetryWait),
         token : {"none", "valid", "old", "rejected"}]
Idle == [pc |-> "idle"]

Init ==
  /\ SessionInit
  /\ call = [t \in Threads |-> Idle] /\ histLock = "nobody"
  /\ quoteAge = NeverAsked /\ histAge = Farthest
  /\ block = 0 /\ n403 = 0 /\ posted = Farthest /\ owed = 0
  /\ fails = 0 /\ cooled = 0

At(t, l)   == call[t].pc = l
Goto(t, l) == call' = [call EXCEPT ![t].pc = l]

\* The call returns or raises.
Ends(t) ==
  /\ call' = [call EXCEPT ![t] = Idle]
  /\ histLock' = IF histLock = t THEN "nobody" ELSE histLock

-----------------------------------------------------------------------------

Begin(t, kind) ==
  /\ call[t] = Idle
  /\ call' = [call EXCEPT ![t] =
       [pc |-> "login", kind |-> kind, again |-> FALSE, try |-> 0, wait |-> 0,
        token |-> "none"]]
  /\ UNCHANGED <<session, histLock, pace, posted, owed, tally>>

\* The contracts of a chain are known before it logs in; without a pair at the
\* nearest expiry it does not.
AskChain(t) == Begin(t, "chain")

\* No instrument, or the master cannot be loaded.  (A load holds the lock of
\* the session, so that logins wait for it: that wait is not modelled.)
Unlisted(t) == call[t].kind # "chain" /\ Ends(t)

\* Where a call goes on with a token.
LoggedIn(t) ==
  \/ call[t].again /\ Goto(t, "repost") /\ UNCHANGED histLock
  \/ /\ ~call[t].again /\ UNCHANGED histLock
     /\ Goto(t, IF call[t].kind = "hist" THEN "lock" ELSE "pace")
  \/ ~call[t].again /\ Unlisted(t)

\* _login up to its post.
Login(t) ==
  /\ At(t, "login") /\ lock = "nobody"
  /\ \/ Refuse(call[t].again) /\ Ends(t)
     \/ Reuse(call[t].again) /\ LoggedIn(t)
     \/ PostLogin(t, call[t].again) /\ Goto(t, "posting") /\ UNCHANGED histLock
  /\ UNCHANGED <<pace, posted, owed, tally>>

Accepted(t) ==
  /\ At(t, "posting") /\ LoginAccepted /\ LoggedIn(t)
  /\ fails' = 0 /\ cooled' = 0
  /\ UNCHANGED <<pace, posted, owed>>

NotAccepted(t) ==
  /\ At(t, "posting") /\ Ends(t)
  /\ \/ LoginFails /\ fails' = Lesser(fails + 1, 3) /\ cooled' = 0
     \/ LoginEmpty /\ UNCHANGED tally
  /\ UNCHANGED <<pace, posted, owed>>

\* Mutant: neither _hist_request_lock nor the _hist_lock of the wait is taken.
TakeFree(t) ==
  /\ At(t, "lock") /\ Goto(t, "pace")
  /\ UNCHANGED <<session, histLock, pace, posted, owed, tally>>

Take(t) ==
  /\ At(t, "lock") /\ histLock = "nobody" /\ histLock' = t
  /\ Goto(t, "pace")
  /\ UNCHANGED <<session, pace, posted, owed, tally>>

Sleep(t, n) == call' = [call EXCEPT ![t].pc = "sleep", ![t].wait = n]

Short(age, gap) == IF age < gap THEN gap - age ELSE 0

\* quotes_by_token does not look at the candle requests.
ChainWait == Short(quoteAge, QuoteGap)

QuoteWait ==
  IF quoteAge = NeverAsked THEN 0
  ELSE Short(Lesser(quoteAge, histAge), QuoteGap)

\* A quote waits for what is left of the second since the last answer or
\* candle request.
PaceQuote(t) ==
  /\ At(t, "pace") /\ call[t].kind # "hist"
  /\ Sleep(t, IF call[t].kind = "chain" THEN ChainWait ELSE QuoteWait)
  /\ UNCHANGED <<session, histLock, pace, posted, owed, tally>>

Cooling(t) == block > 0

\* _hist_wait: raises in a cooldown.
PaceHist(t) ==
  /\ At(t, "pace") /\ call[t].kind = "hist" /\ call[t].wait = 0
  /\ IF Cooling(t) THEN Ends(t)
     ELSE /\ Sleep(t, Greater(Short(histAge, HistGap), Short(quoteAge, HistGap)))
          /\ UNCHANGED histLock
  /\ UNCHANGED <<session, pace, posted, owed, tally>>

\* The headers take the token of this moment.
Sent(t) == call' = [call EXCEPT ![t].pc = "answer", ![t].token = jwt]

Send(t) ==
  /\ At(t, "sleep") /\ call[t].wait = 0 /\ Sent(t)
  /\ IF call[t].kind = "hist"
       THEN histAge' = 0 /\ posted' = 0
       ELSE UNCHANGED <<histAge, posted>>
  /\ UNCHANGED <<session, histLock, quoteAge, block, n403, owed, tally>>

\* After a forced login nothing waits.
Repost(t) ==
  /\ At(t, "repost") /\ Sent(t)
  /\ UNCHANGED <<session, histLock, pace, posted, owed, tally>>

-----------------------------------------------------------------------------
(***************************************************************************)
(* The answers.                                                            *)
(***************************************************************************)

\* A status other than 403 and 429 ends the loop of attempts.
Through(t) ==
  n403' = IF call[t].kind = "hist" /\ ~call[t].again THEN 0 ELSE n403

Served(t) ==
  /\ At(t, "answer") /\ call[t].token \in {"valid", "old"} /\ Ends(t)
  /\ quoteAge' = IF call[t].kind # "hist" THEN 0 ELSE quoteAge
  /\ Through(t)
  /\ UNCHANGED <<session, histAge, block, posted, owed, tally>>

\* "invalid token": a chain gives up, the others log in once more.
Denied(t) ==
  /\ At(t, "answer") /\ call[t].token # "valid"
  /\ IF call[t].again \/ call[t].kind = "chain" THEN Ends(t)
     ELSE /\ call' = [call EXCEPT ![t].pc = "login", ![t].again = TRUE]
          /\ UNCHANGED histLock
  /\ Through(t)
  /\ UNCHANGED <<session, quoteAge, histAge, block, posted, owed, tally>>

\* Mutant: every cooldown is the first one.
BackoffFlat(n) == Cooldown

Backoff(n) == Lesser(Cooldown * 2 ^ (n - 1), MaxCooldown)

\* What the n-th failure in a row calls for.
Promised(n) == Lesser(<<1, 2, 4, 8>>[n] * Cooldown, MaxCooldown)

\* 403 or 429: one retry, and then the cooldown.  The post after a forced
\* login has neither.
Limited(t) ==
  /\ At(t, "answer") /\ call[t].kind = "hist" /\ ~call[t].again
  /\ IF call[t].try = 0
       THEN /\ call' = [call EXCEPT ![t].try = 1, ![t].pc = "pace",
                                    ![t].wait = RetryWait]
            /\ UNCHANGED <<histLock, block, n403, owed>>
       ELSE /\ n403' = Lesser(n403 + 1, Streak)
            /\ block' = Backoff(n403') /\ owed' = Promised(n403')
            /\ Ends(t)
  /\ UNCHANGED <<session, quoteAge, histAge, posted, tally>>

\* Any other error of the request, with an answer or without one.
Failed(t) ==
  /\ At(t, "answer") /\ Ends(t)
  /\ Through(t) \/ UNCHANGED n403
  /\ UNCHANGED <<session, quoteAge, histAge, block, posted, owed, tally>>

Older(age) == Lesser(age + 1, Farthest)
Left(n)    == IF n = 0 THEN 0 ELSE n - 1

Tick ==
  /\ SessionTick
  /\ quoteAge' = IF quoteAge = NeverAsked THEN NeverAsked ELSE Older(quoteAge)
  /\ histAge' = Older(histAge)
  /\ posted' = Older(posted) /\ block' = Left(block) /\ owed' = Left(owed)
  /\ call' = [t \in Threads |->
       IF call[t] = Idle THEN Idle ELSE [call[t] EXCEPT !.wait = Left(@)]]
  /\ cooled' = IF fails = 0 THEN 0 ELSE Lesser(cooled + 1, MaxBreaker)
  /\ UNCHANGED <<histLock, n403, fails>>

Drop == TokenEnds /\ UNCHANGED <<call, histLock, pace, posted, owed, tally>>

Step(t) ==
  \/ Login(t) \/ Accepted(t) \/ NotAccepted(t) \/ Take(t)
  \/ PaceQuote(t) \/ PaceHist(t) \/ Send(t) \/ Repost(t)
  \/ Served(t) \/ Denied(t) \/ Limited(t) \/ Failed(t)

Next ==
  \/ (\E t \in Threads :
        Step(t) \/ AskChain(t) \/ Begin(t, "quote") \/ Begin(t, "hist"))
  \/ Tick \/ Drop

Spec == Init /\ [][Next]_vars

\* The jobs keep calling, every request has a timeout, and the broker does
\* not reject every login for ever.
Fairness ==
  /\ WF_vars(Tick)
  /\ \A t \in Threads :
       WF_vars(Step(t)) /\ WF_vars(\E kind \in Kinds : Begin(t, kind))
  /\ SF_vars(\E t \in Threads : Accepted(t))

FairSpec == Spec /\ Fairness

-----------------------------------------------------------------------------
(***************************************************************************)
(* Properties.                                                             *)
(***************************************************************************)

\* Every variable keeps its type, one thread posts a login at a time, and the
\* candle requests are one at a time, from the wait to the last answer.
TypeOK ==
  /\ SessionTypeOK
  /\ call \in [Threads -> Call \union {Idle}]
  /\ histLock \in Threads \union {"nobody"}
  /\ quoteAge \in 0 .. NeverAsked /\ histAge \in 0 .. Farthest
  /\ block \in 0 .. MaxCooldown /\ n403 \in 0 .. Streak
  /\ posted \in 0 .. Farthest /\ owed \in 0 .. MaxCooldown
  /\ fails \in 0 .. 3 /\ cooled \in 0 .. MaxBreaker
  /\ \A t \in Threads : At(t, "posting") <=> lock = t
  /\ \A t \in Threads :
       call[t] # Idle /\ call[t].kind = "hist"
         /\ (call[t].again \/ call[t].pc \in {"pace", "sleep", "answer"})
       => histLock = t

Sends(t) == At(t, "sleep") /\ call'[t] # Idle /\ call'[t].pc = "answer"

\* What n failed logins in a row call for.
Owed(n) == Lesser(Breaker * 2 ^ (n - 1), MaxBreaker)

\* angel_one_market_data.py:141: after n failures in a row no login is posted
\* before the n-th wait is over, though every call logs in, every "invalid
\* token" forces it, and the threads do so at once.
LoginBackoff ==
  [][lock = "nobody" /\ lock' # "nobody" /\ fails > 0
       => cooled >= Owed(fails)]_vars

\* angel_one_market_data.py:575: "Serialise historical-candle calls (>=
\* ANGEL_HIST_MIN_INTERVAL s apart)": two candle requests that wait their turn
\* are that far apart.  The post after a forced login does not wait.
HistSpacing ==
  [][\A t \in Threads :
       Sends(t) /\ call[t].kind = "hist" => posted >= HistGap]_vars

\* angel_one_market_data.py:575: "honour a 403 cooldown": no candle request
\* that waits its turn is sent before the cooldown of the last one is over.
CooldownHonoured ==
  [][\A t \in Threads : Sends(t) /\ call[t].kind = "hist" => owed = 0]_vars

\* A session that has no token gets one in the end, if the broker does not
\* reject every login.
LoginRecovers == (jwt = "none") ~> (jwt = "valid")

=============================================================================
