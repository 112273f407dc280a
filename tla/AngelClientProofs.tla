--------------------------- MODULE AngelClientProofs ---------------------------
(***************************************************************************)
(* Proofs about AngelClient for all threads, intervals and cooldowns: the  *)
(* types and the two locks, the spacing of candle requests, the cooldown   *)
(* after 403 and 429, and the waits between logins that fail.              *)
(***************************************************************************)
EXTENDS AngelClient, TLAPS

\* From its wait to its last answer a candle request holds the lock; TypeOK does
\* not say so of one that is about to be posted again.
Holding == {"pace", "sleep", "repost", "answer"}
NeedsLock(c) == c # Idle /\ c.kind = "hist" /\ (c.again \/ c.pc \in Holding)

\* The types of all but the calls.
OthersTyped ==
  /\ SessionTypeOK
  /\ histLock \in Threads \union {"nobody"}
  /\ quoteAge \in 0 .. NeverAsked /\ histAge \in 0 .. Farthest
  /\ block \in 0 .. MaxCooldown /\ n403 \in 0 .. Streak
  /\ posted \in 0 .. Farthest /\ owed \in 0 .. MaxCooldown
  /\ fails \in 0 .. 3 /\ cooled \in 0 .. MaxBreaker

\* The two locks and the calls.
Locked ==
  /\ call \in [Threads -> Call \union {Idle}]
  /\ \A t \in Threads : At(t, "posting") <=> lock = t
  /\ \A t \in Threads : NeedsLock(call[t]) => histLock = t

LEMMA TypeParts == OthersTyped /\ Locked => TypeOK
BY DEF TypeOK, OthersTyped, Locked, NeedsLock, Holding

LEMMA NumberFacts ==
  /\ QuoteGap \in Nat /\ HistGap \in Nat /\ Farthest \in Nat
  /\ QuoteGap <= Farthest /\ HistGap <= Farthest
  /\ Greater(Farthest, RetryWait) \in Nat
  /\ Farthest <= Greater(Farthest, RetryWait)
  /\ RetryWait \in 0 .. Greater(Farthest, RetryWait)
BY ClientAssumption DEF ClientAssumption, Farthest, Greater

-----------------------------------------------------------------------------
(***************************************************************************)
(* Calls.                                                                  *)
(***************************************************************************)
Labels == {"login", "posting", "lock", "pace", "sleep", "repost", "answer"}
Waits  == 0 .. Greater(Farthest, RetryWait)
Tokens == {"none", "valid", "old", "rejected"}

\* The same request at another place.
Moved(c, d, pc) == d \in Call /\ d.pc = pc /\ d.kind = c.kind /\ d.again = c.again

LEMMA CallFields ==
  ASSUME NEW c \in Call, NEW pc \in Labels, NEW wait \in Waits,
         NEW try \in 0 .. 1, NEW token \in Tokens
  PROVE  /\ Moved(c, [c EXCEPT !.pc = pc], pc)
         /\ Moved(c, [c EXCEPT !.pc = pc, !.wait = wait], pc)
         /\ [c EXCEPT !.pc = pc, !.wait = wait].wait = wait
         /\ Moved(c, [c EXCEPT !.pc = pc, !.token = token], pc)
         /\ Moved(c, [c EXCEPT !.try = try, !.pc = pc, !.wait = wait], pc)
         /\ Moved(c, [c EXCEPT !.wait = wait], c.pc)
         /\ [c EXCEPT !.wait = wait].wait = wait
BY DEF Call, Labels, Waits, Tokens, Moved

LEMMA CallAgain ==
  ASSUME NEW c \in Call
  PROVE  LET d == [c EXCEPT !.pc = "login", !.again = TRUE]
         IN  d \in Call /\ d.pc = "login" /\ d.kind = c.kind
BY DEF Call

LEMMA Busy ==
  ASSUME Locked, NEW t \in Threads, NEW l, At(t, l), l # "idle"
  PROVE  call[t] \in Call
BY DEF Locked, At, Idle

\* A thread takes a lock that is free, and lets go of its own.
Handed(l, m, t) == m = l \/ (l = "nobody" /\ m = t) \/ (l = t /\ m = "nobody")

LEMMA CallMoves ==
  ASSUME Locked, NEW t \in Threads, NEW c \in Call \union {Idle},
         call' = [call EXCEPT ![t] = c],
         Handed(lock, lock', t), Handed(histLock, histLock', t),
         c.pc = "posting" <=> lock' = t,
         NeedsLock(c) => histLock' = t
  PROVE  Locked'
<1>1. call' \in [Threads -> Call \union {Idle}]
  BY DEF Locked
<1>2. call'[t] = c /\ \A u \in Threads \ {t} : call'[u] = call[u]
  BY DEF Locked
<1>3. "nobody" \notin Threads
  BY SessionAssumption DEF SessionAssumption
<1>4. \A u \in Threads : At(u, "posting")' <=> lock' = u
  BY <1>2, <1>3 DEF Locked, At, Handed
<1>5. \A u \in Threads : NeedsLock(call'[u]) => histLock' = u
  BY <1>2, <1>3 DEF Locked, Handed
<1> QED
  BY <1>1, <1>4, <1>5 DEF Locked

LEMMA EndsLocked ==
  ASSUME Locked, NEW t \in Threads, Ends(t), Handed(lock, lock', t), lock' # t
  PROVE  Locked'
<1>1. Idle.pc # "posting" /\ ~NeedsLock(Idle)
  BY DEF Idle, NeedsLock
<1>2. Handed(histLock, histLock', t) /\ call' = [call EXCEPT ![t] = Idle]
  BY DEF Ends, Handed
<1> QED
  BY <1>1, <1>2, CallMoves

LEMMA MovedLocked ==
  ASSUME Locked, NEW t \in Threads, call[t] \in Call, NEW d, NEW l \in Labels,
         Moved(call[t], d, l), call' = [call EXCEPT ![t] = d],
         Handed(lock, lock', t), Handed(histLock, histLock', t),
         l = "posting" <=> lock' = t,
         \/ UNCHANGED histLock /\ l \notin Holding
         \/ UNCHANGED histLock /\ NeedsLock(call[t])
         \/ call[t].kind # "hist" \/ histLock' = t
  PROVE  Locked'
<1>1. call[t] # Idle
  BY DEF Call, Idle
<1>2. NeedsLock(d) => NeedsLock(call[t]) \/ l \in Holding
  BY <1>1 DEF Moved, NeedsLock
<1>3. NeedsLock(d) => call[t].kind = "hist"
  BY DEF Moved, NeedsLock
<1>4. NeedsLock(d) => histLock' = t
  BY <1>2, <1>3 DEF Locked
<1> QED
  BY <1>4, CallMoves DEF Moved

LEMMA GotoLocked ==
  ASSUME Locked, NEW t \in Threads, call[t] \in Call, NEW l \in Labels,
         Goto(t, l),
         Handed(lock, lock', t), Handed(histLock, histLock', t),
         l = "posting" <=> lock' = t,
         \/ UNCHANGED histLock /\ l \notin Holding
         \/ UNCHANGED histLock /\ NeedsLock(call[t])
         \/ call[t].kind # "hist" \/ histLock' = t
  PROVE  Locked'
<1> DEFINE d == [call[t] EXCEPT !.pc = l]
<1>1. Moved(call[t], d, l)
  <2>1. \E wait \in Waits, try \in 0 .. 1, token \in Tokens : TRUE
    <3>1. 0 \in Waits /\ "none" \in Tokens
      BY NumberFacts DEF Waits, Tokens
    <3> QED
      BY <3>1
  <2> QED
    BY <2>1, CallFields
<1>2. call' = [call EXCEPT ![t] = d]
  BY DEF Goto
<1> HIDE DEF d
<1> QED
  BY <1>1, <1>2, MovedLocked

\* Where a call goes on with a token.
LEMMA LoggedInLocked ==
  ASSUME Locked, NEW t \in Threads, call[t] \in Call, LoggedIn(t),
         Handed(lock, lock', t), lock' # t
  PROVE  Locked'
<1>1. CASE Unlisted(t)
  BY <1>1, EndsLocked DEF Unlisted
<1>2. CASE call[t].again /\ Goto(t, "repost") /\ UNCHANGED histLock
  <2>1. call[t].kind # "hist" \/ NeedsLock(call[t])
    BY <1>2 DEF NeedsLock, Call, Idle
  <2> QED
    BY <1>2, <2>1, GotoLocked DEF Handed, Labels
<1>3. CASE Goto(t, "lock") /\ UNCHANGED histLock
  BY <1>3, GotoLocked DEF Handed, Labels, Holding
<1>4. CASE Goto(t, "pace") /\ UNCHANGED histLock /\ call[t].kind # "hist"
  BY <1>4, GotoLocked DEF Handed, Labels
<1> QED
  BY <1>1, <1>2, <1>3, <1>4 DEF LoggedIn

-----------------------------------------------------------------------------
(***************************************************************************)
(* The waits that failures call for.                                       *)
(***************************************************************************)

\* The doubling of the code is what was promised.
LEMMA BackoffAsPromised ==
  ASSUME NEW n \in {1, 2, 3, 4}
  PROVE  Backoff(n) = Promised(n) /\ Promised(n) \in 0 .. MaxCooldown
<1>1. Cooldown \in Nat /\ MaxCooldown \in Nat
  BY ClientAssumption DEF ClientAssumption
<1>2. 2 ^ 0 = 1 /\ 2 ^ 1 = 2 /\ 2 ^ 2 = 4 /\ 2 ^ 3 = 8
  OBVIOUS
<1>3. 2 ^ (n - 1) = <<1, 2, 4, 8>>[n] /\ <<1, 2, 4, 8>>[n] \in {1, 2, 4, 8}
  <2>1. CASE n = 1
    BY <1>2, <2>1
  <2>2. CASE n = 2
    BY <1>2, <2>2
  <2>3. CASE n = 3
    BY <1>2, <2>3
  <2>4. CASE n = 4
    BY <1>2, <2>4
  <2> QED
    BY <2>1, <2>2, <2>3, <2>4
<1>4. ASSUME NEW k \in {1, 2, 4, 8}
      PROVE  /\ Cooldown * k = k * Cooldown
             /\ Lesser(k * Cooldown, MaxCooldown) \in 0 .. MaxCooldown
  BY <1>1 DEF Lesser
<1> QED
  BY <1>3, <1>4 DEF Backoff, Promised

-----------------------------------------------------------------------------
(***************************************************************************)
(* Every step keeps the types and the locks.                               *)
(***************************************************************************)
LEMMA OthersTypedStep ==
  ASSUME OthersTyped, Locked, [Next]_vars
  PROVE  OthersTyped'
<1> USE NumberFacts, SessionAssumption, ClientAssumption
    DEF SessionAssumption, ClientAssumption
<1>1. CASE UNCHANGED vars
  BY <1>1 DEF vars, session, pace, tally, OthersTyped, SessionTypeOK
<1>2. CASE Tick
  BY <1>2 DEF Tick, SessionTick, Older, Left, Lesser, OthersTyped,
     SessionTypeOK,
     NeverAsked
<1>3. CASE Drop
  BY <1>3 DEF Drop, TokenEnds, pace, tally, OthersTyped, SessionTypeOK
<1>4. ASSUME NEW t \in Threads, NEW kind, Begin(t, kind)  PROVE OthersTyped'
  BY <1>4 DEF Begin, session, pace, tally, OthersTyped, SessionTypeOK
<1>5. ASSUME NEW t \in Threads, histLock' \in Threads \union {"nobody"}
      PROVE  /\ Login(t) => OthersTyped'
             /\ Accepted(t) => OthersTyped'
             /\ NotAccepted(t) => OthersTyped'
  <2>1. Login(t) => OthersTyped'
    BY <1>5 DEF Login, Refuse, Reuse, PostLogin, Known, session, pace, tally,
       OthersTyped, SessionTypeOK
  <2>2. Accepted(t) => OthersTyped'
    BY <1>5 DEF Accepted, LoginAccepted, pace, OthersTyped, SessionTypeOK
  <2>3. NotAccepted(t) => OthersTyped'
    BY <1>5 DEF NotAccepted, LoginFails, LoginEmpty, pace, tally, Lesser,
       OthersTyped, SessionTypeOK
  <2> QED
    BY <2>1, <2>2, <2>3
<1>6. ASSUME NEW t \in Threads, histLock' \in Threads \union {"nobody"},
             Take(t) \/ PaceQuote(t) \/ PaceHist(t) \/ Send(t) \/ Repost(t)
      PROVE  OthersTyped'
  BY <1>6 DEF Take, PaceQuote, PaceHist, Send, Repost, session, pace, tally,
     OthersTyped, SessionTypeOK
<1>7. ASSUME NEW t \in Threads, histLock' \in Threads \union {"nobody"},
             Served(t) \/ Denied(t) \/ Failed(t)
      PROVE  OthersTyped'
  BY <1>7 DEF Served, Denied, Failed, Through, session, tally, OthersTyped,
     SessionTypeOK, NeverAsked, Streak
<1>8. ASSUME NEW t \in Threads, histLock' \in Threads \union {"nobody"}, Limited(t)
      PROVE  OthersTyped'
  <2>1. CASE UNCHANGED <<block, n403, owed>>
    BY <1>8, <2>1 DEF Limited, session, tally, OthersTyped, SessionTypeOK
  <2>2. CASE /\ n403' = Lesser(n403 + 1, Streak)
             /\ block' = Backoff(n403') /\ owed' = Promised(n403')
    <3>1. n403' \in {1, 2, 3, 4} /\ n403' <= Streak
      BY <2>2 DEF OthersTyped, Lesser, Streak
    <3>2. Backoff(n403') \in 0 .. MaxCooldown /\ Promised(n403') \in 0 .. MaxCooldown
      BY <3>1, BackoffAsPromised
    <3> QED
      BY <1>8, <2>2, <3>1, <3>2 DEF Limited, session, tally, OthersTyped,
         SessionTypeOK
  <2> QED
    BY <1>8, <2>1, <2>2 DEF Limited
<1>9. ASSUME NEW t \in Threads, Step(t)
      PROVE  histLock' \in Threads \union {"nobody"}
  BY <1>9 DEF Step, Login, Accepted, NotAccepted, LoggedIn, Unlisted, Ends,
     Take,
     PaceQuote, PaceHist, Send, Repost, Served, Denied, Limited, Failed,
     OthersTyped
<1> QED
  BY <1>1, <1>2, <1>3, <1>4, <1>5, <1>6, <1>7, <1>8, <1>9
  DEF Next, Step, AskChain

LEMMA LockedStep ==
  ASSUME OthersTyped, Locked, [Next]_vars
  PROVE  Locked'
<1>1. CASE UNCHANGED <<call, lock, histLock>>
  BY <1>1 DEF Locked, At
<1>2. CASE UNCHANGED vars \/ Drop
  BY <1>1, <1>2 DEF vars, session, Drop, TokenEnds
<1>3. CASE Tick
  <2>1. ASSUME NEW t \in Threads
        PROVE  /\ call'[t] \in Call \union {Idle}
               /\ call'[t].pc = call[t].pc
               /\ NeedsLock(call'[t]) => NeedsLock(call[t])
    <3>1. CASE call[t] = Idle
      BY <1>3, <3>1 DEF Tick
    <3>2. CASE call[t] # Idle
      <4> DEFINE w == Left(call[t].wait)
      <4>1. call[t] \in Call /\ call'[t] = [call[t] EXCEPT !.wait = w]
        BY <1>3, <3>2 DEF Tick, Locked
      <4>2. w \in Waits
        BY <4>1, NumberFacts DEF Left, Call, Waits
      <4> HIDE DEF w
      <4>3. Moved(call[t], call'[t], call[t].pc)
        <5>1. call[t].pc \in Labels /\ 0 \in 0 .. 1 /\ "none" \in Tokens
          BY <4>1 DEF Call, Labels, Tokens
        <5> QED
          BY <4>1, <4>2, <5>1, CallFields
      <4> QED
        BY <3>2, <4>3 DEF Moved, NeedsLock
    <3> QED
      BY <3>1, <3>2
  <2>2. call' \in [Threads -> Call \union {Idle}] /\ UNCHANGED <<lock, histLock>>
    BY <1>3, <2>1 DEF Tick, SessionTick
  <2> QED
    BY <2>1, <2>2 DEF Locked, At
<1>4. ASSUME NEW t \in Threads, NEW kind \in Kinds, Begin(t, kind)
      PROVE  Locked'
  <2> DEFINE c == [pc |-> "login", kind |-> kind, again |-> FALSE, try |-> 0,
                   wait |-> 0, token |-> "none"]
  <2>1. c \in Call /\ c.pc = "login" /\ ~NeedsLock(c)
    BY NumberFacts DEF Call, NeedsLock, Holding
  <2>2. call[t].pc = "idle" /\ lock # t
    BY <1>4 DEF Begin, Idle, Locked, At
  <2> HIDE DEF c
  <2> QED
    BY <1>4, <2>1, <2>2, CallMoves DEF Begin, session, Handed, c
<1>5. ASSUME NEW t \in Threads, Login(t)  PROVE Locked'
  <2>1. call[t] \in Call /\ lock = "nobody" /\ lock # t
    BY <1>5, Busy, SessionAssumption DEF Login, SessionAssumption
  <2>2. CASE Refuse(call[t].again) /\ Ends(t)
    BY <2>1, <2>2, EndsLocked DEF Refuse, Handed
  <2>3. CASE Reuse(call[t].again) /\ LoggedIn(t)
    BY <2>1, <2>3, LoggedInLocked DEF Reuse, session, Handed
  <2>4. CASE /\ PostLogin(t, call[t].again)
             /\ Goto(t, "posting") /\ UNCHANGED histLock
    BY <2>1, <2>4, GotoLocked DEF PostLogin, Handed, Labels, Holding
  <2> QED
    BY <1>5, <2>2, <2>3, <2>4 DEF Login
<1>6. ASSUME NEW t \in Threads, Accepted(t) \/ NotAccepted(t)  PROVE Locked'
  <2>1. /\ call[t] \in Call /\ lock = t /\ lock' = "nobody" /\ lock' # t
    <3>1. At(t, "posting") /\ lock' = "nobody"
      BY <1>6 DEF Accepted, NotAccepted, LoginAccepted, LoginFails, LoginEmpty
    <3> QED
      BY <3>1, Busy, SessionAssumption DEF SessionAssumption, Locked
  <2> QED
    BY <1>6, <2>1, EndsLocked, LoggedInLocked DEF Accepted, NotAccepted, Handed
\* The other actions leave the session alone.
<1>7. ASSUME NEW t \in Threads,
             \/ Take(t) \/ PaceQuote(t) \/ PaceHist(t) \/ Send(t) \/ Repost(t)
             \/ Served(t) \/ Denied(t) \/ Limited(t) \/ Failed(t)
      PROVE  call[t] \in Call /\ lock # t /\ lock' = lock
  BY <1>7, Busy DEF Take, PaceQuote, PaceHist, Send, Repost, Served, Denied,
     Limited,
     Failed, session, Locked, At
<1>8. ASSUME NEW t \in Threads, Take(t)  PROVE Locked'
  BY <1>7, <1>8, GotoLocked DEF Take, Handed, Labels
<1>9. ASSUME NEW t \in Threads, NEW n \in Waits, Sleep(t, n), UNCHANGED histLock,
             call[t] \in Call, lock # t, lock' = lock, At(t, "pace")
      PROVE  Locked'
  <2> DEFINE d == [call[t] EXCEPT !.pc = "sleep", !.wait = n]
  <2>1. Moved(call[t], d, "sleep")
    <3>1. "sleep" \in Labels /\ 0 \in 0 .. 1 /\ "none" \in Tokens
      BY DEF Labels, Tokens
    <3> QED
      BY <1>9, <3>1, CallFields
  <2>2. call' = [call EXCEPT ![t] = d]
    BY <1>9 DEF Sleep
  <2>3. call[t].kind # "hist" \/ NeedsLock(call[t])
    BY <1>9 DEF NeedsLock, At, Idle, Holding
  <2> HIDE DEF d
  <2> QED
    BY <1>9, <2>1, <2>2, <2>3, MovedLocked DEF Handed, Labels
<1>10. ASSUME NEW t \in Threads, PaceQuote(t)  PROVE Locked'
  <2>1. ChainWait \in Waits /\ QuoteWait \in Waits
    BY NumberFacts DEF ChainWait, QuoteWait, Short, Lesser, Waits, OthersTyped,
       NeverAsked
  <2> QED
    BY <1>7, <1>9, <1>10, <2>1 DEF PaceQuote
<1>11. ASSUME NEW t \in Threads, PaceHist(t)  PROVE Locked'
  <2>1. Greater(Short(histAge, HistGap), Short(quoteAge, HistGap)) \in Waits
    BY NumberFacts DEF Greater, Short, Waits, OthersTyped, NeverAsked
  <2>2. CASE Ends(t)
    BY <1>7, <1>11, <2>2, EndsLocked DEF Handed
  <2> QED
    BY <1>7, <1>9, <1>11, <2>1, <2>2 DEF PaceHist
<1>12. ASSUME NEW t \in Threads, Send(t) \/ Repost(t)  PROVE Locked'
  <2> DEFINE d == [call[t] EXCEPT !.pc = "answer", !.token = jwt]
  <2>1. Moved(call[t], d, "answer")
    <3>1. /\ "answer" \in Labels /\ 0 \in 0 .. 1 /\ jwt \in Tokens /\ 0 \in Waits
      BY NumberFacts DEF Labels, Tokens, Waits, OthersTyped, SessionTypeOK
    <3> QED
      BY <1>7, <1>12, <3>1, CallFields
  <2>2. call' = [call EXCEPT ![t] = d] /\ UNCHANGED histLock
    BY <1>12 DEF Send, Repost, Sent, pace
  <2>3. call[t].kind # "hist" \/ NeedsLock(call[t])
    BY <1>12 DEF Send, Repost, NeedsLock, At, Idle, Holding
  <2> HIDE DEF d
  <2> QED
    BY <1>7, <1>12, <2>1, <2>2, <2>3, MovedLocked DEF Handed, Labels
<1>13. ASSUME NEW t \in Threads, Served(t) \/ Failed(t)  PROVE Locked'
  BY <1>7, <1>13, EndsLocked DEF Served, Failed, Handed
<1>14. ASSUME NEW t \in Threads, Denied(t)  PROVE Locked'
  <2>1. CASE Ends(t)
    BY <1>7, <1>14, <2>1, EndsLocked DEF Handed
  <2>2. CASE /\ call' = [call EXCEPT ![t].pc = "login", ![t].again = TRUE]
             /\ UNCHANGED histLock
    <3> DEFINE d == [call[t] EXCEPT !.pc = "login", !.again = TRUE]
    <3>1. call[t] \in Call /\ At(t, "answer") /\ lock # t /\ lock' = lock
      BY <1>7, <1>14 DEF Denied
    <3>2. d \in Call /\ d.pc = "login" /\ d.kind = call[t].kind
      BY <3>1, CallAgain
    <3>3. call' = [call EXCEPT ![t] = d]
      BY <2>2 DEF Locked
    <3>4. NeedsLock(d) => NeedsLock(call[t])
      BY <3>1, <3>2 DEF NeedsLock, At, Idle, Holding
    <3> HIDE DEF d
    <3> QED
      BY <2>2, <3>1, <3>2, <3>3, <3>4, CallMoves DEF Handed, Locked
  <2> QED
    BY <1>14, <2>1, <2>2 DEF Denied
<1>15. ASSUME NEW t \in Threads, Limited(t)  PROVE Locked'
  <2>1. CASE Ends(t)
    BY <1>7, <1>15, <2>1, EndsLocked DEF Handed
  <2>2. CASE /\ call' = [call EXCEPT ![t].try = 1, ![t].pc = "pace",
                                    ![t].wait = RetryWait]
             /\ UNCHANGED histLock
    <3> DEFINE d == [call[t] EXCEPT !.try = 1, !.pc = "pace",
    !.wait = RetryWait]
    <3>1. call[t] \in Call /\ At(t, "answer") /\ lock # t /\ lock' = lock
      BY <1>7, <1>15 DEF Limited
    <3>2. Moved(call[t], d, "pace")
      <4>1. /\ "pace" \in Labels /\ 1 \in 0 .. 1 /\ "none" \in Tokens
            /\ RetryWait \in Waits
        BY NumberFacts DEF Labels, Tokens, Waits
      <4> QED
        BY <3>1, <4>1, CallFields
    <3>3. call' = [call EXCEPT ![t] = d]
      BY <2>2 DEF Locked
    <3>4. call[t].kind # "hist" \/ NeedsLock(call[t])
      BY <3>1 DEF NeedsLock, At, Idle, Holding
    <3> HIDE DEF d
    <3> QED
      BY <2>2, <3>1, <3>2, <3>3, <3>4, MovedLocked DEF Handed, Labels
  <2> QED
    BY <1>15, <2>1, <2>2 DEF Limited
<1> QED
  BY <1>2, <1>3, <1>4, <1>5, <1>6, <1>8, <1>10, <1>11, <1>12, <1>13, <1>14,
     <1>15
  DEF Next, Step, AskChain, Kinds

LEMMA ClientInit == Init => OthersTyped /\ Locked
<1> SUFFICES ASSUME Init PROVE OthersTyped /\ Locked
  OBVIOUS
<1>1. OthersTyped
  BY NumberFacts, SessionAssumption, ClientAssumption
  DEF SessionAssumption, ClientAssumption, Init, SessionInit, OthersTyped,
      SessionTypeOK, NeverAsked, Streak
<1>2. Locked
  BY SessionAssumption DEF SessionAssumption, Init, SessionInit, Locked, At,
     NeedsLock, Idle
<1> QED
  BY <1>1, <1>2

\* Every variable keeps its type, one thread posts a login at a time, and the
\* candle requests are one at a time, from the wait to the last answer.
THEOREM ClientTypeCorrect == Spec => []TypeOK
<1>1. OthersTyped /\ Locked /\ [Next]_vars => (OthersTyped /\ Locked)'
  BY OthersTypedStep, LockedStep
<1> QED
  BY <1>1, ClientInit, TypeParts, PTL DEF Spec

-----------------------------------------------------------------------------
(***************************************************************************)
(* Candle requests.                                                        *)
(***************************************************************************)

Sleeping(t) == At(t, "sleep") /\ call[t].kind = "hist"

\* The ages that the code keeps are the true ones, and a request that waits
\* its turn will have waited long enough, outside of any cooldown: nobody else
\* can be asking for candles.
PaceInv ==
  /\ histAge = posted /\ block = owed
  /\ \A t \in Threads :
       Sleeping(t) => posted + call[t].wait >= HistGap /\ block = 0

\* A step that sends no request and starts no cooldown leaves all sleepers but
\* one as they are, and that one only goes to sleep when it may.
LEMMA PaceKept ==
  ASSUME PaceInv, UNCHANGED <<histAge, block, posted, owed>>,
         \A t \in Threads :
           Sleeping(t)' => \/ call'[t] = call[t]
                           \/ posted + call'[t].wait >= HistGap /\ block = 0
  PROVE  PaceInv'
BY DEF PaceInv, Sleeping, At

LEMMA PaceInvStep ==
  ASSUME OthersTyped, Locked, Locked', PaceInv, [Next]_vars
  PROVE  PaceInv'
<1> DEFINE Still == UNCHANGED <<histAge, block, posted, owed>>
<1>1. ASSUME NEW t \in Threads, \A u \in Threads \ {t} : call'[u] = call[u],
             ~At(t, "sleep")', Still
      PROVE  PaceInv'
  BY <1>1, PaceKept DEF Sleeping
<1>2. call \in [Threads -> Call \union {Idle}]
  BY DEF Locked
<1>3. ASSUME NEW t \in Threads, Ends(t), Still  PROVE PaceInv'
  BY <1>1, <1>2, <1>3 DEF Ends, Idle, At
<1>4. ASSUME NEW t \in Threads, NEW l \in Labels, Goto(t, l), l # "sleep", Still,
             call[t] \in Call
      PROVE  PaceInv'
  BY <1>1, <1>2, <1>4 DEF Goto, At, Call
<1>5. CASE UNCHANGED vars \/ Drop
  <2>1. UNCHANGED call /\ Still
    BY <1>5 DEF vars, Drop, pace
  <2> QED
    BY <2>1, PaceKept
<1>6. CASE Tick
  <2>1. histAge' = posted' /\ block' = owed'
    BY <1>6 DEF Tick, PaceInv
  <2>2. ASSUME NEW t \in Threads, Sleeping(t)'
        PROVE  posted' + call'[t].wait >= HistGap /\ block' = 0
    <3>1. call[t] # Idle /\ call'[t] = [call[t] EXCEPT !.wait = Left(@)]
      BY <1>6, <2>2 DEF Tick, Sleeping, At, Idle
    <3>2. call[t] \in Call
      BY <3>1 DEF Locked
    <3>3. /\ Sleeping(t) /\ call'[t].wait = Left(call[t].wait)
          /\ call[t].wait \in Nat
      BY <2>2, <3>1, <3>2, NumberFacts DEF Sleeping, At, Call
    <3> QED
      BY <1>6, <3>3, NumberFacts DEF Tick, PaceInv, Left, Older, Lesser,
         OthersTyped
  <2> QED
    BY <2>1, <2>2 DEF PaceInv
<1>7. ASSUME NEW t \in Threads, NEW kind, Begin(t, kind)  PROVE PaceInv'
  BY <1>1, <1>2, <1>7 DEF Begin, pace, At
<1>8. ASSUME NEW t \in Threads, LoggedIn(t), Still, call[t] \in Call
      PROVE  PaceInv'
  BY <1>3, <1>4, <1>8 DEF LoggedIn, Unlisted, Labels
<1>9. ASSUME NEW t \in Threads, Login(t) \/ Accepted(t) \/ NotAccepted(t)
      PROVE  PaceInv'
  <2>1. Still /\ call[t] \in Call
    BY <1>9, Busy DEF Login, Accepted, NotAccepted, pace
  <2> QED
    BY <1>3, <1>4, <1>8, <1>9, <2>1 DEF Login, Accepted, NotAccepted, Labels
<1>10. ASSUME NEW t \in Threads, Take(t)  PROVE PaceInv'
  BY <1>4, <1>10, Busy DEF Take, pace, Labels
<1>11. ASSUME NEW t \in Threads, NEW n \in Waits, Sleep(t, n), Still,
              call[t] \in Call,
              call[t].kind = "hist" => posted + n >= HistGap /\ block = 0
       PROVE  PaceInv'
  <2> DEFINE d == [call[t] EXCEPT !.pc = "sleep", !.wait = n]
  <2>1. d.kind = call[t].kind /\ d.wait = n
    BY <1>11 DEF Call
  <2>2. call'[t] = d /\ \A u \in Threads \ {t} : call'[u] = call[u]
    BY <1>2, <1>11 DEF Sleep
  <2> HIDE DEF d
  <2> QED
    BY <1>11, <2>1, <2>2, PaceKept DEF Sleeping
<1>12. ASSUME NEW t \in Threads, PaceQuote(t)  PROVE PaceInv'
  <2>1. ChainWait \in Waits /\ QuoteWait \in Waits
    BY NumberFacts DEF ChainWait, QuoteWait, Short, Lesser, Waits, OthersTyped,
       NeverAsked
  <2> QED
    BY <1>11, <1>12, <2>1, Busy DEF PaceQuote, pace
<1>13. ASSUME NEW t \in Threads, PaceHist(t)  PROVE PaceInv'
  <2> DEFINE n == Greater(Short(histAge, HistGap), Short(quoteAge, HistGap))
  <2>1. n \in Waits /\ posted + n >= HistGap
    BY NumberFacts DEF Greater, Short, Waits, OthersTyped, NeverAsked, PaceInv
  <2>2. Still /\ call[t] \in Call
    BY <1>13, Busy DEF PaceHist, pace
  <2>3. ~Cooling(t) => block = 0
    BY DEF Cooling, OthersTyped
  <2> HIDE DEF n
  <2> QED
    BY <1>3, <1>11, <1>13, <2>1, <2>2, <2>3 DEF PaceHist, n
\* The lock keeps every other candle request from sleeping while one is sent or
\* answered.
<1>14. ASSUME NEW t \in Threads, NeedsLock(call[t]), NEW u \in Threads, u # t
       PROVE  ~Sleeping(u)
  BY <1>14 DEF Sleeping, Locked, NeedsLock, Holding, At, Idle
<1>15. ASSUME NEW t \in Threads, Send(t)  PROVE PaceInv'
  <2>1. call'[t].pc = "answer" /\ \A u \in Threads \ {t} : call'[u] = call[u]
    <3>1. call[t] \in Call
      BY <1>15, Busy DEF Send
    <3> QED
      BY <1>2, <1>15, <3>1 DEF Send, Sent, Call
  <2>2. CASE call[t].kind = "hist"
    <3>1. NeedsLock(call[t])
      BY <1>15, <2>2 DEF Send, NeedsLock, Holding, At, Idle
    <3>2. \A u \in Threads : ~Sleeping(u)'
      BY <1>14, <2>1, <3>1 DEF Sleeping, At
    <3> QED
      BY <1>15, <2>2, <3>2 DEF Send, PaceInv
  <2>3. CASE call[t].kind # "hist"
    BY <1>1, <1>15, <2>1, <2>3 DEF Send, At
  <2> QED
    BY <2>2, <2>3
<1>16. ASSUME NEW t \in Threads, Repost(t)  PROVE PaceInv'
  <2>1. call'[t].pc = "answer" /\ \A u \in Threads \ {t} : call'[u] = call[u]
    <3>1. call[t] \in Call
      BY <1>16, Busy DEF Repost
    <3> QED
      BY <1>2, <1>16, <3>1 DEF Repost, Sent, Call
  <2> QED
    BY <1>1, <1>16, <2>1 DEF Repost, pace, At
<1>17. ASSUME NEW t \in Threads, Served(t) \/ Failed(t) \/ Denied(t)
       PROVE  PaceInv'
  <2>1. Still /\ call[t] \in Call
    BY <1>17, Busy DEF Served, Failed, Denied
  <2>2. CASE Ends(t)
    BY <1>3, <2>1, <2>2
  <2>3. CASE call' = [call EXCEPT ![t].pc = "login", ![t].again = TRUE]
    BY <1>1, <2>1, <2>3 DEF At, Call, Locked
  <2> QED
    BY <1>17, <2>2, <2>3 DEF Served, Failed, Denied
<1>18. ASSUME NEW t \in Threads, Limited(t)  PROVE PaceInv'
  <2>1. call[t] \in Call /\ NeedsLock(call[t])
    BY <1>18, Busy DEF Limited, NeedsLock, Holding, At, Idle
  <2>2. CASE call[t].try = 0
    <3>1. call'[t].pc = "pace" /\ \A u \in Threads \ {t} : call'[u] = call[u]
      BY <1>18, <2>1, <2>2 DEF Limited, Call, Locked
    <3> QED
      BY <1>1, <1>18, <2>2, <3>1 DEF Limited, At
  <2>3. CASE call[t].try # 0
    <3>1. call'[t] = Idle /\ \A u \in Threads \ {t} : call'[u] = call[u]
      BY <1>2, <1>18, <2>3 DEF Limited, Ends
    <3>2. \A u \in Threads : ~Sleeping(u)'
      BY <1>14, <2>1, <3>1 DEF Sleeping, At, Idle
    <3>3. n403' \in {1, 2, 3, 4} /\ n403' <= Streak
      BY <1>18, <2>3 DEF Limited, OthersTyped, Lesser, Streak
    <3>4. block' = owed' /\ histAge' = posted'
      BY <1>18, <2>3, <3>3, BackoffAsPromised DEF Limited, PaceInv
    <3> QED
      BY <3>2, <3>4 DEF PaceInv
  <2> QED
    BY <2>2, <2>3
<1> QED
  BY <1>5, <1>6, <1>7, <1>9, <1>10, <1>12, <1>13, <1>15, <1>16, <1>17, <1>18
  DEF Next, Step, AskChain

LEMMA PaceInvariant == Spec => [](OthersTyped /\ Locked /\ PaceInv)
<1>1. Init => PaceInv
  BY DEF Init, PaceInv, Sleeping, At, Idle
<1>2. OthersTyped /\ Locked /\ [Next]_vars => (OthersTyped /\ Locked)'
  BY OthersTypedStep, LockedStep
<1>3. OthersTyped /\ Locked /\ Locked' /\ PaceInv /\ [Next]_vars => PaceInv'
  BY PaceInvStep
<1> QED
  BY <1>1, <1>2, <1>3, ClientInit, PTL DEF Spec

\* A request that is sent was asleep, and its wait is over.
LEMMA SendsWhenDue ==
  ASSUME OthersTyped, Locked, PaceInv, [Next]_vars,
         NEW t \in Threads, Sends(t), call[t].kind = "hist"
  PROVE  posted >= HistGap /\ owed = 0
<1>1. Sleeping(t) /\ call'[t] # Idle /\ call'[t].pc = "answer"
  BY DEF Sends, Sleeping
<1>2. call[t] \in Call /\ call'[t] # call[t]
  BY <1>1, Busy DEF Sleeping, At
<1>3. ~(UNCHANGED vars \/ Drop)
  BY <1>2 DEF vars, Drop
<1>4. ~Tick
  <2>1. Tick => call'[t] = [call[t] EXCEPT !.wait = Left(@)]
    BY <1>1 DEF Tick, Sleeping, At, Idle
  <2> QED
    BY <1>1, <1>2, <2>1 DEF Sleeping, At, Call
<1>5. PICK u \in Threads :
        Step(u) \/ AskChain(u) \/ Begin(u, "quote") \/ Begin(u, "hist")
  BY <1>3, <1>4 DEF Next
<1>6. u = t
  BY <1>2, <1>5 DEF Step, AskChain, Begin, Login, LoggedIn, Unlisted, Ends,
     Goto,
     Accepted, NotAccepted, Take, PaceQuote, PaceHist, Sleep, Send, Sent,
     Repost,
     Served, Denied, Limited, Failed, Locked
<1>7. call[t].wait = 0
  BY <1>1, <1>5, <1>6 DEF Sleeping, At, Idle, Step, AskChain, Begin, Login,
     Accepted, NotAccepted, Take, PaceQuote, PaceHist, Send, Repost, Served,
     Denied, Limited, Failed
<1> QED
  BY <1>1, <1>7 DEF PaceInv, OthersTyped

\* Two candle requests that wait their turn are the interval apart.
THEOREM CandlesAreSpaced == Spec => HistSpacing
<1>1. OthersTyped /\ Locked /\ PaceInv /\ [Next]_vars
      => [\A t \in Threads :
            Sends(t) /\ call[t].kind = "hist" => posted >= HistGap]_vars
  BY SendsWhenDue
<1> QED
  BY <1>1, PaceInvariant, PTL DEF Spec, HistSpacing

\* No candle request that waits its turn is sent before the cooldown that the
\* last failures called for is over.
THEOREM CooldownIsHonoured == Spec => CooldownHonoured
<1>1. OthersTyped /\ Locked /\ PaceInv /\ [Next]_vars
      => [\A t \in Threads :
            Sends(t) /\ call[t].kind = "hist" => owed = 0]_vars
  BY SendsWhenDue
<1> QED
  BY <1>1, PaceInvariant, PTL DEF Spec, CooldownHonoured

-----------------------------------------------------------------------------
(***************************************************************************)
(* Logins.                                                                 *)
(***************************************************************************)

\* The breaker's next wait is at least what one more failure would call for,
\* and what is left of the present one makes up what is owed.
LoginInv ==
  /\ seconds >= Owed(fails + 1)
  /\ fails > 0 => cooled + breaker >= Owed(fails)

\* The waits double up to the longest.
LEMMA OwedDoubles ==
  /\ Owed(1) = Breaker
  /\ \A n \in 1 .. 4 : Owed(n) \in 0 .. MaxBreaker
  /\ \A n \in 1 .. 3 : /\ Owed(n + 1) = Lesser(Owed(n) * 2, MaxBreaker)
                       /\ Owed(n) <= Owed(n + 1)
<1>1. Breaker \in Nat /\ MaxBreaker \in Nat /\ Breaker <= MaxBreaker
  BY SessionAssumption DEF SessionAssumption
<1>2. 2 ^ 0 = 1 /\ 2 ^ 1 = 2 /\ 2 ^ 2 = 4 /\ 2 ^ 3 = 8
  OBVIOUS
<1>3. /\ Owed(1) = Lesser(Breaker, MaxBreaker)
      /\ Owed(2) = Lesser(Breaker * 2, MaxBreaker)
      /\ Owed(3) = Lesser(Breaker * 4, MaxBreaker)
      /\ Owed(4) = Lesser(Breaker * 8, MaxBreaker)
  <2>1. 1 - 1 = 0 /\ 2 - 1 = 1 /\ 3 - 1 = 2 /\ 4 - 1 = 3
    OBVIOUS
  <2> QED
    BY <1>1, <1>2, <2>1 DEF Owed
<1>4. 1 .. 4 = {1, 2, 3, 4} /\ 1 .. 3 = {1, 2, 3}
  OBVIOUS
<1> QED
  BY <1>1, <1>3, <1>4 DEF Lesser

LEMMA LoginInvStep ==
  ASSUME OthersTyped, LoginInv, [Next]_vars
  PROVE  LoginInv'
<1> USE SessionAssumption DEF SessionAssumption
<1>1. CASE UNCHANGED <<seconds, breaker, fails, cooled>>
  BY <1>1 DEF LoginInv
<1>2. CASE Tick
  <2>1. UNCHANGED <<seconds, fails>>
    BY <1>2 DEF Tick, SessionTick
  <2>2. ASSUME fails > 0  PROVE cooled' + breaker' >= Owed(fails)
    <3>1. Owed(fails) \in 0 .. MaxBreaker
      BY <2>2, OwedDoubles DEF OthersTyped
    <3> QED
      BY <1>2, <2>2, <3>1 DEF Tick, SessionTick, Lesser, LoginInv, OthersTyped,
         SessionTypeOK
  <2> QED
    BY <2>1, <2>2 DEF LoginInv
<1>3. ASSUME LoginAccepted, fails' = 0  PROVE LoginInv'
  BY <1>3, OwedDoubles DEF LoginAccepted, LoginInv
<1>4. ASSUME LoginFails, fails' = Lesser(fails + 1, 3), cooled' = 0
      PROVE  LoginInv'
  <2>1. /\ seconds \in Nat /\ breaker' = seconds
        /\ seconds' = Lesser(seconds * 2, MaxBreaker)
    BY <1>4 DEF LoginFails, OthersTyped, SessionTypeOK
  <2>2. CASE fails < 3
    <3>1. fails' = fails + 1 /\ fails + 1 \in 1 .. 3
      BY <1>4, <2>2 DEF Lesser, OthersTyped
    <3>2. /\ Owed(fails + 2) = Lesser(Owed(fails + 1) * 2, MaxBreaker)
          /\ Owed(fails + 1) \in 0 .. MaxBreaker
      <4>1. fails + 1 \in 1 .. 4 /\ fails + 1 + 1 = fails + 2
        BY <3>1 DEF OthersTyped
      <4> QED
        BY <3>1, <4>1, OwedDoubles
    <3>3. seconds' >= Owed(fails + 2)
      BY <2>1, <3>2 DEF Lesser, LoginInv
    <3>4. fails' + 1 = fails + 2
      BY <3>1 DEF OthersTyped
    <3> QED
      BY <1>4, <2>1, <3>1, <3>2, <3>3, <3>4 DEF LoginInv
  <2>3. CASE fails = 3
    <3>1. fails' = 3 /\ fails + 1 = 4 /\ fails' + 1 = 4
      BY <1>4, <2>3 DEF Lesser
    <3>2. /\ Owed(3) <= Owed(4)
          /\ Owed(3) \in 0 .. MaxBreaker /\ Owed(4) \in 0 .. MaxBreaker
      BY OwedDoubles
    <3>3. seconds >= Owed(4)
      BY <3>1 DEF LoginInv
    <3> QED
      BY <1>4, <2>1, <3>1, <3>2, <3>3 DEF LoginInv, Lesser
  <2> QED
    BY <2>2, <2>3 DEF OthersTyped
<1>5. ASSUME NEW t \in Threads, Accepted(t) \/ NotAccepted(t)  PROVE LoginInv'
  BY <1>1, <1>3, <1>4, <1>5 DEF Accepted, NotAccepted, LoginEmpty, tally
\* No other step touches the breaker.
<1>6. CASE UNCHANGED vars \/ Drop
  BY <1>1, <1>6 DEF vars, session, tally, Drop, TokenEnds
<1>7. ASSUME NEW t \in Threads, NEW kind, Begin(t, kind)  PROVE LoginInv'
  BY <1>1, <1>7 DEF Begin, session, tally
<1>8. ASSUME NEW t \in Threads, Login(t)  PROVE LoginInv'
  BY <1>1, <1>8 DEF Login, Refuse, Reuse, PostLogin, session, tally
<1>9. ASSUME NEW t \in Threads,
             \/ Take(t) \/ PaceQuote(t) \/ PaceHist(t) \/ Send(t) \/ Repost(t)
             \/ Served(t) \/ Denied(t) \/ Limited(t) \/ Failed(t)
      PROVE  LoginInv'
  BY <1>1, <1>9 DEF Take, PaceQuote, PaceHist, Send, Repost, Served, Denied,
     Limited,
     Failed, session, tally
<1> QED
  BY <1>2, <1>5, <1>6, <1>7, <1>8, <1>9 DEF Next, Step, AskChain

\* A login is posted only once the breaker has run down.
LEMMA PostsWhenDown ==
  ASSUME OthersTyped, LoginInv, [Next]_vars, lock = "nobody", lock' # "nobody",
         fails > 0
  PROVE  cooled >= Owed(fails)
<1>1. lock' # lock
  OBVIOUS
<1>2. ~(UNCHANGED vars \/ Drop \/ Tick)
  BY <1>1 DEF vars, session, Drop, TokenEnds, Tick, SessionTick
<1>3. PICK t \in Threads :
        Step(t) \/ AskChain(t) \/ Begin(t, "quote") \/ Begin(t, "hist")
  BY <1>2 DEF Next
<1>4. Login(t)
  BY <1>1, <1>3 DEF Step, AskChain, Begin, Accepted, NotAccepted,
     LoginAccepted,
     LoginFails, LoginEmpty, Take, PaceQuote, PaceHist, Send, Repost, Served,
     Denied,
     Limited, Failed, session
<1>5. breaker = 0
  BY <1>1, <1>4 DEF Login, Refuse, Reuse, PostLogin, Broken, session,
     OthersTyped,
     SessionTypeOK
<1> QED
  BY <1>5 DEF LoginInv, OthersTyped

\* After n failures in a row no thread posts a login before the n-th wait is
\* over, however many calls ask for it and whether they force it.
THEOREM LoginsBackOff == Spec => LoginBackoff
<1>1. Init => LoginInv
  BY OwedDoubles DEF Init, SessionInit, LoginInv
<1>2. OthersTyped /\ LoginInv /\ [Next]_vars => LoginInv'
  BY LoginInvStep
<1>3. OthersTyped /\ LoginInv /\ [Next]_vars
      => [lock = "nobody" /\ lock' # "nobody" /\ fails > 0
            => cooled >= Owed(fails)]_vars
  BY PostsWhenDown
<1> QED
  BY <1>1, <1>2, <1>3, PaceInvariant, PTL DEF Spec, LoginBackoff

=============================================================================
