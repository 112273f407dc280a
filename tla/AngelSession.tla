----------------------------- MODULE AngelSession -----------------------------
(***************************************************************************)
(* The read-only session with the broker: the token, the login under       *)
(* _lock, and the circuit breaker that spaces failing logins.  Time is     *)
(* counted in ticks.                                                       *)
(***************************************************************************)
EXTENDS Naturals

CONSTANTS
  Threads,
  Breaker,    \* 15 minutes, in ticks
  MaxBreaker  \* 60 minutes

ASSUME SessionAssumption ==
  /\ Breaker \in Nat \ {0} /\ MaxBreaker \in Nat /\ Breaker <= MaxBreaker
  /\ "nobody" \notin Threads

VARIABLES
  jwt,      \* _jwt: "none", "valid", "old" after eight hours, "rejected" if
            \* the broker has dropped it
  lock,     \* the thread that posts a login under _lock
  breaker,  \* ticks until _breaker_until
  seconds   \* _breaker_seconds

session == <<jwt, lock, breaker, seconds>>

Lesser(m, n) == IF m < n THEN m ELSE n

SessionInit ==
  /\ jwt = "none" /\ lock = "nobody"
  /\ breaker = 0 /\ seconds = Breaker

\* A forced login forgets the token before anything else.
Known(force) == IF force THEN "none" ELSE jwt

Fresh(token) == token \in {"valid", "rejected"}

\* Mutant: a forced login does not look at the breaker.
BrokenUnlessForced(force) == ~force /\ breaker > 0

Broken(force) == breaker > 0

\* Mutant: a login that the breaker stops opens it again.
RefuseAgain(force) ==
  /\ Broken(force) /\ jwt' = Known(force)
  /\ breaker' = seconds
  /\ UNCHANGED <<lock, seconds>>

\* The breaker is open.
Refuse(force) ==
  /\ Broken(force) /\ jwt' = Known(force)
  /\ UNCHANGED <<lock, breaker, seconds>>

\* The token is good for eight hours.
Reuse(force) ==
  /\ ~Broken(force) /\ Fresh(Known(force))
  /\ UNCHANGED session

\* The login is posted, with the lock.
PostLogin(t, force) ==
  /\ ~Broken(force) /\ ~Fresh(Known(force))
  /\ jwt' = Known(force) /\ lock' = t
  /\ UNCHANGED <<breaker, seconds>>

LoginAccepted ==
  /\ jwt' = "valid" /\ lock' = "nobody"
  /\ breaker' = 0 /\ seconds' = Breaker

\* A success without a jwtToken is no token, and no failure either.
LoginEmpty ==
  /\ jwt' = "none" /\ lock' = "nobody"
  /\ UNCHANGED <<breaker, seconds>>

\* Rejected, or any exception.
LoginFails ==
  /\ lock' = "nobody"
  /\ breaker' = seconds /\ seconds' = Lesser(seconds * 2, MaxBreaker)
  /\ UNCHANGED jwt

\* The broker drops the token, or the eight hours pass.
TokenEnds ==
  /\ jwt = "valid" /\ jwt' \in {"old", "rejected"}
  /\ UNCHANGED <<lock, breaker, seconds>>

SessionTick ==
  /\ breaker' = IF breaker = 0 THEN 0 ELSE breaker - 1
  /\ UNCHANGED <<jwt, lock, seconds>>

SessionTypeOK ==
  /\ jwt \in {"none", "valid", "old", "rejected"}
  /\ lock \in Threads \union {"nobody"}
  /\ breaker \in 0 .. MaxBreaker /\ seconds \in Breaker .. MaxBreaker

=============================================================================
