------------------------------ MODULE StreamClient ------------------------------
(***************************************************************************)
(* The threads of AngelOneMarketStream: the runner, which logs in, opens a *)
(* connection and reconnects; the scans that add subscriptions; and one    *)
(* heartbeat per connection.  _lock guards the set of subscriptions and    *)
(* the flag; what is sent is sent without it.                              *)
(***************************************************************************)
EXTENDS FiniteSets, Naturals

CONSTANTS
  Tokens,
  Scanners,          \* threads that call ensure_subscriptions
  MaxSubscriptions,  \* 1000
  MaxConnections     \* bound of the connections of a run

ASSUME StreamAssumption ==
  /\ IsFiniteSet(Tokens)
  /\ MaxSubscriptions \in Nat /\ MaxConnections \in Nat \ {0}

Connections == 1 .. MaxConnections
None        == 0

VARIABLES
  runner,     \* where _run is: "login", "opening", "opened", "read", "sent",
              \* "waiting"
  ws,         \* _ws, the connection, None between two of them
  made,       \* connections made so far
  alive,      \* TRUE while the peer has not closed the connection
  connected,  \* _connected
  subscribed, \* _subscriptions
  scan,       \* what each scanner has still to send, and where
  batch,      \* what _on_open read of the subscriptions
  sent,       \* tokens sent on the connection
  stopped,    \* _heartbeat_stop
  beating     \* connections with a heartbeat thread

conn == <<runner, ws, made, alive, connected>>
vars == <<conn, subscribed, scan, batch, sent, stopped, beating>>

Idle == [tokens |-> {}, to |-> None]

Init ==
  /\ runner = "login" /\ ws = None /\ made = 0 /\ alive = FALSE
  /\ connected = FALSE /\ subscribed = {}
  /\ scan = [n \in Scanners |-> Idle] /\ batch = {} /\ sent = {}
  /\ stopped = FALSE /\ beating = {}

-----------------------------------------------------------------------------
(***************************************************************************)
(* The runner.                                                             *)
(***************************************************************************)

\* The login succeeds and the WebSocketApp is made.
Open ==
  /\ runner = "login" /\ made < MaxConnections
  /\ runner' = "opening" /\ made' = made + 1 /\ ws' = made'
  /\ alive' = TRUE /\ sent' = {}
  /\ UNCHANGED <<batch, connected, subscribed, scan, stopped, beating>>

\* on_open sets the flag ...
OnOpen ==
  /\ runner = "opening" /\ alive /\ runner' = "opened"
  /\ connected' = TRUE
  /\ UNCHANGED <<batch, ws, made, alive, subscribed, scan, sent, stopped,
                 beating>>

\* ... reads the subscriptions ...
ReadAll ==
  /\ runner = "opened" /\ runner' = "read" /\ batch' = subscribed
  /\ UNCHANGED <<ws, made, alive, connected, subscribed, scan, sent,
                 stopped, beating>>

\* Mutant: the event of the last connection is not cleared.
SendAllUncleared ==
  /\ runner = "read" /\ alive /\ runner' = "sent"
  /\ sent' = sent \union batch
  /\ beating' = beating \union {ws}
  /\ UNCHANGED <<batch, ws, made, alive, connected, subscribed, scan, stopped>>

\* ... sends them and starts the heartbeat.  A send is taken to raise only on
\* a connection that its peer has closed: one that raised on a live connection
\* would leave it without the rest of the batch and without a heartbeat.
SendAll ==
  /\ runner = "read" /\ alive /\ runner' = "sent"
  /\ sent' = sent \union batch
  /\ stopped' = FALSE /\ beating' = beating \union {ws}
  /\ UNCHANGED <<batch, ws, made, alive, connected, subscribed, scan>>

\* The connection is lost ...
PeerCloses ==
  /\ alive /\ alive' = FALSE
  /\ UNCHANGED <<batch, runner, ws, made, connected, subscribed, scan, sent,
                 stopped, beating>>

\* ... and run_forever returns: on_close sets the event that wakes the
\* heartbeat, and _run clears the flag and _ws.
OnClose ==
  /\ runner \in {"opening", "opened", "read", "sent"} /\ ~alive
  /\ runner' = "waiting" /\ ws' = None /\ connected' = FALSE
  /\ stopped' = TRUE
  /\ UNCHANGED <<batch, made, alive, subscribed, scan, sent, beating>>

\* The login fails.
LoginFails ==
  /\ runner = "login" /\ runner' = "waiting" /\ connected' = FALSE
  /\ UNCHANGED <<batch, ws, made, alive, subscribed, scan, sent, stopped,
                 beating>>

Backoff ==
  /\ runner = "waiting" /\ runner' = "login"
  /\ UNCHANGED <<batch, ws, made, alive, connected, subscribed, scan, sent,
                 stopped, beating>>

-----------------------------------------------------------------------------
(***************************************************************************)
(* The heartbeats: a thread is woken by the event, or finds its connection *)
(* closed when it sends.  One that is sending while the event is set and   *)
(* cleared again lives until it sends once more.                           *)
(***************************************************************************)

BeatEnds(c) ==
  /\ c \in beating /\ (stopped \/ c # ws \/ ~alive)
  /\ beating' = beating \ {c}
  /\ UNCHANGED <<batch, conn, subscribed, scan, sent, stopped>>

-----------------------------------------------------------------------------
(***************************************************************************)
(* ensure_subscriptions.                                                   *)
(***************************************************************************)

Room ==
  IF Cardinality(subscribed) < MaxSubscriptions
    THEN MaxSubscriptions - Cardinality(subscribed) ELSE 0

\* Mutant: the flag is set at the end of on_open.
TargetLate == IF runner = "sent" THEN ws ELSE None

\* ensure_symbols: what a scan asks for are the equity tokens of its symbols
\* and their nearest futures.
Requests == SUBSET Tokens

Target == IF connected THEN ws ELSE None

\* Under the lock: as many new tokens as there is room for, and the
\* connection if it is open.
Ensure(n, wanted) ==
  LET new == wanted \ subscribed IN
  /\ scan[n] = Idle
  /\ \E chosen \in (SUBSET new) \ {{}} :
       /\ \/ chosen = new /\ Cardinality(new) <= Room
          \/ /\ Cardinality(new) > Room
             /\ Cardinality(chosen) = Room
       /\ subscribed' = subscribed \union chosen
       /\ scan' = IF Target = None THEN scan
                  ELSE [scan EXCEPT ![n] = [tokens |-> chosen, to |-> Target]]
  /\ UNCHANGED <<batch, conn, sent, stopped, beating>>

\* The send, which raises if that connection is closed, and only then.
SendNew(n) ==
  /\ scan[n] # Idle /\ scan' = [scan EXCEPT ![n] = Idle]
  /\ sent' = IF scan[n].to = ws /\ alive THEN sent \union scan[n].tokens
             ELSE sent
  /\ UNCHANGED <<batch, conn, subscribed, stopped, beating>>

Next ==
  \/ Open \/ OnOpen \/ ReadAll \/ SendAll \/ PeerCloses \/ OnClose
  \/ LoginFails \/ Backoff
  \/ (\E c \in Connections : BeatEnds(c))
  \/ \E n \in Scanners :
       (\E wanted \in Requests : Ensure(n, wanted)) \/ SendNew(n)

Spec == Init /\ [][Next]_vars

-----------------------------------------------------------------------------
(***************************************************************************)
(* Properties.                                                             *)
(***************************************************************************)

\* Every variable keeps its type, within Angel's quota of subscriptions.
TypeOK ==
  /\ runner \in {"login", "opening", "opened", "read", "sent", "waiting"}
  /\ ws \in {None} \union Connections /\ made \in 0 .. MaxConnections
  /\ alive \in BOOLEAN /\ connected \in BOOLEAN /\ stopped \in BOOLEAN
  /\ subscribed \subseteq Tokens /\ batch \subseteq Tokens
  /\ sent \subseteq Tokens
  /\ Cardinality(subscribed) <= MaxSubscriptions
  /\ \A n \in Scanners : /\ scan[n].tokens \subseteq Tokens
                          /\ scan[n].to \in {None} \union Connections
  /\ beating \subseteq Connections

\* A subscription that was added while the connection was being opened is
\* not lost between on_open and the scans: when none of them is sending, every
\* subscription has been sent on the live connection.
SubscriptionsAreSent ==
  runner = "sent" /\ alive /\ (\A n \in Scanners : scan[n] = Idle)
    => sent = subscribed

\* A live connection that has been opened keeps its heartbeat, whatever the
\* event of an earlier connection did.
HeartbeatIsKept == runner = "sent" /\ alive => ws \in beating

=============================================================================
