-------------------------- MODULE MarketStreamProofs --------------------------
(***************************************************************************)
(* Proofs about MarketStream for any set of tokens and number of scans,    *)
(* connections, buckets and trades: what the threads of the client keep    *)
(* of the subscriptions and the heartbeat, and what the candles keep of    *)
(* the traded volumes, whatever gaps the client makes.                     *)
(***************************************************************************)
EXTENDS MarketStream, TLAPS, FiniteSetTheorems

-----------------------------------------------------------------------------
(***************************************************************************)
(* The threads of the client.                                              *)
(***************************************************************************)
Open3   == {"opened", "read", "sent"}
Sending == [tokens : SUBSET Tokens, to : {None} \union Connections]

\* The types, without the quota.
Shapes ==
  /\ runner \in {"login", "opening", "opened", "read", "sent", "waiting"}
  /\ ws \in {None} \union Connections /\ made \in 0 .. MaxConnections
  /\ alive \in BOOLEAN /\ connected \in BOOLEAN /\ stopped \in BOOLEAN
  /\ subscribed \subseteq Tokens /\ batch \subseteq Tokens
  /\ sent \subseteq Tokens
  /\ scan \in [Scanners -> Sending]
  /\ beating \subseteq Connections

\* The flag and the connection follow the runner, and no scan is sending on a
\* connection that is yet to be opened.
Follows ==
  /\ connected <=> runner \in Open3
  /\ runner \in {"login", "waiting"} => ws = None
  /\ runner \notin {"login", "waiting"} => ws = made /\ ws # None
  /\ \A n \in Scanners : scan[n].to <= made
  /\ runner = "opening" => \A n \in Scanners : scan[n].to # ws

\* Once on_open has read the subscriptions, each of them has been sent, or
\* on_open or a scan is about to send it.
OnItsWay(x) ==
  \/ x \in sent
  \/ runner = "read" /\ x \in batch
  \/ \E n \in Scanners : scan[n].to = ws /\ x \in scan[n].tokens

SentInv ==
  /\ batch \subseteq subscribed /\ sent \subseteq subscribed
  /\ \A n \in Scanners : scan[n].tokens \subseteq subscribed
  /\ runner \in {"read", "sent"} /\ alive => \A x \in subscribed : OnItsWay(x)

\* The event is cleared before the heartbeat starts, and is not set again
\* before the connection is closed.
BeatInv == runner = "sent" => ~stopped /\ (alive => ws \in beating)

Quota == Cardinality(subscribed) <= MaxSubscriptions

StreamInv == Shapes /\ Follows /\ SentInv /\ BeatInv /\ Quota

LEMMA QuotaKept ==
  ASSUME Shapes, Quota, NEW chosen \in SUBSET Tokens, chosen # {},
         Cardinality(chosen) <= Room
  PROVE  Cardinality(subscribed \union chosen) <= MaxSubscriptions
<1>1. IsFiniteSet(subscribed) /\ IsFiniteSet(chosen)
  BY FS_Subset, StreamAssumption DEF StreamAssumption, Shapes
<1>2. Cardinality(subscribed) \in Nat /\ Cardinality(chosen) \in Nat
  BY <1>1, FS_CardinalityType
<1>3. Cardinality(subscribed \union chosen)
        = Cardinality(subscribed) + Cardinality(chosen)
          - Cardinality(subscribed \cap chosen)
  BY <1>1, FS_Union
<1>4. Cardinality(subscribed \cap chosen) \in Nat
  BY <1>1, FS_Intersection, FS_CardinalityType
<1>5. Cardinality(chosen) # 0
  BY <1>1, FS_EmptySet
<1> QED
  BY <1>2, <1>3, <1>4, <1>5, StreamAssumption DEF StreamAssumption, Room, Quota

LEMMA EnsureStep ==
  ASSUME StreamInv, NEW n \in Scanners, NEW wanted \in Requests, Ensure(n, wanted)
  PROVE  StreamInv'
<1> DEFINE new == wanted \ subscribed
<1>1. PICK chosen \in (SUBSET new) \ {{}} :
        /\ \/ chosen = new /\ Cardinality(new) <= Room
           \/ /\ Cardinality(new) > Room
              /\ Cardinality(chosen) = Room
        /\ subscribed' = subscribed \union chosen
        /\ scan' = IF Target = None THEN scan
                   ELSE [scan EXCEPT ![n] = [tokens |-> chosen, to |-> Target]]
  BY DEF Ensure
<1>2. chosen \in SUBSET Tokens /\ chosen # {} /\ scan[n] = Idle
  BY <1>1 DEF Ensure, Requests
<1>3. UNCHANGED <<batch, conn, sent, stopped, beating>>
  BY DEF Ensure
<1>4. Cardinality(chosen) <= Room
  <2>1. Room \in Nat
    <3>1. IsFiniteSet(subscribed)
      BY FS_Subset, StreamAssumption DEF StreamAssumption, StreamInv, Shapes
    <3> QED
      BY <3>1, FS_CardinalityType, StreamAssumption DEF StreamAssumption, Room
  <2> HIDE DEF new
  <2> QED
    BY <1>1, <2>1
<1>5. Quota'
  BY <1>1, <1>2, <1>4, QuotaKept DEF StreamInv, Quota
<1>6. Target \in {None} \union Connections
  BY DEF Target, StreamInv, Shapes
<1>7. Shapes'
  <2>1. scan' \in [Scanners -> Sending]
    BY <1>1, <1>2, <1>6 DEF StreamInv, Shapes, Sending
  <2> QED
    BY <1>1, <1>2, <1>3, <2>1 DEF StreamInv, Shapes, conn
<1>8. /\ scan'[n] = IF Target = None THEN Idle
                    ELSE [tokens |-> chosen, to |-> Target]
      /\ \A k \in Scanners \ {n} : scan'[k] = scan[k]
  BY <1>1, <1>2 DEF StreamInv, Shapes
<1>9. Follows'
  <2>1. ASSUME NEW k \in Scanners
        PROVE  /\ scan'[k].to <= made
               /\ runner = "opening" => scan'[k].to # ws
    <3>1. CASE scan'[k] = scan[k]
      BY <3>1 DEF StreamInv, Follows
    <3>2. CASE k = n /\ Target = None
      BY <1>8, <3>2 DEF StreamInv, Follows, Shapes, Idle, None
    <3>3. CASE k = n /\ Target # None
      <4>1. scan'[k].to = ws /\ connected
        BY <1>8, <3>3 DEF Target
      <4> QED
        BY <4>1 DEF StreamInv, Follows, Shapes, Open3
    <3> QED
      BY <1>8, <3>1, <3>2, <3>3
  <2> QED
    BY <1>3, <2>1 DEF StreamInv, Follows, conn
<1>10. SentInv'
  <2>1. /\ batch' \subseteq subscribed' /\ sent' \subseteq subscribed'
        /\ \A k \in Scanners : scan'[k].tokens \subseteq subscribed'
    BY <1>1, <1>3, <1>8 DEF StreamInv, SentInv, Idle
  <2>2. ASSUME runner' \in {"read", "sent"}, alive', NEW x \in subscribed'
        PROVE  OnItsWay(x)'
    <3>1. Target = ws /\ ws # None
      BY <1>3, <2>2 DEF conn, Target, StreamInv, Follows, Open3
    <3>2. CASE x \in chosen
      BY <1>3, <1>8, <3>1, <3>2 DEF OnItsWay, conn
    <3>3. CASE x \in subscribed
      <4>1. OnItsWay(x)
        BY <1>3, <2>2, <3>3 DEF conn, StreamInv, SentInv
      <4>2. CASE \E k \in Scanners : scan[k].to = ws /\ x \in scan[k].tokens
        <5>1. PICK k \in Scanners : scan[k].to = ws /\ x \in scan[k].tokens
          BY <4>2
        <5>2. k # n
          BY <1>2, <5>1 DEF Idle
        <5> QED
          BY <1>3, <1>8, <5>1, <5>2 DEF OnItsWay, conn
      <4> QED
        BY <1>3, <4>1, <4>2 DEF OnItsWay, conn
    <3> QED
      BY <1>1, <2>2, <3>2, <3>3
  <2> QED
    BY <2>1, <2>2 DEF SentInv
<1>11. BeatInv'
  BY <1>3 DEF StreamInv, BeatInv, conn
<1> QED
  BY <1>5, <1>7, <1>9, <1>10, <1>11 DEF StreamInv

LEMMA SendNewStep ==
  ASSUME StreamInv, NEW n \in Scanners, SendNew(n)
  PROVE  StreamInv'
<1>1. /\ scan[n] # Idle
      /\ sent' = IF scan[n].to = ws /\ alive THEN sent \union scan[n].tokens
                 ELSE sent
      /\ UNCHANGED <<batch, runner, ws, made, alive, connected, subscribed,
                     stopped, beating>>
  BY DEF SendNew, conn
<1>2. scan'[n] = Idle /\ \A k \in Scanners \ {n} : scan'[k] = scan[k]
  BY DEF SendNew, StreamInv, Shapes
<1>3. Shapes'
  <2>1. Idle \in Sending
    BY DEF Idle, Sending
  <2>2. scan' \in [Scanners -> Sending]
    BY <2>1 DEF SendNew, StreamInv, Shapes
  <2>3. scan[n].tokens \subseteq Tokens
    BY DEF StreamInv, Shapes, Sending
  <2> QED
    BY <1>1, <2>2, <2>3 DEF StreamInv, Shapes
<1>4. Follows'
  BY <1>1, <1>2 DEF StreamInv, Shapes, Follows, Idle, None
<1>5. SentInv'
  <2>1. /\ batch' \subseteq subscribed' /\ sent' \subseteq subscribed'
        /\ \A k \in Scanners : scan'[k].tokens \subseteq subscribed'
    BY <1>1, <1>2 DEF StreamInv, SentInv, Idle
  <2>2. ASSUME runner \in {"read", "sent"}, alive, NEW x \in subscribed
        PROVE  OnItsWay(x)'
    <3>1. OnItsWay(x)
      BY <2>2 DEF StreamInv, SentInv
    <3>2. CASE \E k \in Scanners : scan[k].to = ws /\ x \in scan[k].tokens
      <4>1. PICK k \in Scanners : scan[k].to = ws /\ x \in scan[k].tokens
        BY <3>2
      <4>2. CASE k = n
        <5>1. sent' = sent \union scan[n].tokens
          BY <1>1, <2>2, <4>1, <4>2
        <5> QED
          BY <4>1, <4>2, <5>1 DEF OnItsWay
      <4>3. CASE k # n
        BY <1>1, <1>2, <4>1, <4>3 DEF OnItsWay
      <4> QED
        BY <4>2, <4>3
    <3>3. CASE x \in sent \/ (runner = "read" /\ x \in batch)
      <4>1. x \in sent => x \in sent'
        BY <1>1
      <4> QED
        BY <1>1, <3>3, <4>1 DEF OnItsWay
    <3> QED
      BY <3>1, <3>2, <3>3 DEF OnItsWay
  <2> QED
    BY <1>1, <2>1, <2>2 DEF SentInv
<1>6. BeatInv' /\ Quota'
  BY <1>1 DEF StreamInv, BeatInv, Quota
<1> QED
  BY <1>3, <1>4, <1>5, <1>6 DEF StreamInv

LEMMA StreamStep ==
  ASSUME StreamInv, [Next]_vars
  PROVE  StreamInv'
<1> USE StreamAssumption DEF StreamAssumption, StreamInv
<1>1. CASE Open
  <2>1. UNCHANGED <<batch, connected, subscribed, scan, stopped, beating>>
    BY <1>1 DEF Open
  <2>2. made' = made + 1 /\ made' \in Connections /\ ws' = made'
    BY <1>1 DEF Open, Shapes, Connections
  <2>3. Shapes'
    BY <1>1, <2>1, <2>2 DEF Open, Shapes, Connections
  <2>4. Follows'
    <3>1. ASSUME NEW n \in Scanners
          PROVE  scan'[n].to <= made' /\ scan'[n].to # ws'
      <4>1. scan[n].to \in Nat /\ scan[n].to <= made /\ made \in Nat
        BY DEF Shapes, Sending, Follows, Connections, None
      <4> QED
        BY <2>1, <2>2, <4>1
    <3> QED
      BY <1>1, <2>1, <2>2, <3>1 DEF Open, Follows, Open3, Connections, None
  <2>5. SentInv' /\ BeatInv' /\ Quota'
    BY <1>1, <2>1 DEF Open, SentInv, BeatInv, Quota
  <2> QED
    BY <2>3, <2>4, <2>5
<1>2. CASE OnOpen
  BY <1>2 DEF OnOpen, Shapes, Follows, Open3, SentInv, BeatInv, Quota
<1>3. CASE ReadAll
  BY <1>3 DEF ReadAll, Shapes, Follows, Open3, SentInv, OnItsWay, BeatInv,
     Quota
<1>4. CASE SendAll
  <2>1. /\ runner = "read" /\ alive /\ runner' = "sent"
        /\ sent' = sent \union batch
        /\ stopped' = FALSE /\ beating' = beating \union {ws}
        /\ UNCHANGED <<batch, ws, made, alive, connected, subscribed, scan>>
    BY <1>4 DEF SendAll
  <2>2. Shapes' /\ Follows' /\ BeatInv' /\ Quota'
    BY <2>1 DEF Shapes, Follows, Open3, BeatInv, Quota
  <2>3. SentInv'
    BY <2>1 DEF SentInv, OnItsWay
  <2> QED
    BY <2>2, <2>3
<1>5. CASE PeerCloses
  BY <1>5 DEF PeerCloses, Shapes, Follows, Open3, SentInv, BeatInv, Quota
<1>6. CASE OnClose
  BY <1>6 DEF OnClose, Shapes, Follows, Open3, SentInv, BeatInv, Quota
<1>7. CASE LoginFails \/ Backoff
  <2>1. UNCHANGED <<batch, ws, made, alive, subscribed, scan, sent, stopped,
                    beating>>
    BY <1>7 DEF LoginFails, Backoff
  <2>2. /\ runner' \in {"login", "waiting"} /\ runner \in {"login", "waiting"}
        /\ ~connected' /\ connected' \in BOOLEAN
    <3>1. CASE LoginFails
      BY <3>1 DEF LoginFails
    <3>2. CASE Backoff
      <4>1. runner = "waiting" /\ runner' = "login" /\ connected' = connected
        BY <3>2 DEF Backoff
      <4>2. ~connected
        BY <4>1 DEF Follows, Open3
      <4> QED
        BY <4>1, <4>2 DEF Shapes
    <3> QED
      BY <1>7, <3>1, <3>2
  <2>4. Shapes'
    BY <2>1, <2>2 DEF Shapes
  <2>5. Follows'
    BY <2>1, <2>2 DEF Follows, Open3
  <2>3. SentInv' /\ BeatInv' /\ Quota'
    BY <1>7, <2>1 DEF LoginFails, Backoff, SentInv, BeatInv, Quota
  <2> QED
    BY <2>3, <2>4, <2>5
<1>8. ASSUME NEW c \in Connections, BeatEnds(c)  PROVE StreamInv'
  BY <1>8 DEF BeatEnds, conn, Shapes, Follows, Open3, SentInv, OnItsWay,
     BeatInv,
     Quota
<1>9. CASE UNCHANGED vars
  BY <1>9 DEF vars, conn, Shapes, Follows, SentInv, OnItsWay, BeatInv, Quota
<1> QED
  BY <1>1, <1>2, <1>3, <1>4, <1>5, <1>6, <1>7, <1>8, <1>9, EnsureStep,
     SendNewStep
  DEF Next

LEMMA StreamInit == Init => StreamInv
<1> SUFFICES ASSUME Init PROVE StreamInv
  OBVIOUS
<1>1. Shapes
  <2>1. Idle \in Sending
    BY DEF Idle, Sending
  <2>2. scan \in [Scanners -> Sending]
    BY <2>1 DEF Init
  <2> QED
    <3>1. /\ runner = "login" /\ ws = None /\ made = 0 /\ alive = FALSE
          /\ connected = FALSE /\ stopped = FALSE
          /\ subscribed = {} /\ batch = {} /\ sent = {} /\ beating = {}
      BY DEF Init
    <3>2. made \in 0 .. MaxConnections
      BY <3>1, StreamAssumption DEF StreamAssumption
    <3> QED
      BY <2>2, <3>1, <3>2 DEF Shapes
<1>3. Follows /\ SentInv /\ BeatInv
  BY DEF Init, Idle, Follows, Open3, SentInv, BeatInv, None
<1>2. Quota
  BY FS_EmptySet, StreamAssumption DEF StreamAssumption, Init, Quota
<1> QED
  BY <1>1, <1>2, <1>3 DEF StreamInv

LEMMA StreamInvariant == MarketSpec => []StreamInv
<1>1. MarketInit => StreamInv
  BY StreamInit DEF MarketInit
<1>2. StreamInv /\ [MarketNext]_<<vars, candles>> => StreamInv'
  BY StreamStep DEF MarketNext
<1> QED
  BY <1>1, <1>2, PTL DEF MarketSpec

\* Every variable of the client keeps its type, and the subscriptions stay
\* within Angel's quota, however many scans ask for more.
THEOREM StreamTypeCorrect == MarketSpec => []TypeOK
<1>1. StreamInv => TypeOK
  BY DEF StreamInv, Shapes, Sending, Quota, TypeOK
<1> QED
  BY <1>1, StreamInvariant, PTL

\* When no scan is sending, every subscription has been sent on the live
\* connection: none falls between on_open and the scans.
THEOREM SubscriptionsReachTheConnection == MarketSpec => []SubscriptionsAreSent
<1>1. StreamInv => SubscriptionsAreSent
  <2> SUFFICES ASSUME StreamInv, runner = "sent", alive,
                      \A n \in Scanners : scan[n] = Idle
               PROVE  sent = subscribed
    BY DEF SubscriptionsAreSent
  <2>1. \A x \in subscribed : OnItsWay(x)
    BY DEF StreamInv, SentInv
  <2>2. \A n \in Scanners : scan[n].tokens = {}
    BY DEF Idle
  <2>3. \A x \in subscribed : x \in sent
    BY <2>1, <2>2 DEF OnItsWay
  <2> QED
    BY <2>3 DEF StreamInv, SentInv
<1> QED
  BY <1>1, StreamInvariant, PTL

\* A live connection that has been opened keeps its heartbeat.
THEOREM HeartbeatGoesOn == MarketSpec => []HeartbeatIsKept
<1>1. StreamInv => HeartbeatIsKept
  BY DEF StreamInv, BeatInv, HeartbeatIsKept
<1> QED
  BY <1>1, StreamInvariant, PTL

-----------------------------------------------------------------------------
(***************************************************************************)
(* The candles of the watched token.                                       *)
(***************************************************************************)

LEMMA Bounds ==
  /\ MaxBucket \in Nat /\ MaxTrade \in Nat /\ MaxTrade > 0
  /\ MaxCounter \in Nat /\ MaxCounter > 0
  /\ MaxHistory \in Nat /\ MaxHistory > 0
  /\ C!Buckets = 0 .. MaxBucket /\ C!Unknown = MaxCounter + 1
BY MarketAssumption DEF MarketAssumption, C!Buckets, C!Unknown

\* The types, and the order of the candles.  A valid candle has no more than
\* the counter that it has seen last.
Built ==
  /\ now \in C!Buckets /\ counter \in 0 .. MaxCounter
  /\ traded \in [C!Buckets -> Nat] /\ missed \subseteq 0 .. now
  /\ candle \in C!Candle
  /\ candle.valid => candle.volume <= candle.last
  /\ candle # C!None => candle.last # C!Unknown /\ candle.bucket <= now
  /\ candle = C!None => history = << >>
  /\ \A b \in C!Buckets : b > now => traded[b] = 0

Ordered ==
  /\ history \in Seq(C!Candle) /\ Len(history) <= MaxHistory
  /\ \A i \in 1 .. Len(history) : history[i].bucket < candle.bucket
  /\ \A i, j \in 1 .. Len(history) :
       i < j => history[i].bucket < history[j].bucket

\* No trade was missed from one bucket to another.
Quiet(lo, hi) == \A b \in missed : b < lo \/ b > hi

Exact(c, since) ==
  c.valid /\ Quiet(since, c.bucket) => c.volume = traded[c.bucket]

LastBucket == IF history = << >> THEN 0 ELSE history[Len(history)].bucket

\* Every candle is exact, the one that is being built too.  While no trade has
\* been missed since its bucket began, its last counter is the present one,
\* or the counter has started again below it, by more than a trade.
Counted ==
  /\ \A i \in 1 .. Len(history) : Exact(history[i], C!Since(i))
  /\ candle # C!None => Exact(candle, LastBucket)
  /\ candle # C!None /\ (\A b \in missed : b < candle.bucket) =>
       /\ counter = candle.last \/ (counter = 0 /\ candle.last > MaxTrade)
       /\ \A b \in C!Buckets : b > candle.bucket => traded[b] = 0

CandleInv == Built /\ Ordered /\ Counted

\* The candles of g are the last ones of h, and then c.
Extends(g, h, c) ==
  /\ g \in Seq(C!Candle) /\ Len(g) \in 1 .. MaxHistory
  /\ Len(g) <= Len(h) + 1 /\ g[Len(g)] = c
  /\ \A i \in 1 .. Len(g) - 1 :
       /\ i + (Len(h) + 1 - Len(g)) \in 1 .. Len(h)
       /\ g[i] = h[i + (Len(h) + 1 - Len(g))]

LEMMA CompletedFacts ==
  ASSUME NEW h \in Seq(C!Candle), NEW c \in C!Candle, Len(h) <= MaxHistory,
         NEW g, g = C!Completed(h, c)
  PROVE  Extends(g, h, c)
<1> DEFINE a == Append(h, c)
           n == Len(h)
<1>1. /\ n \in Nat /\ a \in Seq(C!Candle) /\ Len(a) = n + 1
      /\ \A i \in 1 .. n : a[i] = h[i]
      /\ a[n + 1] = c
  OBVIOUS
<1>2. CASE n + 1 <= MaxHistory
  <2>1. g = a
    BY <1>1, <1>2 DEF C!Completed, C!LastOf
  <2> HIDE DEF a
  <2> QED
    BY <1>1, <1>2, <2>1, Bounds DEF Extends
<1>3. CASE n + 1 > MaxHistory
  <2>1. n = MaxHistory
    BY <1>1, <1>3, Bounds
  <2>2. g = C!LastOf(a, MaxHistory)
    BY DEF C!Completed
  <2> HIDE DEF a, n
  <2>3. g = SubSeq(a, 2, n + 1)
    <3>1. ~(Len(a) <= MaxHistory) /\ Len(a) - MaxHistory + 1 = 2
      BY <1>1, <2>1, Bounds
    <3> QED
      BY <1>1, <2>2, <3>1 DEF C!LastOf
  <2>4. /\ g \in Seq(C!Candle) /\ Len(g) = n
        /\ \A i \in 1 .. n : g[i] = a[i + 1]
    BY <1>1, <2>1, <2>3, Bounds
  <2>5. \A i \in 1 .. n - 1 : i + 1 \in 1 .. n /\ g[i] = h[i + 1]
    BY <1>1, <2>4
  <2>6. n \in 1 .. n /\ g[n] = c
    BY <1>1, <2>1, <2>4, Bounds
  <2>7. n + 1 - Len(g) = 1
    BY <1>1, <2>4
  <2> QED
    BY <1>1, <2>1, <2>4, <2>5, <2>6, <2>7, Bounds DEF Extends, n
<1> QED
  BY <1>1, <1>2, <1>3, Bounds

LEMMA MeasuredFacts ==
  ASSUME NEW c \in C!Candle, NEW prior \in 0 .. MaxCounter + 1,
         NEW v \in 0 .. MaxCounter,
         NEW base \in 0 .. MaxCounter + 1,
         base = IF c.last # C!Unknown THEN c.last ELSE prior,
         c.valid => c.volume <= base,
         NEW m, m = C!Measured(c, prior, v)
  PROVE  /\ m \in C!Candle /\ m.bucket = c.bucket /\ m.last = v
         /\ m.valid => /\ c.valid /\ base # C!Unknown /\ v >= base
                       /\ m.volume = c.volume + (v - base) /\ m.volume <= v
<1> DEFINE known == base # C!Unknown /\ v >= base
           vol   == IF known /\ c.valid THEN c.volume + (v - base) ELSE c.volume
<1>1. m = [c EXCEPT !.last = v, !.valid = c.valid /\ known, !.volume = vol]
  BY Bounds DEF C!Measured
<1>2. /\ c.bucket \in C!Buckets /\ c.volume \in 0 .. MaxCounter
      /\ c.valid \in BOOLEAN
  BY DEF C!Candle
<1>3. vol \in 0 .. MaxCounter /\ (c.valid /\ known => vol <= v)
  BY <1>2, Bounds
<1>4. known \in BOOLEAN
  OBVIOUS
<1> HIDE DEF vol, known
<1>5. m = [bucket |-> c.bucket, volume |-> vol, last |-> v, valid |-> c.valid /\ known]
  BY <1>1 DEF C!Candle
<1>6. v \in 0 .. MaxCounter + 1
  BY Bounds
<1>7. m \in C!Candle
  BY <1>2, <1>3, <1>4, <1>5, <1>6 DEF C!Candle
<1>8. m.bucket = c.bucket /\ m.last = v /\ m.valid = (c.valid /\ known)
  BY <1>5
<1>9. m.volume = vol
  BY <1>5
<1> QED
  BY <1>3, <1>7, <1>8, <1>9 DEF vol, known

\* What a tick makes of the candle, whichever it is.
LEMMA AddMeasures ==
  ASSUME CandleInv, NEW v \in 0 .. MaxCounter, C!Add(v)
  PROVE  \E c \in C!Candle, base \in 0 .. MaxCounter + 1 :
           /\ candle' \in C!Candle /\ candle'.bucket = c.bucket
           /\ candle'.last = v
           /\ candle'.valid =>
                /\ c.valid /\ base # C!Unknown /\ v >= base
                /\ candle'.volume = c.volume + (v - base)
                /\ candle'.volume <= v
           /\ \/ /\ candle # C!None /\ candle.bucket = now
                 /\ history' = history /\ c = candle /\ base = candle.last
              \/ /\ candle = C!None /\ history' = history /\ c = C!New(now)
                 /\ base = C!Unknown
              \/ /\ candle # C!None /\ candle.bucket # now
                 /\ history' = C!Completed(history, candle)
                 /\ c = C!New(now) /\ base = candle.last
<1> DEFINE next  == candle = C!None \/ candle.bucket # now
           h     == IF next /\ candle # C!None THEN C!Completed(history, candle)
                    ELSE history
           prior == IF h = << >> THEN C!Unknown ELSE h[Len(h)].last
           c     == IF next THEN C!New(now) ELSE candle
           base  == IF c.last # C!Unknown THEN c.last ELSE prior
<1>1. candle' = C!Measured(c, prior, v) /\ history' = h
  BY DEF C!Add
<1>2. /\ C!New(now) \in C!Candle /\ C!New(now).last = C!Unknown
      /\ C!New(now).volume = 0 /\ C!New(now).bucket = now
  BY Bounds DEF C!New, C!Candle, CandleInv, Built
<1>3. candle \in C!Candle /\ candle.last \in 0 .. MaxCounter + 1
  BY DEF CandleInv, Built, C!Candle
<1>4. CASE candle # C!None /\ candle.bucket = now
  <2>1. c = candle /\ h = history /\ base = candle.last
    BY <1>4 DEF CandleInv, Built
  <2>2. prior \in 0 .. MaxCounter + 1
    <3>1. ASSUME history # << >>  PROVE history[Len(history)] \in C!Candle
      BY <3>1 DEF CandleInv, Ordered
    <3> QED
      BY <2>1, <3>1, Bounds DEF C!Candle
  <2>3. c.valid => c.volume <= base
    BY <2>1 DEF CandleInv, Built
  <2>4. base = IF c.last # C!Unknown THEN c.last ELSE prior
    OBVIOUS
  <2> HIDE DEF c, h, base, prior
  <2>5. /\ candle' \in C!Candle /\ candle'.bucket = c.bucket /\ candle'.last = v
        /\ candle'.valid => /\ c.valid /\ base # C!Unknown /\ v >= base
                            /\ candle'.volume = c.volume + (v - base)
                            /\ candle'.volume <= v
    BY <1>1, <1>3, <2>1, <2>2, <2>3, <2>4, MeasuredFacts
  <2> QED
    BY <1>1, <1>3, <1>4, <2>1, <2>5
<1>5. CASE candle = C!None
  <2>1. c = C!New(now) /\ h = history /\ h = << >> /\ prior = C!Unknown
    BY <1>5 DEF CandleInv, Built
  <2>2. base = C!Unknown /\ prior \in 0 .. MaxCounter + 1
    BY <1>2, <2>1, Bounds
  <2>3. c.valid => c.volume <= base
    BY <1>2, <2>1, <2>2, Bounds
  <2>4. base = IF c.last # C!Unknown THEN c.last ELSE prior
    OBVIOUS
  <2> HIDE DEF c, h, base, prior
  <2>5. /\ candle' \in C!Candle /\ candle'.bucket = c.bucket /\ candle'.last = v
        /\ candle'.valid => /\ c.valid /\ base # C!Unknown /\ v >= base
                            /\ candle'.volume = c.volume + (v - base)
                            /\ candle'.volume <= v
    BY <1>1, <1>2, <2>1, <2>2, <2>3, <2>4, MeasuredFacts
  <2>6. c \in C!Candle /\ base \in 0 .. MaxCounter + 1
    BY <1>2, <2>1, <2>2, Bounds
  <2> QED
    BY <1>1, <1>5, <2>1, <2>2, <2>5, <2>6
<1>6. CASE candle # C!None /\ candle.bucket # now
  <2>1. c = C!New(now) /\ h = C!Completed(history, candle)
    BY <1>6
  <2>2. prior = candle.last
    <3> HIDE DEF h
    <3>1. Len(h) \in 1 .. MaxHistory /\ h[Len(h)] = candle
      <4>1. history \in Seq(C!Candle) /\ Len(history) <= MaxHistory
        BY DEF CandleInv, Ordered
      <4>2. Extends(h, history, candle)
        BY <1>3, <2>1, <4>1, CompletedFacts
      <4> QED
        BY <4>2 DEF Extends
    <3>2. h # << >>
      BY <3>1
    <3> QED
      BY <3>1, <3>2
  <2>3. base = candle.last
    BY <1>2, <2>1, <2>2
  <2>4. c.valid => c.volume <= base
    BY <1>2, <1>3, <2>1, <2>3
  <2>5. base = IF c.last # C!Unknown THEN c.last ELSE prior
    OBVIOUS
  <2> HIDE DEF c, h, base, prior
  <2>6. /\ candle' \in C!Candle /\ candle'.bucket = c.bucket /\ candle'.last = v
        /\ candle'.valid => /\ c.valid /\ base # C!Unknown /\ v >= base
                            /\ candle'.volume = c.volume + (v - base)
                            /\ candle'.volume <= v
    BY <1>1, <1>2, <1>3, <2>1, <2>2, <2>3, <2>4, <2>5, MeasuredFacts
  <2> QED
    BY <1>1, <1>2, <1>3, <1>6, <2>1, <2>3, <2>6
<1> QED
  BY <1>4, <1>5, <1>6

\* What is said of the completed candles stays true of those that are kept:
\* the first of them answers for more than before.
LEMMA CompletedKept ==
  ASSUME CandleInv, candle # C!None, history' = C!Completed(history, candle),
         \A b \in C!Buckets : b < now => traded'[b] = traded[b],
         missed' = missed, candle.bucket < now
  PROVE  /\ history' \in Seq(C!Candle) /\ Len(history') \in 1 .. MaxHistory
         /\ history'[Len(history')] = candle
         /\ \A i \in 1 .. Len(history') : history'[i].bucket <= candle.bucket
         /\ \A i, j \in 1 .. Len(history') :
              i < j => history'[i].bucket < history'[j].bucket
         /\ \A i \in 1 .. Len(history') : Exact(history[i], C!Since(i))'
<1>1. /\ history \in Seq(C!Candle) /\ Len(history) \in Nat
      /\ Len(history) <= MaxHistory /\ candle \in C!Candle
  BY DEF CandleInv, Ordered, Built
<1>0. Extends(history', history, candle)
  BY <1>1, CompletedFacts
<1> DEFINE m == Len(history)
           n == Len(history')
           d == m + 1 - n
<1>2. /\ m \in Nat /\ n \in 1 .. MaxHistory /\ n <= m + 1
      /\ history' \in Seq(C!Candle) /\ history'[n] = candle
      /\ \A i \in 1 .. n - 1 : i + d \in 1 .. m /\ history'[i] = history[i + d]
  BY <1>0, <1>1 DEF Extends
<1>3. d \in Nat /\ n \in Nat /\ n > 0
  BY <1>2
<1> HIDE DEF m, n, d
<1>4. candle.bucket \in Nat
  BY <1>1, Bounds DEF C!Candle
<1>5. \A i \in 1 .. m : history[i].bucket \in Nat /\ history[i] \in C!Candle
  <2>1. \A i \in 1 .. m : history[i] \in C!Candle
    BY <1>1 DEF m
  <2>2. \A c \in C!Candle : c.bucket \in Nat
    BY Bounds DEF C!Candle
  <2> QED
    BY <2>1, <2>2
<1>6. /\ \A i \in 1 .. m : history[i].bucket < candle.bucket
      /\ \A i, j \in 1 .. m : i < j => history[i].bucket < history[j].bucket
      /\ \A i \in 1 .. m : Exact(history[i], C!Since(i))
      /\ Exact(candle, LastBucket)
  BY DEF CandleInv, Ordered, Counted, m
<1>7. \A i \in 1 .. n : i = n \/ i \in 1 .. n - 1
  BY <1>3
<1>8. \A i \in 1 .. n : history'[i].bucket <= candle.bucket
  <2>1. ASSUME NEW i \in 1 .. n - 1  PROVE history'[i].bucket <= candle.bucket
    <3>1. history'[i].bucket < candle.bucket /\ history'[i].bucket \in Nat
      BY <1>2, <1>5, <1>6
    <3> QED
      BY <1>4, <3>1
  <2> QED
    BY <1>2, <1>4, <1>7, <2>1
<1>9. ASSUME NEW i \in 1 .. n, NEW j \in 1 .. n, i < j
      PROVE  history'[i].bucket < history'[j].bucket
  <2>1. i \in 1 .. n - 1
    BY <1>3, <1>9
  <2>2. CASE j = n
    BY <1>2, <1>6, <2>1, <2>2
  <2>3. CASE j \in 1 .. n - 1
    <3>1. i + d < j + d
      BY <1>3, <1>9
    <3> QED
      BY <1>2, <1>6, <2>1, <2>3, <3>1
  <2> QED
    BY <1>7, <2>2, <2>3
<1>10. ASSUME NEW c \in C!Candle, NEW lo \in Nat, NEW hi \in Nat, hi <= lo,
              c.bucket < now, Exact(c, lo)
       PROVE  Exact(c, hi)'
  <2>1. traded'[c.bucket] = traded[c.bucket]
    BY <1>10 DEF C!Candle
  <2>2. \A b \in missed : b \in Nat
    BY DEF CandleInv, Built
  <2>3. Quiet(hi, c.bucket)' => Quiet(lo, c.bucket)
    BY <1>10, <2>2 DEF Quiet
  <2> QED
    BY <1>10, <2>1, <2>3 DEF Exact
<1>11. ASSUME NEW i \in 1 .. n  PROVE Exact(history[i], C!Since(i))'
  <2>4. PICK since : since = IF i = 1 THEN 0 ELSE history'[i - 1].bucket
    OBVIOUS
  <2>5. C!Since(i)' = since
    BY <2>4 DEF C!Since
  <2>6. PICK c : c = history'[i]
    OBVIOUS
  <2>7. Exact(c, since)' => Exact(history[i], C!Since(i))'
    BY <2>5, <2>6 DEF Exact, Quiet
  <2>1. now \in Nat
    BY Bounds DEF CandleInv, Built
  <2>2. CASE i = n
    <3>1. LastBucket \in Nat /\ since \in Nat /\ since <= LastBucket
      <4>1. CASE i = 1
        BY <1>2, <1>5, <2>4, <4>1 DEF LastBucket, m
      <4>2. CASE i # 1
        <5>1. i - 1 \in 1 .. n - 1 /\ i - 1 + d = m
          BY <1>2, <1>3, <2>2, <4>2 DEF d
        <5>2. m \in 1 .. m /\ history'[i - 1] = history[m]
          BY <1>2, <5>1
        <5>3. history # << >>
          BY <1>2, <5>2 DEF m
        <5> QED
          BY <1>5, <2>4, <4>2, <5>2, <5>3 DEF LastBucket, m
      <4> QED
        BY <4>1, <4>2
    <3>2. c = candle
      BY <1>2, <2>2, <2>6
    <3>3. Exact(c, since)'
      BY <1>1, <1>6, <1>10, <3>1, <3>2
    <3> QED
      BY <2>7, <3>3
  <2>3. CASE i \in 1 .. n - 1
    <3>1. /\ i + d \in 1 .. m /\ history'[i] = history[i + d]
          /\ Exact(history[i + d], C!Since(i + d))
      BY <1>2, <1>6, <2>3
    <3>2. C!Since(i + d) \in Nat /\ since \in Nat /\ since <= C!Since(i + d)
      <4>1. CASE i = 1
        <5>1. i + d = 1 \/ i + d - 1 \in 1 .. m
          BY <1>2, <1>3, <3>1
        <5>2. C!Since(i + d) \in Nat
          BY <1>3, <1>5, <5>1 DEF C!Since
        <5> QED
          BY <2>4, <4>1, <5>2
      <4>2. CASE i # 1
        <5>1. /\ i - 1 \in 1 .. n - 1 /\ i - 1 + d = i + d - 1 /\ i + d # 1
              /\ i + d - 1 \in 1 .. m
          BY <1>2, <1>3, <2>3, <3>1, <4>2
        <5>2. history'[i - 1] = history[i + d - 1]
          BY <1>2, <5>1
        <5>3. C!Since(i + d) = history[i + d - 1].bucket
          BY <1>3, <5>1 DEF C!Since
        <5> QED
          BY <1>5, <2>4, <4>2, <5>1, <5>2, <5>3
      <4> QED
        BY <4>1, <4>2
    <3>3. history[i + d] \in C!Candle /\ history[i + d].bucket < now
      BY <1>4, <1>5, <1>6, <2>1, <3>1
    <3>4. PICK lo : lo = C!Since(i + d)
      OBVIOUS
    <3>5. c = history[i + d]
      BY <2>6, <3>1
    <3>6. Exact(c, since)'
      BY <1>10, <3>1, <3>2, <3>3, <3>4, <3>5
    <3> QED
      BY <2>7, <3>6
  <2> QED
    BY <1>7, <2>2, <2>3
<1> QED
  BY <1>2, <1>8, <1>9, <1>11 DEF n

LEMMA LastBucketBound ==
  ASSUME CandleInv, candle # C!None
  PROVE  LastBucket \in Nat /\ LastBucket <= now
<1>1. candle.bucket <= now /\ now \in Nat /\ candle.bucket \in Nat
  BY Bounds DEF CandleInv, Built, C!Candle
<1>2. ASSUME history # << >>
      PROVE  /\ history[Len(history)].bucket \in Nat
             /\ history[Len(history)].bucket < candle.bucket
  <2>1. Len(history) \in 1 .. Len(history) /\ history[Len(history)] \in C!Candle
    BY <1>2 DEF CandleInv, Ordered
  <2>2. \A c \in C!Candle : c.bucket \in Nat
    BY Bounds DEF C!Candle
  <2> QED
    BY <2>1, <2>2 DEF CandleInv, Ordered
<1> QED
  BY <1>1, <1>2 DEF LastBucket

LEMMA AddStep ==
  ASSUME CandleInv, NEW v \in 0 .. MaxCounter, NEW k \in 0 .. MaxTrade,
         v = counter + k, counter' = v, traded' = [traded EXCEPT ![now] = @ + k],
         now' = now, missed' = missed, C!Add(v)
  PROVE  CandleInv'
<1>1. PICK c \in C!Candle, base \in 0 .. MaxCounter + 1 :
        /\ candle' \in C!Candle /\ candle'.bucket = c.bucket /\ candle'.last = v
        /\ candle'.valid => /\ c.valid /\ base # C!Unknown /\ v >= base
                            /\ candle'.volume = c.volume + (v - base)
                            /\ candle'.volume <= v
        /\ \/ /\ candle # C!None /\ candle.bucket = now
              /\ history' = history /\ c = candle /\ base = candle.last
           \/ /\ candle = C!None /\ history' = history /\ c = C!New(now)
              /\ base = C!Unknown
           \/ /\ candle # C!None /\ candle.bucket # now
              /\ history' = C!Completed(history, candle)
              /\ c = C!New(now) /\ base = candle.last
  BY AddMeasures
<1>2. /\ C!New(now).volume = 0 /\ C!New(now).bucket = now
      /\ now \in Nat /\ now \in C!Buckets /\ v \in Nat /\ k \in Nat
      /\ v # C!Unknown /\ C!None.last = C!Unknown
  BY Bounds DEF C!New, C!None, CandleInv, Built
<1>3. candle'.bucket = now /\ candle' # C!None
  BY <1>1, <1>2
<1>4. /\ traded' \in [C!Buckets -> Nat] /\ traded'[now] = traded[now] + k
      /\ \A b \in C!Buckets \ {now} : traded'[b] = traded[b]
      /\ traded[now] \in Nat
  BY <1>2 DEF CandleInv, Built
<1>5. Built'
  BY <1>1, <1>2, <1>3, <1>4 DEF CandleInv, Built
<1>6. \A b \in missed : b \in Nat /\ b <= now
  BY <1>2 DEF CandleInv, Built
\* The counter is up to date now, and no later bucket has a trade.
<1>7. ASSUME candle # C!None, candle.bucket <= now, \A b \in missed : b < candle.bucket
      PROVE  \A b \in C!Buckets : b > candle.bucket => traded[b] = 0
  BY <1>7 DEF CandleInv, Counted
\* What a valid candle has grown by since its baseline is what was traded.
<1>8. ASSUME candle # C!None, base = candle.last, \A b \in missed : b < candle.bucket,
             candle'.valid
      PROVE  v - base = k
  <2>1. counter = candle.last \/ (counter = 0 /\ candle.last > MaxTrade)
    BY <1>8 DEF CandleInv, Counted
  <2>2. v >= base /\ base \in Nat
    BY <1>1, <1>8, Bounds
  <2>3. k <= MaxTrade /\ counter \in Nat /\ MaxTrade \in Nat
    BY Bounds DEF CandleInv, Built
  <2> QED
    BY <1>2, <1>8, <2>1, <2>2, <2>3
<1>9. /\ counter' = candle'.last
      /\ \A b \in C!Buckets : b > candle'.bucket => traded'[b] = 0
  BY <1>1, <1>3, <1>5 DEF Built
<1>10. ASSUME NEW d \in C!Candle, NEW since, d.bucket < now, Exact(d, since)
       PROVE  Exact(d, since)'
  <2>1. traded'[d.bucket] = traded[d.bucket]
    BY <1>2, <1>4, <1>10 DEF C!Candle
  <2> QED
    BY <1>10, <2>1 DEF Exact, Quiet
<1>11. candle \in C!Candle /\ candle.bucket \in Nat
  BY Bounds DEF CandleInv, Built, C!Candle
<1>12. ASSUME NEW since,
              LastBucket' = since,
              candle'.valid /\ (\A b \in missed : b < since \/ b > now)
                => candle'.volume = traded'[now]
       PROVE  Exact(candle, LastBucket)'
  BY <1>3, <1>12 DEF Exact, Quiet
<1>13. CASE /\ candle # C!None /\ candle.bucket = now
            /\ history' = history /\ c = candle /\ base = candle.last
  <2>1. ASSUME NEW i \in 1 .. Len(history)
        PROVE  history[i] \in C!Candle /\ history[i].bucket < now
    BY <1>13 DEF CandleInv, Ordered
  <2>2. Ordered'
    BY <1>1, <1>13 DEF CandleInv, Ordered
  <2>3. ASSUME NEW i \in 1 .. Len(history)  PROVE Exact(history[i], C!Since(i))'
    <3>1. PICK d, since : d = history[i] /\ since = C!Since(i)
      OBVIOUS
    <3>2. Exact(d, since)'
      BY <1>10, <2>1, <3>1 DEF CandleInv, Counted
    <3> QED
      BY <1>13, <3>1, <3>2 DEF C!Since, Exact, Quiet
  <2>4. LastBucket <= now /\ LastBucket \in Nat
    BY <1>13, LastBucketBound
  <2>5. ASSUME candle'.valid, \A b \in missed : b < LastBucket \/ b > now
        PROVE  candle'.volume = traded'[now]
    <3>1. \A b \in missed : b < candle.bucket
      BY <1>2, <1>6, <1>13, <2>4, <2>5
    <3>2. v - base = k
      BY <1>8, <1>13, <2>5, <3>1
    <3>3. candle.volume = traded[now]
      BY <1>1, <1>13, <2>5 DEF CandleInv, Counted, Exact, Quiet
    <3> QED
      BY <1>1, <1>4, <1>13, <2>5, <3>2, <3>3
  <2>6. Exact(candle, LastBucket)'
    <3>1. PICK since : since = LastBucket
      OBVIOUS
    <3>2. LastBucket' = since
      BY <1>13, <3>1 DEF LastBucket
    <3> QED
      BY <1>12, <2>5, <3>1, <3>2
  <2>7. Counted'
    BY <1>9, <1>13, <2>3, <2>6 DEF Counted
  <2> QED
    BY <1>5, <2>2, <2>7 DEF CandleInv
<1>14. CASE candle = C!None /\ history' = history /\ base = C!Unknown
  <2>1. history' = << >>
    BY <1>14 DEF CandleInv, Built
  <2>2. Ordered'
    BY <2>1, Bounds DEF Ordered
  <2>3. ~candle'.valid
    BY <1>1, <1>14
  <2>4. Counted'
    BY <1>9, <2>1, <2>3 DEF Counted, Exact
  <2> QED
    BY <1>5, <2>2, <2>4 DEF CandleInv
<1>15. CASE /\ candle # C!None /\ candle.bucket # now
            /\ history' = C!Completed(history, candle)
            /\ c = C!New(now) /\ base = candle.last
  <2>1. candle.bucket < now
    BY <1>2, <1>11, <1>15 DEF CandleInv, Built
  <2>2. \A b \in C!Buckets : b < now => traded'[b] = traded[b]
    BY <1>2, <1>4
  <2>3. /\ history' \in Seq(C!Candle) /\ Len(history') \in 1 .. MaxHistory
        /\ history'[Len(history')] = candle
        /\ \A i \in 1 .. Len(history') : history'[i].bucket <= candle.bucket
        /\ \A i, j \in 1 .. Len(history') :
             i < j => history'[i].bucket < history'[j].bucket
        /\ \A i \in 1 .. Len(history') : Exact(history[i], C!Since(i))'
    BY <1>15, <2>1, <2>2, CompletedKept
  <2>4. Ordered'
    <3>1. ASSUME NEW i \in 1 .. Len(history')
          PROVE  history'[i].bucket < candle'.bucket
      <4>1. history'[i] \in C!Candle
        BY <2>3
      <4>2. history'[i].bucket \in Nat
        BY <4>1, Bounds DEF C!Candle
      <4>3. history'[i].bucket <= candle.bucket
        BY <2>3
      <4> QED
        BY <1>2, <1>3, <1>11, <2>1, <4>2, <4>3
    <3> QED
      BY <2>3, <3>1, Bounds DEF Ordered
  <2>5. PICK since : since = candle.bucket
    OBVIOUS
  <2>6. LastBucket' = since
    BY <2>3, <2>5 DEF LastBucket
  <2>7. ASSUME candle'.valid, \A b \in missed : b < since \/ b > now
        PROVE  candle'.volume = traded'[now]
    <3>1. \A b \in missed : b < candle.bucket
      BY <1>2, <1>6, <2>5, <2>7
    <3>2. v - base = k
      BY <1>8, <1>15, <2>7, <3>1
    <3>3. traded[now] = 0
      BY <1>2, <1>7, <1>11, <1>15, <2>1, <3>1
    <3> QED
      BY <1>1, <1>2, <1>4, <1>15, <2>7, <3>2, <3>3
  <2>8. Counted'
    BY <1>9, <1>12, <2>3, <2>6, <2>7 DEF Counted
  <2> QED
    BY <1>5, <2>4, <2>8 DEF CandleInv
<1> QED
  BY <1>1, <1>13, <1>14, <1>15

\* A trade without a tick: its bucket is missed, and the completed candles are
\* of earlier ones.
LEMMA MissedStep ==
  ASSUME CandleInv, NEW k \in 1 .. MaxTrade, counter + k <= MaxCounter,
         counter' = counter + k, traded' = [traded EXCEPT ![now] = @ + k],
         missed' = missed \union {now}, UNCHANGED <<now, candle, history>>
  PROVE  CandleInv'
<1>1. /\ now \in C!Buckets /\ now \in Nat /\ k \in Nat /\ counter \in Nat
      /\ traded' \in [C!Buckets -> Nat]
      /\ \A b \in C!Buckets \ {now} : traded'[b] = traded[b]
  BY Bounds DEF CandleInv, Built
<1>2. Built'
  <2>1. now \in 0 .. now
    BY <1>1
  <2> QED
    BY <1>1, <2>1, Bounds DEF CandleInv, Built
<1>3. Ordered'
  BY DEF CandleInv, Ordered
<1>4. ASSUME NEW d \in C!Candle, NEW since \in Nat, Exact(d, since),
             d.bucket < now \/ (d.bucket = now /\ since <= now)
      PROVE  Exact(d, since)'
  <2>1. CASE d.bucket < now
    <3>1. traded'[d.bucket] = traded[d.bucket]
      BY <1>1, <2>1 DEF C!Candle
    <3> QED
      BY <1>4, <3>1 DEF Exact, Quiet
  <2>2. CASE d.bucket = now /\ since <= now
    <3>1. now \in missed' /\ ~(now < since) /\ ~(now > d.bucket)
      BY <1>1, <1>4, <2>2
    <3> QED
      BY <3>1 DEF Exact, Quiet
  <2> QED
    BY <1>4, <2>1, <2>2
<1>5. candle # C!None => candle.bucket \in Nat /\ candle.bucket <= now
  BY Bounds DEF CandleInv, Built, C!Candle
<1>6. ASSUME NEW i \in 1 .. Len(history)  PROVE Exact(history[i], C!Since(i))'
  <2>1. candle # C!None
    BY <1>6 DEF CandleInv, Built
  <2>2. PICK d, since : d = history[i] /\ since = C!Since(i)
    OBVIOUS
  <2>3. d \in C!Candle /\ d.bucket < candle.bucket /\ Exact(d, since)
    BY <2>2 DEF CandleInv, Ordered, Counted
  <2>4. d.bucket \in Nat /\ since \in Nat
    <3>1. \A c \in C!Candle : c.bucket \in Nat
      BY Bounds DEF C!Candle
    <3>2. i # 1 => history[i - 1] \in C!Candle
      BY DEF CandleInv, Ordered
    <3> QED
      BY <2>2, <2>3, <3>1, <3>2 DEF C!Since
  <2>5. Exact(d, since)'
    BY <1>1, <1>4, <1>5, <2>1, <2>3, <2>4
  <2> QED
    BY <2>2, <2>5 DEF C!Since, Exact, Quiet
<1>7. ASSUME candle # C!None  PROVE Exact(candle, LastBucket)'
  <2>1. PICK d, since : d = candle /\ since = LastBucket
    OBVIOUS
  <2>2. d \in C!Candle /\ Exact(d, since)
    BY <1>7, <2>1 DEF CandleInv, Built, Counted
  <2>3. since \in Nat /\ since <= now /\ (d.bucket < now \/ d.bucket = now)
    BY <1>1, <1>5, <1>7, <2>1, LastBucketBound
  <2>4. Exact(d, since)'
    BY <1>4, <2>2, <2>3
  <2> QED
    BY <2>1, <2>4 DEF LastBucket, Exact, Quiet
\* No bucket from the candle's on is without a missed trade.
<1>8. candle # C!None => ~(\A b \in missed' : b < candle.bucket)
  BY <1>1, <1>5
<1>9. Counted'
  BY <1>6, <1>7, <1>8 DEF Counted
<1> QED
  BY <1>2, <1>3, <1>9 DEF CandleInv

LEMMA CandleStep ==
  ASSUME CandleInv, C!Next \/ UNCHANGED candles
  PROVE  CandleInv'
<1>1. CASE UNCHANGED candles
  BY <1>1 DEF candles, CandleInv, Built, Ordered, Counted, Exact, Quiet,
     C!Since,
     LastBucket
<1>2. ASSUME NEW k \in 0 .. MaxTrade, counter' = counter + k,
             counter + k <= MaxCounter, traded' = [traded EXCEPT ![now] = @ + k],
             now' = now, missed' = missed, C!Add(counter')
      PROVE  CandleInv'
  <2>1. PICK v : v = counter'
    OBVIOUS
  <2>2. v \in 0 .. MaxCounter /\ v = counter + k
    BY <1>2, <2>1, Bounds DEF CandleInv, Built
  <2>3. C!Add(v)
    BY <1>2, <2>1
  <2> QED
    BY <1>2, <2>1, <2>2, <2>3, AddStep
<1>3. ASSUME NEW n \in 1 .. MaxTrade, C!Trade(n)  PROVE CandleInv'
  <2>1. /\ counter + n <= MaxCounter /\ counter' = counter + n
        /\ traded' = [traded EXCEPT ![now] = @ + n] /\ now' = now
        /\ n \in 0 .. MaxTrade
    BY <1>3, Bounds DEF C!Trade
  <2>2. CASE alive /\ Watched \in sent
    <3>1. C!Add(counter') /\ missed' = missed
      BY <1>3, <2>2 DEF C!Trade, C!Tick, C!Add
    <3> QED
      BY <1>2, <2>1, <3>1
  <2>3. CASE ~(alive /\ Watched \in sent)
    <3>1. missed' = missed \union {now} /\ UNCHANGED <<candle, history>>
      BY <1>3, <2>3 DEF C!Trade, C!Tick
    <3> QED
      BY <2>1, <3>1, MissedStep
  <2> QED
    BY <2>2, <2>3
<1>4. CASE C!Quote
  <2>1. C!Add(counter) /\ UNCHANGED <<now, counter, traded, missed>>
    BY <1>4 DEF C!Quote, C!Tick
  <2>2. /\ counter \in 0 .. MaxCounter /\ counter + 0 = counter
        /\ traded = [traded EXCEPT ![now] = @ + 0] /\ 0 \in 0 .. MaxTrade
    BY Bounds DEF CandleInv, Built
  <2>3. C!Add(counter')
    BY <2>1
  <2> QED
    BY <1>2, <2>1, <2>2, <2>3
<1>5. CASE C!NextBucket
  <2>1. /\ now' = now + 1 /\ now' \in C!Buckets /\ now \in Nat
        /\ UNCHANGED <<counter, candle, history, traded, missed>>
    BY <1>5, Bounds DEF C!NextBucket, CandleInv, Built
  <2>2. Built'
    <3>1. candle.bucket \in Nat
      BY Bounds DEF CandleInv, Built, C!Candle
    <3>2. \A b \in C!Buckets : b > now' => b > now
      BY <2>1, Bounds
    <3>3. \A b \in missed : b \in 0 .. now'
      BY <2>1 DEF CandleInv, Built
    <3> QED
      BY <2>1, <3>1, <3>2, <3>3 DEF CandleInv, Built
  <2>3. Ordered' /\ Counted'
    BY <2>1 DEF CandleInv, Ordered, Counted, Exact, Quiet, C!Since, LastBucket
  <2> QED
    BY <2>2, <2>3 DEF CandleInv
<1>6. CASE C!Reset
  <2>1. /\ counter > MaxTrade /\ counter' = 0
        /\ UNCHANGED <<now, candle, history, traded, missed>>
    BY <1>6 DEF C!Reset
  <2>2. Built' /\ Ordered'
    BY <2>1, Bounds DEF CandleInv, Built, Ordered
  <2>3. ASSUME candle # C!None, \A b \in missed : b < candle.bucket
        PROVE  /\ candle.last > MaxTrade
               /\ \A b \in C!Buckets : b > candle.bucket => traded[b] = 0
    BY <2>1, <2>3, Bounds DEF CandleInv, Counted
  <2>4. Counted'
    BY <2>1, <2>3 DEF CandleInv, Counted, Exact, Quiet, C!Since, LastBucket
  <2> QED
    BY <2>2, <2>4 DEF CandleInv
<1> QED
  BY <1>1, <1>3, <1>4, <1>5, <1>6 DEF C!Next

LEMMA CandleInvariant == MarketSpec => []CandleInv
<1>1. MarketInit => CandleInv
  <2> SUFFICES ASSUME MarketInit PROVE CandleInv
    OBVIOUS
  <2>1. /\ now = 0 /\ counter \in 0 .. 1 /\ missed = {} /\ candle = C!None
        /\ history = << >> /\ traded = [b \in C!Buckets |-> 0]
    BY DEF MarketInit, C!Init
  <2>2. C!None \in C!Candle /\ C!None.valid = FALSE
    BY Bounds DEF C!None, C!Candle
  <2>3. Built
    BY <2>1, <2>2, Bounds DEF Built
  <2>4. Ordered /\ Counted
    BY <2>1, Bounds DEF Ordered, Counted
  <2> QED
    BY <2>3, <2>4 DEF CandleInv
<1>2. CandleInv /\ [MarketNext]_<<vars, candles>> => CandleInv'
  BY CandleStep DEF MarketNext, candles
<1> QED
  BY <1>1, <1>2, PTL DEF MarketSpec

\* Every variable of the candles keeps its type, and the candles are in order.
THEOREM CandlesTypeCorrect == MarketSpec => []C!TypeOK
<1>1. CandleInv => C!TypeOK
  <2> SUFFICES ASSUME CandleInv PROVE C!TypeOK
    OBVIOUS
  <2>1. missed \subseteq C!Buckets
    BY Bounds DEF CandleInv, Built
  <2>2. ASSUME NEW i \in 1 .. Len(history)
        PROVE  Append(history, candle)[i].bucket < Append(history, candle)[i + 1].bucket
    <3>1. Append(history, candle)[i] = history[i]
      BY DEF CandleInv, Ordered, Built
    <3>2. CASE i = Len(history)
      BY <3>1, <3>2 DEF CandleInv, Ordered, Built
    <3>3. CASE i # Len(history)
      <4>1. i + 1 \in 1 .. Len(history) /\ i < i + 1
        BY <3>3 DEF CandleInv, Ordered
      <4>2. Append(history, candle)[i + 1] = history[i + 1]
        BY <4>1 DEF CandleInv, Ordered, Built
      <4> QED
        BY <3>1, <4>1, <4>2 DEF CandleInv, Ordered
    <3> QED
      BY <3>2, <3>3
  <2> QED
    BY <2>1, <2>2 DEF CandleInv, Built, Ordered, C!TypeOK
<1> QED
  BY <1>1, CandleInvariant, PTL

\* A completed candle that is marked valid has the volume that was traded in
\* its five minutes, if no trade was missed in it or since the candle before.
THEOREM ValidVolumesAreExact == MarketSpec => []ValidVolumeIsExact
<1>1. CandleInv => ValidVolumeIsExact
  BY DEF CandleInv, Counted, Exact, Quiet, ValidVolumeIsExact,
     C!ValidVolumeIsExact
<1> QED
  BY <1>1, CandleInvariant, PTL

=============================================================================
