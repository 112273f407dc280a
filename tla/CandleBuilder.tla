----------------------------- MODULE CandleBuilder -----------------------------
(***************************************************************************)
(* LocalFiveMinuteBuilder for one instrument: the volume of a five-minute  *)
(* candle is the growth of the exchange's cumulative counter, and is       *)
(* marked invalid when the counter cannot tell it.  Every trade makes a    *)
(* tick while the stream is online, and ticks arrive in order of time.     *)
(* Prices are left out.                                                    *)
(***************************************************************************)
EXTENDS Naturals, Sequences

CONSTANTS
  MaxBucket,   \* bound of the five-minute buckets of the run
  MaxTrade,    \* shares in one trade
  MaxCounter,  \* bound of the cumulative counter
  MaxTraded,   \* bound of the shares traded in one bucket
  MaxHistory   \* maxlen of the history, 78

Buckets == 0 .. MaxBucket

VARIABLES
  now,      \* the bucket of the exchange's clock
  counter,  \* the volume so far, as the exchange reports it
  online,   \* TRUE while ticks arrive
  candle,   \* _candles: the candle that is being built, or None
  history,  \* _history: the completed candles
  traded,   \* history: the shares traded in each bucket
  missed    \* history: the buckets with a trade that made no tick

vars == <<now, counter, online, candle, history, traded, missed>>

Unknown == MaxCounter + 1
Candle  == [bucket : Buckets, volume : 0 .. MaxCounter,
            last : 0 .. MaxCounter + 1, valid : BOOLEAN]
None    == [bucket |-> 0, volume |-> 0, last |-> Unknown, valid |-> FALSE]

Init ==
  /\ now = 0 /\ counter \in 0 .. 1 /\ missed = {}
  /\ candle = None /\ history = << >>
  /\ traded = [b \in Buckets |-> 0]

LastOf(s, n) == IF Len(s) <= n THEN s ELSE SubSeq(s, Len(s) - n + 1, Len(s))

New(bucket) ==
  [bucket |-> bucket, volume |-> 0, last |-> Unknown, valid |-> TRUE]

\* Mutant: a candle without a baseline starts at nothing.
MeasuredFromJoin(c, prior, volume) ==
  LET base == IF c.last # Unknown THEN c.last ELSE prior IN
  [c EXCEPT
     !.last = volume,
     !.valid = @ /\ (base = Unknown \/ volume >= base),
     !.volume = IF base # Unknown /\ c.valid /\ volume >= base
                  THEN @ + (volume - base) ELSE @]

\* The baseline is the candle's own last counter, or the previous candle's.
Measured(c, prior, volume) ==
  LET base  == IF c.last # Unknown THEN c.last ELSE prior
      known == base # Unknown /\ volume >= base
  IN  [c EXCEPT
         !.last = volume,
         !.valid = @ /\ known,
         !.volume = IF known /\ c.valid THEN @ + (volume - base) ELSE @]

Completed(h, c) == LastOf(Append(h, c), MaxHistory)

\* A tick with the given counter: the candle of another bucket is complete.
Add(volume) ==
  LET next  == candle = None \/ candle.bucket # now
      h     == IF next /\ candle # None THEN Completed(history, candle)
               ELSE history
      prior == IF h = << >> THEN Unknown ELSE h[Len(h)].last
  IN  /\ candle' = Measured(IF next THEN New(now) ELSE candle, prior, volume)
      /\ history' = h

Tick(volume) ==
  IF online THEN Add(volume) ELSE UNCHANGED <<candle, history>>

\* A trade.
Trade(n) ==
  /\ counter + n <= MaxCounter /\ traded[now] + n <= MaxTraded
  /\ counter' = counter + n
  /\ traded' = [traded EXCEPT ![now] = @ + n]
  /\ missed' = IF online THEN missed ELSE missed \union {now}
  /\ Tick(counter')
  /\ UNCHANGED now

\* A quote without a trade.
Quote ==
  /\ online /\ Tick(counter)
  /\ UNCHANGED <<now, counter, traded, missed>>

NextBucket ==
  /\ now < MaxBucket /\ now' = now + 1
  /\ UNCHANGED <<counter, candle, history, traded, missed>>

\* A counter that has passed the size of a trade: a smaller one would hide
\* its reset behind the next trade.
Reset ==
  /\ counter > MaxTrade /\ counter' = 0
  /\ UNCHANGED <<now, candle, history, traded, missed>>

Next == (\E n \in 1 .. MaxTrade : Trade(n)) \/ Quote \/ NextBucket \/ Reset

-----------------------------------------------------------------------------
(***************************************************************************)
(* Properties.                                                             *)
(***************************************************************************)

\* Every variable keeps its type, and the candles are in order of time.
TypeOK ==
  /\ now \in Buckets /\ counter \in 0 .. MaxCounter
  /\ missed \subseteq Buckets
  /\ candle \in Candle /\ history \in Seq(Candle)
  /\ Len(history) <= MaxHistory
  /\ LET all == Append(history, candle) IN
       history # << >> =>
         \A i \in 1 .. Len(history) : all[i].bucket < all[i + 1].bucket

\* The first bucket whose trades the candle's volume may hold.
Since(i) == IF i = 1 THEN 0 ELSE history[i - 1].bucket

\* angel_one_stream.py:137: the builder is there to "conservatively validate
\* cumulative volume": a completed candle that is marked valid has the
\* volume that was traded in its five minutes, whenever the stream joined and
\* however often the counter starts again.  The exception is a candle after a
\* gap of the stream, which is not marked: a trade was missed in it or since
\* the candle before it.
ValidVolumeIsExact ==
  \A i \in 1 .. Len(history) :
    LET c == history[i] IN
      c.valid /\ (\A b \in missed : b < Since(i) \/ b > c.bucket)
        => c.volume = traded[c.bucket]

=============================================================================
