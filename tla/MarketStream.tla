------------------------------ MODULE MarketStream ------------------------------
(***************************************************************************)
(* The market stream: the threads of the client and the candles of one of  *)
(* its tokens, which are built from the ticks that its subscriptions give. *)
(***************************************************************************)
EXTENDS StreamClient, Sequences

CONSTANTS
  Watched,  \* the token whose candles are built
  MaxBucket, MaxTrade, MaxCounter, MaxTraded, MaxHistory  \* of CandleBuilder

ASSUME MarketAssumption ==
  /\ Watched \in Tokens
  /\ MaxBucket \in Nat /\ MaxTrade \in Nat \ {0} /\ MaxCounter \in Nat \ {0}
  /\ MaxTraded \in Nat /\ MaxHistory \in Nat \ {0}

VARIABLES now, counter, candle, history, traded, missed

candles == <<now, counter, candle, history, traded, missed>>

\* The ticks of a token come once it was sent on the connection.
C == INSTANCE CandleBuilder WITH online <- alive /\ Watched \in sent

MarketInit == Init /\ C!Init

MarketNext ==
  \/ Next /\ UNCHANGED candles
  \/ C!Next /\ UNCHANGED vars

MarketSpec == MarketInit /\ [][MarketNext]_<<vars, candles>>

-----------------------------------------------------------------------------

\* What CandleBuilder says of the volumes, with the gaps that the client makes.
ValidVolumeIsExact == C!ValidVolumeIsExact

=============================================================================
