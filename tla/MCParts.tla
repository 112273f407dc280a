-------------------------------- MODULE MCParts --------------------------------
(***************************************************************************)
(* Three small parts that share no state, explored one at a time: the      *)
(* strength of a trade, the alert of a candidate, and the daily bars.      *)
(***************************************************************************)
EXTENDS Naturals, Sequences

CONSTANTS
  Looks,                                          \* of TradeStrength
  Retry, MaxLag,                                  \* of CandidateAlerts
  Names, Unfillable, DayCap, CloseCap, Batches    \* of DailyBars

VARIABLES
  part,                                           \* the one that is explored
  trade, payload, pc, read, looked, scanned, clobbered,   \* of TradeStrength
  listing, row, scan, lag, ok, acked, since,      \* of CandidateAlerts
  phase, bars, newest, forming, todo, rows, room, jobs, last  \* of DailyBars

Strength == INSTANCE TradeStrength

ASSUME PartsAssumption ==
  Looks \subseteq Strength!AllLooks /\ Retry \in Nat \ {0} /\ MaxLag \in Nat

Alert == INSTANCE CandidateAlerts WITH pc <- scan
Daily == INSTANCE DailyBars

strengthVars == <<trade, payload, pc, read, looked, scanned, clobbered>>
alertVars == <<listing, row, scan, lag, ok, acked, since>>
dailyVars ==
  <<phase, bars, newest, forming, todo, rows, room, jobs, last>>
partsVars == <<part, strengthVars, alertVars, dailyVars>>

PartsInit ==
  /\ part \in {"strength", "alert", "daily"}
  /\ Strength!Init /\ Alert!Init /\ Daily!Init
  /\ part # "daily" => \A n \in Daily!Fillable : bars[n] = "deep"

InStrength(A) == part = "strength" /\ A /\ UNCHANGED <<part, alertVars, dailyVars>>
InAlert(A) == part = "alert" /\ A /\ UNCHANGED <<part, strengthVars, dailyVars>>
InDaily(A) == part = "daily" /\ A /\ UNCHANGED <<part, strengthVars, alertVars>>

PartsNext == InStrength(Strength!Next) \/ InAlert(Alert!Next) \/ InDaily(Daily!Next)

\* The fairness of each part.
PartsFairness ==
  /\ \A j \in Strength!Jobs : /\ WF_partsVars(InStrength(Strength!Select(j)))
                             /\ SF_partsVars(InStrength(Strength!Write(j)))
  /\ WF_partsVars(InAlert(Alert!Rescan))
  /\ WF_partsVars(InAlert(Alert!NotAccepted))
  /\ WF_partsVars(InAlert(Alert!Complete))
  /\ WF_partsVars(InAlert(Alert!Tick))
  /\ SF_partsVars(InAlert(Alert!Reserve))
  /\ SF_partsVars(InAlert(Alert!Accepted))
  /\ WF_partsVars(InDaily(Daily!Daytime))
  /\ WF_partsVars(InDaily(Daily!PostClose))
  /\ WF_partsVars(InDaily(Daily!Bhavcopy))
  /\ WF_partsVars(InDaily(Daily!Answered))
  /\ WF_partsVars(InDaily(Daily!Store))
  /\ WF_partsVars(InDaily(Daily!Clock))

PartsSpec == PartsInit /\ [][PartsNext]_partsVars /\ PartsFairness

-----------------------------------------------------------------------------
(***************************************************************************)
(* The properties of each part.                                            *)
(***************************************************************************)

\* Unless a write rested on a payload that the other job had changed, a live
\* trade shows EXIT SIGNAL after two weak looks in a row (update_open_events;
\* TradeStrength).
ExitSignalIsEarned == Strength!ExitSignalIsEarned

\* A trade whose looks stay weak shows EXIT SIGNAL or is closed
\* (update_open_events; TradeStrength).
StaysWeakSignalled == part = "strength" => Strength!WeaknessIsSignalled

\* An alert that the endpoint is known to have accepted is not accepted again
\* (reserve_alert, complete_alert; CandidateAlerts).
AcceptedOnce == Alert!AcceptedOnce

\* Two posts of an alert are five minutes apart, less the time that one scan
\* takes (reserve_alert; CandidateAlerts).
RetrySpacing == [][Alert!SpacedRetry]_alertVars

\* An alert is delivered, or stranded by a failure between its reservation and
\* its completion, or its candidate is no longer published under its key
\* (_refresh_signals; CandidateAlerts).
EventuallyDelivered == part = "alert" => Alert!EventuallyDelivered

\* Once the broker answers, every name that can be filled has its depth and the
\* session's expected date by the evening (run_backfill; DailyBars).
NamesAreFilled == part = "daily" => Daily!NamesAreFilled

\* While the exchange refuses its files, a bar of a running session is gone two
\* sessions later (backfill_symbol_history; DailyBars).
FormingBarsAreReplaced == part = "daily" => Daily!FormingBarsAreReplaced

=============================================================================
