--------------------------- MODULE MCCreditUsage ---------------------------
(***************************************************************************)
(* CreditUsage for TLC, twice: calls that are late, lost or repeated, and  *)
(* the limits of four kinds of flow over two days.  A behaviour takes one  *)
(* of the two parts; the variables of the other keep their first values.   *)
(***************************************************************************)
EXTENDS CreditUsage, TLC

CONSTANTS alice, k1, k2, none

(* Flow policies in the proportions of core/credit_policy.py, scaled down.    *)
Plan(credits, energyUse, free) ==
  [credits |-> credits, energy |-> energyUse, energyAllowed |-> TRUE, bonusAllowed |-> TRUE,
   freeLimit |-> free, hardLimit |-> 0, introFree |-> 0, dm |-> FALSE, deferred |-> FALSE, cost |-> 1]
BasicDm == [Plan(1, 60, 2) EXCEPT !.dm = TRUE]
FeedPost == [Plan(2, 80, 1) EXCEPT !.deferred = TRUE]
ProDm == [Plan(2, 0, 2) EXCEPT !.energyAllowed = FALSE, !.bonusAllowed = FALSE, !.hardLimit = 1, !.dm = TRUE]
Analysis ==
  [Plan(2, 0, 2) EXCEPT !.energyAllowed = FALSE, !.bonusAllowed = FALSE, !.hardLimit = 2, !.introFree = 1]
Assist == [Plan(0, 0, 1) EXCEPT !.hardLimit = 2, !.deferred = TRUE]

Policies == [direct_dm_basic |-> BasicDm, feed_post |-> FeedPost, direct_dm_pro |-> ProDm,
             character_analysis |-> Analysis, assist_social |-> Assist]

(* The part about credits leaves cost out; the budget of the other pays for one costly call. *)
SafetyFlows == {"direct_dm_basic", "feed_post"}
SafetyPolicy == [f \in SafetyFlows |-> [Policies[f] EXCEPT !.cost = 0]]
LimitFlows == {"feed_post", "direct_dm_pro", "character_analysis", "assist_social"}
LimitPolicy == [f \in LimitFlows |-> [Policies[f] EXCEPT !.cost = IF f = "direct_dm_pro" THEN 2 ELSE @]]
OneEach == [signup |-> 1, first_character |-> 1, first_dm |-> 1]

VARIABLES
  part,
  lNow, lPc, lCall, lReply, lPeriod, lUsage, lPurchased, lBonus, lLedger, lEnergy, lRecoveredAt,
  lGranted, lDailyCalls, lEstimated, lActual

Limits == INSTANCE CreditUsage WITH
  Flows <- LimitFlows, Policy <- LimitPolicy, OpeningPurchased <- 2, OpeningEnergy <- 80,
  EnergyInterval <- 9, DailyCalls <- 9, PaidDailyCalls <- 9, MonthlyBudget <- 3, Punctual <- TRUE,
  now <- lNow, pc <- lPc, call <- lCall, reply <- lReply, period <- lPeriod, usage <- lUsage,
  purchased <- lPurchased, bonus <- lBonus, ledger <- lLedger, energy <- lEnergy,
  recoveredAt <- lRecoveredAt, granted <- lGranted, dailyCalls <- lDailyCalls,
  estimated <- lEstimated, actual <- lActual

limitVars == <<lNow, lPc, lCall, lReply, lPeriod, lUsage, lPurchased, lBonus, lLedger, lEnergy,
               lRecoveredAt, lGranted, lDailyCalls, lEstimated, lActual>>
mcVars == <<part, vars, limitVars>>

(* The names of requests and keys do not matter: they are taken in order. *)
TakenInOrder(calls) ==
  /\ \A r \in Requests \ {1} : calls[r] # none => calls[r - 1] # none
  /\ calls[1] # none => calls[1].key = k1

MCInit == part \in {"credits", "limits"} /\ Init /\ Limits!Init
MCNext ==
  \/ part = "credits" /\ Next /\ TakenInOrder(call') /\ UNCHANGED <<part, limitVars>>
  \/ part = "limits" /\ Limits!Next /\ TakenInOrder(lCall') /\ UNCHANGED <<part, vars>>
MCFairness ==
  /\ \A r \in Requests : WF_mcVars(part = "credits" /\ Advance(r) /\ UNCHANGED <<part, limitVars>>)
  /\ WF_mcVars(part = "credits" /\ Tick /\ UNCHANGED <<part, limitVars>>)
  /\ \A u \in Users : WF_mcVars(part = "credits" /\ Snapshot(u) /\ UNCHANGED <<part, limitVars>>)
MCSpec == MCInit /\ [][MCNext]_mcVars /\ MCFairness

(* Every reservation of the first part is decided, and the limits of the second hold in every *)
(* state: hard limit, free limit, the waived first use, the month's budget, and the answer    *)
(* agrees with the charge.                                                                    *)
ResolvedWithinLimits ==
  ReservationsResolve /\ [][part = "limits" => Limits!LimitsKept']_mcVars
=============================================================================
