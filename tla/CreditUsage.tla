---------------------------- MODULE CreditUsage ----------------------------
(***************************************************************************)
(* Metered AI calls: credits and energy are reserved before the provider   *)
(* is called, then committed or refunded.  One usage row per idempotency   *)
(* key lives in the state machine reserved -> committed | refunded.        *)
(*                                                                         *)
(* One action is one database transaction of                               *)
(* repositories/credits.py or repositories/ai_usage.py; between two of     *)
(* them any other request, or a crash, may come.  Every transaction that   *)
(* changes a balance locks the user's credit_accounts row first, which is  *)
(* why it is one step here.                                                *)
(***************************************************************************)
EXTENDS Integers, FiniteSets, Sums

CONSTANTS
  Users, Keys, Flows,
  NumRequests,      \* bound: how many calls of generate() are made
  NoCall,           \* the call of a request that has not been made
  Policy,           \* core/credit_policy.py FLOW_POLICIES, a record for each flow
  RewardCredits,    \* core/credit_policy.py REWARD_MISSIONS, credits of each reward
  OpeningPurchased, \* credits bought before the model starts
  OpeningEnergy,    \* energy left when the model starts
  ReservationTTL, EnergyInterval, DayLength, MonthDays, \* in ticks, days for months
  MaxTime,          \* bound: the last tick
  DailyCalls, PaidDailyCalls, MonthlyBudget,
  Punctual          \* TRUE: a request in progress never outlives its reservation

ENERGY_MAX_PERCENT == 100
ENERGY_RECOVERY_PERCENT == 25

Rewards == {"signup", "first_character", "first_dm"}
Requests == 1..NumRequests
Calls == [user : Users, key : Keys, flow : Flows]
Days == {t \div DayLength : t \in 0..MaxTime}
Months == {d \div MonthDays : d \in Days}
FlowPolicy == [credits : Nat, energy : Nat, energyAllowed : BOOLEAN, bonusAllowed : BOOLEAN,
               freeLimit : Nat, hardLimit : Nat, introFree : Nat,
               dm : BOOLEAN, deferred : BOOLEAN, cost : Nat]

ASSUME CountsAssumption ==
  /\ NumRequests \in Nat \ {0}
  /\ NoCall \notin Calls
  /\ {ReservationTTL, EnergyInterval, DayLength, MonthDays} \subseteq Nat \ {0}
  /\ {MaxTime, DailyCalls, PaidDailyCalls, MonthlyBudget} \subseteq Nat
  /\ Punctual \in BOOLEAN
ASSUME PolicyAssumption ==
  /\ Policy \in [Flows -> FlowPolicy]
  /\ \A f \in Flows :
       /\ Policy[f].energy \in 0..ENERGY_MAX_PERCENT
       /\ Policy[f].energyAllowed /\ Policy[f].credits > 0 => Policy[f].energy > 0
ASSUME LimitsAssumption ==
  \A f \in Flows :
    /\ Policy[f].credits = 0 => Policy[f].energy = 0
    /\ Policy[f].introFree > 0 => Policy[f].credits > 0 /\ ~ Policy[f].energyAllowed
ASSUME BalancesAssumption ==
  /\ RewardCredits \in [Rewards -> Nat]
  /\ OpeningPurchased \in Nat
  /\ OpeningEnergy \in 0..ENERGY_MAX_PERCENT

VARIABLES
  now,         \* the clock
  pc, call, reply, period,         \* each request: its next step, arguments, answer, cost month
  usage,       \* credit_usages: the row request r inserted, its owner, key and flow are call[r]'s
  purchased, bonus, ledger,        \* credit_accounts, and the totals of credit_ledger_entries
  energy, recoveredAt,             \* energy_accounts
  granted,                         \* reward_grants
  dailyCalls,                      \* ai_daily_usage.call_count
  estimated, actual                \* ai_monthly_usage costs

requestVars == <<pc, call, reply, period>>
accountVars == <<purchased, bonus, ledger, energy, recoveredAt, granted>>
costVars == <<dailyCalls, estimated, actual>>
vars == <<now, requestVars, usage, accountVars, costVars>>

Steps == {"new", "cost", "start", "provider", "commit", "refund", "done"}
Replies == {"none", "replay", "in_progress", "processed", "hard_limited", "free_limited",
            "insufficient", "blocked", "ok", "failed", "cancelled", "lost"}
Row == [status : {"none", "reserved", "committed", "refunded"},
        provider : {"", "credit_reserved", "cost_reserved", "provider_started", "final"},
        credits : Nat, energy : Nat, bonus : Nat, purchased : Nat, cost : Nat, created : Nat]
NoRow == [status |-> "none", provider |-> "", credits |-> 0, energy |-> 0, bonus |-> 0,
          purchased |-> 0, cost |-> 0, created |-> 0]

TypeOK ==
  /\ now \in 0..MaxTime
  /\ pc \in [Requests -> Steps]
  /\ call \in [Requests -> Calls \cup {NoCall}]
  /\ reply \in [Requests -> Replies]
  /\ period \in [Requests -> Months]
  /\ usage \in [Requests -> Row]
  /\ purchased \in [Users -> Nat]
  /\ bonus \in [Users -> Nat]
  /\ ledger \in [Users -> [bonus : Int, purchased : Int]]
  /\ energy \in [Users -> 0..ENERGY_MAX_PERCENT]
  /\ recoveredAt \in [Users -> 0..MaxTime]
  /\ granted \in [Users -> SUBSET Rewards]
  /\ dailyCalls \in [Users -> [Days -> Nat]]
  /\ estimated \in [Months -> Nat]
  /\ actual \in [Months -> Nat]

Init ==
  /\ now = 0
  /\ pc = [r \in Requests |-> "new"]
  /\ call = [r \in Requests |-> NoCall]
  /\ reply = [r \in Requests |-> "none"]
  /\ period = [r \in Requests |-> 0]
  /\ usage = [r \in Requests |-> NoRow]
  /\ purchased = [u \in Users |-> OpeningPurchased]
  /\ bonus = [u \in Users |-> 0]
  /\ ledger = [u \in Users |-> [bonus |-> 0, purchased |-> OpeningPurchased]]
  /\ energy = [u \in Users |-> OpeningEnergy]
  /\ recoveredAt = [u \in Users |-> 0]
  /\ granted = [u \in Users |-> {}]
  /\ dailyCalls = [u \in Users |-> [d \in Days |-> 0]]
  /\ estimated = [m \in Months |-> 0]
  /\ actual = [m \in Months |-> 0]

-----------------------------------------------------------------------------
Floor0(n) == IF n < 0 THEN 0 ELSE n
Least2(m, n) == IF m < n THEN m ELSE n
DayOf(t) == t \div DayLength
MonthOf(t) == DayOf(t) \div MonthDays

(* A column of the usage rows in S, added up. *)
SumOver(S, column) == Total([r \in Requests |-> IF r \in S THEN column[r] ELSE 0], NumRequests)

RowsOf(u) == {r \in Requests : usage[r].status # "none" /\ call[r].user = u}
FlowRows(u, f) == {r \in RowsOf(u) : call[r].flow = f}
TodayRows(u, f) == {r \in FlowRows(u, f) : usage[r].created >= DayOf(now) * DayLength}
Live(S) == {r \in S : usage[r].status \in {"reserved", "committed"}}

(* recover_energy: full accounts restart their clock, others gain a step per interval. *)
Intervals(u) == (now - recoveredAt[u]) \div EnergyInterval
IntervalsToFull(u) ==
  (ENERGY_MAX_PERCENT - energy[u] + ENERGY_RECOVERY_PERCENT - 1) \div ENERGY_RECOVERY_PERCENT
Full(u) == energy[u] >= ENERGY_MAX_PERCENT \/ Intervals(u) >= IntervalsToFull(u)
RecoveredEnergy(u) ==
  IF Full(u) THEN ENERGY_MAX_PERCENT
  ELSE Least2(ENERGY_MAX_PERCENT, energy[u] + Intervals(u) * ENERGY_RECOVERY_PERCENT)
RecoveredAtKept(u) == IF Full(u) THEN now ELSE recoveredAt[u]  \* mutant: the clock never moves on
RecoveredAt(u) == IF Full(u) THEN now ELSE recoveredAt[u] + EnergyInterval * Intervals(u)

(* What reconcile_stale refunds: rows still reserved when their time is over. *)
StaleEvenDecided(u) ==  \* mutant: the status is not looked at
  {r \in RowsOf(u) : usage[r].created < now - ReservationTTL}
StaleUnstarted(u) ==    \* mutant: only calls that reserved no cost expire
  {r \in RowsOf(u) : usage[r].provider = "credit_reserved" /\ usage[r].created < now - ReservationTTL}
Stale(u) == {r \in RowsOf(u) : usage[r].status = "reserved" /\ usage[r].created < now - ReservationTTL}
StaleBonus(u) == SumOver(Stale(u), [r \in Requests |-> usage[r].bonus])
StalePurchased(u) == SumOver(Stale(u), [r \in Requests |-> usage[r].purchased])
StaleEnergy(u) == SumOver(Stale(u), [r \in Requests |-> usage[r].energy])
StaleCostOfAll(u, m) ==  \* mutant: calls the provider has seen release their cost too
  SumOver({r \in Stale(u) : MonthOf(usage[r].created) = m}, [r \in Requests |-> usage[r].cost])
StaleCost(u, m) ==
  SumOver({r \in Stale(u) : usage[r].provider = "cost_reserved" /\ MonthOf(usage[r].created) = m},
          [r \in Requests |-> usage[r].cost])
ExpiredDeleted(row) == NoRow  \* mutant: expiry deletes the row
Decided(row, status) == [row EXCEPT !.status = status, !.provider = "final"]
Expired(row) == Decided(row, "refunded")

(* The account as snapshot and reserve first see it: locked, energy recovered,  *)
(* stale reservations refunded and, unless the call stops there, the signup     *)
(* reward granted.                                                              *)
SignupBonus(u) == IF "signup" \in granted[u] THEN 0 ELSE RewardCredits["signup"]
SettledEnergy(u) == Least2(ENERGY_MAX_PERCENT, RecoveredEnergy(u) + StaleEnergy(u))
SettledPurchased(u) == purchased[u] + StalePurchased(u)
SettledBonus(u) == bonus[u] + StaleBonus(u) + SignupBonus(u)
SettledRows(u) == [r \in Requests |-> IF r \in Stale(u) THEN Expired(usage[r]) ELSE usage[r]]
SettledCosts(u) == [m \in Months |-> Floor0(estimated[m] - StaleCost(u, m))]
LedgerPlus(u, b, p) == [ledger EXCEPT ![u] = [bonus |-> @.bonus + b, purchased |-> @.purchased + p]]

-----------------------------------------------------------------------------
(* CreditRepository.reserve, for a call by u with key k and flow f.           *)
Existing(u, k) == {q \in RowsOf(u) : call[q].key = k}
IntroFreeUncommitted(u, f) ==  \* mutant: reserved calls are not counted
  Cardinality({r \in FlowRows(u, f) : usage[r].status = "committed"}) < Policy[f].introFree
IntroFree(u, f) == Cardinality(Live(FlowRows(u, f)) \ Stale(u)) < Policy[f].introFree
HardLimitedLive(u, f) ==  \* mutant: refunded calls are not counted
  Policy[f].hardLimit > 0 /\ Cardinality(Live(TodayRows(u, f)) \ Stale(u)) >= Policy[f].hardLimit
HardLimited(u, f) ==
  Policy[f].hardLimit > 0 /\ Cardinality(TodayRows(u, f)) >= Policy[f].hardLimit
FreeRowsEnergy(u, f) ==  \* mutant: calls paid with bonus credits are not counted
  {r \in Live(TodayRows(u, f)) \ Stale(u) : usage[r].energy > 0}
FreeRows(u, f) ==
  {r \in Live(TodayRows(u, f)) \ Stale(u) :
     (Policy[f].credits = 0 /\ Policy[f].energy = 0) \/ usage[r].energy > 0 \/ usage[r].bonus > 0}
FreeLimited(u, f) ==
  /\ Policy[f].energyAllowed \/ Policy[f].bonusAllowed
  /\ Policy[f].freeLimit = 0 \/ Cardinality(FreeRows(u, f)) >= Policy[f].freeLimit
PurchasedOnlyUnchecked(u, f) ==  \* mutant: the purchased balance is not looked at
  FreeLimited(u, f) /\ Policy[f].credits > 0
PurchasedOnly(u, f) ==
  FreeLimited(u, f) /\ Policy[f].credits > 0 /\ SettledPurchased(u) >= Policy[f].credits
EnergySuffices(u, f) == Policy[f].energyAllowed /\ SettledEnergy(u) >= Policy[f].energy
CanUse(u, f) ==
  \/ Policy[f].credits = 0
  \/ EnergySuffices(u, f)
  \/ SettledPurchased(u) + (IF Policy[f].bonusAllowed THEN SettledBonus(u) ELSE 0) >= Policy[f].credits

EnergyCharge(u, f) ==
  IF ~ PurchasedOnly(u, f) /\ EnergySuffices(u, f) THEN Policy[f].energy ELSE 0
CreditCharge(u, f) ==
  IF IntroFree(u, f) \/ EnergyCharge(u, f) > 0 THEN 0 ELSE Policy[f].credits
BonusCharge(u, f) ==
  IF Policy[f].bonusAllowed /\ ~ PurchasedOnly(u, f)
    THEN Least2(SettledBonus(u), CreditCharge(u, f)) ELSE 0
PurchasedCharge(u, f) == CreditCharge(u, f) - BonusCharge(u, f)

DuplicateReplyEarly(u, q, f) ==  \* mutant: a call in progress is replayed
  IF call[q].flow = f /\ usage[q].status # "refunded" THEN "replay" ELSE "processed"
DuplicateReply(u, q, f) ==
  CASE call[q].flow = f /\ usage[q].status = "committed" -> "replay"
    [] call[q].flow = f /\ usage[q].status = "reserved" /\ q \notin Stale(u) -> "in_progress"
    [] OTHER -> "processed"

(* Requests are numbered in the order in which they reach the account lock.   *)
Arrives(r, u, k, f) ==
  /\ pc[r] = "new"
  /\ \A q \in 1..(r - 1) : pc[q] # "new"
  /\ call' = [call EXCEPT ![r] = [user |-> u, key |-> k, flow |-> f]]

Answer(r, answer, step) ==
  /\ reply' = [reply EXCEPT ![r] = answer]
  /\ pc' = [pc EXCEPT ![r] = step]

(* Recovery and the stale refunds, which every outcome of reserve and snapshot saves. *)
SettleEnergy(u, charge) ==
  /\ energy' = [energy EXCEPT ![u] = SettledEnergy(u) - charge]
  /\ recoveredAt' = [recoveredAt EXCEPT ![u] = RecoveredAt(u)]
  /\ estimated' = SettledCosts(u)

Settle(u) ==
  /\ SettleEnergy(u, 0)
  /\ usage' = SettledRows(u)
  /\ purchased' = [purchased EXCEPT ![u] = SettledPurchased(u)]

SettleUnlogged(u) ==  \* mutant: expiry writes no ledger entry
  /\ Settle(u)
  /\ bonus' = [bonus EXCEPT ![u] = SettledBonus(u)]
  /\ ledger' = LedgerPlus(u, SignupBonus(u), 0)
  /\ granted' = [granted EXCEPT ![u] = @ \cup {"signup"}]
SettleSigned(u) ==
  /\ Settle(u)
  /\ bonus' = [bonus EXCEPT ![u] = SettledBonus(u)]
  /\ ledger' = LedgerPlus(u, StaleBonus(u) + SignupBonus(u), StalePurchased(u))
  /\ granted' = [granted EXCEPT ![u] = @ \cup {"signup"}]

ReserveDuplicate(r, u, k, f) ==
  /\ Arrives(r, u, k, f)
  /\ \E q \in Existing(u, k) : Answer(r, DuplicateReply(u, q, f), "done")
  /\ Settle(u)
  /\ bonus' = [bonus EXCEPT ![u] = @ + StaleBonus(u)]
  /\ ledger' = LedgerPlus(u, StaleBonus(u), StalePurchased(u))
  /\ UNCHANGED <<now, period, granted, dailyCalls, actual>>

ReserveRefused(r, u, k, f) ==
  /\ Arrives(r, u, k, f)
  /\ Existing(u, k) = {}
  /\ \/ HardLimited(u, f) /\ Answer(r, "hard_limited", "done")
     \/ /\ ~ HardLimited(u, f)
        /\ FreeLimited(u, f) /\ ~ PurchasedOnly(u, f) /\ ~ IntroFree(u, f)
        /\ Answer(r, "free_limited", "done")
     \/ /\ ~ HardLimited(u, f)
        /\ FreeLimited(u, f) => PurchasedOnly(u, f)
        /\ ~ IntroFree(u, f) /\ ~ CanUse(u, f)
        /\ Answer(r, "insufficient", "done")
  /\ SettleSigned(u)
  /\ UNCHANGED <<now, period, dailyCalls, actual>>

Admissible(u, f) ==
  /\ ~ HardLimited(u, f)
  /\ FreeLimited(u, f) => PurchasedOnly(u, f) \/ IntroFree(u, f)
  /\ IntroFree(u, f) \/ CanUse(u, f)

NewRow(u, f) ==
  [status |-> "reserved", provider |-> "credit_reserved", credits |-> CreditCharge(u, f),
   energy |-> EnergyCharge(u, f), bonus |-> BonusCharge(u, f),
   purchased |-> PurchasedCharge(u, f), cost |-> 0, created |-> now]

ReserveAdmitted(r, u, k, f) ==
  /\ Arrives(r, u, k, f)
  /\ Existing(u, k) = {}
  /\ Admissible(u, f)
  /\ Answer(r, "none", "cost")
  /\ SettleEnergy(u, EnergyCharge(u, f))
  /\ usage' = [SettledRows(u) EXCEPT ![r] = NewRow(u, f)]
  /\ purchased' = [purchased EXCEPT ![u] = SettledPurchased(u) - PurchasedCharge(u, f)]
  /\ bonus' = [bonus EXCEPT ![u] = SettledBonus(u) - BonusCharge(u, f)]
  /\ ledger' = LedgerPlus(u, StaleBonus(u) + SignupBonus(u) - BonusCharge(u, f),
                             StalePurchased(u) - PurchasedCharge(u, f))
  /\ granted' = [granted EXCEPT ![u] = @ \cup {"signup"}]
  /\ UNCHANGED <<now, period, dailyCalls, actual>>

Reserve(r, u, k, f) ==
  \/ ReserveDuplicate(r, u, k, f)
  \/ ReserveRefused(r, u, k, f)
  \/ ReserveAdmitted(r, u, k, f)

-----------------------------------------------------------------------------
(* AiUsageRepository: the platform's daily call and monthly cost limits.      *)
CallLimit(row) ==
  IF row.purchased > 0 /\ row.bonus = 0 /\ row.energy = 0 THEN PaidDailyCalls ELSE DailyCalls

CostBlocked(r) ==
  \/ dailyCalls[call[r].user][DayOf(now)] >= CallLimit(usage[r])
  \/ estimated[MonthOf(now)] + Policy[call[r].flow].cost > MonthlyBudget

RefuseCostUnrefunded(r) ==  \* mutant: a call over the platform's limits returns at once
  /\ CostBlocked(r) /\ Answer(r, "blocked", "done")
  /\ UNCHANGED <<period, usage, costVars>>
RefuseCost(r) ==
  /\ CostBlocked(r) /\ Answer(r, "blocked", "refund")
  /\ UNCHANGED <<period, usage, costVars>>

TakeCost(r) ==
  /\ ~ CostBlocked(r) /\ Answer(r, "none", "start")
  /\ period' = [period EXCEPT ![r] = MonthOf(now)]
  /\ usage' = [usage EXCEPT ![r] =
                  [@ EXCEPT !.cost = Policy[call[r].flow].cost, !.provider = "cost_reserved"]]
  /\ dailyCalls' = [dailyCalls EXCEPT ![call[r].user][DayOf(now)] = @ + 1]
  /\ estimated' = [estimated EXCEPT ![MonthOf(now)] = @ + Policy[call[r].flow].cost]
  /\ UNCHANGED actual

ReserveCost(r) ==
  /\ pc[r] = "cost"
  /\ RefuseCost(r) \/ TakeCost(r)
  /\ UNCHANGED <<now, call, accountVars>>

Undecided(r) == usage[r].status = "reserved"

MarkStarted(r) ==
  /\ pc[r] = "start"
  /\ pc' = [pc EXCEPT ![r] = "provider"]
  /\ usage' = IF Undecided(r)
                THEN [usage EXCEPT ![r].provider = "provider_started"] ELSE usage
  /\ UNCHANGED <<now, call, reply, period, accountVars, costVars>>

(* The provider answers, fails or is cancelled; the cost is measured or not.  *)
SettleCost(r) ==
  /\ pc[r] = "provider"
  /\ \E answer \in {"ok", "failed", "cancelled"}, cost \in 0..Policy[call[r].flow].cost,
        measured \in BOOLEAN :
       /\ answer = "cancelled" => cost = 0 /\ ~ measured
       /\ Answer(r, answer, IF answer = "ok" THEN "commit" ELSE "refund")
       /\ actual' = [actual EXCEPT ![period[r]] = @ + cost]
       /\ estimated' = IF measured
            THEN [estimated EXCEPT ![period[r]] = Floor0(@ - Policy[call[r].flow].cost + cost)]
            ELSE estimated
  /\ UNCHANGED <<now, call, period, usage, dailyCalls, accountVars>>

-----------------------------------------------------------------------------
(* The end of a request.  Nothing is saved, energy recovery included, when    *)
(* the row is no longer reserved.                                             *)
FirstDm(r) ==
  Policy[call[r].flow].dm /\ "first_dm" \notin granted[call[r].user]

Commit(r) ==
  /\ pc[r] = "commit"
  /\ pc' = [pc EXCEPT ![r] = "done"]
  /\ LET u == call[r].user
         reward == IF FirstDm(r) THEN RewardCredits["first_dm"] ELSE 0
     IN  IF Undecided(r)
         THEN /\ usage' = [usage EXCEPT ![r] = Decided(@, "committed")]
              /\ energy' = [energy EXCEPT ![u] = RecoveredEnergy(u)]
              /\ recoveredAt' = [recoveredAt EXCEPT ![u] = RecoveredAt(u)]
              /\ bonus' = [bonus EXCEPT ![u] = @ + reward]
              /\ ledger' = LedgerPlus(u, reward, 0)
              /\ granted' = IF FirstDm(r) THEN [granted EXCEPT ![u] = @ \cup {"first_dm"}] ELSE granted
              /\ UNCHANGED purchased
         ELSE UNCHANGED <<usage, accountVars>>
  /\ UNCHANGED <<now, call, reply, period, costVars>>

(* After a failed or cancelled provider call or a platform limit, or when a deferred result is unusable. *)
Refund(r) ==
  /\ \/ pc[r] = "refund" /\ Answer(r, reply[r], "done")
     \/ pc[r] = "commit" /\ Policy[call[r].flow].deferred /\ Answer(r, "failed", "done")
  /\ LET u == call[r].user
     IN  IF Undecided(r)
         THEN /\ usage' = [usage EXCEPT ![r] = Decided(@, "refunded")]
              /\ energy' = [energy EXCEPT ![u] =
                              Least2(ENERGY_MAX_PERCENT, RecoveredEnergy(u) + usage[r].energy)]
              /\ recoveredAt' = [recoveredAt EXCEPT ![u] = RecoveredAt(u)]
              /\ bonus' = [bonus EXCEPT ![u] = @ + usage[r].bonus]
              /\ purchased' = [purchased EXCEPT ![u] = @ + usage[r].purchased]
              /\ ledger' = LedgerPlus(u, usage[r].bonus, usage[r].purchased)
              /\ UNCHANGED granted
         ELSE UNCHANGED <<usage, accountVars>>
  /\ UNCHANGED <<now, call, period, costVars>>

InProgress(r) == pc[r] \notin {"new", "done"} /\ reply[r] # "lost"

(* The server stops, or an exception or a second cancellation escapes, between *)
(* two transactions: the request stays where it was and is never resumed.      *)
Abandon(r) ==
  /\ InProgress(r)
  /\ Answer(r, "lost", pc[r])
  /\ UNCHANGED <<now, call, period, usage, accountVars, costVars>>

(* GET /credits. *)
Snapshot(u) ==
  /\ SettleSigned(u)
  /\ UNCHANGED <<now, requestVars, dailyCalls, actual>>

(* Saving a character grants its reward once. *)
GrantFirstCharacter(u) ==
  /\ LET new == "first_character" \notin granted[u]
         reward == IF new THEN RewardCredits["first_character"] ELSE 0
     IN  /\ bonus' = [bonus EXCEPT ![u] = @ + reward]
         /\ ledger' = LedgerPlus(u, reward, 0)
         /\ granted' = [granted EXCEPT ![u] = @ \cup {"first_character"}]
  /\ energy' = [energy EXCEPT ![u] = RecoveredEnergy(u)]
  /\ recoveredAt' = [recoveredAt EXCEPT ![u] = RecoveredAt(u)]
  /\ UNCHANGED <<now, requestVars, usage, purchased, costVars>>

Tick ==
  /\ now < MaxTime
  /\ Punctual => \A r \in Requests : InProgress(r) => usage[r].created + ReservationTTL > now
  /\ now' = now + 1
  /\ UNCHANGED <<requestVars, usage, accountVars, costVars>>

Advance(r) ==
  /\ InProgress(r)
  /\ ReserveCost(r) \/ MarkStarted(r) \/ SettleCost(r) \/ Commit(r) \/ Refund(r)

Step(r) ==
  \/ \E u \in Users, k \in Keys, f \in Flows : Reserve(r, u, k, f)
  \/ Advance(r)
  \/ Abandon(r)

Next ==
  \/ \E r \in Requests : Step(r)
  \/ \E u \in Users : Snapshot(u) \/ GrantFirstCharacter(u)
  \/ Tick

Spec == Init /\ [][Next]_vars

-----------------------------------------------------------------------------
(* Rows that still hold, or have spent, what they charged. *)
Held(u) == Live(RowsOf(u))
HeldBonus(u) == SumOver(Held(u), [r \in Requests |-> usage[r].bonus])
HeldPurchased(u) == SumOver(Held(u), [r \in Requests |-> usage[r].purchased])
HeldEnergy(u) == SumOver(Held(u), [r \in Requests |-> usage[r].energy])
Reward(u, code) == IF code \in granted[u] THEN RewardCredits[code] ELSE 0
Rewarded(u) == Reward(u, "signup") + Reward(u, "first_character") + Reward(u, "first_dm")

(* Credits are never lost and never made: what an account holds and what its  *)
(* reserved and committed calls took is what was bought and rewarded, however *)
(* refunds, expiry and late answers of the same reservation interleave.       *)
Conserved ==
  \A u \in Users :
    /\ bonus[u] + HeldBonus(u) = Rewarded(u)
    /\ purchased[u] + HeldPurchased(u) = OpeningPurchased

(* The ledger explains the balances: the entries of an account add up to what *)
(* it holds, the comparison the purchase audit makes.                         *)
LedgerBalanced ==
  \A u \in Users : ledger[u].bonus = bonus[u] /\ ledger[u].purchased = purchased[u]

(* Energy comes only from recovery: what is left and what calls took never    *)
(* exceeds the opening energy and 25 percent for each full interval that the  *)
(* recovery clock has passed; refunds above 100 percent are lost.             *)
EnergyFromRecovery ==
  \A u \in Users :
    energy[u] + HeldEnergy(u)
      <= OpeningEnergy + ENERGY_RECOVERY_PERCENT * (recoveredAt[u] \div EnergyInterval)

(* A user's idempotency key is charged by at most one usage row.              *)
OneUsagePerKey ==
  \A q, r \in Requests :
    /\ usage[q].status # "none" /\ usage[r].status # "none"
    /\ call[q].user = call[r].user /\ call[q].key = call[r].key
    => q = r

(* A usage that was committed or refunded is never decided again, whichever   *)
(* of expiry, commit and refund comes late.                                   *)
FinalUsagesStay ==
  [][\A r \in Requests :
       usage[r].status \in {"committed", "refunded"} => usage'[r].status = usage[r].status]_vars

(* The answer and the charge agree: a served call is committed, a failed,     *)
(* cancelled or blocked one is refunded, and a replayed answer is that of a   *)
(* committed call of the same user, key and flow.                             *)
ReplyHonest ==
  \A r \in Requests :
    pc[r] = "done" =>
      /\ reply[r] = "ok" => usage[r].status = "committed"
      /\ reply[r] \in {"failed", "cancelled", "blocked"} => usage[r].status = "refunded"
      /\ reply[r] = "replay" =>
           \E q \in Requests : usage[q].status = "committed" /\ call[q] = call[r]

(* A lost request holds its charge no longer than until the account is next   *)
(* looked at after the reservation expired: any other row still reserved has  *)
(* its request in progress.                                                   *)
ReservedHasOwner ==
  \A r \in Requests :
    usage[r].status = "reserved" => InProgress(r) \/ reply[r] = "lost"

(* Energy is explained by recovery, and what is reserved by a request: one that will *)
(* decide it or one that was lost; a refusal or an error leaves no charge behind.    *)
ReservesExplained == EnergyFromRecovery /\ ReservedHasOwner

-----------------------------------------------------------------------------
UsedOn(u, f, d) == {r \in FlowRows(u, f) : DayOf(usage[r].created) = d}

(* No day sees more calls of a flow than its hard limit, refunded ones too.   *)
HardLimitKept ==
  \A u \in Users, f \in Flows, d \in Days :
    Policy[f].hardLimit > 0 => Cardinality(UsedOn(u, f, d)) <= Policy[f].hardLimit

(* No day sees more calls of a flow that are free or paid with energy or      *)
(* bonus credits than its free limit; purchased credits alone go past it.     *)
FreeLimitKept ==
  \A u \in Users, f \in Flows, d \in Days :
    Policy[f].energyAllowed \/ Policy[f].bonusAllowed =>
      Cardinality({r \in Live(UsedOn(u, f, d)) :
                     Policy[f].credits = 0 \/ usage[r].energy > 0 \/ usage[r].bonus > 0})
        <= Policy[f].freeLimit

(* A waived first use is not repeated: refunds give it back, a second call    *)
(* while the first is reserved or committed does not.                         *)
IntroFreeOnce ==
  \A u \in Users, f \in Flows :
    Policy[f].credits > 0 =>
      Cardinality({r \in Live(FlowRows(u, f)) : usage[r].credits = 0 /\ usage[r].energy = 0})
        <= Policy[f].introFree

(* The month's cost estimate stays within the budget and never falls below    *)
(* what was spent and what the calls that have the provider's attention, lost *)
(* ones included, may still cost.                                             *)
Outstanding(m) ==
  SumOver({r \in Requests : (pc[r] = "provider" \/ (pc[r] = "start" /\ InProgress(r))) /\ period[r] = m},
          [r \in Requests |-> IF call[r] = NoCall THEN 0 ELSE Policy[call[r].flow].cost])
CostCovered ==
  \A m \in Months :
    /\ estimated[m] <= MonthlyBudget
    /\ actual[m] + Outstanding(m) <= estimated[m]

(* The limits hold under refunds, expiry and a change of day, whatever calls come together:   *)
(* hard limit, free limit and waived first use.  When no request outlives its reservation,    *)
(* the answer agrees with the charge and, within one month, the budget covers every call.     *)
LimitsKept ==
  /\ HardLimitKept /\ FreeLimitKept /\ IntroFreeOnce
  /\ Punctual => ReplyHonest
  /\ Punctual /\ Months = {0} => CostCovered

-----------------------------------------------------------------------------
(* The charge of a key, as the abstract specification sees it.                *)
ChargeOf(u, k) ==
  IF Existing(u, k) = {} THEN [status |-> "none", credits |-> 0, energy |-> 0]
  ELSE LET row == usage[CHOOSE r \in Existing(u, k) : TRUE]
       IN  [status |-> row.status, credits |-> row.credits, energy |-> row.energy]

Abstract == INSTANCE KeyedCharge WITH charge <- [u \in Users |-> [k \in Keys |-> ChargeOf(u, k)]]

(* Metering implements the promise: each key is charged once, for one amount, *)
(* and the charge is decided once.                                            *)
ChargesOnce == Abstract!Spec

-----------------------------------------------------------------------------
(* Requests that are not lost take their next step, time passes, and every    *)
(* client keeps asking for its balance (the header of the application does).  *)
Fairness ==
  /\ \A r \in Requests : WF_vars(Advance(r))
  /\ WF_vars(Tick)
  /\ \A u \in Users : WF_vars(Snapshot(u))
FairSpec == Spec /\ Fairness

(* Every reservation is decided, by its request or, when that one is lost, by *)
(* expiry; the model's clock must reach past its time to live.                *)
ReservationsResolve ==
  \A r \in Requests :
    usage[r].status = "reserved" /\ usage[r].created + ReservationTTL < MaxTime
      ~> usage[r].status \in {"committed", "refunded"}
=============================================================================
