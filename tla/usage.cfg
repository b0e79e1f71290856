SPECIFICATION MCSpec
CONSTANTS
  alice = alice
  k1 = k1
  k2 = k2
  none = none
  Users = {alice}
  Keys = {k1, k2}
  Flows <- SafetyFlows
  NumRequests = 2
  NoCall = none
  Policy <- SafetyPolicy
  RewardCredits <- OneEach
  OpeningPurchased = 2
  OpeningEnergy = 70
  ReservationTTL = 1
  EnergyInterval = 2
  DayLength = 2
  MonthDays = 9
  MaxTime = 2
  DailyCalls = 1
  PaidDailyCalls = 2
  MonthlyBudget = 2
  Punctual = FALSE
INVARIANTS
  TypeOK
  Conserved
  LedgerBalanced
  ReservesExplained
  LimitsKept
PROPERTIES
  ChargesOnce
  ResolvedWithinLimits
