------------------------- MODULE MCCreditPurchases -------------------------
(***************************************************************************)
(* CreditPurchases for TLC, once for each store.  A behaviour takes one of *)
(* the parts; the variables of the others keep their first values.         *)
(***************************************************************************)
EXTENDS CreditPurchases, TLC

CONSTANTS first, second, nobody, h1, h2

(* One person, with two accounts one after the other: Apps in Toss knows the person, *)
(* Google Play and the App Store know the account.                                   *)
Accounts == {first, second}
Subjects == [u \in Accounts |-> [s \in Stores |-> IF s = "toss" THEN "person" ELSE u]]

OrdersOf(store, n) == [o \in 1..n |-> store]
TossOrders == OrdersOf("toss", 2)
GoogleOrder == OrdersOf("google", 1)
AppleOrder == OrdersOf("apple", 1)
PersonBuys == [o \in 1..NumOrders |-> "person"]
FirstBuys == [o \in 1..NumOrders |-> first]
TenEach == [o \in 1..NumOrders |-> 10]

VARIABLES
  part,
  sHistory, sHandled, sConsumed, sHandler, sRow, sEntries, sPerson, sPurchased, sDebt, sSpent, sRewarded

TwoHandlers == {h1, h2}
Google == INSTANCE CreditPurchases WITH
  Users <- {first}, NumOrders <- 1, Handlers <- TwoHandlers, Provider <- GoogleOrder,
  OrderSubject <- [o \in 1..1 |-> first], Credits <- [o \in 1..1 |-> 10], Prices <- {}, MaxEvents <- 3,
  history <- sHistory, handled <- sHandled, consumed <- sConsumed, handler <- sHandler, row <- sRow,
  entries <- sEntries, person <- sPerson, purchased <- sPurchased, debt <- sDebt, spent <- sSpent,
  rewarded <- sRewarded
Apple == INSTANCE CreditPurchases WITH
  Users <- {first}, NumOrders <- 1, Handlers <- TwoHandlers, Provider <- AppleOrder,
  OrderSubject <- [o \in 1..1 |-> first], Credits <- [o \in 1..1 |-> 10], Prices <- {6}, MaxEvents <- 4,
  history <- sHistory, handled <- sHandled, consumed <- sConsumed, handler <- sHandler, row <- sRow,
  entries <- sEntries, person <- sPerson, purchased <- sPurchased, debt <- sDebt, spent <- sSpent,
  rewarded <- sRewarded

storeVars == <<sHistory, sHandled, sConsumed, sHandler, sRow, sEntries, sPerson, sPurchased, sDebt,
               sSpent, sRewarded>>
mcVars == <<part, vars, storeVars>>

(* The names of handlers do not matter: the first idle one starts. *)
FirstIdleStarts == sHandler[h1] = Idle => sHandler[h2] # Idle \/ sHandler'[h2] = Idle

MCInit ==
  /\ Init
  /\ \/ part = "toss" /\ Google!Init
     \/ part = "google" /\ Google!Init
     \/ part = "apple" /\ Apple!Init
MCNext ==
  \/ part = "toss" /\ Next /\ UNCHANGED <<part, storeVars>>
  \/ part = "google" /\ Google!Next /\ FirstIdleStarts /\ UNCHANGED <<part, vars>>
  \/ part = "apple" /\ Apple!Next /\ FirstIdleStarts /\ UNCHANGED <<part, vars>>
OfToss(A) == part = "toss" /\ A /\ UNCHANGED <<part, storeVars>>
MCFairness ==
  /\ \A h \in Handlers : WF_mcVars(OfToss(Proceed(h)))
  /\ \A h \in Handlers, o \in Orders :
       SF_mcVars(OfToss(Poll(h, o))) /\ SF_mcVars(OfToss(handler[h].order = o /\ Reconcile(h)))
MCSpec == MCInit /\ [][MCNext]_mcVars /\ MCFairness

(* In the App Store too every account is explained by its purchases, and an order is granted,  *)
(* taken back and given again as OrderEntitlement promises; Google Play is told to consume only *)
(* what was granted, and the audit finds nothing.  Polls of Apps in Toss carry a refund to its  *)
(* purchase and a payment to its order.                                                         *)
StoresSettled ==
  /\ RefundsArrive /\ PaymentsArrive
  /\ [][/\ part = "apple" => Apple!BalanceExplained' /\ (Apple!Abstract!Next \/ UNCHANGED Apple!Entitlements)
        /\ part = "google" => Google!ConsumedWasGranted' /\ Google!AuditClean']_mcVars
=============================================================================
