-------------------------- MODULE CreditPurchases --------------------------
(***************************************************************************)
(* Credits bought in a store (Apps in Toss, Google Play, the App Store) are *)
(* granted once for each order, taken back when the store refunds it and   *)
(* given again when the store reverses the refund.                         *)
(*                                                                         *)
(* The store is external: the history of an order's states is all that is  *)
(* known of it.  Handlers are the requests, notifications and scheduler    *)
(* polls in progress; each of their actions is one call to a store or one  *)
(* database transaction of repositories/credit_purchases.py, which locks   *)
(* the purchase row and then the account row.  A handler that has read the *)
(* purchase before it locks it works with what it read: the session does   *)
(* not refresh a row it already holds.                                     *)
(***************************************************************************)
EXTENDS Integers, FiniteSets, Sequences, Sums

CONSTANTS
  Users, NoUser,
  NumOrders,
  Handlers,
  Provider,      \* the store of each order: "toss", "google" or "apple"
  Subject,       \* provider_subject_hash of a user, for each store
  OrderSubject,  \* whose purchase an order is
  Credits,       \* base_credits + product_bonus_credits of each order
  FirstUsers,    \* users that are registered when the model starts
  Prices,        \* amounts that calls take from and give back to the account
  MaxEvents      \* bound: states of one order in the store

FIRST_PURCHASE_BONUS_PERCENT == 10

Orders == 1..NumOrders
Stores == {"toss", "google", "apple"}
StoreStates == {"pending", "paid", "acknowledged", "failed", "refunded", "restored"}
OrderStatuses == {"ORDER_IN_PROGRESS", "PAYMENT_COMPLETED", "PURCHASED", "FAILED", "REFUNDED",
                  "REFUND_REVERSED"}

ASSUME PurchaseAssumption ==
  /\ NoUser \notin Users
  /\ NumOrders \in Nat \ {0}
  /\ Provider \in [Orders -> Stores]
  /\ Credits \in [Orders -> Nat \ {0}]
  /\ FirstUsers \subseteq Users
  /\ Prices \subseteq Nat \ {0}
  /\ MaxEvents \in Nat

VARIABLES
  history,   \* the states an order has had in its store, the last one is current
  handled,   \* notifications of an order's states whose event is complete
  consumed,  \* tokens Google Play has been told to consume
  handler,   \* each handler's next step and what it knows
  row,       \* credit_purchases
  entries,   \* credit_ledger_entries of an order, by the key's prefix
  person,    \* users
  purchased, debt,  \* credit_accounts
  spent,     \* what reserved and committed calls hold of purchased credits
  rewarded   \* users with a reward_grants row for their first purchase

vars == <<history, handled, consumed, handler, row, entries, person, purchased, debt, spent, rewarded>>
accountVars == <<person, purchased, debt, spent, rewarded>>

Row == [status : {"none", "processing", "granted", "refunded", "failed", "review"},
        user : Users \cup {NoUser}, granted : Nat, bonus : Nat, chargeback : Nat, consumed : BOOLEAN]
NoRow == [status |-> "none", user |-> NoUser, granted |-> 0, bonus |-> 0, chargeback |-> 0,
          consumed |-> FALSE]
Entries == [purchase : Nat, chargeback : Nat, reversal : Nat]
NoEntries == [purchase |-> 0, chargeback |-> 0, reversal |-> 0]
Handler == [step : {"idle", "fetched", "read", "consume", "mark"}, user : Users \cup {NoUser},
            order : Orders, status : OrderStatuses, notice : 0..MaxEvents, seen : Row]
Idle == [step |-> "idle", user |-> NoUser, order |-> 1, status |-> "FAILED", notice |-> 0,
         seen |-> NoRow]

TypeOK ==
  /\ history \in [Orders -> UNION {[1..n -> StoreStates] : n \in 0..MaxEvents}]
  /\ handled \in [Orders -> SUBSET (1..MaxEvents)]
  /\ consumed \subseteq Orders
  /\ handler \in [Handlers -> Handler]
  /\ row \in [Orders -> Row]
  /\ entries \in [Orders -> Entries]
  /\ person \in [Users -> {"new", "active", "gone"}]
  /\ purchased \in [Users -> Nat]
  /\ debt \in [Users -> Nat]
  /\ spent \in [Users -> Nat]
  /\ rewarded \subseteq Users

Init ==
  /\ history = [o \in Orders |-> <<>>]
  /\ handled = [o \in Orders |-> {}]
  /\ consumed = {}
  /\ handler = [h \in Handlers |-> Idle]
  /\ row = [o \in Orders |-> NoRow]
  /\ entries = [o \in Orders |-> NoEntries]
  /\ person = [u \in Users |-> IF u \in FirstUsers THEN "active" ELSE "new"]
  /\ purchased = [u \in Users |-> 0]
  /\ debt = [u \in Users |-> 0]
  /\ spent = [u \in Users |-> 0]
  /\ rewarded = {}

-----------------------------------------------------------------------------
Floor0(n) == IF n < 0 THEN 0 ELSE n
Least2(m, n) == IF m < n THEN m ELSE n
Current(o) == history[o][Len(history[o])]
Owner(o) == {u \in Users : person[u] = "active" /\ Subject[u][Provider[o]] = OrderSubject[o]}

(* What a store can do to an order. *)
StoreSteps(store) ==
  {<<"pending", "paid">>, <<"pending", "failed">>, <<"paid", "refunded">>}
    \cup (IF store = "toss" THEN {<<"paid", "acknowledged">>, <<"acknowledged", "refunded">>} ELSE {})
    \cup (IF store = "apple" THEN {<<"refunded", "restored">>, <<"restored", "refunded">>} ELSE {})
StoreOpens(store) == IF store = "apple" THEN {"paid"} ELSE {"pending", "paid"}

(* How the verified answer of a store names the state of an order. *)
StatusOf(store, state) ==
  CASE state = "pending" -> "ORDER_IN_PROGRESS"
    [] state \in {"paid", "restored"} -> "PAYMENT_COMPLETED"
    [] state = "acknowledged" -> "PURCHASED"
    [] state = "refunded" /\ store # "google" -> "REFUNDED"
    [] OTHER -> "FAILED"

(* A client of the App Store holds transactions signed at any earlier time. *)
Answers(o) ==
  IF Provider[o] = "apple" THEN {history[o][i] : i \in 1..Len(history[o])}
  ELSE IF history[o] = <<>> THEN {} ELSE {Current(o)}

StoreChanges(o, state) ==
  /\ Len(history[o]) < MaxEvents
  /\ IF history[o] = <<>> THEN state \in StoreOpens(Provider[o])
     ELSE <<Current(o), state>> \in StoreSteps(Provider[o])
  /\ history' = [history EXCEPT ![o] = Append(@, state)]
  /\ UNCHANGED <<handled, consumed, handler, row, entries, accountVars>>

-----------------------------------------------------------------------------
(* A handler ends; a notification it was for is complete, or may come again. *)
Goes(h, record) == handler' = [handler EXCEPT ![h] = record]
Done(h) ==
  /\ Goes(h, Idle)
  /\ handled' = IF handler[h].notice = 0 THEN handled
                ELSE [handled EXCEPT ![handler[h].order] = @ \cup {handler[h].notice}]
Fails(h) == Goes(h, Idle) /\ UNCHANGED handled

(* After a grant Google Play is told to consume the token. *)
Granted(h) ==
  IF Provider[handler[h].order] = "google"
  THEN Goes(h, [handler[h] EXCEPT !.step = "consume", !.seen = NoRow]) /\ UNCHANGED handled
  ELSE Done(h)

(* The columns that differ from what the session loaded are written. *)
WriteAll(o, seen, new) == row' = [row EXCEPT ![o] = new]  \* mutant: every column is written
Write(o, seen, new) ==
  row' = [row EXCEPT ![o] =
            IF @.status = "none" THEN new
            ELSE [c \in DOMAIN new |-> IF new[c] # seen[c] THEN new[c] ELSE @[c]]]

(* Credits given to an account repay its debt first; credits taken from it become debt. *)
GivesTwice(u, amount) ==         \* mutant: what repays debt is given to the balance as well
  /\ debt' = [debt EXCEPT ![u] = @ - Least2(@, amount)]
  /\ purchased' = [purchased EXCEPT ![u] = @ + amount]
Gives(u, amount) ==
  /\ debt' = [debt EXCEPT ![u] = @ - Least2(@, amount)]
  /\ purchased' = [purchased EXCEPT ![u] = @ + amount - Least2(debt[u], amount)]
TakesWithoutDebt(u, amount) ==   \* mutant: credits that were spent are forgiven
  /\ purchased' = [purchased EXCEPT ![u] = @ - Least2(@, amount)]
  /\ UNCHANGED debt
TakesBelowZero(u, amount) ==     \* mutant: the balance is not floored
  /\ purchased' = [purchased EXCEPT ![u] = @ - amount]
  /\ UNCHANGED debt
Takes(u, amount) ==
  /\ purchased' = [purchased EXCEPT ![u] = @ - Least2(@, amount)]
  /\ debt' = [debt EXCEPT ![u] = @ + amount - Least2(purchased[u], amount)]

PriorGrantToAccount(o) ==        \* mutant: the account is asked, not the person's purchases
  \E q \in Orders \ {o} : row[q].user = row[o].user /\ row[o].user # NoUser /\ row[q].granted > 0
PriorGrant(o) == \E q \in Orders \ {o} : OrderSubject[q] = OrderSubject[o] /\ row[q].granted > 0
FirstBonus(o, u) ==
  IF PriorGrant(o) \/ u \in rewarded THEN 0
  ELSE (Credits[o] * FIRST_PURCHASE_BONUS_PERCENT) \div 100

(* The unique key of the ledger and the foreign key of the account fail a transaction: *)
(* a second entry of one kind for an order, an account whose user is gone.             *)
RolledBack(h) ==
  /\ Fails(h)
  /\ UNCHANGED <<history, consumed, row, entries, accountVars>>
Orphaned(seen) == seen.user # NoUser /\ person[seen.user] # "active"
NeverTaken(o, kind) == FALSE           \* mutant: ledger keys are not unique
Taken(o, kind) == entries[o][kind] # 0

(* A transaction that changes nothing of the row but its status. *)
Becomes(o, seen, status) ==
  /\ Write(o, seen, [seen EXCEPT !.status = status])
  /\ UNCHANGED <<history, consumed, entries, accountVars>>

(* CreditPurchaseRepository._grant, of a row as the session sees it.  Its check that the   *)
(* user exists never fails here: the purchase that it holds the lock of still has that user. *)
Grant(h, o, seen, u) ==
  LET bonus == FirstBonus(o, u)
      total == Credits[o] + bonus
  IN  \/ Taken(o, "purchase") /\ RolledBack(h)
      \/ /\ ~ Taken(o, "purchase")
         /\ Gives(u, total)
         /\ entries' = [entries EXCEPT ![o].purchase = @ + total]
         /\ Write(o, seen, [seen EXCEPT !.status = "granted", !.granted = total, !.bonus = bonus])
         /\ rewarded' = IF bonus > 0 THEN rewarded \cup {u} ELSE rewarded
         /\ Granted(h)
         /\ UNCHANGED <<history, consumed, person, spent>>

Untouched(h) ==
  /\ Done(h)
  /\ UNCHANGED <<history, consumed, row, entries, accountVars>>

(* CreditPurchaseRepository._refund *)
ToTakeBackButBonus(seen) ==      \* mutant: the first purchase bonus is kept
  Floor0(seen.granted - seen.bonus - seen.chargeback)
ToTakeBack(seen) == Floor0(seen.granted - seen.chargeback)

Refund(h, o, seen) ==
  LET back == ToTakeBack(seen)
      paid == seen.user # NoUser /\ back > 0
  IN  \/ seen.status = "refunded" /\ Untouched(h)
      \/ /\ seen.status # "refunded"
         /\ Orphaned(seen) \/ (paid /\ Taken(o, "chargeback"))
         /\ RolledBack(h)
      \/ /\ seen.status # "refunded"
         /\ ~ Orphaned(seen) /\ ~ (paid /\ Taken(o, "chargeback"))
         /\ Write(o, seen, [seen EXCEPT !.status = "refunded", !.chargeback = @ + back])
         /\ IF paid THEN Takes(seen.user, back) /\ entries' = [entries EXCEPT ![o].chargeback = @ + back]
            ELSE UNCHANGED <<purchased, debt, entries>>
         /\ Done(h)
         /\ UNCHANGED <<history, consumed, person, spent, rewarded>>

(* CreditPurchaseRepository._restore_refund *)
Restore(h, o, seen) ==
  LET again == seen.chargeback
      paid == seen.user # NoUser /\ again > 0
  IN  \/ seen.status = "granted" /\ Untouched(h)
      \/ seen.status \notin {"granted", "refunded"} /\ Becomes(o, seen, "review") /\ Fails(h)
      \/ /\ seen.status = "refunded"
         /\ Orphaned(seen) \/ (paid /\ Taken(o, "reversal"))
         /\ RolledBack(h)
      \/ /\ seen.status = "refunded"
         /\ ~ Orphaned(seen) /\ ~ (paid /\ Taken(o, "reversal"))
         /\ Write(o, seen, [seen EXCEPT !.status = "granted", !.chargeback = 0])
         /\ IF paid THEN Gives(seen.user, again) /\ entries' = [entries EXCEPT ![o].reversal = @ + again]
            ELSE UNCHANGED <<purchased, debt, entries>>
         /\ Done(h)
         /\ UNCHANGED <<history, consumed, person, spent, rewarded>>

-----------------------------------------------------------------------------
(* Handlers start.                                                            *)
Starts(h, step, u, o, status, notice, seen) ==
  /\ handler[h].step = "idle"
  /\ Goes(h, [step |-> step, user |-> u, order |-> o, status |-> status, notice |-> notice,
              seen |-> seen])
  /\ UNCHANGED <<history, consumed, row, entries, accountVars>>

(* The grant endpoints: the store has verified the order the client sent. *)
ClientGrant(h, u, o) ==
  /\ u \in Owner(o)
  /\ \E state \in Answers(o) :
       Starts(h, "fetched", u, o, StatusOf(Provider[o], state), 0, NoRow)
  /\ UNCHANGED handled

(* Notifications tell of a state an order had; Apps in Toss sends none. *)
Notices(o) ==
  {i \in (1..Len(history[o])) \ handled[o] :
     /\ Provider[o] # "toss" /\ history[o][i] # "pending"
     /\ \A h \in Handlers : handler[h].order = o => handler[h].notice # i}
NoticeIgnored(h, o, i) ==
  /\ handler[h].step = "idle"
  /\ handled' = [handled EXCEPT ![o] = @ \cup {i}]
  /\ UNCHANGED <<history, consumed, handler, row, entries, accountVars>>

(* A purchase or a cancellation: Google Play is asked for the order, the App Store's *)
(* notice carries the transaction as it was.                                         *)
PurchaseNotice(h, o, i) ==
  /\ i \in Notices(o)
  /\ history[o][i] \in {"paid", "failed"}
  /\ \/ Owner(o) = {} /\ NoticeIgnored(h, o, i)
     \/ /\ \E u \in Owner(o) :
             Starts(h, "fetched", u, o,
                    StatusOf(Provider[o], IF Provider[o] = "apple" THEN history[o][i] ELSE Current(o)),
                    i, NoRow)
        /\ UNCHANGED handled

(* A refund or its reversal: the purchase is read before it is locked. *)
RefundNotice(h, o, i) ==
  /\ i \in Notices(o)
  /\ history[o][i] \in {"refunded", "restored"}
  /\ \/ row[o].status = "none" /\ NoticeIgnored(h, o, i)
     \/ /\ row[o].status # "none"
        /\ Starts(h, "read", NoUser, o,
                  IF history[o][i] = "refunded" THEN "REFUNDED" ELSE "REFUND_REVERSED", i, row[o])
        /\ UNCHANGED handled

(* The scheduler asks Apps in Toss for the orders of due purchases. *)
DueUnpaid(o) == Provider[o] = "toss" /\ row[o].status = "processing"  \* mutant: grants are not rechecked
DueGranted(o) == Provider[o] = "toss" /\ row[o].status = "granted"    \* mutant: only grants are rechecked
Due(o) == Provider[o] = "toss" /\ row[o].status \in {"processing", "granted"}
Poll(h, o) ==
  /\ Due(o)
  /\ Starts(h, "read", NoUser, o, StatusOf("toss", Current(o)), 0, NoRow)
  /\ UNCHANGED handled

-----------------------------------------------------------------------------
(* CreditPurchaseRepository.apply, which inserts the row or locks the one there is. *)
Grantable(seen) == seen.status \notin {"granted", "refunded", "review"}
ConsumesAnyway(h) ==  \* mutant: a purchase that is not payable is consumed
  Goes(h, [handler[h] EXCEPT !.step = "consume"]) /\ UNCHANGED handled
NotPaid(h) == Fails(h)
Inserted(u) == [NoRow EXCEPT !.status = "processing", !.user = u]
GoogleNotice(h) == Provider[handler[h].order] = "google" /\ handler[h].notice # 0

Apply(h) ==
  LET o == handler[h].order
      u == handler[h].user
      status == handler[h].status
      seen == IF row[o].status = "none" THEN Inserted(u) ELSE row[o]
  IN  /\ handler[h].step = "fetched"
      /\ GoogleNotice(h) => status = "PAYMENT_COMPLETED"
      /\ \/ (person[u] # "active" \/ seen.user # u)
            /\ RolledBack(h)
         \/ /\ person[u] = "active" /\ seen.user = u
            /\ \/ status = "REFUNDED" /\ Refund(h, o, seen)
               \/ /\ status # "REFUNDED" /\ seen.status = "granted" /\ Granted(h)
                  /\ UNCHANGED <<history, consumed, row, entries, accountVars>>
               \/ /\ status # "REFUNDED" /\ seen.status # "granted" /\ ~ Grantable(seen)
                  /\ RolledBack(h)
               \/ /\ Grantable(seen)
                  /\ \/ status = "PURCHASED" /\ Becomes(o, seen, "review") /\ Fails(h)
                     \/ status = "FAILED" /\ Becomes(o, seen, "failed") /\ NotPaid(h)
                     \/ status = "ORDER_IN_PROGRESS" /\ Becomes(o, seen, "processing") /\ NotPaid(h)
                     \/ status = "PAYMENT_COMPLETED" /\ Grant(h, o, seen, u)

(* GooglePlayRtdnPurchaseService._reconcile: the state the store answered is not paid, *)
(* and the purchase, if any, is read before it is locked.                              *)
ReadPurchase(h) ==
  LET o == handler[h].order
  IN  /\ handler[h].step = "fetched" /\ GoogleNotice(h)
      /\ handler[h].status # "PAYMENT_COMPLETED"
      /\ \/ row[o].user # handler[h].user /\ Untouched(h)
         \/ /\ row[o].user = handler[h].user
            /\ Goes(h, [handler[h] EXCEPT !.step = "read", !.seen = row[o]])
            /\ UNCHANGED <<history, handled, consumed, row, entries, accountVars>>

(* CreditPurchaseRepository.reconcile and _reconcile_processing. *)
Reconcile(h) ==
  LET o == handler[h].order
      status == handler[h].status
      seen == IF handler[h].seen = NoRow THEN row[o] ELSE handler[h].seen
      open == seen.status = "processing"
  IN  /\ handler[h].step = "read"
      /\ \/ status = "REFUNDED" /\ Refund(h, o, seen)
         \/ status = "REFUND_REVERSED" /\ Restore(h, o, seen)
         \/ open /\ status = "PAYMENT_COMPLETED" /\ seen.user # NoUser /\ Grant(h, o, seen, seen.user)
         \/ open /\ status = "PAYMENT_COMPLETED" /\ seen.user = NoUser
            /\ Becomes(o, seen, "review") /\ Done(h)
         \/ open /\ status = "PURCHASED" /\ Becomes(o, seen, "review") /\ Done(h)
         \/ open /\ status = "FAILED" /\ Becomes(o, seen, "failed") /\ Done(h)
         \/ /\ status \notin {"REFUNDED", "REFUND_REVERSED"}
            /\ ~ open \/ status = "ORDER_IN_PROGRESS"
            /\ Untouched(h)

-----------------------------------------------------------------------------
(* consume_granted_google_play_purchase: read the purchase, consume it at Google Play, *)
(* which may refuse, and mark it.                                                      *)
Consume(h) ==
  LET o == handler[h].order
  IN  /\ handler[h].step = "consume"
      /\ \/ (row[o].user # handler[h].user \/ row[o].consumed) /\ Done(h) /\ UNCHANGED consumed
         \/ /\ row[o].user = handler[h].user /\ ~ row[o].consumed
            /\ \/ /\ consumed' = consumed \cup {o}
                  /\ Goes(h, [handler[h] EXCEPT !.step = "mark"]) /\ UNCHANGED handled
               \/ Fails(h) /\ UNCHANGED consumed
      /\ UNCHANGED <<history, row, entries, accountVars>>

Mark(h) ==
  /\ handler[h].step = "mark"
  /\ row' = [row EXCEPT ![handler[h].order].consumed = TRUE]
  /\ Done(h)
  /\ UNCHANGED <<history, consumed, entries, accountVars>>

(* The server stops, a store does not answer, a connection breaks. *)
Lose(h) ==
  /\ handler[h].step # "idle"
  /\ RolledBack(h)

(* Calls take purchased credits and give them back; see CreditUsage. *)
Spend(u, price) ==
  /\ person[u] = "active" /\ purchased[u] >= price
  /\ purchased' = [purchased EXCEPT ![u] = @ - price]
  /\ spent' = [spent EXCEPT ![u] = @ + price]
  /\ UNCHANGED <<history, handled, consumed, handler, row, entries, person, debt, rewarded>>
GiveBack(u, price) ==
  /\ person[u] = "active" /\ spent[u] >= price
  /\ purchased' = [purchased EXCEPT ![u] = @ + price]
  /\ spent' = [spent EXCEPT ![u] = @ - price]
  /\ UNCHANGED <<history, handled, consumed, handler, row, entries, person, debt, rewarded>>

(* The deleted account is purged: the purchases stay, without their user. *)
Purge(u) ==
  /\ person[u] = "active"
  /\ person' = [person EXCEPT ![u] = "gone"]
  /\ row' = [o \in Orders |-> IF row[o].user = u THEN [row[o] EXCEPT !.user = NoUser] ELSE row[o]]
  /\ entries' = [o \in Orders |-> IF row[o].user = u THEN NoEntries ELSE entries[o]]
  /\ purchased' = [purchased EXCEPT ![u] = 0]
  /\ debt' = [debt EXCEPT ![u] = 0]
  /\ spent' = [spent EXCEPT ![u] = 0]
  /\ rewarded' = rewarded \ {u}
  /\ UNCHANGED <<history, handled, consumed, handler>>

(* The person signs in again and gets another account. *)
Register(u) ==
  /\ person[u] = "new"
  /\ \A v \in Users : person[v] = "active" => Subject[v]["toss"] # Subject[u]["toss"]
  /\ person' = [person EXCEPT ![u] = "active"]
  /\ UNCHANGED <<history, handled, consumed, handler, row, entries, purchased, debt, spent, rewarded>>

Start(h) ==
  \E o \in Orders :
    \/ \E u \in Users : ClientGrant(h, u, o)
    \/ \E i \in 1..MaxEvents : PurchaseNotice(h, o, i) \/ RefundNotice(h, o, i)
    \/ Poll(h, o)
Proceed(h) == Apply(h) \/ ReadPurchase(h) \/ Reconcile(h) \/ Consume(h) \/ Mark(h)

Next ==
  \/ \E o \in Orders, state \in StoreStates : StoreChanges(o, state)
  \/ \E h \in Handlers : Start(h) \/ Proceed(h) \/ Lose(h)
  \/ \E u \in Users : (\E price \in Prices : Spend(u, price) \/ GiveBack(u, price)) \/ Purge(u) \/ Register(u)

Spec == Init /\ [][Next]_vars

-----------------------------------------------------------------------------
SumOf(S, amount) == Total([o \in Orders |-> IF o \in S THEN amount[o] ELSE 0], NumOrders)
Bought(u) == {o \in Orders : row[o].user = u}
Kept(u) == SumOf(Bought(u), [o \in Orders |-> row[o].granted - row[o].chargeback])
Entered(u) ==
  SumOf(Bought(u), [o \in Orders |-> entries[o].purchase - entries[o].chargeback + entries[o].reversal])

(* What an account holds, owes and has spent is what its purchases granted and refunds have *)
(* not taken back, whichever of the client, the notifications and the polls came first.     *)
BalanceExplained ==
  \A u \in Users : person[u] = "active" => purchased[u] - debt[u] + spent[u] = Kept(u)

(* The audit of purchases and accounts finds no ledger that disagrees with its purchase. *)
AuditClean ==
  /\ \A o \in Orders :
       row[o].user # NoUser =>
         /\ row[o].status \in {"granted", "refunded"} => entries[o].purchase = row[o].granted
         /\ row[o].status = "refunded" => entries[o].chargeback = row[o].chargeback
  /\ \A u \in Users : person[u] = "active" => purchased[u] - debt[u] = Entered(u) - spent[u]

(* A token is consumed at Google Play, and cannot be sent again, only if its credits were granted. *)
ConsumedWasGranted == \A o \in consumed : row[o].granted > 0

(* A person gets the bonus of a first purchase once, across accounts too. *)
FirstBonusOnce ==
  \A p, q \in Orders :
    OrderSubject[p] = OrderSubject[q] /\ row[p].bonus > 0 /\ row[q].bonus > 0 => p = q

(* Each account is explained by its purchases, whichever of the client, the notifications and *)
(* the polls paid and refunded them, and a person gets the bonus of a first purchase once.    *)
BalancesExplained == BalanceExplained /\ FirstBonusOnce

(* A refund takes back everything that was granted, the first purchase bonus included. *)
RefundTakesAll ==
  \A o \in Orders : row[o].status = "refunded" => row[o].chargeback = row[o].granted

(* A purchase with the status granted did grant credits. *)
GrantPays == \A o \in Orders : row[o].status = "granted" => row[o].granted > 0

(* The ledger's entries of an order, as the abstract specification sees them. *)
Entitlements ==
  [o \in Orders |->
     [purchase |-> entries[o].purchase, chargeback |-> entries[o].chargeback,
      reversal |-> entries[o].reversal, closed |-> row[o].status # "none" /\ row[o].user = NoUser]]
Abstract == INSTANCE OrderEntitlement WITH entitlement <- Entitlements

(* Purchases implement the promise: credits of an order are granted, taken back and given *)
(* again at most once each, always all of them.                                           *)
EachOrderOnce == Abstract!Spec

-----------------------------------------------------------------------------
(* Handlers make progress, and the scheduler, which polls for as long as the server runs, *)
(* sooner or later has an answer from Apps in Toss for every due purchase and saves it.   *)
Fairness ==
  /\ \A h \in Handlers : WF_vars(Proceed(h))
  /\ \A h \in Handlers, o \in Orders :
       SF_vars(Poll(h, o)) /\ SF_vars(handler[h].order = o /\ Reconcile(h))
FairSpec == Spec /\ Fairness

(* A refund in Apps in Toss reaches the purchase that was granted, without a notification. *)
RefundsArrive ==
  \A o \in Orders :
    row[o].status = "granted" /\ Current(o) = "refunded" ~> row[o].status = "refunded"

(* A purchase that waits for its payment is decided once the store has. *)
PaymentsArrive ==
  \A o \in Orders :
    row[o].status = "processing" /\ Current(o) # "pending" ~> row[o].status # "processing"
=============================================================================
