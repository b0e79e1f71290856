--------------------------- MODULE PurchaseClients ---------------------------
(***************************************************************************)
(* The app's side of a credit purchase, in the three builds of the app:    *)
(* Apps in Toss, Android (Google Play) and iOS (App Store).  The credit    *)
(* store is a screen that loads its data, recovers the purchases that the  *)
(* store still lists, and starts new ones.  Each purchase and each         *)
(* recovery is a chain of awaited calls: ask the store, have the server    *)
(* grant each order, tell the store that it is done.                       *)
(*                                                                         *)
(* The server (CreditPurchases) and the stores are external here: what     *)
(* they have granted, been paid and been told.                             *)
(***************************************************************************)
EXTENDS Naturals, Sequences, FiniteSets, SequencesExt

CONSTANTS
  Users, Orders,   \* an order is of a product of its own
  None,
  Platforms,       \* the builds: some of "toss", "google", "apple"
  Slots,           \* bound: 1..n for n purchases and recoveries at a time
  MaxLoads         \* bound: loads of the store's data at a time

VARIABLES
  platform,
  session,      \* the account signed in
  due,          \* the catalogue request of useTossPurchaseRecovery is on its way
  open,         \* the credit store is on screen
  ready,        \* its catalogue is loaded
  purchasing,   \* purchasingSku, purchasingProductId
  balance,      \* what the server had granted when the data on screen was read
  loads,        \* loads of the data on their way, by the time they were asked
  trouble,      \* the screen has shown an error or was not told of a change
  job,          \* the chains of calls
  order,        \* what the store knows of each order
  server        \* what the server has granted

screenVars == <<open, ready, purchasing, balance, loads, trouble>>
vars == <<platform, session, due, screenVars, job, order, server>>

Ledger == [Orders -> {"none", "granted", "refunded"}]
Job == [kind : {"idle", "buy", "recover", "observe"}, mine : BOOLEAN,
        step : {"sheet", "ask", "work", "refunds"},
        todo : SUBSET Orders, tell : SUBSET Orders, done : BOOLEAN, failed : BOOLEAN]
Order == [pay : {"none", "pending", "paid"}, buyer : Users \cup {None}, told : BOOLEAN, refunded : BOOLEAN]
Idle == [kind |-> "idle", mine |-> FALSE, step |-> "ask", todo |-> {}, tell |-> {}, done |-> FALSE, failed |-> FALSE]
Unread == [o \in Orders |-> None]
NewOrder == [pay |-> "none", buyer |-> None, told |-> FALSE, refunded |-> FALSE]

(* The store of the shell the app runs in: all its orders are of that store. *)
billingProvider == platform \in Platforms
TypeOK ==
  /\ billingProvider /\ session \in Users
  /\ {due, open, ready, trouble} \subseteq BOOLEAN
  /\ purchasing \in Orders \cup {None}
  /\ balance \in Ledger \cup {Unread}
  /\ loads \in BoundedSeq(Ledger \cup {Unread}, MaxLoads)
  /\ job \in [Slots -> Job]
  /\ order \in [Orders -> Order]
  /\ server \in Ledger

Init ==
  /\ billingProvider
  /\ session \in Users
  /\ due = (platform = "toss")
  /\ open = FALSE /\ ready = FALSE /\ purchasing = None /\ balance = Unread /\ loads = <<>> /\ trouble = FALSE
  /\ job = [s \in Slots |-> Idle]
  /\ order = [o \in Orders |-> NewOrder]
  /\ server = [o \in Orders |-> "none"]

Free == {s \in Slots : job[s].kind = "idle"}
FirstFree == CHOOSE s \in Free : \A t \in Free : s <= t
Recovering == {s \in Slots : job[s].kind = "recover"}
Buying == {s \in Slots : job[s].kind = "buy" /\ job[s].mine}
-----------------------------------------------------------------------------
(* useCreditStoreData: `retry` loads once more; no answer is compared with a later one. *)
Refreshed == Append(loads, Unread)

(* The data that this load will show is read. *)
ReadLoad(i) ==
  /\ loads[i] = Unread
  /\ loads' = [loads EXCEPT ![i] = server]
  /\ UNCHANGED <<platform, session, due, open, ready, purchasing, balance, trouble, job, order, server>>

(* recoverTossCreditPurchases: one at a time; who comes later waits for the one under way. *)
RecoverAgain(mine) ==     \* mutant: recoveryInFlight is not looked at
  [job EXCEPT ![FirstFree] = [Idle EXCEPT !.kind = "recover", !.mine = mine]]
RecoverToss(mine) ==
  IF Recovering # {}
    THEN [s \in Slots |-> IF s \in Recovering /\ mine THEN [job[s] EXCEPT !.mine = TRUE] ELSE job[s]]
    ELSE [job EXCEPT ![FirstFree] = [Idle EXCEPT !.kind = "recover", !.mine = mine]]
(* initializePurchases, initializeGooglePlay, initializeAppStore *)
StartRecovery ==
  IF platform = "toss" THEN RecoverToss(TRUE)
  ELSE [job EXCEPT ![FirstFree] = [Idle EXCEPT !.kind = "recover", !.mine = TRUE]]

(* The data arrives; with the first catalogue the products are known and the recovery starts. *)
AnswerLoad(i) ==
  /\ loads[i] # Unread
  /\ loads' = RemoveAt(loads, i)
  /\ balance' = loads[i]
  /\ trouble' = (trouble \/ i # 1)
  /\ ready' = TRUE
  /\ IF ready THEN UNCHANGED job ELSE Free # {} /\ job' = StartRecovery
  /\ UNCHANGED <<platform, session, due, open, purchasing, order, server>>
FailLoad(i) ==
  /\ loads' = RemoveAt(loads, i)
  /\ trouble' = TRUE
  /\ UNCHANGED <<platform, session, due, open, ready, purchasing, balance, job, order, server>>
(* The button of the load's error; here whenever there was trouble. *)
Retry ==
  /\ open /\ trouble /\ loads = <<>>
  /\ loads' = Refreshed
  /\ UNCHANGED <<platform, session, due, open, ready, purchasing, balance, trouble, job, order, server>>

OpenStore ==
  /\ ~ open
  /\ open' = TRUE /\ loads' = <<Unread>> /\ trouble' = FALSE
  /\ UNCHANGED <<platform, session, due, ready, purchasing, balance, job, order, server>>

(* The screen goes: nothing that is under way is shown on it any more. *)
ScreenGone ==
  /\ open' = FALSE /\ ready' = FALSE /\ purchasing' = None /\ balance' = Unread /\ loads' = <<>> /\ trouble' = FALSE
CloseStore ==
  /\ open
  /\ ScreenGone
  /\ job' = [s \in Slots |-> [job[s] EXCEPT !.mine = FALSE]]
  /\ UNCHANGED <<platform, session, due, order, server>>
(* Another account signs in on the same page; what runs goes on, now with its session. *)
SwitchUser(u) ==
  /\ u # session
  /\ session' = u /\ due' = (platform = "toss")
  /\ ScreenGone
  /\ job' = [s \in Slots |-> [job[s] EXCEPT !.mine = FALSE]]
  /\ UNCHANGED <<platform, order, server>>
(* The app stops and starts; a sheet of the store that was on screen is gone as well. *)
Restart ==
  /\ due' = (platform = "toss")
  /\ ScreenGone
  /\ job' = [s \in Slots |-> Idle]
  /\ UNCHANGED <<platform, session, order, server>>

(* startSessionRecovery: the catalogue arrives, or does not. *)
SessionRecovery ==
  /\ due
  /\ due' = FALSE
  /\ \/ Free # {} /\ job' = RecoverToss(FALSE)
     \/ UNCHANGED job
  /\ UNCHANGED <<platform, session, screenVars, order, server>>
-----------------------------------------------------------------------------
(* purchase: the product's button is disabled while it is being bought.  On Toss a second *)
(* purchase first takes its callbacks from the one before.                                *)
Buy(o) ==
  /\ open /\ ready /\ purchasing # o
  /\ order[o].pay = "none"
  /\ Free # {}
  /\ purchasing' = o
  /\ job' = [s \in Slots |->
               IF s = FirstFree THEN [Idle EXCEPT !.kind = "buy", !.mine = TRUE, !.step = "sheet", !.todo = {o}]
               ELSE IF platform = "toss" /\ s \in Buying THEN [job[s] EXCEPT !.mine = FALSE]
               ELSE job[s]]
  /\ UNCHANGED <<platform, session, due, open, ready, balance, loads, trouble, order, server>>

(* The sheet of the store: paid, put off until somebody approves, or left. *)
Pay(s) ==
  /\ job[s].step = "sheet"
  /\ \E o \in job[s].todo, pay \in {"none", "pending", "paid"} :
       /\ order[o].pay = "none"
       /\ pay = "pending" => platform # "toss"
       /\ order' = IF pay = "none" THEN order
                   ELSE [order EXCEPT ![o] = [NewOrder EXCEPT !.pay = pay, !.buyer = session]]
       /\ job' = [job EXCEPT
            ![s].step = "work",
            ![s].todo = IF pay = "paid" THEN {o} ELSE {},
            ![s].failed = pay = "none" \/ (pay = "pending" /\ platform = "apple")]
  /\ UNCHANGED <<platform, session, due, screenVars, server>>
(* The sheet does not come up: another one is there, or the server withholds its context. *)
NoSheet(s) ==
  /\ job[s].step = "sheet"
  /\ job' = [job EXCEPT ![s].step = "work", ![s].todo = {}, ![s].failed = TRUE]
  /\ UNCHANGED <<platform, session, due, screenVars, order, server>>

(* getPendingTossIapOrders, getGooglePlayPurchases, getUnfinishedAppStorePurchases *)
Listed == {o \in Orders : order[o].pay = "paid" /\ ~ order[o].told}
AskStore(s) ==
  /\ job[s].kind = "recover" /\ job[s].step = "ask"
  /\ \/ job' = [job EXCEPT ![s].step = "work", ![s].todo = Listed]
     \/ platform = "toss" /\ job' = [job EXCEPT ![s].step = "work"]    \* the build of the app is too old to list
  /\ UNCHANGED <<platform, session, due, screenVars, order, server>>

(* observeAppStoreTransactions: the listener of the screen is given a transaction. *)
Observe(o) ==
  /\ platform = "apple" /\ open
  /\ o \in Listed
  /\ \A s \in Slots : o \notin job[s].todo \cup job[s].tell
  /\ Free # {}
  /\ job' = [job EXCEPT ![FirstFree] = [Idle EXCEPT !.kind = "observe", !.mine = TRUE, !.step = "work", !.todo = {o}]]
  /\ UNCHANGED <<platform, session, due, screenVars, order, server>>
-----------------------------------------------------------------------------
(* The server grants the order to who is signed in, or takes it back, or refuses.  A Toss *)
(* order is the person's, the others are an account's.                                     *)
Grants(o) ==
  IF order[o].pay # "paid" \/ (platform # "toss" /\ order[o].buyer # session) THEN server[o]
  ELSE IF server[o] = "refunded" \/ (platform = "toss" /\ order[o].refunded) THEN "refunded"
  ELSE "granted"

(* What an answer must say for the purchase to go on: grantProduct and restorePendingOrder,   *)
(* isFinishedGrant; Google Play's, any that is no error.                                     *)
AnyAnswer(status) == TRUE          \* mutant: the answer's status is not looked at
Accepted(status) ==
  \/ platform = "toss" /\ status = "granted"
  \/ platform = "google" /\ status # "none"
  \/ platform = "apple" /\ status \in {"granted", "refunded"}

(* grantCreditPurchase and its siblings: the answer comes, or is lost with or without effect. *)
Grant(s, o) ==
  /\ job[s].step \in {"work", "refunds"} /\ o \in job[s].todo
  /\ \E answered \in BOOLEAN :
       LET status == Grants(o)
           failed == ~ answered \/ IF job[s].step = "refunds" THEN status # "refunded" ELSE ~ Accepted(status)
           tells == ~ failed /\ job[s].step = "work" /\ platform # "google"
       IN  /\ \/ server' = [server EXCEPT ![o] = status]
              \/ ~ answered /\ UNCHANGED server
           /\ job' = [job EXCEPT
                ![s].todo = @ \ {o},
                ![s].tell = IF tells THEN @ \cup {o} ELSE @,
                ![s].done = @ \/ (~ failed /\ ~ tells),
                ![s].failed = @ \/ failed]
           /\ trouble' = (trouble \/ (~ job[s].mine /\ server'[o] # server[o]))
  /\ UNCHANGED <<platform, session, due, open, ready, purchasing, balance, loads, order>>

(* completeTossIapGrant, finishAppStorePurchase; of a purchase on Toss, Toss itself.  A       *)
(* recovery on Toss counts an order whose completion failed as granted, and asks again later. *)
Tell(s, o) ==
  /\ o \in job[s].tell
  /\ \E told \in BOOLEAN :
       LET counts == told \/ (platform = "toss" /\ job[s].kind = "recover")
       IN  /\ told => platform = "toss" \/ ~ order[o].told     \* iOS: "transaction is not pending"
           /\ order' = IF told THEN [order EXCEPT ![o].told = TRUE] ELSE order
           /\ job' = [job EXCEPT ![s].tell = @ \ {o}, ![s].done = @ \/ counts, ![s].failed = @ \/ ~ counts]
  /\ UNCHANGED <<platform, session, due, screenVars, server>>

(* runRecovery, second half: the refunded orders of the history, if it can be read. *)
Settled(s) == job[s].todo = {} /\ job[s].tell = {}
Refunded == {o \in Orders : order[o].refunded /\ order[o].told}
AskHistory(s) ==
  /\ platform = "toss" /\ job[s].kind = "recover" /\ job[s].step = "work" /\ Settled(s)
  /\ \/ job' = [job EXCEPT ![s].step = "refunds", ![s].todo = Refunded]
     \/ job' = [job EXCEPT ![s].step = "refunds"]
  /\ UNCHANGED <<platform, session, due, screenVars, order, server>>
-----------------------------------------------------------------------------
LastStep(s) == job[s].step = IF platform = "toss" /\ job[s].kind = "recover" THEN "refunds" ELSE "work"

(* The end of a chain.  handleRecovered, finishPurchase and failPurchase: a purchase ends the *)
(* one the button shows; what was granted is loaded.  On Google Play and in the App Store one *)
(* failure of a recovery hides the others' success.                                           *)
Updates(s) ==
  IF job[s].kind = "recover" /\ platform = "toss" THEN job[s].done
  ELSE ~ job[s].failed /\ (job[s].kind = "buy" \/ job[s].done)
FinishSilently(s) ==       \* mutant: failPurchase keeps purchasingSku
  /\ job[s].kind # "idle" /\ LastStep(s) /\ Settled(s)
  /\ job' = [job EXCEPT ![s] = Idle]
  /\ IF job[s].mine
       THEN /\ Updates(s) => Len(loads) < MaxLoads
            /\ loads' = IF Updates(s) THEN Refreshed ELSE loads
            /\ trouble' = (trouble \/ job[s].failed)
            /\ purchasing' = IF job[s].kind = "buy" /\ ~ job[s].failed THEN None ELSE purchasing
       ELSE UNCHANGED <<loads, trouble, purchasing>>
  /\ UNCHANGED <<platform, session, due, open, ready, balance, order, server>>
Finish(s) ==
  /\ job[s].kind # "idle" /\ LastStep(s) /\ Settled(s)
  /\ job' = [job EXCEPT ![s] = Idle]
  /\ IF job[s].mine
       THEN /\ Updates(s) => Len(loads) < MaxLoads
            /\ loads' = IF Updates(s) THEN Refreshed ELSE loads
            /\ trouble' = (trouble \/ job[s].failed)
            /\ purchasing' = IF job[s].kind = "buy" THEN None ELSE purchasing
       ELSE UNCHANGED <<loads, trouble, purchasing>>
  /\ UNCHANGED <<platform, session, due, open, ready, balance, order, server>>
(* The store or its history cannot be asked: recoveryInFlight is cleared all the same. *)
Fails(s) ==
  /\ job[s].kind = "recover"
  /\ job[s].step = "ask" \/ (platform = "toss" /\ job[s].step = "work" /\ Settled(s))
  /\ trouble' = (trouble \/ job[s].mine)
  /\ UNCHANGED <<platform, session, due, open, ready, purchasing, balance, loads, order, server>>
ThrowForGood(s) == Fails(s) /\ job' = [job EXCEPT ![s].step = "refunds", ![s].todo = {None}]   \* mutant: only a result clears it
Throw(s) == Fails(s) /\ job' = [job EXCEPT ![s] = Idle]

(* The stores and the server go on by themselves. *)
Outside ==
  /\ \E o \in Orders :
       \/ order[o].pay = "pending" /\ order' = [order EXCEPT ![o].pay = "paid"] /\ UNCHANGED <<trouble, server>>
       \/ order[o].pay = "paid" /\ ~ order[o].refunded
          /\ order' = [order EXCEPT ![o].refunded = TRUE] /\ UNCHANGED <<trouble, server>>
       \/ platform = "google" /\ server[o] # "none" /\ ~ order[o].told
          /\ order' = [order EXCEPT ![o].told = TRUE] /\ UNCHANGED <<trouble, server>>
       \/ order[o].refunded /\ server[o] = "granted"
          /\ server' = [server EXCEPT ![o] = "refunded"] /\ trouble' = TRUE /\ UNCHANGED order
  /\ UNCHANGED <<platform, session, due, open, ready, purchasing, balance, loads, job>>

Chain(s) ==
  \/ Pay(s) \/ NoSheet(s) \/ AskStore(s) \/ AskHistory(s) \/ Finish(s) \/ Throw(s)
  \/ \E o \in Orders : Grant(s, o) \/ Tell(s, o)
Loading == \E i \in DOMAIN loads : ReadLoad(i) \/ AnswerLoad(i) \/ FailLoad(i)
Screen ==
  \/ Retry \/ OpenStore \/ CloseStore \/ Restart \/ SessionRecovery
  \/ \E u \in Users : SwitchUser(u)
  \/ \E o \in Orders : Buy(o) \/ Observe(o)
Next ==
  \/ Screen \/ Loading \/ Outside
  \/ \E s \in Slots : Chain(s)
Spec == Init /\ [][Next]_vars
-----------------------------------------------------------------------------
(* The store is told that an order is done only when the server has granted it or taken it   *)
(* back: an order told too early is listed to no recovery any more (tossIap.ts, grantProduct, *)
(* useAppStoreCreditPurchase.ts, grantAndFinish).  And however many screens and sessions ask, *)
(* one recovery runs on Toss at a time.                                                       *)
ToldIsGranted == \A o \in Orders : order[o].told => server[o] # "none"
OneRecovery == platform = "toss" => Cardinality(Recovering) <= 1

(* The button that says a purchase is under way speaks of one that is: no cancelled, refused *)
(* or overtaken purchase leaves it disabled (useTossCreditPurchase.ts, failPurchase).        *)
PurchasingRuns == purchasing # None => Buying # {}

(* When nothing is under way, the credit store shows what the server has granted, unless it  *)
(* has shown an error or the server was changed by others (CreditStoreScreen.tsx, retry).    *)
BalanceShown ==
  open /\ ready /\ ~ trouble /\ loads = <<>> /\ Free = Slots => balance = server

(* What the credit store says is so, and what the stores are told is granted. *)
StoresTrue == ToldIsGranted /\ OneRecovery /\ PurchasingRuns /\ BalanceShown
-----------------------------------------------------------------------------
(* The store's screen is opened again and again, and its calls do not fail for ever.         *)
GrantsTo(o) == \E s \in Slots : Grant(s, o) /\ server'[o] # "none"
Lists(o) == \E s \in Slots : AskStore(s) /\ o \in job'[s].todo
Reads == \E i \in DOMAIN loads : ~ ready /\ ReadLoad(i)
Arrives == \E i \in DOMAIN loads : ~ ready /\ AnswerLoad(i)
Fairness ==
  /\ \A s \in Slots : WF_vars(Chain(s))
  /\ SF_vars(CloseStore) /\ WF_vars(OpenStore) /\ SF_vars(Reads) /\ SF_vars(Arrives)
  /\ \A o \in Orders : SF_vars(Lists(o)) /\ SF_vars(GrantsTo(o))
FairSpec == Spec /\ Fairness

(* "다시 들어오면 자동으로 복원해요" (tossIap.ts, tossIapErrorMessage): an order that was paid is  *)
(* granted in the end, or was refunded, whatever stopped its purchase, once its buyer stays.  *)
PaidIsGranted ==
  \A u \in Users, o \in Orders :
    <>[](session = u) =>
      (order[o].pay = "paid" /\ (platform = "toss" \/ order[o].buyer = u) ~> server[o] # "none")
=============================================================================
