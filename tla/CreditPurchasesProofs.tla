------------------------ MODULE CreditPurchasesProofs ------------------------
(***************************************************************************)
(* Proofs about CreditPurchases for any users, orders, handlers and        *)
(* stores.                                                                 *)
(***************************************************************************)
EXTENDS CreditPurchases, SumsProofs, SequenceTheorems, TLAPS

(* The row after a write: a column comes from the session if it was changed there. *)
Merged(old, seen, new) == [c \in DOMAIN new |-> IF new[c] # seen[c] THEN new[c] ELSE old[c]]
Pick(old, seen, new) == IF new # seen THEN new ELSE old

LEMMA RowOf ==
  ASSUME NEW r \in Row
  PROVE  /\ r.status \in {"none", "processing", "granted", "refunded", "failed", "review"}
         /\ r.user \in Users \cup {NoUser} /\ r.granted \in Nat /\ r.bonus \in Nat
         /\ r.chargeback \in Nat /\ r.consumed \in BOOLEAN
         /\ DOMAIN r = {"status", "user", "granted", "bonus", "chargeback", "consumed"}
BY DEF Row

LEMMA MergedRow ==
  ASSUME NEW old \in Row, NEW seen \in Row, NEW new \in Row
  PROVE  /\ Merged(old, seen, new) \in Row
         /\ Merged(old, seen, new).status = Pick(old.status, seen.status, new.status)
         /\ Merged(old, seen, new).user = Pick(old.user, seen.user, new.user)
         /\ Merged(old, seen, new).granted = Pick(old.granted, seen.granted, new.granted)
         /\ Merged(old, seen, new).bonus = Pick(old.bonus, seen.bonus, new.bonus)
         /\ Merged(old, seen, new).chargeback = Pick(old.chargeback, seen.chargeback, new.chargeback)
BY DEF Row, Merged, Pick

LEMMA Written ==
  ASSUME row \in [Orders -> Row], NEW o \in Orders, NEW seen \in Row, NEW new \in Row, Write(o, seen, new)
  PROVE  /\ row' \in [Orders -> Row]
         /\ \A q \in Orders \ {o} : row'[q] = row[q]
         /\ row'[o] = IF row[o].status = "none" THEN new ELSE Merged(row[o], seen, new)
BY MergedRow DEF Write, Merged

-----------------------------------------------------------------------------
(* Handlers keep their type. *)
LEMMA IdleTyped == Idle \in Handler /\ NoRow \in Row
BY PurchaseAssumption DEF Idle, Handler, NoRow, Row, OrderStatuses, Orders

(* A step after which no other handler waits to apply what it fetched. *)
NoneFetches == \A k \in Handlers : handler'[k].step = "fetched" => handler'[k] = handler[k]
HandlersTyped ==
  handler' \in [Handlers -> Handler] /\ handled' \in [Orders -> SUBSET (1..MaxEvents)]

LEMMA GoesTyped ==
  ASSUME TypeOK, NEW h \in Handlers, NEW record \in Handler, Goes(h, record)
  PROVE  handler' \in [Handlers -> Handler] /\ (record.step # "fetched" => NoneFetches)
BY DEF TypeOK, Goes, NoneFetches

LEMMA DoneTyped ==
  ASSUME TypeOK, NEW h \in Handlers, Done(h)
  PROVE  HandlersTyped /\ NoneFetches
<1>1. handler' \in [Handlers -> Handler] /\ NoneFetches
  BY IdleTyped, GoesTyped DEF Done, Idle
<1>2. handler[h].order \in Orders /\ handler[h].notice \in 0..MaxEvents
  BY DEF TypeOK, Handler
<1>3. handled' \in [Orders -> SUBSET (1..MaxEvents)]
  BY <1>2, PurchaseAssumption DEF TypeOK, Done
<1> QED
  BY <1>1, <1>3 DEF HandlersTyped

LEMMA FailsTyped ==
  ASSUME TypeOK, NEW h \in Handlers, Fails(h)
  PROVE  HandlersTyped /\ NoneFetches
BY IdleTyped, GoesTyped DEF Fails, TypeOK, HandlersTyped, Idle

LEMMA GrantedTyped ==
  ASSUME TypeOK, NEW h \in Handlers, Granted(h)
  PROVE  HandlersTyped /\ NoneFetches
<1> DEFINE record == [handler[h] EXCEPT !.step = "consume", !.seen = NoRow]
<1>1. record \in Handler /\ record.step # "fetched"
  BY IdleTyped DEF TypeOK, Handler
<1>2. CASE Provider[handler[h].order] = "google"
  <2>1. Goes(h, record) /\ handled' = handled
    BY <1>2 DEF Granted
  <2> HIDE DEF record
  <2> QED
    BY <1>1, <2>1, GoesTyped DEF HandlersTyped, TypeOK
<1>3. CASE Provider[handler[h].order] # "google"
  BY <1>3, DoneTyped DEF Granted
<1> QED
  BY <1>2, <1>3

-----------------------------------------------------------------------------
(* Amounts. *)
LEMMA Floors == ASSUME NEW n \in Int PROVE Floor0(n) \in Nat
BY DEF Floor0
LEMMA Leasts ==
  ASSUME NEW m \in Nat, NEW n \in Nat PROVE Least2(m, n) \in Nat /\ Least2(m, n) <= m /\ Least2(m, n) <= n
BY DEF Least2
LEMMA BonusTyped == ASSUME NEW o \in Orders, NEW u \in Users PROVE FirstBonus(o, u) \in Nat
<1>1. Credits[o] \in Nat
  BY PurchaseAssumption
<1> QED
  BY <1>1 DEF FirstBonus, FIRST_PURCHASE_BONUS_PERCENT

LEMMA GivesTyped ==
  ASSUME TypeOK, NEW u \in Users, NEW amount \in Nat, Gives(u, amount)
  PROVE  purchased' \in [Users -> Nat] /\ debt' \in [Users -> Nat]
<1>1. Least2(debt[u], amount) \in Nat /\ Least2(debt[u], amount) <= debt[u] /\ Least2(debt[u], amount) <= amount
  BY Leasts DEF TypeOK
<1>2. debt' = [debt EXCEPT ![u] = debt[u] - Least2(debt[u], amount)]
      /\ purchased' = [purchased EXCEPT ![u] = purchased[u] + amount - Least2(debt[u], amount)]
  BY DEF Gives, TypeOK
<1> QED
  BY <1>1, <1>2 DEF TypeOK

LEMMA TakesTyped ==
  ASSUME TypeOK, NEW u \in Users, NEW amount \in Nat, Takes(u, amount)
  PROVE  purchased' \in [Users -> Nat] /\ debt' \in [Users -> Nat]
<1>1. Least2(purchased[u], amount) \in Nat /\ Least2(purchased[u], amount) <= purchased[u]
      /\ Least2(purchased[u], amount) <= amount
  BY Leasts DEF TypeOK
<1>2. purchased' = [purchased EXCEPT ![u] = purchased[u] - Least2(purchased[u], amount)]
      /\ debt' = [debt EXCEPT ![u] = debt[u] + amount - Least2(purchased[u], amount)]
  BY DEF Takes, TypeOK
<1> QED
  BY <1>1, <1>2 DEF TypeOK

-----------------------------------------------------------------------------
(* What a handler fetched for is a user's request. *)
FetchedBy == \A h \in Handlers : handler[h].step = "fetched" => handler[h].user \in Users
TypeInv == TypeOK /\ FetchedBy

LEMMA FetchedByStays == ASSUME TypeInv, NoneFetches PROVE FetchedBy'
BY DEF TypeInv, FetchedBy, NoneFetches

LEMMA RolledBackTyped == ASSUME TypeInv, NEW h \in Handlers, RolledBack(h) PROVE TypeInv'
<1>1. HandlersTyped /\ FetchedBy'
  BY FailsTyped, FetchedByStays DEF RolledBack, TypeInv
<1> QED
  BY <1>1 DEF RolledBack, TypeInv, TypeOK, HandlersTyped, accountVars

LEMMA UntouchedTyped == ASSUME TypeInv, NEW h \in Handlers, Untouched(h) PROVE TypeInv'
<1>1. HandlersTyped /\ FetchedBy'
  BY DoneTyped, FetchedByStays DEF Untouched, TypeInv
<1> QED
  BY <1>1 DEF Untouched, TypeInv, TypeOK, HandlersTyped, accountVars

LEMMA BecomesTyped ==
  ASSUME TypeInv, NEW h \in Handlers, NEW o \in Orders, NEW seen \in Row,
         NEW status \in {"processing", "failed", "review"}, Becomes(o, seen, status), Done(h) \/ Fails(h)
  PROVE  TypeInv'
<1>1. HandlersTyped /\ FetchedBy'
  BY DoneTyped, FailsTyped, FetchedByStays DEF TypeInv
<1>2. [seen EXCEPT !.status = status] \in Row
  BY DEF Row
<1>3. row' \in [Orders -> Row]
  BY <1>2, Written DEF Becomes, TypeInv, TypeOK
<1> QED
  BY <1>1, <1>3 DEF Becomes, TypeInv, TypeOK, HandlersTyped, accountVars

LEMMA EntryAdded ==
  ASSUME entries \in [Orders -> Entries], NEW o \in Orders, NEW amount \in Nat
  PROVE  /\ [entries EXCEPT ![o].purchase = @ + amount] \in [Orders -> Entries]
         /\ [entries EXCEPT ![o].chargeback = @ + amount] \in [Orders -> Entries]
         /\ [entries EXCEPT ![o].reversal = @ + amount] \in [Orders -> Entries]
<1>1. entries[o] \in Entries
  OBVIOUS
<1>2. [entries[o] EXCEPT !.purchase = @ + amount] \in Entries
      /\ [entries[o] EXCEPT !.chargeback = @ + amount] \in Entries
      /\ [entries[o] EXCEPT !.reversal = @ + amount] \in Entries
  BY <1>1 DEF Entries
<1> QED
  BY <1>2

LEMMA GrantTyped ==
  ASSUME TypeInv, NEW h \in Handlers, NEW o \in Orders, NEW seen \in Row, NEW u \in Users,
         Grant(h, o, seen, u)
  PROVE  TypeInv'
<1> DEFINE bonus == FirstBonus(o, u)
           total == Credits[o] + bonus
           new == [seen EXCEPT !.status = "granted", !.granted = total, !.bonus = bonus]
<1>1. bonus \in Nat /\ total \in Nat
  BY BonusTyped, PurchaseAssumption
<1>2. new \in Row
  <2> HIDE DEF bonus, total
  <2> QED
    BY <1>1 DEF Row
<1>3. CASE RolledBack(h)
  BY <1>3, RolledBackTyped
<1>4. CASE ~ Taken(o, "purchase")
  <2>1. /\ Gives(u, total) /\ Write(o, seen, new) /\ Granted(h)
        /\ entries' = [entries EXCEPT ![o].purchase = @ + total]
        /\ rewarded' = IF bonus > 0 THEN rewarded \cup {u} ELSE rewarded
        /\ UNCHANGED <<history, consumed, person, spent>>
    BY <1>4, Zenon DEF Grant
  <2> HIDE DEF bonus, total, new
  <2>2. purchased' \in [Users -> Nat] /\ debt' \in [Users -> Nat]
    BY <1>1, <2>1, GivesTyped DEF TypeInv
  <2>3. row' \in [Orders -> Row]
    BY <1>2, <2>1, Written DEF TypeInv, TypeOK
  <2>4. HandlersTyped /\ FetchedBy'
    BY <2>1, GrantedTyped, FetchedByStays DEF TypeInv
  <2>5. entries' \in [Orders -> Entries]
    BY <1>1, <2>1, EntryAdded DEF TypeInv, TypeOK
  <2>6. rewarded' \subseteq Users
    BY <2>1 DEF TypeInv, TypeOK
  <2> QED
    BY <2>1, <2>2, <2>3, <2>4, <2>5, <2>6 DEF TypeInv, TypeOK, HandlersTyped
<1> QED
  BY <1>3, <1>4 DEF Grant

LEMMA RefundTyped ==
  ASSUME TypeInv, NEW h \in Handlers, NEW o \in Orders, NEW seen \in Row, Refund(h, o, seen)
  PROVE  TypeInv'
<1> DEFINE back == ToTakeBack(seen)
           paid == seen.user # NoUser /\ back > 0
           charged == seen.chargeback + back
           new == [seen EXCEPT !.status = "refunded", !.chargeback = charged]
<1>1. back \in Nat /\ charged \in Nat /\ seen.user \in Users \cup {NoUser}
  BY RowOf, Floors DEF ToTakeBack
<1>2. new \in Row
  <2> HIDE DEF charged
  <2> QED
    BY <1>1 DEF Row
<1>3. CASE Untouched(h) \/ RolledBack(h)
  BY <1>3, UntouchedTyped, RolledBackTyped
<1>4. CASE ~ (Untouched(h) \/ RolledBack(h))
  <2>1. /\ Write(o, seen, new) /\ Done(h)
        /\ IF paid THEN Takes(seen.user, back) /\ entries' = [entries EXCEPT ![o].chargeback = @ + back]
           ELSE UNCHANGED <<purchased, debt, entries>>
        /\ UNCHANGED <<history, consumed, person, spent, rewarded>>
    BY <1>4, RowOf, Zenon DEF Refund
  <2> HIDE DEF back, new, paid
  <2>2. purchased' \in [Users -> Nat] /\ debt' \in [Users -> Nat] /\ entries' \in [Orders -> Entries]
    <3>1. CASE paid
      <4>1. seen.user \in Users
        BY <1>1, <3>1 DEF paid
      <4>2. purchased' \in [Users -> Nat] /\ debt' \in [Users -> Nat]
        BY <1>1, <2>1, <3>1, <4>1, TakesTyped DEF TypeInv
      <4>3. entries' = [entries EXCEPT ![o].chargeback = @ + back]
        BY <2>1, <3>1
      <4>4. entries' \in [Orders -> Entries]
        BY <1>1, <4>3, EntryAdded, Zenon DEF TypeInv, TypeOK
      <4> QED
        BY <4>2, <4>4
    <3>2. CASE ~ paid
      BY <2>1, <3>2 DEF TypeInv, TypeOK
    <3> QED
      BY <3>1, <3>2
  <2>3. row' \in [Orders -> Row]
    BY <1>2, <2>1, Written DEF TypeInv, TypeOK
  <2>4. HandlersTyped /\ FetchedBy'
    BY <2>1, DoneTyped, FetchedByStays DEF TypeInv
  <2> QED
    BY <2>1, <2>2, <2>3, <2>4 DEF TypeInv, TypeOK, HandlersTyped
<1> QED
  BY <1>3, <1>4

LEMMA RestoreTyped ==
  ASSUME TypeInv, NEW h \in Handlers, NEW o \in Orders, NEW seen \in Row, Restore(h, o, seen)
  PROVE  TypeInv'
<1> DEFINE again == seen.chargeback
           paid == seen.user # NoUser /\ again > 0
           new == [seen EXCEPT !.status = "granted", !.chargeback = 0]
<1>1. again \in Nat /\ seen.user \in Users \cup {NoUser}
  BY RowOf
<1>2. new \in Row
  BY DEF Row
<1>3. CASE Untouched(h) \/ RolledBack(h)
  BY <1>3, UntouchedTyped, RolledBackTyped
<1>4. CASE Becomes(o, seen, "review") /\ Fails(h)
  BY <1>4, BecomesTyped
<1>5. CASE ~ (Untouched(h) \/ RolledBack(h)) /\ ~ (Becomes(o, seen, "review") /\ Fails(h))
  <2>1. /\ Write(o, seen, new) /\ Done(h)
        /\ IF paid THEN Gives(seen.user, again) /\ entries' = [entries EXCEPT ![o].reversal = @ + again]
           ELSE UNCHANGED <<purchased, debt, entries>>
        /\ UNCHANGED <<history, consumed, person, spent, rewarded>>
    BY <1>5, Zenon DEF Restore
  <2> HIDE DEF again, new, paid
  <2>2. purchased' \in [Users -> Nat] /\ debt' \in [Users -> Nat] /\ entries' \in [Orders -> Entries]
    <3>1. CASE paid
      <4>1. seen.user \in Users
        BY <1>1, <3>1 DEF paid
      <4>2. purchased' \in [Users -> Nat] /\ debt' \in [Users -> Nat]
        BY <1>1, <2>1, <3>1, <4>1, GivesTyped DEF TypeInv
      <4>3. entries' = [entries EXCEPT ![o].reversal = @ + again]
        BY <2>1, <3>1
      <4>4. entries' \in [Orders -> Entries]
        BY <1>1, <4>3, EntryAdded, Zenon DEF TypeInv, TypeOK
      <4> QED
        BY <4>2, <4>4
    <3>2. CASE ~ paid
      BY <2>1, <3>2 DEF TypeInv, TypeOK
    <3> QED
      BY <3>1, <3>2
  <2>3. row' \in [Orders -> Row]
    BY <1>2, <2>1, Written DEF TypeInv, TypeOK
  <2>4. HandlersTyped /\ FetchedBy'
    BY <2>1, DoneTyped, FetchedByStays DEF TypeInv
  <2> QED
    BY <2>1, <2>2, <2>3, <2>4 DEF TypeInv, TypeOK, HandlersTyped
<1> QED
  BY <1>3, <1>4, <1>5

-----------------------------------------------------------------------------
(* The steps of handlers. *)
LEMMA StatusTyped == ASSUME NEW store, NEW state PROVE StatusOf(store, state) \in OrderStatuses
BY DEF StatusOf, OrderStatuses

LEMMA StartsTyped ==
  ASSUME TypeInv, NEW h \in Handlers, NEW step \in {"fetched", "read"}, NEW u \in Users \cup {NoUser},
         NEW o \in Orders, NEW status \in OrderStatuses, NEW notice \in 0..MaxEvents, NEW seen \in Row,
         step = "fetched" => u \in Users,
         Starts(h, step, u, o, status, notice, seen), UNCHANGED handled
  PROVE  TypeInv'
<1> DEFINE record == [step |-> step, user |-> u, order |-> o, status |-> status, notice |-> notice,
                      seen |-> seen]
<1>1. record \in Handler
  BY DEF Handler
<1>2. handler' = [handler EXCEPT ![h] = record] /\ record.step = step /\ record.user = u
  BY DEF Starts, Goes
<1> HIDE DEF record
<1>3. handler' \in [Handlers -> Handler] /\ FetchedBy'
  BY <1>1, <1>2 DEF TypeInv, TypeOK, FetchedBy
<1> QED
  BY <1>3 DEF Starts, TypeInv, TypeOK, accountVars

LEMMA IgnoredTyped ==
  ASSUME TypeInv, NEW h \in Handlers, NEW o \in Orders, NEW i \in 1..MaxEvents, NoticeIgnored(h, o, i)
  PROVE  TypeInv'
BY DEF NoticeIgnored, TypeInv, TypeOK, FetchedBy, accountVars

LEMMA StartTyped == ASSUME TypeInv, NEW h \in Handlers, Start(h) PROVE TypeInv'
<1> PICK o \in Orders :
      \/ \E u \in Users : ClientGrant(h, u, o)
      \/ \E i \in 1..MaxEvents : PurchaseNotice(h, o, i) \/ RefundNotice(h, o, i)
      \/ Poll(h, o)
  BY DEF Start
<1>1. 0 \in 0..MaxEvents /\ \A i \in 1..MaxEvents : i \in 0..MaxEvents
  BY PurchaseAssumption
<1>2. row[o] \in Row /\ Owner(o) \subseteq Users /\ {"REFUNDED", "REFUND_REVERSED"} \subseteq OrderStatuses
  BY DEF TypeInv, TypeOK, Owner, OrderStatuses
<1>3. ASSUME NEW u \in Users, ClientGrant(h, u, o) PROVE TypeInv'
  BY <1>1, <1>3, IdleTyped, StatusTyped, StartsTyped DEF ClientGrant
<1>4. ASSUME NEW i \in 1..MaxEvents, PurchaseNotice(h, o, i) PROVE TypeInv'
  BY <1>1, <1>2, <1>4, IdleTyped, StatusTyped, StartsTyped, IgnoredTyped DEF PurchaseNotice
<1>5. ASSUME NEW i \in 1..MaxEvents, RefundNotice(h, o, i) PROVE TypeInv'
  BY <1>1, <1>2, <1>5, StartsTyped, IgnoredTyped DEF RefundNotice
<1>6. CASE Poll(h, o)
  BY <1>1, <1>6, IdleTyped, StatusTyped, StartsTyped DEF Poll
<1> QED
  BY <1>3, <1>4, <1>5, <1>6

LEMMA HandlerOf ==
  ASSUME TypeInv, NEW h \in Handlers
  PROVE  /\ handler[h] \in Handler /\ handler[h].order \in Orders /\ handler[h].seen \in Row
         /\ handler[h].user \in Users \cup {NoUser} /\ handler[h].status \in OrderStatuses
         /\ handler[h].notice \in 0..MaxEvents
BY DEF TypeInv, TypeOK, Handler

LEMMA ApplyTyped == ASSUME TypeInv, NEW h \in Handlers, Apply(h) PROVE TypeInv'
<1> DEFINE o == handler[h].order
           u == handler[h].user
           seen == IF row[o].status = "none" THEN Inserted(u) ELSE row[o]
<1>1. o \in Orders /\ u \in Users
  BY HandlerOf DEF Apply, TypeInv, FetchedBy
<1>2. seen \in Row
  BY <1>1 DEF Inserted, NoRow, Row, TypeInv, TypeOK
<1>3. \/ RolledBack(h)
      \/ Refund(h, o, seen)
      \/ Granted(h) /\ UNCHANGED <<history, consumed, row, entries, accountVars>>
      \/ Becomes(o, seen, "review") /\ Fails(h)
      \/ Becomes(o, seen, "failed") /\ NotPaid(h)
      \/ Becomes(o, seen, "processing") /\ NotPaid(h)
      \/ Grant(h, o, seen, u)
  BY Zenon DEF Apply
<1> HIDE DEF o, u, seen
<1>4. CASE Granted(h) /\ UNCHANGED <<history, consumed, row, entries, accountVars>>
  <2>1. HandlersTyped /\ FetchedBy'
    BY <1>4, GrantedTyped, FetchedByStays DEF TypeInv
  <2> QED
    BY <1>4, <2>1 DEF TypeInv, TypeOK, HandlersTyped, accountVars
<1> QED
  BY <1>1, <1>2, <1>3, <1>4, RolledBackTyped, RefundTyped, BecomesTyped, GrantTyped DEF NotPaid

LEMMA ReadTyped == ASSUME TypeInv, NEW h \in Handlers, ReadPurchase(h) PROVE TypeInv'
<1> DEFINE record == [handler[h] EXCEPT !.step = "read", !.seen = row[handler[h].order]]
<1>1. record \in Handler /\ record.step # "fetched"
  <2>1. row[handler[h].order] \in Row
    BY HandlerOf DEF TypeInv, TypeOK
  <2> QED
    BY <2>1, HandlerOf DEF Handler
<1>2. CASE Untouched(h)
  BY <1>2, UntouchedTyped
<1>3. CASE ~ Untouched(h)
  <2>1. Goes(h, record) /\ UNCHANGED <<history, handled, consumed, row, entries, accountVars>>
    BY <1>3, Zenon DEF ReadPurchase
  <2> HIDE DEF record
  <2>2. handler' \in [Handlers -> Handler] /\ FetchedBy'
    BY <1>1, <2>1, GoesTyped, FetchedByStays DEF TypeInv
  <2> QED
    BY <2>1, <2>2 DEF TypeInv, TypeOK, accountVars
<1> QED
  BY <1>2, <1>3

LEMMA ReconcileTyped == ASSUME TypeInv, NEW h \in Handlers, Reconcile(h) PROVE TypeInv'
<1> DEFINE o == handler[h].order
           seen == IF handler[h].seen = NoRow THEN row[o] ELSE handler[h].seen
<1>1. o \in Orders
  BY HandlerOf
<1>2. seen \in Row
  BY <1>1, HandlerOf DEF TypeInv, TypeOK
<1>3. \/ Refund(h, o, seen)
      \/ Restore(h, o, seen)
      \/ seen.user # NoUser /\ Grant(h, o, seen, seen.user)
      \/ Becomes(o, seen, "review") /\ Done(h)
      \/ Becomes(o, seen, "failed") /\ Done(h)
      \/ Untouched(h)
  BY Zenon DEF Reconcile
<1> HIDE DEF o, seen
<1>4. seen.user # NoUser => seen.user \in Users
  BY <1>2, RowOf
<1> QED
  BY <1>1, <1>2, <1>3, <1>4, UntouchedTyped, RefundTyped, RestoreTyped, BecomesTyped, GrantTyped

LEMMA ConsumeTyped == ASSUME TypeInv, NEW h \in Handlers, Consume(h) PROVE TypeInv'
<1> DEFINE record == [handler[h] EXCEPT !.step = "mark"]
<1>1. record \in Handler /\ record.step # "fetched" /\ handler[h].order \in Orders
  BY HandlerOf DEF Handler
<1>2. HandlersTyped /\ NoneFetches
  <2>1. CASE Done(h) \/ Fails(h)
    BY <2>1, DoneTyped, FailsTyped DEF TypeInv
  <2>2. CASE ~ (Done(h) \/ Fails(h))
    <3>1. Goes(h, record) /\ handled' = handled
      BY <2>2, Zenon DEF Consume
    <3> HIDE DEF record
    <3> QED
      BY <1>1, <3>1, GoesTyped DEF HandlersTyped, TypeInv, TypeOK
  <2> QED
    BY <2>1, <2>2
<1>3. consumed' \subseteq Orders
  BY <1>1 DEF Consume, TypeInv, TypeOK
<1> QED
  BY <1>2, <1>3, FetchedByStays DEF Consume, TypeInv, TypeOK, HandlersTyped, accountVars

LEMMA MarkTyped == ASSUME TypeInv, NEW h \in Handlers, Mark(h) PROVE TypeInv'
<1>1. HandlersTyped /\ FetchedBy' /\ handler[h].order \in Orders
  BY DoneTyped, FetchedByStays, HandlerOf DEF Mark, TypeInv
<1>2. \A o \in Orders : [row[o] EXCEPT !.consumed = TRUE] \in Row
  BY DEF TypeInv, TypeOK, Row
<1>3. row' \in [Orders -> Row]
  BY <1>1, <1>2 DEF Mark, TypeInv, TypeOK
<1> QED
  BY <1>1, <1>3 DEF Mark, TypeInv, TypeOK, HandlersTyped, accountVars

LEMMA StoreTyped ==
  ASSUME TypeInv, NEW o \in Orders, NEW state \in StoreStates, StoreChanges(o, state)
  PROVE  TypeInv'
<1> PICK n \in 0..MaxEvents : history[o] \in [1..n -> StoreStates]
  BY DEF TypeInv, TypeOK
<1>1. n \in Nat /\ Len(history[o]) = n /\ history[o] \in Seq(StoreStates)
  BY PurchaseAssumption
<1>2. n + 1 \in 0..MaxEvents
  BY <1>1, PurchaseAssumption DEF StoreChanges
<1>3. Append(history[o], state) \in [1..(n + 1) -> StoreStates]
  <2>1. Append(history[o], state) \in Seq(StoreStates) /\ Len(Append(history[o], state)) = n + 1
    BY <1>1, AppendProperties
  <2> QED
    BY <1>1, <2>1, LenProperties
<1>4. history' \in [Orders -> UNION {[1..m -> StoreStates] : m \in 0..MaxEvents}]
  BY <1>2, <1>3 DEF StoreChanges, TypeInv, TypeOK
<1> QED
  BY <1>4 DEF StoreChanges, TypeInv, TypeOK, FetchedBy, accountVars

LEMMA AccountsTyped ==
  ASSUME TypeInv, NEW u \in Users,
         (\E price \in Prices : Spend(u, price) \/ GiveBack(u, price)) \/ Purge(u) \/ Register(u)
  PROVE  TypeInv'
<1> USE DEF TypeInv, TypeOK, FetchedBy
<1>1. ASSUME NEW price \in Prices, Spend(u, price) \/ GiveBack(u, price) PROVE TypeInv'
  <2>1. price \in Nat
    BY PurchaseAssumption
  <2>2. CASE Spend(u, price)
    <3>1. purchased[u] - price \in Nat /\ spent[u] + price \in Nat
      BY <2>1, <2>2 DEF Spend
    <3> QED
      BY <2>2, <3>1 DEF Spend
  <2>3. CASE GiveBack(u, price)
    <3>1. purchased[u] + price \in Nat /\ spent[u] - price \in Nat
      BY <2>1, <2>3 DEF GiveBack
    <3> QED
      BY <2>3, <3>1 DEF GiveBack
  <2> QED
    BY <1>1, <2>2, <2>3
<1>2. CASE Purge(u)
  <2>1. \A o \in Orders : [row[o] EXCEPT !.user = NoUser] \in Row /\ NoEntries \in Entries
    BY DEF Row, Entries, NoEntries
  <2>2. row' \in [Orders -> Row] /\ entries' \in [Orders -> Entries]
    BY <1>2, <2>1 DEF Purge
  <2> QED
    BY <1>2, <2>2 DEF Purge
<1>3. CASE Register(u)
  BY <1>3 DEF Register
<1> QED
  BY <1>1, <1>2, <1>3

LEMMA TypeInvHolds == Spec => []TypeInv
<1>1. ASSUME Init PROVE TypeInv
  <2>1. <<>> \in [1..0 -> StoreStates] /\ 0 \in 0..MaxEvents
    BY PurchaseAssumption
  <2>2. history \in [Orders -> UNION {[1..n -> StoreStates] : n \in 0..MaxEvents}]
    BY <1>1, <2>1 DEF Init
  <2>3. handler \in [Handlers -> Handler] /\ row \in [Orders -> Row] /\ entries \in [Orders -> Entries]
    BY <1>1, IdleTyped DEF Init, Entries, NoEntries
  <2>4. FetchedBy
    BY <1>1 DEF Init, FetchedBy, Idle
  <2> QED
    BY <1>1, <2>2, <2>3, <2>4 DEF Init, TypeInv, TypeOK
<1>2. TypeInv /\ [Next]_vars => TypeInv'
  <2> SUFFICES ASSUME TypeInv, [Next]_vars PROVE TypeInv'
    OBVIOUS
  <2>1. ASSUME NEW h \in Handlers, Proceed(h) PROVE TypeInv'
    BY <2>1, ApplyTyped, ReadTyped, ReconcileTyped, ConsumeTyped, MarkTyped DEF Proceed
  <2>2. ASSUME NEW h \in Handlers, Lose(h) PROVE TypeInv'
    BY <2>2, RolledBackTyped DEF Lose
  <2>3. CASE UNCHANGED vars
    BY <2>3 DEF vars, accountVars, TypeInv, TypeOK, FetchedBy
  <2> QED
    BY <2>1, <2>2, <2>3, StoreTyped, StartTyped, AccountsTyped DEF Next
<1> QED
  BY <1>1, <1>2, PTL DEF Spec

(* Balances, debts, what calls hold and every purchase's amounts stay natural numbers: neither a *)
(* refund of spent credits nor a purge leaves a balance below zero.                               *)
THEOREM TypeCorrect == Spec => []TypeOK
BY TypeInvHolds, PTL DEF TypeInv

-----------------------------------------------------------------------------
(* What the stores say: only the App Store takes a refund back. *)
Reversals ==
  /\ \A o \in Orders : \A i \in 1..Len(history[o]) : history[o][i] = "restored" => Provider[o] = "apple"
  /\ \A h \in Handlers : handler[h].status = "REFUND_REVERSED" => Provider[handler[h].order] = "apple"

(* The bonus of a first purchase.  Handlers may write a row they read long ago; what they read   *)
(* of it was granted only if it still is, because no step takes back the column.                  *)
NoneReads == \A k \in Handlers : handler'[k].step = "read" => handler'[k] = handler[k]
Known(o, seen) ==
  IF row[o].status = "none" THEN seen.granted = 0 /\ seen.bonus = 0
  ELSE seen.granted > 0 => row[o].granted > 0
EmptyRows ==
  \A o \in Orders :
    row[o].status = "none" => row[o].granted = 0 /\ row[o].bonus = 0 /\ row[o].user = NoUser
BonusIsGranted == \A o \in Orders : row[o].bonus > 0 => row[o].granted > 0
ReadersKnow ==
  \A h \in Handlers :
    handler[h].step = "read" => row[handler[h].order].status # "none" /\ Known(handler[h].order, handler[h].seen)
BonusInv == EmptyRows /\ BonusIsGranted /\ ReadersKnow /\ FirstBonusOnce

(* What a transaction does to the row of an order. *)
RowStep(o) ==
  /\ row' \in [Orders -> Row] /\ \A q \in Orders \ {o} : row'[q] = row[q]
  /\ row'[o].status # "none"
  /\ row[o].granted > 0 => row'[o].granted > 0
  /\ row'[o].bonus > 0 => row'[o].granted > 0 /\ (row[o].bonus > 0 \/ ~ PriorGrant(o))
  /\ row'[o].status = "granted" => row[o].status = "granted" \/ row'[o].granted > 0 \/ Provider[o] = "apple"

(* What was granted stays granted, and outside the App Store the status says so. *)
GrantsStay ==
  \A q \in Orders :
    /\ row[q].granted > 0 => row'[q].granted > 0
    /\ row'[q].status = "granted" => row[q].status = "granted" \/ row'[q].granted > 0 \/ Provider[q] = "apple"

LEMMA BonusKept ==
  ASSUME TypeInv, BonusInv, NEW o \in Orders, RowStep(o), NoneReads
  PROVE  BonusInv' /\ GrantsStay
<1> USE DEF BonusInv, RowStep
<1>1. EmptyRows' /\ BonusIsGranted'
  BY DEF EmptyRows, BonusIsGranted
<1>2. ASSUME NEW q \in Orders \ {o}, OrderSubject[q] = OrderSubject[o], row'[q].bonus > 0, row'[o].bonus > 0
      PROVE  FALSE
  <2>1. row[q].bonus > 0 /\ row[q].granted > 0
    BY <1>2 DEF BonusIsGranted
  <2>2. PriorGrant(o)
    BY <1>2, <2>1 DEF PriorGrant
  <2>3. row[o].bonus > 0
    BY <1>2, <2>2
  <2> QED
    BY <1>2, <2>1, <2>3 DEF FirstBonusOnce
<1>3. FirstBonusOnce'
  BY <1>2 DEF FirstBonusOnce
<1>4. \A q \in Orders : (row[q].granted > 0 => row'[q].granted > 0) /\ (row[q].status # "none" => row'[q].status # "none")
  OBVIOUS
<1>5. ReadersKnow'
  BY <1>4, HandlerOf DEF NoneReads, ReadersKnow, Known
<1>6. GrantsStay
  BY DEF GrantsStay
<1> QED
  BY <1>1, <1>3, <1>5, <1>6

LEMMA BonusUntouched == ASSUME TypeInv, BonusInv, row' = row, NoneReads PROVE BonusInv' /\ GrantsStay
<1>1. BonusInv'
  BY HandlerOf DEF BonusInv, EmptyRows, BonusIsGranted, ReadersKnow, FirstBonusOnce, Known, NoneReads
<1> QED
  BY <1>1 DEF GrantsStay

LEMMA EndsRead ==
  ASSUME TypeInv, NEW h \in Handlers, Done(h) \/ Fails(h) \/ Granted(h)
  PROVE  NoneReads
<1> DEFINE record == [handler[h] EXCEPT !.step = "consume", !.seen = NoRow]
<1>1. record.step = "consume" /\ Idle.step = "idle"
  BY DEF TypeInv, TypeOK, Handler, Idle
<1>2. Goes(h, Idle) \/ Goes(h, record)
  BY DEF Done, Fails, Granted
<1> HIDE DEF record
<1> QED
  BY <1>1, <1>2 DEF Goes, NoneReads, TypeInv, TypeOK

(* A write that grants nothing, and one that does. *)
LEMMA ColumnsKept ==
  ASSUME TypeInv, BonusInv, NEW o \in Orders, NEW seen \in Row, Known(o, seen), NEW new \in Row,
         new.granted = seen.granted, new.bonus = seen.bonus, new.status # "none", Write(o, seen, new),
         new.status = "granted" => Provider[o] = "apple"
  PROVE  RowStep(o)
<1>1. row[o] \in Row
  BY DEF TypeInv, TypeOK
<1>2. /\ row'[o].granted = row[o].granted /\ row'[o].bonus = row[o].bonus /\ row'[o].status # "none"
      /\ row'[o].status \in {row[o].status, new.status}
  BY <1>1, Written, MergedRow DEF TypeInv, TypeOK, Pick, Known, BonusInv, EmptyRows
<1> QED
  BY <1>2, Written DEF RowStep, TypeInv, TypeOK, BonusInv, BonusIsGranted

LEMMA GrantRow ==
  ASSUME TypeInv, BonusInv, NEW h \in Handlers, NEW o \in Orders, NEW seen \in Row, NEW u \in Users,
         Known(o, seen), Grant(h, o, seen, u)
  PROVE  BonusInv' /\ GrantsStay /\ (Fails(h) \/ (Granted(h) /\ row'[o].granted > 0))
<1> DEFINE bonus == FirstBonus(o, u)
           total == Credits[o] + bonus
           new == [seen EXCEPT !.status = "granted", !.granted = total, !.bonus = bonus]
<1>1. bonus \in Nat /\ total \in Nat /\ total > 0 /\ (bonus > 0 => ~ PriorGrant(o))
  <2>1. bonus \in Nat /\ Credits[o] \in Nat \ {0}
    BY BonusTyped, PurchaseAssumption
  <2>2. bonus > 0 => ~ PriorGrant(o)
    BY DEF FirstBonus
  <2> QED
    BY <2>1, <2>2
<1>2. CASE RolledBack(h)
  BY <1>2, EndsRead, BonusUntouched DEF RolledBack
<1>3. CASE ~ RolledBack(h)
  <2>1. Write(o, seen, new) /\ Granted(h)
    BY <1>3, Zenon DEF Grant
  <2>2. new \in Row /\ new.granted = total /\ new.bonus = bonus /\ new.status = "granted"
    <3> HIDE DEF bonus, total
    <3> QED
      BY <1>1 DEF Row
  <2> HIDE DEF bonus, total, new
  <2>3. row[o] \in Row
    BY DEF TypeInv, TypeOK
  <2>4. row'[o].status # "none" /\ row'[o].granted > 0 /\ (row'[o].bonus = row[o].bonus \/ row'[o].bonus = bonus)
    <3>1. CASE row[o].status = "none"
      BY <1>1, <2>1, <2>2, <3>1, Written DEF TypeInv, TypeOK
    <3>2. CASE row[o].status # "none"
      <4>1. row'[o] = Merged(row[o], seen, new)
        BY <2>1, <2>2, <3>2, Written DEF TypeInv, TypeOK
      <4>2. total = seen.granted => row[o].granted > 0
        BY <1>1, <3>2 DEF Known
      <4> QED
        BY <1>1, <2>2, <2>3, <3>2, <4>1, <4>2, MergedRow DEF Pick
    <3> QED
      BY <3>1, <3>2
  <2>5. RowStep(o)
    BY <1>1, <2>1, <2>2, <2>3, <2>4, Written, RowOf DEF RowStep, TypeInv, TypeOK
  <2> QED
    BY <2>1, <2>4, <2>5, EndsRead, BonusKept
<1> QED
  BY <1>2, <1>3

LEMMA BecomesRow ==
  ASSUME TypeInv, BonusInv, NEW h \in Handlers, NEW o \in Orders, NEW seen \in Row, Known(o, seen),
         NEW status \in {"processing", "failed", "review"}, Becomes(o, seen, status), Done(h) \/ Fails(h)
  PROVE  BonusInv' /\ GrantsStay
<1> DEFINE new == [seen EXCEPT !.status = status]
<1>1. new \in Row /\ new.granted = seen.granted /\ new.bonus = seen.bonus /\ new.status \notin {"none", "granted"}
  BY DEF Row
<1>2. Write(o, seen, new)
  BY DEF Becomes
<1> HIDE DEF new
<1> QED
  BY <1>1, <1>2, ColumnsKept, EndsRead, BonusKept

LEMMA UnpaidRow ==
  ASSUME TypeInv, BonusInv, NEW h \in Handlers, Untouched(h) \/ RolledBack(h)
  PROVE  BonusInv' /\ GrantsStay
BY EndsRead, BonusUntouched DEF Untouched, RolledBack

LEMMA RefundRow ==
  ASSUME TypeInv, BonusInv, NEW h \in Handlers, NEW o \in Orders, NEW seen \in Row, Known(o, seen),
         Refund(h, o, seen) \/ (Restore(h, o, seen) /\ Provider[o] = "apple")
  PROVE  BonusInv' /\ GrantsStay
<1> DEFINE charged == seen.chargeback + ToTakeBack(seen)
           refunded == [seen EXCEPT !.status = "refunded", !.chargeback = charged]
           restored == [seen EXCEPT !.status = "granted", !.chargeback = 0]
<1>1. charged \in Nat
  BY RowOf, Floors DEF ToTakeBack
<1>2. refunded \in Row /\ refunded.granted = seen.granted /\ refunded.bonus = seen.bonus
      /\ refunded.status = "refunded"
  <2> HIDE DEF charged
  <2> QED
    BY <1>1 DEF Row
<1>3. restored \in Row /\ restored.granted = seen.granted /\ restored.bonus = seen.bonus
      /\ restored.status # "none"
  BY DEF Row
<1>4. CASE Untouched(h) \/ RolledBack(h)
  BY <1>4, UnpaidRow
<1>5. CASE Becomes(o, seen, "review") /\ Fails(h)
  BY <1>5, BecomesRow
<1>6. CASE ~ (Untouched(h) \/ RolledBack(h)) /\ ~ (Becomes(o, seen, "review") /\ Fails(h))
  <2>1. (Write(o, seen, refunded) \/ (Write(o, seen, restored) /\ Provider[o] = "apple")) /\ Done(h)
    BY <1>6, RowOf, Zenon DEF Refund, Restore
  <2> HIDE DEF refunded, restored
  <2> QED
    BY <1>2, <1>3, <2>1, ColumnsKept, EndsRead, BonusKept
<1> QED
  BY <1>4, <1>5, <1>6

LEMMA ApplyRow == ASSUME TypeInv, BonusInv, NEW h \in Handlers, Apply(h) PROVE BonusInv' /\ GrantsStay
<1> DEFINE o == handler[h].order
           u == handler[h].user
           seen == IF row[o].status = "none" THEN Inserted(u) ELSE row[o]
<1>1. o \in Orders /\ u \in Users
  BY HandlerOf DEF Apply, TypeInv, FetchedBy
<1>2. seen \in Row /\ Known(o, seen)
  BY <1>1 DEF Inserted, NoRow, Row, TypeInv, TypeOK, Known
<1>3. \/ RolledBack(h)
      \/ Refund(h, o, seen)
      \/ Granted(h) /\ UNCHANGED <<history, consumed, row, entries, accountVars>>
      \/ Becomes(o, seen, "review") /\ Fails(h)
      \/ Becomes(o, seen, "failed") /\ NotPaid(h)
      \/ Becomes(o, seen, "processing") /\ NotPaid(h)
      \/ Grant(h, o, seen, u)
  BY Zenon DEF Apply
<1> HIDE DEF o, u, seen
<1>4. CASE Granted(h) /\ UNCHANGED <<history, consumed, row, entries, accountVars>>
  BY <1>4, EndsRead, BonusUntouched
<1> QED
  BY <1>1, <1>2, <1>3, <1>4, UnpaidRow, RefundRow, BecomesRow, GrantRow DEF NotPaid

LEMMA ReadRow == ASSUME TypeInv, BonusInv, NEW h \in Handlers, ReadPurchase(h) PROVE BonusInv' /\ GrantsStay
<1> DEFINE o == handler[h].order
           record == [handler[h] EXCEPT !.step = "read", !.seen = row[o]]
<1>1. CASE Untouched(h)
  BY <1>1, UnpaidRow
<1>2. CASE ~ Untouched(h)
  <2>1. Goes(h, record) /\ row' = row /\ handler[h].step = "fetched" /\ row[o].user = handler[h].user
    BY <1>2, Zenon DEF ReadPurchase
  <2>2. record.order = o /\ record.seen = row[o] /\ o \in Orders
    BY HandlerOf DEF Handler
  <2>3. row[o].status # "none" /\ Known(o, row[o])
    BY <2>1, <2>2, PurchaseAssumption DEF TypeInv, FetchedBy, BonusInv, EmptyRows, Known
  <2> HIDE DEF record, o
  <2>4. ReadersKnow'
    BY <2>1, <2>2, <2>3 DEF Goes, BonusInv, ReadersKnow, Known, TypeInv, TypeOK
  <2> QED
    BY <2>1, <2>4 DEF BonusInv, EmptyRows, BonusIsGranted, FirstBonusOnce, GrantsStay
<1> QED
  BY <1>1, <1>2

LEMMA ReconcileRow == ASSUME TypeInv, Reversals, BonusInv, NEW h \in Handlers, Reconcile(h) PROVE BonusInv' /\ GrantsStay
<1> DEFINE o == handler[h].order
           seen == IF handler[h].seen = NoRow THEN row[o] ELSE handler[h].seen
<1>1. o \in Orders /\ row[o].status # "none"
  BY HandlerOf DEF Reconcile, BonusInv, ReadersKnow
<1>2. seen \in Row /\ Known(o, seen)
  BY <1>1, HandlerOf DEF TypeInv, TypeOK, Reconcile, BonusInv, ReadersKnow, Known
<1>3. \/ Refund(h, o, seen)
      \/ Restore(h, o, seen) /\ handler[h].status = "REFUND_REVERSED"
      \/ seen.user # NoUser /\ Grant(h, o, seen, seen.user)
      \/ Becomes(o, seen, "review") /\ Done(h)
      \/ Becomes(o, seen, "failed") /\ Done(h)
      \/ Untouched(h)
  BY Zenon DEF Reconcile
<1>5. handler[h].status = "REFUND_REVERSED" => Provider[o] = "apple"
  BY DEF Reversals
<1> HIDE DEF o, seen
<1>4. seen.user # NoUser => seen.user \in Users
  BY <1>2, RowOf
<1> QED
  BY <1>1, <1>2, <1>3, <1>4, <1>5, UnpaidRow, RefundRow, BecomesRow, GrantRow

LEMMA ConsumeRow == ASSUME TypeInv, BonusInv, NEW h \in Handlers, Consume(h) PROVE BonusInv' /\ GrantsStay
<1> DEFINE record == [handler[h] EXCEPT !.step = "mark"]
<1>1. CASE Done(h) \/ Fails(h)
  BY <1>1, EndsRead, BonusUntouched DEF Consume
<1>2. CASE ~ (Done(h) \/ Fails(h))
  <2>1. Goes(h, record) /\ row' = row
    BY <1>2, Zenon DEF Consume
  <2>2. record.step = "mark"
    BY HandlerOf DEF Handler
  <2> HIDE DEF record
  <2> QED
    BY <2>1, <2>2, BonusUntouched DEF Goes, NoneReads, TypeInv, TypeOK
<1> QED
  BY <1>1, <1>2

(* Steps that leave what was granted. *)
LEMMA GrantsKept ==
  ASSUME TypeInv, BonusInv, NoneReads, row' \in [Orders -> Row],
         \A o \in Orders : /\ row'[o].status = row[o].status /\ row'[o].granted = row[o].granted
                           /\ row'[o].bonus = row[o].bonus /\ row'[o].user \in {row[o].user, NoUser}
  PROVE  BonusInv' /\ GrantsStay
<1>1. BonusInv'
  BY HandlerOf DEF BonusInv, EmptyRows, BonusIsGranted, ReadersKnow, FirstBonusOnce, Known, NoneReads
<1> QED
  BY <1>1 DEF GrantsStay

LEMMA MarkRow == ASSUME TypeInv, BonusInv, NEW h \in Handlers, Mark(h) PROVE BonusInv' /\ GrantsStay
<1>1. TypeInv' /\ NoneReads
  BY MarkTyped, EndsRead DEF Mark
<1>2. \A o \in Orders : row[o] \in Row
  BY DEF TypeInv, TypeOK
<1>3. \A o \in Orders :
        /\ row'[o].status = row[o].status /\ row'[o].granted = row[o].granted
        /\ row'[o].bonus = row[o].bonus /\ row'[o].user = row[o].user
  BY <1>2 DEF Mark, TypeInv, TypeOK, Row
<1> QED
  BY <1>1, <1>3, GrantsKept DEF TypeInv, TypeOK

LEMMA PurgeRow == ASSUME TypeInv, BonusInv, NEW u \in Users, Purge(u) PROVE BonusInv' /\ GrantsStay
<1>1. TypeInv' /\ NoneReads
  BY AccountsTyped DEF Purge, NoneReads
<1>2. \A o \in Orders : row[o] \in Row
  BY DEF TypeInv, TypeOK
<1>3. \A o \in Orders :
        /\ row'[o].status = row[o].status /\ row'[o].granted = row[o].granted
        /\ row'[o].bonus = row[o].bonus /\ row'[o].user \in {row[o].user, NoUser}
  BY <1>2 DEF Purge, Row
<1> QED
  BY <1>1, <1>3, GrantsKept DEF TypeInv, TypeOK

LEMMA StartRow == ASSUME TypeInv, BonusInv, NEW h \in Handlers, Start(h) PROVE BonusInv' /\ GrantsStay
<1>1. row' = row
  BY DEF Start, ClientGrant, PurchaseNotice, RefundNotice, NoticeIgnored, Poll, Starts
<1>2. ASSUME NEW step, NEW u, NEW o \in Orders, NEW status, NEW notice, NEW seen,
             Starts(h, step, u, o, status, notice, seen),
             step = "read" => row[o].status # "none" /\ Known(o, seen)
      PROVE  ReadersKnow'
  BY <1>1, <1>2 DEF Starts, Goes, BonusInv, ReadersKnow, Known, TypeInv, TypeOK
<1>3. \A o \in Orders : row[o].status # "none" => Known(o, row[o]) /\ Known(o, NoRow)
  BY DEF Known, NoRow
<1>4. ReadersKnow'
  <2> PICK o \in Orders :
        \/ \E u \in Users : ClientGrant(h, u, o)
        \/ \E i \in 1..MaxEvents : PurchaseNotice(h, o, i) \/ RefundNotice(h, o, i)
        \/ Poll(h, o)
    BY DEF Start
  <2>1. CASE handler' = handler
    BY <1>1, <2>1 DEF BonusInv, ReadersKnow, Known
  <2>2. ASSUME NEW u \in Users, ClientGrant(h, u, o) PROVE ReadersKnow'
    BY <1>2, <2>2 DEF ClientGrant
  <2>3. ASSUME NEW i \in 1..MaxEvents, PurchaseNotice(h, o, i) PROVE ReadersKnow'
    BY <1>2, <2>1, <2>3 DEF PurchaseNotice, NoticeIgnored
  <2>4. ASSUME NEW i \in 1..MaxEvents, RefundNotice(h, o, i) PROVE ReadersKnow'
    BY <1>2, <1>3, <2>1, <2>4 DEF RefundNotice, NoticeIgnored
  <2>5. CASE Poll(h, o)
    BY <1>2, <1>3, <2>5 DEF Poll, Due
  <2> QED
    BY <2>2, <2>3, <2>4, <2>5
<1> QED
  BY <1>1, <1>4 DEF BonusInv, EmptyRows, BonusIsGranted, FirstBonusOnce, GrantsStay

(* How a handler goes on: it ends, or keeps its order and what it was told of it. *)
Ends(h) == Done(h) \/ Fails(h) \/ Granted(h)
GoesOn(h, x) ==
  /\ x.order = handler[h].order /\ x.status = handler[h].status
  /\ \/ x.step = "read" \/ (x.step = "mark" /\ handler[h].step = "consume")
     \/ x.step = "consume" /\ Granted(h)

LEMMA EndsOrGoes ==
  ASSUME TypeInv, NEW h \in Handlers, Ends(h)
  PROVE  \E x : Goes(h, x) /\ (x = Idle \/ GoesOn(h, x))
<1> DEFINE record == [handler[h] EXCEPT !.step = "consume", !.seen = NoRow]
<1>1. record.order = handler[h].order /\ record.status = handler[h].status /\ record.step = "consume"
  BY HandlerOf DEF Handler
<1>2. Goes(h, Idle) \/ (Goes(h, record) /\ Granted(h))
  BY DEF Ends, Done, Fails, Granted
<1> HIDE DEF record
<1> QED
  BY <1>1, <1>2 DEF GoesOn

LEMMA Moves ==
  ASSUME TypeInv, NEW h \in Handlers, Proceed(h) \/ Lose(h)
  PROVE  \E x : Goes(h, x) /\ (x = Idle \/ GoesOn(h, x))
<1> DEFINE read == [handler[h] EXCEPT !.step = "read", !.seen = row[handler[h].order]]
           mark == [handler[h] EXCEPT !.step = "mark"]
<1>1. /\ read.order = handler[h].order /\ read.status = handler[h].status /\ read.step = "read"
      /\ mark.order = handler[h].order /\ mark.status = handler[h].status /\ mark.step = "mark"
  BY HandlerOf DEF Handler
<1>2. ASSUME NEW o, NEW seen, NEW u, Grant(h, o, seen, u) \/ Refund(h, o, seen) \/ Restore(h, o, seen) PROVE Ends(h)
  BY <1>2, Zenon DEF Grant, Refund, Restore, RolledBack, Untouched, Ends
<1>3. CASE Apply(h) \/ Reconcile(h)
  <2>1. Ends(h)
    BY <1>2, <1>3, Zenon DEF Apply, Reconcile, RolledBack, Untouched, NotPaid, Ends
  <2> QED
    BY <2>1, EndsOrGoes
<1>4. CASE Mark(h) \/ Lose(h)
  BY <1>4, EndsOrGoes DEF Mark, Lose, RolledBack, Ends
<1>5. CASE ReadPurchase(h)
  <2>1. Ends(h) \/ Goes(h, read)
    BY <1>5, Zenon DEF ReadPurchase, Untouched, Ends
  <2> HIDE DEF read
  <2> QED
    BY <1>1, <2>1, EndsOrGoes DEF GoesOn
<1>6. CASE Consume(h)
  <2>1. Ends(h) \/ (Goes(h, mark) /\ handler[h].step = "consume")
    BY <1>6, Zenon DEF Consume, Ends
  <2> HIDE DEF mark
  <2> QED
    BY <1>1, <2>1, EndsOrGoes DEF GoesOn
<1> QED
  BY <1>3, <1>4, <1>5, <1>6 DEF Proceed

LEMMA HistoryTyped == ASSUME TypeInv, NEW o \in Orders PROVE history[o] \in Seq(StoreStates)
<1>1. history \in [Orders -> UNION {[1..n -> StoreStates] : n \in 0..MaxEvents}]
  BY Zenon DEF TypeInv, TypeOK
<1>2. history[o] \in UNION {[1..n -> StoreStates] : n \in 0..MaxEvents}
  BY <1>1, Zenon
<1> PICK n \in 0..MaxEvents : history[o] \in [1..n -> StoreStates]
  BY <1>2, Zenon
<1> QED
  BY PurchaseAssumption

LEMMA ReversalsStep == ASSUME TypeInv, Reversals, [Next]_vars PROVE Reversals'
<1>1. ASSUME UNCHANGED <<history, handler>> PROVE Reversals'
  BY <1>1 DEF Reversals
<1>2. ASSUME NEW o \in Orders, NEW state \in StoreStates, StoreChanges(o, state) PROVE Reversals'
  <2>1. history[o] \in Seq(StoreStates)
    BY HistoryTyped
  <2>2. state = "restored" => Provider[o] = "apple"
    BY <1>2 DEF StoreChanges, StoreOpens, StoreSteps
  <2>3. history'[o] = Append(history[o], state) /\ handler' = handler
        /\ \A q \in Orders \ {o} : history'[q] = history[q]
    BY <1>2 DEF StoreChanges, TypeInv, TypeOK
  <2>4. \A i \in 1..Len(history'[o]) : history'[o][i] = "restored" => Provider[o] = "apple"
    BY <2>1, <2>2, <2>3, AppendProperties DEF Reversals
  <2> QED
    BY <2>3, <2>4 DEF Reversals
<1>3. ASSUME NEW h \in Handlers, NEW x, Goes(h, x), history' = history,
             x.status = "REFUND_REVERSED" => Provider[x.order] = "apple"
      PROVE  Reversals'
  BY <1>3 DEF Goes, Reversals, TypeInv, TypeOK
<1>4. ASSUME NEW h \in Handlers, Proceed(h) \/ Lose(h) PROVE Reversals'
  <2>1. PICK x : Goes(h, x) /\ (x = Idle \/ GoesOn(h, x))
    BY <1>4, Moves
  <2>2. x.status = "REFUND_REVERSED" => Provider[x.order] = "apple"
    BY <2>1 DEF GoesOn, Idle, Reversals
  <2>3. history' = history
    BY <1>4 DEF Proceed, Lose, Apply, ReadPurchase, Reconcile, Consume, Mark, RolledBack, Untouched, Becomes,
      Grant, Refund, Restore
  <2> QED
    BY <1>3, <2>1, <2>2, <2>3
<1>5. ASSUME NEW h \in Handlers, Start(h) PROVE Reversals'
  <2> PICK o \in Orders :
        \/ \E u \in Users : ClientGrant(h, u, o)
        \/ \E i \in 1..MaxEvents : PurchaseNotice(h, o, i) \/ RefundNotice(h, o, i)
        \/ Poll(h, o)
    BY <1>5 DEF Start
  <2>1. ASSUME NEW step, NEW u, NEW status, NEW notice, NEW seen, Starts(h, step, u, o, status, notice, seen),
               status = "REFUND_REVERSED" => Provider[o] = "apple"
        PROVE  Reversals'
    <3>1. PICK x : x = [step |-> step, user |-> u, order |-> o, status |-> status, notice |-> notice, seen |-> seen]
      OBVIOUS
    <3> QED
      BY <1>3, <2>1, <3>1 DEF Starts
  <2>2. \A store, state : StatusOf(store, state) # "REFUND_REVERSED"
    BY DEF StatusOf
  <2>3. ASSUME NEW i, NoticeIgnored(h, o, i) PROVE Reversals'
    BY <1>1, <2>3 DEF NoticeIgnored
  <2>4. ASSUME NEW u, ClientGrant(h, u, o) PROVE Reversals'
    BY <2>1, <2>2, <2>4 DEF ClientGrant
  <2>5. ASSUME NEW i \in 1..MaxEvents, PurchaseNotice(h, o, i) PROVE Reversals'
    BY <2>1, <2>2, <2>3, <2>5 DEF PurchaseNotice
  <2>6. ASSUME NEW i \in 1..MaxEvents, RefundNotice(h, o, i) PROVE Reversals'
    <3>1. i \in 1..Len(history[o]) /\ (history[o][i] = "restored" => Provider[o] = "apple")
      BY <2>6 DEF RefundNotice, Notices, Reversals
    <3> QED
      BY <2>1, <2>3, <2>6, <3>1 DEF RefundNotice
  <2>7. CASE Poll(h, o)
    BY <2>1, <2>2, <2>7 DEF Poll
  <2> QED
    BY <2>4, <2>5, <2>6, <2>7
<1>6. ASSUME NEW u \in Users, (\E price \in Prices : Spend(u, price) \/ GiveBack(u, price)) \/ Purge(u) \/ Register(u)
      PROVE  Reversals'
  BY <1>1, <1>6 DEF Spend, GiveBack, Purge, Register
<1>7. CASE UNCHANGED vars
  BY <1>1, <1>7 DEF vars
<1> QED
  BY <1>2, <1>4, <1>5, <1>6, <1>7 DEF Next

LEMMA ReversalsHold == Spec => []Reversals
<1>1. Init => Reversals
  BY DEF Init, Reversals, Idle
<1>2. TypeInv /\ Reversals /\ [Next]_vars => Reversals'
  BY ReversalsStep
<1> QED
  BY <1>1, <1>2, TypeInvHolds, PTL DEF Spec

LEMMA BonusStep ==
  ASSUME TypeInv, Reversals, BonusInv, [Next]_vars PROVE BonusInv' /\ GrantsStay
<1>1. ASSUME NEW h \in Handlers, Proceed(h) PROVE BonusInv' /\ GrantsStay
  BY <1>1, ApplyRow, ReadRow, ReconcileRow, ConsumeRow, MarkRow DEF Proceed
<1>2. ASSUME NEW h \in Handlers, Lose(h) PROVE BonusInv' /\ GrantsStay
  BY <1>2, UnpaidRow DEF Lose
<1>3. ASSUME NEW o \in Orders, NEW state \in StoreStates, StoreChanges(o, state) PROVE BonusInv' /\ GrantsStay
  BY <1>3, BonusUntouched DEF StoreChanges, NoneReads
<1>4. ASSUME NEW u \in Users,
             (\E price \in Prices : Spend(u, price) \/ GiveBack(u, price)) \/ Register(u)
      PROVE  BonusInv' /\ GrantsStay
  BY <1>4, BonusUntouched DEF Spend, GiveBack, Register, NoneReads
<1>5. CASE UNCHANGED vars
  BY <1>5, BonusUntouched DEF vars, NoneReads
<1> QED
  BY <1>1, <1>2, <1>3, <1>4, <1>5, StartRow, PurgeRow DEF Next

LEMMA BonusInvHolds == Spec => []BonusInv
<1>1. Init => BonusInv
  BY DEF Init, BonusInv, EmptyRows, BonusIsGranted, ReadersKnow, FirstBonusOnce, NoRow, Idle
<1>2. TypeInv /\ Reversals /\ BonusInv /\ [Next]_vars => BonusInv'
  BY BonusStep
<1> QED
  BY <1>1, <1>2, TypeInvHolds, ReversalsHold, PTL DEF Spec

(* A person gets the bonus of a first purchase for one order, whichever stores, users and handlers *)
(* there are, and also when the account is deleted and the person registers again.                  *)
THEOREM OneFirstBonus == Spec => []FirstBonusOnce
BY BonusInvHolds, PTL DEF BonusInv

-----------------------------------------------------------------------------
(* Outside the App Store a row's status says "granted" only of credits that were granted, and a    *)
(* handler goes to Google Play only after a transaction that granted them or found them granted.   *)
GrantedPays == \A o \in Orders : Provider[o] # "apple" /\ row[o].status = "granted" => row[o].granted > 0
ConsumersPaid ==
  \A h \in Handlers : handler[h].step \in {"consume", "mark"} => row[handler[h].order].granted > 0
ConsumeInv == GrantedPays /\ ConsumersPaid /\ ConsumedWasGranted

LEMMA EndsIdle == ASSUME TypeInv, NEW h \in Handlers, Done(h) \/ Fails(h) PROVE handler'[h].step = "idle"
BY DEF Done, Fails, Goes, Idle, TypeInv, TypeOK

LEMMA GoogleConsumes ==
  ASSUME TypeInv, NEW h \in Handlers, Granted(h), handler'[h].step = "consume"
  PROVE  Provider[handler[h].order] = "google"
BY EndsIdle DEF Granted

LEMMA PaidBefore ==
  ASSUME TypeInv, BonusInv, GrantedPays, NEW h \in Handlers, Apply(h) \/ Reconcile(h),
         handler'[h].step = "consume"
  PROVE  row'[handler[h].order].granted > 0
<1>1. handler[h].order \in Orders
  BY HandlerOf
<1>2. ~ Done(h) /\ ~ Fails(h)
  BY EndsIdle
<1>3. ASSUME NEW o, NEW seen, Refund(h, o, seen) \/ Restore(h, o, seen) \/ Untouched(h) \/ RolledBack(h) PROVE FALSE
  BY <1>2, <1>3, Zenon DEF Refund, Restore, Untouched, RolledBack
<1>4. CASE Apply(h)
  <2> DEFINE o == handler[h].order
             u == handler[h].user
             seen == IF row[o].status = "none" THEN Inserted(u) ELSE row[o]
  <2>1. o \in Orders /\ u \in Users
    BY <1>4, HandlerOf DEF Apply, TypeInv, FetchedBy
  <2>2. seen \in Row /\ Known(o, seen) /\ (seen.status = "granted" => row[o].status = "granted")
    BY <2>1 DEF Inserted, NoRow, Row, TypeInv, TypeOK, Known
  <2>3. \/ seen.status = "granted" /\ Granted(h) /\ row' = row
        \/ Grant(h, o, seen, u)
    BY <1>2, <1>3, <1>4, Zenon DEF Apply, NotPaid
  <2> HIDE DEF u, seen
  <2>4. CASE seen.status = "granted" /\ Granted(h) /\ row' = row
    BY <2>1, <2>2, <2>4, GoogleConsumes DEF GrantedPays
  <2> HIDE DEF o
  <2>5. CASE Grant(h, o, seen, u)
    BY <1>2, <2>1, <2>2, <2>5, GrantRow DEF o
  <2> QED
    BY <2>3, <2>4, <2>5 DEF o
<1>5. CASE Reconcile(h)
  <2> DEFINE o == handler[h].order
             seen == IF handler[h].seen = NoRow THEN row[o] ELSE handler[h].seen
  <2>1. seen \in Row /\ Known(o, seen)
    BY <1>1, <1>5, HandlerOf DEF TypeInv, TypeOK, Reconcile, BonusInv, ReadersKnow, Known
  <2>2. seen.user # NoUser /\ Grant(h, o, seen, seen.user)
    BY <1>2, <1>3, <1>5, Zenon DEF Reconcile
  <2> HIDE DEF seen
  <2>3. seen.user \in Users
    BY <2>1, <2>2, RowOf
  <2> HIDE DEF o
  <2> QED
    BY <1>1, <1>2, <2>1, <2>2, <2>3, GrantRow DEF o
<1> QED
  BY <1>4, <1>5

LEMMA ConsumeStays ==
  ASSUME TypeInv, ConsumeInv, GrantsStay, consumed' = consumed,
         \A h \in Handlers : handler'[h].step \in {"consume", "mark"} =>
                               handler'[h] = handler[h] \/ row'[handler'[h].order].granted > 0
  PROVE  ConsumeInv'
<1>1. GrantedPays' /\ ConsumedWasGranted'
  BY DEF ConsumeInv, GrantsStay, GrantedPays, ConsumedWasGranted, TypeInv, TypeOK
<1>2. ConsumersPaid'
  BY HandlerOf DEF ConsumeInv, GrantsStay, ConsumersPaid
<1> QED
  BY <1>1, <1>2 DEF ConsumeInv

LEMMA ConsumeProceeds ==
  ASSUME TypeInv, BonusInv, ConsumeInv, GrantsStay, NEW h \in Handlers, Proceed(h) \/ Lose(h)
  PROVE  ConsumeInv'
<1> PICK x : Goes(h, x) /\ (x = Idle \/ GoesOn(h, x))
  BY Moves
<1>1. handler'[h] = x /\ \A k \in Handlers \ {h} : handler'[k] = handler[k]
  BY DEF Goes, TypeInv, TypeOK
<1>2. handler[h].order \in Orders
  BY HandlerOf
<1>3. x.step \in {"consume", "mark"} => row'[x.order].granted > 0
  <2>1. CASE x = Idle
    BY <2>1 DEF Idle
  <2>2. CASE GoesOn(h, x) /\ x.step = "mark"
    BY <1>2, <2>2 DEF GoesOn, ConsumeInv, ConsumersPaid, GrantsStay
  <2>3. CASE GoesOn(h, x) /\ x.step = "consume"
    <3>1. Apply(h) \/ Reconcile(h) \/ ReadPurchase(h) \/ Consume(h) \/ Mark(h) \/ Lose(h)
      BY DEF Proceed
    <3>2. CASE Apply(h) \/ Reconcile(h)
      BY <1>1, <2>3, <3>2, PaidBefore DEF GoesOn, ConsumeInv
    <3>3. CASE ReadPurchase(h) \/ Consume(h) \/ Mark(h) \/ Lose(h)
      <4> DEFINE read == [handler[h] EXCEPT !.step = "read", !.seen = row[handler[h].order]]
                 mark == [handler[h] EXCEPT !.step = "mark"]
      <4>1. read.step = "read" /\ mark.step = "mark"
        BY HandlerOf DEF Handler
      <4>2. Done(h) \/ Fails(h) \/ Goes(h, read) \/ Goes(h, mark)
        BY <3>3, Zenon DEF ReadPurchase, Consume, Mark, Lose, Untouched, RolledBack
      <4> HIDE DEF read, mark
      <4> QED
        BY <1>1, <2>3, <4>1, <4>2, EndsIdle DEF Goes, TypeInv, TypeOK
    <3> QED
      BY <3>1, <3>2, <3>3
  <2>4. CASE GoesOn(h, x) /\ x.step \notin {"consume", "mark"}
    BY <2>4
  <2> QED
    BY <2>1, <2>2, <2>3, <2>4
<1>4. ConsumersPaid'
  BY <1>1, <1>3, HandlerOf DEF ConsumeInv, GrantsStay, ConsumersPaid
<1>5. GrantedPays'
  BY DEF ConsumeInv, GrantsStay, GrantedPays
<1>6. consumed' = consumed \/ (consumed' = consumed \cup {handler[h].order} /\ handler[h].step = "consume")
  <2>1. ASSUME NEW o, NEW seen, NEW u, Grant(h, o, seen, u) \/ Refund(h, o, seen) \/ Restore(h, o, seen)
        PROVE  consumed' = consumed
    BY <2>1, Zenon DEF Grant, Refund, Restore, RolledBack, Untouched, Becomes
  <2>2. CASE Apply(h) \/ Reconcile(h)
    BY <2>1, <2>2, Zenon DEF Apply, Reconcile, RolledBack, Untouched, Becomes
  <2>3. CASE ReadPurchase(h) \/ Consume(h) \/ Mark(h) \/ Lose(h)
    BY <2>3, Zenon DEF ReadPurchase, Consume, Mark, Lose, Untouched, RolledBack
  <2> QED
    BY <2>2, <2>3 DEF Proceed
<1>7. ConsumedWasGranted'
  BY <1>2, <1>6 DEF ConsumeInv, ConsumersPaid, ConsumedWasGranted, GrantsStay, TypeInv, TypeOK
<1> QED
  BY <1>4, <1>5, <1>7 DEF ConsumeInv

LEMMA ConsumeStarts ==
  ASSUME TypeInv, ConsumeInv, GrantsStay, NEW h \in Handlers, Start(h)
  PROVE  ConsumeInv'
<1>1. consumed' = consumed
  BY DEF Start, ClientGrant, PurchaseNotice, RefundNotice, NoticeIgnored, Poll, Starts
<1>2. ASSUME NEW step \in {"fetched", "read"}, NEW u, NEW o, NEW status, NEW notice, NEW seen,
             Starts(h, step, u, o, status, notice, seen)
      PROVE  ConsumeInv'
  <2>1. handler'[h].step = step /\ \A k \in Handlers \ {h} : handler'[k] = handler[k]
    BY <1>2 DEF Starts, Goes, TypeInv, TypeOK
  <2> QED
    BY <1>1, <2>1, ConsumeStays
<1>3. ASSUME NEW o, NEW i, NoticeIgnored(h, o, i) PROVE ConsumeInv'
  BY <1>1, <1>3, ConsumeStays DEF NoticeIgnored
<1> PICK o \in Orders :
      \/ \E u \in Users : ClientGrant(h, u, o)
      \/ \E i \in 1..MaxEvents : PurchaseNotice(h, o, i) \/ RefundNotice(h, o, i)
      \/ Poll(h, o)
  BY DEF Start
<1>4. ASSUME NEW u \in Users, ClientGrant(h, u, o) PROVE ConsumeInv'
  BY <1>2, <1>4 DEF ClientGrant
<1>5. ASSUME NEW i \in 1..MaxEvents, PurchaseNotice(h, o, i) PROVE ConsumeInv'
  BY <1>2, <1>3, <1>5 DEF PurchaseNotice
<1>6. ASSUME NEW i \in 1..MaxEvents, RefundNotice(h, o, i) PROVE ConsumeInv'
  BY <1>2, <1>3, <1>6 DEF RefundNotice
<1>7. CASE Poll(h, o)
  BY <1>2, <1>7 DEF Poll
<1> QED
  BY <1>4, <1>5, <1>6, <1>7

LEMMA ConsumeInvHolds == Spec => []ConsumeInv
<1>1. Init => ConsumeInv
  BY DEF Init, ConsumeInv, GrantedPays, ConsumersPaid, ConsumedWasGranted, NoRow, Idle
<1>2. ASSUME TypeInv, Reversals, BonusInv, ConsumeInv, [Next]_vars PROVE ConsumeInv'
  <2>1. GrantsStay
    BY <1>2, BonusStep
  <2>2. ASSUME consumed' = consumed, handler' = handler PROVE ConsumeInv'
    BY <1>2, <2>1, <2>2, ConsumeStays
  <2>3. ASSUME NEW o \in Orders, NEW state \in StoreStates, StoreChanges(o, state) PROVE ConsumeInv'
    BY <2>2, <2>3 DEF StoreChanges
  <2>4. ASSUME NEW u \in Users,
               (\E price \in Prices : Spend(u, price) \/ GiveBack(u, price)) \/ Purge(u) \/ Register(u)
        PROVE  ConsumeInv'
    BY <2>2, <2>4 DEF Spend, GiveBack, Purge, Register
  <2>5. CASE UNCHANGED vars
    BY <2>2, <2>5 DEF vars
  <2> QED
    BY <1>2, <2>1, <2>3, <2>4, <2>5, ConsumeProceeds, ConsumeStarts DEF Next
<1> QED
  BY <1>1, <1>2, TypeInvHolds, ReversalsHold, BonusInvHolds, PTL DEF Spec

(* Google Play is told to consume a token only after its credits were granted, whatever the store,  *)
(* the other handlers and a purge of the account do between the grant and the call.                 *)
THEOREM ConsumedAreGranted == Spec => []ConsumedWasGranted
BY ConsumeInvHolds, PTL DEF ConsumeInv

-----------------------------------------------------------------------------
(* Where all purchases are made in Apps in Toss, nobody sends notifications: every handler decides *)
(* with the row it has locked, never with one it read earlier, and no refund is reversed.          *)
OnlyToss == \A o \in Orders : Provider[o] = "toss"
Settled(r) == r.chargeback = IF r.status = "refunded" THEN r.granted ELSE 0
ReadersFresh ==
  \A h \in Handlers : handler[h].step = "read" => handler[h].seen = NoRow /\ handler[h].status # "REFUND_REVERSED"
TossInv == ReadersFresh /\ \A o \in Orders : Settled(row[o])
Fresh(o, seen) == row[o].status = "none" \/ seen = row[o]

LEMMA TossUntouched == ASSUME TypeInv, TossInv, row' = row, NoneReads PROVE TossInv'
BY DEF TossInv, ReadersFresh, NoneReads

LEMMA TossWritten ==
  ASSUME TypeInv, TossInv, NEW h \in Handlers, NEW o \in Orders, NEW seen \in Row, NEW new \in Row,
         Fresh(o, seen), Settled(new), Write(o, seen, new), Done(h) \/ Fails(h) \/ Granted(h)
  PROVE  TossInv'
<1>1. row[o] \in Row
  BY DEF TypeInv, TypeOK
<1>2. /\ row'[o].status = new.status /\ row'[o].granted = new.granted /\ row'[o].chargeback = new.chargeback
      /\ \A q \in Orders \ {o} : row'[q] = row[q]
  BY <1>1, Written, MergedRow DEF TypeInv, TypeOK, Pick, Fresh
<1>3. NoneReads
  BY EndsRead
<1> QED
  BY <1>2, <1>3 DEF TossInv, Settled, ReadersFresh, NoneReads

LEMMA TossBecomes ==
  ASSUME TypeInv, TossInv, NEW h \in Handlers, NEW o \in Orders, NEW seen \in Row, Fresh(o, seen),
         seen.status # "refunded", Settled(seen),
         NEW status \in {"processing", "failed", "review"}, Becomes(o, seen, status), Done(h) \/ Fails(h)
  PROVE  TossInv'
<1> DEFINE new == [seen EXCEPT !.status = status]
<1>1. new \in Row /\ Settled(new)
  BY DEF Row, Settled
<1>2. Write(o, seen, new)
  BY DEF Becomes
<1> HIDE DEF new
<1> QED
  BY <1>1, <1>2, TossWritten

LEMMA TossGrant ==
  ASSUME TypeInv, TossInv, NEW h \in Handlers, NEW o \in Orders, NEW seen \in Row, NEW u \in Users,
         Fresh(o, seen), seen.status # "refunded", Settled(seen), Grant(h, o, seen, u)
  PROVE  TossInv'
<1> DEFINE bonus == FirstBonus(o, u)
           total == Credits[o] + bonus
           new == [seen EXCEPT !.status = "granted", !.granted = total, !.bonus = bonus]
<1>1. CASE RolledBack(h)
  BY <1>1, EndsRead, TossUntouched DEF RolledBack
<1>2. CASE ~ RolledBack(h)
  <2>1. Write(o, seen, new) /\ Granted(h)
    BY <1>2, Zenon DEF Grant
  <2>2. bonus \in Nat /\ total \in Nat
    BY BonusTyped, PurchaseAssumption
  <2>3. new \in Row /\ Settled(new)
    <3> HIDE DEF bonus, total
    <3> QED
      BY <2>2 DEF Row, Settled
  <2> HIDE DEF new
  <2> QED
    BY <2>1, <2>3, TossWritten
<1> QED
  BY <1>1, <1>2

LEMMA TossRefund ==
  ASSUME TypeInv, TossInv, NEW h \in Handlers, NEW o \in Orders, NEW seen \in Row, Fresh(o, seen),
         Settled(seen), Refund(h, o, seen)
  PROVE  TossInv'
<1> DEFINE charged == seen.chargeback + ToTakeBack(seen)
           new == [seen EXCEPT !.status = "refunded", !.chargeback = charged]
<1>1. CASE Untouched(h) \/ RolledBack(h)
  BY <1>1, EndsRead, TossUntouched DEF Untouched, RolledBack
<1>2. CASE ~ (Untouched(h) \/ RolledBack(h))
  <2>1. Write(o, seen, new) /\ Done(h) /\ seen.status # "refunded"
    BY <1>2, RowOf, Zenon DEF Refund
  <2>2. charged = seen.granted /\ charged \in Nat
    BY <2>1, RowOf DEF ToTakeBack, Floor0, Settled
  <2>3. new \in Row /\ Settled(new)
    <3> HIDE DEF charged
    <3> QED
      BY <2>2 DEF Row, Settled
  <2> HIDE DEF new
  <2> QED
    BY <2>1, <2>3, TossWritten
<1> QED
  BY <1>1, <1>2

LEMMA TossApply == ASSUME TypeInv, TossInv, NEW h \in Handlers, Apply(h) PROVE TossInv'
<1> DEFINE o == handler[h].order
           u == handler[h].user
           seen == IF row[o].status = "none" THEN Inserted(u) ELSE row[o]
<1>1. o \in Orders /\ u \in Users
  BY HandlerOf DEF Apply, TypeInv, FetchedBy
<1>2. seen \in Row /\ Fresh(o, seen) /\ Settled(seen)
  BY <1>1 DEF Inserted, NoRow, Row, TypeInv, TypeOK, TossInv, Fresh, Settled
<1>3. \/ RolledBack(h)
      \/ Refund(h, o, seen)
      \/ Granted(h) /\ UNCHANGED <<history, consumed, row, entries, accountVars>>
      \/ seen.status # "refunded" /\ Becomes(o, seen, "review") /\ Fails(h)
      \/ seen.status # "refunded" /\ Becomes(o, seen, "failed") /\ NotPaid(h)
      \/ seen.status # "refunded" /\ Becomes(o, seen, "processing") /\ NotPaid(h)
      \/ seen.status # "refunded" /\ Grant(h, o, seen, u)
  <2>1. Grantable(seen) => seen.status # "refunded"
    BY DEF Grantable
  <2> QED
    BY <2>1, Zenon DEF Apply
<1> HIDE DEF o, u, seen
<1>4. CASE RolledBack(h) \/ (Granted(h) /\ UNCHANGED <<history, consumed, row, entries, accountVars>>)
  BY <1>4, EndsRead, TossUntouched DEF RolledBack
<1>5. CASE seen.status # "refunded" /\ Becomes(o, seen, "review") /\ Fails(h)
  BY <1>1, <1>2, <1>5, TossBecomes
<1>6. CASE seen.status # "refunded" /\ (Becomes(o, seen, "failed") \/ Becomes(o, seen, "processing")) /\ NotPaid(h)
  BY <1>1, <1>2, <1>6, TossBecomes DEF NotPaid
<1>7. CASE Refund(h, o, seen) \/ (seen.status # "refunded" /\ Grant(h, o, seen, u))
  BY <1>1, <1>2, <1>7, TossRefund, TossGrant
<1> QED
  BY <1>3, <1>4, <1>5, <1>6, <1>7, Zenon

LEMMA TossReconcile == ASSUME TypeInv, TossInv, NEW h \in Handlers, Reconcile(h) PROVE TossInv'
<1> DEFINE o == handler[h].order
           seen == IF handler[h].seen = NoRow THEN row[o] ELSE handler[h].seen
<1>1. o \in Orders /\ handler[h].seen = NoRow /\ handler[h].status # "REFUND_REVERSED"
  BY HandlerOf DEF Reconcile, TossInv, ReadersFresh
<1>2. seen \in Row /\ Fresh(o, seen) /\ Settled(seen)
  BY <1>1 DEF TypeInv, TypeOK, TossInv, Fresh
<1>3. \/ Refund(h, o, seen)
      \/ seen.status = "processing" /\ seen.user # NoUser /\ Grant(h, o, seen, seen.user)
      \/ seen.status = "processing" /\ Becomes(o, seen, "review") /\ Done(h)
      \/ seen.status = "processing" /\ Becomes(o, seen, "failed") /\ Done(h)
      \/ Untouched(h)
  BY <1>1, Zenon DEF Reconcile
<1> HIDE DEF o, seen
<1>4. seen.user # NoUser => seen.user \in Users
  BY <1>2, RowOf
<1>5. CASE Untouched(h)
  BY <1>5, EndsRead, TossUntouched DEF Untouched
<1> QED
  BY <1>1, <1>2, <1>3, <1>4, <1>5, TossRefund, TossBecomes, TossGrant

LEMMA TossStart ==
  ASSUME OnlyToss, TypeInv, TossInv, NEW h \in Handlers, Start(h) PROVE TossInv'
<1>1. row' = row
  BY DEF Start, ClientGrant, PurchaseNotice, RefundNotice, NoticeIgnored, Poll, Starts
<1>2. PICK o \in Orders : (\E u \in Users : ClientGrant(h, u, o)) \/ Poll(h, o)
  BY DEF Start, PurchaseNotice, RefundNotice, Notices, OnlyToss
<1>3. ASSUME NEW u \in Users, ClientGrant(h, u, o) PROVE TossInv'
  BY <1>1, <1>3 DEF ClientGrant, Starts, Goes, TossInv, ReadersFresh, TypeInv, TypeOK
<1>4. CASE Poll(h, o)
  <2>1. StatusOf("toss", Current(o)) # "REFUND_REVERSED"
    BY DEF StatusOf
  <2> QED
    BY <1>1, <1>4, <2>1 DEF Poll, Starts, Goes, TossInv, ReadersFresh, TypeInv, TypeOK
<1> QED
  BY <1>2, <1>3, <1>4

LEMMA TossConsume == ASSUME TypeInv, TossInv, NEW h \in Handlers, Consume(h) PROVE TossInv'
<1> DEFINE record == [handler[h] EXCEPT !.step = "mark"]
<1>1. CASE Done(h) \/ Fails(h)
  BY <1>1, EndsRead, TossUntouched DEF Consume
<1>2. CASE ~ (Done(h) \/ Fails(h))
  <2>1. Goes(h, record) /\ row' = row
    BY <1>2, Zenon DEF Consume
  <2>2. record.step = "mark"
    BY HandlerOf DEF Handler
  <2> HIDE DEF record
  <2> QED
    BY <2>1, <2>2, TossUntouched DEF Goes, NoneReads, TypeInv, TypeOK
<1> QED
  BY <1>1, <1>2

(* A refund in Apps in Toss takes back everything that was granted, the first purchase bonus       *)
(* included, whichever of the client and the polls comes first and however often the handlers stop. *)
THEOREM TossRefundsTakeAll ==
  ASSUME OnlyToss
  PROVE  Spec => []RefundTakesAll
<1>1. Init => TossInv
  BY DEF Init, TossInv, ReadersFresh, Settled, NoRow, Idle
<1>2. TypeInv /\ TossInv /\ [Next]_vars => TossInv'
  <2> SUFFICES ASSUME TypeInv, TossInv, [Next]_vars PROVE TossInv'
    OBVIOUS
  <2>1. ASSUME NEW h \in Handlers, Mark(h) PROVE TossInv'
    <3>1. NoneReads /\ \A o \in Orders : row[o] \in Row
      BY <2>1, EndsRead DEF Mark, TypeInv, TypeOK
    <3>2. \A o \in Orders :
            /\ row'[o].status = row[o].status /\ row'[o].granted = row[o].granted
            /\ row'[o].chargeback = row[o].chargeback
      BY <2>1, <3>1 DEF Mark, TypeInv, TypeOK, Row
    <3> QED
      BY <3>1, <3>2 DEF TossInv, Settled, ReadersFresh, NoneReads
  <2>2. ASSUME NEW u \in Users, Purge(u) PROVE TossInv'
    <3>1. \A o \in Orders : row[o] \in Row
      BY DEF TypeInv, TypeOK
    <3>2. \A o \in Orders :
            /\ row'[o].status = row[o].status /\ row'[o].granted = row[o].granted
            /\ row'[o].chargeback = row[o].chargeback
      BY <2>2, <3>1 DEF Purge, Row
    <3> QED
      BY <2>2, <3>2 DEF Purge, TossInv, Settled, ReadersFresh
  <2>3. ASSUME NEW h \in Handlers, Lose(h) PROVE TossInv'
    BY <2>3, EndsRead, TossUntouched DEF Lose, RolledBack
  <2>4. ASSUME NEW h \in Handlers, ReadPurchase(h) PROVE TossInv'
    BY <2>4, HandlerOf DEF ReadPurchase, GoogleNotice, OnlyToss
  <2>5. ASSUME NEW o \in Orders, NEW state \in StoreStates, StoreChanges(o, state) PROVE TossInv'
    BY <2>5, TossUntouched DEF StoreChanges, NoneReads
  <2>6. ASSUME NEW u \in Users,
               (\E price \in Prices : Spend(u, price) \/ GiveBack(u, price)) \/ Register(u)
        PROVE  TossInv'
    BY <2>6, TossUntouched DEF Spend, GiveBack, Register, NoneReads
  <2>7. CASE UNCHANGED vars
    BY <2>7, TossUntouched DEF vars, NoneReads
  <2> QED
    BY <2>1, <2>2, <2>3, <2>4, <2>5, <2>6, <2>7, TossStart, TossApply, TossReconcile, TossConsume
       DEF Next, Proceed
<1>3. TossInv => RefundTakesAll
  BY DEF TossInv, Settled, RefundTakesAll
<1> QED
  BY <1>1, <1>2, <1>3, TypeInvHolds, PTL DEF Spec
-----------------------------------------------------------------------------
(* The accounts' balances and the ledger.  A handler may write a row it read before others wrote   *)
(* it, but it writes only columns it changed, and the ledger's unique keys let one transaction     *)
(* grant, one take back and one give again: what it remembers is enough to say what it moves.      *)
UsersActive == \A o \in Orders : row[o].user # NoUser => person[row[o].user] = "active"
NewcomersOweNothing ==
  \A u \in Users : person[u] = "new" => purchased[u] = 0 /\ debt[u] = 0 /\ spent[u] = 0

(* What the ledger holds of an order is what its row says. *)
Booked(o) ==
  /\ row[o].granted = entries[o].purchase
  /\ row[o].chargeback = entries[o].chargeback - entries[o].reversal
  /\ entries[o].chargeback > 0 => entries[o].purchase > 0
RowsBooked ==
  \A o \in Orders :
    /\ row[o].status = "none" => entries[o] = NoEntries /\ row[o].chargeback = 0
    /\ row[o].user # NoUser => Booked(o)

(* What a handler that read a row still knows of it. *)
Remembers(o, seen) ==
  /\ row[o].status # "none" /\ row[o].user \in {seen.user, NoUser}
  /\ seen.user # NoUser /\ row[o].user = NoUser => person[seen.user] = "gone"
  /\ row[o].user # NoUser =>
       /\ seen.granted \in {0, row[o].granted}
       /\ entries[o].chargeback = 0 => seen.chargeback = 0
       /\ entries[o].reversal = 0 => seen.chargeback \in {0, row[o].chargeback}
ReadersRemember ==
  \A h \in Handlers :
    handler[h].step = "read" /\ handler[h].seen # NoRow =>
      handler[h].status # "PAYMENT_COMPLETED" /\ Remembers(handler[h].order, handler[h].seen)

BalanceInv == UsersActive /\ NewcomersOweNothing /\ RowsBooked /\ ReadersRemember /\ BalanceExplained

(* What a purchase is worth to an account. *)
Share(r, u) == IF r.user = u THEN r.granted - r.chargeback ELSE 0
Shares(rows, u) == [o \in Orders |-> Share(rows[o], u)]

LEMMA KeptShares ==
  ASSUME NEW u \in Users
  PROVE  Kept(u) = Total(Shares(row, u), NumOrders) /\ Kept(u)' = Total(Shares(row', u), NumOrders)
<1>1. [o \in Orders |-> IF o \in Bought(u)
                        THEN [q \in Orders |-> row[q].granted - row[q].chargeback][o] ELSE 0] = Shares(row, u)
  BY DEF Bought, Shares, Share
<1>2. [o \in Orders |-> IF o \in Bought(u)'
                        THEN [q \in Orders |-> row'[q].granted - row'[q].chargeback][o] ELSE 0] = Shares(row', u)
  BY DEF Bought, Shares, Share
<1> QED
  BY <1>1, <1>2 DEF Kept, SumOf

LEMMA SharesInt ==
  ASSUME NEW rows \in [Orders -> Row], NEW u
  PROVE  /\ Shares(rows, u) \in [1..NumOrders -> Int] /\ NumOrders \in Nat
         /\ Total(Shares(rows, u), NumOrders) \in Int
<1>1. \A o \in Orders : Share(rows[o], u) \in Int
  BY RowOf DEF Share
<1>2. Shares(rows, u) \in [1..NumOrders -> Int] /\ NumOrders \in Nat
  BY <1>1, PurchaseAssumption DEF Shares, Orders
<1> QED
  BY <1>2, TotalInt

LEMMA SharesMoved ==
  ASSUME NEW r \in [Orders -> Row], NEW s \in [Orders -> Row], NEW o \in Orders, NEW u,
         \A q \in Orders \ {o} : s[q] = r[q]
  PROVE  Total(Shares(s, u), NumOrders) = Total(Shares(r, u), NumOrders) + (Share(s[o], u) - Share(r[o], u))
<1> DEFINE moved == Share(s[o], u) - Share(r[o], u)
           point == [q \in 1..NumOrders |-> IF q = o THEN moved ELSE 0]
<1>1. Share(s[o], u) \in Int /\ Share(r[o], u) \in Int
  BY RowOf DEF Share
<1>2. moved \in Int /\ Orders = 1..NumOrders
  BY <1>1 DEF Orders
<1> HIDE DEF moved
<1>3. point \in [1..NumOrders -> Int] /\ point[o] = moved /\ \A q \in 1..NumOrders : q # o => point[q] = 0
  BY <1>2
<1>4. \A q \in 1..NumOrders : Shares(s, u)[q] = Shares(r, u)[q] + point[q]
  <2> TAKE q \in 1..NumOrders
  <2>1. Shares(s, u)[q] = Share(s[q], u) /\ Shares(r, u)[q] = Share(r[q], u) /\ Share(r[q], u) \in Int
    BY <1>2, RowOf DEF Shares, Share
  <2>2. CASE q = o
    BY <1>1, <1>3, <2>1, <2>2 DEF moved
  <2>3. CASE q # o
    BY <1>2, <1>3, <2>1, <2>3
  <2> QED
    BY <2>2, <2>3
<1> HIDE DEF point
<1>5. Total(point, NumOrders) = moved
  BY <1>2, <1>3, SharesInt, TotalPoint
<1>6. Total(Shares(s, u), NumOrders) = Total(Shares(r, u), NumOrders) + Total(point, NumOrders)
  BY <1>3, <1>4, SharesInt, TotalAdd
<1> QED
  BY <1>5, <1>6 DEF moved

LEMMA NoShares ==
  ASSUME NEW r \in [Orders -> Row], NEW u, \A o \in Orders : Share(r[o], u) = 0
  PROVE  Total(Shares(r, u), NumOrders) = 0
<1>1. 1 \in 1..NumOrders /\ Orders = 1..NumOrders
  BY PurchaseAssumption DEF Orders
<1>2. \A q \in 1..NumOrders : Shares(r, u)[q] = 0
  BY <1>1 DEF Shares
<1> QED
  BY <1>1, <1>2, SharesInt, TotalPoint

(* What a transaction does to one order, its ledger entries and the accounts. *)
RowMoves(o) ==
  /\ \A q \in Orders \ {o} : row'[q] = row[q] /\ entries'[q] = entries[q]
  /\ row'[o].status # "none"
  /\ IF row[o].status = "none" THEN row'[o].user \in Users /\ person[row'[o].user] = "active"
     ELSE row'[o].user = row[o].user
  /\ row[o].user # NoUser =>
       /\ row[o].granted \in {0, row'[o].granted}
       /\ row'[o].chargeback = row[o].chargeback \/ entries[o].chargeback = 0 \/ entries'[o].reversal # 0
       /\ entries'[o].chargeback = 0 => entries[o].chargeback = 0
       /\ entries'[o].reversal = 0 => entries[o].reversal = 0
  /\ row'[o].user # NoUser => Booked(o)'
  /\ person' = person /\ spent' = spent
  /\ \A u \in Users : person[u] # "active" => purchased'[u] = purchased[u] /\ debt'[u] = debt[u]
  /\ \A u \in Users :
       purchased'[u] - debt'[u] = purchased[u] - debt[u] + (Share(row'[o], u) - Share(row[o], u))

LEMMA BalanceMoved ==
  ASSUME TypeInv, TypeInv', BonusInv, BalanceInv, NEW o \in Orders, RowMoves(o), NoneReads
  PROVE  BalanceInv'
<1> USE DEF RowMoves
<1>1. UsersActive'
  BY DEF BalanceInv, UsersActive
<1>2. NewcomersOweNothing'
  BY DEF BalanceInv, NewcomersOweNothing
<1>3. RowsBooked'
  <2> SUFFICES ASSUME NEW q \in Orders
               PROVE  /\ row'[q].status = "none" => entries'[q] = NoEntries /\ row'[q].chargeback = 0
                      /\ row'[q].user # NoUser => Booked(q)'
    BY DEF RowsBooked
  <2>1. CASE q = o
    BY <2>1
  <2>2. CASE q # o
    BY <2>2 DEF BalanceInv, RowsBooked, Booked
  <2> QED
    BY <2>1, <2>2
<1>4. ASSUME NEW seen \in Row, NEW q \in Orders, Remembers(q, seen)
      PROVE  Remembers(q, seen)'
  <2>1. CASE q # o
    BY <1>4, <2>1 DEF Remembers
  <2>2. CASE q = o
    BY <1>4, <2>2 DEF Remembers
  <2> QED
    BY <2>1, <2>2
<1>5. ReadersRemember'
  BY <1>4, HandlerOf DEF BalanceInv, ReadersRemember, NoneReads
<1>6. BalanceExplained'
  <2> SUFFICES ASSUME NEW u \in Users, person'[u] = "active"
               PROVE  purchased'[u] - debt'[u] + spent'[u] = Kept(u)'
    BY DEF BalanceExplained
  <2>1. /\ row \in [Orders -> Row] /\ row' \in [Orders -> Row] /\ purchased[u] \in Nat /\ debt[u] \in Nat
        /\ spent[u] \in Nat /\ purchased'[u] \in Nat /\ debt'[u] \in Nat
    BY DEF TypeInv, TypeOK
  <2>2. purchased[u] - debt[u] + spent[u] = Kept(u)
    BY DEF BalanceInv, BalanceExplained
  <2>3. Kept(u)' = Kept(u) + (Share(row'[o], u) - Share(row[o], u)) /\ Kept(u) \in Int
    BY <2>1, KeptShares, SharesMoved, SharesInt
  <2>4. Share(row'[o], u) \in Int /\ Share(row[o], u) \in Int
    BY <2>1, RowOf DEF Share
  <2>5. purchased'[u] - debt'[u] = purchased[u] - debt[u] + (Share(row'[o], u) - Share(row[o], u))
        /\ spent'[u] = spent[u]
    OBVIOUS
  <2> HIDE DEF RowMoves
  <2> QED
    BY <2>1, <2>2, <2>3, <2>4, <2>5
<1> QED
  BY <1>1, <1>2, <1>3, <1>5, <1>6 DEF BalanceInv

(* The entry a transaction adds to the ledger is one that OrderEntitlement promises. *)
Pays(o) ==
  \/ entries'[o] = entries[o]
  \/ /\ entries[o] = NoEntries /\ entries'[o].purchase > 0 /\ row'[o].user # NoUser
     /\ entries'[o] = [entries[o] EXCEPT !.purchase = entries'[o].purchase]
  \/ /\ entries[o].purchase > 0 /\ entries[o].chargeback = 0
     /\ entries'[o] = [entries[o] EXCEPT !.chargeback = entries[o].purchase]
  \/ /\ entries[o].chargeback > 0 /\ entries[o].reversal = 0
     /\ entries'[o] = [entries[o] EXCEPT !.reversal = entries[o].chargeback]
EntitlementStep == Abstract!Next \/ UNCHANGED Entitlements

Entitlement(r, e) ==
  [purchase |-> e.purchase, chargeback |-> e.chargeback, reversal |-> e.reversal,
   closed |-> r.status # "none" /\ r.user = NoUser]

LEMMA EntitlementOf ==
  ASSUME NEW o \in Orders
  PROVE  Entitlements[o] = Entitlement(row[o], entries[o]) /\ Entitlements'[o] = Entitlement(row'[o], entries'[o])
BY DEF Entitlements, Entitlement

LEMMA EntitlementMoved ==
  ASSUME TypeInv, TypeInv', BonusInv, NEW o \in Orders, RowMoves(o), Pays(o)
  PROVE  EntitlementStep
<1> DEFINE before == Entitlement(row[o], entries[o])
           after == Entitlement(row'[o], entries'[o])
<1>1. \A q \in Orders \ {o} : Entitlements'[q] = Entitlements[q]
  BY EntitlementOf DEF RowMoves
<1>2. Entitlements[o] = before /\ Entitlements'[o] = after /\ after.closed = before.closed
  BY EntitlementOf, PurchaseAssumption DEF Entitlement, RowMoves, BonusInv, EmptyRows
<1>3. entries[o] \in Entries /\ entries'[o] \in Entries
  BY DEF TypeInv, TypeOK
<1>4. CASE entries'[o] = entries[o]
  <2>1. Entitlements'[o] = Entitlements[o]
    BY <1>2, <1>4 DEF Entitlement
  <2>2. Entitlements' = Entitlements
    BY <1>1, <2>1 DEF Entitlements
  <2> QED
    BY <2>2 DEF EntitlementStep
<1>5. CASE entries'[o] # entries[o]
  <2>1. Abstract!Grant(before, after) \/ Abstract!TakeBack(before, after) \/ Abstract!GiveAgain(before, after)
    <3>1. CASE /\ entries[o] = NoEntries /\ entries'[o].purchase > 0 /\ row'[o].user # NoUser
               /\ entries'[o] = [entries[o] EXCEPT !.purchase = entries'[o].purchase]
      <4>1. ~ after.closed /\ ~ before.closed
        BY <1>2, <3>1 DEF Entitlement
      <4>2. before = Abstract!Nothing
        <5>1. before.closed = FALSE /\ before.purchase = 0 /\ before.chargeback = 0 /\ before.reversal = 0
          BY <3>1, <4>1 DEF Entitlement, NoEntries
        <5>2. before = [purchase |-> before.purchase, chargeback |-> before.chargeback,
                        reversal |-> before.reversal, closed |-> before.closed]
          BY DEF Entitlement
        <5> HIDE DEF before
        <5> QED
          BY <5>1, <5>2 DEF Abstract!Nothing
      <4>3. after.purchase > 0 /\ after = [before EXCEPT !.purchase = after.purchase]
        BY <1>2, <1>3, <3>1 DEF Entitlement, Entries
      <4> QED
        BY <4>2, <4>3 DEF Abstract!Grant
    <3>2. CASE /\ entries[o].purchase > 0 /\ entries[o].chargeback = 0
               /\ entries'[o] = [entries[o] EXCEPT !.chargeback = entries[o].purchase]
      BY <1>2, <1>3, <3>2 DEF Abstract!TakeBack, Entitlement, Entries
    <3>3. CASE /\ entries[o].chargeback > 0 /\ entries[o].reversal = 0
               /\ entries'[o] = [entries[o] EXCEPT !.reversal = entries[o].chargeback]
      BY <1>2, <1>3, <3>3 DEF Abstract!GiveAgain, Entitlement, Entries
    <3> QED
      BY <1>5, <3>1, <3>2, <3>3 DEF Pays
  <2> HIDE DEF before, after
  <2>2. Abstract!Change(o)
    BY <1>1, <1>2, <2>1 DEF Abstract!Change
  <2> QED
    BY <2>2 DEF EntitlementStep, Abstract!Next
<1> QED
  BY <1>4, <1>5

(* What a transaction knows of the row it has locked. *)
Sees(o, seen) ==
  IF row[o].status = "none"
  THEN seen.status = "processing" /\ seen.user \in Users /\ person[seen.user] = "active"
       /\ seen.granted = 0 /\ seen.chargeback = 0
  ELSE Remembers(o, seen)

LEMMA SeesLocked ==
  ASSUME TypeInv, BalanceInv, NEW o \in Orders, row[o].status # "none"
  PROVE  Sees(o, row[o]) /\ Remembers(o, row[o])
<1>1. row[o] \in Row /\ entries[o].chargeback \in Nat /\ entries[o].reversal \in Nat
  BY DEF TypeInv, TypeOK, Entries
<1>2. row[o].user # NoUser /\ entries[o].chargeback = 0 => row[o].chargeback = 0
  BY <1>1, RowOf DEF BalanceInv, RowsBooked, Booked
<1> QED
  BY <1>1, <1>2 DEF Sees, Remembers

LEMMA WrittenColumns ==
  ASSUME TypeInv, BonusInv, BalanceInv, NEW o \in Orders, NEW seen \in Row, NEW new \in Row, Sees(o, seen),
         Write(o, seen, new), new.user = seen.user, new.status # "none"
  PROVE  /\ \A q \in Orders \ {o} : row'[q] = row[q]
         /\ row'[o].status # "none"
         /\ row'[o].user = IF row[o].status = "none" THEN seen.user ELSE row[o].user
         /\ row'[o].granted = Pick(row[o].granted, seen.granted, new.granted)
         /\ row'[o].chargeback = Pick(row[o].chargeback, seen.chargeback, new.chargeback)
<1>1. row[o] \in Row /\ row \in [Orders -> Row]
  BY DEF TypeInv, TypeOK
<1>2. row[o].status = "none" => row[o].granted = 0 /\ row[o].chargeback = 0
  BY DEF BonusInv, EmptyRows, BalanceInv, RowsBooked
<1>3. CASE row[o].status = "none"
  BY <1>1, <1>2, <1>3, Written DEF Pick, Sees
<1>4. CASE row[o].status # "none"
  BY <1>1, <1>4, Written, MergedRow DEF Pick
<1> QED
  BY <1>1, <1>3, <1>4, Written

(* A transaction that moves no credits. *)
LEMMA UnpaidMoves ==
  ASSUME TypeInv, TypeInv', BonusInv, BalanceInv, NEW o \in Orders, NEW seen \in Row, NEW new \in Row,
         Sees(o, seen), Write(o, seen, new), new.user = seen.user, new.status # "none",
         new.granted = seen.granted, seen.user # NoUser => new.chargeback = seen.chargeback,
         UNCHANGED <<entries, person, purchased, debt, spent>>
  PROVE  RowMoves(o) /\ Pays(o)
<1>1. /\ \A q \in Orders \ {o} : row'[q] = row[q]
      /\ row'[o].status # "none"
      /\ row'[o].user = IF row[o].status = "none" THEN seen.user ELSE row[o].user
      /\ row'[o].granted = row[o].granted
      /\ row[o].user # NoUser \/ row[o].status = "none" => row'[o].chargeback = row[o].chargeback
  <2>1. row[o].user # NoUser \/ row[o].status = "none" => seen.user # NoUser
    BY PurchaseAssumption DEF Sees, Remembers
  <2> QED
    BY <2>1, WrittenColumns DEF Pick
<1>2. row[o] \in Row /\ row'[o] \in Row
  BY DEF TypeInv, TypeOK
<1>3. row[o].status = "none" => row[o].granted = 0 /\ row[o].chargeback = 0 /\ row[o].user = NoUser
                                /\ entries[o] = NoEntries /\ seen.user \in Users /\ person[seen.user] = "active"
  BY DEF BonusInv, EmptyRows, BalanceInv, RowsBooked, Sees
<1>4. \A u \in Users : Share(row'[o], u) = Share(row[o], u) /\ Share(row[o], u) \in Int
  BY <1>1, <1>2, <1>3, RowOf, PurchaseAssumption DEF Share
<1>5. \A u \in Users :
        purchased'[u] - debt'[u] = purchased[u] - debt[u] + (Share(row'[o], u) - Share(row[o], u))
  BY <1>4 DEF TypeInv, TypeOK
<1>6. row'[o].user # NoUser => Booked(o)'
  <2>1. CASE row[o].status = "none"
    BY <1>1, <1>3, <2>1 DEF Booked, NoEntries
  <2>2. CASE row[o].status # "none"
    BY <1>1, <2>2 DEF Booked, BalanceInv, RowsBooked
  <2> QED
    BY <2>1, <2>2
<1>7. IF row[o].status = "none" THEN row'[o].user \in Users /\ person[row'[o].user] = "active"
      ELSE row'[o].user = row[o].user
  BY <1>1, <1>3
<1> QED
  BY <1>1, <1>5, <1>6, <1>7 DEF RowMoves, Pays

(* What an account gets, or gives up, is the change of its balance less its debt. *)
LEMMA GivesMoves ==
  ASSUME TypeInv, NEW u \in Users, NEW amount \in Nat, Gives(u, amount)
  PROVE  /\ \A v \in Users \ {u} : purchased'[v] = purchased[v] /\ debt'[v] = debt[v]
         /\ purchased'[u] - debt'[u] = purchased[u] - debt[u] + amount
<1>1. Least2(debt[u], amount) \in Nat /\ purchased[u] \in Nat /\ debt[u] \in Nat
  BY Leasts DEF TypeInv, TypeOK
<1>2. debt' = [debt EXCEPT ![u] = debt[u] - Least2(debt[u], amount)]
      /\ purchased' = [purchased EXCEPT ![u] = purchased[u] + amount - Least2(debt[u], amount)]
  BY DEF Gives, TypeInv, TypeOK
<1> QED
  BY <1>1, <1>2 DEF TypeInv, TypeOK

LEMMA TakesMoves ==
  ASSUME TypeInv, NEW u \in Users, NEW amount \in Nat, Takes(u, amount)
  PROVE  /\ \A v \in Users \ {u} : purchased'[v] = purchased[v] /\ debt'[v] = debt[v]
         /\ purchased'[u] - debt'[u] = purchased[u] - debt[u] - amount
<1>1. Least2(purchased[u], amount) \in Nat /\ purchased[u] \in Nat /\ debt[u] \in Nat
  BY Leasts DEF TypeInv, TypeOK
<1>2. purchased' = [purchased EXCEPT ![u] = purchased[u] - Least2(purchased[u], amount)]
      /\ debt' = [debt EXCEPT ![u] = debt[u] + amount - Least2(purchased[u], amount)]
  BY DEF Takes, TypeInv, TypeOK
<1> QED
  BY <1>1, <1>2 DEF TypeInv, TypeOK

(* The accounts' part of RowMoves, where one account moves. *)
LEMMA SharesOfOne ==
  ASSUME TypeInv, TypeInv', NEW o \in Orders, NEW u \in Users, NEW amount \in Int,
         row'[o].user = u, row[o].user \in {u, NoUser},
         \A v \in Users \ {u} : purchased'[v] = purchased[v] /\ debt'[v] = debt[v],
         purchased'[u] - debt'[u] = purchased[u] - debt[u] + amount,
         row'[o].granted - row'[o].chargeback = Share(row[o], u) + amount
  PROVE  \A v \in Users :
           purchased'[v] - debt'[v] = purchased[v] - debt[v] + (Share(row'[o], v) - Share(row[o], v))
<1> SUFFICES ASSUME NEW v \in Users
             PROVE  purchased'[v] - debt'[v] = purchased[v] - debt[v] + (Share(row'[o], v) - Share(row[o], v))
  OBVIOUS
<1>1. row[o] \in Row /\ row'[o] \in Row /\ purchased[v] \in Nat /\ debt[v] \in Nat
  BY DEF TypeInv, TypeOK
<1>2. Share(row[o], v) \in Int /\ Share(row'[o], v) \in Int
  BY <1>1, RowOf DEF Share
<1>3. CASE v = u
  BY <1>1, <1>2, <1>3 DEF Share
<1>4. CASE v # u
  <2>1. Share(row[o], v) = 0 /\ Share(row'[o], v) = 0
    BY <1>4, PurchaseAssumption DEF Share
  <2> QED
    BY <1>1, <1>4, <2>1
<1> QED
  BY <1>3, <1>4

(* One entry of an order is added to the ledger. *)
LEMMA EntryOfOrder ==
  ASSUME TypeInv, NEW o \in Orders, NEW amount \in Nat
  PROVE  /\ entries[o].purchase = 0 /\ entries' = [entries EXCEPT ![o].purchase = @ + amount]
              => entries'[o] = [entries[o] EXCEPT !.purchase = amount]
         /\ entries[o].chargeback = 0 /\ entries' = [entries EXCEPT ![o].chargeback = @ + amount]
              => entries'[o] = [entries[o] EXCEPT !.chargeback = amount]
         /\ entries[o].reversal = 0 /\ entries' = [entries EXCEPT ![o].reversal = @ + amount]
              => entries'[o] = [entries[o] EXCEPT !.reversal = amount]
<1>1. entries \in [Orders -> Entries] /\ 0 + amount = amount
  BY DEF TypeInv, TypeOK
<1>2. ASSUME entries[o].purchase = 0, entries' = [entries EXCEPT ![o].purchase = @ + amount]
      PROVE  entries'[o] = [entries[o] EXCEPT !.purchase = amount]
  <2>1. entries'[o] = [entries[o] EXCEPT !.purchase = entries[o].purchase + amount]
    BY <1>1, <1>2
  <2> QED
    BY <1>1, <1>2, <2>1
<1>3. ASSUME entries[o].chargeback = 0, entries' = [entries EXCEPT ![o].chargeback = @ + amount]
      PROVE  entries'[o] = [entries[o] EXCEPT !.chargeback = amount]
  <2>1. entries'[o] = [entries[o] EXCEPT !.chargeback = entries[o].chargeback + amount]
    BY <1>1, <1>3
  <2> QED
    BY <1>1, <1>3, <2>1
<1>4. ASSUME entries[o].reversal = 0, entries' = [entries EXCEPT ![o].reversal = @ + amount]
      PROVE  entries'[o] = [entries[o] EXCEPT !.reversal = amount]
  <2>1. entries'[o] = [entries[o] EXCEPT !.reversal = entries[o].reversal + amount]
    BY <1>1, <1>4
  <2> QED
    BY <1>1, <1>4, <2>1
<1> QED
  BY <1>2, <1>3, <1>4

LEMMA GrantMoves ==
  ASSUME TypeInv, TypeInv', BonusInv, BalanceInv, NEW h \in Handlers, NEW o \in Orders, NEW seen \in Row,
         Sees(o, seen), Fresh(o, seen), seen.user \in Users, Grant(h, o, seen, seen.user), ~ RolledBack(h)
  PROVE  RowMoves(o) /\ Pays(o) /\ Granted(h)
<1> DEFINE u == seen.user
           bonus == FirstBonus(o, u)
           total == Credits[o] + bonus
           new == [seen EXCEPT !.status = "granted", !.granted = total, !.bonus = bonus]
<1>1. bonus \in Nat /\ total \in Nat /\ total > 0
  <2>1. bonus \in Nat /\ Credits[o] \in Nat \ {0}
    BY BonusTyped, PurchaseAssumption
  <2> HIDE DEF bonus
  <2> QED
    BY <2>1
<1>2. /\ entries[o].purchase = 0 /\ Gives(u, total) /\ Write(o, seen, new) /\ Granted(h)
      /\ entries' = [entries EXCEPT ![o].purchase = @ + total]
      /\ UNCHANGED <<history, consumed, person, spent>>
  BY Zenon DEF Grant, Taken
<1>3. /\ new \in Row /\ new.status = "granted" /\ new.user = u /\ new.granted = total
      /\ new.chargeback = seen.chargeback
  <2> HIDE DEF bonus, total, u
  <2> QED
    BY <1>1 DEF Row, u
<1> HIDE DEF bonus, total, new
<1>4. row[o] \in Row /\ entries[o] \in Entries /\ u # NoUser
  BY PurchaseAssumption DEF TypeInv, TypeOK
<1>5. /\ person[u] = "active" /\ row[o].granted = 0 /\ row[o].chargeback = 0
      /\ entries[o].chargeback = 0 /\ entries[o].reversal = 0
      /\ seen.granted = 0 /\ row[o].user \in {u, NoUser} /\ (row[o].status # "none" => row[o].user = u)
  <2>1. CASE row[o].status = "none"
    BY <2>1 DEF Sees, BonusInv, EmptyRows, BalanceInv, RowsBooked, NoEntries
  <2>2. CASE row[o].status # "none"
    <3>1. seen = row[o] /\ Booked(o) /\ person[u] = "active"
      BY <1>4, <2>2 DEF Fresh, BalanceInv, RowsBooked, UsersActive
    <3>2. entries[o].chargeback \in Nat /\ entries[o].reversal \in Nat /\ row[o].chargeback \in Nat
      BY <1>4, RowOf DEF Entries
    <3> QED
      BY <1>2, <3>1, <3>2 DEF Booked
  <2> QED
    BY <2>1, <2>2
<1>6. /\ \A q \in Orders \ {o} : row'[q] = row[q]
      /\ row'[o].status # "none" /\ row'[o].user = u /\ row'[o].granted = total /\ row'[o].chargeback = 0
  BY <1>1, <1>2, <1>3, <1>5, WrittenColumns DEF Pick
<1>7. entries[o] = NoEntries
  BY <1>2, <1>4, <1>5 DEF Entries, NoEntries
<1>8. /\ \A q \in Orders \ {o} : entries'[q] = entries[q]
      /\ entries'[o] = [entries[o] EXCEPT !.purchase = total]
      /\ entries'[o].purchase = total /\ entries'[o].chargeback = 0 /\ entries'[o].reversal = 0
  <2>1. entries'[o] = [entries[o] EXCEPT !.purchase = total]
    BY <1>1, <1>2, EntryOfOrder
  <2>2. \A q \in Orders \ {o} : entries'[q] = entries[q]
    BY <1>2 DEF TypeInv, TypeOK
  <2> QED
    BY <1>7, <2>1, <2>2 DEF NoEntries
<1>9. /\ \A v \in Users \ {u} : purchased'[v] = purchased[v] /\ debt'[v] = debt[v]
      /\ purchased'[u] - debt'[u] = purchased[u] - debt[u] + total
  BY <1>1, <1>2, GivesMoves
<1>10. row'[o].granted - row'[o].chargeback = Share(row[o], u) + total
  BY <1>1, <1>5, <1>6 DEF Share
<1>11. \A v \in Users :
         purchased'[v] - debt'[v] = purchased[v] - debt[v] + (Share(row'[o], v) - Share(row[o], v))
  BY <1>1, <1>5, <1>6, <1>9, <1>10, SharesOfOne
<1>12. Booked(o)'
  BY <1>1, <1>6, <1>8 DEF Booked
<1>13. RowMoves(o)
  BY <1>2, <1>5, <1>6, <1>8, <1>9, <1>11, <1>12 DEF RowMoves
<1>14. Pays(o)
  BY <1>1, <1>4, <1>6, <1>7, <1>8 DEF Pays
<1> QED
  BY <1>2, <1>13, <1>14

LEMMA RefundMoves ==
  ASSUME TypeInv, TypeInv', BonusInv, BalanceInv, NEW h \in Handlers, NEW o \in Orders, NEW seen \in Row,
         Sees(o, seen), Refund(h, o, seen), ~ Untouched(h), ~ RolledBack(h)
  PROVE  RowMoves(o) /\ Pays(o) /\ Done(h)
<1> DEFINE u == seen.user
           back == ToTakeBack(seen)
           paid == u # NoUser /\ back > 0
           charged == seen.chargeback + back
           new == [seen EXCEPT !.status = "refunded", !.chargeback = charged]
<1>1. /\ back \in Nat /\ charged \in Nat /\ u \in Users \cup {NoUser} /\ seen.chargeback \in Nat
      /\ seen.granted \in Nat
      /\ (back > 0 => seen.granted > 0 /\ back = seen.granted - seen.chargeback)
  BY RowOf, Floors DEF ToTakeBack, Floor0
<1>2. /\ ~ Orphaned(seen) /\ ~ (paid /\ Taken(o, "chargeback"))
      /\ Write(o, seen, new) /\ Done(h)
      /\ IF paid THEN Takes(u, back) /\ entries' = [entries EXCEPT ![o].chargeback = @ + back]
         ELSE UNCHANGED <<purchased, debt, entries>>
      /\ UNCHANGED <<history, consumed, person, spent, rewarded>>
  BY RowOf, Zenon DEF Refund
<1>3. /\ new \in Row /\ new.status = "refunded" /\ new.user = u /\ new.granted = seen.granted
      /\ new.chargeback = charged
  <2> HIDE DEF charged, u
  <2> QED
    BY <1>1 DEF Row, u
<1> HIDE DEF new, back
<1>4. CASE ~ paid
  <2>1. u # NoUser => new.chargeback = seen.chargeback
    BY <1>1, <1>3, <1>4
  <2>2. UNCHANGED <<entries, person, purchased, debt, spent>>
    BY <1>2, <1>4
  <2> QED
    BY <1>2, <1>3, <2>1, <2>2, UnpaidMoves
<1>5. CASE paid
  <2>1. /\ entries[o].chargeback = 0 /\ Takes(u, back)
        /\ entries' = [entries EXCEPT ![o].chargeback = @ + back] /\ u \in Users /\ person[u] = "active"
    BY <1>1, <1>2, <1>5 DEF Taken, Orphaned
  <2>2. row[o] \in Row /\ entries[o] \in Entries
    BY DEF TypeInv, TypeOK
  <2>3. row[o].status # "none" /\ row[o].user = u
    BY <1>1, <1>5, <2>1 DEF Sees, Remembers
  <2>4. Booked(o) /\ seen.chargeback = 0 /\ seen.granted = row[o].granted
    BY <1>1, <1>5, <2>1, <2>3 DEF Sees, Remembers, BalanceInv, RowsBooked
  <2>5. back = row[o].granted /\ row[o].granted = entries[o].purchase /\ row[o].chargeback = 0
        /\ entries[o].reversal = 0 /\ row[o].granted \in Nat
    BY <1>1, <1>5, <2>1, <2>2, <2>4, RowOf DEF Booked, Entries
  <2>6. /\ \A q \in Orders \ {o} : row'[q] = row[q]
        /\ row'[o].status # "none" /\ row'[o].user = u
        /\ row'[o].granted = row[o].granted /\ row'[o].chargeback = back
    BY <1>1, <1>2, <1>3, <1>5, <2>3, <2>4, WrittenColumns DEF Pick
  <2>7. /\ \A q \in Orders \ {o} : entries'[q] = entries[q]
        /\ entries'[o] = [entries[o] EXCEPT !.chargeback = back]
        /\ entries'[o].purchase = back /\ entries'[o].chargeback = back /\ entries'[o].reversal = 0
    <3>1. entries'[o] = [entries[o] EXCEPT !.chargeback = back]
      BY <1>1, <2>1, EntryOfOrder
    <3>2. \A q \in Orders \ {o} : entries'[q] = entries[q]
      BY <2>1 DEF TypeInv, TypeOK
    <3> QED
      BY <2>2, <2>5, <3>1, <3>2 DEF Entries
  <2>8. /\ \A v \in Users \ {u} : purchased'[v] = purchased[v] /\ debt'[v] = debt[v]
        /\ purchased'[u] - debt'[u] = purchased[u] - debt[u] - back
    BY <1>1, <2>1, TakesMoves
  <2>9. row'[o].granted - row'[o].chargeback = Share(row[o], u) + (0 - back)
    BY <1>1, <2>3, <2>5, <2>6 DEF Share
  <2>10. purchased'[u] - debt'[u] = purchased[u] - debt[u] + (0 - back) /\ 0 - back \in Int
    <3>1. purchased[u] \in Nat /\ debt[u] \in Nat
      BY <2>1 DEF TypeInv, TypeOK
    <3> QED
      BY <1>1, <2>8, <3>1
  <2>11. \A v \in Users :
           purchased'[v] - debt'[v] = purchased[v] - debt[v] + (Share(row'[o], v) - Share(row[o], v))
    BY <2>1, <2>3, <2>6, <2>8, <2>9, <2>10, SharesOfOne
  <2>12. Booked(o)'
    BY <1>1, <2>5, <2>6, <2>7 DEF Booked
  <2>13. RowMoves(o)
    BY <1>2, <2>1, <2>3, <2>5, <2>6, <2>7, <2>8, <2>11, <2>12 DEF RowMoves
  <2>14. Pays(o)
    BY <1>1, <1>5, <2>1, <2>5, <2>7 DEF Pays
  <2> QED
    BY <1>2, <2>13, <2>14
<1> QED
  BY <1>4, <1>5

LEMMA RestoreMoves ==
  ASSUME TypeInv, TypeInv', BonusInv, BalanceInv, NEW h \in Handlers, NEW o \in Orders, NEW seen \in Row,
         Sees(o, seen), Restore(h, o, seen), ~ Untouched(h), ~ RolledBack(h),
         ~ (Becomes(o, seen, "review") /\ Fails(h))
  PROVE  RowMoves(o) /\ Pays(o) /\ Done(h)
<1> DEFINE u == seen.user
           again == seen.chargeback
           paid == u # NoUser /\ again > 0
           new == [seen EXCEPT !.status = "granted", !.chargeback = 0]
<1>1. again \in Nat /\ u \in Users \cup {NoUser}
  BY RowOf
<1>2. /\ ~ Orphaned(seen) /\ ~ (paid /\ Taken(o, "reversal"))
      /\ Write(o, seen, new) /\ Done(h)
      /\ IF paid THEN Gives(u, again) /\ entries' = [entries EXCEPT ![o].reversal = @ + again]
         ELSE UNCHANGED <<purchased, debt, entries>>
      /\ UNCHANGED <<history, consumed, person, spent, rewarded>>
  BY Zenon DEF Restore
<1>3. /\ new \in Row /\ new.status = "granted" /\ new.user = u /\ new.granted = seen.granted
      /\ new.chargeback = 0
  BY DEF Row
<1> HIDE DEF new
<1>4. CASE ~ paid
  <2>1. u # NoUser => new.chargeback = seen.chargeback
    BY <1>1, <1>3, <1>4
  <2>2. UNCHANGED <<entries, person, purchased, debt, spent>>
    BY <1>2, <1>4
  <2> QED
    BY <1>2, <1>3, <2>1, <2>2, UnpaidMoves
<1>5. CASE paid
  <2>1. /\ entries[o].reversal = 0 /\ Gives(u, again)
        /\ entries' = [entries EXCEPT ![o].reversal = @ + again] /\ u \in Users /\ person[u] = "active"
    BY <1>1, <1>2, <1>5 DEF Taken, Orphaned
  <2>2. row[o] \in Row /\ entries[o] \in Entries
    BY DEF TypeInv, TypeOK
  <2>3. row[o].status # "none" /\ row[o].user = u
    BY <1>1, <1>5, <2>1 DEF Sees, Remembers
  <2>4. Booked(o) /\ again = row[o].chargeback /\ entries[o].chargeback # 0
    BY <1>1, <1>5, <2>1, <2>3 DEF Sees, Remembers, BalanceInv, RowsBooked
  <2>5. again = entries[o].chargeback /\ row[o].granted = entries[o].purchase /\ row[o].granted \in Nat
        /\ again > 0
    BY <1>5, <2>1, <2>2, <2>4, RowOf DEF Booked, Entries
  <2>6. /\ \A q \in Orders \ {o} : row'[q] = row[q]
        /\ row'[o].status # "none" /\ row'[o].user = u
        /\ row'[o].granted = row[o].granted /\ row'[o].chargeback = 0
    BY <1>1, <1>2, <1>3, <1>5, <2>3, <2>4, WrittenColumns DEF Pick
  <2>7. /\ \A q \in Orders \ {o} : entries'[q] = entries[q]
        /\ entries'[o] = [entries[o] EXCEPT !.reversal = again]
        /\ entries'[o].purchase = entries[o].purchase /\ entries'[o].chargeback = again
        /\ entries'[o].reversal = again
    <3>1. entries'[o] = [entries[o] EXCEPT !.reversal = again]
      BY <1>1, <2>1, EntryOfOrder
    <3>2. \A q \in Orders \ {o} : entries'[q] = entries[q]
      BY <2>1 DEF TypeInv, TypeOK
    <3> QED
      BY <2>2, <2>5, <3>1, <3>2 DEF Entries
  <2>8. /\ \A v \in Users \ {u} : purchased'[v] = purchased[v] /\ debt'[v] = debt[v]
        /\ purchased'[u] - debt'[u] = purchased[u] - debt[u] + again
    BY <1>1, <2>1, GivesMoves
  <2>9. row'[o].granted - row'[o].chargeback = Share(row[o], u) + again
    BY <1>1, <2>3, <2>4, <2>5, <2>6 DEF Share
  <2>10. \A v \in Users :
           purchased'[v] - debt'[v] = purchased[v] - debt[v] + (Share(row'[o], v) - Share(row[o], v))
    BY <1>1, <2>1, <2>3, <2>6, <2>8, <2>9, SharesOfOne
  <2>11. Booked(o)'
    BY <1>1, <2>2, <2>4, <2>5, <2>6, <2>7 DEF Booked, Entries
  <2>12. RowMoves(o)
    BY <1>2, <2>1, <2>3, <2>5, <2>6, <2>7, <2>8, <2>10, <2>11 DEF RowMoves
  <2>13. Pays(o)
    BY <2>1, <2>2, <2>5, <2>7 DEF Pays, Entries
  <2> QED
    BY <1>2, <2>12, <2>13
<1> QED
  BY <1>4, <1>5

-----------------------------------------------------------------------------
(* Steps that leave the purchases' amounts and what accounts hold, owe and have spent together. *)
AmountsStay ==
  /\ \A o \in Orders : /\ row'[o].status = row[o].status /\ row'[o].user = row[o].user
                       /\ row'[o].granted = row[o].granted /\ row'[o].chargeback = row[o].chargeback
  /\ entries' = entries /\ person' = person
  /\ \A u \in Users :
       /\ purchased'[u] - debt'[u] + spent'[u] = purchased[u] - debt[u] + spent[u]
       /\ person[u] # "active" => purchased'[u] = purchased[u] /\ debt'[u] = debt[u] /\ spent'[u] = spent[u]

LEMMA AmountsUntouched ==
  ASSUME row' = row, UNCHANGED <<entries, person, purchased, debt, spent>>
  PROVE  AmountsStay
BY DEF AmountsStay

LEMMA BooksStay ==
  ASSUME TypeInv, BalanceInv, AmountsStay
  PROVE  /\ UsersActive' /\ NewcomersOweNothing' /\ RowsBooked' /\ BalanceExplained'
         /\ EntitlementStep
         /\ \A o \in Orders, seen \in Row : Remembers(o, seen) => Remembers(o, seen)'
<1> USE DEF AmountsStay
<1>1. UsersActive' /\ NewcomersOweNothing'
  BY DEF BalanceInv, UsersActive, NewcomersOweNothing
<1>2. RowsBooked'
  BY DEF BalanceInv, RowsBooked, Booked
<1>3. \A u \in Users : Kept(u)' = Kept(u)
  <2> SUFFICES ASSUME NEW u \in Users PROVE Kept(u)' = Kept(u)
    OBVIOUS
  <2>1. \A o \in Orders : Share(row'[o], u) = Share(row[o], u)
    BY DEF Share
  <2>2. Shares(row', u) = Shares(row, u)
    BY <2>1 DEF Shares
  <2> QED
    BY <2>2, KeptShares
<1>4. BalanceExplained'
  BY <1>3 DEF BalanceInv, BalanceExplained
<1>5. Entitlements' = Entitlements
  BY DEF Entitlements
<1>6. \A o \in Orders, seen \in Row : Remembers(o, seen) => Remembers(o, seen)'
  BY DEF Remembers
<1> QED
  BY <1>1, <1>2, <1>4, <1>5, <1>6 DEF EntitlementStep

(* No handler begins to wait with a row it read. *)
LEMMA ReadersKeep ==
  ASSUME TypeInv, BalanceInv, AmountsStay, NoneReads
  PROVE  BalanceInv' /\ EntitlementStep
<1>1. ReadersRemember'
  BY BooksStay, HandlerOf DEF NoneReads, BalanceInv, ReadersRemember
<1> QED
  BY <1>1, BooksStay DEF BalanceInv

(* One does. *)
LEMMA ReaderStarts ==
  ASSUME TypeInv, BalanceInv, AmountsStay, NEW h \in Handlers, NEW record \in Handler, Goes(h, record),
         record.step = "read" /\ record.seen # NoRow =>
           record.status # "PAYMENT_COMPLETED" /\ Remembers(record.order, record.seen)
  PROVE  BalanceInv' /\ EntitlementStep
<1>1. record.order \in Orders /\ record.seen \in Row
  BY DEF Handler
<1>2. handler' = [handler EXCEPT ![h] = record]
  BY DEF Goes
<1>3. ASSUME NEW k \in Handlers, handler'[k].step = "read", handler'[k].seen # NoRow
      PROVE  (handler[k].status # "PAYMENT_COMPLETED" /\ Remembers(handler[k].order, handler[k].seen))'
  <2>1. CASE k = h
    <3>1. handler'[k] = record
      BY <1>2, <2>1 DEF TypeInv, TypeOK
    <3> QED
      BY <1>1, <1>3, <3>1, BooksStay
  <2>2. CASE k # h
    <3>1. handler'[k] = handler[k]
      BY <1>2, <2>2 DEF TypeInv, TypeOK
    <3> QED
      BY <1>3, <3>1, BooksStay, HandlerOf DEF BalanceInv, ReadersRemember
  <2> QED
    BY <2>1, <2>2
<1>4. ReadersRemember'
  BY <1>3 DEF ReadersRemember
<1> QED
  BY <1>4, BooksStay DEF BalanceInv

LEMMA UnpaidBooks ==
  ASSUME TypeInv, BalanceInv, NEW h \in Handlers, Untouched(h) \/ RolledBack(h)
  PROVE  BalanceInv' /\ EntitlementStep
<1>1. AmountsStay /\ NoneReads
  BY EndsRead, AmountsUntouched DEF Untouched, RolledBack, accountVars
<1> QED
  BY <1>1, ReadersKeep

LEMMA MovedBooks ==
  ASSUME TypeInv, TypeInv', BonusInv, BalanceInv, NEW h \in Handlers, NEW o \in Orders,
         RowMoves(o), Pays(o), Done(h) \/ Fails(h) \/ Granted(h)
  PROVE  BalanceInv' /\ EntitlementStep
BY EndsRead, BalanceMoved, EntitlementMoved

LEMMA BecomesBooks ==
  ASSUME TypeInv, TypeInv', BonusInv, BalanceInv, NEW h \in Handlers, NEW o \in Orders, NEW seen \in Row,
         Sees(o, seen), NEW status \in {"processing", "failed", "review"}, Becomes(o, seen, status),
         Done(h) \/ Fails(h)
  PROVE  BalanceInv' /\ EntitlementStep
<1> DEFINE new == [seen EXCEPT !.status = status]
<1>1. /\ new \in Row /\ new.user = seen.user /\ new.status # "none" /\ new.granted = seen.granted
      /\ new.chargeback = seen.chargeback
  BY DEF Row
<1>2. Write(o, seen, new) /\ UNCHANGED <<entries, person, purchased, debt, spent>>
  BY DEF Becomes, accountVars
<1> HIDE DEF new
<1> QED
  BY <1>1, <1>2, UnpaidMoves, MovedBooks

LEMMA GrantBooks ==
  ASSUME TypeInv, TypeInv', BonusInv, BalanceInv, NEW h \in Handlers, NEW o \in Orders, NEW seen \in Row,
         Sees(o, seen), Fresh(o, seen), seen.user \in Users, Grant(h, o, seen, seen.user)
  PROVE  BalanceInv' /\ EntitlementStep
BY UnpaidBooks, GrantMoves, MovedBooks

LEMMA RefundBooks ==
  ASSUME TypeInv, TypeInv', BonusInv, BalanceInv, NEW h \in Handlers, NEW o \in Orders, NEW seen \in Row,
         Sees(o, seen), Refund(h, o, seen) \/ Restore(h, o, seen)
  PROVE  BalanceInv' /\ EntitlementStep
<1>1. CASE Untouched(h) \/ RolledBack(h)
  BY <1>1, UnpaidBooks
<1>2. CASE Becomes(o, seen, "review") /\ Fails(h)
  BY <1>2, BecomesBooks
<1>3. CASE ~ (Untouched(h) \/ RolledBack(h)) /\ ~ (Becomes(o, seen, "review") /\ Fails(h))
  BY <1>3, RefundMoves, RestoreMoves, MovedBooks
<1> QED
  BY <1>1, <1>2, <1>3

LEMMA ApplyBooks ==
  ASSUME TypeInv, TypeInv', BonusInv, BalanceInv, NEW h \in Handlers, Apply(h)
  PROVE  BalanceInv' /\ EntitlementStep
<1> DEFINE o == handler[h].order
           u == handler[h].user
           seen == IF row[o].status = "none" THEN Inserted(u) ELSE row[o]
<1>1. o \in Orders /\ u \in Users
  BY HandlerOf DEF Apply, TypeInv, FetchedBy
<1>2. seen \in Row /\ Fresh(o, seen)
  BY <1>1 DEF Inserted, NoRow, Row, TypeInv, TypeOK, Fresh
<1>3. \/ RolledBack(h)
      \/ /\ person[u] = "active" /\ seen.user = u
         /\ \/ Refund(h, o, seen)
            \/ Granted(h) /\ UNCHANGED <<history, consumed, row, entries, accountVars>>
            \/ Becomes(o, seen, "review") /\ Fails(h)
            \/ Becomes(o, seen, "failed") /\ NotPaid(h)
            \/ Becomes(o, seen, "processing") /\ NotPaid(h)
            \/ Grant(h, o, seen, u)
  BY Zenon DEF Apply
<1>4. CASE RolledBack(h)
  BY <1>4, UnpaidBooks
<1>5. CASE ~ RolledBack(h)
  <2>1. Sees(o, seen)
    <3>1. CASE row[o].status = "none"
      BY <1>1, <1>3, <1>5, <3>1 DEF Sees, Inserted, NoRow
    <3>2. CASE row[o].status # "none"
      BY <1>1, <3>2, SeesLocked
    <3> QED
      BY <3>1, <3>2
  <2> HIDE DEF o, u, seen
  <2>2. CASE Granted(h) /\ UNCHANGED <<history, consumed, row, entries, accountVars>>
    <3>1. AmountsStay /\ NoneReads
      BY <2>2, EndsRead, AmountsUntouched DEF accountVars
    <3> QED
      BY <3>1, ReadersKeep
  <2> QED
    BY <1>1, <1>2, <1>3, <1>5, <2>1, <2>2, RefundBooks, BecomesBooks, GrantBooks DEF NotPaid
<1> QED
  BY <1>4, <1>5

LEMMA ReconcileBooks ==
  ASSUME TypeInv, TypeInv', BonusInv, BalanceInv, NEW h \in Handlers, Reconcile(h)
  PROVE  BalanceInv' /\ EntitlementStep
<1> DEFINE o == handler[h].order
           seen == IF handler[h].seen = NoRow THEN row[o] ELSE handler[h].seen
<1>1. o \in Orders /\ row[o].status # "none"
  BY HandlerOf DEF Reconcile, BonusInv, ReadersKnow
<1>2. seen \in Row /\ Sees(o, seen)
  <2>1. CASE handler[h].seen = NoRow
    BY <1>1, <2>1, SeesLocked DEF TypeInv, TypeOK
  <2>2. CASE handler[h].seen # NoRow
    BY <1>1, <2>2, HandlerOf DEF Reconcile, BalanceInv, ReadersRemember, Sees
  <2> QED
    BY <2>1, <2>2
<1>3. \/ Refund(h, o, seen) \/ Restore(h, o, seen)
      \/ handler[h].status = "PAYMENT_COMPLETED" /\ seen.user # NoUser /\ Grant(h, o, seen, seen.user)
      \/ Becomes(o, seen, "review") /\ Done(h)
      \/ Becomes(o, seen, "failed") /\ Done(h)
      \/ Untouched(h)
  BY Zenon DEF Reconcile
<1>4. handler[h].status = "PAYMENT_COMPLETED" => Fresh(o, seen)
  BY DEF Reconcile, BalanceInv, ReadersRemember, Fresh
<1> HIDE DEF o, seen
<1>5. seen.user # NoUser => seen.user \in Users
  BY <1>2, RowOf
<1> QED
  BY <1>1, <1>2, <1>3, <1>4, <1>5, UnpaidBooks, RefundBooks, BecomesBooks, GrantBooks

LEMMA ReadBooks ==
  ASSUME TypeInv, BonusInv, BalanceInv, NEW h \in Handlers, ReadPurchase(h)
  PROVE  BalanceInv' /\ EntitlementStep
<1> DEFINE o == handler[h].order
           record == [handler[h] EXCEPT !.step = "read", !.seen = row[o]]
<1>1. CASE Untouched(h)
  BY <1>1, UnpaidBooks
<1>2. CASE ~ Untouched(h)
  <2>1. /\ Goes(h, record) /\ handler[h].step = "fetched" /\ row[o].user = handler[h].user
        /\ handler[h].status # "PAYMENT_COMPLETED"
        /\ UNCHANGED <<history, handled, consumed, row, entries, accountVars>>
    BY <1>2, Zenon DEF ReadPurchase
  <2>2. o \in Orders /\ row[o] \in Row
    BY HandlerOf DEF TypeInv, TypeOK
  <2>3. record \in Handler /\ record.order = o /\ record.seen = row[o] /\ record.status = handler[h].status
    BY <2>2, HandlerOf DEF Handler
  <2>4. row[o].status # "none"
    BY <2>1, <2>2, PurchaseAssumption DEF TypeInv, FetchedBy, BonusInv, EmptyRows
  <2>5. Remembers(o, row[o]) /\ AmountsStay
    BY <2>1, <2>2, <2>4, SeesLocked, AmountsUntouched DEF accountVars
  <2> HIDE DEF record, o
  <2> QED
    BY <2>1, <2>3, <2>5, ReaderStarts
<1> QED
  BY <1>1, <1>2

LEMMA ConsumeBooks ==
  ASSUME TypeInv, BalanceInv, NEW h \in Handlers, Consume(h) PROVE BalanceInv' /\ EntitlementStep
<1> DEFINE record == [handler[h] EXCEPT !.step = "mark"]
<1>1. AmountsStay
  BY AmountsUntouched DEF Consume, accountVars
<1>2. CASE Done(h) \/ Fails(h)
  BY <1>1, <1>2, EndsRead, ReadersKeep
<1>3. CASE ~ (Done(h) \/ Fails(h))
  <2>1. Goes(h, record)
    BY <1>3, Zenon DEF Consume
  <2>2. record \in Handler /\ record.step = "mark"
    BY HandlerOf DEF Handler
  <2> HIDE DEF record
  <2> QED
    BY <1>1, <2>1, <2>2, ReaderStarts
<1> QED
  BY <1>2, <1>3

LEMMA MarkBooks ==
  ASSUME TypeInv, BalanceInv, NEW h \in Handlers, Mark(h) PROVE BalanceInv' /\ EntitlementStep
<1>1. \A o \in Orders : row[o] \in Row
  BY DEF TypeInv, TypeOK
<1>2. \A o \in Orders : /\ row'[o].status = row[o].status /\ row'[o].user = row[o].user
                        /\ row'[o].granted = row[o].granted /\ row'[o].chargeback = row[o].chargeback
  BY <1>1 DEF Mark, TypeInv, TypeOK, Row
<1>3. AmountsStay
  BY <1>2 DEF Mark, AmountsStay, accountVars
<1> QED
  BY <1>3, EndsRead, ReadersKeep DEF Mark

LEMMA StartBooks ==
  ASSUME TypeInv, BalanceInv, NEW h \in Handlers, Start(h) PROVE BalanceInv' /\ EntitlementStep
<1>1. AmountsStay
  BY AmountsUntouched DEF Start, ClientGrant, PurchaseNotice, RefundNotice, NoticeIgnored, Poll, Starts,
     accountVars
<1>2. CASE handler' = handler
  BY <1>1, <1>2, ReadersKeep DEF NoneReads
<1>3. ASSUME NEW step \in {"fetched", "read"}, NEW u \in Users \cup {NoUser}, NEW o \in Orders,
             NEW status \in OrderStatuses, NEW notice \in 0..MaxEvents, NEW seen \in Row,
             Starts(h, step, u, o, status, notice, seen),
             step = "read" /\ seen # NoRow => status # "PAYMENT_COMPLETED" /\ Remembers(o, seen)
      PROVE  BalanceInv' /\ EntitlementStep
  <2> DEFINE record == [step |-> step, user |-> u, order |-> o, status |-> status, notice |-> notice,
                        seen |-> seen]
  <2>1. record \in Handler /\ record.step = step /\ record.seen = seen /\ record.status = status
        /\ record.order = o /\ Goes(h, record)
    BY <1>3 DEF Handler, Starts
  <2> HIDE DEF record
  <2> QED
    BY <1>1, <1>3, <2>1, ReaderStarts
<1>4. 0 \in 0..MaxEvents /\ \A i \in 1..MaxEvents : i \in 0..MaxEvents
  BY PurchaseAssumption
<1>5. PICK o \in Orders :
        \/ \E u \in Users : ClientGrant(h, u, o)
        \/ \E i \in 1..MaxEvents : PurchaseNotice(h, o, i) \/ RefundNotice(h, o, i)
        \/ Poll(h, o)
  BY DEF Start
<1>6. row[o] \in Row /\ Owner(o) \subseteq Users /\ {"REFUNDED", "REFUND_REVERSED"} \subseteq OrderStatuses
  BY DEF TypeInv, TypeOK, Owner, OrderStatuses
<1>7. ASSUME NEW u \in Users, ClientGrant(h, u, o) PROVE BalanceInv' /\ EntitlementStep
  BY <1>3, <1>4, <1>7, IdleTyped, StatusTyped DEF ClientGrant
<1>8. ASSUME NEW i \in 1..MaxEvents, PurchaseNotice(h, o, i) PROVE BalanceInv' /\ EntitlementStep
  BY <1>2, <1>3, <1>4, <1>6, <1>8, IdleTyped, StatusTyped DEF PurchaseNotice, NoticeIgnored
<1>9. ASSUME NEW i \in 1..MaxEvents, RefundNotice(h, o, i) PROVE BalanceInv' /\ EntitlementStep
  <2>1. CASE row[o].status = "none"
    BY <1>2, <1>9, <2>1 DEF RefundNotice, NoticeIgnored
  <2>2. CASE row[o].status # "none"
    <3>1. Remembers(o, row[o])
      BY <2>2, SeesLocked
    <3> QED
      BY <1>3, <1>4, <1>6, <1>9, <2>2, <3>1 DEF RefundNotice
  <2> QED
    BY <2>1, <2>2
<1>10. CASE Poll(h, o)
  BY <1>3, <1>4, <1>10, IdleTyped, StatusTyped DEF Poll
<1> QED
  BY <1>5, <1>7, <1>8, <1>9, <1>10

LEMMA SpendBooks ==
  ASSUME TypeInv, BalanceInv, NEW u \in Users, NEW price \in Prices, Spend(u, price) \/ GiveBack(u, price)
  PROVE  BalanceInv' /\ EntitlementStep
<1>1. /\ purchased \in [Users -> Nat] /\ debt \in [Users -> Nat] /\ spent \in [Users -> Nat]
      /\ price \in Nat /\ person[u] = "active"
  BY PurchaseAssumption DEF TypeInv, TypeOK, Spend, GiveBack
<1>2. \A v \in Users : purchased'[v] - debt'[v] + spent'[v] = purchased[v] - debt[v] + spent[v]
  <2> SUFFICES ASSUME NEW v \in Users
               PROVE  purchased'[v] - debt'[v] + spent'[v] = purchased[v] - debt[v] + spent[v]
    OBVIOUS
  <2>1. purchased[v] \in Nat /\ debt[v] \in Nat /\ spent[v] \in Nat /\ debt' = debt
    BY <1>1 DEF Spend, GiveBack
  <2>2. CASE v # u
    BY <1>1, <2>1, <2>2 DEF Spend, GiveBack
  <2>3. CASE v = u
    <3>1. \/ purchased'[u] = purchased[u] - price /\ spent'[u] = spent[u] + price
          \/ purchased'[u] = purchased[u] + price /\ spent'[u] = spent[u] - price
      BY <1>1 DEF Spend, GiveBack
    <3> QED
      BY <1>1, <2>1, <2>3, <3>1
  <2> QED
    BY <2>2, <2>3
<1>3. AmountsStay
  BY <1>1, <1>2 DEF AmountsStay, Spend, GiveBack
<1>4. NoneReads
  BY DEF NoneReads, Spend, GiveBack
<1> QED
  BY <1>3, <1>4, ReadersKeep

LEMMA RegisterBooks ==
  ASSUME TypeInv, BalanceInv, NEW u \in Users, Register(u)
  PROVE  BalanceInv' /\ EntitlementStep
<1>1. /\ person[u] = "new" /\ person' = [person EXCEPT ![u] = "active"]
      /\ UNCHANGED <<handler, row, entries, purchased, debt, spent>>
  BY DEF Register
<1>2. \A o \in Orders : row[o].user # u
  BY <1>1, PurchaseAssumption DEF BalanceInv, UsersActive
<1>3. UsersActive' /\ NewcomersOweNothing' /\ RowsBooked'
  <2>1. \A v \in Users : v # u => person'[v] = person[v]
    BY <1>1 DEF TypeInv, TypeOK
  <2>2. person'[u] = "active"
    BY <1>1 DEF TypeInv, TypeOK
  <2>3. \A o \in Orders : row[o].user \in Users \cup {NoUser}
    BY RowOf DEF TypeInv, TypeOK
  <2>4. UsersActive'
    BY <1>1, <1>2, <2>1, <2>3 DEF BalanceInv, UsersActive
  <2>5. NewcomersOweNothing'
    BY <1>1, <2>1, <2>2 DEF BalanceInv, NewcomersOweNothing
  <2> QED
    BY <1>1, <2>4, <2>5 DEF BalanceInv, RowsBooked, Booked
<1>4. \A o \in Orders, seen \in Row : Remembers(o, seen) => Remembers(o, seen)'
  BY <1>1, RowOf DEF Remembers, TypeInv, TypeOK
<1>5. ReadersRemember'
  BY <1>1, <1>4, HandlerOf DEF BalanceInv, ReadersRemember
<1>6. BalanceExplained'
  <2> SUFFICES ASSUME NEW v \in Users, person'[v] = "active"
               PROVE  purchased[v] - debt[v] + spent[v] = Kept(v)'
    BY <1>1 DEF BalanceExplained
  <2>1. Kept(v)' = Kept(v)
    BY <1>1, KeptShares
  <2>2. CASE v # u
    BY <1>1, <2>1, <2>2 DEF BalanceInv, BalanceExplained, TypeInv, TypeOK
  <2>3. CASE v = u
    <3>1. \A o \in Orders : Share(row[o], u) = 0
      BY <1>2 DEF Share
    <3>2. Kept(u) = 0
      BY <3>1, NoShares, KeptShares DEF TypeInv, TypeOK
    <3>3. purchased[u] = 0 /\ debt[u] = 0 /\ spent[u] = 0
      BY <1>1 DEF BalanceInv, NewcomersOweNothing
    <3> QED
      BY <2>1, <2>3, <3>2, <3>3
  <2> QED
    BY <2>2, <2>3
<1>7. Entitlements' = Entitlements
  BY <1>1 DEF Entitlements
<1> QED
  BY <1>3, <1>5, <1>6, <1>7 DEF BalanceInv, EntitlementStep

(* The purge of an account closes its orders. *)
LEMMA ClosedOrder ==
  ASSUME NEW r, r.status # "none", r.user = NoUser
  PROVE  Entitlement(r, NoEntries) = Abstract!Closed
<1>1. (r.status # "none" /\ r.user = NoUser) = TRUE
  OBVIOUS
<1>2. NoEntries.purchase = 0 /\ NoEntries.chargeback = 0 /\ NoEntries.reversal = 0
  BY DEF NoEntries
<1>3. Entitlement(r, NoEntries) = [purchase |-> 0, chargeback |-> 0, reversal |-> 0, closed |-> TRUE]
  BY <1>1, <1>2 DEF Entitlement
<1>4. Abstract!Closed = [purchase |-> 0, chargeback |-> 0, reversal |-> 0, closed |-> TRUE]
  <2> DEFINE record == [purchase : {0}, chargeback : {0}, reversal : {0}, closed : BOOLEAN]
  <2>1. Abstract!Nothing \in record
    BY DEF Abstract!Nothing
  <2>2. Abstract!Closed = [Abstract!Nothing EXCEPT !.closed = TRUE]
    BY DEF Abstract!Closed
  <2>3. [Abstract!Nothing EXCEPT !.closed = TRUE] \in record /\ [Abstract!Nothing EXCEPT !.closed = TRUE].closed = TRUE
    BY <2>1
  <2>4. \A n \in record : n.closed = TRUE => n = [purchase |-> 0, chargeback |-> 0, reversal |-> 0, closed |-> TRUE]
    OBVIOUS
  <2> QED
    BY <2>2, <2>3, <2>4
<1> QED
  BY <1>3, <1>4

LEMMA PurgeBooks ==
  ASSUME TypeInv, TypeInv', BonusInv, BalanceInv, NEW u \in Users, Purge(u)
  PROVE  BalanceInv' /\ EntitlementStep
<1>1. /\ person[u] = "active" /\ person' = [person EXCEPT ![u] = "gone"] /\ handler' = handler
      /\ purchased' = [purchased EXCEPT ![u] = 0] /\ debt' = [debt EXCEPT ![u] = 0]
      /\ spent' = [spent EXCEPT ![u] = 0]
  BY DEF Purge
<1>2. ASSUME NEW o \in Orders
      PROVE  /\ row[o].user = u => entries'[o] = NoEntries /\ row'[o].user = NoUser
             /\ row[o].user # u => entries'[o] = entries[o] /\ row'[o].user = row[o].user
             /\ row'[o].status = row[o].status /\ row'[o].granted = row[o].granted
             /\ row'[o].chargeback = row[o].chargeback
  <2>1. row[o] \in Row
    BY DEF TypeInv, TypeOK
  <2> QED
    BY <2>1 DEF Purge, Row
<1>3. UsersActive' /\ NewcomersOweNothing' /\ RowsBooked'
  <2>1. \A v \in Users : v # u => person'[v] = person[v] /\ purchased'[v] = purchased[v] /\ debt'[v] = debt[v]
                                  /\ spent'[v] = spent[v]
    BY <1>1 DEF TypeInv, TypeOK
  <2>2. person'[u] = "gone"
    BY <1>1 DEF TypeInv, TypeOK
  <2>3. \A o \in Orders : row[o].user \in Users \cup {NoUser}
    BY RowOf DEF TypeInv, TypeOK
  <2>4. UsersActive'
    BY <1>2, <2>1, <2>3 DEF BalanceInv, UsersActive
  <2>5. NewcomersOweNothing'
    BY <2>1, <2>2 DEF BalanceInv, NewcomersOweNothing
  <2>6. RowsBooked'
    BY <1>2 DEF BalanceInv, RowsBooked, Booked, BonusInv, EmptyRows
  <2> QED
    BY <2>4, <2>5, <2>6
<1>4. ASSUME NEW o \in Orders, NEW seen \in Row, Remembers(o, seen)
      PROVE  Remembers(o, seen)'
  <2>1. u # NoUser /\ person'[u] = "gone" /\ \A v \in Users : person[v] = "gone" => person'[v] = "gone"
    BY <1>1, PurchaseAssumption DEF TypeInv, TypeOK
  <2>2. seen.user \in Users \cup {NoUser}
    BY RowOf
  <2>3. CASE row[o].user = u
    BY <1>2, <1>4, <2>1, <2>3 DEF Remembers
  <2>4. CASE row[o].user # u
    BY <1>2, <1>4, <2>1, <2>2, <2>4 DEF Remembers
  <2> QED
    BY <2>3, <2>4
<1>5. ReadersRemember'
  BY <1>1, <1>4, HandlerOf DEF BalanceInv, ReadersRemember
<1>6. BalanceExplained'
  <2> SUFFICES ASSUME NEW v \in Users, person'[v] = "active"
               PROVE  purchased'[v] - debt'[v] + spent'[v] = Kept(v)'
    BY DEF BalanceExplained
  <2>1. v # u /\ person[v] = "active" /\ purchased'[v] = purchased[v] /\ debt'[v] = debt[v] /\ spent'[v] = spent[v]
    BY <1>1 DEF TypeInv, TypeOK
  <2>2. \A o \in Orders : Share(row'[o], v) = Share(row[o], v)
    BY <1>2, <2>1, PurchaseAssumption DEF Share
  <2>3. Shares(row', v) = Shares(row, v)
    BY <2>2 DEF Shares
  <2>4. Kept(v)' = Kept(v)
    BY <2>3, KeptShares
  <2> QED
    BY <2>1, <2>4 DEF BalanceInv, BalanceExplained
<1>7. Abstract!Close
  <2> SUFFICES ASSUME NEW o \in Orders
               PROVE  Entitlements'[o] = Entitlements[o]
                      \/ (~ Entitlements[o].closed /\ Entitlements'[o] = Abstract!Closed)
    BY DEF Abstract!Close
  <2>1. CASE row[o].user = u
    <3>1. row[o].status # "none" /\ row[o].user # NoUser /\ row'[o].status # "none" /\ row'[o].user = NoUser
          /\ entries'[o] = NoEntries
      BY <1>2, <2>1, PurchaseAssumption DEF BonusInv, EmptyRows
    <3>2. Entitlements[o] = Entitlement(row[o], entries[o])
          /\ Entitlements'[o] = Entitlement(row'[o], entries'[o])
      BY EntitlementOf
    <3>3. ~ Entitlement(row[o], entries[o]).closed
      BY <3>1 DEF Entitlement
    <3>4. Entitlement(row'[o], entries'[o]) = Abstract!Closed
      BY <3>1, ClosedOrder
    <3> QED
      BY <3>2, <3>3, <3>4
  <2>2. CASE row[o].user # u
    <3>1. Entitlements'[o] = Entitlements[o]
      BY <1>2, <2>2, EntitlementOf DEF Entitlement
    <3> QED
      BY <3>1
  <2> QED
    BY <2>1, <2>2
<1> QED
  BY <1>3, <1>5, <1>6, <1>7 DEF BalanceInv, EntitlementStep, Abstract!Next

LEMMA InitBooks == Init => BalanceInv /\ Abstract!Init
<1> SUFFICES ASSUME Init PROVE BalanceInv /\ Abstract!Init
  OBVIOUS
<1>1. row = [o \in Orders |-> NoRow] /\ entries = [o \in Orders |-> NoEntries] /\ NoRow \in Row
  BY IdleTyped DEF Init
<1>2. UsersActive /\ NewcomersOweNothing /\ RowsBooked /\ ReadersRemember
  BY DEF Init, UsersActive, NewcomersOweNothing, RowsBooked, Booked, ReadersRemember, NoRow, NoEntries, Idle
<1>3. \A u \in Users : Kept(u) = 0
  <2> SUFFICES ASSUME NEW u \in Users PROVE Kept(u) = 0
    OBVIOUS
  <2>1. row \in [Orders -> Row] /\ \A o \in Orders : Share(row[o], u) = 0
    BY <1>1, PurchaseAssumption DEF NoRow, Share
  <2> QED
    BY <2>1, NoShares, KeptShares
<1>4. BalanceExplained
  BY <1>3 DEF Init, BalanceExplained
<1>5. \A o \in Orders : Entitlements[o] = Abstract!Nothing
  <2> TAKE o \in Orders
  <2>1. Entitlements[o] = [purchase |-> 0, chargeback |-> 0, reversal |-> 0, closed |-> FALSE]
    BY <1>1, EntitlementOf DEF Entitlement, NoRow, NoEntries
  <2> QED
    BY <2>1 DEF Abstract!Nothing
<1>6. Entitlements = [o \in Orders |-> Abstract!Nothing]
  BY <1>5 DEF Entitlements
<1> QED
  BY <1>2, <1>4, <1>6 DEF BalanceInv, Abstract!Init

LEMMA StepBooks ==
  TypeInv /\ TypeInv' /\ BonusInv /\ BalanceInv /\ [Next]_vars => BalanceInv' /\ EntitlementStep
<1> SUFFICES ASSUME TypeInv, TypeInv', BonusInv, BalanceInv, [Next]_vars
             PROVE  BalanceInv' /\ EntitlementStep
  OBVIOUS
<1>1. ASSUME NEW h \in Handlers, Proceed(h) PROVE BalanceInv' /\ EntitlementStep
  BY <1>1, ApplyBooks, ReadBooks, ReconcileBooks, ConsumeBooks, MarkBooks DEF Proceed
<1>2. ASSUME NEW h \in Handlers, Lose(h) PROVE BalanceInv' /\ EntitlementStep
  BY <1>2, UnpaidBooks DEF Lose
<1>3. ASSUME NEW o \in Orders, NEW state \in StoreStates, StoreChanges(o, state)
      PROVE  BalanceInv' /\ EntitlementStep
  <2>1. AmountsStay /\ NoneReads
    BY <1>3, AmountsUntouched DEF StoreChanges, NoneReads, accountVars
  <2> QED
    BY <2>1, ReadersKeep
<1>4. CASE UNCHANGED vars
  <2>1. AmountsStay /\ NoneReads
    BY <1>4, AmountsUntouched DEF vars, NoneReads
  <2> QED
    BY <2>1, ReadersKeep
<1> QED
  BY <1>1, <1>2, <1>3, <1>4, StartBooks, SpendBooks, RegisterBooks, PurgeBooks DEF Next

LEMMA BalanceInvHolds == Spec => []BalanceInv
<1>1. Init => BalanceInv
  BY InitBooks
<1>2. TypeInv /\ TypeInv' /\ BonusInv /\ BalanceInv /\ [Next]_vars => BalanceInv'
  BY StepBooks
<1> QED
  BY <1>1, <1>2, TypeInvHolds, BonusInvHolds, PTL DEF Spec

(* What an account holds, owes and has spent is what its purchases granted and refunds have not     *)
(* taken back, and a person has one first purchase bonus, whichever stores, notifications, repeats, *)
(* losses, polls, deletions and rows read long before they are saved there are.                     *)
THEOREM BalancesAreExplained == Spec => []BalancesExplained
<1>1. BalanceInv => BalanceExplained
  BY DEF BalanceInv
<1> QED
  BY <1>1, BalanceInvHolds, OneFirstBonus, PTL DEF BalancesExplained

(* Purchases implement OrderEntitlement: each order is granted, taken back and given again at most *)
(* once, each time all of it, in every store and for every number of handlers.                     *)
THEOREM PurchasesImplementEntitlement == Spec => EachOrderOnce
<1>1. Init => Abstract!Init
  BY InitBooks
<1>2. TypeInv /\ TypeInv' /\ BonusInv /\ BalanceInv /\ [Next]_vars => [Abstract!Next]_Entitlements
  BY StepBooks DEF EntitlementStep
<1> QED
  BY <1>1, <1>2, TypeInvHolds, BonusInvHolds, BalanceInvHolds, PTL DEF Spec, EachOrderOnce, Abstract!Spec
=============================================================================
