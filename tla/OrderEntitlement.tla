-------------------------- MODULE OrderEntitlement --------------------------
(* What a purchase promises: the credits of an order are granted once, a refund takes all of *)
(* them back once, a reversal of the refund gives all of them again once.  An order whose    *)
(* account is deleted is closed: nothing is granted for it any more.                         *)
EXTENDS Integers

CONSTANT Orders

VARIABLE entitlement

Nothing == [purchase |-> 0, chargeback |-> 0, reversal |-> 0, closed |-> FALSE]
Closed == [Nothing EXCEPT !.closed = TRUE]

Init == entitlement = [o \in Orders |-> Nothing]

Grant(before, after) ==
  before = Nothing /\ after.purchase > 0 /\ after = [before EXCEPT !.purchase = after.purchase]
TakeBack(before, after) ==
  /\ before.purchase > 0 /\ before.chargeback = 0
  /\ after = [before EXCEPT !.chargeback = before.purchase]
GiveAgain(before, after) ==
  /\ before.chargeback > 0 /\ before.reversal = 0
  /\ after = [before EXCEPT !.reversal = before.chargeback]

Change(o) ==
  /\ Grant(entitlement[o], entitlement'[o])
     \/ TakeBack(entitlement[o], entitlement'[o])
     \/ GiveAgain(entitlement[o], entitlement'[o])
  /\ \A p \in Orders \ {o} : entitlement'[p] = entitlement[p]

Close ==
  \A o \in Orders :
    entitlement'[o] = entitlement[o] \/ (~ entitlement[o].closed /\ entitlement'[o] = Closed)

Next == (\E o \in Orders : Change(o)) \/ Close
Spec == Init /\ [][Next]_entitlement
=============================================================================
