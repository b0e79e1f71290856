---------------------------- MODULE KeyedCharge ----------------------------
(* What metering promises for a user's idempotency key, however many requests *)
(* and retries carry it: it is charged once, the amount never changes, and    *)
(* the charge ends by being spent or by being given back.                     *)
EXTENDS Integers

CONSTANTS Users, Keys

VARIABLE charge

Uncharged == [status |-> "none", credits |-> 0, energy |-> 0]

Init == charge = [u \in Users |-> [k \in Keys |-> Uncharged]]

Hold(before, after) == before = Uncharged /\ after.status = "reserved"
Decide(before, after) ==
  /\ before.status = "reserved"
  /\ after.status \in {"committed", "refunded"}
  /\ after = [before EXCEPT !.status = after.status]

(* A step concerns one user; it may decide several expired charges and hold one. *)
Next ==
  \E u \in Users :
    /\ \A v \in Users \ {u} : charge'[v] = charge[v]
    /\ \A k \in Keys :
         \/ charge'[u][k] = charge[u][k]
         \/ Hold(charge[u][k], charge'[u][k])
         \/ Decide(charge[u][k], charge'[u][k])

Spec == Init /\ [][Next]_charge
=============================================================================
