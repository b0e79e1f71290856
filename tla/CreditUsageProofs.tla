------------------------- MODULE CreditUsageProofs -------------------------
(* The safety of metered AI calls, for every number of requests and users and *)
(* every policy: types, one row for a key, decided once; credits are neither  *)
(* lost nor made and the ledger explains every balance; energy and limits;    *)
(* and metering implements the promise of KeyedCharge.                        *)
EXTENDS CreditUsage, SumsProofs, FiniteSetTheorems

-----------------------------------------------------------------------------
(* Sums over sets of usage rows.                                              *)

(* A sum of amounts is an amount.                                             *)
LEMMA SumNat ==
  ASSUME NEW S, NEW column \in [Requests -> Nat]
  PROVE  SumOver(S, column) \in Nat
<1>1. NumRequests \in Nat
  BY CountsAssumption
<1>2. [r \in Requests |-> IF r \in S THEN column[r] ELSE 0] \in [1..NumRequests -> Nat]
  BY DEF Requests
<1> QED BY <1>1, <1>2, TotalNat DEF SumOver

(* The sum over two disjoint sets of rows is the sum of the two sums.         *)
LEMMA SumSplit ==
  ASSUME NEW S, NEW T, NEW U, NEW column \in [Requests -> Nat],
         \A r \in Requests : r \in U <=> r \in S \/ r \in T,
         \A r \in Requests : ~ (r \in S /\ r \in T)
  PROVE  SumOver(U, column) = SumOver(S, column) + SumOver(T, column)
<1> DEFINE part(X) == [r \in 1..NumRequests |-> IF r \in X THEN column[r] ELSE 0]
<1>1. NumRequests \in Nat
  BY CountsAssumption
<1>2. part(S) \in [1..NumRequests -> Int] /\ part(T) \in [1..NumRequests -> Int]
      /\ part(U) \in [1..NumRequests -> Int]
  BY DEF Requests
<1>3. \A r \in 1..NumRequests : part(U)[r] = part(S)[r] + part(T)[r]
  BY DEF Requests
<1>4. Total(part(U), NumRequests) = Total(part(S), NumRequests) + Total(part(T), NumRequests)
  <2> HIDE DEF part
  <2> QED BY <1>1, <1>2, <1>3, TotalAdd
<1> QED BY <1>4 DEF SumOver, Requests

(* The sum over a single row is its amount.                                   *)
LEMMA SumOne ==
  ASSUME NEW k \in Requests, NEW column \in [Requests -> Nat]
  PROVE  SumOver({k}, column) = column[k]
<1> DEFINE f == [r \in 1..NumRequests |-> IF r \in {k} THEN column[r] ELSE 0]
<1>1. NumRequests \in Nat /\ k \in 1..NumRequests
  BY CountsAssumption DEF Requests
<1>2. f \in [1..NumRequests -> Int] /\ f[k] = column[k]
  BY DEF Requests
<1>3. \A r \in 1..NumRequests : r # k => f[r] = 0
  OBVIOUS
<1>4. Total(f, NumRequests) = f[k]
  <2> HIDE DEF f
  <2> QED BY <1>1, <1>2, <1>3, TotalPoint
<1> QED BY <1>2, <1>4 DEF SumOver, Requests

(* A sum only looks at the rows it is over.                                   *)
LEMMA SumSame ==
  ASSUME NEW S, NEW T, NEW c, NEW d,
         \A r \in Requests : (r \in S <=> r \in T) /\ (r \in S => c[r] = d[r])
  PROVE  SumOver(S, c) = SumOver(T, d)
<1>1. [r \in Requests |-> IF r \in S THEN c[r] ELSE 0] = [r \in Requests |-> IF r \in T THEN d[r] ELSE 0]
  OBVIOUS
<1> QED BY <1>1 DEF SumOver

-----------------------------------------------------------------------------
(* What the operators of a request compute.                                   *)

Clocks == \A u \in Users : recoveredAt[u] <= now
Rows ==
  \A r \in Requests :
    /\ pc[r] # "new" <=> call[r] \in Calls
    /\ pc[r] = "new" => usage[r].status = "none"
    /\ pc[r] \notin {"new", "done"} => usage[r].status # "none"
(* The inductive strengthening of the type invariant. *)
Inv == TypeOK /\ Clocks /\ Rows

(* Integer division by a positive number. *)
LEMMA Division ==
  ASSUME NEW n \in Nat, NEW d \in Nat \ {0}
  PROVE  n \div d \in Nat /\ d * (n \div d) <= n
OBVIOUS

(* recover_energy stays between 0 and 100 percent and its clock never passes the present. *)
LEMMA Recovery ==
  ASSUME Inv, NEW u \in Users
  PROVE  /\ RecoveredEnergy(u) \in 0..ENERGY_MAX_PERCENT
         /\ RecoveredAt(u) \in 0..now
         /\ RecoveredAt(u) \in 0..MaxTime
<1>1. now \in Nat /\ now <= MaxTime /\ recoveredAt[u] \in Nat /\ recoveredAt[u] <= now
      /\ energy[u] \in 0..100 /\ EnergyInterval \in Nat \ {0} /\ MaxTime \in Nat
  BY CountsAssumption DEF Inv, TypeOK, Clocks, ENERGY_MAX_PERCENT
<1>2. now - recoveredAt[u] \in Nat
  BY <1>1
<1>3. Intervals(u) \in Nat /\ EnergyInterval * Intervals(u) <= now - recoveredAt[u]
  BY <1>1, <1>2, Division DEF Intervals
<1>4. EnergyInterval * Intervals(u) \in Nat
  BY <1>1, <1>3
<1>5. RecoveredEnergy(u) \in 0..ENERGY_MAX_PERCENT
  <2>1. Intervals(u) * ENERGY_RECOVERY_PERCENT \in Nat
    BY <1>3 DEF ENERGY_RECOVERY_PERCENT
  <2> QED BY <2>1, <1>1 DEF RecoveredEnergy, Least2, ENERGY_MAX_PERCENT
<1>6. RecoveredAt(u) \in 0..now
  BY <1>1, <1>3, <1>4 DEF RecoveredAt
<1> QED BY <1>5, <1>6, <1>1

(* Deciding a row changes nothing but its status. *)
LEMMA DecidedRow ==
  ASSUME NEW row \in Row, NEW status \in {"committed", "refunded"}
  PROVE  /\ Decided(row, status) \in Row
         /\ Decided(row, status).status = status
         /\ Decided(row, status).bonus = row.bonus
         /\ Decided(row, status).purchased = row.purchased
         /\ Decided(row, status).energy = row.energy
         /\ Decided(row, status).credits = row.credits
         /\ Decided(row, status).created = row.created
BY DEF Decided, Row

(* The amounts of a row are natural numbers. *)
LEMMA RowNumbers ==
  ASSUME NEW row \in Row
  PROVE  /\ row.bonus \in Nat /\ row.purchased \in Nat /\ row.energy \in Nat
         /\ row.credits \in Nat /\ row.cost \in Nat /\ row.created \in Nat
BY DEF Row

(* The account a transaction finds is well formed. *)
LEMMA Settled ==
  ASSUME Inv, NEW u \in Users
  PROVE  /\ StaleBonus(u) \in Nat /\ StalePurchased(u) \in Nat /\ SignupBonus(u) \in Nat
         /\ SettledEnergy(u) \in 0..ENERGY_MAX_PERCENT
         /\ SettledPurchased(u) \in Nat /\ SettledBonus(u) \in Nat
         /\ SettledRows(u) \in [Requests -> Row]
         /\ SettledCosts(u) \in [Months -> Nat]
<1>1. usage \in [Requests -> Row] /\ purchased \in [Users -> Nat] /\ bonus \in [Users -> Nat]
      /\ estimated \in [Months -> Nat]
  BY DEF Inv, TypeOK
<1>2. /\ [r \in Requests |-> usage[r].bonus] \in [Requests -> Nat]
      /\ [r \in Requests |-> usage[r].purchased] \in [Requests -> Nat]
      /\ [r \in Requests |-> usage[r].energy] \in [Requests -> Nat]
      /\ [r \in Requests |-> usage[r].cost] \in [Requests -> Nat]
  BY <1>1 DEF Row
<1>3. StaleBonus(u) \in Nat /\ StalePurchased(u) \in Nat /\ StaleEnergy(u) \in Nat
      /\ \A m : StaleCost(u, m) \in Nat
  BY <1>2, SumNat DEF StaleBonus, StalePurchased, StaleEnergy, StaleCost
<1>4. SignupBonus(u) \in Nat
  BY BalancesAssumption DEF SignupBonus, Rewards
<1>5. SettledEnergy(u) \in 0..ENERGY_MAX_PERCENT
  BY <1>3, Recovery DEF SettledEnergy, Least2, ENERGY_MAX_PERCENT
<1>6. SettledRows(u) \in [Requests -> Row]
  BY <1>1 DEF SettledRows, Expired, Decided, Row
<1>7. SettledCosts(u) \in [Months -> Nat]
  BY <1>1, <1>3 DEF SettledCosts, Floor0
<1> QED BY <1>1, <1>3, <1>4, <1>5, <1>6, <1>7 DEF SettledPurchased, SettledBonus

(* An admitted call never takes more than the account has. *)
LEMMA Charges ==
  ASSUME Inv, NEW u \in Users, NEW f \in Flows, Admissible(u, f)
  PROVE  /\ EnergyCharge(u, f) \in 0..SettledEnergy(u)
         /\ CreditCharge(u, f) \in Nat
         /\ BonusCharge(u, f) \in 0..SettledBonus(u)
         /\ PurchasedCharge(u, f) \in 0..SettledPurchased(u)
<1>1. Policy[f] \in FlowPolicy /\ Policy[f].energy \in 0..100
      /\ (Policy[f].energyAllowed /\ Policy[f].credits > 0 => Policy[f].energy > 0)
  BY PolicyAssumption DEF ENERGY_MAX_PERCENT
<1>2. Policy[f].credits \in Nat /\ Policy[f].energy \in Nat /\ Policy[f].energyAllowed \in BOOLEAN
      /\ Policy[f].bonusAllowed \in BOOLEAN
  BY <1>1 DEF FlowPolicy
<1>3. SettledEnergy(u) \in 0..100 /\ SettledPurchased(u) \in Nat /\ SettledBonus(u) \in Nat
  BY Settled DEF ENERGY_MAX_PERCENT
<1>4. EnergyCharge(u, f) \in 0..SettledEnergy(u)
  BY <1>1, <1>2, <1>3 DEF EnergyCharge, EnergySuffices
<1>5. CreditCharge(u, f) \in Nat
  BY <1>2 DEF CreditCharge
<1>6. BonusCharge(u, f) \in 0..SettledBonus(u) /\ BonusCharge(u, f) <= CreditCharge(u, f)
  BY <1>3, <1>5 DEF BonusCharge, Least2
<1>7. PurchasedCharge(u, f) \in 0..SettledPurchased(u)
  <2>1. CASE CreditCharge(u, f) = 0
    BY <2>1, <1>3, <1>6 DEF PurchasedCharge
  <2>2. CASE PurchasedOnly(u, f)
    BY <2>2, <1>2, <1>3, <1>5, <1>6 DEF PurchasedOnly, PurchasedCharge, CreditCharge
  <2>3. CASE CreditCharge(u, f) # 0 /\ ~ PurchasedOnly(u, f)
    <3>1. ~ IntroFree(u, f) /\ EnergyCharge(u, f) = 0 /\ CreditCharge(u, f) = Policy[f].credits
      BY <2>3, <1>4, <1>3 DEF CreditCharge
    <3>2. ~ EnergySuffices(u, f)
      BY <2>3, <3>1, <1>1, <1>2 DEF EnergyCharge, EnergySuffices
    <3>3. SettledPurchased(u) + (IF Policy[f].bonusAllowed THEN SettledBonus(u) ELSE 0) >= Policy[f].credits
      BY <2>3, <3>1, <3>2 DEF Admissible, CanUse
    <3> QED BY <2>3, <3>1, <3>3, <1>2, <1>3 DEF PurchasedCharge, BonusCharge, Least2
  <2> QED BY <2>1, <2>2, <2>3
<1> QED BY <1>4, <1>5, <1>6, <1>7

-----------------------------------------------------------------------------
(* Type correctness.                                                          *)

(* The invariant holds before the first request arrives. *)
LEMMA InitInv == Init => Inv
<1> SUFFICES ASSUME Init PROVE Inv
  OBVIOUS
<1>1. 0 \in 0..MaxTime
  BY CountsAssumption
<1>2. 0 \in Months
  <2>1. DayLength \in Nat \ {0} /\ MonthDays \in Nat \ {0}
    BY CountsAssumption
  <2>2. 0 \div DayLength = 0 /\ 0 \div MonthDays = 0
    BY <2>1
  <2> QED BY <1>1, <2>2 DEF Months, Days
<1>3. NoRow \in Row
  BY DEF NoRow, Row
<1>4. NoCall \notin Calls
  BY CountsAssumption
<1>5. TypeOK
  BY <1>1, <1>2, <1>3, BalancesAssumption DEF Init, TypeOK, Steps, Replies, ENERGY_MAX_PERCENT
<1>6. Clocks
  BY DEF Init, Clocks
<1>7. Rows
  BY <1>4 DEF Init, Rows, NoRow
<1> QED BY <1>5, <1>6, <1>7 DEF Inv

(* What the transactions that settle an account have in common. *)
LEMMA SettleTypes ==
  ASSUME Inv, NEW u \in Users, UNCHANGED now,
         NEW charge \in 0..SettledEnergy(u), SettleEnergy(u, charge)
  PROVE  /\ energy' \in [Users -> 0..ENERGY_MAX_PERCENT]
         /\ recoveredAt' \in [Users -> 0..MaxTime]
         /\ estimated' \in [Months -> Nat]
         /\ Clocks'
<1>1. SettledEnergy(u) - charge \in 0..ENERGY_MAX_PERCENT
  BY Settled DEF ENERGY_MAX_PERCENT
<1>2. energy' \in [Users -> 0..ENERGY_MAX_PERCENT]
  BY <1>1 DEF SettleEnergy, Inv, TypeOK
<1>3. recoveredAt' \in [Users -> 0..MaxTime]
  BY Recovery DEF SettleEnergy, Inv, TypeOK
<1>4. estimated' \in [Months -> Nat]
  BY Settled DEF SettleEnergy
<1>5. Clocks'
  BY Recovery DEF SettleEnergy, Inv, TypeOK, Clocks
<1> QED BY <1>2, <1>3, <1>4, <1>5

(* The rows other requests own keep their owners' invariant through a settlement. *)
LEMMA SettledStatus ==
  ASSUME Inv, NEW u \in Users, NEW r \in Requests
  PROVE  SettledRows(u)[r].status = "none" <=> usage[r].status = "none"
<1>1. usage[r] \in Row
  BY DEF Inv, TypeOK
<1> QED BY <1>1 DEF SettledRows, Expired, Decided, Row, Stale

(* A call that reaches the account lock is numbered and typed. *)
LEMMA ArrivesTypes ==
  ASSUME Inv, NEW r \in Requests, NEW u \in Users, NEW k \in Keys, NEW f \in Flows,
         Arrives(r, u, k, f)
  PROVE  /\ call' \in [Requests -> Calls \cup {NoCall}]
         /\ call'[r] \in Calls
         /\ \A q \in Requests \ {r} : call'[q] = call[q]
         /\ pc[r] = "new" /\ usage[r].status = "none"
BY DEF Inv, TypeOK, Arrives, Calls, Rows

(* A ledger entry, positive or negative, keeps the ledger typed. *)
LEMMA LedgerTypes ==
  ASSUME Inv, NEW u \in Users, NEW b \in Int, NEW p \in Int
  PROVE  LedgerPlus(u, b, p) \in [Users -> [bonus : Int, purchased : Int]]
BY DEF LedgerPlus, Inv, TypeOK

(* A transaction that answers a request moves that request only. *)
LEMMA AnswerTypes ==
  ASSUME Inv, NEW r \in Requests, NEW answer \in Replies, NEW step \in Steps, Answer(r, answer, step)
  PROVE  /\ pc' \in [Requests -> Steps] /\ reply' \in [Requests -> Replies]
         /\ pc'[r] = step /\ \A q \in Requests \ {r} : pc'[q] = pc[q]
BY DEF Inv, TypeOK, Answer

(* Answering a known key (credits.py _duplicate) keeps the invariant. *)
LEMMA ReserveDuplicateInv ==
  ASSUME Inv, NEW r \in Requests, NEW u \in Users, NEW k \in Keys, NEW f \in Flows,
         ReserveDuplicate(r, u, k, f)
  PROVE  Inv'
<1>1. PICK q \in Existing(u, k) : Answer(r, DuplicateReply(u, q, f), "done")
  BY DEF ReserveDuplicate
<1>2. pc' \in [Requests -> Steps] /\ reply' \in [Requests -> Replies]
      /\ pc'[r] = "done" /\ \A s \in Requests \ {r} : pc'[s] = pc[s]
  <2>1. DuplicateReply(u, q, f) \in Replies
    BY DEF DuplicateReply, Replies
  <2> QED BY <1>1, <2>1, AnswerTypes DEF Steps
<1>3. Arrives(r, u, k, f) /\ Settle(u) /\ UNCHANGED now
  BY DEF ReserveDuplicate
<1>4. 0 \in 0..SettledEnergy(u)
  BY Settled
<1>5. /\ energy' \in [Users -> 0..ENERGY_MAX_PERCENT]
      /\ recoveredAt' \in [Users -> 0..MaxTime]
      /\ estimated' \in [Months -> Nat]
      /\ Clocks'
  BY <1>3, <1>4, SettleTypes DEF Settle
<1>6. usage' \in [Requests -> Row] /\ purchased' \in [Users -> Nat]
  BY <1>3, Settled DEF Settle, Inv, TypeOK
<1>7. bonus' \in [Users -> Nat] /\ ledger' \in [Users -> [bonus : Int, purchased : Int]]
  <2>1. StaleBonus(u) \in Nat /\ StalePurchased(u) \in Nat
    BY Settled
  <2> QED BY <2>1, LedgerTypes DEF ReserveDuplicate, Inv, TypeOK
<1>8. TypeOK'
  BY <1>2, <1>3, <1>5, <1>6, <1>7, ArrivesTypes DEF ReserveDuplicate, Inv, TypeOK
<1>9. Rows'
  BY <1>2, <1>3, ArrivesTypes, SettledStatus DEF Settle, Inv, Rows
<1> QED BY <1>5, <1>8, <1>9 DEF Inv

(* A settlement that grants the signup reward. *)
LEMMA SettleSignedTypes ==
  ASSUME Inv, NEW u \in Users, UNCHANGED now, SettleSigned(u)
  PROVE  /\ energy' \in [Users -> 0..ENERGY_MAX_PERCENT]
         /\ recoveredAt' \in [Users -> 0..MaxTime]
         /\ estimated' \in [Months -> Nat]
         /\ Clocks'
         /\ usage' = SettledRows(u) /\ usage' \in [Requests -> Row]
         /\ purchased' \in [Users -> Nat] /\ bonus' \in [Users -> Nat]
         /\ ledger' \in [Users -> [bonus : Int, purchased : Int]]
         /\ granted' \in [Users -> SUBSET Rewards]
<1>1. 0 \in 0..SettledEnergy(u)
  BY Settled
<1>2. /\ energy' \in [Users -> 0..ENERGY_MAX_PERCENT]
      /\ recoveredAt' \in [Users -> 0..MaxTime]
      /\ estimated' \in [Months -> Nat]
      /\ Clocks'
  BY <1>1, SettleTypes DEF SettleSigned, Settle
<1>3. usage' = SettledRows(u) /\ usage' \in [Requests -> Row] /\ purchased' \in [Users -> Nat]
  BY Settled DEF SettleSigned, Settle, Inv, TypeOK
<1>4. bonus' \in [Users -> Nat]
  BY Settled DEF SettleSigned, Inv, TypeOK
<1>5. ledger' \in [Users -> [bonus : Int, purchased : Int]]
  BY Settled, LedgerTypes DEF SettleSigned
<1>6. granted' \in [Users -> SUBSET Rewards]
  BY DEF SettleSigned, Inv, TypeOK, Rewards
<1> QED BY <1>2, <1>3, <1>4, <1>5, <1>6

(* Refusing a call (credits.py 81-91) keeps the invariant. *)
LEMMA ReserveRefusedInv ==
  ASSUME Inv, NEW r \in Requests, NEW u \in Users, NEW k \in Keys, NEW f \in Flows,
         ReserveRefused(r, u, k, f)
  PROVE  Inv'
<1>1. PICK answer \in {"hard_limited", "free_limited", "insufficient"} : Answer(r, answer, "done")
  BY DEF ReserveRefused
<1>2. pc' \in [Requests -> Steps] /\ reply' \in [Requests -> Replies]
      /\ pc'[r] = "done" /\ \A s \in Requests \ {r} : pc'[s] = pc[s]
  BY <1>1, AnswerTypes DEF Steps, Replies
<1>3. Arrives(r, u, k, f) /\ SettleSigned(u) /\ UNCHANGED now
  BY DEF ReserveRefused
<1>4. TypeOK'
  BY <1>2, <1>3, SettleSignedTypes, ArrivesTypes DEF ReserveRefused, Inv, TypeOK
<1>5. Rows'
  <2>1. usage' = SettledRows(u)
    BY <1>3, SettleSignedTypes
  <2> QED BY <1>2, <1>3, <2>1, ArrivesTypes, SettledStatus DEF Inv, Rows
<1>6. Clocks'
  BY <1>3, SettleSignedTypes
<1> QED BY <1>4, <1>5, <1>6 DEF Inv

(* The row an admitted call inserts is well formed. *)
LEMMA NewRowTypes ==
  ASSUME Inv, NEW u \in Users, NEW f \in Flows, Admissible(u, f)
  PROVE  /\ NewRow(u, f) \in Row
         /\ NewRow(u, f).status = "reserved"
         /\ NewRow(u, f).bonus = BonusCharge(u, f)
         /\ NewRow(u, f).purchased = PurchasedCharge(u, f)
         /\ NewRow(u, f).energy = EnergyCharge(u, f)
         /\ NewRow(u, f).credits = CreditCharge(u, f) /\ NewRow(u, f).created = now
<1>1. EnergyCharge(u, f) \in Nat /\ CreditCharge(u, f) \in Nat
      /\ BonusCharge(u, f) \in Nat /\ PurchasedCharge(u, f) \in Nat
  BY Charges, Settled DEF ENERGY_MAX_PERCENT
<1>2. now \in Nat
  BY DEF Inv, TypeOK
<1> QED BY <1>1, <1>2 DEF NewRow, Row

(* Admitting a call, which charges it and inserts its row, keeps the invariant. *)
LEMMA ReserveAdmittedInv ==
  ASSUME Inv, NEW r \in Requests, NEW u \in Users, NEW k \in Keys, NEW f \in Flows,
         ReserveAdmitted(r, u, k, f)
  PROVE  Inv'
<1>1. Arrives(r, u, k, f) /\ Admissible(u, f) /\ Answer(r, "none", "cost") /\ UNCHANGED now
      /\ SettleEnergy(u, EnergyCharge(u, f))
  BY DEF ReserveAdmitted
<1>2. pc' \in [Requests -> Steps] /\ reply' \in [Requests -> Replies]
      /\ pc'[r] = "cost" /\ \A s \in Requests \ {r} : pc'[s] = pc[s]
  BY <1>1, AnswerTypes DEF Steps, Replies
<1>3. usage' = [SettledRows(u) EXCEPT ![r] = NewRow(u, f)]
  BY DEF ReserveAdmitted
<1>4. usage' \in [Requests -> Row]
  BY <1>1, <1>3, NewRowTypes, Settled
<1>5. /\ energy' \in [Users -> 0..ENERGY_MAX_PERCENT]
      /\ recoveredAt' \in [Users -> 0..MaxTime]
      /\ estimated' \in [Months -> Nat]
      /\ Clocks'
  BY <1>1, Charges, SettleTypes
<1>6. purchased' \in [Users -> Nat]
  <2>1. SettledPurchased(u) - PurchasedCharge(u, f) \in Nat
    BY <1>1, Charges, Settled
  <2> QED BY <2>1 DEF ReserveAdmitted, Inv, TypeOK
<1>7. bonus' \in [Users -> Nat]
  <2>1. SettledBonus(u) - BonusCharge(u, f) \in Nat
    BY <1>1, Charges, Settled
  <2> QED BY <2>1 DEF ReserveAdmitted, Inv, TypeOK
<1>8. ledger' \in [Users -> [bonus : Int, purchased : Int]]
  <2>1. /\ StaleBonus(u) + SignupBonus(u) - BonusCharge(u, f) \in Int
        /\ StalePurchased(u) - PurchasedCharge(u, f) \in Int
    BY <1>1, Charges, Settled
  <2> QED BY <2>1, LedgerTypes DEF ReserveAdmitted
<1>9. granted' \in [Users -> SUBSET Rewards]
  BY DEF ReserveAdmitted, Inv, TypeOK, Rewards
<1>10. TypeOK'
  BY <1>1, <1>2, <1>4, <1>5, <1>6, <1>7, <1>8, <1>9, ArrivesTypes DEF ReserveAdmitted, Inv, TypeOK
<1>11. Rows'
  <2>1. usage'[r].status = "reserved"
    BY <1>1, <1>3, <1>4, NewRowTypes, Settled
  <2>2. \A q \in Requests \ {r} : usage'[q] = SettledRows(u)[q]
    BY <1>3, Settled
  <2> QED BY <1>1, <1>2, <2>1, <2>2, ArrivesTypes, SettledStatus DEF Inv, Rows
<1> QED BY <1>5, <1>10, <1>11 DEF Inv

(* A request between two transactions has made a typed call and inserted its row. *)
LEMMA Started ==
  ASSUME Inv, NEW r \in Requests, InProgress(r)
  PROVE  /\ call[r] \in Calls /\ call[r].user \in Users /\ call[r].flow \in Flows
         /\ usage[r] \in Row /\ usage[r].status # "none"
         /\ Policy[call[r].flow].cost \in Nat
<1>1. call[r] \in Calls /\ usage[r] \in Row /\ usage[r].status # "none"
  BY DEF Inv, TypeOK, Rows, InProgress
<1>2. call[r].user \in Users /\ call[r].flow \in Flows
  BY <1>1 DEF Calls
<1>3. Policy[call[r].flow] \in FlowPolicy
  BY <1>2, PolicyAssumption
<1> QED BY <1>1, <1>2, <1>3 DEF FlowPolicy

(* A step of a started request that leaves it started keeps its row and call. *)
LEMMA RowsKept ==
  ASSUME Inv, NEW r \in Requests, pc[r] # "new", UNCHANGED call,
         NEW step \in Steps \ {"new"}, pc' = [pc EXCEPT ![r] = step],
         \A q \in Requests : usage'[q].status = "none" <=> usage[q].status = "none",
         pc[r] = "done" => step = "done"
  PROVE  Rows'
BY DEF Inv, TypeOK, Rows, Steps

(* Reserving the provider's cost (ai_usage.py reserve) keeps the invariant. *)
LEMMA ReserveCostInv ==
  ASSUME Inv, NEW r \in Requests, InProgress(r), ReserveCost(r)
  PROVE  Inv'
<1>1. pc[r] = "cost" /\ UNCHANGED <<now, call, accountVars>>
  BY DEF ReserveCost
<1>2. Clocks'
  BY <1>1 DEF Inv, Clocks, accountVars
<1>3. CASE RefuseCost(r)
  <2>1. pc' \in [Requests -> Steps] /\ reply' \in [Requests -> Replies]
    BY <1>3, AnswerTypes DEF RefuseCost, Steps, Replies
  <2>2. TypeOK'
    BY <1>1, <1>3, <2>1 DEF RefuseCost, Inv, TypeOK, accountVars, costVars
  <2>3. Rows'
    BY <1>1, <1>3, RowsKept DEF RefuseCost, Answer, Steps
  <2> QED BY <1>2, <2>2, <2>3 DEF Inv
<1>4. CASE TakeCost(r)
  <2>1. pc' \in [Requests -> Steps] /\ reply' \in [Requests -> Replies]
    BY <1>4, AnswerTypes DEF TakeCost, Steps, Replies
  <2>2. DayOf(now) \in Days /\ MonthOf(now) \in Months
    BY DEF DayOf, MonthOf, Days, Months, Inv, TypeOK
  <2>3. usage' \in [Requests -> Row]
        /\ \A q \in Requests : usage'[q].status = usage[q].status
    <3> DEFINE row == [usage[r] EXCEPT !.cost = Policy[call[r].flow].cost, !.provider = "cost_reserved"]
    <3>1. row \in Row /\ row.status = usage[r].status
      BY Started DEF Row
    <3>2. usage' = [usage EXCEPT ![r] = row]
      BY <1>4 DEF TakeCost
    <3> HIDE DEF row
    <3> QED BY <3>1, <3>2 DEF Inv, TypeOK
  <2>4. dailyCalls' \in [Users -> [Days -> Nat]]
    <3>1. dailyCalls[call[r].user][DayOf(now)] + 1 \in Nat
      BY <2>2, Started DEF Inv, TypeOK
    <3> QED BY <1>4, <2>2, <3>1, Started DEF TakeCost, Inv, TypeOK
  <2>5. estimated' \in [Months -> Nat]
    BY <1>4, <2>2, Started DEF TakeCost, Inv, TypeOK
  <2>6. TypeOK'
    BY <1>1, <1>4, <2>1, <2>2, <2>3, <2>4, <2>5 DEF TakeCost, Inv, TypeOK, accountVars
  <2>7. Rows'
    BY <1>1, <1>4, <2>3, RowsKept DEF TakeCost, Answer, Steps
  <2> QED BY <1>2, <2>6, <2>7 DEF Inv
<1> QED BY <1>3, <1>4 DEF ReserveCost

(* mark_provider_started keeps the invariant. *)
LEMMA MarkStartedInv ==
  ASSUME Inv, NEW r \in Requests, InProgress(r), MarkStarted(r)
  PROVE  Inv'
<1>1. usage' \in [Requests -> Row] /\ \A q \in Requests : usage'[q].status = usage[q].status
  <2>1. [usage[r] EXCEPT !.provider = "provider_started"] \in Row
        /\ [usage[r] EXCEPT !.provider = "provider_started"].status = usage[r].status
    BY Started DEF Row
  <2>2. usage' \in {usage, [usage EXCEPT ![r] = [usage[r] EXCEPT !.provider = "provider_started"]]}
    BY DEF MarkStarted
  <2> QED BY <2>1, <2>2 DEF Inv, TypeOK
<1>2. TypeOK'
  BY <1>1 DEF MarkStarted, Inv, TypeOK, Steps, accountVars, costVars
<1>3. Rows'
  BY <1>1, RowsKept DEF MarkStarted, Steps
<1>4. Clocks'
  BY DEF MarkStarted, Inv, Clocks, accountVars
<1> QED BY <1>2, <1>3, <1>4 DEF Inv

(* Settling the provider's cost (ai_usage.py settle) keeps the invariant. *)
LEMMA SettleCostInv ==
  ASSUME Inv, NEW r \in Requests, InProgress(r), SettleCost(r)
  PROVE  Inv'
<1>1. PICK answer \in {"ok", "failed", "cancelled"}, cost \in 0..Policy[call[r].flow].cost,
           measured \in BOOLEAN :
       /\ Answer(r, answer, IF answer = "ok" THEN "commit" ELSE "refund")
       /\ actual' = [actual EXCEPT ![period[r]] = @ + cost]
       /\ estimated' = IF measured
            THEN [estimated EXCEPT ![period[r]] = Floor0(@ - Policy[call[r].flow].cost + cost)]
            ELSE estimated
  BY DEF SettleCost
<1>2. pc[r] = "provider" /\ UNCHANGED <<now, call, period, usage, dailyCalls, accountVars>>
  BY DEF SettleCost
<1>3. pc' \in [Requests -> Steps] /\ reply' \in [Requests -> Replies]
  BY <1>1, AnswerTypes DEF Steps, Replies
<1>4. Policy[call[r].flow].cost \in Nat /\ period[r] \in Months
  BY Started DEF Inv, TypeOK
<1>5. actual' \in [Months -> Nat]
  BY <1>1, <1>4 DEF Inv, TypeOK
<1>6. estimated' \in [Months -> Nat]
  <2>1. Floor0(estimated[period[r]] - Policy[call[r].flow].cost + cost) \in Nat
    BY <1>4 DEF Floor0, Inv, TypeOK
  <2> QED BY <1>1, <1>4, <2>1 DEF Inv, TypeOK
<1>7. TypeOK'
  BY <1>2, <1>3, <1>5, <1>6 DEF Inv, TypeOK, accountVars
<1>8. Rows'
  BY <1>1, <1>2, RowsKept DEF Answer, Steps
<1>9. Clocks'
  BY <1>2 DEF Inv, Clocks, accountVars
<1> QED BY <1>7, <1>8, <1>9 DEF Inv

(* commit_usage keeps the invariant, whether its row is still reserved or not. *)
LEMMA CommitInv ==
  ASSUME Inv, NEW r \in Requests, InProgress(r), Commit(r)
  PROVE  Inv'
<1> DEFINE u == call[r].user
           reward == IF FirstDm(r) THEN RewardCredits["first_dm"] ELSE 0
<1>1. pc[r] = "commit" /\ pc' = [pc EXCEPT ![r] = "done"] /\ UNCHANGED <<now, call, reply, period, costVars>>
  BY DEF Commit
<1>2. CASE Undecided(r)
  <2>1. reward \in Nat /\ u \in Users
    BY Started, BalancesAssumption DEF Rewards
  <2>2. usage' \in [Requests -> Row]
        /\ \A q \in Requests : usage'[q].status = "none" <=> usage[q].status = "none"
    <3>1. usage' = [usage EXCEPT ![r] = Decided(usage[r], "committed")]
      BY <1>2 DEF Commit
    <3>2. usage \in [Requests -> Row] /\ usage[r].status = "reserved"
      BY <1>2 DEF Undecided, Inv, TypeOK
    <3> QED BY <3>1, <3>2, DecidedRow
  <2>3. energy' \in [Users -> 0..ENERGY_MAX_PERCENT] /\ recoveredAt' \in [Users -> 0..MaxTime]
    BY <1>2, <2>1, Recovery DEF Commit, Inv, TypeOK
  <2>4. bonus' \in [Users -> Nat]
    <3>1. bonus' = [bonus EXCEPT ![u] = @ + reward]
      BY <1>2 DEF Commit
    <3> HIDE DEF u, reward
    <3> QED BY <2>1, <3>1 DEF Inv, TypeOK
  <2>5. ledger' \in [Users -> [bonus : Int, purchased : Int]]
    <3>1. ledger' = LedgerPlus(u, reward, 0)
      BY <1>2 DEF Commit
    <3>2. reward \in Int
      BY <2>1
    <3> HIDE DEF reward, u
    <3> QED BY <2>1, <3>1, <3>2, LedgerTypes
  <2>6. granted' \in [Users -> SUBSET Rewards] /\ purchased' = purchased
    <3>1. granted' \in {granted, [granted EXCEPT ![u] = @ \cup {"first_dm"}]} /\ purchased' = purchased
      BY <1>2 DEF Commit
    <3>2. "first_dm" \in Rewards /\ granted \in [Users -> SUBSET Rewards]
      BY DEF Inv, TypeOK, Rewards
    <3> HIDE DEF u
    <3> QED BY <2>1, <3>1, <3>2
  <2>7. TypeOK'
    BY <1>1, <2>2, <2>3, <2>4, <2>5, <2>6 DEF Inv, TypeOK, Steps, costVars
  <2>8. Rows'
    BY <1>1, <2>2, RowsKept DEF Steps
  <2>9. Clocks'
    <3>1. recoveredAt' = [recoveredAt EXCEPT ![u] = RecoveredAt(u)] /\ now' = now
      BY <1>1, <1>2 DEF Commit
    <3> HIDE DEF u
    <3> QED BY <2>1, <3>1, Recovery DEF Inv, TypeOK, Clocks
  <2> QED BY <2>7, <2>8, <2>9 DEF Inv
<1>3. CASE ~ Undecided(r)
  <2>1. UNCHANGED <<usage, accountVars>>
    BY <1>3 DEF Commit
  <2>2. TypeOK'
    BY <1>1, <2>1 DEF Inv, TypeOK, Steps, accountVars, costVars
  <2>3. Rows'
    BY <1>1, <2>1, RowsKept DEF Steps
  <2>4. Clocks'
    BY <1>1, <2>1 DEF Inv, Clocks, accountVars
  <2> QED BY <2>2, <2>3, <2>4 DEF Inv
<1> QED BY <1>2, <1>3

(* refund_usage keeps the invariant, whether its row is still reserved or not. *)
LEMMA RefundInv ==
  ASSUME Inv, NEW r \in Requests, InProgress(r), Refund(r)
  PROVE  Inv'
<1> DEFINE u == call[r].user
<1>1. PICK answer \in Replies : Answer(r, answer, "done")
  BY DEF Refund, Inv, TypeOK, Replies
<1>2. pc[r] \in {"refund", "commit"} /\ UNCHANGED <<now, call, period, costVars>>
  BY DEF Refund
<1>3. pc' \in [Requests -> Steps] /\ reply' \in [Requests -> Replies]
  BY <1>1, AnswerTypes DEF Steps
<1>4. CASE Undecided(r)
  <2>1. u \in Users /\ usage[r] \in Row
    BY Started
  <2>2. usage' \in [Requests -> Row]
        /\ \A q \in Requests : usage'[q].status = "none" <=> usage[q].status = "none"
    <3>1. usage' = [usage EXCEPT ![r] = Decided(usage[r], "refunded")]
      BY <1>4 DEF Refund
    <3>2. usage \in [Requests -> Row] /\ usage[r].status = "reserved"
      BY <1>4 DEF Undecided, Inv, TypeOK
    <3> QED BY <3>1, <3>2, DecidedRow
  <2>3. energy' \in [Users -> 0..ENERGY_MAX_PERCENT] /\ recoveredAt' \in [Users -> 0..MaxTime]
    <3>1. usage[r].energy \in Nat
      BY <2>1, RowNumbers
    <3>2. Least2(ENERGY_MAX_PERCENT, RecoveredEnergy(u) + usage[r].energy) \in 0..ENERGY_MAX_PERCENT
      <4>1. RecoveredEnergy(u) \in 0..ENERGY_MAX_PERCENT
        BY <2>1, Recovery
      <4> QED BY <3>1, <4>1 DEF Least2, ENERGY_MAX_PERCENT
    <3>3. /\ energy' = [energy EXCEPT ![u] = Least2(ENERGY_MAX_PERCENT, RecoveredEnergy(u) + usage[r].energy)]
          /\ recoveredAt' = [recoveredAt EXCEPT ![u] = RecoveredAt(u)]
      BY <1>4 DEF Refund
    <3> HIDE DEF u
    <3> QED BY <2>1, <3>2, <3>3, Recovery DEF Inv, TypeOK
  <2>4. bonus' \in [Users -> Nat] /\ purchased' \in [Users -> Nat]
    <3>1. usage[r].bonus \in Nat /\ usage[r].purchased \in Nat
      BY <2>1, RowNumbers
    <3>2. /\ bonus' = [bonus EXCEPT ![u] = @ + usage[r].bonus]
          /\ purchased' = [purchased EXCEPT ![u] = @ + usage[r].purchased]
      BY <1>4 DEF Refund
    <3> HIDE DEF u
    <3> QED BY <2>1, <3>1, <3>2 DEF Inv, TypeOK
  <2>5. ledger' \in [Users -> [bonus : Int, purchased : Int]]
    <3>1. usage[r].bonus \in Int /\ usage[r].purchased \in Int
      BY <2>1, RowNumbers
    <3>2. ledger' = LedgerPlus(u, usage[r].bonus, usage[r].purchased)
      BY <1>4 DEF Refund
    <3> QED BY <2>1, <3>1, <3>2, LedgerTypes
  <2>6. granted' = granted
    BY <1>4 DEF Refund
  <2>7. TypeOK'
    BY <1>2, <1>3, <2>2, <2>3, <2>4, <2>5, <2>6 DEF Inv, TypeOK, costVars
  <2>8. Rows'
    BY <1>1, <1>2, <2>2, RowsKept DEF Answer, Steps
  <2>9. Clocks'
    <3>1. recoveredAt' = [recoveredAt EXCEPT ![u] = RecoveredAt(u)] /\ now' = now
      BY <1>2, <1>4 DEF Refund
    <3> HIDE DEF u
    <3> QED BY <2>1, <3>1, Recovery DEF Inv, TypeOK, Clocks
  <2> QED BY <2>7, <2>8, <2>9 DEF Inv
<1>5. CASE ~ Undecided(r)
  <2>1. UNCHANGED <<usage, accountVars>>
    BY <1>5 DEF Refund
  <2>2. TypeOK'
    BY <1>2, <1>3, <2>1 DEF Inv, TypeOK, accountVars, costVars
  <2>3. Rows'
    BY <1>1, <1>2, <2>1, RowsKept DEF Answer, Steps
  <2>4. Clocks'
    BY <1>2, <2>1 DEF Inv, Clocks, accountVars
  <2> QED BY <2>2, <2>3, <2>4 DEF Inv
<1> QED BY <1>4, <1>5

(* Losing a request between two transactions keeps the invariant. *)
LEMMA AbandonInv ==
  ASSUME Inv, NEW r \in Requests, Abandon(r)
  PROVE  Inv'
<1>1. pc' = pc /\ reply' \in [Requests -> Replies]
  BY DEF Abandon, Answer, Inv, TypeOK, Replies
<1>2. TypeOK'
  BY <1>1 DEF Abandon, Inv, TypeOK, accountVars, costVars
<1> QED BY <1>1, <1>2 DEF Abandon, Inv, Rows, Clocks, accountVars

(* Reading the account (credits.py snapshot), which settles it, keeps the invariant. *)
LEMMA SnapshotInv ==
  ASSUME Inv, NEW u \in Users, Snapshot(u)
  PROVE  Inv'
<1>1. SettleSigned(u) /\ UNCHANGED <<now, requestVars, dailyCalls, actual>>
  BY DEF Snapshot
<1>2. TypeOK' /\ Clocks' /\ usage' = SettledRows(u)
  BY <1>1, SettleSignedTypes DEF Inv, TypeOK, requestVars
<1>3. Rows'
  BY <1>1, <1>2, SettledStatus DEF Inv, Rows, requestVars
<1> QED BY <1>2, <1>3 DEF Inv

(* Granting the first character's reward keeps the invariant. *)
LEMMA GrantFirstCharacterInv ==
  ASSUME Inv, NEW u \in Users, GrantFirstCharacter(u)
  PROVE  Inv'
<1> DEFINE reward == IF "first_character" \notin granted[u] THEN RewardCredits["first_character"] ELSE 0
<1>1. reward \in Nat
  BY BalancesAssumption DEF Rewards
<1>2. energy' \in [Users -> 0..ENERGY_MAX_PERCENT] /\ recoveredAt' \in [Users -> 0..MaxTime]
  BY Recovery DEF GrantFirstCharacter, Inv, TypeOK
<1>3. bonus' \in [Users -> Nat]
  BY <1>1 DEF GrantFirstCharacter, Inv, TypeOK
<1>4. ledger' \in [Users -> [bonus : Int, purchased : Int]]
  BY <1>1, LedgerTypes DEF GrantFirstCharacter
<1>5. granted' \in [Users -> SUBSET Rewards]
  BY DEF GrantFirstCharacter, Inv, TypeOK, Rewards
<1>6. TypeOK'
  BY <1>2, <1>3, <1>4, <1>5 DEF GrantFirstCharacter, Inv, TypeOK, requestVars, costVars
<1>7. Rows'
  BY DEF GrantFirstCharacter, Inv, Rows, requestVars
<1>8. Clocks'
  BY Recovery DEF GrantFirstCharacter, Inv, TypeOK, Clocks
<1> QED BY <1>6, <1>7, <1>8 DEF Inv

(* The passing of time keeps the invariant. *)
LEMMA TickInv ==
  ASSUME Inv, Tick
  PROVE  Inv'
<1>1. now' \in 0..MaxTime /\ now <= now'
  BY CountsAssumption DEF Tick, Inv, TypeOK
<1>2. TypeOK'
  BY <1>1 DEF Tick, Inv, TypeOK, requestVars, accountVars, costVars
<1>3. Clocks'
  BY <1>1, CountsAssumption DEF Tick, Inv, TypeOK, Clocks, accountVars
<1> QED BY <1>2, <1>3 DEF Tick, Inv, Rows, requestVars

(* Every step keeps the invariant. *)
LEMMA NextInv ==
  ASSUME Inv, [Next]_vars
  PROVE  Inv'
<1>1. ASSUME NEW r \in Requests, NEW u \in Users, NEW k \in Keys, NEW f \in Flows, Reserve(r, u, k, f)
      PROVE  Inv'
  BY <1>1, ReserveDuplicateInv, ReserveRefusedInv, ReserveAdmittedInv DEF Reserve
<1>2. ASSUME NEW r \in Requests, Advance(r)
      PROVE  Inv'
  BY <1>2, ReserveCostInv, MarkStartedInv, SettleCostInv, CommitInv, RefundInv DEF Advance
<1>3. CASE UNCHANGED vars
  BY <1>3 DEF vars, requestVars, accountVars, costVars, Inv, TypeOK, Clocks, Rows
<1> QED BY <1>1, <1>2, <1>3, AbandonInv, SnapshotInv, GrantFirstCharacterInv, TickInv DEF Next, Step

(* The invariant holds in every reachable state. *)
LEMMA InvHolds == Spec => []Inv
<1>1. Inv /\ [Next]_vars => Inv'
  BY NextInv
<1> QED BY InitInv, <1>1, PTL DEF Spec

(* No balance is overdrawn and no counter leaves its range (TypeOK), whatever *)
(* the policy charges: _can_use admits only calls that can be paid.           *)
THEOREM TypeCorrect == Spec => []TypeOK
<1>1. Inv => TypeOK
  BY DEF Inv
<1> QED BY <1>1, InvHolds, PTL

-----------------------------------------------------------------------------
(* Rows are inserted once and decided once.                                   *)

SameAmounts(q) ==
  /\ usage'[q].credits = usage[q].credits /\ usage'[q].energy = usage[q].energy
  /\ usage'[q].bonus = usage[q].bonus /\ usage'[q].purchased = usage[q].purchased
  /\ usage'[q].created = usage[q].created

(* What a step that admits no call may do to a row: nothing, or decide it.    *)
Keeps(q) ==
  /\ SameAmounts(q)
  /\ \/ usage'[q].status = usage[q].status
     \/ usage[q].status = "reserved" /\ usage'[q].status \in {"committed", "refunded"}
  /\ usage[q].status # "none" => call'[q] = call[q]

(* Settling an account decides its expired rows and keeps the others. *)
LEMMA SettledKeeps ==
  ASSUME Inv, NEW u \in Users, NEW q \in Requests, usage'[q] = SettledRows(u)[q],
         usage[q].status # "none" => call'[q] = call[q]
  PROVE  Keeps(q)
<1>1. usage[q] \in Row
  BY DEF Inv, TypeOK
<1>2. CASE q \in Stale(u)
  <2>1. usage'[q] = Decided(usage[q], "refunded") /\ usage[q].status = "reserved"
    BY <1>2 DEF SettledRows, Expired, Stale
  <2> QED BY <1>1, <2>1, DecidedRow DEF Keeps, SameAmounts
<1>3. CASE q \notin Stale(u)
  BY <1>3 DEF SettledRows, Keeps, SameAmounts
<1> QED BY <1>2, <1>3

(* A request past the account lock changes no row but its own, and decides it only once. *)
LEMMA AdvanceKeeps ==
  ASSUME Inv, NEW r \in Requests, Advance(r), NEW q \in Requests
  PROVE  Keeps(q)
<1>1. usage \in [Requests -> Row] /\ usage[r] \in Row /\ usage[q] \in Row /\ InProgress(r)
  BY DEF Advance, Inv, TypeOK
<1>2. CASE ReserveCost(r)
  <2> DEFINE row == [usage[r] EXCEPT !.cost = Policy[call[r].flow].cost, !.provider = "cost_reserved"]
  <2>1. row.status = usage[r].status /\ row.credits = usage[r].credits /\ row.energy = usage[r].energy
        /\ row.bonus = usage[r].bonus /\ row.purchased = usage[r].purchased
        /\ row.created = usage[r].created
    BY <1>1 DEF Row
  <2>2. usage' \in {usage, [usage EXCEPT ![r] = row]} /\ call' = call
    BY <1>2 DEF ReserveCost, RefuseCost, TakeCost
  <2> HIDE DEF row
  <2> QED BY <1>1, <2>1, <2>2 DEF Keeps, SameAmounts
<1>3. CASE MarkStarted(r)
  <2> DEFINE row == [usage[r] EXCEPT !.provider = "provider_started"]
  <2>1. row.status = usage[r].status /\ row.credits = usage[r].credits /\ row.energy = usage[r].energy
        /\ row.bonus = usage[r].bonus /\ row.purchased = usage[r].purchased
        /\ row.created = usage[r].created
    BY <1>1 DEF Row
  <2>2. usage' \in {usage, [usage EXCEPT ![r] = row]} /\ call' = call
    BY <1>3 DEF MarkStarted
  <2> HIDE DEF row
  <2> QED BY <1>1, <2>1, <2>2 DEF Keeps, SameAmounts
<1>4. CASE SettleCost(r)
  BY <1>4 DEF SettleCost, Keeps, SameAmounts
<1>5. CASE Commit(r)
  <2>1. call' = call
    BY <1>5 DEF Commit
  <2>2. CASE Undecided(r)
    <3>1. usage' = [usage EXCEPT ![r] = Decided(usage[r], "committed")]
      BY <1>5, <2>2 DEF Commit
    <3> QED BY <1>1, <2>1, <2>2, <3>1, DecidedRow DEF Undecided, Keeps, SameAmounts
  <2>3. CASE ~ Undecided(r)
    BY <1>5, <2>1, <2>3 DEF Commit, Keeps, SameAmounts
  <2> QED BY <2>2, <2>3
<1>6. CASE Refund(r)
  <2>1. call' = call
    BY <1>6 DEF Refund
  <2>2. CASE Undecided(r)
    <3>1. usage' = [usage EXCEPT ![r] = Decided(usage[r], "refunded")]
      BY <1>6, <2>2 DEF Refund
    <3> QED BY <1>1, <2>1, <2>2, <3>1, DecidedRow DEF Undecided, Keeps, SameAmounts
  <2>3. CASE ~ Undecided(r)
    BY <1>6, <2>1, <2>3 DEF Refund, Keeps, SameAmounts
  <2> QED BY <2>2, <2>3
<1> QED BY <1>2, <1>3, <1>4, <1>5, <1>6 DEF Advance

(* Every step keeps every row, but the one that admits a call inserts its row. *)
LEMMA StepKeeps ==
  ASSUME Inv, [Next]_vars
  PROVE  \/ \A q \in Requests : Keeps(q)
         \/ \E r \in Requests, u \in Users, k \in Keys, f \in Flows :
              /\ ReserveAdmitted(r, u, k, f)
              /\ \A q \in Requests \ {r} : Keeps(q)
<1>1. ASSUME NEW r \in Requests, NEW u \in Users, NEW k \in Keys, NEW f \in Flows,
             ReserveDuplicate(r, u, k, f) \/ ReserveRefused(r, u, k, f)
      PROVE  \A q \in Requests : Keeps(q)
  <2>1. usage' = SettledRows(u) /\ Arrives(r, u, k, f)
    BY <1>1 DEF ReserveDuplicate, ReserveRefused, SettleSigned, Settle
  <2> QED BY <2>1, ArrivesTypes, SettledKeeps
<1>2. ASSUME NEW r \in Requests, NEW u \in Users, NEW k \in Keys, NEW f \in Flows,
             ReserveAdmitted(r, u, k, f)
      PROVE  \A q \in Requests \ {r} : Keeps(q)
  <2>1. usage' = [SettledRows(u) EXCEPT ![r] = NewRow(u, f)] /\ Arrives(r, u, k, f)
    BY <1>2 DEF ReserveAdmitted
  <2> QED BY <2>1, ArrivesTypes, SettledKeeps, Settled
<1>3. ASSUME NEW u \in Users, Snapshot(u)
      PROVE  \A q \in Requests : Keeps(q)
  BY <1>3, SettledKeeps DEF Snapshot, SettleSigned, Settle, requestVars
<1>4. ASSUME UNCHANGED <<usage, call>>
      PROVE  \A q \in Requests : Keeps(q)
  BY <1>4 DEF Keeps, SameAmounts
<1>5. \A r \in Requests : Abandon(r) => UNCHANGED <<usage, call>>
  BY DEF Abandon
<1>6. \A u \in Users : GrantFirstCharacter(u) => UNCHANGED <<usage, call>>
  BY DEF GrantFirstCharacter, requestVars
<1>7. Tick => UNCHANGED <<usage, call>>
  BY DEF Tick, requestVars
<1>8. UNCHANGED vars => UNCHANGED <<usage, call>>
  BY DEF vars, requestVars
<1>9. CASE \E r \in Requests, u \in Users, k \in Keys, f \in Flows : Reserve(r, u, k, f)
  BY <1>9, <1>1, <1>2 DEF Reserve
<1>10. CASE \E r \in Requests : Advance(r)
  BY <1>10, AdvanceKeeps
<1> QED BY <1>3, <1>4, <1>5, <1>6, <1>7, <1>8, <1>9, <1>10 DEF Next, Step

(* A committed or refunded usage is never decided again: late commits, late   *)
(* refunds and expiry find it decided and leave it (credits.py:116, 136, 233). *)
THEOREM FinalUsagesStayFinal == Spec => FinalUsagesStay
<1>1. ASSUME Inv, [Next]_vars
      PROVE  [\A r \in Requests :
                usage[r].status \in {"committed", "refunded"} => usage'[r].status = usage[r].status]_vars
  <2>1. SUFFICES ASSUME NEW r \in Requests, usage[r].status \in {"committed", "refunded"}
                 PROVE  usage'[r].status = usage[r].status
    OBVIOUS
  <2>2. CASE Keeps(r)
    BY <2>1, <2>2 DEF Keeps
  <2>3. CASE ~ Keeps(r)
    <3>1. PICK u \in Users, k \in Keys, f \in Flows : ReserveAdmitted(r, u, k, f)
      BY <1>1, <2>3, StepKeeps
    <3>2. usage[r].status = "none"
      BY <1>1, <3>1, ArrivesTypes DEF ReserveAdmitted
    <3> QED BY <2>1, <3>2
  <2> QED BY <2>2, <2>3
<1> QED BY <1>1, InvHolds, PTL DEF Spec, FinalUsagesStay

(* No user's key is charged by two rows, however many requests carry it: the   *)
(* account lock makes looking the key up and inserting its row one step.       *)
THEOREM KeysChargedOnce == Spec => []OneUsagePerKey
<1>1. Init => OneUsagePerKey
  <2>1. Init => \A q \in Requests : usage[q].status = "none"
    <3>1. NoRow.status = "none"
      BY DEF NoRow
    <3>2. Init => usage = [q \in Requests |-> NoRow]
      BY DEF Init
    <3> QED BY <3>1, <3>2
  <2> QED BY <2>1 DEF OneUsagePerKey
<1>2. ASSUME Inv, OneUsagePerKey, [Next]_vars
      PROVE  OneUsagePerKey'
  <2>1. CASE \A q \in Requests : Keeps(q)
    <3>1. \A q \in Requests : usage'[q].status # "none" => usage[q].status # "none" /\ call'[q] = call[q]
      BY <2>1 DEF Keeps
    <3> QED BY <1>2, <3>1 DEF OneUsagePerKey
  <2>2. ASSUME NEW r \in Requests, NEW u \in Users, NEW k \in Keys, NEW f \in Flows,
               ReserveAdmitted(r, u, k, f), \A q \in Requests \ {r} : Keeps(q)
        PROVE  OneUsagePerKey'
    <3>1. \A q \in Requests \ {r} :
            usage'[q].status # "none" => usage[q].status # "none" /\ call'[q] = call[q]
      BY <2>2 DEF Keeps
    <3>2. call'[r].user = u /\ call'[r].key = k
      BY <1>2, <2>2 DEF ReserveAdmitted, Arrives, Inv, TypeOK
    <3>3. \A q \in Requests : usage[q].status # "none" => ~ (call[q].user = u /\ call[q].key = k)
      BY <2>2 DEF ReserveAdmitted, Existing, RowsOf
    <3> QED BY <1>2, <3>1, <3>2, <3>3 DEF OneUsagePerKey
  <2> QED BY <1>2, <2>1, <2>2, StepKeeps
<1> QED BY <1>1, <1>2, InvHolds, PTL DEF Spec

-----------------------------------------------------------------------------
(* Conservation. *)

(* The balances of every account are what its ledger entries add up to.       *)
(* Every transaction that moves a balance writes its entry, expiry included.  *)
THEOREM LedgerExplainsBalances == Spec => []LedgerBalanced
<1>1. Init => LedgerBalanced
  BY DEF Init, LedgerBalanced
<1>2. ASSUME Inv, LedgerBalanced, [Next]_vars
      PROVE  LedgerBalanced'
  <2>1. /\ ledger \in [Users -> [bonus : Int, purchased : Int]]
        /\ bonus \in [Users -> Nat] /\ purchased \in [Users -> Nat]
    BY <1>2 DEF Inv, TypeOK
  <2>2. ASSUME NEW u \in Users, NEW b \in Int, NEW p \in Int, ledger' = LedgerPlus(u, b, p),
               bonus' = [bonus EXCEPT ![u] = bonus[u] + b],
               purchased' = [purchased EXCEPT ![u] = purchased[u] + p]
        PROVE  LedgerBalanced'
    BY <1>2, <2>1, <2>2 DEF LedgerPlus, LedgerBalanced
  <2>3. ASSUME NEW u \in Users, Settle(u),
               bonus' = [bonus EXCEPT ![u] = @ + StaleBonus(u)],
               ledger' = LedgerPlus(u, StaleBonus(u), StalePurchased(u))
        PROVE  LedgerBalanced'
    <3>1. StaleBonus(u) \in Int /\ StalePurchased(u) \in Int
      BY <1>2, Settled
    <3>2. purchased' = [purchased EXCEPT ![u] = purchased[u] + StalePurchased(u)]
      BY <2>3 DEF Settle, SettledPurchased
    <3> QED BY <2>2, <2>3, <3>1, <3>2
  <2>4. ASSUME NEW u \in Users, SettleSigned(u)
        PROVE  LedgerBalanced'
    <3>1. /\ StaleBonus(u) \in Nat /\ StalePurchased(u) \in Nat /\ SignupBonus(u) \in Nat
      BY <1>2, Settled
    <3>2. StaleBonus(u) + SignupBonus(u) \in Int /\ StalePurchased(u) \in Int
      BY <3>1
    <3>3. purchased' = [purchased EXCEPT ![u] = purchased[u] + StalePurchased(u)]
      BY <2>4 DEF SettleSigned, Settle, SettledPurchased
    <3>4. SettledBonus(u) = bonus[u] + (StaleBonus(u) + SignupBonus(u))
      BY <2>1, <3>1 DEF SettledBonus
    <3>5. bonus' = [bonus EXCEPT ![u] = bonus[u] + (StaleBonus(u) + SignupBonus(u))]
      BY <2>4, <3>4 DEF SettleSigned
    <3> QED BY <2>2, <2>4, <3>2, <3>3, <3>5 DEF SettleSigned
  <2>5. ASSUME NEW r \in Requests, NEW u \in Users, NEW k \in Keys, NEW f \in Flows,
               ReserveAdmitted(r, u, k, f)
        PROVE  LedgerBalanced'
    <3> DEFINE b == StaleBonus(u) + SignupBonus(u) - BonusCharge(u, f)
               p == StalePurchased(u) - PurchasedCharge(u, f)
    <3>1. /\ StaleBonus(u) \in Nat /\ StalePurchased(u) \in Nat /\ SignupBonus(u) \in Nat
          /\ BonusCharge(u, f) \in Int /\ PurchasedCharge(u, f) \in Int
      BY <1>2, <2>5, Settled, Charges DEF ReserveAdmitted
    <3>2. SettledBonus(u) - BonusCharge(u, f) = bonus[u] + b
          /\ SettledPurchased(u) - PurchasedCharge(u, f) = purchased[u] + p
          /\ b \in Int /\ p \in Int
      BY <2>1, <3>1 DEF SettledBonus, SettledPurchased
    <3>3. /\ ledger' = LedgerPlus(u, b, p)
          /\ bonus' = [bonus EXCEPT ![u] = SettledBonus(u) - BonusCharge(u, f)]
          /\ purchased' = [purchased EXCEPT ![u] = SettledPurchased(u) - PurchasedCharge(u, f)]
      BY <2>5 DEF ReserveAdmitted
    <3> HIDE DEF b, p
    <3> QED BY <2>2, <3>2, <3>3
  <2>6. ASSUME UNCHANGED <<ledger, bonus, purchased>>
        PROVE  LedgerBalanced'
    BY <1>2, <2>6 DEF LedgerBalanced
  <2>7. ASSUME NEW u \in Users, NEW b \in Nat, ledger' = LedgerPlus(u, b, 0),
               bonus' = [bonus EXCEPT ![u] = bonus[u] + b], purchased' = purchased
        PROVE  LedgerBalanced'
    BY <1>2, <2>1, <2>7 DEF LedgerPlus, LedgerBalanced
  <2>8. ASSUME NEW r \in Requests, InProgress(r), Commit(r)
        PROVE  LedgerBalanced'
    <3> DEFINE u == call[r].user
               reward == IF FirstDm(r) THEN RewardCredits["first_dm"] ELSE 0
    <3>1. u \in Users /\ reward \in Nat
      BY <1>2, <2>8, Started, BalancesAssumption DEF Rewards
    <3>2. CASE Undecided(r)
      <4>1. /\ ledger' = LedgerPlus(u, reward, 0) /\ purchased' = purchased
            /\ bonus' = [bonus EXCEPT ![u] = bonus[u] + reward]
        BY <2>8, <3>2 DEF Commit
      <4> HIDE DEF u, reward
      <4> QED BY <2>7, <3>1, <4>1
    <3> QED BY <2>6, <2>8, <3>2 DEF Commit, accountVars
  <2>9. ASSUME NEW r \in Requests, InProgress(r), Refund(r)
        PROVE  LedgerBalanced'
    <3> DEFINE u == call[r].user
    <3>1. u \in Users /\ usage[r].bonus \in Int /\ usage[r].purchased \in Int
      BY <1>2, <2>9, Started, RowNumbers
    <3>2. CASE Undecided(r)
      <4>1. /\ ledger' = LedgerPlus(u, usage[r].bonus, usage[r].purchased)
            /\ bonus' = [bonus EXCEPT ![u] = bonus[u] + usage[r].bonus]
            /\ purchased' = [purchased EXCEPT ![u] = purchased[u] + usage[r].purchased]
        BY <2>9, <3>2 DEF Refund
      <4> HIDE DEF u
      <4> QED BY <2>2, <3>1, <4>1
    <3> QED BY <2>6, <2>9, <3>2 DEF Refund, accountVars
  <2>10. ASSUME NEW u \in Users, GrantFirstCharacter(u)
         PROVE  LedgerBalanced'
    <3> DEFINE reward == IF "first_character" \notin granted[u]
                           THEN RewardCredits["first_character"] ELSE 0
    <3>1. reward \in Nat
      BY BalancesAssumption DEF Rewards
    <3>2. /\ ledger' = LedgerPlus(u, reward, 0) /\ purchased' = purchased
          /\ bonus' = [bonus EXCEPT ![u] = bonus[u] + reward]
      BY <2>10 DEF GrantFirstCharacter
    <3> HIDE DEF reward
    <3> QED BY <2>7, <3>1, <3>2
  <2>11. ASSUME NEW r \in Requests, Advance(r)
         PROVE  LedgerBalanced'
    <3>1. ReserveCost(r) \/ MarkStarted(r) \/ SettleCost(r) => UNCHANGED <<ledger, bonus, purchased>>
      BY DEF ReserveCost, MarkStarted, SettleCost, accountVars
    <3> QED BY <2>6, <2>8, <2>9, <2>11, <3>1 DEF Advance
  <2>12. ASSUME NEW r \in Requests, NEW u \in Users, NEW k \in Keys, NEW f \in Flows,
                Reserve(r, u, k, f)
         PROVE  LedgerBalanced'
    BY <2>3, <2>4, <2>5, <2>12 DEF Reserve, ReserveDuplicate, ReserveRefused
  <2>13. \A r \in Requests : Abandon(r) => UNCHANGED <<ledger, bonus, purchased>>
    BY DEF Abandon, accountVars
  <2>14. Tick \/ UNCHANGED vars => UNCHANGED <<ledger, bonus, purchased>>
    BY DEF Tick, vars, accountVars
  <2>15. \A u \in Users : Snapshot(u) => LedgerBalanced'
    BY <2>4 DEF Snapshot
  <2> QED BY <1>2, <2>6, <2>10, <2>11, <2>12, <2>13, <2>14, <2>15 DEF Next, Step
<1> QED BY <1>1, <1>2, InvHolds, PTL DEF Spec

-----------------------------------------------------------------------------
(* What a step does to the credits that rows hold.                            *)
BonusOf == [r \in Requests |-> usage[r].bonus]
PurchasedOf == [r \in Requests |-> usage[r].purchased]
EnergyOf == [r \in Requests |-> usage[r].energy]

(* The sum over no rows is zero. *)
LEMMA SumNone ==
  ASSUME NEW column \in [Requests -> Nat]
  PROVE  SumOver({}, column) = 0
<1>1. SumOver({}, column) = SumOver({}, column) + SumOver({}, column)
  BY SumSplit
<1> QED BY <1>1, SumNat

(* When the rows L leave a set and the rows G join it, the sum follows.        *)
LEMMA SumMoved ==
  ASSUME NEW S, NEW T, NEW L, NEW G,
         NEW c \in [Requests -> Nat], NEW d \in [Requests -> Nat],
         \A r \in Requests : r \in T <=> (r \in S /\ r \notin L) \/ r \in G,
         \A r \in Requests : r \in L => r \in S,
         \A r \in Requests : r \in G => r \notin S,
         \A r \in Requests : r \in S /\ r \notin L => d[r] = c[r]
  PROVE  SumOver(T, d) + SumOver(L, c) = SumOver(S, c) + SumOver(G, d)
<1> DEFINE K == {r \in Requests : r \in S /\ r \notin L}
<1>1. SumOver(S, c) = SumOver(K, c) + SumOver(L, c)
  BY SumSplit
<1>2. SumOver(T, d) = SumOver(K, d) + SumOver(G, d)
  BY SumSplit
<1>3. SumOver(K, c) = SumOver(K, d)
  BY SumSame
<1>4. /\ SumOver(K, c) \in Nat /\ SumOver(L, c) \in Nat /\ SumOver(G, d) \in Nat
  BY SumNat
<1> HIDE DEF K
<1> QED BY <1>1, <1>2, <1>3, <1>4

(* The columns that hold credits are typed. *)
LEMMA Columns ==
  ASSUME Inv
  PROVE  /\ BonusOf \in [Requests -> Nat] /\ PurchasedOf \in [Requests -> Nat]
         /\ EnergyOf \in [Requests -> Nat]
BY RowNumbers DEF BonusOf, PurchasedOf, EnergyOf, Inv, TypeOK

(* The columns of the next state are typed too. *)
LEMMA ColumnsNext ==
  ASSUME Inv'
  PROVE  /\ BonusOf' \in [Requests -> Nat] /\ PurchasedOf' \in [Requests -> Nat]
         /\ EnergyOf' \in [Requests -> Nat]
<1>1. usage' \in [Requests -> Row]
  BY DEF Inv, TypeOK
<1> QED BY <1>1, RowNumbers DEF BonusOf, PurchasedOf, EnergyOf

(* Rows that release or take up credits move what their owner's rows hold. *)
LEMMA HeldMoved ==
  ASSUME Inv, Inv', NEW v \in Users, NEW L, NEW G,
         \A q \in Requests : q \in Held(v)' <=> (q \in Held(v) /\ q \notin L) \/ q \in G,
         \A q \in Requests : q \in L => q \in Held(v),
         \A q \in Requests : q \in G => q \notin Held(v),
         \A q \in Requests : q \in Held(v) /\ q \notin L =>
           /\ usage'[q].bonus = usage[q].bonus /\ usage'[q].purchased = usage[q].purchased
           /\ usage'[q].energy = usage[q].energy
  PROVE  /\ HeldBonus(v)' + SumOver(L, BonusOf) = HeldBonus(v) + SumOver(G, BonusOf')
         /\ HeldPurchased(v)' + SumOver(L, PurchasedOf) = HeldPurchased(v) + SumOver(G, PurchasedOf')
         /\ HeldEnergy(v)' + SumOver(L, EnergyOf) = HeldEnergy(v) + SumOver(G, EnergyOf')
         /\ HeldBonus(v) \in Nat /\ HeldBonus(v)' \in Nat
         /\ HeldPurchased(v) \in Nat /\ HeldPurchased(v)' \in Nat
         /\ HeldEnergy(v) \in Nat /\ HeldEnergy(v)' \in Nat
<1>1. /\ BonusOf \in [Requests -> Nat] /\ PurchasedOf \in [Requests -> Nat]
      /\ BonusOf' \in [Requests -> Nat] /\ PurchasedOf' \in [Requests -> Nat]
      /\ EnergyOf \in [Requests -> Nat] /\ EnergyOf' \in [Requests -> Nat]
  BY Columns, ColumnsNext
<1>2. \A q \in Requests : q \in Held(v) /\ q \notin L =>
        BonusOf'[q] = BonusOf[q] /\ PurchasedOf'[q] = PurchasedOf[q] /\ EnergyOf'[q] = EnergyOf[q]
  BY DEF BonusOf, PurchasedOf, EnergyOf
<1>3. /\ HeldBonus(v) = SumOver(Held(v), BonusOf)
      /\ HeldBonus(v)' = SumOver(Held(v)', BonusOf')
      /\ HeldPurchased(v) = SumOver(Held(v), PurchasedOf)
      /\ HeldEnergy(v) = SumOver(Held(v), EnergyOf)
      /\ HeldPurchased(v)' = SumOver(Held(v)', PurchasedOf')
      /\ HeldEnergy(v)' = SumOver(Held(v)', EnergyOf')
  BY DEF HeldBonus, HeldPurchased, HeldEnergy, BonusOf, PurchasedOf, EnergyOf
<1>4. SumOver(Held(v)', BonusOf') + SumOver(L, BonusOf)
        = SumOver(Held(v), BonusOf) + SumOver(G, BonusOf')
  BY <1>1, <1>2, SumMoved
<1>5. SumOver(Held(v)', PurchasedOf') + SumOver(L, PurchasedOf)
        = SumOver(Held(v), PurchasedOf) + SumOver(G, PurchasedOf')
  BY <1>1, <1>2, SumMoved
<1>6. SumOver(Held(v)', EnergyOf') + SumOver(L, EnergyOf)
        = SumOver(Held(v), EnergyOf) + SumOver(G, EnergyOf')
  BY <1>1, <1>2, SumMoved
<1>7. /\ SumOver(Held(v), BonusOf) \in Nat /\ SumOver(Held(v)', BonusOf') \in Nat
      /\ SumOver(Held(v), PurchasedOf) \in Nat /\ SumOver(Held(v)', PurchasedOf') \in Nat
      /\ SumOver(Held(v), EnergyOf) \in Nat /\ SumOver(Held(v)', EnergyOf') \in Nat
  BY <1>1, SumNat
<1> QED BY <1>3, <1>4, <1>5, <1>6, <1>7

(* A row is held by its owner from its insertion until it is refunded. *)
LEMMA HeldRow ==
  ASSUME NEW v \in Users, NEW q \in Requests
  PROVE  /\ q \in Held(v) <=> usage[q].status \in {"reserved", "committed"} /\ call[q].user = v
         /\ q \in Held(v)' <=> usage'[q].status \in {"reserved", "committed"} /\ call'[q].user = v
BY DEF Held, Live, RowsOf

(* A step after which the same rows hold the same amounts moves nothing. *)
LEMMA HeldSame ==
  ASSUME Inv, Inv', NEW v \in Users,
         \A q \in Requests : q \in Held(v)' <=> q \in Held(v),
         \A q \in Requests : q \in Held(v) => SameAmounts(q)
  PROVE  /\ HeldBonus(v)' = HeldBonus(v) /\ HeldPurchased(v)' = HeldPurchased(v)
         /\ HeldEnergy(v)' = HeldEnergy(v)
         /\ HeldBonus(v) \in Nat /\ HeldPurchased(v) \in Nat
         /\ HeldEnergy(v) \in Nat
<1> DEFINE none == {}
<1>1. /\ HeldBonus(v)' + SumOver(none, BonusOf) = HeldBonus(v) + SumOver(none, BonusOf')
      /\ HeldPurchased(v)' + SumOver(none, PurchasedOf) = HeldPurchased(v) + SumOver(none, PurchasedOf')
      /\ HeldEnergy(v)' + SumOver(none, EnergyOf) = HeldEnergy(v) + SumOver(none, EnergyOf')
      /\ HeldBonus(v) \in Nat /\ HeldBonus(v)' \in Nat
      /\ HeldPurchased(v) \in Nat /\ HeldPurchased(v)' \in Nat
      /\ HeldEnergy(v) \in Nat /\ HeldEnergy(v)' \in Nat
  <2>1. \A q \in Requests : q \notin none
    OBVIOUS
  <2> HIDE DEF none
  <2>2. \A q \in Requests : q \in Held(v)' <=> (q \in Held(v) /\ q \notin none) \/ q \in none
    BY <2>1
  <2>3. \A q \in Requests : (q \in none => q \in Held(v)) /\ (q \in none => q \notin Held(v))
    BY <2>1
  <2>4. \A q \in Requests : q \in Held(v) /\ q \notin none =>
          usage'[q].bonus = usage[q].bonus /\ usage'[q].purchased = usage[q].purchased
          /\ usage'[q].energy = usage[q].energy
    BY DEF SameAmounts
  <2> QED BY <2>2, <2>3, <2>4, HeldMoved
<1>2. /\ SumOver({}, BonusOf) = 0 /\ SumOver({}, PurchasedOf) = 0 /\ SumOver({}, EnergyOf) = 0
      /\ SumOver({}, BonusOf') = 0 /\ SumOver({}, PurchasedOf') = 0
      /\ SumOver({}, EnergyOf') = 0
  BY Columns, ColumnsNext, SumNone
<1> QED BY <1>1, <1>2

(* Settling an account gives back exactly what its expired rows held. *)
LEMMA SettledHeld ==
  ASSUME Inv, Inv', NEW u \in Users, NEW v \in Users,
         \A q \in Requests : usage'[q] = SettledRows(u)[q],
         \A q \in Requests : usage[q].status # "none" => call'[q] = call[q]
  PROVE  /\ HeldBonus(v)' + (IF v = u THEN StaleBonus(u) ELSE 0) = HeldBonus(v)
         /\ HeldPurchased(v)' + (IF v = u THEN StalePurchased(u) ELSE 0) = HeldPurchased(v)
         /\ HeldEnergy(v)' + (IF v = u THEN StaleEnergy(u) ELSE 0) = HeldEnergy(v)
         /\ HeldBonus(v) \in Nat /\ HeldPurchased(v) \in Nat
         /\ HeldEnergy(v) \in Nat
         /\ HeldBonus(v)' \in Nat /\ HeldPurchased(v)' \in Nat
         /\ HeldEnergy(v)' \in Nat
<1>1. \A q \in Requests : Keeps(q)
  BY SettledKeeps
<1>2. \A q \in Requests : usage'[q].status = IF q \in Stale(u) THEN "refunded" ELSE usage[q].status
  <2>1. \A q \in Requests : usage[q] \in Row
    BY DEF Inv, TypeOK
  <2> QED BY <2>1, DecidedRow DEF SettledRows, Expired
<1>3. \A q \in Requests : q \in Stale(u) => q \in Held(u) /\ (v # u => q \notin Held(v))
  BY HeldRow DEF Stale, RowsOf
<1>4. CASE v = u
  <2> DEFINE none == {}
  <2>1. /\ \A q \in Requests : q \in Held(v)' <=> (q \in Held(v) /\ q \notin Stale(u)) \/ q \in none
        /\ \A q \in Requests : q \in none => q \notin Held(v)
    BY <1>2, <1>4, HeldRow
  <2>2. /\ HeldBonus(v)' + SumOver(Stale(u), BonusOf) = HeldBonus(v) + SumOver(none, BonusOf')
        /\ HeldPurchased(v)' + SumOver(Stale(u), PurchasedOf) = HeldPurchased(v) + SumOver(none, PurchasedOf')
        /\ HeldEnergy(v)' + SumOver(Stale(u), EnergyOf) = HeldEnergy(v) + SumOver(none, EnergyOf')
        /\ HeldBonus(v) \in Nat /\ HeldBonus(v)' \in Nat
        /\ HeldPurchased(v) \in Nat /\ HeldPurchased(v)' \in Nat
        /\ HeldEnergy(v) \in Nat /\ HeldEnergy(v)' \in Nat
    <3>1. \A q \in Requests : q \in Stale(u) => q \in Held(v)
      BY <1>3, <1>4
    <3>2. \A q \in Requests : usage'[q].bonus = usage[q].bonus /\ usage'[q].purchased = usage[q].purchased
          /\ usage'[q].energy = usage[q].energy
      BY <1>1 DEF Keeps, SameAmounts
    <3> HIDE DEF none
    <3> QED BY <2>1, <3>1, <3>2, HeldMoved
  <2>3. SumOver({}, BonusOf') = 0 /\ SumOver({}, PurchasedOf') = 0 /\ SumOver({}, EnergyOf') = 0
    BY ColumnsNext, SumNone
  <2>4. StaleBonus(u) = SumOver(Stale(u), BonusOf) /\ StalePurchased(u) = SumOver(Stale(u), PurchasedOf)
        /\ StaleEnergy(u) = SumOver(Stale(u), EnergyOf)
    BY DEF StaleBonus, StalePurchased, StaleEnergy, BonusOf, PurchasedOf, EnergyOf
  <2> QED BY <1>4, <2>2, <2>3, <2>4
<1>5. CASE v # u
  <2>1. \A q \in Requests : q \in Held(v)' <=> q \in Held(v)
    BY <1>2, <1>3, <1>5, HeldRow
  <2>2. /\ HeldBonus(v)' = HeldBonus(v) /\ HeldPurchased(v)' = HeldPurchased(v)
        /\ HeldEnergy(v)' = HeldEnergy(v)
        /\ HeldBonus(v) \in Nat /\ HeldPurchased(v) \in Nat
        /\ HeldEnergy(v) \in Nat
    BY <1>1, <2>1, HeldSame DEF Keeps
  <2> QED BY <1>5, <2>2
<1> QED BY <1>4, <1>5

(* Admitting a call gives back what expired rows held and takes its charge. *)
LEMMA AdmittedHeld ==
  ASSUME Inv, Inv', NEW r \in Requests, NEW u \in Users, NEW k \in Keys, NEW f \in Flows,
         ReserveAdmitted(r, u, k, f), NEW v \in Users
  PROVE  /\ HeldBonus(v)' + (IF v = u THEN StaleBonus(u) ELSE 0)
              = HeldBonus(v) + (IF v = u THEN BonusCharge(u, f) ELSE 0)
         /\ HeldPurchased(v)' + (IF v = u THEN StalePurchased(u) ELSE 0)
              = HeldPurchased(v) + (IF v = u THEN PurchasedCharge(u, f) ELSE 0)
         /\ HeldEnergy(v)' + (IF v = u THEN StaleEnergy(u) ELSE 0)
              = HeldEnergy(v) + (IF v = u THEN EnergyCharge(u, f) ELSE 0)
         /\ HeldBonus(v) \in Nat /\ HeldPurchased(v) \in Nat
         /\ HeldEnergy(v) \in Nat
         /\ HeldBonus(v)' \in Nat /\ HeldPurchased(v)' \in Nat
         /\ HeldEnergy(v)' \in Nat
<1>1. /\ usage[r].status = "none" /\ call'[r].user = u
      /\ \A q \in Requests \ {r} : call'[q] = call[q]
  <2>1. Arrives(r, u, k, f)
    BY DEF ReserveAdmitted
  <2> QED BY <2>1, ArrivesTypes DEF Arrives, Inv, TypeOK
<1>2. /\ usage'[r] = NewRow(u, f)
      /\ \A q \in Requests \ {r} : usage'[q] = SettledRows(u)[q]
  BY Settled DEF ReserveAdmitted
<1>3. /\ usage'[r].status = "reserved" /\ usage'[r].bonus = BonusCharge(u, f)
      /\ usage'[r].purchased = PurchasedCharge(u, f)
      /\ usage'[r].energy = EnergyCharge(u, f)
  BY <1>2, NewRowTypes DEF ReserveAdmitted
<1>4. \A q \in Requests \ {r} : Keeps(q)
  BY <1>1, <1>2, SettledKeeps
<1>5. \A q \in Requests \ {r} :
        usage'[q].status = IF q \in Stale(u) THEN "refunded" ELSE usage[q].status
  <2>1. \A q \in Requests : usage[q] \in Row
    BY DEF Inv, TypeOK
  <2> QED BY <1>2, <2>1, DecidedRow DEF SettledRows, Expired
<1>6. \A q \in Requests : q \in Stale(u) => q \in Held(u) /\ (v # u => q \notin Held(v))
  BY HeldRow DEF Stale, RowsOf
<1>7. r \notin Held(v)
  BY <1>1, HeldRow
<1>8. CASE v = u
  <2>1. \A q \in Requests : q \in Held(v)' <=> (q \in Held(v) /\ q \notin Stale(u)) \/ q \in {r}
    BY <1>1, <1>3, <1>5, <1>7, <1>8, HeldRow
  <2>2. \A q \in Requests : q \in Held(v) /\ q \notin Stale(u) =>
          usage'[q].bonus = usage[q].bonus /\ usage'[q].purchased = usage[q].purchased
          /\ usage'[q].energy = usage[q].energy
    BY <1>4, <1>7 DEF Keeps, SameAmounts
  <2>3. /\ HeldBonus(v)' + SumOver(Stale(u), BonusOf) = HeldBonus(v) + SumOver({r}, BonusOf')
        /\ HeldPurchased(v)' + SumOver(Stale(u), PurchasedOf) = HeldPurchased(v) + SumOver({r}, PurchasedOf')
        /\ HeldEnergy(v)' + SumOver(Stale(u), EnergyOf) = HeldEnergy(v) + SumOver({r}, EnergyOf')
        /\ HeldBonus(v) \in Nat /\ HeldBonus(v)' \in Nat
        /\ HeldPurchased(v) \in Nat /\ HeldPurchased(v)' \in Nat
        /\ HeldEnergy(v) \in Nat /\ HeldEnergy(v)' \in Nat
    <3> DEFINE one == {r}
    <3>1. /\ \A q \in Requests : q \in Held(v)' <=> (q \in Held(v) /\ q \notin Stale(u)) \/ q \in one
          /\ \A q \in Requests : q \in one => q \notin Held(v)
          /\ \A q \in Requests : q \in Stale(u) => q \in Held(v)
      BY <2>1, <1>6, <1>7, <1>8
    <3> HIDE DEF one
    <3>2. /\ HeldBonus(v)' + SumOver(Stale(u), BonusOf) = HeldBonus(v) + SumOver(one, BonusOf')
          /\ HeldPurchased(v)' + SumOver(Stale(u), PurchasedOf) = HeldPurchased(v) + SumOver(one, PurchasedOf')
          /\ HeldEnergy(v)' + SumOver(Stale(u), EnergyOf) = HeldEnergy(v) + SumOver(one, EnergyOf')
          /\ HeldBonus(v) \in Nat /\ HeldBonus(v)' \in Nat
          /\ HeldPurchased(v) \in Nat /\ HeldPurchased(v)' \in Nat
          /\ HeldEnergy(v) \in Nat /\ HeldEnergy(v)' \in Nat
      BY <2>2, <3>1, HeldMoved
    <3> QED BY <3>2 DEF one
  <2>4. SumOver({r}, BonusOf') = BonusCharge(u, f) /\ SumOver({r}, PurchasedOf') = PurchasedCharge(u, f)
        /\ SumOver({r}, EnergyOf') = EnergyCharge(u, f)
    <3>1. SumOver({r}, BonusOf') = BonusOf'[r] /\ SumOver({r}, PurchasedOf') = PurchasedOf'[r]
          /\ SumOver({r}, EnergyOf') = EnergyOf'[r]
      BY ColumnsNext, SumOne
    <3> QED BY <1>3, <3>1 DEF BonusOf, PurchasedOf, EnergyOf
  <2>5. StaleBonus(u) = SumOver(Stale(u), BonusOf) /\ StalePurchased(u) = SumOver(Stale(u), PurchasedOf)
        /\ StaleEnergy(u) = SumOver(Stale(u), EnergyOf)
    BY DEF StaleBonus, StalePurchased, StaleEnergy, BonusOf, PurchasedOf, EnergyOf
  <2> QED BY <1>8, <2>3, <2>4, <2>5
<1>9. CASE v # u
  <2>1. \A q \in Requests : q \in Held(v)' <=> q \in Held(v)
    BY <1>1, <1>5, <1>6, <1>7, <1>9, HeldRow
  <2>2. \A q \in Requests : q \in Held(v) => SameAmounts(q)
    BY <1>4, <1>7 DEF Keeps
  <2>3. /\ HeldBonus(v)' = HeldBonus(v) /\ HeldPurchased(v)' = HeldPurchased(v)
        /\ HeldEnergy(v)' = HeldEnergy(v)
        /\ HeldBonus(v) \in Nat /\ HeldPurchased(v) \in Nat
        /\ HeldEnergy(v) \in Nat
    BY <2>1, <2>2, HeldSame
  <2> QED BY <1>9, <2>3
<1> QED BY <1>8, <1>9

(* Refunding a reserved row gives back what it held. *)
LEMMA RefundedHeld ==
  ASSUME Inv, Inv', NEW r \in Requests, call[r].user \in Users, usage[r].status = "reserved",
         usage' = [usage EXCEPT ![r] = Decided(usage[r], "refunded")], call' = call,
         NEW v \in Users
  PROVE  /\ HeldBonus(v)' + (IF v = call[r].user THEN usage[r].bonus ELSE 0) = HeldBonus(v)
         /\ HeldPurchased(v)' + (IF v = call[r].user THEN usage[r].purchased ELSE 0) = HeldPurchased(v)
         /\ HeldEnergy(v)' + (IF v = call[r].user THEN usage[r].energy ELSE 0) = HeldEnergy(v)
         /\ HeldBonus(v) \in Nat /\ HeldPurchased(v) \in Nat
         /\ HeldEnergy(v) \in Nat
         /\ HeldBonus(v)' \in Nat /\ HeldPurchased(v)' \in Nat
         /\ HeldEnergy(v)' \in Nat
<1>1. \A q \in Requests : SameAmounts(q)
                          /\ usage'[q].status = IF q = r THEN "refunded" ELSE usage[q].status
  <2>1. usage \in [Requests -> Row]
    BY DEF Inv, TypeOK
  <2> QED BY <2>1, DecidedRow DEF SameAmounts
<1>2. CASE v = call[r].user
  <2> DEFINE one == {r}
             none == {}
  <2>1. /\ \A q \in Requests : q \in Held(v)' <=> (q \in Held(v) /\ q \notin one) \/ q \in none
        /\ \A q \in Requests : (q \in one => q \in Held(v)) /\ (q \in none => q \notin Held(v))
    BY <1>1, <1>2, HeldRow
  <2>2. \A q \in Requests : q \in Held(v) /\ q \notin one =>
          usage'[q].bonus = usage[q].bonus /\ usage'[q].purchased = usage[q].purchased
          /\ usage'[q].energy = usage[q].energy
    BY <1>1 DEF SameAmounts
  <2>3. /\ SumOver(none, BonusOf') = 0 /\ SumOver(none, PurchasedOf') = 0 /\ SumOver(none, EnergyOf') = 0
        /\ SumOver(one, BonusOf) = usage[r].bonus /\ SumOver(one, PurchasedOf) = usage[r].purchased
        /\ SumOver(one, EnergyOf) = usage[r].energy
    <3>1. SumOver({r}, BonusOf) = BonusOf[r] /\ SumOver({r}, PurchasedOf) = PurchasedOf[r]
          /\ SumOver({r}, EnergyOf) = EnergyOf[r]
      BY Columns, SumOne
    <3>2. SumOver({}, BonusOf') = 0 /\ SumOver({}, PurchasedOf') = 0 /\ SumOver({}, EnergyOf') = 0
      BY ColumnsNext, SumNone
    <3> QED BY <3>1, <3>2 DEF BonusOf, PurchasedOf, EnergyOf
  <2> HIDE DEF one, none
  <2>4. /\ HeldBonus(v)' + SumOver(one, BonusOf) = HeldBonus(v) + SumOver(none, BonusOf')
        /\ HeldPurchased(v)' + SumOver(one, PurchasedOf) = HeldPurchased(v) + SumOver(none, PurchasedOf')
        /\ HeldEnergy(v)' + SumOver(one, EnergyOf) = HeldEnergy(v) + SumOver(none, EnergyOf')
        /\ HeldBonus(v) \in Nat /\ HeldBonus(v)' \in Nat
        /\ HeldPurchased(v) \in Nat /\ HeldPurchased(v)' \in Nat
        /\ HeldEnergy(v) \in Nat /\ HeldEnergy(v)' \in Nat
    BY <2>1, <2>2, HeldMoved
  <2> QED BY <1>2, <2>3, <2>4
<1>3. CASE v # call[r].user
  <2>1. \A q \in Requests : q \in Held(v)' <=> q \in Held(v)
    BY <1>1, <1>3, HeldRow
  <2>2. /\ HeldBonus(v)' = HeldBonus(v) /\ HeldPurchased(v)' = HeldPurchased(v)
        /\ HeldEnergy(v)' = HeldEnergy(v)
        /\ HeldBonus(v) \in Nat /\ HeldPurchased(v) \in Nat
        /\ HeldEnergy(v) \in Nat
    BY <1>1, <2>1, HeldSame
  <2> QED BY <1>3, <2>2
<1> QED BY <1>2, <1>3

-----------------------------------------------------------------------------
(* A reward counts once: granting it again adds nothing. *)
LEMMA RewardOnce ==
  ASSUME Inv, NEW u \in Users, NEW code \in Rewards,
         granted' = [granted EXCEPT ![u] = @ \cup {code}], NEW v \in Users
  PROVE  /\ Rewarded(v)' = Rewarded(v) +
              (IF v = u /\ code \notin granted[u] THEN RewardCredits[code] ELSE 0)
         /\ Rewarded(v) \in Nat
<1>1. /\ RewardCredits["signup"] \in Nat /\ RewardCredits["first_character"] \in Nat
      /\ RewardCredits["first_dm"] \in Nat
  BY BalancesAssumption DEF Rewards
<1>2. /\ granted'[v] = IF v = u THEN granted[u] \cup {code} ELSE granted[v]
      /\ code \in {"signup", "first_character", "first_dm"}
  BY DEF Inv, TypeOK, Rewards
<1>3. \A c \in Rewards :
        Reward(v, c)' = IF c \in granted'[v] THEN RewardCredits[c] ELSE 0
  BY DEF Reward
<1>4. \A c \in Rewards : c # code => Reward(v, c)' = Reward(v, c)
  BY <1>2, <1>3 DEF Reward
<1>5. Reward(v, code)' = Reward(v, code) +
        (IF v = u /\ code \notin granted[u] THEN RewardCredits[code] ELSE 0)
  <2>1. RewardCredits[code] \in Nat
    BY BalancesAssumption
  <2> QED BY <1>2, <1>3, <2>1 DEF Reward
<1>6. \A c \in Rewards : Reward(v, c) \in Nat
  BY BalancesAssumption DEF Reward
<1>7. /\ Rewarded(v) = Reward(v, "signup") + Reward(v, "first_character") + Reward(v, "first_dm")
      /\ Rewarded(v)' = Reward(v, "signup")' + Reward(v, "first_character")' + Reward(v, "first_dm")'
  BY DEF Rewarded
<1>8. /\ Reward(v, "signup") \in Nat /\ Reward(v, "first_character") \in Nat
      /\ Reward(v, "first_dm") \in Nat
  BY <1>6 DEF Rewards
<1>9. RewardCredits[code] \in Nat
  BY BalancesAssumption
<1>10. CASE code = "signup"
  <2>1. Reward(v, "first_character")' = Reward(v, "first_character")
        /\ Reward(v, "first_dm")' = Reward(v, "first_dm")
    BY <1>4, <1>10 DEF Rewards
  <2> QED BY <1>5, <1>7, <1>8, <1>9, <1>10, <2>1
<1>11. CASE code = "first_character"
  <2>1. Reward(v, "signup")' = Reward(v, "signup") /\ Reward(v, "first_dm")' = Reward(v, "first_dm")
    BY <1>4, <1>11 DEF Rewards
  <2> QED BY <1>5, <1>7, <1>8, <1>9, <1>11, <2>1
<1>12. CASE code = "first_dm"
  <2>1. Reward(v, "signup")' = Reward(v, "signup")
        /\ Reward(v, "first_character")' = Reward(v, "first_character")
    BY <1>4, <1>12 DEF Rewards
  <2> QED BY <1>5, <1>7, <1>8, <1>9, <1>12, <2>1
<1> QED BY <1>2, <1>10, <1>11, <1>12

(* No reward is granted by a step that leaves reward_grants alone. *)
LEMMA RewardSame ==
  ASSUME Inv, granted' = granted, NEW v \in Users
  PROVE  Rewarded(v)' = Rewarded(v) /\ Rewarded(v) \in Nat
<1>1. Rewarded(v)' = Rewarded(v)
  BY DEF Rewarded, Reward
<1>2. \A c \in Rewards : Reward(v, c) \in Nat
  BY BalancesAssumption DEF Reward
<1>3. /\ Reward(v, "signup") \in Nat /\ Reward(v, "first_character") \in Nat
      /\ Reward(v, "first_dm") \in Nat
  BY <1>2 DEF Rewards
<1> QED BY <1>1, <1>3 DEF Rewarded

(* Settling an account with its signup reward conserves its credits.          *)
LEMMA SettleSignedConserves ==
  ASSUME Inv, Inv', Conserved, NEW u \in Users, SettleSigned(u),
         \A q \in Requests : usage[q].status # "none" => call'[q] = call[q]
  PROVE  Conserved'
<1> SUFFICES ASSUME NEW v \in Users
             PROVE  /\ bonus'[v] + HeldBonus(v)' = Rewarded(v)'
                    /\ purchased'[v] + HeldPurchased(v)' = OpeningPurchased
  BY DEF Conserved
<1>1. \A q \in Requests : usage'[q] = SettledRows(u)[q]
  BY DEF SettleSigned, Settle
<1>2. /\ HeldBonus(v)' + (IF v = u THEN StaleBonus(u) ELSE 0) = HeldBonus(v)
      /\ HeldPurchased(v)' + (IF v = u THEN StalePurchased(u) ELSE 0) = HeldPurchased(v)
      /\ HeldBonus(v) \in Nat /\ HeldPurchased(v) \in Nat
      /\ HeldBonus(v)' \in Nat /\ HeldPurchased(v)' \in Nat
  BY <1>1, SettledHeld
<1>3. /\ bonus'[v] = IF v = u THEN SettledBonus(u) ELSE bonus[v]
      /\ purchased'[v] = IF v = u THEN SettledPurchased(u) ELSE purchased[v]
  BY DEF SettleSigned, Settle, Inv, TypeOK
<1>4. Rewarded(v)' = Rewarded(v) + (IF v = u THEN SignupBonus(u) ELSE 0) /\ Rewarded(v) \in Nat
  <2>1. "signup" \in Rewards /\ granted' = [granted EXCEPT ![u] = @ \cup {"signup"}]
    BY DEF Rewards, SettleSigned
  <2>2. Rewarded(v)' = Rewarded(v) +
          (IF v = u /\ "signup" \notin granted[u] THEN RewardCredits["signup"] ELSE 0)
        /\ Rewarded(v) \in Nat
    BY <2>1, RewardOnce
  <2> QED BY <2>2 DEF SignupBonus
<1>5. /\ bonus[v] \in Nat /\ purchased[v] \in Nat
      /\ StaleBonus(u) \in Nat /\ StalePurchased(u) \in Nat /\ SignupBonus(u) \in Nat
  BY Settled DEF Inv, TypeOK
<1>6. bonus[v] + HeldBonus(v) = Rewarded(v) /\ purchased[v] + HeldPurchased(v) = OpeningPurchased
  BY DEF Conserved
<1> QED BY <1>2, <1>3, <1>4, <1>5, <1>6 DEF SettledBonus, SettledPurchased

(* Answering a known key conserves credits: expired rows give theirs back.    *)
LEMMA DuplicateConserves ==
  ASSUME Inv, Inv', Conserved, NEW r \in Requests, NEW u \in Users, NEW k \in Keys, NEW f \in Flows,
         ReserveDuplicate(r, u, k, f)
  PROVE  Conserved'
<1> SUFFICES ASSUME NEW v \in Users
             PROVE  /\ bonus'[v] + HeldBonus(v)' = Rewarded(v)'
                    /\ purchased'[v] + HeldPurchased(v)' = OpeningPurchased
  BY DEF Conserved
<1>1. /\ \A q \in Requests : usage'[q] = SettledRows(u)[q]
      /\ \A q \in Requests : usage[q].status # "none" => call'[q] = call[q]
  BY ArrivesTypes DEF ReserveDuplicate, Settle
<1>2. /\ HeldBonus(v)' + (IF v = u THEN StaleBonus(u) ELSE 0) = HeldBonus(v)
      /\ HeldPurchased(v)' + (IF v = u THEN StalePurchased(u) ELSE 0) = HeldPurchased(v)
      /\ HeldBonus(v) \in Nat /\ HeldPurchased(v) \in Nat
      /\ HeldBonus(v)' \in Nat /\ HeldPurchased(v)' \in Nat
  BY <1>1, SettledHeld
<1>3. /\ bonus'[v] = IF v = u THEN bonus[u] + StaleBonus(u) ELSE bonus[v]
      /\ purchased'[v] = IF v = u THEN SettledPurchased(u) ELSE purchased[v]
  BY DEF ReserveDuplicate, Settle, Inv, TypeOK
<1>4. Rewarded(v)' = Rewarded(v) /\ Rewarded(v) \in Nat
  BY RewardSame DEF ReserveDuplicate
<1>5. /\ bonus[v] \in Nat /\ purchased[v] \in Nat
      /\ StaleBonus(u) \in Nat /\ StalePurchased(u) \in Nat
  BY Settled DEF Inv, TypeOK
<1>6. bonus[v] + HeldBonus(v) = Rewarded(v) /\ purchased[v] + HeldPurchased(v) = OpeningPurchased
  BY DEF Conserved
<1> QED BY <1>2, <1>3, <1>4, <1>5, <1>6 DEF SettledPurchased

(* Admitting a call moves its charge from the balance to its row.             *)
LEMMA AdmittedConserves ==
  ASSUME Inv, Inv', Conserved, NEW r \in Requests, NEW u \in Users, NEW k \in Keys, NEW f \in Flows,
         ReserveAdmitted(r, u, k, f)
  PROVE  Conserved'
<1> SUFFICES ASSUME NEW v \in Users
             PROVE  /\ bonus'[v] + HeldBonus(v)' = Rewarded(v)'
                    /\ purchased'[v] + HeldPurchased(v)' = OpeningPurchased
  BY DEF Conserved
<1>1. /\ HeldBonus(v)' + (IF v = u THEN StaleBonus(u) ELSE 0)
           = HeldBonus(v) + (IF v = u THEN BonusCharge(u, f) ELSE 0)
      /\ HeldPurchased(v)' + (IF v = u THEN StalePurchased(u) ELSE 0)
           = HeldPurchased(v) + (IF v = u THEN PurchasedCharge(u, f) ELSE 0)
      /\ HeldBonus(v) \in Nat /\ HeldPurchased(v) \in Nat
      /\ HeldBonus(v)' \in Nat /\ HeldPurchased(v)' \in Nat
  BY AdmittedHeld
<1>2. /\ bonus'[v] = IF v = u THEN SettledBonus(u) - BonusCharge(u, f) ELSE bonus[v]
      /\ purchased'[v] = IF v = u THEN SettledPurchased(u) - PurchasedCharge(u, f) ELSE purchased[v]
  BY DEF ReserveAdmitted, Inv, TypeOK
<1>3. Rewarded(v)' = Rewarded(v) + (IF v = u THEN SignupBonus(u) ELSE 0) /\ Rewarded(v) \in Nat
  <2>1. "signup" \in Rewards /\ granted' = [granted EXCEPT ![u] = @ \cup {"signup"}]
    BY DEF Rewards, ReserveAdmitted
  <2>2. Rewarded(v)' = Rewarded(v) +
          (IF v = u /\ "signup" \notin granted[u] THEN RewardCredits["signup"] ELSE 0)
        /\ Rewarded(v) \in Nat
    BY <2>1, RewardOnce
  <2> QED BY <2>2 DEF SignupBonus
<1>4. /\ bonus[v] \in Nat /\ purchased[v] \in Nat
      /\ StaleBonus(u) \in Nat /\ StalePurchased(u) \in Nat /\ SignupBonus(u) \in Nat
      /\ BonusCharge(u, f) \in Int /\ PurchasedCharge(u, f) \in Int
  BY Settled, Charges DEF ReserveAdmitted, Inv, TypeOK
<1>5. bonus[v] + HeldBonus(v) = Rewarded(v) /\ purchased[v] + HeldPurchased(v) = OpeningPurchased
  BY DEF Conserved
<1> QED BY <1>1, <1>2, <1>3, <1>4, <1>5 DEF SettledBonus, SettledPurchased

(* Refunding gives a row's charge back to the balance.                        *)
LEMMA RefundConserves ==
  ASSUME Inv, Inv', Conserved, NEW r \in Requests, InProgress(r), Refund(r), Undecided(r)
  PROVE  Conserved'
<1> DEFINE u == call[r].user
<1> SUFFICES ASSUME NEW v \in Users
             PROVE  /\ bonus'[v] + HeldBonus(v)' = Rewarded(v)'
                    /\ purchased'[v] + HeldPurchased(v)' = OpeningPurchased
  BY DEF Conserved
<1>1. /\ u \in Users /\ usage[r].status = "reserved" /\ call' = call
      /\ usage[r].bonus \in Nat /\ usage[r].purchased \in Nat
  BY Started, RowNumbers DEF Undecided, Refund
<1>2. usage' = [usage EXCEPT ![r] = Decided(usage[r], "refunded")]
  BY DEF Refund
<1>3. /\ HeldBonus(v)' + (IF v = u THEN usage[r].bonus ELSE 0) = HeldBonus(v)
      /\ HeldPurchased(v)' + (IF v = u THEN usage[r].purchased ELSE 0) = HeldPurchased(v)
      /\ HeldBonus(v) \in Nat /\ HeldPurchased(v) \in Nat
      /\ HeldBonus(v)' \in Nat /\ HeldPurchased(v)' \in Nat
  BY <1>1, <1>2, RefundedHeld
<1>4. /\ bonus' = [bonus EXCEPT ![u] = bonus[u] + usage[r].bonus]
      /\ purchased' = [purchased EXCEPT ![u] = purchased[u] + usage[r].purchased]
      /\ granted' = granted
  BY DEF Refund
<1>5. Rewarded(v)' = Rewarded(v) /\ Rewarded(v) \in Nat
  BY <1>4, RewardSame
<1>6. bonus[v] \in Nat /\ purchased[v] \in Nat
  BY DEF Inv, TypeOK
<1>7. bonus[v] + HeldBonus(v) = Rewarded(v) /\ purchased[v] + HeldPurchased(v) = OpeningPurchased
  BY DEF Conserved
<1> HIDE DEF u
<1>8. /\ bonus'[v] = IF v = u THEN bonus[v] + usage[r].bonus ELSE bonus[v]
      /\ purchased'[v] = IF v = u THEN purchased[v] + usage[r].purchased ELSE purchased[v]
  BY <1>1, <1>4 DEF Inv, TypeOK
<1> QED BY <1>1, <1>3, <1>5, <1>6, <1>7, <1>8

(* A row that a step neither inserts nor refunds. *)
KeepsHeld(q) ==
  /\ Keeps(q)
  /\ usage'[q].status \in {"reserved", "committed"} <=> usage[q].status \in {"reserved", "committed"}
  /\ call'[q] = call[q] \/ usage'[q].status = "none"

(* A step that keeps every row and grants at most one reward conserves credits. *)
LEMMA RewardConserves ==
  ASSUME Inv, Inv', Conserved, \A q \in Requests : KeepsHeld(q), purchased' = purchased,
         \/ bonus' = bonus /\ granted' = granted
         \/ \E u \in Users, code \in Rewards :
              /\ granted' = [granted EXCEPT ![u] = @ \cup {code}]
              /\ bonus' = [bonus EXCEPT ![u] =
                             @ + (IF code \notin granted[u] THEN RewardCredits[code] ELSE 0)]
  PROVE  Conserved'
<1> SUFFICES ASSUME NEW v \in Users
             PROVE  /\ bonus'[v] + HeldBonus(v)' = Rewarded(v)'
                    /\ purchased'[v] + HeldPurchased(v)' = OpeningPurchased
  BY DEF Conserved
<1>1. /\ HeldBonus(v)' = HeldBonus(v) /\ HeldPurchased(v)' = HeldPurchased(v)
      /\ HeldBonus(v) \in Nat /\ HeldPurchased(v) \in Nat
  <2>1. \A q \in Requests : q \in Held(v)' <=> q \in Held(v)
    BY HeldRow DEF KeepsHeld
  <2>2. \A q \in Requests : SameAmounts(q)
    BY DEF KeepsHeld, Keeps
  <2> QED BY <2>1, <2>2, HeldSame
<1>2. bonus[v] + HeldBonus(v) = Rewarded(v) /\ purchased[v] + HeldPurchased(v) = OpeningPurchased
  BY DEF Conserved
<1>3. CASE bonus' = bonus /\ granted' = granted
  BY <1>1, <1>2, <1>3, RewardSame
<1>4. ASSUME NEW u \in Users, NEW code \in Rewards,
             granted' = [granted EXCEPT ![u] = @ \cup {code}],
             bonus' = [bonus EXCEPT ![u] =
                         @ + (IF code \notin granted[u] THEN RewardCredits[code] ELSE 0)]
      PROVE  /\ bonus'[v] + HeldBonus(v)' = Rewarded(v)'
             /\ purchased'[v] + HeldPurchased(v)' = OpeningPurchased
  <2> DEFINE reward == IF v = u /\ code \notin granted[u] THEN RewardCredits[code] ELSE 0
  <2>1. Rewarded(v)' = Rewarded(v) + reward /\ Rewarded(v) \in Nat
    BY <1>4, RewardOnce
  <2>2. reward \in Nat
    BY BalancesAssumption
  <2>3. bonus[v] \in Nat /\ bonus'[v] = bonus[v] + reward
    BY <1>4 DEF Inv, TypeOK
  <2> HIDE DEF reward
  <2> QED BY <1>1, <1>2, <2>1, <2>2, <2>3
<1> QED BY <1>3, <1>4

(* A request past the account lock keeps every row held, unless it refunds its own. *)
LEMMA AdvanceKeepsHeld ==
  ASSUME Inv, NEW r \in Requests, Advance(r), ~ (Refund(r) /\ Undecided(r))
  PROVE  \A q \in Requests : KeepsHeld(q)
<1>1. InProgress(r) /\ \A q \in Requests : Keeps(q)
  BY AdvanceKeeps DEF Advance
<1>2. call' = call
  BY DEF Advance, ReserveCost, MarkStarted, SettleCost, Commit, Refund
<1>3. CASE ReserveCost(r)
  <2> DEFINE row == [usage[r] EXCEPT !.cost = Policy[call[r].flow].cost, !.provider = "cost_reserved"]
  <2>1. row.status = usage[r].status
    BY <1>1, Started DEF Row
  <2>2. usage' \in {usage, [usage EXCEPT ![r] = row]}
    BY <1>3 DEF ReserveCost, RefuseCost, TakeCost
  <2> HIDE DEF row
  <2> QED BY <1>1, <1>2, <2>1, <2>2 DEF Inv, TypeOK, KeepsHeld
<1>4. CASE MarkStarted(r)
  <2> DEFINE row == [usage[r] EXCEPT !.provider = "provider_started"]
  <2>1. row.status = usage[r].status
    BY <1>1, Started DEF Row
  <2>2. usage' \in {usage, [usage EXCEPT ![r] = row]}
    BY <1>4 DEF MarkStarted
  <2> HIDE DEF row
  <2> QED BY <1>1, <1>2, <2>1, <2>2 DEF Inv, TypeOK, KeepsHeld
<1>5. CASE SettleCost(r) \/ ~ Undecided(r)
  <2>1. usage' = usage \/ MarkStarted(r) \/ ReserveCost(r)
    BY <1>5 DEF SettleCost, Advance, Commit, Refund, Undecided
  <2> QED BY <1>1, <1>2, <1>3, <1>4, <2>1 DEF KeepsHeld
<1>6. CASE Commit(r) /\ Undecided(r)
  <2>1. usage' = [usage EXCEPT ![r] = Decided(usage[r], "committed")] /\ usage[r].status = "reserved"
    BY <1>6 DEF Commit, Undecided
  <2>2. usage \in [Requests -> Row]
    BY DEF Inv, TypeOK
  <2> QED BY <1>1, <1>2, <2>1, <2>2, DecidedRow DEF KeepsHeld
<1> QED BY <1>3, <1>4, <1>5, <1>6 DEF Advance

(* A request past the account lock conserves credits.                         *)
LEMMA AdvanceConserves ==
  ASSUME Inv, Inv', Conserved, NEW r \in Requests, Advance(r)
  PROVE  Conserved'
<1>1. CASE Refund(r) /\ Undecided(r)
  BY <1>1, RefundConserves DEF Advance
<1>2. CASE ~ (Refund(r) /\ Undecided(r))
  <2>1. \A q \in Requests : KeepsHeld(q)
    BY <1>2, AdvanceKeepsHeld
  <2>2. CASE Commit(r) /\ Undecided(r) /\ FirstDm(r)
    <3> DEFINE u == call[r].user
    <3>1. u \in Users /\ "first_dm" \in Rewards
      BY Started DEF Rewards, Advance
    <3>2. /\ bonus' = [bonus EXCEPT ![u] = bonus[u] + RewardCredits["first_dm"]]
          /\ granted' = [granted EXCEPT ![u] = @ \cup {"first_dm"}]
          /\ purchased' = purchased
      BY <2>2 DEF Commit
    <3>3. "first_dm" \notin granted[u]
      BY <2>2 DEF FirstDm
    <3> HIDE DEF u
    <3>4. bonus' = [bonus EXCEPT ![u] =
                      @ + (IF "first_dm" \notin granted[u] THEN RewardCredits["first_dm"] ELSE 0)]
      BY <3>2, <3>3
    <3> QED BY <2>1, <3>1, <3>2, <3>4, RewardConserves
  <2>3. CASE Commit(r) /\ Undecided(r) /\ ~ FirstDm(r)
    <3> DEFINE u == call[r].user
    <3>1. u \in Users
      BY Started DEF Advance
    <3>2. /\ bonus' = [bonus EXCEPT ![u] = bonus[u] + 0]
          /\ granted' = granted /\ purchased' = purchased
      BY <2>3 DEF Commit
    <3>3. bonus \in [Users -> Nat]
      BY DEF Inv, TypeOK
    <3> HIDE DEF u
    <3>4. bonus' = bonus
      BY <3>1, <3>2, <3>3
    <3> QED BY <2>1, <3>2, <3>4, RewardConserves
  <2>4. CASE ~ (Commit(r) /\ Undecided(r))
    <3>1. UNCHANGED <<bonus, purchased, granted>>
      BY <1>2, <2>4 DEF Advance, ReserveCost, MarkStarted, SettleCost, Commit, Refund, accountVars
    <3> QED BY <2>1, <3>1, RewardConserves
  <2> QED BY <2>2, <2>3, <2>4
<1> QED BY <1>1, <1>2

(* Credits are neither lost nor made: the balance of every account and what   *)
(* its reserved and committed calls took add up to what was bought and        *)
(* rewarded, in every interleaving of answers, refunds, expiry and crashes.   *)
THEOREM CreditsConserved == Spec => []Conserved
<1>1. Init => Conserved
  <2> SUFFICES ASSUME Init, NEW v \in Users
               PROVE  /\ bonus[v] + HeldBonus(v) = Rewarded(v)
                      /\ purchased[v] + HeldPurchased(v) = OpeningPurchased
    BY DEF Conserved
  <2>1. \A q \in Requests : usage[q].status = "none"
    <3>1. NoRow.status = "none"
      BY DEF NoRow
    <3>2. usage = [q \in Requests |-> NoRow]
      BY DEF Init
    <3> QED BY <3>1, <3>2
  <2>2. Held(v) = {}
    BY <2>1 DEF Held, Live, RowsOf
  <2>3. SumOver({}, BonusOf) = 0 /\ SumOver({}, PurchasedOf) = 0
    BY InitInv, Columns, SumNone
  <2>4. HeldBonus(v) = 0 /\ HeldPurchased(v) = 0
    BY <2>2, <2>3 DEF HeldBonus, HeldPurchased, BonusOf, PurchasedOf
  <2>5. bonus[v] = 0 /\ purchased[v] = OpeningPurchased /\ granted[v] = {}
    BY DEF Init
  <2>6. Rewarded(v) = 0
    BY <2>5 DEF Rewarded, Reward
  <2> QED BY <2>4, <2>5, <2>6, BalancesAssumption
<1>2. ASSUME Inv, Inv', Conserved, [Next]_vars
      PROVE  Conserved'
  <2>1. ASSUME UNCHANGED <<usage, call, bonus, purchased, granted>>
        PROVE  Conserved'
    BY <1>2, <2>1, RewardConserves DEF KeepsHeld, Keeps, SameAmounts
  <2>2. ASSUME NEW r \in Requests, NEW u \in Users, NEW k \in Keys, NEW f \in Flows,
               Reserve(r, u, k, f)
        PROVE  Conserved'
    <3>1. CASE ReserveRefused(r, u, k, f)
      <4>1. SettleSigned(u) /\ \A q \in Requests : usage[q].status # "none" => call'[q] = call[q]
        BY <1>2, <3>1, ArrivesTypes DEF ReserveRefused
      <4> QED BY <1>2, <4>1, SettleSignedConserves
    <3> QED BY <1>2, <2>2, <3>1, DuplicateConserves, AdmittedConserves DEF Reserve
  <2>3. ASSUME NEW u \in Users, Snapshot(u)
        PROVE  Conserved'
    BY <1>2, <2>3, SettleSignedConserves DEF Snapshot, requestVars
  <2>4. ASSUME NEW u \in Users, GrantFirstCharacter(u)
        PROVE  Conserved'
    <3>1. /\ UNCHANGED <<usage, call, purchased>> /\ "first_character" \in Rewards
          /\ granted' = [granted EXCEPT ![u] = @ \cup {"first_character"}]
          /\ bonus' = [bonus EXCEPT ![u] = @ +
               (IF "first_character" \notin granted[u] THEN RewardCredits["first_character"] ELSE 0)]
      BY <2>4 DEF GrantFirstCharacter, requestVars, Rewards
    <3>2. \A q \in Requests : KeepsHeld(q)
      BY <3>1 DEF KeepsHeld, Keeps, SameAmounts
    <3> QED BY <1>2, <3>1, <3>2, RewardConserves
  <2>5. \A r \in Requests : Abandon(r) => UNCHANGED <<usage, call, bonus, purchased, granted>>
    BY DEF Abandon, accountVars
  <2>6. Tick \/ UNCHANGED vars => UNCHANGED <<usage, call, bonus, purchased, granted>>
    BY DEF Tick, vars, requestVars, accountVars
  <2> QED BY <1>2, <2>1, <2>2, <2>3, <2>4, <2>5, <2>6, AdvanceConserves DEF Next, Step
<1>3. Inv /\ [Next]_vars => Inv'
  BY NextInv
<1> QED BY <1>1, <1>2, <1>3, InitInv, PTL DEF Spec

-----------------------------------------------------------------------------
(* Energy comes only from recovery.                                           *)

(* The quotient of a later time is no smaller. *)
LEMMA Quotients ==
  ASSUME NEW a \in Nat, NEW b \in Nat, NEW d \in Nat \ {0}
  PROVE  a \div d \in Nat /\ (a <= b => a \div d <= b \div d)
OBVIOUS

(* Every whole interval adds one to the quotient. *)
LEMMA QuotientPlus ==
  ASSUME NEW a \in Nat, NEW d \in Nat \ {0}, NEW n \in Nat
  PROVE  (a + d * n) \div d = (a \div d) + n
OBVIOUS

(* What recover_energy adds is explained by how far it moves the recovery clock. *)
LEMMA RecoveryExplained ==
  ASSUME Inv, NEW u \in Users, NEW h \in Nat,
         energy[u] + h <= OpeningEnergy + ENERGY_RECOVERY_PERCENT * (recoveredAt[u] \div EnergyInterval)
  PROVE  RecoveredEnergy(u) + h
           <= OpeningEnergy + ENERGY_RECOVERY_PERCENT * (RecoveredAt(u) \div EnergyInterval)
<1> DEFINE n == Intervals(u)
           passed(t) == t \div EnergyInterval
<1>1. /\ now \in Nat /\ recoveredAt[u] \in Nat /\ recoveredAt[u] <= now
      /\ energy[u] \in 0..100 /\ EnergyInterval \in Nat \ {0} /\ OpeningEnergy \in Nat
      /\ n = (now - recoveredAt[u]) \div EnergyInterval
  BY CountsAssumption, BalancesAssumption DEF Inv, TypeOK, Clocks, ENERGY_MAX_PERCENT, Intervals
<1>2. n \in Nat /\ EnergyInterval * n <= now - recoveredAt[u]
  <2>1. now - recoveredAt[u] \in Nat
    BY <1>1
  <2> HIDE DEF n
  <2> QED BY <1>1, <2>1, Division
<1> HIDE DEF n
<1>3. /\ passed(recoveredAt[u]) \in Nat /\ passed(now) \in Nat
      /\ passed(recoveredAt[u]) + n <= passed(now)
      /\ passed(recoveredAt[u] + EnergyInterval * n) = passed(recoveredAt[u]) + n
  <2>1. EnergyInterval * n \in Nat
    BY <1>1, <1>2
  <2>2. recoveredAt[u] + EnergyInterval * n \in Nat /\ recoveredAt[u] + EnergyInterval * n <= now
    BY <1>1, <1>2, <2>1
  <2>3. passed(recoveredAt[u] + EnergyInterval * n) = passed(recoveredAt[u]) + n
    <3>1. \A a \in Nat, d \in Nat \ {0}, m \in Nat : (a + d * m) \div d = (a \div d) + m
      BY QuotientPlus
    <3> QED BY <1>1, <1>2, <3>1, Zenon
  <2>4. passed(recoveredAt[u] + EnergyInterval * n) <= passed(now)
    BY <1>1, <2>2, Quotients
  <2>5. passed(recoveredAt[u]) \in Nat /\ passed(now) \in Nat
    BY <1>1, Quotients
  <2> HIDE DEF passed
  <2> QED BY <2>3, <2>4, <2>5
<1> HIDE DEF passed
<1>4. energy[u] + h <= OpeningEnergy + 25 * passed(recoveredAt[u])
  BY DEF passed, ENERGY_RECOVERY_PERCENT
<1>5. CASE Full(u)
  <2>1. 100 <= energy[u] + 25 * n
    <3>1. energy[u] >= 100 \/ n >= (100 - energy[u] + 25 - 1) \div 25
      BY <1>5 DEF Full, IntervalsToFull, n, ENERGY_MAX_PERCENT, ENERGY_RECOVERY_PERCENT
    <3> QED BY <1>1, <1>2, <3>1
  <2>2. 100 + h <= OpeningEnergy + 25 * passed(now)
    BY <1>1, <1>2, <1>3, <1>4, <2>1
  <2> QED BY <1>5, <2>2 DEF RecoveredEnergy, RecoveredAt, passed, ENERGY_MAX_PERCENT, ENERGY_RECOVERY_PERCENT
<1>6. CASE ~ Full(u)
  <2>1. RecoveredEnergy(u) <= energy[u] + 25 * n /\ RecoveredEnergy(u) \in Nat
    <3>1. Intervals(u) = n
      BY DEF n
    <3> QED BY <1>1, <1>2, <1>6, <3>1
            DEF RecoveredEnergy, Least2, ENERGY_MAX_PERCENT, ENERGY_RECOVERY_PERCENT
  <2>2. RecoveredEnergy(u) + h <= OpeningEnergy + 25 * (passed(recoveredAt[u]) + n)
    BY <1>1, <1>2, <1>3, <1>4, <2>1
  <2>3. RecoveredAt(u) = recoveredAt[u] + EnergyInterval * n
    BY <1>6 DEF RecoveredAt, n
  <2> QED BY <1>3, <2>2, <2>3 DEF passed, ENERGY_RECOVERY_PERCENT
<1> QED BY <1>5, <1>6

(* A transaction that recovers an account's energy, and leaves with what its rows hold *)
(* no more than that, keeps energy explained.                                  *)
LEMMA RecoveryExplains ==
  ASSUME Inv, EnergyFromRecovery, NEW u \in Users, NEW left \in Nat,
         energy' = [energy EXCEPT ![u] = left],
         recoveredAt' = [recoveredAt EXCEPT ![u] = RecoveredAt(u)],
         HeldEnergy(u) \in Nat,
         left + HeldEnergy(u)' <= RecoveredEnergy(u) + HeldEnergy(u),
         HeldEnergy(u)' \in Nat,
         \A v \in Users \ {u} : HeldEnergy(v)' = HeldEnergy(v)
  PROVE  EnergyFromRecovery'
<1> SUFFICES ASSUME NEW v \in Users
             PROVE  energy'[v] + HeldEnergy(v)'
                      <= OpeningEnergy + ENERGY_RECOVERY_PERCENT * (recoveredAt'[v] \div EnergyInterval)
  BY DEF EnergyFromRecovery
<1>1. CASE v = u
  <2> DEFINE earned == OpeningEnergy + ENERGY_RECOVERY_PERCENT * (RecoveredAt(u) \div EnergyInterval)
  <2>1. RecoveredEnergy(u) + HeldEnergy(u) <= earned
    BY RecoveryExplained DEF EnergyFromRecovery
  <2>2. energy'[u] = left /\ recoveredAt'[u] = RecoveredAt(u)
    BY DEF Inv, TypeOK
  <2>3. earned \in Int /\ RecoveredEnergy(u) \in Nat
    <3>1. EnergyInterval \in Nat \ {0} /\ OpeningEnergy \in Nat /\ RecoveredAt(u) \in Nat
      BY Recovery, CountsAssumption, BalancesAssumption DEF ENERGY_MAX_PERCENT, Inv, TypeOK
    <3>2. RecoveredAt(u) \div EnergyInterval \in Nat
      BY <3>1, Quotients
    <3> QED BY <3>1, <3>2, Recovery DEF ENERGY_MAX_PERCENT, ENERGY_RECOVERY_PERCENT
  <2> HIDE DEF earned
  <2>4. left + HeldEnergy(u)' <= earned
    BY <2>1, <2>3
  <2> QED BY <1>1, <2>2, <2>4 DEF earned
<1>2. CASE v # u
  <2>1. energy'[v] = energy[v] /\ recoveredAt'[v] = recoveredAt[v]
    BY <1>2 DEF Inv, TypeOK
  <2>2. HeldEnergy(v)' = HeldEnergy(v)
    BY <1>2
  <2> QED BY <2>1, <2>2 DEF EnergyFromRecovery
<1> QED BY <1>1, <1>2

(* A step that keeps every row held changes what no account's rows hold. *)
LEMMA HeldEnergySame ==
  ASSUME Inv, Inv', \A q \in Requests : KeepsHeld(q), NEW v \in Users
  PROVE  HeldEnergy(v)' = HeldEnergy(v) /\ HeldEnergy(v) \in Nat
<1>1. \A q \in Requests : q \in Held(v)' <=> q \in Held(v)
  BY HeldRow DEF KeepsHeld
<1>2. \A q \in Requests : SameAmounts(q)
  BY DEF KeepsHeld, Keeps
<1> QED BY <1>1, <1>2, HeldSame

(* Settling an account explains the energy that its expired rows give back. *)
LEMMA SettleExplains ==
  ASSUME Inv, Inv', EnergyFromRecovery, NEW u \in Users, Settle(u),
         \A q \in Requests : usage[q].status # "none" => call'[q] = call[q]
  PROVE  EnergyFromRecovery'
<1>1. \A q \in Requests : usage'[q] = SettledRows(u)[q]
  BY DEF Settle
<1>2. \A v \in Users :
        /\ HeldEnergy(v)' + (IF v = u THEN StaleEnergy(u) ELSE 0) = HeldEnergy(v)
        /\ HeldEnergy(v) \in Nat /\ HeldEnergy(v)' \in Nat
  BY <1>1, SettledHeld
<1>3. /\ SettledEnergy(u) \in Nat /\ RecoveredEnergy(u) \in Nat /\ StaleEnergy(u) \in Nat
      /\ SettledEnergy(u) <= RecoveredEnergy(u) + StaleEnergy(u)
  <2>1. EnergyOf \in [Requests -> Nat] /\ StaleEnergy(u) = SumOver(Stale(u), EnergyOf)
    BY Columns DEF StaleEnergy, EnergyOf
  <2>2. StaleEnergy(u) \in Nat /\ RecoveredEnergy(u) \in Nat
    BY <2>1, SumNat, Recovery DEF ENERGY_MAX_PERCENT
  <2> QED BY <2>2, Settled DEF SettledEnergy, Least2, ENERGY_MAX_PERCENT
<1>4. /\ energy' = [energy EXCEPT ![u] = SettledEnergy(u)]
      /\ recoveredAt' = [recoveredAt EXCEPT ![u] = RecoveredAt(u)]
  <2>1. SettledEnergy(u) - 0 = SettledEnergy(u)
    BY <1>3
  <2> QED BY <2>1 DEF Settle, SettleEnergy
<1>5. SettledEnergy(u) + HeldEnergy(u)' <= RecoveredEnergy(u) + HeldEnergy(u)
  <2>1. HeldEnergy(u)' + StaleEnergy(u) = HeldEnergy(u)
    BY <1>2
  <2> QED BY <1>2, <1>3, <2>1
<1>6. \A v \in Users \ {u} : HeldEnergy(v)' = HeldEnergy(v)
  BY <1>2
<1> QED BY <1>2, <1>3, <1>4, <1>5, <1>6, RecoveryExplains

(* Admitting a call moves the energy it takes from the account to its row. *)
LEMMA AdmittedExplains ==
  ASSUME Inv, Inv', EnergyFromRecovery, NEW r \in Requests, NEW u \in Users, NEW k \in Keys,
         NEW f \in Flows, ReserveAdmitted(r, u, k, f)
  PROVE  EnergyFromRecovery'
<1> DEFINE charge == EnergyCharge(u, f)
<1>1. \A v \in Users :
        /\ HeldEnergy(v)' + (IF v = u THEN StaleEnergy(u) ELSE 0)
             = HeldEnergy(v) + (IF v = u THEN charge ELSE 0)
        /\ HeldEnergy(v) \in Nat /\ HeldEnergy(v)' \in Nat
  BY AdmittedHeld
<1>2. /\ SettledEnergy(u) \in Nat /\ RecoveredEnergy(u) \in Nat /\ StaleEnergy(u) \in Nat
      /\ SettledEnergy(u) <= RecoveredEnergy(u) + StaleEnergy(u)
  <2>1. EnergyOf \in [Requests -> Nat] /\ StaleEnergy(u) = SumOver(Stale(u), EnergyOf)
    BY Columns DEF StaleEnergy, EnergyOf
  <2>2. StaleEnergy(u) \in Nat /\ RecoveredEnergy(u) \in Nat
    BY <2>1, SumNat, Recovery DEF ENERGY_MAX_PERCENT
  <2> QED BY <2>2, Settled DEF SettledEnergy, Least2, ENERGY_MAX_PERCENT
<1>3. charge \in 0..SettledEnergy(u)
  BY Charges DEF ReserveAdmitted
<1>4. /\ energy' = [energy EXCEPT ![u] = SettledEnergy(u) - charge]
      /\ recoveredAt' = [recoveredAt EXCEPT ![u] = RecoveredAt(u)]
  BY DEF ReserveAdmitted, SettleEnergy
<1> HIDE DEF charge
<1>5. SettledEnergy(u) - charge \in Nat
  BY <1>2, <1>3
<1>6. SettledEnergy(u) - charge + HeldEnergy(u)' <= RecoveredEnergy(u) + HeldEnergy(u)
  <2>1. HeldEnergy(u)' + StaleEnergy(u) = HeldEnergy(u) + charge
    BY <1>1
  <2> QED BY <1>1, <1>2, <1>3, <2>1
<1>7. \A v \in Users \ {u} : HeldEnergy(v)' = HeldEnergy(v)
  BY <1>1
<1> QED BY <1>1, <1>4, <1>5, <1>6, <1>7, RecoveryExplains

(* A refund gives back at most the energy of its row: above 100 percent is lost. *)
LEMMA RefundExplains ==
  ASSUME Inv, Inv', EnergyFromRecovery, NEW r \in Requests, InProgress(r), Refund(r), Undecided(r)
  PROVE  EnergyFromRecovery'
<1>0. PICK u \in Users : u = call[r].user
  BY Started
<1> DEFINE left == Least2(ENERGY_MAX_PERCENT, RecoveredEnergy(u) + usage[r].energy)
<1>1. /\ u = call[r].user /\ usage[r].status = "reserved" /\ call' = call /\ usage[r].energy \in Nat
      /\ usage' = [usage EXCEPT ![r] = Decided(usage[r], "refunded")]
  BY <1>0, Started, RowNumbers DEF Undecided, Refund
<1>2. \A v \in Users :
        /\ HeldEnergy(v)' + (IF v = u THEN usage[r].energy ELSE 0) = HeldEnergy(v)
        /\ HeldEnergy(v) \in Nat /\ HeldEnergy(v)' \in Nat
  BY <1>1, RefundedHeld
<1>3. /\ energy' = [energy EXCEPT ![u] = left]
      /\ recoveredAt' = [recoveredAt EXCEPT ![u] = RecoveredAt(u)]
  BY <1>0 DEF Refund
<1>4. left \in Nat /\ left <= RecoveredEnergy(u) + usage[r].energy /\ RecoveredEnergy(u) \in Nat
  BY <1>1, Recovery DEF Least2, ENERGY_MAX_PERCENT
<1> HIDE DEF left
<1>5. left + HeldEnergy(u)' <= RecoveredEnergy(u) + HeldEnergy(u)
  <2>1. HeldEnergy(u)' + usage[r].energy = HeldEnergy(u)
    BY <1>1, <1>2
  <2> QED BY <1>1, <1>2, <1>4, <2>1
<1>6. \A v \in Users \ {u} : HeldEnergy(v)' = HeldEnergy(v)
  BY <1>2
<1> QED BY <1>1, <1>2, <1>3, <1>4, <1>5, <1>6, RecoveryExplains

(* A step that keeps every row held and at most recovers one account's energy. *)
LEMMA KeptExplains ==
  ASSUME Inv, Inv', EnergyFromRecovery, \A q \in Requests : KeepsHeld(q),
         \/ energy' = energy /\ recoveredAt' = recoveredAt
         \/ \E u \in Users : /\ energy' = [energy EXCEPT ![u] = RecoveredEnergy(u)]
                             /\ recoveredAt' = [recoveredAt EXCEPT ![u] = RecoveredAt(u)]
  PROVE  EnergyFromRecovery'
<1>1. \A v \in Users : HeldEnergy(v)' = HeldEnergy(v) /\ HeldEnergy(v) \in Nat
  BY HeldEnergySame
<1>2. CASE energy' = energy /\ recoveredAt' = recoveredAt
  BY <1>1, <1>2 DEF EnergyFromRecovery
<1>3. ASSUME NEW u \in Users, energy' = [energy EXCEPT ![u] = RecoveredEnergy(u)],
             recoveredAt' = [recoveredAt EXCEPT ![u] = RecoveredAt(u)]
      PROVE  EnergyFromRecovery'
  <2>1. RecoveredEnergy(u) \in Nat
    BY Recovery DEF ENERGY_MAX_PERCENT
  <2>2. /\ HeldEnergy(u) \in Nat /\ HeldEnergy(u)' \in Nat
        /\ RecoveredEnergy(u) + HeldEnergy(u)' <= RecoveredEnergy(u) + HeldEnergy(u)
    BY <1>1, <2>1
  <2> QED BY <1>1, <1>3, <2>1, <2>2, RecoveryExplains
<1> QED BY <1>2, <1>3

(* The energy of every account, with what its calls took, is what recovery gave it. *)
LEMMA EnergyExplained == Spec => []EnergyFromRecovery
<1>1. Init => EnergyFromRecovery
  <2> SUFFICES ASSUME Init, NEW v \in Users
               PROVE  energy[v] + HeldEnergy(v)
                        <= OpeningEnergy + ENERGY_RECOVERY_PERCENT * (recoveredAt[v] \div EnergyInterval)
    BY DEF EnergyFromRecovery
  <2>1. \A q \in Requests : usage[q].status = "none"
    <3>1. NoRow.status = "none"
      BY DEF NoRow
    <3>2. usage = [q \in Requests |-> NoRow]
      BY DEF Init
    <3> QED BY <3>1, <3>2
  <2>2. Held(v) = {} /\ SumOver({}, EnergyOf) = 0
    BY <2>1, InitInv, Columns, SumNone DEF Held, Live, RowsOf
  <2>3. HeldEnergy(v) = 0
    BY <2>2 DEF HeldEnergy, EnergyOf
  <2>4. energy[v] = OpeningEnergy /\ recoveredAt[v] = 0 /\ OpeningEnergy \in Nat
    BY BalancesAssumption DEF Init, ENERGY_MAX_PERCENT
  <2>5. 0 \div EnergyInterval \in Nat
    BY CountsAssumption, Quotients
  <2> QED BY <2>3, <2>4, <2>5 DEF ENERGY_RECOVERY_PERCENT
<1>2. ASSUME Inv, Inv', EnergyFromRecovery, [Next]_vars
      PROVE  EnergyFromRecovery'
  <2>1. ASSUME UNCHANGED <<usage, call, energy, recoveredAt>>
        PROVE  EnergyFromRecovery'
    BY <1>2, <2>1, KeptExplains DEF KeepsHeld, Keeps, SameAmounts
  <2>2. ASSUME NEW r \in Requests, NEW u \in Users, NEW k \in Keys, NEW f \in Flows,
               Reserve(r, u, k, f)
        PROVE  EnergyFromRecovery'
    <3>1. CASE ReserveDuplicate(r, u, k, f) \/ ReserveRefused(r, u, k, f)
      <4>1. Settle(u) /\ \A q \in Requests : usage[q].status # "none" => call'[q] = call[q]
        BY <1>2, <3>1, ArrivesTypes DEF ReserveDuplicate, ReserveRefused, SettleSigned
      <4> QED BY <1>2, <4>1, SettleExplains
    <3> QED BY <1>2, <2>2, <3>1, AdmittedExplains DEF Reserve
  <2>3. ASSUME NEW r \in Requests, Advance(r)
        PROVE  EnergyFromRecovery'
    <3>1. CASE Refund(r) /\ Undecided(r)
      BY <1>2, <2>3, <3>1, RefundExplains DEF Advance
    <3>2. CASE ~ (Refund(r) /\ Undecided(r))
      <4>1. \A q \in Requests : KeepsHeld(q)
        BY <1>2, <2>3, <3>2, AdvanceKeepsHeld
      <4>2. CASE Commit(r) /\ Undecided(r)
        <5>1. call[r].user \in Users
          BY <1>2, <2>3, Started DEF Advance
        <5>2. /\ energy' = [energy EXCEPT ![call[r].user] = RecoveredEnergy(call[r].user)]
              /\ recoveredAt' = [recoveredAt EXCEPT ![call[r].user] = RecoveredAt(call[r].user)]
          BY <4>2 DEF Commit
        <5> QED BY <1>2, <4>1, <5>1, <5>2, KeptExplains
      <4>3. CASE ~ (Commit(r) /\ Undecided(r))
        <5>1. UNCHANGED <<energy, recoveredAt>>
          BY <2>3, <3>2, <4>3
             DEF Advance, ReserveCost, MarkStarted, SettleCost, Commit, Refund, accountVars
        <5> QED BY <1>2, <4>1, <5>1, KeptExplains
      <4> QED BY <4>2, <4>3
    <3> QED BY <3>1, <3>2
  <2>4. ASSUME NEW u \in Users, Snapshot(u)
        PROVE  EnergyFromRecovery'
    BY <1>2, <2>4, SettleExplains DEF Snapshot, SettleSigned, requestVars
  <2>5. ASSUME NEW u \in Users, GrantFirstCharacter(u)
        PROVE  EnergyFromRecovery'
    <3>1. /\ UNCHANGED <<usage, call>>
          /\ energy' = [energy EXCEPT ![u] = RecoveredEnergy(u)]
          /\ recoveredAt' = [recoveredAt EXCEPT ![u] = RecoveredAt(u)]
      BY <2>5 DEF GrantFirstCharacter, requestVars
    <3>2. \A q \in Requests : KeepsHeld(q)
      BY <3>1 DEF KeepsHeld, Keeps, SameAmounts
    <3> QED BY <1>2, <3>1, <3>2, KeptExplains
  <2>6. \A r \in Requests : Abandon(r) => UNCHANGED <<usage, call, energy, recoveredAt>>
    BY DEF Abandon, accountVars
  <2>7. Tick \/ UNCHANGED vars => UNCHANGED <<usage, call, energy, recoveredAt>>
    BY DEF Tick, vars, requestVars, accountVars
  <2> QED BY <1>2, <2>1, <2>2, <2>3, <2>4, <2>5, <2>6, <2>7 DEF Next, Step
<1>3. Inv /\ [Next]_vars => Inv'
  BY NextInv
<1> QED BY <1>1, <1>2, <1>3, InitInv, PTL DEF Spec

(* A step of a request leaves no reservation without an owner: the request goes on, or *)
(* decides its row in the transaction that ends it.                            *)
LEMMA AdvanceOwned ==
  ASSUME Inv, ReservedHasOwner, NEW r \in Requests, Advance(r)
  PROVE  ReservedHasOwner'
<1> SUFFICES ASSUME NEW q \in Requests, usage'[q].status = "reserved"
             PROVE  InProgress(q)' \/ reply'[q] = "lost"
  BY DEF ReservedHasOwner
<1>1. InProgress(r) /\ usage[q].status = "reserved"
  <2>1. Keeps(q)
    BY AdvanceKeeps
  <2> QED BY <2>1 DEF Advance, Keeps
<1>2. /\ pc \in [Requests -> Steps] /\ reply \in [Requests -> Replies]
      /\ usage \in [Requests -> Row]
  BY DEF Inv, TypeOK
<1>3. CASE q # r
  <2>1. pc'[q] = pc[q] /\ reply'[q] = reply[q]
    BY <1>2, <1>3
       DEF Advance, ReserveCost, RefuseCost, TakeCost, MarkStarted, SettleCost, Commit, Refund, Answer
  <2> QED BY <1>1, <2>1 DEF ReservedHasOwner, InProgress
<1>4. CASE q = r
  <2>1. Undecided(r)
    BY <1>1, <1>4 DEF Undecided
  <2>2. CASE Commit(r) \/ Refund(r)
    <3>1. PICK status \in {"committed", "refunded"} : usage' = [usage EXCEPT ![r] = Decided(usage[r], status)]
      BY <2>1, <2>2 DEF Commit, Refund
    <3>2. usage'[r].status = status
      BY <1>2, <3>1, DecidedRow
    <3> QED BY <1>4, <3>2
  <2>3. CASE ReserveCost(r) \/ MarkStarted(r) \/ SettleCost(r)
    <3>1. pc'[r] \in {"refund", "start", "provider", "commit"}
      BY <1>2, <2>3 DEF ReserveCost, RefuseCost, TakeCost, MarkStarted, SettleCost, Answer
    <3> QED BY <1>4, <3>1 DEF InProgress
  <2> QED BY <2>2, <2>3 DEF Advance
<1> QED BY <1>3, <1>4

(* Energy comes only from recovery, and every reservation has a request that will decide it *)
(* or that was lost, whatever refusals, errors, expiry and crashes come together.           *)
THEOREM ReservesAreExplained == Spec => []ReservesExplained
<1>1. Init => ReservedHasOwner
  <2> SUFFICES ASSUME Init, NEW q \in Requests
               PROVE  usage[q].status # "reserved"
    BY DEF ReservedHasOwner
  <2>1. usage[q] = NoRow /\ NoRow.status = "none"
    BY DEF Init, NoRow
  <2> QED BY <2>1
<1>2. ASSUME Inv, Inv', ReservedHasOwner, [Next]_vars
      PROVE  ReservedHasOwner'
  <2>1. ASSUME UNCHANGED <<usage, pc, reply>>
        PROVE  ReservedHasOwner'
    BY <1>2, <2>1 DEF ReservedHasOwner, InProgress
  <2>2. ASSUME NEW r \in Requests, NEW u \in Users, NEW k \in Keys, NEW f \in Flows,
               Reserve(r, u, k, f)
        PROVE  ReservedHasOwner'
    <3> SUFFICES ASSUME NEW q \in Requests, usage'[q].status = "reserved"
                 PROVE  InProgress(q)' \/ reply'[q] = "lost"
      BY DEF ReservedHasOwner
    <3>1. Arrives(r, u, k, f) /\ usage[r].status = "none"
      <4>1. Arrives(r, u, k, f)
        BY <2>2 DEF Reserve, ReserveDuplicate, ReserveRefused, ReserveAdmitted
      <4> QED BY <1>2, <4>1, ArrivesTypes
    <3>2. /\ \A s \in Requests \ {r} : pc'[s] = pc[s] /\ reply'[s] = reply[s]
          /\ ReserveAdmitted(r, u, k, f) => pc'[r] = "cost"
      BY <1>2, <2>2
         DEF Reserve, ReserveDuplicate, ReserveRefused, ReserveAdmitted, Answer, Inv, TypeOK
    <3>3. usage[q].status = "reserved" \/ (q = r /\ ReserveAdmitted(r, u, k, f))
      <4>1. \A s \in Requests : SettledRows(u)[s].status = "reserved" => usage[s].status = "reserved"
        <5>1. \A s \in Requests : Expired(usage[s]).status = "refunded"
          BY <1>2, DecidedRow DEF Inv, TypeOK, Expired
        <5> QED BY <5>1 DEF SettledRows
      <4>2. CASE ReserveDuplicate(r, u, k, f) \/ ReserveRefused(r, u, k, f)
        <5>1. usage' = SettledRows(u)
          BY <4>2 DEF ReserveDuplicate, ReserveRefused, SettleSigned, Settle
        <5>2. SettledRows(u)[q].status = "reserved"
          BY <5>1
        <5> QED BY <4>1, <5>2
      <4>3. CASE ReserveAdmitted(r, u, k, f)
        <5>1. \A s \in Requests \ {r} : usage'[s] = SettledRows(u)[s]
          BY <1>2, <4>3, Settled DEF ReserveAdmitted
        <5> QED BY <4>1, <4>3, <5>1
      <4> QED BY <2>2, <4>2, <4>3 DEF Reserve
    <3>4. CASE q = r /\ ReserveAdmitted(r, u, k, f)
      BY <3>2, <3>4 DEF InProgress
    <3>5. CASE usage[q].status = "reserved"
      <4>1. q # r /\ (InProgress(q) \/ reply[q] = "lost")
        BY <1>2, <3>1, <3>5 DEF ReservedHasOwner
      <4> QED BY <3>2, <4>1 DEF InProgress
    <3> QED BY <3>3, <3>4, <3>5
  <2>3. ASSUME NEW r \in Requests, Abandon(r)
        PROVE  ReservedHasOwner'
    <3>1. /\ usage' = usage /\ reply'[r] = "lost"
          /\ \A s \in Requests \ {r} : pc'[s] = pc[s] /\ reply'[s] = reply[s]
      BY <1>2, <2>3 DEF Abandon, Answer, Inv, TypeOK
    <3> QED BY <1>2, <3>1 DEF ReservedHasOwner, InProgress
  <2>4. ASSUME NEW u \in Users, Snapshot(u)
        PROVE  ReservedHasOwner'
    <3>1. usage' = SettledRows(u) /\ UNCHANGED <<pc, reply>>
      BY <2>4 DEF Snapshot, SettleSigned, Settle, requestVars
    <3>2. \A s \in Requests : Expired(usage[s]).status = "refunded"
      BY <1>2, DecidedRow DEF Inv, TypeOK, Expired
    <3>3. \A s \in Requests : usage'[s].status = "reserved" => usage[s].status = "reserved"
      BY <3>1, <3>2 DEF SettledRows
    <3> QED BY <1>2, <3>1, <3>3 DEF ReservedHasOwner, InProgress
  <2>5. \A u \in Users : GrantFirstCharacter(u) => UNCHANGED <<usage, pc, reply>>
    BY DEF GrantFirstCharacter, requestVars
  <2>6. Tick \/ UNCHANGED vars => UNCHANGED <<usage, pc, reply>>
    BY DEF Tick, vars, requestVars
  <2> QED BY <1>2, <2>1, <2>2, <2>3, <2>4, <2>5, <2>6, AdvanceOwned DEF Next, Step
<1>3. Inv /\ [Next]_vars => Inv'
  BY NextInv
<1>4. Spec => []ReservedHasOwner
  BY <1>1, <1>2, <1>3, InitInv, PTL DEF Spec
<1>5. EnergyFromRecovery /\ ReservedHasOwner => ReservesExplained
  BY DEF ReservesExplained
<1> QED BY <1>4, <1>5, EnergyExplained, PTL

-----------------------------------------------------------------------------
(* Calls are counted: a step adds at most the row it inserts.                 *)

(* Counting rows: a subset is no larger, and one more row counts one.         *)
LEMMA Counting ==
  ASSUME NEW S \in SUBSET Requests, NEW T \in SUBSET Requests, NEW r \in Requests
  PROVE  /\ Cardinality(S) \in Nat /\ Cardinality(T) \in Nat
         /\ S \subseteq T => Cardinality(S) <= Cardinality(T)
         /\ S \subseteq T \cup {r} => Cardinality(S) <= Cardinality(T) + 1
<1>1. IsFiniteSet(Requests)
  BY CountsAssumption, FS_Interval DEF Requests
<1>2. IsFiniteSet(S) /\ IsFiniteSet(T) /\ IsFiniteSet(T \cup {r})
  BY <1>1, FS_Subset
<1>3. Cardinality(S) \in Nat /\ Cardinality(T) \in Nat /\ Cardinality(T \cup {r}) \in Nat
  BY <1>2, FS_CardinalityType
<1>4. Cardinality(T \cup {r}) <= Cardinality(T) + 1
  BY <1>2, <1>3, FS_AddElement
<1>5. S \subseteq T => Cardinality(S) <= Cardinality(T)
  BY <1>2, FS_Subset
<1>6. S \subseteq T \cup {r} => Cardinality(S) <= Cardinality(T \cup {r})
  BY <1>2, FS_Subset
<1> QED BY <1>3, <1>4, <1>5, <1>6

(* A row that a step keeps was there before, live if it is, of the same call and day. *)
LEMMA KeptRow ==
  ASSUME NEW q \in Requests, Keeps(q), NEW u \in Users, NEW f \in Flows, NEW d \in Days
  PROVE  /\ q \in FlowRows(u, f)' => q \in FlowRows(u, f)
         /\ q \in Live(FlowRows(u, f))' => q \in Live(FlowRows(u, f))
         /\ q \in UsedOn(u, f, d)' => q \in UsedOn(u, f, d)
         /\ q \in Live(UsedOn(u, f, d))' => q \in Live(UsedOn(u, f, d))
<1>1. usage'[q].status # "none" => usage[q].status # "none" /\ call'[q] = call[q]
  BY DEF Keeps
<1>2. usage'[q].status \in {"reserved", "committed"} => usage[q].status \in {"reserved", "committed"}
  BY DEF Keeps
<1>3. usage'[q].created = usage[q].created
  BY DEF Keeps, SameAmounts
<1>4. q \in FlowRows(u, f)' => q \in FlowRows(u, f)
  BY <1>1 DEF FlowRows, RowsOf
<1>5. /\ q \in Live(FlowRows(u, f))' => usage'[q].status \in {"reserved", "committed"}
      /\ q \in Live(UsedOn(u, f, d))' => usage'[q].status \in {"reserved", "committed"}
  BY DEF Live
<1>6. q \in UsedOn(u, f, d)' => q \in UsedOn(u, f, d)
  BY <1>3, <1>4 DEF UsedOn
<1> QED BY <1>2, <1>4, <1>5, <1>6 DEF Live

(* A row of today was made since the day began. *)
LEMMA UsedToday ==
  ASSUME Inv, NEW u \in Users, NEW f \in Flows
  PROVE  UsedOn(u, f, DayOf(now)) \subseteq TodayRows(u, f)
<1> SUFFICES ASSUME NEW q \in UsedOn(u, f, DayOf(now))
             PROVE  usage[q].created >= DayOf(now) * DayLength
  BY DEF UsedOn, TodayRows
<1>1. /\ q \in Requests /\ usage[q].created \div DayLength = DayOf(now)
      /\ usage[q] \in Row /\ DayLength \in Nat \ {0}
  BY CountsAssumption DEF UsedOn, FlowRows, RowsOf, DayOf, Inv, TypeOK
<1>2. usage[q].created \in Nat
  BY <1>1, RowNumbers
<1>3. DayLength * DayOf(now) <= usage[q].created /\ DayOf(now) \in Nat
  BY <1>1, <1>2, Division
<1>4. DayLength * DayOf(now) = DayOf(now) * DayLength
  BY <1>1, <1>3
<1> QED BY <1>1, <1>2, <1>3, <1>4

(* What admitting a call does to the rows that are counted: expired rows are no longer live, *)
(* and the new row is the only one that joins, with its own user, flow and day.              *)
LEMMA AdmittedRows ==
  ASSUME Inv, NEW r \in Requests, NEW u \in Users, NEW k \in Keys, NEW f \in Flows,
         ReserveAdmitted(r, u, k, f), NEW v \in Users, NEW g \in Flows, NEW d \in Days
  PROVE  /\ \A q \in Requests \ {r} : Keeps(q) /\ (q \in Stale(u) => usage'[q].status = "refunded")
         /\ r \in FlowRows(v, g)' => v = u /\ g = f
         /\ r \in UsedOn(v, g, d)' => v = u /\ g = f /\ d = DayOf(now)
         /\ usage'[r].credits = CreditCharge(u, f) /\ usage'[r].energy = EnergyCharge(u, f)
         /\ usage'[r].bonus = BonusCharge(u, f)
<1>1. Arrives(r, u, k, f) /\ Admissible(u, f) /\ usage' = [SettledRows(u) EXCEPT ![r] = NewRow(u, f)]
  BY DEF ReserveAdmitted
<1>2. call'[r] = [user |-> u, key |-> k, flow |-> f]
  BY <1>1 DEF Arrives, Inv, TypeOK
<1>3. /\ usage'[r] = NewRow(u, f)
      /\ \A q \in Requests \ {r} : usage'[q] = SettledRows(u)[q] /\ call'[q] = call[q]
  BY <1>1, Settled, ArrivesTypes
<1>4. \A q \in Requests \ {r} : Keeps(q)
  BY <1>3, SettledKeeps
<1>5. \A q \in Requests \ {r} : q \in Stale(u) => usage'[q].status = "refunded"
  <2>1. \A q \in Requests : usage[q] \in Row
    BY DEF Inv, TypeOK
  <2> QED BY <1>3, <2>1, DecidedRow DEF SettledRows, Expired
<1>6. /\ usage'[r].credits = CreditCharge(u, f) /\ usage'[r].energy = EnergyCharge(u, f)
      /\ usage'[r].bonus = BonusCharge(u, f) /\ usage'[r].created = now
  BY <1>1, <1>3, NewRowTypes
<1>7. r \in FlowRows(v, g)' => v = u /\ g = f
  BY <1>2 DEF FlowRows, RowsOf
<1>8. r \in UsedOn(v, g, d)' => r \in FlowRows(v, g)' /\ DayOf(usage'[r].created) = d
  BY DEF UsedOn
<1>9. r \in UsedOn(v, g, d)' => v = u /\ g = f /\ d = DayOf(now)
  BY <1>6, <1>7, <1>8
<1> QED BY <1>4, <1>5, <1>6, <1>7, <1>9

(* The hard limit: the call that would pass it is refused. *)
LEMMA HardLimitStep ==
  ASSUME Inv, HardLimitKept, [Next]_vars
  PROVE  HardLimitKept'
<1> SUFFICES ASSUME NEW v \in Users, NEW g \in Flows, NEW d \in Days, Policy[g].hardLimit > 0
             PROVE  Cardinality(UsedOn(v, g, d)') <= Policy[g].hardLimit
  BY DEF HardLimitKept
<1> DEFINE S == UsedOn(v, g, d)
           T == UsedOn(v, g, d)'
<1>1. Cardinality(S) <= Policy[g].hardLimit /\ Policy[g].hardLimit \in Nat
  BY PolicyAssumption DEF HardLimitKept, FlowPolicy
<1>2. S \in SUBSET Requests /\ T \in SUBSET Requests
  BY DEF UsedOn, FlowRows, RowsOf
<1>3. CASE \A q \in Requests : Keeps(q)
  <2>1. T \subseteq S
    BY <1>2, <1>3, KeptRow
  <2> HIDE DEF S, T
  <2>2. \A q \in Requests : Cardinality(T) <= Cardinality(S) /\ Cardinality(S) \in Nat /\ Cardinality(T) \in Nat
    BY <1>2, <2>1, Counting
  <2>3. 1 \in Requests
    BY CountsAssumption DEF Requests
  <2>4. Cardinality(T) <= Policy[g].hardLimit
    BY <1>1, <2>2, <2>3
  <2> QED BY <2>4 DEF T
<1>4. ASSUME NEW r \in Requests, NEW u \in Users, NEW k \in Keys, NEW f \in Flows,
             ReserveAdmitted(r, u, k, f)
      PROVE  Cardinality(T) <= Policy[g].hardLimit
  <2>1. \A q \in Requests \ {r} : q \in T => q \in S
    BY <1>4, AdmittedRows, KeptRow
  <2>2. CASE r \notin T
    <3>1. T \subseteq S
      BY <1>2, <2>1, <2>2
    <3> HIDE DEF S, T
    <3>2. Cardinality(T) <= Cardinality(S) /\ Cardinality(S) \in Nat /\ Cardinality(T) \in Nat
      BY <1>2, <3>1, Counting
    <3> QED BY <1>1, <3>2
  <2>3. CASE r \in T
    <3>1. v = u /\ g = f /\ d = DayOf(now)
      BY <1>4, <2>3, AdmittedRows
    <3>2. S \subseteq TodayRows(u, f) /\ TodayRows(u, f) \in SUBSET Requests
      BY <3>1, UsedToday DEF TodayRows, FlowRows, RowsOf
    <3>3. ~ (Cardinality(TodayRows(u, f)) >= Policy[g].hardLimit)
      BY <1>4, <3>1 DEF ReserveAdmitted, Admissible, HardLimited
    <3>4. T \subseteq S \cup {r}
      BY <1>2, <2>1
    <3> HIDE DEF S, T
    <3>5. /\ Cardinality(T) <= Cardinality(S) + 1 /\ Cardinality(S) \in Nat /\ Cardinality(T) \in Nat
          /\ Cardinality(S) <= Cardinality(TodayRows(u, f)) /\ Cardinality(TodayRows(u, f)) \in Nat
      BY <1>2, <3>2, <3>4, Counting
    <3> QED BY <1>1, <3>3, <3>5
  <2> QED BY <2>2, <2>3
<1> QED BY <1>3, <1>4, StepKeeps

(* Calls that the free limit counts: what FreeRows reads, however the call was paid. *)
FreeOn(u, f, d) ==
  {r \in Live(UsedOn(u, f, d)) : Policy[f].credits = 0 \/ usage[r].energy > 0 \/ usage[r].bonus > 0}

(* The free limit: past it only calls that purchased credits pay for are admitted. *)
LEMMA FreeLimitStep ==
  ASSUME Inv, FreeLimitKept, [Next]_vars
  PROVE  FreeLimitKept'
<1> SUFFICES ASSUME NEW v \in Users, NEW g \in Flows, NEW d \in Days,
                    Policy[g].energyAllowed \/ Policy[g].bonusAllowed
             PROVE  Cardinality(FreeOn(v, g, d)') <= Policy[g].freeLimit
  BY DEF FreeLimitKept, FreeOn
<1> DEFINE S == FreeOn(v, g, d)
           T == FreeOn(v, g, d)'
<1>1. Cardinality(S) <= Policy[g].freeLimit /\ Policy[g].freeLimit \in Nat
  BY PolicyAssumption DEF FreeLimitKept, FlowPolicy, FreeOn
<1>2. S \in SUBSET Requests /\ T \in SUBSET Requests
  BY DEF FreeOn, Live, UsedOn, FlowRows, RowsOf
<1>3. ASSUME NEW q \in Requests, Keeps(q), q \in T
      PROVE  q \in S
  <2>1. /\ q \in Live(UsedOn(v, g, d))'
        /\ Policy[g].credits = 0 \/ usage'[q].energy > 0 \/ usage'[q].bonus > 0
    BY <1>3 DEF FreeOn
  <2> QED BY <1>3, <2>1, KeptRow DEF FreeOn, Keeps, SameAmounts
<1>4. CASE \A q \in Requests : Keeps(q)
  <2>1. T \subseteq S
    BY <1>2, <1>3, <1>4
  <2> HIDE DEF S, T
  <2>2. \A q \in Requests : Cardinality(T) <= Cardinality(S) /\ Cardinality(S) \in Nat /\ Cardinality(T) \in Nat
    BY <1>2, <2>1, Counting
  <2>3. 1 \in Requests
    BY CountsAssumption DEF Requests
  <2>4. Cardinality(T) <= Policy[g].freeLimit
    BY <1>1, <2>2, <2>3
  <2> QED BY <2>4 DEF T
<1>5. ASSUME NEW r \in Requests, NEW u \in Users, NEW k \in Keys, NEW f \in Flows,
             ReserveAdmitted(r, u, k, f)
      PROVE  Cardinality(T) <= Policy[g].freeLimit
  <2>1. \A q \in Requests \ {r} : q \in T => q \in S
    BY <1>3, <1>5, AdmittedRows
  <2>2. CASE r \notin T
    <3>1. T \subseteq S
      BY <1>2, <2>1, <2>2
    <3> HIDE DEF S, T
    <3>2. Cardinality(T) <= Cardinality(S) /\ Cardinality(S) \in Nat /\ Cardinality(T) \in Nat
      BY <1>2, <3>1, Counting
    <3> QED BY <1>1, <3>2
  <2>3. CASE r \in T
    <3>1. v = u /\ g = f /\ d = DayOf(now) /\ Admissible(u, f)
      <4>1. r \in UsedOn(v, g, d)'
        BY <2>3 DEF FreeOn, Live
      <4>2. v = u /\ g = f /\ d = DayOf(now)
        BY <1>5, <4>1, AdmittedRows
      <4> QED BY <1>5, <4>2 DEF ReserveAdmitted
    <3>2. Policy[f].credits = 0 \/ EnergyCharge(u, f) > 0 \/ BonusCharge(u, f) > 0
      <4>1. Policy[g].credits = 0 \/ usage'[r].energy > 0 \/ usage'[r].bonus > 0
        BY <2>3 DEF FreeOn
      <4> QED BY <1>5, <3>1, <4>1, AdmittedRows
    <3>3. ~ FreeLimited(u, f)
      <4>1. /\ Policy[f] \in FlowPolicy
            /\ Policy[f].introFree > 0 => Policy[f].credits > 0 /\ ~ Policy[f].energyAllowed
        BY PolicyAssumption, LimitsAssumption
      <4>2. CASE PurchasedOnly(u, f)
        <5>1. EnergyCharge(u, f) = 0 /\ BonusCharge(u, f) = 0 /\ Policy[f].credits > 0
          BY <4>2 DEF EnergyCharge, BonusCharge, PurchasedOnly
        <5> QED BY <3>2, <5>1
      <4>3. CASE IntroFree(u, f)
        <5>1. Policy[f].introFree > 0
          <6>1. Live(FlowRows(u, f)) \ Stale(u) \in SUBSET Requests
            BY DEF Live, FlowRows, RowsOf
          <6>2. Cardinality(Live(FlowRows(u, f)) \ Stale(u)) \in Nat
            BY <6>1, Counting
          <6>3. Policy[f].introFree \in Nat
            BY <4>1 DEF FlowPolicy
          <6> QED BY <4>3, <6>2, <6>3 DEF IntroFree
        <5>2. Policy[f].credits > 0 /\ EnergyCharge(u, f) = 0
          BY <4>1, <5>1 DEF EnergyCharge, EnergySuffices
        <5>3. CreditCharge(u, f) = 0
          BY <4>3 DEF CreditCharge
        <5>4. BonusCharge(u, f) = 0
          <6>1. SettledBonus(u) \in Nat
            BY Settled
          <6> QED BY <5>3, <6>1 DEF BonusCharge, Least2
        <5> QED BY <3>2, <5>2, <5>4
      <4> QED BY <3>1, <4>2, <4>3 DEF Admissible
    <3>4. ~ (Cardinality(FreeRows(u, f)) >= Policy[f].freeLimit)
      BY <3>1, <3>3 DEF FreeLimited
    <3>5. T \subseteq FreeRows(u, f) \cup {r}
      <4> SUFFICES ASSUME NEW q \in T, q # r
                   PROVE  q \in FreeRows(u, f)
        OBVIOUS
      <4>1. q \in Requests /\ q \in S
        BY <1>2, <2>1
      <4>2. /\ q \in Live(UsedOn(u, f, DayOf(now)))
            /\ Policy[f].credits = 0 \/ usage[q].energy > 0 \/ usage[q].bonus > 0
        BY <3>1, <4>1 DEF FreeOn
      <4>3. q \in Live(TodayRows(u, f))
        BY <4>2, UsedToday DEF Live
      <4>4. q \notin Stale(u)
        <5>1. usage'[q].status \in {"reserved", "committed"}
          BY DEF FreeOn, Live
        <5> QED BY <1>5, <4>1, <5>1, AdmittedRows
      <4>5. Policy[f].credits = 0 => Policy[f].energy = 0
        BY LimitsAssumption
      <4> QED BY <4>2, <4>3, <4>4, <4>5 DEF FreeRows
    <3>6. FreeRows(u, f) \in SUBSET Requests
      BY DEF FreeRows, Live, TodayRows, FlowRows, RowsOf
    <3> HIDE DEF S, T
    <3>7. /\ Cardinality(T) <= Cardinality(FreeRows(u, f)) + 1
          /\ Cardinality(T) \in Nat /\ Cardinality(FreeRows(u, f)) \in Nat
      BY <1>2, <3>5, <3>6, Counting
    <3> QED BY <1>1, <3>1, <3>4, <3>7
  <2> QED BY <2>2, <2>3
<1> QED BY <1>4, <1>5, StepKeeps

(* Calls whose price was waived and that energy did not pay for. *)
WaivedOf(u, f) == {r \in Live(FlowRows(u, f)) : usage[r].credits = 0 /\ usage[r].energy = 0}

(* The waived first use: while one is reserved or committed the next has its price. *)
LEMMA IntroFreeStep ==
  ASSUME Inv, IntroFreeOnce, [Next]_vars
  PROVE  IntroFreeOnce'
<1> SUFFICES ASSUME NEW v \in Users, NEW g \in Flows, Policy[g].credits > 0
             PROVE  Cardinality(WaivedOf(v, g)') <= Policy[g].introFree
  BY DEF IntroFreeOnce, WaivedOf
<1> DEFINE S == WaivedOf(v, g)
           T == WaivedOf(v, g)'
<1>1. Cardinality(S) <= Policy[g].introFree /\ Policy[g].introFree \in Nat
  BY PolicyAssumption DEF IntroFreeOnce, FlowPolicy, WaivedOf
<1>2. S \in SUBSET Requests /\ T \in SUBSET Requests
  BY DEF WaivedOf, Live, FlowRows, RowsOf
<1>3. ASSUME NEW q \in Requests, Keeps(q), q \in T
      PROVE  q \in S
  <2>1. q \in Live(FlowRows(v, g))' /\ usage'[q].credits = 0 /\ usage'[q].energy = 0
    BY <1>3 DEF WaivedOf
  <2>2. \E e \in Days : TRUE
    BY CountsAssumption DEF Days
  <2> QED BY <1>3, <2>1, <2>2, KeptRow DEF WaivedOf, Keeps, SameAmounts
<1>4. CASE \A q \in Requests : Keeps(q)
  <2>1. T \subseteq S
    BY <1>2, <1>3, <1>4
  <2> HIDE DEF S, T
  <2>2. \A q \in Requests : Cardinality(T) <= Cardinality(S) /\ Cardinality(S) \in Nat /\ Cardinality(T) \in Nat
    BY <1>2, <2>1, Counting
  <2>3. 1 \in Requests
    BY CountsAssumption DEF Requests
  <2>4. Cardinality(T) <= Policy[g].introFree
    BY <1>1, <2>2, <2>3
  <2> QED BY <2>4 DEF T
<1>5. ASSUME NEW r \in Requests, NEW u \in Users, NEW k \in Keys, NEW f \in Flows,
             ReserveAdmitted(r, u, k, f)
      PROVE  Cardinality(T) <= Policy[g].introFree
  <2>1. \A q \in Requests \ {r} : q \in T => q \in S
    <3>1. DayOf(now) \in Days
      BY DEF Days, DayOf, Inv, TypeOK
    <3> QED BY <1>3, <1>5, <3>1, AdmittedRows
  <2>2. CASE r \notin T
    <3>1. T \subseteq S
      BY <1>2, <2>1, <2>2
    <3> HIDE DEF S, T
    <3>2. Cardinality(T) <= Cardinality(S) /\ Cardinality(S) \in Nat /\ Cardinality(T) \in Nat
      BY <1>2, <3>1, Counting
    <3> QED BY <1>1, <3>2
  <2>3. CASE r \in T
    <3> DEFINE R == Live(FlowRows(u, f)) \ Stale(u)
    <3>0. DayOf(now) \in Days
      BY DEF Days, DayOf, Inv, TypeOK
    <3>1. /\ v = u /\ g = f
          /\ CreditCharge(u, f) = 0 /\ EnergyCharge(u, f) = 0
      <4>1. r \in FlowRows(v, g)' /\ usage'[r].credits = 0 /\ usage'[r].energy = 0
        BY <2>3 DEF WaivedOf, Live
      <4> QED BY <1>5, <3>0, <4>1, AdmittedRows
    <3>2. IntroFree(u, f)
      BY <3>1 DEF CreditCharge
    <3>3. Cardinality(R) < Policy[g].introFree
      BY <3>1, <3>2 DEF IntroFree
    <3>4. T \subseteq R \cup {r}
      <4> SUFFICES ASSUME NEW q \in T, q # r
                   PROVE  q \in R
        OBVIOUS
      <4>1. q \in Requests /\ q \in S
        BY <1>2, <2>1
      <4>2. q \in Live(FlowRows(u, f))
        BY <3>1, <4>1 DEF WaivedOf
      <4>3. q \notin Stale(u)
        <5>1. usage'[q].status \in {"reserved", "committed"}
          BY DEF WaivedOf, Live
        <5> QED BY <1>5, <3>0, <4>1, <5>1, AdmittedRows
      <4> QED BY <4>2, <4>3
    <3>5. R \in SUBSET Requests
      BY DEF Live, FlowRows, RowsOf
    <3> HIDE DEF S, T, R
    <3>6. Cardinality(T) <= Cardinality(R) + 1 /\ Cardinality(T) \in Nat /\ Cardinality(R) \in Nat
      BY <1>2, <3>4, <3>5, Counting
    <3> QED BY <1>1, <3>3, <3>6
  <2> QED BY <2>2, <2>3
<1> QED BY <1>4, <1>5, StepKeeps

-----------------------------------------------------------------------------
(* Requests that do not outlive their reservation are answered as they are charged. *)

(* A request in progress finds its row reserved, and its reservation not yet expired. *)
Prompt ==
  \A r \in Requests :
    InProgress(r) => usage[r].status = "reserved" /\ now <= usage[r].created + ReservationTTL
(* What the step of a request says about the answer it has. *)
Answered ==
  \A r \in Requests :
    /\ pc[r] \in {"new", "cost", "start", "provider"} => reply[r] \in {"none", "lost"}
    /\ pc[r] = "commit" => reply[r] \in {"ok", "lost"}
    /\ pc[r] = "refund" => reply[r] \in {"failed", "cancelled", "blocked", "lost"}

(* What the platform's steps write into a row. *)
LEMMA ProviderRow ==
  ASSUME NEW row \in Row, NEW c
  PROVE  /\ [row EXCEPT !.cost = c, !.provider = "cost_reserved"].status = row.status
         /\ [row EXCEPT !.cost = c, !.provider = "cost_reserved"].created = row.created
         /\ [row EXCEPT !.cost = c, !.provider = "cost_reserved"].cost = c
         /\ [row EXCEPT !.cost = c, !.provider = "cost_reserved"].provider = "cost_reserved"
         /\ [row EXCEPT !.provider = "provider_started"].status = row.status
         /\ [row EXCEPT !.provider = "provider_started"].created = row.created
         /\ [row EXCEPT !.provider = "provider_started"].cost = row.cost
         /\ [row EXCEPT !.provider = "provider_started"].provider = "provider_started"
<1>1. [row EXCEPT !.cost = c, !.provider = "cost_reserved"].status = row.status
  BY DEF Row
<1>2. [row EXCEPT !.cost = c, !.provider = "cost_reserved"].created = row.created
  BY DEF Row
<1>3. [row EXCEPT !.cost = c, !.provider = "cost_reserved"].cost = c
  BY DEF Row
<1>4. [row EXCEPT !.cost = c, !.provider = "cost_reserved"].provider = "cost_reserved"
  BY DEF Row
<1>5. [row EXCEPT !.provider = "provider_started"].status = row.status
  BY DEF Row
<1>6. [row EXCEPT !.provider = "provider_started"].created = row.created
  BY DEF Row
<1>7. [row EXCEPT !.provider = "provider_started"].cost = row.cost
  BY DEF Row
<1>8. [row EXCEPT !.provider = "provider_started"].provider = "provider_started"
  BY DEF Row
<1> QED BY <1>1, <1>2, <1>3, <1>4, <1>5, <1>6, <1>7, <1>8

(* A step of one request changes no other's row, and before its last step not the status of its own. *)
LEMMA AdvanceRows ==
  ASSUME Inv, NEW r \in Requests, Advance(r)
  PROVE  /\ call' = call /\ now' = now
         /\ \A q \in Requests \ {r} : usage'[q] = usage[q] /\ pc'[q] = pc[q] /\ reply'[q] = reply[q]
         /\ ReserveCost(r) \/ MarkStarted(r) \/ SettleCost(r) =>
              usage'[r].status = usage[r].status /\ usage'[r].created = usage[r].created
<1>1. /\ pc \in [Requests -> Steps] /\ reply \in [Requests -> Replies]
      /\ usage \in [Requests -> Row] /\ usage[r] \in Row
  BY DEF Inv, TypeOK
<1>2. call' = call /\ now' = now
  BY DEF Advance, ReserveCost, MarkStarted, SettleCost, Commit, Refund
<1>3. \A q \in Requests \ {r} : pc'[q] = pc[q] /\ reply'[q] = reply[q]
  BY <1>1
     DEF Advance, ReserveCost, RefuseCost, TakeCost, MarkStarted, SettleCost, Commit, Refund, Answer
<1>4. CASE ReserveCost(r)
  <2> DEFINE new == [usage[r] EXCEPT !.cost = Policy[call[r].flow].cost, !.provider = "cost_reserved"]
  <2>1. new.status = usage[r].status /\ new.created = usage[r].created
    BY <1>1, ProviderRow
  <2>2. usage' \in {usage, [usage EXCEPT ![r] = new]}
    BY <1>4 DEF ReserveCost, RefuseCost, TakeCost
  <2> HIDE DEF new
  <2> QED BY <1>1, <1>2, <1>3, <2>1, <2>2
<1>5. CASE MarkStarted(r)
  <2> DEFINE new == [usage[r] EXCEPT !.provider = "provider_started"]
  <2>1. new.status = usage[r].status /\ new.created = usage[r].created
    BY <1>1, ProviderRow
  <2>2. usage' \in {usage, [usage EXCEPT ![r] = new]}
    BY <1>5 DEF MarkStarted
  <2> HIDE DEF new
  <2> QED BY <1>1, <1>2, <1>3, <2>1, <2>2
<1>6. CASE SettleCost(r)
  <2>1. usage' = usage
    BY <1>6 DEF SettleCost
  <2> QED BY <1>2, <1>3, <2>1
<1>7. CASE Commit(r) \/ Refund(r)
  <2>1. \A q \in Requests \ {r} : usage'[q] = usage[q]
    BY <1>1, <1>7 DEF Commit, Refund
  <2>2. ReserveCost(r) \/ MarkStarted(r) \/ SettleCost(r) =>
          usage'[r].status = usage[r].status /\ usage'[r].created = usage[r].created
    BY <1>4, <1>5, <1>6
  <2> QED BY <1>2, <1>3, <2>1, <2>2
<1> QED BY <1>4, <1>5, <1>6, <1>7 DEF Advance

(* Settling an account leaves the row of a prompt request alone. *)
LEMMA PromptKept ==
  ASSUME Inv, Prompt, NEW u \in Users, NEW q \in Requests, InProgress(q)
  PROVE  q \notin Stale(u) /\ SettledRows(u)[q] = usage[q]
<1>1. now \in Nat /\ usage[q].created \in Nat /\ ReservationTTL \in Nat
  BY CountsAssumption, RowNumbers DEF Inv, TypeOK
<1>2. now <= usage[q].created + ReservationTTL
  BY DEF Prompt
<1>3. q \notin Stale(u)
  BY <1>1, <1>2 DEF Stale
<1> QED BY <1>3 DEF SettledRows

(* A call at the account lock inserts its row or is answered at once. *)
LEMMA ReserveOwn ==
  ASSUME Inv, NEW r \in Requests, NEW u \in Users, NEW k \in Keys, NEW f \in Flows, Reserve(r, u, k, f)
  PROVE  /\ pc[r] = "new" /\ usage[r].status = "none" /\ now' = now
         /\ call'[r] = [user |-> u, key |-> k, flow |-> f]
         /\ ReserveAdmitted(r, u, k, f) => usage'[r] = NewRow(u, f)
         /\ ~ ReserveAdmitted(r, u, k, f) => usage'[r] = SettledRows(u)[r] /\ pc'[r] = "done"
<1>1. Arrives(r, u, k, f) /\ now' = now
  BY DEF Reserve, ReserveDuplicate, ReserveRefused, ReserveAdmitted
<1>2. /\ pc[r] = "new" /\ usage[r].status = "none"
      /\ call'[r] = [user |-> u, key |-> k, flow |-> f]
  BY <1>1, ArrivesTypes DEF Arrives, Inv, TypeOK
<1>3. CASE ReserveAdmitted(r, u, k, f)
  BY <1>1, <1>2, <1>3, Settled DEF ReserveAdmitted
<1>4. CASE ~ ReserveAdmitted(r, u, k, f)
  <2>1. ReserveDuplicate(r, u, k, f) \/ ReserveRefused(r, u, k, f)
    BY <1>4 DEF Reserve
  <2>2. usage' = SettledRows(u) /\ pc'[r] = "done"
    BY <2>1 DEF ReserveDuplicate, ReserveRefused, SettleSigned, Settle, Answer, Inv, TypeOK
  <2> QED BY <1>1, <1>2, <1>4, <2>2
<1> QED BY <1>3, <1>4

(* A call at the account lock changes no other request. *)
LEMMA ReserveOthers ==
  ASSUME Inv, NEW r \in Requests, NEW u \in Users, NEW k \in Keys, NEW f \in Flows, Reserve(r, u, k, f),
         NEW q \in Requests, q # r
  PROVE  /\ call'[q] = call[q] /\ pc'[q] = pc[q] /\ reply'[q] = reply[q]
         /\ usage'[q] = SettledRows(u)[q]
<1>1. Arrives(r, u, k, f)
  BY DEF Reserve, ReserveDuplicate, ReserveRefused, ReserveAdmitted
<1>2. call'[q] = call[q]
  BY <1>1, ArrivesTypes
<1>3. pc'[q] = pc[q] /\ reply'[q] = reply[q]
  BY DEF Reserve, ReserveDuplicate, ReserveRefused, ReserveAdmitted, Answer, Inv, TypeOK
<1>4. usage'[q] = SettledRows(u)[q]
  <2>1. usage' = SettledRows(u) \/ usage' = [SettledRows(u) EXCEPT ![r] = NewRow(u, f)]
    BY DEF Reserve, ReserveDuplicate, ReserveRefused, ReserveAdmitted, SettleSigned, Settle
  <2> QED BY <2>1, Settled
<1> QED BY <1>2, <1>3, <1>4

(* What the other steps do to requests and rows. *)
LEMMA OtherSteps ==
  ASSUME Inv
  PROVE  /\ \A u \in Users : Snapshot(u) =>
              UNCHANGED <<now, pc, call, reply>> /\ usage' = SettledRows(u)
         /\ \A u \in Users : GrantFirstCharacter(u) => UNCHANGED <<now, pc, call, reply, usage>>
         /\ \A r \in Requests : Abandon(r) =>
              /\ InProgress(r) /\ UNCHANGED <<now, pc, call, usage>> /\ reply'[r] = "lost"
              /\ \A q \in Requests \ {r} : reply'[q] = reply[q]
         /\ Tick => UNCHANGED <<pc, call, reply, usage>>
         /\ UNCHANGED vars => UNCHANGED <<now, pc, call, reply, usage>>
<1>1. /\ pc \in [Requests -> Steps] /\ reply \in [Requests -> Replies]
  BY DEF Inv, TypeOK
<1>2. \A u \in Users : Snapshot(u) => UNCHANGED <<now, pc, call, reply>> /\ usage' = SettledRows(u)
  BY DEF Snapshot, SettleSigned, Settle, requestVars
<1>3. \A u \in Users : GrantFirstCharacter(u) => UNCHANGED <<now, pc, call, reply, usage>>
  BY DEF GrantFirstCharacter, requestVars
<1>4. ASSUME NEW r \in Requests, Abandon(r)
      PROVE  /\ InProgress(r) /\ UNCHANGED <<now, pc, call, usage>> /\ reply'[r] = "lost"
             /\ \A q \in Requests \ {r} : reply'[q] = reply[q]
  BY <1>1, <1>4 DEF Abandon, Answer
<1>5. Tick => UNCHANGED <<pc, call, reply, usage>>
  BY DEF Tick, requestVars
<1>6. UNCHANGED vars => UNCHANGED <<now, pc, call, reply, usage>>
  BY DEF vars, requestVars
<1> QED BY <1>2, <1>3, <1>4, <1>5, <1>6

(* When time waits for requests, none of them finds its reservation expired. *)
LEMMA PromptStep ==
  ASSUME Punctual, Inv, Prompt, [Next]_vars
  PROVE  Prompt'
<1> SUFFICES ASSUME NEW q \in Requests, InProgress(q)'
             PROVE  usage'[q].status = "reserved" /\ now' <= usage'[q].created + ReservationTTL
  BY DEF Prompt
<1>1. ASSUME UNCHANGED <<now, pc, reply, usage>>
      PROVE  usage'[q].status = "reserved" /\ now' <= usage'[q].created + ReservationTTL
  BY <1>1 DEF Prompt, InProgress
<1>2. ASSUME InProgress(q), now' = now, usage'[q] = usage[q]
      PROVE  usage'[q].status = "reserved" /\ now' <= usage'[q].created + ReservationTTL
  BY <1>2 DEF Prompt
<1>3. ASSUME NEW r \in Requests, NEW u \in Users, NEW k \in Keys, NEW f \in Flows,
             Reserve(r, u, k, f)
      PROVE  usage'[q].status = "reserved" /\ now' <= usage'[q].created + ReservationTTL
  <2>1. CASE q = r
    <3>1. ReserveAdmitted(r, u, k, f) /\ usage'[r] = NewRow(u, f) /\ now' = now
      <4>1. pc'[r] # "done"
        BY <2>1 DEF InProgress
      <4>2. /\ now' = now
            /\ ReserveAdmitted(r, u, k, f) => usage'[r] = NewRow(u, f)
            /\ ~ ReserveAdmitted(r, u, k, f) => pc'[r] = "done"
        BY <1>3, ReserveOwn
      <4> QED BY <4>1, <4>2
    <3>2. NewRow(u, f).status = "reserved" /\ NewRow(u, f).created = now
      BY <3>1, NewRowTypes DEF ReserveAdmitted
    <3>3. now <= now + ReservationTTL
      BY CountsAssumption DEF Inv, TypeOK
    <3> QED BY <2>1, <3>1, <3>2, <3>3
  <2>2. CASE q # r
    <3>1. pc'[q] = pc[q] /\ reply'[q] = reply[q] /\ usage'[q] = SettledRows(u)[q]
      BY <1>3, <2>2, ReserveOthers
    <3>2. InProgress(q) /\ now' = now
      BY <1>3, <3>1, ReserveOwn DEF InProgress
    <3> QED BY <1>2, <3>1, <3>2, PromptKept
  <2> QED BY <2>1, <2>2
<1>4. ASSUME NEW r \in Requests, Advance(r)
      PROVE  usage'[q].status = "reserved" /\ now' <= usage'[q].created + ReservationTTL
  <2>1. CASE q # r
    <3>1. InProgress(q) /\ now' = now /\ usage'[q] = usage[q]
      BY <1>4, <2>1, AdvanceRows DEF InProgress
    <3> QED BY <1>2, <3>1
  <2>2. CASE q = r
    <3>1. ~ (Commit(r) \/ Refund(r))
      <4>1. Commit(r) \/ Refund(r) => pc'[r] = "done"
        BY DEF Commit, Refund, Answer, Inv, TypeOK
      <4> QED BY <2>2, <4>1 DEF InProgress
    <3>2. now' = now /\ usage'[r].status = usage[r].status /\ usage'[r].created = usage[r].created
      BY <1>4, <3>1, AdvanceRows DEF Advance
    <3>3. usage[r].status = "reserved" /\ now <= usage[r].created + ReservationTTL
      BY <1>4 DEF Prompt, Advance
    <3> QED BY <2>2, <3>2, <3>3
  <2> QED BY <2>1, <2>2
<1>5. ASSUME NEW r \in Requests, Abandon(r)
      PROVE  usage'[q].status = "reserved" /\ now' <= usage'[q].created + ReservationTTL
  <2>1. q # r /\ InProgress(q) /\ now' = now /\ usage' = usage
    BY <1>5, OtherSteps DEF InProgress
  <2> QED BY <1>2, <2>1
<1>6. ASSUME NEW u \in Users, Snapshot(u)
      PROVE  usage'[q].status = "reserved" /\ now' <= usage'[q].created + ReservationTTL
  <2>1. InProgress(q) /\ now' = now /\ usage' = SettledRows(u)
    BY <1>6, OtherSteps DEF InProgress
  <2> QED BY <1>2, <2>1, PromptKept
<1>7. ASSUME Tick
      PROVE  usage'[q].status = "reserved" /\ now' <= usage'[q].created + ReservationTTL
  <2>1. InProgress(q) /\ usage' = usage
    BY <1>7, OtherSteps DEF InProgress
  <2>2. now' = now + 1 /\ usage[q].created + ReservationTTL > now
    BY <1>7, <2>1 DEF Tick
  <2>3. now \in Nat /\ usage[q].created \in Nat /\ ReservationTTL \in Nat
    BY CountsAssumption, RowNumbers DEF Inv, TypeOK
  <2> QED BY <2>1, <2>2, <2>3 DEF Prompt
<1> QED BY <1>1, <1>3, <1>4, <1>5, <1>6, <1>7, OtherSteps DEF Next, Step

(* Each step gives the answer that its place in the request allows. *)
LEMMA AnsweredStep ==
  ASSUME Inv, Answered, [Next]_vars
  PROVE  Answered'
<1> SUFFICES ASSUME NEW q \in Requests
             PROVE  /\ pc'[q] \in {"new", "cost", "start", "provider"} => reply'[q] \in {"none", "lost"}
                    /\ pc'[q] = "commit" => reply'[q] \in {"ok", "lost"}
                    /\ pc'[q] = "refund" => reply'[q] \in {"failed", "cancelled", "blocked", "lost"}
  BY DEF Answered
<1> DEFINE Goal ==
      /\ pc'[q] \in {"new", "cost", "start", "provider"} => reply'[q] \in {"none", "lost"}
      /\ pc'[q] = "commit" => reply'[q] \in {"ok", "lost"}
      /\ pc'[q] = "refund" => reply'[q] \in {"failed", "cancelled", "blocked", "lost"}
<1>0. pc \in [Requests -> Steps] /\ reply \in [Requests -> Replies]
  BY DEF Inv, TypeOK
<1>1. ASSUME pc'[q] = pc[q], reply'[q] \in {reply[q], "lost"}
      PROVE  Goal
  BY <1>1 DEF Answered
<1>2. ASSUME NEW r \in Requests, NEW u \in Users, NEW k \in Keys, NEW f \in Flows,
             Reserve(r, u, k, f)
      PROVE  Goal
  <2>1. CASE q = r
    <3>1. ReserveAdmitted(r, u, k, f) => pc'[r] = "cost" /\ reply'[r] = "none"
      BY <1>0 DEF ReserveAdmitted, Answer
    <3> QED BY <1>2, <2>1, <3>1, ReserveOwn
  <2>2. CASE q # r
    <3>1. pc'[q] = pc[q] /\ reply'[q] = reply[q]
      BY <1>2, <2>2, ReserveOthers
    <3> QED BY <1>1, <3>1
  <2> QED BY <2>1, <2>2
<1>3. ASSUME NEW r \in Requests, Advance(r)
      PROVE  Goal
  <2>1. CASE q # r
    BY <1>1, <1>3, <2>1, AdvanceRows
  <2>2. CASE q = r
    <3>1. CASE ReserveCost(r)
      <4>1. (pc'[r] = "refund" /\ reply'[r] = "blocked") \/ (pc'[r] = "start" /\ reply'[r] = "none")
        BY <1>0, <3>1 DEF ReserveCost, RefuseCost, TakeCost, Answer
      <4> QED BY <2>2, <4>1
    <3>2. CASE MarkStarted(r)
      <4>1. pc[r] = "start" /\ pc'[r] = "provider" /\ reply' = reply
        BY <1>0, <3>2 DEF MarkStarted
      <4>2. reply[r] \in {"none", "lost"}
        BY <4>1 DEF Answered
      <4> QED BY <2>2, <4>1, <4>2
    <3>3. CASE SettleCost(r)
      <4>1. (pc'[r] = "commit" /\ reply'[r] = "ok")
            \/ (pc'[r] = "refund" /\ reply'[r] \in {"failed", "cancelled"})
        BY <1>0, <3>3 DEF SettleCost, Answer
      <4> QED BY <2>2, <4>1
    <3>4. CASE Commit(r) \/ Refund(r)
      <4>1. pc'[r] = "done"
        BY <1>0, <3>4 DEF Commit, Refund, Answer
      <4> QED BY <2>2, <4>1
    <3> QED BY <1>3, <3>1, <3>2, <3>3, <3>4 DEF Advance
  <2> QED BY <2>1, <2>2
<1>4. ASSUME NEW r \in Requests, Abandon(r)
      PROVE  Goal
  BY <1>1, <1>4, OtherSteps
<1>5. ASSUME UNCHANGED <<pc, reply>>
      PROVE  Goal
  BY <1>1, <1>5
<1> QED BY <1>2, <1>3, <1>4, <1>5, OtherSteps DEF Next, Step

(* The charge of a finished request does not change. *)
LEMMA DoneKept ==
  ASSUME Inv, ReplyHonest, NEW q \in Requests, pc[q] = "done", reply'[q] = reply[q], call'[q] = call[q],
         \A p \in Requests : usage[p].status # "none" => Keeps(p)
  PROVE  /\ reply'[q] = "ok" => usage'[q].status = "committed"
         /\ reply'[q] \in {"failed", "cancelled", "blocked"} => usage'[q].status = "refunded"
         /\ reply'[q] = "replay" =>
              \E p \in Requests : usage'[p].status = "committed" /\ call'[p] = call'[q]
<1>1. /\ reply[q] = "ok" => usage[q].status = "committed"
      /\ reply[q] \in {"failed", "cancelled", "blocked"} => usage[q].status = "refunded"
      /\ reply[q] = "replay" => \E p \in Requests : usage[p].status = "committed" /\ call[p] = call[q]
  BY DEF ReplyHonest
<1>2. \A p \in Requests :
        /\ usage[p].status = "committed" => usage'[p].status = "committed" /\ call'[p] = call[p]
        /\ usage[p].status = "refunded" => usage'[p].status = "refunded"
  BY DEF Keeps
<1>3. (reply'[q] = "ok" => usage'[q].status = "committed")
      /\ (reply'[q] \in {"failed", "cancelled", "blocked"} => usage'[q].status = "refunded")
  BY <1>1, <1>2
<1>4. ASSUME reply'[q] = "replay"
      PROVE  \E p \in Requests : usage'[p].status = "committed" /\ call'[p] = call'[q]
  <2>1. PICK p \in Requests : usage[p].status = "committed" /\ call[p] = call[q]
    BY <1>1, <1>4
  <2>2. usage'[p].status = "committed" /\ call'[p] = call'[q]
    BY <1>2, <2>1
  <2> QED BY <2>2
<1> QED BY <1>3, <1>4

(* A request that ends decides its row as it answers: in time, since none outlives its reservation. *)
LEMMA ReplyStep ==
  ASSUME Punctual, Inv, Prompt, Answered, ReplyHonest, [Next]_vars
  PROVE  ReplyHonest'
<1> SUFFICES ASSUME NEW q \in Requests, pc'[q] = "done"
             PROVE  /\ reply'[q] = "ok" => usage'[q].status = "committed"
                    /\ reply'[q] \in {"failed", "cancelled", "blocked"} => usage'[q].status = "refunded"
                    /\ reply'[q] = "replay" =>
                         \E p \in Requests : usage'[p].status = "committed" /\ call'[p] = call'[q]
  BY DEF ReplyHonest
<1> DEFINE Goal ==
      /\ reply'[q] = "ok" => usage'[q].status = "committed"
      /\ reply'[q] \in {"failed", "cancelled", "blocked"} => usage'[q].status = "refunded"
      /\ reply'[q] = "replay" =>
           \E p \in Requests : usage'[p].status = "committed" /\ call'[p] = call'[q]
<1>0. \A p \in Requests : usage[p].status # "none" => Keeps(p)
  <2>1. ASSUME NEW r \in Requests, NEW u \in Users, NEW k \in Keys, NEW f \in Flows,
               ReserveAdmitted(r, u, k, f)
        PROVE  usage[r].status = "none"
    BY <2>1, ArrivesTypes DEF ReserveAdmitted
  <2> QED BY <2>1, StepKeeps
<1>1. ASSUME pc[q] = "done", reply'[q] = reply[q], call'[q] = call[q]
      PROVE  Goal
  BY <1>0, <1>1, DoneKept
<1> HIDE DEF Goal
<1>2. ASSUME NEW r \in Requests, NEW u \in Users, NEW k \in Keys, NEW f \in Flows,
             Reserve(r, u, k, f)
      PROVE  Goal
  <2>1. CASE q # r
    <3>1. call'[q] = call[q] /\ pc'[q] = pc[q] /\ reply'[q] = reply[q]
      BY <1>2, <2>1, ReserveOthers
    <3> QED BY <1>1, <3>1
  <2>2. CASE q = r /\ ReserveDuplicate(r, u, k, f)
    <3>1. PICK p \in Existing(u, k) : Answer(r, DuplicateReply(u, p, f), "done")
      BY <2>2 DEF ReserveDuplicate
    <3>2. reply'[r] = DuplicateReply(u, p, f)
      BY <3>1 DEF Answer, Inv, TypeOK
    <3>3. /\ reply'[r] \in {"replay", "in_progress", "processed"}
          /\ reply'[r] = "replay" => call[p].flow = f /\ usage[p].status = "committed"
      BY <3>2 DEF DuplicateReply
    <3>4. /\ p \in Requests /\ usage[p].status # "none" /\ call[p].user = u /\ call[p].key = k
      BY DEF Existing, RowsOf
    <3>5. call'[r] = [user |-> u, key |-> k, flow |-> f]
      BY <1>2, ReserveOwn
    <3>6. call[p] \in Calls
      BY <3>4 DEF Inv, Rows
    <3>7. reply'[r] = "replay" => call[p] = call'[r]
      BY <3>3, <3>4, <3>5, <3>6 DEF Calls
    <3>8. usage[p].status = "committed" => usage'[p].status = "committed" /\ call'[p] = call[p]
      BY <1>0, <3>4 DEF Keeps
    <3> QED BY <2>2, <3>3, <3>4, <3>7, <3>8 DEF Goal
  <2>3. CASE q = r /\ ReserveRefused(r, u, k, f)
    <3>1. reply'[r] \in {"hard_limited", "free_limited", "insufficient"}
      BY <2>3 DEF ReserveRefused, Answer, Inv, TypeOK
    <3> QED BY <2>3, <3>1 DEF Goal
  <2>4. CASE q = r /\ ReserveAdmitted(r, u, k, f)
    <3>1. pc'[r] = "cost"
      BY <2>4 DEF ReserveAdmitted, Answer, Inv, TypeOK
    <3> QED BY <2>4, <3>1
  <2> QED BY <1>2, <2>1, <2>2, <2>3, <2>4 DEF Reserve
<1>3. ASSUME NEW r \in Requests, Advance(r)
      PROVE  Goal
  <2>1. CASE q # r
    <3>1. call'[q] = call[q] /\ pc'[q] = pc[q] /\ reply'[q] = reply[q]
      BY <1>3, <2>1, AdvanceRows
    <3> QED BY <1>1, <3>1
  <2>2. CASE q = r
    <3>1. Undecided(r) /\ reply[r] # "lost" /\ InProgress(r)
      BY <1>3 DEF Prompt, Advance, Undecided, InProgress
    <3>2. usage \in [Requests -> Row] /\ reply \in [Requests -> Replies] /\ pc \in [Requests -> Steps]
      BY DEF Inv, TypeOK
    <3>3. CASE Commit(r)
      <4>1. usage' = [usage EXCEPT ![r] = Decided(usage[r], "committed")] /\ reply' = reply /\ pc[r] = "commit"
        BY <3>1, <3>3 DEF Commit
      <4>2. usage'[r].status = "committed" /\ reply'[r] = "ok"
        BY <3>1, <3>2, <4>1, DecidedRow DEF Answered
      <4> QED BY <2>2, <4>2 DEF Goal
    <3>4. CASE Refund(r)
      <4>1. usage' = [usage EXCEPT ![r] = Decided(usage[r], "refunded")]
        BY <3>1, <3>4 DEF Refund
      <4>2. usage'[r].status = "refunded"
        BY <3>2, <4>1, DecidedRow
      <4>3. reply'[r] \in {"failed", "cancelled", "blocked"}
        BY <3>1, <3>2, <3>4 DEF Refund, Answer, Answered
      <4> QED BY <2>2, <4>2, <4>3 DEF Goal
    <3>5. CASE ReserveCost(r) \/ MarkStarted(r) \/ SettleCost(r)
      <4>1. pc'[r] # "done"
        BY <3>2, <3>5 DEF ReserveCost, RefuseCost, TakeCost, MarkStarted, SettleCost, Answer
      <4> QED BY <2>2, <4>1
    <3> QED BY <1>3, <3>3, <3>4, <3>5 DEF Advance
  <2> QED BY <2>1, <2>2
<1>4. ASSUME NEW r \in Requests, Abandon(r)
      PROVE  Goal
  <2>1. InProgress(r) /\ pc' = pc /\ call' = call /\ \A p \in Requests \ {r} : reply'[p] = reply[p]
    BY <1>4, OtherSteps
  <2>2. q # r
    BY <2>1 DEF InProgress
  <2> QED BY <1>1, <2>1, <2>2
<1>5. ASSUME UNCHANGED <<pc, reply, call>>
      PROVE  Goal
  BY <1>1, <1>5
<1>6. Goal
  BY <1>2, <1>3, <1>4, <1>5, OtherSteps DEF Next, Step
<1> QED BY <1>6 DEF Goal

-----------------------------------------------------------------------------
(* The month's estimate covers what was spent and what calls may still cost. *)

(* A reserved row has its cost reserved exactly while its request waits for the provider. *)
CostRows ==
  \A r \in Requests :
    usage[r].status = "reserved" =>
      /\ usage[r].provider = "cost_reserved" <=> pc[r] = "start"
      /\ pc[r] = "start" => usage[r].cost = Policy[call[r].flow].cost

(* The calls whose cost the estimate must hold: what expiry will release included. *)
CostOf == [r \in Requests |-> IF call[r] = NoCall THEN 0 ELSE Policy[call[r].flow].cost]
Tied ==
  {r \in Requests :
     pc[r] = "provider" \/ (pc[r] = "start" /\ (InProgress(r) \/ usage[r].status = "reserved"))}
Covered ==
  /\ estimated[0] <= MonthlyBudget
  /\ actual[0] + SumOver(Tied, CostOf) <= estimated[0]

(* A cost is reserved, passed to the provider or given back with the row that says so. *)
LEMMA CostRowsStep ==
  ASSUME Inv, Prompt, CostRows, [Next]_vars
  PROVE  CostRows'
<1> SUFFICES ASSUME NEW q \in Requests, usage'[q].status = "reserved"
             PROVE  /\ usage'[q].provider = "cost_reserved" <=> pc'[q] = "start"
                    /\ pc'[q] = "start" => usage'[q].cost = Policy[call'[q].flow].cost
  BY DEF CostRows
<1> DEFINE Goal ==
      /\ usage'[q].provider = "cost_reserved" <=> pc'[q] = "start"
      /\ pc'[q] = "start" => usage'[q].cost = Policy[call'[q].flow].cost
<1>0. /\ pc \in [Requests -> Steps] /\ usage \in [Requests -> Row] /\ usage[q] \in Row
  BY DEF Inv, TypeOK
<1>1. ASSUME pc'[q] = pc[q], call'[q] = call[q], usage'[q] = usage[q]
      PROVE  Goal
  BY <1>1 DEF CostRows
<1>2. \A u \in Users : usage'[q] = SettledRows(u)[q] => usage'[q] = usage[q]
  BY <1>0, DecidedRow DEF SettledRows, Expired
<1> HIDE DEF Goal
<1>3. ASSUME NEW r \in Requests, NEW u \in Users, NEW k \in Keys, NEW f \in Flows,
             Reserve(r, u, k, f)
      PROVE  Goal
  <2>1. CASE q # r
    <3>1. call'[q] = call[q] /\ pc'[q] = pc[q] /\ usage'[q] = SettledRows(u)[q]
      BY <1>3, <2>1, ReserveOthers
    <3> QED BY <1>1, <1>2, <3>1
  <2>2. CASE q = r
    <3>1. /\ usage[r].status = "none"
          /\ ReserveAdmitted(r, u, k, f) => usage'[r] = NewRow(u, f)
          /\ ~ ReserveAdmitted(r, u, k, f) => usage'[r] = SettledRows(u)[r]
      BY <1>3, ReserveOwn
    <3>2. ReserveAdmitted(r, u, k, f)
      BY <1>2, <2>2, <3>1
    <3>3. pc'[r] = "cost"
      BY <1>0, <3>2 DEF ReserveAdmitted, Answer
    <3>4. NewRow(u, f).provider = "credit_reserved"
      BY DEF NewRow
    <3> QED BY <2>2, <3>1, <3>2, <3>3, <3>4 DEF Goal
  <2> QED BY <2>1, <2>2
<1>4. ASSUME NEW r \in Requests, Advance(r)
      PROVE  Goal
  <2>1. CASE q # r
    <3>1. call'[q] = call[q] /\ pc'[q] = pc[q] /\ usage'[q] = usage[q]
      BY <1>4, <2>1, AdvanceRows
    <3> QED BY <1>1, <3>1
  <2>2. CASE q = r
    <3>1. Undecided(r) /\ usage[r].status = "reserved" /\ call' = call
      BY <1>4, AdvanceRows DEF Prompt, Advance, Undecided
    <3>2. usage[r].provider = "cost_reserved" <=> pc[r] = "start"
      BY <3>1 DEF CostRows
    <3>3. CASE RefuseCost(r) /\ ReserveCost(r)
      <4>1. pc[r] = "cost" /\ pc'[r] = "refund" /\ usage' = usage
        BY <1>0, <3>3 DEF ReserveCost, RefuseCost, Answer
      <4> QED BY <2>2, <3>2, <4>1 DEF Goal
    <3>4. CASE TakeCost(r)
      <4> DEFINE new == [usage[r] EXCEPT !.cost = Policy[call[r].flow].cost, !.provider = "cost_reserved"]
      <4>1. pc'[r] = "start" /\ usage'[r] = new
        BY <1>0, <3>4 DEF TakeCost, Answer
      <4>2. new.provider = "cost_reserved" /\ new.cost = Policy[call[r].flow].cost
        BY <1>0, <2>2, ProviderRow
      <4> HIDE DEF new
      <4> QED BY <2>2, <3>1, <4>1, <4>2 DEF Goal
    <3>5. CASE MarkStarted(r)
      <4> DEFINE new == [usage[r] EXCEPT !.provider = "provider_started"]
      <4>1. pc'[r] = "provider" /\ usage'[r] = new
        BY <1>0, <3>1, <3>5 DEF MarkStarted
      <4>2. new.provider = "provider_started"
        BY <1>0, <2>2, ProviderRow
      <4> HIDE DEF new
      <4> QED BY <2>2, <4>1, <4>2 DEF Goal
    <3>6. CASE SettleCost(r)
      <4>1. pc[r] = "provider" /\ pc'[r] \in {"commit", "refund"} /\ usage' = usage
        BY <1>0, <3>6 DEF SettleCost, Answer
      <4> QED BY <2>2, <3>2, <4>1 DEF Goal
    <3>7. CASE Commit(r) \/ Refund(r)
      <4>1. usage'[r] \in {Decided(usage[r], "committed"), Decided(usage[r], "refunded")}
        BY <1>0, <3>1, <3>7 DEF Commit, Refund
      <4>2. usage'[r].status \in {"committed", "refunded"}
        BY <1>0, <2>2, <4>1, DecidedRow
      <4> QED BY <2>2, <4>2
    <3> QED BY <1>4, <3>3, <3>4, <3>5, <3>6, <3>7 DEF Advance, ReserveCost
  <2> QED BY <2>1, <2>2
<1>5. ASSUME NEW r \in Requests, Abandon(r)
      PROVE  Goal
  BY <1>1, <1>5, OtherSteps
<1>6. ASSUME NEW u \in Users, Snapshot(u)
      PROVE  Goal
  <2>1. pc' = pc /\ call' = call /\ usage' = SettledRows(u)
    BY <1>6, OtherSteps
  <2> QED BY <1>1, <1>2, <2>1
<1>7. ASSUME UNCHANGED <<pc, call, usage>>
      PROVE  Goal
  BY <1>1, <1>7
<1>8. Goal
  BY <1>3, <1>4, <1>5, <1>6, <1>7, OtherSteps DEF Next, Step
<1> QED BY <1>8 DEF Goal

(* The costs of calls are typed, now and in the next state. *)
LEMMA CostColumn ==
  ASSUME Inv, Inv'
  PROVE  CostOf \in [Requests -> Nat] /\ CostOf' \in [Requests -> Nat]
<1>1. \A c \in Calls \cup {NoCall} : (IF c = NoCall THEN 0 ELSE Policy[c.flow].cost) \in Nat
  BY PolicyAssumption DEF Calls, FlowPolicy
<1>2. call \in [Requests -> Calls \cup {NoCall}] /\ call' \in [Requests -> Calls \cup {NoCall}]
  BY DEF Inv, TypeOK
<1> QED BY <1>1, <1>2 DEF CostOf

(* Calls that give their cost back and a call that takes one up move what the estimate must hold. *)
LEMMA TiedMoved ==
  ASSUME Inv, Inv', NEW L, NEW G,
         \A q \in Requests : q \in Tied' <=> (q \in Tied /\ q \notin L) \/ q \in G,
         \A q \in Requests : q \in L => q \in Tied,
         \A q \in Requests : q \in G => q \notin Tied,
         \A q \in Tied : call'[q] = call[q]
  PROVE  /\ SumOver(Tied, CostOf)' + SumOver(L, CostOf) = SumOver(Tied, CostOf) + SumOver(G, CostOf')
         /\ SumOver(Tied, CostOf) \in Nat /\ SumOver(Tied, CostOf)' \in Nat
<1>1. CostOf \in [Requests -> Nat] /\ CostOf' \in [Requests -> Nat]
  BY CostColumn
<1>2. \A q \in Requests : q \in Tied /\ q \notin L => CostOf'[q] = CostOf[q]
  BY DEF CostOf
<1>3. SumOver(Tied, CostOf)' = SumOver(Tied', CostOf')
  BY DEF SumOver
<1>4. SumOver(Tied', CostOf') + SumOver(L, CostOf) = SumOver(Tied, CostOf) + SumOver(G, CostOf')
  BY <1>1, <1>2, SumMoved
<1>5. SumOver(Tied, CostOf) \in Nat /\ SumOver(Tied', CostOf') \in Nat
  BY <1>1, SumNat
<1> QED BY <1>3, <1>4, <1>5

(* A step that changes neither the calls that the estimate holds nor the costs keeps it covered. *)
LEMMA TiedSame ==
  ASSUME Inv, Inv', Covered, actual' = actual, estimated' = estimated, 0 \in Months,
         \A q \in Requests : q \in Tied' <=> q \in Tied,
         \A q \in Tied : call'[q] = call[q]
  PROVE  Covered'
<1> DEFINE none == {}
<1>1. \A q \in Requests : q \notin none
  OBVIOUS
<1>2. SumOver(none, CostOf) = 0 /\ SumOver(none, CostOf') = 0
  BY CostColumn, SumNone
<1> HIDE DEF none
<1>3. /\ SumOver(Tied, CostOf)' + SumOver(none, CostOf) = SumOver(Tied, CostOf) + SumOver(none, CostOf')
      /\ SumOver(Tied, CostOf) \in Nat /\ SumOver(Tied, CostOf)' \in Nat
  BY <1>1, TiedMoved
<1>4. SumOver(Tied, CostOf)' = SumOver(Tied, CostOf)
  BY <1>2, <1>3
<1> QED BY <1>4 DEF Covered

(* Expiry releases what the estimate held for the calls it refunds, and no more. *)
LEMMA SettleCovered ==
  ASSUME Inv, Inv', Prompt, CostRows, Covered, Months = {0}, NEW u \in Users,
         actual' = actual, estimated' = SettledCosts(u), now' = now,
         \A q \in Requests : (q \in Tied \/ q \in Tied') =>
           /\ pc'[q] = pc[q] /\ reply'[q] = reply[q] /\ call'[q] = call[q]
           /\ usage'[q] = SettledRows(u)[q]
  PROVE  Covered'
<1> DEFINE L == {q \in Stale(u) : usage[q].provider = "cost_reserved" /\ MonthOf(usage[q].created) = 0}
           none == {}
           costs == [q \in Requests |-> usage[q].cost]
<1>0. usage \in [Requests -> Row] /\ estimated \in [Months -> Nat] /\ actual \in [Months -> Nat]
      /\ now \in 0..MaxTime
  BY DEF Inv, TypeOK
<1>1. \A q \in Stale(u) : /\ q \in Requests /\ usage[q].status = "reserved"
                          /\ ~ InProgress(q) /\ usage[q].created \in 0..now
  <2>1. \A q \in Stale(u) : q \in Requests /\ usage[q].status = "reserved" /\ usage[q].created < now - ReservationTTL
    BY DEF Stale, RowsOf
  <2>2. \A q \in Stale(u) : usage[q].created \in Nat
    BY <1>0, <2>1, RowNumbers
  <2>3. \A q \in Stale(u) : usage[q].created \in 0..now
    BY <1>0, <2>1, <2>2, CountsAssumption
  <2> QED BY <2>1, <2>3, PromptKept
<1>2. \A q \in Stale(u) : MonthOf(usage[q].created) = 0
  <2>1. \A t \in 0..now : t \in 0..MaxTime
    BY <1>0, CountsAssumption
  <2>2. \A t \in 0..MaxTime : DayOf(t) \in Days
    BY DEF DayOf, Days
  <2>3. \A d \in Days : d \div MonthDays \in Months
    BY DEF Months
  <2>4. \A t \in 0..now : MonthOf(t) \in Months
    BY <2>1, <2>2, <2>3 DEF MonthOf
  <2> QED BY <1>1, <2>4
<1>3. \A q \in Requests : q \in L <=> q \in Stale(u) /\ pc[q] = "start"
  BY <1>1, <1>2 DEF CostRows
<1>4. \A q \in L : q \in Tied /\ usage[q].cost = CostOf[q]
  <2>1. \A q \in L : q \in Requests /\ usage[q].status = "reserved" /\ pc[q] = "start"
    BY <1>1, <1>3
  <2>2. \A q \in L : q \in Tied /\ usage[q].cost = Policy[call[q].flow].cost
    BY <2>1 DEF CostRows, Tied
  <2>3. \A q \in L : call[q] # NoCall
    BY <2>1, CountsAssumption DEF Inv, Rows
  <2> QED BY <2>1, <2>2, <2>3 DEF CostOf
<1>5. \A q \in Requests : q \in Tied' <=> (q \in Tied /\ q \notin L) \/ q \in none
  <2> SUFFICES ASSUME NEW q \in Requests
               PROVE  q \in Tied' <=> (q \in Tied /\ q \notin L)
    OBVIOUS
  <2>1. q \in Tied' <=> pc'[q] = "provider" \/ (pc'[q] = "start" /\ (InProgress(q)' \/ usage'[q].status = "reserved"))
    BY DEF Tied
  <2>2. q \in Tied <=> pc[q] = "provider" \/ (pc[q] = "start" /\ (InProgress(q) \/ usage[q].status = "reserved"))
    BY DEF Tied
  <2>3. ASSUME q \in Tied \/ q \in Tied'
        PROVE  pc'[q] = pc[q] /\ (InProgress(q)' <=> InProgress(q)) /\ usage'[q] = SettledRows(u)[q]
    BY <2>3 DEF InProgress
  <2>4. CASE q \in Stale(u)
    <3>1. SettledRows(u)[q].status = "refunded" /\ ~ InProgress(q) /\ usage[q].status = "reserved"
      BY <1>0, <1>1, <2>4, DecidedRow DEF SettledRows, Expired
    <3>2. q \in L <=> pc[q] = "start"
      BY <1>3, <2>4
    <3> HIDE DEF L
    <3> QED BY <2>1, <2>2, <2>3, <3>1, <3>2
  <2>5. CASE q \notin Stale(u)
    <3>1. SettledRows(u)[q] = usage[q] /\ q \notin L
      BY <1>3, <2>5 DEF SettledRows
    <3> HIDE DEF L
    <3> QED BY <2>1, <2>2, <2>3, <3>1
  <2> QED BY <2>4, <2>5
<1>6. StaleCost(u, 0) = SumOver(L, CostOf)
  <2>1. StaleCost(u, 0) = SumOver(L, costs)
    BY DEF StaleCost
  <2>2. \A q \in Requests : (q \in L <=> q \in L) /\ (q \in L => costs[q] = CostOf[q])
    BY <1>4
  <2>3. SumOver(L, costs) = SumOver(L, CostOf)
    <3> HIDE DEF L, costs
    <3> QED BY <2>2, SumSame
  <2> QED BY <2>1, <2>3
<1>7. SumOver(none, CostOf') = 0 /\ \A q \in Requests : q \notin none
  BY CostColumn, SumNone
<1>8. \A q \in Tied : call'[q] = call[q]
  BY DEF Tied
<1> HIDE DEF L, none, costs
<1>9. /\ SumOver(Tied, CostOf)' + SumOver(L, CostOf) = SumOver(Tied, CostOf) + SumOver(none, CostOf')
      /\ SumOver(Tied, CostOf) \in Nat /\ SumOver(Tied, CostOf)' \in Nat
  BY <1>4, <1>5, <1>7, <1>8, TiedMoved
<1>10. SumOver(L, CostOf) \in Nat
  BY CostColumn, SumNat
<1>11. estimated'[0] = Floor0(estimated[0] - SumOver(L, CostOf)) /\ actual'[0] = actual[0]
  BY <1>6 DEF SettledCosts
<1>12. estimated[0] \in Nat /\ actual[0] \in Nat /\ MonthlyBudget \in Nat
  BY <1>0, CountsAssumption
<1>13. /\ estimated[0] <= MonthlyBudget
       /\ actual[0] + SumOver(Tied, CostOf) <= estimated[0]
  BY DEF Covered
<1>14. estimated'[0] = estimated[0] - SumOver(L, CostOf)
  BY <1>7, <1>9, <1>10, <1>11, <1>12, <1>13 DEF Floor0
<1> QED BY <1>7, <1>9, <1>10, <1>11, <1>12, <1>13, <1>14 DEF Covered

(* Within a month, the estimate holds what was spent and what calls may still cost. *)
LEMMA CoveredStep ==
  ASSUME Inv, Inv', Prompt, CostRows, Covered, Months = {0}, [Next]_vars
  PROVE  Covered'
<1>0. /\ pc \in [Requests -> Steps] /\ reply \in [Requests -> Replies] /\ usage \in [Requests -> Row]
      /\ period \in [Requests -> Months] /\ estimated \in [Months -> Nat] /\ actual \in [Months -> Nat]
      /\ 0 \in Months /\ MonthlyBudget \in Nat
  BY CountsAssumption DEF Inv, TypeOK
<1>1. \A q \in Tied : q \in Requests /\ pc[q] \in {"start", "provider"}
  BY DEF Tied
<1>2. ASSUME UNCHANGED <<pc, reply, call, usage, actual, estimated>>
      PROVE  Covered'
  <2>1. \A q \in Requests : q \in Tied' <=> q \in Tied
    BY <1>2 DEF Tied, InProgress
  <2> QED BY <1>0, <1>2, <2>1, TiedSame
<1>3. ASSUME NEW r \in Requests, NEW u \in Users, NEW k \in Keys, NEW f \in Flows,
             Reserve(r, u, k, f)
      PROVE  Covered'
  <2>1. estimated' = SettledCosts(u) /\ actual' = actual /\ now' = now
    BY <1>3 DEF Reserve, ReserveDuplicate, ReserveRefused, ReserveAdmitted, SettleSigned, Settle, SettleEnergy
  <2>2. r \notin Tied
    <3>1. pc[r] = "new"
      BY <1>3, ReserveOwn
    <3> QED BY <1>1, <3>1
  <2>3. r \notin Tied'
    <3>1. pc'[r] \in {"done", "cost"}
      <4>1. ReserveAdmitted(r, u, k, f) => pc'[r] = "cost"
        BY <1>0 DEF ReserveAdmitted, Answer
      <4>2. ~ ReserveAdmitted(r, u, k, f) => pc'[r] = "done"
        BY <1>3, ReserveOwn
      <4> QED BY <4>1, <4>2
    <3> QED BY <3>1 DEF Tied
  <2>4. \A q \in Requests : (q \in Tied \/ q \in Tied') =>
           /\ pc'[q] = pc[q] /\ reply'[q] = reply[q] /\ call'[q] = call[q]
           /\ usage'[q] = SettledRows(u)[q]
    BY <1>3, <2>2, <2>3, ReserveOthers
  <2> QED BY <2>1, <2>4, SettleCovered
<1>4. ASSUME NEW u \in Users, Snapshot(u)
      PROVE  Covered'
  <2>1. estimated' = SettledCosts(u) /\ actual' = actual /\ now' = now
    BY <1>4 DEF Snapshot, SettleSigned, Settle, SettleEnergy
  <2>2. UNCHANGED <<pc, call, reply>> /\ usage' = SettledRows(u)
    BY <1>4, OtherSteps
  <2> QED BY <2>1, <2>2, SettleCovered
<1>5. ASSUME NEW r \in Requests, Abandon(r)
      PROVE  Covered'
  <2>1. /\ InProgress(r) /\ UNCHANGED <<now, pc, call, usage>> /\ reply'[r] = "lost"
        /\ \A q \in Requests \ {r} : reply'[q] = reply[q]
    BY <1>5, OtherSteps
  <2>2. estimated' = estimated /\ actual' = actual
    BY <1>5 DEF Abandon, costVars
  <2>3. usage[r].status = "reserved"
    BY <2>1 DEF Prompt
  <2>4. \A q \in Requests : q \in Tied' <=> q \in Tied
    BY <2>1, <2>3 DEF Tied, InProgress
  <2> QED BY <1>0, <2>1, <2>2, <2>4, TiedSame
<1>6. ASSUME NEW r \in Requests, Advance(r)
      PROVE  Covered'
  <2>0. /\ InProgress(r) /\ usage[r].status = "reserved" /\ call' = call /\ now' = now
        /\ \A q \in Requests \ {r} : usage'[q] = usage[q] /\ pc'[q] = pc[q] /\ reply'[q] = reply[q]
    BY <1>6, AdvanceRows DEF Advance, Prompt
  <2>1. \A q \in Requests \ {r} : q \in Tied' <=> q \in Tied
    BY <2>0 DEF Tied, InProgress
  <2>2. r \in Tied <=> pc[r] \in {"start", "provider"}
    BY <2>0 DEF Tied
  <2>3. CASE RefuseCost(r) /\ ReserveCost(r)
    <3>1. pc[r] = "cost" /\ pc'[r] = "refund" /\ estimated' = estimated /\ actual' = actual
      BY <1>0, <2>3 DEF ReserveCost, RefuseCost, Answer, costVars
    <3>2. r \notin Tied /\ r \notin Tied'
      BY <2>2, <3>1 DEF Tied
    <3> QED BY <1>0, <2>0, <2>1, <3>1, <3>2, TiedSame
  <2>4. CASE MarkStarted(r)
    <3>1. pc[r] = "start" /\ pc'[r] = "provider" /\ estimated' = estimated /\ actual' = actual
      BY <1>0, <2>4 DEF MarkStarted, costVars
    <3>2. r \in Tied /\ r \in Tied'
      BY <2>2, <3>1 DEF Tied
    <3> QED BY <1>0, <2>0, <2>1, <3>1, <3>2, TiedSame
  <2>5. CASE Commit(r) \/ Refund(r)
    <3>1. pc[r] \in {"commit", "refund"} /\ pc'[r] = "done" /\ estimated' = estimated /\ actual' = actual
      BY <1>0, <2>5 DEF Commit, Refund, Answer, costVars
    <3>2. r \notin Tied /\ r \notin Tied'
      BY <2>2, <3>1 DEF Tied
    <3> QED BY <1>0, <2>0, <2>1, <3>1, <3>2, TiedSame
  <2>6. PICK c \in Nat : c = Policy[call[r].flow].cost /\ CostOf[r] = c /\ CostOf'[r] = c
    <3>1. call[r] # NoCall /\ Policy[call[r].flow].cost \in Nat
      BY <2>0, Started, CountsAssumption
    <3> QED BY <2>0, <3>1 DEF CostOf
  <2>7. SumOver({r}, CostOf) = c /\ SumOver({r}, CostOf') = c
    BY <2>6, CostColumn, SumOne
  <2>8. \A q \in Tied : call'[q] = call[q]
    BY <2>0
  <2> DEFINE none == {}
             one == {r}
  <2>9. /\ SumOver(none, CostOf) = 0 /\ SumOver(none, CostOf') = 0
        /\ SumOver(one, CostOf) = c /\ SumOver(one, CostOf') = c
        /\ \A q \in Requests : q \notin none /\ (q \in one <=> q = r)
    BY <2>7, CostColumn, SumNone
  <2>10. period[r] = 0
    BY <1>0
  <2> HIDE DEF none, one
  <2>11. CASE TakeCost(r) /\ ReserveCost(r)
    <3>1. pc[r] = "cost" /\ pc'[r] = "start" /\ reply'[r] = "none" /\ actual' = actual
      BY <1>0, <2>11 DEF ReserveCost, TakeCost, Answer
    <3>2. MonthOf(now) = 0
      <4>1. now \in 0..MaxTime
        BY DEF Inv, TypeOK
      <4>2. DayOf(now) \in Days
        BY <4>1 DEF DayOf, Days
      <4> QED BY <4>2 DEF Months, MonthOf
    <3>3. estimated' = [estimated EXCEPT ![0] = estimated[0] + c] /\ ~ CostBlocked(r)
      BY <2>6, <2>11, <3>2 DEF TakeCost
    <3>4. estimated[0] + c <= MonthlyBudget
      <4>1. ~ (estimated[0] + c > MonthlyBudget)
        BY <2>6, <3>2, <3>3 DEF CostBlocked
      <4> QED BY <1>0, <2>6, <4>1
    <3>5. r \notin Tied /\ r \in Tied'
      BY <2>2, <3>1 DEF Tied, InProgress
    <3>6. \A q \in Requests : q \in Tied' <=> (q \in Tied /\ q \notin none) \/ q \in one
      BY <2>1, <2>9, <3>5
    <3>7. /\ SumOver(Tied, CostOf)' + SumOver(none, CostOf) = SumOver(Tied, CostOf) + SumOver(one, CostOf')
          /\ SumOver(Tied, CostOf) \in Nat /\ SumOver(Tied, CostOf)' \in Nat
      BY <2>8, <2>9, <3>5, <3>6, TiedMoved
    <3>8. estimated'[0] = estimated[0] + c /\ estimated[0] \in Nat /\ actual[0] \in Nat
      BY <1>0, <3>3
    <3> QED BY <1>0, <2>6, <2>9, <3>1, <3>4, <3>7, <3>8 DEF Covered
  <2>12. CASE SettleCost(r)
    <3>1. pc[r] = "provider" /\ pc'[r] \in {"commit", "refund"}
      BY <1>0, <2>12 DEF SettleCost, Answer
    <3>2. PICK cost \in 0..c, measured \in BOOLEAN :
            /\ actual' = [actual EXCEPT ![0] = actual[0] + cost]
            /\ estimated' = IF measured THEN [estimated EXCEPT ![0] = Floor0(estimated[0] - c + cost)] ELSE estimated
      BY <2>6, <2>10, <2>12 DEF SettleCost
    <3>3. r \in Tied /\ r \notin Tied'
      BY <2>2, <3>1 DEF Tied
    <3>4. \A q \in Requests : q \in Tied' <=> (q \in Tied /\ q \notin one) \/ q \in none
      BY <2>1, <2>9, <3>3
    <3>5. /\ SumOver(Tied, CostOf)' + SumOver(one, CostOf) = SumOver(Tied, CostOf) + SumOver(none, CostOf')
          /\ SumOver(Tied, CostOf) \in Nat /\ SumOver(Tied, CostOf)' \in Nat
      BY <2>8, <2>9, <3>3, <3>4, TiedMoved
    <3>6. /\ estimated[0] \in Nat /\ actual[0] \in Nat /\ cost \in Nat /\ cost <= c
          /\ actual'[0] = actual[0] + cost
      BY <1>0, <2>6, <3>2
    <3>7. estimated'[0] = IF measured THEN Floor0(estimated[0] - c + cost) ELSE estimated[0]
      BY <1>0, <3>2
    <3>8. /\ estimated[0] <= MonthlyBudget
          /\ actual[0] + SumOver(Tied, CostOf) <= estimated[0]
      BY DEF Covered
    <3>9. estimated'[0] \in {estimated[0], estimated[0] - c + cost}
      BY <2>6, <2>9, <3>5, <3>6, <3>7, <3>8 DEF Floor0
    <3> QED BY <1>0, <2>6, <2>9, <3>5, <3>6, <3>8, <3>9 DEF Covered
  <2> QED BY <1>6, <2>3, <2>4, <2>5, <2>11, <2>12 DEF Advance, ReserveCost
<1>7. Tick => UNCHANGED <<pc, reply, call, usage, actual, estimated>>
  BY DEF Tick, requestVars, costVars
<1>8. \A u \in Users : GrantFirstCharacter(u) => UNCHANGED <<pc, reply, call, usage, actual, estimated>>
  BY DEF GrantFirstCharacter, requestVars, costVars
<1>9. UNCHANGED vars => UNCHANGED <<pc, reply, call, usage, actual, estimated>>
  BY DEF vars, requestVars, costVars
<1> QED BY <1>2, <1>3, <1>4, <1>5, <1>6, <1>7, <1>8, <1>9 DEF Next, Step

(* What the estimate covers includes every call that has the provider's attention. *)
LEMMA CoveredMeans ==
  ASSUME Inv, Covered, Months = {0}
  PROVE  CostCovered
<1> DEFINE S == {r \in Requests : (pc[r] = "provider" \/ (pc[r] = "start" /\ InProgress(r))) /\ period[r] = 0}
           L == {r \in Requests : r \in Tied /\ r \notin S}
<1>1. CostOf \in [Requests -> Nat]
  <2>1. \A c \in Calls \cup {NoCall} : (IF c = NoCall THEN 0 ELSE Policy[c.flow].cost) \in Nat
    BY PolicyAssumption DEF Calls, FlowPolicy
  <2> QED BY <2>1 DEF CostOf, Inv, TypeOK
<1>2. \A q \in Requests : /\ q \in Tied <=> q \in S \/ q \in L
                          /\ ~ (q \in S /\ q \in L)
  BY DEF Tied
<1>3. Outstanding(0) = SumOver(S, CostOf)
  BY DEF Outstanding, CostOf
<1> HIDE DEF S, L
<1>4. SumOver(Tied, CostOf) = SumOver(S, CostOf) + SumOver(L, CostOf)
  BY <1>1, <1>2, SumSplit
<1>5. SumOver(S, CostOf) \in Nat /\ SumOver(L, CostOf) \in Nat
  BY <1>1, SumNat
<1>6. actual[0] \in Nat /\ estimated[0] \in Nat /\ MonthlyBudget \in Nat
  BY CountsAssumption DEF Inv, TypeOK
<1>7. estimated[0] <= MonthlyBudget /\ actual[0] + Outstanding(0) <= estimated[0]
  BY <1>3, <1>4, <1>5, <1>6 DEF Covered
<1> QED BY <1>7 DEF CostCovered

(* The limits hold for every number of users, requests, days and flows: no day *)
(* passes its hard or free limit, a waived use is not repeated, and, when no   *)
(* request outlives its reservation, answers agree with charges and a month's  *)
(* estimate stays within the budget and above what may still be spent.         *)
THEOREM LimitsHold == Spec => []LimitsKept
<1>1. Init => HardLimitKept /\ FreeLimitKept /\ IntroFreeOnce
  <2> SUFFICES ASSUME Init
               PROVE  HardLimitKept /\ FreeLimitKept /\ IntroFreeOnce
    OBVIOUS
  <2>1. \A r \in Requests : usage[r].status = "none"
    BY DEF Init, NoRow
  <2>2. \A u \in Users, f \in Flows : FlowRows(u, f) = {}
    BY <2>1 DEF FlowRows, RowsOf
  <2>3. \A u \in Users, f \in Flows, d \in Days : UsedOn(u, f, d) = {} /\ FreeOn(u, f, d) = {}
    BY <2>2 DEF UsedOn, FreeOn, Live
  <2>4. \A u \in Users, f \in Flows : WaivedOf(u, f) = {}
    BY <2>2 DEF WaivedOf, Live
  <2>5. Cardinality({}) = 0
    BY FS_EmptySet
  <2>6. \A f \in Flows : Policy[f].freeLimit \in Nat /\ Policy[f].hardLimit \in Nat /\ Policy[f].introFree \in Nat
    BY PolicyAssumption DEF FlowPolicy
  <2>7. HardLimitKept
    BY <2>3, <2>5, <2>6 DEF HardLimitKept
  <2>8. FreeLimitKept
    BY <2>3, <2>5, <2>6 DEF FreeLimitKept, FreeOn
  <2>9. IntroFreeOnce
    BY <2>4, <2>5, <2>6 DEF IntroFreeOnce, WaivedOf
  <2> QED BY <2>7, <2>8, <2>9
<1>2. Init => Prompt /\ Answered /\ ReplyHonest /\ CostRows
  <2> SUFFICES ASSUME Init
               PROVE  Prompt /\ Answered /\ ReplyHonest /\ CostRows
    OBVIOUS
  <2>1. \A r \in Requests : pc[r] = "new" /\ reply[r] = "none" /\ usage[r].status = "none"
    BY DEF Init, NoRow
  <2> QED BY <2>1 DEF Prompt, Answered, ReplyHonest, CostRows, InProgress
<1>3. Init /\ Months = {0} => Covered
  <2> SUFFICES ASSUME Init, Months = {0}
               PROVE  Covered
    OBVIOUS
  <2>1. \A q \in Requests : q \in Tied <=> q \in {}
    BY DEF Init, Tied
  <2>2. CostOf \in [Requests -> Nat]
    BY DEF Init, CostOf
  <2>3. SumOver(Tied, CostOf) = SumOver({}, CostOf)
    BY <2>1, SumSame
  <2>4. SumOver({}, CostOf) = 0
    BY <2>2, SumNone
  <2>5. estimated[0] = 0 /\ actual[0] = 0 /\ MonthlyBudget \in Nat
    BY CountsAssumption DEF Init
  <2> QED BY <2>3, <2>4, <2>5 DEF Covered
<1> DEFINE Kept == HardLimitKept /\ FreeLimitKept /\ IntroFreeOnce
           Timely == Punctual => Prompt /\ Answered /\ ReplyHonest /\ CostRows
           Budgeted == Punctual /\ Months = {0} => Covered
<1>4. Init => Kept /\ Timely /\ Budgeted
  BY <1>1, <1>2, <1>3
<1>5. Inv /\ [Next]_vars => Inv'
  BY NextInv
<1>6. ASSUME Inv, Inv', Kept, [Next]_vars
      PROVE  Kept'
  BY <1>6, HardLimitStep, FreeLimitStep, IntroFreeStep
<1>7. ASSUME Inv, Inv', Timely, [Next]_vars
      PROVE  Timely'
  BY <1>7, PromptStep, AnsweredStep, ReplyStep, CostRowsStep
<1>8. ASSUME Inv, Inv', Timely, Budgeted, [Next]_vars
      PROVE  Budgeted'
  BY <1>8, CoveredStep DEF Months, Days
<1>9. Inv /\ Kept /\ Timely /\ Budgeted => LimitsKept
  BY CoveredMeans DEF LimitsKept
<1> HIDE DEF Kept, Timely, Budgeted
<1>10. Inv /\ Inv' /\ Kept /\ Timely /\ Budgeted /\ [Next]_vars => Kept' /\ Timely' /\ Budgeted'
  BY <1>6, <1>7, <1>8
<1> QED BY <1>4, <1>5, <1>9, <1>10, InitInv, InvHolds, PTL DEF Spec

-----------------------------------------------------------------------------
(* A user's idempotency key is charged once, for an amount that never changes, *)
(* and decided once.                                                           *)
(* The part of a row that its key's charge shows.                             *)
Shown(q) == [status |-> usage[q].status, credits |-> usage[q].credits, energy |-> usage[q].energy]
Nothing == [status |-> "none", credits |-> 0, energy |-> 0]

(* The charge of a key is what its only row shows. *)
LEMMA ChargeShown ==
  ASSUME OneUsagePerKey, NEW u \in Users, NEW k \in Keys
  PROVE  /\ \A q \in Requests :
              usage[q].status # "none" /\ call[q].user = u /\ call[q].key = k
                => ChargeOf(u, k) = Shown(q)
         /\ (\A q \in Requests : ~ (usage[q].status # "none" /\ call[q].user = u /\ call[q].key = k))
              => ChargeOf(u, k) = Nothing
<1>1. ASSUME NEW q \in Requests, usage[q].status # "none", call[q].user = u, call[q].key = k
      PROVE  ChargeOf(u, k) = Shown(q)
  <2>1. q \in Existing(u, k)
    BY <1>1 DEF Existing, RowsOf
  <2>2. \A p \in Existing(u, k) : p = q
    BY <1>1 DEF Existing, RowsOf, OneUsagePerKey
  <2>3. (CHOOSE p \in Existing(u, k) : TRUE) = q
    BY <2>1, <2>2
  <2> QED BY <2>1, <2>3 DEF ChargeOf, Shown
<1>2. ASSUME \A q \in Requests : ~ (usage[q].status # "none" /\ call[q].user = u /\ call[q].key = k)
      PROVE  ChargeOf(u, k) = Nothing
  <2>1. Existing(u, k) = {}
    BY <1>2 DEF Existing, RowsOf
  <2> QED BY <2>1 DEF ChargeOf, Nothing
<1> QED BY <1>1, <1>2

(* The same in the next state. *)
LEMMA ChargeShownNext ==
  ASSUME OneUsagePerKey', NEW u \in Users, NEW k \in Keys
  PROVE  /\ \A q \in Requests :
              usage'[q].status # "none" /\ call'[q].user = u /\ call'[q].key = k
                => ChargeOf(u, k)' = Shown(q)'
         /\ (\A q \in Requests : ~ (usage'[q].status # "none" /\ call'[q].user = u /\ call'[q].key = k))
              => ChargeOf(u, k)' = Nothing
<1>1. ASSUME NEW q \in Requests, usage'[q].status # "none", call'[q].user = u, call'[q].key = k
      PROVE  ChargeOf(u, k)' = Shown(q)'
  <2>1. q \in Existing(u, k)'
    BY <1>1 DEF Existing, RowsOf
  <2>2. \A p \in Existing(u, k)' : p = q
    BY <1>1 DEF Existing, RowsOf, OneUsagePerKey
  <2>3. (CHOOSE p \in Existing(u, k)' : TRUE) = q
    BY <2>1, <2>2
  <2> QED BY <2>1, <2>3 DEF ChargeOf, Shown
<1>2. ASSUME \A q \in Requests : ~ (usage'[q].status # "none" /\ call'[q].user = u /\ call'[q].key = k)
      PROVE  ChargeOf(u, k)' = Nothing
  <2>1. Existing(u, k)' = {}
    BY <1>2 DEF Existing, RowsOf
  <2> QED BY <2>1 DEF ChargeOf, Nothing
<1> QED BY <1>1, <1>2

(* A step inserts and decides rows of one user only. *)
Owns(u) == \A q \in Requests : usage'[q].status # usage[q].status => call'[q].user = u

(* Every transaction works on the rows of the user whose account it locked.    *)
LEMMA OneOwner ==
  ASSUME Inv, [Next]_vars, Users # {}
  PROVE  \E u \in Users : Owns(u)
<1>1. ASSUME NEW u \in Users, NEW r \in Requests, call'[r].user = u,
             \A q \in Requests \ {r} : usage'[q] = SettledRows(u)[q],
             \A q \in Requests \ {r} : call'[q] = call[q]
      PROVE  Owns(u)
  BY <1>1 DEF Owns, SettledRows, Stale, RowsOf
<1>2. ASSUME NEW r \in Requests, NEW u \in Users, NEW k \in Keys, NEW f \in Flows, Reserve(r, u, k, f)
      PROVE  Owns(u)
  <2>1. \A q \in Requests \ {r} : usage'[q] = SettledRows(u)[q]
    BY <1>2, Settled DEF Reserve, ReserveDuplicate, ReserveRefused, ReserveAdmitted, SettleSigned, Settle
  <2>2. Arrives(r, u, k, f)
    BY <1>2 DEF Reserve, ReserveDuplicate, ReserveRefused, ReserveAdmitted
  <2>3. call'[r].user = u /\ \A q \in Requests \ {r} : call'[q] = call[q]
    BY <2>2 DEF Arrives, Inv, TypeOK
  <2> QED BY <1>1, <2>1, <2>3
<1>3. ASSUME NEW u \in Users, Snapshot(u)
      PROVE  Owns(u)
  BY <1>3 DEF Owns, Snapshot, SettleSigned, Settle, SettledRows, Stale, RowsOf, requestVars
<1>4. ASSUME NEW r \in Requests, Advance(r)
      PROVE  call[r].user \in Users /\ Owns(call[r].user)
  <2>1. call[r].user \in Users
    BY <1>4, Started DEF Advance
  <2>2. usage \in [Requests -> Row]
    BY DEF Inv, TypeOK
  <2>3. usage' = usage \/ \E row : usage' = [usage EXCEPT ![r] = row]
    BY <1>4 DEF Advance, ReserveCost, RefuseCost, TakeCost, MarkStarted, SettleCost, Commit, Refund
  <2>4. call' = call
    BY <1>4 DEF Advance, ReserveCost, MarkStarted, SettleCost, Commit, Refund
  <2>5. \A q \in Requests \ {r} : usage'[q] = usage[q]
    BY <2>2, <2>3
  <2> QED BY <2>1, <2>4, <2>5 DEF Owns
<1>5. ASSUME usage' = usage
      PROVE  \E u \in Users : Owns(u)
  BY <1>5 DEF Owns
<1>6. \A r \in Requests : Abandon(r) => usage' = usage
  BY DEF Abandon
<1>7. \A u \in Users : GrantFirstCharacter(u) => usage' = usage
  BY DEF GrantFirstCharacter
<1>8. Tick \/ UNCHANGED vars => usage' = usage
  BY DEF Tick, vars
<1> QED BY <1>2, <1>3, <1>4, <1>5, <1>6, <1>7, <1>8 DEF Next, Step

(* A row that was there shows the same charge, or its decision.               *)
LEMMA ShownKept ==
  ASSUME NEW q \in Requests, Keeps(q)
  PROVE  Shown(q)' = Shown(q) \/ Abstract!Decide(Shown(q), Shown(q)')
<1>1. /\ Shown(q)' = [status |-> usage'[q].status, credits |-> usage[q].credits,
                      energy |-> usage[q].energy]
      /\ Shown(q) = [status |-> usage[q].status, credits |-> usage[q].credits,
                     energy |-> usage[q].energy]
  BY DEF Keeps, SameAmounts, Shown
<1> QED BY <1>1 DEF Keeps, Abstract!Decide

(* A key's charge stays, is held by the row just inserted, or is decided.     *)
LEMMA ChargeStep ==
  ASSUME Inv, OneUsagePerKey, OneUsagePerKey', [Next]_vars, NEW v \in Users, NEW k \in Keys
  PROVE  /\ \/ ChargeOf(v, k)' = ChargeOf(v, k)
            \/ Abstract!Hold(ChargeOf(v, k), ChargeOf(v, k)')
            \/ Abstract!Decide(ChargeOf(v, k), ChargeOf(v, k)')
         /\ \A u \in Users \ {v} : Owns(u) => ChargeOf(v, k)' = ChargeOf(v, k)
<1>1. ASSUME NEW q \in Requests, Keeps(q),
             usage[q].status # "none", call[q].user = v, call[q].key = k
      PROVE  /\ ChargeOf(v, k)' = ChargeOf(v, k) \/ Abstract!Decide(ChargeOf(v, k), ChargeOf(v, k)')
             /\ \A u \in Users \ {v} : Owns(u) => ChargeOf(v, k)' = ChargeOf(v, k)
  <2>1. usage'[q].status # "none" /\ call'[q] = call[q]
    BY <1>1 DEF Keeps
  <2>2. ChargeOf(v, k) = Shown(q) /\ ChargeOf(v, k)' = Shown(q)'
    BY <1>1, <2>1, ChargeShown, ChargeShownNext
  <2>3. \A u \in Users \ {v} : Owns(u) => Shown(q)' = Shown(q)
    BY <1>1, <2>1 DEF Owns, Keeps, SameAmounts, Shown
  <2> QED BY <1>1, <2>2, <2>3, ShownKept
<1>2. ASSUME \A q \in Requests : ~ (usage[q].status # "none" /\ call[q].user = v /\ call[q].key = k),
             \A q \in Requests : Keeps(q)
      PROVE  ChargeOf(v, k)' = ChargeOf(v, k)
  <2>1. \A q \in Requests : ~ (usage'[q].status # "none" /\ call'[q].user = v /\ call'[q].key = k)
    BY <1>2 DEF Keeps
  <2> QED BY <1>2, <2>1, ChargeShown, ChargeShownNext
<1>3. ASSUME \A q \in Requests : ~ (usage[q].status # "none" /\ call[q].user = v /\ call[q].key = k),
             NEW r \in Requests, NEW u \in Users, NEW j \in Keys, NEW f \in Flows,
             ReserveAdmitted(r, u, j, f), \A q \in Requests \ {r} : Keeps(q)
      PROVE  /\ ChargeOf(v, k)' = ChargeOf(v, k) \/ Abstract!Hold(ChargeOf(v, k), ChargeOf(v, k)')
             /\ \A w \in Users \ {v} : Owns(w) => ChargeOf(v, k)' = ChargeOf(v, k)
  <2>1. ChargeOf(v, k) = Nothing
    BY <1>3, ChargeShown
  <2>2. /\ usage[r].status = "none" /\ call'[r].user = u /\ call'[r].key = j
        /\ usage'[r].status = "reserved"
    <3>1. Arrives(r, u, j, f) /\ Admissible(u, f) /\ usage' = [SettledRows(u) EXCEPT ![r] = NewRow(u, f)]
      BY <1>3 DEF ReserveAdmitted
    <3>2. usage[r].status = "none" /\ call'[r].user = u /\ call'[r].key = j
      BY <3>1, ArrivesTypes DEF Arrives, Inv, TypeOK
    <3> QED BY <3>1, <3>2, NewRowTypes, Settled
  <2>3. CASE v = u /\ k = j
    <3>1. ChargeOf(v, k)' = Shown(r)'
      BY <2>2, <2>3, ChargeShownNext
    <3>2. Shown(r)'.status = "reserved"
      BY <2>2 DEF Shown
    <3>3. \A w \in Users \ {v} : ~ Owns(w)
      BY <2>2, <2>3 DEF Owns
    <3> QED BY <2>1, <3>1, <3>2, <3>3 DEF Abstract!Hold, Abstract!Uncharged, Nothing
  <2>4. CASE ~ (v = u /\ k = j)
    <3>1. \A q \in Requests : ~ (usage'[q].status # "none" /\ call'[q].user = v /\ call'[q].key = k)
      BY <1>3, <2>2, <2>4 DEF Keeps
    <3> QED BY <2>1, <3>1, ChargeShownNext
  <2> QED BY <2>3, <2>4
<1>4. CASE \A q \in Requests : Keeps(q)
  BY <1>1, <1>2, <1>4
<1>5. ASSUME NEW r \in Requests, NEW u \in Users, NEW j \in Keys, NEW f \in Flows,
             ReserveAdmitted(r, u, j, f), \A q \in Requests \ {r} : Keeps(q)
      PROVE  /\ \/ ChargeOf(v, k)' = ChargeOf(v, k)
                \/ Abstract!Hold(ChargeOf(v, k), ChargeOf(v, k)')
                \/ Abstract!Decide(ChargeOf(v, k), ChargeOf(v, k)')
             /\ \A w \in Users \ {v} : Owns(w) => ChargeOf(v, k)' = ChargeOf(v, k)
  <2>1. usage[r].status = "none"
    BY <1>5, ArrivesTypes DEF ReserveAdmitted
  <2> QED BY <1>1, <1>3, <1>5, <2>1
<1> QED BY <1>4, <1>5, StepKeeps

(* Metering implements KeyedCharge: no interleaving of requests, retries,     *)
(* expiry and crashes charges a key twice, changes its amount or decides it   *)
(* again.                                                                     *)
THEOREM MeteringImplementsKeyedCharge == Spec => ChargesOnce
<1> DEFINE charges == [u \in Users |-> [k \in Keys |-> ChargeOf(u, k)]]
<1>1. Init => Abstract!Init
  <2> SUFFICES ASSUME Init PROVE \A u \in Users, k \in Keys : ChargeOf(u, k) = Abstract!Uncharged
    BY DEF Abstract!Init
  <2>1. \A q \in Requests : usage[q].status = "none"
    <3>1. NoRow.status = "none"
      BY DEF NoRow
    <3>2. usage = [q \in Requests |-> NoRow]
      BY DEF Init
    <3> QED BY <3>1, <3>2
  <2> QED BY <2>1 DEF ChargeOf, Existing, RowsOf, Abstract!Uncharged
<1>2. ASSUME Inv, OneUsagePerKey, OneUsagePerKey', [Next]_vars
      PROVE  Abstract!Next \/ charges' = charges
  <2>1. CASE Users = {}
    BY <2>1
  <2>2. CASE Users # {}
    <3>1. PICK u \in Users : Owns(u)
      BY <1>2, <2>2, OneOwner
    <3>2. \A v \in Users \ {u} : \A k \in Keys : ChargeOf(v, k)' = ChargeOf(v, k)
      BY <1>2, <3>1, ChargeStep
    <3>3. \A v \in Users \ {u} : charges'[v] = charges[v]
      BY <3>2
    <3>4. \A k \in Keys : \/ charges'[u][k] = charges[u][k]
                          \/ Abstract!Hold(charges[u][k], charges'[u][k])
                          \/ Abstract!Decide(charges[u][k], charges'[u][k])
      BY <1>2, ChargeStep
    <3> QED BY <3>3, <3>4 DEF Abstract!Next
  <2> QED BY <2>1, <2>2
<1>3. Inv /\ OneUsagePerKey /\ OneUsagePerKey' /\ [Next]_vars
        => [Abstract!Next]_[u \in Users |-> [k \in Keys |-> ChargeOf(u, k)]]
  BY <1>2
<1> QED BY <1>1, <1>3, InvHolds, KeysChargedOnce, PTL DEF Spec, ChargesOnce, Abstract!Spec
=============================================================================
