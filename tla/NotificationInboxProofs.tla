------------------------ MODULE NotificationInboxProofs ------------------------
(***************************************************************************)
(* Proofs about NotificationInbox for any messages, attempts and times.    *)
(* What is completed has been done, whatever the timing.  That one attempt *)
(* works on a notification at a time, and that nothing is marked by an     *)
(* attempt that was replaced, rests on Punctual: an attempt ends before    *)
(* its claim is stale.                                                     *)
(***************************************************************************)
EXTENDS NotificationInbox, TLAPS

Placed == \A a \in Attempts : Working(a) => attempt[a].message \in Messages

TypeInv == TypeOK /\ Placed

(* Each variable keeps its type. *)
LEMMA TypeInvHolds == Spec => []TypeInv
<1>1. Init => TypeInv
  BY InboxAssumption DEF Init, TypeInv, TypeOK, Placed, Working, Idle, Event, Attempt, Times
<1>2. TypeInv /\ [Next]_vars => TypeInv'
  <2> SUFFICES ASSUME TypeInv, [Next]_vars PROVE TypeInv'
    OBVIOUS
  <2> USE InboxAssumption DEF TypeInv, TypeOK, Placed, Working, Idle, Event, Attempt, Times
  <2>1. ASSUME NEW a \in Attempts, NEW m \in Messages, Deliver(a, m) PROVE TypeInv'
    BY <2>1 DEF Deliver
  <2>2. ASSUME NEW a \in Attempts, Apply(a) PROVE TypeInv'
    BY <2>2 DEF Apply
  <2>3. ASSUME NEW a \in Attempts, Complete(a) PROVE TypeInv'
    BY <2>3 DEF Complete
  <2>4. ASSUME NEW a \in Attempts, Fail(a) PROVE TypeInv'
    BY <2>4 DEF Fail
  <2>5. ASSUME NEW a \in Attempts, Crash(a) PROVE TypeInv'
    BY <2>5 DEF Crash
  <2>6. CASE Tick
    BY <2>6 DEF Tick
  <2>7. CASE UNCHANGED vars
    BY <2>7 DEF vars
  <2> QED
    BY <2>1, <2>2, <2>3, <2>4, <2>5, <2>6, <2>7 DEF Next, Proceed
<1> QED
  BY <1>1, <1>2, PTL DEF Spec

THEOREM TypeCorrect == Spec => []TypeOK
BY TypeInvHolds, PTL DEF TypeInv

-----------------------------------------------------------------------------
(* Completed means done: the strengthening says it of attempts about to mark the event. *)
Done == \A a \in Attempts : attempt[a].step = "complete" => attempt[a].message \in applied

(* An event is completed only after its work is committed: no order of deliveries, failures  *)
(* and crashes marks a notification whose work is not done.                                  *)
THEOREM CompletedAreApplied == Spec => []CompletedIsApplied
<1> DEFINE Inv == Done /\ CompletedIsApplied
<1>1. Init => Inv
  BY DEF Init, Done, CompletedIsApplied, Idle
<1>2. TypeInv /\ Inv /\ [Next]_vars => Inv'
  <2> SUFFICES ASSUME TypeInv, Inv, [Next]_vars PROVE Inv'
    OBVIOUS
  <2> USE DEF TypeInv, TypeOK, Placed, Working, Idle, Event, Attempt, Done, CompletedIsApplied
  <2>1. ASSUME NEW a \in Attempts, NEW m \in Messages, Deliver(a, m) PROVE Inv'
    BY <2>1 DEF Deliver
  <2>2. ASSUME NEW a \in Attempts, Apply(a) PROVE Inv'
    BY <2>2 DEF Apply
  <2>3. ASSUME NEW a \in Attempts, Complete(a) PROVE Inv'
    BY <2>3 DEF Complete
  <2>4. ASSUME NEW a \in Attempts, Fail(a) PROVE Inv'
    BY <2>4 DEF Fail
  <2>5. ASSUME NEW a \in Attempts, Crash(a) PROVE Inv'
    BY <2>5 DEF Crash
  <2>6. CASE Tick
    BY <2>6 DEF Tick
  <2>7. CASE UNCHANGED vars
    BY <2>7 DEF vars
  <2> QED
    BY <2>1, <2>2, <2>3, <2>4, <2>5, <2>6, <2>7 DEF Next, Proceed
<1> QED
  BY <1>1, <1>2, TypeInvHolds, PTL DEF Spec

-----------------------------------------------------------------------------
(* No claim that is worked on is stale. *)
InTime == \A a \in Attempts : Working(a) => now <= attempt[a].claimed + StaleAfter

ClaimInv == ClaimHeld /\ OneAtATime /\ InTime

LEMMA ClaimInvInit == Init => ClaimInv
BY DEF Init, ClaimInv, ClaimHeld, OneAtATime, InTime, Working, Idle

(* Only an event nobody works on can be claimed. *)
LEMMA ClaimedIsFree ==
  ASSUME TypeInv, ClaimInv, NEW m \in Messages, event[m].status = "none" \/ Retry(event[m])
  PROVE  \A a \in Attempts : Working(a) => attempt[a].message # m
<1> SUFFICES ASSUME NEW a \in Attempts, Working(a), attempt[a].message = m PROVE FALSE
  OBVIOUS
<1>1. event[m].status = "processing" /\ event[m].claimed = attempt[a].claimed
  <2>1. event[attempt[a].message] = [status |-> "processing", claimed |-> attempt[a].claimed]
    BY DEF ClaimInv, ClaimHeld
  <2> QED
    BY <2>1
<1>2. attempt[a].claimed < now - StaleAfter
  BY <1>1 DEF Retry
<1>3. now <= attempt[a].claimed + StaleAfter
  BY DEF ClaimInv, InTime
<1>4. now \in Int /\ attempt[a].claimed \in Int /\ StaleAfter \in Int
  BY InboxAssumption DEF TypeInv, TypeOK, Times, Attempt
<1> QED
  BY <1>2, <1>3, <1>4

(* An attempt that ends leaves the others their claims: they work on other notifications. *)
LEMMA EndKeepsClaims ==
  ASSUME TypeInv, ClaimInv, NEW a \in Attempts, Working(a),
         attempt' = [attempt EXCEPT ![a] = Idle], now' = now,
         \A m \in Messages : m # attempt[a].message => event'[m] = event[m]
  PROVE  ClaimInv'
<1>1. \A b \in Attempts : Working(b)' => /\ Working(b) /\ b # a
                                        /\ attempt'[b] = attempt[b]
                                        /\ attempt[b].message \in Messages
                                        /\ attempt[b].message # attempt[a].message
  BY DEF TypeInv, TypeOK, Placed, Working, Idle, ClaimInv, OneAtATime
<1>2. ClaimHeld'
  BY <1>1 DEF ClaimInv, ClaimHeld
<1>3. OneAtATime'
  BY <1>1 DEF ClaimInv, OneAtATime
<1>4. InTime'
  BY <1>1 DEF ClaimInv, InTime
<1> QED
  BY <1>2, <1>3, <1>4 DEF ClaimInv

LEMMA ClaimInvStep ==
  ASSUME Punctual, TypeInv, ClaimInv, [Next]_vars PROVE ClaimInv'
<1>1. ASSUME NEW a \in Attempts, NEW m \in Messages, Deliver(a, m) PROVE ClaimInv'
  <2>1. CASE /\ event[m].status = "none" \/ Retry(event[m])
             /\ event' = [event EXCEPT ![m] = [status |-> "processing", claimed |-> now]]
             /\ attempt' = [attempt EXCEPT ![a] = [step |-> "apply", message |-> m, claimed |-> now]]
             /\ now' = now
    <3>1. \A b \in Attempts : Working(b) => attempt[b].message # m
      BY <2>1, ClaimedIsFree
    <3>2. attempt'[a] = [step |-> "apply", message |-> m, claimed |-> now]
      BY <2>1 DEF TypeInv, TypeOK
    <3>3. \A b \in Attempts : b # a => attempt'[b] = attempt[b]
      BY <2>1 DEF TypeInv, TypeOK
    <3>4. event'[m] = [status |-> "processing", claimed |-> now]
      BY <2>1 DEF TypeInv, TypeOK
    <3>5. \A n \in Messages : n # m => event'[n] = event[n]
      BY <2>1 DEF TypeInv, TypeOK
    <3>6. \A b \in Attempts : b # a /\ Working(b)' =>
            Working(b) /\ attempt[b].message \in Messages /\ attempt[b].message # m
      BY <3>1, <3>3 DEF Working, TypeInv, Placed
    <3>7. ClaimHeld'
      <4> SUFFICES ASSUME NEW b \in Attempts, Working(b)'
                   PROVE  event'[attempt'[b].message] = [status |-> "processing", claimed |-> attempt'[b].claimed]
        BY DEF ClaimHeld
      <4>1. CASE b = a
        BY <4>1, <3>2, <3>4
      <4>2. CASE b # a
        BY <4>2, <3>3, <3>5, <3>6 DEF ClaimInv, ClaimHeld
      <4> QED
        BY <4>1, <4>2
    <3>8. OneAtATime'
      BY <3>2, <3>3, <3>6 DEF ClaimInv, OneAtATime
    <3>9. InTime'
      <4> SUFFICES ASSUME NEW b \in Attempts, Working(b)' PROVE now' <= attempt'[b].claimed + StaleAfter
        BY DEF InTime
      <4>1. CASE b = a
        BY <4>1, <2>1, <3>2, InboxAssumption DEF TypeInv, TypeOK, Times
      <4>2. CASE b # a
        BY <4>2, <2>1, <3>3, <3>6 DEF ClaimInv, InTime
      <4> QED
        BY <4>1, <4>2
    <3> QED
      BY <3>7, <3>8, <3>9 DEF ClaimInv
  <2>2. CASE UNCHANGED <<event, attempt, now>>
    BY <2>2 DEF ClaimInv, ClaimHeld, OneAtATime, InTime, Working
  <2> QED
    BY <1>1, <2>1, <2>2 DEF Deliver
<1>2. ASSUME NEW a \in Attempts, Apply(a) PROVE ClaimInv'
  <2>1. Working(a) /\ UNCHANGED <<event, now>>
    BY <1>2 DEF Apply, Working
  <2>2. \A b \in Attempts : /\ Working(b)' => Working(b)
                            /\ attempt'[b].message = attempt[b].message
                            /\ attempt'[b].claimed = attempt[b].claimed
    BY <1>2 DEF Apply, Working, TypeInv, TypeOK, Attempt
  <2> QED
    BY <2>1, <2>2 DEF ClaimInv, ClaimHeld, OneAtATime, InTime
<1>3. ASSUME NEW a \in Attempts, Complete(a) PROVE ClaimInv'
  BY <1>3, EndKeepsClaims DEF Complete, Working, TypeInv, TypeOK
<1>4. ASSUME NEW a \in Attempts, Fail(a) PROVE ClaimInv'
  BY <1>4, EndKeepsClaims DEF Fail, Working, TypeInv, TypeOK
<1>5. ASSUME NEW a \in Attempts, Crash(a) PROVE ClaimInv'
  BY <1>5, EndKeepsClaims DEF Crash, Working
<1>6. ASSUME Tick PROVE ClaimInv'
  <2>1. UNCHANGED <<event, attempt>> /\ now' = now + 1
    BY <1>6 DEF Tick
  <2>2. \A a \in Attempts : Working(a) => now < attempt[a].claimed + StaleAfter
    BY <1>6 DEF Tick
  <2>3. ClaimHeld' /\ OneAtATime'
    BY <2>1 DEF ClaimInv, ClaimHeld, OneAtATime, Working
  <2>4. \A a \in Attempts : attempt[a].claimed + StaleAfter \in Int /\ now \in Int
    BY InboxAssumption DEF TypeInv, TypeOK, Attempt, Times
  <2>5. InTime'
    BY <2>1, <2>2, <2>4 DEF InTime, Working
  <2> QED
    BY <2>3, <2>5 DEF ClaimInv
<1>7. CASE UNCHANGED vars
  BY <1>7 DEF vars, ClaimInv, ClaimHeld, OneAtATime, InTime, Working
<1> QED
  BY <1>1, <1>2, <1>3, <1>4, <1>5, <1>6, <1>7 DEF Next, Proceed

LEMMA ClaimInvHolds == ASSUME Punctual PROVE Spec => []ClaimInv
<1>1. TypeInv /\ ClaimInv /\ [Next]_vars => ClaimInv'
  BY ClaimInvStep
<1> QED
  BY <1>1, ClaimInvInit, TypeInvHolds, PTL DEF Spec

(* However often a notification is delivered, one attempt at a time works on it. *)
THEOREM WorkedOnOnceAtATime == ASSUME Punctual PROVE Spec => []OneAtATime
<1>1. ClaimInv => OneAtATime
  BY DEF ClaimInv
<1> QED
  BY <1>1, ClaimInvHolds, PTL

(* Whoever works on a notification holds the claim its event shows. *)
THEOREM ClaimsAreHeld == ASSUME Punctual PROVE Spec => []ClaimHeld
<1>1. ClaimInv => ClaimHeld
  BY DEF ClaimInv
<1> QED
  BY <1>1, ClaimInvHolds, PTL

(* A completed event is never opened again: not by a delivery, and not by the failure of an  *)
(* attempt, because such an attempt would hold a claim of an event in processing.            *)
THEOREM CompletedEventsStay == ASSUME Punctual PROVE Spec => CompletedStays
<1> DEFINE Stays == \A m \in Messages : event[m].status = "completed" => event'[m] = event[m]
<1>1. TypeInv /\ ClaimInv /\ [Next]_vars => [Stays]_vars
  <2> SUFFICES ASSUME TypeInv, ClaimInv, Next,
                      NEW m \in Messages, event[m].status = "completed"
               PROVE  event'[m] = event[m]
    BY DEF vars
  <2>1. ASSUME NEW a \in Attempts, Working(a) PROVE attempt[a].message # m
    <3>1. event[attempt[a].message] = [status |-> "processing", claimed |-> attempt[a].claimed]
      BY <2>1 DEF ClaimInv, ClaimHeld
    <3> QED
      BY <3>1
  <2>2. ASSUME NEW a \in Attempts, NEW n \in Messages, Deliver(a, n) PROVE event'[m] = event[m]
    BY <2>2 DEF Deliver, Retry, TypeInv, TypeOK
  <2>3. ASSUME NEW a \in Attempts, Proceed(a) \/ Crash(a) PROVE event'[m] = event[m]
    BY <2>1, <2>3 DEF Proceed, Apply, Complete, Fail, Crash, Working, TypeInv, TypeOK
  <2>4. ASSUME Tick PROVE event'[m] = event[m]
    BY <2>4 DEF Tick
  <2> QED
    BY <2>2, <2>3, <2>4 DEF Next
<1> QED
  BY <1>1, TypeInvHolds, ClaimInvHolds, PTL DEF Spec, CompletedStays
=============================================================================
