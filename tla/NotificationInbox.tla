-------------------------- MODULE NotificationInbox --------------------------
(***************************************************************************)
(* The inboxes of Google Play and App Store notifications.  A store        *)
(* delivers a notification again until it is acknowledged, now and then    *)
(* once more.  Each delivery tries to claim the notification's event, and  *)
(* if it does, works on the purchase in transactions of its own and then   *)
(* marks the event.  Both inboxes are the same but for their table.        *)
(*                                                                         *)
(* The work itself is CreditPurchases; here it has been committed or not.  *)
(***************************************************************************)
EXTENDS Integers

CONSTANTS
  Messages,     \* notifications, by the store's message id
  Attempts,     \* deliveries that are handled at a time
  None,
  StaleAfter,   \* STALE_PROCESSING_AFTER, in ticks
  Punctual,     \* TRUE: an attempt ends before its claim is stale
  MaxTime       \* bound: the last tick

Times == 0..MaxTime

ASSUME InboxAssumption ==
  /\ None \notin Messages
  /\ StaleAfter \in Nat
  /\ MaxTime \in Nat
  /\ Punctual \in BOOLEAN

VARIABLES
  now,
  event,      \* google_play_rtdn_events or app_store_notification_events, by message
  attempt,    \* each delivery that is handled
  acked,      \* messages the store has an acknowledgement of
  applied     \* messages whose work is committed

vars == <<now, event, attempt, acked, applied>>

Event == [status : {"none", "processing", "failed", "completed"}, claimed : Times]
Attempt == [step : {"idle", "apply", "complete", "fail"}, message : Messages \cup {None}, claimed : Times]
Idle == [step |-> "idle", message |-> None, claimed |-> 0]

TypeOK ==
  /\ now \in Times
  /\ event \in [Messages -> Event]
  /\ attempt \in [Attempts -> Attempt]
  /\ acked \subseteq Messages
  /\ applied \subseteq Messages

Init ==
  /\ now = 0
  /\ event = [m \in Messages |-> [status |-> "none", claimed |-> 0]]
  /\ attempt = [a \in Attempts |-> Idle]
  /\ acked = {}
  /\ applied = {}

-----------------------------------------------------------------------------
(* _retry: whose event may be claimed although it exists. *)
RetryProcessing(e) == e.status \in {"failed", "processing"}    \* mutant: not only stale claims are taken over
RetryStale(e) == e.status = "processing" /\ e.claimed < now - StaleAfter   \* mutant: failed ones are not
Retry(e) == e.status = "failed" \/ (e.status = "processing" /\ e.claimed < now - StaleAfter)

(* claim: insert the event or take it over; without a claim the delivery is acknowledged. *)
Deliver(a, m) ==
  /\ attempt[a].step = "idle"
  /\ \/ /\ event[m].status = "none" \/ Retry(event[m])
        /\ event' = [event EXCEPT ![m] = [status |-> "processing", claimed |-> now]]
        /\ attempt' = [attempt EXCEPT ![a] = [step |-> "apply", message |-> m, claimed |-> now]]
        /\ UNCHANGED acked
     \/ /\ event[m].status # "none" /\ ~ Retry(event[m])
        /\ acked' = acked \cup {m}
        /\ UNCHANGED <<event, attempt>>
  /\ UNCHANGED <<now, applied>>

(* _apply: the work may be committed, all or its first part, before something fails. *)
ApplySwallowed(a) ==         \* mutant: an exception counts as a result
  /\ attempt[a].step = "apply"
  /\ attempt' = [attempt EXCEPT ![a].step = "complete"]
  /\ applied' \in {applied, applied \cup {attempt[a].message}}
  /\ UNCHANGED <<now, event, acked>>
Apply(a) ==
  /\ attempt[a].step = "apply"
  /\ \/ /\ attempt' = [attempt EXCEPT ![a].step = "complete"]
        /\ applied' = applied \cup {attempt[a].message}
     \/ /\ attempt' = [attempt EXCEPT ![a].step = "fail"]
        /\ applied' \in {applied, applied \cup {attempt[a].message}}
  /\ UNCHANGED <<now, event, acked>>

(* complete, and the answer that acknowledges the delivery. *)
CompleteAsStep(a) ==         \* mutant: the handler's step is stored for the event's status
  /\ attempt[a].step = "complete"
  /\ attempt' = [attempt EXCEPT ![a] = Idle]
  /\ event' = [event EXCEPT ![attempt[a].message].status = attempt[a].step]
  /\ acked' = acked \cup {attempt[a].message}
  /\ UNCHANGED <<now, applied>>
Complete(a) ==
  /\ attempt[a].step = "complete"
  /\ attempt' = [attempt EXCEPT ![a] = Idle]
  /\ event' = [event EXCEPT ![attempt[a].message].status = "completed"]
  /\ acked' = acked \cup {attempt[a].message}
  /\ UNCHANGED <<now, applied>>

(* fail, unless the session of the failed work is unusable: then the event stays in processing. *)
Fail(a) ==
  /\ attempt[a].step = "fail"
  /\ attempt' = [attempt EXCEPT ![a] = Idle]
  /\ \/ event' = [event EXCEPT ![attempt[a].message].status = "failed"]
     \/ UNCHANGED event
  /\ UNCHANGED <<now, acked, applied>>

(* The server stops. *)
Crash(a) ==
  /\ attempt[a].step # "idle"
  /\ attempt' = [attempt EXCEPT ![a] = Idle]
  /\ UNCHANGED <<now, event, acked, applied>>

Working(a) == attempt[a].step # "idle"

Tick ==
  /\ now < MaxTime
  /\ Punctual => \A a \in Attempts : Working(a) => now < attempt[a].claimed + StaleAfter
  /\ now' = now + 1
  /\ UNCHANGED <<event, attempt, acked, applied>>

Proceed(a) == Apply(a) \/ Complete(a) \/ Fail(a)

Next ==
  \/ \E a \in Attempts : (\E m \in Messages : Deliver(a, m)) \/ Proceed(a) \/ Crash(a)
  \/ Tick

Spec == Init /\ [][Next]_vars

-----------------------------------------------------------------------------
(* A notification is worked on by one attempt at a time, however often it is delivered. *)
OneAtATime ==
  \A a, b \in Attempts :
    Working(a) /\ Working(b) /\ attempt[a].message = attempt[b].message => a = b

(* Who works on a notification has the claim that its event shows: nothing is marked by an   *)
(* attempt that another one has replaced.                                                    *)
ClaimHeld ==
  \A a \in Attempts :
    Working(a) => event[attempt[a].message] = [status |-> "processing", claimed |-> attempt[a].claimed]

(* A completed event stays completed: no late failure and no repetition opens it again.      *)
CompletedStays ==
  [][\A m \in Messages : event[m].status = "completed" => event'[m] = event[m]]_vars

(* What the inbox calls complete has been done. *)
CompletedIsApplied == \A m \in Messages : event[m].status = "completed" => m \in applied

-----------------------------------------------------------------------------
(* Attempts make progress and a store repeats what it has no acknowledgement of. *)
Fairness ==
  /\ \A a \in Attempts : WF_vars(Proceed(a))
  /\ \A m \in Messages : SF_vars(m \notin acked /\ \E a \in Attempts : Deliver(a, m))
FairSpec == Spec /\ Fairness

(* A notification whose failure was reported to the store is worked on again: no answer in   *)
(* between acknowledges it.                                                                  *)
FailuresRetried ==
  \A m \in Messages :
    event[m].status = "failed" /\ m \notin acked ~> event[m].status # "failed"
=============================================================================
