------------------------- MODULE MCNotificationInbox -------------------------
(***************************************************************************)
(* The two ends of a store purchase for TLC: the notifications that stores *)
(* send to the server (NotificationInbox), and the app of a buyer who      *)
(* comes back to the credit store as often as need be (PurchaseClients).   *)
(* A behaviour takes one of the parts.                                     *)
(***************************************************************************)
EXTENDS NotificationInbox, TLC

CONSTANTS none, m1, m2, a1, a2, u1, u2, o1

VARIABLES
  part,
  platform, session, due, open, ready, purchasing, balance, loads, trouble, job, order, server

Client == INSTANCE PurchaseClients WITH
  Users <- {u1, u2}, Orders <- {o1}, Platforms <- {"toss", "google", "apple"}, Slots <- {1}, MaxLoads <- 1

clientVars == <<platform, session, due, open, ready, purchasing, balance, loads, trouble, job, order, server>>
mcVars == <<part, vars, clientVars>>

MCInit ==
  /\ Init /\ Client!Init /\ session = u1
  /\ \/ part = "inbox" /\ platform = "toss"
     \/ part = "client"
MCNext ==
  \/ part = "inbox" /\ Next /\ UNCHANGED <<part, clientVars>>
  \/ part = "client" /\ Client!Next /\ UNCHANGED <<part, vars>>

OfInbox(A) == part = "inbox" /\ A /\ UNCHANGED <<part, clientVars>>
OfClient(A) == part = "client" /\ A /\ UNCHANGED <<part, vars>>
MCFairness ==
  /\ \A a \in Attempts : WF_mcVars(OfInbox(Proceed(a)))
  /\ \A m \in Messages : SF_mcVars(OfInbox(m \notin acked /\ \E a \in Attempts : Deliver(a, m)))
  /\ WF_mcVars(OfClient(Client!Chain(1)))
  /\ SF_mcVars(OfClient(Client!CloseStore)) /\ WF_mcVars(OfClient(Client!OpenStore))
  /\ SF_mcVars(OfClient(Client!Reads)) /\ SF_mcVars(OfClient(Client!Arrives))
  /\ SF_mcVars(OfClient(Client!Lists(o1))) /\ SF_mcVars(OfClient(Client!GrantsTo(o1)))
MCSpec == MCInit /\ [][MCNext]_mcVars /\ MCFairness
-----------------------------------------------------------------------------
(* "다시 들어오면 자동으로 복원해요": what a buyer has paid is granted in the end, or was refunded. *)
PaidIsGranted == part = "client" => Client!PaidIsGranted
=============================================================================
