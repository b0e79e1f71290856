----------------------------- MODULE SafetyGate -----------------------------
(***************************************************************************)
(* The terms a user accepts before the app opens, the users it has         *)
(* blocked, and reports: loaded after a sign-in, with a retry, and changed *)
(* by requests whose answers come when they come.                          *)
(***************************************************************************)
EXTENDS Naturals, FiniteSets

CONSTANTS
  Users, None,
  Strangers,       \* users to block
  Targets,         \* what can be reported
  MaxAsked         \* bound: requests made

VARIABLES
  session,
  consentAccepted, consentLoaded, safetyLoadFailed, blockedUserIds, reportTarget,
  requests,        \* the user asked for, its effect at the server done or not, and for a load what it saw
  asked,
  consents, blocks, reports,       \* on the server
  strayed          \* history: an answer met another user or another report

safetyVars == <<session, consentAccepted, consentLoaded, safetyLoadFailed, blockedUserIds, reportTarget,
                requests, asked, consents, blocks, reports, strayed>>
shownVars == <<consentAccepted, consentLoaded, safetyLoadFailed, blockedUserIds>>
serverVars == <<consents, blocks, reports>>

Request == [number : 1..MaxAsked, kind : {"load", "accept", "block", "report"}, user : Users,
            on : Strangers \cup Targets \cup {None}, at : {"asked", "served"},
            accepted : BOOLEAN, blocked : SUBSET Strangers]

TypeOK ==
  /\ session \in Users \cup {None} /\ consentAccepted \in BOOLEAN /\ consentLoaded \in BOOLEAN
  /\ safetyLoadFailed \in BOOLEAN /\ blockedUserIds \subseteq Strangers
  /\ reportTarget \in Targets \cup {None} /\ requests \subseteq Request /\ asked \in 0..MaxAsked
  /\ consents \subseteq Users /\ blocks \in [Users -> SUBSET Strangers] /\ reports \subseteq Targets
  /\ strayed \in BOOLEAN

Init ==
  /\ session = None /\ consentAccepted = FALSE /\ consentLoaded = TRUE /\ safetyLoadFailed = FALSE
  /\ blockedUserIds = {} /\ reportTarget = None /\ requests = {} /\ asked = 0
  /\ consents \in SUBSET Users /\ blocks = [u \in Users |-> {}] /\ reports = {} /\ strayed = FALSE

Ask(kind, u, on) ==
  /\ asked < MaxAsked /\ asked' = asked + 1
  /\ requests' = requests \cup
       {[number |-> asked + 1, kind |-> kind, user |-> u, on |-> on, at |-> "asked",
         accepted |-> FALSE, blocked |-> {}]}

(* The effect of another user, or of retrySafetyState: loadSafetyState. *)
LoadSafety(u) ==
  /\ consentLoaded' = FALSE /\ safetyLoadFailed' = FALSE
  /\ Ask("load", u, None) /\ UNCHANGED <<consentAccepted, blockedUserIds>>
signIn(u) ==
  /\ session = None /\ session' = u /\ LoadSafety(u)
  /\ UNCHANGED <<reportTarget, serverVars, strayed>>
retrySafetyState ==
  /\ session # None /\ safetyLoadFailed /\ LoadSafety(session)
  /\ UNCHANGED <<session, reportTarget, serverVars, strayed>>
signOut ==                                      \* resetSafetyState
  /\ session # None /\ session' = None
  /\ consentAccepted' = FALSE /\ blockedUserIds' = {} /\ consentLoaded' = TRUE /\ safetyLoadFailed' = FALSE
  /\ UNCHANGED <<reportTarget, requests, asked, serverVars, strayed>>

canUseApp == session # None /\ consentLoaded /\ consentAccepted
acceptTerms ==
  /\ session # None /\ consentLoaded /\ ~ consentAccepted /\ Ask("accept", session, None)
  /\ UNCHANGED <<session, shownVars, reportTarget, serverVars, strayed>>
blockUser(s) ==
  /\ canUseApp /\ s \notin blockedUserIds /\ Ask("block", session, s)
  /\ UNCHANGED <<session, shownVars, reportTarget, serverVars, strayed>>
setReportTarget(t) ==
  /\ canUseApp /\ IF reportTarget = None THEN t # None ELSE t = None
  /\ reportTarget' = t
  /\ UNCHANGED <<session, shownVars, requests, asked, serverVars, strayed>>
submitReport ==
  /\ canUseApp /\ reportTarget # None /\ Ask("report", session, reportTarget)
  /\ UNCHANGED <<session, shownVars, reportTarget, serverVars, strayed>>

(* The server; a load sees the terms and the blocks as they are then. *)
serve(r) ==
  /\ r \in requests /\ r.at = "asked"
  /\ requests' = (requests \ {r}) \cup
       {[r EXCEPT !.at = "served",
           !.accepted = r.kind = "load" /\ r.user \in consents,
           !.blocked = IF r.kind = "load" THEN blocks[r.user] ELSE {}]}
  /\ consents' = IF r.kind = "accept" THEN consents \cup {r.user} ELSE consents
  /\ blocks' = IF r.kind = "block" THEN [blocks EXCEPT ![r.user] = @ \cup {r.on}] ELSE blocks
  /\ reports' = IF r.kind = "report" THEN reports \cup {r.on} ELSE reports
  /\ UNCHANGED <<session, shownVars, reportTarget, asked, strayed>>

Answered(r, kind) == r \in requests /\ r.kind = kind /\ r.at = "served" /\ requests' = requests \ {r}
LastLoad(r) == \A q \in requests : q.kind = "load" => q.number <= r.number
loaded(r) ==
  /\ Answered(r, "load")
  /\ consentAccepted' = r.accepted /\ blockedUserIds' = r.blocked /\ consentLoaded' = TRUE
  /\ strayed' = (strayed \/ r.user # session \/ ~ LastLoad(r) \/ consentLoaded)
  /\ UNCHANGED <<session, safetyLoadFailed, reportTarget, asked, serverVars>>
accepted(r) ==
  /\ Answered(r, "accept") /\ consentAccepted' = TRUE /\ strayed' = (strayed \/ r.user # session)
  /\ UNCHANGED <<session, consentLoaded, safetyLoadFailed, blockedUserIds, reportTarget, asked, serverVars>>
\* mutant: only the last user blocked is hidden
blockedLast(r) ==
  /\ Answered(r, "block") /\ blockedUserIds' = {r.on} /\ strayed' = (strayed \/ r.user # session)
  /\ UNCHANGED <<session, consentAccepted, consentLoaded, safetyLoadFailed, reportTarget, asked, serverVars>>
blocked(r) ==
  /\ Answered(r, "block") /\ blockedUserIds' = blockedUserIds \cup {r.on}
  /\ strayed' = (strayed \/ r.user # session)
  /\ UNCHANGED <<session, consentAccepted, consentLoaded, safetyLoadFailed, reportTarget, asked, serverVars>>
(* It closes whichever report is open. *)
reported(r) ==
  /\ Answered(r, "report") /\ reportTarget' = None
  /\ strayed' = (strayed \/ reportTarget \notin {None, r.on})
  /\ UNCHANGED <<session, shownVars, asked, serverVars>>
\* mutant: a failed load is not told
failedSilently(r) ==
  /\ r \in requests /\ requests' = requests \ {r}
  /\ UNCHANGED <<session, shownVars, reportTarget, asked, serverVars, strayed>>
(* Only the last load of the user on the screen says that it failed (active). *)
failed(r) ==
  /\ r \in requests /\ requests' = requests \ {r}
  /\ safetyLoadFailed' =
       (safetyLoadFailed \/ (r.kind = "load" /\ r.user = session /\ LastLoad(r) /\ ~ consentLoaded))
  /\ UNCHANGED <<session, consentAccepted, consentLoaded, blockedUserIds, reportTarget, asked, serverVars, strayed>>

Next ==
  \/ \E u \in Users : signIn(u)
  \/ signOut \/ retrySafetyState \/ acceptTerms \/ submitReport
  \/ \E s \in Strangers : blockUser(s)
  \/ \E t \in Targets \cup {None} : setReportTarget(t)
  \/ \E r \in requests : serve(r) \/ loaded(r) \/ accepted(r) \/ blocked(r) \/ reported(r) \/ failed(r)
Spec == Init /\ [][Next]_safetyVars

-----------------------------------------------------------------------------
(* Until an answer meets another user than it was asked for: the app is open only to a user who  *)
(* has accepted the terms, who is shown as blocked is blocked; and a sign-in that has not loaded *)
(* is waiting for its load or can try again.                                                     *)
GateTrue ==
  /\ ~ strayed /\ canUseApp => session \in consents /\ blockedUserIds \subseteq blocks[session]
  /\ session # None /\ ~ consentLoaded =>
       safetyLoadFailed \/ \E r \in requests : r.kind = "load" /\ r.user = session
(* A user that was blocked stays hidden as long as the session lasts. *)
BlocksStayStep ==
  session' = session /\ session # None /\ consentLoaded /\ ~ strayed' =>
    blockedUserIds \subseteq blockedUserIds'
BlocksStay == [][BlocksStayStep]_safetyVars
=============================================================================
