------------------------- MODULE ClientPersistence -------------------------
(***************************************************************************)
(* A client's session, the state it loads for its user, and how it saves   *)
(* what the user changes.  A user's state is shown from the browser's copy *)
(* at once and from the server when it answers; every change starts the    *)
(* timer of a save, which is two requests one after the other: the backup  *)
(* in the profile and the rows of characters, personas and DM rooms.       *)
(*                                                                         *)
(* A part of the state is the version in which it was last changed: the    *)
(* user and a number.  One DM room stands for all.  Effects run with the   *)
(* change that causes them.                                                *)
(***************************************************************************)
EXTENDS Naturals, Sequences, FiniteSets, SequencesExt

CONSTANTS
  Users, None,
  Faults,      \* what may go wrong, of Hazards
  MaxEdits,    \* bound: changes ever made
  MaxSaves     \* bound: saves on their way

Hazards ==
  {"rooms",      \* DM rooms are opened, which writes the browser's copy
   "deletion",   \* DM rooms are deleted
   "failure",    \* requests fail
   "slow",      \* answers take longer than the timers that do not wait for them
   "overlap",   \* saves take longer than the timer of the next one, or than the page lasts
   "closing",    \* the page is closed while a sign-out is on its way
   "expiry",     \* sessions end on the server
   "revoked",    \* Apple credentials are revoked
   "in_place"}   \* users sign in without leaving the page (native shells, Apps in Toss)

VARIABLES
  cookie,                        \* whose session the requests of this client carry
  backup, rows,                  \* on the server: profiles.app_state; characters, personas, dm_threads
  spilled,                       \* history: in whose session another's save went on
  cache,                         \* localStorage[LOCAL_STATE_KEY]
  session, authLoading, queries, \* the session as the client knows it, and its questions for it
  fallback,                      \* initFallback, 7 s after the page: what it will do
  asked,                         \* the timer of this wait, 8 s: it asked once more
  loaded, ready, profileLoading, \* profileLoadedRef, stateReady
  load,                          \* the load that was not cancelled
  app, timer, saves,             \* the state shown, the save that waits, saves on their way
  leaving,                       \* a sign-out on its way
  edits

sessionVars == <<session, authLoading, queries, leaving, fallback, asked>>
profileVars == <<loaded, ready, profileLoading, load, app, timer>>
serverVars == <<cookie, backup, rows, spilled>>
vars == <<serverVars, cache, sessionVars, profileVars, saves, edits>>

ASSUME UsersAssumption ==
  MaxEdits \in Nat /\ None \notin Users /\ {"error", "rejected"} \cap (Users \cup {None}) = {}

Versions == Users \X (1..MaxEdits)
Part == Versions \cup {None}
Room == {"none", "live", "deleted"}    \* a deleted room is in deletedDmKeys
AppState == [notes : Part, character : Part, personas : Part, room : Room]
Rows == [character : Part, personas : Part, room : Room]
blankAppState == [notes |-> None, character |-> None, personas |-> None, room |-> "none"]
NoRows == [character |-> None, personas |-> None, room |-> "none"]

Requests == {"profile", "rows", "delete"}
Save == [state : AppState, todo : Seq(Requests), of : Users \cup {None},   \* whose state it is
         as : Users \cup {None}, served : BOOLEAN]
Query == [kind : {"initial", "refresh", "slow", "revoked"},
          answer : Users \cup {None, "error", "rejected"}]    \* no answer at all rejects the promise
Load == [base : AppState \cup {None}, stage : {"profile", "fallback"}, answer : {"none", "ok", "error"},
         backup : AppState, rows : Rows]
ASSUME LoadAssumption == None \notin Load
Failing == "failure" \in Faults

TypeOK ==
  /\ cookie \in Users \cup {None} /\ session \in Users \cup {None} /\ edits \in 0..MaxEdits
  /\ backup \in [Users -> AppState] /\ rows \in [Users -> Rows]
  /\ cache \in AppState \cup {None} /\ app \in AppState
  /\ queries \subseteq Query /\ leaving \in {"no", "asked", "served"}
  /\ load # None => load \in Load
  /\ timer \in AppState \cup {None} /\ \A i \in DOMAIN saves : saves[i].state \in AppState
  /\ {authLoading, loaded, ready, profileLoading} \subseteq BOOLEAN
  /\ fallback \in {"waits", "clears", "past"} /\ asked \in {"no", "yes", "lost"} /\ spilled \subseteq Users

-----------------------------------------------------------------------------
(* A page that has just been loaded: startSessionBootstrap asks who is signed in, and the     *)
(* effect of the profile has found no session.                                                *)
Started ==
  /\ session' = None /\ authLoading' = TRUE /\ leaving' = "no"
  /\ queries' = {[kind |-> "initial", answer |-> None]} /\ fallback' = "waits" /\ asked' = "no"
  /\ loaded' = FALSE /\ ready' = FALSE /\ profileLoading' = FALSE /\ load' = None
  /\ app' = blankAppState /\ timer' = None

Init ==
  /\ cookie \in Users \cup {None}
  /\ backup = [u \in Users |-> blankAppState] /\ rows = [u \in Users |-> NoRows] /\ cache = None
  /\ session = None /\ authLoading = TRUE /\ queries = {[kind |-> "initial", answer |-> None]}
  /\ fallback = "waits" /\ asked = "no"
  /\ loaded = FALSE /\ ready = FALSE /\ profileLoading = FALSE /\ load = None
  /\ app = blankAppState /\ timer = None /\ saves = <<>> /\ leaving = "no" /\ edits = 0 /\ spilled = {}

(* Requests that left may be served though the page is gone; what would follow them is not. *)
Orphans == [i \in DOMAIN saves |-> [saves[i] EXCEPT !.todo = <<Head(@)>>]]
NewPage == Started /\ saves' \in {<<>>} \cup (IF "overlap" \in Faults THEN {Orphans} ELSE {})
Reload ==
  /\ leaving = "no" \/ "closing" \in Faults
  /\ NewPage
  /\ UNCHANGED <<serverVars, cache, edits>>

(* The browser goes to the provider and comes back to a new page; in place, the listeners of  *)
(* the session are called, and saves on their way go on.                                      *)
SignIn(u) ==
  /\ session = None /\ ~ authLoading
  /\ cookie' = u
  /\ IF "in_place" \in Faults
     THEN /\ authLoading' = TRUE /\ queries' = queries \cup {[kind |-> "refresh", answer |-> None]}
          /\ UNCHANGED <<session, leaving, fallback, asked, profileVars, saves>>
     ELSE NewPage
  /\ UNCHANGED <<backup, rows, spilled, cache, edits>>

-----------------------------------------------------------------------------
(* hasUsableSavedState *)
Usable(state) == state # None /\ state.character # None

(* applyAppState shows a state from the home screen on; resetRuntimeState an empty one. *)
applyAppState(state) == app' = state
resetRuntimeState == applyAppState(blankAppState)

(* The effects of a session with another user: a load in progress is cancelled, the browser's *)
(* copy is shown and saved if there is one.                                                   *)
CachedState == IF Usable(cache) THEN cache ELSE None
EnterProfile ==
  /\ loaded' = Usable(cache) /\ ready' = Usable(cache) /\ profileLoading' = ~ Usable(cache)
  /\ IF Usable(cache) THEN applyAppState(cache) ELSE UNCHANGED app
  /\ timer' = CachedState
  /\ load' = [base |-> CachedState, stage |-> "profile", answer |-> "none",
              backup |-> blankAppState, rows |-> NoRows]
LeaveProfile ==
  /\ loaded' = FALSE /\ ready' = FALSE /\ profileLoading' = FALSE
  /\ load' = None /\ timer' = None
ProfileEffects(u) ==
  CASE u = session -> UNCHANGED profileVars
    [] u # session /\ u # None -> EnterProfile
    [] u # session /\ u = None -> LeaveProfile /\ UNCHANGED app

(* A load in progress makes the profile ready when it ends. *)
Wait == loaded' = FALSE /\ ready' = FALSE /\ profileLoading' = TRUE /\ timer' = None /\ UNCHANGED <<load, app>>
Resume == ready' = TRUE /\ profileLoading' = FALSE /\ UNCHANGED <<loaded, load, app, timer>>

(* nextSessionState *)
InitialSession(u) ==
  /\ session' = u
  /\ IF u = session /\ u # None THEN (IF loaded THEN Resume ELSE Wait)
     ELSE IF u = None THEN LeaveProfile /\ UNCHANGED app
     ELSE EnterProfile

(* refreshAuthSession: an error leaves the session as it is. *)
RefreshedSession(u) == session' = u /\ ProfileEffects(u)

(* refreshSlowSession *)
SlowSession(u) ==
  /\ session' = u
  /\ IF u # session THEN EnterProfile ELSE IF loaded THEN Resume ELSE Wait

(* authBusy: the user waits.  Its timer is set when a wait begins and fires once in it. *)
Busy == authLoading \/ profileLoading \/ (session # None /\ ~ ready)
WaitGoesOn(a) == asked' = IF Busy' THEN a ELSE "no"
TimersDue == "slow" \in Faults \/ (queries = {} /\ load = None)

(* initFallback: once a question has been answered (authResolvedRef), nothing is loading. *)
Resolved == IF fallback = "waits" THEN "clears" ELSE fallback
FallbackDue ==
  /\ fallback # "past" /\ TimersDue
  /\ fallback' = "past"
  /\ IF fallback = "clears" THEN authLoading' = FALSE /\ profileLoading' = FALSE
     ELSE UNCHANGED <<authLoading, profileLoading>>
  /\ UNCHANGED <<session, loaded, ready>> /\ WaitGoesOn(asked)
  /\ UNCHANGED <<serverVars, cache, queries, leaving, load, app, timer, saves, edits>>

AskSlow ==
  /\ Busy /\ asked = "no" /\ fallback = "past" /\ TimersDue
  /\ asked' = "yes" /\ queries' = queries \cup {[kind |-> "slow", answer |-> None]}
  /\ UNCHANGED <<serverVars, cache, session, authLoading, leaving, fallback, profileVars, saves, edits>>

(* GET /auth/me: an error without a session. *)
Answer == {IF cookie = None THEN "error" ELSE cookie} \cup (IF Failing THEN {"error", "rejected"} ELSE {})
ServeQuery(q) ==
  /\ q \in queries /\ q.answer = None
  /\ \E answer \in Answer : queries' = (queries \ {q}) \cup {[q EXCEPT !.answer = answer]}
  /\ UNCHANGED <<serverVars, cache, session, authLoading, leaving, fallback, asked, profileVars, saves, edits>>

QueryAnswered(q) ==
  /\ q \in queries /\ q.answer \notin {None, "rejected"}
  /\ queries' = queries \ {q}
  /\ authLoading' = FALSE
  /\ fallback' = IF q.kind = "slow" THEN fallback ELSE Resolved
  /\ CASE q.kind = "initial" -> InitialSession(IF q.answer = "error" THEN None ELSE q.answer)
       [] q.kind \in {"refresh", "revoked"} /\ q.answer = "error" -> UNCHANGED <<session, profileVars>>
       [] q.kind \in {"refresh", "revoked"} /\ q.answer # "error" -> RefreshedSession(q.answer)
       [] q.kind = "slow" /\ q.answer = "error" ->
            profileLoading' = FALSE /\ UNCHANGED <<session, loaded, ready, load, app, timer>>
       [] q.kind = "slow" /\ q.answer # "error" -> SlowSession(q.answer)
  /\ WaitGoesOn(asked)
  /\ UNCHANGED <<serverVars, cache, leaving, saves, edits>>

(* Only the first question's rejection ends the wait.  When the wait has had its one more     *)
(* question and none is left, nothing ends it.                                                *)
QueryRejected(q) ==
  /\ q \in queries /\ q.answer = "rejected"
  /\ queries' = queries \ {q}
  /\ IF q.kind = "initial"
     THEN authLoading' = FALSE /\ profileLoading' = FALSE /\ fallback' = Resolved
     ELSE UNCHANGED <<authLoading, profileLoading, fallback>>
  /\ UNCHANGED <<session, loaded, ready>>
  /\ WaitGoesOn(IF asked = "yes" /\ authLoading' /\ queries' = {} THEN "lost" ELSE asked)
  /\ UNCHANGED <<serverVars, cache, leaving, load, app, timer, saves, edits>>

-----------------------------------------------------------------------------
(* GET /profile/state *)
ServeLoad ==
  /\ load # None /\ load.answer = "none"
  /\ \/ /\ cookie # None
        /\ load' = [load EXCEPT !.answer = "ok", !.backup = backup[cookie], !.rows = rows[cookie]]
     \/ /\ cookie = None \/ Failing
        /\ load' = [load EXCEPT !.answer = "error"]
  /\ UNCHANGED <<serverVars, cache, sessionVars, loaded, ready, profileLoading, app, timer, saves, edits>>

(* applyStructuredState: no character at all clears the list, a deleted room is remembered. *)
Hydrated(base, r) ==
  [base EXCEPT !.character = r.character, !.personas = r.personas,
               !.room = IF @ = "deleted" \/ r.room = "deleted" THEN "deleted" ELSE r.room]
\* mutant: an empty account has no state to fall back to
BaseOrNothing ==
  CASE load.base # None -> load.base
    [] load.base = None /\ load.stage = "profile" /\ Usable(load.backup) -> load.backup
    [] load.base = None /\ (load.stage = "profile" => ~ Usable(load.backup)) ->
         IF load.answer = "ok" THEN blankAppState ELSE None
BaseState ==
  CASE load.base # None -> load.base
    [] load.base = None /\ load.stage = "profile" /\ Usable(load.backup) -> load.backup
    [] load.base = None /\ (load.stage = "profile" => ~ Usable(load.backup)) -> blankAppState

\* mutant: the profile is shown but never marked as loaded
ApplyLoading(state) ==
  /\ applyAppState(state) /\ timer' = state
  /\ load' = None /\ UNCHANGED <<loaded, ready, profileLoading>>
(* applyLoadedProfile, applyStructuredFallback: the state that was loaded is shown, and the   *)
(* autosave effect saves it.                                                                  *)
Apply(state) ==
  /\ applyAppState(state) /\ timer' = state
  /\ loaded' = TRUE /\ ready' = TRUE /\ profileLoading' = FALSE /\ load' = None

(* loadRemoteProfile, then loadFallbackProfile: what cannot be loaded at all is empty. *)
LoadAnswered ==
  /\ load # None /\ load.answer # "none"
  /\ CASE load.answer = "ok" -> Apply(Hydrated(BaseState, load.rows))
       [] load.answer = "error" /\ load.stage = "profile" ->
            /\ load' = [load EXCEPT !.stage = "fallback", !.answer = "none"]
            /\ UNCHANGED <<loaded, ready, profileLoading, app, timer>>
       [] load.answer = "error" /\ load.stage = "fallback" -> Apply(BaseState)
  /\ UNCHANGED <<session, authLoading>> /\ WaitGoesOn(asked)
  /\ UNCHANGED <<serverVars, cache, queries, leaving, fallback, saves, edits>>

-----------------------------------------------------------------------------
\* mutant: changes made before the profile is loaded are saved
ScheduledEarly(state) == session # None /\ app' = state /\ timer' = state
(* Any change of what is saved starts the timer again: the autosave effect. *)
Scheduled(state) == loaded /\ ready /\ session # None /\ app' = state /\ timer' = state

Change ==
  /\ edits < MaxEdits
  /\ edits' = edits + 1
  /\ LET v == <<session, edits + 1>>
     IN Scheduled([app EXCEPT !.notes = v, !.character = v, !.personas = v])
  /\ UNCHANGED <<serverVars, cache, sessionVars, loaded, ready, profileLoading, load, saves>>

(* finishDmChatKind: a room that is opened is no longer deleted; the browser's copy is written. *)
OpenRoom ==
  /\ "rooms" \in Faults /\ app.room # "live"
  /\ Scheduled([app EXCEPT !.room = "live"])
  /\ cache' = [app EXCEPT !.room = "live"]
  /\ UNCHANGED <<serverVars, sessionVars, loaded, ready, profileLoading, load, saves, edits>>

(* saveDmSettings *)
SaveRoomSettings ==
  /\ loaded /\ ready /\ app.room = "live" /\ cache # app
  /\ cache' = app
  /\ UNCHANGED <<serverVars, sessionVars, profileVars, saves, edits>>

NewSave(state, todo, of) == [state |-> state, todo |-> todo, of |-> of, as |-> cookie, served |-> FALSE]
MaySave == Len(saves) < MaxSaves /\ (saves = <<>> \/ "overlap" \in Faults)

(* deleteDmThread: the room's row is deleted before the state is saved. *)
DeleteRoom ==
  /\ "deletion" \in Faults
  /\ app.room = "live" /\ MaySave
  /\ Scheduled([app EXCEPT !.room = "deleted"])
  /\ saves' = Append(saves, NewSave(app', <<"delete", "rows", "profile", "rows">>, session))
  /\ UNCHANGED <<serverVars, cache, sessionVars, loaded, ready, profileLoading, load, edits>>

(* saveRemoteSnapshot, 700 ms after the last change. *)
AutosaveDue ==
  /\ timer # None /\ MaySave
  /\ saves' = Append(saves, NewSave(timer, <<"profile", "rows">>, session))
  /\ timer' = None
  /\ UNCHANGED <<serverVars, cache, sessionVars, loaded, ready, profileLoading, load, app, edits>>

(* The server: a save without a session is refused.  Rows of characters are only replaced,    *)
(* personas that are not sent are deleted, a room that is not sent stays.                     *)
Upserted(r, s) ==
  [character |-> IF s.character = None THEN r.character ELSE s.character,
   personas |-> s.personas,
   room |-> IF s.room = "none" THEN r.room ELSE s.room]
Stored(s) ==
  CASE Head(s.todo) = "profile" -> backup' = [backup EXCEPT ![s.as] = s.state] /\ UNCHANGED rows
    [] Head(s.todo) = "rows" -> rows' = [rows EXCEPT ![s.as] = Upserted(@, s.state)] /\ UNCHANGED backup
    [] Head(s.todo) = "delete" -> rows' = [rows EXCEPT ![s.as].room = "none"] /\ UNCHANGED backup
ServeSave(i) ==
  /\ i \in DOMAIN saves /\ ~ saves[i].served
  /\ \/ saves[i].as = cookie /\ cookie # None /\ Stored(saves[i])
     \/ (saves[i].as # cookie \/ cookie = None \/ Failing) /\ UNCHANGED <<backup, rows>>
  /\ saves' = [saves EXCEPT ![i].served = TRUE]
  /\ UNCHANGED <<cookie, spilled, cache, sessionVars, profileVars, edits>>

(* structuredRows: a room the client knows to be deleted is sent as deleted. *)
WithDeleted(state) == IF app.room = "deleted" THEN [state EXCEPT !.room = "deleted"] ELSE state
(* The next request goes out with the session there is by then. *)
Continued(s) ==
  NewSave(IF Head(s.todo) = "profile" THEN WithDeleted(s.state) ELSE s.state, Tail(s.todo), s.of)
(* An error only leaves a warning; what throws takes the requests after it along. *)
SaveAnswered(i) ==
  /\ i \in DOMAIN saves /\ saves[i].served
  /\ \/ /\ Len(saves[i].todo) = 1 \/ Failing
        /\ saves' = RemoveAt(saves, i) /\ UNCHANGED spilled
     \/ /\ Len(saves[i].todo) > 1
        /\ saves' = [saves EXCEPT ![i] = Continued(saves[i])]
        /\ spilled' = spilled \cup ({cookie} \ {None, saves[i].of})
  /\ UNCHANGED <<cookie, backup, rows, cache, sessionVars, profileVars, edits>>

-----------------------------------------------------------------------------
(* signOut, recoverAuthScreen, the end of deleteAccount: nothing is cleared before the answer. *)
SignOut ==
  /\ session # None /\ leaving = "no"
  /\ leaving' = "asked"
  /\ UNCHANGED <<serverVars, cache, session, authLoading, queries, fallback, asked, profileVars, saves, edits>>
(* An error is taken for an answer, a rejection clears nothing; either way the session may be *)
(* left as it was.                                                                            *)
ServeSignOut ==
  /\ leaving = "asked"
  /\ \/ leaving' = "served" /\ cookie' = None
     \/ Failing /\ leaving' \in {"served", "no"} /\ cookie' \in {cookie, None}
  /\ UNCHANGED <<backup, rows, spilled, cache, session, authLoading, queries, fallback, asked, profileVars, saves, edits>>
\* mutant: the browser's copy outlives the session
SignedOutCached ==
  /\ leaving = "served"
  /\ leaving' = "no" /\ session' = None
  /\ LeaveProfile /\ resetRuntimeState
  /\ UNCHANGED authLoading /\ WaitGoesOn(asked)
  /\ UNCHANGED <<serverVars, cache, queries, fallback, saves, edits>>
SignedOut ==
  /\ leaving = "served"
  /\ leaving' = "no" /\ session' = None
  /\ LeaveProfile /\ resetRuntimeState
  /\ cache' = None
  /\ UNCHANGED authLoading /\ WaitGoesOn(asked)
  /\ UNCHANGED <<serverVars, queries, fallback, saves, edits>>

(* The session's lifetime is over, or it was ended on another device. *)
Expire ==
  /\ "expiry" \in Faults /\ cookie # None
  /\ cookie' = None
  /\ UNCHANGED <<backup, rows, spilled, cache, sessionVars, profileVars, saves, edits>>

(* performNativeAppleInvalidation: the session is ended, then the listeners ask for it. *)
Revoke ==
  /\ "revoked" \in Faults /\ cookie # None /\ session = cookie
  /\ cookie' = None
  /\ authLoading' = TRUE /\ queries' = queries \cup {[kind |-> "revoked", answer |-> None]}
  /\ UNCHANGED <<backup, rows, spilled, cache, session, leaving, fallback, asked, profileVars, saves, edits>>

Next ==
  \/ Reload \/ \E u \in Users : SignIn(u)
  \/ FallbackDue \/ AskSlow
  \/ \E q \in queries : ServeQuery(q) \/ QueryAnswered(q) \/ QueryRejected(q)
  \/ ServeLoad \/ LoadAnswered
  \/ Change \/ OpenRoom \/ SaveRoomSettings \/ DeleteRoom \/ AutosaveDue
  \/ \E i \in DOMAIN saves : ServeSave(i) \/ SaveAnswered(i)
  \/ SignOut \/ ServeSignOut \/ SignedOut
  \/ Expire \/ Revoke

Spec == Init /\ [][Next]_vars

-----------------------------------------------------------------------------
Parts(s) == {s.notes, s.character, s.personas} \ {None}
Written(r) == {r.character, r.personas} \ {None}

(* Nothing of one user ever reaches the account of another that uses the same device, but     *)
(* what is left of a save when its next request goes out after the other has signed in.       *)
OwnState ==
  \A u \in DOMAIN backup \ spilled : \A v \in Parts(backup[u]) \cup Written(rows[u]) : v[1] = u

(* What the server has of a character is never replaced by an older version of it. *)
Newer ==
  \A u \in Users :
    rows[u].character # None /\ rows'[u].character # rows[u].character
    => rows'[u].character[2] > rows[u].character[2]
RowsNewest == [][Newer]_vars

(* The user does not wait forever for the session and the profile to be loaded, unless the    *)
(* question for the session was rejected and so was the one more that each wait has.          *)
AnswerQuery == \E q \in queries : QueryAnswered(q) \/ QueryRejected(q)
Serve == \E q \in queries : ServeQuery(q)
Timers == FallbackDue \/ AskSlow
Fairness ==
  /\ WF_vars(AnswerQuery) /\ WF_vars(Serve) /\ WF_vars(Timers)
  /\ WF_vars(ServeLoad) /\ WF_vars(LoadAnswered)
FairSpec == Spec /\ Fairness
LoadingEnds == <>[][~ Reload]_vars => (Busy ~> (~ Busy \/ asked = "lost"))

(* A client whose Apple credentials were revoked ends its session and asks to sign in again. *)
RevokedLeaves ==
  [][\A q \in queries \ queries' :
       q.kind = "revoked" /\ q.answer = "error" => session' = None /\ cache' = None]_vars
=============================================================================
