----------------------- MODULE ClientPersistenceProofs -----------------------
(***************************************************************************)
(* Two users of one device stay apart.  A browser's copy is not marked     *)
(* with its user, so this rests on when the copy can be there: as long as  *)
(* sessions only end by a sign-out that is answered, the copy is that of   *)
(* the user who is signed in; and where the copy is never written, nothing *)
(* else carries a user's state into the session of the next.               *)
(*                                                                         *)
(* What a session shows and saves of its own is proved after that: the     *)
(* relations of its characters (Relationships), the characters themselves  *)
(* (CharacterAccounts), their follows (Follows) and their DM rooms         *)
(* (DirectMessages).                                                       *)
(***************************************************************************)
EXTENDS ClientRooms, Integers, FiniteSetTheorems, SequenceTheorems, SumsProofs, TLAPS

Orderly == Faults \subseteq {"rooms", "deletion", "overlap", "in_place"}
NoCopies == Faults \cap {"rooms", "slow"} = {}
Regime == Orderly \/ NoCopies

-----------------------------------------------------------------------------
(* The inductive invariant. *)
Saves == {s \in Save : s.todo # <<>>}
TypeInv ==
  /\ cookie \in Users \cup {None} /\ session \in Users \cup {None} /\ edits \in 0..MaxEdits
  /\ backup \in [Users -> AppState] /\ rows \in [Users -> Rows]
  /\ cache \in AppState \cup {None} /\ app \in AppState
  /\ queries \subseteq Query /\ leaving \in {"no", "asked", "served"}
  /\ load \in Load \cup {None} /\ timer \in AppState \cup {None} /\ saves \in Seq(Saves)
  /\ authLoading \in BOOLEAN /\ loaded \in BOOLEAN /\ ready \in BOOLEAN /\ profileLoading \in BOOLEAN
  /\ fallback \in {"waits", "clears", "past"} /\ asked \in {"no", "yes", "lost"} /\ spilled \subseteq Users

(* At most one question for the session is open, and its answer is not about a user that is gone. *)
QueryInv ==
  /\ \A p, q \in queries : p = q
  /\ authLoading \/ queries = {}
  /\ \A q \in queries :
       /\ session # None \/ q.kind = "revoked" => cookie = None /\ q.answer \notin Users
       /\ q.kind \in {"initial", "refresh"} => session = None
       /\ q.answer \in Users => cookie \in {q.answer, None}

(* A wait that no question and no load will end is for a session that is not there, or that   *)
(* was ended on the server.                                                                   *)
WaitInv ==
  /\ session = None => ~ profileLoading
  /\ session # None => (authLoading => cookie = None) /\ (load = None => loaded /\ ready /\ ~ profileLoading)

(* Requests carry the session that is shown, or none; without a session nothing is shown. *)
SessionInv ==
  /\ session # None => cookie \in {session, None}
  /\ session = None => app = blankAppState /\ timer = None /\ load = None /\ leaving = "no"

(* What is shown, saved or stored was written by the user whose it is, but for users in whose *)
(* session another's save went on.                                                            *)
By(S, u, part) == u \in S \/ part = None \/ part[1] = u
Tame(room) == "rooms" \in Faults \/ room # "live"
Owned(S, u, s) == By(S, u, s.notes) /\ By(S, u, s.character) /\ By(S, u, s.personas) /\ Tame(s.room)
OwnedRows(S, u, r) == By(S, u, r.character) /\ By(S, u, r.personas) /\ Tame(r.room)
ProfileInv ==
  session # None =>
    /\ Owned(spilled, session, app)
    /\ timer # None => Owned(spilled, session, timer)
    /\ load # None =>
         /\ load.base # None => Owned(spilled, session, load.base)
         /\ Owned(spilled, session, load.backup) /\ OwnedRows(spilled, session, load.rows)
SavesInv ==
  \A i \in DOMAIN saves :
    /\ Owned(spilled, saves[i].of, saves[i].state)
    /\ saves[i].as # None => saves[i].as = saves[i].of \/ saves[i].as \in spilled
StoreInv == \A u \in Users : Owned(spilled, u, backup[u]) /\ OwnedRows(spilled, u, rows[u])

(* The copy is that of the user who is signed in, or of the one whose page is being loaded. *)
CopyOf(u) == u # None /\ Owned(spilled, u, cache)
OrderlyInv ==
  /\ cache # None => CopyOf(IF session # None THEN session ELSE cookie)
  /\ \A q \in queries : q.answer # None => cookie = (IF q.answer = "error" THEN None ELSE q.answer)
  /\ session # None /\ leaving # "served" => cookie = session
  /\ leaving = "served" => cookie = None
  /\ session = None /\ ~ authLoading => cookie = None
  /\ authLoading => queries # {}
CopyInv == IF Orderly THEN OrderlyInv ELSE cache = None

Apart == QueryInv /\ WaitInv /\ SessionInv /\ ProfileInv /\ SavesInv /\ StoreInv /\ CopyInv

-----------------------------------------------------------------------------
(* Taking an element out of a sequence leaves a sequence of the same kind. *)
LEMMA RemoveAtType ==
  ASSUME NEW S, NEW s \in Seq(S), NEW i \in DOMAIN s
  PROVE  RemoveAt(s, i) \in Seq(S)
<1>1. i \in 1..Len(s) /\ Len(s) \in Nat OBVIOUS
<1>2. SubSeq(s, 1, i - 1) \in Seq(S) BY <1>1
<1>3. SubSeq(s, i + 1, Len(s)) \in Seq(S) BY <1>1
<1> QED BY <1>2, <1>3 DEF RemoveAt

LEMMA BlankType == blankAppState \in AppState /\ NoRows \in Rows
BY DEF blankAppState, NoRows, AppState, Rows, Room, Part

LEMMA CachedType ==
  ASSUME cache \in AppState \cup {None}
  PROVE  CachedState \in AppState \cup {None} /\ (Usable(cache) => cache \in AppState)
BY DEF CachedState, Usable

LEMMA InitType == Init => TypeInv
<1> SUFFICES ASSUME Init PROVE TypeInv OBVIOUS
<1>1. queries \subseteq Query BY DEF Init, Query
<1>2. saves \in Seq(Saves) BY DEF Init
<1>3. backup \in [Users -> AppState] /\ rows \in [Users -> Rows] BY BlankType DEF Init
<1>4. edits \in 0..MaxEdits BY UsersAssumption DEF Init
<1>5. cache \in AppState \cup {None} /\ app \in AppState /\ load \in Load \cup {None} /\ timer \in AppState \cup {None}
  BY BlankType DEF Init
<1>6. authLoading \in BOOLEAN /\ loaded \in BOOLEAN /\ ready \in BOOLEAN /\ profileLoading \in BOOLEAN
  BY DEF Init
<1>7. fallback \in {"waits", "clears", "past"} /\ asked \in {"no", "yes", "lost"} /\ spilled \subseteq Users
  BY DEF Init
<1> QED BY <1>1, <1>2, <1>3, <1>4, <1>5, <1>6, <1>7 DEF Init, TypeInv

LEMMA WaitType ==
  ASSUME NEW a \in {"no", "yes", "lost"}, WaitGoesOn(a)
  PROVE  asked' \in {"no", "yes", "lost"}
BY DEF WaitGoesOn

LEMMA ResolvedType == fallback \in {"waits", "clears", "past"} => Resolved \in {"waits", "clears", "past"}
BY DEF Resolved

(* The parts of the state that a step on the profile leaves well typed. *)
ProfileType ==
  /\ app \in AppState /\ load \in Load \cup {None} /\ timer \in AppState \cup {None}
  /\ loaded \in BOOLEAN /\ ready \in BOOLEAN /\ profileLoading \in BOOLEAN

LEMMA StartedType ==
  ASSUME Started
  PROVE  /\ ProfileType' /\ session' = None /\ authLoading' = TRUE /\ leaving' = "no" /\ queries' \subseteq Query
         /\ fallback' = "waits" /\ asked' = "no"
<1>1. queries' \subseteq Query BY DEF Started, Query
<1> QED BY <1>1, BlankType DEF Started, ProfileType

LEMMA EnterType ==
  ASSUME TypeInv, EnterProfile
  PROVE  ProfileType'
<1>1. CachedState \in AppState \cup {None} /\ (Usable(cache) => cache \in AppState)
  BY CachedType DEF TypeInv
<1>2. Usable(cache) \in BOOLEAN BY DEF Usable
<1>3. load' \in Load BY <1>1, BlankType DEF EnterProfile, Load
<1>4. app' \in AppState BY <1>1 DEF EnterProfile, applyAppState, TypeInv
<1> QED BY <1>1, <1>2, <1>3, <1>4 DEF EnterProfile, ProfileType

LEMMA LeaveType ==
  ASSUME TypeInv, LeaveProfile, app' \in AppState
  PROVE  ProfileType'
BY DEF LeaveProfile, ProfileType

(* What an answer to a question for the session may do to session and profile. *)
LEMMA AnswerMoves ==
  ASSUME TypeInv, NEW q \in queries, QueryAnswered(q)
  PROVE  \/ q.answer \in Users /\ session' = q.answer /\ EnterProfile
         \/ q.kind = "initial" /\ q.answer = "error" /\ session' = None /\ LeaveProfile /\ UNCHANGED app
         \/ q.answer \in Users /\ session' = session /\ session = q.answer /\ q.kind \in {"initial", "slow"} /\ (Wait \/ Resume)
         \/ /\ q.kind = "slow" /\ q.answer = "error" /\ profileLoading' = FALSE
            /\ UNCHANGED <<session, loaded, ready, load, app, timer>>
         \/ (q.answer = "error" \/ session = q.answer) /\ UNCHANGED <<session, profileVars>>
<1>1. q.answer \in Users \/ q.answer = "error" BY UsersAssumption DEF QueryAnswered, TypeInv, Query
<1>2. q.kind \in {"initial", "refresh", "slow", "revoked"} BY DEF TypeInv, Query
<1>3. CASE q.kind = "initial" /\ q.answer = "error"
  <2>1. InitialSession(None) BY <1>3 DEF QueryAnswered
  <2> QED BY <1>3, <2>1 DEF InitialSession
<1>4. CASE q.kind = "initial" /\ q.answer # "error"
  <2>1. InitialSession(q.answer) BY <1>4 DEF QueryAnswered
  <2> QED BY <1>1, <1>4, <2>1, UsersAssumption DEF InitialSession
<1>5. CASE q.kind \in {"refresh", "revoked"} /\ q.answer = "error"
  BY <1>5 DEF QueryAnswered
<1>6. CASE q.kind \in {"refresh", "revoked"} /\ q.answer # "error"
  <2>1. RefreshedSession(q.answer) BY <1>6 DEF QueryAnswered
  <2> QED BY <1>1, <1>6, <2>1, UsersAssumption DEF RefreshedSession, ProfileEffects
<1>7. CASE q.kind = "slow" /\ q.answer = "error"
  BY <1>7 DEF QueryAnswered
<1>8. CASE q.kind = "slow" /\ q.answer # "error"
  <2>1. SlowSession(q.answer) BY <1>8 DEF QueryAnswered
  <2> QED BY <1>1, <1>8, <2>1 DEF SlowSession
<1> QED BY <1>2, <1>3, <1>4, <1>5, <1>6, <1>7, <1>8

LEMMA SessionStepsType ==
  ASSUME TypeInv
  PROVE  /\ Reload => TypeInv'
         /\ \A u \in Users : SignIn(u) => TypeInv'
         /\ FallbackDue \/ AskSlow \/ SignOut \/ ServeSignOut \/ SignedOut \/ Expire \/ Revoke => TypeInv'
<1>0. ASSUME NewPage PROVE /\ saves' \in Seq(Saves)
                           /\ ProfileType' /\ session' = None /\ authLoading' = TRUE /\ leaving' = "no"
                           /\ queries' \subseteq Query /\ fallback' = "waits" /\ asked' = "no"
  <2>1. saves' \in Seq(Saves)
    <3>1. Orphans \in Seq(Saves)
      <4>1. \A i \in DOMAIN saves : saves[i] \in Saves BY DEF TypeInv
      <4>2. \A i \in DOMAIN saves : <<Head(saves[i].todo)>> \in Seq(Requests)
        BY <4>1 DEF Saves, Save
      <4>3. \A i \in DOMAIN saves : [saves[i] EXCEPT !.todo = <<Head(@)>>] \in Saves
        BY <4>1, <4>2 DEF Saves, Save
      <4>4. DOMAIN saves = 1..Len(saves) /\ Len(saves) \in Nat BY DEF TypeInv
      <4> QED BY <4>3, <4>4 DEF Orphans
    <3>2. saves' = <<>> \/ saves' = Orphans BY <1>0 DEF NewPage
    <3>3. <<>> \in Seq(Saves) OBVIOUS
    <3> QED BY <3>1, <3>2, <3>3
  <2> QED BY <1>0, <2>1, StartedType DEF NewPage
<1>1. ASSUME Reload PROVE TypeInv'
  BY <1>0, <1>1 DEF Reload, TypeInv, ProfileType, serverVars
<1>2. ASSUME NEW u \in Users, SignIn(u) PROVE TypeInv'
  <2>1. CASE "in_place" \in Faults
    <3>1. queries' \subseteq Query
      <4>1. queries' = queries \cup {[kind |-> "refresh", answer |-> None]} BY <1>2, <2>1 DEF SignIn
      <4>2. [kind |-> "refresh", answer |-> None] \in Query BY DEF Query
      <4> QED BY <4>1, <4>2 DEF TypeInv
    <3>2. cookie' \in Users \cup {None} /\ authLoading' \in BOOLEAN BY <1>2, <2>1 DEF SignIn
    <3>3. UNCHANGED <<session, leaving, fallback, asked, profileVars, saves, backup, rows, spilled, cache, edits>>
      BY <1>2, <2>1 DEF SignIn
    <3> QED BY <3>1, <3>2, <3>3 DEF TypeInv, profileVars
  <2>2. CASE "in_place" \notin Faults
    <3>1. NewPage /\ cookie' = u /\ UNCHANGED <<backup, rows, spilled, cache, edits>>
      BY <1>2, <2>2 DEF SignIn
    <3> QED BY <1>0, <3>1 DEF TypeInv, ProfileType
  <2> QED BY <2>1, <2>2
<1>3. ASSUME AskSlow PROVE TypeInv'
  <2>1. queries' \subseteq Query BY <1>3 DEF AskSlow, TypeInv, Query
  <2> QED BY <1>3, <2>1 DEF AskSlow, TypeInv, serverVars, profileVars
<1>9. ASSUME FallbackDue PROVE TypeInv'
  <2>1. authLoading' \in BOOLEAN /\ profileLoading' \in BOOLEAN BY <1>9 DEF FallbackDue, TypeInv
  <2>2. asked' \in {"no", "yes", "lost"} BY <1>9, WaitType DEF FallbackDue, TypeInv
  <2> QED BY <1>9, <2>1, <2>2 DEF FallbackDue, TypeInv, serverVars
<1>4. ASSUME SignOut PROVE TypeInv'
  BY <1>4 DEF SignOut, TypeInv, serverVars, profileVars
<1>5. ASSUME ServeSignOut PROVE TypeInv'
  BY <1>5 DEF ServeSignOut, TypeInv, profileVars
<1>6. ASSUME SignedOut PROVE TypeInv'
  <2>1. ProfileType' /\ app' \in AppState
    BY <1>6, BlankType, LeaveType DEF SignedOut, resetRuntimeState, applyAppState
  <2>2. asked' \in {"no", "yes", "lost"} BY <1>6, WaitType DEF SignedOut, TypeInv
  <2> QED BY <1>6, <2>1, <2>2 DEF SignedOut, TypeInv, ProfileType, serverVars
<1>7. ASSUME Expire PROVE TypeInv'
  BY <1>7 DEF Expire, TypeInv, sessionVars, profileVars
<1>8. ASSUME Revoke PROVE TypeInv'
  <2>1. queries' \subseteq Query BY <1>8 DEF Revoke, TypeInv, Query
  <2> QED BY <1>8, <2>1 DEF Revoke, TypeInv, profileVars
<1> QED BY <1>1, <1>2, <1>3, <1>4, <1>5, <1>6, <1>7, <1>8, <1>9

LEMMA AnswerStepsType ==
  ASSUME TypeInv
  PROVE  /\ \A q \in queries : ServeQuery(q) \/ QueryAnswered(q) \/ QueryRejected(q) => TypeInv'
         /\ ServeLoad \/ LoadAnswered => TypeInv'
<1>1. ASSUME NEW q \in queries, ServeQuery(q) PROVE TypeInv'
  <2>1. queries' \subseteq Query
    <3>1. \A a \in Users \cup {None, "error", "rejected"} : [q EXCEPT !.answer = a] \in Query BY DEF TypeInv, Query
    <3>2. PICK a \in Answer : queries' = (queries \ {q}) \cup {[q EXCEPT !.answer = a]}
      BY <1>1 DEF ServeQuery
    <3>3. a \in Users \cup {None, "error", "rejected"} BY DEF TypeInv, Answer
    <3> QED BY <3>1, <3>2, <3>3 DEF TypeInv
  <2> QED BY <1>1, <2>1 DEF ServeQuery, TypeInv, serverVars, profileVars
<1>2. ASSUME NEW q \in queries, QueryAnswered(q) PROVE TypeInv'
  <2>1. queries' \subseteq Query /\ authLoading' \in BOOLEAN /\ UNCHANGED <<serverVars, cache, leaving, saves, edits>>
    BY <1>2 DEF QueryAnswered, TypeInv
  <2>2. session' \in Users \cup {None} /\ ProfileType'
    <3>1. CASE q.answer \in Users /\ session' = q.answer /\ EnterProfile
      BY <3>1, EnterType
    <3>2. CASE session' = None /\ LeaveProfile /\ UNCHANGED app
      BY <3>2, LeaveType DEF TypeInv
    <3>3. CASE session' = session /\ (Wait \/ Resume)
      BY <3>3 DEF Wait, Resume, TypeInv, ProfileType
    <3>4. CASE profileLoading' = FALSE /\ UNCHANGED <<session, loaded, ready, load, app, timer>>
      BY <3>4 DEF TypeInv, ProfileType
    <3>5. CASE UNCHANGED <<session, profileVars>>
      BY <3>5 DEF TypeInv, ProfileType, profileVars
    <3> QED BY <1>2, <3>1, <3>2, <3>3, <3>4, <3>5, AnswerMoves
  <2>3. fallback' \in {"waits", "clears", "past"} BY <1>2, ResolvedType DEF QueryAnswered, TypeInv
  <2>4. asked' \in {"no", "yes", "lost"} BY <1>2, WaitType DEF QueryAnswered, TypeInv
  <2> QED BY <2>1, <2>2, <2>3, <2>4 DEF TypeInv, ProfileType, serverVars
<1>5. ASSUME NEW q \in queries, QueryRejected(q) PROVE TypeInv'
  <2>1. queries' \subseteq Query /\ UNCHANGED <<serverVars, cache, session, loaded, ready, leaving, load, app, timer, saves, edits>>
    BY <1>5 DEF QueryRejected, TypeInv
  <2>2. authLoading' \in BOOLEAN /\ profileLoading' \in BOOLEAN BY <1>5 DEF QueryRejected, TypeInv
  <2>3. fallback' \in {"waits", "clears", "past"} BY <1>5, ResolvedType DEF QueryRejected, TypeInv
  <2>4. asked' \in {"no", "yes", "lost"}
    <3> DEFINE a == IF asked = "yes" /\ authLoading' /\ queries' = {} THEN "lost" ELSE asked
    <3>1. a \in {"no", "yes", "lost"} BY DEF TypeInv
    <3>2. WaitGoesOn(a) BY <1>5 DEF QueryRejected
    <3> HIDE DEF a
    <3> QED BY <3>1, <3>2, WaitType
  <2> QED BY <2>1, <2>2, <2>3, <2>4 DEF TypeInv, serverVars
<1>3. ASSUME ServeLoad PROVE TypeInv'
  <2>1. load' \in Load
    <3>1. load \in Load BY <1>3 DEF ServeLoad, TypeInv
    <3>2. CASE cookie # None /\ load' = [load EXCEPT !.answer = "ok", !.backup = backup[cookie], !.rows = rows[cookie]]
      <4>1. backup[cookie] \in AppState /\ rows[cookie] \in Rows BY <3>2 DEF TypeInv
      <4> QED BY <3>1, <3>2, <4>1 DEF Load
    <3>3. CASE load' = [load EXCEPT !.answer = "error"]
      BY <3>1, <3>3 DEF Load
    <3> QED BY <1>3, <3>2, <3>3 DEF ServeLoad
  <2> QED BY <1>3, <2>1 DEF ServeLoad, TypeInv, serverVars, sessionVars
<1>4. ASSUME LoadAnswered PROVE TypeInv'
  <2>1. ProfileType'
    <3>1. load \in Load BY <1>4 DEF LoadAnswered, TypeInv
    <3>2. BaseState \in AppState BY <3>1, BlankType DEF BaseState, Load
    <3>3. Hydrated(BaseState, load.rows) \in AppState
      BY <3>1, <3>2 DEF Hydrated, Load, Rows, AppState, Room
    <3>4. ASSUME NEW state \in AppState, Apply(state) PROVE ProfileType'
      BY <3>4 DEF Apply, applyAppState, ProfileType
    <3>5. CASE load.answer = "ok" BY <1>4, <3>3, <3>4, <3>5 DEF LoadAnswered
    <3>6. CASE load.answer = "error" /\ load.stage = "profile"
      <4>1. load' = [load EXCEPT !.stage = "fallback", !.answer = "none"]
            /\ UNCHANGED <<loaded, ready, profileLoading, app, timer>>
        BY <1>4, <3>6 DEF LoadAnswered
      <4>2. load' \in Load BY <3>1, <4>1 DEF Load
      <4> QED BY <4>1, <4>2 DEF ProfileType, TypeInv
    <3>7. CASE load.answer = "error" /\ load.stage = "fallback"
      BY <1>4, <3>2, <3>4, <3>7 DEF LoadAnswered
    <3> QED BY <1>4, <3>1, <3>5, <3>6, <3>7 DEF LoadAnswered, Load
  <2>2. asked' \in {"no", "yes", "lost"} BY <1>4, WaitType DEF LoadAnswered, TypeInv
  <2> QED BY <1>4, <2>1, <2>2 DEF LoadAnswered, TypeInv, ProfileType, serverVars
<1> QED BY <1>1, <1>2, <1>3, <1>4, <1>5

LEMMA NewSaveType ==
  ASSUME TypeInv, NEW state \in AppState, NEW todo \in Seq(Requests), todo # <<>>, NEW of \in Users \cup {None}
  PROVE  NewSave(state, todo, of) \in Saves
BY DEF NewSave, Saves, Save, TypeInv

LEMMA EditStepsType ==
  ASSUME TypeInv
  PROVE  Change \/ OpenRoom \/ SaveRoomSettings \/ DeleteRoom \/ AutosaveDue => TypeInv'
<1>1. ASSUME Change PROVE TypeInv'
  <2> DEFINE v == <<session, edits + 1>>
             state == [app EXCEPT !.notes = v, !.character = v, !.personas = v]
  <2>1. Scheduled(state) /\ edits' = edits + 1 /\ edits < MaxEdits BY <1>1 DEF Change
  <2>2. session \in Users BY <2>1 DEF Scheduled, TypeInv
  <2>3. edits + 1 \in 1..MaxEdits BY <2>1, UsersAssumption DEF TypeInv
  <2>4. v \in Part BY <2>2, <2>3 DEF Part, Versions
  <2>5. state \in AppState BY <2>4 DEF TypeInv, AppState
  <2>6. app' \in AppState /\ timer' \in AppState \cup {None} BY <2>1, <2>5 DEF Scheduled
  <2>7. edits' \in 0..MaxEdits BY <2>1, <2>3
  <2>8. UNCHANGED <<serverVars, cache, sessionVars, loaded, ready, profileLoading, load, saves>> BY <1>1 DEF Change
  <2> QED BY <2>6, <2>7, <2>8 DEF TypeInv, serverVars, sessionVars
<1>2. ASSUME OpenRoom PROVE TypeInv'
  <2>1. [app EXCEPT !.room = "live"] \in AppState BY DEF TypeInv, AppState, Room
  <2> QED BY <1>2, <2>1 DEF OpenRoom, Scheduled, TypeInv, serverVars, sessionVars
<1>3. ASSUME SaveRoomSettings PROVE TypeInv'
  BY <1>3 DEF SaveRoomSettings, TypeInv, serverVars, sessionVars, profileVars
<1>4. ASSUME DeleteRoom PROVE TypeInv'
  <2>1. [app EXCEPT !.room = "deleted"] \in AppState BY DEF TypeInv, AppState, Room
  <2>2. app' \in AppState /\ timer' \in AppState BY <1>4, <2>1 DEF DeleteRoom, Scheduled
  <2>3. <<"delete", "rows", "profile", "rows">> \in Seq(Requests) BY DEF Requests
  <2>4. NewSave(app', <<"delete", "rows", "profile", "rows">>, session) \in Saves
    BY <2>2, <2>3, NewSaveType DEF TypeInv
  <2>5. saves' \in Seq(Saves) BY <1>4, <2>4 DEF DeleteRoom, TypeInv
  <2> QED BY <1>4, <2>2, <2>5 DEF DeleteRoom, TypeInv, serverVars, sessionVars
<1>5. ASSUME AutosaveDue PROVE TypeInv'
  <2>1. timer \in AppState BY <1>5 DEF AutosaveDue, TypeInv
  <2>2. <<"profile", "rows">> \in Seq(Requests) BY DEF Requests
  <2>3. NewSave(timer, <<"profile", "rows">>, session) \in Saves BY <2>1, <2>2, NewSaveType DEF TypeInv
  <2>4. saves' \in Seq(Saves) BY <1>5, <2>3 DEF AutosaveDue, TypeInv
  <2> QED BY <1>5, <2>4 DEF AutosaveDue, TypeInv, serverVars, sessionVars
<1> QED BY <1>1, <1>2, <1>3, <1>4, <1>5

LEMMA SaveStepsType ==
  ASSUME TypeInv, NEW i \in DOMAIN saves
  PROVE  ServeSave(i) \/ SaveAnswered(i) => TypeInv'
<1>1. saves[i] \in Saves /\ saves[i].state \in AppState /\ saves[i].todo \in Seq(Requests) /\ saves[i].todo # <<>>
  BY DEF TypeInv, Saves, Save
<1>2. ASSUME ServeSave(i) PROVE TypeInv'
  <2>1. saves' \in Seq(Saves)
    <3>1. [saves[i] EXCEPT !.served = TRUE] \in Saves BY <1>1 DEF Saves, Save
    <3>2. saves' = [saves EXCEPT ![i] = [saves[i] EXCEPT !.served = TRUE]] BY <1>2 DEF ServeSave
    <3> QED BY <3>1, <3>2 DEF TypeInv
  <2>2. backup' \in [Users -> AppState] /\ rows' \in [Users -> Rows]
    <3>1. CASE cookie # None /\ saves[i].as = cookie /\ Stored(saves[i])
      <4>1. Upserted(rows[cookie], saves[i].state) \in Rows
        BY <1>1, <3>1 DEF TypeInv, Upserted, Rows, AppState, Room
      <4>2. [rows[cookie] EXCEPT !.room = "none"] \in Rows BY <3>1 DEF TypeInv, Rows, Room
      <4>3. Head(saves[i].todo) \in Requests BY <1>1
      <4>4. CASE Head(saves[i].todo) = "profile"
        <5>1. backup' = [backup EXCEPT ![cookie] = saves[i].state] /\ rows' = rows BY <3>1, <4>4 DEF Stored
        <5> QED BY <1>1, <5>1 DEF TypeInv
      <4>5. CASE Head(saves[i].todo) = "rows"
        <5>1. rows' = [rows EXCEPT ![cookie] = Upserted(rows[cookie], saves[i].state)] /\ backup' = backup
          BY <3>1, <4>5 DEF Stored
        <5> QED BY <4>1, <5>1 DEF TypeInv
      <4>6. CASE Head(saves[i].todo) = "delete"
        <5>1. rows' = [rows EXCEPT ![cookie] = [rows[cookie] EXCEPT !.room = "none"]] /\ backup' = backup
          BY <3>1, <4>6 DEF Stored
        <5> QED BY <4>2, <5>1 DEF TypeInv
      <4> QED BY <4>3, <4>4, <4>5, <4>6 DEF Requests
    <3>2. CASE UNCHANGED <<backup, rows>>
      BY <3>2 DEF TypeInv
    <3> QED BY <1>2, <3>1, <3>2 DEF ServeSave
  <2> QED BY <1>2, <2>1, <2>2 DEF ServeSave, TypeInv, sessionVars, profileVars
<1>3. ASSUME SaveAnswered(i) PROVE TypeInv'
  <2>1. saves' \in Seq(Saves)
    <3>1. CASE saves' = RemoveAt(saves, i)
      BY <3>1, RemoveAtType DEF TypeInv
    <3>2. CASE Len(saves[i].todo) > 1 /\ saves' = [saves EXCEPT ![i] = Continued(saves[i])]
      <4> DEFINE kept == IF Head(saves[i].todo) = "profile" THEN WithDeleted(saves[i].state) ELSE saves[i].state
      <4>1. kept \in AppState BY <1>1 DEF WithDeleted, AppState, Room
      <4>2. Tail(saves[i].todo) \in Seq(Requests) /\ Tail(saves[i].todo) # <<>>
        <5> DEFINE todo == saves[i].todo
        <5>1. todo \in Seq(Requests) /\ todo # <<>> /\ Len(todo) > 1 BY <1>1, <3>2
        <5> HIDE DEF todo
        <5>2. Len(Tail(todo)) = Len(todo) - 1 /\ Len(todo) \in Nat /\ Len(todo) # 0 BY <5>1
        <5>3. Tail(todo) \in Seq(Requests) BY <5>1
        <5>4. Len(Tail(todo)) # 0 BY <5>1, <5>2
        <5>5. Tail(todo) # <<>> BY <5>3, <5>4, EmptySeq
        <5> QED BY <5>3, <5>5 DEF todo
      <4>3. saves[i].of \in Users \cup {None} BY <1>1 DEF Saves, Save
      <4>4. Continued(saves[i]) \in Saves
        <5>1. NewSave(kept, Tail(saves[i].todo), saves[i].of) \in Saves BY <4>1, <4>2, <4>3, NewSaveType
        <5> QED BY <5>1 DEF Continued
      <4> QED BY <3>2, <4>4 DEF TypeInv
    <3> QED BY <1>3, <3>1, <3>2 DEF SaveAnswered
  <2>2. spilled' \subseteq Users BY <1>3 DEF SaveAnswered, TypeInv
  <2> QED BY <1>3, <2>1, <2>2 DEF SaveAnswered, TypeInv, sessionVars, profileVars
<1> QED BY <1>2, <1>3

LEMMA TypeStep == TypeInv /\ [Next]_vars => TypeInv'
<1> SUFFICES ASSUME TypeInv, [Next]_vars PROVE TypeInv' OBVIOUS
<1>1. CASE UNCHANGED vars
  BY <1>1 DEF vars, serverVars, sessionVars, profileVars, TypeInv
<1>2. CASE Next
  BY <1>2, SessionStepsType, AnswerStepsType, EditStepsType, SaveStepsType DEF Next
<1> QED BY <1>1, <1>2

(* Whatever goes wrong, the parts of the client's state and of the server's keep their types. *)
THEOREM TypeCorrect == Spec => []TypeOK
<1>1. TypeInv => TypeOK BY DEF TypeInv, TypeOK, Saves, Save
<1> QED BY <1>1, InitType, TypeStep, PTL DEF Spec

-----------------------------------------------------------------------------
(* What a step keeps of the invariant when it leaves its variables alone. *)

LEMMA RegimeFacts ==
  ASSUME Regime
  PROVE  /\ "slow" \notin Faults
         /\ {"failure", "closing", "expiry", "revoked"} \cap Faults # {} => ~ Orderly
         /\ "rooms" \in Faults => Orderly
BY DEF Regime, Orderly, NoCopies

LEMMA KeptQuery ==
  ASSUME QueryInv, UNCHANGED <<queries, authLoading, session>>, cookie' \in {cookie, None}
  PROVE  QueryInv'
BY DEF QueryInv

LEMMA KeptWait ==
  ASSUME WaitInv, UNCHANGED <<session, authLoading, loaded, ready, profileLoading, load>>, cookie' \in {cookie, None}
  PROVE  WaitInv'
BY DEF WaitInv

LEMMA KeptProfile ==
  ASSUME ProfileInv, UNCHANGED <<session, app, timer, load, spilled>>
  PROVE  ProfileInv'
BY DEF ProfileInv

LEMMA KeptSaves ==
  ASSUME SavesInv, UNCHANGED <<saves, spilled>>
  PROVE  SavesInv'
BY DEF SavesInv

LEMMA KeptStore ==
  ASSUME StoreInv, UNCHANGED <<backup, rows, spilled>>
  PROVE  StoreInv'
BY DEF StoreInv

LEMMA KeptCopy ==
  ASSUME CopyInv, UNCHANGED <<cache, session, cookie, queries, leaving, authLoading, spilled>>
  PROVE  CopyInv'
BY DEF CopyInv, OrderlyInv, CopyOf

LEMMA OwnedBlank == \A u : Owned(spilled, u, blankAppState) /\ OwnedRows(spilled, u, NoRows)
BY DEF Owned, OwnedRows, By, Tame, blankAppState, NoRows

(* What is owned stays so when a save of another goes on in a user's session. *)
LEMMA SpilledMore ==
  ASSUME NEW S, NEW T, S \subseteq T
  PROVE  /\ \A u, s : Owned(S, u, s) => Owned(T, u, s)
         /\ \A u, r : OwnedRows(S, u, r) => OwnedRows(T, u, r)
BY DEF By, Owned, OwnedRows

LEMMA InitApart == Init => Apart
<1> SUFFICES ASSUME Init PROVE Apart OBVIOUS
<1>1. QueryInv BY UsersAssumption DEF Init, QueryInv
<1>2. SessionInv /\ WaitInv BY DEF Init, SessionInv, WaitInv
<1>3. ProfileInv BY DEF Init, ProfileInv
<1>4. SavesInv BY DEF Init, SavesInv
<1>5. StoreInv BY OwnedBlank DEF Init, StoreInv
<1>6. CopyInv BY DEF Init, CopyInv, OrderlyInv
<1> QED BY <1>1, <1>2, <1>3, <1>4, <1>5, <1>6 DEF Apart

(* A new page has one question, and shows and saves nothing; what is left of saves is whose it was. *)
LEMMA NewPageApart ==
  ASSUME TypeInv, SavesInv, NewPage, UNCHANGED spilled
  PROVE  QueryInv' /\ WaitInv' /\ SessionInv' /\ ProfileInv' /\ SavesInv'
<1>1. Started BY DEF NewPage
<1>2. QueryInv' BY <1>1, UsersAssumption DEF Started, QueryInv
<1>3. WaitInv' /\ SessionInv' /\ ProfileInv' BY <1>1 DEF Started, WaitInv, SessionInv, ProfileInv
<1>4. SavesInv'
  <2>1. CASE saves' = <<>> BY <2>1 DEF SavesInv
  <2>2. CASE saves' = Orphans
    <3>1. DOMAIN saves' = DOMAIN saves BY <2>2 DEF Orphans
    <3>2. \A i \in DOMAIN saves : saves[i] \in Save BY DEF TypeInv, Saves
    <3>3. \A i \in DOMAIN saves : saves'[i] = [saves[i] EXCEPT !.todo = <<Head(saves[i].todo)>>]
      BY <2>2 DEF Orphans
    <3>4. \A i \in DOMAIN saves :
            saves'[i].of = saves[i].of /\ saves'[i].as = saves[i].as /\ saves'[i].state = saves[i].state
      BY <3>2, <3>3 DEF Save
    <3> QED BY <3>1, <3>4 DEF SavesInv
  <2> QED BY <2>1, <2>2 DEF NewPage
<1> QED BY <1>2, <1>3, <1>4

LEMMA ReloadApart ==
  ASSUME Regime, TypeInv, Apart, Reload
  PROVE  Apart'
<1>1. UNCHANGED <<serverVars, cache>> /\ NewPage BY DEF Reload
<1>2. QueryInv' /\ WaitInv' /\ SessionInv' /\ ProfileInv' /\ SavesInv'
  BY <1>1, NewPageApart DEF Apart, serverVars
<1>3. StoreInv' BY <1>1, KeptStore DEF serverVars, Apart
<1>4. CopyInv'
  <2>1. UNCHANGED <<cache, cookie, spilled>> /\ session' = None /\ authLoading' = TRUE
    BY <1>1 DEF NewPage, Started, serverVars
  <2>2. queries' # {} /\ \A q \in queries' : q.answer = None BY <1>1 DEF NewPage, Started
  <2>3. leaving' = "no" BY <1>1 DEF NewPage, Started
  <2>4. ASSUME Orderly PROVE leaving = "no" BY <2>4, RegimeFacts DEF Reload
  <2> QED BY <2>1, <2>2, <2>3, <2>4 DEF Apart, CopyInv, OrderlyInv, CopyOf
<1> QED BY <1>2, <1>3, <1>4 DEF Apart

LEMMA SignInApart ==
  ASSUME Regime, TypeInv, Apart, NEW u \in Users, SignIn(u)
  PROVE  Apart'
<1>1. queries = {} /\ session = None /\ cookie' = u /\ u # None /\ UNCHANGED <<backup, rows, spilled, cache>>
  BY UsersAssumption DEF SignIn, Apart, QueryInv
<1>2. cache = None /\ cache' = None BY <1>1 DEF SignIn, Apart, CopyInv, OrderlyInv, CopyOf
<1>3. StoreInv' BY <1>1, KeptStore DEF Apart
<1>4. CASE "in_place" \in Faults
  <2>1. UNCHANGED <<session, leaving, profileVars, saves>> /\ authLoading' = TRUE
    BY <1>4 DEF SignIn
  <2>2. queries' = {[kind |-> "refresh", answer |-> None]} BY <1>1, <1>4 DEF SignIn
  <2>3. QueryInv' BY <1>1, <2>1, <2>2, UsersAssumption DEF QueryInv
  <2>4. SessionInv' /\ WaitInv' BY <1>1, <2>1 DEF Apart, SessionInv, WaitInv, profileVars
  <2>5. ProfileInv' BY <1>1, <2>1 DEF ProfileInv
  <2>6. SavesInv' BY <1>1, <2>1, KeptSaves DEF Apart
  <2>7. CopyInv' BY <1>1, <1>2, <2>1, <2>2 DEF Apart, SessionInv, CopyInv, OrderlyInv
  <2> QED BY <1>3, <2>3, <2>4, <2>5, <2>6, <2>7 DEF Apart
<1>5. CASE "in_place" \notin Faults
  <2>1. NewPage BY <1>5 DEF SignIn
  <2>2. QueryInv' /\ WaitInv' /\ SessionInv' /\ ProfileInv' /\ SavesInv' BY <1>1, <2>1, NewPageApart DEF Apart
  <2>3. CopyInv' BY <1>2, <2>1 DEF CopyInv, OrderlyInv, NewPage, Started
  <2> QED BY <1>3, <2>2, <2>3 DEF Apart
<1> QED BY <1>4, <1>5

LEMMA ServeQueryApart ==
  ASSUME Regime, TypeInv, Apart, NEW q \in queries, ServeQuery(q)
  PROVE  Apart'
<1>1. UNCHANGED <<serverVars, cache, session, authLoading, leaving, profileVars, saves, edits>> BY DEF ServeQuery
<1>2. PICK a \in Answer : queries' = (queries \ {q}) \cup {[q EXCEPT !.answer = a]} BY DEF ServeQuery
<1>3. queries' = {[q EXCEPT !.answer = a]} BY <1>2 DEF Apart, QueryInv
<1>4. q \in Query BY DEF TypeInv
<1>5. \A p \in queries' : p.kind = q.kind /\ p.answer = a BY <1>3, <1>4 DEF Query
<1>6. cookie \in Users \cup {None} BY DEF TypeInv
<1>7. a \in Users => cookie = a /\ cookie # None BY UsersAssumption DEF Answer
<1>8. QueryInv'
  <2>1. \A p, r \in queries' : p = r BY <1>3
  <2>2. authLoading' = TRUE BY <1>1 DEF Apart, QueryInv, TypeInv
  <2>3. (session # None \/ q.kind = "revoked" => cookie = None) /\ (q.kind \in {"initial", "refresh"} => session = None)
    BY DEF Apart, QueryInv
  <2> QED BY <1>1, <1>5, <1>7, <2>1, <2>2, <2>3 DEF QueryInv, serverVars
<1>9. CopyInv'
  <2>1. CASE ~ Orderly BY <1>1, <2>1 DEF Apart, CopyInv
  <2>2. CASE Orderly
    <3>1. a = (IF cookie = None THEN "error" ELSE cookie) BY <2>2, RegimeFacts DEF Failing, Answer
    <3>2. \A p \in queries' : cookie = (IF p.answer = "error" THEN None ELSE p.answer)
      BY <1>5, <1>6, <3>1, UsersAssumption
    <3>3. queries' # {} BY <1>3
    <3> QED BY <1>1, <2>2, <3>2, <3>3 DEF Apart, CopyInv, OrderlyInv, CopyOf, serverVars
  <2> QED BY <2>1, <2>2
<1>10. SessionInv' BY <1>1 DEF Apart, SessionInv, serverVars, profileVars
<1>11. WaitInv' BY <1>1, KeptWait DEF Apart, serverVars, profileVars
<1> QED BY <1>1, <1>8, <1>9, <1>10, <1>11, KeptProfile, KeptSaves, KeptStore DEF Apart, serverVars, profileVars

(* The session that is entered is that of the cookie, and so is the copy that is shown. *)
LEMMA QueryAnsweredApart ==
  ASSUME Regime, TypeInv, Apart, NEW q \in queries, QueryAnswered(q)
  PROVE  Apart'
<1>1. queries' = {} /\ authLoading' = FALSE /\ UNCHANGED <<serverVars, cache, leaving, saves, edits>>
  BY DEF QueryAnswered, Apart, QueryInv
<1>2. /\ q.kind \in {"initial", "refresh"} => session = None
      /\ q.answer \in Users => session = None /\ q.kind # "revoked" /\ cookie \in {q.answer, None}
      /\ q.answer # None
  BY DEF QueryAnswered, Apart, QueryInv
<1>3. ASSUME Orderly PROVE cookie = (IF q.answer = "error" THEN None ELSE q.answer)
  BY <1>2, <1>3 DEF Apart, CopyInv, OrderlyInv
<1>4. QueryInv' BY <1>1 DEF QueryInv
<1>5. SavesInv' /\ StoreInv' BY <1>1, KeptSaves, KeptStore DEF Apart, serverVars
<1>6. CASE q.answer \in Users /\ session' = q.answer /\ EnterProfile
  <2>1. session = None /\ app = blankAppState /\ leaving = "no" /\ q.answer \notin {None, "error"}
    BY <1>2, <1>6, UsersAssumption DEF Apart, SessionInv
  <2>2. cache # None => Orderly /\ cookie = q.answer /\ Owned(spilled, q.answer, cache)
    BY <1>3, <2>1 DEF Apart, CopyInv, OrderlyInv, CopyOf
  <2>3. SessionInv' BY <1>1, <1>2, <1>6, <2>1 DEF SessionInv, serverVars
  <2>4. (app' = cache /\ cache # None) \/ app' = blankAppState
    BY <1>6, <2>1 DEF EnterProfile, applyAppState, Usable
  <2>5. CachedState # None => CachedState = cache BY DEF CachedState
  <2>6. ProfileInv'
    <3>0. UNCHANGED spilled BY <1>1 DEF serverVars
    <3>1. Owned(spilled, session', app') BY <1>6, <2>2, <2>4, OwnedBlank
    <3>2. timer' # None => Owned(spilled, session', timer') BY <1>6, <2>2, <2>5 DEF EnterProfile
    <3>3. load'.base # None => Owned(spilled, session', load'.base) BY <1>6, <2>2, <2>5 DEF EnterProfile
    <3>4. Owned(spilled, session', load'.backup) /\ OwnedRows(spilled, session', load'.rows)
      BY <1>6, OwnedBlank DEF EnterProfile
    <3> QED BY <3>0, <3>1, <3>2, <3>3, <3>4 DEF ProfileInv
  <2>7. CopyInv'
    BY <1>1, <1>3, <1>6, <2>1, <2>2 DEF Apart, CopyInv, OrderlyInv, CopyOf, serverVars
  <2>8. WaitInv'
    <3>1. load' # None
      <4>1. CachedState \in AppState \cup {None} BY CachedType DEF TypeInv
      <4>2. load' \in Load BY <1>6, <4>1, BlankType DEF EnterProfile, Load
      <4> QED BY <4>2, LoadAssumption
    <3> QED BY <1>1, <1>6, <2>1, <3>1 DEF WaitInv
  <2> QED BY <1>4, <1>5, <2>3, <2>6, <2>7, <2>8 DEF Apart
<1>7. CASE q.kind = "initial" /\ q.answer = "error" /\ session' = None /\ LeaveProfile /\ UNCHANGED app
  <2>1. session = None /\ app = blankAppState /\ leaving = "no" BY <1>2, <1>7 DEF Apart, SessionInv
  <2>2. SessionInv' BY <1>1, <1>7, <2>1 DEF Apart, SessionInv, LeaveProfile
  <2>3. ProfileInv' /\ WaitInv' BY <1>7 DEF ProfileInv, WaitInv, LeaveProfile
  <2>4. CopyInv' BY <1>1, <1>3, <1>7, <2>1 DEF Apart, CopyInv, OrderlyInv, CopyOf, serverVars
  <2> QED BY <1>4, <1>5, <2>2, <2>3, <2>4 DEF Apart
<1>8. CASE (q.answer = "error" \/ session = q.answer) /\ UNCHANGED <<session, profileVars>>
  <2>1. SessionInv' BY <1>1, <1>8 DEF Apart, SessionInv, serverVars, profileVars
  <2>2. ProfileInv' BY <1>1, <1>8, KeptProfile DEF Apart, profileVars, serverVars
  <2>3. CopyInv' BY <1>1, <1>2, <1>3, <1>8 DEF Apart, CopyInv, OrderlyInv, CopyOf, serverVars
  <2>4. WaitInv' BY <1>1, <1>8 DEF Apart, WaitInv, serverVars, profileVars
  <2> QED BY <1>4, <1>5, <2>1, <2>2, <2>3, <2>4 DEF Apart
<1>9. CASE /\ q.kind = "slow" /\ q.answer = "error" /\ profileLoading' = FALSE
           /\ UNCHANGED <<session, loaded, ready, load, app, timer>>
  <2>1. SessionInv' BY <1>1, <1>9 DEF Apart, SessionInv, serverVars
  <2>2. ProfileInv' BY <1>1, <1>9, KeptProfile DEF Apart, serverVars
  <2>3. CopyInv' BY <1>1, <1>2, <1>3, <1>9 DEF Apart, CopyInv, OrderlyInv, CopyOf, serverVars
  <2>4. WaitInv' BY <1>1, <1>9 DEF Apart, WaitInv
  <2> QED BY <1>4, <1>5, <2>1, <2>2, <2>3, <2>4 DEF Apart
<1>10. ~ (q.answer \in Users /\ session = q.answer /\ q.kind \in {"initial", "slow"})
  BY <1>2, UsersAssumption
<1> QED BY <1>6, <1>7, <1>8, <1>9, <1>10, AnswerMoves

(* Nothing is rejected while nothing fails. *)
LEMMA QueryRejectedApart ==
  ASSUME Regime, TypeInv, Apart, NEW q \in queries, QueryRejected(q)
  PROVE  Apart'
<1>1. queries' = {} /\ UNCHANGED <<serverVars, cache, session, leaving, loaded, ready, load, app, timer, saves>>
  BY DEF QueryRejected, Apart, QueryInv
<1>2. ~ Orderly
  <2>1. q.answer = "rejected" BY DEF QueryRejected
  <2>2. cookie # "rejected" /\ "rejected" # None BY UsersAssumption DEF TypeInv
  <2> QED BY <2>1, <2>2 DEF Apart, CopyInv, OrderlyInv
<1>3. (authLoading' => authLoading) /\ (profileLoading' => profileLoading) BY DEF QueryRejected
<1>4. QueryInv' BY <1>1 DEF QueryInv
<1>5. WaitInv' BY <1>1, <1>3 DEF Apart, WaitInv, serverVars
<1>6. SessionInv' BY <1>1 DEF Apart, SessionInv, serverVars
<1>7. CopyInv' BY <1>1, <1>2 DEF Apart, CopyInv
<1> QED BY <1>1, <1>4, <1>5, <1>6, <1>7, KeptProfile, KeptSaves, KeptStore DEF Apart, serverVars

(* While nothing fails, what the user waits for is on its way. *)
LEMMA WaitFacts ==
  ASSUME Apart, queries = {}, load = None
  PROVE  (Busy => authLoading) /\ (Orderly => ~ authLoading)
BY DEF Apart, WaitInv, CopyInv, OrderlyInv, Busy

LEMMA FallbackDueApart ==
  ASSUME Regime, TypeInv, Apart, FallbackDue
  PROVE  Apart'
<1>1. UNCHANGED <<serverVars, cache, queries, session, leaving, loaded, ready, load, app, timer, saves>>
  BY DEF FallbackDue
<1>2. queries = {} /\ load = None BY RegimeFacts DEF FallbackDue, TimersDue
<1>3. /\ authLoading' = FALSE \/ authLoading' = authLoading
      /\ profileLoading' = FALSE \/ profileLoading' = profileLoading
  BY DEF FallbackDue
<1>4. QueryInv' BY <1>1, <1>2 DEF QueryInv
<1>5. WaitInv' BY <1>1, <1>3 DEF Apart, WaitInv, serverVars
<1>6. SessionInv' BY <1>1 DEF Apart, SessionInv, serverVars
<1>7. CopyInv'
  <2>1. CASE ~ Orderly BY <1>1, <2>1 DEF Apart, CopyInv
  <2>2. CASE Orderly
    <3>1. authLoading' = authLoading BY <1>2, <1>3, <2>2, WaitFacts DEF TypeInv
    <3> QED BY <1>1, <3>1, KeptCopy DEF Apart, serverVars
  <2> QED BY <2>1, <2>2
<1> QED BY <1>1, <1>4, <1>5, <1>6, <1>7, KeptProfile, KeptSaves, KeptStore DEF Apart, serverVars

LEMMA AskSlowApart ==
  ASSUME Regime, TypeInv, Apart, AskSlow
  PROVE  Apart'
<1>1. UNCHANGED <<serverVars, cache, session, authLoading, leaving, profileVars, saves>> BY DEF AskSlow
<1>2. queries = {} /\ load = None BY RegimeFacts DEF AskSlow, TimersDue
<1>3. authLoading /\ ~ Orderly BY <1>2, WaitFacts DEF AskSlow
<1>4. queries' = {[kind |-> "slow", answer |-> None]} BY <1>2 DEF AskSlow
<1>5. QueryInv'
  <2>1. session # None => cookie = None BY <1>3 DEF Apart, WaitInv
  <2>2. authLoading' BY <1>1, <1>3
  <2> QED BY <1>1, <1>4, <2>1, <2>2, UsersAssumption DEF QueryInv, serverVars
<1>6. WaitInv' BY <1>1, KeptWait DEF Apart, serverVars, profileVars
<1>7. SessionInv' BY <1>1 DEF Apart, SessionInv, serverVars, profileVars
<1>8. CopyInv' BY <1>1, <1>3 DEF Apart, CopyInv
<1> QED BY <1>1, <1>5, <1>6, <1>7, <1>8, KeptProfile, KeptSaves, KeptStore DEF Apart, serverVars, profileVars

LEMMA ServeLoadApart ==
  ASSUME Regime, TypeInv, Apart, ServeLoad
  PROVE  Apart'
<1>1. UNCHANGED <<serverVars, cache, sessionVars, loaded, ready, profileLoading, app, timer, saves, edits>> /\ load # None
  BY DEF ServeLoad
<1>2. session # None /\ load \in Load /\ cookie \in {session, None} /\ session \in Users
  BY <1>1 DEF Apart, SessionInv, TypeInv
<1>3. /\ load'.base = load.base
      /\ \/ load'.backup = load.backup /\ load'.rows = load.rows
         \/ load'.backup = backup[session] /\ load'.rows = rows[session]
  <2>1. CASE cookie # None /\ load' = [load EXCEPT !.answer = "ok", !.backup = backup[cookie], !.rows = rows[cookie]]
    BY <1>2, <2>1 DEF Load
  <2>2. CASE load' = [load EXCEPT !.answer = "error"]
    BY <1>2, <2>2 DEF Load
  <2> QED BY <2>1, <2>2 DEF ServeLoad
<1>4. ProfileInv' BY <1>1, <1>2, <1>3 DEF Apart, ProfileInv, StoreInv, sessionVars, serverVars
<1>5. SessionInv' BY <1>1, <1>2 DEF Apart, SessionInv, sessionVars, serverVars
<1>6. WaitInv'
  <2>1. load # None BY <1>1
  <2>2. load' # None
    <3>1. cookie \in Users => backup[cookie] \in AppState /\ rows[cookie] \in Rows BY DEF TypeInv
    <3>2. cookie # None => cookie \in Users BY DEF TypeInv
    <3>3. load' \in Load BY <1>2, <3>1, <3>2 DEF ServeLoad, Load
    <3> QED BY <3>3, LoadAssumption
  <2> QED BY <1>1, <1>2, <2>1, <2>2 DEF Apart, WaitInv, sessionVars, serverVars
<1> QED BY <1>1, <1>4, <1>5, <1>6, KeptQuery, KeptSaves, KeptStore, KeptCopy DEF Apart, sessionVars, serverVars

LEMMA ApplyOwned ==
  ASSUME NEW state, Apply(state), Owned(spilled, session, state), UNCHANGED <<session, spilled>>
  PROVE  ProfileInv'
BY DEF Apply, applyAppState, ProfileInv

LEMMA LoadAnsweredApart ==
  ASSUME Regime, TypeInv, Apart, LoadAnswered
  PROVE  Apart'
<1>1. UNCHANGED <<serverVars, cache, session, authLoading, queries, leaving, saves, edits>> /\ load # None
  BY DEF LoadAnswered
<1>2. session # None /\ load \in Load BY <1>1 DEF Apart, SessionInv, TypeInv
<1>3. /\ load.base # None => Owned(spilled, session, load.base)
      /\ Owned(spilled, session, load.backup) /\ OwnedRows(spilled, session, load.rows)
  BY <1>1, <1>2 DEF Apart, ProfileInv
<1>4. Owned(spilled, session, BaseState) BY <1>2, <1>3, OwnedBlank DEF BaseState, Load
<1>5. Owned(spilled, session, Hydrated(BaseState, load.rows))
  <2>1. BaseState \in AppState BY <1>2, BlankType DEF BaseState, Load
  <2> QED BY <1>2, <1>3, <1>4, <2>1 DEF Hydrated, Owned, OwnedRows, AppState, Tame
<1>6. UNCHANGED <<session, spilled>> BY <1>1 DEF serverVars
<1>7. ProfileInv'
  <2>1. CASE load.answer = "ok" BY <1>5, <1>6, <2>1, ApplyOwned DEF LoadAnswered
  <2>2. CASE load.answer = "error" /\ load.stage = "profile"
    <3>1. load' = [load EXCEPT !.stage = "fallback", !.answer = "none"]
          /\ UNCHANGED <<loaded, ready, profileLoading, app, timer>>
      BY <2>2 DEF LoadAnswered
    <3>2. load'.base = load.base /\ load'.backup = load.backup /\ load'.rows = load.rows
      BY <1>2, <3>1 DEF Load
    <3> QED BY <1>1, <1>6, <3>1, <3>2 DEF Apart, ProfileInv
  <2>3. CASE load.answer = "error" /\ load.stage = "fallback"
    BY <1>4, <1>6, <2>3, ApplyOwned DEF LoadAnswered
  <2> QED BY <1>2, <2>1, <2>2, <2>3 DEF LoadAnswered, Load
<1>8. SessionInv' BY <1>1, <1>2 DEF Apart, SessionInv, serverVars
<1>9. WaitInv'
  <2>1. CASE load' # None BY <1>1, <1>2, <2>1 DEF Apart, WaitInv, serverVars
  <2>2. CASE \E state : Apply(state) BY <1>1, <1>2, <2>2 DEF Apply, Apart, WaitInv, serverVars
  <2>3. CASE load.answer = "error" /\ load.stage = "profile"
    <3>1. load' = [load EXCEPT !.stage = "fallback", !.answer = "none"] BY <2>3 DEF LoadAnswered
    <3>2. load' \in Load BY <1>2, <3>1 DEF Load
    <3> QED BY <2>1, <3>2, LoadAssumption
  <2> QED BY <1>2, <2>2, <2>3 DEF LoadAnswered, Load
<1> QED BY <1>1, <1>7, <1>8, <1>9, KeptQuery, KeptSaves, KeptStore, KeptCopy DEF Apart, serverVars

(* A change is made by the user of the session. *)
LEMMA ScheduledOwned ==
  ASSUME Apart, NEW state, Scheduled(state), Owned(spilled, session, state), UNCHANGED <<sessionVars, serverVars, load>>
  PROVE  ProfileInv' /\ SessionInv' /\ session # None
BY DEF Scheduled, Apart, ProfileInv, SessionInv, sessionVars, serverVars

LEMMA ChangeApart ==
  ASSUME Regime, TypeInv, Apart, Change
  PROVE  Apart'
<1> DEFINE v == <<session, edits + 1>>
           state == [app EXCEPT !.notes = v, !.character = v, !.personas = v]
<1>1. UNCHANGED <<serverVars, cache, sessionVars, loaded, ready, profileLoading, load, saves>> BY DEF Change
<1>2. Scheduled(state) BY DEF Change
<1>3. Owned(spilled, session, state)
  <2>1. Owned(spilled, session, app) BY <1>2 DEF Scheduled, Apart, ProfileInv
  <2>2. v[1] = session OBVIOUS
  <2>3. app \in AppState BY DEF TypeInv
  <2> HIDE DEF v
  <2> QED BY <2>1, <2>2, <2>3 DEF Owned, By, AppState
<1> HIDE DEF state
<1>4. ProfileInv' /\ SessionInv' BY <1>1, <1>2, <1>3, ScheduledOwned
<1> QED BY <1>1, <1>4, KeptQuery, KeptWait, KeptSaves, KeptStore, KeptCopy DEF Apart, sessionVars, serverVars

LEMMA OpenRoomApart ==
  ASSUME Regime, TypeInv, Apart, OpenRoom
  PROVE  Apart'
<1> DEFINE state == [app EXCEPT !.room = "live"]
<1>1. UNCHANGED <<serverVars, sessionVars, loaded, ready, profileLoading, load, saves, edits>>
      /\ "rooms" \in Faults /\ cache' = state
  BY DEF OpenRoom
<1>2. Scheduled(state) BY DEF OpenRoom
<1>3. Owned(spilled, session, state)
  <2>1. Owned(spilled, session, app) BY <1>2 DEF Scheduled, Apart, ProfileInv
  <2> QED BY <1>1, <2>1 DEF Owned, Tame, AppState, TypeInv
<1> HIDE DEF state
<1>4. ProfileInv' /\ SessionInv' /\ session # None BY <1>1, <1>2, <1>3, ScheduledOwned
<1>5. CopyInv'
  <2>1. Orderly BY <1>1, RegimeFacts
  <2> QED BY <1>1, <1>3, <1>4, <2>1 DEF Apart, CopyInv, OrderlyInv, CopyOf, sessionVars, serverVars
<1> QED BY <1>1, <1>4, <1>5, KeptQuery, KeptWait, KeptSaves, KeptStore DEF Apart, sessionVars, serverVars

LEMMA SaveRoomSettingsApart ==
  ASSUME Regime, TypeInv, Apart, SaveRoomSettings
  PROVE  Apart'
<1>1. UNCHANGED <<serverVars, sessionVars, profileVars, saves, edits>> /\ app.room = "live" /\ cache' = app
  BY DEF SaveRoomSettings
<1>2. session # None BY <1>1 DEF Apart, SessionInv, blankAppState
<1>3. Owned(spilled, session, app) /\ "rooms" \in Faults BY <1>1, <1>2 DEF Apart, ProfileInv, Owned, Tame
<1>4. CopyInv'
  <2>1. Orderly BY <1>3, RegimeFacts
  <2> QED BY <1>1, <1>2, <1>3, <2>1 DEF Apart, CopyInv, OrderlyInv, CopyOf, sessionVars, serverVars
<1>5. SessionInv' BY <1>1 DEF Apart, SessionInv, sessionVars, serverVars, profileVars
<1> QED BY <1>1, <1>4, <1>5, KeptQuery, KeptWait, KeptProfile, KeptSaves, KeptStore DEF Apart, sessionVars, serverVars, profileVars

(* A request that leaves carries the cookie, which is that of the session if there is one. *)
LEMMA NewSaveOwned ==
  ASSUME TypeInv, SessionInv, SavesInv, session # None, NEW state \in AppState, Owned(spilled, session, state),
         NEW todo, saves' = Append(saves, NewSave(state, todo, session)), UNCHANGED <<cookie, spilled>>
  PROVE  SavesInv'
<1> SUFFICES ASSUME NEW i \in DOMAIN saves'
             PROVE  /\ Owned(spilled, saves'[i].of, saves'[i].state)
                    /\ saves'[i].as # None => saves'[i].as = saves'[i].of \/ saves'[i].as \in spilled
  BY DEF SavesInv
<1>2. CASE i \in DOMAIN saves
  <2>1. saves'[i] = saves[i] BY <1>2 DEF TypeInv
  <2> QED BY <1>2, <2>1 DEF SavesInv
<1>3. CASE i \notin DOMAIN saves
  <2>1. saves'[i] = NewSave(state, todo, session) BY <1>3 DEF TypeInv
  <2>2. saves'[i].of = session /\ saves'[i].as = cookie /\ saves'[i].state = state BY <2>1 DEF NewSave
  <2>3. cookie \in {session, None} BY DEF SessionInv
  <2> QED BY <2>2, <2>3
<1> QED BY <1>2, <1>3

(* What a request may store in the account whose session it carries. *)
LEMMA SaveOwnedAs ==
  ASSUME SavesInv, NEW i \in DOMAIN saves, saves[i].as # None
  PROVE  Owned(spilled, saves[i].as, saves[i].state)
BY DEF SavesInv, Owned, By

LEMMA DeleteRoomApart ==
  ASSUME Regime, TypeInv, Apart, DeleteRoom
  PROVE  Apart'
<1> DEFINE state == [app EXCEPT !.room = "deleted"]
<1>1. UNCHANGED <<serverVars, cache, sessionVars, loaded, ready, profileLoading, load, edits>> BY DEF DeleteRoom
<1>2. Scheduled(state) /\ app' = state BY DEF DeleteRoom, Scheduled
<1>3. Owned(spilled, session, state) /\ state \in AppState
  <2>1. Owned(spilled, session, app) BY <1>2 DEF Scheduled, Apart, ProfileInv
  <2> QED BY <2>1 DEF Owned, Tame, AppState, TypeInv, Room
<1>4. saves' = Append(saves, NewSave(app', <<"delete", "rows", "profile", "rows">>, session)) BY DEF DeleteRoom
<1> HIDE DEF state
<1>5. ProfileInv' /\ SessionInv' /\ session # None BY <1>1, <1>2, <1>3, ScheduledOwned
<1>6. SavesInv' BY <1>1, <1>2, <1>3, <1>4, <1>5, NewSaveOwned DEF Apart, serverVars
<1> QED BY <1>1, <1>5, <1>6, KeptQuery, KeptWait, KeptStore, KeptCopy DEF Apart, sessionVars, serverVars

LEMMA AutosaveDueApart ==
  ASSUME Regime, TypeInv, Apart, AutosaveDue
  PROVE  Apart'
<1>1. UNCHANGED <<serverVars, cache, sessionVars, loaded, ready, profileLoading, load, app, edits>>
      /\ timer # None /\ timer' = None /\ saves' = Append(saves, NewSave(timer, <<"profile", "rows">>, session))
  BY DEF AutosaveDue
<1>2. session # None /\ timer \in AppState BY <1>1 DEF Apart, SessionInv, TypeInv
<1>3. Owned(spilled, session, timer) BY <1>1, <1>2 DEF Apart, ProfileInv
<1>4. SavesInv' BY <1>1, <1>2, <1>3, NewSaveOwned DEF Apart, serverVars
<1>5. ProfileInv' BY <1>1 DEF Apart, ProfileInv, sessionVars, serverVars
<1>6. SessionInv' BY <1>1 DEF Apart, SessionInv, sessionVars, serverVars
<1> QED BY <1>1, <1>4, <1>5, <1>6, KeptQuery, KeptWait, KeptStore, KeptCopy DEF Apart, sessionVars, serverVars

LEMMA ServeSaveApart ==
  ASSUME Regime, TypeInv, Apart, NEW i \in DOMAIN saves, ServeSave(i)
  PROVE  Apart'
<1>1. UNCHANGED <<cookie, spilled, cache, sessionVars, profileVars, edits>> /\ saves' = [saves EXCEPT ![i].served = TRUE]
  BY DEF ServeSave
<1>2. \A j \in DOMAIN saves : saves[j] \in Save BY DEF TypeInv, Saves
<1>3. SavesInv'
  <2>1. DOMAIN saves' = DOMAIN saves BY <1>1 DEF TypeInv
  <2>2. \A j \in DOMAIN saves :
          saves'[j].state = saves[j].state /\ saves'[j].of = saves[j].of /\ saves'[j].as = saves[j].as
    BY <1>1, <1>2 DEF TypeInv, Save
  <2> QED BY <1>1, <2>1, <2>2 DEF Apart, SavesInv
<1>4. StoreInv'
  <2>1. CASE saves[i].as = cookie /\ cookie # None /\ Stored(saves[i])
    <3> DEFINE s == saves[i]
    <3>1. Owned(spilled, cookie, s.state) /\ cookie \in Users /\ s.todo \in Seq(Requests) /\ s.todo # <<>> /\ s.state \in AppState
      BY <1>2, <2>1, SaveOwnedAs DEF Apart, TypeInv, Saves, Save
    <3>2. rows[cookie] \in Rows /\ OwnedRows(spilled, cookie, rows[cookie]) BY <3>1 DEF TypeInv, Apart, StoreInv
    <3>3. Head(s.todo) \in Requests BY <3>1
    <3>4. CASE Head(s.todo) = "profile"
      <4>1. backup' = [backup EXCEPT ![cookie] = s.state] /\ rows' = rows BY <2>1, <3>4 DEF Stored
      <4> QED BY <1>1, <3>1, <4>1 DEF Apart, StoreInv, TypeInv
    <3>5. CASE Head(s.todo) = "rows"
      <4>1. rows' = [rows EXCEPT ![cookie] = Upserted(rows[cookie], s.state)] /\ backup' = backup
        BY <2>1, <3>5 DEF Stored
      <4>2. OwnedRows(spilled, cookie, Upserted(rows[cookie], s.state)) BY <3>1, <3>2 DEF Upserted, OwnedRows, Owned
      <4> QED BY <1>1, <3>1, <4>1, <4>2 DEF Apart, StoreInv, TypeInv
    <3>6. CASE Head(s.todo) = "delete"
      <4>1. rows' = [rows EXCEPT ![cookie] = [rows[cookie] EXCEPT !.room = "none"]] /\ backup' = backup
        BY <2>1, <3>6 DEF Stored
      <4>2. OwnedRows(spilled, cookie, [rows[cookie] EXCEPT !.room = "none"]) BY <3>2 DEF OwnedRows, Rows, Tame
      <4> QED BY <1>1, <3>1, <4>1, <4>2 DEF Apart, StoreInv, TypeInv
    <3> QED BY <3>3, <3>4, <3>5, <3>6 DEF Requests
  <2>2. CASE UNCHANGED <<backup, rows>>
    BY <1>1, <2>2, KeptStore DEF Apart
  <2> QED BY <2>1, <2>2 DEF ServeSave
<1>5. SessionInv' BY <1>1 DEF Apart, SessionInv, sessionVars, profileVars
<1> QED BY <1>1, <1>3, <1>4, <1>5, KeptQuery, KeptWait, KeptProfile, KeptCopy DEF Apart, sessionVars, profileVars

LEMMA SaveAnsweredApart ==
  ASSUME Regime, TypeInv, Apart, NEW i \in DOMAIN saves, SaveAnswered(i)
  PROVE  Apart'
<1>1. UNCHANGED <<cookie, backup, rows, cache, sessionVars, profileVars, edits>> /\ spilled \subseteq spilled'
  BY DEF SaveAnswered
<1>2. SavesInv'
  <2>1. CASE saves' = RemoveAt(saves, i) /\ UNCHANGED spilled
    <3> DEFINE Mine == {s \in Saves : /\ Owned(spilled, s.of, s.state)
                                      /\ s.as # None => s.as = s.of \/ s.as \in spilled}
    <3>1. saves \in Seq(Mine) BY DEF Apart, SavesInv, TypeInv
    <3>2. saves' \in Seq(Mine) BY <2>1, <3>1, RemoveAtType
    <3>3. \A j \in DOMAIN saves' : saves'[j] \in Mine BY <3>2
    <3> QED BY <2>1, <3>3 DEF SavesInv
  <2>2. CASE /\ saves' = [saves EXCEPT ![i] = Continued(saves[i])]
             /\ spilled' = spilled \cup ({cookie} \ {None, saves[i].of})
    <3> DEFINE kept == IF Head(saves[i].todo) = "profile" THEN WithDeleted(saves[i].state) ELSE saves[i].state
    <3>1. saves[i].state \in AppState /\ Owned(spilled, saves[i].of, saves[i].state)
      BY DEF Apart, SavesInv, TypeInv, Saves, Save
    <3>2. Owned(spilled, saves[i].of, kept) BY <3>1 DEF WithDeleted, Owned, AppState, Tame
    <3>3. Continued(saves[i]) = NewSave(kept, Tail(saves[i].todo), saves[i].of) BY DEF Continued
    <3> HIDE DEF kept
    <3>4. saves'[i].state = kept /\ saves'[i].of = saves[i].of /\ saves'[i].as = cookie
      BY <2>2, <3>3 DEF NewSave, TypeInv
    <3>5. \A j \in DOMAIN saves : j # i => saves'[j] = saves[j] BY <2>2 DEF TypeInv
    <3>6. DOMAIN saves' = DOMAIN saves BY <2>2 DEF TypeInv
    <3>7. SUFFICES ASSUME NEW j \in DOMAIN saves
                   PROVE  /\ Owned(spilled', saves'[j].of, saves'[j].state)
                          /\ saves'[j].as # None => saves'[j].as = saves'[j].of \/ saves'[j].as \in spilled'
      BY <3>6 DEF SavesInv
    <3>8. CASE j = i BY <1>1, <2>2, <3>2, <3>4, <3>8, SpilledMore
    <3>9. CASE j # i BY <1>1, <3>5, <3>9, SpilledMore DEF Apart, SavesInv
    <3> QED BY <3>8, <3>9
  <2> QED BY <2>1, <2>2 DEF SaveAnswered
<1>3. SessionInv' BY <1>1 DEF Apart, SessionInv, sessionVars, profileVars
<1>4. ProfileInv' BY <1>1, SpilledMore DEF Apart, ProfileInv, sessionVars, profileVars
<1>5. StoreInv' BY <1>1, SpilledMore DEF Apart, StoreInv
<1>6. CopyInv' BY <1>1, SpilledMore DEF Apart, CopyInv, OrderlyInv, CopyOf, sessionVars
<1> QED BY <1>1, <1>2, <1>3, <1>4, <1>5, <1>6, KeptQuery, KeptWait DEF Apart, sessionVars, profileVars

LEMMA SignOutApart ==
  ASSUME Regime, TypeInv, Apart
  PROVE  SignOut \/ ServeSignOut \/ SignedOut => Apart'
<1>1. ASSUME SignOut PROVE Apart'
  <2>1. UNCHANGED <<serverVars, cache, session, authLoading, queries, profileVars, saves, edits>>
        /\ session # None /\ leaving = "no" /\ leaving' = "asked"
    BY <1>1 DEF SignOut
  <2>2. SessionInv' BY <2>1 DEF Apart, SessionInv, serverVars, profileVars
  <2>3. CopyInv' BY <2>1 DEF Apart, CopyInv, OrderlyInv, CopyOf, serverVars
  <2> QED BY <2>1, <2>2, <2>3, KeptQuery, KeptWait, KeptProfile, KeptSaves, KeptStore DEF Apart, serverVars, profileVars
<1>2. ASSUME ServeSignOut PROVE Apart'
  <2>1. UNCHANGED <<backup, rows, spilled, cache, session, authLoading, queries, profileVars, saves, edits>>
        /\ leaving = "asked" /\ cookie' \in {cookie, None}
        /\ (Failing \/ (leaving' = "served" /\ cookie' = None))
    BY <1>2 DEF ServeSignOut
  <2>2. session # None BY <2>1 DEF Apart, SessionInv
  <2>3. SessionInv' BY <2>1, <2>2 DEF Apart, SessionInv
  <2>4. CopyInv'
    <3>1. CASE ~ Orderly BY <2>1, <3>1 DEF Apart, CopyInv
    <3>2. CASE Orderly
      <4>1. leaving' = "served" /\ cookie' = None BY <2>1, <3>2, RegimeFacts DEF Failing
      <4>2. queries = {}
        <5>1. cookie = session BY <2>1, <2>2, <3>2 DEF Apart, CopyInv, OrderlyInv
        <5> QED BY <2>2, <5>1 DEF Apart, QueryInv
      <4>3. ~ authLoading BY <3>2, <4>2 DEF Apart, CopyInv, OrderlyInv
      <4> QED BY <2>1, <2>2, <3>2, <4>1, <4>2, <4>3 DEF Apart, CopyInv, OrderlyInv, CopyOf
    <3> QED BY <3>1, <3>2
  <2> QED BY <2>1, <2>3, <2>4, KeptQuery, KeptWait, KeptProfile, KeptSaves, KeptStore DEF Apart, profileVars
<1>3. ASSUME SignedOut PROVE Apart'
  <2>1. /\ leaving = "served" /\ leaving' = "no" /\ session' = None /\ cache' = None /\ app' = blankAppState
        /\ profileLoading' = FALSE
        /\ load' = None /\ timer' = None /\ UNCHANGED <<serverVars, authLoading, queries, saves, edits>>
    BY <1>3 DEF SignedOut, LeaveProfile, resetRuntimeState, applyAppState
  <2>2. session # None BY <2>1 DEF Apart, SessionInv
  <2>3. QueryInv' BY <2>1, <2>2 DEF Apart, QueryInv, serverVars
  <2>4. SessionInv' /\ ProfileInv' /\ WaitInv' BY <2>1 DEF SessionInv, ProfileInv, WaitInv
  <2>5. CopyInv' BY <2>1, <2>2 DEF Apart, CopyInv, OrderlyInv, serverVars
  <2> QED BY <2>1, <2>3, <2>4, <2>5, KeptSaves, KeptStore DEF Apart, serverVars
<1> QED BY <1>1, <1>2, <1>3

(* The server or the provider ends a session: only where no copy is ever written. *)
LEMMA EndedApart ==
  ASSUME Regime, TypeInv, Apart
  PROVE  Expire \/ Revoke => Apart'
<1>1. ASSUME Expire PROVE Apart'
  <2>1. UNCHANGED <<backup, rows, spilled, cache, sessionVars, profileVars, saves, edits>> /\ cookie' = None /\ ~ Orderly
    BY <1>1, RegimeFacts DEF Expire
  <2>2. SessionInv' BY <2>1 DEF Apart, SessionInv, sessionVars, profileVars
  <2>3. CopyInv' BY <2>1 DEF Apart, CopyInv
  <2> QED BY <2>1, <2>2, <2>3, KeptQuery, KeptWait, KeptProfile, KeptSaves, KeptStore DEF Apart, sessionVars, profileVars
<1>2. ASSUME Revoke PROVE Apart'
  <2>1. /\ UNCHANGED <<backup, rows, spilled, cache, session, leaving, profileVars, saves, edits>> /\ cookie' = None
        /\ authLoading' = TRUE /\ queries' = queries \cup {[kind |-> "revoked", answer |-> None]}
        /\ session = cookie /\ cookie # None /\ ~ Orderly
    BY <1>2, RegimeFacts DEF Revoke
  <2>2. queries = {} BY <2>1 DEF Apart, QueryInv
  <2>3. QueryInv' BY <2>1, <2>2, UsersAssumption DEF QueryInv
  <2>4. SessionInv' BY <2>1 DEF Apart, SessionInv, profileVars
  <2>5. WaitInv' BY <2>1 DEF Apart, WaitInv, profileVars
  <2>6. CopyInv' BY <2>1 DEF Apart, CopyInv
  <2> QED BY <2>1, <2>3, <2>4, <2>5, <2>6, KeptProfile, KeptSaves, KeptStore DEF Apart, profileVars
<1> QED BY <1>1, <1>2

LEMMA ApartStep == Regime /\ TypeInv /\ Apart /\ [Next]_vars => Apart'
<1> SUFFICES ASSUME Regime, TypeInv, Apart, [Next]_vars PROVE Apart' OBVIOUS
<1>1. CASE UNCHANGED vars
  <2>1. UNCHANGED <<serverVars, cache, sessionVars, profileVars, saves>> BY <1>1 DEF vars
  <2>2. SessionInv' BY <2>1 DEF Apart, SessionInv, sessionVars, serverVars, profileVars
  <2> QED BY <2>1, <2>2, KeptQuery, KeptWait, KeptProfile, KeptSaves, KeptStore, KeptCopy
      DEF Apart, sessionVars, serverVars, profileVars
<1>2. CASE Next
  BY <1>2, ReloadApart, SignInApart, FallbackDueApart, AskSlowApart, ServeQueryApart, QueryAnsweredApart,
     QueryRejectedApart, ServeLoadApart, LoadAnsweredApart, ChangeApart, OpenRoomApart, SaveRoomSettingsApart,
     DeleteRoomApart, AutosaveDueApart, ServeSaveApart, SaveAnsweredApart, SignOutApart, EndedApart DEF Next
<1> QED BY <1>1, <1>2

LEMMA ApartOwn == TypeInv /\ Apart => OwnState
<1> SUFFICES ASSUME TypeInv, Apart, NEW u \in DOMAIN backup \ spilled, NEW v \in Parts(backup[u]) \cup Written(rows[u])
             PROVE  v[1] = u
  BY DEF OwnState
<1>1. u \in Users /\ u \notin spilled BY DEF TypeInv
<1>2. Owned(spilled, u, backup[u]) /\ OwnedRows(spilled, u, rows[u]) BY <1>1 DEF Apart, StoreInv
<1> QED BY <1>1, <1>2 DEF Parts, Written, Owned, OwnedRows, By

(* Nothing of one user reaches the account of another, though users sign in without leaving   *)
(* the page and saves are served after the page or the session they left with: while sessions *)
(* end by an answered sign-out only, although the browser keeps a copy; and where none is     *)
(* written, also when requests fail, sessions expire and credentials are revoked.  But for    *)
(* the users in whose session the rest of another's save went out; and a question for the     *)
(* session is answered before its timers ask again.                                           *)
THEOREM AccountsStayApart ==
  ASSUME Orderly \/ NoCopies
  PROVE  Spec => []OwnState
<1>1. Regime BY DEF Regime
<1>2. Init => TypeInv /\ Apart BY InitType, InitApart
<1>3. TypeInv /\ Apart /\ [Next]_vars => (TypeInv /\ Apart)' BY <1>1, TypeStep, ApartStep
<1>4. TypeInv /\ Apart => OwnState BY ApartOwn
<1> QED BY <1>2, <1>3, <1>4, PTL DEF Spec

-----------------------------------------------------------------------------
(* Without a copy in the browser, what is on its way to the server is at least as new as what *)
(* the server has: the state that is shown comes from there, one save is sent at a time, and  *)
(* the user signs in on a new page.                                                           *)
InTurn == NoCopies /\ Faults \cap {"overlap", "in_place"} = {}
NotOlder(a, b) == a # None /\ b # None => a[2] >= b[2]
Known(part) == part # None => part[2] <= edits

PageInv ==
  /\ cache = None /\ spilled = {}
  /\ timer # None => loaded /\ timer = app
  /\ load # None => ~ loaded /\ load.base = None
  /\ loaded => session # None
FlightInv ==
  /\ Len(saves) <= 1
  /\ cookie # None /\ ~ loaded /\ (session # None \/ authLoading) => saves = <<>>
  /\ cookie # None => \A i \in DOMAIN saves : saves[i].of = cookie
KnownInv ==
  /\ Known(app.character) /\ \A i \in DOMAIN saves : Known(saves[i].state.character)
  /\ \A u \in Users : Known(rows[u].character)
  /\ load # None => Known(load.rows.character)
LoadedInv == cookie # None /\ load # None /\ load.answer = "ok" => load.rows = rows[cookie]
AgeInv ==
  cookie # None =>
    /\ \A i \in DOMAIN saves :
         /\ NotOlder(saves[i].state.character, rows[cookie].character)
         /\ loaded => NotOlder(app.character, saves[i].state.character)
    /\ loaded => NotOlder(app.character, rows[cookie].character)
Aged == PageInv /\ FlightInv /\ KnownInv /\ LoadedInv /\ AgeInv

LEMMA NumberType ==
  ASSUME NEW part \in Part
  PROVE  part # None => part[2] \in Nat
BY DEF Part, Versions

LEMMA CharacterTypes ==
  ASSUME TypeInv
  PROVE  /\ app.character \in Part
         /\ \A i \in DOMAIN saves : saves[i].state.character \in Part /\ saves[i].state \in AppState
         /\ \A u \in Users : rows[u].character \in Part
         /\ load # None => load \in Load /\ load.rows.character \in Part
BY DEF TypeInv, AppState, Rows, Load, Saves, Save

LEMMA InitAged == Init => Aged
<1> SUFFICES ASSUME Init PROVE Aged OBVIOUS
<1>1. PageInv /\ FlightInv /\ LoadedInv BY DEF Init, PageInv, FlightInv, LoadedInv
<1>2. KnownInv BY DEF Init, KnownInv, Known, blankAppState, NoRows
<1>3. AgeInv BY DEF Init, AgeInv
<1> QED BY <1>1, <1>2, <1>3 DEF Aged

(* The parts of the invariant that a step keeps when it leaves these variables alone. *)
LEMMA KeptAged ==
  ASSUME Aged, UNCHANGED <<cache, spilled, timer, app, load, loaded, saves, rows, edits, session>>,
         cookie' \in {cookie, None}, cookie' # None => (authLoading' => authLoading)
  PROVE  Aged'
BY DEF Aged, PageInv, FlightInv, KnownInv, Known, LoadedInv, AgeInv, NotOlder

(* A page on which nothing is loaded. *)
LEMMA EmptyAged ==
  ASSUME Aged, cache' = None, loaded' = FALSE, timer' = None, app' = blankAppState,
         load' # None => load'.base = None /\ load'.answer = "none" /\ load'.rows = NoRows,
         \/ saves' = <<>>
         \/ UNCHANGED <<saves, cookie>> /\ (cookie = None \/ (session' = None /\ ~ authLoading')),
         UNCHANGED <<rows, spilled, edits>>
  PROVE  Aged'
<1>1. PageInv' BY DEF Aged, PageInv
<1>2. FlightInv' BY DEF Aged, FlightInv
<1>3. KnownInv' BY DEF Aged, KnownInv, Known, blankAppState, NoRows
<1>4. LoadedInv' BY DEF LoadedInv
<1>5. AgeInv' BY DEF Aged, AgeInv
<1> QED BY <1>1, <1>2, <1>3, <1>4, <1>5 DEF Aged

LEMMA SessionAged ==
  ASSUME InTurn, TypeInv, Apart, Aged
  PROVE  /\ Reload \/ (\E u \in Users : SignIn(u)) => Aged'
         /\ FallbackDue \/ AskSlow \/ SignOut \/ ServeSignOut \/ SignedOut \/ Expire \/ Revoke => Aged'
<1>0. "slow" \notin Faults /\ "overlap" \notin Faults /\ "in_place" \notin Faults BY DEF InTurn, NoCopies
<1>1. ASSUME NewPage, UNCHANGED <<rows, spilled, edits, cache>> PROVE Aged'
  <2>1. saves' = <<>> BY <1>0, <1>1 DEF NewPage
  <2>2. cache' = None BY <1>1 DEF Aged, PageInv
  <2> QED BY <1>1, <2>1, <2>2, EmptyAged DEF NewPage, Started
<1>2. ASSUME Reload PROVE Aged'
  BY <1>1, <1>2 DEF Reload, serverVars
<1>3. ASSUME NEW u \in Users, SignIn(u) PROVE Aged'
  BY <1>0, <1>1, <1>3 DEF SignIn
<1>4. ASSUME SignedOut PROVE Aged'
  <2>1. session' = None /\ loaded' = FALSE /\ timer' = None /\ app' = blankAppState /\ cache' = None /\ load' = None
        /\ UNCHANGED <<serverVars, authLoading, saves, edits>> /\ leaving = "served"
    BY <1>4 DEF SignedOut, LeaveProfile, resetRuntimeState, applyAppState
  <2>2. session # None BY <2>1 DEF Apart, SessionInv
  <2>3. cookie = None \/ ~ authLoading BY <2>2 DEF Apart, WaitInv
  <2> QED BY <2>1, <2>3, EmptyAged DEF serverVars
<1>5. ASSUME FallbackDue PROVE Aged'
  <2>1. authLoading' = FALSE \/ authLoading' = authLoading BY <1>5 DEF FallbackDue
  <2> QED BY <1>5, <2>1, KeptAged DEF FallbackDue, serverVars
<1>6. ASSUME AskSlow \/ SignOut \/ ServeSignOut \/ Expire \/ Revoke PROVE Aged'
  BY <1>6, KeptAged DEF AskSlow, SignOut, ServeSignOut, Expire, Revoke, serverVars, sessionVars, profileVars
<1> QED BY <1>2, <1>3, <1>4, <1>5, <1>6

LEMMA AnswersAged ==
  ASSUME InTurn, TypeInv, Apart, Aged, NEW q \in queries
  PROVE  ServeQuery(q) \/ QueryAnswered(q) \/ QueryRejected(q) => Aged'
<1>1. ASSUME ServeQuery(q) PROVE Aged'
  BY <1>1, KeptAged DEF ServeQuery, serverVars, profileVars
<1>2. ASSUME QueryAnswered(q) PROVE Aged'
  <2>1. UNCHANGED <<serverVars, cache, saves, edits>> /\ cache = None /\ authLoading' = FALSE
    BY <1>2 DEF QueryAnswered, Aged, PageInv
  <2>2. /\ q.kind \in {"initial", "refresh"} => session = None
        /\ q.answer \in Users => session = None
    BY DEF Apart, QueryInv
  <2>3. ASSUME session = None PROVE ~ loaded /\ app = blankAppState /\ (saves = <<>> \/ cookie = None)
    <3>1. authLoading BY DEF Apart, QueryInv
    <3> QED BY <2>3, <3>1 DEF Apart, SessionInv, Aged, PageInv, FlightInv
  <2>4. CASE q.answer \in Users /\ session' = q.answer /\ EnterProfile
    <3>1. session = None BY <2>2, <2>4
    <3>2. loaded' = FALSE /\ timer' = None /\ app' = blankAppState /\ load'.base = None
          /\ load'.answer = "none" /\ load'.rows = NoRows
      BY <2>1, <2>3, <2>4, <3>1 DEF EnterProfile, Usable, CachedState
    <3> QED BY <2>1, <2>3, <3>1, <3>2, EmptyAged DEF serverVars
  <2>5. CASE q.kind = "initial" /\ session' = None /\ LeaveProfile /\ UNCHANGED app
    <3>1. session = None BY <2>2, <2>5
    <3> QED BY <2>1, <2>3, <2>5, <3>1, EmptyAged DEF LeaveProfile, serverVars
  <2>6. CASE UNCHANGED <<session, profileVars>>
    BY <2>1, <2>6, KeptAged DEF serverVars, profileVars
  <2>7. CASE UNCHANGED <<session, loaded, ready, load, app, timer>>
    BY <2>1, <2>7, KeptAged DEF serverVars
  <2>8. ~ (q.answer \in Users /\ session = q.answer /\ q.kind \in {"initial", "slow"})
    BY <2>2, UsersAssumption
  <2> QED BY <1>2, <2>4, <2>5, <2>6, <2>7, <2>8, AnswerMoves
<1>3. ASSUME QueryRejected(q) PROVE Aged'
  <2>1. authLoading' => authLoading BY <1>3 DEF QueryRejected
  <2> QED BY <1>3, <2>1, KeptAged DEF QueryRejected, serverVars
<1> QED BY <1>1, <1>2, <1>3

LEMMA LoadsAged ==
  ASSUME InTurn, TypeInv, Apart, Aged
  PROVE  ServeLoad \/ LoadAnswered => Aged'
<1>1. ASSUME ServeLoad PROVE Aged'
  <2>1. UNCHANGED <<serverVars, cache, sessionVars, loaded, ready, profileLoading, app, timer, saves, edits>> /\ load # None
    BY <1>1 DEF ServeLoad
  <2>2. load \in Load /\ ~ loaded BY <2>1 DEF TypeInv, Aged, PageInv
  <2>3. /\ load'.base = load.base
        /\ \/ load'.answer = "error" /\ load'.rows = load.rows
           \/ cookie \in Users /\ load'.rows = rows[cookie]
    <3>1. CASE cookie # None /\ load' = [load EXCEPT !.answer = "ok", !.backup = backup[cookie], !.rows = rows[cookie]]
      BY <2>2, <3>1 DEF Load, TypeInv
    <3>2. CASE load' = [load EXCEPT !.answer = "error"]
      BY <2>2, <3>2 DEF Load
    <3> QED BY <1>1, <3>1, <3>2 DEF ServeLoad
  <2>4. PageInv' BY <2>1, <2>2, <2>3 DEF Aged, PageInv, sessionVars, serverVars
  <2>5. FlightInv' BY <2>1 DEF Aged, FlightInv, serverVars, sessionVars
  <2>6. KnownInv' BY <2>1, <2>3 DEF Aged, KnownInv, Known, serverVars
  <2>7. LoadedInv' BY <2>1, <2>3 DEF LoadedInv, serverVars
  <2>8. AgeInv' BY <2>1 DEF Aged, AgeInv, NotOlder, serverVars
  <2> QED BY <2>4, <2>5, <2>6, <2>7, <2>8 DEF Aged
<1>2. ASSUME LoadAnswered PROVE Aged'
  <2>1. UNCHANGED <<serverVars, cache, session, authLoading, saves, edits>> /\ load # None BY <1>2 DEF LoadAnswered
  <2>2. load \in Load /\ ~ loaded /\ load.base = None BY <2>1 DEF TypeInv, Aged, PageInv
  <2>3. session # None /\ cookie \in {session, None} BY <2>1 DEF Apart, SessionInv
  <2>4. cookie = None \/ saves = <<>> BY <2>2, <2>3 DEF Aged, FlightInv
  <2>5. ASSUME NEW state, Apply(state),
               state.character = None \/ (load.answer = "ok" /\ state.character = load.rows.character)
        PROVE  Aged'
    <3>1. app' = state /\ timer' = state /\ loaded' = TRUE /\ load' = None BY <2>5 DEF Apply, applyAppState
    <3>2. PageInv' BY <2>1, <2>3, <3>1 DEF Aged, PageInv, serverVars
    <3>3. FlightInv' BY <2>1, <3>1 DEF Aged, FlightInv, serverVars
    <3>4. KnownInv' BY <2>1, <2>5, <3>1 DEF Aged, KnownInv, Known, serverVars
    <3>5. LoadedInv' BY <3>1 DEF LoadedInv
    <3>6. AgeInv'
      <4> SUFFICES ASSUME cookie # None PROVE NotOlder(state.character, rows[cookie].character)
        BY <2>1, <2>4, <3>1 DEF AgeInv, serverVars
      <4>1. cookie \in Users /\ rows[cookie].character \in Part BY CharacterTypes DEF TypeInv
      <4>2. CASE state.character = None BY <4>2 DEF NotOlder
      <4>3. CASE load.answer = "ok" /\ state.character = load.rows.character
        <5>1. state.character = rows[cookie].character BY <2>1, <4>3 DEF Aged, LoadedInv
        <5> QED BY <4>1, <5>1, NumberType DEF NotOlder
      <4> QED BY <2>5, <4>2, <4>3
    <3> QED BY <3>2, <3>3, <3>4, <3>5, <3>6 DEF Aged
  <2>6. CASE load.answer = "ok"
    <3>1. BaseState \in AppState BY <2>2, BlankType DEF BaseState, Load
    <3>2. Hydrated(BaseState, load.rows).character = load.rows.character BY <3>1 DEF Hydrated, AppState
    <3> QED BY <1>2, <2>5, <2>6, <3>2 DEF LoadAnswered
  <2>7. CASE load.answer = "error" /\ load.stage = "profile"
    <3>1. load' = [load EXCEPT !.stage = "fallback", !.answer = "none"]
          /\ UNCHANGED <<loaded, ready, profileLoading, app, timer>>
      BY <1>2, <2>7 DEF LoadAnswered
    <3>2. load'.base = load.base /\ load'.rows = load.rows /\ load'.answer = "none" BY <2>2, <3>1 DEF Load
    <3>3. PageInv' BY <2>1, <2>2, <3>1, <3>2 DEF Aged, PageInv, serverVars
    <3>4. FlightInv' BY <2>1, <3>1 DEF Aged, FlightInv, serverVars
    <3>5. KnownInv' BY <2>1, <3>1, <3>2 DEF Aged, KnownInv, Known, serverVars
    <3>6. LoadedInv' BY <3>2 DEF LoadedInv
    <3>7. AgeInv' BY <2>1, <3>1 DEF Aged, AgeInv, NotOlder, serverVars
    <3> QED BY <3>3, <3>4, <3>5, <3>6, <3>7 DEF Aged
  <2>8. CASE load.answer = "error" /\ load.stage = "fallback"
    <3>1. BaseState = blankAppState BY <2>2, <2>8 DEF BaseState
    <3>2. blankAppState.character = None BY DEF blankAppState
    <3> QED BY <1>2, <2>5, <2>8, <3>1, <3>2 DEF LoadAnswered
  <2> QED BY <1>2, <2>2, <2>6, <2>7, <2>8 DEF LoadAnswered, Load
<1> QED BY <1>1, <1>2

(* A change is newer than anything before it; a room's change is as old as its characters. *)
LEMMA EditsAged ==
  ASSUME InTurn, TypeInv, Apart, Aged
  PROVE  Change \/ OpenRoom \/ SaveRoomSettings \/ DeleteRoom \/ AutosaveDue => Aged'
<1>1. ASSUME Change PROVE Aged'
  <2> DEFINE v == <<session, edits + 1>>
             state == [app EXCEPT !.notes = v, !.character = v, !.personas = v]
  <2>1. /\ UNCHANGED <<serverVars, cache, sessionVars, loaded, ready, profileLoading, load, saves>>
        /\ loaded /\ session # None /\ app' = state /\ timer' = state /\ edits' = edits + 1
    BY <1>1 DEF Change, Scheduled
  <2>2. app'.character = v /\ v[2] = edits' BY <2>1 DEF TypeInv, AppState
  <2>3. edits \in Nat /\ edits' = edits + 1 BY <2>1, UsersAssumption DEF TypeInv
  <2>4. ASSUME NEW part \in Part, Known(part) PROVE Known(part)' /\ NotOlder(v, part)
    BY <2>2, <2>3, <2>4, NumberType DEF Known, NotOlder
  <2> HIDE DEF v, state
  <2>5. PageInv' BY <2>1 DEF Aged, PageInv, sessionVars, serverVars
  <2>6. FlightInv' BY <2>1 DEF Aged, FlightInv, serverVars, sessionVars
  <2>7. KnownInv'
    <3>1. Known(app.character)' BY <2>2, <2>3 DEF Known
    <3>2. \A i \in DOMAIN saves : Known(saves[i].state.character)'
      BY <2>1, <2>4, CharacterTypes DEF Aged, KnownInv, Known
    <3>3. \A u \in Users : Known(rows[u].character)'
      BY <2>1, <2>4, CharacterTypes DEF Aged, KnownInv, Known, serverVars
    <3>4. load = None /\ load' = None BY <2>1 DEF Aged, PageInv
    <3> QED BY <2>1, <3>1, <3>2, <3>3, <3>4 DEF KnownInv, Known, serverVars
  <2>8. LoadedInv' BY <2>1 DEF Aged, LoadedInv, serverVars
  <2>9. AgeInv'
    <3>1. \A i \in DOMAIN saves : NotOlder(v, saves[i].state.character)
      BY <2>4, CharacterTypes DEF Aged, KnownInv
    <3>2. \A u \in Users : NotOlder(v, rows[u].character)
      BY <2>4, CharacterTypes DEF Aged, KnownInv
    <3>3. cookie \in Users \cup {None} BY DEF TypeInv
    <3> QED BY <2>1, <2>2, <3>1, <3>2, <3>3 DEF Aged, AgeInv, NotOlder, serverVars
  <2> QED BY <2>5, <2>6, <2>7, <2>8, <2>9 DEF Aged
<1>2. ~ OpenRoom BY DEF OpenRoom, InTurn, NoCopies
<1>3. ~ SaveRoomSettings
  BY DEF SaveRoomSettings, Apart, SessionInv, ProfileInv, Owned, Tame, InTurn, NoCopies, blankAppState
<1>4. ASSUME DeleteRoom PROVE Aged'
  <2>1. /\ UNCHANGED <<serverVars, cache, sessionVars, loaded, ready, profileLoading, load, edits>>
        /\ loaded /\ session # None /\ app' = [app EXCEPT !.room = "deleted"] /\ timer' = app'
        /\ saves = <<>> /\ saves' = Append(saves, NewSave(app', <<"delete", "rows", "profile", "rows">>, session))
    BY <1>4 DEF DeleteRoom, Scheduled, MaySave, InTurn
  <2>2. app'.character = app.character BY <2>1 DEF TypeInv, AppState
  <2>3. DOMAIN saves' = {1} /\ Len(saves') = 1 /\ saves'[1].state = app' /\ saves'[1].of = session BY <2>1 DEF NewSave
  <2>4. PageInv' BY <2>1 DEF Aged, PageInv, sessionVars, serverVars
  <2>5. FlightInv'
    <3>1. cookie \in {session, None} BY <2>1 DEF Apart, SessionInv
    <3> QED BY <2>1, <2>3, <3>1 DEF FlightInv, serverVars
  <2>6. KnownInv'
    <3>1. Known(app.character)' /\ (\A u \in Users : Known(rows[u].character)')
      BY <2>1, <2>2 DEF Aged, KnownInv, Known, serverVars
    <3>2. \A i \in DOMAIN saves' : Known(saves[i].state.character)' BY <2>3, <3>1 DEF Known
    <3>3. load' = None BY <2>1 DEF Aged, PageInv
    <3> QED BY <3>1, <3>2, <3>3 DEF KnownInv
  <2>7. LoadedInv' BY <2>1 DEF Aged, LoadedInv, serverVars
  <2>8. AgeInv'
    <3>1. NotOlder(app.character, app.character) BY CharacterTypes, NumberType DEF NotOlder
    <3>2. cookie # None => NotOlder(app.character, rows[cookie].character) BY <2>1 DEF Aged, AgeInv
    <3>3. \A i \in DOMAIN saves' : saves'[i].state.character = app.character BY <2>2, <2>3
    <3> QED BY <2>1, <2>2, <3>1, <3>2, <3>3 DEF AgeInv, NotOlder, serverVars
  <2> QED BY <2>4, <2>5, <2>6, <2>7, <2>8 DEF Aged
<1>5. ASSUME AutosaveDue PROVE Aged'
  <2>1. /\ UNCHANGED <<serverVars, cache, sessionVars, loaded, ready, profileLoading, load, app, edits>>
        /\ loaded /\ timer = app /\ timer' = None
        /\ saves = <<>> /\ saves' = Append(saves, NewSave(app, <<"profile", "rows">>, session))
    BY <1>5 DEF AutosaveDue, MaySave, InTurn, Aged, PageInv
  <2>2. DOMAIN saves' = {1} /\ Len(saves') = 1 /\ saves'[1].state = app /\ saves'[1].of = session BY <2>1 DEF NewSave
  <2>3. PageInv' BY <2>1 DEF Aged, PageInv, sessionVars, serverVars
  <2>4. FlightInv'
    <3>1. cookie \in {session, None} BY <2>1 DEF Apart, SessionInv, Aged, PageInv
    <3> QED BY <2>1, <2>2, <3>1 DEF FlightInv, serverVars
  <2>5. KnownInv' BY <2>1, <2>2 DEF Aged, KnownInv, Known, serverVars
  <2>6. LoadedInv' BY <2>1 DEF Aged, LoadedInv, serverVars
  <2>7. AgeInv'
    <3>1. NotOlder(app.character, app.character) BY CharacterTypes, NumberType DEF NotOlder
    <3> QED BY <2>1, <2>2, <3>1 DEF Aged, AgeInv, NotOlder, serverVars
  <2> QED BY <2>3, <2>4, <2>5, <2>6, <2>7 DEF Aged
<1> QED BY <1>1, <1>2, <1>3, <1>4, <1>5

(* Only a save changes the rows, and only those of the cookie's user. *)
LEMMA ServedRows ==
  ASSUME TypeInv, NEW i \in DOMAIN saves, ServeSave(i)
  PROVE  \A u \in Users :
           \/ rows'[u].character = rows[u].character
           \/ /\ cookie = u /\ saves[i].state.character # None
              /\ rows'[u].character = saves[i].state.character
<1> DEFINE s == saves[i]
<1>1. s \in Save /\ s.todo # <<>> BY DEF TypeInv, Saves
<1>2. CASE UNCHANGED <<backup, rows>> BY <1>2
<1>3. CASE s.as = cookie /\ cookie # None /\ Stored(s)
  <2>1. Head(s.todo) \in Requests BY <1>1 DEF Save
  <2>2. cookie \in Users /\ rows[cookie] \in Rows BY <1>3 DEF TypeInv
  <2>3. CASE Head(s.todo) = "profile" BY <1>3, <2>3 DEF Stored
  <2>4. CASE Head(s.todo) = "rows"
    <3>1. rows' = [rows EXCEPT ![cookie] = Upserted(rows[cookie], s.state)] BY <1>3, <2>4 DEF Stored
    <3>2. Upserted(rows[cookie], s.state).character
            = IF s.state.character = None THEN rows[cookie].character ELSE s.state.character
      BY DEF Upserted
    <3> QED BY <2>2, <3>1, <3>2 DEF TypeInv
  <2>5. CASE Head(s.todo) = "delete"
    <3>1. rows' = [rows EXCEPT ![cookie] = [rows[cookie] EXCEPT !.room = "none"]] BY <1>3, <2>5 DEF Stored
    <3> QED BY <2>2, <3>1 DEF TypeInv, Rows
  <2> QED BY <2>1, <2>3, <2>4, <2>5 DEF Requests
<1> QED BY <1>2, <1>3 DEF ServeSave

LEMMA SavesAged ==
  ASSUME InTurn, TypeInv, Apart, Aged, NEW i \in DOMAIN saves
  PROVE  ServeSave(i) \/ SaveAnswered(i) => Aged'
<1>1. DOMAIN saves = {1} /\ i = 1
  <2>1. Len(saves) <= 1 /\ Len(saves) \in Nat /\ DOMAIN saves = 1..Len(saves) /\ i \in 1..Len(saves)
    BY DEF Aged, FlightInv, TypeInv
  <2>2. Len(saves) = 1 BY <2>1
  <2> QED BY <2>1, <2>2
<1>2. ASSUME ServeSave(i) PROVE Aged'
  <2>1. UNCHANGED <<cookie, spilled, cache, sessionVars, profileVars, edits>> /\ saves' = [saves EXCEPT ![i].served = TRUE]
    BY <1>2 DEF ServeSave
  <2>2. DOMAIN saves' = DOMAIN saves /\ Len(saves') = Len(saves) /\ saves'[i].state = saves[i].state
        /\ saves'[i].of = saves[i].of
    BY <2>1 DEF TypeInv, Saves, Save
  <2>3. cookie = None \/ loaded \/ (session = None /\ ~ authLoading) BY <1>1 DEF Aged, FlightInv
  <2>4. PageInv' BY <2>1 DEF Aged, PageInv, sessionVars, profileVars
  <2>5. FlightInv' BY <1>1, <2>1, <2>2, <2>3 DEF Aged, FlightInv, profileVars, sessionVars
  <2>6. KnownInv'
    BY <1>1, <1>2, <2>1, <2>2, ServedRows DEF Aged, KnownInv, Known, profileVars
  <2>7. LoadedInv'
    <3>1. cookie = None \/ load = None BY <2>3 DEF Aged, PageInv, Apart, SessionInv
    <3> QED BY <2>1, <3>1 DEF LoadedInv, profileVars
  <2>8. AgeInv'
    <3> SUFFICES ASSUME cookie # None PROVE AgeInv' BY <2>1 DEF AgeInv
    <3> DEFINE part == saves[i].state.character
    <3>1. NotOlder(part, part) /\ cookie \in Users BY CharacterTypes, NumberType DEF NotOlder, TypeInv
    <3>2. rows'[cookie].character = rows[cookie].character \/ rows'[cookie].character = part
      BY <1>2, <3>1, ServedRows
    <3>3. NotOlder(part, rows[cookie].character)
          /\ (loaded => NotOlder(app.character, part) /\ NotOlder(app.character, rows[cookie].character))
      BY DEF Aged, AgeInv
    <3> QED BY <1>1, <2>1, <2>2, <3>1, <3>2, <3>3 DEF AgeInv, profileVars
  <2> QED BY <2>4, <2>5, <2>6, <2>7, <2>8 DEF Aged
<1>3. ASSUME SaveAnswered(i) PROVE Aged'
  <2>1. UNCHANGED <<cookie, backup, rows, cache, sessionVars, profileVars, edits>> BY <1>3 DEF SaveAnswered
  <2>2. CASE saves' = RemoveAt(saves, i) /\ UNCHANGED spilled
    <3>1. saves' = RemoveAt(saves, i) BY <2>2
    <3>2. saves' = <<>> BY <1>1, <3>1 DEF RemoveAt, TypeInv
    <3> QED BY <2>1, <2>2, <3>2 DEF Aged, PageInv, FlightInv, KnownInv, Known, LoadedInv, AgeInv, NotOlder,
                              sessionVars, profileVars
  <2>3. CASE /\ saves' = [saves EXCEPT ![i] = Continued(saves[i])]
             /\ spilled' = spilled \cup ({cookie} \ {None, saves[i].of})
    <3> DEFINE kept == IF Head(saves[i].todo) = "profile" THEN WithDeleted(saves[i].state) ELSE saves[i].state
    <3>1. Continued(saves[i]) = NewSave(kept, Tail(saves[i].todo), saves[i].of) BY DEF Continued
    <3>2. kept.character = saves[i].state.character BY CharacterTypes DEF WithDeleted, AppState
    <3> HIDE DEF kept
    <3>3. DOMAIN saves' = DOMAIN saves /\ Len(saves') = Len(saves)
          /\ saves'[i].state.character = saves[i].state.character /\ saves'[i].of = saves[i].of
      BY <2>3, <3>1, <3>2 DEF NewSave, TypeInv
    <3>4. spilled' = spilled BY <2>3 DEF Aged, FlightInv
    <3>5. FlightInv' BY <1>1, <2>1, <3>3 DEF Aged, FlightInv, profileVars, sessionVars
    <3>6. KnownInv' BY <1>1, <2>1, <3>3 DEF Aged, KnownInv, Known, profileVars
    <3>7. AgeInv' BY <1>1, <2>1, <3>3 DEF Aged, AgeInv, NotOlder, profileVars
    <3>8. PageInv' /\ LoadedInv' BY <2>1, <3>4 DEF Aged, PageInv, LoadedInv, sessionVars, profileVars
    <3> QED BY <3>5, <3>6, <3>7, <3>8 DEF Aged
  <2> QED BY <1>3, <2>2, <2>3 DEF SaveAnswered
<1> QED BY <1>2, <1>3

LEMMA AgedStep == InTurn /\ TypeInv /\ Apart /\ Aged /\ [Next]_vars => Aged'
<1> SUFFICES ASSUME InTurn, TypeInv, Apart, Aged, [Next]_vars PROVE Aged' OBVIOUS
<1>1. CASE UNCHANGED vars
  BY <1>1, KeptAged DEF vars, serverVars, sessionVars, profileVars
<1>2. CASE Next
  BY <1>2, SessionAged, AnswersAged, LoadsAged, EditsAged, SavesAged DEF Next
<1> QED BY <1>1, <1>2

(* A row that changes was newer: versions of one user with the same number are the same. *)
LEMMA AgedNewer ==
  ASSUME TypeInv, Apart, Aged, [Next]_vars
  PROVE  Newer
<1> SUFFICES ASSUME NEW u \in Users, rows[u].character # None, rows'[u].character # rows[u].character
             PROVE  rows'[u].character[2] > rows[u].character[2]
  BY DEF Newer
<1>1. rows' # rows OBVIOUS
<1>2. PICK i \in DOMAIN saves : ServeSave(i)
  BY <1>1 DEF Next, vars, serverVars, Reload, SignIn, FallbackDue, AskSlow, ServeQuery, QueryAnswered, QueryRejected, ServeLoad, LoadAnswered,
     Change, OpenRoom, SaveRoomSettings, DeleteRoom, AutosaveDue, SaveAnswered, SignOut, ServeSignOut, SignedOut,
     Expire, Revoke
<1> DEFINE old == rows[u].character
           new == saves[i].state.character
<1>3. cookie = u /\ new # None /\ rows'[u].character = new BY <1>2, ServedRows
<1>4. u # None BY UsersAssumption
<1>5. new[2] >= old[2] BY <1>3, <1>4 DEF Aged, AgeInv, NotOlder
<1>6. new \in Versions /\ old \in Versions BY <1>3, CharacterTypes DEF Part
<1>7. new[1] = u /\ old[1] = u
  <2>1. spilled = {} /\ saves[i].of = u BY <1>3, <1>4 DEF Aged, PageInv, FlightInv
  <2> QED BY <1>3, <1>4, <2>1 DEF Apart, SavesInv, StoreInv, Owned, OwnedRows, By
<1>8. new # old BY <1>3
<1> HIDE DEF new, old
<1>9. new[2] # old[2] BY <1>6, <1>7, <1>8 DEF Versions
<1>10. new[2] \in Nat /\ old[2] \in Nat BY <1>6 DEF Versions
<1>11. new[2] > old[2] BY <1>5, <1>9, <1>10
<1> QED BY <1>3, <1>11 DEF new, old

(* Where the browser keeps no copy, a character's row is only replaced by a newer one, also    *)
(* when requests fail, sessions end on the server and a page is closed while its user signs   *)
(* out: as long as one save is sent at a time and users sign in on a new page.                *)
THEOREM RowsStayNewest ==
  ASSUME InTurn
  PROVE  Spec => RowsNewest
<1>1. Regime BY DEF Regime, InTurn
<1>2. Init => TypeInv /\ Apart /\ Aged BY InitType, InitApart, InitAged
<1>3. TypeInv /\ Apart /\ Aged /\ [Next]_vars => (TypeInv /\ Apart /\ Aged)'
  BY <1>1, TypeStep, ApartStep, AgedStep
<1>4. TypeInv /\ Apart /\ Aged /\ [Next]_vars => [Newer]_vars BY AgedNewer
<1> QED BY <1>2, <1>3, <1>4, PTL DEF Spec, RowsNewest

-----------------------------------------------------------------------------
(* Relations and proposals. *)
CONSTANTS People, Viewer, Own, Quarters, Deltas, ManualValues, FirstLabels, MaxChanges

VARIABLES label, affinity, remainder, proposing, generating, proposal, judging, cooldown, effect,
          roomBase, room, changes, decided
Relation == INSTANCE Relationships

(* A conversation takes at most 30 points and gives at most 8 (normalizedDelta). *)
RelationAssumption ==
  /\ None \notin Relation!Values /\ Deltas \subseteq -30..8 /\ ManualValues \subseteq Relation!Values
  /\ Quarters \in [People -> Nat] /\ FirstLabels \subseteq Relation!Labels

Labels == Relation!Labels
Warmths == Relation!Values \cup {None}
RelationTypes ==
  /\ label \in [Relation!Pairs -> Labels] /\ affinity \in [Relation!Pairs -> Warmths]
  /\ remainder \in [Relation!Pairs -> 0..3] /\ roomBase \in [Relation!Pairs -> Warmths]
  /\ room \in [Relation!Pairs -> Warmths]
  /\ generating \subseteq Relation!Pairs /\ proposal \in Relation!Pairs \cup {None}
  /\ \A j \in judging : j.pair \in Relation!Pairs
OneProposal == (proposing = FALSE /\ generating = {}) \/ (proposing = TRUE /\ \E p : generating = {p})
(* What an answer decided is one of love, with an affinity that keeps it. *)
DecidedStays ==
  \A p \in Relation!Pairs : decided[p] # None =>
    label[p] = decided[p] /\ label[p] \in Relation!Romance /\ affinity[p] # None /\ affinity[p] >= 35
RelationInv ==
  /\ RelationTypes /\ decided \in [Relation!Pairs -> Labels \cup {None}]
  /\ OneProposal /\ DecidedStays /\ Relation!LabelsSettle

-----------------------------------------------------------------------------
(* The rules of labels and affinities, for the two sides of a pair. *)
LEMMA PairSides ==
  ASSUME NEW p \in Relation!Pairs
  PROVE  /\ Relation!Back(p) \in Relation!Pairs /\ Relation!Back(p) # p /\ Relation!Back(Relation!Back(p)) = p
         /\ Relation!dirKeys(p) = {p, Relation!Back(p)} /\ Relation!dirKeys(Relation!Back(p)) = {p, Relation!Back(p)}
         /\ p[1] \in People
BY DEF Relation!Pairs, Relation!Back, Relation!dirKeys

LEMMA BaseValue ==
  ASSUME NEW l \in Labels
  PROVE  /\ Relation!BaseFromLabel(l) = None \/ Relation!BaseFromLabel(l) \in 20..100
         /\ l \in Relation!Lasting => Relation!BaseFromLabel(l) \in 92..100
<1>1. l \in Relation!Lasting => Relation!BaseFromLabel(l) \in {92, 100}
  BY DEF Relation!BaseFromLabel, Relation!Lasting
<1>2. Relation!BaseFromLabel(l) = None \/ Relation!BaseFromLabel(l) \in {20, 45, 65, 92, 100}
  BY DEF Labels, Relation!Labels, Relation!BaseFromLabel
<1> QED
  BY <1>1, <1>2

LEMMA BaseTyped ==
  ASSUME RelationAssumption, RelationTypes, NEW p \in Relation!Pairs
  PROVE  /\ Relation!relationBaseFor(p) \in 20..100 \cup {None} /\ Relation!relLabelFor(p) \in Labels
         /\ label[p] \in Relation!Lasting => Relation!relationBaseFor(p) \in 92..100 /\ Relation!relLabelFor(p) = label[p]
         /\ Relation!affOf(p) \in Relation!Values /\ Relation!LiveBase(p) \in 0..100
<1> DEFINE q == Relation!Back(p)
<1>1. label[p] \in Labels /\ label[q] \in Labels /\ affinity[p] \in Warmths
  BY PairSides DEF RelationTypes
<1>2. "none" \in Labels /\ "none" \notin Relation!Lasting
  BY DEF Labels, Relation!Labels, Relation!Lasting
<1>3. None \notin -100..100
  BY DEF RelationAssumption, Relation!Values
<1>4. /\ Relation!relationBaseFor(p) \in 20..100 \cup {None}
      /\ label[p] \in Relation!Lasting => Relation!relationBaseFor(p) \in 92..100
  BY <1>1, <1>3, BaseValue DEF Relation!relationBaseFor, Relation!relationBaseFromDirect, Relation!relationBaseFromReverse
<1>5. Relation!relLabelFor(p) \in Labels /\ (label[p] \in Relation!Lasting => Relation!relLabelFor(p) = label[p])
  BY <1>1, <1>2, Zenon DEF Relation!relLabelFor
<1> QED
  BY <1>1, <1>4, <1>5 DEF Relation!affOf, Relation!LiveBase, Relation!OrZero, Warmths, Relation!Values

LEMMA LabelFromAffinity ==
  ASSUME NEW v \in -100..100, NEW l \in Labels
  PROVE  /\ Relation!relationLabelFromAffinity(v, l) \in Labels
         /\ v < 0 => Relation!relationLabelFromAffinity(v, l) = "hurt"
         /\ v >= 0 /\ l \notin {"hurt", "none"} => Relation!relationLabelFromAffinity(v, l) = l
         /\ v >= 0 /\ l \in {"hurt", "none"} => Relation!relationLabelFromAffinity(v, l) = Relation!positiveRelationLabel(v)
<1>1. "hurt" \notin Relation!Romance /\ "none" \notin Relation!Romance /\ Relation!Negative = {"hurt"}
  BY DEF Relation!Romance, Relation!Lasting, Relation!Negative
<1>2. "hurt" \in Labels /\ Relation!positiveRelationLabel(v) \in Labels
  BY DEF Labels, Relation!Labels, Relation!positiveRelationLabel
<1>3. v \in Int
  OBVIOUS
<1>4. v < 0 => Relation!relationLabelFromAffinity(v, l) = "hurt"
  BY <1>1, <1>3 DEF Relation!relationLabelFromAffinity
<1>5. v >= 0 /\ l \in {"hurt", "none"} => Relation!relationLabelFromAffinity(v, l) = Relation!positiveRelationLabel(v)
  BY <1>1, <1>3 DEF Relation!relationLabelFromAffinity
<1>6. v >= 0 /\ l \notin {"hurt", "none"} => Relation!relationLabelFromAffinity(v, l) = l
  BY <1>1, <1>3 DEF Relation!relationLabelFromAffinity
<1>7. Relation!relationLabelFromAffinity(v, l) \in Labels
  BY <1>2, <1>3, <1>4, <1>5, <1>6
<1> QED
  BY <1>4, <1>5, <1>6, <1>7

-----------------------------------------------------------------------------
(* One run of the effect on a label l whose other side is m, with the affinity a. *)
BaseOf(l, m) ==
  IF Relation!BaseFromLabel(l) # None THEN Relation!BaseFromLabel(l)
  ELSE IF m \in Relation!Lasting THEN Relation!BaseFromLabel(m) ELSE None
AffinityOf(l, m, a) == IF a # None THEN a ELSE Relation!OrZero(BaseOf(l, m))
ShownLabel(l, m) == IF l # "none" THEN l ELSE IF m \in Relation!Lasting THEN m ELSE "none"
Settle(l, m, a) ==
  IF l = "none" THEN "none"
  ELSE IF l \in Relation!Moving /\ AffinityOf(l, m, a) >= 35 /\ ShownLabel(m, l) \in Relation!Lasting
       THEN ShownLabel(m, l) ELSE Relation!relationLabelFromAffinity(AffinityOf(l, m, a), l)

LEMMA SettlesLabels ==
  ASSUME NEW p \in Relation!Pairs
  PROVE  /\ Relation!Normalized[p] = Settle(label[p], label[Relation!Back(p)], affinity[p])
         /\ Relation!Normalized'[p] = Settle(label'[p], label'[Relation!Back(p)], affinity'[p])
<1>1. Relation!Back(Relation!Back(p)) = p
  BY PairSides
<1>2. Relation!Normalized[p] = Settle(label[p], label[Relation!Back(p)], affinity[p])
  BY <1>1 DEF Relation!Normalized, Relation!normalizedRelationLabelFor, Relation!affOf, Relation!relationBaseFor,
              Relation!relationBaseFromDirect, Relation!relationBaseFromReverse, Relation!relLabelFor, Settle,
              AffinityOf, BaseOf, ShownLabel
<1>3. Relation!Normalized'[p] = Settle(label'[p], label'[Relation!Back(p)], affinity'[p])
  BY <1>1 DEF Relation!Normalized, Relation!normalizedRelationLabelFor, Relation!affOf, Relation!relationBaseFor,
              Relation!relationBaseFromDirect, Relation!relationBaseFromReverse, Relation!relLabelFor, Settle,
              AffinityOf, BaseOf, ShownLabel
<1> QED
  BY <1>2, <1>3

LEMMA SettleTyped ==
  ASSUME RelationAssumption, NEW l \in Labels, NEW m \in Labels, NEW a \in Warmths
  PROVE  /\ AffinityOf(l, m, a) \in Relation!Values /\ Settle(l, m, a) \in Labels
         /\ a = None => AffinityOf(l, m, a) >= 0
         /\ AffinityOf(l, m, a) < 0 /\ l # "none" => Settle(l, m, a) = "hurt"
         /\ AffinityOf(l, m, a) >= 0 /\ l \notin Relation!Moving => Settle(l, m, a) = l
<1>1. None \notin -100..100
  BY DEF RelationAssumption, Relation!Values
<1>2. BaseOf(l, m) \in 20..100 \cup {None}
  BY BaseValue DEF BaseOf
<1>3. AffinityOf(l, m, a) \in Relation!Values /\ (a = None => AffinityOf(l, m, a) >= 0)
  BY <1>1, <1>2 DEF AffinityOf, Relation!OrZero, Warmths, Relation!Values
<1>4. ShownLabel(m, l) \in Labels
  BY DEF ShownLabel, Labels, Relation!Labels
<1>5. "none" \in Labels /\ "hurt" \in Relation!Moving
  BY DEF Labels, Relation!Labels, Relation!Moving
<1>6. AffinityOf(l, m, a) \in -100..100
  BY <1>3 DEF Relation!Values
<1> QED
  BY <1>3, <1>4, <1>5, <1>6, LabelFromAffinity DEF Settle

(* A second run changes nothing. *)
LEMMA SettleTwice ==
  ASSUME RelationAssumption, NEW l \in Labels, NEW m \in Labels, NEW a \in Warmths, NEW b \in Warmths
  PROVE  Settle(Settle(l, m, a), Settle(m, l, b), a) = Settle(l, m, a)
<1> DEFINE v == AffinityOf(l, m, a)
<1>1. PICK n \in Labels, k \in Labels : n = Settle(l, m, a) /\ k = Settle(m, l, b)
  BY SettleTyped
<1>2. SUFFICES Settle(n, k, a) = n
  BY <1>1
<1>3. v \in Relation!Values /\ v \in -100..100 /\ None \notin -100..100 /\ a \in -100..100 \cup {None}
  BY SettleTyped DEF RelationAssumption, Relation!Values, Warmths
<1>4. AffinityOf(n, k, a) \in Relation!Values /\ AffinityOf(n, k, a) \in -100..100
  BY SettleTyped DEF Relation!Values
<1>0. /\ a = None => v >= 0 /\ AffinityOf(n, k, a) >= 0
      /\ a # None => v = a /\ AffinityOf(n, k, a) = a
  <2>1. a # None => v = a /\ AffinityOf(n, k, a) = a
    BY DEF AffinityOf
  <2> QED
    BY <2>1, SettleTyped
<1>5. /\ \A x \in Relation!Moving : x \notin Relation!Lasting /\ x # "none" /\ x \in Labels
      /\ "none" \notin Relation!Lasting /\ "hurt" \in Relation!Moving /\ "none" \notin Relation!Moving
  BY DEF Relation!Moving, Relation!Lasting, Labels, Relation!Labels
(* The other side becomes lasting only when one of the two was. *)
<1>6. k \in Relation!Lasting => m \in Relation!Lasting \/ l \in Relation!Lasting
  <2>1. AffinityOf(m, l, b) \in Relation!Values /\ AffinityOf(m, l, b) \in -100..100
    BY SettleTyped DEF Relation!Values
  <2>2. \A x : Relation!positiveRelationLabel(x) \notin Relation!Lasting
    BY DEF Relation!positiveRelationLabel, Relation!Lasting
  <2>3. Relation!relationLabelFromAffinity(AffinityOf(m, l, b), m) \in {m, "hurt"}
          \/ Relation!relationLabelFromAffinity(AffinityOf(m, l, b), m) \notin Relation!Lasting
    BY <2>1, <2>2, LabelFromAffinity
  <2> QED
    BY <1>1, <1>5, <2>3 DEF Settle, ShownLabel
<1>7. CASE l = "none"
  BY <1>1, <1>7 DEF Settle
<1>8. CASE l # "none" /\ v < 0
  <2>1. n = "hurt"
    BY <1>1, <1>8, SettleTyped
  <2>2. AffinityOf(n, k, a) < 0
    BY <1>0, <1>3, <1>8
  <2> QED
    BY <1>5, <2>1, <2>2, SettleTyped
<1>9. CASE l # "none" /\ v >= 0 /\ l \notin Relation!Moving
  <2>1. n = l
    BY <1>1, <1>9, SettleTyped
  <2>2. Relation!BaseFromLabel(l) \in 20..100
    BY <1>9 DEF Labels, Relation!Labels, Relation!Moving, Relation!BaseFromLabel
  <2>3. AffinityOf(n, k, a) = v
    BY <1>3, <2>1, <2>2 DEF AffinityOf, BaseOf
  <2> QED
    BY <1>9, <2>1, <2>3, SettleTyped
<1>10. CASE l \in Relation!Moving /\ v >= 35 /\ m \in Relation!Lasting
  <2>1. n = m /\ m \notin Relation!Moving
    BY <1>1, <1>5, <1>10 DEF Settle, ShownLabel
  <2>2. AffinityOf(n, k, a) >= 0
    BY <1>0, <1>3, <1>10
  <2> QED
    BY <2>1, <2>2, SettleTyped
<1>11. CASE l \in Relation!Moving /\ v >= 35 /\ m \notin Relation!Lasting
  <2>1. ShownLabel(m, l) \notin Relation!Lasting
    BY <1>5, <1>11 DEF ShownLabel
  <2>2. n = Relation!relationLabelFromAffinity(v, l)
    BY <1>1, <1>5, <1>11, <2>1 DEF Settle
  <2>3. n \in Relation!Moving /\ n # "hurt"
    BY <1>3, <1>5, <1>11, <2>2, LabelFromAffinity DEF Relation!positiveRelationLabel, Relation!Moving
  <2>4. ShownLabel(k, n) \notin Relation!Lasting
    BY <1>5, <1>6, <1>11, <2>3 DEF ShownLabel
  <2>5. Settle(n, k, a) = Relation!relationLabelFromAffinity(AffinityOf(n, k, a), n)
    BY <1>5, <2>3, <2>4 DEF Settle
  <2>6. AffinityOf(n, k, a) >= 0
    BY <1>0, <1>3, <1>11
  <2> QED
    BY <1>4, <1>5, <2>3, <2>5, <2>6, LabelFromAffinity
<1>12. CASE l \in Relation!Moving /\ v >= 0 /\ v < 35
  <2>1. n = Relation!relationLabelFromAffinity(v, l)
    BY <1>1, <1>3, <1>5, <1>12 DEF Settle
  <2>2. n \in Relation!Moving /\ n # "hurt" /\ (l # "hurt" => n = l) /\ (l = "hurt" /\ v = 0 => n = "known")
    BY <1>3, <1>5, <1>12, <2>1, LabelFromAffinity DEF Relation!positiveRelationLabel, Relation!Moving
  <2>3. AffinityOf(n, k, a) >= 0 /\ AffinityOf(n, k, a) < 35
    <3>1. CASE a # None
      BY <1>3, <1>12, <3>1 DEF AffinityOf
    <3>2. CASE a = None
      <4>1. Relation!BaseFromLabel("known") = 20 /\ Relation!BaseFromLabel("liking") = 65
            /\ Relation!BaseFromLabel("interest") = None /\ Relation!BaseFromLabel("hurt") = None
        BY DEF Relation!BaseFromLabel
      <4>2. v = Relation!OrZero(BaseOf(l, m)) /\ AffinityOf(n, k, a) = Relation!OrZero(BaseOf(n, k))
        BY <3>2 DEF AffinityOf
      <4>3. l \in {"known", "interest", "hurt"}
        BY <1>3, <1>12, <4>1, <4>2 DEF Relation!Moving, BaseOf, Relation!OrZero
      <4>4. CASE l = "known"
        BY <1>3, <2>2, <4>1, <4>2, <4>4 DEF BaseOf, Relation!OrZero
      <4>5. CASE l # "known"
        <5>1. m \notin Relation!Lasting /\ v = 0
          BY <1>3, <1>12, <4>1, <4>2, <4>3, <4>5, BaseValue DEF BaseOf, Relation!OrZero
        <5>2. k \notin Relation!Lasting
          BY <1>5, <1>6, <1>12, <5>1
        <5>3. n \in {"known", "interest"}
          BY <2>2, <4>3, <4>5, <5>1
        <5> QED
          BY <1>3, <4>1, <4>2, <5>2, <5>3 DEF BaseOf, Relation!OrZero
      <4> QED
        BY <4>4, <4>5
    <3> QED
      BY <3>1, <3>2
  <2>4. Settle(n, k, a) = Relation!relationLabelFromAffinity(AffinityOf(n, k, a), n)
    BY <1>4, <1>5, <2>2, <2>3 DEF Settle
  <2> QED
    BY <1>4, <1>5, <2>2, <2>3, <2>4, LabelFromAffinity
<1> QED
  BY <1>3, <1>5, <1>7, <1>8, <1>9, <1>10, <1>11, <1>12

-----------------------------------------------------------------------------
(* What moves an affinity. *)
LEMMA WithBase ==
  ASSUME RelationAssumption, NEW s \in Warmths, NEW base, base = None \/ base \in 0..100
  PROVE  /\ Relation!affinityWithBase(s, base) \in -100..100
         /\ base \in 92..100 /\ (s = None \/ s >= 0) => Relation!affinityWithBase(s, base) >= 92
<1>1. None \notin -100..100 /\ (s = None \/ s \in -100..100)
  BY DEF RelationAssumption, Relation!Values, Warmths
<1> QED
  BY <1>1 DEF Relation!affinityWithBase, Relation!OrZero

LEMMA QuartersTyped == ASSUME NEW n \in Int PROVE n \div 4 \in Int /\ n % 4 \in 0..3
OBVIOUS

LEMMA AdjustedTyped ==
  ASSUME RelationAssumption, RelationTypes, NEW p \in Relation!Pairs, NEW amount \in -30..8
  PROVE  /\ Relation!Adjusted(p, amount)[1] \in Int /\ Relation!Adjusted(p, amount)[2] \in 0..3
         /\ amount <= 0 => Relation!Adjusted(p, amount)[1] = amount
<1>1. Quarters[p[1]] \in Nat /\ remainder[p] \in 0..3
  BY PairSides DEF RelationAssumption, RelationTypes
<1>2. PICK scaled \in Int : scaled = amount * Quarters[p[1]]
  BY <1>1
<1>3. Relation!Adjusted(p, amount) =
        CASE amount <= 0 -> <<amount, remainder[p]>>
          [] amount > 0 /\ scaled >= 4 -> <<(scaled + 2) \div 4, remainder[p]>>
          [] OTHER -> <<(remainder[p] + scaled) \div 4, (remainder[p] + scaled) % 4>>
  BY <1>2, Zenon DEF Relation!Adjusted
<1>4. (scaled + 2) \div 4 \in Int /\ (remainder[p] + scaled) \div 4 \in Int /\ (remainder[p] + scaled) % 4 \in 0..3
  <2>1. PICK a \in Int, b \in Int : a = scaled + 2 /\ b = remainder[p] + scaled
    BY <1>1, <1>2
  <2> QED
    BY <2>1, QuartersTyped, Zenon
<1>5. CASE amount <= 0
  BY <1>1, <1>3, <1>5
<1>6. CASE amount > 0 /\ scaled >= 4
  <2>1. Relation!Adjusted(p, amount) = <<(scaled + 2) \div 4, remainder[p]>>
    BY <1>3, <1>6
  <2> QED
    BY <1>1, <1>4, <1>6, <2>1
<1>7. CASE amount > 0 /\ ~ (scaled >= 4)
  <2>1. Relation!Adjusted(p, amount) = <<(remainder[p] + scaled) \div 4, (remainder[p] + scaled) % 4>>
    BY <1>3, <1>7
  <2> QED
    BY <1>4, <1>7, <2>1
<1> QED
  BY <1>2, <1>5, <1>6, <1>7

LEMMA MaxOfTwo ==
  ASSUME NEW a \in Int, NEW b \in Int
  PROVE  Relation!Max({a, b}) = IF a >= b THEN a ELSE b
BY DEF Relation!Max

LEMMA RoomBaseTyped ==
  ASSUME RelationAssumption, RelationTypes, NEW p \in Relation!Pairs
  PROVE  /\ Relation!RoomBase(p) \in -100..100 /\ (roomBase[p] # None => Relation!RoomBase(p) >= roomBase[p])
         /\ Relation!roomAffOf(p) \in -100..100
         /\ \A q \in Relation!Pairs : Relation!PairRomanceBase(p)[q] \in -100..100 /\ Relation!PairLiveBase(p)[q] \in -100..100
<1>1. None \notin -100..100 /\ (roomBase[p] = None \/ roomBase[p] \in -100..100) /\ (room[p] = None \/ room[p] \in -100..100)
  BY DEF RelationAssumption, RelationTypes, Relation!Values, Warmths
<1>2. \A q \in Relation!Pairs : Relation!LiveBase(q) \in 0..100
  BY BaseTyped
<1>3. Relation!RoomBase(p) \in -100..100 /\ (roomBase[p] # None => Relation!RoomBase(p) >= roomBase[p])
        /\ (roomBase[p] = None => Relation!RoomBase(p) \in 0..100) /\ Relation!RoomBase(p) >= 0
  <2>1. CASE roomBase[p] = None
    BY <1>2, <2>1 DEF Relation!RoomBase
  <2>2. CASE roomBase[p] # None
    <3>1. PICK a \in -100..100, b \in 0..100 : a = roomBase[p] /\ b = Relation!LiveBase(p)
      BY <1>1, <1>2, <2>2
    <3>2. Relation!RoomBase(p) = IF a >= b THEN a ELSE b
      BY <2>2, <3>1, MaxOfTwo DEF Relation!RoomBase
    <3> QED
      BY <2>2, <3>1, <3>2
  <2> QED
    BY <2>1, <2>2
<1>4. Relation!roomAffOf(p) \in -100..100
  <2>1. CASE room[p] = None
    BY <1>3, <2>1 DEF Relation!roomAffOf
  <2>2. CASE room[p] # None
    <3>1. Relation!affinityWithBase(room[p], Relation!RoomBase(p)) \in -100..100
      BY <1>1, <1>3, <2>2 DEF Relation!affinityWithBase, Relation!OrZero
    <3> QED
      BY <2>2, <3>1 DEF Relation!roomAffOf, Relation!Clamp
  <2> QED
    BY <2>1, <2>2
<1>5. ASSUME NEW q \in Relation!Pairs PROVE Relation!PairLiveBase(p)[q] \in -100..100
  BY <1>2 DEF Relation!PairLiveBase
<1>6. ASSUME NEW q \in Relation!Pairs PROVE Relation!relationHintBase(q) \in 0..100
  <2>1. Relation!relLabelFor(q) \in Labels
    BY BaseTyped
  <2> QED
    BY <2>1, BaseValue DEF Relation!relationHintBase
<1>7. PICK a \in 0..100, b \in 0..100 :
        a = Relation!relationHintBase(p) /\ b = Relation!relationHintBase(Relation!Back(p))
  BY <1>6, PairSides
<1>8. {Relation!relationHintBase(r) : r \in Relation!dirKeys(p)} = {a, b}
  BY <1>7, PairSides
<1>9. Relation!Max({Relation!relationHintBase(r) : r \in Relation!dirKeys(p)}) \in 0..100
  <2>1. Relation!Max({a, b}) = IF a >= b THEN a ELSE b
    BY <1>7, MaxOfTwo
  <2> QED
    BY <1>7, <1>8, <2>1
<1>10. ASSUME NEW q \in Relation!Pairs PROVE Relation!PairRomanceBase(p)[q] \in -100..100
  BY <1>9 DEF Relation!PairRomanceBase
<1> QED
  BY <1>3, <1>4, <1>5, <1>10

(* A repair raises what is below the base, and nothing else. *)
LEMMA Repaired ==
  ASSUME RelationAssumption, NEW f \in [Relation!Pairs -> Warmths], NEW base, \A q \in Relation!Pairs : base[q] \in -100..100
  PROVE  /\ Relation!repaired(f, base) \in [Relation!Pairs -> Warmths]
         /\ \A q \in Relation!Pairs : f[q] # None => Relation!repaired(f, base)[q] >= f[q]
<1> SUFFICES ASSUME NEW q \in Relation!Pairs
             PROVE  /\ Relation!repaired(f, base)[q] \in Warmths
                    /\ f[q] # None => Relation!repaired(f, base)[q] >= f[q]
  BY DEF Relation!repaired
<1>1. None \notin -100..100 /\ (f[q] = None \/ f[q] \in -100..100) /\ base[q] \in -100..100
  BY DEF RelationAssumption, Relation!Values, Warmths
<1>2. Relation!repaired(f, base)[q] =
        IF base[q] >= 90 /\ (f[q] = None \/ (Relation!OrZero(f[q]) >= 0 /\ Relation!OrZero(f[q]) < base[q])) THEN base[q] ELSE f[q]
  BY DEF Relation!repaired
<1> QED
  BY <1>1, <1>2 DEF Relation!OrZero, Warmths, Relation!Values

LEMMA RoomStep ==
  ASSUME RelationAssumption, RelationInv, NEW p \in Relation!Pairs,
         (\E d \in Deltas : Relation!bumpRoomAffinity(p, d)) \/ Relation!repairRoomAffinityBase(p)
  PROVE  /\ RelationInv' /\ UNCHANGED label
         /\ \A q \in Relation!Pairs : roomBase[q] # None => roomBase'[q] >= roomBase[q]
<1>1. UNCHANGED <<label, affinity, remainder, proposing, generating, proposal, judging, effect, decided>>
  BY DEF Relation!bumpRoomAffinity, Relation!repairRoomAffinityBase, Relation!proposalVars
<1>2. /\ roomBase' \in [Relation!Pairs -> Warmths] /\ room' \in [Relation!Pairs -> Warmths]
      /\ \A q \in Relation!Pairs : roomBase[q] # None => roomBase'[q] >= roomBase[q]
  <2>1. ASSUME NEW d \in Deltas, Relation!bumpRoomAffinity(p, d)
        PROVE  /\ roomBase' \in [Relation!Pairs -> Warmths] /\ room' \in [Relation!Pairs -> Warmths]
               /\ \A q \in Relation!Pairs : roomBase[q] # None => roomBase'[q] >= roomBase[q]
    <3>1. Relation!RoomBase(p) \in -100..100 /\ (roomBase[p] # None => Relation!RoomBase(p) >= roomBase[p])
      BY RoomBaseTyped DEF RelationInv
    <3>2. Relation!Clamp(Relation!roomAffOf(p) + d) \in -100..100
      <4>1. Relation!roomAffOf(p) \in -100..100 /\ d \in -30..8
        BY RoomBaseTyped DEF RelationInv, RelationAssumption
      <4> QED
        BY <4>1 DEF Relation!Clamp
    <3>3. roomBase' = [roomBase EXCEPT ![p] = Relation!RoomBase(p)] /\ room' = [room EXCEPT ![p] = Relation!Clamp(Relation!roomAffOf(p) + d)]
      BY <2>1 DEF Relation!bumpRoomAffinity
    <3>4. \A q \in Relation!Pairs : roomBase[q] = None \/ roomBase[q] \in -100..100
      BY DEF RelationInv, RelationTypes, Warmths, Relation!Values
    <3>5. roomBase' \in [Relation!Pairs -> Warmths]
      BY <3>1, <3>3 DEF RelationInv, RelationTypes, Warmths, Relation!Values
    <3>6. room' \in [Relation!Pairs -> Warmths]
      BY <3>2, <3>3 DEF RelationInv, RelationTypes, Warmths, Relation!Values
    <3>7. ASSUME NEW q \in Relation!Pairs, roomBase[q] # None PROVE roomBase'[q] >= roomBase[q]
      <4>1. CASE q = p
        BY <3>1, <3>3, <3>7, <4>1 DEF RelationInv, RelationTypes
      <4>2. CASE q # p
        BY <3>3, <3>4, <3>7, <4>2 DEF RelationInv, RelationTypes
      <4> QED
        BY <4>1, <4>2
    <3> QED
      BY <3>5, <3>6, <3>7
  <2>2. ASSUME Relation!repairRoomAffinityBase(p)
        PROVE  /\ roomBase' \in [Relation!Pairs -> Warmths] /\ room' \in [Relation!Pairs -> Warmths]
               /\ \A q \in Relation!Pairs : roomBase[q] # None => roomBase'[q] >= roomBase[q]
    <3>1. PICK base \in {Relation!PairRomanceBase(p), Relation!PairLiveBase(p)} :
            roomBase' = Relation!repaired(roomBase, base) /\ room' = Relation!repaired(room, base)
      BY <2>2 DEF Relation!repairRoomAffinityBase
    <3>2. \A q \in Relation!Pairs : base[q] \in -100..100
      BY <3>1, RoomBaseTyped DEF RelationInv
    <3>3. roomBase \in [Relation!Pairs -> Warmths] /\ room \in [Relation!Pairs -> Warmths]
      BY DEF RelationInv, RelationTypes
    <3> HIDE DEF Warmths
    <3> QED
      BY <3>1, <3>2, <3>3, Repaired
  <2> QED
    BY <2>1, <2>2
<1>3. Relation!Normalized' = Relation!Normalized
  BY <1>1 DEF Relation!Normalized, Relation!normalizedRelationLabelFor, Relation!affOf, Relation!relationBaseFor,
              Relation!relationBaseFromDirect, Relation!relationBaseFromReverse, Relation!relLabelFor
<1> QED
  BY <1>1, <1>2, <1>3 DEF RelationInv, RelationTypes, OneProposal, DecidedStays, Relation!LabelsSettle

-----------------------------------------------------------------------------
LEMMA EffectStep ==
  ASSUME RelationAssumption, RelationInv, Relation!RunEffect
  PROVE  /\ RelationInv'
         /\ \A p \in Relation!Pairs : label[p] \in Relation!Lasting /\ Relation!OrZero(affinity[p]) >= 0 => label'[p] = label[p]
<1>1. /\ label' = Relation!Normalized /\ UNCHANGED <<affinity, remainder, proposing, generating, proposal, judging, roomBase, room, decided>>
  BY DEF Relation!RunEffect, Relation!proposalVars
<1>2. ASSUME NEW p \in Relation!Pairs
      PROVE  /\ label'[p] = Settle(label[p], label[Relation!Back(p)], affinity[p])
             /\ label[p] \in Labels /\ label[Relation!Back(p)] \in Labels /\ affinity[p] \in Warmths
             /\ affinity[Relation!Back(p)] \in Warmths
  BY <1>1, PairSides, SettlesLabels DEF RelationInv, RelationTypes
<1>3. label' \in [Relation!Pairs -> Labels]
  <2>1. \A p \in Relation!Pairs : label'[p] \in Labels
    BY <1>2, SettleTyped
  <2> QED
    BY <1>1, <2>1 DEF Relation!Normalized
<1>4. Relation!Normalized' = label'
  <2>1. ASSUME NEW p \in Relation!Pairs PROVE Relation!Normalized'[p] = label'[p]
    <3>1. Relation!Back(p) \in Relation!Pairs /\ Relation!Back(Relation!Back(p)) = p
      BY PairSides
    <3>2. Relation!Normalized'[p] = Settle(label'[p], label'[Relation!Back(p)], affinity[p])
      BY <1>1, SettlesLabels
    <3>3. /\ label'[p] = Settle(label[p], label[Relation!Back(p)], affinity[p])
          /\ label'[Relation!Back(p)] = Settle(label[Relation!Back(p)], label[p], affinity[Relation!Back(p)])
      BY <1>2, <3>1
    <3> QED
      BY <1>2, <3>2, <3>3, SettleTwice
  <2>2. Relation!Normalized' = [p \in Relation!Pairs |-> Relation!Normalized'[p]]
    BY DEF Relation!Normalized
  <2> QED
    BY <1>3, <2>1, <2>2
<1>5. ASSUME NEW p \in Relation!Pairs, label[p] \in Relation!Romance, affinity[p] = None \/ affinity[p] >= 0
      PROVE  label'[p] = label[p]
  <2>1. label[p] \notin Relation!Moving /\ label[p] # "none"
    BY <1>5 DEF Relation!Romance, Relation!Lasting, Relation!Moving
  <2>2. AffinityOf(label[p], label[Relation!Back(p)], affinity[p]) >= 0
    <3>1. affinity[p] # None => AffinityOf(label[p], label[Relation!Back(p)], affinity[p]) = affinity[p]
      BY DEF AffinityOf
    <3>2. affinity[p] = None => AffinityOf(label[p], label[Relation!Back(p)], affinity[p]) >= 0
      BY <1>2, SettleTyped
    <3> QED
      BY <1>5, <3>1, <3>2
  <2> QED
    BY <1>2, <2>1, <2>2, SettleTyped
<1>6. DecidedStays'
  <2>1. ASSUME NEW p \in Relation!Pairs, decided[p] # None PROVE label'[p] = label[p]
    <3>1. affinity[p] # None /\ affinity[p] >= 35 /\ label[p] \in Relation!Romance /\ affinity[p] \in -100..100
      BY <1>2, <2>1 DEF RelationInv, DecidedStays, Warmths, Relation!Values
    <3> QED
      BY <1>5, <3>1
  <2> QED
    BY <1>1, <2>1 DEF RelationInv, DecidedStays
<1>7. ASSUME NEW p \in Relation!Pairs, label[p] \in Relation!Lasting, Relation!OrZero(affinity[p]) >= 0 PROVE label'[p] = label[p]
  BY <1>5, <1>7 DEF Relation!OrZero, Relation!Romance
<1> QED
  BY <1>1, <1>3, <1>4, <1>6, <1>7 DEF RelationInv, RelationTypes, OneProposal, Relation!LabelsSettle

(* A change of a pair: what was decided about it is no longer, and the effect will run. *)
LEMMA PairChanged ==
  ASSUME RelationInv, NEW p \in Relation!Pairs, Relation!Changed({p}),
         \A q \in Relation!Pairs \ Relation!dirKeys(p) : label'[q] = label[q] /\ affinity'[q] = affinity[q]
  PROVE  DecidedStays' /\ decided' \in [Relation!Pairs -> Labels \cup {None}]
<1>1. decided' = [q \in Relation!Pairs |-> IF {p} \cap Relation!dirKeys(q) # {} THEN None ELSE decided[q]]
  BY DEF Relation!Changed
<1>2. ASSUME NEW q \in Relation!Pairs, q \in Relation!dirKeys(p) PROVE p \in Relation!dirKeys(q)
  BY <1>2, PairSides
<1>3. ASSUME NEW q \in Relation!Pairs, decided'[q] # None
      PROVE  q \notin Relation!dirKeys(p) /\ decided'[q] = decided[q]
  BY <1>1, <1>2, <1>3
<1> QED
  BY <1>1, <1>3 DEF RelationInv, DecidedStays

(* A label that is given with an affinity. *)
LEMMA LabelSet ==
  ASSUME RelationAssumption, RelationInv, NEW p \in Relation!Pairs, NEW l \in Labels, Relation!setRelationLabelFor(p, l)
  PROVE  /\ label' \in [Relation!Pairs -> Labels] /\ \A q \in Relation!Pairs \ {p} : label'[q] = label[q]
         /\ l = Relation!relLabelFor(p) => label' = label
BY DEF Relation!setRelationLabelFor, Relation!WithLabel, RelationInv, RelationTypes

LEMMA BumpStep ==
  ASSUME RelationAssumption, RelationInv, NEW p \in Relation!Pairs, NEW d \in Deltas, Relation!bumpAffinity(p, d)
  PROVE  /\ RelationInv' /\ UNCHANGED roomBase
         /\ \A q \in Relation!Pairs : label[q] \in Relation!Lasting /\ Relation!OrZero(affinity[q]) >= 0 => label'[q] = label[q]
<1> DEFINE points == Relation!Adjusted(p, d)[1]
           after == Relation!nextAffinity(p, points)
           before == Relation!affinityWithBase(affinity[p], Relation!relationBaseFor(p))
           ignored == d > 0 /\ points <= 0
           asks == ~ ignored /\ Relation!CrossesThreshold(p, before, after)
           given == IF ignored THEN Relation!relLabelFor(p) ELSE Relation!relationLabelFromAffinity(after, Relation!relLabelFor(p))
<1>1. /\ remainder' = [remainder EXCEPT ![p] = Relation!Adjusted(p, d)[2]]
      /\ affinity' = IF ignored THEN affinity ELSE [affinity EXCEPT ![p] = after]
      /\ Relation!setRelationLabelFor(p, given)
      /\ proposing' = (proposing \/ asks)
      /\ generating' = IF asks THEN generating \cup {p} ELSE generating
      /\ effect' = (effect \/ ~ ignored)
      /\ Relation!Changed({p})
      /\ UNCHANGED <<proposal, judging, roomBase, room>>
  BY DEF Relation!bumpAffinity
<1>2. d \in -30..8 /\ points \in Int /\ Relation!Adjusted(p, d)[2] \in 0..3 /\ (d <= 0 => points = d)
  BY AdjustedTyped DEF RelationAssumption, RelationInv
<1>3. /\ Relation!relationBaseFor(p) = None \/ Relation!relationBaseFor(p) \in 0..100
      /\ label[p] \in Relation!Lasting => Relation!relationBaseFor(p) \in 92..100 /\ Relation!relLabelFor(p) = label[p]
      /\ Relation!relLabelFor(p) \in Labels
  BY BaseTyped DEF RelationInv
<1>4. /\ before \in -100..100 /\ affinity[p] \in Warmths
      /\ label[p] \in Relation!Lasting /\ (affinity[p] = None \/ affinity[p] >= 0) => before >= 92
  BY <1>3, WithBase DEF RelationInv, RelationTypes
<1>5. after \in -100..100 /\ (before >= 92 /\ points >= -30 => after >= 0)
  <2>1. after = Relation!Clamp(before + points)
    BY DEF Relation!nextAffinity
  <2> HIDE DEF after, before, points
  <2> QED
    <3>1. before + points \in Int
      BY <1>2, <1>4
    <3>2. Relation!Clamp(before + points) \in -100..100
      BY <3>1 DEF Relation!Clamp
    <3>3. ASSUME before >= 92, points >= -30 PROVE Relation!Clamp(before + points) >= 0
      BY <1>2, <1>4, <3>1, <3>3 DEF Relation!Clamp
    <3> QED
      BY <2>1, <3>2, <3>3
<1>6. given \in Labels
  BY <1>3, <1>5, LabelFromAffinity
<1> HIDE DEF after, before, points, given
<1>7. label' \in [Relation!Pairs -> Labels] /\ \A q \in Relation!Pairs \ {p} : label'[q] = label[q]
  BY <1>1, <1>6, LabelSet
<1>8. ignored => label' = label /\ affinity' = affinity
  BY <1>1, <1>6, LabelSet DEF given
<1>9. affinity' \in [Relation!Pairs -> Warmths] /\ \A q \in Relation!Pairs \ {p} : affinity'[q] = affinity[q]
  BY <1>1, <1>5 DEF RelationInv, RelationTypes, Warmths, Relation!Values
<1>10. RelationTypes'
  BY <1>1, <1>2, <1>7, <1>9 DEF RelationInv, RelationTypes
<1>11. DecidedStays' /\ decided' \in [Relation!Pairs -> Labels \cup {None}]
  <2>1. p \in Relation!Pairs /\ Relation!Changed({p}) /\ RelationInv
    BY <1>1
  <2> QED
    BY <1>7, <1>9, <2>1, PairChanged, PairSides
<1>12. OneProposal'
  BY <1>1, Zenon DEF RelationInv, OneProposal, Relation!CrossesThreshold
<1>13. Relation!LabelsSettle'
  <2>1. CASE ignored
    <3>1. Relation!Normalized' = Relation!Normalized
      BY <1>8, <2>1 DEF Relation!Normalized, Relation!normalizedRelationLabelFor, Relation!affOf, Relation!relationBaseFor,
                    Relation!relationBaseFromDirect, Relation!relationBaseFromReverse, Relation!relLabelFor
    <3> QED
      BY <1>1, <1>8, <2>1, <3>1, Zenon DEF RelationInv, Relation!LabelsSettle
  <2>2. CASE ~ ignored
    BY <1>1, <2>2 DEF Relation!LabelsSettle
  <2> QED
    BY <2>1, <2>2
<1>14. ASSUME label[p] \in Relation!Lasting, Relation!OrZero(affinity[p]) >= 0, ~ ignored PROVE label'[p] = label[p]
  <2>1. affinity[p] = None \/ affinity[p] >= 0
    BY <1>14 DEF Relation!OrZero
  <2>2. points >= -30
    BY <1>2, <1>14
  <2>3. after >= 0 /\ label[p] \notin {"hurt", "none"} /\ label[p] \in Labels
    BY <1>4, <1>5, <1>14, <2>1, <2>2 DEF Relation!Lasting, RelationInv, RelationTypes
  <2>4. given = Relation!relLabelFor(p)
    BY <1>3, <1>5, <1>14, <2>3, LabelFromAffinity DEF given
  <2> QED
    BY <1>1, <1>6, <2>4, LabelSet
<1> QED
  BY <1>1, <1>7, <1>8, <1>10, <1>11, <1>12, <1>13, <1>14 DEF RelationInv

LEMMA ManualStep ==
  ASSUME RelationAssumption, RelationInv, NEW p \in Relation!Pairs,
         \/ \E v \in ManualValues : Relation!setAffinityManual(p, v)
         \/ Relation!deleteRelationAt(p) \/ Relation!resetDmAffinity(p)
  PROVE  RelationInv' /\ UNCHANGED roomBase
<1> USE DEF Relation!proposalVars
<1>1. ASSUME NEW v \in ManualValues, Relation!setAffinityManual(p, v) PROVE RelationInv' /\ UNCHANGED roomBase
  <2>1. v \in -100..100
    BY DEF RelationAssumption, Relation!Values
  <2>2. Relation!relationLabelFromAffinity(v, Relation!relLabelFor(p)) \in Labels
    BY <2>1, BaseTyped, LabelFromAffinity DEF RelationInv
  <2>3. label' \in [Relation!Pairs -> Labels] /\ \A q \in Relation!Pairs \ {p} : label'[q] = label[q]
    BY <1>1, <2>2, LabelSet DEF Relation!setAffinityManual
  <2>4. /\ affinity' = [affinity EXCEPT ![p] = v] /\ effect' = TRUE /\ Relation!Changed({p})
        /\ UNCHANGED <<remainder, proposing, generating, proposal, judging, roomBase, room>>
    BY <1>1 DEF Relation!setAffinityManual
  <2>5. affinity' \in [Relation!Pairs -> Warmths] /\ \A q \in Relation!Pairs \ {p} : affinity'[q] = affinity[q]
    BY <2>1, <2>4 DEF RelationInv, RelationTypes, Warmths, Relation!Values
  <2>6. DecidedStays' /\ decided' \in [Relation!Pairs -> Labels \cup {None}]
    BY <2>3, <2>4, <2>5, PairChanged, PairSides
  <2> QED
    BY <2>3, <2>4, <2>5, <2>6 DEF RelationInv, RelationTypes, OneProposal, Relation!LabelsSettle
<1>2. ASSUME Relation!deleteRelationAt(p) \/ Relation!resetDmAffinity(p) PROVE RelationInv' /\ UNCHANGED roomBase
  <2>1. /\ affinity' = [q \in Relation!Pairs |-> IF q \in Relation!dirKeys(p) THEN None ELSE affinity[q]]
        /\ effect' = TRUE /\ Relation!Changed({p})
        /\ UNCHANGED <<proposing, generating, proposal, judging, roomBase, room>>
    BY <1>2 DEF Relation!deleteRelationAt, Relation!resetDmAffinity, Relation!Forget
  <2>2. remainder' \in [Relation!Pairs -> 0..3]
    BY <1>2 DEF Relation!deleteRelationAt, Relation!resetDmAffinity, RelationInv, RelationTypes
  <2>3. label' \in [Relation!Pairs -> Labels] /\ \A q \in Relation!Pairs \ Relation!dirKeys(p) : label'[q] = label[q]
    <3>1. \A q \in Relation!Pairs : Relation!resetRelationLabel(q) \in Labels
      BY DEF Relation!resetRelationLabel, RelationInv, RelationTypes, Labels, Relation!Labels
    <3>2. "none" \in Labels
      BY DEF Labels, Relation!Labels
    <3>3. CASE Relation!deleteRelationAt(p)
      BY <3>2, <3>3 DEF Relation!deleteRelationAt, Relation!withoutTargetRelation, RelationInv, RelationTypes
    <3>4. CASE Relation!resetDmAffinity(p)
      BY <3>1, <3>4 DEF Relation!resetDmAffinity, RelationInv, RelationTypes
    <3> QED
      BY <1>2, <3>3, <3>4
  <2>4. affinity' \in [Relation!Pairs -> Warmths] /\ \A q \in Relation!Pairs \ Relation!dirKeys(p) : affinity'[q] = affinity[q]
    BY <2>1 DEF RelationInv, RelationTypes, Warmths
  <2>5. DecidedStays' /\ decided' \in [Relation!Pairs -> Labels \cup {None}]
    BY <2>1, <2>3, <2>4, PairChanged
  <2> QED
    BY <2>1, <2>2, <2>3, <2>4, <2>5 DEF RelationInv, RelationTypes, OneProposal, Relation!LabelsSettle
<1> QED
  BY <1>1, <1>2

(* The labels of an answer are of love, and the affinities keep them. *)
LEMMA JudgeStep ==
  ASSUME RelationAssumption, RelationInv, NEW j \in judging, NEW reply \in {"accept", "reject", "failed"},
         Relation!JudgeAcceptance(j, reply)
  PROVE  RelationInv' /\ UNCHANGED roomBase
<1> DEFINE p == j.pair
           q == Relation!Back(p)
           accepted == reply = "accept" \/ (reply = "failed" /\ j.back >= 50)
           pairs == IF accepted THEN Relation!dirKeys(p) ELSE {p}
<1>1. p \in Relation!Pairs /\ q \in Relation!Pairs /\ p # q /\ Relation!dirKeys(p) = {p, q}
  BY PairSides DEF RelationInv, RelationTypes
<1>2. /\ judging' = judging \ {j} /\ effect' = TRUE
      /\ affinity' = IF accepted THEN Relation!acceptLove(p) ELSE Relation!rejectLove(p)
      /\ label' = [r \in Relation!Pairs |-> IF r \notin pairs THEN label[r]
                                            ELSE IF accepted THEN Relation!advanceRelation(r)
                                            ELSE Relation!setRelationToLove(r)]
      /\ decided' = [r \in Relation!Pairs |-> IF r \in pairs /\ r[1] \in Own THEN label'[r]
                                              ELSE IF r \in Relation!dirKeys(p) THEN None ELSE decided[r]]
      /\ UNCHANGED <<remainder, proposing, generating, proposal, roomBase, room>>
  BY DEF Relation!JudgeAcceptance
<1>3. None \notin -100..100 /\ \A r \in Relation!Pairs : affinity[r] = None \/ affinity[r] \in -100..100
  BY DEF RelationAssumption, RelationInv, RelationTypes, Warmths, Relation!Values
<1>4. \A r \in Relation!Pairs : label[r] \in Labels
  BY DEF RelationInv, RelationTypes
<1>5. ASSUME NEW r \in Relation!Pairs
      PROVE  /\ Relation!advanceRelation(r) \in Labels /\ Relation!setRelationToLove(r) \in Labels
             /\ r[1] \in Own => Relation!advanceRelation(r) \in Relation!Romance /\ Relation!setRelationToLove(r) \in Relation!Romance
  <2>1. Relation!RELATION_STEP(label[r]) \in {"crush", "lovers", "engaged", "married"}
    BY DEF Relation!RELATION_STEP
  <2> QED
    BY <1>4, <2>1 DEF Relation!advanceRelation, Relation!setRelationToLove, Labels, Relation!Labels,
                      Relation!Romance, Relation!Lasting
<1>6. label' \in [Relation!Pairs -> Labels]
  BY <1>2, <1>4, <1>5
<1>7. /\ affinity' \in [Relation!Pairs -> Warmths]
      /\ \A r \in pairs : affinity'[r] # None /\ affinity'[r] >= 35
      /\ \A r \in Relation!Pairs \ {p, q} : affinity'[r] = affinity[r]
  <2>1. CASE accepted
    <3>a. Relation!AtLeast(affinity[p], 88) \in 88..100
      <4>1. CASE affinity[p] = None
        BY <4>1 DEF Relation!AtLeast, Relation!OrZero
      <4>2. CASE affinity[p] \in -100..100
        BY <1>3, <4>2 DEF Relation!AtLeast, Relation!OrZero
      <4> QED
        BY <1>1, <1>3, <4>1, <4>2
    <3>b. Relation!AtLeast(affinity[q], 80) \in 80..100
      <4>1. CASE affinity[q] = None
        BY <4>1 DEF Relation!AtLeast, Relation!OrZero
      <4>2. CASE affinity[q] \in -100..100
        BY <1>3, <4>2 DEF Relation!AtLeast, Relation!OrZero
      <4> QED
        BY <1>1, <1>3, <4>1, <4>2
    <3>1. PICK a \in 88..100, b \in 80..100 : a = Relation!AtLeast(affinity[p], 88) /\ b = Relation!AtLeast(affinity[q], 80)
      BY <3>a, <3>b
    <3>2. affinity' = [affinity EXCEPT ![p] = a, ![q] = b] /\ affinity \in [Relation!Pairs -> Warmths]
      BY <1>2, <2>1, <3>1 DEF Relation!acceptLove, RelationInv, RelationTypes
    <3>3. affinity'[p] = a /\ affinity'[q] = b /\ \A r \in Relation!Pairs \ {p, q} : affinity'[r] = affinity[r]
      BY <1>1, <3>2
    <3>4. a \in Warmths /\ b \in Warmths /\ a # None /\ b # None
      BY <1>3 DEF Warmths, Relation!Values
    <3>5. affinity' \in [Relation!Pairs -> Warmths]
      BY <3>2, <3>4
    <3>6. pairs = {p, q}
      BY <1>1, <2>1
    <3> QED
      BY <3>3, <3>4, <3>5, <3>6
  <2>2. CASE ~ accepted
    <3>1. PICK a \in 35..100 : affinity' = [affinity EXCEPT ![p] = a]
      <4>1. PICK v \in -100..100 : v = Relation!OrZero(affinity[p])
        BY <1>1, <1>3 DEF Relation!OrZero
      <4>2. v # 0 => affinity[p] = v
        BY <4>1 DEF Relation!OrZero
      <4>3. Relation!rejectLove(p) =
              [affinity EXCEPT ![p] = IF (IF v = 0 THEN 60 ELSE v) - 18 < 35 THEN 35 ELSE (IF v = 0 THEN 60 ELSE v) - 18]
        BY <4>1, <4>2 DEF Relation!rejectLove
      <4>4. PICK a \in 35..100 : a = IF (IF v = 0 THEN 60 ELSE v) - 18 < 35 THEN 35 ELSE (IF v = 0 THEN 60 ELSE v) - 18
        OBVIOUS
      <4>5. affinity' = [affinity EXCEPT ![p] = a]
        BY <1>2, <2>2, <4>3, <4>4
      <4> QED
        BY <4>5
    <3>2. affinity \in [Relation!Pairs -> Warmths] /\ a \in Warmths /\ a # None
      BY <1>3 DEF RelationInv, RelationTypes, Warmths, Relation!Values
    <3>3. affinity'[p] = a /\ affinity' \in [Relation!Pairs -> Warmths] /\ \A r \in Relation!Pairs \ {p, q} : affinity'[r] = affinity[r]
      BY <1>1, <3>1, <3>2
    <3> QED
      BY <2>2, <3>2, <3>3
  <2> QED
    BY <2>1, <2>2
<1>8. pairs \subseteq {p, q}
  BY <1>1
<1> HIDE DEF accepted, pairs
<1>9. DecidedStays'
  <2> SUFFICES ASSUME NEW r \in Relation!Pairs, decided'[r] # None
               PROVE  /\ label'[r] = decided'[r] /\ label'[r] \in Relation!Romance
                      /\ affinity'[r] # None /\ affinity'[r] >= 35
    BY DEF DecidedStays
  <2>1. CASE r \in pairs /\ r[1] \in Own
    BY <1>2, <1>5, <1>7, <2>1
  <2>2. CASE ~ (r \in pairs /\ r[1] \in Own)
    <3>1. r \notin {p, q} /\ decided'[r] = decided[r]
      BY <1>1, <1>2, <2>2
    <3>2. label'[r] = label[r] /\ affinity'[r] = affinity[r]
      BY <1>2, <1>7, <1>8, <3>1
    <3> QED
      BY <3>1, <3>2 DEF RelationInv, DecidedStays
  <2> QED
    BY <2>1, <2>2
<1>10. decided' \in [Relation!Pairs -> Labels \cup {None}]
  BY <1>2, <1>6 DEF RelationInv
<1> QED
  BY <1>2, <1>6, <1>7, <1>9, <1>10 DEF RelationInv, RelationTypes, OneProposal, Relation!LabelsSettle

LEMMA ProposalStep ==
  ASSUME RelationAssumption, RelationInv,
         \/ \E p \in generating, worded \in BOOLEAN : Relation!ShowProposal(p, worded)
         \/ \E approve \in BOOLEAN : Relation!resolveProposal(approve)
  PROVE  RelationInv' /\ UNCHANGED roomBase
<1>1. ASSUME NEW p \in generating, NEW worded \in BOOLEAN, Relation!ShowProposal(p, worded)
      PROVE  RelationInv' /\ UNCHANGED roomBase
  <2>1. /\ generating' = generating \ {p} /\ proposal' = p /\ proposing' = FALSE
        /\ UNCHANGED <<label, affinity, remainder, judging, effect, roomBase, room, decided>>
    BY <1>1 DEF Relation!ShowProposal, Relation!Proposing
  <2>2. Relation!Normalized' = Relation!Normalized
    BY <2>1 DEF Relation!Normalized, Relation!normalizedRelationLabelFor, Relation!affOf, Relation!relationBaseFor,
                Relation!relationBaseFromDirect, Relation!relationBaseFromReverse, Relation!relLabelFor
  <2> QED
    BY <2>1, <2>2 DEF RelationInv, RelationTypes, OneProposal, DecidedStays, Relation!LabelsSettle
<1>2. ASSUME NEW approve \in BOOLEAN, Relation!resolveProposal(approve)
      PROVE  RelationInv' /\ UNCHANGED roomBase
  <2>1. /\ proposal \in Relation!Pairs /\ proposal' = None
        /\ UNCHANGED <<label, remainder, proposing, generating, roomBase, room>>
    BY <1>2 DEF Relation!resolveProposal, RelationInv, RelationTypes
  <2>2. CASE approve
    <3>1. PICK new : new = [pair |-> proposal, back |-> Relation!affOf(Relation!Back(proposal))]
      OBVIOUS
    <3>2. judging' = judging \cup {new} /\ new.pair = proposal /\ UNCHANGED <<affinity, effect, decided>>
      BY <1>2, <2>2, <3>1 DEF Relation!resolveProposal
    <3>3. Relation!Normalized' = Relation!Normalized
      BY <2>1, <3>2 DEF Relation!Normalized, Relation!normalizedRelationLabelFor, Relation!affOf, Relation!relationBaseFor,
                  Relation!relationBaseFromDirect, Relation!relationBaseFromReverse, Relation!relLabelFor
    <3> HIDE <3>1
    <3> QED
      BY <2>1, <3>2, <3>3 DEF RelationInv, RelationTypes, OneProposal, DecidedStays, Relation!LabelsSettle
  <2>3. CASE ~ approve
    <3>1. /\ affinity' = [affinity EXCEPT ![proposal] = 45] /\ effect' = TRUE /\ Relation!Changed({proposal})
          /\ UNCHANGED judging
      BY <1>2, <2>3 DEF Relation!resolveProposal
    <3>2. affinity' \in [Relation!Pairs -> Warmths] /\ \A q \in Relation!Pairs \ {proposal} : affinity'[q] = affinity[q]
      BY <2>1, <3>1 DEF RelationInv, RelationTypes, Warmths, Relation!Values
    <3>3. DecidedStays' /\ decided' \in [Relation!Pairs -> Labels \cup {None}]
      BY <2>1, <3>1, <3>2, PairChanged, PairSides
    <3> QED
      BY <2>1, <3>1, <3>2, <3>3 DEF RelationInv, RelationTypes, OneProposal, Relation!LabelsSettle
  <2> QED
    BY <2>2, <2>3
<1> QED
  BY <1>1, <1>2

-----------------------------------------------------------------------------
LEMMA RelationStep ==
  ASSUME RelationAssumption, RelationInv, [Relation!Next]_Relation!relationVars
  PROVE  RelationInv' /\ [Relation!LoveHolds]_Relation!relationVars
<1>1. ASSUME Relation!RunEffect \/ Relation!Conversation
      PROVE  RelationInv' /\ Relation!LoveHolds
  <2>1. CASE Relation!RunEffect
    <3>1. UNCHANGED roomBase
      BY <2>1 DEF Relation!RunEffect
    <3>2. \A p \in Relation!Pairs : roomBase[p] = None \/ roomBase[p] \in -100..100
      BY DEF RelationInv, RelationTypes, Warmths, Relation!Values
    <3> QED
      BY <2>1, <3>1, <3>2, EffectStep DEF Relation!LoveHolds
  <2>2. ASSUME NEW p \in Relation!Pairs, NEW d \in Deltas, Relation!bumpAffinity(p, d)
        PROVE  RelationInv' /\ Relation!LoveHolds
    <3>1. \A q \in Relation!Pairs : roomBase[q] = None \/ roomBase[q] \in -100..100
      BY DEF RelationInv, RelationTypes, Warmths, Relation!Values
    <3> QED
      BY <2>2, <3>1, BumpStep DEF Relation!LoveHolds
  <2>3. ASSUME NEW p \in Relation!Pairs, NEW d \in Deltas, Relation!bumpRoomAffinity(p, d)
        PROVE  RelationInv' /\ Relation!LoveHolds
    BY <2>3, RoomStep DEF Relation!LoveHolds
  <2> QED
    BY <1>1, <2>1, <2>2, <2>3 DEF Relation!Conversation
<1>2. ASSUME ~ (Relation!RunEffect \/ Relation!Conversation), Relation!Next
      PROVE  RelationInv' /\ Relation!LoveHolds
  <2>1. \A q \in Relation!Pairs : roomBase[q] = None \/ roomBase[q] \in -100..100
    BY DEF RelationInv, RelationTypes, Warmths, Relation!Values
  <2>2. RelationInv' /\ \A q \in Relation!Pairs : roomBase[q] # None => roomBase'[q] >= roomBase[q]
    BY <1>2, <2>1, RoomStep, ManualStep, ProposalStep, JudgeStep DEF Relation!Next
  <2> QED
    BY <1>2, <2>2 DEF Relation!LoveHolds
<1>3. CASE UNCHANGED Relation!relationVars
  <2>1. UNCHANGED <<label, affinity, remainder, proposing, generating, proposal, judging, effect, roomBase, room, decided>>
    BY <1>3 DEF Relation!relationVars
  <2>2. Relation!Normalized' = Relation!Normalized
    BY <2>1 DEF Relation!Normalized, Relation!normalizedRelationLabelFor, Relation!affOf, Relation!relationBaseFor,
                Relation!relationBaseFromDirect, Relation!relationBaseFromReverse, Relation!relLabelFor
  <2> QED
    BY <1>3, <2>1, <2>2 DEF RelationInv, RelationTypes, OneProposal, DecidedStays, Relation!LabelsSettle
<1> QED
  BY <1>1, <1>2, <1>3

(* Whatever is felt, said, approved and forgotten: one proposal at a time is worded, an answer's   *)
(* labels stay until the pair changes, one run of the effect settles all labels, and conversations *)
(* never end a love nor lower what a room remembers.                                               *)
THEOREM RelationsHold ==
  ASSUME RelationAssumption
  PROVE  Relation!Spec => /\ []Relation!RelationsTrue
                          /\ [][Relation!LoveHolds]_Relation!relationVars
<1>1. ASSUME Relation!Init PROVE RelationInv
  <2>1. label \in [Relation!Pairs -> Labels]
    BY <1>1 DEF Relation!Init, RelationAssumption, Labels
  <2>2. /\ affinity \in [Relation!Pairs -> Warmths] /\ remainder \in [Relation!Pairs -> 0..3]
        /\ roomBase \in [Relation!Pairs -> Warmths] /\ room \in [Relation!Pairs -> Warmths]
        /\ decided \in [Relation!Pairs -> Labels \cup {None}] /\ \A p \in Relation!Pairs : decided[p] = None
    BY <1>1 DEF Relation!Init, Warmths
  <2>3. generating = {} /\ proposal = None /\ judging = {} /\ effect = TRUE /\ proposing = FALSE
    BY <1>1 DEF Relation!Init
  <2> QED
    BY <2>1, <2>2, <2>3 DEF RelationInv, RelationTypes, OneProposal, DecidedStays, Relation!LabelsSettle
<1>2. ASSUME RelationInv PROVE Relation!ProposingEnds
  <2>1. CASE proposing = FALSE /\ generating = {}
    BY <2>1 DEF Relation!ProposingEnds
  <2>2. CASE proposing = TRUE /\ \E p : generating = {p}
    <3>1. PICK p : generating = {p}
      BY <2>2
    <3>2. (generating # {}) = TRUE /\ \A q, r \in generating : q = r
      BY <3>1
    <3> QED
      BY <2>2, <3>2 DEF Relation!ProposingEnds
  <2> QED
    BY <1>2, <2>1, <2>2 DEF RelationInv, OneProposal
<1>3. ASSUME RelationInv PROVE Relation!DecisionStays
  BY <1>3 DEF RelationInv, DecidedStays, Relation!DecisionStays
<1>4. ASSUME RelationInv PROVE Relation!LabelsSettle
  BY <1>4 DEF RelationInv
<1>5. RelationInv => Relation!RelationsTrue
  BY <1>2, <1>3, <1>4 DEF Relation!RelationsTrue
<1> QED
  BY <1>1, <1>5, RelationStep, PTL DEF Relation!Spec

-----------------------------------------------------------------------------
(* The owner's characters. *)
CONSTANTS Ids, MaxRevision, MaxDrafts, MaxPending

VARIABLES activeId, shown, newest, strayed, accounts, draftId, waking, parsing, deleteTarget, uploads, revision, drafts, sentAs,
          deleted, dropped
Chars == INSTANCE CharacterAccounts

CharsAssumption == None \notin Ids

Kept == [of : Ids \cup {None}, revision : 0..revision]
ListOf(list) == DOMAIN list \subseteq Ids /\ \A i \in DOMAIN list : list[i] \in Kept /\ list[i].of = i
CharTypes ==
  /\ revision \in Nat /\ activeId \in Ids \cup {None} /\ draftId \in Ids \cup {None} /\ shown \in Kept
  /\ ListOf(accounts) /\ sentAs \subseteq Ids /\ deleted \subseteq Ids /\ newest \in [Ids -> Nat]
(* A draft that was sent is on the screen as it was sent, or never will be again. *)
Passed(r) == activeId # None \/ shown = Chars!blankChar \/ shown.revision > r.shown.revision
AskedWake(r) ==
  r.kind = "wake" => r.activeId = None /\ r.shown # Chars!blankChar /\ (Passed(r) \/ r.id = draftId)
Asked(r) ==
  /\ r.id \in Ids /\ r.activeId \in Ids \cup {None} /\ r.shown \in Kept
  /\ AskedWake(r)
  /\ r.kind = "edit" => r.id = r.activeId
  /\ r.kind = "delete" => r.id \in DOMAIN r.accounts
Drafted == sentAs \subseteq {draftId} /\ draftId \notin DOMAIN accounts \cup deleted
ShownIsOwn == shown.of = activeId /\ deleted \cap (DOMAIN accounts \cup {activeId}) = {} /\ deleteTarget \in DOMAIN accounts \cup {None}
LastKept == \A i \in DOMAIN accounts : (IF i = activeId THEN shown ELSE accounts[i]).revision = newest[i]
CharGood == CharTypes /\ (\A r \in requests : Asked(r)) /\ Drafted /\ ShownIsOwn /\ (~ dropped => LastKept)
CharInv == Chars!WakingIsPending /\ (~ strayed => CharGood)

(* A step that asks for nothing, works on no draft and takes nothing away.  What was asked stays asked. *)
LEMMA AskedStays ==
  ASSUME CharsAssumption, CharGood, revision' \in Nat, revision' >= revision,
         shown' \in [of : Ids \cup {None}, revision : 0..revision'],
         \/ UNCHANGED <<activeId, shown, draftId>>
         \/ activeId' # None
         \/ shown' = Chars!blankChar
         \/ UNCHANGED <<activeId, draftId>> /\ shown'.revision = revision + 1
         \/ UNCHANGED <<activeId, shown>> /\ draftId = None
  PROVE  \A r \in requests : Asked(r)'
<1> SUFFICES ASSUME NEW r \in requests PROVE Asked(r)'
  OBVIOUS
<1>1. Asked(r)
  BY DEF CharGood
<1>2. r.shown \in Kept'
  BY <1>1 DEF Asked, Kept, CharGood, CharTypes
<1>3. ASSUME r.kind = "wake" PROVE Passed(r)' \/ r.id = draftId'
  <2>1. (Passed(r) \/ r.id = draftId) /\ r.id \in Ids /\ r.shown.revision \in 0..revision
    BY <1>1, <1>3 DEF Asked, AskedWake, Kept
  <2>2. CASE UNCHANGED <<activeId, shown, draftId>>
    BY <2>1, <2>2 DEF Passed
  <2>3. CASE activeId' # None
    BY <2>3 DEF Passed
  <2>4. CASE shown' = Chars!blankChar
    BY <2>4 DEF Passed, Chars!blankChar
  <2>5. CASE UNCHANGED <<activeId, draftId>> /\ shown'.revision = revision + 1
    <3>1. shown'.revision > r.shown.revision
      BY <2>1, <2>5 DEF CharGood, CharTypes
    <3> QED
      BY <3>1 DEF Passed
  <2>6. CASE UNCHANGED <<activeId, shown>> /\ draftId = None
    BY <2>1, <2>6 DEF Passed, CharsAssumption
  <2> QED
    BY <2>2, <2>3, <2>4, <2>5, <2>6
<1> QED
  BY <1>1, <1>2, <1>3 DEF Asked, AskedWake, Chars!blankChar

(* The list with what is on the screen in it. *)
LEMMA FoldedList ==
  ASSUME CharsAssumption, CharGood
  PROVE  /\ ListOf(Chars!Folded) /\ DOMAIN Chars!Folded = DOMAIN accounts
         /\ ~ dropped => \A i \in DOMAIN accounts : Chars!Folded[i].revision = newest[i]
         /\ ~ Chars!Unfolded /\ activeId \in DOMAIN accounts => accounts[activeId] = shown
BY DEF CharGood, CharTypes, ShownIsOwn, LastKept, ListOf, Chars!Folded, Chars!Fold, Chars!Unfolded, Chars!HasActive, CharsAssumption

LEMMA CharsStart == ASSUME CharsAssumption, Chars!Init PROVE CharInv
<1> USE DEF Chars!Init, Chars!blankChar, Chars!HasActive
<1>1. CharTypes
  BY DEF CharTypes, ListOf, Kept
<1>2. Drafted /\ ShownIsOwn /\ LastKept
  BY DEF Drafted, ShownIsOwn, LastKept, CharsAssumption
<1> QED
  BY <1>1, <1>2 DEF CharInv, CharGood, Chars!WakingIsPending

(* Leaving a screen, with or without the fold, and opening a character or a draft. *)
LEMMA NavigateStep == ASSUME CharsAssumption, CharGood, Chars!Navigate PROVE CharGood'
<1>1. /\ UNCHANGED <<activeId, shown, Chars!setup, Chars!pendingVars, Chars!history>>
      /\ accounts' = accounts \/ accounts' = Chars!Folded
  BY DEF Chars!Navigate, Chars!handlePopState, Chars!goHome, Chars!leaveSetup, Chars!leaveBrokenStep, Chars!data
<1>2. UNCHANGED <<draftId, deleteTarget, requests, revision, sentAs, newest, deleted, dropped>>
  BY <1>1 DEF Chars!setup, Chars!pendingVars, Chars!history
<1>3. \A r \in requests : Asked(r)'
  BY <1>1, <1>2, AskedStays DEF CharGood, CharTypes, Kept
<1>4. CharTypes' /\ DOMAIN accounts' = DOMAIN accounts
  BY <1>1, <1>2, FoldedList DEF CharGood, CharTypes, ListOf, Kept
<1>5. Drafted' /\ ShownIsOwn'
  BY <1>1, <1>2, <1>4 DEF CharGood, Drafted, ShownIsOwn
<1>6. (~ dropped => LastKept)'
  BY <1>1, <1>2, <1>4, FoldedList DEF CharGood, LastKept, Chars!Folded, Chars!Fold
<1> QED
  BY <1>2, <1>3, <1>4, <1>5, <1>6 DEF CharGood

LEMMA OpenStep == ASSUME CharsAssumption, CharGood, Chars!Open PROVE CharGood'
<1>1. ASSUME NEW i \in Ids, Chars!switchAccount(i) \/ Chars!editAccount(i) PROVE CharGood'
  <2>1. /\ i \in DOMAIN accounts /\ accounts' = Chars!Folded /\ activeId' = i /\ shown' = accounts[i]
        /\ dropped' = (dropped \/ (Chars!Unfolded /\ i \in {activeId, None}))
        /\ UNCHANGED <<draftId, deleteTarget, requests, revision, sentAs, newest, deleted>>
    BY <1>1 DEF Chars!switchAccount, Chars!editAccount, Chars!loadAccount, Chars!LeftBehind, Chars!setup, Chars!pendingVars
  <2>2. \A r \in requests : Asked(r)'
    BY <2>1, AskedStays DEF CharGood, CharTypes, Kept, ListOf, CharsAssumption
  <2>3. CharTypes' /\ DOMAIN accounts' = DOMAIN accounts
    BY <2>1, FoldedList DEF CharGood, CharTypes, ListOf, Kept
  <2>4. Drafted' /\ ShownIsOwn'
    BY <2>1, <2>3 DEF CharGood, Drafted, ShownIsOwn, CharTypes, ListOf
  <2>5. (~ dropped => LastKept)'
    <3> SUFFICES ASSUME ~ dropped' PROVE LastKept'
      OBVIOUS
    <3>1. ~ dropped /\ (i # activeId \/ ~ Chars!Unfolded)
      BY <2>1
    <3>2. accounts[i].revision = newest[i]
      BY <2>1, <3>1, FoldedList DEF CharGood, LastKept
    <3> QED
      BY <2>1, <2>3, <3>1, <3>2, FoldedList DEF LastKept
  <2> QED
    BY <2>1, <2>2, <2>3, <2>4, <2>5 DEF CharGood
<1>2. CASE Chars!startNewCharacter
  <2>1. /\ draftId' = None /\ activeId' = None /\ shown' = Chars!blankChar /\ sentAs' = {}
        /\ dropped' = (dropped \/ Chars!Unfolded)
        /\ UNCHANGED <<accounts, deleteTarget, requests, revision, newest, deleted>>
    BY <1>2 DEF Chars!startNewCharacter, Chars!LeftBehind, Chars!pendingVars
  <2>2. \A r \in requests : Asked(r)'
    BY <2>1, AskedStays DEF CharGood, CharTypes, Kept, Chars!blankChar
  <2>3. CharTypes'
    BY <2>1 DEF CharGood, CharTypes, ListOf, Kept, Chars!blankChar
  <2>4. Drafted' /\ ShownIsOwn'
    BY <2>1 DEF CharGood, Drafted, ShownIsOwn, CharTypes, ListOf, Chars!blankChar, CharsAssumption
  <2>5. (~ dropped => LastKept)'
    <3> SUFFICES ASSUME ~ dropped' PROVE LastKept'
      OBVIOUS
    <3>1. \A i \in DOMAIN accounts : accounts[i].revision = newest[i]
      BY <2>1, FoldedList DEF CharGood, LastKept
    <3>2. None \notin DOMAIN accounts
      BY DEF CharGood, CharTypes, ListOf, CharsAssumption
    <3> QED
      BY <2>1, <3>1, <3>2 DEF LastKept
  <2> QED
    BY <2>1, <2>2, <2>3, <2>4, <2>5 DEF CharGood
<1> QED
  BY <1>1, <1>2 DEF Chars!Open

(* A change of what is on the screen, noted as that of the character that is open. *)
LEMMA ChangedStep ==
  ASSUME CharsAssumption, CharGood, revision' = revision + 1, shown' = Chars!Changed(shown), Chars!Noted,
         UNCHANGED <<accounts, activeId, draftId, deleteTarget, requests, sentAs, deleted, dropped>>
  PROVE  CharGood'
<1>1. shown' \in [of : Ids \cup {None}, revision : 0..revision'] /\ shown'.of = shown.of /\ shown'.revision = revision + 1
  BY DEF CharGood, CharTypes, Kept, Chars!Changed
<1>2. \A r \in requests : Asked(r)'
  BY <1>1, AskedStays DEF CharGood, CharTypes
<1>3. newest' \in [Ids -> Nat] /\ \A i \in Ids : newest'[i] = IF i = activeId THEN revision + 1 ELSE newest[i]
  BY DEF CharGood, CharTypes, Chars!Noted, Chars!HasActive, CharsAssumption
<1>4. CharTypes'
  BY <1>1, <1>3 DEF CharGood, CharTypes, ListOf, Kept
<1>5. Drafted' /\ ShownIsOwn'
  BY <1>1 DEF CharGood, Drafted, ShownIsOwn
<1>6. (~ dropped => LastKept)'
  BY <1>1, <1>3 DEF CharGood, LastKept, CharTypes, ListOf
<1> QED
  BY <1>2, <1>4, <1>5, <1>6 DEF CharGood

(* A question: what was asked before stays asked, and the new one is of what is there. *)
LEMMA AskingStep ==
  ASSUME CharsAssumption, CharGood, NEW kind \in {"wake", "edit", "delete"}, NEW i \in Ids, Chars!Ask(kind, i),
         kind = "wake" => activeId = None /\ shown # Chars!blankChar /\ draftId' = i,
         kind = "edit" => i = activeId,
         kind = "delete" => i \in DOMAIN accounts,
         draftId' = draftId \/ draftId = None,
         UNCHANGED <<accounts, activeId, shown, revision>>
  PROVE  \A r \in requests' : Asked(r)'
<1>1. PICK q : q = [kind |-> kind, id |-> i, accounts |-> accounts, activeId |-> activeId, shown |-> shown]
  OBVIOUS
<1>2. requests' = requests \cup {q}
  BY <1>1 DEF Chars!Ask
<1>3. q.kind = kind /\ q.id = i /\ q.accounts = accounts /\ q.activeId = activeId /\ q.shown = shown
  BY <1>1
<1> HIDE <1>1
<1>4. Asked(q)'
  BY <1>3 DEF Asked, AskedWake, CharGood, CharTypes, Kept, Chars!blankChar
<1>5. \A r \in requests : Asked(r)'
  BY AskedStays DEF CharGood, CharTypes, Kept
<1> QED
  BY <1>2, <1>4, <1>5

LEMMA WorkStep == ASSUME CharsAssumption, CharGood, Chars!Work PROVE CharGood'
<1> USE DEF Chars!data, Chars!setup, Chars!pendingVars, Chars!history
<1>1. CASE Chars!update
  BY <1>1, ChangedStep DEF Chars!update
<1>2. CASE Chars!uploadImages \/ Chars!parseDump
  <2>1. UNCHANGED <<accounts, activeId, shown, draftId, deleteTarget, requests, revision, sentAs, newest, deleted, dropped>>
    BY <1>2 DEF Chars!uploadImages, Chars!parseDump
  <2> QED
    BY <2>1 DEF CharGood, CharTypes, ListOf, Kept, Asked, AskedWake, Passed, Drafted, ShownIsOwn, LastKept, Chars!blankChar
<1>3. CASE Chars!saveCharacterEdits
  <2>1. /\ activeId # None /\ Chars!Ask("edit", activeId)
        /\ UNCHANGED <<accounts, activeId, shown, draftId, deleteTarget, revision, sentAs, newest, deleted, dropped>>
    BY <1>3 DEF Chars!saveCharacterEdits, Chars!HasActive
  <2>2. \A r \in requests' : Asked(r)'
    BY <2>1, AskingStep DEF CharGood, CharTypes
  <2> QED
    BY <2>1, <2>2 DEF CharGood, CharTypes, ListOf, Kept, Drafted, ShownIsOwn, LastKept
<1>4. CASE Chars!confirmDeleteCharacter
  <2>1. /\ deleteTarget # None /\ Chars!Ask("delete", deleteTarget)
        /\ UNCHANGED <<accounts, activeId, shown, draftId, deleteTarget, revision, sentAs, newest, deleted, dropped>>
    BY <1>4 DEF Chars!confirmDeleteCharacter
  <2>2. deleteTarget \in DOMAIN accounts /\ deleteTarget \in Ids
    BY <2>1 DEF CharGood, ShownIsOwn, CharTypes, ListOf
  <2>3. \A r \in requests' : Asked(r)'
    BY <2>1, <2>2, AskingStep
  <2> QED
    BY <2>1, <2>3 DEF CharGood, CharTypes, ListOf, Kept, Drafted, ShownIsOwn, LastKept
<1>5. ASSUME NEW i \in Ids, Chars!wakeCharacter(i) PROVE CharGood'
  <2>1. /\ activeId = None /\ shown # Chars!blankChar /\ draftId' = i /\ sentAs' = sentAs \cup {i} /\ Chars!Ask("wake", i)
        /\ UNCHANGED <<accounts, activeId, shown, deleteTarget, revision, newest, deleted, dropped>>
    BY <1>5 DEF Chars!wakeCharacter, Chars!HasActive, Chars!confirmReady
  <2>2. (draftId # None /\ i = draftId) \/ (draftId = None /\ i \notin DOMAIN accounts \cup deleted)
    BY <1>5 DEF Chars!wakeCharacter, Chars!DraftId, Chars!newDraftId
  <2>3. \A r \in requests' : Asked(r)'
    BY <2>1, <2>2, AskingStep
  <2>4. Drafted'
    BY <2>1, <2>2 DEF CharGood, Drafted, CharTypes, CharsAssumption
  <2> QED
    BY <2>1, <2>3, <2>4 DEF CharGood, CharTypes, ListOf, Kept, ShownIsOwn, LastKept
<1>6. ASSUME NEW i \in Ids \cup {None}, Chars!setDeleteTarget(i) PROVE CharGood'
  <2>1. /\ deleteTarget' = i /\ i \in DOMAIN accounts \cup {None}
        /\ UNCHANGED <<accounts, activeId, shown, draftId, requests, revision, sentAs, newest, deleted, dropped>>
    BY <1>6 DEF Chars!setDeleteTarget
  <2> QED
    BY <2>1 DEF CharGood, CharTypes, ListOf, Kept, Asked, AskedWake, Passed, Drafted, ShownIsOwn, LastKept, Chars!blankChar
<1> QED
  BY <1>1, <1>2, <1>3, <1>4, <1>5, <1>6 DEF Chars!Work

(* An answer that meets what it was asked from. *)
LEMMA AnsweredStep ==
  ASSUME CharsAssumption, CharGood, NEW r \in requests, ~ strayed',
         \/ Chars!saveFailed(r) \/ Chars!commitNewCharacter(r) \/ Chars!persistCharacterEdits(r)
         \/ Chars!deleteFailed(r) \/ Chars!applyCharacterDeletion(r)
  PROVE  CharGood'
<1> USE DEF Chars!data, Chars!setup, Chars!history
<1>1. Asked(r)
  BY DEF CharGood
<1>2. CASE Chars!saveFailed(r) \/ Chars!deleteFailed(r)
  <2>1. /\ requests' = requests \ {r}
        /\ UNCHANGED <<accounts, activeId, shown, draftId, deleteTarget, revision, sentAs, newest, deleted, dropped>>
    BY <1>2 DEF Chars!saveFailed, Chars!deleteFailed, Chars!Settled
  <2> QED
    BY <2>1 DEF CharGood, CharTypes, ListOf, Kept, Asked, AskedWake, Passed, Drafted, ShownIsOwn, LastKept, Chars!blankChar
<1>3. CASE Chars!commitNewCharacter(r)
  <2> DEFINE saved == Chars!SavedContent(r)
  <2>1. /\ r.kind = "wake" /\ r.accounts = accounts /\ r.activeId = activeId /\ r.shown = shown
        /\ requests' = requests \ {r} /\ accounts' = Chars!WithAccount(accounts, r.id, saved)
        /\ activeId' = r.id /\ shown' = saved /\ draftId' = None /\ sentAs' = sentAs \ {r.id}
        /\ newest' = [newest EXCEPT ![r.id] = shown.revision]
        /\ UNCHANGED <<deleteTarget, revision, deleted, dropped>>
    BY <1>3 DEF Chars!commitNewCharacter, Chars!Settled, Chars!Strays
  <2>2. activeId = None /\ r.id = draftId /\ r.id \in Ids
    BY <1>1, <2>1 DEF Asked, AskedWake, Passed, CharGood, CharTypes, Kept
  <2>3. saved \in Kept /\ saved.of = r.id /\ saved.revision = shown.revision
    BY <1>1, <2>1 DEF Chars!SavedContent, Asked, Kept
  <2>4. /\ DOMAIN accounts' = DOMAIN accounts \cup {r.id} /\ accounts'[r.id] = saved
        /\ \A i \in DOMAIN accounts \ {r.id} : accounts'[i] = accounts[i]
    BY <2>1 DEF Chars!WithAccount
  <2> HIDE DEF saved
  <2>5. \A q \in requests' : Asked(q)'
    BY <2>1, <2>2, <2>3, AskedStays DEF CharsAssumption, Kept, CharGood, CharTypes
  <2>6. CharTypes'
    BY <2>1, <2>2, <2>3, <2>4 DEF CharGood, CharTypes, ListOf, Kept
  <2>7. Drafted' /\ ShownIsOwn'
    BY <2>1, <2>2, <2>3, <2>4 DEF CharGood, CharTypes, ListOf, Drafted, ShownIsOwn, CharsAssumption
  <2>8. \A i \in Ids : newest'[i] = IF i = r.id THEN shown.revision ELSE newest[i]
    BY <2>1, <2>2 DEF CharGood, CharTypes
  <2>9. (~ dropped => LastKept)'
    BY <2>1, <2>2, <2>3, <2>4, <2>8 DEF CharGood, CharTypes, ListOf, LastKept, CharsAssumption
  <2> QED
    BY <2>5, <2>6, <2>7, <2>9 DEF CharGood
<1>4. CASE Chars!persistCharacterEdits(r)
  <2>1. /\ r.kind = "edit" /\ r.accounts = accounts /\ r.activeId = activeId /\ r.shown = shown
        /\ requests' = requests \ {r} /\ accounts' = Chars!Fold(accounts, r.id, shown)
        /\ shown' = [shown EXCEPT !.of = shown.of, !.revision = shown.revision]
        /\ UNCHANGED <<activeId, draftId, deleteTarget, revision, sentAs, newest, deleted, dropped>>
    BY <1>4 DEF Chars!persistCharacterEdits, Chars!Settled, Chars!Strays
  <2>2. r.id = activeId /\ shown' = shown
    BY <1>1, <2>1 DEF Asked, CharGood, CharTypes, Kept
  <2>3. accounts' = Chars!Folded
    BY <2>1, <2>2 DEF Chars!Folded
  <2>4. \A q \in requests' : Asked(q)'
    BY <2>1, <2>2, AskedStays DEF CharGood, CharTypes, Kept
  <2>5. CharTypes' /\ DOMAIN accounts' = DOMAIN accounts
    BY <2>1, <2>2, <2>3, FoldedList DEF CharGood, CharTypes, ListOf, Kept
  <2>6. Drafted' /\ ShownIsOwn'
    BY <2>1, <2>2, <2>5 DEF CharGood, Drafted, ShownIsOwn
  <2>7. (~ dropped => LastKept)'
    BY <2>1, <2>2, <2>3, <2>5, FoldedList DEF CharGood, LastKept, Chars!Folded, Chars!Fold
  <2> QED
    BY <2>4, <2>5, <2>6, <2>7 DEF CharGood
<1>5. CASE Chars!applyCharacterDeletion(r)
  <2>1. /\ r.kind = "delete" /\ r.accounts = accounts /\ r.activeId = activeId /\ r.shown = shown
        /\ requests' = requests \ {r} /\ accounts' = Chars!ListWithout(r)
        /\ deleteTarget' = None /\ deleted' = deleted \cup {r.id}
        /\ UNCHANGED <<draftId, revision, sentAs, newest, dropped>>
        /\ IF activeId = r.id THEN activeId' = None /\ shown' = Chars!blankChar ELSE UNCHANGED <<activeId, shown>>
    BY <1>5 DEF Chars!applyCharacterDeletion, Chars!Strays
  <2>2. r.id \in DOMAIN accounts /\ r.id \in Ids
    BY <1>1, <2>1 DEF Asked
  <2>3. /\ DOMAIN accounts' = DOMAIN accounts \ {r.id}
        /\ \A i \in DOMAIN accounts' : accounts'[i] = Chars!Folded[i]
    BY <2>1 DEF Chars!ListWithout, Chars!Folded, Chars!Fold
  <2>4. shown' \in Kept /\ shown'.of = activeId' /\ activeId' \in Ids \cup {None}
    BY <2>1 DEF CharGood, CharTypes, ShownIsOwn, Kept, Chars!blankChar
  <2>5. \A q \in requests' : Asked(q)'
    BY <2>1, <2>4, AskedStays DEF CharGood, CharTypes, Kept
  <2>6. CharTypes'
    BY <2>1, <2>2, <2>3, <2>4, FoldedList DEF CharGood, CharTypes, ListOf, Kept
  <2>7. Drafted' /\ ShownIsOwn'
    BY <2>1, <2>2, <2>3, <2>4 DEF CharGood, CharTypes, ListOf, Drafted, ShownIsOwn, CharsAssumption
  <2>8. (~ dropped => LastKept)'
    <3> SUFFICES ASSUME ~ dropped PROVE LastKept'
      BY <2>1
    <3>1. \A i \in DOMAIN accounts' : accounts'[i].revision = newest[i]
      BY <2>3, FoldedList
    <3>2. \A i \in DOMAIN accounts' : i # None /\ i # r.id
      BY <2>3 DEF CharGood, CharTypes, ListOf, CharsAssumption
    <3> QED
      BY <2>1, <2>3, <3>1, <3>2 DEF CharGood, LastKept
  <2> QED
    BY <2>5, <2>6, <2>7, <2>8 DEF CharGood
<1> QED
  BY <1>2, <1>3, <1>4, <1>5

LEMMA LateStep == ASSUME CharsAssumption, CharGood, ~ strayed', Chars!LateAnswers PROVE CharGood'
<1> USE DEF Chars!data, Chars!setup, Chars!history
<1>1. CASE Chars!dumpParsed
  BY <1>1, ChangedStep DEF Chars!dumpParsed, Chars!pendingVars
<1>2. ASSUME NEW i \in uploads, Chars!imagesUploaded(i) PROVE CharGood'
  BY <1>2, ChangedStep DEF Chars!imagesUploaded
<1>3. ASSUME NEW i \in uploads, Chars!uploadFailed(i) PROVE CharGood'
  <2>1. UNCHANGED <<accounts, activeId, shown, draftId, deleteTarget, requests, revision, sentAs, newest, deleted, dropped>>
    BY <1>3 DEF Chars!uploadFailed
  <2> QED
    BY <2>1 DEF CharGood, CharTypes, ListOf, Kept, Asked, AskedWake, Passed, Drafted, ShownIsOwn, LastKept, Chars!blankChar
<1> QED
  BY <1>1, <1>2, <1>3 DEF Chars!LateAnswers

(* The screen waits for the requests it has. *)
LEMMA SaveAsked ==
  ASSUME NEW kind \in {"wake", "edit"}, NEW i, Chars!Ask(kind, i)
  PROVE  Chars!WakingIsPending'
<1>1. PICK q : q = [kind |-> kind, id |-> i, accounts |-> accounts, activeId |-> activeId, shown |-> shown]
  OBVIOUS
<1>2. q \in requests' /\ q.kind # "delete"
  BY <1>1 DEF Chars!Ask
<1> QED
  BY <1>2 DEF Chars!WakingIsPending

LEMMA WakingStep == ASSUME Chars!WakingIsPending, [Chars!Next]_Chars!accountVars PROVE Chars!WakingIsPending'
<1> USE DEF Chars!WakingIsPending, Chars!data, Chars!setup, Chars!pendingVars, Chars!history
<1>1. CASE Chars!Navigate
  BY <1>1 DEF Chars!Navigate, Chars!handlePopState, Chars!goHome, Chars!leaveSetup, Chars!leaveBrokenStep
<1>2. CASE Chars!Open
  BY <1>2 DEF Chars!Open, Chars!switchAccount, Chars!editAccount, Chars!startNewCharacter
<1>3. CASE Chars!Work
  <2>1. CASE \E i \in Ids : Chars!wakeCharacter(i)
    BY <2>1, SaveAsked DEF Chars!wakeCharacter
  <2>2. CASE Chars!saveCharacterEdits
    BY <2>2, SaveAsked DEF Chars!saveCharacterEdits
  <2>3. CASE Chars!update \/ Chars!uploadImages \/ Chars!parseDump \/ \E i \in Ids \cup {None} : Chars!setDeleteTarget(i)
    BY <2>3 DEF Chars!update, Chars!uploadImages, Chars!parseDump, Chars!setDeleteTarget
  <2>4. CASE Chars!confirmDeleteCharacter
    BY <2>4 DEF Chars!confirmDeleteCharacter, Chars!Ask
  <2> QED
    BY <1>3, <2>1, <2>2, <2>3, <2>4 DEF Chars!Work
<1>4. CASE Chars!Answers
  <2> SUFFICES ASSUME NEW r \in requests,
                      \/ Chars!saveFailed(r) \/ Chars!commitNewCharacter(r) \/ Chars!persistCharacterEdits(r)
                      \/ Chars!deleteFailed(r) \/ Chars!applyCharacterDeletion(r)
               PROVE  Chars!WakingIsPending'
    BY <1>4 DEF Chars!Answers
  <2>1. CASE Chars!saveFailed(r) \/ Chars!commitNewCharacter(r) \/ Chars!persistCharacterEdits(r)
    BY <2>1 DEF Chars!saveFailed, Chars!commitNewCharacter, Chars!persistCharacterEdits, Chars!Settled
  <2>2. CASE Chars!deleteFailed(r)
    BY <2>2 DEF Chars!deleteFailed
  <2>3. CASE Chars!applyCharacterDeletion(r)
    <3>1. r.kind = "delete" /\ requests' = requests \ {r} /\ (waking' = FALSE \/ waking' = waking)
      BY <2>3 DEF Chars!applyCharacterDeletion
    <3> QED
      BY <3>1
  <2> QED
    BY <2>1, <2>2, <2>3
<1>5. CASE Chars!LateAnswers
  BY <1>5 DEF Chars!LateAnswers, Chars!dumpParsed, Chars!imagesUploaded, Chars!uploadFailed
<1>6. CASE UNCHANGED Chars!accountVars
  BY <1>6 DEF Chars!accountVars
<1> QED
  BY <1>1, <1>2, <1>3, <1>4, <1>5, <1>6 DEF Chars!Next

LEMMA CharsStep == ASSUME CharsAssumption, CharInv, [Chars!Next]_Chars!accountVars PROVE CharInv'
<1> SUFFICES ASSUME ~ strayed' PROVE CharGood'
  BY WakingStep DEF CharInv
<1>1. ~ strayed
  <2> USE DEF Chars!history, Chars!data, Chars!setup
  <2>1. CASE Chars!Navigate \/ Chars!Open \/ Chars!Work
    BY <2>1 DEF Chars!Navigate, Chars!handlePopState, Chars!goHome, Chars!leaveSetup, Chars!leaveBrokenStep, Chars!Open,
                Chars!switchAccount, Chars!editAccount, Chars!startNewCharacter, Chars!Work, Chars!update, Chars!uploadImages,
                Chars!parseDump, Chars!saveCharacterEdits, Chars!confirmDeleteCharacter, Chars!wakeCharacter, Chars!setDeleteTarget
  <2>2. CASE Chars!Answers \/ Chars!LateAnswers
    BY <2>2 DEF Chars!Answers, Chars!saveFailed, Chars!commitNewCharacter, Chars!persistCharacterEdits, Chars!deleteFailed,
                Chars!applyCharacterDeletion, Chars!Strays, Chars!LateAnswers, Chars!dumpParsed, Chars!imagesUploaded, Chars!uploadFailed
  <2> QED
    BY <2>1, <2>2 DEF Chars!Next, Chars!accountVars
<1>2. CharGood
  BY <1>1 DEF CharInv
<1>3. CASE UNCHANGED Chars!accountVars
  BY <1>2, <1>3 DEF Chars!accountVars, Chars!data, Chars!setup, Chars!pendingVars, Chars!history, CharGood, CharTypes, ListOf, Kept,
                    Asked, AskedWake, Passed, Drafted, ShownIsOwn, LastKept, Chars!blankChar
<1> QED
  BY <1>2, <1>3, NavigateStep, OpenStep, WorkStep, AnsweredStep, LateStep DEF Chars!Next, Chars!Answers

(* Of the owner's characters (useAliveCharacterLifecycle): one draft becomes one character however often *)
(* it is tried; and as long as answers meet what they were asked from, what is shown and kept is each    *)
(* character's own, deleted ones stay away and last changes stay; the screen saves only while it waits.  *)
THEOREM CharactersAreKept ==
  ASSUME CharsAssumption
  PROVE  Chars!Spec => []Chars!CharactersTrue
<1>1. CharInv => Chars!DraftOnce
  BY DEF CharInv, CharGood, Drafted, Chars!DraftOnce
<1>2. CharInv => Chars!OwnContent
  BY DEF CharInv, CharGood, ShownIsOwn, CharTypes, ListOf, Chars!OwnContent, Chars!HasActive
<1>3. CharInv => Chars!ChangesKept
  BY DEF CharInv, CharGood, LastKept, Chars!ChangesKept
<1>4. CharInv => Chars!WakingIsPending
  BY DEF CharInv
<1>5. CharInv => Chars!CharactersTrue
  BY <1>1, <1>2, <1>3, <1>4 DEF Chars!CharactersTrue
<1> QED
  BY <1>5, CharsStart, CharsStep, PTL DEF Chars!Spec

-----------------------------------------------------------------------------
(* Follows. *)
CONSTANTS Characters, Targets, Lovers, MutualLovers

VARIABLES active, following, sharedCharacters, activeSharedId, shareLoads, calls, dirty, saving, followBackSync, public,
          backRows, expected, disturbed
Follow == INSTANCE Follows

FollowAssumption == None \notin Characters \cup Follow!Lists

CallType ==
  [kind : Follow!Kinds, of : Characters, targets : SUBSET Targets, before : SUBSET Targets,
   share : Characters \cup {None}, number : Nat, reply : {"none", "ok", "refused"}]
FollowTypes ==
  /\ active \in Characters /\ following \in Follow!Lists /\ sharedCharacters \subseteq Targets /\ public \subseteq Targets
  /\ activeSharedId \in Characters \cup {None} /\ dirty \in BOOLEAN /\ saving \in Follow!Lists \cup {None}
  /\ rows \subseteq Follow!Pairs /\ shareLoads \subseteq [of : Characters, cancelled : BOOLEAN]
  /\ changes \in Nat
  /\ \A c \in calls : /\ c \in CallType /\ (c.kind = "back" => c.reply = "none")
                      /\ (c.kind \in {"follow", "unfollow"} => \E t \in Targets : c.targets = {t})
OfActive == \A l \in shareLoads : ~ l.cancelled => l.of = active

Toggles == {c \in calls : c.kind \in {"follow", "unfollow"}}
ShownFollows == {p \in Follow!Pairs : p[2] \in following[p[1]]}
Waiting(c) == c.reply = "none" /\ c.kind \in {"follow", "unfollow", "snapshot"}
(* When no save is due the server has what is shown, or the save that is on its way has. *)
Saved ==
  /\ ~ dirty /\ saving = None =>
       rows = ShownFollows /\ \A c \in calls : Waiting(c) => c.kind = "snapshot" /\ c.targets \subseteq following[c.of]
  /\ ~ dirty /\ saving # None => saving = following /\ \A c \in calls : ~ Waiting(c)
(* Changes come one at a time, and a follow that was saved is there. *)
Toggled ==
  /\ \A c, d \in Toggles : c = d
  /\ saving # None => \A c \in Toggles : c.reply # "none"
  /\ \A c \in Toggles : c.kind = "follow" => c.targets \subseteq following[c.of]
  /\ \A c \in Toggles : c.kind = "follow" /\ c.reply = "ok" =>
       \A t \in c.targets : <<c.of, t>> \in rows /\ (saving # None => t \in saving[c.of])
AsksBack(c, p) == c.kind = "back" /\ c.of = p[1] /\ c.targets = {p[2]}
Returning(p) == <<p[2], p[1]>> \in backRows \/ \E c \in calls : AsksBack(c, p)
Loved(p) == p \in Follow!Pairs /\ p \in MutualLovers /\ p \in rows /\ (saving # None => p[2] \in saving[p[1]])
NotRevoked(p) == \A c \in calls : c.kind = "unfollow" /\ c.reply = "none" => c.of # p[1] \/ p[2] \notin c.targets
Returned == \A p \in expected : Loved(p) /\ p[2] \in following[p[1]] /\ NotRevoked(p) /\ Returning(p)
FollowGood == Saved /\ Toggled /\ Returned
FollowInv == FollowTypes /\ OfActive /\ Follow!ShareIsActive /\ (~ disturbed => FollowGood)

(* The effect asks some more lovers to follow back, and notes a change of the lists. *)
BackCall(c) ==
  c \in CallType /\ c.kind = "back" /\ c.reply = "none"
LEMMA EffectAsks ==
  ASSUME NEW base, Follow!syncRelationshipFollowBack(base), following' \in Follow!Lists, active' \in Characters,
         activeSharedId' \in Characters \cup {None}, dirty \in BOOLEAN
  PROVE  /\ base \subseteq calls' /\ \A c \in calls' : c \in base \/ BackCall(c)
         /\ dirty' \in BOOLEAN /\ (~ dirty' => ~ dirty /\ following' = following) /\ (following' # following => dirty')
<1>1. calls' = base \cup UNION {Follow!recordRelationshipFollowBack(activeSharedId', t) : t \in Follow!Fresh}
  BY DEF Follow!syncRelationshipFollowBack
<1>2. \A t \in Follow!Fresh : t \in Targets /\ activeSharedId' \in Characters /\ activeSharedId' # None
  BY DEF Follow!Fresh, Follow!Lists
<1>3. ASSUME NEW t \in Follow!Fresh, NEW c \in Follow!recordRelationshipFollowBack(activeSharedId', t) PROVE BackCall(c)
  <2>1. c = [kind |-> "back", of |-> activeSharedId', targets |-> {t}, before |-> {}, share |-> activeSharedId',
             number |-> 0, reply |-> "none"]
    BY <1>2, <1>3 DEF Follow!recordRelationshipFollowBack
  <2> QED
    BY <1>2, <2>1 DEF BackCall, CallType, Follow!Kinds
<1>4. dirty' = (dirty \/ following' # following)
  BY DEF Follow!syncRelationshipFollowBack
<1> QED
  BY <1>1, <1>3, <1>4

(* A step of the client that toggles nothing: what it asks anew is of what is shown. *)
NewSnapshot(c) ==
  c.kind = "snapshot" /\ (saving # None => dirty') /\ (~ dirty' => c.targets \subseteq following'[c.of])
LEMMA ClientKeeps ==
  ASSUME FollowGood, UNCHANGED <<rows, saving, backRows>>,
         \A c \in calls' : c \in calls \/ c.kind \in {"back", "visibility"} \/ NewSnapshot(c),
         \A c \in calls : c.kind = "back" => c \in calls',
         ~ dirty' => ~ dirty /\ following' = following,
         \A c \in calls : c \in calls' /\ c.kind = "follow" => c.targets \subseteq following'[c.of],
         \A p \in expected' : /\ p[2] \in following'[p[1]]
                              /\ p \in expected \/ (Loved(p) /\ NotRevoked(p) /\ Returning(p)')
  PROVE  FollowGood'
<1>1. Saved'
  BY DEF FollowGood, Saved, Waiting, NewSnapshot, ShownFollows
<1>2. Toggled'
  BY DEF FollowGood, Toggled, Toggles, NewSnapshot
<1>3. ASSUME NEW p \in expected' PROVE Loved(p)' /\ p[2] \in following'[p[1]] /\ NotRevoked(p)' /\ Returning(p)'
  <2>1. Loved(p) /\ NotRevoked(p)
    BY DEF FollowGood, Returned
  <2>2. Loved(p)'
    BY <2>1 DEF Loved
  <2>3. NotRevoked(p)'
    BY <2>1 DEF NotRevoked, NewSnapshot
  <2>4. Returning(p)'
    <3>1. CASE p \in expected
      BY <3>1 DEF FollowGood, Returned, Returning, AsksBack
    <3> QED
      BY <3>1
  <2> QED
    BY <2>2, <2>3, <2>4
<1> QED
  BY <1>1, <1>2, <1>3 DEF FollowGood, Returned

LEMMA FollowsStart == ASSUME FollowAssumption, Follow!Init PROVE FollowInv
<1> USE DEF Follow!Init
<1>1. following \in Follow!Lists /\ \A c \in Characters : following[c] = {}
  BY DEF Follow!Lists
<1>2. FollowTypes
  <2>1. shareLoads \subseteq [of : Characters, cancelled : BOOLEAN]
    OBVIOUS
  <2>2. calls = {} /\ rows = {} /\ active \in Characters /\ activeSharedId = None /\ dirty = FALSE /\ saving = None
        /\ sharedCharacters = Targets /\ public = Targets /\ changes = 0
    OBVIOUS
  <2> HIDE DEF Follow!Init
  <2> QED
    BY <1>1, <2>1, <2>2 DEF FollowTypes
<1>3. OfActive /\ Follow!ShareIsActive
  BY DEF OfActive, Follow!ShareIsActive
<1>4. Saved /\ Toggled /\ Returned
  BY <1>1 DEF Saved, Toggled, Toggles, Returned, ShownFollows, Follow!Pairs
<1> QED
  BY <1>2, <1>3, <1>4 DEF FollowInv, FollowGood

(* What a call says of itself. *)
LEMMA NewCallIs ==
  ASSUME NEW kind, NEW ts, NEW list
  PROVE  LET c == Follow!NewCall(kind, ts, list)
         IN  /\ c.kind = kind /\ c.of = active /\ c.targets = ts /\ c.before = list /\ c.share = activeSharedId
             /\ c.reply = "none"
             /\ FollowTypes /\ kind \in Follow!Kinds /\ ts \subseteq Targets /\ list \subseteq Targets => c \in CallType
BY DEF Follow!NewCall, FollowTypes, CallType

LEMMA OwnRows ==
  ASSUME NEW ts, NEW c \in Follow!syncOwnFollowRows(ts)
  PROVE  /\ c.kind = "snapshot" /\ c.of = active /\ c.targets = ts /\ c.reply = "none"
         /\ FollowTypes /\ ts \subseteq Targets => c \in CallType
BY NewCallIs DEF Follow!syncOwnFollowRows, Follow!Kinds

LEMMA BackSeed ==
  ASSUME NEW c, c.share \in Characters \cup {None}, NEW t \in Targets
  PROVE  /\ \A d \in Follow!applyFollowBackSeed(c, t) : BackCall(d)
         /\ c.share # None /\ <<c.of, t>> \in MutualLovers =>
              \E d \in Follow!applyFollowBackSeed(c, t) : AsksBack(d, <<c.share, t>>)
<1> DEFINE d == [kind |-> "back", of |-> c.share, targets |-> {t}, before |-> {}, share |-> c.share,
                 number |-> 0, reply |-> "none"]
<1>1. /\ d.kind = "back" /\ d.of = c.share /\ d.targets = {t} /\ d.reply = "none"
      /\ c.share \in Characters => d \in CallType
  BY DEF CallType, Follow!Kinds
<1>2. \A e \in Follow!applyFollowBackSeed(c, t) : e = d /\ c.share # None
  BY DEF Follow!applyFollowBackSeed, Follow!recordRelationshipFollowBack
<1>3. c.share # None /\ <<c.of, t>> \in MutualLovers => d \in Follow!applyFollowBackSeed(c, t)
  BY DEF Follow!applyFollowBackSeed, Follow!recordRelationshipFollowBack
<1> HIDE DEF d
<1>4. c.share # None => BackCall(d)
  BY <1>1 DEF BackCall
<1>5. AsksBack(d, <<c.share, t>>)
  BY <1>1 DEF AsksBack
<1> QED
  BY <1>2, <1>3, <1>4, <1>5

(* Switching, the shared id, the characters to discover, visibility: the lists stay. *)
LEMMA ExpectedFewer ==
  ASSUME Follow!StillExpected({}), Returned, following' \in Follow!Lists
  PROVE  \A p \in expected' : p \in expected /\ p[2] \in following'[p[1]]
BY DEF Follow!StillExpected

LEMMA SameListsStep ==
  ASSUME FollowAssumption, FollowInv, active' \in Characters, activeSharedId' \in Characters \cup {None},
         NEW base, base \subseteq calls, \A c \in calls : c.kind = "back" => c \in base,
         Follow!syncRelationshipFollowBack(base), Follow!StillExpected({}),
         UNCHANGED <<following, sharedCharacters, saving, public, rows, backRows, disturbed>>
  PROVE  shareLoads' \subseteq [of : Characters, cancelled : BOOLEAN] /\ changes' \in Nat =>
           FollowTypes' /\ (~ disturbed' => FollowGood')
<1> SUFFICES ASSUME shareLoads' \subseteq [of : Characters, cancelled : BOOLEAN], changes' \in Nat
             PROVE  FollowTypes' /\ (~ disturbed' => FollowGood')
  OBVIOUS
<1>1. /\ base \subseteq calls' /\ \A c \in calls' : c \in base \/ BackCall(c)
      /\ dirty' \in BOOLEAN /\ (~ dirty' => ~ dirty)
  BY EffectAsks DEF FollowInv, FollowTypes
<1>2. FollowTypes'
  BY <1>1 DEF FollowInv, FollowTypes, BackCall
<1>3. ASSUME ~ disturbed PROVE FollowGood'
  <2>1. FollowGood /\ \A p \in expected' : p \in expected /\ p[2] \in following'[p[1]]
    BY <1>3, ExpectedFewer DEF FollowInv, FollowGood, FollowTypes
  <2>2. \A c \in calls : c.kind = "follow" => c.targets \subseteq following'[c.of]
    BY <2>1 DEF FollowGood, Toggled, Toggles
  <2> QED
    BY <1>1, <2>1, <2>2, ClientKeeps DEF BackCall
<1> QED
  BY <1>2, <1>3

LEMMA ShownStep ==
  ASSUME FollowAssumption, FollowInv,
         \/ \E c \in Characters : Follow!switchAccount(c)
         \/ \E l \in shareLoads : Follow!loadActiveShare(l)
         \/ \E c \in calls : c.reply # "none" /\ Follow!AnswerVisibility(c)
  PROVE  FollowInv'
<1>1. ASSUME NEW c \in Characters, Follow!switchAccount(c) PROVE FollowInv'
  <2>1. /\ active' = c /\ shareLoads' = Follow!Cancelled \cup {[of |-> c, cancelled |-> FALSE]} /\ changes' = changes + 1
        /\ UNCHANGED <<activeSharedId, following, sharedCharacters, saving, public, rows, backRows, disturbed>>
        /\ Follow!syncRelationshipFollowBack(calls) /\ Follow!StillExpected({})
    BY <1>1 DEF Follow!switchAccount
  <2>2. /\ OfActive' /\ Follow!ShareIsActive'
        /\ shareLoads' \subseteq [of : Characters, cancelled : BOOLEAN]
    <3>1. PICK m : m = [of |-> c, cancelled |-> FALSE]
      OBVIOUS
    <3>2. m \in shareLoads' /\ ~ m.cancelled /\ m.of = active' /\ m \in [of : Characters, cancelled : BOOLEAN]
      BY <2>1, <3>1
    <3>3. \A l \in Follow!Cancelled : l \in [of : Characters, cancelled : BOOLEAN] /\ l.cancelled
      BY DEF FollowInv, FollowTypes, Follow!Cancelled
    <3>4. shareLoads' \subseteq [of : Characters, cancelled : BOOLEAN]
      BY <2>1, <3>1, <3>2, <3>3
    <3> QED
      BY <2>1, <3>1, <3>2, <3>3, <3>4 DEF OfActive, Follow!ShareIsActive
  <2> QED
    BY <2>1, <2>2, SameListsStep DEF FollowInv, FollowTypes
<1>2. ASSUME NEW l \in shareLoads, Follow!loadActiveShare(l) PROVE FollowInv'
  <2>1. /\ shareLoads' = shareLoads \ {l}
        /\ activeSharedId' \in IF l.cancelled THEN {activeSharedId} ELSE {l.of, None}
        /\ UNCHANGED <<active, following, sharedCharacters, saving, public, rows, backRows, changes, disturbed, strayed>>
        /\ Follow!syncRelationshipFollowBack(calls) /\ Follow!StillExpected({})
    BY <1>2 DEF Follow!loadActiveShare
  <2>2. OfActive' /\ Follow!ShareIsActive' /\ activeSharedId' \in Characters \cup {None}
    BY <2>1 DEF FollowInv, FollowTypes, OfActive, Follow!ShareIsActive
  <2> QED
    BY <2>1, <2>2, SameListsStep DEF FollowInv, FollowTypes
<1>3. ASSUME NEW c \in calls, Follow!AnswerVisibility(c) PROVE FollowInv'
  <2>1. /\ c.kind = "visibility" /\ activeSharedId' \in {c.of, activeSharedId}
        /\ strayed' = (strayed \/ (c.reply = "ok" /\ c.of # active))
        /\ activeSharedId' = IF c.reply = "ok" THEN c.of ELSE activeSharedId
        /\ UNCHANGED <<active, following, sharedCharacters, shareLoads, saving, public, rows, backRows, changes, disturbed>>
        /\ Follow!syncRelationshipFollowBack(calls \ {c}) /\ Follow!StillExpected({})
    BY <1>3 DEF Follow!AnswerVisibility
  <2>2. OfActive' /\ Follow!ShareIsActive' /\ activeSharedId' \in Characters \cup {None}
    BY <2>1 DEF FollowInv, FollowTypes, OfActive, CallType, Follow!ShareIsActive
  <2>3. FollowTypes' /\ (~ disturbed' => FollowGood')
    <3> DEFINE base == calls \ {c}
    <3>1. base \subseteq calls /\ \A d \in calls : d.kind = "back" => d \in base
      BY <2>1
    <3>2. Follow!syncRelationshipFollowBack(base)
      BY <2>1
    <3> HIDE DEF base
    <3> QED
      BY <2>1, <2>2, <3>1, <3>2, SameListsStep DEF FollowInv, FollowTypes
  <2> QED
    BY <2>2, <2>3 DEF FollowInv
<1> QED
  BY <1>1, <1>2, <1>3

(* What is to be discovered or followed, and a visibility that is asked for. *)
LEMMA ElsewhereStep ==
  ASSUME FollowAssumption, FollowInv,
         Follow!loadSharedCharacters \/ Follow!setCharacterVisibility \/ \E t \in Targets : Follow!MakePrivate(t)
  PROVE  FollowInv'
<1>1. /\ UNCHANGED <<active, following, activeSharedId, shareLoads, dirty, saving, rows, backRows, expected, disturbed, strayed>>
      /\ sharedCharacters' \subseteq Targets /\ public' \subseteq Targets /\ changes' \in {changes, changes + 1}
  BY DEF Follow!loadSharedCharacters, Follow!setCharacterVisibility, Follow!MakePrivate, Follow!Discovered, Follow!FoundByLink,
         FollowInv, FollowTypes
<1>2. PICK c : c = Follow!NewCall("visibility", {}, {})
  OBVIOUS
<1>3. c.kind = "visibility" /\ c.reply = "none" /\ c \in CallType
  BY <1>2, NewCallIs DEF FollowInv, Follow!Kinds
<1>4. calls' = calls \/ calls' = calls \cup {c}
  BY <1>2 DEF Follow!loadSharedCharacters, Follow!setCharacterVisibility, Follow!MakePrivate, Follow!Send
<1>5. FollowTypes'
  BY <1>1, <1>3, <1>4 DEF FollowInv, FollowTypes
<1>6. ASSUME ~ disturbed PROVE FollowGood'
  <2>1. FollowGood
    BY <1>6 DEF FollowInv
  <2>2. \A d \in calls : d.kind = "follow" => d.targets \subseteq following'[d.of]
    BY <1>1, <2>1 DEF FollowGood, Toggled, Toggles
  <2>3. \A p \in expected' : p \in expected /\ p[2] \in following'[p[1]]
    BY <1>1, <2>1 DEF FollowGood, Returned
  <2> QED
    BY <1>1, <1>3, <1>4, <2>1, <2>2, <2>3, ClientKeeps
<1> QED
  BY <1>1, <1>5, <1>6 DEF FollowInv, OfActive, Follow!ShareIsActive

(* Lovers that are followed without being asked. *)
LEMMA RelationsStep == ASSUME FollowAssumption, FollowInv, Follow!SyncRelations PROVE FollowInv'
<1> DEFINE more == Follow!normalizedFollowingSnapshot
<1>1. /\ following' = [c \in Characters |-> Follow!relationAutoFollowsFor(c)]
      /\ UNCHANGED <<active, sharedCharacters, activeSharedId, shareLoads, saving, public, rows, backRows, disturbed, strayed>>
      /\ changes' = changes + 1
      /\ Follow!syncRelationshipFollowBack(calls \cup more) /\ Follow!StillExpected({})
  BY DEF Follow!SyncRelations, Follow!applyRelationshipAutoFollows
<1>2. following' \in Follow!Lists /\ \A c \in Characters : following[c] \subseteq following'[c]
  BY <1>1 DEF Follow!relationAutoFollowsFor, Follow!followTargets, FollowInv, FollowTypes, Follow!Lists
<1>3. \A d \in more : /\ d.kind = "snapshot" /\ d.of = active /\ d.targets = following'[active] /\ d.reply = "none" /\ d \in CallType
                      /\ following' # following
  <2> SUFFICES ASSUME NEW d \in more
               PROVE  /\ d.kind = "snapshot" /\ d.of = active /\ d.targets = following'[active] /\ d.reply = "none" /\ d \in CallType
                      /\ following' # following
    OBVIOUS
  <2>1. following'[active] = Follow!relationAutoFollowsFor(active)
    BY <1>1 DEF FollowInv, FollowTypes
  <2>2. d \in Follow!syncOwnFollowRows(Follow!relationAutoFollowsFor(active)) /\ Follow!relationAutoFollowsFor(active) # following[active]
    BY DEF Follow!normalizedFollowingSnapshot
  <2>3. Follow!relationAutoFollowsFor(active) \subseteq Targets
    BY <1>2, <2>1 DEF FollowInv, FollowTypes, Follow!Lists
  <2> QED
    BY <2>1, <2>2, <2>3, OwnRows DEF FollowInv
<1> HIDE DEF more
<1>4. /\ calls \cup more \subseteq calls' /\ \A d \in calls' : d \in calls \cup more \/ BackCall(d)
      /\ dirty' \in BOOLEAN /\ (~ dirty' => ~ dirty /\ following' = following) /\ (following' # following => dirty')
  BY <1>1, <1>2, EffectAsks DEF FollowInv, FollowTypes
<1>5. FollowTypes'
  BY <1>1, <1>2, <1>3, <1>4 DEF FollowInv, FollowTypes, BackCall, Follow!Lists
<1>6. ASSUME ~ disturbed PROVE FollowGood'
  <2>1. FollowGood
    BY <1>6 DEF FollowInv
  <2>2. \A d \in calls : d.kind = "follow" => d.targets \subseteq following'[d.of]
    BY <1>2, <2>1 DEF FollowGood, Toggled, Toggles, FollowInv, FollowTypes, CallType
  <2>3. \A p \in expected' : p \in expected /\ p[2] \in following'[p[1]]
    BY <1>1, <1>2, <2>1, ExpectedFewer DEF FollowGood
  <2>4. \A d \in more : NewSnapshot(d)
    BY <1>3, <1>4 DEF NewSnapshot
  <2> QED
    BY <1>1, <1>4, <2>1, <2>2, <2>3, <2>4, ClientKeeps DEF BackCall
<1> QED
  BY <1>1, <1>5, <1>6 DEF FollowInv, OfActive, Follow!ShareIsActive

(* A click: the list changes at once, and two requests are sent. *)
LEMMA ToggleStep == ASSUME FollowAssumption, FollowInv, NEW t \in Targets, Follow!toggleFollow(t) PROVE FollowInv'
<1> DEFINE list == following[active]
           already == t \in list
           next == IF already THEN list \ {t} ELSE list \cup {t}
           more == Follow!syncOwnFollowRows(next)
<1>1. PICK c : c = Follow!NewCall(IF already THEN "unfollow" ELSE "follow", {t}, list)
  OBVIOUS
<1>2. /\ c.kind = (IF already THEN "unfollow" ELSE "follow") /\ c.of = active /\ c.targets = {t} /\ c.before = list
      /\ c.reply = "none"
  BY <1>1, NewCallIs
<1>3. /\ following' = [following EXCEPT ![active] = next]
      /\ disturbed' = (disturbed \/ Follow!Pending # {} \/ saving # None)
      /\ UNCHANGED <<active, sharedCharacters, activeSharedId, shareLoads, saving, public, rows, backRows, strayed>>
      /\ changes' = changes + 1
      /\ Follow!syncRelationshipFollowBack(calls \cup more \cup {c}) /\ Follow!StillExpected({})
  BY <1>1 DEF Follow!toggleFollow
<1>4. list \subseteq Targets /\ next \subseteq Targets /\ next # list /\ active \in Characters
  BY DEF FollowInv, FollowTypes, Follow!Lists
<1>5. /\ following' \in Follow!Lists /\ following'[active] = next /\ following' # following
      /\ \A a \in Characters : a # active => following'[a] = following[a]
  BY <1>3, <1>4 DEF FollowInv, FollowTypes, Follow!Lists
<1>6. \A d \in more : d.kind = "snapshot" /\ d.of = active /\ d.targets = next /\ d.reply = "none" /\ d \in CallType
  BY <1>4, OwnRows DEF FollowInv
<1> HIDE DEF more
<1>7. /\ calls \cup more \cup {c} \subseteq calls' /\ \A d \in calls' : d \in calls \cup more \cup {c} \/ BackCall(d)
      /\ dirty' = TRUE
  BY <1>3, <1>5, EffectAsks DEF FollowInv, FollowTypes
<1>8. FollowTypes'
  <2>1. \A d \in calls' : d \in CallType /\ (d.kind = "back" => d.reply = "none")
                      /\ (d.kind \in {"follow", "unfollow"} => \E x \in Targets : d.targets = {x})
    <3>1. c \in CallType
      BY <1>1, <1>4, NewCallIs DEF FollowInv, Follow!Kinds
    <3> QED
      BY <1>2, <1>4, <1>6, <1>7, <3>1 DEF FollowInv, FollowTypes, BackCall
  <2> QED
    BY <1>3, <1>5, <1>7, <2>1 DEF FollowInv, FollowTypes
<1>9. ASSUME ~ disturbed' PROVE FollowGood'
  <2>1. ~ disturbed /\ Follow!Pending = {} /\ saving = None
    BY <1>3, <1>9
  <2>2. FollowGood /\ \A d \in calls : d.kind \notin {"follow", "unfollow", "snapshot"}
    BY <2>1 DEF FollowInv, Follow!Pending
  <2>3. Saved'
    BY <1>3, <1>7, <2>1 DEF Saved
  <2>4. Toggles' = {c}
    BY <1>2, <1>6, <1>7, <2>2 DEF Toggles, BackCall
  <2>5. Toggled'
    BY <1>2, <1>3, <1>5, <2>1, <2>4 DEF Toggled
  <2>6. ASSUME NEW p \in expected' PROVE Loved(p)' /\ p[2] \in following'[p[1]] /\ NotRevoked(p)' /\ Returning(p)'
    <3>1. p \in expected /\ p[2] \in following'[p[1]]
      BY <1>3, <1>5, <2>2, ExpectedFewer DEF FollowGood
    <3>2. Loved(p) /\ Returning(p)
      BY <2>2, <3>1 DEF FollowGood, Returned
    <3>3. Loved(p)' /\ Returning(p)'
      BY <1>3, <1>7, <3>2 DEF Loved, Returning, AsksBack
    <3>4. NotRevoked(p)'
      <4>1. ASSUME NEW d \in calls', d.kind = "unfollow" PROVE d = c
        BY <2>4, <4>1 DEF Toggles
      <4>2. c.kind = "unfollow" => t \notin following'[active]
        BY <1>2, <1>5
      <4> QED
        BY <1>2, <3>1, <4>1, <4>2 DEF NotRevoked
    <3> QED
      BY <3>1, <3>3, <3>4
  <2> QED
    BY <2>3, <2>5, <2>6 DEF FollowGood, Returned
<1> QED
  BY <1>3, <1>8, <1>9 DEF FollowInv, OfActive, Follow!ShareIsActive

(* The answer of a change: a saved follow may ask a lover, a refused one goes back to the list it saw. *)
LEMMA AnswerFollowStep ==
  ASSUME FollowAssumption, FollowInv, NEW c \in calls, c.reply # "none", Follow!AnswerFollow(c)
  PROVE  FollowInv'
<1> DEFINE t == CHOOSE x \in c.targets : TRUE
           refused == c.reply = "refused"
           seeds == IF refused \/ c.kind = "unfollow" THEN {} ELSE Follow!applyFollowBackSeed(c, t)
           snapshot == IF refused THEN Follow!syncOwnFollowRows(c.before) ELSE {}
           added == IF ~ refused /\ c.kind = "follow" /\ c.share = c.of /\ <<c.of, t>> \in MutualLovers THEN {<<c.of, t>>} ELSE {}
           base == (calls \ {c}) \cup seeds \cup snapshot
<1>1. /\ c.kind \in {"follow", "unfollow"}
      /\ following' = IF refused THEN [following EXCEPT ![active] = c.before] ELSE following
      /\ disturbed' = (disturbed \/ (refused /\ saving # None))
      /\ UNCHANGED <<active, sharedCharacters, activeSharedId, shareLoads, saving, public, rows, backRows, changes, strayed>>
      /\ Follow!syncRelationshipFollowBack(base) /\ Follow!StillExpected(added)
  BY DEF Follow!AnswerFollow
<1>2. t \in Targets /\ c.targets = {t} /\ c.of \in Characters /\ c.share \in Characters \cup {None}
  BY <1>1 DEF FollowInv, FollowTypes, CallType
<1>3. following' \in Follow!Lists /\ (refused => following'[active] = c.before)
  BY <1>1 DEF FollowInv, FollowTypes, CallType, Follow!Lists
<1>4. /\ \A d \in seeds : BackCall(d)
      /\ added # {} => \E d \in seeds : AsksBack(d, <<c.of, t>>)
  BY <1>1, <1>2, BackSeed DEF FollowAssumption
<1>5. \A d \in snapshot : /\ d.kind = "snapshot" /\ d.of = active /\ d.targets = c.before /\ d.reply = "none"
                          /\ d \in CallType /\ refused
  BY OwnRows DEF FollowInv, FollowTypes, CallType
<1>6. \A p \in expected' : p \in expected \cup added /\ p[2] \in following'[p[1]]
  BY <1>1 DEF Follow!StillExpected
<1>7. added \subseteq {<<c.of, t>>} /\ (added # {} => c.reply = "ok" /\ c.kind = "follow" /\ <<c.of, t>> \in MutualLovers)
  BY DEF FollowInv, FollowTypes, CallType
<1> HIDE DEF seeds, snapshot, added, t
<1>8. /\ base \subseteq calls' /\ \A d \in calls' : d \in base \/ BackCall(d)
      /\ dirty' \in BOOLEAN /\ (~ dirty' => ~ dirty /\ following' = following) /\ (following' # following => dirty')
  <2> HIDE DEF base
  <2> QED
    BY <1>1, <1>3, EffectAsks DEF FollowInv, FollowTypes
<1>9. FollowTypes'
  <2>1. \A d \in calls' : d \in CallType /\ (d.kind = "back" => d.reply = "none")
                      /\ (d.kind \in {"follow", "unfollow"} => \E x \in Targets : d.targets = {x})
    BY <1>4, <1>5, <1>8 DEF FollowInv, FollowTypes, BackCall
  <2> QED
    BY <1>1, <1>3, <1>8, <2>1 DEF FollowInv, FollowTypes
<1>10. ASSUME ~ disturbed' PROVE FollowGood'
  <2>1. FollowGood /\ (refused => saving = None)
    BY <1>1, <1>10 DEF FollowInv
  <2>2. \A d \in calls : d.kind \in {"follow", "unfollow"} => d = c
    BY <1>1, <2>1 DEF FollowGood, Toggled, Toggles
  <2>3. \A d \in snapshot : NewSnapshot(d)
    BY <1>3, <1>5, <2>1 DEF NewSnapshot
  <2>4. \A d \in calls' : d \in calls \/ d.kind \in {"back", "visibility"} \/ NewSnapshot(d)
    BY <1>4, <1>8, <2>3 DEF BackCall
  <2>5. \A d \in calls : d.kind = "back" => d \in calls'
    BY <1>1, <1>8
  <2>6. \A d \in calls : d \in calls' /\ d.kind = "follow" => d.targets \subseteq following'[d.of]
    <3>1. \A d \in snapshot \cup seeds : d.kind # "follow"
      BY <1>4, <1>5 DEF BackCall
    <3>2. ~ BackCall(c)
      BY <1>1 DEF BackCall
    <3>3. c \notin snapshot \cup seeds
      BY <1>1, <1>4, <1>5 DEF BackCall
    <3> QED
      BY <1>8, <2>2, <3>2, <3>3
  <2>7. ASSUME NEW p \in added PROVE Loved(p) /\ NotRevoked(p) /\ Returning(p)'
    <3>1. p = <<c.of, t>> /\ c.reply = "ok" /\ c.kind = "follow" /\ p \in MutualLovers /\ p[1] = c.of /\ p[2] = t
      BY <1>7, <2>7
    <3>2. Loved(p)
      BY <1>2, <2>1, <3>1 DEF FollowGood, Toggled, Toggles, Loved, Follow!Pairs
    <3>3. NotRevoked(p)
      BY <2>2, <3>1 DEF NotRevoked
    <3>4. Returning(p)'
      BY <1>4, <1>8, <2>7, <3>1 DEF Returning, AsksBack
    <3> QED
      BY <3>2, <3>3, <3>4
  <2>8. UNCHANGED <<rows, saving, backRows>>
    BY <1>1
  <2> HIDE DEF base, refused
  <2> QED
    BY <1>6, <1>8, <2>1, <2>4, <2>5, <2>6, <2>7, <2>8, ClientKeeps
<1> QED
  BY <1>1, <1>9, <1>10 DEF FollowInv, OfActive, Follow!ShareIsActive

(* The server's answers. *)
LEMMA ReplyIs ==
  ASSUME FollowTypes, NEW c \in calls, NEW ok \in BOOLEAN, c.reply = "none", Follow!Reply(c, ok)
  PROVE  \E d \in CallType :
           /\ IF c.kind \in {"follow", "unfollow", "visibility"} THEN calls' = (calls \ {c}) \cup {d} ELSE calls' = calls \ {c}
           /\ d.kind = c.kind /\ d.of = c.of /\ d.targets = c.targets /\ d.before = c.before /\ d.share = c.share
           /\ d.reply = (IF ok THEN "ok" ELSE "refused")
<1>1. c \in CallType
  BY DEF FollowTypes
<1>2. PICK d : d = [c EXCEPT !.reply = IF ok THEN "ok" ELSE "refused"]
  OBVIOUS
<1>3. /\ d \in CallType /\ d.kind = c.kind /\ d.of = c.of /\ d.targets = c.targets /\ d.before = c.before /\ d.share = c.share
      /\ d.reply = (IF ok THEN "ok" ELSE "refused")
  BY <1>1, <1>2 DEF CallType
<1>4. IF c.kind \in {"follow", "unfollow", "visibility"} THEN calls' = (calls \ {c}) \cup {d} ELSE calls' = calls \ {c}
  BY <1>2 DEF Follow!Reply, Follow!AwaitsReply
<1> QED
  BY <1>3, <1>4

LEMMA ServeStep == ASSUME FollowAssumption, FollowInv, NEW c \in calls, Follow!Serve(c) PROVE FollowInv'
<1> DEFINE ok == Follow!Accepted(c)
           pairs == {<<c.of, t>> : t \in c.targets}
<1>1. /\ c.reply = "none" /\ Follow!Reply(c, ok)
      /\ UNCHANGED <<active, following, sharedCharacters, activeSharedId, shareLoads, dirty, saving, followBackSync,
                     public, changes, expected, disturbed, strayed>>
      /\ c.kind \in {"follow", "snapshot"} /\ ok => rows' = rows \cup pairs
      /\ c.kind = "unfollow" => rows' = rows \ pairs
      /\ ~ (c.kind \in {"follow", "snapshot"} /\ ok) /\ c.kind # "unfollow" => rows' = rows
      /\ backRows' = IF c.kind = "back" /\ ok THEN backRows \cup {<<p[2], p[1]>> : p \in pairs} ELSE backRows
  BY DEF Follow!Serve
<1>2. /\ c \in CallType /\ ok \in BOOLEAN /\ (c.kind \in {"snapshot", "unfollow", "visibility"} => ok)
      /\ (c.kind = "back" => (ok <=> \A t \in c.targets : <<c.of, t>> \in rows \cap MutualLovers))
  BY DEF FollowInv, FollowTypes, Follow!Accepted
<1>3. PICK d \in CallType :
           /\ IF c.kind \in {"follow", "unfollow", "visibility"} THEN calls' = (calls \ {c}) \cup {d} ELSE calls' = calls \ {c}
           /\ d.kind = c.kind /\ d.of = c.of /\ d.targets = c.targets /\ d.before = c.before /\ d.share = c.share
           /\ d.reply = (IF ok THEN "ok" ELSE "refused")
  BY <1>1, <1>2, ReplyIs DEF FollowInv
<1>4. pairs \subseteq Follow!Pairs /\ \A p \in pairs : p[1] = c.of /\ p[2] \in c.targets
  BY <1>2 DEF CallType, Follow!Pairs
<1>5. \A p \in Follow!Pairs : p[1] = c.of /\ p[2] \in c.targets => p \in pairs
  BY DEF Follow!Pairs
<1> HIDE DEF ok, pairs
<1>6. FollowTypes'
  BY <1>1, <1>2, <1>3, <1>4 DEF FollowInv, FollowTypes
<1>7. ASSUME ~ disturbed PROVE FollowGood'
  <2>1. FollowGood
    BY <1>7 DEF FollowInv
  <2>2. \A e \in calls' : Waiting(e) => e \in calls
    BY <1>3 DEF Waiting
  <2>3. Saved'
    <3>1. ASSUME ~ dirty, saving = None PROVE rows' = rows
      <4>1. rows = ShownFollows /\ (Waiting(c) => c.kind = "snapshot" /\ c.targets \subseteq following[c.of])
        BY <2>1, <3>1 DEF FollowGood, Saved
      <4>2. c.kind \notin {"follow", "unfollow"} /\ (c.kind = "snapshot" => pairs \subseteq rows)
        BY <1>1, <1>4, <4>1 DEF Waiting, ShownFollows
      <4> QED
        BY <1>1, <4>2
    <3>2. ShownFollows' = ShownFollows
      BY <1>1 DEF ShownFollows
    <3> QED
      BY <1>1, <2>1, <2>2, <3>1, <3>2 DEF FollowGood, Saved
  <2>4. Toggled'
    <3>1. ASSUME NEW e \in Toggles' PROVE (e \in calls /\ e # c) \/ (e = d /\ c \in Toggles)
      BY <1>3, <3>1 DEF Toggles
    <3>2. \A e, f \in Toggles' : e = f
      BY <1>3, <2>1, <3>1 DEF FollowGood, Toggled, Toggles
    <3>3. saving # None => \A e \in Toggles' : e.reply # "none"
      BY <1>3, <2>1, <3>1 DEF FollowGood, Toggled, Toggles
    <3>4. \A e \in Toggles' : e.kind = "follow" => e.targets \subseteq following'[e.of]
      BY <1>1, <1>3, <2>1, <3>1 DEF FollowGood, Toggled, Toggles
    <3>5. ASSUME NEW e \in Toggles', e.kind = "follow", e.reply = "ok", NEW t \in e.targets
          PROVE  <<e.of, t>> \in rows' /\ (saving # None => t \in saving[e.of])
      <4>1. CASE e \in calls /\ e # c
        <5>1. c.kind # "unfollow"
          BY <2>1, <3>5, <4>1 DEF FollowGood, Toggled, Toggles
        <5>2. <<e.of, t>> \in rows /\ (saving # None => t \in saving[e.of])
          BY <2>1, <3>5, <4>1 DEF FollowGood, Toggled, Toggles
        <5> QED
          BY <1>1, <5>1, <5>2
      <4>2. CASE e = d /\ c \in Toggles
        <5>1. c.kind = "follow" /\ ok /\ t \in c.targets /\ e.of = c.of
          BY <1>3, <3>5, <4>2
        <5>2. saving = None
          BY <1>1, <2>1, <4>2 DEF FollowGood, Toggled
        <5>3. <<c.of, t>> \in pairs
          BY <5>1 DEF pairs
        <5> QED
          BY <1>1, <5>1, <5>2, <5>3
      <4> QED
        BY <3>1, <4>1, <4>2
    <3> QED
      BY <1>1, <3>2, <3>3, <3>4, <3>5 DEF Toggled
  <2>5. ASSUME NEW p \in expected' PROVE Loved(p)' /\ p[2] \in following'[p[1]] /\ NotRevoked(p)' /\ Returning(p)'
    <3>1. Loved(p) /\ p[2] \in following[p[1]] /\ NotRevoked(p) /\ Returning(p)
      BY <1>1, <2>1, <2>5 DEF FollowGood, Returned
    <3>2. c.kind = "unfollow" => p \notin pairs
      BY <1>1, <1>4, <3>1 DEF NotRevoked
    <3>3. Loved(p)'
      BY <1>1, <3>1, <3>2 DEF Loved
    <3>4. NotRevoked(p)'
      BY <1>3, <3>1 DEF NotRevoked
    <3>5. Returning(p)'
      <4>1. CASE <<p[2], p[1]>> \in backRows
        BY <1>1, <4>1 DEF Returning
      <4>2. CASE AsksBack(c, p)
        <5>1. c.kind = "back" /\ c.of = p[1] /\ c.targets = {p[2]}
          BY <4>2 DEF AsksBack
        <5>2. p \in Follow!Pairs /\ p \in rows \cap MutualLovers /\ p = <<p[1], p[2]>>
          BY <3>1 DEF Loved, Follow!Pairs
        <5>3. ok /\ p \in pairs
          BY <1>2, <1>5, <5>1, <5>2
        <5>4. <<p[2], p[1]>> \in backRows'
          BY <1>1, <5>1, <5>3
        <5> QED
          BY <5>4 DEF Returning
      <4>3. CASE \E e \in calls : e # c /\ AsksBack(e, p)
        BY <1>3, <4>3 DEF Returning, AsksBack
      <4> QED
        BY <3>1, <4>1, <4>2, <4>3 DEF Returning
    <3> QED
      BY <1>1, <3>1, <3>3, <3>4, <3>5
  <2> QED
    BY <2>3, <2>4, <2>5 DEF FollowGood, Returned
<1> QED
  BY <1>1, <1>6, <1>7 DEF FollowInv, OfActive, Follow!ShareIsActive

(* A request that fails is answered as one that is refused; a lover that could not be asked stays unasked. *)
LEMMA FailStep == ASSUME FollowAssumption, FollowInv, NEW c \in calls, Follow!Fail(c) PROVE FollowInv'
<1>1. /\ c.reply = "none" /\ Follow!Reply(c, FALSE) /\ disturbed' = (disturbed \/ c.kind = "back")
      /\ UNCHANGED <<active, following, sharedCharacters, activeSharedId, shareLoads, dirty, saving, followBackSync,
                     public, rows, backRows, changes, expected, strayed>>
  BY DEF Follow!Fail
<1>2. PICK d \in CallType :
           /\ IF c.kind \in {"follow", "unfollow", "visibility"} THEN calls' = (calls \ {c}) \cup {d} ELSE calls' = calls \ {c}
           /\ d.kind = c.kind /\ d.of = c.of /\ d.targets = c.targets /\ d.before = c.before /\ d.share = c.share
           /\ d.reply = "refused"
  <2>1. FALSE \in BOOLEAN /\ FollowTypes
    BY DEF FollowInv
  <2> QED
    BY <1>1, <2>1, ReplyIs
<1>3. FollowTypes'
  BY <1>1, <1>2 DEF FollowInv, FollowTypes
<1>4. ASSUME ~ disturbed' PROVE FollowGood'
  <2>1. FollowGood /\ c.kind # "back"
    BY <1>1, <1>4 DEF FollowInv
  <2>2. Saved'
    <3>1. \A e \in calls' : Waiting(e) => e \in calls
      BY <1>2 DEF Waiting
    <3>2. ShownFollows' = ShownFollows
      BY <1>1 DEF ShownFollows
    <3> QED
      BY <1>1, <2>1, <3>1, <3>2 DEF FollowGood, Saved
  <2>3. Toggled'
    <3>1. ASSUME NEW e \in Toggles' PROVE (e \in calls /\ e # c) \/ (e = d /\ c \in Toggles)
      BY <1>2, <3>1 DEF Toggles
    <3> QED
      BY <1>1, <1>2, <2>1, <3>1 DEF FollowGood, Toggled, Toggles
  <2>4. ASSUME NEW p \in expected' PROVE Loved(p)' /\ p[2] \in following'[p[1]] /\ NotRevoked(p)' /\ Returning(p)'
    <3>1. Loved(p) /\ p[2] \in following[p[1]] /\ NotRevoked(p) /\ Returning(p)
      BY <1>1, <2>1, <2>4 DEF FollowGood, Returned
    <3>2. Loved(p)' /\ NotRevoked(p)'
      BY <1>1, <1>2, <3>1 DEF Loved, NotRevoked
    <3>3. Returning(p)'
      BY <1>1, <1>2, <2>1, <3>1 DEF Returning, AsksBack
    <3> QED
      BY <1>1, <3>1, <3>2, <3>3
  <2> QED
    BY <2>2, <2>3, <2>4 DEF FollowGood, Returned
<1> QED
  BY <1>1, <1>3, <1>4 DEF FollowInv, OfActive, Follow!ShareIsActive

(* The autosave takes all lists when nothing it would undo is on its way. *)
LEMMA SaveSteps == ASSUME FollowAssumption, FollowInv, Follow!Autosave \/ Follow!SaveServed PROVE FollowInv'
<1>1. ASSUME Follow!Autosave PROVE FollowInv'
  <2>1. /\ dirty /\ saving = None /\ saving' = [a \in Characters |-> Follow!ListOf(a)] /\ dirty' = FALSE
        /\ disturbed' = (disturbed \/ Follow!Unserved # {})
        /\ UNCHANGED <<active, following, sharedCharacters, activeSharedId, shareLoads, calls, followBackSync, public,
                       rows, backRows, changes, expected, strayed>>
    BY <1>1 DEF Follow!Autosave
  <2>2. saving' = following /\ following \in Follow!Lists /\ saving' # None
    BY <2>1 DEF Follow!ListOf, FollowInv, FollowTypes, Follow!Lists, FollowAssumption
  <2>3. FollowTypes'
    BY <2>1, <2>2 DEF FollowInv, FollowTypes
  <2>4. ASSUME ~ disturbed' PROVE FollowGood'
    <3>1. FollowGood /\ \A c \in calls : ~ Waiting(c)
      BY <2>1, <2>4 DEF FollowInv, Follow!Unserved, Follow!Pending, Waiting
    <3>2. Saved'
      BY <2>1, <2>2, <3>1 DEF Saved, Waiting
    <3>3. Toggled'
      BY <2>1, <2>2, <3>1 DEF FollowGood, Toggled, Toggles, Waiting
    <3>4. Returned'
      BY <2>1, <2>2, <3>1 DEF FollowGood, Returned, Loved, NotRevoked, Returning, AsksBack
    <3> QED
      BY <3>2, <3>3, <3>4 DEF FollowGood
  <2> QED
    BY <2>1, <2>3, <2>4 DEF FollowInv, OfActive, Follow!ShareIsActive
<1>2. ASSUME Follow!SaveServed PROVE FollowInv'
  <2>1. /\ saving # None /\ saving' = None
        /\ \/ rows' = {p \in Follow!Pairs : p[2] \in saving[p[1]]} /\ UNCHANGED disturbed
           \/ UNCHANGED rows /\ disturbed' = TRUE
        /\ UNCHANGED <<active, following, sharedCharacters, activeSharedId, shareLoads, calls, dirty, followBackSync,
                       public, backRows, changes, expected, strayed>>
    BY <1>2 DEF Follow!SaveServed
  <2>2. FollowTypes'
    BY <2>1 DEF FollowInv, FollowTypes
  <2>3. ASSUME ~ disturbed' PROVE FollowGood'
    <3>1. FollowGood /\ rows' = {p \in Follow!Pairs : p[2] \in saving[p[1]]}
      BY <2>1, <2>3 DEF FollowInv
    <3>2. Saved'
      <4>1. ASSUME ~ dirty PROVE rows' = ShownFollows' /\ \A c \in calls : ~ Waiting(c)
        BY <2>1, <3>1, <4>1 DEF FollowGood, Saved, ShownFollows
      <4> QED
        BY <2>1, <4>1 DEF Saved, Waiting
    <3>3. Toggled'
      <4>1. ASSUME NEW c \in Toggles, c.kind = "follow", c.reply = "ok", NEW t \in c.targets PROVE <<c.of, t>> \in rows'
        <5>1. t \in saving[c.of]
          BY <2>1, <3>1, <4>1 DEF FollowGood, Toggled
        <5>2. c.of \in Characters /\ t \in Targets
          BY <4>1 DEF Toggles, FollowInv, FollowTypes, CallType
        <5> QED
          BY <3>1, <5>1, <5>2 DEF Follow!Pairs
      <4> QED
        BY <2>1, <3>1, <4>1 DEF FollowGood, Toggled, Toggles
    <3>4. Returned'
      BY <2>1, <3>1 DEF FollowGood, Returned, Loved, NotRevoked, Returning, AsksBack
    <3> QED
      BY <3>2, <3>3, <3>4 DEF FollowGood
  <2> QED
    BY <2>1, <2>2, <2>3 DEF FollowInv, OfActive, Follow!ShareIsActive
<1> QED
  BY <1>1, <1>2

LEMMA FollowsStep == ASSUME FollowAssumption, FollowInv, [Follow!Next]_(Follow!followVars) PROVE FollowInv'
<1>1. CASE Follow!Next
  BY <1>1, ShownStep, ElsewhereStep, RelationsStep, ToggleStep, AnswerFollowStep, ServeStep, FailStep, SaveSteps
     DEF Follow!Next
<1>2. CASE UNCHANGED Follow!followVars
  BY <1>2 DEF Follow!followVars, FollowInv, FollowTypes, OfActive, Follow!ShareIsActive, FollowGood, Saved, Toggled,
     Toggles, Returned, Loved, NotRevoked, Returning, AsksBack, Waiting, ShownFollows
<1> QED
  BY <1>1, <1>2

(* What is shown and what the server has agree once all is answered: after toggles, refusals, switches  *)
(* and lovers, with saves and single requests on their way at once; a lover whose follow was saved       *)
(* follows back; the shared id is of the character that is shown (useAliveDiscover, useAliveAutosave).   *)
THEOREM FollowsSettle ==
  ASSUME FollowAssumption
  PROVE  Follow!Spec => []Follow!RelationsTrue
<1>1. FollowInv => Follow!RelationsTrue
  BY DEF FollowInv, FollowGood, Saved, ShownFollows, Returned, Returning, Follow!RelationsTrue, Follow!RowsSettle,
     Follow!ShareIsActive, Follow!LoversReturn, Follow!Quiet
<1> QED
  BY <1>1, FollowsStart, FollowsStep, PTL DEF Follow!Spec

-----------------------------------------------------------------------------
(* The rooms of a character: what is stored of them, and the rooms that were deleted. *)
DmAssumption == None \notin Dm!Rooms \cup Dm!DmPeer

(* A stored room that is not deleted is shown: the client learns all rooms from the load and forgets *)
(* one only by its deletion, which it remembers until the room is opened again.                      *)
StoredShown == DOMAIN stored.rows \ deletedDmKeys \subseteq DOMAIN dmThreads
DmInv ==
  /\ \E rows1, deleted1 : stored = [rows |-> rows1, deleted |-> deleted1]
  /\ pendingDm \in Dm!PendingDm \cup {None}
  /\ StoredShown

(* The rooms after a step are those before it and at most the one that is on the screen, or that of a *)
(* running conversation.                                                                               *)
WrittenIn(k) == \E ms : dmThreads' = Dm!WithMessages(k, ms)
WritesOnly ==
  /\ deletedDmKeys' = deletedDmKeys /\ stored' = stored
  /\ pendingDm' \in Dm!PendingDm \cup {None}
  /\ \/ dmThreads' = dmThreads
     \/ \E k : WrittenIn(k) /\ (Dm!dmKey' = k \/ \E l \in loops : l.key = k)

LEMMA WriteKeeps == ASSUME DmInv, WritesOnly PROVE DmInv' /\ Dm!DeletedStaysStep
<1>1. DOMAIN dmThreads \subseteq DOMAIN dmThreads'
      /\ \A k \in DOMAIN dmThreads' \ DOMAIN dmThreads : Dm!dmKey' = k \/ \E l \in loops : l.key = k
  BY DEF WritesOnly, WrittenIn, Dm!WithMessages
<1>2. DmInv'
  BY <1>1 DEF WritesOnly, DmInv, StoredShown
<1>3. Dm!DeletedStaysStep
  BY <1>1 DEF Dm!DeletedStaysStep
<1> QED
  BY <1>2, <1>3

LEMMA KeyStays == ASSUME UNCHANGED <<peer, speakAs>> PROVE Dm!dmKey' = Dm!dmKey
BY DEF Dm!dmKey

LEMMA PeerTyped ==
  ASSUME DmAssumption, NEW n \in Names, NEW k \in Dm!Rooms \cup {None}
  PROVE  Dm!PeerOf(n, k) # None
<1>1. Dm!PeerOf(n, k) \in Dm!DmPeer
  BY DEF Dm!DmPeer, Dm!PeerOf
<1> QED
  BY <1>1 DEF DmAssumption

(* Entering and leaving rooms writes none, but for the one that is opened. *)
LEMMA EnterKeeps == ASSUME DmAssumption, DmInv, Dm!Enter PROVE DmInv' /\ Dm!DeletedStaysStep
<1>1. ASSUME NEW k \in Dm!Rooms, Dm!OpenRoom(k) PROVE WritesOnly
  <2>1. pendingDm' = None
    BY <1>1 DEF Dm!OpenRoom, Dm!enterDm
  <2> QED
    BY <1>1, <2>1 DEF Dm!OpenRoom, Dm!roomVars, WritesOnly
<1>2. ASSUME NEW n \in Names, Dm!requestDmEntry(n) PROVE WritesOnly
  BY <1>2 DEF Dm!requestDmEntry, Dm!roomVars, WritesOnly, Dm!PendingDm
<1>3. ASSUME NEW b \in BOOLEAN, Dm!chooseDmWorldMode(b) PROVE WritesOnly
  BY <1>3 DEF Dm!chooseDmWorldMode, Dm!roomVars, WritesOnly, Dm!PendingDm, DmInv
<1>4. CASE Dm!finishDmWorldSetup \/ Dm!cancelSetup
  BY <1>4, WriteKeeps DEF Dm!finishDmWorldSetup, Dm!cancelSetup, Dm!roomVars, WritesOnly, Dm!PendingDm, DmInv
<1>5. CASE Dm!finishDmChatKind
  <2>1. pendingDm # None /\ pendingDm.name \in Names /\ stored' = stored
    BY <1>5 DEF Dm!finishDmChatKind, DmInv, Dm!PendingDm
  <2> PICK k \in {Dm!SharedRoom("char", pendingDm.name)}
                   \cup {Dm!LocalRoom("char", pendingDm.name, i) : i \in RoomIds} :
        /\ dmThreads' = Dm!WithMessages(k, Dm!Messages(k))
        /\ deletedDmKeys' = deletedDmKeys \ {k}
        /\ Dm!enterDm(Dm!PeerOf(pendingDm.name, IF Dm!IsShared(k) THEN None ELSE k), "char")
    BY <1>5 DEF Dm!finishDmChatKind, Dm!nextDeletedKeys
  <2>2. DOMAIN dmThreads' = DOMAIN dmThreads \cup {k} /\ pendingDm' = None
    BY DEF Dm!WithMessages, Dm!enterDm
  <2>3. Dm!dmKey' = k
    <3>1. ASSUME NEW j PROVE Dm!PeerOf(pendingDm.name, j).asOwner = FALSE /\ Dm!PeerOf(pendingDm.name, j).dmKey = j
                             /\ Dm!PeerOf(pendingDm.name, j).name = pendingDm.name
      BY DEF Dm!PeerOf
    <3>2. peer' = Dm!PeerOf(pendingDm.name, IF Dm!IsShared(k) THEN None ELSE k) /\ speakAs' = "char"
      BY DEF Dm!enterDm
    <3>3. CASE k = Dm!SharedRoom("char", pendingDm.name)
      <4>1. Dm!IsShared(k)
        BY <3>3 DEF Dm!IsShared, Dm!SharedRoom
      <4>2. Dm!PeerOf(pendingDm.name, None) # None
        BY <2>1, PeerTyped
      <4> QED
        BY <3>1, <3>2, <3>3, <4>1, <4>2 DEF Dm!dmKey, Dm!dmKeyFor
    <3>4. CASE \E i \in RoomIds : k = Dm!LocalRoom("char", pendingDm.name, i)
      <4>1. ~ Dm!IsShared(k)
        BY <3>4 DEF Dm!IsShared, Dm!LocalRoom
      <4>2. k \in Dm!Rooms /\ k # None
        BY <2>1, <3>4 DEF Dm!Rooms, DmAssumption
      <4>3. Dm!PeerOf(pendingDm.name, k) # None
        BY <2>1, <4>2, PeerTyped
      <4> QED
        BY <3>1, <3>2, <4>1, <4>2, <4>3 DEF Dm!dmKey, Dm!dmKeyFor
    <3> QED
      BY <3>3, <3>4
  <2>4. DmInv'
    BY <2>1, <2>2 DEF DmInv, StoredShown
  <2>5. Dm!DeletedStaysStep
    BY <2>2, <2>3 DEF Dm!DeletedStaysStep
  <2> QED
    BY <2>4, <2>5
<1> QED
  BY <1>1, <1>2, <1>3, <1>4, <1>5, WriteKeeps DEF Dm!Enter

(* Messages are written to the room on the screen. *)
LEMMA TalkKeeps == ASSUME DmInv, Dm!Talk PROVE DmInv' /\ Dm!DeletedStaysStep
<1> USE DEF WritesOnly, WrittenIn, DmInv
<1>1. CASE Dm!Leave \/ \E s \in Dm!Speakers : Dm!setSpeakAs(s)
  <2>1. UNCHANGED <<dmThreads, deletedDmKeys, stored, pendingDm>>
    BY <1>1 DEF Dm!Leave, Dm!setSpeakAs, Dm!roomVars
  <2> QED
    BY <2>1, WriteKeeps
<1>2. CASE Dm!sendDM
  <2>1. WrittenIn(Dm!dmKey) /\ UNCHANGED <<deletedDmKeys, stored, pendingDm, peer, speakAs>>
    BY <1>2 DEF Dm!sendDM
  <2> QED
    BY <2>1, KeyStays, WriteKeeps
<1>3. ASSUME NEW r \in requests, Dm!Answer(r) PROVE DmInv' /\ Dm!DeletedStaysStep
  <2>1. UNCHANGED <<deletedDmKeys, stored, pendingDm, peer, speakAs>>
    BY <1>3 DEF Dm!Answer
  <2>2. dmThreads' = dmThreads \/ (r.key = Dm!dmKey /\ WrittenIn(r.key))
    BY <1>3 DEF Dm!Answer, Dm!IsCurrent
  <2> QED
    BY <2>1, <2>2, KeyStays, WriteKeeps
<1>4. ASSUME NEW i \in DOMAIN Dm!Messages(Dm!dmKey), Dm!restoreFailedDmDraft(i) PROVE DmInv' /\ Dm!DeletedStaysStep
  <2>1. WrittenIn(Dm!dmKey) /\ UNCHANGED <<deletedDmKeys, stored, pendingDm, peer, speakAs>>
    BY <1>4 DEF Dm!restoreFailedDmDraft
  <2> QED
    BY <2>1, KeyStays, WriteKeeps
<1> QED
  BY <1>1, <1>2, <1>3, <1>4 DEF Dm!Talk

LEMMA AutoTalkKeeps == ASSUME DmInv, Dm!AutoTalk PROVE DmInv' /\ Dm!DeletedStaysStep
<1> USE DEF WritesOnly, WrittenIn, DmInv
<1>1. CASE Dm!startAutoChat
  <2>1. UNCHANGED <<deletedDmKeys, stored, pendingDm, peer, speakAs>>
    BY <1>1 DEF Dm!startAutoChat
  <2>2. dmThreads' = dmThreads \/ WrittenIn(Dm!dmKey)
    BY <1>1 DEF Dm!startAutoChat
  <2> QED
    BY <2>1, <2>2, KeyStays, WriteKeeps
<1>2. CASE Dm!stopAutoChat
  BY <1>2, WriteKeeps DEF Dm!stopAutoChat, Dm!roomVars
<1>3. ASSUME NEW l \in loops, Dm!AutoLine(l) \/ Dm!AutoPause(l) PROVE DmInv' /\ Dm!DeletedStaysStep
  <2>1. UNCHANGED <<deletedDmKeys, stored, pendingDm>>
    BY <1>3 DEF Dm!AutoLine, Dm!AutoPause, Dm!roomVars
  <2>2. dmThreads' = dmThreads \/ WrittenIn(l.key)
    BY <1>3 DEF Dm!AutoLine, Dm!AutoPause, Dm!roomVars
  <2> QED
    BY <2>1, <2>2, WriteKeeps
<1> QED
  BY <1>1, <1>2, <1>3 DEF Dm!AutoTalk

(* A deletion, a save and a reload of the page. *)
LEMMA DeleteKeeps == ASSUME DmInv, Dm!Delete PROVE DmInv' /\ Dm!DeletedStaysStep
<1> PICK k \in Dm!Rooms : Dm!deleteDmThread(k)
  BY DEF Dm!Delete
<1>1. /\ deletedDmKeys' = deletedDmKeys \cup {k} /\ pendingDm' = pendingDm
      /\ DOMAIN dmThreads' = DOMAIN dmThreads \ {k}
  BY DEF Dm!deleteDmThread
<1> PICK rows1, deleted1 : stored = [rows |-> rows1, deleted |-> deleted1]
  BY DEF DmInv
<1>2. DOMAIN stored'.rows \subseteq DOMAIN stored.rows
      /\ \E rows2, deleted2 : stored' = [rows |-> rows2, deleted |-> deleted2]
  <2>1. CASE stored' = stored
    BY <2>1
  <2>2. CASE stored' = [stored EXCEPT !.rows = [j \in DOMAIN @ \ {k} |-> @[j]]]
    <3>1. stored' = [rows |-> [j \in DOMAIN rows1 \ {k} |-> rows1[j]], deleted |-> deleted1]
      BY <2>2
    <3> QED
      BY <3>1
  <2> QED
    BY <2>1, <2>2 DEF Dm!deleteDmThread
<1>3. DmInv'
  BY <1>1, <1>2 DEF DmInv, StoredShown
<1>4. Dm!DeletedStaysStep
  BY <1>1 DEF Dm!DeletedStaysStep
<1> QED
  BY <1>3, <1>4

LEMMA SaveKeeps == ASSUME DmInv, Dm!Save PROVE DmInv' /\ Dm!DeletedStaysStep
<1>1. stored' = [rows |-> Dm!SavedRows, deleted |-> deletedDmKeys] /\ UNCHANGED <<dmThreads, deletedDmKeys, pendingDm>>
  BY DEF Dm!Save, Dm!SaveRooms
<1>2. DOMAIN stored'.rows = (DOMAIN stored.rows \cup (DOMAIN dmThreads \ deletedDmKeys)) \ deletedDmKeys
  BY <1>1 DEF Dm!SavedRows, Dm!Marked
<1>3. DmInv'
  BY <1>1, <1>2 DEF DmInv, StoredShown
<1>4. Dm!DeletedStaysStep
  BY <1>1 DEF Dm!DeletedStaysStep
<1> QED
  BY <1>3, <1>4

LEMMA ReloadKeeps == ASSUME DmInv, Dm!Reload PROVE DmInv' /\ Dm!DeletedStaysStep
<1>1. /\ stored' = stored /\ deletedDmKeys' = stored.deleted /\ pendingDm' = None
      /\ DOMAIN dmThreads' = DOMAIN stored.rows \ stored.deleted
  BY DEF Dm!Reload, Dm!Loaded
<1>2. DmInv'
  BY <1>1 DEF DmInv, StoredShown
<1>3. Dm!DeletedStaysStep
  BY <1>1 DEF Dm!DeletedStaysStep
<1> QED
  BY <1>2, <1>3

LEMMA SavedRowsLoaded == ASSUME DmInv PROVE Dm!SavedIsLoaded
<1> SUFFICES ASSUME Dm!Synced
             PROVE  /\ DOMAIN Dm!Loaded(stored) = DOMAIN dmThreads \ deletedDmKeys
                    /\ \A k \in DOMAIN Dm!Loaded(stored) : Dm!Loaded(stored)[k] = dmThreads[k]
  BY DEF Dm!SavedIsLoaded
<1>1. stored.rows = Dm!SavedRows /\ stored.deleted = deletedDmKeys
  BY DEF Dm!Synced
<1>2. DOMAIN stored.rows = DOMAIN dmThreads \ deletedDmKeys
  BY <1>1 DEF Dm!SavedRows, Dm!Marked, DmInv, StoredShown
<1>3. \A k \in DOMAIN stored.rows : stored.rows[k] = dmThreads[k]
  BY <1>1, <1>2 DEF Dm!SavedRows, Dm!Marked
<1> QED
  BY <1>1, <1>2, <1>3 DEF Dm!Loaded

(* A reload after a save shows the rooms that were shown: a deleted room does not come back, another *)
(* one is not lost.  A deleted room is there again only when the user writes in it or opens it, an    *)
(* automatic conversation still runs in it, or its deletion was not saved before the page was closed. *)
THEOREM RoomsStayDeleted ==
  ASSUME DmAssumption
  PROVE  Dm!Spec => []Dm!SavedIsLoaded /\ Dm!DeletedStays
<1>1. Dm!Init => DmInv
  <2> SUFFICES ASSUME Dm!Init PROVE DmInv
    OBVIOUS
  <2>1. stored = [rows |-> Dm!Empty, deleted |-> {}] /\ pendingDm = None
    BY DEF Dm!Init
  <2>2. DOMAIN stored.rows = {}
    BY <2>1 DEF Dm!Empty
  <2> QED
    BY <2>1, <2>2 DEF DmInv, StoredShown
<1>2. DmInv /\ [Dm!Next]_Dm!dmVars => DmInv' /\ [Dm!DeletedStaysStep]_Dm!dmVars
  <2>1. ASSUME DmInv, Dm!Next PROVE DmInv' /\ Dm!DeletedStaysStep
    BY <2>1, EnterKeeps, TalkKeeps, AutoTalkKeeps, DeleteKeeps, SaveKeeps, ReloadKeeps DEF Dm!Next
  <2>2. ASSUME DmInv, UNCHANGED Dm!dmVars PROVE DmInv'
    BY <2>2 DEF Dm!dmVars, DmInv, StoredShown
  <2> QED
    BY <2>1, <2>2
<1>3. DmInv => Dm!SavedIsLoaded
  BY SavedRowsLoaded
<1> QED
  BY <1>1, <1>2, <1>3, PTL DEF Dm!Spec, Dm!DeletedStays

-----------------------------------------------------------------------------
TurnAssumption == None \notin Dm!Rooms \cup Dm!DmPeer /\ Turns \in Nat /\ MaxLoops \in Nat

(* The fold over a room's messages goes through what it has kept so far. *)
Keeping(kept, ms, n) == kept = [i \in 0..n |-> IF i = 0 THEN <<>> ELSE Dm!AfterTurn(kept[i - 1], ms[i])]

LEMMA KeepingExists == ASSUME NEW ms, NEW n \in Nat PROVE \E kept : Keeping(kept, ms, n)
<1> DEFINE Bad == {m \in Nat : ~ \E kept : Keeping(kept, ms, m)}
<1> SUFFICES ASSUME Bad # {} PROVE FALSE
  OBVIOUS
<1>1. PICK m \in Bad : \A k \in Bad : ~ (k < m)
  <2>1. Bad \subseteq Nat
    OBVIOUS
  <2> HIDE DEF Bad
  <2> QED BY <2>1, Least
<1>2. CASE m = 0
  <2> DEFINE z == [i \in 0..0 |-> <<>>]
  <2>1. z = [i \in 0..0 |-> IF i = 0 THEN <<>> ELSE Dm!AfterTurn(z[i - 1], ms[i])]
    OBVIOUS
  <2> HIDE DEF z
  <2> QED BY <2>1, <1>1, <1>2 DEF Keeping
<1>3. CASE m # 0
  <2>1. m - 1 \in Nat /\ m - 1 \notin Bad
    BY <1>1, <1>3
  <2>2. PICK s : Keeping(s, ms, m - 1)
    BY <2>1
  <2> DEFINE g == [i \in 0..m |-> IF i = m THEN Dm!AfterTurn(s[m - 1], ms[m]) ELSE s[i]]
  <2>3. \A i \in 0..(m - 1) : s[i] = IF i = 0 THEN <<>> ELSE Dm!AfterTurn(s[i - 1], ms[i])
    BY <2>2 DEF Keeping
  <2>4. ASSUME NEW i \in 0..m PROVE g[i] = IF i = 0 THEN <<>> ELSE Dm!AfterTurn(g[i - 1], ms[i])
    <3>1. CASE i = m
      <4>1. g[i] = Dm!AfterTurn(s[m - 1], ms[m]) /\ g[i - 1] = s[m - 1]
        BY <1>1, <1>3, <3>1
      <4> QED BY <4>1, <3>1, <1>3
    <3>2. CASE i # m
      <4>1. i \in 0..(m - 1) /\ (i # 0 => i - 1 \in 0..(m - 1))
        BY <1>1, <3>2
      <4>2. g[i] = s[i] /\ (i # 0 => g[i - 1] = s[i - 1])
        BY <1>1, <3>2, <4>1
      <4> QED BY <4>1, <4>2, <2>3
    <3> QED BY <3>1, <3>2
  <2>5. Keeping(g, ms, m)
    BY <2>4 DEF Keeping
  <2> QED BY <2>5, <1>1
<1> QED BY <1>2, <1>3

LEMMA KeptUnfolds ==
  ASSUME NEW S, NEW ms \in Seq(S)
  PROVE  \E kept : /\ kept[0] = <<>> /\ \A i \in 1..Len(ms) : kept[i] = Dm!AfterTurn(kept[i - 1], ms[i])
                   /\ Dm!messagesWithoutFailedTurns(ms) = kept[Len(ms)]
<1> DEFINE u == CHOOSE kept : kept = [i \in 0..Len(ms) |-> IF i = 0 THEN <<>> ELSE Dm!AfterTurn(kept[i - 1], ms[i])]
<1>1. Len(ms) \in Nat
  BY LenProperties
<1>2. PICK s : s = [i \in 0..Len(ms) |-> IF i = 0 THEN <<>> ELSE Dm!AfterTurn(s[i - 1], ms[i])]
  BY <1>1, KeepingExists DEF Keeping
<1>3. u = [i \in 0..Len(ms) |-> IF i = 0 THEN <<>> ELSE Dm!AfterTurn(u[i - 1], ms[i])]
  BY <1>2
<1>4. Dm!messagesWithoutFailedTurns(ms) = u[Len(ms)]
  BY DEF Dm!messagesWithoutFailedTurns
<1> HIDE DEF u
<1>5. u[0] = <<>> /\ \A i \in 1..Len(ms) : u[i] = Dm!AfterTurn(u[i - 1], ms[i])
  BY <1>1, <1>3
<1> QED
  BY <1>4, <1>5

(* A room whose replies stand after what they answer keeps that when its failed turns go. *)
Follows(ms) ==
  /\ ms \in Seq(Dm!DmMessage)
  /\ \A i \in 1..Len(ms) : ms[i].from = "peer" => i > 1 /\ ms[i - 1] = Dm!Message("me", ms[i].number)
LastIs(ms, m) == ms # <<>> /\ ms[Len(ms)] = m

LEMMA AppendFollows ==
  ASSUME NEW ms, Follows(ms), NEW m \in Dm!DmMessage,
         m.from = "peer" => LastIs(ms, Dm!Message("me", m.number))
  PROVE  Follows(Append(ms, m)) /\ LastIs(Append(ms, m), m)
<1> DEFINE L == Len(ms)
           b == Append(ms, m)
<1>1. L \in Nat /\ (ms # <<>> => L > 0)
  BY LenProperties, EmptySeq DEF Follows
<1>2. /\ b \in Seq(Dm!DmMessage) /\ b # <<>> /\ Len(b) = L + 1
      /\ \A i \in 1..L : b[i] = ms[i]
      /\ b[L + 1] = m
  BY AppendProperties DEF Follows
<1> HIDE DEF b
<1>3. ASSUME NEW i \in 1..(L + 1), b[i].from = "peer" PROVE i > 1 /\ b[i - 1] = Dm!Message("me", b[i].number)
  <2>1. CASE i = L + 1
    <3>1. ms # <<>> /\ ms[L] = Dm!Message("me", m.number) /\ b[i] = m
      BY <1>2, <1>3, <2>1 DEF LastIs
    <3>2. L \in 1..L /\ i - 1 = L
      BY <1>1, <2>1, <3>1
    <3> QED
      BY <1>2, <2>1, <3>1, <3>2
  <2>2. CASE i # L + 1
    <3>1. i \in 1..L
      BY <1>1, <2>2
    <3>2. i > 1 /\ ms[i - 1] = Dm!Message("me", ms[i].number)
      BY <1>2, <1>3, <3>1 DEF Follows
    <3>3. i - 1 \in 1..L
      BY <3>1, <3>2
    <3> QED
      BY <1>2, <3>1, <3>2, <3>3
  <2> QED
    BY <2>1, <2>2
<1>4. Follows(b) /\ LastIs(b, m)
  BY <1>2, <1>3 DEF Follows, LastIs
<1> QED
  BY <1>4 DEF b

LEMMA FrontFollows ==
  ASSUME NEW ms, Follows(ms), NEW n \in Int, n <= Len(ms)
  PROVE  Follows(SubSeq(ms, 1, n))
<1> DEFINE b == SubSeq(ms, 1, n)
<1>1. Len(ms) \in Nat /\ \A i \in 1..Len(ms) : ms[i] \in Dm!DmMessage
  BY LenProperties DEF Follows
<1>2. \A i \in 1..n : ms[i] \in Dm!DmMessage
  BY <1>1
<1>3. /\ b \in Seq(Dm!DmMessage) /\ Len(b) = (IF 1 <= n THEN n - 1 + 1 ELSE 0)
      /\ \A i \in 1..(n - 1 + 1) : b[i] = ms[1 + i - 1]
  BY <1>2, SubSeqProperties
<1> HIDE DEF b
<1>4. \A i \in 1..Len(b) : i \in 1..n /\ i \in 1..Len(ms) /\ b[i] = ms[i]
  BY <1>1, <1>3
<1>5. \A i \in 1..Len(b) : i > 1 => i - 1 \in 1..Len(b)
  BY <1>3
<1>6. Follows(b)
  BY <1>3, <1>4, <1>5 DEF Follows
<1> QED
  BY <1>6 DEF b

LEMMA WithoutFailedFollows ==
  ASSUME NEW ms, Follows(ms)
  PROVE  Follows(Dm!messagesWithoutFailedTurns(ms))
<1>1. Len(ms) \in Nat /\ \A i \in 1..Len(ms) : ms[i] \in Dm!DmMessage
  BY LenProperties DEF Follows
<1>2. PICK kept : /\ kept[0] = <<>> /\ \A i \in 1..Len(ms) : kept[i] = Dm!AfterTurn(kept[i - 1], ms[i])
                  /\ Dm!messagesWithoutFailedTurns(ms) = kept[Len(ms)]
  BY KeptUnfolds DEF Follows
<1> DEFINE Good(i) == Follows(kept[i]) /\ (i > 0 /\ ~ ms[i].failed => LastIs(kept[i], ms[i]))
           Bad == {i \in 0..Len(ms) : ~ Good(i)}
<1> SUFFICES ASSUME Bad # {} PROVE FALSE
  <2>1. Len(ms) \in 0..Len(ms)
    BY <1>1
  <2> QED BY <1>2, <2>1
<1>3. PICK i \in Bad : \A k \in Bad : ~ (k < i)
  <2>1. Bad \subseteq Nat
    OBVIOUS
  <2> HIDE DEF Bad
  <2> QED BY <2>1, Least
<1>4. i # 0
  <2>1. <<>> \in Seq(Dm!DmMessage) /\ Len(<<>>) = 0
    BY EmptySeq
  <2>2. Follows(<<>>)
    BY <2>1 DEF Follows
  <2> QED BY <2>2, <1>2, <1>3
<1>5. i \in 1..Len(ms) /\ i - 1 \in 0..Len(ms) /\ i - 1 \notin Bad /\ i \in Int /\ ~ Good(i)
  BY <1>1, <1>3, <1>4
<1>6. kept[i] = Dm!AfterTurn(kept[i - 1], ms[i]) /\ Good(i - 1) /\ ms[i] \in Dm!DmMessage
  BY <1>1, <1>2, <1>5
<1>7. Len(kept[i - 1]) \in Nat
  BY <1>6, LenProperties DEF Follows
<1>8. CASE ms[i].failed
  <2>1. Follows(SubSeq(kept[i - 1], 1, Len(kept[i - 1]) - 1))
    BY <1>6, <1>7, FrontFollows
  <2> QED
    BY <1>5, <1>6, <1>8, <2>1 DEF Dm!AfterTurn
<1>9. CASE ~ ms[i].failed
  <2>1. ms[i].from = "peer" => LastIs(kept[i - 1], Dm!Message("me", ms[i].number))
    <3> SUFFICES ASSUME ms[i].from = "peer" PROVE LastIs(kept[i - 1], Dm!Message("me", ms[i].number))
      OBVIOUS
    <3>1. i > 1 /\ ms[i - 1] = Dm!Message("me", ms[i].number)
      BY <1>5 DEF Follows
    <3>2. ~ ms[i - 1].failed /\ i - 1 > 0
      BY <3>1, <1>5 DEF Dm!Message
    <3> QED BY <1>6, <3>1, <3>2
  <2>2. Follows(Append(kept[i - 1], ms[i])) /\ LastIs(Append(kept[i - 1], ms[i]), ms[i])
    BY <1>6, <2>1, AppendFollows
  <2> QED
    BY <1>5, <1>6, <1>9, <2>2 DEF Dm!AfterTurn
<1> QED
  BY <1>8, <1>9

(* A request that is still heard is the last one, its room is on the screen or may be again, no     *)
(* conversation is on, and its message is the last of its room.                                     *)
Heard(r) == r.seq = dmRequestSeq
DmTyped ==
  /\ Dm!TypeOK
  /\ \E rows1, deleted1 : stored = [rows |-> rows1, deleted |-> deleted1]
  /\ peer # None /\ ~ peer.asOwner => peer.name \in Names
RoomsFollow ==
  /\ \A k \in DOMAIN dmThreads : Follows(dmThreads[k])
  /\ \A k \in DOMAIN stored.rows : Follows(stored.rows[k])
Waits ==
  /\ \A r, q \in requests : r.seq <= dmRequestSeq /\ (r.seq = q.seq => r = q)
  /\ \A r \in requests : Heard(r) =>
       /\ step = "dm" /\ dmSending /\ ~ autoChat
       /\ r.key \in DOMAIN dmThreads /\ LastIs(dmThreads[r.key], Dm!Message("me", r.seq))
TurnInv == DmTyped /\ RoomsFollow /\ Waits

LEMMA MessageTyped ==
  ASSUME NEW n \in Nat, NEW f \in {"me", "peer", "auto"}
  PROVE  Dm!Message(f, n) \in Dm!DmMessage /\ Dm!Message(f, n).from = f /\ Dm!Message(f, n).number = n
         /\ ~ Dm!Message(f, n).failed
BY DEF Dm!Message, Dm!DmMessage

LEMMA MessagesFollow == ASSUME RoomsFollow, NEW k PROVE Follows(Dm!Messages(k))
<1>1. <<>> \in Seq(Dm!DmMessage) /\ Len(<<>>) = 0
  BY EmptySeq
<1>2. Follows(<<>>)
  BY <1>1 DEF Follows
<1> QED
  BY <1>2 DEF Dm!Messages, RoomsFollow

LEMMA KeyTyped == ASSUME DmTyped, peer # None PROVE Dm!dmKey \in Dm!Rooms
<1>1. peer \in Dm!DmPeer /\ speakAs \in Dm!Speakers /\ (~ peer.asOwner => peer.name \in Names)
  BY DEF DmTyped, Dm!TypeOK
<1>2. peer.asOwner \in BOOLEAN /\ peer.dmKey \in Dm!Rooms \cup {None}
  BY <1>1 DEF Dm!DmPeer
<1>3. ASSUME ~ peer.asOwner PROVE Dm!SharedRoom(speakAs, peer.name) \in Dm!Rooms
  BY <1>1, <1>3 DEF Dm!Rooms
<1>4. Dm!OwnerRoom \in Dm!Rooms
  BY DEF Dm!Rooms
<1> QED
  BY <1>1, <1>2, <1>3, <1>4 DEF Dm!dmKey, Dm!dmKeyFor

LEMMA RoomWritten ==
  ASSUME DmTyped, RoomsFollow, NEW k \in Dm!Rooms, NEW ms, Follows(ms), dmThreads' = Dm!WithMessages(k, ms)
  PROVE  /\ DOMAIN dmThreads' = DOMAIN dmThreads \cup {k} /\ DOMAIN dmThreads' \subseteq Dm!Rooms
         /\ dmThreads'[k] = ms /\ \A j \in DOMAIN dmThreads \ {k} : dmThreads'[j] = dmThreads[j]
         /\ \A j \in DOMAIN dmThreads' : Follows(dmThreads'[j]) /\ dmThreads'[j] \in Seq(Dm!DmMessage)
<1>1. /\ DOMAIN dmThreads' = DOMAIN dmThreads \cup {k} /\ dmThreads'[k] = ms
      /\ \A j \in DOMAIN dmThreads \ {k} : dmThreads'[j] = dmThreads[j]
  BY DEF Dm!WithMessages
<1>2. \A j \in DOMAIN dmThreads' : Follows(dmThreads'[j])
  BY <1>1 DEF RoomsFollow
<1> QED
  BY <1>1, <1>2 DEF DmTyped, Dm!TypeOK, Follows

LEMMA PeersTyped ==
  ASSUME TurnAssumption, NEW n \in Names, NEW k \in Dm!Rooms \cup {None}
  PROVE  /\ Dm!PeerOf(n, k) \in Dm!DmPeer /\ Dm!PeerOf(n, k) # None /\ Dm!PeerOf(n, k).name = n
         /\ Dm!OwnerPeer \in Dm!DmPeer /\ Dm!OwnerPeer # None /\ Dm!OwnerPeer.asOwner = TRUE
<1>1. Dm!PeerOf(n, k) \in Dm!DmPeer /\ Dm!PeerOf(n, k).name = n
  BY DEF Dm!DmPeer, Dm!PeerOf
<1>2. Dm!OwnerPeer \in Dm!DmPeer /\ Dm!OwnerPeer.asOwner = TRUE
  BY DEF Dm!DmPeer, Dm!OwnerPeer
<1> QED
  BY <1>1, <1>2 DEF TurnAssumption

LEMMA EnterTurns == ASSUME TurnAssumption, TurnInv, Dm!Enter PROVE TurnInv'
<1> USE DEF Dm!roomVars, Dm!replyVars, Dm!loopVars
<1>1. /\ step \in {"dm", "dmlist"} /\ (pendingDm # None => step = "dmlist") /\ pendingDm \in Dm!PendingDm \cup {None}
      /\ speakAs \in Dm!Speakers /\ peer \in Dm!DmPeer \cup {None} /\ deletedDmKeys \subseteq Dm!Rooms
      /\ (peer # None /\ ~ peer.asOwner => peer.name \in Names)
      /\ "char" \in Dm!Speakers /\ "owner" \in Dm!Speakers
  BY DEF TurnInv, DmTyped, Dm!TypeOK, Dm!Speakers
<1>2. /\ step = "dmlist" /\ UNCHANGED <<stored, dmSending, dmRequestSeq, requests, autoChat, loops, started>>
  BY <1>1 DEF Dm!Enter, Dm!OpenRoom, Dm!requestDmEntry, Dm!chooseDmWorldMode, Dm!finishDmWorldSetup,
              Dm!cancelSetup, Dm!finishDmChatKind
<1>3. \A r \in requests : ~ Heard(r)
  BY <1>2 DEF TurnInv, Waits
<1>4. Waits'
  BY <1>2, <1>3 DEF TurnInv, Waits, Heard
<1>5. ASSUME NEW k \in Dm!Rooms, Dm!OpenRoom(k) PROVE DmTyped' /\ RoomsFollow'
  <2>1. UNCHANGED <<dmThreads, deletedDmKeys>> /\ pendingDm' = None /\ step' = "dm"
    BY <1>5 DEF Dm!OpenRoom, Dm!enterDm
  <2>2. CASE k = Dm!OwnerRoom
    <3>1. peer' = Dm!OwnerPeer /\ speakAs' = "owner"
      BY <1>5, <2>2 DEF Dm!OpenRoom, Dm!enterDm
    <3>2. Dm!OwnerPeer \in Dm!DmPeer /\ Dm!OwnerPeer.asOwner
      BY DEF Dm!DmPeer, Dm!OwnerPeer
    <3>3. Dm!OwnerPeer # None
      BY <3>2 DEF TurnAssumption
    <3> QED
      BY <1>1, <1>2, <2>1, <3>1, <3>2, <3>3 DEF TurnInv, DmTyped, RoomsFollow, Dm!TypeOK
  <2>3. CASE k # Dm!OwnerRoom
    <3>1. peer' = Dm!PeerOf(k[3], k) /\ speakAs' = "char"
      BY <1>5, <2>3 DEF Dm!OpenRoom, Dm!enterDm
    <3>2. k[3] \in Names
      BY <2>3 DEF Dm!Rooms, Dm!SharedRoom, Dm!LocalRoom
    <3>3. peer' \in Dm!DmPeer /\ peer' # None /\ peer'.name \in Names
      BY <3>1, <3>2, PeersTyped
    <3> QED
      BY <1>1, <1>2, <2>1, <3>1, <3>3 DEF TurnInv, DmTyped, RoomsFollow, Dm!TypeOK
  <2> QED
    BY <2>2, <2>3
<1>6. ASSUME \/ \E n \in Names : Dm!requestDmEntry(n)
             \/ \E b \in BOOLEAN : Dm!chooseDmWorldMode(b)
             \/ Dm!finishDmWorldSetup \/ Dm!cancelSetup
      PROVE  DmTyped' /\ RoomsFollow'
  <2>1. UNCHANGED <<step, peer, speakAs, dmThreads, deletedDmKeys>>
    BY <1>6 DEF Dm!requestDmEntry, Dm!chooseDmWorldMode, Dm!finishDmWorldSetup, Dm!cancelSetup
  <2>2. pendingDm' \in Dm!PendingDm \cup {None}
    BY <1>1, <1>6 DEF Dm!requestDmEntry, Dm!chooseDmWorldMode, Dm!finishDmWorldSetup, Dm!cancelSetup, Dm!PendingDm
  <2> QED
    BY <1>1, <1>2, <2>1, <2>2 DEF TurnInv, DmTyped, RoomsFollow, Dm!TypeOK
<1>7. CASE Dm!finishDmChatKind
  <2>1. pendingDm # None /\ pendingDm.name \in Names
    BY <1>1, <1>7 DEF Dm!finishDmChatKind, Dm!PendingDm
  <2>2. PICK k : /\ k \in {Dm!SharedRoom("char", pendingDm.name)}
                          \cup {Dm!LocalRoom("char", pendingDm.name, i) : i \in RoomIds}
                 /\ dmThreads' = Dm!WithMessages(k, Dm!Messages(k)) /\ deletedDmKeys' = deletedDmKeys \ {k}
                 /\ Dm!enterDm(Dm!PeerOf(pendingDm.name, IF Dm!IsShared(k) THEN None ELSE k), "char")
    BY <1>7 DEF Dm!finishDmChatKind, Dm!nextDeletedKeys
  <2>3. k \in Dm!Rooms
    BY <1>1, <2>1, <2>2 DEF Dm!Rooms
  <2>4. DOMAIN dmThreads' \subseteq Dm!Rooms
        /\ \A j \in DOMAIN dmThreads' : Follows(dmThreads'[j]) /\ dmThreads'[j] \in Seq(Dm!DmMessage)
    BY <2>2, <2>3, RoomWritten, MessagesFollow DEF TurnInv
  <2>5. RoomsFollow'
    BY <1>2, <2>4 DEF RoomsFollow, TurnInv
  <2>6. /\ step' = "dm" /\ speakAs' = "char" /\ pendingDm' = None
        /\ peer' \in Dm!DmPeer /\ peer' # None /\ peer'.name \in Names
    BY <2>1, <2>2, <2>3, PeersTyped DEF Dm!enterDm
  <2>7. DmTyped'
    BY <1>1, <1>2, <2>2, <2>4, <2>6 DEF TurnInv, DmTyped, Dm!TypeOK
  <2> QED
    BY <1>4, <2>5, <2>7 DEF TurnInv
<1> QED
  BY <1>4, <1>5, <1>6, <1>7 DEF Dm!Enter, TurnInv

(* The reply stands after its message: nothing else is written to the room while it is awaited. *)
LEMMA SentTurns == ASSUME TurnAssumption, TurnInv, Dm!sendDM PROVE TurnInv'
<1> DEFINE n == dmRequestSeq + 1
           k == Dm!dmKey
           m == Dm!Message("me", n)
           old == Dm!messagesWithoutFailedTurns(Dm!Messages(k))
           ms == Append(old, m)
<1>1. /\ step = "dm" /\ dmRequestSeq' = n /\ dmSending' = TRUE /\ autoChat' = FALSE
      /\ dmThreads' = Dm!WithMessages(k, ms) /\ requests' = requests \cup {[seq |-> n, key |-> k]}
      /\ UNCHANGED <<step, peer, speakAs, pendingDm, deletedDmKeys, stored, loops, started>>
  BY DEF Dm!sendDM, Dm!StopAuto
<1>2. dmRequestSeq \in Nat /\ requests \subseteq Dm!Request /\ peer # None
  BY <1>1 DEF TurnInv, DmTyped, Dm!TypeOK
<1>3. k \in Dm!Rooms
  BY <1>2, KeyTyped DEF TurnInv
<1>4. m \in Dm!DmMessage /\ m.from = "me" /\ n \in Nat
  BY <1>2, MessageTyped
<1>5. Follows(old)
  BY MessagesFollow, WithoutFailedFollows DEF TurnInv
<1> HIDE DEF k, m, old
<1>6. Follows(ms) /\ LastIs(ms, m)
  BY <1>4, <1>5, AppendFollows
<1> HIDE DEF ms
<1>7. /\ DOMAIN dmThreads' = DOMAIN dmThreads \cup {k} /\ DOMAIN dmThreads' \subseteq Dm!Rooms /\ dmThreads'[k] = ms
      /\ \A j \in DOMAIN dmThreads' : Follows(dmThreads'[j]) /\ dmThreads'[j] \in Seq(Dm!DmMessage)
  BY <1>1, <1>3, <1>6, RoomWritten DEF TurnInv
<1>8. [seq |-> n, key |-> k] \in Dm!Request
  BY <1>2, <1>3 DEF Dm!Request
<1>9. DmTyped'
  <2>1. requests' \subseteq Dm!Request /\ n \in Nat
    BY <1>1, <1>2, <1>8
  <2> HIDE DEF n
  <2> QED
    BY <1>1, <1>7, <2>1 DEF TurnInv, DmTyped, Dm!TypeOK
<1>10. RoomsFollow'
  BY <1>1, <1>7 DEF TurnInv, RoomsFollow
<1>11. Waits'
  <2>1. \A r \in requests : r.seq \in Nat /\ r.seq < n
    BY <1>2 DEF TurnInv, Waits, Dm!Request
  <2>2. \A r \in requests' : r \in requests \/ r = [seq |-> n, key |-> k]
    BY <1>1
  <2>3. \A r, q \in requests' : r.seq <= dmRequestSeq' /\ (r.seq = q.seq => r = q)
    BY <1>1, <1>2, <2>1, <2>2 DEF TurnInv, Waits
  <2>4. ASSUME NEW r \in requests', Heard(r)'
        PROVE  step' = "dm" /\ dmSending' /\ ~ autoChat' /\ r.key \in DOMAIN dmThreads'
               /\ LastIs(dmThreads'[r.key], Dm!Message("me", r.seq))
    <3>1. r = [seq |-> n, key |-> k]
      BY <1>1, <2>1, <2>2, <2>4 DEF Heard
    <3> QED
      BY <1>1, <1>6, <1>7, <3>1 DEF m
  <2> QED
    BY <2>3, <2>4 DEF Waits
<1> QED
  BY <1>9, <1>10, <1>11 DEF TurnInv

LEMMA AnswerTurns == ASSUME TurnAssumption, TurnInv, NEW r \in requests, Dm!Answer(r) PROVE TurnInv'
<1>1. /\ requests' = requests \ {r}
      /\ UNCHANGED <<step, peer, speakAs, pendingDm, deletedDmKeys, stored, dmRequestSeq, autoChat, loops, started>>
  BY DEF Dm!Answer, Dm!loopVars
<1>2. requests \subseteq Dm!Request /\ dmRequestSeq \in Nat
  BY DEF TurnInv, DmTyped, Dm!TypeOK
<1>3. CASE ~ Dm!IsCurrent(r)
  <2>1. UNCHANGED <<dmThreads, dmSending>>
    BY <1>3 DEF Dm!Answer
  <2>2. DmTyped' /\ RoomsFollow'
    BY <1>1, <2>1 DEF TurnInv, DmTyped, Dm!TypeOK, RoomsFollow
  <2> QED
    BY <1>1, <2>1, <2>2 DEF TurnInv, Waits, Heard
<1>4. CASE Dm!IsCurrent(r)
  <2> PICK failed \in BOOLEAN :
        /\ dmThreads' = Dm!WithMessages(r.key, Append(Dm!Messages(r.key), [Dm!Message("peer", r.seq) EXCEPT !.failed = failed]))
        /\ dmSending' = Dm!Sending(failed)
    BY <1>4 DEF Dm!Answer
  <2> DEFINE m == [Dm!Message("peer", r.seq) EXCEPT !.failed = failed]
             ms == Append(Dm!Messages(r.key), m)
  <2>1. r.seq \in Nat /\ r.key \in Dm!Rooms /\ Heard(r)
    BY <1>2, <1>4 DEF Dm!Request, Dm!IsCurrent, Heard
  <2>2. m \in Dm!DmMessage /\ m.from = "peer" /\ m.number = r.seq
    BY <2>1 DEF Dm!Message, Dm!DmMessage
  <2>3. Follows(Dm!Messages(r.key)) /\ LastIs(Dm!Messages(r.key), Dm!Message("me", m.number))
    BY <2>1, <2>2, MessagesFollow DEF TurnInv, Waits, Dm!Messages
  <2> HIDE DEF m
  <2>4. Follows(ms)
    BY <2>2, <2>3, AppendFollows
  <2>5. dmThreads' = Dm!WithMessages(r.key, ms) /\ dmSending' = FALSE
    BY DEF m, Dm!Sending
  <2> HIDE DEF ms
  <2>6. /\ DOMAIN dmThreads' \subseteq Dm!Rooms
        /\ \A j \in DOMAIN dmThreads' : Follows(dmThreads'[j]) /\ dmThreads'[j] \in Seq(Dm!DmMessage)
    BY <2>1, <2>4, <2>5, RoomWritten DEF TurnInv
  <2>7. DmTyped' /\ RoomsFollow'
    BY <1>1, <2>5, <2>6 DEF TurnInv, DmTyped, Dm!TypeOK, RoomsFollow
  <2>8. \A q \in requests' : ~ Heard(q)'
    BY <1>1, <2>1 DEF TurnInv, Waits, Heard
  <2> QED
    BY <1>1, <2>7, <2>8 DEF TurnInv, Waits
<1> QED
  BY <1>3, <1>4

(* Leaving counts the number up when a request has it. *)
LEMMA LeaveTurns == ASSUME TurnAssumption, TurnInv, Dm!Leave PROVE TurnInv'
<1> DEFINE last == {r \in requests : r.seq = dmRequestSeq}
<1>1. /\ step' = "dmlist" /\ dmSending' = FALSE /\ dmRequestSeq' = dmRequestSeq + Cardinality(last)
      /\ UNCHANGED <<peer, speakAs, pendingDm, requests, dmThreads, deletedDmKeys, stored, autoChat, loops, started>>
      /\ step = "dm"
  BY DEF Dm!Leave, Dm!LetGo, Dm!roomVars, Dm!loopVars, Dm!Cardinality, Cardinality
<1>2. requests \subseteq Dm!Request /\ dmRequestSeq \in Nat /\ pendingDm = None
  BY <1>1 DEF TurnInv, DmTyped, Dm!TypeOK
<1>3. \A r \in requests : r.seq \in Nat /\ r.seq <= dmRequestSeq
  BY <1>2 DEF TurnInv, Waits, Dm!Request
<1>4. dmRequestSeq' \in Nat /\ dmRequestSeq' >= dmRequestSeq /\ \A r \in requests : r.seq < dmRequestSeq'
  <2>1. CASE last = {}
    <3>1. Cardinality(last) = 0
      BY <2>1, FS_EmptySet
    <3>2. \A r \in requests : r.seq # dmRequestSeq
      BY <2>1
    <3> HIDE DEF last
    <3> QED BY <1>1, <1>2, <1>3, <3>1, <3>2
  <2>2. ASSUME NEW r \in last PROVE dmRequestSeq' = dmRequestSeq + 1
    <3>1. last = {r}
      BY DEF TurnInv, Waits
    <3>2. Cardinality(last) = 1
      BY <3>1, FS_Singleton
    <3> HIDE DEF last
    <3> QED BY <1>1, <3>2
  <2> QED
    BY <1>2, <1>3, <2>1, <2>2
<1>5. DmTyped' /\ RoomsFollow'
  BY <1>1, <1>2, <1>4 DEF TurnInv, DmTyped, Dm!TypeOK, RoomsFollow
<1>6. Waits'
  <2>1. \A r \in requests' : r \in requests /\ r.seq <= dmRequestSeq' /\ ~ (r.seq = dmRequestSeq')
    BY <1>1, <1>2, <1>3, <1>4
  <2> QED
    BY <2>1 DEF TurnInv, Waits, Heard
<1> QED
  BY <1>5, <1>6 DEF TurnInv

LEMMA RestoredFollows ==
  ASSUME NEW ms, Follows(ms), NEW i \in 2..Len(ms), ms[i].failed
  PROVE  LET b == SubSeq(ms, 1, i - 2) \o SubSeq(ms, i + 1, Len(ms))
         IN  Follows(b) /\ \A m : LastIs(ms, m) /\ ~ m.failed => LastIs(b, m)
<1> DEFINE S == Dm!DmMessage
           x == SubSeq(ms, 1, i - 2)
           y == SubSeq(ms, i + 1, Len(ms))
           b == x \o y
<1>1. PICK L \in Nat : Len(ms) = L /\ ms \in Seq(S) /\ (\A j \in 1..L : ms[j] \in S) /\ i \in 2..L
  BY LenProperties DEF Follows
<1>2. x \in Seq(S) /\ Len(x) = i - 2 /\ \A j \in 1..(i - 2) : x[j] = ms[j]
  <2>1. \A j \in 1..(i - 2) : ms[j] \in S
    BY <1>1
  <2>2. /\ x \in Seq(S) /\ Len(x) = (IF 1 <= i - 2 THEN (i - 2) - 1 + 1 ELSE 0)
        /\ \A j \in 1..((i - 2) - 1 + 1) : x[j] = ms[1 + j - 1]
    BY <2>1, SubSeqProperties
  <2> HIDE DEF x
  <2> QED
    BY <2>2
<1>3. y \in Seq(S) /\ Len(y) = L - i /\ \A j \in 1..(L - i) : y[j] = ms[i + j]
  <2>1. \A j \in (i + 1)..L : ms[j] \in S
    BY <1>1
  <2>2. /\ y \in Seq(S) /\ Len(y) = (IF i + 1 <= L THEN L - (i + 1) + 1 ELSE 0)
        /\ \A j \in 1..(L - (i + 1) + 1) : y[j] = ms[(i + 1) + j - 1]
    BY <1>1, <2>1, SubSeqProperties
  <2> HIDE DEF y
  <2>3. \A j \in 1..(L - i) : (i + 1) + j - 1 = i + j
    BY <1>1
  <2> QED
    BY <1>1, <2>2, <2>3
<1> HIDE DEF x, y
<1>4. /\ b \in Seq(S) /\ Len(b) = Len(x) + Len(y)
      /\ \A j \in 1..(Len(x) + Len(y)) : b[j] = IF j <= Len(x) THEN x[j] ELSE y[j - Len(x)]
  BY <1>2, <1>3, ConcatProperties
<1> HIDE DEF b
<1>5. Len(b) = L - 2 /\ \A j \in 1..(L - 2) : b[j] = IF j <= i - 2 THEN ms[j] ELSE ms[j + 2]
  <2>1. Len(x) + Len(y) = L - 2
    BY <1>1, <1>2, <1>3
  <2>2. ASSUME NEW j \in 1..(L - 2) PROVE b[j] = IF j <= i - 2 THEN ms[j] ELSE ms[j + 2]
    <3>1. CASE j <= i - 2
      BY <1>2, <1>4, <2>1, <3>1
    <3>2. CASE ~ (j <= i - 2)
      <4>1. b[j] = y[j - (i - 2)]
        BY <1>2, <1>4, <2>1, <3>2
      <4>2. j - (i - 2) \in 1..(L - i) /\ i + (j - (i - 2)) = j + 2
        BY <1>1, <3>2
      <4> QED
        BY <1>3, <3>2, <4>1, <4>2
    <3> QED
      BY <3>1, <3>2
  <2> QED
    BY <1>4, <2>1, <2>2
<1>6. ASSUME NEW j \in 1..(L - 2), b[j].from = "peer" PROVE j > 1 /\ b[j - 1] = Dm!Message("me", b[j].number)
  <2>1. \A k \in 1..L : ms[k].from = "peer" => k > 1 /\ ms[k - 1] = Dm!Message("me", ms[k].number)
    BY <1>1 DEF Follows
  <2>2. CASE j <= i - 2
    <3>1. j \in 1..L /\ b[j] = ms[j]
      BY <1>1, <1>5, <2>2
    <3>2. j > 1 /\ ms[j - 1] = Dm!Message("me", ms[j].number)
      BY <1>6, <2>1, <3>1
    <3>3. j - 1 \in 1..(L - 2) /\ j - 1 <= i - 2
      BY <1>1, <2>2, <3>2
    <3>4. b[j - 1] = ms[j - 1]
      BY <1>5, <3>3
    <3> QED
      BY <3>1, <3>2, <3>4
  <2>3. CASE j > i - 2
    <3>1. j + 2 \in 1..L /\ b[j] = ms[j + 2]
      BY <1>1, <1>5, <2>3
    <3>2. ms[(j + 2) - 1] = Dm!Message("me", ms[j + 2].number)
      BY <1>6, <2>1, <3>1
    <3>3. ms[j + 1] = Dm!Message("me", ms[j + 2].number)
      <4>1. (j + 2) - 1 = j + 1
        OBVIOUS
      <4> QED BY <3>2, <4>1
    <3>4. ~ ms[j + 1].failed
      BY <3>3 DEF Dm!Message
    <3>5. j + 1 # i
      BY <3>4
    <3>6. j - 1 \in 1..(L - 2) /\ ~ (j - 1 <= i - 2) /\ (j - 1) + 2 = j + 1
      BY <1>1, <2>3, <3>5
    <3>7. b[j - 1] = ms[j + 1]
      BY <1>5, <3>6
    <3> QED
      BY <3>1, <3>3, <3>6, <3>7
  <2> QED
    BY <1>1, <2>2, <2>3
<1>7. Follows(b)
  BY <1>4, <1>5, <1>6 DEF Follows
<1>8. ASSUME NEW m, LastIs(ms, m), ~ m.failed PROVE LastIs(b, m)
  <2>1. ms[L] = m
    BY <1>1, <1>8 DEF LastIs
  <2>2. i < L
    BY <1>1, <1>8, <2>1
  <2>3. L - 2 \in 1..(L - 2) /\ ~ (L - 2 <= i - 2) /\ (L - 2) + 2 = L
    BY <1>1, <2>2
  <2>4. b[L - 2] = ms[L]
    BY <1>5, <2>3
  <2>5. b # <<>>
    BY <1>5, <2>3, EmptySeq
  <2> QED
    BY <1>5, <2>1, <2>4, <2>5 DEF LastIs
<1> QED
  BY <1>7, <1>8 DEF b, x, y

LEMMA RestoreTurns ==
  ASSUME TurnAssumption, TurnInv, NEW i \in DOMAIN Dm!Messages(Dm!dmKey), Dm!restoreFailedDmDraft(i)
  PROVE  TurnInv'
<1> DEFINE k == Dm!dmKey
           old == Dm!Messages(k)
           ms == SubSeq(old, 1, i - 2) \o SubSeq(old, i + 1, Len(old))
<1>1. /\ step = "dm" /\ i > 1 /\ old[i].failed /\ dmThreads' = Dm!WithMessages(k, ms)
      /\ UNCHANGED <<step, peer, speakAs, pendingDm, deletedDmKeys, stored, dmSending, dmRequestSeq, requests,
                     autoChat, loops, started>>
  BY DEF Dm!restoreFailedDmDraft, Dm!replyVars, Dm!loopVars
<1>2. k \in Dm!Rooms
  BY <1>1, KeyTyped DEF TurnInv, DmTyped, Dm!TypeOK
<1>3. Follows(old) /\ (k \in DOMAIN dmThreads => old = dmThreads[k])
  BY MessagesFollow DEF TurnInv, Dm!Messages
<1>4. i \in 2..Len(old)
  BY <1>1, <1>3, LenProperties DEF Follows
<1> HIDE DEF k
<1>5. Follows(ms) /\ \A m : LastIs(old, m) /\ ~ m.failed => LastIs(ms, m)
  <2> HIDE DEF old
  <2> QED BY <1>1, <1>3, <1>4, RestoredFollows
<1> HIDE DEF ms, old
<1>6. /\ DOMAIN dmThreads' = DOMAIN dmThreads \cup {k} /\ DOMAIN dmThreads' \subseteq Dm!Rooms /\ dmThreads'[k] = ms
      /\ \A j \in DOMAIN dmThreads \ {k} : dmThreads'[j] = dmThreads[j]
      /\ \A j \in DOMAIN dmThreads' : Follows(dmThreads'[j]) /\ dmThreads'[j] \in Seq(Dm!DmMessage)
  BY <1>1, <1>2, <1>5, RoomWritten DEF TurnInv
<1>7. DmTyped' /\ RoomsFollow'
  BY <1>1, <1>6 DEF TurnInv, DmTyped, Dm!TypeOK, RoomsFollow
<1>8. ASSUME NEW r \in requests, Heard(r)
      PROVE  r.key \in DOMAIN dmThreads' /\ LastIs(dmThreads'[r.key], Dm!Message("me", r.seq))
  <2>1. r.key \in DOMAIN dmThreads /\ LastIs(dmThreads[r.key], Dm!Message("me", r.seq))
    BY <1>8 DEF TurnInv, Waits
  <2>2. ~ Dm!Message("me", r.seq).failed
    BY DEF Dm!Message
  <2> QED
    BY <1>3, <1>5, <1>6, <2>1, <2>2
<1>9. Waits'
  BY <1>1, <1>8 DEF TurnInv, Waits, Heard
<1> QED
  BY <1>7, <1>9 DEF TurnInv

LEMMA TalkTurns == ASSUME TurnAssumption, TurnInv, Dm!Talk PROVE TurnInv'
<1>1. ASSUME NEW s \in Dm!Speakers, Dm!setSpeakAs(s) PROVE TurnInv'
  BY <1>1 DEF Dm!setSpeakAs, Dm!roomVars, Dm!replyVars, Dm!loopVars, TurnInv, DmTyped, Dm!TypeOK, RoomsFollow, Waits, Heard
<1> QED
  BY <1>1, LeaveTurns, SentTurns, AnswerTurns, RestoreTurns DEF Dm!Talk

(* Conversations write to their rooms only while no reply is awaited. *)
LEMMA AutoTurns == ASSUME TurnAssumption, TurnInv, Dm!AutoTalk PROVE TurnInv'
<1>1. /\ loops \subseteq Dm!Loop /\ started \in 0..MaxLoops /\ (step = "dm" => peer # None)
      /\ \A l \in loops : l \in Dm!Loop /\ l.key \in Dm!Rooms /\ l.number \in 1..MaxLoops /\ l.turn \in 0..Turns
  BY DEF TurnInv, DmTyped, Dm!TypeOK, Dm!Loop
<1>2. CASE Dm!startAutoChat
  <2> DEFINE k == Dm!dmKey
             l == [number |-> started + 1, key |-> k, turn |-> 0, at |-> "line"]
  <2>1. /\ step = "dm" /\ ~ dmSending /\ started < MaxLoops /\ autoChat' = TRUE /\ started' = started + 1
        /\ loops' = loops \cup {l}
        /\ UNCHANGED <<step, peer, speakAs, pendingDm, deletedDmKeys, stored, dmSending, dmRequestSeq, requests>>
        /\ dmThreads' = dmThreads
           \/ dmThreads' = Dm!WithMessages(k, Dm!messagesWithoutFailedTurns(Dm!Messages(k)))
    BY <1>2 DEF Dm!startAutoChat, Dm!replyVars
  <2>2. k \in Dm!Rooms
    BY <1>1, <2>1, KeyTyped DEF TurnInv
  <2>3. Follows(Dm!messagesWithoutFailedTurns(Dm!Messages(k)))
    BY MessagesFollow, WithoutFailedFollows DEF TurnInv
  <2>4. l \in Dm!Loop /\ started' \in 0..MaxLoops
    BY <1>1, <2>1, <2>2 DEF Dm!Loop, TurnAssumption
  <2> HIDE DEF k, l
  <2>5. /\ DOMAIN dmThreads' \subseteq Dm!Rooms
        /\ \A j \in DOMAIN dmThreads' : Follows(dmThreads'[j]) /\ dmThreads'[j] \in Seq(Dm!DmMessage)
    BY <2>1, <2>2, <2>3, RoomWritten DEF TurnInv, DmTyped, Dm!TypeOK, RoomsFollow
  <2>6. DmTyped' /\ RoomsFollow'
    BY <1>1, <2>1, <2>4, <2>5 DEF TurnInv, DmTyped, Dm!TypeOK, RoomsFollow
  <2>7. Waits'
    BY <2>1 DEF TurnInv, Waits, Heard
  <2> QED
    BY <2>6, <2>7 DEF TurnInv
<1>3. CASE Dm!stopAutoChat
  BY <1>3 DEF Dm!stopAutoChat, Dm!roomVars, Dm!replyVars, TurnInv, DmTyped, Dm!TypeOK, RoomsFollow, Waits, Heard
<1>4. ASSUME NEW l \in loops, Dm!AutoLine(l) \/ Dm!AutoPause(l)
      PROVE  /\ UNCHANGED <<step, peer, speakAs, pendingDm, deletedDmKeys, stored, dmSending, dmRequestSeq, requests, started>>
             /\ loops' \subseteq Dm!Loop /\ autoChat' \in BOOLEAN /\ (autoChat' => autoChat)
             /\ dmThreads' # dmThreads =>
                  autoChat /\ dmThreads' = Dm!WithMessages(l.key, Append(Dm!Messages(l.key), Dm!Message("auto", l.number)))
  <2>1. /\ UNCHANGED <<step, peer, speakAs, pendingDm, deletedDmKeys, stored, dmSending, dmRequestSeq, requests, started>>
        /\ dmThreads' # dmThreads =>
             autoChat /\ dmThreads' = Dm!WithMessages(l.key, Append(Dm!Messages(l.key), Dm!Message("auto", l.number)))
    BY <1>4 DEF Dm!AutoLine, Dm!AutoPause, Dm!replyVars, Dm!roomVars
  <2>2. \/ autoChat' = FALSE /\ loops' = loops \ {l}
        \/ autoChat' = autoChat /\ loops' = (loops \ {l}) \cup {[l EXCEPT !.at = "pause"]}
        \/ /\ autoChat' = autoChat /\ l.turn + 1 < Turns
           /\ loops' = (loops \ {l}) \cup {[l EXCEPT !.at = "line", !.turn = @ + 1]}
    BY <1>4 DEF Dm!AutoLine, Dm!AutoPause, Dm!EndLoop, Dm!GoOn
  <2>3. [l EXCEPT !.at = "pause"] \in Dm!Loop
    BY <1>1 DEF Dm!Loop
  <2>4. ASSUME l.turn + 1 < Turns PROVE [l EXCEPT !.at = "line", !.turn = @ + 1] \in Dm!Loop
    <3>1. l.turn + 1 \in 0..Turns /\ "line" \in {"line", "pause"}
      BY <1>1, <2>4 DEF TurnAssumption
    <3> PICK n \in 1..MaxLoops, k \in Dm!Rooms, t \in 0..Turns, a \in {"line", "pause"} :
          l = [number |-> n, key |-> k, turn |-> t, at |-> a]
      BY <1>1 DEF Dm!Loop
    <3> DEFINE m == [l EXCEPT !.at = "line"]
    <3>2. m = [number |-> n, key |-> k, turn |-> t, at |-> "line"]
      OBVIOUS
    <3>3. l.turn = t /\ [l EXCEPT !.at = "line", !.turn = @ + 1] = [m EXCEPT !.turn = @ + 1]
      OBVIOUS
    <3> HIDE DEF m
    <3>4. [m EXCEPT !.turn = @ + 1] = [number |-> n, key |-> k, turn |-> t + 1, at |-> "line"]
      BY <3>2
    <3> QED
      BY <3>1, <3>3, <3>4 DEF Dm!Loop
  <2>5. autoChat \in BOOLEAN
    BY DEF TurnInv, DmTyped, Dm!TypeOK
  <2>6. loops' \subseteq Dm!Loop
    <3>1. loops \ {l} \subseteq Dm!Loop
      BY <1>1
    <3> HIDE DEF Dm!Loop
    <3> QED BY <2>2, <2>3, <2>4, <3>1
  <2>7. autoChat' \in BOOLEAN /\ (autoChat' => autoChat)
    <3>1. autoChat' = FALSE \/ autoChat' = autoChat
      BY <2>2
    <3>2. CASE autoChat' = FALSE
      BY <3>2
    <3>3. CASE autoChat' = autoChat
      BY <2>5, <3>3
    <3> QED BY <3>1, <3>2, <3>3
  <2> QED
    BY <2>1, <2>6, <2>7
<1>5. ASSUME NEW l \in loops, Dm!AutoLine(l) \/ Dm!AutoPause(l) PROVE TurnInv'
  <2> DEFINE m == Dm!Message("auto", l.number)
             ms == Append(Dm!Messages(l.key), m)
  <2>1. m \in Dm!DmMessage /\ m.from = "auto"
    BY <1>1, MessageTyped
  <2>2. Follows(Dm!Messages(l.key))
    BY MessagesFollow DEF TurnInv
  <2> HIDE DEF m
  <2>3. Follows(ms)
    BY <2>1, <2>2, AppendFollows
  <2>4. dmThreads' # dmThreads => autoChat /\ dmThreads' = Dm!WithMessages(l.key, ms)
    BY <1>4, <1>5 DEF m
  <2> HIDE DEF ms
  <2>5. /\ DOMAIN dmThreads' \subseteq Dm!Rooms
        /\ \A j \in DOMAIN dmThreads' : Follows(dmThreads'[j]) /\ dmThreads'[j] \in Seq(Dm!DmMessage)
    BY <1>1, <2>3, <2>4, RoomWritten DEF TurnInv, DmTyped, Dm!TypeOK, RoomsFollow
  <2>6. DmTyped' /\ RoomsFollow'
    BY <1>4, <1>5, <2>5 DEF TurnInv, DmTyped, Dm!TypeOK, RoomsFollow
  <2>7. Waits'
    BY <1>4, <1>5, <2>4 DEF TurnInv, Waits, Heard
  <2> QED
    BY <2>6, <2>7 DEF TurnInv
<1> QED
  BY <1>2, <1>3, <1>5 DEF Dm!AutoTalk

(* A deletion, a save and a reload of the page; none can meet a request that is still heard. *)
LEMMA StoreTurns == ASSUME TurnAssumption, TurnInv, Dm!Delete \/ Dm!Save \/ Dm!Reload PROVE TurnInv'
<1> PICK rows1, deleted1 : stored = [rows |-> rows1, deleted |-> deleted1]
  BY DEF TurnInv, DmTyped
<1>1. /\ DOMAIN rows1 \subseteq Dm!Rooms /\ deleted1 \subseteq Dm!Rooms /\ \A k \in DOMAIN rows1 : Follows(rows1[k])
      /\ stored.rows = rows1 /\ stored.deleted = deleted1
      /\ DOMAIN dmThreads \subseteq Dm!Rooms /\ \A k \in DOMAIN dmThreads : Follows(dmThreads[k])
      /\ deletedDmKeys \subseteq Dm!Rooms
  BY DEF TurnInv, DmTyped, RoomsFollow, Dm!TypeOK
<1>2. ASSUME NEW k \in Dm!Rooms, Dm!deleteDmThread(k) PROVE TurnInv'
  <2>1. /\ step = "dmlist" /\ deletedDmKeys' = deletedDmKeys \cup {k}
        /\ dmThreads' = [j \in DOMAIN dmThreads \ {k} |-> dmThreads[j]] /\ peer' \in {peer, None}
        /\ UNCHANGED <<step, speakAs, pendingDm, dmSending, dmRequestSeq, requests, autoChat, loops, started>>
    BY <1>2 DEF Dm!deleteDmThread, Dm!replyVars, Dm!loopVars
  <2>2. /\ DOMAIN dmThreads' \subseteq Dm!Rooms
        /\ \A j \in DOMAIN dmThreads' : Follows(dmThreads'[j]) /\ dmThreads'[j] \in Seq(Dm!DmMessage)
    BY <1>1, <2>1 DEF Follows
  <2>3. \E rows2 : /\ stored' = [rows |-> rows2, deleted |-> deleted1] /\ DOMAIN rows2 \subseteq Dm!Rooms
                   /\ \A j \in DOMAIN rows2 : Follows(rows2[j])
    <3>1. CASE stored' = stored
      BY <1>1, <3>1
    <3>2. CASE stored' = [stored EXCEPT !.rows = [j \in DOMAIN @ \ {k} |-> @[j]]]
      <4> DEFINE rows2 == [j \in DOMAIN rows1 \ {k} |-> rows1[j]]
      <4>1. stored' = [rows |-> rows2, deleted |-> deleted1]
        BY <3>2
      <4>2. DOMAIN rows2 \subseteq Dm!Rooms /\ \A j \in DOMAIN rows2 : Follows(rows2[j])
        BY <1>1
      <4> HIDE DEF rows2
      <4> QED BY <4>1, <4>2
    <3> QED
      BY <1>2, <3>1, <3>2 DEF Dm!deleteDmThread
  <2>4. DmTyped' /\ RoomsFollow'
    <3> PICK rows2 : /\ stored' = [rows |-> rows2, deleted |-> deleted1] /\ DOMAIN rows2 \subseteq Dm!Rooms
                     /\ \A j \in DOMAIN rows2 : Follows(rows2[j])
      BY <2>3
    <3>1. stored'.rows = rows2 /\ stored'.deleted = deleted1
      OBVIOUS
    <3>2. RoomsFollow'
      BY <2>2, <3>1 DEF RoomsFollow
    <3>3. Dm!TypeOK'
      BY <1>1, <2>1, <2>2, <3>1 DEF TurnInv, DmTyped, Dm!TypeOK
    <3>4. peer' # None /\ ~ peer'.asOwner => peer'.name \in Names
      BY <2>1 DEF TurnInv, DmTyped
    <3> QED
      BY <3>2, <3>3, <3>4 DEF DmTyped
  <2>5. Waits'
    BY <2>1 DEF TurnInv, Waits, Heard
  <2> QED
    BY <2>4, <2>5 DEF TurnInv
<1>3. CASE Dm!Save
  <2>1. /\ stored' = [rows |-> Dm!SavedRows, deleted |-> deletedDmKeys]
        /\ UNCHANGED <<step, peer, speakAs, pendingDm, dmThreads, deletedDmKeys, dmSending, dmRequestSeq, requests,
                       autoChat, loops, started>>
    BY <1>3 DEF Dm!Save, Dm!SaveRooms, Dm!replyVars, Dm!loopVars
  <2>2. DOMAIN Dm!SavedRows \subseteq Dm!Rooms /\ \A k \in DOMAIN Dm!SavedRows : Follows(Dm!SavedRows[k])
    BY <1>1 DEF Dm!SavedRows
  <2>3. DmTyped' /\ RoomsFollow'
    BY <1>1, <2>1, <2>2 DEF TurnInv, DmTyped, Dm!TypeOK, RoomsFollow
  <2> QED
    BY <2>1, <2>3 DEF TurnInv, Waits, Heard
<1>4. CASE Dm!Reload
  <2>1. /\ dmThreads' = [k \in DOMAIN rows1 \ deleted1 |-> rows1[k]] /\ deletedDmKeys' = deleted1
        /\ step' = "dmlist" /\ peer' = None /\ speakAs' = "char" /\ pendingDm' = None
        /\ dmSending' = FALSE /\ requests' = {} /\ autoChat' = FALSE /\ loops' = {}
        /\ UNCHANGED <<dmRequestSeq, started, stored>>
    BY <1>4 DEF Dm!Reload, Dm!Loaded
  <2>2. /\ DOMAIN dmThreads' \subseteq Dm!Rooms
        /\ \A j \in DOMAIN dmThreads' : Follows(dmThreads'[j]) /\ dmThreads'[j] \in Seq(Dm!DmMessage)
    BY <1>1, <2>1 DEF Follows
  <2>3. DmTyped' /\ RoomsFollow'
    BY <1>1, <2>1, <2>2 DEF TurnInv, DmTyped, Dm!TypeOK, RoomsFollow, Dm!Speakers
  <2> QED
    BY <2>1, <2>3 DEF TurnInv, Waits
<1> QED
  BY <1>2, <1>3, <1>4 DEF Dm!Delete

LEMMA TurnsStart == ASSUME TurnAssumption, Dm!Init PROVE TurnInv
<1>1. DOMAIN Dm!Empty = {} /\ stored = [rows |-> Dm!Empty, deleted |-> {}] /\ dmThreads = Dm!Empty /\ requests = {}
  BY DEF Dm!Init, Dm!Empty
<1>2. DmTyped
  <2>1. 0 \in 0..MaxLoops /\ stored.rows = Dm!Empty /\ stored.deleted = {}
    BY <1>1 DEF TurnAssumption
  <2>2. Dm!TypeOK
    BY <1>1, <2>1 DEF Dm!Init, Dm!TypeOK, Dm!Speakers
  <2> QED
    BY <1>1, <2>2 DEF Dm!Init, DmTyped
<1> QED
  BY <1>1, <1>2 DEF TurnInv, RoomsFollow, Waits

THEOREM RepliesStand ==
  ASSUME TurnAssumption
  PROVE  Dm!Spec => [](Dm!TypeOK /\ Dm!RepliesFollow)
<1>1. ASSUME TurnInv PROVE Dm!TypeOK /\ Dm!RepliesFollow
  <2>1. \A k \in DOMAIN dmThreads : DOMAIN dmThreads[k] = 1..Len(dmThreads[k]) /\ Follows(dmThreads[k])
    BY <1>1, LenProperties DEF TurnInv, RoomsFollow, Follows
  <2> QED
    BY <1>1, <2>1 DEF TurnInv, DmTyped, Dm!RepliesFollow, Follows
<1>2. ASSUME TurnInv, [Dm!Next]_Dm!dmVars PROVE TurnInv'
  <2>1. CASE UNCHANGED Dm!dmVars
    BY <1>2, <2>1 DEF Dm!dmVars, TurnInv, DmTyped, Dm!TypeOK, RoomsFollow, Waits, Heard
  <2> QED
    BY <1>2, <2>1, EnterTurns, TalkTurns, AutoTurns, StoreTurns DEF Dm!Next
<1> QED
  BY <1>1, <1>2, TurnsStart, PTL DEF Dm!Spec

(* Whatever is sent, left, deleted, carried on or reloaded, replies stand after the message they *)
(* answer and a reload after a save shows the rooms that were shown.                             *)
THEOREM RoomsStayTrue == Dm!Spec => []RoomsTrue
<1>1. DmAssumption /\ TurnAssumption
  BY RoomAssumption DEF DmAssumption, TurnAssumption
<1>2. Dm!RepliesFollow /\ Dm!SavedIsLoaded => RoomsTrue
  BY DEF Dm!RoomsTrue, RoomsTrue
<1> QED
  BY <1>1, <1>2, RoomsStayDeleted, RepliesStand, PTL
=============================================================================
