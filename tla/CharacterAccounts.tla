------------------------- MODULE CharacterAccounts -------------------------
(***************************************************************************)
(* The characters of an owner in the browser: the list, the one on the     *)
(* screen, drafting and saving, opening, switching and deleting.           *)
(*                                                                         *)
(* What is on the screen lives beside the list and is folded into it only  *)
(* by persistActiveAccount.  A save, a deletion, an upload and an analysis *)
(* keep what they saw when they were asked; the screen does not wait.      *)
(***************************************************************************)
EXTENDS Naturals, FiniteSets

CONSTANTS
  Ids, None,    \* source ids of characters, those of newDraftId included
  MaxRevision,  \* bound: changes made
  MaxDrafts,    \* bound: drafts begun
  MaxPending    \* bound: saves and deletions without an answer

Steps == {"home", "dump", "confirm", "feed"}     \* feed: the steps that show the character

(* A character's fields, gallery, posts and follows: whose they are and the last change. *)
Content == [of : Ids \cup {None}, revision : 0..MaxRevision]
blankChar == [of |-> None, revision |-> 0]
Lists == UNION {[D -> Content] : D \in SUBSET Ids}

(* A request with what its closure saw. *)
Request == [kind : {"wake", "edit", "delete"}, id : Ids,
            accounts : Lists, activeId : Ids \cup {None}, shown : Content]
Analysis == [draft : 0..MaxDrafts, activeId : Ids \cup {None}]

VARIABLES
  step,
  accounts, activeId, shown,   \* shown: char, gallery, posts, following
  draftId, waking,             \* draftIdRef; wakingRef and waking
  parsing,                     \* the analysis without an answer
  deleteTarget,
  requests, uploads,           \* uploads: characters images are being uploaded for
  revision, drafts,            \* changes made and drafts begun so far
  sentAs, newest, deleted,     \* history: ids the draft was sent under, last change of each character
  strayed, dropped             \* history: an answer met another state; an unfolded change was left

data == <<accounts, activeId, shown>>
setup == <<draftId, waking, parsing, deleteTarget>>
pendingVars == <<requests, uploads>>
history == <<revision, drafts, sentAs, newest, deleted, strayed, dropped>>
accountVars == <<step, data, setup, pendingVars, history>>

TypeOK ==
  /\ step \in Steps
  /\ DOMAIN accounts \subseteq Ids /\ \A i \in DOMAIN accounts : accounts[i] \in Content
  /\ activeId \in Ids \cup {None} /\ shown \in Content
  /\ draftId \in Ids \cup {None} /\ waking \in BOOLEAN
  /\ parsing = None \/ parsing \in Analysis
  /\ deleteTarget \in Ids \cup {None}
  /\ Cardinality(requests) <= MaxPending /\ uploads \subseteq Ids
  /\ \A r \in requests : r.kind \in {"wake", "edit", "delete"} /\ r.shown \in Content
  /\ revision \in 0..MaxRevision /\ drafts \in 0..MaxDrafts
  /\ sentAs \subseteq Ids /\ deleted \subseteq Ids /\ strayed \in BOOLEAN /\ dropped \in BOOLEAN

-----------------------------------------------------------------------------
HasActive == activeId # None

(* The app is entered at any path, with the character that was open or none. *)
Init ==
  /\ \E D \in SUBSET Ids : accounts = [i \in D |-> [blankChar EXCEPT !.of = i]]
  /\ activeId \in DOMAIN accounts \cup {None}
  /\ shown = IF HasActive THEN accounts[activeId] ELSE blankChar
  /\ step \in Steps /\ (step = "feed" => HasActive)
  /\ draftId = None /\ waking = FALSE /\ parsing = None /\ deleteTarget = None
  /\ requests = {} /\ uploads = {} /\ revision = 0 /\ drafts = 0 /\ sentAs = {} /\ deleted = {}
  /\ newest = [i \in Ids |-> 0] /\ strayed = FALSE /\ dropped = FALSE

-----------------------------------------------------------------------------
\* mutant: the list is left as it was
FoldForgets(list, active, content) == [i \in DOMAIN list |-> list[i]]
(* persistActiveAccount; accountSnapshot makes the same list. *)
Fold(list, active, content) == [i \in DOMAIN list |-> IF i = active THEN content ELSE list[i]]
Folded == Fold(accounts, activeId, shown)
Unfolded == HasActive /\ Folded # accounts

(* The effect that leaves a step whose character is gone; nothing can be clicked before it. *)
StepBroken == step = "feed" /\ ~ HasActive
leaveBrokenStep ==
  /\ StepBroken /\ step' = "home"
  /\ UNCHANGED <<data, setup, pendingVars, history>>
On(s) == step = s /\ deleteTarget = None /\ ~ StepBroken

(* Back and forward of the browser never reach a setup screen, and pass over an open dialog. *)
handlePopState(s) ==
  /\ s \in {"home", "feed"} \ {step} /\ (s = "feed" => HasActive)
  /\ step' = s
  /\ UNCHANGED <<data, setup, pendingVars, history>>
goHome ==
  /\ On("feed") /\ accounts' = Folded /\ step' = "home"
  /\ UNCHANGED <<activeId, shown, setup, pendingVars, history>>
(* The editor goes back to where it was opened from: what handlePopState does. *)
leaveSetup ==
  /\ \/ On("dump") /\ step' = "home"
     \/ On("confirm") /\ ~ HasActive /\ step' = "dump"
  /\ UNCHANGED <<data, setup, pendingVars, history>>

-----------------------------------------------------------------------------
(* loadAccount reads the list as it was rendered, before persistActiveAccount folded into it. *)
loadAccount(i) == activeId' = i /\ shown' = accounts[i]
LeftBehind(i) == dropped' = (dropped \/ (Unfolded /\ i \in {activeId, None}))
switchAccount(i) ==
  /\ On("home") /\ i \in DOMAIN accounts
  /\ accounts' = Folded /\ loadAccount(i) /\ step' = "feed" /\ LeftBehind(i)
  /\ UNCHANGED <<setup, pendingVars, revision, drafts,
                 sentAs, newest, deleted, strayed>>
editAccount(i) ==
  /\ On("home") \/ (On("feed") /\ i = activeId)     \* editAccountFromHome, editActiveProfile
  /\ i \in DOMAIN accounts
  /\ accounts' = Folded /\ loadAccount(i) /\ step' = "confirm" /\ LeftBehind(i)
  /\ waking' = FALSE
  /\ UNCHANGED <<draftId, parsing, deleteTarget, pendingVars, revision, drafts,
                 sentAs, newest, deleted, strayed>>
startNewCharacter ==
  /\ On("home") /\ drafts < MaxDrafts
  /\ drafts' = drafts + 1 /\ draftId' = None /\ waking' = FALSE
  /\ activeId' = None /\ shown' = blankChar /\ step' = "dump" /\ sentAs' = {} /\ LeftBehind(None)
  /\ UNCHANGED <<accounts, parsing, deleteTarget,
                 pendingVars, revision, newest, deleted, strayed>>

(* A change of the fields on the screen (update, a follow, an answer about posts). *)
Changed(content) == [content EXCEPT !.revision = revision + 1]
Noted == newest' = IF HasActive THEN [newest EXCEPT ![activeId] = revision + 1] ELSE newest
update ==
  /\ (On("confirm") \/ On("feed")) /\ revision < MaxRevision
  /\ revision' = revision + 1 /\ shown' = Changed(shown) /\ Noted
  /\ UNCHANGED <<step, accounts, activeId, setup, pendingVars, drafts, sentAs, deleted, strayed, dropped>>

uploadImages ==
  /\ On("feed") /\ activeId \notin uploads /\ uploads' = uploads \cup {activeId}
  /\ UNCHANGED <<step, data, setup, requests, history>>
imagesUploaded(i) ==
  /\ i \in uploads /\ uploads' = uploads \ {i} /\ revision < MaxRevision
  /\ revision' = revision + 1 /\ shown' = Changed(shown) /\ Noted /\ strayed' = (strayed \/ activeId # i)
  /\ UNCHANGED <<step, accounts, activeId, setup, requests, drafts, sentAs, deleted, dropped>>
uploadFailed(i) ==
  /\ i \in uploads /\ uploads' = uploads \ {i}
  /\ UNCHANGED <<step, data, setup, requests, history>>

-----------------------------------------------------------------------------
(* parseDump; its answer, a made-up profile when it failed, goes into what is on the screen. *)
parseDump ==
  /\ (On("dump") \/ (On("confirm") /\ ~ HasActive)) /\ parsing = None
  /\ parsing' = [draft |-> drafts, activeId |-> activeId]
  /\ UNCHANGED <<step, data, draftId, waking, deleteTarget, pendingVars, history>>
dumpParsed ==
  /\ parsing # None /\ revision < MaxRevision /\ parsing' = None
  /\ revision' = revision + 1 /\ shown' = Changed(shown) /\ Noted /\ step' = "confirm"
  /\ strayed' = (strayed \/ HasActive \/ parsing # [draft |-> drafts, activeId |-> None])
  /\ UNCHANGED <<accounts, activeId, draftId, waking,
                 deleteTarget, pendingVars, drafts, sentAs, deleted, dropped>>

Ask(kind, i) ==
  /\ Cardinality(requests) < MaxPending
  /\ requests' = requests \cup
       {[kind |-> kind, id |-> i, accounts |-> accounts, activeId |-> activeId, shown |-> shown]}
confirmReady == shown # blankChar
(* executeCharacterSave; a draft keeps its id from one try to the next. *)
newDraftId(i) == i \notin DOMAIN accounts \cup deleted \cup sentAs \cup {r.id : r \in requests}
\* mutant: every try takes an id of its own
DraftIdAnew(i) == newDraftId(i)
DraftId(i) == IF draftId # None THEN i = draftId ELSE newDraftId(i)
wakeCharacter(i) ==
  /\ On("confirm") /\ ~ HasActive /\ confirmReady /\ ~ waking
  /\ DraftId(i)
  /\ draftId' = i /\ waking' = TRUE /\ Ask("wake", i) /\ sentAs' = sentAs \cup {i}
  /\ UNCHANGED <<step, data, parsing, deleteTarget, uploads, revision, drafts, newest,
                 deleted, strayed, dropped>>
saveCharacterEdits ==
  /\ On("confirm") /\ HasActive /\ confirmReady /\ ~ waking
  /\ waking' = TRUE /\ Ask("edit", activeId)
  /\ UNCHANGED <<step, data, draftId, parsing, deleteTarget, uploads, history>>

Strays(r) == strayed' = (strayed \/ <<r.accounts, r.activeId, r.shown>> # data)
\* mutant: the screen goes on saying that it saves
SettledBusy(r) == requests' = requests \ {r} /\ UNCHANGED waking
Settled(r) == requests' = requests \ {r} /\ waking' = FALSE
saveFailed(r) ==
  /\ r \in requests /\ r.kind # "delete" /\ Settled(r)
  /\ UNCHANGED <<step, data, draftId, parsing, deleteTarget, uploads, history>>
(* commitNewCharacter *)
SavedContent(r) == [r.shown EXCEPT !.of = r.id]
WithAccount(list, i, content) == [j \in DOMAIN list \cup {i} |-> IF j = i THEN content ELSE list[j]]
commitNewCharacter(r) ==
  /\ r \in requests /\ r.kind = "wake" /\ Settled(r) /\ Strays(r)
  /\ accounts' = WithAccount(r.accounts, r.id, SavedContent(r))
  /\ activeId' = r.id /\ shown' = SavedContent(r)
  /\ draftId' = None /\ step' = "feed"
  /\ sentAs' = sentAs \ {r.id}
  /\ newest' = [newest EXCEPT ![r.id] = r.shown.revision]
  /\ UNCHANGED <<parsing, deleteTarget,
                 uploads, revision, drafts, deleted, dropped>>
(* persistCharacterEdits: the fields of the character that was saved, on whichever screen. *)
persistCharacterEdits(r) ==
  /\ r \in requests /\ r.kind = "edit" /\ Settled(r) /\ Strays(r)
  /\ accounts' = Fold(r.accounts, r.id, r.shown)
  /\ shown' = [shown EXCEPT !.of = r.shown.of, !.revision = r.shown.revision]
  /\ step' = "feed"
  /\ UNCHANGED <<activeId, draftId, parsing,
                 deleteTarget, uploads, revision, drafts, sentAs, newest, deleted, dropped>>

-----------------------------------------------------------------------------
setDeleteTarget(i) ==
  /\ IF deleteTarget = None THEN On("home") /\ i \in DOMAIN accounts ELSE i = None
  /\ deleteTarget' = i
  /\ UNCHANGED <<step, data, draftId, waking, parsing, pendingVars, history>>
confirmDeleteCharacter ==
  /\ deleteTarget # None /\ Ask("delete", deleteTarget)
  /\ UNCHANGED <<step, data, setup, uploads, history>>
deleteFailed(r) ==
  /\ r \in requests /\ r.kind = "delete" /\ requests' = requests \ {r}
  /\ UNCHANGED <<step, data, setup, uploads, history>>
(* deleteCharacterState is computed at the click, applyCharacterDeletion runs at the answer. *)
ListWithout(r) == LET list == Fold(r.accounts, r.activeId, r.shown)
                  IN  [i \in DOMAIN list \ {r.id} |-> list[i]]
applyCharacterDeletion(r) ==
  /\ r \in requests /\ r.kind = "delete" /\ requests' = requests \ {r} /\ Strays(r)
  /\ accounts' = ListWithout(r) /\ deleteTarget' = None /\ deleted' = deleted \cup {r.id}
  /\ IF r.activeId = r.id
     THEN activeId' = None /\ shown' = blankChar /\ waking' = FALSE /\ step' = "home"
     ELSE UNCHANGED <<activeId, shown, waking, step>>
  /\ UNCHANGED <<draftId, parsing, uploads,
                 revision, drafts, sentAs, newest, dropped>>

-----------------------------------------------------------------------------
Navigate ==
  \/ \E s \in Steps : handlePopState(s)
  \/ goHome \/ leaveSetup \/ leaveBrokenStep
Open == startNewCharacter \/ \E i \in Ids : switchAccount(i) \/ editAccount(i)
Work ==
  \/ update \/ uploadImages \/ parseDump \/ saveCharacterEdits \/ confirmDeleteCharacter
  \/ \E i \in Ids : wakeCharacter(i)
  \/ \E i \in Ids \cup {None} : setDeleteTarget(i)
Answers ==
  \E r \in requests :
    \/ saveFailed(r) \/ commitNewCharacter(r) \/ persistCharacterEdits(r)
    \/ deleteFailed(r) \/ applyCharacterDeletion(r)
LateAnswers == dumpParsed \/ \E i \in uploads : imagesUploaded(i) \/ uploadFailed(i)
Next == Navigate \/ Open \/ Work \/ Answers \/ LateAnswers
Spec == Init /\ [][Next]_accountVars

-----------------------------------------------------------------------------
(* One draft becomes one character: a save that failed, or whose answer was lost, is tried again *)
(* under the same id (draftIdRef), whatever screens come between.                                *)
DraftOnce == ~ strayed => \A i, j \in sentAs : i = j

(* As long as answers meet the state they were asked from: what is on the screen and in the list *)
(* is the character it is shown for, a draft never holds one, and a deleted character is gone.   *)
OwnContent ==
  ~ strayed =>
    /\ HasActive => shown.of = activeId
    /\ step \in {"dump", "confirm"} /\ ~ HasActive => shown.of = None
    /\ \A i \in DOMAIN accounts : accounts[i].of = i
    /\ deleted \cap (DOMAIN accounts \cup {activeId}) = {}

(* ... and the last change of every character is there, unless a new draft was begun, or the same *)
(* character opened again, before the change was folded into the list.                            *)
ChangesKept ==
  ~ strayed /\ ~ dropped =>
    \A i \in DOMAIN accounts : (IF i = activeId THEN shown ELSE accounts[i]).revision = newest[i]

(* The screen says that it saves only as long as a save is on its way. *)
WakingIsPending == waking => \E r \in requests : r.kind # "delete"

(* No character twice, none mixed with another, none taken back, and no endless saving. *)
CharactersTrue == DraftOnce /\ OwnContent /\ ChangesKept /\ WakingIsPending
=============================================================================
