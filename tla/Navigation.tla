----------------------------- MODULE Navigation -----------------------------
(***************************************************************************)
(* The steps of the app and the browser's history: every change of the     *)
(* screen is written to the history by an effect after it is rendered, and *)
(* the browser's back and forward come in as popstate events.  The lists   *)
(* of follows, which are open or not, are never written to it.             *)
(***************************************************************************)
EXTENDS Naturals, Sequences

CONSTANT MaxEntries     \* bound: pages in the history

Steps == {"home", "credits", "dump", "confirm", "feed", "dmlist", "dm"}     \* RENDERABLE_STEPS
NeedsCharacter == {"feed", "dmlist", "dm"}                                  \* discover is one of them

(* navKey: the step, and whether a dialog or panel is open over it. *)
NavState == [step : Steps, panel : BOOLEAN]

VARIABLES
  step, panel,
  active, peer,                     \* a character is open; somebody to talk to is
  creditReturnStep, profileEditReturnStep,
  entries, at,                      \* window.history
  applying, lastKey,                \* navApplyingRef, navLastKeyRef
  due                               \* what the effects of the last render still have to follow

navVars == <<step, panel, active, peer, creditReturnStep, profileEditReturnStep, entries, at,
             applying, lastKey, due>>
pages == <<entries, at, applying, lastKey>>
returns == <<creditReturnStep, profileEditReturnStep>>

TypeOK ==
  /\ step \in Steps /\ panel \in BOOLEAN /\ active \in BOOLEAN /\ peer \in BOOLEAN
  /\ creditReturnStep \in Steps /\ profileEditReturnStep \in {"home", "feed"}
  /\ entries \in Seq(NavState) /\ at \in 1..Len(entries) /\ Len(entries) <= MaxEntries
  /\ applying \in BOOLEAN /\ lastKey \in NavState
  /\ due \in {"nothing", "click", "popstate", "redirect"}

-----------------------------------------------------------------------------
stepFromPath(s, hasActive) ==
  CASE s \in NeedsCharacter /\ ~ hasActive -> "home"
    [] s = "dm" /\ hasActive -> "dmlist"
    [] OTHER -> s
normalizeSavedStep(s, hasActive) ==
  IF s \in {"dump", "confirm"} THEN "home" ELSE stepFromPath(s, hasActive)
resolveCreditReturnStep(s, hasActive) ==
  IF s = "credits" \/ ~ hasActive THEN "home" ELSE s

navStateForHistory == [step |-> step, panel |-> panel]

(* The app is entered at a path, and the first effect makes one page of it. *)
Init ==
  /\ active \in BOOLEAN /\ step \in {stepFromPath(s, active) : s \in Steps}
  /\ panel = FALSE /\ peer = FALSE /\ creditReturnStep = "home" /\ profileEditReturnStep = "home"
  /\ entries = <<navStateForHistory>> /\ at = 1 /\ applying = FALSE /\ lastKey = navStateForHistory
  /\ due = "nothing"

-----------------------------------------------------------------------------
(* The guard of the controller: a step that has nothing to show. *)
StepBroken == (step = "dm" /\ ~ peer) \/ (step \in NeedsCharacter /\ ~ active)
On(s) == step = s /\ due = "nothing" /\ ~ StepBroken

Go(s, p) == step' = s /\ panel' = p /\ due' = "click"
openCredits ==
  /\ step \in {"home", "feed", "dm"} /\ On(step)
  /\ creditReturnStep' = step /\ Go("credits", panel)
  /\ UNCHANGED <<active, peer, profileEditReturnStep, pages>>
closeCredits ==
  /\ On("credits") /\ Go(resolveCreditReturnStep(creditReturnStep, active), panel)
  /\ UNCHANGED <<active, peer, returns, pages>>
editAccount ==                                \* from the home screen or the profile
  /\ \/ On("home") /\ profileEditReturnStep' = "home"
     \/ On("feed") /\ profileEditReturnStep' = "feed"
  /\ active' = TRUE /\ Go("confirm", panel)
  /\ UNCHANGED <<peer, creditReturnStep, pages>>
exitProfileEdit ==
  /\ On("confirm") /\ Go(IF active THEN profileEditReturnStep ELSE "dump", panel)
  /\ UNCHANGED <<active, peer, returns, pages>>
startNewCharacter ==
  /\ On("home") \/ On("credits")
  /\ active' = FALSE /\ Go("dump", panel) /\ UNCHANGED <<peer, returns, pages>>
visit ==
  /\ \/ On("home") /\ Go("feed", panel) /\ active' = TRUE /\ UNCHANGED peer      \* switchAccount
     \/ On("dump") /\ step' \in {"home", "confirm"} /\ Go(step', panel) /\ UNCHANGED <<active, peer>>
     \/ On("confirm") /\ Go("feed", panel) /\ active' = TRUE /\ UNCHANGED peer    \* saved
     \/ On("feed") /\ step' \in {"home", "dmlist"} /\ Go(step', panel) /\ UNCHANGED <<active, peer>>
     \/ On("feed") /\ Go("feed", ~ panel) /\ UNCHANGED <<active, peer>>           \* a panel opens or closes
     \/ On("dmlist") /\ Go("dm", FALSE) /\ peer' = TRUE /\ UNCHANGED active
     \/ On("dmlist") /\ Go("feed", panel) /\ UNCHANGED <<active, peer>>
     \/ On("dm") /\ Go("dmlist", panel) /\ peer' = FALSE /\ UNCHANGED active
  /\ UNCHANGED <<returns, pages>>
characterDeleted ==
  /\ On("home") /\ active /\ active' = FALSE /\ peer' = FALSE /\ Go("home", panel)
  /\ UNCHANGED <<returns, pages>>

(* The screen that a page stands for, when the user comes back to it. *)
navStateFromUnknown(page) == [page EXCEPT !.step = normalizeSavedStep(@, TRUE)]
Returned(page) ==
  [step |-> normalizeSavedStep(navStateFromUnknown(page).step, active), panel |-> page.panel]
(* Back or forward: the browser moves to the page, then the handler runs.  The effects follow only *)
(* if something they depend on is another than before: for the same screen, if a list of follows   *)
(* was open or its dialog is a new object.  Else the page and its URL stay as they were written.    *)
handlePopState(i) ==
  /\ due = "nothing" /\ i \in 1..Len(entries) /\ i # at
  /\ at' = i /\ applying' = TRUE /\ lastKey' = navStateFromUnknown(entries[i])
  /\ step' = Returned(entries[i]).step /\ panel' = entries[i].panel
  /\ due' = "popstate" \/ (due' = "nothing" /\ UNCHANGED <<step, panel>>)
  /\ UNCHANGED <<active, peer, returns, entries>>
(* setTimeout 0: after the effects of the event itself, before or after those of a redirect. *)
applied ==
  /\ applying /\ due # "popstate" /\ applying' = FALSE
  /\ UNCHANGED <<step, panel, active, peer, returns, entries, at, lastKey, due>>

pushState == at < MaxEntries /\ at' = at + 1 /\ entries' = Append(SubSeq(entries, 1, at), navStateForHistory)
replaceState == at' = at /\ entries' = [entries EXCEPT ![at] = navStateForHistory]
\* mutant: going back writes a page of its own
WriteAnyHistory == IF navStateForHistory # lastKey THEN pushState ELSE replaceState
(* The effects of a render: the page is written, and a step with nothing to show is left. *)
writeHistory ==
  IF ~ applying /\ navStateForHistory # lastKey THEN pushState ELSE replaceState
guardStep ==
  IF StepBroken THEN step' = "home" /\ peer' = FALSE /\ due' = "redirect"
                ELSE due' = "nothing" /\ UNCHANGED <<step, peer>>
(* The effect of dmWorldDraft, a text that is not in the key. *)
writeDraft ==
  /\ due = "nothing" /\ replaceState
  /\ UNCHANGED <<step, panel, active, peer, returns, applying, lastKey, due>>
effects ==
  /\ due # "nothing" /\ writeHistory /\ lastKey' = navStateForHistory /\ guardStep
  /\ UNCHANGED <<panel, active, returns, applying>>
Clicks ==
  \/ openCredits \/ closeCredits \/ editAccount \/ exitProfileEdit \/ startNewCharacter \/ visit
  \/ characterDeleted
Next ==
  \/ Clicks \/ applied \/ effects \/ writeDraft
  \/ \E i \in 1..MaxEntries : handlePopState(i)
Spec == Init /\ [][Next]_navVars

-----------------------------------------------------------------------------
(* The page of the history is the screen, or one that the user came back to and that stands for   *)
(* the screen that was there already; with a character the next page is made from the right key;   *)
(* and a screen that stays has something to show.                                                  *)
PageIsScreen ==
  due = "nothing" =>
    /\ ~ StepBroken
    /\ navStateForHistory \in {entries[at], Returned(entries[at])}
    /\ active => lastKey = navStateForHistory

(* Going back or forward makes no page and never cuts off the pages in front; only the effects of *)
(* a click or a redirect make one.                                                                 *)
BackKeepsPagesStep ==
  /\ due \in {"nothing", "popstate"} => Len(entries') = Len(entries)
  /\ due = "popstate" => at' = at
BackKeepsPages == [][BackKeepsPagesStep]_navVars
(* A setup screen is never reached through the history. *)
SetupOnlyByClickStep == step' # step /\ step' \in {"dump", "confirm"} => due' = "click"
SetupOnlyByClick == [][SetupOnlyByClickStep]_navVars
=============================================================================
