----------------------------- MODULE MCScreens -----------------------------
(***************************************************************************)
(* For TLC: what the client's screens keep.  A behaviour is one of the     *)
(* parts: the pages of the feed, the follows of two characters, what two   *)
(* characters feel for each other, the credit store with two orders, the   *)
(* owner's characters, the check of a handle, the browser's history, the   *)
(* memories of two characters, the terms and blocks of two users, a sign-in *)
(* from a shell, or the displays of balances and costs.                    *)
(*                                                                         *)
(* The parts share no state.  The feed's is FeedPagination's own; TLC pays *)
(* for every variable in every state, so each of the other parts keeps its *)
(* own in the same v1..v20.                                                *)
(***************************************************************************)
EXTENDS FeedPagination, TLC

CONSTANTS alice, bob, c1, c2, o1, o2

VARIABLES part, changes, v1, v2, v3, v4, v5, v6, v7, v8, v9, v10, v11, v12, v13, v14, v15, v16, v17, v18,
          v19, v20
pool == <<v1, v2, v3, v4, v5, v6, v7, v8, v9, v10, v11, v12, v13, v14, v15, v16, v17, v18, v19, v20>>
mcVars == <<part, changes, vars, pool>>

(* Those a part has no use for stay zero. *)
after17 == <<v18, v19, v20>>
after15 == <<v16, v17, after17>>
after12 == <<v13, v14, v15, after15>>
after11 == <<v12, after12>>
after8 == <<v9, v10, v11, after11>>
after7 == <<v8, after8>>
Zero17 == v18 = 0 /\ v19 = 0 /\ v20 = 0
Zero15 == v16 = 0 /\ v17 = 0 /\ Zero17
Zero12 == v13 = 0 /\ v14 = 0 /\ v15 = 0 /\ Zero15
Zero11 == v12 = 0 /\ Zero12
Zero8 == v9 = 0 /\ v10 = 0 /\ v11 = 0 /\ Zero11
Zero7 == v8 = 0 /\ Zero8
Zero == v1 = 0 /\ v2 = 0 /\ v3 = 0 /\ v4 = 0 /\ v5 = 0 /\ v6 = 0 /\ v7 = 0 /\ Zero7

(* Alice loves one target that loves her back, bob another that does not. *)
Follow == INSTANCE Follows WITH
  active <- v1, following <- v2, sharedCharacters <- v3, activeSharedId <- v4, shareLoads <- v5,
  calls <- v6, dirty <- v7, saving <- v8, followBackSync <- v9, public <- v10, rows <- v11,
  backRows <- v12, expected <- v13, disturbed <- v14, strayed <- v15,
  Characters <- {alice, bob}, Targets <- {o1, o2},
  Lovers <- {<<alice, o1>>, <<bob, o2>>}, MutualLovers <- {<<alice, o1>>}, MaxChanges <- 2
(* Alice warms up fast, bob slowly. *)
Relation == INSTANCE Relationships WITH
  label <- v1, affinity <- v2, remainder <- v3, proposing <- v4, generating <- v5, proposal <- v6,
  judging <- v7, cooldown <- v8, effect <- v9, roomBase <- v10, room <- v11, decided <- v12,
  People <- {alice, bob}, Viewer <- alice, Own <- {alice, bob},
  Quarters <- [p \in {alice, bob} |-> IF p = alice THEN 6 ELSE 1], MaxChanges <- 4,
  Deltas <- {-30, 7}, ManualValues <- {-60, 58}, FirstLabels <- {"none", "friend", "married"}
Shop == INSTANCE PurchaseClients WITH
  platform <- v1, session <- v2, due <- v3, open <- v4, ready <- v5, purchasing <- v6, balance <- v7,
  loads <- v8, trouble <- v9, job <- v10, order <- v11, server <- v12,
  Users <- {alice}, Orders <- {o1, o2}, Platforms <- {"toss", "google", "apple"}, Slots <- 1..2, MaxLoads <- 2
Chars == INSTANCE CharacterAccounts WITH
  step <- v1, accounts <- v2, activeId <- v3, shown <- v4, draftId <- v5, waking <- v6, parsing <- v7,
  deleteTarget <- v8, requests <- v9, uploads <- v10, revision <- v11, drafts <- v12, sentAs <- v13,
  newest <- v14, deleted <- v15, strayed <- v16, dropped <- v17,
  Ids <- {alice, bob}, MaxRevision <- 1, MaxDrafts <- 1, MaxPending <- 2
Handle == INSTANCE HandleAvailability WITH
  handle <- v1, activeId <- v2, requestSequence <- v3, timer <- v4, checks <- v5, result <- v6,
  takenBy <- v7,
  Handles <- {o1, o2}, Invalid <- None, Characters <- {alice}, Others <- {bob}, MaxTyped <- 3
Page == INSTANCE Navigation WITH
  step <- v1, panel <- v2, active <- v3, peer <- v4, creditReturnStep <- v5, profileEditReturnStep <- v6,
  entries <- v7, at <- v8, applying <- v9, lastKey <- v10, due <- v11,
  MaxEntries <- 2
Memory == INSTANCE CharacterMemories WITH
  activeId <- v1, lorebook <- v2, books <- v3, roomBooks <- v4, summaries <- v5, asked <- v6, made <- v7,
  strayed <- v8,
  Own <- {alice, bob}, Contents <- {c1, c2, o1}, Importances <- {3, 5},
  BookSize <- 2, ManualSize <- 1, MaxEntries <- 3, MaxSummaries <- 2
Safety == INSTANCE SafetyGate WITH
  session <- v1, consentAccepted <- v2, consentLoaded <- v3, safetyLoadFailed <- v4,
  blockedUserIds <- v5, reportTarget <- v6, requests <- v7, asked <- v8, consents <- v9, blocks <- v10,
  reports <- v11, strayed <- v12,
  Users <- {alice, bob}, Strangers <- {o1, o2}, Targets <- {c1, c2}, MaxAsked <- 3
SignIn == INSTANCE NativeSignIn WITH
  platform <- v1, initialization <- v2, launch <- v3, links <- v4, exchanges <- v5,
  nativeGoogleBrowserOpen <- v6, browser <- v7, finished <- v8, signingIn <- v9, session <- v10,
  authLoading <- v11, questions <- v12, cookie <- v13, issued <- v14, used <- v15, failures <- v16,
  reloads <- v17, overtaken <- v18, waited <- v19, fallback <- v20,
  MaxCodes <- 1, MaxFailures <- 1, MaxReloads <- 1, MaxQuestions <- 2
(* One flow takes energy before credits, the other only purchased credits. *)
Cost == [f \in {o1, o2} |->
  IF f = o1 THEN [credits |-> 2, energy |-> 1, energyAllowed |-> TRUE, bonusAllowed |-> TRUE]
  ELSE [credits |-> 1, energy |-> 0, energyAllowed |-> FALSE, bonusAllowed |-> FALSE]]
Has(energy, bonus, purchased) == [energy |-> energy, bonus |-> bonus, purchased |-> purchased]
Credits == INSTANCE CreditDisplays WITH
  balance <- v1, mounted <- v2, shown <- v3, statusFlow <- v4, catalogRequest <- v5, hints <- v6,
  requests <- v7, asked <- v8, answered <- v9, stale <- v10, unheard <- v11,
  Flows <- {o1, o2}, Unknown <- None, Policy <- Cost, Hints <- {c1, c2},
  Balance <- {Has(1, 0, 0), Has(0, 1, 1), Has(0, 1, 0), Has(0, 0, 1)}, MaxAsked <- 2

Begins ==
  \/ part = "feed" /\ Zero
  \/ part = "follows" /\ Follow!Init /\ Zero15
  \/ part = "relations" /\ Relation!Init /\ Zero12
  \/ part = "shop" /\ Shop!Init /\ Zero12
  \/ part = "accounts" /\ Chars!Init /\ Zero17
  \/ part = "handle" /\ Handle!Init /\ Zero7
  \/ part = "pages" /\ Page!Init /\ Zero11
  \/ part = "memories" /\ Memory!Init /\ Zero8
  \/ part = "safety" /\ Safety!Init /\ Zero12
  \/ part = "signin" /\ SignIn!Init /\ v1 # "android"
  \/ part = "balances" /\ Credits!Init /\ Zero11
  \/ part = "hints" /\ Credits!Init /\ v1 = Has(0, 0, 1) /\ v4 = o1 /\ Zero11
(* Of the phones, the iPhone can do what Android's can, and has Apple's dialog. *)
MCInit ==
  /\ changes = 0 /\ Begins /\ Init
  /\ part # "feed" => shown.revision = 1 /\ newest[alice] = 0

(* The store is opened once, and no order is refunded: that is left to MCNotificationInbox. *)
ShopNext ==
  \/ /\ Shop!Screen
     /\ changes' = IF v4' /\ ~ v4 THEN changes + 1 ELSE changes
     /\ changes' <= 1
  \/ /\ Shop!Loading \/ Shop!Outside \/ \E s \in 1..2 : Shop!Chain(s)
     /\ \A o \in {o1, o2} : ~ v11'[o].refunded
     /\ UNCHANGED changes
(* Two requests are made, and a behaviour ends where an answer meets another state than it left. *)
CharactersNext ==
  /\ Chars!Next
  /\ changes' = changes + Cardinality(v9' \ v9) + Cardinality(v10' \ v10)
  /\ changes' <= 2 /\ ~ v16
(* The owner makes two edits. *)
MemoriesNext ==
  \/ Memory!Edits /\ changes < 2 /\ changes' = changes + 1
  \/ Memory!Others /\ UNCHANGED changes
(* Two sign-ins are begun, and two questions for the session are under way at a time. *)
SignInNext ==
  /\ SignIn!Next /\ Cardinality(v12') <= 2
  /\ changes' = changes + Cardinality((v9' \ v9) \cap {"google", "dialog"})
  /\ changes' <= 2
Plain ==
  \/ part = "handle" /\ Handle!Next /\ UNCHANGED after7
  \/ part = "pages" /\ Page!Next /\ UNCHANGED after11
  \/ part = "safety" /\ Safety!Next /\ UNCHANGED after12
  \/ part = "balances" /\ Credits!BalanceNext /\ UNCHANGED after11
  \/ part = "hints" /\ Credits!HintNext /\ UNCHANGED after11
(* The bounds end these parts; the user may stop at any time. *)
UserStops ==
  /\ part \in {"accounts", "handle", "pages", "memories", "safety", "signin", "balances"}
  /\ UNCHANGED <<part, changes, pool>>
Elsewhere ==
  \/ Plain /\ UNCHANGED <<part, changes>>
  \/ part = "signin" /\ SignInNext /\ UNCHANGED part
  \/ part = "follows" /\ Follow!Next /\ UNCHANGED after15 /\ UNCHANGED part
  \/ part = "relations" /\ Relation!Next /\ UNCHANGED after12 /\ UNCHANGED part
  \/ part = "shop" /\ ShopNext /\ UNCHANGED after12 /\ UNCHANGED part
  \/ part = "accounts" /\ CharactersNext /\ UNCHANGED <<part, after17>>
  \/ part = "memories" /\ MemoriesNext /\ UNCHANGED <<part, after8>>
  \/ UserStops
MCNext ==
  \/ part = "feed" /\ Next /\ UNCHANGED <<part, changes, pool>>
  \/ Elsewhere /\ UNCHANGED vars
MCSpec == MCInit /\ [][MCNext]_mcVars
(* c1 and c2 are only the controllers of the feed, contents of memories, those who can be *)
(* reported, and hints: names that may be exchanged.  No other constant names them.       *)
Symmetry == Permutations({c1, c2})
-----------------------------------------------------------------------------
TypesOK ==
  /\ TypeOK
  /\ part = "follows" => Follow!TypeOK
  /\ part = "relations" => Relation!TypeOK
  /\ part = "shop" => Shop!TypeOK
  /\ part = "accounts" => Chars!TypeOK
  /\ part = "handle" => Handle!TypeOK
  /\ part = "pages" => Page!TypeOK
  /\ part = "memories" => Memory!TypeOK
  /\ part = "safety" => Safety!TypeOK
  /\ part = "signin" => SignIn!TypeOK
  /\ part \in {"balances", "hints"} => Credits!TypeOK
(* Requests settle: the server ends with the follows that are shown and lovers follow back, *)
(* and the shared id is of the character on the screen.  What was decided about a relation  *)
(* stays, and its label agrees with its affinity.                                           *)
RelationsTrue ==
  /\ part = "follows" => Follow!RelationsTrue
  /\ part = "relations" => Relation!RelationsTrue
(* The stores are told of what was granted, and the screen tells what was granted and what *)
(* is under way.                                                                           *)
StoresTrue == part = "shop" => Shop!StoresTrue
(* One draft becomes one character, a character's content stays its own and its last change is *)
(* kept, and the screen saves only while a save is on its way.                                 *)
CharactersTrue == part = "accounts" => Chars!CharactersTrue
(* What the screens say is so: a handle's status, the page of the history, the books of memories, *)
(* that the app is open to a user, that a sign-in is under way and a session there, what a user   *)
(* has and what a call will cost.                                                                 *)
ScreensTrue ==
  /\ part = "handle" => Handle!StatusTrue
  /\ part = "pages" => Page!PageIsScreen
  /\ part = "memories" => Memory!BooksTrue
  /\ part = "safety" => Safety!GateTrue
  /\ part = "signin" => SignIn!BusyIsPending /\ SignIn!SessionKnown
  /\ part \in {"balances", "hints"} => Credits!BalanceShown /\ Credits!PreviewTrue /\ Credits!HintsEnd
(* What a late answer or the browser's back button may not undo: the pages in front, that setup *)
(* screens are reached by a click only, pinned memories, blocks; and no conversation ends love. *)
ScreensKeep ==
  [][/\ part = "pages" => Page!BackKeepsPagesStep /\ Page!SetupOnlyByClickStep
     /\ part = "memories" => Memory!PinnedStayStep
     /\ part = "safety" => Safety!BlocksStayStep
     /\ part = "relations" => Relation!LoveHolds]_mcVars
=============================================================================
