-------------------------- MODULE MCCharacterPosts --------------------------
(***************************************************************************)
(* CharacterPosts for TLC.  A behaviour takes one of three parts: "edit",  *)
(* two devices and visitors; "late", requests and claims that end late;    *)
(* "auto", two workers, in variables of its own.                           *)
(***************************************************************************)
EXTENDS CharacterPosts, TLC

CONSTANTS none, phone, web, s1, s2, key1, plain, edited

VARIABLES part, aNow, aRow, aShared, aNextId, aGone, aView, aUsage, aSession

Two == {s1, s2}
Workers == INSTANCE CharacterPosts WITH
  Clients <- {}, Sessions <- Two, RequestKeys <- {}, Profiles <- {plain}, Interval <- 2, Lease <- 2,
  RetryMax <- 2, Punctual <- TRUE, MaxPosts <- 1, MaxItems <- 3, MaxRevision <- 3,
  MaxTime <- 5,
  now <- aNow, row <- aRow, shared <- aShared, nextId <- aNextId, gone <- aGone, view <- aView,
  usage <- aUsage, session <- aSession

autoVars == <<aNow, aRow, aShared, aNextId, aGone, aView, aUsage, aSession>>
mcVars == <<part, vars, autoVars>>

(* Devices and the two workers have names that do not matter: the first one acts first. *)
FirstDeviceLoads == view[phone].revision = 0 => view'[web] = view[web]
FirstIdleClaims == aSession[s1] = Workers!Idle => aSession[s2] # Workers!Idle \/ aSession'[s2] = Workers!Idle

LateBound == row'.revision <= 2 /\ nextId' <= 3
Generate ==
  \/ \E s \in Sessions :
       Claim(s) \/ (\E k \in RequestKeys : Request(s, k)) \/ Proceed(s) \/ Cancel(s) \/ Crash(s)
  \/ \E b \in BOOLEAN : UpdateAutoPost(b)
  \/ Expire \/ Tick

MCInit == part \in {"edit", "late", "auto"} /\ Init /\ Workers!Init
MCNext ==
  \/ part = "edit" /\ Owner /\ FirstDeviceLoads /\ UNCHANGED <<part, autoVars>>
  \/ part = "late" /\ Generate /\ LateBound /\ UNCHANGED <<part, autoVars>>
  \/ part = "auto" /\ Workers!Next /\ FirstIdleClaims /\ UNCHANGED <<part, vars>>
OfLate(A) == part = "late" /\ A /\ LateBound /\ UNCHANGED <<part, autoVars>>
MCFairness ==
  /\ \A s \in Sessions : WF_mcVars(OfLate(Proceed(s)))
  /\ SF_mcVars(OfLate(\E s \in Sessions : Claim(s)))
  /\ WF_mcVars(OfLate(Tick))
MCSpec == MCInit /\ [][MCNext]_mcVars /\ MCFairness

(* Devices, visitors and sessions at once, in the variables of the first parts. *)
LostSpec == MCInit /\ [][Next /\ UNCHANGED <<part, autoVars>>]_mcVars

(* Whichever workers claim, fail, retry and crash: a charged post is in the list, or was      *)
(* there, and one due time gives one post.                                                    *)
WorkersPay == [][Workers!PaidIsPosted' /\ Workers!NoDuplicateStep]_mcVars
=============================================================================
