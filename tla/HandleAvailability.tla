------------------------- MODULE HandleAvailability -------------------------
(***************************************************************************)
(* The check of a handle while it is typed in the setup screen: one        *)
(* request for each handle that stays for a moment, answers in any order.  *)
(***************************************************************************)
EXTENDS Naturals

CONSTANTS
  Handles, Invalid,     \* normalized handles; what characterHandleError refuses
  Characters, None,     \* source ids; None: a draft
  Others,               \* whoever else has handles
  MaxTyped              \* bound: handles typed and characters opened

VARIABLES
  handle, activeId,
  requestSequence, timer,   \* timer: the sequence the 350 ms run for, or 0
  checks,                   \* requests; answer is None until the server has looked
  result,
  takenBy                   \* on the server: whose handle it is, or None

handleVars == <<handle, activeId, requestSequence, timer, checks, result, takenBy>>

States == {"available", "checking", "invalid", "taken", "unknown"}
Typed == Handles \cup {Invalid}
Check == [sequence : 1..MaxTyped, handle : Handles, exclude : Characters \cup {None},
          answer : {"available", "taken", "none"}]

TypeOK ==
  /\ handle \in Typed /\ activeId \in Characters \cup {None}
  /\ requestSequence \in 0..MaxTyped /\ timer \in 0..requestSequence
  /\ checks \subseteq Check
  /\ result \in [handle : Typed, state : States]
  /\ takenBy \in [Handles -> Characters \cup Others \cup {None}]

(* useCharacterHandleAvailability: the effect of a render with another handle or character. *)
Rendered(h, c) ==
  /\ handle' = h /\ activeId' = c /\ requestSequence' = requestSequence + 1
  /\ result' = [handle |-> h, state |-> IF h = Invalid THEN "invalid" ELSE "checking"]
  /\ timer' = IF h = Invalid THEN 0 ELSE requestSequence + 1
  /\ UNCHANGED <<checks, takenBy>>

(* Every character has its own handle on the server before it is edited. *)
Init ==
  /\ takenBy \in [Handles -> Characters \cup {None}]
  /\ \A h, k \in Handles : takenBy[h] = takenBy[k] /\ takenBy[h] # None => h = k
  /\ handle = Invalid /\ activeId = None /\ requestSequence = 0 /\ timer = 0
  /\ checks = {} /\ result = [handle |-> Invalid, state |-> "invalid"]

update(h) == h # handle /\ requestSequence < MaxTyped /\ Rendered(h, activeId)
edit(c) ==
  /\ c # activeId /\ requestSequence < MaxTyped
  /\ Rendered(IF \E h \in Handles : c # None /\ takenBy[h] = c
              THEN CHOOSE h \in Handles : takenBy[h] = c ELSE Invalid, c)
(* After 350 ms: checkAvailability. *)
ask ==
  /\ timer # 0 /\ timer' = 0
  /\ checks' = checks \cup
       {[sequence |-> timer, handle |-> handle, exclude |-> activeId, answer |-> "none"]}
  /\ UNCHANGED <<handle, activeId, requestSequence, result, takenBy>>
(* The server: free, or the character's own. *)
Available(c) == takenBy[c.handle] \in {None, c.exclude}
serve(c) ==
  /\ c \in checks /\ c.answer = "none"
  /\ checks' = (checks \ {c}) \cup {[c EXCEPT !.answer = IF Available(c) THEN "available" ELSE "taken"]}
  /\ UNCHANGED <<handle, activeId, requestSequence, timer, result, takenBy>>

\* mutant: an answer for an earlier handle is shown
AnyCheck(c) == TRUE
Current(c) == c.sequence = requestSequence
Show(c, state) == result' = IF Current(c) THEN [handle |-> c.handle, state |-> state] ELSE result
answered(c) ==
  /\ c \in checks /\ c.answer # "none" /\ checks' = checks \ {c} /\ Show(c, c.answer)
  /\ UNCHANGED <<handle, activeId, requestSequence, timer, takenBy>>
failed(c) ==
  /\ c \in checks /\ checks' = checks \ {c} /\ Show(c, "unknown")
  /\ UNCHANGED <<handle, activeId, requestSequence, timer, takenBy>>

(* Somebody else takes a free handle meanwhile. *)
take(h, o) ==
  /\ takenBy[h] = None /\ takenBy' = [takenBy EXCEPT ![h] = o]
  /\ UNCHANGED <<handle, activeId, requestSequence, timer, checks, result>>

Next ==
  \/ \E h \in Typed : update(h)
  \/ \E c \in Characters \cup {None} : edit(c)
  \/ ask
  \/ \E c \in checks : serve(c) \/ answered(c) \/ failed(c)
  \/ \E h \in Handles, o \in Others : take(h, o)
Spec == Init /\ [][Next]_handleVars

(* What is said of a handle is said of the one that is typed, whichever answer comes first, and   *)
(* a save is only kept back as "taken" when the handle is another character's; while it says that *)
(* it looks, a request or its delay runs.                                                         *)
StatusTrue ==
  /\ result.handle = handle
  /\ result.state = "taken" => takenBy[handle] \notin {None, activeId}
  /\ result.state = "checking" => timer = requestSequence \/ \E c \in checks : Current(c)
=============================================================================
