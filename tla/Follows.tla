------------------------------ MODULE Follows -------------------------------
(***************************************************************************)
(* Who the user's characters follow.  A client changes the list of the     *)
(* character it shows at once and tells the server; the autosave writes    *)
(* all lists again a moment later.  Requests may be served in any order,   *)
(* be refused or fail.  A lover is followed without being asked, and       *)
(* follows back once the server has the follow.                            *)
(*                                                                         *)
(* The server's side is as the client uses it: a snapshot of rows only     *)
(* adds rows, a saved profile replaces them, a character that is no longer *)
(* public cannot be followed.  A shared id is named by its character.  The *)
(* numbers of followers and the posts that come with a follow are left     *)
(* out; saves after saves are in ClientPersistence.                        *)
(***************************************************************************)
EXTENDS Integers, FiniteSets

CONSTANTS
  Characters,     \* of the user
  Targets,        \* shared characters of others
  None,
  Lovers,         \* pairs <<character, target>>: a love of either of them
  MutualLovers,   \* ... of both
  MaxChanges      \* bound: what the user does

VARIABLES
  active,         \* activeId
  following,      \* by character: the list that is shown or kept with its account
  sharedCharacters,
  activeSharedId,
  shareLoads,     \* requests for the shared id of a character
  calls,          \* requests about follows
  dirty, saving,  \* an autosave is scheduled; the lists of the one in flight
  followBackSync, \* followBackSyncRef
  public,         \* the targets that can be followed
  rows,           \* pairs <<character, target>>: follows the server has
  backRows,       \* pairs <<target, character>>
  changes,
  expected,       \* history: follows whose lovers were asked, in order, to follow back
  disturbed,      \* history: a save failed, or a request was sent past an earlier one
  strayed         \* history: visibility was answered for a character no longer shown

followVars == <<active, following, sharedCharacters, activeSharedId, shareLoads, calls, dirty, saving,
                followBackSync, public, rows, backRows, changes, expected, disturbed, strayed>>

Lists == [Characters -> SUBSET Targets]
Pairs == Characters \X Targets
Kinds == {"follow", "unfollow", "snapshot", "back", "visibility"}
Call == [kind : Kinds, of : Characters, targets : SUBSET Targets, before : SUBSET Targets,
         share : Characters \cup {None}, number : 0..MaxChanges, reply : {"none", "ok", "refused"}]
AwaitsReply == {"follow", "unfollow", "visibility"}

TypeOK ==
  /\ active \in Characters /\ following \in Lists /\ sharedCharacters \subseteq Targets
  /\ activeSharedId \in Characters \cup {None}
  /\ shareLoads \subseteq [of : Characters, cancelled : BOOLEAN]
  /\ calls \subseteq Call
  /\ dirty \in BOOLEAN /\ saving \in Lists \cup {None}
  /\ followBackSync \subseteq Pairs /\ public \subseteq Targets
  /\ rows \subseteq Pairs /\ backRows \subseteq Targets \X Characters
  /\ changes \in 0..MaxChanges /\ expected \subseteq Pairs
  /\ disturbed \in BOOLEAN /\ strayed \in BOOLEAN

Init ==
  /\ active \in Characters
  /\ following = [c \in Characters |-> {}]
  /\ sharedCharacters = Targets
  /\ activeSharedId = None
  /\ shareLoads = {[of |-> active, cancelled |-> FALSE]}
  /\ calls = {} /\ dirty = FALSE /\ saving = None
  /\ followBackSync = {} /\ public = Targets /\ rows = {} /\ backRows = {}
  /\ changes = 0 /\ expected = {} /\ disturbed = FALSE /\ strayed = FALSE

-----------------------------------------------------------------------------
(* Requests. *)

NewCall(k, ts, list) ==
  [kind |-> k, of |-> active, targets |-> ts, before |-> list, share |-> activeSharedId,
   number |-> changes, reply |-> "none"]
syncOwnFollowRows(ts) == IF ts = {} THEN {} ELSE {NewCall("snapshot", ts, {})}
(* Asks the target to follow the shared character back. *)
recordRelationshipFollowBack(share, t) ==
  IF share = None THEN {}
  ELSE {[kind |-> "back", of |-> share, targets |-> {t}, before |-> {}, share |-> share,
         number |-> 0, reply |-> "none"]}

Pending == {c \in calls : c.kind \in {"follow", "unfollow", "snapshot"}}
Unserved == {c \in Pending : c.reply = "none"}
Send(new) == calls' = calls \cup new

(* The effect on the list, the shared id and the character: lovers that are followed follow back, *)
(* each asked once.                                                                               *)
Fresh == IF activeSharedId' = None THEN {}
         ELSE {t \in following'[active'] :
                 <<active', t>> \in MutualLovers /\ <<activeSharedId', t>> \notin followBackSync}
syncRelationshipFollowBack(base) ==
  /\ followBackSync' = followBackSync \cup {<<activeSharedId', t>> : t \in Fresh}
  /\ calls' = base \cup UNION {recordRelationshipFollowBack(activeSharedId', t) : t \in Fresh}
  /\ dirty' = (dirty \/ following' # following)
(* What was asked for no longer counts once the follow is gone. *)
StillExpected(added) == expected' = {p \in expected \cup added : p[2] \in following'[p[1]]}

-----------------------------------------------------------------------------
(* The character that is shown. *)

NotCancelled == shareLoads                                               \* mutant: the answer still counts
Cancelled == {[l EXCEPT !.cancelled = TRUE] : l \in shareLoads}
switchAccount(c) ==
  /\ c # active /\ changes < MaxChanges
  /\ active' = c /\ changes' = changes + 1
  /\ shareLoads' = Cancelled \cup {[of |-> c, cancelled |-> FALSE]}
  /\ UNCHANGED <<following, sharedCharacters, activeSharedId, saving, public, rows, backRows, disturbed, strayed>>
  /\ syncRelationshipFollowBack(calls) /\ StillExpected({})

loadActiveShare(l) ==
  /\ shareLoads' = shareLoads \ {l}
  /\ activeSharedId' \in IF l.cancelled THEN {activeSharedId} ELSE {l.of, None}
  /\ UNCHANGED <<active, following, sharedCharacters, saving, public, rows, backRows, changes, disturbed, strayed>>
  /\ syncRelationshipFollowBack(calls) /\ StillExpected({})

(* The characters to discover: all that are public, none when the request fails, or one of a link. *)
Discovered == {public, {}}
FoundByLink == {sharedCharacters \cup {t} : t \in public}
loadSharedCharacters ==
  /\ sharedCharacters' \in Discovered \cup FoundByLink
  /\ UNCHANGED <<active, following, activeSharedId, shareLoads, calls, dirty, saving, followBackSync, public,
                 rows, backRows, changes, expected, disturbed, strayed>>

setCharacterVisibility ==
  /\ changes < MaxChanges
  /\ Send({NewCall("visibility", {}, {})}) /\ changes' = changes + 1
  /\ UNCHANGED <<active, following, sharedCharacters, activeSharedId, shareLoads, dirty, saving, followBackSync,
                 public, rows, backRows, expected, disturbed, strayed>>

-----------------------------------------------------------------------------
(* The lists. *)

toggleFollow(t) ==
  LET list == following[active]
      already == t \in list
      next == IF already THEN list \ {t} ELSE list \cup {t}
  IN
  /\ changes < MaxChanges /\ t \in following[active] \cup sharedCharacters
  /\ following' = [following EXCEPT ![active] = next]
  /\ changes' = changes + 1
  /\ disturbed' = (disturbed \/ Pending # {} \/ saving # None)
  /\ UNCHANGED <<active, sharedCharacters, activeSharedId, shareLoads, saving, public, rows, backRows, strayed>>
  /\ syncRelationshipFollowBack(calls \cup syncOwnFollowRows(next)
       \cup {NewCall(IF already THEN "unfollow" ELSE "follow", {t}, list)})
  /\ StillExpected({})

(* A saved follow of a mutual lover is returned; the closure has the shared id of its render. *)
NotAskedAgain(c, t) == {}                                      \* mutant: the effect alone asks
applyFollowBackSeed(c, t) ==
  IF <<c.of, t>> \in MutualLovers THEN recordRelationshipFollowBack(c.share, t) ELSE {}

(* The list a refused change goes back to is the one its closure saw. *)
AnswerFollow(c) ==
  LET t == CHOOSE x \in c.targets : TRUE
      refused == c.reply = "refused"
      seeds == IF refused \/ c.kind = "unfollow" THEN {} ELSE applyFollowBackSeed(c, t)
      snapshot == IF refused THEN syncOwnFollowRows(c.before) ELSE {}
  IN
  /\ c.kind \in {"follow", "unfollow"}
  /\ following' = IF refused THEN [following EXCEPT ![active] = c.before] ELSE following
  /\ disturbed' = (disturbed \/ (refused /\ saving # None))
  /\ UNCHANGED <<active, sharedCharacters, activeSharedId, shareLoads, saving, public, rows, backRows, changes, strayed>>
  /\ syncRelationshipFollowBack((calls \ {c}) \cup seeds \cup snapshot)
  /\ StillExpected(IF ~ refused /\ c.kind = "follow" /\ c.share = c.of /\ <<c.of, t>> \in MutualLovers
                   THEN {<<c.of, t>>} ELSE {})

AnswerVisibility(c) ==
  /\ c.kind = "visibility"
  /\ activeSharedId' = IF c.reply = "ok" THEN c.of ELSE activeSharedId
  /\ strayed' = (strayed \/ (c.reply = "ok" /\ c.of # active))
  /\ UNCHANGED <<active, following, sharedCharacters, shareLoads, saving, public, rows, backRows, changes, disturbed>>
  /\ syncRelationshipFollowBack(calls \ {c}) /\ StillExpected({})

(* Affinity moved: every character follows its lovers among those it can find. *)
followTargets(c) == {t \in sharedCharacters : <<c, t>> \in Lovers}
relationAutoFollowsFor(c) == following[c] \cup followTargets(c)
applyRelationshipAutoFollows == [c \in Characters |-> relationAutoFollowsFor(c)]
normalizedFollowingSnapshot ==
  IF relationAutoFollowsFor(active) # following[active] THEN syncOwnFollowRows(relationAutoFollowsFor(active)) ELSE {}
SyncRelations ==
  /\ changes < MaxChanges /\ changes' = changes + 1
  /\ following' = applyRelationshipAutoFollows
  /\ UNCHANGED <<active, sharedCharacters, activeSharedId, shareLoads, saving, public, rows, backRows,
                 disturbed, strayed>>
  /\ syncRelationshipFollowBack(calls \cup normalizedFollowingSnapshot) /\ StillExpected({})

-----------------------------------------------------------------------------
(* The server. *)

Reply(c, ok) ==
  calls' = IF c.kind \in AwaitsReply
           THEN (calls \ {c}) \cup {[c EXCEPT !.reply = IF ok THEN "ok" ELSE "refused"]}
           ELSE calls \ {c}
Accepted(c) ==
  CASE c.kind = "follow" -> c.targets \subseteq public
    [] c.kind = "back" -> \A t \in c.targets : <<c.of, t>> \in rows \cap MutualLovers
    [] OTHER -> TRUE
Serve(c) ==
  LET pairs == {<<c.of, t>> : t \in c.targets} IN
  /\ c.reply = "none" /\ Reply(c, Accepted(c))
  /\ rows' = CASE c.kind \in {"follow", "snapshot"} /\ Accepted(c) -> rows \cup pairs
               [] c.kind = "unfollow" -> rows \ pairs
               [] OTHER -> rows
  /\ backRows' = IF c.kind = "back" /\ Accepted(c) THEN backRows \cup {<<p[2], p[1]>> : p \in pairs} ELSE backRows
  /\ UNCHANGED <<active, following, sharedCharacters, activeSharedId, shareLoads, dirty, saving, followBackSync,
                 public, changes, expected, disturbed, strayed>>
Fail(c) ==
  /\ c.reply = "none" /\ Reply(c, FALSE)
  /\ disturbed' = (disturbed \/ c.kind = "back")
  /\ UNCHANGED <<active, following, sharedCharacters, activeSharedId, shareLoads, dirty, saving, followBackSync,
                 public, rows, backRows, changes, expected, strayed>>

StoredLists(c) == IF c = active THEN {} ELSE following[c]     \* mutant: the shown list is left out
ListOf(c) == following[c]
Autosave ==
  /\ dirty /\ saving = None
  /\ saving' = [c \in Characters |-> ListOf(c)] /\ dirty' = FALSE
  /\ disturbed' = (disturbed \/ Unserved # {})
  /\ UNCHANGED <<active, following, sharedCharacters, activeSharedId, shareLoads, calls, followBackSync, public,
                 rows, backRows, changes, expected, strayed>>
SaveServed ==
  /\ saving # None /\ saving' = None
  /\ \/ rows' = {p \in Pairs : p[2] \in saving[p[1]]} /\ UNCHANGED disturbed
     \/ UNCHANGED rows /\ disturbed' = TRUE
  /\ UNCHANGED <<active, following, sharedCharacters, activeSharedId, shareLoads, calls, dirty, followBackSync,
                 public, backRows, changes, expected, strayed>>
MakePrivate(t) ==
  /\ t \in public /\ changes < MaxChanges /\ public' = public \ {t} /\ changes' = changes + 1
  /\ UNCHANGED <<active, following, sharedCharacters, activeSharedId, shareLoads, calls, dirty, saving,
                 followBackSync, rows, backRows, expected, disturbed, strayed>>

Next ==
  \/ \E c \in Characters : switchAccount(c)
  \/ \E l \in shareLoads : loadActiveShare(l)
  \/ loadSharedCharacters \/ setCharacterVisibility \/ SyncRelations
  \/ \E t \in Targets : toggleFollow(t) \/ MakePrivate(t)
  \/ \E c \in calls : Serve(c) \/ Fail(c)
  \/ \E c \in {d \in calls : d.reply # "none"} : AnswerFollow(c) \/ AnswerVisibility(c)
  \/ Autosave \/ SaveServed

Spec == Init /\ [][Next]_followVars

-----------------------------------------------------------------------------
Quiet == calls = {} /\ ~ dirty /\ saving = None
(* Refused and failed changes, switches of character and lovers included, the server ends with the *)
(* follows that are shown, if no save failed and requests were served in the order of the changes. *)
RowsSettle == Quiet /\ ~ disturbed => rows = {p \in Pairs : p[2] \in following[p[1]]}

(* A lover whose follow was saved under the follower's own shared id follows back, whichever  *)
(* request about it came first.  After a switch the id is the earlier character's until the   *)
(* new one's has come, and the lover is then asked to follow the earlier character.            *)
LoversReturn == Quiet /\ ~ disturbed => \A p \in expected : <<p[2], p[1]>> \in backRows

(* The shared id is of the character that is shown, unless its own is still being asked for. *)
ShareIsActive ==
  \/ activeSharedId \in {active, None} \/ strayed
  \/ \E l \in shareLoads : ~ l.cancelled

(* After all: the server has the follows that are shown, lovers follow back, one id is shared. *)
RelationsTrue == RowsSettle /\ LoversReturn /\ ShareIsActive
=============================================================================
