--------------------------- MODULE FollowedLikes ---------------------------
(***************************************************************************)
(* The likes a character has given to posts of those it follows.  The      *)
(* client shows a like at once and sends it; entering the feed, another    *)
(* character and other posts ask for all likes again.  Answers come in any *)
(* order.  A character that is left with changes on their way and shown    *)
(* again no longer waits for them, and their answers still count.          *)
(***************************************************************************)
EXTENDS Naturals

CONSTANTS
  Characters, None,
  Targets,        \* posts of followed characters
  AnswersLost,    \* whether the answer to a like the server has stored may be lost
  MaxUpdates      \* bound: updates on their way

VARIABLES
  liked,     \* on the server: who likes what
  activeId, onFeed,
  state,     \* what is shown of each post: whether it is liked, or None before anything is known
  pending,   \* pendingRef
  queries,   \* requests for all likes that are not cancelled, with their answer when there is one
  updates,   \* updates of a like, with the request's answer when there is one
  left       \* history: the likes whose character was left with changes of them on their way

vars == <<liked, activeId, onFeed, state, pending, queries, updates, left>>

Shown == BOOLEAN \cup {None}
Likes == [Targets -> BOOLEAN]
Query == [answer : Likes \cup {None}]
Update == [id : 1..MaxUpdates, of : Characters, key : Targets, next : BOOLEAN, previous : Shown,
           answered : BOOLEAN]    \* the id tells equal requests apart

TypeOK ==
  /\ liked \in [Characters -> Likes]
  /\ activeId \in Characters \cup {None} /\ onFeed \in BOOLEAN
  /\ state \in [Targets -> Shown] /\ pending \subseteq Targets
  /\ queries \subseteq Query /\ updates \subseteq Update /\ left \subseteq Characters \X Targets

Unknown == [k \in Targets |-> None]
Init ==
  /\ liked \in [Characters -> Likes]
  /\ activeId = None /\ onFeed = FALSE
  /\ state = Unknown /\ pending = {} /\ queries = {} /\ updates = {} /\ left = {}

(* Home, the feed or another screen; another character is chosen at home.  The effects of a  *)
(* click run before the next event: the requests of the last render are cancelled, and       *)
(* another character starts without pending likes.                                           *)
Show(c, feed) ==
  /\ <<c, feed>> # <<activeId, onFeed>>
  /\ onFeed => c = activeId
  /\ activeId' = c /\ onFeed' = feed
  /\ pending' = IF c = activeId THEN pending ELSE {}
  /\ IF c = None \/ ~ feed
     THEN state' = Unknown /\ queries' = {}
     ELSE queries' = {[answer |-> None]} /\ UNCHANGED state
  /\ left' = IF c = activeId THEN left ELSE {<<u.of, u.key>> : u \in updates}
  /\ UNCHANGED <<liked, updates>>

(* Other posts are shown (the signature of the targets changes). *)
Requery ==
  /\ activeId # None /\ onFeed
  /\ queries' = {[answer |-> None]}
  /\ UNCHANGED <<liked, activeId, onFeed, state, pending, updates, left>>

(* toggleFollowedLike: a post with a pending like is left alone. *)
Impatient(k) == TRUE                               \* mutant: a post can be liked twice at once
MayToggle(k) == k \notin pending
Toggle(k, id) ==
  /\ activeId # None /\ onFeed /\ MayToggle(k) /\ \A u \in updates : u.id # id
  /\ pending' = pending \cup {k}
  /\ state' = [state EXCEPT ![k] = @ # TRUE]
  /\ updates' = updates \cup {[id |-> id, of |-> activeId, key |-> k, next |-> state[k] # TRUE,
                               previous |-> state[k], answered |-> FALSE]}
  /\ UNCHANGED <<liked, activeId, onFeed, queries, left>>

-----------------------------------------------------------------------------
(* The server. *)
ServeQuery(q) ==
  /\ q \in queries /\ q.answer = None
  /\ queries' = (queries \ {q}) \cup {[answer |-> liked[activeId]]}
  /\ UNCHANGED <<liked, activeId, onFeed, state, pending, updates, left>>
ServeUpdate(u) ==
  /\ u \in updates /\ ~ u.answered
  /\ liked' = [liked EXCEPT ![u.of][u.key] = u.next]
  /\ updates' = (updates \ {u}) \cup {[u EXCEPT !.answered = TRUE]}
  /\ UNCHANGED <<activeId, onFeed, state, pending, queries, left>>

(* mergedRefreshedLikes: a pending like keeps what is shown. *)
Replaced(likes) == likes                           \* mutant: the answer replaces pending likes
Merged(likes) == [k \in Targets |-> IF k \in pending /\ state[k] # None THEN state[k] ELSE likes[k]]
QueryAnswered(q) ==
  /\ q \in queries
  /\ queries' = queries \ {q}
  /\ \/ q.answer # None /\ state' = Merged(q.answer)
     \/ UNCHANGED state                            \* an error
  /\ UNCHANGED <<liked, activeId, onFeed, pending, updates, left>>

(* persistFollowedLike: the answer to another character's request is dropped.  Any other     *)
(* answer ends the wait for the like, whichever of its changes it belongs to.                *)
Anyone(u) == TRUE                                  \* mutant: whoever is shown
Current(u) == activeId = u.of
NotSettled(u) == pending' = IF Current(u) /\ u.answered THEN pending \ {u.key} ELSE pending  \* mutant
Settled(u) == pending' = IF Current(u) THEN pending \ {u.key} ELSE pending
UpdateAnswered(u) ==
  /\ u \in updates /\ u.answered
  /\ updates' = updates \ {u}
  /\ state' = IF Current(u) THEN [state EXCEPT ![u.key] = u.next] ELSE state
  /\ Settled(u)
  /\ UNCHANGED <<liked, activeId, onFeed, queries, left>>
(* restoredLikeState *)
UpdateFailed(u) ==
  /\ u \in updates /\ (u.answered => AnswersLost)
  /\ updates' = updates \ {u}
  /\ state' = IF Current(u) THEN [state EXCEPT ![u.key] = u.previous] ELSE state
  /\ Settled(u)
  /\ UNCHANGED <<liked, activeId, onFeed, queries, left>>

Next ==
  \/ \E c \in Characters \cup {None}, feed \in BOOLEAN : Show(c, feed)
  \/ Requery
  \/ \E k \in Targets, id \in 1..MaxUpdates : Toggle(k, id)
  \/ \E q \in queries : ServeQuery(q) \/ QueryAnswered(q)
  \/ \E u \in updates : ServeUpdate(u) \/ UpdateAnswered(u) \/ UpdateFailed(u)

Spec == Init /\ [][Next]_vars

-----------------------------------------------------------------------------
(* An answer to one character's request never changes what is shown of another's likes. *)
FencedStep ==
  \A u \in updates \ updates' : u.of # activeId /\ UNCHANGED activeId => UNCHANGED <<state, pending>>

(* While a like waits, nothing but the answer to a change of it by that character changes what *)
(* is shown of it.  That is its own answer, for no other change of it is on its way, unless    *)
(* the character was left while one was: after such a visit to another character the earlier   *)
(* answer may overwrite what is shown and end the wait.                                        *)
OnlyChange(u) == \A w \in updates : w.of = u.of /\ w.key = u.key => w = u
PendingStep ==
  \A k \in Targets :
    /\ k \in pending /\ state[k] # None /\ UNCHANGED <<activeId, onFeed>>
    /\ state'[k] # state[k]
    => \E u \in updates \ updates' :
         u.key = k /\ u.of = activeId /\ (<<activeId, k>> \notin left => OnlyChange(u))

LikesShown == [][FencedStep /\ PendingStep]_vars

(* A like that is pending has its answer on its way: its button can be used again. *)
LikesSettle == \A k \in pending : \E u \in updates : u.key = k /\ u.of = activeId
=============================================================================
