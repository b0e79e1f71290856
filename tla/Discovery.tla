------------------------------ MODULE Discovery ------------------------------
(***************************************************************************)
(* The characters of others that a user can find: the list of the discover *)
(* screen, the character of a link, the numbers of followers, and the      *)
(* followers of the user's own character.  Every screen asks for itself,   *)
(* and nothing orders the answers.                                         *)
(*                                                                         *)
(* A shared id is named by its character.  What the server keeps of        *)
(* follows is Follows; blocks are in SafetyGate, search is left out.       *)
(***************************************************************************)
EXTENDS Naturals, Sequences, FiniteSets

CONSTANTS
  Own,            \* characters of the user
  Targets,        \* characters of others
  None,
  FollowersOf,    \* by own character: the targets that follow it
  MaxAsked        \* bound: the user does nothing more after so many requests

VARIABLES
  step, activeId, activeSharedId, following,
  sharedCharacters,
  loading,         \* sharedLoadState.loading
  sharedFocusId, publicProfile, followerCounts,
  followPanel,     \* the modal of followers is open
  sharedFollowers,
  requests, asked, \* requests not yet answered, the number of all
  public, mine, others,  \* the server: who can be found, the user's follows, those of others
  disturbed,       \* history: kinds of requests that failed or were answered out of order
  unheard          \* history: what changed since the server last told of it

discoverVars == <<step, activeId, activeSharedId, following, sharedCharacters, loading, sharedFocusId,
                  publicProfile, followerCounts, followPanel, sharedFollowers, requests, asked, public,
                  mine, others, disturbed, unheard>>
serverVars == <<public, mine, others>>

Ids == Own \cup Targets
Kinds == {"list", "link", "counts", "followers", "share", "follow", "unfollow", "sync"}
Counts == [Ids -> Nat]
Followers == [loading : BOOLEAN, failed : BOOLEAN, rows : SUBSET Targets]
Request == [kind : Kinds, ids : SUBSET Ids, before : SUBSET Targets, number : Nat \ {0},
            reply : {"none", "ok", "failed"}, found : SUBSET Targets, counts : Counts]
NoCounts == [i \in Ids |-> 0]
NoFollowers == [loading |-> FALSE, failed |-> FALSE, rows |-> {}]

TypeOK ==
  /\ step \in {"home", "feed", "discover"}
  /\ activeId \in Own /\ activeSharedId \in Own \cup {None} /\ following \subseteq Targets
  /\ sharedCharacters \subseteq Targets /\ loading \in BOOLEAN
  /\ sharedFocusId \in Targets \cup {None} /\ publicProfile \in Targets \cup {None}
  /\ followerCounts \in [Ids -> Nat] /\ followPanel \in BOOLEAN /\ sharedFollowers \in Followers
  /\ requests \subseteq Request /\ asked \in Nat
  /\ public \subseteq Targets /\ mine \subseteq Targets /\ others \subseteq Targets
  /\ disturbed \subseteq Kinds /\ unheard \in [list : BOOLEAN, counts : SUBSET Targets]

-----------------------------------------------------------------------------
(* Requests. *)

New(kind, ids) ==
  [kind |-> kind, ids |-> ids, before |-> following, number |-> 1, reply |-> "none", found |-> {},
   counts |-> NoCounts]
Asks(base, news) ==
  /\ requests' = base \cup {[news[i] EXCEPT !.number = asked + i] : i \in DOMAIN news}
  /\ asked' = asked + Len(news)
MayAsk == asked < MaxAsked

loadFollowerCountsFor(ids) == IF ids = {} THEN <<>> ELSE <<New("counts", ids)>>
loadSharedCharacters == <<New("list", {})>>
loadSharedFollowers(share) == <<New("followers", {share})>>
syncOwnFollowRows(rows) == IF rows = {} THEN <<>> ELSE <<New("sync", rows)>>
loadActiveShare(c) == <<New("share", {c})>>
NoRecount(t) == <<>>                                   \* mutant: the number is only moved by one
Recount(t) == loadFollowerCountsFor({t})

(* A shared link sets the step, which loads the list. *)
Init ==
  /\ activeId \in Own /\ activeSharedId = None /\ following = {}
  /\ sharedCharacters = {} /\ publicProfile = None /\ followerCounts = NoCounts
  /\ followPanel = FALSE /\ sharedFollowers = NoFollowers
  /\ public = Targets /\ mine = {} /\ others = {} /\ disturbed = {}
  /\ unheard = [list |-> TRUE, counts |-> {}]
  /\ sharedFocusId \in Targets \cup {None}
  /\ LET share == [New("share", {activeId}) EXCEPT !.number = 1]
         link == [New("link", {sharedFocusId}) EXCEPT !.number = 2]
         list == [New("list", {}) EXCEPT !.number = 3]
     IN IF sharedFocusId = None
        THEN step \in {"home", "feed"} /\ loading = FALSE /\ requests = {share} /\ asked = 1
        ELSE step = "discover" /\ loading = TRUE /\ requests = {share, link, list} /\ asked = 3

-----------------------------------------------------------------------------
(* The user. *)

Overlay == publicProfile # None \/ followPanel
(* The effect of the step and the user. *)
Go(s) ==
  /\ s # step /\ ~ Overlay /\ (s = "discover" => MayAsk)
  /\ step' = s
  /\ loading' = (loading \/ s = "discover")
  /\ Asks(requests, IF s = "discover" THEN loadSharedCharacters ELSE <<>>)
  /\ UNCHANGED <<activeId, activeSharedId, following, sharedCharacters, sharedFocusId, publicProfile,
                 followerCounts, followPanel, sharedFollowers, serverVars, disturbed, unheard>>
LoadAgain ==
  /\ step = "discover" /\ ~ Overlay /\ ~ loading /\ MayAsk
  /\ loading' = TRUE /\ Asks(requests, loadSharedCharacters)
  /\ UNCHANGED <<step, activeId, activeSharedId, following, sharedCharacters, sharedFocusId, publicProfile,
                 followerCounts, followPanel, sharedFollowers, serverVars, disturbed, unheard>>

List == IF sharedFocusId = None THEN sharedCharacters ELSE sharedCharacters \cap {sharedFocusId}
Look ==
  /\ step = "discover"
  /\ \/ sharedFocusId' = None /\ sharedFocusId # None /\ UNCHANGED publicProfile
     \/ publicProfile' \in (List \cup {None}) \ {publicProfile} /\ UNCHANGED sharedFocusId
  /\ UNCHANGED <<step, activeId, activeSharedId, following, sharedCharacters, loading, followerCounts,
                 followPanel, sharedFollowers, requests, asked, serverVars, disturbed, unheard>>

toggleFollow(t) ==
  LET already == t \in following
      next == IF already THEN following \ {t} ELSE following \cup {t} IN
  /\ MayAsk /\ IF publicProfile = None THEN step = "discover" /\ t \in List ELSE t = publicProfile
  /\ following' = next
  /\ Asks(requests, Append(syncOwnFollowRows(next), New(IF already THEN "unfollow" ELSE "follow", {t})))
  /\ UNCHANGED <<step, activeId, activeSharedId, sharedCharacters, loading, sharedFocusId, publicProfile,
                 followerCounts, followPanel, sharedFollowers, serverVars, disturbed, unheard>>

(* Another character is opened from home: its share id is asked for, an older question is cancelled. *)
switchAccount(c) ==
  /\ step = "home" /\ c # activeId /\ MayAsk
  /\ activeId' = c /\ step' = "feed"
  /\ Asks({r \in requests : r.kind # "share"}, loadActiveShare(c))
  /\ UNCHANGED <<activeSharedId, following, sharedCharacters, loading, sharedFocusId, publicProfile,
                 followerCounts, followPanel, sharedFollowers, serverVars, disturbed, unheard>>

toggleFollowPanel ==
  /\ step = "feed" /\ publicProfile = None
  /\ followPanel' = ~ followPanel
  /\ IF followPanel \/ activeSharedId = None THEN UNCHANGED <<sharedFollowers, requests, asked, disturbed>>
     ELSE /\ MayAsk /\ Asks(requests, loadSharedFollowers(activeSharedId))
          /\ sharedFollowers' = [loading |-> TRUE, failed |-> FALSE, rows |-> {}]
          /\ UNCHANGED disturbed
  /\ UNCHANGED <<step, activeId, activeSharedId, following, sharedCharacters, loading, sharedFocusId,
                 publicProfile, followerCounts, serverVars, unheard>>

-----------------------------------------------------------------------------
(* The server. *)

CountOf(i) ==
  IF i \in Own THEN Cardinality(FollowersOf[i])
  ELSE IF i \notin public THEN 0
  ELSE Cardinality({x \in {"mine"} : i \in mine}) + Cardinality({x \in {"others"} : i \in others})
Told(r) ==
  [r EXCEPT !.reply = "ok",
            !.found = CASE r.kind = "list" -> public
                        [] r.kind = "link" -> r.ids \cap public
                        [] r.kind = "followers" -> UNION {FollowersOf[i] : i \in r.ids}
                        [] OTHER -> {},
            !.counts = IF r.kind = "counts" THEN [i \in Ids |-> IF i \in r.ids THEN CountOf(i) ELSE 0] ELSE @]
Earlier(r) ==
  {q \in requests : q.kind = r.kind /\ q.number < r.number /\ (r.kind = "counts" => q.ids \cap r.ids # {})}
Heard(r) ==
  [list |-> unheard.list /\ r.kind # "list",
   counts |-> IF r.kind = "counts" THEN unheard.counts \ r.ids ELSE unheard.counts]

(* The snapshot of follows puts in rows only, also of those that follow no more, and nobody waits for it. *)
ServeSync(r) ==
  /\ r.kind = "sync" /\ requests' = requests \ {r}
  /\ \/ mine' = mine \cup r.ids /\ unheard' = [unheard EXCEPT !.counts = @ \cup (r.ids \ mine)]
     \/ UNCHANGED <<mine, unheard>>
  /\ UNCHANGED <<step, activeId, activeSharedId, following, sharedCharacters, loading, sharedFocusId,
                 publicProfile, followerCounts, followPanel, sharedFollowers, asked, public, others, disturbed>>

(* A request is served, refused or lost, perhaps after what it asked for was done. *)
Serve(r, reply) ==
  LET refused == r.kind = "follow" /\ ~ r.ids \subseteq public IN
  /\ r.reply = "none" /\ r.kind # "sync"
  /\ requests' = (requests \ {r}) \cup
                   {IF reply = "failed" \/ refused THEN [r EXCEPT !.reply = "failed"] ELSE Told(r)}
  /\ mine' = CASE r.kind = "follow" /\ ~ refused -> mine \cup r.ids
               [] r.kind = "unfollow" -> mine \ r.ids
               [] OTHER -> mine
  /\ unheard' = IF reply = "failed" THEN unheard ELSE Heard(r)
  /\ disturbed' = disturbed \cup
       {k \in {r.kind} : reply = "failed" \/ \E q \in Earlier(r) : q.reply = "none"}
  /\ UNCHANGED <<step, activeId, activeSharedId, following, sharedCharacters, loading, sharedFocusId,
                 publicProfile, followerCounts, followPanel, sharedFollowers, asked, public, others>>
NotReached(r) ==
  /\ r.reply = "none" /\ r.kind # "sync"
  /\ requests' = (requests \ {r}) \cup {[r EXCEPT !.reply = "failed"]}
  /\ disturbed' = disturbed \cup {r.kind}
  /\ UNCHANGED <<step, activeId, activeSharedId, following, sharedCharacters, loading, sharedFocusId,
                 publicProfile, followerCounts, followPanel, sharedFollowers, asked, serverVars, unheard>>

(* Other users hide and show their characters, and follow. *)
OthersChange(t) ==
  /\ asked < MaxAsked
  /\ \/ public' = (public \cup {t}) \ (public \cap {t}) /\ UNCHANGED others
        /\ unheard' = [list |-> TRUE, counts |-> unheard.counts \cup {t}]
     \/ others' = others \cup {t} /\ t \notin others /\ UNCHANGED public
        /\ unheard' = [unheard EXCEPT !.counts = @ \cup {t}]
  /\ UNCHANGED <<step, activeId, activeSharedId, following, sharedCharacters, loading, sharedFocusId,
                 publicProfile, followerCounts, followPanel, sharedFollowers, requests, asked, mine, disturbed>>

-----------------------------------------------------------------------------
(* Answers. *)

Answers(r) ==
  /\ r.reply # "none"
  /\ disturbed' = disturbed \cup {k \in {r.kind} : Earlier(r) # {}}
  /\ UNCHANGED <<activeId, step, sharedFocusId, followPanel, serverVars, unheard>>
Ok(r) == r.reply = "ok"

AnswerCounts(r) ==
  /\ r.kind = "counts" /\ Answers(r)
  /\ followerCounts' = IF Ok(r) THEN [i \in Ids |-> IF i \in r.ids THEN r.counts[i] ELSE followerCounts[i]]
                       ELSE followerCounts
  /\ Asks(requests \ {r}, <<>>)
  /\ UNCHANGED <<activeSharedId, following, sharedCharacters, loading, publicProfile, sharedFollowers>>

(* A failed list is shown as an empty one. *)
AnswerList(r) ==
  /\ r.kind = "list" /\ Answers(r)
  /\ sharedCharacters' = r.found /\ loading' = FALSE
  /\ Asks(requests \ {r}, loadFollowerCountsFor(r.found))
  /\ UNCHANGED <<activeSharedId, following, publicProfile, followerCounts, sharedFollowers>>

(* The character of a link, and the list in any case. *)
AnswerLinkOnly(r) == <<>>                              \* mutant: the list is not loaded behind the link
Behind(r) == loadSharedCharacters
AnswerLink(r) ==
  /\ r.kind = "link" /\ Answers(r)
  /\ sharedCharacters' = sharedCharacters \cup r.found
  /\ publicProfile' \in IF r.found = {} THEN {publicProfile} ELSE r.found
  /\ loading' = TRUE
  /\ Asks(requests \ {r}, loadFollowerCountsFor(r.found) \o Behind(r))
  /\ UNCHANGED <<activeSharedId, following, followerCounts, sharedFollowers>>

AnswerShare(r) ==
  /\ r.kind = "share" /\ r.reply # "none"
  /\ activeSharedId' \in IF Ok(r) THEN r.ids \cup {None} ELSE {None}
  /\ Asks(requests \ {r}, loadFollowerCountsFor({activeSharedId'} \ {None}))
  /\ disturbed' = disturbed \cup {k \in {"followers"} : followPanel}
  /\ UNCHANGED <<activeId, step, sharedFocusId, followPanel, serverVars, unheard, following, sharedCharacters,
                 loading, publicProfile, followerCounts, sharedFollowers>>

StillLoading(r) == ~ Ok(r)                             \* mutant: an error leaves the sign of loading
Loaded(r) == FALSE
AnswerFollowers(r) ==
  /\ r.kind = "followers" /\ Answers(r)
  /\ sharedFollowers' = [loading |-> Loaded(r), failed |-> ~ Ok(r), rows |-> r.found]
  /\ Asks(requests \ {r}, loadFollowerCountsFor(r.found))
  /\ UNCHANGED <<activeSharedId, following, sharedCharacters, loading, publicProfile, followerCounts>>

updateFollowerCount(r) ==
  [i \in Ids |-> IF i \notin r.ids THEN followerCounts[i]
                 ELSE IF r.kind = "follow" THEN followerCounts[i] + 1
                 ELSE IF followerCounts[i] = 0 THEN 0 ELSE followerCounts[i] - 1]
recordFollowChange(r) ==
  /\ r.kind \in {"follow", "unfollow"} /\ Answers(r)
  /\ followerCounts' = IF Ok(r) THEN updateFollowerCount(r) ELSE followerCounts
  /\ following' = IF Ok(r) THEN following ELSE r.before
  /\ \E t \in r.ids : Asks(requests \ {r}, (IF Ok(r) THEN <<>> ELSE syncOwnFollowRows(r.before)) \o Recount(t))
  /\ UNCHANGED <<activeSharedId, sharedCharacters, loading, publicProfile, sharedFollowers>>

-----------------------------------------------------------------------------
Answered ==
  \E r \in requests :
    \/ ServeSync(r) \/ Serve(r, "ok") \/ Serve(r, "failed") \/ NotReached(r)
    \/ AnswerCounts(r) \/ AnswerList(r) \/ AnswerLink(r) \/ AnswerShare(r) \/ AnswerFollowers(r)
    \/ recordFollowChange(r)
Finding ==
  \/ \E s \in {"feed", "discover"} : Go(s)
  \/ LoadAgain \/ Look
  \/ \E t \in Targets : toggleFollow(t) \/ OthersChange(t)
Showing ==
  \/ \E s \in {"home", "feed"} : Go(s)
  \/ \E c \in Own : switchAccount(c)
  \/ toggleFollowPanel
Next == Answered \/ Finding \/ Showing

Spec == Init /\ [][Next]_discoverVars

-----------------------------------------------------------------------------
Of(kinds) == {r \in requests : r.kind \in kinds}
(* The screen says that it loads only while it does, and when nothing is on its way it lists who *)
(* can be found, unless a list failed, came late, or somebody hid since.                          *)
ListSettles ==
  /\ loading => Of({"list", "link"}) # {}
  /\ Of({"list", "link"}) = {} /\ ~ unheard.list /\ "list" \notin disturbed => sharedCharacters = public

(* The numbers of followers end as the server's, also when a follow is counted before its answer *)
(* comes, is refused, or its answer is lost.                                                      *)
CountsSettle ==
  \A t \in sharedCharacters :
    (\A r \in Of({"counts", "follow", "unfollow"}) : t \notin r.ids) /\ t \notin unheard.counts
      /\ "counts" \notin disturbed
    => followerCounts[t] = CountOf(t)

(* The modal of followers loads only while it does, and when nothing is on its way it shows those of *)
(* the shared character, unless an answer came late or the shared id after the modal was opened.     *)
FollowersSettle ==
  /\ sharedFollowers.loading => Of({"followers"}) # {}
  /\ followPanel /\ activeSharedId # None /\ Of({"followers"}) = {} /\ ~ sharedFollowers.failed
       /\ "followers" \notin disturbed
     => sharedFollowers.rows = FollowersOf[activeSharedId]
=============================================================================
