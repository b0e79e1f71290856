--------------------------- MODULE CharacterPosts ---------------------------
(***************************************************************************)
(* The feed posts of one character.  Its owner's clients save the list     *)
(* against a revision, visitors comment, and sessions of the server        *)
(* generate posts through the metered AI call: on the owner's request or   *)
(* automatically, under a claim with a lease.                              *)
(*                                                                         *)
(* One action is one database transaction.  A generating session reads the *)
(* character before it calls the provider and holds it until it ends: when *)
(* it locks the row to add the post, it still sees what it read then, and  *)
(* only the columns that differ from that are written.                     *)
(***************************************************************************)
EXTENDS Integers, FiniteSets, FiniteSetsExt

CONSTANTS
  Clients,       \* devices of the owner that show the posts
  Sessions,      \* server sessions that generate posts
  RequestKeys,   \* idempotency keys of the owner's requests
  None,
  MaxPosts,      \* schemas/character_posts.py MAX_CHARACTER_POSTS
  Interval, Lease, ReservationTTL,     \* in ticks
  RetryBase, RetryMax,
  Profiles,      \* what the owner may write in the character's profile
  Punctual,      \* TRUE: a session ends before its reservation expires
  MaxItems,      \* bound: posts and comments ever written
  MaxRevision,   \* bound: saved revisions
  MaxTime        \* bound: the last tick

Ids == 1..MaxItems
Items == [post : Ids, id : Ids]    \* a post is the item with its own id, the others are comments
Times == 0..(MaxTime + Interval + RetryMax)
AutoKeys == Times                  \* auto_post_request_key, of the scheduled time
Keys == RequestKeys \cup AutoKeys

ASSUME PostsAssumption ==
  /\ None \notin Times \cup Ids /\ RequestKeys \cap Times = {}
  /\ {MaxPosts, Interval, Lease, ReservationTTL, RetryBase, RetryMax} \subseteq Nat \ {0}
  /\ {MaxItems, MaxTime, MaxRevision} \subseteq Nat
  /\ Profiles # {}
  /\ Punctual \in BOOLEAN

VARIABLES
  now,
  row,       \* characters: the columns below
  shared,    \* shared_characters.character: posts and profile, or None
  nextId,    \* the next post or comment
  gone,      \* items that a client removed or that the limit pushed out
  view,      \* what each client last got: posts and revision
  usage,     \* credit_usages of the character's owner, by idempotency key
  session    \* each generating session

vars == <<now, row, shared, nextId, gone, view, usage, session>>

Row == [posts : SUBSET Items, revision : 0..MaxRevision, enabled : BOOLEAN, next : Times \cup {None},
        claimed : Times \cup {None}, failures : Nat, last : Times \cup {None},
        public : BOOLEAN, profile : Profiles]
Snapshot == [posts : SUBSET Items, profile : Profiles]
View == [posts : SUBSET Items, revision : 0..MaxRevision]
Usage == [status : {"none", "reserved", "committed", "refunded"}, created : Times,
          post : Ids \cup {None}]
NoUsage == [status |-> "none", created |-> 0, post |-> None]
Steps == {"idle", "read", "reserve", "provider", "answered", "failed", "release"}
Failures == {"", "insufficient", "retry"}
Session == [step : Steps, key : Keys \cup {None}, claim : Times \cup {None}, since : Times,
            counted : Nat, seen : Row \cup {None}, failure : Failures]
Idle == [step |-> "idle", key |-> None, claim |-> None, since |-> 0, counted |-> 0,
         seen |-> None, failure |-> ""]

PostsIn(items) == {i.post : i \in items}

TypeOK ==
  /\ now \in 0..MaxTime
  /\ row \in Row /\ Cardinality(PostsIn(row.posts)) <= MaxPosts
  /\ shared \in Snapshot \cup {None}
  /\ nextId \in 1..(MaxItems + 1)
  /\ gone \subseteq Items
  /\ view \in [Clients -> View]
  /\ usage \in [Keys -> Usage]
  /\ session \in [Sessions -> Session]

Init ==
  /\ now = 0
  /\ row \in [posts : {{}}, revision : {0}, enabled : {TRUE}, next : {Interval}, claimed : {None},
              failures : {0}, last : {None}, public : {TRUE}, profile : Profiles]
  /\ shared = [posts |-> {}, profile |-> row.profile]
  /\ nextId = 1
  /\ gone = {}
  /\ view = [c \in Clients |-> [posts |-> {}, revision |-> 0]]
  /\ usage = [k \in Keys |-> NoUsage]
  /\ session = [s \in Sessions |-> Idle]

-----------------------------------------------------------------------------
Oldest(items) ==             \* mutant: the list is cut at its new end
  LET kept(p) == Cardinality({q \in PostsIn(items) : q < p}) < MaxPosts
  IN  {i \in items : kept(i.post)}
(* The first MaxPosts of a list, newest first. *)
Newest(items) ==
  LET kept(p) == Cardinality({q \in PostsIn(items) : q > p}) < MaxPosts
  IN  {i \in items : kept(i.post)}

(* _sync_shared_posts: a public character's snapshot is made if there is none. *)
SnapshotOf(r) == [posts |-> r.posts, profile |-> r.profile]
PostsSynced(r) == IF r.public THEN SnapshotOf(r) ELSE shared

-----------------------------------------------------------------------------
(* The owner's clients and visitors; each reads, locks and writes at once.   *)
Load(c) ==
  /\ view' = [view EXCEPT ![c] = [posts |-> row.posts, revision |-> row.revision]]
  /\ UNCHANGED <<now, row, shared, nextId, gone, usage, session>>

(* What a client can make of the posts it shows: another post first, a post or comment less. *)
Edits(items) ==
  {items \cup {[post |-> nextId, id |-> nextId]}}
    \cup {items \cup {[post |-> p, id |-> nextId]} : p \in PostsIn(items)}
    \cup {{i \in items : i.post # p} : p \in PostsIn(items)}
    \cup {items \ {i} : i \in {j \in items : j.id # j.post}}

CurrentOrOlder(c) == view[c].revision <= row.revision   \* mutant: the revision is not compared
Current(c) == view[c].revision = row.revision

FitsAny(posts) == TRUE                     \* mutant: a list of any length is taken
Fits(posts) == Cardinality(PostsIn(posts)) <= MaxPosts

(* The revision that conflicts is loaded and the edit made again. *)
Save(c) ==
  /\ Current(c)
  /\ row.revision < MaxRevision
  /\ \E posts \in Edits(view[c].posts) :
       /\ posts \subseteq [post : Ids, id : Ids] /\ Fits(posts)
       /\ row' = [row EXCEPT !.posts = posts, !.revision = @ + 1]
       /\ gone' = gone \cup (view[c].posts \ posts)
       /\ nextId' = IF posts \subseteq view[c].posts THEN nextId ELSE nextId + 1
       /\ view' = [view EXCEPT ![c] = [posts |-> posts, revision |-> row.revision + 1]]
  /\ shared' = PostsSynced(row')
  /\ UNCHANGED <<now, usage, session>>

(* append_public_comment: the list it appends to is read under the lock. *)
Comment(p) ==
  /\ row.public /\ shared # None
  /\ p \in PostsIn(row.posts)
  /\ nextId <= MaxItems /\ row.revision < MaxRevision
  /\ row' = [row EXCEPT !.posts = @ \cup {[post |-> p, id |-> nextId]}, !.revision = @ + 1]
  /\ nextId' = nextId + 1
  /\ shared' = PostsSynced(row')
  /\ UNCHANGED <<now, gone, view, usage, session>>

(* CharacterRepository.save: the upsert does not touch posts; a snapshot is renewed. *)
EditProfile(profile) ==
  /\ row' = [row EXCEPT !.profile = profile]
  /\ shared' = IF shared = None THEN None ELSE SnapshotOf(row')
  /\ UNCHANGED <<now, nextId, gone, view, usage, session>>

ShownAsHidden(public) ==     \* mutant: the snapshot is not renewed when it is shown again
  /\ row' = [row EXCEPT !.public = public]
  /\ UNCHANGED <<now, shared, nextId, gone, view, usage, session>>
UpdateVisibility(public) ==
  /\ row' = [row EXCEPT !.public = public]
  /\ shared' = IF public THEN SnapshotOf(row') ELSE shared
  /\ UNCHANGED <<now, nextId, gone, view, usage, session>>

(* next_auto_post_schedule and the claim that an explicit choice of the owner ends. *)
NextSchedule(enabled) ==
  IF ~ enabled THEN None
  ELSE IF ~ row.enabled \/ row.next = None \/ (row.next # None /\ row.next <= now) THEN now + Interval
  ELSE Min({row.next, now + Interval})
UpdateAutoPost(enabled) ==
  /\ row' = [row EXCEPT !.enabled = enabled, !.next = NextSchedule(enabled), !.claimed = None,
                        !.failures = 0]
  /\ UNCHANGED <<now, shared, nextId, gone, view, usage, session>>

-----------------------------------------------------------------------------
Goes(s, record) == session' = [session EXCEPT ![s] = record]
Automatic(s) == session[s].claim # None

(* AutoPostRepository.claim_next *)
ClaimedForGood(t) == t = None      \* mutant: a claim has no lease
Claimable(t) == t = None \/ (t # None /\ t <= now - Lease)
Due(r) == r.enabled /\ r.next # None /\ (r.next # None => r.next <= now) /\ Claimable(r.claimed)

(* auto_post_request_key *)
RequestKey(r) == r.next
Claim(s) ==
  /\ session[s].step = "idle"
  /\ Due(row)
  /\ row' = [row EXCEPT !.claimed = now]
  /\ Goes(s, [Idle EXCEPT !.step = "read", !.key = RequestKey(row), !.claim = now, !.since = now,
                          !.counted = row.failures])
  /\ UNCHANGED <<now, shared, nextId, gone, view, usage>>

(* POST /characters/{id}/posts/generate *)
Request(s, k) ==
  /\ session[s].step = "idle"
  /\ Goes(s, [Idle EXCEPT !.step = "read", !.key = k, !.since = now])
  /\ UNCHANGED <<now, row, shared, nextId, gone, view, usage>>

(* owned_character: from here on the session holds the row as it is now. *)
Read(s) ==
  /\ session[s].step = "read"
  /\ Goes(s, [session[s] EXCEPT !.step = "reserve", !.seen = row])
  /\ UNCHANGED <<now, row, shared, nextId, gone, view, usage>>

(* Reservations that are over are refunded whenever the account is looked at. *)
Settled ==
  [k \in Keys |-> IF usage[k].status = "reserved" /\ usage[k].created < now - ReservationTTL
                  THEN [usage[k] EXCEPT !.status = "refunded"] ELSE usage[k]]
Expire ==
  /\ usage' = Settled
  /\ UNCHANGED <<now, row, shared, nextId, gone, view, session>>

Ends(s) == Goes(s, Idle)
FailsWith(s, failure) ==
  IF Automatic(s) THEN Goes(s, [session[s] EXCEPT !.step = "failed", !.failure = failure]) ELSE Ends(s)

(* CreditRepository.reserve and AiUsageRepository.reserve; see CreditUsage for who is refused. *)
Reserve(s) ==
  LET k == session[s].key
      known == Settled[k].status
  IN  /\ session[s].step = "reserve"
      /\ \/ known = "committed" /\ Ends(s) /\ usage' = Settled
         \/ known \in {"reserved", "refunded"} /\ FailsWith(s, "retry") /\ usage' = Settled
         \/ /\ known = "none"
            /\ \/ \E failure \in {"insufficient", "retry"} : FailsWith(s, failure) /\ usage' = Settled
               \/ /\ FailsWith(s, "retry")
                  /\ usage' = [Settled EXCEPT ![k] = [NoUsage EXCEPT !.status = "refunded", !.created = now]]
               \/ /\ Goes(s, [session[s] EXCEPT !.step = "provider"])
                  /\ usage' = [Settled EXCEPT ![k] = [NoUsage EXCEPT !.status = "reserved", !.created = now]]
      /\ UNCHANGED <<now, row, shared, nextId, gone, view>>

(* refund_usage *)
Refunded(k) ==
  IF usage[k].status = "reserved" THEN [usage EXCEPT ![k].status = "refunded"] ELSE usage

(* The provider answers, with a usable post or not; for the failures the charge is refunded. *)
Provide(s) ==
  /\ session[s].step = "provider"
  /\ \/ Goes(s, [session[s] EXCEPT !.step = "answered"]) /\ UNCHANGED usage
     \/ FailsWith(s, "retry") /\ usage' = Refunded(session[s].key)
  /\ UNCHANGED <<now, row, shared, nextId, gone, view>>

(* The server is shut down or a step fails unexpectedly: a new session frees the claim. Only *)
(* while the provider works is the charge refunded; otherwise it stays until it expires.     *)
Cancel(s) ==
  /\ session[s].step \in {"read", "reserve", "provider", "answered", "failed"}
  /\ IF Automatic(s) THEN Goes(s, [session[s] EXCEPT !.step = "release"]) ELSE Ends(s)
  /\ usage' = IF session[s].step = "provider" THEN Refunded(session[s].key) ELSE usage
  /\ UNCHANGED <<now, row, shared, nextId, gone, view>>

-----------------------------------------------------------------------------
(* Columns that differ from what the session saw are written. *)
Written(seen, new) == [c \in DOMAIN new |-> IF new[c] # seen[c] THEN new[c] ELSE row[c]]

CurrentClaim(s, r) == session[s].claim = None \/ r.claimed = session[s].claim

RetryDelay(n) ==
  LET doubled == RetryBase * 2 ^ Min({n, RetryMax}) IN IF doubled \in 1..RetryMax THEN doubled ELSE RetryMax

(* complete_auto_post_schedule *)
Completed(r) ==
  [r EXCEPT !.failures = 0, !.claimed = None, !.last = now,
            !.next = IF r.enabled THEN now + Interval ELSE None]

(* append_generated_post, in one transaction with the commit of the usage: when the usage is *)
(* no longer reserved nothing is saved, though the answer is the same.                       *)
CommittedAnyway(k) == usage[k].status # "none"     \* mutant: expired usages are committed
StillReserved(k) == usage[k].status = "reserved"
NewPost == [post |-> nextId, id |-> nextId]
Persist(s) ==
  LET seen == session[s].seen
      posts == Newest(seen.posts \cup {NewPost})
      added == [seen EXCEPT !.posts = posts, !.revision = @ + 1]
      new == IF Automatic(s) THEN Completed(added) ELSE added
  IN  /\ session[s].step = "answered"
      /\ CurrentClaim(s, seen)
      /\ nextId <= MaxItems /\ seen.revision < MaxRevision
      /\ Ends(s)
      /\ IF StillReserved(session[s].key)
         THEN /\ row' = Written(seen, new)
              /\ shared' = PostsSynced(new)
              /\ gone' = gone \cup (seen.posts \ posts)
              /\ nextId' = nextId + 1
              /\ usage' = [usage EXCEPT ![session[s].key] =
                             [@ EXCEPT !.status = "committed", !.post = nextId]]
         ELSE UNCHANGED <<row, shared, gone, nextId, usage>>
      /\ UNCHANGED <<now, view>>

(* The session knows that its claim is over, or the post is not allowed: the charge is refunded. *)
Reject(s) ==
  /\ session[s].step = "answered"
  /\ IF Automatic(s) THEN Goes(s, [session[s] EXCEPT !.step = "release"]) ELSE Ends(s)
  /\ usage' = Refunded(session[s].key)
  /\ UNCHANGED <<now, row, shared, nextId, gone, view>>

(* stop_auto_post_for_balance and record_auto_failure, of a row as a session sees it. *)
Stopped(r) == [r EXCEPT !.enabled = FALSE, !.next = None, !.claimed = None, !.failures = @ + 1]
Delayed(r, n) ==
  [r EXCEPT !.failures = @ + 1, !.claimed = None,
            !.next = IF r.enabled THEN now + RetryDelay(n) ELSE None]

Fail(s) ==
  LET seen == session[s].seen
      new == IF session[s].failure = "insufficient" THEN Stopped(seen) ELSE Delayed(seen, seen.failures)
  IN  /\ session[s].step = "failed"
      /\ row' = IF CurrentClaim(s, seen) THEN Written(seen, new) ELSE row
      /\ Ends(s)
      /\ UNCHANGED <<now, shared, nextId, gone, view, usage>>

(* _record_claim_failure, in a session of its own. *)
Release(s) ==
  /\ session[s].step = "release"
  /\ row' = IF CurrentClaim(s, row) THEN Delayed(row, session[s].counted) ELSE row
  /\ Ends(s)
  /\ UNCHANGED <<now, shared, nextId, gone, view, usage>>

(* The server stops. *)
Crash(s) ==
  /\ session[s].step # "idle"
  /\ Ends(s)
  /\ UNCHANGED <<now, row, shared, nextId, gone, view, usage>>

Tick ==
  /\ now < MaxTime
  /\ Punctual => \A s \in Sessions : session[s].step # "idle" => session[s].since + ReservationTTL > now
  /\ now' = now + 1
  /\ UNCHANGED <<row, shared, nextId, gone, view, usage, session>>

Owner ==
  \/ \E c \in Clients : Load(c) \/ Save(c)
  \/ \E p \in Ids : Comment(p)
  \/ \E profile \in Profiles : EditProfile(profile)
  \/ \E b \in BOOLEAN : UpdateVisibility(b) \/ UpdateAutoPost(b)
Proceed(s) ==
  Read(s) \/ Reserve(s) \/ Provide(s) \/ Persist(s) \/ Reject(s) \/ Fail(s) \/ Release(s)

Next ==
  \/ Owner
  \/ \E s \in Sessions :
       Claim(s) \/ (\E k \in RequestKeys : Request(s, k)) \/ Proceed(s) \/ Cancel(s) \/ Crash(s)
  \/ Expire
  \/ Tick

Spec == Init /\ [][Next]_vars

-----------------------------------------------------------------------------
(* Nothing that was written disappears: every post and comment is in the list until a client *)
(* that showed it removes it or newer posts push it out.                                     *)
NothingLost ==
  \A n \in Ids : n < nextId => \E i \in row.posts \cup gone : i.id = n

(* A public character looks to others as it does to its owner: the snapshot in the shared    *)
(* table has the same posts and profile, whoever wrote last.                                 *)
SharedCurrent == row.public /\ shared # None => shared = SnapshotOf(row)

(* A generated post that was charged is in the list, or was there. *)
PaidIsPosted ==
  \A k \in Keys :
    usage[k].status = "committed" => \E i \in row.posts \cup gone : i.id = usage[k].post

(* A charge is decided once, and a refunded request does not leave a post behind. *)
DecidedOnce ==
  [][\A k \in Keys :
       usage[k].status \in {"committed", "refunded"} => usage'[k] = usage[k]]_vars

(* One due time gives one automatic post: whichever workers claim it, retry it or stop in    *)
(* the middle, a post follows the previous one no sooner than after the interval.            *)
NoDuplicateStep == row'.last # row.last /\ row.last # None => now >= row.last + Interval
NoDuplicatePosts == [][NoDuplicateStep]_vars

-----------------------------------------------------------------------------
(* The scheduler polls for as long as the server runs, and sessions make progress. *)
Fairness ==
  /\ \A s \in Sessions : WF_vars(Proceed(s))
  /\ SF_vars(\E s \in Sessions : Claim(s))
  /\ WF_vars(Tick)
FairSpec == Spec /\ Fairness

(* A claim whose worker died is taken over when its lease is over. *)
ClaimsResolve ==
  \A t \in Times : row.claimed = t /\ t + Lease <= MaxTime ~> row.claimed # t
=============================================================================
