-------------------------- MODULE CharacterPostsProofs --------------------------
(***************************************************************************)
(* Proofs about CharacterPosts for any number of devices, sessions, items  *)
(* and ticks.  A charge of a generated post is decided once, whatever the  *)
(* timing.  While no session generates posts, the revision alone protects  *)
(* the list: no post or comment is lost among devices and visitors, and    *)
(* the public snapshot is the owner's.  The types hold with all of them.   *)
(* While workers and visitors are alone, what was charged for is posted,   *)
(* and a due time gives one post.                                          *)
(***************************************************************************)
EXTENDS CharacterPosts, FiniteSetTheorems, WellFoundedInduction, TLAPS

(* The part of the types that charges depend on. *)
UsageInv ==
  /\ now \in 0..MaxTime
  /\ nextId \in Nat \ {0}
  /\ usage \in [Keys -> Usage]

LEMMA SettledType ==
  ASSUME UsageInv PROVE Settled \in [Keys -> Usage]
BY DEF Settled, UsageInv, Usage

(* Expiry decides only what is reserved. *)
LEMMA SettledKeepsDecided ==
  ASSUME UsageInv, NEW k \in Keys, usage[k].status # "reserved"
  PROVE  Settled[k] = usage[k]
BY DEF Settled

LEMMA RefundedType ==
  ASSUME UsageInv, NEW k PROVE Refunded(k) \in [Keys -> Usage]
BY DEF Refunded, UsageInv, Usage

LEMMA RefundedKeepsDecided ==
  ASSUME UsageInv, NEW k, NEW j \in Keys, usage[j].status # "reserved"
  PROVE  Refunded(k)[j] = usage[j]
BY DEF Refunded, UsageInv, Usage

Decided(k) == usage[k].status \in {"committed", "refunded"}

LEMMA UsageStep ==
  ASSUME UsageInv, [Next]_vars
  PROVE  UsageInv' /\ \A k \in Keys : Decided(k) => usage'[k] = usage[k]
<1> DEFINE Kept == UsageInv' /\ \A k \in Keys : Decided(k) => usage'[k] = usage[k]
<1>n. MaxTime \in Nat /\ MaxItems \in Nat /\ now \in Times
  BY PostsAssumption, SMT DEF UsageInv, Times
<1>1. ASSUME UNCHANGED <<now, usage>>, nextId' \in {nextId, nextId + 1} PROVE Kept
  BY <1>1 DEF UsageInv
<1>2. ASSUME Owner PROVE Kept
  BY <1>1, <1>2 DEF Owner, Load, Save, Comment, EditProfile, UpdateVisibility, UpdateAutoPost
<1>3. ASSUME NEW s \in Sessions, NEW k \in RequestKeys, Claim(s) \/ Request(s, k) PROVE Kept
  BY <1>1, <1>3 DEF Claim, Request
<1>4. ASSUME NEW s \in Sessions, Claim(s) \/ Read(s) \/ Fail(s) \/ Release(s) \/ Crash(s) PROVE Kept
  BY <1>1, <1>4 DEF Claim, Read, Fail, Release, Crash
<1>5. ASSUME usage' = Settled, UNCHANGED <<now, nextId>> PROVE Kept
  BY <1>5, SettledType, SettledKeepsDecided DEF UsageInv, Decided
<1>6. ASSUME NEW s \in Sessions, Reserve(s) PROVE Kept
  <2> DEFINE key == session[s].key
  <2>1. UNCHANGED <<now, nextId>>
    BY <1>6 DEF Reserve
  <2>2. CASE usage' = Settled
    BY <1>5, <2>1, <2>2
  <2>3. ASSUME NEW u \in Usage, Settled[key].status = "none",
               usage' = [Settled EXCEPT ![key] = u]
        PROVE  Kept
    <3>1. usage' \in [Keys -> Usage]
      BY <2>3, SettledType
    <3>2. ASSUME NEW j \in Keys, Decided(j) PROVE usage'[j] = usage[j]
      <4>1. Settled[j] = usage[j]
        BY <3>2, SettledKeepsDecided DEF Decided
      <4>2. j # key
        BY <2>3, <3>2, <4>1 DEF Decided
      <4> QED
        BY <2>3, <4>1, <4>2, SettledType
    <3> QED
      BY <2>1, <3>1, <3>2 DEF UsageInv
  <2>4. [NoUsage EXCEPT !.status = "refunded", !.created = now] \in Usage
    BY <1>n DEF NoUsage, Usage
  <2>5. [NoUsage EXCEPT !.status = "reserved", !.created = now] \in Usage
    BY <1>n DEF NoUsage, Usage
  <2> HIDE DEF key
  <2>6. \/ usage' = Settled
        \/ /\ Settled[key].status = "none"
           /\ usage' = [Settled EXCEPT ![key] = [NoUsage EXCEPT !.status = "refunded", !.created = now]]
        \/ /\ Settled[key].status = "none"
           /\ usage' = [Settled EXCEPT ![key] = [NoUsage EXCEPT !.status = "reserved", !.created = now]]
    BY <1>6 DEF Reserve, key
  <2> QED
    BY <2>2, <2>3, <2>4, <2>5, <2>6
<1>7. ASSUME NEW k, usage' = Refunded(k), UNCHANGED <<now, nextId>> PROVE Kept
  BY <1>7, RefundedType, RefundedKeepsDecided DEF UsageInv, Decided
<1>8. ASSUME NEW s \in Sessions, Provide(s) \/ Reject(s) \/ Cancel(s) PROVE Kept
  BY <1>1, <1>7, <1>8 DEF Provide, Reject, Cancel
<1>9. ASSUME NEW s \in Sessions, Persist(s) PROVE Kept
  <2>1. CASE ~ StillReserved(session[s].key)
    BY <1>1, <1>9, <2>1 DEF Persist
  <2>2. CASE StillReserved(session[s].key)
    <3> DEFINE key == session[s].key
    <3>1. /\ usage' = [usage EXCEPT ![key] = [@ EXCEPT !.status = "committed", !.post = nextId]]
          /\ nextId' = nextId + 1 /\ now' = now /\ nextId <= MaxItems
          /\ usage[key].status = "reserved"
      BY <1>9, <2>2 DEF Persist, StillReserved
    <3>2. ASSUME key \in Keys PROVE [usage[key] EXCEPT !.status = "committed", !.post = nextId] \in Usage
      <4>1. nextId \in Ids
        BY <1>n, <3>1 DEF UsageInv, Ids
      <4> QED
        BY <3>1, <3>2, <4>1 DEF UsageInv, Usage
    <3> HIDE DEF key
    <3>3. usage' \in [Keys -> Usage]
      BY <3>1, <3>2 DEF UsageInv
    <3>4. \A j \in Keys : Decided(j) => usage'[j] = usage[j]
      BY <3>1 DEF UsageInv, Decided
    <3> QED
      BY <3>1, <3>3, <3>4 DEF UsageInv
  <2> QED
    BY <2>1, <2>2
<1>10. ASSUME Tick PROVE Kept
  BY <1>10, <1>n DEF Tick, UsageInv
<1>11. CASE UNCHANGED vars
  BY <1>1, <1>11 DEF vars
<1> QED
  <2>1. CASE Owner
    BY <1>2, <2>1
  <2>2. CASE Expire
    BY <1>5, <2>2 DEF Expire
  <2>3. ASSUME NEW s \in Sessions,
               Claim(s) \/ (\E k \in RequestKeys : Request(s, k)) \/ Proceed(s) \/ Cancel(s) \/ Crash(s)
        PROVE  Kept
    BY <1>3, <1>4, <1>6, <1>8, <1>9, <2>3 DEF Proceed
  <2> QED
    BY <1>10, <1>11, <2>1, <2>2, <2>3 DEF Next

LEMMA UsageInvHolds == Spec => []UsageInv
<1>1. Init => UsageInv
  BY PostsAssumption, SMT DEF Init, UsageInv, NoUsage, Usage, Times
<1>2. UsageInv /\ [Next]_vars => UsageInv'
  BY UsageStep
<1> QED
  BY <1>1, <1>2, PTL DEF Spec

(* A charge that was committed or refunded is never touched again: not by an answer that      *)
(* arrives after its reservation expired, by a repeated request, or by a worker that was      *)
(* replaced.                                                                                  *)
THEOREM ChargesDecidedOnce == Spec => DecidedOnce
<1>1. UsageInv /\ [Next]_vars =>
        [\A k \in Keys :
           usage[k].status \in {"committed", "refunded"} => usage'[k] = usage[k]]_vars
  BY UsageStep DEF Decided
<1> QED
  BY <1>1, UsageInvHolds, PTL DEF Spec, DecidedOnce

-----------------------------------------------------------------------------
(* The lists of a character that only its owner's devices and visitors write. *)
RowInv ==
  /\ now \in 0..MaxTime
  /\ nextId \in 1..(MaxItems + 1)
  /\ row \in Row

(* A device that shows the current revision shows the current list. *)
ViewInv ==
  \A c \in Clients :
    /\ view[c] \in View
    /\ view[c].revision <= row.revision
    /\ view[c].revision = row.revision => view[c].posts = row.posts

ListInv == RowInv /\ view \in [Clients -> View] /\ ViewInv /\ NothingLost /\ SharedCurrent

LEMMA MinOfTwo ==
  ASSUME NEW a \in Int, NEW b \in Int PROVE Min({a, b}) \in {a, b}
<1>1. \E x \in {a, b} : \A y \in {a, b} : x <= y
  OBVIOUS
<1> QED
  BY <1>1 DEF Min

LEMMA NextScheduleType ==
  ASSUME RowInv, NEW b \in BOOLEAN PROVE NextSchedule(b) \in Times \cup {None}
<1>1. /\ now + Interval \in Times
      /\ \A t \in Times : t \in Int
      /\ Interval \in Int
  BY PostsAssumption, SMT DEF RowInv, Times
<1>2. row.next \in Times \cup {None}
  BY DEF RowInv, Row
<1>3. CASE row.next \in Times
  <2>1. Min({row.next, now + Interval}) \in {row.next, now + Interval}
    BY <1>1, <1>3, MinOfTwo
  <2> QED
    BY <1>1, <1>3, <2>1 DEF NextSchedule
<1>4. CASE row.next = None
  BY <1>1, <1>4 DEF NextSchedule
<1> QED
  BY <1>2, <1>3, <1>4

LEMMA ListInit == Init => ListInv
<1> SUFFICES ASSUME Init PROVE ListInv
  OBVIOUS
<1>1. row \in Row /\ row.revision = 0 /\ row.posts = {}
  <2>1. {} \in SUBSET Items /\ 0 \in 0..MaxRevision /\ 0 \in Nat /\ Interval \in Times
    BY PostsAssumption DEF Times
  <2>2. row \in [posts : {{}}, revision : {0}, enabled : {TRUE}, next : {Interval}, claimed : {None},
                  failures : {0}, last : {None}, public : {TRUE}, profile : Profiles]
    BY DEF Init
  <2> QED
    BY <2>1, <2>2, ZenonT(30) DEF Row
<1>2. RowInv
  BY <1>1, PostsAssumption DEF Init, RowInv
<1>3. view \in [Clients -> View] /\ ViewInv
  BY <1>1, PostsAssumption DEF Init, View, ViewInv
<1>4. NothingLost
  BY DEF Init, NothingLost, Ids
<1>5. SharedCurrent
  BY <1>1 DEF Init, SharedCurrent, SnapshotOf
<1> QED
  BY <1>2, <1>3, <1>4, <1>5 DEF ListInv

(* What an edit does to the list: all that was in it stays or is gone, and what is new is the *)
(* next item.                                                                                 *)
LEMMA EditKeeps ==
  ASSUME NEW items \in SUBSET Items, NEW posts \in Edits(items)
  PROVE  \/ posts \subseteq items
         \/ items \subseteq posts /\ \E i \in posts : i.id = nextId
BY DEF Edits

(* A step that keeps the clock, the schedule and the visibility, and moves on to a revision   *)
(* that nobody shows, but for one device that shows the new list.                             *)
LEMMA RevisionStep ==
  ASSUME ListInv, row.revision < MaxRevision,
         NEW posts \in SUBSET Items,
         row' = [row EXCEPT !.posts = posts, !.revision = @ + 1],
         shared' = PostsSynced(row'),
         now' = now, nextId' \in {nextId, nextId + 1}, nextId' \in 1..(MaxItems + 1),
         NEW shows \in SUBSET Clients,
         view' = [c \in Clients |-> IF c \in shows THEN [posts |-> posts, revision |-> row.revision + 1]
                                    ELSE view[c]]
  PROVE  RowInv' /\ view' \in [Clients -> View] /\ ViewInv' /\ SharedCurrent'
<1>1. row \in Row /\ MaxRevision \in Nat
  BY PostsAssumption DEF ListInv, RowInv
<1>2. /\ row' \in Row /\ row'.posts = posts /\ row'.revision = row.revision + 1
      /\ row'.public = row.public
  <2>1. row.revision + 1 \in 0..MaxRevision
    BY <1>1 DEF Row
  <2> QED
    BY <1>1, <2>1 DEF Row
<1>3. RowInv'
  BY <1>2 DEF RowInv, ListInv
<1>4. [posts |-> posts, revision |-> row.revision + 1] \in View
  BY <1>1, <1>2, SMT DEF View, Row
<1>5. view' \in [Clients -> View]
  BY <1>4 DEF ListInv
<1>6. ViewInv'
  <2> SUFFICES ASSUME NEW c \in Clients
               PROVE  /\ view'[c] \in View /\ view'[c].revision <= row'.revision
                      /\ view'[c].revision = row'.revision => view'[c].posts = row'.posts
    BY DEF ViewInv
  <2>1. CASE c \in shows
    BY <1>1, <1>2, <1>4, <2>1, SMT DEF Row
  <2>2. CASE c \notin shows
    <3>1. view'[c] = view[c]
      BY <2>2
    <3>2. view[c] \in View /\ view[c].revision <= row.revision
      BY DEF ListInv, ViewInv
    <3> QED
      BY <1>1, <1>2, <3>1, <3>2, SMT DEF Row, View
  <2> QED
    BY <2>1, <2>2
<1>7. SharedCurrent'
  BY <1>2 DEF SharedCurrent, PostsSynced
<1> QED
  BY <1>3, <1>5, <1>6, <1>7

(* A step that writes other columns of the row. *)
LEMMA ColumnStep ==
  ASSUME ListInv, row' \in Row, row'.posts = row.posts, row'.revision = row.revision,
         row'.public /\ shared' # None => shared' = SnapshotOf(row'),
         UNCHANGED <<now, nextId, gone, view>>
  PROVE  ListInv'
BY DEF ListInv, RowInv, ViewInv, NothingLost, SharedCurrent

LEMMA ListStep ==
  ASSUME Sessions = {}, ListInv, [Next]_vars PROVE ListInv'
<1>t. /\ row \in Row /\ row.posts \in SUBSET Items
      /\ nextId \in 1..(MaxItems + 1) /\ MaxItems \in Nat
  BY PostsAssumption DEF ListInv, RowInv, Row
<1>1. ASSUME NEW c \in Clients, Load(c) PROVE ListInv'
  <2>1. [posts |-> row.posts, revision |-> row.revision] \in View
    BY <1>t DEF View, Row
  <2>2. row.revision <= row.revision
    BY <1>t, SMT DEF Row
  <2>3. view' \in [Clients -> View] /\ ViewInv'
    BY <1>1, <2>1, <2>2 DEF Load, ListInv, ViewInv
  <2> QED
    BY <1>1, <2>3 DEF Load, ListInv, RowInv, NothingLost, SharedCurrent
<1>2. ASSUME NEW c \in Clients, Save(c) PROVE ListInv'
  <2>1. view[c].posts = row.posts
    BY <1>2 DEF Save, Current, ListInv, ViewInv
  <2>2. PICK posts \in Edits(row.posts) :
          /\ posts \subseteq Items
          /\ row' = [row EXCEPT !.posts = posts, !.revision = @ + 1]
          /\ gone' = gone \cup (row.posts \ posts)
          /\ nextId' = IF posts \subseteq row.posts THEN nextId ELSE nextId + 1
          /\ view' = [view EXCEPT ![c] = [posts |-> posts, revision |-> row.revision + 1]]
    BY <1>2, <2>1 DEF Save, Items
  <2>3. \/ posts \subseteq row.posts /\ nextId' = nextId
        \/ /\ row.posts \subseteq posts /\ nextId' = nextId + 1
           /\ \E i \in posts : i.id = nextId
    BY <1>t, <2>2, EditKeeps
  <2>4. nextId' \in 1..(MaxItems + 1)
    <3>1. CASE nextId' = nextId
      BY <1>t, <3>1
    <3>2. ASSUME NEW i \in posts, i.id = nextId, nextId' = nextId + 1 PROVE nextId' \in 1..(MaxItems + 1)
      <4>1. nextId \in Ids
        BY <2>2, <3>2 DEF Items
      <4> QED
        BY <1>t, <3>2, <4>1 DEF Ids
    <3> QED
      BY <2>3, <3>1, <3>2
  <2>5. view' = [d \in Clients |-> IF d \in {c} THEN [posts |-> posts, revision |-> row.revision + 1]
                                   ELSE view[d]]
    BY <2>2 DEF ListInv
  <2>6. RowInv' /\ view' \in [Clients -> View] /\ ViewInv' /\ SharedCurrent'
    <3> DEFINE one == {c}
    <3>1. one \in SUBSET Clients
      OBVIOUS
    <3>2. view' = [d \in Clients |-> IF d \in one THEN [posts |-> posts, revision |-> row.revision + 1]
                                     ELSE view[d]]
      BY <2>5
    <3>3. row.revision < MaxRevision /\ shared' = PostsSynced(row') /\ now' = now
      BY <1>2 DEF Save
    <3>4. nextId' \in {nextId, nextId + 1}
      BY <2>3
    <3> HIDE DEF one
    <3> QED
      BY <2>2, <2>4, <3>1, <3>2, <3>3, <3>4, RevisionStep
  <2>7. row'.posts = posts
    BY <1>t, <2>2 DEF Row
  <2>8. NothingLost'
    <3> SUFFICES ASSUME NEW n \in Ids, n < nextId' PROVE \E i \in row'.posts \cup gone' : i.id = n
      BY DEF NothingLost
    <3>1. CASE n < nextId
      <4>1. PICK i \in row.posts \cup gone : i.id = n
        BY <3>1 DEF ListInv, NothingLost
      <4>2. i \in posts \cup gone'
        BY <2>2
      <4> QED
        BY <2>7, <4>1, <4>2
    <3>2. CASE n = nextId /\ \E i \in posts : i.id = nextId
      BY <2>7, <3>2
    <3> QED
      BY <1>t, <2>3, <3>1, <3>2 DEF Ids
  <2> QED
    BY <2>6, <2>8 DEF ListInv
<1>3. ASSUME NEW p \in Ids, Comment(p) PROVE ListInv'
  <2> DEFINE item == [post |-> p, id |-> nextId]
             posts == row.posts \cup {item}
             nobody == {}
  <2>1. nextId \in Ids /\ nextId + 1 \in 1..(MaxItems + 1)
    BY <1>3, <1>t DEF Comment, Ids
  <2>2. item \in Items
    BY <2>1 DEF Items
  <2>3. posts \in SUBSET Items
    BY <1>t, <2>2
  <2>4. item \in posts /\ item.id = nextId /\ row.posts \subseteq posts
    OBVIOUS
  <2>5. /\ row' = [row EXCEPT !.posts = posts, !.revision = @ + 1]
        /\ row.revision < MaxRevision /\ nextId' = nextId + 1 /\ gone' = gone
        /\ shared' = PostsSynced(row') /\ now' = now /\ view' = view
    BY <1>3, <1>t DEF Comment, Row
  <2>6. view' = [d \in Clients |-> IF d \in nobody THEN [posts |-> posts, revision |-> row.revision + 1]
                                   ELSE view[d]]
    BY <2>5 DEF ListInv
  <2>7. nobody \in SUBSET Clients
    OBVIOUS
  <2> HIDE DEF item, posts, nobody
  <2>8. RowInv' /\ view' \in [Clients -> View] /\ ViewInv' /\ SharedCurrent'
    BY <2>1, <2>3, <2>5, <2>6, <2>7, RevisionStep
  <2>9. row'.posts = posts
    BY <1>t, <2>5 DEF Row
  <2>10. NothingLost'
    <3> SUFFICES ASSUME NEW n \in Ids, n < nextId' PROVE \E i \in row'.posts \cup gone' : i.id = n
      BY DEF NothingLost
    <3>1. CASE n < nextId
      BY <2>4, <2>5, <2>9, <3>1 DEF ListInv, NothingLost
    <3>2. CASE n = nextId
      BY <2>4, <2>9, <3>2
    <3> QED
      BY <1>t, <2>5, <3>1, <3>2 DEF Ids
  <2> QED
    BY <2>8, <2>10 DEF ListInv
<1>4. ASSUME NEW profile \in Profiles, EditProfile(profile) PROVE ListInv'
  <2>1. row' \in Row /\ row'.posts = row.posts /\ row'.revision = row.revision
    BY <1>4, <1>t DEF EditProfile, Row
  <2> QED
    BY <1>4, <2>1, ColumnStep DEF EditProfile
<1>5. ASSUME NEW b \in BOOLEAN, UpdateVisibility(b) PROVE ListInv'
  <2>1. /\ row' \in Row /\ row'.posts = row.posts /\ row'.revision = row.revision
        /\ row'.public = b /\ row'.profile = row.profile
    BY <1>5, <1>t DEF UpdateVisibility, Row
  <2>2. row'.public => shared' = SnapshotOf(row')
    BY <1>5, <2>1 DEF UpdateVisibility
  <2> QED
    BY <1>5, <2>1, <2>2, ColumnStep DEF UpdateVisibility
<1>6. ASSUME NEW b \in BOOLEAN, UpdateAutoPost(b) PROVE ListInv'
  <2>1. NextSchedule(b) \in Times \cup {None}
    BY NextScheduleType DEF ListInv
  <2>2. /\ row' \in Row /\ row'.posts = row.posts /\ row'.revision = row.revision
        /\ row'.public = row.public /\ row'.profile = row.profile
    BY <1>6, <1>t, <2>1 DEF UpdateAutoPost, Row
  <2>3. row'.public /\ shared' # None => shared' = SnapshotOf(row')
    BY <1>6, <2>2 DEF UpdateAutoPost, ListInv, SharedCurrent, SnapshotOf
  <2> QED
    BY <1>6, <2>2, <2>3, ColumnStep DEF UpdateAutoPost
<1>7. CASE Tick
  <2>1. now' \in 0..MaxTime
    BY <1>7, PostsAssumption, SMT DEF Tick, ListInv, RowInv
  <2> QED
    BY <1>7, <2>1 DEF Tick, ListInv, RowInv, ViewInv, NothingLost, SharedCurrent
<1>8. CASE Expire \/ UNCHANGED vars
  BY <1>8 DEF Expire, vars, ListInv, RowInv, ViewInv, NothingLost, SharedCurrent
<1> QED
  BY <1>1, <1>2, <1>3, <1>4, <1>5, <1>6, <1>7, <1>8 DEF Next, Owner

LEMMA ListInvHolds == ASSUME Sessions = {} PROVE Spec => []ListInv
<1>1. ListInv /\ [Next]_vars => ListInv'
  BY ListStep
<1> QED
  BY <1>1, ListInit, PTL DEF Spec

(* While no session generates posts, comparing the revision is enough: whatever devices save  *)
(* and visitors comment, each post and comment is in the list or was removed on purpose.      *)
THEOREM NothingIsLost == ASSUME Sessions = {} PROVE Spec => []NothingLost
<1>1. ListInv => NothingLost
  BY DEF ListInv
<1> QED
  BY <1>1, ListInvHolds, PTL

(* And what others see of a public character is what its owner has.                           *)
THEOREM SnapshotIsCurrent == ASSUME Sessions = {} PROVE Spec => []SharedCurrent
<1>1. ListInv => SharedCurrent
  BY DEF ListInv
<1> QED
  BY <1>1, ListInvHolds, PTL

-----------------------------------------------------------------------------
(* Types, with sessions that generate.  A session that read the character holds a row of it. *)
RowIs(r) == r \in Row /\ Cardinality(PostsIn(r.posts)) <= MaxPosts
Holding(x) == x.step \in {"reserve", "provider", "answered", "failed"} => RowIs(x.seen)
TypeInv == TypeOK /\ \A s \in Sessions : Holding(session[s])

LEMMA DelayIs == ASSUME NEW n PROVE RetryDelay(n) \in 0..RetryMax
BY PostsAssumption DEF RetryDelay

LEMMA PostsFinite ==
  ASSUME NEW items \in SUBSET Items PROVE PostsIn(items) \subseteq Ids /\ IsFiniteSet(PostsIn(items))
<1>1. PostsIn(items) \subseteq Ids
  BY DEF PostsIn, Items
<1>2. IsFiniteSet(Ids)
  BY FS_Interval, PostsAssumption DEF Ids
<1> QED
  BY <1>1, <1>2, FS_Subset

(* The newest posts are not more than the limit: beside the oldest of them there are only newer ones. *)
LEMMA NewestIs ==
  ASSUME NEW items \in SUBSET Items
  PROVE  Newest(items) \subseteq items /\ Cardinality(PostsIn(Newest(items))) <= MaxPosts
<1> DEFINE P == PostsIn(items)
           K == PostsIn(Newest(items))
<1>1. P \subseteq Ids /\ IsFiniteSet(P) /\ \A n \in Ids : n \in Nat
  BY PostsFinite DEF Ids
<1>2. Newest(items) \subseteq items /\ \A p \in K : p \in P /\ Cardinality({q \in P : q > p}) < MaxPosts
  BY DEF Newest, PostsIn
<1>3. IsFiniteSet(K) /\ Cardinality(K) \in Nat /\ MaxPosts \in Nat
  BY <1>1, <1>2, FS_Subset, FS_CardinalityType, PostsAssumption
<1>4. CASE K = {}
  BY <1>2, <1>3, <1>4, FS_EmptySet
<1>5. CASE K # {}
  <2> HIDE DEF K, P
  <2>1. K \subseteq Nat
    BY <1>1, <1>2
  <2>2. PICK m \in K : \A x \in K : ~ (x < m)
    <3>1. PICK m \in K : \A x \in K : <<x, m>> \notin OpToRel(<, Nat)
      BY <1>5, <2>1, NatLessThanWellFounded, WFMin
    <3>2. \A x \in K : ~ (x < m)
      BY <2>1, <3>1 DEF OpToRel
    <3> QED
      BY <3>2
  <2> DEFINE G == {q \in P : q > m}
  <2>3. IsFiniteSet(G) /\ Cardinality(G) \in Nat /\ Cardinality(G) < MaxPosts
    BY <1>1, <1>2, FS_Subset, FS_CardinalityType
  <2>4. K \ {m} \subseteq G
    <3> SUFFICES ASSUME NEW x \in K, x # m PROVE x \in P /\ x > m
      OBVIOUS
    <3>1. x \in Nat /\ m \in Nat /\ x \in P
      BY <1>2, <2>1
    <3> QED
      BY <2>2, <3>1
  <2>5. Cardinality(K \ {m}) <= Cardinality(G)
    BY <2>3, <2>4, FS_Subset
  <2>6. Cardinality(K \ {m}) = Cardinality(K) - 1
    BY <1>3, FS_RemoveElement
  <2>7. Cardinality(K) <= MaxPosts
    BY <1>3, <2>3, <2>5, <2>6
  <2> QED
    BY <1>2, <2>7 DEF K
<1> QED
  BY <1>4, <1>5

LEMMA WrittenIs ==
  ASSUME row \in Row, NEW seen \in Row, NEW new \in Row
  PROVE  LET w == Written(seen, new)
         IN  /\ w \in Row
             /\ w.posts = (IF new.posts # seen.posts THEN new.posts ELSE row.posts)
             /\ w.last = (IF new.last # seen.last THEN new.last ELSE row.last)
             /\ w.next = (IF new.next # seen.next THEN new.next ELSE row.next)
             /\ w.claimed = (IF new.claimed # seen.claimed THEN new.claimed ELSE row.claimed)
             /\ w.enabled = (IF new.enabled # seen.enabled THEN new.enabled ELSE row.enabled)
<1> DEFINE Put(a, b, c) == IF a # b THEN a ELSE c
<1>1. DOMAIN new = {"posts", "revision", "enabled", "next", "claimed", "failures", "last", "public", "profile"}
  BY DEF Row
<1>2. Written(seen, new) =
        [posts |-> Put(new.posts, seen.posts, row.posts), revision |-> Put(new.revision, seen.revision, row.revision),
         enabled |-> Put(new.enabled, seen.enabled, row.enabled), next |-> Put(new.next, seen.next, row.next),
         claimed |-> Put(new.claimed, seen.claimed, row.claimed),
         failures |-> Put(new.failures, seen.failures, row.failures), last |-> Put(new.last, seen.last, row.last),
         public |-> Put(new.public, seen.public, row.public), profile |-> Put(new.profile, seen.profile, row.profile)]
  BY <1>1 DEF Row, Written
<1> QED
  BY <1>2 DEF Row

(* What a session makes of a row is one. *)
LEMMA ScheduledIs ==
  ASSUME NEW r \in Row, now \in 0..MaxTime, NEW n
  PROVE  /\ Stopped(r) \in Row /\ Stopped(r).posts = r.posts /\ Stopped(r).last = r.last
         /\ Delayed(r, n) \in Row /\ Delayed(r, n).posts = r.posts /\ Delayed(r, n).last = r.last
         /\ Delayed(r, n).claimed = None /\ Delayed(r, n).enabled = r.enabled
         /\ Delayed(r, n).next = (IF r.enabled THEN now + RetryDelay(n) ELSE None)
         /\ Completed(r) \in Row /\ Completed(r).posts = r.posts /\ Completed(r).revision = r.revision
         /\ Completed(r).last = now /\ Completed(r).claimed = None /\ Completed(r).enabled = r.enabled
         /\ Completed(r).next = (IF r.enabled THEN now + Interval ELSE None)
<1>1. RetryDelay(n) \in 0..RetryMax /\ MaxTime \in Nat /\ Interval \in Nat /\ RetryMax \in Nat
  BY DelayIs, PostsAssumption
<1>2. now + RetryDelay(n) \in Times /\ now + Interval \in Times /\ now \in Times
  BY <1>1 DEF Times
<1>3. r.failures + 1 \in Nat /\ None \in Times \cup {None}
  BY DEF Row
<1>4. /\ Stopped(r) \in Row /\ Stopped(r).posts = r.posts /\ Stopped(r).last = r.last
  BY <1>3 DEF Stopped, Row
<1>5. PICK t : t = IF r.enabled THEN now + RetryDelay(n) ELSE None
  OBVIOUS
<1>6. Delayed(r, n) = [r EXCEPT !.failures = @ + 1, !.claimed = None, !.next = t]
  BY <1>5 DEF Delayed
<1>7. PICK u : u = IF r.enabled THEN now + Interval ELSE None
  OBVIOUS
<1>8. Completed(r) = [r EXCEPT !.failures = 0, !.claimed = None, !.last = now, !.next = u]
  BY <1>7 DEF Completed
<1>9. t \in Times \cup {None} /\ u \in Times \cup {None}
  BY <1>2, <1>5, <1>7
<1>10. /\ Delayed(r, n) \in Row /\ Delayed(r, n).posts = r.posts /\ Delayed(r, n).last = r.last
       /\ Delayed(r, n).claimed = None /\ Delayed(r, n).enabled = r.enabled /\ Delayed(r, n).next = t
  BY <1>3, <1>6, <1>9 DEF Row
<1>11. /\ Completed(r) \in Row /\ Completed(r).posts = r.posts /\ Completed(r).revision = r.revision
       /\ Completed(r).last = now /\ Completed(r).claimed = None /\ Completed(r).enabled = r.enabled
       /\ Completed(r).next = u
  <2>1. PICK x : x = [[r EXCEPT !.failures = 0, !.claimed = None] EXCEPT !.last = now, !.next = u]
    OBVIOUS
  <2>2. [r EXCEPT !.failures = 0, !.claimed = None] \in Row
    BY DEF Row
  <2>3. Completed(r) = x
    BY <1>8, <2>1
  <2>4. x \in Row /\ x.last = now /\ x.next = u /\ x.posts = r.posts /\ x.revision = r.revision
        /\ x.claimed = None /\ x.enabled = r.enabled
    BY <1>2, <1>9, <2>1, <2>2 DEF Row
  <2> QED
    BY <2>3, <2>4
<1> QED
  BY <1>4, <1>5, <1>7, <1>10, <1>11

LEMMA Moves ==
  ASSUME TypeInv, NEW s \in Sessions, NEW x \in Session, Holding(x), Goes(s, x)
  PROVE  session' \in [Sessions -> Session] /\ (\A t \in Sessions : Holding(session'[t]))
         /\ session'[s] = x /\ \A t \in Sessions \ {s} : session'[t] = session[t]
BY DEF TypeInv, TypeOK, Goes

LEMMA IdleIs == Idle \in Session /\ Holding(Idle) /\ Idle.step = "idle"
BY PostsAssumption DEF Idle, Session, Steps, Failures, Times, Holding

LEMMA EndsMoves ==
  ASSUME TypeInv, NEW s \in Sessions, Ends(s)
  PROVE  session' \in [Sessions -> Session] /\ (\A t \in Sessions : Holding(session'[t]))
         /\ session'[s] = Idle /\ \A t \in Sessions \ {s} : session'[t] = session[t]
BY IdleIs, Moves DEF Ends

(* A step further, with the same claim, key and row. *)
LEMMA FurtherMoves ==
  ASSUME TypeInv, NEW s \in Sessions, NEW step \in Steps, NEW f \in Failures,
         step \in {"provider", "answered", "failed"} => session[s].step \in {"reserve", "provider"},
         step \notin {"read", "reserve"},
         \/ Goes(s, [session[s] EXCEPT !.step = step]) \/ Goes(s, [session[s] EXCEPT !.step = step, !.failure = f])
  PROVE  session' \in [Sessions -> Session] /\ (\A t \in Sessions : Holding(session'[t]))
         /\ session'[s].step = step /\ session'[s].claim = session[s].claim /\ session'[s].since = session[s].since
         /\ session'[s].seen = session[s].seen /\ session'[s].key = session[s].key
         /\ \A t \in Sessions \ {s} : session'[t] = session[t]
<1>1. session[s] \in Session /\ Holding(session[s])
  BY DEF TypeInv, TypeOK
<1>2. ASSUME NEW x, x \in {[session[s] EXCEPT !.step = step], [session[s] EXCEPT !.step = step, !.failure = f]}
      PROVE  x \in Session /\ Holding(x) /\ x.step = step /\ x.claim = session[s].claim /\ x.since = session[s].since
             /\ x.seen = session[s].seen /\ x.key = session[s].key
  BY <1>1, <1>2 DEF Session, Holding
<1>3. PICK x : Goes(s, x) /\ x \in {[session[s] EXCEPT !.step = step], [session[s] EXCEPT !.step = step, !.failure = f]}
  OBVIOUS
<1> QED
  BY <1>2, <1>3, Moves

SessionTypes == session \in [Sessions -> Session] /\ \A s \in Sessions : Holding(session[s])
OtherTypes ==
  /\ shared \in Snapshot \cup {None} /\ nextId \in 1..(MaxItems + 1) /\ gone \subseteq Items /\ view \in [Clients -> View]
LEMMA TypeParts ==
  TypeInv <=> now \in 0..MaxTime /\ usage \in [Keys -> Usage] /\ RowIs(row) /\ OtherTypes /\ SessionTypes
BY DEF TypeInv, TypeOK, RowIs, OtherTypes, SessionTypes

LEMMA SharedIs == ASSUME OtherTypes, NEW r \in Row PROVE PostsSynced(r) \in Snapshot \cup {None} /\ SnapshotOf(r) \in Snapshot
BY DEF OtherTypes, Row, Snapshot, PostsSynced, SnapshotOf

LEMMA OwnerTypes == ASSUME TypeInv, Owner PROVE RowIs(row)' /\ OtherTypes'
<1>t. /\ row \in Row /\ Cardinality(PostsIn(row.posts)) <= MaxPosts /\ OtherTypes /\ now \in 0..MaxTime
      /\ nextId \in 1..(MaxItems + 1) /\ gone \subseteq Items /\ view \in [Clients -> View] /\ MaxItems \in Nat /\ MaxRevision \in Nat
      /\ row.posts \in SUBSET Items /\ row.revision \in 0..MaxRevision
  BY TypeParts, PostsAssumption DEF RowIs, OtherTypes, Row
<1>1. ASSUME NEW c \in Clients, Load(c) PROVE RowIs(row)' /\ OtherTypes'
  <2>1. [posts |-> row.posts, revision |-> row.revision] \in View
    BY <1>t DEF View
  <2> QED
    BY <1>1, <1>t, <2>1 DEF Load, RowIs, OtherTypes
<1>2. ASSUME NEW c \in Clients, Save(c) PROVE RowIs(row)' /\ OtherTypes'
  <2>1. PICK posts \in Edits(view[c].posts) :
          /\ posts \subseteq [post : Ids, id : Ids] /\ Cardinality(PostsIn(posts)) <= MaxPosts
          /\ row' = [row EXCEPT !.posts = posts, !.revision = @ + 1]
          /\ gone' = gone \cup (view[c].posts \ posts)
          /\ nextId' = IF posts \subseteq view[c].posts THEN nextId ELSE nextId + 1
          /\ view' = [view EXCEPT ![c] = [posts |-> posts, revision |-> row.revision + 1]]
    BY <1>2 DEF Save, Fits
  <2>2. row.revision + 1 \in 0..MaxRevision /\ posts \in SUBSET Items /\ view[c] \in View /\ view[c].posts \in SUBSET Items
    BY <1>2, <1>t, <2>1 DEF Save, Items, View
  <2>3. RowIs(row)' /\ row' \in Row
    BY <1>t, <2>1, <2>2 DEF RowIs, Row
  <2>4. nextId' \in 1..(MaxItems + 1)
    <3>1. CASE posts \subseteq view[c].posts
      BY <1>t, <2>1, <3>1
    <3>2. CASE ~ (posts \subseteq view[c].posts)
      <4>1. PICK i \in posts : i.id = nextId
        BY <2>1, <2>2, <3>2, EditKeeps
      <4>2. nextId \in Ids
        BY <2>2, <4>1 DEF Items
      <4> QED
        BY <1>t, <2>1, <3>2, <4>2 DEF Ids
    <3> QED
      BY <3>1, <3>2
  <2>5. view' \in [Clients -> View]
    BY <1>t, <2>1, <2>2 DEF View
  <2>6. gone' \subseteq Items /\ shared' \in Snapshot \cup {None}
    BY <1>2, <1>t, <2>1, <2>2, <2>3, SharedIs DEF Save
  <2> QED
    BY <2>3, <2>4, <2>5, <2>6 DEF OtherTypes
<1>3. ASSUME NEW p \in Ids, Comment(p) PROVE RowIs(row)' /\ OtherTypes'
  <2>1. PICK i : i = [post |-> p, id |-> nextId]
    OBVIOUS
  <2>2. /\ nextId <= MaxItems /\ row.revision < MaxRevision /\ p \in PostsIn(row.posts)
        /\ row' = [row EXCEPT !.posts = @ \cup {i}, !.revision = @ + 1] /\ nextId' = nextId + 1
        /\ shared' = PostsSynced(row') /\ UNCHANGED <<gone, view>>
    BY <1>3, <2>1 DEF Comment
  <2>3. i \in Items /\ i.post = p
    BY <1>t, <2>1, <2>2 DEF Items, Ids
  <2>4. row' \in Row /\ row'.posts = row.posts \cup {i}
    <3>1. row.revision + 1 \in 0..MaxRevision /\ row.posts \cup {i} \in SUBSET Items
      BY <1>t, <2>2, <2>3
    <3> QED
      BY <1>t, <2>2, <3>1 DEF Row
  <2>5. PostsIn(row.posts \cup {i}) = PostsIn(row.posts)
    BY <2>2, <2>3 DEF PostsIn
  <2> QED
    BY <1>t, <2>2, <2>4, <2>5, SharedIs DEF RowIs, OtherTypes
<1>4. ASSUME NEW profile \in Profiles, EditProfile(profile) PROVE RowIs(row)' /\ OtherTypes'
  <2>1. row' \in Row /\ row'.posts = row.posts
    BY <1>4, <1>t DEF EditProfile, Row
  <2> QED
    BY <1>4, <1>t, <2>1, SharedIs DEF EditProfile, RowIs, OtherTypes
<1>5. ASSUME NEW b \in BOOLEAN, UpdateVisibility(b) PROVE RowIs(row)' /\ OtherTypes'
  <2>1. row' \in Row /\ row'.posts = row.posts
    BY <1>5, <1>t DEF UpdateVisibility, Row
  <2> QED
    BY <1>5, <1>t, <2>1, SharedIs DEF UpdateVisibility, RowIs, OtherTypes
<1>6. ASSUME NEW b \in BOOLEAN, UpdateAutoPost(b) PROVE RowIs(row)' /\ OtherTypes'
  <2>1. NextSchedule(b) \in Times \cup {None}
    BY <1>t, NextScheduleType DEF RowInv
  <2>2. row' \in Row /\ row'.posts = row.posts
    BY <1>6, <1>t, <2>1 DEF UpdateAutoPost, Row
  <2> QED
    BY <1>6, <1>t, <2>2 DEF UpdateAutoPost, RowIs, OtherTypes
<1> QED
  BY <1>1, <1>2, <1>3, <1>4, <1>5, <1>6 DEF Owner

(* What a session writes when it has its post. *)
LEMMA PersistIs ==
  ASSUME TypeInv, NEW s \in Sessions, Persist(s), StillReserved(session[s].key)
  PROVE  LET seen == session[s].seen
             posts == Newest(seen.posts \cup {NewPost})
         IN  \E added \in Row, new \in Row :
               /\ added.posts = posts /\ added.last = seen.last /\ added.next = seen.next /\ added.enabled = seen.enabled
               /\ new = (IF Automatic(s) THEN Completed(added) ELSE added) /\ new.posts = posts /\ seen \in Row
               /\ Cardinality(PostsIn(posts)) <= MaxPosts /\ posts \subseteq seen.posts \cup {NewPost} /\ NewPost \in Items
               /\ row' = Written(seen, new) /\ shared' = PostsSynced(new) /\ gone' = gone \cup (seen.posts \ posts)
               /\ nextId' = nextId + 1 /\ nextId <= MaxItems /\ view' = view /\ now' = now /\ Ends(s)
               /\ usage' = [usage EXCEPT ![session[s].key] = [@ EXCEPT !.status = "committed", !.post = nextId]]
<1> DEFINE seen == session[s].seen
           posts == Newest(seen.posts \cup {NewPost})
<1>1. /\ session[s].step = "answered" /\ nextId <= MaxItems /\ seen.revision < MaxRevision
      /\ session[s] \in Session /\ Holding(session[s]) /\ nextId \in 1..(MaxItems + 1) /\ now \in 0..MaxTime
  BY DEF Persist, TypeInv, TypeOK
<1>2. seen \in Row /\ MaxItems \in Nat /\ MaxRevision \in Nat
  BY <1>1, PostsAssumption DEF Holding, RowIs
<1>3. NewPost \in Items
  BY <1>1, <1>2 DEF NewPost, Items, Ids
<1>4. seen.posts \cup {NewPost} \in SUBSET Items
  BY <1>2, <1>3 DEF Row
<1>5. posts \subseteq seen.posts \cup {NewPost} /\ Cardinality(PostsIn(posts)) <= MaxPosts
  BY <1>4, NewestIs
<1> HIDE DEF posts
<1>6. PICK added : added = [seen EXCEPT !.posts = posts, !.revision = @ + 1]
  OBVIOUS
<1>7. added \in Row /\ added.posts = posts /\ added.last = seen.last /\ added.next = seen.next /\ added.enabled = seen.enabled
  <2>1. posts \in SUBSET Items /\ seen.revision + 1 \in 0..MaxRevision
    BY <1>1, <1>2, <1>4, <1>5 DEF Row
  <2> QED
    BY <1>2, <1>6, <2>1 DEF Row
<1>8. PICK new : new = IF Automatic(s) THEN Completed(added) ELSE added
  OBVIOUS
<1>9. new \in Row /\ new.posts = posts
  BY <1>1, <1>7, <1>8, ScheduledIs
<1>10. /\ row' = Written(seen, new) /\ shared' = PostsSynced(new) /\ gone' = gone \cup (seen.posts \ posts)
       /\ nextId' = nextId + 1 /\ view' = view /\ now' = now /\ Ends(s)
       /\ usage' = [usage EXCEPT ![session[s].key] = [@ EXCEPT !.status = "committed", !.post = nextId]]
  BY <1>6, <1>8 DEF Persist, posts
<1> QED
  BY <1>1, <1>2, <1>3, <1>5, <1>7, <1>8, <1>9, <1>10 DEF posts

(* A session goes on with what it holds, or ends. *)
FurtherOn(s) ==
  \E step \in {"provider", "answered", "failed", "release"}, f \in Failures :
    /\ step # "release" => session[s].step \in {"reserve", "provider"}
    /\ Goes(s, [session[s] EXCEPT !.step = step]) \/ Goes(s, [session[s] EXCEPT !.step = step, !.failure = f])
LEMMA SessionGoesOn ==
  ASSUME NEW s \in Sessions, Reserve(s) \/ Provide(s) \/ Reject(s) \/ Cancel(s) \/ Crash(s)
  PROVE  Ends(s) \/ FurtherOn(s)
<1>0. "retry" \in Failures /\ "insufficient" \in Failures
  BY DEF Failures
<1>1. ASSUME NEW f \in {"insufficient", "retry"}, FailsWith(s, f), session[s].step \in {"reserve", "provider"}
      PROVE  Ends(s) \/ FurtherOn(s)
  BY <1>0, <1>1 DEF FailsWith, FurtherOn
<1>2. ASSUME NEW step \in {"provider", "answered", "release"}, Goes(s, [session[s] EXCEPT !.step = step]),
             step # "release" => session[s].step \in {"reserve", "provider"}
      PROVE  FurtherOn(s)
  BY <1>0, <1>2 DEF FurtherOn
<1>3. ASSUME Reserve(s) PROVE Ends(s) \/ FurtherOn(s)
  <2>1. /\ session[s].step = "reserve"
        /\ \/ Ends(s) \/ (\E f \in {"insufficient", "retry"} : FailsWith(s, f))
           \/ Goes(s, [session[s] EXCEPT !.step = "provider"])
    BY <1>3 DEF Reserve
  <2> QED
    BY <1>1, <1>2, <2>1
<1>4. ASSUME Provide(s) PROVE Ends(s) \/ FurtherOn(s)
  BY <1>1, <1>2, <1>4 DEF Provide
<1>5. ASSUME Reject(s) \/ Cancel(s) PROVE Ends(s) \/ FurtherOn(s)
  BY <1>2, <1>5 DEF Reject, Cancel
<1> QED
  BY <1>3, <1>4, <1>5 DEF Crash

LEMMA SessionSteps ==
  ASSUME TypeInv, NEW s \in Sessions,
         Claim(s) \/ (\E k \in RequestKeys : Request(s, k)) \/ Proceed(s) \/ Cancel(s) \/ Crash(s)
  PROVE  RowIs(row)' /\ OtherTypes' /\ SessionTypes'
<1>t. /\ row \in Row /\ RowIs(row) /\ OtherTypes /\ SessionTypes /\ now \in 0..MaxTime /\ now \in Times
      /\ session[s] \in Session /\ Holding(session[s])
  <2>1. \A n \in 0..MaxTime : n \in Times
    BY PostsAssumption DEF Times
  <2> QED
    BY <2>1, TypeParts DEF RowIs, SessionTypes
<1>1. ASSUME Claim(s) PROVE RowIs(row)' /\ OtherTypes' /\ SessionTypes'
  <2>1. PICK x : x = [Idle EXCEPT !.step = "read", !.key = RequestKey(row), !.claim = now, !.since = now, !.counted = row.failures]
    OBVIOUS
  <2>2. row.next \in Times /\ row.failures \in Nat
    BY <1>1, <1>t DEF Claim, Due, Row
  <2>3. x \in Session /\ Holding(x)
    BY <1>t, <2>1, <2>2, IdleIs DEF Idle, Session, Steps, Failures, Holding, RequestKey, Keys, AutoKeys
  <2>4. SessionTypes'
    BY <1>1, <2>1, <2>3, Moves DEF Claim, SessionTypes
  <2>5. row' \in Row /\ row'.posts = row.posts
    BY <1>1, <1>t DEF Claim, Row
  <2> QED
    BY <1>1, <1>t, <2>4, <2>5 DEF Claim, RowIs, OtherTypes
<1>2. ASSUME NEW k \in RequestKeys, Request(s, k) PROVE RowIs(row)' /\ OtherTypes' /\ SessionTypes'
  <2>1. PICK x : x = [Idle EXCEPT !.step = "read", !.key = k, !.since = now]
    OBVIOUS
  <2>2. x \in Session /\ Holding(x)
    BY <1>t, <2>1, IdleIs DEF Idle, Session, Steps, Failures, Holding, Keys
  <2> QED
    BY <1>2, <1>t, <2>1, <2>2, Moves DEF Request, SessionTypes, RowIs, OtherTypes
<1>3. ASSUME Read(s) PROVE RowIs(row)' /\ OtherTypes' /\ SessionTypes'
  <2>1. PICK x : x = [session[s] EXCEPT !.step = "reserve", !.seen = row]
    OBVIOUS
  <2>2. x \in Session /\ Holding(x)
    BY <1>t, <2>1 DEF Session, Steps, Holding
  <2> QED
    BY <1>3, <1>t, <2>1, <2>2, Moves DEF Read, SessionTypes, RowIs, OtherTypes
<1>4. ASSUME Ends(s) \/ FurtherOn(s) PROVE SessionTypes'
  BY <1>4, EndsMoves, FurtherMoves DEF SessionTypes, FurtherOn, Steps, Failures
<1>5. ASSUME Reserve(s) \/ Provide(s) \/ Reject(s) \/ Cancel(s) \/ Crash(s)
      PROVE RowIs(row)' /\ OtherTypes' /\ SessionTypes'
  <2>1. UNCHANGED <<row, shared, nextId, gone, view>> /\ (Ends(s) \/ FurtherOn(s))
    BY <1>5, SessionGoesOn DEF Reserve, Provide, Reject, Cancel, Crash
  <2> QED
    BY <1>4, <1>t, <2>1 DEF RowIs, OtherTypes
<1>6. ASSUME Persist(s) PROVE RowIs(row)' /\ OtherTypes' /\ SessionTypes'
  <2>1. CASE ~ StillReserved(session[s].key)
    BY <1>4, <1>6, <1>t, <2>1 DEF Persist, RowIs, OtherTypes
  <2>2. CASE StillReserved(session[s].key)
    <3> DEFINE seen == session[s].seen
               posts == Newest(seen.posts \cup {NewPost})
    <3>1. PICK added \in Row, new \in Row :
               /\ new.posts = posts /\ seen \in Row
               /\ Cardinality(PostsIn(posts)) <= MaxPosts /\ posts \subseteq seen.posts \cup {NewPost} /\ NewPost \in Items
               /\ row' = Written(seen, new) /\ shared' = PostsSynced(new) /\ gone' = gone \cup (seen.posts \ posts)
               /\ nextId' = nextId + 1 /\ nextId <= MaxItems /\ view' = view /\ Ends(s)
      BY <1>6, <2>2, PersistIs
    <3> HIDE DEF posts
    <3>2. RowIs(row)'
      BY <1>t, <3>1, WrittenIs DEF RowIs
    <3>3. gone' \subseteq Items
      BY <1>t, <3>1 DEF Row, OtherTypes
    <3>4. shared' \in Snapshot \cup {None}
      BY <1>t, <3>1, SharedIs
    <3>5. nextId' \in 1..(MaxItems + 1)
      BY <1>t, <3>1, PostsAssumption DEF OtherTypes
    <3> QED
      BY <1>4, <1>t, <3>1, <3>2, <3>3, <3>4, <3>5 DEF OtherTypes
  <2> QED
    BY <2>1, <2>2
<1>7. ASSUME Fail(s) PROVE RowIs(row)' /\ OtherTypes' /\ SessionTypes'
  <2>1. PICK new : new = IF session[s].failure = "insufficient" THEN Stopped(session[s].seen)
                         ELSE Delayed(session[s].seen, session[s].seen.failures)
    OBVIOUS
  <2>2. session[s].seen \in Row
    BY <1>7, <1>t DEF Fail, Holding, RowIs
  <2>3. new \in Row /\ new.posts = session[s].seen.posts
    BY <1>t, <2>1, <2>2, ScheduledIs
  <2>4. row' = Written(session[s].seen, new) \/ row' = row
    BY <1>7, <2>1 DEF Fail
  <2>5. RowIs(row)'
    BY <1>t, <2>2, <2>3, <2>4, WrittenIs DEF RowIs
  <2> QED
    BY <1>4, <1>7, <1>t, <2>5 DEF Fail, OtherTypes
<1>8. ASSUME Release(s) PROVE RowIs(row)' /\ OtherTypes' /\ SessionTypes'
  <2>1. row' = Delayed(row, session[s].counted) \/ row' = row
    BY <1>8 DEF Release
  <2>2. RowIs(row)'
    BY <1>t, <2>1, ScheduledIs DEF RowIs
  <2> QED
    BY <1>4, <1>8, <1>t, <2>2 DEF Release, OtherTypes
<1> QED
  BY <1>1, <1>2, <1>3, <1>5, <1>6, <1>7, <1>8 DEF Proceed

LEMMA TypeStep == ASSUME TypeInv, [Next]_vars PROVE TypeInv'
<1>1. usage' \in [Keys -> Usage] /\ now' \in 0..MaxTime
  <2>1. UsageInv
    BY TypeParts, PostsAssumption DEF UsageInv, OtherTypes
  <2> QED
    BY <2>1, UsageStep DEF UsageInv
<1>2. RowIs(row)' /\ OtherTypes' /\ SessionTypes'
  <2>1. CASE Owner
    <3>1. session' = session
      BY <2>1 DEF Owner, Load, Save, Comment, EditProfile, UpdateVisibility, UpdateAutoPost
    <3> QED
      BY <2>1, <3>1, OwnerTypes, TypeParts DEF SessionTypes
  <2>2. ASSUME NEW s \in Sessions,
               Claim(s) \/ (\E k \in RequestKeys : Request(s, k)) \/ Proceed(s) \/ Cancel(s) \/ Crash(s)
        PROVE  RowIs(row)' /\ OtherTypes' /\ SessionTypes'
    BY <2>2, SessionSteps
  <2>3. CASE Expire \/ Tick \/ UNCHANGED vars
    BY <2>3, TypeParts DEF Expire, Tick, vars, RowIs, OtherTypes, SessionTypes
  <2> QED
    BY <2>1, <2>2, <2>3 DEF Next
<1> QED
  BY <1>1, <1>2 DEF TypeInv, TypeOK, RowIs, OtherTypes, SessionTypes

LEMMA TypeInit == Init => TypeInv
<1> SUFFICES ASSUME Init PROVE TypeInv
  OBVIOUS
<1>1. ListInv
  BY ListInit
<1>2. RowIs(row)
  <2>1. row.posts = {} /\ row \in Row
    BY <1>1 DEF Init, ListInv, RowInv
  <2>2. PostsIn({}) = {} /\ Cardinality({}) = 0
    BY FS_EmptySet DEF PostsIn
  <2> QED
    BY <2>1, <2>2, PostsAssumption DEF RowIs
<1>3. shared \in Snapshot
  BY <1>2 DEF Init, RowIs, Row, Snapshot
<1>4. usage \in [Keys -> Usage]
  BY PostsAssumption DEF Init, NoUsage, Usage, Times
<1>5. SessionTypes
  BY IdleIs DEF Init, SessionTypes
<1>6. OtherTypes
  BY <1>1, <1>3 DEF Init, OtherTypes, ListInv, RowInv
<1> QED
  BY <1>1, <1>2, <1>4, <1>5, <1>6, TypeParts DEF ListInv, RowInv

(* Whatever devices, visitors, workers and failures do: ids, revisions and due times stay in    *)
(* their bounds and the list is never longer than its limit (CharacterPostsRepository, Newest). *)
THEOREM TypeCorrect == Spec => []TypeOK
<1>1. TypeInv => TypeOK
  BY DEF TypeInv
<1> QED
  BY <1>1, TypeInit, TypeStep, PTL DEF Spec

-----------------------------------------------------------------------------
(* Workers, and no devices or requests of the owner, whose sessions end before their reservation does. *)
WorkersOnly ==
  /\ Clients = {} /\ RequestKeys = {} /\ Punctual
  /\ ReservationTTL < Lease /\ ReservationTTL < Interval

Older(posts, next) == \A i \in posts : i.id < next /\ i.post < next
Paid(items, charges) ==
  \A k \in Keys : charges[k].status = "committed" => \E i \in items : i.id = charges[k].post
(* The next post is due an interval after the last one. *)
Spaced(r, t) == r.last # None => r.last <= t /\ (r.next # None => r.next >= r.last + Interval)

Busy(x) == x.step # "idle"
Holds(x) == x.step \in {"reserve", "provider", "answered", "failed"}
(* The row still has the claim, or the owner has taken it away and nothing is due soon. *)
Claimed(r, c) == r.claimed = c /\ r.enabled /\ r.next \in 0..c
Freed(r, c) == r.claimed = None /\ (r.next # None => r.next >= c + Interval)
InTime(x, r, t) ==
  /\ x.claim \in 0..t /\ x.since = x.claim /\ t <= x.claim + ReservationTTL
  /\ r.last # None => r.last + Interval <= x.claim
  /\ Claimed(r, x.claim) \/ Freed(r, x.claim)
(* Of the row a worker holds, the last post and the charges are not out of date. *)
Fresh(x, r, next, out, charges) ==
  /\ x.seen.last = r.last /\ Older(x.seen.posts, next) /\ Paid(x.seen.posts \cup out, charges)
  /\ x.seen.claimed = x.claim => x.seen.enabled /\ x.seen.next \in 0..x.claim

Alone == \A s, t \in Sessions : Busy(session[s]) /\ Busy(session[t]) => s = t
WorkInv ==
  /\ Older(row.posts, nextId) /\ Paid(row.posts \cup gone, usage) /\ Spaced(row, now) /\ Alone
  /\ \A s \in Sessions :
       /\ Busy(session[s]) => InTime(session[s], row, now)
       /\ Holds(session[s]) => Fresh(session[s], row, nextId, gone, usage)

LEMMA OlderKept ==
  ASSUME NEW posts \in SUBSET Items, NEW n \in Int, NEW m \in Int, n <= m, Older(posts, n)
  PROVE  Older(posts, m)
<1>1. \A i \in posts : i.id \in Int /\ i.post \in Int
  BY DEF Items, Ids
<1> QED
  BY <1>1 DEF Older

(* No charge is committed but by the session that adds the post. *)
Uncommitted == \A k \in Keys : usage'[k].status = "committed" => usage'[k] = usage[k]
LEMMA OnlyPersistCommits ==
  ASSUME TypeInv,
         \/ Owner \/ Expire \/ Tick \/ UNCHANGED vars
         \/ \E s \in Sessions :
              \/ Claim(s) \/ (\E k \in RequestKeys : Request(s, k)) \/ Read(s) \/ Fail(s) \/ Release(s)
              \/ Reserve(s) \/ Provide(s) \/ Reject(s) \/ Cancel(s) \/ Crash(s)
  PROVE  Uncommitted
<1>t. usage \in [Keys -> Usage]
  BY TypeParts
<1>1. ASSUME usage' = Settled PROVE Uncommitted
  BY <1>1, <1>t DEF Settled, Usage, Uncommitted
<1>2. ASSUME NEW k, usage' = Refunded(k) PROVE Uncommitted
  BY <1>2, <1>t DEF Refunded, Usage, Uncommitted
<1>3. ASSUME NEW s \in Sessions, Reserve(s) PROVE Uncommitted
  <2>1. ASSUME NEW k, NEW u, u.status # "committed", usage' = [Settled EXCEPT ![k] = u] PROVE Uncommitted
    <3>1. \A j \in Keys : usage'[j] = u \/ usage'[j] = Settled[j]
      BY <2>1 DEF Settled
    <3>2. \A j \in Keys : Settled[j].status = "committed" => Settled[j] = usage[j]
      BY <1>t DEF Settled, Usage
    <3> QED
      BY <2>1, <3>1, <3>2 DEF Uncommitted
  <2>2. [NoUsage EXCEPT !.status = "refunded", !.created = now].status = "refunded"
    BY DEF NoUsage
  <2>3. [NoUsage EXCEPT !.status = "reserved", !.created = now].status = "reserved"
    BY DEF NoUsage
  <2>4. \/ usage' = Settled
        \/ usage' = [Settled EXCEPT ![session[s].key] = [NoUsage EXCEPT !.status = "refunded", !.created = now]]
        \/ usage' = [Settled EXCEPT ![session[s].key] = [NoUsage EXCEPT !.status = "reserved", !.created = now]]
    BY <1>3 DEF Reserve
  <2> QED
    BY <1>1, <2>1, <2>2, <2>3, <2>4
<1>4. ASSUME usage' = usage PROVE Uncommitted
  BY <1>4 DEF Uncommitted
<1>5. CASE Owner \/ Tick \/ UNCHANGED vars
  BY <1>4, <1>5 DEF Owner, Load, Save, Comment, EditProfile, UpdateVisibility, UpdateAutoPost, Tick, vars
<1>6. ASSUME NEW s \in Sessions, Provide(s) \/ Reject(s) \/ Cancel(s) PROVE Uncommitted
  BY <1>2, <1>4, <1>6 DEF Provide, Reject, Cancel
<1>7. ASSUME NEW s \in Sessions, Claim(s) \/ (\E k \in RequestKeys : Request(s, k)) \/ Read(s) \/ Fail(s) \/ Release(s) \/ Crash(s)
      PROVE  Uncommitted
  BY <1>4, <1>7 DEF Claim, Request, Read, Fail, Release, Crash
<1> QED
  BY <1>1, <1>3, <1>5, <1>6, <1>7 DEF Expire

LEMMA FreshKept ==
  ASSUME NEW x, x.seen \in Row, NEW r, NEW q, q.last = r.last, NEW n \in Int, NEW m \in Int, n <= m,
         NEW out, NEW away, out \subseteq away, Uncommitted, Fresh(x, r, n, out, usage)
  PROVE  Fresh(x, q, m, away, usage')
<1>1. Older(x.seen.posts, m)
  <2>1. x.seen.posts \in SUBSET Items
    BY DEF Row
  <2> QED
    BY <2>1, OlderKept DEF Fresh
<1>2. Paid(x.seen.posts \cup away, usage')
  BY DEF Fresh, Paid, Uncommitted
<1> QED
  BY <1>1, <1>2 DEF Fresh

LEMMA PaidKept ==
  ASSUME NEW items, NEW more, items \subseteq more, Uncommitted, Paid(items, usage) PROVE Paid(more, usage')
BY DEF Paid, Uncommitted

LEMMA WorkTypes ==
  ASSUME TypeInv
  PROVE  /\ now \in 0..MaxTime /\ now \in Nat /\ nextId \in Nat /\ row \in Row /\ row.posts \in SUBSET Items
         /\ \A t \in Times : t \in Nat /\ t # None
         /\ \A t \in 0..now : t \in Times
         /\ row.next \in Times \cup {None} /\ row.last \in Times \cup {None} /\ row.claimed \in Times \cup {None}
         /\ \A s \in Sessions : Holds(session[s]) => session[s].seen \in Row
         /\ {Interval, Lease, ReservationTTL, MaxTime, MaxItems} \subseteq Nat
<1>1. row \in Row /\ now \in 0..MaxTime /\ nextId \in 1..(MaxItems + 1)
  BY DEF TypeInv, TypeOK
<1>2. \A s \in Sessions : Holds(session[s]) => session[s].seen \in Row
  BY DEF TypeInv, Holding, Holds, RowIs
<1>3. {Interval, Lease, ReservationTTL, MaxTime, MaxItems, RetryMax} \subseteq Nat
  BY PostsAssumption
<1>4. row.next \in Times \cup {None} /\ row.last \in Times \cup {None} /\ row.claimed \in Times \cup {None} /\ row.posts \in SUBSET Items
  BY <1>1 DEF Row
<1>5. \A t \in 0..now : t \in Times
  BY <1>1, <1>3 DEF Times
<1>6. \A t \in Times : t \in Nat /\ t # None
  BY <1>3, PostsAssumption DEF Times
<1> QED
  BY <1>1, <1>2, <1>3, <1>4, <1>5, <1>6

(* A step that does not touch the schedule, of no session. *)
LEMMA ListsGrow ==
  ASSUME TypeInv, TypeInv', WorkInv, session' = session, now' = now, gone' = gone, Uncommitted,
         row.posts \subseteq row'.posts, row'.last = row.last, row'.next = row.next, row'.enabled = row.enabled,
         row'.claimed = row.claimed, nextId <= nextId', Older(row'.posts, nextId')
  PROVE  WorkInv'
<1>1. Paid(row'.posts \cup gone', usage')
  BY PaidKept DEF WorkInv
<1>2. Spaced(row', now')
  BY DEF WorkInv, Spaced
<1>3. ASSUME NEW s \in Sessions, Busy(session[s]) PROVE InTime(session[s], row', now')
  BY <1>3 DEF WorkInv, InTime, Claimed, Freed
<1>4. ASSUME NEW s \in Sessions, Holds(session[s]) PROVE Fresh(session[s], row', nextId', gone', usage')
  <2>1. nextId' \in Int /\ nextId \in Int /\ gone \subseteq gone' /\ session[s].seen \in Row
    BY <1>4, WorkTypes, PostsAssumption DEF TypeInv, TypeOK
  <2>2. Fresh(session[s], row, nextId, gone, usage)
    BY <1>4 DEF WorkInv
  <2> QED
    BY <2>1, <2>2, FreshKept
<1> QED
  BY <1>1, <1>2, <1>3, <1>4 DEF WorkInv, Alone

(* A step of one session: another one that is busy after it was so before. *)
LEMMA NoneBegins ==
  ASSUME WorkInv, NEW s \in Sessions, Busy(session[s]), \A t \in Sessions \ {s} : session'[t] = session[t]
  PROVE  Alone' /\ \A t \in Sessions \ {s} : ~ Busy(session'[t])
<1>1. \A t \in Sessions \ {s} : ~ Busy(session'[t])
  BY DEF WorkInv, Alone
<1> QED
  BY <1>1 DEF Alone

LEMMA IdleSteps == ASSUME NEW x, ~ Busy(x) PROVE ~ Holds(x)
BY DEF Busy, Holds

(* What is left when the worker that was busy ends. *)
LEMMA WorkEnds ==
  ASSUME TypeInv, WorkInv, NEW s \in Sessions, Busy(session[s]), Ends(s),
         Older(row'.posts, nextId'), Paid(row'.posts \cup gone', usage'), Spaced(row', now')
  PROVE  WorkInv'
<1>1. session'[s] = Idle /\ \A t \in Sessions \ {s} : session'[t] = session[t]
  BY EndsMoves
<1>2. Alone' /\ \A t \in Sessions \ {s} : ~ Busy(session'[t])
  BY <1>1, NoneBegins
<1>3. ~ Busy(Idle)
  BY IdleIs DEF Busy
<1>4. \A t \in Sessions : ~ Busy(session'[t]) /\ ~ Holds(session'[t])
  BY <1>1, <1>2, <1>3, IdleSteps
<1> QED
  BY <1>2, <1>4 DEF WorkInv

LEMMA OwnerWorks == ASSUME TypeInv, TypeInv', WorkInv, WorkersOnly, Owner PROVE WorkInv'
<1>t. Uncommitted
  BY DEF Owner, Load, Save, Comment, EditProfile, UpdateVisibility, UpdateAutoPost, Uncommitted
<1>1. ASSUME NEW p \in Ids, Comment(p) PROVE WorkInv'
  <2>1. PICK i : i = [post |-> p, id |-> nextId]
    OBVIOUS
  <2>2. row' = [row EXCEPT !.posts = @ \cup {i}, !.revision = @ + 1] /\ nextId' = nextId + 1 /\ p \in PostsIn(row.posts)
    BY <1>1, <2>1 DEF Comment
  <2>3. /\ row'.posts = row.posts \cup {i} /\ row'.last = row.last /\ row'.next = row.next
        /\ row'.enabled = row.enabled /\ row'.claimed = row.claimed
    BY <2>2, WorkTypes DEF Row
  <2>4. nextId <= nextId' /\ nextId' \in Int /\ nextId \in Int
    BY <2>2, WorkTypes
  <2>5. Older(row'.posts, nextId')
    <3>1. p < nextId
      BY <2>2 DEF PostsIn, WorkInv, Older
    <3>2. i.id < nextId' /\ i.post < nextId'
      BY <2>1, <2>2, <2>4, <3>1 DEF Ids
    <3>3. Older(row.posts, nextId')
      BY <2>4, OlderKept, WorkTypes DEF WorkInv
    <3> QED
      BY <2>3, <3>2, <3>3 DEF Older
  <2> QED
    BY <1>1, <1>t, <2>3, <2>4, <2>5, ListsGrow DEF Comment
<1>2. ASSUME NEW p, NEW b, EditProfile(p) \/ UpdateVisibility(b) PROVE WorkInv'
  <2>1. /\ row'.posts = row.posts /\ row'.last = row.last /\ row'.next = row.next
        /\ row'.enabled = row.enabled /\ row'.claimed = row.claimed /\ nextId' = nextId
    BY <1>2, WorkTypes DEF EditProfile, UpdateVisibility, Row
  <2>2. Older(row'.posts, nextId') /\ nextId <= nextId' /\ UNCHANGED <<session, now, gone>>
    BY <1>2, <2>1, WorkTypes DEF WorkInv, EditProfile, UpdateVisibility
  <2> QED
    BY <1>t, <2>1, <2>2, ListsGrow
<1>3. ASSUME NEW b \in BOOLEAN, UpdateAutoPost(b) PROVE WorkInv'
  <2>1. PICK next : next = NextSchedule(b)
    OBVIOUS
  <2>2. row' = [row EXCEPT !.enabled = b, !.next = next, !.claimed = None, !.failures = 0]
    BY <1>3, <2>1 DEF UpdateAutoPost
  <2>3. /\ row'.posts = row.posts /\ row'.last = row.last /\ row'.next = next /\ row'.claimed = None
    BY <2>2, WorkTypes DEF Row
  <2>4. UNCHANGED <<now, nextId, gone, usage, session>>
    BY <1>3 DEF UpdateAutoPost
  <2>5. \/ next = None \/ next = now + Interval
        \/ row.enabled /\ row.next \in Nat /\ row.next > now /\ next \in {row.next, now + Interval}
    <3>1. CASE row.next \in Nat
      <4>1. Min({row.next, now + Interval}) \in {row.next, now + Interval}
        BY <3>1, WorkTypes, MinOfTwo
      <4> QED
        BY <2>1, <3>1, <4>1, WorkTypes DEF NextSchedule
    <3>2. CASE row.next = None
      BY <2>1, <3>2 DEF NextSchedule
    <3> QED
      BY <3>1, <3>2, WorkTypes
  <2>6. Spaced(row', now')
    BY <2>3, <2>4, <2>5, WorkTypes DEF WorkInv, Spaced
  <2>7. ASSUME NEW s \in Sessions, Busy(session[s]) PROVE InTime(session[s], row', now')
    <3>1. InTime(session[s], row, now)
      BY <2>7 DEF WorkInv
    <3>2. session[s].claim \in Nat /\ session[s].claim <= now
      BY <3>1, WorkTypes DEF InTime
    <3>3. next # None => next >= session[s].claim + Interval
      BY <2>5, <3>1, <3>2, WorkTypes DEF InTime, Claimed, Freed
    <3> QED
      BY <2>3, <2>4, <3>1, <3>3 DEF InTime, Freed
  <2>8. ASSUME NEW s \in Sessions, Holds(session[s]) PROVE Fresh(session[s], row', nextId', gone', usage')
    BY <2>3, <2>4, <2>8 DEF WorkInv, Fresh
  <2> QED
    BY <2>3, <2>4, <2>6, <2>7, <2>8 DEF WorkInv, Alone
<1> QED
  BY <1>1, <1>2, <1>3 DEF Owner, WorkersOnly

LEMMA ClaimWorks == ASSUME TypeInv, WorkInv, WorkersOnly, NEW s \in Sessions, Claim(s) PROVE WorkInv'
<1>1. \A t \in Sessions : ~ Busy(session[t])
  <2> SUFFICES ASSUME NEW t \in Sessions, Busy(session[t]) PROVE FALSE
    OBVIOUS
  <2>1. InTime(session[t], row, now) /\ session[t].claim \in Nat /\ session[t].claim # None
    BY WorkTypes DEF WorkInv, InTime
  <2>2. row.next # None /\ row.next <= now /\ Claimable(row.claimed)
    BY DEF Claim, Due
  <2>3. CASE Claimed(row, session[t].claim)
    BY <2>1, <2>2, <2>3, WorkTypes DEF Claimed, Claimable, InTime, WorkersOnly
  <2>4. CASE Freed(row, session[t].claim)
    BY <2>1, <2>2, <2>4, WorkTypes DEF Freed, InTime, WorkersOnly
  <2> QED
    BY <2>1, <2>3, <2>4 DEF InTime
<1>2. PICK x : x = [Idle EXCEPT !.step = "read", !.key = RequestKey(row), !.claim = now, !.since = now,
                          !.counted = row.failures]
  OBVIOUS
<1>3. x.step = "read" /\ x.claim = now /\ x.since = now
  BY <1>2 DEF Idle
<1>4. session' = [session EXCEPT ![s] = x] /\ session \in [Sessions -> Session]
  BY <1>2 DEF Claim, Goes, TypeInv, TypeOK
<1>5. session'[s] = x /\ \A t \in Sessions \ {s} : session'[t] = session[t]
  BY <1>4
<1>6. /\ row'.posts = row.posts /\ row'.last = row.last /\ row'.next = row.next
      /\ row'.enabled = row.enabled /\ row'.claimed = now
  BY WorkTypes DEF Claim, Row
<1>7. row.enabled /\ row.next \in 0..now /\ (row.last # None => row.last + Interval <= now)
  <2>1. row.enabled /\ row.next \in Nat /\ row.next <= now
    BY WorkTypes DEF Claim, Due
  <2> QED
    BY <2>1, WorkTypes DEF WorkInv, Spaced
<1>8. InTime(x, row', now)
  BY <1>3, <1>6, <1>7, WorkTypes DEF InTime, Claimed
<1>9. \A t \in Sessions : ~ Holds(session'[t])
  BY <1>1, <1>3, <1>5 DEF Holds, Busy
<1>10. Alone' /\ \A t \in Sessions : Busy(session'[t]) => InTime(session'[t], row', now)
  BY <1>1, <1>5, <1>8 DEF Alone
<1> QED
  BY <1>6, <1>9, <1>10 DEF WorkInv, Claim, Spaced

LEMMA ReadWorks == ASSUME TypeInv, WorkInv, NEW s \in Sessions, Read(s) PROVE WorkInv'
<1>1. PICK x : x = [session[s] EXCEPT !.step = "reserve", !.seen = row]
  OBVIOUS
<1>2. session[s] \in Session /\ session[s].step = "read"
  BY DEF Read, TypeInv, TypeOK
<1>3. x.step = "reserve" /\ x.claim = session[s].claim /\ x.since = session[s].since /\ x.seen = row
  BY <1>1, <1>2 DEF Session
<1>4. session' = [session EXCEPT ![s] = x] /\ session \in [Sessions -> Session] /\ UNCHANGED <<now, row, nextId, gone, usage>>
  BY <1>1 DEF Read, Goes, TypeInv, TypeOK
<1>5. session'[s] = x /\ \A t \in Sessions \ {s} : session'[t] = session[t]
  BY <1>4
<1>6. Busy(session[s]) /\ InTime(session[s], row, now)
  BY <1>2 DEF Busy, WorkInv
<1>7. InTime(x, row, now)
  BY <1>3, <1>6 DEF InTime
<1>8. Fresh(x, row, nextId, gone, usage)
  BY <1>3, <1>6, WorkTypes DEF WorkInv, Fresh, InTime, Claimed, Freed
<1>9. Alone' /\ \A t \in Sessions \ {s} : ~ Busy(session'[t])
  BY <1>5, <1>6, NoneBegins
<1> QED
  BY <1>4, <1>5, <1>7, <1>8, <1>9, IdleSteps DEF WorkInv

LEMMA GoesOnWorks ==
  ASSUME TypeInv, WorkInv, WorkersOnly, NEW s \in Sessions, Uncommitted,
         Reserve(s) \/ Provide(s) \/ Reject(s) \/ Cancel(s) \/ Crash(s)
  PROVE  WorkInv'
<1>1. UNCHANGED <<now, row, nextId, gone>> /\ Busy(session[s])
  BY DEF Reserve, Provide, Reject, Cancel, Crash, Busy
<1>2. Older(row'.posts, nextId') /\ Paid(row'.posts \cup gone', usage') /\ Spaced(row', now')
  BY <1>1, PaidKept DEF WorkInv
<1>3. CASE Ends(s)
  BY <1>1, <1>2, <1>3, WorkEnds
<1>4. CASE FurtherOn(s)
  <2>1. PICK step \in {"provider", "answered", "failed", "release"} :
          /\ session'[s].step = step /\ session'[s].claim = session[s].claim
          /\ session'[s].since = session[s].since /\ session'[s].seen = session[s].seen
          /\ \A t \in Sessions \ {s} : session'[t] = session[t]
          /\ step # "release" => session[s].step \in {"reserve", "provider"}
    BY <1>4, FurtherMoves DEF FurtherOn, Steps
  <2>2. InTime(session'[s], row', now')
    BY <1>1, <2>1 DEF WorkInv, InTime
  <2>3. Holds(session'[s]) => Fresh(session'[s], row', nextId', gone', usage')
    <3> SUFFICES ASSUME Holds(session'[s]) PROVE Fresh(session'[s], row', nextId', gone', usage')
      OBVIOUS
    <3>1. Holds(session[s])
      BY <2>1 DEF Holds
    <3>2. Fresh(session[s], row, nextId, gone, usage) /\ session[s].seen \in Row
      BY <3>1, WorkTypes DEF WorkInv
    <3>3. Fresh(session[s], row, nextId, gone, usage')
      BY <3>2, FreshKept, WorkTypes
    <3> QED
      BY <1>1, <2>1, <3>3 DEF Fresh
  <2>4. Alone' /\ \A t \in Sessions \ {s} : ~ Busy(session'[t])
    BY <1>1, <2>1, NoneBegins
  <2> QED
    BY <1>2, <2>2, <2>3, <2>4, IdleSteps DEF WorkInv
<1> QED
  BY <1>3, <1>4, SessionGoesOn

LEMMA PersistWorks ==
  ASSUME TypeInv, WorkInv, WorkersOnly, NEW s \in Sessions, Persist(s) PROVE WorkInv' /\ NoDuplicateStep
<1> DEFINE seen == session[s].seen
           posts == Newest(seen.posts \cup {NewPost})
           c == session[s].claim
<1>1. Busy(session[s]) /\ Holds(session[s]) /\ Ends(s) /\ CurrentClaim(s, seen) /\ now' = now
  BY DEF Persist, Busy, Holds
<1>2. InTime(session[s], row, now) /\ Fresh(session[s], row, nextId, gone, usage) /\ seen \in Row
  BY <1>1, WorkTypes DEF WorkInv
<1>3. c \in Nat /\ c <= now /\ c # None /\ (row.last # None => row.last + Interval <= c)
  BY <1>2, WorkTypes DEF InTime
<1>4. CASE ~ StillReserved(session[s].key)
  <2>1. UNCHANGED <<row, gone, nextId, usage, now>>
    BY <1>4 DEF Persist
  <2> QED
    BY <1>1, <2>1, WorkEnds DEF WorkInv, NoDuplicateStep
<1>5. CASE StillReserved(session[s].key)
  <2>1. PICK added \in Row, new \in Row :
               /\ added.last = seen.last /\ added.next = seen.next /\ added.enabled = seen.enabled
               /\ new = (IF Automatic(s) THEN Completed(added) ELSE added) /\ new.posts = posts
               /\ posts \subseteq seen.posts \cup {NewPost} /\ NewPost \in Items
               /\ row' = Written(seen, new) /\ gone' = gone \cup (seen.posts \ posts) /\ nextId' = nextId + 1
               /\ usage' = [usage EXCEPT ![session[s].key] = [@ EXCEPT !.status = "committed", !.post = nextId]]
    BY <1>5, PersistIs
  <2>2. seen.claimed = c /\ seen.enabled /\ seen.next \in 0..c /\ seen.last = row.last /\ Automatic(s)
    BY <1>1, <1>2, <1>3 DEF CurrentClaim, Fresh, Automatic
  <2>3. new.last = now /\ new.next = now + Interval
    BY <2>1, <2>2, ScheduledIs, WorkTypes
  <2>4. row'.last = now /\ row'.next = now + Interval
    <3>1. now + Interval # seen.next
      <4>1. Interval \in Nat \ {0} /\ now \in Nat
        BY PostsAssumption, WorkTypes
      <4>2. seen.next \in Nat /\ seen.next <= now
        BY <1>3, <2>2, <4>1
      <4> QED
        BY <4>1, <4>2
    <3> QED
      BY <1>2, <2>1, <2>2, <2>3, <3>1, WrittenIs, WorkTypes
  <2>5. Spaced(row', now')
    BY <1>1, <2>4, WorkTypes DEF Spaced
  <2>6. NoDuplicateStep
    BY <1>3, WorkTypes DEF NoDuplicateStep
  <2>7. \A i \in seen.posts : i.id < nextId /\ i.post < nextId
    BY <1>2 DEF Fresh, Older
  <2>8. NewPost.id = nextId /\ NewPost.post = nextId /\ NewPost \notin seen.posts /\ nextId \in Nat
    BY <2>7, WorkTypes DEF NewPost
  <2>9. NewPost \in posts
    <3>1. \A q \in PostsIn(seen.posts \cup {NewPost}) : ~ (q > nextId)
      <4>1. \A i \in seen.posts : i.post \in Int
        BY <1>2 DEF Row, Items, Ids
      <4> QED
        BY <2>7, <2>8, <4>1 DEF PostsIn
    <3>2. {q \in PostsIn(seen.posts \cup {NewPost}) : q > NewPost.post} = {}
      BY <2>8, <3>1
    <3>3. Cardinality({}) < MaxPosts
      BY FS_EmptySet, PostsAssumption
    <3> QED
      BY <3>2, <3>3 DEF Newest
  <2> HIDE DEF posts
  <2>10. row'.posts = posts
    <3>1. posts # seen.posts
      BY <2>8, <2>9
    <3> QED
      BY <1>2, <2>1, <3>1, WrittenIs, WorkTypes
  <2>11. Older(row'.posts, nextId')
    <3>1. Older(seen.posts, nextId')
      <4>1. seen.posts \in SUBSET Items
        BY <1>2 DEF Row
      <4> QED
        BY <1>2, <2>1, <2>8, <4>1, OlderKept DEF Fresh
    <3>2. NewPost.id < nextId' /\ NewPost.post < nextId'
      BY <2>1, <2>8
    <3> QED
      BY <2>1, <2>10, <3>1, <3>2 DEF Older
  <2>12. Paid(row'.posts \cup gone', usage')
    <3> SUFFICES ASSUME NEW k \in Keys, usage'[k].status = "committed"
                 PROVE  \E i \in posts \cup gone' : i.id = usage'[k].post
      BY <2>10 DEF Paid
    <3>1. usage \in [Keys -> Usage]
      BY TypeParts
    <3>2. CASE k = session[s].key
      <4>1. usage'[k].post = nextId
        BY <2>1, <3>1, <3>2 DEF Usage
      <4> QED
        BY <2>8, <2>9, <4>1
    <3>3. CASE k # session[s].key
      <4>1. usage'[k] = usage[k]
        BY <2>1, <3>1, <3>3
      <4>2. PICK i \in seen.posts \cup gone : i.id = usage[k].post
        BY <1>2, <4>1 DEF Fresh, Paid
      <4>3. i \in posts \cup gone'
        BY <2>1
      <4> QED
        BY <4>1, <4>2, <4>3
    <3> QED
      BY <3>2, <3>3
  <2> QED
    BY <1>1, <2>5, <2>6, <2>11, <2>12, WorkEnds
<1> QED
  BY <1>4, <1>5

(* A session that fails or frees its claim puts the next post off, never forward. *)
LEMMA EndingWorks ==
  ASSUME TypeInv, WorkInv, WorkersOnly, NEW s \in Sessions, Fail(s) \/ Release(s)
  PROVE  WorkInv' /\ row'.last = row.last
<1>1. Busy(session[s]) /\ Ends(s) /\ UNCHANGED <<now, nextId, gone, usage>>
  BY DEF Fail, Release, Busy
<1>2. InTime(session[s], row, now)
  BY <1>1 DEF WorkInv
<1>3. row.last # None => row.last \in Nat /\ row.last <= now /\ row.last + Interval <= now
  BY <1>2, WorkTypes DEF InTime
<1>4. row'.posts = row.posts /\ row'.last = row.last /\ Spaced(row', now)
  <2>1. CASE row' = row
    BY <2>1 DEF WorkInv
  <2>2. ASSUME NEW r \in Row, NEW n, row' = Delayed(r, n), r = row PROVE row'.posts = row.posts /\ row'.last = row.last /\ Spaced(row', now)
    <3>1. row'.posts = row.posts /\ row'.last = row.last /\ (row'.next # None => row'.next = now + RetryDelay(n))
      BY <2>2, ScheduledIs, WorkTypes
    <3>2. RetryDelay(n) \in Nat
      BY DelayIs, PostsAssumption
    <3> QED
      BY <1>3, <3>1, <3>2, WorkTypes DEF Spaced
  <2>3. ASSUME Fail(s), CurrentClaim(s, session[s].seen) PROVE row'.posts = row.posts /\ row'.last = row.last /\ Spaced(row', now)
    <3> DEFINE seen == session[s].seen
    <3>1. PICK new : new = IF session[s].failure = "insufficient" THEN Stopped(seen) ELSE Delayed(seen, seen.failures)
      OBVIOUS
    <3>2. seen \in Row /\ seen.last = row.last
      BY <2>3, WorkTypes DEF Fail, WorkInv, Holds, Fresh
    <3>3. row' = Written(seen, new)
      BY <2>3, <3>1 DEF Fail
    <3>4. new \in Row /\ new.posts = seen.posts /\ new.last = seen.last
      BY <3>1, <3>2, ScheduledIs, WorkTypes
    <3>5. new.next = None \/ \E n : new.next = now + RetryDelay(n)
      <4>1. Stopped(seen).next = None
        BY <3>2 DEF Stopped, Row
      <4> QED
        BY <3>1, <3>2, <4>1, ScheduledIs, WorkTypes
    <3>6. /\ row'.posts = row.posts /\ row'.last = row.last /\ (row'.next = new.next \/ row'.next = row.next)
      BY <3>2, <3>3, <3>4, WrittenIs, WorkTypes
    <3>7. \A n : RetryDelay(n) \in Nat
      BY DelayIs, PostsAssumption
    <3> QED
      BY <1>3, <3>5, <3>6, <3>7, WorkTypes DEF Spaced, WorkInv
  <2> QED
    BY <2>1, <2>2, <2>3, WorkTypes DEF Fail, Release
<1> QED
  BY <1>1, <1>4, WorkEnds DEF WorkInv

LEMMA TickWorks == ASSUME TypeInv, WorkInv, WorkersOnly, Tick PROVE WorkInv'
<1>1. now' = now + 1 /\ UNCHANGED <<row, nextId, gone, usage, session>>
  BY DEF Tick
<1>2. ASSUME NEW s \in Sessions, Busy(session[s]) PROVE InTime(session[s], row, now')
  <2>1. session[s].since + ReservationTTL > now
    BY <1>2 DEF Tick, WorkersOnly, Busy
  <2> QED
    BY <1>1, <1>2, <2>1, WorkTypes DEF WorkInv, InTime
<1>3. Spaced(row, now')
  BY <1>1, WorkTypes DEF WorkInv, Spaced
<1> QED
  BY <1>1, <1>2, <1>3 DEF WorkInv, Alone

LEMMA WorkStep ==
  ASSUME WorkersOnly, TypeInv, WorkInv, [Next]_vars PROVE WorkInv' /\ [NoDuplicateStep]_vars
<1>1. TypeInv'
  BY TypeStep
<1>2. ASSUME row'.last = row.last PROVE [NoDuplicateStep]_vars
  BY <1>2 DEF NoDuplicateStep
<1>4. CASE Owner
  <2>1. row'.last = row.last
    BY <1>4, WorkTypes DEF Owner, WorkersOnly, Comment, EditProfile, UpdateVisibility, UpdateAutoPost, Row
  <2> QED
    BY <1>1, <1>2, <1>4, <2>1, OwnerWorks
<1>5. ASSUME NEW s \in Sessions, Claim(s) PROVE WorkInv' /\ [NoDuplicateStep]_vars
  <2>1. row'.last = row.last
    BY <1>5, WorkTypes DEF Claim, Row
  <2> QED
    BY <1>2, <1>5, <2>1, ClaimWorks
<1>6. ASSUME NEW s \in Sessions, Read(s) PROVE WorkInv' /\ [NoDuplicateStep]_vars
  BY <1>2, <1>6, ReadWorks DEF Read
<1>7. ASSUME NEW s \in Sessions, Reserve(s) \/ Provide(s) \/ Reject(s) \/ Cancel(s) \/ Crash(s)
      PROVE  WorkInv' /\ [NoDuplicateStep]_vars
  <2>1. Uncommitted
    BY <1>7, OnlyPersistCommits
  <2>2. row' = row
    BY <1>7 DEF Reserve, Provide, Reject, Cancel, Crash
  <2> QED
    BY <1>2, <1>7, <2>1, <2>2, GoesOnWorks
<1>8. ASSUME NEW s \in Sessions, Fail(s) \/ Release(s) PROVE WorkInv' /\ [NoDuplicateStep]_vars
  BY <1>2, <1>8, EndingWorks
<1>9. CASE Tick
  BY <1>2, <1>9, TickWorks DEF Tick
<1>10. CASE Expire \/ UNCHANGED vars
  <2>1. Uncommitted
    BY <1>10, OnlyPersistCommits
  <2>2. UNCHANGED <<session, now, gone, row, nextId>>
    BY <1>10 DEF Expire, vars
  <2> QED
    BY <1>1, <1>2, <2>1, <2>2, ListsGrow, WorkTypes DEF WorkInv
<1>11. ASSUME NEW s \in Sessions, Persist(s) PROVE WorkInv' /\ [NoDuplicateStep]_vars
  BY <1>11, PersistWorks
<1> QED
  BY <1>4, <1>5, <1>6, <1>7, <1>8, <1>9, <1>10, <1>11 DEF Next, Proceed, WorkersOnly
LEMMA WorkInit == Init => WorkInv
<1> SUFFICES ASSUME Init PROVE WorkInv
  OBVIOUS
<1>1. row.posts = {} /\ row.last = None
  BY DEF Init
<1>2. \A s \in Sessions : ~ Busy(session[s]) /\ ~ Holds(session[s])
  BY IdleIs, IdleSteps DEF Init, Busy
<1>3. Paid({} \cup gone, usage)
  BY DEF Init, Paid, NoUsage
<1> QED
  BY <1>1, <1>2, <1>3 DEF WorkInv, Older, Spaced, Alone

LEMMA WorkHolds == ASSUME WorkersOnly PROVE Spec => [](TypeInv /\ WorkInv)
<1>1. TypeInv /\ WorkInv /\ [Next]_vars => (TypeInv /\ WorkInv)'
  BY TypeStep, WorkStep
<1> QED
  BY <1>1, TypeInit, WorkInit, PTL DEF Spec

(* Whichever workers claim, fail, retry, crash and are taken over, and whatever the owner and *)
(* visitors change meanwhile: what was charged for is in the list, or was pushed out of it    *)
(* (AutoPostScheduler, CharacterPostsRepository.append_generated_post).                           *)
THEOREM WorkersArePosted == ASSUME WorkersOnly PROVE Spec => []PaidIsPosted
<1>1. WorkInv => PaidIsPosted
  BY DEF WorkInv, Paid, PaidIsPosted
<1> QED
  BY <1>1, WorkHolds, PTL

(* And a post follows the previous one no sooner than after the interval: a due time whose    *)
(* claim was taken over gives one post.                                                       *)
THEOREM WorkersPostOnce == ASSUME WorkersOnly PROVE Spec => NoDuplicatePosts
<1>1. TypeInv /\ WorkInv /\ [Next]_vars => [NoDuplicateStep]_vars
  BY WorkStep
<1> QED
  BY <1>1, WorkHolds, PTL DEF Spec, NoDuplicatePosts
=============================================================================
