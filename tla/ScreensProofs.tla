--------------------------- MODULE ScreensProofs ---------------------------
(***************************************************************************)
(* Proofs about the parts of the client that are checked together on the   *)
(* screens: the pages of the feed (FeedPagination), the check of a typed   *)
(* handle (HandleAvailability), the credit store (PurchaseClients), the    *)
(* steps of the app and the history (Navigation), terms and blocks         *)
(* (SafetyGate), the displays of a balance (CreditDisplays), the sign-in   *)
(* from the shells (NativeSignIn), the memories (CharacterMemories).       *)
(***************************************************************************)
EXTENDS FeedPagination, FiniteSetTheorems, SequenceTheorems, WellFoundedInduction, TLAPS

CONSTANTS Characters, Handles, Invalid, Others, MaxTyped

VARIABLES handle, activeId, requestSequence, delay, checks, result, takenBy
Handle == INSTANCE HandleAvailability WITH timer <- delay

CONSTANTS Users, Orders, Platforms, Slots, MaxLoads

VARIABLES platform, session, due, open, ready, purchasing, balance, loads, trouble, job, order, server
Shop == INSTANCE PurchaseClients

-----------------------------------------------------------------------------
(* The pages of the feed. *)
FeedAssumption ==
  /\ PageSize \in Nat \ {0} /\ MaxPosts \in Nat
  /\ None \notin Accounts /\ None \notin Controllers

(* With pages ps and controllers rs, which an effect may just have reset: what is shown is of the *)
(* scope and whole, a request that is held asks for what follows the page it belongs to, and a    *)
(* list that shows that it is loading waits for a request that is held.                           *)
Held(rs, r) == rs[r.kind] = r.controller /\ r.scope = Scope
Numbers(page) == {p.number : p \in page.posts}
WholePage(page) ==
  /\ \A p \in page.posts : p.scope = Scope /\ p.scope[1] \in Accounts /\ p.number <= newest[p.scope[1]]
  /\ \A m, n \in Numbers(page) : m..n \subseteq Numbers(page)
  /\ page.next # FirstPage => page.next \in Numbers(page) /\ \A n \in Numbers(page) : page.next <= n
Whole(ps) == \A k \in Kinds : WholePage(ps[k])
Followed(ps, rs) ==
  \A r \in inFlight : Held(rs, r) /\ r.cursor # FirstPage => r.cursor = ps[r.kind].next
Waited(ps, rs) == \A k \in Kinds : ps[k].loading => \E r \in inFlight : r.kind = k /\ Held(rs, r)
Good(ps, rs) == Whole(ps) /\ Followed(ps, rs) /\ Waited(ps, rs)

(* The effects make the scope the one of the pages; until then nothing is said of them. *)
OnePerController == \A r, s \in inFlight : r.controller = s.controller => r = s
Asking == \A r \in inFlight : r.scope[1] \in Accounts
Requests == TypeOK /\ OnePerController /\ Asking
FeedInv == Requests /\ (~ effects => SameScope) /\ (SameScope => Good(pages, current))

LEMMA InitialTyped ==
  ASSUME FeedAssumption
  PROVE  InitialPages \in [Kinds -> FeedPageState] /\ Aborted \in [Kinds -> Controllers \cup {None}]
BY DEF FeedAssumption, InitialPages, INITIAL_PAGE, FeedPageState, Cursors, FirstPage, Aborted

LEMMA InitialGood == ASSUME FeedAssumption, Requests PROVE Good(InitialPages, Aborted)
<1>1. \A k \in Kinds : InitialPages[k] = INITIAL_PAGE /\ Aborted[k] = None
  BY DEF InitialPages, Aborted
<1>2. WholePage(INITIAL_PAGE)
  BY DEF WholePage, Numbers, INITIAL_PAGE
<1>3. \A r \in inFlight : ~ Held(Aborted, r)
  BY <1>1 DEF Held, FeedAssumption, Requests, TypeOK, FeedRequest
<1> QED
  BY <1>1, <1>2, <1>3 DEF Good, Whole, Followed, Waited, INITIAL_PAGE

LEMMA FeedStarts == ASSUME FeedAssumption, Init PROVE FeedInv
<1>1. TypeOK
  <2>1. pages \in [Kinds -> FeedPageState]
    BY InitialTyped DEF Init
  <2> QED
    BY <2>1 DEF Init, TypeOK, Shown, Views, Kinds, FeedAssumption
<1>2. Requests
  BY <1>1 DEF Requests, Init, OnePerController, Asking
<1>3. pages = InitialPages /\ current = Aborted /\ effects
  BY DEF Init, Aborted
<1> QED
  BY <1>2, <1>3, InitialGood DEF FeedInv

(* A fetch keeps what is true of the pages and controllers it is given. *)
LEMMA FetchTyped ==
  ASSUME FeedAssumption, Requests, NEW ps \in [Kinds -> FeedPageState],
         NEW rs \in [Kinds -> Controllers \cup {None}], NEW k \in Kinds, NEW cursor \in Cursors,
         Fetch(ps, rs, k, cursor), UNCHANGED <<shown, newest>>,
         effects' \in BOOLEAN, wasVisible' \in BOOLEAN, timer' \in BOOLEAN, initialized' \in Scopes \cup {None}
  PROVE  Requests'
<1>1. CASE shown.account = None \/ Holds(rs, k, cursor)
  BY <1>1 DEF Fetch, Requests, TypeOK, OnePerController, Asking
<1>2. CASE ~ (shown.account = None \/ Holds(rs, k, cursor))
  <2>1. PICK c \in Controllers \ ({r.controller : r \in inFlight} \cup {rs[j] : j \in Kinds}) :
          /\ current' = [rs EXCEPT ![k] = c]
          /\ inFlight' = inFlight \cup {[controller |-> c, kind |-> k, cursor |-> cursor, scope |-> Scope]}
          /\ pages' = [ps EXCEPT ![k].error = None, ![k].loading = cursor # FirstPage \/ ps[k].fetched = "never"]
    BY <1>2 DEF Fetch
  <2> DEFINE r == [controller |-> c, kind |-> k, cursor |-> cursor, scope |-> Scope]
  <2>2. r \in FeedRequest /\ r.scope[1] \in Accounts /\ r.controller = c
    BY <1>2 DEF FeedRequest, Scope, ScopeOf, Scopes, Requests, TypeOK, Shown
  <2>3. pages' \in [Kinds -> FeedPageState]
    <3>1. FirstPage \in Cursors /\ ps[k] \in FeedPageState
      BY DEF Cursors, FirstPage, FeedAssumption
    <3>2. [ps[k] EXCEPT !.error = None] \in FeedPageState
      BY <3>1 DEF FeedPageState
    <3>3. [[ps[k] EXCEPT !.error = None] EXCEPT !.loading = cursor # FirstPage \/ ps[k].fetched = "never"] \in FeedPageState
      BY <3>2 DEF FeedPageState
    <3> QED
      BY <2>1, <3>3
  <2>4. current' \in [Kinds -> Controllers \cup {None}]
    BY <2>1
  <2>5. \A q \in inFlight : q.controller # c
    BY <2>1
  <2>6. inFlight' = inFlight \cup {r}
    BY <2>1
  <2> HIDE DEF r
  <2> QED
    BY <2>2, <2>3, <2>4, <2>5, <2>6 DEF Requests, TypeOK, OnePerController, Asking
<1> QED
  BY <1>1, <1>2

LEMMA FetchGood ==
  ASSUME FeedAssumption, Requests, NEW ps \in [Kinds -> FeedPageState],
         NEW rs \in [Kinds -> Controllers \cup {None}], NEW k \in Kinds, NEW cursor \in Cursors,
         Good(ps, rs), cursor # FirstPage => cursor = ps[k].next,
         Fetch(ps, rs, k, cursor), UNCHANGED <<shown, newest>>
  PROVE  Good(pages, current)'
<1>1. CASE shown.account = None \/ Holds(rs, k, cursor)
  BY <1>1 DEF Fetch, Good, Whole, WholePage, Numbers, Followed, Waited, Held, Scope
<1>2. CASE ~ (shown.account = None \/ Holds(rs, k, cursor))
  <2>1. PICK c \in Controllers \ ({r.controller : r \in inFlight} \cup {rs[j] : j \in Kinds}) :
          /\ current' = [rs EXCEPT ![k] = c]
          /\ inFlight' = inFlight \cup {[controller |-> c, kind |-> k, cursor |-> cursor, scope |-> Scope]}
          /\ pages' = [ps EXCEPT ![k].error = None, ![k].loading = cursor # FirstPage \/ ps[k].fetched = "never"]
    BY <1>2 DEF Fetch
  <2>0. PICK r : r = [controller |-> c, kind |-> k, cursor |-> cursor, scope |-> Scope]
    OBVIOUS
  <2>2. r.controller = c /\ r.kind = k /\ r.cursor = cursor /\ r.scope = Scope
    BY <2>0
  <2>3. inFlight' = inFlight \cup {r}
    BY <2>0, <2>1
  <2>4. \A j \in Kinds : pages'[j].posts = ps[j].posts /\ pages'[j].next = ps[j].next
    BY <2>1 DEF FeedPageState
  <2>5. \A j \in Kinds \ {k} : pages'[j] = ps[j]
    BY <2>1
  <2>6. Scope' = Scope
    BY DEF Scope
  <2>7. Whole(pages)'
    BY <2>4, <2>6 DEF Good, Whole, WholePage, Numbers
  <2>8. \A q \in inFlight : Held(current, q)' <=> q.kind # k /\ Held(rs, q)
    BY <2>1, <2>6 DEF Held, Requests, TypeOK, FeedRequest
  <2>9. Held(current, r)'
    BY <2>1, <2>2, <2>6 DEF Held
  <2>10. Followed(pages, current)'
    BY <2>2, <2>3, <2>4, <2>8 DEF Good, Followed, Requests, TypeOK, FeedRequest
  <2>11. Waited(pages, current)'
    BY <2>2, <2>3, <2>5, <2>8, <2>9 DEF Good, Waited
  <2> QED
    BY <2>7, <2>10, <2>11 DEF Good
<1> QED
  BY <1>1, <1>2

LEMMA MinOf ==
  ASSUME NEW S \in SUBSET Nat, S # {}
  PROVE  Min(S) \in S /\ \A y \in S : Min(S) <= y
<1>1. PICK m \in S : \A y \in S : <<y, m>> \notin OpToRel(<, Nat)
  BY NatLessThanWellFounded, WFMin
<1>2. \A y \in S : <<y, m>> \in OpToRel(<, Nat) <=> y < m
  BY DEF OpToRel
<1>3. \A y \in S : ~ (y < m)
  BY <1>1, <1>2
<1>4. \A y \in S : m <= y
  BY <1>3
<1> QED
  BY <1>4 DEF Min

(* The server's page: the newest posts that are older than the cursor, from the newest one down. *)
LEMMA PageOfNewest ==
  ASSUME FeedAssumption, TypeOK, NEW r \in inFlight, r.scope[1] \in Accounts,
         NEW top \in 0..MaxPosts,
         top = IF r.cursor # FirstPage /\ r.cursor <= newest[r.scope[1]] THEN r.cursor - 1 ELSE newest[r.scope[1]]
  PROVE  /\ PageOf(r) \subseteq 1..top /\ Older(r) = 1..top
         /\ \A n \in PageOf(r), m \in 1..top : n <= m => m \in PageOf(r)
         /\ PageOf(r) # Older(r) => Min(PageOf(r)) \in PageOf(r) /\ \A n \in PageOf(r) : Min(PageOf(r)) <= n
<1> DEFINE Above(n) == {m \in Older(r) : m > n}
<1>1. Older(r) = 1..top
  BY DEF Older, Posts, TypeOK, FeedRequest, Cursors, FirstPage, FeedAssumption
<1>2. IsFiniteSet(Older(r))
  BY <1>1, FS_Interval DEF FeedAssumption
<1>3. \A n : Above(n) \in SUBSET Older(r) /\ IsFiniteSet(Above(n)) /\ Cardinality(Above(n)) \in Nat
  BY <1>2, FS_Subset, FS_CardinalityType
<1>4. PageOf(r) = {n \in Older(r) : Cardinality(Above(n)) < PageSize}
  BY DEF PageOf
<1>5. ASSUME NEW n \in PageOf(r), NEW m \in 1..top, n <= m PROVE m \in PageOf(r)
  <2>1. Above(m) \subseteq Above(n)
    BY <1>1, <1>4, <1>5 DEF FeedAssumption
  <2>2. Cardinality(Above(m)) <= Cardinality(Above(n))
    BY <2>1, <1>3, FS_Subset
  <2> HIDE DEF Above
  <2> QED
    BY <2>2, <1>1, <1>3, <1>4 DEF FeedAssumption
<1>6. ASSUME PageOf(r) # Older(r) PROVE PageOf(r) # {}
  <2>1. top >= 1 /\ top \in Older(r)
    BY <1>1, <1>4, <1>6 DEF FeedAssumption
  <2>2. Above(top) = {}
    BY <1>1 DEF FeedAssumption
  <2>3. Cardinality(Above(top)) = 0
    BY <2>2, FS_EmptySet
  <2> HIDE DEF Above
  <2> QED
    BY <2>1, <2>3, <1>4 DEF FeedAssumption
<1>7. PageOf(r) \subseteq Nat /\ PageOf(r) \subseteq 1..top
  BY <1>1, <1>4 DEF FeedAssumption
<1> QED
  BY <1>1, <1>5, <1>6, <1>7, MinOf

LEMMA AppliedPage ==
  ASSUME FeedAssumption, TypeOK, NEW r \in inFlight, r.scope = Scope, r.scope[1] \in Accounts,
         NEW page \in FeedPageState
  PROVE  /\ ApplyPage(page, r) \in FeedPageState /\ ~ ApplyPage(page, r).loading
         /\ WholePage(page) /\ (r.cursor # FirstPage => r.cursor = page.next) => WholePage(ApplyPage(page, r))
<1> DEFINE newestOf == newest[r.scope[1]]
           top == IF r.cursor # FirstPage /\ r.cursor <= newestOf THEN r.cursor - 1 ELSE newestOf
           P == PageOf(r)
           new == {[scope |-> r.scope, number |-> n] : n \in P}
           next == IF P # Older(r) THEN Min(P) ELSE FirstPage
           base == IF r.cursor = FirstPage THEN INITIAL_PAGE ELSE page
           q == ApplyPage(page, r)
<1>1. newestOf \in 0..MaxPosts /\ r.cursor \in 0..MaxPosts /\ top \in 0..MaxPosts
  BY DEF TypeOK, FeedRequest, Cursors, FirstPage, FeedAssumption
<1>2. /\ P \subseteq 1..top /\ Older(r) = 1..top
      /\ \A n \in P, m \in 1..top : n <= m => m \in P
      /\ P # Older(r) => Min(P) \in P /\ \A n \in P : Min(P) <= n
  BY <1>1, PageOfNewest
<1>3. base \in FeedPageState
  BY DEF INITIAL_PAGE, FeedPageState, Cursors, FirstPage, FeedAssumption
<1>4. next \in Cursors /\ new \subseteq FeedPost
  BY <1>1, <1>2 DEF Cursors, FirstPage, FeedPost, Posts, TypeOK, FeedRequest, FeedAssumption
<1>5. q.posts = base.posts \cup new /\ q.next = next /\ q.loading = FALSE
  BY <1>3 DEF ApplyPage, Appended, FeedPageState
<1>6. q \in FeedPageState
  <2>1. Appended(base, r) \in FeedPageState
    BY <1>3, <1>4 DEF Appended, FeedPageState
  <2>2. Appended(base, r).loaded \in Nat
    BY <2>1 DEF FeedPageState
  <2>3. q = IF r.cursor = FirstPage THEN [Appended(base, r) EXCEPT !.fetched = "fresh", !.loaded = 1]
            ELSE [Appended(base, r) EXCEPT !.loaded = @ + 1]
    BY DEF ApplyPage
  <2> HIDE DEF q, base
  <2>4. CASE r.cursor = FirstPage
    BY <2>1, <2>3, <2>4 DEF FeedPageState
  <2>5. CASE r.cursor # FirstPage
    BY <2>1, <2>2, <2>3, <2>5 DEF FeedPageState
  <2> QED
    BY <2>4, <2>5
<1> HIDE DEF q
<1> SUFFICES ASSUME WholePage(page), r.cursor # FirstPage => r.cursor = page.next PROVE WholePage(q)
  BY <1>5, <1>6 DEF q
<1>7. WholePage(base)
  BY DEF INITIAL_PAGE, WholePage, Numbers
<1>8. Numbers(q) = Numbers(base) \cup P
  <2>1. ASSUME NEW n \in P PROVE \E p \in new : p.number = n
    <3>1. [scope |-> r.scope, number |-> n] \in new
      OBVIOUS
    <3> QED
      BY <3>1
  <2>2. \A p \in new : p.number \in P /\ p.scope = r.scope
    OBVIOUS
  <2> HIDE DEF new, P, base
  <2> QED
    BY <1>5, <2>1, <2>2 DEF Numbers
<1>9. Numbers(base) \subseteq 1..MaxPosts
  BY <1>3 DEF Numbers, FeedPageState, FeedPost, Posts
<1>10. \A p \in q.posts : p.scope = Scope /\ p.scope[1] \in Accounts /\ p.number <= newest[p.scope[1]]
  <2>1. \A p \in new : p.scope = Scope /\ p.scope[1] \in Accounts /\ p.number <= newest[p.scope[1]]
    BY <1>1, <1>2 DEF FeedAssumption
  <2> HIDE DEF new, base
  <2> QED
    BY <1>5, <1>7, <2>1 DEF WholePage
<1>11. /\ r.cursor # FirstPage => r.cursor \in Numbers(base) /\ \A n \in Numbers(base) : r.cursor <= n
       /\ r.cursor = FirstPage => Numbers(base) = {}
  BY <1>7 DEF WholePage, Numbers, INITIAL_PAGE
<1>12. \A n \in Numbers(base) : n <= newestOf
  BY <1>7 DEF WholePage, Numbers
<1>13. r.cursor # FirstPage => top = r.cursor - 1
  BY <1>11, <1>12
<1>14. \A m, n \in Numbers(base) : m..n \subseteq Numbers(base)
  BY <1>7 DEF WholePage
<1> HIDE DEF P, base, top, newestOf, next
<1>15. \A m, n \in Numbers(base) \cup P : m..n \subseteq Numbers(base) \cup P
  <2> SUFFICES ASSUME NEW m \in Numbers(base) \cup P, NEW n \in Numbers(base) \cup P, NEW x \in m..n
               PROVE  x \in Numbers(base) \cup P
    OBVIOUS
  <2>0. top \in Int /\ P \subseteq Int /\ Numbers(base) \subseteq Int
    <3>1. MaxPosts \in Nat
      BY DEF FeedAssumption
    <3>2. top \in Int
      BY <1>1, <3>1
    <3> QED
      BY <1>2, <1>9, <3>1, <3>2
  <2>1. m \in Int /\ n \in Int /\ top \in Int
    BY <2>0
  <2>2. CASE m \in Numbers(base) /\ n \in Numbers(base)
    BY <1>14, <2>2
  <2>3. CASE m \in P /\ x <= top
    BY <1>2, <2>1, <2>3
  <2>4. CASE m \in P /\ ~ (x <= top)
    <3>1. n \in Numbers(base) /\ r.cursor # FirstPage
      BY <1>2, <1>11, <2>1, <2>4
    <3>2. x \in r.cursor..n
      BY <1>1, <1>13, <2>1, <2>4, <3>1
    <3> QED
      BY <1>11, <1>14, <3>1, <3>2
  <2>5. CASE m \in Numbers(base) /\ n \in P
    <3>1. r.cursor # FirstPage /\ r.cursor <= m /\ n <= r.cursor - 1
      BY <1>1, <1>2, <1>11, <1>13, <2>1, <2>5
    <3> QED
      BY <1>1, <2>1, <3>1
  <2> QED
    BY <2>2, <2>3, <2>4, <2>5
<1>16. next # FirstPage => next \in Numbers(base) \cup P /\ \A n \in Numbers(base) \cup P : next <= n
  <2> SUFFICES ASSUME next # FirstPage PROVE next \in P /\ \A n \in Numbers(base) \cup P : next <= n
    OBVIOUS
  <2>1. next \in P /\ \A n \in P : next <= n
    BY <1>2 DEF next, P
  <2>2. ASSUME NEW n \in Numbers(base) PROVE next <= n
    <3>1. r.cursor # FirstPage /\ r.cursor <= n /\ next <= r.cursor - 1
      BY <1>1, <1>2, <1>11, <1>13, <2>1
    <3> QED
      BY <1>1, <1>2, <1>9, <2>1, <3>1 DEF FeedAssumption
  <2> QED
    BY <2>1, <2>2
<1> HIDE DEF new
<1> QED
  BY <1>5, <1>8, <1>10, <1>15, <1>16 DEF WholePage

LEMMA UnfetchedKeeps ==
  ASSUME FeedAssumption, Requests, NEW ps \in [Kinds -> FeedPageState],
         NEW rs \in [Kinds -> Controllers \cup {None}],
         pages' = ps, current' = rs, UNCHANGED <<inFlight, shown, newest>>,
         effects' \in BOOLEAN, wasVisible' \in BOOLEAN, timer' \in BOOLEAN, initialized' \in Scopes \cup {None}
  PROVE  Requests' /\ (Good(ps, rs) => Good(pages, current)')
<1>1. Requests'
  BY DEF Requests, TypeOK, OnePerController, Asking
<1>2. Scope' = Scope
  BY DEF Scope
<1> QED
  BY <1>1, <1>2 DEF Good, Whole, WholePage, Numbers, Followed, Waited, Held

(* Effects, the prefetch, the end of a list and a retry load pages. *)
LEMMA LoadFirstKeeps ==
  ASSUME FeedAssumption, Requests, NEW ps \in [Kinds -> FeedPageState],
         NEW rs \in [Kinds -> Controllers \cup {None}], NEW k \in Kinds, NEW force \in BOOLEAN,
         LoadFirst(ps, rs, k, force), UNCHANGED <<shown, newest>>,
         effects' \in BOOLEAN, wasVisible' \in BOOLEAN, timer' \in BOOLEAN, initialized' \in Scopes \cup {None}
  PROVE  Requests' /\ (Good(ps, rs) => Good(pages, current)')
<1>1. CASE pages' = ps /\ current' = rs /\ UNCHANGED inFlight
  BY <1>1, UnfetchedKeeps
<1>2. CASE Fetch(ps, rs, k, FirstPage)
  <2>1. FirstPage \in Cursors
    BY DEF FirstPage, Cursors, FeedAssumption
  <2> QED
    BY <1>2, <2>1, FetchTyped, FetchGood
<1> QED
  BY <1>1, <1>2 DEF LoadFirst

LEMMA RunEffectsKeeps == ASSUME FeedAssumption, FeedInv, RunEffects PROVE FeedInv'
<1> DEFINE reset == ~ SameScope \/ LeftFeed
<1>1. PICK ps, rs :
        /\ ps = (IF reset THEN InitialPages ELSE pages) /\ rs = (IF reset THEN Aborted ELSE current)
        /\ IF shown.account # None /\ shown.visible /\ shown.view # "mine"
           THEN LoadFirst(ps, rs, shown.view, FALSE)
           ELSE pages' = ps /\ current' = rs /\ UNCHANGED inFlight
  BY DEF RunEffects
<1>2. Requests /\ Good(ps, rs)
  BY <1>1, InitialGood DEF FeedInv
<1>3. ps \in [Kinds -> FeedPageState] /\ rs \in [Kinds -> Controllers \cup {None}]
  BY <1>1, <1>2, InitialTyped DEF Requests, TypeOK
<1>4. /\ UNCHANGED <<shown, newest>> /\ effects' = FALSE
      /\ wasVisible' = shown.visible /\ timer' = (shown.account # None /\ shown.visible)
      /\ initialized' = IF SameScope THEN initialized ELSE Scope
  BY DEF RunEffects
<1>5. Scope \in Scopes /\ Scope' = Scope
  BY <1>2, <1>4 DEF Scope, ScopeOf, Scopes, Requests, TypeOK, Shown
<1>6. initialized' = Scope'
  BY <1>4, <1>5 DEF SameScope
<1>7. /\ effects' \in BOOLEAN /\ wasVisible' \in BOOLEAN /\ timer' \in BOOLEAN
      /\ initialized' \in Scopes \cup {None}
  BY <1>2, <1>4, <1>5, <1>6 DEF Requests, TypeOK, Shown
<1>8. Requests' /\ Good(pages, current)'
  <2>1. CASE shown.account # None /\ shown.visible /\ shown.view # "mine"
    <3>1. shown.view \in Kinds
      BY <2>1, <1>2 DEF Requests, TypeOK, Shown, Views
    <3> QED
      BY <1>1, <1>2, <1>3, <1>4, <1>7, <2>1, <3>1, LoadFirstKeeps
  <2>2. CASE ~ (shown.account # None /\ shown.visible /\ shown.view # "mine")
    BY <1>1, <1>2, <1>3, <1>4, <1>7, <2>2, UnfetchedKeeps
  <2> QED
    BY <2>1, <2>2
<1> QED
  BY <1>6, <1>8 DEF FeedInv, SameScope

LEMMA PrefetchKeeps == ASSUME FeedAssumption, FeedInv, Prefetch PROVE FeedInv'
<1>1. /\ LoadFirst(pages, current, "recommendations", FALSE)
      /\ UNCHANGED <<shown, effects, initialized, wasVisible, newest>> /\ timer' = FALSE
  BY DEF Prefetch
<1>2. Requests' /\ (Good(pages, current) => Good(pages, current)')
  BY <1>1, LoadFirstKeeps DEF FeedInv, Requests, TypeOK, Kinds
<1> QED
  BY <1>1, <1>2 DEF FeedInv, SameScope, Scope

LEMMA NextFetched ==
  ASSUME FeedAssumption, FeedInv, NEW k \in Kinds, Fetch(pages, current, k, pages[k].next),
         UNCHANGED <<shown, effects, initialized, wasVisible, timer, newest>>
  PROVE  FeedInv'
<1>1. pages[k].next \in Cursors
  BY DEF FeedInv, Requests, TypeOK, FeedPageState
<1>2. Requests'
  BY <1>1, FetchTyped DEF FeedInv, Requests, TypeOK
<1>3. Good(pages, current) => Good(pages, current)'
  BY <1>1, FetchGood DEF FeedInv, Requests, TypeOK
<1> QED
  BY <1>2, <1>3 DEF FeedInv, SameScope, Scope

LEMMA FirstLoaded ==
  ASSUME FeedAssumption, FeedInv, NEW k \in Kinds, NEW force \in BOOLEAN, LoadFirst(pages, current, k, force),
         UNCHANGED <<shown, effects, initialized, wasVisible, timer, newest>>
  PROVE  FeedInv'
<1>1. Requests' /\ (Good(pages, current) => Good(pages, current)')
  BY LoadFirstKeeps DEF FeedInv, Requests, TypeOK
<1> QED
  BY <1>1 DEF FeedInv, SameScope, Scope

LEMMA RenderKeeps == ASSUME FeedAssumption, FeedInv, Render PROVE FeedInv'
<1>1. Requests'
  BY DEF FeedInv, Requests, TypeOK, OnePerController, Asking, Render
<1>2. SameScope' => Scope' = Scope /\ Good(pages, current)
  BY DEF FeedInv, Render, SameScope
<1>3. SameScope' => Good(pages, current)'
  BY <1>2 DEF Render, Good, Whole, WholePage, Numbers, Followed, Waited, Held
<1> QED
  BY <1>1, <1>3 DEF FeedInv, Render

LEMMA AnswerKeeps == ASSUME FeedAssumption, FeedInv, NEW r \in inFlight, Answer(r) PROVE FeedInv'
<1>1. /\ inFlight' = inFlight \ {r} /\ UNCHANGED <<shown, effects, initialized, wasVisible, timer, newest>>
      /\ Scope' = Scope /\ (SameScope' <=> SameScope)
  BY DEF Answer, Scope, SameScope
<1>2. r \in FeedRequest /\ r.scope[1] \in Accounts /\ pages[r.kind] \in FeedPageState
  BY DEF FeedInv, Requests, TypeOK, Asking, FeedRequest
<1>3. CASE ~ IsCurrent(r)
  <2>1. UNCHANGED <<pages, current>>
    BY <1>3 DEF Answer
  <2>2. Requests'
    BY <1>1, <2>1 DEF FeedInv, Requests, TypeOK, OnePerController, Asking
  <2>3. \A q \in inFlight : Held(current, q)' <=> Held(current, q)
    BY <1>1, <2>1 DEF Held
  <2>4. Good(pages, current) => Good(pages, current)'
    BY <1>1, <1>3, <2>1, <2>3 DEF Good, Whole, WholePage, Numbers, Followed, Waited, IsCurrent, Held
  <2> QED
    BY <1>1, <2>2, <2>4 DEF FeedInv
<1>4. CASE IsCurrent(r)
  <2>1. PICK page : /\ page \in {ApplyPage(pages[r.kind], r), ApplyError(pages[r.kind], r)}
                    /\ pages' = [pages EXCEPT ![r.kind] = page]
    BY <1>4 DEF Answer
  <2>2. current' = [current EXCEPT ![r.kind] = None]
    BY <1>4 DEF Answer
  <2>3. r.scope = Scope
    BY <1>4 DEF IsCurrent
  <2>4. /\ page \in FeedPageState /\ ~ page.loading
        /\ WholePage(pages[r.kind]) /\ (r.cursor # FirstPage => r.cursor = pages[r.kind].next) => WholePage(page)
    <3>1. CASE page = ApplyPage(pages[r.kind], r)
      BY <1>2, <2>3, <3>1, AppliedPage DEF FeedInv, Requests
    <3>2. CASE page = ApplyError(pages[r.kind], r)
      BY <1>2, <3>2 DEF ApplyError, FeedPageState, FeedRequest, WholePage, Numbers
    <3> QED
      BY <2>1, <3>1, <3>2
  <2>5. Requests'
    BY <1>1, <2>1, <2>2, <2>4 DEF FeedInv, Requests, TypeOK, OnePerController, Asking
  <2>6. \A q \in inFlight' : Held(current, q)' <=> q.kind # r.kind /\ Held(current, q)
    BY <1>1, <1>2, <2>2 DEF FeedInv, Requests, TypeOK, FeedRequest, Held, FeedAssumption
  <2>7. \A k \in Kinds : pages'[k] = IF k = r.kind THEN page ELSE pages[k]
    BY <2>1 DEF FeedInv, Requests, TypeOK
  <2>8. ASSUME Good(pages, current) PROVE Good(pages, current)'
    <3>1. WholePage(page)
      BY <1>2, <1>4, <2>3, <2>4, <2>8 DEF Good, Whole, Followed, Held, IsCurrent, FeedRequest
    <3>2. Whole(pages)'
      BY <1>1, <2>7, <2>8, <3>1 DEF Good, Whole, WholePage, Numbers
    <3>3. Followed(pages, current)'
      BY <1>1, <2>5, <2>6, <2>7, <2>8 DEF Good, Followed, Requests, TypeOK, FeedRequest
    <3>4. Waited(pages, current)'
      BY <1>1, <2>4, <2>6, <2>7, <2>8 DEF Good, Waited
    <3> QED
      BY <3>2, <3>3, <3>4 DEF Good
  <2> QED
    BY <1>1, <2>5, <2>8 DEF FeedInv
<1> QED
  BY <1>3, <1>4

LEMMA ExpireKeeps == ASSUME FeedAssumption, FeedInv, NEW k \in Kinds, Expire(k) PROVE FeedInv'
<1>1. /\ pages' = [pages EXCEPT ![k].fetched = "old"]
      /\ UNCHANGED <<shown, effects, initialized, wasVisible, timer, current, inFlight, newest>>
  BY DEF Expire
<1>2. pages' \in [Kinds -> FeedPageState]
  BY <1>1 DEF FeedInv, Requests, TypeOK, FeedPageState
<1>3. \A j \in Kinds : pages'[j].posts = pages[j].posts /\ pages'[j].next = pages[j].next
                       /\ pages'[j].loading = pages[j].loading
  BY <1>1 DEF FeedInv, Requests, TypeOK, FeedPageState
<1>4. Requests'
  BY <1>1, <1>2 DEF FeedInv, Requests, TypeOK, OnePerController, Asking
<1>5. Scope' = Scope /\ (SameScope' <=> SameScope)
  BY <1>1 DEF Scope, SameScope
<1>6. Good(pages, current) => Good(pages, current)'
  BY <1>1, <1>3, <1>4, <1>5 DEF Good, Whole, WholePage, Numbers, Followed, Waited, Held, Requests, TypeOK, FeedRequest
<1> QED
  BY <1>1, <1>4, <1>5, <1>6 DEF FeedInv

LEMMA PostKeeps == ASSUME FeedAssumption, FeedInv, NEW a \in Accounts, Post(a) PROVE FeedInv'
<1>1. /\ newest[a] < MaxPosts /\ newest' = [newest EXCEPT ![a] = @ + 1]
      /\ UNCHANGED <<shown, effects, initialized, wasVisible, timer, pages, current, inFlight>>
  BY DEF Post
<1>2. newest \in [Accounts -> 0..MaxPosts] /\ MaxPosts \in Nat
  BY DEF FeedInv, Requests, TypeOK, FeedAssumption
<1>3. newest' \in [Accounts -> 0..MaxPosts] /\ \A b \in Accounts : newest[b] <= newest'[b]
  BY <1>1, <1>2
<1>4. Requests'
  BY <1>1, <1>3 DEF FeedInv, Requests, TypeOK, OnePerController, Asking
<1>5. Scope' = Scope /\ (SameScope' <=> SameScope)
  BY <1>1 DEF Scope, SameScope
<1>6. ASSUME NEW k \in Kinds, WholePage(pages[k]) PROVE WholePage(pages[k])'
  <2>1. \A p \in pages[k].posts : p.number \in Int
    BY <1>2 DEF FeedInv, Requests, TypeOK, FeedPageState, FeedPost, Posts
  <2>2. \A p \in pages[k].posts : p.scope[1] \in Accounts /\ p.number <= newest'[p.scope[1]]
    BY <1>2, <1>3, <1>6, <2>1 DEF WholePage
  <2> QED
    BY <1>1, <1>5, <1>6, <2>2 DEF WholePage, Numbers
<1>7. Good(pages, current) => Good(pages, current)'
  BY <1>1, <1>5, <1>6 DEF Good, Whole, Followed, Waited, Held
<1> QED
  BY <1>1, <1>4, <1>5, <1>7 DEF FeedInv

LEMMA FeedStep == ASSUME FeedAssumption, FeedInv, [Next]_vars PROVE FeedInv'
<1>1. CASE LoadMore
  <2>1. ActiveKind \in Kinds
    BY DEF ActiveKind, Kinds
  <2> QED
    BY <1>1, <2>1, NextFetched, FirstLoaded DEF LoadMore
<1>2. CASE Retry
  <2>1. ActiveKind \in Kinds
    BY DEF ActiveKind, Kinds
  <2> QED
    BY <1>2, <2>1, NextFetched, FirstLoaded DEF Retry
<1>3. CASE UNCHANGED vars
  <2>1. Scope' = Scope /\ (SameScope' <=> SameScope)
    BY <1>3 DEF vars, Scope, SameScope
  <2>2. Requests'
    BY <1>3 DEF vars, FeedInv, Requests, TypeOK, OnePerController, Asking
  <2> QED
    BY <1>3, <2>1, <2>2 DEF vars, FeedInv, Good, Whole, WholePage, Numbers, Followed, Waited, Held
<1> QED
  BY <1>1, <1>2, <1>3, RenderKeeps, RunEffectsKeeps, PrefetchKeeps, AnswerKeeps, ExpireKeeps, PostKeeps DEF Next

LEMMA FeedShows == ASSUME FeedAssumption, FeedInv PROVE ShownInScope /\ NoGap /\ LoadingEnds
<1>1. CASE ~ SameScope
  BY <1>1 DEF ShownInScope, NoGap, LoadingEnds, VisiblePage, INITIAL_PAGE
<1>2. CASE SameScope
  <2>1. \A k \in Kinds : VisiblePage(k) = pages[k]
    BY <1>2 DEF VisiblePage
  <2>2. Good(pages, current)
    BY <1>2 DEF FeedInv
  <2>3. ShownInScope
    BY <2>1, <2>2 DEF ShownInScope, Good, Whole, WholePage
  <2>4. NoGap
    <3> SUFFICES ASSUME NEW k \in Kinds
                 PROVE  LET numbers == {p.number : p \in pages[k].posts}
                        IN  /\ \A m, n \in numbers : m..n \subseteq numbers
                            /\ pages[k].next # FirstPage => numbers # {} /\ pages[k].next = Min(numbers)
      BY <2>1 DEF NoGap
    <3>1. Numbers(pages[k]) \subseteq Nat
      BY DEF FeedInv, Requests, TypeOK, FeedPageState, FeedPost, Posts, Numbers, FeedAssumption
    <3>2. ASSUME pages[k].next # FirstPage PROVE Numbers(pages[k]) # {} /\ pages[k].next = Min(Numbers(pages[k]))
      <4>1. pages[k].next \in Numbers(pages[k]) /\ \A n \in Numbers(pages[k]) : pages[k].next <= n
        BY <2>2, <3>2 DEF Good, Whole, WholePage
      <4>2. Min(Numbers(pages[k])) \in Numbers(pages[k]) /\ \A n \in Numbers(pages[k]) : Min(Numbers(pages[k])) <= n
        BY <3>1, <4>1, MinOf
      <4> QED
        BY <3>1, <4>1, <4>2
    <3> QED
      BY <2>2, <3>2 DEF Good, Whole, WholePage, Numbers
  <2>5. LoadingEnds
    BY <2>1, <2>2 DEF LoadingEnds, Good, Waited, Held, IsCurrent
  <2> QED
    BY <2>3, <2>4, <2>5
<1> QED
  BY <1>1, <1>2

(* useFeedPagination: a feed shows posts of the account and revision on the screen only and has *)
(* no gap, and a list that shows that it is loading waits for an answer it will take, however   *)
(* late the answers to requests of other scopes, kinds and pages come.                          *)
THEOREM FeedIsTrue == ASSUME FeedAssumption PROVE Spec => []ListsTrue
<1>1. Init => FeedInv
  BY FeedStarts
<1>2. FeedInv /\ [Next]_vars => FeedInv'
  BY FeedStep
<1>3. FeedInv => ListsTrue
  BY FeedShows DEF ListsTrue
<1> QED
  BY <1>1, <1>2, <1>3, PTL DEF Spec

-----------------------------------------------------------------------------
(* The check of a typed handle. *)

(* A check asked under the newest sequence number was asked for what is on the screen, and an *)
(* answer "taken" stays true: nobody gives a handle back.                                      *)
AskedCheck == [sequence : Nat, handle : Handles, exclude : Characters \cup {None},
               answer : {"available", "taken", "none"}]
Sequenced ==
  /\ requestSequence \in Nat /\ delay \in {0, requestSequence} /\ (delay # 0 => handle \in Handles)
  /\ activeId \in Characters \cup {None} /\ DOMAIN takenBy = Handles
  /\ checks \subseteq AskedCheck
  /\ \A c \in checks : c.sequence <= requestSequence
AskedOfShown == \A c \in checks : Handle!Current(c) => c.handle = handle /\ c.exclude = activeId
AnswersHold == \A c \in checks : c.answer = "taken" => takenBy[c.handle] \notin {None, c.exclude}
HandleInv == Sequenced /\ AskedOfShown /\ AnswersHold /\ Handle!StatusTrue /\ (result.state = "taken" => handle \in Handles)

LEMMA HandleStarts == Handle!Init => HandleInv
BY DEF Handle!Init, HandleInv, Sequenced, AskedCheck, AskedOfShown, AnswersHold, Handle!StatusTrue, Handle!Current

(* The effect of a render makes every earlier check an old one. *)
LEMMA HandleRendered ==
  ASSUME HandleInv, NEW h \in Handle!Typed, NEW c \in Characters \cup {None}, Handle!Rendered(h, c)
  PROVE  HandleInv'
<1> USE DEF HandleInv, Handle!Rendered, Handle!Typed
<1>1. Sequenced'
  BY DEF Sequenced, AskedCheck
<1>2. \A k \in checks' : ~ Handle!Current(k)'
  BY DEF Sequenced, AskedCheck, Handle!Current
<1>3. AskedOfShown' /\ AnswersHold'
  BY <1>2 DEF AskedOfShown, AnswersHold
<1>4. Handle!StatusTrue' /\ (result.state = "taken" => handle \in Handles)'
  BY DEF Handle!StatusTrue, Sequenced
<1> QED
  BY <1>1, <1>3, <1>4

(* Answers, late ones too, and requests that fail. *)
LEMMA HandleShown ==
  ASSUME HandleInv, NEW c \in checks, NEW said \in {"available", "taken", "unknown"},
         said = "taken" => c.answer = "taken",
         checks' = checks \ {c}, Handle!Show(c, said), UNCHANGED <<handle, activeId, requestSequence, delay, takenBy>>
  PROVE  HandleInv'
<1> USE DEF HandleInv, Sequenced, AskedCheck
<1>1. Sequenced' /\ AskedOfShown' /\ AnswersHold'
  BY DEF AskedOfShown, AnswersHold, Handle!Current
<1>2. CASE Handle!Current(c)
  <2>1. c.handle = handle /\ c.exclude = activeId /\ c.handle \in Handles
    BY <1>2 DEF AskedOfShown
  <2>2. result' = [handle |-> c.handle, state |-> said]
    BY <1>2 DEF Handle!Show
  <2>3. said = "taken" => takenBy[handle] \notin {None, activeId}
    BY <2>1 DEF AnswersHold
  <2> QED
    BY <1>1, <2>1, <2>2, <2>3 DEF Handle!StatusTrue
<1>3. CASE ~ Handle!Current(c)
  <2>1. result' = result
    BY <1>3 DEF Handle!Show
  <2>2. \A k \in checks : Handle!Current(k) => k \in checks' /\ Handle!Current(k)'
    BY <1>3 DEF Handle!Current
  <2> QED
    BY <1>1, <2>1, <2>2 DEF Handle!StatusTrue
<1> QED
  BY <1>2, <1>3

LEMMA HandleServed == ASSUME HandleInv, NEW c \in checks, Handle!serve(c) PROVE HandleInv'
<1> DEFINE d == [c EXCEPT !.answer = IF Handle!Available(c) THEN "available" ELSE "taken"]
<1> USE DEF HandleInv, Handle!serve
<1>1. d \in AskedCheck /\ d.sequence = c.sequence /\ d.handle = c.handle /\ d.exclude = c.exclude
  BY DEF Sequenced, AskedCheck
<1>2. d.answer = "taken" => takenBy[c.handle] \notin {None, c.exclude}
  BY DEF Handle!Available, Sequenced, AskedCheck
<1>3. checks' = (checks \ {c}) \cup {d}
  OBVIOUS
<1> HIDE DEF d
<1>4. Sequenced' /\ AskedOfShown' /\ AnswersHold'
  BY <1>1, <1>2, <1>3 DEF Sequenced, AskedOfShown, AnswersHold, Handle!Current
<1>5. \A k \in checks : Handle!Current(k) => \E q \in checks' : Handle!Current(q)'
  BY <1>1, <1>3 DEF Handle!Current
<1> QED
  BY <1>4, <1>5 DEF Handle!StatusTrue

LEMMA HandleAsked == ASSUME HandleInv, Handle!ask PROVE HandleInv'
<1> DEFINE d == [sequence |-> delay, handle |-> handle, exclude |-> activeId, answer |-> "none"]
<1>1. d \in AskedCheck /\ d.sequence = requestSequence /\ d.handle = handle /\ d.exclude = activeId /\ d.answer = "none"
  BY DEF HandleInv, Sequenced, AskedCheck, Handle!ask
<1>2. checks' = checks \cup {d}
  BY DEF Handle!ask
<1> HIDE DEF d
<1> QED
  BY <1>1, <1>2 DEF HandleInv, Handle!ask, Sequenced, AskedOfShown, AnswersHold, Handle!StatusTrue, Handle!Current

LEMMA HandleTaken == ASSUME HandleInv, NEW h \in Handles, NEW o \in Others, Handle!take(h, o) PROVE HandleInv'
<1>1. \A k \in Handles : takenBy[k] # None => takenBy'[k] = takenBy[k]
  BY DEF Handle!take, HandleInv, Sequenced
<1> QED
  BY <1>1 DEF Handle!take, HandleInv, Sequenced, AskedCheck, AskedOfShown, AnswersHold, Handle!StatusTrue, Handle!Current

(* What the setup screen says of a handle (available, taken, being looked up) is so of the handle *)
(* that is typed, whatever useCharacterHandleAvailability was answered before.                     *)
THEOREM StatusIsTrue == Handle!Spec => []Handle!StatusTrue
<1>1. HandleInv /\ [Handle!Next]_Handle!handleVars => HandleInv'
  <2> SUFFICES ASSUME HandleInv, [Handle!Next]_Handle!handleVars PROVE HandleInv'
    OBVIOUS
  <2>1. ASSUME NEW h \in Handle!Typed, Handle!update(h) PROVE HandleInv'
    BY <2>1, HandleRendered DEF Handle!update, HandleInv, Sequenced
  <2>2. ASSUME NEW c \in Characters \cup {None}, Handle!edit(c) PROVE HandleInv'
    <3> DEFINE own == IF \E h \in Handles : c # None /\ takenBy[h] = c
                      THEN CHOOSE h \in Handles : takenBy[h] = c ELSE Invalid
    <3>1. own \in Handle!Typed
      BY DEF Handle!Typed
    <3>2. Handle!Rendered(own, c)
      BY <2>2 DEF Handle!edit
    <3> HIDE DEF own
    <3> QED
      BY <3>1, <3>2, HandleRendered
  <2>3. CASE Handle!ask
    BY <2>3, HandleAsked
  <2>4. ASSUME NEW c \in checks, Handle!serve(c) PROVE HandleInv'
    BY <2>4, HandleServed
  <2>5. ASSUME NEW c \in checks, Handle!answered(c) PROVE HandleInv'
    <3>1. c.answer \in {"available", "taken", "unknown"}
      BY <2>5 DEF Handle!answered, HandleInv, Sequenced, AskedCheck
    <3> QED
      BY <2>5, <3>1, HandleShown DEF Handle!answered
  <2>6. ASSUME NEW c \in checks, Handle!failed(c) PROVE HandleInv'
    BY <2>6, HandleShown DEF Handle!failed
  <2>7. ASSUME NEW h \in Handles, NEW o \in Others, Handle!take(h, o) PROVE HandleInv'
    BY <2>7, HandleTaken
  <2>8. CASE UNCHANGED Handle!handleVars
    BY <2>8 DEF Handle!handleVars, HandleInv, Sequenced, AskedOfShown, AnswersHold, Handle!StatusTrue, Handle!Current
  <2> QED
    BY <2>1, <2>2, <2>3, <2>4, <2>5, <2>6, <2>7, <2>8 DEF Handle!Next
<1>2. HandleInv => Handle!StatusTrue
  BY DEF HandleInv
<1> QED
  BY <1>1, <1>2, HandleStarts, PTL DEF Handle!Spec

-----------------------------------------------------------------------------
(* The credit store. *)
ShopAssumption == Slots \subseteq Nat

Loaded == Shop!Ledger \cup {Shop!Unread}
ShopTyped ==
  /\ job \in [Slots -> Shop!Job] /\ loads \in Seq(Loaded) /\ server \in Shop!Ledger
  /\ order \in [Orders -> Shop!Order] /\ session \in Users
IdleJobs == \A s \in Slots : job[s].kind = "idle" => job[s] = Shop!Idle
SheetBuys == \A s \in Slots : job[s].step = "sheet" => job[s].kind = "buy"
Granted ==
  /\ \A o \in Orders : order[o].told => server[o] # "none"
  /\ \A s \in Slots : \A o \in job[s].tell : server[o] # "none"
OneAtATime == platform = "toss" => \A s, t \in Shop!Recovering : s = t

(* The newest data that was asked for will be what the server has, or a chain of the screen ends *)
(* with an error or with a new load.                                                            *)
Newest ==
  IF loads = <<>> THEN balance = server ELSE loads[Len(loads)] \in {Shop!Unread, server}
Reloads(j) == j.mine /\ (j.kind = "buy" \/ j.failed \/ j.done \/ j.tell # {})
Fresh == open /\ ~ trouble => Newest \/ \E s \in Slots : Reloads(job[s])

Jobs == ShopTyped /\ IdleJobs /\ SheetBuys /\ Granted /\ OneAtATime
ShopInv == Jobs /\ Shop!PurchasingRuns /\ Fresh

LEMMA ShopStarts == ASSUME Shop!Init PROVE ShopInv
<1> USE DEF Shop!Init
<1>1. Shop!Idle \in Shop!Job /\ Shop!NewOrder \in Shop!Order
  BY DEF Shop!Idle, Shop!Job, Shop!NewOrder, Shop!Order
<1>2. ShopTyped
  BY <1>1 DEF ShopTyped, Shop!Ledger
<1>3. IdleJobs /\ SheetBuys /\ Granted /\ OneAtATime
  BY DEF IdleJobs, SheetBuys, Granted, OneAtATime, Shop!Recovering, Shop!Idle, Shop!NewOrder
<1> QED
  BY <1>2, <1>3 DEF ShopInv, Jobs, Shop!PurchasingRuns, Fresh

(* Lemmas about the chains.  A chain is marked as the screen's or not, or starts in a free slot. *)
LEMMA FreeSlot == ASSUME ShopAssumption, Shop!Free # {} PROVE Shop!FirstFree \in Shop!Free
<1>1. Shop!Free \in SUBSET Nat
  BY DEF Shop!Free, ShopAssumption
<1>2. Min(Shop!Free) \in Shop!Free /\ \A t \in Shop!Free : Min(Shop!Free) <= t
  BY <1>1, MinOf
<1> QED
  BY <1>2 DEF Shop!FirstFree

Marked(r, q) == q = r \/ (r.kind # "idle" /\ \E b \in BOOLEAN : q = [r EXCEPT !.mine = b])
NewJob(q) ==
  /\ q.kind # "idle" /\ q.tell = {} /\ (q.step = "sheet" => q.kind = "buy")
  /\ q.kind = "recover" /\ platform = "toss" => Shop!Recovering = {}
Starts(f) ==
  /\ job' \in [Slots -> Shop!Job]
  /\ \A t \in Slots : Marked(job[t], job'[t]) \/ (t = f /\ job[t].kind = "idle" /\ NewJob(job'[t]))

LEMMA MarkedJob ==
  ASSUME NEW r \in Shop!Job, NEW b \in BOOLEAN
  PROVE  /\ [r EXCEPT !.mine = b] \in Shop!Job
         /\ [r EXCEPT !.mine = b].kind = r.kind /\ [r EXCEPT !.mine = b].step = r.step
         /\ [r EXCEPT !.mine = b].tell = r.tell /\ [r EXCEPT !.mine = b].failed = r.failed
         /\ [r EXCEPT !.mine = b].done = r.done /\ [r EXCEPT !.mine = b].mine = b
BY DEF Shop!Job

LEMMA NewJobs ==
  ASSUME NEW m \in BOOLEAN, NEW w \in SUBSET Orders, NEW q,
         \/ q = [Shop!Idle EXCEPT !.kind = "recover", !.mine = m]
         \/ q = [Shop!Idle EXCEPT !.kind = "buy", !.mine = TRUE, !.step = "sheet", !.todo = w]
         \/ q = [Shop!Idle EXCEPT !.kind = "observe", !.mine = TRUE, !.step = "work", !.todo = w]
  PROVE  q \in Shop!Job /\ q.kind # "idle" /\ q.tell = {} /\ (q.step = "sheet" => q.kind = "buy")
<1> DEFINE New(k, b, s, t) ==
             [kind |-> k, mine |-> b, step |-> s, todo |-> t, tell |-> {}, done |-> FALSE, failed |-> FALSE]
<1>1. q = New("recover", m, "ask", {}) \/ q = New("buy", TRUE, "sheet", w) \/ q = New("observe", TRUE, "work", w)
  BY DEF Shop!Idle
<1>2. CASE q = New("recover", m, "ask", {})
  BY <1>2 DEF Shop!Job
<1>3. CASE q = New("buy", TRUE, "sheet", w)
  BY <1>3 DEF Shop!Job
<1>4. CASE q = New("observe", TRUE, "work", w)
  BY <1>4 DEF Shop!Job
<1> QED
  BY <1>1, <1>2, <1>3, <1>4

LEMMA Started ==
  ASSUME Jobs, NEW f, Starts(f), loads' \in Seq(Loaded), session' \in Users, UNCHANGED <<platform, order, server>>
  PROVE  Jobs'
<1> USE DEF Jobs
<1>1. ASSUME NEW t \in Slots, Marked(job[t], job'[t])
      PROVE  /\ job'[t].kind = job[t].kind /\ job'[t].step = job[t].step /\ job'[t].tell = job[t].tell
             /\ job[t].kind = "idle" => job'[t] = job[t]
  <2>1. job[t] \in Shop!Job
    BY DEF ShopTyped
  <2>2. PICK b \in BOOLEAN : job'[t] = job[t] \/ (job[t].kind # "idle" /\ job'[t] = [job[t] EXCEPT !.mine = b])
    BY <1>1 DEF Marked
  <2>3. /\ [job[t] EXCEPT !.mine = b].kind = job[t].kind /\ [job[t] EXCEPT !.mine = b].step = job[t].step
        /\ [job[t] EXCEPT !.mine = b].tell = job[t].tell
    BY <2>1, MarkedJob
  <2> QED
    BY <2>2, <2>3
<1>2. ASSUME NEW t \in Slots, ~ Marked(job[t], job'[t])
      PROVE  t = f /\ job[t].kind = "idle" /\ NewJob(job'[t])
  BY <1>2 DEF Starts
<1>3. ShopTyped'
  BY DEF ShopTyped, Starts, Loaded, Shop!Ledger, Shop!Unread, Shop!Order, Shop!Job
<1>4. IdleJobs' /\ SheetBuys'
  BY <1>1, <1>2 DEF IdleJobs, SheetBuys, NewJob
<1>5. Granted'
  <2>1. \A t \in Slots : job'[t].tell \subseteq job[t].tell
    BY <1>1, <1>2 DEF NewJob
  <2> QED
    BY <2>1 DEF Granted
<1>6. OneAtATime'
  <2> SUFFICES ASSUME platform = "toss", NEW s \in Slots, NEW t \in Slots,
                      job'[s].kind = "recover", job'[t].kind = "recover"
               PROVE  s = t
    BY DEF OneAtATime, Shop!Recovering
  <2>1. \A u \in Slots : job'[u].kind = "recover" => u \in Shop!Recovering \/ (u = f /\ Shop!Recovering = {})
    BY <1>1, <1>2 DEF NewJob, Shop!Recovering
  <2> QED
    BY <2>1 DEF OneAtATime
<1> QED
  BY <1>3, <1>4, <1>5, <1>6

(* What the screen waits for goes on when no chain of its is taken from it. *)
LEMMA MineGoesOn ==
  ASSUME Jobs, NEW f, Starts(f), \A t \in Slots : job[t].mine => job'[t].mine
  PROVE  /\ \A t \in Slots : Reloads(job[t]) => Reloads(job'[t])
         /\ Shop!Buying \subseteq Shop!Buying'
<1>1. ASSUME NEW t \in Slots, job[t].mine
      PROVE  /\ job'[t].kind = job[t].kind /\ job'[t].failed = job[t].failed /\ job'[t].done = job[t].done
             /\ job'[t].tell = job[t].tell
  <2>1. job[t] \in Shop!Job /\ job[t].kind # "idle"
    BY <1>1 DEF Jobs, ShopTyped, IdleJobs, Shop!Idle
  <2>2. PICK b \in BOOLEAN : job'[t] = job[t] \/ job'[t] = [job[t] EXCEPT !.mine = b]
    BY <2>1 DEF Starts, Marked
  <2>3. /\ [job[t] EXCEPT !.mine = b].kind = job[t].kind /\ [job[t] EXCEPT !.mine = b].failed = job[t].failed
        /\ [job[t] EXCEPT !.mine = b].done = job[t].done /\ [job[t] EXCEPT !.mine = b].tell = job[t].tell
    BY <2>1, MarkedJob
  <2> QED
    BY <2>2, <2>3
<1> QED
  BY <1>1 DEF Reloads, Shop!Buying

LEMMA RecoveryStarts ==
  ASSUME Jobs, ShopAssumption, NEW m \in BOOLEAN, Shop!Free # {},
         \/ job' = Shop!RecoverToss(m)
         \/ platform # "toss" /\ m = TRUE /\ job' = Shop!StartRecovery
  PROVE  Starts(Shop!FirstFree) /\ \A t \in Slots : job[t].mine => job'[t].mine
<1> DEFINE f == Shop!FirstFree
           q == [Shop!Idle EXCEPT !.kind = "recover", !.mine = m]
<1>1. f \in Slots /\ job[f].kind = "idle" /\ ~ job[f].mine
  BY FreeSlot DEF Shop!Free, Jobs, IdleJobs, Shop!Idle
<1>2. q \in Shop!Job /\ q.kind = "recover" /\ q.tell = {} /\ q.step = "ask"
  BY DEF Shop!Idle, Shop!Job
<1>3. job \in [Slots -> Shop!Job]
  BY DEF Jobs, ShopTyped
<1>4. CASE job' = [job EXCEPT ![f] = q] /\ (platform = "toss" => Shop!Recovering = {})
  <2> HIDE DEF f, q
  <2>1. job'[f] = q /\ \A t \in Slots \ {f} : job'[t] = job[t]
    BY <1>1, <1>3, <1>4
  <2>2. job' \in [Slots -> Shop!Job]
    BY <1>2, <1>3, <1>4
  <2>3. NewJob(q)
    BY <1>2, <1>4 DEF NewJob
  <2>4. Starts(f) /\ \A t \in Slots : job[t].mine => job'[t].mine
    BY <1>1, <2>1, <2>2, <2>3 DEF Starts, Marked
  <2> QED
    BY <2>4 DEF f
<1>5. CASE /\ Shop!Recovering # {}
           /\ job' = [s \in Slots |-> IF s \in Shop!Recovering /\ m THEN [job[s] EXCEPT !.mine = TRUE] ELSE job[s]]
  <2>1. \A t \in Slots : Marked(job[t], job'[t]) /\ job'[t] \in Shop!Job /\ (job[t].mine => job'[t].mine)
    BY <1>3, <1>5, MarkedJob DEF Marked, Shop!Recovering
  <2>2. job' \in [Slots -> Shop!Job]
    BY <1>5, <2>1
  <2> QED
    BY <2>1, <2>2 DEF Starts
<1> QED
  BY <1>4, <1>5 DEF Shop!RecoverToss, Shop!StartRecovery

(* A chain makes a step: only its own job changes, and it stays the chain it is. *)
Goes(s) ==
  /\ job' \in [Slots -> Shop!Job] /\ \A t \in Slots \ {s} : job'[t] = job[t]
  /\ job[s].kind # "idle" /\ job'[s].kind = job[s].kind /\ job'[s].mine = job[s].mine
  /\ job'[s].step = "sheet" => job'[s].kind = "buy"

LEMMA ChainGoesOn ==
  ASSUME Jobs, NEW s \in Slots, Goes(s), server' \in Shop!Ledger, order' \in [Orders -> Shop!Order],
         \A o \in Orders : server[o] # "none" => server'[o] # "none",
         \A o \in Orders : order'[o].told => order[o].told \/ server'[o] # "none",
         \A o \in job'[s].tell : server'[o] # "none",
         UNCHANGED <<platform, session, purchasing, loads>>
  PROVE  Jobs' /\ (Shop!PurchasingRuns => Shop!PurchasingRuns')
<1> USE DEF Jobs, Goes
<1>1. ShopTyped'
  BY DEF ShopTyped, Loaded, Shop!Ledger, Shop!Unread, Shop!Order, Shop!Job
<1>2. IdleJobs' /\ SheetBuys'
  BY DEF IdleJobs, SheetBuys
<1>3. \A t \in Slots : job[t].tell \subseteq Orders
  BY DEF ShopTyped, Shop!Job
<1>4. Granted'
  BY <1>3 DEF Granted
<1>5. Shop!Recovering' = Shop!Recovering /\ Shop!Buying' = Shop!Buying
  BY DEF Shop!Recovering, Shop!Buying
<1> QED
  BY <1>1, <1>2, <1>4, <1>5 DEF OneAtATime, Shop!PurchasingRuns

LEMMA ChainStaysFresh ==
  ASSUME Fresh, NEW s \in Slots, Goes(s), Reloads(job[s]) => Reloads(job'[s]), trouble => trouble',
         server' = server \/ trouble' \/ Reloads(job'[s]), UNCHANGED <<open, balance, loads>>
  PROVE  Fresh'
<1>1. CASE \E t \in Slots : Reloads(job[t])
  <2>1. \E t \in Slots : Reloads(job'[t])
    BY <1>1 DEF Goes
  <2> QED
    BY <2>1 DEF Fresh, Reloads
<1>2. CASE server' = server
  <2>1. Newest => Newest'
    BY <1>2 DEF Newest, Shop!Unread
  <2> QED
    BY <1>1, <2>1 DEF Fresh
<1>3. CASE trouble' \/ Reloads(job'[s])
  BY <1>3 DEF Fresh, Reloads
<1> QED
  BY <1>2, <1>3

(* A chain ends. *)
LEMMA ChainEnds ==
  ASSUME ShopInv, NEW s \in Slots, job' = [job EXCEPT ![s] = Shop!Idle],
         loads' = loads \/ loads' = Append(loads, Shop!Unread),
         Reloads(job[s]) => trouble' \/ loads' # loads,
         purchasing' = None \/ (purchasing' = purchasing /\ s \notin Shop!Buying),
         trouble => trouble', UNCHANGED <<platform, session, open, balance, order, server>>
  PROVE  ShopInv'
<1> USE DEF ShopInv, Jobs
<1>1. Shop!Idle \in Shop!Job /\ Shop!Idle.kind = "idle" /\ Shop!Idle.tell = {} /\ Shop!Idle.step # "sheet"
  BY DEF Shop!Idle, Shop!Job
<1>2. /\ job' \in [Slots -> Shop!Job] /\ job'[s] = Shop!Idle
      /\ \A t \in Slots \ {s} : job'[t] = job[t]
  BY <1>1 DEF ShopTyped
<1>3. Shop!Unread \in Loaded /\ loads \in Seq(Loaded)
  BY DEF Loaded, ShopTyped
<1>4. /\ Append(loads, Shop!Unread) \in Seq(Loaded) /\ Append(loads, Shop!Unread) # <<>>
      /\ Len(Append(loads, Shop!Unread)) = Len(loads) + 1
      /\ Append(loads, Shop!Unread)[Len(loads) + 1] = Shop!Unread
  BY <1>3, AppendProperties
<1>5. ShopTyped'
  BY <1>2, <1>3, <1>4 DEF ShopTyped, Loaded, Shop!Ledger, Shop!Unread, Shop!Order, Shop!Job
<1>6. IdleJobs' /\ SheetBuys' /\ Granted'
  BY <1>1, <1>2 DEF IdleJobs, SheetBuys, Granted, Shop!Idle
<1>7. OneAtATime'
  BY <1>1, <1>2 DEF OneAtATime, Shop!Recovering
<1>8. Shop!PurchasingRuns'
  <2>1. \A t \in Shop!Buying : t # s => t \in Shop!Buying'
    BY <1>2 DEF Shop!Buying
  <2> QED
    BY <2>1 DEF Shop!PurchasingRuns
<1>9. CASE loads' = loads
  <2>1. Newest' = Newest
    BY <1>9 DEF Newest, Shop!Unread
  <2>2. \A t \in Slots : Reloads(job[t]) => Reloads(job'[t]) \/ t = s
    BY <1>2
  <2>3. Fresh'
    BY <1>9, <2>1, <2>2 DEF Fresh
  <2> QED
    BY <1>5, <1>6, <1>7, <1>8, <2>3
<1>10. CASE loads' = Append(loads, Shop!Unread)
  <2>1. Newest'
    BY <1>4, <1>10 DEF Newest, Shop!Unread
  <2> QED
    BY <1>5, <1>6, <1>7, <1>8, <2>1 DEF Fresh
<1> QED
  BY <1>9, <1>10

(* The loads of the store's data. *)
LEMMA LoadsKept ==
  ASSUME NEW q \in Seq(Loaded), NEW i \in 1..Len(q)
  PROVE  /\ Shop!RemoveAt(q, i) \in Seq(Loaded)
         /\ i = 1 => /\ Len(q) = 1 => Shop!RemoveAt(q, i) = <<>>
                     /\ Len(q) > 1 => /\ Shop!RemoveAt(q, i) # <<>>
                                      /\ Shop!RemoveAt(q, i)[Len(Shop!RemoveAt(q, i))] = q[Len(q)]
<1> DEFINE a == SubSeq(q, 1, i - 1)
           b == SubSeq(q, i + 1, Len(q))
<1>1. Len(q) \in Nat /\ i \in Int /\ \A k \in 1..Len(q) : q[k] \in Loaded
  BY ElementOfSeq, LenProperties
<1>2. a \in Seq(Loaded) /\ (i = 1 => Len(a) = 0)
  BY <1>1, SubSeqProperties
<1>3. /\ b \in Seq(Loaded) /\ Len(b) = (IF i + 1 <= Len(q) THEN Len(q) - i ELSE 0)
      /\ \A k \in 1..(Len(q) - i) : b[k] = q[i + k]
  BY <1>1, SubSeqProperties
<1>4. Shop!RemoveAt(q, i) = a \o b
  BY DEF Shop!RemoveAt
<1> HIDE DEF a, b
<1>5. /\ a \o b \in Seq(Loaded) /\ Len(a \o b) = Len(a) + Len(b)
      /\ \A k \in 1..(Len(a) + Len(b)) : (a \o b)[k] = IF k <= Len(a) THEN a[k] ELSE b[k - Len(a)]
  BY <1>2, <1>3, ConcatProperties
<1>6. ASSUME i = 1, Len(q) = 1 PROVE a \o b = <<>>
  BY <1>1, <1>2, <1>3, <1>5, <1>6, EmptySeq
<1>7. ASSUME i = 1, Len(q) > 1 PROVE a \o b # <<>> /\ (a \o b)[Len(a \o b)] = q[Len(q)]
  <2>1. Len(b) = Len(q) - 1 /\ Len(a) = 0 /\ Len(a \o b) = Len(b)
    BY <1>1, <1>2, <1>3, <1>5, <1>7
  <2>2. (a \o b)[Len(b)] = b[Len(b)] /\ b[Len(b)] = q[Len(q)]
    BY <1>1, <1>3, <1>5, <1>7, <2>1
  <2> QED
    BY <1>1, <1>5, <1>7, <2>1, <2>2, EmptySeq
<1> QED
  BY <1>4, <1>5, <1>6, <1>7

LEMMA SameJobs ==
  ASSUME Jobs, UNCHANGED job
  PROVE  Starts(0) /\ (\A t \in Slots : job[t].mine => job'[t].mine)
BY DEF Jobs, ShopTyped, Starts, Marked

LEMMA LoadStep ==
  ASSUME ShopInv, ShopAssumption, NEW i \in DOMAIN loads,
         Shop!ReadLoad(i) \/ Shop!AnswerLoad(i) \/ Shop!FailLoad(i)
  PROVE  ShopInv'
<1> USE DEF ShopInv
<1>1. loads \in Seq(Loaded) /\ i \in 1..Len(loads) /\ server \in Loaded /\ session \in Users /\ Len(loads) \in Nat
  BY LenProperties DEF Jobs, ShopTyped, Loaded
<1>2. loads # <<>> /\ Len(loads) \in Nat \ {0}
  BY <1>1, EmptySeq
<1>3. ASSUME Shop!ReadLoad(i) PROVE ShopInv'
  <2>1. /\ loads' = [loads EXCEPT ![i] = server]
        /\ UNCHANGED <<platform, session, due, open, ready, purchasing, balance, trouble, job, order, server>>
    BY <1>3 DEF Shop!ReadLoad
  <2>2. loads' \in Seq(Loaded) /\ Len(loads') = Len(loads) /\ loads' # <<>>
    BY <1>1, <2>1, ExceptSeq, EmptySeq
  <2>3. loads'[Len(loads)] = (IF i = Len(loads) THEN server ELSE loads[Len(loads)])
    BY <1>1, <2>1, LenProperties
  <2>4. Jobs'
    BY <1>1, <2>1, <2>2, SameJobs, Started
  <2>5. Newest => Newest'
    BY <1>2, <2>1, <2>2, <2>3 DEF Newest, Shop!Unread
  <2> QED
    BY <2>1, <2>4, <2>5 DEF Fresh, Reloads, Shop!PurchasingRuns, Shop!Buying
<1>4. ASSUME Shop!AnswerLoad(i) PROVE ShopInv'
  <2> USE DEF Shop!AnswerLoad
  <2>1. PICK f : Starts(f) /\ \A t \in Slots : job[t].mine => job'[t].mine
    <3>1. CASE ready
      BY <1>4, <3>1, SameJobs
    <3>2. CASE ~ ready /\ platform = "toss"
      BY <1>4, <3>2, RecoveryStarts DEF Shop!StartRecovery
    <3>3. CASE ~ ready /\ platform # "toss"
      BY <1>4, <3>3, RecoveryStarts
    <3> QED
      BY <3>1, <3>2, <3>3
  <2>2. loads' \in Seq(Loaded)
    BY <1>1, <1>4, LoadsKept
  <2>3. Jobs'
    BY <1>1, <1>4, <2>1, <2>2, Started
  <2>4. (\A t \in Slots : Reloads(job[t]) => Reloads(job'[t])) /\ Shop!Buying \subseteq Shop!Buying'
    BY <2>1, MineGoesOn
  <2>5. ASSUME i = 1, Newest PROVE Newest'
    <3>1. CASE Len(loads) = 1
      <4>1. loads' = <<>> /\ balance' = server /\ server' = server
        BY <1>1, <1>2, <1>4, <2>5, <3>1, LoadsKept DEF Newest
      <4> QED
        BY <4>1 DEF Newest
    <3>2. CASE Len(loads) > 1
      <4>1. loads' # <<>> /\ loads'[Len(loads')] = loads[Len(loads)] /\ server' = server
        BY <1>1, <1>4, <2>5, <3>2, LoadsKept
      <4> QED
        BY <1>2, <2>5, <4>1 DEF Newest, Shop!Unread
    <3>3. Len(loads) = 1 \/ Len(loads) > 1
      BY <1>2
    <3> QED
      BY <3>1, <3>2, <3>3
  <2>6. Fresh'
    BY <1>4, <2>4, <2>5 DEF Fresh, Reloads
  <2>7. Shop!PurchasingRuns'
    BY <1>4, <2>4 DEF Shop!PurchasingRuns
  <2> QED
    BY <2>3, <2>6, <2>7
<1>5. ASSUME Shop!FailLoad(i) PROVE ShopInv'
  <2>1. loads' \in Seq(Loaded)
    BY <1>1, <1>5, LoadsKept DEF Shop!FailLoad
  <2>2. Jobs'
    BY <1>1, <1>5, <2>1, SameJobs, Started DEF Shop!FailLoad
  <2> QED
    BY <1>5, <2>2 DEF Shop!FailLoad, Fresh, Shop!PurchasingRuns, Shop!Buying
<1> QED
  BY <1>3, <1>4, <1>5

(* The user's steps. *)
LEMMA ScreenLeaves ==
  ASSUME Jobs, Shop!ScreenGone, session' \in Users, UNCHANGED <<platform, order, server>>,
         \/ job' = [s \in Slots |-> [job[s] EXCEPT !.mine = FALSE]]
         \/ job' = [s \in Slots |-> Shop!Idle]
  PROVE  ShopInv'
<1> USE DEF Shop!ScreenGone
<1>1. loads' \in Seq(Loaded)
  BY EmptySeq
<1>2. CASE job' = [s \in Slots |-> [job[s] EXCEPT !.mine = FALSE]]
  <2>1. \A t \in Slots : Marked(job[t], job'[t]) /\ job'[t] \in Shop!Job
    <3> SUFFICES ASSUME NEW t \in Slots PROVE Marked(job[t], job'[t]) /\ job'[t] \in Shop!Job
      OBVIOUS
    <3>1. job[t] \in Shop!Job /\ job'[t] = [job[t] EXCEPT !.mine = FALSE]
      BY <1>2 DEF Jobs, ShopTyped
    <3>2. job[t].kind = "idle" => [job[t] EXCEPT !.mine = FALSE] = job[t]
      <4>1. job[t] \in Shop!Job /\ (job[t].kind = "idle" => job[t].mine = FALSE)
        BY DEF Jobs, ShopTyped, IdleJobs, Shop!Idle
      <4> QED
        BY <4>1 DEF Shop!Job
    <3> QED
      BY <3>1, <3>2, MarkedJob DEF Marked
  <2>2. Starts(0)
    BY <1>2, <2>1 DEF Starts
  <2> QED
    BY <1>1, <2>2, Started DEF ShopInv, Shop!PurchasingRuns, Fresh
<1>3. CASE job' = [s \in Slots |-> Shop!Idle]
  <2>1. Shop!Idle \in Shop!Job /\ Shop!Idle.kind = "idle" /\ Shop!Idle.tell = {} /\ Shop!Idle.step # "sheet"
    BY DEF Shop!Idle, Shop!Job
  <2>2. ShopTyped'
    BY <1>1, <1>3, <2>1 DEF Jobs, ShopTyped, Loaded, Shop!Ledger, Shop!Unread, Shop!Order, Shop!Job
  <2>3. IdleJobs' /\ SheetBuys' /\ Granted' /\ OneAtATime'
    BY <1>3, <2>1 DEF Jobs, IdleJobs, SheetBuys, Granted, OneAtATime, Shop!Recovering, Shop!Idle
  <2> QED
    BY <2>2, <2>3 DEF ShopInv, Jobs, Shop!PurchasingRuns, Fresh
<1> QED
  BY <1>2, <1>3

LEMMA BuyStep == ASSUME ShopInv, ShopAssumption, NEW o \in Orders, Shop!Buy(o) PROVE ShopInv'
<1> DEFINE f == Shop!FirstFree
           q == [Shop!Idle EXCEPT !.kind = "buy", !.mine = TRUE, !.step = "sheet", !.todo = {o}]
<1> USE DEF ShopInv, Jobs, Shop!Buy
<1>1. f \in Slots /\ job[f].kind = "idle"
  BY FreeSlot DEF Shop!Free
<1>2. {o} \in SUBSET Orders /\ FALSE \in BOOLEAN
  OBVIOUS
<1>3. q \in Shop!Job /\ q.kind # "idle" /\ q.tell = {} /\ (q.step = "sheet" => q.kind = "buy")
  BY <1>2, NewJobs
<1>4. q.kind = "buy" /\ q.mine = TRUE
  BY DEF Shop!Idle
<1>5. job' = [s \in Slots |->
               IF s = f THEN q
               ELSE IF platform = "toss" /\ s \in Shop!Buying THEN [job[s] EXCEPT !.mine = FALSE]
               ELSE job[s]]
  OBVIOUS
<1> HIDE DEF f, q
<1>6. \A t \in Slots : job[t] \in Shop!Job
  BY DEF ShopTyped
<1>7. \A t \in Slots \ {f} : Marked(job[t], job'[t]) /\ job'[t] \in Shop!Job
  BY <1>5, <1>6, MarkedJob DEF Marked, Shop!Buying
<1>8. job'[f] = q
  BY <1>1, <1>5
<1>9. Starts(f)
  BY <1>1, <1>3, <1>4, <1>5, <1>7, <1>8 DEF Starts, NewJob
<1>10. Jobs'
  BY <1>9, Started DEF ShopTyped
<1>11. f \in Shop!Buying' /\ Reloads(job'[f])
  BY <1>1, <1>4, <1>8 DEF Shop!Buying, Reloads
<1> QED
  BY <1>1, <1>10, <1>11 DEF Shop!PurchasingRuns, Fresh, Reloads

LEMMA ScreenStep == ASSUME ShopInv, ShopAssumption, Shop!Screen PROVE ShopInv'
<1> USE DEF ShopInv
<1>1. loads \in Seq(Loaded) /\ Shop!Unread \in Loaded /\ session \in Users
  BY DEF Jobs, ShopTyped, Loaded
<1>2. Append(loads, Shop!Unread) \in Seq(Loaded) /\ <<Shop!Unread>> \in Seq(Loaded)
  BY <1>1, AppendProperties, EmptySeq
<1>3. ASSUME Shop!Retry \/ Shop!OpenStore PROVE ShopInv'
  <2>1. Jobs'
    BY <1>1, <1>2, <1>3, SameJobs, Started DEF Shop!Retry, Shop!OpenStore, Shop!Refreshed
  <2>2. Shop!PurchasingRuns'
    BY <1>3 DEF Shop!PurchasingRuns, Shop!Buying, Shop!Retry, Shop!OpenStore
  <2>3. CASE Shop!Retry
    BY <2>1, <2>2, <2>3 DEF Shop!Retry, Fresh
  <2>4. CASE Shop!OpenStore
    <3>1. Newest'
      BY <2>4 DEF Shop!OpenStore, Newest, Shop!Unread
    <3> QED
      BY <2>1, <2>2, <3>1 DEF Fresh
  <2> QED
    BY <1>3, <2>3, <2>4
<1>4. ASSUME Shop!CloseStore \/ Shop!Restart \/ \E u \in Users : Shop!SwitchUser(u) PROVE ShopInv'
  BY <1>1, <1>4, ScreenLeaves DEF Shop!CloseStore, Shop!Restart, Shop!SwitchUser
<1>5. ASSUME Shop!SessionRecovery PROVE ShopInv'
  <2>1. PICK f : Starts(f) /\ \A t \in Slots : job[t].mine => job'[t].mine
    BY <1>5, SameJobs, RecoveryStarts DEF Shop!SessionRecovery
  <2>2. /\ UNCHANGED <<platform, session, order, server>>
        /\ UNCHANGED <<open, ready, purchasing, balance, loads, trouble>>
    BY <1>5 DEF Shop!SessionRecovery, Shop!screenVars
  <2>3. Jobs'
    BY <1>1, <2>1, <2>2, Started
  <2>4. (\A t \in Slots : Reloads(job[t]) => Reloads(job'[t])) /\ Shop!Buying \subseteq Shop!Buying'
    BY <2>1, MineGoesOn
  <2>5. Newest => Newest'
    BY <2>2 DEF Newest, Shop!Unread
  <2> QED
    BY <2>2, <2>3, <2>4, <2>5 DEF Fresh, Reloads, Shop!PurchasingRuns
<1>6. ASSUME NEW o \in Orders, Shop!Observe(o) PROVE ShopInv'
  <2> DEFINE f == Shop!FirstFree
             q == [Shop!Idle EXCEPT !.kind = "observe", !.mine = TRUE, !.step = "work", !.todo = {o}]
  <2>1. f \in Slots /\ job[f].kind = "idle" /\ ~ job[f].mine
    BY <1>6, FreeSlot DEF Shop!Observe, Shop!Free, Jobs, IdleJobs, Shop!Idle
  <2>2. {o} \in SUBSET Orders /\ FALSE \in BOOLEAN
    OBVIOUS
  <2>3. q \in Shop!Job /\ q.kind # "idle" /\ q.tell = {} /\ (q.step = "sheet" => q.kind = "buy")
    BY <2>2, NewJobs
  <2>4. q.kind = "observe"
    BY DEF Shop!Idle
  <2>5. job' = [job EXCEPT ![f] = q]
    BY <1>6 DEF Shop!Observe
  <2> HIDE DEF f, q
  <2>6. Starts(f) /\ \A t \in Slots : job[t].mine => job'[t].mine
    BY <2>1, <2>3, <2>4, <2>5 DEF Starts, Marked, NewJob, Jobs, ShopTyped
  <2>7. /\ UNCHANGED <<platform, session, order, server>>
        /\ UNCHANGED <<open, ready, purchasing, balance, loads, trouble>>
    BY <1>6 DEF Shop!Observe, Shop!screenVars
  <2>8. Jobs'
    BY <1>1, <2>6, <2>7, Started
  <2>9. (\A t \in Slots : Reloads(job[t]) => Reloads(job'[t])) /\ Shop!Buying \subseteq Shop!Buying'
    BY <2>6, MineGoesOn
  <2>10. Newest => Newest'
    BY <2>7 DEF Newest, Shop!Unread
  <2> QED
    BY <2>7, <2>8, <2>9, <2>10 DEF Fresh, Reloads, Shop!PurchasingRuns
<1> QED
  BY <1>3, <1>4, <1>5, <1>6, BuyStep DEF Shop!Screen

(* The steps of a chain. *)
LEMMA JobIs ==
  ASSUME ShopTyped, NEW s \in Slots, NEW j \in Shop!Job, job' = [job EXCEPT ![s] = j],
         job[s].kind # "idle", j.kind = job[s].kind, j.mine = job[s].mine, j.step = "sheet" => j.kind = "buy"
  PROVE  Goes(s) /\ job'[s] = j
BY DEF ShopTyped, Goes

LEMMA Waits ==
  ASSUME ShopInv, NEW s \in Slots, Goes(s), order' \in [Orders -> Shop!Order],
         \A o \in Orders : order'[o].told => order[o].told \/ server[o] # "none",
         job'[s].tell \subseteq job[s].tell, Reloads(job[s]) => Reloads(job'[s]),
         UNCHANGED <<platform, session, open, ready, purchasing, balance, loads, trouble, server>>
  PROVE  ShopInv'
<1>1. \A o \in job'[s].tell : server'[o] # "none"
  BY DEF ShopInv, Jobs, Granted
<1>2. server' \in Shop!Ledger
  BY DEF ShopInv, Jobs, ShopTyped
<1> QED
  BY <1>1, <1>2, ChainGoesOn, ChainStaysFresh DEF ShopInv

LEMMA PayStep == ASSUME ShopInv, NEW s \in Slots, Shop!Pay(s) \/ Shop!NoSheet(s) PROVE ShopInv'
<1> USE DEF ShopInv, Jobs
<1>1. job[s] \in Shop!Job /\ job[s].step = "sheet" /\ job[s].kind = "buy" /\ job[s].todo \subseteq Orders
  BY DEF ShopTyped, SheetBuys, Shop!Job, Shop!Pay, Shop!NoSheet
<1>2. PICK w \in SUBSET Orders, b \in BOOLEAN :
        job' = [job EXCEPT ![s].step = "work", ![s].todo = w, ![s].failed = b]
  <2>1. CASE Shop!Pay(s)
    <3>1. PICK o \in job[s].todo, pay \in {"none", "pending", "paid"} :
            job' = [job EXCEPT ![s].step = "work", ![s].todo = IF pay = "paid" THEN {o} ELSE {},
                               ![s].failed = pay = "none" \/ (pay = "pending" /\ platform = "apple")]
      BY <2>1 DEF Shop!Pay
    <3>2. (IF pay = "paid" THEN {o} ELSE {}) \in SUBSET Orders
      BY <1>1
    <3>3. (pay = "none" \/ (pay = "pending" /\ platform = "apple")) \in BOOLEAN
      OBVIOUS
    <3> QED
      BY <3>1, <3>2, <3>3
  <2>2. CASE Shop!NoSheet(s)
    <3>1. job' = [job EXCEPT ![s].step = "work", ![s].todo = {}, ![s].failed = TRUE]
      BY <2>2 DEF Shop!NoSheet
    <3>2. {} \in SUBSET Orders /\ TRUE \in BOOLEAN
      OBVIOUS
    <3> QED
      BY <3>1, <3>2
  <2> QED
    BY <2>1, <2>2
<1>3. PICK j : j = [job[s] EXCEPT !.step = "work", !.todo = w, !.failed = b]
  OBVIOUS
<1>4. /\ j \in Shop!Job /\ j.kind = job[s].kind /\ j.mine = job[s].mine /\ j.step = "work"
      /\ j.tell = job[s].tell /\ j.done = job[s].done
  BY <1>1, <1>3 DEF Shop!Job
<1>5. Goes(s) /\ job'[s] = j
  <2>1. job' = [job EXCEPT ![s] = j]
    BY <1>2, <1>3 DEF ShopTyped
  <2> QED
    BY <1>1, <1>4, <2>1, JobIs
<1>6. order' \in [Orders -> Shop!Order] /\ \A o \in Orders : order'[o].told => order[o].told
  <2>1. CASE UNCHANGED order
    BY <2>1 DEF ShopTyped
  <2>2. ASSUME NEW o \in Orders, NEW pay \in {"pending", "paid"},
               order' = [order EXCEPT ![o] = [Shop!NewOrder EXCEPT !.pay = pay, !.buyer = session]]
        PROVE  <1>6
    <3>1. PICK n : n = [Shop!NewOrder EXCEPT !.pay = pay, !.buyer = session]
      OBVIOUS
    <3>2. n \in Shop!Order /\ ~ n.told
      BY <3>1 DEF Shop!NewOrder, Shop!Order, ShopTyped
    <3> QED
      BY <2>2, <3>1, <3>2 DEF ShopTyped
  <2>3. UNCHANGED order \/ \E o \in Orders, pay \in {"pending", "paid"} :
          order' = [order EXCEPT ![o] = [Shop!NewOrder EXCEPT !.pay = pay, !.buyer = session]]
    BY <1>1 DEF Shop!Pay, Shop!NoSheet
  <2> QED
    BY <2>1, <2>2, <2>3
<1>7. Reloads(job[s]) => Reloads(job'[s])
  BY <1>1, <1>4, <1>5 DEF Reloads
<1>8. UNCHANGED <<platform, session, open, ready, purchasing, balance, loads, trouble, server>>
  BY DEF Shop!Pay, Shop!NoSheet, Shop!screenVars
<1> QED
  BY <1>4, <1>5, <1>6, <1>7, <1>8, Waits

LEMMA AskStep == ASSUME ShopInv, NEW s \in Slots, Shop!AskStore(s) \/ Shop!AskHistory(s) PROVE ShopInv'
<1> USE DEF ShopInv, Jobs
<1>1. job[s] \in Shop!Job /\ job[s].kind = "recover" /\ Shop!Listed \in SUBSET Orders /\ Shop!Refunded \in SUBSET Orders
  BY DEF ShopTyped, Shop!AskStore, Shop!AskHistory, Shop!Listed, Shop!Refunded
<1>2. PICK t \in {"work", "refunds"}, w \in SUBSET Orders :
        job' = [job EXCEPT ![s].step = t, ![s].todo = w] \/ job' = [job EXCEPT ![s].step = t]
  BY <1>1 DEF Shop!AskStore, Shop!AskHistory
<1>3. PICK j : /\ j = [job[s] EXCEPT !.step = t, !.todo = w] \/ j = [job[s] EXCEPT !.step = t]
               /\ job' = [job EXCEPT ![s] = j]
  BY <1>2 DEF ShopTyped
<1>4. /\ j \in Shop!Job /\ j.kind = job[s].kind /\ j.mine = job[s].mine /\ j.step = t
      /\ j.tell = job[s].tell /\ j.done = job[s].done /\ j.failed = job[s].failed
  BY <1>1, <1>3 DEF Shop!Job
<1>5. Goes(s) /\ job'[s] = j
  BY <1>1, <1>3, <1>4, JobIs
<1>6. UNCHANGED <<platform, session, open, ready, purchasing, balance, loads, trouble, order, server>>
  BY DEF Shop!AskStore, Shop!AskHistory, Shop!screenVars
<1> QED
  BY <1>4, <1>5, <1>6, Waits DEF Reloads, ShopTyped

(* The server never takes back that it has decided an order, and an order is told to the store *)
(* only after that.                                                                            *)
LEMMA GrantStep == ASSUME ShopInv, NEW s \in Slots, NEW o \in Orders, Shop!Grant(s, o) PROVE ShopInv'
<1> USE DEF ShopInv, Jobs
<1>1. /\ job[s] \in Shop!Job /\ job[s].step \in {"work", "refunds"} /\ o \in job[s].todo
      /\ job[s].kind # "idle" /\ job[s].todo \subseteq Orders /\ job[s].tell \subseteq Orders
  BY DEF ShopTyped, IdleJobs, Shop!Idle, Shop!Job, Shop!Grant
<1> DEFINE status == Shop!Grants(o)
<1>2. status \in {"none", "granted", "refunded"} /\ (server[o] # "none" => status # "none")
  BY DEF Shop!Grants, ShopTyped, Shop!Ledger
<1> HIDE DEF status
<1>3. PICK answered \in BOOLEAN, fails \in BOOLEAN, tells \in BOOLEAN :
        /\ server' = [server EXCEPT ![o] = status] \/ (~ answered /\ UNCHANGED server)
        /\ tells => answered /\ ~ fails /\ status # "none"
        /\ job' = [job EXCEPT
                ![s].todo = @ \ {o}, ![s].tell = IF tells THEN @ \cup {o} ELSE @,
                ![s].done = @ \/ (~ fails /\ ~ tells), ![s].failed = @ \/ fails]
        /\ trouble' = (trouble \/ (~ job[s].mine /\ server'[o] # server[o]))
        /\ UNCHANGED <<platform, session, due, open, ready, purchasing, balance, loads, order>>
  <2>1. PICK a \in BOOLEAN :
      LET sts == Shop!Grants(o)
          failed == ~ a \/ IF job[s].step = "refunds" THEN sts # "refunded" ELSE ~ Shop!Accepted(sts)
          tells == ~ failed /\ job[s].step = "work" /\ platform # "google"
      IN  /\ \/ server' = [server EXCEPT ![o] = sts]
             \/ ~ a /\ UNCHANGED server
          /\ job' = [job EXCEPT
               ![s].todo = @ \ {o},
               ![s].tell = IF tells THEN @ \cup {o} ELSE @,
               ![s].done = @ \/ (~ failed /\ ~ tells),
               ![s].failed = @ \/ failed]
          /\ trouble' = (trouble \/ (~ job[s].mine /\ server'[o] # server[o]))
    BY DEF Shop!Grant
  <2> DEFINE fails == ~ a \/ IF job[s].step = "refunds" THEN Shop!Grants(o) # "refunded" ELSE ~ Shop!Accepted(Shop!Grants(o))
             tells == ~ fails /\ job[s].step = "work" /\ platform # "google"
  <2>2. tells => a /\ ~ fails /\ Shop!Accepted(Shop!Grants(o)) /\ platform # "google"
    OBVIOUS
  <2>3. fails \in BOOLEAN /\ tells \in BOOLEAN
    OBVIOUS
  <2>4. tells => a /\ ~ fails /\ Shop!Grants(o) # "none"
    BY <2>2 DEF Shop!Accepted
  <2>5. /\ server' = [server EXCEPT ![o] = Shop!Grants(o)] \/ (~ a /\ UNCHANGED server)
        /\ job' = [job EXCEPT
                ![s].todo = @ \ {o}, ![s].tell = IF tells THEN @ \cup {o} ELSE @,
                ![s].done = @ \/ (~ fails /\ ~ tells), ![s].failed = @ \/ fails]
        /\ trouble' = (trouble \/ (~ job[s].mine /\ server'[o] # server[o]))
    BY <2>1
  <2>6. UNCHANGED <<platform, session, due, open, ready, purchasing, balance, loads, order>>
    BY DEF Shop!Grant
  <2> HIDE DEF fails, tells
  <2> QED
    BY <2>3, <2>4, <2>5, <2>6 DEF status
<1>4. PICK l \in SUBSET Orders, d \in BOOLEAN, b \in BOOLEAN, w \in SUBSET Orders :
        /\ l = (IF tells THEN job[s].tell \cup {o} ELSE job[s].tell)
        /\ d = (job[s].done \/ (~ fails /\ ~ tells)) /\ b = (job[s].failed \/ fails) /\ w = job[s].todo \ {o}
  <2>1. /\ (IF tells THEN job[s].tell \cup {o} ELSE job[s].tell) \in SUBSET Orders
        /\ (job[s].done \/ (~ fails /\ ~ tells)) \in BOOLEAN /\ (job[s].failed \/ fails) \in BOOLEAN
        /\ job[s].todo \ {o} \in SUBSET Orders
    BY <1>1
  <2> QED
    BY <2>1
<1>4a. PICK j : /\ j = [job[s] EXCEPT !.todo = w, !.tell = l, !.done = d, !.failed = b]
               /\ job' = [job EXCEPT ![s] = j]
  <2>1. job' = [job EXCEPT ![s] = [job[s] EXCEPT
                  !.todo = job[s].todo \ {o}, !.tell = IF tells THEN job[s].tell \cup {o} ELSE job[s].tell,
                  !.done = job[s].done \/ (~ fails /\ ~ tells), !.failed = job[s].failed \/ fails]]
    BY <1>3 DEF ShopTyped
  <2>2. job' = [job EXCEPT ![s] = [job[s] EXCEPT !.todo = w, !.tell = l, !.done = d, !.failed = b]]
    BY <1>4, <2>1
  <2> QED
    BY <2>2
<1>5. /\ j \in Shop!Job /\ j.kind = job[s].kind /\ j.mine = job[s].mine /\ j.step = job[s].step
      /\ j.tell = l /\ j.done = d /\ j.failed = b
  BY <1>1, <1>4, <1>4a DEF Shop!Job
<1>6. Goes(s) /\ job'[s] = j
  BY <1>1, <1>4, <1>4a, <1>5, JobIs
<1>7. server' \in Shop!Ledger /\ \A p \in Orders : server[p] # "none" => server'[p] # "none"
  BY <1>2, <1>3 DEF ShopTyped, Shop!Ledger
<1>8. \A p \in job'[s].tell : server'[p] # "none"
  <2>1. tells => server'[o] # "none"
    BY <1>2, <1>3 DEF ShopTyped, Shop!Ledger
  <2>2. \A p \in job[s].tell : server[p] # "none"
    BY DEF Granted
  <2> QED
    BY <1>1, <1>4, <1>5, <1>6, <1>7, <2>1, <2>2
<1>9. Jobs' /\ Shop!PurchasingRuns'
  BY <1>3, <1>6, <1>7, <1>8, ChainGoesOn DEF ShopTyped
<1>10. job[s].mine => Reloads(job'[s])
  <2>1. d \/ b \/ l # {}
    BY <1>1, <1>4
  <2> QED
    BY <1>5, <1>6, <2>1 DEF Reloads
<1>11. server' = server \/ trouble' \/ Reloads(job'[s])
  <2>1. server'[o] = server[o] => server' = server
    BY <1>3 DEF ShopTyped, Shop!Ledger
  <2> QED
    BY <1>3, <1>10, <2>1
<1>12. Fresh'
  BY <1>3, <1>6, <1>10, <1>11, ChainStaysFresh DEF Reloads
<1> QED
  BY <1>9, <1>12

LEMMA TellStep == ASSUME ShopInv, NEW s \in Slots, NEW o \in Orders, Shop!Tell(s, o) PROVE ShopInv'
<1> USE DEF ShopInv, Jobs
<1>1. /\ job[s] \in Shop!Job /\ o \in job[s].tell /\ job[s].kind # "idle" /\ server[o] # "none"
      /\ job[s].tell \subseteq Orders /\ (job[s].step = "sheet" => job[s].kind = "buy")
  BY DEF ShopTyped, IdleJobs, SheetBuys, Granted, Shop!Idle, Shop!Job, Shop!Tell
<1>2. PICK told \in BOOLEAN, counts \in BOOLEAN :
        /\ order' = IF told THEN [order EXCEPT ![o].told = TRUE] ELSE order
        /\ job' = [job EXCEPT ![s].tell = @ \ {o}, ![s].done = @ \/ counts, ![s].failed = @ \/ ~ counts]
  <2>1. PICK told \in BOOLEAN :
      LET counts == told \/ (platform = "toss" /\ job[s].kind = "recover")
      IN  /\ told => platform = "toss" \/ ~ order[o].told
          /\ order' = IF told THEN [order EXCEPT ![o].told = TRUE] ELSE order
          /\ job' = [job EXCEPT ![s].tell = @ \ {o}, ![s].done = @ \/ counts, ![s].failed = @ \/ ~ counts]
    BY DEF Shop!Tell
  <2> DEFINE counts == told \/ (platform = "toss" /\ job[s].kind = "recover")
  <2>2. counts \in BOOLEAN
    OBVIOUS
  <2>3. /\ order' = IF told THEN [order EXCEPT ![o].told = TRUE] ELSE order
        /\ job' = [job EXCEPT ![s].tell = @ \ {o}, ![s].done = @ \/ counts, ![s].failed = @ \/ ~ counts]
    BY <2>1
  <2> HIDE DEF counts
  <2> QED
    BY <2>2, <2>3
<1>3. PICK l \in SUBSET Orders, d \in BOOLEAN, b \in BOOLEAN :
        l = job[s].tell \ {o} /\ d = (job[s].done \/ counts) /\ b = (job[s].failed \/ ~ counts)
  <2>1. /\ job[s].tell \ {o} \in SUBSET Orders
        /\ (job[s].done \/ counts) \in BOOLEAN /\ (job[s].failed \/ ~ counts) \in BOOLEAN
    BY <1>1
  <2> QED
    BY <2>1
<1>3a. PICK j : j = [job[s] EXCEPT !.tell = l, !.done = d, !.failed = b] /\ job' = [job EXCEPT ![s] = j]
  <2>1. job' = [job EXCEPT ![s] = [job[s] EXCEPT
                  !.tell = job[s].tell \ {o}, !.done = job[s].done \/ counts, !.failed = job[s].failed \/ ~ counts]]
    BY <1>2 DEF ShopTyped
  <2>2. job' = [job EXCEPT ![s] = [job[s] EXCEPT !.tell = l, !.done = d, !.failed = b]]
    BY <1>3, <2>1
  <2> QED
    BY <2>2
<1>4. /\ j \in Shop!Job /\ j.kind = job[s].kind /\ j.mine = job[s].mine /\ j.step = job[s].step
      /\ j.tell = l /\ j.done = d /\ j.failed = b
  BY <1>1, <1>3, <1>3a DEF Shop!Job
<1>5. Goes(s) /\ job'[s] = j
  <2>1. ShopTyped /\ job' = [job EXCEPT ![s] = j] /\ (j.step = "sheet" => j.kind = "buy")
    BY <1>1, <1>3a, <1>4
  <2> QED
    BY <1>1, <1>4, <2>1, JobIs
<1>6. /\ order' \in [Orders -> Shop!Order]
      /\ \A p \in Orders : order'[p].told => order[p].told \/ server[p] # "none"
  <2>1. PICK n : n = [order[o] EXCEPT !.told = TRUE]
    OBVIOUS
  <2>2. n \in Shop!Order
    BY <2>1 DEF ShopTyped, Shop!Order
  <2>3. order' = order \/ order' = [order EXCEPT ![o] = n]
    BY <1>2, <2>1 DEF ShopTyped
  <2> QED
    BY <1>1, <2>2, <2>3 DEF ShopTyped
<1>7. Reloads(job[s]) => Reloads(job'[s])
  BY <1>3, <1>4, <1>5 DEF Reloads
<1>8. UNCHANGED <<platform, session, open, ready, purchasing, balance, loads, trouble, server>>
  BY DEF Shop!Tell, Shop!screenVars
<1> QED
  BY <1>3, <1>4, <1>5, <1>6, <1>7, <1>8, Waits

LEMMA EndStep == ASSUME ShopInv, NEW s \in Slots, Shop!Finish(s) \/ Shop!Throw(s) PROVE ShopInv'
<1> USE DEF ShopInv, Jobs
<1>1. job[s] \in Shop!Job
  BY DEF ShopTyped
<1>2. UNCHANGED <<platform, session, open, balance, order, server>> /\ job' = [job EXCEPT ![s] = Shop!Idle]
  BY DEF Shop!Finish, Shop!Throw, Shop!Fails
<1>3. CASE Shop!Finish(s)
  <2>1. loads' = loads \/ loads' = Append(loads, Shop!Unread)
    BY <1>3 DEF Shop!Finish, Shop!Refreshed
  <2>2. Append(loads, Shop!Unread) # loads
    <3>1. loads \in Seq(Loaded) /\ Shop!Unread \in Loaded
      BY DEF ShopTyped, Loaded
    <3>2. Len(Append(loads, Shop!Unread)) = Len(loads) + 1 /\ Len(loads) \in Nat
      BY <3>1, AppendProperties, LenProperties
    <3> QED
      BY <3>2
  <2>3. Reloads(job[s]) => trouble' \/ loads' # loads
    <3>1. Reloads(job[s]) => job[s].mine /\ (job[s].failed \/ Shop!Updates(s))
      BY <1>1, <1>3 DEF Reloads, Shop!Finish, Shop!Settled, Shop!Updates
    <3> QED
      BY <1>3, <2>2, <3>1 DEF Shop!Finish, Shop!Refreshed
  <2>4. purchasing' = None \/ (purchasing' = purchasing /\ s \notin Shop!Buying)
    BY <1>3 DEF Shop!Finish, Shop!Buying
  <2>5. trouble => trouble'
    BY <1>3 DEF Shop!Finish
  <2> QED
    BY <1>2, <2>1, <2>3, <2>4, <2>5, ChainEnds
<1>4. CASE Shop!Throw(s)
  <2>1. loads' = loads /\ purchasing' = purchasing /\ (trouble => trouble') /\ job[s].kind = "recover"
    BY <1>4 DEF Shop!Throw, Shop!Fails
  <2>2. Reloads(job[s]) => trouble'
    BY <1>4 DEF Reloads, Shop!Throw, Shop!Fails
  <2>3. s \notin Shop!Buying
    BY <2>1 DEF Shop!Buying
  <2> QED
    BY <1>2, <2>1, <2>2, <2>3, ChainEnds
<1> QED
  BY <1>3, <1>4

(* The stores and the server go on by themselves. *)
LEMMA OutsideStep == ASSUME ShopInv, Shop!Outside PROVE ShopInv'
<1> USE DEF ShopInv, Jobs
<1>1. UNCHANGED <<platform, session, due, open, ready, purchasing, balance, loads, job>>
  BY DEF Shop!Outside
<1>2. PICK o \in Orders :
        \/ order[o].pay = "pending" /\ order' = [order EXCEPT ![o].pay = "paid"] /\ UNCHANGED <<trouble, server>>
        \/ order' = [order EXCEPT ![o].refunded = TRUE] /\ UNCHANGED <<trouble, server>>
        \/ server[o] # "none" /\ order' = [order EXCEPT ![o].told = TRUE] /\ UNCHANGED <<trouble, server>>
        \/ /\ server[o] = "granted"
           /\ server' = [server EXCEPT ![o] = "refunded"] /\ trouble' = TRUE /\ UNCHANGED order
  BY DEF Shop!Outside
<1>3. PICK paid, back, told :
        /\ paid = [order[o] EXCEPT !.pay = "paid"] /\ back = [order[o] EXCEPT !.refunded = TRUE]
        /\ told = [order[o] EXCEPT !.told = TRUE]
  OBVIOUS
<1>4. /\ paid \in Shop!Order /\ back \in Shop!Order /\ told \in Shop!Order
      /\ paid.told = order[o].told /\ back.told = order[o].told
  BY <1>3 DEF ShopTyped, Shop!Order
<1>5. /\ \/ UNCHANGED order
         \/ order' = [order EXCEPT ![o] = paid]
         \/ order' = [order EXCEPT ![o] = back]
         \/ server[o] # "none" /\ order' = [order EXCEPT ![o] = told]
      /\ \/ UNCHANGED <<trouble, server>>
         \/ server' = [server EXCEPT ![o] = "refunded"] /\ trouble' = TRUE
  BY <1>2, <1>3 DEF ShopTyped
<1>6. order' \in [Orders -> Shop!Order] /\ \A p \in Orders : order'[p].told => order[p].told \/ server[p] # "none"
  BY <1>4, <1>5 DEF ShopTyped
<1>7. server' \in Shop!Ledger /\ \A p \in Orders : server[p] # "none" => server'[p] # "none"
  BY <1>5 DEF ShopTyped, Shop!Ledger
<1>8. ShopTyped'
  BY <1>1, <1>6, <1>7 DEF ShopTyped, Loaded, Shop!Ledger, Shop!Unread, Shop!Job
<1>9. \A t \in Slots : job[t].tell \subseteq Orders
  BY DEF ShopTyped, Shop!Job
<1>10. IdleJobs' /\ SheetBuys' /\ Granted' /\ OneAtATime' /\ Shop!PurchasingRuns'
  <2>1. Granted'
    BY <1>1, <1>6, <1>7, <1>9 DEF Granted
  <2>2. IdleJobs' /\ SheetBuys' /\ OneAtATime' /\ Shop!PurchasingRuns'
    BY <1>1 DEF IdleJobs, SheetBuys, OneAtATime, Shop!Recovering, Shop!PurchasingRuns, Shop!Buying, Shop!Idle
  <2> QED
    BY <2>1, <2>2
<1>11. Fresh'
  <2>1. CASE UNCHANGED <<trouble, server>>
    <3>1. Newest' = Newest
      BY <1>1, <2>1 DEF Newest, Shop!Unread
    <3> QED
      BY <1>1, <2>1, <3>1 DEF Fresh
  <2>2. CASE trouble' = TRUE
    BY <2>2 DEF Fresh
  <2> QED
    BY <1>5, <2>1, <2>2
<1> QED
  BY <1>8, <1>10, <1>11

LEMMA ShopStep == ASSUME ShopAssumption, ShopInv, [Shop!Next]_Shop!vars PROVE ShopInv'
<1>1. ASSUME NEW s \in Slots, Shop!Chain(s) PROVE ShopInv'
  BY <1>1, PayStep, AskStep, EndStep, GrantStep, TellStep DEF Shop!Chain
<1>2. ASSUME UNCHANGED Shop!vars PROVE ShopInv'
  <2> USE <1>2 DEF Shop!vars, Shop!screenVars, ShopInv, Jobs
  <2>1. ShopTyped'
    BY DEF ShopTyped, Loaded, Shop!Ledger, Shop!Unread, Shop!Order, Shop!Job
  <2>2. IdleJobs' /\ SheetBuys' /\ Granted' /\ OneAtATime'
    BY DEF IdleJobs, SheetBuys, Granted, OneAtATime, Shop!Recovering, Shop!Idle
  <2>3. Shop!PurchasingRuns' /\ Fresh'
    BY DEF Shop!PurchasingRuns, Shop!Buying, Fresh, Newest, Shop!Unread
  <2> QED
    BY <2>1, <2>2, <2>3
<1> QED
  BY <1>1, <1>2, ScreenStep, LoadStep, OutsideStep DEF Shop!Next, Shop!Loading

LEMMA ShopShows == ASSUME ShopInv PROVE Shop!StoresTrue
<1> USE DEF ShopInv, Jobs
<1>1. Shop!ToldIsGranted
  BY DEF Shop!ToldIsGranted, Granted
<1>2. Shop!OneRecovery
  <2> SUFFICES ASSUME platform = "toss" PROVE Cardinality(Shop!Recovering) <= 1
    BY DEF Shop!OneRecovery, Shop!Cardinality, Cardinality
  <2>1. CASE Shop!Recovering = {}
    BY <2>1, FS_EmptySet
  <2>2. ASSUME NEW s \in Shop!Recovering PROVE Cardinality(Shop!Recovering) <= 1
    <3>1. Shop!Recovering = {s}
      BY DEF OneAtATime
    <3> QED
      BY <3>1, FS_Singleton
  <2> QED
    BY <2>1, <2>2
<1>3. Shop!BalanceShown
  <2> SUFFICES ASSUME open, ~ trouble, loads = <<>>, Shop!Free = Slots PROVE balance = server
    BY DEF Shop!BalanceShown
  <2>1. \A s \in Slots : ~ Reloads(job[s])
    BY DEF Shop!Free, IdleJobs, Reloads, Shop!Idle
  <2> QED
    BY <2>1 DEF Fresh, Newest
<1> QED
  BY <1>1, <1>2, <1>3 DEF Shop!StoresTrue

(* What the stores are told is granted, one recovery runs on Toss at a time, a button that says  *)
(* a purchase is under way speaks of one that is, and a store with nothing under way shows the   *)
(* server's balance: for any accounts, orders and number of chains and loads at a time (the       *)
(* credit store of the three builds, CreditStoreScreen.tsx and its purchase hooks).              *)
THEOREM StoreIsTrue == ASSUME ShopAssumption PROVE Shop!Spec => []Shop!StoresTrue
<1>1. ShopInv /\ [Shop!Next]_Shop!vars => ShopInv'
  BY ShopStep
<1> QED
  BY <1>1, ShopStarts, ShopShows, PTL DEF Shop!Spec

-----------------------------------------------------------------------------
(* The steps of the app and the browser's history. *)
CONSTANT MaxEntries

VARIABLES
  step, panel, active, peer, creditReturnStep, profileEditReturnStep, entries, at, applying, lastKey
Page == INSTANCE Navigation

HistoryAssumption == MaxEntries \in Nat \ {0}

(* A page that the user went back to is being applied until its effects have run. *)
PageInv == Page!TypeOK /\ Page!PageIsScreen /\ (due = "popstate" => applying)

LEMMA PagesPushed ==
  ASSUME NEW S, NEW s \in Seq(S), NEW i \in 1..Len(s), NEW e \in S
  PROVE  LET t == Append(SubSeq(s, 1, i), e)
         IN  t \in Seq(S) /\ Len(t) = i + 1 /\ t[i + 1] = e
<1>1. SubSeq(s, 1, i) \in Seq(S) /\ Len(SubSeq(s, 1, i)) = i
  OBVIOUS
<1> QED
  BY <1>1

LEMMA ClickStep == ASSUME PageInv, Page!Clicks PROVE PageInv' /\ due' = "click" /\ UNCHANGED entries
<1> USE DEF PageInv, Page!TypeOK, Page!PageIsScreen, Page!pages, Page!returns, Page!On, Page!Go, Page!Steps
<1>1. CASE Page!openCredits
  BY <1>1 DEF Page!openCredits
<1>2. CASE Page!closeCredits
  BY <1>2 DEF Page!closeCredits, Page!resolveCreditReturnStep
<1>3. CASE Page!editAccount
  BY <1>3 DEF Page!editAccount
<1>4. CASE Page!exitProfileEdit
  BY <1>4 DEF Page!exitProfileEdit
<1>5. CASE Page!startNewCharacter
  BY <1>5 DEF Page!startNewCharacter
<1>6. CASE Page!visit
  BY <1>6 DEF Page!visit
<1>7. CASE Page!characterDeleted
  BY <1>7 DEF Page!characterDeleted
<1> QED
  BY <1>1, <1>2, <1>3, <1>4, <1>5, <1>6, <1>7 DEF Page!Clicks

(* Coming back to what a page stands for again changes nothing. *)
LEMMA StepsNormal ==
  ASSUME NEW s \in Page!Steps, NEW a \in BOOLEAN
  PROVE  /\ Page!normalizeSavedStep(s, a) \in Page!Steps \ {"dump", "confirm"}
         /\ Page!normalizeSavedStep(Page!normalizeSavedStep(s, TRUE), TRUE) = Page!normalizeSavedStep(s, TRUE)
  BY DEF Page!normalizeSavedStep, Page!stepFromPath, Page!Steps, Page!NeedsCharacter

LEMMA Returns ==
  ASSUME Page!TypeOK, NEW page \in Page!NavState
  PROVE  /\ Page!navStateFromUnknown(page) \in Page!NavState /\ Page!Returned(page) \in Page!NavState
         /\ Page!Returned(page).step \notin {"dump", "confirm"} /\ Page!Returned(page).panel = page.panel
         /\ active => Page!Returned(page) = Page!navStateFromUnknown(page)
<1> DEFINE known == Page!normalizeSavedStep(page.step, TRUE)
           shows == Page!normalizeSavedStep(known, active)
<1>1. page.step \in Page!Steps /\ page.panel \in BOOLEAN /\ active \in BOOLEAN
  BY DEF Page!NavState, Page!TypeOK
<1>2. known \in Page!Steps
  BY <1>1, StepsNormal
<1>3. shows \in Page!Steps \ {"dump", "confirm"}
  BY <1>1, <1>2, StepsNormal
<1>4. active => shows = known
  <2> SUFFICES ASSUME active PROVE shows = known
    OBVIOUS
  <2>1. active = TRUE
    BY <1>1
  <2> QED
    BY <1>1, <2>1, StepsNormal
<1>5. Page!navStateFromUnknown(page) = [step |-> known, panel |-> page.panel]
  <2>1. page = [step |-> page.step, panel |-> page.panel]
    BY DEF Page!NavState
  <2>2. Page!navStateFromUnknown(page) = [page EXCEPT !.step = known]
    BY DEF Page!navStateFromUnknown
  <2> HIDE DEF known
  <2> QED
    BY <2>1, <2>2
<1>6. Page!Returned(page) = [step |-> shows, panel |-> page.panel]
  <2>1. Page!navStateFromUnknown(page).step = known
    <3> HIDE DEF known
    <3> QED
      BY <1>5
  <2> QED
    BY <2>1 DEF Page!Returned
<1> HIDE DEF known, shows
<1> QED
  BY <1>1, <1>2, <1>3, <1>4, <1>5, <1>6 DEF Page!NavState

LEMMA BackStep ==
  ASSUME PageInv, NEW i \in 1..MaxEntries, Page!handlePopState(i)
  PROVE  PageInv' /\ due = "nothing" /\ UNCHANGED entries /\ step' \notin {"dump", "confirm"}
<1>1. /\ entries[i] \in Page!NavState /\ i \in 1..Len(entries) /\ due = "nothing" /\ ~ Page!StepBroken
      /\ at' = i /\ applying' = TRUE /\ lastKey' = Page!navStateFromUnknown(entries[i])
      /\ step' = Page!Returned(entries[i]).step /\ panel' = entries[i].panel
      /\ due' = "popstate" \/ (due' = "nothing" /\ UNCHANGED <<step, panel>>)
      /\ UNCHANGED <<active, peer, creditReturnStep, profileEditReturnStep, entries>>
  BY DEF PageInv, Page!TypeOK, Page!PageIsScreen, Page!handlePopState, Page!returns
<1> DEFINE page == Page!Returned(entries[i])
<1>2. /\ page \in Page!NavState /\ page.step \notin {"dump", "confirm"} /\ page.panel = entries[i].panel
      /\ lastKey' \in Page!NavState /\ (active => page = lastKey')
  BY <1>1, Returns DEF PageInv
<1>3. Page!Returned(entries[i])' = Page!Returned(entries[i])
  BY <1>1 DEF Page!Returned, Page!navStateFromUnknown
<1> HIDE DEF page
<1>4. page = [step |-> step', panel |-> panel'] /\ step' \in Page!Steps /\ panel' \in BOOLEAN
  BY <1>1, <1>2 DEF page, Page!NavState
<1>5. Page!navStateForHistory' = page
  BY <1>4 DEF Page!navStateForHistory
<1>6. Page!TypeOK'
  BY <1>1, <1>2, <1>4 DEF PageInv, Page!TypeOK
<1>7. due' = "nothing" => ~ Page!StepBroken'
  BY <1>1 DEF Page!StepBroken
<1>8. Page!Returned(entries[at])' = page
  BY <1>1 DEF page, Page!Returned, Page!navStateFromUnknown
<1>9. Page!PageIsScreen'
  BY <1>1, <1>2, <1>5, <1>7, <1>8 DEF Page!PageIsScreen
<1> QED
  BY <1>1, <1>2, <1>4, <1>6, <1>9 DEF PageInv

LEMMA Same ==
  ASSUME Page!PageIsScreen, UNCHANGED <<step, panel, active, peer, entries, at, lastKey, due>>
  PROVE  Page!PageIsScreen'
<1>1. Page!Returned(entries[at])' = Page!Returned(entries[at])
  BY DEF Page!Returned, Page!navStateFromUnknown
<1>2. Page!navStateForHistory' = Page!navStateForHistory /\ (Page!StepBroken' <=> Page!StepBroken)
  BY DEF Page!navStateForHistory, Page!StepBroken
<1> QED
  BY <1>1, <1>2 DEF Page!PageIsScreen

LEMMA DraftStep ==
  ASSUME PageInv, Page!writeDraft
  PROVE  PageInv' /\ due = "nothing" /\ UNCHANGED step /\ Len(entries') = Len(entries)
<1>1. /\ due = "nothing" /\ at' = at /\ entries' = [entries EXCEPT ![at] = Page!navStateForHistory]
      /\ UNCHANGED <<step, panel, active, peer, creditReturnStep, profileEditReturnStep, applying, lastKey, due>>
  BY DEF Page!writeDraft, Page!replaceState, Page!returns
<1>2. /\ Page!navStateForHistory \in Page!NavState /\ entries \in Seq(Page!NavState) /\ at \in 1..Len(entries)
      /\ ~ Page!StepBroken /\ (active => lastKey = Page!navStateForHistory)
  BY <1>1 DEF PageInv, Page!TypeOK, Page!PageIsScreen, Page!NavState, Page!navStateForHistory
<1>3. entries' \in Seq(Page!NavState) /\ Len(entries') = Len(entries) /\ entries'[at] = Page!navStateForHistory
  BY <1>1, <1>2
<1>4. Page!navStateForHistory' = Page!navStateForHistory /\ ~ Page!StepBroken'
  BY <1>1, <1>2 DEF Page!navStateForHistory, Page!StepBroken
<1>5. Page!TypeOK'
  BY <1>1, <1>3 DEF PageInv, Page!TypeOK
<1>6. Page!PageIsScreen'
  BY <1>1, <1>2, <1>3, <1>4 DEF Page!PageIsScreen
<1> QED
  BY <1>1, <1>3, <1>5, <1>6 DEF PageInv

LEMMA EffectsStep ==
  ASSUME HistoryAssumption, PageInv, Page!effects
  PROVE  /\ PageInv' /\ due # "nothing" /\ due' # "popstate"
         /\ due = "popstate" => at' = at /\ Len(entries') = Len(entries)
         /\ step' # step => step' = "home"
<1> DEFINE key == [step |-> step, panel |-> panel]
<1>1. key \in Page!NavState
  BY DEF PageInv, Page!TypeOK, Page!NavState
<1>2. /\ entries' \in Seq(Page!NavState) /\ at' \in 1..Len(entries') /\ Len(entries') <= MaxEntries
      /\ entries'[at'] = key /\ (applying => at' = at /\ Len(entries') = Len(entries))
  <2>1. CASE Page!pushState /\ ~ applying
    <3>1. entries \in Seq(Page!NavState) /\ at \in 1..Len(entries) /\ at < MaxEntries
      BY <2>1 DEF Page!pushState, PageInv, Page!TypeOK
    <3>2. at' = at + 1 /\ entries' = Append(SubSeq(entries, 1, at), key)
      BY <2>1 DEF Page!pushState, Page!navStateForHistory
    <3>3. entries' \in Seq(Page!NavState) /\ Len(entries') = at + 1 /\ entries'[at + 1] = key
      BY <1>1, <3>1, <3>2, PagesPushed
    <3> HIDE DEF key
    <3> QED
      BY <2>1, <3>1, <3>2, <3>3 DEF HistoryAssumption
  <2>2. CASE Page!replaceState
    BY <1>1, <2>2 DEF Page!replaceState, Page!navStateForHistory, PageInv, Page!TypeOK
  <2> QED
    BY <2>1, <2>2 DEF Page!effects, Page!writeHistory
<1>3. lastKey' = key /\ UNCHANGED <<panel, active, applying, creditReturnStep, profileEditReturnStep>>
  BY DEF Page!effects, Page!navStateForHistory, Page!returns
<1>4. due # "nothing"
  BY DEF Page!effects
<1>5. CASE Page!StepBroken
  <2>1. step' = "home" /\ peer' = FALSE /\ due' = "redirect"
    BY <1>5 DEF Page!effects, Page!guardStep
  <2> QED
    BY <1>1, <1>2, <1>3, <1>4, <2>1 DEF PageInv, Page!TypeOK, Page!PageIsScreen, Page!Steps
<1>6. CASE ~ Page!StepBroken
  <2>1. due' = "nothing" /\ UNCHANGED <<step, peer>>
    BY <1>6 DEF Page!effects, Page!guardStep
  <2>2. ~ Page!StepBroken' /\ Page!navStateForHistory' = key
    BY <1>3, <1>6, <2>1 DEF Page!StepBroken, Page!navStateForHistory
  <2>3. Page!PageIsScreen'
    BY <1>2, <1>3, <2>1, <2>2 DEF Page!PageIsScreen
  <2> QED
    BY <1>1, <1>2, <1>3, <1>4, <2>1, <2>3 DEF PageInv, Page!TypeOK
<1> QED
  BY <1>5, <1>6

LEMMA PagesStart == ASSUME HistoryAssumption, Page!Init PROVE PageInv
<1>1. step \in Page!Steps /\ (step = "dm" => FALSE) /\ (step \in Page!NeedsCharacter => active)
  BY DEF Page!Init, Page!stepFromPath, Page!Steps, Page!NeedsCharacter
<1>2. Page!navStateForHistory \in Page!NavState
  BY <1>1 DEF Page!Init, Page!navStateForHistory, Page!NavState
<1>3. entries = <<Page!navStateForHistory>> /\ at = 1 /\ lastKey = Page!navStateForHistory
  BY DEF Page!Init
<1>4. entries \in Seq(Page!NavState) /\ Len(entries) = 1 /\ entries[at] = Page!navStateForHistory
  BY <1>2, <1>3
<1>5. /\ panel = FALSE /\ active \in BOOLEAN /\ peer = FALSE /\ creditReturnStep = "home"
      /\ profileEditReturnStep = "home" /\ applying = FALSE /\ due = "nothing"
  BY DEF Page!Init
<1>6. ~ Page!StepBroken /\ "home" \in Page!Steps
  BY <1>1 DEF Page!StepBroken, Page!Steps
<1>7. Page!TypeOK
  <2>1. at \in 1..Len(entries) /\ Len(entries) <= MaxEntries
    BY <1>3, <1>4 DEF HistoryAssumption
  <2>2. lastKey \in Page!NavState
    BY <1>2, <1>3
  <2> QED
    BY <1>1, <1>4, <1>5, <1>6, <2>1, <2>2 DEF Page!TypeOK
<1> QED
  BY <1>3, <1>4, <1>5, <1>6, <1>7 DEF PageInv, Page!PageIsScreen

(* Whatever clicks, redirects, and steps back and forward: the page in front is the screen, or one *)
(* that the user came back to and that stands for the screen that was there already; going back    *)
(* never makes a page or cuts off those in front, and no setup screen is reached by it.            *)
THEOREM PagesAreScreens ==
  ASSUME HistoryAssumption
  PROVE  Page!Spec => []Page!PageIsScreen /\ Page!BackKeepsPages /\ Page!SetupOnlyByClick
<1>1. PageInv /\ [Page!Next]_Page!navVars =>
        PageInv' /\ [Page!BackKeepsPagesStep]_Page!navVars /\ [Page!SetupOnlyByClickStep]_Page!navVars
  <2> SUFFICES ASSUME PageInv, [Page!Next]_Page!navVars
               PROVE  PageInv' /\ ((Page!BackKeepsPagesStep /\ Page!SetupOnlyByClickStep) \/ UNCHANGED Page!navVars)
    OBVIOUS
  <2> USE DEF Page!BackKeepsPagesStep, Page!SetupOnlyByClickStep
  <2>1. CASE Page!Clicks
    <3>1. due = "nothing"
      BY <2>1 DEF Page!Clicks, Page!On, Page!openCredits, Page!closeCredits, Page!editAccount, Page!exitProfileEdit,
                  Page!startNewCharacter, Page!visit, Page!characterDeleted
    <3> QED
      BY <2>1, <3>1, ClickStep
  <2>2. CASE Page!applied
    <3>1. /\ applying' = FALSE /\ due # "popstate"
          /\ UNCHANGED <<step, panel, active, peer, creditReturnStep, profileEditReturnStep, entries, at, lastKey, due>>
      BY <2>2 DEF Page!applied, Page!returns
    <3>2. Page!TypeOK' /\ Page!PageIsScreen'
      BY <3>1, Same DEF PageInv, Page!TypeOK
    <3> QED
      BY <3>1, <3>2 DEF PageInv
  <2>3. CASE Page!effects
    BY <2>3, EffectsStep
  <2>4. ASSUME NEW i \in 1..MaxEntries, Page!handlePopState(i)
        PROVE  PageInv' /\ Page!BackKeepsPagesStep /\ Page!SetupOnlyByClickStep
    BY <2>4, BackStep
  <2>5. CASE UNCHANGED Page!navVars
    <3>1. UNCHANGED <<step, panel, active, peer, creditReturnStep, profileEditReturnStep, entries, at, applying, lastKey, due>>
      BY <2>5 DEF Page!navVars
    <3>2. Page!TypeOK' /\ Page!PageIsScreen'
      BY <3>1, Same DEF PageInv, Page!TypeOK
    <3> QED
      BY <2>5, <3>1, <3>2 DEF PageInv
  <2>6. CASE Page!writeDraft
    BY <2>6, DraftStep
  <2> QED
    BY <2>1, <2>2, <2>3, <2>4, <2>5, <2>6 DEF Page!Next
<1>2. PageInv => Page!PageIsScreen
  BY DEF PageInv
<1> QED
  BY <1>1, <1>2, PagesStart, PTL DEF Page!Spec, Page!BackKeepsPages, Page!SetupOnlyByClick

-----------------------------------------------------------------------------
(* Terms, blocks and reports. *)
CONSTANTS Strangers, Targets, MaxAsked

VARIABLES
  consentAccepted, consentLoaded, safetyLoadFailed, blockedUserIds, reportTarget,
  requests, asked, consents, blocks, reports, strayed
Safety == INSTANCE SafetyGate

GateAssumption == None \notin Users \cup Targets /\ MaxAsked \in Nat

(* What is on its way was served as the server is, and what the screen has of a user it has from *)
(* such answers.                                                                                 *)
ServedTrue ==
  \A r \in requests : r.at = "served" =>
    /\ r.kind = "load" => (r.accepted => r.user \in consents) /\ r.blocked \subseteq blocks[r.user]
    /\ r.kind = "accept" => r.user \in consents
    /\ r.kind = "block" => r.on \in blocks[r.user]
ShownTrue ==
  ~ strayed /\ session # None /\ consentLoaded =>
    (consentAccepted => session \in consents) /\ blockedUserIds \subseteq blocks[session]
(* The newest load is of the user on the screen, as long as that user waits for it. *)
LatestLoad(r) == r.kind = "load" /\ r.user = session /\ Safety!LastLoad(r)
LoadComes == session # None /\ ~ consentLoaded => safetyLoadFailed \/ \E r \in requests : LatestLoad(r)
Numbered == \A r \in requests : r.number <= asked
Aimed == \A r \in requests : (r.kind = "block" => r.on \in Strangers) /\ (r.kind = "report" => r.on \in Targets)
GateInv == Safety!TypeOK /\ Numbered /\ Aimed /\ ServedTrue /\ ShownTrue /\ LoadComes

LEMMA NewRequest ==
  ASSUME GateAssumption, Safety!TypeOK, Numbered, NEW kind \in {"load", "accept", "block", "report"}, NEW u \in Users,
         NEW on \in Strangers \cup Targets \cup {None}, Safety!Ask(kind, u, on)
  PROVE  /\ requests' \subseteq Safety!Request /\ asked' \in 0..MaxAsked
         /\ \A r \in requests' : r.number <= asked'
         /\ \A r \in requests' \ requests : r.at = "asked" /\ r.kind = kind /\ r.on = on
         /\ kind = "load" => \E r \in requests' :
              r.kind = "load" /\ r.user = u /\ \A q \in requests' : q.kind = "load" => q.number <= r.number
         /\ requests \subseteq requests'
<1> DEFINE new == [number |-> asked + 1, kind |-> kind, user |-> u, on |-> on, at |-> "asked",
                   accepted |-> FALSE, blocked |-> {}]
<1>1. asked \in Nat /\ asked + 1 \in 1..MaxAsked /\ asked' = asked + 1
  BY DEF GateAssumption, Safety!TypeOK, Safety!Ask
<1>2. new \in Safety!Request
  BY <1>1 DEF Safety!Request
<1>3. requests' = requests \cup {new}
  BY DEF Safety!Ask
<1>4. new.number = asked + 1 /\ new.kind = kind /\ new.user = u /\ new.at = "asked" /\ new.on = on
  OBVIOUS
<1>5. \A r \in requests : r.number \in Nat /\ r.number <= asked
  BY DEF Safety!TypeOK, Safety!Request, Numbered
<1> HIDE DEF new
<1> QED
  BY <1>1, <1>2, <1>3, <1>4, <1>5 DEF Safety!TypeOK

(* A request more, that nobody has served, and the screen as it was. *)
LEMMA GateAsked ==
  ASSUME GateAssumption, GateInv, NEW kind \in {"accept", "block", "report"},
         NEW on \in Strangers \cup Targets \cup {None},
         kind = "block" => on \in Strangers, kind = "report" => on \in Targets, session # None, Safety!Ask(kind, session, on),
         UNCHANGED <<session, consentAccepted, consentLoaded, safetyLoadFailed, blockedUserIds, reportTarget,
                     consents, blocks, reports, strayed>>
  PROVE  GateInv'
<1>1. session \in Users
  BY DEF GateInv, Safety!TypeOK
<1>2. /\ requests' \subseteq Safety!Request /\ asked' \in 0..MaxAsked /\ Numbered'
      /\ \A r \in requests' \ requests : r.at = "asked" /\ r.kind = kind /\ r.on = on
      /\ requests \subseteq requests'
  BY <1>1, NewRequest DEF GateInv, Numbered
<1>3. Safety!TypeOK'
  BY <1>2 DEF GateInv, Safety!TypeOK
<1>4. ServedTrue'
  BY <1>2 DEF GateInv, ServedTrue
<1>5. LoadComes'
  BY <1>2 DEF GateInv, LoadComes, LatestLoad, Safety!LastLoad
<1>6. ShownTrue'
  BY DEF GateInv, ShownTrue
<1>7. Aimed'
  BY <1>2 DEF GateInv, Aimed
<1> QED
  BY <1>2, <1>3, <1>4, <1>5, <1>6, <1>7 DEF GateInv

LEMMA GateLoads ==
  ASSUME GateAssumption, GateInv, NEW u \in Users, Safety!LoadSafety(u), session' = u,
         UNCHANGED <<reportTarget, consents, blocks, reports, strayed>>
  PROVE  GateInv'
<1>1. /\ Safety!Ask("load", u, None) /\ consentLoaded' = FALSE /\ safetyLoadFailed' = FALSE
      /\ UNCHANGED <<consentAccepted, blockedUserIds>>
  BY DEF Safety!LoadSafety
<1>2. /\ requests' \subseteq Safety!Request /\ asked' \in 0..MaxAsked /\ Numbered'
      /\ \A r \in requests' \ requests : r.at = "asked" /\ r.kind = "load"
      /\ \E r \in requests' :
           r.kind = "load" /\ r.user = u /\ \A q \in requests' : q.kind = "load" => q.number <= r.number
  BY <1>1, NewRequest DEF GateInv, Numbered
<1>3. Safety!TypeOK'
  BY <1>1, <1>2 DEF GateInv, Safety!TypeOK
<1>4. ServedTrue'
  BY <1>2 DEF GateInv, ServedTrue
<1>5. LoadComes'
  BY <1>2 DEF LoadComes, LatestLoad, Safety!LastLoad
<1>6. ShownTrue'
  BY <1>1 DEF ShownTrue
<1>7. Aimed'
  BY <1>2 DEF GateInv, Aimed
<1> QED
  BY <1>2, <1>3, <1>4, <1>5, <1>6, <1>7 DEF GateInv

LEMMA GateServed == ASSUME GateInv, NEW r \in requests, Safety!serve(r) PROVE GateInv'
<1>1. r \in Safety!Request /\ r.at = "asked" /\ r.user \in Users /\ blocks[r.user] \in SUBSET Strangers
  BY DEF GateInv, Safety!TypeOK, Safety!Request, Safety!serve
<1>2. PICK s : /\ s = [r EXCEPT !.at = "served", !.accepted = r.kind = "load" /\ r.user \in consents,
                                !.blocked = IF r.kind = "load" THEN blocks[r.user] ELSE {}]
               /\ requests' = (requests \ {r}) \cup {s}
  BY DEF Safety!serve
<1>3. /\ s.number = r.number /\ s.kind = r.kind /\ s.user = r.user /\ s.on = r.on
      /\ s.accepted = (r.kind = "load" /\ r.user \in consents)
      /\ s.blocked = (IF r.kind = "load" THEN blocks[r.user] ELSE {})
  BY <1>1, <1>2 DEF Safety!Request
<1>4. s \in Safety!Request
  <2>1. (r.kind = "load" /\ r.user \in consents) \in BOOLEAN
        /\ (IF r.kind = "load" THEN blocks[r.user] ELSE {}) \in SUBSET Strangers
    BY <1>1
  <2> QED
    BY <1>1, <1>2, <2>1 DEF Safety!Request
<1>5. UNCHANGED <<session, consentAccepted, consentLoaded, safetyLoadFailed, blockedUserIds, reportTarget, asked, strayed>>
  BY DEF Safety!serve, Safety!shownVars
<1>6. /\ consents' = (IF r.kind = "accept" THEN consents \cup {r.user} ELSE consents)
      /\ blocks' = (IF r.kind = "block" THEN [blocks EXCEPT ![r.user] = @ \cup {r.on}] ELSE blocks)
      /\ reports' = (IF r.kind = "report" THEN reports \cup {r.on} ELSE reports)
  BY DEF Safety!serve
<1>7. consents \subseteq consents' /\ \A u \in Users : blocks[u] \subseteq blocks'[u]
  BY <1>1, <1>6 DEF GateInv, Safety!TypeOK
<1>8. ServedTrue'
  <2>1. s.kind = "accept" => s.user \in consents'
    BY <1>3, <1>6
  <2>2. s.kind = "block" => s.on \in blocks'[s.user]
    BY <1>1, <1>3, <1>6 DEF GateInv, Safety!TypeOK
  <2>3. s.kind = "load" => (s.accepted => s.user \in consents') /\ s.blocked \subseteq blocks'[s.user]
    BY <1>1, <1>3, <1>7
  <2>4. \A q \in requests : q.user \in Users
    BY DEF GateInv, Safety!TypeOK, Safety!Request
  <2> QED
    BY <1>2, <1>7, <2>1, <2>2, <2>3, <2>4 DEF GateInv, ServedTrue
<1>9. ShownTrue'
  BY <1>5, <1>7 DEF GateInv, ShownTrue, Safety!TypeOK
<1>10. LoadComes'
  <2> SUFFICES ASSUME session # None, ~ consentLoaded, ~ safetyLoadFailed PROVE \E q \in requests' : LatestLoad(q)'
    BY <1>5 DEF LoadComes
  <2>1. PICK q \in requests : LatestLoad(q)
    BY DEF GateInv, LoadComes
  <2>2. CASE q = r
    <3>1. LatestLoad(s)'
      BY <1>2, <1>3, <1>5, <2>1, <2>2 DEF LatestLoad, Safety!LastLoad
    <3> QED
      BY <1>2, <3>1
  <2>3. CASE q # r
    <3>1. LatestLoad(q)'
      BY <1>2, <1>3, <1>5, <2>1, <2>3 DEF LatestLoad, Safety!LastLoad
    <3> QED
      BY <1>2, <2>1, <2>3, <3>1
  <2> QED
    BY <2>2, <2>3
<1>11. Numbered'
  BY <1>2, <1>3, <1>5 DEF GateInv, Numbered
<1>12. Aimed'
  BY <1>2, <1>3 DEF GateInv, Aimed
<1>13. Safety!TypeOK'
  <2>1. consents' \subseteq Users
    BY <1>1, <1>6 DEF GateInv, Safety!TypeOK
  <2> QED
    <3>1. requests' \subseteq Safety!Request
      BY <1>2, <1>4 DEF GateInv, Safety!TypeOK
    <3>2. blocks' \in [Users -> SUBSET Strangers]
      BY <1>1, <1>6 DEF GateInv, Safety!TypeOK, Aimed
    <3>3. reports' \subseteq Targets
      BY <1>1, <1>6 DEF GateInv, Safety!TypeOK, Aimed
    <3> QED
      BY <1>5, <2>1, <3>1, <3>2, <3>3 DEF GateInv, Safety!TypeOK
<1> QED
  BY <1>8, <1>9, <1>10, <1>11, <1>12, <1>13 DEF GateInv

(* A request less: the newest load stays the newest unless it is the one that ended. *)
LEMMA EndedStep ==
  ASSUME GateInv, NEW r \in requests, requests' = requests \ {r},
         UNCHANGED <<session, asked, consents, blocks, reports>>
  PROVE  /\ requests' \subseteq Safety!Request /\ Numbered' /\ Aimed' /\ ServedTrue'
         /\ ~ LatestLoad(r) /\ UNCHANGED <<consentLoaded, safetyLoadFailed>> => LoadComes'
<1>1. \A q \in requests : q # r /\ LatestLoad(q) => q \in requests' /\ LatestLoad(q)'
  BY DEF LatestLoad, Safety!LastLoad
<1> QED
  BY <1>1 DEF GateInv, Safety!TypeOK, Numbered, Aimed, ServedTrue, LoadComes

LEMMA GateAnswered ==
  ASSUME GateInv, NEW r \in requests,
         Safety!loaded(r) \/ Safety!accepted(r) \/ Safety!blocked(r) \/ Safety!reported(r) \/ Safety!failed(r)
  PROVE  GateInv'
<1> USE DEF Safety!Answered, Safety!serverVars, Safety!shownVars
<1>1. r \in Safety!Request /\ requests' = requests \ {r} /\ UNCHANGED <<session, asked, consents, blocks, reports>>
  BY DEF GateInv, Safety!TypeOK, Safety!loaded, Safety!accepted, Safety!blocked, Safety!reported, Safety!failed
<1>2. /\ requests' \subseteq Safety!Request /\ Numbered' /\ Aimed' /\ ServedTrue'
      /\ ~ LatestLoad(r) /\ UNCHANGED <<consentLoaded, safetyLoadFailed>> => LoadComes'
  BY <1>1, EndedStep
<1>3. r.kind = "block" => r.on \in Strangers
  BY DEF GateInv, Aimed
<1>4. r.kind # "load" => ~ LatestLoad(r)
  BY DEF LatestLoad
<1>5. CASE Safety!loaded(r)
  <2>1. Safety!TypeOK'
    BY <1>1, <1>2, <1>5 DEF Safety!loaded, GateInv, Safety!TypeOK, Safety!Request
  <2>2. ShownTrue' /\ LoadComes'
    BY <1>1, <1>5 DEF Safety!loaded, GateInv, ServedTrue, ShownTrue, LoadComes
  <2> QED
    BY <1>2, <2>1, <2>2 DEF GateInv
<1>6. CASE Safety!accepted(r)
  <2>1. Safety!TypeOK'
    BY <1>1, <1>2, <1>6 DEF Safety!accepted, GateInv, Safety!TypeOK
  <2>2. ShownTrue' /\ LoadComes'
    BY <1>1, <1>2, <1>4, <1>6 DEF Safety!accepted, GateInv, ServedTrue, ShownTrue
  <2> QED
    BY <1>2, <2>1, <2>2 DEF GateInv
<1>7. CASE Safety!blocked(r)
  <2>1. Safety!TypeOK'
    BY <1>1, <1>2, <1>3, <1>7 DEF Safety!blocked, GateInv, Safety!TypeOK
  <2>2. ShownTrue' /\ LoadComes'
    BY <1>1, <1>2, <1>4, <1>7 DEF Safety!blocked, GateInv, ServedTrue, ShownTrue
  <2> QED
    BY <1>2, <2>1, <2>2 DEF GateInv
<1>8. CASE Safety!reported(r)
  <2>1. Safety!TypeOK'
    BY <1>1, <1>2, <1>8 DEF Safety!reported, GateInv, Safety!TypeOK
  <2>2. ShownTrue' /\ LoadComes'
    BY <1>1, <1>2, <1>4, <1>8 DEF Safety!reported, GateInv, ShownTrue
  <2> QED
    BY <1>2, <2>1, <2>2 DEF GateInv
<1>9. CASE Safety!failed(r)
  <2>1. Safety!TypeOK' /\ ShownTrue'
    BY <1>1, <1>2, <1>9 DEF Safety!failed, GateInv, Safety!TypeOK, ShownTrue
  <2>2. LoadComes'
    <3>1. UNCHANGED <<session, consentLoaded>>
      BY <1>9 DEF Safety!failed
    <3>2. CASE consentLoaded \/ safetyLoadFailed'
      BY <3>1, <3>2 DEF LoadComes
    <3>3. CASE ~ consentLoaded /\ ~ safetyLoadFailed'
      <4>1. safetyLoadFailed' = (safetyLoadFailed \/ LatestLoad(r)) /\ safetyLoadFailed \in BOOLEAN
        BY <1>9, <3>3, Zenon DEF Safety!failed, LatestLoad, GateInv, Safety!TypeOK
      <4>2. ~ LatestLoad(r) /\ UNCHANGED safetyLoadFailed
        BY <3>3, <4>1
      <4> QED
        BY <1>2, <3>1, <4>2
    <3> QED
      BY <3>2, <3>3
  <2> QED
    BY <1>2, <2>1, <2>2 DEF GateInv
<1> QED
  BY <1>5, <1>6, <1>7, <1>8, <1>9

LEMMA GateStep == ASSUME GateAssumption, GateInv, [Safety!Next]_Safety!safetyVars PROVE GateInv'
<1> USE DEF Safety!serverVars, Safety!shownVars
<1>1. ASSUME NEW u \in Users, Safety!signIn(u) PROVE GateInv'
  BY <1>1, GateLoads DEF Safety!signIn
<1>2. CASE Safety!retrySafetyState
  <2>1. session \in Users
    BY <1>2 DEF Safety!retrySafetyState, GateInv, Safety!TypeOK
  <2> QED
    BY <1>2, <2>1, GateLoads DEF Safety!retrySafetyState
<1>3. CASE Safety!signOut
  <2>1. /\ session' = None /\ consentAccepted' = FALSE /\ blockedUserIds' = {} /\ consentLoaded' = TRUE
        /\ safetyLoadFailed' = FALSE
        /\ UNCHANGED <<reportTarget, requests, asked, consents, blocks, reports, strayed>>
    BY <1>3 DEF Safety!signOut
  <2> QED
    BY <2>1 DEF GateInv, Safety!TypeOK, Numbered, Aimed, ServedTrue, ShownTrue, LoadComes
<1>4. CASE Safety!acceptTerms
  BY <1>4, GateAsked DEF Safety!acceptTerms
<1>5. CASE Safety!submitReport
  <2>1. reportTarget \in Targets
    BY <1>5 DEF Safety!submitReport, GateInv, Safety!TypeOK
  <2> QED
    BY <1>5, <2>1, GateAsked DEF Safety!submitReport, Safety!canUseApp
<1>6. ASSUME NEW s \in Strangers, Safety!blockUser(s) PROVE GateInv'
  BY <1>6, GateAsked DEF Safety!blockUser, Safety!canUseApp
<1>7. ASSUME NEW t \in Targets \cup {None}, Safety!setReportTarget(t) PROVE GateInv'
  BY <1>7 DEF Safety!setReportTarget, GateInv, Safety!TypeOK, Numbered, Aimed, ServedTrue, ShownTrue, LoadComes,
              LatestLoad, Safety!LastLoad
<1>8. ASSUME NEW r \in requests, Safety!serve(r) PROVE GateInv'
  BY <1>8, GateServed
<1>9. ASSUME NEW r \in requests,
             Safety!loaded(r) \/ Safety!accepted(r) \/ Safety!blocked(r) \/ Safety!reported(r) \/ Safety!failed(r)
      PROVE  GateInv'
  BY <1>9, GateAnswered
<1>10. CASE UNCHANGED Safety!safetyVars
  BY <1>10 DEF Safety!safetyVars, GateInv, Safety!TypeOK, Numbered, Aimed, ServedTrue, ShownTrue, LoadComes,
               LatestLoad, Safety!LastLoad
<1> QED
  BY <1>1, <1>2, <1>3, <1>4, <1>5, <1>6, <1>7, <1>8, <1>9, <1>10 DEF Safety!Next

(* Only an answer changes who is blocked for a user that stays: a block adds one, and a load comes *)
(* when nothing is shown yet.                                                                      *)
LEMMA BlocksKept == ASSUME GateInv, [Safety!Next]_Safety!safetyVars PROVE Safety!BlocksStayStep
<1> SUFFICES ASSUME session' = session, session # None, consentLoaded, ~ strayed'
             PROVE  blockedUserIds \subseteq blockedUserIds'
  BY DEF Safety!BlocksStayStep
<1> USE DEF Safety!serverVars, Safety!shownVars
<1>1. ASSUME NEW u \in Users, Safety!signIn(u) PROVE FALSE
  BY <1>1 DEF Safety!signIn
<1>2. CASE Safety!retrySafetyState \/ Safety!acceptTerms \/ Safety!submitReport \/ UNCHANGED Safety!safetyVars
  BY <1>2 DEF Safety!retrySafetyState, Safety!acceptTerms, Safety!submitReport, Safety!safetyVars, Safety!LoadSafety
<1>3. CASE Safety!signOut
  BY <1>3 DEF Safety!signOut
<1>4. ASSUME NEW s, Safety!blockUser(s) \/ Safety!setReportTarget(s) PROVE UNCHANGED blockedUserIds
  BY <1>4 DEF Safety!blockUser, Safety!setReportTarget
<1>5. ASSUME NEW r \in requests,
             \/ Safety!serve(r) \/ Safety!loaded(r) \/ Safety!accepted(r) \/ Safety!blocked(r)
             \/ Safety!reported(r) \/ Safety!failed(r)
      PROVE  blockedUserIds \subseteq blockedUserIds'
  BY <1>5 DEF Safety!serve, Safety!loaded, Safety!accepted, Safety!blocked, Safety!reported, Safety!failed
<1> QED
  BY <1>1, <1>2, <1>3, <1>4, <1>5 DEF Safety!Next

(* Whatever is asked, served, lost and answered late: until an answer meets another user, the app *)
(* is open only to who has accepted the terms, and who was blocked stays hidden; a user who waits  *)
(* for the first load has it on its way or can try again.                                         *)
THEOREM GateIsTrue ==
  ASSUME GateAssumption
  PROVE  Safety!Spec => []Safety!GateTrue /\ Safety!BlocksStay
<1>1. Safety!Init => GateInv
  <2> SUFFICES ASSUME Safety!Init PROVE GateInv
    OBVIOUS
  <2>1. session = None /\ consentLoaded = TRUE /\ requests = {}
    BY DEF Safety!Init
  <2>2. consentAccepted \in BOOLEAN /\ consentLoaded \in BOOLEAN /\ safetyLoadFailed \in BOOLEAN /\ strayed \in BOOLEAN
    BY Zenon DEF Safety!Init
  <2>3. session \in Users \cup {None} /\ reportTarget \in Targets \cup {None} /\ consents \subseteq Users
    BY Zenon DEF Safety!Init
  <2>4. blockedUserIds \subseteq Strangers /\ requests \subseteq Safety!Request /\ reports \subseteq Targets
    BY Zenon DEF Safety!Init
  <2>5. asked \in 0..MaxAsked /\ blocks \in [Users -> SUBSET Strangers]
    BY DEF Safety!Init, GateAssumption
  <2>6. Safety!TypeOK
    BY <2>2, <2>3, <2>4, <2>5, Zenon DEF Safety!TypeOK
  <2> QED
    BY <2>1, <2>6 DEF GateInv, Numbered, Aimed, ServedTrue, ShownTrue, LoadComes
<1>2. GateInv /\ [Safety!Next]_Safety!safetyVars => GateInv' /\ [Safety!BlocksStayStep]_Safety!safetyVars
  BY GateStep, BlocksKept
<1>3. GateInv => Safety!GateTrue
  BY DEF GateInv, Safety!GateTrue, Safety!canUseApp, ShownTrue, LoadComes, LatestLoad
<1> QED
  BY <1>1, <1>2, <1>3, PTL DEF Safety!Spec, Safety!BlocksStay

-----------------------------------------------------------------------------
(* What the displays show of a balance. *)
CONSTANTS Flows, Unknown, Policy, Hints, Balance

VARIABLES mounted, statusFlow, catalogRequest, hints, answered, stale, unheard
Credits == INSTANCE CreditDisplays

(* No flow of the server's table takes energy and costs no credits. *)
DisplayAssumption ==
  /\ MaxAsked \in Nat /\ Balance \subseteq [energy : Nat, bonus : Nat, purchased : Nat]
  /\ Policy \in [Flows -> [credits : Nat, energy : Nat, energyAllowed : BOOLEAN, bonusAllowed : BOOLEAN]]
  /\ \A f \in Flows : Policy[f].credits = 0 => Policy[f].energy = 0
  /\ Unknown \notin Flows /\ Credits!Nothing \notin Flows

DisplayTypes ==
  /\ balance \in Balance /\ statusFlow \in Flows /\ mounted \subseteq Credits!Displays
  /\ shown \in [Credits!Displays -> SUBSET Balance]
  /\ requests \subseteq Credits!Request /\ asked \in 0..MaxAsked
  /\ answered \in [Credits!Displays -> 0..MaxAsked]
DisplayNumbers == (\A r \in requests : r.number <= asked) /\ \A d \in Credits!Displays : answered[d] <= asked
(* The latest request of a display is on its way, and brings the balance of now or an error... *)
Latest(d, r) ==
  /\ r \in requests /\ r.by = d /\ answered[d] < r.number
  /\ r.at = "served" => r.answer \subseteq {balance}
  /\ \A q \in requests : q.by = d /\ q # r => q.number < r.number
(* ... or it was answered, and what is still on its way is older. *)
Settled(d) ==
  /\ d \in stale \/ shown[d] = {balance}
  /\ \A q \in requests : q.by = d => q.number < answered[d]
Told(d) == (\E r \in requests : Latest(d, r)) \/ Settled(d)
DisplayInv == DisplayTypes /\ DisplayNumbers /\ \A d \in mounted \ unheard : Told(d)

HintInv ==
  /\ hints \in [Hints -> Credits!Hint] /\ catalogRequest \in {"none", "asked", "loaded"}
  /\ Credits!HintsEnd

(* A display that asks now has the latest request on its way. *)
LEMMA AskedIsLatest ==
  ASSUME DisplayTypes, DisplayNumbers, asked' = asked + 1, NEW d \in Credits!Displays, answered' = answered,
         Credits!Asked(d, asked + 1) \in requests',
         \A r \in requests' : r.by = d => r \in requests \/ r = Credits!Asked(d, asked + 1)
  PROVE  Told(d)'
<1>1. PICK new : new = Credits!Asked(d, asked + 1)
  OBVIOUS
<1>2. new.number = asked + 1 /\ new.by = d /\ new.at = "asked" /\ new \in requests'
  BY <1>1 DEF Credits!Asked
<1>3. asked \in Nat /\ answered[d] \in Nat /\ answered[d] <= asked
  BY DEF DisplayTypes, DisplayNumbers
<1>4. \A q \in requests : q.number \in Nat /\ q.number <= asked
  BY DEF DisplayTypes, DisplayNumbers, Credits!Request
<1>5. Latest(d, new)'
  BY <1>1, <1>2, <1>3, <1>4 DEF Latest
<1> QED
  BY <1>2, <1>5 DEF Told

(* What a display has is told of it as long as nothing of its own changes. *)
LEMMA ToldStays ==
  ASSUME NEW d, Told(d), balance' = balance, shown'[d] = shown[d], answered'[d] = answered[d], d \in stale => d \in stale',
         \A r \in requests \cup requests' : r.by = d => (r \in requests <=> r \in requests')
  PROVE  Told(d)'
<1>1. ASSUME NEW r \in requests, Latest(d, r) PROVE Latest(d, r)' /\ r \in requests'
  BY <1>1 DEF Latest
<1>2. Settled(d) => Settled(d)'
  BY DEF Settled
<1> QED
  BY <1>1, <1>2 DEF Told

LEMMA AskTyped ==
  ASSUME DisplayAssumption, DisplayTypes, DisplayNumbers, asked < MaxAsked, asked' = asked + 1, answered' = answered,
         NEW who \in SUBSET Credits!Displays,
         requests' \subseteq requests \cup {Credits!Asked(d, asked + 1) : d \in who}
  PROVE  requests' \subseteq Credits!Request /\ asked' \in 0..MaxAsked /\ DisplayNumbers'
<1>1. asked \in Nat /\ MaxAsked \in Nat /\ asked + 1 \in 1..MaxAsked
  BY DEF DisplayAssumption, DisplayTypes
<1>2. \A d \in who : Credits!Asked(d, asked + 1) \in Credits!Request /\ Credits!Asked(d, asked + 1).number = asked + 1
  BY <1>1 DEF Credits!Asked, Credits!Request
<1>3. \A r \in requests : r.number \in Nat /\ r.number <= asked
  BY DEF DisplayTypes, DisplayNumbers, Credits!Request
<1>4. \A d \in Credits!Displays : answered[d] \in Nat /\ answered[d] <= asked
  BY DEF DisplayTypes, DisplayNumbers
<1>5. \A r \in requests' : r.number <= asked'
  BY <1>1, <1>2, <1>3
<1>6. \A d \in Credits!Displays : answered'[d] <= asked'
  BY <1>1, <1>4
<1> QED
  BY <1>1, <1>2, <1>5, <1>6 DEF DisplayTypes, DisplayNumbers

LEMMA AppearsStep ==
  ASSUME DisplayAssumption, DisplayInv, NEW d \in Credits!Displays, Credits!appears(d)
  PROVE  DisplayInv'
<1> DEFINE new == Credits!Asked(d, asked + 1)
<1>1. /\ mounted' = mounted \cup {d} /\ shown' = [shown EXCEPT ![d] = {}] /\ asked < MaxAsked /\ asked' = asked + 1
      /\ requests' = {r \in requests : r.by # d} \cup {new} /\ stale' = stale \ {d} /\ unheard' = unheard \ {d}
      /\ UNCHANGED <<balance, statusFlow, answered>>
  BY DEF Credits!appears
<1>2. new.by = d
  BY DEF Credits!Asked
<1>3. requests' \subseteq requests \cup {Credits!Asked(e, asked + 1) : e \in {d}}
  BY <1>1
<1>4. requests' \subseteq Credits!Request /\ asked' \in 0..MaxAsked /\ DisplayNumbers'
  BY <1>1, <1>3, AskTyped DEF DisplayInv
<1>5. DisplayTypes'
  BY <1>1, <1>4 DEF DisplayInv, DisplayTypes
<1>6. Told(d)'
  BY <1>1, AskedIsLatest DEF DisplayInv
<1>7. ASSUME NEW e \in mounted' \ unheard', e # d PROVE Told(e)'
  <2>1. e \in Credits!Displays /\ Told(e)
    BY <1>1, <1>7 DEF DisplayInv, DisplayTypes
  <2>2. shown'[e] = shown[e] /\ (e \in stale => e \in stale')
    BY <1>1, <1>7, <2>1 DEF DisplayInv, DisplayTypes
  <2>3. \A r \in requests \cup requests' : r.by = e => (r \in requests <=> r \in requests')
    BY <1>1, <1>2, <1>7
  <2> QED
    BY <1>1, <2>1, <2>2, <2>3, ToldStays
<1> QED
  BY <1>4, <1>5, <1>6, <1>7 DEF DisplayInv

LEMMA NotifiedStep ==
  ASSUME DisplayAssumption, DisplayInv, Credits!notifyCreditBalanceUpdated
  PROVE  DisplayInv'
<1>1. /\ balance' \in Balance /\ asked < MaxAsked /\ asked' = asked + 1
      /\ requests' = requests \cup {Credits!Asked(d, asked + 1) : d \in mounted}
      /\ UNCHANGED <<mounted, shown, statusFlow, answered, stale>>
  BY DEF Credits!notifyCreditBalanceUpdated, Credits!Refresh
<1>2. mounted \in SUBSET Credits!Displays
  BY DEF DisplayInv, DisplayTypes
<1>3. requests' \subseteq Credits!Request /\ asked' \in 0..MaxAsked /\ DisplayNumbers'
  BY <1>1, <1>2, AskTyped DEF DisplayInv
<1>4. DisplayTypes'
  BY <1>1, <1>3 DEF DisplayInv, DisplayTypes
<1>5. ASSUME NEW d \in mounted PROVE Told(d)'
  <2>1. \A e : Credits!Asked(e, asked + 1).by = e
    BY DEF Credits!Asked
  <2>2. \A r \in requests' : r.by = d => r \in requests \/ r = Credits!Asked(d, asked + 1)
    BY <1>1, <2>1
  <2> QED
    BY <1>1, <1>2, <2>2, AskedIsLatest DEF DisplayInv
<1> QED
  BY <1>1, <1>3, <1>4, <1>5 DEF DisplayInv

LEMMA ChosenStep ==
  ASSUME DisplayAssumption, DisplayInv, NEW f \in Flows, Credits!chooseFlow(f)
  PROVE  DisplayInv'
<1> DEFINE new == Credits!Asked("status", asked + 1)
<1>1. /\ statusFlow' = f /\ asked < MaxAsked /\ asked' = asked + 1
      /\ requests' = {r \in requests : r.by # "status"} \cup {new} /\ unheard' = unheard \ {"status"}
      /\ UNCHANGED <<balance, mounted, shown, answered, stale>>
  BY DEF Credits!chooseFlow
<1>2. new.by = "status" /\ "status" \in Credits!Displays
  BY DEF Credits!Asked, Credits!Displays
<1>3. requests' \subseteq requests \cup {Credits!Asked(e, asked + 1) : e \in {"status"}}
  BY <1>1
<1>4. requests' \subseteq Credits!Request /\ asked' \in 0..MaxAsked /\ DisplayNumbers'
  BY <1>1, <1>2, <1>3, AskTyped DEF DisplayInv
<1>5. DisplayTypes'
  BY <1>1, <1>4 DEF DisplayInv, DisplayTypes
<1>6. Told("status")'
  BY <1>1, <1>2, AskedIsLatest DEF DisplayInv
<1>7. ASSUME NEW e \in mounted' \ unheard', e # "status" PROVE Told(e)'
  <2>1. Told(e)
    BY <1>1, <1>7 DEF DisplayInv
  <2>2. \A r \in requests \cup requests' : r.by = e => (r \in requests <=> r \in requests')
    BY <1>1, <1>2, <1>7
  <2> QED
    BY <1>1, <2>1, <2>2, ToldStays
<1> QED
  BY <1>4, <1>5, <1>6, <1>7 DEF DisplayInv

LEMMA BalanceServed == ASSUME DisplayInv, NEW r \in requests, Credits!serveBalance(r) PROVE DisplayInv'
<1>1. PICK answer \in {{balance}, {}} :
        requests' = (requests \ {r}) \cup {[r EXCEPT !.at = "served", !.answer = answer]}
  BY DEF Credits!serveBalance
<1> DEFINE new == [r EXCEPT !.at = "served", !.answer = answer]
<1>2. UNCHANGED <<balance, mounted, shown, statusFlow, asked, answered, stale, unheard>>
  BY DEF Credits!serveBalance
<1>3. r \in Credits!Request /\ answer \subseteq {balance} /\ answer \in SUBSET Balance
  BY <1>1 DEF DisplayInv, DisplayTypes
<1>4. /\ new \in Credits!Request /\ new.number = r.number /\ new.by = r.by /\ new.at = "served"
      /\ new.answer = answer
  BY <1>3 DEF Credits!Request
<1>5. requests' = (requests \ {r}) \cup {new}
  BY <1>1
<1> HIDE DEF new
<1>6. DisplayTypes' /\ DisplayNumbers'
  BY <1>2, <1>4, <1>5 DEF DisplayInv, DisplayTypes, DisplayNumbers
<1>7. ASSUME NEW d \in mounted \ unheard PROVE Told(d)'
  <2>1. CASE Settled(d)
    BY <1>2, <1>4, <1>5, <2>1 DEF Told, Settled
  <2>2. CASE Latest(d, r)
    <3>1. Latest(d, new)'
      BY <1>2, <1>3, <1>4, <1>5, <2>2 DEF Latest
    <3> QED
      BY <3>1 DEF Told, Latest
  <2>3. ASSUME NEW q \in requests, Latest(d, q), q # r PROVE Told(d)'
    <3>1. Latest(d, q)'
      BY <1>2, <1>4, <1>5, <2>3 DEF Latest
    <3> QED
      BY <3>1 DEF Told, Latest
  <2> QED
    BY <1>7, <2>1, <2>2, <2>3 DEF DisplayInv, Told
<1> QED
  BY <1>2, <1>6, <1>7 DEF DisplayInv

LEMMA BalanceTaken == ASSUME DisplayInv, NEW r \in requests, Credits!balanceAnswered(r) PROVE DisplayInv'
<1>1. /\ r.at = "served" /\ requests' = requests \ {r}
      /\ UNCHANGED <<balance, mounted, statusFlow, asked, unheard>>
  BY DEF Credits!balanceAnswered
<1>2. r \in Credits!Request /\ r.by \in Credits!Displays /\ r.number \in 1..MaxAsked /\ r.number <= asked
      /\ r.answer \subseteq Balance
  BY DEF DisplayInv, DisplayTypes, DisplayNumbers, Credits!Request
<1>3. \A q \in requests : q.number \in Nat
  BY DEF DisplayInv, DisplayTypes, Credits!Request
<1>4. CASE r.by \notin mounted
  <2>1. UNCHANGED <<shown, answered, stale>>
    BY <1>4 DEF Credits!balanceAnswered
  <2>2. \A d \in mounted \ unheard : Told(d)'
    BY <1>1, <1>4, <2>1, ToldStays DEF DisplayInv
  <2> QED
    BY <1>1, <2>1, <2>2 DEF DisplayInv, DisplayTypes, DisplayNumbers
<1>5. CASE r.by \in mounted
  <2> DEFINE upTo == IF answered[r.by] < r.number THEN r.number ELSE answered[r.by]
  <2>1. /\ shown' = [shown EXCEPT ![r.by] = Credits!ShownAfter(r, shown[r.by])]
        /\ answered' = [answered EXCEPT ![r.by] = upTo]
        /\ stale' = IF r.number < answered[r.by] \/ r.answer = {} THEN stale \cup {r.by} ELSE stale \ {r.by}
    BY <1>5 DEF Credits!balanceAnswered
  <2>2. answered[r.by] \in 0..MaxAsked /\ answered[r.by] <= asked /\ shown[r.by] \subseteq Balance
    BY <1>2 DEF DisplayInv, DisplayTypes, DisplayNumbers
  <2>3. upTo \in 0..MaxAsked /\ upTo <= asked /\ r.number <= upTo /\ answered[r.by] <= upTo
    BY <1>2, <2>2
  <2>4. answered'[r.by] = upTo /\ \A d \in Credits!Displays : d # r.by => answered'[d] = answered[d] /\ shown'[d] = shown[d]
    BY <1>2, <2>1 DEF DisplayInv, DisplayTypes
  <2>5. shown'[r.by] = Credits!ShownAfter(r, shown[r.by]) /\ Credits!ShownAfter(r, shown[r.by]) \subseteq Balance
    BY <1>2, <2>1, <2>2 DEF DisplayInv, DisplayTypes, Credits!ShownAfter
  <2>6. DisplayTypes' /\ DisplayNumbers'
    BY <1>1, <2>1, <2>3, <2>4, <2>5 DEF DisplayInv, DisplayTypes, DisplayNumbers
  <2>7. ASSUME NEW d \in mounted \ unheard, d # r.by PROVE Told(d)'
    <3>1. d \in Credits!Displays /\ Told(d) /\ (d \in stale => d \in stale')
      BY <2>1, <2>7 DEF DisplayInv, DisplayTypes
    <3> QED
      BY <1>1, <2>4, <2>7, <3>1, ToldStays
  <2>8. ASSUME r.by \notin unheard PROVE Told(r.by)'
    <3>1. CASE Latest(r.by, r)
      <4>1. upTo = r.number /\ r.answer \subseteq {balance} /\ ~ (r.number < answered[r.by])
        BY <1>1, <1>2, <2>2, <3>1 DEF Latest
      <4>2. r.by \in stale' \/ shown'[r.by] = {balance}
        BY <2>1, <2>5, <4>1 DEF Credits!ShownAfter
      <4>3. Settled(r.by)'
        BY <1>1, <2>4, <3>1, <4>1, <4>2 DEF Settled, Latest
      <4> QED
        BY <4>3 DEF Told
    <3>2. CASE Settled(r.by)
      <4>1. r.number < answered[r.by] /\ upTo = answered[r.by] /\ r.by \in stale'
        BY <1>2, <2>1, <2>2, <3>2 DEF Settled
      <4>2. Settled(r.by)'
        BY <1>1, <2>4, <3>2, <4>1 DEF Settled
      <4> QED
        BY <4>2 DEF Told
    <3>3. ASSUME NEW q \in requests, Latest(r.by, q), q # r PROVE Told(r.by)'
      <4>1. r.number < q.number /\ answered[r.by] < q.number
        BY <3>3 DEF Latest
      <4>2. upTo < q.number
        BY <4>1
      <4>3. Latest(r.by, q)'
        BY <1>1, <2>4, <3>3, <4>2 DEF Latest
      <4> QED
        BY <4>3 DEF Told, Latest
    <3> QED
      BY <1>5, <2>8, <3>1, <3>2, <3>3 DEF DisplayInv, Told
  <2> QED
    BY <1>1, <2>6, <2>7, <2>8 DEF DisplayInv
<1> QED
  BY <1>4, <1>5

LEMMA BalanceStep == ASSUME DisplayAssumption, DisplayInv, Credits!BalanceNext PROVE DisplayInv'
<1>1. ASSUME NEW d \in Credits!Displays, Credits!leaves(d) PROVE DisplayInv'
  BY <1>1 DEF Credits!leaves, DisplayInv, DisplayTypes, DisplayNumbers, Told, Latest, Settled
<1>2. CASE Credits!balanceMovesUnheard
  <2>1. balance' \in Balance /\ unheard' = Credits!Displays
        /\ UNCHANGED <<mounted, shown, statusFlow, requests, asked, answered>>
    BY <1>2 DEF Credits!balanceMovesUnheard
  <2> QED
    BY <2>1 DEF DisplayInv, DisplayTypes, DisplayNumbers
<1> QED
  BY <1>1, <1>2, AppearsStep, NotifiedStep, ChosenStep, BalanceServed, BalanceTaken DEF Credits!BalanceNext

LEMMA HintStep == ASSUME DisplayAssumption, HintInv, Credits!HintNext PROVE HintInv'
<1> USE DEF HintInv, Credits!HintsEnd, Credits!Waiting, Credits!Hint, Credits!NoHint
<1>1. ASSUME NEW h \in Hints, Credits!hintLeaves(h) PROVE HintInv'
  BY <1>1 DEF Credits!hintLeaves
<1>2. ASSUME NEW code \in Flows \cup {Unknown}
      PROVE  /\ Credits!Resolved(code) \in Credits!Hint
             /\ ~ (Credits!Resolved(code).flow = Credits!Nothing /\ ~ Credits!Resolved(code).error)
             /\ Credits!Resolved(code).flow \in {Credits!Nothing, Credits!Resolved(code).code}
  BY DEF DisplayAssumption, Credits!Resolved
<1>3. ASSUME NEW h \in Hints, NEW code \in Flows \cup {Unknown}, Credits!hintShows(h, code) PROVE HintInv'
  <2>1. CASE catalogRequest = "loaded"
    <3>1. hints' = [hints EXCEPT ![h] = Credits!Resolved(code)] /\ catalogRequest' = catalogRequest
      BY <1>3, <2>1 DEF Credits!hintShows
    <3> QED
      BY <1>2, <3>1
  <2>2. CASE catalogRequest # "loaded"
    <3>1. PICK new : new = [open |-> TRUE, code |-> code, flow |-> Credits!Nothing, error |-> FALSE]
      OBVIOUS
    <3>2. new \in Credits!Hint /\ new.flow = Credits!Nothing
      BY <3>1
    <3>3. hints' = [hints EXCEPT ![h] = new] /\ catalogRequest' = "asked"
      BY <1>3, <2>2, <3>1, Zenon DEF Credits!hintShows
    <3> QED
      BY <3>2, <3>3
  <2> QED
    BY <2>1, <2>2
<1>4. CASE Credits!catalogLoaded
  <2>1. /\ catalogRequest' = "loaded"
        /\ hints' = [h \in Hints |-> IF Credits!Waiting(h) THEN Credits!Resolved(hints[h].code) ELSE hints[h]]
    BY <1>4 DEF Credits!catalogLoaded
  <2> QED
    BY <1>2, <2>1
<1>5. CASE Credits!catalogFailed
  BY <1>5 DEF Credits!catalogFailed
<1> QED
  BY <1>1, <1>3, <1>4, <1>5 DEF Credits!HintNext

(* What the line above the message box says of a balance is what the server would do with it. *)
LEMMA PreviewPays ==
  ASSUME DisplayAssumption, NEW f \in Flows, NEW b \in Balance
  PROVE  Credits!Preview(f, b) = Credits!Pays(f, b)
<1>1. /\ Policy[f].credits \in Nat /\ Policy[f].energy \in Nat /\ Policy[f].energyAllowed \in BOOLEAN
      /\ Policy[f].bonusAllowed \in BOOLEAN /\ (Policy[f].credits = 0 => Policy[f].energy = 0)
      /\ b.energy \in Nat /\ b.bonus \in Nat /\ b.purchased \in Nat
  BY DEF DisplayAssumption
<1> DEFINE usable == IF Policy[f].bonusAllowed THEN b.bonus ELSE 0
           enough == \E bonus \in 0..usable, purchased \in 0..b.purchased : bonus + purchased = Policy[f].credits
<1>2. usable \in Nat /\ Credits!Usable(f, b) = b.purchased + usable
  BY <1>1 DEF Credits!Usable
<1>3. enough => Credits!Usable(f, b) >= Policy[f].credits
  BY <1>1, <1>2
<1>4. ASSUME Credits!Usable(f, b) >= Policy[f].credits PROVE enough
  <2>1. CASE Policy[f].credits <= usable
    <3>1. Policy[f].credits \in 0..usable /\ 0 \in 0..b.purchased /\ Policy[f].credits + 0 = Policy[f].credits
      BY <1>1, <1>2, <2>1
    <3> QED
      BY <3>1
  <2>2. CASE ~ (Policy[f].credits <= usable)
    <3>1. /\ usable \in 0..usable /\ Policy[f].credits - usable \in 0..b.purchased
          /\ usable + (Policy[f].credits - usable) = Policy[f].credits
      BY <1>1, <1>2, <1>4, <2>2
    <3> QED
      BY <3>1
  <2> QED
    BY <2>1, <2>2
<1>5. enough <=> Credits!Usable(f, b) >= Policy[f].credits
  BY <1>3, <1>4
<1>6. Policy[f].credits + Policy[f].energy > 0 <=> Policy[f].credits > 0
  BY <1>1
<1>7. CASE Policy[f].credits = 0
  BY <1>1, <1>7 DEF Credits!Preview, Credits!Pays
<1>8. CASE Policy[f].credits > 0 /\ Policy[f].energyAllowed /\ b.energy >= Policy[f].energy
  BY <1>1, <1>6, <1>8 DEF Credits!Preview, Credits!Pays
<1>9. CASE Policy[f].credits > 0 /\ ~ (Policy[f].energyAllowed /\ b.energy >= Policy[f].energy)
  <2>1. Credits!Preview(f, b) = IF Credits!Usable(f, b) >= Policy[f].credits THEN "credits" ELSE "insufficient"
    BY <1>1, <1>6, <1>9 DEF Credits!Preview
  <2>2. Credits!Pays(f, b) = IF enough THEN "credits" ELSE "insufficient"
    BY <1>1, <1>9 DEF Credits!Pays
  <2> QED
    BY <1>5, <2>1, <2>2
<1> QED
  BY <1>1, <1>7, <1>8, <1>9

(* Whatever moves the balance and whichever answer is late, for every table of costs: a display   *)
(* that was told of the last change and waits for nothing shows what the server has; the line     *)
(* above the message box says what the server would do; a hint waits only for a catalogue that is *)
(* on its way, and shows the cost of its own flow.                                                *)
THEOREM DisplaysAreTrue ==
  ASSUME DisplayAssumption
  PROVE  Credits!Spec => [](Credits!BalanceShown /\ Credits!PreviewTrue /\ Credits!HintsEnd)
<1>1. ASSUME Credits!Init PROVE DisplayInv /\ HintInv
  BY <1>1 DEF Credits!Init, DisplayAssumption, DisplayInv, DisplayTypes, DisplayNumbers, HintInv, Credits!HintsEnd,
              Credits!Waiting, Credits!NoHint, Credits!Hint
<1>2. ASSUME DisplayInv, HintInv, [Credits!Next]_Credits!displayVars PROVE DisplayInv' /\ HintInv'
  <2>1. CASE Credits!BalanceNext
    <3>1. UNCHANGED <<hints, catalogRequest>>
      BY <2>1 DEF Credits!BalanceNext, Credits!appears, Credits!leaves, Credits!notifyCreditBalanceUpdated,
                  Credits!balanceMovesUnheard, Credits!chooseFlow, Credits!serveBalance, Credits!balanceAnswered,
                  Credits!hintVars
    <3> QED
      BY <1>2, <2>1, <3>1, BalanceStep DEF HintInv, Credits!HintsEnd, Credits!Waiting
  <2>2. CASE Credits!HintNext
    <3>1. UNCHANGED <<balance, mounted, shown, statusFlow, requests, asked, answered, stale, unheard>>
      BY <2>2 DEF Credits!HintNext, Credits!hintShows, Credits!hintLeaves, Credits!catalogLoaded,
                  Credits!catalogFailed, Credits!balanceVars
    <3> QED
      BY <1>2, <2>2, <3>1, HintStep DEF DisplayInv, DisplayTypes, DisplayNumbers, Told, Latest, Settled
  <2>3. CASE UNCHANGED Credits!displayVars
    BY <1>2, <2>3 DEF Credits!displayVars, DisplayInv, DisplayTypes, DisplayNumbers, Told, Latest, Settled,
                      HintInv, Credits!HintsEnd, Credits!Waiting
  <2> QED
    BY <1>2, <2>1, <2>2, <2>3 DEF Credits!Next
<1>3. ASSUME DisplayAssumption, DisplayInv, HintInv
      PROVE  Credits!BalanceShown /\ Credits!PreviewTrue /\ Credits!HintsEnd
  <2>1. Credits!BalanceShown
    BY <1>3 DEF DisplayInv, Told, Latest, Settled, Credits!BalanceShown
  <2>2. Credits!PreviewTrue
    <3>1. statusFlow \in Flows /\ shown["status"] \subseteq Balance
      BY <1>3 DEF DisplayInv, DisplayTypes, Credits!Displays
    <3> QED
      BY <3>1, PreviewPays DEF Credits!PreviewTrue
  <2> QED
    BY <1>3, <2>1, <2>2 DEF HintInv
<1> QED
  BY <1>1, <1>2, <1>3, PTL DEF Credits!Spec

-----------------------------------------------------------------------------
(* Signing in from the shells. *)
CONSTANTS MaxCodes, MaxFailures, MaxReloads, MaxQuestions

VARIABLES initialization, launch, links, exchanges, nativeGoogleBrowserOpen, browser, finished, signingIn,
          authLoading, questions, waited, fallback, cookie, issued, used, failures, reloads, overtaken
SignIn == INSTANCE NativeSignIn

SignInAssumption == MaxCodes \in Nat /\ MaxQuestions \in Nat \ {0}

SignInTypes ==
  /\ exchanges \subseteq SignIn!Exchange /\ questions \subseteq SignIn!Question /\ failures \in Nat
  /\ session \in BOOLEAN /\ cookie \in BOOLEAN
(* The link that opened the app is exchanged once, before any question is answered. *)
OneLaunch ==
  /\ \A e \in exchanges : ~ e.notify => initialization = "launching"
  /\ \A e, f \in exchanges : ~ e.notify /\ ~ f.notify => e = f
  /\ initialization # "none" => SignIn!Native
  /\ SignIn!Native /\ initialization \in {"none", "launching"} =>
       /\ \E q \in questions : q.kind # "slow"
       /\ \A q \in questions : q.answer = "none"
(* Google's browser is about to open, open, or its end is about to be heard. *)
BrowserHeard == nativeGoogleBrowserOpen => "google" \in signingIn \/ browser = "open" \/ finished
Busy ==
  authLoading /\ "rejected" \notin waited =>
    \/ \E q \in questions : q.kind # "slow"
    \/ exchanges # {} \/ "dialog" \in signingIn \/ "granted" \in signingIn \/ nativeGoogleBrowserOpen
(* Who has a session was given it, and it is known, about to be told, or asked for. *)
SessionGiven == (session => cookie) /\ \A q \in questions : q.answer = "session" => cookie
SessionComing ==
  cookie /\ failures = 0 /\ initialization # "failed" /\ ~ overtaken =>
    \/ session \/ \E q \in questions : q.answer \in {"none", "session"}
    \/ \E e \in exchanges : e.at = "done"
    \/ "granted" \in signingIn
SignInInv == SignInTypes /\ OneLaunch /\ BrowserHeard /\ Busy /\ SessionGiven /\ SessionComing

(* A page that was loaded again asks who is signed in. *)
LEMMA PageLoaded ==
  ASSUME SignInAssumption, SignInInv, SignIn!NewPage, UNCHANGED <<platform, cookie, failures, overtaken>>
  PROVE  SignInInv'
<1>1. PICK q : q = SignIn!New("initial", 1)
  OBVIOUS
<1>2. /\ initialization' = "none" /\ exchanges' = {} /\ nativeGoogleBrowserOpen' = FALSE /\ session' = FALSE
      /\ questions' = {q} /\ q \in SignIn!Question /\ q.answer = "none" /\ q.kind = "initial"
  BY <1>1 DEF SignIn!NewPage, SignIn!Question, SignIn!New, SignInAssumption
<1> HIDE <1>1
<1> QED
  BY <1>2 DEF SignInInv, SignInTypes, OneLaunch, BrowserHeard, Busy, SessionGiven, SessionComing, SignIn!Native

(* A question more. *)
LEMMA QuestionMore ==
  ASSUME SignInTypes, NEW kind \in {"initial", "refresh", "slow"}, SignIn!Ask(kind)
  PROVE  /\ questions' \subseteq SignIn!Question /\ questions \subseteq questions'
         /\ \E q \in questions' : q.answer = "none" /\ q.kind = kind
         /\ \A q \in questions' \ questions : q.answer = "none"
<1>1. PICK n \in 1..MaxQuestions : questions' = questions \cup {SignIn!New(kind, n)}
  BY DEF SignIn!Ask
<1>2. PICK q : q = SignIn!New(kind, n)
  OBVIOUS
<1>3. q \in SignIn!Question /\ q.answer = "none" /\ q.kind = kind /\ questions' = questions \cup {q}
  BY <1>1, <1>2 DEF SignIn!New, SignIn!Question
<1> QED
  BY <1>3 DEF SignInTypes

LEMMA ListenerStarts == ASSUME SignInAssumption, SignInInv, SignIn!startNativeOAuthListener PROVE SignInInv'
<1> USE DEF SignIn!shellVars, SignIn!serverVars, SignIn!countVars, SignIn!screenVars
<1>1. /\ SignIn!Native /\ initialization = "none" /\ questions # {}
      /\ UNCHANGED <<platform, browser, finished, nativeGoogleBrowserOpen, signingIn, session, authLoading,
                     questions, waited, cookie, failures, overtaken>>
  BY DEF SignIn!startNativeOAuthListener
<1>2. SignIn!Native' /\ \A e \in exchanges : e.notify
  BY <1>1 DEF SignIn!Native, SignInInv, OneLaunch
<1>3. CASE launch \in SignIn!Codes
  <2>1. PICK new : new = [code |-> launch, notify |-> FALSE, at |-> "asked"]
    OBVIOUS
  <2>2. exchanges' = exchanges \cup {new} /\ new \in SignIn!Exchange /\ ~ new.notify
    BY <1>3, <2>1 DEF SignIn!startNativeOAuthListener, SignIn!Exchange
  <2>3. launch # 0 /\ launch # SignIn!Refused
    BY <1>3 DEF SignInAssumption, SignIn!Codes, SignIn!Refused
  <2>4. initialization' = "launching"
    BY <2>3 DEF SignIn!startNativeOAuthListener
  <2> QED
    BY <1>1, <1>2, <2>2, <2>4 DEF SignInInv, SignInTypes, OneLaunch, BrowserHeard, Busy, SessionGiven, SessionComing
<1>4. CASE launch \notin SignIn!Codes
  <2>1. exchanges' = exchanges /\ initialization' \in {"launching", "done", "failed"}
    BY <1>4 DEF SignIn!startNativeOAuthListener
  <2> QED
    BY <1>1, <1>2, <2>1 DEF SignInInv, SignInTypes, OneLaunch, BrowserHeard, Busy, SessionGiven, SessionComing
<1> QED
  BY <1>3, <1>4

LEMMA LinkStep ==
  ASSUME SignInAssumption, SignInInv, SignIn!appUrlRefused \/ (\E link \in links : SignIn!appUrlOpen(link))
  PROVE  SignInInv'
<1>1. CASE SignIn!appUrlRefused
  BY <1>1, PageLoaded DEF SignIn!appUrlRefused, SignIn!showNativeOAuthError, SignIn!serverVars
<1>2. ASSUME NEW link \in links, SignIn!appUrlOpen(link) PROVE SignInInv'
  <2>1. PICK new : new = [code |-> link, notify |-> TRUE, at |-> "asked"]
    OBVIOUS
  <2>2. /\ exchanges' = exchanges \cup {new} /\ new \in SignIn!Exchange /\ new.notify /\ new.at = "asked"
        /\ nativeGoogleBrowserOpen' = FALSE
        /\ UNCHANGED <<platform, initialization, signingIn, session, authLoading, questions, waited, cookie, failures,
                       overtaken>>
    BY <1>2, <2>1 DEF SignIn!appUrlOpen, SignIn!closeNativeGoogleBrowser, SignIn!Exchange, SignIn!screenVars,
                      SignIn!serverVars
  <2> QED
    BY <2>2 DEF SignInInv, SignInTypes, OneLaunch, BrowserHeard, Busy, SessionGiven, SessionComing, SignIn!Native
<1> QED
  BY <1>1, <1>2

LEMMA ExchangeServed == ASSUME SignInInv, NEW e \in exchanges, SignIn!serveExchange(e) PROVE SignInInv'
<1>1. PICK end \in {"done", "failed"} :
        /\ exchanges' = (exchanges \ {e}) \cup {[e EXCEPT !.at = end]}
        /\ cookie' = cookie \/ (cookie' = TRUE /\ (end = "done" \/ failures' = failures + 1))
  BY DEF SignIn!serveExchange, SignIn!Fail, SignIn!serverVars
<1>2. /\ UNCHANGED <<platform, initialization, nativeGoogleBrowserOpen, browser, finished, signingIn, session,
                     authLoading, questions, waited, overtaken>>
      /\ e.at = "asked"
  BY DEF SignIn!serveExchange, SignIn!shellVars, SignIn!screenVars
<1>3. failures' = failures \/ failures' = failures + 1
  BY DEF SignIn!serveExchange, SignIn!Fail
<1>4. cookie' = cookie \/ (cookie' = TRUE /\ (end = "done" \/ failures' = failures + 1))
  BY <1>1
<1>5. PICK new : new = [e EXCEPT !.at = end]
  OBVIOUS
<1>6. /\ new \in SignIn!Exchange /\ new.notify = e.notify /\ new.at = end
      /\ exchanges' = (exchanges \ {e}) \cup {new} /\ e \in exchanges /\ new \in exchanges'
  BY <1>1, <1>5 DEF SignInInv, SignInTypes, SignIn!Exchange
<1> HIDE <1>5
<1>7. SessionGiven' /\ cookie' \in BOOLEAN
  BY <1>2, <1>4, Zenon DEF SignInInv, SignInTypes, SessionGiven
<1>8. SignInTypes'
  BY <1>2, <1>3, <1>6, <1>7 DEF SignInInv, SignInTypes
<1>9. BrowserHeard' /\ Busy'
  BY <1>2, <1>6, Zenon DEF SignInInv, BrowserHeard, Busy
<1>10. OneLaunch'
  BY <1>2, <1>6 DEF SignInInv, OneLaunch, SignIn!Native
<1>11. SessionComing'
  <2>1. CASE cookie' = cookie
    BY <1>2, <1>3, <1>6, <2>1 DEF SignInInv, SignInTypes, SessionComing
  <2>2. CASE end = "done"
    BY <1>6, <2>2 DEF SessionComing
  <2>3. CASE failures' = failures + 1
    BY <2>3 DEF SignInInv, SignInTypes, SessionComing
  <2> QED
    BY <1>4, <2>1, <2>2, <2>3
<1> QED
  BY <1>7, <1>8, <1>9, <1>10, <1>11 DEF SignInInv

LEMMA ExchangeAnswered ==
  ASSUME SignInAssumption, SignInInv, NEW e \in exchanges, SignIn!exchangeNativeOAuthCode(e)
  PROVE  SignInInv'
<1> USE DEF SignIn!shellVars, SignIn!serverVars
<1>1. /\ UNCHANGED <<platform, browser, finished, cookie, failures, overtaken>>
      /\ e.at \in {"done", "failed"}
  BY DEF SignIn!exchangeNativeOAuthCode, SignInInv, SignInTypes, SignIn!Exchange
<1>2. CASE e.notify /\ e.at = "failed" /\ SignIn!showNativeOAuthError
  BY <1>1, <1>2, PageLoaded DEF SignIn!showNativeOAuthError
<1>3. CASE /\ ~ e.notify /\ initialization' = (IF e.at = "done" THEN "done" ELSE "failed")
           /\ exchanges' = exchanges \ {e}
           /\ UNCHANGED <<nativeGoogleBrowserOpen, signingIn, session, authLoading, questions, waited, reloads>>
  <2>1. initialization = "launching" /\ \A f \in exchanges' : f.notify
    BY <1>3 DEF SignInInv, OneLaunch
  <2>2. CASE e.at = "failed"
    BY <1>1, <1>3, <2>1, <2>2 DEF SignInInv, SignInTypes, OneLaunch, BrowserHeard, Busy, SessionGiven, SessionComing, SignIn!Native
  <2>3. CASE e.at = "done" /\ SignIn!Native
    <3>1. \E q \in questions : q.answer = "none"
      BY <2>1, <2>3 DEF SignInInv, OneLaunch
    <3> QED
      BY <1>1, <1>3, <2>1, <2>3, <3>1 DEF SignInInv, SignInTypes, OneLaunch, BrowserHeard, Busy, SessionGiven, SessionComing, SignIn!Native
  <2> QED
    BY <1>1, <2>1, <2>2, <2>3 DEF SignInInv, OneLaunch
<1>4. CASE /\ e.notify /\ e.at = "done" /\ exchanges' = exchanges \ {e} /\ authLoading' = TRUE /\ SignIn!Ask("refresh")
           /\ UNCHANGED <<initialization, nativeGoogleBrowserOpen, signingIn, session, reloads>>
  <2>1. /\ questions' \subseteq SignIn!Question /\ questions \subseteq questions'
        /\ \E q \in questions' : q.answer = "none" /\ q.kind = "refresh"
        /\ \A q \in questions' \ questions : q.answer = "none"
    BY <1>4, QuestionMore DEF SignInInv
  <2> QED
    BY <1>1, <1>4, <2>1 DEF SignInInv, SignInTypes, OneLaunch, BrowserHeard, Busy, SessionGiven, SessionComing, SignIn!Native
<1> QED
  BY <1>2, <1>3, <1>4 DEF SignIn!exchangeNativeOAuthCode, SignIn!refreshAuthSession, SignIn!screenVars

LEMMA SigningStep ==
  ASSUME SignInInv,
         SignIn!signInWithGoogle \/ SignIn!openNativeGoogleBrowser \/ SignIn!signInWithDialog
         \/ SignIn!grantDialog \/ SignIn!dialogSignedIn \/ SignIn!dialogFailed
  PROVE  SignInInv'
<1> USE DEF SignIn!shellVars, SignIn!serverVars, SignIn!countVars, SignIn!screenVars, SignInInv, SignInTypes, OneLaunch, BrowserHeard,
            Busy, SessionGiven, SessionComing, SignIn!Native, SignIn!Fail, SignIn!Free
<1>1. CASE SignIn!signInWithGoogle
  BY <1>1 DEF SignIn!signInWithGoogle
<1>2. CASE SignIn!openNativeGoogleBrowser
  BY <1>2 DEF SignIn!openNativeGoogleBrowser
<1>3. CASE SignIn!signInWithDialog
  BY <1>3 DEF SignIn!signInWithDialog
<1>4. CASE SignIn!grantDialog
  BY <1>4 DEF SignIn!grantDialog
<1>5. CASE SignIn!dialogSignedIn
  <2>1. /\ questions' \subseteq SignIn!Question /\ questions \subseteq questions'
        /\ \E q \in questions' : q.answer = "none" /\ q.kind = "refresh"
        /\ \A q \in questions' \ questions : q.answer = "none"
    BY <1>5, QuestionMore DEF SignIn!dialogSignedIn, SignIn!refreshAuthSession
  <2> QED
    BY <1>5, <2>1 DEF SignIn!dialogSignedIn
<1>6. CASE SignIn!dialogFailed
  BY <1>6 DEF SignIn!dialogFailed
<1> QED
  BY <1>1, <1>2, <1>3, <1>4, <1>5, <1>6

LEMMA BrowserStep ==
  ASSUME SignInAssumption, SignInInv,
         SignIn!providerReturns \/ SignIn!appStartedByLink \/ SignIn!userClosesBrowser
         \/ SignIn!handleNativeBrowserFinished
  PROVE  SignInInv'
<1> USE DEF SignIn!pageVars, SignIn!screenVars, SignIn!serverVars, SignIn!countVars
<1>1. CASE SignIn!appStartedByLink
  BY <1>1, PageLoaded DEF SignIn!appStartedByLink
<1>2. CASE SignIn!providerReturns \/ SignIn!userClosesBrowser
  <2>1. /\ UNCHANGED <<platform, initialization, exchanges, nativeGoogleBrowserOpen, signingIn, session, authLoading,
                       questions, waited, cookie, failures, overtaken>>
        /\ UNCHANGED <<browser, finished>> \/ finished'
    BY <1>2 DEF SignIn!providerReturns, SignIn!userClosesBrowser
  <2> QED
    BY <2>1 DEF SignInInv, SignInTypes, OneLaunch, BrowserHeard, Busy, SessionGiven, SessionComing, SignIn!Native
<1>3. CASE SignIn!handleNativeBrowserFinished
  <2>1. /\ nativeGoogleBrowserOpen' = FALSE
        /\ UNCHANGED <<platform, initialization, exchanges, signingIn, session, cookie, failures, overtaken>>
    BY <1>3 DEF SignIn!handleNativeBrowserFinished
  <2>2. CASE nativeGoogleBrowserOpen
    <3>1. /\ questions' \subseteq SignIn!Question /\ questions \subseteq questions'
          /\ \E q \in questions' : q.answer = "none" /\ q.kind = "refresh"
          /\ \A q \in questions' \ questions : q.answer = "none"
      BY <1>3, <2>2, QuestionMore DEF SignInInv, SignIn!handleNativeBrowserFinished, SignIn!refreshAuthSession
    <3> QED
      BY <2>1, <3>1 DEF SignInInv, SignInTypes, OneLaunch, BrowserHeard, Busy, SessionGiven, SessionComing, SignIn!Native
  <2>3. CASE ~ nativeGoogleBrowserOpen
    <3>1. UNCHANGED <<authLoading, questions, waited>>
      BY <1>3, <2>3 DEF SignIn!handleNativeBrowserFinished
    <3> QED
      BY <2>1, <2>3, <3>1 DEF SignInInv, SignInTypes, OneLaunch, BrowserHeard, Busy, SessionGiven, SessionComing, SignIn!Native
  <2> QED
    BY <2>2, <2>3
<1> QED
  BY <1>1, <1>2, <1>3

LEMMA TimerStep == ASSUME SignInInv, SignIn!askSlow \/ SignIn!initFallback PROVE SignInInv'
<1> USE DEF SignIn!shellVars, SignIn!serverVars, SignIn!countVars
<1>1. CASE SignIn!askSlow
  <2>1. /\ questions' \subseteq SignIn!Question /\ questions \subseteq questions'
        /\ \A q \in questions' \ questions : q.answer = "none"
    BY <1>1, QuestionMore DEF SignIn!askSlow, SignInInv
  <2>2. /\ UNCHANGED <<platform, initialization, exchanges, nativeGoogleBrowserOpen, browser, finished, signingIn, session,
                       authLoading, cookie, failures, overtaken>>
        /\ waited' = waited \cup {"asked"}
    BY <1>1 DEF SignIn!askSlow
  <2> QED
    BY <2>1, <2>2 DEF SignInInv, SignInTypes, OneLaunch, BrowserHeard, Busy, SessionGiven, SessionComing, SignIn!Native
<1>2. CASE SignIn!initFallback
  <2>1. /\ UNCHANGED <<platform, initialization, exchanges, nativeGoogleBrowserOpen, browser, finished, signingIn, session,
                       questions, cookie, failures, overtaken>>
        /\ authLoading' = FALSE \/ UNCHANGED <<authLoading, waited>>
    BY <1>2 DEF SignIn!initFallback, SignIn!Free
  <2> QED
    BY <2>1 DEF SignInInv, SignInTypes, OneLaunch, BrowserHeard, Busy, SessionGiven, SessionComing, SignIn!Native
<1> QED
  BY <1>1, <1>2

LEMMA QuestionStep ==
  ASSUME SignInInv, NEW q \in questions,
         SignIn!serveQuestion(q) \/ SignIn!questionAnswered(q) \/ SignIn!questionRejected(q)
  PROVE  SignInInv'
<1> USE DEF SignIn!shellVars, SignIn!serverVars, SignIn!countVars
<1>1. CASE SignIn!serveQuestion(q)
  <2>1. /\ SignIn!Initialized
        /\ UNCHANGED <<platform, initialization, exchanges, nativeGoogleBrowserOpen, browser, finished, signingIn, session,
                       authLoading, waited, cookie, overtaken>>
        /\ failures' = failures \/ failures' = failures + 1
    BY <1>1 DEF SignIn!serveQuestion, SignIn!Fail
  <2>2. PICK answer \in {"session", "error", "rejected"} :
          /\ questions' = (questions \ {q}) \cup {[q EXCEPT !.answer = answer]}
          /\ IF answer = (IF cookie THEN "session" ELSE "error") THEN UNCHANGED failures
             ELSE answer # "session" /\ SignIn!Fail
    BY <1>1 DEF SignIn!serveQuestion
  <2>3. (answer = "session" => cookie) /\ (answer # "session" => ~ cookie \/ failures' = failures + 1)
    BY <2>2 DEF SignIn!Fail
  <2>4. PICK new : new = [q EXCEPT !.answer = answer]
    OBVIOUS
  <2>5. /\ new \in SignIn!Question /\ new.answer = answer /\ new.kind = q.kind
        /\ questions' = (questions \ {q}) \cup {new} /\ new \in questions'
    BY <2>2, <2>4 DEF SignInInv, SignInTypes, SignIn!Question
  <2> HIDE <2>4
  <2>6. SignInTypes' /\ BrowserHeard' /\ Busy' /\ SessionGiven'
    BY <2>1, <2>3, <2>5 DEF SignInInv, SignInTypes, BrowserHeard, Busy, SessionGiven
  <2>7. OneLaunch'
    BY <2>1 DEF SignInInv, OneLaunch, SignIn!Native, SignIn!Initialized
  <2>8. SessionComing'
    BY <2>1, <2>3, <2>5 DEF SignInInv, SignInTypes, SessionComing
  <2> QED
    BY <2>6, <2>7, <2>8 DEF SignInInv
<1>2. CASE SignIn!questionAnswered(q)
  <2>1. /\ q.answer \in {"session", "error"} /\ questions' = questions \ {q} /\ authLoading' = FALSE
        /\ session' = (q.answer = "session" \/ (session /\ q.kind # "initial"))
        /\ overtaken' = (overtaken \/ (q.kind = "initial" /\ q.answer = "error" /\ cookie))
        /\ UNCHANGED <<platform, initialization, exchanges, nativeGoogleBrowserOpen, browser, finished, signingIn,
                       cookie, failures>>
    BY <1>2 DEF SignIn!questionAnswered, SignIn!Free
  <2>2. OneLaunch'
    BY <2>1 DEF SignInInv, OneLaunch, SignIn!Native
  <2>3. SignInTypes' /\ BrowserHeard' /\ Busy' /\ SessionGiven'
    BY <2>1 DEF SignInInv, SignInTypes, BrowserHeard, Busy, SessionGiven
  <2>4. SessionComing'
    BY <2>1 DEF SignInInv, SignInTypes, SessionComing
  <2> QED
    BY <2>2, <2>3, <2>4 DEF SignInInv
<1>3. CASE SignIn!questionRejected(q)
  <2>1. /\ q.answer = "rejected" \/ initialization = "failed"
        /\ questions' = questions \ {q}
        /\ UNCHANGED <<platform, initialization, exchanges, nativeGoogleBrowserOpen, browser, finished, signingIn, session,
                       cookie, failures, overtaken>>
    BY <1>3 DEF SignIn!questionRejected
  <2>2. OneLaunch'
    BY <2>1 DEF SignInInv, OneLaunch, SignIn!Native
  <2>3. Busy'
    <3>1. q.kind \in {"initial", "refresh", "slow"}
      BY DEF SignInInv, SignInTypes, SignIn!Question
    <3>2. CASE q.kind = "initial"
      <4>1. authLoading' = FALSE
        BY <1>3, <3>2 DEF SignIn!questionRejected, SignIn!Free
      <4> QED
        BY <4>1 DEF Busy
    <3>3. CASE q.kind = "refresh" /\ authLoading
      <4>1. "rejected" \in waited'
        BY <1>3, <3>3 DEF SignIn!questionRejected
      <4> QED
        BY <4>1 DEF Busy
    <3>4. CASE q.kind = "slow" \/ (q.kind = "refresh" /\ ~ authLoading)
      <4>1. UNCHANGED <<authLoading, waited>>
        BY <1>3, <3>4 DEF SignIn!questionRejected
      <4> QED
        BY <2>1, <3>4, <4>1 DEF SignInInv, Busy
    <3> QED
      BY <3>1, <3>2, <3>3, <3>4
  <2>4. SessionComing' /\ SignInTypes' /\ BrowserHeard' /\ SessionGiven'
    BY <2>1 DEF SignInInv, SignInTypes, BrowserHeard, SessionGiven, SessionComing
  <2> QED
    BY <2>2, <2>3, <2>4 DEF SignInInv
<1> QED
  BY <1>1, <1>2, <1>3

(* Whichever links, answers and ends of browsers come late, twice or never: until a refresh is    *)
(* rejected the screen waits only for something that is on its way, other than the one more        *)
(* question; and with nothing on its way the app knows of its session, unless a request or the     *)
(* initialization failed or an older answer came last.                                             *)
THEOREM SignInIsTrue ==
  ASSUME SignInAssumption
  PROVE  SignIn!Spec => [](SignIn!BusyIsPending /\ SignIn!SessionKnown)
<1>1. ASSUME SignIn!Init PROVE SignInInv
  <2>1. PICK q : q = SignIn!New("initial", 1)
    OBVIOUS
  <2>2. /\ q \in SignIn!Question /\ q.answer = "none" /\ q.kind = "initial" /\ questions = {q}
        /\ exchanges = {} /\ failures = 0
    BY <1>1, <2>1 DEF SignIn!Init, SignIn!Question, SignIn!New, SignInAssumption
  <2>3. initialization = "none" /\ session = FALSE /\ cookie = FALSE /\ nativeGoogleBrowserOpen = FALSE
    BY <1>1 DEF SignIn!Init
  <2> HIDE <2>1
  <2>4. SignInTypes
    BY <2>2, <2>3 DEF SignInTypes
  <2> QED
    BY <2>2, <2>3, <2>4, Zenon DEF SignInInv, OneLaunch, BrowserHeard, Busy, SessionGiven, SessionComing
<1>2. ASSUME SignInInv, [SignIn!Next]_SignIn!signInVars PROVE SignInInv'
  <2>1. CASE UNCHANGED SignIn!signInVars
    BY <1>2, <2>1 DEF SignIn!signInVars, SignInInv, SignInTypes, OneLaunch, BrowserHeard, Busy, SessionGiven,
                      SessionComing, SignIn!Native
  <2> QED
    BY <1>2, <2>1, ListenerStarts, LinkStep, ExchangeServed, ExchangeAnswered, SigningStep, BrowserStep, TimerStep, QuestionStep
       DEF SignIn!Next
<1>3. ASSUME SignInInv PROVE SignIn!BusyIsPending /\ SignIn!SessionKnown
  BY <1>3 DEF SignInInv, SignInTypes, BrowserHeard, Busy, SessionGiven, SessionComing, SignIn!BusyIsPending,
              SignIn!SessionKnown, SignIn!Quiet
<1> QED
  BY <1>1, <1>2, <1>3, PTL DEF SignIn!Spec

-----------------------------------------------------------------------------
(* The memories of characters. *)
CONSTANTS Own, Contents, Importances, BookSize, ManualSize, MaxSummaries

VARIABLES lorebook, books, roomBooks, summaries, made
Memory == INSTANCE CharacterMemories

MemoryAssumption ==
  /\ BookSize \in Nat /\ ManualSize \in Nat /\ ManualSize <= BookSize
  /\ MaxEntries \in Nat /\ MaxSummaries \in Nat /\ Importances \subseteq Nat /\ 3 \in Importances

(* No two memories of a book made so far are the same, nor say two summaries the same. *)
Book(b, n) ==
  /\ b \in Seq(Memory!Entry) /\ \A i \in DOMAIN b : b[i].id <= n
  /\ \A i, j \in DOMAIN b : b[i].id = b[j].id => i = j
  /\ \A i, j \in Memory!AutoOf(b) : b[i].content = b[j].content => i = j
AllOf(b, c) == \A i \in DOMAIN b : b[i].of = c
MemoryInv ==
  /\ Memory!TypeOK
  /\ Book(lorebook, made) /\ \A c \in Own : Book(books[c], made) /\ Book(roomBooks[c], made)
  /\ ~ strayed => AllOf(lorebook, activeId) /\ \A c \in Own \ {activeId} : AllOf(books[c], c)

(* A book may be made of some memories of another, in any order. *)
PartOf(b, a) ==
  \E n \in Nat : \E f \in [1..n -> DOMAIN a] :
    (\A i, j \in 1..n : f[i] = f[j] => i = j) /\ b = [i \in 1..n |-> a[f[i]]]

LEMMA FunctionIsSequence ==
  ASSUME NEW S, NEW n \in Nat, NEW b \in [1..n -> S]
  PROVE  b \in Seq(S) /\ Len(b) = n /\ DOMAIN b = 1..n
OBVIOUS

LEMMA Picked ==
  ASSUME NEW a, NEW b, NEW n \in Nat, NEW f \in [1..n -> DOMAIN a],
         \A i, j \in 1..n : f[i] = f[j] => i = j, b = [i \in 1..n |-> a[f[i]]]
  PROVE  PartOf(b, a)
BY DEF PartOf

LEMMA PartIsBook ==
  ASSUME MemoryAssumption, NEW a, NEW b, NEW m, Book(a, m), PartOf(b, a)
  PROVE  Book(b, m) /\ \A c : AllOf(a, c) => AllOf(b, c)
<1>1. PICK n \in Nat : \E f \in [1..n -> DOMAIN a] :
        (\A i, j \in 1..n : f[i] = f[j] => i = j) /\ b = [i \in 1..n |-> a[f[i]]]
  BY DEF PartOf
<1>2. PICK f \in [1..n -> DOMAIN a] :
        (\A i, j \in 1..n : f[i] = f[j] => i = j) /\ b = [i \in 1..n |-> a[f[i]]]
  BY <1>1
<1>3. \A i \in DOMAIN a : a[i] \in Memory!Entry
  BY LenProperties DEF Book
<1>4. DOMAIN b = 1..n /\ \A i \in 1..n : b[i] = a[f[i]] /\ f[i] \in DOMAIN a
  BY <1>2
<1>5. b \in [1..n -> Memory!Entry]
  BY <1>2, <1>3, <1>4
<1>6. b \in Seq(Memory!Entry)
  BY <1>5, FunctionIsSequence
<1>7. \A i \in Memory!AutoOf(b) : i \in 1..n /\ f[i] \in Memory!AutoOf(a)
  BY <1>4 DEF Memory!AutoOf
<1>8. \A i \in 1..n : b[i].id <= m
  BY <1>4 DEF Book
<1>9. \A i, j \in 1..n : b[i].id = b[j].id => i = j
  BY <1>2, <1>4 DEF Book
<1>10. \A i, j \in Memory!AutoOf(b) : b[i].content = b[j].content => i = j
  BY <1>2, <1>4, <1>7 DEF Book
<1> QED
  BY <1>4, <1>6, <1>8, <1>9, <1>10 DEF Book, AllOf

LEMMA EntryTyped ==
  ASSUME MemoryAssumption, NEW e \in Memory!Entry
  PROVE  e.importance \in Nat /\ e.id \in Nat /\ e.pinned \in BOOLEAN
<1>1. e.importance \in Importances /\ e.id \in 1..MaxEntries /\ e.pinned \in BOOLEAN
  BY DEF Memory!Entry
<1>2. (\A x \in Importances : x \in Nat) /\ \A x \in 1..MaxEntries : x \in Nat
  BY DEF MemoryAssumption
<1> QED
  BY <1>1, <1>2

LEMMA BeforeOrders ==
  ASSUME MemoryAssumption, NEW p \in Memory!Entry, NEW q \in Memory!Entry, NEW r \in Memory!Entry
  PROVE  /\ ~ Memory!Before(p, p)
         /\ Memory!Before(p, q) /\ Memory!Before(q, r) => Memory!Before(p, r)
         /\ p.id # q.id => Memory!Before(p, q) \/ Memory!Before(q, p)
BY EntryTyped DEF Memory!Before

(* memorySort puts every memory of the book at its rank. *)
LEMMA SortIsBijection ==
  ASSUME MemoryAssumption, NEW a, NEW m, Book(a, m)
  PROVE  \E f \in [1..Len(a) -> 1..Len(a)] :
           /\ Memory!memorySort(a) = [n \in 1..Len(a) |-> a[f[n]]]
           /\ \A i, j \in 1..Len(a) : f[i] = f[j] => i = j
           /\ \A i \in 1..Len(a) : \E n \in 1..Len(a) : f[n] = i
           /\ \A n \in 1..Len(a) : Memory!Rank(a, f[n]) = n - 1
<1> DEFINE L == Len(a)
           Ahead(i) == {j \in 1..L : Memory!Before(a[j], a[i])}
<1>1. L \in Nat /\ DOMAIN a = 1..L /\ \A i \in 1..L : a[i] \in Memory!Entry
  BY LenProperties DEF Book
<1>2. IsFiniteSet(1..L) /\ Cardinality(1..L) = L
  BY <1>1, FS_Interval
<1>3. \A i \in 1..L : Memory!Rank(a, i) = Cardinality(Ahead(i))
  <2> SUFFICES ASSUME NEW i \in 1..L PROVE Memory!Rank(a, i) = Cardinality(Ahead(i))
    OBVIOUS
  <2>1. {j \in DOMAIN a : Memory!Before(a[j], a[i])} = Ahead(i)
    BY <1>1
  <2> QED
    BY <2>1 DEF Memory!Rank, Memory!Cardinality, Cardinality
<1>4. \A i \in 1..L : IsFiniteSet(Ahead(i)) /\ Cardinality(Ahead(i)) \in 0..(L - 1)
  <2> SUFFICES ASSUME NEW i \in 1..L PROVE IsFiniteSet(Ahead(i)) /\ Cardinality(Ahead(i)) \in 0..(L - 1)
    OBVIOUS
  <2>1. Ahead(i) \in SUBSET ((1..L) \ {i})
    BY <1>1, BeforeOrders
  <2>2. IsFiniteSet((1..L) \ {i}) /\ Cardinality((1..L) \ {i}) = L - 1
    BY <1>2, FS_RemoveElement
  <2> HIDE DEF Ahead
  <2>3. IsFiniteSet(Ahead(i)) /\ Cardinality(Ahead(i)) <= L - 1
    BY <2>1, <2>2, FS_Subset
  <2> QED
    BY <2>3, FS_CardinalityType, <1>1
<1>5. \A i, j \in 1..L : Memory!Before(a[i], a[j]) => Cardinality(Ahead(i)) # Cardinality(Ahead(j))
  <2> SUFFICES ASSUME NEW i \in 1..L, NEW j \in 1..L, Memory!Before(a[i], a[j])
               PROVE  Cardinality(Ahead(i)) # Cardinality(Ahead(j))
    OBVIOUS
  <2>1. Ahead(i) \in SUBSET Ahead(j) /\ i \in Ahead(j) /\ i \notin Ahead(i)
    BY <1>1, BeforeOrders
  <2>2. IsFiniteSet(Ahead(j))
    BY <1>4
  <2> HIDE DEF Ahead
  <2> QED
    BY <2>1, <2>2, FS_Subset
<1>6. \A i, j \in 1..L : Memory!Rank(a, i) = Memory!Rank(a, j) => i = j
  <2> SUFFICES ASSUME NEW i \in 1..L, NEW j \in 1..L, i # j
               PROVE  Cardinality(Ahead(i)) # Cardinality(Ahead(j))
    BY <1>3
  <2>1. a[i].id # a[j].id
    BY <1>1 DEF Book
  <2>2. Memory!Before(a[i], a[j]) \/ Memory!Before(a[j], a[i])
    BY <1>1, <2>1, BeforeOrders
  <2> HIDE DEF Ahead
  <2> QED
    BY <2>2, <1>5
<1> DEFINE g == [i \in 1..L |-> Memory!Rank(a, i) + 1]
<1>7. g \in Injection(1..L, 1..L)
  <2>1. \A i \in 1..L : Memory!Rank(a, i) \in 0..(L - 1)
    BY <1>3, <1>4
  <2>2. g \in [1..L -> 1..L]
    BY <2>1, <1>1
  <2>3. \A i, j \in 1..L : g[i] = g[j] => i = j
    BY <1>6, <2>1
  <2> HIDE DEF g
  <2> QED
    BY <2>2, <2>3 DEF Injection, IsInjective
<1>8. g \in Surjection(1..L, 1..L)
  <2> HIDE DEF g
  <2> QED
    BY <1>7, <1>2, FS_Injection
<1>9. \A n \in 1..L : \E i \in 1..L : Memory!Rank(a, i) = n - 1
  <2> SUFFICES ASSUME NEW n \in 1..L PROVE \E i \in 1..L : Memory!Rank(a, i) = n - 1
    OBVIOUS
  <2>1. PICK i \in 1..L : g[i] = n
    <3> HIDE DEF g
    <3> QED BY <1>8 DEF Surjection
  <2>2. Memory!Rank(a, i) \in Nat
    <3> HIDE DEF Ahead
    <3> QED BY <1>3, <1>4
  <2> QED
    BY <2>1, <2>2
<1> DEFINE f == [n \in 1..L |-> CHOOSE i \in 1..L : Memory!Rank(a, i) = n - 1]
<1>10. f \in [1..L -> 1..L] /\ \A n \in 1..L : Memory!Rank(a, f[n]) = n - 1
  BY <1>9
<1>11. Memory!memorySort(a) = [n \in 1..L |-> a[f[n]]]
  BY <1>1 DEF Memory!memorySort
<1>12. \A i, j \in 1..L : f[i] = f[j] => i = j
  <2> HIDE DEF f
  <2> QED BY <1>10
<1>13. \A i \in 1..L : \E n \in 1..L : f[n] = i
  <2> SUFFICES ASSUME NEW i \in 1..L PROVE \E n \in 1..L : f[n] = i
    OBVIOUS
  <2>1. g[i] \in 1..L /\ Memory!Rank(a, i) = g[i] - 1
    <3>1. Memory!Rank(a, i) \in 0..(L - 1)
      BY <1>3, <1>4
    <3> QED BY <3>1
  <2>2. f[g[i]] = i
    <3> HIDE DEF f
    <3> QED BY <2>1, <1>10, <1>6
  <2> QED
    BY <2>1, <2>2
<1> HIDE DEF f
<1> QED
  BY <1>10, <1>11, <1>12, <1>13
LEMMA SortIsPart ==
  ASSUME MemoryAssumption, NEW a, NEW m, Book(a, m)
  PROVE  /\ PartOf(Memory!memorySort(a), a) /\ Len(Memory!memorySort(a)) = Len(a)
         /\ Memory!Ids(Memory!memorySort(a)) = Memory!Ids(a)
<1>1. PICK f \in [1..Len(a) -> 1..Len(a)] :
        /\ Memory!memorySort(a) = [n \in 1..Len(a) |-> a[f[n]]]
        /\ \A i, j \in 1..Len(a) : f[i] = f[j] => i = j
        /\ \A i \in 1..Len(a) : \E n \in 1..Len(a) : f[n] = i
  BY SortIsBijection
<1>2. Len(a) \in Nat /\ DOMAIN a = 1..Len(a) /\ \A i \in 1..Len(a) : a[i] \in Memory!Entry
  BY LenProperties DEF Book
<1>3. Memory!memorySort(a) \in [1..Len(a) -> Memory!Entry]
  BY <1>1, <1>2
<1>4. Len(Memory!memorySort(a)) = Len(a) /\ DOMAIN Memory!memorySort(a) = 1..Len(a)
  BY <1>2, <1>3, FunctionIsSequence
<1>5. PartOf(Memory!memorySort(a), a)
  <2>1. f \in [1..Len(a) -> DOMAIN a]
    BY <1>2
  <2> QED
    BY <1>1, <1>2, <2>1, Picked
<1>6. Memory!Ids(Memory!memorySort(a)) = Memory!Ids(a)
  <2> DEFINE b == Memory!memorySort(a)
  <2>1. \A n \in 1..Len(a) : f[n] \in 1..Len(a) /\ b[n] = a[f[n]]
    BY <1>1
  <2>2. \A i \in 1..Len(a) : \E n \in 1..Len(a) : b[n] = a[i]
    <3> SUFFICES ASSUME NEW i \in 1..Len(a) PROVE \E n \in 1..Len(a) : b[n] = a[i]
      OBVIOUS
    <3>1. PICK n \in 1..Len(a) : f[n] = i
      BY <1>1
    <3> HIDE DEF b
    <3> QED BY <3>1, <2>1
  <2>3. DOMAIN b = 1..Len(a)
    BY <1>4
  <2> HIDE DEF b
  <2>4. \A e : e \in Memory!Ids(b) <=> e \in Memory!Ids(a)
    <3>1. \A e : e \in Memory!Ids(b) <=> \E i \in 1..Len(a) : e = b[i].id
      BY <2>3 DEF Memory!Ids
    <3>2. \A e : e \in Memory!Ids(a) <=> \E i \in 1..Len(a) : e = a[i].id
      BY <1>2 DEF Memory!Ids
    <3>3. \A n \in 1..Len(a) : \E i \in 1..Len(a) : b[n] = a[i]
      BY <2>1
    <3>4. SUFFICES ASSUME NEW e PROVE (\E i \in 1..Len(a) : e = b[i].id) <=> \E i \in 1..Len(a) : e = a[i].id
      BY <3>1, <3>2, Zenon
    <3>5. ASSUME NEW i \in 1..Len(a), e = b[i].id PROVE \E j \in 1..Len(a) : e = a[j].id
      BY <3>3, <3>5
    <3>6. ASSUME NEW i \in 1..Len(a), e = a[i].id PROVE \E j \in 1..Len(a) : e = b[j].id
      BY <2>2, <3>6
    <3> QED BY <3>5, <3>6
  <2> QED
    BY <2>4 DEF b, Memory!Ids
<1> QED
  BY <1>4, <1>5, <1>6

LEMMA SubSeqIsPart ==
  ASSUME NEW S, NEW a \in Seq(S), NEW i \in Int, NEW n \in Int, 1 <= i, n <= Len(a), i <= n + 1
  PROVE  PartOf(SubSeq(a, i, n), a) /\ Len(SubSeq(a, i, n)) = n - i + 1
<1>1. Len(a) \in Nat /\ DOMAIN a = 1..Len(a) /\ \A k \in 1..Len(a) : a[k] \in S
  BY LenProperties
<1> DEFINE f == [k \in 1..(n - i + 1) |-> i + k - 1]
           b == SubSeq(a, i, n)
<1>2. b \in Seq(S) /\ Len(b) = n - i + 1 /\ \A k \in 1..(n - i + 1) : b[k] = a[i + k - 1]
  BY <1>1, SubSeqProperties
<1>3. n - i + 1 \in Nat /\ f \in [1..(n - i + 1) -> DOMAIN a] /\ \A j, k \in 1..(n - i + 1) : f[j] = f[k] => j = k
  BY <1>1
<1>4. b = [k \in 1..(n - i + 1) |-> b[k]]
  BY <1>2, LenProperties
<1>5. b = [k \in 1..(n - i + 1) |-> a[f[k]]]
  <2> HIDE DEF b
  <2> QED BY <1>2, <1>4
<1> QED
  <2> HIDE DEF f, b
  <2>1. PartOf(b, a)
    BY <1>3, <1>5 DEF PartOf
  <2> QED
    BY <2>1, <1>2 DEF b

LEMMA LastIsPart ==
  ASSUME NEW S, NEW a \in Seq(S), NEW n \in Nat
  PROVE  PartOf(Memory!LastOf(a, n), a) /\ Len(Memory!LastOf(a, n)) <= n
<1>1. Len(a) \in Nat /\ a = SubSeq(a, 1, Len(a))
  BY LenProperties, SubSeqFull
<1>2. PartOf(a, a)
  <2> DEFINE b == SubSeq(a, 1, Len(a))
  <2>1. PartOf(b, a) /\ b = a
    BY <1>1, SubSeqIsPart
  <2> HIDE DEF b
  <2> QED BY <2>1
<1> QED
  BY <1>1, <1>2, SubSeqIsPart DEF Memory!LastOf

LEMMA FirstIsPart ==
  ASSUME NEW S, NEW a \in Seq(S), NEW n \in Nat
  PROVE  PartOf(Memory!FirstOf(a, n), a) /\ Len(Memory!FirstOf(a, n)) <= n
BY LenProperties, SubSeqIsPart DEF Memory!FirstOf

LEMMA WithoutIsPart ==
  ASSUME NEW a \in Seq(Memory!Entry), NEW id \in Memory!Ids(a)
  PROVE  PartOf(Memory!Without(a, id), a) /\ Len(Memory!Without(a, id)) = Len(a) - 1
<1>1. Len(a) \in Nat /\ DOMAIN a = 1..Len(a) /\ \A k \in 1..Len(a) : a[k] \in Memory!Entry
  BY LenProperties
<1> DEFINE i == CHOOSE k \in DOMAIN a : a[k].id = id
           L == Len(a)
           b == SubSeq(a, 1, i - 1) \o SubSeq(a, i + 1, L)
           f == [k \in 1..(L - 1) |-> IF k < i THEN k ELSE k + 1]
<1>2. i \in 1..L
  BY <1>1 DEF Memory!Ids
<1>3. Memory!Without(a, id) = b
  BY DEF Memory!Without, Memory!RemoveAt
<1> HIDE DEF i
<1>4. /\ SubSeq(a, 1, i - 1) \in Seq(Memory!Entry) /\ Len(SubSeq(a, 1, i - 1)) = i - 1
      /\ \A k \in 1..(i - 1) : SubSeq(a, 1, i - 1)[k] = a[k]
  BY <1>1, <1>2, SubSeqProperties
<1>5. /\ SubSeq(a, i + 1, L) \in Seq(Memory!Entry) /\ Len(SubSeq(a, i + 1, L)) = L - i
      /\ \A k \in 1..(L - i) : SubSeq(a, i + 1, L)[k] = a[i + k]
  <2>1. \A k \in (i + 1)..L : a[k] \in Memory!Entry
    BY <1>1, <1>2
  <2>2. /\ SubSeq(a, i + 1, L) \in Seq(Memory!Entry)
        /\ Len(SubSeq(a, i + 1, L)) = IF i + 1 <= L THEN L - (i + 1) + 1 ELSE 0
        /\ \A k \in 1..(L - (i + 1) + 1) : SubSeq(a, i + 1, L)[k] = a[(i + 1) + k - 1]
    <3>1. i + 1 \in Int /\ L \in Int
      BY <1>1, <1>2
    <3> HIDE DEF L
    <3> QED BY <2>1, <3>1, SubSeqProperties
  <2>3. i \in Int /\ L \in Int /\ i <= L
    BY <1>1, <1>2
  <2> HIDE DEF L
  <2>4. (IF i + 1 <= L THEN L - (i + 1) + 1 ELSE 0) = L - i /\ L - (i + 1) + 1 = L - i
    BY <2>3
  <2>5. \A k \in 1..(L - i) : (i + 1) + k - 1 = i + k
    BY <2>3
  <2> QED
    BY <2>2, <2>4, <2>5
<1>6. b \in Seq(Memory!Entry) /\ Len(b) = L - 1 /\ \A k \in 1..(L - 1) : b[k] = a[f[k]]
  <2> DEFINE x == SubSeq(a, 1, i - 1)
             y == SubSeq(a, i + 1, L)
  <2>1. /\ x \in Seq(Memory!Entry) /\ Len(x) = i - 1 /\ \A k \in 1..(i - 1) : x[k] = a[k]
        /\ y \in Seq(Memory!Entry) /\ Len(y) = L - i /\ \A k \in 1..(L - i) : y[k] = a[i + k]
    BY <1>4, <1>5
  <2> HIDE DEF x, y
  <2>2. /\ x \o y \in Seq(Memory!Entry) /\ Len(x \o y) = Len(x) + Len(y)
        /\ \A k \in 1..(Len(x) + Len(y)) : (x \o y)[k] = IF k <= Len(x) THEN x[k] ELSE y[k - Len(x)]
    BY <2>1, ConcatProperties
  <2>3. \A k \in 1..(L - 1) : (x \o y)[k] = a[f[k]]
    BY <2>1, <2>2, <1>1, <1>2
  <2>4. Len(x) + Len(y) = L - 1
    BY <2>1, <1>1, <1>2
  <2>5. x \o y \in Seq(Memory!Entry) /\ Len(x \o y) = L - 1
    BY <2>2, <2>4
  <2> HIDE DEF f
  <2> QED
    BY <2>3, <2>5 DEF x, y
<1>7. L - 1 \in Nat /\ f \in [1..(L - 1) -> DOMAIN a] /\ \A j, k \in 1..(L - 1) : f[j] = f[k] => j = k
  BY <1>1, <1>2
<1>8. b = [k \in 1..(L - 1) |-> b[k]]
  BY <1>6, LenProperties
<1> HIDE DEF b, f
<1>9. PartOf(b, a)
  BY <1>6, <1>7, <1>8 DEF PartOf
<1> QED
  BY <1>3, <1>6, <1>9
(* What an operation on a book keeps. *)
LEMMA AddedIsBook ==
  ASSUME MemoryAssumption, NEW m \in Nat, NEW a, Book(a, m), NEW e \in Memory!Entry, e.id = m + 1,
         e.source = "auto" => \A i \in DOMAIN a : a[i].content # e.content
  PROVE  /\ Book(Append(a, e), m + 1) /\ Len(Append(a, e)) = Len(a) + 1
         /\ \A c : AllOf(a, c) /\ e.of = c => AllOf(Append(a, e), c)
<1>1. Len(a) \in Nat /\ DOMAIN a = 1..Len(a) /\ \A k \in 1..Len(a) : a[k] \in Memory!Entry
  BY LenProperties DEF Book
<1> DEFINE b == Append(a, e)
           L == Len(a)
<1>2. /\ b \in Seq(Memory!Entry) /\ Len(b) = L + 1
      /\ \A i \in 1..L : b[i] = a[i]
      /\ b[L + 1] = e
  BY AppendProperties DEF Book
<1>3. DOMAIN b = 1..(L + 1)
  BY <1>2, LenProperties
<1> HIDE DEF b
<1>4. \A i \in 1..L : b[i].id \in Nat /\ b[i].id <= m /\ i \in DOMAIN a
  BY <1>1, <1>2, EntryTyped DEF Book
<1>5. \A i \in 1..(L + 1) : i # L + 1 => i \in 1..L
  BY <1>1
<1>6. \A i \in DOMAIN b : b[i].id <= m + 1
  BY <1>2, <1>3, <1>4, <1>5
<1>7. \A i, j \in DOMAIN b : b[i].id = b[j].id => i = j
  BY <1>2, <1>3, <1>4, <1>5 DEF Book
<1>8. \A i, j \in Memory!AutoOf(b) : b[i].content = b[j].content => i = j
  <2>1. \A i \in Memory!AutoOf(b) : i = L + 1 \/ (i \in 1..L /\ i \in Memory!AutoOf(a))
    BY <1>2, <1>3, <1>4, <1>5 DEF Memory!AutoOf
  <2>2. L + 1 \in Memory!AutoOf(b) => e.source = "auto"
    BY <1>2 DEF Memory!AutoOf
  <2> QED
    BY <2>1, <2>2, <1>2, <1>4 DEF Book
<1>9. \A c : AllOf(a, c) /\ e.of = c => AllOf(b, c)
  BY <1>2, <1>3, <1>4, <1>5 DEF AllOf
<1> QED
  BY <1>2, <1>6, <1>7, <1>8, <1>9 DEF Book, b

LEMMA ToggledIsBook ==
  ASSUME MemoryAssumption, NEW a, NEW m, Book(a, m), NEW id
  PROVE  /\ Book(Memory!Toggled(a, id), m) /\ Len(Memory!Toggled(a, id)) = Len(a)
         /\ \A c : AllOf(a, c) => AllOf(Memory!Toggled(a, id), c)
<1>1. Len(a) \in Nat /\ DOMAIN a = 1..Len(a) /\ \A k \in 1..Len(a) : a[k] \in Memory!Entry
  BY LenProperties DEF Book
<1> DEFINE b == Memory!Toggled(a, id)
<1>2. \A i \in 1..Len(a) :
        /\ b[i] \in Memory!Entry /\ b[i].id = a[i].id /\ b[i].of = a[i].of
        /\ b[i].content = a[i].content /\ b[i].source = a[i].source
  BY <1>1 DEF Memory!Toggled, Memory!Entry
<1>3. b \in [1..Len(a) -> Memory!Entry]
  BY <1>1, <1>2 DEF Memory!Toggled
<1> HIDE DEF b
<1>4. b \in Seq(Memory!Entry) /\ Len(b) = Len(a) /\ DOMAIN b = 1..Len(a)
  BY <1>1, <1>3, FunctionIsSequence
<1>5. Memory!AutoOf(b) = Memory!AutoOf(a)
  BY <1>1, <1>2, <1>4 DEF Memory!AutoOf
<1>6. \A i \in Memory!AutoOf(a) : i \in 1..Len(a)
  BY <1>1 DEF Memory!AutoOf
<1>7. Book(b, m)
  BY <1>1, <1>2, <1>4, <1>5, <1>6 DEF Book
<1>8. \A c : AllOf(a, c) => AllOf(b, c)
  BY <1>1, <1>2, <1>4 DEF AllOf
<1> QED
  BY <1>4, <1>7, <1>8 DEF b

LEMMA OlderIsBook == ASSUME MemoryAssumption, NEW a, NEW m \in Nat, Book(a, m) PROVE Book(a, m + 1)
<1>1. \A i \in DOMAIN a : a[i] \in Memory!Entry
  BY LenProperties DEF Book
<1>2. \A i \in DOMAIN a : a[i].id \in Nat
  BY <1>1, EntryTyped
<1> QED
  BY <1>2 DEF Book

LEMMA TwoLess ==
  ASSUME NEW n \in Nat, NEW i \in 1..n, NEW j \in 1..n, i # j
  PROVE  IsFiniteSet(((1..n) \ {i}) \ {j}) /\ Cardinality(((1..n) \ {i}) \ {j}) = n - 2
<1>1. IsFiniteSet(1..n) /\ Cardinality(1..n) = n
  BY FS_Interval
<1> DEFINE S == (1..n) \ {i}
<1>2. IsFiniteSet(S) /\ Cardinality(S) = n - 1 /\ j \in S
  BY <1>1, FS_RemoveElement
<1> HIDE DEF S
<1>3. IsFiniteSet(S \ {j}) /\ Cardinality(S \ {j}) = n - 2
  BY <1>2, FS_RemoveElement
<1> QED
  BY <1>3 DEF S

(* What a summary leaves of a book; a pinned memory comes before the one that is added. *)
LEMMA NextIsBook ==
  ASSUME MemoryAssumption, made \in Nat, made < MaxEntries, NEW a, Book(a, made), Len(a) <= BookSize,
         NEW item \in Memory!Item, NEW c \in Own
  PROVE  LET b == Memory!nextMemoryEntries(a, item, c)
         IN  /\ Book(b, made + 1) /\ Len(b) <= BookSize /\ (AllOf(a, c) => AllOf(b, c))
             /\ Memory!Pinned(a) \subseteq Memory!Ids(b)
<1> DEFINE e == [id |-> made + 1, of |-> c, content |-> item.content, importance |-> item.importance,
                 pinned |-> FALSE, source |-> "auto"]
           more == IF ~ Memory!isFreshMemory(a, item) THEN a ELSE Append(a, e)
           s == Memory!memorySort(more)
           b == Memory!FirstOf(s, BookSize)
<1>1. Len(a) \in Nat /\ DOMAIN a = 1..Len(a) /\ \A k \in 1..Len(a) : a[k] \in Memory!Entry
  BY LenProperties DEF Book
<1>2. e \in Memory!Entry /\ e.id = made + 1 /\ e.of = c /\ ~ e.pinned /\ e.content = item.content
  BY DEF Memory!Entry, Memory!Item, MemoryAssumption
<1>3. Book(more, made + 1) /\ (AllOf(a, c) => AllOf(more, c)) /\ Len(more) <= BookSize + 1
  <2>1. CASE ~ Memory!isFreshMemory(a, item)
    BY <2>1, <1>1, OlderIsBook DEF MemoryAssumption
  <2>2. CASE Memory!isFreshMemory(a, item)
    <3>1. \A i \in DOMAIN a : a[i].content # e.content
      BY <2>2, <1>2 DEF Memory!isFreshMemory, Memory!memSimilar
    <3> HIDE DEF e
    <3> QED
      BY <2>2, <3>1, <1>1, <1>2, AddedIsBook DEF MemoryAssumption
  <2> QED
    BY <2>1, <2>2
<1>4. PartOf(s, more) /\ Len(s) = Len(more)
  <2> HIDE DEF more
  <2> QED BY <1>3, SortIsPart
<1>5. Book(s, made + 1) /\ (AllOf(more, c) => AllOf(s, c))
  <2> HIDE DEF more, s
  <2> QED BY <1>3, <1>4, PartIsBook
<1>6. PartOf(b, s) /\ Len(b) <= BookSize
  <2> HIDE DEF s
  <2> QED BY <1>5, FirstIsPart DEF Book, MemoryAssumption
<1>7. Book(b, made + 1) /\ (AllOf(s, c) => AllOf(b, c))
  <2> HIDE DEF b, s
  <2> QED BY <1>5, <1>6, PartIsBook
<1>8. Memory!nextMemoryEntries(a, item, c) = b
  BY DEF Memory!nextMemoryEntries
<1>9. Memory!Pinned(a) \subseteq Memory!Ids(b)
  <2> SUFFICES ASSUME NEW i \in 1..Len(a), a[i].pinned PROVE a[i].id \in Memory!Ids(b)
    BY <1>1 DEF Memory!Pinned
  <2>1. /\ Len(more) \in Nat /\ DOMAIN more = 1..Len(more) /\ \A k \in 1..Len(more) : more[k] \in Memory!Entry
        /\ i \in 1..Len(more) /\ more[i] = a[i]
        /\ Len(more) > BookSize => Len(more) = BookSize + 1 /\ Len(a) = BookSize /\ more[Len(more)] = e
    <3>1. CASE more = a
      <4>1. Len(a) <= BookSize /\ BookSize \in Nat /\ i \in 1..Len(a)
        BY DEF MemoryAssumption
      <4> HIDE DEF more, e
      <4>2. DOMAIN more = 1..Len(more) /\ Len(more) \in Nat
        BY <3>1, <1>1
      <4>3. \A k \in 1..Len(more) : more[k] \in Memory!Entry
        BY <3>1, <1>1
      <4>4. ~ (Len(more) > BookSize)
        BY <3>1, <1>1, <4>1
      <4>5. i \in 1..Len(more) /\ more[i] = a[i]
        BY <3>1, <1>1, <4>1
      <4> QED
        BY <4>2, <4>3, <4>4, <4>5
    <3>2. CASE more = Append(a, e)
      <4> HIDE DEF e
      <4>1. Len(Append(a, e)) = Len(a) + 1 /\ Append(a, e)[Len(a) + 1] = e /\ \A k \in 1..Len(a) : Append(a, e)[k] = a[k]
        BY <1>2, AppendProperties DEF Book
      <4>2. Len(more) \in Nat /\ DOMAIN more = 1..Len(more) /\ \A k \in 1..Len(more) : more[k] \in Memory!Entry
        <5> HIDE DEF more
        <5> QED BY <1>3, LenProperties DEF Book
      <4> HIDE DEF more
      <4>3. Len(more) = Len(a) + 1 /\ more[Len(a) + 1] = e /\ more[i] = a[i]
        BY <4>1, <3>2
      <4>4. i \in 1..Len(more) /\ (Len(more) > BookSize => Len(a) = BookSize)
        <5>1. Len(more) = Len(a) + 1 /\ Len(a) \in Nat /\ BookSize \in Nat
          BY <4>3, <1>1 DEF MemoryAssumption
        <5>2. Len(a) <= BookSize /\ i \in 1..Len(a)
          OBVIOUS
        <5> HIDE DEF b, s
        <5> QED BY <5>1, <5>2
      <4> QED
        BY <4>2, <4>3, <4>4
    <3> QED
      BY <3>1, <3>2
  <2> HIDE DEF more, e
  <2>2. PICK M \in Nat : Len(more) = M
    BY <2>1
  <2>3. PICK f \in [1..M -> 1..M] :
          /\ s = [n \in 1..M |-> more[f[n]]]
          /\ \A k \in 1..M : \E n \in 1..M : f[n] = k
          /\ \A n \in 1..M : Memory!Rank(more, f[n]) = n - 1
    <3>1. \E f \in [1..Len(more) -> 1..Len(more)] :
            /\ s = [n \in 1..Len(more) |-> more[f[n]]]
            /\ \A k \in 1..Len(more) : \E n \in 1..Len(more) : f[n] = k
            /\ \A n \in 1..Len(more) : Memory!Rank(more, f[n]) = n - 1
      BY <1>3, SortIsBijection
    <3> HIDE DEF s
    <3> QED
      BY <3>1, <2>2, Zenon
  <2>4. i \in 1..M /\ DOMAIN more = 1..M /\ \A k \in 1..M : more[k] \in Memory!Entry
    BY <2>1, <2>2
  <2>5. PICK n \in 1..M : f[n] = i
    BY <2>3, <2>4
  <2>6. s[n] = a[i] /\ Memory!Rank(more, i) = n - 1
    BY <2>1, <2>3, <2>5
  <2>7. M > BookSize => M = BookSize + 1 /\ Len(a) = BookSize /\ more[M] = e
    BY <2>1, <2>2
  <2>8. s \in Seq(Memory!Entry) /\ Len(s) = M
    BY <1>4, <1>5, <2>2 DEF Book
  <2> HIDE DEF s
  <2>9. n <= BookSize
    <3> SUFFICES ASSUME n > BookSize PROVE FALSE
      BY DEF MemoryAssumption
    <3>1. BookSize \in Nat
      BY DEF MemoryAssumption
    <3>2. n = M /\ M = BookSize + 1 /\ Len(a) = BookSize /\ more[M] = e
      BY <2>7, <3>1
    <3>3. i # M
      BY <3>1, <3>2
    <3> DEFINE Ahead == {j \in 1..M : Memory!Before(more[j], more[i])}
    <3>4. ~ Memory!Before(more[M], more[i])
      <4>1. ~ more[M].pinned /\ more[i].pinned /\ more[M].pinned \in BOOLEAN /\ more[i].pinned \in BOOLEAN
        BY <1>2, <2>1, <2>4, <3>2, EntryTyped
      <4> QED
        BY <4>1 DEF Memory!Before
    <3>5. ~ Memory!Before(more[i], more[i])
      BY <2>4, BeforeOrders
    <3>6. Ahead \in SUBSET (((1..M) \ {i}) \ {M})
      BY <3>4, <3>5
    <3>7. IsFiniteSet(((1..M) \ {i}) \ {M}) /\ Cardinality(((1..M) \ {i}) \ {M}) = M - 2
      <4>1. M \in 1..M
        BY <3>1, <3>2
      <4> QED
        BY <4>1, <2>4, <3>3, TwoLess
    <3>8. Memory!Rank(more, i) = Cardinality(Ahead)
      BY <2>4 DEF Memory!Rank, Memory!Cardinality, Cardinality
    <3> HIDE DEF Ahead
    <3>9. Cardinality(Ahead) <= M - 2
      BY <3>6, <3>7, FS_Subset
    <3> QED
      BY <2>6, <3>2, <3>8, <3>9
  <2>10. n \in DOMAIN b /\ b[n] = s[n]
    <3> DEFINE L == IF Len(s) < BookSize THEN Len(s) ELSE BookSize
    <3>1. L \in Nat /\ L <= M /\ n \in 1..L
      BY <2>8, <2>9 DEF MemoryAssumption
    <3>2. \A k \in 1..L : s[k] \in Memory!Entry
      BY <2>8, <3>1, LenProperties
    <3>3. b = SubSeq(s, 1, L)
      BY DEF Memory!FirstOf
    <3> HIDE DEF L, b
    <3>4. /\ SubSeq(s, 1, L) \in Seq(Memory!Entry) /\ Len(SubSeq(s, 1, L)) = IF 1 <= L THEN L - 1 + 1 ELSE 0
          /\ \A k \in 1..(L - 1 + 1) : SubSeq(s, 1, L)[k] = s[1 + k - 1]
      BY <3>1, <3>2, SubSeqProperties
    <3>5. Len(b) = L /\ b \in Seq(Memory!Entry) /\ b[n] = s[n]
      BY <3>1, <3>3, <3>4
    <3> QED
      BY <3>1, <3>5, LenProperties
  <2> HIDE DEF b
  <2> QED
    BY <2>6, <2>10 DEF Memory!Ids
<1> HIDE DEF b, s, more, e
<1> QED
  BY <1>3, <1>5, <1>6, <1>7, <1>8, <1>9
(* The books may only change together. *)
LEMMA BooksKept ==
  ASSUME MemoryAssumption, MemoryInv, made' \in {made, made + 1}, made' \in 0..MaxEntries,
         activeId' = activeId, summaries' \subseteq Memory!Summary, asked' \in 0..MaxSummaries,
         strayed' \in BOOLEAN, strayed => strayed',
         lorebook' \in Memory!Books, Book(lorebook', made'),
         ~ strayed' /\ AllOf(lorebook, activeId) => AllOf(lorebook', activeId),
         books' \in {books, [books EXCEPT ![activeId] = lorebook']},
         \E c \in Own, b \in Memory!Books :
           roomBooks' \in {roomBooks, [roomBooks EXCEPT ![c] = b]} /\ Book(b, made')
  PROVE  MemoryInv'
<1>1. made \in Nat /\ activeId \in Own /\ books \in [Own -> Memory!Books] /\ roomBooks \in [Own -> Memory!Books]
  BY DEF MemoryInv, Memory!TypeOK
<1>2. \A c \in Own : Book(books[c], made') /\ Book(roomBooks[c], made')
  BY <1>1, OlderIsBook DEF MemoryInv
<1>3. books' \in [Own -> Memory!Books] /\ \A c \in Own : Book(books'[c], made')
  BY <1>1, <1>2
<1>4. roomBooks' \in [Own -> Memory!Books] /\ \A c \in Own : Book(roomBooks'[c], made')
  BY <1>1, <1>2
<1>5. Memory!TypeOK'
  BY <1>1, <1>3, <1>4 DEF Memory!TypeOK
<1>6. ~ strayed' => AllOf(lorebook', activeId') /\ \A c \in Own \ {activeId'} : AllOf(books'[c], c)
  <2>1. \A c \in Own \ {activeId} : books'[c] = books[c]
    BY <1>1
  <2> QED
    BY <2>1, <1>1 DEF MemoryInv
<1> QED
  BY <1>3, <1>4, <1>5, <1>6 DEF MemoryInv

LEMMA MemoryStarts == ASSUME MemoryAssumption, Memory!Init PROVE MemoryInv
<1>1. <<>> \in Memory!Books /\ Book(<<>>, 0) /\ \A c : AllOf(<<>>, c)
  BY EmptySeq DEF Memory!Books, Book, AllOf, Memory!AutoOf, MemoryAssumption
<1>2. Memory!TypeOK
  <2>1. 0 \in 0..MaxSummaries /\ 0 \in 0..MaxEntries
    BY DEF MemoryAssumption
  <2>2. [c \in Own |-> <<>>] \in [Own -> Memory!Books]
    BY <1>1
  <2> QED
    BY <1>1, <2>1, <2>2 DEF Memory!Init, Memory!TypeOK
<1>3. lorebook = <<>> /\ made = 0 /\ \A c \in Own : books[c] = <<>> /\ roomBooks[c] = <<>>
  BY DEF Memory!Init
<1> QED
  BY <1>1, <1>2, <1>3 DEF MemoryInv

LEMMA EditStep == ASSUME MemoryAssumption, MemoryInv, Memory!Edits PROVE MemoryInv'
<1>1. /\ made \in 0..MaxEntries /\ activeId \in Own /\ lorebook \in Seq(Memory!Entry) /\ Len(lorebook) <= BookSize
      /\ summaries \subseteq Memory!Summary /\ asked \in 0..MaxSummaries /\ strayed \in BOOLEAN
      /\ Book(lorebook, made) /\ roomBooks \in [Own -> Memory!Books]
  BY DEF MemoryInv, Memory!TypeOK, Memory!Books
<1>2. ASSUME NEW c \in Contents, Memory!addManualMemory(c) PROVE MemoryInv'
  <2> DEFINE e == [id |-> made + 1, of |-> activeId, content |-> c, importance |-> 3,
                   pinned |-> FALSE, source |-> "manual"]
             a == Append(lorebook, e)
             b == Memory!LastOf(a, ManualSize)
  <2>1. /\ made < MaxEntries /\ made' = made + 1 /\ lorebook' = b
        /\ books' = [books EXCEPT ![activeId] = b] /\ UNCHANGED <<activeId, roomBooks, summaries, asked, strayed>>
    BY <1>2 DEF Memory!addManualMemory, Memory!updateLorebook, Memory!ownVars
  <2>2. e \in Memory!Entry /\ e.id = made + 1 /\ e.source # "auto" /\ e.of = activeId
    BY <1>1, <2>1 DEF Memory!Entry, MemoryAssumption
  <2> HIDE DEF e
  <2>3. Book(a, made + 1) /\ (AllOf(lorebook, activeId) => AllOf(a, activeId))
    BY <1>1, <2>2, AddedIsBook DEF MemoryAssumption
  <2> HIDE DEF a
  <2>4. PartOf(b, a) /\ Len(b) <= ManualSize
    BY <2>3, LastIsPart DEF Book, MemoryAssumption
  <2>5. Book(b, made + 1) /\ (AllOf(a, activeId) => AllOf(b, activeId))
    <3> HIDE DEF b
    <3> QED BY <2>3, <2>4, PartIsBook
  <2> HIDE DEF b
  <2>6. b \in Memory!Books
    BY <2>4, <2>5, LenProperties DEF Book, Memory!Books, MemoryAssumption
  <2> QED
    BY <1>1, <2>1, <2>3, <2>5, <2>6, BooksKept DEF MemoryAssumption
<1>3. ASSUME NEW id, Memory!updateMemory(id) PROVE MemoryInv'
  <2> DEFINE b == Memory!Toggled(lorebook, id)
  <2>1. /\ made' = made /\ lorebook' = b
        /\ books' = [books EXCEPT ![activeId] = b] /\ UNCHANGED <<activeId, roomBooks, summaries, asked, strayed>>
    BY <1>3 DEF Memory!updateMemory, Memory!updateLorebook, Memory!ownVars
  <2>2. Book(b, made) /\ Len(b) = Len(lorebook) /\ (AllOf(lorebook, activeId) => AllOf(b, activeId))
    BY <1>1, ToggledIsBook
  <2> HIDE DEF b
  <2>3. b \in Memory!Books
    BY <1>1, <2>2 DEF Book, Memory!Books
  <2> QED
    BY <1>1, <2>1, <2>2, <2>3, BooksKept
<1>4. ASSUME NEW id, Memory!deleteMemory(id) PROVE MemoryInv'
  <2> DEFINE b == Memory!Without(lorebook, id)
  <2>1. /\ made' = made /\ lorebook' = b /\ id \in Memory!Ids(lorebook)
        /\ books' = [books EXCEPT ![activeId] = b] /\ UNCHANGED <<activeId, roomBooks, summaries, asked, strayed>>
    BY <1>4 DEF Memory!deleteMemory, Memory!updateLorebook, Memory!ownVars
  <2>2. PartOf(b, lorebook) /\ Len(b) = Len(lorebook) - 1
    BY <1>1, <2>1, WithoutIsPart
  <2> HIDE DEF b
  <2>3. Book(b, made) /\ (AllOf(lorebook, activeId) => AllOf(b, activeId))
    BY <1>1, <2>2, PartIsBook
  <2>4. b \in Memory!Books
    BY <1>1, <2>2, <2>3, LenProperties DEF Book, Memory!Books, MemoryAssumption
  <2> QED
    BY <1>1, <2>1, <2>3, <2>4, BooksKept
<1>5. ASSUME NEW id, Memory!deleteRoomMemory(id) PROVE MemoryInv'
  <2> DEFINE a == roomBooks[activeId]
             b == Memory!Without(a, id)
  <2>1. /\ made' = made /\ lorebook' = lorebook /\ id \in Memory!Ids(a) /\ books' = books
        /\ roomBooks' = [roomBooks EXCEPT ![activeId] = b] /\ UNCHANGED <<activeId, summaries, asked, strayed>>
    BY <1>5 DEF Memory!deleteRoomMemory
  <2>2. Book(a, made) /\ a \in Seq(Memory!Entry) /\ Len(a) <= BookSize
    BY <1>1 DEF MemoryInv, Memory!Books
  <2> HIDE DEF a
  <2>3. PartOf(b, a) /\ Len(b) = Len(a) - 1
    BY <2>1, <2>2, WithoutIsPart
  <2> HIDE DEF b
  <2>4. Book(b, made)
    BY <2>2, <2>3, PartIsBook
  <2>5. b \in Memory!Books
    BY <2>2, <2>3, <2>4, LenProperties DEF Book, Memory!Books, MemoryAssumption
  <2> QED
    BY <1>1, <2>1, <2>4, <2>5, BooksKept DEF MemoryInv, Memory!TypeOK
<1> QED
  BY <1>2, <1>3, <1>4, <1>5 DEF Memory!Edits

LEMMA SummaryStep ==
  ASSUME MemoryAssumption, MemoryInv, NEW s \in summaries, NEW item \in Memory!Item, Memory!summarised(s, item)
  PROVE  MemoryInv' /\ Memory!Pinned(lorebook) \subseteq Memory!Ids(lorebook')
<1>1. /\ made \in Nat /\ made < MaxEntries /\ made' = made + 1 /\ UNCHANGED <<activeId, books, asked>>
      /\ summaries' = summaries \ {s} /\ Memory!saveMemories(s, item)
  BY DEF Memory!summarised, MemoryInv, Memory!TypeOK
<1>2. /\ activeId \in Own /\ lorebook \in Memory!Books /\ lorebook \in Seq(Memory!Entry) /\ Len(lorebook) <= BookSize
      /\ summaries \subseteq Memory!Summary /\ asked \in 0..MaxSummaries /\ strayed \in BOOLEAN
      /\ Book(lorebook, made) /\ roomBooks \in [Own -> Memory!Books]
  BY DEF MemoryInv, Memory!TypeOK, Memory!Books
<1>3. s.viewer \in Own /\ s.room \in BOOLEAN
  BY <1>2 DEF Memory!Summary
<1>4. CASE s.room
  <2> DEFINE a == roomBooks[s.viewer]
             b == Memory!nextMemoryEntries(a, item, s.viewer)
  <2>1. roomBooks' = [roomBooks EXCEPT ![s.viewer] = b] /\ UNCHANGED <<lorebook, strayed>>
    BY <1>1, <1>4 DEF Memory!saveMemories
  <2>2. Book(a, made) /\ Len(a) <= BookSize
    BY <1>2, <1>3 DEF MemoryInv, Memory!Books
  <2> HIDE DEF a
  <2>3. Book(b, made + 1) /\ Len(b) <= BookSize
    BY <1>1, <1>3, <2>2, NextIsBook
  <2> HIDE DEF b
  <2>4. b \in Memory!Books
    BY <2>3 DEF Book, Memory!Books
  <2>5. Memory!Pinned(lorebook) \subseteq Memory!Ids(lorebook)
    BY DEF Memory!Pinned, Memory!Ids
  <2>6. Book(lorebook, made + 1)
    BY <1>1, <1>2, OlderIsBook
  <2>7. MemoryInv'
    <3>1. \E c \in Own, r \in Memory!Books : roomBooks' \in {roomBooks, [roomBooks EXCEPT ![c] = r]} /\ Book(r, made')
      BY <1>1, <1>3, <2>1, <2>3, <2>4
    <3>2. summaries' \subseteq Memory!Summary /\ made' \in 0..MaxEntries /\ Book(lorebook', made')
      BY <1>1, <1>2, <2>1, <2>6 DEF MemoryAssumption
    <3> QED
      BY <1>1, <1>2, <2>1, <3>1, <3>2, BooksKept
  <2> QED
    BY <2>1, <2>5, <2>7
<1>5. CASE ~ s.room
  <2> DEFINE b == Memory!nextMemoryEntries(lorebook, item, s.viewer)
  <2>1. lorebook' = b /\ UNCHANGED roomBooks /\ strayed' = (strayed \/ s.viewer # activeId)
    BY <1>1, <1>5 DEF Memory!saveMemories
  <2>2. /\ Book(b, made + 1) /\ Len(b) <= BookSize /\ (AllOf(lorebook, s.viewer) => AllOf(b, s.viewer))
        /\ Memory!Pinned(lorebook) \subseteq Memory!Ids(b)
    BY <1>1, <1>2, <1>3, NextIsBook
  <2> HIDE DEF b
  <2>3. b \in Memory!Books
    BY <2>2 DEF Book, Memory!Books
  <2>4. \E c \in Own, r \in Memory!Books : roomBooks' \in {roomBooks, [roomBooks EXCEPT ![c] = r]} /\ Book(r, made')
    BY <1>1, <1>2, <2>1, <2>2, <2>3
  <2>5. ~ strayed' /\ AllOf(lorebook, activeId) => AllOf(b, activeId)
    BY <2>1, <2>2
  <2>6. strayed' \in BOOLEAN /\ (strayed => strayed')
    BY <2>1, <1>2
  <2>7. summaries' \subseteq Memory!Summary /\ made' \in 0..MaxEntries
    BY <1>1, <1>2 DEF MemoryAssumption
  <2>8. MemoryInv'
    BY <1>1, <1>2, <2>1, <2>2, <2>3, <2>4, <2>5, <2>6, <2>7, BooksKept
  <2> QED
    BY <2>1, <2>2, <2>8
<1> QED
  BY <1>3, <1>4, <1>5

LEMMA MemoryStep ==
  ASSUME MemoryAssumption, MemoryInv, [Memory!Next]_(Memory!memoryVars)
  PROVE  MemoryInv' /\ Memory!PinnedStayStep
<1>1. CASE Memory!Edits
  BY <1>1, EditStep DEF Memory!Edits, Memory!PinnedStayStep, Memory!addManualMemory, Memory!updateMemory,
     Memory!deleteMemory, Memory!deleteRoomMemory, Memory!ownVars
<1>2. ASSUME NEW c \in Own, Memory!switchAccount(c) PROVE MemoryInv' /\ summaries' = summaries
  BY <1>2 DEF Memory!switchAccount, MemoryInv, Memory!TypeOK
<1>3. ASSUME UNCHANGED <<activeId, lorebook, books, roomBooks, made, strayed>>,
             asked' \in 0..MaxSummaries, summaries' \subseteq Memory!Summary
      PROVE  MemoryInv' /\ Memory!PinnedStayStep
  BY <1>3 DEF MemoryInv, Memory!TypeOK, Memory!PinnedStayStep, Memory!Pinned, Memory!Ids
<1>4. ASSUME NEW room \in BOOLEAN, Memory!processSession(room) PROVE MemoryInv' /\ Memory!PinnedStayStep
  <2>1. [number |-> asked + 1, viewer |-> activeId, room |-> room] \in Memory!Summary
    BY <1>4 DEF Memory!processSession, Memory!Summary, MemoryInv, Memory!TypeOK, MemoryAssumption
  <2> QED
    BY <2>1, <1>3, <1>4 DEF Memory!processSession, MemoryInv, Memory!TypeOK, MemoryAssumption
<1>5. ASSUME NEW s \in summaries, Memory!summaryFailed(s) PROVE MemoryInv' /\ Memory!PinnedStayStep
  BY <1>3, <1>5 DEF Memory!summaryFailed, MemoryInv, Memory!TypeOK
<1>6. CASE UNCHANGED Memory!memoryVars
  BY <1>3, <1>6 DEF Memory!memoryVars, MemoryInv, Memory!TypeOK
<1> QED
  BY <1>1, <1>2, <1>4, <1>5, <1>6, SummaryStep DEF Memory!Next, Memory!Others, Memory!PinnedStayStep

THEOREM BooksAreTrue ==
  ASSUME MemoryAssumption
  PROVE  Memory!Spec => []Memory!BooksTrue /\ Memory!PinnedStay
<1>1. MemoryInv => Memory!BooksTrue
  BY DEF MemoryInv, Memory!BooksTrue, Book, AllOf
<1> QED
  BY <1>1, MemoryStarts, MemoryStep, PTL DEF Memory!Spec, Memory!PinnedStay
=============================================================================
