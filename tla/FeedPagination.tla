--------------------------- MODULE FeedPagination ---------------------------
(***************************************************************************)
(* The pages of the feed that a client shows.  A scope is the account that *)
(* is shown with a revision of what its feed depends on (follows, blocks,  *)
(* profile).  Each kind of feed has a list of pages and at most one        *)
(* current request; a request that was aborted may still be answered.      *)
(*                                                                         *)
(* A render makes the new scope known at once (scopeRef); the effects that *)
(* reset the pages and load follow, and answers may come in between.       *)
(***************************************************************************)
EXTENDS Integers, FiniteSets, FiniteSetsExt

CONSTANTS
  Accounts, None,
  Revisions,      \* revisions of follows, blocks and profile
  PageSize,       \* posts in a page
  Controllers,    \* bound: requests in flight
  MaxPosts        \* bound: posts in an account's feed

Kinds == {"timeline", "recommendations"}
Views == Kinds \cup {"mine"}
Posts == 1..MaxPosts        \* in the order in which they were written
Cursors == 0..MaxPosts      \* 0 asks for the first page, n for what is older than n
FirstPage == 0

VARIABLES
  shown,        \* what the application renders: account, revision, view, visible
  effects,      \* the effects of the last render have not run yet
  initialized,  \* initializedScopeRef
  wasVisible,   \* wasVisibleRef
  timer,        \* the prefetch of recommendations is scheduled
  pages,        \* pagesRef, by kind
  current,      \* requestsRef: the controller of each kind's request
  inFlight,     \* requests without an answer
  newest        \* the newest post in each account's feed, on the server

vars == <<shown, effects, initialized, wasVisible, timer, pages, current, inFlight, newest>>

Scopes == (Accounts \cup {None}) \X Revisions
ScopeOf(s) == <<s.account, s.revision>>
Scope == ScopeOf(shown)              \* feedScopeKey, scopeRef

Shown == [account : Accounts \cup {None}, revision : Revisions, view : Views, visible : BOOLEAN]
FeedPost == [scope : Scopes, number : Posts]
FeedPageState ==
  [fetched : {"never", "fresh", "old"}, error : Cursors \cup {None}, more : BOOLEAN,
   loading : BOOLEAN, loaded : Nat, next : Cursors, posts : SUBSET FeedPost]
INITIAL_PAGE ==
  [fetched |-> "never", error |-> None, more |-> TRUE, loading |-> FALSE, loaded |-> 0,
   next |-> FirstPage, posts |-> {}]
InitialPages == [k \in Kinds |-> INITIAL_PAGE]
FeedRequest == [controller : Controllers, kind : Kinds, cursor : Cursors, scope : Scopes]

TypeOK ==
  /\ shown \in Shown /\ effects \in BOOLEAN /\ wasVisible \in BOOLEAN /\ timer \in BOOLEAN
  /\ initialized \in Scopes \cup {None}
  /\ pages \in [Kinds -> FeedPageState]
  /\ current \in [Kinds -> Controllers \cup {None}]
  /\ inFlight \subseteq FeedRequest
  /\ newest \in [Accounts -> 0..MaxPosts]

Init ==
  /\ shown \in [account : {None}, revision : Revisions, view : {"timeline"}, visible : {FALSE}]
  /\ effects = TRUE
  /\ initialized = None
  /\ wasVisible = FALSE
  /\ timer = FALSE
  /\ pages = InitialPages
  /\ current = [k \in Kinds |-> None]
  /\ inFlight = {}
  /\ newest \in [Accounts -> 0..MaxPosts]

-----------------------------------------------------------------------------
(* Which of the requests in flight the hook still holds. *)
Holds(requests, k, cursor) ==
  \E r \in inFlight : r.controller = requests[k] /\ r.kind = k /\ r.cursor = cursor /\ r.scope = Scope

(* createPageFetcher, on pages ps and requests that an effect may just have reset.           *)
(* A request for the same page is joined, any other one of the kind is aborted.              *)
Fetch(ps, requests, k, cursor) ==
  IF shown.account = None \/ Holds(requests, k, cursor)
  THEN pages' = ps /\ current' = requests /\ UNCHANGED inFlight
  ELSE \E c \in Controllers \ ({r.controller : r \in inFlight} \cup {requests[j] : j \in Kinds}) :
         /\ current' = [requests EXCEPT ![k] = c]
         /\ inFlight' = inFlight \cup {[controller |-> c, kind |-> k, cursor |-> cursor, scope |-> Scope]}
         /\ pages' = [ps EXCEPT ![k].error = None,
                                ![k].loading = cursor # FirstPage \/ ps[k].fetched = "never"]

(* feedFirstPageLoadPlan *)
Plan(ps, requests, k) ==
  CASE Holds(requests, k, FirstPage) -> "join"
    [] ~ Holds(requests, k, FirstPage) /\ ps[k].fetched = "never" -> "foreground"
    [] ~ Holds(requests, k, FirstPage) /\ ps[k].fetched = "fresh" -> "reuse"
    [] ~ Holds(requests, k, FirstPage) /\ ps[k].fetched = "old" -> IF ps[k].loaded > 1 THEN "reuse" ELSE "background"

LoadFirst(ps, requests, k, force) ==
  IF Plan(ps, requests, k) = "join" \/ (~ force /\ Plan(ps, requests, k) = "reuse")
  THEN pages' = ps /\ current' = requests /\ UNCHANGED inFlight
  ELSE Fetch(ps, requests, k, FirstPage)

-----------------------------------------------------------------------------
(* Another account, revision, view or screen is rendered. *)
Render ==
  /\ ~ effects
  /\ shown' \in Shown \ {shown}
  /\ effects' = TRUE
  /\ UNCHANGED <<initialized, wasVisible, timer, pages, current, inFlight, newest>>

(* shouldResetFeedCache; initializedScopeRef *)
LeftFeed == wasVisible /\ ~ shown.visible
KeptScope == initialized = None \/ initialized[1] = shown.account   \* mutant: only another account resets
SameScope == initialized = Scope

AbortedShown == [k \in Kinds |-> shown.account]    \* mutant: the scope is kept instead of a controller
Aborted == [k \in Kinds |-> None]                  \* abortRequests
RunEffects ==
  LET reset == ~ SameScope \/ LeftFeed
      ps == IF reset THEN InitialPages ELSE pages
      requests == IF reset THEN Aborted ELSE current
  IN  /\ effects
      /\ effects' = FALSE
      /\ initialized' = IF SameScope THEN initialized ELSE Scope
      /\ wasVisible' = shown.visible
      /\ timer' = (shown.account # None /\ shown.visible)   \* shouldPrefetchFeed
      /\ IF shown.account # None /\ shown.visible /\ shown.view # "mine"
         THEN LoadFirst(ps, requests, shown.view, FALSE)
         ELSE pages' = ps /\ current' = requests /\ UNCHANGED inFlight
      /\ UNCHANGED <<shown, newest>>

(* The timer of an earlier render may fire before the effects clear it. *)
Prefetch ==
  /\ timer
  /\ timer' = FALSE
  /\ LoadFirst(pages, current, "recommendations", FALSE)
  /\ UNCHANGED <<shown, effects, initialized, wasVisible, newest>>

ActiveKind == IF shown.view = "recommendations" THEN "recommendations" ELSE "timeline"

(* loadNextPage, from the end of the list that is on the screen. *)
MayLoadNext(k) == ~ pages[k].loading /\ pages[k].more /\ current[k] = None
LoadMore ==
  LET k == ActiveKind
  IN  /\ shown.visible /\ shown.account # None
      /\ IF pages[k].fetched = "never" THEN LoadFirst(pages, current, k, FALSE)
         ELSE MayLoadNext(k) /\ Fetch(pages, current, k, pages[k].next)
      /\ UNCHANGED <<shown, effects, initialized, wasVisible, timer, newest>>

(* retryPage: its button is shown with an error. *)
Retry ==
  LET k == ActiveKind
  IN  /\ shown.visible /\ pages[k].error # None
      /\ IF pages[k].error = FirstPage THEN LoadFirst(pages, current, k, TRUE)
         ELSE Fetch(pages, current, k, pages[k].next)
      /\ UNCHANGED <<shown, effects, initialized, wasVisible, timer, newest>>

-----------------------------------------------------------------------------
(* isCurrentRequest *)
IsCurrent(r) == current[r.kind] = r.controller /\ r.scope = Scope

(* GET /feed: the newest posts that are older than the cursor. *)
Older(r) == {n \in Posts : n <= newest[r.scope[1]] /\ (r.cursor # FirstPage => n < r.cursor)}
PageOf(r) == {n \in Older(r) : Cardinality({m \in Older(r) : m > n}) < PageSize}

Appended(page, r) == [page EXCEPT !.posts = @ \cup {[scope |-> r.scope, number |-> n] : n \in PageOf(r)},
                                  !.more = PageOf(r) # Older(r), !.error = None, !.loading = FALSE,
                                  !.next = IF PageOf(r) # Older(r) THEN Min(PageOf(r)) ELSE FirstPage]
MergedFirst(page, r) ==            \* mutant: a new first page is merged into the list
  IF r.cursor = FirstPage
  THEN [Appended(page, r) EXCEPT !.fetched = "fresh", !.loaded = 1]
  ELSE [Appended(page, r) EXCEPT !.loaded = @ + 1]
(* applyPage: a first page replaces the list, another one is merged at its end. *)
ApplyPage(page, r) ==
  IF r.cursor = FirstPage
  THEN [Appended(INITIAL_PAGE, r) EXCEPT !.fetched = "fresh", !.loaded = 1]
  ELSE [Appended(page, r) EXCEPT !.loaded = @ + 1]

ErrorLoading(page, r) == [page EXCEPT !.error = r.cursor]   \* mutant: still shown as loading
(* applyError: the list stays when its renewal in the background fails. *)
ApplyError(page, r) ==
  IF r.cursor = FirstPage /\ page.fetched # "never" THEN [page EXCEPT !.loading = FALSE]
  ELSE [page EXCEPT !.error = r.cursor, !.loading = FALSE]

(* executeRequest after the answer, which may also be that of an aborted request. *)
Answer(r) ==
  /\ r \in inFlight
  /\ inFlight' = inFlight \ {r}
  /\ IF IsCurrent(r)
     THEN /\ pages' \in {[pages EXCEPT ![r.kind] = ApplyPage(@, r)], [pages EXCEPT ![r.kind] = ApplyError(@, r)]}
          /\ current' = [current EXCEPT ![r.kind] = None]
     ELSE UNCHANGED <<pages, current>>
  /\ UNCHANGED <<shown, effects, initialized, wasVisible, timer, newest>>

(* FEED_FIRST_PAGE_TTL_MS pass. *)
Expire(k) ==
  /\ pages[k].fetched = "fresh"
  /\ pages' = [pages EXCEPT ![k].fetched = "old"]
  /\ UNCHANGED <<shown, effects, initialized, wasVisible, timer, current, inFlight, newest>>

(* Someone the account follows posts. *)
Post(a) ==
  /\ newest[a] < MaxPosts
  /\ newest' = [newest EXCEPT ![a] = @ + 1]
  /\ UNCHANGED <<shown, effects, initialized, wasVisible, timer, pages, current, inFlight>>

Next ==
  \/ Render \/ RunEffects \/ Prefetch \/ LoadMore \/ Retry
  \/ \E r \in inFlight : Answer(r)
  \/ \E k \in Kinds : Expire(k)
  \/ \E a \in Accounts : Post(a)

Spec == Init /\ [][Next]_vars

-----------------------------------------------------------------------------
(* visiblePages: until the effects have run for a scope, nothing of an earlier one is shown. *)
VisiblePage(k) == IF SameScope THEN pages[k] ELSE INITIAL_PAGE

(* A list shows posts of the account and revision on the screen only, though answers to      *)
(* requests for others keep coming.                                                          *)
ShownInScope == \A k \in Kinds : \A p \in VisiblePage(k).posts : p.scope = Scope

(* A list has no gap: pages of different loads never stand one after the other, and the      *)
(* next page asked for is the one that follows.                                              *)
NoGap ==
  \A k \in Kinds :
    LET numbers == {p.number : p \in VisiblePage(k).posts}
    IN  /\ \A m, n \in numbers : m..n \subseteq numbers
        /\ VisiblePage(k).next # FirstPage => numbers # {} /\ VisiblePage(k).next = Min(numbers)

(* A list that shows that it is loading has a request whose answer it will take. *)
LoadingEnds ==
  \A k \in Kinds : VisiblePage(k).loading => \E r \in inFlight : r.kind = k /\ IsCurrent(r)

(* What the user sees of the feed (useFeedPagination.ts): posts of the account and revision on *)
(* the screen only, every post between the newest and the last one shown, and a list that says *)
(* that it loads only while an answer to it is on its way.                                     *)
ListsTrue == ShownInScope /\ NoGap /\ LoadingEnds
=============================================================================
