# alive: TLA+ models, model checks and proofs

`alive` is a social application in which people create AI characters that post
to a feed and talk in direct messages. A React client (also packaged for iOS and
Android with Capacitor) talks to a FastAPI server with a PostgreSQL database.
AI calls cost credits or energy; credits are bought in Apps in Toss, Google Play
or the App Store. This directory holds TLA+ modules of the parts of that program
in which several requests, background jobs, stores and clients change the same
data, or in which a client's answers come in any order; the TLC configurations that
check them on small instances; and proofs for TLAPS.

Contents: 1 inventory, 2 plan, 3 modules, 4 runs, 5 fairness, 6 disagreements,
7 proofs, 8 what is not modelled.

## 1. Inventory

### 1.1 The server

One server process serves requests concurrently and runs background tasks in the
same event loop; several such processes may share the database. Every request and
every background iteration has one SQLAlchemy session (`db/session.py`), opened
with `expire_on_commit=False` and the isolation level READ COMMITTED. Three facts
about it shape the server's models:

* a transaction is atomic, and rows selected `FOR UPDATE` stay locked until it ends;
* an object that the session already holds is **not refreshed** when the same row is
  selected again, with a lock or without, so what is decided under the lock may be
  decided from an older read;
* only the columns whose values changed against that older read are written.

| Component | State it keeps | Operations | Hard behaviour |
|---|---|---|---|
| Metered AI calls: `repositories/credits.py`, `repositories/ai_usage.py`, `services/ai.py` | `credit_accounts`, `energy_accounts`, `credit_usages`, `credit_ledger_entries`, `reward_grants`, `ai_daily_usage`, `ai_monthly_usage` | reserve, reserve cost, mark started, settle cost, commit, refund, expire, snapshot, reward | a call is five transactions with a provider call between them; retries with one idempotency key; expiry against late answers; limits under concurrency |
| Credit purchases: `repositories/credit_purchases.py` and the services of the three stores | `credit_purchases`, the account's purchased balance and debt, ledger | apply, refund, restore, reconcile, consume, poll, purge | the client, notifications and polls tell of one order at once, in any order, repeatedly; stale rows |
| Notification inbox: `google_play_rtdn_events.py`, `app_store_notification_events.py` | one row per notification, `processing`, `failed`, `completed` | claim, complete, fail | redelivery while an attempt runs or after it died |
| Feed posts: `services/feed_generation.py`, `repositories/character_posts.py` | `characters.feed_posts`, `posts_revision`, `shared_characters.feed_posts` | generate, save with a revision, comment | the writer was read before the provider call |
| Automatic posts: `services/auto_post_scheduler.py`, `repositories/auto_posts.py` | `auto_post_next_at`, `auto_post_claimed_at`, failures | claim with a lease, generate, retry, release | two workers, a lease that ends while one is slow |
| Feed query: `repositories/feed.py` | none (a cursor) | first page, next page | rows inserted between pages |
| Profiles, characters, relationships, likes, direct messages, moderation | JSON columns and link tables | upserts, replace, toggle, remove | last writer wins, lists edited by position |
| Accounts: sign-in, native OAuth codes, deletion, purge | `users`, one-time codes, deletion schedule | register, exchange, request deletion, restore, purge | restoration against a purge that has begun |
| Media | files and `media_assets` | store, reference, collect | files without rows and rows without files |

### 1.2 The client

The client is one page. Its state is React state, and refs that stand for what the
last render knew; every request ends in a continuation that runs in a later event, on
the state it captured or on the refs as they are then. That is where its
hazards are: an answer that belongs to another account, scope, room or
draft than the one on the screen, answers out of order, lost answers, and an
effect that runs between two of them.

| Component | State it keeps | Operations | Hard behaviour |
|---|---|---|---|
| Feed pagination: `hooks/useFeedPagination.ts`, `domain/feed/feedPageCache.ts`, `api/feed.ts` | scope, pages for each kind of feed, current request, cache of the first page | render, reset, prefetch, load more, retry, answer | answers of an older scope or page, aborted requests that answer, cache against expiry |
| Client feed posts: `hooks/useAliveFeed.ts`, `api/characterPosts.ts` | the list and its revision, a queue of changes | ask, save with a revision, one retry on the latest list, generated posts, comments | changes wait while others are saved, refused or lose their answer |
| Likes: `hooks/useAliveFeed.ts`, `api/postLikes.ts` | what is shown of each post, the likes that wait, the character shown | toggle, ask again | answers for another character; a character that is left and shown again with a change on its way |
| Persistence and bootstrap: `useAliveSessionBootstrap.ts`, `useAliveProfileBootstrap.ts`, `useAliveAutosave.ts`, `useAliveStructuredPersistence.ts` | session, loaded profile, browser copy, debounce timer, saves on their way | ask for the session, load, save, sign out, revoke, reload | a second user of the device; saves that are not sequenced; an old copy shown first |
| DM rooms: `useAliveDm*.ts`, `dmKeyUtils` | rooms, drafts, sending flags, tombstones | talk, automatic conversation, delete, leave, save, reload | a reply that comes after the room was left, changed or deleted |
| Follows, relationships, discovery: `useAliveFollowActions.ts`, `useAliveRelationshipMutations.ts`, `useAliveDiscover(.Sync).ts` | follow lists, labels and affinities, proposals, numbers of followers | follow, snapshot, make private, converse, propose, judge, list, link | refusals after a snapshot was sent, proposals generated while another is decided, numbers changed by one and asked again |
| Characters: `useAliveCharacterLifecycle.ts`, `useCharacterHandleAvailability.ts` | list of accounts, the one on the screen, drafts, a handle's check | draft, save, open, delete, upload, analyse, type | a save that fails or loses its answer and is repeated; answers for an earlier handle |
| Memories: `useAliveMemory.tsx` | books of characters and of rooms | write, pin, remove, summarise | two summaries land on a full book |
| Safety gate: `useAliveSafety.ts` | terms, blocks, reports | load, accept, block, report, retry | loads of one user answered for the next |
| Sign-in from the shells: `api/auth.ts` and its bridges | browser over the app, links, codes | open, close, link, exchange, reload | the browser closes, its link comes before, after, twice or never |
| Purchase clients: `features/credits/*` | store data, recovery, purchases under way | open the store, buy, recover, retry | the app is closed between payment, grant and acknowledgement |
| Displays and navigation: `CreditShortcut.tsx` and others, `useAliveNavigation.ts` | balances, costs, history entries | show, refresh, go back | two displays ask for themselves; a popstate between a click and its effect |

How the parts interact: a feed post or a message is generated through the metered call
(`AiService.generate`), whose commit shares the transaction that saves the post; the
automatic post's idempotency key is its scheduled time. A purchase changes the
balance a metered call takes from. The purge of an account removes the rows of all of
them and keeps the purchases without their user. The client repeats calls with the same
idempotency key and saves feed posts with the revision it last saw. Within the client,
persistence loads and saves what the other hooks change; follows, relationships and posts
send requests of their own beside it.

### 1.3 What makes each component correct

* metered calls: credits are neither lost nor made; the ledger explains the balances;
  one charge per key, decided once; an answer agrees with its charge; limits hold under
  concurrency; a reservation is always decided in the end;
* purchases: an order is granted once, taken back once, given again once, always
  entirely; balance, debt and spending are explained by the purchases; a token is consumed
  only after its grant; the first purchase bonus is given once to a person;
* inbox: no notification is processed by two attempts at once, what is called complete is
  done and stays so, a failure that was reported is tried again;
* posts: no post or comment disappears that its writer did not remove, every generated
  post is paid and every paid one is posted, the public copy equals the owner's;
* feed and likes: what is shown belongs to the scope that is shown, without a gap; a like that waits is
  not changed by an answer to something else; loading ends;
* persistence and rooms: what is shown and saved is the signed-in user's; a save does not put an
  older row over a newer one; replies stand in their room after their message; a deleted room
  stays deleted; waiting ends;
* follows, relationships, discovery: when the answers are in, screen and server agree; a
  decision stays decided; love ends only by a decision;
* characters, memories, gate, sign-in, displays: one draft is one character; a handle's status is
  the typed handle's; books hold no duplicate and keep what is pinned; nobody passes the gate on
  another one's consent; busy means a request is under way; balances shown were the server's;
* purchase clients: the store is told only of what was granted; purchase and recovery do
  not run on one order; what was paid is granted when the buyer comes back.

`PROJECT.json` lists under "hazards" the places of the source where these can go wrong, with the
properties that would show it. Four have no property, because the code does not keep
it: saves that are not sequenced (`useAliveAutosave.ts:81`), a redelivery that is acknowledged while an attempt fails (`google_play_rtdn.py:79`), a
snapshot of follows that arrives after an unfollow (`useAliveDiscover.ts:256`) and the answer of
a character's save that works on the accounts of an earlier render (`useAliveCharacterLifecycle.ts:167`).
More places were read and left out of the list because no module reaches them; section 8 names them.

## 2. Plan

The order was: metered calls, purchases, posts, inbox, feed pagination; then the client by what
an answer can do to it: persistence, posts and likes, rooms, follows and relationships, purchases,
characters, and the small screens. All of these are written and checked.

Server modules have an abstract specification where there is a promise to state in a few
lines (`KeyedCharge`, `OrderEntitlement`). The client's modules are small and share no state, so their
MC modules choose in the initial state which of them moves: state spaces add up and do not multiply.

Proved: everything in section 7; section 7.5 says what is left to TLC, and why. Of that, what could still be
proved are the types of the four environments of a device together, and the combined properties of `MCScreens` over
its shared variables; both need the proofs of the components repeated for another choice of variables.

## 3. Modules

### 3.1 Metered calls

`CreditUsage` models `CreditRepository`, `AiUsageRepository` and the order in which
`services/ai.py` calls them. A request `r` runs through `pc[r]`: `new`, `cost`, `start`,
`provider`, `commit` or `refund`, `done`. One action is one transaction:

| Action | Code |
|---|---|
| `Reserve` = `ReserveDuplicate`, `ReserveRefused`, `ReserveAdmitted` | `CreditRepository.reserve`, with energy recovery, expiry of stale rows and the signup reward |
| `ReserveCost` | `AiUsageRepository.reserve` and the refusal that leads to a refund |
| `MarkStarted`, `SettleCost` | `mark_provider_started`, the provider's answer and `AiUsageRepository.settle` |
| `Commit`, `Refund` | `commit_usage`, `refund_usage` with the first message's reward |
| `Snapshot`, `GrantFirstCharacter` | `GET /credits`, the reward of a first character |
| `Abandon` | the server stops or a second cancellation escapes between two transactions |

Each of these transactions locks the user's `credit_accounts` row first, which is what
makes it one step; the daily and monthly rows are updated with locks of their own inside
the same step. Money is counted in credits, energy in percent, cost in units. The amounts
of `core/credit_policy.py` are the constant `Policy`; the month and the day are `Tick`s
divided by constants.

`KeyedCharge` is what a user sees of it: each idempotency key is charged at most once,
for one amount, and the charge is decided once.

### 3.2 Purchases

`CreditPurchases` models `CreditPurchaseRepository` and the services around it.
`history[o]` is the list of states an order has had in its store, which is external;
`Answers` says what a verified answer may be: the current state for Apps in Toss and
Google Play, any state so far for a signed App Store transaction. A handler is a request, a
notification or a poll: it starts with what the store answered (`ClientGrant`,
`PurchaseNotice`, `RefundNotice`, `Poll`), continues in transactions (`Apply`,
`ReadPurchase`, `Reconcile`, `Consume`, `Mark`) and may be lost between any two of them.
`handler[h].seen` is the row as the session holds it when it was read before it was
locked; `Write` writes the columns that differ from it. `Spend` and `GiveBack` stand for
the metered calls, `Purge` and `Register` for account deletion and a new sign-in.

`OrderEntitlement` is the promise: an order's credits are granted once, taken back
once, given again once, always all of them, and never after its account is gone.

### 3.3 Feed posts

`CharacterPosts` models one character's row, its snapshot in `shared_characters`, what
each of the owner's devices shows, and the server's sessions that generate posts. Texts
are left out: a post or a comment is a number, `gone` the ones that a client removed or
that the limit of the list pushed out.

| Action | Code |
|---|---|
| `Load`, `Save`, `Comment` | `CharacterPostsRepository.get`, `save`, `append_public_comment` |
| `EditProfile`, `UpdateVisibility`, `UpdateAutoPost` | `CharacterRepository.save`, `update_visibility`; `update_auto_post` with `next_auto_post_schedule` |
| `Claim`, `Request` | `AutoPostRepository.claim_next`; the owner's request for a post |
| `Read`, `Reserve`, `Provide`, `Cancel` | `FeedGenerationService.generate` up to the provider's answer |
| `Persist`, `Reject`, `Fail`, `Release` | `append_generated_post` with the commit of the charge, and the error paths |
| `Expire`, `Crash` | expiry of reservations by another query; the server stops |

`session[s].seen` is the row as the session read it in `Read`. The later transactions lock
the row and still see `seen`, and `Written` writes the columns that differ from it. The
metered call is reduced to the status of its row in `credit_usages`; `CreditUsage` says
who is refused.

### 3.4 Notification inboxes

`NotificationInbox` models the two tables of store notifications and the handlers around
them, which differ in names only. A delivery (`Deliver`) inserts the event or takes it over
(`Retry`: failed, or in processing for longer than ten minutes), and is acknowledged at
once if it can do neither. `Apply` is the work, which `CreditPurchases` models: here it is
committed or not when the handler continues. `Complete` and `Fail` mark the event by its id,
`Crash` stops the server. `Fail` may leave the event in processing, because it uses
the session of the work that failed. A store delivers a message again until it has an
acknowledgement, and sometimes after it.

### 3.5 Feed pagination

`FeedPagination` models `useFeedPagination.ts`, the first page's cache and the query as a client
sees it. A scope is the account shown with a revision of what its feed depends on. `Render` makes the
new scope known at once (`scopeRef`), `RunEffects` resets the pages later; answers may come in
between.

| Action | Code |
|---|---|
| `Render`, `RunEffects`, `Prefetch` | the render that changes the scope, its effects, the prefetch timer |
| `LoadMore`, `Retry` | the two calls of the list |
| `Answer`, `Expire` | the continuation after `fetchFeedPage`; the cache's time to live |
| `Post` | somebody posts while pages are shown |

### 3.6 The client's posts and likes

`ClientPosts` models the refs of `useAliveFeed.ts` (the list, its revision), the queue of changes and what
the server has. `Ask` queues a change; `Mutations` runs the first one: `Persist` applies it to the
list as it is then and shows it, `Saved` or a refusal follow, `ReadLatest` and `Retry` apply it once
more to the latest list. `Refresh`, `SetAuto` and `Answer` are the other requests that
overwrite the refs, `Draft` and `DraftDone` a generated post, `Switch` another character, `Elsewhere`
the scheduler's and the visitors' writes (`CharacterPosts`).

`FollowedLikes` has the likes a character gives: `Toggle` shows one at once and sends it, `Requery` asks for all again,
`ServeQuery`, `ServeUpdate` are the server, `QueryAnswered`, `UpdateAnswered`, `UpdateFailed` the
continuations. What the code compares is the character (`activeRef`), not the request: `Show` with another character empties
`pending`, and a change that is still on its way then is answered like any other when its character is shown again. The number `id` of an update
stands for the request itself, so that two equal ones have two answers; `left` remembers the likes such a visit left behind.

### 3.7 Persistence, bootstrap and DM rooms

`ClientPersistence` models a device: the questions for the session, the profile's load, the
browser's copy, the debounced autosave of two requests (the backup in the profile, then the rows), sign-out, expiry,
revocation and the reload of the page. A question is answered with a user, with an error, or rejected, as `fetch` is when there is no answer
(`QueryAnswered`, `QueryRejected`): only the first question's rejection frees the screen. `FallbackDue` and `AskSlow` are the two timers, 7 seconds after the page and
8 seconds into a wait; each fires once (`fallback`, `asked`). A user signs in on a new page, or without leaving it (fault `in_place`: the shells and Apps in Toss);
then saves on their way go on, each request with the session there is when it leaves (`Continued`), and `spilled` has the users in whose
session another's save went on. A page that goes leaves behind what was sent (`Orphans`). A part of the state is the version that last changed it, a user and a number, so that
"whose" and "which is newer" can be said of what is shown, what is stored and what a request
carries.

`DirectMessages` has the rooms of one character: `Enter`, `Talk` with its reply, `AutoTalk` with its loop of
lines, `Delete` with a tombstone, `Save` and `Reload`. A request keeps its number and the room's key, the two things
the continuations in `useAliveDmGeneration.ts` compare (`IsCurrent`). `ClientRooms` puts the two side by side.

### 3.8 Follows, relationships and discovery

`Follows`: the list of the character shown changes at once, requests follow; `Serve`, `Fail` and the answers come in
any order; `Autosave` writes all lists again; `SyncRelations` lets lovers be followed and follow back;
`MakePrivate` has a target refuse. `Relationships`: affinities in -100..100 and their labels, for each
direction of a pair; `RunEffect` adjusts the labels after a change, `Conversation` moves the affinities,
`ShowProposal` and `JudgeAcceptance` are the continuations of the two requests of a proposal. Labels are
grouped by what the rules tell apart. `Discovery`: the lists of others' characters, the character of a link, the numbers
of followers and the modal of followers; each asks for itself.

### 3.9 Purchase clients

`PurchaseClients` models the credit store in the three builds: its data, the recovery of
what the store still lists, and purchases. A purchase or recovery is a chain of awaited calls in one
slot of `job`: `Pay` or `NoSheet`, `AskStore`, `Grant` for each order, `Tell`, `AskHistory`, `Finish`
or `Throw`. `Screen` opens and leaves the store, restarts the app, changes the user. The server and
the stores are what the client knows of them; `CreditPurchases` is the other side.

### 3.10 Characters and small screens

| Module | Models |
|---|---|
| `CharacterAccounts` | the list of an owner's characters and the one on the screen, which is folded into the list by `persistActiveAccount` only; drafts, saves, deletion, uploads, analysis |
| `HandleAvailability` | the typed handle, its timer, requests with a sequence number, the shown status |
| `CharacterMemories` | the books of two characters and of rooms; edits, pins, summaries |
| `SafetyGate` | terms, blocks and reports of two users on one device |
| `NativeSignIn` | the browser over the app, deep links, one-time codes, the dialogs of Apple and Toss, reloads; the questions for the session with errors and rejections, and the two timers (`fallback`, `waited`) |
| `CreditDisplays` | the shortcut, the missions, the line above the message box and the hints beside buttons |
| `Navigation` | steps, the history's entries, popstate, and the effects that write an entry: that of the screen, which runs only when something it depends on has changed, and that of a draft's text (`writeDraft`) |

Two abstractions are common to the client's modules. A click and the render and effects it causes
are one step unless an effect is deferred in the code (timers, `RunEffects`, the history's
effect). A request is a record with what its continuation captured; it is served and answered in
separate steps where the order of serving matters, and in one where it does not. In `CharacterAccounts`,
`CharacterMemories`, `SafetyGate` and `Follows` a behaviour, or what is claimed of it, ends at an answer
that works on a state the user has left (`strayed`), because the code then does overwrite newer state; the header of each
module and section 6 say how.

### 3.11 MC modules

`MCCreditUsage`, `MCCreditPurchases`, `MCCharacterPosts`, `MCNotificationInbox`, `MCClientPosts`, `MCClientPersistence` and
`MCScreens` give the constants values and let a behaviour run one of several parts (`part`), each an instance of a
module with values of its own. Where parts differ in their bounds only, they share one instance and the bounds stand in
the step: the three parts of discovery (`Find`) and the two of the rooms (`Dm`). In `MCScreens` all parts but the feed keep their variables in the same
twenty (`v1`..`v20`), since TLC pays for every variable in every state. `MCNotificationInbox` puts the two ends of a store
purchase side by side.

## 4. What the runs check

| Run | Parts and bounds | What it shows |
|---|---|---|
| `usage` | *credits*: 2 requests, 2 keys, 2 flows, one user with 2 credits and 70 % energy, clock to 2 with expiry after 1, requests may outlive their reservation. *limits*: 4 flows, two days, a month's budget of 3 that one costly call nearly exhausts, punctual requests | conservation, ledger, energy, the abstract specification, limits, honest answers; every reservation is decided |
| `purchases` | *toss*: 1 handler, 2 orders of one person with two accounts, price 6, 3 store events. *google*: 2 handlers, 1 order, 3 store states. *apple*: 2 handlers, 1 order, 4 store states, price 6 | refunds take all back, balance and debt, one first bonus, each order once, consumption after grant, audit; polls carry refunds and payments |
| `posts` | *edit*: 2 devices, a list of 2 posts, 4 items, 2 profiles. *late*: 1 session that may crash at each step, 1 key repeated, not punctual. *auto*: 2 workers, clock to 5 with interval and lease 2, 3 items | nothing lost among editing clients and visitors, the public snapshot; a charge is decided once, what it paid for is posted; a dead worker's claim is taken over |
| `inbox` | *inbox*: 2 notifications, 2 attempts, clock to 4 with claims stale after 1. *client*: 1 order, 2 users, 3 platforms, 1 slot | one attempt at a time, completed is done, failures retried; what a buyer paid is granted when the store is opened again |
| `client_posts` | *own*: 1 character, 2 items, 2 changes, 2 revisions, 1 answer on its way. *likes*: 2 characters, 1 post, 2 changes on their way, lost answers. *found*, *linked*, *modal*: one target, two own characters, 4, 3, 5 requests | nothing lost that a change did not remove, every change decided; a like that waits is moved by an answer to a change of it only; discovery settles |
| `client_state` | *shared*: 2 users, rooms, on one page or on new ones. *handed*: 2 users, one signs in while the other's save is between its requests. *alone*: failures, 2 edits. *in_place*: sign-in without a new page while questions fail or are rejected. *slow*: answers later than the timers, saves that outlive the page. *eventful*: failures, rooms, expiry, revocation, closing. *rooms*, *auto*: a character's rooms with one other, 2 sends; with saves and reloads of at most two rooms (`TwoRooms`); with automatic conversations of 2 lines in one room (`OneRoom`) | what is shown and saved is the user's own; rows never go back without the browser's copy; loading and waiting end; replies follow their message; deleted stays deleted |
| `screens` | *feed* (1 account, 2 revisions, pages of 1, 2 posts, 2 controllers), *follows* (2 characters), *relations* (1 pair in both directions), *shop* (2 orders, 2 slots, opened once), *accounts* (2 ids, 2 requests), *handle* (3 typed), *pages* (2 entries), *memories* (books of 2, 2 summaries), *safety* (2 users, 3 requests), *signin* (1 code, 1 failure, 1 reload, 2 sign-ins begun, 2 questions under way), *balances* and *hints* (2 flows, 2 requests) | each screen's correctness of 1.3 |
| `purchase_google_stale`, `purchase_apple_reversal`, `posts_lost`, `state_copy`, `session_revoked` | as the runs above | the disagreements of section 6 |

Why the bounds are enough. Two requests with two keys give a retry, a pair of concurrent
calls and an expiry of one by the other; a clock of two ticks with a time to live of
one lets a row expire, its owner answer late and energy recover in between. A flow near
its limit with opening balances that pay for one call and not for two makes every
branch of the charge happen. Two orders give a debt and its repayment, and a first and a
second purchase; two handlers on one order give a grant between another
handler's read and its write. Four store states reach refund, reversal and second refund.
A list of two posts with four items fills up and pushes the oldest out; a clock of five ticks
holds two intervals and a lease that ends in between, so a second worker takes a claim over.
Two attempts and two notifications in the inbox give a second delivery in each step of the first
and an attempt on another notification beside it; the clock lets a claim go stale three times.

In the client an error needs one thing on the screen and one answer that is not about it: two users,
two characters, two rooms or two revisions. A third of them only repeats the relation between the other
two. Two changes in the posts' queue make one wait while the other is refused and retried. Pages of one post with two posts make a
second page and a cursor; a post that arrives in between moves the cursor. Where a larger bound was found to matter it is
said so: a comment is removed by its position, and two comments of one post that move against each other need three items
(section 6).

Every bound is a constant (`NumRequests`, `MaxTime`, `MaxEvents`, `MaxItems`, `MaxRevision`, `MaxPosts`, `MaxChanges`, `MaxAnswers`,
`MaxUpdates`, `MaxAsked`, `MaxLoads`, `MaxTyped`, `MaxEntries`, `MaxDrafts`, `MaxPending`, `MaxSummaries`, `MaxCodes`, `MaxFailures`,
`MaxReloads`, `MaxQuestions`) or stands in the MC module beside the part it bounds. The run `screens`, which checks no liveness, is symmetric in
`c1` and `c2`: they name the feed's controllers, contents of memories, those who can be reported and hints, and no constant tells one from the other. Whatever tells
them apart, as the lovers and the handles do, has the names `o1` and `o2`, which are not exchanged. Elsewhere the MC modules take names in order where they do not matter (`TakenInOrder`, `FirstIdleStarts`). Its part of the
sign-in leaves out Android, whose steps are among those of the iPhone.

Deadlock is checked in every run but `purchases` and its two violations: when every account is purged and every order has had its
last state, nothing is left to happen. In `screens` and `client_posts` the parts whose bound ends them
have a step in which the user does nothing more (`UserStops`, `Stops`); it is only offered there, so a part
that should go on and cannot is reported.

## 5. Fairness

`usage` (*credits*): requests in progress take their next step, time passes, and clients ask for
their balance (the application's header does so on every screen), which is when
expiry is looked at. `Abandon` is not fair: requests need not fail, and when one does its
reservation is decided by the next balance query.

`purchases` (*toss*): handlers proceed; `Poll` is strongly fair because the scheduler
runs as long as the server does and orders due purchases by their next check, and a handler
may be busy whenever another order is polled; `Reconcile` is strongly fair for
each order because handlers may be lost between the answer of the store and the
transaction, but not every time.

`posts` (*late*): a session takes its next step, time passes, and the scheduler claims what is
due. The claim is strongly fair because the owner may switch automatic posts off and on and
so end that something is due. `Crash` is not fair.

`inbox`: attempts proceed, and a store repeats what it has no acknowledgement of (Pub/Sub
and the App Store both do). The deliveries are strongly fair because all attempts may be
busy with others in between. `Crash` is not fair. In the *client* part a chain of awaited calls goes on; the buyer
comes back to the store and leaves it (`OpenStore`, `CloseStore`), and a call that is
made again and again is answered some time (`Reads`, `Arrives`, `Lists`, `GrantsTo`, strongly): each attempt may fail, not all of them.

`client_posts` (*own*): the queue's next step is taken (`Mutations`); every request ends, with an answer or with an error, because
`fetch` does. `client_state`: a request is served or fails, its continuation runs, and a timer that was set fires (`Timers`). Nothing the user does is fair.

`Punctual` in `posts` (*edit*, *auto*), `inbox` and `usage` (*limits*) says that a request never outlives its reservation, and an
attempt not its claim. The provider timeouts of `core/config.py` (60 seconds, three attempts) are far below the ten
minutes of the reservation, and an attempt on a notification is a few calls with time limits of seconds. Without
it an expired call releases its cost while its provider still runs, and the post of an expired
reservation is not saved (`StillReserved`); the parts *credits* and *late* leave it out.

## 6. Disagreements found

* **A refund notice of Google Play overwrites a grant** (`purchase_google_stale`).
  `process_refund` reads the purchase, `reconcile` locks it but does not refresh
  it. A grant that commits in between is overwritten by a refund of nothing, and the
  credits stay.
* **A reversal of a purchase that was never granted** (`purchase_apple_reversal`)
  leaves it `granted` with zero credits, a state the audit calls invalid, and later grants
  are refused.
* **A generated post overwrites what was saved while it was generated** (`posts_lost`).
  `append_generated_post` selects the row `FOR UPDATE`, and the session keeps the older
  object it read before the provider call: posts, comments and removals that
  were committed meanwhile are overwritten.

* **The browser's copy is saved over newer rows** (`state_copy`). `applyCachedState` opens the
  editor before the server has answered, and the autosave then saves the copy, although
  the plan of the handles says that the rows win over a stale copy.
* **A revoked session stays on the screen** (`session_revoked`). After the session is ended, the
  question who is signed in is answered with an error, and `refreshAuthSession` returns before it clears
  the account; the plan of the Apple sign-in says that it is cleaned up.

More were met while modelling and have no run of their own. The models
have the behaviour of each, so that a run with the property in question shows it.

* A refund notification of the App Store that comes before its purchase is ignored and
  completed (`app_store_notifications.py:64`); a grant from an older signed transaction then
  stays for good.
* For the same reason as in `posts_lost`, the public snapshot goes back to the profile as it was
  before the provider call (`character_posts.py:136`); `SharedCurrent` therefore is
  checked without generating sessions.
* A notification that is delivered again while an attempt works on it, or within ten minutes of
  one that was lost, is acknowledged (`google_play_rtdn.py:79`). If that attempt fails,
  nothing delivers the notification again; only a poll of the purchase can find it, and a purchase
  that no client ever sent has no row to poll.
* A claim that the owner ends by switching automatic posts off does not stop its post
  (`character_posts.py:164`): the check of the claim compares with the older object,
  where the claim still stands.
* With two characters the client's posts lose a post: `persistMutation` saves for the character of its
  closure with the list and the revision that are shown when it runs (`useAliveFeed.ts:176-185`). Therefore the run
  `client_posts` and the theorem `NothingIsLost` have one character.
* A comment is removed by its position: applied once more to a newer list, the removal takes another
  comment (`RemovesMeant` of `ClientPosts`; it takes three items, so the run's two do not show it).
* Saves are not sequenced (`useAliveAutosave.ts:81`): when one takes longer than the timer of the next, an older snapshot may land
  after a newer one. `OnlyNewer` and `RowsStayNewest` are of saves that do not overlap.
* The browser's copy of DM rooms carries no user: with a failed load, an ended session or a closed
  page, one user's rooms are shown to the next. `OwnState` therefore is checked with sign-outs that are answered, or without a
  copy; so is the theorem.
* The rest of one user's save can be stored for the next: `saveRemoteSnapshot` sends the profile and then the rows (`useAliveAutosave.ts:123-130`), the server takes the
  owner from the session of each request (`profile_state.py:82-86`), and where users sign in without leaving the page another one may have signed in between
  the two. `OwnState` says that this is the only way: it leaves out the users in `spilled`, in whose session another's save went on, and no others.
* For the same reason a save may store rows that are older: sent before its user signed out and in again on the same page, its second request is accepted. `RowsStayNewest` is of
  sign-ins on a new page.
* A rejected question leaves the app at its loading screen: `refreshAuthSession` and `refreshSlowSession` have set or kept `authLoading` and do not clear it when `getAuthSession` throws
  (`useAliveSessionBootstrap.ts:183-200`, `202-208`), and the timer asks once in a wait (`85-91`). Without a network at the moment of a sign-in in place, and 8 seconds
  later, only a reload helps. `LoadingEnds` and `BusyIsPending` leave out exactly this case (`asked = "lost"`, `"rejected" \in waited`).
* A reply that comes while the same room is shown for another speaker is dropped with its `setDmSending(false)` (`useAliveDmGeneration.ts:85-88`); the input stays closed until the
  room is left, for only leaving lets go of a request (`useAliveDmLifecycle.ts:84-90`). `SendingEnds` says that nothing else keeps it closed (`Unheard`).
* An entry of the history that stands for the screen that is shown already keeps its content and URL when the user comes back to it, since the effect of `useAliveNavigation.ts:111-140` does not
  run: an entry of a setup screen or of a character that is gone shows the home screen under its old path, and without a character the last key is not that of the screen. A reload there
  opens what the path says. `PageIsScreen` names this case (`Returned`).
* A like changed before a visit to another character and again after it: the visit clears what waits (`useAliveFeed.ts:307`), and the first change's answer or failure, which comes when the second one waits, sets what
  is shown and ends the wait (`332-334`, `376`). `LikesShown` claims the own answer only for likes that were not left like this (`left`).
* A snapshot of follows that arrives after an unfollow makes the row again (`useAliveDiscover.ts:256`):
  `RowsSettle` is claimed as long as no request passed an earlier one (`disturbed`).
* The answer of a character's save, of a visibility change, of a summary or of a report works on what
  was on the screen when it was asked (`useAliveCharacterLifecycle.ts:167` and others). What is claimed
  holds up to such an answer (`strayed`).
* The modal of followers shows the rows of an older answer that comes late, and does not load them when the
  shared id arrives after it was opened (`disturbed` in `Discovery`).
* No code path calls `acceptFriendshipProposal`: the friendship proposals of `Relationships` are not reached.

## 7. Proofs

Eight modules hold theorems. Each theorem is of a module's `Spec` and holds for every value of the constants that
satisfies the assumptions named below; those that a module declares are evaluated by TLC in its run. Where a listed theorem
states a property of a run, the run shows it on a small instance and the theorem for all.

| Module | Theorem | States |
|---|---|---|
| `CreditUsageProofs` | `TypeCorrect`, `FinalUsagesStayFinal`, `KeysChargedOnce`, `LedgerExplainsBalances`, `CreditsConserved`, `ReservesAreExplained`, `LimitsHold`, `MeteringImplementsKeyedCharge` | balances stay natural; decided rows stay; one row per key; ledger; conservation; energy; limits, budget and honest answers; refinement of `KeyedCharge` |
| `CreditPurchasesProofs` | `TypeCorrect`, `BalancesAreExplained`, `PurchasesImplementEntitlement`, `OneFirstBonus`, `ConsumedAreGranted`, `TossRefundsTakeAll` | balance, debt and ledger by the purchases; refinement of `OrderEntitlement`; bonus; consumed tokens; refunds |
| `CharacterPostsProofs` | `TypeCorrect`, `ChargesDecidedOnce`, `NothingIsLost`, `SnapshotIsCurrent`, `WorkersArePosted`, `WorkersPostOnce` | the list within its limit; charges of generated posts; edits; the public copy; workers under a lease |
| `NotificationInboxProofs` | `TypeCorrect`, `CompletedAreApplied`, `WorkedOnOnceAtATime`, `ClaimsAreHeld`, `CompletedEventsStay` | exclusion and completion |
| `ClientPersistenceProofs` | `AccountsStayApart`, `RowsStayNewest`, `RelationsHold`, `CharactersAreKept`, `FollowsSettle`, `RoomsStayDeleted`, `RepliesStand`, `RoomsStayTrue` | users of a device; saves; labels and affinities; drafts and content; follows against the server; DM rooms and their replies |
| `ClientPostsProofs` | `NothingIsLost`, `NothingIsTwice`, `LikesStayShown`, `ScreensSettle`, `AnswersAlwaysSettle`, `TypesAlwaysOK` | the client's list against the server's; likes; discovery; types of the run |
| `ScreensProofs` | `FeedIsTrue`, `StatusIsTrue`, `StoreIsTrue`, `PagesAreScreens`, `GateIsTrue`, `DisplaysAreTrue`, `SignInIsTrue`, `BooksAreTrue` | feed pages; handle check; credit store; history; terms and blocks; balances; sign-in; memories |

`SumsProofs` has the lemmas about sums over finite sets (changing one term, splitting a set), proved by a
minimal counterexample on the upper bound, since induction theorems with an operator parameter cannot be used.

### 7.1 Metered calls

From `CountsAssumption`, `PolicyAssumption`, `LimitsAssumption`, `BalancesAssumption`: limits and amounts are natural numbers, a flow
that takes credits and allows energy has an energy price, no flow passes its free limit by a waived first use, opening
balances are in range.

* `TypeCorrect`: a charge is bounded by what the settled account holds; this needs that sums of columns are natural.
* `FinalUsagesStayFinal`: every action that writes a status has the row reserved before. `KeysChargedOnce`: `Inv` adds that a
  request that has not been made has no row, since a new row is only inserted when `Existing` is empty.
* `LedgerExplainsBalances`, `CreditsConserved`: the sum over rows changes in one place. Commit keeps it, refund and
  expiry move it to the balance.
* `ReservesAreExplained`: `RecoveryExplained` follows the energy from one visit to the next: what is there is what was there, plus the intervals that
  passed since the recovery clock, up to the capacity, minus what live rows hold.
* `LimitsHold`: counting lemmas say how many rows of a user, day and flow there are before and after each step.
  Hard and free limits hold in general. Honest answers and the month's budget are proved for punctual requests whose clock stays in one month:
  the estimate covers what was spent plus the calls whose provider has started (`Covered`). An expiry
  releases cost in the month of the row's creation, so without the second hypothesis the budget is not proved.
  `LimitsAssumption` cannot go: a flow with a waived first use that also takes energy would
  pass its free limit. `FLOW_POLICIES` has none.
* `MeteringImplementsKeyedCharge`: every step is a step of `KeyedCharge` or a stutter under `ChargeOf`; `KeysChargedOnce` says
  that the row chosen for a key is the only one.

### 7.2 Purchases

From `PurchaseAssumption` (every order has a store, a buyer and a positive amount, prices are natural).

* `BalancesAreExplained`: balance and debt are what the purchases granted and took, minus what was spent; ledger entries
  agree. The invariant (`BalanceInv`) must say what a handler remembers of a row that others may have written: a write merges the columns that
  differ from the memory into the row, and the unique key of the ledger makes the second of two writers fail. `RowMoves` and `Pays` say
  what one such merge does to an order's share of the total.
* `PurchasesImplementEntitlement`: with the same knowledge of readers every step maps to a step of `OrderEntitlement` or a stutter.
* `OneFirstBonus`: no two purchases of a person carry the bonus, though the person may have deleted the account in between; `BonusInv` adds what readers know of the
  person's row.
* `ConsumedAreGranted`: a handler goes on to Google Play only after a transaction that granted the credits or found them granted, and what
  was granted stays granted (`GrantsStay`). That the status "granted" tells of granted credits holds in Google Play and Apps in Toss only: in the App Store a refund of a purchase
  that was never granted can be reversed. So the proof first shows that only the App Store reverses refunds (`Reversals`), from the histories of the orders on.
* `TossRefundsTakeAll`: with orders of Apps in Toss only, whose handlers decide with the row they have locked. With Google orders it is violated
  (`purchase_google_stale`), so the hypothesis cannot go.

### 7.3 Posts and inbox

* `ChargesDecidedOnce`: only reserved usages are decided; it holds for late answers too.
* `NothingIsLost`, `SnapshotIsCurrent`: when no session generates posts. `ViewInv` says that a device that shows the current
  revision shows the current list, so that an edit starts from what is stored and everything it drops is `gone`.
  With generating sessions the first is violated (`posts_lost`).
* `TypeCorrect`: with devices, visitors and sessions at once. It needs that a session that generates holds a row (`Holding`), and that cutting
  a list leaves no more than `MaxPosts`: beside the oldest post that stays there are only newer ones (`NewestIs`). `RetryDelay`
  is written as a case on `1..RetryMax`, since the provers do not compute with powers.
* `WorkersArePosted`, `WorkersPostOnce` (`WorkersOnly`: no devices and no requests of the owner, whose edits a post overwrites; a session ends before
  its reservation expires; reservations expire sooner than a lease and an interval, as 10 minutes do against 15 minutes and an hour): `WorkInv`. One worker
  is busy at a time: while it is, the row has its claim, or the owner has taken the claim away and nothing is due for an interval
  (`InTime`). The row it holds from before the provider's answer may be old, but has the last post and every charged post (`Fresh`), so that overwriting
  the list with it loses no charged post. The run checks both in `WorkersPay`.
* `CompletedAreApplied`: an attempt that is about to mark its event has committed its work (`Done`).
* `WorkedOnOnceAtATime`, `ClaimsAreHeld`, `CompletedEventsStay`: for punctual attempts. `ClaimInv`: each attempt holds the claim
  its event shows, no two hold one, and no claim in use is stale (`InTime`), so that an event that may be claimed
  is one nobody works on. Without `InTime` a delivery could take over an event in use, and the end of the older attempt would mark it.

### 7.4 The client

* `AccountsStayApart` (`UsersAssumption`): everything the client shows, holds in a request or has stored for a user carries that user's
  versions. Saves may be served after the page or the session they left with, and users may sign in without leaving the page; the users of `spilled`
  are excepted, as `OwnState` says. Two regimes are enough: sessions end by answered sign-outs only (`Orderly`), or the browser keeps no copy (`NoCopies`) while anything fails or expires; in both a question is
  answered before its timers ask again (no "slow").
  The invariant `Apart` has one part for each place a version can be (questions, profile, saves, stored rows, copy).
* `RowsStayNewest`: without a copy, with one save at a time and sign-ins on a new page (`InTurn`: none of the faults "rooms", "slow", "overlap", "in_place"), what a
  save carries is at least as new as the row it replaces (`Aged`), and what is loaded is what was saved. The
  hypotheses are needed: `state_copy` violates the first, and the code neither sequences its saves nor stops one at a sign-out (section 6).
* `FeedIsTrue` (`FeedAssumption`: pages of at least one post): `FeedInv` says that the shown pages are a prefix of the
  scope's feed as it was when they were asked for, without gaps, and that what each request on its way will append starts where the pages end. An
  answer for other pages is dropped by its controller.
* `StatusIsTrue`: `HandleInv` with `Sequenced`: every check has a number not above the current one, and the one that
  has it is of the handle that is typed.
* `StoreIsTrue` (`ShopAssumption`: slots are numbers): `ShopInv`. *Jobs*: what a chain still has to do is only what its kind may, the orders it tells of are granted,
  a purchase and a recovery do not both run for the screen. *Fresh*: the newest
  load is not read yet or equals the server's balance, or a chain of the screen has still to end with an error or a reload.
  The last disjunct is what makes it inductive: a grant changes the server's balance while nothing is asked.
* `PagesAreScreens` (`HistoryAssumption`: the history holds an entry): the entry the browser is at is of the screen that is shown, or stands for it and was come back to (`Returned`), unless an effect
  has still to write it; a page that is gone back to is applied until its effects ran (`PageInv`). That steps in the history are normal already (`StepsNormal`) makes the last key right wherever there is a character.
* `GateIsTrue` (`GateAssumption`): what a served request carries the server has, and what the screen has came from such an answer (`ServedTrue`,
  `ShownTrue`). As consents and blocks only grow on the server, a late answer is old but never wrong. `LoadComes`: who waits has the newest load on the way.
* `DisplaysAreTrue` (`DisplayAssumption`: no flow takes energy and costs no credits, as in `FLOW_POLICIES`): for each display, either its latest
  request is on its way and will bring the present balance, or that was answered and only older ones are left (`Told`).
* `SignInIsTrue` (`SignInAssumption`): `Busy` names all that may free the button, an exchange or the browser's end among them, as long as no refresh of this wait was rejected; and `OneLaunch` says that the link that opened
  the app is exchanged once and before the first question is answered; without it a session that was just given would be overwritten by an older answer.
* `RelationsHold` (`RelationAssumption`: a conversation takes at most 30 points and gives at most 8, as `normalizedDelta` clamps): what an answer decided is
  a label of love with an affinity of at least 35 that keeps it (`DecidedStays`), for the rules would take a label from an affinity below. One proposal and its flag move
  together (`OneProposal`). That no conversation ends a love needs the base of 92: 30 points less leave 62.
* `CharactersAreKept` (`CharsAssumption`: no character is named `None`): a draft that was sent is on the screen as it was sent, or never will be again
  (`Passed`), so a second try has its id; the list keeps of each character its newest revision, the screen's for the one that is shown (`LastKept`). The first three hold as long as no
  answer met another state than it was asked from (`strayed`), which the code does not exclude.
* `FollowsSettle` (`FollowAssumption`): when no save is due, the server has what is shown or the save that is on its way has it (`Saved`); changes
  come one at a time and a follow that was saved is there, in the save on its way too (`Toggled`); a lover that was asked is about to be served or has returned
  (`Returned`). Changes sent past one another or a failed save (`disturbed`) are excluded, as the property says. The proof attempt showed that `LoversReturn` was
  stated for too much: after a switch the shared id is the earlier character's until the new one's has come (`activeSharedId`), and a follow that is saved in between makes the
  lover follow that character. The property now speaks of follows under the follower's own id.
* `RoomsStayDeleted` (`DmAssumption`: `None` is no room): a stored room that is not deleted is shown (`StoredShown`), so that a save leaves exactly
  the rooms of the screen; a step writes the room on the screen or that of a conversation that runs, and no other (`WritesOnly`).
* `RepliesStand` (`RoomAssumption`: as before, and the numbers of turns and lines are natural): an answer is put at the end of its room, so the message it
  answers must be the last one there. `TurnInv` says of each request on its way whose answer will be heard that its room still ends with its message, that
  no automatic conversation runs, and that the messages are still on the screen. A failed turn is taken out
  with its reply when the user sends again: `messagesWithoutFailedTurns` is shown to keep the replies of what it keeps (`Follows`), by a minimal counterexample on
  the number of messages gone through (`Keeping`). `RoomsStayTrue` puts this and `RoomsStayDeleted` together, as the run's `RoomsTrue` does.
* `BooksAreTrue` (`MemoryAssumption`: the part of a book kept for edits is no larger than the book, and importances are natural numbers with 3, that of an edit, among them):
  a summary merges new memories into a book, sorts it by pin, importance and age and cuts it. `Rank` gives each memory its place; that it is a
  bijection (a place for each, none twice) is what makes the sorted book hold the same memories once each, and what makes a pinned one that is pushed out leave
  a book of pinned memories only. `MemoryInv` adds that every id is of a memory made so far, so that a new one differs from all, and that, before an answer has
  strayed, the book on the screen and the stored books of the others hold their own character's memories.
* `LikesStayShown`: over the specification of the run. An answer for one character leaves the likes of another alone (`FencedStep`); while a like waits
  only an answer to a change of it by that character changes what is shown of it, and only the own answer unless the character was left with an earlier change on its way (`PendingStep`); and a like that is
  pending has its answer on its way (`LikesSettle`, which is in `LikeInv` with `OneAtATime`: a like that was not left has one change on its way).
* `NothingIsLost` (`OneCharacter`): `PostsInv` says of each list the client holds, on the screen, in an answer or in the change
  that runs, that if it has the server's current revision, it has all the server's posts but what a change
  removed, and that new ids are newer than all posts. A save under the current revision therefore loses nothing; under an older one it is
  refused. With two characters it is violated (section 6).
* `NothingIsTwice` (`BoundsAssumption`: bounds are natural): for any number of characters. A change is applied to the list as it is when the change
  runs and, after a conflict, once more to the latest one; that would have the post twice if it had it already. `OnceInv`: what waits in the queue is written nowhere yet
  (`Waits`), no two changes add one number, and a change that met another revision is neither on the server nor in what was read since (`Undone`). So
  each list has every number at most once, and by counting is no longer than what there is to write: the type of the lists, which `TypesAlwaysOK` needs.
* `ScreensSettle`, `AnswersAlwaysSettle` (`DiscoveryAssumption`: finitely many targets, each own character has its followers): `Shown`. Requests are
  numbered uniquely and, until a kind is `disturbed`, answered in their order; the latest one that the server has told says what the server has,
  unless that has changed since (`unheard`); and with nothing on its way the screen shows what was told last. One part for each of the lists, the numbers and
  the modal (`ListsTrue`, `CountsTrue`, `ModalTrue`), and `Loads`: a screen that says it loads has a request. A follow counts by one
  on the screen and by recounting at the server, which needs that the number of a set with one more or one less member is one more or one less.

### 7.5 What is model-checked only

* Liveness: `ReservationsResolve`, `RefundsArrive`, `PaymentsArrive`, `ClaimsResolve`, `FailuresRetried`, `PaidIsGranted`, `ChangesDecided`, `WaitingEnds`. TLAPS cannot reason
  about fairness and ENABLED.
* Properties put together over the instances of an MC module (`StoresSettled`, `ResolvedWithinLimits`, `OnlyNewer`, and in `MCScreens`
  `RelationsTrue`, `StoresTrue`, `CharactersTrue`, `ScreensTrue`, `ScreensKeep`): the theorems are about the modules they are put together from. In `MCScreens` all
  parts keep their variables in the same twenty, and each of these properties says of each part what the theorem of its component says: `FollowsSettle` and `RelationsHold`, `StoreIsTrue`,
  `CharactersAreKept`; `StatusIsTrue`, `PagesAreScreens`, `BooksAreTrue`, `GateIsTrue`, `SignInIsTrue`, `DisplaysAreTrue`.
* `AuditClean` of the purchases does not hold in general for the App Store (a stale refund after a reversal); `purchases` checks
  it for Google Play.
* The types of `MCScreens` and of the four environments of a device in `MCClientPersistence` (`TypesOK`). What a proof needs of a component's types is in its invariant.
* What recursive definitions compute for every input: proofs use the lemmas about sums instead.

## 8. Not modelled

Rendering and layout, prompts and the text of answers, HTTP, cryptographic
verification of tokens and notifications, image decoding, migrations, the sandbox stores
and the expiry of detached purchases after their retention. In the client: the page `?resetAuth=1`,
`completeOnboarding`, attachments of messages, the migration of old DM rooms, the search text of
discovery, help tours. A shared DM room written by two users, and two users who like one post.

Read and left out, because no module reaches them: a reservation that expires in another month than
it was made in (its cost is released in the month of creation, `credits.py:256`); the order in which settlement and expiry lock daily and
monthly rows and accounts (`ai_usage.py:41`); a notification whose transaction failed and is marked with the same
session (`google_play_rtdn.py:86`); the deletion of an account whose media go before its rows
(`account_deletion.py:77`), and a sign-in that restores an account during its purge (`users.py:42`); a moderator's
removal, by position and without a new revision (`moderation.py:117-140`).

`PROJECT.json` lists every component with its status.
