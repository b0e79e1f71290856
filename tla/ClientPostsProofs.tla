--------------------------- MODULE ClientPostsProofs ---------------------------
(***************************************************************************)
(* Proofs about the client's posts: no save of its own posts replaces a    *)
(* list it has not seen (ClientPosts, with one character), and the likes   *)
(* it shows of others' posts (FollowedLikes) and what it finds of others   *)
(* (Discovery), for any number of characters and posts, in each part of    *)
(* the behaviours that MCClientPosts composes.                             *)
(***************************************************************************)
EXTENDS MCClientPosts, SequenceTheorems, FiniteSetTheorems, TLAPS

-----------------------------------------------------------------------------
(* The likes of followed characters' posts. *)
LikeTyped == Likes!TypeOK /\ (queries # {} => likesOf \in Fans)
(* A change of a like is the only one of it on its way, and it waits, unless its character was left. *)
OneAtATime ==
  \A u \in updates :
    <<u.of, u.key>> \notin left => u.of = likesOf /\ u.key \in pending /\ Likes!OnlyChange(u)
LikeInv == LikeTyped /\ Likes!LikesSettle /\ OneAtATime

LEMMA LikesStart == Likes!Init => LikeInv
BY DEF Likes!Init, LikeInv, LikeTyped, OneAtATime, Likes!TypeOK, Likes!LikesSettle, Likes!Unknown, Likes!Shown, Likes!Likes

LEMMA LikesTyped == ASSUME LikeTyped, [Likes!Next]_Likes!vars PROVE LikeTyped'
<1> USE DEF LikeTyped, Likes!TypeOK
<1>1. ASSUME NEW c \in Fans \cup {None}, NEW feed \in BOOLEAN, Likes!Show(c, feed) PROVE LikeTyped'
  <2>1. {<<u.of, u.key>> : u \in updates} \subseteq Fans \X Targets
    BY DEF Likes!Update
  <2> QED
    BY <1>1, <2>1 DEF Likes!Show, Likes!Unknown, Likes!Shown, Likes!Query
<1>2. ASSUME Likes!Requery PROVE LikeTyped'
  BY <1>2 DEF Likes!Requery, Likes!Query
<1>3. ASSUME NEW k \in Targets, NEW id \in 1..MaxUpdates, Likes!Toggle(k, id) PROVE LikeTyped'
  <2>1. likesOf \in Fans /\ state[k] \in Likes!Shown /\ (state[k] # TRUE) \in BOOLEAN
    BY <1>3 DEF Likes!Toggle
  <2>2. [id |-> id, of |-> likesOf, key |-> k, next |-> state[k] # TRUE, previous |-> state[k],
         answered |-> FALSE] \in Likes!Update
    BY <2>1 DEF Likes!Update
  <2>3. [state EXCEPT ![k] = @ # TRUE] \in [Targets -> Likes!Shown]
    BY <2>1 DEF Likes!Shown
  <2> QED
    BY <1>3, <2>1, <2>2, <2>3 DEF Likes!Toggle
<1>4. ASSUME NEW q \in queries, Likes!ServeQuery(q) PROVE LikeTyped'
  BY <1>4 DEF Likes!ServeQuery, Likes!Query
<1>5. ASSUME NEW q \in queries, Likes!QueryAnswered(q) PROVE LikeTyped'
  <2>1. q.answer # None => Likes!Merged(q.answer) \in [Targets -> Likes!Shown]
    BY DEF Likes!Merged, Likes!Query, Likes!Likes, Likes!Shown
  <2> QED
    BY <1>5, <2>1 DEF Likes!QueryAnswered
<1>6. ASSUME NEW u \in updates, Likes!ServeUpdate(u) PROVE LikeTyped'
  <2>1. [u EXCEPT !.answered = TRUE] \in Likes!Update
    BY DEF Likes!Update
  <2>2. [liked EXCEPT ![u.of][u.key] = u.next] \in [Fans -> Likes!Likes]
    BY DEF Likes!Update, Likes!Likes
  <2> QED
    BY <1>6, <2>1, <2>2 DEF Likes!ServeUpdate
<1>7. ASSUME NEW u \in updates, Likes!UpdateAnswered(u) \/ Likes!UpdateFailed(u)
      PROVE  LikeTyped'
  BY <1>7 DEF Likes!UpdateAnswered, Likes!UpdateFailed, Likes!Settled, Likes!Update, Likes!Shown
<1>8. CASE UNCHANGED Likes!vars
  BY <1>8 DEF Likes!vars
<1> QED
  BY <1>1, <1>2, <1>3, <1>4, <1>5, <1>6, <1>7, <1>8 DEF Likes!Next

LEMMA LikesWait == ASSUME LikeInv, [Likes!Next]_Likes!vars PROVE Likes!LikesSettle'
<1> USE DEF LikeInv, Likes!LikesSettle
<1>1. ASSUME NEW c \in Fans \cup {None}, NEW feed \in BOOLEAN, Likes!Show(c, feed) PROVE Likes!LikesSettle'
  BY <1>1 DEF Likes!Show
<1>2. ASSUME Likes!Requery PROVE Likes!LikesSettle'
  BY <1>2 DEF Likes!Requery
<1>3. ASSUME NEW k \in Targets, NEW id \in 1..MaxUpdates, Likes!Toggle(k, id) PROVE Likes!LikesSettle'
  <2>1. PICK u : /\ u = [id |-> id, of |-> likesOf, key |-> k, next |-> state[k] # TRUE, previous |-> state[k],
                         answered |-> FALSE]
                 /\ updates' = updates \cup {u} /\ pending' = pending \cup {k} /\ likesOf' = likesOf
    BY <1>3 DEF Likes!Toggle
  <2>2. u.of = likesOf /\ u.key = k
    BY <2>1
  <2> QED
    BY <2>1, <2>2
<1>4. ASSUME NEW q \in queries, Likes!ServeQuery(q) \/ Likes!QueryAnswered(q) PROVE Likes!LikesSettle'
  BY <1>4 DEF Likes!ServeQuery, Likes!QueryAnswered
<1>5. ASSUME NEW u \in updates, Likes!ServeUpdate(u) PROVE Likes!LikesSettle'
  <2>1. [u EXCEPT !.answered = TRUE].of = u.of /\ [u EXCEPT !.answered = TRUE].key = u.key
    BY DEF LikeTyped, Likes!TypeOK, Likes!Update
  <2> QED
    BY <1>5, <2>1 DEF Likes!ServeUpdate
<1>6. ASSUME NEW u \in updates, Likes!UpdateAnswered(u) \/ Likes!UpdateFailed(u) PROVE Likes!LikesSettle'
  BY <1>6 DEF Likes!UpdateAnswered, Likes!UpdateFailed, Likes!Settled, Likes!Current
<1>7. ASSUME UNCHANGED Likes!vars PROVE Likes!LikesSettle'
  BY <1>7 DEF Likes!vars
<1> QED
  BY <1>1, <1>2, <1>3, <1>4, <1>5, <1>6, <1>7 DEF Likes!Next

LEMMA LikesOne == ASSUME LikeInv, [Likes!Next]_Likes!vars PROVE OneAtATime'
<1> USE DEF LikeInv, OneAtATime, Likes!OnlyChange
<1>1. ASSUME NEW c \in Fans \cup {None}, NEW feed \in BOOLEAN, Likes!Show(c, feed) PROVE OneAtATime'
  BY <1>1 DEF Likes!Show
<1>2. ASSUME NEW k \in Targets, NEW id \in 1..MaxUpdates, Likes!Toggle(k, id) PROVE OneAtATime'
  <2>1. PICK u : /\ u = [id |-> id, of |-> likesOf, key |-> k, next |-> state[k] # TRUE, previous |-> state[k],
                         answered |-> FALSE]
                 /\ updates' = updates \cup {u} /\ pending' = pending \cup {k} /\ likesOf' = likesOf
                 /\ k \notin pending /\ left' = left
    BY <1>2 DEF Likes!Toggle, Likes!MayToggle
  <2>2. u.of = likesOf /\ u.key = k
    BY <2>1
  <2> HIDE DEF Likes!OnlyChange, OneAtATime
  <2>3. \A w \in updates : w.of = likesOf /\ w.key = k => <<likesOf, k>> \in left
    BY <2>1 DEF OneAtATime
  <2>4. ASSUME <<likesOf, k>> \notin left PROVE Likes!OnlyChange(u)'
    BY <2>1, <2>2, <2>3, <2>4 DEF Likes!OnlyChange
  <2>5. ASSUME NEW w \in updates, <<w.of, w.key>> \notin left
        PROVE  w.of = likesOf /\ w.key \in pending' /\ Likes!OnlyChange(w)'
    <3>1. w.of = likesOf /\ w.key \in pending /\ w.key # k /\ Likes!OnlyChange(w)
      BY <2>1, <2>5 DEF OneAtATime
    <3> QED
      BY <2>1, <2>2, <3>1 DEF Likes!OnlyChange
  <2> QED
    BY <2>1, <2>2, <2>4, <2>5 DEF OneAtATime
<1>3. ASSUME NEW u \in updates, Likes!ServeUpdate(u) PROVE OneAtATime'
  <2>1. [u EXCEPT !.answered = TRUE].of = u.of /\ [u EXCEPT !.answered = TRUE].key = u.key
    BY DEF LikeTyped, Likes!TypeOK, Likes!Update
  <2>2. updates' = (updates \ {u}) \cup {[u EXCEPT !.answered = TRUE]} /\ UNCHANGED <<likesOf, pending, left>>
    BY <1>3 DEF Likes!ServeUpdate
  <2> HIDE DEF Likes!OnlyChange, OneAtATime
  <2>3. ASSUME NEW w \in updates', <<w.of, w.key>> \notin left PROVE w.of = likesOf /\ w.key \in pending
    BY <2>1, <2>2, <2>3 DEF OneAtATime
  <2>4. ASSUME NEW w \in updates', <<w.of, w.key>> \notin left PROVE Likes!OnlyChange(w)'
    BY <2>1, <2>2, <2>4 DEF OneAtATime, Likes!OnlyChange
  <2> QED
    BY <2>2, <2>3, <2>4 DEF OneAtATime
<1>4. ASSUME NEW u \in updates, Likes!UpdateAnswered(u) \/ Likes!UpdateFailed(u) PROVE OneAtATime'
  <2>1. /\ updates' = updates \ {u} /\ UNCHANGED <<likesOf, left>>
        /\ pending' = IF likesOf = u.of THEN pending \ {u.key} ELSE pending
    BY <1>4 DEF Likes!UpdateAnswered, Likes!UpdateFailed, Likes!Settled, Likes!Current
  <2> QED
    BY <2>1
<1>5. ASSUME Likes!Requery \/ (\E q \in queries : Likes!ServeQuery(q) \/ Likes!QueryAnswered(q)) \/ UNCHANGED Likes!vars
      PROVE  OneAtATime'
  BY <1>5 DEF Likes!Requery, Likes!ServeQuery, Likes!QueryAnswered, Likes!vars
<1> QED
  BY <1>1, <1>2, <1>3, <1>4, <1>5 DEF Likes!Next

LEMMA LikesStep == ASSUME LikeInv, [Likes!Next]_Likes!vars PROVE LikeInv'
BY LikesTyped, LikesWait, LikesOne DEF LikeInv

LEMMA AnswersFenced == ASSUME LikeInv, [Likes!Next]_Likes!vars PROVE Likes!FencedStep
<1> USE DEF Likes!FencedStep
<1>1. ASSUME updates \subseteq updates' PROVE Likes!FencedStep
  BY <1>1
<1>2. ASSUME NEW q \in queries, Likes!ServeQuery(q) \/ Likes!QueryAnswered(q) PROVE updates \subseteq updates'
  BY <1>2 DEF Likes!ServeQuery, Likes!QueryAnswered
<1>3. ASSUME NEW u \in updates, Likes!ServeUpdate(u) PROVE Likes!FencedStep
  BY <1>3 DEF Likes!ServeUpdate
<1>4. ASSUME NEW u \in updates, Likes!UpdateAnswered(u) \/ Likes!UpdateFailed(u) PROVE Likes!FencedStep
  BY <1>4 DEF Likes!UpdateAnswered, Likes!UpdateFailed, Likes!Settled, Likes!Current
<1> QED
  BY <1>1, <1>2, <1>3, <1>4 DEF Likes!Next, Likes!Show, Likes!Requery, Likes!Toggle, Likes!vars

LEMMA PendingHeld == ASSUME LikeInv, [Likes!Next]_Likes!vars PROVE Likes!PendingStep
<1> USE DEF Likes!PendingStep
<1>1. ASSUME UNCHANGED state PROVE Likes!PendingStep
  BY <1>1
<1>2. ASSUME NEW c \in Fans \cup {None}, NEW feed \in BOOLEAN, Likes!Show(c, feed) PROVE Likes!PendingStep
  BY <1>2 DEF Likes!Show
<1>3. ASSUME NEW j \in Targets, NEW id \in 1..MaxUpdates, Likes!Toggle(j, id) PROVE Likes!PendingStep
  <2>1. j \notin pending /\ \A k \in Targets \ {j} : state'[k] = state[k]
    BY <1>3 DEF Likes!Toggle, Likes!MayToggle, LikeInv, LikeTyped, Likes!TypeOK
  <2> QED
    BY <2>1
<1>4. ASSUME NEW q \in queries, Likes!QueryAnswered(q) PROVE Likes!PendingStep
  <2>1. \A k \in Targets : k \in pending /\ state[k] # None => Likes!Merged(q.answer)[k] = state[k]
    BY DEF Likes!Merged
  <2> QED
    BY <1>4, <2>1 DEF Likes!QueryAnswered
<1>5. ASSUME NEW u \in updates, Likes!UpdateAnswered(u) \/ Likes!UpdateFailed(u) PROVE Likes!PendingStep
  <2>1. /\ updates' = updates \ {u}
        /\ \A k \in Targets : state'[k] # state[k] => k = u.key /\ u.of = likesOf
    BY <1>5 DEF Likes!UpdateAnswered, Likes!UpdateFailed, Likes!Current, LikeInv, LikeTyped, Likes!TypeOK
  <2>2. <<u.of, u.key>> \notin left => Likes!OnlyChange(u)
    BY DEF LikeInv, OneAtATime
  <2> QED
    BY <2>1, <2>2
<1>6. ASSUME Likes!Requery \/ (\E q \in queries : Likes!ServeQuery(q)) \/ (\E u \in updates : Likes!ServeUpdate(u))
             \/ UNCHANGED Likes!vars
      PROVE  UNCHANGED state
  BY <1>6 DEF Likes!Requery, Likes!ServeQuery, Likes!ServeUpdate, Likes!vars
<1> QED
  BY <1>1, <1>2, <1>3, <1>4, <1>5, <1>6 DEF Likes!Next

(* persistFollowedLike, mergedRefreshedLikes: an answer to one character's like never changes what *)
(* is shown of another's; what is shown of a like that waits is changed by nothing but the answer  *)
(* to a change of that like by that character, and by its own if the character was not left while  *)
(* a change of the like was on its way; every like whose button waits has its answer on its way.   *)
THEOREM LikesStayShown == MCSpec => LikesShown /\ [](Likes!TypeOK /\ Likes!LikesSettle)
<1>1. MCInit => LikeInv
  BY LikesStart DEF MCInit
<1>2. [MCNext \/ Stops]_allVars => [Likes!Next]_Likes!vars
  BY DEF MCNext, Stops, allVars, likesVars, Likes!vars
<1>3. LikeInv /\ [Likes!Next]_Likes!vars => LikeInv' /\ Likes!FencedStep /\ Likes!PendingStep
  BY LikesStep, AnswersFenced, PendingHeld
<1>4. LikeInv => Likes!TypeOK /\ Likes!LikesSettle
  BY DEF LikeInv, LikeTyped
<1>5. Likes!FencedStep /\ Likes!PendingStep => [Likes!FencedStep /\ Likes!PendingStep]_Likes!vars
  OBVIOUS
<1> QED
  BY <1>1, <1>2, <1>3, <1>4, <1>5, PTL DEF MCSpec, LikesShown, Likes!LikesShown

-----------------------------------------------------------------------------
(* The queue of changes to a character's posts.  A list whose posts are older than n. *)
OneCharacter == \A c, d \in Characters : c = d

List(n) == UNION {[S -> Seq(Nat)] : S \in SUBSET (1..(n - 1))}
State(n) == [posts : List(n), revision : Nat, auto : BOOLEAN]
Kinds == {"add", "edit", "delete", "comment", "uncomment"}
Mutation(n) == {m \in [kind : Kinds, id : Nat, of : Nat, meant : Nat] : m.kind = "add" => m.id \in 1..(n - 1)}
Asked(n) == [for : Characters, mutation : Mutation(n)]
Runs(n) == [change : Asked(n), stage : Stages, state : State(n)]
Drafts == [for : Characters, kind : {"server", "post", "comment"}, of : Nat]

PostsTyped ==
  /\ nextId \in Nat \ {0} /\ revision \in Nat /\ auto \in BOOLEAN /\ activeId \in Characters \cup {None}
  /\ server \in [Characters -> State(nextId)] /\ card \in [Characters -> List(nextId)] /\ posts \in List(nextId)
  /\ queue \in Seq(Asked(nextId)) /\ running \in Runs(nextId) \cup {None}
  /\ answers \subseteq [state : State(nextId), generated : BOOLEAN] /\ drafts \subseteq Drafts

(* A list that came with the revision that the server has still has all of the server's posts, but *)
(* for those that a change removed.                                                               *)
Seen(list, rev) ==
  \A c \in Characters :
    /\ rev <= server[c].revision
    /\ rev = server[c].revision => ItemsOf(server[c].posts) \subseteq ItemsOf(list) \cup removed
AllSeen ==
  /\ Seen(posts, revision)
  /\ running # None => Seen(running.state.posts, running.state.revision)
  /\ \A a \in answers : Seen(a.state.posts, a.state.revision)
(* Before a character is entered. *)
NotEntered ==
  activeId = None =>
    /\ answers = {} /\ running = None /\ queue = <<>> /\ drafts = {}
    /\ \A c \in Characters : card[c] = posts
PostsInv == PostsTyped /\ AllSeen /\ NotEntered

LEMMA OlderLists ==
  ASSUME NEW n \in Nat, NEW m \in Nat, n <= m
  PROVE  /\ List(n) \subseteq List(m) /\ State(n) \subseteq State(m) /\ Asked(n) \subseteq Asked(m)
         /\ Runs(n) \subseteq Runs(m)
<1>1. List(n) \subseteq List(m)
  <2>1. 1..(n - 1) \subseteq 1..(m - 1)
    OBVIOUS
  <2> QED
    BY <2>1 DEF List
<1>2. State(n) \subseteq State(m) /\ Mutation(n) \subseteq Mutation(m)
  BY <1>1 DEF State, Mutation
<1> QED
  BY <1>1, <1>2 DEF Asked, Runs

LEMMA ListIs ==
  ASSUME NEW n \in Nat, NEW f
  PROVE  f \in List(n) <=> f \in [DOMAIN f -> Seq(Nat)] /\ DOMAIN f \subseteq 1..(n - 1)
<1>1. ASSUME f \in List(n) PROVE f \in [DOMAIN f -> Seq(Nat)] /\ DOMAIN f \subseteq 1..(n - 1)
  <2>1. PICK S \in SUBSET (1..(n - 1)) : f \in [S -> Seq(Nat)]
    BY <1>1 DEF List
  <2> QED
    BY <2>1
<1>2. ASSUME f \in [DOMAIN f -> Seq(Nat)], DOMAIN f \subseteq 1..(n - 1) PROVE f \in List(n)
  BY <1>2 DEF List
<1> QED
  BY <1>1, <1>2

LEMMA WithoutOne == ASSUME NEW q \in Seq(Nat), NEW i \in DOMAIN q PROVE RemoveAt(q, i) \in Seq(Nat)
<1>1. Len(q) \in Nat /\ i \in 1..Len(q) /\ \A k \in 1..Len(q) : q[k] \in Nat
  BY ElementOfSeq, LenProperties
<1>2. SubSeq(q, 1, i - 1) \in Seq(Nat) /\ SubSeq(q, i + 1, Len(q)) \in Seq(Nat)
  BY <1>1, SubSeqProperties
<1> QED
  BY <1>2, ConcatProperties DEF RemoveAt

LEMMA ChangedList ==
  ASSUME NEW n \in Nat, NEW m \in Mutation(n), NEW list \in List(n) PROVE Apply(m, list) \in List(n)
<1>1. list \in [DOMAIN list -> Seq(Nat)] /\ DOMAIN list \subseteq 1..(n - 1) /\ m.kind \in Kinds
      /\ m.id \in Nat /\ (m.kind = "add" => m.id \in 1..(n - 1))
  BY ListIs DEF Mutation
<1>2. <<>> \in Seq(Nat)
  BY EmptySeq
<1>3. ASSUME NEW S \in SUBSET (1..(n - 1)), NEW f, f \in [S -> Seq(Nat)] PROVE f \in List(n)
  BY <1>3 DEF List
<1>4. CASE m.kind = "add"
  <2>1. [p \in DOMAIN list \cup {m.id} |-> IF p = m.id THEN <<>> ELSE list[p]] \in [DOMAIN list \cup {m.id} -> Seq(Nat)]
    BY <1>1, <1>2
  <2>2. DOMAIN list \cup {m.id} \in SUBSET (1..(n - 1))
    BY <1>1, <1>4
  <2>3. [p \in DOMAIN list \cup {m.id} |-> IF p = m.id THEN <<>> ELSE list[p]] \in List(n)
    BY <1>3, <2>1, <2>2
  <2> QED
    BY <1>4, <2>3 DEF Apply
<1>5. CASE m.kind = "edit"
  BY <1>5 DEF Apply
<1>6. CASE m.kind = "delete"
  <2>1. Without(list, {m.id}) \in [DOMAIN list \ {m.id} -> Seq(Nat)]
    BY <1>1 DEF Without
  <2>2. Without(list, {m.id}) \in List(n)
    BY <1>1, <1>3, <2>1
  <2> QED
    BY <1>6, <2>2 DEF Apply
<1>7. CASE m.kind = "comment"
  <2>1. \A p \in DOMAIN list : Append(list[p], m.id) \in Seq(Nat)
    BY <1>1, AppendProperties
  <2>2. [p \in DOMAIN list |-> IF p = m.of THEN Append(list[p], m.id) ELSE list[p]] \in [DOMAIN list -> Seq(Nat)]
    BY <1>1, <2>1
  <2>3. [p \in DOMAIN list |-> IF p = m.of THEN Append(list[p], m.id) ELSE list[p]] \in List(n)
    BY <1>1, <1>3, <2>2
  <2> QED
    BY <1>7, <2>3 DEF Apply
<1>8. CASE m.kind = "uncomment"
  <2>1. \A p \in DOMAIN list : m.id \in DOMAIN list[p] => RemoveAt(list[p], m.id) \in Seq(Nat)
    BY <1>1, WithoutOne
  <2> DEFINE rest == [p \in DOMAIN list |->
                       IF p = m.of /\ m.id \in DOMAIN list[p] THEN RemoveAt(list[p], m.id) ELSE list[p]]
  <2>2. rest \in [DOMAIN list -> Seq(Nat)]
    BY <1>1, <2>1
  <2>3. rest \in List(n)
    BY <1>1, <1>3, <2>2
  <2> QED
    BY <1>8, <2>3 DEF Apply
<1> QED
  BY <1>1, <1>4, <1>5, <1>6, <1>7, <1>8 DEF Kinds

(* A new post takes no other post or comment away. *)
LEMMA PostAdded ==
  ASSUME NEW n \in Nat, NEW list \in List(n), NEW m, m.kind = "add", m.id = n
  PROVE  ItemsOf(list) \subseteq ItemsOf(Apply(m, list))
<1>1. DOMAIN list \subseteq 1..(n - 1)
  BY ListIs
<1>2. PICK new : new = [p \in DOMAIN list \cup {m.id} |-> IF p = m.id THEN <<>> ELSE list[p]]
  OBVIOUS
<1>3. DOMAIN list \subseteq DOMAIN new /\ \A p \in DOMAIN list : new[p] = list[p]
  BY <1>1, <1>2
<1>4. ItemsOf(list) \subseteq ItemsOf(new)
  BY <1>3 DEF ItemsOf
<1> QED
  BY <1>2, <1>4 DEF Apply

LEMMA PostsStart == ASSUME Init PROVE PostsInv
<1> USE DEF Init
<1>1. NoPosts \in List(1)
  BY DEF NoPosts, List
<1>2. PostsTyped
  <2>1. [posts |-> NoPosts, revision |-> 0, auto |-> FALSE] \in State(1)
    BY <1>1 DEF State
  <2>2. <<>> \in Seq(Asked(1))
    BY EmptySeq
  <2>3. server \in [Characters -> State(1)] /\ card \in [Characters -> List(1)] /\ nextId = 1
    BY <1>1, <2>1
  <2>4. queue \in Seq(Asked(1)) /\ running = None /\ answers = {} /\ drafts = {} /\ posts \in List(1)
    BY <1>1, <2>2
  <2>5. revision = 0 /\ auto = FALSE /\ activeId = None
    OBVIOUS
  <2>6. 1 \in Nat \ {0} /\ 0 \in Nat /\ FALSE \in BOOLEAN
    OBVIOUS
  <2>7. nextId \in Nat \ {0} /\ revision \in Nat /\ auto \in BOOLEAN /\ activeId \in Characters \cup {None}
    BY <2>3, <2>5, <2>6
  <2>8. server \in [Characters -> State(nextId)] /\ card \in [Characters -> List(nextId)] /\ posts \in List(nextId)
    BY <2>3, <2>4
  <2>9. queue \in Seq(Asked(nextId)) /\ running \in Runs(nextId) \cup {None}
    BY <2>3, <2>4
  <2>10. answers \subseteq [state : State(nextId), generated : BOOLEAN] /\ drafts \subseteq Drafts
    BY <2>4
  <2> QED
    BY <2>7, <2>8, <2>9, <2>10 DEF PostsTyped
<1>3. AllSeen /\ NotEntered
  BY DEF AllSeen, NotEntered, Seen
<1> QED
  BY <1>2, <1>3 DEF PostsInv

(* A step of the server: its list is the same, or a new one with a new revision, which lacks *)
(* only what a change removed.                                                               *)
Moves ==
  /\ removed \subseteq removed'
  /\ \/ \A c \in Characters : server'[c].posts = server[c].posts /\ server'[c].revision = server[c].revision
     \/ \A c \in Characters :
          /\ server'[c].revision = server[c].revision + 1
          /\ ItemsOf(server[c].posts) \subseteq ItemsOf(server'[c].posts) \cup removed'

LEMMA SeenStays ==
  ASSUME PostsTyped, Moves, NEW list, NEW rev \in Nat, Seen(list, rev) PROVE Seen(list, rev)'
<1>1. \A c \in Characters : server[c].revision \in Nat
  BY DEF PostsTyped, State
<1> QED
  BY <1>1 DEF Moves, Seen

LEMMA ServersOwn ==
  ASSUME OneCharacter, NEW s, s.revision \in Nat,
         \E c \in Characters : s.posts = server'[c].posts /\ s.revision = server'[c].revision
  PROVE  Seen(s.posts, s.revision)'
BY DEF OneCharacter, Seen

(* Who writes has seen the list it replaces. *)
LEMMA Replaces ==
  ASSUME OneCharacter, PostsTyped, NEW c \in Characters, NEW list \in List(nextId),
         ItemsOf(server[c].posts) \subseteq ItemsOf(list) \cup removed', removed \subseteq removed',
         server' = [server EXCEPT ![c] = Stored(c, list)]
  PROVE  Moves /\ Stored(c, list) \in State(nextId) /\ server' \in [Characters -> State(nextId)]
         /\ server'[c] = Stored(c, list)
<1>1. PICK s : s = Stored(c, list)
  OBVIOUS
<1>2. s \in State(nextId) /\ s.posts = list /\ s.revision = server[c].revision + 1
  <2>1. server[c] \in State(nextId)
    BY DEF PostsTyped
  <2>2. PICK r \in Nat : r = server[c].revision + 1
    BY <2>1 DEF State
  <2>3. s = [server[c] EXCEPT !.posts = list, !.revision = r]
    BY <1>1, <2>2 DEF Stored
  <2> QED
    BY <2>1, <2>2, <2>3 DEF State
<1>3. server' = [server EXCEPT ![c] = s]
  BY <1>1
<1>4. server'[c] = s /\ server' \in [Characters -> State(nextId)]
  BY <1>2, <1>3 DEF PostsTyped
<1>5. Moves
  BY <1>2, <1>4 DEF Moves, OneCharacter
<1> QED
  BY <1>1, <1>2, <1>4, <1>5

LEMMA Later ==
  ASSUME PostsTyped, NEW n \in Nat \ {0}, nextId <= n
  PROVE  /\ server \in [Characters -> State(n)] /\ card \in [Characters -> List(n)] /\ posts \in List(n)
         /\ queue \in Seq(Asked(n)) /\ running \in Runs(n) \cup {None}
         /\ answers \subseteq [state : State(n), generated : BOOLEAN]
<1>1. nextId \in Nat
  BY DEF PostsTyped
<1>2. /\ List(nextId) \subseteq List(n) /\ State(nextId) \subseteq State(n) /\ Asked(nextId) \subseteq Asked(n)
      /\ Runs(nextId) \subseteq Runs(n)
  BY <1>1, OlderLists
<1>3. queue \in Seq(Asked(n))
  <2>1. queue \in Seq(Asked(nextId))
    BY DEF PostsTyped
  <2>2. queue = [k \in 1..Len(queue) |-> queue[k]] /\ Len(queue) \in Nat /\ \A k \in 1..Len(queue) : queue[k] \in Asked(n)
    BY <1>2, <2>1, LenProperties, ElementOfSeq
  <2> QED
    BY <2>2, IsASeq
<1> QED
  BY <1>2, <1>3 DEF PostsTyped

LEMMA MayBeAsked ==
  ASSUME PostsTyped, NEW list \in List(nextId), NEW m \in Additions(list) \cup Changes(list), NEW n,
         n = IF m.kind \in {"add", "comment"} THEN nextId + 1 ELSE nextId
  PROVE  n \in Nat \ {0} /\ nextId <= n /\ m \in Mutation(n)
<1>1. nextId \in Nat \ {0} /\ list \in [DOMAIN list -> Seq(Nat)] /\ DOMAIN list \subseteq 1..(nextId - 1)
  BY ListIs DEF PostsTyped
<1>2. n \in Nat \ {0} /\ nextId <= n
  BY <1>1
<1>3. CASE m \in Additions(list)
  <2>1. m = New("add", 0) \/ \E p \in DOMAIN list : m = New("comment", p)
    BY <1>3 DEF Additions
  <2> QED
    BY <1>1, <2>1 DEF New, Mutation, Kinds
<1>4. CASE \E k \in {"edit", "delete"}, p \in DOMAIN list : m = [kind |-> k, id |-> p, of |-> 0, meant |-> p]
  BY <1>1, <1>4 DEF Mutation, Kinds
<1>5. CASE \E p \in DOMAIN list : \E i \in DOMAIN list[p] :
             m = [kind |-> "uncomment", id |-> i, of |-> p, meant |-> list[p][i]]
  <2>1. PICK p \in DOMAIN list : \E i \in DOMAIN list[p] :
          m = [kind |-> "uncomment", id |-> i, of |-> p, meant |-> list[p][i]]
    BY <1>5
  <2>2. list[p] \in Seq(Nat) /\ p \in Nat
    BY <1>1
  <2>3. PICK i \in DOMAIN list[p] : m = [kind |-> "uncomment", id |-> i, of |-> p, meant |-> list[p][i]]
    BY <2>1
  <2>4. i \in Nat /\ list[p][i] \in Nat
    BY <2>2, LenProperties, ElementOfSeq
  <2> QED
    BY <1>2, <2>2, <2>3, <2>4 DEF Mutation, Kinds
<1> QED
  BY <1>2, <1>3, <1>4, <1>5 DEF Changes

LEMMA Queued ==
  ASSUME PostsTyped, NEW n \in Nat \ {0}, nextId <= n, NEW c \in Characters, NEW m \in Mutation(n)
  PROVE  Append(queue, [for |-> c, mutation |-> m]) \in Seq(Asked(n))
<1>1. [for |-> c, mutation |-> m] \in Asked(n)
  BY DEF Asked
<1> QED
  BY <1>1, Later, AppendProperties

(* Nothing but the queue, drafts and numbers changes. *)
LEMMA Unseen ==
  ASSUME PostsInv, PostsTyped', UNCHANGED <<server, card, clientVars, answers, running, removed>>,
         activeId # None
  PROVE  PostsInv' /\ Moves
BY DEF PostsInv, AllSeen, NotEntered, Seen, Moves, clientVars

LEMMA AskKeeps == ASSUME PostsInv, Ask PROVE PostsInv' /\ Moves
<1> USE DEF PostsInv
<1>1. activeId \in Characters /\ posts \in List(nextId)
  BY DEF Ask, PostsTyped
<1>2. PICK m \in Additions(posts) \cup Changes(posts) :
        /\ queue' = Append(queue, [for |-> activeId, mutation |-> m])
        /\ nextId' = IF m.kind \in {"add", "comment"} THEN nextId + 1 ELSE nextId
  BY DEF Ask, Enqueue
<1>3. nextId' \in Nat \ {0} /\ nextId <= nextId' /\ m \in Mutation(nextId')
  BY <1>1, <1>2, MayBeAsked
<1>4. UNCHANGED <<server, card, activeId, posts, revision, auto, running, answers, drafts, removed>>
  BY DEF Ask, clientVars
<1>5. queue' \in Seq(Asked(nextId'))
  BY <1>1, <1>2, <1>3, Queued
<1>6. PostsTyped'
  BY <1>3, <1>4, <1>5, Later DEF PostsTyped
<1> QED
  BY <1>4, <1>6, Unseen DEF Ask, clientVars

LEMMA PersistKeeps == ASSUME OneCharacter, PostsInv, Persist PROVE PostsInv' /\ Moves
<1> DEFINE change == Head(queue)
           list == Apply(change.mutation, posts)
<1> USE DEF PostsInv
<1>1. /\ running = None /\ queue # <<>> /\ posts' = list
      /\ removed' = removed \cup (ItemsOf(posts) \ ItemsOf(list))
      /\ Sent(change.for, list, revision) /\ queue' = Tail(queue)
      /\ UNCHANGED <<card, activeId, revision, auto, answers, drafts, nextId>>
  BY DEF Persist, Removes
<1>2. queue \in Seq(Asked(nextId)) /\ posts \in List(nextId) /\ nextId \in Nat /\ revision \in Nat
  BY DEF PostsTyped
<1>3. change \in Asked(nextId) /\ Tail(queue) \in Seq(Asked(nextId))
  BY <1>1, <1>2, HeadTailProperties
<1>4. change.for \in Characters /\ change.mutation \in Mutation(nextId)
  BY <1>3 DEF Asked
<1>5. list \in List(nextId)
  BY <1>2, <1>4, ChangedList
<1>6. activeId # None
  BY <1>1 DEF NotEntered
<1> HIDE DEF list, change
<1>7. \E s \in State(nextId) :
        /\ running' \in {[change |-> change, stage |-> t, state |-> s] : t \in {"saved", "failed", "conflict"}}
        /\ s = server'[change.for] /\ server' \in [Characters -> State(nextId)] /\ Moves
  <2>1. CASE Accepts(change.for, revision) /\ server' = [server EXCEPT ![change.for] = Stored(change.for, list)]
             /\ running' \in {[change |-> change, stage |-> t, state |-> Stored(change.for, list)] : t \in {"saved", "failed"}}
    <3>1. ItemsOf(server[change.for].posts) \subseteq ItemsOf(list) \cup removed'
      BY <1>1, <1>4, <2>1 DEF AllSeen, Seen, Accepts
    <3>2. /\ Moves /\ Stored(change.for, list) \in State(nextId) /\ server' \in [Characters -> State(nextId)]
          /\ server'[change.for] = Stored(change.for, list)
      BY <1>1, <1>4, <1>5, <2>1, <3>1, Replaces
    <3> QED
      BY <2>1, <3>2
  <2>2. CASE UNCHANGED server /\ running' \in {[change |-> change, stage |-> t, state |-> server[change.for]] : t \in {"conflict", "failed"}}
    BY <1>1, <1>4, <2>2 DEF PostsTyped, Moves
  <2> QED
    BY <1>1, <2>1, <2>2 DEF Sent, change
<1>8. PICK s \in State(nextId) :
        /\ running' \in {[change |-> change, stage |-> t, state |-> s] : t \in {"saved", "failed", "conflict"}}
        /\ s = server'[change.for] /\ server' \in [Characters -> State(nextId)] /\ Moves
  BY <1>7
<1>9. running' \in Runs(nextId) /\ running'.state = s
  BY <1>3, <1>8 DEF Runs, Stages
<1>10. PostsTyped'
  BY <1>1, <1>3, <1>5, <1>8, <1>9 DEF PostsTyped
<1>11. Seen(posts, revision)'
  <2>1. Seen(posts, revision) /\ \A c \in Characters : server[c].revision \in Nat
    BY DEF AllSeen, PostsTyped, State
  <2> QED
    BY <1>1, <1>2, <1>8, <2>1 DEF Seen, Moves
<1>12. Seen(s.posts, s.revision)'
  BY <1>4, <1>8, ServersOwn DEF State
<1>13. \A a \in answers' : Seen(a.state.posts, a.state.revision)'
  <2> SUFFICES ASSUME NEW a \in answers PROVE Seen(a.state.posts, a.state.revision)'
    BY <1>1
  <2>1. a.state.revision \in Nat /\ Seen(a.state.posts, a.state.revision)
    BY DEF AllSeen, PostsTyped, State
  <2> QED
    BY <1>8, <2>1, SeenStays
<1>14. AllSeen' /\ NotEntered'
  BY <1>1, <1>6, <1>9, <1>11, <1>12, <1>13 DEF AllSeen, NotEntered
<1> QED
  BY <1>8, <1>10, <1>14

(* An answer of the change that runs: it is kept, read anew, or the change is over. *)
LEMMA RunsOn ==
  ASSUME OneCharacter, PostsInv, running # None, Moves, server' \in [Characters -> State(nextId)],
         \/ running' = None
         \/ /\ running' \in Runs(nextId)
            /\ \/ running'.state = running.state
               \/ running'.state \in State(nextId) /\ \E c \in Characters : running'.state = server'[c],
         UNCHANGED <<card, clientVars, queue, answers, drafts, nextId>>
  PROVE  PostsInv'
<1> USE DEF PostsInv, clientVars
<1>1. PostsTyped'
  BY DEF PostsTyped
<1>2. ASSUME NEW l, NEW r \in Nat, Seen(l, r) PROVE Seen(l, r)'
  BY <1>2, SeenStays
<1>3. Seen(posts, revision)'
  <2>1. PICK l \in {posts}, r \in Nat : l = posts /\ r = revision /\ Seen(l, r)
    BY DEF AllSeen, PostsTyped
  <2>2. l = posts' /\ r = revision' /\ Seen(l, r)'
    BY <1>2, <2>1
  <2> QED
    BY <2>2
<1>4. \A a \in answers' : Seen(a.state.posts, a.state.revision)'
  <2> SUFFICES ASSUME NEW a \in answers PROVE Seen(a.state.posts, a.state.revision)'
    OBVIOUS
  <2>1. a.state.revision \in Nat /\ Seen(a.state.posts, a.state.revision)
    BY DEF AllSeen, PostsTyped, State
  <2> QED
    BY <1>2, <2>1
<1>5. running' # None => Seen(running.state.posts, running.state.revision)'
  <2> SUFFICES ASSUME running' # None PROVE Seen(running.state.posts, running.state.revision)'
    OBVIOUS
  <2>1. PICK s : s = running'.state
    OBVIOUS
  <2>2. CASE s = running.state
    <3>1. running \in Runs(nextId)
      BY DEF PostsTyped
    <3>2. s.revision \in Nat /\ Seen(s.posts, s.revision)
      BY <2>2, <3>1 DEF AllSeen, Runs, State
    <3>3. Seen(s.posts, s.revision)'
      BY <1>2, <3>2
    <3> QED
      BY <2>1, <3>3
  <2>3. CASE s \in State(nextId) /\ \E c \in Characters : s = server'[c]
    <3>1. Seen(s.posts, s.revision)'
      BY <2>3, ServersOwn DEF State
    <3> QED
      BY <2>1, <3>1
  <2> QED
    BY <2>1, <2>2, <2>3
<1> QED
  BY <1>1, <1>3, <1>4, <1>5 DEF AllSeen, NotEntered

LEMMA RunningIs ==
  ASSUME PostsTyped, running # None
  PROVE  /\ running \in Runs(nextId) /\ running.change.for \in Characters
         /\ running.change.mutation \in Mutation(nextId) /\ running.state \in State(nextId)
         /\ running.state.posts \in List(nextId) /\ running.state.revision \in Nat
BY DEF PostsTyped, Runs, Asked, State

LEMMA NoMove ==
  ASSUME PostsTyped, UNCHANGED server, removed \subseteq removed'
  PROVE  Moves /\ server' \in [Characters -> State(nextId)]
BY DEF Moves, PostsTyped

LEMMA ReadKeeps == ASSUME OneCharacter, PostsInv, ReadLatest \/ Reread PROVE PostsInv' /\ Moves
<1>1. PICK t \in Stages :
        /\ running # None /\ UNCHANGED <<server, card, clientVars, queue, answers, drafts, nextId, removed>>
        /\ \/ running' = [running EXCEPT !.stage = t, !.state = server[running.change.for]]
           \/ running' = None
  BY DEF ReadLatest, Reread, GivenUp, Stages
<1>2. running \in Runs(nextId) /\ running.change.for \in Characters
  BY <1>1, RunningIs DEF PostsInv
<1>3. PICK s \in State(nextId) : s = server[running.change.for]
  BY <1>2 DEF PostsInv, PostsTyped
<1>4. running' = None \/ (running' \in Runs(nextId) /\ running'.state = s)
  BY <1>1, <1>2, <1>3 DEF Runs
<1>5. Moves /\ server' \in [Characters -> State(nextId)]
  BY <1>1, NoMove DEF PostsInv
<1> QED
  BY <1>1, <1>2, <1>3, <1>4, <1>5, RunsOn

LEMMA RetryKeeps == ASSUME OneCharacter, PostsInv, Retry PROVE PostsInv' /\ Moves
<1> DEFINE c == running.change.for
<1>1. PICK list : list = Apply(running.change.mutation, running.state.posts)
  OBVIOUS
<1>2. /\ running # None /\ UNCHANGED <<card, clientVars, queue, answers, drafts, nextId>>
      /\ removed' = removed \cup (ItemsOf(running.state.posts) \ ItemsOf(list))
      /\ \/ /\ running.state.revision = server[c].revision
            /\ server' = [server EXCEPT ![c] = Stored(c, list)]
            /\ running' = [running EXCEPT !.stage = "saved", !.state = Stored(c, list)] \/ running' = None
         \/ running' = None /\ UNCHANGED server
  BY <1>1 DEF Retry, RetrySource, Accepts, Removes, GivenUp
<1>3. /\ running \in Runs(nextId) /\ c \in Characters /\ list \in List(nextId)
      /\ PostsTyped /\ nextId \in Nat
  BY <1>1, <1>2, RunningIs, ChangedList DEF PostsInv, PostsTyped
<1> HIDE DEF c
<1>4. CASE UNCHANGED server /\ running' = None
  BY <1>2, <1>4, NoMove, RunsOn DEF PostsInv
<1>5. CASE /\ running.state.revision = server[c].revision
           /\ server' = [server EXCEPT ![c] = Stored(c, list)]
           /\ running' = [running EXCEPT !.stage = "saved", !.state = Stored(c, list)] \/ running' = None
  <2>1. ItemsOf(server[c].posts) \subseteq ItemsOf(running.state.posts) \cup removed
    BY <1>2, <1>3, <1>5 DEF PostsInv, AllSeen, Seen
  <2>2. ItemsOf(server[c].posts) \subseteq ItemsOf(list) \cup removed' /\ removed \subseteq removed'
    BY <1>2, <2>1
  <2>3. /\ Moves /\ Stored(c, list) \in State(nextId) /\ server' \in [Characters -> State(nextId)]
        /\ server'[c] = Stored(c, list)
    BY <1>3, <1>5, <2>2, Replaces
  <2>4. PICK s \in State(nextId) : s = server'[c] /\ s = Stored(c, list)
    BY <2>3
  <2>5. running' = None \/ (running' \in Runs(nextId) /\ running'.state = s)
    BY <1>3, <1>5, <2>4 DEF Runs, Stages
  <2> QED
    BY <1>2, <1>3, <2>3, <2>4, <2>5, RunsOn
<1> QED
  BY <1>2, <1>4, <1>5

(* A request that does not wait: its answer is what the server has. *)
LEMMA Replies ==
  ASSUME OneCharacter, PostsInv, PostsTyped', Moves, activeId # None,
         \A a \in answers' \ answers : \E c \in Characters : a.state = server'[c],
         UNCHANGED <<card, clientVars, running>>
  PROVE  PostsInv'
<1> USE DEF PostsInv, clientVars
<1>1. ASSUME NEW l, NEW r \in Nat, Seen(l, r) PROVE Seen(l, r)'
  BY <1>1, SeenStays
<1>2. Seen(posts, revision)'
  <2>1. PICK l \in {posts}, r \in Nat : l = posts /\ r = revision /\ Seen(l, r)
    BY DEF AllSeen, PostsTyped
  <2>2. l = posts' /\ r = revision' /\ Seen(l, r)'
    BY <1>1, <2>1
  <2> QED
    BY <2>2
<1>3. \A a \in answers' : Seen(a.state.posts, a.state.revision)'
  <2> SUFFICES ASSUME NEW a \in answers' PROVE Seen(a.state.posts, a.state.revision)'
    OBVIOUS
  <2>1. a.state \in State(nextId') /\ a.state.revision \in Nat
    BY DEF PostsTyped, State
  <2>2. CASE a \in answers
    BY <1>1, <2>1, <2>2 DEF AllSeen
  <2>3. CASE a \notin answers
    BY <2>1, <2>3, ServersOwn
  <2> QED
    BY <2>2, <2>3
<1>4. running' # None => Seen(running.state.posts, running.state.revision)'
  <2> SUFFICES ASSUME running # None PROVE Seen(running.state.posts, running.state.revision)'
    OBVIOUS
  <2>1. PICK s : s = running.state
    OBVIOUS
  <2>2. s.revision \in Nat /\ Seen(s.posts, s.revision) /\ running'.state = s
    BY <2>1, RunningIs DEF AllSeen
  <2>3. Seen(s.posts, s.revision)'
    BY <1>1, <2>2
  <2> QED
    BY <2>2, <2>3
<1> QED
  BY <1>2, <1>3, <1>4 DEF AllSeen, NotEntered

LEMMA RefreshKeeps ==
  ASSUME OneCharacter, PostsInv, Refresh \/ \E enabled \in BOOLEAN : SetAuto(enabled) PROVE PostsInv' /\ Moves
<1> USE DEF PostsInv
<1>1. PICK b \in BOOLEAN :
        /\ activeId # None
        /\ server' = server \/ server' = [server EXCEPT ![activeId].auto = b]
        /\ answers' = answers \cup {[state |-> server'[activeId], generated |-> FALSE]}
        /\ UNCHANGED <<card, activeId, posts, revision, auto, queue, running, drafts, nextId, removed>>
  BY DEF Refresh, SetAuto, Reply, clientVars
<1>2. activeId \in Characters /\ server[activeId] \in State(nextId)
  BY <1>1 DEF PostsTyped
<1>3. PICK s : s = [server[activeId] EXCEPT !.auto = b]
  OBVIOUS
<1>4. s \in State(nextId) /\ s.posts = server[activeId].posts /\ s.revision = server[activeId].revision
  BY <1>2, <1>3 DEF State
<1>5. server' = server \/ server' = [server EXCEPT ![activeId] = s]
  BY <1>1, <1>3
<1>6. /\ server' \in [Characters -> State(nextId)]
      /\ \A c \in Characters : server'[c].posts = server[c].posts /\ server'[c].revision = server[c].revision
  BY <1>2, <1>4, <1>5 DEF PostsTyped
<1>7. Moves
  BY <1>1, <1>6 DEF Moves
<1>8. PICK a : a = [state |-> server'[activeId], generated |-> FALSE]
  OBVIOUS
<1>9. a \in [state : State(nextId), generated : BOOLEAN] /\ a.state = server'[activeId]
  BY <1>2, <1>6, <1>8
<1>10. PostsTyped'
  BY <1>1, <1>6, <1>8, <1>9 DEF PostsTyped
<1> QED
  BY <1>1, <1>2, <1>7, <1>8, <1>9, <1>10, Replies DEF clientVars

(* The client takes what an answer says. *)
LEMMA Taken ==
  ASSUME PostsInv, NEW s \in State(nextId), Take(s), Seen(s.posts, s.revision), answers' \subseteq answers,
         activeId # None, running' = running \/ running' = None,
         UNCHANGED <<server, card, queue, drafts, nextId, removed>>
  PROVE  PostsInv' /\ Moves
<1> USE DEF PostsInv, Take
<1>1. s.posts \in List(nextId) /\ s.revision \in Nat /\ s.auto \in BOOLEAN
  BY DEF State
<1>2. PostsTyped'
  BY <1>1 DEF PostsTyped
<1>3. AllSeen' /\ NotEntered'
  BY DEF AllSeen, Seen, NotEntered
<1> QED
  BY <1>2, <1>3 DEF Moves

LEMMA AnswerKeeps == ASSUME PostsInv, Saved \/ \E a \in answers : Answer(a) PROVE PostsInv' /\ Moves
<1> USE DEF PostsInv
<1>1. CASE Saved
  <2>1. running # None /\ running.state \in State(nextId) /\ activeId # None
    BY <1>1, RunningIs DEF Saved, NotEntered
  <2> QED
    BY <1>1, <2>1, Taken DEF Saved, Finished, AllSeen
<1>2. ASSUME NEW a \in answers, Answer(a) PROVE PostsInv' /\ Moves
  <2>1. a.state \in State(nextId) /\ activeId # None
    BY DEF PostsTyped, NotEntered
  <2> QED
    BY <1>2, <2>1, Taken DEF Answer, AllSeen
<1> QED
  BY <1>1, <1>2

LEMMA DraftKeeps ==
  ASSUME PostsInv, NEW kind \in {"server", "post", "comment"}, NEW p \in Ids \cup {0}, Draft(kind, p)
  PROVE  PostsInv' /\ Moves
<1>1. activeId \in Characters /\ p \in Nat /\ drafts' = {[for |-> activeId, kind |-> kind, of |-> p]} /\ activeId # None
  BY DEF PostsInv, PostsTyped, Draft, Ids
<1>2. drafts' \subseteq Drafts
  BY <1>1 DEF Drafts
<1>3. UNCHANGED <<server, card, activeId, posts, revision, auto, queue, running, answers, nextId, removed>>
  BY DEF Draft, clientVars
<1>4. PostsTyped'
  BY <1>2, <1>3 DEF PostsInv, PostsTyped
<1> QED
  BY <1>1, <1>3, <1>4, Unseen DEF clientVars

LEMMA SwitchKeeps == ASSUME OneCharacter, PostsInv, NEW c \in Characters, Switch(c) PROVE PostsInv' /\ Moves
<1> USE DEF PostsInv
<1>1. activeId = None
  BY DEF Switch, PostsTyped, OneCharacter
<1>2. card' = card /\ activeId' = c /\ posts' = card[c] /\ posts' = posts
  BY <1>1 DEF Switch, NotEntered
<1>3. UNCHANGED <<server, revision, auto, queue, running, answers, drafts, nextId, removed>>
  BY DEF Switch
<1>4. PostsTyped' /\ AllSeen' /\ NotEntered'
  BY <1>1, <1>2, <1>3 DEF PostsTyped, AllSeen, Seen, NotEntered
<1> QED
  BY <1>3, <1>4 DEF Moves

(* A text that was generated is asked for as a change, or the server has written the post. *)
LEMMA DraftDoneKeeps ==
  ASSUME OneCharacter, PostsInv, NEW d \in drafts, DraftDone(d) PROVE PostsInv' /\ Moves
<1> USE DEF PostsInv
<1>1. /\ d.for \in Characters /\ d.kind \in {"server", "post", "comment"} /\ d.of \in Nat
      /\ activeId # None /\ nextId \in Nat \ {0}
  BY DEF PostsTyped, Drafts, NotEntered
<1>2. drafts' = {} /\ UNCHANGED <<card, clientVars, running, done, removed>>
  BY DEF DraftDone
<1>3. CASE NoText(d)
  <2>1. UNCHANGED <<server, answers, queue, nextId>>
    BY <1>3 DEF NoText
  <2>2. PostsTyped'
    BY <1>2, <2>1 DEF PostsTyped, clientVars
  <2> QED
    BY <1>1, <1>2, <2>1, <2>2, Unseen
<1>4. CASE Drafted(d)
  <2>1. PICK m : m = New(IF d.kind = "post" THEN "add" ELSE "comment", d.of)
    OBVIOUS
  <2>2. m \in Mutation(nextId + 1)
    BY <1>1, <2>1 DEF New, Mutation, Kinds
  <2>3. /\ nextId' = nextId + 1 /\ UNCHANGED <<server, answers>>
        /\ queue' = Append(queue, [for |-> d.for, mutation |-> m])
    BY <1>4, <2>1 DEF Drafted, Enqueue
  <2>4. nextId' \in Nat \ {0} /\ nextId <= nextId' /\ m \in Mutation(nextId')
    BY <1>1, <2>2, <2>3
  <2>5. queue' \in Seq(Asked(nextId'))
    BY <1>1, <2>3, <2>4, Queued
  <2>6. PostsTyped'
    BY <1>2, <2>3, <2>4, <2>5, Later DEF PostsTyped, clientVars
  <2> QED
    BY <1>1, <1>2, <2>3, <2>6, Unseen
<1>5. CASE Generated(d)
  <2>1. PICK m, list : m = New("add", 0) /\ list = Apply(m, server[d.for].posts)
    OBVIOUS
  <2>2. server[d.for] \in State(nextId) /\ server[d.for].posts \in List(nextId)
    BY <1>1 DEF PostsTyped, State
  <2>3. m.kind = "add" /\ m.id = nextId /\ m \in Mutation(nextId + 1)
    BY <1>1, <2>1 DEF New, Mutation, Kinds
  <2>4. List(nextId) \subseteq List(nextId + 1) /\ nextId + 1 \in Nat
    BY <1>1, OlderLists
  <2>5. list \in List(nextId + 1)
    BY <2>1, <2>2, <2>3, <2>4, ChangedList
  <2>6. ItemsOf(server[d.for].posts) \subseteq ItemsOf(list)
    BY <1>1, <2>1, <2>2, <2>3, PostAdded
  <2>7. PICK r \in Nat : r = server[d.for].revision + 1
    BY <2>2 DEF State
  <2>8. PICK s : s = [server[d.for] EXCEPT !.posts = list, !.revision = r]
    OBVIOUS
  <2>9. s.posts = list /\ s.revision = r /\ s.auto = server[d.for].auto /\ s \in State(nextId + 1)
    BY <2>2, <2>5, <2>8 DEF State
  <2>10. server' = [server EXCEPT ![d.for] = s]
    BY <1>5, <2>1, <2>7, <2>8 DEF Generated, Written
  <2>11. server' \in [Characters -> State(nextId + 1)] /\ server'[d.for] = s
    BY <1>1, <2>4, <2>9, <2>10, Later
  <2>12. Moves
    BY <1>1, <1>2, <2>6, <2>7, <2>9, <2>11 DEF Moves, OneCharacter
  <2>13. /\ nextId' = nextId + 1 /\ UNCHANGED queue
         /\ answers' = answers \cup {[state |-> server'[d.for], generated |-> TRUE]} \/ answers' = answers
    BY <1>5 DEF Generated, Reply
  <2>14. PICK a : a = [state |-> server'[d.for], generated |-> TRUE]
    OBVIOUS
  <2>15. a \in [state : State(nextId + 1), generated : BOOLEAN] /\ a.state = server'[d.for]
    BY <2>9, <2>11, <2>14
  <2>16. answers' \subseteq [state : State(nextId'), generated : BOOLEAN]
    <3>1. answers \subseteq [state : State(nextId + 1), generated : BOOLEAN]
      BY <1>1, <2>4, Later
    <3> QED
      BY <2>13, <2>14, <2>15, <3>1
  <2>17. PostsTyped'
    BY <1>1, <1>2, <2>4, <2>11, <2>13, <2>16, Later DEF PostsTyped, clientVars
  <2> QED
    BY <1>1, <1>2, <2>12, <2>13, <2>14, <2>15, <2>17, Replies
<1> QED
  BY <1>3, <1>4, <1>5 DEF DraftDone

(* Another device, a visitor or the scheduler changes what the server has. *)
LEMMA ElsewhereKeeps == ASSUME OneCharacter, PostsInv, NEW c \in Characters, Elsewhere(c) PROVE PostsInv' /\ Moves
<1> USE DEF PostsInv
<1>1. server[c] \in State(nextId) /\ server[c].posts \in List(nextId) /\ nextId \in Nat \ {0}
  BY DEF PostsTyped, State
<1>2. PICK m \in Additions(server[c].posts) \cup Changes(server[c].posts) :
        /\ server' = [server EXCEPT ![c] = Stored(c, Apply(m, server[c].posts))]
        /\ removed' = removed \cup Removes(m, server[c].posts)
        /\ nextId' = IF m.kind \in {"add", "comment"} THEN nextId + 1 ELSE nextId
  BY DEF Elsewhere
<1>3. nextId' \in Nat \ {0} /\ nextId <= nextId' /\ m \in Mutation(nextId')
  BY <1>1, <1>2, MayBeAsked
<1>4. PICK list : list = Apply(m, server[c].posts)
  OBVIOUS
<1>5. List(nextId) \subseteq List(nextId') /\ State(nextId) \subseteq State(nextId')
  BY <1>1, <1>3, OlderLists
<1>6. list \in List(nextId')
  BY <1>1, <1>3, <1>4, <1>5, ChangedList
<1>7. PICK r \in Nat : r = server[c].revision + 1
  BY <1>1 DEF State
<1>8. PICK s : s = [server[c] EXCEPT !.posts = list, !.revision = r]
  OBVIOUS
<1>9. s.posts = list /\ s.revision = r /\ s \in State(nextId')
  <2>1. server[c] \in State(nextId')
    BY <1>1, <1>5
  <2> QED
    BY <1>6, <1>8, <2>1 DEF State
<1>10. server' = [server EXCEPT ![c] = s]
  BY <1>2, <1>4, <1>7, <1>8 DEF Stored
<1>11. server' \in [Characters -> State(nextId')] /\ server'[c] = s
  BY <1>3, <1>9, <1>10, Later
<1>12. UNCHANGED <<card, clientVars, queue, running, answers, drafts>>
  BY DEF Elsewhere
<1>13. removed \subseteq removed' /\ ItemsOf(server[c].posts) \subseteq ItemsOf(list) \cup removed'
  BY <1>2, <1>4 DEF Removes
<1>14. Moves
  BY <1>7, <1>9, <1>11, <1>13 DEF Moves, OneCharacter
<1>15. PostsTyped'
  BY <1>3, <1>11, <1>12, Later DEF PostsTyped, clientVars
<1> QED
  <2>1. CASE activeId # None
    BY <1>12, <1>14, <1>15, <2>1, Replies
  <2>2. CASE activeId = None
    <3>1. Seen(posts, revision)'
      <4>1. PICK l \in {posts}, q \in Nat : l = posts /\ q = revision /\ Seen(l, q)
        BY DEF AllSeen, PostsTyped
      <4>2. Seen(l, q)'
        BY <1>14, <4>1, SeenStays
      <4> QED
        BY <1>12, <4>1, <4>2 DEF clientVars
    <3>2. NotEntered' /\ AllSeen'
      BY <1>12, <2>2, <3>1 DEF NotEntered, AllSeen, clientVars
    <3> QED
      BY <1>14, <1>15, <3>2
  <2> QED
    BY <2>1, <2>2

LEMMA PostsStep == ASSUME OneCharacter, PostsInv, [Next]_vars PROVE PostsInv' /\ Moves
<1>1. CASE UNCHANGED vars
  BY <1>1 DEF vars, clientVars, PostsInv, PostsTyped, AllSeen, Seen, NotEntered, Moves
<1> QED
  BY <1>1, AskKeeps, PersistKeeps, AnswerKeeps, ReadKeeps, RetryKeeps, RefreshKeeps, DraftKeeps, DraftDoneKeeps,
     SwitchKeeps, ElsewhereKeeps
     DEF Next, Mutations

(* A character's posts and comments leave the server only when a change removes them: the queue  *)
(* of changes, its second tries and the answers that overtake it never save a list without what  *)
(* the client has not seen (useAliveFeed.ts, persistMutation and retryMutation), for any number  *)
(* of posts, changes and answers, as long as the client has one character: with more, what is    *)
(* shown may be another's list than the one that is saved.                                       *)
THEOREM NothingIsLost == ASSUME OneCharacter PROVE Spec => NothingLost
<1>1. Moves => LosesNothing
  BY DEF Moves, LosesNothing
<1>2. PostsInv /\ [Next]_vars => PostsInv' /\ LosesNothing
  BY <1>1, PostsStep
<1>3. LosesNothing => [LosesNothing]_vars
  OBVIOUS
<1> QED
  BY <1>2, <1>3, PostsStart, PTL DEF Spec, NothingLost

-----------------------------------------------------------------------------
(* Nothing is written twice.  What a change writes has a number of its own. *)
Adds(change) == IF change.mutation.kind \in {"add", "comment"} THEN {change.mutation.id} ELSE {}

(* A list of what is older than n, each comment in its place once. *)
Once(n) ==
  {f \in UNION {[S -> Seq(1..(n - 1))] : S \in SUBSET (1..(n - 1))} : \A p \in DOMAIN f : IsInjective(f[p])}
OnceState(n) == [posts : Once(n), revision : 0..MaxRevision, auto : BOOLEAN]
Wanted(n) == {change \in Change : Adds(change) \subseteq 1..(n - 1)}

Ran == IF running = None THEN {} ELSE Adds(running.change)
OnServer == UNION {ItemsOf(server[c].posts) : c \in Characters}
OnCards == UNION {ItemsOf(card[c]) : c \in Characters}
Answered == UNION {ItemsOf(a.state.posts) : a \in answers}
AtWork == IF running = None THEN {} ELSE ItemsOf(running.state.posts)
Kept == ItemsOf(posts) \cup OnCards \cup Answered \cup AtWork

LEMMA OnceIs ==
  ASSUME NEW n, NEW f
  PROVE  f \in Once(n) <=> /\ f \in [DOMAIN f -> Seq(1..(n - 1))] /\ DOMAIN f \subseteq 1..(n - 1)
                           /\ \A p \in DOMAIN f : IsInjective(f[p])
<1>1. ASSUME f \in Once(n) PROVE f \in [DOMAIN f -> Seq(1..(n - 1))] /\ DOMAIN f \subseteq 1..(n - 1)
  <2>1. PICK S \in SUBSET (1..(n - 1)) : f \in [S -> Seq(1..(n - 1))]
    BY <1>1 DEF Once
  <2> QED
    BY <2>1
<1> QED
  BY <1>1 DEF Once

LEMMA OnceItems == ASSUME NEW n, NEW f \in Once(n) PROVE ItemsOf(f) \subseteq 1..(n - 1)
<1>1. \A p \in DOMAIN f : f[p] \in Seq(1..(n - 1)) /\ DOMAIN f \subseteq 1..(n - 1)
  BY OnceIs
<1>2. \A p \in DOMAIN f : ToSet(f[p]) \subseteq 1..(n - 1)
  <2> SUFFICES ASSUME NEW p \in DOMAIN f, NEW i \in DOMAIN f[p] PROVE f[p][i] \in 1..(n - 1)
    BY DEF ToSet
  <2>1. PICK q \in Seq(1..(n - 1)) : q = f[p]
    BY <1>1
  <2>2. \A k \in DOMAIN q : q[k] \in 1..(n - 1)
    BY LenProperties, ElementOfSeq
  <2> QED
    BY <2>1, <2>2
<1> QED
  BY <1>1, <1>2 DEF ItemsOf

LEMMA OnceLater ==
  ASSUME NEW n \in Nat, NEW m \in Nat, n <= m
  PROVE  Once(n) \subseteq Once(m) /\ OnceState(n) \subseteq OnceState(m) /\ Wanted(n) \subseteq Wanted(m)
<1>1. 1..(n - 1) \subseteq 1..(m - 1)
  OBVIOUS
<1>2. Seq(1..(n - 1)) \subseteq Seq(1..(m - 1))
  <2> SUFFICES ASSUME NEW q \in Seq(1..(n - 1)) PROVE q \in Seq(1..(m - 1))
    OBVIOUS
  <2>1. q = [k \in 1..Len(q) |-> q[k]] /\ Len(q) \in Nat /\ \A k \in 1..Len(q) : q[k] \in 1..(m - 1)
    BY <1>1, LenProperties, ElementOfSeq
  <2> QED
    BY <2>1, IsASeq
<1>3. Once(n) \subseteq Once(m)
  <2> SUFFICES ASSUME NEW f \in Once(n) PROVE f \in Once(m)
    OBVIOUS
  <2>1. f \in [DOMAIN f -> Seq(1..(n - 1))] /\ DOMAIN f \subseteq 1..(n - 1) /\ \A p \in DOMAIN f : IsInjective(f[p])
    BY OnceIs
  <2>2. f \in [DOMAIN f -> Seq(1..(m - 1))] /\ DOMAIN f \subseteq 1..(m - 1)
    BY <1>1, <1>2, <2>1
  <2> QED
    BY <2>1, <2>2, OnceIs
<1> QED
  BY <1>1, <1>3 DEF OnceState, Wanted

(* A place in a list for each number: a list without repetition is no longer than there are numbers. *)
LEMMA OnceListed == ASSUME NEW n \in 1..(MaxItems + 1), NEW f \in Once(n) PROVE f \in Lists
<1>1. /\ f \in [DOMAIN f -> Seq(1..(n - 1))] /\ DOMAIN f \subseteq 1..(n - 1)
      /\ \A p \in DOMAIN f : IsInjective(f[p])
  BY OnceIs
<1>2. MaxItems \in Nat /\ n - 1 \in Nat /\ n - 1 <= MaxItems /\ 1..(n - 1) \subseteq Ids
  BY BoundsAssumption DEF Ids
<1>3. ASSUME NEW p \in DOMAIN f PROVE f[p] \in UNION {[1..k -> Ids] : k \in 0..MaxItems}
  <2> DEFINE q == f[p]
  <2>1. q \in Seq(1..(n - 1)) /\ IsInjective(q)
    BY <1>1
  <2>2. q \in [1..Len(q) -> 1..(n - 1)] /\ Len(q) \in Nat
    BY <2>1, LenProperties
  <2> HIDE DEF q
  <2>3. q \in Injection(1..Len(q), 1..(n - 1))
    BY <2>1, <2>2 DEF Injection
  <2>4. IsFiniteSet(1..(n - 1)) /\ Cardinality(1..(n - 1)) = n - 1
    <3>1. PICK m \in Nat : m = n - 1
      BY <1>2
    <3>2. IsFiniteSet(1..m) /\ Cardinality(1..m) = m
      BY FS_Interval
    <3> QED
      BY <3>1, <3>2
  <2>5. Cardinality(1..Len(q)) = Len(q)
    <3>1. PICK m \in Nat : m = Len(q)
      BY <2>2
    <3>2. Cardinality(1..m) = m
      BY FS_Interval
    <3> QED
      BY <3>1, <3>2
  <2>6. Len(q) <= n - 1
    BY <2>3, <2>4, <2>5, FS_Injection
  <2>7. Len(q) \in 0..MaxItems /\ q \in [1..Len(q) -> Ids]
    BY <1>2, <2>2, <2>6
  <2> QED
    BY <2>7 DEF q
<1>4. f \in [DOMAIN f -> UNION {[1..k -> Ids] : k \in 0..MaxItems}] /\ DOMAIN f \in SUBSET Ids
  BY <1>1, <1>2, <1>3
<1> QED
  BY <1>4 DEF Lists

LEMMA OneMore ==
  ASSUME NEW S, NEW q \in Seq(S), NEW e \in S, IsInjective(q), e \notin ToSet(q)
  PROVE  Append(q, e) \in Seq(S) /\ IsInjective(Append(q, e)) /\ ToSet(Append(q, e)) \subseteq ToSet(q) \cup {e}
<1>1. PICK n \in Nat : n = Len(q) /\ DOMAIN q = 1..n
  BY LenProperties
<1>2. PICK b \in Seq(S) : b = Append(q, e) /\ Len(b) = n + 1 /\ b[n + 1] = e /\ \A i \in 1..n : b[i] = q[i]
  <2>1. /\ Append(q, e) \in Seq(S) /\ Len(Append(q, e)) = Len(q) + 1 /\ Append(q, e)[Len(q) + 1] = e
        /\ \A i \in 1..Len(q) : Append(q, e)[i] = q[i]
    BY AppendProperties
  <2> QED
    BY <1>1, <2>1
<1>3. DOMAIN b = 1..(n + 1)
  BY <1>2, LenProperties
<1>4. \A i \in 1..n : q[i] # e
  BY <1>1 DEF ToSet
<1>5. IsInjective(b)
  <2> SUFFICES ASSUME NEW i \in 1..(n + 1), NEW j \in 1..(n + 1), b[i] = b[j] PROVE i = j
    BY <1>3 DEF IsInjective
  <2>1. CASE i \in 1..n /\ j \in 1..n
    BY <1>1, <1>2, <2>1 DEF IsInjective
  <2>2. CASE i \notin 1..n \/ j \notin 1..n
    BY <1>2, <1>4, <2>2
  <2> QED
    BY <2>1, <2>2
<1>6. \A i \in DOMAIN b : b[i] \in ToSet(q) \cup {e}
  BY <1>1, <1>2, <1>3 DEF ToSet
<1> QED
  BY <1>2, <1>5, <1>6 DEF ToSet

LEMMA OneLess ==
  ASSUME NEW S, NEW q \in Seq(S), NEW i \in DOMAIN q, IsInjective(q)
  PROVE  RemoveAt(q, i) \in Seq(S) /\ IsInjective(RemoveAt(q, i)) /\ ToSet(RemoveAt(q, i)) \subseteq ToSet(q)
<1>1. PICK n \in Nat : n = Len(q) /\ DOMAIN q = 1..n /\ i \in 1..n /\ \A k \in 1..n : q[k] \in S
  BY LenProperties, ElementOfSeq
<1>2. PICK x \in Seq(S) : x = SubSeq(q, 1, i - 1) /\ Len(x) = i - 1 /\ \A k \in 1..(i - 1) : x[k] = q[k]
  <2>1. /\ SubSeq(q, 1, i - 1) \in Seq(S) /\ Len(SubSeq(q, 1, i - 1)) = i - 1
        /\ \A k \in 1..(i - 1) : SubSeq(q, 1, i - 1)[k] = q[k]
    BY <1>1, SubSeqProperties
  <2> QED
    BY <2>1
<1>3. PICK y \in Seq(S) : y = SubSeq(q, i + 1, n) /\ Len(y) = n - i /\ \A k \in 1..(n - i) : y[k] = q[i + k]
  <2>1. i + 1 \in Int /\ n \in Int /\ \A k \in (i + 1)..n : q[k] \in S
    BY <1>1
  <2>2. /\ SubSeq(q, i + 1, n) \in Seq(S)
        /\ Len(SubSeq(q, i + 1, n)) = IF i + 1 <= n THEN n - (i + 1) + 1 ELSE 0
        /\ \A k \in 1..(n - (i + 1) + 1) : SubSeq(q, i + 1, n)[k] = q[(i + 1) + k - 1]
    BY <2>1, SubSeqProperties
  <2>3. (IF i + 1 <= n THEN n - (i + 1) + 1 ELSE 0) = n - i /\ n - (i + 1) + 1 = n - i
    BY <1>1
  <2>4. \A k \in 1..(n - i) : (i + 1) + k - 1 = i + k
    BY <1>1
  <2>5. /\ Len(SubSeq(q, i + 1, n)) = n - i
        /\ \A k \in 1..(n - i) : SubSeq(q, i + 1, n)[k] = q[i + k]
    BY <2>2, <2>3, <2>4
  <2> QED
    BY <2>2, <2>5
<1>4. PICK b \in Seq(S) : b = x \o y /\ Len(b) = n - 1 /\ \A k \in 1..(n - 1) : b[k] = IF k < i THEN q[k] ELSE q[k + 1]
  <2>1. /\ x \o y \in Seq(S) /\ Len(x \o y) = Len(x) + Len(y)
        /\ \A k \in 1..(Len(x) + Len(y)) : (x \o y)[k] = IF k <= Len(x) THEN x[k] ELSE y[k - Len(x)]
    BY ConcatProperties
  <2>2. \A k \in 1..(n - 1) : (x \o y)[k] = IF k < i THEN q[k] ELSE q[k + 1]
    <3> SUFFICES ASSUME NEW k \in 1..(n - 1) PROVE (x \o y)[k] = IF k < i THEN q[k] ELSE q[k + 1]
      OBVIOUS
    <3>1. k \in 1..(Len(x) + Len(y)) /\ Len(x) = i - 1
      BY <1>1, <1>2, <1>3
    <3>2. CASE k < i
      <4>1. k <= Len(x) /\ k \in 1..(i - 1)
        BY <1>1, <3>1, <3>2
      <4> QED
        BY <1>2, <2>1, <3>1, <3>2, <4>1
    <3>3. CASE ~ (k < i)
      <4>1. ~ (k <= Len(x)) /\ k - Len(x) \in 1..(n - i) /\ i + (k - Len(x)) = k + 1
        BY <1>1, <3>1, <3>3
      <4>2. (x \o y)[k] = y[k - Len(x)] /\ y[k - Len(x)] = q[i + (k - Len(x))]
        BY <1>3, <2>1, <3>1, <4>1
      <4> QED
        BY <3>3, <4>1, <4>2
    <3> QED
      BY <3>2, <3>3
  <2>3. Len(x) + Len(y) = n - 1
    BY <1>2, <1>3
  <2> QED
    BY <2>1, <2>2, <2>3
<1>5. DOMAIN b = 1..(n - 1) /\ b = RemoveAt(q, i)
  BY <1>1, <1>2, <1>3, <1>4, LenProperties DEF RemoveAt
<1>6. ASSUME NEW k \in 1..(n - 1) PROVE \E u \in 1..n : b[k] = q[u] /\ u = IF k < i THEN k ELSE k + 1
  <2>1. k \in 1..n /\ k + 1 \in 1..n
    BY <1>1
  <2> QED
    BY <1>4, <2>1
<1>7. IsInjective(b)
  <2> SUFFICES ASSUME NEW j \in 1..(n - 1), NEW k \in 1..(n - 1), b[j] = b[k] PROVE j = k
    BY <1>5 DEF IsInjective
  <2>1. \A u, v \in 1..n : q[u] = q[v] => u = v
    BY <1>1 DEF IsInjective
  <2>2. PICK u \in 1..n : b[j] = q[u] /\ u = IF j < i THEN j ELSE j + 1
    BY <1>6
  <2>3. PICK v \in 1..n : b[k] = q[v] /\ v = IF k < i THEN k ELSE k + 1
    BY <1>6
  <2>4. u = v
    BY <2>1, <2>2, <2>3
  <2> QED
    BY <1>1, <2>2, <2>3, <2>4
<1>8. \A k \in DOMAIN b : \E u \in DOMAIN q : b[k] = q[u]
  BY <1>1, <1>5, <1>6
<1> QED
  BY <1>4, <1>5, <1>7, <1>8 DEF ToSet

(* A change writes its own number at most, and once if it is not there yet. *)
LEMMA AppliedOnce ==
  ASSUME NEW n \in Nat, NEW change \in Wanted(n), NEW list \in Once(n), Adds(change) \cap ItemsOf(list) = {}
  PROVE  /\ Apply(change.mutation, list) \in Once(n)
         /\ ItemsOf(Apply(change.mutation, list)) \subseteq ItemsOf(list) \cup Adds(change)
<1> DEFINE m == change.mutation
           Good(f) == f \in Once(n) /\ ItemsOf(f) \subseteq ItemsOf(list) \cup Adds(change)
<1> SUFFICES Good(Apply(m, list))
  OBVIOUS
<1>1. /\ list \in [DOMAIN list -> Seq(1..(n - 1))] /\ DOMAIN list \subseteq 1..(n - 1)
      /\ \A p \in DOMAIN list : IsInjective(list[p])
  BY OnceIs
<1>2. m.kind \in Kinds /\ (m.kind \in {"add", "comment"} => m.id \in 1..(n - 1) /\ Adds(change) = {m.id})
  BY DEF Wanted, Change, PostMutation, Adds, Kinds
<1>3. \A p \in DOMAIN list : p \in ItemsOf(list) /\ ToSet(list[p]) \subseteq ItemsOf(list)
  BY DEF ItemsOf
(* Each post of the new list holds some of what was there, and what is written. *)
<1>4. ASSUME NEW f, f \in [DOMAIN f -> Seq(1..(n - 1))], DOMAIN f \subseteq 1..(n - 1),
             DOMAIN f \subseteq ItemsOf(list) \cup Adds(change),
             \A p \in DOMAIN f : IsInjective(f[p]) /\ ToSet(f[p]) \subseteq ItemsOf(list) \cup Adds(change)
      PROVE  Good(f)
  <2>1. f \in Once(n)
    BY <1>4, OnceIs
  <2> QED
    BY <1>4, <2>1 DEF ItemsOf
<1> HIDE DEF Good, m
<1>5. CASE m.kind = "add"
  <2>1. PICK f : f = [p \in DOMAIN list \cup {m.id} |-> IF p = m.id THEN <<>> ELSE list[p]]
    OBVIOUS
  <2>2. <<>> \in Seq(1..(n - 1)) /\ IsInjective(<<>>) /\ ToSet(<<>>) = {}
    BY EmptySeq DEF IsInjective, ToSet
  <2>3. Good(f)
    <3>1. DOMAIN f = DOMAIN list \cup {m.id} /\ f = [p \in DOMAIN f |-> f[p]]
      BY <2>1
    <3>2. \A p \in DOMAIN f : /\ f[p] \in Seq(1..(n - 1)) /\ IsInjective(f[p])
                              /\ ToSet(f[p]) \subseteq ItemsOf(list) \cup Adds(change)
      BY <1>1, <1>3, <2>1, <2>2
    <3> QED
      BY <1>1, <1>2, <1>3, <1>4, <1>5, <3>1, <3>2
  <2> QED
    BY <1>5, <2>1, <2>3 DEF Apply
<1>6. CASE m.kind = "edit"
  BY <1>1, <1>3, <1>4, <1>6 DEF Apply
<1>7. CASE m.kind = "delete"
  <2>1. PICK f : f = [p \in DOMAIN list \ {m.id} |-> list[p]]
    OBVIOUS
  <2>2. f \in [DOMAIN f -> Seq(1..(n - 1))] /\ DOMAIN f \subseteq DOMAIN list /\ \A p \in DOMAIN f : f[p] = list[p]
    BY <1>1, <2>1
  <2>3. Good(f)
    BY <1>1, <1>3, <1>4, <2>2
  <2> QED
    BY <1>7, <2>1, <2>3 DEF Apply, Without
<1>8. CASE m.kind = "comment"
  <2>1. PICK f : f = [p \in DOMAIN list |-> IF p = m.of THEN Append(list[p], m.id) ELSE list[p]]
    OBVIOUS
  <2>2. ASSUME NEW p \in DOMAIN list
        PROVE  /\ Append(list[p], m.id) \in Seq(1..(n - 1)) /\ IsInjective(Append(list[p], m.id))
               /\ ToSet(Append(list[p], m.id)) \subseteq ItemsOf(list) \cup Adds(change)
    <3>1. list[p] \in Seq(1..(n - 1)) /\ IsInjective(list[p]) /\ m.id \notin ToSet(list[p]) /\ m.id \in 1..(n - 1)
      BY <1>1, <1>2, <1>3, <1>8
    <3> QED
      BY <1>2, <1>3, <1>8, <3>1, OneMore
  <2>3. DOMAIN f = DOMAIN list /\ f = [p \in DOMAIN f |-> f[p]]
    BY <2>1
  <2>4. \A p \in DOMAIN f : /\ f[p] \in Seq(1..(n - 1)) /\ IsInjective(f[p])
                            /\ ToSet(f[p]) \subseteq ItemsOf(list) \cup Adds(change)
    BY <1>1, <1>3, <2>1, <2>2
  <2>5. Good(f)
    BY <1>1, <1>3, <1>4, <2>3, <2>4
  <2> QED
    BY <1>8, <2>1, <2>5 DEF Apply
<1>9. CASE m.kind = "uncomment"
  <2>1. PICK f : f = [p \in DOMAIN list |->
                       IF p = m.of /\ m.id \in DOMAIN list[p] THEN RemoveAt(list[p], m.id) ELSE list[p]]
    OBVIOUS
  <2>2. ASSUME NEW p \in DOMAIN list, m.id \in DOMAIN list[p]
        PROVE  /\ RemoveAt(list[p], m.id) \in Seq(1..(n - 1)) /\ IsInjective(RemoveAt(list[p], m.id))
               /\ ToSet(RemoveAt(list[p], m.id)) \subseteq ItemsOf(list) \cup Adds(change)
    <3>1. list[p] \in Seq(1..(n - 1)) /\ IsInjective(list[p])
      BY <1>1
    <3> QED
      BY <1>3, <2>2, <3>1, OneLess
  <2>3. DOMAIN f = DOMAIN list /\ f = [p \in DOMAIN f |-> f[p]]
    BY <2>1
  <2>4. \A p \in DOMAIN f : /\ f[p] \in Seq(1..(n - 1)) /\ IsInjective(f[p])
                            /\ ToSet(f[p]) \subseteq ItemsOf(list) \cup Adds(change)
    BY <1>1, <1>3, <2>1, <2>2
  <2>5. Good(f)
    BY <1>1, <1>3, <1>4, <2>3, <2>4
  <2> QED
    BY <1>9, <2>1, <2>5 DEF Apply
<1> QED
  BY <1>2, <1>5, <1>6, <1>7, <1>8, <1>9 DEF Kinds, m

OnceTyped ==
  /\ nextId \in 1..(MaxItems + 1) /\ revision \in 0..MaxRevision /\ auto \in BOOLEAN /\ loading \in BOOLEAN
  /\ activeId \in Characters \cup {None}
  /\ server \in [Characters -> OnceState(nextId)] /\ card \in [Characters -> Once(nextId)] /\ posts \in Once(nextId)
  /\ queue \in Seq(Wanted(nextId))
  /\ running \in [change : Wanted(nextId), stage : Stages, state : OnceState(nextId)] \cup {None}
  /\ answers \subseteq [state : OnceState(nextId), generated : BOOLEAN]
  /\ drafts \subseteq [for : Characters, kind : {"server", "post", "comment"}, of : Ids \cup {0}]

(* What waits in the queue is written nowhere yet, and what found another revision is not on the *)
(* server, nor in what was read of it.                                                           *)
Told == OnServer \cup Kept \cup Ran
Waits ==
  /\ \A i \in DOMAIN queue : Adds(queue[i]) \cap Told = {}
  /\ \A i, j \in DOMAIN queue : i # j => Adds(queue[i]) \cap Adds(queue[j]) = {}
Undone ==
  running # None /\ running.stage \in {"conflict", "read"} =>
    Ran \cap (OnServer \cup ItemsOf(running.state.posts)) = {}
OnceInv == OnceTyped /\ Waits /\ Undone

LEMMA NumberTyped == ASSUME OnceTyped PROVE nextId \in Nat /\ nextId - 1 \in Nat
BY BoundsAssumption DEF OnceTyped

(* All that is written is older than the next number. *)
LEMMA ToldOlder ==
  ASSUME OnceTyped
  PROVE  Told \subseteq 1..(nextId - 1) /\ \A i \in DOMAIN queue : Adds(queue[i]) \subseteq 1..(nextId - 1)
<1>1. OnServer \subseteq 1..(nextId - 1)
  BY OnceItems DEF OnceTyped, OnServer, OnceState
<1>2. Kept \subseteq 1..(nextId - 1)
  <2>1. ItemsOf(posts) \subseteq 1..(nextId - 1) /\ \A c \in Characters : ItemsOf(card[c]) \subseteq 1..(nextId - 1)
    BY OnceItems DEF OnceTyped
  <2>2. ASSUME NEW a \in answers PROVE ItemsOf(a.state.posts) \subseteq 1..(nextId - 1)
    <3>1. a.state.posts \in Once(nextId)
      BY DEF OnceTyped, OnceState
    <3> QED
      BY <3>1, OnceItems
  <2>3. ASSUME running # None PROVE ItemsOf(running.state.posts) \subseteq 1..(nextId - 1)
    <3>1. running.state.posts \in Once(nextId)
      BY <2>3 DEF OnceTyped, OnceState
    <3> QED
      BY <3>1, OnceItems
  <2>4. OnCards \subseteq 1..(nextId - 1)
    BY <2>1 DEF OnCards
  <2>5. Answered \subseteq 1..(nextId - 1)
    BY <2>2 DEF Answered
  <2>6. AtWork \subseteq 1..(nextId - 1)
    BY <2>3 DEF AtWork
  <2> QED
    BY <2>1, <2>4, <2>5, <2>6 DEF Kept
<1>3. Ran \subseteq 1..(nextId - 1)
  BY DEF OnceTyped, Ran, Wanted
<1>4. ASSUME NEW i \in DOMAIN queue PROVE Adds(queue[i]) \subseteq 1..(nextId - 1)
  <2>1. queue[i] \in Wanted(nextId)
    BY LenProperties, ElementOfSeq DEF OnceTyped
  <2> QED
    BY <2>1 DEF Wanted
<1> QED
  BY <1>1, <1>2, <1>3, <1>4 DEF Told

LEMMA ToldNext ==
  ASSUME NEW S, OnServer' \subseteq S, ItemsOf(posts') \subseteq S, \A c \in Characters : ItemsOf(card'[c]) \subseteq S,
         \A a \in answers' : ItemsOf(a.state.posts) \subseteq S,
         running' # None => ItemsOf(running'.state.posts) \subseteq S /\ Adds(running'.change) \subseteq S
  PROVE  Told' \subseteq S
<1>1. OnCards' \subseteq S
  BY DEF OnCards
<1>2. Answered' \subseteq S
  BY DEF Answered
<1>3. AtWork' \subseteq S /\ Ran' \subseteq S
  BY DEF AtWork, Ran
<1>4. Kept' \subseteq S
  BY <1>1, <1>2, <1>3 DEF Kept
<1> QED
  BY <1>3, <1>4 DEF Told

LEMMA ToldIs ==
  /\ OnServer \subseteq Told /\ ItemsOf(posts) \subseteq Told /\ \A c \in Characters : ItemsOf(card[c]) \subseteq Told
  /\ \A c \in Characters : ItemsOf(server[c].posts) \subseteq Told
  /\ \A a \in answers : ItemsOf(a.state.posts) \subseteq Told
  /\ running # None => ItemsOf(running.state.posts) \subseteq Told /\ Adds(running.change) \subseteq Told
<1>1. OnServer \subseteq Told /\ Kept \subseteq Told /\ Ran \subseteq Told
  BY DEF Told
<1>2. \A c \in Characters : ItemsOf(server[c].posts) \subseteq OnServer
  BY DEF OnServer
<1>3. ItemsOf(posts) \subseteq Kept
  BY DEF Kept
<1>4. \A c \in Characters : ItemsOf(card[c]) \subseteq OnCards
  BY DEF OnCards
<1>5. \A a \in answers : ItemsOf(a.state.posts) \subseteq Answered
  BY DEF Answered
<1>6. running # None => ItemsOf(running.state.posts) \subseteq AtWork /\ Adds(running.change) \subseteq Ran
  BY DEF AtWork, Ran
<1>7. OnCards \subseteq Kept /\ Answered \subseteq Kept /\ AtWork \subseteq Kept
  BY DEF Kept
<1> QED
  BY <1>1, <1>2, <1>3, <1>4, <1>5, <1>6, <1>7

(* The queue waits on, or its first change is applied, or another one is asked for. *)
LEMMA WaitsOn ==
  ASSUME OnceTyped, Waits, UNCHANGED queue, NEW X, X \cap (1..(nextId - 1)) = {}, Told' \subseteq Told \cup X
  PROVE  Waits'
BY ToldOlder DEF Waits

LEMMA UndoneStays ==
  ASSUME OnceTyped, Undone, UNCHANGED running, NEW X, X \cap (1..(nextId - 1)) = {}, OnServer' \subseteq OnServer \cup X
  PROVE  Undone'
<1>1. Ran' = Ran /\ Ran \subseteq 1..(nextId - 1)
  BY ToldOlder DEF Ran, Told
<1> QED
  BY <1>1 DEF Undone

LEMMA OnceLaterTyped ==
  ASSUME OnceTyped, NEW n \in Nat, nextId <= n
  PROVE  /\ server \in [Characters -> OnceState(n)] /\ card \in [Characters -> Once(n)] /\ posts \in Once(n)
         /\ queue \in Seq(Wanted(n)) /\ running \in [change : Wanted(n), stage : Stages, state : OnceState(n)] \cup {None}
         /\ answers \subseteq [state : OnceState(n), generated : BOOLEAN]
<1>1. Once(nextId) \subseteq Once(n) /\ OnceState(nextId) \subseteq OnceState(n) /\ Wanted(nextId) \subseteq Wanted(n)
  BY NumberTyped, OnceLater
<1>2. queue \in Seq(Wanted(n))
  <2>1. queue = [k \in 1..Len(queue) |-> queue[k]] /\ Len(queue) \in Nat /\ \A k \in 1..Len(queue) : queue[k] \in Wanted(n)
    BY <1>1, LenProperties, ElementOfSeq DEF OnceTyped
  <2> QED
    BY <2>1, IsASeq
<1> QED
  BY <1>1, <1>2 DEF OnceTyped

(* Nothing is stored, taken or written that was not there: for the steps that only pass on lists. *)
LEMMA PassedOn ==
  ASSUME OnceInv, OnceTyped', UNCHANGED queue, Told' \subseteq Told, OnServer' \subseteq OnServer,
         running' = running \/ running' = None \/ Undone'
  PROVE  OnceInv'
<1> DEFINE nothing == {}
<1>1. nothing \cap (1..(nextId - 1)) = {} /\ Told' \subseteq Told \cup nothing /\ OnServer' \subseteq OnServer \cup nothing
  OBVIOUS
<1> HIDE DEF nothing
<1>2. Waits'
  BY <1>1, WaitsOn DEF OnceInv
<1>3. Undone'
  <2>1. CASE running' = running
    BY <1>1, <2>1, UndoneStays DEF OnceInv
  <2>2. CASE running' = None
    BY <2>2 DEF Undone
  <2> QED
    BY <2>1, <2>2
<1> QED
  BY <1>2, <1>3 DEF OnceInv

LEMMA OnceStart == ASSUME Init PROVE OnceInv
<1> USE DEF Init
<1>1. NoPosts \in Once(1) /\ ItemsOf(NoPosts) = {}
  BY DEF NoPosts, Once, ItemsOf
<1>2. [posts |-> NoPosts, revision |-> 0, auto |-> FALSE] \in OnceState(1) /\ 0 \in 0..MaxRevision
  BY <1>1, BoundsAssumption DEF OnceState
<1>3. queue \in Seq(Wanted(1)) /\ DOMAIN queue = {}
  BY EmptySeq, LenProperties
<1>4. 1 \in 1..(MaxItems + 1)
  BY BoundsAssumption
<1>5. OnceTyped
  BY <1>1, <1>2, <1>3, <1>4 DEF OnceTyped
<1>6. Waits /\ Undone
  BY <1>3 DEF Waits, Undone
<1> QED
  BY <1>5, <1>6 DEF OnceInv

LEMMA RunningTyped ==
  ASSUME OnceTyped, running # None
  PROVE  /\ running.change \in Wanted(nextId) /\ running.change.for \in Characters /\ running.state \in OnceState(nextId)
         /\ running.stage \in Stages /\ running.state.posts \in Once(nextId)
BY DEF OnceTyped, OnceState, Wanted, Change

(* Saved and Answer: the client takes a list that is under way to it. *)
LEMMA TakeOnce ==
  ASSUME OnceInv, NEW s \in OnceState(nextId), Take(s), ItemsOf(s.posts) \subseteq Told, answers' \subseteq answers,
         running' = running \/ running' = None, loading' \in BOOLEAN, UNCHANGED <<server, card, queue, drafts, nextId>>
  PROVE  OnceInv'
<1>1. s.posts \in Once(nextId) /\ s.revision \in 0..MaxRevision /\ s.auto \in BOOLEAN
  BY DEF OnceState
<1>2. OnceTyped'
  BY <1>1 DEF OnceInv, OnceTyped, Take
<1>3. OnServer' = OnServer
  BY DEF OnServer
<1>4. Told' \subseteq Told
  <2>1. ItemsOf(posts') \subseteq Told /\ card' = card
    BY DEF Take
  <2>2. running' # None => ItemsOf(running'.state.posts) \subseteq Told /\ Adds(running'.change) \subseteq Told
    BY ToldIs
  <2> QED
    BY <1>3, <2>1, <2>2, ToldIs, ToldNext
<1> QED
  BY <1>2, <1>3, <1>4, PassedOn

LEMMA AnswersOnce == ASSUME OnceInv, Saved \/ \E a \in answers : Answer(a) PROVE OnceInv'
<1>1. CASE Saved
  <2>1. running # None /\ running.state \in OnceState(nextId) /\ ItemsOf(running.state.posts) \subseteq Told
    BY <1>1, RunningTyped, ToldIs DEF Saved, OnceInv
  <2> QED
    BY <1>1, <2>1, TakeOnce DEF Saved, Finished, OnceInv, OnceTyped
<1>2. ASSUME NEW a \in answers, Answer(a) PROVE OnceInv'
  <2>1. a.state \in OnceState(nextId) /\ ItemsOf(a.state.posts) \subseteq Told
    BY ToldIs DEF OnceInv, OnceTyped
  <2>2. loading' \in BOOLEAN
    BY <1>2 DEF Answer, OnceInv, OnceTyped
  <2> QED
    BY <1>2, <2>1, <2>2, TakeOnce DEF Answer
<1> QED
  BY <1>1, <1>2

LEMMA ReadOnce == ASSUME OnceInv, ReadLatest \/ Reread PROVE OnceInv'
<1>1. PICK t \in Stages :
        /\ running # None /\ UNCHANGED <<server, card, clientVars, queue, answers, drafts, loading, nextId>>
        /\ \/ running' = None
           \/ /\ running' = [running EXCEPT !.stage = t, !.state = server[running.change.for]]
              /\ running.stage = "conflict" \/ t = "refreshed"
  BY DEF ReadLatest, Reread, GivenUp, Stages
<1>2. PICK s : s = server[running.change.for] /\ s \in OnceState(nextId) /\ ItemsOf(s.posts) \subseteq OnServer
  BY <1>1, RunningTyped DEF OnceInv, OnceTyped, OnServer
<1>3. OnServer' = OnServer /\ OnServer \subseteq Told
  BY <1>1, ToldIs DEF OnServer
<1>4. CASE running' = None
  <2>1. OnceTyped'
    BY <1>1, <1>4 DEF OnceInv, OnceTyped, clientVars
  <2>2. Told' \subseteq Told
    BY <1>1, <1>3, <1>4, ToldIs, ToldNext DEF clientVars
  <2> QED
    BY <1>1, <1>3, <1>4, <2>1, <2>2, PassedOn
<1>5. CASE /\ running' = [running EXCEPT !.stage = t, !.state = s]
           /\ running.stage = "conflict" \/ t = "refreshed"
  <2>1. running \in [change : Wanted(nextId), stage : Stages, state : OnceState(nextId)]
    BY <1>1 DEF OnceInv, OnceTyped
  <2>2. /\ running'.change = running.change /\ running'.state = s /\ running'.stage = t
        /\ running' \in [change : Wanted(nextId), stage : Stages, state : OnceState(nextId)]
    BY <1>2, <1>5, <2>1
  <2>3. OnceTyped'
    BY <1>1, <2>2 DEF OnceInv, OnceTyped, clientVars
  <2>4. Told' \subseteq Told
    <3>1. ItemsOf(running'.state.posts) \subseteq Told /\ Adds(running'.change) \subseteq Told
      BY <1>1, <1>2, <1>3, <2>2, ToldIs
    <3> QED
      BY <1>1, <1>3, <3>1, ToldIs, ToldNext DEF clientVars
  <2>5. Undone'
    <3>1. CASE t = "refreshed"
      BY <2>2, <3>1 DEF Undone
    <3>2. CASE running.stage = "conflict"
      <4>1. Adds(running.change) \cap OnServer = {} /\ ItemsOf(s.posts) \subseteq OnServer
        BY <1>1, <1>2, <3>2 DEF OnceInv, Undone, Ran
      <4>2. Ran' \subseteq Adds(running.change)
        BY <2>2 DEF Ran
      <4> QED
        BY <1>3, <2>2, <4>1, <4>2 DEF Undone
    <3> QED
      BY <1>5, <3>1, <3>2
  <2> QED
    BY <1>1, <1>3, <2>3, <2>4, <2>5, PassedOn
<1> QED
  BY <1>1, <1>2, <1>4, <1>5

(* Refresh and SetAuto: an answer holds what the server has. *)
LEMMA RefreshOnce == ASSUME OnceInv, Refresh \/ \E enabled \in BOOLEAN : SetAuto(enabled) PROVE OnceInv'
<1>1. PICK b \in BOOLEAN :
        /\ activeId # None
        /\ server' = server \/ server' = [server EXCEPT ![activeId].auto = b]
        /\ answers' = answers \cup {[state |-> server'[activeId], generated |-> FALSE]}
        /\ UNCHANGED <<card, activeId, posts, revision, auto, queue, running, drafts, loading, nextId>>
  BY DEF Refresh, SetAuto, Reply, clientVars
<1>2. activeId \in Characters /\ server[activeId] \in OnceState(nextId)
  BY <1>1 DEF OnceInv, OnceTyped
<1>3. PICK s : s = [server[activeId] EXCEPT !.auto = b]
  OBVIOUS
<1>4. s \in OnceState(nextId) /\ s.posts = server[activeId].posts
  BY <1>2, <1>3 DEF OnceState
<1>5. server' = server \/ server' = [server EXCEPT ![activeId] = s]
  BY <1>1, <1>3
<1>6. /\ server' \in [Characters -> OnceState(nextId)]
      /\ \A c \in Characters : server'[c].posts = server[c].posts
  BY <1>2, <1>4, <1>5 DEF OnceInv, OnceTyped
<1>7. OnServer' = OnServer /\ OnServer \subseteq Told
  BY <1>6, ToldIs DEF OnServer
<1>8. PICK a : a = [state |-> server'[activeId], generated |-> FALSE]
  OBVIOUS
<1>9. a \in [state : OnceState(nextId), generated : BOOLEAN] /\ ItemsOf(a.state.posts) \subseteq Told
  BY <1>2, <1>6, <1>8, ToldIs
<1>10. OnceTyped'
  BY <1>1, <1>6, <1>8, <1>9 DEF OnceInv, OnceTyped
<1>11. Told' \subseteq Told
  <2>1. \A x \in answers' : ItemsOf(x.state.posts) \subseteq Told
    BY <1>1, <1>8, <1>9, ToldIs
  <2> QED
    BY <1>1, <1>7, <2>1, ToldIs, ToldNext
<1> QED
  BY <1>1, <1>7, <1>10, <1>11, PassedOn

LEMMA DraftOnce ==
  ASSUME OnceInv, NEW kind \in {"server", "post", "comment"}, NEW p \in Ids \cup {0}, Draft(kind, p)
  PROVE  OnceInv'
<1>1. activeId \in Characters /\ drafts' = {[for |-> activeId, kind |-> kind, of |-> p]} /\ loading' \in BOOLEAN
  BY DEF OnceInv, OnceTyped, Draft
<1>2. UNCHANGED <<server, card, activeId, posts, revision, auto, queue, running, answers, nextId>>
  BY DEF Draft, clientVars
<1>3. OnceTyped'
  BY <1>1, <1>2 DEF OnceInv, OnceTyped
<1>4. OnServer' = OnServer /\ OnServer \subseteq Told
  BY <1>2, ToldIs DEF OnServer
<1>5. Told' \subseteq Told
  BY <1>2, <1>4, ToldIs, ToldNext
<1> QED
  BY <1>2, <1>3, <1>4, <1>5, PassedOn

LEMMA SwitchOnce == ASSUME OnceInv, NEW c \in Characters, Switch(c) PROVE OnceInv'
<1>1. /\ activeId' = c /\ posts' = card'[c] /\ UNCHANGED <<server, revision, auto, queue, running, answers, drafts, loading, nextId>>
      /\ card' = card \/ (activeId \in Characters /\ card' = [card EXCEPT ![activeId] = posts])
  BY DEF Switch, OnceInv, OnceTyped
<1>2. /\ card' \in [Characters -> Once(nextId)]
      /\ \A d \in Characters : card'[d] = card[d] \/ card'[d] = posts
  BY <1>1 DEF OnceInv, OnceTyped
<1>3. OnceTyped'
  BY <1>1, <1>2 DEF OnceInv, OnceTyped
<1>4. OnServer' = OnServer /\ OnServer \subseteq Told
  BY <1>1, ToldIs DEF OnServer
<1>5. \A d \in Characters : ItemsOf(card'[d]) \subseteq Told
  BY <1>2, ToldIs
<1>6. Told' \subseteq Told
  BY <1>1, <1>4, <1>5, ToldIs, ToldNext
<1> QED
  BY <1>1, <1>3, <1>4, <1>6, PassedOn

(* What may be asked about a list: a change that writes takes the next number. *)
LEMMA AskedOnce ==
  ASSUME OnceTyped, NEW list \in Once(nextId), NEW c \in Characters, NEW m \in Additions(list) \cup Changes(list), NEW n,
         n = IF m.kind \in {"add", "comment"} THEN nextId + 1 ELSE nextId
  PROVE  /\ n \in 1..(MaxItems + 1) /\ n \in Nat /\ nextId <= n /\ [for |-> c, mutation |-> m] \in Wanted(n)
         /\ Adds([for |-> c, mutation |-> m]) \cap (1..(nextId - 1)) = {}
<1>1. /\ list \in [DOMAIN list -> Seq(1..(nextId - 1))] /\ DOMAIN list \subseteq 1..(nextId - 1)
      /\ list \in Lists /\ nextId \in 1..(MaxItems + 1)
  BY OnceIs, OnceListed DEF OnceTyped
<1>2. nextId \in Nat /\ MaxItems \in Nat /\ 1..(nextId - 1) \subseteq Ids /\ DOMAIN list \subseteq Ids
  BY <1>1, BoundsAssumption DEF Ids
<1>3. CASE m \in Additions(list)
  <2>1. nextId \in Ids /\ (m = New("add", 0) \/ \E p \in DOMAIN list : m = New("comment", p))
    BY <1>1, <1>2, <1>3 DEF Additions, Ids
  <2>2. m \in PostMutation /\ m.kind \in {"add", "comment"} /\ m.id = nextId
    BY <1>2, <2>1 DEF New, PostMutation
  <2>3. n = nextId + 1 /\ n \in 1..(MaxItems + 1) /\ nextId \in 1..(n - 1) /\ nextId \notin 1..(nextId - 1)
    BY <1>2, <2>1, <2>2 DEF Ids
  <2> QED
    BY <1>2, <2>2, <2>3 DEF Wanted, Change, Adds
<1>4. ASSUME m \in PostMutation, m.kind \notin {"add", "comment"}
      PROVE  [for |-> c, mutation |-> m] \in Wanted(n) /\ Adds([for |-> c, mutation |-> m]) = {} /\ n = nextId
  BY <1>4 DEF Wanted, Change, Adds
<1>5. CASE \E k \in {"edit", "delete"}, p \in DOMAIN list : m = [kind |-> k, id |-> p, of |-> 0, meant |-> p]
  <2>1. m \in PostMutation /\ m.kind \notin {"add", "comment"}
    BY <1>2, <1>5 DEF PostMutation
  <2> QED
    BY <1>1, <1>2, <1>4, <2>1
<1>6. CASE \E p \in DOMAIN list : \E i \in DOMAIN list[p] :
             m = [kind |-> "uncomment", id |-> i, of |-> p, meant |-> list[p][i]]
  <2>1. PICK p \in DOMAIN list : \E i \in DOMAIN list[p] :
          m = [kind |-> "uncomment", id |-> i, of |-> p, meant |-> list[p][i]]
    BY <1>6
  <2>2. PICK i \in DOMAIN list[p] : m = [kind |-> "uncomment", id |-> i, of |-> p, meant |-> list[p][i]]
    BY <2>1
  <2>3. list[p] \in UNION {[1..k -> Ids] : k \in 0..MaxItems}
    <3>1. PICK S \in SUBSET Ids : list \in [S -> UNION {[1..k -> Ids] : k \in 0..MaxItems}]
      BY <1>1 DEF Lists
    <3> QED
      BY <3>1
  <2>4. PICK k \in 0..MaxItems : list[p] \in [1..k -> Ids]
    BY <2>3
  <2>5. i \in Ids /\ list[p][i] \in Ids
    BY <1>2, <2>4 DEF Ids
  <2>6. m \in PostMutation /\ m.kind \notin {"add", "comment"}
    BY <1>2, <2>2, <2>5 DEF PostMutation
  <2> QED
    BY <1>1, <1>2, <1>4, <2>6
<1> QED
  BY <1>3, <1>5, <1>6 DEF Changes

(* Ask and Drafted: a change waits behind the others. *)
LEMMA QueuedOnce ==
  ASSUME OnceInv, NEW change \in Wanted(nextId'), nextId' \in 1..(MaxItems + 1), nextId' \in Nat, nextId <= nextId',
         Adds(change) \cap (1..(nextId - 1)) = {}, queue' = Append(queue, change), loading' \in BOOLEAN,
         drafts' \subseteq drafts, UNCHANGED <<server, card, clientVars, running, answers>>
  PROVE  OnceInv'
<1>1. PICK n \in Nat : n = Len(queue) /\ DOMAIN queue = 1..n
  BY LenProperties DEF OnceInv, OnceTyped
<1>2. queue \in Seq(Wanted(nextId'))
  BY OnceLaterTyped DEF OnceInv
<1>3. /\ queue' \in Seq(Wanted(nextId')) /\ Len(queue') = n + 1
      /\ queue'[n + 1] = change /\ \A i \in 1..n : queue'[i] = queue[i]
  BY <1>1, <1>2, AppendProperties
<1>4. DOMAIN queue' = 1..(n + 1)
  BY <1>3, LenProperties
<1>5. OnceTyped'
  BY <1>3, OnceLaterTyped DEF OnceInv, OnceTyped, clientVars
<1>6. OnServer' = OnServer /\ Told' = Told /\ Told \subseteq 1..(nextId - 1)
  BY ToldOlder DEF OnceInv, OnServer, Told, Kept, OnCards, Answered, AtWork, Ran, clientVars
<1>7. \A i \in 1..n : Adds(queue[i]) \subseteq 1..(nextId - 1)
  BY <1>1, ToldOlder DEF OnceInv
<1>8. ASSUME NEW i \in 1..(n + 1), NEW j \in 1..(n + 1), i # j PROVE Adds(queue'[i]) \cap Adds(queue'[j]) = {}
  <2>1. CASE i \in 1..n /\ j \in 1..n
    BY <1>1, <1>3, <1>8, <2>1 DEF OnceInv, Waits
  <2>2. CASE i \notin 1..n
    <3>1. i = n + 1 /\ j \in 1..n
      BY <1>8, <2>2
    <3>2. queue'[i] = change /\ queue'[j] = queue[j] /\ Adds(queue[j]) \subseteq 1..(nextId - 1)
      BY <1>3, <1>7, <3>1
    <3> QED
      BY <3>2
  <2>3. CASE j \notin 1..n
    <3>1. j = n + 1 /\ i \in 1..n
      BY <1>8, <2>3
    <3>2. queue'[j] = change /\ queue'[i] = queue[i] /\ Adds(queue[i]) \subseteq 1..(nextId - 1)
      BY <1>3, <1>7, <3>1
    <3> QED
      BY <3>2
  <2> QED
    BY <2>1, <2>2, <2>3
<1>9. ASSUME NEW i \in 1..(n + 1) PROVE Adds(queue'[i]) \cap Told = {}
  <2>1. CASE i \in 1..n
    BY <1>1, <1>3, <2>1 DEF OnceInv, Waits
  <2>2. CASE i \notin 1..n
    <3>1. i = n + 1
      BY <2>2
    <3> QED
      BY <1>3, <1>6, <3>1
  <2> QED
    BY <2>1, <2>2
<1>10. Waits'
  BY <1>4, <1>6, <1>8, <1>9 DEF Waits
<1>11. Undone'
  BY <1>6 DEF OnceInv, Undone, Ran
<1> QED
  BY <1>5, <1>10, <1>11 DEF OnceInv

LEMMA AskOnce == ASSUME OnceInv, Ask PROVE OnceInv'
<1>1. PICK m \in Additions(posts) \cup Changes(posts) :
        /\ queue' = Append(queue, [for |-> activeId, mutation |-> m])
        /\ nextId' = IF m.kind \in {"add", "comment"} THEN nextId + 1 ELSE nextId
  BY DEF Ask, Enqueue
<1>2. activeId \in Characters /\ posts \in Once(nextId) /\ loading' \in BOOLEAN /\ OnceTyped
  BY DEF Ask, OnceInv, OnceTyped
<1>3. PICK change : change = [for |-> activeId, mutation |-> m]
  OBVIOUS
<1>4. /\ nextId' \in 1..(MaxItems + 1) /\ nextId' \in Nat /\ nextId <= nextId' /\ change \in Wanted(nextId')
      /\ Adds(change) \cap (1..(nextId - 1)) = {}
  BY <1>1, <1>2, <1>3, AskedOnce
<1> QED
  BY <1>1, <1>2, <1>3, <1>4, QueuedOnce DEF Ask

(* The server replaces a list. *)
LEMMA StoresOnce ==
  ASSUME OnceTyped, NEW n \in Nat, nextId <= n, NEW c \in Characters, NEW list \in Once(n), server[c].revision < MaxRevision,
         NEW s, s = Stored(c, list), server' = [server EXCEPT ![c] = s]
  PROVE  /\ s \in OnceState(n) /\ s.posts = list /\ server' \in [Characters -> OnceState(n)] /\ server'[c] = s
         /\ OnServer' \subseteq OnServer \cup ItemsOf(list)
<1>1. server \in [Characters -> OnceState(n)]
  BY OnceLaterTyped
<1>2. PICK r : r = server[c].revision + 1
  OBVIOUS
<1>3. server[c].revision \in 0..MaxRevision /\ MaxRevision \in Nat
  BY <1>1, BoundsAssumption DEF OnceState
<1>4. r \in 0..MaxRevision
  BY <1>2, <1>3
<1>5. s = [server[c] EXCEPT !.posts = list, !.revision = r]
  BY <1>2 DEF Stored
<1>6. s \in OnceState(n) /\ s.posts = list
  BY <1>1, <1>4, <1>5 DEF OnceState
<1>7. server' \in [Characters -> OnceState(n)] /\ server'[c] = s /\ \A d \in Characters : d # c => server'[d] = server[d]
  BY <1>1, <1>6
<1>8. OnServer' \subseteq OnServer \cup ItemsOf(list)
  BY <1>6, <1>7 DEF OnServer
<1> QED
  BY <1>6, <1>7, <1>8

(* The first change of the queue is applied to what is shown. *)
LEMMA PersistOnce == ASSUME OnceInv, Persist PROVE OnceInv'
<1> DEFINE list == Apply(Head(queue).mutation, posts)
<1>1. PICK change : change = Head(queue)
  OBVIOUS
<1>2. PICK n \in Nat : n = Len(queue) /\ DOMAIN queue = 1..n
  BY LenProperties DEF OnceInv, OnceTyped
<1>3. /\ running = None /\ queue # <<>> /\ posts' = list /\ Sent(change.for, list, revision) /\ queue' = Tail(queue)
      /\ UNCHANGED <<card, activeId, revision, auto, answers, drafts, loading, nextId>>
  BY <1>1 DEF Persist
<1>4. /\ change \in Wanted(nextId) /\ queue' \in Seq(Wanted(nextId)) /\ nextId \in Nat /\ posts \in Once(nextId)
      /\ Len(queue') = n - 1 /\ n # 0 /\ change = queue[1] /\ \A i \in 1..(n - 1) : queue'[i] = queue[i + 1]
  <2>1. queue \in Seq(Wanted(nextId)) /\ nextId \in Nat /\ posts \in Once(nextId)
    BY NumberTyped DEF OnceInv, OnceTyped
  <2>2. Head(queue) \in Wanted(nextId) /\ Tail(queue) \in Seq(Wanted(nextId)) /\ Len(Tail(queue)) = Len(queue) - 1
        /\ \A i \in 1..Len(Tail(queue)) : Tail(queue)[i] = queue[i + 1]
    BY <1>3, <2>1, HeadTailProperties
  <2>3. n # 0
    BY <1>2, <1>3, <2>1, EmptySeq
  <2> QED
    BY <1>1, <1>2, <1>3, <2>1, <2>2, <2>3
<1>5. change.for \in Characters
  BY <1>4 DEF Wanted, Change
<1>6. DOMAIN queue' = 1..(n - 1) /\ 1 \in 1..n /\ \A i \in 1..(n - 1) : i + 1 \in 1..n /\ i + 1 # 1
  BY <1>4, LenProperties
<1>7. Adds(change) \cap Told = {}
  BY <1>2, <1>4, <1>6 DEF OnceInv, Waits
<1>8. list \in Once(nextId) /\ ItemsOf(list) \subseteq ItemsOf(posts) \cup Adds(change)
  BY <1>1, <1>4, <1>7, ToldIs, AppliedOnce
<1>9. ItemsOf(list) \subseteq Told \cup Adds(change)
  BY <1>8, ToldIs
<1> HIDE DEF list
<1>10. PICK s, t :
         /\ s \in OnceState(nextId) /\ running' = [change |-> change, stage |-> t, state |-> s]
         /\ t \in {"saved", "failed", "conflict"} /\ ItemsOf(s.posts) \subseteq Told \cup Adds(change)
         /\ server' \in [Characters -> OnceState(nextId)] /\ OnServer' \subseteq Told \cup Adds(change)
         /\ t = "conflict" => ItemsOf(s.posts) \subseteq OnServer /\ OnServer' = OnServer
  <2>1. CASE /\ Accepts(change.for, revision) /\ server' = [server EXCEPT ![change.for] = Stored(change.for, list)]
             /\ running' \in {[change |-> change, stage |-> t, state |-> Stored(change.for, list)] : t \in {"saved", "failed"}}
    <3>1. PICK s : s = Stored(change.for, list)
      OBVIOUS
    <3>2. server[change.for].revision < MaxRevision
      BY <2>1 DEF Accepts
    <3>3. /\ s \in OnceState(nextId) /\ s.posts = list /\ server' \in [Characters -> OnceState(nextId)]
          /\ OnServer' \subseteq OnServer \cup ItemsOf(list)
      <4>1. nextId \in Nat /\ nextId <= nextId /\ OnceTyped
        BY <1>4 DEF OnceInv
      <4>2. server' = [server EXCEPT ![change.for] = s]
        BY <2>1, <3>1
      <4>3. PICK l \in Once(nextId) : l = list
        BY <1>8
      <4>4. s = Stored(change.for, l)
        BY <3>1, <4>3
      <4>5. /\ s \in OnceState(nextId) /\ s.posts = l /\ server' \in [Characters -> OnceState(nextId)]
            /\ OnServer' \subseteq OnServer \cup ItemsOf(l)
        BY <1>5, <3>2, <4>1, <4>2, <4>4, StoresOnce
      <4> QED
        BY <4>3, <4>5
    <3>4. OnServer' \subseteq Told \cup Adds(change)
      BY <1>9, <3>3, ToldIs
    <3> QED
      BY <1>9, <2>1, <3>1, <3>3, <3>4
  <2>2. CASE /\ UNCHANGED server
             /\ running' \in {[change |-> change, stage |-> t, state |-> server[change.for]] : t \in {"conflict", "failed"}}
    <3>1. server[change.for] \in OnceState(nextId) /\ server' \in [Characters -> OnceState(nextId)]
      BY <1>5, <2>2 DEF OnceInv, OnceTyped
    <3>2. ItemsOf(server[change.for].posts) \subseteq OnServer /\ OnServer' = OnServer /\ OnServer \subseteq Told
      BY <1>5, <2>2, ToldIs DEF OnServer
    <3> QED
      BY <2>2, <3>1, <3>2
  <2> QED
    BY <1>1, <1>3, <2>1, <2>2 DEF Sent
<1>11. /\ running'.change = change /\ running'.stage = t /\ running'.state = s
       /\ running' \in [change : Wanted(nextId), stage : Stages, state : OnceState(nextId)]
  BY <1>4, <1>10 DEF Stages
<1>12. OnceTyped'
  BY <1>3, <1>4, <1>8, <1>10, <1>11 DEF OnceInv, OnceTyped
<1>13. Told' \subseteq Told \cup Adds(change)
  <2>1. /\ ItemsOf(posts') \subseteq Told \cup Adds(change) /\ OnServer' \subseteq Told \cup Adds(change)
        /\ \A c \in Characters : ItemsOf(card'[c]) \subseteq Told \cup Adds(change)
        /\ \A a \in answers' : ItemsOf(a.state.posts) \subseteq Told \cup Adds(change)
    BY <1>3, <1>9, <1>10, ToldIs
  <2>2. ItemsOf(running'.state.posts) \subseteq Told \cup Adds(change) /\ Adds(running'.change) \subseteq Told \cup Adds(change)
    BY <1>10, <1>11
  <2> QED
    BY <2>1, <2>2, ToldNext
<1>14. Waits'
  <2>1. ASSUME NEW i \in 1..(n - 1) PROVE Adds(queue'[i]) \cap (Told \cup Adds(change)) = {}
    <3>1. i + 1 \in 1..n /\ i + 1 # 1 /\ 1 \in 1..n /\ queue'[i] = queue[i + 1]
      <4>1. i + 1 \in 1..n /\ i + 1 # 1 /\ 1 \in 1..n
        BY <1>6
      <4> QED
        BY <1>4, <4>1
    <3>2. Adds(queue[i + 1]) \cap Told = {} /\ Adds(queue[i + 1]) \cap Adds(queue[1]) = {}
      BY <1>2, <3>1 DEF OnceInv, Waits
    <3> QED
      BY <1>4, <3>1, <3>2
  <2>2. ASSUME NEW i \in 1..(n - 1), NEW j \in 1..(n - 1), i # j PROVE Adds(queue'[i]) \cap Adds(queue'[j]) = {}
    <3>1. i + 1 \in 1..n /\ j + 1 \in 1..n /\ i + 1 # j + 1 /\ queue'[i] = queue[i + 1] /\ queue'[j] = queue[j + 1]
      <4>1. i + 1 \in 1..n /\ j + 1 \in 1..n
        BY <1>6
      <4>2. i + 1 # j + 1
        BY <2>2
      <4> QED
        BY <1>4, <4>1, <4>2
    <3> QED
      BY <1>2, <3>1 DEF OnceInv, Waits
  <2> QED
    BY <1>6, <1>13, <2>1, <2>2 DEF Waits
<1>15. Undone'
  <2> SUFFICES ASSUME t = "conflict" PROVE Ran' \cap (OnServer' \cup ItemsOf(s.posts)) = {}
    BY <1>10, <1>11 DEF Undone
  <2>1. Ran' \subseteq Adds(change) /\ OnServer' = OnServer /\ ItemsOf(s.posts) \subseteq OnServer
    BY <1>10, <1>11 DEF Ran
  <2> QED
    BY <1>7, <2>1, ToldIs
<1> QED
  BY <1>12, <1>14, <1>15 DEF OnceInv

(* The second try applies the change to what was read, where it is not written yet. *)
LEMMA RetryOnce == ASSUME OnceInv, Retry PROVE OnceInv'
<1>1. PICK change, list : change = running.change /\ list = Apply(change.mutation, running.state.posts)
  OBVIOUS
<1>2. PICK s : s = Stored(change.for, list)
  OBVIOUS
<1>3. /\ running # None /\ running.stage = "read"
      /\ UNCHANGED <<card, clientVars, queue, answers, drafts, loading, nextId>>
      /\ \/ /\ Accepts(change.for, running.state.revision) /\ server' = [server EXCEPT ![change.for] = s]
            /\ running' = [running EXCEPT !.stage = "saved", !.state = s] \/ running' = None
         \/ running' = None /\ UNCHANGED server
  BY <1>1, <1>2 DEF Retry, RetrySource, GivenUp
<1>4. /\ change \in Wanted(nextId) /\ change.for \in Characters /\ running.state.posts \in Once(nextId)
      /\ nextId \in Nat
  BY <1>1, <1>3, RunningTyped, NumberTyped DEF OnceInv
<1>5. Adds(change) \cap ItemsOf(running.state.posts) = {} /\ ItemsOf(running.state.posts) \cup Adds(change) \subseteq Told
  BY <1>1, <1>3, ToldIs DEF OnceInv, Undone, Ran
<1>6. list \in Once(nextId) /\ ItemsOf(list) \subseteq Told
  BY <1>1, <1>4, <1>5, AppliedOnce
<1>7. /\ server' \in [Characters -> OnceState(nextId)] /\ OnServer' \subseteq Told
      /\ \/ running' = None
         \/ /\ running' = [running EXCEPT !.stage = "saved", !.state = s]
            /\ s \in OnceState(nextId) /\ s.posts = list
  <2>1. CASE running' = None /\ UNCHANGED server
    BY <2>1, ToldIs DEF OnceInv, OnceTyped, OnServer
  <2>2. CASE /\ Accepts(change.for, running.state.revision) /\ server' = [server EXCEPT ![change.for] = s]
             /\ running' = [running EXCEPT !.stage = "saved", !.state = s] \/ running' = None
    <3>1. server[change.for].revision < MaxRevision
      BY <2>2 DEF Accepts
    <3>2. /\ s \in OnceState(nextId) /\ s.posts = list /\ server' \in [Characters -> OnceState(nextId)]
          /\ OnServer' \subseteq OnServer \cup ItemsOf(list)
      <4>1. nextId <= nextId /\ OnceTyped
        BY <1>4 DEF OnceInv
      <4> QED
        BY <1>2, <1>4, <1>6, <2>2, <3>1, <4>1, StoresOnce
    <3> QED
      BY <1>6, <2>2, <3>2, ToldIs
  <2> QED
    BY <1>3, <2>1, <2>2
<1>8. \/ running' = None
      \/ /\ running' \in [change : Wanted(nextId), stage : Stages, state : OnceState(nextId)]
         /\ running'.change = change /\ running'.stage = "saved" /\ running'.state.posts = list
  <2>1. running \in [change : Wanted(nextId), stage : Stages, state : OnceState(nextId)]
    BY <1>3 DEF OnceInv, OnceTyped
  <2>2. CASE running' = None
    BY <2>2
  <2>3. CASE running' = [running EXCEPT !.stage = "saved", !.state = s] /\ s \in OnceState(nextId) /\ s.posts = list
    BY <1>1, <2>1, <2>3 DEF Stages
  <2> QED
    BY <1>7, <2>2, <2>3
<1>9. OnceTyped'
  BY <1>3, <1>7, <1>8 DEF OnceInv, OnceTyped, clientVars
<1>10. Told' \subseteq Told
  <2>1. running' # None => ItemsOf(running'.state.posts) \subseteq Told /\ Adds(running'.change) \subseteq Told
    BY <1>5, <1>6, <1>8
  <2>2. posts' = posts /\ card' = card /\ answers' = answers
    BY <1>3 DEF clientVars
  <2> QED
    BY <1>7, <2>1, <2>2, ToldIs, ToldNext
<1>11. Undone'
  BY <1>8 DEF Undone
<1>12. Waits'
  BY <1>3, <1>10 DEF OnceInv, Waits
<1> QED
  BY <1>9, <1>11, <1>12 DEF OnceInv

(* The server writes a generated post, or another device or a visitor changes a list: with a new number. *)
LEMMA WrittenOnce ==
  ASSUME OnceInv, nextId' \in 1..(MaxItems + 1), nextId' \in Nat, nextId <= nextId',
         NEW c \in Characters, NEW change \in Wanted(nextId'), Adds(change) \cap (1..(nextId - 1)) = {},
         server[c].revision < MaxRevision, NEW s, s = Stored(c, Apply(change.mutation, server[c].posts)),
         server' = [server EXCEPT ![c] = s], loading' \in BOOLEAN, drafts' \subseteq drafts,
         answers' = answers \/ answers' = answers \cup {[state |-> s, generated |-> TRUE]},
         UNCHANGED <<card, clientVars, queue, running>>
  PROVE  OnceInv'
<1>1. PICK list : list = Apply(change.mutation, server[c].posts)
  OBVIOUS
<1>2. server[c].posts \in Once(nextId') /\ server[c].posts \in Once(nextId) /\ OnceTyped
  BY OnceLaterTyped DEF OnceInv, OnceTyped, OnceState
<1>3. Adds(change) \cap ItemsOf(server[c].posts) = {}
  BY <1>2, OnceItems
<1>4. list \in Once(nextId') /\ ItemsOf(list) \subseteq ItemsOf(server[c].posts) \cup Adds(change)
  BY <1>1, <1>2, <1>3, AppliedOnce
<1>5. /\ s \in OnceState(nextId') /\ s.posts = list /\ server' \in [Characters -> OnceState(nextId')]
      /\ OnServer' \subseteq OnServer \cup ItemsOf(list)
  <2>1. PICK n \in Nat : n = nextId'
    OBVIOUS
  <2>2. list \in Once(n) /\ nextId <= n /\ s = Stored(c, list)
    BY <1>1, <1>4, <2>1
  <2>3. /\ s \in OnceState(n) /\ s.posts = list /\ server' \in [Characters -> OnceState(n)]
        /\ OnServer' \subseteq OnServer \cup ItemsOf(list)
    BY <1>2, <2>2, StoresOnce
  <2> QED
    BY <2>1, <2>3
<1>6. OnServer' \subseteq OnServer \cup Adds(change) /\ OnServer \subseteq Told /\ ItemsOf(list) \subseteq Told \cup Adds(change)
  BY <1>4, <1>5, ToldIs DEF OnServer
<1>7. answers' \subseteq [state : OnceState(nextId'), generated : BOOLEAN]
  <2>1. answers \subseteq [state : OnceState(nextId'), generated : BOOLEAN]
    BY <1>2, OnceLaterTyped
  <2>2. PICK a : a = [state |-> s, generated |-> TRUE]
    OBVIOUS
  <2>3. a \in [state : OnceState(nextId'), generated : BOOLEAN]
    BY <1>5, <2>2
  <2> QED
    BY <2>1, <2>2, <2>3
<1>8. OnceTyped'
  BY <1>2, <1>5, <1>7, OnceLaterTyped DEF OnceTyped, clientVars
<1>9. Told' \subseteq Told \cup Adds(change)
  <2>1. \A a \in answers' : ItemsOf(a.state.posts) \subseteq Told \cup Adds(change)
    BY <1>5, <1>6, ToldIs
  <2>2. posts' = posts /\ card' = card /\ running' = running
    BY DEF clientVars
  <2> QED
    BY <1>6, <2>1, <2>2, ToldIs, ToldNext
<1> QED
  BY <1>2, <1>6, <1>8, <1>9, WaitsOn, UndoneStays DEF OnceInv

LEMMA ElsewhereOnce == ASSUME OnceInv, NEW c \in Characters, Elsewhere(c) PROVE OnceInv'
<1>1. PICK m \in Additions(server[c].posts) \cup Changes(server[c].posts) :
        /\ server' = [server EXCEPT ![c] = Stored(c, Apply(m, server[c].posts))]
        /\ nextId' = IF m.kind \in {"add", "comment"} THEN nextId + 1 ELSE nextId
  BY DEF Elsewhere
<1>2. server[c].posts \in Once(nextId) /\ loading' \in BOOLEAN /\ OnceTyped
  BY DEF Elsewhere, OnceInv, OnceTyped, OnceState
<1>3. PICK change, s : change = [for |-> c, mutation |-> m] /\ s = Stored(c, Apply(change.mutation, server[c].posts))
  OBVIOUS
<1>4. /\ nextId' \in 1..(MaxItems + 1) /\ nextId' \in Nat /\ nextId <= nextId' /\ change \in Wanted(nextId')
      /\ Adds(change) \cap (1..(nextId - 1)) = {}
  BY <1>1, <1>2, <1>3, AskedOnce
<1>5. server' = [server EXCEPT ![c] = s]
  BY <1>1, <1>3
<1> QED
  BY <1>2, <1>3, <1>4, <1>5, WrittenOnce DEF Elsewhere

LEMMA DraftDoneOnce == ASSUME OnceInv, NEW d \in drafts, DraftDone(d) PROVE OnceInv'
<1>1. /\ d.for \in Characters /\ d.kind \in {"server", "post", "comment"} /\ d.of \in Ids \cup {0}
      /\ nextId \in Nat /\ loading \in BOOLEAN /\ MaxItems \in Nat
  BY NumberTyped, BoundsAssumption DEF OnceInv, OnceTyped
<1>2. drafts' = {} /\ UNCHANGED <<card, clientVars, running, done, removed>>
  BY DEF DraftDone
<1>3. CASE NoText(d)
  <2>1. UNCHANGED <<server, answers, queue, nextId>> /\ loading' \in BOOLEAN
    BY <1>1, <1>3 DEF NoText
  <2>2. OnceTyped'
    BY <1>2, <2>1 DEF OnceInv, OnceTyped, clientVars
  <2>3. OnServer' = OnServer /\ Told' = Told
    BY <1>2, <2>1 DEF OnServer, Told, Kept, OnCards, Answered, AtWork, Ran, clientVars
  <2> QED
    BY <1>2, <2>1, <2>2, <2>3, PassedOn
<1>4. ASSUME NEW kind \in {"add", "comment"}, NEW of \in Ids \cup {0}, nextId <= MaxItems, nextId' = nextId + 1,
             NEW change, change = [for |-> d.for, mutation |-> New(kind, of)]
      PROVE  /\ nextId' \in 1..(MaxItems + 1) /\ nextId' \in Nat /\ nextId <= nextId' /\ change \in Wanted(nextId')
             /\ Adds(change) \cap (1..(nextId - 1)) = {}
  <2>1. nextId \in 1..(MaxItems + 1)
    BY DEF OnceInv, OnceTyped
  <2>2. nextId \in Ids /\ nextId' \in 1..(MaxItems + 1) /\ nextId' \in Nat /\ nextId \in 1..(nextId' - 1)
        /\ nextId \notin 1..(nextId - 1)
    BY <1>1, <1>4, <2>1 DEF Ids
  <2>3. New(kind, of) \in PostMutation /\ Adds(change) = {nextId}
    BY <1>4, <2>2 DEF New, PostMutation, Adds
  <2> QED
    BY <1>1, <1>4, <2>2, <2>3 DEF Wanted, Change
<1>5. CASE Drafted(d)
  <2>1. PICK kind \in {"add", "comment"} : kind = IF d.kind = "post" THEN "add" ELSE "comment"
    OBVIOUS
  <2>2. PICK change : change = [for |-> d.for, mutation |-> New(kind, d.of)]
    OBVIOUS
  <2>3. /\ nextId <= MaxItems /\ nextId' = nextId + 1 /\ UNCHANGED <<server, answers>> /\ loading' \in BOOLEAN
        /\ queue' = Append(queue, change)
    BY <1>1, <1>5, <2>1, <2>2 DEF Drafted, Enqueue
  <2>4. /\ nextId' \in 1..(MaxItems + 1) /\ nextId' \in Nat /\ nextId <= nextId' /\ change \in Wanted(nextId')
        /\ Adds(change) \cap (1..(nextId - 1)) = {}
    BY <1>1, <1>4, <2>2, <2>3
  <2> QED
    BY <1>2, <2>3, <2>4, QueuedOnce
<1>6. CASE Generated(d)
  <2>1. PICK change, s : /\ change = [for |-> d.for, mutation |-> New("add", 0)]
                         /\ s = Stored(d.for, Apply(change.mutation, server[d.for].posts))
    OBVIOUS
  <2>2. s = Written(d.for)
    <3>1. server[d.for] = [posts |-> server[d.for].posts, revision |-> server[d.for].revision, auto |-> server[d.for].auto]
      BY <1>1 DEF OnceInv, OnceTyped, OnceState
    <3> QED
      BY <2>1, <3>1 DEF Written, Stored
  <2>3. /\ nextId <= MaxItems /\ nextId' = nextId + 1 /\ server[d.for].revision < MaxRevision
        /\ server' = [server EXCEPT ![d.for] = s] /\ UNCHANGED queue
    BY <1>6, <2>2 DEF Generated
  <2>4. server'[d.for] = s /\ loading' \in BOOLEAN
    BY <1>1, <1>6, <2>3 DEF Generated, OnceInv, OnceTyped
  <2>5. answers' = answers \/ answers' = answers \cup {[state |-> s, generated |-> TRUE]}
    BY <1>6, <2>4 DEF Generated, Reply
  <2>6. /\ nextId' \in 1..(MaxItems + 1) /\ nextId' \in Nat /\ nextId <= nextId' /\ change \in Wanted(nextId')
        /\ Adds(change) \cap (1..(nextId - 1)) = {}
    BY <1>4, <2>1, <2>3
  <2> QED
    BY <1>1, <1>2, <2>1, <2>3, <2>4, <2>5, <2>6, WrittenOnce
<1> QED
  BY <1>3, <1>5, <1>6 DEF DraftDone

LEMMA OnceStep == ASSUME OnceInv, [Next]_vars PROVE OnceInv'
<1>1. CASE UNCHANGED vars
  <2>1. OnceTyped'
    BY <1>1 DEF vars, clientVars, OnceInv, OnceTyped
  <2>2. OnServer' = OnServer /\ Told' = Told /\ running' = running /\ queue' = queue
    BY <1>1 DEF OnServer, Told, Kept, OnCards, Answered, AtWork, Ran, vars, clientVars
  <2> QED
    BY <2>1, <2>2, PassedOn
<1> QED
  BY <1>1, AskOnce, PersistOnce, AnswersOnce, ReadOnce, RetryOnce, RefreshOnce, DraftOnce, DraftDoneOnce,
     SwitchOnce, ElsewhereOnce
     DEF Next, Mutations

LEMMA OnceTypeOK == ASSUME OnceTyped PROVE TypeOK
<1>1. \A f \in Once(nextId) : f \in Lists
  BY OnceListed DEF OnceTyped
<1>2. \A s \in OnceState(nextId) : s \in CharacterPostsState
  BY <1>1 DEF OnceState, CharacterPostsState
<1>3. ToSet(queue) \subseteq Change
  <2>1. \A i \in DOMAIN queue : queue[i] \in Wanted(nextId)
    BY LenProperties, ElementOfSeq DEF OnceTyped
  <2> QED
    BY <2>1 DEF ToSet, Wanted
<1>4. server \in [Characters -> CharacterPostsState] /\ card \in [Characters -> Lists] /\ posts \in Lists
  BY <1>1, <1>2 DEF OnceTyped
<1>5. running # None => running.change \in Change /\ running.stage \in Stages /\ running.state \in CharacterPostsState
  BY <1>2, RunningTyped DEF Wanted
<1>6. \A a \in answers : a.state \in CharacterPostsState
  BY <1>2 DEF OnceTyped
<1>7. activeId \in Characters \cup {None} /\ loading \in BOOLEAN /\ auto \in BOOLEAN /\ revision \in 0..MaxRevision
  BY DEF OnceTyped
<1> QED
  BY <1>3, <1>4, <1>5, <1>6, <1>7 DEF TypeOK

(* A comment is at one place of what is shown, saved or read, however often the change that wrote it is *)
(* sent, finds another revision, is applied again, or is overtaken by answers (useAliveFeed.ts, mutatePosts *)
(* to retryMutation), for any number of characters: so lists grow no longer than there are things to write. *)
NothingTwice ==
  /\ \A p \in DOMAIN posts : IsInjective(posts[p])
  /\ \A c \in Characters :
       /\ \A p \in DOMAIN server[c].posts : IsInjective(server[c].posts[p])
       /\ \A p \in DOMAIN card[c] : IsInjective(card[c][p])
LEMMA OnceIsOnce == ASSUME OnceTyped PROVE TypeOK /\ NothingTwice
<1>1. posts \in Once(nextId) /\ \A c \in Characters : server[c].posts \in Once(nextId) /\ card[c] \in Once(nextId)
  BY DEF OnceTyped, OnceState
<1> QED
  BY <1>1, OnceTypeOK, OnceIs DEF NothingTwice

THEOREM NothingIsTwice == Spec => [](TypeOK /\ NothingTwice)
<1>1. OnceInv => TypeOK /\ NothingTwice
  BY OnceIsOnce DEF OnceInv
<1> QED
  BY <1>1, OnceStart, OnceStep, PTL DEF Spec

-----------------------------------------------------------------------------
(* What others can be found, and the numbers shown of them.  Whom a request can be about. *)
Whose(r) ==
  /\ r.kind \in {"share", "followers"} => r.ids \subseteq Own
  /\ r.kind \in {"follow", "unfollow"} => \E t \in Targets : r.ids = {t}
  /\ r.kind = "sync" => r.ids \subseteq Targets
Numbered ==
  /\ \A r \in requests : r.number <= findAsked
  /\ \A q, r \in requests : q.number = r.number => q = r
InOrder == \A r \in requests : r.kind \notin disturbed /\ r.reply # "none" => \A q \in Find!Earlier(r) : q.reply # "none"
FailuresKnown == \A r \in Find!Of({"list", "counts", "followers"}) : r.reply = "failed" => r.kind \in disturbed
Requested == Find!TypeOK /\ Numbered /\ (\A r \in requests : Whose(r)) /\ InOrder /\ FailuresKnown

(* A step that asks: of the requests before it keeps some, and what it adds is new. *)
Added(base, r) == r \in Find!Request /\ Whose(r) /\ r.number > findAsked /\ r.number <= findAsked' /\ r.reply = "none"
Grows(base, kinds) ==
  /\ base \subseteq requests /\ base \subseteq requests' /\ findAsked' \in Nat /\ findAsked <= findAsked'
  /\ \A r \in requests' \ base : Added(base, r) /\ r.kind \in kinds
  /\ \A q, r \in requests' \ base : q.number = r.number => q = r
  /\ disturbed \subseteq disturbed'

LEMMA NewTyped ==
  ASSUME Find!TypeOK, NEW kind \in Find!Kinds, NEW ids \in SUBSET Find!Ids
  PROVE  /\ Find!New(kind, ids) \in Find!Request /\ Find!New(kind, ids).kind = kind
         /\ Find!New(kind, ids).ids = ids
         /\ Find!New(kind, ids).reply = "none"
BY DEF Find!TypeOK, Find!New, Find!Request, Find!NoCounts, Find!Counts

LEMMA Asking ==
  ASSUME Requested, NEW base \in SUBSET requests, NEW news \in Seq(Find!Request), Find!Asks(base, news),
         NEW kinds,
         \A i \in 1..Len(news) : news[i].reply = "none" /\ news[i].kind \in kinds /\ Whose(news[i]),
         disturbed \subseteq disturbed'
  PROVE  /\ Grows(base, kinds)
         /\ \A i \in 1..Len(news) : \E r \in requests' \ base : r.kind = news[i].kind /\ r.ids = news[i].ids
<1> DEFINE As(i) == [news[i] EXCEPT !.number = findAsked + i]
<1>1. findAsked \in Nat /\ Len(news) \in Nat /\ findAsked' = findAsked + Len(news) /\ DOMAIN news = 1..Len(news)
  BY DEF Requested, Find!TypeOK, Find!Asks
<1>2. requests' = base \cup {As(i) : i \in 1..Len(news)}
  BY <1>1 DEF Find!Asks
<1>3. ASSUME NEW i \in 1..Len(news)
      PROVE  /\ As(i) \in Find!Request /\ As(i).number = findAsked + i /\ As(i).kind = news[i].kind
             /\ As(i).ids = news[i].ids
             /\ As(i).reply = "none"
  <2>1. news[i] \in Find!Request /\ findAsked + i \in Nat \ {0}
    BY <1>1
  <2> QED
    BY <2>1 DEF Find!Request
<1>4. \A i \in 1..Len(news) : Whose(As(i))
  BY <1>3 DEF Whose
<1>5. \A r \in requests' \ base : \E i \in 1..Len(news) : r = As(i)
  BY <1>2
<1>6. \A i \in 1..Len(news) : As(i) \notin base
  <2> SUFFICES ASSUME NEW i \in 1..Len(news), As(i) \in base PROVE FALSE
    OBVIOUS
  <2>1. As(i).number <= findAsked
    BY DEF Requested, Numbered
  <2>2. As(i).number = findAsked + i
    BY <1>3
  <2> HIDE DEF As
  <2> QED
    BY <2>1, <2>2, <1>1
<1> HIDE DEF As
<1>7. \A r \in requests' \ base : Added(base, r) /\ r.kind \in kinds
  <2> SUFFICES ASSUME NEW r \in requests' \ base PROVE Added(base, r) /\ r.kind \in kinds
    OBVIOUS
  <2>1. PICK i \in 1..Len(news) : r = As(i)
    BY <1>5
  <2> QED
    BY <2>1, <1>1, <1>3, <1>4 DEF Added
<1>8. ASSUME NEW q \in requests' \ base, NEW r \in requests' \ base, q.number = r.number PROVE q = r
  <2>1. PICK i \in 1..Len(news) : q = As(i)
    BY <1>5
  <2>2. PICK j \in 1..Len(news) : r = As(j)
    BY <1>5
  <2> QED
    BY <1>1, <1>3, <1>8, <2>1, <2>2
<1>9. \A i \in 1..Len(news) : \E r \in requests' \ base : r.kind = news[i].kind /\ r.ids = news[i].ids
  BY <1>2, <1>3, <1>6
<1> QED
  BY <1>1, <1>2, <1>7, <1>8, <1>9 DEF Grows

LEMMA AskingOne ==
  ASSUME Requested, NEW base \in SUBSET requests, NEW kind \in Find!Kinds, NEW ids \in SUBSET Find!Ids,
         Find!Asks(base, <<Find!New(kind, ids)>>), Whose(Find!New(kind, ids)), disturbed \subseteq disturbed'
  PROVE  Grows(base, {kind}) /\ \E r \in requests' \ base : r.kind = kind /\ r.ids = ids
<1> DEFINE news == <<Find!New(kind, ids)>>
<1>1. /\ Find!New(kind, ids) \in Find!Request /\ Find!New(kind, ids).kind = kind
      /\ Find!New(kind, ids).ids = ids
      /\ Find!New(kind, ids).reply = "none"
  BY NewTyped DEF Requested
<1>2. news \in Seq(Find!Request) /\ Len(news) = 1 /\ news[1] = Find!New(kind, ids) /\ 1 \in 1..Len(news)
  BY <1>1
<1>3. \A i \in 1..Len(news) : news[i].reply = "none" /\ news[i].kind \in {kind} /\ Whose(news[i])
  BY <1>1, <1>2
<1> HIDE DEF news
<1>4. Grows(base, {kind}) /\ \A i \in 1..Len(news) : \E r \in requests' \ base : r.kind = news[i].kind /\ r.ids = news[i].ids
  <2>1. Find!Asks(base, news)
    BY DEF news
  <2> QED
    BY <2>1, <1>2, <1>3, Asking
<1> QED
  BY <1>1, <1>2, <1>4

LEMMA AskingNone ==
  ASSUME Requested, NEW base \in SUBSET requests, requests' = base, findAsked' = findAsked,
         disturbed \subseteq disturbed'
  PROVE  \A kinds : Grows(base, kinds)
BY DEF Requested, Find!TypeOK, Grows

(* What a step that asks leaves true of the requests. *)
LEMMA GrowsSent ==
  ASSUME Requested, Find!TypeOK', NEW base, NEW kinds, Grows(base, kinds)
  PROVE  Requested'
<1> USE DEF Grows, Added
<1>1. \A r \in requests' : r \in base \/ (r.number > findAsked /\ r.number <= findAsked' /\ r.reply = "none")
  OBVIOUS
<1>2. \A r \in base : r \in requests /\ r.number <= findAsked /\ r.number \in Nat
  BY DEF Requested, Numbered, Find!TypeOK, Find!Request
<1>3. \A r \in requests' : r.number \in Nat
  BY DEF Find!TypeOK, Find!Request
<1>4. findAsked \in Nat /\ findAsked' \in Nat
  BY DEF Requested, Find!TypeOK
<1>5. Numbered'
  <2>1. \A r \in requests' : r.number <= findAsked'
    BY <1>1, <1>2, <1>3, <1>4
  <2>2. ASSUME NEW q \in requests', NEW r \in requests', q.number = r.number PROVE q = r
    <3>1. CASE q \in base /\ r \in base
      BY <2>2, <3>1 DEF Requested, Numbered
    <3>2. CASE q \notin base /\ r \notin base
      BY <2>2, <3>2
    <3>3. CASE (q \in base) # (r \in base)
      BY <1>1, <1>2, <1>3, <1>4, <2>2, <3>3
    <3> QED
      BY <3>1, <3>2, <3>3
  <2> QED
    BY <2>1, <2>2 DEF Numbered
<1>6. \A r \in requests' : Whose(r)
  BY <1>2 DEF Requested
<1>7. InOrder'
  <2> SUFFICES ASSUME NEW r \in requests', r.kind \notin disturbed', r.reply # "none", NEW q \in requests',
                      q.kind = r.kind, q.number < r.number, r.kind = "counts" => q.ids \cap r.ids # {}
               PROVE  q.reply # "none"
    BY DEF InOrder, Find!Earlier
  <2>1. r \in base /\ q \in base
    BY <1>1, <1>2, <1>3, <1>4
  <2> QED
    BY <2>1 DEF Requested, InOrder, Find!Earlier
<1>8. FailuresKnown'
  BY <1>1, <1>2 DEF Requested, FailuresKnown, Find!Of
<1> QED
  BY <1>5, <1>6, <1>7, <1>8 DEF Requested

LEMMA Two ==
  ASSUME NEW a, NEW b
  PROVE  /\ Append(<<>>, b) = <<b>> /\ Append(<<a>>, b) = <<a, b>>
         /\ <<>> \o <<b>> = <<b>> /\ <<a>> \o <<b>> = <<a, b>>
<1> DEFINE S == {a, b}
<1>1. a \in S /\ b \in S /\ <<b>> \in Seq(S) /\ <<a>> \in Seq(S)
  OBVIOUS
<1> HIDE DEF S
<1>2. Append(<<>>, b) = <<b>>
  BY <1>1
<1>3. Append(<<a>>, b) = <<a, b>>
  <2> DEFINE p == Append(<<a>>, b)
             q == <<a, b>>
  <2>1. Len(<<a>>) = 1 /\ <<a>>[1] = a
    OBVIOUS
  <2>2. p \in Seq(S) /\ Len(p) = 2 /\ p[1] = a /\ p[2] = b
    BY <1>1, <2>1, AppendProperties
  <2>3. q \in Seq(S) /\ Len(q) = 2 /\ q[1] = a /\ q[2] = b
    BY <1>1
  <2> HIDE DEF p, q
  <2>4. p = q
    BY <2>2, <2>3, SeqEqual
  <2> QED
    BY <2>4 DEF p, q
<1>4. <<>> \o <<b>> = <<b>>
  BY <1>1, ConcatEmptySeq
<1>5. <<a>> \o <<b>> = <<a, b>>
  BY <1>1, <1>3, AppendIsConcat
<1> QED
  BY <1>2, <1>3, <1>4, <1>5

LEMMA TwoNews ==
  ASSUME NEW S, NEW a \in S, NEW b \in S, NEW news, news = <<b>> \/ news = <<a, b>>
  PROVE  /\ news \in Seq(S) /\ (\A i \in 1..Len(news) : news[i] = a \/ news[i] = b)
         /\ \E i \in 1..Len(news) : news[i] = b
         /\ news = <<a, b>> => \E i \in 1..Len(news) : news[i] = a
<1>1. CASE news = <<b>>
  <2>1. news \in Seq(S) /\ Len(news) = 1 /\ news[1] = b
    BY <1>1
  <2>2. news # <<a, b>>
    <3>1. Len(<<a, b>>) = 2
      OBVIOUS
    <3> QED
      BY <2>1, <3>1
  <2> QED
    BY <2>1, <2>2
<1>2. CASE news = <<a, b>>
  <2>1. news \in Seq(S) /\ Len(news) = 2 /\ news[1] = a /\ news[2] = b
    BY <1>2
  <2> QED
    BY <2>1
<1> QED
  BY <1>1, <1>2

LEMMA GrowsTyped ==
  ASSUME Requested, NEW base, NEW kinds, Grows(base, kinds)
  PROVE  requests' \subseteq Find!Request /\ findAsked' \in Nat
BY DEF Grows, Added, Requested, Find!TypeOK

LEMMA GoSent ==
  ASSUME Requested, NEW s \in {"home", "feed", "discover"}, Find!Go(s)
  PROVE  /\ Requested' /\ Grows(requests, {"list"})
         /\ s = "discover" => \E r \in requests' \ requests : r.kind = "list"
<1>1. Grows(requests, {"list"}) /\ (s = "discover" => \E r \in requests' \ requests : r.kind = "list")
  <2>1. CASE s = "discover"
    <3>1. Find!Asks(requests, <<Find!New("list", {})>>) /\ disturbed' = disturbed
      BY <2>1 DEF Find!Go, Find!loadSharedCharacters
    <3>2. Whose(Find!New("list", {}))
      BY DEF Whose, Find!New
    <3> QED
      BY <3>1, <3>2, AskingOne DEF Find!Kinds
  <2>2. CASE s # "discover"
    <3>1. Find!Asks(requests, <<>>) /\ disturbed' = disturbed
      BY <2>2 DEF Find!Go
    <3>2. requests' = requests /\ findAsked' = findAsked
      BY <3>1 DEF Find!Asks, Requested, Find!TypeOK
    <3> QED
      BY <2>2, <3>1, <3>2, AskingNone
  <2> QED
    BY <2>1, <2>2
<1>2. Find!TypeOK'
  BY <1>1, GrowsTyped DEF Find!Go, Requested, Find!TypeOK, Find!serverVars
<1> QED
  BY <1>1, <1>2, GrowsSent

LEMMA LoadAgainSent ==
  ASSUME Requested, Find!LoadAgain
  PROVE  Requested' /\ Grows(requests, {"list"}) /\ \E r \in requests' \ requests : r.kind = "list"
<1>1. Find!Asks(requests, <<Find!New("list", {})>>) /\ disturbed' = disturbed
  BY DEF Find!LoadAgain, Find!loadSharedCharacters
<1>2. Whose(Find!New("list", {}))
  BY DEF Whose, Find!New
<1>3. Grows(requests, {"list"}) /\ \E r \in requests' \ requests : r.kind = "list"
  BY <1>1, <1>2, AskingOne DEF Find!Kinds
<1>4. Find!TypeOK'
  BY <1>3, GrowsTyped DEF Find!LoadAgain, Requested, Find!TypeOK, Find!serverVars
<1> QED
  BY <1>3, <1>4, GrowsSent

LEMMA LookSent == ASSUME Requested, Find!Look PROVE Requested' /\ Grows(requests, {})
<1>1. Grows(requests, {})
  BY AskingNone DEF Find!Look
<1>2. Find!TypeOK'
  BY DEF Find!Look, Find!List, Requested, Find!TypeOK, Find!serverVars
<1> QED
  BY <1>1, <1>2, GrowsSent

LEMMA ToggleFollowSent ==
  ASSUME Requested, NEW t \in Targets, Find!toggleFollow(t)
  PROVE  Requested' /\ Grows(requests, {"sync", "follow", "unfollow"})
<1> DEFINE next == IF t \in following THEN following \ {t} ELSE following \cup {t}
           kind == IF t \in following THEN "unfollow" ELSE "follow"
           news == Append(Find!syncOwnFollowRows(next), Find!New(kind, {t}))
<1>1. Find!Asks(requests, news) /\ disturbed' = disturbed /\ following' = next
  BY DEF Find!toggleFollow
<1>2. next \subseteq Targets /\ next \in SUBSET Find!Ids /\ kind \in {"follow", "unfollow"} /\ {t} \in SUBSET Find!Ids
  BY DEF Requested, Find!TypeOK, Find!Ids
<1>3. /\ Find!New("sync", next) \in Find!Request /\ Find!New("sync", next).kind = "sync"
      /\ Find!New("sync", next).ids = next
      /\ Find!New("sync", next).reply = "none"
  BY <1>2, NewTyped DEF Find!Kinds, Requested
<1>4. /\ Find!New(kind, {t}) \in Find!Request /\ Find!New(kind, {t}).kind = kind
      /\ Find!New(kind, {t}).ids = {t}
      /\ Find!New(kind, {t}).reply = "none"
  BY <1>2, NewTyped DEF Find!Kinds, Requested
<1>5. Whose(Find!New("sync", next)) /\ Whose(Find!New(kind, {t}))
  BY <1>2, <1>3, <1>4 DEF Whose
<1> DEFINE one == Find!New("sync", next)
           two == Find!New(kind, {t})
<1>6. news = IF next = {} THEN Append(<<>>, two) ELSE Append(<<one>>, two)
  BY DEF Find!syncOwnFollowRows
<1> HIDE DEF next, kind, one, two, news
<1>7. news \in Seq(Find!Request) /\ \A i \in 1..Len(news) : news[i] = one \/ news[i] = two
  <2>1. one \in Find!Request /\ two \in Find!Request
    BY <1>3, <1>4 DEF one, two
  <2>2. news = <<two>> \/ news = <<one, two>>
    BY <1>6, Two
  <2> QED
    BY ONLY <2>1, <2>2, TwoNews
<1>8. \A i \in 1..Len(news) : /\ news[i].reply = "none" /\ news[i].kind \in {"sync", "follow", "unfollow"}
                              /\ Whose(news[i])
  BY <1>2, <1>3, <1>4, <1>5, <1>7 DEF one, two
<1>9. Grows(requests, {"sync", "follow", "unfollow"})
  BY <1>1, <1>7, <1>8, Asking
<1>10. Find!TypeOK'
  BY <1>1, <1>2, <1>9, GrowsTyped DEF Find!toggleFollow, Requested, Find!TypeOK, Find!serverVars
<1> QED
  BY <1>9, <1>10, GrowsSent

LEMMA SwitchSent ==
  ASSUME Requested, NEW c \in Own, Find!switchAccount(c)
  PROVE  Requested' /\ Grows({r \in requests : r.kind # "share"}, {"share"})
<1> DEFINE base == {r \in requests : r.kind # "share"}
<1>1. Find!Asks(base, <<Find!New("share", {c})>>) /\ disturbed' = disturbed
  BY DEF Find!switchAccount, Find!loadActiveShare
<1>2. Whose(Find!New("share", {c})) /\ {c} \in SUBSET Find!Ids /\ base \in SUBSET requests /\ "share" \in Find!Kinds
  BY DEF Whose, Find!New, Find!Ids, Find!Kinds
<1>3. Grows(base, {"share"})
  BY <1>1, <1>2, AskingOne
<1>4. Find!TypeOK'
  BY <1>3, GrowsTyped DEF Find!switchAccount, Requested, Find!TypeOK, Find!serverVars
<1> QED
  BY <1>3, <1>4, GrowsSent

LEMMA PanelSent ==
  ASSUME Requested, Find!toggleFollowPanel
  PROVE  /\ Requested' /\ Grows(requests, {"followers"})
         /\ ~ followPanel /\ activeSharedId # None =>
              \E r \in requests' \ requests : /\ r.kind = "followers" /\ r.ids = {activeSharedId}
                                              /\ \A q \in requests' \ requests : q.kind = "followers" /\ q.ids = {activeSharedId}
         /\ followPanel \/ activeSharedId = None => requests' = requests
<1>1. CASE followPanel \/ activeSharedId = None
  <2>1. requests' = requests /\ findAsked' = findAsked /\ disturbed' = disturbed
    BY <1>1 DEF Find!toggleFollowPanel
  <2>2. Grows(requests, {"followers"})
    BY <2>1, AskingNone
  <2>3. Find!TypeOK'
    BY <1>1, <2>1, <2>2, GrowsTyped DEF Find!toggleFollowPanel, Requested, Find!TypeOK, Find!serverVars
  <2> QED
    BY <1>1, <2>1, <2>2, <2>3, GrowsSent
<1>2. CASE ~ (followPanel \/ activeSharedId = None)
  <2>1. Find!Asks(requests, <<Find!New("followers", {activeSharedId})>>) /\ disturbed' = disturbed
    BY <1>2 DEF Find!toggleFollowPanel, Find!loadSharedFollowers
  <2>2. activeSharedId \in Own /\ {activeSharedId} \in SUBSET Find!Ids /\ "followers" \in Find!Kinds
    BY <1>2 DEF Requested, Find!TypeOK, Find!Ids, Find!Kinds
  <2>3. Whose(Find!New("followers", {activeSharedId}))
    BY <2>2 DEF Whose, Find!New
  <2>4. /\ Grows(requests, {"followers"})
        /\ \E r \in requests' \ requests : r.kind = "followers" /\ r.ids = {activeSharedId}
    <3> DEFINE ids == {activeSharedId}
    <3>1. Find!Asks(requests, <<Find!New("followers", ids)>>) /\ ids \in SUBSET Find!Ids /\ Whose(Find!New("followers", ids))
      BY <2>1, <2>2, <2>3
    <3> HIDE DEF ids
    <3>2. Grows(requests, {"followers"}) /\ \E r \in requests' \ requests : r.kind = "followers" /\ r.ids = ids
      BY <2>1, <2>2, <3>1, AskingOne
    <3> QED
      BY <3>2 DEF ids
  <2>5. \A q, r \in requests' \ requests : q = r
    <3>1. \A r \in requests' \ requests : r = [Find!New("followers", {activeSharedId}) EXCEPT !.number = findAsked + 1]
      <4>1. DOMAIN <<Find!New("followers", {activeSharedId})>> = {1}
        OBVIOUS
      <4>2. <<Find!New("followers", {activeSharedId})>>[1] = Find!New("followers", {activeSharedId})
        OBVIOUS
      <4> QED
        BY <2>1, <4>1, <4>2 DEF Find!Asks
    <3> QED
      BY <3>1
  <2>6. [loading |-> TRUE, failed |-> FALSE, rows |-> {}] \in Find!Followers
    BY DEF Find!Followers
  <2>7. Find!TypeOK'
    BY <1>2, <2>4, <2>6, GrowsTyped DEF Find!toggleFollowPanel, Requested, Find!TypeOK, Find!serverVars
  <2> QED
    BY <1>2, <2>4, <2>5, <2>7, GrowsSent
<1> QED
  BY <1>1, <1>2

LEMMA SyncSent ==
  ASSUME Requested, NEW r \in requests, Find!ServeSync(r)
  PROVE  Requested' /\ Grows(requests \ {r}, {})
<1>1. Grows(requests \ {r}, {})
  BY AskingNone DEF Find!ServeSync
<1>2. r.ids \subseteq Targets
  BY DEF Find!ServeSync, Requested, Whose
<1>3. mine' \subseteq Targets /\ unheard' \in [list : BOOLEAN, counts : SUBSET Targets]
  BY <1>2 DEF Find!ServeSync, Requested, Find!TypeOK
<1>4. Find!TypeOK'
  BY <1>1, <1>3, GrowsTyped DEF Find!ServeSync, Requested, Find!TypeOK
<1> QED
  BY <1>1, <1>4, GrowsSent

LEMMA OthersSent ==
  ASSUME Requested, NEW t \in Targets, Find!OthersChange(t)
  PROVE  Requested' /\ Grows(requests, {})
<1>1. Grows(requests, {})
  BY AskingNone DEF Find!OthersChange
<1>2. public' \subseteq Targets /\ others' \subseteq Targets /\ unheard' \in [list : BOOLEAN, counts : SUBSET Targets]
  <2>1. CASE public' = (public \cup {t}) \ (public \cap {t}) /\ UNCHANGED others
             /\ unheard' = [list |-> TRUE, counts |-> unheard.counts \cup {t}]
    BY <2>1 DEF Requested, Find!TypeOK
  <2>2. CASE others' = others \cup {t} /\ UNCHANGED public /\ unheard' = [unheard EXCEPT !.counts = @ \cup {t}]
    BY <2>2 DEF Requested, Find!TypeOK
  <2> QED
    BY <2>1, <2>2 DEF Find!OthersChange
<1>3. Find!TypeOK'
  BY <1>1, <1>2, GrowsTyped DEF Find!OthersChange, Requested, Find!TypeOK
<1> QED
  BY <1>1, <1>3, GrowsSent

(* A step that serves a request, or loses it. *)
Replied(r, q) ==
  /\ r \in requests /\ r.reply = "none" /\ requests' = (requests \ {r}) \cup {q} /\ findAsked' = findAsked
  /\ q.kind = r.kind /\ q.ids = r.ids /\ q.number = r.number /\ q.reply \in {"ok", "failed"}
  /\ disturbed \subseteq disturbed'
  /\ r.kind \in {"list", "counts", "followers"} /\ q.reply = "failed" => r.kind \in disturbed'
  /\ r.kind \notin disturbed' => \A e \in Find!Earlier(r) : e.reply # "none"

LEMMA RepliedSent == ASSUME Requested, Find!TypeOK', NEW r, NEW q, Replied(r, q) PROVE Requested'
<1> USE DEF Replied
<1>1. Numbered'
  BY DEF Requested, Numbered
<1>2. \A x \in requests' : Whose(x)
  BY DEF Requested, Whose
<1>3. InOrder'
  <2> SUFFICES ASSUME NEW x \in requests', x.kind \notin disturbed', x.reply # "none", NEW y \in requests',
                      y.kind = x.kind, y.number < x.number, x.kind = "counts" => y.ids \cap x.ids # {}
               PROVE  y.reply # "none"
    BY DEF InOrder, Find!Earlier
  <2>1. CASE y = q
    BY <2>1
  <2>2. CASE y # q /\ x = q
    BY <2>2 DEF Find!Earlier
  <2>3. CASE y # q /\ x # q
    BY <2>3 DEF Requested, InOrder, Find!Earlier
  <2> QED
    BY <2>1, <2>2, <2>3
<1>4. FailuresKnown'
  BY DEF Requested, FailuresKnown, Find!Of
<1> QED
  BY <1>1, <1>2, <1>3, <1>4 DEF Requested

LEMMA CountTyped == ASSUME NEW i \in Find!Ids PROVE Find!CountOf(i) \in Nat
<1>1. CASE i \in Own
  <2>1. FollowersOf[i] \subseteq Targets
    BY <1>1, DiscoveryAssumption
  <2>2. IsFiniteSet(FollowersOf[i])
    BY <2>1, FS_Subset, DiscoveryAssumption
  <2> QED
    BY <1>1, <2>2, FS_CardinalityType DEF Find!CountOf, Find!Cardinality, Cardinality
<1>2. CASE i \notin Own
  <2> DEFINE a == {x \in {"mine"} : i \in mine}
             b == {x \in {"others"} : i \in others}
  <2>1. IsFiniteSet({"mine"}) /\ IsFiniteSet({"others"})
    BY FS_Singleton
  <2>2. IsFiniteSet(a) /\ IsFiniteSet(b)
    BY <2>1, FS_Subset
  <2>3. Cardinality(a) \in Nat /\ Cardinality(b) \in Nat
    BY <2>2, FS_CardinalityType
  <2> HIDE DEF a, b
  <2>4. Cardinality(a) + Cardinality(b) \in Nat
    BY <2>3
  <2> QED
    BY <1>2, <2>4 DEF Find!CountOf, a, b, Find!Cardinality, Cardinality
<1> QED
  BY <1>1, <1>2

LEMMA ToldTyped ==
  ASSUME Requested, NEW r \in requests
  PROVE  /\ Find!Told(r) \in Find!Request /\ Find!Told(r).kind = r.kind /\ Find!Told(r).ids = r.ids
         /\ Find!Told(r).number = r.number
         /\ Find!Told(r).reply = "ok"
         /\ r.kind = "list" => Find!Told(r).found = public
         /\ r.kind = "counts" => \A i \in r.ids : Find!Told(r).counts[i] = Find!CountOf(i)
         /\ r.kind = "followers" => Find!Told(r).found = UNION {FollowersOf[i] : i \in r.ids}
<1> DEFINE found == CASE r.kind = "list" -> public
                      [] r.kind = "link" -> r.ids \cap public
                      [] r.kind = "followers" -> UNION {FollowersOf[i] : i \in r.ids}
                      [] OTHER -> {}
           counts == IF r.kind = "counts" THEN [i \in Find!Ids |-> IF i \in r.ids THEN Find!CountOf(i) ELSE 0] ELSE r.counts
<1>1. r \in Find!Request /\ r.ids \subseteq Find!Ids
  BY DEF Requested, Find!TypeOK, Find!Request
<1>2. found \in SUBSET Targets
  <2>1. CASE r.kind = "followers"
    <3>1. r.ids \subseteq Own
      BY <2>1 DEF Requested, Whose
    <3>2. \A i \in r.ids : FollowersOf[i] \subseteq Targets
      BY <3>1, DiscoveryAssumption
    <3> QED
      BY <2>1, <3>2
  <2>2. CASE r.kind # "followers"
    BY <2>2 DEF Requested, Find!TypeOK
  <2> QED
    BY <2>1, <2>2
<1>3. counts \in Find!Counts
  BY <1>1, CountTyped DEF Find!Counts, Find!Request
<1>4. Find!Told(r) = [r EXCEPT !.reply = "ok", !.found = found, !.counts = counts]
  <2>1. r = [kind |-> r.kind, ids |-> r.ids, before |-> r.before, number |-> r.number, reply |-> r.reply,
             found |-> r.found, counts |-> r.counts]
    BY <1>1 DEF Find!Request
  <2> QED
    BY <2>1 DEF Find!Told
<1>5. r.kind = "list" => found = public
  OBVIOUS
<1>6. r.kind = "counts" => \A i \in r.ids : counts[i] = Find!CountOf(i)
  BY <1>1
<1>7. r.kind = "followers" => found = UNION {FollowersOf[i] : i \in r.ids}
  OBVIOUS
<1> HIDE DEF found, counts
<1>8. PICK x : x = [r EXCEPT !.reply = "ok", !.found = found, !.counts = counts]
  OBVIOUS
<1>9. /\ x \in Find!Request /\ x.kind = r.kind /\ x.ids = r.ids /\ x.number = r.number /\ x.reply = "ok"
      /\ x.found = found /\ x.counts = counts
  BY <1>1, <1>2, <1>3, <1>8 DEF Find!Request
<1> QED
  BY <1>4, <1>5, <1>6, <1>7, <1>8, <1>9

LEMMA ServeSent ==
  ASSUME Requested, NEW r \in requests, NEW reply \in {"ok", "failed"}, Find!Serve(r,
         reply)
  PROVE  /\ Requested'
         /\ \E q : Replied(r, q) /\ (q.reply = "ok" => q = Find!Told(r))
<1> DEFINE refused == r.kind = "follow" /\ ~ r.ids \subseteq public
           lost == reply = "failed" \/ refused
<1>1. PICK q : q = IF lost THEN [r EXCEPT !.reply = "failed"] ELSE Find!Told(r)
  OBVIOUS
<1>2. r \in Find!Request
  BY DEF Requested, Find!TypeOK
<1>3. /\ q \in Find!Request /\ q.kind = r.kind /\ q.ids = r.ids /\ q.number = r.number
      /\ q.reply = IF lost THEN "failed" ELSE "ok"
  <2>1. CASE lost
    BY <1>1, <1>2, <2>1 DEF Find!Request
  <2>2. CASE ~ lost
    BY <1>1, <2>2, ToldTyped
  <2> QED
    BY <2>1, <2>2
<1>4. Replied(r, q)
  BY <1>1, <1>3 DEF Find!Serve, Replied
<1>5. q.reply = "ok" => q = Find!Told(r)
  BY <1>1, <1>3
<1>6. mine' \subseteq Targets
  BY DEF Find!Serve, Requested, Find!TypeOK, Whose
<1>7. unheard' \in [list : BOOLEAN, counts : SUBSET Targets]
  BY DEF Find!Serve, Find!Heard, Requested, Find!TypeOK
<1>8. disturbed' \subseteq Find!Kinds
  BY <1>2 DEF Find!Serve, Requested, Find!TypeOK, Find!Request
<1>9. requests' \subseteq Find!Request
  BY <1>3, <1>4 DEF Replied, Requested, Find!TypeOK
<1>10. Find!TypeOK'
  BY <1>6, <1>7, <1>8, <1>9 DEF Find!Serve, Requested, Find!TypeOK
<1> QED
  BY <1>4, <1>5, <1>10, RepliedSent

LEMMA NotReachedSent ==
  ASSUME Requested, NEW r \in requests, Find!NotReached(r)
  PROVE  Requested' /\ \E q : Replied(r, q) /\ q.reply = "failed" /\ r.kind \in disturbed'
<1>1. PICK q : q = [r EXCEPT !.reply = "failed"]
  OBVIOUS
<1>2. r \in Find!Request
  BY DEF Requested, Find!TypeOK
<1>3. q \in Find!Request /\ q.kind = r.kind /\ q.ids = r.ids /\ q.number = r.number /\ q.reply = "failed"
  BY <1>1, <1>2 DEF Find!Request
<1>4. Replied(r, q) /\ r.kind \in disturbed'
  BY <1>1, <1>3 DEF Find!NotReached, Replied
<1>5. disturbed' \subseteq Find!Kinds
  BY <1>2 DEF Find!NotReached, Requested, Find!TypeOK, Find!Request
<1>6. Find!TypeOK'
  BY <1>3, <1>4, <1>5 DEF Find!NotReached, Requested, Find!TypeOK, Find!serverVars, Replied
<1> QED
  BY <1>3, <1>4, <1>6, RepliedSent

(* The answers: each takes its request away and asks for what it brought. *)
LEMMA CountsAsked ==
  ASSUME Requested, NEW base \in SUBSET requests, NEW ids \in SUBSET Find!Ids, Find!Asks(base,
         Find!loadFollowerCountsFor(ids)),
         disturbed \subseteq disturbed'
  PROVE  /\ Grows(base, {"counts"})
         /\ ids # {} => \E r \in requests' \ base : r.kind = "counts" /\ r.ids = ids
<1>1. CASE ids = {}
  <2>1. requests' = base /\ findAsked' = findAsked
    BY <1>1 DEF Find!loadFollowerCountsFor, Find!Asks, Requested, Find!TypeOK
  <2> QED
    BY <1>1, <2>1, AskingNone
<1>2. CASE ids # {}
  <2>1. Find!Asks(base, <<Find!New("counts", ids)>>) /\ "counts" \in Find!Kinds /\ Whose(Find!New("counts", ids))
    BY <1>2 DEF Find!loadFollowerCountsFor, Find!Kinds, Whose, Find!New
  <2>2. Grows(base, {"counts"}) /\ \E r \in requests' \ base : r.kind = "counts" /\ r.ids = ids
    BY <2>1, AskingOne
  <2> QED
    BY <2>2
<1> QED
  BY <1>1, <1>2

LEMMA Nothing == ASSUME Requested, NEW base, Find!Asks(base, <<>>) PROVE requests' = base /\ findAsked' = findAsked
BY DEF Find!Asks, Requested, Find!TypeOK

LEMMA AnswerCountsSent ==
  ASSUME Requested, NEW r \in requests, Find!AnswerCounts(r)
  PROVE  Requested' /\ Grows(requests \ {r}, {})
<1>1. requests' = requests \ {r} /\ findAsked' = findAsked
  BY Nothing DEF Find!AnswerCounts
<1>2. Grows(requests \ {r}, {})
  BY <1>1, AskingNone DEF Find!AnswerCounts, Find!Answers
<1>3. followerCounts' \in [Find!Ids -> Nat]
  BY DEF Find!AnswerCounts, Requested, Find!TypeOK, Find!Request, Find!Counts
<1>4. disturbed' \subseteq Find!Kinds
  BY DEF Find!AnswerCounts, Find!Answers, Requested, Find!TypeOK, Find!Request
<1>5. Find!TypeOK'
  BY <1>1, <1>3, <1>4 DEF Find!AnswerCounts, Find!Answers, Requested, Find!TypeOK, Find!serverVars
<1> QED
  BY <1>2, <1>5, GrowsSent

LEMMA AnswerListSent ==
  ASSUME Requested, NEW r \in requests, Find!AnswerList(r)
  PROVE  /\ Requested' /\ Grows(requests \ {r}, {"counts"})
         /\ r.found # {} => \E q \in requests' \ (requests \ {r}) : q.kind = "counts" /\ q.ids = r.found
<1>1. r.found \in SUBSET Targets /\ r.found \in SUBSET Find!Ids
  BY DEF Requested, Find!TypeOK, Find!Request, Find!Ids
<1>2. /\ Grows(requests \ {r}, {"counts"})
      /\ r.found # {} => \E q \in requests' \ (requests \ {r}) : q.kind = "counts" /\ q.ids = r.found
  BY <1>1, CountsAsked DEF Find!AnswerList, Find!Answers
<1>3. disturbed' \subseteq Find!Kinds
  BY DEF Find!AnswerList, Find!Answers, Requested, Find!TypeOK, Find!Request
<1>4. Find!TypeOK'
  BY <1>1, <1>2, <1>3, GrowsTyped DEF Find!AnswerList, Find!Answers, Requested, Find!TypeOK, Find!serverVars
<1> QED
  BY <1>2, <1>4, GrowsSent

LEMMA AnswerShareSent ==
  ASSUME Requested, NEW r \in requests, Find!AnswerShare(r)
  PROVE  Requested' /\ Grows(requests \ {r}, {"counts"})
<1>1. r.ids \subseteq Own
  BY DEF Find!AnswerShare, Requested, Whose
<1>2. activeSharedId' \in Own \cup {None} /\ {activeSharedId'} \ {None} \in SUBSET Find!Ids
  BY <1>1 DEF Find!AnswerShare, Find!Ids
<1>3. Grows(requests \ {r}, {"counts"})
  BY <1>2, CountsAsked DEF Find!AnswerShare
<1>4. disturbed' \subseteq Find!Kinds
  BY DEF Find!AnswerShare, Requested, Find!TypeOK, Find!Kinds
<1>5. Find!TypeOK'
  BY <1>2, <1>3, <1>4, GrowsTyped DEF Find!AnswerShare, Requested, Find!TypeOK, Find!serverVars
<1> QED
  BY <1>3, <1>5, GrowsSent

LEMMA AnswerFollowersSent ==
  ASSUME Requested, NEW r \in requests, Find!AnswerFollowers(r)
  PROVE  Requested' /\ Grows(requests \ {r}, {"counts"})
<1>1. r.found \in SUBSET Targets /\ r.found \in SUBSET Find!Ids
  BY DEF Requested, Find!TypeOK, Find!Request, Find!Ids
<1>2. Grows(requests \ {r}, {"counts"})
  BY <1>1, CountsAsked DEF Find!AnswerFollowers, Find!Answers
<1>3. disturbed' \subseteq Find!Kinds
  BY DEF Find!AnswerFollowers, Find!Answers, Requested, Find!TypeOK, Find!Request
<1>4. sharedFollowers' \in Find!Followers
  BY <1>1 DEF Find!AnswerFollowers, Find!Followers, Find!Loaded, Find!Ok
<1>5. Find!TypeOK'
  BY <1>1, <1>2, <1>3, <1>4, GrowsTyped DEF Find!AnswerFollowers, Find!Answers, Requested, Find!TypeOK,
     Find!serverVars
<1> QED
  BY <1>2, <1>5, GrowsSent

LEMMA AnswerLinkSent ==
  ASSUME Requested, NEW r \in requests, Find!AnswerLink(r)
  PROVE  /\ Requested' /\ Grows(requests \ {r}, {"counts", "list"})
         /\ \E q \in requests' \ (requests \ {r}) : q.kind = "list"
         /\ r.found # {} => \E q \in requests' \ (requests \ {r}) : q.kind = "counts" /\ q.ids = r.found
<1> DEFINE one == Find!New("counts", r.found)
           two == Find!New("list", {})
           news == Find!loadFollowerCountsFor(r.found) \o Find!Behind(r)
           base == requests \ {r}
<1>1. r.found \in SUBSET Targets /\ r.found \in SUBSET Find!Ids /\ {} \in SUBSET Find!Ids
  BY DEF Requested, Find!TypeOK, Find!Request, Find!Ids
<1>2. one \in Find!Request /\ one.kind = "counts" /\ one.ids = r.found /\ one.reply = "none"
  BY <1>1, NewTyped DEF Find!Kinds, Requested
<1>3. two \in Find!Request /\ two.kind = "list" /\ two.ids = {} /\ two.reply = "none"
  BY <1>1, NewTyped DEF Find!Kinds, Requested
<1>4. Whose(one) /\ Whose(two)
  BY <1>2, <1>3 DEF Whose
<1>5. news = (IF r.found = {} THEN <<>> ELSE <<one>>) \o <<two>> /\ Find!Asks(base, news) /\ disturbed \subseteq disturbed'
  BY DEF Find!loadFollowerCountsFor, Find!Behind, Find!loadSharedCharacters, Find!AnswerLink, Find!Answers
<1> HIDE DEF one, two, news, base
<1>6. /\ news = <<>> \o <<two>> \/ news = <<one>> \o <<two>>
      /\ r.found # {} => news = <<one>> \o <<two>>
  BY <1>5
<1>7. /\ news \in Seq(Find!Request) /\ (\A i \in 1..Len(news) : news[i] = one \/ news[i] = two)
      /\ \E i \in 1..Len(news) : news[i] = two
      /\ r.found # {} => \E i \in 1..Len(news) : news[i] = one
  <2>1. one \in Find!Request /\ two \in Find!Request
    BY <1>2, <1>3
  <2>2. (news = <<two>> \/ news = <<one, two>>) /\ (r.found # {} => news = <<one, two>>)
    BY <1>6, Two
  <2>3. news = <<two>> \/ news = <<one, two>>
    BY <2>2
  <2>4. news \in Seq(Find!Request) /\ \A i \in 1..Len(news) : news[i] = one \/ news[i] = two
    BY ONLY <2>1, <2>3, TwoNews
  <2>5. (\E i \in 1..Len(news) : news[i] = two) /\ (news = <<one, two>> => \E i \in 1..Len(news) : news[i] = one)
    BY ONLY <2>1, <2>3, TwoNews
  <2> QED
    BY <2>2, <2>4, <2>5
<1>8. \A i \in 1..Len(news) : news[i].reply = "none" /\ news[i].kind \in {"counts", "list"} /\ Whose(news[i])
  BY <1>2, <1>3, <1>4, <1>7
<1>9. /\ Grows(base, {"counts", "list"})
      /\ \A i \in 1..Len(news) : \E q \in requests' \ base : q.kind = news[i].kind /\ q.ids = news[i].ids
  <2>1. base \in SUBSET requests
    BY DEF base
  <2> QED
    <3>1. Find!Asks(base, news) /\ disturbed \subseteq disturbed' /\ news \in Seq(Find!Request)
      BY <1>5, <1>7
    <3> QED
      BY <2>1, <3>1, <1>8, Asking
<1>10. /\ \E q \in requests' \ base : q.kind = "list"
       /\ r.found # {} => \E q \in requests' \ base : q.kind = "counts" /\ q.ids = r.found
  BY <1>2, <1>3, <1>7, <1>9
<1>11. disturbed' \subseteq Find!Kinds
  BY DEF Find!AnswerLink, Find!Answers, Requested, Find!TypeOK, Find!Request
<1>12. Find!TypeOK'
  BY <1>1, <1>9, <1>11, GrowsTyped DEF Find!AnswerLink, Find!Answers, Requested, Find!TypeOK, Find!serverVars
<1> QED
  BY <1>9, <1>10, <1>12, GrowsSent DEF base

LEMMA FollowChangeSent ==
  ASSUME Requested, NEW r \in requests, Find!recordFollowChange(r)
  PROVE  /\ Requested' /\ Grows(requests \ {r}, {"sync", "counts"})
         /\ \E q \in requests' \ (requests \ {r}) : q.kind = "counts" /\ q.ids = r.ids
<1>1. PICK t \in Targets : r.ids = {t}
  BY DEF Find!recordFollowChange, Requested, Whose
<1> DEFINE one == Find!New("sync", r.before)
           two == Find!New("counts", {t})
           news == (IF Find!Ok(r) THEN <<>> ELSE Find!syncOwnFollowRows(r.before)) \o Find!Recount(t)
           base == requests \ {r}
<1>2. {t} \in SUBSET Find!Ids /\ {t} # {} /\ r.before \subseteq Targets /\ r.before \in SUBSET Find!Ids
  BY DEF Requested, Find!TypeOK, Find!Request, Find!Ids
<1>3. one \in Find!Request /\ one.kind = "sync" /\ one.ids = r.before /\ one.reply = "none"
  BY <1>2, NewTyped DEF Find!Kinds, Requested
<1>4. two \in Find!Request /\ two.kind = "counts" /\ two.ids = {t} /\ two.reply = "none"
  BY <1>2, NewTyped DEF Find!Kinds, Requested
<1>5. Whose(one) /\ Whose(two)
  BY <1>2, <1>3, <1>4 DEF Whose
<1>6. /\ news = <<>> \o <<two>> \/ news = <<one>> \o <<two>>
      /\ Find!Asks(base, news) /\ disturbed \subseteq disturbed'
  BY <1>1, <1>2 DEF Find!loadFollowerCountsFor, Find!Recount, Find!syncOwnFollowRows,
     Find!recordFollowChange, Find!Answers
<1> HIDE DEF one, two, news, base
<1>8. /\ news \in Seq(Find!Request) /\ (\A i \in 1..Len(news) : news[i] = one \/ news[i] = two)
      /\ \E i \in 1..Len(news) : news[i] = two
  <2>1. one \in Find!Request /\ two \in Find!Request
    BY <1>3, <1>4
  <2>2. news = <<two>> \/ news = <<one, two>>
    BY <1>6, Two
  <2>3. news \in Seq(Find!Request) /\ \A i \in 1..Len(news) : news[i] = one \/ news[i] = two
    BY ONLY <2>1, <2>2, TwoNews
  <2>4. \E i \in 1..Len(news) : news[i] = two
    BY ONLY <2>1, <2>2, TwoNews
  <2> QED
    BY <2>3, <2>4
<1>9. \A i \in 1..Len(news) : news[i].reply = "none" /\ news[i].kind \in {"sync", "counts"} /\ Whose(news[i])
  BY <1>3, <1>4, <1>5, <1>8
<1>10. /\ Grows(base, {"sync", "counts"})
       /\ \A i \in 1..Len(news) : \E q \in requests' \ base : q.kind = news[i].kind /\ q.ids = news[i].ids
  <2>1. base \in SUBSET requests
    BY DEF base
  <2> QED
    BY <2>1, <1>6, <1>8, <1>9, Asking
<1>11. \E q \in requests' \ base : q.kind = "counts" /\ q.ids = r.ids
  BY <1>1, <1>4, <1>8, <1>10
<1>12. disturbed' \subseteq Find!Kinds /\ following' \subseteq Targets
  BY <1>2 DEF Find!recordFollowChange, Find!Answers, Requested, Find!TypeOK, Find!Request
<1>13. followerCounts' \in [Find!Ids -> Nat]
  BY DEF Find!recordFollowChange, Find!updateFollowerCount, Requested, Find!TypeOK
<1>14. Find!TypeOK'
  BY <1>10, <1>12, <1>13, GrowsTyped DEF Find!recordFollowChange, Find!Answers, Requested, Find!TypeOK,
     Find!serverVars
<1> QED
  BY <1>10, <1>11, <1>14, GrowsSent DEF base

LEMMA SentStarts == ASSUME Find!Init PROVE Requested
<1> DEFINE share == [Find!New("share", {findId}) EXCEPT !.number = 1]
           link == [Find!New("link", {sharedFocusId}) EXCEPT !.number = 2]
           list == [Find!New("list", {}) EXCEPT !.number = 3]
<1>1. /\ share \in Find!Request /\ share.kind = "share" /\ share.ids = {findId} /\ share.number = 1
      /\ share.reply = "none"
      /\ list \in Find!Request /\ list.kind = "list" /\ list.number = 3 /\ list.reply = "none"
      /\ sharedFocusId # None => /\ link \in Find!Request /\ link.kind = "link" /\ link.number = 2 /\ link.reply = "none"
  BY DEF Find!Init, Find!New, Find!Request, Find!Kinds, Find!Ids, Find!NoCounts, Find!Counts
<1>2. \/ requests = {share} /\ findAsked = 1
      \/ requests = {share, link, list} /\ findAsked = 3 /\ sharedFocusId # None
  <2>1. CASE sharedFocusId = None
    BY <2>1 DEF Find!Init
  <2>2. CASE sharedFocusId # None
    BY <2>2 DEF Find!Init
  <2> QED
    BY <2>1, <2>2
<1> HIDE DEF share, link, list
<1>3. \A r \in requests : r \in Find!Request /\ r.reply = "none" /\ r.number <= findAsked /\ Whose(r)
  <2>1. Whose(share) /\ Whose(list) /\ (sharedFocusId # None => Whose(link))
    BY <1>1 DEF Find!Init, Whose
  <2> QED
    BY <1>1, <1>2, <2>1
<1>4. \A q, r \in requests : q.number = r.number => q = r
  BY <1>1, <1>2
<1>5. Find!TypeOK
  <2>1. step \in {"home", "feed", "discover"} /\ listLoading \in BOOLEAN /\ findAsked \in Nat
    <3>1. (step \in {"home", "feed"} /\ listLoading = FALSE) \/ (step = "discover" /\ listLoading = TRUE)
      BY Zenon DEF Find!Init
    <3>2. findAsked \in Nat
      BY <1>2
    <3>3. step \in {"home", "feed", "discover"} /\ listLoading \in BOOLEAN
      BY ONLY <3>1
    <3> QED
      BY <3>2, <3>3
  <2>2. followerCounts \in [Find!Ids -> Nat] /\ sharedFollowers \in Find!Followers
    BY DEF Find!Init, Find!NoFollowers, Find!Followers, Find!NoCounts
  <2>3. unheard \in [list : BOOLEAN, counts : SUBSET Targets] /\ sharedFocusId \in Targets \cup {None}
    BY DEF Find!Init
  <2> QED
    BY <1>3, <2>1, <2>2, <2>3 DEF Find!Init, Find!TypeOK
<1> QED
  BY <1>3, <1>4, <1>5 DEF Requested, Numbered, InOrder, FailuresKnown, Find!Of, Find!Earlier

(* What a step that asks keeps of what the screens show. *)
Latest(r, of) == \A q \in of : q.number <= r.number
ListsTrue ==
  ~ unheard.list /\ "list" \notin disturbed =>
    /\ \A r \in Find!Of({"list"}) : r.reply # "none" /\ Latest(r, Find!Of({"list"})) => r.found = public
    /\ Find!Of({"list", "link"}) = {} => sharedCharacters = public
CountsOf(t) == {r \in Find!Of({"counts"}) : t \in r.ids}
Known(t) ==
  /\ t \notin unheard.counts
  /\ \A r \in Find!Of({"follow", "unfollow"}) : t \in r.ids => r.reply = "none"
CountTrue(t) ==
  /\ \A r \in CountsOf(t) : r.reply # "none" /\ Latest(r, CountsOf(t)) => r.counts[t] = Find!CountOf(t)
  /\ t \in sharedCharacters /\ CountsOf(t) = {} => followerCounts[t] = Find!CountOf(t)
CountsTrue == "counts" \notin disturbed => \A t \in Targets : Known(t) => CountTrue(t)
ModalTrue ==
  /\ \A r \in Find!Of({"followers"}) : r.reply = "ok" => r.found = UNION {FollowersOf[i] : i \in r.ids}
  /\ followPanel /\ activeSharedId # None /\ "followers" \notin disturbed =>
       /\ \A r \in Find!Of({"followers"}) : Latest(r, Find!Of({"followers"})) => r.ids = {activeSharedId}
       /\ Find!Of({"followers"}) = {} /\ ~ sharedFollowers.failed => sharedFollowers.rows = FollowersOf[activeSharedId]
Loads ==
  /\ listLoading => Find!Of({"list", "link"}) # {}
  /\ sharedFollowers.loading => Find!Of({"followers"}) # {}
Shown == Requested /\ Loads /\ ListsTrue /\ CountsTrue /\ ModalTrue

LEMMA KeepsLists ==
  ASSUME Requested, ListsTrue, NEW base, NEW kinds, Grows(base, kinds), Find!Of({"list",
         "link"}) \subseteq base,
         UNCHANGED <<public, sharedCharacters>>, unheard.list => unheard'.list
  PROVE  ListsTrue'
<1> SUFFICES ASSUME ~ unheard'.list, "list" \notin disturbed'
             PROVE  /\ \A r \in Find!Of({"list"})' : r.reply # "none" /\ Latest(r, Find!Of({"list"})') => r.found = public
                    /\ Find!Of({"list", "link"})' = {} => sharedCharacters = public
  BY DEF ListsTrue, Latest
<1>1. Find!Of({"list"}) \subseteq Find!Of({"list"})' /\ Find!Of({"list", "link"}) \subseteq Find!Of({"list", "link"})'
  BY DEF Find!Of, Grows
<1>2. ~ unheard.list /\ "list" \notin disturbed
  BY DEF Grows
<1>3. \A r \in Find!Of({"list"})' : r.reply # "none" => r \in Find!Of({"list"})
  BY DEF Find!Of, Grows, Added
<1> QED
  BY <1>1, <1>2, <1>3 DEF ListsTrue, Latest

LEMMA KeepsCount ==
  ASSUME Requested, CountsTrue, NEW base, NEW kinds, Grows(base, kinds), NEW t \in Targets, Known(t)',
         "counts" \notin disturbed', \A r \in Find!Of({"counts", "follow", "unfollow"}) : t \in r.ids => r \in base,
         followerCounts'[t] = followerCounts[t],
         t \in sharedCharacters' /\ CountsOf(t)' = {} => t \in sharedCharacters,
         t \notin unheard.counts /\ Find!CountOf(t)' = Find!CountOf(t)
  PROVE  CountTrue(t)'
<1>1. CountsOf(t) \subseteq CountsOf(t)'
  BY DEF CountsOf, Find!Of, Grows
<1>2. Known(t) /\ "counts" \notin disturbed
  BY DEF Known, Find!Of, Grows
<1>3. \A r \in CountsOf(t)' : r.reply # "none" => r \in CountsOf(t)
  BY DEF CountsOf, Find!Of, Grows, Added
<1>4. CountTrue(t)
  BY <1>2 DEF CountsTrue
<1> QED
  BY <1>1, <1>3, <1>4 DEF CountTrue, Latest

LEMMA KeepsCounts ==
  ASSUME Requested, CountsTrue, NEW base, NEW kinds, Grows(base, kinds),
         Find!Of({"counts", "follow", "unfollow"}) \subseteq base, UNCHANGED followerCounts,
         \A t \in Targets : t \in sharedCharacters' /\ CountsOf(t)' = {} => t \in sharedCharacters,
         \A t \in Targets : t \notin unheard'.counts => t \notin unheard.counts /\ Find!CountOf(t)' = Find!CountOf(t)
  PROVE  CountsTrue'
<1> SUFFICES ASSUME "counts" \notin disturbed', NEW t \in Targets, Known(t)' PROVE CountTrue(t)'
  BY DEF CountsTrue
<1>1. t \notin unheard'.counts
  BY DEF Known
<1> QED
  BY <1>1, KeepsCount

LEMMA KeepsModal ==
  ASSUME Requested, ModalTrue, NEW base, NEW kinds, Grows(base, kinds), "followers" \notin kinds,
         Find!Of({"followers"}) \subseteq base, UNCHANGED <<followPanel, activeSharedId, sharedFollowers>>
  PROVE  ModalTrue'
<1>1. Find!Of({"followers"})' = Find!Of({"followers"}) /\ disturbed \subseteq disturbed'
  BY DEF Find!Of, Grows
<1> QED
  BY <1>1 DEF ModalTrue, Latest

LEMMA RepliedLists ==
  ASSUME Requested, ListsTrue, NEW r, NEW q, Replied(r, q), UNCHANGED <<public, sharedCharacters>>,
         r.kind = "list" /\ q.reply = "ok" => q.found = public,
         ~ unheard'.list => ~ unheard.list \/ r.kind = "list"
  PROVE  ListsTrue'
<1> USE DEF Replied
<1> SUFFICES ASSUME ~ unheard'.list, "list" \notin disturbed'
             PROVE  /\ \A x \in Find!Of({"list"})' : x.reply # "none" /\ Latest(x, Find!Of({"list"})') => x.found = public
                    /\ Find!Of({"list", "link"})' = {} => sharedCharacters = public
  BY DEF ListsTrue, Latest
<1>1. ASSUME NEW x \in Find!Of({"list"})', x.reply # "none", Latest(x,
       Find!Of({"list"})') PROVE x.found = public
  <2>1. CASE x = q
    BY <1>1, <2>1 DEF Find!Of
  <2>2. CASE x # q /\ r.kind = "list"
    <3>1. x \in requests /\ x.kind = "list" /\ x # r /\ q \in Find!Of({"list"})'
      BY <2>2 DEF Find!Of
    <3>2. r.number <= x.number
      BY <1>1, <3>1 DEF Latest
    <3>3. r.number < x.number
      BY <3>1, <3>2 DEF Requested, Numbered, Find!TypeOK, Find!Request
    <3>4. r \in Find!Earlier(x)
      BY <3>1, <3>3, <2>2 DEF Find!Earlier
    <3> QED
      BY <1>1, <3>1, <3>4 DEF Requested, InOrder
  <2>3. CASE x # q /\ r.kind # "list"
    <3>1. Find!Of({"list"})' = Find!Of({"list"})
      BY <2>3 DEF Find!Of
    <3> QED
      BY <1>1, <2>3, <3>1 DEF ListsTrue, Latest
  <2> QED
    BY <2>1, <2>2, <2>3
<1>2. Find!Of({"list", "link"})' = {} => sharedCharacters = public
  <2>1. ASSUME Find!Of({"list", "link"})' = {} PROVE Find!Of({"list", "link"}) = {} /\ r.kind # "list"
    BY <2>1 DEF Find!Of
  <2> QED
    BY <2>1 DEF ListsTrue
<1> QED
  BY <1>1, <1>2

LEMMA RepliedCounts ==
  ASSUME Requested, CountsTrue, NEW r, NEW q, Replied(r, q), UNCHANGED <<followerCounts, sharedCharacters>>,
         r.kind = "counts" /\ q.reply = "ok" => \A i \in r.ids : q.counts[i] = Find!CountOf(i),
         \A t \in Targets : t \notin unheard'.counts => t \notin unheard.counts \/ (r.kind = "counts" /\ t \in r.ids),
         \A t \in Targets : Find!CountOf(t)' = Find!CountOf(t) \/ (r.kind \in {"follow", "unfollow"} /\ t \in r.ids)
  PROVE  CountsTrue'
<1> USE DEF Replied
<1> SUFFICES ASSUME "counts" \notin disturbed', NEW t \in Targets, Known(t)' PROVE CountTrue(t)'
  BY DEF CountsTrue
<1>1. Find!CountOf(t)' = Find!CountOf(t)
  <2>1. SUFFICES ASSUME r.kind \in {"follow", "unfollow"}, t \in r.ids PROVE FALSE
    OBVIOUS
  <2>2. q \in Find!Of({"follow", "unfollow"})' /\ t \in q.ids
    BY <2>1 DEF Find!Of
  <2> QED
    BY <2>2 DEF Known
<1>2. \A x \in Find!Of({"follow", "unfollow"}) : t \in x.ids => x.reply = "none"
  BY DEF Known, Find!Of
<1>3. CASE r.kind = "counts" /\ t \in r.ids
  <2>1. q \in CountsOf(t)'
    BY <1>3 DEF CountsOf, Find!Of
  <2>2. ASSUME NEW x \in CountsOf(t)', x.reply # "none", Latest(x,
         CountsOf(t)') PROVE x.counts[t] = Find!CountOf(t)
    <3>1. CASE x = q
      BY <1>3, <2>2, <3>1
    <3>2. CASE x # q
      <4>1. x \in requests /\ x.kind = "counts" /\ t \in x.ids /\ x # r /\ r.number <= x.number
        BY <2>1, <2>2, <3>2 DEF CountsOf, Find!Of, Latest
      <4>2. r.number < x.number
        BY <4>1 DEF Requested, Numbered, Find!TypeOK, Find!Request
      <4>3. r \in Find!Earlier(x)
        BY <4>1, <4>2, <1>3 DEF Find!Earlier
      <4> QED
        BY <2>2, <4>1, <4>3 DEF Requested, InOrder
    <3> QED
      BY <3>1, <3>2
  <2> QED
    BY <1>1, <2>1, <2>2 DEF CountTrue, Latest
<1>4. CASE ~ (r.kind = "counts" /\ t \in r.ids)
  <2>1. CountsOf(t)' = CountsOf(t)
    BY <1>4 DEF CountsOf, Find!Of
  <2>2. Known(t)
    BY <1>2, <1>4 DEF Known
  <2>3. CountTrue(t)
    BY <2>2 DEF CountsTrue
  <2> QED
    BY <1>1, <2>1, <2>3 DEF CountTrue, Latest
<1> QED
  BY <1>3, <1>4

LEMMA RepliedModal ==
  ASSUME Requested, ModalTrue, NEW r, NEW q, Replied(r, q), UNCHANGED <<followPanel, activeSharedId,
         sharedFollowers>>,
         r.kind = "followers" /\ q.reply = "ok" => q.found = UNION {FollowersOf[i] : i \in r.ids}
  PROVE  ModalTrue'
<1> USE DEF Replied
<1>1. \A x \in Find!Of({"followers"})' : x.reply = "ok" => x.found = UNION {FollowersOf[i] : i \in x.ids}
  BY DEF ModalTrue, Find!Of
<1>2. ASSUME followPanel, activeSharedId # None, "followers" \notin disturbed',
             NEW x \in Find!Of({"followers"})', Latest(x, Find!Of({"followers"})')
      PROVE  x.ids = {activeSharedId}
  <2>1. PICK y \in Find!Of({"followers"}) : y.ids = x.ids /\ y.number = x.number
    BY DEF Find!Of
  <2>2. Latest(y, Find!Of({"followers"}))
    BY <1>2, <2>1 DEF Latest, Find!Of
  <2> QED
    BY <1>2, <2>1, <2>2 DEF ModalTrue
<1>3. Find!Of({"followers"})' = {} => Find!Of({"followers"}) = {}
  BY DEF Find!Of
<1> QED
  BY <1>1, <1>2, <1>3 DEF ModalTrue

LEMMA RepliedLoads ==
  ASSUME Loads, NEW r, NEW q, Replied(r, q), UNCHANGED <<listLoading, sharedFollowers>>
  PROVE  Loads'
BY DEF Replied, Loads, Find!Of

LEMMA SameCounts ==
  ASSUME UNCHANGED <<public, mine, others>> PROVE \A t \in Targets : Find!CountOf(t)' = Find!CountOf(t)
BY DEF Find!CountOf

LEMMA ServeShown ==
  ASSUME Shown, NEW r \in requests, NEW reply \in {"ok", "failed"}, Find!Serve(r, reply)
  PROVE  Shown'
<1> USE DEF Shown
<1>1. PICK q : Replied(r, q) /\ (q.reply = "ok" => q = Find!Told(r))
  BY ServeSent
<1>2. Requested' /\ Loads'
  BY <1>1, ServeSent, RepliedLoads DEF Find!Serve
<1>3. ListsTrue'
  <2>1. ~ unheard'.list => ~ unheard.list \/ r.kind = "list"
    BY DEF Find!Serve, Find!Heard
  <2> QED
    BY <1>1, <2>1, ToldTyped, RepliedLists DEF Find!Serve
<1>4. CountsTrue'
  <2>1. \A t \in Targets : t \notin unheard'.counts => t \notin unheard.counts \/ (r.kind = "counts" /\ t \in r.ids)
    BY DEF Find!Serve, Find!Heard
  <2>2. \A t \in Targets : Find!CountOf(t)' = Find!CountOf(t) \/ (r.kind \in {"follow", "unfollow"} /\ t \in r.ids)
    <3> SUFFICES ASSUME NEW t \in Targets, ~ (r.kind \in {"follow", "unfollow"} /\ t \in r.ids)
                 PROVE  Find!CountOf(t)' = Find!CountOf(t)
      OBVIOUS
    <3>1. (t \in mine') = (t \in mine) /\ public' = public /\ others' = others
      BY DEF Find!Serve
    <3> QED
      BY <3>1 DEF Find!CountOf
  <2>3. r.kind = "counts" /\ q.reply = "ok" => \A i \in r.ids : q.counts[i] = Find!CountOf(i)
    BY <1>1, ToldTyped
  <2> QED
    BY <1>1, <2>1, <2>2, <2>3, RepliedCounts DEF Find!Serve
<1>5. ModalTrue'
  BY <1>1, ToldTyped, RepliedModal DEF Find!Serve
<1> QED
  BY <1>2, <1>3, <1>4, <1>5

LEMMA NotReachedShown ==
  ASSUME Shown, NEW r \in requests, Find!NotReached(r)
  PROVE  Shown'
<1> USE DEF Shown
<1>1. PICK q : Replied(r, q) /\ q.reply = "failed"
  BY NotReachedSent
<1>2. Requested' /\ Loads'
  BY <1>1, NotReachedSent, RepliedLoads DEF Find!NotReached
<1>3. ListsTrue'
  BY <1>1, RepliedLists DEF Find!NotReached, Find!serverVars
<1>6. ModalTrue'
  BY <1>1, RepliedModal DEF Find!NotReached
<1>4. \A t \in Targets : Find!CountOf(t)' = Find!CountOf(t)
  BY SameCounts DEF Find!NotReached, Find!serverVars
<1>5. CountsTrue'
  BY <1>1, <1>4, RepliedCounts DEF Find!NotReached
<1> QED
  BY <1>2, <1>3, <1>5, <1>6

(* The steps that ask for nothing the screens wait for. *)
LEMMA QuietShown ==
  ASSUME Shown, Requested', NEW base, NEW kinds, Grows(base, kinds), "followers" \notin kinds,
         Find!Of({"list", "link", "counts", "follow", "unfollow", "followers"}) \subseteq base,
         UNCHANGED <<followPanel, activeSharedId, sharedFollowers, sharedCharacters, followerCounts>>,
         unheard'.list \/ (public' = public /\ ~ unheard.list),
         \A t \in Targets : t \notin unheard'.counts => t \notin unheard.counts /\ Find!CountOf(t)' = Find!CountOf(t),
         listLoading' => listLoading \/ \E r \in requests' : r.kind \in {"list", "link"}
  PROVE  Shown'
<1> USE DEF Shown
<1>1. /\ Find!Of({"list", "link"}) \subseteq base /\ Find!Of({"followers"}) \subseteq base
      /\ Find!Of({"counts", "follow", "unfollow"}) \subseteq base
  BY DEF Find!Of
<1>2. Loads'
  BY <1>1 DEF Loads, Find!Of, Grows
<1>3. ListsTrue'
  <2>1. CASE unheard'.list
    BY <2>1 DEF ListsTrue
  <2>2. CASE ~ unheard'.list
    BY <1>1, <2>2, KeepsLists
  <2> QED
    BY <2>1, <2>2
<1>4. CountsTrue'
  BY <1>1, KeepsCounts
<1>5. ModalTrue'
  BY <1>1, KeepsModal
<1> QED
  BY <1>2, <1>3, <1>4, <1>5

LEMMA QuietSteps ==
  ASSUME Shown,
         \/ \E s \in {"home", "feed", "discover"} : Find!Go(s)
         \/ Find!LoadAgain \/ Find!Look \/ (\E c \in Own : Find!switchAccount(c))
         \/ \E t \in Targets : Find!toggleFollow(t) \/ Find!OthersChange(t)
         \/ \E r \in requests : Find!ServeSync(r)
         \/ UNCHANGED Find!discoverVars
  PROVE  Shown'
<1> USE DEF Shown
<1> DEFINE kinds == {"list", "link", "counts", "follow", "unfollow", "followers"}
<1>0. unheard.list \in BOOLEAN
  BY DEF Requested, Find!TypeOK
<1>1. ASSUME NEW s \in {"home", "feed", "discover"}, Find!Go(s) PROVE Shown'
  <2>1. /\ Requested' /\ Grows(requests, {"list"}) /\ Find!Of(kinds) \subseteq requests
        /\ listLoading' => listLoading \/ \E r \in requests' : r.kind \in {"list", "link"}
    BY <1>1, GoSent DEF Find!Go, Find!Of
  <2>2. \A t \in Targets : Find!CountOf(t)' = Find!CountOf(t)
    BY <1>1, SameCounts DEF Find!Go, Find!serverVars
  <2> QED
    BY <1>0, <1>1, <2>1, <2>2, QuietShown DEF Find!Go, Find!serverVars
<1>2. ASSUME Find!LoadAgain PROVE Shown'
  <2>1. /\ Requested' /\ Grows(requests, {"list"}) /\ Find!Of(kinds) \subseteq requests
        /\ listLoading' => listLoading \/ \E r \in requests' : r.kind \in {"list", "link"}
    BY <1>2, LoadAgainSent DEF Find!Of
  <2>2. \A t \in Targets : Find!CountOf(t)' = Find!CountOf(t)
    BY <1>2, SameCounts DEF Find!LoadAgain, Find!serverVars
  <2> QED
    BY <1>0, <1>2, <2>1, <2>2, QuietShown DEF Find!LoadAgain, Find!serverVars
<1>3. ASSUME Find!Look PROVE Shown'
  <2>1. Requested' /\ Grows(requests, {}) /\ Find!Of(kinds) \subseteq requests
    BY <1>3, LookSent DEF Find!Of
  <2>2. \A t \in Targets : Find!CountOf(t)' = Find!CountOf(t)
    BY <1>3, SameCounts DEF Find!Look, Find!serverVars
  <2> QED
    BY <1>0, <1>3, <2>1, <2>2, QuietShown DEF Find!Look, Find!serverVars
<1>4. ASSUME NEW c \in Own, Find!switchAccount(c) PROVE Shown'
  <2> DEFINE base == {r \in requests : r.kind # "share"}
  <2>1. Requested' /\ Grows(base, {"share"})
    BY <1>4, SwitchSent
  <2>2. Find!Of(kinds) \subseteq base
    BY DEF Find!Of
  <2>3. \A t \in Targets : Find!CountOf(t)' = Find!CountOf(t)
    BY <1>4, SameCounts DEF Find!switchAccount, Find!serverVars
  <2> HIDE DEF base
  <2> QED
    BY <1>0, <1>4, <2>1, <2>2, <2>3, QuietShown DEF Find!switchAccount, Find!serverVars
<1>5. ASSUME NEW t \in Targets, Find!toggleFollow(t) PROVE Shown'
  <2>1. Requested' /\ Grows(requests, {"sync", "follow", "unfollow"}) /\ Find!Of(kinds) \subseteq requests
    BY <1>5, ToggleFollowSent DEF Find!Of
  <2>2. \A i \in Targets : Find!CountOf(i)' = Find!CountOf(i)
    BY <1>5, SameCounts DEF Find!toggleFollow, Find!serverVars
  <2> QED
    BY <1>0, <1>5, <2>1, <2>2, QuietShown DEF Find!toggleFollow, Find!serverVars
<1>6. ASSUME NEW t \in Targets, Find!OthersChange(t) PROVE Shown'
  <2>1. Requested' /\ Grows(requests, {}) /\ Find!Of(kinds) \subseteq requests
    BY <1>6, OthersSent DEF Find!Of
  <2>2. /\ unheard'.list \/ (public' = public /\ ~ unheard.list)
        /\ \A i \in Targets : i \notin unheard'.counts => i \notin unheard.counts /\ i # t
    <3>1. CASE /\ public' = (public \cup {t}) \ (public \cap {t}) /\ UNCHANGED others
               /\ unheard' = [list |-> TRUE, counts |-> unheard.counts \cup {t}]
      BY <3>1
    <3>2. CASE /\ others' = others \cup {t} /\ UNCHANGED public
               /\ unheard' = [unheard EXCEPT !.counts = @ \cup {t}]
      BY <3>2, <1>0 DEF Requested, Find!TypeOK
    <3> QED
      BY <1>6, <3>1, <3>2 DEF Find!OthersChange
  <2>3. \A i \in Targets : i # t => Find!CountOf(i)' = Find!CountOf(i)
    <3> SUFFICES ASSUME NEW i \in Targets, i # t PROVE Find!CountOf(i)' = Find!CountOf(i)
      OBVIOUS
    <3>1. (i \in public') = (i \in public) /\ (i \in others') = (i \in others) /\ mine' = mine
      BY <1>6 DEF Find!OthersChange
    <3> QED
      BY <3>1 DEF Find!CountOf
  <2> QED
    BY <1>6, <2>1, <2>2, <2>3, QuietShown DEF Find!OthersChange
<1>7. ASSUME NEW r \in requests, Find!ServeSync(r) PROVE Shown'
  <2>1. Requested' /\ Grows(requests \ {r}, {})
    BY <1>7, SyncSent
  <2>2. Find!Of(kinds) \subseteq requests \ {r}
    BY <1>7 DEF Find!Of, Find!ServeSync
  <2>3. /\ unheard'.list = unheard.list
        /\ \A t \in Targets : t \notin unheard'.counts => t \notin unheard.counts /\ (t \in mine') = (t \in mine)
    BY <1>7 DEF Find!ServeSync, Requested, Find!TypeOK
  <2>4. \A t \in Targets : (t \in mine') = (t \in mine) => Find!CountOf(t)' = Find!CountOf(t)
    BY <1>7 DEF Find!CountOf, Find!ServeSync
  <2> QED
    BY <1>0, <1>7, <2>1, <2>2, <2>3, <2>4, QuietShown DEF Find!ServeSync
<1>8. CASE UNCHANGED Find!discoverVars
  <2>1. Requested'
    BY <1>8 DEF Find!discoverVars, Find!serverVars, Requested, Find!TypeOK, Numbered, InOrder, Find!Earlier,
       FailuresKnown, Find!Of
  <2>2. Grows(requests, {}) /\ Find!Of(kinds) \subseteq requests
    BY <1>8, AskingNone DEF Find!discoverVars, Find!Of
  <2>3. \A t \in Targets : Find!CountOf(t)' = Find!CountOf(t)
    BY <1>8, SameCounts DEF Find!discoverVars, Find!serverVars
  <2> QED
    BY <1>0, <1>8, <2>1, <2>2, <2>3, QuietShown DEF Find!discoverVars, Find!serverVars
<1> QED
  BY <1>1, <1>2, <1>3, <1>4, <1>5, <1>6, <1>7, <1>8

LEMMA PanelShown == ASSUME Shown, Find!toggleFollowPanel PROVE Shown'
<1> USE DEF Shown
<1>1. /\ Requested' /\ Grows(requests, {"followers"}) /\ Find!Of({"list", "link"}) \subseteq requests
      /\ Find!Of({"counts", "follow", "unfollow"}) \subseteq requests /\ disturbed' = disturbed
      /\ UNCHANGED <<activeSharedId, sharedCharacters, listLoading, followerCounts, unheard, public>>
  BY PanelSent DEF Find!Of, Find!toggleFollowPanel, Find!serverVars
<1>2. \A t \in Targets : Find!CountOf(t)' = Find!CountOf(t)
  BY SameCounts DEF Find!toggleFollowPanel, Find!serverVars
<1>3. ListsTrue'
  BY <1>1, KeepsLists
<1>4. CountsTrue'
  BY <1>1, <1>2, KeepsCounts
<1>5. CASE ~ followPanel /\ activeSharedId # None
  <2>1. PICK r \in requests' \ requests :
          /\ r.kind = "followers" /\ r.ids = {activeSharedId}
          /\ \A q \in requests' \ requests : q.kind = "followers" /\ q.ids = {activeSharedId}
    BY <1>5, PanelSent
  <2>2. Added(requests, r) /\ \A q \in requests' \ requests : Added(requests, q)
    BY <1>1 DEF Grows
  <2>3. Loads'
    BY <1>1, <2>1 DEF Loads, Find!Of, Grows
  <2>4. \A q \in Find!Of({"followers"})' : q.reply = "ok" => q \in Find!Of({"followers"})
    BY <2>2 DEF Find!Of, Added
  <2>5. ASSUME NEW q \in Find!Of({"followers"})', Latest(q,
         Find!Of({"followers"})') PROVE q.ids = {activeSharedId}
    <3>1. r \in Find!Of({"followers"})'
      BY <2>1 DEF Find!Of
    <3>2. r.number <= q.number /\ r.number > findAsked /\ r.number \in Nat /\ findAsked \in Nat
      BY <2>2, <2>5, <3>1 DEF Latest, Added, Requested, Find!TypeOK, Find!Request
    <3>3. q \notin requests
      BY <3>2 DEF Requested, Numbered, Find!TypeOK, Find!Request
    <3> QED
      BY <2>1, <3>3 DEF Find!Of
  <2>6. ModalTrue'
    <3>1. r \in Find!Of({"followers"})'
      BY <2>1 DEF Find!Of
    <3> QED
      BY <1>1, <2>4, <2>5, <3>1 DEF ModalTrue
  <2> QED
    BY <1>1, <1>3, <1>4, <2>3, <2>6
<1>6. CASE followPanel \/ activeSharedId = None
  <2>1. requests' = requests /\ sharedFollowers' = sharedFollowers /\ (followPanel => ~ followPanel')
    BY <1>6, PanelSent DEF Find!toggleFollowPanel
  <2>2. Loads'
    BY <1>1, <2>1 DEF Loads, Find!Of
  <2>3. ModalTrue'
    BY <1>1, <1>6, <2>1 DEF ModalTrue, Find!Of, Latest
  <2> QED
    BY <1>1, <1>3, <1>4, <2>2, <2>3
<1> QED
  BY <1>5, <1>6

(* The steps of an answer the screens wait for. *)
LEMMA AnswerCountsShown == ASSUME Shown, NEW r \in requests, Find!AnswerCounts(r) PROVE Shown'
<1> USE DEF Shown
<1>1. /\ Requested' /\ Grows(requests \ {r}, {}) /\ r.kind = "counts" /\ requests' = requests \ {r}
      /\ Find!Answers(r)
     
      /\ UNCHANGED <<followPanel, activeSharedId, sharedFollowers, sharedCharacters, listLoading, unheard, public>>
  BY AnswerCountsSent, Nothing DEF Find!AnswerCounts, Find!Answers, Find!serverVars
<1>2. \A t \in Targets : Find!CountOf(t)' = Find!CountOf(t)
  BY SameCounts DEF Find!AnswerCounts, Find!Answers, Find!serverVars
<1>3. /\ Find!Of({"list", "link"})' = Find!Of({"list", "link"})
      /\ Find!Of({"followers"})' = Find!Of({"followers"})
      /\ Find!Of({"follow", "unfollow"})' = Find!Of({"follow", "unfollow"})
      /\ Find!Of({"list", "link"}) \subseteq requests \ {r} /\ Find!Of({"followers"}) \subseteq requests \ {r}
  BY <1>1 DEF Find!Of
<1>4. Loads' /\ ListsTrue' /\ ModalTrue'
  <2>1. Loads'
    BY <1>1, <1>3 DEF Loads
  <2>2. ListsTrue'
    BY <1>1, <1>3, KeepsLists
  <2>3. ModalTrue'
    BY <1>1, <1>3, KeepsModal
  <2> QED
    BY <2>1, <2>2, <2>3
<1>5. CountsTrue'
  <2> SUFFICES ASSUME "counts" \notin disturbed', NEW t \in Targets, Known(t)' PROVE CountTrue(t)'
    BY DEF CountsTrue
  <2>1. Known(t) /\ "counts" \notin disturbed /\ Find!Earlier(r) = {} /\ CountTrue(t) /\ t \in Find!Ids
    BY <1>1, <1>3 DEF Known, Find!Answers, CountsTrue, Find!Ids
  <2>2. CASE t \notin r.ids
    <3>1. CountsOf(t)' = CountsOf(t) /\ followerCounts'[t] = followerCounts[t]
      BY <1>1, <2>1, <2>2 DEF CountsOf, Find!Of, Find!AnswerCounts, Requested, Find!TypeOK
    <3> QED
      BY <1>1, <1>2, <2>1, <3>1 DEF CountTrue, Latest
  <2>3. CASE t \in r.ids
    <3>1. CountsOf(t)' = CountsOf(t) \ {r} /\ r \in CountsOf(t)
      BY <1>1, <2>3 DEF CountsOf, Find!Of
    <3>2. \A x \in CountsOf(t) : x.number >= r.number
      <4> SUFFICES ASSUME NEW x \in CountsOf(t), ~ x.number >= r.number PROVE FALSE
        OBVIOUS
      <4>1. x.number < r.number /\ x \in requests /\ x.kind = "counts" /\ t \in x.ids \cap r.ids
        BY <2>3 DEF CountsOf, Find!Of, Requested, Find!TypeOK, Find!Request
      <4> QED
        BY <1>1, <2>1, <4>1 DEF Find!Earlier
    <3>3. ASSUME NEW x \in CountsOf(t)', x.reply # "none", Latest(x,
           CountsOf(t)') PROVE x.counts[t] = Find!CountOf(t)
      <4>1. x \in CountsOf(t) /\ Latest(x, CountsOf(t))
        BY <3>1, <3>2, <3>3 DEF Latest
      <4> QED
        BY <2>1, <3>3, <4>1 DEF CountTrue
    <3>4. ASSUME CountsOf(t)' = {} PROVE followerCounts'[t] = Find!CountOf(t)
      <4>1. CountsOf(t) = {r}
        BY <3>1, <3>4
      <4>2. Latest(r, CountsOf(t))
        BY <4>1 DEF Latest, Requested, Find!TypeOK, Find!Request
      <4>3. r.counts[t] = Find!CountOf(t) /\ Find!Ok(r)
        BY <1>1, <2>1, <3>1, <4>2 DEF CountTrue, Find!Answers, Requested, FailuresKnown, Find!Of, Find!Ok,
           Find!TypeOK, Find!Request
      <4> QED
        BY <2>1, <2>3, <4>3 DEF Find!AnswerCounts, Requested, Find!TypeOK
    <3> QED
      BY <1>2, <3>3, <3>4 DEF CountTrue, Latest
  <2> QED
    BY <2>2, <2>3
<1> QED
  BY <1>1, <1>4, <1>5

LEMMA AnswerListShown == ASSUME Shown, NEW r \in requests, Find!AnswerList(r) PROVE Shown'
<1> USE DEF Shown
<1>1. /\ Requested' /\ Grows(requests \ {r}, {"counts"}) /\ r.kind = "list" /\ Find!Answers(r)
      /\ sharedCharacters' = r.found /\ listLoading' = FALSE
      /\ UNCHANGED <<followPanel, activeSharedId, sharedFollowers, followerCounts, unheard, public>>
  BY AnswerListSent DEF Find!AnswerList, Find!Answers, Find!serverVars
<1>2. \A t \in Targets : Find!CountOf(t)' = Find!CountOf(t)
  BY SameCounts DEF Find!AnswerList, Find!Answers, Find!serverVars
<1>3. /\ Find!Of({"list"})' = Find!Of({"list"}) \ {r} /\ r \in Find!Of({"list"})
      /\ Find!Of({"followers"})' = Find!Of({"followers"})
      /\ Find!Of({"followers"}) \subseteq requests \ {r}
      /\ Find!Of({"counts", "follow", "unfollow"}) \subseteq requests \ {r}
  BY <1>1 DEF Find!Of, Grows
<1>4. Loads' /\ ModalTrue'
  <2>1. Loads'
    BY <1>1, <1>3 DEF Loads
  <2>2. ModalTrue'
    BY <1>1, <1>3, KeepsModal
  <2> QED
    BY <2>1, <2>2
<1>5. CountsTrue'
  <2>1. \A t \in Targets : t \in sharedCharacters' => CountsOf(t)' # {}
    BY <1>1, AnswerListSent DEF CountsOf, Find!Of
  <2> QED
    BY <1>1, <1>2, <1>3, <2>1, KeepsCounts
<1>6. ListsTrue'
  <2> SUFFICES ASSUME ~ unheard.list, "list" \notin disturbed'
               PROVE  /\ \A x \in Find!Of({"list"})' : x.reply # "none" /\ Latest(x, Find!Of({"list"})') => x.found = public
                      /\ Find!Of({"list", "link"})' = {} => r.found = public
    BY <1>1 DEF ListsTrue, Latest
  <2>1. "list" \notin disturbed /\ Find!Earlier(r) = {}
    BY <1>1 DEF Find!Answers
  <2>2. \A x \in Find!Of({"list"}) : x.number >= r.number
    <3> SUFFICES ASSUME NEW x \in Find!Of({"list"}), ~ x.number >= r.number PROVE FALSE
      OBVIOUS
    <3>1. x.number < r.number /\ x \in requests /\ x.kind = "list"
      BY DEF Find!Of, Requested, Find!TypeOK, Find!Request
    <3> QED
      BY <1>1, <2>1, <3>1 DEF Find!Earlier
  <2>3. ASSUME NEW x \in Find!Of({"list"})', x.reply # "none", Latest(x,
         Find!Of({"list"})') PROVE x.found = public
    <3>1. x \in Find!Of({"list"}) /\ Latest(x, Find!Of({"list"}))
      BY <1>3, <2>2, <2>3 DEF Latest
    <3> QED
      BY <2>1, <2>3, <3>1 DEF ListsTrue
  <2>4. ASSUME Find!Of({"list", "link"})' = {} PROVE r.found = public
    <3>1. Find!Of({"list"}) = {r}
      BY <1>3, <2>4 DEF Find!Of
    <3>2. Latest(r, Find!Of({"list"}))
      BY <3>1 DEF Latest, Requested, Find!TypeOK, Find!Request
    <3> QED
      BY <1>1, <1>3, <2>1, <3>2 DEF ListsTrue, Find!Answers
  <2> QED
    BY <2>3, <2>4
<1> QED
  BY <1>1, <1>4, <1>5, <1>6

LEMMA AnswerLinkShown == ASSUME Shown, NEW r \in requests, Find!AnswerLink(r) PROVE Shown'
<1> USE DEF Shown
<1>1. /\ Requested' /\ Grows(requests \ {r}, {"counts", "list"}) /\ r.kind = "link" /\ Find!Answers(r)
      /\ sharedCharacters' = sharedCharacters \cup r.found
      /\ UNCHANGED <<followPanel, activeSharedId, sharedFollowers, followerCounts, unheard, public>>
  BY AnswerLinkSent DEF Find!AnswerLink, Find!Answers, Find!serverVars
<1>2. \A t \in Targets : Find!CountOf(t)' = Find!CountOf(t)
  BY SameCounts DEF Find!AnswerLink, Find!Answers, Find!serverVars
<1>3. /\ Find!Of({"followers"})' = Find!Of({"followers"})
      /\ Find!Of({"followers"}) \subseteq requests \ {r}
      /\ Find!Of({"counts", "follow", "unfollow"}) \subseteq requests \ {r}
  BY <1>1 DEF Find!Of, Grows
<1>4. PICK q \in requests' \ (requests \ {r}) : q.kind = "list"
  BY AnswerLinkSent
<1>5. Added(requests \ {r}, q) /\ q \in Find!Of({"list"})' /\ q \in Find!Of({"list", "link"})'
  BY <1>1, <1>4 DEF Grows, Find!Of
<1>6. Loads' /\ ModalTrue'
  <2>1. Loads'
    BY <1>1, <1>3, <1>5 DEF Loads
  <2>2. ModalTrue'
    BY <1>1, <1>3, KeepsModal
  <2> QED
    BY <2>1, <2>2
<1>7. CountsTrue'
  <2>1. \A t \in Targets : t \in r.found => CountsOf(t)' # {}
    BY <1>1, AnswerLinkSent DEF CountsOf, Find!Of
  <2> QED
    BY <1>1, <1>2, <1>3, <2>1, KeepsCounts
<1>8. ListsTrue'
  <2>1. \A x \in Find!Of({"list"})' : x.reply # "none" => x \in requests
    BY <1>1 DEF Find!Of, Grows, Added
  <2>2. \A x \in requests : x.number <= findAsked /\ x.number \in Nat
    BY DEF Requested, Numbered, Find!TypeOK, Find!Request
  <2>3. q.number > findAsked /\ q.number \in Nat /\ findAsked \in Nat
    BY <1>5 DEF Added, Requested, Find!TypeOK, Find!Request
  <2>4. \A x \in Find!Of({"list"})' : x.reply # "none" => ~ Latest(x, Find!Of({"list"})')
    BY <1>5, <2>1, <2>2, <2>3 DEF Latest
  <2> QED
    BY <1>5, <2>4 DEF ListsTrue, Latest
<1> QED
  BY <1>1, <1>6, <1>7, <1>8

LEMMA AnswerShareShown == ASSUME Shown, NEW r \in requests, Find!AnswerShare(r) PROVE Shown'
<1> USE DEF Shown
<1>1. /\ Requested' /\ Grows(requests \ {r}, {"counts"}) /\ r.kind = "share"
      /\ followPanel => "followers" \in disturbed'
     
      /\ UNCHANGED <<followPanel, sharedCharacters, listLoading, sharedFollowers, followerCounts, unheard, public>>
  BY AnswerShareSent DEF Find!AnswerShare, Find!serverVars
<1>2. \A t \in Targets : Find!CountOf(t)' = Find!CountOf(t)
  BY SameCounts DEF Find!AnswerShare, Find!serverVars
<1>3. /\ Find!Of({"list", "link"})' = Find!Of({"list", "link"})
      /\ Find!Of({"followers"})' = Find!Of({"followers"})
      /\ Find!Of({"list", "link"}) \subseteq requests \ {r}
      /\ Find!Of({"counts", "follow", "unfollow"}) \subseteq requests \ {r}
  BY <1>1 DEF Find!Of, Grows
<1>4. Loads' /\ ModalTrue'
  BY <1>1, <1>3 DEF Loads, ModalTrue
<1>5. CountsTrue'
  BY <1>1, <1>2, <1>3, KeepsCounts
<1>6. ListsTrue'
  BY <1>1, <1>3, KeepsLists
<1> QED
  BY <1>1, <1>4, <1>5, <1>6

LEMMA AnswerFollowersShown == ASSUME Shown, NEW r \in requests, Find!AnswerFollowers(r) PROVE Shown'
<1> USE DEF Shown
<1>1. /\ Requested' /\ Grows(requests \ {r}, {"counts"}) /\ r.kind = "followers" /\ Find!Answers(r)
      /\ sharedFollowers'.loading = FALSE /\ sharedFollowers'.failed = (r.reply # "ok")
      /\ sharedFollowers'.rows = r.found
     
      /\ UNCHANGED <<followPanel, activeSharedId, sharedCharacters, listLoading, followerCounts, unheard, public>>
  BY AnswerFollowersSent DEF Find!AnswerFollowers, Find!Answers, Find!serverVars, Find!Loaded, Find!Ok
<1>2. \A t \in Targets : Find!CountOf(t)' = Find!CountOf(t)
  BY SameCounts DEF Find!AnswerFollowers, Find!Answers, Find!serverVars
<1>3. /\ Find!Of({"list", "link"})' = Find!Of({"list", "link"})
      /\ Find!Of({"followers"})' = Find!Of({"followers"}) \ {r} /\ r \in Find!Of({"followers"})
      /\ Find!Of({"list", "link"}) \subseteq requests \ {r}
      /\ Find!Of({"counts", "follow", "unfollow"}) \subseteq requests \ {r}
  BY <1>1 DEF Find!Of, Grows
<1>4. Loads'
  BY <1>1, <1>3 DEF Loads
<1>5. CountsTrue'
  BY <1>1, <1>2, <1>3, KeepsCounts
<1>6. ListsTrue'
  BY <1>1, <1>3, KeepsLists
<1>7. ModalTrue'
  <2>1. \A x \in Find!Of({"followers"})' : x.reply = "ok" => x.found = UNION {FollowersOf[i] : i \in x.ids}
    BY <1>3 DEF ModalTrue
  <2> SUFFICES ASSUME followPanel, activeSharedId # None, "followers" \notin disturbed'
               PROVE  /\ \A x \in Find!Of({"followers"})' : Latest(x, Find!Of({"followers"})') => x.ids = {activeSharedId}
                      /\ Find!Of({"followers"})' = {} /\ r.reply = "ok" => r.found = FollowersOf[activeSharedId]
    BY <1>1, <2>1 DEF ModalTrue, Latest
  <2>2. "followers" \notin disturbed /\ Find!Earlier(r) = {}
    BY <1>1 DEF Find!Answers
  <2>3. \A x \in Find!Of({"followers"}) : x.number >= r.number
    <3> SUFFICES ASSUME NEW x \in Find!Of({"followers"}), ~ x.number >= r.number PROVE FALSE
      OBVIOUS
    <3>1. x.number < r.number /\ x \in requests /\ x.kind = "followers"
      BY DEF Find!Of, Requested, Find!TypeOK, Find!Request
    <3> QED
      BY <1>1, <2>2, <3>1 DEF Find!Earlier
  <2>4. ASSUME NEW x \in Find!Of({"followers"})', Latest(x,
         Find!Of({"followers"})') PROVE x.ids = {activeSharedId}
    <3>1. x \in Find!Of({"followers"}) /\ Latest(x, Find!Of({"followers"}))
      BY <1>3, <2>3, <2>4 DEF Latest
    <3> QED
      BY <2>2, <3>1 DEF ModalTrue
  <2>5. ASSUME Find!Of({"followers"})' = {}, r.reply = "ok" PROVE r.found = FollowersOf[activeSharedId]
    <3>1. Find!Of({"followers"}) = {r}
      BY <1>3, <2>5
    <3>2. Latest(r, Find!Of({"followers"}))
      BY <3>1 DEF Latest, Requested, Find!TypeOK, Find!Request
    <3>3. r.ids = {activeSharedId} /\ r.found = UNION {FollowersOf[i] : i \in r.ids}
      BY <1>3, <2>2, <2>5, <3>2 DEF ModalTrue
    <3> QED
      BY <3>3
  <2> QED
    BY <2>4, <2>5
<1> QED
  BY <1>1, <1>4, <1>5, <1>6, <1>7

LEMMA FollowChangeShown == ASSUME Shown, NEW r \in requests, Find!recordFollowChange(r) PROVE Shown'
<1> USE DEF Shown
<1>1. /\ Requested' /\ Grows(requests \ {r}, {"sync", "counts"}) /\ r.kind \in {"follow", "unfollow"}
      /\ Find!Answers(r)
     
      /\ UNCHANGED <<followPanel, activeSharedId, sharedCharacters, listLoading, sharedFollowers, unheard, public>>
  BY FollowChangeSent DEF Find!recordFollowChange, Find!Answers, Find!serverVars
<1>2. \A t \in Targets : Find!CountOf(t)' = Find!CountOf(t)
  BY SameCounts DEF Find!recordFollowChange, Find!Answers, Find!serverVars
<1>3. /\ Find!Of({"list", "link"})' = Find!Of({"list", "link"})
      /\ Find!Of({"followers"})' = Find!Of({"followers"})
      /\ Find!Of({"list", "link"}) \subseteq requests \ {r} /\ Find!Of({"followers"}) \subseteq requests \ {r}
  BY <1>1 DEF Find!Of, Grows
<1>4. Loads' /\ ListsTrue' /\ ModalTrue'
  <2>1. Loads'
    BY <1>1, <1>3 DEF Loads
  <2>2. ListsTrue'
    BY <1>1, <1>3, KeepsLists
  <2>3. ModalTrue'
    BY <1>1, <1>3, KeepsModal
  <2> QED
    BY <2>1, <2>2, <2>3
<1>5. CountsTrue'
  <2> SUFFICES ASSUME "counts" \notin disturbed', NEW t \in Targets, Known(t)' PROVE CountTrue(t)'
    BY DEF CountsTrue
  <2>1. CASE t \notin r.ids
    <3>1. followerCounts'[t] = followerCounts[t]
      BY <2>1 DEF Find!recordFollowChange, Find!updateFollowerCount, Requested, Find!TypeOK, Find!Ids
    <3>2. t \notin unheard.counts
      BY <1>1 DEF Known
    <3>3. \A x \in Find!Of({"counts", "follow", "unfollow"}) : t \in x.ids => x \in requests \ {r}
      BY <2>1 DEF Find!Of
    <3> QED
      BY <1>1, <1>2, <3>1, <3>2, <3>3, KeepsCount
  <2>2. CASE t \in r.ids
    <3>1. PICK q \in requests' \ (requests \ {r}) : q.kind = "counts" /\ q.ids = r.ids
      BY FollowChangeSent
    <3>2. Added(requests \ {r}, q) /\ q \in CountsOf(t)'
      BY <1>1, <2>2, <3>1 DEF Grows, CountsOf, Find!Of
    <3>3. \A x \in CountsOf(t)' : x.reply # "none" => x \in requests
      BY <1>1 DEF CountsOf, Find!Of, Grows, Added
    <3>4. \A x \in requests : x.number <= findAsked /\ x.number \in Nat
      BY DEF Requested, Numbered, Find!TypeOK, Find!Request
    <3>5. q.number > findAsked /\ q.number \in Nat /\ findAsked \in Nat
      BY <3>2 DEF Added, Requested, Find!TypeOK, Find!Request
    <3>6. \A x \in CountsOf(t)' : x.reply # "none" => ~ Latest(x, CountsOf(t)')
      BY <3>2, <3>3, <3>4, <3>5 DEF Latest
    <3> QED
      BY <3>2, <3>6 DEF CountTrue, Latest
  <2> QED
    BY <2>1, <2>2
<1> QED
  BY <1>1, <1>4, <1>5

LEMMA ShownStarts == ASSUME Find!Init PROVE Shown
<1>1. Requested
  BY SentStarts
<1>2. \A r \in requests : r.kind \in {"share", "link", "list"}
  BY DEF Find!Init, Find!New
<1>3. Loads
  <2>1. CASE sharedFocusId = None
    BY <2>1 DEF Find!Init, Loads, Find!NoFollowers
  <2>2. CASE sharedFocusId # None
    <3>1. [Find!New("list", {}) EXCEPT !.number = 3] \in requests
      BY <2>2 DEF Find!Init
    <3>2. [Find!New("list", {}) EXCEPT !.number = 3].kind = "list"
      BY DEF Find!New
    <3> QED
      BY <3>1, <3>2 DEF Find!Init, Loads, Find!NoFollowers, Find!Of
  <2> QED
    BY <2>1, <2>2
<1>4. ListsTrue /\ CountsTrue /\ ModalTrue
  BY <1>2 DEF Find!Init, ListsTrue, CountsTrue, CountTrue, CountsOf, Find!Of, ModalTrue
<1> QED
  BY <1>1, <1>3, <1>4 DEF Shown

LEMMA ShownSteps == ASSUME Shown, [Find!Next]_Find!discoverVars PROVE Shown'
<1>1. CASE Find!Answered
  <2>1. PICK r \in requests :
          \/ Find!ServeSync(r) \/ Find!Serve(r, "ok") \/ Find!Serve(r, "failed") \/ Find!NotReached(r)
          \/ Find!AnswerCounts(r) \/ Find!AnswerList(r) \/ Find!AnswerLink(r) \/ Find!AnswerShare(r) \/ Find!AnswerFollowers(r)
          \/ Find!recordFollowChange(r)
    BY <1>1 DEF Find!Answered
  <2> QED
    BY <2>1, QuietSteps, ServeShown, NotReachedShown, AnswerCountsShown, AnswerListShown, AnswerLinkShown,
       AnswerShareShown, AnswerFollowersShown, FollowChangeShown
<1>2. CASE Find!Finding
  BY <1>2, QuietSteps DEF Find!Finding
<1>3. CASE Find!Showing
  BY <1>3, QuietSteps, PanelShown DEF Find!Showing
<1>4. CASE UNCHANGED Find!discoverVars
  BY <1>4, QuietSteps
<1> QED
  BY <1>1, <1>2, <1>3, <1>4 DEF Find!Next

(* useAliveDiscover: whatever the order in which requests are asked, served, lost and answered, for  *)
(* any number of characters and requests: no screen waits for an answer that is not on its way; the  *)
(* list shows who can be found, each character on it the number of followers that the server counts, *)
(* and the modal the followers of the character it was opened for, unless an answer failed or came   *)
(* late, or the server changed since it told.                                                        *)
THEOREM ScreensSettle ==
  Find!Spec => [](Find!TypeOK /\ Find!ListSettles /\ Find!CountsSettle /\ Find!FollowersSettle)
<1>1. Find!Init => Shown
  BY ShownStarts
<1>2. Shown /\ [Find!Next]_Find!discoverVars => Shown'
  BY ShownSteps
<1>3. Shown => Find!TypeOK /\ Find!ListSettles /\ Find!CountsSettle /\ Find!FollowersSettle
  <2> SUFFICES ASSUME Shown PROVE Find!TypeOK /\ Find!ListSettles /\ Find!CountsSettle /\ Find!FollowersSettle
    OBVIOUS
  <2> USE DEF Shown
  <2>1. Find!TypeOK
    BY DEF Requested
  <2>2. Find!ListSettles
    BY DEF Find!ListSettles, ListsTrue, Loads
  <2>3. Find!CountsSettle
    <3> SUFFICES ASSUME NEW t \in sharedCharacters, \A r \in Find!Of({"counts", "follow", "unfollow"}) : t \notin r.ids,
                        t \notin unheard.counts, "counts" \notin disturbed
                 PROVE  followerCounts[t] = Find!CountOf(t)
      BY DEF Find!CountsSettle
    <3>1. Known(t) /\ CountsOf(t) = {} /\ t \in Targets
      BY <2>1 DEF Known, CountsOf, Find!Of, Find!TypeOK
    <3> QED
      BY <3>1 DEF CountsTrue, CountTrue
  <2>4. Find!FollowersSettle
    BY DEF Find!FollowersSettle, ModalTrue, Loads
  <2> QED
    BY <2>1, <2>2, <2>3, <2>4
<1> QED
  BY <1>1, <1>2, <1>3, PTL DEF Find!Spec

(* A behaviour of the parts is one of each component, which may have stopped. *)
LEMMA PartsRun == MCSpec => Spec /\ Find!Spec
<1>1. MCInit => Init /\ Find!Init
  BY DEF MCInit
<1>2. [MCNext \/ Stops]_allVars => [Next]_vars
  BY DEF MCNext, Stops, allVars, vars
<1>3. [MCNext \/ Stops]_allVars => [Find!Next]_Find!discoverVars
  BY DEF MCNext, Stops, allVars, findVars, Find!Next, Find!discoverVars
<1> QED
  BY <1>1, <1>2, <1>3, PTL DEF MCSpec, Spec, Find!Spec

(* The answers of followed likes and of discovery, in every part of the behaviours composed here. *)
THEOREM AnswersAlwaysSettle == MCSpec => []AnswersSettle
<1>1. Find!TypeOK /\ Find!ListSettles /\ Find!CountsSettle /\ Find!FollowersSettle /\ Likes!LikesSettle => AnswersSettle
  BY DEF AnswersSettle
<1> QED
  BY <1>1, PartsRun, ScreensSettle, LikesStayShown, PTL

(* Posts, likes and discovery keep their types: a list of posts is no longer than there are posts *)
(* and comments to write, for nothing is written in it twice (useAliveFeed.ts, mutatePosts).      *)
THEOREM TypesAlwaysOK == MCSpec => []TypesOK
<1>1. TypeOK /\ Likes!TypeOK /\ Find!TypeOK => TypesOK
  BY DEF TypesOK
<1> QED
  BY <1>1, PartsRun, NothingIsTwice, ScreensSettle, LikesStayShown, PTL
=============================================================================
