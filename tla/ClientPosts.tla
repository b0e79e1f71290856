---------------------------- MODULE ClientPosts ----------------------------
(***************************************************************************)
(* A client's copy of its characters' posts.  The list of the character    *)
(* that is shown and the revision it came with are refs that every answer  *)
(* of the server overwrites.  A change the user makes is a function that   *)
(* waits in a queue; when its turn comes it is applied to the list as it   *)
(* is then, shown, and saved under the revision; if the server has another *)
(* one, the latest list is read and the change is applied to it once more. *)
(*                                                                         *)
(* A list maps each post to its comments.  A change belongs to the         *)
(* character that was shown when it was asked for.                         *)
(***************************************************************************)
EXTENDS Integers, Sequences, FiniteSets, SequencesExt

CONSTANTS
  Characters, None,
  MaxItems,       \* bound: posts and comments ever written
  MaxChanges,     \* bound: changes ever asked for
  MaxAnswers,     \* bound: answers on their way
  MaxRevision     \* bound: revision of a list

ASSUME BoundsAssumption == MaxItems \in Nat /\ MaxRevision \in Nat

Ids == 1..MaxItems
Lists == UNION {[S -> UNION {[1..n -> Ids] : n \in 0..MaxItems}] : S \in SUBSET Ids}
ItemsOf(list) == DOMAIN list \cup UNION {ToSet(list[p]) : p \in DOMAIN list}

VARIABLES
  server,    \* each character's posts, revision and automatic posts
  card,      \* the posts in the client's list of accounts
  activeId, posts, revision, auto,   \* what is shown, postsRef, revisionRef
  queue, running,                    \* mutationQueueRef, and the change it works on
  answers,   \* answers to requests that do not wait for each other
  drafts,    \* texts of characters that are being generated
  loading,   \* loadingRef
  nextId, asked, done,
  removed    \* what changes have removed

clientVars == <<activeId, posts, revision, auto>>
vars == <<server, card, clientVars, queue, running, answers, drafts, loading, nextId, asked, done, removed>>

CharacterPostsState == [posts : Lists, revision : 0..MaxRevision, auto : BOOLEAN]
PostMutation == [kind : {"add", "edit", "delete", "comment", "uncomment"}, id : Ids, of : Ids \cup {0}, meant : Ids]
Change == [for : Characters, mutation : PostMutation]
Stages == {"saved", "conflict", "read", "failed", "refreshed"}

TypeOK ==
  /\ server \in [Characters -> CharacterPostsState]
  /\ card \in [Characters -> Lists] /\ posts \in Lists /\ revision \in 0..MaxRevision /\ auto \in BOOLEAN
  /\ activeId \in Characters \cup {None} /\ loading \in BOOLEAN
  /\ ToSet(queue) \subseteq Change
  /\ running # None => /\ running.change \in Change /\ running.stage \in Stages
                       /\ running.state \in CharacterPostsState
  /\ \A a \in answers : a.state \in CharacterPostsState

NoPosts == [i \in {} |-> <<>>]
Init ==
  /\ server = [c \in Characters |-> [posts |-> NoPosts, revision |-> 0, auto |-> FALSE]]
  /\ card = [c \in Characters |-> NoPosts]
  /\ activeId = None /\ posts = NoPosts /\ revision = 0 /\ auto = FALSE
  /\ queue = <<>> /\ running = None /\ answers = {} /\ drafts = {} /\ loading = FALSE
  /\ nextId = 1 /\ asked = 0 /\ done = 0 /\ removed = {}

-----------------------------------------------------------------------------
(* manualPost and followerPostFromText; savePostEdit and toggleLike; deletePost;       *)
(* appendUserComment and appendGeneratedComment; deleteComment, which goes by index.   *)
Without(list, S) == [p \in DOMAIN list \ S |-> list[p]]
Apply(m, list) ==
  CASE m.kind = "add" -> [p \in DOMAIN list \cup {m.id} |-> IF p = m.id THEN <<>> ELSE list[p]]
    [] m.kind = "edit" -> list
    [] m.kind = "delete" -> Without(list, {m.id})
    [] m.kind = "comment" -> [p \in DOMAIN list |-> IF p = m.of THEN Append(list[p], m.id) ELSE list[p]]
    [] m.kind = "uncomment" ->
         [p \in DOMAIN list |-> IF p = m.of /\ m.id \in DOMAIN list[p] THEN RemoveAt(list[p], m.id) ELSE list[p]]
Removes(m, list) == ItemsOf(list) \ ItemsOf(Apply(m, list))

(* CharacterPostsRepository.save: only the current revision is replaced. *)
Accepts(c, rev) == server[c].revision = rev /\ rev < MaxRevision
Stored(c, list) == [server[c] EXCEPT !.posts = list, !.revision = @ + 1]

(* applyServerState *)
Take(state) ==
  /\ posts' = state.posts /\ revision' = state.revision /\ auto' = state.auto
  /\ UNCHANGED activeId

-----------------------------------------------------------------------------
(* mutatePosts *)
Enqueue(c, m) ==
  /\ asked < MaxChanges
  /\ asked' = asked + 1
  /\ queue' = Append(queue, [for |-> c, mutation |-> m])
New(kind, of) == [kind |-> kind, id |-> nextId, of |-> of, meant |-> nextId]
Additions(list) ==
  IF nextId > MaxItems THEN {} ELSE {New("add", 0)} \cup {New("comment", p) : p \in DOMAIN list}
Changes(list) ==
  {[kind |-> k, id |-> p, of |-> 0, meant |-> p] : k \in {"edit", "delete"}, p \in DOMAIN list}
  \cup UNION {{[kind |-> "uncomment", id |-> n, of |-> p, meant |-> list[p][n]] : n \in DOMAIN list[p]} : p \in DOMAIN list}
Ask ==
  /\ activeId # None
  /\ \E m \in Additions(posts) \cup Changes(posts) :
       /\ Enqueue(activeId, m)
       /\ nextId' = IF m.kind \in {"add", "comment"} THEN nextId + 1 ELSE nextId
  /\ UNCHANGED <<server, card, clientVars, running, answers, drafts, loading, done, removed>>

(* persistMutation, up to the answer of the server: the list is saved, another revision is   *)
(* found, or the request or its answer is lost.                                              *)
Sent(c, list, rev) ==
  \/ /\ Accepts(c, rev)
     /\ server' = [server EXCEPT ![c] = Stored(c, list)]
     /\ running' \in {[change |-> Head(queue), stage |-> s, state |-> Stored(c, list)] : s \in {"saved", "failed"}}
  \/ /\ server[c].revision # rev
     /\ running' = [change |-> Head(queue), stage |-> "conflict", state |-> server[c]]
     /\ UNCHANGED server
  \/ /\ running' = [change |-> Head(queue), stage |-> "failed", state |-> server[c]]
     /\ UNCHANGED server
Persist ==
  LET change == Head(queue)
      list == Apply(change.mutation, posts)
  IN  /\ running = None /\ queue # <<>>
      /\ posts' = list
      /\ removed' = removed \cup Removes(change.mutation, posts)
      /\ Sent(change.for, list, revision)
      /\ queue' = Tail(queue)
      /\ UNCHANGED <<card, activeId, revision, auto, answers, drafts, loading, nextId, asked, done>>

Finished == running' = None /\ done' = done + 1
Rejected == running' = [running EXCEPT !.stage = "rejected"] /\ UNCHANGED done   \* mutant: a failure ends the queue
GivenUp == running' = None /\ done' = done + 1    \* the error is caught, the queue goes on

Saved ==
  /\ running # None /\ running.stage \in {"saved", "refreshed"}
  /\ Take(running.state)
  /\ Finished
  /\ UNCHANGED <<server, card, queue, answers, drafts, loading, nextId, asked, removed>>

(* retryMutation: the latest list is read ... *)
ReadLatest ==
  /\ running # None /\ running.stage = "conflict"
  /\ \/ running' = [running EXCEPT !.stage = "read", !.state = server[running.change.for]] /\ UNCHANGED done
     \/ GivenUp
  /\ UNCHANGED <<server, card, clientVars, queue, answers, drafts, loading, nextId, asked, removed>>

(* ... and the change applied to it and saved, once. *)
RetryOwnList == [running.state EXCEPT !.posts = posts]    \* mutant: the list that is shown is saved again
RetrySource == running.state
Retry ==
  LET c == running.change.for
      list == Apply(running.change.mutation, RetrySource.posts)
  IN  /\ running # None /\ running.stage = "read"
      /\ removed' = removed \cup Removes(running.change.mutation, RetrySource.posts)
      /\ \/ /\ Accepts(c, RetrySource.revision)
            /\ server' = [server EXCEPT ![c] = Stored(c, list)]
            /\ \/ running' = [running EXCEPT !.stage = "saved", !.state = Stored(c, list)] /\ UNCHANGED done
               \/ GivenUp
         \/ GivenUp /\ UNCHANGED server
      /\ UNCHANGED <<card, clientVars, queue, answers, drafts, loading, nextId, asked>>

(* Another error: the list is read again, and the change is left as the server has it. *)
Reread ==
  /\ running # None /\ running.stage = "failed"
  /\ \/ running' = [running EXCEPT !.stage = "refreshed", !.state = server[running.change.for]] /\ UNCHANGED done
     \/ GivenUp
  /\ UNCHANGED <<server, card, clientVars, queue, answers, drafts, loading, nextId, asked, removed>>

-----------------------------------------------------------------------------
(* A request that does not wait for others is answered, at any later time. *)
Reply(state, generated) ==
  /\ Cardinality(answers) < MaxAnswers
  /\ answers' = answers \cup {[state |-> state, generated |-> generated]}

(* refreshPosts on entering the feed, every 30 seconds, and when the page becomes visible. *)
Refresh ==
  /\ activeId # None
  /\ Reply(server[activeId], FALSE)
  /\ UNCHANGED <<server, card, clientVars, queue, running, drafts, loading, nextId, asked, done, removed>>

(* setAuto and setAutoInterval *)
SetAuto(enabled) ==
  /\ activeId # None
  /\ server' = [server EXCEPT ![activeId].auto = enabled]
  /\ Reply(server'[activeId], FALSE)
  /\ UNCHANGED <<card, clientVars, queue, running, drafts, loading, nextId, asked, done, removed>>

(* An answer is taken, whatever is shown by then. *)
Answer(a) ==
  /\ a \in answers
  /\ answers' = answers \ {a}
  /\ Take(a.state)
  /\ loading' = (loading /\ ~ a.generated)
  /\ UNCHANGED <<server, card, queue, running, drafts, nextId, asked, done, removed>>

(* generatePost, followerPost and addCommentFrom: a text is generated for the character that *)
(* is shown now.  loadingRef admits one post at a time.                                      *)
Draft(kind, p) ==
  /\ activeId # None /\ drafts = {}
  /\ IF kind = "comment" THEN p \in DOMAIN posts ELSE p = 0 /\ ~ loading
  /\ loading' = (loading \/ kind # "comment")
  /\ drafts' = {[for |-> activeId, kind |-> kind, of |-> p]}
  /\ UNCHANGED <<server, card, clientVars, queue, running, answers, nextId, asked, done, removed>>

(* There is no text, the change is asked for, or the server has written the post. *)
NoText(d) == loading' = (loading /\ d.kind = "comment") /\ UNCHANGED <<server, answers, queue, nextId, asked>>
Drafted(d) ==
  /\ d.kind # "server" /\ nextId <= MaxItems
  /\ nextId' = nextId + 1
  /\ Enqueue(d.for, New(IF d.kind = "post" THEN "add" ELSE "comment", d.of))
  /\ loading' = (loading /\ d.kind = "comment")
  /\ UNCHANGED <<server, answers>>
Written(c) == [server[c] EXCEPT !.posts = Apply(New("add", 0), @), !.revision = @ + 1]
Generated(d) ==
  /\ d.kind = "server" /\ nextId <= MaxItems /\ server[d.for].revision < MaxRevision
  /\ nextId' = nextId + 1
  /\ server' = [server EXCEPT ![d.for] = Written(d.for)]
  /\ \/ Reply(server'[d.for], TRUE) /\ UNCHANGED loading
     \/ loading' = FALSE /\ UNCHANGED answers
  /\ UNCHANGED <<queue, asked>>
DraftDone(d) ==
  /\ d \in drafts
  /\ drafts' = {}
  /\ NoText(d) \/ Drafted(d) \/ Generated(d)
  /\ UNCHANGED <<card, clientVars, running, done, removed>>

(* switchAccount and goHome: the shown list goes to its card, that of the other is loaded.  *)
Switch(c) ==
  LET cards == IF activeId = None THEN card ELSE [card EXCEPT ![activeId] = posts]
  IN  /\ c # activeId
      /\ card' = cards
      /\ activeId' = c
      /\ posts' = cards[c]
      /\ UNCHANGED <<server, revision, auto, queue, running, answers, drafts, loading, nextId, asked, done, removed>>

(* Another device, a visitor or the scheduler writes. *)
Elsewhere(c) ==
  /\ server[c].revision < MaxRevision
  /\ \E m \in Additions(server[c].posts) \cup Changes(server[c].posts) :
       /\ server' = [server EXCEPT ![c] = Stored(c, Apply(m, server[c].posts))]
       /\ removed' = removed \cup Removes(m, server[c].posts)
       /\ nextId' = IF m.kind \in {"add", "comment"} THEN nextId + 1 ELSE nextId
  /\ UNCHANGED <<card, clientVars, queue, running, answers, drafts, loading, asked, done>>

Mutations == Persist \/ Saved \/ ReadLatest \/ Retry \/ Reread
Next ==
  \/ Ask \/ Mutations \/ Refresh
  \/ \E enabled \in BOOLEAN : SetAuto(enabled)
  \/ \E a \in answers : Answer(a)
  \/ \E kind \in {"server", "post", "comment"}, p \in Ids \cup {0} : Draft(kind, p)
  \/ \E d \in drafts : DraftDone(d)
  \/ \E c \in Characters : Switch(c) \/ Elsewhere(c)

Spec == Init /\ [][Next]_vars

-----------------------------------------------------------------------------
(* What the server has of a character only disappears when a change removes it: no save      *)
(* replaces a list the client has not seen.                                                  *)
LosesNothing ==
  \A c \in Characters : ItemsOf(server[c].posts) \ ItemsOf(server'[c].posts) \subseteq removed'
NothingLost == [][LosesNothing]_vars

(* A change removes what the user pointed at, at once or when it is applied once more.  Not so *)
(* with three items: a comment is removed by its place, where another one may stand by then.   *)
Meant(change) == IF change.mutation.kind = "uncomment" THEN {change.mutation.meant} ELSE Ids
RemovesMeant ==
  [][/\ Persist => removed' \ removed \subseteq Meant(Head(queue))
     /\ Retry => removed' \ removed \subseteq Meant(running.change)]_vars

-----------------------------------------------------------------------------
FairSpec == Spec /\ WF_vars(Mutations)

(* Every change is decided: one that fails does not hold up those behind it. *)
ChangesDecided == \A n \in 1..MaxChanges : asked >= n ~> done >= n
=============================================================================
