--------------------------- MODULE MCClientPosts ---------------------------
(***************************************************************************)
(* Values of the constants for TLC.  A character's own posts, the likes it *)
(* gives to others', and the search for others share nothing here: a       *)
(* behaviour runs one of the parts, the others keep their initial state.   *)
(* Discovery is three parts: the list and follows of a user that came      *)
(* without a link, of one that came by a link, and the modal of followers  *)
(* of two characters.                                                      *)
(***************************************************************************)
EXTENDS ClientPosts

CONSTANTS alice, bob, none, p1, Fans, Targets, AnswersLost, MaxUpdates, Own, FollowersOf, MaxAsked

ASSUME DiscoveryAssumption == IsFiniteSet(Targets) /\ FollowersOf \in [Own -> SUBSET Targets]

VARIABLES part, liked, likesOf, onFeed, state, pending, queries, updates, left,
          step, findId, activeSharedId, following, sharedCharacters, listLoading, sharedFocusId, publicProfile,
          followerCounts, followPanel, sharedFollowers, requests, findAsked, public, mine, others, disturbed, unheard

Likes == INSTANCE FollowedLikes WITH activeId <- likesOf, Characters <- Fans
Find == INSTANCE Discovery WITH activeId <- findId, loading <- listLoading, asked <- findAsked

likesVars == <<liked, likesOf, onFeed, state, pending, queries, updates, left>>
findVars == <<step, findId, activeSharedId, following, sharedCharacters, listLoading, sharedFocusId, publicProfile,
              followerCounts, followPanel, sharedFollowers, requests, findAsked, public, mine, others, disturbed,
              unheard>>
allVars == <<part, vars, likesVars, findVars>>

FollowersOfAlice == [c \in {alice, bob} |-> IF c = alice THEN {p1} ELSE {}]
Finds == {"found", "linked", "modal"}
(* After so many requests nothing more is asked for, and others change nothing. *)
Bound == [found |-> 4, linked |-> 3, modal |-> 5]
Asks == findAsked < Bound[part] \/ UNCHANGED <<findAsked, public, others>>

MCInit ==
  /\ part \in {"own", "likes"} \cup Finds
  /\ Init /\ Likes!Init /\ Find!Init
  /\ part # "likes" => liked = [c \in Fans |-> [k \in Targets |-> FALSE]]
  /\ part # "modal" => findId = alice
  /\ (sharedFocusId # None) = (part = "linked") /\ (part \notin Finds => step = "home")

MCNext ==
  \/ part = "own" /\ Next /\ UNCHANGED <<part, likesVars, findVars>>
  \/ part = "likes" /\ Likes!Next /\ UNCHANGED <<part, vars, findVars>>
  \/ /\ part \in {"found", "linked"} /\ (Find!Answered \/ (Find!Finding /\ Asks))
     /\ UNCHANGED <<part, vars, likesVars>>
  \/ /\ part = "modal" /\ (Find!Answered \/ (Find!Showing /\ Asks))
     /\ UNCHANGED <<part, vars, likesVars>>
(* The user may do nothing more. *)
Stops == part \in Finds /\ UNCHANGED allVars

OwnMutations == part = "own" /\ Mutations /\ UNCHANGED <<part, likesVars, findVars>>

MCSpec == MCInit /\ [][MCNext \/ Stops]_allVars
MCFairSpec == MCSpec /\ WF_allVars(OwnMutations)

TypesOK == TypeOK /\ Likes!TypeOK /\ Find!TypeOK
(* Likes on the screen: an answer changes those of its own character only, and a change that *)
(* waits stays on the screen until an answer to a change of that like by that character,     *)
(* which is its own if the character was not left with an earlier one on its way.            *)
LikesShown == Likes!LikesShown
(* When the answers are in, the screens show what the server has: the likes of the character *)
(* shown, the characters that can be found and their numbers of followers, the followers of  *)
(* the character whose modal is open.                                                        *)
AnswersSettle == Likes!LikesSettle /\ Find!ListSettles /\ Find!CountsSettle /\ Find!FollowersSettle
=============================================================================
