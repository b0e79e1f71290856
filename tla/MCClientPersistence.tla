------------------------ MODULE MCClientPersistence ------------------------
(***************************************************************************)
(* Values of the constants of ClientPersistence for TLC: two users who     *)
(* share a device and use rooms.  Five more environments of the same       *)
(* client: "handed", where one user's save is on its way when another      *)
(* signs in, and four with one user: one who edits while requests fail,    *)
(* one who signs in without leaving the page while questions fail, one     *)
(* whose answers are slow, and one whom everything else may happen to.     *)
(* Two parts are the DM rooms of ClientRooms: "rooms" with saves and       *)
(* reloads, "auto" with automatic conversations.                           *)
(***************************************************************************)
EXTENDS ClientRooms

CONSTANTS alice, bob, none

VARIABLE part

dmVars == <<step, peer, speakAs, pendingDm, dmThreads, deletedDmKeys, dmSending, dmRequestSeq,
            requests, autoChat, loops, started, stored>>
mcVars == <<part, vars, dmVars>>

Handed == INSTANCE ClientPersistence WITH Faults <- {"in_place"}
Alone == INSTANCE ClientPersistence WITH
  Users <- {alice}, MaxEdits <- 2, Faults <- {"failure"}
InPlace == INSTANCE ClientPersistence WITH
  Users <- {alice}, MaxEdits <- 0, Faults <- {"failure", "in_place"}
Slow == INSTANCE ClientPersistence WITH
  Users <- {alice}, MaxEdits <- 0, Faults <- {"failure", "slow", "overlap"}
Eventful == INSTANCE ClientPersistence WITH
  Users <- {alice}, MaxEdits <- 0, Faults <- Hazards \ {"slow", "overlap", "in_place"}

MCInit ==
  /\ \/ part \in {"shared", "rooms", "auto"} /\ Init /\ cookie # bob
     \/ part = "handed" /\ Handed!Init /\ cookie # bob
     \/ part = "alone" /\ Alone!Init
     \/ part = "in_place" /\ InPlace!Init
     \/ part = "slow" /\ Slow!Init
     \/ part = "eventful" /\ Eventful!Init
  /\ part \in {"rooms", "auto"} => cookie = None
  /\ Dm!Init
(* A save outlives its user's session in "handed" only, and there once.  What is refused of it *)
(* has been refused when the other signs in: it would be refused after that just as well.      *)
SigningIn == cookie = None /\ cookie' # None
NothingLeft == SigningIn => saves = <<>>
HandedOnce ==
  SigningIn => spilled = {} /\ \A i \in DOMAIN saves' : saves'[i].served /\ saves'[i].of # cookie'
StateNext ==
  \/ part = "shared" /\ Next /\ NothingLeft
  \/ part = "handed" /\ Handed!Next /\ HandedOnce
  \/ part = "alone" /\ Alone!Next
  \/ part = "in_place" /\ InPlace!Next
  \/ part = "slow" /\ Slow!Next
  \/ part = "eventful" /\ Eventful!Next
(* Saved are two rooms at a time of the three that have no id of their own; automatic *)
(* conversations are in one that is not the owner's, with one message and no change of speaker. *)
TwoRooms ==
  /\ Cardinality(DOMAIN dmThreads' \cup DOMAIN stored.rows') <= 2
  /\ \A k \in DOMAIN dmThreads' : k[1] # "local"
OneRoom ==
  /\ Cardinality(DOMAIN dmThreads') <= 1 /\ speakAs' = "char"
  /\ dmRequestSeq = 0 \/ requests' \subseteq requests
DmNext ==
  \/ /\ part = "rooms"
     /\ Dm!Enter \/ Dm!Talk \/ Dm!Delete \/ Dm!Save \/ Dm!Reload
     /\ TwoRooms
  \/ /\ part = "auto"
     /\ Dm!Enter \/ Dm!Talk \/ Dm!AutoTalk \/ Dm!Delete
     /\ OneRoom
MCNext ==
  \/ StateNext /\ UNCHANGED <<part, dmVars>>
  \/ DmNext /\ UNCHANGED <<part, vars>>
MCSpec == MCInit /\ [][MCNext]_mcVars

(* The fairness of each part is that of its instance. *)
OfState(shared, handed, alone, inPlace, slow, eventful) ==
  /\ \/ part = "shared" /\ shared
     \/ part = "handed" /\ handed
     \/ part = "alone" /\ alone
     \/ part = "in_place" /\ inPlace
     \/ part = "slow" /\ slow
     \/ part = "eventful" /\ eventful
  /\ UNCHANGED <<part, dmVars>>
OfRooms(A) == part \in {"rooms", "auto"} /\ A /\ UNCHANGED <<part, vars>>
MCFairness ==
  /\ WF_mcVars(\/ OfState(AnswerQuery, Handed!AnswerQuery, Alone!AnswerQuery, InPlace!AnswerQuery,
                          Slow!AnswerQuery, Eventful!AnswerQuery)
               \/ OfRooms(Dm!Answers))
  /\ WF_mcVars(OfState(Serve, Handed!Serve, Alone!Serve, InPlace!Serve, Slow!Serve, Eventful!Serve))
  /\ WF_mcVars(OfState(Timers, Handed!Timers, Alone!Timers, InPlace!Timers, Slow!Timers, Eventful!Timers))
  /\ WF_mcVars(OfState(ServeLoad, Handed!ServeLoad, Alone!ServeLoad, InPlace!ServeLoad,
                       Slow!ServeLoad, Eventful!ServeLoad))
  /\ WF_mcVars(OfState(LoadAnswered, Handed!LoadAnswered, Alone!LoadAnswered, InPlace!LoadAnswered,
                       Slow!LoadAnswered, Eventful!LoadAnswered))
MCFairSpec == MCSpec /\ MCFairness

TypesOK ==
  CASE part = "shared" -> TypeOK
    [] part = "handed" -> Handed!TypeOK
    [] part = "alone" -> Alone!TypeOK
    [] part = "in_place" -> InPlace!TypeOK
    [] part = "slow" -> Slow!TypeOK
    [] part = "eventful" -> Eventful!TypeOK
    [] part \in {"rooms", "auto"} -> Dm!TypeOK

(* RowsNewest without the browser's copy, and a deleted room stays deleted. *)
OnlyNewer == [][part = "alone" => Alone!Newer]_vars /\ Dm!DeletedStays
(* Loading ends unless its last question was rejected, and waiting for a reply unless its room *)
(* was left for another speaker's.                                                             *)
WaitingEnds ==
  /\ part \in {"shared", "handed", "alone", "in_place"} => LoadingEnds
  /\ part = "slow" => Slow!LoadingEnds
  /\ part = "eventful" => Eventful!LoadingEnds
  /\ Dm!SendingEnds

(* RowsNewest where the browser keeps a copy. *)
NewerThanCopy == [][part = "shared" => Newer]_vars
=============================================================================
