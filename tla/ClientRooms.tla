----------------------------- MODULE ClientRooms -----------------------------
(***************************************************************************)
(* A client's state beside the DM rooms of a character it shows: two parts *)
(* of one client that share nothing that changes.                          *)
(***************************************************************************)
EXTENDS ClientPersistence

CONSTANTS Names, RoomIds, Turns, MaxSends, MaxLoops

VARIABLES step, peer, speakAs, pendingDm, dmThreads, deletedDmKeys, dmSending, dmRequestSeq,
  requests, autoChat, loops, started, stored

Dm == INSTANCE DirectMessages

ASSUME RoomAssumption == None \notin Dm!Rooms \cup Dm!DmPeer /\ Turns \in Nat /\ MaxLoops \in Nat

(* Replies stand after the message they answer, and rooms are shown as they were saved *)
(* (useAliveDmGeneration.ts, useAliveAutosave.ts).                                     *)
RoomsTrue == Dm!RoomsTrue
=============================================================================
