--------------------------- MODULE DirectMessages ---------------------------
(***************************************************************************)
(* The DM rooms of a character: entering and leaving them, a message and   *)
(* its generated reply, conversations the characters carry on by           *)
(* themselves, deletion, and what a save and a reload make of it all.      *)
(*                                                                         *)
(* A room is the private one with the owner, a shared one of two names, or *)
(* one of its own id.  The room on the screen follows from the peer and    *)
(* from who speaks (dmKeyFor).  A click acts on what the last change has   *)
(* rendered, and the effects of a click run with it.                       *)
(***************************************************************************)
EXTENDS Naturals, Sequences, FiniteSets

CONSTANTS
  Names, None,    \* characters to talk to
  RoomIds,        \* bound: rooms of their own id
  Turns,          \* lines of an automatic conversation (6 in the code)
  MaxSends,       \* bound: messages sent
  MaxLoops        \* bound: automatic conversations started

Speakers == {"char", "owner"}
OwnerRoom == <<"owner">>
SharedRoom(s, n) == <<"dm", s, n>>                        \* canonicalDmKey
LocalRoom(s, n, i) == <<"local", s, n, i>>                \* scopedLocalDmKey
Rooms ==
  {OwnerRoom} \cup {SharedRoom(s, n) : s \in Speakers, n \in Names}
    \cup {LocalRoom("char", n, i) : n \in Names, i \in RoomIds}
IsShared(k) == k[1] = "dm"

DmPeer == [asOwner : BOOLEAN, name : Names \cup {None}, dmKey : Rooms \cup {None}]
OwnerPeer == [asOwner |-> TRUE, name |-> None, dmKey |-> None]
PeerOf(n, k) == [asOwner |-> FALSE, name |-> n, dmKey |-> k]
DmMessage == [from : {"me", "peer", "auto"}, number : Nat, failed : BOOLEAN]
Message(f, n) == [from |-> f, number |-> n, failed |-> FALSE]
Request == [seq : Nat, key : Rooms]
Loop == [number : 1..MaxLoops, key : Rooms, turn : 0..Turns, at : {"line", "pause"}]
PendingDm == [name : Names, stage : {"world", "note", "chatKind"}]

VARIABLES
  step, peer, speakAs, pendingDm,
  dmThreads,               \* messages by room
  deletedDmKeys,
  dmSending, dmRequestSeq, \* dmSendingRef and the state that is shown, dmRequestSeqRef
  requests,                \* requests for a reply without an answer
  autoChat, loops,         \* autoChatRef; the loops of startAutoChat that still run
  started,                 \* automatic conversations ever started
  stored                   \* on the server: the rows of rooms, deletedDmKeys in the saved state

dmVars == <<step, peer, speakAs, pendingDm, dmThreads, deletedDmKeys, dmSending, dmRequestSeq,
            requests, autoChat, loops, started, stored>>

TypeOK ==
  /\ step \in {"dm", "dmlist"} /\ speakAs \in Speakers
  /\ peer \in DmPeer \cup {None} /\ pendingDm \in PendingDm \cup {None}
  /\ DOMAIN dmThreads \subseteq Rooms /\ \A k \in DOMAIN dmThreads : dmThreads[k] \in Seq(DmMessage)
  /\ DOMAIN stored.rows \subseteq Rooms /\ deletedDmKeys \subseteq Rooms /\ stored.deleted \subseteq Rooms
  /\ dmSending \in BOOLEAN /\ autoChat \in BOOLEAN /\ dmRequestSeq \in Nat
  /\ requests \subseteq Request /\ loops \subseteq Loop /\ started \in 0..MaxLoops
  /\ step = "dm" => peer # None
  /\ pendingDm # None => step = "dmlist"

Empty == [k \in {} |-> <<>>]
Init ==
  /\ step = "dmlist" /\ peer = None /\ speakAs = "char" /\ pendingDm = None
  /\ dmThreads = Empty /\ deletedDmKeys = {} /\ stored = [rows |-> Empty, deleted |-> {}]
  /\ dmSending = FALSE /\ dmRequestSeq = 0 /\ requests = {}
  /\ autoChat = FALSE /\ loops = {} /\ started = 0

-----------------------------------------------------------------------------
dmKeyFor(p, s) ==
  CASE p = None -> None
    [] p # None /\ p.asOwner -> OwnerRoom
    [] p # None /\ ~ p.asOwner /\ p.dmKey # None -> p.dmKey
    [] p # None /\ ~ p.asOwner /\ p.dmKey = None -> SharedRoom(s, p.name)
dmKey == dmKeyFor(peer, speakAs)            \* dmKeyRef

Messages(k) == IF k \in DOMAIN dmThreads THEN dmThreads[k] ELSE <<>>
WithMessages(k, ms) ==                      \* setDmThread; it creates a room that is not there
  [j \in DOMAIN dmThreads \cup {k} |-> IF j = k THEN ms ELSE dmThreads[j]]

(* A failed reply is dropped with the message before it. *)
AfterTurn(kept, m) == IF m.failed THEN SubSeq(kept, 1, Len(kept) - 1) ELSE Append(kept, m)
messagesWithoutFailedTurns(ms) ==
  LET kept[i \in 0..Len(ms)] == IF i = 0 THEN <<>> ELSE AfterTurn(kept[i - 1], ms[i])
  IN  kept[Len(ms)]

-----------------------------------------------------------------------------
enterDm(p, s) ==
  /\ step' = "dm" /\ peer' = p /\ speakAs' = s /\ pendingDm' = None
roomVars == <<dmThreads, deletedDmKeys, stored>>
replyVars == <<dmSending, dmRequestSeq, requests>>
loopVars == <<autoChat, loops, started>>

(* conversationBelongsToCharacter: a shared room in the owner's own name is in no list. *)
Listed == {OwnerRoom} \cup {k \in DOMAIN dmThreads \ {OwnerRoom} : k[2] = "char"}

(* requestDmEntry, from the list of rooms or for a room that may be new. *)
OpenRoom(k) ==
  /\ step = "dmlist" /\ pendingDm = None /\ k \in Listed
  /\ IF k = OwnerRoom THEN enterDm(OwnerPeer, "owner") ELSE enterDm(PeerOf(k[3], k), "char")
  /\ UNCHANGED <<roomVars, replyVars, loopVars>>
requestDmEntry(n) ==
  /\ step = "dmlist" /\ pendingDm = None
  /\ pendingDm' = [name |-> n, stage |-> "world"]
  /\ UNCHANGED <<step, peer, speakAs, roomVars, replyVars, loopVars>>

chooseDmWorldMode(bridge) ==
  /\ pendingDm # None /\ pendingDm.stage = "world"
  /\ pendingDm' = [pendingDm EXCEPT !.stage = IF bridge THEN "chatKind" ELSE "note"]
  /\ UNCHANGED <<step, peer, speakAs, roomVars, replyVars, loopVars>>
finishDmWorldSetup ==
  /\ pendingDm # None /\ pendingDm.stage = "note"
  /\ pendingDm' = [pendingDm EXCEPT !.stage = "chatKind"]
  /\ UNCHANGED <<step, peer, speakAs, roomVars, replyVars, loopVars>>

cancelSetup ==
  /\ pendingDm # None /\ pendingDm' = None
  /\ UNCHANGED <<step, peer, speakAs, roomVars, replyVars, loopVars>>

(* nextRoomState: a shared room is opened again if it was deleted, a private one is new. *)
nextDeletedKeys(k) == deletedDmKeys \ {k}
finishDmChatKind ==
  /\ pendingDm # None /\ pendingDm.stage = "chatKind"
  /\ \E k \in {SharedRoom("char", pendingDm.name)}
              \cup {LocalRoom("char", pendingDm.name, i) : i \in RoomIds} :
       /\ ~ IsShared(k) => k \notin DOMAIN dmThreads \cup deletedDmKeys \cup DOMAIN stored.rows
       /\ dmThreads' = WithMessages(k, Messages(k))
       /\ deletedDmKeys' = nextDeletedKeys(k)
       /\ enterDm(PeerOf(pendingDm.name, IF IsShared(k) THEN None ELSE k), "char")
  /\ UNCHANGED <<stored, replyVars, loopVars>>

(* The chips of who speaks: in a shared room that was just opened they change the room. *)
setSpeakAs(s) ==
  /\ step = "dm" /\ ~ peer.asOwner /\ s # speakAs
  /\ speakAs' = s
  /\ UNCHANGED <<step, peer, pendingDm, roomVars, replyVars, loopVars>>

(* Back to the list; the effect of leaving lets go of the request.  The number is counted up *)
(* here only when a request has it.                                                           *)
LetGo == dmSending' = FALSE /\ dmRequestSeq' = dmRequestSeq + Cardinality({r \in requests : r.seq = dmRequestSeq})
Leave ==
  /\ step = "dm" /\ step' = "dmlist"
  /\ LetGo
  /\ UNCHANGED <<peer, speakAs, pendingDm, requests, roomVars, loopVars>>

-----------------------------------------------------------------------------
(* sendDM: it stops an automatic conversation. *)
StopAuto == autoChat' = FALSE
sendDM ==
  /\ step = "dm" /\ ~ dmSending /\ dmRequestSeq < MaxSends
  /\ dmRequestSeq' = dmRequestSeq + 1
  /\ dmSending' = TRUE
  /\ StopAuto
  /\ dmThreads' = WithMessages(dmKey, Append(messagesWithoutFailedTurns(Messages(dmKey)),
                                             Message("me", dmRequestSeq + 1)))
  /\ requests' = requests \cup {[seq |-> dmRequestSeq + 1, key |-> dmKey]}
  /\ UNCHANGED <<step, peer, speakAs, pendingDm, deletedDmKeys, stored, loops, started>>

KeyOnly(r) == r.key = dmKey                \* mutant: an older request of the room is still heard
AnyReply(r) == TRUE                        \* mutant: whatever is on the screen
IsCurrent(r) == r.seq = dmRequestSeq /\ r.key = dmKey

BusyAfterFailure(failed) == failed         \* mutant: a failed request is never let go of
Sending(failed) == FALSE                   \* after the answer

(* The reply, an error, or the abort after 55 seconds. *)
Answer(r) ==
  /\ r \in requests
  /\ requests' = requests \ {r}
  /\ IF IsCurrent(r)
     THEN \E failed \in BOOLEAN :
               /\ dmThreads' = WithMessages(r.key, Append(Messages(r.key), [Message("peer", r.seq) EXCEPT !.failed = failed]))
               /\ dmSending' = Sending(failed)
     ELSE UNCHANGED <<dmThreads, dmSending>>
  /\ UNCHANGED <<step, peer, speakAs, pendingDm, deletedDmKeys, stored, dmRequestSeq, loopVars>>

(* The failed reply and its message go, the message's text is back in the input. *)
restoreFailedDmDraft(i) ==
  /\ step = "dm" /\ i \in DOMAIN Messages(dmKey) /\ i > 1
  /\ Messages(dmKey)[i].failed /\ Messages(dmKey)[i - 1].from = "me"
  /\ dmThreads' = WithMessages(dmKey, SubSeq(Messages(dmKey), 1, i - 2)
                                      \o SubSeq(Messages(dmKey), i + 1, Len(Messages(dmKey))))
  /\ UNCHANGED <<step, peer, speakAs, pendingDm, deletedDmKeys, stored, replyVars, loopVars>>

-----------------------------------------------------------------------------
(* startAutoChat: its loop writes to the room in which it was started. *)
startAutoChat ==
  /\ step = "dm" /\ ~ peer.asOwner /\ ~ autoChat /\ ~ dmSending /\ started < MaxLoops
  /\ autoChat' = TRUE
  /\ started' = started + 1
  /\ loops' = loops \cup {[number |-> started + 1, key |-> dmKey, turn |-> 0, at |-> "line"]}
  /\ IF \E i \in DOMAIN Messages(dmKey) : Messages(dmKey)[i].failed
     THEN dmThreads' = WithMessages(dmKey, messagesWithoutFailedTurns(Messages(dmKey)))
     ELSE UNCHANGED dmThreads
  /\ UNCHANGED <<step, peer, speakAs, pendingDm, deletedDmKeys, stored, replyVars>>

stopAutoChat ==
  /\ step = "dm" /\ autoChat /\ autoChat' = FALSE
  /\ UNCHANGED <<step, peer, speakAs, pendingDm, roomVars, replyVars, loops, started>>

(* The end of a loop switches automatic conversation off, whichever loop is on. *)
EndLoop(l) == loops' = loops \ {l} /\ autoChat' = FALSE
GoOn(l, m) == loops' = (loops \ {l}) \cup {m} /\ UNCHANGED autoChat

(* runAutoTurn: the line is generated, then there is a pause.  Without a line, or when a     *)
(* proposal is open after it, the loop ends.                                                 *)
AutoLine(l) ==
  /\ l \in loops /\ l.at = "line"
  /\ \/ EndLoop(l) /\ UNCHANGED dmThreads
     \/ /\ autoChat
        /\ dmThreads' = WithMessages(l.key, Append(Messages(l.key), Message("auto", l.number)))
        /\ EndLoop(l) \/ GoOn(l, [l EXCEPT !.at = "pause"])
  /\ UNCHANGED <<step, peer, speakAs, pendingDm, deletedDmKeys, stored, replyVars, started>>
AutoPause(l) ==
  /\ l \in loops /\ l.at = "pause"
  /\ IF autoChat /\ l.turn + 1 < Turns
     THEN GoOn(l, [l EXCEPT !.at = "line", !.turn = @ + 1])
     ELSE EndLoop(l)
  /\ UNCHANGED <<step, peer, speakAs, pendingDm, roomVars, replyVars, started>>

-----------------------------------------------------------------------------
(* structuredRows: rooms that are not deleted are written, deleted ones are marked in their  *)
(* row or, when shared, have lost it already.                                                *)
Marked == deletedDmKeys
SavedRows ==
  [k \in (DOMAIN stored.rows \cup (DOMAIN dmThreads \ deletedDmKeys)) \ Marked |->
     IF k \in DOMAIN dmThreads THEN dmThreads[k] ELSE stored.rows[k]]
SaveRooms == stored' = [rows |-> SavedRows, deleted |-> deletedDmKeys]
Save ==
  /\ SaveRooms /\ stored' # stored
  /\ UNCHANGED <<step, peer, speakAs, pendingDm, dmThreads, deletedDmKeys, replyVars, loopVars>>

(* deleteDmThread, from the list. *)
deleteDmThread(k) ==
  /\ step = "dmlist" /\ pendingDm = None /\ k \in Listed \cap DOMAIN dmThreads
  /\ deletedDmKeys' = deletedDmKeys \cup {k}
  /\ dmThreads' = [j \in DOMAIN dmThreads \ {k} |-> dmThreads[j]]
  /\ peer' = IF dmKey = k THEN None ELSE peer
  /\ stored' = IF IsShared(k) THEN [stored EXCEPT !.rows = [j \in DOMAIN @ \ {k} |-> @[j]]] ELSE stored
  /\ UNCHANGED <<step, speakAs, pendingDm, replyVars, loopVars>>

(* replaceLoadedDmRows: rooms that are known to be deleted are not shown. *)
Loaded(s) == [k \in DOMAIN s.rows \ s.deleted |-> s.rows[k]]
Reload ==
  /\ dmThreads' = Loaded(stored) /\ deletedDmKeys' = stored.deleted
  /\ step' = "dmlist" /\ peer' = None /\ speakAs' = "char" /\ pendingDm' = None
  /\ dmSending' = FALSE /\ requests' = {} /\ autoChat' = FALSE /\ loops' = {}
  /\ UNCHANGED <<dmRequestSeq, started, stored>>

Enter ==
  \/ \E k \in Rooms : OpenRoom(k)
  \/ \E n \in Names : requestDmEntry(n)
  \/ \E b \in BOOLEAN : chooseDmWorldMode(b)
  \/ finishDmWorldSetup \/ finishDmChatKind \/ cancelSetup
Talk ==
  \/ Leave \/ (\E s \in Speakers : setSpeakAs(s))
  \/ sendDM \/ (\E r \in requests : Answer(r))
  \/ \E i \in DOMAIN Messages(dmKey) : restoreFailedDmDraft(i)
AutoTalk ==
  \/ startAutoChat \/ stopAutoChat
  \/ \E l \in loops : AutoLine(l) \/ AutoPause(l)
Delete == \E k \in Rooms : deleteDmThread(k)

Next == Enter \/ Talk \/ AutoTalk \/ Delete \/ Save \/ Reload

Answers == \E r \in requests : Answer(r)
Spec == Init /\ [][Next]_dmVars /\ WF_dmVars(Answers)

-----------------------------------------------------------------------------
(* A reply stands right after the message it answers: nothing that comes in between, in this *)
(* room or another one, gets into the turn.                                                  *)
RepliesFollow ==
  \A k \in DOMAIN dmThreads : \A i \in DOMAIN dmThreads[k] :
    dmThreads[k][i].from = "peer" =>
      i > 1 /\ dmThreads[k][i - 1] = Message("me", dmThreads[k][i].number)

(* What a reload after a save would show is what is shown, but for rooms that are deleted    *)
(* and written again: a deleted room does not come back, another one is not lost.            *)
Synced == stored = [rows |-> SavedRows, deleted |-> deletedDmKeys]
SavedIsLoaded ==
  Synced =>
    /\ DOMAIN Loaded(stored) = DOMAIN dmThreads \ deletedDmKeys
    /\ \A k \in DOMAIN Loaded(stored) : Loaded(stored)[k] = dmThreads[k]

RoomsTrue == RepliesFollow /\ SavedIsLoaded

(* A deleted room is there again only when the user writes in it or opens it, when an        *)
(* automatic conversation that was started in it still runs, or when the deletion was not    *)
(* saved before the page was closed.                                                          *)
DeletedStaysStep ==
  \A k \in deletedDmKeys \ DOMAIN dmThreads :
    k \in DOMAIN dmThreads' =>
      dmKey' = k \/ (\E l \in loops : l.key = k) \/ (Reload /\ k \notin stored.deleted)
DeletedStays == [][DeletedStaysStep]_dmVars

(* Whoever waits for a reply gets it or a failure, or leaves the room.  Only the reply that    *)
(* comes while the room of another speaker is on the screen is not heard: the input stays      *)
(* closed until the room is left.                                                              *)
Unheard == dmSending /\ ~ \E r \in requests : r.seq = dmRequestSeq
UnheardStep ==
  Unheard' => Unheard \/ \E r \in requests \ requests' : r.seq = dmRequestSeq /\ r.key # dmKey
SendingEnds == (dmSending ~> (~ dmSending \/ Unheard)) /\ [][UnheardStep]_dmVars
=============================================================================
