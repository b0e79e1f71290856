---------------------------- MODULE Relationships ---------------------------
(***************************************************************************)
(* What characters feel for each other.  For each direction of a pair      *)
(* there is a label in the text of a character's relations and an affinity *)
(* from -100 to 100 that conversations move.  The label follows the        *)
(* affinity in part and gives it its base in part.  When the character     *)
(* that is shown grows fond of another one, a request words a proposal;    *)
(* the user approves or declines it and a second request judges the        *)
(* answer of the other one.  After every change of an affinity an effect   *)
(* adjusts all labels.  Rooms with strangers keep affinities of their own. *)
(*                                                                         *)
(* Labels are grouped by what the rules tell apart: hurt stands for the    *)
(* four negative ones.  A name matches one character.                      *)
(***************************************************************************)
EXTENDS Integers, FiniteSetsExt

CONSTANTS
  People, None,
  Viewer,         \* the character that is shown
  Own,            \* those with an account of this user
  Quarters,       \* warmthRate: quarters of a point kept of each point
  Deltas,         \* what an analysis of a conversation may say
  ManualValues,   \* what the user may set
  FirstLabels,    \* relations the characters were written with
  MaxChanges      \* bound: changes of affinities

VARIABLES
  label,          \* by direction; "none" when the relations do not mention the other
  affinity,       \* by direction; None when it was never stored
  remainder,      \* affinityRemainderRef, in quarters
  proposing,      \* proposingRef
  generating,     \* proposals that are being worded
  proposal,       \* the proposal on the screen
  judging,        \* approved proposals whose answer is being judged
  cooldown,       \* proposalCooldownRef
  effect,         \* the effect on affinity has not run yet
  roomBase, room, \* affinityBase and affinity of a room
  changes,
  decided         \* history: labels by the last decision, until something else changes the pair

relationVars == <<label, affinity, remainder, proposing, generating, proposal, judging, cooldown, effect,
                  roomBase, room, changes, decided>>
proposalVars == <<proposing, generating, proposal, judging, cooldown>>

Labels == {"none", "known", "interest", "liking", "hurt", "friend", "crush", "one-sided", "lovers", "engaged", "married"}
Negative == {"hurt"}
Moving == {"known", "interest", "liking", "hurt"}       \* labels that only reflect an affinity
Lasting == {"lovers", "engaged", "married"}                   \* SYMMETRIC_RELATION_BASE
Romance == {"crush", "one-sided"} \cup Lasting
Values == -100..100
Pairs == {p \in People \X People : p[1] # p[2]}
Back(p) == <<p[2], p[1]>>
dirKeys(p) == {p, Back(p)}
Clamp(v) == IF v > 100 THEN 100 ELSE IF v < -100 THEN -100 ELSE v
PROPOSAL_THRESHOLD == 60

TypeOK ==
  /\ label \in [Pairs -> Labels] /\ affinity \in [Pairs -> Values \cup {None}]
  /\ remainder \in [Pairs -> 0..3]
  /\ proposing \in BOOLEAN /\ generating \subseteq Pairs /\ proposal \in Pairs \cup {None}
  /\ judging \subseteq [pair : Pairs, back : Values]
  /\ cooldown \subseteq Pairs /\ effect \in BOOLEAN
  /\ roomBase \in [Pairs -> Values \cup {None}] /\ room \in [Pairs -> Values \cup {None}]
  /\ changes \in 0..MaxChanges /\ decided \in [Pairs -> Labels \cup {None}]

Init ==
  /\ label \in [Pairs -> FirstLabels]
  /\ affinity = [p \in Pairs |-> None] /\ remainder = [p \in Pairs |-> 0]
  /\ proposing = FALSE /\ generating = {} /\ proposal = None /\ judging = {} /\ cooldown = {}
  /\ effect = TRUE
  /\ roomBase = [p \in Pairs |-> None] /\ room = [p \in Pairs |-> None]
  /\ changes = 0 /\ decided = [p \in Pairs |-> None]

-----------------------------------------------------------------------------
(* Labels and bases. *)

BaseFromLabel(l) ==
  CASE l \in {"lovers", "married"} -> 100 [] l = "engaged" -> 92 [] l \in {"one-sided", "crush", "liking"} -> 65
    [] l = "friend" -> 45 [] l = "known" -> 20 [] OTHER -> None
(* The base of one's own label, or that of the other's when it holds for both. *)
relationBaseFromDirect(p) == BaseFromLabel(label[p])
relationBaseFromReverse(p) == IF label[Back(p)] \in Lasting THEN BaseFromLabel(label[Back(p)]) ELSE None
relationBaseFor(p) ==
  IF relationBaseFromDirect(p) # None THEN relationBaseFromDirect(p) ELSE relationBaseFromReverse(p)
relLabelFor(p) ==
  IF label[p] # "none" THEN label[p] ELSE IF label[Back(p)] \in Lasting THEN label[Back(p)] ELSE "none"
OrZero(v) == IF v = None THEN 0 ELSE v
affOf(p) == IF affinity[p] # None THEN affinity[p] ELSE OrZero(relationBaseFor(p))
BaseIgnored(stored, base) == IF stored = None THEN OrZero(base) ELSE stored   \* mutant: a love has no floor
affinityWithBase(stored, base) ==
  IF stored = None THEN OrZero(base)
  ELSE IF base # None /\ OrZero(base) >= 90 /\ stored >= 0 /\ stored < base THEN base ELSE stored

positiveRelationLabel(v) == IF v >= 35 THEN "liking" ELSE IF v >= 15 THEN "interest" ELSE "known"
relationLabelFromAffinity(v, current) ==
  CASE current \in Romance /\ v >= 35 -> current
    [] v < 0 -> "hurt"
    [] v >= 0 /\ current \in Negative \cup {"none"} -> positiveRelationLabel(v)
    [] OTHER -> current
normalizedRelationLabelFor(p) ==
  IF label[p] \in Moving /\ affOf(p) >= 35 /\ relLabelFor(Back(p)) \in Lasting THEN relLabelFor(Back(p))
  ELSE relationLabelFromAffinity(affOf(p), label[p])
(* Only what the relations mention is adjusted. *)
Normalized == [p \in Pairs |-> IF label[p] = "none" THEN "none" ELSE normalizedRelationLabelFor(p)]

Changed(ps) == decided' = [p \in Pairs |-> IF ps \cap dirKeys(p) # {} THEN None ELSE decided[p]]
RunEffect ==
  /\ effect /\ effect' = FALSE
  /\ label' = Normalized
  /\ UNCHANGED <<affinity, remainder, proposalVars, roomBase, room, changes, decided>>

-----------------------------------------------------------------------------
(* Affinities. *)

(* Points by the warmth of who feels them: whole points are rounded, quarters are kept for later. *)
Adjusted(p, amount) ==
  LET scaled == amount * Quarters[p[1]] total == remainder[p] + scaled IN
  CASE amount <= 0 -> <<amount, remainder[p]>>
    [] amount > 0 /\ scaled >= 4 -> <<(scaled + 2) \div 4, remainder[p]>>
    [] OTHER -> <<total \div 4, total % 4>>

CrossesThreshold(p, before, after) ==
  /\ p[1] = Viewer /\ before < PROPOSAL_THRESHOLD /\ after >= PROPOSAL_THRESHOLD
  /\ p \notin cooldown /\ ~ proposing

nextAffinity(p, points) == Clamp(affinityWithBase(affinity[p], relationBaseFor(p)) + points)
WithLabel(p, l) == [label EXCEPT ![p] = l]
setRelationLabelFor(p, l) == label' = IF l = relLabelFor(p) THEN label ELSE WithLabel(p, l)

bumpAffinity(p, amount) ==
  LET points == Adjusted(p, amount)[1]
      before == affinityWithBase(affinity[p], relationBaseFor(p))
      after == nextAffinity(p, points)
      ignored == amount > 0 /\ points <= 0
      asks == ~ ignored /\ CrossesThreshold(p, before, after)
  IN
  /\ changes < MaxChanges /\ changes' = changes + 1
  /\ remainder' = [remainder EXCEPT ![p] = Adjusted(p, amount)[2]]
  /\ affinity' = IF ignored THEN affinity ELSE [affinity EXCEPT ![p] = after]
  /\ setRelationLabelFor(p, IF ignored THEN relLabelFor(p)
                            ELSE relationLabelFromAffinity(after, relLabelFor(p)))
  /\ proposing' = (proposing \/ asks)
  /\ generating' = IF asks THEN generating \cup {p} ELSE generating
  /\ effect' = (effect \/ ~ ignored)
  /\ Changed({p})
  /\ UNCHANGED <<proposal, judging, cooldown, roomBase, room>>

setAffinityManual(p, v) ==
  /\ changes < MaxChanges /\ changes' = changes + 1
  /\ affinity' = [affinity EXCEPT ![p] = v]
  /\ setRelationLabelFor(p, relationLabelFromAffinity(v, relLabelFor(p)))
  /\ effect' = TRUE /\ Changed({p})
  /\ UNCHANGED <<remainder, proposalVars, roomBase, room>>

(* Both directions are forgotten: with a deleted relation its labels, with a deleted room its *)
(* proposals too.                                                                             *)
Forget(p) == affinity' = [q \in Pairs |-> IF q \in dirKeys(p) THEN None ELSE affinity[q]]
withoutTargetRelation(p) == [q \in Pairs |-> IF q \in dirKeys(p) THEN "none" ELSE label[q]]
deleteRelationAt(p) ==
  /\ p[1] = Viewer /\ label[p] # "none" /\ changes < MaxChanges /\ changes' = changes + 1
  /\ label' = withoutTargetRelation(p)
  /\ Forget(p) /\ effect' = TRUE /\ Changed({p})
  /\ UNCHANGED <<remainder, proposalVars, roomBase, room>>
resetRelationLabel(q) == IF relLabelFor(q) \in Moving THEN "known" ELSE label[q]
resetDmAffinity(p) ==
  /\ changes < MaxChanges /\ changes' = changes + 1
  /\ Forget(p) /\ effect' = TRUE /\ Changed({p})
  /\ remainder' = [q \in Pairs |-> IF q \in dirKeys(p) THEN 0 ELSE remainder[q]]
  /\ label' = [q \in Pairs |-> IF q \in dirKeys(p) THEN resetRelationLabel(q) ELSE label[q]]
  /\ cooldown' = cooldown \ dirKeys(p)
  /\ UNCHANGED <<proposing, generating, proposal, judging, roomBase, room>>

-----------------------------------------------------------------------------
(* Proposals. *)

(* The words have come, or the request failed and a fixed sentence is used. *)
WordedOnly(worded) == IF worded THEN FALSE ELSE proposing  \* mutant: a failed request leaves the flag
Proposing(worded) == FALSE
ShowProposal(p, worded) ==
  /\ generating' = generating \ {p} /\ proposal' = p /\ proposing' = Proposing(worded)
  /\ UNCHANGED <<label, affinity, remainder, judging, cooldown, effect, roomBase, room, changes, decided>>

AtLeast(v, least) == IF OrZero(v) < least THEN least ELSE OrZero(v)
(* A declined or approved pair is not asked about again.  Every next label is one of love. *)
resolveProposal(approve) ==
  /\ proposal # None /\ proposal' = None
  /\ cooldown' = cooldown \cup {proposal}
  /\ IF approve
     THEN /\ judging' = judging \cup {[pair |-> proposal, back |-> affOf(Back(proposal))]}
          /\ UNCHANGED <<affinity, effect, decided>>
     ELSE /\ affinity' = [affinity EXCEPT ![proposal] = 45] /\ effect' = TRUE /\ Changed({proposal})
          /\ UNCHANGED judging
  /\ UNCHANGED <<label, remainder, proposing, generating, roomBase, room, changes>>

RELATION_STEP(l) ==
  CASE l \in {"none", "known", "friend"} -> "crush" [] l = "lovers" -> "engaged" [] l = "engaged" -> "married"
    [] OTHER -> "lovers"
setRelationToLove(p) == IF p[1] \in Own THEN "one-sided" ELSE label[p]
advanceRelation(p) == IF p[1] \in Own THEN RELATION_STEP(label[p]) ELSE label[p]
KeptAffinity(p) == affinity                               \* mutant: the labels alone change
acceptLove(p) ==
  [affinity EXCEPT ![p] = AtLeast(affinity[p], 88), ![Back(p)] = AtLeast(affinity[Back(p)], 80)]
rejectLove(p) ==
  LET v == affinity[p] kept == (IF OrZero(v) = 0 THEN 60 ELSE v) - 18 IN
  [affinity EXCEPT ![p] = IF kept < 35 THEN 35 ELSE kept]

(* The judge's word, or the affinity at the time of the approval when it fails. *)
JudgeAcceptance(j, reply) ==
  LET p == j.pair
      accepted == reply = "accept" \/ (reply = "failed" /\ j.back >= 50)
      pairs == IF accepted THEN dirKeys(p) ELSE {p}
  IN
  /\ judging' = judging \ {j}
  /\ affinity' = IF accepted THEN acceptLove(p) ELSE rejectLove(p)
  /\ label' = [q \in Pairs |-> IF q \notin pairs THEN label[q]
                               ELSE IF accepted THEN advanceRelation(q)
                               ELSE setRelationToLove(q)]
  /\ decided' = [q \in Pairs |-> IF q \in pairs /\ q[1] \in Own THEN label'[q]
                                 ELSE IF q \in dirKeys(p) THEN None ELSE decided[q]]
  /\ effect' = TRUE
  /\ UNCHANGED <<remainder, proposing, generating, proposal, cooldown, roomBase, room, changes>>

-----------------------------------------------------------------------------
(* A room with an affinity of its own. *)

LiveBase(p) == OrZero(relationBaseFor(p))                    \* mutant of RoomBase: an earlier love is forgotten
RoomBase(p) == IF roomBase[p] = None THEN LiveBase(p) ELSE Max({roomBase[p], LiveBase(p)})
roomAffOf(p) == IF room[p] = None THEN RoomBase(p) ELSE Clamp(affinityWithBase(room[p], RoomBase(p)))
bumpRoomAffinity(p, amount) ==
  /\ changes < MaxChanges /\ changes' = changes + 1
  /\ roomBase' = [roomBase EXCEPT ![p] = RoomBase(p)]
  /\ room' = [room EXCEPT ![p] = Clamp(roomAffOf(p) + amount)]
  /\ UNCHANGED <<label, affinity, remainder, proposalVars, effect, decided>>

(* On entry a love of either side becomes the base of both; else each side's own base is taken. *)
repaired(f, base) ==
  [p \in Pairs |-> IF base[p] >= 90 /\ (f[p] = None \/ (OrZero(f[p]) >= 0 /\ OrZero(f[p]) < base[p]))
                   THEN base[p] ELSE f[p]]
relationHintBase(p) == IF relLabelFor(p) \in Lasting THEN BaseFromLabel(relLabelFor(p)) ELSE 0
PairRomanceBase(p) ==
  [q \in Pairs |-> IF q \in dirKeys(p) THEN Max({relationHintBase(r) : r \in dirKeys(p)}) ELSE 0]
PairLiveBase(p) == [q \in Pairs |-> IF q \in dirKeys(p) THEN LiveBase(q) ELSE 0]
Repairs(base) == repaired(roomBase, base) # roomBase \/ repaired(room, base) # room
repairRoomAffinityBase(p) ==
  LET base == IF Repairs(PairRomanceBase(p)) THEN PairRomanceBase(p) ELSE PairLiveBase(p) IN
  /\ roomBase' = repaired(roomBase, base) /\ room' = repaired(room, base)
  /\ UNCHANGED <<label, affinity, remainder, proposalVars, effect, changes, decided>>

Conversation == \E p \in Pairs, d \in Deltas : bumpAffinity(p, d) \/ bumpRoomAffinity(p, d)
Next ==
  \/ RunEffect \/ Conversation
  \/ \E p \in Pairs : deleteRelationAt(p) \/ resetDmAffinity(p) \/ repairRoomAffinityBase(p)
  \/ \E p \in Pairs, v \in ManualValues : setAffinityManual(p, v)
  \/ \E p \in generating, worded \in BOOLEAN : ShowProposal(p, worded)
  \/ \E approve \in BOOLEAN : resolveProposal(approve)
  \/ \E j \in judging, reply \in {"accept", "reject", "failed"} : JudgeAcceptance(j, reply)

Spec == Init /\ [][Next]_relationVars

-----------------------------------------------------------------------------
(* One proposal at a time is worded, and the flag that says so falls with it, so that later *)
(* proposals are not kept back for ever.                                                    *)
ProposingEnds == proposing = (generating # {}) /\ \A p, q \in generating : p = q

(* A label that was decided by an answer is not taken back by the effect that follows. *)
DecisionStays == \A p \in Pairs : decided[p] # None => label[p] = decided[p]

(* One run of the effect settles all labels: it would change nothing until an affinity changes. *)
LabelsSettle == ~ effect => Normalized = label

(* One proposal at a time, answers that count, labels that settle. *)
RelationsTrue == ProposingEnds /\ DecisionStays /\ LabelsSettle

(* Conversations and the effect never end a love that had not soured, however badly they go: *)
(* only the user or an answer does; and a room remembers the strongest base it had.          *)
LoveHolds ==
  /\ \A p \in Pairs : label[p] \in Lasting /\ label'[p] # label[p] /\ OrZero(affinity[p]) >= 0
                      => ~ (RunEffect \/ Conversation)
  /\ \A p \in Pairs : roomBase[p] # None => roomBase'[p] >= roomBase[p]
=============================================================================
