------------------------- MODULE CharacterMemories -------------------------
(***************************************************************************)
(* What characters remember of each other: memories the owner writes, pins *)
(* and removes, and those a summary of a conversation leaves, in the       *)
(* character's book or in the book of a room of its own.                   *)
(*                                                                         *)
(* The book of the open character is on the screen; its copy in the list   *)
(* of accounts follows the owner's edits, and is replaced by the screen    *)
(* when another character is opened.                                       *)
(***************************************************************************)
EXTENDS Naturals, Sequences, FiniteSets, SequencesExt

CONSTANTS
  Own,                \* the owner's characters; they all talk to the same one
  Contents,           \* what can be remembered, up to memSimilar
  Importances,        \* of those kept: 3..5
  BookSize,           \* nextMemoryEntries keeps so many (120)
  ManualSize,         \* addManualMemory keeps so many (60)
  MaxEntries,         \* bound: memories made
  MaxSummaries        \* bound: conversations summarised

Entry == [id : 1..MaxEntries, of : Own, content : Contents, importance : Importances,
          pinned : BOOLEAN, source : {"auto", "manual"}]
Item == [content : Contents, importance : Importances]
Books == {b \in Seq(Entry) : Len(b) <= BookSize}
(* A summary asked with the character that was open. *)
Summary == [number : 1..MaxSummaries, viewer : Own, room : BOOLEAN]

VARIABLES
  activeId, lorebook,     \* the open character and its book, char.lorebook
  books,                  \* the copies in the list of accounts
  roomBooks,              \* dmWorldPrefs: one room of its own for each character
  summaries, asked, made,
  strayed                 \* history: a summary met another character

memoryVars == <<activeId, lorebook, books, roomBooks, summaries, asked, made, strayed>>

TypeOK ==
  /\ activeId \in Own /\ lorebook \in Books /\ books \in [Own -> Books] /\ roomBooks \in [Own -> Books]
  /\ summaries \subseteq Summary /\ asked \in 0..MaxSummaries /\ made \in 0..MaxEntries
  /\ strayed \in BOOLEAN

Init ==
  /\ activeId \in Own /\ lorebook = <<>> /\ books = [c \in Own |-> <<>>] /\ roomBooks = [c \in Own |-> <<>>]
  /\ summaries = {} /\ asked = 0 /\ made = 0 /\ strayed = FALSE

-----------------------------------------------------------------------------
(* updateLorebook: the screen and the copy. *)
updateLorebook(next) == lorebook' = next /\ books' = [books EXCEPT ![activeId] = next]
ownVars == <<activeId, roomBooks, summaries, asked, strayed>>
LastOf(s, n) == IF Len(s) <= n THEN s ELSE SubSeq(s, Len(s) - n + 1, Len(s))

addManualMemory(c) ==
  /\ made < MaxEntries /\ made' = made + 1
  /\ updateLorebook(LastOf(Append(lorebook,
       [id |-> made + 1, of |-> activeId, content |-> c, importance |-> 3,
        pinned |-> FALSE, source |-> "manual"]), ManualSize))
  /\ UNCHANGED ownVars
Toggled(book, id) ==
  [i \in DOMAIN book |-> IF book[i].id = id THEN [book[i] EXCEPT !.pinned = ~ @] ELSE book[i]]
Ids(book) == {book[i].id : i \in DOMAIN book}
updateMemory(id) ==
  /\ id \in Ids(lorebook)
  /\ updateLorebook(Toggled(lorebook, id))
  /\ UNCHANGED <<ownVars, made>>
Without(book, id) == RemoveAt(book, CHOOSE i \in DOMAIN book : book[i].id = id)
deleteMemory(id) ==
  /\ id \in Ids(lorebook) /\ updateLorebook(Without(lorebook, id))
  /\ UNCHANGED <<ownVars, made>>
deleteRoomMemory(id) ==
  /\ id \in Ids(roomBooks[activeId])
  /\ roomBooks' = [roomBooks EXCEPT ![activeId] = Without(@, id)]
  /\ UNCHANGED <<activeId, lorebook, books, summaries, asked, made, strayed>>

switchAccount(c) ==
  /\ c # activeId /\ activeId' = c
  /\ books' = [books EXCEPT ![activeId] = lorebook] /\ lorebook' = books[c]
  /\ UNCHANGED <<roomBooks, summaries, asked, made, strayed>>

-----------------------------------------------------------------------------
\* mutant: pinned memories come in the order of the others
BeforeUnpinned(a, b) == a.importance > b.importance \/ (a.importance = b.importance /\ a.id > b.id)
(* memorySort: pinned first, then the more important, then the newer. *)
Before(a, b) ==
  \/ a.pinned /\ ~ b.pinned
  \/ a.pinned = b.pinned /\ a.importance > b.importance
  \/ a.pinned = b.pinned /\ a.importance = b.importance /\ a.id > b.id
Rank(book, i) == Cardinality({j \in DOMAIN book : Before(book[j], book[i])})
memorySort(book) == [n \in DOMAIN book |-> book[CHOOSE i \in DOMAIN book : Rank(book, i) = n - 1]]
memSimilar(a, b) == a = b
\* mutant: what is remembered already is added again
AnyMemory(book, item) == TRUE
isFreshMemory(book, item) == \A i \in DOMAIN book : ~ memSimilar(book[i].content, item.content)
FirstOf(s, n) == SubSeq(s, 1, IF Len(s) < n THEN Len(s) ELSE n)
nextMemoryEntries(book, item, viewer) ==
  FirstOf(memorySort(IF ~ isFreshMemory(book, item) THEN book
                     ELSE Append(book, [id |-> made + 1, of |-> viewer, content |-> item.content,
                                        importance |-> item.importance, pinned |-> FALSE,
                                        source |-> "auto"])), BookSize)

(* processSession: a summary of what was said is asked; a room of its own keeps its memories. *)
processSession(room) ==
  /\ asked < MaxSummaries /\ asked' = asked + 1
  /\ summaries' = summaries \cup {[number |-> asked + 1, viewer |-> activeId, room |-> room]}
  /\ UNCHANGED <<activeId, lorebook, books, roomBooks, made, strayed>>
(* saveMemories looks at the character that was open at the request, setChar works on the one *)
(* that is open now.                                                                          *)
saveMemories(s, item) ==
  IF s.room
  THEN roomBooks' = [roomBooks EXCEPT ![s.viewer] = nextMemoryEntries(@, item, s.viewer)]
       /\ UNCHANGED <<lorebook, strayed>>
  ELSE lorebook' = nextMemoryEntries(lorebook, item, s.viewer) /\ UNCHANGED roomBooks
       /\ strayed' = (strayed \/ s.viewer # activeId)
summarised(s, item) ==
  /\ s \in summaries /\ summaries' = summaries \ {s} /\ made < MaxEntries /\ made' = made + 1
  /\ saveMemories(s, item) /\ UNCHANGED <<activeId, books, asked>>
(* A summary without a memory, or one that fails, changes nothing. *)
summaryFailed(s) ==
  /\ s \in summaries /\ summaries' = summaries \ {s}
  /\ UNCHANGED <<activeId, lorebook, books, roomBooks, asked, made, strayed>>

Edits ==
  \/ \E c \in Contents : addManualMemory(c)
  \/ \E id \in 1..MaxEntries : updateMemory(id) \/ deleteMemory(id) \/ deleteRoomMemory(id)
Others ==
  \/ \E c \in Own : switchAccount(c)
  \/ \E room \in BOOLEAN : processSession(room)
  \/ \E s \in summaries : summaryFailed(s) \/ \E item \in Item : summarised(s, item)
Next == Edits \/ Others
Spec == Init /\ [][Next]_memoryVars

-----------------------------------------------------------------------------
AutoOf(book) == {i \in DOMAIN book : book[i].source = "auto"}
(* A summary adds no memory that is there already, however many come at once, and as long as none *)
(* lands on another character every book holds its own character's memories only.                *)
BooksTrue ==
  /\ \A b \in {lorebook} \cup {roomBooks[c] : c \in Own} :
       \A i, j \in AutoOf(b) : b[i].content = b[j].content => i = j
  /\ ~ strayed => \A c \in Own :
       \A i \in DOMAIN (IF c = activeId THEN lorebook ELSE books[c]) :
         (IF c = activeId THEN lorebook ELSE books[c])[i].of = c
(* A summary never pushes a pinned memory out of the book (addManualMemory does: it keeps the    *)
(* last entries, and memorySort puts the pinned ones first).                                     *)
Pinned(book) == {book[i].id : i \in {j \in DOMAIN book : book[j].pinned}}
PinnedStayStep == summaries' # summaries => Pinned(lorebook) \subseteq Ids(lorebook')
PinnedStay == [][PinnedStayStep]_memoryVars
=============================================================================
