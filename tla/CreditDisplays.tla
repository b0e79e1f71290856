--------------------------- MODULE CreditDisplays ---------------------------
(***************************************************************************)
(* The small displays of what a user has and what a call costs: the        *)
(* shortcut to the store, the reward missions, the line above the message  *)
(* box and the hints beside the buttons.  Each asks the server for itself  *)
(* when it appears and whenever a finished call says the balance moved;    *)
(* the hints share one request for the catalogue.                          *)
(***************************************************************************)
EXTENDS Naturals, FiniteSets

CONSTANTS
  Flows, Unknown,  \* the flows of the catalogue, and a code that is not in it
  Policy,          \* the cost of a flow and what may pay for it
  Hints,
  Balance,         \* what a user may have: energy, bonus and purchased credits
  MaxAsked         \* bound: balances asked for

VARIABLES
  balance,         \* at the server
  mounted, shown,  \* the displays on the screen, and what each shows: a balance or none
  statusFlow,      \* the flow of the message box
  catalogRequest, hints,
  requests, asked, \* GET /credits under way
  answered,        \* history: the latest request of each display that was answered
  stale, unheard \* history: displays whose last answer was an earlier one or an error, or that were not told of a change

displayVars == <<balance, mounted, shown, statusFlow, catalogRequest, hints, requests, asked, answered, stale, unheard>>
hintVars == <<catalogRequest, hints>>
balanceVars == <<balance, mounted, shown, statusFlow, requests, asked, answered, stale, unheard>>

Displays == {"shortcut", "missions", "status"}
Nothing == "nothing"
Request == [number : 1..MaxAsked, by : Displays, at : {"asked", "served"},
            answer : SUBSET Balance]
Hint == [open : BOOLEAN, code : Flows \cup {Unknown}, flow : Flows \cup {Nothing}, error : BOOLEAN]
NoHint == [open |-> FALSE, code |-> Unknown, flow |-> Nothing, error |-> FALSE]

TypeOK ==
  /\ balance \in Balance /\ statusFlow \in Flows
  /\ mounted \subseteq Displays /\ \A d \in Displays : shown[d] \subseteq Balance
  /\ catalogRequest \in {"none", "asked", "loaded"} /\ hints \in [Hints -> Hint]
  /\ (\A q \in requests : q.number <= asked /\ q.answer \subseteq Balance) /\ asked \in 0..MaxAsked
  /\ answered \in [Displays -> 0..MaxAsked]
  /\ stale \subseteq Displays /\ unheard \subseteq Displays

Init ==
  /\ balance \in Balance /\ statusFlow \in Flows
  /\ mounted = {} /\ shown = [d \in Displays |-> {}] /\ catalogRequest = "none"
  /\ hints = [h \in Hints |-> NoHint] /\ requests = {} /\ asked = 0
  /\ answered = [d \in Displays |-> 0] /\ stale = {} /\ unheard = {}

-----------------------------------------------------------------------------
Asked(d, number) == [number |-> number, by |-> d, at |-> "asked", answer |-> {}]
\* mutant: displays do not ask when they are told
RefreshNobody(who) == asked < MaxAsked /\ asked' = asked + 1 /\ unheard' = unheard \ who /\ UNCHANGED requests
(* refresh: each display asks for itself. *)
Refresh(who) ==
  /\ asked < MaxAsked /\ asked' = asked + 1
  /\ requests' = requests \cup {Asked(d, asked + 1) : d \in who}
  /\ unheard' = unheard \ who

(* A display appears.  What an earlier one of its kind asked for does not reach it. *)
appears(d) ==
  /\ d \notin mounted /\ mounted' = mounted \cup {d}
  /\ shown' = [shown EXCEPT ![d] = {}]
  /\ asked < MaxAsked /\ asked' = asked + 1
  /\ requests' = {r \in requests : r.by # d} \cup {Asked(d, asked + 1)}
  /\ stale' = stale \ {d} /\ unheard' = unheard \ {d}
  /\ UNCHANGED <<balance, statusFlow, answered, hintVars>>
leaves(d) ==
  /\ d \in mounted /\ mounted' = mounted \ {d}
  /\ UNCHANGED <<balance, shown, statusFlow, requests, asked, answered, stale, unheard, hintVars>>
(* A call ends and the balance has moved: notifyCreditBalanceUpdated.  A call whose answer is *)
(* lost, and one made without this page, tell nobody.                                         *)
notifyCreditBalanceUpdated ==
  /\ balance' \in Balance \ {balance}
  /\ Refresh(mounted)
  /\ UNCHANGED <<mounted, shown, statusFlow, answered, stale, hintVars>>
balanceMovesUnheard ==
  /\ balance' \in Balance \ {balance} /\ unheard' = Displays
  /\ UNCHANGED <<mounted, shown, statusFlow, requests, asked, answered, stale, hintVars>>
(* Another way to answer is chosen: the line asks anew, and shows the old numbers until then. *)
chooseFlow(f) ==
  /\ "status" \in mounted /\ f # statusFlow
  /\ statusFlow' = f
  /\ asked < MaxAsked /\ asked' = asked + 1
  /\ requests' = {r \in requests : r.by # "status"} \cup {Asked("status", asked + 1)}
  /\ unheard' = unheard \ {"status"}
  /\ UNCHANGED <<balance, mounted, shown, answered, stale, hintVars>>

serveBalance(r) ==
  /\ r \in requests /\ r.at = "asked"
  /\ \E answer \in {{balance}, {}} :
       requests' = (requests \ {r}) \cup {[r EXCEPT !.at = "served", !.answer = answer]}
  /\ UNCHANGED <<balance, mounted, shown, statusFlow, asked, answered, stale, unheard, hintVars>>
(* An error empties the shortcut and the missions, and leaves the line's numbers. *)
ShownAfter(r, old) == IF r.answer = {} /\ r.by = "status" THEN old ELSE r.answer
balanceAnswered(r) ==
  /\ r \in requests /\ r.at = "served"
  /\ requests' = requests \ {r}
  /\ IF r.by \notin mounted THEN UNCHANGED <<shown, answered, stale>>
     ELSE /\ shown' = [shown EXCEPT ![r.by] = ShownAfter(r, @)]
          /\ answered' = [answered EXCEPT ![r.by] = IF @ < r.number THEN r.number ELSE @]
          /\ stale' = IF r.number < answered[r.by] \/ r.answer = {}
                        THEN stale \cup {r.by} ELSE stale \ {r.by}
  /\ UNCHANGED <<balance, mounted, statusFlow, asked, unheard, hintVars>>

-----------------------------------------------------------------------------
(* creditUsagePreview *)
\* mutant: bonus credits are counted for every flow
UsableAll(f, b) == b.purchased + b.bonus
Usable(f, b) == b.purchased + IF Policy[f].bonusAllowed THEN b.bonus ELSE 0
Preview(f, b) ==
  CASE Policy[f].credits = 0 /\ Policy[f].energy = 0 -> "free"
    [] Policy[f].credits + Policy[f].energy > 0 /\ Policy[f].energyAllowed /\ b.energy >= Policy[f].energy -> "energy"
    [] Policy[f].credits + Policy[f].energy > 0 /\ ~ (Policy[f].energyAllowed /\ b.energy >= Policy[f].energy) ->
         IF Usable(f, b) >= Policy[f].credits THEN "credits" ELSE "insufficient"

-----------------------------------------------------------------------------
(* useCreditFlow: setResolvedFlow, at once when the catalogue has been loaded. *)
Resolved(code) ==
  [open |-> TRUE, code |-> code, flow |-> IF code \in Flows THEN code ELSE Nothing, error |-> code \notin Flows]
Waiting(h) == hints[h].open /\ hints[h].flow = Nothing /\ ~ hints[h].error
hintShows(h, code) ==
  /\ ~ hints[h].open \/ hints[h].code # code
  /\ IF catalogRequest = "loaded"
     THEN hints' = [hints EXCEPT ![h] = Resolved(code)] /\ UNCHANGED catalogRequest
     ELSE /\ hints' = [hints EXCEPT ![h] = [open |-> TRUE, code |-> code, flow |-> Nothing, error |-> FALSE]]
          /\ catalogRequest' = "asked"
  /\ UNCHANGED balanceVars
hintLeaves(h) ==
  /\ hints[h].open
  /\ hints' = [hints EXCEPT ![h] = NoHint]
  /\ UNCHANGED <<catalogRequest, balanceVars>>
catalogLoaded ==
  /\ catalogRequest = "asked" /\ catalogRequest' = "loaded"
  /\ hints' = [h \in Hints |-> IF Waiting(h) THEN Resolved(hints[h].code) ELSE hints[h]]
  /\ UNCHANGED balanceVars
(* The next hint asks again. *)
catalogFailed ==
  /\ catalogRequest = "asked" /\ catalogRequest' = "none"
  /\ hints' = [h \in Hints |-> IF Waiting(h) THEN [hints[h] EXCEPT !.error = TRUE] ELSE hints[h]]
  /\ UNCHANGED balanceVars

BalanceNext ==
  \/ \E d \in Displays : appears(d) \/ leaves(d)
  \/ notifyCreditBalanceUpdated \/ balanceMovesUnheard \/ \E f \in Flows : chooseFlow(f)
  \/ \E r \in requests : serveBalance(r) \/ balanceAnswered(r)
HintNext ==
  \/ \E h \in Hints : hintLeaves(h) \/ \E code \in Flows \cup {Unknown} : hintShows(h, code)
  \/ catalogLoaded \/ catalogFailed
Next == BalanceNext \/ HintNext
Spec == Init /\ [][Next]_displayVars

-----------------------------------------------------------------------------
(* When a display has no answer to come, it shows what the server has, unless it was not told  *)
(* of the last change or its last answer was an older one or an error.                          *)
BalanceShown ==
  \A d \in Displays :
    d \in mounted \ (stale \cup unheard) /\ (\A r \in requests : r.by # d) => shown[d] = {balance}

(* What the line above the message box says is what the server would do with these numbers     *)
(* while the flow is under its daily limits: CanUse and EnergyCharge of CreditUsage.            *)
Pays(f, b) ==
  CASE Policy[f].credits = 0 -> "free"
    [] Policy[f].credits > 0 /\ Policy[f].energyAllowed /\ b.energy >= Policy[f].energy -> "energy"
    [] Policy[f].credits > 0 /\ ~ (Policy[f].energyAllowed /\ b.energy >= Policy[f].energy)
         /\ \E bonus \in 0..(IF Policy[f].bonusAllowed THEN b.bonus ELSE 0), purchased \in 0..b.purchased :
              bonus + purchased = Policy[f].credits -> "credits"
    [] OTHER -> "insufficient"
PreviewTrue == \A b \in shown["status"] : Preview(statusFlow, b) = Pays(statusFlow, b)

(* A hint waits only for a request that is under way, and shows the flow of its own code. *)
HintsEnd ==
  \A h \in Hints :
    /\ Waiting(h) => catalogRequest = "asked"
    /\ hints[h].flow \in {Nothing, hints[h].code}
=============================================================================
