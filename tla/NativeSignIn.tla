---------------------------- MODULE NativeSignIn ----------------------------
(***************************************************************************)
(* Signing in from the shells.  On a phone Google's pages are opened in a   *)
(* browser over the app, which comes back with a link that holds a code;    *)
(* the code is exchanged for the session.  Apple on iOS and Toss ask their  *)
(* own dialogs.  Whoever gets a session tells the listeners, which ask the  *)
(* server who is signed in.  ClientPersistence models what a session loads. *)
(***************************************************************************)
EXTENDS Naturals, FiniteSets

CONSTANTS
  MaxCodes,        \* bound: links that come back from the provider
  MaxFailures,     \* bound: requests that fail
  MaxQuestions,    \* bound: questions of one kind that are not answered yet
  MaxReloads       \* bound: pages loaded again by an error, or after the app was ended

VARIABLES
  platform,
  initialization,  \* nativeOAuthInitialization, kept until the page is gone
  launch,          \* the link the app was last opened with, 0 for none
  links,           \* appUrlOpen events on their way
  exchanges,       \* exchangeNativeOAuthCode under way
  nativeGoogleBrowserOpen,
  browser, finished,          \* the browser over the app, and its browserFinished event
  signingIn,       \* signInWithOAuthProvider or signInWithToss under way
  session, authLoading, questions,
  waited,          \* since authLoading: the one more question was asked, a refresh was rejected
  fallback,        \* initFallback of the page: it waits, it will free the screen, it has fired
  cookie, issued, used,       \* the session at the server, codes given out and taken
  failures, reloads, overtaken

signInVars == <<platform, initialization, launch, links, exchanges, nativeGoogleBrowserOpen, browser,
                finished, signingIn, session, authLoading, questions, waited, fallback, cookie, issued, used,
                failures, reloads, overtaken>>
screenVars == <<session, authLoading, questions, waited, fallback>>
pageVars == <<initialization, exchanges, nativeGoogleBrowserOpen, signingIn, screenVars>>
shellVars == <<platform, launch, links, browser, finished, issued>>
serverVars == <<cookie, used>>
countVars == <<failures, reloads, overtaken>>

Platforms == {"ios", "android", "toss"}
Codes == 1..MaxCodes
Refused == MaxCodes + 1                    \* a link with an error instead of a code
Links == Codes \cup {Refused}
Exchange == [code : Codes, notify : BOOLEAN, at : {"asked", "done", "failed"}]
Question == [kind : {"initial", "refresh", "slow"}, nth : 1..MaxQuestions,
             answer : {"none", "session", "error", "rejected"}]

TypeOK ==
  /\ platform \in Platforms /\ initialization \in {"none", "launching", "done", "failed"}
  /\ launch \in Links \cup {0} /\ links \subseteq Links /\ exchanges \subseteq Exchange
  /\ browser \in {"closed", "open"} /\ questions \subseteq Question
  /\ signingIn \subseteq {"google", "dialog", "granted"}
  /\ {nativeGoogleBrowserOpen, finished, session, authLoading, cookie, overtaken} \subseteq BOOLEAN
  /\ waited \subseteq {"asked", "rejected"} /\ fallback \in {"waits", "frees", "past"}
  /\ issued \in 0..MaxCodes /\ used \subseteq Codes
  /\ failures \in 0..MaxFailures /\ reloads \in 0..MaxReloads

New(kind, n) == [kind |-> kind, nth |-> n, answer |-> "none"]
Unanswered(kind) == {q.nth : q \in {p \in questions : p.kind = kind}}
Ask(kind) ==
  \E n \in 1..MaxQuestions : /\ n \notin Unanswered(kind) /\ 1..(n - 1) \subseteq Unanswered(kind)
                             /\ questions' = questions \cup {New(kind, n)}
NewPage ==
  /\ initialization' = "none" /\ exchanges' = {} /\ nativeGoogleBrowserOpen' = FALSE
  /\ signingIn' = {} /\ session' = FALSE /\ authLoading' = TRUE
  /\ questions' = {New("initial", 1)} /\ waited' = {} /\ fallback' = "waits"
Init ==
  /\ platform \in Platforms /\ initialization = "none" /\ launch = 0 /\ links = {} /\ exchanges = {}
  /\ nativeGoogleBrowserOpen = FALSE /\ browser = "closed" /\ finished = FALSE /\ signingIn = {}
  /\ session = FALSE /\ authLoading = TRUE /\ questions = {New("initial", 1)} /\ waited = {} /\ fallback = "waits"
  /\ cookie = FALSE /\ issued = 0 /\ used = {} /\ failures = 0 /\ reloads = 0 /\ overtaken = FALSE

Fail == failures < MaxFailures /\ failures' = failures + 1

(* isNativePlatform *)
Native == platform # "toss"
Initialized == Native => initialization = "done"

-----------------------------------------------------------------------------
Free == authLoading' = FALSE /\ waited' = {}
(* The listeners of a session: refreshAuthSession. *)
refreshAuthSession == authLoading' = TRUE /\ Ask("refresh")
(* The browser may tell of its end though the app closed it. *)
closeNativeGoogleBrowser ==
  /\ nativeGoogleBrowserOpen' = FALSE
  /\ IF nativeGoogleBrowserOpen /\ browser = "open"
     THEN browser' = "closed" /\ finished' \in BOOLEAN
     ELSE UNCHANGED <<browser, finished>>
(* showNativeOAuthError loads the page again.  Requests on their way may still be served. *)
showNativeOAuthError ==
  /\ reloads < MaxReloads /\ reloads' = reloads + 1
  /\ NewPage

(* startNativeOAuthListener, when the session is asked for: the link that opened the app is *)
(* exchanged first.                                                                         *)
startNativeOAuthListener ==
  /\ Native /\ initialization = "none" /\ questions # {}
  /\ initialization' = CASE launch = 0 -> "done" [] launch = Refused -> "failed" [] OTHER -> "launching"
  /\ exchanges' = IF launch \in Codes
                  THEN exchanges \cup {[code |-> launch, notify |-> FALSE, at |-> "asked"]} ELSE exchanges
  /\ UNCHANGED <<shellVars, nativeGoogleBrowserOpen, signingIn, screenVars, serverVars, countVars>>

(* appUrlOpen: exchangeNativeOAuthUrl(url, true) *)
appUrlOpen(link) ==
  /\ initialization # "none" /\ link \in links \cap Codes
  /\ links' = links \ {link}
  /\ closeNativeGoogleBrowser
  /\ exchanges' = exchanges \cup {[code |-> link, notify |-> TRUE, at |-> "asked"]}
  /\ UNCHANGED <<initialization, signingIn, screenVars, reloads>>
  /\ UNCHANGED <<platform, launch, issued, serverVars, failures, overtaken>>
(* A link with an error, or with none of both, loads the page again. *)
appUrlRefused ==
  /\ initialization # "none" /\ Refused \in links
  /\ links' = links \ {Refused}
  /\ IF nativeGoogleBrowserOpen /\ browser = "open"
     THEN browser' = "closed" /\ finished' \in BOOLEAN
     ELSE UNCHANGED <<browser, finished>>
  /\ showNativeOAuthError
  /\ UNCHANGED <<platform, launch, issued, serverVars, failures, overtaken>>

(* POST /auth/native/exchange: a code is taken once.  An answer may be lost. *)
serveExchange(e) ==
  /\ e \in exchanges /\ e.at = "asked"
  /\ \/ /\ e.code \notin used
        /\ used' = used \cup {e.code} /\ cookie' = TRUE
        /\ \/ exchanges' = (exchanges \ {e}) \cup {[e EXCEPT !.at = "done"]} /\ UNCHANGED failures
           \/ exchanges' = (exchanges \ {e}) \cup {[e EXCEPT !.at = "failed"]} /\ Fail
     \/ /\ exchanges' = (exchanges \ {e}) \cup {[e EXCEPT !.at = "failed"]}
        /\ IF e.code \in used THEN UNCHANGED failures ELSE Fail
        /\ UNCHANGED serverVars
  /\ UNCHANGED <<shellVars, initialization, nativeGoogleBrowserOpen, signingIn, screenVars,
                 reloads, overtaken>>

\* mutant: nobody is told of the new session
exchangeUntold(e) ==
  /\ e \in exchanges /\ e.at # "asked"
  /\ exchanges' = exchanges \ {e}
  /\ initialization' = IF e.notify THEN initialization ELSE IF e.at = "done" THEN "done" ELSE "failed"
  /\ UNCHANGED <<shellVars, nativeGoogleBrowserOpen, signingIn, screenVars, serverVars, countVars>>
exchangeNativeOAuthCode(e) ==
  /\ e \in exchanges /\ e.at # "asked"
  /\ \/ /\ ~ e.notify                                 \* startNativeOAuthListener goes on, or is rejected
        /\ initialization' = IF e.at = "done" THEN "done" ELSE "failed"
        /\ exchanges' = exchanges \ {e}
        /\ UNCHANGED <<nativeGoogleBrowserOpen, signingIn, screenVars, reloads>>
     \/ /\ e.notify /\ e.at = "done"
        /\ exchanges' = exchanges \ {e}
        /\ refreshAuthSession
        /\ UNCHANGED <<initialization, nativeGoogleBrowserOpen, signingIn, session, waited, fallback, reloads>>
     \/ e.notify /\ e.at = "failed" /\ showNativeOAuthError
  /\ UNCHANGED <<shellVars, serverVars, failures, overtaken>>

-----------------------------------------------------------------------------
(* signInWithProvider("google"): a browser that is open already is left alone. *)
signInWithGoogle ==
  /\ Native /\ ~ session /\ ~ authLoading
  /\ authLoading' = TRUE
  /\ IF nativeGoogleBrowserOpen THEN UNCHANGED <<nativeGoogleBrowserOpen, signingIn>>
     ELSE nativeGoogleBrowserOpen' = TRUE /\ signingIn' = signingIn \cup {"google"}
  /\ UNCHANGED <<shellVars, initialization, exchanges, session, questions, waited, fallback, serverVars,
                 countVars>>
openNativeGoogleBrowser ==
  /\ "google" \in signingIn /\ initialization \in {"done", "failed"}
  /\ signingIn' = signingIn \ {"google"}
  /\ \/ /\ initialization = "done" /\ browser' = "open"
        /\ UNCHANGED <<nativeGoogleBrowserOpen, authLoading, waited, failures>>
     \/ /\ IF initialization = "done" THEN Fail ELSE UNCHANGED failures
        /\ nativeGoogleBrowserOpen' = FALSE /\ Free /\ UNCHANGED browser
  /\ UNCHANGED <<platform, launch, links, finished, issued, initialization, exchanges, session,
                 questions, fallback, serverVars, reloads, overtaken>>

(* signInWithNativeApple and signInWithToss: a dialog, which can be cancelled, then a request. *)
signInWithDialog ==
  /\ platform \in {"ios", "toss"} /\ ~ session /\ ~ authLoading
  /\ authLoading' = TRUE /\ signingIn' = signingIn \cup {"dialog"}
  /\ UNCHANGED <<shellVars, initialization, exchanges, nativeGoogleBrowserOpen, session, questions,
                 waited, fallback, serverVars, countVars>>
grantDialog ==
  /\ "dialog" \in signingIn
  /\ signingIn' = (signingIn \ {"dialog"}) \cup {"granted"} /\ cookie' = TRUE
  /\ UNCHANGED <<shellVars, initialization, exchanges, nativeGoogleBrowserOpen, screenVars, used,
                 countVars>>
dialogSignedIn ==
  /\ "granted" \in signingIn
  /\ signingIn' = signingIn \ {"granted"} /\ refreshAuthSession
  /\ UNCHANGED <<shellVars, initialization, exchanges, nativeGoogleBrowserOpen, session, waited,
                 fallback, serverVars, countVars>>
(* Cancelled, or an error of the request, whose answer may be lost. *)
dialogFailed ==
  /\ \/ "dialog" \in signingIn /\ signingIn' = signingIn \ {"dialog"} /\ UNCHANGED failures
     \/ "granted" \in signingIn /\ signingIn' = signingIn \ {"granted"} /\ Fail
  /\ Free
  /\ UNCHANGED <<shellVars, initialization, exchanges, nativeGoogleBrowserOpen, session, questions,
                 fallback, serverVars, reloads, overtaken>>

-----------------------------------------------------------------------------
(* The provider's pages end with a link; it opens an app that was ended meanwhile anew. *)
providerReturns ==
  /\ browser = "open"
  /\ \E link \in Links :
       /\ (link = Refused /\ UNCHANGED issued)
            \/ (issued < MaxCodes /\ link = issued + 1 /\ issued' = link)
       /\ links' = links \cup {link}
       /\ launch' \in (IF platform = "ios" THEN {link} ELSE {launch})
  /\ UNCHANGED <<platform, browser, finished, pageVars, serverVars, countVars>>
appStartedByLink ==
  /\ browser = "open" /\ issued < MaxCodes /\ reloads < MaxReloads
  /\ reloads' = reloads + 1 /\ issued' = issued + 1 /\ launch' = issued + 1
  /\ links' \in {{}, {issued + 1}}                     \* the link may be told twice
  /\ browser' = "closed" /\ finished' = FALSE
  /\ NewPage
  /\ UNCHANGED <<platform, serverVars, failures, overtaken>>
userClosesBrowser ==
  /\ browser = "open"
  /\ browser' = "closed" /\ finished' = TRUE
  /\ UNCHANGED <<platform, launch, links, issued, pageVars, serverVars, countVars>>

\* mutant: the end of the browser is not told
browserUnheard ==
  /\ finished /\ finished' = FALSE
  /\ nativeGoogleBrowserOpen' = FALSE
  /\ UNCHANGED <<platform, launch, links, browser, issued, initialization, exchanges, signingIn,
                 screenVars, serverVars, countVars>>
handleNativeBrowserFinished ==
  /\ finished /\ initialization # "none"
  /\ finished' = FALSE
  /\ nativeGoogleBrowserOpen' = FALSE
  /\ IF nativeGoogleBrowserOpen THEN refreshAuthSession ELSE UNCHANGED <<authLoading, questions>>
  /\ UNCHANGED <<platform, launch, links, browser, issued, initialization, exchanges, signingIn,
                 session, waited, fallback, serverVars, countVars>>

-----------------------------------------------------------------------------
(* refreshSlowSession, eight seconds after the screen began to wait: the timer fires once. *)
askSlow ==
  /\ authLoading /\ "asked" \notin waited /\ waited' = waited \cup {"asked"}
  /\ Ask("slow")
  /\ UNCHANGED <<shellVars, initialization, exchanges, nativeGoogleBrowserOpen, signingIn, session,
                 authLoading, fallback, serverVars, countVars>>
(* Seven seconds after the page: authResolvedRef says whether the screen is freed. *)
initFallback ==
  /\ fallback # "past" /\ fallback' = "past"
  /\ IF fallback = "frees" THEN Free ELSE UNCHANGED <<authLoading, waited>>
  /\ UNCHANGED <<shellVars, initialization, exchanges, nativeGoogleBrowserOpen, signingIn, session,
                 questions, serverVars, countVars>>
resolves == fallback' = IF fallback = "waits" THEN "frees" ELSE fallback
(* getAuthSession: GET /auth/me waits for the initialization, and is an error without a session. *)
(* A fetch that fails has no answer at all: it is rejected.                                      *)
serveQuestion(q) ==
  /\ q \in questions /\ q.answer = "none" /\ Initialized
  /\ \E answer \in {"session", "error", "rejected"} :
       /\ questions' = (questions \ {q}) \cup {[q EXCEPT !.answer = answer]}
       /\ IF answer = (IF cookie THEN "session" ELSE "error") THEN UNCHANGED failures
          ELSE answer # "session" /\ Fail
  /\ UNCHANGED <<shellVars, initialization, exchanges, nativeGoogleBrowserOpen, signingIn, session,
                 authLoading, waited, fallback, serverVars, reloads, overtaken>>
(* Only the first question takes an error for a session that is not there. *)
questionAnswered(q) ==
  /\ q \in questions /\ q.answer \in {"session", "error"}
  /\ questions' = questions \ {q}
  /\ session' = (q.answer = "session" \/ (session /\ q.kind # "initial"))
  /\ Free /\ (IF q.kind = "slow" THEN UNCHANGED fallback ELSE resolves)
  /\ overtaken' = (overtaken \/ (q.kind = "initial" /\ q.answer = "error" /\ cookie))
  /\ UNCHANGED <<shellVars, initialization, exchanges, nativeGoogleBrowserOpen, signingIn,
                 serverVars, failures, reloads>>
\* mutant: a rejected question is forgotten
rejectionLost(q) ==
  /\ q \in questions /\ q.answer = "rejected"
  /\ questions' = questions \ {q}
  /\ UNCHANGED <<shellVars, initialization, exchanges, nativeGoogleBrowserOpen, signingIn, session,
                 authLoading, waited, fallback, serverVars, countVars>>
(* So is every question without the initialization.  Of the three only the first one's handler *)
(* frees the screen: refreshAuthSession's tells the error, and refreshSlowSession has none.     *)
questionRejected(q) ==
  /\ q \in questions
  /\ q.answer = "rejected" \/ (q.answer = "none" /\ Native /\ initialization = "failed")
  /\ questions' = questions \ {q}
  /\ IF q.kind = "initial" THEN Free /\ resolves
     ELSE /\ waited' = IF q.kind = "refresh" /\ authLoading THEN waited \cup {"rejected"} ELSE waited
          /\ UNCHANGED <<authLoading, fallback>>
  /\ UNCHANGED <<shellVars, initialization, exchanges, nativeGoogleBrowserOpen, signingIn, session,
                 serverVars, countVars>>

Next ==
  \/ startNativeOAuthListener \/ appUrlRefused \/ \E link \in links : appUrlOpen(link)
  \/ \E e \in exchanges : serveExchange(e) \/ exchangeNativeOAuthCode(e)
  \/ signInWithGoogle \/ openNativeGoogleBrowser
  \/ signInWithDialog \/ grantDialog \/ dialogSignedIn \/ dialogFailed
  \/ providerReturns \/ appStartedByLink \/ userClosesBrowser \/ handleNativeBrowserFinished
  \/ askSlow \/ initFallback
  \/ \E q \in questions : serveQuestion(q) \/ questionAnswered(q) \/ questionRejected(q)
Spec == Init /\ [][Next]_signInVars

-----------------------------------------------------------------------------
(* The sign-in screen waits only for something that is on its way, without the one more       *)
(* question: for another question, a sign-in, a link, or a browser whose end will be heard.    *)
(* But once a refresh of this wait was rejected, only the one more question may be left, and    *)
(* after it nothing at all (useAliveSessionBootstrap.ts:85-91, 184-200).                        *)
BusyIsPending ==
  authLoading /\ "rejected" \notin waited =>
    \/ \E q \in questions : q.kind # "slow"
    \/ signingIn # {} \/ exchanges # {} \/ links # {}
    \/ nativeGoogleBrowserOpen /\ (browser = "open" \/ finished)

(* When nothing is on its way, the app knows of the session the server has given it, unless a  *)
(* request failed, the initialization was rejected, or the first answer came last.              *)
Quiet == questions = {} /\ exchanges = {} /\ signingIn = {} /\ links = {}
SessionKnown ==
  Quiet /\ failures = 0 /\ initialization # "failed" /\ ~ overtaken => session = cookie
=============================================================================
