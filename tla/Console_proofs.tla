--------------------------- MODULE Console_proofs ---------------------------
(***************************************************************************)
(* The units of the browser, each for every value of its constants.  They  *)
(* share no variable, so every step of the console is a step of a unit or  *)
(* leaves it alone, and each invariant is proved over its unit's actions.  *)
(***************************************************************************)
EXTENDS Console, FiniteSetTheorems, TLAPS

(* The services.                                                           *)

\* What Services_proofs shows of the services holds beside the browser too.
THEOREM ServicesBesideTheBrowser == ConsoleSpec => ServicesSpec
<1>1. ConsoleInit => ServicesInit
  BY DEF ConsoleInit
<1>2. [ConsoleNext]_consoleVars => [ServicesNext]_servicesVars
  BY DEF ConsoleNext, consoleVars
<1> QED
  BY <1>1, <1>2, PTL DEF ConsoleSpec, ServicesSpec
------------------------------------------------------------------------------
(* The sign-in.                                                            *)

\* The state and the preference travel together: in the cookies, and in a
\* callback under way, the preference is that of the flow the state names.  So
\* when the state a callback carries is its tab's own flow, the preference is.
LEMMA StepsOfSession == [ConsoleNext]_consoleVars => [Auth!Next]_sessionVars
  BY DEF ConsoleNext, consoleVars, sessionVars

\* The jar holds the preference of the flow whose state it holds.
JarPaired == cookies.state # None => cookies.stay = asked[cookies.state]

\* So does a callback under way.
CallbackPaired ==
  \A t \in Tabs : tab[t].page = "callback" /\ tab[t].call.token # None =>
                    tab[t].call.stay = asked[tab[t].call.token]

\* In a tab that waits for its callback nothing else goes on.
CallbackAlone ==
  \A t \in Tabs : tab[t].page \in {"github", "callback"} =>
                    /\ tab[t].status = "loading"
                    /\ tab[t].call.kind \in {"none", "callback"}

SessionInv == Auth!TypeOK /\ JarPaired /\ CallbackPaired /\ CallbackAlone /\ Auth!StayIsOfItsFlow

\* Replacing the state of one tab by a legal one keeps the type of tab.
LEMMA TabReplaced ==
  ASSUME tab \in [Tabs -> Auth!TabStates], NEW t \in Tabs, NEW r \in Auth!TabStates,
         tab' = [tab EXCEPT ![t] = r]
  PROVE  /\ tab' \in [Tabs -> Auth!TabStates]
         /\ tab'[t] = r
         /\ \A u \in Tabs \ {t} : tab'[u] = tab[u]
OBVIOUS

\* The records the steps put into a tab are legal.
LEMMA FreshTab ==
  ASSUME NEW s \in Auth!Refs, NEW u \in Auth!Refs, NEW f \in Auth!Refs,
         NEW p \in {"closed", "app", "github", "callback"}
  PROVE  [page |-> p, status |-> "loading", session |-> s, url |-> u, flow |-> f,
          call |-> Auth!NoCall] \in Auth!TabStates
BY DEF Auth!TabStates, Auth!Requests, Auth!NoCall, Auth!Refs

LEMMA RequestType ==
  ASSUME NEW k \in {"me", "api", "logout"}, NEW n \in Auth!Refs PROVE Auth!Request(k, n) \in Auth!Requests
BY DEF Auth!Request, Auth!Requests

LEMMA NoCallType == Auth!NoCall \in Auth!Requests /\ Auth!NoCall.kind = "none"
BY DEF Auth!NoCall, Auth!Requests, Auth!Refs

LEMMA CarriedType ==
  ASSUME Auth!TypeOK, NEW t \in Tabs PROVE Auth!Carried(t) \in Auth!Refs /\ Auth!Stored(t) \in Auth!Refs
BY DEF Auth!TypeOK, Auth!Carried, Auth!Stored, Auth!TabStates

\* A step that touches one tab, neither flows, tokens nor the two cookies,
\* and does not bring the tab to GitHub or the callback, keeps the invariant.
LEMMA PageStepKeeps ==
  ASSUME SessionInv, Auth!TypeOK', UNCHANGED <<asked, tokens>>,
         cookies'.state = cookies.state, cookies'.stay = cookies.stay,
         \A u \in Tabs : tab'[u].page \in {"github", "callback"} => tab'[u] = tab[u]
  PROVE  SessionInv'
BY DEF SessionInv, JarPaired, CallbackPaired, CallbackAlone, Auth!StayIsOfItsFlow

\* The sequel of PageStepKeeps for a step that replaces the state of one tab.
LEMMA OneTabStep ==
  ASSUME SessionInv, NEW t \in Tabs, NEW r \in Auth!TabStates, tab' = [tab EXCEPT ![t] = r],
         r.page \notin {"github", "callback"}, UNCHANGED <<asked, tokens>>,
         cookies' \in [state : Auth!Refs, stay : BOOLEAN, token : Auth!Refs],
         cookies'.state = cookies.state, cookies'.stay = cookies.stay,
         dead' \subseteq Flows, local' \in Auth!Refs
  PROVE  SessionInv'
<1>1. Auth!TypeOK'
  BY TabReplaced DEF SessionInv, Auth!TypeOK
<1>2. \A u \in Tabs : tab'[u].page \in {"github", "callback"} => tab'[u] = tab[u]
  BY TabReplaced DEF SessionInv, Auth!TypeOK
<1> QED BY <1>1, <1>2, PageStepKeeps

LEMMA OpenKeeps ==
  ASSUME SessionInv, NEW t \in Tabs, Auth!Open(t) PROVE SessionInv'
<1> DEFINE opened == [tab[t] EXCEPT !.page = "app", !.status = "loading",
                                    !.call = Auth!Request("me", Auth!Carried(t))]
           n == tab[t].url
           stay == n # None /\ \E x \in tokens : x.flow = n /\ x.stay
           moved == [opened EXCEPT !.url = None, !.session = IF stay THEN None ELSE n]
<1>1. Auth!Request("me", Auth!Carried(t)) \in Auth!Requests
  BY CarriedType, RequestType DEF SessionInv
<1>2. opened \in Auth!TabStates /\ moved \in Auth!TabStates
  BY <1>1, ZenonT(30) DEF SessionInv, Auth!TypeOK, Auth!TabStates, Auth!Refs
<1>3. opened.page = "app" /\ moved.page = "app"
  BY DEF SessionInv, Auth!TypeOK, Auth!TabStates
<1>4. CASE n = None
  <2>1. tab' = [tab EXCEPT ![t] = opened] /\ local' = local
    BY <1>4 DEF Auth!Open, Auth!Set
  <2> QED BY <1>2, <1>3, <2>1, OneTabStep, Zenon DEF Auth!Open, SessionInv, Auth!TypeOK
<1>5. CASE n # None
  <2>1. tab' = [tab EXCEPT ![t] = moved] /\ local' \in Auth!Refs
    BY <1>5 DEF Auth!Open, Auth!Set, SessionInv, Auth!TypeOK, Auth!TabStates, Auth!Refs
  <2> QED BY <1>2, <1>3, <2>1, OneTabStep, Zenon DEF Auth!Open, SessionInv, Auth!TypeOK
<1> QED BY <1>4, <1>5

\* A request of a signed-in tab, or its answer: the tab is at the app.
LEMMA BusyTabIsAtTheApp ==
  ASSUME SessionInv, NEW t \in Tabs,
         tab[t].status = "authenticated" \/ tab[t].call.kind \in {"me", "api", "logout"}
  PROVE  tab[t].page \notin {"github", "callback"}
BY DEF SessionInv, CallbackAlone

LEMMA CallKeeps ==
  ASSUME SessionInv, NEW t \in Tabs, Auth!Call(t) \/ Auth!Logout(t) PROVE SessionInv'
<1>1. ASSUME NEW k \in {"api", "logout"}, NEW n \in Auth!Refs
      PROVE  [tab[t] EXCEPT !.call = Auth!Request(k, n)] \in Auth!TabStates
  BY RequestType DEF SessionInv, Auth!TypeOK, Auth!TabStates
<1>2. tab[t].page \notin {"github", "callback"}
  BY BusyTabIsAtTheApp DEF Auth!Call, Auth!Logout, Auth!ProtectedRoute
<1>3. [tab[t] EXCEPT !.call = Auth!Request("api", Auth!Carried(t))] \in Auth!TabStates
  BY <1>1, CarriedType DEF SessionInv
<1>4. [tab[t] EXCEPT !.call = Auth!Request("logout", None)] \in Auth!TabStates
  BY <1>1 DEF Auth!Refs
<1>5. CASE Auth!Call(t)
  BY <1>2, <1>3, <1>5, OneTabStep, Zenon DEF Auth!Call, Auth!Set, SessionInv, Auth!TypeOK,
     Auth!TabStates
<1>6. CASE Auth!Logout(t)
  BY <1>2, <1>4, <1>6, OneTabStep, Zenon DEF Auth!Logout, Auth!Set, SessionInv, Auth!TypeOK,
     Auth!TabStates
<1> QED BY <1>5, <1>6

LEMMA AnswerKeeps ==
  ASSUME SessionInv, NEW t \in Tabs,
         Auth!Succeeds(t) \/ Auth!Rejected(t) \/ Auth!Fails(t) \/ Auth!LogoutEnds(t)
  PROVE  SessionInv'
<1>1. tab[t].page \notin {"github", "callback"}
  BY BusyTabIsAtTheApp DEF Auth!Succeeds, Auth!Rejected, Auth!Fails, Auth!LogoutEnds
<1>2. ASSUME NEW s \in {"authenticated", "unauthenticated"}
      PROVE  /\ [tab[t] EXCEPT !.call = Auth!NoCall, !.status = Auth!StatusAfter(t, s)] \in Auth!TabStates
             /\ [tab[t] EXCEPT !.call = Auth!NoCall, !.session = None,
                               !.status = Auth!StatusAfter(t, s)] \in Auth!TabStates
             /\ [tab[t] EXCEPT !.call = Auth!NoCall, !.session = None, !.status = s] \in Auth!TabStates
  BY NoCallType, ZenonT(30) DEF SessionInv, Auth!TypeOK, Auth!TabStates, Auth!StatusAfter,
     Auth!Refs
<1>3. CASE Auth!Succeeds(t)
  BY <1>1, <1>2, <1>3, OneTabStep, ZenonT(30) DEF Auth!Succeeds, Auth!Set, SessionInv,
     Auth!TypeOK,
     Auth!TabStates
<1>4. CASE Auth!Rejected(t)
  <2> DEFINE r == [tab[t] EXCEPT !.call = Auth!NoCall, !.session = None,
                                 !.status = Auth!StatusAfter(t, "unauthenticated")]
  <2>1. r \in Auth!TabStates /\ r.page = tab[t].page
    BY <1>2 DEF SessionInv, Auth!TypeOK, Auth!TabStates
  <2>2. tab' = [tab EXCEPT ![t] = r] /\ local' \in Auth!Refs /\ UNCHANGED <<asked, tokens, cookies, dead>>
    BY <1>4 DEF Auth!Rejected, Auth!Set, Auth!Refs
  <2> HIDE DEF r
  <2> QED BY <1>1, <2>1, <2>2, OneTabStep, Zenon DEF SessionInv, Auth!TypeOK
<1>5. CASE Auth!Fails(t)
  BY <1>1, <1>2, <1>5, OneTabStep, ZenonT(30) DEF Auth!Fails, Auth!Set, SessionInv, Auth!TypeOK,
     Auth!TabStates
<1>6. CASE Auth!LogoutEnds(t)
  <2>1. /\ cookies' \in [state : Auth!Refs, stay : BOOLEAN, token : Auth!Refs]
        /\ cookies'.state = cookies.state /\ cookies'.stay = cookies.stay
    BY <1>6 DEF Auth!LogoutEnds, SessionInv, Auth!TypeOK, Auth!Refs
  <2> DEFINE r == [tab[t] EXCEPT !.call = Auth!NoCall, !.session = None, !.status = "unauthenticated"]
  <2>2. r \in Auth!TabStates /\ r.page = tab[t].page
    BY <1>2 DEF SessionInv, Auth!TypeOK, Auth!TabStates
  <2>3. tab' = [tab EXCEPT ![t] = r] /\ local' \in Auth!Refs /\ UNCHANGED <<asked, tokens, dead>>
    BY <1>6 DEF Auth!LogoutEnds, Auth!Set, Auth!Refs
  <2> HIDE DEF r
  <2> QED BY <1>1, <2>1, <2>2, <2>3, OneTabStep, Zenon DEF SessionInv, Auth!TypeOK
<1> QED BY <1>3, <1>4, <1>5, <1>6

LEMMA ConfirmKeeps ==
  ASSUME SessionInv, NEW t \in Tabs, NEW stay \in BOOLEAN, Auth!Confirm(t, stay) PROVE SessionInv'
<1> DEFINE n == Auth!Stored(t)
           r == [tab[t] EXCEPT !.session = IF stay THEN None ELSE n, !.url = None]
<1>1. CASE n = None
  BY <1>1, PageStepKeeps DEF Auth!Confirm, SessionInv, Auth!TypeOK
<1>2. CASE n # None
  <2>1. r \in Auth!TabStates /\ r.page = tab[t].page
    BY CarriedType, ZenonT(30) DEF SessionInv, Auth!TypeOK, Auth!TabStates, Auth!Refs
  <2>2. tab' = [tab EXCEPT ![t] = r] /\ local' \in Auth!Refs
    BY <1>2, CarriedType DEF Auth!Confirm, Auth!Keep, Auth!Set, SessionInv, Auth!Refs
  <2>3. tab[t].page \notin {"github", "callback"}
    BY BusyTabIsAtTheApp DEF Auth!Confirm, Auth!AccountConfirmationState
  <2> HIDE DEF r
  <2> QED BY <2>1, <2>2, <2>3, OneTabStep, Zenon DEF Auth!Confirm, SessionInv, Auth!TypeOK
<1> QED BY <1>1, <1>2

LEMMA DiesKeeps ==
  ASSUME SessionInv, NEW n \in Auth!Issued, Auth!Dies(n) PROVE SessionInv'
<1>1. Auth!TypeOK'
  BY DEF SessionInv, Auth!TypeOK, Auth!Dies, Auth!Issued
<1> QED BY <1>1, PageStepKeeps DEF Auth!Dies
------------------------------------------------------------------------------
\* What a flow asked for is set once, when it is begun.
LEMMA ConnectKeeps ==
  ASSUME SessionInv, NEW t \in Tabs, NEW n \in Flows, NEW stay \in BOOLEAN, Auth!Connect(t, n, stay)
  PROVE  SessionInv'
<1> DEFINE r == [Auth!ClosedTab EXCEPT !.page = "github", !.flow = n, !.session = tab[t].session]
<1>1. r \in Auth!TabStates /\ r.page = "github" /\ r.status = "loading" /\ r.call.kind = "none"
  BY FreshTab, NoCallType, ZenonT(30) DEF Auth!ClosedTab, SessionInv, Auth!TypeOK,
     Auth!TabStates, Auth!Refs
<1>2. /\ tab' \in [Tabs -> Auth!TabStates] /\ tab'[t] = r
      /\ \A u \in Tabs \ {t} : tab'[u] = tab[u]
  BY <1>1, TabReplaced DEF Auth!Connect, Auth!Set, SessionInv, Auth!TypeOK
<1>3. \A f \in Flows : asked[f] # None => asked'[f] = asked[f]
  BY DEF SessionInv, Auth!TypeOK, Auth!Connect
<1>4. Auth!TypeOK'
  BY <1>2, Zenon DEF SessionInv, Auth!TypeOK, Auth!Connect, Auth!Refs
<1>5. JarPaired'
  BY DEF SessionInv, Auth!TypeOK, JarPaired, Auth!Connect
<1>6. CallbackPaired'
  <2> SUFFICES ASSUME NEW u \in Tabs, tab'[u].page = "callback", tab'[u].call.token # None
               PROVE  tab'[u].call.stay = asked'[tab'[u].call.token]
    BY DEF CallbackPaired
  <2>1. tab'[u] = tab[u]
    BY <1>1, <1>2, Zenon
  <2>2. tab[u].call.token \in Flows /\ tab[u].call.stay \in BOOLEAN
    BY <2>1 DEF SessionInv, Auth!TypeOK, Auth!TabStates, Auth!Requests, Auth!Refs
  <2>3. tab[u].call.stay = asked[tab[u].call.token]
    BY <2>1 DEF SessionInv, CallbackPaired
  <2> QED BY <1>3, <2>1, <2>2, <2>3, NoneIsNothing
<1>7. CallbackAlone'
  BY <1>1, <1>2, ZenonT(30) DEF SessionInv, CallbackAlone
<1>8. Auth!StayIsOfItsFlow'
  <2> SUFFICES ASSUME NEW x \in tokens PROVE x.stay = asked'[x.flow]
    BY DEF Auth!StayIsOfItsFlow, Auth!Connect
  <2>1. x.flow \in Flows /\ x.stay \in BOOLEAN /\ x.stay = asked[x.flow]
    BY DEF SessionInv, Auth!TypeOK, Auth!StayIsOfItsFlow
  <2> QED BY <1>3, <2>1, NoneIsNothing
<1> QED BY <1>4, <1>5, <1>6, <1>7, <1>8 DEF SessionInv

\* The callback takes the pair from the jar.
LEMMA ApproveKeeps ==
  ASSUME SessionInv, NEW t \in Tabs, Auth!Approve(t) PROVE SessionInv'
<1> DEFINE c == [kind |-> "callback", token |-> cookies.state, stay |-> cookies.stay]
           r == [tab[t] EXCEPT !.page = "callback", !.call = c]
<1>1. /\ r \in Auth!TabStates /\ r.status = "loading" /\ r.call.kind = "callback"
      /\ r.call.token = cookies.state /\ r.call.stay = cookies.stay
  BY ZenonT(30) DEF SessionInv, Auth!TypeOK, CallbackAlone, Auth!Approve, Auth!TabStates,
     Auth!Requests
<1>2. /\ tab' \in [Tabs -> Auth!TabStates] /\ tab'[t] = r
      /\ \A u \in Tabs \ {t} : tab'[u] = tab[u]
  <2>1. tab' = [tab EXCEPT ![t] = r]
    BY DEF Auth!Approve, Auth!Set
  <2> HIDE DEF r
  <2> QED BY <1>1, <2>1, TabReplaced DEF SessionInv, Auth!TypeOK
<1> HIDE DEF r
<1>3. Auth!TypeOK'
  BY <1>2 DEF SessionInv, Auth!TypeOK, Auth!Approve
<1>4. CallbackPaired'
  <2> SUFFICES ASSUME NEW u \in Tabs, tab'[u].page = "callback", tab'[u].call.token # None
               PROVE  tab'[u].call.stay = asked[tab'[u].call.token]
    BY DEF CallbackPaired, Auth!Approve
  <2>1. CASE u = t
    BY <1>1, <1>2, <2>1 DEF SessionInv, JarPaired
  <2>2. CASE u # t
    BY <1>2, <2>2 DEF SessionInv, CallbackPaired
  <2> QED BY <2>1, <2>2
<1>5. CallbackAlone'
  BY <1>1, <1>2 DEF SessionInv, CallbackAlone
<1> QED BY <1>3, <1>4, <1>5 DEF SessionInv, JarPaired, Auth!StayIsOfItsFlow, Auth!Approve

\* A fresh page after a callback: nothing is under way in that tab.
LEMMA TabAfterCallback ==
  ASSUME SessionInv, NEW t \in Tabs, NEW r \in Auth!TabStates, r.page = "closed",
         tab' = [tab EXCEPT ![t] = r], UNCHANGED asked
  PROVE  tab' \in [Tabs -> Auth!TabStates] /\ CallbackPaired' /\ CallbackAlone'
<1>2. /\ tab' \in [Tabs -> Auth!TabStates] /\ tab'[t] = r
      /\ \A v \in Tabs \ {t} : tab'[v] = tab[v]
  BY TabReplaced DEF SessionInv, Auth!TypeOK
<1> QED BY <1>2 DEF SessionInv, CallbackPaired, CallbackAlone

\* The one place where a session is made: the state check makes the pairing
\* of the callback that of the tab's own flow.
LEMMA CallbackKeeps ==
  ASSUME SessionInv, NEW t \in Tabs, Auth!CallbackSucceeds(t) \/ Auth!CallbackFails(t) PROVE SessionInv'
<1>1. CASE Auth!CallbackSucceeds(t)
  <2>1. /\ tab[t].flow \in Flows /\ tab[t].call.stay \in BOOLEAN
        /\ tab[t].call.stay = asked[tab[t].flow]
    BY <1>1 DEF SessionInv, Auth!TypeOK, Auth!TabStates, Auth!Requests, Auth!Refs,
       CallbackPaired,
                Auth!CallbackSucceeds, Auth!StateMatches
  <2> DEFINE r == Auth!Redirected(t, tab[t].flow)
  <2>2. tab' \in [Tabs -> Auth!TabStates] /\ CallbackPaired' /\ CallbackAlone'
    <3>1. r \in Auth!TabStates /\ r.page = "closed"
      <4>1. tab[t].flow \in Auth!Refs /\ tab[t].session \in Auth!Refs /\ None \in Auth!Refs
        BY DEF SessionInv, Auth!TypeOK, Auth!TabStates, Auth!Refs
      <4> QED BY <4>1, FreshTab, Zenon DEF Auth!Redirected
    <3>2. tab' = [tab EXCEPT ![t] = r] /\ UNCHANGED asked
      BY <1>1 DEF Auth!CallbackSucceeds, Auth!Set
    <3> HIDE DEF r
    <3> QED BY <3>1, <3>2, TabAfterCallback, Zenon
  <2>3. Auth!TypeOK'
    BY <1>1, <2>1, <2>2 DEF SessionInv, Auth!TypeOK, Auth!CallbackSucceeds, Auth!Refs
  <2>4. JarPaired' /\ Auth!StayIsOfItsFlow'
    BY <1>1, <2>1 DEF SessionInv, JarPaired, Auth!StayIsOfItsFlow, Auth!CallbackSucceeds
  <2> QED BY <2>2, <2>3, <2>4 DEF SessionInv
<1>2. CASE Auth!CallbackFails(t)
  <2> DEFINE r == Auth!Redirected(t, None)
  <2>2. tab' \in [Tabs -> Auth!TabStates] /\ CallbackPaired' /\ CallbackAlone'
    <3>1. r \in Auth!TabStates /\ r.page = "closed"
      BY FreshTab DEF Auth!Redirected, SessionInv, Auth!TypeOK, Auth!TabStates, Auth!Refs
    <3>2. tab' = [tab EXCEPT ![t] = r] /\ UNCHANGED asked
      BY <1>2 DEF Auth!CallbackFails, Auth!Set
    <3> HIDE DEF r
    <3> QED BY <3>1, <3>2, TabAfterCallback, Zenon
  <2>3. Auth!TypeOK' /\ JarPaired' /\ Auth!StayIsOfItsFlow'
    BY <1>2, <2>2, Zenon DEF SessionInv, Auth!TypeOK, JarPaired, Auth!StayIsOfItsFlow,
       Auth!CallbackFails, Auth!Refs
  <2> QED BY <2>2, <2>3 DEF SessionInv
<1> QED BY <1>1, <1>2

LEMMA SessionInitially == Auth!Init => SessionInv
<1> SUFFICES ASSUME Auth!Init PROVE SessionInv
  OBVIOUS
<1>1. Auth!ClosedTab \in Auth!TabStates
  BY FreshTab, Zenon DEF Auth!ClosedTab, Auth!Refs
<1>2. Auth!TypeOK
  BY <1>1 DEF Auth!Init, Auth!TypeOK, Auth!Refs
<1> QED BY <1>2 DEF Auth!Init, SessionInv, JarPaired, CallbackPaired, CallbackAlone,
                    Auth!StayIsOfItsFlow, Auth!ClosedTab, Auth!NoCall

LEMMA SessionKeeps == SessionInv /\ [Auth!Next]_sessionVars => SessionInv'
<1> SUFFICES ASSUME SessionInv, [Auth!Next]_sessionVars PROVE SessionInv'
  OBVIOUS
<1>1. ASSUME NEW t \in Tabs, NEW stay \in BOOLEAN, Auth!Confirm(t, stay) PROVE SessionInv'
  BY <1>1, ConfirmKeeps
<1>2. ASSUME NEW t \in Tabs, NEW stay \in BOOLEAN, NEW n \in Flows, Auth!Connect(t, n, stay)
      PROVE SessionInv'
  BY <1>2, ConnectKeeps
<1>3. ASSUME NEW t \in Tabs, Auth!Approve(t) PROVE SessionInv'
  BY <1>3, ApproveKeeps
<1>4. ASSUME NEW t \in Tabs, Auth!CallbackSucceeds(t) \/ Auth!CallbackFails(t) PROVE SessionInv'
  BY <1>4, CallbackKeeps
<1>5. ASSUME NEW t \in Tabs, Auth!Open(t) PROVE SessionInv'
  BY <1>5, OpenKeeps
<1>6. ASSUME NEW t \in Tabs, Auth!Call(t) \/ Auth!Logout(t) PROVE SessionInv'
  BY <1>6, CallKeeps
<1>7. ASSUME NEW t \in Tabs, Auth!Succeeds(t) \/ Auth!Rejected(t) \/ Auth!Fails(t) \/ Auth!LogoutEnds(t)
      PROVE SessionInv'
  BY <1>7, AnswerKeeps
<1>8. ASSUME NEW n \in Auth!Issued, Auth!Dies(n) PROVE SessionInv'
  BY <1>8, DiesKeeps
<1>9. CASE UNCHANGED sessionVars
  BY <1>9 DEF sessionVars, SessionInv, Auth!TypeOK, JarPaired, CallbackPaired,
     CallbackAlone, Auth!StayIsOfItsFlow
<1> QED BY <1>1, <1>2, <1>3, <1>4, <1>5, <1>6, <1>7, <1>8, <1>9 DEF Auth!Next

\* Whatever the number of tabs and of sign-ins begun in them, a session
\* lasts as long as the sign-in it was made by asked for.
THEOREM SessionsLastAsAsked == ConsoleSpec => []StayIsOfItsFlow
<1>1. ConsoleInit => SessionInv
  BY SessionInitially DEF ConsoleInit
<1>2. SessionInv /\ [ConsoleNext]_consoleVars => SessionInv'
  BY StepsOfSession, SessionKeeps
<1>3. SessionInv => StayIsOfItsFlow
  BY DEF SessionInv, StayIsOfItsFlow
<1> QED
  BY <1>1, <1>2, <1>3, PTL DEF ConsoleSpec
------------------------------------------------------------------------------
(* The dependency panel.                                                   *)

LEMMA StepsOfPanel == [ConsoleNext]_consoleVars => [Panel!Next]_panelVars
  BY DEF ConsoleNext, consoleVars, panelVars

PanelInv == graph \in Graphs \cup {Panel!NoGraph}

LEMMA PanelKeeps == PanelInv /\ [Panel!Next]_panelVars => PanelInv'
<1> SUFFICES ASSUME PanelInv, [Panel!Next]_panelVars PROVE PanelInv'
  OBVIOUS
<1>1. graph' = graph \/ graph' \in Graphs
  BY DEF Panel!Next, panelVars, Panel!Load, Panel!Answer, Panel!SetMode, Panel!SetFilter,
         Panel!ChooseCycle, Panel!ClearCycle, Panel!ClickCard, Panel!SearchResult,
         Panel!OpenRelated, Panel!Deselect, Panel!ResetCanvas, Panel!ToggleFullView, Panel!Escape
<1> QED
  BY <1>1 DEF PanelInv, Panel!NoGraph

\* Every edge of the cycle is an edge of the graph between two of its files.
LEMMA CycleOfGraph ==
  ASSUME PanelInv, NEW i \in DOMAIN graph.cycles
  PROVE  Panel!CycleHighlight(i) \subseteq graph.edges \cap (graph.files \X graph.files)
<1>1. graph \in Graphs
  BY DEF PanelInv, Panel!NoGraph
<1>2. \A j \in 1..(Len(graph.cycles[i]) - 1) :
        <<graph.cycles[i][j], graph.cycles[i][j + 1]>> \in graph.edges \cap (graph.files \X graph.files)
  BY <1>1, GraphsAssumption
<1>3. Panel!CycleHighlight(i) = {<<graph.cycles[i][j], graph.cycles[i][j + 1]>> :
                                 j \in 1..(Len(graph.cycles[i]) - 1)}
  BY DEF Panel!CycleHighlight
<1> QED
  BY <1>2, <1>3

LEMMA ChoiceIsDrawn ==
  ASSUME PanelInv, [Panel!Next]_panelVars, cycle' # cycle, cycle' # 0
  PROVE  mode' = "files" /\ Panel!VisibleEdges' = Panel!CycleHighlight(cycle)'
<1>1. PICK i \in 1..2 : Panel!ChooseCycle(i)
  BY DEF Panel!Next, panelVars, Panel!Load, Panel!Answer, Panel!SetMode, Panel!SetFilter,
         Panel!ClearCycle, Panel!ClickCard, Panel!SearchResult,
         Panel!OpenRelated, Panel!Deselect, Panel!ResetCanvas, Panel!ToggleFullView, Panel!Escape
<1>2. /\ i \in DOMAIN graph.cycles /\ graph' = graph /\ cycle' = i
      /\ filter' = "circular" /\ mode' = "files"
  BY <1>1 DEF Panel!ChooseCycle
<1>3. Panel!CycleHighlight(cycle)' = Panel!CycleHighlight(i)
  BY <1>2 DEF Panel!CycleHighlight
<1>4. Panel!VisibleEdges' = Panel!CycleHighlight(cycle)' \cap graph.edges \cap (graph.files \X graph.files)
  BY <1>2 DEF Panel!VisibleEdges
<1>5. Panel!CycleHighlight(i) \subseteq graph.edges \cap (graph.files \X graph.files)
  BY <1>2, CycleOfGraph
<1> QED
  BY <1>2, <1>3, <1>4, <1>5

\* Choosing a cycle draws all of it, in every graph and from every state of the
\* panel that was chosen in another graph before.
THEOREM ChoicesAreDrawn == ConsoleSpec => ChosenCycleIsDrawn
<1>1. ConsoleInit => PanelInv
  BY DEF ConsoleInit, PanelInv, Panel!Init
<1>2. PanelInv /\ [ConsoleNext]_consoleVars => PanelInv'
  BY PanelKeeps, StepsOfPanel
<1>3. PanelInv /\ [ConsoleNext]_consoleVars =>
        [cycle' # cycle /\ cycle' # 0 =>
           (mode' = "files" /\ Panel!VisibleEdges' = Panel!CycleHighlight(cycle)')]_panelVars
  BY ChoiceIsDrawn, StepsOfPanel
<1> QED
  BY <1>1, <1>2, <1>3, PTL DEF ConsoleSpec, ChosenCycleIsDrawn, Panel!ChosenCycleIsDrawn,
     panelVars,
     Panel!vars
------------------------------------------------------------------------------
(* The pages of a repository.                                              *)

LEMMA StepsOfPages == [ConsoleNext]_consoleVars => [Pages!Next]_pagesVars
  BY DEF ConsoleNext, consoleVars, pagesVars

PageKeys == (PageRepos \cup {None}) \X ({None} \cup Pages!Filters \cup Paths)
PageEntries == [status : {"idle", "loading", "ready", "none", "empty", "error", "not-found"},
                of : PageKeys \cup {None}, v : {"none", "some", "processing"}]
PageStates == [page : PageKinds, repo : PageRepos \cup {None}, filter : Pages!Filters,
               preview : Paths \cup {None}, slot : [Pages!Slots -> PageEntries]]
PageCalls == [load : Pages!Loads, by : {"effect", "button"}, slot : Pages!Slots, key : PageKeys]

\* The loads of the drawer, whose selection changes while the page stays.
Drawer == {"content", "explanation"}

\* The others have an entry per selection: what is in it, and what is on its
\* way to it, was asked for that selection.
Filed(u, cs) ==
  /\ u \in PageStates /\ cs \subseteq PageCalls
  /\ \A s \in Pages!Slots : s[1] \notin Drawer =>
       /\ u.slot[s].of \in {None, <<u.repo, s[2]>>}
       /\ u.slot[s].status = "ready" => u.slot[s].of = <<u.repo, s[2]>>
  /\ \A c \in cs : /\ c.slot[1] = c.load
                   /\ c.load \notin Drawer => c.key = <<u.repo, c.slot[2]>>
                   /\ c.load = "content" => c.by = "effect"

\* The file that is shown, and the one asked for, is the one selected.
Settled(u, cs) ==
  /\ u.slot[<<"content", None>>].status = "ready" =>
       u.slot[<<"content", None>>].of = <<u.repo, u.preview>>
  /\ \A c \in cs : c.load = "content" => c.key = <<u.repo, u.preview>>

PagesInv == Filed(ui, calls) /\ Settled(ui, calls)

LEMMA SlotIs ==
  ASSUME NEW u \in PageStates, NEW l \in Pages!Loads
  PROVE  /\ Pages!Slot(u, l) \in Pages!Slots /\ Pages!Slot(u, l)[1] = l
         /\ Pages!Key(u, l) \in PageKeys
         /\ l \notin Drawer => Pages!Key(u, l) = <<u.repo, Pages!Slot(u, l)[2]>>
         /\ l \in Drawer => /\ Pages!Slot(u, l) = <<l, None>>
                            /\ Pages!Key(u, l) = <<u.repo, u.preview>>
<1>1. /\ u.repo \in PageRepos \cup {None} /\ u.filter \in Pages!Filters
      /\ u.preview \in Paths \cup {None} /\ Default \in Pages!Filters
  BY PagesAssumption DEF PageStates, Pages!Filters
<1>2. CASE Pages!Cached(u, l)
  <2>1. l \in {"commits", "files"}
    BY <1>2 DEF Pages!Cached
  <2>2. PICK f \in Pages!Filters : Pages!Key(u, l) = <<u.repo, f>>
    BY <1>1, <1>2, <2>1 DEF Pages!Key
  <2>3. Pages!Slot(u, l) = <<l, f>>
    BY <1>2, <2>2 DEF Pages!Slot
  <2> QED
    BY <1>1, <2>1, <2>2, <2>3 DEF Pages!Slots, PageKeys, Drawer
<1>3. CASE ~ Pages!Cached(u, l)
  <2>1. Pages!Slot(u, l) = <<l, None>>
    BY <1>3 DEF Pages!Slot
  <2>2. Pages!Key(u, l) = IF l \in Drawer THEN <<u.repo, u.preview>> ELSE <<u.repo, None>>
    BY <1>3 DEF Pages!Key, Drawer
  <2> QED
    BY <1>1, <2>1, <2>2 DEF Pages!Slots, PageKeys
<1> QED
  BY <1>2, <1>3

\* What the effects of S do.
LEMMA RunIs ==
  ASSUME NEW u \in PageStates, NEW cs, NEW S \in SUBSET Pages!Loads
  PROVE  LET r == Pages!Run(u, cs, S)
         IN /\ r.ui \in PageStates
            /\ r.ui.page = u.page /\ r.ui.repo = u.repo /\ r.ui.preview = u.preview
            /\ \A s \in Pages!Slots : \/ /\ r.ui.slot[s].status = "loading"
                                         /\ r.ui.slot[s].of = u.slot[s].of
                                      \/ r.ui.slot[s] = Pages!Blank
                                      \/ r.ui.slot[s] = u.slot[s]
            /\ \A c \in r.calls : \/ c \in cs /\ ~ (c.by = "effect" /\ c.load \in S)
                                  \/ \E l \in S : c = Pages!Ask(u, l, "effect")
            /\ IF "content" \in S
               THEN r.ui.slot[<<"content", None>>].status # "ready"
               ELSE r.ui.slot[<<"content", None>>] = u.slot[<<"content", None>>]
<1> DEFINE started == {l \in S : Pages!Starts(u, l)}
           awaited == {Pages!Slot(u, l) : l \in started}
           cleared == {Pages!Slot(u, l) : l \in {x \in S : Pages!Clears(u, x)}} \cup
                      (IF "content" \in started THEN {Pages!Slot(u, "explanation")} ELSE {})
           slots == [s \in DOMAIN u.slot |->
                       IF s \in awaited THEN [u.slot[s] EXCEPT !.status = "loading"]
                       ELSE IF s \in cleared THEN Pages!Blank ELSE u.slot[s]]
           r == Pages!Run(u, cs, S)
           k == <<"content", None>>
<1>1. /\ r.ui = [u EXCEPT !.slot = slots]
      /\ r.calls = Pages!Cancelled(cs, S) \cup {Pages!Ask(u, l, "effect") : l \in started}
  BY DEF Pages!Run
<1>2. u.slot \in [Pages!Slots -> PageEntries] /\ Pages!Blank \in PageEntries
  BY DEF PageStates, PageEntries, Pages!Blank
<1>3. \A l \in Pages!Loads : Pages!Slot(u, l)[1] = l
  BY SlotIs
<1>4. k \in Pages!Slots /\ Pages!Slot(u, "content") = k /\ k[1] = "content"
  <2>1. "content" \in Pages!Loads /\ "content" \in Drawer
    BY DEF Pages!Loads, Drawer
  <2> QED
    BY <2>1, SlotIs
<1>5. k \in awaited <=> "content" \in started
  BY <1>3, <1>4
<1>6. "explanation" \in Pages!Loads
  BY DEF Pages!Loads
<1>7. k \in cleared <=> "content" \in S /\ Pages!Clears(u, "content")
  BY <1>3, <1>4, <1>6
<1>8. "content" \in S => "content" \in started \/ Pages!Clears(u, "content")
  BY DEF Pages!Starts, Pages!Clears, Pages!Cached
<1> HIDE DEF started, awaited, cleared
<1>9. /\ slots \in [Pages!Slots -> PageEntries]
      /\ \A s \in Pages!Slots : /\ s \in awaited => slots[s] = [u.slot[s] EXCEPT !.status = "loading"]
                                /\ s \notin awaited /\ s \in cleared => slots[s] = Pages!Blank
                                /\ s \notin awaited /\ s \notin cleared => slots[s] = u.slot[s]
  <2>1. \A s \in Pages!Slots : /\ u.slot[s] \in PageEntries
                               /\ [u.slot[s] EXCEPT !.status = "loading"] \in PageEntries
    BY <1>2 DEF PageEntries
  <2> QED
    BY <2>1, <1>2
<1> HIDE DEF slots
<1>10. /\ r.ui \in PageStates /\ r.ui.slot = slots
       /\ r.ui.page = u.page /\ r.ui.repo = u.repo /\ r.ui.preview = u.preview
  BY <1>1, <1>9 DEF PageStates
<1>11. \A s \in Pages!Slots : /\ u.slot[s] \in PageEntries
                              /\ [u.slot[s] EXCEPT !.status = "loading"].status = "loading"
                              /\ [u.slot[s] EXCEPT !.status = "loading"].of = u.slot[s].of
  BY <1>2 DEF PageEntries
<1>12. \A s \in Pages!Slots : \/ slots[s].status = "loading" /\ slots[s].of = u.slot[s].of
                              \/ slots[s] = Pages!Blank
                              \/ slots[s] = u.slot[s]
  BY <1>9, <1>11, Zenon
<1>13. \A c \in r.calls : \/ c \in cs /\ ~ (c.by = "effect" /\ c.load \in S)
                          \/ \E l \in S : c = Pages!Ask(u, l, "effect")
  BY <1>1 DEF Pages!Cancelled, started
<1>14. IF "content" \in S THEN slots[k].status # "ready" ELSE slots[k] = u.slot[k]
  <2>1. Pages!Blank.status # "ready"
    BY DEF Pages!Blank
  <2>2. "content" \in started => "content" \in S
    BY DEF started
  <2> QED
    BY <2>1, <2>2, <1>4, <1>5, <1>7, <1>8, <1>9, <1>11, Zenon
<1> HIDE DEF r
<1> QED
  BY <1>10, <1>12, <1>13, <1>14 DEF r

LEMMA AskIs ==
  ASSUME NEW u \in PageStates, NEW l \in Pages!Loads, NEW by \in {"effect", "button"}
  PROVE  LET c == Pages!Ask(u, l, by)
         IN /\ c \in PageCalls /\ c.load = l /\ c.by = by /\ c.slot[1] = l
            /\ l \notin Drawer => c.key = <<u.repo, c.slot[2]>>
            /\ l \in Drawer => c.key = <<u.repo, u.preview>>
  BY SlotIs DEF Pages!Ask, PageCalls

LEMMA RunFiles ==
  ASSUME NEW u, NEW cs, Filed(u, cs), NEW S \in SUBSET Pages!Loads
  PROVE  LET r == Pages!Run(u, cs, S)
         IN /\ Filed(r.ui, r.calls)
            /\ Settled(u, cs) \/ "content" \in S => Settled(r.ui, r.calls)
<1> DEFINE r == Pages!Run(u, cs, S)
           k == <<"content", None>>
<1>1. u \in PageStates /\ cs \subseteq PageCalls
  BY DEF Filed
<1>2. /\ r.ui \in PageStates
      /\ r.ui.page = u.page /\ r.ui.repo = u.repo /\ r.ui.preview = u.preview
      /\ \A s \in Pages!Slots : \/ r.ui.slot[s].status = "loading" /\ r.ui.slot[s].of = u.slot[s].of
                                \/ r.ui.slot[s] = Pages!Blank
                                \/ r.ui.slot[s] = u.slot[s]
      /\ \A c \in r.calls : \/ c \in cs /\ ~ (c.by = "effect" /\ c.load \in S)
                            \/ \E l \in S : c = Pages!Ask(u, l, "effect")
      /\ IF "content" \in S THEN r.ui.slot[k].status # "ready" ELSE r.ui.slot[k] = u.slot[k]
  BY <1>1, RunIs
<1> HIDE DEF r
<1>3. ASSUME NEW c \in r.calls
      PROVE  /\ c \in PageCalls /\ c.slot[1] = c.load
             /\ c.load \notin Drawer => c.key = <<u.repo, c.slot[2]>>
             /\ c.load = "content" => c.by = "effect"
             /\ c.load = "content" => \/ c \in cs /\ "content" \notin S
                                      \/ c.key = <<u.repo, u.preview>>
  <2>1. CASE c \in cs /\ ~ (c.by = "effect" /\ c.load \in S)
    BY <2>1 DEF Filed
  <2>2. CASE \E l \in S : c = Pages!Ask(u, l, "effect")
    <3>1. PICK l \in S : c = Pages!Ask(u, l, "effect")
      BY <2>2
    <3> QED
      BY <3>1, <1>1, AskIs DEF Drawer
  <2> QED
    BY <2>1, <2>2, <1>2
<1>4. ASSUME NEW s \in Pages!Slots, s[1] \notin Drawer
      PROVE  /\ r.ui.slot[s].of \in {None, <<u.repo, s[2]>>}
             /\ r.ui.slot[s].status = "ready" => r.ui.slot[s].of = <<u.repo, s[2]>>
  <2>1. /\ u.slot[s].of \in {None, <<u.repo, s[2]>>}
        /\ u.slot[s].status = "ready" => u.slot[s].of = <<u.repo, s[2]>>
    BY <1>4 DEF Filed
  <2>2. Pages!Blank.of = None /\ Pages!Blank.status = "idle"
    BY DEF Pages!Blank
  <2> QED
    BY <2>1, <2>2, <1>2
<1>5. Filed(r.ui, r.calls)
  BY <1>2, <1>3, <1>4 DEF Filed
<1>6. ASSUME Settled(u, cs) \/ "content" \in S PROVE Settled(r.ui, r.calls)
  BY <1>2, <1>3, <1>6 DEF Settled
<1> QED
  BY <1>5, <1>6 DEF r

LEMMA LoadsAre ==
  ASSUME NEW pg
  PROVE  Pages!LoadsOf(pg) \subseteq Pages!Loads /\ "content" \in Pages!LoadsOf(pg)
  BY DEF Pages!LoadsOf, Pages!Loads, Pages!SourceControlLoads, Pages!SoftwareEvolutionLoads,
         Pages!CommandCenterLoads, Pages!ArchitectureLoads

\* What is rendered is of the selection, that of another file too.
LEMMA RenderKeeps ==
  ASSUME NEW old, NEW u, NEW cs, NEW R \in SUBSET Pages!Loads, Filed(u, cs),
         Settled(u, cs) \/ old.preview # u.preview, Pages!Render(old, u, cs, R)
  PROVE  PagesInv'
<1> DEFINE Changed(a, b) == {l \in Pages!LoadsOf(u.page) : Pages!Inputs(a, l) # Pages!Inputs(b, l)}
           first == R \cup Changed(old, u)
           once == Pages!Run(u, cs, first)
           second == Changed(u, once.ui)
           twice == Pages!Run(once.ui, once.calls, second)
<1>1. ui' = twice.ui /\ calls' = twice.calls
  BY DEF Pages!Render
<1>2. first \in SUBSET Pages!Loads /\ second \in SUBSET Pages!Loads
  BY LoadsAre
<1>3. old.preview # u.preview => "content" \in first
  <2>1. /\ Pages!Inputs(old, "content") = <<old.preview>>
        /\ Pages!Inputs(u, "content") = <<u.preview>>
    BY DEF Pages!Inputs
  <2> QED
    BY <2>1, LoadsAre
<1> HIDE DEF first, second
<1>4. Filed(once.ui, once.calls) /\ Settled(once.ui, once.calls)
  BY <1>2, <1>3, RunFiles
<1> HIDE DEF once
<1>5. Filed(twice.ui, twice.calls) /\ Settled(twice.ui, twice.calls)
  BY <1>2, <1>4, RunFiles
<1> HIDE DEF twice
<1>6. Filed(ui', calls') /\ Settled(ui', calls')
  BY <1>1, <1>5
<1> QED
  BY <1>6 DEF PagesInv, Filed, Settled

LEMMA MountedIs ==
  ASSUME NEW pg \in PageKinds, NEW repo \in PageRepos \cup {None}
  PROVE  LET u == Pages!Mounted(pg, repo) IN Filed(u, {}) /\ Settled(u, {})
<1> DEFINE u == Pages!Mounted(pg, repo)
<1>1. /\ Pages!Blank \in PageEntries /\ Pages!Blank.of = None /\ Pages!Blank.status = "idle"
      /\ "all" \in Pages!Filters
  BY DEF Pages!Blank, PageEntries, Pages!Filters
<1>2. u \in PageStates /\ u.slot = [s \in Pages!Slots |-> Pages!Blank]
  BY <1>1 DEF Pages!Mounted, PageStates
<1>3. <<"content", None>> \in Pages!Slots
  BY DEF Pages!Slots, Pages!Loads
<1> HIDE DEF u
<1>4. \A s \in Pages!Slots : u.slot[s].of = None /\ u.slot[s].status # "ready"
  BY <1>1, <1>2
<1>5. Filed(u, {}) /\ Settled(u, {})
  BY <1>2, <1>3, <1>4 DEF Filed, Settled
<1> QED
  BY <1>5 DEF u

LEMMA OpenedIs ==
  ASSUME NEW pg \in PageKinds, NEW repo \in PageRepos \cup {None}
  PROVE  LET r == Pages!Run(Pages!Mounted(pg, repo), {}, {"identity"})
         IN Filed(r.ui, r.calls) /\ Settled(r.ui, r.calls)
<1>1. PICK u : u = Pages!Mounted(pg, repo)
  OBVIOUS
<1>2. Filed(u, {}) /\ Settled(u, {}) /\ {"identity"} \in SUBSET Pages!Loads
  BY <1>1, MountedIs DEF Pages!Loads
<1>3. LET r == Pages!Run(u, {}, {"identity"})
      IN Filed(r.ui, r.calls) /\ Settled(r.ui, r.calls)
  BY <1>2, RunFiles
<1> QED
  BY <1>1, <1>3

LEMMA PagesInitially == Pages!Init => PagesInv
<1> SUFFICES ASSUME Pages!Init PROVE PagesInv
  OBVIOUS
<1>1. PICK pg \in PageKinds, repo \in PageRepos \cup {None} :
        LET r == Pages!Run(Pages!Mounted(pg, repo), {}, {"identity"})
        IN ui = r.ui /\ calls = r.calls
  BY DEF Pages!Init
<1> QED
  BY <1>1, OpenedIs DEF PagesInv

LEMMA OpenPageKeeps ==
  ASSUME NEW pg \in PageKinds, NEW repo \in PageRepos, Pages!Open(pg, repo) PROVE PagesInv'
<1>1. PICK r : r = Pages!Run(Pages!Mounted(pg, repo), {}, {"identity"})
  OBVIOUS
<1>2. Filed(r.ui, r.calls) /\ Settled(r.ui, r.calls)
  BY <1>1, OpenedIs
<1>3. ui' = r.ui /\ calls' = r.calls
  BY <1>1 DEF Pages!Open
<1>4. Filed(ui', calls') /\ Settled(ui', calls')
  BY <1>2, <1>3
<1> QED
  BY <1>4 DEF PagesInv, Filed, Settled

\* An entry is replaced by one of the selection, or its status alone by one
\* that shows nothing.
LEMMA EntryWritten ==
  ASSUME PagesInv, NEW s \in Pages!Slots, NEW e \in PageEntries, NEW cs \in SUBSET PageCalls,
         \A c \in cs : c \in calls \/ (/\ c.slot[1] = c.load /\ c.load # "content"
                                       /\ c.load \notin Drawer => c.key = <<ui.repo, c.slot[2]>>),
         \/ e.of = ui.slot[s].of /\ e.status # "ready"
         \/ s[1] \notin Drawer /\ e.of = <<ui.repo, s[2]>>
         \/ s[1] = "content" /\ e.of = <<ui.repo, ui.preview>>
         \/ s[1] = "explanation"
  PROVE  LET u == [ui EXCEPT !.slot[s] = e] IN Filed(u, cs) /\ Settled(u, cs)
<1> DEFINE u == [ui EXCEPT !.slot[s] = e]
           k == <<"content", None>>
<1>1. ui \in PageStates /\ Filed(ui, calls) /\ Settled(ui, calls)
  BY DEF PagesInv, Filed
<1>2. /\ u \in PageStates /\ u.repo = ui.repo /\ u.preview = ui.preview
      /\ \A t \in Pages!Slots : u.slot[t] = IF t = s THEN e ELSE ui.slot[t]
  BY <1>1 DEF PageStates
<1> HIDE DEF u
<1>3. ASSUME NEW t \in Pages!Slots, t[1] \notin Drawer
      PROVE  /\ u.slot[t].of \in {None, <<ui.repo, t[2]>>}
             /\ u.slot[t].status = "ready" => u.slot[t].of = <<ui.repo, t[2]>>
  <2>1. /\ ui.slot[t].of \in {None, <<ui.repo, t[2]>>}
        /\ ui.slot[t].status = "ready" => ui.slot[t].of = <<ui.repo, t[2]>>
    BY <1>1, <1>3 DEF Filed
  <2> QED
    BY <2>1, <1>2, <1>3, Zenon DEF Drawer
<1>4. ASSUME NEW c \in cs
      PROVE  /\ c.slot[1] = c.load
             /\ c.load \notin Drawer => c.key = <<ui.repo, c.slot[2]>>
             /\ c.load = "content" => c.by = "effect" /\ c.key = <<ui.repo, ui.preview>>
  BY <1>1 DEF Filed, Settled
<1>5. Filed(u, cs)
  BY <1>2, <1>3, <1>4 DEF Filed
<1>6. k \in Pages!Slots /\ k[1] = "content"
  BY DEF Pages!Slots, Pages!Loads
<1>7. u.slot[k].status = "ready" => u.slot[k].of = <<ui.repo, ui.preview>>
  <2>1. ui.slot[k].status = "ready" => ui.slot[k].of = <<ui.repo, ui.preview>>
    BY <1>1 DEF Settled
  <2> QED
    BY <2>1, <1>2, <1>6 DEF Drawer
<1>8. Settled(u, cs)
  BY <1>2, <1>4, <1>7 DEF Settled
<1> QED
  BY <1>5, <1>8 DEF u

LEMMA SucceedsKeeps ==
  ASSUME PagesInv, NEW c \in calls, NEW v \in {"some", "none", "processing"},
         Pages!Succeeds(c, v)
  PROVE  PagesInv'
<1> DEFINE e == [status |-> Pages!Answered(c.load, v), of |-> c.key, v |-> v]
           u == [ui EXCEPT !.slot[c.slot] = e]
<1>1. /\ c \in PageCalls /\ calls \subseteq PageCalls /\ c.slot[1] = c.load
      /\ c.load \notin Drawer => c.key = <<ui.repo, c.slot[2]>>
      /\ c.load = "content" => c.key = <<ui.repo, ui.preview>>
  BY DEF PagesInv, Filed, Settled
<1>2. Pages!Render(ui, u, calls \ {c}, {})
  BY DEF Pages!Succeeds
<1>3. e \in PageEntries /\ e.of = c.key /\ c.slot \in Pages!Slots
  BY <1>1 DEF PageEntries, PageCalls, Pages!Answered
<1> HIDE DEF e
<1>4. c.load \in Drawer <=> c.load = "content" \/ c.load = "explanation"
  BY DEF Drawer
<1>5. Filed(u, calls \ {c}) /\ Settled(u, calls \ {c})
  <2>1. calls \ {c} \in SUBSET PageCalls /\ \A d \in calls \ {c} : d \in calls
    BY <1>1
  <2> QED
    BY <2>1, <1>1, <1>3, <1>4, EntryWritten
<1> HIDE DEF u
<1> QED
  BY <1>2, <1>5, RenderKeeps

LEMMA FailsPageKeeps == ASSUME PagesInv, NEW c \in calls, Pages!Fails(c) PROVE PagesInv'
<1>1. /\ c \in PageCalls /\ calls \subseteq PageCalls /\ c.slot \in Pages!Slots
      /\ ui \in PageStates /\ ui.slot[c.slot] \in PageEntries
  BY DEF PagesInv, Filed, PageCalls, PageStates
<1>2. CASE ui' = ui /\ calls' = calls \ {c}
  BY <1>2 DEF PagesInv, Filed, Settled
<1>3. CASE \E how \in {"error", "not-found"} :
             Pages!Render(ui, [ui EXCEPT !.slot[c.slot].status = how], calls \ {c}, {})
  <2>1. PICK how \in {"error", "not-found"} :
          Pages!Render(ui, [ui EXCEPT !.slot[c.slot].status = how], calls \ {c}, {})
    BY <1>3
  <2> DEFINE e == [ui.slot[c.slot] EXCEPT !.status = how]
             u == [ui EXCEPT !.slot[c.slot] = e]
  <2>2. Pages!Render(ui, u, calls \ {c}, {})
    BY <2>1
  <2>3. e \in PageEntries /\ e.of = ui.slot[c.slot].of /\ e.status # "ready"
    BY <1>1 DEF PageEntries
  <2> HIDE DEF e
  <2>4. calls \ {c} \in SUBSET PageCalls /\ \A d \in calls \ {c} : d \in calls
    BY <1>1
  <2>5. Filed(u, calls \ {c}) /\ Settled(u, calls \ {c})
    BY <2>3, <2>4, <1>1, EntryWritten
  <2> HIDE DEF u
  <2> QED
    BY <2>2, <2>5, RenderKeeps
<1> QED
  BY <1>2, <1>3, Zenon DEF Pages!Fails

LEMMA SelectionKeeps ==
  ASSUME PagesInv, \/ \E f \in Pages!Filters : Pages!SetFilter(f)
                   \/ \E p \in Paths \cup {None} : Pages!Preview(p)
  PROVE  PagesInv'
<1>1. Filed(ui, calls) /\ Settled(ui, calls) /\ ui \in PageStates
  BY DEF PagesInv, Filed
<1>2. ASSUME NEW f \in Pages!Filters, Pages!SetFilter(f) PROVE PagesInv'
  <2> DEFINE u == [ui EXCEPT !.filter = f]
  <2>1. Pages!Render(ui, u, calls, {})
    BY <1>2 DEF Pages!SetFilter
  <2>2. /\ u \in PageStates /\ u.slot = ui.slot /\ u.repo = ui.repo /\ u.preview = ui.preview
    BY <1>1 DEF PageStates
  <2> HIDE DEF u
  <2>3. Filed(u, calls) /\ Settled(u, calls)
    BY <1>1, <2>2 DEF Filed, Settled
  <2> QED
    BY <2>1, <2>3, RenderKeeps
<1>3. ASSUME NEW p \in Paths \cup {None}, Pages!Preview(p) PROVE PagesInv'
  <2> DEFINE u == [ui EXCEPT !.preview = p]
  <2>1. Pages!Render(ui, u, calls, {}) /\ ui.preview # p
    BY <1>3 DEF Pages!Preview
  <2>2. /\ u \in PageStates /\ u.slot = ui.slot /\ u.repo = ui.repo /\ u.preview = p
    BY <1>1 DEF PageStates
  <2> HIDE DEF u
  <2>3. Filed(u, calls) /\ ui.preview # u.preview
    BY <1>1, <2>1, <2>2 DEF Filed
  <2> QED
    BY <2>1, <2>3, RenderKeeps
<1> QED
  BY <1>2, <1>3

LEMMA RetryPageKeeps ==
  ASSUME PagesInv, NEW l \in Pages!Retried(ui), Pages!Retry(l) PROVE PagesInv'
<1>1. {l} \in SUBSET Pages!Loads
  BY LoadsAre DEF Pages!Retried, Pages!MainLoad, Pages!Loads
<1>2. Filed(ui, calls) /\ Settled(ui, calls) /\ Pages!Render(ui, ui, calls, {l})
  BY DEF PagesInv, Pages!Retry
<1> QED
  BY <1>1, <1>2, RenderKeeps

LEMMA PressKeeps == ASSUME PagesInv, NEW l \in Pages!Offered(ui), Pages!Press(l) PROVE PagesInv'
<1> DEFINE c == Pages!Ask(ui, l, "button")
           s == Pages!Slot(ui, l)
<1>1. ui \in PageStates /\ Filed(ui, calls) /\ Settled(ui, calls) /\ calls \subseteq PageCalls
  BY DEF PagesInv, Filed
<1>2. l \in Pages!Loads /\ l # "content"
  <2>1. l \in Pages!LoadsOf(ui.page)
    BY DEF Pages!Offered
  <2>2. l # "content"
    BY DEF Pages!Offered
  <2> QED
    BY <2>1, <2>2, LoadsAre
<1>3. /\ calls' = calls \cup {c}
      /\ \/ ui' = ui
         \/ ui' = [ui EXCEPT !.slot[s].status = "loading"]
  BY DEF Pages!Press
<1>4. /\ c \in PageCalls /\ c.slot[1] = c.load /\ c.load # "content"
      /\ c.load \notin Drawer => c.key = <<ui.repo, c.slot[2]>>
      /\ s \in Pages!Slots /\ ui.slot[s] \in PageEntries
  BY <1>1, <1>2, AskIs, SlotIs DEF PageStates
<1> HIDE DEF c, s
<1>5. calls \cup {c} \in SUBSET PageCalls
  BY <1>1, <1>4
<1>6. Filed(ui, calls \cup {c}) /\ Settled(ui, calls \cup {c})
  BY <1>1, <1>4 DEF Filed, Settled
<1>7. CASE ui' = ui
  <2>1. Filed(ui', calls') /\ Settled(ui', calls')
    BY <1>3, <1>6, <1>7
  <2> QED
    BY <2>1 DEF PagesInv, Filed, Settled
<1>8. CASE ui' = [ui EXCEPT !.slot[s].status = "loading"]
  <2> DEFINE e == [ui.slot[s] EXCEPT !.status = "loading"]
             u == [ui EXCEPT !.slot[s] = e]
  <2>1. ui' = u
    BY <1>8
  <2>2. e \in PageEntries /\ e.of = ui.slot[s].of /\ e.status # "ready"
    BY <1>4 DEF PageEntries
  <2> HIDE DEF e
  <2>3. \A d \in calls \cup {c} : d \in calls \/ d = c
    OBVIOUS
  <2>4. Filed(u, calls \cup {c}) /\ Settled(u, calls \cup {c})
    BY <2>2, <2>3, <1>4, <1>5, EntryWritten
  <2> HIDE DEF u
  <2>5. Filed(ui', calls') /\ Settled(ui', calls')
    BY <1>3, <2>1, <2>4
  <2> QED
    BY <2>5 DEF PagesInv, Filed, Settled
<1> QED
  BY <1>3, <1>7, <1>8

LEMMA PagesKeep == PagesInv /\ [Pages!Next]_pagesVars => PagesInv'
<1> SUFFICES ASSUME PagesInv, [Pages!Next]_pagesVars PROVE PagesInv'
  OBVIOUS
<1>1. CASE \E r \in PageRepos : Pages!AutoResolve(r) \/ \E pg \in PageKinds : Pages!Navigate(pg, r)
  <2>1. ui.page \in PageKinds
    BY DEF PagesInv, Filed, PageStates
  <2> QED
    BY <1>1, <2>1, OpenPageKeeps DEF Pages!AutoResolve, Pages!Navigate
<1>2. CASE \E c \in calls : Pages!Land(c)
  BY <1>2, SucceedsKeeps, FailsPageKeeps DEF Pages!Land
<1>3. CASE \/ \E f \in Pages!Filters : Pages!SetFilter(f)
           \/ \E p \in Paths \cup {None} : Pages!Preview(p)
  BY <1>3, SelectionKeeps
<1>4. CASE \/ \E l \in Pages!Retried(ui) : Pages!Retry(l)
           \/ \E l \in Pages!Offered(ui) : Pages!Press(l)
  BY <1>4, RetryPageKeeps, PressKeeps
<1>5. CASE UNCHANGED pagesVars
  BY <1>5 DEF pagesVars, PagesInv, Filed, Settled
<1> QED
  BY <1>1, <1>2, <1>3, <1>4, <1>5 DEF Pages!Next

\* A part shows what is loaded, or what a load of the page keeps.
LEMMA ShownIs ==
  ASSUME NEW u, NEW l \in Pages!Shows(u)
  PROVE  /\ l \in Pages!Loads
         /\ \/ Pages!Status(u, l) = "ready"
            \/ l \notin Drawer /\ Pages!Entry(u, l).of # None
<1> DEFINE Good(x) == /\ x \in Pages!Loads
                      /\ \/ Pages!Status(u, x) = "ready"
                         \/ x \notin Drawer /\ Pages!Entry(u, x).of # None
<1>1. ASSUME NEW L \in SUBSET Pages!Loads, NEW x \in Pages!Loaded(u, L) PROVE Good(x)
  BY <1>1 DEF Pages!Loaded
<1>2. ASSUME NEW L \in SUBSET (Pages!Loads \ Drawer), NEW x \in Pages!Kept(u, L) PROVE Good(x)
  BY <1>2 DEF Pages!Kept
<1>3. {"identity", "branches", "commits", "files", "dashboard", "dependencies", "analysis",
       "content", "explanation", "summary"} = Pages!Loads
  BY DEF Pages!Loads
<1>4. {"identity", "branches", "commits", "dashboard", "analysis"} \subseteq Pages!Loads \ Drawer
  BY <1>3 DEF Drawer
<1> HIDE DEF Good
<1>5. \A x \in Pages!SourceControl(u) : Good(x)
  BY <1>1, <1>2, <1>3, <1>4
     DEF Pages!SourceControl, Pages!IngestionAction, Pages!CommitCategoryStrip,
         Pages!CommitsPanel, Pages!BranchesPanel, Pages!FilesPanel, Pages!CommitDetailDrawer
<1>6. \A x \in Pages!SoftwareEvolution(u) : Good(x)
  BY <1>1, <1>3
     DEF Pages!SoftwareEvolution, Pages!OverviewCards, Pages!CommitActivitySection,
         Pages!ModuleEvolutionSection, Pages!HotspotEvolutionSection, Pages!RecentCommitsSection
<1>7. \A x \in Pages!CommandCenter(u) : Good(x)
  BY <1>1, <1>2, <1>3, <1>4
     DEF Pages!CommandCenter, Pages!RepositoryHealthCard, Pages!OverviewMetrics,
         Pages!NeedsAttentionSection, Pages!RepositorySnapshot, Pages!RepositoryActivitySection,
         Pages!AiRecommendationCard, Pages!TopRiskModules
<1>8. \A x \in Pages!Architecture(u) : Good(x)
  BY <1>1, <1>2, <1>3, <1>4
     DEF Pages!Architecture, Pages!SummaryCard, Pages!ArchitectureOverviewCards,
         Pages!RepositoryTree, Pages!DependencyAnalysisPanel
<1>9. \A x \in Pages!FileCodePreviewDrawer(u) : Good(x)
  BY <1>1, <1>3 DEF Pages!FileCodePreviewDrawer
<1>10. Good(l)
  BY <1>5, <1>6, <1>7, <1>8, <1>9 DEF Pages!Shows
<1> QED
  BY <1>10 DEF Good

LEMMA ShownIsSelected == PagesInv => Pages!ShownIsOfSelection
<1> SUFFICES ASSUME PagesInv, NEW l \in Pages!Shows(ui) \ {"explanation"}
             PROVE  Pages!Entry(ui, l).of = Pages!Key(ui, l)
  BY DEF Pages!ShownIsOfSelection
<1>1. ui \in PageStates /\ Filed(ui, calls) /\ Settled(ui, calls)
  BY DEF PagesInv, Filed
<1>2. /\ l \in Pages!Loads
      /\ \/ Pages!Status(ui, l) = "ready"
         \/ l \notin Drawer /\ Pages!Entry(ui, l).of # None
  BY ShownIs
<1>3. Pages!Entry(ui, l) = ui.slot[Pages!Slot(ui, l)] /\ Pages!Status(ui, l) = Pages!Entry(ui, l).status
  BY DEF Pages!Entry, Pages!Status
<1>4. CASE l \notin Drawer
  <2>1. /\ Pages!Slot(ui, l) \in Pages!Slots /\ Pages!Slot(ui, l)[1] = l
        /\ Pages!Key(ui, l) = <<ui.repo, Pages!Slot(ui, l)[2]>>
    BY <1>1, <1>2, <1>4, SlotIs
  <2> QED
    BY <2>1, <1>1, <1>2, <1>3, <1>4 DEF Filed
<1>5. CASE l \in Drawer
  <2>1. l = "content"
    BY <1>5 DEF Drawer
  <2>2. Pages!Slot(ui, l) = <<l, None>> /\ Pages!Key(ui, l) = <<ui.repo, ui.preview>>
    BY <1>1, <1>2, <1>5, SlotIs
  <2> QED
    BY <2>1, <2>2, <1>1, <1>2, <1>3, <1>5 DEF Settled
<1> QED
  BY <1>4, <1>5

\* What a page shows as loaded was asked for what is selected, for any
\* repositories, branches and files and in whatever order the answers come
\* (the effects of the pages and their cancellations).
THEOREM PagesShowTheSelection == ConsoleSpec => []ShownIsOfSelection
<1>1. ConsoleInit => PagesInv
  BY PagesInitially DEF ConsoleInit
<1>2. PagesInv /\ [ConsoleNext]_consoleVars => PagesInv'
  BY StepsOfPages, PagesKeep
<1>3. PagesInv => ShownIsOfSelection
  BY ShownIsSelected DEF ShownIsOfSelection
<1> QED
  BY <1>1, <1>2, <1>3, PTL DEF ConsoleSpec
------------------------------------------------------------------------------
(* The Copilot drawer.                                                     *)

LEMMA StepsOfChat == [ConsoleNext]_consoleVars => [Chat!Next]_chatVars
  BY DEF ConsoleNext, consoleVars, chatVars

Pieces == {"token", "whole", "answer"}
Titles == {"none", "quota", "disconnected", "timeout", "error"}
Entries == [id : Nat \ {0}, role : {"user", "assistant"}, of : Nat,
            status : {"done", "streaming", "error"}, title : Titles, retry : BOOLEAN,
            sources : BOOLEAN, parts : Seq(Pieces)]
Phases == {"none", "stream", "ending", "closing", "fallback", "stalled"}

Elements(s) == {s[i] : i \in 1..Len(s)}
Apart(s) == \A i, j \in 1..Len(s) : s[i].id = s[j].id => i = j

\* An answer is all of its message; and only an error can be retried, of which
\* nothing was kept.
Unanswered(m) == \A i \in 1..Len(m.parts) : m.parts[i] # "answer"
Proper(m) == /\ Unanswered(m) \/ m.parts = <<"answer">>
             /\ m.retry => m.status = "error" /\ m.parts = <<>>

\* The reply that is awaited in phase p: it is streaming while frames may come,
\* and not any more after the last.
Awaited(m, p) == /\ m.role = "assistant" /\ ~ m.retry /\ Unanswered(m)
                 /\ p \in Chat!Arriving => m.status = "streaming"
                 /\ p = "closing" => m.status # "streaming"

\* The messages M after n submissions, while the answer to c is awaited in
\* phase p: ids are used once, a question has one reply, and no other reply
\* than the one awaited is streaming.
Orderly(M, n, c, p) ==
  /\ M \subseteq Entries
  /\ \A m \in M : m.id <= 2 * n /\ m.of <= 2 * n /\ Proper(m)
  /\ \A m, k \in M : m.id = k.id => m = k
  /\ \A m \in M : m.role = "user" => m.of = m.id /\ m.status = "done"
  /\ \A m \in M : m.role = "user" => \E k \in M : k.role = "assistant" /\ k.of = m.id
  /\ \A m, k \in M : m.role = "assistant" /\ k.role = "assistant" /\ m.of = k.of => m = k
  /\ \A m \in M : m.status = "streaming" => m.id = c
  /\ \A m \in M : m.id = c => Awaited(m, p)
  /\ c # 0 => \E m \in M : m.id = c

ChatInv == /\ messages \in Seq(Entries) /\ requests \in Nat
           /\ call \in [id : Nat, phase : Phases] /\ (call.id = 0 <=> call.phase = "none")
           /\ Apart(messages)
           /\ Orderly(Elements(messages), requests, call.id, call.phase)
------------------------------------------------------------------------------
(* What the operations do to the messages.                                 *)

LEMMA ElementsOf == ASSUME NEW S, NEW s \in Seq(S)
                    PROVE  Elements(s) \subseteq S /\ Chat!ToSet(s) = Elements(s)
  BY DEF Elements, Chat!ToSet

LEMMA AppendAdds ==
  ASSUME NEW s \in Seq(Entries), NEW x \in Entries, Apart(s), \A m \in Elements(s) : m.id # x.id
  PROVE  /\ Append(s, x) \in Seq(Entries) /\ Apart(Append(s, x))
         /\ Elements(Append(s, x)) = Elements(s) \cup {x}
<1> DEFINE r == Append(s, x)
<1>1. /\ r \in Seq(Entries) /\ Len(r) = Len(s) + 1 /\ Len(s) \in Nat
      /\ r[Len(s) + 1] = x /\ \A i \in 1..Len(s) : r[i] = s[i]
  OBVIOUS
<1> HIDE DEF r
<1>2. \A i \in 1..Len(r) : i \in 1..Len(s) \/ i = Len(s) + 1
  BY <1>1
<1>3. \A i \in 1..Len(s) : i \in 1..Len(r) /\ s[i].id # x.id
  BY <1>1 DEF Elements
<1>4. Apart(r)
  BY <1>1, <1>2, <1>3 DEF Apart
<1>5. Elements(r) = Elements(s) \cup {x}
  <2>1. Len(s) + 1 \in 1..Len(r)
    BY <1>1
  <2> QED
    BY <1>1, <1>2, <1>3, <2>1 DEF Elements
<1> QED
  BY <1>1, <1>4, <1>5 DEF r

LEMMA JoinedIs ==
  ASSUME NEW S, NEW s \in Seq(S), NEW m \in Seq(S)
  PROVE  /\ s \o m \in Seq(S) /\ Len(s \o m) = Len(s) + Len(m)
         /\ \A i \in 1..Len(s) : (s \o m)[i] = s[i]
         /\ \A i \in 1..Len(m) : (s \o m)[Len(s) + i] = m[i]
  OBVIOUS

LEMMA RemoveTakes ==
  ASSUME NEW s \in Seq(Entries), Apart(s), NEW i \in 1..Len(s)
  PROVE  /\ Chat!RemoveAt(s, i) \in Seq(Entries) /\ Apart(Chat!RemoveAt(s, i))
         /\ Elements(Chat!RemoveAt(s, i)) = Elements(s) \ {s[i]}
<1> DEFINE a == SubSeq(s, 1, i - 1)
           b == SubSeq(s, i + 1, Len(s))
           r == Chat!RemoveAt(s, i)
           L == Len(s)
<1>1. L \in Nat /\ i \in Nat /\ i >= 1 /\ i <= L
  OBVIOUS
<1>2. a \in Seq(Entries) /\ Len(a) = i - 1 /\ \A j \in 1..(i - 1) : a[j] = s[j]
  <2>1. \A j \in 1..(i - 1) : j \in 1..L /\ s[j] \in Entries
    BY <1>1
  <2>2. a = [j \in 1..(i - 1) |-> s[j]]
    BY <1>1
  <2>3. i - 1 \in Nat
    BY <1>1
  <2> QED
    BY <2>1, <2>2, <2>3
<1>3. b \in Seq(Entries) /\ Len(b) = L - i /\ \A j \in 1..(L - i) : b[j] = s[i + j]
  <2>1. \A j \in 1..(L - i) : i + j \in 1..L /\ j + i \in 1..L
    BY <1>1
  <2>2. \A j \in 1..(L - i) : s[i + j] \in Entries
    BY <2>1
  <2>3. b = [j \in 1..(L - i) |-> s[i + j]]
    BY <1>1
  <2>4. L - i \in Nat
    BY <1>1
  <2> QED
    BY <2>2, <2>3, <2>4
<1>4. r = a \o b
  BY DEF Chat!RemoveAt
<1> HIDE DEF a, b, r
<1>5. /\ r \in Seq(Entries) /\ Len(r) = Len(a) + Len(b)
      /\ \A j \in 1..Len(a) : r[j] = a[j]
      /\ \A j \in 1..Len(b) : r[Len(a) + j] = b[j]
  <2>1. a \in Seq(Entries) /\ b \in Seq(Entries)
    BY <1>2, <1>3
  <2> QED
    BY <2>1, <1>4, JoinedIs
<1> HIDE DEF L
<1>6. Len(r) = L - 1 /\ L - 1 \in Nat
  BY <1>1, <1>2, <1>3, <1>5
<1>7. \A j \in 1..(i - 1) : r[j] = s[j]
  BY <1>2, <1>5, Zenon
<1>8. \A j \in (i + 1)..L : r[j - 1] = s[j]
  <2> SUFFICES ASSUME NEW j \in (i + 1)..L PROVE r[j - 1] = s[j]
    OBVIOUS
  <2> DEFINE k == j - i
  <2>1. k \in 1..(L - i) /\ k \in 1..Len(b) /\ Len(a) + k = j - 1 /\ i + k = j
    BY <1>1, <1>2, <1>3
  <2> HIDE DEF k
  <2>2. r[Len(a) + k] = b[k] /\ b[k] = s[i + k]
    BY <2>1, <1>3, <1>5
  <2> QED
    BY <2>1, <2>2
<1> DEFINE Old(j) == IF j < i THEN j ELSE j + 1
<1>9. \A j \in 1..Len(r) : Old(j) \in 1..L /\ Old(j) # i /\ r[j] = s[Old(j)]
  <2> SUFFICES ASSUME NEW j \in 1..Len(r)
               PROVE Old(j) \in 1..L /\ Old(j) # i /\ r[j] = s[Old(j)]
    OBVIOUS
  <2>1. CASE j < i
    <3>1. j \in 1..(i - 1) /\ j \in 1..L
      BY <2>1, <1>1, <1>6
    <3> QED
      BY <2>1, <3>1, <1>1, <1>7
  <2>2. CASE j >= i
    <3>1. j + 1 \in (i + 1)..L /\ (j + 1) - 1 = j /\ Old(j) = j + 1 /\ j + 1 # i /\ j + 1 \in 1..L
      BY <2>2, <1>1, <1>6
    <3>2. r[(j + 1) - 1] = s[j + 1]
      BY <3>1, <1>8
    <3> QED
      BY <3>1, <3>2
  <2> QED
    BY <2>1, <2>2, <1>1
<1>10. \A j \in 1..L : j # i => \E k \in 1..Len(r) : r[k] = s[j]
  <2> SUFFICES ASSUME NEW j \in 1..L, j # i PROVE \E k \in 1..Len(r) : r[k] = s[j]
    OBVIOUS
  <2>1. CASE j < i
    <3>1. j \in 1..(i - 1) /\ j \in 1..Len(r)
      BY <2>1, <1>1, <1>6
    <3> QED
      BY <3>1, <1>7
  <2>2. CASE j > i
    <3>1. j \in (i + 1)..L /\ j - 1 \in 1..Len(r)
      BY <2>2, <1>1, <1>6
    <3> QED
      BY <3>1, <1>8
  <2> QED
    BY <2>1, <2>2, <1>1
<1>11. \A j, k \in 1..Len(r) : Old(j) = Old(k) => j = k
  BY <1>1, <1>6
<1> HIDE DEF Old
<1>12. Apart(r)
  <2>1. \A j, k \in 1..L : s[j].id = s[k].id => j = k
    BY DEF Apart, L
  <2> QED
    BY <2>1, <1>9, <1>11 DEF Apart
<1>13. Elements(r) = Elements(s) \ {s[i]}
  <2>1. \A j \in 1..L : j # i => s[j] # s[i]
    BY DEF Apart, L
  <2>2. \A x : x \in Elements(r) <=> \E j \in 1..Len(r) : x = r[j]
    BY DEF Elements
  <2>3. \A x : x \in Elements(s) <=> \E j \in 1..L : x = s[j]
    BY DEF Elements, L
  <2>4. \A x \in Elements(r) : x \in Elements(s) /\ x # s[i]
    BY <2>1, <2>2, <2>3, <1>9
  <2>5. \A x \in Elements(s) : x # s[i] => x \in Elements(r)
    BY <2>2, <2>3, <1>10
  <2> QED
    BY <2>4, <2>5
<1> QED
  BY <1>5, <1>12, <1>13 DEF r

LEMMA WriteReplaces ==
  ASSUME NEW s \in Seq(Entries), Apart(s), NEW m \in Elements(s), NEW x \in Entries, x.id = m.id
  PROVE  LET r == [i \in DOMAIN s |-> IF s[i].id = x.id THEN x ELSE s[i]]
         IN /\ r \in Seq(Entries) /\ Apart(r)
            /\ Elements(r) = (Elements(s) \ {m}) \cup {x}
<1> DEFINE r == [i \in DOMAIN s |-> IF s[i].id = x.id THEN x ELSE s[i]]
<1>1. DOMAIN s = 1..Len(s) /\ Len(s) \in Nat /\ \A i \in 1..Len(s) : s[i] \in Entries
  OBVIOUS
<1>2. /\ r \in Seq(Entries) /\ Len(r) = Len(s)
      /\ \A i \in 1..Len(s) : r[i] = IF s[i].id = x.id THEN x ELSE s[i]
  BY <1>1
<1> HIDE DEF r
<1>3. PICK k \in 1..Len(s) : s[k] = m
  BY DEF Elements
<1>4. \A i \in 1..Len(s) : s[i].id = x.id <=> i = k
  BY <1>3 DEF Apart
<1>5. \A i \in 1..Len(s) : r[i] = IF i = k THEN x ELSE s[i]
  BY <1>2, <1>4
<1>6. Apart(r)
  <2>1. \A i \in 1..Len(s) : r[i].id = s[i].id
    BY <1>3, <1>5
  <2> QED
    BY <2>1, <1>2 DEF Apart
<1>7. Elements(r) = (Elements(s) \ {m}) \cup {x}
  <2>1. \A y : y \in Elements(r) <=> \E j \in 1..Len(s) : y = r[j]
    BY <1>2 DEF Elements
  <2>2. \A y : y \in Elements(s) <=> \E j \in 1..Len(s) : y = s[j]
    BY DEF Elements
  <2>3. \A i \in 1..Len(s) : i # k => s[i] # m
    BY <1>3 DEF Apart
  <2>4. \A y \in Elements(r) : y \in (Elements(s) \ {m}) \cup {x}
    BY <2>1, <2>2, <2>3, <1>5
  <2>5. \A y \in (Elements(s) \ {m}) \cup {x} : y \in Elements(r)
    BY <2>1, <2>2, <1>3, <1>5
  <2> QED
    BY <2>4, <2>5
<1> QED
  BY <1>2, <1>6, <1>7 DEF r
------------------------------------------------------------------------------
(* What keeps them orderly.                                                *)

LEMMA AskedIsOrderly ==
  ASSUME NEW M, NEW n \in Nat, Orderly(M, n, 0, "none"), NEW q \in Entries, NEW x \in Entries,
         q.id = 2 * n + 1, q.role = "user", q.of = 2 * n + 1, q.status = "done", q.parts = <<>>,
         x.id = 2 * n + 2, x.role = "assistant", x.of = 2 * n + 1, x.status = "streaming",
         x.parts = <<>>, ~ q.retry, ~ x.retry
  PROVE  Orderly(M \cup {q, x}, n + 1, 2 * n + 2, "stream")
<1> DEFINE N == M \cup {q, x}
<1>1. \A m \in M : m.id <= 2 * n /\ m.of <= 2 * n /\ m.id \in Nat /\ m.of \in Nat /\ m.id # 0
  BY DEF Orderly, Entries
<1>2. \A m \in M : /\ m.id # q.id /\ m.id # x.id /\ m.of # x.of /\ m.id # 2 * n + 2
                   /\ m.id <= 2 * (n + 1) /\ m.of <= 2 * (n + 1)
  BY <1>1
<1>3. Proper(q) /\ Proper(x) /\ Awaited(x, "stream")
  BY DEF Proper, Unanswered, Awaited, Chat!Arriving
<1>4. N \subseteq Entries /\ \A m \in N : m.id <= 2 * (n + 1) /\ m.of <= 2 * (n + 1) /\ Proper(m)
  BY <1>2, <1>3 DEF Orderly
<1>5. \A m, k \in N : m.id = k.id => m = k
  BY <1>2 DEF Orderly
<1>6. \A m \in N : m.role = "user" => m.of = m.id /\ m.status = "done"
  BY DEF Orderly
<1>7. \A m \in N : m.role = "user" => \E k \in N : k.role = "assistant" /\ k.of = m.id
  BY DEF Orderly
<1>8. \A m, k \in N : m.role = "assistant" /\ k.role = "assistant" /\ m.of = k.of => m = k
  BY <1>2 DEF Orderly
<1>9. \A m \in N : m.status = "streaming" => m.id = 2 * n + 2
  <2>1. \A m \in M : m.status # "streaming"
    BY <1>1 DEF Orderly
  <2> QED
    BY <2>1, <1>2
<1>10. \A m \in N : m.id = 2 * n + 2 => Awaited(m, "stream")
  BY <1>2, <1>3
<1> QED
  BY <1>4, <1>5, <1>6, <1>7, <1>8, <1>9, <1>10 DEF Orderly

LEMMA RetriedIsOrderly ==
  ASSUME NEW M, NEW n \in Nat, Orderly(M, n, 0, "none"), NEW m \in M, m.retry, NEW x \in Entries,
         x.id = 2 * n + 2, x.role = "assistant", x.of = m.of, x.status = "streaming",
         x.parts = <<>>, ~ x.retry
  PROVE  Orderly((M \ {m}) \cup {x}, n + 1, 2 * n + 2, "stream")
<1> DEFINE N == (M \ {m}) \cup {x}
<1>1. \A k \in M : k.id <= 2 * n /\ k.of <= 2 * n /\ k.id \in Nat /\ k.of \in Nat /\ k.id # 0
  BY DEF Orderly, Entries
<1>2. \A k \in M : k.id # x.id /\ k.id # 2 * n + 2 /\ k.id <= 2 * (n + 1) /\ k.of <= 2 * (n + 1)
  BY <1>1
<1>3. Proper(x) /\ Awaited(x, "stream")
  BY DEF Proper, Unanswered, Awaited, Chat!Arriving
<1>4. m.role = "assistant" /\ x.of <= 2 * (n + 1) /\ x.id <= 2 * (n + 1)
  <2>1. m.role \in {"user", "assistant"} /\ m.status = "error"
    BY DEF Orderly, Entries, Proper
  <2>2. m.role # "user"
    BY <2>1 DEF Orderly
  <2> QED
    BY <2>1, <2>2, <1>2
<1>5. N \subseteq Entries /\ \A k \in N : k.id <= 2 * (n + 1) /\ k.of <= 2 * (n + 1) /\ Proper(k)
  BY <1>2, <1>3, <1>4 DEF Orderly
<1>6. \A k, l \in N : k.id = l.id => k = l
  BY <1>2 DEF Orderly
<1>7. \A k \in N : k.role = "user" => k.of = k.id /\ k.status = "done"
  BY DEF Orderly
<1>8. \A k \in N : k.role = "user" => \E l \in N : l.role = "assistant" /\ l.of = k.id
  <2> SUFFICES ASSUME NEW k \in M, k.role = "user"
               PROVE  \E l \in N : l.role = "assistant" /\ l.of = k.id
    OBVIOUS
  <2>1. PICK l \in M : l.role = "assistant" /\ l.of = k.id
    BY DEF Orderly
  <2> QED
    BY <2>1
<1>9. \A k, l \in N : k.role = "assistant" /\ l.role = "assistant" /\ k.of = l.of => k = l
  <2>1. \A k \in M : k.role = "assistant" /\ k.of = x.of => k = m
    BY <1>4 DEF Orderly
  <2> QED
    BY <2>1 DEF Orderly
<1>10. \A k \in N : k.status = "streaming" => k.id = 2 * n + 2
  <2>1. \A k \in M : k.status # "streaming"
    BY <1>1 DEF Orderly
  <2> QED
    BY <2>1, <1>2
<1>11. \A k \in N : k.id = 2 * n + 2 => Awaited(k, "stream")
  BY <1>2, <1>3
<1> QED
  BY <1>5, <1>6, <1>7, <1>8, <1>9, <1>10, <1>11 DEF Orderly

LEMMA WrittenIsOrderly ==
  ASSUME NEW M, NEW n \in Nat, NEW c \in Nat, NEW p \in Phases, Orderly(M, n, c, p),
         NEW m \in M, m.id = c,
         NEW x \in Entries, x.id = m.id, x.role = m.role, x.of = m.of, Proper(x),
         NEW r \in Phases, NEW d \in {c, 0},
         x.status = "streaming" => d = c, d = c => Awaited(x, r)
  PROVE  Orderly((M \ {m}) \cup {x}, n, d, r)
<1> DEFINE N == (M \ {m}) \cup {x}
<1>1. m.role = "assistant" /\ c # 0
  BY DEF Orderly, Awaited, Entries
<1>2. \A k \in M : k.id = x.id => k = m
  BY DEF Orderly
<1>3. N \subseteq Entries /\ \A k \in N : k.id <= 2 * n /\ k.of <= 2 * n /\ Proper(k)
  BY DEF Orderly
<1>4. \A k, l \in N : k.id = l.id => k = l
  BY <1>2 DEF Orderly
<1>5. \A k \in N : k.role = "user" => k.of = k.id /\ k.status = "done"
  BY <1>1 DEF Orderly
<1>6. \A k \in N : k.role = "user" => \E l \in N : l.role = "assistant" /\ l.of = k.id
  <2> SUFFICES ASSUME NEW k \in M, k.role = "user"
               PROVE  \E l \in N : l.role = "assistant" /\ l.of = k.id
    BY <1>1
  <2>1. PICK l \in M : l.role = "assistant" /\ l.of = k.id
    BY DEF Orderly
  <2> QED
    BY <2>1, <1>1
<1>7. \A k, l \in N : k.role = "assistant" /\ l.role = "assistant" /\ k.of = l.of => k = l
  <2>1. \A k \in M : k.role = "assistant" /\ k.of = x.of => k = m
    BY <1>1 DEF Orderly
  <2> QED
    BY <2>1 DEF Orderly
<1>8. \A k \in M \ {m} : k.status # "streaming" /\ k.id # c /\ k.id # 0
  BY <1>2 DEF Orderly, Entries
<1>9. \A k \in N : k.status = "streaming" => k.id = d
  BY <1>1, <1>8
<1>10. \A k \in N : k.id = d => Awaited(k, r)
  BY <1>1, <1>8
<1>11. d # 0 => \E k \in N : k.id = d
  OBVIOUS
<1> QED
  BY <1>3, <1>4, <1>5, <1>6, <1>7, <1>8, <1>9, <1>10, <1>11 DEF Orderly
------------------------------------------------------------------------------
(* The steps.                                                              *)

LEMMA ChatInitially == Chat!Init => ChatInv
<1> SUFFICES ASSUME Chat!Init PROVE ChatInv
  OBVIOUS
<1>1. messages = <<>> /\ requests = 0 /\ call = [id |-> 0, phase |-> "none"]
  BY DEF Chat!Init, Chat!NoCall
<1>2. messages \in Seq(Entries) /\ Len(messages) = 0 /\ Elements(messages) = {}
  BY <1>1 DEF Elements
<1>3. Apart(messages) /\ Orderly(Elements(messages), requests, call.id, call.phase)
  BY <1>1, <1>2 DEF Apart, Orderly
<1> QED
  BY <1>1, <1>2, <1>3 DEF ChatInv, Phases

LEMMA ChatRests ==
  ASSUME ChatInv, UNCHANGED <<messages, requests, call>>
  PROVE  ChatInv'
  BY DEF ChatInv, Apart, Elements, Orderly, Proper, Unanswered, Awaited, Chat!Arriving

\* The awaited submission goes on, or ends, and its message stays.
LEMMA PhaseMoves ==
  ASSUME ChatInv, UNCHANGED <<messages, requests>>, call.phase # "none",
         \/ \E p \in {"fallback", "stalled"} : call' = [call EXCEPT !.phase = p]
         \/ call.phase = "closing" /\ call' = [id |-> 0, phase |-> "none"]
  PROVE  ChatInv'
<1> DEFINE M == Elements(messages)
<1>1. /\ messages \in Seq(Entries) /\ requests \in Nat /\ Apart(messages)
      /\ Orderly(M, requests, call.id, call.phase)
      /\ call \in [id : Nat, phase : Phases] /\ call.id # 0
  BY DEF ChatInv
<1>2. /\ call' \in [id : Nat, phase : Phases] /\ (call'.id = 0 <=> call'.phase = "none")
      /\ \/ call'.id = call.id /\ call'.phase \notin Chat!Arriving \cup {"closing"}
         \/ call'.id = 0 /\ call.phase = "closing"
  BY <1>1 DEF Phases, Chat!Arriving
<1> HIDE DEF M
<1>3. Orderly(M, requests, call'.id, call'.phase)
  <2>1. CASE call'.id = call.id /\ call'.phase \notin Chat!Arriving \cup {"closing"}
    <3>1. \A m \in M : m.id = call'.id => Awaited(m, call'.phase)
      BY <2>1, <1>1 DEF Orderly, Awaited
    <3> QED
      BY <2>1, <3>1, <1>1 DEF Orderly
  <2>2. CASE call'.id = 0 /\ call.phase = "closing"
    <3>1. \A m \in M : m.id # 0 /\ m.status # "streaming"
      BY <2>2, <1>1 DEF Orderly, Awaited, Entries
    <3> QED
      BY <2>2, <3>1, <1>1 DEF Orderly
  <2> QED
    BY <1>2, <2>1, <2>2
<1>4. Apart(messages)' /\ Orderly(Elements(messages), requests, call.id, call.phase)'
  <2>1. Elements(messages)' = M
    BY DEF Elements, M
  <2> QED
    BY <2>1, <1>1, <1>3 DEF Apart, Orderly, Proper, Unanswered, Awaited, Chat!Arriving
<1> QED
  BY <1>1, <1>2, <1>4 DEF ChatInv

LEMMA CloseKeeps == ASSUME ChatInv, Chat!Close PROVE ChatInv'
<1>1. messages' = <<>> /\ requests' = requests /\ call' = [id |-> 0, phase |-> "none"]
  BY DEF Chat!Close, Chat!NoCall
<1>2. messages' \in Seq(Entries) /\ Len(messages') = 0 /\ Elements(messages') = {}
  BY <1>1 DEF Elements
<1>3. Apart(messages') /\ Orderly(Elements(messages'), requests', call'.id, call'.phase)
  BY <1>1, <1>2 DEF Apart, Orderly
<1>4. Apart(messages)' /\ Orderly(Elements(messages), requests, call.id, call.phase)'
  BY <1>3, Zenon DEF Apart, Orderly, Elements, Proper, Unanswered, Awaited, Chat!Arriving
<1> QED
  BY <1>1, <1>2, <1>4 DEF ChatInv, Phases

\* The message of a new submission.
LEMMA ReplyIs ==
  ASSUME NEW n \in Nat, NEW q \in Nat
  PROVE  LET x == Chat!Message(2 * n + 2, "assistant", q, "streaming")
             u == Chat!Message(2 * n + 1, "user", 2 * n + 1, "done")
         IN /\ x \in Entries /\ u \in Entries
            /\ x.id = 2 * n + 2 /\ x.role = "assistant" /\ x.of = q /\ x.status = "streaming"
            /\ x.parts = <<>> /\ ~ x.retry
            /\ u.id = 2 * n + 1 /\ u.role = "user" /\ u.of = 2 * n + 1 /\ u.status = "done"
            /\ u.parts = <<>> /\ ~ u.retry
<1>1. 2 * n + 2 \in Nat \ {0} /\ 2 * n + 1 \in Nat \ {0} /\ <<>> \in Seq(Pieces)
  OBVIOUS
<1> QED
  BY <1>1 DEF Chat!Message, Entries, Titles

LEMMA AskKeeps == ASSUME ChatInv, Chat!Ask PROVE ChatInv'
<1> DEFINE q == Chat!Message(2 * requests + 1, "user", 2 * requests + 1, "done")
           x == Chat!Message(2 * requests + 2, "assistant", 2 * requests + 1, "streaming")
<1>1. /\ call = [id |-> 0, phase |-> "none"] /\ requests' = requests + 1
      /\ messages' = Append(Append(messages, q), x)
      /\ call' = [id |-> 2 * requests + 2, phase |-> "stream"]
  BY DEF Chat!Ask, Chat!Submit, Chat!sending, Chat!NoCall
<1>2. /\ messages \in Seq(Entries) /\ requests \in Nat /\ Apart(messages)
      /\ Orderly(Elements(messages), requests, 0, "none")
  BY <1>1 DEF ChatInv
<1>3. /\ q \in Entries /\ q.id = 2 * requests + 1 /\ q.role = "user" /\ q.of = 2 * requests + 1
      /\ q.status = "done" /\ q.parts = <<>> /\ ~ q.retry
      /\ x \in Entries /\ x.id = 2 * requests + 2 /\ x.role = "assistant"
      /\ x.of = 2 * requests + 1 /\ x.status = "streaming" /\ x.parts = <<>> /\ ~ x.retry
  <2>1. 2 * requests + 1 \in Nat
    BY <1>2
  <2> QED
    BY <2>1, <1>2, ReplyIs
<1> HIDE DEF q, x
<1>4. \A m \in Elements(messages) : m.id \in Nat /\ m.id <= 2 * requests
  BY <1>2 DEF Orderly, Entries
<1>5. /\ Append(messages, q) \in Seq(Entries) /\ Apart(Append(messages, q))
      /\ Elements(Append(messages, q)) = Elements(messages) \cup {q}
  <2>1. \A m \in Elements(messages) : m.id # q.id
    BY <1>2, <1>3, <1>4
  <2> QED
    BY <2>1, <1>2, <1>3, AppendAdds
<1>6. /\ messages' \in Seq(Entries) /\ Apart(messages')
      /\ Elements(messages') = Elements(messages) \cup {q, x}
  <2>1. \A m \in Elements(Append(messages, q)) : m.id # x.id
    BY <1>2, <1>3, <1>4, <1>5
  <2>2. Elements(messages') = Elements(messages) \cup {q} \cup {x}
    BY <2>1, <1>1, <1>3, <1>5, AppendAdds, Zenon
  <2> QED
    BY <2>1, <2>2, <1>1, <1>3, <1>5, AppendAdds, Zenon
<1>7. Orderly(Elements(messages'), requests', call'.id, call'.phase)
  BY <1>1, <1>2, <1>3, <1>6, AskedIsOrderly
<1>8. requests' \in Nat /\ call' \in [id : Nat, phase : Phases]
      /\ call'.id # 0 /\ call'.phase # "none"
  BY <1>1, <1>2 DEF Phases
<1>9. Apart(messages)' /\ Orderly(Elements(messages), requests, call.id, call.phase)'
  BY <1>6, <1>7 DEF Apart, Orderly, Elements, Proper, Unanswered, Awaited, Chat!Arriving
<1> QED
  BY <1>6, <1>8, <1>9 DEF ChatInv

LEMMA RetryKeeps ==
  ASSUME ChatInv, NEW m \in Chat!ToSet(messages), Chat!Retry(m) PROVE ChatInv'
<1> DEFINE x == Chat!Message(2 * requests + 2, "assistant", m.of, "streaming")
<1>1. /\ call = [id |-> 0, phase |-> "none"] /\ requests' = requests + 1 /\ m.retry
      /\ messages' = Append(Chat!Retried(m), x)
      /\ call' = [id |-> 2 * requests + 2, phase |-> "stream"]
  BY DEF Chat!Retry, Chat!Submit, Chat!sending, Chat!NoCall
<1>2. /\ messages \in Seq(Entries) /\ requests \in Nat /\ Apart(messages)
      /\ Orderly(Elements(messages), requests, 0, "none")
  BY <1>1 DEF ChatInv
<1>3. m \in Elements(messages) /\ m \in Entries
  BY <1>2, ElementsOf
<1>4. /\ x \in Entries /\ x.id = 2 * requests + 2 /\ x.role = "assistant"
      /\ x.of = m.of /\ x.status = "streaming" /\ x.parts = <<>> /\ ~ x.retry
  <2>1. m.of \in Nat
    BY <1>3 DEF Entries
  <2> QED
    BY <2>1, <1>2, ReplyIs
<1> HIDE DEF x
<1>5. PICK i \in 1..Len(messages) : messages[i] = m /\ Chat!Retried(m) = Chat!RemoveAt(messages, i)
  <2>1. PICK i \in 1..Len(messages) : messages[i] = m
    BY <1>3 DEF Elements
  <2>2. DOMAIN messages = 1..Len(messages)
    BY <1>2
  <2>3. \A j \in DOMAIN messages : messages[j].id = m.id <=> j = i
    BY <2>1, <2>2, <1>2 DEF Apart
  <2>4. (CHOOSE j \in DOMAIN messages : messages[j].id = m.id) = i
    BY <2>2, <2>3
  <2> QED
    BY <2>1, <2>4, Zenon DEF Chat!Retried
<1>6. /\ Chat!Retried(m) \in Seq(Entries) /\ Apart(Chat!Retried(m))
      /\ Elements(Chat!Retried(m)) = Elements(messages) \ {m}
  BY <1>2, <1>5, RemoveTakes
<1>7. \A k \in Elements(messages) : k.id # x.id
  BY <1>2, <1>4 DEF Orderly, Entries
<1>8. /\ messages' \in Seq(Entries) /\ Apart(messages')
      /\ Elements(messages') = (Elements(messages) \ {m}) \cup {x}
  BY <1>1, <1>4, <1>6, <1>7, AppendAdds
<1>9. Orderly(Elements(messages'), requests', call'.id, call'.phase)
  BY <1>1, <1>2, <1>3, <1>4, <1>8, RetriedIsOrderly
<1>10. requests' \in Nat /\ call' \in [id : Nat, phase : Phases]
       /\ call'.id # 0 /\ call'.phase # "none"
  BY <1>1, <1>2 DEF Phases
<1>11. Apart(messages)' /\ Orderly(Elements(messages), requests, call.id, call.phase)'
  BY <1>8, <1>9, Zenon DEF Apart, Orderly, Elements, Proper, Unanswered, Awaited, Chat!Arriving
<1> QED
  BY <1>8, <1>10, <1>11 DEF ChatInv

\* The message that is awaited is there.
LEMMA AwaitedIs ==
  ASSUME ChatInv, call.phase # "none"
  PROVE  /\ Chat!Pending \in Elements(messages) /\ Chat!Pending \in Entries
         /\ Chat!Pending.id = call.id /\ call.id # 0
         /\ Proper(Chat!Pending) /\ Awaited(Chat!Pending, call.phase)
         /\ call \in [id : Nat, phase : Phases]
<1>1. /\ messages \in Seq(Entries) /\ call.id # 0 /\ call \in [id : Nat, phase : Phases]
      /\ Orderly(Elements(messages), requests, call.id, call.phase)
  BY DEF ChatInv
<1>2. \E m \in Elements(messages) : m.id = call.id
  BY <1>1 DEF Orderly
<1>3. Chat!ToSet(messages) = Elements(messages)
  BY <1>1, ElementsOf
<1>4. Chat!Pending \in Elements(messages) /\ Chat!Pending.id = call.id
  BY <1>2, <1>3 DEF Chat!Pending
<1> QED
  BY <1>1, <1>4 DEF Orderly

LEMMA WriteKeeps ==
  ASSUME ChatInv, call.phase # "none", NEW x \in Entries, Chat!Write(x), requests' = requests,
         x.id = Chat!Pending.id, x.role = Chat!Pending.role, x.of = Chat!Pending.of, Proper(x),
         \/ /\ call' \in [id : Nat, phase : Phases] /\ call'.id = call.id
            /\ call'.phase # "none" /\ Awaited(x, call'.phase)
         \/ call' = [id |-> 0, phase |-> "none"] /\ x.status # "streaming"
  PROVE  ChatInv'
<1>1. PICK m : m = Chat!Pending
  OBVIOUS
<1>2. m \in Elements(messages) /\ m.id = call.id
  BY <1>1, AwaitedIs
<1>3. /\ messages \in Seq(Entries) /\ requests \in Nat /\ Apart(messages)
      /\ Orderly(Elements(messages), requests, call.id, call.phase)
      /\ call.id \in Nat /\ call.id # 0 /\ call.phase \in Phases
  BY DEF ChatInv
<1>4. /\ messages' \in Seq(Entries) /\ Apart(messages')
      /\ Elements(messages') = (Elements(messages) \ {m}) \cup {x}
  BY <1>1, <1>2, <1>3, WriteReplaces, Zenon DEF Chat!Write
<1>5. PICK d, p : d = call'.id /\ p = call'.phase
  OBVIOUS
<1>6. /\ d \in {call.id, 0} /\ (x.status = "streaming" => d = call.id)
      /\ (d = call.id => Awaited(x, p)) /\ p \in Phases
  BY <1>3, <1>5 DEF Phases
<1>7. Orderly((Elements(messages) \ {m}) \cup {x}, requests, d, p)
  <2>1. x.id = m.id /\ x.role = m.role /\ x.of = m.of
    BY <1>1
  <2>2. PICK M, n, c, e : M = Elements(messages) /\ n = requests /\ c = call.id /\ e = call.phase
    OBVIOUS
  <2>3. /\ n \in Nat /\ c \in Nat /\ e \in Phases /\ Orderly(M, n, c, e) /\ m \in M /\ m.id = c
        /\ d \in {c, 0} /\ p \in Phases /\ (x.status = "streaming" => d = c)
        /\ (d = c => Awaited(x, p))
    BY <2>2, <1>2, <1>3, <1>6
  <2>4. Orderly((M \ {m}) \cup {x}, n, d, p)
    BY <2>1, <2>3, WrittenIsOrderly
  <2> QED
    BY <2>2, <2>4
<1>8. Orderly(Elements(messages'), requests', call'.id, call'.phase)
  BY <1>4, <1>5, <1>7
<1>9. Apart(messages)' /\ Orderly(Elements(messages), requests, call.id, call.phase)'
  BY <1>4, <1>8
     DEF Apart, Orderly, Elements, Proper, Unanswered, Awaited, Chat!Arriving
<1>10. call' \in [id : Nat, phase : Phases] /\ (call'.id = 0 <=> call'.phase = "none")
  BY <1>3 DEF Phases
<1> QED
  BY <1>3, <1>4, <1>9, <1>10 DEF ChatInv

LEMMA TokenKeeps == ASSUME ChatInv, Chat!Token PROVE ChatInv'
<1> DEFINE p == Chat!Pending
<1>1. call.phase = "stream" /\ call.phase # "none" /\ requests' = requests
  BY DEF Chat!Token
<1>2. /\ p \in Entries /\ Proper(p) /\ Awaited(p, "stream") /\ p.status = "streaming"
      /\ call \in [id : Nat, phase : Phases]
  BY <1>1, AwaitedIs DEF Awaited, Chat!Arriving
<1>3. ASSUME NEW t \in {"token", "whole"}, NEW x, x = [p EXCEPT !.parts = Append(@, t)],
             NEW r \in Chat!Arriving
      PROVE  /\ x \in Entries /\ x.id = p.id /\ x.role = p.role /\ x.of = p.of
             /\ Proper(x) /\ Awaited(x, r)
  <2>1. p.parts \in Seq(Pieces) /\ t \in Pieces
    BY <1>2 DEF Entries, Pieces
  <2>2. \A i \in 1..Len(p.parts) : p.parts[i] # "answer"
    BY <1>2 DEF Awaited, Unanswered
  <2>3. /\ Append(p.parts, t) \in Seq(Pieces)
        /\ \A i \in 1..Len(Append(p.parts, t)) : Append(p.parts, t)[i] # "answer"
    <3>1. t # "answer"
      OBVIOUS
    <3> QED
      BY <2>1, <2>2, <3>1
  <2>4. /\ x \in Entries /\ x.parts = Append(p.parts, t) /\ x.id = p.id /\ x.role = p.role
        /\ x.of = p.of /\ x.retry = p.retry /\ x.status = p.status
    BY <1>2, <1>3, <2>3, Zenon DEF Entries
  <2>5. Unanswered(x) /\ ~ x.retry /\ x.role = "assistant" /\ r # "closing"
    BY <1>2, <2>3, <2>4 DEF Unanswered, Awaited, Chat!Arriving
  <2> QED
    BY <1>2, <2>4, <2>5 DEF Proper, Awaited
<1>4. CASE Chat!Write([p EXCEPT !.parts = Append(@, "token")]) /\ call' = call
  <2>1. "stream" \in Chat!Arriving
    BY DEF Chat!Arriving
  <2> QED
    BY <2>1, <1>1, <1>2, <1>3, <1>4, WriteKeeps
<1>5. CASE /\ Chat!Write([p EXCEPT !.parts = Append(@, "whole")])
           /\ call' = [call EXCEPT !.phase = "ending"]
  <2>1. /\ call' \in [id : Nat, phase : Phases] /\ call'.id = call.id
        /\ call'.phase = "ending" /\ "ending" \in Chat!Arriving
    BY <1>2, <1>5 DEF Phases, Chat!Arriving
  <2> QED
    BY <2>1, <1>1, <1>3, <1>5, WriteKeeps
<1> QED
  BY <1>4, <1>5 DEF Chat!Token

\* The last frame of a stream.
LEMMA FrameKeeps == ASSUME ChatInv, Chat!Done \/ Chat!ErrorFrame PROVE ChatInv'
<1> DEFINE p == Chat!Pending
<1>1. /\ call.phase \in Chat!Arriving /\ call.phase # "none" /\ requests' = requests
      /\ call' = [call EXCEPT !.phase = "closing"]
      /\ \/ Chat!Write([p EXCEPT !.status = "done", !.sources = TRUE])
         \/ Chat!Write([p EXCEPT !.parts = <<>>, !.status = "error"])
  BY DEF Chat!Done, Chat!ErrorFrame, Chat!Arriving
<1>2. p \in Entries /\ Proper(p) /\ Awaited(p, call.phase)
  BY <1>1, AwaitedIs
<1>3. /\ call' \in [id : Nat, phase : Phases] /\ call'.id = call.id /\ call'.phase = "closing"
  BY <1>1, AwaitedIs DEF Phases
<1>4. "closing" # "none" /\ "closing" \notin Chat!Arriving
  BY DEF Chat!Arriving
<1>5. ASSUME NEW x, \/ x = [p EXCEPT !.status = "done", !.sources = TRUE]
                    \/ x = [p EXCEPT !.parts = <<>>, !.status = "error"]
      PROVE  /\ x \in Entries /\ x.id = p.id /\ x.role = p.role /\ x.of = p.of
             /\ Proper(x) /\ Awaited(x, "closing")
  <2>1. <<>> \in Seq(Pieces)
    OBVIOUS
  <2>2. /\ x \in Entries /\ x.id = p.id /\ x.role = p.role /\ x.of = p.of /\ x.retry = p.retry
        /\ x.status # "streaming" /\ x.parts \in {p.parts, <<>>}
    BY <1>2, <1>5, <2>1 DEF Entries
  <2>3. Unanswered(x) /\ ~ x.retry /\ x.role = "assistant"
    BY <1>2, <2>2 DEF Awaited, Unanswered
  <2> QED
    BY <2>2, <2>3, <1>4 DEF Proper, Awaited
<1> QED
  BY <1>1, <1>3, <1>4, <1>5, WriteKeeps

LEMMA PlainAnswerKeeps == ASSUME ChatInv, Chat!Answer PROVE ChatInv'
<1> DEFINE p == Chat!Pending
           t == IF p.status = "error" THEN p.status ELSE "done"
           x == [p EXCEPT !.parts = Chat!Answered(p), !.sources = TRUE,
                          !.status = IF @ = "error" THEN @ ELSE "done"]
<1>1. /\ call.phase # "none" /\ requests' = requests /\ Chat!Write(x)
      /\ call' = [id |-> 0, phase |-> "none"]
  BY DEF Chat!Answer, Chat!NoCall
<1>2. p \in Entries /\ ~ p.retry
  BY <1>1, AwaitedIs DEF Awaited
<1>3. /\ x \in Entries /\ x.id = p.id /\ x.role = p.role /\ x.of = p.of
      /\ x.parts = <<"answer">> /\ ~ x.retry /\ x.status = t
  <2>1. <<"answer">> \in Seq(Pieces)
    BY DEF Pieces
  <2>2. t \in {"done", "error"}
    OBVIOUS
  <2>3. x = [p EXCEPT !.parts = <<"answer">>, !.sources = TRUE, !.status = t]
    BY DEF Chat!Answered
  <2> HIDE DEF t, x
  <2> QED
    BY <1>2, <2>1, <2>2, <2>3 DEF Entries
<1>4. Proper(x) /\ x.status # "streaming"
  BY <1>3 DEF Proper
<1> HIDE DEF x
<1> QED
  BY <1>1, <1>3, <1>4, WriteKeeps

LEMMA AnswerFailsKeeps == ASSUME ChatInv, NEW s, Chat!AnswerFails(s) PROVE ChatInv'
<1> DEFINE p == Chat!Pending
           e == Chat!ErrorTitle(Chat!Status(s))
           x == [p EXCEPT !.parts = <<>>, !.status = "error", !.title = e, !.retry = TRUE]
<1>1. /\ call.phase # "none" /\ requests' = requests /\ Chat!Write(x)
      /\ call' = [id |-> 0, phase |-> "none"]
  BY DEF Chat!AnswerFails, Chat!NoCall
<1>2. p \in Entries /\ e \in Titles
  BY <1>1, AwaitedIs DEF Chat!ErrorTitle, Titles
<1> HIDE DEF e
<1>3. /\ x \in Entries /\ x.id = p.id /\ x.role = p.role /\ x.of = p.of
      /\ x.parts = <<>> /\ x.status = "error"
  <2>1. <<>> \in Seq(Pieces)
    OBVIOUS
  <2> QED
    BY <1>2, <2>1, Zenon DEF Entries
<1>4. Proper(x)
  BY <1>3 DEF Proper, Unanswered
<1> HIDE DEF x
<1> QED
  BY <1>1, <1>3, <1>4, WriteKeeps

LEMMA StreamKeeps ==
  ASSUME ChatInv, Chat!StreamEnds \/ Chat!StreamFails \/ Chat!StreamStalls PROVE ChatInv'
<1>1. /\ UNCHANGED <<messages, requests>> /\ call.phase # "none"
      /\ \/ \E p \in {"fallback", "stalled"} : call' = [call EXCEPT !.phase = p]
         \/ call.phase = "closing" /\ call' = [id |-> 0, phase |-> "none"]
  BY DEF Chat!StreamEnds, Chat!StreamFails, Chat!StreamStalls, Chat!NoCall, Chat!Arriving
<1> QED
  BY <1>1, PhaseMoves

LEMMA ChatKeeps == ChatInv /\ [Chat!Next]_chatVars => ChatInv'
<1> SUFFICES ASSUME ChatInv, [Chat!Next]_chatVars PROVE ChatInv'
  OBVIOUS
<1>1. CASE UNCHANGED <<messages, requests, call>>
  BY <1>1, ChatRests
<1>2. CASE Chat!Open \/ Chat!Cite \/ Chat!CitedFile \/ Chat!CloseCitation
  BY <1>1, <1>2 DEF Chat!Open, Chat!Cite, Chat!CitedFile, Chat!CloseCitation
<1>3. CASE Chat!Close \/ Chat!Ask
  BY <1>3, CloseKeeps, AskKeeps
<1>4. CASE Chat!Token \/ Chat!Done \/ Chat!ErrorFrame
  BY <1>4, TokenKeeps, FrameKeeps
<1>5. CASE Chat!StreamEnds \/ Chat!StreamFails \/ Chat!StreamStalls
  BY <1>5, StreamKeeps
<1>6. CASE Chat!Answer \/ \E s \in Statuses : Chat!AnswerFails(s)
  BY <1>6, PlainAnswerKeeps, AnswerFailsKeeps
<1>7. CASE \E m \in Chat!ToSet(messages) : Chat!Retry(m)
  BY <1>7, RetryKeeps
<1>8. CASE UNCHANGED chatVars
  BY <1>1, <1>8 DEF chatVars
<1> QED
  BY <1>2, <1>3, <1>4, <1>5, <1>6, <1>7, <1>8 DEF Chat!Next

LEMMA OneReplyEach == ChatInv => Chat!EveryQuestionHasOneReply
<1> SUFFICES ASSUME ChatInv PROVE Chat!EveryQuestionHasOneReply
  OBVIOUS
<1> DEFINE M == Elements(messages)
<1>1. Chat!ToSet(messages) = M /\ Orderly(M, requests, call.id, call.phase)
  BY ElementsOf DEF ChatInv
<1> HIDE DEF M
<1>2. SUFFICES ASSUME NEW q \in M, q.role = "user"
               PROVE  \E m \in Chat!Replies(q) :
                        /\ Chat!Replies(q) = {m}
                        /\ m.status = "streaming" => call.id = m.id
                        /\ call.id = m.id /\ call.phase \in Chat!Arriving
                             => m.status = "streaming"
                        /\ m.retry => m.status = "error" /\ m.parts = <<>> /\ call.id # m.id
                        /\ "answer" \in Chat!ToSet(m.parts) => m.parts = <<"answer">>
  BY <1>1 DEF Chat!EveryQuestionHasOneReply
<1>3. Chat!Replies(q) = {m \in M : m.role = "assistant" /\ m.of = q.id}
  BY <1>1 DEF Chat!Replies
<1>4. PICK m \in M : m.role = "assistant" /\ m.of = q.id
  BY <1>1, <1>2 DEF Orderly
<1>5. Chat!Replies(q) = {m}
  BY <1>1, <1>3, <1>4 DEF Orderly
<1>6. /\ m.status = "streaming" => call.id = m.id
      /\ call.id = m.id => Awaited(m, call.phase)
      /\ Proper(m) /\ m.parts \in Seq(Pieces)
  BY <1>1, <1>4 DEF Orderly, Entries
<1>7. "answer" \in Chat!ToSet(m.parts) => m.parts = <<"answer">>
  BY <1>6, ElementsOf DEF Elements, Proper, Unanswered
<1> QED
  BY <1>5, <1>6, <1>7 DEF Awaited, Proper

\* A question has exactly one reply, unfinished only while its submission is
\* awaited, to be retried only as an error and whole once it was asked for
\* again, whatever the number of questions, retries and tokens, and wherever
\* the streams fail (CopilotDrawer's submitMessage).
THEOREM EveryQuestionIsAnswered == ConsoleSpec => []EveryQuestionHasOneReply
<1>1. ConsoleInit => ChatInv
  BY ChatInitially DEF ConsoleInit
<1>2. ChatInv /\ [ConsoleNext]_consoleVars => ChatInv'
  BY StepsOfChat, ChatKeeps
<1>3. ChatInv => EveryQuestionHasOneReply
  BY OneReplyEach DEF EveryQuestionHasOneReply
<1> QED
  BY <1>1, <1>2, <1>3, PTL DEF ConsoleSpec
(* What is finished stays.                                                 *)

\* What is to be said of each message there was.
Spared(m) == \/ m \in Elements(messages')
             \/ m.status = "streaming" \/ m.retry \/ call = [id |-> m.id, phase |-> "fallback"]

\* A message is written in its place, and leaves the others in theirs.
LEMMA WriteSpares ==
  ASSUME ChatInv, call.phase # "none", NEW x, Chat!Write(x), x.id = call.id,
         NEW m \in Elements(messages), m.id # call.id
  PROVE  m \in Elements(messages')
<1>1. messages \in Seq(Entries) /\ DOMAIN messages = 1..Len(messages)
  BY DEF ChatInv
<1>2. PICK i \in 1..Len(messages) : messages[i] = m
  BY DEF Elements
<1>3. Len(messages') = Len(messages)
  BY <1>1 DEF Chat!Write
<1>4. messages'[i] = m
  BY <1>1, <1>2 DEF Chat!Write
<1> QED
  BY <1>2, <1>3, <1>4 DEF Elements

\* So does a message that is added.
LEMMA AppendSpares ==
  ASSUME NEW s \in Seq(Entries), NEW x \in Entries, NEW m \in Elements(s)
  PROVE  m \in Elements(Append(s, x)) /\ Append(s, x) \in Seq(Entries)
<1>1. PICK i \in 1..Len(s) : s[i] = m
  BY DEF Elements
<1>2. Len(Append(s, x)) = Len(s) + 1 /\ Len(s) \in Nat /\ Append(s, x)[i] = m
  BY <1>1
<1> QED
  BY <1>1, <1>2 DEF Elements

LEMMA SubmissionsSpare ==
  ASSUME ChatInv, NEW m \in Elements(messages),
         Chat!Ask \/ \E k \in Chat!ToSet(messages) : Chat!Retry(k)
  PROVE  Spared(m)
<1>1. /\ messages \in Seq(Entries) /\ requests \in Nat /\ Apart(messages)
      /\ Chat!ToSet(messages) = Elements(messages) /\ Elements(messages) \subseteq Entries
  BY ElementsOf DEF ChatInv
<1>2. CASE Chat!Ask
  <2> DEFINE q == Chat!Message(2 * requests + 1, "user", 2 * requests + 1, "done")
             x == Chat!Message(2 * requests + 2, "assistant", 2 * requests + 1, "streaming")
  <2>1. messages' = Append(Append(messages, q), x)
    BY <1>2 DEF Chat!Ask, Chat!Submit
  <2>2. q \in Entries /\ x \in Entries
    <3>1. 2 * requests + 1 \in Nat
      BY <1>1
    <3> QED
      BY <3>1, <1>1, ReplyIs
  <2> HIDE DEF q, x
  <2>3. m \in Elements(Append(messages, q)) /\ Append(messages, q) \in Seq(Entries)
    BY <2>2, <1>1, AppendSpares
  <2> QED
    BY <2>1, <2>2, <2>3, AppendSpares DEF Spared
<1>3. CASE \E k \in Chat!ToSet(messages) : Chat!Retry(k)
  <2>1. PICK k \in Elements(messages) : Chat!Retry(k)
    BY <1>1, <1>3
  <2> DEFINE x == Chat!Message(2 * requests + 2, "assistant", k.of, "streaming")
             i == CHOOSE j \in DOMAIN messages : messages[j].id = k.id
  <2>2. k.retry /\ messages' = Append(Chat!Retried(k), x)
    BY <2>1 DEF Chat!Retry, Chat!Submit
  <2>3. x \in Entries
    <3>1. k.of \in Nat
      BY <1>1 DEF Entries
    <3> QED
      BY <3>1, <1>1, ReplyIs
  <2> HIDE DEF x
  <2>4. i \in 1..Len(messages) /\ messages[i] = k
    <3>1. PICK j \in 1..Len(messages) : messages[j] = k
      BY DEF Elements
    <3>2. DOMAIN messages = 1..Len(messages)
      BY <1>1
    <3>3. \A l \in DOMAIN messages : messages[l].id = k.id <=> l = j
      BY <3>1, <3>2, <1>1 DEF Apart
    <3>4. i = j
      BY <3>2, <3>3
    <3> QED
      BY <3>1, <3>4
  <2>5. Chat!Retried(k) = Chat!RemoveAt(messages, i)
    BY DEF Chat!Retried
  <2> HIDE DEF i
  <2>6. /\ Chat!Retried(k) \in Seq(Entries)
        /\ Elements(Chat!Retried(k)) = Elements(messages) \ {k}
    BY <2>4, <2>5, <1>1, RemoveTakes
  <2>7. CASE m = k
    BY <2>2, <2>7 DEF Spared
  <2>8. CASE m # k
    BY <2>2, <2>3, <2>6, <2>8, AppendSpares DEF Spared
  <2> QED
    BY <2>7, <2>8
<1> QED
  BY <1>2, <1>3

\* What is written is written over the message awaited, which is unfinished
\* while frames may come.
LEMMA WritesSpare ==
  ASSUME ChatInv, NEW m \in Elements(messages), call.phase \in Chat!Arriving \cup {"fallback"},
         NEW x, Chat!Write(x), x.id = call.id
  PROVE  Spared(m)
<1>1. call.phase # "none"
  BY DEF Chat!Arriving
<1>2. CASE m.id # call.id
  BY <1>1, <1>2, WriteSpares DEF Spared
<1>3. CASE m.id = call.id
  <2>1. Awaited(m, call.phase) /\ call \in [id : Nat, phase : Phases]
    BY <1>3 DEF ChatInv, Orderly
  <2> QED
    BY <2>1, <1>3 DEF Awaited, Spared
<1> QED
  BY <1>2, <1>3

LEMMA StepsSpare ==
  ASSUME ChatInv, [Chat!Next]_chatVars, open', NEW m \in Elements(messages)
  PROVE  Spared(m)
<1>1. CASE messages' = messages
  BY <1>1 DEF Spared
<1>2. CASE Chat!Ask \/ \E k \in Chat!ToSet(messages) : Chat!Retry(k)
  BY <1>2, SubmissionsSpare
<1>3. CASE \/ Chat!Token \/ Chat!Done \/ Chat!ErrorFrame \/ Chat!Answer
           \/ \E s \in Statuses : Chat!AnswerFails(s)
  <2>1. call.phase \in Chat!Arriving \cup {"fallback"} /\ call.phase # "none"
    BY <1>3 DEF Chat!Token, Chat!Done, Chat!ErrorFrame, Chat!Answer, Chat!AnswerFails,
                Chat!Arriving
  <2>2. Chat!Pending \in Entries /\ Chat!Pending.id = call.id
    BY <2>1, AwaitedIs
  <2>3. ASSUME NEW x, NEW s,
               \/ x = [Chat!Pending EXCEPT !.parts = Append(@, "token")]
               \/ x = [Chat!Pending EXCEPT !.parts = Append(@, "whole")]
               \/ x = [Chat!Pending EXCEPT !.status = "done", !.sources = TRUE]
               \/ x = [Chat!Pending EXCEPT !.parts = <<>>, !.status = "error"]
               \/ x = [Chat!Pending EXCEPT !.parts = Chat!Answered(Chat!Pending),
                                           !.sources = TRUE,
                                           !.status = IF @ = "error" THEN @ ELSE "done"]
               \/ x = [Chat!Pending EXCEPT !.parts = <<>>, !.status = "error",
                            !.title = Chat!ErrorTitle(Chat!Status(s)), !.retry = TRUE]
        PROVE  x.id = call.id
    BY <2>2, <2>3 DEF Entries
  <2>4. \E x : Chat!Write(x) /\ x.id = call.id
    BY <1>3, <2>3
       DEF Chat!Token, Chat!Done, Chat!ErrorFrame, Chat!Answer, Chat!AnswerFails
  <2> QED
    BY <2>1, <2>4, WritesSpare
<1> QED
  BY <1>1, <1>2, <1>3
     DEF Chat!Next, Chat!Open, Chat!Close, Chat!StreamEnds, Chat!StreamFails,
         Chat!StreamStalls, Chat!Cite, Chat!CitedFile, Chat!CloseCitation, chatVars

\* While the drawer is open a finished message stays as it is, through every
\* question, retry, frame, failure and answer of the others; the exception is
\* a second request of its own submission, which CopilotDrawer makes when the
\* stream tears behind its last frame.
THEOREM FinishedStay == ConsoleSpec => FinishedRepliesStay
<1>1. ConsoleInit => ChatInv
  BY ChatInitially DEF ConsoleInit
<1>2. ChatInv /\ [ConsoleNext]_consoleVars => ChatInv'
  BY StepsOfChat, ChatKeeps
<1>3. ChatInv /\ [ConsoleNext]_consoleVars =>
        [\A m \in Chat!ToSet(messages) \ Chat!ToSet(messages)' :
           open' => \/ m.status = "streaming" \/ m.retry
                    \/ call = [id |-> m.id, phase |-> "fallback"]]_chatVars
  <2> SUFFICES ASSUME ChatInv, [ConsoleNext]_consoleVars,
                      NEW m \in Chat!ToSet(messages) \ Chat!ToSet(messages)', open'
               PROVE  \/ m.status = "streaming" \/ m.retry
                      \/ call = [id |-> m.id, phase |-> "fallback"]
    OBVIOUS
  <2>1. [Chat!Next]_chatVars /\ ChatInv'
    BY StepsOfChat, ChatKeeps
  <2>2. Chat!ToSet(messages) = Elements(messages) /\ messages' \in Seq(Entries)
    BY <2>1, ElementsOf DEF ChatInv
  <2>3. Chat!ToSet(messages)' = Elements(messages')
    BY <2>2, ElementsOf DEF Chat!ToSet
  <2>4. Spared(m)
    BY <2>1, <2>2, StepsSpare
  <2> QED
    BY <2>3, <2>4 DEF Spared
<1> QED
  BY <1>1, <1>2, <1>3, PTL DEF ConsoleSpec, FinishedRepliesStay, Chat!FinishedRepliesStay,
     chatVars, Chat!vars
------------------------------------------------------------------------------
(* Sums over finite sets.                                                  *)

\* Induction over the subsets of a finite set, the induction hypothesis a set.
LEMMA LeastNumberOf ==
  ASSUME NEW T \in SUBSET Nat, T # {}
  PROVE  \E n \in T : \A m \in T : n <= m
<1> DEFINE Below == {p \in Nat \X Nat : p[1] < p[2]}
<1>1. IsWellFoundedOn(Below, Nat)
  BY NatLessThanWellFounded DEF OpToRel, IsWellFoundedOn
<1>2. \A x, y \in Nat : y < x => <<y, x>> \in Below
  OBVIOUS
<1> HIDE DEF Below
<1>3. PICK x \in T : \A y \in T : ~ (<<y, x>> \in Below)
  BY <1>1, WFMin, Zenon
<1>4. \A m \in T : m \in Nat /\ x \in Nat /\ ~ (m < x)
  BY <1>2, <1>3, Zenon
<1> QED
  BY <1>4

LEMMA SetInduction ==
  ASSUME NEW D, IsFiniteSet(D), NEW P,
         \A T \in SUBSET D : (\A x \in T : T \ {x} \in P) => T \in P
  PROVE  \A T \in SUBSET D : T \in P
<1> DEFINE Others == {T \in SUBSET D : T \notin P}
           Sizes == {Cardinality(T) : T \in Others}
<1> SUFFICES ASSUME Others # {} PROVE FALSE
  OBVIOUS
<1>1. \A T \in Others : IsFiniteSet(T) /\ Cardinality(T) \in Nat
  BY FS_Subset, FS_CardinalityType
<1>2. Sizes \in SUBSET Nat /\ Sizes # {}
  BY <1>1
<1>3. PICK n \in Sizes : \A m \in Sizes : n <= m
  BY <1>2, LeastNumberOf, Zenon
<1>4. PICK T \in Others : n = Cardinality(T)
  OBVIOUS
<1>5. ASSUME NEW x \in T, T \ {x} \notin P PROVE FALSE
  <2>1. T \ {x} \in Others /\ Cardinality(T \ {x}) = n - 1
    BY <1>1, <1>4, <1>5, FS_RemoveElement
  <2>2. n - 1 \in Sizes /\ n \in Nat
    BY <2>1, <1>2
  <2> QED
    BY <2>2, <1>3
<1> QED
  BY <1>4, <1>5
------------------------------------------------------------------------------
(* The sum of a function is defined by taking one element after another.   *)

Pick(T) == CHOOSE x \in T : TRUE
IsSum(h, f, S) ==
  h = [T \in SUBSET S |-> IF T = {} THEN 0 ELSE f[Pick(T)] + h[T \ {Pick(T)}]]
SumOver(f, S) == Activity!SumFunctionOnSet(f, S)

LEMMA SumIs == ASSUME NEW f, NEW S PROVE SumOver(f, S) = (CHOOSE h : IsSum(h, f, S))[S]
  BY DEF SumOver, Activity!SumFunctionOnSet, Activity!FoldFunctionOnSet,
         Activity!MapThenFoldSet, IsSum, Pick

LEMMA PickIs == ASSUME NEW T, T # {} PROVE Pick(T) \in T
  BY DEF Pick

\* Two sums agree where their functions do.
LEMMA SumsAgree ==
  ASSUME NEW S, IsFiniteSet(S), NEW R, NEW f, NEW g, NEW h, NEW k,
         S \subseteq R, IsSum(h, f, S), IsSum(k, g, R), \A x \in S : f[x] = g[x]
  PROVE  \A T \in SUBSET S : h[T] = k[T]
<1> DEFINE P == {T \in SUBSET S : h[T] = k[T]}
<1>1. \A U \in SUBSET S :
        /\ h[U] = IF U = {} THEN 0 ELSE f[Pick(U)] + h[U \ {Pick(U)}]
        /\ k[U] = IF U = {} THEN 0 ELSE g[Pick(U)] + k[U \ {Pick(U)}]
  <2>1. h = [T \in SUBSET S |-> IF T = {} THEN 0 ELSE f[Pick(T)] + h[T \ {Pick(T)}]]
    BY Zenon DEF IsSum
  <2>2. k = [T \in SUBSET R |-> IF T = {} THEN 0 ELSE g[Pick(T)] + k[T \ {Pick(T)}]]
    BY Zenon DEF IsSum
  <2> QED
    BY <2>1, <2>2, Zenon
<1>2. ASSUME NEW T \in SUBSET S, \A x \in T : T \ {x} \in P PROVE T \in P
  <2>1. CASE T = {}
    BY <2>1, <1>1
  <2>2. CASE T # {}
    <3>1. Pick(T) \in T /\ Pick(T) \in S
      BY <2>2, PickIs
    <3>2. h[T \ {Pick(T)}] = k[T \ {Pick(T)}] /\ f[Pick(T)] = g[Pick(T)]
      BY <3>1, <1>2
    <3> QED
      BY <2>2, <3>2, <1>1
  <2> QED
    BY <2>1, <2>2
<1> HIDE DEF P
<1>3. \A T \in SUBSET S : T \in P
  BY <1>2, SetInduction, Zenon
<1> QED
  BY <1>3 DEF P

\* Every finite set has a sum: what is summed of it is that of its subsets.
LEMMA SumExists ==
  ASSUME NEW S, IsFiniteSet(S), NEW f PROVE \E h : IsSum(h, f, S)
<1> DEFINE P == {T \in SUBSET S : \A U \in SUBSET T : \E h : IsSum(h, f, U)}
<1>1. ASSUME NEW T \in SUBSET S, \A x \in T : T \ {x} \in P PROVE \E h : IsSum(h, f, T)
  <2> DEFINE H(U) == CHOOSE h : IsSum(h, f, U)
             Rest(U) == U \ {Pick(U)}
             h == [U \in SUBSET T |-> IF U = {} THEN 0 ELSE f[Pick(U)] + H(Rest(U))[Rest(U)]]
  <2>1. \A U \in SUBSET T : U # T => \E g : IsSum(g, f, U)
    <3>1. ASSUME NEW U \in SUBSET T, U # T PROVE \E g : IsSum(g, f, U)
      <4>1. PICK x \in T : U \in SUBSET (T \ {x})
        BY <3>1
      <4> QED
        BY <4>1, <1>1
    <3> QED
      BY <3>1
  <2>2. \A U \in SUBSET T : U # T => IsSum(H(U), f, U)
    BY <2>1
  <2> HIDE DEF H
  <2>3. ASSUME NEW U \in SUBSET T, U # T PROVE h[U] = H(U)[U]
    <3>1. H(U) = [V \in SUBSET U |-> IF V = {} THEN 0 ELSE f[Pick(V)] + H(U)[V \ {Pick(V)}]]
      BY <2>2, <2>3, Zenon DEF IsSum
    <3>2. CASE U = {}
      BY <3>1, <3>2
    <3>3. CASE U # {}
      <4>1. Pick(U) \in U
        BY <3>3, PickIs
      <4>2. Rest(U) \in SUBSET U /\ Rest(U) \in SUBSET T /\ Rest(U) # T
        BY <4>1
      <4>3. IsSum(H(Rest(U)), f, Rest(U)) /\ IsSum(H(U), f, U) /\ IsFiniteSet(Rest(U))
        BY <4>2, <2>2, <2>3, FS_Subset
      <4>4. H(Rest(U))[Rest(U)] = H(U)[Rest(U)]
        BY <4>2, <4>3, SumsAgree
      <4>5. H(U)[U] = f[Pick(U)] + H(U)[Rest(U)]
        BY <3>1, <3>3, Zenon
      <4> QED
        BY <4>4, <4>5, <3>3
    <3> QED
      BY <3>2, <3>3
  <2>4. ASSUME NEW U \in SUBSET T, U # {} PROVE H(Rest(U))[Rest(U)] = h[Rest(U)]
    <3>1. Pick(U) \in U
      BY <2>4, PickIs
    <3>2. Rest(U) \in SUBSET T /\ Rest(U) # T
      BY <3>1
    <3> QED
      BY <3>2, <2>3, Zenon
  <2>5. h = [U \in SUBSET T |-> IF U = {} THEN 0 ELSE f[Pick(U)] + h[U \ {Pick(U)}]]
    <3>1. \A U \in SUBSET T : h[U] = IF U = {} THEN 0 ELSE f[Pick(U)] + h[Rest(U)]
      BY <2>4, Zenon
    <3>2. h = [U \in SUBSET T |-> h[U]]
      OBVIOUS
    <3> HIDE DEF h
    <3> QED
      BY <3>1, <3>2, Zenon
  <2> QED
    BY <2>5, Zenon DEF IsSum
<1>2. ASSUME NEW T \in SUBSET S, \A x \in T : T \ {x} \in P PROVE T \in P
  <2>1. ASSUME NEW U \in SUBSET T, U # T PROVE \E h : IsSum(h, f, U)
    <3>1. PICK x \in T : U \in SUBSET (T \ {x})
      BY <2>1
    <3> QED
      BY <3>1, <1>2
  <2> QED
    BY <2>1, <1>1, <1>2
<1> HIDE DEF P
<1>3. \A T \in SUBSET S : T \in P
  BY <1>2, SetInduction, Zenon
<1>4. S \in P
  BY <1>3
<1> QED
  BY <1>4 DEF P

LEMMA SumTaken ==
  ASSUME NEW S, IsFiniteSet(S), NEW f
  PROVE  SumOver(f, S) = IF S = {} THEN 0 ELSE f[Pick(S)] + SumOver(f, S \ {Pick(S)})
<1> DEFINE h == CHOOSE h : IsSum(h, f, S)
           k == CHOOSE k : IsSum(k, f, S \ {Pick(S)})
<1>1. IsSum(h, f, S)
  BY SumExists
<1>2. IsFiniteSet(S \ {Pick(S)})
  BY FS_RemoveElement
<1>3. IsSum(k, f, S \ {Pick(S)})
  BY <1>2, SumExists
<1>4. SumOver(f, S) = h[S] /\ SumOver(f, S \ {Pick(S)}) = k[S \ {Pick(S)}]
  BY SumIs, Zenon
<1> HIDE DEF h, k
<1>5. k[S \ {Pick(S)}] = h[S \ {Pick(S)}]
  BY <1>1, <1>2, <1>3, SumsAgree
<1>6. h[S] = IF S = {} THEN 0 ELSE f[Pick(S)] + h[S \ {Pick(S)}]
  <2>1. h = [T \in SUBSET S |-> IF T = {} THEN 0 ELSE f[Pick(T)] + h[T \ {Pick(T)}]]
    BY <1>1, Zenon DEF IsSum
  <2> QED
    BY <2>1, Zenon
<1> QED
  BY <1>4, <1>5, <1>6

LEMMA SameSum ==
  ASSUME NEW S, IsFiniteSet(S), NEW f, NEW g, \A x \in S : f[x] = g[x]
  PROVE  SumOver(f, S) = SumOver(g, S)
<1> DEFINE h == CHOOSE h : IsSum(h, f, S)
           k == CHOOSE k : IsSum(k, g, S)
<1>1. IsSum(h, f, S) /\ IsSum(k, g, S)
  BY SumExists
<1>2. SumOver(f, S) = h[S] /\ SumOver(g, S) = k[S]
  BY SumIs
<1> HIDE DEF h, k
<1> QED
  BY <1>1, <1>2, SumsAgree

LEMMA SumIsInteger ==
  ASSUME NEW S, IsFiniteSet(S), NEW f, \A x \in S : f[x] \in Int
  PROVE  \A T \in SUBSET S : SumOver(f, T) \in Int
<1> DEFINE P == {T \in SUBSET S : SumOver(f, T) \in Int}
<1>1. ASSUME NEW T \in SUBSET S, \A x \in T : T \ {x} \in P PROVE T \in P
  <2>1. SumOver(f, T) = IF T = {} THEN 0 ELSE f[Pick(T)] + SumOver(f, T \ {Pick(T)})
    BY SumTaken, FS_Subset, Zenon
  <2>2. T # {} => Pick(T) \in T
    BY PickIs
  <2> QED
    BY <2>1, <2>2, <1>1
<1> HIDE DEF P
<1>2. \A T \in SUBSET S : T \in P
  BY <1>1, SetInduction, Zenon
<1> QED
  BY <1>2 DEF P

\* The order in which the elements are taken does not matter.
LEMMA SumWithout ==
  ASSUME NEW S, IsFiniteSet(S), NEW f, \A x \in S : f[x] \in Int
  PROVE  \A T \in SUBSET S : \A x \in T : SumOver(f, T) = f[x] + SumOver(f, T \ {x})
<1> DEFINE P == {T \in SUBSET S : \A x \in T : SumOver(f, T) = f[x] + SumOver(f, T \ {x})}
<1>1. ASSUME NEW T \in SUBSET S, \A x \in T : T \ {x} \in P PROVE T \in P
  <2>1. ASSUME NEW x \in T PROVE SumOver(f, T) = f[x] + SumOver(f, T \ {x})
    <3> DEFINE y == Pick(T)
    <3>1. SumOver(f, T) = f[y] + SumOver(f, T \ {y})
      BY <2>1, SumTaken, FS_Subset, Zenon
    <3>2. y \in T
      BY <2>1, PickIs
    <3> HIDE DEF y
    <3>3. CASE x = y
      BY <3>1, <3>3
    <3>4. CASE x # y
      <4>1. x \in T \ {y} /\ y \in T \ {x} /\ (T \ {y}) \ {x} = (T \ {x}) \ {y}
        BY <3>2, <3>4, <2>1
      <4>2. SumOver(f, T \ {y}) = f[x] + SumOver(f, (T \ {y}) \ {x})
        BY <4>1, <3>2, <1>1
      <4>3. SumOver(f, T \ {x}) = f[y] + SumOver(f, (T \ {y}) \ {x})
        BY <4>1, <2>1, <1>1
      <4>4. f[x] \in Int /\ f[y] \in Int /\ SumOver(f, (T \ {y}) \ {x}) \in Int
        BY <3>2, <2>1, SumIsInteger
      <4> QED
        BY <3>1, <4>2, <4>3, <4>4
    <3> QED
      BY <3>3, <3>4
  <2> QED
    BY <2>1
<1> HIDE DEF P
<1>2. \A T \in SUBSET S : T \in P
  BY <1>1, SetInduction, Zenon
<1> QED
  BY <1>2, Zenon DEF P

LEMMA SumLess ==
  ASSUME NEW T, IsFiniteSet(T), NEW x \in T, NEW f, \A y \in T : f[y] \in Int
  PROVE  SumOver(f, T) = f[x] + SumOver(f, T \ {x})
<1>1. T \in SUBSET T
  OBVIOUS
<1> QED
  BY <1>1, SumWithout

LEMMA SumOfBoth ==
  ASSUME NEW S, NEW R, IsFiniteSet(S), IsFiniteSet(R), S \cap R = {},
         NEW f, \A x \in S \cup R : f[x] \in Int
  PROVE  SumOver(f, S \cup R) = SumOver(f, S) + SumOver(f, R)
<1> DEFINE P == {T \in SUBSET S : SumOver(f, T \cup R) = SumOver(f, T) + SumOver(f, R)}
<1>1. IsFiniteSet(S \cup R)
  BY FS_Union, Zenon
<1>2. \A T \in SUBSET S : /\ T \cup R \in SUBSET (S \cup R) /\ SumOver(f, T) \in Int
                          /\ SumOver(f, R) \in Int
  BY <1>1, SumIsInteger
<1>3. ASSUME NEW T \in SUBSET S, \A x \in T : T \ {x} \in P PROVE T \in P
  <2>1. CASE T = {}
    <3>1. SumOver(f, T) = 0
      BY <2>1, SumTaken, FS_EmptySet
    <3> QED
      BY <3>1, <2>1, <1>2
  <2>2. ASSUME NEW x \in T PROVE T \in P
    <3>1. SumOver(f, (T \ {x}) \cup R) = SumOver(f, T \ {x}) + SumOver(f, R)
      BY <2>2, <1>3
    <3>2. (T \ {x}) \cup R = (T \cup R) \ {x} /\ x \in T \cup R
      BY <2>2
    <3>3. SumOver(f, T \cup R) = f[x] + SumOver(f, (T \cup R) \ {x})
      BY <3>2, <1>1, <1>2, SumWithout
    <3>4. SumOver(f, T) = f[x] + SumOver(f, T \ {x})
      BY <2>2, SumWithout
    <3>5. f[x] \in Int /\ SumOver(f, T \ {x}) \in Int
      BY <2>2, <1>2
    <3> QED
      BY <3>1, <3>2, <3>3, <3>4, <3>5, <1>2
  <2> QED
    BY <2>1, <2>2
<1> HIDE DEF P
<1>4. \A T \in SUBSET S : T \in P
  BY <1>3, SetInduction, Zenon
<1> QED
  BY <1>4 DEF P

\* A sum of naturals is one, and no less than any of them.
LEMMA SumOfNaturals ==
  ASSUME NEW S, IsFiniteSet(S), NEW f, \A x \in S : f[x] \in Nat
  PROVE  SumOver(f, S) \in Nat /\ \A x \in S : f[x] <= SumOver(f, S)
<1> DEFINE P == {T \in SUBSET S : SumOver(f, T) \in Nat}
<1>1. ASSUME NEW T \in SUBSET S, \A x \in T : T \ {x} \in P PROVE T \in P
  <2>1. SumOver(f, T) = IF T = {} THEN 0 ELSE f[Pick(T)] + SumOver(f, T \ {Pick(T)})
    BY SumTaken, FS_Subset, Zenon
  <2>2. T # {} => Pick(T) \in T
    BY PickIs
  <2> QED
    BY <2>1, <2>2, <1>1
<1> HIDE DEF P
<1>2. \A T \in SUBSET S : T \in P
  BY <1>1, SetInduction, Zenon
<1>3. ASSUME NEW x \in S PROVE f[x] <= SumOver(f, S)
  <2>1. SumOver(f, S) = f[x] + SumOver(f, S \ {x})
    BY SumWithout
  <2>2. SumOver(f, S \ {x}) \in Nat
    BY <1>2 DEF P
  <2> QED
    BY <2>1, <2>2
<1> QED
  BY <1>2, <1>3 DEF P

\* The sum of a function over its domain.
LEMMA SumFunctionIs ==
  ASSUME NEW S, IsFiniteSet(S), NEW f, NEW g, f = [x \in S |-> g[x]]
  PROVE  Activity!SumFunction(f) = SumOver(g, S)
<1>1. DOMAIN f = S /\ \A x \in S : f[x] = g[x]
  OBVIOUS
<1>2. Activity!SumFunction(f) = SumOver(f, S)
  BY <1>1 DEF Activity!SumFunction, SumOver
<1> QED
  BY <1>1, <1>2, SameSum
------------------------------------------------------------------------------
(* The figures of the Command Center.                                      *)

LEMMA StepsOfActivity == [ConsoleNext]_consoleVars => [Activity!Next]_activityVars
  BY DEF ConsoleNext, consoleVars, activityVars

\* The types of what the figures are computed from: every figure is of this
\* state alone, so nothing more needs to be invariant.
ActivityInv == /\ commits \in SUBSET Universe /\ {now, asOf, spotsAsOf} \subseteq Int
               /\ range \in Activity!Ranges /\ metric \in Activity!Metrics

LEMMA ActivityInitially == Activity!Init => ActivityInv
  BY ActivityAssumption DEF Activity!Init, ActivityInv, Activity!Ranges, Activity!Metrics

LEMMA ActivityKeeps == ActivityInv /\ [Activity!Next]_activityVars => ActivityInv'
<1> SUFFICES ASSUME ActivityInv, [Activity!Next]_activityVars PROVE ActivityInv'
  OBVIOUS
<1> USE DEF ActivityInv
<1>1. ASSUME NEW S \in SUBSET Universe, Activity!Load(S) PROVE ActivityInv'
  BY <1>1 DEF Activity!Load
<1>2. ASSUME NEW r \in Activity!Ranges, Activity!SetRange(r) PROVE ActivityInv'
  BY <1>2 DEF Activity!SetRange
<1>3. ASSUME NEW m \in Activity!Metrics, Activity!SetMetric(m) PROVE ActivityInv'
  BY <1>3 DEF Activity!SetMetric
<1>4. ASSUME NEW v, Activity!SetView(v) PROVE ActivityInv'
  BY <1>4 DEF Activity!SetView
<1>5. ASSUME NEW h, Activity!Explain(h) PROVE ActivityInv'
  BY <1>5 DEF Activity!Explain
<1>6. CASE Activity!Analysed \/ Activity!CloseExplanation \/ Activity!Tick
  BY <1>6 DEF Activity!Analysed, Activity!CloseExplanation, Activity!Tick
<1>7. CASE UNCHANGED activityVars
  BY <1>7 DEF activityVars
<1> QED
  BY <1>1, <1>2, <1>3, <1>4, <1>5, <1>6, <1>7 DEF Activity!Next
------------------------------------------------------------------------------
(* The largest and the smallest of some integers.                          *)

LEMMA Largest ==
  ASSUME NEW S \in SUBSET Int, IsFiniteSet(S), S # {}
  PROVE  Activity!Max(S) \in S /\ \A x \in S : x <= Activity!Max(S)
<1> DEFINE P == {T \in SUBSET S : T # {} => \E x \in T : \A y \in T : y <= x}
<1>1. ASSUME NEW T \in SUBSET S, \A x \in T : T \ {x} \in P PROVE T \in P
  <2>1. ASSUME NEW z \in T PROVE \E x \in T : \A y \in T : y <= x
    <3>1. CASE T = {z}
      BY <3>1
    <3>2. CASE T \ {z} # {}
      <4>1. PICK x \in T \ {z} : \A y \in T \ {z} : y <= x
        BY <3>2, <1>1
      <4>2. x \in Int /\ z \in Int
        OBVIOUS
      <4>3. CASE z <= x
        BY <4>1, <4>3
      <4>4. CASE x <= z
        <5>1. \A y \in T : y \in Int /\ (y <= x \/ y = z)
          BY <4>1
        <5>2. \A y \in T : y <= z
          BY <5>1, <4>2, <4>4
        <5> QED
          BY <5>2
      <4> QED
        BY <4>2, <4>3, <4>4
    <3> QED
      BY <3>1, <3>2
  <2> QED
    BY <2>1, Zenon
<1> HIDE DEF P
<1>2. S \in P
  BY <1>1, SetInduction, Zenon
<1>3. \E x \in S : \A y \in S : x >= y
  BY <1>2 DEF P
<1> QED
  BY <1>3, Zenon DEF Activity!Max

LEMMA Smallest ==
  ASSUME NEW S \in SUBSET Int, IsFiniteSet(S), S # {}
  PROVE  Activity!Min(S) \in S /\ \A x \in S : Activity!Min(S) <= x
<1> DEFINE f == [x \in S |-> -x]
           R == {f[x] : x \in S}
<1>1. R \in SUBSET Int /\ R # {} /\ f \in [S -> R] /\ DOMAIN f = S
  <2>1. \A x \in S : f[x] \in Int
    OBVIOUS
  <2> HIDE DEF f
  <2>2. f = [x \in S |-> f[x]]
    BY DEF f
  <2> QED
    BY <2>1, <2>2
<1>2. IsFiniteSet(R)
  <2>1. f \in Surjection(S, R)
    BY <1>1 DEF Surjection
  <2> QED
    BY <2>1, FS_Surjection
<1>3. PICK z \in R : \A y \in R : y <= z
  BY <1>1, <1>2, Largest
<1>4. PICK x \in S : z = -x
  OBVIOUS
<1>5. \A y \in S : x =< y
  BY <1>3, <1>4
<1>6. \E w \in S : \A y \in S : w =< y
  BY <1>5
<1> QED
  BY <1>6, Zenon DEF Activity!Min

LEMMA FiniteImage ==
  ASSUME NEW S, IsFiniteSet(S), NEW f PROVE IsFiniteSet({f[x] : x \in S})
<1> DEFINE g == [x \in S |-> f[x]]
           R == {f[x] : x \in S}
<1>1. g \in Surjection(S, R)
  BY DEF Surjection
<1> QED
  BY <1>1, FS_Surjection
------------------------------------------------------------------------------
(* The buckets.                                                            *)

LEMMA BucketsAre ==
  ASSUME ActivityInv
  PROVE  \/ range = 7 /\ Activity!BucketCount = 7 /\ Activity!BucketSize = 2
         \/ range = 30 /\ Activity!BucketCount = 30 /\ Activity!BucketSize = 2
         \/ range = 90 /\ Activity!BucketCount = 13 /\ Activity!BucketSize = 14
  BY DEF ActivityInv, Activity!Ranges, Activity!BucketCount, Activity!BucketSize,
         Activity!Weekly, Activity!CeilDiv, Activity!Day

LEMMA CommitsAre ==
  ASSUME ActivityInv
  PROVE  /\ IsFiniteSet(commits) /\ IsFiniteSet(Activity!InRange)
         /\ Activity!InRange \subseteq commits
         /\ \A c \in commits : c \in Universe /\ Activity!Age(c) \in Int
         /\ \A c \in Activity!InRange : Activity!Age(c) <= range * 2
<1>1. IsFiniteSet(commits)
  BY ActivityAssumption, FS_Subset DEF ActivityInv
<1>2. Activity!InRange \subseteq commits
  BY DEF Activity!InRange
<1>3. IsFiniteSet(Activity!InRange)
  BY <1>1, <1>2, FS_Subset
<1> QED
  BY <1>1, <1>2, <1>3, ActivityAssumption
     DEF ActivityInv, Activity!InRange, Activity!Age, Activity!Day

LEMMA OneBucketIn ==
  ASSUME ActivityInv, NEW c \in Activity!InRange
  PROVE  /\ Cardinality({i \in 1..Activity!BucketCount : Activity!InBucket(c, i)})
              = (IF Activity!Age(c) > 0 THEN 1 ELSE 0)
         /\ c \in Activity!Recent <=> c \notin Activity!Previous
<1> DEFINE a == Activity!Age(c)
           N == Activity!BucketCount
           Z == Activity!BucketSize
           B == {i \in 1..N : Activity!InBucket(c, i)}
<1>1. a \in Int /\ a <= range * 2 /\ range \in {7, 30, 90}
  BY CommitsAre DEF ActivityInv, Activity!Ranges
<1>2. B = {i \in 1..N : (i - 1) * Z < a /\ a <= i * Z}
  BY DEF Activity!InBucket
<1>3. ASSUME a > 0 PROVE Cardinality(B) = 1
  <2> DEFINE k == (a + Z - 1) \div Z
  <2>1. /\ k \in 1..N /\ (k - 1) * Z < a /\ a <= k * Z
        /\ \A i \in 1..N : (i - 1) * Z < a /\ a <= i * Z => i = k
    <3> HIDE DEF a
    <3>1. CASE N = 7 /\ Z = 2 /\ range = 7
      BY <1>1, <1>3, <3>1
    <3>2. CASE N = 30 /\ Z = 2 /\ range = 30
      BY <1>1, <1>3, <3>2
    <3>3. CASE N = 13 /\ Z = 14 /\ range = 90
      BY <1>1, <1>3, <3>3
    <3> QED
      BY <3>1, <3>2, <3>3, BucketsAre
  <2> HIDE DEF a, N, Z, k
  <2>2. B = {k}
    BY <2>1, <1>2
  <2> HIDE DEF B
  <2> QED
    BY <2>2, FS_Singleton
<1>4. ASSUME ~ (a > 0) PROVE Cardinality(B) = 0
  <2>1. B = {}
    <3> HIDE DEF a
    <3>1. CASE N = 7 /\ Z = 2
      BY <1>1, <1>2, <1>4, <3>1
    <3>2. CASE N = 30 /\ Z = 2
      BY <1>1, <1>2, <1>4, <3>2
    <3>3. CASE N = 13 /\ Z = 14
      BY <1>1, <1>2, <1>4, <3>3
    <3> QED
      BY <3>1, <3>2, <3>3, BucketsAre
  <2> QED
    BY <2>1, <1>4, FS_EmptySet
<1>5. c \in Activity!Recent <=> c \notin Activity!Previous
  BY <1>1 DEF Activity!Recent, Activity!Previous, Activity!Day
<1> QED
  BY <1>3, <1>4, <1>5

LEMMA ActivityCounts == \A S : Activity!Cardinality(S) = Cardinality(S)
  BY DEF Activity!Cardinality, Cardinality

LEMMA OneBucket == ActivityInv => Activity!OneBucketEach
<1> SUFFICES ASSUME ActivityInv, NEW c \in Activity!InRange
             PROVE  /\ Activity!Cardinality(
                          {i \in 1..Activity!BucketCount : Activity!InBucket(c, i)})
                         = (IF Activity!Age(c) > 0 THEN 1 ELSE 0)
                    /\ (c \in Activity!Recent) # (c \in Activity!Previous)
  BY Zenon DEF Activity!OneBucketEach
<1>1. (c \in Activity!Recent) # (c \in Activity!Previous)
  BY OneBucketIn, Zenon
<1> QED
  BY <1>1, OneBucketIn, ActivityCounts
------------------------------------------------------------------------------
(* The chart against the range.                                            *)

LEMMA StatsOfBoth ==
  ASSUME ActivityInv, NEW A \in SUBSET commits, NEW B \in SUBSET commits, A \cap B = {}
  PROVE  /\ Activity!Additions(A \cup B) = Activity!Additions(A) + Activity!Additions(B)
         /\ Activity!Deletions(A \cup B) = Activity!Deletions(A) + Activity!Deletions(B)
         /\ Activity!Additions(A) \in Int /\ Activity!Deletions(A) \in Int
<1> DEFINE W(S) == Activity!WithStats(S)
           adds == [c \in Universe |-> c.adds]
           dels == [c \in Universe |-> c.dels]
<1>1. ASSUME NEW S \in SUBSET commits
      PROVE  /\ IsFiniteSet(W(S)) /\ W(S) \subseteq Universe
             /\ \A c \in W(S) : adds[c] \in Int /\ dels[c] \in Int
  <2>1. IsFiniteSet(commits) /\ \A c \in commits : c \in Universe
    BY CommitsAre
  <2>2. W(S) \in SUBSET commits
    BY DEF Activity!WithStats
  <2> QED
    BY <2>1, <2>2, FS_Subset, ActivityAssumption
<1>2. ASSUME NEW S \in SUBSET commits
      PROVE  /\ Activity!Additions(S) = SumOver(adds, W(S))
             /\ Activity!Deletions(S) = SumOver(dels, W(S))
  <2>1. /\ [c \in W(S) |-> c.adds] = [c \in W(S) |-> adds[c]]
        /\ [c \in W(S) |-> c.dels] = [c \in W(S) |-> dels[c]]
    BY <1>1
  <2> HIDE DEF adds, dels
  <2>2. /\ Activity!SumFunction([c \in W(S) |-> c.adds]) = SumOver(adds, W(S))
        /\ Activity!SumFunction([c \in W(S) |-> c.dels]) = SumOver(dels, W(S))
    BY <1>1, <2>1, SumFunctionIs
  <2> QED
    BY <2>2 DEF Activity!Additions, Activity!Deletions
<1>3. W(A \cup B) = W(A) \cup W(B) /\ W(A) \cap W(B) = {}
  BY DEF Activity!WithStats
<1> HIDE DEF W, adds, dels
<1>4. /\ SumOver(adds, W(A) \cup W(B)) = SumOver(adds, W(A)) + SumOver(adds, W(B))
      /\ SumOver(dels, W(A) \cup W(B)) = SumOver(dels, W(A)) + SumOver(dels, W(B))
  BY <1>1, <1>3, SumOfBoth
<1>5. SumOver(adds, W(A)) \in Int /\ SumOver(dels, W(A)) \in Int
  BY <1>1, SumIsInteger
<1>6. A \cup B \in SUBSET commits
  OBVIOUS
<1> QED
  BY <1>2, <1>3, <1>4, <1>5, <1>6, Zenon

LEMMA FigureOfBoth ==
  ASSUME ActivityInv, NEW A \in SUBSET commits, NEW B \in SUBSET commits, A \cap B = {}
  PROVE  /\ Activity!Figure(A \cup B) = Activity!Figure(A) + Activity!Figure(B)
         /\ Activity!Figure(A) \in Int
<1>1. IsFiniteSet(A) /\ IsFiniteSet(B)
  BY CommitsAre, FS_Subset
<1>2. /\ Cardinality(A \cup B) = Cardinality(A) + Cardinality(B)
      /\ Cardinality(A) \in Nat /\ Cardinality(B) \in Nat
  <2>1. Cardinality(A \cup B) = Cardinality(A) + Cardinality(B) - Cardinality(A \cap B)
    BY <1>1, FS_Union
  <2>2. Cardinality(A) \in Nat /\ Cardinality(B) \in Nat
    BY <1>1, FS_CardinalityType
  <2>3. Cardinality(A \cap B) = 0
    BY FS_EmptySet
  <2> QED
    BY <2>1, <2>2, <2>3
<1>3. B \cap A = {}
  OBVIOUS
<1>4. /\ Activity!Additions(A \cup B) = Activity!Additions(A) + Activity!Additions(B)
      /\ Activity!Deletions(A \cup B) = Activity!Deletions(A) + Activity!Deletions(B)
      /\ Activity!Additions(A) \in Int /\ Activity!Deletions(A) \in Int
      /\ Activity!Additions(B) \in Int /\ Activity!Deletions(B) \in Int
  BY <1>3, StatsOfBoth, Zenon
<1>5. metric \in {"activity", "churn", "net", "additions", "deletions"}
  BY DEF ActivityInv, Activity!Metrics
<1> QED
  BY <1>2, <1>4, <1>5, ActivityCounts DEF Activity!Figure

\* What is in the first n buckets, or of this instant, or of a clock ahead.
Upto(n) == {c \in Activity!InRange : Activity!Age(c) <= n * Activity!BucketSize}
Values == [i \in 1..Activity!BucketCount |-> Activity!Value(i)]

LEMMA ValuesAre ==
  ASSUME ActivityInv
  PROVE  /\ DOMAIN Values = 1..Activity!BucketCount /\ IsFiniteSet(1..Activity!BucketCount)
         /\ Activity!BucketCount \in Nat
         /\ \A i \in 1..Activity!BucketCount :
              /\ Activity!Bucket(i) \in SUBSET commits
              /\ Values[i] = Activity!Value(i) /\ Values[i] \in Int
<1>1. \A i \in 1..Activity!BucketCount : Activity!Bucket(i) \in SUBSET commits
  BY CommitsAre DEF Activity!Bucket
<1>2. \A S \in SUBSET commits : {} \in SUBSET commits /\ S \cap {} = {}
  OBVIOUS
<1>3. \A S \in SUBSET commits : Activity!Figure(S) \in Int
  BY <1>2, FigureOfBoth, Zenon
<1>4. Activity!BucketCount \in Nat
  BY BucketsAre
<1>5. IsFiniteSet(1..Activity!BucketCount)
  BY <1>4, FS_Interval
<1> QED
  BY <1>1, <1>3, <1>4, <1>5 DEF Values, Activity!Value

\* The first n buckets count what is up to their end: by the least n that fails.
LEMMA FirstBuckets ==
  ASSUME ActivityInv, NEW n \in Nat, n <= Activity!BucketCount
  PROVE  Activity!Figure(Upto(n)) = SumOver(Values, 1..n) + Activity!Figure(Upto(0))
<1> DEFINE N == Activity!BucketCount
           Z == Activity!BucketSize
           P == {m \in 0..N : Activity!Figure(Upto(m))
                                = SumOver(Values, 1..m) + Activity!Figure(Upto(0))}
           Others == {m \in 0..N : m \notin P}
<1>1. N \in Nat /\ Z \in {2, 14}
  BY BucketsAre
<1>2. \A m \in 0..N : Upto(m) \in SUBSET commits /\ Activity!Figure(Upto(m)) \in Int
  <2>1. \A m \in 0..N : Upto(m) \in SUBSET commits
    BY CommitsAre DEF Upto
  <2>2. \A S \in SUBSET commits : Activity!Figure(S) \in Int
    <3>1. \A S \in SUBSET commits : {} \in SUBSET commits /\ S \cap {} = {}
      OBVIOUS
    <3> QED
      BY <3>1, FigureOfBoth, Zenon
  <2> QED
    BY <2>1, <2>2
<1>3. 0 \in P
  <2>1. SumOver(Values, 1..0) = 0
    <3>1. 1..0 = {}
      OBVIOUS
    <3> QED
      BY <3>1, FS_EmptySet, SumTaken
  <2> QED
    BY <2>1, <1>1, <1>2
<1>4. ASSUME NEW m \in P, m < N PROVE m + 1 \in P
  <2>0. m \in Nat /\ m + 1 \in 1..N /\ m \in 0..N
    BY <1>1, <1>4
  <2>1. /\ Upto(m + 1) = Upto(m) \cup Activity!Bucket(m + 1)
        /\ Upto(m) \cap Activity!Bucket(m + 1) = {}
    <3>1. ASSUME NEW c \in Activity!InRange
          PROVE  /\ c \in Upto(m + 1) <=> c \in Upto(m) \/ c \in Activity!Bucket(m + 1)
                 /\ ~ (c \in Upto(m) /\ c \in Activity!Bucket(m + 1))
      <4>1. Activity!Age(c) \in Int
        BY CommitsAre
      <4>2. c \in Activity!Bucket(m + 1) <=> /\ m * Z < Activity!Age(c)
                                             /\ Activity!Age(c) <= (m + 1) * Z
        BY <2>0 DEF Activity!Bucket, Activity!InBucket
      <4>3. m * Z \in Int /\ (m + 1) * Z \in Int /\ m * Z <= (m + 1) * Z
        <5>1. CASE Z = 2
          BY <5>1, <2>0
        <5>2. CASE Z = 14
          BY <5>2, <2>0
        <5> QED
          BY <5>1, <5>2, <1>1
      <4> QED
        BY <4>1, <4>2, <4>3 DEF Upto
    <3>2. \A k : Upto(k) \subseteq Activity!InRange /\ Activity!Bucket(k) \subseteq Activity!InRange
      BY DEF Upto, Activity!Bucket
    <3> QED
      BY <3>1, <3>2
  <2>2. Activity!Bucket(m + 1) \in SUBSET commits /\ Upto(m) \in SUBSET commits
    BY CommitsAre, <1>2, <2>0 DEF Activity!Bucket
  <2>3. /\ Activity!Figure(Upto(m + 1)) = Activity!Figure(Upto(m)) + Activity!Value(m + 1)
        /\ Activity!Value(m + 1) \in Int
    <3>1. Activity!Bucket(m + 1) \cap Upto(m) = {}
      BY <2>1
    <3> QED
      BY <2>1, <2>2, <3>1, FigureOfBoth, Zenon DEF Activity!Value
  <2>4. SumOver(Values, 1..(m + 1)) = Values[m + 1] + SumOver(Values, 1..m)
    <3>1. \A i \in 1..N : Values[i] \in Int
      BY ValuesAre
    <3>2. IsFiniteSet(1..N) /\ 1..(m + 1) \in SUBSET (1..N) /\ m + 1 \in 1..(m + 1)
      BY <1>1, <2>0, FS_Interval
    <3>3. (1..(m + 1)) \ {m + 1} = 1..m
      BY <2>0
    <3> HIDE DEF N
    <3>4. PICK T : T = 1..(m + 1)
      OBVIOUS
    <3>5. IsFiniteSet(T) /\ m + 1 \in T /\ T \ {m + 1} = 1..m /\ \A y \in T : Values[y] \in Int
      BY <3>1, <3>2, <3>3, <3>4, FS_Subset, Zenon
    <3>6. SumOver(Values, T) = Values[m + 1] + SumOver(Values, T \ {m + 1})
      BY <3>5, SumLess
    <3> QED
      BY <3>4, <3>5, <3>6, Zenon
  <2>5. Values[m + 1] = Activity!Value(m + 1)
    BY <2>0 DEF Values
  <2>6. SumOver(Values, 1..m) \in Int
    <3>1. \A i \in 1..N : Values[i] \in Int
      BY ValuesAre
    <3>2. IsFiniteSet(1..N) /\ 1..m \in SUBSET (1..N)
      BY <1>1, <2>0, FS_Interval
    <3> HIDE DEF N
    <3> QED
      BY <3>1, <3>2, SumIsInteger, Zenon
  <2>7. /\ Activity!Figure(Upto(m)) = SumOver(Values, 1..m) + Activity!Figure(Upto(0))
        /\ Activity!Figure(Upto(0)) \in Int /\ m + 1 \in 0..N
    BY <1>1, <1>2, <2>0
  <2> QED
    BY <2>3, <2>4, <2>5, <2>6, <2>7
<1> HIDE DEF N, P
<1>5. ASSUME Others # {} PROVE FALSE
  <2>1. Others \in SUBSET Nat
    BY <1>1
  <2>2. PICK k \in Others : \A j \in Others : k <= j
    BY <2>1, <1>5, LeastNumberOf, Zenon
  <2>3. k \in 1..N /\ k - 1 \in 0..N /\ k - 1 < k /\ k - 1 < N /\ (k - 1) + 1 = k
    BY <2>2, <1>1, <1>3
  <2>4. k - 1 \in P
    BY <2>2, <2>3
  <2> QED
    BY <2>3, <2>4, <1>4
<1>6. n \in P
  BY <1>1, <1>5 DEF N
<1> QED
  BY <1>6 DEF P

LEMMA HeadlineIsSum ==
  ASSUME ActivityInv
  PROVE  Activity!Headline
           = Activity!SumFunction([i \in 1..Activity!BucketCount |-> Activity!Value(i)])
             + Activity!Figure({c \in Activity!InRange : Activity!Age(c) <= 0})
<1> DEFINE N == Activity!BucketCount
<1>1. Activity!SumFunction(Values) = SumOver(Values, 1..N)
  BY ValuesAre DEF Activity!SumFunction, SumOver
<1>2. Upto(N) = Activity!InRange
  <2>1. \A c \in Activity!InRange : Activity!Age(c) \in Int /\ Activity!Age(c) <= range * 2
    BY CommitsAre
  <2>2. range * 2 <= N * Activity!BucketSize /\ range * 2 \in Int
        /\ N * Activity!BucketSize \in Int
    BY BucketsAre
  <2> QED
    BY <2>1, <2>2 DEF Upto
<1>3. Upto(0) = {c \in Activity!InRange : Activity!Age(c) <= 0}
  BY BucketsAre DEF Upto
<1>4. Activity!Figure(Upto(N)) = SumOver(Values, 1..N) + Activity!Figure(Upto(0))
  BY ValuesAre, FirstBuckets
<1> QED
  BY <1>1, <1>2, <1>3, <1>4, Zenon DEF Activity!Headline, Values

LEMMA PointsAreFramed ==
  ASSUME ActivityInv
  PROVE  LET top == Activity!MaxY
         IN \A i \in 1..Activity!BucketCount : -top < Activity!Value(i) /\ Activity!Value(i) < top
<1> DEFINE N == Activity!BucketCount
           Size == [i \in 1..N |-> Activity!Larger(Values[i], -Values[i])]
           S == {1} \cup {Size[i] : i \in 1..N}
           M == Activity!Max(S)
<1>1. \A i \in 1..N : /\ Size[i] \in Int /\ Values[i] \in Int
                      /\ Values[i] <= Size[i] /\ -Values[i] <= Size[i]
  BY ValuesAre DEF Activity!Larger
<1> HIDE DEF Size
<1>2. S \in SUBSET Int /\ S # {}
  BY <1>1
<1>3. IsFiniteSet(S)
  <2>1. IsFiniteSet({Size[i] : i \in 1..N})
    BY ValuesAre, FiniteImage
  <2> QED
    BY <2>1, FS_Singleton, FS_Union, Zenon
<1>4. M \in Int /\ 1 <= M /\ \A i \in 1..N : Size[i] <= M
  BY <1>2, <1>3, Largest
<1>5. {Size[i] : i \in 1..N}
        = {Activity!Larger(Activity!Value(i), -Activity!Value(i)) : i \in 1..N}
  BY ValuesAre DEF Size
<1>6. Activity!MaxY = (115 * M + 100 - 1) \div 100
  BY <1>5, Zenon DEF Activity!MaxY, Activity!CeilDiv
<1> HIDE DEF M, S, N
<1>7. Activity!MaxY \in Int /\ M < Activity!MaxY
  BY <1>4, <1>6
<1>8. ASSUME NEW i \in 1..N
      PROVE  -Activity!MaxY < Activity!Value(i) /\ Activity!Value(i) < Activity!MaxY
  <2>1. Activity!Value(i) = Values[i]
    BY ValuesAre DEF N
  <2> QED
    BY <2>1, <1>1, <1>4, <1>7
<1> QED
  BY <1>8 DEF N

LEMMA PeakIsActive ==
  ASSUME ActivityInv, Activity!Active # {} PROVE Activity!Peak \in Activity!Active
<1> DEFINE N == Activity!BucketCount
           Size == [i \in 1..N |-> Cardinality(Activity!Bucket(i))]
           S == {Size[i] : i \in 1..N}
           M == Activity!Max(S)
           T == {i \in 1..N : Size[i] = M}
<1>1. \A i \in 1..N : Size[i] \in Nat /\ (Size[i] = 0 <=> Activity!Bucket(i) = {})
  BY ValuesAre, CommitsAre, FS_Subset, FS_CardinalityType, FS_EmptySet
<1> HIDE DEF Size
<1>2. PICK a \in 1..N : Activity!Bucket(a) # {}
  BY DEF Activity!Active
<1>3. S \in SUBSET Int /\ S # {} /\ IsFiniteSet(S)
  BY <1>1, <1>2, ValuesAre, FiniteImage
<1>4. M \in S /\ \A i \in 1..N : Size[i] <= M
  BY <1>3, Largest, Zenon
<1>5. T \in SUBSET Int /\ T # {} /\ IsFiniteSet(T)
  <2>1. IsFiniteSet(1..N) /\ T \in SUBSET (1..N)
    BY ValuesAre
  <2>2. IsFiniteSet(T)
    BY <2>1, FS_Subset, Zenon
  <2>3. M \in {Size[i] : i \in 1..N}
    BY <1>4, Zenon
  <2>4. T # {}
    BY <2>3, Zenon
  <2>5. \A i \in 1..N : i \in Int
    OBVIOUS
  <2> HIDE DEF T
  <2>6. T \subseteq Int
    BY <2>1, <2>5
  <2> QED
    BY <2>2, <2>4, <2>6
<1>6. /\ S = {Activity!Cardinality(Activity!Bucket(i)) : i \in 1..N}
      /\ T = {i \in 1..N : Activity!Cardinality(Activity!Bucket(i)) = M}
  BY ActivityCounts DEF Size
<1>7. Activity!Peak = Activity!Max(T)
  BY <1>6, Zenon DEF Activity!Peak
<1> HIDE DEF M, S
<1>8. Activity!Max(T) \in T
  BY <1>5, Largest
<1>9. Size[a] > 0 /\ M > 0
  BY <1>1, <1>2, <1>4 DEF S
<1>10. /\ Activity!Peak \in 1..N /\ Size[Activity!Peak] = M
       /\ \A i \in 1..N : Size[i] # 0 => Activity!Bucket(i) # {}
  BY <1>1, <1>7, <1>8
<1> HIDE DEF T, N
<1>11. Activity!Bucket(Activity!Peak) # {}
  BY <1>9, <1>10
<1> QED
  BY <1>10, <1>11 DEF Activity!Active, N

LEMMA RecentWhenHigh ==
  ASSUME ActivityInv, commits # {}, Activity!HealthLabel = "High"
  PROVE  \E c \in commits : Activity!Age(c) < 15 * Activity!Day
<1> DEFINE N == Activity!BucketCount
           Ages == [c \in commits |-> Activity!Age(c)]
           S == {Ages[c] : c \in commits}
           newest == Activity!Larger(0, Activity!Min(S) \div Activity!Day)
           recency == Activity!Steps(newest, <<40, 30, 20, 10>>)
           spread == Activity!Round(Cardinality(Activity!Active) * 30, N)
           authors == Cardinality(Activity!Authors(Activity!InRange))
<1>1. IsFiniteSet(commits) /\ \A c \in commits : Ages[c] \in Int
  BY CommitsAre
<1> HIDE DEF Ages
<1>2. S \in SUBSET Int /\ S # {} /\ IsFiniteSet(S)
  BY <1>1, FiniteImage
<1>3. Activity!Min(S) \in S
  BY <1>2, Smallest, Zenon
<1>4. spread \in Int /\ spread <= 30
  <2>1. Activity!Active \in SUBSET (1..N) /\ IsFiniteSet(1..N)
    BY ValuesAre DEF Activity!Active
  <2>2. Cardinality(1..N) = N /\ N \in {7, 13, 30}
    BY BucketsAre, FS_Interval
  <2> HIDE DEF N
  <2>3. Cardinality(Activity!Active) \in Nat /\ Cardinality(Activity!Active) <= N
    BY <2>1, <2>2, FS_Subset, FS_CardinalityType, Zenon
  <2>4. \A k \in Nat : k <= N => /\ (2 * (k * 30) + N) \div (2 * N) \in Int
                                /\ (2 * (k * 30) + N) \div (2 * N) <= 30
    BY <2>2
  <2> QED
    BY <2>3, <2>4 DEF Activity!Round
<1>5. Activity!HealthScore
        = recency + spread
          + (IF authors >= 4 THEN 30 ELSE IF authors >= 2 THEN 25 ELSE IF authors = 1 THEN 15 ELSE 10)
  <2>1. S = {Activity!Age(c) : c \in commits}
    BY DEF Ages
  <2> QED
    BY <2>1, ActivityCounts, Zenon DEF Activity!HealthScore
<1>6. newest \in Nat
  BY <1>2, <1>3 DEF Activity!Larger, Activity!Day
<1>7. newest > 14 => recency \in {5, 10}
  BY <1>6 DEF Activity!Steps
<1>8. recency \in Int
  BY <1>6 DEF Activity!Steps
<1> HIDE DEF recency, spread, authors, newest
<1>9. newest <= 14
  <2>1. Activity!HealthScore >= 75
    BY DEF Activity!HealthLabel
  <2> QED
    BY <2>1, <1>4, <1>5, <1>6, <1>7, <1>8
<1>10. Activity!Min(S) < 30
  BY <1>2, <1>3, <1>9 DEF newest, Activity!Larger, Activity!Day
<1> QED
  BY <1>3, <1>10 DEF Ages, Activity!Day

LEMMA FiguresDoAgree == ASSUME ActivityInv, commits # {} PROVE Activity!FiguresAgree
  BY HeadlineIsSum, PointsAreFramed, PeakIsActive, RecentWhenHigh DEF Activity!FiguresAgree

LEMMA CommitsAreCounted == ActivityInv => Activity!EveryCommitInOneBucket
  BY OneBucket, FiguresDoAgree DEF Activity!EveryCommitInOneBucket

\* Whatever the commits, the range and the instant: every commit of the range
\* is in exactly one bucket and one half of the trend, the number above the
\* chart is the sum of its points, no point leaves the frame, the named peak
\* has commits and "High" means a commit within two weeks
\* (calculateActivityAnalytics and the chart of RepositoryActivitySection).
THEOREM EveryCommitIsCounted == ConsoleSpec => []EveryCommitInOneBucket
<1>1. ConsoleInit => ActivityInv
  BY ActivityInitially DEF ConsoleInit
<1>2. ActivityInv /\ [ConsoleNext]_consoleVars => ActivityInv'
  BY StepsOfActivity, ActivityKeeps
<1>3. ActivityInv => EveryCommitInOneBucket
  BY CommitsAreCounted DEF EveryCommitInOneBucket
<1> QED
  BY <1>1, <1>2, <1>3, PTL DEF ConsoleSpec
------------------------------------------------------------------------------
(* The hotspots: a directory against its files.                            *)

LEMMA WindowIs ==
  ASSUME ActivityInv
  PROVE  /\ IsFiniteSet(Activity!Window) /\ Activity!Window \in SUBSET Universe
         /\ \A c \in Universe : Activity!SpotAge(c) \in Int
<1>1. Activity!Window \in SUBSET commits
  BY DEF Activity!Window
<1>2. IsFiniteSet(commits) /\ commits \in SUBSET Universe
  BY CommitsAre DEF ActivityInv
<1>3. \A c \in Universe : Activity!SpotAge(c) \in Int
  BY ActivityAssumption DEF ActivityInv, Activity!SpotAge
<1> QED
  BY <1>1, <1>2, <1>3, FS_Subset

LEMMA ChangedFilesAre ==
  ASSUME ActivityInv
  PROVE  /\ IsFiniteSet(Activity!ChangedFiles) /\ IsFiniteSet(Activity!Directories)
         /\ \A f \in Activity!ChangedFiles :
              /\ Insights[f] \in Nat
              /\ Activity!Touching(f) \in SUBSET Activity!Window
              /\ Activity!Touching(f) # {} /\ IsFiniteSet(Activity!Touching(f))
         /\ \A d : /\ Activity!FilesIn(d) \in SUBSET Activity!ChangedFiles
                   /\ IsFiniteSet(Activity!FilesIn(d))
<1> DEFINE W == Activity!Window
           files == [c \in W |-> c.files]
           S == {files[c] : c \in W}
           F == Activity!ChangedFiles
           dir == [f \in F |-> f[1]]
<1>1. IsFiniteSet(W) /\ W \in SUBSET Universe
  BY WindowIs
<1>2. IsFiniteSet(S)
  BY <1>1, FiniteImage, Zenon
<1>3. \A x \in S : IsFiniteSet(x)
  BY <1>1, ActivityAssumption
<1>4. F = UNION S
  BY DEF Activity!ChangedFiles
<1>5. IsFiniteSet(UNION S)
  <2> HIDE DEF S
  <2> QED
    BY <1>2, <1>3, FS_UNION
<1>6. IsFiniteSet(F)
  BY <1>4, <1>5
<1>7. Activity!Directories = {dir[f] : f \in F}
  BY DEF Activity!Directories
<1>8. IsFiniteSet(Activity!Directories)
  <2>1. IsFiniteSet({dir[f] : f \in F})
    BY <1>6, FiniteImage, Zenon
  <2> QED
    BY <2>1, <1>7
<1>9. ASSUME NEW f \in F
      PROVE  /\ Insights[f] \in Nat
             /\ Activity!Touching(f) \in SUBSET W
             /\ Activity!Touching(f) # {} /\ IsFiniteSet(Activity!Touching(f))
  <2>1. PICK c \in W : f \in c.files
    BY <1>4
  <2>2. c \in Activity!Touching(f) /\ Activity!Touching(f) \in SUBSET W
    BY <2>1 DEF Activity!Touching
  <2>3. Insights[f] \in Nat
    BY <2>1, <1>1, ActivityAssumption
  <2> QED
    BY <2>2, <2>3, <1>1, FS_Subset
<1>10. \A d : Activity!FilesIn(d) \in SUBSET F
  BY DEF Activity!FilesIn
<1> HIDE DEF F, W
<1>11. \A d : IsFiniteSet(Activity!FilesIn(d))
  BY <1>6, <1>10, FS_Subset
<1> QED
  BY <1>6, <1>8, <1>9, <1>10, <1>11 DEF F, W

\* The more commits, the later the last of them.
LEMMA LaterOfMore ==
  ASSUME ActivityInv, NEW A \in SUBSET Activity!Window, NEW B \in SUBSET A, B # {}
  PROVE  /\ Activity!DaysSince(A) \in Nat /\ Activity!DaysSince(B) \in Nat
         /\ Activity!DaysSince(A) <= Activity!DaysSince(B)
<1> DEFINE ages == [c \in Activity!Window |-> Activity!SpotAge(c)]
           AgesOf(S) == {ages[c] : c \in S}
<1>1. A \in SUBSET Universe /\ IsFiniteSet(A) /\ IsFiniteSet(B) /\ A # {} /\ B \in SUBSET Universe
  BY WindowIs, FS_Subset
<1>2. \A c \in A : ages[c] = Activity!SpotAge(c) /\ ages[c] \in Int
  BY <1>1, WindowIs
<1> HIDE DEF ages
<1>3. /\ AgesOf(A) \in SUBSET Int /\ AgesOf(A) # {} /\ IsFiniteSet(AgesOf(A))
      /\ AgesOf(B) \in SUBSET AgesOf(A) /\ AgesOf(B) # {} /\ IsFiniteSet(AgesOf(B))
  <2>1. IsFiniteSet(AgesOf(A)) /\ IsFiniteSet(AgesOf(B))
    BY <1>1, FiniteImage
  <2> QED
    BY <2>1, <1>1, <1>2
<1>4. /\ AgesOf(A) = {Activity!SpotAge(c) : c \in A}
      /\ AgesOf(B) = {Activity!SpotAge(c) : c \in B}
  BY <1>2
<1> DEFINE a == Activity!Min(AgesOf(A))
           b == Activity!Min(AgesOf(B))
<1> HIDE DEF AgesOf
<1>5. a \in Int /\ b \in Int /\ a <= b
  <2>1. a \in AgesOf(A) /\ \A x \in AgesOf(A) : a <= x
    BY <1>3, Smallest
  <2>2. b \in AgesOf(B)
    <3>1. AgesOf(B) \in SUBSET Int
      BY <1>3
    <3> QED
      BY <3>1, <1>3, Smallest
  <2> QED
    BY <2>1, <2>2, <1>3
<1>6. /\ Activity!DaysSince(A) = Activity!Larger(0, a \div 2)
      /\ Activity!DaysSince(B) = Activity!Larger(0, b \div 2)
  BY <1>4 DEF Activity!DaysSince, Activity!Day
<1> HIDE DEF a, b
<1>7. a \div 2 \in Int /\ b \div 2 \in Int /\ a \div 2 <= b \div 2
  BY <1>5
<1> QED
  BY <1>6, <1>7 DEF Activity!Larger

LEMMA StepsAre ==
  ASSUME NEW m \in Nat, NEW n \in Nat, m <= n
  PROVE  /\ Activity!Steps(m, <<25, 20, 15, 10>>) \in 5..25
         /\ Activity!Steps(n, <<25, 20, 15, 10>>) <= Activity!Steps(m, <<25, 20, 15, 10>>)
  BY DEF Activity!Steps

LEMMA AiScoresAre ==
  ASSUME NEW m \in Nat, NEW n \in Nat, m <= n
  PROVE  /\ Activity!AiScore(n) \in 0..10
         /\ Activity!AiScore(m) <= Activity!AiScore(n)
<1>1. CASE n >= 2
  BY <1>1 DEF Activity!AiScore
<1>2. CASE n \in {0, 1}
  BY <1>2 DEF Activity!AiScore
<1> QED
  BY <1>1, <1>2

\* A share of the largest is a share of 25, whatever the others are.
LEMMA ShareOf25 ==
  ASSUME NEW S \in SUBSET Nat, IsFiniteSet(S), NEW x \in S
  PROVE  Activity!Of25(x, S) \in 0..25
<1> DEFINE M == Activity!Max({1} \cup S)
<1>1. {1} \cup S \in SUBSET Int /\ {1} \cup S # {} /\ IsFiniteSet({1} \cup S)
  <2>1. IsFiniteSet({1})
    BY FS_Singleton, Zenon
  <2>2. IsFiniteSet({1} \cup S)
    BY <2>1, FS_Union, Zenon
  <2> QED
    BY <2>2
<1>2. M \in {1} \cup S /\ \A y \in {1} \cup S : y <= M
  BY <1>1, Largest
<1>3. Activity!Of25(x, S) = (2 * (x * 25) + M) \div (2 * M)
  BY DEF Activity!Of25, Activity!Round
<1> HIDE DEF M
<1>4. M \in Nat /\ 1 <= M /\ x \in Nat /\ x <= M
  BY <1>2
<1>5. (2 * (x * 25) + M) \div (2 * M) \in 0..25
  <2> DEFINE a == 2 * (x * 25) + M
             b == 2 * M
  <2>1. a \in Nat /\ b \in Nat /\ b > 0 /\ a < 26 * b
    BY <1>4
  <2> HIDE DEF a, b
  <2>2. a \div b \in 0..25
    BY <2>1
  <2> QED
    BY <2>2 DEF a, b
<1> QED
  BY <1>3, <1>5

LEMMA RoundIs ==
  ASSUME NEW x \in Nat, NEW y \in Nat, y > 0 PROVE Activity!Round(x, y) \in Nat
<1> DEFINE a == 2 * x + y
           b == 2 * y
<1>1. a \in Nat /\ b \in Nat /\ b > 0
  OBVIOUS
<1> HIDE DEF a, b
<1>2. a \div b \in Nat
  BY <1>1
<1> QED
  BY <1>2 DEF a, b, Activity!Round

LEMMA ChurnIs ==
  ASSUME ActivityInv, NEW f \in Activity!ChangedFiles PROVE Activity!Churn(f) \in Nat
<1> DEFINE S == Activity!WithStats(Activity!Touching(f))
           share == [c \in S |-> Activity!Round(c.adds, Activity!Cardinality(c.files))
                                 + Activity!Round(c.dels, Activity!Cardinality(c.files))]
<1>1. IsFiniteSet(S)
  <2>1. S \in SUBSET Activity!Touching(f)
    BY DEF Activity!WithStats
  <2> QED
    BY <2>1, ChangedFilesAre, FS_Subset
<1>2. ASSUME NEW c \in S PROVE share[c] \in Nat
  <2>1. c \in Universe /\ f \in c.files /\ c.adds >= 0
    BY WindowIs DEF Activity!WithStats, Activity!Touching
  <2>2. IsFiniteSet(c.files) /\ c.adds \in Nat /\ c.dels \in Nat
    BY <2>1, ActivityAssumption
  <2>3. Activity!Cardinality(c.files) \in Nat /\ Activity!Cardinality(c.files) > 0
    <3>1. Cardinality(c.files) \in Nat /\ Cardinality(c.files) # 0
      BY <2>1, <2>2, FS_CardinalityType, FS_EmptySet
    <3> QED
      BY <3>1, ActivityCounts
  <2>4. /\ Activity!Round(c.adds, Activity!Cardinality(c.files)) \in Nat
        /\ Activity!Round(c.dels, Activity!Cardinality(c.files)) \in Nat
    BY <2>2, <2>3, RoundIs
  <2> QED
    BY <2>4
<1>3. share = [c \in S |-> share[c]]
  OBVIOUS
<1>4. Activity!Churn(f) = Activity!SumFunction(share)
  BY DEF Activity!Churn
<1> HIDE DEF share, S
<1>5. Activity!SumFunction(share) = SumOver(share, S)
  BY <1>1, <1>3, SumFunctionIs
<1>6. SumOver(share, S) \in Nat
  BY <1>1, <1>2, SumOfNaturals
<1> QED
  BY <1>4, <1>5, <1>6

LEMMA FileCountsAre ==
  ASSUME ActivityInv, NEW f \in Activity!ChangedFiles
  PROVE  Activity!Cardinality(Activity!Touching(f)) \in Nat
<1>1. IsFiniteSet(Activity!Touching(f))
  BY ChangedFilesAre
<1> QED
  BY <1>1, FS_CardinalityType, ActivityCounts

LEMMA FileScoresAre ==
  ASSUME ActivityInv, NEW f \in Activity!ChangedFiles
  PROVE  /\ Activity!FileScore(f) <= 100
         /\ Activity!RiskLevel(Activity!FileScore(f)) = "Critical"
              => Activity!Cardinality(Activity!Authors(Activity!Touching(f))) > 1
<1> DEFINE F == Activity!ChangedFiles
           changes == [g \in F |-> Activity!Cardinality(Activity!Touching(g))]
           churns == [g \in F |-> Activity!Churn(g)]
           authors == Activity!Cardinality(Activity!Authors(Activity!Touching(f)))
           X == {changes[g] : g \in F}
           Y == {churns[g] : g \in F}
<1>1. IsFiniteSet(F) /\ \A g \in F : changes[g] \in Nat /\ churns[g] \in Nat
  BY ChangedFilesAre, FileCountsAre, ChurnIs
<1>2. /\ X = {Activity!Cardinality(Activity!Touching(g)) : g \in F}
      /\ Y = {Activity!Churn(g) : g \in F}
      /\ changes[f] = Activity!Cardinality(Activity!Touching(f)) /\ changes[f] \in X
      /\ churns[f] = Activity!Churn(f) /\ churns[f] \in Y
  OBVIOUS
<1>3. authors \in Nat
  <2> DEFINE author == [c \in Activity!Touching(f) |-> c.author]
  <2>1. IsFiniteSet({author[c] : c \in Activity!Touching(f)})
    BY ChangedFilesAre, FiniteImage, Zenon
  <2>2. Activity!Authors(Activity!Touching(f)) = {author[c] : c \in Activity!Touching(f)}
    BY DEF Activity!Authors
  <2> QED
    BY <2>1, <2>2, FS_CardinalityType, ActivityCounts
<1> HIDE DEF changes, churns
<1>4. IsFiniteSet(X) /\ IsFiniteSet(Y) /\ X \in SUBSET Nat /\ Y \in SUBSET Nat
  BY <1>1, FiniteImage
<1> DEFINE p == Activity!Of25(changes[f], X)
           q == Activity!Of25(churns[f], Y)
           r == Activity!FileRecency(f)
           s == Activity!AiScore(Insights[f])
<1>5. Activity!FileScore(f)
        = p + q + r + s + (IF authors >= 4 THEN 15 ELSE IF authors = 3 THEN 12
                           ELSE IF authors = 2 THEN 8 ELSE 4)
  BY <1>2, Zenon DEF Activity!FileScore
<1> HIDE DEF X, Y
<1>6. p \in 0..25 /\ q \in 0..25
  BY <1>2, <1>4, ShareOf25
<1>7. r \in 5..25
  <2> DEFINE T == Activity!Touching(f)
  <2>1. T \in SUBSET Activity!Window /\ T \in SUBSET T /\ T # {}
    BY ChangedFilesAre
  <2> HIDE DEF T
  <2>2. Activity!DaysSince(T) \in Nat
    BY <2>1, LaterOfMore
  <2>3. Activity!Steps(Activity!DaysSince(T), <<25, 20, 15, 10>>) \in 5..25
    BY <2>2, StepsAre
  <2> QED
    BY <2>3 DEF T, Activity!FileRecency
<1>8. s \in 0..10
  BY ChangedFilesAre, AiScoresAre
<1> HIDE DEF p, q, r, s, authors
<1>9. Activity!FileScore(f) <= 100 /\ (Activity!FileScore(f) >= 90 => authors > 1)
  BY <1>3, <1>5, <1>6, <1>7, <1>8
<1> QED
  BY <1>9 DEF authors, Activity!RiskLevel

LEMMA DirectoryFiguresAre ==
  ASSUME ActivityInv, NEW d
  PROVE  /\ Activity!DirChanges(d) \in Nat /\ Activity!DirChurn(d) \in Nat
         /\ Activity!Cardinality(Activity!FilesIn(d)) \in Nat
<1> DEFINE D == Activity!FilesIn(d)
           changes == [f \in D |-> Activity!Cardinality(Activity!Touching(f))]
           churns == [f \in D |-> Activity!Churn(f)]
<1>1. IsFiniteSet(D) /\ D \in SUBSET Activity!ChangedFiles
  BY ChangedFilesAre
<1>2. \A f \in D : changes[f] \in Nat /\ churns[f] \in Nat
  BY <1>1, FileCountsAre, ChurnIs
<1>3. changes = [f \in D |-> changes[f]] /\ churns = [f \in D |-> churns[f]]
  OBVIOUS
<1>4. /\ Activity!DirChanges(d) = Activity!SumFunction(changes)
      /\ Activity!DirChurn(d) = Activity!SumFunction(churns)
  BY DEF Activity!DirChanges, Activity!DirChurn
<1>5. Activity!Cardinality(D) \in Nat
  BY <1>1, FS_CardinalityType, ActivityCounts
<1> HIDE DEF D, changes, churns
<1>6. /\ Activity!SumFunction(changes) = SumOver(changes, D)
      /\ Activity!SumFunction(churns) = SumOver(churns, D)
  BY <1>1, <1>3, SumFunctionIs
<1>7. SumOver(changes, D) \in Nat /\ SumOver(churns, D) \in Nat
  BY <1>1, <1>2, SumOfNaturals
<1> QED
  BY <1>4, <1>5, <1>6, <1>7 DEF D

LEMMA DirectoryOf ==
  ASSUME ActivityInv, NEW f \in Activity!ChangedFiles
  PROVE  /\ f[1] \in Activity!Directories /\ f \in Activity!FilesIn(f[1])
         /\ Activity!DirRecency(f[1]) \in 5..25
         /\ Activity!FileRecency(f) <= Activity!DirRecency(f[1])
         /\ Activity!DirAi(f[1]) \in 0..10
         /\ Activity!AiScore(Insights[f]) <= Activity!DirAi(f[1])
<1> DEFINE D == Activity!FilesIn(f[1])
           A == UNION {Activity!Touching(g) : g \in D}
           B == Activity!Touching(f)
           marks == [g \in D |-> Insights[g]]
<1>1. f[1] \in Activity!Directories /\ f \in D
  BY DEF Activity!Directories, Activity!FilesIn
<1>2. IsFiniteSet(D) /\ D \in SUBSET Activity!ChangedFiles
  BY ChangedFilesAre
<1>3. A \in SUBSET Activity!Window /\ B \in SUBSET A /\ B # {}
  <2>1. \A g \in D : Activity!Touching(g) \in SUBSET Activity!Window
    BY <1>2, ChangedFilesAre
  <2>2. B # {}
    BY ChangedFilesAre
  <2> QED
    BY <2>1, <2>2, <1>1
<1>4. /\ Activity!DirRecency(f[1])
            = Activity!Steps(Activity!DaysSince(A), <<25, 20, 15, 10>>)
      /\ Activity!FileRecency(f)
            = Activity!Steps(Activity!DaysSince(B), <<25, 20, 15, 10>>)
  BY DEF Activity!DirRecency, Activity!FileRecency
<1>5. /\ \A g \in D : marks[g] \in Nat
      /\ marks = [g \in D |-> marks[g]] /\ marks[f] = Insights[f]
  BY <1>1, <1>2, ChangedFilesAre
<1>6. Activity!DirAi(f[1]) = Activity!AiScore(Activity!SumFunction(marks))
  BY DEF Activity!DirAi
<1> HIDE DEF A, B, D, marks
<1>7. /\ Activity!DaysSince(A) \in Nat /\ Activity!DaysSince(B) \in Nat
      /\ Activity!DaysSince(A) <= Activity!DaysSince(B)
  BY <1>3, LaterOfMore
<1>8. Activity!SumFunction(marks) = SumOver(marks, D)
  BY <1>2, <1>5, SumFunctionIs
<1>9. SumOver(marks, D) \in Nat /\ marks[f] <= SumOver(marks, D) /\ marks[f] \in Nat
  BY <1>1, <1>2, <1>5, SumOfNaturals
<1>10. /\ Activity!AiScore(SumOver(marks, D)) \in 0..10
       /\ Activity!AiScore(marks[f]) <= Activity!AiScore(SumOver(marks, D))
  BY <1>9, AiScoresAre
<1>11. /\ Activity!DirRecency(f[1]) \in 5..25
       /\ Activity!FileRecency(f) <= Activity!DirRecency(f[1])
  BY <1>4, <1>7, StepsAre
<1> QED
  BY <1>1, <1>5, <1>6, <1>8, <1>10, <1>11 DEF D

LEMMA DirectoryScoresAre ==
  ASSUME ActivityInv, NEW f \in Activity!ChangedFiles PROVE Activity!DirScore(f[1]) <= 100
<1> DEFINE E == Activity!Directories
           d == f[1]
           changes == [x \in E |-> Activity!DirChanges(x)]
           churns == [x \in E |-> Activity!DirChurn(x)]
           X == {changes[x] : x \in E}
           Y == {churns[x] : x \in E}
           k == Activity!Cardinality(Activity!FilesIn(d))
           m == Activity!Min({15, Activity!Larger(4, 3 * k)})
<1>1. IsFiniteSet(E) /\ d \in E /\ \A x \in E : changes[x] \in Nat /\ churns[x] \in Nat
  BY ChangedFilesAre, DirectoryOf, DirectoryFiguresAre
<1>2. /\ X = {Activity!DirChanges(x) : x \in E} /\ Y = {Activity!DirChurn(x) : x \in E}
      /\ changes[d] = Activity!DirChanges(d) /\ changes[d] \in X
      /\ churns[d] = Activity!DirChurn(d) /\ churns[d] \in Y
  BY <1>1
<1>3. k \in Nat
  BY DirectoryFiguresAre
<1> HIDE DEF changes, churns
<1>4. IsFiniteSet(X) /\ IsFiniteSet(Y) /\ X \in SUBSET Nat /\ Y \in SUBSET Nat
  BY <1>1, FiniteImage
<1>5. m \in Int /\ m <= 15
  <2> DEFINE S == {15, Activity!Larger(4, 3 * k)}
  <2>1. Activity!Larger(4, 3 * k) \in Int
    <3> HIDE DEF k
    <3> QED
      BY <1>3 DEF Activity!Larger
  <2> HIDE DEF k
  <2>2. S \in SUBSET Int /\ S # {} /\ IsFiniteSet(S)
    <3>1. S = {15} \cup {Activity!Larger(4, 3 * k)}
      OBVIOUS
    <3>2. IsFiniteSet({15}) /\ IsFiniteSet({Activity!Larger(4, 3 * k)})
      BY FS_Singleton, Zenon
    <3>3. IsFiniteSet(S)
      BY <3>1, <3>2, FS_Union, Zenon
    <3> QED
      BY <2>1, <3>3
  <2>3. 15 \in S
    OBVIOUS
  <2> HIDE DEF S
  <2>4. Activity!Min(S) \in Int /\ Activity!Min(S) <= 15
    BY <2>2, <2>3, Smallest, Zenon
  <2> QED
    BY <2>4 DEF S
<1> DEFINE p == Activity!Of25(changes[d], X)
           q == Activity!Of25(churns[d], Y)
           r == Activity!DirRecency(d)
           s == Activity!DirAi(d)
<1>6. Activity!DirScore(d) = p + q + r + s + m
  BY <1>2, Zenon DEF Activity!DirScore
<1> HIDE DEF X, Y, m
<1>7. p \in 0..25 /\ q \in 0..25
  BY <1>2, <1>4, ShareOf25
<1>8. r \in 5..25 /\ s \in 0..10
  BY DirectoryOf
<1> HIDE DEF p, q, r, s
<1> QED
  BY <1>5, <1>6, <1>7, <1>8

LEMMA DirectoriesCover == ActivityInv => Activity!DirectoryCoversItsFiles
<1> SUFFICES ASSUME ActivityInv, NEW f \in Activity!ChangedFiles
             PROVE  /\ Activity!DirRecency(f[1]) >= Activity!FileRecency(f)
                    /\ Activity!DirAi(f[1]) >= Activity!AiScore(Insights[f])
                    /\ Activity!FileScore(f) <= 100 /\ Activity!DirScore(f[1]) <= 100
                    /\ Activity!RiskLevel(Activity!FileScore(f)) = "Critical"
                         => Activity!Cardinality(Activity!Authors(Activity!Touching(f))) > 1
  BY DEF Activity!DirectoryCoversItsFiles
<1>1. /\ Activity!FileRecency(f) <= Activity!DirRecency(f[1])
      /\ Activity!AiScore(Insights[f]) <= Activity!DirAi(f[1])
  BY DirectoryOf
<1>2. Activity!FileScore(f) <= 100 /\ Activity!DirScore(f[1]) <= 100
  BY FileScoresAre, DirectoryScoresAre
<1> QED
  BY <1>1, <1>2, FileScoresAre

\* However many files, commits and authors there are, a directory's recency
\* and AI part are no less than any of its files', no score passes 100, and a
\* file of one author is never critical (calculateHotspotAnalytics).
THEOREM DirectoriesCoverTheirFiles == ConsoleSpec => []DirectoryCoversItsFiles
<1>1. ConsoleInit => ActivityInv
  BY ActivityInitially DEF ConsoleInit
<1>2. ActivityInv /\ [ConsoleNext]_consoleVars => ActivityInv'
  BY StepsOfActivity, ActivityKeeps
<1>3. ActivityInv => DirectoryCoversItsFiles
  BY DirectoriesCover DEF DirectoryCoversItsFiles
<1> QED
  BY <1>1, <1>2, <1>3, PTL DEF ConsoleSpec
==============================================================================
