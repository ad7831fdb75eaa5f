------------------------------- MODULE Session -------------------------------
(***************************************************************************)
(* Signing in with GitHub and staying signed in: Express's OAuth handlers  *)
(* and session check, and the tabs of one browser, which share its cookies *)
(* and localStorage and have a sessionStorage each.  Requests and answers  *)
(* of the tabs interleave; a token dies at any time (it expires, or its    *)
(* user is deleted).                                                       *)
(*                                                                         *)
(* Left out: the refresh endpoint, which the pages never call; several     *)
(* GitHub accounts; the profile fields copied at every sign-in.            *)
(***************************************************************************)
CONSTANTS Tabs, Flows,   \* Flows bounds the sign-ins that are begun
          None

VARIABLES asked,     \* flow -> the preference it was begun with, or None
          cookies,   \* the jar: [state, stay, token]
          tokens,    \* issued: [flow, stay]; a flow yields at most one
          dead,      \* flows whose token Express no longer accepts
          local,     \* localStorage: the token (that of a flow), or None
          tab        \* tab -> [page, status, session, url, call]

vars == <<asked, cookies, tokens, dead, local, tab>>

\* page: "app", or on the way through GitHub with the callback outstanding.
\* call: the outstanding request and the token (the callback: the state
\* and the preference cookie) that it carries.
NoCall == [kind |-> "none", token |-> None, stay |-> TRUE]
Request(kind, n) == [kind |-> kind, token |-> n, stay |-> TRUE]
ClosedTab == [page |-> "closed", status |-> "loading", session |-> None, url |-> None,
              flow |-> None, call |-> NoCall]
\* The tab after the callback's redirect: nothing of the page survives it.
Redirected(t, url) ==
  [page |-> "closed", status |-> "loading", session |-> tab[t].session, url |-> url,
   flow |-> None, call |-> NoCall]

Init == /\ asked = [n \in Flows |-> None] /\ tokens = {} /\ dead = {} /\ local = None
        /\ cookies = [state |-> None, stay |-> TRUE, token |-> None]
        /\ tab = [t \in Tabs |-> ClosedTab]

Issued == {x.flow : x \in tokens}
Accepted(n) == n \in Issued \ dead

\* getAuthToken: the redirect's token, localStorage's, sessionStorage's.
Stored(t) == IF tab[t].url # None THEN tab[t].url
             ELSE IF local # None THEN local ELSE tab[t].session

\* protect: a token in the header is the one that counts, else the cookie.
Carried(t) == IF Stored(t) # None THEN Stored(t) ELSE cookies.token

\* What is rendered: the sign-in button, the confirmation, a page behind them.
DefaultState(t) == tab[t].page = "app" /\ tab[t].status = "unauthenticated"
AccountConfirmationState(t) ==
  tab[t].page = "app" /\ tab[t].status = "authenticated" /\ tab[t].call = NoCall
ProtectedRoute(t) == tab[t].page = "app" /\ tab[t].status = "authenticated"

Set(t, r) == tab' = [tab EXCEPT ![t] = r]

\* setAuthToken: in one storage, removed from the other.
Keep(t, n, stay) ==
  /\ local' = IF stay THEN n ELSE None
  /\ Set(t, [tab[t] EXCEPT !.session = IF stay THEN None ELSE n, !.url = None])
------------------------------------------------------------------------------
(* The OAuth handlers.                                                     *)

\* The button, then redirectToGithub: state and preference in two cookies.
Connect(t, n, stay) ==
  /\ DefaultState(t)
  /\ asked[n] = None
  /\ asked' = [asked EXCEPT ![n] = stay]
  /\ cookies' = [cookies EXCEPT !.state = n, !.stay = stay]
  /\ Set(t, [ClosedTab EXCEPT !.page = "github", !.flow = n, !.session = tab[t].session])
  /\ UNCHANGED <<tokens, dead, local>>

\* GitHub sends the tab back with a code and the state of its flow; the
\* cookies are those of this moment.
Approve(t) ==
  /\ tab[t].page = "github"
  /\ Set(t, [tab[t] EXCEPT !.page = "callback",
               !.call = [kind |-> "callback", token |-> cookies.state, stay |-> cookies.stay]])
  /\ UNCHANGED <<asked, cookies, tokens, dead, local>>

StateMatches_Present(t) == tab[t].call.token # None
StateMatches(t) == tab[t].call.token # None /\ tab[t].call.token = tab[t].flow

\* The callback is answered.  A session needs the state, and GitHub to take
\* the code and tell the profile; without a code (the user declined) the two
\* cookies stay, else they go.
CallbackSucceeds(t) ==
  /\ tab[t].page = "callback" /\ StateMatches(t)
  /\ tokens' = tokens \cup {[flow |-> tab[t].flow, stay |-> tab[t].call.stay]}
  /\ cookies' = [state |-> None, stay |-> TRUE, token |-> tab[t].flow]
  /\ Set(t, Redirected(t, tab[t].flow))
  /\ UNCHANGED <<asked, dead, local>>

CallbackFails(t) ==
  /\ tab[t].page = "callback"
  /\ cookies' \in {cookies, [cookies EXCEPT !.state = None, !.stay = TRUE]}
  /\ Set(t, Redirected(t, None))
  /\ UNCHANGED <<asked, tokens, dead, local>>
------------------------------------------------------------------------------
(* The pages.                                                              *)

\* AuthProvider mounts: /me is asked once, with the token there is; that of
\* the redirect is stored as its preference says.
Open(t) ==
  /\ tab[t].page \in {"closed", "app"} /\ tab[t].call.kind # "logout"
  /\ LET opened == [tab[t] EXCEPT !.page = "app", !.status = "loading",
                                  !.call = Request("me", Carried(t))]
         n == tab[t].url
         stay == n # None /\ \E x \in tokens : x.flow = n /\ x.stay
     IN IF n = None THEN Set(t, opened) /\ UNCHANGED local
        ELSE /\ local' = IF stay THEN n ELSE None
             /\ Set(t, [opened EXCEPT !.url = None, !.session = IF stay THEN None ELSE n])
  /\ UNCHANGED <<asked, cookies, tokens, dead>>

\* Any other request of a signed-in page.
Call(t) ==
  /\ ProtectedRoute(t) /\ tab[t].call = NoCall
  /\ Set(t, [tab[t] EXCEPT !.call = Request("api", Carried(t))])
  /\ UNCHANGED <<asked, cookies, tokens, dead, local>>

StatusAfter(t, status) ==
  IF tab[t].call.kind = "me" THEN status ELSE tab[t].status

Succeeds(t) ==
  /\ tab[t].call.kind \in {"me", "api"} /\ Accepted(tab[t].call.token)
  /\ Set(t, [tab[t] EXCEPT !.call = NoCall, !.status = StatusAfter(t, "authenticated")])
  /\ UNCHANGED <<asked, cookies, tokens, dead, local>>

\* 401 of the session check: the interceptor drops what is stored by now.
Rejected(t) ==
  /\ tab[t].call.kind \in {"me", "api"} /\ ~Accepted(tab[t].call.token)
  /\ local' = None
  /\ Set(t, [tab[t] EXCEPT !.call = NoCall, !.session = None,
                            !.status = StatusAfter(t, "unauthenticated")])
  /\ UNCHANGED <<asked, cookies, tokens, dead>>

\* Any other failure, GitHub's own 401 included, drops nothing.
Fails(t) ==
  /\ tab[t].call.kind \in {"me", "api"}
  /\ Set(t, [tab[t] EXCEPT !.call = NoCall, !.status = StatusAfter(t, "unauthenticated")])
  /\ UNCHANGED <<asked, cookies, tokens, dead, local>>

\* Continue on the confirmation: the token moves to the storage chosen there.
Confirm(t, stay) ==
  /\ AccountConfirmationState(t)
  /\ IF Stored(t) = None THEN UNCHANGED <<local, tab>> ELSE Keep(t, Stored(t), stay)
  /\ UNCHANGED <<asked, cookies, tokens, dead>>

Logout(t) ==
  /\ ProtectedRoute(t) /\ tab[t].call = NoCall
  /\ Set(t, [tab[t] EXCEPT !.call = Request("logout", None)])
  /\ UNCHANGED <<asked, cookies, tokens, dead, local>>

\* Answered or failed, the tab forgets; only an answer removes the cookie.
LogoutEnds(t) ==
  /\ tab[t].call.kind = "logout"
  /\ cookies' \in {cookies, [cookies EXCEPT !.token = None]}
  /\ local' = None
  /\ Set(t, [tab[t] EXCEPT !.call = NoCall, !.session = None, !.status = "unauthenticated"])
  /\ UNCHANGED <<asked, tokens, dead>>

Dies(n) == /\ Accepted(n)
           /\ dead' = dead \cup {n}
           /\ UNCHANGED <<asked, cookies, tokens, local, tab>>

Next == \/ \E t \in Tabs : \/ \E stay \in BOOLEAN : Confirm(t, stay) \/ \E n \in Flows : Connect(t, n, stay)
                           \/ Approve(t) \/ CallbackSucceeds(t) \/ CallbackFails(t)
                           \/ Open(t) \/ Call(t) \/ Succeeds(t) \/ Rejected(t) \/ Fails(t)
                           \/ Logout(t) \/ LogoutEnds(t)
        \/ \E n \in Issued : Dies(n)

Spec == Init /\ [][Next]_vars
------------------------------------------------------------------------------
Refs == Flows \cup {None}
Requests == [kind : {"none", "callback", "me", "api", "logout"}, token : Refs, stay : BOOLEAN]
TabStates == [page : {"closed", "app", "github", "callback"},
              status : {"loading", "authenticated", "unauthenticated"},
              session : Refs, url : Refs, flow : Refs, call : Requests]

\* Every variable stays in its range: a stored, carried or awaited token is
\* that of some flow, or none, through every redirect and late answer.
TypeOK == /\ asked \in [Flows -> BOOLEAN \cup {None}]
          /\ cookies \in [state : Refs, stay : BOOLEAN, token : Refs]
          /\ tokens \subseteq [flow : Flows, stay : BOOLEAN]
          /\ dead \subseteq Flows
          /\ local \in Refs
          /\ tab \in [Tabs -> TabStates]

\* A session lasts as long as the sign-in that was completed asked for, though
\* another tab's sign-in overwrites both cookies in the meantime.
StayIsOfItsFlow == \A x \in tokens : x.stay = asked[x.flow]

==============================================================================
