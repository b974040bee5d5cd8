----------------------------- MODULE AuthSession -----------------------------
(***************************************************************************)
(* Signing in, staying signed in and signing out of one browser: the SPA   *)
(* in every tab (useOIDCLogin), the proxy's /api/login and /api/logout     *)
(* handlers, the cookies all tabs share, and the identity provider.        *)
(*                                                                         *)
(* The proxy keeps no session: it works on the cookies a request carried   *)
(* when it was sent, and changes cookies only through its response.  A     *)
(* request is therefore sent, answered by the proxy, and delivered to the  *)
(* browser in three steps, and other tabs act in between.                  *)
(***************************************************************************)
EXTENDS Naturals

CONSTANTS
  Tabs,        \* browser tabs
  MaxSessions, \* sessions the user may start at the identity provider (a bound)
  MaxStates,   \* login attempts, each with its own OAuth state (a bound)
  MaxGen,      \* refresh tokens issued for a session (a bound)
  Rotates,     \* does a refresh invalidate the refresh token it used
  Impatient    \* the tabs that may be reloaded while they still load

ASSUME AuthAssumption ==
  /\ MaxSessions \in Nat /\ MaxStates \in Nat /\ MaxGen \in Nat
  /\ Rotates \in BOOLEAN
  /\ Impatient \subseteq Tabs

VARIABLES
  \* a tab: useOIDCLogin and its sessionStorage
  page,      \* how far the page load is
  http,      \* the request of a tab's page and the one of its refresh timer
  ahead,     \* is the expiry in sessionStorage known and more than 15 s ahead
  armed,     \* is the refresh timer set
  shown,     \* the session whose user the page shows
  state,     \* the OAuth state of the tab's latest login attempt
  \* the browser's cookies
  access,    \* the session of osac-access, and of osac-id that lives as long
  refresh,   \* the token in osac-refresh
  flowJar,   \* the auth-flow cookies: the verifier under each key
  \* the proxy and the identity provider
  states,    \* OAuth states handed out
  idp,       \* the sessions at the identity provider
  sso,       \* the session of the identity provider's own cookie
  gen,       \* the generation of a session's refresh token
  \* history
  signedOut, \* sessions whose logout was answered with success
  raced      \* sessions some answer still in flight brings back into the jar

tabVars    == <<page, ahead, armed, shown, state>>
cookieVars == <<access, refresh>>
idpVars    == <<states, idp, sso, gen>>
histVars   == <<signedOut, raced>>
vars == <<tabVars, http, cookieVars, flowJar, idpVars, histVars>>

\* 0 stands for no session, and for no OAuth state
Sessions   == 1..MaxSessions
SessionIds == 0..MaxSessions
StateIds   == 0..MaxStates
Gens       == 0..MaxGen
Tokens     == SessionIds \X Gens
NoToken    == <<0, 0>>
Channels == Tabs \X {"page", "timer"}
PageOf(t)  == <<t, "page">>
TimerOf(t) == <<t, "timer">>

IdpStates == {"unused", "live", "ended"}
Loading == {"exchange", "info", "start"}
Pages == Loading \cup {"closed", "idp", "app", "stuck"}

\* s and r are the session and the refresh token a request carries, then those
\* of its answer; flow is the verifier it carries, then the state it brings.
Requests ==
  [kind : {"none", "login", "info", "start", "refresh", "logout"},
   at : {"none", "sent", "answered"},
   s : SessionIds, r : Tokens, flow : StateIds,
   ok : BOOLEAN, effect : {"keep", "set", "clear"}]

TypeOK ==
  /\ page \in [Tabs -> Pages]
  /\ http \in [Channels -> Requests]
  /\ ahead \in [Tabs -> BOOLEAN]
  /\ armed \in [Tabs -> BOOLEAN]
  /\ shown \in [Tabs -> SessionIds]
  /\ state \in [Tabs -> StateIds]
  /\ access \in SessionIds
  /\ refresh \in Tokens
  /\ flowJar \in [StateIds -> StateIds]
  /\ states \in StateIds
  /\ idp \in [SessionIds -> IdpStates]
  /\ sso \in SessionIds
  /\ gen \in [SessionIds -> Gens]
  /\ signedOut \in SUBSET Sessions
  /\ raced \in SUBSET SessionIds

Request(k, s, r, f) ==
  [kind |-> k, at |-> "sent", s |-> s, r |-> r, flow |-> f,
   ok |-> FALSE, effect |-> "keep"]

NoRequest == [Request("none", 0, NoToken, 0) EXCEPT !.at = "none"]

Init ==
  /\ page = [t \in Tabs |-> "closed"]
  /\ http = [c \in Channels |-> NoRequest]
  /\ ahead = [t \in Tabs |-> FALSE]
  /\ armed = [t \in Tabs |-> FALSE]
  /\ shown = [t \in Tabs |-> 0]
  /\ state = [t \in Tabs |-> 0]
  /\ access = 0
  /\ refresh = NoToken
  /\ flowJar = [k \in StateIds |-> 0]
  /\ states = 0
  /\ idp = [s \in SessionIds |-> "unused"]
  /\ sso = 0
  /\ gen = [s \in SessionIds |-> 0]
  /\ signedOut = {}
  /\ raced = {}

-----------------------------------------------------------------------------
(* Helpers.  Definitions named Fault... are no part of the specification:  *)
(* each is the definition after it with one plausible mistake, which a     *)
(* property must notice.                                                   *)

Set(f, x, y) == [f EXCEPT ![x] = y]

\* the auth-flow cookie is not keyed by the state
FaultOneKey(f) == 1

\* the auth-flow cookie of a login attempt is keyed by its OAuth state
FlowKey(f) == f

\* the proxy's answer to request q, which changes the session cookies as e says
Answered(q, ok, e) == [q EXCEPT !.at = "answered", !.ok = ok, !.effect = e]

\* what an answer brings: the session and its refresh token, an OAuth state
Bringing(q, s, r, f) == [q EXCEPT !.s = s, !.r = r, !.flow = f]

\* a request on channel c waits for the proxy, or its answer for the browser
Waits(c, k)    == http[c].kind = k /\ http[c].at = "sent"
Delivers(c, k) == http[c].kind = k /\ http[c].at = "answered"

\* a login leaves the refresh cookie that is already there
FaultKeepRefresh(q) ==
  /\ access' = CASE q.effect = "set" -> q.s [] q.effect = "clear" -> 0 [] OTHER -> access
  /\ refresh' = IF q.effect = "clear" \/ refresh = NoToken THEN q.r ELSE refresh

\* SetSessionCookies and ClearSessionCookies, as the browser applies them
ApplyCookies(q) ==
  /\ access' = CASE q.effect = "set" -> q.s [] q.effect = "clear" -> 0 [] OTHER -> access
  /\ refresh' = CASE q.effect = "set" -> q.r [] q.effect = "clear" -> NoToken
                  [] OTHER -> refresh

\* sessions that answers on their way, other than the one on c, will set
Pending(c) == {http[d].s : d \in {d \in Channels \ {c} :
                                    http[d].at = "answered" /\ http[d].effect = "set"}}

-----------------------------------------------------------------------------
(* Loading the page.                                                       *)

\* The app is opened or reloaded at some page of its own: whatever the tab was
\* waiting for is lost, and the expiry stays in sessionStorage while time goes on.
Load(t) ==
  /\ page[t] \in Loading => t \in Impatient
  /\ page' = Set(page, t, "info")
  /\ http' = Set(Set(http, PageOf(t), Request("info", access, NoToken, 0)),
                TimerOf(t), NoRequest)
  /\ ahead' = ahead \/ ahead' = Set(ahead, t, FALSE)
  /\ armed' = Set(armed, t, FALSE)
  /\ shown' = Set(shown, t, 0)
  /\ state' = Set(state, t, 0)
  /\ UNCHANGED <<cookieVars, flowJar, idpVars, histVars>>

\* The identity provider sends the tab to /callback: at once when its own
\* session is alive, else after the user signed in to a new session.
IdpReturns(t) ==
  /\ page[t] = "idp"
  /\ \E s \in Sessions :
       /\ \/ s = sso /\ idp[s] = "live" /\ UNCHANGED <<idp, sso>>
          \/ /\ sso = 0 \/ (sso \in Sessions /\ idp[sso] = "ended")
             /\ \A u \in Sessions : idp[u] = "unused" <=> u >= s
             /\ idp' = Set(idp, s, "live")
             /\ sso' = s
       /\ http' = Set(http, PageOf(t),
                      Request("login", s, NoToken, flowJar[FlowKey(state[t])]))
  /\ page' = Set(page, t, "exchange")
  /\ UNCHANGED <<ahead, armed, shown, state, cookieVars, flowJar, states, gen, histVars>>

\* It sends the tab back with an error.
IdpDenies(t) ==
  /\ page[t] = "idp"
  /\ page' = Set(page, t, "stuck")
  /\ state' = Set(state, t, 0)
  /\ UNCHANGED <<ahead, armed, shown, http, cookieVars, flowJar, idpVars, histVars>>

\* POST /api/login answered; the page asks who is signed in, whatever it said.
LoginAnswered(t) ==
  LET q == http[PageOf(t)] IN
  /\ Delivers(PageOf(t), "login")
  /\ ApplyCookies(q)
  /\ flowJar' = Set(flowJar, FlowKey(state[t]), 0)
  /\ ahead' = Set(ahead, t, ahead[t] \/ q.ok)
  /\ raced' = IF q.ok THEN raced \cup (Pending(PageOf(t)) \ {q.s}) ELSE raced
  /\ page' = Set(page, t, "info")
  /\ http' = Set(http, PageOf(t), Request("info", access', NoToken, 0))
  /\ state' = Set(state, t, 0)
  /\ UNCHANGED <<armed, shown, idpVars, signedOut>>

\* scheduleRefresh: no timer when the expiry is missing or less than 15 s away
ScheduleRefresh(t) == armed' = Set(armed, t, ahead'[t])

\* GET /api/login/info answered
InfoAnswered(t) ==
  LET q == http[PageOf(t)] IN
  /\ Delivers(PageOf(t), "info")
  /\ UNCHANGED ahead
  /\ IF q.ok
     THEN /\ page' = Set(page, t, "app")
          /\ shown' = Set(shown, t, q.s)
          /\ ScheduleRefresh(t)
          /\ http' = Set(http, PageOf(t), NoRequest)
     ELSE /\ page' = Set(page, t, "start")
          /\ http' = Set(http, PageOf(t), Request("start", 0, NoToken, 0))
          /\ UNCHANGED <<shown, armed>>
  /\ UNCHANGED <<state, cookieVars, flowJar, idpVars, histVars>>

\* a failed start of the login is not handled
FaultStartAnswered(t) ==
  LET q == http[PageOf(t)] IN
  /\ Delivers(PageOf(t), "start") /\ q.ok
  /\ page' = Set(page, t, "idp")
  /\ state' = Set(state, t, q.flow)
  /\ flowJar' = Set(flowJar, FlowKey(q.flow), q.flow)
  /\ armed' = Set(armed, t, FALSE)
  /\ http' = Set(Set(http, PageOf(t), NoRequest), TimerOf(t), NoRequest)
  /\ UNCHANGED <<ahead, shown, cookieVars, idpVars, histVars>>

\* GET /api/login answered: leave for the identity provider, or stay with an
\* error that the page, still loading, does not show
StartAnswered(t) ==
  LET q == http[PageOf(t)] IN
  /\ Delivers(PageOf(t), "start")
  /\ IF q.ok
     THEN /\ page' = Set(page, t, "idp")
          /\ state' = Set(state, t, q.flow)
          /\ flowJar' = Set(flowJar, FlowKey(q.flow), q.flow)
          /\ armed' = Set(armed, t, FALSE)
          /\ http' = Set(Set(http, PageOf(t), NoRequest), TimerOf(t), NoRequest)
     ELSE /\ page' = Set(page, t, "stuck")
          /\ http' = Set(http, PageOf(t), NoRequest)
          /\ UNCHANGED <<state, flowJar, armed>>
  /\ UNCHANGED <<ahead, shown, cookieVars, idpVars, histVars>>

-----------------------------------------------------------------------------
(* Staying signed in, and signing out.                                     *)

\* The refresh timer fires.
Timer(t) ==
  /\ armed[t]
  /\ http[TimerOf(t)] = NoRequest
  /\ armed' = Set(armed, t, FALSE)
  /\ ahead' = Set(ahead, t, FALSE)
  /\ http' = Set(http, TimerOf(t), Request("refresh", 0, refresh, 0))
  /\ UNCHANGED <<page, shown, state, cookieVars, flowJar, idpVars, histVars>>

\* GET /api/login/refresh answered
RefreshAnswered(t) ==
  LET q == http[TimerOf(t)] IN
  /\ Delivers(TimerOf(t), "refresh")
  /\ ApplyCookies(q)
  /\ http' = Set(http, TimerOf(t), NoRequest)
  /\ IF q.ok
     THEN /\ ahead' = Set(ahead, t, TRUE)
          /\ ScheduleRefresh(t)
     ELSE UNCHANGED <<ahead, armed>>
  /\ UNCHANGED <<page, shown, state, flowJar, idpVars, histVars>>

\* The user signs out.
Logout(t) ==
  /\ page[t] = "app"
  /\ http[PageOf(t)] = NoRequest
  /\ http' = Set(http, PageOf(t), Request("logout", access, NoToken, 0))
  /\ UNCHANGED <<tabVars, cookieVars, flowJar, idpVars, histVars>>

\* a logout that failed is sent again, at once
FaultLogoutAnswered(t) ==
  LET q == http[PageOf(t)] IN
  /\ Delivers(PageOf(t), "logout")
  /\ ApplyCookies(q)
  /\ IF q.ok
     THEN /\ page' = Set(page, t, "info")
          /\ shown' = Set(shown, t, 0)
          /\ http' = Set(http, PageOf(t), Request("info", access', NoToken, 0))
          /\ signedOut' = signedOut \cup ({q.s} \ {0})
          /\ raced' = raced \cup Pending(PageOf(t))
     ELSE /\ http' = Set(http, PageOf(t), Request("logout", access', NoToken, 0))
          /\ UNCHANGED <<page, shown, signedOut, raced>>
  /\ UNCHANGED <<ahead, armed, state, flowJar, idpVars>>

\* POST /api/logout answered: on success the page loads from the start
LogoutAnswered(t) ==
  LET q == http[PageOf(t)] IN
  /\ Delivers(PageOf(t), "logout")
  /\ ApplyCookies(q)
  /\ IF q.ok
     THEN /\ page' = Set(page, t, "info")
          /\ shown' = Set(shown, t, 0)
          /\ http' = Set(http, PageOf(t), Request("info", access', NoToken, 0))
          /\ signedOut' = signedOut \cup ({q.s} \ {0})
          /\ raced' = raced \cup Pending(PageOf(t))
     ELSE /\ http' = Set(http, PageOf(t), NoRequest)
          /\ UNCHANGED <<page, shown, signedOut, raced>>
  /\ UNCHANGED <<ahead, armed, state, flowJar, idpVars>>

-----------------------------------------------------------------------------
(* The proxy, together with the identity provider it calls.                *)

\* the answer brings the state after the one that was handed out
FaultHandleStart(c) ==
  /\ Waits(c, "start")
  /\ states < MaxStates
  /\ states' = states + 1
  /\ http' = Set(http, c, Bringing(Answered(http[c], TRUE, "keep"), 0, NoToken, states' + 1))
  /\ UNCHANGED <<tabVars, cookieVars, flowJar, idp, sso, gen, histVars>>

\* GetLogin: a fresh state and its verifier
HandleStart(c) ==
  /\ Waits(c, "start")
  /\ states < MaxStates
  /\ states' = states + 1
  /\ http' = Set(http, c, Bringing(Answered(http[c], TRUE, "keep"), 0, NoToken, states + 1))
  /\ UNCHANGED <<tabVars, cookieVars, flowJar, idp, sso, gen, histVars>>

\* PostLogin: the code, of the session s, is worth tokens to whoever has the
\* verifier of the state it was asked with
HandleLogin(c) ==
  LET q == http[c] IN
  /\ Waits(c, "login")
  /\ q.flow # 0 /\ q.flow = state[c[1]]
  /\ idp[q.s] = "live"
  /\ http' = Set(http, c, Bringing(Answered(q, TRUE, "set"), q.s, <<q.s, gen[q.s]>>, 0))
  /\ UNCHANGED <<tabVars, cookieVars, flowJar, idpVars, histVars>>

\* GetLoginInfo: whoever the access cookie names
HandleInfo(c) ==
  /\ Waits(c, "info")
  /\ http' = Set(http, c, Answered(http[c], http[c].s # 0, "keep"))
  /\ UNCHANGED <<tabVars, cookieVars, flowJar, idpVars, histVars>>

\* a refusal leaves the cookies as they were when the refresh was asked for
FaultHandleRefresh(c) ==
  LET q == http[c]
      s == q.r[1]
      g == IF Rotates THEN gen[s] + 1 ELSE gen[s]
  IN
  /\ Waits(c, "refresh")
  /\ q.r # NoToken
  /\ \/ /\ idp[s] = "live"
        /\ Rotates => q.r[2] = gen[s]
        /\ g <= MaxGen
        /\ gen' = Set(gen, s, g)
        /\ http' = Set(http, c, Bringing(Answered(q, TRUE, "set"), s, <<s, g>>, 0))
     \/ /\ UNCHANGED gen
        /\ http' = Set(http, c, Bringing(Answered(q, FALSE, "set"), s, q.r, 0))
  /\ UNCHANGED <<tabVars, cookieVars, flowJar, states, idp, sso, histVars>>

\* GetLoginRefresh: new tokens, or the end of the session in this browser when
\* the identity provider refuses or cannot be reached
HandleRefresh(c) ==
  LET q == http[c]
      s == q.r[1]
      g == IF Rotates THEN gen[s] + 1 ELSE gen[s]
  IN
  /\ Waits(c, "refresh")
  /\ q.r # NoToken
  /\ \/ /\ idp[s] = "live"
        /\ Rotates => q.r[2] = gen[s]
        /\ g <= MaxGen
        /\ gen' = Set(gen, s, g)
        /\ http' = Set(http, c, Bringing(Answered(q, TRUE, "set"), s, <<s, g>>, 0))
     \/ /\ UNCHANGED gen
        /\ http' = Set(http, c, Bringing(Answered(q, FALSE, "clear"), 0, NoToken, 0))
  /\ UNCHANGED <<tabVars, cookieVars, flowJar, states, idp, sso, histVars>>

\* a failure to reach the identity provider does not stop the logout
FaultHandleLogout(c) ==
  LET q == http[c] IN
  /\ Waits(c, "logout")
  /\ http' = Set(http, c, Answered(q, TRUE, "clear"))
  /\ UNCHANGED <<tabVars, cookieVars, flowJar, idpVars, histVars>>

\* PostLogout: without an access cookie nothing is said to the identity provider
HandleLogout(c) ==
  LET q == http[c] IN
  /\ Waits(c, "logout")
  /\ idp' = IF q.s = 0 THEN idp ELSE Set(idp, q.s, "ended")
  /\ http' = Set(http, c, Answered(q, TRUE, "clear"))
  /\ UNCHANGED <<tabVars, cookieVars, flowJar, states, sso, gen, histVars>>

\* Any request can be refused, time out, or lose its answer: the page sees a
\* failure and the browser no cookie.
Fails(c) ==
  /\ http[c].at \in {"sent", "answered"}
  /\ http' = Set(http, c, Bringing(Answered(http[c], FALSE, "keep"), 0, NoToken, 0))
  /\ http' # http
  /\ UNCHANGED <<tabVars, cookieVars, flowJar, idpVars, histVars>>

-----------------------------------------------------------------------------
(* Time.                                                                   *)

AccessExpires ==
  /\ access # 0
  /\ access' = 0
  /\ UNCHANGED <<tabVars, http, refresh, flowJar, idpVars, histVars>>

RefreshExpires ==
  /\ access = 0 /\ refresh # NoToken
  /\ refresh' = NoToken
  /\ UNCHANGED <<tabVars, http, access, flowJar, idpVars, histVars>>

\* A session ends at the identity provider: idle for too long, or by an admin.
IdpSessionEnds(s) ==
  /\ idp[s] = "live"
  /\ idp' = Set(idp, s, "ended")
  /\ UNCHANGED <<tabVars, http, cookieVars, flowJar, states, sso, gen, histVars>>

-----------------------------------------------------------------------------
Handle(c) == HandleStart(c) \/ HandleLogin(c) \/ HandleInfo(c) \/ HandleRefresh(c) \/ HandleLogout(c)
Deliver(t) == LoginAnswered(t) \/ InfoAnswered(t) \/ StartAnswered(t) \/ LogoutAnswered(t)

Next ==
  \/ \E t \in Tabs : \/ Load(t) \/ IdpReturns(t) \/ IdpDenies(t) \/ Deliver(t)
                     \/ Timer(t) \/ RefreshAnswered(t) \/ Logout(t)
  \/ \E c \in Channels : Handle(c) \/ Fails(c)
  \/ AccessExpires \/ RefreshExpires
  \/ \E s \in Sessions : IdpSessionEnds(s)

\* Requests end, with an answer or a failure, and their answers are delivered.
\* What users do and when tokens expire is not forced.
Fairness ==
  \A t \in Tabs :
    /\ WF_vars(Deliver(t)) /\ WF_vars(RefreshAnswered(t))
    /\ \A k \in {"page", "timer"} : WF_vars(Handle(<<t, k>>) \/ Fails(<<t, k>>))

Spec == Init /\ [][Next]_vars
FairSpec == Spec /\ Fairness

-----------------------------------------------------------------------------
(* Safety.                                                                 *)

\* The cookies belong to one session, and the access cookie never outlives the
\* refresh cookie, whatever order the answers of all tabs arrive in (cookies.go
\* lines 51-70 and 106-111).
OneSession == access # 0 => refresh[1] = access

\* Tabs that sign in at the same time do not get in each other's way: a code
\* that comes back finds the verifier of its own attempt, or none when that
\* attempt's cookie is gone (cookies.go lines 128-166).
OwnVerifier ==
  \A t \in Tabs :
    page[t] = "idp" => flowJar[FlowKey(state[t])] = state[t]

\* A session that was signed out comes back into the browser's cookies only by
\* an answer that was already under way when the logout was answered: no tab
\* can sign in to it again or refresh it (handler.go lines 253-280).
SignedOutStaysOut ==
  \A s \in signedOut : s \in {access, refresh[1]} => s \in raced

\* A page acts as another user than it shows only because somebody signed in
\* after it was loaded, in another tab, or an overtaken answer arrived
\* (oidc-login.tsx lines 143-150, middleware/auth.go lines 14-23).
ShownUserActs ==
  \A t \in Tabs :
    page[t] = "app" /\ access \notin {0, shown[t]} => access > shown[t] \/ access \in raced

-----------------------------------------------------------------------------
(* The inductive strengthening of the last two.                            *)

\* The identity provider has at most one live session of this browser, its latest.
IdpInv ==
  /\ idp[0] = "unused"
  /\ \A s \in Sessions : /\ idp[s] = "unused" <=> s > sso
                         /\ idp[s] = "live" => s = sso

\* Answers that set cookies set those of one session that was started; a logout
\* that succeeded has ended its session, and clears the cookies.
AnswerInv(c) ==
  LET q == http[c] IN
  /\ q.effect = "set" =>
       /\ q.kind \in {"login", "refresh"} /\ q.at = "answered" /\ q.ok
       /\ q.s \in 1..sso /\ q.r[1] = q.s
  /\ q.kind = "logout" /\ q.ok =>
       q.effect = "clear" /\ (q.s # 0 => idp[q.s] = "ended")

\* some answer on its way will set the cookies of session s
Coming(s) == \E c \in Channels : http[c].effect = "set" /\ http[c].s = s

\* the session a request or its answer is about
About(q) == IF q.kind = "refresh" THEN q.r[1] ELSE q.s

\* the browser has had the cookies of session u, and some part still knows
Knows(u) ==
  \/ u = access \/ u = refresh[1]
  \/ \E t \in Tabs : shown[t] = u
  \/ \E c \in Channels : http[c].kind # "login" /\ About(http[c]) = u

\* Cookies that are there, and those that some answer will set, are of a session
\* no older than any that is known, or were overtaken.
KnownInv ==
  \A u \in SessionIds : Knows(u) =>
    /\ u <= sso
    /\ access # 0 => access >= u \/ access \in raced
    /\ \A s \in SessionIds : Coming(s) => s >= u \/ s \in raced

\* A session whose logout succeeded has ended, and no new answer sets its cookies.
SignInv == \A s \in signedOut : idp[s] = "ended" /\ (Coming(s) => s \in raced)

\* What the proofs show to be inductive; both invariants follow from it.
IInv ==
  /\ TypeOK /\ IdpInv /\ KnownInv /\ SignInv /\ SignedOutStaysOut
  /\ \A c \in Channels : AnswerInv(c)

-----------------------------------------------------------------------------
(* Liveness, under FairSpec.                                               *)

\* A page that loads comes to an end, whatever fails on the way: the app, the
\* identity provider, or an error (oidc-login.tsx lines 101-176).
LoadSettles ==
  \A t \in Tabs : page[t] \in Loading ~> page[t] \notin Loading

\* A logout that was sent ends, and never leaves the page half signed out.
LogoutSettles ==
  \A t \in Tabs : http[PageOf(t)].kind = "logout" ~> page[t] \in {"app", "idp", "stuck"} /\ http[PageOf(t)] = NoRequest

-----------------------------------------------------------------------------
(* What comments say and the code does not do; each checked alone.         *)

\* handler.go:252: PostLogout "logs out from Keycloak".
LogoutReachesKeycloak ==
  [][\A t \in Tabs :
       LogoutAnswered(t) /\ http[PageOf(t)].ok => idp[shown[t]] # "live"]_vars
=============================================================================
