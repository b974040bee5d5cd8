------------------------- MODULE AuthSession_proofs -------------------------
(***************************************************************************)
(* Proofs about AuthSession for any number of tabs, sessions and login     *)
(* attempts.                                                               *)
(***************************************************************************)
EXTENDS AuthSession, TLAPS

\* the tuples that UNCHANGED names
USE DEF vars, tabVars, cookieVars, idpVars, histVars

-----------------------------------------------------------------------------
(* Type correctness.                                                       *)

\* A function whose value at one point is replaced keeps its type.
LEMMA SetType ==
  ASSUME NEW D, NEW R, NEW f \in [D -> R], NEW x, NEW y \in R
  PROVE  Set(f, x, y) \in [D -> R]
BY DEF Set

\* The tokens and channels that the actions build are well typed.
LEMMA Built ==
  /\ NoToken \in Tokens
  /\ \A s \in SessionIds, g \in Gens : <<s, g>> \in Tokens
  /\ \A r \in Tokens : r[1] \in SessionIds /\ r[2] \in Gens
  /\ \A t \in Tabs : PageOf(t) \in Channels /\ TimerOf(t) \in Channels
  /\ \A c \in Channels : c[1] \in Tabs
BY AuthAssumption DEF Tokens, NoToken, Channels, PageOf, TimerOf, SessionIds, Gens

\* The constants that the actions assign are members of their types.
LEMMA Members ==
  /\ 0 \in SessionIds /\ 0 \in StateIds /\ 0 \in Gens
  /\ Sessions = SessionIds \ {0}
  /\ "exchange" \in Pages /\ "info" \in Pages /\ "start" \in Pages
  /\ "closed" \in Pages /\ "idp" \in Pages /\ "app" \in Pages /\ "stuck" \in Pages
  /\ "unused" \in IdpStates /\ "live" \in IdpStates /\ "ended" \in IdpStates
BY AuthAssumption
  DEF Sessions, SessionIds, StateIds, Gens, Pages, Loading, IdpStates

\* So is a request that is sent, answered, or missing.
LEMMA RequestType ==
  /\ \A q \in Requests :
       /\ q.s \in SessionIds /\ q.r \in Tokens /\ q.flow \in StateIds
       /\ q.ok \in BOOLEAN
  /\ \A k \in {"none", "login", "info", "start", "refresh", "logout"},
        s \in SessionIds, r \in Tokens, f \in StateIds :
       Request(k, s, r, f) \in Requests
  /\ NoRequest \in Requests
  /\ \A q \in Requests, ok \in BOOLEAN, e \in {"keep", "set", "clear"} :
       /\ Answered(q, ok, e) \in Requests
       /\ \A s \in SessionIds, r \in Tokens, f \in StateIds :
            Bringing(Answered(q, ok, e), s, r, f) \in Requests
<1>0. \A q \in Requests :
       /\ q.s \in SessionIds /\ q.r \in Tokens /\ q.flow \in StateIds
       /\ q.ok \in BOOLEAN
  BY DEF Requests
<1>1. \A k \in {"none", "login", "info", "start", "refresh", "logout"},
        s \in SessionIds, r \in Tokens, f \in StateIds :
       Request(k, s, r, f) \in Requests
  BY DEF Request, Requests
<1>2. Request("none", 0, NoToken, 0) \in Requests
  BY <1>1, Built, Members
<1>3. NoRequest \in Requests
  BY <1>2 DEF NoRequest, Requests
<1>4. \A q \in Requests, ok \in BOOLEAN, e \in {"keep", "set", "clear"} :
       Answered(q, ok, e) \in Requests
  BY DEF Answered, Requests
<1>5. \A q \in Requests, s \in SessionIds, r \in Tokens, f \in StateIds :
       Bringing(q, s, r, f) \in Requests
  BY DEF Bringing, Requests
<1> QED
  BY <1>0, <1>1, <1>3, <1>4, <1>5

\* The sessions of answers on their way are sessions or none.
LEMMA PendingType ==
  ASSUME http \in [Channels -> Requests], NEW c \in Channels
  PROVE  Pending(c) \subseteq SessionIds
BY RequestType DEF Pending

\* Cookies that an answer sets or clears keep their types.
LEMMA Applied ==
  ASSUME access \in SessionIds, refresh \in Tokens, NEW q \in Requests, ApplyCookies(q)
  PROVE  access' \in SessionIds /\ refresh' \in Tokens
<1>1. q.s \in SessionIds /\ q.r \in Tokens
  BY RequestType
<1> QED
  BY <1>1, Built, Members DEF ApplyCookies

\* The initial state has the declared types.
LEMMA InitTypeOK == Init => TypeOK
BY Built, RequestType, Members DEF Init, TypeOK

\* A step keeps the declared types.
LEMMA NextTypeOK == TypeOK /\ [Next]_vars => TypeOK'
<1> SUFFICES ASSUME TypeOK, [Next]_vars
             PROVE  TypeOK'
  OBVIOUS
<1> USE Members DEF TypeOK
<1>1. ASSUME NEW t \in Tabs, Load(t) PROVE TypeOK'
  <2>1. page' \in [Tabs -> Pages]
    BY <1>1, SetType DEF Load
  <2>2. http' \in [Channels -> Requests]
    BY <1>1, Built, RequestType, SetType DEF Load
  <2>3. ahead' \in [Tabs -> BOOLEAN]
    <3>1. Set(ahead, t, FALSE) \in [Tabs -> BOOLEAN]
      BY SetType
    <3> QED
      BY <1>1, <3>1 DEF Load
  <2>4. armed' \in [Tabs -> BOOLEAN]
    BY <1>1, SetType DEF Load
  <2>5. shown' \in [Tabs -> SessionIds]
    BY <1>1, SetType DEF Load
  <2>6. state' \in [Tabs -> StateIds]
    BY <1>1, SetType DEF Load
  <2>7. UNCHANGED <<cookieVars, flowJar, idpVars, histVars>>
    BY <1>1 DEF Load
  <2> QED
    BY <2>1, <2>2, <2>3, <2>4, <2>5, <2>6, <2>7
<1>2. ASSUME NEW t \in Tabs, IdpReturns(t) PROVE TypeOK'
  <2>1. PICK s \in Sessions :
           /\ \/ UNCHANGED <<idp, sso>>
              \/ idp' = Set(idp, s, "live") /\ sso' = s
           /\ http' = Set(http, PageOf(t),
                          Request("login", s, NoToken, flowJar[FlowKey(state[t])]))
    BY <1>2 DEF IdpReturns
  <2>2. flowJar[FlowKey(state[t])] \in StateIds
    BY DEF FlowKey
  <2>3. http' \in [Channels -> Requests]
    BY <2>1, <2>2, Built, RequestType, SetType
  <2>4. idp' \in [SessionIds -> IdpStates] /\ sso' \in SessionIds
    <3>1. Set(idp, s, "live") \in [SessionIds -> IdpStates]
      BY SetType
    <3> QED
      BY <2>1, <3>1
  <2>5. page' \in [Tabs -> Pages]
    BY <1>2, SetType DEF IdpReturns
  <2>6. UNCHANGED <<ahead, armed, shown, state, cookieVars, flowJar, states, gen, histVars>>
    BY <1>2 DEF IdpReturns
  <2> QED
    BY <2>3, <2>4, <2>5, <2>6
<1>3. ASSUME NEW t \in Tabs, IdpDenies(t) PROVE TypeOK'
  <2>1. page' \in [Tabs -> Pages]
    BY <1>3, SetType DEF IdpDenies
  <2>2. state' \in [Tabs -> StateIds]
    BY <1>3, SetType DEF IdpDenies
  <2>3. UNCHANGED <<http, ahead, armed, shown, cookieVars, flowJar, idpVars,
      histVars>>
    BY <1>3 DEF IdpDenies
  <2> QED
    BY <2>1, <2>2, <2>3
<1>4. ASSUME NEW t \in Tabs, LoginAnswered(t) PROVE TypeOK'
  <2> DEFINE q == http[PageOf(t)]
  <2>1. q \in Requests
    BY Built
  <2>2. q.s \in SessionIds /\ q.flow \in StateIds
    BY <2>1, RequestType
  <2>3. access' \in SessionIds /\ refresh' \in Tokens
    BY <1>4, <2>1, Applied DEF LoginAnswered
  <2>4. UNCHANGED <<armed, shown, idpVars, signedOut>>
    BY <1>4 DEF LoginAnswered
  <2>5. CASE q.ok
    <3>1. /\ page' = Set(page, t, "info") /\ state' = Set(state, t, 0)
          /\ flowJar' = Set(flowJar, FlowKey(state[t]), 0)
          /\ ahead' = Set(ahead, t, ahead[t] \/ q.ok)
          /\ raced' = raced \cup (Pending(PageOf(t)) \ {q.s})
          /\ http' = Set(http, PageOf(t), Request("info", access', NoToken, 0))
      BY <1>4, <2>5 DEF LoginAnswered
    <3> QED
      BY <3>1, <2>2, <2>3, <2>4, SetType, Built, RequestType, PendingType
  <2>6. CASE ~q.ok
    <3>1. /\ page' = Set(page, t, "info") /\ state' = Set(state, t, 0)
          /\ flowJar' = Set(flowJar, FlowKey(state[t]), 0)
          /\ ahead' = Set(ahead, t, ahead[t] \/ q.ok)
          /\ UNCHANGED raced
          /\ http' = Set(http, PageOf(t), Request("info", access', NoToken, 0))
      BY <1>4, <2>6 DEF LoginAnswered
    <3> QED
      BY <3>1, <2>2, <2>3, <2>4, SetType, Built, RequestType, PendingType
  <2> QED
    BY <2>5, <2>6
<1>5. ASSUME NEW t \in Tabs, InfoAnswered(t) PROVE TypeOK'
  <2> DEFINE q == http[PageOf(t)]
  <2>1. q \in Requests
    BY Built
  <2>2. q.s \in SessionIds /\ q.flow \in StateIds
    BY <2>1, RequestType
  <2>3. UNCHANGED <<ahead, state, cookieVars, flowJar, idpVars, histVars>>
    BY <1>5 DEF InfoAnswered
  <2>4. CASE q.ok
    <3>1. /\ page' = Set(page, t, "app") /\ shown' = Set(shown, t, q.s)
          /\ armed' = Set(armed, t, ahead[t])
          /\ http' = Set(http, PageOf(t), NoRequest)
      BY <1>5, <2>4 DEF InfoAnswered, ScheduleRefresh
    <3> QED
      BY <3>1, <2>2, <2>3, SetType, Built, RequestType
  <2>5. CASE ~q.ok
    <3>1. /\ page' = Set(page, t, "start") /\ UNCHANGED <<shown, armed>>
          /\ http' = Set(http, PageOf(t), Request("start", 0, NoToken, 0))
      BY <1>5, <2>5 DEF InfoAnswered, ScheduleRefresh
    <3> QED
      BY <3>1, <2>2, <2>3, SetType, Built, RequestType
  <2> QED
    BY <2>4, <2>5
<1>6. ASSUME NEW t \in Tabs, StartAnswered(t) PROVE TypeOK'
  <2> DEFINE q == http[PageOf(t)]
  <2>1. q \in Requests
    BY Built
  <2>2. q.s \in SessionIds /\ q.flow \in StateIds
    BY <2>1, RequestType
  <2>3. UNCHANGED <<ahead, shown, cookieVars, idpVars, histVars>>
    BY <1>6 DEF StartAnswered
  <2>4. CASE q.ok
    <3>1. /\ page' = Set(page, t, "idp") /\ state' = Set(state, t, q.flow)
          /\ flowJar' = Set(flowJar, FlowKey(q.flow), q.flow)
          /\ armed' = Set(armed, t, FALSE)
          /\ http' = Set(Set(http, PageOf(t), NoRequest), TimerOf(t), NoRequest)
      BY <1>6, <2>4 DEF StartAnswered
    <3> QED
      BY <3>1, <2>2, <2>3, SetType, Built, RequestType
  <2>5. CASE ~q.ok
    <3>1. /\ page' = Set(page, t, "stuck") /\ UNCHANGED <<state, flowJar, armed>>
          /\ http' = Set(http, PageOf(t), NoRequest)
      BY <1>6, <2>5 DEF StartAnswered
    <3> QED
      BY <3>1, <2>2, <2>3, SetType, Built, RequestType
  <2> QED
    BY <2>4, <2>5
<1>7. ASSUME NEW t \in Tabs, LogoutAnswered(t) PROVE TypeOK'
  <2> DEFINE q == http[PageOf(t)]
  <2>1. q \in Requests
    BY Built
  <2>2. q.s \in SessionIds /\ q.flow \in StateIds
    BY <2>1, RequestType
  <2>3. access' \in SessionIds /\ refresh' \in Tokens
    BY <1>7, <2>1, Applied DEF LogoutAnswered
  <2>4. UNCHANGED <<ahead, armed, state, flowJar, idpVars>>
    BY <1>7 DEF LogoutAnswered
  <2>5. CASE q.ok
    <3>1. /\ page' = Set(page, t, "info") /\ shown' = Set(shown, t, 0)
          /\ http' = Set(http, PageOf(t), Request("info", access', NoToken, 0))
          /\ signedOut' = signedOut \cup ({q.s} \ {0})
          /\ raced' = raced \cup Pending(PageOf(t))
      BY <1>7, <2>5 DEF LogoutAnswered
    <3> QED
      BY <3>1, <2>2, <2>3, <2>4, SetType, Built, RequestType, PendingType
  <2>6. CASE ~q.ok
    <3>1. /\ http' = Set(http, PageOf(t), NoRequest)
          /\ UNCHANGED <<page, shown, signedOut, raced>>
      BY <1>7, <2>6 DEF LogoutAnswered
    <3> QED
      BY <3>1, <2>2, <2>3, <2>4, SetType, Built, RequestType, PendingType
  <2> QED
    BY <2>5, <2>6
<1>8. ASSUME NEW t \in Tabs, Timer(t) PROVE TypeOK'
  <2>1. armed' \in [Tabs -> BOOLEAN]
    BY <1>8, SetType DEF Timer
  <2>2. ahead' \in [Tabs -> BOOLEAN]
    BY <1>8, SetType DEF Timer
  <2>3. http' \in [Channels -> Requests]
    BY <1>8, Built, RequestType, SetType DEF Timer
  <2>4. UNCHANGED <<page, shown, state, cookieVars, flowJar, idpVars,
      histVars>>
    BY <1>8 DEF Timer
  <2> QED
    BY <2>1, <2>2, <2>3, <2>4
<1>9. ASSUME NEW t \in Tabs, RefreshAnswered(t) PROVE TypeOK'
  <2> DEFINE q == http[TimerOf(t)]
  <2>1. q \in Requests
    BY Built
  <2>2. q.s \in SessionIds /\ q.flow \in StateIds
    BY <2>1, RequestType
  <2>3. access' \in SessionIds /\ refresh' \in Tokens
    BY <1>9, <2>1, Applied DEF RefreshAnswered
  <2>4. UNCHANGED <<page, shown, state, flowJar, idpVars, histVars>>
    BY <1>9 DEF RefreshAnswered
  <2>5. CASE q.ok
    <3>1. /\ ahead' = Set(ahead, t, TRUE)
          /\ armed' = Set(armed, t, ahead'[t]) /\ ahead' \in [Tabs -> BOOLEAN]
          /\ http' = Set(http, TimerOf(t), NoRequest)
      BY <1>9, <2>5 DEF RefreshAnswered, ScheduleRefresh, Set
    <3> QED
      BY <3>1, <2>2, <2>3, <2>4, SetType, Built, RequestType
  <2>6. CASE ~q.ok
    <3>1. /\ UNCHANGED <<ahead, armed>>
          /\ http' = Set(http, TimerOf(t), NoRequest)
      BY <1>9, <2>6 DEF RefreshAnswered, ScheduleRefresh, Set
    <3> QED
      BY <3>1, <2>2, <2>3, <2>4, SetType, Built, RequestType
  <2> QED
    BY <2>5, <2>6
<1>10. ASSUME NEW t \in Tabs, Logout(t) PROVE TypeOK'
  <2>1. http' \in [Channels -> Requests]
    BY <1>10, Built, RequestType, SetType DEF Logout
  <2>2. UNCHANGED <<tabVars, cookieVars, flowJar, idpVars, histVars>>
    BY <1>10 DEF Logout
  <2> QED
    BY <2>1, <2>2
<1>11. ASSUME NEW c \in Channels, HandleStart(c) PROVE TypeOK'
  <2>1. states + 1 \in StateIds
    BY <1>11, AuthAssumption DEF HandleStart, StateIds
  <2>2. http' \in [Channels -> Requests]
    BY <1>11, <2>1, Built, RequestType, SetType DEF HandleStart
  <2>3. states' \in StateIds
    BY <1>11, <2>1 DEF HandleStart
  <2>4. UNCHANGED <<tabVars, cookieVars, flowJar, idp, sso, gen, histVars>>
    BY <1>11 DEF HandleStart
  <2> QED
    BY <2>2, <2>3, <2>4
<1>12. ASSUME NEW c \in Channels, HandleLogin(c) PROVE TypeOK'
  <2>1. <<http[c].s, gen[http[c].s]>> \in Tokens /\ http[c].s \in SessionIds
    BY Built, RequestType
  <2>2. http' \in [Channels -> Requests]
    BY <1>12, <2>1, RequestType, SetType DEF HandleLogin
  <2>3. UNCHANGED <<tabVars, cookieVars, flowJar, idpVars, histVars>>
    BY <1>12 DEF HandleLogin
  <2> QED
    BY <2>2, <2>3
<1>13. ASSUME NEW c \in Channels, HandleInfo(c) PROVE TypeOK'
  <2>1. http' \in [Channels -> Requests]
    BY <1>13, Built, RequestType, SetType DEF HandleInfo, Waits
  <2>2. UNCHANGED <<tabVars, cookieVars, flowJar, idpVars, histVars>>
    BY <1>13 DEF HandleInfo
  <2> QED
    BY <2>1, <2>2
<1>14. ASSUME NEW c \in Channels, HandleRefresh(c) PROVE TypeOK'
  <2> DEFINE q == http[c]
             s == q.r[1]
             g == IF Rotates THEN gen[s] + 1 ELSE gen[s]
  <2>1. s \in SessionIds
    BY Built, RequestType
  <2>2. UNCHANGED <<tabVars, cookieVars, flowJar, states, idp, sso, histVars>>
    BY <1>14 DEF HandleRefresh
  <2>3. CASE /\ g <= MaxGen /\ gen' = Set(gen, s, g)
             /\ http' = Set(http, c, Bringing(Answered(q, TRUE, "set"), s, <<s, g>>, 0))
    <3>1. g \in Gens
      BY <2>1, <2>3, AuthAssumption DEF Gens
    <3> HIDE DEF s, g
    <3> QED
      BY <2>1, <2>2, <2>3, <3>1, Built, RequestType, SetType
  <2>4. CASE /\ UNCHANGED gen
             /\ http' = Set(http, c, Bringing(Answered(q, FALSE, "clear"), 0, NoToken, 0))
    BY <2>2, <2>4, Built, RequestType, SetType
  <2> QED
    BY <1>14, <2>3, <2>4 DEF HandleRefresh
<1>15. ASSUME NEW c \in Channels, HandleLogout(c) PROVE TypeOK'
  <2>1. idp' \in [SessionIds -> IdpStates]
    BY <1>15, SetType DEF HandleLogout, Waits
  <2>2. http' \in [Channels -> Requests]
    BY <1>15, Built, RequestType, SetType DEF HandleLogout, Waits
  <2>3. UNCHANGED <<tabVars, cookieVars, flowJar, states, sso, gen, histVars>>
    BY <1>15 DEF HandleLogout
  <2> QED
    BY <2>1, <2>2, <2>3
<1>16. ASSUME NEW c \in Channels, Fails(c) PROVE TypeOK'
  <2>1. http' \in [Channels -> Requests]
    BY <1>16, Built, RequestType, SetType DEF Fails
  <2>2. UNCHANGED <<tabVars, cookieVars, flowJar, idpVars, histVars>>
    BY <1>16 DEF Fails
  <2> QED
    BY <2>1, <2>2
<1>17. ASSUME AccessExpires PROVE TypeOK'
  <2>1. access' \in SessionIds
    BY <1>17 DEF AccessExpires
  <2>2. UNCHANGED <<tabVars, http, refresh, flowJar, idpVars, histVars>>
    BY <1>17 DEF AccessExpires
  <2> QED
    BY <2>1, <2>2
<1>18. ASSUME RefreshExpires PROVE TypeOK'
  BY <1>18, Built DEF RefreshExpires
<1>19. ASSUME NEW s \in Sessions, IdpSessionEnds(s) PROVE TypeOK'
  <2>1. idp' \in [SessionIds -> IdpStates]
    BY <1>19, SetType DEF IdpSessionEnds
  <2>2. UNCHANGED <<tabVars, http, cookieVars, flowJar, states, sso, gen,
      histVars>>
    BY <1>19 DEF IdpSessionEnds
  <2> QED
    BY <2>1, <2>2
<1>20. CASE UNCHANGED vars
  BY <1>20
<1> QED
  BY <1>1, <1>2, <1>3, <1>4, <1>5, <1>6, <1>7, <1>8, <1>9, <1>10, <1>11,
      <1>12, <1>13, <1>14, <1>15, <1>16, <1>17, <1>18, <1>19, <1>20 DEF Next, Handle, Deliver

\* Every variable keeps its declared type.
THEOREM TypeCorrect == Spec => []TypeOK
BY InitTypeOK, NextTypeOK, PTL DEF Spec

-----------------------------------------------------------------------------
(* The cookies of one session.                                             *)

\* What an answer sets is one session's.
OneSessionInv ==
  /\ TypeOK /\ OneSession
  /\ \A c \in Channels : http[c].effect = "set" => http[c].r[1] = http[c].s

\* Writing one point of a function leaves the others.
LEMMA SetAt ==
  ASSUME NEW D, NEW R, NEW f \in [D -> R], NEW x \in D, NEW y
  PROVE  \A d \in D : Set(f, x, y)[d] = IF d = x THEN y ELSE f[d]
BY DEF Set

\* The fields of requests and answers.
LEMMA Fields ==
  /\ \A k, s, r, f : LET q == Request(k, s, r, f) IN
       q.kind = k /\ q.at = "sent" /\ q.s = s /\ q.r = r /\ q.flow = f /\ q.ok = FALSE /\ q.effect = "keep"
  /\ NoRequest.kind = "none" /\ NoRequest.effect = "keep" /\ NoRequest.ok = FALSE /\ NoRequest.flow = 0
  /\ \A q \in Requests : \A ok, e : LET a == Answered(q, ok, e) IN
       a.kind = q.kind /\ a.s = q.s /\ a.r = q.r /\ a.flow = q.flow /\ a.ok = ok /\ a.effect = e
  /\ \A q \in Requests : \A ok, e, s, r, f : LET a == Bringing(Answered(q, ok, e), s, r, f) IN
       a.kind = q.kind /\ a.s = s /\ a.r = r /\ a.flow = f /\ a.ok = ok /\ a.effect = e
<1>1. \A k, s, r, f : LET q == Request(k, s, r, f) IN
       q.kind = k /\ q.at = "sent" /\ q.s = s /\ q.r = r /\ q.flow = f /\ q.ok = FALSE /\ q.effect = "keep"
  BY DEF Request
<1>2. NoRequest.kind = "none" /\ NoRequest.effect = "keep" /\ NoRequest.ok = FALSE /\ NoRequest.flow = 0
  BY DEF Request, NoRequest
<1>3. \A q \in Requests : \A ok, e : LET a == Answered(q, ok, e) IN
       a.kind = q.kind /\ a.s = q.s /\ a.r = q.r /\ a.flow = q.flow /\ a.ok = ok /\ a.effect = e
  BY DEF Answered, Requests
<1>4. \A q \in Requests : \A ok, e, s, r, f : LET a == Bringing(Answered(q, ok, e), s, r, f) IN
       a.kind = q.kind /\ a.s = s /\ a.r = r /\ a.flow = f /\ a.ok = ok /\ a.effect = e
  BY DEF Bringing, Answered, Requests
<1> QED
  BY <1>1, <1>2, <1>3, <1>4

LEMMA OneSessionInit == Init => OneSessionInv
<1> SUFFICES ASSUME Init PROVE OneSessionInv
  OBVIOUS
<1>1. \A c \in Channels : http[c].effect = "keep"
  BY Fields DEF Init
<1> QED
  BY <1>1, InitTypeOK DEF Init, OneSessionInv, OneSession

\* Cookies that such an answer sets or clears belong to one session.
LEMMA AppliedOne ==
  ASSUME OneSessionInv, NEW c \in Channels, ApplyCookies(http[c])
  PROVE  OneSession'
<1>1. http[c] \in Requests
  BY DEF OneSessionInv, TypeOK
<1>2. http[c].effect \in {"keep", "set", "clear"}
  BY <1>1 DEF Requests
<1> QED
  BY <1>2 DEF OneSessionInv, OneSession, ApplyCookies, NoToken

\* A step keeps it so: every answer that sets cookies sets those of one session.
LEMMA OneSessionNext == OneSessionInv /\ [Next]_vars => OneSessionInv'
<1> SUFFICES ASSUME OneSessionInv, [Next]_vars
             PROVE  OneSessionInv'
  OBVIOUS
<1> DEFINE One(q) == q.effect = "set" => q.r[1] = q.s
<1>t. TypeOK /\ TypeOK'
  BY NextTypeOK DEF OneSessionInv
<1>h. http \in [Channels -> Requests] /\ \A c \in Channels : http[c] \in Requests /\ One(http[c])
  BY <1>t DEF OneSessionInv, TypeOK
<1>n. One(NoRequest) /\ \A k, s, r, f : One(Request(k, s, r, f))
  BY Fields
<1>b. /\ \A q \in Requests, ok \in BOOLEAN : \A e, x, r, f :
           e # "set" \/ r[1] = x => One(Bringing(Answered(q, ok, e), x, r, f))
      /\ \A q \in Requests, ok \in BOOLEAN : \A e : e # "set" => One(Answered(q, ok, e))
  BY DEF Bringing, Answered, Requests
<1> HIDE DEF One
\* one channel, or both of a tab, get a request that keeps the cookies
<1>s. ASSUME NEW c \in Channels, NEW q, One(q), http' = Set(http, c, q)
      PROVE  \A d \in Channels : One(http'[d])
  BY <1>h, <1>s, SetAt
<1>ss. ASSUME NEW c \in Channels, NEW b \in Channels, NEW q \in Requests, One(q),
              http' = Set(Set(http, c, q), b, NoRequest)
       PROVE  \A d \in Channels : One(http'[d])
  <2>1. Set(http, c, q) \in [Channels -> Requests]
    BY <1>h, SetType
  <2>2. \A d \in Channels : One(Set(http, c, q)[d])
    BY <1>h, <1>ss, SetAt
  <2> QED
    BY <1>n, <1>ss, <2>1, <2>2, SetAt
<1>q. ASSUME OneSession', \A d \in Channels : One(http'[d])
      PROVE  OneSessionInv'
  BY <1>t, <1>q DEF OneSessionInv, One
<1>u. UNCHANGED cookieVars => OneSession'
  BY DEF OneSessionInv, OneSession
<1>1. ASSUME NEW t \in Tabs, Load(t) PROVE OneSessionInv'
  <2>1. Request("info", access, NoToken, 0) \in Requests
    BY <1>t, Built, RequestType, Members DEF TypeOK
  <2>2. \A d \in Channels : One(http'[d])
    BY <1>1, <1>n, <1>ss, <2>1, Built DEF Load
  <2> QED
    BY <1>1, <1>q, <1>u, <2>2 DEF Load
<1>2. ASSUME NEW t \in Tabs, IdpReturns(t) PROVE OneSessionInv'
  <2>1. \A d \in Channels : One(http'[d])
    BY <1>2, <1>n, <1>s, Built DEF IdpReturns
  <2> QED
    BY <1>2, <1>q, <1>u, <2>1 DEF IdpReturns
<1>3. ASSUME NEW t \in Tabs, IdpDenies(t) PROVE OneSessionInv'
  BY <1>3, <1>h, <1>q, <1>u DEF IdpDenies
<1>4. ASSUME NEW t \in Tabs, LoginAnswered(t) PROVE OneSessionInv'
  <2>1. \A d \in Channels : One(http'[d])
    BY <1>4, <1>n, <1>s, Built DEF LoginAnswered
  <2> QED
    BY <1>4, <1>q, <2>1, AppliedOne, Built DEF LoginAnswered
<1>5. ASSUME NEW t \in Tabs, InfoAnswered(t) PROVE OneSessionInv'
  <2>1. \A d \in Channels : One(http'[d])
    BY <1>5, <1>n, <1>s, Built DEF InfoAnswered
  <2> QED
    BY <1>5, <1>q, <1>u, <2>1 DEF InfoAnswered
<1>6. ASSUME NEW t \in Tabs, StartAnswered(t) PROVE OneSessionInv'
  <2>1. \A d \in Channels : One(http'[d])
    BY <1>6, <1>n, <1>s, <1>ss, Built, RequestType DEF StartAnswered
  <2> QED
    BY <1>6, <1>q, <1>u, <2>1 DEF StartAnswered
<1>7. ASSUME NEW t \in Tabs, LogoutAnswered(t) PROVE OneSessionInv'
  <2>1. \A d \in Channels : One(http'[d])
    BY <1>7, <1>n, <1>s, Built DEF LogoutAnswered
  <2> QED
    BY <1>7, <1>q, <2>1, AppliedOne, Built DEF LogoutAnswered
<1>8. ASSUME NEW t \in Tabs, Timer(t) PROVE OneSessionInv'
  <2>1. \A d \in Channels : One(http'[d])
    BY <1>8, <1>n, <1>s, Built DEF Timer
  <2> QED
    BY <1>8, <1>q, <1>u, <2>1 DEF Timer
<1>9. ASSUME NEW t \in Tabs, RefreshAnswered(t) PROVE OneSessionInv'
  <2>1. \A d \in Channels : One(http'[d])
    BY <1>9, <1>n, <1>s, Built DEF RefreshAnswered
  <2> QED
    BY <1>9, <1>q, <2>1, AppliedOne, Built DEF RefreshAnswered
<1>10. ASSUME NEW t \in Tabs, Logout(t) PROVE OneSessionInv'
  <2>1. \A d \in Channels : One(http'[d])
    BY <1>10, <1>n, <1>s, Built DEF Logout
  <2> QED
    BY <1>10, <1>q, <1>u, <2>1 DEF Logout
<1>11. ASSUME NEW c \in Channels, HandleStart(c) PROVE OneSessionInv'
  <2>1. One(Bringing(Answered(http[c], TRUE, "keep"), 0, NoToken, states + 1))
    BY <1>h, <1>b
  <2>2. \A d \in Channels : One(http'[d])
    BY <1>11, <1>s, <2>1 DEF HandleStart
  <2> QED
    BY <1>11, <1>q, <1>u, <2>2 DEF HandleStart
<1>12. ASSUME NEW c \in Channels, HandleLogin(c) PROVE OneSessionInv'
  <2> DEFINE q == http[c]
  <2>1. One(Bringing(Answered(q, TRUE, "set"), q.s, <<q.s, gen[q.s]>>, 0))
    <3>1. <<q.s, gen[q.s]>>[1] = q.s
      OBVIOUS
    <3> HIDE DEF q
    <3> QED
      BY <1>h, <1>b, <3>1 DEF q
  <2>2. \A d \in Channels : One(http'[d])
    BY <1>12, <1>s, <2>1 DEF HandleLogin
  <2> QED
    BY <1>12, <1>q, <1>u, <2>2 DEF HandleLogin
<1>13. ASSUME NEW c \in Channels, HandleInfo(c) PROVE OneSessionInv'
  <2>1. One(Answered(http[c], http[c].s # 0, "keep"))
    BY <1>h, <1>b
  <2>2. \A d \in Channels : One(http'[d])
    BY <1>13, <1>s, <2>1 DEF HandleInfo
  <2> QED
    BY <1>13, <1>q, <1>u, <2>2 DEF HandleInfo
<1>14. ASSUME NEW c \in Channels, HandleRefresh(c) PROVE OneSessionInv'
  <2> DEFINE q == http[c]
             s == q.r[1]
  <2>1. \A g : One(Bringing(Answered(q, TRUE, "set"), s, <<s, g>>, 0))
    <3>1. q \in Requests /\ \A g : <<s, g>>[1] = s
      BY <1>h
    <3> HIDE DEF q, s
    <3> QED
      BY <1>b, <3>1
  <2>2. One(Bringing(Answered(q, FALSE, "clear"), 0, NoToken, 0))
    BY <1>h, <1>b
  <2>3. \/ \E g : http' = Set(http, c, Bringing(Answered(q, TRUE, "set"), s, <<s, g>>, 0))
        \/ http' = Set(http, c, Bringing(Answered(q, FALSE, "clear"), 0, NoToken, 0))
    BY <1>14 DEF HandleRefresh
  <2>4. \A d \in Channels : One(http'[d])
    BY <1>s, <2>1, <2>2, <2>3
  <2> QED
    BY <1>14, <1>q, <1>u, <2>4 DEF HandleRefresh
<1>15. ASSUME NEW c \in Channels, HandleLogout(c) PROVE OneSessionInv'
  <2>1. One(Answered(http[c], TRUE, "clear"))
    BY <1>h, <1>b
  <2>2. \A d \in Channels : One(http'[d])
    BY <1>15, <1>s, <2>1 DEF HandleLogout
  <2> QED
    BY <1>15, <1>q, <1>u, <2>2 DEF HandleLogout
<1>16. ASSUME NEW c \in Channels, Fails(c) PROVE OneSessionInv'
  <2>1. One(Bringing(Answered(http[c], FALSE, "keep"), 0, NoToken, 0))
    BY <1>h, <1>b
  <2>2. \A d \in Channels : One(http'[d])
    BY <1>16, <1>s, <2>1 DEF Fails
  <2> QED
    BY <1>16, <1>q, <1>u, <2>2 DEF Fails
<1>17. CASE AccessExpires
  <2>1. OneSession'
    BY <1>17 DEF AccessExpires, OneSession
  <2> QED
    BY <1>17, <1>h, <1>q, <2>1 DEF AccessExpires
<1>18. CASE RefreshExpires
  <2>1. OneSession'
    BY <1>18 DEF RefreshExpires, OneSession
  <2> QED
    BY <1>18, <1>h, <1>q, <2>1 DEF RefreshExpires
<1>19. ASSUME NEW s \in Sessions, IdpSessionEnds(s) PROVE OneSessionInv'
  BY <1>19, <1>h, <1>q, <1>u DEF IdpSessionEnds
<1>20. CASE UNCHANGED vars
  BY <1>20, <1>h, <1>q, <1>u
<1> QED
  BY <1>1, <1>2, <1>3, <1>4, <1>5, <1>6, <1>7, <1>8, <1>9, <1>10, <1>11,
      <1>12, <1>13, <1>14, <1>15, <1>16, <1>17, <1>18, <1>19, <1>20 DEF Next, Handle, Deliver

\* The access and the refresh cookie belong to one session, in whatever order
\* the answers of all tabs arrive (cookies.go lines 51-70 and 106-111).
THEOREM OneSessionThm == Spec => []OneSession
<1>1. OneSessionInv => OneSession
  BY DEF OneSessionInv
<1> QED
  BY <1>1, OneSessionInit, OneSessionNext, PTL DEF Spec

-----------------------------------------------------------------------------
(* The verifier of each login attempt.                                     *)

\* A tab's page asks for what its page load is at; only a login attempt has a
\* state, and while the tab is at the identity provider the verifier is there.
TabInv(t) ==
  LET q == http[PageOf(t)] IN
  /\ http[TimerOf(t)].kind \in {"none", "refresh"}
  /\ q.kind # "refresh"
  /\ q.kind = "info" => page[t] = "info"
  /\ q.kind = "start" => page[t] = "start" /\ q.flow <= states /\ (q.ok => q.flow # 0)
  /\ q.kind = "login" => page[t] = "exchange"
  /\ q.kind = "logout" => page[t] = "app"
  /\ state[t] # 0 => page[t] \in {"idp", "exchange"} /\ state[t] <= states
  /\ page[t] = "idp" => state[t] # 0 /\ flowJar[state[t]] = state[t]

\* No two tabs have the same state, or are about to.
PairInv(t, u) ==
  LET q == http[PageOf(t)]
      r == http[PageOf(u)] IN
  t # u =>
    /\ state[t] # 0 => state[u] # state[t]
    /\ q.kind = "start" /\ q.flow # 0 =>
         state[u] # q.flow /\ (r.kind = "start" => r.flow # q.flow)

VerifierInv ==
  /\ TypeOK
  /\ \A t \in Tabs : TabInv(t)
  /\ \A t, u \in Tabs : PairInv(t, u)

\* A tab's two channels are its own.
LEMMA TabChannels ==
  /\ \A t \in Tabs : PageOf(t) \in Channels /\ TimerOf(t) \in Channels
  /\ \A t, u \in Tabs : /\ PageOf(t) = PageOf(u) <=> t = u
                        /\ TimerOf(t) = TimerOf(u) <=> t = u
                        /\ PageOf(t) # TimerOf(u)
  /\ \A c \in Channels : \E t \in Tabs : c = PageOf(t) \/ c = TimerOf(t)
BY DEF Channels, PageOf, TimerOf

\* What a change of one channel, or of both of a tab, means for every tab.
LEMMA SetPage ==
  ASSUME TypeOK, NEW t \in Tabs, NEW q, http' = Set(http, PageOf(t), q)
  PROVE  \A v \in Tabs : /\ http'[PageOf(v)] = IF v = t THEN q ELSE http[PageOf(v)]
                         /\ http'[TimerOf(v)] = http[TimerOf(v)]
<1>1. http \in [Channels -> Requests] /\ PageOf(t) \in Channels
  BY TabChannels DEF TypeOK
<1>2. \A d \in Channels : http'[d] = IF d = PageOf(t) THEN q ELSE http[d]
  BY <1>1 DEF Set
<1> QED
  BY <1>2, TabChannels

LEMMA SetTimer ==
  ASSUME TypeOK, NEW t \in Tabs, NEW q, http' = Set(http, TimerOf(t), q)
  PROVE  \A v \in Tabs : /\ http'[TimerOf(v)] = IF v = t THEN q ELSE http[TimerOf(v)]
                         /\ http'[PageOf(v)] = http[PageOf(v)]
<1>1. http \in [Channels -> Requests] /\ TimerOf(t) \in Channels
  BY TabChannels DEF TypeOK
<1>2. \A d \in Channels : http'[d] = IF d = TimerOf(t) THEN q ELSE http[d]
  BY <1>1 DEF Set
<1> QED
  BY <1>2, TabChannels

LEMMA SetBoth ==
  ASSUME TypeOK, NEW t \in Tabs, NEW q \in Requests,
         http' = Set(Set(http, PageOf(t), q), TimerOf(t), NoRequest)
  PROVE  \A v \in Tabs : /\ http'[PageOf(v)] = IF v = t THEN q ELSE http[PageOf(v)]
                         /\ http'[TimerOf(v)] = IF v = t THEN NoRequest ELSE http[TimerOf(v)]
<1> DEFINE h == Set(http, PageOf(t), q)
<1>1. http \in [Channels -> Requests] /\ PageOf(t) \in Channels /\ TimerOf(t) \in Channels
  BY TabChannels DEF TypeOK
<1>2. \A d \in Channels : h[d] = IF d = PageOf(t) THEN q ELSE http[d]
  BY <1>1 DEF Set
<1>3. h \in [Channels -> Requests]
  BY <1>1, SetType
<1> HIDE DEF h
<1>4. \A d \in Channels : Set(h, TimerOf(t), NoRequest)[d] = IF d = TimerOf(t) THEN NoRequest ELSE h[d]
  BY <1>1, <1>3 DEF Set
<1>5. http' = Set(h, TimerOf(t), NoRequest)
  BY DEF h
<1> QED
  BY <1>2, <1>4, <1>5, TabChannels

LEMMA VerifierInit == Init => VerifierInv
<1> SUFFICES ASSUME Init PROVE VerifierInv
  OBVIOUS
<1>1. \A c \in Channels : http[c].kind = "none"
  BY Fields DEF Init
<1>2. \A t \in Tabs : TabInv(t)
  BY <1>1, TabChannels DEF Init, TabInv
<1>3. \A t, u \in Tabs : PairInv(t, u)
  BY <1>1, TabChannels DEF Init, PairInv
<1> QED
  BY <1>2, <1>3, InitTypeOK DEF VerifierInv

\* The steps of a tab, as two other tabs and the tab itself see them.
LEMMA VerifierTab ==
  ASSUME VerifierInv, NEW t \in Tabs,
         \/ Load(t) \/ IdpReturns(t) \/ IdpDenies(t) \/ Deliver(t)
         \/ Timer(t) \/ RefreshAnswered(t) \/ Logout(t),
         NEW u \in Tabs, NEW w \in Tabs
  PROVE  TabInv(u)' /\ PairInv(u, w)'
<1>y. TypeOK
  BY DEF VerifierInv
<1>f. /\ page \in [Tabs -> Pages] /\ state \in [Tabs -> StateIds]
      /\ flowJar \in [StateIds -> StateIds]
  BY <1>y DEF TypeOK
<1>n. /\ states \in Nat /\ 0 \in StateIds
      /\ \A v \in Tabs : state[v] \in Nat /\ state[v] \in StateIds
  BY <1>y, AuthAssumption DEF TypeOK, StateIds
<1>r. /\ http[PageOf(t)] \in Requests
      /\ http[PageOf(t)].flow \in Nat /\ http[PageOf(t)].flow \in StateIds
  <2>1. http[PageOf(t)] \in Requests
    BY <1>y, TabChannels DEF TypeOK
  <2> QED
    BY <2>1, AuthAssumption DEF Requests, StateIds
<1>t. \A v \in Tabs : TabInv(v)
  BY DEF VerifierInv
<1>p. \A v, x \in Tabs : PairInv(v, x)
  BY DEF VerifierInv
<1>1. CASE Load(t)
  <2> DEFINE q == Request("info", access, NoToken, 0)
  <2>1. q \in Requests /\ q.kind = "info"
    BY <1>y, Built, RequestType, Members, Fields DEF TypeOK
  <2> HIDE DEF q
  <2>2. http' = Set(Set(http, PageOf(t), q), TimerOf(t), NoRequest)
    BY <1>1 DEF Load, q
  <2>3. \A v \in Tabs : /\ http'[PageOf(v)] = IF v = t THEN q ELSE http[PageOf(v)]
                        /\ http'[TimerOf(v)] = IF v = t THEN NoRequest ELSE http[TimerOf(v)]
    BY <1>y, <2>1, <2>2, SetBoth
  <2>4. \A v \in Tabs : /\ page'[v] = IF v = t THEN "info" ELSE page[v]
                        /\ state'[v] = IF v = t THEN 0 ELSE state[v]
    BY <1>1, <1>f DEF Load, Set
  <2>5. states' = states /\ flowJar' = flowJar
    BY <1>1 DEF Load
  <2>6. TabInv(u)'
    BY <1>t, <2>1, <2>3, <2>4, <2>5, Fields DEF TabInv
  <2>7. PairInv(u, w)'
    BY <1>p, <2>1, <2>3, <2>4 DEF PairInv
  <2> QED
    BY <2>6, <2>7
<1>2. CASE IdpReturns(t)
  <2>1. page[t] = "idp" /\ UNCHANGED <<state, states, flowJar>>
    BY <1>2 DEF IdpReturns
  <2>2. PICK q : http' = Set(http, PageOf(t), q) /\ q.kind = "login"
    BY <1>2, Fields DEF IdpReturns
  <2>3. \A v \in Tabs : page'[v] = IF v = t THEN "exchange" ELSE page[v]
    BY <1>2, <1>f DEF IdpReturns, Set
  <2>4. \A v \in Tabs : /\ http'[PageOf(v)] = IF v = t THEN q ELSE http[PageOf(v)]
                        /\ http'[TimerOf(v)] = http[TimerOf(v)]
    BY <1>y, <2>2, SetPage
  <2>5. TabInv(u)'
    BY <1>t, <2>1, <2>2, <2>3, <2>4 DEF TabInv
  <2>6. PairInv(u, w)'
    BY <1>p, <2>1, <2>2, <2>4 DEF PairInv
  <2> QED
    BY <2>5, <2>6
<1>3. CASE IdpDenies(t)
  <2>1. page[t] = "idp" /\ UNCHANGED <<http, states, flowJar>>
    BY <1>3 DEF IdpDenies
  <2>2. \A v \in Tabs : /\ page'[v] = IF v = t THEN "stuck" ELSE page[v]
                        /\ state'[v] = IF v = t THEN 0 ELSE state[v]
    BY <1>3, <1>f DEF IdpDenies, Set
  <2>3. TabInv(u)'
    BY <1>t, <2>1, <2>2 DEF TabInv
  <2>4. PairInv(u, w)'
    BY <1>p, <1>t, <2>1, <2>2 DEF PairInv, TabInv
  <2> QED
    BY <2>3, <2>4
<1>4. CASE LoginAnswered(t)
  <2>1. http[PageOf(t)].kind = "login" /\ states' = states
    BY <1>4 DEF LoginAnswered, Delivers
  <2>2. PICK q : http' = Set(http, PageOf(t), q) /\ q.kind = "info"
    BY <1>4, Fields DEF LoginAnswered
  <2>3. \A v \in Tabs : /\ http'[PageOf(v)] = IF v = t THEN q ELSE http[PageOf(v)]
                        /\ http'[TimerOf(v)] = http[TimerOf(v)]
    BY <1>y, <2>2, SetPage
  <2>4. \A v \in Tabs : /\ page'[v] = IF v = t THEN "info" ELSE page[v]
                        /\ state'[v] = IF v = t THEN 0 ELSE state[v]
    BY <1>4, <1>f DEF LoginAnswered, Set
  <2>5. \A k \in StateIds : flowJar'[k] = IF k = state[t] THEN 0 ELSE flowJar[k]
    BY <1>4, <1>f, <1>n DEF LoginAnswered, FlowKey, Set
  <2>6. TabInv(u)'
    <3>1. CASE u = t
      BY <3>1, <1>t, <2>2, <2>3, <2>4 DEF TabInv
    <3>2. CASE u # t
      <4>1. page[u] = "idp" => flowJar'[state[u]] = flowJar[state[u]]
        BY <3>2, <1>t, <1>p, <1>n, <2>5 DEF TabInv, PairInv
      <4> QED
        BY <3>2, <4>1, <1>t, <2>1, <2>3, <2>4 DEF TabInv
    <3> QED
      BY <3>1, <3>2
  <2>7. PairInv(u, w)'
    BY <1>p, <2>2, <2>3, <2>4 DEF PairInv
  <2> QED
    BY <2>6, <2>7
<1>5. CASE InfoAnswered(t)
  <2>1. http[PageOf(t)].kind = "info" /\ UNCHANGED <<state, states, flowJar>>
    BY <1>5 DEF InfoAnswered, Delivers
  <2>2. \E q, p : /\ http' = Set(http, PageOf(t), q) /\ page' = Set(page, t, p)
                  /\ \/ q.kind = "none" /\ p = "app"
                     \/ q.kind = "start" /\ q.flow = 0 /\ ~ q.ok /\ p = "start"
    <3>1. CASE http[PageOf(t)].ok
      BY <3>1, <1>5, Fields DEF InfoAnswered
    <3>2. CASE ~ http[PageOf(t)].ok
      BY <3>2, <1>5, Fields DEF InfoAnswered
    <3> QED
      BY <3>1, <3>2
  <2>3. PICK q, p : /\ http' = Set(http, PageOf(t), q) /\ page' = Set(page, t, p)
                    /\ \/ q.kind = "none" /\ p = "app"
                       \/ q.kind = "start" /\ q.flow = 0 /\ ~ q.ok /\ p = "start"
    BY <2>2
  <2>4. \A v \in Tabs : /\ http'[PageOf(v)] = IF v = t THEN q ELSE http[PageOf(v)]
                        /\ http'[TimerOf(v)] = http[TimerOf(v)]
    BY <1>y, <2>3, SetPage
  <2>5. \A v \in Tabs : page'[v] = IF v = t THEN p ELSE page[v]
    BY <1>f, <2>3 DEF Set
  <2>6. TabInv(u)'
    BY <1>t, <1>n, <2>1, <2>3, <2>4, <2>5 DEF TabInv
  <2>7. PairInv(u, w)'
    BY <1>p, <1>t, <2>1, <2>3, <2>4 DEF PairInv, TabInv
  <2> QED
    BY <2>6, <2>7
<1>6. CASE StartAnswered(t)
  <2> DEFINE q == http[PageOf(t)]
  <2>1. q.kind = "start" /\ states' = states
    BY <1>6 DEF StartAnswered, Delivers
  <2>2. CASE q.ok
    <3>1. http' = Set(Set(http, PageOf(t), NoRequest), TimerOf(t), NoRequest)
      BY <1>6, <2>2 DEF StartAnswered
    <3>2. \A v \in Tabs :
            /\ http'[PageOf(v)] = IF v = t THEN NoRequest ELSE http[PageOf(v)]
            /\ http'[TimerOf(v)] = IF v = t THEN NoRequest ELSE http[TimerOf(v)]
      BY <1>y, <3>1, SetBoth, RequestType
    <3>3. \A v \in Tabs : /\ page'[v] = IF v = t THEN "idp" ELSE page[v]
                          /\ state'[v] = IF v = t THEN q.flow ELSE state[v]
      BY <1>6, <2>2, <1>f DEF StartAnswered, Set
    <3>4. \A k \in StateIds : flowJar'[k] = IF k = q.flow THEN q.flow ELSE flowJar[k]
      BY <1>6, <2>2, <1>f, <1>r DEF StartAnswered, FlowKey, Set
    <3>5. q.flow # 0 /\ q.flow <= states
      BY <1>t, <2>1, <2>2 DEF TabInv
    <3>6. TabInv(u)'
      <4>1. flowJar'[state'[u]] = IF u = t THEN q.flow ELSE flowJar[state[u]]
        BY <1>n, <1>r, <1>p, <2>1, <3>3, <3>4, <3>5 DEF PairInv
      <4> QED
        BY <4>1, <1>t, <2>1, <3>2, <3>3, <3>5, Fields DEF TabInv
    <3>7. PairInv(u, w)'
      BY <1>p, <2>1, <3>2, <3>3, <3>5, Fields DEF PairInv
    <3> QED
      BY <3>6, <3>7
  <2>3. CASE ~ q.ok
    <3>1. http' = Set(http, PageOf(t), NoRequest) /\ UNCHANGED <<state, flowJar>>
      BY <1>6, <2>3 DEF StartAnswered
    <3>2. \A v \in Tabs :
            /\ http'[PageOf(v)] = IF v = t THEN NoRequest ELSE http[PageOf(v)]
            /\ http'[TimerOf(v)] = http[TimerOf(v)]
      BY <1>y, <3>1, SetPage
    <3>3. \A v \in Tabs : page'[v] = IF v = t THEN "stuck" ELSE page[v]
      BY <1>6, <2>3, <1>f DEF StartAnswered, Set
    <3>4. TabInv(u)'
      BY <1>t, <2>1, <3>1, <3>2, <3>3, Fields DEF TabInv
    <3>5. PairInv(u, w)'
      BY <1>p, <3>1, <3>2, Fields DEF PairInv
    <3> QED
      BY <3>4, <3>5
  <2> QED
    BY <2>2, <2>3
<1>7. CASE LogoutAnswered(t)
  <2>1. http[PageOf(t)].kind = "logout" /\ UNCHANGED <<state, states, flowJar>>
    BY <1>7 DEF LogoutAnswered, Delivers
  <2> DEFINE Loads(q, p) ==
        /\ http' = Set(http, PageOf(t), q)
        /\ \A v \in Tabs : page'[v] = IF v = t THEN p ELSE page[v]
        /\ \/ q.kind = "info" /\ p = "info"
           \/ q.kind = "none" /\ p = page[t]
  <2>2. \E q, p : Loads(q, p)
    <3>1. CASE http[PageOf(t)].ok
      <4>1. /\ http' = Set(http, PageOf(t), Request("info", access', NoToken, 0))
            /\ page' = Set(page, t, "info")
        BY <3>1, <1>7 DEF LogoutAnswered
      <4>2. Request("info", access', NoToken, 0).kind = "info"
        BY Fields
      <4>3. \A v \in Tabs : page'[v] = IF v = t THEN "info" ELSE page[v]
        BY <4>1, <1>f DEF Set
      <4> QED
        BY <4>1, <4>2, <4>3
    <3>2. CASE ~ http[PageOf(t)].ok
      <4>1. http' = Set(http, PageOf(t), NoRequest) /\ page' = page
        BY <3>2, <1>7 DEF LogoutAnswered
      <4> QED
        BY <4>1, Fields
    <3> QED
      BY <3>1, <3>2
  <2>3. PICK q, p : Loads(q, p)
    BY <2>2
  <2>4. \A v \in Tabs : /\ http'[PageOf(v)] = IF v = t THEN q ELSE http[PageOf(v)]
                        /\ http'[TimerOf(v)] = http[TimerOf(v)]
    BY <1>y, <2>3, SetPage
  <2>5. TabInv(u)'
    BY <1>t, <2>1, <2>3, <2>4 DEF TabInv
  <2>6. PairInv(u, w)'
    BY <1>p, <2>1, <2>3, <2>4 DEF PairInv
  <2> QED
    BY <2>5, <2>6
<1>8. CASE Timer(t) \/ RefreshAnswered(t)
  <2>1. PICK q : /\ http' = Set(http, TimerOf(t), q) /\ q.kind \in {"none", "refresh"}
    <3>1. CASE Timer(t)
      BY <3>1, Fields DEF Timer
    <3>2. CASE RefreshAnswered(t)
      <4>1. http' = Set(http, TimerOf(t), NoRequest)
        BY <3>2 DEF RefreshAnswered
      <4> QED
        BY <4>1, Fields
    <3> QED
      BY <1>8, <3>1, <3>2
  <2>2. UNCHANGED <<page, state, states, flowJar>>
    BY <1>8 DEF Timer, RefreshAnswered
  <2>3. \A v \in Tabs : /\ http'[TimerOf(v)] = IF v = t THEN q ELSE http[TimerOf(v)]
                        /\ http'[PageOf(v)] = http[PageOf(v)]
    BY <1>y, <2>1, SetTimer
  <2>4. TabInv(u)'
    BY <1>t, <2>1, <2>2, <2>3 DEF TabInv
  <2>5. PairInv(u, w)'
    BY <1>p, <2>2, <2>3 DEF PairInv
  <2> QED
    BY <2>4, <2>5
<1>9. CASE Logout(t)
  <2>1. page[t] = "app" /\ UNCHANGED <<page, state, states, flowJar>>
    BY <1>9 DEF Logout
  <2>2. PICK q : http' = Set(http, PageOf(t), q) /\ q.kind = "logout"
    BY <1>9, Fields DEF Logout
  <2>3. \A v \in Tabs : /\ http'[PageOf(v)] = IF v = t THEN q ELSE http[PageOf(v)]
                        /\ http'[TimerOf(v)] = http[TimerOf(v)]
    BY <1>y, <2>2, SetPage
  <2>4. TabInv(u)'
    BY <1>t, <2>1, <2>2, <2>3 DEF TabInv
  <2>5. PairInv(u, w)'
    BY <1>p, <2>1, <2>2, <2>3 DEF PairInv
  <2> QED
    BY <2>4, <2>5
<1> QED
  BY <1>1, <1>2, <1>3, <1>4, <1>5, <1>6, <1>7, <1>8, <1>9 DEF Deliver

\* The proxy's steps answer a request of a tab and keep its kind; only the
\* start of a login brings a state, one that was never handed out.
LEMMA VerifierProxy ==
  ASSUME VerifierInv, NEW c \in Channels, Handle(c) \/ Fails(c),
         NEW u \in Tabs, NEW w \in Tabs
  PROVE  TabInv(u)' /\ PairInv(u, w)'
<1>y. TypeOK
  BY DEF VerifierInv
<1>n. /\ states \in Nat /\ \A v \in Tabs : state[v] \in Nat /\ http[PageOf(v)].flow \in Nat
  <2>1. \A v \in Tabs : http[PageOf(v)] \in Requests
    BY <1>y, TabChannels DEF TypeOK
  <2>0. states \in StateIds /\ state \in [Tabs -> StateIds]
    BY <1>y DEF TypeOK
  <2>2. states \in Nat /\ \A v \in Tabs : state[v] \in Nat
    BY <2>0, AuthAssumption DEF StateIds
  <2>3. \A v \in Tabs : http[PageOf(v)].flow \in Nat
    <3>1. \A q \in Requests : q.flow \in StateIds
      BY DEF Requests
    <3>2. StateIds \subseteq Nat
      BY AuthAssumption DEF StateIds
    <3> QED
      BY <2>1, <3>1, <3>2
  <2> QED
    BY <2>2, <2>3
<1>t. \A v \in Tabs : TabInv(v)
  BY DEF VerifierInv
<1>p. \A v, x \in Tabs : PairInv(v, x)
  BY DEF VerifierInv
<1>h. http[c] \in Requests
  BY <1>y DEF TypeOK
<1> DEFINE Answers(q) ==
      /\ http' = Set(http, c, q) /\ q.kind = http[c].kind
      /\ \/ q.kind = "start" /\ q.flow = states + 1 /\ states' = states + 1
         \/ q.kind # "start" /\ states' = states
         \/ q.flow = 0 /\ ~ q.ok /\ states' = states
<1>1. \E q : Answers(q)
  <2>1. CASE HandleStart(c)
    <3> DEFINE q == Bringing(Answered(http[c], TRUE, "keep"), 0, NoToken, states + 1)
    <3>1. http' = Set(http, c, q) /\ http[c].kind = "start" /\ states' = states + 1
      BY <2>1 DEF HandleStart, Waits
    <3>2. q.kind = http[c].kind /\ q.flow = states + 1
      BY <1>h DEF Bringing, Answered, Requests
    <3> HIDE DEF q
    <3> QED
      BY <3>1, <3>2
  <2>2. CASE HandleLogin(c)
    <3> DEFINE q == Bringing(Answered(http[c], TRUE, "set"), http[c].s, <<http[c].s, gen[http[c].s]>>, 0)
    <3>1. http' = Set(http, c, q) /\ http[c].kind = "login" /\ states' = states
      BY <2>2 DEF HandleLogin, Waits
    <3>2. q.kind = http[c].kind 
      BY <1>h DEF Bringing, Answered, Requests
    <3> HIDE DEF q
    <3> QED
      BY <3>1, <3>2
  <2>3. CASE HandleInfo(c)
    <3> DEFINE q == Answered(http[c], http[c].s # 0, "keep")
    <3>1. http' = Set(http, c, q) /\ http[c].kind = "info" /\ states' = states
      BY <2>3 DEF HandleInfo, Waits
    <3>2. q.kind = http[c].kind 
      BY <1>h DEF Bringing, Answered, Requests
    <3> HIDE DEF q
    <3> QED
      BY <3>1, <3>2
  <2>4. CASE HandleRefresh(c)
    <3>1. PICK ok, e, s, r : /\ http' = Set(http, c, Bringing(Answered(http[c], ok, e), s, r, 0))
                             /\ http[c].kind = "refresh" /\ states' = states
      BY <2>4 DEF HandleRefresh, Waits
    <3> DEFINE q == Bringing(Answered(http[c], ok, e), s, r, 0)
    <3>2. q.kind = http[c].kind
      BY <1>h DEF Bringing, Answered, Requests
    <3> HIDE DEF q
    <3> QED
      BY <3>1, <3>2 DEF q
  <2>5. CASE HandleLogout(c)
    <3> DEFINE q == Answered(http[c], TRUE, "clear")
    <3>1. http' = Set(http, c, q) /\ http[c].kind = "logout" /\ states' = states
      BY <2>5 DEF HandleLogout, Waits
    <3>2. q.kind = http[c].kind 
      BY <1>h DEF Bringing, Answered, Requests
    <3> HIDE DEF q
    <3> QED
      BY <3>1, <3>2
  <2>6. CASE Fails(c)
    <3> DEFINE q == Bringing(Answered(http[c], FALSE, "keep"), 0, NoToken, 0)
    <3>1. http' = Set(http, c, q) /\ states' = states
      BY <2>6 DEF Fails, Waits
    <3>2. q.kind = http[c].kind /\ q.flow = 0 /\ ~ q.ok
      BY <1>h DEF Bringing, Answered, Requests
    <3> HIDE DEF q
    <3> QED
      BY <3>1, <3>2
  <2> QED
    BY <2>1, <2>2, <2>3, <2>4, <2>5, <2>6 DEF Handle
<1>2. UNCHANGED <<page, state, flowJar>>
  BY DEF Handle, HandleStart, HandleLogin, HandleInfo, HandleRefresh, HandleLogout, Fails
<1>q. PICK q : Answers(q)
  BY <1>1
<1>3. PICK t \in Tabs : c = PageOf(t) \/ c = TimerOf(t)
  BY TabChannels
<1>4. CASE c = PageOf(t)
  <2>1. \A v \in Tabs : /\ http'[PageOf(v)] = IF v = t THEN q ELSE http[PageOf(v)]
                        /\ http'[TimerOf(v)] = http[TimerOf(v)]
    BY <1>y, <1>q, <1>4, SetPage
  <2>2. TabInv(u)'
    BY <1>t, <1>n, <1>q, <1>2, <1>4, <2>1 DEF TabInv
  <2>3. PairInv(u, w)'
    BY <1>t, <1>p, <1>n, <1>q, <1>2, <1>4, <2>1 DEF TabInv, PairInv
  <2> QED
    BY <2>2, <2>3
<1>5. CASE c = TimerOf(t)
  <2>1. \A v \in Tabs : /\ http'[TimerOf(v)] = IF v = t THEN q ELSE http[TimerOf(v)]
                        /\ http'[PageOf(v)] = http[PageOf(v)]
    BY <1>y, <1>q, <1>5, SetTimer
  <2>2. states' = states
    BY <1>t, <1>q, <1>5 DEF TabInv
  <2>3. TabInv(u)'
    BY <1>t, <1>q, <1>2, <1>5, <2>1, <2>2 DEF TabInv
  <2>4. PairInv(u, w)'
    BY <1>p, <1>2, <2>1 DEF PairInv
  <2> QED
    BY <2>3, <2>4
<1> QED
  BY <1>3, <1>4, <1>5

LEMMA VerifierNext == VerifierInv /\ [Next]_vars => VerifierInv'
<1> SUFFICES ASSUME VerifierInv, [Next]_vars PROVE VerifierInv'
  OBVIOUS
<1>1. TypeOK'
  BY NextTypeOK DEF VerifierInv
<1>2. ASSUME NEW u \in Tabs, NEW w \in Tabs PROVE TabInv(u)' /\ PairInv(u, w)'
  <2>1. CASE \E t \in Tabs : \/ Load(t) \/ IdpReturns(t) \/ IdpDenies(t) \/ Deliver(t)
                             \/ Timer(t) \/ RefreshAnswered(t) \/ Logout(t)
    BY <1>2, <2>1, VerifierTab
  <2>2. CASE \E c \in Channels : Handle(c) \/ Fails(c)
    BY <1>2, <2>2, VerifierProxy
  <2>3. CASE UNCHANGED <<page, http, state, states, flowJar>>
    BY <1>2, <2>3 DEF VerifierInv, TabInv, PairInv
  <2>4. \/ AccessExpires \/ RefreshExpires \/ (\E s \in Sessions : IdpSessionEnds(s)) \/ UNCHANGED vars
        => UNCHANGED <<page, http, state, states, flowJar>>
    BY DEF AccessExpires, RefreshExpires, IdpSessionEnds
  <2> QED
    BY <2>1, <2>2, <2>3, <2>4 DEF Next
<1> QED
  BY <1>1, <1>2 DEF VerifierInv

\* Tabs that sign in at the same time do not get in each other's way: each
\* finds the verifier of its own attempt (cookies.go lines 128-166).
THEOREM OwnVerifierThm == Spec => []OwnVerifier
<1>1. VerifierInv => OwnVerifier
  BY DEF VerifierInv, TabInv, OwnVerifier, FlowKey
<1> QED
  BY <1>1, VerifierInit, VerifierNext, PTL DEF Spec

-----------------------------------------------------------------------------
(* Signed-out sessions and the user that a page shows.                     *)

\* The sessions of cookies, pages and requests are numbers.
LEMMA SessionTypes ==
  ASSUME TypeOK
  PROVE  /\ access \in SessionIds /\ refresh[1] \in SessionIds /\ sso \in SessionIds
         /\ \A t \in Tabs : shown[t] \in SessionIds
         /\ \A c \in Channels : http[c].s \in SessionIds /\ About(http[c]) \in SessionIds
         /\ SessionIds \subseteq Nat /\ signedOut \subseteq Sessions
         /\ 0 \in SessionIds /\ Sessions = SessionIds \ {0}
<1>1. \A c \in Channels : http[c] \in Requests
  BY DEF TypeOK
<1>2. \A q \in Requests : q.s \in SessionIds /\ q.r[1] \in SessionIds
  BY RequestType, Built
<1>3. refresh[1] \in SessionIds
  BY Built DEF TypeOK
<1>4. SessionIds \subseteq Nat
  BY AuthAssumption DEF SessionIds
<1>5. \A c \in Channels : http[c].s \in SessionIds /\ About(http[c]) \in SessionIds
  BY <1>1, <1>2 DEF About
<1> QED
  BY <1>3, <1>4, <1>5, Members DEF TypeOK

LEMMA InitIInv == Init => IInv
<1> SUFFICES ASSUME Init PROVE IInv
  OBVIOUS
<1>1. TypeOK
  BY InitTypeOK
<1>2. \A c \in Channels : http[c] = NoRequest /\ http[c].s = 0
  BY DEF Init, NoRequest, Request
<1>3. IdpInv /\ SignInv /\ SignedOutStaysOut
  BY <1>1, SessionTypes DEF Init, IdpInv, SignInv, SignedOutStaysOut
<1>4. \A c \in Channels : AnswerInv(c)
  BY <1>2, Fields DEF AnswerInv
<1>5. refresh[1] = 0
  BY DEF Init, NoToken
<1>6. \A u : Knows(u) => u = 0
  BY <1>2, <1>5, Fields DEF Init, Knows, About
<1>7. KnownInv
  BY <1>2, <1>6, Fields DEF Init, KnownInv, Coming
<1> QED
  BY <1>1, <1>3, <1>4, <1>7 DEF IInv

\* The identity provider only starts sessions after the last one, and ends them.
IdpMoves ==
  /\ sso <= sso'
  /\ \A s \in SessionIds : idp[s] = "ended" => idp'[s] = "ended"

LEMMA IdpStep ==
  ASSUME IInv, [Next]_vars
  PROVE  IdpInv' /\ IdpMoves
<1>y. TypeOK /\ IdpInv
  BY DEF IInv
<1>n. sso \in Nat /\ idp \in [SessionIds -> IdpStates] /\ SessionIds \subseteq Nat
      /\ 0 \in SessionIds /\ Sessions = SessionIds \ {0} /\ Sessions = 1..MaxSessions
      /\ MaxSessions \in Nat
  BY <1>y, SessionTypes, AuthAssumption DEF TypeOK, Sessions
<1>1. CASE UNCHANGED <<idp, sso>>
  BY <1>1, <1>y, <1>n DEF IdpInv, IdpMoves
<1>2. ASSUME NEW t \in Tabs, IdpReturns(t) PROVE IdpInv' /\ IdpMoves
  <2>1. CASE UNCHANGED <<idp, sso>>
    BY <1>1, <2>1
  <2>2. CASE ~ UNCHANGED <<idp, sso>>
    <3>1. PICK s \in Sessions :
            /\ sso = 0 \/ (sso \in Sessions /\ idp[sso] = "ended")
            /\ \A u \in Sessions : idp[u] = "unused" <=> u >= s
            /\ idp' = Set(idp, s, "live") /\ sso' = s
      BY <1>2, <2>2 DEF IdpReturns
    <3>2. s = sso + 1
      <4>1. idp[s] = "unused" /\ s > sso
        BY <1>n, <1>y, <3>1 DEF IdpInv
      <4>2. CASE s > sso + 1
        <5>1. sso + 1 \in Sessions /\ idp[sso + 1] = "unused"
          BY <1>n, <1>y, <4>2 DEF IdpInv
        <5> QED
          BY <1>n, <3>1, <4>2, <5>1
      <4> QED
        BY <1>n, <4>1, <4>2
    <3>3. \A u \in SessionIds : idp'[u] = IF u = s THEN "live" ELSE idp[u]
      BY <1>n, <3>1 DEF Set
    <3>4. idp[s] = "unused"
      BY <1>n, <3>1
    <3>5. IdpInv'
      <4>1. idp'[0] = "unused"
        BY <1>n, <1>y, <3>3 DEF IdpInv
      <4>2. ASSUME NEW u \in Sessions PROVE idp'[u] = "unused" <=> u > sso'
        BY <1>n, <1>y, <3>1, <3>2, <3>3 DEF IdpInv
      <4>3. ASSUME NEW u \in Sessions, idp'[u] = "live" PROVE u = sso'
        BY <1>n, <1>y, <3>1, <3>3, <4>3 DEF IdpInv
      <4> QED
        BY <4>1, <4>2, <4>3 DEF IdpInv
    <3> QED
      BY <1>n, <3>1, <3>2, <3>3, <3>4, <3>5 DEF IdpMoves
  <2> QED
    BY <2>1, <2>2
<1>3. ASSUME NEW s \in SessionIds, s # 0 => idp[s] # "unused",
             idp' = IF s = 0 THEN idp ELSE Set(idp, s, "ended"), sso' = sso
      PROVE  IdpInv' /\ IdpMoves
  <2>1. CASE s = 0
    BY <1>1, <1>3, <2>1
  <2>2. CASE s # 0
    <3>1. \A u \in SessionIds : idp'[u] = IF u = s THEN "ended" ELSE idp[u]
      BY <1>3, <1>n, <2>2 DEF Set
    <3> QED
      BY <1>3, <1>y, <1>n, <2>2, <3>1 DEF IdpInv, IdpMoves
  <2> QED
    BY <2>1, <2>2
<1>4. ASSUME NEW c \in Channels, HandleLogout(c) PROVE IdpInv' /\ IdpMoves
  <2>1. http[c].kind = "logout" /\ http[c].s \in SessionIds
    BY <1>4, <1>y, SessionTypes DEF HandleLogout, Waits
  <2>2. Knows(http[c].s)
    BY <2>1 DEF Knows, About
  <2>3. http[c].s <= sso
    BY <2>1, <2>2 DEF IInv, KnownInv
  <2>4. http[c].s # 0 => idp[http[c].s] # "unused"
    BY <1>y, <1>n, <2>1, <2>3 DEF IdpInv
  <2>5. sso' = sso /\ idp' = IF http[c].s = 0 THEN idp ELSE Set(idp, http[c].s, "ended")
    BY <1>4 DEF HandleLogout
  <2> QED
    BY <1>3, <2>1, <2>4, <2>5
<1>5. ASSUME NEW s \in Sessions, IdpSessionEnds(s) PROVE IdpInv' /\ IdpMoves
  <2>1. s # 0 /\ idp[s] = "live" /\ sso' = sso /\ idp' = Set(idp, s, "ended")
    BY <1>5, <1>n DEF IdpSessionEnds
  <2> QED
    BY <1>3, <1>n, <2>1
<1>6. \/ UNCHANGED <<idp, sso>>
      \/ \E t \in Tabs : IdpReturns(t)
      \/ \E c \in Channels : HandleLogout(c)
      \/ \E s \in Sessions : IdpSessionEnds(s)
  BY DEF Next, Handle, Deliver, Load, IdpDenies, LoginAnswered, InfoAnswered, StartAnswered,
         LogoutAnswered, Timer, RefreshAnswered, Logout, HandleStart, HandleLogin, HandleInfo,
         HandleRefresh, Fails, AccessExpires, RefreshExpires
<1> QED
  BY <1>1, <1>2, <1>4, <1>5, <1>6

\* What a step makes of requests and cookies, as far as sessions matter.  A new
\* request or answer is tame: it sets the cookies of a live session or none, and
\* is about a session that was known, or whose cookies just arrived.
Tame(q) ==
  /\ q.effect = "set" => idp[q.s] = "live"
  /\ q.kind # "login" => About(q) = 0 \/ About(q) = access' \/ Knows(About(q))

HttpMoves ==
  \A d \in Channels : http'[d] = http[d] \/ (Tame(http'[d]) /\ AnswerInv(d)')

\* Cookies arrive by an answer: its session was known, or overtakes all others.
CookieMoves ==
  /\ refresh'[1] \in {0, refresh[1], access'}
  /\ \/ access' \in {0, access}
     \/ /\ Coming(access')
        /\ Knows(access') \/ \A s \in SessionIds : Coming(s)' => s = access' \/ s \in raced'

\* A page shows a session that was known; a session counts as signed out when it
\* has ended, its cookies are gone, and whoever may bring it back is noted.
HistoryMoves ==
  /\ \A t \in Tabs : shown'[t] = 0 \/ Knows(shown'[t])
  /\ raced \subseteq raced'
  /\ \A s \in signedOut' \ signedOut :
       /\ idp[s] = "ended" /\ access' = 0 /\ refresh'[1] = 0
       /\ Coming(s)' => s \in raced'

\* Such a step keeps the invariant.
LEMMA MovesKeep ==
  ASSUME IInv, TypeOK', IdpInv', IdpMoves, HttpMoves, CookieMoves, HistoryMoves
  PROVE  IInv'
<1>y. /\ TypeOK /\ IdpInv /\ KnownInv /\ SignInv /\ SignedOutStaysOut
      /\ \A c \in Channels : AnswerInv(c)
  BY DEF IInv
<1>n. /\ access \in SessionIds /\ refresh[1] \in SessionIds /\ sso \in SessionIds
      /\ \A c \in Channels : http[c].s \in SessionIds /\ About(http[c]) \in SessionIds
      /\ SessionIds \subseteq Nat /\ signedOut \subseteq Sessions
      /\ 0 \in SessionIds /\ Sessions = SessionIds \ {0}
      /\ \A s \in SessionIds : s \in Nat
  BY <1>y, SessionTypes
<1>m. /\ access' \in SessionIds /\ refresh'[1] \in SessionIds /\ sso' \in SessionIds
      /\ \A c \in Channels : http'[c].s \in SessionIds
      /\ signedOut' \subseteq Sessions
  <2>1. \A c \in Channels : http'[c] \in Requests
    BY DEF TypeOK
  <2>2. refresh'[1] \in SessionIds
    BY Built DEF TypeOK
  <2> QED
    BY <2>1, <2>2, RequestType DEF TypeOK
\* what is known, and what comes, afterwards
<1>1. ASSUME NEW u \in SessionIds, Knows(u)'
      PROVE  u = 0 \/ u = access' \/ Knows(u)
  <2>1. CASE u = access' \/ u = refresh'[1]
    BY <2>1 DEF CookieMoves, Knows
  <2>2. CASE \E t \in Tabs : shown'[t] = u
    BY <2>2 DEF HistoryMoves
  <2>3. CASE \E c \in Channels : http'[c].kind # "login" /\ About(http'[c]) = u
    BY <2>3 DEF HttpMoves, Tame, Knows
  <2> QED
    BY <1>1, <2>1, <2>2, <2>3 DEF Knows, About
<1>2. ASSUME NEW s \in SessionIds, Coming(s)'
      PROVE  Coming(s) \/ idp[s] = "live"
  BY <1>2 DEF Coming, HttpMoves, Tame
<1>3. \A s \in SessionIds : Coming(s) => s <= sso /\ s # 0
  BY <1>y, <1>n DEF Coming, AnswerInv
<1>4. \A s \in SessionIds : idp[s] = "live" => s = sso
  BY <1>y, <1>n DEF IdpInv
<1>5. sso <= sso' /\ \A s \in SessionIds : idp[s] = "ended" => idp'[s] = "ended"
  BY DEF IdpMoves
<1>6. raced \subseteq raced'
  BY DEF HistoryMoves
<1>k. \A u \in SessionIds : Knows(u) =>
        /\ u <= sso
        /\ access # 0 => access >= u \/ access \in raced
        /\ \A s \in SessionIds : Coming(s) => s >= u \/ s \in raced
  BY <1>y DEF KnownInv
<1>a. access = 0 \/ Knows(access)
  BY DEF Knows
<1>7. KnownInv'
  <2> SUFFICES ASSUME NEW u \in SessionIds, Knows(u)'
               PROVE  /\ u <= sso'
                      /\ access' # 0 => access' >= u \/ access' \in raced'
                      /\ \A s \in SessionIds : Coming(s)' => s >= u \/ s \in raced'
    BY DEF KnownInv
  <2>1. u = 0 \/ u = access' \/ Knows(u)
    BY <1>1
  <2>2. u <= sso
    <3>1. access' = 0 \/ Knows(access') \/ Coming(access')
      BY <1>a DEF CookieMoves
    <3> QED
      BY <1>3, <1>k, <1>m, <1>n, <2>1, <3>1
  <2>3. access' # 0 => access' >= u \/ access' \in raced'
    <3>1. access' \in {0, access} \/ Coming(access')
      BY DEF CookieMoves
    <3> QED
      BY <1>6, <1>k, <1>m, <1>n, <2>1, <3>1
  <2>4. ASSUME NEW s \in SessionIds, Coming(s)' PROVE s >= u \/ s \in raced'
    <3>1. CASE u = 0 \/ idp[s] = "live"
      BY <1>4, <1>n, <2>2, <3>1
    <3>2. CASE Knows(u) /\ Coming(s)
      BY <1>6, <1>k, <3>2
    <3>3. CASE u = access' /\ Coming(s)
      <4>1. \/ u = 0 \/ Knows(u)
            \/ s = u \/ s \in raced'
        BY <1>a, <2>4, <3>3 DEF CookieMoves
      <4> QED
        BY <1>n, <3>1, <3>2, <3>3, <4>1
    <3> QED
      BY <1>2, <2>1, <2>4, <3>1, <3>2, <3>3
  <2> QED
    BY <1>5, <1>m, <1>n, <2>2, <2>3, <2>4
<1>8. ASSUME NEW s \in signedOut', s \in signedOut
      PROVE  /\ idp'[s] = "ended" /\ (Coming(s)' => s \in raced')
             /\ s \in {access', refresh'[1]} => s \in raced'
  <2>1. s \in SessionIds /\ s # 0 /\ idp[s] = "ended" /\ (Coming(s) => s \in raced)
    BY <1>8, <1>y, <1>n DEF SignInv
  <2>2. s \in {access, refresh[1]} => s \in raced
    BY <1>8, <1>y DEF SignedOutStaysOut
  <2>3. s = access' => s = access \/ Coming(s)
    BY <2>1 DEF CookieMoves
  <2>4. s = refresh'[1] => s = refresh[1] \/ s = access'
    BY <2>1 DEF CookieMoves
  <2> QED
    BY <1>2, <1>5, <1>6, <2>1, <2>2, <2>3, <2>4
<1>9. ASSUME NEW s \in signedOut', s \notin signedOut
      PROVE  /\ idp'[s] = "ended" /\ (Coming(s)' => s \in raced')
             /\ s \in {access', refresh'[1]} => s \in raced'
  BY <1>9, <1>5, <1>m, <1>n DEF HistoryMoves
<1>10. SignInv' /\ SignedOutStaysOut'
  BY <1>8, <1>9 DEF SignInv, SignedOutStaysOut
<1>11. ASSUME NEW c \in Channels PROVE AnswerInv(c)'
  <2>1. CASE http'[c] = http[c]
    <3>1. AnswerInv(c) /\ http[c].s \in SessionIds
      BY <1>y, <1>n
    <3>2. sso \in Nat /\ sso' \in Nat /\ sso <= sso'
      BY <1>5, <1>m, <1>n
    <3>3. \A s : s \in 1..sso => s \in 1..sso'
      BY <3>2
    <3>4. idp[http[c].s] = "ended" => idp'[http[c].s] = "ended"
      BY <1>5, <3>1
    <3> QED
      BY <2>1, <3>1, <3>3, <3>4 DEF AnswerInv
  <2> QED
    BY <2>1 DEF HttpMoves
<1> QED
  BY <1>7, <1>10, <1>11 DEF IInv

\* A request or an answer that sets no cookies and ends no session.
Plain(q) == q.effect # "set" /\ ~ (q.kind = "logout" /\ q.ok)

\* It is about a session that was known, or about none.
Familiar(q) ==
  q.kind = "login" \/ About(q) = 0 \/ About(q) = access' \/ Knows(About(q))

LEMMA PlainMoves ==
  ASSUME TypeOK, NEW c \in Channels, NEW q, http' = Set(http, c, q), Plain(q), Familiar(q)
  PROVE  HttpMoves
<1>1. \A d \in Channels : http'[d] = IF d = c THEN q ELSE http[d]
  BY DEF TypeOK, Set
<1>2. AnswerInv(c)' /\ Tame(q)
  BY <1>1 DEF AnswerInv, Tame, Plain, Familiar
<1> QED
  BY <1>1, <1>2 DEF HttpMoves

LEMMA PlainBoth ==
  ASSUME TypeOK, NEW t \in Tabs, NEW q \in Requests, Plain(q), Familiar(q),
         http' = Set(Set(http, PageOf(t), q), TimerOf(t), NoRequest)
  PROVE  HttpMoves
<1>1. \A v \in Tabs : /\ http'[PageOf(v)] = IF v = t THEN q ELSE http[PageOf(v)]
                      /\ http'[TimerOf(v)] = IF v = t THEN NoRequest ELSE http[TimerOf(v)]
  BY SetBoth
<1>2. \A d \in Channels : http'[d] = http[d] \/ http'[d] = q \/ http'[d] = NoRequest
  BY <1>1, TabChannels
<1>3. Plain(NoRequest) /\ Familiar(NoRequest)
  BY Fields DEF Plain, Familiar, About, NoRequest, Request
<1> QED
  BY <1>2, <1>3 DEF HttpMoves, AnswerInv, Tame, Plain, Familiar

\* Requests that carry a session the browser has, or none, are plain.
LEMMA SentIsPlain ==
  /\ \A k, s, r, f : Plain(Request(k, s, r, f))
  /\ \A k, r, f : \A s \in {0, access, access'} : k # "refresh" => Familiar(Request(k, s, r, f))
  /\ \A s, f : Familiar(Request("refresh", s, refresh, f))
  /\ \A s, r, f : Familiar(Request("login", s, r, f))
  /\ Plain(NoRequest) /\ Familiar(NoRequest)
<1>1. Plain(NoRequest) /\ Familiar(NoRequest)
  BY Fields DEF Plain, Familiar, About, NoRequest, Request
<1>2. \A k, s, r, f : Plain(Request(k, s, r, f))
  BY Fields DEF Plain
<1>3. Knows(access) /\ Knows(refresh[1])
  BY DEF Knows
<1> QED
  BY <1>1, <1>2, <1>3, Fields DEF Familiar, About

LEMMA SameCookies == UNCHANGED cookieVars => CookieMoves
BY DEF CookieMoves

LEMMA SameHistory == UNCHANGED <<shown, histVars>> => HistoryMoves
BY DEF HistoryMoves, Knows

\* An answer is delivered, and its channel gets a request that sets no cookies:
\* what comes is what was under way besides it.
LEMMA Delivered ==
  ASSUME IInv, NEW c \in Channels, NEW q, http' = Set(http, c, q), q.effect # "set",
         NEW s \in SessionIds, Coming(s)'
  PROVE  s \in Pending(c)
<1>1. \A d \in Channels : http'[d] = IF d = c THEN q ELSE http[d]
  BY DEF IInv, TypeOK, Set
<1>2. PICK d \in Channels : http'[d].effect = "set" /\ http'[d].s = s
  BY DEF Coming
<1>3. d # c /\ http[d].effect = "set" /\ http[d].s = s
  BY <1>1, <1>2
<1>4. http[d].at = "answered"
  BY <1>3 DEF IInv, AnswerInv
<1> QED
  BY <1>3, <1>4 DEF Pending

\* The cookies of an answer arrive.
LEMMA AnswerMoves ==
  ASSUME IInv, NEW c \in Channels, ApplyCookies(http[c]),
         http[c].effect = "set" =>
           \/ Knows(http[c].s)
           \/ \A s \in SessionIds : Coming(s)' => s = http[c].s \/ s \in raced'
  PROVE  CookieMoves
<1> DEFINE q == http[c]
<1>1. q \in Requests /\ AnswerInv(c)
  BY DEF IInv, TypeOK
<1>2. q.effect \in {"keep", "set", "clear"}
  BY <1>1 DEF Requests
<1>3. CASE q.effect = "set"
  <2>1. access' = q.s /\ refresh'[1] = q.s
    BY <1>1, <1>3 DEF ApplyCookies, AnswerInv
  <2>2. Coming(q.s)
    BY <1>3 DEF Coming
  <2> QED
    BY <1>3, <2>1, <2>2 DEF CookieMoves
<1>4. CASE q.effect = "clear"
  BY <1>4 DEF ApplyCookies, CookieMoves, NoToken
<1>5. CASE q.effect = "keep"
  BY <1>5 DEF ApplyCookies, CookieMoves
<1> QED
  BY <1>2, <1>3, <1>4, <1>5

\* The steps of a tab.
LEMMA TabMoves ==
  ASSUME IInv, TypeOK', NEW t \in Tabs,
         \/ Load(t) \/ IdpReturns(t) \/ IdpDenies(t) \/ Deliver(t)
         \/ Timer(t) \/ RefreshAnswered(t) \/ Logout(t)
  PROVE  HttpMoves /\ CookieMoves /\ HistoryMoves
<1> DEFINE c == PageOf(t)
           q == http[c]
<1>y. TypeOK /\ c \in Channels /\ TimerOf(t) \in Channels /\ shown \in [Tabs -> SessionIds]
  BY TabChannels DEF IInv, TypeOK
<1>k. \A v \in Tabs : Knows(shown[v])
  BY DEF Knows
<1> HIDE DEF c
<1>1. CASE Load(t)
  <2>1. Request("info", access, NoToken, 0) \in Requests
    BY <1>y, Built, RequestType, Members DEF TypeOK
  <2>2. HttpMoves
    BY <1>1, <1>y, <2>1, PlainBoth, SentIsPlain DEF Load
  <2>3. \A v \in Tabs : shown'[v] = 0 \/ shown'[v] = shown[v]
    BY <1>1, <1>y DEF Load, Set
  <2>4. HistoryMoves
    BY <1>1, <1>k, <2>3 DEF Load, HistoryMoves
  <2> QED
    BY <1>1, <2>2, <2>4, SameCookies DEF Load
<1>2. CASE IdpReturns(t)
  <2>1. PICK s, f : http' = Set(http, c, Request("login", s, NoToken, f))
    BY <1>2 DEF IdpReturns, c
  <2>2. HttpMoves
    BY <1>y, <2>1, PlainMoves, SentIsPlain
  <2> QED
    BY <1>2, <2>2, SameCookies, SameHistory DEF IdpReturns
<1>3. CASE IdpDenies(t)
  BY <1>3, SameCookies, SameHistory DEF IdpDenies, HttpMoves
<1>4. CASE LoginAnswered(t)
  <2>1. /\ q.kind = "login" /\ ApplyCookies(q)
        /\ raced' = IF q.ok THEN raced \cup (Pending(c) \ {q.s}) ELSE raced
        /\ http' = Set(http, c, Request("info", access', NoToken, 0))
        /\ UNCHANGED <<shown, signedOut>>
    BY <1>4 DEF LoginAnswered, Delivers, c
  <2>2. HttpMoves
    BY <1>y, <2>1, PlainMoves, SentIsPlain
  <2>3. q.effect = "set" => \A s \in SessionIds : Coming(s)' => s = q.s \/ s \in raced'
    <3>1. q.effect = "set" => q.ok
      BY <1>y DEF IInv, AnswerInv
    <3>2. \A s \in SessionIds : Coming(s)' => s \in Pending(c)
      BY <1>y, <2>1, Delivered, Fields
    <3> QED
      BY <2>1, <3>1, <3>2
  <2>4. CookieMoves
    BY <1>y, <2>1, <2>3, AnswerMoves
  <2>5. HistoryMoves
    BY <1>k, <2>1 DEF HistoryMoves
  <2> QED
    BY <2>2, <2>4, <2>5
<1>5. CASE InfoAnswered(t)
  <2>1. /\ q.kind = "info" /\ UNCHANGED <<cookieVars, histVars>>
        /\ \/ http' = Set(http, c, NoRequest) /\ shown' = Set(shown, t, q.s)
           \/ http' = Set(http, c, Request("start", 0, NoToken, 0)) /\ shown' = shown
    BY <1>5 DEF InfoAnswered, Delivers, c
  <2>2. HttpMoves
    BY <1>y, <2>1, PlainMoves, SentIsPlain
  <2>3. Knows(q.s)
    BY <1>y, <2>1 DEF Knows, About
  <2>4. \A v \in Tabs : shown'[v] = shown[v] \/ shown'[v] = q.s
    BY <1>y, <2>1 DEF Set
  <2>5. HistoryMoves
    BY <1>k, <2>1, <2>3, <2>4 DEF HistoryMoves
  <2> QED
    BY <2>1, <2>2, <2>5, SameCookies
<1>6. CASE StartAnswered(t)
  <2>1. \/ http' = Set(Set(http, c, NoRequest), TimerOf(t), NoRequest)
        \/ http' = Set(http, c, NoRequest)
    BY <1>6 DEF StartAnswered, c
  <2>2. HttpMoves
    BY <1>y, <2>1, PlainMoves, PlainBoth, SentIsPlain, RequestType DEF c
  <2> QED
    BY <1>6, <2>2, SameCookies, SameHistory DEF StartAnswered
<1>7. CASE LogoutAnswered(t)
  <2>1. q.kind = "logout" /\ ApplyCookies(q)
    BY <1>7 DEF LogoutAnswered, Delivers, c
  <2>2. q.effect # "set" /\ AnswerInv(c)
    BY <1>y, <2>1 DEF IInv, AnswerInv
  <2>3. CookieMoves
    BY <1>y, <2>1, <2>2, AnswerMoves
  <2>4. CASE q.ok
    <3>1. /\ http' = Set(http, c, Request("info", access', NoToken, 0))
          /\ shown' = Set(shown, t, 0)
          /\ signedOut' = signedOut \cup ({q.s} \ {0})
          /\ raced' = raced \cup Pending(c)
      BY <1>7, <2>4 DEF LogoutAnswered, c
    <3>2. HttpMoves
      BY <1>y, <3>1, PlainMoves, SentIsPlain
    <3>3. \A v \in Tabs : shown'[v] = 0 \/ shown'[v] = shown[v]
      BY <1>y, <3>1 DEF Set
    <3>4. access' = 0 /\ refresh'[1] = 0 /\ (q.s # 0 => idp[q.s] = "ended")
      BY <2>1, <2>2, <2>4 DEF AnswerInv, ApplyCookies, NoToken
    <3>5. \A s \in SessionIds : Coming(s)' => s \in raced'
      BY <1>y, <3>1, Delivered, Fields
    <3>6. q.s \in SessionIds
      BY <1>y, SessionTypes
    <3>7. HistoryMoves
      BY <1>k, <3>1, <3>3, <3>4, <3>5, <3>6 DEF HistoryMoves
    <3> QED
      BY <2>3, <3>2, <3>7
  <2>5. CASE ~ q.ok
    <3>1. http' = Set(http, c, NoRequest) /\ UNCHANGED <<shown, histVars>>
      BY <1>7, <2>5 DEF LogoutAnswered, c
    <3> QED
      BY <1>y, <2>3, <3>1, PlainMoves, SentIsPlain, SameHistory
  <2> QED
    BY <2>4, <2>5
<1>8. CASE Timer(t)
  <2>1. http' = Set(http, TimerOf(t), Request("refresh", 0, refresh, 0))
    BY <1>8 DEF Timer
  <2>2. HttpMoves
    BY <1>y, <2>1, PlainMoves, SentIsPlain
  <2> QED
    BY <1>8, <2>2, SameCookies, SameHistory DEF Timer
<1>9. CASE RefreshAnswered(t)
  <2> DEFINE b == TimerOf(t)
  <2>1. /\ http[b].kind = "refresh" /\ ApplyCookies(http[b])
        /\ http' = Set(http, b, NoRequest) /\ UNCHANGED <<shown, histVars>>
    BY <1>9 DEF RefreshAnswered, Delivers
  <2>2. http[b].effect = "set" => Knows(http[b].s)
    BY <1>y, <2>1 DEF IInv, AnswerInv, Knows, About
  <2>3. CookieMoves
    BY <1>y, <2>1, <2>2, AnswerMoves
  <2> QED
    BY <1>y, <2>1, <2>3, PlainMoves, SentIsPlain, SameHistory
<1>10. CASE Logout(t)
  <2>1. http' = Set(http, c, Request("logout", access, NoToken, 0))
    BY <1>10 DEF Logout, c
  <2>2. HttpMoves
    BY <1>y, <2>1, PlainMoves, SentIsPlain
  <2> QED
    BY <1>10, <2>2, SameCookies, SameHistory DEF Logout
<1> QED
  BY <1>1, <1>2, <1>3, <1>4, <1>5, <1>6, <1>7, <1>8, <1>9, <1>10 DEF Deliver

\* The steps of the proxy.
LEMMA ProxyMoves ==
  ASSUME IInv, TypeOK', IdpInv', IdpMoves, NEW c \in Channels, Handle(c) \/ Fails(c)
  PROVE  HttpMoves /\ CookieMoves /\ HistoryMoves
<1> DEFINE q == http[c]
<1>y. TypeOK /\ IdpInv /\ AnswerInv(c) /\ q \in Requests
  BY DEF IInv, TypeOK
<1>h. \A a : http' = Set(http, c, a) => \A d \in Channels : http'[d] = IF d = c THEN a ELSE http[d]
  BY <1>y DEF TypeOK, Set
<1>k. q.kind # "login" => Knows(About(q))
  BY DEF Knows
<1>l. \A s \in SessionIds : idp[s] = "live" => s \in 1..sso /\ 1..sso \subseteq 1..sso'
  <2>1. /\ sso \in SessionIds /\ sso' \in SessionIds /\ SessionIds \subseteq Nat
        /\ Sessions = SessionIds \ {0} /\ sso <= sso'
    BY <1>y, SessionTypes DEF IdpMoves, TypeOK
  <2>2. sso \in Nat /\ sso' \in Nat
    BY <2>1
  <2>3. \A s : s \in 1..sso => s \in 1..sso'
    BY <2>1, <2>2
  <2>4. \A s \in SessionIds : idp[s] = "live" => s = sso /\ s # 0
    BY <1>y, <2>1 DEF IdpInv
  <2> QED
    BY <2>2, <2>3, <2>4
<1>u. UNCHANGED <<shown, cookieVars, histVars>>
  BY DEF Handle, HandleStart, HandleLogin, HandleInfo, HandleRefresh, HandleLogout, Fails
<1>c. CookieMoves /\ HistoryMoves
  BY <1>u, SameCookies, SameHistory
\* an answer that sets the cookies of a live session
<1>s. ASSUME NEW s \in SessionIds, NEW r, r[1] = s, idp[s] = "live",
             \/ q.kind = "login"
             \/ q.kind = "refresh" /\ s = q.r[1],
             q.at = "sent",
             http' = Set(http, c, Bringing(Answered(q, TRUE, "set"), s, r, 0))
      PROVE  HttpMoves
  <2> DEFINE a == Bringing(Answered(q, TRUE, "set"), s, r, 0)
  <2>1. /\ a.kind = q.kind /\ a.s = s /\ a.r = r /\ a.ok = TRUE /\ a.effect = "set"
        /\ a.at = "answered"
    BY <1>y DEF Bringing, Answered, Requests
  <2> HIDE DEF a
  <2>2. \A d \in Channels : http'[d] = IF d = c THEN a ELSE http[d]
    BY <1>s, <1>h DEF a
  <2>3. Tame(a)
    BY <1>s, <1>k, <2>1 DEF Tame, About
  <2>4. AnswerInv(c)'
    BY <1>s, <1>l, <2>1, <2>2 DEF AnswerInv
  <2> QED
    BY <2>2, <2>3, <2>4 DEF HttpMoves
\* an answer without cookies, that ends no session
<1>p. ASSUME NEW ok, NEW e, e # "set", ~ ok \/ q.kind # "logout",
             \/ http' = Set(http, c, Answered(q, ok, e))
             \/ /\ q.kind # "login" => q.kind = "refresh" \/ ~ ok \/ q.kind = "start"
                /\ \E f : http' = Set(http, c, Bringing(Answered(q, ok, e), 0, NoToken, f))
      PROVE  HttpMoves
  <2>1. CASE http' = Set(http, c, Answered(q, ok, e))
    <3> DEFINE a == Answered(q, ok, e)
    <3>1. a.kind = q.kind /\ a.s = q.s /\ a.r = q.r /\ a.ok = ok /\ a.effect = e
      BY <1>y, Fields
    <3> HIDE DEF a
    <3>2. Plain(a) /\ Familiar(a)
      BY <1>p, <1>k, <3>1 DEF Plain, Familiar, About
    <3> QED
      BY <1>y, <2>1, <3>2, PlainMoves DEF a
  <2>2. CASE \E f : http' = Set(http, c, Bringing(Answered(q, ok, e), 0, NoToken, f))
    <3>1. PICK f : http' = Set(http, c, Bringing(Answered(q, ok, e), 0, NoToken, f))
      BY <2>2
    <3> DEFINE a == Bringing(Answered(q, ok, e), 0, NoToken, f)
    <3>2. a.kind = q.kind /\ a.s = 0 /\ a.r = NoToken /\ a.ok = ok /\ a.effect = e
      BY <1>y, Fields
    <3> HIDE DEF a
    <3>3. Plain(a) /\ Familiar(a)
      BY <1>p, <3>2 DEF Plain, Familiar, About, NoToken
    <3> QED
      BY <1>y, <3>1, <3>3, PlainMoves DEF a
  <2> QED
    BY <1>p, <2>1, <2>2
<1>1. CASE HandleStart(c)
  <2>1. q.kind = "start" /\ \E f : http' = Set(http, c, Bringing(Answered(q, TRUE, "keep"), 0, NoToken, f))
    BY <1>1 DEF HandleStart, Waits
  <2> QED
    BY <1>c, <1>p, <2>1
<1>2. CASE HandleLogin(c)
  <2>1. /\ q.kind = "login" /\ q.at = "sent" /\ idp[q.s] = "live"
        /\ http' = Set(http, c, Bringing(Answered(q, TRUE, "set"), q.s, <<q.s, gen[q.s]>>, 0))
    BY <1>2 DEF HandleLogin, Waits
  <2>2. q.s \in SessionIds /\ <<q.s, gen[q.s]>>[1] = q.s
    BY <1>y, SessionTypes
  <2>3. HttpMoves
    BY <1>s, <2>1, <2>2
  <2> QED
    BY <1>c, <2>3
<1>3. CASE HandleInfo(c)
  <2>1. q.kind = "info" /\ http' = Set(http, c, Answered(q, q.s # 0, "keep"))
    BY <1>3 DEF HandleInfo, Waits
  <2> QED
    BY <1>c, <1>p, <2>1
<1>4. CASE HandleRefresh(c)
  <2> DEFINE s == q.r[1]
  <2>1. /\ q.kind = "refresh" /\ q.at = "sent"
        /\ \/ /\ idp[s] = "live"
              /\ \E g : http' = Set(http, c, Bringing(Answered(q, TRUE, "set"), s, <<s, g>>, 0))
           \/ http' = Set(http, c, Bringing(Answered(q, FALSE, "clear"), 0, NoToken, 0))
    BY <1>4 DEF HandleRefresh, Waits
  <2>2. s \in SessionIds /\ \A g : <<s, g>>[1] = s
    BY <1>y, Built, RequestType
  <2> HIDE DEF s
  <2>3. CASE http' = Set(http, c, Bringing(Answered(q, FALSE, "clear"), 0, NoToken, 0))
    BY <1>c, <1>p, <2>1, <2>3
  <2>4. CASE /\ idp[s] = "live"
             /\ \E g : http' = Set(http, c, Bringing(Answered(q, TRUE, "set"), s, <<s, g>>, 0))
    <3>1. PICK g : http' = Set(http, c, Bringing(Answered(q, TRUE, "set"), s, <<s, g>>, 0))
      BY <2>4
    <3>2. HttpMoves
      BY <1>s, <2>1, <2>2, <2>4, <3>1 DEF s
    <3> QED
      BY <1>c, <3>2
  <2> QED
    BY <2>1, <2>3, <2>4
<1>5. CASE HandleLogout(c)
  <2> DEFINE a == Answered(q, TRUE, "clear")
  <2>1. /\ q.kind = "logout" /\ http' = Set(http, c, a)
        /\ idp' = IF q.s = 0 THEN idp ELSE Set(idp, q.s, "ended")
    BY <1>5 DEF HandleLogout, Waits
  <2>2. a.kind = "logout" /\ a.s = q.s /\ a.effect = "clear"
    BY <1>y, <2>1 DEF Answered, Requests
  <2> HIDE DEF a
  <2>3. \A d \in Channels : http'[d] = IF d = c THEN a ELSE http[d]
    BY <1>h, <2>1
  <2>4. q.s # 0 => idp'[q.s] = "ended"
    BY <1>y, <2>1, SessionTypes DEF Set, TypeOK
  <2>5. AnswerInv(c)' /\ Tame(a)
    BY <1>k, <2>1, <2>2, <2>3, <2>4 DEF AnswerInv, Tame, About
  <2>6. HttpMoves
    BY <2>3, <2>5 DEF HttpMoves
  <2> QED
    BY <1>c, <2>6
<1>6. CASE Fails(c)
  <2>1. http' = Set(http, c, Bringing(Answered(q, FALSE, "keep"), 0, NoToken, 0))
    BY <1>6 DEF Fails
  <2> QED
    BY <1>c, <1>p, <2>1
<1> QED
  BY <1>1, <1>2, <1>3, <1>4, <1>5, <1>6 DEF Handle

LEMMA NextIInv == IInv /\ [Next]_vars => IInv'
<1> SUFFICES ASSUME IInv, [Next]_vars PROVE IInv'
  OBVIOUS
<1>1. TypeOK' /\ IdpInv' /\ IdpMoves
  BY NextTypeOK, IdpStep DEF IInv
<1>2. HttpMoves /\ CookieMoves /\ HistoryMoves
  <2>1. CASE \E t \in Tabs : \/ Load(t) \/ IdpReturns(t) \/ IdpDenies(t) \/ Deliver(t)
                             \/ Timer(t) \/ RefreshAnswered(t) \/ Logout(t)
    BY <1>1, <2>1, TabMoves
  <2>2. CASE \E c \in Channels : Handle(c) \/ Fails(c)
    BY <1>1, <2>2, ProxyMoves
  <2>3. CASE AccessExpires
    BY <2>3, SameHistory DEF AccessExpires, HttpMoves, CookieMoves
  <2>4. CASE RefreshExpires
    BY <2>4, SameHistory DEF RefreshExpires, HttpMoves, CookieMoves, NoToken
  <2>5. CASE (\E s \in Sessions : IdpSessionEnds(s)) \/ UNCHANGED vars
    BY <2>5, SameCookies, SameHistory DEF IdpSessionEnds, HttpMoves
  <2> QED
    BY <2>1, <2>2, <2>3, <2>4, <2>5 DEF Next
<1> QED
  BY <1>1, <1>2, MovesKeep

\* Everything that the two theorems below rest on.
THEOREM Inductive == Spec => []IInv
BY InitIInv, NextIInv, PTL DEF Spec

\* A session that was signed out comes back into the browser's cookies only by
\* an answer that was under way when the logout was answered: no tab can sign in
\* to it again or refresh it (handler.go lines 253-280).
THEOREM SignedOutStaysOutThm == Spec => []SignedOutStaysOut
<1>1. IInv => SignedOutStaysOut
  BY DEF IInv
<1> QED
  BY <1>1, Inductive, PTL

\* The cookies that a page's calls use are those of the user it shows, of one who
\* signed in later, or arrived by an overtaken answer (oidc-login.tsx lines
\* 143-150, middleware/auth.go lines 14-23).
THEOREM ShownUserActsThm == Spec => []ShownUserActs
<1>1. IInv => ShownUserActs
  <2> SUFFICES ASSUME IInv, NEW t \in Tabs, access \notin {0, shown[t]}
               PROVE  access > shown[t] \/ access \in raced
    BY DEF ShownUserActs
  <2>1. Knows(shown[t])
    BY DEF Knows
  <2>2. access \in Nat /\ shown[t] \in Nat /\ shown[t] \in SessionIds
    BY SessionTypes DEF IInv
  <2>3. access >= shown[t] \/ access \in raced
    BY <2>1, <2>2 DEF IInv, KnownInv
  <2> QED
    BY <2>2, <2>3
<1> QED
  BY <1>1, Inductive, PTL
=============================================================================
