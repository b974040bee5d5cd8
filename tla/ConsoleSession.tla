--------------------------- MODULE ConsoleSession ---------------------------
(***************************************************************************)
(* The VM console of one browser: every VmConsoleView that is ever mounted *)
(* (in any tab, for any resource), the useConsoleSession hook it owns, and *)
(* what those hooks share: the browser's Web Locks, the one console-ticket *)
(* cookie of the origin, and console-proxy, which admits one session per   *)
(* resource.                                                               *)
(*                                                                         *)
(* A "view" is one mount of VmConsoleView.  Switching the transport or     *)
(* reloading the page mounts another view in the same tab; the callbacks   *)
(* of the old one may still be pending and run later, which is what        *)
(* sessionIdRef is there for.                                              *)
(***************************************************************************)
EXTENDS Naturals

CONSTANTS
  Views,      \* the mounts of VmConsoleView
  Tabs,       \* browser tabs
  Resources,  \* compute instances with a console
  TabOf,      \* the tab a view is mounted in
  ResOf,      \* the resource a view shows
  FailingViews, \* the views whose viewer may report an error (a bound)
  Closable,   \* the tabs that may be closed, reloaded or crash (a bound)
  MaxClears,  \* ticket-clear requests kept in flight (a bound)
  LossyClears, \* may a ticket-clear request be lost
  Nobody,     \* no view
  Foreigners  \* console sessions of other browsers or users

ASSUME ViewsAssumption ==
  /\ TabOf \in [Views -> Tabs]
  /\ ResOf \in [Views -> Resources]
  /\ FailingViews \subseteq Views
  /\ Closable \subseteq Tabs
  /\ MaxClears \in Nat \ {0}
  /\ LossyClears \in BOOLEAN
  /\ Nobody \notin Views
  /\ Foreigners \cap (Views \cup {Nobody}) = {}

VARIABLES
  \* VmConsoleView
  mounted,    \* "new" until mounted, "mounted", then "gone"
  viewer,     \* is the VNC or serial viewer in the rendered tree
  \* useConsoleSession
  sid,        \* sessionIdRef.current
  asid,       \* the sessionId captured by the latest attempt and its socket
  pc,         \* what the attempt (or the loader before it) waits for
  force,      \* the force argument of the latest attempt
  ui,         \* connectionState
  kind,       \* errorKind, "generic" while there is no error
  lockRef,    \* is lockRef.current a handle
  ref,        \* is socketRef.current (and the state webSocket) a socket
  hasOpened,  \* hasOpened of the attempt's socket
  \* the browser
  holder,     \* the view that holds the Web Lock of a resource
  releasing,  \* views whose release() the lock manager has yet to process
  cookie,     \* the view whose ticket is in the console-ticket cookie
  clears,     \* requests to /api/console-ticket/clear in flight
  \* the WebSockets and console-proxy
  sock,       \* the socket of a view's attempt
  presented,  \* the ticket the handshake carried, named by the view that minted it
  spent,      \* tickets already used
  owner,      \* who owns the console of a resource at console-proxy
  \* history
  robbed      \* views whose lock was stolen from them

viewVars    == <<mounted, viewer>>
attemptVars == <<sid, asid, pc, force>>
stateVars   == <<ui, kind, lockRef, ref, hasOpened>>
lockVars    == <<holder, releasing, robbed>>
cookieVars  == <<cookie, clears>>
wireVars    == <<sock, presented, spent, owner>>
vars == <<viewVars, attemptVars, stateVars, lockVars, cookieVars, wireVars>>

Steps == {"idle", "loading", "lock", "granted", "refused",
          "minting", "minted", "mintFailed"}
UiStates == {"idle", "connecting", "connected", "error", "disconnected"}
Kinds == {"generic", "possibleConflict", "siblingTabConflict", "viewer"}
SocketStates == {"none", "handshake", "accepted", "open",
                 "dropped", "closing", "closed"}

TypeOK ==
  /\ mounted \in [Views -> {"new", "mounted", "gone"}]
  /\ viewer \in [Views -> BOOLEAN]
  /\ sid \in [Views -> Nat]
  /\ asid \in [Views -> Nat]
  /\ pc \in [Views -> Steps]
  /\ force \in [Views -> BOOLEAN]
  /\ ui \in [Views -> UiStates]
  /\ kind \in [Views -> Kinds]
  /\ lockRef \in [Views -> BOOLEAN]
  /\ ref \in [Views -> BOOLEAN]
  /\ hasOpened \in [Views -> BOOLEAN]
  /\ holder \in [Resources -> Views \cup {Nobody}]
  /\ releasing \in SUBSET Views
  /\ robbed \in SUBSET Views
  /\ cookie \in Views \cup {Nobody}
  /\ clears \in 0..MaxClears
  /\ sock \in [Views -> SocketStates]
  /\ presented \in [Views -> Views \cup {Nobody}]
  /\ spent \in SUBSET Views
  /\ owner \in [Resources -> Views \cup {Nobody} \cup Foreigners]

Init ==
  /\ mounted = [v \in Views |-> "new"]
  /\ viewer = [v \in Views |-> FALSE]
  /\ sid = [v \in Views |-> 0]
  /\ asid = [v \in Views |-> 0]
  /\ pc = [v \in Views |-> "idle"]
  /\ force = [v \in Views |-> FALSE]
  /\ ui = [v \in Views |-> "idle"]
  /\ kind = [v \in Views |-> "generic"]
  /\ lockRef = [v \in Views |-> FALSE]
  /\ ref = [v \in Views |-> FALSE]
  /\ hasOpened = [v \in Views |-> FALSE]
  /\ holder = [r \in Resources |-> Nobody]
  /\ releasing = {}
  /\ robbed = {}
  /\ cookie = Nobody
  /\ clears = 0
  /\ sock = [v \in Views |-> "none"]
  /\ presented = [v \in Views |-> Nobody]
  /\ spent = {}
  /\ owner \in [Resources -> {Nobody} \cup Foreigners]

-----------------------------------------------------------------------------
(* Helpers of the hook.  Each one states what it does to the variables its *)
(* name is about; the action leaves the others alone.                      *)

Set(f, v, x) == [f EXCEPT ![v] = x]

\* Definitions named Fault... are no part of the specification: each is the
\* definition after it with one plausible mistake, which a property must notice.

\* the generation check of the callbacks is forgotten
FaultAlwaysCurrent(v) == TRUE

\* isCurrentSession() of the attempt's callbacks
IsCurrentSession(v) == sid[v] = asid[v]

\* releaseLock() drops the handle without releasing it
FaultForgetLock(v) == lockRef' = Set(lockRef, v, FALSE) /\ UNCHANGED releasing

\* an exit path forgets to call releaseLock()
FaultKeepLock(v) == UNCHANGED <<lockRef, releasing>>

\* releaseLock(): release the handle, if any, and forget it
ReleaseLock(v) ==
  /\ releasing' = IF lockRef[v] THEN releasing \cup {v} ELSE releasing
  /\ lockRef' = Set(lockRef, v, FALSE)

\* clearConsoleTicketCookie(): fire and forget.  Requests beyond MaxClears
\* would be delivered like those already in flight.
ClearConsoleTicketCookie == clears' = IF clears < MaxClears THEN clears + 1 ELSE clears

Connected == {"handshake", "accepted", "open"}

\* an exit path releases the lock and forgets socket.close()
FaultLeaveSocketOpen(v) == UNCHANGED sock

\* socket?.close() on the socket that was in socketRef
CloseSocket(v) ==
  sock' = IF ref[v] /\ sock[v] \in Connected THEN Set(sock, v, "closing") ELSE sock

\* setConnectionState and setErrorKind get each other's argument
FaultSwappedError(v, k) ==
  /\ ui' = Set(ui, v, k)
  /\ kind' = Set(kind, v, "error")

\* a failure is logged and the state left alone
FaultSilentError(v, k) == UNCHANGED <<ui, kind>>

SetError(v, k) ==
  /\ ui' = Set(ui, v, "error")
  /\ kind' = Set(kind, v, k)

-----------------------------------------------------------------------------
(* VmConsoleView and its caller.                                           *)

\* VmConsoleTab shows one VmConsoleView at a time in a tab; its effect starts
\* loading the viewer code.
Mount(v) ==
  /\ mounted[v] = "new"
  /\ \A u \in Views : TabOf[u] = TabOf[v] => mounted[u] # "mounted"
  /\ mounted' = Set(mounted, v, "mounted")
  /\ pc' = Set(pc, v, "loading")
  /\ UNCHANGED <<viewer, sid, asid, force, stateVars, lockVars, cookieVars, wireVars>>

\* attemptConnect up to its first await
AttemptConnect(v, f) ==
  /\ sid' = Set(sid, v, sid[v] + 1)
  /\ asid' = Set(asid, v, sid[v] + 1)
  /\ force' = Set(force, v, f)
  /\ pc' = Set(pc, v, "lock")
  /\ ReleaseLock(v)
  /\ ui' = Set(ui, v, "connecting")
  /\ kind' = Set(kind, v, "generic")
  /\ UNCHANGED <<viewVars, ref, hasOpened, holder, robbed, cookieVars, wireVars>>

\* The viewer code is loaded: connect().
ViewerLoaded(v) ==
  /\ mounted[v] = "mounted"
  /\ pc[v] = "loading"
  /\ AttemptConnect(v, FALSE)

\* takeOver(), offered only for a sibling-tab conflict.
TakeOver(v) ==
  /\ mounted[v] = "mounted"
  /\ pc[v] = "idle"
  /\ ui[v] = "error"
  /\ kind[v] = "siblingTabConflict"
  /\ AttemptConnect(v, TRUE)

\* reportViewerError
ReportViewerError(v) ==
  /\ sid' = Set(sid, v, sid[v] + 1)
  /\ ReleaseLock(v)
  /\ ref' = Set(ref, v, FALSE)
  /\ ClearConsoleTicketCookie
  /\ CloseSocket(v)
  /\ SetError(v, "viewer")
  /\ UNCHANGED <<viewVars, asid, force, hasOpened, holder, robbed, cookie,
                 presented, spent, owner>>

\* The dynamic import of the viewer code rejects.
ViewerLoadFails(v) ==
  /\ mounted[v] = "mounted"
  /\ pc[v] = "loading"
  /\ pc' = Set(pc, v, "idle")
  /\ ReportViewerError(v)

\* The rendered tree follows the state: the viewer is there while there is a
\* socket and no error.
Render(v) ==
  /\ mounted[v] = "mounted"
  /\ viewer[v] # (ui[v] # "error" /\ ref[v])
  /\ viewer' = Set(viewer, v, ~viewer[v])
  /\ UNCHANGED <<mounted, attemptVars, stateVars, lockVars, cookieVars, wireVars>>

\* The viewer reports an error: the terminal or RFB cannot start, RFB
\* disconnected, or one of the VNC viewer's timeouts fired.  RFB also hears the socket's own close event, so this can
\* follow CloseEvent before the next render.  A second report before the next
\* render would repeat the first and is left out.
ViewerFails(v) ==
  /\ viewer[v]
  /\ v \in FailingViews
  /\ kind[v] # "viewer"
  /\ ReportViewerError(v)
  /\ UNCHANGED pc

\* The cleanup effects of VmConsoleView and useConsoleSession: the transport
\* was switched, the VM stopped running, or the user navigated away.
Unmount(v) ==
  /\ mounted[v] = "mounted"
  /\ mounted' = Set(mounted, v, "gone")
  /\ viewer' = Set(viewer, v, FALSE)
  /\ pc' = IF pc[v] = "loading" THEN Set(pc, v, "idle") ELSE pc
  /\ sid' = Set(sid, v, sid[v] + 1)
  /\ ReleaseLock(v)
  /\ ref' = Set(ref, v, FALSE)
  /\ ui' = Set(ui, v, "disconnected")
  /\ kind' = Set(kind, v, "generic")
  /\ ClearConsoleTicketCookie
  /\ CloseSocket(v)
  /\ UNCHANGED <<asid, force, hasOpened, holder, robbed, cookie,
                 presented, spent, owner>>

-----------------------------------------------------------------------------
(* attemptConnect after its awaits.                                        *)

\* acquireConsoleClientLock resolved
AfterLock(v) ==
  /\ pc[v] \in {"granted", "refused"}
  /\ IF ~IsCurrentSession(v)
     THEN /\ releasing' = IF pc[v] = "granted" THEN releasing \cup {v} ELSE releasing
          /\ pc' = Set(pc, v, "idle")
          /\ UNCHANGED <<lockRef, ui, kind>>
     ELSE IF pc[v] = "refused"
     THEN /\ SetError(v, "siblingTabConflict")
          /\ pc' = Set(pc, v, "idle")
          /\ UNCHANGED <<lockRef, releasing>>
     ELSE /\ lockRef' = Set(lockRef, v, TRUE)
          /\ pc' = Set(pc, v, "minting")
          /\ UNCHANGED <<releasing, ui, kind>>
  /\ UNCHANGED <<viewVars, sid, asid, force, ref, hasOpened, holder, robbed,
                 cookieVars, wireVars>>

\* createSession resolved: open the WebSocket with the cookie of this moment
AfterMint(v) ==
  /\ pc[v] = "minted"
  /\ pc' = Set(pc, v, "idle")
  /\ IF IsCurrentSession(v)
     THEN /\ sock' = Set(sock, v, "handshake")
          /\ presented' = Set(presented, v, cookie)
          /\ ref' = Set(ref, v, TRUE)
          /\ hasOpened' = Set(hasOpened, v, FALSE)
     ELSE UNCHANGED <<sock, presented, ref, hasOpened>>
  /\ UNCHANGED <<viewVars, sid, asid, force, ui, kind, lockRef, lockVars,
                 cookieVars, spent, owner>>

\* createSession rejected
AfterMintFailed(v) ==
  /\ pc[v] = "mintFailed"
  /\ pc' = Set(pc, v, "idle")
  /\ IF IsCurrentSession(v)
     THEN /\ ReleaseLock(v)
          /\ ClearConsoleTicketCookie
          /\ SetError(v, "generic")
     ELSE UNCHANGED <<lockRef, releasing, clears, ui, kind>>
  /\ UNCHANGED <<viewVars, sid, asid, force, ref, hasOpened, holder, robbed,
                 cookie, wireVars>>

\* the socket's open listener
OpenEvent(v) ==
  /\ sock[v] = "accepted"
  /\ sock' = Set(sock, v, "open")
  /\ IF IsCurrentSession(v)
     THEN /\ hasOpened' = Set(hasOpened, v, TRUE)
          /\ ui' = Set(ui, v, "connected")
     ELSE UNCHANGED <<hasOpened, ui>>
  /\ UNCHANGED <<viewVars, attemptVars, kind, lockRef, ref, lockVars, cookieVars,
                 presented, spent, owner>>

\* the socket's close listener
CloseListener(v) ==
  IF IsCurrentSession(v)
  THEN /\ ref' = Set(ref, v, FALSE)
       /\ ClearConsoleTicketCookie
       /\ ReleaseLock(v)
       /\ SetError(v, IF hasOpened[v] THEN "generic" ELSE "possibleConflict")
  ELSE UNCHANGED <<ref, clears, releasing, lockRef, ui, kind>>

-----------------------------------------------------------------------------
(* The Web Locks of the browser.                                           *)

\* The lock manager processes a request.  A tab's own releases reach it in
\* order, so one made before the request is processed before it.
LockDecided(v) ==
  LET r == ResOf[v] IN
  /\ pc[v] = "lock"
  /\ \A u \in releasing : TabOf[u] # TabOf[v]
  /\ IF force[v] \/ holder[r] = Nobody
     THEN /\ pc' = Set(pc, v, "granted")
          /\ holder' = [holder EXCEPT ![r] = v]
          /\ robbed' = (robbed \cup {holder[r]}) \ {Nobody, v}
     ELSE /\ pc' = Set(pc, v, "refused")
          /\ UNCHANGED <<holder, robbed>>
  /\ UNCHANGED <<viewVars, sid, asid, force, stateVars, releasing, cookieVars, wireVars>>

\* It processes a release; releasing a lock that was stolen does nothing.
LockReleased(v) ==
  /\ v \in releasing
  /\ releasing' = releasing \ {v}
  /\ holder' = IF holder[ResOf[v]] = v THEN [holder EXCEPT ![ResOf[v]] = Nobody]
                                       ELSE holder
  /\ UNCHANGED <<viewVars, attemptVars, stateVars, robbed, cookieVars, wireVars>>

-----------------------------------------------------------------------------
(* The ticket cookie.                                                      *)

\* The Create response arrives: WrapConsoleSessionCreate moved its ticket into
\* the cookie, and the call is about to resolve.
TicketArrives(v) ==
  /\ pc[v] = "minting"
  /\ pc' = Set(pc, v, "minted")
  /\ cookie' = v
  /\ UNCHANGED <<viewVars, sid, asid, force, stateVars, lockVars, clears, wireVars>>

\* Create fails, or answers without a session: the response passes unchanged.
TicketRefused(v) ==
  /\ pc[v] = "minting"
  /\ pc' = Set(pc, v, "mintFailed")
  /\ UNCHANGED <<viewVars, sid, asid, force, stateVars, lockVars, cookieVars, wireVars>>

\* The expired cookie of the clear handler arrives, or its request was lost.
TicketCleared ==
  /\ clears > 0
  /\ clears' = clears - 1
  /\ cookie' \in {Nobody} \cup (IF LossyClears THEN {cookie} ELSE {})
  /\ UNCHANGED <<viewVars, attemptVars, stateVars, lockVars, wireVars>>

-----------------------------------------------------------------------------
(* console-proxy and the network.                                          *)

\* A handshake with a fresh ticket is admitted unless another client owns the
\* console; a session with the same client id (this browser) is evicted.
ProxyAdmits(v) ==
  LET t == presented[v]
      r == ResOf[t]
  IN
  /\ sock[v] = "handshake"
  /\ t \in Views \ spent
  /\ owner[r] \notin Foreigners
  /\ spent' = spent \cup {t}
  /\ owner' = [owner EXCEPT ![r] = v]
  /\ sock' = [u \in Views |->
                IF u = v THEN "accepted"
                ELSE IF u = owner[r] /\ sock[u] \in {"accepted", "open"} THEN "dropped"
                ELSE sock[u]]
  /\ UNCHANGED <<viewVars, attemptVars, stateVars, lockVars, cookieVars, presented>>

Disowned(v) == [r \in Resources |-> IF owner[r] = v THEN Nobody ELSE owner[r]]

\* The handshake is refused, or the connection is lost at any time.
ConnectionLost(v) ==
  /\ sock[v] \in Connected
  /\ sock' = Set(sock, v, "dropped")
  /\ owner' = Disowned(v)
  /\ UNCHANGED <<viewVars, attemptVars, stateVars, lockVars, cookieVars, presented, spent>>

\* A connection that ended, at either end, delivers its close event.
CloseEvent(v) ==
  /\ sock[v] \in {"dropped", "closing"}
  /\ sock' = Set(sock, v, "closed")
  /\ owner' = Disowned(v)
  /\ CloseListener(v)
  /\ UNCHANGED <<viewVars, attemptVars, hasOpened, holder, robbed, cookie,
                 presented, spent>>

\* The other client leaves the console.
ForeignLeaves(r) ==
  /\ owner[r] \in Foreigners
  /\ owner' = [owner EXCEPT ![r] = Nobody]
  /\ UNCHANGED <<viewVars, attemptVars, stateVars, lockVars, cookieVars,
                 sock, presented, spent>>

\* A tab is closed, reloaded or crashes: no cleanup runs, its callbacks never
\* run, the browser frees its locks and closes its sockets.
TabGone(t) ==
  LET In(v) == TabOf[v] = t
      Dead == {v \in Views : In(v) /\ mounted[v] # "new"}
  IN
  /\ \E v \in Dead : mounted[v] = "mounted"
  /\ mounted' = [v \in Views |-> IF v \in Dead THEN "gone" ELSE mounted[v]]
  /\ viewer' = [v \in Views |-> viewer[v] /\ v \notin Dead]
  /\ pc' = [v \in Views |-> IF v \in Dead THEN "idle" ELSE pc[v]]
  /\ sid' = [v \in Views |-> IF v \in Dead THEN sid[v] + 1 ELSE sid[v]]
  /\ ui' = [v \in Views |-> IF v \in Dead THEN "disconnected" ELSE ui[v]]
  /\ kind' = [v \in Views |-> IF v \in Dead THEN "generic" ELSE kind[v]]
  /\ lockRef' = [v \in Views |-> lockRef[v] /\ v \notin Dead]
  /\ ref' = [v \in Views |-> ref[v] /\ v \notin Dead]
  /\ holder' = [r \in Resources |-> IF holder[r] \in Dead THEN Nobody ELSE holder[r]]
  /\ releasing' = releasing \ Dead
  /\ sock' = [v \in Views |-> IF v \in Dead /\ sock[v] \in Connected
                              THEN "closing" ELSE sock[v]]
  /\ UNCHANGED <<asid, force, hasOpened, robbed, cookieVars, presented, spent, owner>>

-----------------------------------------------------------------------------
HookStep(v) ==
  \/ Mount(v) \/ ViewerLoaded(v) \/ TakeOver(v) \/ ViewerLoadFails(v)
  \/ Render(v) \/ ViewerFails(v) \/ Unmount(v)
  \/ AfterLock(v) \/ AfterMint(v) \/ AfterMintFailed(v) \/ OpenEvent(v)

EnvStep(v) ==
  \/ LockDecided(v) \/ LockReleased(v)
  \/ TicketArrives(v) \/ TicketRefused(v)
  \/ ProxyAdmits(v) \/ ConnectionLost(v) \/ CloseEvent(v)

Next ==
  \/ \E v \in Views : HookStep(v) \/ EnvStep(v)
  \/ TicketCleared
  \/ \E r \in Resources : ForeignLeaves(r)
  \/ \E t \in Closable : TabGone(t)

\* Promises are settled and events delivered; requests and handshakes are
\* answered or time out.  What the user does, a viewer failure, the loss of an
\* established connection and the foreign client are not forced.
Fairness ==
  \A v \in Views :
    /\ WF_vars(LockDecided(v)) /\ WF_vars(LockReleased(v)) /\ WF_vars(AfterLock(v))
    /\ WF_vars(TicketArrives(v) \/ TicketRefused(v))
    /\ WF_vars(AfterMint(v)) /\ WF_vars(AfterMintFailed(v))
    /\ WF_vars(ProxyAdmits(v) \/ (sock[v] = "handshake" /\ ConnectionLost(v)))
    /\ WF_vars(OpenEvent(v)) /\ WF_vars(CloseEvent(v))

Spec == Init /\ [][Next]_vars
FairSpec == Spec /\ Fairness

-----------------------------------------------------------------------------
(* Safety.                                                                 *)

\* A socket that is connecting or connected belongs to the current attempt of a
\* mounted view, which still refers to it: whatever await a view is left at,
\* no abandoned attempt leaves a server-side session behind (useConsoleSession
\* lines 100-104).
NoOrphanSocket ==
  \A v \in Views : sock[v] \in Connected =>
    /\ mounted[v] = "mounted"
    /\ ref[v]
    /\ IsCurrentSession(v)
    /\ ui[v] \in {"connecting", "connected"}

\* A held Web Lock has someone who will release it: the hook's lockRef, a
\* release under way, or an attempt about to look at the handle it was granted
\* (useConsoleSession lines 110-113 and 160-164).
NoOrphanLock ==
  \A v \in Views : holder[ResOf[v]] = v =>
    \/ lockRef[v]
    \/ v \in releasing
    \/ pc[v] = "granted"

\* When the UI says the console is not connected, the hook holds neither a
\* lock nor a socket, whichever callback came last (useConsoleSession 115-119).
IdleHoldsNothing ==
  \A v \in Views : ui[v] \in {"idle", "error", "disconnected"} =>
    ~lockRef[v] /\ ~ref[v]

\* A view keeps its resource's Web Lock for as long as its socket lives,
\* unless another view took the lock over; so two live sockets for one resource
\* always involve a take over (useConsoleSession lines 137-142).
LiveSocketIsLocked ==
  \A v \in Views : sock[v] \in Connected =>
    \/ v \in robbed
    \/ lockRef[v] /\ holder[ResOf[v]] = v

\* the ticket a view's handshake carried is one for the resource it shows
OwnTicket(v) == presented[v] \in Views /\ ResOf[presented[v]] = ResOf[v]

\* One session of this browser evicts another from console-proxy only after a
\* take over: one of the two had its lock stolen while it used or prepared its
\* connection.  (Provided each presented a ticket for its own resource; see
\* SocketIsForThisResource; console-websocket lines 35-44.)
EvictionFollowsTakeOver ==
  [][\A u, v \in Views :
       /\ ProxyAdmits(v)
       /\ OwnTicket(u) /\ OwnTicket(v)
       /\ sock[u] = "open" /\ sock'[u] = "dropped"
       => u \in robbed \/ v \in robbed]_vars

-----------------------------------------------------------------------------
(* The inductive strengthening: what each resting place of a view implies. *)

\* an attempt of the view is at one of its awaits
Underway == {"lock", "granted", "refused", "minting", "minted", "mintFailed"}
Minting  == {"minting", "minted", "mintFailed"}

\* A view that is not mounted owns nothing, and its callbacks are stale.
UnmountedInv(v) ==
  /\ mounted[v] = "new" =>
       pc[v] = "idle" /\ ui[v] = "idle" /\ v \notin releasing
  /\ mounted[v] = "gone" =>
       pc[v] # "loading" /\ ui[v] = "disconnected" /\ sid[v] # asid[v] /\ ~viewer[v]
  /\ ui[v] = "disconnected" => mounted[v] = "gone"

\* Before the first attempt, and while one is under way, there is no socket.
AttemptInv(v) ==
  /\ asid[v] <= sid[v]
  /\ pc[v] = "loading" => mounted[v] = "mounted" /\ ui[v] = "idle"
  /\ ui[v] = "idle" => sock[v] = "none" /\ pc[v] \in {"idle", "loading"} /\ v \notin releasing
  /\ pc[v] \in Underway => sock[v] = "none" /\ (IsCurrentSession(v) => ui[v] = "connecting")
  /\ pc[v] \in {"lock", "granted", "refused"} => v \notin releasing /\ ~lockRef[v]
  /\ ui[v] \in {"connecting", "connected"} =>
       /\ mounted[v] = "mounted"
       /\ IsCurrentSession(v)
       /\ pc[v] \in Underway \/ ref[v]
       /\ pc[v] \in Minting \/ ref[v] => lockRef[v]

\* A socket or a lock handle is there only between a granted lock and the end
\* of the connection.
ResourceInv(v) ==
  /\ sock[v] \in Connected => ref[v]
  /\ ref[v] => lockRef[v] /\ pc[v] = "idle" /\ sock[v] \in Connected \cup {"dropped"}
  /\ sock[v] \in {"dropped", "closing"} /\ IsCurrentSession(v) => ref[v]
  /\ lockRef[v] =>
       /\ ui[v] \in {"connecting", "connected"}
       /\ pc[v] \in Minting \/ ref[v]
       /\ v \notin releasing

\* A sibling-tab conflict is reported before anything was acquired.
ConflictInv(v) ==
  ui[v] = "error" /\ kind[v] = "siblingTabConflict" =>
    sock[v] = "none" /\ pc[v] = "idle" /\ v \notin releasing /\ ~viewer[v]

\* The viewer is in the tree only of a view that had a socket.
ViewerInv(v) ==
  viewer[v] => mounted[v] = "mounted" /\ sock[v] # "none"

\* The lock manager and the hooks agree on who holds a lock.
LockInv(v) ==
  /\ \A r \in Resources : holder[r] = v => r = ResOf[v]
  /\ holder[ResOf[v]] = v => lockRef[v] \/ v \in releasing \/ pc[v] = "granted"
  /\ (lockRef[v] \/ pc[v] = "granted") /\ v \notin robbed => holder[ResOf[v]] = v

\* console-proxy gives a view only the console its ticket names.
OwnerInv(v) ==
  \A r \in Resources :
    owner[r] = v =>
      sock[v] # "none" /\ presented[v] \in Views /\ r = ResOf[presented[v]]

ViewInv(v) ==
  /\ UnmountedInv(v) /\ AttemptInv(v) /\ ResourceInv(v)
  /\ ConflictInv(v) /\ ViewerInv(v) /\ LockInv(v) /\ OwnerInv(v)

\* What the proofs show to be inductive; the safety invariants follow from it.
IInv == TypeOK /\ \A v \in Views : ViewInv(v)

-----------------------------------------------------------------------------
(* The hook implements the lifecycle its caller relies on.                 *)

Offered == [v \in Views |-> ui[v] = "error" /\ kind[v] = "siblingTabConflict"]
Holding == [v \in Views |-> lockRef[v] \/ ref[v]]

Lifecycle == INSTANCE ConsoleLifecycle WITH
  phase <- ui, offered <- Offered, holding <- Holding

\* Every behaviour of views, browser and console-proxy looks to the rendering
\* component like the simple lifecycle of ConsoleLifecycle: no stale callback
\* revives a view that failed or was left, connected is reached only while
\* holding the lock, and a failure gives everything back.
ImplementsLifecycle == Lifecycle!LifeSpec

-----------------------------------------------------------------------------
(* Liveness, under FairSpec.                                               *)

\* No view shows "Connecting" for ever.
ConnectingSettles ==
  \A v \in Views : ui[v] = "connecting" ~> ui[v] # "connecting"

\* However a view ends - unmounted at any await, its tab closed, its lock
\* stolen - the lock it held becomes free for others.
GoneViewFreesLock ==
  \A v \in Views : mounted[v] = "gone" ~> holder[ResOf[v]] # v

-----------------------------------------------------------------------------
(* What the comments of the code say and the code does not do: each of these *)
(* is checked alone, by a run that expects a counterexample.               *)

\* useConsoleSession.ts:51: connect "creates a ticket and opens the WebSocket
\* for this resource".
SocketIsForThisResource ==
  \A v \in Views : sock[v] = "open" => OwnTicket(v)
=============================================================================
