----------------------- MODULE ConsoleSession_proofs -----------------------
(***************************************************************************)
(* Proofs about ConsoleSession for any number of views, tabs and           *)
(* resources: IInv is inductive, the safety invariants follow from it, and *)
(* the hook implements ConsoleLifecycle.                                   *)
(***************************************************************************)
EXTENDS ConsoleSession, TLAPS

\* the tuples that UNCHANGED names
USE DEF vars, viewVars, attemptVars, stateVars, lockVars, cookieVars, wireVars

-----------------------------------------------------------------------------
(* Type correctness.                                                       *)

\* The initial state has the declared types.
LEMMA InitTypeOK == Init => TypeOK
BY ViewsAssumption DEF Init, TypeOK, Steps, UiStates, Kinds, SocketStates

\* A step keeps the declared types.
LEMMA NextTypeOK == TypeOK /\ [Next]_vars => TypeOK'
<1> SUFFICES ASSUME TypeOK, [Next]_vars
             PROVE  TypeOK'
  OBVIOUS
<1> USE ViewsAssumption DEF TypeOK, Steps, UiStates, Kinds, SocketStates
<1>1. ASSUME NEW v \in Views, Mount(v) PROVE TypeOK'
  BY <1>1 DEF Mount, Set
<1>2. ASSUME NEW v \in Views, ViewerLoaded(v) PROVE TypeOK'
  BY <1>2 DEF ViewerLoaded, AttemptConnect, ReleaseLock, Set
<1>3. ASSUME NEW v \in Views, TakeOver(v) PROVE TypeOK'
  BY <1>3 DEF TakeOver, AttemptConnect, ReleaseLock, Set
<1>4. ASSUME NEW v \in Views, ViewerLoadFails(v) PROVE TypeOK'
  BY <1>4 DEF ViewerLoadFails, ReportViewerError, ReleaseLock, CloseSocket,
      ClearConsoleTicketCookie, SetError, Set
<1>5. ASSUME NEW v \in Views, Render(v) PROVE TypeOK'
  BY <1>5 DEF Render, Set
<1>6. ASSUME NEW v \in Views, ViewerFails(v) PROVE TypeOK'
  BY <1>6 DEF ViewerFails, ReportViewerError, ReleaseLock, CloseSocket,
      ClearConsoleTicketCookie, SetError, Set
<1>7. ASSUME NEW v \in Views, Unmount(v) PROVE TypeOK'
  BY <1>7 DEF Unmount, ReleaseLock, CloseSocket, ClearConsoleTicketCookie, Set
<1>8. ASSUME NEW v \in Views, AfterLock(v) PROVE TypeOK'
  <2>1. CASE ~IsCurrentSession(v)
    BY <1>8, <2>1 DEF AfterLock, Set
  <2>2. CASE IsCurrentSession(v) /\ pc[v] = "refused"
    BY <1>8, <2>2 DEF AfterLock, SetError, Set
  <2>3. CASE IsCurrentSession(v) /\ pc[v] # "refused"
    BY <1>8, <2>3 DEF AfterLock, Set
  <2> QED
    BY <2>1, <2>2, <2>3
<1>9. ASSUME NEW v \in Views, AfterMint(v) PROVE TypeOK'
  <2>1. CASE IsCurrentSession(v)
    <3>1. /\ pc' = Set(pc, v, "idle") /\ sock' = Set(sock, v, "handshake")
          /\ presented' = Set(presented, v, cookie)
          /\ ref' = Set(ref, v, TRUE) /\ hasOpened' = Set(hasOpened, v, FALSE)
      BY <1>9, <2>1 DEF AfterMint
    <3>2. UNCHANGED <<viewVars, sid, asid, force, ui, kind, lockRef, lockVars,
                      cookieVars, spent, owner>>
      BY <1>9 DEF AfterMint
    <3> QED
      BY <3>1, <3>2 DEF Set
  <2>2. CASE ~IsCurrentSession(v)
    BY <1>9, <2>2 DEF AfterMint, Set
  <2> QED
    BY <2>1, <2>2
<1>10. ASSUME NEW v \in Views, AfterMintFailed(v) PROVE TypeOK'
  <2>1. CASE IsCurrentSession(v)
    <3>1. /\ pc' = Set(pc, v, "idle") /\ ReleaseLock(v)
          /\ ClearConsoleTicketCookie /\ SetError(v, "generic")
      BY <1>10, <2>1 DEF AfterMintFailed
    <3>2. UNCHANGED <<viewVars, sid, asid, force, ref, hasOpened, holder, robbed,
                      cookie, wireVars>>
      BY <1>10 DEF AfterMintFailed
    <3> QED
      BY <3>1, <3>2 DEF ReleaseLock, ClearConsoleTicketCookie, SetError, Set
  <2>2. CASE ~IsCurrentSession(v)
    BY <1>10, <2>2 DEF AfterMintFailed, Set
  <2> QED
    BY <2>1, <2>2
<1>11. ASSUME NEW v \in Views, OpenEvent(v) PROVE TypeOK'
  BY <1>11 DEF OpenEvent, Set, IsCurrentSession
<1>12. ASSUME NEW v \in Views, LockDecided(v) PROVE TypeOK'
  BY <1>12 DEF LockDecided, Set
<1>13. ASSUME NEW v \in Views, LockReleased(v) PROVE TypeOK'
  BY <1>13 DEF LockReleased
<1>14. ASSUME NEW v \in Views, TicketArrives(v) PROVE TypeOK'
  BY <1>14 DEF TicketArrives, Set
<1>15. ASSUME NEW v \in Views, TicketRefused(v) PROVE TypeOK'
  BY <1>15 DEF TicketRefused, Set
<1>16. ASSUME NEW v \in Views, ProxyAdmits(v) PROVE TypeOK'
  BY <1>16 DEF ProxyAdmits
<1>17. ASSUME NEW v \in Views, ConnectionLost(v) PROVE TypeOK'
  BY <1>17 DEF ConnectionLost, Disowned, Set
<1>18. ASSUME NEW v \in Views, CloseEvent(v) PROVE TypeOK'
  <2>1. CASE IsCurrentSession(v)
    <3>1. /\ ref' = Set(ref, v, FALSE) /\ ClearConsoleTicketCookie /\ ReleaseLock(v)
          /\ \E k \in Kinds : SetError(v, k)
      BY <1>18, <2>1 DEF CloseEvent, CloseListener
    <3>2. sock' = Set(sock, v, "closed") /\ owner' = Disowned(v)
      BY <1>18 DEF CloseEvent
    <3>3. UNCHANGED <<viewVars, attemptVars, hasOpened, holder, robbed, cookie,
                      presented, spent>>
      BY <1>18 DEF CloseEvent
    <3> QED
      BY <3>1, <3>2, <3>3 DEF Disowned, ReleaseLock, ClearConsoleTicketCookie, SetError, Set
  <2>2. CASE ~IsCurrentSession(v)
    BY <1>18, <2>2 DEF CloseEvent, CloseListener, Disowned, Set
  <2> QED
    BY <2>1, <2>2
<1>19. ASSUME TicketCleared PROVE TypeOK'
  BY <1>19 DEF TicketCleared
<1>20. ASSUME NEW r \in Resources, ForeignLeaves(r) PROVE TypeOK'
  BY <1>20 DEF ForeignLeaves
<1>21. ASSUME NEW t \in Closable, TabGone(t) PROVE TypeOK'
  BY <1>21 DEF TabGone
<1>22. CASE UNCHANGED vars
  BY <1>22
<1> QED
  BY <1>1, <1>2, <1>3, <1>4, <1>5, <1>6, <1>7, <1>8, <1>9, <1>10, <1>11, <1>12, <1>13, <1>14, <1>15, <1>16, <1>17, <1>18, <1>19, <1>20, <1>21, <1>22
  DEF Next, HookStep, EnvStep

\* Every variable keeps its declared type.
THEOREM TypeCorrect == Spec => []TypeOK
BY InitTypeOK, NextTypeOK, PTL DEF Spec

-----------------------------------------------------------------------------
(* The inductive invariant.                                                *)

\* It holds initially.
LEMMA InitIInv == Init => IInv
<1> SUFFICES ASSUME Init, NEW v \in Views
             PROVE  ViewInv(v)
  BY InitTypeOK DEF IInv
<1> USE ViewsAssumption DEF Init
<1>1. UnmountedInv(v) /\ ConflictInv(v) /\ ViewerInv(v)
  BY DEF UnmountedInv, ConflictInv, ViewerInv
<1>2. AttemptInv(v)
  BY DEF AttemptInv, IsCurrentSession, Underway
<1>3. ResourceInv(v)
  BY DEF ResourceInv, Connected
<1>4. LockInv(v) /\ OwnerInv(v)
  BY DEF LockInv, OwnerInv
<1> QED
  BY <1>1, <1>2, <1>3, <1>4 DEF ViewInv

\* Every step keeps what it says of every view u, whichever view v takes it.
LEMMA NextIInv == IInv /\ [Next]_vars => IInv'
<1> SUFFICES ASSUME IInv, [Next]_vars, NEW u \in Views
             PROVE  ViewInv(u)'
  BY NextTypeOK DEF IInv
<1> USE ViewsAssumption DEF TypeOK, Steps, SocketStates, ViewInv, UnmountedInv,
    AttemptInv, ResourceInv, ConflictInv, ViewerInv, LockInv, OwnerInv, Underway, Minting,
    Connected, IsCurrentSession
<1>0. TypeOK /\ ViewInv(u) /\ \A v \in Views : ViewInv(v)
  BY DEF IInv
<1>1. ASSUME NEW v \in Views, Mount(v) PROVE ViewInv(u)'
  BY <1>0, <1>1 DEF Mount, Set
<1>2. ASSUME NEW v \in Views, ViewerLoaded(v) PROVE ViewInv(u)'
  BY <1>0, <1>2 DEF ViewerLoaded, AttemptConnect, ReleaseLock, Set
<1>3. ASSUME NEW v \in Views, TakeOver(v) PROVE ViewInv(u)'
  BY <1>0, <1>3 DEF TakeOver, AttemptConnect, ReleaseLock, Set
<1>4. ASSUME NEW v \in Views, ViewerLoadFails(v) PROVE ViewInv(u)'
  BY <1>0, <1>4 DEF ViewerLoadFails, ReportViewerError, ReleaseLock, CloseSocket,
      ClearConsoleTicketCookie, SetError, Set
<1>5. ASSUME NEW v \in Views, Render(v) PROVE ViewInv(u)'
  BY <1>0, <1>5 DEF Render, Set
<1>6. ASSUME NEW v \in Views, ViewerFails(v) PROVE ViewInv(u)'
  BY <1>0, <1>6 DEF ViewerFails, ReportViewerError, ReleaseLock, CloseSocket,
      ClearConsoleTicketCookie, SetError, Set
<1>7. ASSUME NEW v \in Views, Unmount(v) PROVE ViewInv(u)'
  BY <1>0, <1>7 DEF Unmount, ReleaseLock, CloseSocket, ClearConsoleTicketCookie, Set
<1>8. ASSUME NEW v \in Views, AfterLock(v) PROVE ViewInv(u)'
  BY <1>0, <1>8 DEF AfterLock, SetError, Set
<1>9. ASSUME NEW v \in Views, AfterMint(v) PROVE ViewInv(u)'
  <2>1. CASE u # v
    BY <1>0, <1>9, <2>1 DEF AfterMint, Set
  <2>2. CASE u = v
    <3>1. UNCHANGED <<mounted, viewer, sid, asid, ui, kind, lockRef, lockVars, owner>>
      BY <1>9 DEF AfterMint
    <3>2. pc'[v] = "idle" /\ pc[v] = "minted"
      BY <1>0, <1>9 DEF AfterMint, Set
    <3>3. CASE IsCurrentSession(v)
      <4>1. sock'[v] = "handshake" /\ ref'[v]
        BY <1>0, <1>9, <3>3 DEF AfterMint, Set
      <4>2. sock[v] = "none" /\ \A r \in Resources : owner[r] # v
        BY <1>0, <3>2
      <4> QED
        BY <1>0, <2>2, <3>1, <3>2, <3>3, <4>1, <4>2
    <3>4. CASE ~IsCurrentSession(v)
      BY <1>0, <1>9, <2>2, <3>1, <3>2, <3>4 DEF AfterMint, Set
    <3> QED
      BY <3>3, <3>4
  <2> QED
    BY <2>1, <2>2
<1>10. ASSUME NEW v \in Views, AfterMintFailed(v) PROVE ViewInv(u)'
  BY <1>0, <1>10 DEF AfterMintFailed, ReleaseLock, ClearConsoleTicketCookie, SetError,
      Set
<1>11. ASSUME NEW v \in Views, OpenEvent(v) PROVE ViewInv(u)'
  BY <1>0, <1>11 DEF OpenEvent, Set
<1>12. ASSUME NEW v \in Views, LockDecided(v) PROVE ViewInv(u)'
  BY <1>0, <1>12 DEF LockDecided, Set
<1>13. ASSUME NEW v \in Views, LockReleased(v) PROVE ViewInv(u)'
  BY <1>0, <1>13 DEF LockReleased
<1>14. ASSUME NEW v \in Views, TicketArrives(v) PROVE ViewInv(u)'
  BY <1>0, <1>14 DEF TicketArrives, Set
<1>15. ASSUME NEW v \in Views, TicketRefused(v) PROVE ViewInv(u)'
  BY <1>0, <1>15 DEF TicketRefused, Set
<1>16. ASSUME NEW v \in Views, ProxyAdmits(v) PROVE ViewInv(u)'
  BY <1>0, <1>16 DEF ProxyAdmits
<1>17. ASSUME NEW v \in Views, ConnectionLost(v) PROVE ViewInv(u)'
  BY <1>0, <1>17 DEF ConnectionLost, Disowned, Set
<1>18. ASSUME NEW v \in Views, CloseEvent(v) PROVE ViewInv(u)'
  BY <1>0, <1>18 DEF CloseEvent, CloseListener, Disowned, ReleaseLock,
      ClearConsoleTicketCookie, SetError, Set
<1>19. ASSUME TicketCleared PROVE ViewInv(u)'
  BY <1>0, <1>19 DEF TicketCleared
<1>20. ASSUME NEW r \in Resources, ForeignLeaves(r) PROVE ViewInv(u)'
  BY <1>0, <1>20 DEF ForeignLeaves
<1>21. ASSUME NEW t \in Closable, TabGone(t) PROVE ViewInv(u)'
  <2> DEFINE Dead == {v \in Views : TabOf[v] = t /\ mounted[v] # "new"}
  <2>1. /\ mounted' = [v \in Views |-> IF v \in Dead THEN "gone" ELSE mounted[v]]
        /\ viewer' = [v \in Views |-> viewer[v] /\ v \notin Dead]
        /\ pc' = [v \in Views |-> IF v \in Dead THEN "idle" ELSE pc[v]]
        /\ sid' = [v \in Views |-> IF v \in Dead THEN sid[v] + 1 ELSE sid[v]]
        /\ ui' = [v \in Views |-> IF v \in Dead THEN "disconnected" ELSE ui[v]]
        /\ kind' = [v \in Views |-> IF v \in Dead THEN "generic" ELSE kind[v]]
        /\ lockRef' = [v \in Views |-> lockRef[v] /\ v \notin Dead]
        /\ ref' = [v \in Views |-> ref[v] /\ v \notin Dead]
        /\ holder' = [r \in Resources |-> IF holder[r] \in Dead THEN Nobody ELSE holder[r]]
        /\ releasing' = releasing \ Dead
        /\ sock' = [v \in Views |-> IF v \in Dead /\ sock[v] \in Connected
                                    THEN "closing" ELSE sock[v]]
        /\ UNCHANGED <<asid, robbed, presented, owner>>
    BY <1>21 DEF TabGone
  <2>2. ResOf[u] \in Resources
    OBVIOUS
  <2> HIDE DEF TypeOK
  <2>3. /\ sid \in [Views -> Nat] /\ asid \in [Views -> Nat]
        /\ holder \in [Resources -> Views \cup {Nobody}]
        /\ lockRef \in [Views -> BOOLEAN] /\ ref \in [Views -> BOOLEAN]
        /\ viewer \in [Views -> BOOLEAN] /\ sock \in [Views -> SocketStates]
    BY <1>0 DEF TypeOK
  <2>4. CASE u \in Dead
    <3>1. /\ mounted'[u] = "gone" /\ ~viewer'[u] /\ pc'[u] = "idle"
          /\ sid'[u] = sid[u] + 1 /\ asid'[u] = asid[u] /\ ui'[u] = "disconnected"
          /\ ~lockRef'[u] /\ ~ref'[u] /\ u \notin releasing' /\ sock'[u] \notin Connected
      BY <2>1, <2>4
    <3>2. \A r \in Resources : holder'[r] # u
      BY <2>1, <2>3, <2>4
    <3>3. asid[u] <= sid[u] /\ asid[u] \in Nat /\ sid[u] \in Nat
      BY <1>0, <2>3
    <3>4. OwnerInv(u)'
      BY <1>0, <2>1, <2>3, <2>4
    <3> QED
      BY <2>2, <3>1, <3>2, <3>3, <3>4
  <2>5. CASE u \notin Dead
    <3>1. /\ mounted'[u] = mounted[u] /\ viewer'[u] = viewer[u] /\ pc'[u] = pc[u]
          /\ sid'[u] = sid[u] /\ asid'[u] = asid[u] /\ ui'[u] = ui[u] /\ kind'[u] = kind[u]
          /\ lockRef'[u] = lockRef[u] /\ ref'[u] = ref[u] /\ sock'[u] = sock[u]
          /\ (u \in releasing' <=> u \in releasing) /\ robbed' = robbed
      BY <2>1, <2>3, <2>5
    <3>2. \A r \in Resources : holder'[r] = u <=> holder[r] = u
      BY <2>1, <2>3, <2>5
    <3>3. OwnerInv(u)'
      BY <1>0, <2>1, <3>1
    <3> QED
      BY <1>0, <2>2, <3>1, <3>2, <3>3
  <2> QED
    BY <2>4, <2>5
<1>22. CASE UNCHANGED vars
  BY <1>0, <1>22
<1> QED
  BY <1>1, <1>2, <1>3, <1>4, <1>5, <1>6, <1>7, <1>8, <1>9, <1>10, <1>11, <1>12, <1>13, <1>14, <1>15, <1>16, <1>17, <1>18, <1>19, <1>20, <1>21, <1>22
  DEF Next, HookStep, EnvStep

-----------------------------------------------------------------------------
(* What follows from the invariant.                                        *)

\* IInv holds in every state.
THEOREM Inductive == Spec => []IInv
BY InitIInv, NextIInv, PTL DEF Spec

\* No abandoned attempt leaves a connecting or connected socket behind.
THEOREM NoOrphanSocketThm == Spec => []NoOrphanSocket
<1>1. IInv => NoOrphanSocket
  BY DEF IInv, ViewInv, UnmountedInv, AttemptInv, ResourceInv, NoOrphanSocket
<1> QED
  BY <1>1, Inductive, PTL

\* Every Web Lock that is held has someone who will release it.
THEOREM NoOrphanLockThm == Spec => []NoOrphanLock
<1>1. IInv => NoOrphanLock
  BY DEF IInv, ViewInv, LockInv, NoOrphanLock
<1> QED
  BY <1>1, Inductive, PTL

\* A view that shows no connection holds neither a lock nor a socket.
THEOREM IdleHoldsNothingThm == Spec => []IdleHoldsNothing
<1>1. IInv => IdleHoldsNothing
  BY DEF IInv, ViewInv, ResourceInv, IdleHoldsNothing
<1> QED
  BY <1>1, Inductive, PTL

\* A live socket's view holds the Web Lock of its resource, unless robbed of it.
THEOREM LiveSocketIsLockedThm == Spec => []LiveSocketIsLocked
<1>1. IInv => LiveSocketIsLocked
  BY DEF IInv, ViewInv, ResourceInv, LockInv, LiveSocketIsLocked
<1> QED
  BY <1>1, Inductive, PTL

\* One session of this browser evicts another only after one was robbed of its lock.
THEOREM EvictionFollowsTakeOverThm == Spec => EvictionFollowsTakeOver
<1>1. ASSUME IInv, NEW u \in Views, NEW v \in Views, ProxyAdmits(v),
             OwnTicket(u), OwnTicket(v), sock[u] = "open", sock'[u] = "dropped"
      PROVE  u \in robbed \/ v \in robbed
  <2> DEFINE r == ResOf[presented[v]]
  <2>1. TypeOK /\ ViewInv(u) /\ ViewInv(v)
    BY <1>1 DEF IInv
  <2>2. u # v /\ owner[r] = u
    BY <1>1, <2>1 DEF ProxyAdmits, TypeOK
  <2>3. r \in Resources /\ r = ResOf[v] /\ r = ResOf[u]
    BY <1>1, <2>1, <2>2, ViewsAssumption DEF OwnTicket, ViewInv, OwnerInv, Connected
  <2>4. sock[u] \in Connected /\ sock[v] \in Connected
    BY <1>1 DEF ProxyAdmits, Connected
  <2>5. \A w \in {u, v} : w \in robbed \/ holder[r] = w
    BY <2>1, <2>3, <2>4 DEF ViewInv, ResourceInv, LockInv
  <2> QED
    BY <2>2, <2>5
<1>2. IInv /\ [Next]_vars => [\A u, v \in Views :
       /\ ProxyAdmits(v)
       /\ OwnTicket(u) /\ OwnTicket(v)
       /\ sock[u] = "open" /\ sock'[u] = "dropped"
       => u \in robbed \/ v \in robbed]_vars
  BY <1>1
<1> QED
  BY <1>2, Inductive, PTL DEF Spec, EvictionFollowsTakeOver

-----------------------------------------------------------------------------
(* Refinement.                                                             *)

\* The initial state of the hooks is one of the lifecycle.
LEMMA InitLife == Init => Lifecycle!LifeInit
BY DEF Init, Lifecycle!LifeInit, Offered, Holding

\* What a step of one view makes of the lifecycle's variables.
LEMMA OneView ==
  ASSUME NEW v \in Views,
         \A u \in Views \ {v} : /\ (ui'[u] = ui[u]) /\ (kind'[u] = kind[u])
                                 /\ (lockRef'[u] <=> lockRef[u]) /\ (ref'[u] <=> ref[u])
  PROVE  /\ Offered[v] <=> ui[v] = "error" /\ kind[v] = "siblingTabConflict"
         /\ ui'[v] = "error" /\ kind'[v] = "siblingTabConflict"
              => Offered' = [Offered EXCEPT ![v] = TRUE]
         /\ ~(ui'[v] = "error" /\ kind'[v] = "siblingTabConflict")
              => Offered' = [Offered EXCEPT ![v] = FALSE]
         /\ Holding[v] <=> lockRef[v] \/ ref[v]
         /\ lockRef'[v] \/ ref'[v] => Holding' = [Holding EXCEPT ![v] = TRUE]
         /\ ~(lockRef'[v] \/ ref'[v]) => Holding' = [Holding EXCEPT ![v] = FALSE]
BY DEF Offered, Holding

\* Writing a function's value where it already is changes nothing.
LEMMA SameExcept ==
  /\ \A v \in Views : Offered[v] => [Offered EXCEPT ![v] = TRUE] = Offered
  /\ \A v \in Views : ~Offered[v] => [Offered EXCEPT ![v] = FALSE] = Offered
  /\ \A v \in Views : Holding[v] => [Holding EXCEPT ![v] = TRUE] = Holding
  /\ \A v \in Views : ~Holding[v] => [Holding EXCEPT ![v] = FALSE] = Holding
BY DEF Offered, Holding

\* Every step is one of the lifecycle or leaves what it shows unchanged.
LEMMA StepLife == IInv /\ [Next]_vars => [Lifecycle!LifeNext]_Lifecycle!lifeVars
<1> SUFFICES ASSUME IInv, [Next]_vars
             PROVE  Lifecycle!LifeNext \/ UNCHANGED Lifecycle!lifeVars
  OBVIOUS
<1>0. TypeOK /\ \A v \in Views : ViewInv(v)
  BY DEF IInv
<1>1. ASSUME UNCHANGED <<ui, kind, lockRef, ref>> PROVE UNCHANGED Lifecycle!lifeVars
  BY <1>1 DEF Lifecycle!lifeVars, Offered, Holding
<1>2. ASSUME NEW v \in Views, ViewerLoaded(v) \/ TakeOver(v)
      PROVE  Lifecycle!Connect(v)
  <2>1. \A u \in Views \ {v} : /\ (ui'[u] = ui[u]) /\ (kind'[u] = kind[u])
                             /\ (lockRef'[u] <=> lockRef[u]) /\ (ref'[u] <=> ref[u])
    BY <1>0, <1>2 DEF ViewerLoaded, TakeOver, AttemptConnect, ReleaseLock, Set, TypeOK
  <2>2. ViewInv(v) /\ TypeOK
    BY <1>0
  <2>3. ui' = [ui EXCEPT ![v] = "connecting"] /\ ui'[v] = "connecting"
        /\ ~lockRef'[v] /\ ref'[v] = ref[v]
    BY <1>2, <2>2 DEF ViewerLoaded, TakeOver, AttemptConnect, ReleaseLock, Set, TypeOK, ViewInv, Connected
  <2>4. ~lockRef[v] /\ ~ref[v]
        /\ (ui[v] = "idle" \/ (ui[v] = "error" /\ kind[v] = "siblingTabConflict"))
    BY <1>2, <2>2 DEF ViewerLoaded, TakeOver, AttemptConnect, ReleaseLock, Set, TypeOK, ViewInv, UnmountedInv, AttemptInv,
      ResourceInv, ConflictInv, ViewerInv, Underway, Minting, Connected, IsCurrentSession
  <2> QED
    BY <2>1, <2>3, <2>4, OneView, SameExcept DEF Lifecycle!Connect
<1>3. ASSUME NEW v \in Views, ViewerLoadFails(v)
      PROVE  Lifecycle!Fail(v)
  <2>1. \A u \in Views \ {v} : /\ (ui'[u] = ui[u]) /\ (kind'[u] = kind[u])
                             /\ (lockRef'[u] <=> lockRef[u]) /\ (ref'[u] <=> ref[u])
    BY <1>0, <1>3 DEF ViewerLoadFails, ReportViewerError, ReleaseLock, SetError, Set, TypeOK
  <2>2. ViewInv(v) /\ TypeOK
    BY <1>0
  <2>3. ui' = [ui EXCEPT ![v] = "error"] /\ kind'[v] = "viewer"
        /\ ~lockRef'[v] /\ ~ref'[v]
    BY <1>3, <2>2 DEF ViewerLoadFails, ReportViewerError, ReleaseLock, SetError, Set, TypeOK, ViewInv, Connected
  <2>4. ui[v] = "idle"
    BY <1>3, <2>2 DEF ViewerLoadFails, TypeOK, ViewInv, UnmountedInv, AttemptInv,
      ResourceInv, ConflictInv, ViewerInv, Underway, Minting, Connected, IsCurrentSession
  <2> QED
    BY <2>1, <2>3, <2>4, OneView, SameExcept DEF Lifecycle!Fail
<1>4. ASSUME NEW v \in Views, ViewerFails(v)
      PROVE  Lifecycle!Fail(v) \/ UNCHANGED Lifecycle!lifeVars
  <2>1. \A u \in Views \ {v} : /\ (ui'[u] = ui[u]) /\ (kind'[u] = kind[u])
                             /\ (lockRef'[u] <=> lockRef[u]) /\ (ref'[u] <=> ref[u])
    BY <1>0, <1>4 DEF ViewerFails, ReportViewerError, ReleaseLock, SetError, Set, TypeOK
  <2>2. ViewInv(v) /\ TypeOK
    BY <1>0
  <2>3. ui' = [ui EXCEPT ![v] = "error"] /\ ui'[v] = "error" /\ kind'[v] = "viewer"
        /\ ~lockRef'[v] /\ ~ref'[v]
    BY <1>4, <2>2 DEF ViewerFails, ReportViewerError, ReleaseLock, SetError, Set, TypeOK, ViewInv, Connected
  <2>4. \/ ui[v] \in {"connecting", "connected"} /\ (lockRef[v] \/ ref[v])
        \/ ui[v] = "error" /\ kind[v] # "siblingTabConflict" /\ ~lockRef[v] /\ ~ref[v] /\ ui' = ui
    BY <1>4, <2>2 DEF ViewerFails, ReportViewerError, ReleaseLock, SetError, Set, TypeOK, ViewInv, UnmountedInv, AttemptInv,
      ResourceInv, ConflictInv, ViewerInv, Underway, Minting, Connected, IsCurrentSession, UiStates
  <2>5. ui[v] # "error" => kind'[v] # "siblingTabConflict"
    BY <1>4, <2>2 DEF ViewerFails, ReportViewerError, ReleaseLock, SetError, Set, TypeOK, ViewInv, Connected
  <2> QED
    BY <2>1, <2>3, <2>4, <2>5, OneView, SameExcept DEF Lifecycle!Fail, Lifecycle!Trying, Lifecycle!lifeVars
<1>6. ASSUME NEW v \in Views, AfterLock(v)
      PROVE  Lifecycle!Claim(v) \/ Lifecycle!Refuse(v) \/ UNCHANGED Lifecycle!lifeVars
  <2>1. \A u \in Views \ {v} : /\ (ui'[u] = ui[u]) /\ (kind'[u] = kind[u])
                             /\ (lockRef'[u] <=> lockRef[u]) /\ (ref'[u] <=> ref[u])
    BY <1>0, <1>6 DEF AfterLock, SetError, Set, TypeOK
  <2>2. ViewInv(v) /\ TypeOK
    BY <1>0
  <2>3. \/ UNCHANGED <<ui, kind, lockRef, ref>>
        \/ /\ ui[v] = "connecting" /\ ~lockRef[v] /\ ~ref[v] /\ UNCHANGED <<lockRef, ref>>
           /\ ui' = [ui EXCEPT ![v] = "error"] /\ ui'[v] = "error"
           /\ kind'[v] = "siblingTabConflict"
        \/ /\ ui[v] = "connecting" /\ ~lockRef[v] /\ ~ref[v] /\ UNCHANGED <<ui, kind, ref>>
           /\ lockRef'[v]
    BY <1>6, <2>2 DEF AfterLock, SetError, Set, TypeOK, ViewInv, UnmountedInv, AttemptInv,
      ResourceInv, ConflictInv, ViewerInv, Underway, Minting, Connected, IsCurrentSession
  <2> QED
    BY <2>1, <2>3, OneView, SameExcept DEF Lifecycle!Claim, Lifecycle!Refuse, Lifecycle!lifeVars, Offered, Holding
<1>7. ASSUME NEW v \in Views, AfterMint(v)
      PROVE  UNCHANGED Lifecycle!lifeVars
  <2>1. \A u \in Views \ {v} : /\ (ui'[u] = ui[u]) /\ (kind'[u] = kind[u])
                             /\ (lockRef'[u] <=> lockRef[u]) /\ (ref'[u] <=> ref[u])
    BY <1>0, <1>7 DEF AfterMint, Set, TypeOK
  <2>2. ViewInv(v) /\ TypeOK
    BY <1>0
  <2>3. UNCHANGED <<ui, kind, lockRef>> /\ (UNCHANGED ref \/ lockRef[v])
    BY <1>7, <2>2 DEF AfterMint, Set, TypeOK, ViewInv, UnmountedInv, AttemptInv,
      ResourceInv, ConflictInv, ViewerInv, Underway, Minting, Connected, IsCurrentSession
  <2> QED
    BY <2>1, <2>3, OneView, SameExcept DEF Lifecycle!lifeVars, Offered, Holding
<1>8. ASSUME NEW v \in Views, AfterMintFailed(v)
      PROVE  Lifecycle!Fail(v) \/ UNCHANGED Lifecycle!lifeVars
  <2>1. \A u \in Views \ {v} : /\ (ui'[u] = ui[u]) /\ (kind'[u] = kind[u])
                             /\ (lockRef'[u] <=> lockRef[u]) /\ (ref'[u] <=> ref[u])
    BY <1>0, <1>8 DEF AfterMintFailed, ReleaseLock, SetError, Set, TypeOK
  <2>2. ViewInv(v) /\ TypeOK
    BY <1>0
  <2>3. \/ UNCHANGED <<ui, kind, lockRef, ref>>
        \/ /\ ui[v] = "connecting" /\ (lockRef[v] \/ ref[v]) /\ ~lockRef'[v] /\ ~ref'[v]
           /\ ui' = [ui EXCEPT ![v] = "error"] /\ kind'[v] = "generic"
    BY <1>8, <2>2 DEF AfterMintFailed, ReleaseLock, SetError, Set, TypeOK, ViewInv, UnmountedInv, AttemptInv,
      ResourceInv, ConflictInv, ViewerInv, Underway, Minting, Connected, IsCurrentSession
  <2> QED
    BY <2>1, <2>3, OneView, SameExcept DEF Lifecycle!Fail, Lifecycle!Trying, Lifecycle!lifeVars, Offered, Holding
<1>9. ASSUME NEW v \in Views, OpenEvent(v)
      PROVE  Lifecycle!Establish(v) \/ UNCHANGED Lifecycle!lifeVars
  <2>1. \A u \in Views \ {v} : /\ (ui'[u] = ui[u]) /\ (kind'[u] = kind[u])
                             /\ (lockRef'[u] <=> lockRef[u]) /\ (ref'[u] <=> ref[u])
    BY <1>0, <1>9 DEF OpenEvent, Set, TypeOK
  <2>2. ViewInv(v) /\ TypeOK
    BY <1>0
  <2>3. /\ UNCHANGED <<kind, lockRef, ref>>
        /\ \/ UNCHANGED ui
           \/ /\ ui[v] = "connecting" /\ lockRef[v]
              /\ ui' = [ui EXCEPT ![v] = "connected"] /\ ui'[v] = "connected"
    BY <1>9, <2>2 DEF OpenEvent, Set, TypeOK, ViewInv, UnmountedInv, AttemptInv,
      ResourceInv, ConflictInv, ViewerInv, Underway, Minting, Connected, IsCurrentSession
  <2> QED
    BY <2>1, <2>3, OneView, SameExcept DEF Lifecycle!Establish, Lifecycle!lifeVars, Offered, Holding
<1>10. ASSUME NEW v \in Views, CloseEvent(v)
      PROVE  Lifecycle!Fail(v) \/ UNCHANGED Lifecycle!lifeVars
  <2>1. \A u \in Views \ {v} : /\ (ui'[u] = ui[u]) /\ (kind'[u] = kind[u])
                             /\ (lockRef'[u] <=> lockRef[u]) /\ (ref'[u] <=> ref[u])
    BY <1>0, <1>10 DEF CloseEvent, CloseListener, ReleaseLock, SetError, Set, TypeOK
  <2>2. ViewInv(v) /\ TypeOK
    BY <1>0
  <2>3. \/ UNCHANGED <<ui, kind, lockRef, ref>>
        \/ /\ ui[v] \in {"connecting", "connected"} /\ lockRef[v] /\ ~lockRef'[v] /\ ~ref'[v]
           /\ ui' = [ui EXCEPT ![v] = "error"] /\ kind'[v] # "siblingTabConflict"
    BY <1>10, <2>2 DEF CloseEvent, CloseListener, ReleaseLock, SetError, Set, TypeOK, ViewInv, UnmountedInv, AttemptInv,
      ResourceInv, ConflictInv, ViewerInv, Underway, Minting, Connected, IsCurrentSession
  <2> QED
    BY <2>1, <2>3, OneView, SameExcept DEF Lifecycle!Fail, Lifecycle!Trying, Lifecycle!lifeVars, Offered, Holding
<1>5. ASSUME NEW v \in Views, Unmount(v) PROVE Lifecycle!Leave({v})
  <2>1. /\ ui' = [ui EXCEPT ![v] = "disconnected"] /\ kind' = [kind EXCEPT ![v] = "generic"]
        /\ lockRef' = [lockRef EXCEPT ![v] = FALSE] /\ ref' = [ref EXCEPT ![v] = FALSE]
    BY <1>5 DEF Unmount, ReleaseLock, Set
  <2>2. ui' = [u \in Views |-> IF u \in {v} THEN "disconnected" ELSE ui[u]]
    BY <1>0, <2>1 DEF TypeOK
  <2>3. Offered' = [u \in Views |-> Offered[u] /\ u \notin {v}]
    BY <1>0, <2>1 DEF TypeOK, Offered
  <2>4. Holding' = [u \in Views |-> Holding[u] /\ u \notin {v}]
    BY <1>0, <2>1 DEF TypeOK, Holding
  <2> QED
    BY <2>2, <2>3, <2>4 DEF Lifecycle!Leave
<1>11. ASSUME NEW t \in Closable, TabGone(t) PROVE \E S \in SUBSET Views : Lifecycle!Leave(S)
  <2> DEFINE Dead == {v \in Views : TabOf[v] = t /\ mounted[v] # "new"}
  <2>1. /\ ui' = [v \in Views |-> IF v \in Dead THEN "disconnected" ELSE ui[v]]
        /\ kind' = [v \in Views |-> IF v \in Dead THEN "generic" ELSE kind[v]]
        /\ lockRef' = [v \in Views |-> lockRef[v] /\ v \notin Dead]
        /\ ref' = [v \in Views |-> ref[v] /\ v \notin Dead]
    BY <1>11 DEF TabGone
  <2> HIDE DEF Dead
  <2>2. Offered' = [u \in Views |-> Offered[u] /\ u \notin Dead]
    BY <2>1 DEF Offered
  <2>3. Holding' = [u \in Views |-> Holding[u] /\ u \notin Dead]
    BY <2>1 DEF Holding
  <2>4. Lifecycle!Leave(Dead)
    BY <2>1, <2>2, <2>3 DEF Lifecycle!Leave
  <2>5. Dead \in SUBSET Views
    BY DEF Dead
  <2> QED
    BY <2>4, <2>5
<1>12. CASE \E v \in Views : HookStep(v)
  BY <1>1, <1>2, <1>3, <1>4, <1>5, <1>6, <1>7, <1>8, <1>9, <1>12
  DEF HookStep, Mount, Render, Lifecycle!LifeNext
<1>13. CASE \E v \in Views : EnvStep(v)
  BY <1>1, <1>10, <1>13 DEF EnvStep, LockDecided, LockReleased, TicketArrives,
    TicketRefused, ProxyAdmits, ConnectionLost, Lifecycle!LifeNext
<1>14. CASE TicketCleared \/ \E r \in Resources : ForeignLeaves(r)
  BY <1>1, <1>14 DEF TicketCleared, ForeignLeaves
<1>15. CASE \E t \in Closable : TabGone(t)
  BY <1>11, <1>15 DEF Lifecycle!LifeNext
<1>16. CASE UNCHANGED vars
  BY <1>1, <1>16
<1> QED
  BY <1>12, <1>13, <1>14, <1>15, <1>16 DEF Next

\* The hook implements the lifecycle that the rendering component relies on.
THEOREM Refinement == Spec => ImplementsLifecycle
BY InitLife, StepLife, Inductive, PTL DEF Spec, ImplementsLifecycle, Lifecycle!LifeSpec
=============================================================================
