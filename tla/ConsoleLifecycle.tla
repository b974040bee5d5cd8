-------------------------- MODULE ConsoleLifecycle --------------------------
(***************************************************************************)
(* What useConsoleSession promises to the component that renders it,       *)
(* without locks, tickets, sockets or stale callbacks: the states a        *)
(* console shows, when a take over is offered, and that nothing is held    *)
(* of the browser or the server while it shows no connection.              *)
(***************************************************************************)
CONSTANT Views

VARIABLES
  phase,     \* connectionState
  offered,   \* is "Take over" offered
  holding    \* does the view hold a lock or a socket

lifeVars == <<phase, offered, holding>>

Phases == {"idle", "connecting", "connected", "error", "disconnected"}
Trying == {"connecting", "connected"}

LifeTypeOK ==
  /\ phase \in [Views -> Phases]
  /\ offered \in [Views -> BOOLEAN]
  /\ holding \in [Views -> BOOLEAN]

LifeInit ==
  /\ phase = [v \in Views |-> "idle"]
  /\ offered = [v \in Views |-> FALSE]
  /\ holding = [v \in Views |-> FALSE]

\* A view connects once by itself, and again only when it is offered to take over.
Connect(v) ==
  /\ phase[v] = "idle" \/ (phase[v] = "error" /\ offered[v])
  /\ phase' = [phase EXCEPT ![v] = "connecting"]
  /\ offered' = [offered EXCEPT ![v] = FALSE]
  /\ UNCHANGED holding

\* The resource is free for this view.
Claim(v) ==
  /\ phase[v] = "connecting" /\ ~holding[v]
  /\ holding' = [holding EXCEPT ![v] = TRUE]
  /\ UNCHANGED <<phase, offered>>

\* It is not: the only failure that offers a take over.
Refuse(v) ==
  /\ phase[v] = "connecting" /\ ~holding[v]
  /\ phase' = [phase EXCEPT ![v] = "error"]
  /\ offered' = [offered EXCEPT ![v] = TRUE]
  /\ UNCHANGED holding

Establish(v) ==
  /\ phase[v] = "connecting" /\ holding[v]
  /\ phase' = [phase EXCEPT ![v] = "connected"]
  /\ UNCHANGED <<offered, holding>>

\* Any other failure gives everything back and is final for this view.
Fail(v) ==
  /\ phase[v] = "idle" \/ (phase[v] \in Trying /\ holding[v])
  /\ phase' = [phase EXCEPT ![v] = "error"]
  /\ holding' = [holding EXCEPT ![v] = FALSE]
  /\ UNCHANGED offered

\* Views that are left (together, when their tab goes) never come back.
Leave(S) ==
  /\ phase' = [v \in Views |-> IF v \in S THEN "disconnected" ELSE phase[v]]
  /\ offered' = [v \in Views |-> offered[v] /\ v \notin S]
  /\ holding' = [v \in Views |-> holding[v] /\ v \notin S]

LifeNext ==
  \/ \E v \in Views :
       Connect(v) \/ Claim(v) \/ Refuse(v) \/ Establish(v) \/ Fail(v)
  \/ \E S \in SUBSET Views : Leave(S)

LifeSpec == LifeInit /\ [][LifeNext]_lifeVars
=============================================================================
