----------------------------- MODULE VncViewer -----------------------------
(***************************************************************************)
(* The graphical console's viewer: one run of its effect for every web     *)
(* socket that the console view hands it.  A run loads noVNC, waits until  *)
(* the viewport has a size, opens a session on the socket, and tells the   *)
(* view that it is connected, or what went wrong.  Two timers, the         *)
(* session's events, resizes and the load race with each other and with    *)
(* the view, which may take the socket away at any time; the load of a run *)
(* that is over is not cancelled.                                          *)
(***************************************************************************)
EXTENDS Naturals

CONSTANT MaxSockets  \* sockets that the view ever hands over (a bound)

VARIABLES
  run,      \* the socket whose effect runs, or 0
  last,     \* the latest socket that was handed over
  sized,    \* has the viewport a size
  loading,  \* the runs that wait for noVNC: their initInFlight
  timer,    \* the run's timer that is set
  session,  \* the session on each socket
  rfb,      \* rfbRef: the socket of the session in use, or 0
  told      \* what the view was told last since it handed over the socket

Sockets == 1..MaxSockets

vars == <<run, last, sized, loading, timer, session, rfb, told>>

TypeOK ==
  /\ run \in Sockets \cup {0}
  /\ last \in Sockets \cup {0}
  /\ sized \in BOOLEAN
  /\ loading \subseteq Sockets
  /\ timer \in {"none", "init", "connect"}
  /\ session \in [Sockets -> {"none", "opening", "connected", "closed"}]
  /\ rfb \in Sockets \cup {0}
  /\ told \in {"nothing", "connected", "error"}

Init ==
  /\ run = 0 /\ last = 0
  /\ sized = FALSE
  /\ loading = {}
  /\ timer = "none"
  /\ session = [s \in Sockets |-> "none"]
  /\ rfb = 0
  /\ told = "nothing"

-----------------------------------------------------------------------------
(* the runs of the effect *)

\* initRfb up to its await, with the viewport's size z
StartsLoading(s, z) ==
  loading' = IF s # 0 /\ z /\ rfb = 0 THEN loading \cup {s} ELSE loading

Mount(s) ==
  /\ run = 0 /\ s = last + 1
  /\ run' = s /\ last' = s
  /\ timer' = "init"
  /\ StartsLoading(s, sized)
  /\ told' = "nothing"
  /\ UNCHANGED <<sized, session, rfb>>

\* the effect's cleanup: the socket is replaced, or the viewer unmounted
Unmount ==
  /\ run # 0
  /\ run' = 0
  /\ timer' = "none"
  /\ session' = [s \in Sockets |-> IF s = rfb THEN "closed" ELSE session[s]]
  /\ rfb' = 0
  /\ told' = "nothing"
  /\ UNCHANGED <<last, sized, loading>>

\* the ResizeObserver
Resize ==
  /\ sized' = ~ sized
  /\ StartsLoading(run, sized')
  /\ UNCHANGED <<run, last, timer, session, rfb, told>>

-----------------------------------------------------------------------------
(* noVNC is there, or could not be loaded.                                 *)
(*                                                                         *)
(* Definitions named Fault... are no part of the specification: each is    *)
(* the definition after it with one plausible mistake, which a property    *)
(* must notice.                                                            *)

\* the run is not asked whether it is still mounted
FaultUsable(s) == rfb = 0 /\ sized

\* the conditions are tested again after the await
Usable(s) == run = s /\ rfb = 0 /\ sized

\* the init timer is cleared before the conditions are tested again
FaultLoaded(s) ==
  /\ s \in loading
  /\ loading' = loading \ {s}
  /\ timer' = IF Usable(s) THEN "connect" ELSE IF run = s THEN "none" ELSE timer
  /\ IF Usable(s) THEN session' = [session EXCEPT ![s] = "opening"] /\ rfb' = s
                  ELSE UNCHANGED <<session, rfb>>
  /\ UNCHANGED <<run, last, sized, told>>

Loaded(s) ==
  /\ s \in loading
  /\ loading' = loading \ {s}
  /\ IF Usable(s)
     THEN /\ timer' = "connect"
          /\ session' = [session EXCEPT ![s] = "opening"]
          /\ rfb' = s
     ELSE UNCHANGED <<timer, session, rfb>>
  /\ UNCHANGED <<run, last, sized, told>>

\* the load failed, or the constructor threw: told to the view by a run that
\* is mounted
LoadFailed(s) ==
  /\ s \in loading
  /\ loading' = loading \ {s}
  /\ IF run = s THEN timer' = "none" /\ told' = "error"
                ELSE UNCHANGED <<timer, told>>
  /\ UNCHANGED <<run, last, sized, session, rfb>>

-----------------------------------------------------------------------------
(* the timers and the session's events *)

\* no size within 30 s, or no connection 30 s after that
Timeout ==
  /\ timer # "none"
  /\ timer' = "none"
  /\ told' = "error"
  /\ UNCHANGED <<run, last, sized, loading, session, rfb>>

\* the connect timer goes on
FaultConnected(s) ==
  /\ session[s] = "opening"
  /\ session' = [session EXCEPT ![s] = "connected"]
  /\ told' = "connected"
  /\ UNCHANGED <<run, last, sized, loading, timer, rfb>>

\* also after the connect timer has fired
Connected(s) ==
  /\ session[s] = "opening"
  /\ session' = [session EXCEPT ![s] = "connected"]
  /\ timer' = "none"
  /\ told' = "connected"
  /\ UNCHANGED <<run, last, sized, loading, rfb>>

Disconnected(s) ==
  /\ session[s] \in {"opening", "connected"}
  /\ session' = [session EXCEPT ![s] = "closed"]
  /\ timer' = "none"
  /\ told' = "error"
  /\ UNCHANGED <<run, last, sized, loading, rfb>>

Next ==
  \/ Unmount \/ Resize \/ Timeout
  \/ \E s \in Sockets : \/ Mount(s) \/ Loaded(s) \/ LoadFailed(s)
                        \/ Connected(s) \/ Disconnected(s)

Spec == Init /\ [][Next]_vars

\* Timers fire; nobody promises that noVNC loads, that the viewport gets a
\* size, or that the other end of the socket answers.
FairSpec == Spec /\ WF_vars(Timeout)

-----------------------------------------------------------------------------
(* Properties                                                              *)

\* Only the mounted run has an open session, and the view is told of this
\* session alone: neither a timer that it made obsolete nor the late load of
\* an earlier run makes the view, which stops on an error, drop it.
SpeaksForItsSession ==
  /\ \A s \in Sockets : session[s] \in {"opening", "connected"} => s = run
  /\ run = 0 => told = "nothing"
  /\ told = "connected" <=> run # 0 /\ session[run] = "connected"
  /\ told = "error" => timer # "init"

\* The view never waits for ever for a viewer that is there: it is told that
\* the session is connected, or why it is not.
MountedSettles == run # 0 ~> told # "nothing" \/ run = 0
=============================================================================
