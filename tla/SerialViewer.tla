---------------------------- MODULE SerialViewer ----------------------------
(***************************************************************************)
(* The serial console's view on one web socket.  It loads xterm before it  *)
(* asks for the socket, so that its viewer, which mounts once the socket   *)
(* is there, finds xterm in the module cache and can listen at once.       *)
(* Every frame that arrives is put on a queue of promises, because turning *)
(* a Blob into bytes takes time and may fail; a queued frame keeps the     *)
(* terminal it was meant for, also when that is disposed meanwhile.        *)
(***************************************************************************)
EXTENDS Naturals, Sequences

CONSTANT MaxFrames  \* frames that the guest sends (a bound)

VARIABLES
  xterm,     \* the module cache
  mounted,   \* is the view there
  socket,    \* not asked for, asked for, and its readyState
  terminal,  \* none, then the viewer's init, open with the add-on, disposed
  shown,     \* what the view shows
  frames,    \* the queue: the stage of every frame that the add-on took
  arrived,   \* frames that the guest has sent
  output,    \* what was written to the terminal
  raced      \* history: xterm was there, and yet the handshake was answered
             \* before the browser had run the viewer's mount and its init

vars == <<xterm, mounted, socket, terminal, shown, frames, arrived, output, raced>>

\* A string or a buffer is written at once, a Blob after its conversion.
Stages == {"direct", "blob", "converting", "written", "dropped"}
Settled == {"written", "dropped"}

TypeOK ==
  /\ xterm \in {"loading", "loaded", "failed"}
  /\ mounted \in BOOLEAN
  /\ socket \in {"none", "requested", "connecting", "open", "closed"}
  /\ terminal \in {"none", "starting", "open", "disposed"}
  /\ shown \in {"connecting", "connected", "error"}
  /\ frames \in Seq(Stages)
  /\ arrived \in Nat
  /\ output \in Seq(Nat)
  /\ raced \in BOOLEAN

\* An earlier view may have left xterm in the cache.
Init ==
  /\ xterm \in {"loading", "loaded"}
  /\ mounted = TRUE
  /\ socket = "none" /\ terminal = "none"
  /\ shown = "connecting"
  /\ frames = <<>> /\ arrived = 0
  /\ output = <<>>
  /\ raced = FALSE

-----------------------------------------------------------------------------
(* The view.                                                               *)
(*                                                                         *)
(* Definitions named Fault... are no part of the specification: each is    *)
(* the definition after it with one plausible mistake, which a property    *)
(* must notice.                                                            *)

XtermLoads ==
  /\ xterm = "loading"
  /\ xterm' = "loaded"
  /\ UNCHANGED <<mounted, socket, terminal, shown, frames, arrived, output, raced>>

\* The view that waits for it never connects.
XtermFails ==
  /\ xterm = "loading"
  /\ xterm' = "failed"
  /\ shown' = IF mounted THEN "error" ELSE shown
  /\ UNCHANGED <<mounted, socket, terminal, frames, arrived, output, raced>>

\* connects at once, and lets the viewer load xterm
FaultLoadThenConnect ==
  /\ mounted /\ socket = "none"
  /\ socket' = "requested"
  /\ UNCHANGED <<xterm, mounted, terminal, shown, frames, arrived, output, raced>>

\* loadThenConnect, after its await
LoadThenConnect ==
  /\ mounted /\ xterm = "loaded" /\ socket = "none"
  /\ socket' = "requested"
  /\ UNCHANGED <<xterm, mounted, terminal, shown, frames, arrived, output, raced>>

\* The session was created, the socket is the view's state.
SocketMade ==
  /\ mounted /\ socket = "requested"
  /\ socket' = "connecting"
  /\ UNCHANGED <<xterm, mounted, terminal, shown, frames, arrived, output, raced>>

SocketOpens ==
  /\ socket = "connecting"
  /\ socket' = "open"
  /\ shown' = IF terminal = "open" THEN "connected" ELSE shown
  /\ raced' = (raced \/ (xterm = "loaded" /\ terminal \in {"none", "starting"}))
  /\ UNCHANGED <<xterm, mounted, terminal, frames, arrived, output>>

\* Refused, or lost: the view shows an error in place of the viewer.
SocketCloses ==
  /\ socket \in {"connecting", "open"}
  /\ socket' = "closed" /\ shown' = "error"
  /\ UNCHANGED <<xterm, mounted, terminal, frames, arrived, output, raced>>

\* The hook closes its socket: no message is delivered after that.
Unmount ==
  /\ mounted
  /\ mounted' = FALSE
  /\ socket' = "closed"
  /\ terminal' = IF terminal = "none" THEN "none" ELSE "disposed"
  /\ UNCHANGED <<xterm, shown, frames, arrived, output, raced>>

-----------------------------------------------------------------------------
(* the viewer's effect *)

\* It mounts with the socket, and waits for xterm.
Mount ==
  /\ mounted /\ socket \in {"connecting", "open"} /\ terminal = "none"
  /\ terminal' = "starting"
  /\ UNCHANGED <<xterm, mounted, socket, shown, frames, arrived, output, raced>>

\* An open socket connects at once, another when it opens.
Loaded ==
  /\ terminal = "starting" /\ xterm = "loaded"
  /\ terminal' = "open"
  /\ shown' = IF socket = "open" THEN "connected" ELSE shown
  /\ UNCHANGED <<xterm, mounted, socket, frames, arrived, output, raced>>

\* The terminal cannot be opened: reportViewerError closes the socket.
LoadFailed ==
  /\ terminal = "starting"
  /\ shown' = "error" /\ terminal' = "disposed" /\ socket' = "closed"
  /\ UNCHANGED <<xterm, mounted, frames, arrived, output, raced>>

\* The view shows its error: the terminal is disposed, and its add-on with it.
Cleanup ==
  /\ shown = "error" /\ terminal \in {"starting", "open"}
  /\ terminal' = "disposed"
  /\ UNCHANGED <<xterm, mounted, socket, shown, frames, arrived, output, raced>>

-----------------------------------------------------------------------------
(* the add-on *)

\* messageListener; without a terminal nobody listens.
Message ==
  /\ socket = "open" /\ arrived < MaxFrames
  /\ arrived' = arrived + 1
  /\ IF terminal = "open"
     THEN \E s \in {"direct", "blob"} : frames' = Append(frames, s)
     ELSE UNCHANGED frames
  /\ UNCHANGED <<xterm, mounted, socket, terminal, shown, output, raced>>

\* every conversion starts when its frame arrives
FaultMayStart(i) == TRUE

\* a rejected promise ends the chain
FaultChain(i) == \A j \in 1..(i - 1) : frames[j] = "written"

\* the writes before it have ended, well or not
MayStart(i) == \A j \in 1..(i - 1) : frames[j] \in Settled

\* A failure is swallowed.
Ends(i) ==
  \/ frames' = [frames EXCEPT ![i] = "written"] /\ output' = Append(output, i)
  \/ frames' = [frames EXCEPT ![i] = "dropped"] /\ UNCHANGED output

\* writeSocketData, up to its await if there is one
Start(i) ==
  /\ frames[i] \in {"direct", "blob"} /\ MayStart(i)
  /\ IF frames[i] = "direct" THEN Ends(i)
     ELSE frames' = [frames EXCEPT ![i] = "converting"] /\ UNCHANGED output
  /\ UNCHANGED <<xterm, mounted, socket, terminal, shown, arrived, raced>>

\* a failure is kept in the queue
FaultConverted(i) ==
  /\ frames[i] = "converting"
  /\ \/ Ends(i)
     \/ frames' = [frames EXCEPT ![i] = "rejected"] /\ UNCHANGED output
  /\ UNCHANGED <<xterm, mounted, socket, terminal, shown, arrived, raced>>

Converted(i) ==
  /\ frames[i] = "converting"
  /\ Ends(i)
  /\ UNCHANGED <<xterm, mounted, socket, terminal, shown, arrived, raced>>

Queue == \E i \in 1..Len(frames) : Start(i) \/ Converted(i)

Next ==
  \/ XtermLoads \/ XtermFails \/ LoadThenConnect \/ SocketMade
  \/ SocketOpens \/ SocketCloses \/ Unmount
  \/ Mount \/ Loaded \/ LoadFailed \/ Cleanup
  \/ Message \/ Queue

Spec == Init /\ [][Next]_vars

\* Conversions end, and the promise queue goes on.
FairSpec == Spec /\ WF_vars(Queue)

-----------------------------------------------------------------------------
(* Properties                                                              *)

\* The add-on took every frame.
AllTaken == ~raced => Len(frames) = arrived

\* No frame is written before the ones before it are over.
InOrder ==
  /\ \A k \in 1..Len(output) : \A m \in 1..(k - 1) : output[m] < output[k]
  /\ \A k \in 1..Len(output) : \A j \in 1..output[k] : frames[j] \in Settled

\* What was written is there.
AllWritten ==
  {output[k] : k \in 1..Len(output)} = {i \in 1..Len(frames) : frames[i] = "written"}

\* What the terminal shows is what the guest sent from its first byte on, in
\* that order: a frame is only missing when its own write failed, or waits
\* behind a write that is not over.  For this the view loads xterm before it
\* connects.  The rest of the way to the listener, a render and a cached
\* import, has only to be faster than the handshake: raced says when it is not.
InArrivalOrder == AllTaken /\ InOrder /\ AllWritten

\* One frame that cannot be shown does not end the output of the session.
OutputGoesOn ==
  \A i \in 1..MaxFrames :
    i \in DOMAIN frames ~> i \in DOMAIN frames /\ frames[i] \in Settled
=============================================================================
