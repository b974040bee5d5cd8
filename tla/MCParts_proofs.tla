--------------------------- MODULE MCParts_proofs ---------------------------
(***************************************************************************)
(* Proofs about the parts that MCParts puts next to each other: here about *)
(* the proxy's issuer cache and the viewers, for any callers, keys, times, *)
(* sockets and frames; about the subnets and the storage edit pages in     *)
(* modules of their own.  At the end, what each promises holds of them     *)
(* side by side.                                                           *)
(***************************************************************************)
EXTENDS MCParts, Sequences, TLAPS

-----------------------------------------------------------------------------
(* The issuer cache.  AnswersAreRecent says what was used; that nothing    *)
(* older can be used later needs to know how old what is stored will be    *)
(* when it expires, and this depends on how long each fetch has run.       *)

\* A fetch reads what is true while it runs, and runs until its deadline at most.
FetchInv ==
  \A c \in Callers : call[c].at # "idle" =>
    /\ call[c].deadline - FetchTime <= call[c].asOf /\ call[c].asOf <= now
    /\ now <= call[c].deadline

\* An entry expires before it is too old.
EntryInv == \A k \in Keys : cache[k].expires <= cache[k].asOf + TTL + FetchTime

CacheInv == TypeOK /\ FetchInv /\ EntryInv /\ AnswersAreRecent

\* A key is cached for an idle caller to name.
LEMMA IdleType == Idle \in Calls
<1>1. (CHOOSE k \in Keys : TRUE) \in Keys
  BY CacheAssumption
<1> QED BY <1>1 DEF Idle, Calls

LEMMA FetchingType ==
  ASSUME NEW k \in Keys, NEW n \in Nat, now \in Nat
  PROVE  Fetching(k, n) \in Calls
BY CacheAssumption DEF Fetching, Calls

\* The use of an answer that is not too old.
LEMMA UsedRecent ==
  ASSUME NEW t \in Int, now \in Nat, oldest \in Nat, AnswersAreRecent,
         Used(t), now - t < TTL + FetchTime
  PROVE  oldest' \in Nat /\ AnswersAreRecent'
BY CacheAssumption DEF Used, AnswersAreRecent

LEMMA CacheInit == Init => CacheInv
<1> SUFFICES ASSUME Init PROVE CacheInv
  OBVIOUS
<1>1. TypeOK
  BY IdleType DEF Init, TypeOK, Entries
<1>2. FetchInv
  BY DEF Init, FetchInv, Idle
<1>3. EntryInv
  <2>1. \A k \in Keys : cache[k].expires = 0 /\ cache[k].asOf = 0
    BY DEF Init
  <2>2. 0 <= 0 + TTL + FetchTime
    BY CacheAssumption
  <2> QED BY <2>1, <2>2 DEF EntryInv
<1>4. AnswersAreRecent
  BY CacheAssumption DEF Init, AnswersAreRecent
<1> QED BY <1>1, <1>2, <1>3, <1>4 DEF CacheInv

LEMMA CacheStep == CacheInv /\ [Next]_vars => CacheInv'
<1> SUFFICES ASSUME CacheInv, [Next]_vars PROVE CacheInv'
  OBVIOUS
<1> USE DEF CacheInv
<1>1. CASE Tick
  <2>1. now' \in Nat /\ now' = now + 1
    BY <1>1 DEF Tick, TypeOK
  <2>2. FetchInv'
    <3> SUFFICES ASSUME NEW c \in Callers, call[c].at # "idle"
                 PROVE  /\ call[c].deadline - FetchTime <= call[c].asOf
                        /\ call[c].asOf <= now' /\ now' <= call[c].deadline
      BY <1>1 DEF Tick, FetchInv
    <3>1. /\ now < call[c].deadline /\ call[c].asOf <= now
          /\ call[c].deadline - FetchTime <= call[c].asOf
      BY <1>1 DEF Tick, FetchInv
    <3>2. call[c].deadline \in Int /\ call[c].asOf \in Int
      BY DEF TypeOK, Calls
    <3> QED BY <2>1, <3>1, <3>2 DEF TypeOK
  <2> QED BY <1>1, <2>1, <2>2 DEF Tick, TypeOK, EntryInv, AnswersAreRecent
<1>2. ASSUME NEW c \in Callers, NEW k \in Keys, Hit(c, k) PROVE CacheInv'
  <2>1. cache[k].asOf \in Int /\ cache[k].expires \in Int
    BY DEF TypeOK, Entries
  <2>2. now - cache[k].asOf < TTL + FetchTime
    BY <1>2, <2>1, CacheAssumption DEF Hit, Fresh, EntryInv, TypeOK
  <2>3. oldest' \in Nat /\ AnswersAreRecent'
    BY <1>2, <2>1, <2>2, UsedRecent DEF Hit, TypeOK
  <2> QED BY <1>2, <2>3 DEF Hit, TypeOK, FetchInv, EntryInv
<1>3. ASSUME NEW c \in Callers, NEW k \in Keys, Miss(c, k) PROVE CacheInv'
  <2>1. call' = [call EXCEPT ![c] = Fetching(k, 1)]
    BY <1>3 DEF Miss
  <2>2. TypeOK'
    BY <1>3, <2>1, FetchingType DEF Miss, TypeOK
  <2>3. FetchInv'
    BY <1>3, <2>1, CacheAssumption DEF Miss, TypeOK, FetchInv, Fetching
  <2> QED BY <1>3, <2>2, <2>3 DEF Miss, EntryInv, AnswersAreRecent
<1>4. ASSUME NEW c \in Callers, Answer(c) PROVE CacheInv'
  <2>1. call[c] \in Calls /\ call[c].at = "fetching"
    BY <1>4 DEF Answer, TypeOK
  <2>2. call' = [call EXCEPT ![c] = [at |-> "answered", key |-> call[c].key,
             attempt |-> call[c].attempt, deadline |-> call[c].deadline, asOf |-> now]]
    BY <1>4, <2>1 DEF Answer, TypeOK, Calls
  <2>3. TypeOK'
    BY <1>4, <2>1, <2>2 DEF Answer, TypeOK, Calls
  <2>4. FetchInv'
    <3>1. now <= call[c].deadline /\ call[c].deadline - FetchTime <= now
      <4>1. /\ now <= call[c].deadline /\ call[c].asOf <= now
            /\ call[c].deadline - FetchTime <= call[c].asOf
        BY <2>1 DEF FetchInv
      <4>2. call[c].deadline \in Int /\ call[c].asOf \in Int /\ now \in Int /\ FetchTime \in Int
        BY <2>1, CacheAssumption DEF TypeOK, Calls
      <4> QED BY <4>1, <4>2
    <3> QED BY <1>4, <2>1, <2>2, <3>1 DEF Answer, TypeOK, FetchInv
  <2> QED BY <1>4, <2>3, <2>4 DEF Answer, EntryInv, AnswersAreRecent
<1>5. ASSUME NEW c \in Callers, Store(c) PROVE CacheInv'
  <2> DEFINE k == call[c].key
  <2>1. call[c] \in Calls /\ k \in Keys /\ call[c].asOf \in Int /\ call[c].deadline \in Int
    BY DEF TypeOK, Calls
  <2>2. now <= call[c].asOf + FetchTime
    BY <1>5, <2>1, CacheAssumption DEF Store, FetchInv, TypeOK
  <2>3. oldest' \in Nat /\ AnswersAreRecent'
    <3>1. now - call[c].asOf < TTL + FetchTime
      BY <2>1, <2>2, CacheAssumption DEF TypeOK
    <3> QED BY <1>5, <2>1, <3>1, UsedRecent DEF Store, TypeOK
  <2>4. cache' = [cache EXCEPT ![k] = [asOf |-> call[c].asOf, expires |-> now + TTL]]
    BY <1>5 DEF Store
  <2>5. TypeOK'
    <3>1. cache' \in [Keys -> Entries]
      BY <2>1, <2>4, CacheAssumption DEF TypeOK, Entries
    <3>2. call' \in [Callers -> Calls]
      BY <1>5, IdleType DEF Store, TypeOK
    <3> QED BY <1>5, <2>3, <3>1, <3>2 DEF Store, TypeOK
  <2>6. FetchInv'
    BY <1>5 DEF Store, TypeOK, FetchInv, Idle
  <2>7. EntryInv'
    BY <2>1, <2>2, <2>4, CacheAssumption DEF EntryInv, TypeOK, Entries
  <2> QED BY <2>3, <2>5, <2>6, <2>7
<1>6. ASSUME NEW c \in Callers, Retry(c) PROVE CacheInv'
  <2> DEFINE k == call[c].key
             n == call[c].attempt + 1
  <2>1. k \in Keys /\ n \in Nat
    BY DEF TypeOK, Calls
  <2>2. call' = [call EXCEPT ![c] = Fetching(k, n)]
    BY <1>6 DEF Retry
  <2>3. Fetching(k, n) \in Calls
    BY <2>1, FetchingType DEF TypeOK
  <2>4. TypeOK'
    BY <1>6, <2>2, <2>3 DEF Retry, TypeOK
  <2>5. FetchInv'
    BY <1>6, <2>2, CacheAssumption DEF Retry, TypeOK, FetchInv, Fetching
  <2> QED BY <1>6, <2>4, <2>5 DEF Retry, EntryInv, AnswersAreRecent
<1>7. ASSUME NEW c \in Callers, Fail(c) PROVE CacheInv'
  BY <1>7, IdleType DEF Fail, TypeOK, FetchInv, EntryInv, AnswersAreRecent, Idle
<1>8. CASE UNCHANGED vars
  BY <1>8 DEF vars, TypeOK, FetchInv, EntryInv, AnswersAreRecent
<1> QED BY <1>1, <1>2, <1>3, <1>4, <1>5, <1>6, <1>7, <1>8 DEF Next

\* Every variable keeps its type: times, deadlines and ages are integers, and
\* no caller loses its key.
THEOREM CacheTypeCorrect == Spec => []TypeOK
<1>1. CacheInv => TypeOK
  BY DEF CacheInv
<1> QED BY CacheInit, CacheStep, <1>1, PTL DEF Spec

\* No answer is used TTL + FetchTime after it was true, whatever order concurrent
\* misses end in: the lock is not held while fetching, and need not be.
THEOREM AnswersAreRecentThm == Spec => []AnswersAreRecent
<1>1. CacheInv => AnswersAreRecent
  BY DEF CacheInv
<1> QED BY CacheInit, CacheStep, <1>1, PTL DEF Spec

-----------------------------------------------------------------------------
(* The graphical viewer.  That an event is about the mounted run, and a    *)
(* timer is not obsolete, follows from what rfbRef, the timer and the      *)
(* loads under way say of each other.                                      *)

\* rfbRef is of the mounted run, whose load is over.
RfbInv ==
  /\ rfb # 0 => rfb = run /\ rfb \notin loading
  /\ \A s \in Vnc!Sockets : session[s] \in {"opening", "connected"} => s = rfb

\* A timer that is set waits for something that has not happened.
TimerInv ==
  /\ run = 0 => timer = "none"
  /\ timer = "init" => rfb = 0
  /\ timer = "connect" => rfb # 0 /\ session[rfb] = "opening"

VncInv == Vnc!TypeOK /\ RfbInv /\ TimerInv /\ Vnc!SpeaksForItsSession

LEMMA NoSocketZero == ASSUME MaxSockets \in Nat PROVE 0 \notin Vnc!Sockets
BY DEF Vnc!Sockets

LEMMA VncInit == Vnc!Init => VncInv
BY DEF Vnc!Init, VncInv, Vnc!TypeOK, RfbInv, TimerInv, Vnc!SpeaksForItsSession

LEMMA VncStep == ASSUME MaxSockets \in Nat PROVE VncInv /\ [Vnc!Next]_(Vnc!vars) => VncInv'
<1> SUFFICES ASSUME VncInv, [Vnc!Next]_(Vnc!vars) PROVE VncInv'
  OBVIOUS
<1> USE NoSocketZero DEF VncInv, Vnc!TypeOK, RfbInv, TimerInv, Vnc!SpeaksForItsSession
<1>1. ASSUME NEW s \in Vnc!Sockets, Vnc!Mount(s) PROVE VncInv'
  BY <1>1 DEF Vnc!Mount, Vnc!StartsLoading
<1>2. CASE Vnc!Unmount
  <2>1. \A s \in Vnc!Sockets : session'[s] = IF s = rfb THEN "closed" ELSE session[s]
    BY <1>2 DEF Vnc!Unmount
  <2>2. session' \in [Vnc!Sockets -> {"none", "opening", "connected", "closed"}]
    BY <1>2 DEF Vnc!Unmount
  <2> QED BY <1>2, <2>1, <2>2 DEF Vnc!Unmount
<1>3. CASE Vnc!Resize
  BY <1>3 DEF Vnc!Resize, Vnc!StartsLoading
<1>4. ASSUME NEW s \in Vnc!Sockets, Vnc!Loaded(s) PROVE VncInv'
  <2>1. CASE Vnc!Usable(s)
    <3>1. run = s /\ rfb = 0 /\ session[s] \notin {"opening", "connected"}
      BY <2>1 DEF Vnc!Usable
    <3>2. /\ rfb' = s /\ timer' = "connect" /\ loading' = loading \ {s}
          /\ session' = [session EXCEPT ![s] = "opening"]
          /\ UNCHANGED <<run, last, sized, told>>
      BY <1>4, <2>1 DEF Vnc!Loaded
    <3> QED BY <3>1, <3>2
  <2>2. CASE ~ Vnc!Usable(s)
    BY <1>4, <2>2 DEF Vnc!Loaded
  <2> QED BY <2>1, <2>2
<1>5. ASSUME NEW s \in Vnc!Sockets, Vnc!LoadFailed(s) PROVE VncInv'
  BY <1>5 DEF Vnc!LoadFailed
<1>6. CASE Vnc!Timeout
  BY <1>6 DEF Vnc!Timeout
<1>7. ASSUME NEW s \in Vnc!Sockets, Vnc!Connected(s) PROVE VncInv'
  BY <1>7 DEF Vnc!Connected
<1>8. ASSUME NEW s \in Vnc!Sockets, Vnc!Disconnected(s) PROVE VncInv'
  BY <1>8 DEF Vnc!Disconnected
<1>9. CASE UNCHANGED Vnc!vars
  BY <1>9 DEF Vnc!vars
<1> QED BY <1>1, <1>2, <1>3, <1>4, <1>5, <1>6, <1>7, <1>8, <1>9 DEF Vnc!Next

\* Every variable keeps its type, for any number of sockets.
THEOREM VncTypeCorrect == ASSUME MaxSockets \in Nat PROVE Vnc!Spec => []Vnc!TypeOK
<1>1. VncInv => Vnc!TypeOK
  BY DEF VncInv
<1> QED BY VncInit, VncStep, <1>1, PTL DEF Vnc!Spec

\* Only the mounted run has an open session, and the view is told of that one,
\* however loads, timers, resizes, events and remounts interleave.
THEOREM VncSpeaksForItsSession ==
  ASSUME MaxSockets \in Nat PROVE Vnc!Spec => []Vnc!SpeaksForItsSession
<1>1. VncInv => Vnc!SpeaksForItsSession
  BY DEF VncInv
<1> QED BY VncInit, VncStep, <1>1, PTL DEF Vnc!Spec

-----------------------------------------------------------------------------
(* The serial viewer.  What InArrivalOrder says of frames that were        *)
(* written has to be known of one whose conversion has started: when it    *)
(* ends, nobody asks about the frames before it again.                     *)

Frames == 1..Len(frames)

\* Only frames of the queue were written.
OutputInv == \A k \in 1..Len(output) : output[k] \in Frames

\* Before a frame under conversion everything has ended.
StartedInv == \A i \in Frames : frames[i] = "converting" => Serial!MayStart(i)

\* The socket was made when xterm was loaded, brought nothing before it opened,
\* and found the terminal open then, unless it raced.
SocketInv ==
  /\ socket \notin {"none", "closed"} => xterm = "loaded"
  /\ socket \in {"none", "requested", "connecting"} => arrived = 0 /\ frames = <<>>
  /\ shown = "error" => socket = "closed" \/ (socket = "none" /\ xterm = "failed")
  /\ socket \in {"none", "requested"} => terminal = "none"
  /\ terminal = "disposed" => socket = "closed"
  /\ socket = "open" /\ ~raced => terminal = "open"

QueueInv == OutputInv /\ StartedInv /\ Serial!InOrder /\ Serial!AllWritten

SerialInv == Serial!TypeOK /\ SocketInv /\ QueueInv /\ Serial!AllTaken

\* A frame joins the queue, and nothing else of it changes.
LEMMA AppendStep ==
  ASSUME SerialInv, NEW s \in {"direct", "blob"}, frames' = Append(frames, s), UNCHANGED output
  PROVE  frames' \in Seq(Serial!Stages) /\ QueueInv'
<1> USE DEF SerialInv, QueueInv
<1>1. frames \in Seq(Serial!Stages) /\ output \in Seq(Nat)
  BY DEF Serial!TypeOK
<1>2. /\ frames' \in Seq(Serial!Stages) /\ Len(frames') = Len(frames) + 1
      /\ \A i \in Frames : frames'[i] = frames[i]
      /\ frames'[Len(frames) + 1] = s
  BY <1>1 DEF Serial!Stages, Frames
<1>3. OutputInv'
  BY <1>1, <1>2 DEF OutputInv, Frames
<1>4. StartedInv'
  <2> SUFFICES ASSUME NEW i \in 1..Len(frames'), frames'[i] = "converting",
                      NEW j \in 1..(i - 1)
               PROVE  frames'[j] \in Serial!Settled
    BY DEF StartedInv, Frames, Serial!MayStart
  <2>1. i \in Frames
    BY <1>1, <1>2 DEF Frames
  <2>2. j \in Frames /\ frames[j] \in Serial!Settled
    BY <1>1, <1>2, <2>1 DEF StartedInv, Serial!MayStart, Frames
  <2> QED BY <1>2, <2>2
<1>5. Serial!InOrder'
  <2>1. ASSUME NEW k \in 1..Len(output), NEW j \in 1..output[k]
        PROVE  frames'[j] \in Serial!Settled
    <3>1. output[k] \in Frames
      BY DEF OutputInv
    <3>2. j \in Frames /\ frames[j] \in Serial!Settled
      BY <1>1, <3>1 DEF Serial!InOrder, Frames
    <3> QED BY <1>2, <3>2
  <2> QED BY <2>1 DEF Serial!InOrder
<1>6. Serial!AllWritten'
  <2>1. {i \in 1..Len(frames') : frames'[i] = "written"} = {i \in Frames : frames[i] = "written"}
    BY <1>1, <1>2 DEF Frames
  <2> QED BY <2>1 DEF Serial!AllWritten, Frames
<1> QED BY <1>2, <1>3, <1>4, <1>5, <1>6

\* A frame that waited for all before it, and has not ended, moves on.
LEMMA MoveStep ==
  ASSUME SerialInv, NEW i \in Frames, frames[i] \notin Serial!Settled, Serial!MayStart(i),
         NEW s \in Serial!Stages, frames' = [frames EXCEPT ![i] = s],
         \/ s # "written" /\ UNCHANGED output
         \/ s = "written" /\ output' = Append(output, i)
  PROVE  /\ frames' \in Seq(Serial!Stages) /\ output' \in Seq(Nat)
         /\ QueueInv'
<1> USE DEF SerialInv, QueueInv
<1>1. frames \in Seq(Serial!Stages) /\ output \in Seq(Nat) /\ i \in Nat
  BY DEF Serial!TypeOK, Frames
<1>2. /\ frames' \in Seq(Serial!Stages) /\ Len(frames') = Len(frames)
      /\ \A j \in Frames : frames'[j] = IF j = i THEN s ELSE frames[j]
  BY <1>1 DEF Frames
<1>3. \A j \in Frames : frames[j] \in Serial!Settled => frames'[j] \in Serial!Settled
  BY <1>2
<1>4. \A k \in 1..Len(output) : output[k] < i
  <2> SUFFICES ASSUME NEW k \in 1..Len(output), ~ (output[k] < i) PROVE FALSE
    OBVIOUS
  <2>1. output[k] \in Nat
    BY <1>1
  <2>2. i \in 1..output[k]
    BY <1>1, <2>1 DEF Frames
  <2> QED BY <2>2 DEF Serial!InOrder
<1>5. StartedInv'
  <2> SUFFICES ASSUME NEW k \in 1..Len(frames'), frames'[k] = "converting",
                      NEW j \in 1..(k - 1)
               PROVE  frames'[j] \in Serial!Settled
    BY DEF StartedInv, Frames, Serial!MayStart
  <2>1. k \in Frames /\ j \in Frames
    BY <1>1, <1>2 DEF Frames
  <2>2. frames[j] \in Serial!Settled
    BY <1>2, <2>1 DEF StartedInv, Serial!MayStart
  <2> QED BY <1>3, <2>1, <2>2
<1>6. ASSUME NEW k \in 1..Len(output), NEW j \in 1..output[k]
      PROVE  frames'[j] \in Serial!Settled
  <2>1. output[k] \in Frames /\ output[k] \in Nat
    BY <1>1 DEF OutputInv
  <2>2. j \in Frames /\ frames[j] \in Serial!Settled
    BY <1>1, <2>1 DEF Serial!InOrder, Frames
  <2> QED BY <1>3, <2>2
<1>7. CASE s # "written" /\ UNCHANGED output
  <2>1. OutputInv'
    BY <1>2, <1>7 DEF OutputInv, Frames
  <2>2. Serial!InOrder'
    BY <1>6, <1>7 DEF Serial!InOrder
  <2>3. Serial!AllWritten'
    <3>1. {j \in 1..Len(frames') : frames'[j] = "written"} = {j \in Frames : frames[j] = "written"}
      BY <1>2, <1>7 DEF Frames, Serial!Settled
    <3> QED BY <1>7, <3>1 DEF Serial!AllWritten, Frames
  <2> QED BY <1>1, <1>2, <1>5, <1>7, <2>1, <2>2, <2>3
<1>8. CASE s = "written" /\ output' = Append(output, i)
  <2>1. /\ output' \in Seq(Nat) /\ Len(output') = Len(output) + 1
        /\ \A k \in 1..Len(output) : output'[k] = output[k]
        /\ output'[Len(output) + 1] = i
    BY <1>1, <1>8
  <2>2. OutputInv'
    <3> SUFFICES ASSUME NEW k \in 1..Len(output') PROVE output'[k] \in 1..Len(frames')
      BY DEF OutputInv, Frames
    <3>1. CASE k \in 1..Len(output)
      BY <1>2, <2>1, <3>1 DEF OutputInv, Frames
    <3>2. CASE k = Len(output) + 1
      BY <1>2, <2>1, <3>2 DEF Frames
    <3> QED BY <1>1, <2>1, <3>1, <3>2
  <2>3. ASSUME NEW k \in 1..Len(output'), NEW m \in 1..(k - 1)
        PROVE  output'[m] < output'[k]
    <3> m \in Nat /\ k \in Nat /\ m < k
      OBVIOUS
    <3>1. CASE k \in 1..Len(output)
      <4>1. m \in 1..Len(output) /\ output[m] < output[k]
        BY <1>1, <3>1 DEF Serial!InOrder
      <4> QED BY <2>1, <3>1, <4>1
    <3>2. CASE k = Len(output) + 1
      <4>1. m \in 1..Len(output)
        BY <1>1, <3>2
      <4> QED BY <1>4, <2>1, <3>2, <4>1
    <3>3. k \in 1..Len(output) \/ k = Len(output) + 1
      <4>1. Len(output) \in Nat /\ k \in 1..(Len(output) + 1)
        BY <1>1, <2>1
      <4> QED BY <4>1
    <3> QED BY <3>1, <3>2, <3>3
  <2>4. ASSUME NEW k \in 1..Len(output'), NEW j \in 1..output'[k]
        PROVE  frames'[j] \in Serial!Settled
    <3>1. CASE k \in 1..Len(output)
      BY <1>6, <2>1, <3>1
    <3>2. CASE k = Len(output) + 1 /\ j = i
      BY <1>2, <1>8, <3>2 DEF Serial!Settled
    <3>3. CASE k = Len(output) + 1 /\ j # i
      <4>1. j \in 1..(i - 1) /\ j \in Frames
        BY <1>1, <2>1, <3>3 DEF Frames
      <4> QED BY <1>3, <4>1 DEF Serial!MayStart
    <3> QED BY <1>1, <2>1, <3>1, <3>2, <3>3
  <2>5. Serial!InOrder'
    BY <2>3, <2>4 DEF Serial!InOrder
  <2>6. Serial!AllWritten'
    <3>1. {j \in 1..Len(frames') : frames'[j] = "written"}
           = {j \in Frames : frames[j] = "written"} \cup {i}
      BY <1>2, <1>8 DEF Frames
    <3>2. {output'[k] : k \in 1..Len(output')} = {output[k] : k \in 1..Len(output)} \cup {i}
      <4>1. 1..Len(output') = 1..Len(output) \cup {Len(output) + 1}
        BY <1>1, <2>1
      <4> QED BY <2>1, <4>1
    <3> QED BY <3>1, <3>2 DEF Serial!AllWritten, Frames
  <2> QED BY <1>2, <1>5, <2>1, <2>2, <2>5, <2>6
<1> QED BY <1>7, <1>8

LEMMA SerialInit == Serial!Init => SerialInv
<1> SUFFICES ASSUME Serial!Init PROVE SerialInv
  OBVIOUS
<1>1. /\ frames \in Seq(Serial!Stages) /\ output \in Seq(Nat)
      /\ Len(frames) = 0 /\ Len(output) = 0 /\ 1..0 = {}
  BY DEF Serial!Init
<1>2. QueueInv
  BY <1>1 DEF QueueInv, OutputInv, StartedInv, Serial!InOrder, Serial!AllWritten, Frames
<1> QED
  BY <1>1, <1>2 DEF Serial!Init, SerialInv, SocketInv, Serial!TypeOK, Serial!AllTaken

\* A step that leaves the queue alone keeps what is known of it.
LEMMA QueueStays == QueueInv /\ UNCHANGED <<frames, output>> => QueueInv'
BY DEF QueueInv, OutputInv, StartedInv, Serial!InOrder, Serial!AllWritten, Frames, Serial!MayStart

LEMMA SerialStep == SerialInv /\ [Serial!Next]_(Serial!vars) => SerialInv'
<1> SUFFICES ASSUME SerialInv, [Serial!Next]_(Serial!vars) PROVE SerialInv'
  OBVIOUS
<1> USE DEF SerialInv
<1>1. ASSUME UNCHANGED <<frames, arrived, output>>, Serial!TypeOK', SocketInv', raced => raced'
      PROVE  SerialInv'
  BY <1>1, QueueStays DEF Serial!AllTaken
<1>2. CASE Serial!XtermLoads \/ Serial!XtermFails
  BY <1>1, <1>2 DEF Serial!XtermLoads, Serial!XtermFails, Serial!TypeOK, SocketInv
<1>3. CASE Serial!LoadThenConnect \/ Serial!SocketMade
  BY <1>1, <1>3 DEF Serial!LoadThenConnect, Serial!SocketMade, Serial!TypeOK, SocketInv
<1>4. CASE Serial!SocketOpens
  BY <1>1, <1>4 DEF Serial!SocketOpens, Serial!TypeOK, SocketInv
<1>5. CASE Serial!SocketCloses \/ Serial!Unmount
  BY <1>1, <1>5 DEF Serial!SocketCloses, Serial!Unmount, Serial!TypeOK, SocketInv
<1>6. CASE Serial!Mount
  BY <1>1, <1>6 DEF Serial!Mount, Serial!TypeOK, SocketInv
<1>7. CASE Serial!Loaded
  BY <1>1, <1>7 DEF Serial!Loaded, Serial!TypeOK, SocketInv
<1>8. CASE Serial!LoadFailed
  BY <1>1, <1>8 DEF Serial!LoadFailed, Serial!TypeOK, SocketInv
<1>9. CASE Serial!Cleanup
  BY <1>1, <1>9 DEF Serial!Cleanup, Serial!TypeOK, SocketInv
<1>10. CASE Serial!Message
  <2>1. /\ arrived \in Nat /\ arrived' = arrived + 1
        /\ socket = "open" /\ UNCHANGED <<xterm, mounted, socket, terminal, shown, output, raced>>
    BY <1>10 DEF Serial!Message, Serial!TypeOK
  <2>2. SocketInv'
    BY <2>1 DEF SocketInv
  <2>3. CASE terminal = "open"
    <3>1. PICK s \in {"direct", "blob"} : frames' = Append(frames, s)
      BY <1>10, <2>3 DEF Serial!Message
    <3>2. frames' \in Seq(Serial!Stages) /\ QueueInv'
      BY <2>1, <3>1, AppendStep
    <3>3. frames \in Seq(Serial!Stages) /\ Len(frames') = Len(frames) + 1
      BY <3>1 DEF Serial!TypeOK
    <3> QED BY <2>1, <2>2, <3>2, <3>3 DEF Serial!TypeOK, Serial!AllTaken
  <2>4. CASE terminal # "open"
    <3>1. raced /\ UNCHANGED frames
      BY <1>10, <2>1, <2>4 DEF Serial!Message, SocketInv
    <3> QED BY <2>1, <2>2, <3>1, QueueStays DEF Serial!TypeOK, Serial!AllTaken
  <2> QED BY <2>3, <2>4
<1>11. ASSUME NEW i \in Frames, Serial!Start(i) \/ Serial!Converted(i) PROVE SerialInv'
  <2>1. UNCHANGED <<xterm, mounted, socket, terminal, shown, arrived, raced>>
    BY <1>11 DEF Serial!Start, Serial!Converted
  <2>2. frames[i] \notin Serial!Settled /\ Serial!MayStart(i)
    BY <1>11 DEF Serial!Start, Serial!Converted, Serial!Settled, QueueInv, StartedInv
  <2>3. PICK s \in Serial!Stages :
          /\ frames' = [frames EXCEPT ![i] = s]
          /\ \/ s # "written" /\ UNCHANGED output
             \/ s = "written" /\ output' = Append(output, i)
    BY <1>11 DEF Serial!Start, Serial!Converted, Serial!Ends, Serial!Stages
  <2>4. frames' \in Seq(Serial!Stages) /\ output' \in Seq(Nat) /\ QueueInv'
    BY <2>2, <2>3, MoveStep
  <2>5. frames \in Seq(Serial!Stages) /\ frames # <<>> /\ Len(frames') = Len(frames)
    BY <2>3 DEF Serial!TypeOK, Frames
  <2> QED BY <2>1, <2>4, <2>5 DEF Serial!TypeOK, SocketInv, Serial!AllTaken
<1>12. CASE UNCHANGED Serial!vars
  BY <1>1, <1>12 DEF Serial!vars, Serial!TypeOK, SocketInv
<1> QED
  BY <1>2, <1>3, <1>4, <1>5, <1>6, <1>7, <1>8, <1>9, <1>10, <1>11, <1>12
  DEF Serial!Next, Serial!Queue, Frames

\* Every variable keeps its type, for any number of frames.
THEOREM SerialTypeCorrect == Serial!Spec => []Serial!TypeOK
<1>1. SerialInv => Serial!TypeOK
  BY DEF SerialInv
<1> QED BY SerialInit, SerialStep, <1>1, PTL DEF Serial!Spec

\* The terminal shows the guest's output in order and from its first frame, with
\* only those missing whose write failed, however the load of xterm, the
\* handshake, conversions and disposals interleave, unless the handshake raced.
THEOREM SerialInArrivalOrder == Serial!Spec => []Serial!InArrivalOrder
<1>1. SerialInv => Serial!InArrivalOrder
  BY DEF SerialInv, QueueInv, Serial!InArrivalOrder
<1> QED BY SerialInit, SerialStep, <1>1, PTL DEF Serial!Spec

-----------------------------------------------------------------------------
(* Subnets and storage edits.  Their proofs are in modules of their own,   *)
(* which have the same definitions as MCParts' instances of the modules.   *)

NetP == INSTANCE Subnets_proofs WITH
  Width <- 3, Network <- CIDR(0, 1), Earlier <- {CIDR(0, 3)},
  Typed <- {CIDR(0, 2), CIDR(3, 2), CIDR(1, 3), CIDR(2, 3), CIDR(4, 3), CIDR(1, 0)}
StorageP == INSTANCE StorageEdit_proofs WITH
  Tabs <- {"tab"}, Others <- "others", MaxSaves <- 2, mounted <- opened

\* MCParts' ranges are such as the proofs are about.
LEMMA NetRanges == NetP!Ranges
BY SMT DEF NetP!Ranges, NetP!CIDRs, CIDR

\* The subnets are the same, once every definition is expanded.
LEMMA SameNet ==
  /\ Net!Init <=> NetP!Init
  /\ [Net!Next]_(Net!vars) <=> [NetP!Next]_(NetP!vars)
  /\ Net!TypeOK <=> NetP!TypeOK
BY DEF Net!vars, NetP!vars, Net!CIDRs, NetP!CIDRs, Net!TypeOK, NetP!TypeOK, Net!BlockSize,
  NetP!BlockSize, Net!Start, NetP!Start, Net!End, NetP!End, Net!Within, NetP!Within,
  Net!Overlaps, NetP!Overlaps, Net!Addresses, NetP!Addresses, Net!NoRequest,
  NetP!NoRequest, Net!Init, NetP!Init, Net!Open, NetP!Open, Net!Leave, NetP!Leave,
  Net!OpenDialog, NetP!OpenDialog, Net!Cancel, NetP!Cancel, Net!Create, NetP!Create,
  Net!Apply, NetP!Apply, Net!Refuse, NetP!Refuse, Net!Answered, NetP!Answered,
  Net!OthersCreate, NetP!OthersCreate, Net!Poll, NetP!Poll, Net!Respond, NetP!Respond,
  Net!Ends, NetP!Ends, Net!Loaded, NetP!Loaded, Net!LoadFailed, NetP!LoadFailed, Net!Next,
  NetP!Next

\* So is what is claimed of them.
LEMMA SameNetClaim == Net!CreatesDisjoint <=> NetP!CreatesDisjoint
BY DEF Net!vars, NetP!vars, Net!CIDRs, NetP!CIDRs, Net!BlockSize, NetP!BlockSize,
  Net!Start, NetP!Start, Net!End, NetP!End, Net!Addresses, NetP!Addresses,
  Net!CreatesDisjoint, NetP!CreatesDisjoint

\* So are the storage edits.
LEMMA SameStorage ==
  /\ Storage!Init <=> StorageP!Init
  /\ [Storage!Next]_(Storage!vars) <=> [StorageP!Next]_(StorageP!vars)
  /\ Storage!TypeOK <=> StorageP!TypeOK
BY DEF Storage!cacheVars, StorageP!cacheVars, Storage!Snapshots, StorageP!Snapshots,
  Storage!Statuses, StorageP!Statuses, Storage!Fetches, StorageP!Fetches,
  Storage!CacheTypeOK, StorageP!CacheTypeOK, Storage!CacheInit, StorageP!CacheInit,
  Storage!Started, StorageP!Started, Storage!OpenPage, StorageP!OpenPage,
  Storage!ClosePage, StorageP!ClosePage, Storage!Refetch, StorageP!Refetch, Storage!Serve,
  StorageP!Serve, Storage!Fulfilled, StorageP!Fulfilled, Storage!Rejected,
  StorageP!Rejected, Storage!Invalidate, StorageP!Invalidate, Storage!editVars,
  StorageP!editVars, Storage!vars, StorageP!vars, Storage!Fields, StorageP!Fields,
  Storage!SaveIds, StorageP!SaveIds, Storage!Values, StorageP!Values, Storage!Initial,
  StorageP!Initial, Storage!Stages, StorageP!Stages, Storage!SaveRecords,
  StorageP!SaveRecords, Storage!Forms, StorageP!Forms, Storage!TypeOK, StorageP!TypeOK,
  Storage!Copy0, StorageP!Copy0, Storage!NoForm, StorageP!NoForm, Storage!NoSave,
  StorageP!NoSave, Storage!Init, StorageP!Init, Storage!Shown, StorageP!Shown,
  Storage!FormsFollow, StorageP!FormsFollow, Storage!Open, StorageP!Open, Storage!Leave,
  StorageP!Leave, Storage!Poll, StorageP!Poll, Storage!Respond, StorageP!Respond,
  Storage!FetchOver, StorageP!FetchOver, Storage!Loaded, StorageP!Loaded,
  Storage!LoadFailed, StorageP!LoadFailed, Storage!Type, StorageP!Type, Storage!NextSave,
  StorageP!NextSave, Storage!Content, StorageP!Content, Storage!Sends, StorageP!Sends,
  Storage!Submit, StorageP!Submit, Storage!OthersSave, StorageP!OthersSave,
  Storage!Handled, StorageP!Handled, Storage!Apply, StorageP!Apply, Storage!Refuse,
  StorageP!Refuse, Storage!Answered, StorageP!Answered, Storage!Navigate,
  StorageP!Navigate, Storage!Fails, StorageP!Fails, Storage!Next, StorageP!Next

LEMMA SameStorageClaims ==
  /\ Storage!FreshSavesUndoNothing <=> StorageP!FreshSavesUndoNothing
  /\ Storage!EditsAreKept <=> StorageP!EditsAreKept
BY DEF Storage!cacheVars, StorageP!cacheVars, Storage!editVars, StorageP!editVars,
  Storage!vars, StorageP!vars, Storage!SaveIds, StorageP!SaveIds,
  Storage!OverwritesUnseen, StorageP!OverwritesUnseen, Storage!Applied,
  StorageP!Applied, Storage!FreshSavesUndoNothing, StorageP!FreshSavesUndoNothing,
  Storage!EditsAreKept, StorageP!EditsAreKept

-----------------------------------------------------------------------------
(* The parts side by side.                                                 *)

\* A behavior of the parts is one of each: a step of another part stutters.
LEMMA PartSteps ==
  /\ PartsInit => Init /\ Vnc!Init /\ Serial!Init /\ NetP!Init /\ StorageP!Init
  /\ [PartsNext]_<<part, vars, vncVars, serialVars, netVars, storageVars>> =>
       /\ [Next]_vars /\ [Vnc!Next]_(Vnc!vars) /\ [Serial!Next]_(Serial!vars)
       /\ [NetP!Next]_(NetP!vars) /\ [StorageP!Next]_(StorageP!vars)
<1>1. PartsInit => Init /\ Vnc!Init /\ Serial!Init /\ NetP!Init /\ StorageP!Init
  BY SameNet, SameStorage DEF PartsInit
<1>2. [PartsNext]_<<part, vars, vncVars, serialVars, netVars, storageVars>> =>
       /\ [Next]_vars /\ [Vnc!Next]_(Vnc!vars) /\ [Serial!Next]_(Serial!vars)
       /\ [Net!Next]_(Net!vars) /\ [Storage!Next]_(Storage!vars)
  BY DEF PartsNext, vars, vncVars, serialVars, netVars, storageVars, Vnc!vars, Serial!vars,
     Net!vars, Storage!vars, Storage!cacheVars, Storage!editVars
<1> QED
  BY <1>1, <1>2, SameNet, SameStorage

\* Every variable of every part keeps its type while the parts take turns.
THEOREM PartsTypeCorrect == ASSUME MaxSockets \in Nat PROVE PartsSpec => []PartsTypeOK
<1>1. PartsSpec => []TypeOK
  BY PartSteps, CacheTypeCorrect, PTL DEF PartsSpec, Spec
<1>2. PartsSpec => []Vnc!TypeOK
  BY PartSteps, VncTypeCorrect, PTL DEF PartsSpec, Vnc!Spec
<1>3. PartsSpec => []Serial!TypeOK
  BY PartSteps, SerialTypeCorrect, PTL DEF PartsSpec, Serial!Spec
<1>4. PartsSpec => []NetP!TypeOK
  <2>1. NetP!Spec => []NetP!TypeOK
    BY NetRanges, NetP!TypeCorrect
  <2> QED
    BY PartSteps, <2>1, PTL DEF PartsSpec, NetP!Spec
<1>5. PartsSpec => []StorageP!TypeOK
  <2>1. StorageP!Spec => []StorageP!TypeOK
    BY StorageP!TypeCorrect
  <2> QED
    BY PartSteps, <2>1, PTL DEF PartsSpec, StorageP!Spec
<1>6. TypeOK /\ Vnc!TypeOK /\ Serial!TypeOK /\ NetP!TypeOK /\ StorageP!TypeOK => PartsTypeOK
  BY SameNet, SameStorage DEF PartsTypeOK
<1> QED
  BY <1>1, <1>2, <1>3, <1>4, <1>5, <1>6, PTL

\* The proxy uses no issuer's answer that is too old, for any callers, keys and
\* times.
THEOREM PartsAnswersAreRecent == PartsSpec => []AnswersAreRecent
BY PartSteps, AnswersAreRecentThm, PTL DEF PartsSpec, Spec

\* The graphical viewer tells the view of the session that it shows, and has no
\* other open, for any number of sockets.
THEOREM PartsSpeakForTheirSession ==
  ASSUME MaxSockets \in Nat PROVE PartsSpec => []SpeaksForItsSession
<1>1. Vnc!SpeaksForItsSession => SpeaksForItsSession
  BY DEF SpeaksForItsSession
<1> QED
  BY <1>1, PartSteps, VncSpeaksForItsSession, PTL DEF PartsSpec, Vnc!Spec

\* The serial viewer takes every frame and writes them in the order of their
\* arrival, for any number of frames.
THEOREM PartsInArrivalOrder == PartsSpec => []InArrivalOrder
<1>1. Serial!InArrivalOrder => InArrivalOrder
  BY DEF InArrivalOrder
<1> QED
  BY <1>1, PartSteps, SerialInArrivalOrder, PTL DEF PartsSpec, Serial!Spec

\* Subnets that a user who is alone creates share no address.
THEOREM PartsCreateDisjoint == PartsSpec => CreatesDisjoint
<1>1. NetP!Spec => NetP!CreatesDisjoint
  BY NetRanges, NetP!CreatesDisjointThm
<1>2. PartsSpec => NetP!CreatesDisjoint
  BY PartSteps, <1>1, PTL DEF PartsSpec, NetP!Spec
<1> QED
  BY <1>2, SameNetClaim DEF CreatesDisjoint

\* A storage form filled from the copy that its page still has undoes nothing.
THEOREM PartsUndoNothing == PartsSpec => FreshSavesUndoNothing
<1>1. StorageP!Spec => StorageP!FreshSavesUndoNothing
  BY StorageP!FreshSavesUndoNothingThm
<1>2. PartsSpec => StorageP!FreshSavesUndoNothing
  BY PartSteps, <1>1, PTL DEF PartsSpec, StorageP!Spec
<1> QED
  BY <1>2, SameStorageClaims DEF FreshSavesUndoNothing

\* What was typed into a storage form is not taken by a poll or an earlier save.
THEOREM PartsKeepEdits == PartsSpec => EditsAreKept
<1>1. StorageP!Spec => StorageP!EditsAreKept
  BY StorageP!EditsAreKeptThm
<1>2. PartsSpec => StorageP!EditsAreKept
  BY PartSteps, <1>1, PTL DEF PartsSpec, StorageP!Spec
<1> QED
  BY <1>2, SameStorageClaims DEF EditsAreKept
=============================================================================
