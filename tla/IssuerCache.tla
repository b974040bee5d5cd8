---------------------------- MODULE IssuerCache ----------------------------
(***************************************************************************)
(* The proxy's caches of what the identity setup says: the issuer that the *)
(* fulfillment service names, and the issuer's discovery document.  Every  *)
(* login, callback, refresh and logout goes through them, concurrently:    *)
(* the cache is read under a lock, a miss fetches without the lock, and    *)
(* the answer is stored under the lock again, so of two misses the one     *)
(* that ends last wins.                                                    *)
(*                                                                         *)
(* Time is counted in ticks, and an answer is known by the time at which   *)
(* it was true.                                                            *)
(***************************************************************************)
EXTENDS Integers

CONSTANTS
  Keys,      \* what is cached: the issuer, and a document per issuer
  Callers,   \* the requests that the proxy handles at a time
  TTL,       \* how long an answer is kept
  FetchTime,   \* how long a fetch may take
  Attempts,  \* how often each key is tried when the connection breaks
  MaxTime    \* the last tick (a bound)

ASSUME CacheAssumption == TTL \in Nat \ {0} /\ FetchTime \in Nat /\ Keys # {}

VARIABLES
  now,       \* the time
  cache,     \* what is stored for each key
  call,      \* what each caller is doing
  oldest     \* the greatest age that any answer ever had when it was used

vars == <<now, cache, call, oldest>>

\* An empty cache is one that has expired.
Entries == [asOf : Int, expires : Int]
Calls == [at : {"idle", "fetching", "answered"}, key : Keys, attempt : Nat,
          deadline : Int, asOf : Int]

TypeOK ==
  /\ now \in Nat
  /\ cache \in [Keys -> Entries]
  /\ call \in [Callers -> Calls]
  /\ oldest \in Nat

Idle == [at |-> "idle", key |-> CHOOSE k \in Keys : TRUE, attempt |-> 0,
         deadline |-> 0, asOf |-> 0]

Init ==
  /\ now = 0
  /\ cache = [k \in Keys |-> [asOf |-> 0, expires |-> 0]]
  /\ call = [c \in Callers |-> Idle]
  /\ oldest = 0

-----------------------------------------------------------------------------
(* Definitions named Fault... are no part of the specification: each is    *)
(* the definition after it with one plausible mistake, which a property    *)
(* must notice.                                                            *)

FaultFresh(k) == now <= cache[k].expires

\* time.Now().Before(expires)
Fresh(k) == now < cache[k].expires

\* An answer that was true at time t is used now.
Used(t) == oldest' = IF now - t > oldest THEN now - t ELSE oldest

Hit(c, k) ==
  /\ call[c].at = "idle" /\ Fresh(k)
  /\ Used(cache[k].asOf)
  /\ UNCHANGED <<now, cache, call>>

Fetching(k, n) == [at |-> "fetching", key |-> k, attempt |-> n,
                   deadline |-> now + FetchTime, asOf |-> now]

Miss(c, k) ==
  /\ call[c].at = "idle" /\ ~ Fresh(k)
  /\ call' = [call EXCEPT ![c] = Fetching(k, 1)]
  /\ UNCHANGED <<now, cache, oldest>>

\* The server reads what is true, and its answer sets out.
Answer(c) ==
  /\ call[c].at = "fetching"
  /\ call' = [call EXCEPT ![c] = [at |-> "answered", key |-> @.key, attempt |-> @.attempt,
                                  deadline |-> @.deadline, asOf |-> now]]
  /\ UNCHANGED <<now, cache, oldest>>

Store(c) ==
  /\ call[c].at = "answered"
  /\ cache' = [cache EXCEPT ![call[c].key] =
       [asOf |-> call[c].asOf, expires |-> now + TTL]]
  /\ Used(call[c].asOf)
  /\ call' = [call EXCEPT ![c] = Idle]
  /\ UNCHANGED now

\* a connection that broke: tried again with a deadline of its own, if it may
Retry(c) ==
  /\ call[c].at # "idle" /\ call[c].attempt < Attempts[call[c].key]
  /\ call' = [call EXCEPT ![c] = Fetching(call[c].key, call[c].attempt + 1)]
  /\ UNCHANGED <<now, cache, oldest>>

\* an error, or the deadline: nothing is stored
Fail(c) ==
  /\ call[c].at # "idle"
  /\ call' = [call EXCEPT ![c] = Idle]
  /\ UNCHANGED <<now, cache, oldest>>

\* A fetch past its deadline is over.
Tick ==
  /\ now < MaxTime
  /\ \A c \in Callers : call[c].at # "idle" => now < call[c].deadline
  /\ now' = now + 1
  /\ UNCHANGED <<cache, call, oldest>>

Next ==
  \/ Tick
  \/ \E c \in Callers :
       \/ Answer(c) \/ Store(c) \/ Retry(c) \/ Fail(c)
       \/ \E k \in Keys : Hit(c, k) \/ Miss(c, k)

Spec == Init /\ [][Next]_vars

-----------------------------------------------------------------------------
(* Properties                                                              *)

\* A change of the issuer or of its endpoints reaches every request within
\* the five minutes of the cache and the time of one fetch, whatever order
\* concurrent misses end in, however often a fetch was tried.  A login that was
\* started before goes on with the issuer in its own flow cookie, for as long as
\* that cookie lives: it does not ask this cache.
AnswersAreRecent == oldest < TTL + FetchTime
=============================================================================
