----------------------------- MODULE QueryCache -----------------------------
(***************************************************************************)
(* One resource of the fulfillment service and the query each tab keeps of *)
(* it: the QueryClient that main.tsx sets up, as the hooks of api/ use it. *)
(* Every tab has a client, hence a cache, of its own.                      *)
(*                                                                         *)
(* A snapshot is the resource's value together with rev, the number of     *)
(* writes the service had applied when it looked like that.  At most one   *)
(* fetch of a query is in flight: a second one joins it, except that an    *)
(* invalidation and "Try again" cancel it and start over; whoever waited   *)
(* for the cancelled fetch waits for the new one.                          *)
(***************************************************************************)
EXTENDS Naturals

CONSTANT Tabs  \* browser tabs

VARIABLES
  store,    \* the resource at the service
  mounted,  \* is the page with the query open in a tab
  status,   \* the query's status
  data,     \* the query's data, meaningless while status is "pending"
  fetch     \* the fetch in flight; got is its answer once served, the data until then

cacheVars == <<mounted, status, data, fetch>>

\* of a resource whose values are V
Snapshots(V) == [v : V, rev : Nat]
Statuses == {"pending", "success", "error"}
Fetches(V) == [at : {"none", "sent", "served"}, got : Snapshots(V)]

CacheTypeOK(V) ==
  /\ store \in Snapshots(V)
  /\ mounted \in [Tabs -> BOOLEAN]
  /\ status \in [Tabs -> Statuses]
  /\ data \in [Tabs -> Snapshots(V)]
  /\ fetch \in [Tabs -> Fetches(V)]

\* Pages open one after the other; a query starts to fetch when it is mounted.
CacheInit(v) ==
  /\ store = [v |-> v, rev |-> 0]
  /\ mounted = [t \in Tabs |-> FALSE]
  /\ status = [t \in Tabs |-> "pending"]
  /\ data = [t \in Tabs |-> store]
  /\ fetch = [t \in Tabs |-> [at |-> "none", got |-> store]]

\* The page shows the resource: a query with an error is an error page, even
\* when it still has data.
Usable(t) == mounted[t] /\ status[t] = "success"

\* a tab's fetch starts, and one in flight is cancelled
Started(t) == [fetch EXCEPT ![t] = [at |-> "sent", got |-> data[t]]]

\* The page is opened: at most the data of the last visit are shown at once.
\* Data young enough not to be fetched again are data whose fetch takes long.
OpenPage(t) ==
  /\ ~ mounted[t]
  /\ mounted' = [mounted EXCEPT ![t] = TRUE]
  /\ fetch' = IF fetch[t].at = "none" THEN Started(t) ELSE fetch
  /\ UNCHANGED <<store, status, data>>

\* The page is left; a fetch in flight goes on.
ClosePage(t) ==
  /\ mounted[t]
  /\ mounted' = [mounted EXCEPT ![t] = FALSE]
  /\ UNCHANGED <<store, status, data, fetch>>

\* The refetch interval, or "Try again" on the error page, which starts over.
Refetch(t) ==
  /\ mounted[t]
  /\ fetch[t].at = "none" \/ status[t] = "error"
  /\ fetch' = Started(t)
  /\ UNCHANGED <<store, mounted, status, data>>

\* The service answers with the resource as it is now.
Serve(t) ==
  /\ fetch[t].at = "sent"
  /\ fetch' = [fetch EXCEPT ![t] = [at |-> "served", got |-> store]]
  /\ UNCHANGED <<store, mounted, status, data>>

Fulfilled(t) ==
  /\ fetch[t].at = "served"
  /\ status' = [status EXCEPT ![t] = "success"]
  /\ data' = [data EXCEPT ![t] = fetch[t].got]
  /\ fetch' = [fetch EXCEPT ![t].at = "none"]
  /\ UNCHANGED <<store, mounted>>

\* The fetch failed, and so did its one retry.
Rejected(t) ==
  /\ fetch[t].at # "none"
  /\ status' = [status EXCEPT ![t] = "error"]
  /\ fetch' = [fetch EXCEPT ![t] = [at |-> "none", got |-> data[t]]]
  /\ UNCHANGED <<store, mounted, data>>

\* an invalidation joins the fetch that is already in flight
FaultInvalidate(t) ==
  fetch' = IF mounted[t] /\ fetch[t].at = "none"
           THEN Started(t) ELSE fetch

\* invalidateQueries: a query on the screen is fetched anew, and not from a
\* fetch that was already under way
Invalidate(t) ==
  fetch' = IF mounted[t] THEN Started(t) ELSE fetch
=============================================================================
