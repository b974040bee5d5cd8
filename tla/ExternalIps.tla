---------------------------- MODULE ExternalIps -----------------------------
(***************************************************************************)
(* The detail page of a virtual machine or of a cluster (its "host") with  *)
(* two dialogs, attach an external IP and detach it, while the host runs.  *)
(* The page reads two queries that are polled separately, the host and its *)
(* list of attachments, while the service works on both and other users    *)
(* do too.  A cluster's page keeps the attachment that its user picked; a  *)
(* virtual machine's keeps a flag, and detaches whatever the list has now. *)
(*                                                                         *)
(* Attachments are numbered by the order in which they are made, 0 is      *)
(* none.  A request that has ended leaves its place to a later one.        *)
(***************************************************************************)
EXTENDS Naturals

CONSTANTS
  MaxAtts,  \* attachments ever made (a bound)
  MaxReqs   \* requests of the page's user under way at a time (a bound)

\* there may be an attachment at the beginning
ASSUME BoundsAssumption == MaxAtts \in Nat \ {0} /\ MaxReqs \in Nat

VARIABLES
  kind,     \* is the host a "vm" or a "cluster"
  addr,     \* the attachment whose address the virtual machine reports
  atts,     \* the state of every attachment at the service
  created,  \* how many there have been
  open,     \* is the page open
  query,    \* the page's two queries
  dialog,   \* its dialogs' flags; detach is what the user picked, and 0 when closed
  reqs,     \* the requests under way
  others,   \* history: another user attached or detached
  stray,    \* history: a detach under way lost its answer or its dialog
  attached  \* history: attachments whose dialog closed on success, not removed since

service == <<addr, atts, created>>
page == <<open, query, dialog>>
history == <<others, stray, attached>>
vars == <<kind, service, page, reqs, history>>

Atts == 1..MaxAtts
ReqIds == 1..MaxReqs
AttStates == {"none", "pending", "ready", "failed", "deleting"}
Queries == {"host", "atts"}
Kinds == {"attach", "detach"}
UnderWay == {"sent", "applied", "refetching", "listing"}

Data(q) == IF q = "host" THEN 0..MaxAtts ELSE [Atts -> AttStates]
Caches(q) == [status : {"pending", "success", "error"}, data : Data(q),
              fetch : {"none", "sent", "served"}, got : Data(q)]
NoData == [q \in Queries |->
  IF q = "host" THEN 0 ELSE [i \in Atts |-> "none"]]

\* att is the attachment that the request makes or removes; own tells whether
\* the dialog that sent it is still there.
Requests == [at : UnderWay \cup {"unused"}, kind : Kinds, att : 0..MaxAtts, own : BOOLEAN]
Unused == [at |-> "unused", kind |-> "attach", att |-> 0, own |-> FALSE]

TypeOK ==
  /\ kind \in {"vm", "cluster"}
  /\ addr \in 0..MaxAtts
  /\ atts \in [Atts -> AttStates]
  /\ created \in 0..MaxAtts
  /\ open \in BOOLEAN
  /\ \A q \in Queries : query[q] \in Caches(q)
  /\ dialog \in [attach : BOOLEAN, detach : 0..MaxAtts]
  /\ reqs \in [ReqIds -> Requests]
  /\ others \in BOOLEAN /\ stray \in BOOLEAN
  /\ attached \subseteq Atts

\* the cache of a page that was not open for some minutes
Empty == [q \in Queries |->
  [status |-> "pending", data |-> NoData[q], fetch |-> "none", got |-> NoData[q]]]

NoDialog == [attach |-> FALSE, detach |-> 0]

Init ==
  /\ kind \in {"vm", "cluster"}
  /\ created \in {0, 1}
  /\ atts = [i \in Atts |-> IF i <= created THEN "ready" ELSE "none"]
  /\ addr = IF kind = "vm" THEN created ELSE 0
  /\ open = FALSE /\ dialog = NoDialog
  /\ query = Empty
  /\ reqs = [n \in ReqIds |-> Unused]
  /\ others = FALSE /\ stray = FALSE /\ attached = {}

\* a query whose fetch starts; one in flight is cancelled
Started(c) == [c EXCEPT !.fetch = "sent", !.got = c.data]

-----------------------------------------------------------------------------
(* What the page shows                                                     *)

\* The content, with the dialogs and the list in it, is only there while the
\* host's query has no error.
ShownWith(o, qs) == o /\ qs["host"].status = "success"
Shown == ShownWith(open, query)
Mounted(q) == IF q = "host" THEN open ELSE Shown

\* the attachment that a list shows
Newest(list) ==
  LET S == {i \in Atts : list[i] # "none"}
  IN  IF S = {} THEN 0 ELSE CHOOSE i \in S : \A j \in S : j <= i

AddrShown == query["host"].data
Current == Newest(query["atts"].data)
CurrentIn(S) == Current # 0 /\ query["atts"].data[Current] \in S

(* Definitions named Fault... are no part of the specification: each is    *)
(* the definition after it with one plausible mistake, which a property    *)
(* must notice.                                                            *)

\* a cluster's page detaches what its list has now, too
FaultTarget == IF dialog.detach # 0 THEN Current ELSE 0

\* the attachment of the detach dialog on the screen
Target == IF dialog.detach # 0 /\ kind = "vm" THEN Current ELSE dialog.detach

Pending(k) == \E n \in ReqIds : reqs[n].kind = k /\ reqs[n].own /\ reqs[n].at \in UnderWay
DialogOn(k) == IF k = "attach" THEN dialog.attach ELSE Target # 0
Idle == Shown /\ \A k \in Kinds : ~ DialogOn(k)

MayAttach ==
  /\ query["atts"].status = "success"
  /\ \/ kind = "cluster" /\ Current = 0
     \/ /\ kind = "vm" /\ AddrShown = 0
        /\ query["atts"].fetch = "none"
        /\ ~ CurrentIn({"pending", "failed"})

MayDetach ==
  /\ query["atts"].status = "success"
  /\ \/ kind = "cluster" /\ CurrentIn({"ready", "failed"})
     \/ kind = "vm" /\ (IF AddrShown = 0 THEN CurrentIn({"failed"})
                        ELSE CurrentIn({"pending", "ready", "failed"}))

-----------------------------------------------------------------------------
(* Rendering                                                               *)

\* a detach leaves its dialog open
FaultClosed(N) ==
  [attach |-> dialog.attach /\ ~ \E n \in N : reqs[n].own /\ reqs[n].kind = "attach",
   detach |-> dialog.detach]

\* onClose or onSuccess of the dialogs whose requests N have ended
Closed(N) ==
  LET ends(k) == \E n \in N : reqs[n].own /\ reqs[n].kind = k
  IN  [attach |-> dialog.attach /\ ~ ends("attach"),
       detach |-> IF ends("detach") THEN 0 ELSE dialog.detach]

\* The page is rendered with queries qs, if it is open at all (o), after
\* requests N have ended and requests L have got as far as the list of IPs.
\* What a request does at its end it does before, with the dialog still there.
Rendered(o, qs, N, L) ==
  LET shown == ShownWith(o, qs)
      d == Closed(N)
      gone(n) == \/ ~ shown
                 \/ /\ kind = "vm" /\ reqs[n].kind = "detach"
                    /\ Newest(qs["atts"].data) = 0
  IN  /\ open' = o
      /\ dialog' = IF shown THEN d ELSE NoDialog
      /\ query' = CASE ~ o -> Empty
                    [] shown /\ ~ Shown /\ qs["atts"].fetch = "none" ->
                         [qs EXCEPT !["atts"] = Started(@)]
                    [] OTHER -> qs
      /\ reqs' = [n \in ReqIds |->
           CASE n \in N -> Unused
             [] n \in L -> [reqs[n] EXCEPT !.at = "listing"]
             [] OTHER -> IF reqs[n].at \in UnderWay /\ gone(n)
                         THEN [reqs[n] EXCEPT !.own = FALSE] ELSE reqs[n]]
      /\ stray' = (stray \/ \E n \in ReqIds \ N :
                    gone(n) /\ reqs[n].own /\ reqs[n].kind = "detach")
      /\ attached' = attached \cup
           {reqs[n].att : n \in {m \in N : reqs[m].own /\ reqs[m].kind = "attach"}}

-----------------------------------------------------------------------------
(* The user                                                                *)

\* Visits are so far apart that the cache of the last one was collected.
Open ==
  /\ ~ open
  /\ Rendered(TRUE, [Empty EXCEPT !["host"] = Started(@)], {}, {})
  /\ UNCHANGED <<kind, service, others>>

Leave ==
  /\ open
  /\ Rendered(FALSE, Empty, {}, {})
  /\ UNCHANGED <<kind, service, others>>

OpenAttach ==
  /\ Idle /\ MayAttach
  /\ dialog' = [dialog EXCEPT !.attach = TRUE]
  /\ UNCHANGED <<kind, service, open, query, reqs, history>>

OpenDetach ==
  /\ Idle /\ MayDetach
  /\ dialog' = [dialog EXCEPT !.detach = Current]
  /\ UNCHANGED <<kind, service, open, query, reqs, history>>

\* Cancel, X or Escape: not while the dialog's request is under way
Dismiss(k) ==
  /\ Shown /\ DialogOn(k) /\ ~ Pending(k)
  /\ dialog' = IF k = "attach" THEN [dialog EXCEPT !.attach = FALSE] ELSE [dialog EXCEPT !.detach = 0]
  /\ UNCHANGED <<kind, service, open, query, reqs, history>>

\* the dialog's button, at first and after an error
Submit(k) ==
  /\ Shown /\ DialogOn(k) /\ ~ Pending(k)
  /\ \E n \in ReqIds :
       /\ reqs[n].at = "unused" /\ \A m \in ReqIds : reqs[m].at = "unused" => n <= m
       /\ reqs' = [reqs EXCEPT ![n] =
            [at |-> "sent", kind |-> k, att |-> IF k = "detach" THEN Target ELSE 0, own |-> TRUE]]
  /\ UNCHANGED <<kind, service, page, history>>

-----------------------------------------------------------------------------
(* The service                                                             *)

\* "Only one ExternalIPAttachment may exist per ComputeInstance"
Accepts == /\ created < MaxAtts
           /\ kind = "vm" => \A i \in Atts : atts[i] = "none"

Make == /\ Accepts
        /\ created' = created + 1
        /\ atts' = [atts EXCEPT ![created'] = "pending"]

Remove(i) == /\ atts' = [atts EXCEPT ![i] = "deleting"]
             /\ attached' = attached \ {i}

ApplyAttach(n) ==
  /\ reqs[n].at = "sent" /\ reqs[n].kind = "attach"
  /\ Make
  /\ reqs' = [reqs EXCEPT ![n].at = "applied", ![n].att = created']
  /\ UNCHANGED <<kind, addr, page, history>>

ApplyDetach(n) ==
  /\ reqs[n].at = "sent" /\ reqs[n].kind = "detach"
  /\ atts[reqs[n].att] # "none"
  /\ Remove(reqs[n].att)
  /\ reqs' = [reqs EXCEPT ![n].at = "applied"]
  /\ UNCHANGED <<kind, addr, created, page, others, stray>>

\* a refused request keeps its place
FaultRefuse(n) ==
  /\ reqs[n].at \in {"sent", "applied"}
  /\ reqs' = [reqs EXCEPT ![n].at = "refused"]
  /\ stray' = (stray \/ (reqs[n].at = "applied" /\ reqs[n].kind = "detach"))
  /\ UNCHANGED <<kind, service, page, others, attached>>

\* The request is refused, does not arrive, or its answer does not: the dialog
\* shows an error and takes input again.
Refuse(n) ==
  /\ reqs[n].at \in {"sent", "applied"}
  /\ reqs' = [reqs EXCEPT ![n] = Unused]
  /\ stray' = (stray \/ (reqs[n].at = "applied" /\ reqs[n].kind = "detach"))
  /\ UNCHANGED <<kind, service, page, others, attached>>

\* An attachment becomes ready or fails, is tried again, or is gone at last.
Progress(i) ==
  /\ \E s \in AttStates :
       /\ <<atts[i], s>> \in {<<"pending", "ready">>, <<"pending", "failed">>,
                              <<"failed", "ready">>, <<"deleting", "none">>}
       /\ atts' = [atts EXCEPT ![i] = s]
  /\ UNCHANGED <<kind, addr, created, page, reqs, history>>

\* The virtual machine reports its address some time later.
Report ==
  /\ kind = "vm"
  /\ addr' \in {i \in Atts : atts[i] = "ready"} \cup {0}
  /\ addr' # addr /\ (addr # 0 => atts[addr] # "ready")
  /\ UNCHANGED <<kind, atts, created, page, reqs, history>>

\* Another user attaches or detaches.
OthersAct ==
  /\ ~ others /\ others' = TRUE
  /\ \/ Make /\ UNCHANGED attached
     \/ /\ \E i \in Atts : atts[i] \in {"pending", "ready", "failed"} /\ Remove(i)
        /\ UNCHANGED created
  /\ UNCHANGED <<kind, addr, page, reqs, stray>>

-----------------------------------------------------------------------------
(* Answers                                                                 *)

Waiting(q) == {n \in ReqIds : q = "atts" /\ reqs[n].at = "refetching"}
\* An attach goes on to fetch the IPs, which its own dialog lists.
Listing(q) == {n \in Waiting(q) : reqs[n].kind = "attach" /\ reqs[n].own}

\* the invalidation joins the fetch that is already in flight
FaultAnswered(n) ==
  /\ reqs[n].at = "applied"
  /\ IF Shown
     THEN /\ query' = IF query["atts"].fetch = "none"
                      THEN [query EXCEPT !["atts"] = Started(@)] ELSE query
          /\ reqs' = [reqs EXCEPT ![n].at = "refetching"]
          /\ UNCHANGED <<open, dialog, stray, attached>>
     ELSE Rendered(open, query, {n}, {})
  /\ UNCHANGED <<kind, service, others>>

\* onSuccess invalidates the query: on the screen it is fetched anew, and the
\* request ends with this fetch; else the request ends now.
Answered(n) ==
  /\ reqs[n].at = "applied"
  /\ IF Shown
     THEN /\ query' = [query EXCEPT !["atts"] = Started(@)]
          /\ reqs' = [reqs EXCEPT ![n].at = "refetching"]
          /\ UNCHANGED <<open, dialog, stray, attached>>
     ELSE Rendered(open, query, {n}, {})
  /\ UNCHANGED <<kind, service, others>>

IpsListed(n) ==
  /\ reqs[n].at = "listing"
  /\ Rendered(open, query, {n}, {})
  /\ UNCHANGED <<kind, service, others>>

\* the refetch interval, or "Try again" on the error page, which starts over
Poll(q) ==
  /\ Mounted(q)
  /\ query[q].fetch = "none" \/ (q = "host" /\ query[q].status = "error")
  /\ query' = [query EXCEPT ![q] = Started(@)]
  /\ UNCHANGED <<kind, service, open, dialog, reqs, history>>

\* The list on its way may be overtaken by the service; a host's data are few
\* enough to be read as they arrive.
Respond ==
  /\ query["atts"].fetch = "sent"
  /\ query' = [query EXCEPT !["atts"].fetch = "served", !["atts"].got = atts]
  /\ UNCHANGED <<kind, service, open, dialog, reqs, history>>

Loaded(q) ==
  /\ query[q].fetch = (IF q = "host" THEN "sent" ELSE "served")
  /\ Rendered(open, [query EXCEPT ![q].status = "success", ![q].fetch = "none",
                ![q].data = IF q = "host" THEN addr ELSE query[q].got],
              Waiting(q) \ Listing(q), Listing(q))
  /\ UNCHANGED <<kind, service, others>>

\* The fetch failed, and so did its one retry.
LoadFailed(q) ==
  /\ query[q].fetch # "none"
  /\ Rendered(open, [query EXCEPT ![q].status = "error", ![q].got = query[q].data,
                                  ![q].fetch = "none"],
              Waiting(q) \ Listing(q), Listing(q))
  /\ UNCHANGED <<kind, service, others>>

-----------------------------------------------------------------------------
Request(n) ==
  \/ ApplyAttach(n) \/ ApplyDetach(n) \/ Refuse(n)
  \/ Answered(n) \/ IpsListed(n)

Next ==
  \/ Open \/ Leave \/ OpenAttach \/ OpenDetach
  \/ \E k \in Kinds : Dismiss(k) \/ Submit(k)
  \/ \E n \in ReqIds : Request(n)
  \/ \E i \in Atts : Progress(i)
  \/ Report \/ OthersAct \/ Respond
  \/ \E q \in Queries : Poll(q) \/ Loaded(q) \/ LoadFailed(q)

Spec == Init /\ [][Next]_vars

-----------------------------------------------------------------------------
(* Properties                                                              *)

Sends(n, k) == reqs[n].at = "unused" /\ reqs'[n].at = "sent" /\ reqs'[n].kind = k

\* A user who is alone detaches the attachment that was picked in the menu,
\* not one that the list has in its place by then.  A cluster's page promises
\* this whatever happens; a virtual machine's no longer after an answer was
\* lost, or the list had no attachment while a detach was under way: the flag
\* stays, and the dialog comes back by itself with the next attachment.
DetachesThePicked ==
  [][\A n \in ReqIds : Sends(n, "detach") =>
       \/ reqs'[n].att = dialog.detach
       \/ kind = "vm" /\ (others \/ stray)]_vars

\* The page does not offer to attach a second address while the first, whose
\* dialog closed on success, is there: its list was fetched anew before.  A
\* virtual machine's page offers it again once the list says "ready" and until
\* the other query has the address.
AttachesOnce ==
  [][~ dialog.attach /\ dialog'.attach =>
       \A i \in attached :
         /\ atts[i] \notin {"pending", "failed"}
         /\ kind = "cluster" => atts[i] # "ready"]_vars

=============================================================================
