------------------------- MODULE ExternalIps_proofs -------------------------
(***************************************************************************)
(* Proofs about ExternalIps for any number of attachments and requests:    *)
(* the types, that a user who is alone detaches the attachment that was    *)
(* picked, and that no page offers to attach an address twice.             *)
(***************************************************************************)
EXTENDS ExternalIps, Integers, WellFoundedInduction, TLAPS

\* the tuples that UNCHANGED names
USE DEF vars, service, page, history

-----------------------------------------------------------------------------
(* The inductive invariant.                                                *)

Active == {"pending", "ready", "failed"}

\* the query of the attachments
List == query["atts"]

\* both queries, each with data of its own
Qs == {qs \in [Queries -> Caches("host") \cup Caches("atts")] :
         \A q \in Queries : qs[q] \in Caches(q)}

\* A virtual machine has at most one attachment, now and in every answer.
One(v) == \A i, j \in Atts : v[i] # "none" /\ v[j] # "none" => i = j
OneInv == kind = "vm" => One(atts) /\ One(List.data) /\ One(List.got)

\* An answer v knew of attachment i, if it is still there, and no state that it
\* has left can come again.
Seen(i, v) == atts[i] \in Active => v[i] \in Active /\ (v[i] = "ready" => atts[i] = "ready")
InData(i) == List.status = "success" => Seen(i, List.data)
InGot(i) == List.fetch = "served" => Seen(i, List.got)

\* The page knows of every attachment whose dialog closed on success; so will an
\* answer on its way.
KnownInv ==
  /\ attached \subseteq 1..created
  /\ \A i \in attached : InData(i) /\ InGot(i)

\* What a request that is under way implies; it is this that the page waits for
\* before its dialog closes.
RequestInv(n) ==
  LET r == reqs[n] IN
  /\ r.own => r.at # "unused" /\ Shown
  /\ r.kind = "detach" => r.att # 0 /\ r.at \in {"sent", "applied", "refetching"}
  /\ r.kind = "attach" /\ r.at \in {"applied", "refetching", "listing"} => r.att \in 1..created
  /\ r.kind = "attach" /\ r.own =>
       /\ r.at \in {"refetching", "listing"} => InGot(r.att)
       /\ r.at = "listing" => InData(r.att)

\* On the screen, at the service and in the answer on its way
Steady(i) ==
  /\ List.data[i] \in Active /\ atts[i] \in Active
  /\ List.fetch = "served" => List.got[i] \in Active

Unknown == \E n \in ReqIds : reqs[n].kind = "detach" /\ reqs[n].at = "applied"
Removing == \E n \in ReqIds : reqs[n].kind = "detach" /\ reqs[n].at \in {"applied", "refetching"}

\* Of a user who is alone: a detach under way is of the picked attachment, and
\* its dialog is there; without one the picked attachment is on the screen.
AloneInv ==
  kind = "vm" /\ ~ others /\ ~ stray =>
    /\ \A n \in ReqIds : reqs[n].kind = "detach" =>
         /\ reqs[n].own /\ reqs[n].att = dialog.detach
         /\ \A m \in ReqIds : reqs[m].kind = "detach" => m = n
    /\ ~ Unknown /\ List.fetch = "served" =>
         \A i \in Atts : List.got[i] \in Active => atts[i] \in Active
    /\ ~ Removing =>
         /\ dialog.detach # 0 => Steady(dialog.detach)
         /\ List.status = "success" => \A i \in Atts : List.data[i] \in Active => Steady(i)

IInv ==
  /\ TypeOK /\ query \in Qs
  /\ OneInv /\ KnownInv /\ AloneInv
  /\ \A n \in ReqIds : RequestInv(n)

-----------------------------------------------------------------------------
(* What a list shows.                                                      *)

\* A set of attachments that is not empty has a greatest one.
LEMMA HasNewest ==
  ASSUME NEW S \in SUBSET Atts, S # {}
  PROVE  \E i \in S : \A j \in S : j <= i
<1> DEFINE n == MaxAtts
           T == {n - i : i \in S}
           R == {p \in Nat \X Nat : p[1] < p[2]}
<1>0. n \in Nat /\ \A i \in S : i \in Nat /\ i <= n
  BY BoundsAssumption DEF Atts
<1> HIDE DEF n
<1>1. T \subseteq Nat /\ T # {}
  BY <1>0
<1>2. IsWellFoundedOn(R, Nat)
  BY NatLessThanWellFounded DEF OpToRel
<1> HIDE DEF R
<1>3. PICK x \in T : \A y \in T : ~ (<<y, x>> \in R)
  BY <1>1, <1>2, WFMin
<1>4. PICK i \in S : x = n - i
  OBVIOUS
<1>5. ASSUME NEW j \in S PROVE j <= i
  <2>1. n - j \in T /\ n - j \in Nat /\ n - i \in Nat /\ i \in Nat /\ j \in Nat
    BY <1>0, <1>1
  <2>2. <<n - j, n - i>> \notin R
    BY <1>3, <1>4, <2>1
  <2>3. ~ (n - j < n - i)
    BY <2>1, <2>2 DEF R
  <2> QED
    BY <1>0, <2>1, <2>3
<1> QED
  BY <1>5

\* A list shows none only when there is none, and else one of its own.
LEMMA NewestOf ==
  ASSUME NEW v
  PROVE  /\ Newest(v) \in 0..MaxAtts
         /\ Newest(v) = 0 => \A i \in Atts : v[i] = "none"
         /\ Newest(v) # 0 => Newest(v) \in Atts /\ v[Newest(v)] # "none"
<1> DEFINE S == {i \in Atts : v[i] # "none"}
<1>1. CASE S = {}
  BY <1>1, BoundsAssumption DEF Newest
<1>2. CASE S # {}
  <2>1. \E i \in S : \A j \in S : j <= i
    BY <1>2, HasNewest
  <2>2. Newest(v) \in S
    BY <1>2, <2>1 DEF Newest
  <2>3. Atts \subseteq 0..MaxAtts /\ 0 \notin Atts
    BY BoundsAssumption DEF Atts
  <2> QED
    BY <2>2, <2>3
<1> QED
  BY <1>1, <1>2

-----------------------------------------------------------------------------
(* Queries and requests.                                                   *)

\* The fields of the attachments' cache.
LEMMA ListType ==
  ASSUME NEW qs \in Qs
  PROVE  /\ qs["host"] \in Caches("host") /\ qs["atts"] \in Caches("atts")
         /\ qs["atts"].data \in [Atts -> AttStates] /\ qs["atts"].got \in [Atts -> AttStates]
         /\ qs["host"].data \in 0..MaxAtts
         /\ \A q \in Queries : \A c \in Caches(q) :
              /\ [qs EXCEPT ![q] = c] \in Qs /\ [qs EXCEPT ![q] = c][q] = c
              /\ \A p \in Queries \ {q} : [qs EXCEPT ![q] = c][p] = qs[p]
<1>1. qs["host"] \in Caches("host") /\ qs["atts"] \in Caches("atts")
  BY DEF Qs, Queries
<1>2. /\ qs["atts"].data \in [Atts -> AttStates] /\ qs["atts"].got \in [Atts -> AttStates]
      /\ qs["host"].data \in 0..MaxAtts
  BY <1>1 DEF Caches, Data
<1>3. ASSUME NEW q \in Queries, NEW c \in Caches(q)
      PROVE  /\ [qs EXCEPT ![q] = c] \in Qs /\ [qs EXCEPT ![q] = c][q] = c
             /\ \A p \in Queries \ {q} : [qs EXCEPT ![q] = c][p] = qs[p]
  <2>1. c \in Caches("host") \cup Caches("atts")
    BY DEF Queries
  <2> QED
    BY <2>1 DEF Qs
<1> QED
  BY <1>1, <1>2, <1>3

\* A cache whose fetch starts is one; so is that of a page just opened.
LEMMA StartedType ==
  /\ \A q \in Queries : \A c \in Caches(q) :
       /\ Started(c) \in Caches(q)
       /\ Started(c).status = c.status /\ Started(c).data = c.data
       /\ Started(c).fetch = "sent" /\ Started(c).got = c.data
  /\ Empty \in Qs
  /\ Empty["atts"].status = "pending" /\ Empty["atts"].fetch = "none"
  /\ Empty["host"].status = "pending"
  /\ \A i \in Atts : Empty["atts"].data[i] = "none" /\ Empty["atts"].got[i] = "none"
<1>1. ASSUME NEW q \in Queries, NEW c \in Caches(q)
      PROVE  /\ Started(c) \in Caches(q)
             /\ Started(c).status = c.status /\ Started(c).data = c.data
             /\ Started(c).fetch = "sent" /\ Started(c).got = c.data
  BY DEF Started, Caches
<1>2. Empty["host"] = [status |-> "pending", data |-> 0, fetch |-> "none", got |-> 0]
  BY DEF Empty, NoData, Queries
<1>3. Empty["atts"] = [status |-> "pending", data |-> [i \in Atts |-> "none"], fetch |-> "none",
                       got |-> [i \in Atts |-> "none"]]
  BY DEF Empty, NoData, Queries
<1>4. Empty["host"] \in Caches("host") /\ Empty["atts"] \in Caches("atts")
  BY <1>2, <1>3, BoundsAssumption DEF Caches, Data, AttStates
<1>5. Empty \in Qs
  <2>1. \A q \in Queries : Empty[q] \in Caches(q)
    BY <1>4 DEF Queries
  <2>2. Empty = [q \in Queries |-> Empty[q]]
    BY DEF Empty
  <2>3. \A q \in Queries : Empty[q] \in Caches("host") \cup Caches("atts")
    BY <1>4 DEF Queries
  <2> QED
    BY <2>1, <2>2, <2>3 DEF Qs
<1> QED
  BY <1>1, <1>2, <1>3, <1>5

\* A request that moves on, or is forgotten, is a request.
LEMMA RequestType ==
  ASSUME NEW r \in Requests
  PROVE  /\ Unused \in Requests /\ [r EXCEPT !.own = FALSE] \in Requests
         /\ \A a \in UnderWay : [r EXCEPT !.at = a] \in Requests
         /\ \A a \in UnderWay, i \in 0..MaxAtts : [r EXCEPT !.at = a, !.att = i] \in Requests
<1>1. 0 \in 0..MaxAtts
  BY BoundsAssumption
<1>2. Unused \in Requests
  BY <1>1 DEF Requests, Unused, Kinds
<1>3. [r EXCEPT !.own = FALSE] \in Requests
  BY DEF Requests
<1>4. \A a \in UnderWay : [r EXCEPT !.at = a] \in Requests
  BY DEF Requests
<1>5. \A a \in UnderWay, i \in 0..MaxAtts : [r EXCEPT !.at = a, !.att = i] \in Requests
  BY DEF Requests
<1> QED
  BY <1>2, <1>3, <1>4, <1>5

-----------------------------------------------------------------------------
(* Rendering.                                                              *)

\* What becomes of a request.
LEMMA RenderedRequests ==
  ASSUME TypeOK, NEW o, NEW qs, NEW N \in SUBSET ReqIds, NEW L \in SUBSET ReqIds,
         N \cap L = {}, Rendered(o, qs, N, L), NEW n \in ReqIds
  PROVE  /\ reqs'[n] \in Requests
         /\ n \in N => reqs'[n] = Unused
         /\ n \notin N =>
              /\ reqs'[n].kind = reqs[n].kind /\ reqs'[n].att = reqs[n].att
              /\ reqs'[n].at = IF n \in L THEN "listing" ELSE reqs[n].at
              /\ reqs'[n].own => reqs[n].own
              /\ reqs'[n].own /\ n \notin L /\ reqs[n].at \in UnderWay => ShownWith(o, qs)
              /\ reqs[n].kind = "detach" /\ reqs[n].own /\ ~ stray' =>
                   ShownWith(o, qs) /\ (n \notin L => reqs'[n].own)
<1> DEFINE gone == \/ ~ ShownWith(o, qs)
                   \/ /\ kind = "vm" /\ reqs[n].kind = "detach"
                      /\ Newest(qs["atts"].data) = 0
<1>1. reqs[n] \in Requests
  BY DEF TypeOK
<1>2. reqs'[n] = CASE n \in N -> Unused
                   [] n \in L -> [reqs[n] EXCEPT !.at = "listing"]
                   [] OTHER -> IF reqs[n].at \in UnderWay /\ gone
                               THEN [reqs[n] EXCEPT !.own = FALSE] ELSE reqs[n]
  BY DEF Rendered
<1>3. n \notin N /\ gone /\ reqs[n].own /\ reqs[n].kind = "detach" => stray'
  BY DEF Rendered
<1>4. ~ ShownWith(o, qs) => gone
  OBVIOUS
<1> HIDE DEF gone
<1>5. /\ Unused \in Requests /\ [reqs[n] EXCEPT !.own = FALSE] \in Requests
      /\ [reqs[n] EXCEPT !.at = "listing"] \in Requests
  BY <1>1, RequestType DEF UnderWay
<1>6. CASE n \in N
  <2>1. reqs'[n] = Unused
    BY <1>2, <1>6
  <2> QED
    BY <1>5, <1>6, <2>1
<1>7. CASE n \notin N /\ n \in L
  <2>1. reqs'[n] = [reqs[n] EXCEPT !.at = "listing"]
    BY <1>2, <1>7
  <2> QED
    BY <1>1, <1>3, <1>4, <1>5, <1>7, <2>1 DEF Requests
<1>8. CASE n \notin N /\ n \notin L
  <2>1. reqs'[n] = IF reqs[n].at \in UnderWay /\ gone
                   THEN [reqs[n] EXCEPT !.own = FALSE] ELSE reqs[n]
    BY <1>2, <1>8
  <2> QED
    BY <1>1, <1>3, <1>4, <1>5, <1>8, <2>1 DEF Requests
<1> QED
  BY <1>6, <1>7, <1>8

\* What becomes of the page: its list's data are those of qs unless it is gone,
\* and no answer arrives by itself.
LEMMA RenderedPage ==
  ASSUME TypeOK, query \in Qs, NEW o \in BOOLEAN, NEW qs \in Qs,
         NEW N \in SUBSET ReqIds, NEW L, Rendered(o, qs, N, L)
  PROVE  /\ open' \in BOOLEAN /\ query' \in Qs
         /\ dialog' \in [attach : BOOLEAN, detach : 0..MaxAtts]
         /\ Shown' = ShownWith(o, qs)
         /\ List'.status \in {"pending", qs["atts"].status}
         /\ List'.status = "success" => List'.data = qs["atts"].data
         /\ List'.fetch = "served" => qs["atts"].fetch = "served" /\ List'.got = qs["atts"].got
         /\ ShownWith(o, qs) => List'.data = qs["atts"].data
         /\ dialog'.attach => dialog.attach
         /\ dialog'.detach \in {0, dialog.detach}
         /\ ShownWith(o, qs) =>
              dialog'.detach = IF \E n \in N : reqs[n].own /\ reqs[n].kind = "detach"
                               THEN 0 ELSE dialog.detach
         /\ ~ ShownWith(o, qs) => dialog'.detach = 0
         /\ One(qs["atts"].data) /\ One(qs["atts"].got) => One(List'.data) /\ One(List'.got)
<1> DEFINE c == qs["atts"]
<1>1. c \in Caches("atts") /\ "atts" \in Queries
  BY ListType DEF Queries
<1>2. \/ query' = Empty /\ ~ o
      \/ query' = [qs EXCEPT !["atts"] = Started(c)] /\ o
      \/ query' = qs /\ o
  BY DEF Rendered, ShownWith
<1>3. /\ query' \in Qs
      /\ o => query'["host"] = qs["host"]
      /\ \/ List' = Empty["atts"] /\ ~ o
         \/ List' = Started(c)
         \/ List' = c
  <2>1. "host" \in Queries \ {"atts"}
    BY DEF Queries
  <2>2. CASE query' = Empty /\ ~ o
    BY <2>2, StartedType DEF List
  <2>3. CASE query' = [qs EXCEPT !["atts"] = Started(c)] /\ o
    <3>1. Started(c) \in Caches("atts")
      BY <1>1, StartedType
    <3> DEFINE qn == [qs EXCEPT !["atts"] = Started(c)]
    <3>2. qn \in Qs /\ qn["atts"] = Started(c) /\ qn["host"] = qs["host"]
      BY <1>1, <2>1, <3>1, ListType
    <3> QED
      BY <2>3, <3>2 DEF List
  <2>4. CASE query' = qs /\ o
    BY <2>4 DEF List
  <2> QED
    BY <1>2, <2>2, <2>3, <2>4
<1>4. open' = o
  BY DEF Rendered
<1>5. Shown' = ShownWith(o, qs)
  BY <1>3, <1>4 DEF Shown, ShownWith
<1>6. /\ dialog \in [attach : BOOLEAN, detach : 0..MaxAtts]
      /\ dialog' = IF ShownWith(o, qs) THEN Closed(N) ELSE NoDialog
  BY DEF TypeOK, Rendered
<1>7. /\ dialog' \in [attach : BOOLEAN, detach : 0..MaxAtts]
      /\ dialog'.attach => dialog.attach
      /\ dialog'.detach \in {0, dialog.detach}
      /\ ShownWith(o, qs) =>
           dialog'.detach = IF \E n \in N : reqs[n].own /\ reqs[n].kind = "detach"
                            THEN 0 ELSE dialog.detach
      /\ ~ ShownWith(o, qs) => dialog'.detach = 0
  <2>1. 0 \in 0..MaxAtts
    BY BoundsAssumption
  <2>2. CASE ShownWith(o, qs)
    BY <1>6, <2>1, <2>2 DEF Closed
  <2>3. CASE ~ ShownWith(o, qs)
    BY <1>6, <2>1, <2>3 DEF NoDialog
  <2> QED
    BY <2>2, <2>3
<1>8. /\ List'.status \in {"pending", c.status}
      /\ List'.status = "success" => List'.data = c.data
      /\ List'.fetch = "served" => c.fetch = "served" /\ List'.got = c.got
      /\ o => List'.data = c.data
  BY <1>1, <1>3, StartedType
<1>9. One(c.data) /\ One(c.got) => One(List'.data) /\ One(List'.got)
  BY <1>1, <1>3, StartedType DEF One
<1> QED
  BY <1>3, <1>4, <1>5, <1>7, <1>8, <1>9 DEF ShownWith

\* The ways in which the page is rendered: its list is kept, thrown away, or the
\* end of a fetch has changed it.  The last two end no dialog of an attach; the
\* first ends only one that has waited for its list.
Kept(qs, N, L) ==
  /\ qs["atts"] = List /\ L = {}
  /\ \A n \in N : reqs[n].own => reqs[n].at = "listing"
Emptied(o, qs, N, L) ==
  /\ qs["atts"] = Empty["atts"] /\ ~ ShownWith(o, qs)
  /\ N = {} /\ L = {}
Landed(o, qs, N, L) ==
  /\ ShownWith(o, qs) = Shown
  /\ N = Waiting("atts") \ Listing("atts") /\ L = Listing("atts")
  /\ qs["atts"].fetch = "none" /\ qs["atts"].got = qs["atts"].data
  /\ \/ /\ List.fetch = "served"
        /\ qs["atts"].status = "success" /\ qs["atts"].data = List.got
     \/ qs["atts"].status = "error" /\ qs["atts"].data = List.data

Renders(o, qs, N, L) ==
  /\ o \in BOOLEAN /\ qs \in Qs /\ N \subseteq ReqIds /\ L \subseteq ReqIds
  /\ Kept(qs, N, L) \/ Emptied(o, qs, N, L) \/ Landed(o, qs, N, L)
  /\ Rendered(o, qs, N, L)
  /\ UNCHANGED <<kind, service, others>>

\* What rendering says of the requests that end and of those that list.
LEMMA RenderedEnds ==
  ASSUME IInv, NEW o, NEW qs, NEW N, NEW L, Renders(o, qs, N, L)
  PROVE  /\ N \cap L = {}
         /\ \A n \in L : reqs[n].kind = "attach" /\ reqs[n].at = "refetching" /\ reqs[n].own
         /\ L # {} => Landed(o, qs, N, L)
         /\ \A n \in N : reqs[n].own /\ reqs[n].kind = "attach" => reqs[n].at = "listing"
         /\ \A n \in N : reqs[n].own /\ reqs[n].kind = "detach" =>
              Landed(o, qs, N, L) /\ reqs[n].at = "refetching"
<1>1. N \subseteq ReqIds /\ L \subseteq ReqIds
  BY DEF Renders
<1>2. CASE Kept(qs, N, L)
  BY <1>1, <1>2 DEF Kept, IInv, RequestInv
<1>3. CASE Emptied(o, qs, N, L)
  BY <1>3 DEF Emptied
<1>4. CASE Landed(o, qs, N, L)
  BY <1>1, <1>4 DEF Landed, Waiting, Listing
<1> QED
  BY <1>2, <1>3, <1>4 DEF Renders

\* What rendering says of the list.
LEMMA RenderedList ==
  ASSUME IInv, NEW o, NEW qs, NEW N, NEW L, Renders(o, qs, N, L)
  PROVE  /\ \A i : InGot(i) => InGot(i)'
         /\ \A i : InGot(i) /\ InData(i) => InData(i)'
         /\ Landed(o, qs, N, L) => \A i : InGot(i) => InData(i)'
         /\ OneInv'
<1>1. /\ o \in BOOLEAN /\ qs \in Qs /\ N \subseteq ReqIds /\ Rendered(o, qs, N, L)
      /\ TypeOK /\ query \in Qs
      /\ kind' = kind /\ atts' = atts
  BY DEF Renders, IInv
<1>2. /\ List'.status \in {"pending", qs["atts"].status}
      /\ List'.status = "success" => List'.data = qs["atts"].data
      /\ List'.fetch = "served" => qs["atts"].fetch = "served" /\ List'.got = qs["atts"].got
      /\ One(qs["atts"].data) /\ One(qs["atts"].got) => One(List'.data) /\ One(List'.got)
  BY <1>1, RenderedPage
<1>3. \A i, v : Seen(i, v)' = Seen(i, v')
  BY <1>1 DEF Seen
<1>4. \A i : (InGot(i)' <=> (List'.fetch = "served" => Seen(i, List'.got)))
  BY <1>1 DEF Seen, InGot
<1>5. \A i : (InData(i)' <=> (List'.status = "success" => Seen(i, List'.data)))
  BY <1>1 DEF Seen, InData
<1>6. CASE Kept(qs, N, L)
  <2>1. qs["atts"] = List
    BY <1>6 DEF Kept
  <2> QED
    BY <1>1, <1>2, <1>4, <1>5, <1>6, <2>1 DEF InGot, InData, OneInv, IInv, Kept, Landed, One
<1>7. CASE Emptied(o, qs, N, L)
  <2>1. /\ qs["atts"].status = "pending" /\ qs["atts"].fetch = "none"
        /\ \A i \in Atts : qs["atts"].data[i] = "none" /\ qs["atts"].got[i] = "none"
    BY <1>7, StartedType DEF Emptied
  <2> QED
    BY <1>1, <1>2, <1>4, <1>5, <1>7, <2>1 DEF OneInv, IInv, One, Emptied, Landed
<1>8. CASE Landed(o, qs, N, L)
  <2>1. /\ qs["atts"].fetch = "none" /\ qs["atts"].got = qs["atts"].data
        /\ \/ /\ List.fetch = "served"
              /\ qs["atts"].status = "success" /\ qs["atts"].data = List.got
           \/ qs["atts"].status = "error" /\ qs["atts"].data = List.data
    BY <1>8 DEF Landed
  <2> QED
    BY <1>1, <1>2, <1>4, <1>5, <2>1 DEF InGot, OneInv, IInv, One
<1> QED
  BY <1>6, <1>7, <1>8 DEF Renders

\* What rendering says of the requests and of what they have attached.
LEMMA RenderedReqs ==
  ASSUME IInv, NEW o, NEW qs, NEW N, NEW L, Renders(o, qs, N, L)
  PROVE  TypeOK' /\ query' \in Qs /\ KnownInv' /\ \A n \in ReqIds : RequestInv(n)'
<1>1. /\ o \in BOOLEAN /\ qs \in Qs /\ N \subseteq ReqIds /\ L \subseteq ReqIds
      /\ Rendered(o, qs, N, L) /\ TypeOK /\ query \in Qs
      /\ kind' = kind /\ addr' = addr /\ atts' = atts /\ created' = created /\ others' = others
  BY DEF Renders, IInv
<1>2. /\ N \cap L = {}
      /\ \A n \in L : reqs[n].kind = "attach" /\ reqs[n].at = "refetching" /\ reqs[n].own
      /\ L # {} => Landed(o, qs, N, L)
      /\ \A n \in N : reqs[n].own /\ reqs[n].kind = "attach" => reqs[n].at = "listing"
  BY RenderedEnds
<1>3. /\ \A i : InGot(i) => InGot(i)'
      /\ \A i : InGot(i) /\ InData(i) => InData(i)'
      /\ Landed(o, qs, N, L) => \A i : InGot(i) => InData(i)'
  BY RenderedList
<1>4. /\ open' \in BOOLEAN /\ query' \in Qs
      /\ dialog' \in [attach : BOOLEAN, detach : 0..MaxAtts]
      /\ Shown' = ShownWith(o, qs)
  BY <1>1, RenderedPage
<1>5. created \in 0..MaxAtts /\ \A n \in ReqIds : RequestInv(n) /\ reqs[n] \in Requests
  BY <1>1 DEF IInv, TypeOK
<1>6. \A n \in ReqIds :
        /\ reqs'[n] \in Requests
        /\ n \in N => reqs'[n] = Unused
        /\ n \notin N =>
             /\ reqs'[n].kind = reqs[n].kind /\ reqs'[n].att = reqs[n].att
             /\ reqs'[n].at = IF n \in L THEN "listing" ELSE reqs[n].at
             /\ reqs'[n].own => reqs[n].own
             /\ reqs'[n].own /\ n \notin L /\ reqs[n].at \in UnderWay => ShownWith(o, qs)
  BY <1>1, <1>2, RenderedRequests
<1>7. /\ attached' = attached \cup {reqs[n].att : n \in {m \in N : reqs[m].own /\ reqs[m].kind = "attach"}}
      /\ stray' \in BOOLEAN
      /\ DOMAIN reqs' = ReqIds /\ reqs' = [n \in ReqIds |-> reqs'[n]]
  BY <1>1 DEF Rendered, TypeOK
<1>8. ASSUME NEW i \in attached'
      PROVE  i \in 1..created /\ InData(i)' /\ InGot(i)'
  <2>1. CASE i \in attached
    BY <1>3, <2>1 DEF IInv, KnownInv
  <2>2. CASE i \notin attached
    <3>1. PICK n \in N : reqs[n].own /\ reqs[n].kind = "attach" /\ i = reqs[n].att
      BY <1>7, <2>2
    <3>2. /\ reqs[n].at = "listing" /\ RequestInv(n)
      BY <1>1, <1>2, <1>5, <3>1
    <3>3. i \in 1..created /\ InGot(i) /\ InData(i)
      BY <3>1, <3>2 DEF RequestInv
    <3> QED
      BY <1>3, <3>3
  <2> QED
    BY <2>1, <2>2
<1>9. KnownInv'
  <2>1. attached' \subseteq 1..created
    BY <1>8
  <2>2. \A i \in attached' : InData(i)' /\ InGot(i)'
    BY <1>8
  <2> QED
    BY <1>1, <2>1, <2>2 DEF KnownInv
<1>10. TypeOK'
  <2>1. attached' \subseteq Atts
    BY <1>5, <1>8, BoundsAssumption DEF Atts
  <2>2. reqs' \in [ReqIds -> Requests]
    BY <1>6, <1>7
  <2>3. \A q \in Queries : query'[q] \in Caches(q)
    BY <1>4 DEF Qs
  <2> QED
    BY <1>1, <1>4, <1>7, <2>1, <2>2, <2>3 DEF TypeOK
<1>11. ASSUME NEW n \in ReqIds
       PROVE  RequestInv(n)'
  <2>1. CASE n \in N
    <3>1. reqs'[n] = Unused
      BY <1>6, <2>1
    <3> QED
      BY <3>1 DEF RequestInv, Unused
  <2>2. CASE n \in L
    <3>1. /\ reqs[n].kind = "attach" /\ reqs[n].at = "refetching" /\ reqs[n].own
          /\ Landed(o, qs, N, L) /\ n \notin N
      BY <1>2, <2>2
    <3>2. /\ reqs'[n].kind = "attach" /\ reqs'[n].att = reqs[n].att /\ reqs'[n].at = "listing"
      BY <1>6, <2>2, <3>1
    <3>3. reqs[n].att \in 1..created /\ InGot(reqs[n].att) /\ Shown
      BY <1>5, <3>1 DEF RequestInv
    <3>4. InGot(reqs[n].att)' /\ InData(reqs[n].att)'
      <4> DEFINE i == reqs[n].att
      <4> SUFFICES ASSUME NEW j, j = i PROVE InGot(j)' /\ InData(j)'
        BY <3>2 DEF InGot, InData, Seen
      <4> QED
        BY <1>3, <3>1, <3>3
    <3>5. Shown'
      BY <1>4, <3>1, <3>3 DEF Landed
    <3> QED
      BY <1>1, <3>2, <3>3, <3>4, <3>5 DEF RequestInv, InGot, InData, Seen
  <2>3. CASE n \notin N /\ n \notin L
    <3>1. /\ reqs'[n].kind = reqs[n].kind /\ reqs'[n].att = reqs[n].att
          /\ reqs'[n].at = reqs[n].at
          /\ reqs'[n].own => reqs[n].own
          /\ reqs'[n].own /\ reqs[n].at \in UnderWay => Shown'
          /\ reqs[n] \in Requests /\ RequestInv(n)
      BY <1>4, <1>5, <1>6, <2>3
    <3>2. reqs'[n].own => reqs'[n].at # "unused" /\ Shown'
      BY <3>1 DEF RequestInv, Requests
    <3>3. /\ reqs[n].kind = "attach" /\ reqs[n].own =>
             /\ reqs[n].at \in {"refetching", "listing"} => InGot(reqs[n].att)
             /\ reqs[n].at = "listing" => InData(reqs[n].att)
          /\ reqs[n].kind = "detach" =>
               reqs[n].att # 0 /\ reqs[n].at \in {"sent", "applied", "refetching"}
          /\ reqs[n].kind = "attach" /\ reqs[n].at \in {"applied", "refetching", "listing"}
               => reqs[n].att \in 1..created
      BY <3>1 DEF RequestInv
    <3>4. \A j : j = reqs[n].att =>
            /\ reqs[n].kind = "attach" /\ reqs[n].own =>
                 /\ reqs[n].at \in {"refetching", "listing"} => InGot(j)'
                 /\ reqs[n].at = "listing" => InData(j)'
      BY <1>3, <3>3
    <3>5. reqs'[n].kind = "attach" /\ reqs'[n].own =>
                 /\ reqs'[n].at \in {"refetching", "listing"} => InGot(reqs[n].att)'
                 /\ reqs'[n].at = "listing" => InData(reqs[n].att)'
      BY <3>1, <3>4 DEF InGot, InData, Seen
    <3> QED
      BY <1>1, <3>1, <3>2, <3>3, <3>5 DEF RequestInv, InGot, InData, Seen
  <2> QED
    BY <2>1, <2>2, <2>3
<1> QED
  BY <1>4, <1>9, <1>10, <1>11

\* What rendering says of a user who is alone.
LEMMA RenderedAlone ==
  ASSUME IInv, NEW o, NEW qs, NEW N, NEW L, Renders(o, qs, N, L)
  PROVE  AloneInv'
<1> DEFINE SteadyNow(i) == /\ List'.data[i] \in Active /\ atts[i] \in Active
                           /\ List'.fetch = "served" => List'.got[i] \in Active
<1>1. /\ o \in BOOLEAN /\ qs \in Qs /\ N \subseteq ReqIds /\ L \subseteq ReqIds
      /\ Rendered(o, qs, N, L) /\ TypeOK /\ query \in Qs
      /\ kind' = kind /\ atts' = atts /\ others' = others
  BY DEF Renders, IInv
<1>2. /\ N \cap L = {}
      /\ \A n \in L : reqs[n].kind = "attach"
      /\ \A n \in N : reqs[n].own /\ reqs[n].kind = "detach" =>
           Landed(o, qs, N, L) /\ reqs[n].at = "refetching"
  BY RenderedEnds
<1>3. \A n \in ReqIds :
        /\ n \in N => reqs'[n] = Unused
        /\ n \notin N =>
             /\ reqs'[n].kind = reqs[n].kind /\ reqs'[n].att = reqs[n].att
             /\ reqs'[n].at = IF n \in L THEN "listing" ELSE reqs[n].at
             /\ reqs[n].kind = "detach" /\ reqs[n].own /\ ~ stray' =>
                   ShownWith(o, qs) /\ (n \notin L => reqs'[n].own)
  BY <1>1, <1>2, RenderedRequests
<1>4. /\ List'.status \in {"pending", qs["atts"].status}
      /\ List'.status = "success" => List'.data = qs["atts"].data
      /\ List'.fetch = "served" => qs["atts"].fetch = "served" /\ List'.got = qs["atts"].got
      /\ ShownWith(o, qs) => List'.data = qs["atts"].data
      /\ dialog'.detach \in {0, dialog.detach}
      /\ ShownWith(o, qs) =>
           dialog'.detach = IF \E n \in N : reqs[n].own /\ reqs[n].kind = "detach"
                            THEN 0 ELSE dialog.detach
      /\ ~ ShownWith(o, qs) => dialog'.detach = 0
  BY <1>1, RenderedPage
<1>5. stray => stray'
  BY <1>1 DEF Rendered, TypeOK
<1> SUFFICES ASSUME kind = "vm", ~ others, ~ stray'
             PROVE  /\ \A n \in ReqIds : reqs'[n].kind = "detach" =>
                         /\ reqs'[n].own /\ reqs'[n].att = dialog'.detach
                         /\ \A m \in ReqIds : reqs'[m].kind = "detach" => m = n
                    /\ ~ Unknown' /\ List'.fetch = "served" =>
                         \A i \in Atts : List'.got[i] \in Active => atts[i] \in Active
                    /\ ~ Removing' =>
                         /\ dialog'.detach # 0 => SteadyNow(dialog'.detach)
                         /\ List'.status = "success" =>
                              \A i \in Atts : List'.data[i] \in Active => SteadyNow(i)
  BY <1>1 DEF AloneInv, Steady
<1>6. /\ \A n \in ReqIds : reqs[n].kind = "detach" =>
           /\ reqs[n].own /\ reqs[n].att = dialog.detach
           /\ \A m \in ReqIds : reqs[m].kind = "detach" => m = n
      /\ ~ Unknown /\ List.fetch = "served" =>
           \A i \in Atts : List.got[i] \in Active => atts[i] \in Active
      /\ ~ Removing =>
           /\ dialog.detach # 0 => Steady(dialog.detach)
           /\ List.status = "success" => \A i \in Atts : List.data[i] \in Active => Steady(i)
  BY <1>5 DEF IInv, AloneInv
<1>7. \A n \in ReqIds : n \notin N /\ reqs[n].kind = "detach" =>
        /\ n \notin L /\ reqs'[n].kind = "detach" /\ reqs'[n].at = reqs[n].at
        /\ reqs'[n].att = reqs[n].att /\ reqs'[n].own /\ ShownWith(o, qs)
  BY <1>2, <1>3, <1>6
<1>8. \A n \in ReqIds : reqs'[n].kind = "detach" => n \notin N /\ reqs[n].kind = "detach"
  BY <1>3 DEF Unused
<1>9. ASSUME NEW n \in ReqIds, reqs'[n].kind = "detach"
      PROVE  /\ reqs'[n].own /\ reqs'[n].att = dialog'.detach
             /\ \A m \in ReqIds : reqs'[m].kind = "detach" => m = n
  <2>1. n \notin N /\ reqs[n].kind = "detach"
    BY <1>8, <1>9
  <2>2. ~ \E m \in N : reqs[m].own /\ reqs[m].kind = "detach"
    BY <1>1, <1>6, <2>1
  <2> QED
    BY <1>4, <1>6, <1>7, <1>8, <2>1, <2>2
<1>10. Unknown => Unknown'
  <2> SUFFICES ASSUME NEW n \in ReqIds, reqs[n].kind = "detach", reqs[n].at = "applied"
               PROVE  Unknown'
    BY DEF Unknown
  <2>1. n \notin N
    BY <1>2, <1>6
  <2> QED
    BY <1>7, <2>1 DEF Unknown
<1>11. Removing /\ ~ Removing' => Landed(o, qs, N, L) /\ dialog'.detach = 0 /\ ~ Unknown
  <2> SUFFICES ASSUME NEW n \in ReqIds, reqs[n].kind = "detach",
                      reqs[n].at \in {"applied", "refetching"}, ~ Removing'
               PROVE  Landed(o, qs, N, L) /\ dialog'.detach = 0 /\ ~ Unknown
    BY DEF Removing
  <2>1. n \in N
    BY <1>7 DEF Removing
  <2>2. Landed(o, qs, N, L) /\ dialog'.detach = 0
    BY <1>2, <1>4, <1>6, <2>1
  <2>3. ~ Unknown
    BY <1>10 DEF Removing, Unknown
  <2> QED
    BY <2>2, <2>3
<1>12. Unknown => Removing
  BY DEF Unknown, Removing
<1>13. CASE Kept(qs, N, L)
  <2>1. qs["atts"] = List
    BY <1>13 DEF Kept
  <2>2. Removing /\ ~ Removing' => FALSE
    <3> SUFFICES ASSUME NEW n \in ReqIds, reqs[n].kind = "detach",
                        reqs[n].at \in {"applied", "refetching"}, ~ Removing'
                 PROVE  FALSE
      BY DEF Removing
    <3>1. n \in N
      BY <1>7 DEF Removing
    <3> QED
      BY <1>6, <1>13, <3>1 DEF Kept
  <2>3. ~ Unknown' /\ List'.fetch = "served" =>
           \A i \in Atts : List'.got[i] \in Active => atts[i] \in Active
    BY <1>4, <1>6, <1>10, <2>1
  <2>4. ~ Removing' =>
          /\ dialog'.detach # 0 => SteadyNow(dialog'.detach)
          /\ List'.status = "success" => \A i \in Atts : List'.data[i] \in Active => SteadyNow(i)
    BY <1>4, <1>6, <2>1, <2>2 DEF Steady
  <2> QED
    BY <1>9, <2>3, <2>4
<1>14. CASE Emptied(o, qs, N, L)
  <2>1. qs["atts"].status = "pending" /\ qs["atts"].fetch = "none" /\ ~ ShownWith(o, qs)
    BY <1>14, StartedType DEF Emptied
  <2> QED
    BY <1>4, <1>9, <2>1
<1>15. CASE Landed(o, qs, N, L)
  <2>1. /\ qs["atts"].fetch = "none"
        /\ \/ /\ List.fetch = "served"
              /\ qs["atts"].status = "success" /\ qs["atts"].data = List.got
           \/ qs["atts"].status = "error" /\ qs["atts"].data = List.data
    BY <1>15 DEF Landed
  <2>2. ~ Removing' /\ dialog'.detach # 0 => SteadyNow(dialog'.detach)
    BY <1>4, <1>6, <1>11, <2>1 DEF Steady
  <2>3. ~ Removing' => ~ Unknown
    BY <1>11, <1>12
  <2>4. ~ Removing' /\ List'.status = "success" =>
          \A i \in Atts : List'.data[i] \in Active => SteadyNow(i)
    BY <1>4, <1>6, <2>1, <2>3
  <2> QED
    BY <1>4, <1>9, <2>1, <2>2, <2>4
<1> QED
  BY <1>13, <1>14, <1>15 DEF Renders

\* The invariant survives it.
LEMMA RenderedInv ==
  ASSUME IInv, NEW o, NEW qs, NEW N, NEW L, Renders(o, qs, N, L)
  PROVE  IInv'
BY RenderedList, RenderedReqs, RenderedAlone DEF IInv

\* The steps that render the page.
LEMMA RenderedStep ==
  ASSUME IInv,
         \/ Open \/ Leave
         \/ \E n \in ReqIds : (Answered(n) /\ ~ Shown) \/ IpsListed(n)
         \/ \E q \in Queries : Loaded(q) \/ LoadFailed(q)
  PROVE  IInv'
<1>0. /\ TypeOK /\ query \in Qs /\ open \in BOOLEAN
      /\ "host" \in Queries /\ "atts" \in Queries
  BY DEF IInv, TypeOK, Queries
<1>1. CASE Open
  <2> DEFINE qs == [Empty EXCEPT !["host"] = Started(@)]
  <2>1. Empty \in Qs /\ Empty["host"] \in Caches("host") /\ Empty["host"].status = "pending"
    BY StartedType, ListType
  <2>2. Started(Empty["host"]) \in Caches("host") /\ Started(Empty["host"]).status = "pending"
    BY <1>0, <2>1, StartedType
  <2>3. "atts" \in Queries \ {"host"}
    BY <1>0
  <2>4. qs \in Qs /\ qs["host"] = Started(Empty["host"]) /\ qs["atts"] = Empty["atts"]
    BY <1>0, <2>1, <2>2, <2>3, ListType
  <2> HIDE DEF qs
  <2>5. Emptied(TRUE, qs, {}, {})
    BY <2>2, <2>4 DEF Emptied, ShownWith
  <2>6. Rendered(TRUE, qs, {}, {}) /\ UNCHANGED <<kind, service, others>>
    BY <1>1 DEF Open, qs
  <2>7. Renders(TRUE, qs, {}, {})
    BY <2>4, <2>5, <2>6 DEF Renders
  <2> QED
    BY <2>7, RenderedInv
<1>2. CASE Leave
  <2>1. Emptied(FALSE, Empty, {}, {})
    BY DEF Emptied, ShownWith
  <2>2. Renders(FALSE, Empty, {}, {})
    BY <1>2, <2>1, StartedType DEF Renders, Leave
  <2> QED
    BY <2>2, RenderedInv
<1>3. ASSUME NEW n \in ReqIds, (Answered(n) /\ ~ Shown) \/ IpsListed(n)
      PROVE  IInv'
  <2>1. RequestInv(n)
    BY DEF IInv
  <2>2. \A m \in {n} : reqs[m].own => reqs[m].at = "listing"
    BY <1>3, <2>1 DEF RequestInv, IpsListed
  <2>3. Kept(query, {n}, {})
    BY <2>2 DEF Kept, List
  <2>4. Rendered(open, query, {n}, {}) /\ UNCHANGED <<kind, service, others>>
    BY <1>3 DEF Answered, IpsListed
  <2>5. Renders(open, query, {n}, {})
    BY <1>0, <2>3, <2>4 DEF Renders
  <2> QED
    BY <2>5, RenderedInv
<1>4. ASSUME NEW q \in Queries, Loaded(q) \/ LoadFailed(q)
      PROVE  IInv'
  <2> DEFINE c == IF Loaded(q)
                  THEN [status |-> "success", data |-> IF q = "host" THEN addr ELSE query[q].got,
                        fetch |-> "none", got |-> query[q].got]
                  ELSE [status |-> "error", data |-> query[q].data,
                        fetch |-> "none", got |-> query[q].data]
             qs == [query EXCEPT ![q] = c]
             N == Waiting(q) \ Listing(q)
             L == Listing(q)
  <2>1. query[q] \in Caches(q) /\ addr \in Data("host")
    BY <1>0 DEF Qs, TypeOK, Data
  <2>2. c \in Caches(q)
    BY <2>1 DEF Caches, Data
  <2>3. qs \in Qs /\ qs[q] = c /\ \A p \in Queries \ {q} : qs[p] = query[p]
    BY <1>0, <2>2, ListType
  <2>4. Rendered(open, qs, N, L) /\ UNCHANGED <<kind, service, others>>
    <3>1. CASE Loaded(q)
      <4>1. qs = [query EXCEPT ![q].status = "success", ![q].fetch = "none",
                               ![q].data = IF q = "host" THEN addr ELSE query[q].got]
        BY <1>0, <2>1, <3>1 DEF Qs, Caches
      <4> QED
        BY <3>1, <4>1 DEF Loaded
    <3>2. CASE ~ Loaded(q)
      <4>1. qs = [query EXCEPT ![q].status = "error", ![q].got = query[q].data,
                               ![q].fetch = "none"]
        BY <1>0, <2>1, <3>2 DEF Qs, Caches
      <4> QED
        BY <1>4, <3>2, <4>1 DEF LoadFailed
    <3> QED
      BY <3>1, <3>2
  <2>5. Loaded(q) => query[q].fetch = IF q = "host" THEN "sent" ELSE "served"
    BY DEF Loaded
  <2>6. N \subseteq ReqIds /\ L \subseteq ReqIds
    BY DEF Waiting, Listing
  <2>7. CASE q = "host"
    <3>1. N = {} /\ L = {}
      BY <2>7 DEF Waiting, Listing
    <3>2. qs["atts"] = List
      BY <1>0, <2>3, <2>7 DEF List
    <3>3. Kept(qs, N, L)
      BY <3>1, <3>2 DEF Kept
    <3> HIDE DEF qs, N, L
    <3>4. Renders(open, qs, N, L)
      BY <1>0, <2>3, <2>4, <2>6, <3>3 DEF Renders
    <3> QED
      BY <3>4, RenderedInv
  <2>8. CASE q = "atts"
    <3>1. ShownWith(open, qs) = Shown
      BY <1>0, <2>3, <2>8 DEF Shown, ShownWith
    <3>2. /\ c.fetch = "none" /\ c.got = c.data
          /\ \/ /\ List.fetch = "served"
                /\ c.status = "success" /\ c.data = List.got
             \/ c.status = "error" /\ c.data = List.data
      BY <2>5, <2>8 DEF List
    <3> HIDE DEF c
    <3>3. Landed(open, qs, N, L)
      BY <2>3, <2>8, <3>1, <3>2 DEF Landed
    <3> HIDE DEF qs, N, L
    <3>4. Renders(open, qs, N, L)
      BY <1>0, <2>3, <2>4, <2>6, <3>3 DEF Renders
    <3> QED
      BY <3>4, RenderedInv
  <2> QED
    BY <2>7, <2>8 DEF Queries
<1> QED
  BY <1>1, <1>2, <1>3, <1>4

-----------------------------------------------------------------------------
(* The other steps.                                                        *)

\* The step forgets nothing that answers knew of: the attachments that there are
\* do not become active again, and an answer on its way is as it was or is new.
Forward ==
  /\ created' \in created..MaxAtts /\ attached' \subseteq attached
  /\ \A i \in 1..created : atts'[i] \in Active =>
       atts[i] \in Active /\ (atts[i] = "ready" => atts'[i] = "ready")
  /\ List'.status = "success" => List.status = "success" /\ List'.data = List.data
  /\ List'.fetch = "served" =>
       (List.fetch = "served" /\ List'.got = List.got) \/ List'.got = atts'
  /\ Shown => Shown'

\* What such a step leaves.
LEMMA ForwardInv ==
  ASSUME IInv, Forward
  PROVE  /\ KnownInv'
         /\ \A i \in 1..created : (InData(i) => InData(i)') /\ (InGot(i) => InGot(i)')
         /\ List'.fetch # "served" => \A i : InGot(i)'
         /\ \A n \in ReqIds : reqs'[n] = reqs[n] => RequestInv(n)'
         /\ 1..created \subseteq 1..created'
<1>1. created \in 0..MaxAtts /\ created' \in 0..MaxAtts /\ 1..created \subseteq 1..created'
  BY BoundsAssumption DEF IInv, TypeOK, Forward
<1>2. ASSUME NEW i \in 1..created
      PROVE  (InData(i) => InData(i)') /\ (InGot(i) => InGot(i)')
  <2>1. \A v : Seen(i, v) =>
          (atts'[i] \in Active => v[i] \in Active /\ (v[i] = "ready" => atts'[i] = "ready"))
    BY DEF Forward, Seen
  <2>2. InData(i) => InData(i)'
    BY <2>1 DEF Forward, InData, Seen
  <2>3. InGot(i) => InGot(i)'
    BY <2>1 DEF Forward, InGot, Seen
  <2> QED
    BY <2>2, <2>3
<1>3. KnownInv'
  <2>1. attached' \subseteq 1..created' /\ \A i \in attached' : i \in 1..created /\ InData(i) /\ InGot(i)
    BY <1>1 DEF IInv, KnownInv, Forward
  <2>2. \A i \in attached' : InData(i)' /\ InGot(i)'
    BY <1>2, <2>1
  <2> QED
    BY <2>1, <2>2 DEF KnownInv
<1>4. List'.fetch # "served" => \A i : InGot(i)'
  BY DEF InGot
<1>5. ASSUME NEW n \in ReqIds, reqs'[n] = reqs[n]
      PROVE  RequestInv(n)'
  <2>1. RequestInv(n) /\ (Shown => Shown')
    BY DEF IInv, Forward
  <2>2. reqs[n].kind = "attach" /\ reqs[n].at \in {"applied", "refetching", "listing"} =>
          \A j : j = reqs[n].att =>
            /\ j \in 1..created /\ j \in 1..created'
            /\ (InData(j) => InData(j)') /\ (InGot(j) => InGot(j)')
    BY <1>1, <1>2, <2>1 DEF RequestInv
  <2>3. reqs[n].kind = "attach" /\ reqs[n].own =>
          \A j : j = reqs[n].att =>
            /\ reqs[n].at \in {"refetching", "listing"} => InGot(j)'
            /\ reqs[n].at = "listing" => InData(j)'
    BY <2>1, <2>2 DEF RequestInv
  <2>4. reqs'[n].kind = "attach" /\ reqs'[n].own =>
            /\ reqs'[n].at \in {"refetching", "listing"} => InGot(reqs[n].att)'
            /\ reqs'[n].at = "listing" => InData(reqs[n].att)'
    BY <1>5, <2>3 DEF InGot, InData, Seen
  <2> QED
    BY <1>5, <2>1, <2>2, <2>4 DEF RequestInv, InGot, InData, Seen
<1> QED
  BY <1>1, <1>2, <1>3, <1>4, <1>5

\* A picked attachment with its detach dialog open is the one shown, for a user
\* who is alone and has no detach under way.
LEMMA ShowsThePicked ==
  ASSUME IInv, kind = "vm", ~ others, ~ stray, dialog.detach # 0,
         \A n \in ReqIds : reqs[n].kind # "detach"
  PROVE  Current = dialog.detach
<1>1. ~ Removing /\ dialog.detach \in Atts
  BY BoundsAssumption DEF Removing, IInv, TypeOK, Atts
<1>2. List.data[dialog.detach] \in Active
  BY <1>1 DEF IInv, AloneInv, Steady
<1>3. List.data[dialog.detach] # "none"
  BY <1>2 DEF Active
<1>4. Newest(List.data) \in Atts /\ List.data[Newest(List.data)] # "none"
  BY <1>1, <1>3, NewestOf
<1> QED
  BY <1>1, <1>3, <1>4 DEF IInv, OneInv, One, Current, List

\* A user who is alone has no detach under way when none is pending.
LEMMA NoDetach ==
  ASSUME IInv, kind = "vm", ~ others, ~ stray, ~ Pending("detach")
  PROVE  \A n \in ReqIds : reqs[n].kind # "detach"
<1> SUFFICES ASSUME NEW n \in ReqIds, reqs[n].kind = "detach" PROVE FALSE
  OBVIOUS
<1>1. reqs[n].own /\ RequestInv(n)
  BY DEF IInv, AloneInv
<1> QED
  BY <1>1 DEF RequestInv, Pending, UnderWay

\* The dialogs are opened and dismissed, and the address is reported.
LEMMA DialogStep ==
  ASSUME IInv, OpenAttach \/ OpenDetach \/ Report \/ \E k \in Kinds : Dismiss(k)
  PROVE  IInv'
<1>1. /\ UNCHANGED <<kind, atts, created, open, query, reqs, history>>
      /\ TypeOK /\ query \in Qs
  BY DEF IInv, OpenAttach, OpenDetach, Dismiss, Report
<1>2. Forward
  BY <1>1 DEF Forward, IInv, TypeOK, Shown, ShownWith, List
<1>3. KnownInv' /\ \A n \in ReqIds : RequestInv(n)'
  BY <1>1, <1>2, ForwardInv
<1>4. OneInv'
  BY <1>1 DEF IInv, OneInv, One, List
<1>5. /\ \A i : Steady(i)' <=> Steady(i)
      /\ Removing' <=> Removing
      /\ Unknown' <=> Unknown
      /\ List' = List
  BY <1>1 DEF Steady, Removing, Unknown, List
<1>6. 0 \in 0..MaxAtts /\ Current \in 0..MaxAtts
  BY BoundsAssumption, NewestOf DEF Current
<1>7. CASE OpenAttach \/ Report \/ Dismiss("attach")
  <2>1. TypeOK' /\ dialog'.detach = dialog.detach
    <3>1. dialog \in [attach : BOOLEAN, detach : 0..MaxAtts]
      BY <1>1 DEF TypeOK
    <3>2. /\ dialog' \in [attach : BOOLEAN, detach : 0..MaxAtts]
          /\ dialog'.detach = dialog.detach
      BY <1>7, <3>1 DEF OpenAttach, Report, Dismiss
    <3>3. addr' \in 0..MaxAtts /\ kind' = kind
      BY <1>1, <1>6, <1>7 DEF TypeOK, OpenAttach, Report, Dismiss, Atts
    <3> QED
      BY <1>1, <3>2, <3>3 DEF TypeOK
  <2>2. AloneInv'
    <3> SUFFICES ASSUME kind = "vm", ~ others, ~ stray
                 PROVE  /\ \A n \in ReqIds : reqs[n].kind = "detach" =>
                             /\ reqs[n].own /\ reqs[n].att = dialog'.detach
                             /\ \A m \in ReqIds : reqs[m].kind = "detach" => m = n
                        /\ ~ Unknown /\ List.fetch = "served" =>
                             \A i \in Atts : List.got[i] \in Active => atts[i] \in Active
                        /\ ~ Removing =>
                             /\ dialog'.detach # 0 => Steady(dialog'.detach)
                             /\ List.status = "success" =>
                                  \A i \in Atts : List.data[i] \in Active => Steady(i)
      BY <1>1, <1>5, <2>1 DEF AloneInv, Steady
    <3> QED
      BY <2>1 DEF IInv, AloneInv
  <2> QED
    BY <1>1, <1>3, <1>4, <2>1, <2>2 DEF IInv
<1>8. CASE OpenDetach \/ Dismiss("detach")
  <2>1. TypeOK' /\ dialog'.detach = IF OpenDetach THEN Current ELSE 0
    BY <1>1, <1>6, <1>8 DEF TypeOK, OpenDetach, Dismiss
  <2>2. ASSUME kind = "vm", ~ others, ~ stray
        PROVE  \A n \in ReqIds : reqs[n].kind # "detach"
    <3>1. CASE OpenDetach
      <4>1. Target = 0 /\ Current # 0
        BY <3>1 DEF OpenDetach, Idle, DialogOn, Kinds, MayDetach, CurrentIn
      <4>2. dialog.detach = 0
        BY <2>2, <4>1 DEF Target
      <4> QED
        BY <2>2, <4>2 DEF IInv, AloneInv, RequestInv
    <3>2. CASE Dismiss("detach")
      BY <2>2, <3>2, NoDetach DEF Dismiss
    <3> QED
      BY <1>8, <3>1, <3>2
  <2>3. ASSUME kind = "vm", ~ others, ~ stray, OpenDetach
        PROVE  Steady(Current)
    <3>1. List.status = "success" /\ Current # 0 /\ List.data[Current] \in Active
      BY <2>3 DEF OpenDetach, MayDetach, CurrentIn, List, Active
    <3>2. Current \in Atts /\ ~ Removing
      BY <1>6, <2>2, <2>3, <3>1, NewestOf DEF Removing, Current
    <3> QED
      BY <2>3, <3>1, <3>2 DEF IInv, AloneInv
  <2>4. AloneInv'
    <3> SUFFICES ASSUME kind = "vm", ~ others, ~ stray
                 PROVE  /\ \A n \in ReqIds : reqs[n].kind = "detach" =>
                             /\ reqs[n].own /\ reqs[n].att = dialog'.detach
                             /\ \A m \in ReqIds : reqs[m].kind = "detach" => m = n
                        /\ ~ Unknown /\ List.fetch = "served" =>
                             \A i \in Atts : List.got[i] \in Active => atts[i] \in Active
                        /\ ~ Removing =>
                             /\ dialog'.detach # 0 => Steady(dialog'.detach)
                             /\ List.status = "success" =>
                                  \A i \in Atts : List.data[i] \in Active => Steady(i)
      BY <1>1, <1>5 DEF AloneInv, Steady
    <3>1. dialog'.detach # 0 => Steady(dialog'.detach)
      BY <2>1, <2>3
    <3> QED
      BY <2>2, <3>1 DEF IInv, AloneInv
  <2> QED
    BY <1>1, <1>3, <1>4, <2>1, <2>4 DEF IInv
<1> QED
  BY <1>7, <1>8 DEF Kinds

\* An answer on the screen moves its request on.
LEMMA AnsweredMoves ==
  ASSUME TypeOK, NEW n \in ReqIds, Answered(n), Shown
  PROVE  reqs' # reqs
<1>1. reqs[n].at = "applied" /\ reqs' = [reqs EXCEPT ![n].at = "refetching"]
  BY DEF Answered
<1>2. reqs \in [ReqIds -> Requests]
  BY DEF TypeOK
<1>3. reqs'[n].at = "refetching"
  BY <1>1, <1>2 DEF Requests
<1> QED
  BY <1>1, <1>3

\* The list is fetched anew, by itself or with an answer, and a fetch is served.
LEMMA FetchStep ==
  ASSUME IInv,
         \/ \E q \in Queries : Poll(q)
         \/ \E n \in ReqIds : Answered(n) /\ Shown
         \/ Respond
  PROVE  IInv'
<1>1. /\ UNCHANGED <<kind, service, open, dialog, history>>
      /\ TypeOK /\ query \in Qs
      /\ "host" \in Queries /\ "atts" \in Queries
      /\ created \in 0..MaxAtts
  BY DEF IInv, TypeOK, Queries, Poll, Answered, Respond
<1> DEFINE Answers(n) == /\ Answered(n) /\ Shown
<1>2. ASSUME NEW q \in Queries, query' = [query EXCEPT ![q] = Started(@)]
      PROVE  /\ query' \in Qs /\ Shown' = Shown
             /\ List'.status = List.status /\ List'.data = List.data
             /\ \/ List' = List
                \/ List'.fetch = "sent" /\ List'.got = List.data
  <2>1. query[q] \in Caches(q)
    BY <1>1 DEF Qs
  <2>2. /\ Started(query[q]) \in Caches(q)
        /\ Started(query[q]).status = query[q].status /\ Started(query[q]).data = query[q].data
        /\ Started(query[q]).fetch = "sent" /\ Started(query[q]).got = query[q].data
    BY <2>1, StartedType
  <2> DEFINE qs == [query EXCEPT ![q] = Started(query[q])]
  <2>3. /\ qs \in Qs /\ qs[q] = Started(query[q])
        /\ \A p \in Queries \ {q} : qs[p] = query[p]
    BY <1>1, <2>2, ListType
  <2>4. query' = qs
    BY <1>2
  <2> HIDE DEF qs
  <2>5. query'["host"].status = query["host"].status
    BY <1>1, <2>2, <2>3, <2>4
  <2>6. \/ List' = List
        \/ List' = Started(query[q]) /\ q = "atts"
    BY <1>1, <2>3, <2>4 DEF List
  <2> QED
    BY <1>1, <2>2, <2>3, <2>5, <2>6, <2>4 DEF Shown, ShownWith, List
<1>3. ASSUME Respond
      PROVE  /\ query' \in Qs /\ Shown' = Shown
             /\ List'.status = List.status /\ List'.data = List.data
             /\ List'.fetch = "served" /\ List'.got = atts
  <2> DEFINE c == [List EXCEPT !.fetch = "served", !.got = atts]
  <2>1. List \in Caches("atts") /\ atts \in [Atts -> AttStates]
    BY <1>1, ListType DEF List, TypeOK
  <2>2. c \in Caches("atts") /\ c.status = List.status /\ c.data = List.data
        /\ c.fetch = "served" /\ c.got = atts
    BY <2>1 DEF Caches, Data
  <2>3. query' = [query EXCEPT !["atts"] = c]
    BY <1>1, <1>3, <2>1 DEF Respond, Qs, List, Caches
  <2>4. "host" \in Queries \ {"atts"}
    BY <1>1
  <2> HIDE DEF c
  <2> DEFINE qs == [query EXCEPT !["atts"] = c]
  <2>5. qs \in Qs /\ qs["atts"] = c /\ qs["host"] = query["host"]
    BY <1>1, <2>2, <2>4, ListType
  <2> QED
    BY <1>1, <2>2, <2>3, <2>5 DEF Shown, ShownWith, List
<1>4. /\ query' \in Qs /\ Shown' = Shown
      /\ List'.status = List.status /\ List'.data = List.data
      /\ \/ List' = List
         \/ List'.fetch = "sent" /\ List'.got = List.data
         \/ List'.fetch = "served" /\ List'.got = atts
      /\ (\E n \in ReqIds : Answers(n)) => List'.fetch = "sent"
  <2>1. CASE \E q \in Queries : Poll(q)
    <3>1. ~ \E n \in ReqIds : Answers(n)
      BY <1>1, <2>1, AnsweredMoves DEF Poll
    <3> QED
      BY <1>2, <2>1, <3>1 DEF Poll
  <2>2. CASE \E n \in ReqIds : Answers(n)
    <3>1. query' = [query EXCEPT !["atts"] = Started(@)]
      BY <2>2 DEF Answered
    <3>2. List' = Started(List) /\ List \in Caches("atts")
      BY <1>1, <3>1, ListType DEF List, Qs
    <3> QED
      BY <1>1, <1>2, <3>1, <3>2, StartedType
  <2>3. CASE Respond
    <3>1. ~ \E n \in ReqIds : Answers(n)
      BY <1>1, <2>3, AnsweredMoves DEF Respond
    <3> QED
      BY <1>3, <2>3, <3>1
  <2> QED
    BY <2>1, <2>2, <2>3
<1>5. Forward
  BY <1>1, <1>4 DEF Forward, Shown
<1>6. OneInv'
  BY <1>1, <1>4 DEF IInv, OneInv, One
<1>7. /\ KnownInv' /\ \A n \in ReqIds : reqs'[n] = reqs[n] => RequestInv(n)'
      /\ List'.fetch # "served" => \A i : InGot(i)'
  BY <1>5, ForwardInv
<1>8. PICK n0 :
        \/ reqs' = reqs
        \/ /\ n0 \in ReqIds /\ Answers(n0)
           /\ reqs[n0].at = "applied" /\ reqs' = [reqs EXCEPT ![n0].at = "refetching"]
  BY DEF Poll, Respond, Answered
<1>9. /\ reqs' \in [ReqIds -> Requests]
      /\ \A n \in ReqIds :
           /\ reqs'[n].kind = reqs[n].kind /\ reqs'[n].att = reqs[n].att
           /\ reqs'[n].own = reqs[n].own
           /\ \/ reqs'[n] = reqs[n]
              \/ /\ reqs[n].at = "applied" /\ reqs'[n].at = "refetching"
                 /\ List'.fetch = "sent"
  <2>1. reqs \in [ReqIds -> Requests]
    BY <1>1 DEF TypeOK
  <2>2. CASE reqs' = reqs
    BY <2>1, <2>2
  <2>3. CASE /\ n0 \in ReqIds /\ Answers(n0)
             /\ reqs[n0].at = "applied" /\ reqs' = [reqs EXCEPT ![n0].at = "refetching"]
    <3>1. List'.fetch = "sent"
      BY <1>4, <2>3
    <3> QED
      BY <2>1, <2>3, <3>1 DEF Requests, UnderWay
  <2> QED
    BY <1>8, <2>2, <2>3
<1>10. ASSUME NEW n \in ReqIds PROVE RequestInv(n)'
  <2>1. CASE reqs'[n] = reqs[n]
    BY <1>7, <2>1
  <2>2. CASE reqs'[n] # reqs[n]
    <3>1. /\ reqs[n].at = "applied" /\ reqs'[n].at = "refetching" /\ \A i : InGot(i)'
          /\ reqs'[n].kind = reqs[n].kind /\ reqs'[n].att = reqs[n].att
          /\ reqs'[n].own = reqs[n].own
      BY <1>7, <1>9, <2>2
    <3>2. InGot(reqs[n].att)'
      <4> SUFFICES ASSUME NEW j, j = reqs[n].att PROVE InGot(j)'
        BY <3>1 DEF InGot, Seen
      <4> QED
        BY <3>1
    <3>3. RequestInv(n) /\ created' = created /\ Shown' = Shown
      BY <1>1, <1>4 DEF IInv
    <3> QED
      BY <3>1, <3>2, <3>3 DEF RequestInv, InGot, Seen
  <2> QED
    BY <2>1, <2>2
<1>11. AloneInv'
  <2>1. Removing' <=> Removing
    BY <1>9 DEF Removing
  <2>2. List'.fetch = "served" => (Unknown' <=> Unknown)
    BY <1>9 DEF Unknown
  <2>3. \A n \in ReqIds : /\ reqs'[n].kind = reqs[n].kind /\ reqs'[n].att = reqs[n].att
                          /\ reqs'[n].own = reqs[n].own
    BY <1>9
  <2> SUFFICES ASSUME kind = "vm", ~ others, ~ stray
               PROVE  /\ \A n \in ReqIds : reqs'[n].kind = "detach" =>
                           /\ reqs'[n].own /\ reqs'[n].att = dialog.detach
                           /\ \A m \in ReqIds : reqs'[m].kind = "detach" => m = n
                      /\ ~ Unknown' /\ List'.fetch = "served" =>
                           \A i \in Atts : List'.got[i] \in Active => atts[i] \in Active
                      /\ ~ Removing' =>
                           /\ dialog.detach # 0 =>
                                /\ List'.data[dialog.detach] \in Active
                                /\ atts[dialog.detach] \in Active
                                /\ List'.fetch = "served" => List'.got[dialog.detach] \in Active
                           /\ List'.status = "success" =>
                                \A i \in Atts : List'.data[i] \in Active =>
                                  /\ atts[i] \in Active
                                  /\ List'.fetch = "served" => List'.got[i] \in Active
    BY <1>1 DEF AloneInv, Steady
  <2>4. /\ \A n \in ReqIds : reqs[n].kind = "detach" =>
             /\ reqs[n].own /\ reqs[n].att = dialog.detach
             /\ \A m \in ReqIds : reqs[m].kind = "detach" => m = n
        /\ ~ Unknown /\ List.fetch = "served" =>
             \A i \in Atts : List.got[i] \in Active => atts[i] \in Active
        /\ ~ Removing =>
             /\ dialog.detach # 0 => Steady(dialog.detach)
             /\ List.status = "success" => \A i \in Atts : List.data[i] \in Active => Steady(i)
    BY DEF IInv, AloneInv
  <2>5. \A n \in ReqIds : reqs'[n].kind = "detach" =>
           /\ reqs'[n].own /\ reqs'[n].att = dialog.detach
           /\ \A m \in ReqIds : reqs'[m].kind = "detach" => m = n
    BY <2>3, <2>4
  <2>6. ~ Unknown' /\ List'.fetch = "served" =>
          \A i \in Atts : List'.got[i] \in Active => atts[i] \in Active
    BY <1>4, <2>2, <2>4
  <2>7. ~ Removing' =>
          /\ dialog.detach # 0 =>
               /\ List'.data[dialog.detach] \in Active
               /\ atts[dialog.detach] \in Active
               /\ List'.fetch = "served" => List'.got[dialog.detach] \in Active
          /\ List'.status = "success" =>
               \A i \in Atts : List'.data[i] \in Active =>
                 /\ atts[i] \in Active
                 /\ List'.fetch = "served" => List'.got[i] \in Active
    BY <1>4, <2>1, <2>4 DEF Steady
  <2> QED
    BY <2>5, <2>6, <2>7
<1>12. TypeOK'
  <2>1. \A q \in Queries : query'[q] \in Caches(q)
    BY <1>4 DEF Qs
  <2> QED
    BY <1>1, <1>9, <2>1 DEF TypeOK
<1> QED
  BY <1>4, <1>6, <1>7, <1>10, <1>11, <1>12 DEF IInv

\* A request is sent, or comes to nothing.
LEMMA SendStep ==
  ASSUME IInv,
         \/ \E k \in Kinds : Submit(k)
         \/ \E n \in ReqIds : Refuse(n)
  PROVE  IInv'
<1>1. /\ UNCHANGED <<kind, service, page, others, attached>>
      /\ stray => stray'
      /\ TypeOK /\ query \in Qs /\ reqs \in [ReqIds -> Requests]
  BY DEF IInv, TypeOK, Submit, Refuse
<1>2. Forward
  BY <1>1 DEF Forward, IInv, TypeOK, Shown, ShownWith, List
<1>3. KnownInv' /\ \A n \in ReqIds : reqs'[n] = reqs[n] => RequestInv(n)'
  BY <1>2, ForwardInv
<1>4. OneInv' /\ query' \in Qs
  BY <1>1 DEF IInv, OneInv, One, List
<1>5. Target \in 0..MaxAtts /\ 0 \in 0..MaxAtts
  BY <1>1, BoundsAssumption, NewestOf DEF Target, TypeOK, Current
<1>6. /\ \A i : Steady(i)' <=> Steady(i)
      /\ List' = List /\ Shown' = Shown
  BY <1>1 DEF Steady, List, Shown, ShownWith
\* AloneInv' of requests that are those before, but for one
<1>7. ASSUME kind = "vm", ~ others, ~ stray',
             Unknown' <=> Unknown, Removing' <=> Removing,
             \A n \in ReqIds : reqs'[n].kind = "detach" =>
               /\ reqs'[n].own /\ reqs'[n].att = dialog.detach
               /\ \A m \in ReqIds : reqs'[m].kind = "detach" => m = n
      PROVE  AloneInv'
  <2>1. /\ ~ Unknown /\ List.fetch = "served" =>
             \A i \in Atts : List.got[i] \in Active => atts[i] \in Active
        /\ ~ Removing =>
             /\ dialog.detach # 0 => Steady(dialog.detach)
             /\ List.status = "success" => \A i \in Atts : List.data[i] \in Active => Steady(i)
    BY <1>1, <1>7 DEF IInv, AloneInv
  <2> QED
    BY <1>1, <1>6, <1>7, <2>1 DEF AloneInv, Steady
<1>8. ASSUME NEW k \in Kinds, Submit(k)
      PROVE  IInv'
  <2>1. Shown /\ DialogOn(k) /\ ~ Pending(k) /\ stray' = stray
    BY <1>8 DEF Submit
  <2> DEFINE r == [at |-> "sent", kind |-> k, att |-> IF k = "detach" THEN Target ELSE 0, own |-> TRUE]
  <2>2. PICK n \in ReqIds : reqs[n].at = "unused" /\ reqs' = [reqs EXCEPT ![n] = r]
    BY <1>8 DEF Submit
  <2>3. r \in Requests
    BY <1>5 DEF Requests, UnderWay
  <2>4. reqs' \in [ReqIds -> Requests] /\ reqs'[n] = r
    BY <1>1, <2>2, <2>3
  <2>5. TypeOK'
    BY <1>1, <2>1, <2>4 DEF TypeOK
  <2>6. RequestInv(n)'
    BY <1>6, <2>1, <2>4 DEF RequestInv, DialogOn
  <2>7. \A m \in ReqIds : m # n => reqs'[m] = reqs[m]
    BY <1>1, <2>2
  <2>8. \A m \in ReqIds : RequestInv(m)'
    BY <1>3, <2>6, <2>7
  <2>9. (Unknown' <=> Unknown) /\ (Removing' <=> Removing)
    BY <2>2, <2>4, <2>7 DEF Unknown, Removing
  <2>10. ASSUME kind = "vm", ~ others, ~ stray
         PROVE  \A m \in ReqIds : reqs'[m].kind = "detach" =>
                  /\ reqs'[m].own /\ reqs'[m].att = dialog.detach
                  /\ \A l \in ReqIds : reqs'[l].kind = "detach" => l = m
    <3>1. CASE k = "attach"
      <4>1. \A m \in ReqIds : reqs'[m].kind = "detach" => m # n /\ reqs[m].kind = "detach"
        BY <2>4, <2>7, <3>1
      <4> QED
        BY <2>7, <2>10, <4>1 DEF IInv, AloneInv
    <3>2. CASE k = "detach"
      <4>1. \A m \in ReqIds : reqs[m].kind # "detach"
        BY <2>1, <2>10, <3>2, NoDetach
      <4>2. Target # 0
        BY <2>1, <3>2 DEF DialogOn
      <4>3. dialog.detach # 0 /\ Target = Current
        BY <2>10, <4>2 DEF Target
      <4>4. Current = dialog.detach
        BY <2>10, <4>1, <4>3, ShowsThePicked
      <4> QED
        BY <2>4, <2>7, <3>2, <4>1, <4>3, <4>4
    <3> QED
      BY <3>1, <3>2 DEF Kinds
  <2>11. AloneInv'
    <3>1. CASE kind = "vm" /\ ~ others /\ ~ stray
      BY <1>7, <2>1, <2>9, <2>10, <3>1
    <3>2. CASE ~ (kind = "vm" /\ ~ others /\ ~ stray)
      BY <1>1, <2>1, <3>2 DEF AloneInv
    <3> QED
      BY <3>1, <3>2
  <2> QED
    BY <1>3, <1>4, <2>5, <2>8, <2>11 DEF IInv
<1>9. ASSUME NEW n \in ReqIds, Refuse(n)
      PROVE  IInv'
  <2>1. /\ reqs[n].at \in {"sent", "applied"} /\ reqs' = [reqs EXCEPT ![n] = Unused]
        /\ stray' = (stray \/ (reqs[n].at = "applied" /\ reqs[n].kind = "detach"))
    BY <1>9 DEF Refuse
  <2>2. Unused \in Requests
    BY <1>5 DEF Requests, Unused, Kinds
  <2>3. reqs' \in [ReqIds -> Requests] /\ reqs'[n] = Unused
    BY <1>1, <2>1, <2>2
  <2>4. TypeOK'
    BY <1>1, <2>1, <2>3 DEF TypeOK
  <2>5. RequestInv(n)'
    BY <2>3 DEF RequestInv, Unused
  <2>6. \A m \in ReqIds : m # n => reqs'[m] = reqs[m]
    BY <1>1, <2>1
  <2>7. \A m \in ReqIds : RequestInv(m)'
    BY <1>3, <2>5, <2>6
  <2>8. \A m \in ReqIds : reqs'[m].kind = "detach" => m # n /\ reqs[m].kind = "detach"
    BY <2>3, <2>6 DEF Unused
  <2>9. ~ stray' => (Unknown' <=> Unknown) /\ (Removing' <=> Removing)
    <3>1. ~ stray' => ~ (reqs[n].kind = "detach" /\ reqs[n].at \in {"applied", "refetching"})
      BY <2>1
    <3> QED
      BY <2>6, <2>8, <3>1 DEF Unknown, Removing
  <2>10. AloneInv'
    <3>1. CASE kind = "vm" /\ ~ others /\ ~ stray'
      <4>1. \A m \in ReqIds : reqs'[m].kind = "detach" =>
              /\ reqs'[m].own /\ reqs'[m].att = dialog.detach
              /\ \A l \in ReqIds : reqs'[l].kind = "detach" => l = m
        BY <1>1, <2>6, <2>8, <3>1 DEF IInv, AloneInv
      <4> QED
        BY <1>7, <2>9, <3>1, <4>1
    <3>2. CASE ~ (kind = "vm" /\ ~ others /\ ~ stray')
      BY <1>1, <3>2 DEF AloneInv
    <3> QED
      BY <3>1, <3>2
  <2> QED
    BY <1>3, <1>4, <2>4, <2>7, <2>10 DEF IInv
<1> QED
  BY <1>8, <1>9

\* What is made is new, and a virtual machine had none.
LEMMA Makes ==
  ASSUME IInv, Make
  PROVE  /\ created' \in created..MaxAtts /\ created' \in 1..created' /\ created \in Nat
         /\ atts' \in [Atts -> AttStates]
         /\ \A i \in Atts : /\ atts[i] \in Active => atts'[i] \in Active
                            /\ i \in 1..created => atts'[i] = atts[i]
         /\ kind = "vm" => One(atts')
<1>1. created \in 0..MaxAtts /\ created < MaxAtts /\ created' = created + 1
  BY DEF IInv, TypeOK, Make, Accepts
<1>2. /\ created' \in created..MaxAtts /\ created' \in 1..created'
      /\ created \in Nat /\ created' \notin 1..created /\ created' \in Atts
  BY <1>1, BoundsAssumption DEF Atts
<1>3. /\ atts \in [Atts -> AttStates]
      /\ atts' = [atts EXCEPT ![created'] = "pending"]
      /\ kind = "vm" => \A i \in Atts : atts[i] = "none"
  BY DEF IInv, TypeOK, Make, Accepts
<1> QED
  BY <1>2, <1>3 DEF AttStates, Active, One

\* What the service does to the attachments, for whomever.
Worked ==
  /\ created' \in created..MaxAtts /\ attached' \subseteq attached
  /\ atts' \in [Atts -> AttStates]
  /\ \A i \in 1..created : atts'[i] \in Active =>
       atts[i] \in Active /\ (atts[i] = "ready" => atts'[i] = "ready")
  /\ kind = "vm" => One(atts')

\* The service takes up requests, and works by itself and for other users.
LEMMA Works ==
  ASSUME IInv,
         \/ Make /\ attached' = attached
         \/ created' = created /\ \E i \in Atts : atts[i] # "none" /\ Remove(i)
         \/ \E i \in Atts : Progress(i)
  PROVE  Worked
<1>1. /\ atts \in [Atts -> AttStates] /\ created \in 0..MaxAtts
      /\ \A i \in 1..created : i \in Atts
      /\ created \in created..MaxAtts
      /\ kind = "vm" => One(atts)
  BY BoundsAssumption DEF IInv, TypeOK, OneInv, Atts
<1>2. CASE Make /\ attached' = attached
  BY <1>1, <1>2, Makes DEF Worked
<1>3. ASSUME NEW i \in Atts, created' = created, atts[i] # "none", Remove(i)
      PROVE  Worked
  <2>1. atts' = [atts EXCEPT ![i] = "deleting"] /\ attached' = attached \ {i}
    BY <1>3 DEF Remove
  <2>2. kind = "vm" => One(atts')
    <3> SUFFICES ASSUME kind = "vm", NEW j \in Atts, NEW l \in Atts,
                        atts'[j] # "none", atts'[l] # "none"
                 PROVE  j = l
      BY DEF One
    <3> QED
      BY <1>1, <1>3, <2>1 DEF One
  <2> QED
    BY <1>1, <1>3, <2>1, <2>2 DEF Worked, AttStates, Active
<1>4. ASSUME NEW i \in Atts, Progress(i)
      PROVE  Worked
  <2>1. PICK s \in AttStates :
          /\ <<atts[i], s>> \in {<<"pending", "ready">>, <<"pending", "failed">>,
                                 <<"failed", "ready">>, <<"deleting", "none">>}
          /\ atts' = [atts EXCEPT ![i] = s]
    BY <1>4 DEF Progress
  <2>2. created' = created /\ attached' = attached
    BY <1>4 DEF Progress
  <2> QED
    BY <1>1, <2>1, <2>2 DEF Worked, AttStates, Active, One
<1> QED
  BY <1>2, <1>3, <1>4

\* What is left to show of such a step.
LEMMA WorkedInv ==
  ASSUME IInv, Worked, UNCHANGED <<kind, addr, page, stray>>, others' \in BOOLEAN,
         reqs' \in [ReqIds -> Requests]
  PROVE  /\ TypeOK' /\ query' \in Qs /\ OneInv' /\ KnownInv' /\ Shown' = Shown
         /\ \A n \in ReqIds : reqs'[n] = reqs[n] => RequestInv(n)'
         /\ 1..created \subseteq 1..created'
<1>1. TypeOK /\ query \in Qs
  BY DEF IInv
<1>2. Forward /\ Shown' = Shown
  BY DEF Forward, Worked, Shown, ShownWith, List
<1>3. TypeOK'
  BY <1>1, BoundsAssumption DEF TypeOK, Worked
<1>4. OneInv'
  BY DEF IInv, OneInv, One, Worked, List
<1> QED
  BY <1>1, <1>2, <1>3, <1>4, ForwardInv

LEMMA ServiceStep ==
  ASSUME IInv,
         \/ \E n \in ReqIds : ApplyAttach(n) \/ ApplyDetach(n)
         \/ \E i \in Atts : Progress(i)
         \/ OthersAct
  PROVE  IInv'
<1>1. /\ UNCHANGED <<kind, addr, page, stray>>
      /\ TypeOK /\ query \in Qs /\ reqs \in [ReqIds -> Requests]
      /\ atts \in [Atts -> AttStates]
      /\ created \in 0..MaxAtts /\ others \in BOOLEAN
  BY DEF IInv, TypeOK, ApplyAttach, ApplyDetach, Progress, OthersAct
<1>2. List' = List
  BY <1>1 DEF List
<1>3. ASSUME NEW n \in ReqIds, ApplyAttach(n)
      PROVE  IInv'
  <2>1. /\ reqs[n].at = "sent" /\ reqs[n].kind = "attach" /\ Make /\ attached' = attached
        /\ reqs' = [reqs EXCEPT ![n].at = "applied", ![n].att = created']
        /\ others' = others
    BY <1>3 DEF ApplyAttach
  <2>2. Worked
    BY <2>1, Works
  <2>3. /\ created' \in 0..MaxAtts /\ created' \in 1..created'
        /\ \A i \in Atts : atts[i] \in Active => atts'[i] \in Active
    BY <1>1, <2>1, Makes, BoundsAssumption
  <2>4. /\ reqs' \in [ReqIds -> Requests]
        /\ reqs'[n].at = "applied" /\ reqs'[n].kind = "attach"
        /\ reqs'[n].att = created' /\ reqs'[n].own = reqs[n].own
        /\ \A m \in ReqIds : m # n => reqs'[m] = reqs[m]
    BY <1>1, <2>1, <2>3 DEF Requests, UnderWay
  <2>5. /\ TypeOK' /\ query' \in Qs /\ OneInv' /\ KnownInv' /\ Shown' = Shown
        /\ \A m \in ReqIds : reqs'[m] = reqs[m] => RequestInv(m)'
    BY <1>1, <2>1, <2>2, <2>4, WorkedInv
  <2>6. RequestInv(n)'
    <3>1. RequestInv(n)
      BY DEF IInv
    <3> QED
      BY <2>3, <2>4, <2>5, <3>1 DEF RequestInv
  <2>7. /\ \A m \in ReqIds : reqs'[m].kind = "detach" => reqs'[m] = reqs[m]
        /\ \A m \in ReqIds : reqs[m].kind = "detach" => reqs'[m] = reqs[m]
        /\ Unknown' <=> Unknown
        /\ Removing' <=> Removing
    BY <2>1, <2>4 DEF Unknown, Removing
  <2>8. AloneInv'
    <3> SUFFICES ASSUME kind = "vm", ~ others, ~ stray
                 PROVE  /\ \A m \in ReqIds : reqs'[m].kind = "detach" =>
                             /\ reqs'[m].own /\ reqs'[m].att = dialog.detach
                             /\ \A l \in ReqIds : reqs'[l].kind = "detach" => l = m
                        /\ ~ Unknown /\ List.fetch = "served" =>
                             \A i \in Atts : List.got[i] \in Active => atts'[i] \in Active
                        /\ ~ Removing =>
                             /\ dialog.detach # 0 => Steady(dialog.detach)'
                             /\ List.status = "success" =>
                                  \A i \in Atts : List.data[i] \in Active => Steady(i)'
      BY <1>1, <1>2, <2>1, <2>7 DEF AloneInv, Steady
    <3>1. /\ \A m \in ReqIds : reqs[m].kind = "detach" =>
               /\ reqs[m].own /\ reqs[m].att = dialog.detach
               /\ \A l \in ReqIds : reqs[l].kind = "detach" => l = m
          /\ ~ Unknown /\ List.fetch = "served" =>
               \A i \in Atts : List.got[i] \in Active => atts[i] \in Active
          /\ ~ Removing =>
               /\ dialog.detach # 0 => Steady(dialog.detach)
               /\ List.status = "success" =>
                    \A i \in Atts : List.data[i] \in Active => Steady(i)
      BY DEF IInv, AloneInv
    <3>2. \A i \in Atts : Steady(i) => Steady(i)'
      BY <1>2, <2>3 DEF Steady
    <3>3. dialog.detach # 0 => dialog.detach \in Atts
      BY <1>1, BoundsAssumption DEF TypeOK, Atts
    <3>4. dialog.detach # 0 /\ Steady(dialog.detach) => Steady(dialog.detach)'
      BY <1>1, <1>2, <2>3, <3>3 DEF Steady
    <3> QED
      BY <2>3, <2>7, <3>1, <3>2, <3>4
  <2> QED
    BY <2>4, <2>5, <2>6, <2>8 DEF IInv
<1>4. ASSUME NEW n \in ReqIds, ApplyDetach(n)
      PROVE  IInv'
  <2>1. /\ reqs[n].at = "sent" /\ reqs[n].kind = "detach" /\ Remove(reqs[n].att)
        /\ atts[reqs[n].att] # "none"
        /\ reqs' = [reqs EXCEPT ![n].at = "applied"]
        /\ created' = created /\ others' = others
    BY <1>4 DEF ApplyDetach
  <2>2. RequestInv(n) /\ reqs[n].att \in Atts
    BY <1>1, <2>1, BoundsAssumption DEF IInv, RequestInv, Requests, Atts
  <2>3. Worked
    BY <2>1, <2>2, Works
  <2>4. /\ reqs' \in [ReqIds -> Requests]
        /\ reqs'[n].at = "applied" /\ reqs'[n].kind = "detach"
        /\ reqs'[n].att = reqs[n].att /\ reqs'[n].own = reqs[n].own
        /\ \A m \in ReqIds : m # n => reqs'[m] = reqs[m]
    BY <1>1, <2>1 DEF Requests, UnderWay
  <2>5. /\ TypeOK' /\ query' \in Qs /\ OneInv' /\ KnownInv' /\ Shown' = Shown
        /\ \A m \in ReqIds : reqs'[m] = reqs[m] => RequestInv(m)'
    BY <1>1, <2>1, <2>3, <2>4, WorkedInv
  <2>6. RequestInv(n)'
    BY <2>1, <2>2, <2>4, <2>5 DEF RequestInv
  <2>7. Unknown' /\ Removing'
    BY <2>4 DEF Unknown, Removing
  <2>8. AloneInv'
    <3> SUFFICES ASSUME kind = "vm", ~ others, ~ stray, NEW m \in ReqIds, reqs'[m].kind = "detach"
                 PROVE  /\ reqs'[m].own /\ reqs'[m].att = dialog.detach
                        /\ \A l \in ReqIds : reqs'[l].kind = "detach" => l = m
      BY <1>1, <2>1, <2>7 DEF AloneInv
    <3>1. reqs[m].kind = "detach" /\ \A l \in ReqIds : reqs'[l].kind = "detach" => reqs[l].kind = "detach"
      BY <2>1, <2>4
    <3> QED
      BY <2>4, <3>1 DEF IInv, AloneInv
  <2> QED
    BY <2>4, <2>5, <2>6, <2>8 DEF IInv
<1>5. ASSUME NEW j \in Atts, Progress(j)
      PROVE  IInv'
  <2>1. Worked /\ reqs' = reqs /\ others' = others
    BY <1>5, Works DEF Progress
  <2>2. /\ TypeOK' /\ query' \in Qs /\ OneInv' /\ KnownInv'
        /\ \A m \in ReqIds : RequestInv(m)'
    BY <1>1, <2>1, WorkedInv
  <2>3. \A i \in Atts : atts[i] \in Active => atts'[i] \in Active
    BY <1>1, <1>5 DEF Progress, Active
  <2>4. (Unknown' <=> Unknown) /\ (Removing' <=> Removing)
    BY <2>1 DEF Unknown, Removing
  <2>5. AloneInv'
    <3> SUFFICES ASSUME kind = "vm", ~ others, ~ stray
                 PROVE  /\ \A m \in ReqIds : reqs[m].kind = "detach" =>
                             /\ reqs[m].own /\ reqs[m].att = dialog.detach
                             /\ \A l \in ReqIds : reqs[l].kind = "detach" => l = m
                        /\ ~ Unknown /\ List.fetch = "served" =>
                             \A i \in Atts : List.got[i] \in Active => atts'[i] \in Active
                        /\ ~ Removing =>
                             /\ dialog.detach # 0 => Steady(dialog.detach)'
                             /\ List.status = "success" =>
                                  \A i \in Atts : List.data[i] \in Active => Steady(i)'
      BY <1>1, <1>2, <2>1, <2>4 DEF AloneInv, Steady
    <3>1. \A i \in Atts : Steady(i) => Steady(i)'
      BY <1>2, <2>3 DEF Steady
    <3>2. dialog.detach # 0 => dialog.detach \in Atts
      BY <1>1, BoundsAssumption DEF TypeOK, Atts
    <3>3. dialog.detach # 0 /\ Steady(dialog.detach) => Steady(dialog.detach)'
      BY <1>1, <1>2, <2>3, <3>2 DEF Steady
    <3> QED
      BY <2>3, <3>1, <3>3 DEF IInv, AloneInv
  <2> QED
    BY <2>2, <2>5 DEF IInv
<1>6. ASSUME OthersAct
      PROVE  IInv'
  <2>1. /\ others' = TRUE /\ reqs' = reqs
        /\ \/ Make /\ attached' = attached
           \/ created' = created /\ \E i \in Atts : atts[i] # "none" /\ Remove(i)
    BY <1>6 DEF OthersAct
  <2>2. Worked
    BY <2>1, Works
  <2>3. /\ TypeOK' /\ query' \in Qs /\ OneInv' /\ KnownInv'
        /\ \A m \in ReqIds : RequestInv(m)'
    BY <1>1, <2>1, <2>2, WorkedInv
  <2>4. AloneInv'
    BY <2>1 DEF AloneInv
  <2> QED
    BY <2>3, <2>4 DEF IInv
<1> QED
  BY <1>3, <1>4, <1>5, <1>6

-----------------------------------------------------------------------------
(* The theorems.                                                           *)

\* It holds at the beginning.
LEMMA InitIInv == Init => IInv
<1> SUFFICES ASSUME Init PROVE IInv
  OBVIOUS
<1>1. created \in 0..MaxAtts /\ created \in {0, 1}
  BY BoundsAssumption DEF Init
<1>2. addr \in 0..MaxAtts
  BY <1>1, BoundsAssumption DEF Init
<1>3. atts \in [Atts -> AttStates]
  BY DEF Init, AttStates
<1>4. query \in Qs /\ \A q \in Queries : query[q] \in Caches(q)
  BY StartedType DEF Init, Qs
<1>5. reqs \in [ReqIds -> Requests] /\ dialog \in [attach : BOOLEAN, detach : 0..MaxAtts]
  <2>1. Unused \in Requests /\ 0 \in 0..MaxAtts
    BY BoundsAssumption DEF Unused, Requests, Kinds
  <2> QED
    BY <2>1 DEF Init, NoDialog
<1>6. TypeOK
  BY <1>1, <1>2, <1>3, <1>4, <1>5 DEF Init, TypeOK
<1>7. /\ List.status = "pending" /\ List.fetch = "none"
      /\ \A i \in Atts : List.data[i] = "none" /\ List.got[i] = "none"
  BY StartedType DEF Init, List
<1>8. One(atts)
  <2> SUFFICES ASSUME NEW i \in Atts, NEW j \in Atts, i <= created, j <= created
               PROVE  i = j
    BY DEF One, Init
  <2> QED
    BY <1>1, BoundsAssumption DEF Atts
<1>9. OneInv
  BY <1>7, <1>8 DEF OneInv, One
<1>10. KnownInv
  BY DEF Init, KnownInv
<1>11. \A n \in ReqIds : reqs[n].kind = "attach" /\ reqs[n].at = "unused" /\ ~ reqs[n].own
  BY DEF Init, Unused
<1>12. AloneInv
  BY <1>7, <1>11 DEF AloneInv, Init, NoDialog
<1>13. \A n \in ReqIds : RequestInv(n)
  BY <1>11 DEF RequestInv
<1> QED
  BY <1>4, <1>6, <1>9, <1>10, <1>12, <1>13 DEF IInv

\* Every step keeps it.
LEMMA NextIInv == IInv /\ [Next]_vars => IInv'
<1> SUFFICES ASSUME IInv, [Next]_vars PROVE IInv'
  OBVIOUS
<1>1. CASE Open \/ Leave
  BY <1>1, RenderedStep
<1>2. CASE OpenAttach \/ OpenDetach \/ Report
  BY <1>2, DialogStep
<1>3. CASE \E k \in Kinds : Dismiss(k) \/ Submit(k)
  BY <1>3, DialogStep, SendStep
<1>4. ASSUME NEW n \in ReqIds, Request(n)
      PROVE  IInv'
  <2>1. CASE ApplyAttach(n) \/ ApplyDetach(n)
    BY <2>1, ServiceStep
  <2>2. CASE Refuse(n)
    BY <2>2, SendStep
  <2>3. CASE Answered(n) /\ Shown
    BY <2>3, FetchStep
  <2>4. CASE (Answered(n) /\ ~ Shown) \/ IpsListed(n)
    BY <2>4, RenderedStep
  <2> QED
    BY <1>4, <2>1, <2>2, <2>3, <2>4 DEF Request
<1>5. CASE (\E i \in Atts : Progress(i)) \/ OthersAct
  BY <1>5, ServiceStep
<1>6. CASE Respond
  BY <1>6, FetchStep
<1>7. ASSUME NEW q \in Queries, Poll(q) \/ Loaded(q) \/ LoadFailed(q)
      PROVE  IInv'
  <2>1. CASE Poll(q)
    BY <2>1, FetchStep
  <2>2. CASE Loaded(q) \/ LoadFailed(q)
    BY <2>2, RenderedStep
  <2> QED
    BY <1>7, <2>1, <2>2
<1>8. CASE UNCHANGED vars
  <2>1. IInv' = IInv
    BY <1>8 DEF IInv, TypeOK, OneInv, One, KnownInv, InData, InGot, Seen, AloneInv, Steady,
       Unknown, Removing, RequestInv, List, Shown, ShownWith
  <2> QED
    BY <2>1
<1> QED
  BY <1>1, <1>2, <1>3, <1>4, <1>5, <1>6, <1>7, <1>8 DEF Next

\* The invariant holds of every reachable state, whatever the numbers of
\* attachments and of requests are.
THEOREM Inductive == Spec => []IInv
BY InitIInv, NextIInv, PTL DEF Spec

\* Every state of the page, its queries, its requests and the service is one
\* that the code and the service know.
THEOREM TypeCorrect == Spec => []TypeOK
<1>1. IInv => TypeOK
  BY DEF IInv
<1> QED
  BY <1>1, Inductive, PTL

\* No dialog opens to attach an address while one, whose dialog closed on
\* success, is there, or, on a virtual machine's page, is not yet ready: the
\* page's list knew of it before the dialog closed.
THEOREM AttachesOnceThm == Spec => AttachesOnce
<1>1. ASSUME IInv, Next, ~ dialog.attach, dialog'.attach, NEW i \in attached
      PROVE  atts[i] \notin {"pending", "failed"} /\ (kind = "cluster" => atts[i] # "ready")
  <2>1. TypeOK /\ query \in Qs
    BY <1>1 DEF IInv
  <2>2. OpenAttach
    <3>1. dialog \in [attach : BOOLEAN, detach : 0..MaxAtts]
      BY <2>1 DEF TypeOK
    <3>2. \A N : Closed(N).attach => dialog.attach
      BY DEF Closed
    <3>3. ~ NoDialog.attach
      BY DEF NoDialog
    <3>4. \A o, qs, N, L : ~ Rendered(o, qs, N, L)
      BY <1>1, <3>2, <3>3 DEF Rendered
    <3>5. dialog' # dialog
      BY <1>1
    <3>6. ~ OpenDetach /\ \A k \in Kinds : ~ Dismiss(k)
      BY <1>1, <3>1 DEF OpenDetach, Dismiss
    <3>7. \A k \in Kinds : ~ Submit(k)
      BY <3>5 DEF Submit
    <3>8. \A n \in ReqIds : ~ Request(n)
      BY <3>4, <3>5 DEF Request, ApplyAttach, ApplyDetach, Refuse, Answered, IpsListed
    <3>9. ~ Open /\ ~ Leave
      BY <3>4 DEF Open, Leave
    <3>10. (\A j \in Atts : ~ Progress(j)) /\ ~ Report /\ ~ OthersAct /\ ~ Respond
      BY <3>5 DEF Progress, Report, OthersAct, Respond
    <3>11. \A q \in Queries : ~ Poll(q) /\ ~ Loaded(q) /\ ~ LoadFailed(q)
      BY <3>4, <3>5 DEF Poll, Loaded, LoadFailed
    <3> QED
      BY <1>1, <3>6, <3>7, <3>8, <3>9, <3>10, <3>11 DEF Next
  <2>3. List.status = "success" /\ MayAttach
    BY <2>2 DEF OpenAttach, MayAttach, List
  <2>4. Seen(i, List.data) /\ i \in Atts
    BY <1>1, <2>1, <2>3 DEF IInv, KnownInv, InData, TypeOK
  <2>5. CASE kind = "cluster"
    <3>1. Newest(List.data) = 0
      BY <2>3, <2>5 DEF MayAttach, Current, List
    <3>2. List.data[i] = "none"
      BY <2>4, <3>1, NewestOf
    <3> QED
      BY <2>4, <3>2 DEF Seen, Active
  <2>6. CASE kind = "vm"
    <3>1. ~ CurrentIn({"pending", "failed"})
      BY <2>3, <2>6 DEF MayAttach
    <3>2. ASSUME atts[i] \in {"pending", "failed"} PROVE FALSE
      <4>1. List.data[i] \in {"pending", "failed"}
        BY <2>4, <3>2 DEF Seen, Active
      <4>2. Newest(List.data) \in Atts /\ List.data[Newest(List.data)] # "none" /\ 0 \notin Atts
        BY <2>4, <4>1, NewestOf DEF Atts
      <4>3. Newest(List.data) = i
        BY <1>1, <2>4, <2>6, <4>1, <4>2 DEF IInv, OneInv, One
      <4> QED
        BY <3>1, <4>1, <4>2, <4>3 DEF CurrentIn, Current, List
    <3> QED
      BY <2>6, <3>2
  <2> QED
    BY <2>1, <2>5, <2>6 DEF TypeOK
<1>2. IInv /\ [Next]_vars =>
        [~ dialog.attach /\ dialog'.attach =>
           \A i \in attached :
             /\ atts[i] \notin {"pending", "failed"}
             /\ kind = "cluster" => atts[i] # "ready"]_vars
  BY <1>1
<1> QED
  BY <1>2, Inductive, PTL DEF Spec, AttachesOnce

\* What a detach request names is what was picked: always on a cluster's page, on
\* a virtual machine's when its user is alone and no detach went astray.
THEOREM DetachesThePickedThm == Spec => DetachesThePicked
<1>1. ASSUME IInv, Next, NEW n \in ReqIds, Sends(n, "detach")
      PROVE  reqs'[n].att = dialog.detach \/ (kind = "vm" /\ (others \/ stray))
  <2>1. TypeOK /\ reqs \in [ReqIds -> Requests] /\ kind \in {"vm", "cluster"}
    BY <1>1 DEF IInv, TypeOK
  <2>2. reqs[n].at = "unused" /\ reqs'[n].at = "sent" /\ reqs'[n].kind = "detach"
    BY <1>1 DEF Sends
  <2>3. reqs' # reqs
    BY <2>2
  <2>4. ASSUME NEW o, NEW qs, NEW N, NEW L, Rendered(o, qs, N, L)
        PROVE  FALSE
    <3>1. \/ reqs'[n] = Unused
          \/ reqs'[n] = [reqs[n] EXCEPT !.at = "listing"]
          \/ reqs'[n] = [reqs[n] EXCEPT !.own = FALSE]
          \/ reqs'[n] = reqs[n]
      <4> DEFINE gone == \/ ~ ShownWith(o, qs)
                         \/ /\ kind = "vm" /\ reqs[n].kind = "detach"
                            /\ Newest(qs["atts"].data) = 0
      <4>1. reqs'[n] = CASE n \in N -> Unused
                         [] n \in L -> [reqs[n] EXCEPT !.at = "listing"]
                         [] OTHER -> IF reqs[n].at \in UnderWay /\ gone
                                     THEN [reqs[n] EXCEPT !.own = FALSE] ELSE reqs[n]
        BY <2>4 DEF Rendered
      <4> HIDE DEF gone
      <4> QED
        BY <4>1
    <3>2. reqs[n] \in Requests
      BY <2>1
    <3> QED
      BY <2>2, <3>1, <3>2 DEF Unused, Requests
  <2>5. \A m \in ReqIds : ~ Request(m)
    BY <2>1, <2>2, <2>4 DEF Request, ApplyAttach, ApplyDetach, Refuse, Answered, IpsListed,
       Unused, Requests
  <2>6. PICK k \in Kinds : Submit(k)
    BY <1>1, <2>3, <2>4, <2>5 DEF Next, Open, Leave, OpenAttach, OpenDetach, Dismiss, Progress,
       Report, OthersAct, Respond, Poll, Loaded, LoadFailed
  <2>7. PICK m \in ReqIds : reqs' = [reqs EXCEPT ![m] =
            [at |-> "sent", kind |-> k, att |-> IF k = "detach" THEN Target ELSE 0, own |-> TRUE]]
    BY <2>6 DEF Submit
  <2>8. m = n /\ k = "detach" /\ reqs'[n].att = Target
    BY <2>1, <2>2, <2>7
  <2>9. DialogOn("detach") /\ ~ Pending("detach")
    BY <2>6, <2>8 DEF Submit
  <2>10. Target # 0 /\ dialog.detach # 0
    BY <2>9 DEF DialogOn, Target
  <2>11. CASE kind = "cluster"
    BY <2>8, <2>10, <2>11 DEF Target
  <2>12. CASE kind = "vm" /\ ~ others /\ ~ stray
    <3>1. \A l \in ReqIds : reqs[l].kind # "detach"
      BY <1>1, <2>9, <2>12, NoDetach
    <3>2. Current = dialog.detach
      BY <1>1, <2>10, <2>12, <3>1, ShowsThePicked
    <3> QED
      BY <2>8, <2>10, <2>12, <3>2 DEF Target
  <2> QED
    BY <2>1, <2>11, <2>12
<1>2. IInv /\ [Next]_vars =>
        [\A n \in ReqIds : Sends(n, "detach") =>
           \/ reqs'[n].att = dialog.detach
           \/ kind = "vm" /\ (others \/ stray)]_vars
  BY <1>1
<1> QED
  BY <1>2, Inductive, PTL DEF Spec, DetachesThePicked
=============================================================================
