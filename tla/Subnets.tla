------------------------------ MODULE Subnets ------------------------------
(***************************************************************************)
(* Creating subnets on the page of a virtual network.  The dialog checks   *)
(* the range that was typed against the network's and against the subnets  *)
(* that the page's list shows, by comparing the ends of the ranges; the    *)
(* list is polled, may be stale, may be missing, and the service is not    *)
(* relied upon to check anything.                                          *)
(*                                                                         *)
(* A CIDR is an address and a prefix length; bits of the address beyond    *)
(* the prefix are allowed, and ignored.                                    *)
(***************************************************************************)
EXTENDS Naturals

CONSTANTS
  Width,     \* bits of an address
  Network,   \* the CIDR of the virtual network
  Typed,     \* the CIDRs that users type (a bound)
  Earlier    \* the subnets that are there when the page opens

VARIABLES
  subnets,   \* the subnets' CIDRs at the service
  open,      \* is the page open
  list,      \* the page's query: its status, data, fetch and the answer on its way
  dialog,    \* is the dialog open
  request,   \* the dialog's create
  others,    \* history: another user created a subnet
  lost       \* history: a create lost its answer, or outlived its page

vars == <<subnets, open, list, dialog, request, others, lost>>

CIDRs == [addr : 0..(2^Width - 1), prefix : 0..Width]

TypeOK ==
  /\ subnets \subseteq CIDRs
  /\ open \in BOOLEAN
  /\ list \in [status : {"pending", "success", "error"}, data : SUBSET CIDRs,
               fetch : {"none", "sent", "served"}, got : SUBSET CIDRs]
  /\ dialog \in BOOLEAN
  /\ request \in [at : {"none", "sent", "applied", "refetching"}, cidr : CIDRs]
  /\ others \in BOOLEAN /\ lost \in BOOLEAN

-----------------------------------------------------------------------------
(* CIDR arithmetic.                                                        *)
(*                                                                         *)
(* Definitions named Fault... are no part of the specification: each is    *)
(* the definition after it with one plausible mistake, which a property    *)
(* must notice.                                                            *)

BlockSize(c) == 2^(Width - c.prefix)
Start(c) == c.addr - (c.addr % BlockSize(c))
End(c) == Start(c) + BlockSize(c) - 1

\* isSubnetWithinVN
Within(c, vn) ==
  /\ c.prefix >= vn.prefix
  /\ Start(c) >= Start(vn) /\ End(c) <= End(vn)

\* the address is compared as it was typed
FaultOverlaps(c, d) == c.addr <= End(d) /\ End(c) >= d.addr

\* hasSubnetOverlap, with one existing CIDR
Overlaps(c, d) == Start(c) <= End(d) /\ End(c) >= Start(d)

\* the reference: a CIDR is the set of addresses that share its prefix
Addresses(c) ==
  {x \in 0..(2^Width - 1) : x \div BlockSize(c) = c.addr \div BlockSize(c)}

-----------------------------------------------------------------------------
NoRequest == [at |-> "none", cidr |-> Network]

Init ==
  /\ subnets = Earlier
  /\ open = FALSE
  /\ list = [status |-> "pending", data |-> {}, fetch |-> "none", got |-> {}]
  /\ dialog = FALSE /\ request = NoRequest
  /\ others = FALSE /\ lost = FALSE

\* The list of the last visit is shown at once, and fetched anew.  (A bound: a
\* create of the last visit has ended by then.)
Open ==
  /\ ~ open /\ request.at = "none"
  /\ open' = TRUE
  /\ list' = IF list.fetch = "none" THEN [list EXCEPT !.fetch = "sent"] ELSE list
  /\ UNCHANGED <<subnets, dialog, request, others, lost>>

\* A create under way goes on without its dialog.
Leave ==
  /\ open
  /\ open' = FALSE /\ dialog' = FALSE
  /\ lost' = (lost \/ request.at # "none")
  /\ UNCHANGED <<subnets, list, request, others>>

\* The button is always enabled.
OpenDialog ==
  /\ open /\ ~ dialog
  /\ dialog' = TRUE
  /\ UNCHANGED <<subnets, open, list, request, others, lost>>

Cancel ==
  /\ dialog /\ request.at = "none"
  /\ dialog' = FALSE
  /\ UNCHANGED <<subnets, open, list, request, others, lost>>

\* Without data the list counts as empty; with an error it is the last one.
Create(c) ==
  /\ dialog /\ request.at = "none"
  /\ Within(c, Network)
  /\ \A d \in list.data : ~ Overlaps(c, d)
  /\ request' = [at |-> "sent", cidr |-> c]
  /\ UNCHANGED <<subnets, open, list, dialog, others, lost>>

Apply ==
  /\ request.at = "sent"
  /\ subnets' = subnets \cup {request.cidr}
  /\ request' = [request EXCEPT !.at = "applied"]
  /\ UNCHANGED <<open, list, dialog, others, lost>>

\* The create is refused, or one of its two messages is lost: the dialog shows
\* an error and takes input again.
Refuse ==
  /\ request.at \in {"sent", "applied"}
  /\ lost' = (lost \/ request.at = "applied")
  /\ request' = NoRequest
  /\ UNCHANGED <<subnets, open, list, dialog, others>>

\* the dialog closes without waiting for the list
FaultAnswered ==
  /\ request.at = "applied"
  /\ request' = NoRequest /\ dialog' = FALSE
  /\ list' = [list EXCEPT !.fetch = "sent", !.got = {}]
  /\ UNCHANGED <<subnets, open, others, lost>>

\* onSuccess fetches the list anew if it is on the screen, and a fetch in flight
\* is cancelled; the create ends with this fetch, or now.
Answered ==
  /\ request.at = "applied"
  /\ IF open THEN /\ request' = [request EXCEPT !.at = "refetching"]
                  /\ list' = [list EXCEPT !.fetch = "sent", !.got = {}]
             ELSE request' = NoRequest /\ UNCHANGED list
  /\ UNCHANGED <<subnets, open, dialog, others, lost>>

\* Another user creates a subnet, or another dialog of this page's user.
OthersCreate(c) ==
  /\ ~ others /\ others' = TRUE
  /\ subnets' = subnets \cup {c}
  /\ UNCHANGED <<open, list, dialog, request, lost>>

Poll ==
  /\ open /\ list.fetch = "none"
  /\ list' = [list EXCEPT !.fetch = "sent"]
  /\ UNCHANGED <<subnets, open, dialog, request, others, lost>>

Respond ==
  /\ list.fetch = "sent"
  /\ list' = [list EXCEPT !.fetch = "served", !.got = subnets]
  /\ UNCHANGED <<subnets, open, dialog, request, others, lost>>

\* With the fetch that it waits for the create ends, and closes the dialog.
Ends ==
  IF request.at = "refetching" THEN request' = NoRequest /\ dialog' = FALSE
                               ELSE UNCHANGED <<request, dialog>>

Loaded ==
  /\ list.fetch = "served"
  /\ list' = [status |-> "success", data |-> list.got, fetch |-> "none", got |-> {}]
  /\ Ends
  /\ UNCHANGED <<subnets, open, others, lost>>

LoadFailed ==
  /\ list.fetch # "none"
  /\ list' = [list EXCEPT !.status = "error", !.fetch = "none", !.got = {}]
  /\ Ends
  /\ UNCHANGED <<subnets, open, others, lost>>

Next ==
  \/ Open \/ Leave \/ OpenDialog \/ Cancel \/ Apply \/ Refuse \/ Answered
  \/ \E c \in Typed : Create(c) \/ OthersCreate(c)
  \/ Poll \/ Respond \/ Loaded \/ LoadFailed

Spec == Init /\ [][Next]_vars

-----------------------------------------------------------------------------
(* Properties                                                              *)

\* A user who is alone does not create two subnets that share an address, nor
\* one that leaves the network, also right after creating another one: unless
\* the user never saw how a create ended, or the list under the dialog says that
\* it is loading or could not be loaded.
CreatesDisjoint ==
  [][request.at = "none" /\ request'.at = "sent" =>
       LET c == request'.cidr
       IN  /\ Addresses(c) \subseteq Addresses(Network)
           /\ list.status = "success" /\ ~ others /\ ~ lost =>
                \A d \in subnets : Addresses(c) \cap Addresses(d) = {}]_vars
=============================================================================
