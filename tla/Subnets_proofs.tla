--------------------------- MODULE Subnets_proofs ---------------------------
(***************************************************************************)
(* Proofs about Subnets for addresses of up to 32 bits, as IPv4 has, any   *)
(* network and any ranges: comparing the ends of two ranges finds every    *)
(* address that they share, and the list is compared when it has all.      *)
(***************************************************************************)
EXTENDS Subnets, Integers, TLAPS

\* the values of the constants
Ranges ==
  /\ Width \in 0..32
  /\ Network \in CIDRs /\ Typed \subseteq CIDRs /\ Earlier \subseteq CIDRs

-----------------------------------------------------------------------------
(* CIDR arithmetic.                                                        *)

\* Every range has an address.  (The prover multiplies: these are 33 numbers.)
LEMMA BlockSizes ==
  ASSUME Ranges, NEW c \in CIDRs
  PROVE  BlockSize(c) \in Nat \ {0}
<1> DEFINE n == Width - c.prefix
<1>1. n \in 0..32
  BY DEF Ranges, CIDRs
<1> HIDE DEF n
<1>2. CASE n \in 0..10
  <2>1. n \in {0, 1, 2, 3, 4, 5, 6, 7, 8, 9, 10}
    BY <1>2
  <2>2. /\ 2^0 \in Nat \ {0} /\ 2^1 \in Nat \ {0} /\ 2^2 \in Nat \ {0} /\ 2^3 \in Nat \ {0}
        /\ 2^4 \in Nat \ {0} /\ 2^5 \in Nat \ {0} /\ 2^6 \in Nat \ {0} /\ 2^7 \in Nat \ {0}
        /\ 2^8 \in Nat \ {0} /\ 2^9 \in Nat \ {0} /\ 2^10 \in Nat \ {0}
    BY SMT
  <2>3. 2^n \in Nat \ {0}
    BY <2>1, <2>2, Zenon
  <2> QED
    BY <2>3 DEF BlockSize, n
<1>3. CASE n \in 11..21
  <2>1. n \in {11, 12, 13, 14, 15, 16, 17, 18, 19, 20, 21}
    BY <1>3
  <2>2. /\ 2^11 \in Nat \ {0} /\ 2^12 \in Nat \ {0} /\ 2^13 \in Nat \ {0} /\ 2^14 \in Nat \ {0}
        /\ 2^15 \in Nat \ {0} /\ 2^16 \in Nat \ {0} /\ 2^17 \in Nat \ {0} /\ 2^18 \in Nat \ {0}
        /\ 2^19 \in Nat \ {0} /\ 2^20 \in Nat \ {0} /\ 2^21 \in Nat \ {0}
    BY SMT
  <2>3. 2^n \in Nat \ {0}
    BY <2>1, <2>2, Zenon
  <2> QED
    BY <2>3 DEF BlockSize, n
<1>4. CASE n \in 22..32
  <2>1. n \in {22, 23, 24, 25, 26, 27, 28, 29, 30, 31, 32}
    BY <1>4
  <2>2. /\ 2^22 \in Nat \ {0} /\ 2^23 \in Nat \ {0} /\ 2^24 \in Nat \ {0} /\ 2^25 \in Nat \ {0}
        /\ 2^26 \in Nat \ {0} /\ 2^27 \in Nat \ {0} /\ 2^28 \in Nat \ {0} /\ 2^29 \in Nat \ {0}
        /\ 2^30 \in Nat \ {0} /\ 2^31 \in Nat \ {0} /\ 2^32 \in Nat \ {0}
    BY SMT
  <2>3. 2^n \in Nat \ {0}
    BY <2>1, <2>2, Zenon
  <2> QED
    BY <2>3 DEF BlockSize, n
<1> QED
  BY <1>1, <1>2, <1>3, <1>4

\* A block of size b is the numbers with one quotient.
LEMMA Block ==
  ASSUME NEW a \in Nat, NEW x \in Nat, NEW b \in Nat \ {0}
  PROVE  x \div b = a \div b <=> a - (a % b) <= x /\ x <= a - (a % b) + b - 1
<1> DEFINE q == a \div b
           p == x \div b
<1>1. /\ q \in Nat /\ a = b * q + (a % b) /\ a % b \in 0..(b - 1)
      /\ p \in Nat /\ x = b * p + (x % b) /\ x % b \in 0..(b - 1)
  OBVIOUS
<1>2. a - (a % b) = b * q
  BY <1>1
<1> HIDE DEF q, p
<1>3. CASE p = q
  BY <1>1, <1>2, <1>3 DEF p, q
<1>4. CASE q < p
  <2>1. b * p >= b * q + b
    BY <1>1, <1>4
  <2>2. b * p \in Nat /\ b * q \in Nat
    BY <1>1
  <2>3. x > b * q + b - 1
    BY <1>1, <2>1, <2>2
  <2> QED
    BY <1>1, <1>2, <1>4, <2>2, <2>3 DEF p, q
<1>5. CASE p < q
  <2>1. b * q >= b * p + b
    BY <1>1, <1>5
  <2>2. b * p \in Nat /\ b * q \in Nat
    BY <1>1
  <2>3. x < b * q
    BY <1>1, <2>1, <2>2
  <2> QED
    BY <1>1, <1>2, <1>5, <2>2, <2>3 DEF p, q
<1> QED
  BY <1>1, <1>3, <1>4, <1>5

\* The addresses of a range are those between its ends.
LEMMA AddressesLie ==
  ASSUME Ranges, NEW c \in CIDRs
  PROVE  /\ Start(c) \in Int /\ End(c) \in Int
         /\ Addresses(c) = {x \in 0..(2^Width - 1) : Start(c) <= x /\ x <= End(c)}
<1>1. BlockSize(c) \in Nat \ {0} /\ c.addr \in Nat
  BY BlockSizes DEF CIDRs
<1>2. \A x \in Nat : x \div BlockSize(c) = c.addr \div BlockSize(c)
                     <=> Start(c) <= x /\ x <= End(c)
  BY <1>1, Block DEF Start, End
<1>3. c.addr % BlockSize(c) \in Int
  BY <1>1
<1> QED
  BY <1>1, <1>2, <1>3 DEF Addresses, Start, End

\* The dialog's two comparisons mean what they should.
LEMMA Comparisons ==
  ASSUME Ranges, NEW c \in CIDRs, NEW d \in CIDRs
  PROVE  /\ ~ Overlaps(c, d) => Addresses(c) \cap Addresses(d) = {}
         /\ Within(c, d) => Addresses(c) \subseteq Addresses(d)
<1>1. /\ Start(c) \in Int /\ End(c) \in Int /\ Start(d) \in Int /\ End(d) \in Int
      /\ Addresses(c) = {x \in 0..(2^Width - 1) : Start(c) <= x /\ x <= End(c)}
      /\ Addresses(d) = {x \in 0..(2^Width - 1) : Start(d) <= x /\ x <= End(d)}
  BY AddressesLie
<1>2. ASSUME ~ Overlaps(c, d), NEW x \in Addresses(c), x \in Addresses(d)
      PROVE  FALSE
  <2>1. /\ x \in Int /\ Start(c) <= x /\ x <= End(c)
        /\ Start(d) <= x /\ x <= End(d)
    BY <1>1, <1>2
  <2> QED
    BY <1>1, <1>2, <2>1 DEF Overlaps
<1>3. ASSUME Within(c, d), NEW x \in Addresses(c)
      PROVE  x \in Addresses(d)
  <2>1. /\ x \in Int /\ x \in 0..(2^Width - 1) /\ Start(c) <= x /\ x <= End(c)
        /\ Start(c) >= Start(d) /\ End(c) <= End(d)
    BY <1>1, <1>3 DEF Within
  <2>2. Start(d) <= x /\ x <= End(d)
    BY <1>1, <2>1
  <2> QED
    BY <1>1, <2>1, <2>2
<1> QED
  BY <1>2, <1>3

-----------------------------------------------------------------------------
(* The inductive invariant.                                                *)

\* The dialog is the page's.  Of a user who is alone and saw every create end: only between a create and
\* the fetch that it waits for can the list lack a subnet.
ListInv ==
  /\ dialog => open
  /\ ~ others /\ ~ lost =>
       /\ request.at # "none" => open
       /\ request.at \in {"none", "sent"} /\ list.status = "success" => subnets \subseteq list.data
       /\ request.at # "applied" /\ list.fetch = "served" => subnets \subseteq list.got

IInv == TypeOK /\ ListInv

\* It holds at the beginning.
LEMMA InitIInv == ASSUME Ranges, Init PROVE IInv
BY DEF Ranges, Init, IInv, TypeOK, ListInv, NoRequest

\* Every step keeps the types.
LEMMA TypeStep == ASSUME Ranges, TypeOK, [Next]_vars PROVE TypeOK'
<1> DEFINE Lists == [status : {"pending", "success", "error"}, data : SUBSET CIDRs,
                     fetch : {"none", "sent", "served"}, got : SUBSET CIDRs]
           Creates == [at : {"none", "sent", "applied", "refetching"}, cidr : CIDRs]
<1>1. NoRequest \in Creates
  BY DEF Ranges, NoRequest
<1>2. list \in Lists /\ request \in Creates /\ subnets \subseteq CIDRs
  BY DEF TypeOK
<1>3. list' \in Lists
  <2>1. \/ list' = list
        \/ list' = [list EXCEPT !.fetch = "sent"]
        \/ list' = [list EXCEPT !.fetch = "sent", !.got = {}]
        \/ list' = [list EXCEPT !.fetch = "served", !.got = subnets]
        \/ list' = [status |-> "success", data |-> list.got, fetch |-> "none", got |-> {}]
        \/ list' = [list EXCEPT !.status = "error", !.fetch = "none", !.got = {}]
    BY DEF Next, Open, Leave, OpenDialog, Cancel, Create, Apply, Refuse, Answered,
       OthersCreate, Poll, Respond, Loaded, LoadFailed, vars
  <2>2. list.data \subseteq CIDRs /\ list.got \subseteq CIDRs /\ {} \subseteq CIDRs
    BY <1>2
  <2> DEFINE st == {"pending", "success", "error"}
             fe == {"none", "sent", "served"}
  <2>3. \A s \in st, d \in SUBSET CIDRs, f \in fe, g \in SUBSET CIDRs :
          [status |-> s, data |-> d, fetch |-> f, got |-> g] \in Lists
    OBVIOUS
  <2>4. /\ list = [status |-> list.status, data |-> list.data, fetch |-> list.fetch, got |-> list.got]
        /\ list.status \in st /\ list.fetch \in fe
    BY <1>2
  <2>5. \E s \in st, d \in SUBSET CIDRs, f \in fe, g \in SUBSET CIDRs :
          list' = [status |-> s, data |-> d, fetch |-> f, got |-> g]
    BY <1>2, <2>1, <2>2, <2>4
  <2> QED
    BY <2>3, <2>5
<1>4. request' \in Creates
  BY <1>1, <1>2 DEF Ranges, Next, Open, Leave, OpenDialog, Cancel, Create, Apply, Refuse,
     Answered, OthersCreate, Poll, Respond, Loaded, LoadFailed, Ends, vars
<1>5. subnets' \subseteq CIDRs
  BY <1>2 DEF Ranges, Next, Open, Leave, OpenDialog, Cancel, Create, Apply, Refuse, Answered,
     OthersCreate, Poll, Respond, Loaded, LoadFailed, vars
<1>6. open' \in BOOLEAN /\ dialog' \in BOOLEAN
  BY DEF TypeOK, Next, Open, Leave, OpenDialog, Cancel, Create, Apply, Refuse, Answered,
     OthersCreate, Poll, Respond, Loaded, LoadFailed, Ends, vars
<1>7. others' \in BOOLEAN /\ lost' \in BOOLEAN
  BY DEF TypeOK, Next, Open, Leave, OpenDialog, Cancel, Create, Apply, Refuse, Answered,
     OthersCreate, Poll, Respond, Loaded, LoadFailed, vars
<1> QED
  BY <1>3, <1>4, <1>5, <1>6, <1>7 DEF TypeOK

\* Every step keeps it.
LEMMA StepIInv == ASSUME Ranges, IInv, [Next]_vars PROVE IInv'
<1> SUFFICES ListInv'
  BY TypeStep DEF IInv
<1> USE DEF IInv, ListInv, TypeOK
<1>1. CASE Open \/ Leave
  BY <1>1 DEF Open, Leave
<1>2. CASE OpenDialog \/ Cancel
  BY <1>2 DEF OpenDialog, Cancel
<1>3. ASSUME NEW c \in Typed, Create(c) PROVE ListInv'
  <2>1. request' = [at |-> "sent", cidr |-> c] /\ request.at = "none" /\ dialog
    BY <1>3 DEF Create
  <2> QED
    BY <1>3, <2>1 DEF Create
<1>4. CASE Apply \/ Refuse
  BY <1>4 DEF Apply, Refuse, NoRequest
<1>5. CASE Answered
  BY <1>5 DEF Answered, NoRequest
<1>6. ASSUME NEW c \in Typed, OthersCreate(c) PROVE ListInv'
  BY <1>6 DEF OthersCreate
<1>7. CASE Poll \/ Respond
  <2>1. CASE Poll
    BY <2>1 DEF Poll
  <2>2. CASE Respond
    <3>1. list'.got = subnets /\ list'.data = list.data /\ list'.status = list.status
      BY <2>2 DEF Respond
    <3> QED
      BY <2>2, <3>1 DEF Respond
  <2> QED
    BY <1>7, <2>1, <2>2
<1>8. CASE Loaded
  <2>1. /\ list.fetch = "served" /\ list'.fetch = "none"
        /\ list'.status = "success" /\ list'.data = list.got
    BY <1>8 DEF Loaded
  <2>2. CASE request.at = "refetching"
    BY <1>8, <2>1, <2>2 DEF Loaded, Ends, NoRequest
  <2>3. CASE request.at # "refetching"
    BY <1>8, <2>1, <2>3 DEF Loaded, Ends
  <2> QED
    BY <2>2, <2>3
<1>9. CASE LoadFailed
  <2>1. list'.fetch = "none" /\ list'.status = "error"
    BY <1>9 DEF LoadFailed
  <2> QED
    BY <1>9, <2>1 DEF LoadFailed, Ends, NoRequest
<1>10. CASE UNCHANGED vars
  BY <1>10 DEF vars
<1> QED
  BY <1>1, <1>2, <1>3, <1>4, <1>5, <1>6, <1>7, <1>8, <1>9, <1>10 DEF Next

-----------------------------------------------------------------------------
(* The theorems.                                                           *)

\* Every variable keeps its type, for any network and ranges.
THEOREM TypeCorrect == ASSUME Ranges PROVE Spec => []TypeOK
<1>1. IInv => TypeOK
  BY DEF IInv
<1> QED
  BY InitIInv, StepIInv, <1>1, PTL DEF Spec

\* A subnet that the dialog sends has no address outside the network, and its
\* user, when alone, saw a create's end always and has a list that is not
\* loading or in error, makes none that shares an address with another.
THEOREM CreatesDisjointThm == ASSUME Ranges PROVE Spec => CreatesDisjoint
<1> DEFINE Disjoint ==
      request.at = "none" /\ request'.at = "sent" =>
        LET c == request'.cidr
        IN  /\ Addresses(c) \subseteq Addresses(Network)
            /\ list.status = "success" /\ ~ others /\ ~ lost =>
                 \A d \in subnets : Addresses(c) \cap Addresses(d) = {}
<1>1. ASSUME IInv, Next, request.at = "none", request'.at = "sent"
      PROVE  LET c == request'.cidr
             IN  /\ Addresses(c) \subseteq Addresses(Network)
                 /\ list.status = "success" /\ ~ others /\ ~ lost =>
                      \A d \in subnets : Addresses(c) \cap Addresses(d) = {}
  <2>1. PICK c \in Typed : Create(c)
    BY <1>1 DEF Next, Open, Leave, OpenDialog, Cancel, Apply, Refuse, Answered, OthersCreate,
       Poll, Respond, Loaded, LoadFailed, Ends, NoRequest
  <2>2. /\ request' = [at |-> "sent", cidr |-> c] /\ Within(c, Network)
        /\ \A d \in list.data : ~ Overlaps(c, d)
        /\ c \in CIDRs /\ Network \in CIDRs
    BY <2>1 DEF Create, Ranges
  <2>3. Addresses(c) \subseteq Addresses(Network)
    BY <2>2, Comparisons
  <2>4. ASSUME list.status = "success", ~ others, ~ lost, NEW d \in subnets
        PROVE  Addresses(c) \cap Addresses(d) = {}
    <3>1. d \in list.data /\ d \in CIDRs
      BY <1>1, <2>4 DEF IInv, ListInv, TypeOK
    <3> QED
      BY <2>2, <3>1, Comparisons
  <2> QED
    BY <2>2, <2>3, <2>4
<1>2. IInv /\ [Next]_vars => [Disjoint]_vars
  BY <1>1
<1> QED
  BY InitIInv, StepIInv, <1>2, PTL DEF Spec, CreatesDisjoint
=============================================================================
