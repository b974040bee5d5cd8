------------------------ MODULE SecurityRules_proofs ------------------------
(***************************************************************************)
(* Proofs about SecurityRules for any number of tabs, rules and saves.     *)
(***************************************************************************)
EXTENDS SecurityRules, SequenceTheorems, TLAPS

\* the tuples that UNCHANGED names
USE DEF vars, rulesVars, cacheVars

-----------------------------------------------------------------------------
(* Type correctness.                                                       *)

\* The steps of a query keep its types.
LEMMA CacheStep ==
  ASSUME CacheTypeOK(Values), NEW t \in Tabs,
         \/ OpenPage(t) \/ ClosePage(t) \/ Refetch(t) \/ Serve(t) \/ Fulfilled(t) \/ Rejected(t)
         \/ Invalidate(t) /\ UNCHANGED <<store, mounted, status, data>>
  PROVE  CacheTypeOK(Values)'
<1> USE DEF CacheTypeOK, Statuses
<1>1. /\ fetch[t] \in Fetches(Values) /\ fetch[t].got \in Snapshots(Values)
      /\ data[t] \in Snapshots(Values)
      /\ \A a \in {"none", "sent", "served"}, s \in Snapshots(Values) :
           [at |-> a, got |-> s] \in Fetches(Values)
      /\ [fetch[t] EXCEPT !.at = "none"] \in Fetches(Values)
  BY DEF Fetches
<1>2. Started(t) \in [Tabs -> Fetches(Values)]
  BY <1>1 DEF Started
<1>3. CASE OpenPage(t)
  BY <1>2, <1>3 DEF OpenPage
<1>4. CASE ClosePage(t)
  BY <1>4 DEF ClosePage
<1>5. CASE Refetch(t)
  BY <1>2, <1>5 DEF Refetch
<1>6. CASE Serve(t)
  BY <1>1, <1>6 DEF Serve
<1>7. CASE Fulfilled(t)
  BY <1>1, <1>7 DEF Fulfilled
<1>8. CASE Rejected(t)
  BY <1>1, <1>8 DEF Rejected
<1>9. CASE Invalidate(t) /\ UNCHANGED <<store, mounted, status, data>>
  BY <1>2, <1>9 DEF Invalidate
<1> QED
  BY <1>3, <1>4, <1>5, <1>6, <1>7, <1>8, <1>9

\* The lists that a save sends are lists of rules: it leaves no hole.
LEMMA EditedType ==
  ASSUME NEW v \in Values, NEW d \in Dialogs, d.kind # "none",
         d.kind = "edit" => d.idx <= Len(v[d.dir]) + 1, NEW r \in Nat \ {0}
  PROVE  Edited(v, d, r) \in Values
<1> DEFINE l == v[d.dir]
<1>1. l \in Seq(Nat \ {0}) /\ d.dir \in Directions /\ d.idx \in Nat /\ d.kind \in Kinds
  BY DEF Values, Dialogs
<1>2. Append(l, r) \in Seq(Nat \ {0})
  BY <1>1
<1>3. d.kind = "edit" => Replaced(l, d.idx, r) \in Seq(Nat \ {0})
  <2> SUFFICES ASSUME d.kind = "edit"
               PROVE  Replaced(l, d.idx, r) \in Seq(Nat \ {0})
    OBVIOUS
  <2> DEFINE k == IF d.idx > Len(l) THEN Len(l) + 1 ELSE Len(l)
  <2>1. k \in Nat /\ Len(l) \in Nat
    BY <1>1
  <2>2. \A j \in 1..k : (IF j = d.idx THEN r ELSE l[j]) \in Nat \ {0}
    BY <1>1
  <2> HIDE DEF k
  <2>3. [j \in 1..k |-> IF j = d.idx THEN r ELSE l[j]] \in [1..k -> Nat \ {0}]
    BY <2>2
  <2>4. \A s : s \in [1..k -> Nat \ {0}] => s \in Seq(Nat \ {0})
    BY <2>1
  <2> QED
    BY <2>3, <2>4 DEF Replaced, k
<1>4. d.idx \in DOMAIN l => RemoveAt(l, d.idx) \in Seq(Nat \ {0})
  <2> SUFFICES ASSUME d.idx \in DOMAIN l
               PROVE  RemoveAt(l, d.idx) \in Seq(Nat \ {0})
    OBVIOUS
  <2>1. SubSeq(l, 1, d.idx - 1) \in Seq(Nat \ {0})
    BY <1>1
  <2>2. SubSeq(l, d.idx + 1, Len(l)) \in Seq(Nat \ {0})
    BY <1>1
  <2> QED
    BY <2>1, <2>2 DEF RemoveAt
<1> QED
  BY <1>1, <1>2, <1>3, <1>4 DEF Edited, Values, Kinds

\* A row's rule, or 0 for no rule, is a number.
LEMMA RuleAtType ==
  ASSUME NEW v \in Values, NEW d \in Directions, NEW i \in Nat
  PROVE  RuleAt(v, d, i) \in Nat
BY DEF RuleAt, Values

\* The dialogs that the actions put in place are dialogs.
LEMMA DialogType ==
  ASSUME dialog \in [Tabs -> Dialogs], NEW t \in Tabs
  PROVE  /\ NoDialog \in Dialogs
         /\ \A N : Closed(t, N) \in Dialogs
         /\ \A d \in Dialogs, v \in Values : Remounted(t, d, v) \in Dialogs
         /\ \A d \in Dialogs, n \in Nat : [d EXCEPT !.save = n] \in Dialogs
<1>1. NoDialog \in Dialogs
  BY RulesAssumption DEF NoDialog, Dialogs
<1>2. \A N : Closed(t, N) \in Dialogs
  BY <1>1 DEF Closed
<1>3. \A d \in Dialogs, v \in Values : Remounted(t, d, v) \in Dialogs
  <2> TAKE d \in Dialogs, v \in Values
  <2>1. RuleAt(v, d.dir, d.idx) \in Nat
    BY RuleAtType DEF Dialogs
  <2> QED
    BY <2>1 DEF Remounted, Dialogs
<1>4. \A d \in Dialogs, n \in Nat : [d EXCEPT !.save = n] \in Dialogs
  BY DEF Dialogs
<1> QED
  BY <1>1, <1>2, <1>3, <1>4

\* A save that moves on, or loses its page, or is applied is a save.
LEMMA SaveType ==
  ASSUME NEW q \in Saves
  PROVE  /\ \A a \in UnderWay \cup {"saved", "refused"} : [q EXCEPT !.at = a] \in Saves
         /\ [q EXCEPT !.own = FALSE] \in Saves
         /\ \A r \in Nat : [q EXCEPT !.at = "applied", !.rev = r] \in Saves
         /\ q.tab \in Tabs /\ q.lists \in Values /\ q.rev \in Nat
BY DEF Saves, UnderWay

LEMMA SettledType ==
  ASSUME saves \in [SaveIds -> Saves], NEW N
  PROVE  Settled(N) \in [SaveIds -> Saves]
<1>1. \A n \in SaveIds : [saves[n] EXCEPT !.at = "saved"] \in Saves
  BY SaveType
<1> QED
  BY <1>1 DEF Settled

\* The initial state has the declared types.
LEMMA InitTypeOK == Init => TypeOK
<1> SUFFICES ASSUME Init PROVE TypeOK
  OBVIOUS
<1>1. CacheTypeOK(Values)
  <2>1. [v |-> Initial, rev |-> 0] \in Snapshots(Values)
    BY RulesAssumption DEF Snapshots
  <2> QED
    BY <2>1 DEF Init, CacheInit, CacheTypeOK, Statuses, Fetches
<1>2. dialog \in [Tabs -> Dialogs]
  <2>1. NoDialog \in Dialogs
    BY RulesAssumption DEF NoDialog, Dialogs
  <2> QED
    BY <2>1 DEF Init
<1>3. saves \in [SaveIds -> Saves]
  BY RulesAssumption DEF Init, Saves, Kinds
<1>4. made \in 0..MaxSaves
  BY RulesAssumption DEF Init
<1>5. kept \subseteq Nat
  <2>1. \A d \in Directions : ToSet(Initial[d]) \subseteq Nat
    BY RulesAssumption DEF Values, ToSet
  <2> QED
    BY <2>1 DEF Init, RulesOf
<1> QED
  BY <1>1, <1>2, <1>3, <1>4, <1>5 DEF TypeOK

\* The service's steps, and the answers to a save, keep the types.
LEMMA SaveStep ==
  ASSUME TypeOK, NEW n \in SaveIds, Apply(n) \/ Refuse(n) \/ Answered(n) \/ Failed(n)
  PROVE  TypeOK'
<1> DEFINE t == saves[n].tab
<1>1. /\ saves[n] \in Saves /\ t \in Tabs /\ saves[n].lists \in Values
      /\ n \in Nat /\ store.rev + 1 \in Nat
  <2>1. saves[n] \in Saves
    BY DEF TypeOK
  <2>2. store.rev \in Nat
    BY DEF TypeOK, CacheTypeOK, Snapshots
  <2>3. n \in Nat
    BY RulesAssumption DEF SaveIds
  <2>4. t \in Tabs /\ saves[n].lists \in Values
    BY <2>1, SaveType
  <2>5. store.rev + 1 \in Nat
    BY <2>2
  <2> QED
    BY <2>1, <2>3, <2>4, <2>5
<1>2. \A a \in UnderWay \cup {"saved", "refused"} : [saves EXCEPT ![n].at = a] \in [SaveIds -> Saves]
  <2>1. \A a \in UnderWay \cup {"saved", "refused"} : [saves[n] EXCEPT !.at = a] \in Saves
    BY <1>1, SaveType
  <2> QED
    BY <2>1 DEF TypeOK
<1>3. CASE Apply(n)
  <2>1. store' \in Snapshots(Values)
    BY <1>1, <1>3 DEF Apply, Snapshots
  <2>2. saves' \in [SaveIds -> Saves]
    <3>1. [saves[n] EXCEPT !.at = "applied", !.rev = store.rev + 1] \in Saves
      BY <1>1, SaveType
    <3> QED
      BY <1>3, <3>1 DEF Apply, TypeOK
  <2> QED
    BY <1>3, <2>1, <2>2 DEF Apply, TypeOK, CacheTypeOK
<1>4. CASE Refuse(n)
  BY <1>2, <1>4 DEF Refuse, TypeOK, CacheTypeOK, UnderWay
<1>5. CASE Answered(n)
  <2>1. CacheTypeOK(Values)'
    BY <1>1, <1>5, CacheStep DEF Answered, TypeOK
  <2>2. saves' \in [SaveIds -> Saves]
    BY <1>2, <1>5, SettledType DEF Answered, TypeOK, UnderWay
  <2>3. kept' \subseteq Nat
    BY <1>1, <1>5 DEF Answered, TypeOK
  <2> QED
    BY <1>5, <2>1, <2>2, <2>3 DEF Answered, TypeOK
<1>6. CASE Failed(n)
  <2>1. saves' \in [SaveIds -> Saves]
    BY <1>2, <1>6 DEF Failed
  <2>2. dialog' \in [Tabs -> Dialogs]
    <3>1. [dialog[t] EXCEPT !.save = 0] \in Dialogs /\ [dialog[t] EXCEPT !.save = @] \in Dialogs
      BY <1>1, DialogType DEF TypeOK, Dialogs
    <3> QED
      BY <1>1, <1>6, <3>1 DEF Failed, TypeOK
  <2> QED
    BY <1>6, <2>1, <2>2 DEF Failed, TypeOK, CacheTypeOK
<1> QED
  BY <1>3, <1>4, <1>5, <1>6

\* So do the steps of a tab.
LEMMA TabStep ==
  ASSUME TypeOK, NEW t \in Tabs,
         \/ Open(t) \/ Leave(t) \/ Dismiss(t) \/ Submit(t)
         \/ Poll(t) \/ Respond(t) \/ Loaded(t) \/ LoadFailed(t)
         \/ \E k \in Kinds, d \in Directions :
              \E i \in 0..Len(data[t].v[d]) : OpenDialog(t, k, d, i)
  PROVE  TypeOK'
<1>1. /\ dialog[t] \in Dialogs /\ dialog[t].dir \in Directions /\ dialog[t].idx \in Nat
      /\ dialog[t].rule \in Nat
      /\ data[t].v \in Values /\ fetch[t].got.v \in Values
      /\ \A d \in Dialogs : [dialog EXCEPT ![t] = d] \in [Tabs -> Dialogs]
  BY DEF TypeOK, CacheTypeOK, Dialogs, Snapshots, Fetches
<1>2. CASE Open(t)
  BY <1>2, CacheStep DEF Open, TypeOK
<1>3. CASE Poll(t)
  BY <1>3, CacheStep DEF Poll, TypeOK
<1>4. CASE Respond(t)
  BY <1>4, CacheStep DEF Respond, TypeOK
<1>5. CASE Leave(t)
  <2>1. CacheTypeOK(Values)'
    BY <1>5, CacheStep DEF Leave, TypeOK
  <2>2. dialog' \in [Tabs -> Dialogs]
    BY <1>1, <1>5, DialogType DEF Leave, TypeOK
  <2>3. saves' \in [SaveIds -> Saves]
    <3>1. \A n \in SaveIds : [saves[n] EXCEPT !.own = FALSE] \in Saves
      BY SaveType DEF TypeOK
    <3> QED
      BY <1>5, <3>1 DEF Leave, TypeOK
  <2> QED
    BY <1>5, <2>1, <2>2, <2>3 DEF Leave, TypeOK
<1>6. CASE Dismiss(t)
  <2>1. dialog' \in [Tabs -> Dialogs]
    BY <1>1, <1>6, DialogType DEF Dismiss, TypeOK
  <2> QED
    BY <1>6, <2>1 DEF Dismiss, TypeOK, CacheTypeOK
<1>7. CASE Submit(t)
  <2> DEFINE d == dialog[t]
             n == made + 1
  <2>1. n \in SaveIds /\ n \in Nat \ {0} /\ n \in 0..MaxSaves
    BY <1>7, RulesAssumption DEF Submit, TypeOK, SaveIds
  <2>2. d.kind \in Kinds
    BY <1>1, <1>7 DEF Submit, Dialogs
  <2>3. Edited(data[t].v, d, n) \in Values
    BY <1>1, <1>7, <2>1, EditedType DEF Submit
  <2>4. RuleAt(data[t].v, d.dir, d.idx) \in Nat
    BY <1>1, RuleAtType
  <2>5. [at |-> "sent", tab |-> t, kind |-> d.kind, lists |-> Edited(data[t].v, d, n),
         rule |-> d.rule, hit |-> RuleAt(data[t].v, d.dir, d.idx), own |-> TRUE, rev |-> 0] \in Saves
    BY <1>1, <2>2, <2>3, <2>4 DEF Saves, UnderWay
  <2>6. saves' \in [SaveIds -> Saves]
    BY <1>7, <2>5 DEF Submit, TypeOK
  <2>7. dialog' \in [Tabs -> Dialogs]
    <3>1. [d EXCEPT !.save = n] \in Dialogs
      BY <1>1, <2>1, DialogType DEF TypeOK
    <3> QED
      BY <1>7, <3>1 DEF Submit, TypeOK
  <2>8. made' \in 0..MaxSaves /\ kept' \subseteq Nat
    BY <1>7, <2>1 DEF Submit, TypeOK
  <2> QED
    BY <1>7, <2>6, <2>7, <2>8 DEF Submit, TypeOK, CacheTypeOK
<1>8. CASE Loaded(t)
  <2>1. CacheTypeOK(Values)'
    BY <1>8, CacheStep DEF Loaded, TypeOK
  <2>2. dialog' \in [Tabs -> Dialogs]
    <3>1. Closed(t, Waiting(t)) \in Dialogs
      BY DialogType DEF TypeOK
    <3>2. Remounted(t, Closed(t, Waiting(t)), fetch[t].got.v) \in Dialogs
      BY <1>1, <3>1, DialogType DEF TypeOK
    <3> QED
      BY <1>1, <1>8, <3>1, <3>2 DEF Loaded
  <2>3. saves' \in [SaveIds -> Saves]
    BY <1>8, SettledType DEF Loaded, TypeOK
  <2> QED
    BY <1>8, <2>1, <2>2, <2>3 DEF Loaded, TypeOK
<1>9. CASE LoadFailed(t)
  <2>1. CacheTypeOK(Values)'
    BY <1>9, CacheStep DEF LoadFailed, TypeOK
  <2>2. Remounted(t, Closed(t, Waiting(t)), data[t].v) \in Dialogs
    BY <1>1, DialogType DEF TypeOK
  <2>3. saves' \in [SaveIds -> Saves]
    BY <1>9, SettledType DEF LoadFailed, TypeOK
  <2> QED
    BY <1>1, <1>9, <2>1, <2>2, <2>3 DEF LoadFailed, TypeOK
<1>10. ASSUME NEW k \in Kinds, NEW d \in Directions, NEW i \in 0..Len(data[t].v[d]),
              OpenDialog(t, k, d, i)
       PROVE  TypeOK'
  <2>1. RuleAt(data[t].v, d, i) \in Nat /\ i \in Nat
    <3>1. Len(data[t].v[d]) \in Nat
      BY <1>1 DEF Values
    <3>2. i \in Nat
      BY <3>1
    <3> QED
      BY <1>1, <3>2, RuleAtType
  <2>2. [kind |-> k, dir |-> d, idx |-> i, rule |-> RuleAt(data[t].v, d, i), save |-> 0] \in Dialogs
    BY <2>1 DEF Dialogs
  <2>3. dialog' \in [Tabs -> Dialogs]
    BY <1>1, <1>10, <2>2 DEF OpenDialog
  <2> QED
    BY <1>10, <2>3 DEF OpenDialog, TypeOK, CacheTypeOK
<1> QED
  BY <1>2, <1>3, <1>4, <1>5, <1>6, <1>7, <1>8, <1>9, <1>10

\* A step keeps the declared types.
LEMMA NextTypeOK == TypeOK /\ [Next]_vars => TypeOK'
<1> SUFFICES ASSUME TypeOK, [Next]_vars
             PROVE  TypeOK'
  OBVIOUS
<1>1. CASE Next
  BY <1>1, SaveStep, TabStep DEF Next
<1>2. CASE UNCHANGED vars
  BY <1>2 DEF TypeOK, CacheTypeOK
<1> QED
  BY <1>1, <1>2

\* Every variable keeps its type; no save ever sends a list with a hole
\* (SecurityGroupRuleModal's handleSubmit, securityGroupWithoutRule).
THEOREM TypeCorrect == Spec => []TypeOK
BY InitTypeOK, NextTypeOK, PTL DEF Spec

-----------------------------------------------------------------------------
(* A page shows the saves it made.                                         *)

\* What a save that was applied, answered or ended implies of the cache: the
\* fetch it waits for was not served before it was applied.
SaveInv(n) ==
  LET t == saves[n].tab
      Served == fetch[t].at = "served" => saves[n].rev <= fetch[t].got.rev
  IN  /\ saves[n].own => mounted[t]
      /\ saves[n].at \in {"applied", "refetching", "saved"} => saves[n].rev <= store.rev
      /\ saves[n].at = "refetching" => Served
      /\ saves[n].at = "saved" /\ saves[n].own =>
           Served /\ (status[t] = "success" => saves[n].rev <= data[t].rev)

IInv == TypeOK /\ \A n \in SaveIds : SaveInv(n)

\* The numbers that are compared are numbers.
LEMMA Revisions ==
  ASSUME TypeOK
  PROVE  /\ store.rev \in Nat
         /\ \A t \in Tabs : data[t].rev \in Nat /\ fetch[t].got.rev \in Nat
         /\ \A n \in SaveIds : saves[n].rev \in Nat /\ saves[n].tab \in Tabs
<1>1. \A n \in SaveIds : saves[n].rev \in Nat /\ saves[n].tab \in Tabs
  BY SaveType DEF TypeOK
<1>2. \A t \in Tabs : data[t] \in Snapshots(Values) /\ fetch[t].got \in Snapshots(Values)
  BY DEF TypeOK, CacheTypeOK, Fetches
<1> QED
  BY <1>1, <1>2 DEF TypeOK, CacheTypeOK, Snapshots

LEMMA InitInv == Init => IInv
<1> SUFFICES ASSUME Init PROVE IInv
  OBVIOUS
<1>1. \A n \in SaveIds : SaveInv(n)
  BY DEF Init, SaveInv
<1> QED
  BY <1>1, InitTypeOK DEF IInv

\* A save's own steps, and those of the other saves of its tab.
LEMMA SaveStepInv ==
  ASSUME IInv, NEW n \in SaveIds, Apply(n) \/ Refuse(n) \/ Answered(n) \/ Failed(n),
         NEW m \in SaveIds
  PROVE  SaveInv(m)'
<1> USE Revisions DEF IInv, SaveInv
<1>0. saves \in [SaveIds -> Saves] /\ saves[n] \in Saves /\ saves[m] \in Saves
      /\ fetch \in [Tabs -> Fetches(Values)]
  BY DEF TypeOK, CacheTypeOK
<1>1. CASE Apply(n)
  BY <1>0, <1>1 DEF Apply, Saves
<1>2. CASE Refuse(n)
  BY <1>0, <1>2 DEF Refuse, Saves
<1>3. CASE Failed(n)
  BY <1>0, <1>3 DEF Failed, Saves
<1>4. CASE Answered(n)
  <2>1. CASE mounted[saves[n].tab]
    BY <1>0, <1>4, <2>1 DEF Answered, Invalidate, Started, Saves
  <2>2. CASE ~ mounted[saves[n].tab]
    BY <1>0, <1>4, <2>2 DEF Answered, Invalidate, Settled, Saves
  <2> QED
    BY <2>1, <2>2
<1> QED
  BY <1>1, <1>2, <1>3, <1>4

\* The steps of a tab.
LEMMA TabStepInv ==
  ASSUME IInv, NEW t \in Tabs,
         \/ Open(t) \/ Leave(t) \/ Dismiss(t) \/ Submit(t)
         \/ Poll(t) \/ Respond(t) \/ Loaded(t) \/ LoadFailed(t)
         \/ \E k \in Kinds, d \in Directions :
              \E i \in 0..Len(data[t].v[d]) : OpenDialog(t, k, d, i),
         NEW m \in SaveIds
  PROVE  SaveInv(m)'
<1> USE Revisions DEF IInv, SaveInv
<1>0. /\ saves \in [SaveIds -> Saves] /\ saves[m] \in Saves /\ saves[m].tab \in Tabs
      /\ fetch \in [Tabs -> Fetches(Values)] /\ data \in [Tabs -> Snapshots(Values)]
      /\ mounted \in [Tabs -> BOOLEAN] /\ status \in [Tabs -> Statuses]
  BY DEF TypeOK, CacheTypeOK
<1>1. CASE Open(t)
  BY <1>0, <1>1 DEF Open, OpenPage, Started
<1>2. CASE Leave(t)
  BY <1>0, <1>2 DEF Leave, ClosePage, Saves
<1>3. CASE Dismiss(t)
  BY <1>3 DEF Dismiss
<1>4. CASE Submit(t)
  <2>1. CASE m = made + 1
    BY <1>0, <1>4, <2>1 DEF Submit, Usable
  <2>2. CASE m # made + 1
    BY <1>0, <1>4, <2>2 DEF Submit
  <2> QED
    BY <2>1, <2>2
<1>5. CASE Poll(t)
  BY <1>0, <1>5 DEF Poll, Refetch, Started
<1>6. CASE Respond(t)
  BY <1>0, <1>6 DEF Respond, Serve
<1>7. CASE Loaded(t)
  BY <1>0, <1>7 DEF Loaded, Fulfilled, Settled, Waiting, Saves
<1>8. CASE LoadFailed(t)
  BY <1>0, <1>8 DEF LoadFailed, Rejected, Settled, Waiting, Saves
<1>9. CASE \E k \in Kinds, d \in Directions :
             \E i \in 0..Len(data[t].v[d]) : OpenDialog(t, k, d, i)
  BY <1>9 DEF OpenDialog
<1> QED
  BY <1>1, <1>2, <1>3, <1>4, <1>5, <1>6, <1>7, <1>8, <1>9

LEMMA NextInv == IInv /\ [Next]_vars => IInv'
<1> SUFFICES ASSUME IInv, [Next]_vars
             PROVE  IInv'
  OBVIOUS
<1>1. TypeOK'
  BY NextTypeOK DEF IInv
<1>2. ASSUME NEW m \in SaveIds PROVE SaveInv(m)'
  <2>1. CASE Next
    BY <2>1, SaveStepInv, TabStepInv DEF Next
  <2>2. CASE UNCHANGED vars
    BY <2>2 DEF IInv, SaveInv
  <2> QED
    BY <2>1, <2>2
<1> QED
  BY <1>1, <1>2 DEF IInv

THEOREM Inductive == Spec => []IInv
BY InitInv, NextInv, PTL DEF Spec

\* The rules on a page, and what its next save is made of, have in them every
\* save of this page that ended: useUpdateSecurityGroup waits for a fetch that
\* started after the save was answered, and none before it is delivered.
THEOREM OwnSavesShownThm == Spec => []OwnSavesShown
<1>1. IInv => OwnSavesShown
  BY DEF IInv, SaveInv, OwnSavesShown, Usable
<1> QED
  BY <1>1, Inductive, PTL

-----------------------------------------------------------------------------
(* A user who is alone and waits for each save.                            *)

\* one tab, whose user does not act while a save of it is under way
OneCarefulUser == (\E t : Tabs = {t}) /\ Hasty = {}

\* A save that the page does not know to be applied; one whose rules it has not.
Unanswered == \E n \in SaveIds : saves[n].at = "applied"
Unfetched == \E n \in SaveIds : saves[n].at \in {"applied", "refetching"}

\* Saves are numbered in turn.
NumberInv ==
  \A n \in SaveIds :
    /\ n > made => saves[n].at = "unused" /\ saves[n].hit = 0
    /\ saves[n].at = "applied" => saves[n].rev > 0

\* One save is under way at a time, and the page and the dialog it was made from
\* are there until it ends.
AloneInv ==
  \A n \in SaveIds : saves[n].at \in UnderWay =>
    /\ saves[n].own
    /\ \A m \in SaveIds : saves[m].at \in UnderWay => m = n
    /\ \A t \in Tabs : /\ mounted[t] /\ dialog[t].kind = saves[n].kind
                       /\ saves[n].at = "refetching" => fetch[t].at # "none"

\* The page has what the service has, except from a save to the fetch after it.
FreshInv ==
  \A t \in Tabs :
    /\ ~ Unanswered => (fetch[t].at = "served" => fetch[t].got = store)
    /\ ~ Unfetched => (status[t] = "success" => data[t] = store)

\* The row that a dialog keeps the index of is still the one the user picked.
\* (Behind an error page the rule editor has lost it, and is mounted anew.)
RowInv ==
  \A t \in Tabs :
    LET d == dialog[t] IN
    /\ d.kind = "add" => d.idx = 0 /\ d.rule = 0
    /\ d.kind = "edit" => d.idx # 0
    /\ ~ Unfetched /\ (d.kind = "delete" \/ (d.kind = "edit" /\ status[t] # "error")) =>
         d.rule = RuleAt(store.v, d.dir, d.idx)

\* Neither the service's lists nor those on their way to it lack a rule.
KeptInv ==
  /\ kept \subseteq RulesOf(store.v)
  /\ \A n \in SaveIds :
       /\ saves[n].hit \in {0, saves[n].rule}
       /\ saves[n].at = "sent" =>
            /\ kept \subseteq RulesOf(saves[n].lists)
            /\ saves[n].kind # "delete" => n \in RulesOf(saves[n].lists)
       /\ saves[n].at = "applied" /\ saves[n].kind # "delete" => n \in RulesOf(store.v)

CarefulInv == NumberInv /\ (Misreported \/ (AloneInv /\ FreshInv /\ RowInv /\ KeptInv))

\* What is left of a list without one element is the others.
LEMMA Without ==
  ASSUME NEW S, NEW l \in Seq(S), NEW i \in 1..Len(l), NEW k \in 1..Len(l), k # i
  PROVE  l[k] \in ToSet(RemoveAt(l, i))
<1> DEFINE a == SubSeq(l, 1, i - 1)
           b == SubSeq(l, i + 1, Len(l))
<1>0. i \in Nat /\ k \in Nat /\ Len(l) \in Nat /\ 1 <= i /\ i <= Len(l) /\ 1 <= k /\ k <= Len(l)
  OBVIOUS
<1>1. a \in Seq(S) /\ Len(a) = i - 1 /\ \A j \in 1..(i - 1) : a[j] = l[j]
  BY <1>0
<1>2. b \in Seq(S) /\ Len(b) = Len(l) - i /\ \A j \in 1..(Len(l) - i) : b[j] = l[i + j]
  BY <1>0
<1> HIDE DEF a, b
<1>3. /\ DOMAIN (a \o b) = 1..(Len(a) + Len(b))
      /\ \A j \in 1..(Len(a) + Len(b)) : (a \o b)[j] = IF j <= Len(a) THEN a[j] ELSE b[j - Len(a)]
  <2>1. /\ a \o b \in Seq(S) /\ Len(a \o b) = Len(a) + Len(b)
        /\ \A j \in 1..(Len(a) + Len(b)) : (a \o b)[j] = IF j <= Len(a) THEN a[j] ELSE b[j - Len(a)]
    BY <1>1, <1>2, ConcatProperties
  <2> QED
    BY <2>1
<1>4. \E j \in DOMAIN (a \o b) : (a \o b)[j] = l[k]
  <2>1. CASE k < i
    <3>1. k \in 1..(i - 1) /\ k \in 1..(Len(a) + Len(b)) /\ k <= Len(a)
      BY <1>0, <1>1, <1>2, <2>1
    <3> QED
      BY <1>1, <1>3, <3>1
  <2>2. CASE k > i
    <3>1. /\ k - 1 \in 1..(Len(a) + Len(b)) /\ ~ (k - 1) <= Len(a)
          /\ (k - 1) - Len(a) = k - i
          /\ k - i \in 1..(Len(l) - i) /\ i + (k - i) = k
      BY <1>0, <1>1, <1>2, <2>2
    <3>2. (a \o b)[k - 1] = l[k]
      BY <1>2, <1>3, <3>1
    <3> QED
      BY <1>3, <3>1, <3>2
  <2> QED
    BY <1>0, <2>1, <2>2
<1> QED
  BY <1>4 DEF RemoveAt, ToSet, a, b

\* Of the rules that there were, the lists that a save sends lack at most the one
\* of its row, and a rule that is added or edited is in them.
LEMMA EditedRules ==
  ASSUME NEW v \in Values, NEW d \in Dialogs, d.kind # "none",
         d.kind = "edit" => d.idx <= Len(v[d.dir]) + 1, NEW r \in Nat \ {0}
  PROVE  /\ RulesOf(v) \ {RuleAt(v, d.dir, d.idx)} \subseteq RulesOf(Edited(v, d, r))
         /\ d.kind = "add" \/ (d.kind = "edit" /\ d.idx # 0) => r \in RulesOf(Edited(v, d, r))
<1> DEFINE l == v[d.dir]
           w == Edited(v, d, r)
           i == d.idx
<1>1. /\ d.dir \in Directions /\ i \in Nat /\ d.kind \in Kinds
      /\ l \in Seq(Nat \ {0}) /\ Len(l) \in Nat /\ DOMAIN l = 1..Len(l)
  BY DEF Values, Dialogs
<1>2. \A e \in Directions \ {d.dir} : w[e] = v[e]
  BY DEF Edited, Values
<1>3. w[d.dir] = CASE d.kind = "add"    -> Append(l, r)
                   [] d.kind = "edit"   -> Replaced(l, i, r)
                   [] d.kind = "delete" -> IF i \in DOMAIN l THEN RemoveAt(l, i) ELSE l
  BY <1>1 DEF Edited, Values
<1>r. RuleAt(v, d.dir, i) = IF i \in DOMAIN l THEN l[i] ELSE 0
  BY DEF RuleAt
<1> HIDE DEF l, w, i
<1>4. /\ \A k \in DOMAIN l : k # i \/ d.kind = "add" => l[k] \in ToSet(w[d.dir])
      /\ d.kind = "add" \/ (d.kind = "edit" /\ i # 0) => r \in ToSet(w[d.dir])
  <2>1. CASE d.kind = "add"
    <3>1. w[d.dir] = Append(l, r)
      BY <1>3, <2>1
    <3>2. \A k \in DOMAIN l : k \in DOMAIN Append(l, r) /\ Append(l, r)[k] = l[k]
      BY <1>1
    <3>3. Len(l) + 1 \in DOMAIN Append(l, r) /\ Append(l, r)[Len(l) + 1] = r
      BY <1>1
    <3> QED
      BY <2>1, <3>1, <3>2, <3>3 DEF ToSet
  <2>2. CASE d.kind = "edit"
    <3> DEFINE m == IF i > Len(l) THEN Len(l) + 1 ELSE Len(l)
    <3>1. w[d.dir] = [j \in 1..m |-> IF j = i THEN r ELSE l[j]]
      BY <1>3, <2>2 DEF Replaced
    <3>2. m \in Nat /\ Len(l) <= m /\ (i # 0 => i \in 1..m)
      BY <1>1, <2>2 DEF l, i
    <3> HIDE DEF m
    <3>3. \A k \in DOMAIN l : k # i => k \in DOMAIN w[d.dir] /\ w[d.dir][k] = l[k]
      BY <1>1, <3>1, <3>2
    <3>4. i # 0 => i \in DOMAIN w[d.dir] /\ w[d.dir][i] = r
      BY <3>1, <3>2
    <3> QED
      BY <2>2, <3>3, <3>4 DEF ToSet
  <2>3. CASE d.kind = "delete"
    <3>1. CASE i \in DOMAIN l
      <4>1. w[d.dir] = RemoveAt(l, i)
        BY <1>3, <2>3, <3>1
      <4>2. \A k \in 1..Len(l) : k # i => l[k] \in ToSet(w[d.dir])
        BY <1>1, <3>1, <4>1, Without
      <4> QED
        BY <1>1, <2>3, <4>2
    <3>2. CASE i \notin DOMAIN l
      BY <1>3, <2>3, <3>2 DEF ToSet
    <3> QED
      BY <3>1, <3>2
  <2> QED
    BY <1>1, <2>1, <2>2, <2>3 DEF Kinds
<1>5. ASSUME NEW x \in RulesOf(v), x # RuleAt(v, d.dir, i) PROVE x \in RulesOf(w)
  <2>1. PICK e \in Directions : x \in ToSet(v[e])
    BY <1>5 DEF RulesOf
  <2>2. CASE e # d.dir
    BY <1>2, <2>1, <2>2 DEF RulesOf
  <2>3. CASE e = d.dir
    <3>1. PICK k \in DOMAIN l : x = l[k]
      BY <2>1, <2>3 DEF ToSet, l
    <3>2. k # i
      BY <1>5, <1>r, <3>1
    <3> QED
      BY <1>1, <1>4, <3>1, <3>2 DEF RulesOf
  <2> QED
    BY <2>2, <2>3
<1> QED
  BY <1>1, <1>4, <1>5 DEF RulesOf, w, i

\* What holds of a page when it is the only one, and of its saves.
LEMMA OnlyTab ==
  ASSUME TypeOK, NEW t, Tabs = {t}, Hasty = {}
  PROVE  /\ t \in Tabs /\ \A u \in Tabs : u = t
         /\ \A n \in SaveIds : saves[n] \in Saves /\ saves[n].tab = t /\ saves[n].kind \in Kinds
         /\ dialog[t] \in Dialogs /\ data[t].v \in Values /\ store.v \in Values
         /\ Waiting(t) = {n \in SaveIds : saves[n].at = "refetching"}
         /\ MayAct(t) => \A n \in SaveIds : saves[n].at \notin UnderWay
<1>1. \A n \in SaveIds : saves[n] \in Saves
  BY DEF TypeOK
<1>2. \A n \in SaveIds : saves[n].tab = t /\ saves[n].kind \in Kinds
  BY <1>1 DEF Saves
<1>3. dialog[t] \in Dialogs /\ data[t].v \in Values /\ store.v \in Values
  BY DEF TypeOK, CacheTypeOK, Snapshots
<1> QED
  BY <1>1, <1>2, <1>3 DEF Waiting, MayAct, Saving

\* The service's steps, and what the page does with the answers to a save.
LEMMA SaveCareful ==
  ASSUME TypeOK, NEW t, Tabs = {t}, Hasty = {},
         NumberInv, AloneInv, FreshInv, RowInv, KeptInv, ~ Misreported',
         NEW n \in SaveIds, Apply(n) \/ Refuse(n) \/ Answered(n) \/ Failed(n)
  PROVE  AloneInv' /\ FreshInv' /\ RowInv' /\ KeptInv'
<1>t. /\ t \in Tabs /\ (\A u \in Tabs : u = t) /\ saves[n].tab = t
      /\ saves \in [SaveIds -> Saves] /\ fetch \in [Tabs -> Fetches(Values)]
      /\ dialog \in [Tabs -> Dialogs]
  BY OnlyTab DEF TypeOK, CacheTypeOK
<1>u. /\ saves[n].at \in UnderWay
      /\ \A m \in SaveIds : m # n => saves[m].at \notin UnderWay
      /\ saves[n].own /\ mounted[t] /\ dialog[t].kind = saves[n].kind
  BY <1>t DEF AloneInv, Apply, Refuse, Answered, Failed, UnderWay
<1>f. \A m \in SaveIds : saves'[m].own = saves[m].own /\ saves'[m].kind = saves[m].kind
                         /\ saves'[m].hit = saves[m].hit /\ saves'[m].rule = saves[m].rule
                         /\ saves'[m].lists = saves[m].lists
                         /\ (m # n => saves'[m].at = saves[m].at)
  <2>1. CASE Apply(n) \/ Refuse(n) \/ Failed(n)
    BY <1>t, <2>1 DEF Apply, Refuse, Failed, Saves
  <2>2. CASE Answered(n)
    BY <1>t, <1>u, <2>2 DEF Answered, Saves
  <2> QED
    BY <2>1, <2>2
<1>g. \A m \in SaveIds : saves'[m].at \in UnderWay => m = n
  BY <1>f, <1>u
<1>1. CASE Apply(n)
  <2>1. /\ saves[n].at = "sent" /\ saves'[n].at = "applied" /\ store'.v = saves[n].lists
        /\ UNCHANGED <<cacheVars, dialog, kept>>
    BY <1>t, <1>1 DEF Apply
  <2>2. Unanswered' /\ Unfetched'
    BY <2>1 DEF Unanswered, Unfetched
  <2>3. AloneInv'
    BY <1>t, <1>u, <1>f, <1>g, <2>1 DEF AloneInv
  <2>4. KeptInv'
    BY <1>f, <1>g, <2>1 DEF KeptInv, UnderWay
  <2> QED
    BY <2>1, <2>2, <2>3, <2>4 DEF FreshInv, RowInv
<1>2. CASE Refuse(n)
  <2>1. /\ saves'[n].at = "failed" /\ saves'[n].rev = saves[n].rev
        /\ UNCHANGED <<store, cacheVars, dialog, kept>>
    BY <1>t, <1>2 DEF Refuse, Saves
  <2>2. saves[n].at = "sent"
    BY <1>2, <2>1 DEF Refuse, NumberInv, Misreported
  <2>3. ~ Unanswered' /\ ~ Unfetched' /\ ~ Unanswered /\ ~ Unfetched
    BY <1>g, <1>u, <2>1, <2>2 DEF Unanswered, Unfetched, UnderWay
  <2>4. AloneInv'
    BY <1>t, <1>u, <1>f, <1>g, <2>1 DEF AloneInv
  <2>5. KeptInv'
    BY <1>f, <1>g, <2>1 DEF KeptInv, UnderWay
  <2> QED
    BY <2>1, <2>3, <2>4, <2>5 DEF FreshInv, RowInv
<1>3. CASE Failed(n)
  <2>1. /\ saves[n].at = "failed" /\ saves'[n].at = "refused"
        /\ UNCHANGED <<store, cacheVars, kept>>
    BY <1>t, <1>3 DEF Failed
  <2>2. \A m \in SaveIds : saves'[m].at \notin UnderWay
    BY <1>g, <2>1 DEF UnderWay
  <2>3. ~ Unanswered' /\ ~ Unfetched' /\ ~ Unanswered /\ ~ Unfetched
    BY <1>u, <2>1, <2>2 DEF Unanswered, Unfetched, UnderWay
  <2>4. /\ dialog'[t].kind = dialog[t].kind /\ dialog'[t].dir = dialog[t].dir
        /\ dialog'[t].idx = dialog[t].idx /\ dialog'[t].rule = dialog[t].rule
    BY <1>t, <1>3 DEF Failed, Dialogs
  <2>5. RowInv'
    BY <1>t, <2>1, <2>3, <2>4 DEF RowInv
  <2>6. KeptInv'
    BY <1>f, <2>1, <2>2 DEF KeptInv, UnderWay
  <2>7. AloneInv'
    BY <2>2 DEF AloneInv
  <2> QED
    BY <2>1, <2>3, <2>5, <2>6, <2>7 DEF FreshInv
<1>4. CASE Answered(n)
  <2>1. /\ saves[n].at = "applied" /\ saves'[n].at = "refetching"
        /\ fetch'[t].at = "sent" /\ UNCHANGED <<store, mounted, status, data, dialog>>
        /\ kept' = IF saves[n].kind = "delete" THEN kept ELSE kept \cup {n}
    BY <1>t, <1>u, <1>4 DEF Answered, Invalidate, Started
  <2>2. Unfetched'
    BY <2>1 DEF Unfetched
  <2>3. AloneInv'
    BY <1>t, <1>u, <1>f, <1>g, <2>1 DEF AloneInv
  <2>4. KeptInv'
    BY <1>f, <1>g, <2>1 DEF KeptInv, UnderWay
  <2>5. FreshInv'
    BY <1>t, <2>1, <2>2 DEF FreshInv
  <2> QED
    BY <2>1, <2>2, <2>3, <2>4, <2>5 DEF RowInv
<1> QED
  BY <1>1, <1>2, <1>3, <1>4

\* The fetch that a save waits for ends, and with it the save: its dialog closes.
LEMMA SettledCareful ==
  ASSUME TypeOK, NEW t, Tabs = {t}, Hasty = {}, AloneInv, KeptInv,
         NEW n \in SaveIds, saves[n].at = "refetching",
         saves' = Settled(Waiting(t)), NEW v,
         dialog' = [dialog EXCEPT ![t] = Closed(t, Waiting(t))] \/
           dialog' = [dialog EXCEPT ![t] = Remounted(t, Closed(t, Waiting(t)), v)],
         UNCHANGED <<store, kept>>
  PROVE  /\ \A m \in SaveIds : saves'[m].at \notin UnderWay
         /\ dialog'[t].kind = "none"
         /\ KeptInv'
<1>1. /\ t \in Tabs /\ dialog \in [Tabs -> Dialogs] /\ n \in Waiting(t)
      /\ \A m \in SaveIds : saves[m] \in Saves
  BY OnlyTab DEF TypeOK
<1>2. \A m \in SaveIds : m # n => saves[m].at \notin UnderWay
  BY DEF AloneInv, UnderWay
<1>3. saves[n].own /\ dialog[t].kind = saves[n].kind
  BY <1>1 DEF AloneInv, UnderWay
<1>4. Closed(t, Waiting(t)) = NoDialog
  BY <1>1, <1>3 DEF Closed
<1>5. dialog'[t].kind = "none"
  BY <1>1, <1>4 DEF NoDialog, Remounted
<1>6. \A m \in SaveIds :
        /\ saves'[m].at = IF m \in Waiting(t) THEN "saved" ELSE saves[m].at
        /\ saves'[m].kind = saves[m].kind /\ saves'[m].hit = saves[m].hit
        /\ saves'[m].rule = saves[m].rule /\ saves'[m].lists = saves[m].lists
  BY <1>1 DEF Settled, Saves
<1>7. \A m \in SaveIds : saves'[m].at \notin UnderWay
  BY <1>1, <1>2, <1>6 DEF UnderWay
<1>8. KeptInv'
  BY <1>6, <1>7 DEF KeptInv, UnderWay
<1> QED
  BY <1>5, <1>7, <1>8

\* The steps of the user.
LEMMA UserCareful ==
  ASSUME TypeOK, TypeOK', NEW t, Tabs = {t}, Hasty = {},
         NumberInv, AloneInv, FreshInv, RowInv, KeptInv,
         \/ Open(t) \/ Leave(t) \/ Dismiss(t) \/ Submit(t)
         \/ \E k \in Kinds, d \in Directions :
              \E i \in 0..Len(data[t].v[d]) : OpenDialog(t, k, d, i)
  PROVE  AloneInv' /\ FreshInv' /\ RowInv' /\ KeptInv'
<1>t. /\ t \in Tabs /\ (\A u \in Tabs : u = t)
      /\ saves \in [SaveIds -> Saves] /\ fetch \in [Tabs -> Fetches(Values)]
      /\ dialog \in [Tabs -> Dialogs] /\ mounted \in [Tabs -> BOOLEAN]
      /\ \A n \in SaveIds : saves[n] \in Saves /\ saves[n].tab = t /\ saves[n].kind \in Kinds
  BY OnlyTab DEF TypeOK, CacheTypeOK
<1>n. ASSUME \A n \in SaveIds : saves[n].at \notin UnderWay
      PROVE  ~ Unanswered /\ ~ Unfetched
  BY <1>n DEF Unanswered, Unfetched, UnderWay
<1>1. CASE Open(t)
  <2>1. \A n \in SaveIds : saves[n].at \notin UnderWay
    BY <1>t, <1>1 DEF Open, OpenPage, AloneInv
  <2>2. /\ UNCHANGED <<store, status, data, dialog, saves, made, kept>>
        /\ fetch'[t] = fetch[t] \/ fetch'[t].at = "sent"
    BY <1>t, <1>1 DEF Open, OpenPage, Started
  <2>3. Unanswered' = Unanswered /\ Unfetched' = Unfetched
    BY <2>2 DEF Unanswered, Unfetched
  <2>4. AloneInv' /\ KeptInv' /\ RowInv'
    BY <2>1, <2>2, <2>3 DEF AloneInv, KeptInv, RowInv
  <2>5. FreshInv'
    BY <1>t, <2>2, <2>3 DEF FreshInv
  <2> QED
    BY <2>4, <2>5
<1>2. CASE Leave(t)
  <2>1. \A n \in SaveIds : saves[n].at \notin UnderWay
    BY <1>2, OnlyTab DEF Leave
  <2>2. /\ UNCHANGED <<store, status, data, fetch, made, kept>>
        /\ dialog'[t].kind = "none"
        /\ \A n \in SaveIds :
             /\ saves'[n].at = saves[n].at /\ saves'[n].kind = saves[n].kind
             /\ saves'[n].hit = saves[n].hit /\ saves'[n].rule = saves[n].rule
             /\ saves'[n].lists = saves[n].lists
    BY <1>t, <1>2 DEF Leave, ClosePage, NoDialog, Saves
  <2>3. ~ Unanswered' /\ ~ Unfetched' /\ ~ Unanswered /\ ~ Unfetched
    BY <1>n, <2>1, <2>2 DEF Unanswered, Unfetched, UnderWay
  <2>4. AloneInv' /\ KeptInv'
    BY <2>1, <2>2 DEF AloneInv, KeptInv
  <2>5. FreshInv' /\ RowInv'
    BY <1>t, <2>2, <2>3 DEF FreshInv, RowInv
  <2> QED
    BY <2>4, <2>5
<1>3. CASE Dismiss(t)
  <2>1. \A n \in SaveIds : saves[n].at \notin UnderWay
    BY <1>3, OnlyTab DEF Dismiss
  <2>2. UNCHANGED <<store, cacheVars, saves, made, kept>> /\ dialog'[t].kind = "none"
    BY <1>t, <1>3 DEF Dismiss, NoDialog
  <2>3. Unanswered' = Unanswered /\ Unfetched' = Unfetched
    BY <2>2 DEF Unanswered, Unfetched
  <2>4. AloneInv' /\ KeptInv' /\ FreshInv'
    BY <2>1, <2>2, <2>3 DEF AloneInv, KeptInv, FreshInv
  <2>5. RowInv'
    BY <1>t, <2>2 DEF RowInv
  <2> QED
    BY <2>4, <2>5
<1>4. CASE Submit(t)
  <2> DEFINE d == dialog[t]
             n == made + 1
             w == Edited(data[t].v, d, n)
             x == RuleAt(data[t].v, d.dir, d.idx)
  <2>1. \A m \in SaveIds : saves[m].at \notin UnderWay
    BY <1>4, OnlyTab DEF Submit
  <2>2. ~ Unanswered /\ ~ Unfetched
    BY <1>n, <2>1
  <2>3. status[t] = "success" /\ mounted[t] /\ data[t] = store
    BY <1>t, <1>4, <2>2 DEF Submit, Usable, FreshInv
  <2>4. n \in SaveIds /\ n \in Nat \ {0} /\ d \in Dialogs /\ d.kind \in Kinds
    BY <1>t, <1>4, RulesAssumption DEF Submit, TypeOK, SaveIds, Dialogs
  <2>5. /\ \A m \in SaveIds : m # n => saves'[m] = saves[m]
        /\ saves'[n].at = "sent" /\ saves'[n].own /\ saves'[n].kind = d.kind
        /\ saves'[n].lists = w /\ saves'[n].rule = d.rule /\ saves'[n].hit = x
        /\ UNCHANGED <<store, cacheVars>> /\ kept' = kept \ {d.rule}
    BY <1>t, <1>4, <2>4 DEF Submit
  <2>6. /\ dialog'[t].kind = d.kind /\ dialog'[t].idx = d.idx
        /\ dialog'[t].rule = d.rule /\ dialog'[t].dir = d.dir
    BY <1>t, <1>4 DEF Submit, Dialogs
  <2>7. x \in {0, d.rule} /\ (d.kind = "edit" => d.idx # 0)
    <3>1. CASE d.kind = "add"
      <4>1. d.idx = 0
        BY <1>t, <3>1 DEF RowInv
      <4>2. 0 \notin DOMAIN data[t].v[d.dir]
        BY <1>t, <2>4, OnlyTab DEF Values, Dialogs
      <4> QED
        BY <3>1, <4>1, <4>2 DEF RuleAt
    <3>2. CASE d.kind # "add"
      BY <1>t, <2>2, <2>3, <2>4, <3>2 DEF RowInv, Kinds
    <3> QED
      BY <3>1, <3>2
  <2>8. RulesOf(store.v) \ {x} \subseteq RulesOf(w) /\ (d.kind # "delete" => n \in RulesOf(w))
    <3>1. d.kind # "none" /\ (d.kind = "edit" => d.idx <= Len(data[t].v[d.dir]) + 1)
      BY <1>4 DEF Submit
    <3>2. data[t].v \in Values
      BY OnlyTab
    <3> HIDE DEF n, d
    <3>3. /\ RulesOf(data[t].v) \ {x} \subseteq RulesOf(w)
          /\ d.kind = "add" \/ (d.kind = "edit" /\ d.idx # 0) => n \in RulesOf(w)
      BY <2>4, <3>1, <3>2, EditedRules
    <3> QED
      BY <2>3, <2>4, <2>7, <3>3 DEF Kinds
  <2> HIDE DEF n, d, w, x
  <2>9. 0 \notin RulesOf(store.v)
    <3>1. store.v \in Values
      BY OnlyTab
    <3> QED
      BY <3>1 DEF RulesOf, Values, ToSet
  <2>10. kept' \subseteq RulesOf(w) /\ kept' \subseteq RulesOf(store.v)
    BY <2>5, <2>7, <2>8, <2>9 DEF KeptInv
  <2>11. KeptInv'
    BY <2>1, <2>5, <2>7, <2>8, <2>10 DEF KeptInv, UnderWay
  <2>12. AloneInv'
    BY <1>t, <2>1, <2>3, <2>5, <2>6 DEF AloneInv, UnderWay
  <2>13. ~ Unanswered' /\ ~ Unfetched'
    BY <2>1, <2>5 DEF Unanswered, Unfetched, UnderWay
  <2>14. FreshInv' /\ RowInv'
    BY <1>t, <2>2, <2>5, <2>6, <2>13 DEF FreshInv, RowInv, d
  <2> QED
    BY <2>11, <2>12, <2>14
<1>5. ASSUME NEW k \in Kinds, NEW d \in Directions, NEW i \in 0..Len(data[t].v[d]),
             OpenDialog(t, k, d, i)
      PROVE  AloneInv' /\ FreshInv' /\ RowInv' /\ KeptInv'
  <2>1. \A n \in SaveIds : saves[n].at \notin UnderWay
    BY <1>t, <1>5 DEF OpenDialog, AloneInv, Kinds
  <2>2. ~ Unanswered /\ ~ Unfetched
    BY <1>n, <2>1
  <2>3. status[t] = "success" /\ data[t] = store
    BY <1>t, <1>5, <2>2 DEF OpenDialog, Usable, FreshInv
  <2>4. /\ UNCHANGED <<store, cacheVars, saves, made, kept>>
        /\ dialog'[t].kind = k /\ dialog'[t].dir = d /\ dialog'[t].idx = i
        /\ dialog'[t].rule = RuleAt(store.v, d, i)
    BY <1>t, <1>5, <2>3 DEF OpenDialog
  <2>5. Unanswered' = Unanswered /\ Unfetched' = Unfetched
    BY <2>4 DEF Unanswered, Unfetched
  <2>6. AloneInv' /\ KeptInv' /\ FreshInv'
    BY <2>1, <2>4, <2>5 DEF AloneInv, KeptInv, FreshInv
  <2>7. 0 \notin DOMAIN store.v[d]
    BY OnlyTab DEF Values
  <2>8. /\ k = "add" => i = 0 /\ RuleAt(store.v, d, i) = 0
        /\ k = "edit" => i # 0
    BY <1>5, <2>3, <2>7 DEF OpenDialog, RuleAt
  <2>9. RowInv'
    BY <1>t, <2>4, <2>8 DEF RowInv
  <2> QED
    BY <2>6, <2>9
<1> QED
  BY <1>1, <1>2, <1>3, <1>4, <1>5

\* The steps of the query.
LEMMA QueryCareful ==
  ASSUME TypeOK, NEW t, Tabs = {t}, Hasty = {},
         NumberInv, AloneInv, FreshInv, RowInv, KeptInv,
         Poll(t) \/ Respond(t) \/ Loaded(t) \/ LoadFailed(t)
  PROVE  AloneInv' /\ FreshInv' /\ RowInv' /\ KeptInv'
<1>t. /\ t \in Tabs /\ (\A u \in Tabs : u = t)
      /\ saves \in [SaveIds -> Saves] /\ fetch \in [Tabs -> Fetches(Values)]
      /\ dialog \in [Tabs -> Dialogs] /\ status \in [Tabs -> Statuses]
      /\ data \in [Tabs -> Snapshots(Values)]
      /\ Waiting(t) = {n \in SaveIds : saves[n].at = "refetching"}
  BY OnlyTab DEF TypeOK, CacheTypeOK
<1>1. CASE Poll(t) \/ Respond(t)
  <2>1. /\ UNCHANGED <<store, mounted, status, data, rulesVars>>
        /\ fetch'[t].at # "none"
        /\ fetch'[t].at = "served" => fetch'[t].got = store
    BY <1>t, <1>1 DEF Poll, Refetch, Started, Respond, Serve
  <2>2. Unanswered' = Unanswered /\ Unfetched' = Unfetched
    BY <2>1 DEF Unanswered, Unfetched
  <2>3. KeptInv' /\ RowInv'
    BY <2>1, <2>2 DEF KeptInv, RowInv
  <2>4. AloneInv'
    BY <1>t, <2>1 DEF AloneInv
  <2>5. FreshInv'
    BY <1>t, <2>1, <2>2 DEF FreshInv
  <2> QED
    BY <2>3, <2>4, <2>5
\* the query's part of an answer that was delivered
<1>2. CASE Loaded(t)
  <2>1. /\ fetch[t].at = "served" /\ status'[t] = "success" /\ fetch'[t].at = "none"
        /\ data'[t] = fetch[t].got
        /\ UNCHANGED <<store, mounted, made, kept>>
        /\ saves' = Settled(Waiting(t))
    BY <1>t, <1>2 DEF Loaded, Fulfilled, Fetches
  <2>2. CASE \E n \in SaveIds : saves[n].at = "refetching"
    <3>1. PICK n \in SaveIds : saves[n].at = "refetching"
      BY <2>2
    <3>2. /\ \A m \in SaveIds : saves'[m].at \notin UnderWay
          /\ dialog'[t].kind = "none" /\ KeptInv'
      <4>1. \/ dialog' = [dialog EXCEPT ![t] = Closed(t, Waiting(t))]
            \/ dialog' = [dialog EXCEPT ![t] = Remounted(t, Closed(t, Waiting(t)), fetch[t].got.v)]
        BY <1>2 DEF Loaded
      <4> QED
        BY <2>1, <3>1, <4>1, SettledCareful
    <3>3. ~ Unanswered
      BY <3>1 DEF AloneInv, UnderWay, Unanswered
    <3>4. FreshInv'
      BY <1>t, <2>1, <3>3 DEF FreshInv
    <3> QED
      BY <1>t, <3>2, <3>4 DEF AloneInv, RowInv
  <2>3. CASE ~ \E n \in SaveIds : saves[n].at = "refetching"
    <3>1. Waiting(t) = {}
      BY <1>t, <2>3
    <3>2. saves' = saves
      BY <1>t, <2>1, <3>1 DEF Settled
    <3>3. Unanswered' = Unanswered /\ Unfetched' = Unfetched /\ Unfetched = Unanswered
      BY <2>3, <3>2 DEF Unanswered, Unfetched
    <3>4. Closed(t, Waiting(t)) = dialog[t]
      BY <3>1 DEF Closed
    <3>5. dialog'[t] = IF status[t] = "error" THEN Remounted(t, dialog[t], fetch[t].got.v) ELSE dialog[t]
      BY <1>t, <1>2, <3>4 DEF Loaded
    <3>6. /\ dialog'[t].kind = dialog[t].kind /\ dialog'[t].idx = dialog[t].idx
          /\ dialog'[t].dir = dialog[t].dir
          /\ dialog'[t].rule =
               IF status[t] = "error" /\ dialog[t].kind \in {"add", "edit"}
               THEN IF dialog[t].kind = "edit"
                    THEN RuleAt(fetch[t].got.v, dialog[t].dir, dialog[t].idx) ELSE 0
               ELSE dialog[t].rule
      BY <1>t, <3>5 DEF Remounted, Dialogs
    <3>7. FreshInv'
      BY <1>t, <2>1, <3>3 DEF FreshInv
    <3>8. RowInv'
      BY <1>t, <2>1, <3>3, <3>6 DEF RowInv, FreshInv
    <3>9. AloneInv'
      BY <1>t, <2>1, <2>3, <3>2, <3>6 DEF AloneInv
    <3>10. KeptInv'
      BY <2>1, <3>2 DEF KeptInv
    <3> QED
      BY <3>7, <3>8, <3>9, <3>10
  <2> QED
    BY <2>2, <2>3
<1>3. CASE LoadFailed(t)
  <2>1. /\ status'[t] = "error" /\ fetch'[t].at = "none" /\ data' = data
        /\ UNCHANGED <<store, mounted, made, kept>>
        /\ saves' = Settled(Waiting(t))
        /\ dialog' = [dialog EXCEPT ![t] = Remounted(t, Closed(t, Waiting(t)), data[t].v)]
    BY <1>t, <1>3 DEF LoadFailed, Rejected
  <2>2. FreshInv'
    BY <1>t, <2>1 DEF FreshInv
  <2>3. CASE \E n \in SaveIds : saves[n].at = "refetching"
    <3>1. PICK n \in SaveIds : saves[n].at = "refetching"
      BY <2>3
    <3>2. /\ \A m \in SaveIds : saves'[m].at \notin UnderWay
          /\ dialog'[t].kind = "none" /\ KeptInv'
      BY <2>1, <3>1, SettledCareful
    <3> QED
      BY <1>t, <2>2, <3>2 DEF AloneInv, RowInv
  <2>4. CASE ~ \E n \in SaveIds : saves[n].at = "refetching"
    <3>1. Waiting(t) = {}
      BY <1>t, <2>4
    <3>2. saves' = saves
      BY <1>t, <2>1, <3>1 DEF Settled
    <3>3. Unanswered' = Unanswered /\ Unfetched' = Unfetched
      BY <3>2 DEF Unanswered, Unfetched
    <3>4. Closed(t, Waiting(t)) = dialog[t]
      BY <3>1 DEF Closed
    <3>5. /\ dialog'[t].kind = dialog[t].kind /\ dialog'[t].idx = dialog[t].idx
          /\ dialog'[t].dir = dialog[t].dir
          /\ dialog[t].kind = "add" => dialog'[t].rule = 0
          /\ dialog[t].kind = "delete" => dialog'[t].rule = dialog[t].rule
      BY <1>t, <2>1, <3>4 DEF Remounted, Dialogs
    <3>6. RowInv'
      BY <1>t, <2>1, <3>3, <3>5 DEF RowInv
    <3>7. AloneInv'
      BY <1>t, <2>1, <2>4, <3>2, <3>5 DEF AloneInv
    <3>8. KeptInv'
      BY <2>1, <3>2 DEF KeptInv
    <3> QED
      BY <2>2, <3>6, <3>7, <3>8
  <2> QED
    BY <2>3, <2>4
<1> QED
  BY <1>1, <1>2, <1>3

\* Numbers are used in turn, and what a dialog was told wrongly stays so.
LEMMA NumberStep ==
  ASSUME TypeOK, NumberInv, [Next]_vars
  PROVE  NumberInv' /\ (Misreported => Misreported')
<1>1. /\ saves \in [SaveIds -> Saves] /\ made \in Nat /\ SaveIds \subseteq Nat
      /\ \A n \in SaveIds : saves[n] \in Saves
  BY RulesAssumption DEF TypeOK, SaveIds
<1>2. store.rev \in Nat
  BY Revisions
<1>3. CASE \E t \in Tabs : Submit(t)
  <2>1. PICK t \in Tabs : Submit(t)
    BY <1>3
  <2> DEFINE k == made + 1
  <2>2. /\ made' = k /\ k \in Nat /\ k > made /\ saves'[k].at = "sent"
        /\ \A n \in SaveIds : n # k => saves'[n] = saves[n]
    BY <1>1, <2>1, RulesAssumption DEF Submit, SaveIds
  <2>3. \A n \in SaveIds : n > k => n > made
    BY <1>1, <2>2
  <2> HIDE DEF k
  <2>4. NumberInv'
    BY <1>1, <2>2, <2>3 DEF NumberInv
  <2>5. \A n \in SaveIds : saves[n].at \in {"failed", "refused"} => n # k
    BY <1>1, <2>2 DEF NumberInv
  <2> QED
    BY <2>2, <2>4, <2>5 DEF Misreported
<1>4. CASE ~ \E t \in Tabs : Submit(t)
  <2>1. ASSUME NEW n \in SaveIds
        PROVE  /\ made' = made /\ saves'[n].hit = saves[n].hit
               /\ saves[n].at = "unused" => saves'[n].at = "unused"
               /\ saves'[n].at = "applied" => saves'[n].rev > 0
               /\ saves[n].at \in {"failed", "refused"} =>
                    saves'[n].at \in {"failed", "refused"} /\ saves'[n].rev = saves[n].rev
    <3>1. CASE \E m \in SaveIds : Apply(m)
      BY <1>1, <1>2, <3>1 DEF Apply, Saves, NumberInv
    <3>2. CASE \E m \in SaveIds : Refuse(m)
      BY <1>1, <3>2 DEF Refuse, Saves, NumberInv
    <3>3. CASE \E m \in SaveIds : Answered(m)
      BY <1>1, <3>3 DEF Answered, Settled, Saves, NumberInv
    <3>4. CASE \E m \in SaveIds : Failed(m)
      BY <1>1, <3>4 DEF Failed, Saves, NumberInv
    <3>5. CASE \E t \in Tabs : Leave(t)
      BY <1>1, <3>5 DEF Leave, Saves, NumberInv
    <3>6. CASE \E t \in Tabs : Loaded(t) \/ LoadFailed(t)
      BY <1>1, <3>6 DEF Loaded, LoadFailed, Settled, Waiting, Saves, NumberInv
    <3>7. CASE UNCHANGED <<saves, made>>
      BY <3>7 DEF NumberInv
    <3> QED
      <4>1. CASE UNCHANGED vars
        BY <3>7, <4>1
      <4>2. CASE \E t \in Tabs :
                   \/ Open(t) \/ Dismiss(t) \/ Poll(t) \/ Respond(t)
                   \/ \E k \in Kinds, d \in Directions :
                        \E i \in 0..Len(data[t].v[d]) : OpenDialog(t, k, d, i)
        BY <3>7, <4>2 DEF Open, Dismiss, Poll, Respond, OpenDialog
      <4> QED
        BY <1>4, <3>1, <3>2, <3>3, <3>4, <3>5, <3>6, <4>1, <4>2 DEF Next
  <2> QED
    BY <1>1, <2>1 DEF NumberInv, Misreported
<1> QED
  BY <1>3, <1>4

LEMMA CarefulNext ==
  ASSUME OneCarefulUser, TypeOK, TypeOK', CarefulInv, [Next]_vars
  PROVE  CarefulInv'
<1>1. PICK t : Tabs = {t}
  BY DEF OneCarefulUser
<1>2. Hasty = {}
  BY DEF OneCarefulUser
<1>3. NumberInv' /\ (Misreported => Misreported')
  BY NumberStep DEF CarefulInv
<1>4. ASSUME ~ Misreported'
      PROVE  AloneInv' /\ FreshInv' /\ RowInv' /\ KeptInv'
  <2>1. NumberInv /\ AloneInv /\ FreshInv /\ RowInv /\ KeptInv
    BY <1>3, <1>4 DEF CarefulInv
  <2>2. CASE \E n \in SaveIds : Apply(n) \/ Refuse(n) \/ Answered(n) \/ Failed(n)
    BY <1>1, <1>2, <1>4, <2>1, <2>2, SaveCareful
  <2>3. CASE \/ Open(t) \/ Leave(t) \/ Dismiss(t) \/ Submit(t)
             \/ \E k \in Kinds, d \in Directions :
                  \E i \in 0..Len(data[t].v[d]) : OpenDialog(t, k, d, i)
    BY <1>1, <1>2, <2>1, <2>3, UserCareful
  <2>4. CASE Poll(t) \/ Respond(t) \/ Loaded(t) \/ LoadFailed(t)
    BY <1>1, <1>2, <2>1, <2>4, QueryCareful
  <2>5. CASE UNCHANGED vars
    BY <2>1, <2>5 DEF AloneInv, FreshInv, RowInv, KeptInv, Unanswered, Unfetched
  <2> QED
    BY <1>1, <2>2, <2>3, <2>4, <2>5 DEF Next
<1> QED
  BY <1>3, <1>4 DEF CarefulInv

LEMMA CarefulInit == Init => CarefulInv
<1> SUFFICES ASSUME Init PROVE CarefulInv
  OBVIOUS
<1>1. \A n \in SaveIds : saves[n].at = "unused" /\ saves[n].hit = 0
  BY DEF Init
<1>2. \A t \in Tabs : /\ dialog[t].kind = "none" /\ status[t] = "pending"
                      /\ fetch[t].at = "none"
  BY DEF Init, CacheInit, NoDialog
<1>3. kept = RulesOf(store.v)
  BY DEF Init, CacheInit
<1>4. NumberInv /\ AloneInv
  BY <1>1 DEF NumberInv, AloneInv, UnderWay
<1>5. FreshInv /\ RowInv
  BY <1>2 DEF FreshInv, RowInv
<1>6. KeptInv
  BY <1>1, <1>3 DEF KeptInv
<1> QED
  BY <1>4, <1>5, <1>6 DEF CarefulInv

\* What is inductive when one careful user edits the group: the page, the row
\* its dialog keeps the index of, and the service agree whenever a save is made.
THEOREM CarefulInductive ==
  ASSUME OneCarefulUser
  PROVE  Spec => [](TypeOK /\ CarefulInv)
<1>1. Init => TypeOK /\ CarefulInv
  BY InitTypeOK, CarefulInit
<1>2. (TypeOK /\ CarefulInv) /\ [Next]_vars => (TypeOK /\ CarefulInv)'
  BY NextTypeOK, CarefulNext
<1> QED
  BY <1>1, <1>2, PTL DEF Spec

\* Alone, and waiting for each save, a user loses no rule: what was saved and
\* nobody asked to change stays, although each save rewrites both lists
\* (SecurityGroupDetailPage, useUpdateSecurityGroup).
THEOREM KeptRulesStayThm ==
  ASSUME OneCarefulUser
  PROVE  Spec => []KeptRulesStay
<1>1. CarefulInv => KeptRulesStay
  BY DEF CarefulInv, KeptRulesStay, KeptInv
<1> QED
  BY <1>1, CarefulInductive, PTL

\* Of such a user a save changes the rule of the row that was picked, or none
\* (SecurityGroupRuleModal's handleSubmit and securityGroupWithoutRule work on
\* an index and the data the page has by then).
THEOREM HitsTheRulePickedThm ==
  ASSUME OneCarefulUser
  PROVE  Spec => []HitsTheRulePicked
<1>1. CarefulInv => HitsTheRulePicked
  BY DEF CarefulInv, HitsTheRulePicked, KeptInv
<1> QED
  BY <1>1, CarefulInductive, PTL
=============================================================================
