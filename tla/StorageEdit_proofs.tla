------------------------ MODULE StorageEdit_proofs ------------------------
(***************************************************************************)
(* What the optimistic lock of the storage edit pages does achieve, for    *)
(* any number of tabs, users and saves.                                    *)
(***************************************************************************)
EXTENDS StorageEdit, TLAPS

\* the tuples that UNCHANGED names
USE DEF vars, editVars, cacheVars

-----------------------------------------------------------------------------
(* Type correctness.                                                       *)

\* The steps of a page's query keep its types.
LEMMA CacheStep ==
  ASSUME CacheTypeOK(Values), NEW t \in Tabs,
         \/ OpenPage(t) \/ ClosePage(t) \/ Refetch(t) \/ Serve(t) \/ Fulfilled(t) \/ Rejected(t)
         \/ Invalidate(t) /\ UNCHANGED <<store, mounted, status, data>>
  PROVE  CacheTypeOK(Values)'
<1> USE DEF CacheTypeOK, Statuses
<1>1. /\ fetch[t].got \in Snapshots(Values) /\ data[t] \in Snapshots(Values)
      /\ \A a \in {"none", "sent", "served"}, s \in Snapshots(Values) :
           [at |-> a, got |-> s] \in Fetches(Values)
      /\ [fetch[t] EXCEPT !.at = "none"] \in Fetches(Values)
  BY DEF Fetches
<1>2. Started(t) \in [Tabs -> Fetches(Values)]
  BY <1>1 DEF Started
<1>3. CASE OpenPage(t) \/ ClosePage(t) \/ Refetch(t) \/ Serve(t)
  BY <1>1, <1>2, <1>3 DEF OpenPage, ClosePage, Refetch, Serve
<1>4. CASE Fulfilled(t) \/ Rejected(t)
  BY <1>1, <1>4 DEF Fulfilled, Rejected
<1>5. CASE Invalidate(t) /\ UNCHANGED <<store, mounted, status, data>>
  BY <1>2, <1>5 DEF Invalidate
<1> QED
  BY <1>3, <1>4, <1>5

\* The two empty records.
LEMMA Empty == NoForm \in Forms /\ NoSave \in SaveRecords /\ Copy0 \in Snapshots(Values)
<1>1. Copy0 \in Snapshots(Values)
  BY DEF Copy0, Snapshots, Initial, Values
<1> QED
  BY <1>1 DEF NoForm, NoSave, Forms, SaveRecords, Stages, Initial, Values

\* A form that follows its query keeps its type.
LEMMA FollowType ==
  ASSUME form \in [Tabs -> Forms], data' \in [Tabs -> Snapshots(Values)], FormsFollow
  PROVE  form' \in [Tabs -> Forms]
<1> SUFFICES ASSUME NEW t \in Tabs
             PROVE  Shown(form[t], mounted'[t] /\ status'[t] = "success", data'[t]) \in Forms
  BY DEF FormsFollow
<1>1. form[t] \in Forms /\ data'[t] \in Snapshots(Values)
  OBVIOUS
<1>2. [NoForm EXCEPT !.shown = TRUE, !.from = data'[t]] \in Forms
  BY <1>1, Empty DEF Forms
<1> QED
  BY <1>1, <1>2, Empty DEF Shown

\* What the service answers has the type of a save.
LEMMA HandledType ==
  ASSUME save \in [SaveIds -> SaveRecords], NEW n \in SaveIds, NEW s \in Stages, Handled(n, s)
  PROVE  save' \in [SaveIds -> SaveRecords]
<1>1. [NoSave EXCEPT !.stage = s, !.by = save[n].by] \in SaveRecords
  BY Empty DEF SaveRecords
<1> QED
  BY <1>1 DEF Handled

\* A save's stage may change without the rest of it.
LEMMA StageType ==
  ASSUME save \in [SaveIds -> SaveRecords], NEW n \in SaveIds, NEW s \in Stages
  PROVE  [save EXCEPT ![n].stage = s] \in [SaveIds -> SaveRecords]
BY DEF SaveRecords

\* The next value of the resource, when fields are overwritten.
LEMMA StoreType ==
  ASSUME store \in Snapshots(Values), NEW fs, NEW w \in Values
  PROVE  [v |-> [f \in Fields |-> IF f \in fs THEN w[f] ELSE store.v[f]],
          rev |-> store.rev + 1] \in Snapshots(Values)
BY DEF Snapshots, Values

\* Every behaviour starts with the right types.
LEMMA TypeInit == Init => TypeOK
BY Empty DEF Init, CacheInit, TypeOK, CacheTypeOK, Copy0, Statuses, Fetches

\* Every variable keeps its type.
THEOREM TypeCorrect == Spec => []TypeOK
<1>1. Init => TypeOK
  BY TypeInit
<1>2. TypeOK /\ [Next]_vars => TypeOK'
  <2> SUFFICES ASSUME TypeOK, Next PROVE TypeOK'
    BY DEF TypeOK, CacheTypeOK
  <2>0. CacheTypeOK(Values) /\ form \in [Tabs -> Forms] /\ save \in [SaveIds -> SaveRecords]
        /\ kind \in {"backend", "tier"}
    BY DEF TypeOK
  <2>1. CASE \E t \in Tabs : Open(t) \/ Leave(t)
    <3>1. PICK t \in Tabs : Open(t) \/ Leave(t)
      BY <2>1
    <3>2. CacheTypeOK(Values)'
      BY <2>0, <3>1, CacheStep DEF Open, Leave
    <3> QED
      BY <2>0, <3>1, <3>2, FollowType DEF Open, Leave, TypeOK, CacheTypeOK
  <2>2. CASE \E t \in Tabs : Poll(t) \/ Respond(t)
    BY <2>0, <2>2, CacheStep DEF Poll, Respond, TypeOK
  <2>3. CASE \E t \in Tabs : Loaded(t) \/ LoadFailed(t)
    <3>1. PICK t \in Tabs : Loaded(t) \/ LoadFailed(t)
      BY <2>3
    <3>2. CacheTypeOK(Values)'
      BY <2>0, <3>1, CacheStep DEF Loaded, LoadFailed
    <3>3. save' \in [SaveIds -> SaveRecords]
      BY <2>0, <3>1 DEF Loaded, LoadFailed, FetchOver, SaveRecords, Stages
    <3> QED
      BY <2>0, <3>1, <3>2, <3>3, FollowType DEF Loaded, LoadFailed, TypeOK, CacheTypeOK
  <2>4. CASE \E t \in Tabs, f \in Fields : Type(t, f)
    BY <2>0, <2>4 DEF Type, TypeOK, CacheTypeOK, Forms
  <2>5. CASE \E t \in Tabs, n \in SaveIds : Submit(t, n)
    <3>1. PICK t \in Tabs, n \in SaveIds : Submit(t, n)
      BY <2>5
    <3>2. n \in Nat
      BY DEF SaveIds
    <3>3. Content(t, n) \in Values /\ Sends(t, Content(t, n)) \in SUBSET Fields
      BY <2>0, <3>2 DEF Content, Sends, Values, Forms, Snapshots
    <3>4. form[t].from \in Snapshots(Values) /\ data[t].rev \in Nat
      BY <2>0 DEF Forms, CacheTypeOK, Snapshots
    <3>5. form' \in [Tabs -> Forms]
      BY <2>0, <3>1, <3>2 DEF Submit, Forms
    <3>6. save' \in [SaveIds -> SaveRecords]
      BY <2>0, <3>1, <3>3, <3>4 DEF Submit, SaveRecords, Stages
    <3> QED
      BY <2>0, <3>1, <3>5, <3>6 DEF Submit, TypeOK, CacheTypeOK
  <2>6. CASE \E n \in SaveIds, fs \in (SUBSET Fields) \ {{}} : OthersSave(n, fs)
    <3>1. PICK n \in SaveIds, fs \in (SUBSET Fields) \ {{}} : OthersSave(n, fs)
      BY <2>6
    <3>2. n \in Nat /\ store \in Snapshots(Values)
      BY <2>0 DEF SaveIds, CacheTypeOK
    <3>3. store' \in Snapshots(Values)
      BY <3>1, <3>2 DEF OthersSave, Snapshots, Values
    <3>4. save' \in [SaveIds -> SaveRecords]
      BY <2>0, <3>1, StageType DEF OthersSave, Stages
    <3> QED
      BY <2>0, <3>1, <3>3, <3>4 DEF OthersSave, TypeOK, CacheTypeOK
  <2>7. CASE \E n \in SaveIds : Apply(n)
    <3>1. PICK n \in SaveIds : Apply(n)
      BY <2>7
    <3>2. store \in Snapshots(Values) /\ save[n].value \in Values
      BY <2>0 DEF CacheTypeOK, SaveRecords
    <3>3. store' \in Snapshots(Values)
      BY <3>1, <3>2, StoreType DEF Apply
    <3>4. save' \in [SaveIds -> SaveRecords]
      BY <2>0, <3>1, HandledType DEF Apply, Stages
    <3> QED
      BY <2>0, <3>1, <3>3, <3>4 DEF Apply, TypeOK, CacheTypeOK
  <2>8. CASE \E n \in SaveIds : Refuse(n)
    BY <2>0, <2>8, HandledType DEF Refuse, Stages, TypeOK, CacheTypeOK
  <2>9. CASE \E n \in SaveIds : Answered(n)
    <3>1. PICK n \in SaveIds : Answered(n)
      BY <2>9
    <3>2. save' \in [SaveIds -> SaveRecords]
      BY <2>0, <3>1, StageType DEF Answered, Stages
    <3>3. CASE save[n].by \in Tabs
      BY <2>0, <3>1, <3>2, <3>3, CacheStep DEF Answered, TypeOK
    <3>4. CASE save[n].by \notin Tabs
      <4>1. fetch' \in [Tabs -> Fetches(Values)]
        BY <2>0, <3>1, <3>4 DEF Answered, Invalidate, Started, CacheTypeOK
      <4> QED
        BY <2>0, <3>1, <3>2, <4>1 DEF Answered, TypeOK, CacheTypeOK
    <3> QED
      BY <3>3, <3>4
  <2>10. CASE \E n \in SaveIds : Navigate(n)
    <3>1. PICK n \in SaveIds : Navigate(n)
      BY <2>10
    <3>2. save' \in [SaveIds -> SaveRecords]
      BY <2>0, <3>1, StageType DEF Navigate, Stages
    <3>3. mounted' \in [Tabs -> BOOLEAN]
      BY <2>0, <3>1 DEF Navigate, CacheTypeOK
    <3> QED
      BY <2>0, <3>1, <3>2, <3>3, FollowType DEF Navigate, TypeOK, CacheTypeOK
  <2>11. CASE \E n \in SaveIds : Fails(n)
    <3>1. PICK n \in SaveIds : Fails(n)
      BY <2>11
    <3>2. save' \in [SaveIds -> SaveRecords]
      BY <2>0, <3>1, StageType DEF Fails, Stages
    <3>3. form' \in [Tabs -> Forms]
      BY <2>0, <3>1 DEF Fails, Forms
    <3> QED
      BY <2>0, <3>1, <3>2, <3>3 DEF Fails, TypeOK, CacheTypeOK
  <2> QED
    BY <2>1, <2>2, <2>3, <2>4, <2>5, <2>6, <2>7, <2>8, <2>9, <2>10, <2>11 DEF Next
<1> QED
  BY <1>1, <1>2, PTL DEF Spec

-----------------------------------------------------------------------------
(* A copy with the current version is the current resource.                *)

\* What a page, a fetch, a form or a save may have of the resource: a copy that
\* is not newer, and differs only if it is older.
Past == {c \in Snapshots(Values) : c.rev <= store.rev /\ (c.rev = store.rev => c.v = store.v)}

IInv ==
  /\ TypeOK
  /\ Copy0 \in Past
  /\ \A t \in Tabs : data[t] \in Past /\ fetch[t].got \in Past /\ form[t].from \in Past
  /\ \A n \in SaveIds : save[n].base \in Past

\* Only a write changes what is past, and it raises the version.
LEMMA PastGrows ==
  ASSUME store \in Snapshots(Values), store' \in Snapshots(Values),
         store' = store \/ store'.rev = store.rev + 1
  PROVE  Past \subseteq Past' /\ store \in Past
BY DEF Past, Snapshots

\* The steps of a query copy the resource, or a copy of it.
LEMMA CachePast ==
  ASSUME CacheTypeOK(Values), \A i \in Tabs : data[i] \in Past /\ fetch[i].got \in Past,
         NEW t \in Tabs,
         \/ OpenPage(t) \/ ClosePage(t) \/ Refetch(t) \/ Serve(t) \/ Fulfilled(t) \/ Rejected(t)
         \/ Invalidate(t) /\ UNCHANGED <<store, data>>
  PROVE  /\ store' = store
         /\ \A i \in Tabs : data'[i] \in Past' /\ fetch'[i].got \in Past'
<1>1. store' = store
  BY DEF OpenPage, ClosePage, Refetch, Serve, Fulfilled, Rejected
<1>2. Past' = Past /\ store \in Past
  BY <1>1, PastGrows DEF Past, CacheTypeOK
<1> SUFFICES ASSUME NEW i \in Tabs PROVE data'[i] \in Past /\ fetch'[i].got \in Past
  BY <1>1, <1>2
<1>3. Started(t)[i].got \in Past /\ DOMAIN fetch = Tabs /\ DOMAIN data = Tabs
  BY DEF Started, CacheTypeOK
<1>4. CASE OpenPage(t) \/ ClosePage(t) \/ Refetch(t)
  BY <1>3, <1>4 DEF OpenPage, ClosePage, Refetch
<1>5. CASE Serve(t)
  BY <1>2, <1>3, <1>5 DEF Serve
<1>6. CASE Fulfilled(t) \/ Rejected(t)
  BY <1>3, <1>6 DEF Fulfilled, Rejected, CacheTypeOK, Fetches
<1>7. CASE Invalidate(t) /\ UNCHANGED <<store, data>>
  BY <1>3, <1>7 DEF Invalidate
<1> QED
  BY <1>4, <1>5, <1>6, <1>7

\* A form that follows its query is filled from the query's copy.
LEMMA FollowPast ==
  ASSUME form \in [Tabs -> Forms], Copy0 \in Past, Past \subseteq Past', FormsFollow,
         \A t \in Tabs : form[t].from \in Past /\ data'[t] \in Past'
  PROVE  \A t \in Tabs : form'[t].from \in Past'
<1> SUFFICES ASSUME NEW t \in Tabs
             PROVE  Shown(form[t], mounted'[t] /\ status'[t] = "success", data'[t]).from \in Past'
  BY DEF FormsFollow
<1>1. NoForm.from = Copy0 /\ [NoForm EXCEPT !.shown = TRUE, !.from = data'[t]].from = data'[t]
  BY DEF NoForm
<1> QED
  BY <1>1 DEF Shown

\* Init => IInv /\ IInv /\ [Next]_vars => IInv', the types apart.
LEMMA Inductive == Spec => []IInv
<1>1. Init => IInv
  <2> SUFFICES ASSUME Init, TypeOK PROVE IInv
    BY TypeInit
  <2>1. store = Copy0 /\ store \in Snapshots(Values)
    BY Empty DEF Init, CacheInit, Copy0
  <2>2. Copy0 \in Past
    BY <2>1, PastGrows DEF Past, Snapshots
  <2>3. NoForm.from = Copy0 /\ NoSave.base = Copy0
    BY DEF NoForm, NoSave
  <2> QED
    BY <2>1, <2>2, <2>3 DEF IInv, Init, CacheInit
<1>2. IInv /\ TypeOK' /\ [Next]_vars => IInv'
  <2> SUFFICES ASSUME IInv, TypeOK', [Next]_vars PROVE IInv'
    OBVIOUS
  <2>0. /\ CacheTypeOK(Values) /\ form \in [Tabs -> Forms] /\ save \in [SaveIds -> SaveRecords]
        /\ store \in Snapshots(Values) /\ store' \in Snapshots(Values)
        /\ Copy0 \in Past
        /\ \A t \in Tabs : data[t] \in Past /\ fetch[t].got \in Past
        /\ \A t \in Tabs : form[t].from \in Past
        /\ \A n \in SaveIds : save[n].base \in Past
    BY DEF IInv, TypeOK, CacheTypeOK
  <2> DEFINE
    Cached == \A t \in Tabs : data'[t] \in Past' /\ fetch'[t].got \in Past'
    Filled == \A t \in Tabs : form'[t].from \in Past'
    Sent == \A n \in SaveIds : save'[n].base \in Past'
  <2>a. SUFFICES Past \subseteq Past' /\ Cached /\ Filled /\ Sent
    BY <2>0 DEF IInv, Copy0
  <2>b. store' = store => Past \subseteq Past'
    BY <2>0, PastGrows
  <2>1. CASE \E t \in Tabs : Open(t) \/ Leave(t)
    <3>1. PICK t \in Tabs : Open(t) \/ Leave(t)
      BY <2>1
    <3>2. store' = store /\ Cached
      BY <2>0, <3>1, CachePast DEF Open, Leave
    <3>3. Filled
      BY <2>0, <2>b, <3>1, <3>2, FollowPast DEF Open, Leave
    <3> QED
      BY <2>0, <2>b, <3>1, <3>2, <3>3 DEF Open, Leave
  <2>2. CASE \E t \in Tabs : Poll(t) \/ Respond(t)
    <3>1. PICK t \in Tabs : Poll(t) \/ Respond(t)
      BY <2>2
    <3>2. store' = store /\ Cached
      BY <2>0, <3>1, CachePast DEF Poll, Respond
    <3> QED
      BY <2>0, <2>b, <3>1, <3>2 DEF Poll, Respond
  <2>3. CASE \E t \in Tabs : Loaded(t) \/ LoadFailed(t)
    <3>1. PICK t \in Tabs : Loaded(t) \/ LoadFailed(t)
      BY <2>3
    <3>2. store' = store /\ Cached
      BY <2>0, <3>1, CachePast DEF Loaded, LoadFailed
    <3>3. Filled
      BY <2>0, <2>b, <3>1, <3>2, FollowPast DEF Loaded, LoadFailed
    <3>4. \A n \in SaveIds : save'[n].base = save[n].base
      BY <2>0, <3>1 DEF Loaded, LoadFailed, FetchOver, SaveRecords
    <3> QED
      BY <2>0, <2>b, <3>2, <3>3, <3>4
  <2>4. CASE \E t \in Tabs, f \in Fields : Type(t, f)
    <3>1. \A t \in Tabs : form'[t].from = form[t].from
      BY <2>0, <2>4 DEF Type, Forms
    <3> QED
      BY <2>0, <2>b, <2>4, <3>1 DEF Type
  <2>5. CASE \E t \in Tabs, n \in SaveIds : Submit(t, n)
    <3>1. PICK t \in Tabs, n \in SaveIds : Submit(t, n)
      BY <2>5
    <3>2. Filled
      BY <2>0, <2>b, <3>1 DEF Submit, Forms
    <3>3. \A i \in SaveIds : save'[i].base \in {save[i].base, form[t].from}
      BY <2>0, <3>1 DEF Submit
    <3> QED
      BY <2>0, <2>b, <3>1, <3>2, <3>3 DEF Submit
  <2>6. CASE \/ \E n \in SaveIds, fs \in (SUBSET Fields) \ {{}} : OthersSave(n, fs)
             \/ \E n \in SaveIds : Apply(n)
    <3>1. store'.rev = store.rev + 1
      BY <2>6 DEF OthersSave, Apply
    <3>2. Past \subseteq Past'
      BY <2>0, <3>1, PastGrows
    <3>3. Sent
      <4>1. ASSUME NEW n \in SaveIds, NEW fs, OthersSave(n, fs)
            PROVE  \A i \in SaveIds : save'[i].base \in {save[i].base, Copy0}
        BY <2>0, <4>1 DEF OthersSave, SaveRecords
      <4>2. ASSUME NEW n \in SaveIds, Apply(n)
            PROVE  \A i \in SaveIds : save'[i].base \in {save[i].base, Copy0}
        BY <2>0, <4>2 DEF Apply, Handled, NoSave, SaveRecords
      <4> QED
        BY <2>0, <2>6, <3>2, <4>1, <4>2
    <3> QED
      BY <2>0, <2>6, <3>2, <3>3 DEF OthersSave, Apply
  <2>7. CASE \E n \in SaveIds : Refuse(n)
    <3>1. \A i \in SaveIds : save'[i].base \in {save[i].base, Copy0}
      BY <2>0, <2>7 DEF Refuse, Handled, NoSave, SaveRecords
    <3> QED
      BY <2>0, <2>b, <2>7, <3>1 DEF Refuse
  <2>8. CASE \E n \in SaveIds : Answered(n)
    <3>1. PICK n \in SaveIds : Answered(n)
      BY <2>8
    <3>2. store' = store /\ data' = data /\ form' = form /\ Invalidate(save[n].by)
      BY <3>1 DEF Answered
    <3>3. \A i \in SaveIds : save'[i].base = save[i].base
      BY <2>0, <3>1 DEF Answered, SaveRecords
    <3>4. \A t \in Tabs : fetch'[t].got \in Past
      BY <2>0, <3>2 DEF Invalidate, Started, CacheTypeOK
    <3> QED
      BY <2>0, <2>b, <3>2, <3>3, <3>4
  <2>9. CASE \E n \in SaveIds : Navigate(n)
    <3>1. PICK n \in SaveIds : Navigate(n)
      BY <2>9
    <3>2. store' = store /\ data' = data /\ fetch' = fetch /\ FormsFollow
      BY <3>1 DEF Navigate
    <3>3. \A i \in SaveIds : save'[i].base = save[i].base
      BY <2>0, <3>1 DEF Navigate, SaveRecords
    <3>4. Filled
      BY <2>0, <2>b, <3>2, FollowPast
    <3> QED
      BY <2>0, <2>b, <3>2, <3>3, <3>4
  <2>10. CASE \E n \in SaveIds : Fails(n)
    <3>1. PICK n \in SaveIds : Fails(n)
      BY <2>10
    <3>2. \A i \in SaveIds : save'[i].base = save[i].base
      BY <2>0, <3>1 DEF Fails, SaveRecords
    <3>3. \A t \in Tabs : form'[t].from = form[t].from
      BY <2>0, <3>1 DEF Fails, Forms
    <3> QED
      BY <2>0, <2>b, <3>1, <3>2, <3>3 DEF Fails
  <2>11. CASE UNCHANGED vars
    BY <2>0, <2>b, <2>11
  <2> QED
    BY <2>1, <2>2, <2>3, <2>4, <2>5, <2>6, <2>7, <2>8, <2>9, <2>10, <2>11 DEF Next
<1> QED
  BY <1>1, <1>2, TypeCorrect, PTL DEF Spec

\* Only Apply applies, and only to the version that the save names.
LEMMA AppliedByApply ==
  ASSUME TypeOK, Next, NEW n \in SaveIds, Applied(n)
  PROVE  save[n].version = store.rev
<1>0. save \in [SaveIds -> SaveRecords] /\ save[n].stage = "sent" /\ save'[n].stage = "applied"
  BY DEF TypeOK, Applied
<1>1. \A i \in SaveIds : Handled(i, "refused") /\ save'[n] # save[n] => save'[n].stage = "refused"
  BY <1>0 DEF Handled, NoSave, SaveRecords
<1>2. \A i \in SaveIds : Handled(i, "applied") /\ i # n => save'[n] = save[n]
  BY <1>0 DEF Handled
<1>3. ASSUME NEW t \in Tabs,
             \/ Open(t) \/ Leave(t) \/ Poll(t) \/ Respond(t) \/ \E f \in Fields : Type(t, f)
      PROVE  FALSE
  BY <1>0, <1>3 DEF Open, Leave, Poll, Respond, Type
<1>4. ASSUME NEW t \in Tabs, Loaded(t) \/ LoadFailed(t) PROVE FALSE
  BY <1>0, <1>4 DEF Loaded, LoadFailed, FetchOver, SaveRecords
<1>5. ASSUME NEW t \in Tabs, NEW i \in SaveIds, Submit(t, i) PROVE FALSE
  BY <1>0, <1>5 DEF Submit, SaveRecords
<1>6. ASSUME NEW i \in SaveIds,
             \/ Answered(i) \/ Navigate(i) \/ Fails(i)
             \/ \E fs \in (SUBSET Fields) \ {{}} : OthersSave(i, fs)
      PROVE  FALSE
  BY <1>0, <1>6 DEF Answered, Navigate, Fails, OthersSave, SaveRecords
<1>7. ASSUME NEW i \in SaveIds, Refuse(i) PROVE FALSE
  BY <1>0, <1>1, <1>7 DEF Refuse
<1>8. PICK i \in SaveIds : Apply(i)
  BY <1>3, <1>4, <1>5, <1>6, <1>7 DEF Next
<1> QED
  BY <1>0, <1>2, <1>8 DEF Apply

\* A save whose form was filled from the copy that its page had at the click
\* undoes nothing: the service applies it only to the resource that its user saw.
THEOREM FreshSavesUndoNothingThm == Spec => FreshSavesUndoNothing
<1>1. IInv /\ [Next]_vars =>
        [\A n \in SaveIds :
           Applied(n) /\ save[n].version = save[n].base.rev => ~ OverwritesUnseen(n)]_vars
  <2> SUFFICES ASSUME IInv, Next, NEW n \in SaveIds, Applied(n),
                      save[n].version = save[n].base.rev
               PROVE  store.v = save[n].base.v
    BY DEF OverwritesUnseen
  <2>1. save[n].version = store.rev
    BY AppliedByApply DEF IInv
  <2> QED
    BY <2>1 DEF IInv, Past
<1> QED
  BY <1>1, Inductive, PTL DEF Spec, FreshSavesUndoNothing

-----------------------------------------------------------------------------
(* What is typed is kept.                                                  *)

\* A form is there only while its page has a copy to show; an empty place has
\* nothing typed in it.
FormInv ==
  \A t \in Tabs : /\ form[t].shown => mounted[t] /\ status[t] = "success"
                  /\ form[t].typed # {} => form[t].shown

\* A form that follows its query is there only while it is usable; and one with
\* something typed goes only when it is not.
LEMMA FollowForm ==
  ASSUME FormInv, FormsFollow, NEW t \in Tabs
  PROVE  /\ form'[t].shown => mounted'[t] /\ status'[t] = "success"
         /\ form'[t].typed # {} => form'[t].shown
         /\ form[t].typed # {} /\ mounted'[t] /\ status'[t] = "success" => form'[t] = form[t]
<1> DEFINE u == mounted'[t] /\ status'[t] = "success"
<1>1. form'[t] = Shown(form[t], u, data'[t])
  BY DEF FormsFollow
<1>2. form[t].typed # {} => form[t].shown
  BY DEF FormInv
<1>3. /\ NoForm.shown = FALSE /\ NoForm.typed = {}
      /\ [NoForm EXCEPT !.shown = TRUE, !.from = data'[t]].shown = TRUE
      /\ [NoForm EXCEPT !.shown = TRUE, !.from = data'[t]].typed = {}
  BY DEF NoForm
<1> QED
  BY <1>1, <1>2, <1>3 DEF Shown

\* A step that changes neither pages nor shown forms, and types only into these.
LEMMA SameForms ==
  ASSUME FormInv, UNCHANGED <<mounted, status>>,
         \A t \in Tabs : /\ form'[t].shown = form[t].shown
                         /\ form'[t].typed = form[t].typed \/ form[t].shown
  PROVE  FormInv'
BY DEF FormInv

\* Only steps of the page, the query and Navigate move forms in and out.
LEMMA FormStep ==
  ASSUME TypeOK, [Next]_vars
  PROVE  \/ FormsFollow
         \/ /\ UNCHANGED <<mounted, status>>
            /\ \A t \in Tabs : /\ form'[t].shown = form[t].shown
                               /\ form[t].typed \subseteq form'[t].typed
                               /\ form'[t].typed = form[t].typed \/ form[t].shown
<1>0. form \in [Tabs -> Forms]
  BY DEF TypeOK
<1>1. ASSUME NEW t \in Tabs, Open(t) \/ Leave(t) \/ Loaded(t) \/ LoadFailed(t) PROVE FormsFollow
  BY <1>1 DEF Open, Leave, Loaded, LoadFailed
<1>2. ASSUME NEW n \in SaveIds, Navigate(n) PROVE FormsFollow
  BY <1>2 DEF Navigate
<1> DEFINE Same == /\ UNCHANGED <<mounted, status>>
                   /\ \A t \in Tabs : /\ form'[t].shown = form[t].shown
                                      /\ form[t].typed \subseteq form'[t].typed
                                      /\ form'[t].typed = form[t].typed \/ form[t].shown
<1>3. ASSUME NEW t \in Tabs, Poll(t) \/ Respond(t) PROVE Same
  BY <1>3 DEF Poll, Respond, Refetch, Serve
<1>4. ASSUME NEW t \in Tabs, NEW f \in Fields, Type(t, f) PROVE Same
  BY <1>0, <1>4 DEF Type, Forms
<1>5. ASSUME NEW t \in Tabs, NEW n \in SaveIds, Submit(t, n) PROVE Same
  BY <1>0, <1>5 DEF Submit, Forms
<1>6. ASSUME NEW n \in SaveIds, Fails(n) PROVE Same
  BY <1>0, <1>6 DEF Fails, Forms
<1>7. ASSUME NEW n \in SaveIds,
             \/ Apply(n) \/ Refuse(n) \/ Answered(n)
             \/ \E fs \in (SUBSET Fields) \ {{}} : OthersSave(n, fs)
      PROVE  Same
  BY <1>7 DEF Apply, Refuse, Answered, OthersSave
<1>8. CASE UNCHANGED vars
  BY <1>8
<1> QED
  BY <1>1, <1>2, <1>3, <1>4, <1>5, <1>6, <1>7, <1>8 DEF Next

\* Typed fields of a tab go only with its query or with its page, and its page goes
\* at the user's wish or with the end of a save that finds the form clean or saving.
THEOREM EditsAreKeptThm == Spec => EditsAreKept
<1>1. Init => FormInv
  <2>1. NoForm.shown = FALSE /\ NoForm.typed = {}
    BY DEF NoForm
  <2> QED
    BY <2>1 DEF Init, FormInv
<1>2. FormInv /\ TypeOK /\ [Next]_vars => FormInv'
  <2> SUFFICES ASSUME FormInv, TypeOK, [Next]_vars PROVE FormInv'
    OBVIOUS
  <2>1. CASE FormsFollow
    <3>1. \A t \in Tabs : /\ form'[t].shown => mounted'[t] /\ status'[t] = "success"
                          /\ form'[t].typed # {} => form'[t].shown
      BY <2>1, FollowForm
    <3> QED
      BY <3>1 DEF FormInv
  <2> QED
    BY <2>1, FormStep, SameForms
<1>3. FormInv /\ TypeOK /\ [Next]_vars =>
        [\A t \in Tabs : form[t].typed # {} /\ form'[t].typed = {} =>
           \/ status'[t] = "error"
           \/ ~ mounted'[t] /\ (form[t].saving # 0 \/ save' = save)]_vars
  <2> SUFFICES ASSUME FormInv, TypeOK, Next, [Next]_vars, NEW t \in Tabs,
                      form[t].typed # {}, form'[t].typed = {}, status'[t] # "error"
               PROVE  ~ mounted'[t] /\ (form[t].saving # 0 \/ save' = save)
    OBVIOUS
  <2>1. form[t].shown /\ mounted[t] /\ status[t] = "success"
    BY DEF FormInv
  <2>2. FormsFollow
    BY FormStep
  <2>3. ~ (mounted'[t] /\ status'[t] = "success")
    BY <2>2, FollowForm
  <2>4. ASSUME NEW i \in Tabs, Open(i) PROVE FALSE
    BY <2>1, <2>3, <2>4 DEF Open, OpenPage, TypeOK, CacheTypeOK
  <2>5. ASSUME NEW i \in Tabs, Leave(i) PROVE ~ mounted'[t] /\ save' = save
    BY <2>1, <2>3, <2>5 DEF Leave, ClosePage
  <2>6. ASSUME NEW i \in Tabs, Loaded(i) \/ LoadFailed(i) PROVE FALSE
    BY <2>1, <2>3, <2>6 DEF Loaded, LoadFailed, Fulfilled, Rejected, TypeOK, CacheTypeOK
  <2>7. ASSUME NEW n \in SaveIds, Navigate(n) PROVE ~ mounted'[t] /\ form[t].saving # 0
    BY <2>1, <2>3, <2>7 DEF Navigate, TypeOK, CacheTypeOK
  <2>8. ASSUME NEW i \in Tabs,
               \/ Poll(i) \/ Respond(i) \/ \E f \in Fields : Type(i, f)
               \/ \E n \in SaveIds : Submit(i, n)
        PROVE  FALSE
    BY <2>1, <2>3, <2>8 DEF Poll, Respond, Refetch, Serve, Type, Submit
  <2>9. ASSUME NEW n \in SaveIds,
               \/ Apply(n) \/ Refuse(n) \/ Answered(n) \/ Fails(n)
               \/ \E fs \in (SUBSET Fields) \ {{}} : OthersSave(n, fs)
        PROVE  FALSE
    BY <2>1, <2>3, <2>9 DEF Apply, Refuse, Answered, Fails, OthersSave
  <2> QED
    BY <2>4, <2>5, <2>6, <2>7, <2>8, <2>9 DEF Next
<1> QED
  BY <1>1, <1>2, <1>3, TypeCorrect, PTL DEF Spec, EditsAreKept
=============================================================================
