------------------------ MODULE CreateWizard_proofs ------------------------
(***************************************************************************)
(* The safety properties of the wizards hold for any catalog, number of    *)
(* steps and number of visits.  The inductive invariant says two things:   *)
(* what the steps a form has passed imply of its fields (Shape, Checked),  *)
(* and what a form on the screen implies of its request (Waiting).         *)
(***************************************************************************)
EXTENDS CreateWizard, TLAPS

\* Nobody leaves the first step of a provisioning wizard without an item, and
\* no field of a resource wizard is only right by half of its rules.
Shape(fm) ==
  /\ fm \in Forms
  /\ fm.asking # "no" => ~fm.pending /\ (fm.typed \/ fm.item # None)
  /\ fm.alert \in {0, fm.step}
  /\ kind = "provision" /\ (fm.typed \/ fm.step > 1 \/ fm.reached > 1) => fm.item # None
  /\ kind = "resource" => \A s \in 1..Steps : fm.fields[s] # "lax"
  /\ fm.error # "none" => ~fm.pending
  /\ fm.pending /\ ~fm.moved => fm.step = Review
  /\ fm.error = "create" /\ kind = "resource" => fm.step = Review

\* What lies behind the current step was checked, or is excused.
Checked(fm) ==
  kind = "provision" /\ ~fm.excused => \A s \in Data : s < fm.step => fm.fields[s] = "good"

\* The last request of a visit decides whether its form is locked, what it tells
\* and what was made for it.
Waiting ==
  /\ place = "form" => /\ visit # 0 /\ req[visit] # "done"
                       /\ form.pending <=> req[visit] \in InFlight
                       /\ form.error = "create" => req[visit] = "failed"
                       /\ req[visit] = "failed" /\ ~form.moved => form.error # "none"
  /\ place # "form" => form = Unmounted
  /\ \A v \in Visits : v > visit => req[v] = "none"
  /\ \A v \in Visits : \/ misled[v]
                       \/ made[v] = 0 /\ req[v] \in {"none", "sent", "refused", "failed"}
                       \/ made[v] = 1 /\ req[v] \in {"applied", "done"}

IInv == TypeOK /\ Shape(form) /\ Checked(form) /\ Waiting

-----------------------------------------------------------------------------
(* Forms *)

LEMMA StepsFacts ==
  /\ Steps \in Nat /\ Steps > 2 /\ 1 \in 1..Steps /\ Review \in 1..Steps /\ 0 \in 0..Steps
  /\ Data \subseteq 1..Steps
BY WizardAssumption DEF Review, Data

LEMMA UnmountedOK ==
  Shape(Unmounted) /\ Checked(Unmounted) /\ ~Unmounted.pending /\ ~Unmounted.typed
<1>1. Unmounted \in Forms
  BY StepsFacts DEF Unmounted, Forms, Values, Elsewhere, Errors
<1>2. Checked(Unmounted)
  BY StepsFacts DEF Checked, Unmounted, Data
<1>3. \A s \in 1..Steps : Unmounted.fields[s] # "lax"
  BY DEF Unmounted
<1> QED BY <1>1, <1>2, <1>3, StepsFacts DEF Shape, Unmounted

LEMMA MovedShape ==
  ASSUME Shape(form), form.asking = "no", NEW s \in 1..Steps,
         kind = "provision" => form.item # None
  PROVE  LET m == Moved(form, s)
         IN  /\ Shape(m) /\ m.fields = form.fields /\ m.step = s
             /\ m.excused = form.excused /\ m.pending = form.pending
             /\ m.error = "none" /\ m.moved
<1> DEFINE m == Moved(form, s)
<1>1. form \in Forms
  BY DEF Shape
<1>2. /\ m.step = s /\ m.alert = 0 /\ m.error = "none" /\ m.moved = TRUE
      /\ m.reached = (IF s > form.reached THEN s ELSE form.reached)
      /\ m.fields = form.fields /\ m.excused = form.excused /\ m.pending = form.pending
      /\ m.typed = form.typed /\ m.item = form.item /\ m.asking = form.asking
  BY <1>1 DEF Moved, Forms
<1>3. m \in Forms
  BY <1>1, StepsFacts DEF Moved, Forms, Errors
<1> HIDE DEF m
<1>4. Shape(m)
  BY <1>2, <1>3 DEF Shape
<1> QED BY <1>2, <1>4 DEF m

LEMMA ExcuseShape ==
  ASSUME NEW fm, Shape(fm), NEW why \in BOOLEAN
  PROVE  LET e == Excuse(fm, why)
         IN  /\ Shape(e) /\ e.fields = fm.fields /\ e.step = fm.step
             /\ e.excused = (fm.excused \/ why) /\ e.pending = fm.pending
             /\ e.error = fm.error /\ e.moved = fm.moved
<1> DEFINE e == Excuse(fm, why)
<1>1. fm \in Forms
  BY DEF Shape
<1>2. /\ e.step = fm.step /\ e.alert = fm.alert /\ e.reached = fm.reached
      /\ e.fields = fm.fields /\ e.excused = (fm.excused \/ why) /\ e.pending = fm.pending
      /\ e.typed = fm.typed /\ e.item = fm.item /\ e.asking = fm.asking
      /\ e.error = fm.error /\ e.moved = fm.moved
  BY <1>1 DEF Excuse, Forms
<1>3. e \in Forms
  BY <1>1 DEF Excuse, Forms
<1> HIDE DEF e
<1>4. Shape(e)
  BY <1>2, <1>3 DEF Shape
<1> QED BY <1>2, <1>4 DEF e

LEMMA ResetShape ==
  ASSUME NEW fm, Shape(fm), NEW i \in Items, NEW f \in Defaults, kind = "provision"
  PROVE  LET r == Reset(fm, i, f)
         IN  /\ Shape(r) /\ r.step = fm.step /\ r.excused = fm.excused
             /\ r.pending = fm.pending /\ r.error = fm.error /\ r.moved = fm.moved
<1> DEFINE r == Reset(fm, i, f)
<1>1. fm \in Forms
  BY DEF Shape
<1>2. f \in [1..Steps -> Values] /\ i # None
  BY WizardAssumption DEF Defaults, Values
<1>3. /\ r.step = fm.step /\ r.alert = fm.alert /\ r.reached = fm.reached
      /\ r.fields = f /\ r.excused = fm.excused /\ r.pending = fm.pending
      /\ r.typed = FALSE /\ r.item = i /\ r.asking = fm.asking
      /\ r.error = fm.error /\ r.moved = fm.moved
  BY <1>1 DEF Reset, Forms
<1>4. r \in Forms
  BY <1>1, <1>2 DEF Reset, Forms
<1> HIDE DEF r
<1>5. Shape(r)
  BY <1>2, <1>3, <1>4 DEF Shape
<1> QED BY <1>3, <1>5 DEF r

LEMMA LinkedShape ==
  ASSUME NEW fm, Shape(fm)
  PROVE  LET n == [fm EXCEPT !.linked = TRUE]
         IN  /\ Shape(n) /\ n.step = fm.step /\ n.excused = fm.excused
             /\ n.pending = fm.pending /\ n.fields = fm.fields /\ n.linked
             /\ n.error = fm.error /\ n.moved = fm.moved
<1> DEFINE n == [fm EXCEPT !.linked = TRUE]
<1>1. fm \in Forms
  BY DEF Shape
<1>2. /\ n.step = fm.step /\ n.alert = fm.alert /\ n.reached = fm.reached
      /\ n.fields = fm.fields /\ n.excused = fm.excused /\ n.pending = fm.pending
      /\ n.typed = fm.typed /\ n.item = fm.item /\ n.asking = fm.asking /\ n.linked
      /\ n.error = fm.error /\ n.moved = fm.moved
  BY <1>1 DEF Forms
<1>3. n \in Forms
  BY <1>1 DEF Forms
<1> HIDE DEF n
<1>4. Shape(n)
  BY <1>2, <1>3 DEF Shape
<1> QED BY <1>2, <1>4 DEF n

-----------------------------------------------------------------------------
(* Kinds of steps *)

\* An edit may clear what was told of the last create when it moves the form,
\* and may say that the item is unknown, but tells of no other create.
KeepsOutcome ==
  /\ form'.pending = form.pending
  /\ form'.error = "create" => form.error = "create"
  /\ ~form'.moved => ~form.moved /\ (form.error # "none" => form'.error # "none")

\* The mounted form changes, its lock does not.
LEMMA EditStep ==
  ASSUME IInv, place = "form", Shape(form'), Checked(form'), KeepsOutcome,
         list' \subseteq Items, UNCHANGED <<kind, place, visit, req, made, misled>>
  PROVE  IInv'
<1>1. TypeOK'
  BY DEF IInv, TypeOK, Shape
<1>2. Shape(form)' /\ Checked(form)'
  BY DEF Shape, Checked, Data
<1>3. Waiting'
  BY DEF IInv, Waiting, KeepsOutcome
<1> QED BY <1>1, <1>2, <1>3 DEF IInv

\* The form is left, perhaps with the success of a create.
LEMMA LeaveStep ==
  ASSUME IInv, NEW p \in Elsewhere \cup {"edit"}, GoTo(p),
         UNCHANGED <<kind, list, visit, made, misled>>,
         \/ UNCHANGED req
         \/ \E v \in Visits : req[v] = "applied" /\ req' = [req EXCEPT ![v] = "done"]
  PROVE  IInv'
<1>1. form' = Unmounted /\ place' = p /\ p # "form"
  BY DEF GoTo, Elsewhere
<1>2. req' \in [Visits -> InFlight \cup {"none", "done", "failed"}]
  BY DEF IInv, TypeOK, InFlight
<1>3. Shape(form)' /\ Checked(form)'
  BY <1>1, UnmountedOK DEF Shape, Checked, Data
<1>4. TypeOK'
  BY <1>1, <1>2, UnmountedOK DEF IInv, TypeOK, Shape
<1>5. \A v \in Visits : req'[v] = req[v] \/ (req[v] = "applied" /\ req'[v] = "done")
  BY DEF IInv, TypeOK
<1>6. Waiting'
  BY <1>1, <1>5 DEF IInv, TypeOK, Waiting
<1> QED BY <1>3, <1>4, <1>6 DEF IInv

\* A form is mounted.
LEMMA MountStep ==
  ASSUME IInv, place # "form", visit < MaxVisits, visit' = visit + 1, place' = "form",
         Shape(form'), Checked(form'), ~form'.pending, form'.error = "none",
         UNCHANGED <<kind, list, req, made, misled>>
  PROVE  IInv'
<1>1. visit \in Nat /\ visit' \in Visits /\ visit' \in 0..MaxVisits /\ visit' # 0
  BY WizardAssumption DEF IInv, TypeOK, Visits
<1>2. TypeOK'
  BY <1>1 DEF IInv, TypeOK, Shape
<1>3. Shape(form)' /\ Checked(form)'
  BY DEF Shape, Checked, Data
<1>4. req[visit'] = "none"
  BY <1>1 DEF IInv, Waiting
<1>5. \A v \in Visits : v > visit' => req[v] = "none"
  <2> SUFFICES ASSUME NEW v \in Visits, v > visit' PROVE v > visit
    BY DEF IInv, Waiting
  <2> QED BY <1>1 DEF Visits
<1>6. Waiting'
  BY <1>1, <1>4, <1>5 DEF IInv, Waiting, InFlight
<1> QED BY <1>2, <1>3, <1>6 DEF IInv

\* Create sends a request.
LEMMA SendStep ==
  ASSUME IInv, place = "form", form.asking = "no", ~form.pending, form.step = Review, Send
  PROVE  IInv'
<1>1. form \in Forms /\ visit \in Visits /\ req \in [Visits -> InFlight \cup {"none", "done", "failed"}]
  BY WizardAssumption DEF IInv, TypeOK, Waiting, Visits
<1>2. /\ form'.step = form.step /\ form'.alert = form.alert /\ form'.reached = form.reached
      /\ form'.fields = form.fields /\ form'.excused = form.excused /\ form'.pending = TRUE
      /\ form'.typed = form.typed /\ form'.item = form.item /\ form'.asking = form.asking
      /\ form'.error = "none" /\ ~form'.moved
  BY <1>1 DEF Send, Forms
<1>3. form' \in Forms
  BY <1>1 DEF Send, Forms, Errors
<1>4. Shape(form)' /\ Checked(form)'
  BY <1>2, <1>3 DEF IInv, Send, Shape, Checked, Data, Forms
<1>5. /\ req' \in [Visits -> InFlight \cup {"none", "done", "failed"}]
      /\ \A v \in Visits : req'[v] = IF v = visit THEN "sent" ELSE req[v]
  BY <1>1 DEF Send, InFlight
<1>6. TypeOK'
  BY <1>3, <1>5 DEF IInv, TypeOK, Send
<1>7. req[visit] \notin InFlight /\ req[visit] # "done"
  BY DEF IInv, Waiting
<1>8. Waiting'
  <2>1. \A v \in Visits : v > visit => v # visit
    BY <1>1 DEF Visits
  <2> QED BY <1>1, <1>2, <1>5, <1>7, <2>1 DEF IInv, Waiting, Send, InFlight
<1> QED BY <1>4, <1>6, <1>8 DEF IInv

-----------------------------------------------------------------------------
(* Actions *)

LEMMA MountActions ==
  ASSUME IInv, EditLoads \/ \E i \in Items \cup {None} : Open(i)
  PROVE  IInv'
<1>1. ASSUME NEW i \in Items \cup {None}, Open(i) PROVE IInv'
  <2> DEFINE fresh == [Unmounted EXCEPT !.link = i, !.item = i]
  <2>1. /\ Shape(fresh) /\ Checked(fresh) /\ ~fresh.pending /\ fresh.error = "none"
        /\ fresh.step = 1 /\ fresh.link = i
    <3>1. /\ fresh.step = 1 /\ fresh.alert = 0 /\ fresh.reached = 1 /\ ~fresh.typed
          /\ fresh.fields = Unmounted.fields /\ ~fresh.pending /\ fresh.asking = "no"
          /\ fresh.link = i /\ fresh.error = "none"
      BY DEF Unmounted
    <3>2. Unmounted \in Forms
      BY UnmountedOK DEF Shape
    <3>3. fresh \in Forms
      BY <3>2 DEF Forms
    <3>4. \A s \in 1..Steps : fresh.fields[s] # "lax"
      BY <3>1 DEF Unmounted
    <3> HIDE DEF fresh
    <3> QED BY <3>1, <3>3, <3>4, StepsFacts DEF Shape, Checked, Data
  <2>2. Shape(form') /\ Checked(form') /\ ~form'.pending /\ form'.error = "none"
    <3>1. CASE ~DeepLinkDue(fresh, list)
      BY <1>1, <2>1, <3>1 DEF Open
    <3>2. CASE DeepLinkDue(fresh, list)
      <4> HIDE DEF fresh
      <4>1. PICK f \in Defaults : form' = [Reset(fresh, i, f) EXCEPT !.linked = TRUE]
        BY <1>1, <3>2 DEF Open, fresh
      <4>2. i \in Items /\ kind = "provision"
        BY <1>1, <2>1, <3>2 DEF Open, DeepLinkDue, IInv, TypeOK
      <4>3. /\ Shape(Reset(fresh, i, f)) /\ Reset(fresh, i, f).step = 1
            /\ Reset(fresh, i, f).pending = fresh.pending
            /\ Reset(fresh, i, f).error = fresh.error
        BY <2>1, <4>2, ResetShape
      <4>4. /\ Shape(form') /\ form'.step = 1 /\ form'.pending = fresh.pending
            /\ form'.error = fresh.error
        BY <4>1, <4>3, LinkedShape
      <4>5. Checked(form')
        BY <4>4, StepsFacts DEF Checked, Data
      <4> QED BY <2>1, <4>4, <4>5
    <3> QED BY <3>1, <3>2
  <2> QED BY <1>1, <2>2, MountStep DEF Open, Elsewhere
<1>2. CASE EditLoads
  <2> DEFINE g == [s \in 1..Steps |-> IF s \in Data THEN "good" ELSE "bad"]
  <2>1. form' = [Unmounted EXCEPT !.edit = TRUE, !.fields = g]
    BY <1>2 DEF EditLoads
  <2>2. /\ form'.step = 1 /\ form'.alert = 0 /\ form'.reached = 1 /\ ~form'.typed
        /\ form'.fields = g /\ ~form'.pending /\ form'.asking = "no" /\ form'.error = "none"
    BY <2>1 DEF Unmounted
  <2>3. Unmounted \in Forms /\ g \in [1..Steps -> Values]
    BY UnmountedOK DEF Shape, Values
  <2>4. form' \in Forms
    BY <2>1, <2>3 DEF Forms
  <2>5. \A s \in 1..Steps : form'.fields[s] # "lax"
    BY <2>2
  <2>6. Shape(form') /\ Checked(form') /\ ~form'.pending /\ form'.error = "none"
    BY <2>2, <2>4, <2>5, StepsFacts DEF Shape, Checked, Data
  <2> QED BY <1>2, <2>6, MountStep DEF EditLoads
<1> QED BY <1>1, <1>2

\* The leave question opens or closes.
LEMMA AskStep ==
  ASSUME IInv, place = "form", Stay, NEW a \in Elsewhere \cup {"no"},
         a # "no" => ~form.pending /\ (form.typed \/ form.item # None),
         form' = [form EXCEPT !.asking = a]
  PROVE  IInv'
<1>1. form \in Forms
  BY DEF IInv, TypeOK
<1>2. /\ form'.step = form.step /\ form'.alert = form.alert /\ form'.reached = form.reached
      /\ form'.fields = form.fields /\ form'.excused = form.excused
      /\ form'.pending = form.pending /\ form'.typed = form.typed
      /\ form'.item = form.item /\ form'.asking = a
      /\ form'.error = form.error /\ form'.moved = form.moved
  BY <1>1 DEF Forms
<1>3. form' \in Forms
  BY <1>1 DEF Forms
<1>4. Shape(form') /\ Checked(form')
  BY <1>2, <1>3 DEF IInv, Shape, Checked
<1> QED BY <1>2, <1>4, EditStep DEF KeepsOutcome, Stay, IInv, TypeOK

LEMMA LeaveActions ==
  ASSUME IInv,
         \/ RequestClose \/ WalkAway \/ Discard \/ KeepEditing \/ OpenEdit \/ EditFails
         \/ \E p \in {"list", "other"} : Leave(p) \/ LeaveEdit(p)
  PROVE  IInv'
<1>1. CASE RequestClose
  <2>1. CASE form.item # None
    BY <1>1, <2>1, AskStep DEF RequestClose, Elsewhere
  <2>2. CASE form.item = None
    BY <1>1, <2>2, LeaveStep DEF RequestClose, Elsewhere
  <2> QED BY <2>1, <2>2
<1>2. CASE WalkAway
  BY <1>2, LeaveStep DEF WalkAway, Elsewhere
<1>3. CASE Discard
  <2>1. form.asking \in Elsewhere
    BY <1>3 DEF Discard, IInv, TypeOK, Forms
  <2> QED BY <1>3, <2>1, LeaveStep DEF Discard
<1>4. CASE KeepEditing
  BY <1>4, AskStep DEF KeepEditing
<1>5. ASSUME NEW p \in {"list", "other"}, Leave(p) PROVE IInv'
  <2>1. CASE Blocks(form)
    BY <1>5, <2>1, AskStep DEF Leave, Blocks, Elsewhere
  <2>2. CASE ~Blocks(form)
    BY <1>5, <2>2, LeaveStep DEF Leave, Elsewhere
  <2> QED BY <2>1, <2>2
<1>6. CASE OpenEdit \/ EditFails
  BY <1>6, LeaveStep DEF OpenEdit, EditFails
<1>7. ASSUME NEW p \in {"list", "other"}, LeaveEdit(p) PROVE IInv'
  BY <1>7, LeaveStep DEF LeaveEdit, Elsewhere
<1> QED BY <1>1, <1>2, <1>3, <1>4, <1>5, <1>6, <1>7

LEMMA FillActions ==
  ASSUME IInv,
         \/ \E l \in SUBSET Items : ListAnswers(l)
         \/ \E i \in Items : Pick(i)
         \/ \E v \in Values : Type(v)
  PROVE  IInv'
<1>0. form \in Forms /\ Shape(form) /\ Checked(form)
  BY DEF IInv, Shape
<1>1. ASSUME NEW l \in SUBSET Items, ListAnswers(l) PROVE IInv'
  <2>1. CASE ~DeepLinkDue(form, l)
    BY <1>0, <1>1, <2>1, EditStep DEF ListAnswers, KeepsOutcome
  <2>2. CASE DeepLinkDue(form, l)
    <3>1. PICK f \in Defaults :
            form' = Excuse([Reset(form, form.link, f) EXCEPT !.linked = TRUE], form.step > 1)
      BY <1>1, <2>2 DEF ListAnswers
    <3> DEFINE r == Reset(form, form.link, f)
               n == [r EXCEPT !.linked = TRUE]
               late == form.step > 1
    <3>2. form.link \in Items /\ kind = "provision"
      BY <1>1, <2>2 DEF DeepLinkDue, ListAnswers
    <3>3. /\ Shape(r) /\ r.step = form.step /\ r.pending = form.pending
          /\ r.error = form.error /\ r.moved = form.moved
      BY <1>0, <3>2, ResetShape
    <3> HIDE DEF r
    <3>4. /\ Shape(n) /\ n.step = form.step /\ n.pending = form.pending
          /\ n.error = form.error /\ n.moved = form.moved
      BY <3>3, LinkedShape
    <3>5. form' = Excuse(n, late) /\ late \in BOOLEAN
      BY <3>1 DEF r
    <3> HIDE DEF n, late
    <3>6. /\ Shape(form') /\ form'.step = form.step /\ form'.pending = form.pending
          /\ form'.excused = (n.excused \/ late) /\ KeepsOutcome
      BY <3>4, <3>5, ExcuseShape DEF KeepsOutcome
    <3>7. CASE late
      BY <1>1, <3>6, <3>7, EditStep DEF ListAnswers, Checked
    <3>8. CASE ~late
      <4>1. form'.step = 1
        BY <1>0, <3>6, <3>8, StepsFacts DEF late, Forms
      <4>2. Checked(form')
        BY <4>1, StepsFacts DEF Checked, Data
      <4> QED BY <1>1, <3>6, <4>2, EditStep DEF ListAnswers
    <3> QED BY <3>7, <3>8
  <2> QED BY <2>1, <2>2
<1>2. ASSUME NEW i \in Items, Pick(i) PROVE IInv'
  <2>1. PICK f \in Defaults : form' = Reset(form, i, f)
    BY <1>2 DEF Pick
  <2>2. Shape(form') /\ form'.step = 1 /\ KeepsOutcome
    BY <1>0, <1>2, <2>1, ResetShape DEF Pick, KeepsOutcome
  <2>3. Checked(form')
    BY <2>2, StepsFacts DEF Checked, Data
  <2> QED BY <1>2, <2>2, <2>3, EditStep DEF Pick, Stay, IInv, TypeOK
<1>3. ASSUME NEW v \in Values, Type(v) PROVE IInv'
  <2> DEFINE k == form.step
             fs == [form.fields EXCEPT ![k] = v]
  <2>1. k \in 1..Steps /\ k \in Data /\ form.fields \in [1..Steps -> Values]
    BY <1>0, <1>3 DEF Type, Forms
  <2>2. fs \in [1..Steps -> Values] /\ \A s \in 1..Steps : fs[s] = IF s = k THEN v ELSE form.fields[s]
    BY <2>1
  <2> HIDE DEF fs
  <2>3. form' = [form EXCEPT !.fields = fs, !.typed = TRUE]
    BY <1>0, <1>3 DEF Type, fs, Forms
  <2>4. /\ form'.step = form.step /\ form'.alert = form.alert /\ form'.reached = form.reached
        /\ form'.fields = fs /\ form'.excused = form.excused
        /\ form'.pending = form.pending /\ form'.typed = TRUE
        /\ form'.item = form.item /\ form'.asking = form.asking
        /\ form'.error = form.error /\ form'.moved = form.moved
    BY <1>0, <2>3 DEF Forms
  <2>5. form' \in Forms
    BY <1>0, <2>2, <2>3 DEF Forms
  <2>6. kind = "provision" => k > 1
    BY <2>1, StepsFacts DEF Data
  <2>7. \A s \in Data : s < k => fs[s] = form.fields[s]
    BY <2>1, <2>2, StepsFacts
  <2>8. kind = "resource" => v # "lax"
    BY <1>3 DEF Type
  <2>9. Shape(form')
    <3>1. kind = "resource" => \A s \in 1..Steps : form'.fields[s] # "lax"
      BY <1>0, <2>2, <2>4, <2>8 DEF Shape
    <3>2. kind = "provision" => form.item # None
      BY <1>0, <2>1, <2>6 DEF Shape
    <3> QED BY <1>0, <1>3, <2>4, <2>5, <3>1, <3>2 DEF Shape, Type
  <2>10. Checked(form')
    BY <1>0, <2>4, <2>7 DEF Checked
  <2> QED BY <1>3, <2>4, <2>9, <2>10, EditStep DEF KeepsOutcome, Type, Stay, IInv, TypeOK
<1> QED BY <1>1, <1>2, <1>3

\* The form shows an alert, or that its item is unknown.
LEMMA TellStep ==
  ASSUME IInv, place = "form", Stay, NEW a \in {0, form.step}, NEW e,
         e = form.error \/ (e = "item" /\ ~form.pending),
         form' = [form EXCEPT !.alert = a, !.error = e]
  PROVE  IInv'
<1>1. form \in Forms
  BY DEF IInv, TypeOK
<1>2. /\ form'.step = form.step /\ form'.alert = a /\ form'.reached = form.reached
      /\ form'.fields = form.fields /\ form'.excused = form.excused
      /\ form'.pending = form.pending /\ form'.typed = form.typed
      /\ form'.item = form.item /\ form'.asking = form.asking
      /\ form'.error = e /\ form'.moved = form.moved
  BY <1>1 DEF Forms
<1>3. form' \in Forms
  <2>1. a \in 0..Steps
    BY <1>1, StepsFacts DEF Forms
  <2> QED BY <1>1, <2>1 DEF Forms, Errors
<1>4. Shape(form') /\ Checked(form')
  BY <1>2, <1>3 DEF IInv, Shape, Checked
<1> QED BY <1>2, <1>4, EditStep DEF KeepsOutcome, Stay, IInv, TypeOK

LEMMA StepActions ==
  ASSUME IInv, NextStep \/ BackStep \/ \E s \in 1..Steps : Jump(s)
  PROVE  IInv'
<1>0. /\ form \in Forms /\ Shape(form) /\ Checked(form)
      /\ form.step \in 1..Steps /\ form.alert \in 0..Steps
      /\ form.excused \in BOOLEAN
  BY DEF IInv, Shape, Forms
<1>1. CASE NextStep
  <2>1. CASE StepPasses(form.step)
    <3> DEFINE why == form.step \in Data /\ ~Strict(form.step)
               m == Moved(form, form.step + 1)
    <3>1. form.step + 1 \in 1..Steps /\ form.step \in Nat
      BY <1>0, <1>1, StepsFacts DEF NextStep, Review
    <3>2. kind = "provision" => form.item # None
      BY <1>0, <1>1, <2>1, StepsFacts DEF StepPasses, NextStep, Shape, Data
    <3>3. /\ Shape(m) /\ m.fields = form.fields /\ m.step = form.step + 1
          /\ m.excused = form.excused /\ m.pending = form.pending
          /\ m.error = "none" /\ m.moved
      BY <1>0, <1>1, <3>1, <3>2, MovedShape DEF NextStep
    <3>4. form' = Excuse(m, why) /\ why \in BOOLEAN
      BY <1>1, <2>1 DEF NextStep
    <3> HIDE DEF m, why
    <3>5. /\ Shape(form') /\ form'.fields = form.fields /\ form'.step = form.step + 1
          /\ form'.excused = (form.excused \/ why) /\ KeepsOutcome
      BY <3>3, <3>4, ExcuseShape DEF KeepsOutcome
    <3>6. Checked(form')
      <4> SUFFICES ASSUME kind = "provision", ~form'.excused, NEW s \in Data, s < form'.step
                   PROVE  form'.fields[s] = "good"
        BY DEF Checked
      <4>1. ~form.excused /\ ~why
        BY <1>0, <3>4, <3>5
      <4>2. CASE s = form.step
        BY <3>5, <4>1, <4>2 DEF why, Strict
      <4>3. CASE s < form.step
        BY <1>0, <3>5, <4>1, <4>3 DEF Checked
      <4>4. s \in Nat
        BY StepsFacts
      <4> QED BY <3>1, <3>5, <4>2, <4>3, <4>4
    <3> QED BY <1>1, <3>5, <3>6, EditStep DEF NextStep, Stay, IInv, TypeOK
  <2>2. CASE ~StepPasses(form.step)
    <3>1. form' = [form EXCEPT !.alert = form.step, !.error = form.error]
      BY <1>0, <1>1, <2>2 DEF NextStep, Forms
    <3> QED BY <1>0, <1>1, <3>1, TellStep DEF NextStep
  <2> QED BY <2>1, <2>2
<1>2. CASE BackStep
  <2> DEFINE m == Moved(form, form.step - 1)
  <2>1. form.step - 1 \in 1..Steps /\ form.step \in Nat /\ form.step > 1
    BY <1>0, <1>2, StepsFacts DEF BackStep
  <2>2. kind = "provision" => form.item # None
    BY <1>0, <2>1 DEF Shape
  <2>3. /\ Shape(m) /\ m.fields = form.fields /\ m.step = form.step - 1
        /\ m.excused = form.excused /\ m.pending = form.pending
        /\ m.error = "none" /\ m.moved
    BY <1>0, <1>2, <2>1, <2>2, MovedShape DEF BackStep
  <2>4. form' = m
    BY <1>2 DEF BackStep
  <2> HIDE DEF m
  <2>5. Checked(form')
    <3> SUFFICES ASSUME kind = "provision", ~form'.excused, NEW s \in Data, s < form'.step
                 PROVE  form'.fields[s] = "good"
      BY DEF Checked
    <3>1. s \in Nat
      BY StepsFacts
    <3>2. form'.step = form.step - 1
      BY <2>3, <2>4
    <3>3. s < form.step
      BY <2>1, <3>1, <3>2
    <3> QED BY <1>0, <2>3, <2>4, <3>3 DEF Checked
  <2> QED BY <1>2, <2>3, <2>4, <2>5, EditStep DEF KeepsOutcome, BackStep, Stay, IInv, TypeOK
<1>3. ASSUME NEW s \in 1..Steps, Jump(s) PROVE IInv'
  <2> DEFINE why == \E k \in Data : form.step <= k /\ k < s /\ ~Strict(k)
             m == Moved(form, s)
  <2>1. kind = "provision" => form.item # None
    <3>1. form.step > 1 \/ form.reached > 1
      BY <1>0, <1>3, StepsFacts DEF Jump, Forms
    <3> QED BY <1>0, <3>1 DEF Shape
  <2>2. /\ Shape(m) /\ m.fields = form.fields /\ m.step = s
        /\ m.excused = form.excused /\ m.pending = form.pending
        /\ m.error = "none" /\ m.moved
    BY <1>0, <1>3, <2>1, MovedShape DEF Jump
  <2>3. form' = Excuse(m, why) /\ why \in BOOLEAN
    BY <1>3 DEF Jump
  <2> HIDE DEF m, why
  <2>4. /\ Shape(form') /\ form'.fields = form.fields /\ form'.step = s
        /\ form'.excused = (form.excused \/ why) /\ KeepsOutcome
    BY <2>2, <2>3, ExcuseShape DEF KeepsOutcome
  <2>5. Checked(form')
    <3> SUFFICES ASSUME kind = "provision", ~form'.excused, NEW k \in Data, k < form'.step
                 PROVE  form'.fields[k] = "good"
      BY DEF Checked
    <3>1. ~form.excused /\ ~why
      BY <1>0, <2>3, <2>4
    <3>2. CASE form.step <= k
      BY <2>4, <3>1, <3>2 DEF why, Strict
    <3>3. CASE k < form.step
      BY <1>0, <2>4, <3>1, <3>3 DEF Checked
    <3>4. k \in Nat
      BY StepsFacts
    <3> QED BY <1>0, <3>2, <3>3, <3>4
  <2> QED BY <1>3, <2>4, <2>5, EditStep DEF Jump, Stay, IInv, TypeOK
<1> QED BY <1>1, <1>2, <1>3

LEMMA CreateActions ==
  ASSUME IInv, CreateProvisioned \/ SubmitResource
  PROVE  IInv'
<1>0. form \in Forms /\ form.alert \in {0, form.step}
  BY DEF IInv, Shape, Forms
<1>1. CASE CreateProvisioned
  <2>1. CASE form.item \in list
    BY <1>1, <2>1, SendStep DEF CreateProvisioned
  <2>2. CASE form.item \notin list
    <3>1. form' = [form EXCEPT !.alert = form.alert, !.error = "item"]
      BY <1>0, <1>1, <2>2 DEF CreateProvisioned, Forms
    <3> QED BY <1>0, <1>1, <2>2, <3>1, TellStep DEF CreateProvisioned
  <2> QED BY <2>1, <2>2
<1>2. CASE SubmitResource
  <2>1. CASE \A s \in Data : StepPasses(s)
    BY <1>2, <2>1, SendStep DEF SubmitResource
  <2>2. CASE ~ \A s \in Data : StepPasses(s)
    <3>1. form' = [form EXCEPT !.alert = form.step, !.error = form.error]
      BY <1>0, <1>2, <2>2 DEF SubmitResource, Forms
    <3> QED BY <1>0, <1>2, <2>2, <3>1, TellStep DEF SubmitResource
  <2> QED BY <2>1, <2>2
<1> QED BY <1>1, <1>2

\* The service moves a request on; no form hears of it.
LEMMA ServiceStep ==
  ASSUME IInv, NEW v \in Visits, Apply(v) \/ Refuse(v)
  PROVE  IInv'
<1>0. /\ req \in [Visits -> InFlight \cup {"none", "done", "failed"}] /\ req[v] = "sent"
      /\ made \in [Visits -> 0..2] /\ made[v] \in 0..2 /\ form' = form /\ kind' = kind
  BY DEF IInv, TypeOK, Apply, Refuse
<1>1. /\ req' \in [Visits -> InFlight \cup {"none", "done", "failed"}]
      /\ \A w \in Visits : req'[w] = IF w = v THEN req'[v] ELSE req[w]
      /\ req'[v] \in {"applied", "refused"}
  BY <1>0 DEF Apply, Refuse, InFlight
<1>2. /\ made' \in [Visits -> 0..2]
      /\ \A w \in Visits : w # v => made'[w] = made[w]
      /\ req'[v] = "refused" => made'[v] = made[v]
      /\ req'[v] = "applied" /\ made[v] = 0 => made'[v] = 1
  <2>1. CASE Apply(v)
    BY <1>0, <2>1 DEF Apply
  <2>2. CASE Refuse(v)
    BY <1>0, <2>2 DEF Refuse
  <2> QED BY <2>1, <2>2
<1>3. TypeOK'
  BY <1>1, <1>2 DEF IInv, TypeOK, Apply, Refuse
<1>4. Shape(form)' /\ Checked(form)'
  BY <1>0 DEF IInv, Shape, Checked, Data
<1>5. UNCHANGED <<place, visit, misled>>
  BY DEF Apply, Refuse
<1>6. Waiting'
  <2>1. v <= visit
    BY <1>0 DEF IInv, TypeOK, Waiting, Visits
  <2>2. \A w \in Visits : w > visit => req'[w] = "none"
    BY <1>1, <2>1 DEF IInv, TypeOK, Waiting, Visits
  <2>3. place = "form" =>
          /\ req'[visit] # "done" /\ (form.pending <=> req'[visit] \in InFlight)
          /\ form.error = "create" => req'[visit] = "failed"
          /\ req'[visit] = "failed" /\ ~form.moved => form.error # "none"
    BY <1>0, <1>1 DEF IInv, TypeOK, Waiting, Visits, InFlight
  <2>4. \A w \in Visits : \/ misled[w]
                          \/ made'[w] = 0 /\ req'[w] \in {"none", "sent", "refused", "failed"}
                          \/ made'[w] = 1 /\ req'[w] \in {"applied", "done"}
    BY <1>0, <1>1, <1>2 DEF IInv, Waiting
  <2> QED BY <1>0, <1>5, <2>2, <2>3, <2>4 DEF IInv, Waiting
<1> QED BY <1>3, <1>4, <1>6 DEF IInv

LEMMA SuccessStep ==
  ASSUME IInv, NEW v \in Visits, Succeeds(v)
  PROVE  IInv'
<1>1. CASE ~(place = "form" /\ Blocks(form))
  BY <1>1, LeaveStep DEF Succeeds, Elsewhere
<1>2. CASE place = "form" /\ Blocks(form)
  <2>0. /\ form \in Forms /\ ~form.pending /\ form.typed /\ kind' = kind
        /\ req \in [Visits -> InFlight \cup {"none", "done", "failed"}] /\ req[v] = "applied"
    BY <1>2 DEF IInv, TypeOK, Succeeds, Blocks
  <2>1. form' = [form EXCEPT !.asking = "detail"]
    BY <1>2 DEF Succeeds
  <2>2. /\ form'.step = form.step /\ form'.alert = form.alert /\ form'.reached = form.reached
        /\ form'.fields = form.fields /\ form'.excused = form.excused
        /\ form'.pending = form.pending /\ form'.typed = form.typed
        /\ form'.item = form.item /\ form'.asking = "detail"
        /\ form'.error = form.error /\ form'.moved = form.moved
    BY <2>0, <2>1 DEF Forms
  <2>3. form' \in Forms
    BY <2>0, <2>1 DEF Forms, Elsewhere
  <2>4. Shape(form)' /\ Checked(form)'
    BY <2>0, <2>2, <2>3 DEF IInv, Shape, Checked, Data
  <2>5. /\ req' \in [Visits -> InFlight \cup {"none", "done", "failed"}]
        /\ \A w \in Visits : req'[w] = IF w = v THEN "done" ELSE req[w]
    BY <2>0 DEF Succeeds
  <2>6. UNCHANGED <<list, place, visit, made, misled>>
    BY <1>2 DEF Succeeds
  <2>7. TypeOK'
    BY <2>0, <2>3, <2>5, <2>6 DEF IInv, TypeOK
  <2>8. v # visit /\ v <= visit
    BY <1>2, <2>0 DEF IInv, TypeOK, Waiting, Visits, InFlight
  <2>9. Waiting'
    <3>1. \A w \in Visits : w > visit => req'[w] = "none"
      BY <2>5, <2>8 DEF IInv, TypeOK, Waiting, Visits
    <3>2. /\ visit # 0 /\ req'[visit] # "done" /\ (form'.pending <=> req'[visit] \in InFlight)
          /\ form'.error = "create" => req'[visit] = "failed"
          /\ req'[visit] = "failed" /\ ~form'.moved => form'.error # "none"
      BY <1>2, <2>2, <2>5, <2>8, WizardAssumption DEF IInv, TypeOK, Waiting, Visits
    <3>3. \A w \in Visits : \/ misled[w]
                            \/ made[w] = 0 /\ req'[w] \in {"none", "sent", "refused", "failed"}
                            \/ made[w] = 1 /\ req'[w] \in {"applied", "done"}
      BY <2>0, <2>5 DEF IInv, Waiting
    <3> QED BY <1>2, <2>6, <3>1, <3>2, <3>3 DEF Waiting
  <2> QED BY <2>4, <2>7, <2>9 DEF IInv
<1> QED BY <1>1, <1>2

LEMMA FailureStep ==
  ASSUME IInv, NEW v \in Visits, Fails(v)
  PROVE  IInv'
<1>0. /\ form \in Forms /\ kind' = kind /\ UNCHANGED <<list, place, visit, made>>
      /\ req \in [Visits -> InFlight \cup {"none", "done", "failed"}]
      /\ req[v] \in {"refused", "applied"} /\ misled \in [Visits -> BOOLEAN]
  BY DEF IInv, TypeOK, Fails
<1>1. /\ form' \in Forms
      /\ form'.step = form.step /\ form'.alert = form.alert /\ form'.reached = form.reached
      /\ form'.fields = form.fields /\ form'.excused = form.excused
      /\ form'.typed = form.typed /\ form'.item = form.item /\ form'.asking = form.asking
      /\ form'.pending = IF place = "form" /\ visit = v THEN FALSE ELSE form.pending
      /\ form'.error = IF place = "form" /\ visit = v THEN Outcome ELSE form.error
      /\ form'.moved = form.moved
      /\ place # "form" => form' = form
  <2>1. CASE place = "form" /\ visit = v
    <3>1. form' = [form EXCEPT !.pending = FALSE, !.error = Outcome] /\ Outcome \in Errors
      BY <2>1 DEF Fails, Outcome, Errors
    <3> QED BY <1>0, <2>1, <3>1 DEF Forms
  <2>2. CASE ~(place = "form" /\ visit = v)
    BY <1>0, <2>2 DEF Fails
  <2> QED BY <2>1, <2>2
<1>2. /\ req' \in [Visits -> InFlight \cup {"none", "done", "failed"}]
      /\ \A w \in Visits : req'[w] = IF w = v THEN "failed" ELSE req[w]
  BY <1>0 DEF Fails
<1>3. /\ misled' \in [Visits -> BOOLEAN]
      /\ \A w \in Visits : misled[w] => misled'[w]
      /\ req[v] = "applied" => misled'[v]
  BY <1>0 DEF Fails
<1>4. TypeOK'
  BY <1>0, <1>1, <1>2, <1>3 DEF IInv, TypeOK
<1>5. Shape(form)' /\ Checked(form)'
  <2>1. place = "form" /\ visit = v => form.pending
    BY <1>0 DEF IInv, Waiting, InFlight
  <2>2. kind = "resource" /\ Outcome = "create" => ~form.moved
    BY DEF Outcome
  <2>3. kind = "resource" /\ form'.error = "create" => form'.step = Review
    BY <1>0, <1>1, <2>1, <2>2 DEF IInv, Shape
  <2>4. form'.pending => form.pending /\ form'.error = form.error
    BY <1>0, <1>1 DEF IInv, TypeOK, Forms
  <2> QED BY <1>0, <1>1, <2>3, <2>4 DEF IInv, Shape, Checked, Data
<1>6. Waiting'
  <2>1. v <= visit
    BY <1>0 DEF IInv, TypeOK, Waiting, Visits
  <2>2. \A w \in Visits : w > visit => req'[w] = "none"
    BY <1>2, <2>1 DEF IInv, TypeOK, Waiting, Visits
  <2>3. place = "form" =>
          /\ visit # 0 /\ req'[visit] # "done" /\ (form'.pending <=> req'[visit] \in InFlight)
          /\ form'.error = "create" => req'[visit] = "failed"
          /\ req'[visit] = "failed" /\ ~form'.moved => form'.error # "none"
    BY <1>1, <1>2, WizardAssumption DEF IInv, TypeOK, Waiting, Visits, InFlight, Outcome
  <2>4. \A w \in Visits : \/ misled'[w]
                          \/ made[w] = 0 /\ req'[w] \in {"none", "sent", "refused", "failed"}
                          \/ made[w] = 1 /\ req'[w] \in {"applied", "done"}
    BY <1>0, <1>2, <1>3 DEF IInv, Waiting
  <2> QED BY <1>0, <1>1, <2>2, <2>3, <2>4 DEF IInv, Waiting
<1> QED BY <1>4, <1>5, <1>6 DEF IInv

-----------------------------------------------------------------------------
(* The invariant *)

LEMMA InitIInv == Init => IInv
<1> SUFFICES ASSUME Init PROVE IInv
  OBVIOUS
<1>1. Shape(form) /\ Checked(form) /\ form \in Forms
  BY UnmountedOK DEF Init, Shape
<1>2. TypeOK
  BY <1>1, WizardAssumption DEF Init, TypeOK, Elsewhere, InFlight
<1>3. Waiting
  BY DEF Init, Waiting
<1> QED BY <1>1, <1>2, <1>3 DEF IInv

LEMMA StepIInv == IInv /\ [Next]_vars => IInv'
<1> SUFFICES ASSUME IInv, [Next]_vars PROVE IInv'
  OBVIOUS
<1>1. CASE UNCHANGED vars
  BY <1>1 DEF vars, IInv, TypeOK, Shape, Checked, Waiting, Data
<1>2. CASE Next
  <2>1. ASSUME NEW v \in Visits, Answer(v) PROVE IInv'
    BY <2>1, ServiceStep, SuccessStep, FailureStep DEF Answer
  <2> QED BY <1>2, <2>1, MountActions, LeaveActions, FillActions, StepActions, CreateActions
          DEF Next
<1> QED BY <1>1, <1>2

LEMMA IInvAlways == Spec => []IInv
<1> QED BY InitIInv, StepIInv, PTL DEF Spec

-----------------------------------------------------------------------------
(* Theorems *)

\* Every reachable state of either shell is a form, a place, a list and requests.
THEOREM TypeCorrect == Spec => []TypeOK
<1>1. IInv => TypeOK
  BY DEF IInv
<1> QED BY <1>1, IInvAlways, PTL

\* The lock, the leave question, the alert and the typed values agree with the
\* request under way, the step shown and the item chosen.
THEOREM FormIsConsistentThm == Spec => []FormIsConsistent
<1>1. IInv => FormIsConsistent
  <2> SUFFICES ASSUME IInv PROVE FormIsConsistent
    OBVIOUS
  <2>1. LockedWhileCreating
    BY DEF IInv, Waiting, LockedWhileCreating
  <2>2. AskedOnlyAtRest /\ AlertIsOfThisStep /\ TypedHasItem
    BY DEF IInv, Shape, AskedOnlyAtRest, AlertIsOfThisStep, TypedHasItem
  <2> QED BY <2>1, <2>2 DEF FormIsConsistent
<1> QED BY <1>1, IInvAlways, PTL

\* Without a lost answer, one visit of a form makes at most one resource.
THEOREM OneResourcePerVisitThm == Spec => []OneResourcePerVisit
<1>1. IInv => OneResourcePerVisit
  BY DEF IInv, Waiting, OneResourcePerVisit
<1> QED BY <1>1, IInvAlways, PTL

LEMMA SentChecked ==
  ASSUME IInv, Next, NEW v \in Visits, req[v] # "sent", req'[v] = "sent"
  PROVE  (\A s \in Data : Strict(s)) \/ (kind = "provision" /\ form.excused)
<1>0. /\ form \in Forms /\ req \in [Visits -> InFlight \cup {"none", "done", "failed"}]
      /\ kind \in {"provision", "resource"}
  BY DEF IInv, TypeOK
<1>1. Send /\ (CreateProvisioned \/ SubmitResource)
  <2>1. ~ UNCHANGED req
    OBVIOUS
  <2>2. \A w \in Visits : ~Answer(w)
    BY <1>0 DEF Answer, Apply, Refuse, Succeeds, Fails
  <2>3. CreateProvisioned \/ SubmitResource
    BY <2>1, <2>2 DEF Next, Open, OpenEdit, EditLoads, EditFails, LeaveEdit, RequestClose,
       WalkAway, Discard, KeepEditing, Leave, ListAnswers, Pick, Type, NextStep, BackStep, Jump, Stay
  <2> QED BY <2>1, <2>3 DEF CreateProvisioned, SubmitResource, Stay
<1>2. CASE CreateProvisioned
  <2>1. kind = "provision" /\ form.step = Steps
    BY <1>2 DEF CreateProvisioned, Review
  <2>2. CASE form.excused
    BY <2>1, <2>2
  <2>3. CASE ~form.excused
    <3>1. \A s \in Data : s < Steps
      BY <2>1, StepsFacts DEF Data
    <3> QED BY <2>1, <2>3, <3>1 DEF IInv, Checked, Strict
  <2> QED BY <2>2, <2>3
<1>3. CASE SubmitResource
  <2>1. kind = "resource"
    BY <1>3 DEF SubmitResource
  <2>2. \A s \in Data : StepPasses(s)
    <3>1. req' # req
      OBVIOUS
    <3> QED BY <1>3, <3>1 DEF SubmitResource, Stay
  <2>3. \A s \in Data : s # Review /\ s \in 1..Steps
    BY <2>1, StepsFacts DEF Data, Review
  <2> QED BY <2>1, <2>2, <2>3 DEF StepPasses, Strict, IInv, Shape
<1> QED BY <1>1, <1>2, <1>3

\* A create of a resource wizard sends checked values only; one of a provisioning
\* wizard does unless one of the ways around its checks was taken.
THEOREM SentValuesAreValidThm == Spec => SentValuesAreValid
<1>1. IInv /\ [Next]_vars =>
        [\A v \in Visits : (req[v] # "sent" /\ req'[v] = "sent") =>
           (\A s \in Data : Strict(s)) \/ (kind = "provision" /\ form.excused)]_vars
  <2> SUFFICES ASSUME IInv, Next, NEW v \in Visits, req[v] # "sent", req'[v] = "sent"
               PROVE  (\A s \in Data : Strict(s)) \/ (kind = "provision" /\ form.excused)
    OBVIOUS
  <2> QED BY SentChecked
<1> QED BY <1>1, IInvAlways, PTL DEF Spec, SentValuesAreValid

\* A form tells of its own last create, until the step changes, and of no other.
THEOREM ErrorIsCurrentThm == Spec => []ErrorIsCurrent
<1>1. IInv => ErrorIsCurrent
  BY DEF IInv, Shape, Waiting, ErrorIsCurrent
<1> QED BY <1>1, IInvAlways, PTL

\* The ways in which typed values go, with the form there or with the page.
KeptIn == \/ kind = "provision" /\ form.step = 1
          \/ form'.linked /\ ~form.linked
LeftFor(p) ==
  CASE p = "list" -> form.asking = "list" \/ (kind = "resource" /\ form.pending)
    [] p = "detail" -> \/ req[visit] = "applied" \/ form.asking = "detail"
                       \/ \E v \in 1..(visit - 1) :
                            req[v] = "applied" /\ (kind = "provision" \/ form.pending)
    [] p = "other" -> form.asking = "other" \/ kind = "provision" \/ form.pending
    [] p = "edit" -> form.edit

\* A step that leaves the form does so for one of the stated reasons.
LEMMA TypedLeaves ==
  ASSUME IInv, form.typed, NEW p \in Elsewhere \cup {"edit"}, GoTo(p), place = "form",
         \/ RequestClose \/ WalkAway \/ Discard \/ EditFails
         \/ \E q \in {"list", "other"} : Leave(q)
         \/ \E v \in Visits : Succeeds(v)
  PROVE  LeftFor(p)
<1>0. /\ form \in Forms /\ kind \in {"provision", "resource"} /\ place' = p
      /\ kind = "provision" => form.item # None
  BY DEF IInv, TypeOK, Shape, GoTo
<1>1. CASE RequestClose
  <2>1. form' # form
    BY <1>0 DEF GoTo, Unmounted
  <2>2. place' # "form"
    BY <1>0 DEF Elsewhere
  <2> QED BY <1>0, <1>1, <2>2 DEF RequestClose, Stay
<1>2. CASE WalkAway
  BY <1>0, <1>2 DEF WalkAway, GoTo, LeftFor
<1>3. CASE Discard
  <2>1. p = form.asking /\ p \in {"list", "detail", "other"}
    BY <1>0, <1>3 DEF Discard, GoTo, Forms, Elsewhere
  <2> QED BY <2>1 DEF LeftFor
<1>4. ASSUME NEW q \in {"list", "other"}, Leave(q) PROVE LeftFor(p)
  <2>1. kind = "resource" /\ form.asking = "no" /\ place' # "form"
    BY <1>0, <1>4 DEF Leave, Elsewhere
  <2>2. ~Blocks(form) /\ q = p
    BY <1>0, <1>4, <2>1 DEF Leave, Stay, GoTo
  <2> QED BY <1>4, <2>1, <2>2 DEF Blocks, LeftFor
<1>5. ASSUME NEW v \in Visits, Succeeds(v) PROVE LeftFor(p)
  <2>1. ~Blocks(form) /\ p = "detail" /\ req[v] = "applied"
    BY <1>0, <1>5 DEF Succeeds, GoTo, Elsewhere
  <2>2. visit \in 0..MaxVisits /\ ~(v > visit)
    BY <2>1 DEF IInv, TypeOK, Waiting
  <2>3. CASE v = visit
    BY <2>1, <2>3 DEF LeftFor
  <2>4. CASE v # visit
    <3>1. v \in 1..(visit - 1)
      BY <2>2, <2>4, WizardAssumption DEF Visits
    <3>2. kind = "provision" \/ form.pending
      BY <1>0, <2>1 DEF Blocks
    <3> QED BY <2>1, <3>1, <3>2 DEF LeftFor
  <2> QED BY <2>3, <2>4
<1>6. CASE EditFails
  BY <1>0, <1>6 DEF EditFails, GoTo, LeftFor
<1> QED BY <1>1, <1>2, <1>3, <1>4, <1>5, <1>6

\* What keeps the form on the screen keeps what was typed, but for a pick and
\* the deep link.
LEMMA TypedStays ==
  ASSUME IInv, Next, form.typed, ~form'.typed, place = "form", place' = "form"
  PROVE  KeptIn
<1>0. form \in Forms
  BY DEF IInv, TypeOK
<1>1. ASSUME NEW l \in SUBSET Items, ListAnswers(l) PROVE KeptIn
  <2>1. DeepLinkDue(form, l)
    BY <1>1 DEF ListAnswers
  <2>2. PICK f \in Defaults :
          form' = Excuse([Reset(form, form.link, f) EXCEPT !.linked = TRUE], form.step > 1)
    BY <1>1, <2>1 DEF ListAnswers
  <2>3. form'.linked /\ ~form.linked
    BY <1>0, <2>1, <2>2 DEF Excuse, Reset, DeepLinkDue, Forms
  <2> QED BY <2>3 DEF KeptIn
<1>2. ASSUME NEW i \in Items, Pick(i) PROVE KeptIn
  BY <1>2 DEF Pick, KeptIn
<1>3. ASSUME NEW v \in Values, Type(v) PROVE FALSE
  BY <1>0, <1>3 DEF Type, Forms
<1>4. CASE RequestClose \/ KeepEditing
  <2>1. PICK a \in Elsewhere \cup {"no"} : form' = [form EXCEPT !.asking = a]
    BY <1>4 DEF RequestClose, KeepEditing, GoTo, Elsewhere
  <2> QED BY <1>0, <2>1 DEF Forms
<1>5. ASSUME NEW q \in {"list", "other"}, Leave(q) PROVE FALSE
  <2>1. form' = [form EXCEPT !.asking = q]
    BY <1>5 DEF Leave, GoTo
  <2> QED BY <1>0, <2>1 DEF Forms
<1>6. CASE WalkAway \/ Discard
  <2>1. form.asking \in Elsewhere \cup {"no"}
    BY <1>0 DEF Forms
  <2> QED BY <1>6, <2>1 DEF WalkAway, Discard, GoTo, Elsewhere
<1>7. CASE NextStep \/ BackStep \/ \E s \in 1..Steps : Jump(s)
  <2>1. \A s : Moved(form, s).typed = form.typed
    BY <1>0 DEF Moved, Forms
  <2>2. ASSUME NEW s, NEW why, form' = Excuse(Moved(form, s), why) PROVE FALSE
    BY <1>0, <2>2 DEF Excuse, Moved, Forms
  <2>3. form' # [form EXCEPT !.alert = form.step]
    BY <1>0 DEF Forms
  <2>4. CASE NextStep
    BY <2>2, <2>3, <2>4 DEF NextStep
  <2>5. CASE BackStep
    BY <2>1, <2>5 DEF BackStep
  <2>6. ASSUME NEW s \in 1..Steps, Jump(s) PROVE FALSE
    BY <2>2, <2>6 DEF Jump
  <2> QED BY <1>7, <2>4, <2>5, <2>6
<1>8. CASE CreateProvisioned \/ SubmitResource
  <2>1. [form EXCEPT !.pending = TRUE, !.error = "none", !.moved = FALSE].typed = form.typed
    BY <1>0 DEF Forms
  <2>2. /\ [form EXCEPT !.error = "item"].typed = form.typed
        /\ [form EXCEPT !.alert = form.step].typed = form.typed
    BY <1>0 DEF Forms
  <2> QED BY <1>8, <2>1, <2>2 DEF CreateProvisioned, SubmitResource, Send
<1>9. ASSUME NEW v \in Visits, Answer(v) PROVE FALSE
  <2>1. CASE Apply(v) \/ Refuse(v)
    BY <2>1 DEF Apply, Refuse
  <2>2. CASE Succeeds(v)
    <3>1. form' = [form EXCEPT !.asking = "detail"]
      BY <2>2 DEF Succeeds, GoTo
    <3> QED BY <1>0, <3>1 DEF Forms
  <2>3. CASE Fails(v)
    <3>1. \/ form' = form
          \/ \E e \in Errors : form' = [form EXCEPT !.pending = FALSE, !.error = e]
      BY <2>3 DEF Fails, Outcome, Errors
    <3> QED BY <1>0, <3>1 DEF Forms
  <2> QED BY <1>9, <2>1, <2>2, <2>3 DEF Answer
<1>10. CASE \/ OpenEdit \/ EditLoads \/ EditFails
            \/ \E i \in Items \cup {None} : Open(i)
            \/ \E q \in {"list", "other"} : LeaveEdit(q)
  BY <1>10 DEF OpenEdit, EditLoads, EditFails, LeaveEdit, Open, GoTo, Elsewhere
<1>11. /\ ~ \E v \in Values : Type(v)
       /\ ~ \E q \in {"list", "other"} : Leave(q)
       /\ ~ \E v \in Visits : Answer(v)
  BY <1>3, <1>5, <1>9
<1>12. (\E l \in SUBSET Items : ListAnswers(l)) \/ (\E i \in Items : Pick(i)) => KeptIn
  BY <1>1, <1>2
<1> QED BY <1>4, <1>6, <1>7, <1>8, <1>10, <1>11, <1>12 DEF Next

\* Typed values are given up only in the open.
THEOREM TypedWorkIsKeptThm == Spec => TypedWorkIsKept
<1> DEFINE Kept == form.typed /\ ~form'.typed =>
       CASE place' = "form" -> \/ kind = "provision" /\ form.step = 1
                               \/ form'.linked /\ ~form.linked
         [] place' = "list" -> form.asking = "list" \/ (kind = "resource" /\ form.pending)
         [] place' = "detail" -> \/ req[visit] = "applied" \/ form.asking = "detail"
                                 \/ \E v \in 1..(visit - 1) :
                                      req[v] = "applied" /\ (kind = "provision" \/ form.pending)
         [] place' = "other" -> form.asking = "other" \/ kind = "provision" \/ form.pending
         [] place' = "edit" -> form.edit
<1>1. IInv /\ [Next]_vars => [Kept]_vars
  <2> SUFFICES ASSUME IInv, Next, form.typed, ~form'.typed PROVE Kept
    OBVIOUS
  <2>1. place = "form" /\ place' \in Elsewhere \cup {"edit", "form"} /\ form \in Forms
    BY UnmountedOK, StepIInv DEF IInv, Waiting, TypeOK
  <2>2. CASE place' = "form"
    BY <2>1, <2>2, TypedStays DEF KeptIn
  <2>3. CASE place' # "form"
    <3>1. \/ RequestClose \/ WalkAway \/ Discard \/ EditFails
          \/ \E q \in {"list", "other"} : Leave(q)
          \/ \E v \in Visits : Succeeds(v)
      BY <2>1, <2>3 DEF Next, Open, OpenEdit, EditLoads, LeaveEdit, KeepEditing, ListAnswers, Pick, Type,
         NextStep, BackStep, Elsewhere, Jump, Stay, CreateProvisioned, SubmitResource, Send, Answer, Apply, Refuse, Fails
    <3>2. GoTo(place') /\ place' \in Elsewhere \cup {"edit"}
      BY <2>1, <2>3, <3>1 DEF RequestClose, WalkAway, Discard, EditFails, Leave, Succeeds, GoTo, Stay
    <3>3. LeftFor(place')
      BY <2>1, <3>1, <3>2, TypedLeaves
    <3>4. place' \in {"list", "detail", "other", "edit"}
      BY <3>2 DEF Elsewhere
    <3> QED BY <2>3, <3>3, <3>4 DEF LeftFor
  <2> QED BY <2>2, <2>3
<1> HIDE DEF Kept
<1>2. Spec => [][Kept]_vars
  BY <1>1, IInvAlways, PTL DEF Spec
<1> QED BY <1>2 DEF Kept, TypedWorkIsKept

=============================================================================
