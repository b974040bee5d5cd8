---------------------------- MODULE CreateWizard ----------------------------
(* The two wizard shells that create a resource: the catalog provisioning     *)
(* wizard (ProvisioningWizard.tsx with the VM, cluster and bare-metal pages)   *)
(* and the resource wizards built on OSACWizardFooter.tsx and                  *)
(* LeaveFormConfirmation.tsx.  One browser tab; a page may be left and opened  *)
(* again while a create it sent is still under way.                            *)
(*                                                                             *)
(* What a step holds is abstracted to what its schema says of it: "good",      *)
(* "bad", or "lax" - right by the step's own rules, wrong by those of the      *)
(* catalog item, which apply only while the item is on the list.  Formik       *)
(* validates in microtasks, so a check and what follows it are one step.       *)
EXTENDS Naturals, FiniteSets

CONSTANTS
  Items,      \* catalog items
  None,       \* no item
  Steps,      \* the number of steps; the last one is the review
  MaxVisits   \* how often the page is opened (bound)

ASSUME WizardAssumption == /\ Steps \in Nat /\ Steps > 2
                           /\ MaxVisits \in Nat
                           /\ None \notin Items

VARIABLES
  kind,    \* which shell this is: "provision" or "resource"; never changes
  list,    \* the catalog items of the last answered list query
  place,   \* what is shown: the form, the page of an edit without its form (its
           \* query loads or failed), or a page that is not the form's
  visit,   \* how many times the form was mounted; the current one is the last
  form,    \* the state of the mounted form (Unmounted when there is none)
  req,     \* per visit: its last create request
  made,    \* per visit: how many resources the service created for it (at most 2)
  misled   \* per visit: a create was applied but its answer was lost

vars == <<kind, list, place, visit, form, req, made, misled>>

Visits == 1..MaxVisits
Review == Steps
Values == {"bad", "lax", "good"}
InFlight == {"sent", "applied", "refused"}
Elsewhere == {"list", "detail", "other"}
\* What a form tells of its create: the item is unknown, or the create failed.
Errors == {"none", "item", "create"}

\* The steps whose fields the user fills in; step 1 of a provisioning wizard
\* holds the catalog item instead.
Data == IF kind = "provision" THEN 2..(Steps - 1) ELSE 1..(Steps - 1)

Unmounted ==
  [step |-> 1, reached |-> 1, link |-> None, linked |-> FALSE, item |-> None,
   fields |-> [s \in 1..Steps |-> "bad"], typed |-> FALSE, alert |-> 0,
   error |-> "none", pending |-> FALSE, moved |-> FALSE, asking |-> "no",
   edit |-> FALSE, excused |-> FALSE]

Forms ==
  [step : 1..Steps, reached : 1..Steps, link : Items \cup {None},
   linked : BOOLEAN, item : Items \cup {None}, fields : [1..Steps -> Values],
   typed : BOOLEAN, alert : 0..Steps, error : Errors, pending : BOOLEAN,
   moved : BOOLEAN, asking : Elsewhere \cup {"no"}, edit : BOOLEAN, excused : BOOLEAN]

TypeOK ==
  /\ kind \in {"provision", "resource"}
  /\ list \subseteq Items
  /\ place \in Elsewhere \cup {"edit", "form"}
  /\ visit \in 0..MaxVisits
  /\ form \in Forms
  /\ req \in [Visits -> InFlight \cup {"none", "done", "failed"}]
  /\ made \in [Visits -> 0..2]
  /\ misled \in [Visits -> BOOLEAN]

-----------------------------------------------------------------------------
(* What the schemas say.                                                       *)

Strict(s) == form.fields[s] = "good"

StepPasses(s) ==
  \/ s = Review
  \/ s = 1 /\ kind = "provision" /\ form.item # None
  \/ s \in Data /\ (Strict(s) \/ (form.fields[s] = "lax" /\ form.item \notin list))

\* The values a form is reset to when an item is picked: its name is empty, the
\* catalog's defaults may or may not fill the other steps.
Defaults ==
  {f \in [1..Steps -> {"bad", "good"}] : \A s \in 1..Steps : f[s] = "good" => s \in Data \ {2}}

Reset(fm, i, f) == [fm EXCEPT !.item = i, !.fields = f, !.typed = FALSE]

\* A history flag: from here on the wizard itself no longer guarantees that
\* what is sent has been checked.
Excuse(fm, why) == [fm EXCEPT !.excused = @ \/ why]

-----------------------------------------------------------------------------
(* Opening and leaving the page.  A definition named Fault... is no part of    *)
(* the specification: it is the definition after it with one plausible         *)
(* mistake, which a property must notice.                                      *)

\* without deepLinkInitializedRef: every new list applies the link again
FaultDeepLinkDue(fm, l) == fm.link # None /\ fm.link \in l

\* The effect that applies the item of the URL once the list knows it.
DeepLinkDue(fm, l) == fm.link # None /\ ~fm.linked /\ fm.link \in l

Open(i) ==
  /\ place \in Elsewhere /\ visit < MaxVisits
  /\ kind = "resource" => i = None
  /\ visit' = visit + 1 /\ place' = "form"
  /\ LET fresh == [Unmounted EXCEPT !.link = i, !.item = i] IN
     \/ /\ ~DeepLinkDue(fresh, list)
        /\ form' = fresh
     \/ /\ DeepLinkDue(fresh, list)
        /\ \E f \in Defaults : form' = [Reset(fresh, i, f) EXCEPT !.linked = TRUE]
  /\ UNCHANGED <<kind, list, req, made, misled>>

GoTo(p) == place' = p /\ form' = Unmounted

\* The edit page of a resource, until its query has an answer.
OpenEdit ==
  /\ place \in Elsewhere /\ kind = "resource"
  /\ GoTo("edit")
  /\ UNCHANGED <<kind, list, visit, req, made, misled>>

\* The query succeeds, at first or after a failure: a new form is mounted,
\* where every step starts with the stored values.
EditLoads ==
  /\ place = "edit" /\ visit < MaxVisits
  /\ visit' = visit + 1 /\ place' = "form"
  /\ form' = [Unmounted EXCEPT !.edit = TRUE,
                !.fields = [s \in 1..Steps |-> IF s \in Data THEN "good" ELSE "bad"]]
  /\ UNCHANGED <<kind, list, req, made, misled>>

\* A poll of the resource fails: an alert takes the place of its form.
EditFails ==
  /\ place = "form" /\ form.edit
  /\ GoTo("edit")
  /\ UNCHANGED <<kind, list, visit, req, made, misled>>

\* Without the form there is no blocker.
LeaveEdit(p) ==
  /\ place = "edit"
  /\ GoTo(p)
  /\ UNCHANGED <<kind, list, visit, req, made, misled>>

Stay == UNCHANGED <<kind, list, place, visit, req, made, misled>>

\* Cancel, Escape and the breadcrumb of the provisioning page: asked about
\* once an item is chosen, ignored while a create runs.
RequestClose ==
  /\ place = "form" /\ kind = "provision"
  /\ ~form.pending /\ form.asking = "no"
  /\ IF form.item # None
       THEN form' = [form EXCEPT !.asking = "list"] /\ Stay
       ELSE GoTo("list") /\ UNCHANGED <<kind, list, visit, req, made, misled>>

\* A link outside the provisioning wizard, or the browser's Back: nothing asks.
WalkAway ==
  /\ place = "form" /\ kind = "provision"
  /\ GoTo("other")
  /\ UNCHANGED <<kind, list, visit, req, made, misled>>

\* Every navigation off a resource form goes through its blocker.
Blocks(fm) == kind = "resource" /\ fm.typed /\ ~fm.pending

\* Cancel, breadcrumb or any link of a resource page; while the leave question
\* is open only the browser's Back is left, which asks again.
Leave(p) ==
  /\ place = "form" /\ kind = "resource" /\ form.asking = "no"
  /\ IF Blocks(form)
       THEN form' = [form EXCEPT !.asking = p] /\ Stay
       ELSE GoTo(p) /\ UNCHANGED <<kind, list, visit, req, made, misled>>

Discard ==
  /\ place = "form" /\ form.asking # "no"
  /\ GoTo(form.asking)
  /\ UNCHANGED <<kind, list, visit, req, made, misled>>

KeepEditing ==
  /\ place = "form" /\ form.asking # "no"
  /\ form' = [form EXCEPT !.asking = "no"] /\ Stay

-----------------------------------------------------------------------------
(* Filling in the steps.                                                       *)

\* A poll or a refetch of the catalog list answers; a deep link that waited for
\* its item resets the form, whatever was typed and whatever step is shown.
ListAnswers(l) ==
  /\ kind = "provision" /\ place = "form" /\ l # list
  /\ list' = l
  /\ IF DeepLinkDue(form, l)
       THEN \E f \in Defaults :
              form' = Excuse([Reset(form, form.link, f) EXCEPT !.linked = TRUE], form.step > 1)
       ELSE form' = form
  /\ UNCHANGED <<kind, place, visit, req, made, misled>>

\* A card of the catalog step; not guarded by a create under way.
Pick(i) ==
  /\ place = "form" /\ kind = "provision" /\ form.asking = "no"
  /\ form.step = 1 /\ i \in list
  /\ \E f \in Defaults : form' = Reset(form, i, f)
  /\ Stay

Type(v) ==
  /\ place = "form" /\ form.asking = "no" /\ form.step \in Data
  /\ v = "lax" => kind = "provision"
  /\ form' = [form EXCEPT !.fields[form.step] = v, !.typed = TRUE]
  /\ Stay

\* a change of step that unlocks the buttons
FaultMoved(fm, s) ==
  [fm EXCEPT !.step = s, !.alert = 0, !.error = "none", !.moved = TRUE,
             !.pending = FALSE, !.reached = IF s > @ THEN s ELSE @]

\* What a change of step clears: both shells clear the alert, the provisioning
\* shell its error, the resource shell resets its mutation, which forgets an
\* error and is no longer told of one to come.
Moved(fm, s) ==
  [fm EXCEPT !.step = s, !.alert = 0, !.error = "none", !.moved = TRUE,
             !.reached = IF s > @ THEN s ELSE @]

NextStep ==
  /\ place = "form" /\ form.asking = "no" /\ ~form.pending
  /\ form.step # Review
  /\ form' = IF StepPasses(form.step)
               THEN Excuse(Moved(form, form.step + 1),
                           form.step \in Data /\ ~Strict(form.step))
               ELSE [form EXCEPT !.alert = form.step]
  /\ Stay

\* Back without the check of the first step
FaultBackStep ==
  /\ place = "form" /\ form.asking = "no" /\ ~form.pending
  /\ form' = Moved(form, form.step - 1)
  /\ Stay

BackStep ==
  /\ place = "form" /\ form.asking = "no" /\ ~form.pending
  /\ form.step > 1
  /\ form' = Moved(form, form.step - 1)
  /\ Stay

\* The navigation panel: every step seen so far is one click away, unchecked,
\* and it is not disabled while a create runs.
Jump(s) ==
  /\ place = "form" /\ form.asking = "no"
  /\ s # form.step /\ s <= form.reached
  /\ form' = Excuse(Moved(form, s), \E k \in Data : form.step <= k /\ k < s /\ ~Strict(k))
  /\ Stay
-----------------------------------------------------------------------------
(* Creating.                                                                   *)

Send ==
  /\ form' = [form EXCEPT !.pending = TRUE, !.error = "none", !.moved = FALSE]
  /\ req' = [req EXCEPT ![visit] = "sent"]
  /\ UNCHANGED <<kind, list, place, visit, made, misled>>

\* Create without the check of pending
FaultCreateProvisioned ==
  /\ place = "form" /\ kind = "provision" /\ form.asking = "no"
  /\ form.step = Review
  /\ IF form.item \in list
       THEN Send
       ELSE form' = [form EXCEPT !.error = "item"] /\ Stay

\* Create on the review of a provisioning wizard validates nothing; it only
\* needs the item to be on the list, for the payload is built from it.
CreateProvisioned ==
  /\ place = "form" /\ kind = "provision" /\ form.asking = "no"
  /\ form.step = Review /\ ~form.pending
  /\ IF form.item \in list
       THEN Send
       ELSE form' = [form EXCEPT !.error = "item"] /\ Stay

\* the last step checks itself only, like the others
FaultSubmitResource ==
  /\ place = "form" /\ kind = "resource" /\ form.asking = "no"
  /\ form.step = Review /\ ~form.pending
  /\ IF StepPasses(form.step)
       THEN Send
       ELSE form' = [form EXCEPT !.alert = form.step] /\ Stay

\* Create or Edit on the last step of a resource wizard validates every step.
SubmitResource ==
  /\ place = "form" /\ kind = "resource" /\ form.asking = "no"
  /\ form.step = Review /\ ~form.pending
  /\ IF \A s \in Data : StepPasses(s)
       THEN Send
       ELSE form' = [form EXCEPT !.alert = form.step] /\ Stay

\* The service (external).
Apply(v) ==
  /\ req[v] = "sent"
  /\ req' = [req EXCEPT ![v] = "applied"]
  /\ made' = [made EXCEPT ![v] = IF @ = 2 THEN 2 ELSE @ + 1]
  /\ UNCHANGED <<kind, list, place, visit, form, misled>>

Refuse(v) ==
  /\ req[v] = "sent"
  /\ req' = [req EXCEPT ![v] = "refused"]
  /\ UNCHANGED <<kind, list, place, visit, form, made, misled>>

\* A success opens the new resource's page wherever the user is by then: the
\* promise and its navigate outlive the form that made them.
Succeeds(v) ==
  /\ req[v] = "applied"
  /\ req' = [req EXCEPT ![v] = "done"]
  /\ IF place = "form" /\ Blocks(form)
       THEN form' = [form EXCEPT !.asking = "detail"] /\ place' = place
       ELSE GoTo("detail")
  /\ UNCHANGED <<kind, list, visit, made, misled>>

\* What the form is told of a failure: the footer's mutation, once reset,
\* nothing.
Outcome == IF kind = "provision" \/ ~form.moved THEN "create" ELSE "none"

\* catch without finally
FaultFails(v) ==
  /\ req[v] \in {"refused", "applied"}
  /\ req' = [req EXCEPT ![v] = "failed"]
  /\ misled' = [misled EXCEPT ![v] = @ \/ req[v] = "applied"]
  /\ form' = IF place = "form" /\ visit = v
               THEN [form EXCEPT !.error = Outcome]
               ELSE form
  /\ UNCHANGED <<kind, list, place, visit, made>>

\* an outcome is told to the form that is there
FaultFailsLater(v) ==
  /\ req[v] \in {"refused", "applied"}
  /\ req' = [req EXCEPT ![v] = "failed"]
  /\ misled' = [misled EXCEPT ![v] = @ \/ req[v] = "applied"]
  /\ form' = IF place = "form"
               THEN [form EXCEPT !.pending = IF visit = v THEN FALSE ELSE @, !.error = Outcome]
               ELSE form
  /\ UNCHANGED <<kind, list, place, visit, made>>

\* A refusal is answered, or the answer of a create is lost on its way.
Fails(v) ==
  /\ req[v] \in {"refused", "applied"}
  /\ req' = [req EXCEPT ![v] = "failed"]
  /\ misled' = [misled EXCEPT ![v] = @ \/ req[v] = "applied"]
  /\ form' = IF place = "form" /\ visit = v
               THEN [form EXCEPT !.pending = FALSE, !.error = Outcome]
               ELSE form
  /\ UNCHANGED <<kind, list, place, visit, made>>

-----------------------------------------------------------------------------
Init ==
  /\ kind \in {"provision", "resource"}
  /\ list = {} /\ place = "list" /\ visit = 0 /\ form = Unmounted
  /\ req = [v \in Visits |-> "none"]
  /\ made = [v \in Visits |-> 0]
  /\ misled = [v \in Visits |-> FALSE]

Answer(v) == Apply(v) \/ Refuse(v) \/ Succeeds(v) \/ Fails(v)

Next ==
  \/ \E i \in Items \cup {None} : Open(i)
  \/ OpenEdit \/ EditLoads \/ EditFails
  \/ RequestClose \/ WalkAway \/ Discard \/ KeepEditing
  \/ \E p \in {"list", "other"} : Leave(p) \/ LeaveEdit(p)
  \/ \E l \in SUBSET Items : ListAnswers(l)
  \/ \E i \in Items : Pick(i)
  \/ \E v \in Values : Type(v)
  \/ NextStep \/ BackStep
  \/ \E s \in 1..Steps : Jump(s)
  \/ CreateProvisioned \/ SubmitResource
  \/ \E v \in Visits : Answer(v)

\* Every request is answered in the end, by the service or by the browser's
\* network stack; the user owes nothing.
Spec == Init /\ [][Next]_vars
FairSpec == Spec /\ \A v \in Visits : WF_vars(Answer(v))

-----------------------------------------------------------------------------
(* Properties.                                                                 *)

\* The buttons are locked exactly while a create of this form is under way: no
\* failure leaves them locked, no step, reset or answer unlocks them early, and
\* no answer of an earlier visit touches them.
LockedWhileCreating ==
  place = "form" => (form.pending <=> req[visit] \in InFlight)

\* The leave question is never put over a create under way, whose success would
\* take the page away from under it, nor when there is nothing to lose.
AskedOnlyAtRest ==
  form.asking # "no" => ~form.pending /\ (form.typed \/ form.item # None)

\* An alert about the fields of a step is shown on that step only.
AlertIsOfThisStep == form.alert \in {0, form.step}

\* What was typed belongs to a catalog item, so that the close of a provisioning
\* wizard, which looks at nothing else, asks before it is lost.
TypedHasItem == kind = "provision" /\ form.typed => form.item # None

\* What the form shows agrees with what it waits for.
FormIsConsistent ==
  LockedWhileCreating /\ AskedOnlyAtRest /\ AlertIsOfThisStep /\ TypedHasItem

\* One visit of a form makes one resource, unless its user was told of a
\* failure that was none: the answer was lost and Create was clicked again.
OneResourcePerVisit == \A v \in Visits : made[v] > 1 => misled[v]

\* A create sends only values that satisfy the schemas.  In a resource wizard
\* always; in a provisioning wizard, whose review validates nothing, unless the
\* user went forward over an unchecked step in the navigation panel, a late
\* deep link reset the steps behind the current one, or a step was checked
\* while the list did not know the item.
SentValuesAreValid ==
  [][\A v \in Visits : (req[v] # "sent" /\ req'[v] = "sent") =>
       (\A s \in Data : Strict(s)) \/ (kind = "provision" /\ form.excused)]_vars

\* What was typed is given up only in the open: by the answer to the leave
\* question, by picking an item, by the one deep link, by the success of the
\* create, or - where nothing asks - by walking away from a provisioning wizard
\* or from a create under way, by a provisioning success of an earlier visit, or
\* by a failed poll of the resource that is edited.
TypedWorkIsKept ==
  [][form.typed /\ ~form'.typed =>
       CASE place' = "form" -> \/ kind = "provision" /\ form.step = 1
                               \/ form'.linked /\ ~form.linked
         [] place' = "list" -> form.asking = "list" \/ (kind = "resource" /\ form.pending)
         [] place' = "detail" -> \/ req[visit] = "applied" \/ form.asking = "detail"
                                 \/ \E v \in 1..(visit - 1) :
                                      req[v] = "applied" /\ (kind = "provision" \/ form.pending)
         [] place' = "other" -> form.asking = "other" \/ kind = "provision" \/ form.pending
         [] place' = "edit" -> form.edit]_vars

\* A form tells of its own last create and of no other: a failure that arrives
\* late, when the page was left and opened again, is not put on the new form, an
\* error is gone while the next create runs, and no poll, pick, question or
\* other visit's answer takes it away.  Only a change of step does; made while
\* a resource wizard waits, it also drops the outcome to come.  A footer, which
\* shows errors on its last step only, holds none on another.
ErrorIsCurrent ==
  place = "form" =>
    /\ form.error # "none" => ~form.pending
    /\ form.error = "create" => req[visit] = "failed" /\ (kind = "resource" => form.step = Review)
    /\ req[visit] = "failed" /\ ~form.moved => form.error # "none"

\* A create does not leave its form locked for ever.
CreateSettles ==
  \A v \in Visits : (visit = v /\ form.pending) ~> (visit # v \/ ~form.pending)
=============================================================================
