---------------------------- MODULE StorageEdit ----------------------------
(***************************************************************************)
(* The edit pages of a storage backend and of a storage tier.  A form is   *)
(* filled once, when it is mounted, while the page's query goes on being   *)
(* polled; a save sends fields of the form together with the version of    *)
(* the copy that was polled last, and asks the service to refuse it        *)
(* unless the resource still has that version.                             *)
(*                                                                         *)
(* The resource's rev (QueryCache) is its metadata.version.  A field's     *)
(* value is the number of the save that wrote it, 0 at the start: two      *)
(* users never type the same value.                                        *)
(***************************************************************************)
EXTENDS QueryCache

CONSTANTS
  MaxSaves,  \* saves of all users together (a bound)
  Others     \* whoever saves in a browser that is not one of the tabs

VARIABLES
  kind,      \* "backend" or "tier", for a whole behaviour
  form,      \* the form in each tab, with the copy it was filled from, the
             \* fields that were typed into and the save it waits for, or 0
  save       \* the saves, in the order of their clicks

editVars == <<kind, form, save>>
vars == <<store, cacheVars, editVars>>

\* description; and what is always sent: the endpoint, or protocol and backends
Fields == {"main", "description"}
SaveIds == 1..MaxSaves
Values == [Fields -> Nat]
Initial == [f \in Fields |-> 0]

Stages == {"none", "sent", "applied", "refused", "refetching", "ending", "done", "failed"}
SaveRecords ==
  [stage : Stages, by : Tabs \cup {Others}, version : Nat, sends : SUBSET Fields, value : Values,
   base : Snapshots(Values)]
Forms == [shown : BOOLEAN, from : Snapshots(Values), typed : SUBSET Fields, saving : Nat]

TypeOK ==
  /\ CacheTypeOK(Values)
  /\ kind \in {"backend", "tier"}
  /\ form \in [Tabs -> Forms]
  /\ save \in [SaveIds -> SaveRecords]

Copy0 == [v |-> Initial, rev |-> 0]
NoForm == [shown |-> FALSE, from |-> Copy0, typed |-> {}, saving |-> 0]
NoSave == [stage |-> "none", by |-> Others, version |-> 0, sends |-> {},
           value |-> Initial, base |-> Copy0]

Init ==
  /\ CacheInit(Initial)
  /\ kind \in {"backend", "tier"}
  /\ form = [t \in Tabs |-> NoForm]
  /\ save = [n \in SaveIds |-> NoSave]

-----------------------------------------------------------------------------
(* The page.                                                               *)
(*                                                                         *)
(* Definitions named Fault... are no part of the specification: each is    *)
(* the definition after it with one plausible mistake, which a property    *)
(* must notice.                                                            *)

\* Formik's enableReinitialize: the form is filled anew whenever its copy is
FaultShown(fm, usable, copy) ==
  IF usable /\ (~ fm.shown \/ (fm.saving = 0 /\ fm.from # copy))
  THEN [NoForm EXCEPT !.shown = TRUE, !.from = copy]
  ELSE IF usable THEN fm ELSE NoForm

\* Spinner and error take the place of the form, which is mounted, and filled,
\* when the page has a copy to show.
Shown(fm, usable, copy) ==
  IF ~ usable THEN NoForm
  ELSE IF fm.shown THEN fm
  ELSE [NoForm EXCEPT !.shown = TRUE, !.from = copy]

\* the forms as the page's query is after this step
FormsFollow ==
  form' = [t \in Tabs |-> Shown(form[t], mounted'[t] /\ status'[t] = "success", data'[t])]

Open(t) == OpenPage(t) /\ FormsFollow /\ UNCHANGED <<kind, save>>

\* A dirty form that is not saving asks first.
Leave(t) == ClosePage(t) /\ FormsFollow /\ UNCHANGED <<kind, save>>

Poll(t) == fetch[t].at = "none" /\ Refetch(t) /\ UNCHANGED editVars

Respond(t) == Serve(t) /\ UNCHANGED editVars

\* With the fetch that they wait for, the saves of a tab are over.
FetchOver(t) ==
  save' = [n \in SaveIds |-> IF save[n].stage = "refetching" /\ save[n].by = t
                             THEN [save[n] EXCEPT !.stage = "ending"] ELSE save[n]]

Loaded(t) == Fulfilled(t) /\ FormsFollow /\ FetchOver(t) /\ UNCHANGED kind

LoadFailed(t) == Rejected(t) /\ FormsFollow /\ FetchOver(t) /\ UNCHANGED kind

-----------------------------------------------------------------------------
(* Editing and saving                                                      *)

Type(t, f) ==
  /\ form[t].shown
  /\ form' = [form EXCEPT ![t].typed = @ \cup {f}]
  /\ UNCHANGED <<store, cacheVars, kind, save>>

\* n is the next save
NextSave(n) == save[n].stage = "none" /\ \A i \in 1..(n - 1) : save[i].stage # "none"

\* what the form in tab t holds, if it is sent as save n
Content(t, n) == [f \in Fields |-> IF f \in form[t].typed THEN n ELSE form[t].from.v[f]]

\* A backend's page sends the description always, a tier's if it is not that of
\* the copy that was polled last, which its user may never have seen.
Sends(t, value) ==
  {f \in Fields : kind = "tier" /\ f = "description" => value[f] # data[t].v[f]}

Submit(t, n) ==
  /\ form[t].shown /\ form[t].saving = 0
  /\ NextSave(n)
  /\ form' = [form EXCEPT ![t].saving = n]
  /\ save' = [save EXCEPT ![n] =
       [stage |-> "sent", by |-> t, version |-> data[t].rev,
        sends |-> Sends(t, Content(t, n)), value |-> Content(t, n), base |-> form[t].from]]
  /\ UNCHANGED <<store, cacheVars, kind>>

\* Another user saves the fields fs, all at once.
OthersSave(n, fs) ==
  /\ NextSave(n)
  /\ store' = [v |-> [f \in Fields |-> IF f \in fs THEN n ELSE store.v[f]], rev |-> store.rev + 1]
  /\ save' = [save EXCEPT ![n].stage = "done"]
  /\ UNCHANGED <<cacheVars, kind, form>>

\* the service's part of a save is over
Handled(n, stage) ==
  save' = [save EXCEPT ![n] = [NoSave EXCEPT !.stage = stage, !.by = save[n].by]]

\* no optimistic lock
FaultApply(n) ==
  /\ save[n].stage = "sent"
  /\ store' = [v |-> [f \in Fields |-> IF f \in save[n].sends THEN save[n].value[f]
                                                              ELSE store.v[f]],
               rev |-> store.rev + 1]
  /\ Handled(n, "applied")
  /\ UNCHANGED <<cacheVars, kind, form>>

\* lock: true
Apply(n) ==
  /\ save[n].stage = "sent" /\ save[n].version = store.rev
  /\ store' = [v |-> [f \in Fields |-> IF f \in save[n].sends THEN save[n].value[f]
                                                              ELSE store.v[f]],
               rev |-> store.rev + 1]
  /\ Handled(n, "applied")
  /\ UNCHANGED <<cacheVars, kind, form>>

\* The version is not the service's, or the request failed otherwise.
Refuse(n) ==
  /\ save[n].stage = "sent"
  /\ Handled(n, "refused")
  /\ UNCHANGED <<store, cacheVars, kind, form>>

\* onSuccess: the save goes on until the query is fetched anew, if it is on
\* the screen.
Answered(n) ==
  /\ save[n].stage = "applied"
  /\ Invalidate(save[n].by)
  /\ save' = [save EXCEPT ![n].stage = IF mounted[save[n].by] THEN "refetching" ELSE "ending"]
  /\ UNCHANGED <<store, mounted, status, data, kind, form>>

\* The page goes to the list, wherever its user is by then: also from a form
\* opened meanwhile, unless that one asks about what was typed and is kept.
Navigate(n) ==
  LET t == save[n].by
  IN  /\ save[n].stage = "ending"
      /\ mounted' = [mounted EXCEPT ![t] =
           @ /\ form[t].shown /\ form[t].saving = 0 /\ form[t].typed # {}]
      /\ UNCHANGED <<store, status, data, fetch, kind>>
      /\ FormsFollow
      /\ save' = [save EXCEPT ![n].stage = "done"]

\* The save was refused, or its answer is lost.  Its form, if it is still there,
\* shows the error, keeps its fields and can be sent again.
Fails(n) ==
  /\ save[n].stage \in {"applied", "refused"}
  /\ save' = [save EXCEPT ![n].stage = "failed"]
  /\ form' = [t \in Tabs |-> IF form[t].saving = n THEN [form[t] EXCEPT !.saving = 0]
                                                   ELSE form[t]]
  /\ UNCHANGED <<store, cacheVars, kind>>

Next ==
  \/ \E t \in Tabs :
       \/ Open(t) \/ Leave(t) \/ Poll(t) \/ Respond(t) \/ Loaded(t) \/ LoadFailed(t)
       \/ \E f \in Fields : Type(t, f)
       \/ \E n \in SaveIds : Submit(t, n)
  \/ \E n \in SaveIds, fs \in (SUBSET Fields) \ {{}} : OthersSave(n, fs)
  \/ \E n \in SaveIds : Apply(n) \/ Refuse(n) \/ Answered(n) \/ Navigate(n) \/ Fails(n)

Spec == Init /\ [][Next]_vars

-----------------------------------------------------------------------------
(* Properties                                                              *)

\* save n overwrites, in this step, a value that its form did not show, and
\* that its user did not write
OverwritesUnseen(n) ==
  \E f \in save[n].sends :
    /\ store.v[f] # save[n].base.v[f]
    /\ \A i \in SaveIds : store.v[f] = i => save[i].by # save[n].by

Applied(n) == save[n].stage = "sent" /\ save'[n].stage = "applied"

\* The lock keeps every save from undoing what another user saved meanwhile.
\* It does not: the version is that of the copy polled last, not of the copy
\* that the form was filled from.
NoLostUpdate == [][\A n \in SaveIds : Applied(n) => ~ OverwritesUnseen(n)]_vars

\* What the lock does achieve: a save whose form was filled from the copy that
\* the page still had at the click undoes nothing, whatever others do between
\* the click and the moment the service applies it.
FreshSavesUndoNothing ==
  [][\A n \in SaveIds :
       Applied(n) /\ save[n].version = save[n].base.rev => ~ OverwritesUnseen(n)]_vars

\* What was typed into a form is lost only when its query fails, when its user
\* leaves, or when a save ends while the form itself is being saved: not by a
\* poll, nor by the success of a save of an earlier visit.
EditsAreKept ==
  [][\A t \in Tabs : form[t].typed # {} /\ form'[t].typed = {} =>
       \/ status'[t] = "error"
       \/ ~ mounted'[t] /\ (form[t].saving # 0 \/ save' = save)]_vars
=============================================================================
