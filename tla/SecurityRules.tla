--------------------------- MODULE SecurityRules ---------------------------
(***************************************************************************)
(* The rules of a security group, edited on its detail page in several     *)
(* tabs (or by several users).  A save is a read-modify-write of the whole *)
(* rule lists: it computes them from the page's cached copy and the index  *)
(* of a row, and the service overwrites what it has, whatever came between.*)
(*                                                                         *)
(* Rules have no identity in the code; here a rule is the number of the    *)
(* save that wrote it, and the initial ones have numbers above MaxSaves.   *)
(***************************************************************************)
EXTENDS QueryCache, Sequences, SequencesExt

CONSTANTS
  Directions,   \* "ingress" and "egress"
  Initial,      \* the rule lists at the beginning
  MaxSaves,     \* saves all users make together (a bound)
  Hasty         \* tabs whose user acts while a save of theirs is under way

\* Rule 0 is no rule: a hole in a list.
Values == [Directions -> Seq(Nat \ {0})]

ASSUME RulesAssumption ==
  /\ MaxSaves \in Nat
  /\ Initial \in Values
  /\ Tabs # {} /\ Directions # {}

VARIABLES
  dialog,  \* the dialog open on a tab's page
  saves,   \* every save, by number
  made,    \* how many saves there are
  kept     \* history: rules known to be saved, that nobody asked to change

rulesVars == <<dialog, saves, made, kept>>
vars == <<store, cacheVars, rulesVars>>

SaveIds == 1..MaxSaves
Kinds == {"add", "edit", "delete"}
UnderWay == {"sent", "applied", "failed", "refetching"}

\* rule is the rule of the row the user picked and 0 if there is none; save is
\* the save whose end the dialog waits for, and 0 if it takes input.
Dialogs == [kind : Kinds \cup {"none"}, dir : Directions, idx : Nat,
            rule : Nat, save : Nat]

\* hit is the rule that the save replaces or removes; own tells if the mount of
\* the page that made it is still there; rev is what the store became with it.
Saves == [at : UnderWay \cup {"unused", "saved", "refused"}, tab : Tabs, kind : Kinds,
          lists : Values, rule : Nat, hit : Nat, own : BOOLEAN, rev : Nat]

TypeOK ==
  /\ CacheTypeOK(Values)
  /\ dialog \in [Tabs -> Dialogs]
  /\ saves \in [SaveIds -> Saves]
  /\ made \in 0..MaxSaves
  /\ kept \subseteq Nat

RulesOf(v) == UNION {ToSet(v[d]) : d \in Directions}
RuleAt(v, d, i) == IF i \in DOMAIN v[d] THEN v[d][i] ELSE 0

NoDialog == [kind |-> "none", dir |-> CHOOSE d \in Directions : TRUE,
             idx |-> 0, rule |-> 0, save |-> 0]

Init ==
  /\ CacheInit(Initial)
  /\ dialog = [t \in Tabs |-> NoDialog]
  /\ saves = [n \in SaveIds |->
       [at |-> "unused", tab |-> CHOOSE t \in Tabs : TRUE, kind |-> "add",
        lists |-> Initial, rule |-> 0, hit |-> 0, own |-> FALSE, rev |-> 0]]
  /\ made = 0
  /\ kept = RulesOf(Initial)

-----------------------------------------------------------------------------
(* Definitions named Fault... are no part of the specification: each is    *)
(* the definition after it with one plausible mistake, which a property    *)
(* must notice.                                                            *)

\* a tab's saves that wait for the fetch; a tab has a save under way
Waiting(t) == {n \in SaveIds : saves[n].tab = t /\ saves[n].at = "refetching"}
Saving(t) == \E n \in SaveIds : saves[n].tab = t /\ saves[n].at \in UnderWay
MayAct(t) == t \in Hasty \/ ~ Saving(t)

\* targetList[ruleIndex] = rule
Replaced(l, i, r) ==
  [j \in 1..(IF i > Len(l) THEN Len(l) + 1 ELSE Len(l)) |-> IF j = i THEN r ELSE l[j]]

\* "delete targetList[ruleIndex]": a deleted row leaves a hole
FaultEdited(v, d, r) ==
  [v EXCEPT ![d.dir] =
     CASE d.kind = "add"    -> Append(@, r)
       [] d.kind = "edit"   -> Replaced(@, d.idx, r)
       [] d.kind = "delete" -> IF d.idx \in DOMAIN @ THEN [@ EXCEPT ![d.idx] = 0] ELSE @]

\* the lists that a dialog's save sends, when its rule is r
Edited(v, d, r) ==
  [v EXCEPT ![d.dir] =
     CASE d.kind = "add"    -> Append(@, r)
       [] d.kind = "edit"   -> Replaced(@, d.idx, r)
       [] d.kind = "delete" -> IF d.idx \in DOMAIN @ THEN RemoveAt(@, d.idx) ELSE @]

\* onClose and onSuccess at the end of saves N: they close the rule editor, or
\* the delete dialog, that is open by then
Closed(t, N) ==
  IF \E n \in N : saves[n].own /\ (saves[n].kind = "delete") = (dialog[t].kind = "delete")
  THEN NoDialog ELSE dialog[t]

\* the rule editor is mounted anew after an error page, and forgets its save
Remounted(t, d, v) ==
  IF d.kind \in {"add", "edit"}
  THEN [d EXCEPT !.save = 0, !.rule = IF d.kind = "edit" THEN RuleAt(v, d.dir, d.idx) ELSE 0]
  ELSE d

\* the fetch that saves N wait for has ended
Settled(N) == [n \in SaveIds |-> IF n \in N THEN [saves[n] EXCEPT !.at = "saved"] ELSE saves[n]]

-----------------------------------------------------------------------------
(* The user                                                                *)

Open(t) ==
  /\ OpenPage(t)
  /\ UNCHANGED rulesVars

\* The page and its dialogs are gone; what its saves do at their end is lost.
Leave(t) ==
  /\ MayAct(t)
  /\ ClosePage(t)
  /\ dialog' = [dialog EXCEPT ![t] = NoDialog]
  /\ saves' = [n \in SaveIds |-> IF saves[n].tab = t THEN [saves[n] EXCEPT !.own = FALSE]
                                                    ELSE saves[n]]
  /\ UNCHANGED <<made, kept>>

\* "Add rule", or "Edit" or "Delete" of a row
OpenDialog(t, k, d, i) ==
  /\ Usable(t)
  /\ dialog[t].kind = "none"
  /\ IF k = "add" THEN i = 0 ELSE i \in DOMAIN data[t].v[d]
  /\ dialog' = [dialog EXCEPT ![t] =
       [kind |-> k, dir |-> d, idx |-> i, rule |-> RuleAt(data[t].v, d, i), save |-> 0]]
  /\ UNCHANGED <<store, cacheVars, saves, made, kept>>

\* Cancel, X or Escape.  The rule editor's X and Escape work while it saves.
Dismiss(t) ==
  /\ Usable(t) /\ MayAct(t)
  /\ dialog[t].kind # "none"
  /\ dialog[t].kind = "delete" => dialog[t].save = 0
  /\ dialog' = [dialog EXCEPT ![t] = NoDialog]
  /\ UNCHANGED <<store, cacheVars, saves, made, kept>>

\* "Add", "Save" or "Delete": the lists are those on the page at this moment.
\* A list with a hole cannot be sent.
Submit(t) ==
  LET d == dialog[t]
      n == made + 1
      l == data[t].v[d.dir]
  IN  /\ Usable(t) /\ MayAct(t)
      /\ d.kind # "none" /\ d.save = 0
      /\ made < MaxSaves
      /\ d.kind = "edit" => d.idx <= Len(l) + 1
      /\ made' = n
      /\ saves' = [saves EXCEPT ![n] =
           [at |-> "sent", tab |-> t, kind |-> d.kind, lists |-> Edited(data[t].v, d, n),
            rule |-> d.rule, hit |-> RuleAt(data[t].v, d.dir, d.idx), own |-> TRUE, rev |-> 0]]
      /\ dialog' = [dialog EXCEPT ![t].save = n]
      /\ kept' = kept \ {d.rule}
      /\ UNCHANGED <<store, cacheVars>>

-----------------------------------------------------------------------------
(* Saves                                                                   *)

\* The service replaces both lists; it does not ask what the save was made of.
Apply(n) ==
  /\ saves[n].at = "sent"
  /\ store' = [v |-> saves[n].lists, rev |-> store.rev + 1]
  /\ saves' = [saves EXCEPT ![n].at = "applied", ![n].rev = store.rev + 1]
  /\ UNCHANGED <<cacheVars, dialog, made, kept>>

\* The save is refused, does not arrive, or its answer does not.
Refuse(n) ==
  /\ saves[n].at \in {"sent", "applied"}
  /\ saves' = [saves EXCEPT ![n].at = "failed"]
  /\ UNCHANGED <<store, cacheVars, dialog, made, kept>>

\* The dialog shows the error and takes input again.
Failed(n) ==
  LET t == saves[n].tab
  IN  /\ saves[n].at = "failed"
      /\ saves' = [saves EXCEPT ![n].at = "refused"]
      /\ dialog' = [dialog EXCEPT ![t].save = IF @ = n THEN 0 ELSE @]
      /\ UNCHANGED <<store, cacheVars, made, kept>>

\* the dialog closes without waiting for the fetch
FaultAnswered(n) ==
  LET t == saves[n].tab
  IN  /\ saves[n].at = "applied"
      /\ Invalidate(t)
      /\ saves' = Settled({n})
      /\ dialog' = [dialog EXCEPT ![t] = Closed(t, {n})]
      /\ kept' = IF saves[n].kind = "delete" THEN kept ELSE kept \cup {n}
      /\ UNCHANGED <<store, mounted, status, data, made>>

\* onSuccess invalidates the query, and the save ends with the fetch this
\* starts; when no page shows the query there is none to wait for.
Answered(n) ==
  LET t == saves[n].tab
  IN  /\ saves[n].at = "applied"
      /\ Invalidate(t)
      /\ saves' = IF mounted[t] THEN [saves EXCEPT ![n].at = "refetching"] ELSE Settled({n})
      /\ kept' = IF saves[n].kind = "delete" THEN kept ELSE kept \cup {n}
      /\ UNCHANGED <<store, mounted, status, data, dialog, made>>

-----------------------------------------------------------------------------
(* The query                                                               *)

Poll(t) ==
  /\ Refetch(t)
  /\ UNCHANGED rulesVars

Respond(t) ==
  /\ Serve(t)
  /\ UNCHANGED rulesVars

\* New data: a rule editor behind an error page is back, with the row as it is.
Loaded(t) ==
  /\ Fulfilled(t)
  /\ saves' = Settled(Waiting(t))
  /\ dialog' = [dialog EXCEPT ![t] =
       LET d == Closed(t, Waiting(t))
       IN  IF status[t] = "error" THEN Remounted(t, d, fetch[t].got.v) ELSE d]
  /\ UNCHANGED <<made, kept>>

\* a save that waits for the fetch does not notice that it failed
FaultLoadFailed(t) ==
  /\ Rejected(t)
  /\ UNCHANGED rulesVars

\* The error page replaces the rules and the dialogs.
LoadFailed(t) ==
  /\ Rejected(t)
  /\ saves' = Settled(Waiting(t))
  /\ dialog' = [dialog EXCEPT ![t] = Remounted(t, Closed(t, Waiting(t)), data[t].v)]
  /\ UNCHANGED <<made, kept>>

-----------------------------------------------------------------------------
Next ==
  \/ \E t \in Tabs :
       \/ Open(t) \/ Leave(t) \/ Dismiss(t) \/ Submit(t)
       \/ Poll(t) \/ Respond(t) \/ Loaded(t) \/ LoadFailed(t)
       \/ \E k \in Kinds, d \in Directions :
            \E i \in 0..Len(data[t].v[d]) : OpenDialog(t, k, d, i)
  \/ \E n \in SaveIds : Apply(n) \/ Refuse(n) \/ Answered(n) \/ Failed(n)

Spec == Init /\ [][Next]_vars

\* A save is answered or fails; so is a fetch, even one that is started over
\* again and again: the user does not press "Try again" before every answer.
\* Users, and the refetch interval, owe nothing.
Fairness ==
  /\ \A n \in SaveIds : WF_vars(Apply(n) \/ Refuse(n) \/ Answered(n) \/ Failed(n))
  /\ \A t \in Tabs : WF_vars(Respond(t)) /\ SF_vars(Loaded(t) \/ LoadFailed(t))

FairSpec == Spec /\ Fairness

-----------------------------------------------------------------------------
(* Properties                                                              *)

\* a save was applied, and its dialog told that it failed
Misreported == \E n \in SaveIds : saves[n].at \in {"failed", "refused"} /\ saves[n].rev > 0

\* A user who is alone and waits for each save loses no rule: what was saved,
\* and nobody asked to change, stays, although each save rewrites all rules.
\* (Not after a save that looks refused: its retry may hit the next row.)
KeptRulesStay == Misreported \/ kept \subseteq RulesOf(store.v)

\* Of such a user a save changes the rule of the row that was picked, or none,
\* although the dialog keeps an index and computes the lists from later data.
HitsTheRulePicked ==
  Misreported \/ \A n \in SaveIds : saves[n].hit \in {0, saves[n].rule}

\* The rules a page shows, and computes its next save from, have in them every
\* save of this page that ended, whatever fetches were under way then.
OwnSavesShown ==
  \A n \in SaveIds :
    LET t == saves[n].tab
    IN  saves[n].at = "saved" /\ saves[n].own /\ Usable(t) => saves[n].rev <= data[t].rev

\* No dialog shows its spinner for ever: its save, and the fetch after it, end.
DialogSettles ==
  \A t \in Tabs : dialog[t].save # 0 ~> dialog[t].save = 0

\* "removes the targeted ingress rule and keeps the rest"
\* (SecurityGroupDetailPage.test.tsx): of the rules that were there from the
\* beginning, a deletion removes none but the one that was picked.
DeletesTheRulePicked ==
  \A n \in SaveIds : saves[n].kind = "delete" => saves[n].hit \notin RulesOf(Initial) \ {saves[n].rule}
=============================================================================
