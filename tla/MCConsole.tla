------------------------------ MODULE MCConsole ------------------------------
(* Instances of ConsoleSession for TLC: the tab and the resource of each view. *)
EXTENDS ConsoleSession

CONSTANTS v1, v2, t1, t2, r1, r2

\* each view in a tab of its own
MCOwnTabs == [v \in Views |-> IF v = v1 THEN t1 ELSE t2]

MCOneResource == [v \in Views |-> r1]
MCOwnResources == [v \in Views |-> IF v = v1 THEN r1 ELSE r2]
=============================================================================
