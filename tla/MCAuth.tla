------------------------------- MODULE MCAuth -------------------------------
(* Instances of AuthSession for TLC; the tabs are interchangeable. *)
EXTENDS AuthSession, TLC

MCTabs == Permutations(Tabs)
=============================================================================
