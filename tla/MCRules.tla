------------------------------ MODULE MCRules ------------------------------
(* Instances of SecurityRules: what a security group has at the beginning. *)
EXTENDS SecurityRules

NoRules  == [d \in Directions |-> <<>>]
TwoRules == [d \in Directions |-> <<11, 12>>]
=============================================================================
