------------------------------ MODULE MCClaims ------------------------------
(* A small instance of Claims for TLC: two acquisition campaigns of one      *)
(* priority and a customer-relationship campaign.                            *)
EXTENDS Claims

CONSTANTS A, B, C

MCPriority == [c \in Campaigns |-> IF c = C THEN 2 ELSE 1]
MCRepeats  == {<<A, "qualify">>}
=============================================================================
