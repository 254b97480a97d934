----------------------------- MODULE MCOutreach -----------------------------
(* Small instances of Outreach for TLC: campaign A plans an opening of two  *)
(* touches or two days, campaign B plans one touch.                         *)
EXTENDS Outreach, TLC

CONSTANTS A, B, a1, a2, b1, r1, r2

MCCampOf  == [t \in Touches |-> IF t = b1 THEN B ELSE A]
MCPlanned == [t \in Touches |-> IF t \in {a2, b1} THEN "linkedin" ELSE "email"]
MCRepOf   == [c \in Campaigns |-> IF c = A THEN r1 ELSE r2]
SameDays  == [t \in Touches |-> 0]
TwoDays   == [t \in Touches |-> IF t = a2 THEN 3 ELSE 0]

Symmetric == Permutations(Items) \cup Permutations(Txs)
=============================================================================
