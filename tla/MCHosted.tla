------------------------------ MODULE MCHosted ------------------------------
(* Instances of Hosted for TLC: two research jobs of a prospect, two replies *)
(* of an enrollment.                                                         *)
EXTENDS Hosted

CONSTANTS e1, e2, r1, r2, f1, f2, t1

MCLoads   == {{e1, e2}, {r1, r2}}
MCResults == {[f \in Facts |-> IF f = f1 THEN 2 ELSE 1]}
=============================================================================
