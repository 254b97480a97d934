----------------------------- MODULE MCCampaign -----------------------------
(* A small instance of Campaign for TLC. *)
EXTENDS Campaign, TLC

CONSTANTS P1, P2, Qualifier, email, linkedin, t1, t2

MCSymmetry == Permutations({P1, P2}) \cup Permutations({email, linkedin}) \cup Permutations({t1, t2})
=============================================================================
