----------------------------- MODULE MCEligibility -----------------------------
(***************************************************************************)
(* Instances of Eligibility for TLC.                                       *)
(***************************************************************************)
EXTENDS Eligibility, TLC

CONSTANTS v1, v2, q1, q2

Symmetry == Permutations(Requests) \cup Permutations(Ids)

================================================================================
