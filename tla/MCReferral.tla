----------------------------- MODULE MCReferral -----------------------------
(* Model values for the runs of Referral.tla. *)
EXTENDS Referral, TLC

RequestSymmetry == Permutations(Requests)
=============================================================================
