---------------------------- MODULE MCInterviews ----------------------------
(* Model values for the runs of Interviews.tla. *)
EXTENDS Interviews, TLC

RequestSymmetry == Permutations(Requests)
=============================================================================
