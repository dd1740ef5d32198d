----------------------------- MODULE MCPayments -----------------------------
(* Model values for the runs of Payments.tla. *)
EXTENDS Payments
=============================================================================
