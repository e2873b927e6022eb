------------------------------ MODULE MCLease ------------------------------
(* Lease with small durations in place of seconds. *)
EXTENDS Lease
=============================================================================
