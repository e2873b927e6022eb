------------------------------ MODULE MCFanout ------------------------------
(* Fanout on small instances. *)
EXTENDS Fanout
=============================================================================
