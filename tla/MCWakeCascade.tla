--------------------------- MODULE MCWakeCascade ---------------------------
(* WakeCascade on small instances. *)
EXTENDS WakeCascade
=============================================================================
