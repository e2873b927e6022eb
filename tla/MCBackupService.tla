--------------------------- MODULE MCBackupService ---------------------------
(* BackupService on small instances. *)
EXTENDS BackupService, TLC

CONSTANTS w1, w2, p1, p2, r1, r2, c1

OnePod == [w \in Job |-> p1]
TwoPods == (w1 :> p1) @@ (w2 :> p2)

\* Two rows of the same content, as for two files with equal bytes.
SameContent == [r \in Row |-> c1]

OneThenTwo == (r1 :> 1) @@ (r2 :> 2)
OnlyOne == (r1 :> 1)
=============================================================================
