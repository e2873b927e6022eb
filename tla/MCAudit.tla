------------------------------ MODULE MCAudit -------------------------------
(***************************************************************************)
(* Three objects, pages of two rows, two manifests, the second of which    *)
(* may be written during the audit; every sort of target.                  *)
(***************************************************************************)
EXTENDS Audit

MCId == {2, 4, 6}
MCName == 1..2
K(s, w, c, r) == [sort |-> s, worm |-> w, cred |-> c, reads |-> r]
MCKinds == {K("fs", FALSE, FALSE, TRUE), K("s3", TRUE, TRUE, FALSE),
            K("s3", TRUE, FALSE, FALSE), K("s3", TRUE, FALSE, TRUE)}
Shelf(a, b, p) == [body |-> <<a, b>>, pointer |-> p]
MCShelves == {Shelf(<<4, 2>>, <<>>, 1), Shelf(<<4, 2, 6>>, <<4, 2, 0>>, 0),
              Shelf(<<2, 0>>, <<2, 4, 6>>, 1)}
=============================================================================
