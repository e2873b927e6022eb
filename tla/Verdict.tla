------------------------------ MODULE Verdict -------------------------------
(***************************************************************************)
(* The verdict policy that the three directions of an audit share          *)
(* (internal/domain/verdict.go, and the classifiers of audit.go,           *)
(* immutability.go and inventory.go).  Operators only: module Audit runs   *)
(* them.                                                                   *)
(*                                                                         *)
(* A kind says what sort of target is audited: sort is "s3" or "fs", worm  *)
(* that it is configured as immutable, cred that it has an audit           *)
(* credential, reads that the worker's own credential can read.            *)
(***************************************************************************)
EXTENDS Integers

Kind == [sort : {"s3", "fs"}, worm : BOOLEAN, cred : BOOLEAN, reads : BOOLEAN]

\* StatusUnknown, the zero value, is the verdict of a direction that has not
\* ended.
Status == {"unknown", "verified", "drift", "nodata", "unverifiable", "corrupt", "fault"}

\* readClient: reads use the audit credential if there is one.
Readable(kind) == kind.sort = "fs" \/ kind.cred \/ kind.reads

\* targetUnverifiableExempt.
Exempt(kind) == kind.worm /\ kind.sort = "s3" /\ ~kind.cred

\* VerdictStatus.Failed.
Failed(status, exempt) ==
    \/ status \in {"drift", "corrupt", "fault", "unknown"}
    \/ status = "unverifiable" /\ ~exempt

\* auditTally: the probes of one sweep.
NoTally == [checked |-> 0, missing |-> 0, errored |-> 0, denied |-> 0, panicked |-> FALSE]

AllReadDenied(a) == a.checked > 0 /\ a.denied = a.checked

\* auditTally.verdict.
TallyVerdict(a) ==
    CASE a.panicked -> "fault"
      [] ~a.panicked /\ a.missing > 0 -> "drift"
      [] ~a.panicked /\ a.missing = 0 /\ a.errored > 0 -> "unverifiable"
      [] OTHER -> "verified"

\* classifyInventoryErr.
ClassifyInventoryErr(e) ==
    CASE e \in {"notexist", "canceled"} -> "nodata"
      [] e \in {"panic", "ledger"} -> "fault"
      [] e = "corrupt" -> "corrupt"
      [] OTHER -> "unverifiable"

\* mergeToVerdict: an orphan that was seen before an error is still a drift.
MergeToVerdict(extra, e) ==
    CASE extra > 0 -> "drift"
      [] extra = 0 /\ e # "nil" -> ClassifyInventoryErr(e)
      [] OTHER -> "verified"

\* immutabilityProbe asks only a target that can report its object lock, with
\* an audit credential.
Asked(kind) == kind.sort = "s3" /\ ~Exempt(kind)

\* The verdict of a config read that fails.
ImmutabilityError(e) ==
    CASE e = "canceled" -> "nodata" [] e = "io" -> "unverifiable" [] e = "panic" -> "fault"

\* What a read of the object lock, on or off, and one of the versioning, "on",
\* "off" or an error, amount to: a lock that is off is a drift whether or not
\* the versioning can be read (versioningEnabled).
ImmutabilityProbe(locked, versioning) ==
    CASE versioning = "panic" -> "fault"
      [] versioning # "panic" /\ ~locked -> "drift"
      [] versioning \in {"io", "canceled"} /\ locked -> ImmutabilityError(versioning)
      [] versioning = "off" /\ locked -> "drift"
      [] OTHER -> "verified"
=============================================================================
