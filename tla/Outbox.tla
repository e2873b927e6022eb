------------------------------- MODULE Outbox -------------------------------
(***************************************************************************)
(* The statements of internal/adapter/outbound/db/outbox.go on one row of  *)
(* the file_backup_outbox table, as operators from row to row.  Time is    *)
(* kept as far as the WHERE clauses compare it: visibleAt is NULL, in the  *)
(* future, or due; claimedAt is NULL, or younger or older than staleTTL.   *)
(* Every statement but Claim and ReapStale is guarded by                   *)
(* status='in_progress' and by nothing else.                               *)
(***************************************************************************)
EXTENDS Integers

CONSTANTS MaxAttempts, MaxDeliveries

ASSUME OutboxAssumption ==
    /\ MaxAttempts \in Nat \ {0}
    /\ MaxDeliveries \in Nat \ {0}

Terminal == {"done", "skipped", "dead_letter"}

OutboxRow ==
    [status : {"pending", "in_progress"} \cup Terminal,
     attempts : 0..MaxAttempts,
     deliveries : 0..MaxDeliveries,
     visible : {"null", "future", "due"},
     claim : {"null", "fresh", "stale"}]

\* The row that the server inserts next to a file.
NewRow == [status |-> "pending", attempts |-> 0, deliveries |-> 0,
           visible |-> "null", claim |-> "null"]

\* A row that another writer of the shared table left in_progress without a
\* claimedAt (ReapStale handles it).
StrayRow == [NewRow EXCEPT !.status = "in_progress"]

-----------------------------------------------------------------------------
\* The WHERE clause of claimSQL, and its SET.
Claimable(r) == r.status = "pending" /\ r.visible \in {"null", "due"}

Claimed(r) == [r EXCEPT !.status = "in_progress", !.claim = "fresh"]

\* A bug of transition: the status guard is missing.
TransitionUnguarded(r, new) == new

\* transition (and Fail): a no-op on a row that is not in_progress.
Transition(r, new) == IF r.status = "in_progress" THEN new ELSE r

MarkDone(r) == Transition(r, [r EXCEPT !.status = "done"])

\* A bug of Defer: the row keeps its attempts and is dead-lettered at the limit.
DeferCountsAttempt(r) ==
    Transition(r, [r EXCEPT !.status =
                       IF r.attempts + 1 >= MaxAttempts THEN "dead_letter" ELSE "pending",
                   !.claim = "null", !.attempts = @ + 1, !.visible = "future"])

Defer(r) == Transition(r, [r EXCEPT !.status = "pending", !.claim = "null",
                                    !.attempts = 0, !.visible = "future"])

\* A bug of Fail: the comparison with the limit is off by one.
FailOneMore(r) ==
    Transition(r, [r EXCEPT
        !.attempts = @ + 1,
        !.status = IF r.attempts >= MaxAttempts THEN "dead_letter" ELSE "pending",
        !.claim = "null", !.visible = "future"])

Fail(r) ==
    Transition(r, [r EXCEPT
        !.attempts = @ + 1,
        !.status = IF r.attempts + 1 >= MaxAttempts THEN "dead_letter" ELSE "pending",
        !.claim = "null", !.visible = "future"])

Release(r) == Transition(r, [r EXCEPT !.status = "pending", !.claim = "null",
                                      !.visible = "null"])

Skip(r) == Transition(r, [r EXCEPT !.status = "skipped", !.claim = "null"])

\* A bug of ReapStale: the age of the claim is not compared.
ReapableAtAnyAge(r) == r.status = "in_progress"

\* The WHERE clause of ReapStale, and its SET.
Reapable(r) == r.status = "in_progress" /\ r.claim \in {"null", "stale"}

Reaped(r) ==
    IF ~Reapable(r) THEN r
    ELSE [r EXCEPT
            !.deliveries = @ + 1,
            !.status = IF r.deliveries + 1 >= MaxDeliveries THEN "dead_letter" ELSE "pending",
            !.claim = "null"]
=============================================================================
