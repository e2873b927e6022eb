------------------------------- MODULE Keyset -------------------------------
(***************************************************************************)
(* The keyset-paged sweeps (internal/domain/keyset.go, and keysetSample of *)
(* internal/domain/audit.go).  Every sweep of the service reads its rows   *)
(* page by page, each page with a query of its own, while other processes  *)
(* go on inserting and deleting rows.                                      *)
(*                                                                         *)
(* Keys are positive numbers and 0 is the empty cursor.  Stored keys are   *)
(* even, so that the odd numbers are the random starts between them.  A    *)
(* page is served in ascending order, so it is kept as the set of its keys *)
(* that were not served yet.                                               *)
(*                                                                         *)
(* A cursor does not know what it will read: each operator below takes the *)
(* rows that its query sees, at the moment it is sent.                     *)
(***************************************************************************)
EXTENDS Integers, FiniteSets, FiniteSetsExt

CONSTANT PageSize   \* KeysetPageSize

ASSUME PageSizeAssumption == PageSize \in Nat \ {0}

\* What one sweep remembers between two queries.
Cursor(Key) ==
    [after : Key \cup {0},      \* the start, then the last key of the last page
     page : SUBSET Key,         \* keys of the last page still to be served
     last : BOOLEAN,            \* there is no page after this one
     wrapped : BOOLEAN,         \* a sampled sweep went back to the beginning
     consumed : Nat]            \* keys that a sampled sweep has used up

CursorAt(start) ==
    [after |-> start, page |-> {}, last |-> FALSE, wrapped |-> FALSE, consumed |-> 0]

\* One page query: the limit smallest keys after the cursor
\* (WHERE key > $after ORDER BY key LIMIT $limit).
Page(rows, after, limit) ==
    LET above == {k \in rows : k > after}
    IN  {k \in above : Cardinality({l \in above : l < k}) < limit}

\* A bug of keysetPull: a page that is exactly full is taken for the last one.
PulledFullIsLast(k, rows) ==
    LET p == Page(rows, k.after, PageSize)
    IN  [k EXCEPT !.page = p, !.last = Cardinality(p) <= PageSize,
                  !.after = IF p = {} THEN @ ELSE Max(p)]

\* keysetPull's fetch: a short page is the last one.
Pulled(k, rows) ==
    LET p == Page(rows, k.after, PageSize)
    IN  [k EXCEPT !.page = p, !.last = Cardinality(p) < PageSize,
                  !.after = IF p = {} THEN @ ELSE Max(p)]

\* keysetSample's guard at the top of a page: the budget is used up.
SampleDone(k, sample) == k.last \/ (sample > 0 /\ k.consumed >= sample)

\* A bug of wrapEnd: a pass that wrapped already wraps again.
SampledRewrapping(k, rows, sample, start) ==
    LET limit == IF sample > 0 THEN Min({PageSize, sample - k.consumed}) ELSE PageSize
        full == Page(rows, k.after, limit)
        kept == IF k.wrapped THEN {r \in full : r < start} ELSE full
        segmentEnd == Cardinality(full) < limit \/ kept # full
        wrap == segmentEnd /\ sample > 0 /\ start # 0
    IN  [page |-> kept, consumed |-> k.consumed + Cardinality(kept),
         after |-> IF wrap THEN 0 ELSE IF kept = {} THEN k.after ELSE Max(kept),
         wrapped |-> k.wrapped \/ wrap,
         last |-> segmentEnd /\ ~wrap]

\* A bug of trimAtBoundary: the wrapped pass runs on past its start.
SampledUntrimmed(k, rows, sample, start) ==
    LET limit == IF sample > 0 THEN Min({PageSize, sample - k.consumed}) ELSE PageSize
        full == Page(rows, k.after, limit)
        wrap == Cardinality(full) < limit /\ sample > 0 /\ ~k.wrapped /\ start # 0
    IN  [page |-> full, consumed |-> k.consumed + Cardinality(full),
         after |-> IF wrap THEN 0 ELSE IF full = {} THEN k.after ELSE Max(full),
         wrapped |-> k.wrapped \/ wrap,
         last |-> Cardinality(full) < limit /\ ~wrap]

\* keysetSample's page: the sample's budget bounds the query; the wrapped pass
\* is trimmed where the first one started (trimAtBoundary); the end of the
\* first pass wraps once to the beginning (wrapEnd).
Sampled(k, rows, sample, start) ==
    LET limit == IF sample > 0 THEN Min({PageSize, sample - k.consumed}) ELSE PageSize
        full == Page(rows, k.after, limit)
        kept == IF k.wrapped THEN {r \in full : r < start} ELSE full
        segmentEnd == Cardinality(full) < limit \/ kept # full
        wrap == segmentEnd /\ sample > 0 /\ ~k.wrapped /\ start # 0
    IN  [page |-> kept, consumed |-> k.consumed + Cardinality(kept),
         after |-> IF wrap THEN 0 ELSE IF kept = {} THEN k.after ELSE Max(kept),
         wrapped |-> k.wrapped \/ wrap,
         last |-> segmentEnd /\ ~wrap]
=============================================================================
