--------------------------- MODULE CircuitBreaker ---------------------------
(***************************************************************************)
(* The per-target circuit breaker of internal/domain/circuit.go, as pure   *)
(* operators on one target's entry, so that every module that shares a     *)
(* breaker between workers (BreakerPool, Pipeline) uses the same code.     *)
(*                                                                         *)
(* An entry has the rolling window of outcomes (recent, oldest first,      *)
(* TRUE = stored), whether the target has an openUntil entry (open), and   *)
(* how far openUntil still lies in the future (wait, 0 once the cooldown   *)
(* has elapsed).  The distance replaces the absolute time, so that the     *)
(* state stays finite without a clock.                                     *)
(***************************************************************************)
EXTENDS Integers, Sequences, FiniteSets

CONSTANTS
    Threshold,  \* failures within the window that trip the circuit
    Cooldown    \* how long a trip, or a reserved probe, blocks the target

ASSUME BreakerAssumption ==
    /\ Threshold \in Nat \ {0}
    /\ Cooldown \in Nat \ {0}

Window == 2 * Threshold

\* NewCircuitBreaker: no target has outcomes or an openUntil entry.
Closed == [recent |-> <<>>, open |-> FALSE, wait |-> 0]

Entry == [recent : Seq(BOOLEAN), open : BOOLEAN, wait : 0..Cooldown]

Fails(r) == Cardinality({i \in 1..Len(r) : ~r[i]})

-----------------------------------------------------------------------------
\* A bug of Open: the cooldown is never consulted, so nothing half-opens.
BlocksForGood(b) == b.open

\* Open(target) = TRUE: the caller skips the target.
Blocks(b) == b.open /\ b.wait > 0

\* A caller that Open lets through although the circuit is open is the
\* half-open probe.
Probes(b) == b.open /\ b.wait = 0

\* A bug of Open: the probe does not reserve its slot.
AfterOpenUnreserved(b) == b

\* The effect of Open: a probe reserves the slot for another cooldown.
AfterOpen(b) == IF Probes(b) THEN [b EXCEPT !.wait = Cooldown] ELSE b

\* Down: a pure read of the openUntil entry.
Down(b) == b.open

Trimmed(r) ==
    IF Len(r) > Window THEN SubSeq(r, Len(r) - Window + 1, Len(r)) ELSE r

\* A bug of Record: the comparison with the threshold is strict.
AfterRecordLate(b, ok) ==
    LET r == Trimmed(Append(b.recent, ok))
    IN  IF ok /\ b.open THEN Closed
        ELSE IF Fails(r) > Threshold
             THEN [recent |-> r, open |-> TRUE, wait |-> Cooldown]
             ELSE [b EXCEPT !.recent = r]

\* Record(target, ok).
AfterRecord(b, ok) ==
    LET r == Trimmed(Append(b.recent, ok))
    IN  IF ok /\ b.open THEN Closed
        ELSE IF Fails(r) >= Threshold
             THEN [recent |-> r, open |-> TRUE, wait |-> Cooldown]
             ELSE [b EXCEPT !.recent = r]

\* One unit of time passes.
AfterTick(b) == IF b.wait > 0 THEN [b EXCEPT !.wait = @ - 1] ELSE b

-----------------------------------------------------------------------------
\* The circuit is open exactly while the window holds Threshold failures.
\* Record tests the count only when it appends, and Open and the clock never
\* look at it: that the two stay equivalent is what makes "open" mean
\* "failing", whatever the interleaving of probes and late outcomes.
Tripped(b) == Fails(b.recent) >= Threshold

EntryOK(b) ==
    /\ Len(b.recent) <= Window
    /\ b.open <=> Tripped(b)
    /\ ~b.open => b.wait = 0
=============================================================================
