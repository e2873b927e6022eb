----------------------------- MODULE BreakerPool -----------------------------
(***************************************************************************)
(* The worker pool of one process around its shared circuit breaker:       *)
(* workers ask the breaker before they store to a target, store for some   *)
(* time, and record the outcome (or, when the object was aborted, record   *)
(* nothing).  The breaker's lock makes each call one step; what the        *)
(* workers do between their calls interleaves freely.                      *)
(***************************************************************************)
EXTENDS CircuitBreaker

CONSTANTS
    Target, Worker,
    MaxStore    \* ticks a Store may last before it has returned

ASSUME PoolAssumption == MaxStore \in Nat \ {0}

VARIABLES
    breaker,    \* target -> breaker entry
    call        \* worker -> the store it is busy with, or Idle

vars == <<breaker, call>>

Idle == [busy |-> FALSE]

Call == [busy : {TRUE}, target : Target, probe : BOOLEAN, age : 0..MaxStore]

TypeOK ==
    /\ breaker \in [Target -> Entry]
    /\ call \in [Worker -> Call \cup {Idle}]

Init ==
    /\ breaker = [t \in Target |-> Closed]
    /\ call = [w \in Worker |-> Idle]

-----------------------------------------------------------------------------
\* pendingTargets asks Open(t), is let through, and starts the store.
Begin(w, t) ==
    /\ call[w] = Idle
    /\ ~Blocks(breaker[t])
    /\ call' = [call EXCEPT ![w] = [busy |-> TRUE, target |-> t,
                                    probe |-> Probes(breaker[t]), age |-> 0]]
    /\ breaker' = [breaker EXCEPT ![t] = AfterOpen(@)]

\* The store returns and recordCircuit folds the outcome in.
Finish(w, ok) ==
    /\ call[w].busy
    /\ breaker' = [breaker EXCEPT ![call[w].target] = AfterRecord(@, ok)]
    /\ call' = [call EXCEPT ![w] = Idle]

\* The object was aborted: shouldRecordCircuit says no.
Abandon(w) ==
    /\ call[w].busy
    /\ call' = [call EXCEPT ![w] = Idle]
    /\ UNCHANGED breaker

\* Time passes for every cooldown and every store at once.
Tick ==
    /\ \A w \in Worker : call[w].busy => call[w].age < MaxStore
    /\ breaker' = [t \in Target |-> AfterTick(breaker[t])]
    /\ call' = [w \in Worker |->
                  IF call[w].busy THEN [call[w] EXCEPT !.age = @ + 1] ELSE Idle]

Next ==
    \/ \E w \in Worker, t \in Target : Begin(w, t)
    \/ \E w \in Worker, ok \in BOOLEAN : Finish(w, ok)
    \/ \E w \in Worker : Abandon(w)
    \/ Tick

Spec == Init /\ [][Next]_vars

-----------------------------------------------------------------------------
\* A target's circuit is open exactly while its window of the last
\* 2*threshold outcomes holds threshold failures (circuit.go Record), however
\* probes, their reservations and late outcomes of stores begun earlier
\* interleave; a closed circuit has no cooldown left over.
OpenIffTripped == \A t \in Target : EntryOK(breaker[t])

\* A down target is probed at most once per cooldown (circuit.go Open: a probe
\* re-reserves its slot): two half-open probes on their way to one target began
\* at least a cooldown apart, whoever trips, closes or re-trips the circuit in
\* between.  They can overlap: a store may last longer than the cooldown (30 min
\* per object against 60 s by default), so "re-probed by ONE object at a time"
\* (circuit.go Open) holds only for stores that return within it.
ProbesAreSpaced ==
    \A v, w \in Worker :
        /\ v # w
        /\ call[v].busy /\ call[w].busy
        /\ call[v].target = call[w].target
        /\ call[v].probe /\ call[w].probe
        => \/ call[v].age - call[w].age >= Cooldown
           \/ call[w].age - call[v].age >= Cooldown

\* Why ProbesAreSpaced holds: the reservation a probe made, or the trip it was
\* overtaken by, lasts until the probe is a cooldown old.
ProbeReserved ==
    \A w \in Worker :
        call[w].busy /\ call[w].probe =>
            LET b == breaker[call[w].target]
            IN  b.open => b.wait + call[w].age >= Cooldown

\* A success never trips a circuit, and only a success closes one: Record is
\* the only operation that moves a target across the boundary (circuit.go
\* Record; Open, Down and elapsed time never do).
BoundaryCrossings ==
    [][\A t \in Target :
          /\ breaker[t].open /\ ~breaker'[t].open =>
                /\ breaker'[t] = Closed
                /\ \E w \in Worker : Finish(w, TRUE) /\ call[w].target = t
          /\ ~breaker[t].open /\ breaker'[t].open =>
                \E w \in Worker : Finish(w, FALSE) /\ call[w].target = t
      ]_vars
=============================================================================
