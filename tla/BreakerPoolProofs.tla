-------------------------- MODULE BreakerPoolProofs --------------------------
(***************************************************************************)
(* Proofs about BreakerPool, for any number of targets and workers and any *)
(* threshold, cooldown and store duration.                                 *)
(***************************************************************************)
EXTENDS BreakerPool, CircuitBreakerProofs

Inv == TypeOK /\ OpenIffTripped

\* A worker's call is a store to a target exactly when it is busy.
LEMMA CallCases ==
    ASSUME TypeOK, NEW w \in Worker
    PROVE  /\ call[w].busy => call[w] \in Call
           /\ ~call[w].busy => call[w] = Idle
<1>1. call[w] \in Call \/ call[w] = Idle
  BY DEF TypeOK
<1>2. call[w] \in Call => call[w].busy = TRUE
  BY Zenon DEF Call
<1>3. call[w] = Idle => call[w].busy = FALSE
  BY DEF Idle
<1>4. QED
  BY <1>1, <1>2, <1>3

\* A store that has not reached its limit can grow older.
LEMMA OlderCall ==
    ASSUME NEW c \in Call, c.age < MaxStore
    PROVE  [c EXCEPT !.age = @ + 1] \in Call
<1>1. c.age + 1 \in 0..MaxStore
  BY PoolAssumption DEF Call
<1>2. QED
  BY Zenon, <1>1 DEF Call

\* Types are kept because each entry stays consistent (Record needs a window
\* that is not too long), and entries stay consistent because each operation
\* of the breaker keeps its own entry so and touches no other.
LEMMA Inductive == Spec => []Inv
<1>1. Init => Inv
  BY ClosedOK DEF Init, Inv, TypeOK, OpenIffTripped
<1>2. Inv /\ [Next]_vars => Inv'
  <2> SUFFICES ASSUME Inv, [Next]_vars PROVE Inv'
    OBVIOUS
  <2>0. /\ breaker \in [Target -> Entry] /\ call \in [Worker -> Call \cup {Idle}]
        /\ \A t \in Target : EntryOK(breaker[t])
    BY DEF Inv, TypeOK, OpenIffTripped
  <2>1. ASSUME NEW w \in Worker, NEW t \in Target, Begin(w, t) PROVE Inv'
    <3>1. call' \in [Worker -> Call \cup {Idle}]
      <4>1. [busy |-> TRUE, target |-> t, probe |-> Probes(breaker[t]), age |-> 0] \in Call
        BY PoolAssumption DEF Call, Probes
      <4>2. QED
        BY <2>0, <2>1, <4>1 DEF Begin
    <3>2. breaker' \in [Target -> Entry]
      BY <2>0, <2>1, OpenTickOK DEF Begin
    <3>3. \A u \in Target : EntryOK(breaker'[u])
      BY <2>0, <2>1, OpenTickOK DEF Begin
    <3>4. QED
      BY <3>1, <3>2, <3>3 DEF Inv, TypeOK, OpenIffTripped
  <2>2. ASSUME NEW w \in Worker, NEW ok \in BOOLEAN, Finish(w, ok) PROVE Inv'
    <3>1. call[w].target \in Target
      BY Zenon, <2>0, <2>2, CallCases DEF Finish, Inv, Call
    <3>2. AfterRecord(breaker[call[w].target], ok) \in Entry
      BY <2>0, <3>1, RecordType DEF EntryOK
    <3>3. EntryOK(AfterRecord(breaker[call[w].target], ok))
      BY <2>0, <3>1, RecordOK
    <3>4. breaker' \in [Target -> Entry] /\ \A u \in Target : EntryOK(breaker'[u])
      BY SMTT(30), <2>0, <2>2, <3>1, <3>2, <3>3 DEF Finish
    <3>5. QED
      BY <2>0, <2>2, <3>4 DEF Finish, Inv, TypeOK, OpenIffTripped
  <2>3. ASSUME NEW w \in Worker, Abandon(w) PROVE Inv'
    BY <2>0, <2>3 DEF Abandon, Inv, TypeOK, OpenIffTripped
  <2>4. CASE Tick
    <3>1. ASSUME NEW w \in Worker PROVE call'[w] \in Call \cup {Idle}
      <4>1. CASE call[w].busy
        <5>1. call[w] \in Call
          BY <4>1, CallCases DEF Inv
        <5>2. call[w].age < MaxStore
          BY <2>4, <4>1 DEF Tick
        <5>3. [call[w] EXCEPT !.age = @ + 1] \in Call
          BY <5>1, <5>2, OlderCall
        <5>4. QED
          BY <2>4, <4>1, <5>3 DEF Tick
      <4>2. CASE ~call[w].busy
        BY <2>0, <2>4, <4>2 DEF Tick
      <4>3. QED
        BY <4>1, <4>2
    <3>2. \A t \in Target : AfterTick(breaker[t]) \in Entry /\ EntryOK(AfterTick(breaker[t]))
      BY <2>0, OpenTickOK
    <3>3. breaker' \in [Target -> Entry] /\ \A t \in Target : EntryOK(breaker'[t])
      BY <2>4, <3>2 DEF Tick
    <3>4. call' \in [Worker -> Call \cup {Idle}]
      BY <2>4, <3>1 DEF Tick
    <3>5. QED
      BY <3>3, <3>4 DEF Inv, TypeOK, OpenIffTripped
  <2>5. CASE UNCHANGED vars
    BY <2>0, <2>5 DEF vars, Inv, TypeOK, OpenIffTripped
  <2>6. QED
    BY <2>1, <2>2, <2>3, <2>4, <2>5 DEF Next
<1>3. QED
  BY <1>1, <1>2, PTL DEF Spec

\* The circuit of a target is open exactly while the window of its last
\* 2*threshold outcomes holds threshold failures (circuit.go Record), with any
\* number of workers whose probes and late outcomes interleave.
THEOREM OpenMeansTripped == Spec => [](TypeOK /\ OpenIffTripped)
BY Inductive DEF Inv

\* A step across the open/closed boundary of a circuit is a Record: of a
\* success, which leaves a fresh breaker, or of a failure, which trips it.
THEOREM BoundariesAreRecords == Spec => BoundaryCrossings
<1>1. Inv /\ [Next]_vars =>
        [\A t \in Target :
            /\ breaker[t].open /\ ~breaker'[t].open =>
                  /\ breaker'[t] = Closed
                  /\ \E w \in Worker : Finish(w, TRUE) /\ call[w].target = t
            /\ ~breaker[t].open /\ breaker'[t].open =>
                  \E w \in Worker : Finish(w, FALSE) /\ call[w].target = t]_vars
  <2> SUFFICES ASSUME Inv, Next, NEW t \in Target,
                      breaker[t].open # breaker'[t].open
               PROVE  \E w \in Worker :
                         /\ call[w].target = t
                         /\ \/ /\ breaker[t].open /\ ~breaker'[t].open
                               /\ breaker'[t] = Closed /\ Finish(w, TRUE)
                            \/ /\ ~breaker[t].open /\ breaker'[t].open
                               /\ Finish(w, FALSE)
    BY ZenonT(60)
  <2>0. /\ breaker \in [Target -> Entry]
        /\ \A u \in Target : EntryOK(breaker[u])
    BY DEF Inv, TypeOK, OpenIffTripped
  <2>1. ASSUME NEW w \in Worker, NEW u \in Target, Begin(w, u) PROVE FALSE
    BY <2>0, <2>1 DEF Begin, AfterOpen, Entry
  <2>2. ASSUME NEW w \in Worker, Abandon(w) PROVE FALSE
    BY <2>2 DEF Abandon
  <2>3. CASE Tick
    BY <2>0, <2>3 DEF Tick, AfterTick, Entry
  <2>4. PICK w \in Worker, ok \in BOOLEAN : Finish(w, ok)
    BY Zenon, <2>1, <2>2, <2>3 DEF Next
  <2>5. call[w].target = t /\ breaker'[t] = AfterRecord(breaker[t], ok)
    BY <2>0, <2>4 DEF Finish
  <2>6. CASE breaker[t].open
    <3>1. ok = TRUE
      <4>1. ok # FALSE
        BY Zenon, <2>0, <2>5, <2>6, OpenAfterRecord DEF Entry
      <4>2. QED
        BY Zenon, <4>1
    <3>2. breaker'[t] = Closed /\ ~breaker'[t].open
      BY Zenon, <2>0, <2>5, <2>6, <3>1, OpenAfterRecord DEF Closed
    <3>3. QED
      BY Zenon, <2>4, <2>5, <2>6, <3>1, <3>2
  <2>7. CASE ~breaker[t].open
    <3>1. breaker[t] \in Entry /\ EntryOK(breaker[t]) /\ AfterRecord(breaker[t], ok) \in Entry
      BY <2>0, RecordType DEF EntryOK
    <3>2. breaker'[t].open
      BY <2>5, <2>7, <3>1 DEF Entry
    <3>3. ok = FALSE
      <4>1. ok # TRUE
        BY Zenon, <2>5, <2>7, <3>1, <3>2, SuccessNeverTrips
      <4>2. QED
        BY Zenon, <4>1
    <3>4. QED
      BY Zenon, <2>4, <2>5, <2>7, <3>2, <3>3
  <2>8. QED
    BY Zenon, <2>6, <2>7
<1>2. QED
  BY <1>1, Inductive, PTL DEF Spec, BoundaryCrossings

-----------------------------------------------------------------------------
\* The reservation a probe makes in Open is still in force as long as the probe
\* is on its way and younger than the cooldown.
LEMMA ReservationHolds == Spec => []ProbeReserved
<1>1. Init => ProbeReserved
  BY DEF Init, ProbeReserved, Idle
<1>2. Inv /\ ProbeReserved /\ [Next]_vars => ProbeReserved'
  <2> SUFFICES ASSUME Inv, ProbeReserved, [Next]_vars,
                      NEW v \in Worker, call'[v].busy, call'[v].probe,
                      breaker'[call'[v].target].open
               PROVE  breaker'[call'[v].target].wait + call'[v].age >= Cooldown
    BY DEF ProbeReserved
  <2> DEFINE t == call[v].target
  <2>0. /\ breaker \in [Target -> Entry] /\ call \in [Worker -> Call \cup {Idle}]
        /\ Cooldown \in Nat
    BY BreakerAssumption DEF Inv, TypeOK
  <2>1. call[v].busy => /\ t \in Target /\ call[v].age \in Nat
                        /\ breaker[t] \in Entry /\ breaker[t].wait \in Nat
    <3> SUFFICES ASSUME call[v].busy
                 PROVE  /\ t \in Target /\ call[v].age \in Nat
                        /\ breaker[t] \in Entry /\ breaker[t].wait \in Nat
      OBVIOUS
    <3>1. call[v] \in Call
      BY CallCases DEF Inv
    <3>2. t \in Target /\ call[v].age \in 0..MaxStore
      BY Zenon, <3>1 DEF Call
    <3>3. breaker[t] \in Entry /\ breaker[t].wait \in 0..Cooldown
      BY <2>0, <3>2 DEF Entry
    <3>4. QED
      BY <3>2, <3>3
  <2>2. call[v].busy /\ call[v].probe /\ breaker[t].open =>
            breaker[t].wait + call[v].age >= Cooldown
    BY DEF ProbeReserved
  <2>3. ASSUME NEW w \in Worker, NEW u \in Target, Begin(w, u)
        PROVE  breaker'[call'[v].target].wait + call'[v].age >= Cooldown
    <3>0. /\ breaker[u] \in Entry
          /\ breaker'[u].open = breaker[u].open
          /\ breaker'[u].wait = IF Probes(breaker[u]) THEN Cooldown ELSE breaker[u].wait
      BY Zenon, <2>0, <2>3, WaitAfter DEF Begin
    <3>1. CASE v = w
      <4>1. call'[v] = [busy |-> TRUE, target |-> u, probe |-> Probes(breaker[u]), age |-> 0]
        BY <2>0, <2>3, <3>1 DEF Begin
      <4>2. call'[v].target = u /\ call'[v].age = 0 /\ Probes(breaker[u])
        BY <4>1
      <4>3. QED
        BY <2>0, <3>0, <4>2
    <3>2. CASE v # w
      <4>1. call'[v] = call[v]
        BY SMTT(30), <2>0, <2>3, <3>2 DEF Begin
      <4>2. CASE t = u
        BY SMTT(30), <2>0, <2>1, <2>2, <3>0, <4>1, <4>2
      <4>3. CASE t # u
        <5>1. breaker'[t] = breaker[t]
          BY SMTT(30), <2>0, <2>1, <2>3, <4>1, <4>3 DEF Begin
        <5>2. QED
          BY SMTT(30), <2>2, <4>1, <5>1
      <4>4. QED
        BY <4>2, <4>3
    <3>3. QED
      BY <3>1, <3>2
  <2>4. ASSUME NEW w \in Worker, NEW ok \in BOOLEAN, Finish(w, ok)
        PROVE  breaker'[call'[v].target].wait + call'[v].age >= Cooldown
    <3>1. v # w
      BY <2>0, <2>4 DEF Finish, Idle
    <3>2. call'[v] = call[v]
      BY SMTT(30), <2>0, <2>4, <3>1 DEF Finish
    <3>3. CASE t = call[w].target
      <4>1. breaker'[t] = AfterRecord(breaker[t], ok)
        BY SMTT(30), <2>0, <2>1, <2>4, <3>2, <3>3 DEF Finish
      <4>2. \/ breaker'[t].wait = Cooldown
            \/ breaker[t].open /\ breaker'[t].wait = breaker[t].wait
        BY SMTT(30), <2>1, <3>2, <4>1, WaitAfter
      <4>3. QED
        BY SMTT(30), <2>0, <2>1, <2>2, <3>2, <4>2
    <3>4. CASE t # call[w].target
      <4>1. breaker'[t] = breaker[t]
        BY SMTT(30), <2>0, <2>1, <2>4, <3>2, <3>4 DEF Finish
      <4>2. QED
        BY SMTT(30), <2>2, <3>2, <4>1
    <3>5. QED
      BY <3>3, <3>4
  <2>5. ASSUME NEW w \in Worker, Abandon(w)
        PROVE  breaker'[call'[v].target].wait + call'[v].age >= Cooldown
    <3>1. v # w
      BY SMTT(30), <2>0, <2>5 DEF Abandon, Idle
    <3>2. QED
      BY SMTT(30), <2>0, <2>2, <2>5, <3>1 DEF Abandon
  <2>6. CASE Tick
    <3>1. call[v].busy
      BY <2>0, <2>6 DEF Tick, Idle
    <3>2. /\ call'[v].target = t /\ call'[v].age = call[v].age + 1
          /\ call'[v].probe = call[v].probe
      <4>1. call[v] \in Call
        BY <3>1, CallCases DEF Inv
      <4>2. call'[v] = [call[v] EXCEPT !.age = @ + 1]
        BY <2>6, <3>1 DEF Tick
      <4>3. QED
        BY Zenon, <4>1, <4>2 DEF Call
    <3>3. /\ breaker'[t].open = breaker[t].open
          /\ breaker'[t].wait = IF breaker[t].wait > 0 THEN breaker[t].wait - 1
                                ELSE breaker[t].wait
      BY Zenon, <2>1, <2>6, <3>1, WaitAfter DEF Tick
    <3>4. QED
      BY SMTT(30), <2>0, <2>1, <2>2, <3>1, <3>2, <3>3
  <2>7. CASE UNCHANGED vars
    BY <2>2, <2>7 DEF vars
  <2>8. QED
    BY SMTT(30), <2>3, <2>4, <2>5, <2>6, <2>7 DEF Next
<1>3. QED
  BY <1>1, <1>2, Inductive, PTL DEF Spec

\* Two probes on their way to one target began at least a cooldown apart
\* (circuit.go Open), however long a store may last: a probe is let through
\* only when no reservation is left, and then every probe still on its way is
\* at least a cooldown old.
THEOREM ProbesKeepApart == Spec => []ProbesAreSpaced
<1>1. Init => ProbesAreSpaced
  BY DEF Init, ProbesAreSpaced, Idle
<1>2. Inv /\ ProbeReserved /\ ProbesAreSpaced /\ [Next]_vars => ProbesAreSpaced'
  <2> SUFFICES ASSUME Inv, ProbeReserved, ProbesAreSpaced, [Next]_vars,
                      NEW v \in Worker, NEW w \in Worker, v # w,
                      call'[v].busy, call'[w].busy,
                      call'[v].target = call'[w].target,
                      call'[v].probe, call'[w].probe
               PROVE  \/ call'[v].age - call'[w].age >= Cooldown
                      \/ call'[w].age - call'[v].age >= Cooldown
    BY DEF ProbesAreSpaced
  <2> DEFINE Apart == \/ call'[v].age - call'[w].age >= Cooldown
                      \/ call'[w].age - call'[v].age >= Cooldown
  <2>0. call \in [Worker -> Call \cup {Idle}]
    BY DEF Inv, TypeOK
  <2>1. ASSUME NEW x \in Worker, NEW t \in Target, Begin(x, t) PROVE Apart
    <3>1. ASSUME NEW y \in Worker, y # x, call[y].busy, call[y].probe,
                 call[y].target = t, Probes(breaker[t])
          PROVE  call[y].age \in Nat /\ call[y].age >= Cooldown
      <4>1. call[y].age \in 0..MaxStore
        BY ZenonT(60), <3>1, CallCases DEF Inv, Call
      <4>2. QED
        BY <3>1, <4>1 DEF ProbeReserved, Probes
    <3>2. ASSUME NEW y \in Worker, y # x PROVE call'[y] = call[y]
      BY SMTT(30), <2>0, <2>1, <3>2 DEF Begin
    <3>3. call'[x] = [busy |-> TRUE, target |-> t, probe |-> Probes(breaker[t]), age |-> 0]
      BY <2>0, <2>1 DEF Begin
    <3>4. CASE v = x
      <4>1. /\ call'[w] = call[w] /\ call'[v].age = 0 /\ call[w].target = t
            /\ Probes(breaker[t])
        BY <3>2, <3>3, <3>4
      <4>2. call[w].age \in Nat /\ call[w].age >= Cooldown
        BY Zenon, <3>1, <3>4, <4>1
      <4>3. QED
        BY <4>1, <4>2, BreakerAssumption
    <3>5. CASE w = x
      <4>1. /\ call'[v] = call[v] /\ call'[w].age = 0 /\ call[v].target = t
            /\ Probes(breaker[t])
        BY <3>2, <3>3, <3>5
      <4>2. call[v].age \in Nat /\ call[v].age >= Cooldown
        BY Zenon, <3>1, <3>5, <4>1
      <4>3. QED
        BY <4>1, <4>2, BreakerAssumption
    <3>6. CASE v # x /\ w # x
      BY <3>2, <3>6 DEF ProbesAreSpaced
    <3>7. QED
      BY <3>4, <3>5, <3>6
  <2>2. ASSUME NEW x \in Worker, call' = [call EXCEPT ![x] = Idle] PROVE Apart
    BY <2>0, <2>2 DEF Idle, ProbesAreSpaced
  <2>3. CASE Tick
    <3>1. ASSUME NEW x \in Worker, call'[x].busy
          PROVE  /\ call[x].busy /\ call'[x].target = call[x].target
                 /\ call'[x].probe = call[x].probe
                 /\ call[x].age \in Nat /\ call'[x].age = call[x].age + 1
      <4>1. call[x].busy
        BY <2>3, <3>1 DEF Tick, Idle
      <4>2. call[x] \in Call /\ call'[x] = [call[x] EXCEPT !.age = @ + 1]
        BY SMTT(30), <2>3, <4>1, CallCases DEF Tick, Inv
      <4>3. call[x].age \in 0..MaxStore
        BY Zenon, <4>2 DEF Call
      <4>4. /\ call'[x].age = call[x].age + 1
            /\ call'[x].target = call[x].target /\ call'[x].probe = call[x].probe
        BY Zenon, <4>2 DEF Call
      <4>5. QED
        BY <4>1, <4>3, <4>4
    <3>2. \/ call[v].age - call[w].age >= Cooldown
          \/ call[w].age - call[v].age >= Cooldown
      BY Zenon, <3>1 DEF ProbesAreSpaced
    <3>3. QED
      BY <3>1, <3>2, BreakerAssumption
  <2>4. CASE UNCHANGED vars
    BY <2>4 DEF vars, ProbesAreSpaced
  <2>5. QED
    BY SMTT(30), <2>1, <2>2, <2>3, <2>4 DEF Next, Finish, Abandon
<1>3. QED
  BY <1>1, <1>2, Inductive, ReservationHolds, PTL DEF Spec
=============================================================================
