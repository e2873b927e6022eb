----------------------------- MODULE LeaseProofs -----------------------------
(***************************************************************************)
(* Proofs about Lease, for every choice of durations that                  *)
(* config.validateLimits accepts and any number of failed sweeps: when a   *)
(* stuck row is caught, and when a claim can be taken from a live worker.  *)
(***************************************************************************)
EXTENDS Lease, TLAPS

\* How old a claim can be when its worker enters a phase.
Spent(ph) == CASE ph = "answer" -> 0
               [] ph = "backup" -> answer
               [] ph = "record" -> answer + PerObject
               [] OTHER -> answer + PerObject + Bookkeeping

\* A worker's claim is no older than its answer took and the phases since.
WithinBudget ==
    phase \in Busy =>
        /\ elapsed <= Limit(phase)
        /\ phase = "answer" => elapsed = answer
        /\ claimed => age <= Spent(phase) + elapsed

\* The next sweep begins before the claim is too old, and a sweep that has
\* begun leaves a tick for the next one.
ReaperOnTime ==
    /\ reaper # "waiting" /\ ~due => swept + tickIn <= ReapEvery
    /\ reaper = "swept" => missed = 0
    /\ claimed /\ reaper = "waiting" /\ due => age <= OldestAtSweep(missed)
    /\ claimed /\ reaper = "waiting" /\ ~due => age + tickIn <= OldestAtSweep(missed)
    /\ claimed /\ reaper = "sweeping" => age <= OldestAtSweep(missed) + swept
    /\ claimed /\ reaper = "swept" => age <= StaleTTL + swept

IInv == TypeOK /\ WithinBudget /\ ReaperOnTime

\* The intervals are durations, and the period is the longer of two.
LEMMA Periods ==
    /\ ReapEvery \in Nat \ {0} /\ Period \in Nat
    /\ ReapEvery <= Period /\ DBTimeout <= Period
BY LeaseAssumption DEF ReapEvery, Period

\* Each failed sweep costs one period.
LEMMA OneMoreSweep ==
    ASSUME NEW m \in Nat
    PROVE  /\ OldestAtSweep(m) \in Nat
           /\ OldestAtSweep(m) >= StaleTTL + Period
           /\ OldestAtSweep(m + 1) = OldestAtSweep(m) + Period
<1> DEFINE P == Period
<1>1. P \in Nat /\ StaleTTL \in Nat
  BY Periods, LeaseAssumption
<1>2. m * P \in Nat /\ (m + 1) * P = m * P + P /\ ((m + 1) + 1) * P = m * P + P + P
  BY <1>1
<1>3. QED
  BY <1>1, <1>2 DEF OldestAtSweep

\* Every budget holds initially, and every step of the worker, the reaper and
\* the clock keeps it.
LEMMA Inductive == Spec => []IInv
<1>1. Init => IInv
  <2> SUFFICES ASSUME Init PROVE IInv
    OBVIOUS
  <2>1. TypeOK
    <3>1. 0 \in 0..DBTimeout /\ ReapEvery \in 1..ReapEvery /\ 0 \in Nat
      BY Periods, LeaseAssumption
    <3>2. QED
      BY Zenon, <3>1 DEF Init, TypeOK
  <2>2. ~claimed /\ phase \notin Busy /\ reaper = "waiting"
    BY DEF Init, Busy
  <2>3. QED
    BY <2>1, <2>2 DEF IInv, WithinBudget, ReaperOnTime
<1>2. IInv /\ [Next]_vars => IInv'
  <2> SUFFICES ASSUME IInv, [Next]_vars PROVE IInv'
    OBVIOUS
  <2>0. TypeOK /\ WithinBudget /\ ReaperOnTime
    BY DEF IInv
  <2>1. CASE Claim
    <3>1. TypeOK'
      BY <2>0, <2>1 DEF Claim, TypeOK, Busy, reaperVars
    <3>2. WithinBudget'
      BY <2>1, LeaseAssumption DEF Claim, WithinBudget, Busy, Limit, Spent
    <3>3. ReaperOnTime'
      <4>1. OldestAtSweep(missed) \in Nat /\ OldestAtSweep(missed) >= tickIn
        BY <2>0, OneMoreSweep, Periods, LeaseAssumption DEF TypeOK
      <4>2. QED
        BY <2>0, <2>1, <4>1, LeaseAssumption DEF Claim, ReaperOnTime, TypeOK, reaperVars
    <3>4. QED
      BY <3>1, <3>2, <3>3 DEF IInv
  <2>2. CASE Advance
    <3>1. TypeOK'
      BY <2>0, <2>2 DEF Advance, TypeOK, Busy, reaperVars
    <3>2. WithinBudget'
      BY <2>0, <2>2, LeaseAssumption
      DEF Advance, WithinBudget, Busy, Limit, Spent, TypeOK
    <3>3. ReaperOnTime'
      BY <2>0, <2>2 DEF Advance, ReaperOnTime, reaperVars
    <3>4. QED
      BY <3>1, <3>2, <3>3 DEF IInv
  <2>3. CASE Settle
    <3>1. claimed' \in BOOLEAN /\ (claimed' => claimed)
      <4>1. CASE claimed' = FALSE
        BY Zenon, <4>1
      <4>2. CASE UNCHANGED claimed
        BY Zenon, <2>0, <4>2 DEF TypeOK
      <4>3. QED
        BY Zenon, <2>3, <4>1, <4>2 DEF Settle
    <3>2. TypeOK'
      BY <2>0, <2>3, <3>1 DEF Settle, TypeOK, Busy, reaperVars
    <3>3. WithinBudget'
      BY <2>3 DEF Settle, WithinBudget, Busy
    <3>4. ReaperOnTime'
      BY <2>0, <2>3, <3>1 DEF Settle, ReaperOnTime, reaperVars
    <3>5. QED
      BY <3>2, <3>3, <3>4 DEF IInv
  <2>4. CASE Crash \/ Restart
    <3>1. TypeOK'
      BY <2>0, <2>4 DEF Crash, Restart, TypeOK, Busy, reaperVars
    <3>2. WithinBudget'
      BY <2>4 DEF Crash, Restart, WithinBudget, Busy
    <3>3. ReaperOnTime'
      BY <2>0, <2>4 DEF Crash, Restart, ReaperOnTime, reaperVars
    <3>4. QED
      BY <3>1, <3>2, <3>3 DEF IInv
  <2>5. CASE SweepBegins
    <3>1. TypeOK'
      <4>1. 0 \in 0..DBTimeout
        BY LeaseAssumption
      <4>2. QED
        BY Zenon, <2>0, <2>5, <4>1 DEF SweepBegins, TypeOK, workerVars
    <3>2. WithinBudget'
      BY <2>0, <2>5 DEF SweepBegins, WithinBudget, Spent, workerVars
    <3>3. ReaperOnTime'
      <4>1. OldestAtSweep(missed) \in Nat
        BY <2>0, OneMoreSweep DEF TypeOK
      <4>2. QED
        BY <2>0, <2>5, <4>1, Periods DEF SweepBegins, ReaperOnTime, TypeOK, workerVars
    <3>4. QED
      BY <3>1, <3>2, <3>3 DEF IInv
  <2>6. CASE SweepRuns
    <3>1. claimed' \in BOOLEAN /\ (claimed' => claimed /\ ~Stale)
      BY Zenon, <2>6 DEF SweepRuns
    <3>2. TypeOK'
      BY <2>0, <2>6, <3>1 DEF SweepRuns, TypeOK, workerVars
    <3>3. WithinBudget'
      BY <2>0, <2>6, <3>1 DEF SweepRuns, WithinBudget, Spent, workerVars
    <3>4. ReaperOnTime'
      <4>1. claimed' => age <= StaleTTL
        BY <2>0, <3>1, LeaseAssumption DEF Stale, TypeOK
      <4>2. QED
        BY <2>0, <2>6, <4>1, LeaseAssumption DEF SweepRuns, ReaperOnTime, TypeOK, workerVars
    <3>5. QED
      BY <3>2, <3>3, <3>4 DEF IInv
  <2>7. CASE SweepEnds
    <3>1. TypeOK'
      BY <2>0, <2>7 DEF SweepEnds, TypeOK, workerVars
    <3>2. WithinBudget'
      BY <2>0, <2>7 DEF SweepEnds, WithinBudget, Spent, workerVars
    <3>3. ReaperOnTime'
      <4>1. missed = 0 /\ OldestAtSweep(missed) \in Nat
            /\ OldestAtSweep(missed) >= StaleTTL + Period
        BY <2>0, <2>7, OneMoreSweep DEF SweepEnds, ReaperOnTime
      <4>2. claimed => age <= StaleTTL + swept
        BY <2>0, <2>7 DEF SweepEnds, ReaperOnTime
      <4>3. QED
        BY <2>0, <2>7, <4>1, <4>2, Periods, LeaseAssumption
        DEF SweepEnds, ReaperOnTime, TypeOK, workerVars
    <3>4. QED
      BY <3>1, <3>2, <3>3 DEF IInv
  <2>8. CASE SweepFails
    <3>1. TypeOK'
      BY <2>0, <2>8 DEF SweepFails, TypeOK, workerVars
    <3>2. WithinBudget'
      BY <2>0, <2>8 DEF SweepFails, WithinBudget, Spent, workerVars
    <3>3. ReaperOnTime'
      <4>1. /\ OldestAtSweep(missed) \in Nat
            /\ OldestAtSweep(missed') = OldestAtSweep(missed) + Period
        BY <2>0, <2>8, OneMoreSweep DEF SweepFails, TypeOK
      <4>2. claimed => age <= OldestAtSweep(missed) + swept
        BY <2>0, <2>8 DEF SweepFails, ReaperOnTime
      <4>3. QED
        BY <2>0, <2>8, <4>1, <4>2, Periods, LeaseAssumption
        DEF SweepFails, ReaperOnTime, TypeOK, workerVars
    <3>4. QED
      BY <3>1, <3>2, <3>3 DEF IInv
  <2>9. CASE Tick
    <3>1. due' \in BOOLEAN
      BY Zenon, <2>9 DEF Tick
    <3>2. TypeOK'
      BY <2>0, <2>9, <3>1, Periods, LeaseAssumption DEF Tick, TypeOK
    <3>3. WithinBudget'
      BY <2>0, <2>9, LeaseAssumption DEF Tick, WithinBudget, Busy, Limit, Spent, TypeOK
    <3>4. ReaperOnTime'
      <4>1. /\ OldestAtSweep(missed) \in Nat
            /\ OldestAtSweep(missed') = OldestAtSweep(missed)
        BY <2>0, <2>9, OneMoreSweep DEF Tick, TypeOK
      <4>2. (due' <=> due \/ tickIn = 1) /\ (reaper = "waiting" => ~due)
        BY Zenon, <2>9 DEF Tick
      <4>3. QED
        BY <2>0, <2>9, <4>1, <4>2, Periods, LeaseAssumption DEF Tick, ReaperOnTime, TypeOK
    <3>5. QED
      BY <3>2, <3>3, <3>4 DEF IInv
  <2>10. CASE UNCHANGED vars
    BY <2>0, <2>10 DEF vars, workerVars, reaperVars, IInv, TypeOK, WithinBudget,
                       ReaperOnTime, Spent
  <2>11. QED
    BY ZenonT(40), <2>1, <2>2, <2>3, <2>4, <2>5, <2>6, <2>7, <2>8, <2>9, <2>10 DEF Next
<1>3. QED
  BY <1>1, <1>2, PTL DEF Spec

\* Consumer.reap catches a stuck row one period, and one more for each sweep
\* that failed, after staleTTL, whatever the durations are.
THEOREM StuckRowsAreCaught == Spec => []StuckRowIsCaught
<1>1. IInv => StuckRowIsCaught
  <2> SUFFICES ASSUME IInv, claimed PROVE age <= OldestAtSweep(missed) + DBTimeout
    BY DEF StuckRowIsCaught
  <2>1. OldestAtSweep(missed) \in Nat /\ OldestAtSweep(missed) >= StaleTTL + Period
    BY OneMoreSweep DEF IInv, TypeOK
  <2>2. QED
    BY <2>1, Periods, LeaseAssumption DEF IInv, TypeOK, ReaperOnTime
<1>2. QED
  BY <1>1, Inductive, PTL

\* With the durations that config.validateLimits accepts, ReapStale takes a row
\* from a worker that is still at it only if the claim's answer was slower than
\* the margin that staleTTL leaves.
THEOREM OnlySlowAnswersCostAClaim == Spec => TakenOnlyIfAnswerSlow
<1>1. IInv /\ [Next]_vars =>
        [SweepRuns /\ claimed /\ ~claimed' /\ phase \in Busy =>
            answer > StaleTTL - (PerObject + 2 * Bookkeeping)]_vars
  <2> SUFFICES ASSUME IInv, SweepRuns, claimed, ~claimed', phase \in Busy
               PROVE  answer > StaleTTL - (PerObject + 2 * Bookkeeping)
    OBVIOUS
  <2>1. age > StaleTTL
    BY Zenon DEF SweepRuns, Stale
  <2>2. age <= answer + PerObject + 2 * Bookkeeping
    BY LeaseAssumption DEF IInv, TypeOK, WithinBudget, Busy, Limit, Spent
  <2>3. QED
    BY <2>1, <2>2, LeaseAssumption DEF IInv, TypeOK
<1>2. QED
  BY <1>1, Inductive, PTL DEF Spec, TakenOnlyIfAnswerSlow
=============================================================================
