------------------------- MODULE BackupServiceProofs -------------------------
(***************************************************************************)
(* The service implements its promise, for any number of pods, workers,    *)
(* targets, contents and rows and any set of faults.  A step of the        *)
(* service is a step of the pipeline or leaves it alone, so that what      *)
(* PipelineProofs shows of the pipeline holds here; what is left is the    *)
(* outbox, and the tie between a row and the job that works on it.         *)
(***************************************************************************)
EXTENDS BackupService, PipelineProofs

-----------------------------------------------------------------------------
\* Rows.

\* A row's type, with the counters below their limits as long as the row can
\* still be claimed or settled.
RowOK(r) ==
    /\ r \in OutboxRow
    /\ r.status \notin Terminal =>
          r.attempts < MaxAttempts /\ r.deliveries < MaxDeliveries

\* What a statement may do to a row: keep it in order, and not touch it once it
\* is terminal.
Moves(r, new) ==
    /\ RowOK(new)
    /\ r.status \in Terminal => new = r

\* The server's rows are in order.
LEMMA NewRowsOK == RowOK(NewRow) /\ RowOK(StrayRow)
  BY OutboxAssumption DEF RowOK, OutboxRow, NewRow, StrayRow, Terminal

\* A row that is given up by its worker, with new counters.
Requeued(r, st, a, d, v) ==
    [r EXCEPT !.status = st, !.attempts = a, !.deliveries = d,
              !.claim = "null", !.visible = v]

\* Such a row is in order if the counters are.
LEMMA RequeuedOK ==
    ASSUME NEW r \in OutboxRow, NEW st \in {"pending"} \cup Terminal,
           NEW a \in Int, NEW d \in Int, NEW v \in {"null", "future", "due"},
           0 <= a, 0 <= d, a <= MaxAttempts, d <= MaxDeliveries,
           st = "pending" => a < MaxAttempts /\ d < MaxDeliveries
    PROVE  /\ RowOK(Requeued(r, st, a, d, v))
           /\ Requeued(r, st, a, d, v).status = st
<1> DEFINE k == Requeued(r, st, a, d, v)
<1>1. a \in 0..MaxAttempts /\ d \in 0..MaxDeliveries
  BY OutboxAssumption
<1>2. /\ k \in OutboxRow
      /\ k.status = st /\ k.attempts = a /\ k.deliveries = d
  BY Zenon, <1>1 DEF OutboxRow, Requeued
<1> HIDE DEF k
<1>3. QED
  <2>1. RowOK(k) /\ k.status = st
    BY <1>2 DEF RowOK, Terminal
  <2>2. QED
    BY <2>1 DEF k

\* The statements of settle move a row, and only MarkDone makes it done.
LEMMA StatementsMove ==
    ASSUME NEW r, RowOK(r)
    PROVE  /\ Moves(r, MarkDone(r))
           /\ Moves(r, Skip(r)) /\ (Skip(r).status = "done" => r.status = "done")
           /\ Moves(r, Release(r)) /\ (Release(r).status = "done" => r.status = "done")
           /\ Moves(r, Defer(r)) /\ (Defer(r).status = "done" => r.status = "done")
           /\ Moves(r, Fail(r)) /\ (Fail(r).status = "done" => r.status = "done")
<1> USE OutboxAssumption DEF RowOK, Moves, OutboxRow, Terminal, Transition
<1>1. Moves(r, MarkDone(r))
  BY DEF MarkDone
<1>2. Moves(r, Skip(r)) /\ (Skip(r).status = "done" => r.status = "done")
  BY Zenon DEF Skip
<1>3. Moves(r, Release(r)) /\ (Release(r).status = "done" => r.status = "done")
  BY ZenonT(60) DEF Release
<1> HIDE DEF RowOK, Moves, Terminal, OutboxRow
<1>0. /\ r \in OutboxRow
      /\ r.attempts \in Int /\ r.deliveries \in Int
      /\ r.status = "in_progress" =>
            /\ 0 <= r.attempts /\ r.attempts < MaxAttempts
            /\ 0 <= r.deliveries /\ r.deliveries < MaxDeliveries
  BY DEF RowOK, OutboxRow, Terminal
<1>4. Moves(r, Defer(r)) /\ (Defer(r).status = "done" => r.status = "done")
  <2>1. CASE r.status = "in_progress"
    <3>1. Defer(r) = Requeued(r, "pending", 0, r.deliveries, "future")
      BY Zenon, <1>0, <2>1 DEF Defer, OutboxRow, Requeued
    <3>2. RowOK(Defer(r)) /\ Defer(r).status = "pending"
      BY SMTT(30), <1>0, <2>1, <3>1, RequeuedOK
    <3>3. QED
      BY SMTT(30), <2>1, <3>2 DEF Moves, Terminal
  <2>2. CASE r.status # "in_progress"
    BY SMTT(30), <2>2 DEF Defer, Moves
  <2>3. QED
    BY SMTT(30), <2>1, <2>2
<1>5. Moves(r, Fail(r)) /\ (Fail(r).status = "done" => r.status = "done")
  <2>1. CASE r.status = "in_progress"
    <3> DEFINE st == IF r.attempts + 1 >= MaxAttempts THEN "dead_letter" ELSE "pending"
    <3>1. Fail(r) = Requeued(r, st, r.attempts + 1, r.deliveries, "future")
      BY ZenonT(60), <1>0, <2>1 DEF Fail, OutboxRow, Requeued
    <3>2. /\ st \in {"pending"} \cup Terminal /\ st # "done"
          /\ st = "pending" => r.attempts + 1 < MaxAttempts
      BY SMTT(30), <1>0 DEF Terminal
    <3> HIDE DEF st
    <3>3. RowOK(Fail(r)) /\ Fail(r).status = st
      BY SMTT(30), <1>0, <2>1, <3>1, <3>2, RequeuedOK
    <3>4. QED
      BY SMTT(30), <2>1, <3>2, <3>3 DEF Moves, Terminal
  <2>2. CASE r.status # "in_progress"
    BY SMTT(30), <2>2 DEF Fail, Moves
  <2>3. QED
    BY <2>1, <2>2
<1>6. QED
  BY SMTT(30), <1>1, <1>2, <1>3, <1>4, <1>5

\* So do a claim, the reaper and the clock, none of which makes a row done.
LEMMA SweepsMove ==
    ASSUME NEW r, RowOK(r)
    PROVE  /\ Moves(r, Reaped(r)) /\ (Reaped(r).status = "done" => r.status = "done")
           /\ Claimable(r) => Moves(r, Claimed(r)) /\ Claimed(r).status # "done"
           /\ r.status = "in_progress" =>
                 /\ Moves(r, [r EXCEPT !.claim = "stale"])
                 /\ [r EXCEPT !.claim = "stale"].status # "done"
           /\ r.status \notin Terminal =>
                 /\ Moves(r, [r EXCEPT !.visible = "due"])
                 /\ [r EXCEPT !.visible = "due"].status # "done"
<1> USE OutboxAssumption DEF RowOK, Moves, OutboxRow, Terminal
<1>1. Moves(r, Reaped(r)) /\ (Reaped(r).status = "done" => r.status = "done")
  <2>1. CASE Reapable(r)
    <3> DEFINE st == IF r.deliveries + 1 >= MaxDeliveries THEN "dead_letter" ELSE "pending"
    <3>1. /\ r \in OutboxRow /\ r.status = "in_progress"
          /\ r.attempts \in Int /\ r.deliveries \in Int
          /\ 0 <= r.attempts /\ r.attempts < MaxAttempts
          /\ 0 <= r.deliveries /\ r.deliveries < MaxDeliveries
          /\ r.visible \in {"null", "future", "due"}
      BY <2>1 DEF Reapable
    <3>2. Reaped(r) = Requeued(r, st, r.attempts, r.deliveries + 1, r.visible)
      BY ZenonT(60), <2>1, <3>1 DEF Reaped, Requeued
    <3>3. /\ st \in {"pending"} \cup Terminal /\ st # "done"
          /\ st = "pending" => r.deliveries + 1 < MaxDeliveries
      BY SMTT(30), <3>1
    <3> HIDE DEF st, RowOK, OutboxRow, Moves, Terminal
    <3>4. RowOK(Reaped(r)) /\ Reaped(r).status = st
      BY SMTT(30), <3>1, <3>2, <3>3, RequeuedOK
    <3>5. QED
      BY SMTT(30), <3>1, <3>3, <3>4 DEF Moves, Terminal
  <2>2. CASE ~Reapable(r)
    BY <2>2 DEF Reaped
  <2>3. QED
    BY SMTT(30), <2>1, <2>2
<1>2. Claimable(r) => Moves(r, Claimed(r)) /\ Claimed(r).status # "done"
  BY ZenonT(60) DEF Claimable, Claimed
<1>3. QED
  BY SMTT(30), <1>1, <1>2

\* settle marks a row done only for a result that says done.
LEMMA SettledMoves ==
    ASSUME NEW r, RowOK(r), NEW s, NEW up
    PROVE  /\ Moves(r, Settled(r, s, up))
           /\ Settled(r, s, up).status = "done" => r.status = "done" \/ s.done
<1>1. CASE s.done /\ s.err = "nil"
  BY SMTT(30), <1>1, StatementsMove DEF Settled
<1>2. CASE ~(s.done /\ s.err = "nil")
  <2>1. Settled(r, s, up) \in {Release(r), Skip(r), Defer(r), Fail(r)}
    BY SMTT(30), <1>2 DEF Settled
  <2>2. QED
    BY SMTT(30), <2>1, StatementsMove
<1>3. QED
  BY SMTT(30), <1>1, <1>2

-----------------------------------------------------------------------------
\* Steps of the service.

\* Every step of the service is a step of the pipeline, or leaves it alone.
LEMMA ServiceStepsPipeline == [Next]_vars => [PipelineNext]_pipelineVars
<1> SUFFICES ASSUME [Next]_vars PROVE PipelineNext \/ UNCHANGED pipelineVars
  OBVIOUS
<1>1. ASSUME NEW w \in Job, NEW r \in Row, Claim(w, r) PROVE PipelineNext
  <2>1. ContentOf[r] \in Content
    BY SMTT(30), ServiceAssumption
  <2>2. QED
    BY SMTT(30), <1>1, <2>1 DEF Claim, PipelineNext
<1>2. ASSUME NEW w \in Job, Work(w) PROVE PipelineNext
  BY SMTT(30), <1>2 DEF Work, PipelineNext
<1>3. ASSUME NEW w \in Job, Settle(w) \/ Panic(w) PROVE PipelineNext
  BY SMTT(30), <1>3 DEF Settle, Panic, LetGo, PipelineNext
<1>4. ASSUME NEW p \in Pod,
             Shutdown(p) \/ Exit(p) \/ Crash(p) \/ \E t \in Target : CoolDown(p, t)
      PROVE  PipelineNext
  BY <1>4 DEF Shutdown, Exit, Crash, CoolDown, PipelineNext
<1>5. CASE Calm
  BY <1>5 DEF Calm, PipelineNext
<1>6. ASSUME NEW w \in Job, NEW r \in Row, ClaimLost(w, r) PROVE UNCHANGED pipelineVars
  BY <1>6 DEF ClaimLost
<1>7. ASSUME NEW r \in Row, Age(r) \/ BecomeDue(r) PROVE UNCHANGED pipelineVars
  BY SMTT(30), <1>7 DEF Age, BecomeDue
<1>8. ASSUME NEW p \in Pod, Reap(p) \/ Restart(p) PROVE UNCHANGED pipelineVars
  BY SMTT(30), <1>8 DEF Reap, Restart
<1>9. CASE Drained \/ UNCHANGED vars
  BY <1>9 DEF Drained, vars
<1>10. QED
  BY SMTT(30), <1>1, <1>2, <1>3, <1>4, <1>5, <1>6, <1>7, <1>8, <1>9 DEF Next, WorkerStep

\* What is proved of the pipeline holds in the service.
LEMMA ServiceRunsPipeline == Spec => PipelineSpec
<1>1. Init => PipelineInit
  BY DEF Init
<1>2. QED
  BY <1>1, ServiceStepsPipeline, PTL DEF Spec, PipelineSpec

\* A step of backupFrom keeps the job's object, does not end the job, and does
\* not touch other jobs.
LEMMA JobStepKeeps ==
    ASSUME TypeInv, NEW j \in Job, JobStep(j) \/ Timeout(j)
    PROVE  /\ job'[j].content = job[j].content /\ job'[j].pc # "idle"
           /\ \A i \in Job : i # j => job'[i] = job[i]
<1> DEFINE Goal == /\ job'[j].content = job[j].content /\ job'[j].pc # "idle"
                   /\ \A i \in Job : i # j => job'[i] = job[i]
<1> SUFFICES Goal
  OBVIOUS
<1>0. job \in [Job -> JobState] /\ job[j] \in JobState
  BY DEF TypeInv, PipelineTypeOK
<1>1. ASSUME NEW k, k.content = job[j].content, k.pc # "idle",
             job' = [job EXCEPT ![j] = k]
      PROVE  Goal
  BY SMTT(30), <1>0, <1>1
<1>2. ASSUME NEW s, s.content = job[j].content, NEW done, NEW deferred, NEW err,
             job' = [job EXCEPT ![j] = Returned(s, done, deferred, err)]
      PROVE  Goal
  <2>1. /\ Returned(s, done, deferred, err).content = job[j].content
        /\ Returned(s, done, deferred, err).pc # "idle"
    BY <1>2 DEF Returned, NoJob
  <2>2. QED
    BY Zenon, <1>1, <1>2, <2>1
<1> HIDE DEF Goal
<1>r. ASSUME NEW done, NEW deferred, NEW err, Return(j, done, deferred, err) PROVE Goal
  BY Zenon, <1>0, <1>2, <1>r DEF Return
<1>3. CASE ResolveStored(j)
  <2>1. CASE job' = [job EXCEPT ![j] =
                [@ EXCEPT !.pc = "pending", !.stored = StoredTargets(job[j].content)]]
    <3> DEFINE k == [job[j] EXCEPT !.pc = "pending", !.stored = StoredTargets(job[j].content)]
    <3>1. k.content = job[j].content /\ k.pc # "idle"
      BY SMTT(30), <1>0 DEF JobState
    <3>2. job' = [job EXCEPT ![j] = k]
      BY SMTT(30), <1>0, <2>1
    <3> HIDE DEF k
    <3>3. QED
      BY ZenonT(60), <1>1, <3>1, <3>2
  <2>2. CASE Return(j, FALSE, FALSE, "other")
    BY ZenonT(60), <1>r, <2>2
  <2>3. QED
    BY Zenon, <1>3, <2>1, <2>2 DEF ResolveStored
<1>4. CASE PendingTargets(j)
  <2> DEFINE s == job[j]
             missing == Target \ s.stored
             open == {t \in missing : Blocks(breaker[PodOf[j]][t])}
             k == [s EXCEPT !.pc = "fanout", !.skipped = open, !.pending = missing \ open]
             u == [s EXCEPT !.skipped = open]
  <2>1. k.content = s.content /\ k.pc # "idle" /\ u.content = s.content
    BY <1>0 DEF JobState
  <2>2. \/ job' = [job EXCEPT ![j] = k]
        \/ job' = [job EXCEPT ![j] = Returned(u, open = {}, open # {}, "nil")]
    BY ZenonT(60), <1>4 DEF PendingTargets
  <2> HIDE DEF k, u, open
  <2>3. QED
    BY SMTT(30), <1>1, <1>2, <2>1, <2>2
<1>5. CASE StreamVerified(j)
  <2> DEFINE k == [job[j] EXCEPT !.verified = TRUE]
  <2>1. k.content = job[j].content /\ k.pc # "idle"
    BY SMTT(30), <1>0, <1>5 DEF JobState, StreamVerified
  <2>2. job' = [job EXCEPT ![j] = k]
    BY SMTT(30), <1>0, <1>5 DEF StreamVerified
  <2> HIDE DEF k
  <2>3. QED
    BY Zenon, <1>1, <2>1, <2>2
<1>6. ASSUME NEW t \in Target, Commit(j, t) PROVE Goal
  <2> DEFINE k == [job[j] EXCEPT !.put = @ \cup {t}]
  <2>1. k.content = job[j].content /\ k.pc # "idle"
    BY SMTT(30), <1>0, <1>6 DEF JobState, Commit
  <2>2. job' = [job EXCEPT ![j] = k]
    BY SMTT(30), <1>0, <1>6 DEF Commit
  <2> HIDE DEF k
  <2>3. QED
    BY ZenonT(60), <1>1, <2>1, <2>2
<1>7. ASSUME NEW e, FetchFailed(j, e) PROVE Goal
  BY ZenonT(60), <1>r, <1>7 DEF FetchFailed
<1>8. ASSUME NEW ok, NEW e, FanOutReturns(j, ok, e) PROVE Goal
  <2> DEFINE k == [job[j] EXCEPT !.pc = "results", !.ok = ok, !.put = {}, !.ferr = e]
  <2>1. k.content = job[j].content /\ k.pc # "idle"
    BY <1>0 DEF JobState
  <2>2. job' = [job EXCEPT ![j] = k]
    BY SMTT(30), <1>0, <1>8 DEF FanOutReturns
  <2> HIDE DEF k
  <2>3. QED
    BY Zenon, <1>1, <2>1, <2>2
<1>9. CASE SourceFailed(j) \/ AllTargetsDied(j) \/ FanOutDone(j) \/ FanOutAborted(j)
  BY SMTT(30), <1>8, <1>9 DEF SourceFailed, AllTargetsDied, FanOutDone, FanOutAborted
<1>10. CASE RecordCircuit(j)
  <2> DEFINE k == [job[j] EXCEPT !.pc = "classify", !.ctx = "live"]
  <2>1. k.content = job[j].content /\ k.pc # "idle"
    BY <1>0 DEF JobState
  <2>2. job' = [job EXCEPT ![j] = k] \/ Return(j, FALSE, FALSE, "other")
    BY ZenonT(60), <1>0, <1>10 DEF RecordCircuit
  <2> HIDE DEF k
  <2>3. QED
    BY Zenon, <1>1, <1>r, <2>1, <2>2
<1>11. CASE Classify(j)
  <2> DEFINE k == Classified(job[j], {t \in Target : Down(breaker[PodOf[j]][t])})
             m == [k EXCEPT !.pc = "record"]
  <2>1. k \in JobState /\ k.content = job[j].content
    BY SMTT(30), <1>0, ClassifiedFields
  <2>2. \/ job' = [job EXCEPT ![j] = m]
        \/ job' = [job EXCEPT ![j] = Returned(k, k.done, k.deferred, k.err)]
    BY Zenon, <1>11 DEF Classify
  <2> HIDE DEF k
  <2>3. m.content = k.content /\ m.pc # "idle"
    BY <2>1 DEF JobState
  <2> HIDE DEF m
  <2>4. QED
    BY SMTT(30), <1>1, <1>2, <2>1, <2>2, <2>3
<1>12. CASE RecordBackup(j)
  BY ZenonT(60), <1>r, <1>12 DEF RecordBackup
<1>13. CASE Timeout(j)
  <2> DEFINE k == [job[j] EXCEPT !.ctx = "deadline"]
  <2>1. k.content = job[j].content /\ k.pc # "idle"
    BY SMTT(30), <1>0, <1>13 DEF JobState, Timeout, ReadsContext
  <2>2. job' = [job EXCEPT ![j] = k]
    BY SMTT(30), <1>0, <1>13 DEF Timeout
  <2> HIDE DEF k
  <2>3. QED
    BY Zenon, <1>1, <2>1, <2>2
<1>14. QED
  BY SMTT(30), <1>3, <1>4, <1>5, <1>6, <1>7, <1>9, <1>10, <1>11, <1>12, <1>13 DEF JobStep

-----------------------------------------------------------------------------
\* The invariant of the service.

ServiceTypes ==
    /\ row \in [Row -> OutboxRow]
    /\ held \in [Job -> Row \cup {NoRow}]
    /\ owner \in [Row -> Job \cup {Nobody}]
    /\ pod \in [Pod -> {"up", "draining", "down"}]

RowsOK == \A r \in Row : RowOK(row[r])

\* A worker that has a row runs a job, and on that row's object.
HeldOK ==
    \A w \in Job : held[w] # NoRow =>
        job[w].pc # "idle" /\ job[w].content = ContentOf[held[w]]

\* A row is done only if the ledger records its object on every target.
DoneIsRecorded ==
    \A r \in Row : row[r].status = "done" =>
        \A t \in Target : status[ContentOf[r]][t] = "stored"

ServiceInv == ServiceTypes /\ RowsOK /\ HeldOK /\ DoneIsRecorded

\* A row becomes done only in the hands of a worker whose job says so.
RowStep ==
    /\ row' \in [Row -> OutboxRow]
    /\ \A r \in Row :
        /\ Moves(row[r], row'[r])
        /\ row[r].status # "done" /\ row'[r].status = "done" =>
              /\ \E w \in Job : held[w] = r /\ job[w].pc = "returned" /\ job[w].done
              /\ \A q \in Row : q # r => row'[q] = row[q]

\* Every step of the service moves every row as it may.
LEMMA RowsMove == ServiceTypes /\ RowsOK /\ [Next]_vars => RowStep
<1> SUFFICES ASSUME ServiceTypes, RowsOK, [Next]_vars PROVE RowStep
  OBVIOUS
<1>0. /\ row \in [Row -> OutboxRow] /\ held \in [Job -> Row \cup {NoRow}]
      /\ \A r \in Row : RowOK(row[r]) /\ Moves(row[r], row[r])
  BY DEF ServiceTypes, RowsOK, Moves
<1>1. CASE UNCHANGED row
  BY SMTT(30), <1>0, <1>1 DEF RowStep
<1>2. ASSUME NEW q \in Row, NEW new, Moves(row[q], new),
             row' = [row EXCEPT ![q] = new],
             row[q].status # "done" /\ new.status = "done" =>
                \E w \in Job : held[w] = q /\ job[w].pc = "returned" /\ job[w].done
      PROVE  RowStep
  <2>1. new \in OutboxRow
    BY <1>2 DEF Moves, RowOK
  <2>2. QED
    BY SMTT(30), <1>0, <1>2, <2>1 DEF RowStep
<1>3. ASSUME NEW w \in Job, NEW r \in Row, Claim(w, r) \/ ClaimLost(w, r) PROVE RowStep
  <2>1. row' = [row EXCEPT ![r] = Claimed(row[r])] /\ Claimable(row[r])
    BY SMTT(30), <1>0, <1>3 DEF Claim, ClaimLost, Best
  <2>2. Moves(row[r], Claimed(row[r])) /\ Claimed(row[r]).status # "done"
    BY ZenonT(60), <1>0, <2>1, SweepsMove
  <2>3. QED
    BY Zenon, <1>2, <2>1, <2>2
<1>4. ASSUME NEW w \in Job, Settle(w) PROVE RowStep
  <2> DEFINE r == held[w]
             new == Settled(row[r], job[w], pod[PodOf[w]] = "up")
  <2>1. r \in Row /\ job[w].pc = "returned"
    BY SMTT(30), <1>0, <1>4 DEF Settle
  <2>2. Moves(row[r], new) /\ (new.status = "done" => row[r].status = "done" \/ job[w].done)
    BY SMTT(30), <1>0, <2>1, SettledMoves
  <2>3. row' = [row EXCEPT ![r] = new] \/ UNCHANGED row
    BY SMTT(30), <1>0, <1>4, <2>1 DEF Settle
  <2> HIDE DEF new
  <2>4. QED
    BY SMTT(30), <1>1, <1>2, <2>1, <2>2, <2>3
<1>5. ASSUME NEW w \in Job, Panic(w) PROVE RowStep
  <2> DEFINE r == held[w]
  <2>1. r \in Row
    BY SMTT(30), <1>0, <1>5 DEF Panic
  <2>2. Moves(row[r], Fail(row[r])) /\ (Fail(row[r]).status = "done" => row[r].status = "done")
    BY SMTT(30), <1>0, <2>1, StatementsMove
  <2>3. row' = [row EXCEPT ![r] = Fail(row[r])] \/ UNCHANGED row
    BY SMTT(30), <1>0, <1>5, <2>1 DEF Panic
  <2>4. QED
    BY SMTT(30), <1>1, <1>2, <2>1, <2>2, <2>3
<1>6. ASSUME NEW r \in Row, Age(r) PROVE RowStep
  <2>1. row' = [row EXCEPT ![r] = [row[r] EXCEPT !.claim = "stale"]]
    BY SMTT(30), <1>0, <1>6 DEF Age
  <2>2. row[r].status = "in_progress"
    BY <1>6 DEF Age
  <2>3. /\ Moves(row[r], [row[r] EXCEPT !.claim = "stale"])
        /\ [row[r] EXCEPT !.claim = "stale"].status # "done"
    BY Zenon, <1>0, <2>2, SweepsMove
  <2>4. QED
    BY ZenonT(60), <1>2, <2>1, <2>3
<1>7. ASSUME NEW r \in Row, BecomeDue(r) PROVE RowStep
  <2>1. row' = [row EXCEPT ![r] = [row[r] EXCEPT !.visible = "due"]]
    BY SMTT(30), <1>0, <1>7 DEF BecomeDue
  <2>2. row[r].status \notin Terminal
    BY SMTT(30), <1>7 DEF BecomeDue
  <2>3. /\ Moves(row[r], [row[r] EXCEPT !.visible = "due"])
        /\ [row[r] EXCEPT !.visible = "due"].status # "done"
    BY ZenonT(60), <1>0, <2>2, SweepsMove
  <2>4. QED
    BY ZenonT(60), <1>2, <2>1, <2>3
<1>8. ASSUME NEW p \in Pod, Reap(p) PROVE RowStep
  <2>1. row' = [r \in Row |-> Reaped(row[r])]
    BY SMTT(30), <1>8 DEF Reap
  <2>2. \A r \in Row : /\ Moves(row[r], Reaped(row[r]))
                       /\ Reaped(row[r]).status = "done" => row[r].status = "done"
    BY ZenonT(60), <1>0, SweepsMove
  <2>3. \A r \in Row : Reaped(row[r]) \in OutboxRow
    BY SMTT(30), <2>2 DEF Moves, RowOK
  <2>4. QED
    BY SMTT(30), <2>1, <2>2, <2>3 DEF RowStep
<1>9. ASSUME NEW p \in Pod, Shutdown(p) PROVE RowStep
  <2>1. PICK cut \in SUBSET {r \in Row : Claimable(row[r])} :
          row' = [r \in Row |-> IF r \in cut THEN Claimed(row[r]) ELSE row[r]]
    BY SMTT(30), <1>9 DEF Shutdown
  <2>2. \A r \in cut : /\ Moves(row[r], Claimed(row[r]))
                       /\ Claimed(row[r]).status # "done"
    BY ZenonT(60), <1>0, SweepsMove
  <2>3. \A r \in cut : Claimed(row[r]) \in OutboxRow
    BY SMTT(30), <2>2 DEF Moves, RowOK
  <2>4. QED
    BY SMTT(30), <1>0, <2>1, <2>2, <2>3 DEF RowStep
<1>10. QED
  BY SMTT(30), <1>1, <1>3, <1>4, <1>5, <1>6, <1>7, <1>8, <1>9
     DEF Next, WorkerStep, Work, Exit, Crash, Restart, CoolDown, Calm, Drained,
         serviceVars, vars

\* Every step keeps the tie between the workers' rows and their jobs.
LEMMA TieStep ==
    ASSUME Inv, ServiceTypes, HeldOK, [Next]_vars
    PROVE  /\ held' \in [Job -> Row \cup {NoRow}]
           /\ owner' \in [Row -> Job \cup {Nobody}]
           /\ pod' \in [Pod -> {"up", "draining", "down"}]
           /\ HeldOK'
<1> DEFINE Goal == /\ held' \in [Job -> Row \cup {NoRow}]
                   /\ owner' \in [Row -> Job \cup {Nobody}]
                   /\ pod' \in [Pod -> {"up", "draining", "down"}]
                   /\ HeldOK'
<1> SUFFICES Goal
  OBVIOUS
<1>0. /\ held \in [Job -> Row \cup {NoRow}] /\ owner \in [Row -> Job \cup {Nobody}]
      /\ pod \in [Pod -> {"up", "draining", "down"}]
      /\ job \in [Job -> JobState]
  BY SMTT(30) DEF ServiceTypes, Inv, TypeInv, PipelineTypeOK
<1>1. CASE UNCHANGED <<held, owner, pod, job>>
  BY SMTT(30), <1>0, <1>1 DEF HeldOK
<1>2. ASSUME NEW w \in Job, NEW r \in Row, Claim(w, r) PROVE Goal
  <2>1. /\ job' = [job EXCEPT ![w] = Started(ContentOf[r])]
        /\ held' = [held EXCEPT ![w] = r] /\ owner' = [owner EXCEPT ![r] = w]
        /\ pod' = pod
    BY SMTT(30), <1>2 DEF Claim, Begin
  <2>2. /\ Started(ContentOf[r]).pc # "idle"
        /\ Started(ContentOf[r]).content = ContentOf[r]
    BY SMTT(30) DEF Started, Returned, NoJob
  <2>3. HeldOK'
    BY SMTT(30), <1>0, <2>1, <2>2 DEF HeldOK
  <2>4. QED
    BY SMTT(30), <1>0, <2>1, <2>3
<1>3. ASSUME NEW w \in Job, Settle(w) \/ Panic(w) PROVE Goal
  <2>1. /\ job' = [job EXCEPT ![w] = NoJob] /\ held' = [held EXCEPT ![w] = NoRow]
        /\ owner' = owner /\ pod' = pod
    BY SMTT(30), <1>3 DEF Settle, Panic, LetGo, Finish
  <2>2. HeldOK'
    BY SMTT(30), <1>0, <2>1 DEF HeldOK
  <2>3. QED
    BY SMTT(30), <1>0, <2>1, <2>2
<1>4. ASSUME NEW w \in Job, Work(w) PROVE Goal
  <2>1. UNCHANGED <<held, owner, pod>>
    BY SMTT(30), <1>4 DEF Work, serviceVars
  <2>2. /\ job'[w].content = job[w].content /\ job'[w].pc # "idle"
        /\ \A i \in Job : i # w => job'[i] = job[i]
    BY SMTT(30), <1>4, JobStepKeeps DEF Work, Inv
  <2>3. HeldOK'
    BY SMTT(30), <1>0, <2>1, <2>2 DEF HeldOK
  <2>4. QED
    BY SMTT(30), <1>0, <2>1, <2>3
<1>5. ASSUME NEW w \in Job, NEW r \in Row, ClaimLost(w, r) PROVE Goal
  <2>1. UNCHANGED <<job, held, pod>> /\ owner' = [owner EXCEPT ![r] = Nobody]
    BY SMTT(30), <1>5 DEF ClaimLost, pipelineVars
  <2>2. QED
    BY SMTT(30), <1>0, <2>1 DEF HeldOK
<1>6. ASSUME NEW p \in Pod, Shutdown(p) PROVE Goal
  <2>1. /\ job' = [j \in Job |->
                     IF PodOf[j] = p /\ job[j].pc \in ReadsContext /\ job[j].ctx = "live"
                     THEN [job[j] EXCEPT !.ctx = "canceled"] ELSE job[j]]
        /\ held' = held /\ pod' = [pod EXCEPT ![p] = "draining"]
        /\ owner' \in [Row -> Job \cup {Nobody}]
    BY SMTT(30), <1>0, <1>6 DEF Shutdown, CancelJobs
  <2>2. \A j \in Job : /\ [job[j] EXCEPT !.ctx = "canceled"].pc = job[j].pc
                       /\ [job[j] EXCEPT !.ctx = "canceled"].content = job[j].content
    BY SMTT(30), <1>0 DEF JobState
  <2>3. \A j \in Job : job'[j].pc = job[j].pc /\ job'[j].content = job[j].content
    BY SMTT(30), <2>1, <2>2
  <2>4. HeldOK'
    BY SMTT(30), <1>0, <2>1, <2>3 DEF HeldOK
  <2>5. QED
    BY SMTT(30), <1>0, <2>1, <2>4
<1>7. ASSUME NEW p \in Pod, Exit(p) \/ Crash(p) PROVE Goal
  <2>1. /\ job' = [j \in Job |-> IF PodOf[j] = p THEN NoJob ELSE job[j]]
        /\ owner' = owner /\ pod' = [pod EXCEPT ![p] = "down"]
    BY SMTT(30), <1>7 DEF Exit, Crash, Die
  <2>2. \/ held' = [w \in Job |-> IF PodOf[w] = p THEN NoRow ELSE held[w]]
        \/ held' = held /\ \A w \in Job : PodOf[w] = p => job[w].pc = "idle"
    BY SMTT(30), <1>7 DEF Exit, Crash
  <2>3. /\ held' \in [Job -> Row \cup {NoRow}]
        /\ \A w \in Job : PodOf[w] = p => held'[w] = NoRow
        /\ \A w \in Job : PodOf[w] # p => held'[w] = held[w]
    BY SMTT(30), <1>0, <2>2 DEF HeldOK
  <2>4. HeldOK'
    BY SMTT(30), <1>0, <2>1, <2>3 DEF HeldOK
  <2>5. QED
    BY SMTT(30), <1>0, <2>1, <2>3, <2>4
<1>8. ASSUME NEW p \in Pod, Restart(p) PROVE Goal
  <2>1. UNCHANGED <<job, held, owner>> /\ pod' = [pod EXCEPT ![p] = "up"]
    BY SMTT(30), <1>8 DEF Restart, pipelineVars
  <2>2. QED
    BY SMTT(30), <1>0, <2>1 DEF HeldOK
<1>9. QED
  BY SMTT(30), <1>1, <1>2, <1>3, <1>4, <1>5, <1>6, <1>7, <1>8
     DEF Next, WorkerStep, Age, BecomeDue, Reap, CoolDown, Elapse, Calm, CalmDown,
         Drained, pipelineVars, serviceVars, vars

\* Every step keeps the invariant: a row becomes done when a job that returned
\* done is settled, and by then the ledger has the record.
LEMMA ServiceStep == Inv /\ ServiceInv /\ [Next]_vars => ServiceInv'
<1> SUFFICES ASSUME Inv, ServiceInv, [Next]_vars PROVE ServiceInv'
  OBVIOUS
<1>1. RowStep
  BY SMTT(30), RowsMove DEF ServiceInv
<1>2. ServiceTypes' /\ HeldOK'
  BY SMTT(30), <1>1, TieStep DEF ServiceInv, ServiceTypes, RowStep
<1>3. RowsOK'
  BY SMTT(30), <1>1 DEF RowsOK, RowStep, Moves
<1>4. \A c \in Content, t \in Target : status[c][t] = "stored" => status'[c][t] = "stored"
  <2>1. [\A c \in Content :
            /\ StoredTargets(c) \subseteq StoredTargets(c)'
            /\ size[c] = "verified" => size'[c] = "verified"]_pipelineVars
    BY SMTT(30), ServiceStepsPipeline, LedgerStep DEF Inv
  <2>2. CASE UNCHANGED pipelineVars
    BY SMTT(30), <2>2 DEF pipelineVars
  <2>3. CASE \A c \in Content : StoredTargets(c) \subseteq StoredTargets(c)'
    BY SMTT(30), <2>3 DEF StoredTargets
  <2>4. QED
    BY SMTT(30), <2>1, <2>2, <2>3
<1>5. DoneIsRecorded'
  <2> SUFFICES ASSUME NEW r \in Row, row'[r].status = "done", NEW t \in Target
               PROVE  status'[ContentOf[r]][t] = "stored"
    BY DEF DoneIsRecorded
  <2>1. ContentOf[r] \in Content
    BY SMTT(30), ServiceAssumption
  <2>2. CASE row[r].status = "done"
    BY SMTT(30), <1>4, <2>1, <2>2 DEF ServiceInv, DoneIsRecorded
  <2>3. CASE row[r].status # "done"
    <3>1. PICK w \in Job : held[w] = r /\ job[w].pc = "returned" /\ job[w].done
      BY SMTT(30), <1>1, <2>3 DEF RowStep
    <3>2. job[w].content = ContentOf[r]
      BY SMTT(30), <3>1, ServiceAssumption DEF ServiceInv, HeldOK
    <3>3. status[ContentOf[r]][t] = "stored"
      BY SMTT(30), <3>1, <3>2 DEF Inv, JobsOK, JobOK
    <3>4. QED
      BY SMTT(30), <1>4, <2>1, <3>3
  <2>4. QED
    BY SMTT(30), <2>2, <2>3
<1>6. QED
  BY SMTT(30), <1>2, <1>3, <1>5 DEF ServiceInv

\* The invariant of the pipeline and that of the outbox around it.
LEMMA ServiceInvariance == Spec => [](Inv /\ ServiceInv)
<1>1. Init => ServiceInv
  <2> SUFFICES ASSUME Init PROVE ServiceInv
    OBVIOUS
  <2>1. \A r \in Row : RowOK(row[r]) /\ row[r].status # "done"
    <3>1. NewRow.status # "done" /\ StrayRow.status # "done"
      BY DEF NewRow, StrayRow
    <3>2. QED
      BY SMTT(30), <3>1, NewRowsOK DEF Init
  <2>2. row \in [Row -> OutboxRow]
    BY SMTT(30), NewRowsOK DEF Init, RowOK
  <2>3. ServiceTypes
    BY SMTT(30), <2>2 DEF Init, ServiceTypes
  <2>4. HeldOK
    BY DEF Init, HeldOK
  <2>5. QED
    BY SMTT(30), <2>1, <2>3, <2>4 DEF ServiceInv, RowsOK, DoneIsRecorded
<1>2. QED
  BY <1>1, ServiceStep, ServiceRunsPipeline, Invariance, PTL DEF Spec

-----------------------------------------------------------------------------
\* Results.

\* The state of the service is always well formed; in particular no statement
\* takes a row's counters past their limits.
THEOREM ServiceTypesHold == Spec => []TypeOK
<1>1. Inv /\ ServiceInv => TypeOK
  BY DEF Inv, TypeInv, ServiceInv, ServiceTypes, TypeOK
<1>2. QED
  BY <1>1, ServiceInvariance, PTL

\* A row is done only if its object is on every target and the ledger says so,
\* whatever crashes, lost answers, reaped claims and late settles came before.
THEOREM DoneMeansBackedUp == Spec => []DoneIsBackedUp
<1>1. Inv /\ ServiceInv /\ StoredIsReal => DoneIsBackedUp
  BY SMTT(30), ServiceAssumption
     DEF ServiceInv, DoneIsRecorded, DoneIsBackedUp, StoredIsReal, StoredTargets
<1>2. QED
  BY <1>1, ServiceInvariance, ServiceRunsPipeline, LedgerIsReal, PTL

-----------------------------------------------------------------------------
\* The refinement of BackupPromise.

\* The outcome of a row, now and next.
LEMMA OutcomeIs ==
    ASSUME NEW r \in Row
    PROVE  /\ Outcome(r) \in {"open", "done", "given_up"}
           /\ Outcome(r) = "done" <=> row[r].status = "done"
           /\ Outcome(r) = "open" <=> row[r].status \notin Terminal
           /\ Outcome(r)' \in {"open", "done", "given_up"}
           /\ Outcome(r)' = "done" <=> row'[r].status = "done"
           /\ Outcome(r)' = "open" <=> row'[r].status \notin Terminal
           /\ row'[r] = row[r] => Outcome(r)' = Outcome(r)
BY SMTT(30) DEF Outcome, Terminal

\* A step either leaves every row alone and is one of backupFrom, or leaves the
\* sinks and the ledger alone.
LEMMA StepsAreApart ==
    ASSUME [Next]_vars
    PROVE  \/ UNCHANGED <<sink, status>>
           \/ \E w \in Job : Work(w)
<1>1. ASSUME NEW w \in Job, NEW r \in Row, Claim(w, r) \/ ClaimLost(w, r)
      PROVE  UNCHANGED <<sink, status>>
  BY SMTT(30), <1>1 DEF Claim, ClaimLost, Begin, pipelineVars
<1>2. ASSUME NEW w \in Job, Settle(w) \/ Panic(w) PROVE UNCHANGED <<sink, status>>
  BY SMTT(30), <1>2 DEF Settle, Panic, LetGo, Finish
<1>3. ASSUME NEW r \in Row, Age(r) \/ BecomeDue(r) PROVE UNCHANGED <<sink, status>>
  BY SMTT(30), <1>3 DEF Age, BecomeDue, pipelineVars
<1>4. ASSUME NEW p \in Pod, Reap(p) \/ Shutdown(p) \/ Exit(p) \/ Crash(p) \/ Restart(p)
      PROVE  UNCHANGED <<sink, status>>
  BY SMTT(30), <1>4 DEF Reap, Shutdown, Exit, Crash, Restart, CancelJobs, Die, pipelineVars
<1>5. ASSUME NEW p \in Pod, NEW t \in Target, CoolDown(p, t)
      PROVE  UNCHANGED <<sink, status>>
  BY SMTT(30), <1>5 DEF CoolDown, Elapse
<1>6. CASE Calm \/ Drained \/ UNCHANGED vars
  BY SMTT(30), <1>6 DEF Calm, CalmDown, Drained, pipelineVars, vars
<1>7. QED
  BY SMTT(30), <1>1, <1>2, <1>3, <1>4, <1>5, <1>6 DEF Next, WorkerStep

\* A step that changes rows completes one of them, whose record is complete, or
\* gives up some.
LEMMA RowsKeepPromise ==
    ASSUME Inv, ServiceInv, RowStep, UNCHANGED <<sink, status>>
    PROVE  Promise!PromiseNext
<1>1. UNCHANGED <<sink, [c \in Content |-> StoredTargets(c)]>>
  BY SMTT(30) DEF StoredTargets
<1>2. ASSUME NEW r \in Row, row[r].status # "done", row'[r].status = "done"
      PROVE  Promise!Complete(r)
  <2>1. Outcome(r) = "open" /\ Outcome(r)' = "done"
    BY SMTT(30), <1>2, OutcomeIs DEF RowStep, Moves
  <2>2. \A q \in Row : q # r => Outcome(q)' = Outcome(q)
    BY SMTT(30), <1>2, OutcomeIs DEF RowStep
  <2>3. PICK w \in Job : held[w] = r /\ job[w].pc = "returned" /\ job[w].done
    BY SMTT(30), <1>2 DEF RowStep
  <2>4. job[w].content = ContentOf[r] /\ ContentOf[r] \in Content
    BY SMTT(30), <2>3, ServiceAssumption DEF ServiceInv, HeldOK
  <2>5. StoredTargets(ContentOf[r]) = Target
    BY SMTT(30), <2>3, <2>4 DEF Inv, JobsOK, JobOK, StoredTargets
  <2>6. QED
    BY ZenonT(60), <1>1, <2>1, <2>2, <2>4, <2>5 DEF Promise!Complete
<1>3. ASSUME \A r \in Row : row'[r].status = "done" => row[r].status = "done"
      PROVE  \E R \in SUBSET Row : Promise!GiveUp(R)
  <2> DEFINE R == {r \in Row : Outcome(r) = "open" /\ Outcome(r)' = "given_up"}
  <2>1. \A r \in Row : Outcome(r)' = IF r \in R THEN "given_up" ELSE Outcome(r)
    BY SMTT(30), <1>3, OutcomeIs DEF RowStep, Moves
  <2>2. Promise!GiveUp(R)
    BY SMTT(30), <1>1, <2>1 DEF Promise!GiveUp
  <2> HIDE DEF R
  <2>3. R \in SUBSET Row
    BY DEF R
  <2>4. QED
    BY SMTT(30), <2>2, <2>3
<1>4. QED
  BY SMTT(30), <1>2, <1>3 DEF Promise!PromiseNext

\* A step of backupFrom adds a copy, records copies, or changes neither.
LEMMA JobsKeepPromise ==
    ASSUME Inv, NEW w \in Job, Work(w)
    PROVE  Promise!PromiseNext \/ UNCHANGED Promise!promiseVars
<1>0. /\ UNCHANGED row
      /\ \A r \in Row : Outcome(r)' = Outcome(r)
  BY SMTT(30), OutcomeIs DEF Work, serviceVars
<1>1. UNCHANGED [r \in Row |-> Outcome(r)]
  BY SMTT(30), <1>0
<1>2. job[w] \in JobState
  BY SMTT(30) DEF Inv, TypeInv, PipelineTypeOK
<1>3. CASE UNCHANGED <<sink, status>>
  BY SMTT(30), <1>1, <1>3 DEF Promise!promiseVars, StoredTargets
<1>4. ASSUME NEW t \in Target, Commit(w, t) PROVE Promise!PromiseNext
  <2>1. /\ sink' = [sink EXCEPT ![t] = @ \cup {job[w].content}]
        /\ UNCHANGED status /\ job[w].content \in Content
    BY SMTT(30), <1>2, <1>4 DEF Commit, JobState
  <2>2. UNCHANGED [c \in Content |-> StoredTargets(c)]
    BY SMTT(30), <2>1 DEF StoredTargets
  <2>3. Promise!Copy(t, job[w].content)
    BY SMTT(30), <1>1, <2>1, <2>2 DEF Promise!Copy
  <2>4. QED
    BY SMTT(30), <2>1, <2>3 DEF Promise!PromiseNext
<1>5. CASE RecordBackup(w) /\ ~UNCHANGED <<sink, status>>
  <2> DEFINE s == job[w]
  <2>1. /\ LedgerWrite(s.content, s.ok, s.failed, s.verified)
        /\ UNCHANGED sink /\ s.pc = "record"
    BY ZenonT(60), <1>5 DEF RecordBackup, ledgerVars
  <2>2. s.content \in Content /\ s.ok \in SUBSET Target
    BY SMTT(30), <1>2 DEF JobState
  <2>3. \A t \in s.ok : s.content \in sink[t]
    BY SMTT(30), <2>1, <2>2 DEF Inv, JobsOK, JobOK
  <2>4. \A c \in Content : StoredTargets(c)' =
            IF c = s.content THEN StoredTargets(c) \cup s.ok ELSE StoredTargets(c)
    BY SMTT(30), <2>1, <2>2 DEF LedgerWrite, Merged, StoredTargets, Inv, TypeInv, PipelineTypeOK
  <2> HIDE DEF s
  <2>5. Promise!Record(s.content, s.ok)
    BY ZenonT(60), <1>1, <2>1, <2>2, <2>3, <2>4 DEF Promise!Record
  <2>6. QED
    BY SMTT(30), <2>2, <2>5 DEF Promise!PromiseNext
<1>6. ASSUME ~RecordBackup(w), \A t \in Target : ~Commit(w, t)
      PROVE  UNCHANGED <<sink, status>>
  BY Zenon, <1>6 DEF Work, JobStep, Timeout, ResolveStored, PendingTargets, StreamVerified,
       FetchFailed, SourceFailed, AllTargetsDied, FanOutDone, FanOutAborted,
       FanOutReturns, RecordCircuit, Classify
<1>7. QED
  BY SMTT(30), <1>3, <1>4, <1>5, <1>6

\* The consumer and the pipeline implement BackupPromise: no record runs ahead
\* of a copy, no completion ahead of the record, no decision is revised.
THEOREM ServiceKeepsPromise == Spec => PromiseKept
<1>1. Init => Promise!PromiseInit
  <2> SUFFICES ASSUME Init PROVE Promise!PromiseInit
    OBVIOUS
  <2>1. \A r \in Row : row[r].status \notin Terminal
    <3>1. NewRow.status \notin Terminal /\ StrayRow.status \notin Terminal
      BY SMTT(30) DEF NewRow, StrayRow, Terminal
    <3>2. QED
      BY <3>1 DEF Init
  <2>2. \A r \in Row : Outcome(r) = "open"
    BY SMTT(30), <2>1, OutcomeIs
  <2>3. sink = [t \in Target |-> {}] /\ \A c \in Content : StoredTargets(c) = {}
    BY DEF Init, PipelineInit, StoredTargets
  <2>4. QED
    BY SMTT(30), <2>2, <2>3 DEF Promise!PromiseInit
<1>2. Inv /\ ServiceInv /\ [Next]_vars => [Promise!PromiseNext]_Promise!promiseVars
  <2> SUFFICES ASSUME Inv, ServiceInv, [Next]_vars
               PROVE  Promise!PromiseNext \/ UNCHANGED Promise!promiseVars
    BY SMTT(30)
  <2>1. RowStep
    BY RowsMove DEF ServiceInv
  <2>2. CASE UNCHANGED <<sink, status>>
    BY SMTT(30), <2>1, <2>2, RowsKeepPromise
  <2>3. ASSUME NEW w \in Job, Work(w)
        PROVE  Promise!PromiseNext \/ UNCHANGED Promise!promiseVars
    BY <2>3, JobsKeepPromise
  <2>4. QED
    BY SMTT(30), <2>2, <2>3, StepsAreApart
<1>3. QED
  BY <1>1, <1>2, ServiceInvariance, PTL DEF Spec, PromiseKept, Promise!PromiseSpec
=============================================================================
