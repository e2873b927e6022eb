------------------------------ MODULE Pipeline ------------------------------
(***************************************************************************)
(* domain.Pipeline.backupFrom (internal/domain/backup.go): back up one     *)
(* object on every target that still needs it, and record the outcome in   *)
(* the ledger (db/queries/ledger.sql).                                     *)
(*                                                                         *)
(* A job is one execution of backupFrom.  Jobs run in pods (processes);    *)
(* the jobs of a pod share that pod's circuit breaker.  The ledger and the *)
(* sinks are shared by all.  A job takes a step at each point where other  *)
(* jobs can get in between: the dedup read, the breaker's Open calls, each *)
(* sink's commit, the return of the fan-out, the breaker's Record calls,   *)
(* the breaker's Down calls, and the ledger write.  The loops over targets *)
(* that make the breaker calls are one step each: the breaker keeps the    *)
(* targets' entries apart.                                                 *)
(*                                                                         *)
(* Inside the fan-out only what backupFrom can tell apart is kept: whether *)
(* the source stream was verified, which sinks committed, and how fanOut   *)
(* returned.  Nothing commits before the stream is verified; module Fanout *)
(* models how fanOut achieves that.                                        *)
(*                                                                         *)
(* The faults that may still happen are a variable: the environment may    *)
(* calm down for good, which is what the liveness properties need.         *)
(***************************************************************************)
EXTENDS CircuitBreaker

CONSTANTS
    Target,     \* the configured targets
    Content,    \* content hashes (externalID)
    Malformed,  \* the contents that ValidateContentHash rejects
    Job,        \* executions of backupFrom that can run at once
    Pod, PodOf, \* processes, and the process a job runs in
    Broken,     \* targets whose Store never succeeds
    Faults      \* kinds of fault that may happen, a subset of FaultKind

FaultKind == {"store", "source", "gone", "timeout", "db", "crash", "panic", "shutdown"}

ASSUME PipelineAssumption ==
    /\ Target # {}
    /\ Content # {}
    /\ Malformed \subseteq Content
    /\ PodOf \in [Job -> Pod]
    /\ Broken \subseteq Target
    /\ Faults \subseteq FaultKind

VARIABLES
    sink,       \* target -> contents it durably holds
    status,     \* content -> target -> state in file_backup_target_status
    size,       \* content -> what file_backup_object.size is worth
    breaker,    \* pod -> target -> breaker entry
    job,        \* job -> its local state
    faults      \* the kinds of fault that may still happen

ledgerVars == <<status, size>>
pipelineVars == <<sink, status, size, breaker, job, faults>>

-----------------------------------------------------------------------------
\* The local variables of backupFrom.
JobState ==
    [pc : {"idle", "resolve", "pending", "fanout", "results", "classify",
           "record", "returned"},
     content : Content,
     ctx : {"live", "deadline", "canceled"},
     stored : SUBSET Target,    \* dedup: targets that already have it
     skipped : SUBSET Target,   \* targets left out because found open
     pending : SUBSET Target,   \* targets fanned out to
     verified : BOOLEAN,        \* the stream was read to its end and verified
     put : SUBSET Target,       \* sinks that committed in this fan-out
     ok : SUBSET Target,        \* results[i].err = nil
     ferr : {"nil", "source", "abort"},
     failed : SUBSET Target,    \* statuses to record as failed
     done : BOOLEAN, deferred : BOOLEAN, err : {"nil", "gone", "other"}]

NoJob == [pc |-> "idle", content |-> CHOOSE c \in Content : TRUE,
          ctx |-> "live", stored |-> {}, skipped |-> {}, pending |-> {},
          verified |-> FALSE, put |-> {}, ok |-> {}, ferr |-> "nil",
          failed |-> {}, done |-> FALSE, deferred |-> FALSE, err |-> "nil"]

PipelineTypeOK ==
    /\ sink \in [Target -> SUBSET Content]
    /\ status \in [Content -> [Target -> {"none", "failed", "stored"}]]
    /\ size \in [Content -> {"absent", "hearsay", "verified"}]
    /\ breaker \in [Pod -> [Target -> Entry]]
    /\ job \in [Job -> JobState]
    /\ faults \subseteq Faults

PipelineInit ==
    /\ sink = [t \in Target |-> {}]
    /\ status = [c \in Content |-> [t \in Target |-> "none"]]
    /\ size = [c \in Content |-> "absent"]
    /\ breaker = [p \in Pod |-> [t \in Target |-> Closed]]
    /\ job = [j \in Job |-> NoJob]
    /\ faults = Faults

-----------------------------------------------------------------------------
\* The ledger.

\* ListStoredTargets.
StoredTargets(c) == {t \in Target : status[c][t] = "stored"}

\* A bug of RecordBackup's upsert: the last writer's state wins.
MergedLastWins(old, t, ok, failed) ==
    IF t \in ok THEN "stored" ELSE IF t \in failed THEN "failed" ELSE old

\* RecordBackup's upsert of one status row: stored never regresses.
Merged(old, t, ok, failed) ==
    IF t \in ok THEN "stored"
    ELSE IF t \in failed /\ old # "stored" THEN "failed" ELSE old

\* RecordBackup's upsert of the object row: only a verified size overwrites.
SizeMerged(old, verified) ==
    IF verified THEN "verified" ELSE IF old = "absent" THEN "hearsay" ELSE old

\* RecordBackup: object row and status rows in one atomic statement.
LedgerWrite(c, ok, failed, verified) ==
    /\ status' = [status EXCEPT ![c] =
                    [t \in Target |-> Merged(@[t], t, ok, failed)]]
    /\ size' = [size EXCEPT ![c] = SizeMerged(@, verified)]

-----------------------------------------------------------------------------
\* Returning from backupFrom.
Returned(s, done, deferred, err) ==
    [NoJob EXCEPT !.pc = "returned", !.content = s.content,
                  !.skipped = s.skipped,
                  !.done = done, !.deferred = deferred, !.err = err]

Return(j, done, deferred, err) ==
    job' = [job EXCEPT ![j] = Returned(@, done, deferred, err)]

\* BackupOne: precheck, then the dedup read is next.
Started(c) ==
    IF c \in Malformed
    THEN Returned([NoJob EXCEPT !.content = c], FALSE, FALSE, "other")
    ELSE [NoJob EXCEPT !.pc = "resolve", !.content = c]

\* backupFrom with a stored set the caller read earlier (reconcile).
StartedKnown(c, known) ==
    IF c \in Malformed THEN Started(c)
    ELSE [NoJob EXCEPT !.pc = "pending", !.content = c, !.stored = known]

\* resolveStored: one ledger query, bound by the job's context.
ResolveStored(j) ==
    /\ job[j].pc = "resolve"
    /\ \/ /\ job[j].ctx = "live"
          /\ job' = [job EXCEPT ![j] =
                [@ EXCEPT !.pc = "pending", !.stored = StoredTargets(job[j].content)]]
       \/ /\ job[j].ctx # "live" \/ "db" \in faults
          /\ Return(j, FALSE, FALSE, "other")
    /\ UNCHANGED <<sink, status, size, breaker, faults>>

\* pendingTargets: skip what is stored, ask Open of every other target (which
\* may reserve its half-open probe), and fan out to those let through.
PendingTargets(j) ==
    LET s == job[j]
        p == PodOf[j]
        missing == Target \ s.stored
        open == {t \in missing : Blocks(breaker[p][t])}
    IN  /\ s.pc = "pending"
        /\ breaker' = [breaker EXCEPT ![p] =
              [t \in Target |-> IF t \in missing THEN AfterOpen(@[t]) ELSE @[t]]]
        /\ job' = [job EXCEPT ![j] =
              IF missing = open
              THEN Returned([s EXCEPT !.skipped = open],
                            open = {}, open # {}, "nil")
              ELSE [s EXCEPT !.pc = "fanout", !.skipped = open,
                             !.pending = missing \ open]]
        /\ UNCHANGED <<sink, status, size, faults>>

-----------------------------------------------------------------------------
\* The fan-out.

\* The targets of a fan-out that may fail.
MayFail == IF "store" \in faults THEN Target ELSE Broken

\* The stream has been delivered to the pipes and VerifyReader accepted it:
\* closing the pipes now gives every live target its end of file.
StreamVerified(j) ==
    /\ job[j].pc = "fanout" /\ ~job[j].verified
    /\ job' = [job EXCEPT ![j] = [@ EXCEPT !.verified = TRUE]]
    /\ UNCHANGED <<sink, status, size, breaker, faults>>

\* A sink read its stream to the end of file and commits the object.  What it
\* answers is decided by the return: a commit may still be reported failed (a
\* lost answer, a directory sync error after the rename).  A store that commits
\* after it was abandoned is such a commit too: no job ever reads the sinks.
Commit(j, t) ==
    /\ job[j].pc = "fanout" /\ job[j].verified
    /\ t \in job[j].pending \ (job[j].put \cup Broken)
    /\ sink' = [sink EXCEPT ![t] = @ \cup {job[j].content}]
    /\ job' = [job EXCEPT ![j] = [job[j] EXCEPT !.put = @ \cup {t}]]
    /\ UNCHANGED <<status, size, breaker, faults>>

\* FetchContent failed: nil results, nothing is recorded.
FetchFailed(j, e) ==
    /\ job[j].pc = "fanout" /\ ~job[j].verified
    /\ \/ e = "gone" /\ "gone" \in faults
       \/ e = "other" /\ ("source" \in faults \/ job[j].ctx # "live")
    /\ Return(j, FALSE, FALSE, e)
    /\ UNCHANGED <<sink, status, size, breaker, faults>>

FanOutReturns(j, ok, ferr) ==
    /\ job' = [job EXCEPT ![j] =
          [@ EXCEPT !.pc = "results", !.ok = ok, !.put = {}, !.ferr = ferr]]
    /\ UNCHANGED <<sink, status, size, breaker, faults>>

\* The source read failed (integrity mismatch, connection lost, panic): every
\* pipe is closed with that error, so no target sees its end of file.
SourceFailed(j) ==
    /\ job[j].pc = "fanout" /\ ~job[j].verified /\ job[j].ctx = "live"
    /\ "source" \in faults
    /\ FanOutReturns(j, {}, "source")

\* Every target died before the end of the stream (io.ErrClosedPipe).
AllTargetsDied(j) ==
    /\ job[j].pc = "fanout" /\ ~job[j].verified /\ job[j].ctx = "live"
    /\ job[j].pending \subseteq MayFail
    /\ FanOutReturns(j, {}, "nil")

\* A bug of fanOut: a target that reports success is believed although it did
\* not read its stream to the end.
FanOutDoneUnchecked(j) ==
    /\ job[j].pc = "fanout" /\ job[j].verified /\ job[j].ctx = "live"
    /\ \E ok \in SUBSET job[j].pending :
          /\ job[j].pending \ ok \subseteq MayFail
          /\ FanOutReturns(j, ok, "nil")

\* The stream was verified and every Store has returned.
FanOutDone(j) ==
    /\ job[j].pc = "fanout" /\ job[j].verified /\ job[j].ctx = "live"
    /\ \E ok \in SUBSET job[j].put :
          /\ job[j].pending \ ok \subseteq MayFail
          /\ FanOutReturns(j, ok, "nil")

\* The context ended: stores still running are abandoned and count as failed.
FanOutAborted(j) ==
    /\ job[j].pc = "fanout" /\ job[j].ctx # "live"
    /\ \E ok \in SUBSET job[j].put :
          /\ job[j].ctx = "deadline" /\ "timeout" \notin Faults =>
                job[j].pending \ ok \subseteq MayFail
          /\ FanOutReturns(j, ok, "abort")

-----------------------------------------------------------------------------
\* Back in backupFrom: a source error with a context that is still live (it
\* is read again here) records nothing; otherwise recordCircuit folds the
\* results in when shouldRecordCircuit says that they are the targets' own.
RecordCircuit(j) ==
    LET s == job[j]
        p == PodOf[j]
        fold == s.ferr = "nil" \/ (s.ctx = "deadline" /\ s.verified)
    IN  /\ s.pc = "results"
        /\ IF s.ferr # "nil" /\ s.ctx = "live"
           THEN Return(j, FALSE, FALSE, "other") /\ UNCHANGED breaker
           ELSE /\ job' = [job EXCEPT ![j] =
                              [@ EXCEPT !.pc = "classify", !.ctx = "live"]]
                /\ breaker' = IF fold
                     THEN [breaker EXCEPT ![p] = [t \in Target |->
                             IF t \in s.pending
                             THEN AfterRecord(@[t], t \in s.ok) ELSE @[t]]]
                     ELSE breaker
        /\ UNCHANGED <<sink, status, size, faults>>

\* A bug of classifyFanout: a target that was skipped does not hold back done.
ClassifiedSkippedIsDone(s, down) ==
    LET gaps == s.pending \ s.ok
        healthyFailed == gaps \ down
        done == gaps = {} /\ s.ferr = "nil"
    IN  [s EXCEPT !.skipped = @ \cup (gaps \cap down),
                  !.failed = IF s.ferr = "nil" THEN healthyFailed ELSE {},
                  !.done = done,
                  !.deferred = healthyFailed = {} /\ ~done,
                  !.err = IF healthyFailed # {} /\ s.ferr # "nil"
                          THEN "other" ELSE "nil"]

\* classifyFanout on a job's state, given the targets that are Down: what to
\* record and what backupFrom will return once it is recorded.
Classified(s, down) ==
    LET gaps == s.pending \ s.ok
        healthyFailed == gaps \ down
        done == gaps = {} /\ s.skipped = {} /\ s.ferr = "nil"
    IN  [s EXCEPT !.skipped = @ \cup (gaps \cap down),
                  !.failed = IF s.ferr = "nil" THEN healthyFailed ELSE {},
                  !.done = done,
                  !.deferred = healthyFailed = {} /\ ~done,
                  !.err = IF healthyFailed # {} /\ s.ferr # "nil"
                          THEN "other" ELSE "nil"]

\* classifyFanout reads the breaker once more (Down, not Open); without a
\* status to record, backupFrom returns at once.
Classify(j) ==
    LET s == Classified(job[j],
                        {t \in Target : Down(breaker[PodOf[j]][t])})
    IN  /\ s.pc = "classify"
        /\ job' = [job EXCEPT ![j] =
              IF s.ok \cup s.failed # {} THEN [s EXCEPT !.pc = "record"]
              ELSE Returned(s, s.done, s.deferred, s.err)]
        /\ UNCHANGED <<sink, status, size, breaker, faults>>

\* RecordBackup on the detached context, then return.  A database error may
\* hide a write that was applied.
RecordBackup(j) ==
    LET s == job[j]
    IN  /\ s.pc = "record"
        /\ \/ /\ LedgerWrite(s.content, s.ok, s.failed, s.verified)
              /\ Return(j, s.done, s.deferred, s.err)
           \/ /\ "db" \in faults
              /\ \/ LedgerWrite(s.content, s.ok, s.failed, s.verified)
                 \/ UNCHANGED ledgerVars
              /\ Return(j, FALSE, FALSE, "other")
        /\ UNCHANGED <<sink, breaker, faults>>

-----------------------------------------------------------------------------
\* Where backupFrom may still look at its context.  Past these points the
\* context is forgotten: the ledger write runs on a detached one.
ReadsContext == {"resolve", "pending", "fanout", "results"}

\* The per-object timeout of a job fires; a target that hangs while it
\* finalizes can cause it too.
Timeout(j) ==
    /\ job[j].pc \in ReadsContext /\ job[j].ctx = "live"
    /\ \/ "timeout" \in faults
       \/ job[j].verified /\ job[j].pending \cap Broken # {}
    /\ job' = [job EXCEPT ![j] = [@ EXCEPT !.ctx = "deadline"]]
    /\ UNCHANGED <<sink, status, size, breaker, faults>>

\* The context that the jobs of a pod derive from is cancelled.
CancelJobs(p) ==
    /\ job' = [j \in Job |->
                 IF PodOf[j] = p /\ job[j].pc \in ReadsContext /\ job[j].ctx = "live"
                 THEN [job[j] EXCEPT !.ctx = "canceled"] ELSE job[j]]
    /\ UNCHANGED <<sink, status, size, breaker, faults>>

\* Time passes for a breaker.
Elapse(p, t) ==
    /\ breaker[p][t].wait > 0
    /\ breaker' = [breaker EXCEPT ![p][t] = AfterTick(@)]
    /\ UNCHANGED <<sink, status, size, job, faults>>

\* The environment calms down for good.
CalmDown ==
    /\ faults # {}
    /\ faults' = {}
    /\ UNCHANGED <<sink, status, size, breaker, job>>

\* A process dies: its jobs and its breaker are gone.
Die(p) ==
    /\ job' = [j \in Job |-> IF PodOf[j] = p THEN NoJob ELSE job[j]]
    /\ breaker' = [breaker EXCEPT ![p] = [t \in Target |-> Closed]]
    /\ UNCHANGED <<sink, status, size, faults>>

JobStep(j) ==
    \/ ResolveStored(j)
    \/ PendingTargets(j)
    \/ StreamVerified(j)
    \/ \E t \in Target : Commit(j, t)
    \/ \E e \in {"gone", "other"} : FetchFailed(j, e)
    \/ SourceFailed(j)
    \/ AllTargetsDied(j)
    \/ FanOutDone(j)
    \/ FanOutAborted(j)
    \/ RecordCircuit(j)
    \/ Classify(j)
    \/ RecordBackup(j)

-----------------------------------------------------------------------------
\* The callers, as far as the pipeline can tell: serve and backfill start a
\* job that reads the stored set itself, reconcile starts one with a stored
\* set that it read some time ago (it may have grown since).
Begin(j, c) ==
    /\ job[j].pc = "idle"
    /\ job' = [job EXCEPT ![j] = Started(c)]
    /\ UNCHANGED <<sink, status, size, breaker, faults>>

BeginKnown(j, c, known) ==
    /\ job[j].pc = "idle"
    /\ known \subseteq StoredTargets(c)
    /\ job' = [job EXCEPT ![j] = StartedKnown(c, known)]
    /\ UNCHANGED <<sink, status, size, breaker, faults>>

\* The caller takes the result; or the job panicked and its caller recovered.
Finish(j) ==
    /\ job[j].pc = "returned" \/ (job[j].pc # "idle" /\ "panic" \in faults)
    /\ job' = [job EXCEPT ![j] = NoJob]
    /\ UNCHANGED <<sink, status, size, breaker, faults>>

PipelineNext ==
    \/ \E j \in Job : JobStep(j) \/ Timeout(j) \/ Finish(j)
    \/ \E j \in Job, c \in Content :
          Begin(j, c) \/ \E known \in SUBSET Target : BeginKnown(j, c, known)
    \/ \E p \in Pod : CancelJobs(p) \/ Die(p) \/ \E t \in Target : Elapse(p, t)
    \/ CalmDown

PipelineSpec == PipelineInit /\ [][PipelineNext]_pipelineVars

-----------------------------------------------------------------------------
\* The ledger never claims a copy that does not exist: a status row says
\* stored only if that target durably holds the object (RecordBackup is
\* reached after the commit, on whatever path the fan-out ended).
StoredIsReal ==
    \A c \in Content : \A t \in StoredTargets(c) : c \in sink[t]

\* An object that the ledger calls stored anywhere has a verified size: the
\* outbox's unverified size is recorded only when nothing was stored, and it
\* never replaces a verified one (backupFrom objSize, RecordBackup).
StoredHasVerifiedSize ==
    \A c \in Content : StoredTargets(c) # {} => size[c] = "verified"

\* The done-gate: backupFrom returns done only when the ledger records the
\* object as stored on every target, dedup and the jobs of others included.
DoneGate ==
    \A j \in Job : job[j].pc = "returned" /\ job[j].done =>
        StoredTargets(job[j].content) = Target

\* backupFrom returns deferred only when every target whose copy the ledger
\* does not record had an open circuit when this job looked at it: a gap on a
\* reachable target is never deferred (it costs an attempt).
DeferGate ==
    \A j \in Job : job[j].pc = "returned" /\ job[j].deferred =>
        Target \ StoredTargets(job[j].content) \subseteq job[j].skipped

\* What backupFrom answers, done or deferred, is justified by the ledger and by
\* what the breaker said, although others record and trip it meanwhile
\* (classifyFanout).
VerdictGate == DoneGate /\ DeferGate

\* A status that says stored, and a size that was verified, are never taken
\* back by a later or a slower job (RecordBackup's ON CONFLICT clauses).
LedgerNeverRegresses ==
    [][\A c \in Content :
          /\ StoredTargets(c) \subseteq StoredTargets(c)'
          /\ size[c] = "verified" => size'[c] = "verified"]_pipelineVars
=============================================================================
