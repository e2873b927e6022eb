---------------------------- MODULE PipelineProofs ----------------------------
(***************************************************************************)
(* Proofs about Pipeline, for any number of targets, contents, jobs and    *)
(* pods and any combination of faults: the type invariant, that the ledger *)
(* records only copies that exist and only with a verified size, that      *)
(* backupFrom's two verdicts (done, deferred) mean what they say, and that *)
(* the ledger never regresses.                                             *)
(***************************************************************************)
EXTENDS Pipeline, CircuitBreakerProofs

\* Every entry of every pod's breaker is consistent (see CircuitBreaker).
Breakers == \A p \in Pod, t \in Target : EntryOK(breaker[p][t])

TypeInv == PipelineTypeOK /\ Breakers

-----------------------------------------------------------------------------
\* Types.

\* A job that has not started is well formed.
LEMMA NoJobType == NoJob \in JobState
<1>1. (CHOOSE c \in Content : TRUE) \in Content
  BY PipelineAssumption
<1>2. QED
  BY <1>1 DEF NoJob, JobState

\* So is one that has started, or has returned.
LEMMA StartedType ==
    ASSUME NEW c \in Content, NEW known \in SUBSET Target
    PROVE  Started(c) \in JobState /\ StartedKnown(c, known) \in JobState
BY ZenonT(60), NoJobType DEF Started, StartedKnown, Returned, JobState

\* Returning from backupFrom keeps a job well formed.
LEMMA ReturnedType ==
    ASSUME NEW s \in JobState, NEW done \in BOOLEAN, NEW deferred \in BOOLEAN,
           NEW err \in {"nil", "gone", "other"}
    PROVE  Returned(s, done, deferred, err) \in JobState
BY ZenonT(60), NoJobType DEF Returned, JobState

\* So does returning from fanOut.
LEMMA ResultsType ==
    ASSUME NEW s \in JobState, NEW ok \in SUBSET Target,
           NEW e \in {"nil", "source", "abort"}
    PROVE  [s EXCEPT !.pc = "results", !.ok = ok, !.put = {}, !.ferr = e] \in JobState
BY ZenonT(60) DEF JobState

\* So does going on to the ledger record.
LEMMA ToRecordType ==
    ASSUME NEW s \in JobState
    PROVE  [s EXCEPT !.pc = "record"] \in JobState
BY DEF JobState

\* resolveStored sets the dedup set.
LEMMA StoredType ==
    ASSUME NEW s \in JobState, NEW stored \in SUBSET Target
    PROVE  [s EXCEPT !.pc = "pending", !.stored = stored] \in JobState
BY Zenon DEF JobState

\* pendingTargets sets the targets that are skipped and those fanned out to.
LEMMA SkippedType ==
    ASSUME NEW s \in JobState, NEW skipped \in SUBSET Target
    PROVE  [s EXCEPT !.skipped = skipped] \in JobState
BY DEF JobState

\* The same when some targets are let through.
LEMMA PendingType ==
    ASSUME NEW s \in JobState, NEW skipped \in SUBSET Target,
           NEW pending \in SUBSET Target
    PROVE  [s EXCEPT !.pc = "fanout", !.skipped = skipped, !.pending = pending]
              \in JobState
BY Zenon DEF JobState

\* The stream is verified.
LEMMA VerifiedType ==
    ASSUME NEW s \in JobState
    PROVE  [s EXCEPT !.verified = TRUE] \in JobState
BY Zenon DEF JobState

\* A sink commits.
LEMMA PutType ==
    ASSUME NEW s \in JobState, NEW t \in Target
    PROVE  [s EXCEPT !.put = @ \cup {t}] \in JobState
BY DEF JobState

\* The results are classified next.
LEMMA LiveType ==
    ASSUME NEW s \in JobState
    PROVE  [s EXCEPT !.pc = "classify", !.ctx = "live"] \in JobState
BY Zenon DEF JobState

\* What classifyFanout makes of a job: the fields it sets, and that it leaves
\* the others alone.
LEMMA ClassifiedFields ==
    ASSUME NEW s \in JobState, NEW down \in SUBSET Target
    PROVE  LET k == Classified(s, down)
               healthyFailed == (s.pending \ s.ok) \ down
               done == s.pending \ s.ok = {} /\ s.skipped = {} /\ s.ferr = "nil"
           IN  /\ k \in JobState
               /\ k.pc = s.pc /\ k.content = s.content /\ k.stored = s.stored
               /\ k.pending = s.pending /\ k.put = s.put /\ k.ok = s.ok
               /\ k.verified = s.verified
               /\ k.skipped = s.skipped \cup ((s.pending \ s.ok) \cap down)
               /\ k.done <=> done
               /\ k.deferred <=> healthyFailed = {} /\ ~done
<1> DEFINE healthyFailed == (s.pending \ s.ok) \ down
           done == s.pending \ s.ok = {} /\ s.skipped = {} /\ s.ferr = "nil"
           skipped == s.skipped \cup ((s.pending \ s.ok) \cap down)
           failed == IF s.ferr = "nil" THEN healthyFailed ELSE {}
           deferred == healthyFailed = {} /\ ~done
           err == IF healthyFailed # {} /\ s.ferr # "nil" THEN "other" ELSE "nil"
<1>1. Classified(s, down) =
        [s EXCEPT !.skipped = skipped, !.failed = failed, !.done = done,
                  !.deferred = deferred, !.err = err]
  BY Zenon DEF Classified
<1>2. /\ skipped \in SUBSET Target /\ failed \in SUBSET Target
      /\ done \in BOOLEAN /\ deferred \in BOOLEAN /\ err \in {"nil", "gone", "other"}
  BY DEF JobState
<1> HIDE DEF skipped, failed, done, deferred, err
<1>3. [s EXCEPT !.skipped = skipped, !.failed = failed, !.done = done,
                !.deferred = deferred, !.err = err] \in JobState
  BY ZenonT(60), <1>2 DEF JobState
<1>4. /\ Classified(s, down).pc = s.pc
      /\ Classified(s, down).content = s.content
      /\ Classified(s, down).stored = s.stored
      /\ Classified(s, down).pending = s.pending
      /\ Classified(s, down).put = s.put
      /\ Classified(s, down).ok = s.ok
      /\ Classified(s, down).verified = s.verified
      /\ Classified(s, down).skipped = skipped
      /\ Classified(s, down).done = done
      /\ Classified(s, down).deferred = deferred
  BY <1>1 DEF JobState
<1>5. QED
  BY Zenon, <1>1, <1>3, <1>4 DEF skipped, done, deferred

\* Every step keeps the types and the breakers' consistency.
LEMMA TypeStep == TypeInv /\ [PipelineNext]_pipelineVars => TypeInv'
<1> SUFFICES ASSUME TypeInv, [PipelineNext]_pipelineVars PROVE TypeInv'
  OBVIOUS
<1>0. /\ sink \in [Target -> SUBSET Content]
      /\ status \in [Content -> [Target -> {"none", "failed", "stored"}]]
      /\ size \in [Content -> {"absent", "hearsay", "verified"}]
      /\ breaker \in [Pod -> [Target -> Entry]]
      /\ job \in [Job -> JobState]
      /\ faults \subseteq Faults
      /\ \A p \in Pod, t \in Target : EntryOK(breaker[p][t])
  BY DEF TypeInv, PipelineTypeOK, Breakers
<1>1. \A p \in Pod, t \in Target :
         /\ breaker[p][t] \in Entry
         /\ AfterOpen(breaker[p][t]) \in Entry /\ EntryOK(AfterOpen(breaker[p][t]))
         /\ AfterTick(breaker[p][t]) \in Entry /\ EntryOK(AfterTick(breaker[p][t]))
         /\ \A ok \in BOOLEAN : /\ AfterRecord(breaker[p][t], ok) \in Entry
                               /\ EntryOK(AfterRecord(breaker[p][t], ok))
  <2> SUFFICES ASSUME NEW p \in Pod, NEW t \in Target
               PROVE  /\ breaker[p][t] \in Entry
                      /\ AfterOpen(breaker[p][t]) \in Entry
                      /\ EntryOK(AfterOpen(breaker[p][t]))
                      /\ AfterTick(breaker[p][t]) \in Entry
                      /\ EntryOK(AfterTick(breaker[p][t]))
                      /\ \A ok \in BOOLEAN :
                            /\ AfterRecord(breaker[p][t], ok) \in Entry
                            /\ EntryOK(AfterRecord(breaker[p][t], ok))
    OBVIOUS
  <2>1. breaker[p][t] \in Entry /\ EntryOK(breaker[p][t])
    BY <1>0
  <2>2. Len(breaker[p][t].recent) <= Window
    BY <2>1 DEF EntryOK
  <2>3. QED
    BY SMTT(30), <2>1, <2>2, OpenTickOK, RecordType, RecordOK
<1>2. \A j \in Job : PodOf[j] \in Pod /\ job[j] \in JobState
  BY SMTT(30), <1>0, PipelineAssumption
<1> DEFINE LedgerKept == UNCHANGED <<sink, status, size, faults>>
           BreakerOK == /\ breaker' \in [Pod -> [Target -> Entry]]
                        /\ \A p \in Pod, t \in Target : EntryOK(breaker'[p][t])
<1>3. ASSUME LedgerKept, BreakerOK, job' \in [Job -> JobState] PROVE TypeInv'
  BY <1>0, <1>3 DEF TypeInv, PipelineTypeOK, Breakers
<1>4. UNCHANGED breaker => BreakerOK
  BY <1>0
<1> HIDE DEF BreakerOK
<1>5. ASSUME NEW j \in Job, ResolveStored(j) PROVE TypeInv'
  <2>1. StoredTargets(job[j].content) \in SUBSET Target
    BY DEF StoredTargets
  <2>2. job' \in [Job -> JobState]
    <3>1. CASE Return(j, FALSE, FALSE, "other")
      BY ZenonT(60), <1>0, <1>2, <3>1, ReturnedType DEF Return
    <3>2. [job[j] EXCEPT !.pc = "pending", !.stored = StoredTargets(job[j].content)]
             \in JobState
      BY ZenonT(60), <1>2, <2>1, StoredType
    <3>3. QED
      BY Zenon, <1>0, <1>5, <3>1, <3>2 DEF ResolveStored
  <2>3. QED
    BY SMTT(30), <1>3, <1>4, <1>5, <2>2 DEF ResolveStored
<1>6. ASSUME NEW j \in Job, PendingTargets(j) PROVE TypeInv'
  <2> DEFINE s == job[j]
             p == PodOf[j]
             missing == Target \ s.stored
             open == {t \in missing : Blocks(breaker[p][t])}
  <2>1. breaker' = [breaker EXCEPT ![p] =
           [t \in Target |-> IF t \in missing THEN AfterOpen(@[t]) ELSE @[t]]]
    BY SMTT(30), <1>6 DEF PendingTargets
  <2>2. BreakerOK
    BY SMTT(30), <1>0, <1>1, <1>2, <2>1 DEF BreakerOK
  <2>3. [s EXCEPT !.skipped = open] \in JobState
    BY SMTT(30), <1>2, SkippedType
  <2>4. [s EXCEPT !.pc = "fanout", !.skipped = open, !.pending = missing \ open] \in JobState
    BY ZenonT(60), <1>2, PendingType
  <2>5. Returned([s EXCEPT !.skipped = open], open = {}, open # {}, "nil") \in JobState
    BY Zenon, <2>3, ReturnedType
  <2>6. job' \in [Job -> JobState]
    BY SMTT(30), <1>0, <1>6, <2>4, <2>5 DEF PendingTargets
  <2>7. QED
    BY SMTT(30), <1>3, <1>6, <2>2, <2>6 DEF PendingTargets
<1>7. ASSUME NEW j \in Job, StreamVerified(j) PROVE TypeInv'
  <2>1. [job[j] EXCEPT !.verified = TRUE] \in JobState
    BY SMTT(30), <1>2, VerifiedType
  <2>2. QED
    BY SMTT(30), <1>0, <1>3, <1>4, <1>7, <2>1 DEF StreamVerified
<1>8. ASSUME NEW j \in Job, NEW t \in Target, Commit(j, t) PROVE TypeInv'
  <2>1. [job[j] EXCEPT !.put = @ \cup {t}] \in JobState
    BY SMTT(30), <1>2, PutType
  <2>2. sink' \in [Target -> SUBSET Content]
    BY SMTT(30), <1>0, <1>2, <1>8 DEF Commit, JobState
  <2>3. QED
    <3>1. job' \in [Job -> JobState]
      BY SMTT(30), <1>0, <1>8, <2>1 DEF Commit
    <3>2. UNCHANGED <<status, size, breaker, faults>>
      BY <1>8 DEF Commit
    <3>3. QED
      BY SMTT(30), <1>0, <2>2, <3>1, <3>2 DEF TypeInv, PipelineTypeOK, Breakers
<1>9. ASSUME NEW j \in Job, NEW e \in {"gone", "other"}, FetchFailed(j, e) PROVE TypeInv'
  <2>1. job' \in [Job -> JobState]
    BY Zenon, <1>0, <1>2, <1>9, ReturnedType DEF FetchFailed, Return
  <2>2. QED
    BY SMTT(30), <1>3, <1>4, <1>9, <2>1 DEF FetchFailed
<1>10. ASSUME NEW j \in Job, NEW ok \in SUBSET Target, NEW e \in {"nil", "source", "abort"},
              FanOutReturns(j, ok, e)
       PROVE  TypeInv'
  <2>1. [job[j] EXCEPT !.pc = "results", !.ok = ok, !.put = {}, !.ferr = e] \in JobState
    BY ZenonT(60), <1>2, ResultsType
  <2>2. QED
    BY SMTT(30), <1>0, <1>3, <1>4, <1>10, <2>1 DEF FanOutReturns
<1>11. ASSUME NEW j \in Job,
              SourceFailed(j) \/ AllTargetsDied(j) \/ FanOutDone(j) \/ FanOutAborted(j)
       PROVE  TypeInv'
  <2>1. SUBSET job[j].put \subseteq SUBSET Target
    BY <1>2 DEF JobState
  <2>2. QED
    BY SMTT(30), <1>10, <1>11, <2>1 DEF SourceFailed, AllTargetsDied, FanOutDone, FanOutAborted
<1>12. ASSUME NEW j \in Job, RecordCircuit(j) PROVE TypeInv'
  <2> DEFINE s == job[j]
             p == PodOf[j]
  <2>1. \/ UNCHANGED breaker
        \/ breaker' = [breaker EXCEPT ![p] = [t \in Target |->
              IF t \in s.pending THEN AfterRecord(@[t], t \in s.ok) ELSE @[t]]]
    BY Zenon, <1>12 DEF RecordCircuit
  <2>2. BreakerOK
    <3>1. CASE UNCHANGED breaker
      BY <1>4, <3>1
    <3>2. CASE breaker' = [breaker EXCEPT ![p] = [t \in Target |->
                 IF t \in s.pending THEN AfterRecord(@[t], t \in s.ok) ELSE @[t]]]
      <4>1. \A t \in Target : (t \in s.ok) \in BOOLEAN
        OBVIOUS
      <4>2. QED
        BY Zenon, <1>0, <1>1, <1>2, <3>2, <4>1 DEF BreakerOK
    <3>3. QED
      BY SMTT(30), <2>1, <3>1, <3>2
  <2>3. job' \in [Job -> JobState]
    <3>1. CASE Return(j, FALSE, FALSE, "other")
      BY Zenon, <1>0, <1>2, <3>1, ReturnedType DEF Return
    <3>2. [job[j] EXCEPT !.pc = "classify", !.ctx = "live"] \in JobState
      BY ZenonT(60), <1>2, LiveType
    <3>3. QED
      BY ZenonT(60), <1>0, <1>12, <3>1, <3>2 DEF RecordCircuit
  <2>4. QED
    BY SMTT(30), <1>3, <1>12, <2>2, <2>3 DEF RecordCircuit
<1>13. ASSUME NEW j \in Job, Classify(j) PROVE TypeInv'
  <2> DEFINE down == {t \in Target : Down(breaker[PodOf[j]][t])}
             s == Classified(job[j], down)
  <2>1. s \in JobState
    BY SMTT(30), <1>2, ClassifiedFields
  <2>2. [s EXCEPT !.pc = "record"] \in JobState
    BY SMTT(30), <2>1, ToRecordType
  <2>3. Returned(s, s.done, s.deferred, s.err) \in JobState
    <3>1. s.done \in BOOLEAN /\ s.deferred \in BOOLEAN /\ s.err \in {"nil", "gone", "other"}
      BY SMTT(30), <2>1 DEF JobState
    <3>2. QED
      BY SMTT(30), <2>1, <3>1, ReturnedType
  <2>4. job' \in [Job -> JobState]
    BY SMTT(30), <1>0, <1>13, <2>2, <2>3 DEF Classify
  <2>5. QED
    BY SMTT(30), <1>3, <1>4, <1>13, <2>4 DEF Classify
<1>14. ASSUME NEW j \in Job, RecordBackup(j) PROVE TypeInv'
  <2> DEFINE s == job[j]
  <2>1. /\ s.content \in Content /\ s.done \in BOOLEAN /\ s.deferred \in BOOLEAN
        /\ s.err \in {"nil", "gone", "other"}
    BY <1>2 DEF JobState
  <2>2. job' \in [Job -> JobState]
    <3>1. /\ Returned(s, s.done, s.deferred, s.err) \in JobState
          /\ Returned(s, FALSE, FALSE, "other") \in JobState
      BY Zenon, <1>2, <2>1, ReturnedType
    <3>2. QED
      BY Zenon, <1>0, <1>14, <3>1 DEF RecordBackup, Return
  <2>3. /\ status' \in [Content -> [Target -> {"none", "failed", "stored"}]]
        /\ size' \in [Content -> {"absent", "hearsay", "verified"}]
    <3>1. CASE LedgerWrite(s.content, s.ok, s.failed, s.verified)
      BY SMTT(30), <1>0, <2>1, <3>1 DEF LedgerWrite, Merged, SizeMerged
    <3>2. CASE UNCHANGED ledgerVars
      BY SMTT(30), <1>0, <3>2 DEF ledgerVars
    <3>3. QED
      BY ZenonT(60), <1>14, <3>1, <3>2 DEF RecordBackup
  <2>4. QED
    BY SMTT(30), <1>0, <1>14, <2>2, <2>3 DEF RecordBackup, TypeInv, PipelineTypeOK, Breakers
<1>15. ASSUME NEW j \in Job, Timeout(j) PROVE TypeInv'
  <2>1. [job[j] EXCEPT !.ctx = "deadline"] \in JobState
    BY <1>2 DEF JobState
  <2>2. QED
    BY SMTT(30), <1>0, <1>3, <1>4, <1>15, <2>1 DEF Timeout
<1>16. ASSUME NEW j \in Job, Finish(j) PROVE TypeInv'
  <2>1. job' \in [Job -> JobState]
    BY SMTT(30), <1>0, <1>16, NoJobType DEF Finish
  <2>2. QED
    BY SMTT(30), <1>3, <1>4, <1>16, <2>1 DEF Finish
<1>17. ASSUME NEW j \in Job, NEW c \in Content, NEW known \in SUBSET Target,
              Begin(j, c) \/ BeginKnown(j, c, known)
       PROVE  TypeInv'
  <2>1. job' \in [Job -> JobState]
    BY ZenonT(60), <1>0, <1>17, StartedType DEF Begin, BeginKnown
  <2>2. QED
    BY SMTT(30), <1>3, <1>4, <1>17, <2>1 DEF Begin, BeginKnown
<1>18. ASSUME NEW p \in Pod, CancelJobs(p) PROVE TypeInv'
  <2>1. \A j \in Job : [job[j] EXCEPT !.ctx = "canceled"] \in JobState
    BY <1>2 DEF JobState
  <2>2. job' \in [Job -> JobState]
    BY SMTT(30), <1>2, <1>18, <2>1 DEF CancelJobs
  <2>3. QED
    BY SMTT(30), <1>3, <1>4, <1>18, <2>2 DEF CancelJobs
<1>19. ASSUME NEW p \in Pod, Die(p) PROVE TypeInv'
  <2>1. BreakerOK
    BY SMTT(30), <1>0, <1>19, ClosedOK DEF Die, BreakerOK
  <2>2. job' \in [Job -> JobState]
    BY SMTT(30), <1>2, <1>19, NoJobType DEF Die
  <2>3. QED
    BY SMTT(30), <1>3, <1>19, <2>1, <2>2 DEF Die
<1>20. ASSUME NEW p \in Pod, NEW t \in Target, Elapse(p, t) PROVE TypeInv'
  <2>1. BreakerOK
    BY SMTT(30), <1>0, <1>1, <1>20 DEF Elapse, BreakerOK
  <2>2. QED
    BY SMTT(30), <1>0, <1>3, <1>20, <2>1 DEF Elapse
<1>21. CASE CalmDown
  BY SMTT(30), <1>0, <1>21 DEF CalmDown, TypeInv, PipelineTypeOK, Breakers
<1>22. CASE UNCHANGED pipelineVars
  BY SMTT(30), <1>0, <1>22 DEF pipelineVars, TypeInv, PipelineTypeOK, Breakers
<1>23. ASSUME NEW j \in Job, JobStep(j) PROVE TypeInv'
  BY SMTT(30), <1>5, <1>6, <1>7, <1>8, <1>9, <1>11, <1>12, <1>13, <1>14, <1>23 DEF JobStep
<1>24. QED
  BY <1>15, <1>16, <1>17, <1>18, <1>19, <1>20, <1>21, <1>22, <1>23 DEF PipelineNext

-----------------------------------------------------------------------------
\* The inductive invariant.

\* What a job knows is true of the sinks and of the ledger's status rows, and
\* is enough for the verdict it will return:
\*  - what it saw committed is committed, and only of a verified stream;
\*  - what dedup found recorded is still recorded;
\*  - once fanned out, every target is stored, skipped or pending;
\*  - a verdict that waits for the ledger write is right once it is written;
\*  - a verdict returned is right.
JobOK(s, snk, stat) ==
    LET recorded == {t \in Target : stat[s.content][t] = "stored"}
    IN  /\ \A t \in s.put \cup s.ok : s.content \in snk[t]
        /\ s.put \cup s.ok # {} => s.verified
        /\ s.stored \subseteq recorded
        /\ s.pc \in {"fanout", "results", "classify", "record"} =>
              Target \subseteq s.stored \cup s.skipped \cup s.pending
        /\ s.pc = "record" /\ s.done => Target \subseteq s.stored \cup s.ok
        /\ s.pc = "record" /\ s.deferred =>
              Target \subseteq s.stored \cup s.ok \cup s.skipped
        /\ s.pc = "returned" /\ s.done => Target \subseteq recorded
        /\ s.pc = "returned" /\ s.deferred => Target \ recorded \subseteq s.skipped

JobsOK == \A j \in Job : JobOK(job[j], sink, status)

Inv == TypeInv /\ JobsOK /\ StoredIsReal /\ StoredHasVerifiedSize

\* JobOK does not look at the context.
LEMMA JobSame ==
    ASSUME NEW s, NEW k, NEW snk, NEW stat, JobOK(s, snk, stat),
           k.pc = s.pc, k.content = s.content, k.stored = s.stored,
           k.skipped = s.skipped, k.pending = s.pending, k.put = s.put,
           k.ok = s.ok, k.verified = s.verified, k.done = s.done,
           k.deferred = s.deferred
    PROVE  JobOK(k, snk, stat)
BY SMTT(30) DEF JobOK

\* A job that pendingTargets lets fan out is right.
LEMMA JobFansOut ==
    ASSUME NEW s, NEW k, NEW snk, NEW stat, JobOK(s, snk, stat),
           k.pc = "fanout", k.content = s.content, k.stored = s.stored,
           k.put = s.put, k.ok = s.ok, k.verified = s.verified,
           Target \subseteq k.stored \cup k.skipped \cup k.pending
    PROVE  JobOK(k, snk, stat)
BY SMTT(30) DEF JobOK

\* A job stays right while other jobs only add copies and stored statuses.
LEMMA JobFrame ==
    ASSUME NEW s \in JobState,
           NEW snk, NEW stat, NEW snk2, NEW stat2,
           \A t \in Target : snk[t] \subseteq snk2[t],
           \A t \in Target : stat[s.content][t] = "stored" => stat2[s.content][t] = "stored",
           JobOK(s, snk, stat)
    PROVE  JobOK(s, snk2, stat2)
<1>1. s.put \subseteq Target /\ s.ok \subseteq Target
  BY DEF JobState
<1>2. QED
  BY <1>1 DEF JobOK

\* The fields that Returned and Started set.
LEMMA ReturnedFields ==
    ASSUME NEW s, NEW done \in BOOLEAN, NEW deferred \in BOOLEAN, NEW err
    PROVE  LET k == Returned(s, done, deferred, err)
           IN  /\ k.pc = "returned" /\ k.content = s.content /\ k.skipped = s.skipped
               /\ k.done = done /\ k.deferred = deferred
               /\ k.put = {} /\ k.ok = {} /\ k.stored = {}
BY DEF Returned, NoJob

\* A returned job is right if its verdict is.
LEMMA ReturnedOK ==
    ASSUME NEW s, NEW done \in BOOLEAN, NEW deferred \in BOOLEAN, NEW err,
           NEW snk, NEW stat,
           done => \A t \in Target : stat[s.content][t] = "stored",
           deferred => \A t \in Target :
                          stat[s.content][t] = "stored" \/ t \in s.skipped
    PROVE  JobOK(Returned(s, done, deferred, err), snk, stat)
<1> DEFINE k == Returned(s, done, deferred, err)
<1>1. /\ k.pc = "returned" /\ k.content = s.content /\ k.skipped = s.skipped
      /\ k.done = done /\ k.deferred = deferred
      /\ k.put = {} /\ k.ok = {} /\ k.stored = {}
  BY SMTT(30), ReturnedFields
<1> HIDE DEF k
<1>2. JobOK(k, snk, stat)
  BY <1>1 DEF JobOK
<1>3. QED
  BY SMTT(30), <1>2 DEF k

\* A job that has not started, or has just started, is right; one that starts
\* with a stored set from its caller is right if that set is recorded.
LEMMA StartedOK ==
    ASSUME NEW c \in Content, NEW known \in SUBSET Target, NEW snk, NEW stat,
           \A t \in known : stat[c][t] = "stored"
    PROVE  /\ JobOK(NoJob, snk, stat)
           /\ JobOK(Started(c), snk, stat)
           /\ JobOK(StartedKnown(c, known), snk, stat)
<1>1. JobOK(NoJob, snk, stat)
  BY ZenonT(60) DEF JobOK, NoJob
<1>2. JobOK(Returned([NoJob EXCEPT !.content = c], FALSE, FALSE, "other"), snk, stat)
  BY ZenonT(60), ReturnedOK
<1>3. JobOK([NoJob EXCEPT !.pc = "resolve", !.content = c], snk, stat)
  BY DEF JobOK, NoJob
<1>4. JobOK([NoJob EXCEPT !.pc = "pending", !.content = c, !.stored = known], snk, stat)
  BY DEF JobOK, NoJob
<1>5. QED
  BY Zenon, <1>1, <1>2, <1>3, <1>4 DEF Started, StartedKnown

\* Every step keeps the invariant.  A step of one job leaves the others as they
\* are and only adds to the sinks and to the stored statuses, so that for each
\* action only the job that takes it has to be looked at.
LEMMA InvStep == Inv /\ [PipelineNext]_pipelineVars => Inv'
<1> SUFFICES ASSUME Inv, [PipelineNext]_pipelineVars PROVE Inv'
  OBVIOUS
<1>0. /\ job \in [Job -> JobState] /\ TypeInv' /\ JobsOK
      /\ status \in [Content -> [Target -> {"none", "failed", "stored"}]]
      /\ size \in [Content -> {"absent", "hearsay", "verified"}]
      /\ sink \in [Target -> SUBSET Content]
      /\ StoredIsReal /\ StoredHasVerifiedSize
  BY TypeStep DEF Inv, TypeInv, PipelineTypeOK
<1>1. \A j \in Job : job[j] \in JobState /\ JobOK(job[j], sink, status)
  BY SMTT(30), <1>0 DEF JobsOK
<1>2. ASSUME UNCHANGED <<sink, status, size>>,
             \A j \in Job : JobOK(job'[j], sink, status)
      PROVE  Inv'
  BY SMTT(30), <1>0, <1>2 DEF Inv, JobsOK, StoredIsReal, StoredHasVerifiedSize, StoredTargets
<1>3. ASSUME NEW j \in Job, NEW s, JobOK(s, sink, status),
             UNCHANGED <<sink, status, size>>, job' = [job EXCEPT ![j] = s]
      PROVE  Inv'
  BY SMTT(30), <1>0, <1>1, <1>2, <1>3
<1>4. ASSUME NEW j \in Job, ResolveStored(j) PROVE Inv'
  <2>1. CASE Return(j, FALSE, FALSE, "other")
    <3>1. JobOK(Returned(job[j], FALSE, FALSE, "other"), sink, status)
      BY Zenon, ReturnedOK
    <3>2. QED
      BY Zenon, <1>3, <1>4, <2>1, <3>1 DEF Return, ResolveStored
  <2>2. CASE job' = [job EXCEPT ![j] =
                [@ EXCEPT !.pc = "pending", !.stored = StoredTargets(job[j].content)]]
    <3> DEFINE k == [job[j] EXCEPT !.pc = "pending",
                                   !.stored = StoredTargets(job[j].content)]
    <3>1. JobOK(k, sink, status)
      BY <1>1 DEF JobOK, JobState, StoredTargets
    <3>2. QED
      BY ZenonT(60), <1>3, <1>4, <2>2, <3>1 DEF ResolveStored
  <2>3. QED
    BY Zenon, <1>4, <2>1, <2>2 DEF ResolveStored
<1>5. ASSUME NEW j \in Job, PendingTargets(j) PROVE Inv'
  <2> DEFINE s == job[j]
             missing == Target \ s.stored
             open == {t \in missing : Blocks(breaker[PodOf[j]][t])}
             back == Returned([s EXCEPT !.skipped = open], open = {}, open # {}, "nil")
             out == [s EXCEPT !.pc = "fanout", !.skipped = open,
                              !.pending = missing \ open]
  <2>1. \A t \in s.stored : status[s.content][t] = "stored"
    BY <1>1 DEF JobOK
  <2>2. missing = open => JobOK(back, sink, status)
    <3> SUFFICES ASSUME missing = open PROVE JobOK(back, sink, status)
      OBVIOUS
    <3> DEFINE k == [s EXCEPT !.skipped = open]
    <3>1. k.content = s.content /\ k.skipped = open
      BY <1>1 DEF JobState
    <3>2. open = {} => \A t \in Target : status[k.content][t] = "stored"
      BY SMTT(30), <2>1, <3>1
    <3>3. open # {} => \A t \in Target : status[k.content][t] = "stored" \/ t \in k.skipped
      BY <2>1, <3>1
    <3> HIDE DEF k, open
    <3>4. JobOK(Returned(k, open = {}, open # {}, "nil"), sink, status)
      BY Zenon, <3>2, <3>3, ReturnedOK
    <3>5. QED
      BY SMTT(30), <3>4 DEF k
  <2>3. JobOK(out, sink, status)
    <3>1. /\ out.pc = "fanout" /\ out.content = s.content /\ out.stored = s.stored
          /\ out.skipped = open /\ out.pending = missing \ open
          /\ out.put = s.put /\ out.ok = s.ok /\ out.verified = s.verified
      BY SMTT(30), <1>1 DEF JobState
    <3>2. Target \subseteq s.stored \cup open \cup (missing \ open)
      OBVIOUS
    <3> HIDE DEF out
    <3>3. QED
      BY SMTT(30), <1>1, <3>1, <3>2, JobFansOut
  <2>4. job' = [job EXCEPT ![j] = IF missing = open THEN back ELSE out]
        /\ UNCHANGED <<sink, status, size>>
    BY <1>5 DEF PendingTargets
  <2> HIDE DEF back, out, open, missing
  <2>5. JobOK(IF missing = open THEN back ELSE out, sink, status)
    BY SMTT(30), <2>2, <2>3
  <2>6. QED
    BY Zenon, <1>3, <2>4, <2>5
<1>6. ASSUME NEW j \in Job, StreamVerified(j) PROVE Inv'
  <2>1. JobOK([job[j] EXCEPT !.verified = TRUE], sink, status)
    BY <1>1 DEF JobOK, JobState
  <2>2. QED
    BY Zenon, <1>3, <1>6, <2>1 DEF StreamVerified
<1>7. ASSUME NEW j \in Job, NEW e \in {"gone", "other"}, FetchFailed(j, e) PROVE Inv'
  <2>1. JobOK(Returned(job[j], FALSE, FALSE, e), sink, status)
    BY Zenon, ReturnedOK
  <2>2. QED
    BY Zenon, <1>3, <1>7, <2>1 DEF FetchFailed, Return
<1>8. ASSUME NEW j \in Job, NEW ok \in SUBSET job[j].put, NEW e \in {"nil", "source", "abort"},
             job[j].pc = "fanout", FanOutReturns(j, ok, e)
      PROVE  Inv'
  <2> DEFINE k == [job[j] EXCEPT !.pc = "results", !.ok = ok, !.put = {}, !.ferr = e]
  <2>1. /\ k.pc = "results" /\ k.content = job[j].content /\ k.stored = job[j].stored
        /\ k.skipped = job[j].skipped /\ k.pending = job[j].pending
        /\ k.put = {} /\ k.ok = ok /\ k.verified = job[j].verified
    BY <1>1 DEF JobState
  <2>2. job' = [job EXCEPT ![j] = k] /\ UNCHANGED <<sink, status, size>>
    BY SMTT(30), <1>8 DEF FanOutReturns
  <2> HIDE DEF k
  <2>3. JobOK(k, sink, status)
    BY SMTT(30), <1>1, <1>8, <2>1 DEF JobOK
  <2>4. QED
    BY ZenonT(60), <1>3, <2>2, <2>3
<1>9. ASSUME NEW j \in Job,
             SourceFailed(j) \/ AllTargetsDied(j) \/ FanOutDone(j) \/ FanOutAborted(j)
      PROVE  Inv'
  BY SMTT(30), <1>8, <1>9 DEF SourceFailed, AllTargetsDied, FanOutDone, FanOutAborted
<1>10. ASSUME NEW j \in Job, NEW t \in Target, Commit(j, t) PROVE Inv'
  <2> DEFINE k == [job[j] EXCEPT !.put = @ \cup {t}]
  <2>1. /\ k.pc = "fanout" /\ k.content = job[j].content /\ k.stored = job[j].stored
        /\ k.skipped = job[j].skipped /\ k.pending = job[j].pending
        /\ k.put = job[j].put \cup {t} /\ k.ok = job[j].ok /\ k.verified
    BY SMTT(30), <1>1, <1>10 DEF JobState, Commit
  <2>2. /\ job' = [job EXCEPT ![j] = k] /\ UNCHANGED <<status, size>>
        /\ sink' = [sink EXCEPT ![t] = @ \cup {job[j].content}]
    BY <1>10 DEF Commit
  <2>3. \A u \in Target : sink[u] \subseteq sink'[u]
    BY <1>0, <2>2
  <2>4. job[j].content \in sink'[t]
    BY SMTT(30), <1>0, <2>2
  <2>5. JobOK(job[j], sink', status)
    BY SMTT(30), <1>1, <2>3, JobFrame
  <2> HIDE DEF k
  <2>6. JobOK(k, sink', status)
    BY SMTT(30), <1>10, <2>1, <2>4, <2>5 DEF JobOK, Commit
  <2>7. \A i \in Job : JobOK(job'[i], sink', status')
    <3> SUFFICES ASSUME NEW i \in Job PROVE JobOK(job'[i], sink', status')
      OBVIOUS
    <3>1. CASE i = j
      BY SMTT(30), <1>0, <2>2, <2>6, <3>1
    <3>2. CASE i # j
      BY ZenonT(60), <1>0, <1>1, <2>2, <2>3, <3>2, JobFrame
    <3>3. QED
      BY SMTT(30), <3>1, <3>2
  <2>8. StoredIsReal' /\ StoredHasVerifiedSize'
    BY SMTT(30), <1>0, <2>2, <2>3 DEF StoredIsReal, StoredHasVerifiedSize, StoredTargets
  <2>9. QED
    BY SMTT(30), <1>0, <2>7, <2>8 DEF Inv, JobsOK
<1>11. ASSUME NEW j \in Job, RecordCircuit(j) PROVE Inv'
  <2>1. CASE Return(j, FALSE, FALSE, "other")
    <3>1. JobOK(Returned(job[j], FALSE, FALSE, "other"), sink, status)
      BY Zenon, ReturnedOK
    <3>2. QED
      BY ZenonT(60), <1>3, <1>11, <2>1, <3>1 DEF Return, RecordCircuit
  <2>2. CASE job' = [job EXCEPT ![j] = [@ EXCEPT !.pc = "classify", !.ctx = "live"]]
    <3> DEFINE k == [job[j] EXCEPT !.pc = "classify", !.ctx = "live"]
    <3>1. /\ k.pc = "classify" /\ k.content = job[j].content /\ k.stored = job[j].stored
          /\ k.skipped = job[j].skipped /\ k.pending = job[j].pending
          /\ k.put = job[j].put /\ k.ok = job[j].ok /\ k.verified = job[j].verified
      BY SMTT(30), <1>1 DEF JobState
    <3> HIDE DEF k
    <3>2. JobOK(k, sink, status)
      BY SMTT(30), <1>1, <1>11, <3>1 DEF JobOK, RecordCircuit
    <3>3. QED
      BY ZenonT(60), <1>3, <1>11, <2>2, <3>2 DEF RecordCircuit, k
  <2>3. QED
    BY Zenon, <1>11, <2>1, <2>2 DEF RecordCircuit
<1>12. ASSUME NEW j \in Job, Classify(j) PROVE Inv'
  <2> DEFINE s == job[j]
             down == {t \in Target : Down(breaker[PodOf[j]][t])}
             k == Classified(s, down)
  <2>1. k \in JobState
    BY SMTT(30), <1>1, ClassifiedFields
  <2>2. /\ k.pc = s.pc /\ k.content = s.content /\ k.stored = s.stored
        /\ k.pending = s.pending /\ k.put = s.put /\ k.ok = s.ok
        /\ k.verified = s.verified
        /\ k.skipped = s.skipped \cup ((s.pending \ s.ok) \cap down)
        /\ k.done => s.pending \ s.ok = {} /\ s.skipped = {}
        /\ k.deferred => (s.pending \ s.ok) \ down = {}
    BY SMTT(30), <1>1, ClassifiedFields
  <2>3. s.pc = "classify"
    <3>1. k.pc = "classify"
      BY SMTT(30), <1>12 DEF Classify
    <3>2. QED
      BY ZenonT(60), <2>2, <3>1
  <2>4. Target \subseteq s.stored \cup s.skipped \cup s.pending
    BY SMTT(30), <1>1, <2>3 DEF JobOK
  <2> HIDE DEF k
  <2>5. k.done => Target \subseteq s.stored \cup s.ok
    BY SMTT(30), <2>2, <2>4
  <2>6. k.deferred => Target \subseteq s.stored \cup s.ok \cup k.skipped
    BY SMTT(30), <2>2, <2>4
  <2>7. JobOK([k EXCEPT !.pc = "record"], sink, status)
    <3> DEFINE m == [k EXCEPT !.pc = "record"]
    <3>1. /\ m.pc = "record" /\ m.content = s.content /\ m.stored = s.stored
          /\ m.skipped = k.skipped /\ m.pending = s.pending
          /\ m.put = s.put /\ m.ok = s.ok /\ m.verified = s.verified
          /\ m.done = k.done /\ m.deferred = k.deferred
      BY SMTT(30), <2>1, <2>2 DEF JobState
    <3> HIDE DEF m
    <3>2. Target \subseteq s.stored \cup k.skipped \cup s.pending
      BY SMTT(30), <2>2, <2>4
    <3>3. JobOK(m, sink, status)
      BY SMTT(30), <1>1, <2>5, <2>6, <3>1, <3>2 DEF JobOK
    <3>4. QED
      BY SMTT(30), <3>3 DEF m
  <2>8. k.ok \cup k.failed = {} =>
          JobOK(Returned(k, k.done, k.deferred, k.err), sink, status)
    <3> SUFFICES ASSUME k.ok \cup k.failed = {}
                 PROVE  JobOK(Returned(k, k.done, k.deferred, k.err), sink, status)
      OBVIOUS
    <3>1. k.done \in BOOLEAN /\ k.deferred \in BOOLEAN
      BY SMTT(30), <2>1 DEF JobState
    <3>2. \A t \in s.stored : status[k.content][t] = "stored"
      BY SMTT(30), <1>1, <2>2 DEF JobOK
    <3>3. s.ok = {}
      BY SMTT(30), <2>2
    <3>4. k.done => \A t \in Target : status[k.content][t] = "stored"
      BY SMTT(30), <2>5, <3>2, <3>3
    <3>5. k.deferred => \A t \in Target :
                           status[k.content][t] = "stored" \/ t \in k.skipped
      BY SMTT(30), <2>6, <3>2, <3>3
    <3>6. QED
      BY SMTT(30), <3>1, <3>4, <3>5, ReturnedOK
  <2>9. /\ job' = [job EXCEPT ![j] = IF k.ok \cup k.failed # {}
                                     THEN [k EXCEPT !.pc = "record"]
                                     ELSE Returned(k, k.done, k.deferred, k.err)]
        /\ UNCHANGED <<sink, status, size>>
    BY SMTT(30), <1>12 DEF Classify, k
  <2>10. QED
    <3>1. CASE k.ok \cup k.failed # {}
      BY ZenonT(60), <1>3, <2>7, <2>9, <3>1
    <3>2. CASE k.ok \cup k.failed = {}
      BY SMTT(30), <1>3, <2>8, <2>9, <3>2
    <3>3. QED
      BY SMTT(30), <3>1, <3>2
<1>13. ASSUME NEW j \in Job, RecordBackup(j) PROVE Inv'
  <2> DEFINE s == job[j]
             c == s.content
  <2>0. /\ s.pc = "record" /\ UNCHANGED sink /\ c \in Content
        /\ s.done \in BOOLEAN /\ s.deferred \in BOOLEAN
        /\ s.ok \subseteq Target
    BY SMTT(30), <1>1, <1>13 DEF RecordBackup, JobState
  <2>1. JobOK(s, sink, status)
    BY <1>1
  <2>2. CASE LedgerWrite(c, s.ok, s.failed, s.verified)
    <3>1. \A d \in Content, t \in Target :
             status'[d][t] = IF d = c THEN Merged(status[d][t], t, s.ok, s.failed)
                             ELSE status[d][t]
      BY SMTT(30), <1>0, <2>0, <2>2 DEF LedgerWrite
    <3>2. \A d \in Content :
             size'[d] = IF d = c THEN SizeMerged(size[d], s.verified) ELSE size[d]
      BY SMTT(30), <1>0, <2>0, <2>2 DEF LedgerWrite
    <3>3. \A d \in Content, t \in Target :
             status[d][t] = "stored" => status'[d][t] = "stored"
      BY SMTT(30), <3>1 DEF Merged
    <3>4. \A t \in Target : t \in s.ok => status'[c][t] = "stored"
      BY SMTT(30), <2>0, <3>1 DEF Merged
    <3>5. \A d \in Content, t \in Target :
             status'[d][t] = "stored" =>
                 status[d][t] = "stored" \/ (d = c /\ t \in s.ok)
      BY SMTT(30), <3>1 DEF Merged
    <3>6. StoredIsReal'
      BY SMTT(30), <1>0, <2>0, <2>1, <3>5 DEF StoredIsReal, StoredTargets, JobOK
    <3>7. StoredHasVerifiedSize'
      <4> SUFFICES ASSUME NEW d \in Content, NEW t \in Target, status'[d][t] = "stored"
                   PROVE  size'[d] = "verified"
        BY DEF StoredHasVerifiedSize, StoredTargets
      <4>1. CASE status[d][t] = "stored"
        <5>1. size[d] = "verified"
          BY SMTT(30), <1>0, <4>1 DEF StoredHasVerifiedSize, StoredTargets
        <5>2. QED
          BY SMTT(30), <3>2, <5>1 DEF SizeMerged
      <4>2. CASE d = c /\ t \in s.ok
        <5>1. s.verified
          BY SMTT(30), <2>1, <4>2 DEF JobOK
        <5>2. QED
          BY SMTT(30), <3>2, <4>2, <5>1 DEF SizeMerged
      <4>3. QED
        BY SMTT(30), <3>5, <4>1, <4>2
    <3>8. \A i \in Job : JobOK(job[i], sink, status')
      <4> SUFFICES ASSUME NEW i \in Job PROVE JobOK(job[i], sink, status')
        BY SMTT(30)
      <4>1. job[i].content \in Content
        BY SMTT(30), <1>1 DEF JobState
      <4>2. \A t \in Target : /\ sink[t] \subseteq sink[t]
                              /\ status[job[i].content][t] = "stored" =>
                                     status'[job[i].content][t] = "stored"
        BY SMTT(30), <3>3, <4>1
      <4>3. QED
        BY SMTT(30), <1>1, <4>2, JobFrame
    <3>9. JobOK(Returned(s, s.done, s.deferred, s.err), sink, status')
      <4>1. s.done => \A t \in Target : status'[c][t] = "stored"
        BY SMTT(30), <2>0, <2>1, <3>3, <3>4 DEF JobOK
      <4>2. s.deferred => \A t \in Target : status'[c][t] = "stored" \/ t \in s.skipped
        BY SMTT(30), <2>0, <2>1, <3>3, <3>4 DEF JobOK
      <4>3. QED
        BY SMTT(30), <2>0, <4>1, <4>2, ReturnedOK
    <3>10. JobOK(Returned(s, FALSE, FALSE, "other"), sink, status')
      BY Zenon, ReturnedOK
    <3>11. JobsOK'
      <4>1. \/ job' = [job EXCEPT ![j] = Returned(s, s.done, s.deferred, s.err)]
            \/ job' = [job EXCEPT ![j] = Returned(s, FALSE, FALSE, "other")]
        BY Zenon, <1>13 DEF RecordBackup, Return
      <4>2. QED
        BY ZenonT(60), <1>0, <2>0, <3>8, <3>9, <3>10, <4>1 DEF JobsOK
    <3>12. QED
      BY SMTT(30), <1>0, <3>6, <3>7, <3>11 DEF Inv
  <2>3. CASE UNCHANGED ledgerVars /\ Return(j, FALSE, FALSE, "other")
    <3>1. JobOK(Returned(s, FALSE, FALSE, "other"), sink, status)
      BY Zenon, ReturnedOK
    <3>2. QED
      BY Zenon, <1>3, <2>0, <2>3, <3>1 DEF Return, ledgerVars
  <2>4. QED
    BY ZenonT(60), <1>13, <2>2, <2>3 DEF RecordBackup
<1>14. ASSUME NEW j \in Job, NEW x \in {"deadline", "canceled"}
       PROVE  JobOK([job[j] EXCEPT !.ctx = x], sink, status)
  <2> DEFINE k == [job[j] EXCEPT !.ctx = x]
  <2>1. /\ k.pc = job[j].pc /\ k.content = job[j].content /\ k.stored = job[j].stored
        /\ k.skipped = job[j].skipped /\ k.pending = job[j].pending
        /\ k.put = job[j].put /\ k.ok = job[j].ok /\ k.verified = job[j].verified
        /\ k.done = job[j].done /\ k.deferred = job[j].deferred
    BY SMTT(30), <1>1 DEF JobState
  <2> HIDE DEF k
  <2>2. JobOK(k, sink, status)
    BY SMTT(30), <1>1, <2>1, JobSame
  <2>3. QED
    BY <2>2 DEF k
<1>15. ASSUME NEW j \in Job, Timeout(j) PROVE Inv'
  BY Zenon, <1>3, <1>14, <1>15 DEF Timeout
<1>16. ASSUME NEW p \in Pod, CancelJobs(p) PROVE Inv'
  BY ZenonT(60), <1>1, <1>2, <1>14, <1>16 DEF CancelJobs
<1>17. \A c \in Content : /\ JobOK(NoJob, sink, status)
                          /\ JobOK(Started(c), sink, status)
                          /\ \A known \in SUBSET StoredTargets(c) :
                                JobOK(StartedKnown(c, known), sink, status)
  <2> SUFFICES ASSUME NEW c \in Content
               PROVE  /\ JobOK(NoJob, sink, status)
                      /\ JobOK(Started(c), sink, status)
                      /\ \A known \in SUBSET StoredTargets(c) :
                            JobOK(StartedKnown(c, known), sink, status)
    OBVIOUS
  <2>1. JobOK(NoJob, sink, status) /\ JobOK(Started(c), sink, status)
    <3>1. {} \in SUBSET Target /\ \A t \in {} : status[c][t] = "stored"
      OBVIOUS
    <3>2. QED
      BY ONLY ZenonT(60), <3>1, StartedOK
  <2>2. ASSUME NEW known \in SUBSET StoredTargets(c)
        PROVE  JobOK(StartedKnown(c, known), sink, status)
    <3>1. known \in SUBSET Target /\ \A t \in known : status[c][t] = "stored"
      BY DEF StoredTargets
    <3>2. QED
      BY SMTT(30), <3>1, StartedOK
  <2>3. QED
    BY SMTT(30), <2>1, <2>2
<1>18. JobOK(NoJob, sink, status)
  BY SMTT(30), <1>17, PipelineAssumption
<1>19. ASSUME NEW j \in Job, Finish(j) PROVE Inv'
  BY ZenonT(60), <1>3, <1>18, <1>19 DEF Finish
<1>20. ASSUME NEW j \in Job, NEW c \in Content, NEW known \in SUBSET Target,
              Begin(j, c) \/ BeginKnown(j, c, known)
       PROVE  Inv'
  BY SMTT(30), <1>3, <1>17, <1>20 DEF Begin, BeginKnown
<1>21. ASSUME NEW p \in Pod, Die(p) PROVE Inv'
  BY SMTT(30), <1>1, <1>2, <1>18, <1>21 DEF Die
<1>22. CASE UNCHANGED <<sink, status, size, job>>
  BY SMTT(30), <1>1, <1>2, <1>22
<1>23. ASSUME NEW j \in Job, JobStep(j) PROVE Inv'
  BY SMTT(30), <1>4, <1>5, <1>6, <1>7, <1>9, <1>10, <1>11, <1>12, <1>13, <1>23 DEF JobStep
<1>24. QED
  BY SMTT(30), <1>15, <1>16, <1>19, <1>20, <1>21, <1>22, <1>23
     DEF PipelineNext, Elapse, CalmDown, pipelineVars

-----------------------------------------------------------------------------
\* The invariant holds in every reachable state.
LEMMA Invariance == PipelineSpec => []Inv
<1>1. PipelineInit => Inv
  <2> SUFFICES ASSUME PipelineInit PROVE Inv
    OBVIOUS
  <2>1. TypeInv
    BY SMTT(30), ClosedOK, NoJobType DEF PipelineInit, TypeInv, PipelineTypeOK, Breakers
  <2>2. JobsOK
    <3>1. JobOK(NoJob, sink, status)
      BY Zenon DEF JobOK, NoJob
    <3>2. QED
      BY SMTT(30), <3>1 DEF PipelineInit, JobsOK
  <2>3. StoredIsReal /\ StoredHasVerifiedSize
    BY DEF PipelineInit, StoredIsReal, StoredHasVerifiedSize, StoredTargets
  <2>4. QED
    BY SMTT(30), <2>1, <2>2, <2>3 DEF Inv
<1>2. QED
  BY <1>1, InvStep, PTL DEF PipelineSpec

\* Every variable of the pipeline keeps its type, in every combination of
\* jobs, pods and faults.
THEOREM PipelineTypes == PipelineSpec => []PipelineTypeOK
<1>1. Inv => PipelineTypeOK
  BY DEF Inv, TypeInv
<1>2. QED
  BY <1>1, Invariance, PTL

\* The ledger never claims a copy that a target does not hold, nor one without
\* a verified size (backupFrom, RecordBackup).
THEOREM LedgerIsReal == PipelineSpec => [](StoredIsReal /\ StoredHasVerifiedSize)
<1>1. Inv => StoredIsReal /\ StoredHasVerifiedSize
  BY SMTT(30) DEF Inv
<1>2. QED
  BY <1>1, Invariance, PTL

\* backupFrom returns done only for an object that the ledger records on every
\* target, and deferred only if each gap is on a target it found open.
THEOREM VerdictsAreRight == PipelineSpec => []VerdictGate
<1>1. Inv => VerdictGate
  BY SMTT(30) DEF Inv, JobsOK, JobOK, VerdictGate, DoneGate, DeferGate, StoredTargets
<1>2. QED
  BY <1>1, Invariance, PTL

\* No step takes back a stored status or a verified size, whatever other jobs
\* recorded since this one looked.
LEMMA LedgerStep ==
    TypeInv /\ [PipelineNext]_pipelineVars =>
        [\A c \in Content :
            /\ StoredTargets(c) \subseteq StoredTargets(c)'
            /\ size[c] = "verified" => size'[c] = "verified"]_pipelineVars
<1> SUFFICES ASSUME TypeInv, PipelineNext, NEW c \in Content
             PROVE  /\ StoredTargets(c) \subseteq StoredTargets(c)'
                    /\ size[c] = "verified" => size'[c] = "verified"
  OBVIOUS
<1>0. /\ status \in [Content -> [Target -> {"none", "failed", "stored"}]]
      /\ size \in [Content -> {"absent", "hearsay", "verified"}]
  BY DEF TypeInv, PipelineTypeOK
<1>1. CASE UNCHANGED ledgerVars
  BY <1>1 DEF ledgerVars, StoredTargets
<1>2. ASSUME NEW d, NEW ok, NEW failed, NEW verified,
             LedgerWrite(d, ok, failed, verified)
      PROVE  /\ StoredTargets(c) \subseteq StoredTargets(c)'
             /\ size[c] = "verified" => size'[c] = "verified"
  BY <1>0, <1>2 DEF LedgerWrite, Merged, SizeMerged, StoredTargets
<1>3. ASSUME NEW j \in Job, RecordBackup(j)
      PROVE  \/ UNCHANGED ledgerVars
             \/ LedgerWrite(job[j].content, job[j].ok, job[j].failed, job[j].verified)
  BY ZenonT(60), <1>3 DEF RecordBackup
<1>4. ASSUME NEW j \in Job, JobStep(j), ~RecordBackup(j) PROVE UNCHANGED ledgerVars
  BY Zenon, <1>4 DEF JobStep, ledgerVars, ResolveStored, PendingTargets, StreamVerified,
       Commit, FetchFailed, SourceFailed, AllTargetsDied, FanOutDone,
       FanOutAborted, FanOutReturns, RecordCircuit, Classify
<1>5. (\A j \in Job : ~JobStep(j)) => UNCHANGED ledgerVars
  BY DEF PipelineNext, ledgerVars, Timeout, Finish, Begin, BeginKnown, CancelJobs,
         Die, Elapse, CalmDown
<1>6. QED
  BY SMTT(30), <1>1, <1>2, <1>3, <1>4, <1>5

\* The ledger is monotone (RecordBackup's ON CONFLICT clauses).
THEOREM LedgerIsMonotone == PipelineSpec => LedgerNeverRegresses
<1>1. Inv => TypeInv
  BY DEF Inv
<1>2. QED
  BY <1>1, LedgerStep, Invariance, PTL DEF PipelineSpec, LedgerNeverRegresses
=============================================================================
