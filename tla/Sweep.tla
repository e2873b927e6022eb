------------------------------- MODULE Sweep --------------------------------
(***************************************************************************)
(* The four bounded sweeps and the commands that run them: backfill        *)
(* (internal/domain/backfill.go), reconcile (reconcile.go), restore all    *)
(* (restore.go) and drill (drill.go), with their exit verdicts             *)
(* (cmd/file-backup-service/main.go) and the drill's metrics textfile      *)
(* (adapter/inbound/metrics/metrics.go).                                   *)
(*                                                                         *)
(* One process runs one command: a dispatcher pages through the rows       *)
(* (module Keyset) and hands them to at most Concurrency workers           *)
(* (runBoundedPaced); the command exits when the workers have drained, and *)
(* may be run again.  Meanwhile the service stores other objects, files    *)
(* appear and vanish, copies rot and SIGTERM may arrive at any moment.     *)
(*                                                                         *)
(* A worker's attempt on an object is one step: module Pipeline shows that *)
(* what backupFrom returns is true of the ledger at its return, however    *)
(* its parts interleave.  A budget bounds the faults and the other events  *)
(* of a behavior; a failure of a flaky target costs nothing.               *)
(***************************************************************************)
EXTENDS Keyset, Restore, SequencesExt

CONSTANTS
    Item,           \* object keys: even numbers (module Keyset)
    Target,         \* the configured targets: numbers, in the order of names
    Codec,          \* target -> "none" or "zstd"
    Magic,          \* the objects whose plaintext begins with the zstd magic
    Commands,       \* the commands checked, a subset of Command
    Starts, Samples,    \* random starts, and sample sizes (0: all)
    Ledgers, Corpora, Dirs,     \* what stored, corpus and dest begin with
    Flaky,          \* targets that may fail, and whose circuit may be open
    Concurrency, Budget,
    MaxRuns         \* command -> how often it may be run

Command == {"backfill", "reconcile", "restore all", "drill"}

ASSUME SweepAssumption ==
    /\ \A i \in Item : i \in Nat \ {0} /\ i % 2 = 0
    /\ Target \subseteq Nat /\ Ledgers \in [Commands -> SUBSET [Item -> SUBSET Target]]
    /\ Corpora \subseteq SUBSET Item /\ Dirs \subseteq [Item -> File]
    /\ Flaky \subseteq Target
    /\ Codec \in [Target -> {"none", "zstd"}]
    /\ Magic \subseteq Item /\ Commands \subseteq Command
    /\ \A s \in Starts : s = 0 \/ s % 2 = 1
    /\ Concurrency \in Nat \ {0} /\ Budget \in Nat /\ MaxRuns \in [Commands -> Nat \ {0}]

VARIABLES
    cmd, from, sample, start,   \* the command line
    ctx,                \* the command's context: "live" or "canceled"
    corpus,             \* files that exist in the file-service
    known, stored,      \* the ledger: object rows, and where they are stored
    rot,                \* <<object, target>>: copies that went bad
    dest,               \* the files in the restore directory
    cur, pc, err,       \* the dispatcher: cursor, position, enumerate's error
    seen,               \* object -> its stored set when its page was read
    work,               \* object -> the state of its worker
    exit,               \* the exit code of the last run: "none", "zero" or "one"
    gauge,              \* the drill's textfile; read: its last writer could read
                        \* the one before
    duty,               \* the rows that are there all through the run
    run, budget         \* runs so far, events that may still happen

world == <<corpus, known, stored, rot>>
args == <<cmd, from, sample, start>>
book == <<gauge, duty, run>>
dispatcher == <<cur, pc, err, seen>>
vars == <<cmd, from, sample, start, ctx, corpus, known, stored, rot, dest, cur,
          pc, err, seen, work, exit, gauge, duty, run, budget>>

Outcome == {"none", "success", "skipped", "deferred", "failed", "cancelled"}
Cause == {"circuit", "target", "source", "rot", "disk", "timeout", "panic", "ledger", "gone"}

\* n counts the dispatches of the object, why the faults that really hit it.
Worker == [n : Nat, running : BOOLEAN, out : Outcome, srcs : Seq(Target),
           err : {"nil", "io", "corrupt", "deadline", "canceled", "panic"},
           why : SUBSET Cause]

Idle == [n |-> 0, running |-> FALSE, out |-> "none", srcs |-> <<>>, err |-> "nil", why |-> {}]

TypeOK ==
    /\ cmd \in Commands /\ from \in Target /\ sample \in Samples /\ start \in Starts
    /\ ctx \in {"live", "canceled"}
    /\ corpus \subseteq Item /\ known \subseteq Item
    /\ stored \in [Item -> SUBSET Target] /\ rot \subseteq Item \X Target
    /\ dest \in [Item -> File]
    /\ cur \in Cursor(Item \cup Starts) /\ (sample > 0 => cur.consumed <= sample)
    /\ pc \in {"page", "yield", "drain", "exited"}
    /\ err \in {"nil", "canceled", "ledger"}
    /\ seen \in [Item -> SUBSET Target]
    /\ \A i \in Item : work[i] \in Worker /\ work[i].n <= 2
    /\ exit \in {"none", "zero", "one"}
    /\ gauge \in [pass : BOOLEAN, last : 0..MaxRuns[cmd], read : BOOLEAN]
    /\ duty \subseteq Item
    /\ run \in 1..MaxRuns[cmd] /\ budget \in 0..Budget

-----------------------------------------------------------------------------
\* The rows of a sweep: the file table (EachFile), the objects of the ledger
\* that some target lacks (TargetGaps), the objects stored on the source
\* (StoredExternalIDsPage).
FileRows == corpus
GapRows == {i \in known : stored[i] # Target}
StoredRows == {i \in known : from \in stored[i]}

Rows ==
    CASE cmd = "backfill" -> FileRows
      [] cmd = "reconcile" -> GapRows
      [] OTHER -> StoredRows

Running == {i \in Item : work[i].running}
Count(o) == Cardinality({i \in Item : work[i].out = o})
Dispatched == {i \in Item : work[i].n > 0}

\* The form of a copy: what the target's codec made of the plaintext.
Copy(i, t) ==
    LET magic == Codec[t] = "zstd" \/ i \in Magic
    IN  IF <<i, t>> \in rot THEN IF magic THEN "badMagic" ELSE "bad"
        ELSE IF Codec[t] = "zstd" THEN "zstd"
        ELSE IF magic THEN "rawMagic" ELSE "raw"

\* A fault, or an event of the environment, uses up the budget.
Spend(n) == budget >= n /\ budget' = budget - n

-----------------------------------------------------------------------------
\* The dispatcher.

\* sampledStart: only a sampled sweep begins at a random place.
SampledStarts(n) == IF n > 0 THEN Starts ELSE {0}

\* The sweep's source asks for its next page.  TargetGaps reads each object's
\* stored set with the page.
NextPage ==
    /\ pc = "page" /\ cur.page = {} /\ ~cur.last
    /\ cmd = "drill" => ~SampleDone(cur, sample)
    /\ cur' = IF cmd = "drill" THEN Sampled(cur, Rows, sample, start)
              ELSE Pulled(cur, Rows)
    /\ seen' = [i \in Item |-> IF i \in cur'.page THEN stored[i] ELSE seen[i]]
    /\ pc' = IF cur'.page = {} THEN "page" ELSE "yield"
    /\ UNCHANGED <<args, ctx, world, dest, err, work, exit, book, budget>>

\* enumerate returned: the dispatcher waits for its workers.
Stop(e) ==
    /\ pc' = "drain" /\ err' = e
    /\ UNCHANGED <<args, ctx, world, dest, cur, seen, exit, book>>

\* The page query fails: a cancelled context, or the database.
PageFails ==
    /\ pc = "page" /\ cur.page = {} /\ ~cur.last
    /\ \/ ctx = "canceled" /\ Stop("canceled") /\ UNCHANGED budget
       \/ ~(cmd = "drill" /\ SampleDone(cur, sample)) /\ Stop("ledger") /\ Spend(1)
    /\ UNCHANGED work

\* There is no further row.
LastPage ==
    /\ pc = "page" /\ cur.page = {}
    /\ cur.last \/ (cmd = "drill" /\ SampleDone(cur, sample))
    /\ Stop("nil")
    /\ UNCHANGED <<work, budget>>

\* orderSources: targets with a healthy circuit first.
OrderSources(holders, tripped) ==
    SetToSortSeq(holders \ tripped, <) \o SetToSortSeq(holders \cap tripped, <)

\* A worker starts.  For a repair, the circuits decide the order of sources.
Begun(i, tripped) ==
    [work EXCEPT ![i] = [Idle EXCEPT !.n = work[i].n + 1, !.running = TRUE,
        !.srcs = IF cmd = "reconcile" THEN OrderSources(seen[i], tripped) ELSE <<>>]]

\* yield: the pacer and the semaphore let the next row through.
Yield ==
    LET i == Min(cur.page)
    IN  /\ pc = "yield" /\ Cardinality(Running) < Concurrency
        /\ ctx = "live"
        /\ cur' = [cur EXCEPT !.page = @ \ {i}]
        /\ pc' = IF cur'.page = {} THEN "page" ELSE "yield"
        /\ \E tripped \in SUBSET Flaky : work' = Begun(i, tripped)
        /\ UNCHANGED <<args, ctx, world, dest, err, seen, exit, book, budget>>

\* yield with a cancelled context stops the sweep; select may still have
\* chosen the semaphore, and the row is then dispatched all the same.
YieldCanceled ==
    /\ pc = "yield" /\ ctx = "canceled"
    /\ Stop("canceled")
    /\ \/ UNCHANGED work
       \/ /\ Cardinality(Running) < Concurrency
          /\ \E tripped \in SUBSET Flaky : work' = Begun(Min(cur.page), tripped)
    /\ UNCHANGED budget

-----------------------------------------------------------------------------
\* The workers.

\* A worker counts its object's outcome and frees its slot.
Finished(i, out, e, why) ==
    work' = [work EXCEPT ![i] = [@ EXCEPT !.running = FALSE, !.out = out,
                                          !.err = e, !.srcs = <<>>, !.why = @ \cup why]]

\* cancelledInFlight: the error is the cancellation of the command's context.
CancelledInFlight(e) == e = "canceled" /\ ctx = "canceled"

\* How the context of an object may end, and what that costs.
Ends == {"live", "deadline"} \cup (IF ctx = "canceled" THEN {"canceled"} ELSE {})
Cost(b) == IF b THEN 1 ELSE 0

\* backupFrom, given the targets found open, the stores that succeeded and the
\* targets that are Down afterwards.
BackupFrom(missing, open, ok, tripped, end) ==
    LET gaps == (missing \ open) \ ok
        healthyFailed == gaps \ tripped
        done == gaps = {} /\ open = {} /\ end = "live"
        because(cause, b) == IF b THEN {cause} ELSE {}
    IN  IF missing = open
        THEN [fetched |-> FALSE, add |-> {}, done |-> open = {}, deferred |-> open # {},
              err |-> "nil", why |-> because("circuit", open # {}), cost |-> 0]
        ELSE [fetched |-> TRUE, add |-> ok, done |-> done,
              deferred |-> healthyFailed = {} /\ ~done,
              err |-> IF healthyFailed # {} /\ end # "live" THEN end ELSE "nil",
              why |-> because("circuit", open \cup (gaps \cap tripped) # {})
                      \cup because("target", healthyFailed # {} /\ end = "live")
                      \cup because("timeout", end = "deadline"),
              cost |-> Cost(end = "deadline" \/ (end = "live" /\ ~(gaps \subseteq Flaky)))]

\* An error of backupFrom, and the fault behind it.
Erred(e, why, cost) ==
    [fetched |-> FALSE, add |-> {}, done |-> FALSE, deferred |-> FALSE,
     err |-> e, why |-> why, cost |-> cost]

\* What backupFrom can return for an object that misses these targets, given
\* how its fetch can fail.
BackupFroms(missing, failures) ==
    {BackupFrom(missing, open, ok, tripped, end) :
        open \in SUBSET (missing \cap Flaky), ok \in SUBSET missing,
        tripped \in SUBSET (missing \cap Flaky), end \in Ends}
    \cup {Erred("io", {"ledger"}, 1), Erred("deadline", {"timeout"}, 1)}
    \cup (IF missing = {} THEN {} ELSE failures)
    \cup (IF ctx = "canceled" THEN {Erred("canceled", {}, 0)} ELSE {})

Record(i, add) ==
    /\ stored' = [stored EXCEPT ![i] = @ \cup add]
    /\ known' = IF add = {} THEN known ELSE known \cup {i}
    /\ UNCHANGED <<corpus, rot>>

\* backupOne's switch over what BackupOne returned.
BackedUp(i, r) ==
    Finished(i, CASE r.err = "nil" /\ r.done -> "success"
                  [] r.err = "nil" /\ r.deferred -> "deferred"
                  [] CancelledInFlight(r.err) -> "cancelled"
                  [] OTHER -> "failed", r.err, r.why)

\* backupOne: BackupOne reads the stored set itself; a source that answers 404
\* or 410 is skipped, whether the file row is gone too or still there.
BackupOne(i) ==
    LET missing == Target \ stored[i]
    IN  /\ cmd = "backfill" /\ work[i].running
        /\ \/ \E r \in BackupFroms(missing, {Erred("io", {"source"}, 1)}) :
                 /\ r.fetched => i \in corpus
                 /\ Spend(r.cost) /\ Record(i, r.add) /\ BackedUp(i, r)
           \/ /\ missing # {}
              /\ Finished(i, "skipped", "nil", {"gone"})
              /\ Spend(Cost(i \in corpus)) /\ UNCHANGED world
        /\ UNCHANGED <<args, ctx, dest, dispatcher, exit, book>>

\* What really failed when a copy was decoded under a plan.
DecodeCause(form, plan) ==
    (IF Intact(form) THEN {} ELSE {"rot"})
    \cup (IF plan.first = "ok" /\ plan.second = "ok" THEN {} ELSE {"source"})
    \cup (IF plan.disk1 = "ok" /\ plan.disk2 = "ok" THEN {} ELSE {"disk"})

\* decodingSource.FetchContent: how staging an object from a copy can fail.
StageFailures(form) ==
    {Erred(DecodeStream(form, p).err, DecodeCause(form, p), Cost(p # NoFault)) :
        p \in {q \in Plan : DecodeStream(form, q).err # "nil"}}

\* repair's decision after one source: only an error of the source itself, with
\* the object's context still live, rotates to the next one.
Repaired(i, r) ==
    IF r.err = "nil"
    THEN Finished(i, IF r.done THEN "success" ELSE "failed", r.err, r.why)
    ELSE IF CancelledInFlight(r.err) THEN Finished(i, "cancelled", r.err, r.why)
    ELSE IF r.err = "deadline" \/ ctx = "canceled" \/ Len(work[i].srcs) = 1
    THEN Finished(i, "failed", r.err, r.why)
    ELSE work' = [work EXCEPT ![i] = [@ EXCEPT !.srcs = Tail(@), !.why = @ \cup r.why]]

\* repair: an object that no target holds is skipped, otherwise backupFrom runs
\* with the next source and the stored set that came with the page.
Repair(i) ==
    LET form == Copy(i, Head(work[i].srcs))
    IN  /\ cmd = "reconcile" /\ work[i].running
        /\ \/ /\ work[i].srcs = <<>>
              /\ Finished(i, "skipped", "nil", {})
              /\ UNCHANGED <<world, budget>>
           \/ /\ work[i].srcs # <<>>
              /\ \E r \in BackupFroms(Target \ seen[i], StageFailures(form)) :
                    /\ r.fetched => Intact(form)
                    /\ Spend(r.cost) /\ Record(i, r.add) /\ Repaired(i, r)
        /\ UNCHANGED <<args, ctx, dest, dispatcher, exit, book>>

\* What restoring an object over this file can come to.
Restores(i, file) ==
    {LET r == RestoreObjectTo(file, Copy(i, from), p, c)
     IN  [err |-> r.err, skipped |-> r.skipped, file |-> r.file,
          why |-> IF r.err = "nil" THEN {} ELSE
                  DecodeCause(Copy(i, from), p) \cup (IF c = "ok" THEN {} ELSE {"disk"}),
          cost |-> Cost(p # NoFault) + Cost(c # "ok")] :
        p \in Plan, c \in {"ok", "before", "after"}}
    \cup {[err |-> e, skipped |-> FALSE, file |-> file,
           why |-> IF e = "deadline" THEN {"timeout"} ELSE {},
           cost |-> Cost(e = "deadline")] : e \in Ends \ {"live"}}

\* restoreAllOne's and drillOne's decision.
RestoredOutcome(r) ==
    CASE CancelledInFlight(r.err) -> "cancelled"
      [] r.err # "nil" /\ ~CancelledInFlight(r.err) -> "failed"
      [] r.err = "nil" /\ r.skipped -> "skipped"
      [] OTHER -> "success"

RestoreAllOne(i) ==
    /\ cmd = "restore all" /\ work[i].running
    /\ \E r \in Restores(i, dest[i]) :
          /\ Spend(r.cost)
          /\ dest' = [dest EXCEPT ![i] = r.file]
          /\ Finished(i, RestoredOutcome(r), r.err, r.why)
    /\ UNCHANGED <<args, ctx, world, dispatcher, exit, book>>

\* drillOne restores into an empty scratch directory and removes the file; a
\* cancelled object is not counted at all.
DrillOne(i) ==
    /\ cmd = "drill" /\ work[i].running
    /\ \E r \in Restores(i, "none") :
          /\ Spend(r.cost)
          /\ Finished(i, RestoredOutcome(r), r.err, r.why)
    /\ UNCHANGED <<args, ctx, world, dest, dispatcher, exit, book>>

\* A worker panics; its recover counts the object as failed.
Panic(i) ==
    /\ work[i].running
    /\ Spend(1)
    /\ Finished(i, "failed", "panic", {"panic"})
    /\ UNCHANGED <<args, ctx, world, dest, dispatcher, exit, book>>

-----------------------------------------------------------------------------
\* The command's verdict.

\* DrillOutcome.Checked and Pass.
Checked == Count("success") + Count("failed")
Pass == Checked > 0 /\ Count("failed") = 0

\* drillInterruptErr: an object that was dispatched but not counted means that
\* the sweep was cut short.
DrillErr ==
    IF err # "nil" THEN err
    ELSE IF Checked < Cardinality(Dispatched) THEN "canceled" ELSE "nil"

\* backfillVerdict, reconcileVerdict and restoreAllVerdict, under onShutdownOK;
\* drillReport, which is not.
Verdict ==
    CASE cmd = "drill" -> DrillErr = "nil" /\ Pass
      [] cmd = "restore all" ->
            /\ Count("failed") = 0 /\ err # "ledger"
            /\ err = "nil" => Dispatched # {}
      [] cmd = "reconcile" ->
            Count("failed") = 0 /\ Count("skipped") = 0 /\ err # "ledger"
      [] OTHER -> Count("failed") = 0 /\ err # "ledger"

\* A bug of WriteTextfile: a failing drill does not carry last_success over.
TextfileClobbered(readable) ==
    gauge' = [pass |-> Pass, last |-> IF Pass THEN run ELSE 0, read |-> Pass \/ readable]

\* readPriorLastSuccess: a file that cannot be opened or parsed gives 0.
ReadPriorLastSuccess(readable) == IF readable THEN gauge.last ELSE 0

\* SetPass and WriteTextfile: a drill that did not pass carries over the
\* last_success it reads, one that passed needs none.  The file is replaced as
\* a whole (CommitWrite).
Textfile(readable) ==
    gauge' = [pass |-> Pass, last |-> IF Pass THEN run ELSE ReadPriorLastSuccess(readable),
              read |-> Pass \/ readable]

\* The workers have drained: report and exit.  An interrupted drill leaves its
\* textfile alone, and one that cannot write it only warns.
Report ==
    /\ pc = "drain" /\ Running = {}
    /\ pc' = "exited" /\ exit' = IF Verdict THEN "zero" ELSE "one"
    /\ \/ /\ cmd = "drill" /\ DrillErr = "nil" /\ UNCHANGED budget
          /\ \E readable \in BOOLEAN : Textfile(readable)
       \/ cmd = "drill" /\ DrillErr = "nil" /\ Spend(1) /\ UNCHANGED gauge
       \/ cmd = "drill" /\ DrillErr # "nil" /\ UNCHANGED <<gauge, budget>>
       \/ cmd # "drill" /\ UNCHANGED <<gauge, budget>>
    /\ UNCHANGED <<args, ctx, world, dest, cur, err, seen, work, duty, run>>

-----------------------------------------------------------------------------
\* The environment.

Sigterm ==
    /\ ctx = "live" /\ pc # "exited"
    /\ ctx' = "canceled"
    /\ UNCHANGED <<args, world, dest, dispatcher, work, exit, book, budget>>

\* Files come and go, the service backs objects up, copies rot.
WorldChanges ==
    /\ pc # "exited" /\ Spend(1)
    /\ \E i \in Item :
          \/ /\ cmd = "backfill"
             /\ corpus' = IF i \in corpus THEN corpus \ {i} ELSE corpus \cup {i}
             /\ duty' = duty \ {i}
             /\ UNCHANGED <<known, stored, rot>>
          \/ /\ \E t \in Target \ stored[i] : Record(i, {t})
             /\ UNCHANGED duty
          \/ /\ \E t \in stored[i] : rot' = rot \cup {<<i, t>>}
             /\ UNCHANGED <<corpus, known, stored, duty>>
    /\ UNCHANGED <<args, ctx, dest, dispatcher, work, exit, gauge, run>>

\* The command is run again.
Rerun ==
    /\ pc = "exited" /\ run < MaxRuns[cmd]
    /\ run' = run + 1 /\ ctx' = "live"
    /\ start' \in SampledStarts(sample) /\ cur' = CursorAt(start')
    /\ pc' = "page" /\ err' = "nil"
    /\ work' = [i \in Item |-> Idle] /\ duty' = Rows
    /\ seen' = [i \in Item |-> {}]
    /\ UNCHANGED <<cmd, from, sample, corpus, known, stored, rot, dest, exit, gauge, budget>>

Done == pc = "exited" /\ run = MaxRuns[cmd] /\ UNCHANGED vars

-----------------------------------------------------------------------------
\* What a command never reads has one value only.
Init ==
    /\ cmd \in Commands /\ from \in Target /\ sample \in Samples
    /\ cmd # "drill" => sample = 0
    /\ start \in SampledStarts(sample) /\ cur = CursorAt(start)
    /\ cmd \in {"backfill", "reconcile"} => from = Min(Target)
    /\ ctx = "live"
    /\ stored \in Ledgers[cmd]
    /\ known \in {k \in SUBSET Item : \A i \in Item : stored[i] # {} => i \in k}
    /\ cmd # "reconcile" => known = {i \in Item : stored[i] # {}}
    /\ corpus \in IF cmd = "backfill" THEN Corpora ELSE {Item}
    /\ rot = {}
    /\ dest \in IF cmd = "restore all" THEN Dirs ELSE {[i \in Item |-> "none"]}
    /\ pc = "page" /\ err = "nil"
    /\ seen = [i \in Item |-> {}] /\ work = [i \in Item |-> Idle]
    /\ exit = "none" /\ gauge = [pass |-> FALSE, last |-> 0, read |-> TRUE]
    /\ duty = Rows /\ run = 1 /\ budget = Budget

Dispatch == NextPage \/ PageFails \/ LastPage \/ Yield \/ YieldCanceled \/ Report
Worked(i) == BackupOne(i) \/ Repair(i) \/ RestoreAllOne(i) \/ DrillOne(i) \/ Panic(i)

Step == Dispatch \/ \E i \in Item : Worked(i)

Next == Step \/ Sigterm \/ WorldChanges \/ Rerun \/ Done

\* The process goes on as long as one of its goroutines can: a worker's attempt
\* ends, if only because it is abandoned when the object's deadline passes
\* (callWithCtx, storeWithCtx).  Writes of the restore directory and of the
\* drill's scratch are direct calls: their file system is assumed to answer.
Fairness == WF_vars(Step)

Spec == Init /\ [][Next]_vars /\ Fairness

-----------------------------------------------------------------------------
\* What a sweep counts as a success is one: when an object is counted, the
\* ledger says that every target holds it (backfill, reconcile), the file in
\* the restore directory is the plaintext (restore all: restored and skipped),
\* or the copy that was drilled is good.
SuccessIsReal ==
    [][\A i \in Item :
          work[i].out = "none" /\ work'[i].out \in {"success", "skipped"} =>
            CASE cmd = "restore all" -> dest'[i] = "good"
              [] cmd = "drill" -> Intact(Copy(i, from))
              [] OTHER -> work'[i].out = "success" => stored'[i] = Target]_vars

\* A failure that backfill, restore all or drill counts has a real cause: a
\* shutdown on its own never makes an object fail (cancelledInFlight), nor
\* does a target whose circuit is open make backfill fail it.  And an object is
\* reported corrupt only if its copy is, whatever faults the source met
\* (decodeZstd, decodeStreamInner), except for a fault in writing the destination.
FailureIsGenuine ==
    \A i \in Item :
        /\ work[i].out = "failed" /\ cmd # "reconcile" => work[i].why \ {"circuit"} # {}
        /\ work[i].err = "corrupt" => work[i].why \cap {"rot", "disk"} # {}

\* Does not hold (see the README): without the exception.  restore.go's
\* decodeZstd counts "a temp-file write error" among the errors that must not be
\* reported as corruption.
WriteErrorIsNotCorruption ==
    \A i \in Item : work[i].err = "corrupt" => "rot" \in work[i].why

\* A command that exits with zero and was not interrupted has covered every
\* row that was there all along, whatever else was inserted, deleted or
\* stored meanwhile, and whatever earlier runs left behind.  For backfill that
\* is less than a backup: a row may have been deferred, or skipped because the
\* source answered that its content is gone ("a clean exit is not proof anything
\* was backed up", backfillVerdict); but no row is passed over.
GreenMeansCovered ==
    pc = "exited" /\ exit = "zero" /\ (ctx = "live" \/ cmd = "drill") =>
        CASE cmd = "backfill" ->
                \A i \in duty : \/ stored[i] = Target
                                \/ work[i].out = "deferred" /\ "circuit" \in work[i].why
                                \/ work[i].out = "skipped" /\ "gone" \in work[i].why
          [] cmd = "reconcile" -> \A i \in duty : stored[i] = Target
          [] cmd = "restore all" -> \A i \in duty : dest[i] = "good"
          [] cmd = "drill" ->
                /\ \A i \in Dispatched : work[i].out = "success"
                /\ Dispatched # {}
                /\ sample = 0 => duty \subseteq Dispatched
                /\ Cardinality(Dispatched) >= Min({sample, Cardinality(duty)})

\* No row is dispatched twice in a pass, also when a sampled one wraps around,
\* and a sampled pass never exceeds its sample (keysetSample).
OncePerPass ==
    /\ \A i \in Item : work[i].n <= 1
    /\ cmd = "drill" /\ sample > 0 => Cardinality(Dispatched) <= sample

\* The drill's last_success goes forward only by a drill that passed, and back
\* only if the drill could not read the earlier textfile: it is then 0, where
\* WriteTextfile's comment says that "the file always carries the true
\* last-success".  An interrupted drill leaves the textfile as it was.
LastSuccessKept ==
    [][/\ gauge'.last > gauge.last => gauge'.pass /\ exit' = "zero"
       /\ gauge'.last < gauge.last => ~gauge'.read /\ ~gauge'.pass /\ gauge'.last = 0
       /\ gauge' # gauge => err = "nil" /\ Checked = Cardinality(Dispatched)]_vars

\* A reconcile's failure has a cause other than a shutdown
\* (ReconcileStats.Failed).
RepairFailureIsGenuine ==
    \A i \in Item : work[i].out = "failed" /\ cmd = "reconcile" => work[i].why # {}

\* Every run of a command ends, with or without a SIGTERM.
Exits == pc = "page" ~> pc = "exited"
=============================================================================
