# A TLA+ model of file-backup-service

The service copies every file of a content-addressed store to several backup
targets and keeps a ledger of what is stored where. This directory models all
of its commands: `serve` with the outbox, the consumer, the pipeline, the
fan-out, the circuit breaker and the background loops; the sweeps `backfill`,
`reconcile`, `restore all` and `drill`; `audit` with manifests and verdicts; and
the configuration, startup and shutdown they share. TLC checks the models on
small instances, and TLAPS proves the main results for every value of the
constants.

`PROJECT.json` has the machine-readable part: the components, the runs with
their properties, the source lines of every definition, the hazards, the
finding and the theorems.

## The system

| Part | State | Operations | Where |
|---|---|---|---|
| Outbox | a table row per file to back up: status, attempts, deliveries, visibleAt, claimedAt | Claim, MarkDone, Defer, Fail, Release, Skip, ReapStale | `adapter/outbound/db/outbox.go` |
| Consumer | workers with one row each, the wake channel, the reaper's ticker | worker, claimStep, process, settle, reap, listen, poll | `adapter/inbound/consumer` |
| Pipeline | the local state of one `backupFrom` per worker | precheck, resolveStored, pendingTargets, fanOut, recordCircuit, classifyFanout, RecordBackup | `domain/backup.go` |
| Ledger | an object row (size) and a status row per target | RecordBackup, StoredTargets, TargetGaps, keyset pages | `db/queries/ledger.sql`, `adapter/outbound/db/ledger.go` |
| Circuit breaker | per target: the last outcomes, openUntil | Open, Record, Down | `domain/circuit.go` |
| Fan-out | copy goroutine, a pump, a pipe and a store per target | Write, collect, drop, close, storeWithCtx | `domain/backup.go` |
| Sinks | the objects each target holds, manifests, a cached bucket verdict | Store, Exists, Fetch, PutManifest, LatestManifest, CheckImmutability | `adapter/outbound/sink`, `fsutil` |
| Sweeps | a dispatcher with a cursor, a bounded pool of workers, tallies | backfill, reconcile, restore all, drill | `domain/{backfill,keyset,reconcile,restore,drill}.go` |
| Audit | three directions with a verdict each | existence, immutability, inventory | `domain/{audit,immutability,inventory,verdict}.go` |
| Manifests | snapshots of the ledger on a target, and a pointer | WriteManifests, OpenLatestManifest | `domain/manifest.go`, `fsutil` |
| Background loops | gauges, alerts | TickLoop, SampleRPO, SampleCoverage, Sample, manifestLoop | `domain/{tick,sampler,immutability}.go` |
| Configuration | knobs, targets | Load, Validate, SelectReadTarget, durations | `internal/config` |
| Process | pools, HTTP server, deferred calls, exit code | run, serveCtx, ledgerJob, startupGate, /health | `cmd/file-backup-service/main.go`, `adapter/inbound/http` |

A row of the outbox is claimed by a worker, whose `backupFrom` asks the ledger
which targets have the object already, asks the breaker which of the others to
leave out, fans the source out to the rest, tells the breaker how it went,
records the result in the ledger and returns done, deferred or an error. The
consumer then settles the row. A reconcile later fills the gaps that the ledger
shows, from a copy on another target; an audit compares ledger, objects and
manifests; a drill restores a sample. What makes this hard:

- several pods claim from one table, and the only guard of a settle is
  `status='in_progress'`;
- a claim, a record or a settle may be applied although its answer is lost;
- a process can die between the commit on a target, the record and the settle;
- the breaker is read three times for one object while others change it;
- a target can hang in the middle of a chunk, or commit after it was abandoned;
- sweeps and audits page through tables that change under them, and sampled
  ones wrap around the key space;
- an absent object, an absent mount and an unreadable bucket look alike at first;
- a shutdown cancels contexts while everything above goes on, and must neither
  look like a failure nor hide one.

## Modules

| Module | Models | Uses |
|---|---|---|
| `CircuitBreaker` | one target's breaker entry, as operators | |
| `BreakerPool` | workers of one process around a shared breaker, with time | `CircuitBreaker` |
| `Fanout` | `fanOut` and `fanoutWriter` for one object: goroutines, pipes, stall timer, contexts | |
| `Pipeline` | concurrent jobs of `backupFrom` with ledger, sinks and breakers | `CircuitBreaker` |
| `Outbox` | the statements of the outbox on one row, as operators | |
| `BackupService` | pods, workers, reaper, shutdown, crash and restart around outbox and pipeline | `Pipeline`, `Outbox` |
| `BackupPromise` | what the service promises, abstractly | |
| `Lease` | a claim's age against staleTTL and the timeouts, and the reaper's sweeps, with a clock | |
| `WakeCascade` | the wake channel, LISTEN/NOTIFY, the poll ticker | |
| `Keyset` | the two ways to page through rows: `KeysetLoop`/`keysetPull`, and `keysetSample` with its wrap-around | |
| `Restore` | the decoders and the restore of one object, as operators | |
| `Sweep` | the four sweeps, their verdicts and exit codes, the drill's textfile | `Keyset`, `Restore` |
| `Verdict` | kinds of target, statuses and their classification, as operators | |
| `Audit` | one audit of one target beside the service, manifest writers and losses | `Keyset`, `Verdict` |
| `Config` | loading and validating the configuration, durations, as operators | |
| `Serve` | the life of a process: stages of each command, startup gates, background loops, /health, deferred calls | `Config`, `Verdict` |
| `*Proofs` | theorems about the module of that name (`ClaimProofs`: about claims in `BackupService`) | |
| `MC*` | instances for TLC | |

How the state corresponds to the code:

- *Breaker.* `recent` is the window of outcomes, `open` says that `openUntil`
  has an entry, and `wait` is the distance of `openUntil` from now. The
  distance replaces the time, so no clock is needed.
- *Pipeline.* `job[j].pc` stands at the points where another job can get in
  between: before the dedup read, the `Open` calls, each sink's commit, the
  return of the fan-out, the `Record` calls, the `Down` calls and the ledger
  write. `ctx` is the object's context as far as the code still reads it. In
  `size`, `hearsay` is the outbox's unverified size.
- *Faults* are a variable of Pipeline, the set of kinds of fault that may still
  happen. `CalmDown` empties it for good, which the liveness property needs.
  `Broken` targets never store anything.
- *Outbox.* `visibleAt` is NULL, in the future or due, and `claimedAt` is NULL,
  or younger or older than staleTTL: the comparisons in the WHERE clauses.
- *Service.* A worker is a job of the pipeline. `held` is the row that its
  `process` works on, `owner` (history) the worker whose claim was last, and
  `LeaseRespected` says whether a claim may outlive staleTTL under its worker.
  `Shutdown` also cuts off claims in flight: the rows that were claimed for
  nobody.
- *Fan-out.* Pipeline keeps only the outcomes of `fanOut`; `Fanout` has the
  goroutines. What Pipeline takes for granted is what `Fanout` checks:
  nothing commits before the stream was verified (`CommitIsComplete`), and a
  reported success is a commit (`OkIsCommitted`).
  `healthy` targets are those that neither fail nor hang; `raced` (history) has
  the targets that the stall timer caught after their last byte and before their
  signal, which `collect` drops with the stalled ones.
- *Lease.* `age` is the time since the claim's statement ran, `answer` how much
  of it passed before the worker had the row. `tickIn` and `due` are the reaper's
  ticker with its buffer of one tick; a sweep takes up to `DBTimeout`, runs or
  fails, and `missed` counts those that failed in a row. `ReapEvery` is the
  code's max(staleTTL/4, one minute).
- *Keyset.* Keys are even numbers and random starts odd ones, so that a start
  falls between two keys. A cursor is the last key seen, the rest of the page,
  and whether the page was the last; the sampled one also counts what it
  consumed and whether it wrapped.
- *Restore.* A copy is one of five forms (raw, raw that begins with the zstd
  magic, zstd, and bad ones with or without the magic), a destination the
  pieces that were written to it. A plan says which read or write fails.
- *Sweep.* `cur`, `pc` and `err` are the dispatcher, `work[i]` is the worker of
  object `i` with its outcome, and `why` (history) records which faults really
  hit it. `duty` (history) is the set of rows that were there all along. A
  worker's attempt is one step: Pipeline has its inside. A source may be gone for
  any object, with or without its row. The budget pays for faults and other
  events. `gauge` is the drill's textfile, with whether the earlier one could be
  read when it was written.
- *Audit.* `pc` runs through existence (`page`, `probe`), immutability (`lock`,
  then the versioning of the bucket in `locked` or `unlocked`) and inventory
  (`root` to `merge`); each call to a sink is one step, with the confirmation of
  the root or the bucket that follows an absence. A manifest's
  body is a sequence of keys in which 0 is a line that does not parse. `causes`,
  `owed`, `kept`, `known`, `bare` and `stable` are history: what has gone wrong,
  which objects were lost before the audit began, which rows have been there all
  along, which were there at some time, whether the lock has been off all along,
  and which manifests were there all through the diff.
- *Serve.* `at` is the stage of the command, `done` the answers of the checks
  so far, `defers` the stack of deferred calls, `loop[l]` a background loop with
  the outcomes of its pass. A dependency is up, down or hung; `seen` (history)
  is what has ever been bad. `gate` is the one deadline of `startupGate`, which
  hung checks bring near: a required check that answers late leaves the
  preflights none of it. Other times are left out: where two deadlines compete
  the shorter one wins (30 s for a probe against 120 s for a pass, 2 s for a
  /health probe against 5 s of grace), and the two reads of `SampleRPO` share
  one. The probe of the scratch directory is a direct call, which ends only when
  the mount answers.

## What TLC checks

Two workers, pods or jobs are enough for the races of pairs that the hazards
describe; two targets for one that is fine beside one that is not; three rows
and pages of two for a sweep of several pages whose last one is full or short;
thresholds and limits of 1 to 3 put every boundary within reach. Deadlock is
checked in every run: `Drained`, `Finished`, `Stopped` and `Done` are the states
in which the system may rest.

| Run | Instance | Checks |
|---|---|---|
| `breaker_pool` | 2 targets, 3 workers, threshold 2, stores of up to two cooldowns | `OpenIffTripped`; `ProbesAreSpaced`: probes of a target begin a cooldown apart |
| `fanout` | 2 targets, each healthy or not, 0 to 2 chunks, good, corrupt or broken source | `CommitIsComplete`, `OkIsCommitted`, `BufferNotReused`, `Isolation`; `BarrierReleases` without a deadline, `Returns` with one |
| `pipeline` | 2 jobs of one process on one object, 1 target, every fault of the pipeline, a malformed hash | `StoredIsReal`, `LedgerNeverRegresses` |
| `service_faults` | 2 pods, 1 row, 1 target; store failures, a source that is gone, lost database answers, crashes, panics, reaped live claims | `TypeOK`: the counters keep within their limits; `PromiseKept` |
| `service_settles` | the same pods with shutdowns, claims kept within staleTTL | `ExclusiveClaim`; `ShutdownCostsNoAttempt`; `EveryRowSettles` once faults stop |
| `service_outage` | 2 targets of which 1 is down for good, 2 workers, 2 rows of one content (1 stray) | `OutageNeverDeadLetters`; `VerdictGate`: done and deferred are justified |
| `lease` | a clock; the least staleTTL that is accepted, below the one-minute floor; 2 failed sweeps in a row | `TakenOnlyIfAnswerSlow`, `StuckRowIsCaught` |
| `wake_cascade` | 2 workers, 2 rows, 1 failing claim | `NoLostWakeup`; `PollingIsEnough`, `Drains` |
| `sweep` | all four commands; 3 objects, 2 targets (one compressing, one that may fail), pages of 2, 2 workers, full passes and samples of 2 from two starts, 2 runs | `SuccessIsReal`, `FailureIsGenuine`: the tallies tell the truth; `GreenMeansCovered`: so does exit code zero; `OncePerPass`, `LastSuccessKept`; `Exits` |
| `reconcile_shutdown` | the reconcile of `sweep` | violates `RepairFailureIsGenuine` |
| `audit` | a disk, and S3 targets that are WORM with an audit credential, write-only, or readable all the same; 3 objects, 2 manifests (unsorted, corrupt, newer than the pointer), a writer | `FailureHasCause`: each alarm has the cause it names; `GreenMeansAudited`; `NewestManifest`; `AuditEnds` |
| `serve` | 7 commands; every dependency up, down or hung; about 200 configurations on both sides of the limits | `AcceptedIsSound`, `StartFailureHasCause`, `NoUseAfterClose`, `AlarmIsGenuine`, `NoSilentStaleGauge`; `StartupSettles`, `ShutdownEnds` |

The runs leave out what the proofs cover for every instance: the type invariants
of `BreakerPool`, `Pipeline` and `Lease`, `StoredHasVerifiedSize`,
`BoundaryCrossings` and `DoneIsBackedUp`. `TypeOK` of `Fanout`, `WakeCascade`,
`Sweep`, `Audit` and `Serve` describes the state and holds in the instances
above; no run repeats it.

In `sweep`, `audit` and `serve` a behaviour has one fault or event of the
environment (`Budget`, `MaxEvents`), plus what costs nothing: a SIGTERM at any
moment, failures of the flaky target, whatever is already wrong in the initial
state, and the service's own recording and manifest writing. One event at every
possible moment is what the hazards ask for; pairs of such events are not
covered. In `serve` a second is 1000 units and `MaxInt64` is 10^9, so that
1,100,000 s overflows within TLC's 32-bit integers; the proof has no such
restriction.

What the instances leave out is in part supplied by the proofs: a service with
several targets, rows and contents under all faults at once is beyond TLC, and
`ServiceKeepsPromise` covers it. Jobs are interchangeable in `pipeline`,
workers and targets in `breaker_pool`; no run that checks liveness uses
symmetry.

### Where a comment and the code disagree

The run `reconcile_shutdown` ends in a counterexample. `reconcile.go` says of
`Failed` "not a shutdown", and counts a repair cut short by SIGTERM as Cancelled
if its error is the cancellation. But a fan-out whose stores all went through
before the context ended is still an abort, and `backupFrom` then answers
neither done nor an error: the repair is counted as failed, and the command
exits with one. Backfill counts the same answer as deferred.

Smaller ones, without a run of their own. Properties that state the comment are
in the modules where noted, and do not hold:

- `circuit.go` says that a target is "re-probed by ONE object at a time"; the
  reservation lasts one cooldown (60 s by default), while a store may take
  30 min, and nothing in `config.go` relates the two. What holds is
  `ProbesAreSpaced`: probes begin at least a cooldown apart.
- `backup.go` promises that one target's stall does not cost another; a healthy
  one that has written but not yet signalled when the timer fires is dropped
  with it, as the comment of `collect` grants. `Isolation` says that such a
  target fails without a commit, and every other healthy one is stored.
- `outbox.go` says "never a clobber of another worker's claim"; a worker that
  lost its claim settles the row while another worker has it
  (`BackupService!NoForeignSettle`). The promise is kept all the same.
- `config.go` calls perObjectTimeout + 2*BookkeepingTimeout "the true worst-case
  settling time" and accepts any staleTTL above it; but the claim ages from its
  statement on, and its answer may take up to dbTimeout. `TakenOnlyIfAnswerSlow`
  says exactly when a live worker loses its row: when the answer took longer
  than staleTTL leaves beyond that sum, one second at the least accepted
  staleTTL. The defaults leave ample room.
- `consumer.go` says of the reaper that its interval is "SHORTER than StaleTTL so
  a stuck row is caught within ~StaleTTL rather than up to 2x"; for a staleTTL
  below a minute, which `validateLimits` accepts, the floor of one minute makes
  it longer, and a sweep that fails costs another interval. `StuckRowIsCaught`
  has the bound.
- `main.go` warns that a clean exit of backfill "is not proof anything was backed
  up", and that goes for skipped objects too: `backupOne` skips whatever the
  file service answers 404 or 410 to, with its row still in the file table, so a
  wrong base URL that answers 404 throughout gives exit code zero.
  `GreenMeansCovered` therefore says stored, deferred by the circuit, or gone.
- `restore.go` counts a failed write of the temporary file among the errors that
  must not be reported as corruption; `decodeZstd` says tryRaw to it, and the
  raw reading of a zstd copy then fails its hash
  (`Sweep!WriteErrorIsNotCorruption`).
- `verdict.go` says that the exemption of write-only copies "never masks a
  verifiable target's silent loss"; on a WORM target that the worker's
  credential can read, a transient error beside a loss gives Unverifiable, which
  is exempt (`Audit!ExemptionNeverMasks`).
- `audit.go` says NoData of a target with nothing stored, where the tally says
  Verified; `inventory.go` and `verdict.go` call a manifest out of order corrupt,
  where the code falls back to a sorted comparison.
- `metrics.go` says that a failing drill "never resets last-success to 0"; it
  does if the earlier textfile cannot be read, and then only
  (`LastSuccessKept`).
- `startupGate` gives the required checks and the preflights one deadline of
  30 s: a database that answers after 29 s leaves healthy targets to fail, and
  the process exits with "no usable target". `StartFailureHasCause` names that
  cause.
- `sampler.go` promises an error for every gauge it cannot set; before anything
  is verified on any target, `last_success_age` is left alone without one, as
  its test asserts. `NoSilentStaleGauge` allows this only while never_verified
  counts every target.
- A claim in flight when the shutdown signal comes can be applied although
  `claimStep` returns without the row: a graceful shutdown may leave such a row,
  and only such a row, in_progress until it is reaped.
- The scratch directory's probe (`preflightScratch`) is a direct call, unlike
  every other startup check: on a hung mount `reconcile` and `drill` neither
  start nor react to SIGTERM. `StartupSettles` and `ShutdownEnds` except this
  state, `StuckInScratch`, and no other.

### Fairness

`BackupService!Fairness` assumes weak fairness of each worker (a goroutine that
can go on does), of the tickers and clocks (`Reap`, `Age`, `BecomeDue`,
`CoolDown`), of the end of a drained process and its restart by the
orchestrator, and that faults stop at some time (`Calm`). Nothing is assumed of
crashes, shutdowns or lost answers. `Fanout!FairSpec` assumes that the
goroutines of the process run and the stall timer fires; a store is assumed to
go on only if its target is healthy, and `Returns` adds the object's timeout as
its premise. `WakeCascade!FairSpec` assumes the poll ticker, the workers and that
hidden or lost rows reappear, and nothing of notifications. `Sweep`, `Audit` and
`Serve` assume weak fairness of the process as a whole: it does not stop while
one of its goroutines can go on. That a call to a hung dependency can go on at
all is the deadline's or the cancellation's doing (`callWithCtx`,
`RunAbandonable`, `auditProbeTimeout`), and is in the actions, not in the
fairness: `Serve!Answers` lets a hung call end only by them, and the mutant of
`Check` that waits for it violates `StartupSettles`. The writes of `restore all`
to its destination and of `drill` to its scratch directory have no such bound in
the code; `Sweep!Exits` assumes that these local disks do not hang.

## What is proved

For all values of the constants that satisfy the named assumptions:

- **`ServiceKeepsPromise`**: `BackupService` implements `BackupPromise`. The
  sinks are the abstract copies, the ledger's stored statuses the abstract
  record, and a row's status its outcome. A commit is a `Copy`, `RecordBackup`
  a `Record`, a settle to done a `Complete`, and every other step gives up a
  (possibly empty) set of rows.
- **`DoneMeansBackedUp`**, **`ServiceTypesHold`**.
- **`ClaimsAreExclusive`**: under `LeaseRespected` no row has two workers.
  **`ShutdownsAreFree`**: no step of a process that shuts down charges a row an
  attempt, apart from a panic.
- **`LedgerIsReal`**, **`VerdictsAreRight`**, **`LedgerIsMonotone`** and
  **`PipelineTypes`** about the pipeline.
- **`OpenMeansTripped`**, **`BoundariesAreRecords`**, and **`ProbesKeepApart`**,
  however long stores take.
- **`StuckRowsAreCaught`** and **`OnlySlowAnswersCostAClaim`**, for every staleTTL
  that `validateLimits` accepts and any number of failed sweeps.
- **`ConfigurationIsSound`**: whatever the file and the environment contain, a
  command that gets to run has knobs that satisfy the orderings the other
  modules assume, and durations that did not overflow. `ConfigAssumption` asks
  that a week fits into `MaxInt64`, which it does by far.

The inductive invariants. *Pipeline* (`PipelineProofs!Inv`): the types, a
consistent breaker (`EntryOK`), the two ledger invariants, and for each job
`JobOK`: what it put or reports ok is in the sinks, its dedup set is in the
ledger, and its sets cover the targets, in the form that fits its pc. JobOK
only grows truer as other jobs add copies and stored statuses (`JobFrame`),
which is why concurrent jobs do not disturb it. *Service*
(`BackupServiceProofs!ServiceInv`): every row that can still be claimed has
room in its counters (`RowsOK`), a worker's job is about the content of the row
it holds (`HeldOK`), and a done row is recorded (`DoneIsRecorded`).
`ServiceStepsPipeline` shows that each step of the service is a step of the
pipeline or leaves it alone, so the pipeline's theorems carry over. *Claims*
(`ClaimProofs!Exclusive`): besides the property itself, a row that a worker
holds is in_progress with a claim that is not stale, so that neither a claim nor
a reap can touch it; `StepsMoveRows` says how each step moves rows and holders.
*Breaker*: `EntryOK`, and for `ProbesKeepApart` also that a probe younger than
the cooldown still has its reservation (`ProbeReserved`). *Lease*: the claim's
age is the time its answer took plus at most what the phases since then can have
taken; and it is bounded by how far the reaper's ticker has come since the last
sweep, with one more period for each sweep missed. *Serve*: the configuration of a process
past `Load` has positive knobs, and past its validating stage it has been
accepted; that the accepted knobs are sound is arithmetic about `Config`.

Only model-checked: everything temporal under fairness (the prover has no
fairness), `OutageNeverDeadLetters`, and the modules `Fanout`, `WakeCascade`,
`Sweep`, `Audit` and, apart from the configuration, `Serve`. What `Keyset`'s and
`Restore`'s operators return for whole sequences of pages or faults is an
induction over data, and is checked through the runs that use them.

## What is not modelled

- Database plumbing: connection pools, migrations, generated code. A pool
  connects lazily and its opening does not fail.
- The HTTP client's and the S3 library's inside: one request with its outcome.
- Temporary files that a crash leaves behind, and what BacklogStats counts.
- `migrate`, `resolveCurrentHash`, and the flags of the command line; the audit
  is one with `--inventory`.
- Times, except in `Lease` and `BreakerPool` and where two deadlines are
  compared.
- Several replicas in an outage: each has its own breaker, and `circuit.go`
  concedes that a row which several of them fail in turn may use up its attempts.
  `OutageNeverDeadLetters` is about one pod that is not restarted.
- A SIGTERM before the signal context exists, which ends the process at once.

Bytes, hashes and codecs are abstracted to whether a stream was verified and to
the forms of a copy. A pipeline without a breaker
(`Circuit == nil`), which no command builds, is not modelled. A store that commits
after it was abandoned changes nothing that any job reads, so Pipeline lets it
commit while its fan-out is on; `Fanout` has the late commit. An audit's count
of rows that a manifest lacks is information only and left out, as are counters
that are only ever incremented. In `serve` a behaviour follows the pair of loops
that its input names, since passes share nothing but the pools, and one request
to /health. The encoder goroutine of a manifest that was abandoned may still ask
the closed ledger pool for a page, since `writeManifest` does not join it; it gets an error
that nobody reads, and `NoUseAfterClose` is not about it. In
`FailureHasCause` a lost bucket is a cause of missing objects on S3, because the
sink's cached verdict makes it one; that cache is not checked any further.
