---------------------------- MODULE BackupService ----------------------------
(***************************************************************************)
(* The serve command: pods whose workers claim rows of the outbox, run the *)
(* pipeline on them and settle them (internal/adapter/inbound/consumer),   *)
(* with the reaper, graceful shutdown, crash and restart.  A worker is a   *)
(* job of the pipeline, and this module adds the outbox around it.         *)
(***************************************************************************)
EXTENDS Pipeline, Outbox

CONSTANTS
    Row,
    ContentOf,      \* row -> externalID
    Rank,           \* row -> its place in ORDER BY priority DESC, createdDate
    Stray,          \* rows another writer left in_progress
    LeaseRespected, \* no claim outlives staleTTL while its worker is at it
    NoRow, Nobody   \* no row, no worker

ASSUME ServiceAssumption ==
    /\ ContentOf \in [Row -> Content]
    /\ Rank \in [Row -> Nat]
    /\ \A q, r \in Row : Rank[q] = Rank[r] => q = r
    /\ Stray \subseteq Row
    /\ LeaseRespected \in BOOLEAN
    /\ NoRow \notin Row
    /\ Nobody \notin Job
    /\ Threshold < MaxAttempts  \* config.validateLimits

VARIABLES
    row,    \* the outbox table
    held,   \* worker -> the row it is processing, or NoRow
    owner,  \* row -> the worker whose claim set claimedAt last (history)
    pod     \* pod -> "up", "draining" after a shutdown signal, or "down"

serviceVars == <<row, held, owner, pod>>
vars == <<pipelineVars, serviceVars>>

TypeOK ==
    /\ PipelineTypeOK
    /\ row \in [Row -> OutboxRow]
    /\ held \in [Job -> Row \cup {NoRow}]
    /\ owner \in [Row -> Job \cup {Nobody}]
    /\ pod \in [Pod -> {"up", "draining", "down"}]

Init ==
    /\ PipelineInit
    /\ row = [r \in Row |-> IF r \in Stray THEN StrayRow ELSE NewRow]
    /\ held = [w \in Job |-> NoRow]
    /\ owner = [r \in Row |-> Nobody]
    /\ pod = [p \in Pod |-> "up"]

-----------------------------------------------------------------------------
\* Consumer.claimStep.  The workers of a pod loop while its context is live.

\* The row that claimSQL picks.  SKIP LOCKED passes over a row that another
\* claim has locked, which shows in the order only if that claim then fails.
Best(r) ==
    /\ Claimable(row[r])
    /\ "db" \in faults \/ \A q \in Row : Claimable(row[q]) => Rank[r] <= Rank[q]

\* Claim(1) returns the best row, and process starts BackupOne on it.
Claim(w, r) ==
    /\ pod[PodOf[w]] = "up"
    /\ Best(r)
    /\ Begin(w, ContentOf[r])
    /\ row' = [row EXCEPT ![r] = Claimed(@)]
    /\ held' = [held EXCEPT ![w] = r]
    /\ owner' = [owner EXCEPT ![r] = w]
    /\ UNCHANGED pod

\* The claim was applied, but its answer is lost: the worker backs off.
ClaimLost(w, r) ==
    /\ "db" \in faults
    /\ pod[PodOf[w]] = "up"
    /\ job[w].pc = "idle"
    /\ Best(r)
    /\ row' = [row EXCEPT ![r] = Claimed(@)]
    /\ owner' = [owner EXCEPT ![r] = Nobody]
    /\ UNCHANGED <<pipelineVars, held, pod>>

\* A bug of settle: a shutdown counts as a failed attempt.
SettledShutdownFails(r, s, up) ==
    IF s.done /\ s.err = "nil" THEN MarkDone(r)
    ELSE IF s.err = "gone" THEN Skip(r)
    ELSE IF s.deferred THEN Defer(r)
    ELSE Fail(r)

\* Consumer.settle: what the switch makes of the result s of BackupOne, given
\* whether the consumer's own context is still live.
Settled(r, s, up) ==
    IF s.done /\ s.err = "nil" THEN MarkDone(r)
    ELSE IF ~up THEN Release(r)
    ELSE IF s.err = "gone" THEN Skip(r)
    ELSE IF s.deferred THEN Defer(r)
    ELSE Fail(r)

\* The worker forgets its row and loops.
LetGo(w) ==
    /\ Finish(w)
    /\ held' = [held EXCEPT ![w] = NoRow]
    /\ UNCHANGED <<owner, pod>>

\* settle on the detached context; a database error is only logged.
Settle(w) ==
    /\ held[w] # NoRow /\ job[w].pc = "returned"
    /\ LetGo(w)
    /\ \/ row' = [row EXCEPT ![held[w]] = Settled(@, job[w], pod[PodOf[w]] = "up")]
       \/ "db" \in faults /\ UNCHANGED row

\* A panic in the pipeline: process recovers and fails the row.
Panic(w) ==
    /\ "panic" \in faults
    /\ held[w] # NoRow /\ job[w].pc \notin {"idle", "returned"}
    /\ LetGo(w)
    /\ \/ row' = [row EXCEPT ![held[w]] = Fail(@)]
       \/ "db" \in faults /\ UNCHANGED row

-----------------------------------------------------------------------------
\* A step of backupFrom, or the end of its context.
Work(w) ==
    /\ JobStep(w) \/ Timeout(w)
    /\ UNCHANGED serviceVars

\* Consumer.reap: one UPDATE over every stale row.
Reap(p) ==
    /\ pod[p] = "up"
    /\ \E r \in Row : Reapable(row[r])
    /\ row' = [r \in Row |-> Reaped(row[r])]
    /\ UNCHANGED <<pipelineVars, held, owner, pod>>

\* Time: a claim grows older than staleTTL; a row becomes visible again; a
\* breaker's cooldown runs.
Age(r) ==
    /\ row[r].status = "in_progress" /\ row[r].claim = "fresh"
    /\ LeaseRespected => \A w \in Job : held[w] # r
    /\ row' = [row EXCEPT ![r].claim = "stale"]
    /\ UNCHANGED <<pipelineVars, held, owner, pod>>

BecomeDue(r) ==
    /\ row[r].visible = "future" /\ row[r].status \notin Terminal
    /\ row' = [row EXCEPT ![r].visible = "due"]
    /\ UNCHANGED <<pipelineVars, held, owner, pod>>

CoolDown(p, t) == Elapse(p, t) /\ UNCHANGED serviceVars

-----------------------------------------------------------------------------
\* SIGTERM cancels the context of the consumer and of every object, and the
\* claims that idle workers have in flight: claimStep returns without a row,
\* also when the statement has been applied (the cut rows).
Shutdown(p) ==
    /\ "shutdown" \in faults
    /\ pod[p] = "up"
    /\ CancelJobs(p)
    /\ pod' = [pod EXCEPT ![p] = "draining"]
    /\ \E cut \in SUBSET {r \in Row : Claimable(row[r])} :
          /\ Cardinality(cut) <=
                Cardinality({w \in Job : PodOf[w] = p /\ job[w].pc = "idle"})
          /\ row' = [r \in Row |-> IF r \in cut THEN Claimed(row[r]) ELSE row[r]]
          /\ owner' = [r \in Row |-> IF r \in cut THEN Nobody ELSE owner[r]]
    /\ UNCHANGED held

\* Consumer.Run returns once every worker has: the process ends.
Exit(p) ==
    /\ pod[p] = "draining"
    /\ \A w \in Job : PodOf[w] = p => job[w].pc = "idle"
    /\ Die(p)
    /\ pod' = [pod EXCEPT ![p] = "down"]
    /\ UNCHANGED <<row, held, owner>>

Crash(p) ==
    /\ "crash" \in faults
    /\ pod[p] # "down"
    /\ Die(p)
    /\ pod' = [pod EXCEPT ![p] = "down"]
    /\ held' = [w \in Job |-> IF PodOf[w] = p THEN NoRow ELSE held[w]]
    /\ UNCHANGED <<row, owner>>

Restart(p) ==
    /\ pod[p] = "down"
    /\ pod' = [pod EXCEPT ![p] = "up"]
    /\ UNCHANGED <<pipelineVars, row, held, owner>>

Calm == CalmDown /\ UNCHANGED serviceVars

\* The outbox is drained: the workers wait for rows that do not come.  (With
\* this step, a state without a successor is a row that is stuck.)
Drained ==
    /\ \A r \in Row : row[r].status \in Terminal
    /\ UNCHANGED vars

WorkerStep(w) ==
    \/ \E r \in Row : Claim(w, r)
    \/ Work(w)
    \/ Settle(w)

Next ==
    \/ \E w \in Job : WorkerStep(w) \/ Panic(w) \/ \E r \in Row : ClaimLost(w, r)
    \/ \E r \in Row : Age(r) \/ BecomeDue(r)
    \/ \E p \in Pod : \/ Reap(p) \/ Shutdown(p) \/ Exit(p) \/ Crash(p) \/ Restart(p)
                      \/ \E t \in Target : CoolDown(p, t)
    \/ Calm
    \/ Drained

Spec == Init /\ [][Next]_vars

\* Goroutines that can go on do so; the tickers (reaper, cooldown, backoff)
\* fire again and again; the orchestrator restarts a process that ended; and
\* faults stop at some time.
Fairness ==
    /\ \A w \in Job : WF_vars(WorkerStep(w))
    /\ \A r \in Row : WF_vars(Age(r)) /\ WF_vars(BecomeDue(r))
    /\ \A p \in Pod : /\ WF_vars(Reap(p)) /\ WF_vars(Exit(p)) /\ WF_vars(Restart(p))
                      /\ \A t \in Target : WF_vars(CoolDown(p, t))
    /\ WF_vars(Calm)

FairSpec == Spec /\ Fairness

-----------------------------------------------------------------------------
\* A row is marked done only when its object is durably on every target and
\* the ledger says so: through crashes between commit, record and settle, lost
\* database answers, reaped claims, and workers that settle late.
DoneIsBackedUp ==
    \A r \in Row : row[r].status = "done" =>
        \A t \in Target : /\ status[ContentOf[r]][t] = "stored"
                          /\ ContentOf[r] \in sink[t]

\* The service implements BackupPromise: what the sinks hold, what the ledger
\* calls stored, and what became of each row.
Outcome(r) ==
    CASE row[r].status = "done" -> "done"
      [] row[r].status \in {"skipped", "dead_letter"} -> "given_up"
      [] OTHER -> "open"

Promise == INSTANCE BackupPromise WITH
    copies <- sink,
    recorded <- [c \in Content |-> StoredTargets(c)],
    outcome <- [r \in Row |-> Outcome(r)]

\* Every behaviour of the consumer and the pipeline (settle, RecordBackup, the
\* sinks' commits, ReapStale) is one that BackupPromise allows: no record runs
\* ahead of a copy, no completion ahead of the record, and no decision about a
\* row is ever revised.
PromiseKept == Promise!PromiseSpec

\* Two workers never process the same row, as long as no claim outlives
\* staleTTL under its worker (claimSQL, ReapStale, config.validateLimits).
ExclusiveClaim ==
    LeaseRespected =>
        \A v, w \in Job : held[v] = held[w] /\ held[v] # NoRow => v = w

\* Does not hold (see the README); it states the comment on
\* transition: "a concurrently reaped/reclaimed/done row is a safe no-op (never
\* a clobber of another worker's claim)": a worker that settles changes its row
\* only if the row's claim is its own.
NoForeignSettle ==
    [][\A w \in Job :
          held[w] # NoRow /\ held'[w] = NoRow /\ row'[held[w]] # row[held[w]] =>
              owner[held[w]] = w \/ pod'[PodOf[w]] = "down"]_vars

\* A rollout is never held against a row: its attempts grow only by one, and
\* only when a worker that holds it settles it while its pod is not shutting
\* down, or panics.  However a cancelled context surfaces in backupFrom (fetch,
\* fan-out, record), settle turns it into a Release or a MarkDone.
ShutdownCostsNoAttempt ==
    [][\A r \in Row : row'[r].attempts > row[r].attempts =>
          /\ row'[r].attempts = row[r].attempts + 1
          /\ \E w \in Job : /\ held[w] = r /\ held'[w] = NoRow
                            /\ pod[PodOf[w]] = "up" \/ job[w].pc # "returned"]_vars

\* While some targets are down for good and the others are fine, one pod never
\* dead-letters a row: its breaker trips before any row has used up its
\* attempts, also with concurrent workers, and from then on rows are deferred
\* (circuit.go, config.validateLimits circuitThreshold < maxAttempts).
OutageNeverDeadLetters ==
    \A r \in Row : row[r].status # "dead_letter" /\ row[r].attempts < Threshold

\* Once faults stop, every row reaches a terminal status: no claim is stranded
\* by a crash or a lost answer, and no breaker stays open against a target
\* that has recovered.
EveryRowSettles == \A r \in Row : <>(row[r].status \in Terminal)
=============================================================================
