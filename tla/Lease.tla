------------------------------- MODULE Lease -------------------------------
(***************************************************************************)
(* The time a claim lives: a worker claims a row, backs the object up      *)
(* under the per-object timeout, records it in the ledger and settles the  *)
(* row, each under a bookkeeping timeout (internal/adapter/inbound/        *)
(* consumer, internal/domain/backup.go), while the reaper's ticker sweeps  *)
(* back claims older than staleTTL.  claimedAt is the database's now() in  *)
(* the claim statement, so the claim ages from the moment the statement    *)
(* runs, while the worker's clock starts when the answer arrives, up to    *)
(* dbTimeout later.  A sweep may fail, or hang until dbTimeout ends it.    *)
(* The reaper runs in a process that stays up.                             *)
(***************************************************************************)
EXTENDS Integers

CONSTANTS
    DBTimeout,      \* bound of the claim and of a sweep
    PerObject,      \* PerObjectTimeout
    Bookkeeping,    \* BookkeepingTimeout
    StaleTTL,
    Minute,         \* time.Minute, the least interval of the reaper
    MaxMissed       \* bound: sweeps that fail one after the other

ASSUME LeaseAssumption ==
    /\ DBTimeout \in Nat /\ PerObject \in Nat /\ Bookkeeping \in Nat
    /\ StaleTTL \in Nat /\ Minute \in Nat \ {0} /\ MaxMissed \in Nat
    \* config.validateLimits
    /\ StaleTTL > PerObject + 2 * Bookkeeping
    /\ DBTimeout >= Bookkeeping

\* The interval of the reaper's ticker.
ReapEvery == IF StaleTTL \div 4 > Minute THEN StaleTTL \div 4 ELSE Minute

VARIABLES
    phase,      \* what the worker is doing with the row
    elapsed,    \* for how long
    age,        \* now() - claimedAt
    answer,     \* how long the answer of the row's claim took (history)
    claimed,    \* the row is in_progress
    reaper,     \* "waiting" for a tick, "sweeping", or "swept" without answer yet
    swept,      \* how long the sweep has been running
    tickIn,     \* time until the ticker's next tick
    due,        \* a tick is in the ticker's channel
    missed      \* sweeps that failed since the last one that ran (history)

workerVars == <<phase, elapsed, age, answer>>
reaperVars == <<reaper, swept, tickIn, due, missed>>
vars == <<workerVars, claimed, reaperVars>>

Busy == {"answer", "backup", "record", "settle"}

\* The longest time a phase takes before its context ends it.
Limit(ph) == CASE ph = "answer" -> DBTimeout
               [] ph = "backup" -> PerObject
               [] OTHER -> Bookkeeping

TypeOK ==
    /\ phase \in Busy \cup {"idle", "dead"}
    /\ elapsed \in Nat /\ age \in Nat /\ answer \in Nat
    /\ claimed \in BOOLEAN /\ due \in BOOLEAN
    /\ reaper \in {"waiting", "sweeping", "swept"}
    /\ swept \in 0..DBTimeout /\ tickIn \in 1..ReapEvery /\ missed \in Nat

\* TickLoop starts the ticker and sweeps at once.
Init ==
    /\ phase = "idle" /\ elapsed = 0 /\ age = 0 /\ answer = 0
    /\ claimed = FALSE
    /\ reaper = "waiting" /\ swept = 0 /\ tickIn = ReapEvery /\ due = TRUE
    /\ missed = 0

-----------------------------------------------------------------------------
\* Claim: the statement runs.
Claim ==
    /\ phase = "idle" /\ ~claimed
    /\ phase' = "answer" /\ elapsed' = 0
    /\ claimed' = TRUE /\ age' = 0 /\ answer' = 0
    /\ UNCHANGED reaperVars

\* The worker moves on: process, RecordBackup, settle; or the claim's answer is
\* lost, and the worker backs off without the row.
Advance ==
    /\ \/ phase = "answer" /\ phase' \in {"backup", "idle"}
       \/ phase = "backup" /\ phase' \in {"record", "settle"}
       \/ phase = "record" /\ phase' = "settle"
    /\ elapsed' = 0
    /\ UNCHANGED <<age, answer, claimed, reaperVars>>

\* MarkDone, Fail, Defer, Release or Skip: the row leaves in_progress, unless
\* the statement fails, which is only logged.
Settle ==
    /\ phase = "settle"
    /\ phase' = "idle" /\ elapsed' = 0
    /\ claimed' = FALSE \/ UNCHANGED claimed
    /\ UNCHANGED <<age, answer, reaperVars>>

\* The worker's process dies and another one takes over.
Crash == phase \in Busy /\ phase' = "dead" /\ elapsed' = 0
         /\ UNCHANGED <<age, answer, claimed, reaperVars>>

Restart == phase = "dead" /\ phase' = "idle"
           /\ UNCHANGED <<elapsed, age, answer, claimed, reaperVars>>

-----------------------------------------------------------------------------
\* The reaper takes the tick and begins a sweep.
SweepBegins ==
    /\ reaper = "waiting" /\ due
    /\ reaper' = "sweeping" /\ swept' = 0 /\ due' = FALSE
    /\ UNCHANGED <<workerVars, claimed, tickIn, missed>>

\* A bug of the reaper: it is given the per-object timeout for a TTL.
StaleTooEarly == age > PerObject

\* A bug of the reaper: the TTL is multiplied where the interval divides it.
StaleTooLate == age > 4 * StaleTTL

\* ReapStale's WHERE: "claimedAt" < now() - ttl.
Stale == age > StaleTTL

\* ReapStale: the statement runs.
SweepRuns ==
    /\ reaper = "sweeping"
    /\ reaper' = "swept" /\ missed' = 0
    /\ claimed' = (claimed /\ ~Stale)
    /\ UNCHANGED <<workerVars, swept, tickIn, due>>

\* The sweep's answer arrives, or is lost.
SweepEnds ==
    /\ reaper = "swept"
    /\ reaper' = "waiting"
    /\ UNCHANGED <<workerVars, claimed, swept, tickIn, due, missed>>

\* The sweep fails or times out before its statement has run, which is logged;
\* the reaper waits for the next tick.
SweepFails ==
    /\ reaper = "sweeping" /\ missed < MaxMissed
    /\ reaper' = "waiting" /\ missed' = missed + 1
    /\ UNCHANGED <<workerVars, claimed, swept, tickIn, due>>

\* Time passes, up to the next deadline; a waiting reaper takes a tick at once.
Tick ==
    /\ phase \in Busy => elapsed < Limit(phase)
    /\ IF reaper = "waiting" THEN ~due ELSE swept < DBTimeout
    /\ elapsed' = IF phase \in Busy THEN elapsed + 1 ELSE elapsed
    /\ age' = IF claimed THEN age + 1 ELSE age
    /\ answer' = IF phase = "answer" THEN answer + 1 ELSE answer
    /\ swept' = IF reaper = "waiting" THEN swept ELSE swept + 1
    /\ tickIn' = IF tickIn = 1 THEN ReapEvery ELSE tickIn - 1
    /\ due' = (due \/ tickIn = 1)
    /\ UNCHANGED <<phase, claimed, reaper, missed>>

Next ==
    \/ Claim \/ Advance \/ Settle \/ Crash \/ Restart
    \/ SweepBegins \/ SweepRuns \/ SweepEnds \/ SweepFails
    \/ Tick

Spec == Init /\ [][Next]_vars

-----------------------------------------------------------------------------
\* A sweep takes a row from a worker that is still at it only if the answer of
\* that worker's claim took longer than staleTTL leaves beyond
\* perObjectTimeout + 2*bookkeeping.  config.validateLimits calls that sum "the
\* true worst-case settling time", but the claim ages while its answer is on
\* its way: with the least staleTTL it accepts, an answer that takes more than
\* a second already suffices.
TakenOnlyIfAnswerSlow ==
    [][SweepRuns /\ claimed /\ ~claimed' /\ phase \in Busy =>
          answer > StaleTTL - (PerObject + 2 * Bookkeeping)]_vars

\* The longest time from one sweep's begin to the next one's.
Period == IF DBTimeout > ReapEvery THEN DBTimeout ELSE ReapEvery

\* How old a claim can be when the next sweep begins, after m failed ones.
OldestAtSweep(m) == StaleTTL + (m + 1) * Period

\* A stuck row is swept back by the first sweep that runs after staleTTL: its
\* age exceeds staleTTL by at most one period, one more for each sweep that
\* failed, and the time the sweep itself takes.  (Consumer.reap says "caught
\* within ~StaleTTL rather than up to 2x"; the one-minute floor of its interval
\* makes that 2x or more for a staleTTL below a minute.)
StuckRowIsCaught == claimed => age <= OldestAtSweep(missed) + DBTimeout
=============================================================================
