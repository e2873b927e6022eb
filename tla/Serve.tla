------------------------------- MODULE Serve --------------------------------
(***************************************************************************)
(* The life of a process (cmd/file-backup-service/main.go): a command      *)
(* loads and validates its configuration, opens what it needs, passes its  *)
(* startup gate, runs, and unwinds its deferred calls.  For serve, running *)
(* means the consumer (module BackupService), the four background loops    *)
(* (tick.go, sampler.go, immutability.go, manifest.go) and /health; what   *)
(* the other commands run is in modules Sweep and Audit.                   *)
(*                                                                         *)
(* Dependencies and targets are up, down (they answer with an error) or    *)
(* hung (they do not answer: only a deadline or an abandoned call ends the *)
(* wait).  Time is left out; where two deadlines compete, the shorter one  *)
(* wins.  The loops of a pass are independent of each other: a behaviour   *)
(* follows those that its input names in tracked, and /health if "health"  *)
(* is among them.                                                          *)
(***************************************************************************)
EXTENDS Config, FiniteSets, TLC

CONSTANTS
    Inputs,             \* what a process may be started with: cmd, from, file, env,
                        \* bad (dependencies in trouble), tracked (what to follow)
    MaxEvents,          \* world changes and panics in one behaviour
    ProbeTimeout, PassTimeout,      \* auditProbeTimeout, the sampler's pass
    HealthTimeout, ShutdownGrace    \* one /health probe, srv.Shutdown

V == INSTANCE Verdict

Infra == {"file-service", "alkemio", "ledger", "port", "scratch"}
Dep == Infra \cup Name
Command == {"serve", "backfill", "reconcile", "audit", "drill", "restore all", "restore"}
Loop == {"rpo", "coverage", "manifest", "immutability"}

ASSUME ServeAssumption ==
    /\ MaxEvents \in Nat
    /\ {ProbeTimeout, PassTimeout, HealthTimeout, ShutdownGrace} \subseteq Nat
    /\ \A i \in Inputs : /\ i.cmd \in Command
                         /\ i.file.knobs \in [Knob -> Int]
                         /\ \A k \in DOMAIN i.env.knobs : i.env.knobs[k] \in Int
                         /\ i.tracked \subseteq Loop \cup {"health"}
                         /\ DOMAIN i.bad \subseteq Dep

VARIABLES
    input,              \* chosen in Init
    cfg,                \* the loaded configuration
    ctx,                \* the signal context
    at,                 \* the place in Stages, 0 while loading
    pc,                 \* "up", "unwind" or "exited"
    done,               \* results of the current stage's checks
    gate,               \* the deadline of startupGate: "fresh", "near" or "over"
    defers,             \* the deferred calls, last one on top
    pool, srv,          \* connection pools, the HTTP server
    loop,               \* the background loops
    ok, alert,          \* immutability_ok and immutability_unverifiable
    health,             \* the /health request
    exit, why,          \* exit code, and the stage that failed
    world, lock,        \* dependencies, and the WORM targets' object lock
    verified,           \* some object is verified on some target
    events, seen        \* budget, and what has ever been bad (history)

vars == <<input, cfg, ctx, at, pc, done, gate, defers, pool, srv, loop, ok, alert,
          health, exit, why, world, lock, verified, events, seen>>
process == <<cfg, at, pc, done, gate, defers, pool, srv, exit, why>>
gauges == <<loop, ok, alert>>
outside == <<world, lock, verified, events, seen>>

-----------------------------------------------------------------------------
\* What each command does before it runs: serveCtx, runBackfill, and the ones
\* that begin with ledgerJob (limits, ledger, probe).
ServeCtx == <<"validate", "alkemio", "ledger", "http", "required", "preflight", "run">>
RunBackfill == <<"validate", "alkemio", "ledger", "required", "preflight", "run">>
RunReconcile == <<"limits", "ledger", "probe", "targets", "scratch", "preflight", "run">>
RunAudit == <<"limits", "ledger", "probe", "targets", "run">>
RunDrill == <<"limits", "ledger", "probe", "source", "scratch", "run">>
RunRestoreAll == <<"limits", "ledger", "probe", "source", "run">>

Stages(cmd) ==
    CASE cmd = "serve" -> ServeCtx
      [] cmd = "backfill" -> RunBackfill
      [] cmd = "reconcile" -> RunReconcile
      [] cmd = "audit" -> RunAudit
      [] cmd = "drill" -> RunDrill
      [] cmd = "restore all" -> RunRestoreAll
      [] cmd = "restore" -> <<"source", "run">>

Stage == IF at = 0 THEN "load" ELSE Stages(input.cmd)[at]

\* The startup checks of a stage, and what each of them asks.
Required(cmd) ==
    CASE cmd = "serve" -> {"file-service", "outbox", "grant", "ledger"}
      [] cmd = "backfill" -> {"file-service", "corpus", "ledger"}
ConfigNames == {cfg.targets[j].name : j \in DOMAIN cfg.targets}
ChecksOf(stage) ==
    CASE stage = "required" -> Required(input.cmd)
      [] stage = "preflight" -> ConfigNames
      [] OTHER -> {}
DepOf(c) == IF c \in {"outbox", "grant", "corpus"} THEN "alkemio" ELSE c

\* onShutdownOK wraps these commands.
ShutdownOK == {"serve", "backfill", "reconcile"}

\* What Config decides in a stage.
Accepts(stage) ==
    CASE stage = "validate" -> /\ cfg.base /\ ValidateDB(cfg.alkemio) /\ ValidateDB(cfg.ledger)
                               /\ ValidateLimits(cfg.knobs) /\ ValidateTargets(cfg.targets)
      [] stage = "limits" -> ValidateLimits(cfg.knobs) /\ ValidateDB(cfg.ledger)
      [] stage = "targets" -> ValidateTargets(cfg.targets)
      [] stage = "source" -> ReadSource(cfg.targets, input.from)

-----------------------------------------------------------------------------
\* Background loops: what a pass reads, and on what that depends.
Worm == {j \in DOMAIN cfg.targets : cfg.targets[j].worm}
KindOf(j) == [sort |-> IF cfg.targets[j].type = "s3" THEN "s3" ELSE "fs", worm |-> TRUE,
              cred |-> cfg.targets[j].audit = "both", reads |-> FALSE]
KindOfName(n) == KindOf(CHOOSE j \in Worm : cfg.targets[j].name = n)
WormNames == {cfg.targets[j].name : j \in Worm}

Units(l) ==
    CASE l = "rpo" -> {"backlog", "verified"}
      [] l = "coverage" -> {"gaps"}
      [] l = "manifest" -> ConfigNames
      [] l = "immutability" -> WormNames

\* The gauges that a pass of these loops sets.
Gauges(l) == IF l = "rpo" THEN {"backlog", "never", "age"} ELSE Units(l)

Exempt(n) == V!Exempt(KindOfName(n)) \/ KindOfName(n).sort = "fs"
Needs(l, u) ==
    CASE l \in {"rpo", "coverage"} -> IF u = "backlog" THEN {"alkemio"} ELSE {"ledger"}
      [] l = "manifest" -> {"ledger", u}
      [] l = "immutability" -> IF Exempt(u) THEN {} ELSE {u}

\* Off, or waiting for its next tick with the result of its last pass: what
\* gauges it set, whether never_verified counts every target, whether it
\* counted an error, whether a shutdown cut it short.
LoopOff == [at |-> "off", res |-> <<>>, got |-> {}, all |-> FALSE, signal |-> FALSE,
            aborted |-> FALSE]
Passing == [LoopOff EXCEPT !.at = "pass"]

NoCfg == [base |-> FALSE]
Idle == [at |-> "idle", res |-> <<>>]

Init ==
    /\ input \in Inputs
    /\ cfg = NoCfg /\ ctx = "live" /\ at = 0 /\ pc = "up" /\ done = <<>>
    /\ gate = "fresh" /\ defers = <<>>
    /\ pool = [p \in {"alkemio", "ledger"} |-> "none"] /\ srv = "off"
    /\ loop = [l \in Loop |-> LoopOff]
    /\ ok = [n \in Name |-> "none"] /\ alert = [n \in Name |-> FALSE]
    /\ health = Idle /\ exit = "none" /\ why = "none"
    /\ world = [d \in Dep |-> IF d \in DOMAIN input.bad THEN input.bad[d] ELSE "up"]
    /\ seen = DOMAIN input.bad
    /\ lock = [n \in Name |-> TRUE] /\ events = MaxEvents
    /\ verified \in IF "rpo" \in input.tracked THEN BOOLEAN ELSE {TRUE}

\* A fault costs one event, and is remembered.
Panics == events > 0 /\ events' = events - 1 /\ seen' = seen \cup {"panic"}
                     /\ UNCHANGED <<world, lock, verified>>
Calm == UNCHANGED outside

\* The ways a call can end that needs the dependencies D: a hung one answers
\* nothing, so that only the deadline or the cancellation ends the call.
Answers(D) ==
    {e \in {"nil", "io", "deadline"} :
        CASE e = "nil" -> \A d \in D : world[d] = "up"
          [] e = "io" -> \E d \in D : world[d] = "down"
          [] e = "deadline" -> ctx = "live" /\ \E d \in D : world[d] = "hung"}
    \cup (IF ctx = "canceled" THEN {"canceled"} ELSE {})

-----------------------------------------------------------------------------
\* Startup.

\* A return with the errors E from the current stage.
Return(E) ==
    /\ pc' = "unwind" /\ done' = <<>> /\ why' = Stage
    /\ exit' = IF "canceled" \in E /\ input.cmd \in ShutdownOK THEN "zero" ELSE "one"

Advance == at' = at + 1 /\ done' = <<>> /\ UNCHANGED <<pc, exit, why>>

Load ==
    /\ pc = "up" /\ at = 0
    /\ IF Loads(input.file, input.env)
       THEN cfg' = Loaded(input.file, input.env) /\ Advance
       ELSE Return({"config"}) /\ UNCHANGED <<cfg, at>>
    /\ UNCHANGED <<input, ctx, gate, defers, pool, srv, gauges, health>> /\ Calm

Decide ==
    /\ pc = "up" /\ Stage \in {"validate", "limits", "targets", "source"}
    /\ IF Accepts(Stage) THEN Advance ELSE Return({"config"}) /\ UNCHANGED at
    /\ UNCHANGED <<input, cfg, ctx, gate, defers, pool, srv, gauges, health>> /\ Calm

\* openPool parses the DSN and connects lazily; its Close is deferred.
OpenPool ==
    /\ pc = "up" /\ Stage \in {"alkemio", "ledger"}
    /\ pool' = [pool EXCEPT ![Stage] = "open"] /\ defers' = Append(defers, Stage) /\ Advance
    /\ UNCHANGED <<input, cfg, ctx, gate, srv, gauges, health>> /\ Calm

StartHTTP ==
    /\ pc = "up" /\ Stage = "http"
    /\ \/ world["port"] = "up" /\ srv' = "up" /\ defers' = Append(defers, "http") /\ Advance
       \/ world["port"] # "up" /\ Return({"io"}) /\ UNCHANGED <<at, defers, srv>>
    /\ UNCHANGED <<input, cfg, ctx, gate, pool, gauges, health>> /\ Calm

\* ledgerJob's probe of the ledger, with the deadline of a read.
ProbeLedger ==
    /\ pc = "up" /\ Stage = "probe"
    /\ \/ \E e \in Answers({"ledger"}) :
             IF e = "nil" THEN Advance /\ Calm ELSE Return({e}) /\ UNCHANGED at /\ Calm
       \/ Return({"panic"}) /\ UNCHANGED at /\ Panics
    /\ UNCHANGED <<input, cfg, ctx, gate, defers, pool, srv, gauges, health>>

\* preflightScratch is a direct call: neither a deadline nor the cancellation
\* ends it while the mount hangs.
PreflightScratch ==
    /\ pc = "up" /\ Stage = "scratch" /\ world["scratch"] # "hung"
    /\ IF world["scratch"] = "up" THEN Advance ELSE Return({"io"}) /\ UNCHANGED at
    /\ UNCHANGED <<input, cfg, ctx, gate, defers, pool, srv, gauges, health>> /\ Calm

Waiting == ChecksOf(Stage) \ DOMAIN done

\* The one deadline of startupGate, for the required checks and the preflights
\* that follow them: while nothing but hung calls is left to wait for it comes
\* near, and from then on it may pass at any moment.
Deadline ==
    /\ pc = "up" /\ Stage \in {"required", "preflight"}
    /\ \/ /\ gate = "fresh" /\ Waiting # {} /\ \A c \in Waiting : world[DepOf(c)] = "hung"
          /\ gate' = "near"
       \/ gate = "near" /\ gate' = "over"
    /\ UNCHANGED <<input, cfg, ctx, at, pc, done, defers, pool, srv, gauges, health, exit, why>>
    /\ Calm

\* A bug of runChecks: a check that ignores its context is waited for.
CheckWaits(c) ==
    /\ pc = "up" /\ c \in Waiting
    /\ \/ \E e \in Answers({DepOf(c)}) \ {"deadline"} : done' = done @@ (c :> e) /\ Calm
       \/ done' = done @@ (c :> "panic") /\ Panics
    /\ UNCHANGED <<input, cfg, ctx, at, pc, gate, defers, pool, srv, gauges, health, exit, why>>

\* runChecks: one check, on its own goroutine, abandoned when the gate's
\* deadline is over, whether or not it hangs.
Check(c) ==
    /\ pc = "up" /\ c \in Waiting
    /\ \/ \E e \in (Answers({DepOf(c)}) \ {"deadline"})
                   \cup (IF gate = "over" THEN {"deadline"} ELSE {}) :
             done' = done @@ (c :> e) /\ Calm
       \/ done' = done @@ (c :> "panic") /\ Panics
    /\ UNCHANGED <<input, cfg, ctx, at, pc, gate, defers, pool, srv, gauges, health, exit, why>>

\* A bug of preflightTargets: every target has to be usable.
GatePassesStrictly == \A c \in DOMAIN done : done[c] = "nil"

\* startupGate: required checks have to pass, of the targets a single one.
GatePasses ==
    IF Stage = "preflight" THEN \E c \in DOMAIN done : done[c] = "nil"
    ELSE \A c \in DOMAIN done : done[c] = "nil"

Gate ==
    /\ pc = "up" /\ Stage \in {"required", "preflight"}
    /\ DOMAIN done = ChecksOf(Stage)
    /\ IF GatePasses THEN Advance
       ELSE Return({done[c] : c \in DOMAIN done}) /\ UNCHANGED at
    /\ UNCHANGED <<input, cfg, ctx, gate, defers, pool, srv, gauges, health>> /\ Calm

-----------------------------------------------------------------------------
\* Running.

\* A bug of serveCtx: the wait for the loops is deferred before the rest.
ServingEarlyWait ==
    /\ pc = "up" /\ Stage = "run" /\ input.cmd = "serve" /\ "bg" \notin ToSet(defers)
    /\ loop' = [l \in Loop |-> IF l \in input.tracked THEN Passing ELSE LoopOff]
    /\ defers' = <<"bg">> \o defers
    /\ UNCHANGED <<input, cfg, ctx, at, pc, done, gate, pool, srv, ok, alert, health, exit, why>>
    /\ Calm

\* serveCtx starts the loops, each with a pass at once, and defers bgWG.Wait.
Serving ==
    /\ pc = "up" /\ Stage = "run" /\ input.cmd = "serve" /\ "bg" \notin ToSet(defers)
    /\ loop' = [l \in Loop |-> IF l \in input.tracked THEN Passing ELSE LoopOff]
    /\ defers' = Append(defers, "bg")
    /\ UNCHANGED <<input, cfg, ctx, at, pc, done, gate, pool, srv, ok, alert, health, exit, why>>
    /\ Calm

\* The consumer returns once the context is canceled; another command when it
\* is through.
Returns ==
    /\ pc = "up" /\ Stage = "run"
    /\ input.cmd = "serve" => ctx = "canceled" /\ "bg" \in ToSet(defers)
    /\ pc' = "unwind" /\ exit' = IF input.cmd = "serve" THEN "zero" ELSE "ran"
    /\ UNCHANGED <<input, cfg, ctx, at, done, gate, defers, pool, srv, gauges, health, why>>
    /\ Calm

\* A bug of TickLoop: it waits for nothing but the ticker.
TickForever(l) ==
    /\ \/ loop[l].at = "wait" /\ loop' = [loop EXCEPT ![l].at = "ready"]
       \/ loop[l].at = "ready" /\ loop' = [loop EXCEPT ![l] = Passing]
    /\ UNCHANGED <<input, ctx, process, ok, alert, health>> /\ Calm

\* TickLoop: the tick fires, or the loop sees that the context is canceled;
\* when both are ready either may win.
Tick(l) ==
    /\ \/ loop[l].at = "wait" /\ ctx = "live" /\ loop' = [loop EXCEPT ![l].at = "ready"]
       \/ loop[l].at \in {"wait", "ready"} /\ ctx = "canceled"
          /\ loop' = [loop EXCEPT ![l].at = "stopped"]
       \/ /\ loop[l].at = "ready"
          /\ loop' = [loop EXCEPT ![l] = IF l = "immutability" /\ ctx = "canceled"
                                         THEN [@ EXCEPT !.at = "wait"] ELSE Passing]
    /\ UNCHANGED <<input, ctx, process, ok, alert, health>> /\ Calm

\* probeOne and immutabilityProbe: the verdicts possible on a WORM target.  A
\* probe that outlives the pass is taken for a shutdown (abandonVerdict); of its
\* two reads the second may be the one that fails, with the lock known to be off.
VerdictsOn(n, e) ==
    LET err == CASE e = "deadline" -> IF ProbeTimeout < PassTimeout THEN "io" ELSE "canceled"
                 [] OTHER -> e
    IN  IF Exempt(n) THEN {"nodata"}
        ELSE IF e = "nil" THEN {V!ImmutabilityProbe(lock[n], "on")}
        ELSE {V!ImmutabilityError(err)}
             \cup (IF lock[n] THEN {} ELSE {V!ImmutabilityProbe(FALSE, err)})

\* What a pass keeps of one read or write.  LastVerifiedAge has no age to give
\* (ok = false) while no object is verified on any target.
Outcomes(l, u, e) ==
    CASE l = "immutability" -> VerdictsOn(u, e)
      [] u = "verified" /\ e = "nil" /\ ~verified -> {"none verified"}
      [] OTHER -> {e}

\* How the reads and writes of a pass can end.  SampleRPO's two reads share the
\* deadline of the pass: if the first used it up, the second has none left.
PassAnswers(l, u) ==
    IF u = "verified" /\ loop[l].res["backlog"] = "deadline" THEN {"deadline"}
    ELSE Answers(Needs(l, u))

\* One read or write of a pass; the targets of a pass are independent, the
\* reads of SampleRPO are not: the backlog comes first.
Measure(l, u) ==
    /\ loop[l].at = "pass" /\ u \in Units(l) \ DOMAIN loop[l].res
    /\ u = "verified" => "backlog" \in DOMAIN loop[l].res
    /\ \E e \in PassAnswers(l, u) : \E o \in Outcomes(l, u, e) :
          loop' = [loop EXCEPT ![l].res = @ @@ (u :> o)]
    /\ UNCHANGED <<input, ctx, process, ok, alert, health>> /\ Calm

\* A driver panic.  RunParallel and probeOne recover it for the one target;
\* in a sampler it ends the pass, and runOneTick counts it.
MeasurePanics(l, u) ==
    /\ loop[l].at = "pass" /\ u \in Units(l) \ DOMAIN loop[l].res
    /\ u = "verified" => "backlog" \in DOMAIN loop[l].res
    /\ \E o \in Outcomes(l, u, "panic") :
          loop' = [loop EXCEPT ![l] =
                     IF l \in {"manifest", "immutability"} THEN [@ EXCEPT !.res = @ @@ (u :> o)]
                     ELSE [LoopOff EXCEPT !.at = "wait", !.signal = TRUE]]
    /\ Panics
    /\ UNCHANGED <<input, ctx, process, ok, alert, health>>

\* ImmutabilitySampler.Sample: the gauges that follow from the verdicts.
OkOf(v) == CASE v = "verified" -> "ok" [] v = "drift" -> "drift" [] OTHER -> "none"
Alerts(v) == v \in {"unverifiable", "fault"}

\* A bug of Sample: a target that could not be read keeps its gauge.
SampledStale(l, res) ==
    IF l # "immutability" THEN UNCHANGED <<ok, alert>>
    ELSE /\ ok' = [n \in Name |->
                     IF n \in DOMAIN res /\ res[n] \in {"verified", "drift"}
                     THEN OkOf(res[n]) ELSE ok[n]]
         /\ alert' = [n \in Name |->
                        IF n \in DOMAIN res THEN Alerts(res[n]) ELSE alert[n]]

Sampled(l, res) ==
    IF l # "immutability" THEN UNCHANGED <<ok, alert>>
    ELSE /\ ok' = [n \in Name |->
                     IF n \in DOMAIN res THEN OkOf(res[n]) ELSE ok[n]]
         /\ alert' = [n \in Name |->
                        IF n \in DOMAIN res THEN Alerts(res[n]) ELSE alert[n]]

\* The error a pass returns: any failed read or write, or a faulted probe.
\* manifestLoop drops it itself once the context is canceled.
PassFails(l, res) ==
    \E u \in DOMAIN res : IF l = "immutability" THEN res[u] = "fault"
                           ELSE res[u] \notin {"nil", "none verified"}

\* A bug of runOneTick: the errors of a canceled pass are counted.
CountsAlways(l, res) == PassFails(l, res)

\* runOneTick: the error of a pass that a shutdown cut short is not counted.
Counts(l, res) == PassFails(l, res) /\ ctx = "live"

\* The gauges that the results of a pass set: SampleRPO sets last_success_age
\* only if there is one.
Set(l, res) ==
    IF l # "rpo" THEN {u \in DOMAIN res : res[u] \in {"nil", "verified", "drift"}}
    ELSE {g \in Gauges(l) :
            CASE g = "backlog" -> res["backlog"] = "nil"
              [] g = "never" -> res["verified"] \in {"nil", "none verified"}
              [] g = "age" -> res["verified"] = "nil"}

EndPass(l) ==
    LET res == loop[l].res
    IN  /\ loop[l].at = "pass" /\ DOMAIN res = Units(l)
        /\ Sampled(l, res)
        /\ loop' = [loop EXCEPT ![l] =
                      [at |-> "wait", res |-> <<>>, signal |-> Counts(l, res),
                       aborted |-> ctx = "canceled",
                       got |-> Set(l, res),
                       all |-> l = "rpo" /\ res["verified"] = "none verified"]]
        /\ UNCHANGED <<input, ctx, process, health>> /\ Calm

-----------------------------------------------------------------------------
\* /health: both databases are probed concurrently, whatever the request's
\* and the process's contexts say.  The handler keeps nothing between two
\* requests: one is followed.
HealthAsked ==
    /\ "health" \in input.tracked /\ srv = "up" /\ health.at = "idle"
    /\ health' = [at |-> "probing", res |-> <<>>]
    /\ UNCHANGED <<input, ctx, process, gauges>> /\ Calm

HealthProbe(p) ==
    /\ health.at = "probing" /\ p \notin DOMAIN health.res
    /\ \/ /\ health' = [health EXCEPT !.res =
                           @ @@ (p :> (world[p] = "up" /\ pool[p] = "open"))]
          /\ Calm
       \/ health' = [health EXCEPT !.res = @ @@ (p :> FALSE)] /\ Panics
    /\ UNCHANGED <<input, ctx, process, gauges>>

HealthAnswers ==
    /\ health.at = "probing" /\ DOMAIN health.res = DOMAIN pool
    /\ health' = [at |-> IF \A p \in DOMAIN pool : health.res[p] THEN "200" ELSE "503",
                  res |-> <<>>]
    /\ UNCHANGED <<input, ctx, process, gauges>> /\ Calm

-----------------------------------------------------------------------------
\* The deferred calls run in reverse: bgWG.Wait, shutdown (which stops to
\* listen, then waits for the open request while its grace lasts), the pools.
Popped == defers' = Front(defers)
Unwind ==
    /\ pc = "unwind" /\ defers # <<>>
    /\ \/ /\ Last(defers) = "bg" /\ \A l \in Loop : loop[l].at \in {"off", "stopped"}
          /\ Popped /\ UNCHANGED <<srv, pool>>
       \/ /\ Last(defers) = "http" /\ srv = "up"
          /\ srv' = "closing" /\ UNCHANGED <<defers, pool>>
       \/ /\ Last(defers) = "http" /\ srv = "closing"
          /\ health.at = "probing" => ShutdownGrace <= HealthTimeout
          /\ srv' = "down" /\ Popped /\ UNCHANGED pool
       \/ /\ Last(defers) \in DOMAIN pool
          /\ pool' = [pool EXCEPT ![Last(defers)] = "closed"] /\ Popped /\ UNCHANGED srv
    /\ UNCHANGED <<input, cfg, ctx, at, pc, done, gate, gauges, health, exit, why>> /\ Calm

Exit ==
    /\ pc = "unwind" /\ defers = <<>> /\ pc' = "exited"
    /\ UNCHANGED <<input, cfg, ctx, at, done, gate, defers, pool, srv, gauges, health, exit, why>>
    /\ Calm

\* The environment: SIGTERM, dependencies that come and go, a changed lock, a
\* first verified object or a ledger that is set up again.  A
\* SIGTERM before the context exists ends the process at once: left out.
Sigterm ==
    /\ ctx = "live" /\ pc = "up" /\ at > 1 /\ ctx' = "canceled"
    /\ UNCHANGED <<input, process, gauges, health>> /\ Calm

WorldChanges ==
    /\ events > 0 /\ events' = events - 1 /\ at > 0 /\ pc # "exited"
    /\ \/ \E d \in {"file-service", "alkemio", "ledger"} \cup ConfigNames, s \in {"up", "down", "hung"} :
             /\ s # world[d] /\ world' = [world EXCEPT ![d] = s]
             /\ seen' = IF s = "up" THEN seen ELSE seen \cup {d}
             /\ UNCHANGED <<lock, verified>>
       \/ /\ \E n \in WormNames : lock' = [lock EXCEPT ![n] = ~@]
          /\ UNCHANGED <<world, verified, seen>>
       \/ "rpo" \in input.tracked /\ verified' = ~verified /\ UNCHANGED <<world, lock, seen>>
    /\ UNCHANGED <<input, ctx, process, gauges, health>>

\* The process is in preflightScratch, on a mount that hangs.
StuckInScratch == pc = "up" /\ Stage = "scratch" /\ world["scratch"] = "hung"

Done == (pc = "exited" \/ StuckInScratch) /\ UNCHANGED vars

CheckNames == Name \cup {"file-service", "outbox", "grant", "corpus", "ledger"}
UnitNames == Name \cup {"backlog", "verified", "gaps"}

Startup == Load \/ Decide \/ OpenPool \/ StartHTTP \/ ProbeLedger \/ PreflightScratch
           \/ Deadline \/ Gate \/ Serving
           \/ \E c \in CheckNames : Check(c)
Background == \E l \in Loop : \/ Tick(l) \/ EndPass(l)
                              \/ \E u \in UnitNames : Measure(l, u)
Health == (\E p \in DOMAIN pool : HealthProbe(p)) \/ HealthAnswers
Main == Startup \/ Returns \/ Unwind \/ Exit

Step == Main \/ Background \/ Health
Next == \/ Step \/ HealthAsked \/ Sigterm \/ WorldChanges \/ Done
        \/ \E l \in Loop, u \in UnitNames : MeasurePanics(l, u)

Spec == Init /\ [][Next]_vars
FairSpec == Spec /\ WF_vars(Step)

-----------------------------------------------------------------------------
\* Properties.

TypeOK ==
    /\ ctx \in {"live", "canceled"} /\ pc \in {"up", "unwind", "exited"}
    /\ at \in 0..Len(Stages(input.cmd))
    /\ at > 0 => /\ cfg.knobs \in [Knob -> Nat \ {0}]
                 /\ \A j \in DOMAIN cfg.targets : cfg.targets[j].name \in Name
    /\ DOMAIN done \subseteq CheckNames /\ gate \in {"fresh", "near", "over"} /\ IsInjective(defers)
    /\ pool \in [{"alkemio", "ledger"} -> {"none", "open", "closed"}]
    /\ srv \in {"off", "up", "closing", "down"}
    /\ \A l \in Loop : /\ loop[l].at \in {"off", "pass", "wait", "ready", "stopped"}
                        /\ DOMAIN loop[l].res \subseteq UnitNames
                        /\ loop[l].got \subseteq UnitNames \cup {"never", "age"}
    /\ ok \in [Name -> {"none", "ok", "drift"}] /\ alert \in [Name -> BOOLEAN]
    /\ health.at \in {"idle", "probing", "200", "503"}
    /\ exit \in {"none", "zero", "one", "ran"}
    /\ world \in [Dep -> {"up", "down", "hung"}] /\ events \in 0..MaxEvents
    /\ verified \in BOOLEAN

\* The numbers a command runs with are sound whatever the file and the
\* environment say (applyDefaults, validateLimits, secondsToDuration): the
\* orderings the worker relies on hold for every command that validates its
\* limits, and the deadlines of the others are never absent, negative or
\* already over.
AcceptedIsSound ==
    Stage = "run" =>
        /\ input.cmd # "restore" => Sound(cfg.knobs)
        /\ NormalizePerObjectTimeout(PerObjectTimeout(cfg.knobs)) \in 1..MaxInt64
        /\ DBTimeout(cfg.knobs) \in 1..MaxInt64

\* The configuration with every target but the chosen one put in order.
Mended ==
    [j \in DOMAIN cfg.targets |->
        IF j = SelectReadTarget(cfg.targets, input.from) THEN cfg.targets[j]
        ELSE [Bare(cfg.targets[j].name) EXCEPT !.type = "filesystem", !.place = TRUE,
                                               !.worm = cfg.targets[j].worm]]

\* A process that fails to start has a reason to (startupGate, FR-012, and
\* buildReadSource, Pillar 4c): a required dependency has been bad, no target
\* was usable, a required dependency has used up the deadline that it shares
\* with the targets' preflights, or the configuration is at fault.  One bad
\* target stops neither the worker nor, if another one is read from, a restore;
\* and a SIGTERM during the startup of serve, backfill and reconcile is not a
\* failure.
StartFailureHasCause ==
    LET bad(stage) == seen \cap {DepOf(c) : c \in ChecksOf(stage)} # {}
    IN  exit = "one" =>
          CASE why = "required" -> "panic" \in seen \/ bad("required")
            [] why = "probe" -> \/ {"panic", "ledger"} \cap seen # {}
                                \/ ctx = "canceled" /\ input.cmd \notin ShutdownOK
            [] why = "scratch" -> "scratch" \in seen
            [] why = "preflight" ->
                  \/ "panic" \in seen \/ ConfigNames \subseteq seen
                  \/ gate = "over" /\ input.cmd \in {"serve", "backfill"} /\ bad("required")
            [] why = "http" -> "port" \in seen
            [] why = "source" -> ~ReadSource(Mended, input.from)
            [] OTHER -> why \in {"load", "validate", "limits", "targets"}

\* Nothing uses a pool after it was closed, or before it was opened: the
\* consumer, a background pass that reads the database and a /health probe are
\* all over when the deferred Close runs (the order of serveCtx's defers,
\* srv.Shutdown outlasting a probe).
NoUseAfterClose ==
    /\ pc = "up" /\ Stage = "run" =>
          \A p \in DOMAIN pool : pool[p] = "open" \/ p \notin ToSet(Stages(input.cmd))
    /\ (\E l \in Loop \ {"immutability"} : loop[l].at \in {"pass", "wait", "ready"}) =>
          \A p \in DOMAIN pool : pool[p] = "open"
    /\ health.at = "probing" => \A p \in DOMAIN pool : pool[p] = "open"

\* Nothing alarms without a fault (runOneTick, immutabilityProbe, probeDetail):
\* a counted sample error, a raised immutability_unverifiable and a 503 each
\* mean that a dependency of theirs has been bad or a driver has panicked.  A
\* rollout alone raises none of them.
AlarmIsGenuine ==
    "panic" \notin seen =>
        /\ \A l \in Loop : loop[l].signal =>
              \E u \in Units(l) : Needs(l, u) \cap seen # {}
        /\ \A n \in Name : alert[n] => n \in seen
        /\ health.at = "503" => seen \cap DOMAIN pool # {}

\* No gauge goes stale in silence (SampleRPO, SampleCoverage, Sample): after a
\* pass that no shutdown cut short, every gauge of the loop was set in that
\* pass, or the pass counted an error, or the target's alert is raised.  Only
\* last_success_age is left alone without an error, while never_verified, set in
\* the same pass, counts every target.  An immutability_ok series is only there
\* if the last pass read that target.
NoSilentStaleGauge ==
    \A l \in Loop \ {"manifest"} : loop[l].at \in {"wait", "ready", "stopped"} =>
        /\ ~loop[l].aborted => \A g \in Gauges(l) \ loop[l].got :
              \/ loop[l].signal
              \/ l = "immutability" /\ (alert[g] \/ Exempt(g))
              \/ g = "age" /\ "never" \in loop[l].got /\ loop[l].all
        /\ l = "immutability" => \A n \in Name : ok[n] # "none" => n \in loop[l].got

\* The startup ends, whatever dependency or target hangs: the process runs or
\* returns.  The one call that can hold it up is the direct one of reconcile and
\* drill to their scratch directory (preflightScratch).
StartupSettles == <>(pc # "up" \/ Stage = "run" \/ StuckInScratch)

\* A canceled process exits: no loop, hung target or request holds it up, but a
\* hung scratch directory does.
ShutdownEnds == ctx = "canceled" ~> (pc = "exited" \/ StuckInScratch)
=============================================================================
