----------------------------- MODULE ServeProofs -----------------------------
(***************************************************************************)
(* What the configuration guarantees, for every file, environment and      *)
(* command: the numbers that a running process works with are sound.       *)
(***************************************************************************)
EXTENDS Serve, TLAPS

-----------------------------------------------------------------------------
\* Durations.

\* A longer time in seconds is a longer time in nanoseconds.
LEMMA ProductGrows ==
    ASSUME NEW a \in Nat, NEW b \in Nat, NEW c \in Nat, a <= b
    PROVE  a * c <= b * c
  <1>1. PICK d \in Nat : b = a + d
    <2>1. b - a \in Nat /\ b = a + (b - a)
      OBVIOUS
    <2>2. QED
      BY <2>1
  <1>2. b * c = a * c + d * c
    BY <1>1
  <1>3. a * c \in Nat /\ d * c \in Nat
    OBVIOUS
  <1>4. QED
    BY <1>2, <1>3

\* A number of seconds within the limits does not wrap around.
LEMMA DurationInRange ==
    ASSUME NEW sec \in Nat \ {0}, sec <= MaxSec
    PROVE  Duration(sec) = sec * Second /\ 0 < Duration(sec) /\ Duration(sec) <= MaxSec * Second
  <1>1. Second \in Nat /\ Second >= 1 /\ MaxSec \in Nat /\ MaxSec * Second <= MaxInt64
        /\ MaxInt64 \in Nat
    BY ConfigAssumption DEF MaxSec
  <1>2. sec * Second <= MaxSec * Second
    BY <1>1, ProductGrows
  <1>3. 1 * sec <= Second * sec
    BY <1>1, ProductGrows
  <1>4. sec * Second \in Nat /\ sec * Second >= 1 /\ MaxSec * Second \in Nat
    BY <1>1, <1>3
  <1>5. sec * Second <= MaxInt64
    BY <1>1, <1>2, <1>4
  <1>6. Duration(sec) = sec * Second
    BY <1>5 DEF Duration, Int64
  <1>7. QED
    BY <1>2, <1>4, <1>6

\* secondsToDuration answers with its fallback or with a positive duration,
\* whatever it is given.
LEMMA SecondsAreBounded ==
    ASSUME NEW sec \in Int, NEW fallback \in Int, SecondsToDuration(sec, fallback) # fallback
    PROVE  SecondsToDuration(sec, fallback) \in 1..MaxInt64
  <1>1. Second \in Nat \ {0} /\ MaxInt64 \in Nat
    BY ConfigAssumption
  <1>2. sec > 0 /\ sec <= MaxInt64 \div Second /\ SecondsToDuration(sec, fallback) = sec * Second
    BY <1>1 DEF SecondsToDuration
  <1> DEFINE q == MaxInt64 \div Second
  <1>3. q \in Nat /\ MaxInt64 = Second * q + (MaxInt64 % Second) /\ (MaxInt64 % Second) \in Nat
    BY <1>1
  <1> HIDE DEF q
  <1>4. sec * Second <= q * Second
    BY <1>1, <1>2, <1>3, ProductGrows DEF q
  <1>5. 1 * sec <= Second * sec
    BY <1>1, <1>2, ProductGrows
  <1>6. q * Second = Second * q /\ Second * q \in Nat /\ sec * Second \in Nat
    BY <1>1, <1>2, <1>3
  <1>7. QED
    BY <1>1, <1>2, <1>3, <1>4, <1>5, <1>6

-----------------------------------------------------------------------------
\* The knobs.

\* applyDefaults leaves every knob positive, whatever the file and the
\* environment hold.
LEMMA LoadedKnobs ==
    ASSUME NEW i \in Inputs
    PROVE  Loaded(i.file, i.env).knobs \in [Knob -> Nat \ {0}]
  <1> DEFINE o == Overlaid(i.file.knobs, i.env.knobs)
  <1>1. \A k \in Knob : o[k] \in Int
    BY ServeAssumption DEF Overlaid
  <1>2. \A k \in Knob : Default[k] \in Nat \ {0}
    BY DEF Default, Knob, Seconds
  <1> HIDE DEF o
  <1>3. \A k \in Knob : OrDefault(o[k], Default[k]) \in Nat \ {0}
    BY <1>1, <1>2 DEF OrDefault
  <1>4. ApplyDefaults(o) \in [Knob -> Nat \ {0}]
    BY <1>3 DEF ApplyDefaults
  <1>5. Loaded(i.file, i.env).knobs = ApplyDefaults(o)
    BY DEF Loaded, o
  <1>6. QED
    BY <1>4, <1>5

\* Positive knobs that validateLimits lets pass are sound: the orderings that
\* the other modules assume hold, and no duration wraps around.
LEMMA LimitsAreSound ==
    ASSUME NEW k \in [Knob -> Nat \ {0}], ValidateLimits(k)
    PROVE  Sound(k)
  <1>1. /\ k.threshold \in Nat \ {0} /\ k.maxAttempts \in Nat /\ k.staleTTL \in Nat
        /\ k.perObject \in Nat /\ k.stall \in Nat /\ k.concurrency \in Nat \ {0}
        /\ k.dbTimeout \in Nat \ {0}
    BY DEF Knob, Seconds
  <1>2. \A s \in Seconds : k[s] \in Nat \ {0} /\ k[s] <= MaxSec
    BY DEF ValidateLimits, Knob
  <1>3. \A s \in Seconds : 0 < Duration(k[s]) /\ Duration(k[s]) <= MaxSec * Second
    BY <1>2, DurationInRange
  <1>4. DBTimeout(k) >= Bookkeeping * Second
    <2>1. Second \in Nat \ {0} /\ MaxInt64 \in Nat /\ MaxSec * Second <= MaxInt64
          /\ MaxSec \in Nat /\ Bookkeeping \in Nat
      BY ConfigAssumption DEF MaxSec, Bookkeeping
    <2>2. k.dbTimeout <= MaxSec /\ k.dbTimeout >= Bookkeeping
      BY <1>2 DEF Seconds, ValidateLimits
    <2>3. Bookkeeping * Second <= k.dbTimeout * Second
      BY <1>1, <2>1, <2>2, ProductGrows
    <2>4. Bookkeeping * Second <= 30 * Second
      BY <2>1, ProductGrows DEF Bookkeeping
    <2>5. QED
      BY <2>3, <2>4 DEF DBTimeout, SecondsToDuration
  <1>5. k.concurrency < PoolSize(k, 4)
    BY <1>1 DEF PoolSize, ValidateLimits
  <1>6. QED
    BY <1>1, <1>3, <1>4, <1>5 DEF Sound, ValidateLimits, MinStaleTTL

\* The deadlines of the commands that do not validate their limits.
LEMMA DeadlinesAreBounded ==
    ASSUME NEW k \in [Knob -> Nat \ {0}]
    PROVE  /\ NormalizePerObjectTimeout(PerObjectTimeout(k)) \in 1..MaxInt64
           /\ DBTimeout(k) \in 1..MaxInt64
  <1>1. k.perObject \in Int /\ k.dbTimeout \in Int
    BY DEF Knob, Seconds
  <1>2. \A n \in {30, 1800} : n * Second \in 1..MaxInt64
    <2>1. Second \in Nat \ {0} /\ MaxInt64 \in Nat /\ 604800 * Second <= MaxInt64
      BY ConfigAssumption DEF MaxSec
    <2>2. QED
      BY <2>1
  <1>3. PerObjectTimeout(k) = 0 \/ PerObjectTimeout(k) \in 1..MaxInt64
    BY <1>1, SecondsAreBounded DEF PerObjectTimeout
  <1>4. DBTimeout(k) = 30 * Second \/ DBTimeout(k) \in 1..MaxInt64
    BY <1>1, <1>2, SecondsAreBounded DEF DBTimeout
  <1>5. DBTimeout(k) \in 1..MaxInt64
    BY <1>2, <1>4
  <1>6. CASE PerObjectTimeout(k) = 0
    <2>1. NormalizePerObjectTimeout(PerObjectTimeout(k)) = 1800 * Second
      BY <1>6 DEF NormalizePerObjectTimeout
    <2>2. QED
      BY <1>2, <1>5, <2>1
  <1>7. CASE PerObjectTimeout(k) \in 1..MaxInt64
    <2>1. NormalizePerObjectTimeout(PerObjectTimeout(k)) = PerObjectTimeout(k)
      BY <1>7, ConfigAssumption DEF NormalizePerObjectTimeout
    <2>2. QED
      BY <1>5, <1>7, <2>1
  <1>8. QED
    BY <1>3, <1>6, <1>7

-----------------------------------------------------------------------------
\* The command has what Load made of its input, and has accepted it in every
\* deciding stage behind it.
Deciding == {"validate", "limits", "targets", "source"}
HasPassed ==
    /\ input \in Inputs
    /\ at \in Nat
    /\ at > 0 => cfg = Loaded(input.file, input.env)
    /\ \A k \in 1..(at - 1) :
          Stages(input.cmd)[k] \in Deciding => Accepts(Stages(input.cmd)[k])

\* What a stage decides depends on the configuration and the input only.
LEMMA AcceptsUnchanged ==
    ASSUME UNCHANGED <<cfg, input>>, NEW s
    PROVE  Accepts(s)' = Accepts(s)
  BY DEF Accepts

\* A step to the next stage preserves HasPassed if the stage it leaves decides
\* nothing or has accepted.
LEMMA AdvanceKeeps ==
    ASSUME HasPassed, at > 0, at' = at + 1, UNCHANGED <<cfg, input>>,
           Stage \in Deciding => Accepts(Stage)
    PROVE  HasPassed'
  <1>1. Stage = Stages(input.cmd)[at] /\ at \in Nat
    BY DEF Stage, HasPassed
  <1>2. \A k \in 1..at :
          Stages(input.cmd)[k] \in Deciding => Accepts(Stages(input.cmd)[k])
    <2> TAKE k \in 1..at
    <2>1. CASE k = at
      BY <1>1, <2>1
    <2>2. CASE k # at
      BY <1>1, <2>2 DEF HasPassed
    <2>3. QED
      BY <2>1, <2>2
  <1>3. \A k \in 1..(at' - 1) :
          Stages(input.cmd)[k] \in Deciding => Accepts(Stages(input.cmd)[k])'
    BY <1>1, <1>2, AcceptsUnchanged
  <1>4. QED
    BY <1>1, <1>3 DEF HasPassed

\* A step that keeps the configuration and the stage preserves HasPassed.
LEMMA StayKeeps ==
    ASSUME HasPassed, UNCHANGED <<cfg, input, at>>
    PROVE  HasPassed'
  <1>1. \A s : Accepts(s)' = Accepts(s)
    BY AcceptsUnchanged
  <1>2. QED
    BY <1>1 DEF HasPassed

\* HasPassed is inductive.
LEMMA HasPassedStep ==
    ASSUME HasPassed, [Next]_vars
    PROVE  HasPassed'
  <1> USE DEF process, gauges, outside, Calm
  <1>1. CASE Load
    <2>1. CASE Loads(input.file, input.env)
      <3>1. at = 0 /\ at' = 1 /\ cfg' = Loaded(input.file, input.env) /\ input' = input
        BY <1>1, <2>1 DEF Load, Advance
      <3>2. QED
        BY <3>1 DEF HasPassed
    <2>2. CASE ~Loads(input.file, input.env)
      BY <1>1, <2>2, StayKeeps DEF Load
    <2>3. QED
      BY <2>1, <2>2
  <1>2. CASE Decide
    <2>1. at > 0
      BY <1>2 DEF Decide, Stage, HasPassed
    <2>2. CASE Accepts(Stage)
      BY <1>2, <2>1, <2>2, AdvanceKeeps DEF Decide, Advance
    <2>3. CASE ~Accepts(Stage)
      BY <1>2, <2>3, StayKeeps DEF Decide
    <2>4. QED
      BY <2>2, <2>3
  <1>3. CASE OpenPool
    <2>1. at > 0 /\ Stage \notin Deciding
      BY <1>3 DEF OpenPool, Stage, HasPassed, Deciding
    <2>2. QED
      BY <1>3, <2>1, AdvanceKeeps DEF OpenPool, Advance
  <1>4. CASE StartHTTP
    <2>1. at > 0 /\ Stage \notin Deciding
      BY <1>4 DEF StartHTTP, Stage, HasPassed, Deciding
    <2>2. CASE at' = at + 1
      BY <1>4, <2>1, <2>2, AdvanceKeeps DEF StartHTTP
    <2>3. CASE at' = at
      BY <1>4, <2>3, StayKeeps DEF StartHTTP
    <2>4. QED
      BY <1>4, <2>2, <2>3 DEF StartHTTP, Advance
  <1>5. CASE Gate
    <2>1. at > 0 /\ Stage \notin Deciding
      BY <1>5 DEF Gate, Stage, HasPassed, Deciding
    <2>2. CASE at' = at + 1
      BY <1>5, <2>1, <2>2, AdvanceKeeps DEF Gate
    <2>3. CASE at' = at
      BY <1>5, <2>3, StayKeeps DEF Gate
    <2>4. QED
      BY <1>5, <2>2, <2>3 DEF Gate, Advance
  <1>6. CASE Serving \/ Returns \/ Unwind \/ Exit \/ Deadline \/ \E c \in CheckNames : Check(c)
    BY <1>6, StayKeeps DEF Serving, Returns, Unwind, Exit, Deadline, Check
  <1>7. CASE Background \/ \E l \in Loop, u \in UnitNames : MeasurePanics(l, u)
    BY <1>7, StayKeeps DEF Background, Tick, EndPass, Measure, MeasurePanics
  <1>8. CASE Health \/ HealthAsked \/ Sigterm \/ WorldChanges
    BY <1>8, StayKeeps DEF Health, HealthProbe, HealthAnswers, HealthAsked, Sigterm, WorldChanges
  <1>9. CASE UNCHANGED vars
    BY <1>9, StayKeeps DEF vars
  <1>10. CASE ProbeLedger
    <2>1. at > 0 /\ Stage \notin Deciding
      BY <1>10 DEF ProbeLedger, Stage, HasPassed, Deciding
    <2>2. CASE at' = at + 1
      BY <1>10, <2>1, <2>2, AdvanceKeeps DEF ProbeLedger
    <2>3. CASE at' = at
      BY <1>10, <2>3, StayKeeps DEF ProbeLedger
    <2>4. QED
      BY <1>10, <2>2, <2>3 DEF ProbeLedger, Advance
  <1>11. CASE PreflightScratch
    <2>1. at > 0 /\ Stage \notin Deciding
      BY <1>11 DEF PreflightScratch, Stage, HasPassed, Deciding
    <2>2. CASE at' = at + 1
      BY <1>11, <2>1, <2>2, AdvanceKeeps DEF PreflightScratch
    <2>3. CASE at' = at
      BY <1>11, <2>3, StayKeeps DEF PreflightScratch
    <2>4. QED
      BY <1>11, <2>2, <2>3 DEF PreflightScratch, Advance
  <1>12. QED
    BY <1>1, <1>2, <1>3, <1>4, <1>5, <1>6, <1>7, <1>8, <1>9, <1>10, <1>11
       DEF Next, Step, Main, Startup, Done

\* A process that runs has validated its limits, unless it is a restore.
LEMMA PassedIsSound ==
    ASSUME HasPassed
    PROVE  AcceptedIsSound
  <1> SUFFICES ASSUME Stage = "run" PROVE AcceptedIsSound
    BY DEF AcceptedIsSound
  <1>1. input \in Inputs /\ input.cmd \in Command /\ at \in Nat /\ at # 0
    BY ServeAssumption DEF HasPassed, Stage
  <1>2. cfg.knobs \in [Knob -> Nat \ {0}]
    BY <1>1, LoadedKnobs DEF HasPassed
  <1>3. ASSUME input.cmd # "restore" PROVE Sound(cfg.knobs)
    <2>1. Stages(input.cmd)[1] \in {"validate", "limits"}
      BY <1>1, <1>3 DEF Stages, Command, ServeCtx, RunBackfill, RunReconcile,
                         RunAudit, RunDrill, RunRestoreAll
    <2>2. Stages(input.cmd)[at] = "run"
      BY <1>1 DEF Stage
    <2>3. 1 \in 1..(at - 1)
      BY <1>1, <2>1, <2>2
    <2>4. Accepts(Stages(input.cmd)[1])
      BY <2>1, <2>3 DEF HasPassed, Deciding
    <2>5. ValidateLimits(cfg.knobs)
      BY <2>1, <2>4 DEF Accepts
    <2>6. QED
      BY <1>2, <2>5, LimitsAreSound
  <1>4. QED
    BY <1>2, <1>3, DeadlinesAreBounded DEF AcceptedIsSound

\* For every file, environment and command, a process that runs has numbers
\* that keep the orderings the worker relies on, and positive deadlines
\* (config.Load, Validate, ValidateDRLimits, secondsToDuration).
THEOREM ConfigurationIsSound == Spec => []AcceptedIsSound
  <1>1. Init => HasPassed
    BY DEF Init, HasPassed
  <1>2. HasPassed /\ [Next]_vars => HasPassed'
    BY HasPassedStep
  <1>3. HasPassed => AcceptedIsSound
    BY PassedIsSound
  <1>4. QED
    BY <1>1, <1>2, <1>3, PTL DEF Spec
==============================================================================
