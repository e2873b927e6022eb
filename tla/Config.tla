------------------------------- MODULE Config -------------------------------
(***************************************************************************)
(* The configuration (internal/config/config.go): what Load makes of the   *)
(* YAML file and the environment, and what each command accepts of it.     *)
(* Operators only: module Serve runs them.                                 *)
(*                                                                         *)
(* The numeric knobs are a function from Knob to Int.  A target is reduced *)
(* to what its validation tells apart: place (endpoint, bucket and region, *)
(* or the path), keys (both worker keys), audit (none, half or both of the *)
(* audit keys), secure (TLS and SSE, or insecure), codec (a known one).    *)
(* The base URL and the databases are what the overlaid strings come to.   *)
(* Durations are 64-bit counts of nanoseconds; Second and MaxInt64 are     *)
(* parameters, so that a small instance can wrap around as well.           *)
(***************************************************************************)
EXTENDS Integers, Sequences, SequencesExt

CONSTANTS
    Name, Token,        \* target names, and their envToken
    ProperName,         \* names that are neither empty nor over 64 characters
    Second, MaxInt64    \* time.Second, math.MaxInt64

Seconds == {"perObject", "staleTTL", "poll", "manifest", "cooldown", "stall", "dbTimeout"}
Knob == Seconds \cup {"concurrency", "port", "maxAttempts", "maxDeliveries", "threshold"}

MaxSec == 7 * 24 * 60 * 60
Bookkeeping == 15       \* domain.BookkeepingTimeout

ASSUME ConfigAssumption ==
    /\ ProperName \subseteq Name
    /\ Second \in Nat \ {0} /\ MaxInt64 \in Nat /\ MaxSec * Second <= MaxInt64

-----------------------------------------------------------------------------
\* Load.

\* setInt over every knob: the variables that are set win over the file.
Overlaid(knobs, env) == [k \in Knob |-> IF k \in DOMAIN env THEN env[k] ELSE knobs[k]]

Default == [concurrency |-> 8, port |-> 4004, perObject |-> 1800, staleTTL |-> 3600,
            poll |-> 10, maxAttempts |-> 10, maxDeliveries |-> 50, manifest |-> 24 * 60 * 60,
            threshold |-> 5, cooldown |-> 60, stall |-> 60, dbTimeout |-> 30]

OrDefault(v, d) == IF v <= 0 THEN d ELSE v

\* applyDefaults: every knob that is not positive, the databases' ports only
\* if they are zero.
ApplyDefaults(knobs) == [k \in Knob |-> OrDefault(knobs[k], Default[k])]
DefaultDB(d) == [d EXCEPT !.port = IF @ = 0 THEN 5432 ELSE @]

\* A target of which nothing but the name is known.
Bare(n) == [name |-> n, type |-> "", place |-> FALSE, keys |-> FALSE, audit |-> "none",
            secure |-> FALSE, codec |-> TRUE, worm |-> FALSE]

\* seedTargetsFromEnv: FBS_TARGETS decides which targets there are and in
\* which order; the file's entry is kept if its token is the same.
SeedTargetsFromEnv(targets, list) ==
    LET names == FoldLeft(LAMBDA acc, n : IF n = "" \/ n \in ToSet(acc) THEN acc
                                          ELSE Append(acc, n), <<>>, list)
        base(n) == {j \in DOMAIN targets : Token[targets[j].name] = Token[n]}
    IN  IF list = <<>> THEN targets
        ELSE [k \in DOMAIN names |->
                IF base(names[k]) = {} THEN Bare(names[k])
                ELSE targets[Max(base(names[k]))]]

\* applyTargetEnv: the fields that are set in FBS_TARGET_<TOKEN>_*.
ApplyTargetEnv(targets, overlay) ==
    [j \in DOMAIN targets |->
        LET o == overlay[Token[targets[j].name]]
        IN  [f \in DOMAIN targets[j] |-> IF f \in DOMAIN o THEN o[f] ELSE targets[j][f]]]

\* Load fails on a file that cannot be read or parsed, and on a malformed
\* number or flag in the environment; a file that is absent is fine.
Loads(file, env) == file.read \in {"ok", "absent"} /\ ~env.malformed

Loaded(file, env) ==
    [base |-> file.base,
     alkemio |-> DefaultDB(file.alkemio), ledger |-> DefaultDB(file.ledger),
     knobs |-> ApplyDefaults(Overlaid(file.knobs, env.knobs)),
     targets |-> ApplyTargetEnv(SeedTargetsFromEnv(file.targets, env.list), env.targets)]

-----------------------------------------------------------------------------
\* Validation.

\* DBConfig.Validate; parts says that host, user and database name are given.
ValidateDB(d) == d.parts /\ d.port \in 1..65535

\* A bug of validateLimits: one of the two bookkeeping writes is forgotten.
MinStaleTTLOnce(k) == k.perObject + Bookkeeping

\* How long an object may take to settle: its own timeout, then the ledger's
\* and the outbox's writes.
MinStaleTTL(k) == k.perObject + 2 * Bookkeeping

ValidateLimits(k) ==
    /\ k.concurrency <= 1024
    /\ \A s \in Seconds : k[s] <= MaxSec
    /\ k.staleTTL > MinStaleTTL(k)
    /\ k.threshold < k.maxAttempts /\ k.dbTimeout >= Bookkeeping /\ k.stall < k.perObject
    /\ k.port <= 65535 /\ k.maxAttempts <= 1000 /\ k.maxDeliveries <= 1000
    /\ k.threshold <= 10000

ValidateTargetFields(t) ==
    /\ \/ /\ t.type = "s3"
          /\ t.place /\ t.keys /\ t.audit # "half" /\ t.secure
       \/ t.type = "filesystem" /\ t.place
    /\ t.codec

\* CheckTargetCollisions with validateTargetName.
CheckTargetCollisions(targets) ==
    /\ targets # <<>>
    /\ \A j \in DOMAIN targets :
          /\ targets[j].name \in ProperName
          /\ \A k \in 1..(j - 1) : Token[targets[k].name] # Token[targets[j].name]

ValidateTargets(targets) ==
    /\ CheckTargetCollisions(targets)
    /\ \A j \in DOMAIN targets : ValidateTargetFields(targets[j])

\* SelectReadTarget: the place of the target to read from, 0 if there is none.
\* from = "" leaves the choice to the command.
SelectReadTarget(targets, from) ==
    LET fits == {j \in DOMAIN targets :
                    IF from = "" THEN ~targets[j].worm ELSE targets[j].name = from}
    IN  IF fits = {} THEN 0 ELSE Min(fits)

\* buildReadSource: only the chosen target's own fields matter.
ReadSource(targets, from) ==
    LET j == SelectReadTarget(targets, from)
    IN  CheckTargetCollisions(targets) /\ j # 0 /\ ValidateTargetFields(targets[j])

-----------------------------------------------------------------------------
\* Durations.

\* What a 64-bit integer makes of a product.
Int64(x) == IF x <= MaxInt64 THEN x
            ELSE ((x + MaxInt64 + 1) % (2 * MaxInt64 + 2)) - MaxInt64 - 1

\* StaleTTL, PollEvery, ManifestEvery, CircuitCooldown and FanoutStall.
Duration(sec) == Int64(sec * Second)

\* secondsToDuration guards against the overflow.
SecondsToDuration(sec, fallback) ==
    IF sec <= 0 \/ sec > MaxInt64 \div Second THEN fallback ELSE sec * Second

\* PerObjectTimeout, and NormalizePerObjectTimeout of every caller that does
\* not validate the limits.
PerObjectTimeout(k) == SecondsToDuration(k.perObject, 0)
NormalizePerObjectTimeout(d) == IF d <= 0 THEN 1800 * Second ELSE d

DBTimeout(k) == SecondsToDuration(k.dbTimeout, 30 * Second)

PoolSize(k, headroom) ==
    LET n == IF k.concurrency < 1 THEN 1 ELSE IF k.concurrency > 1024 THEN 1024 ELSE k.concurrency
    IN  n + headroom

-----------------------------------------------------------------------------
\* What the other modules take for granted about the numbers they are given:
\* the breaker trips before a row is dead-lettered (BackupService), a claim is
\* not reaped while it is being settled (Lease), a hung target is dropped
\* before its object times out (Fanout), a bookkeeping write is not cut off by
\* the database, and every period is positive, which a ticker insists on.
Sound(k) ==
    /\ 0 < k.threshold /\ k.threshold < k.maxAttempts
    /\ k.staleTTL > k.perObject + 2 * Bookkeeping
    /\ k.stall < k.perObject
    /\ DBTimeout(k) >= Bookkeeping * Second
    /\ \A s \in Seconds : 0 < Duration(k[s]) /\ Duration(k[s]) <= MaxSec * Second
    /\ 0 < k.concurrency /\ k.concurrency < PoolSize(k, 4)
=============================================================================
