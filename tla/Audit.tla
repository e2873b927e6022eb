------------------------------- MODULE Audit --------------------------------
(***************************************************************************)
(* One run of the audit command over one target: the existence sweep       *)
(* (internal/domain/audit.go), the immutability check (immutability.go)    *)
(* and the inventory diff (inventory.go), one after the other, and the     *)
(* exit code (runAudit in main.go).  The directions treat every target on  *)
(* its own (probeTargets) and join the verdicts, so one target is enough.  *)
(*                                                                         *)
(* Meanwhile the service backs objects up and writes manifests             *)
(* (manifest.go, PutManifest of the two sinks), objects and ledger rows    *)
(* get lost, manifests are deleted, the mount or the bucket goes away and  *)
(* comes back, calls fail and SIGTERM arrives.  Each call to a sink is one *)
(* step, with the check of the root or bucket that follows an absence.     *)
(***************************************************************************)
EXTENDS Keyset, Verdict, SequencesExt

CONSTANTS
    Id,             \* object keys: even numbers (module Keyset)
    Name,           \* manifest names, in the order of their timestamps: 1..n
    Writer,         \* manifest writers: the service's pods
    Kinds, Samples, Starts, Ledgers, Losses,    \* what a run begins with
    Shelves,        \* the manifests of a run: records [body, pointer]
    MaxSorted,      \* maxSortedManifestIDs
    Budget          \* events and faults that may happen

ASSUME AuditAssumption ==
    /\ \A i \in Id : i \in Nat \ {0} /\ i % 2 = 0
    /\ Name = 1..Cardinality(Name)
    /\ Kinds \subseteq Kind /\ Ledgers \subseteq SUBSET Id
    /\ \A s \in Starts : s = 0 \/ s % 2 = 1
    /\ MaxSorted \in Nat /\ Budget \in Nat

VARIABLES
    kind, sample, start,        \* the target and the command line
    ctx,                        \* the command's context
    ledger, objects,            \* rows stored on the target, objects it holds
    root, lock,                 \* the root or bucket is there; its object lock and versioning
    shelf, body, pointer,       \* manifests, their lines, _manifest/LATEST
    clock, wr,                  \* the last manifest name, the writers
    pc, cur, probe, tally, cached,      \* the existence sweep
    tip, todo, sorted, rest, prev, mcur, extra,     \* the inventory diff
    exist, imm, inv, exit,      \* the verdicts and the exit code
    owed, kept, known, bare, stable, causes, budget     \* see TypeOK

world == <<ledger, objects, root, lock, shelf, body, pointer, clock, wr>>
args == <<kind, sample, start>>
sweep == <<cur, probe, tally, cached>>
diff == <<tip, todo, sorted, rest, prev, mcur, extra>>
verdicts == <<exist, imm, inv, exit>>
past == <<owed, kept, known, bare>>
vars == <<args, ctx, world, pc, sweep, diff, verdicts, past, stable, causes, budget>>

Cause == {"object", "row", "root", "lock", "bad", "fault"}

\* In the lines of a manifest, 0 stands for one that cannot be parsed.  kept are
\* the rows that were there when the run began and still are, owed those of
\* them whose object was already lost then, known the rows that were there at
\* some time since; bare says that the lock was off when the run began and has
\* not been touched since; stable are the manifests that were there when the
\* diff began and still are, causes what has really gone wrong.
TypeOK ==
    /\ kind \in Kinds /\ sample \in Samples /\ start \in Starts \cup {0}
    /\ ctx \in {"live", "canceled"}
    /\ ledger \subseteq Id /\ objects \subseteq Id /\ root \in BOOLEAN
    /\ lock \in [lock : BOOLEAN, vers : BOOLEAN]
    /\ shelf \subseteq Name /\ \A n \in Name : body[n] \in Seq(Id \cup {0})
    /\ pointer \in Name \cup {0} /\ clock \in Name \cup {0}
    /\ \A w \in Writer : /\ wr[w].pc \in {"idle", "scan", "pointer", "done"}
                         /\ wr[w].name \in Name \cup {0} /\ wr[w].ids \subseteq Id
    /\ pc \in {"page", "probe", "lock", "locked", "unlocked", "root", "pointer", "list", "open", "scan",
               "openScan", "collect", "merge", "report", "exited"}
    /\ cur.page \subseteq Id /\ tally.checked <= Cardinality(Id)
    /\ probe \in [Id -> {"none", "present", "missing", "error", "denied", "panic"}]
    /\ cached \in {"no", "present", "gone"}
    /\ tip \in Name \cup {0} /\ todo \subseteq Name /\ sorted \in BOOLEAN
    /\ rest \in Seq(Id \cup {0}) /\ prev \in Id \cup {0}
    /\ mcur.page \subseteq Id /\ extra \in 0..Cardinality(Id)
    /\ exist \in Status /\ imm \in Status \cup {"skipped"} /\ inv \in Status
    /\ exit \in {"none", "zero", "one"}
    /\ owed \subseteq kept /\ kept \subseteq known /\ known \subseteq Id
    /\ bare \in BOOLEAN
    /\ stable \subseteq Name /\ causes \subseteq Cause
    /\ budget \in 0..Budget

Spend(why) == budget > 0 /\ budget' = budget - 1 /\ causes' = causes \cup why
Free == UNCHANGED <<budget, causes>>

-----------------------------------------------------------------------------
\* The existence sweep.

\* All that is left of the sweep is its verdict and how many it checked.
EndExist(v, a) ==
    /\ exist' = v /\ pc' = "lock"
    /\ cur' = CursorAt(0) /\ probe' = [i \in Id |-> "none"]
    /\ tally' = [NoTally EXCEPT !.checked = a.checked] /\ cached' = "no"
    /\ UNCHANGED <<imm, inv, exit>>

\* keysetSample reads the next page of rows (storedPageLedgerTagged).
ExistPage ==
    /\ pc = "page" /\ ~SampleDone(cur, sample) /\ ctx = "live"
    /\ cur' = Sampled(cur, ledger, sample, start)
    /\ pc' = IF cur'.page = {} THEN "page" ELSE "probe"
    /\ probe' = [i \in Id |-> "none"]
    /\ Free
    /\ UNCHANGED <<args, ctx, world, tally, cached, diff, verdicts, past, stable>>

\* classifyAuditErr: a page that cannot be read is a fault of our own side.
ExistPageFails ==
    /\ pc = "page" /\ ~SampleDone(cur, sample)
    /\ EndExist("fault", tally) /\ Spend({"fault"})
    /\ UNCHANGED <<args, ctx, world, diff, past, stable>>

\* The sweep has seen its last page.
ExistDone ==
    /\ pc = "page" /\ SampleDone(cur, sample) /\ (cur.last \/ ctx = "live")
    /\ EndExist(TallyVerdict(tally), tally) /\ Free
    /\ UNCHANGED <<args, ctx, world, diff, past, stable>>

\* A bug of Exists: an absence is believed without a look at the root.
ExistsUnconfirmed(i) ==
    IF ~Readable(kind) THEN [r |-> "denied", cached |-> cached]
    ELSE IF root /\ i \in objects THEN [r |-> "present", cached |-> cached]
    ELSE [r |-> "missing", cached |-> cached]

\* Exists of the two sinks on a readable target, with confirmRoot or
\* confirmBucket after an absence: what the S3 sink finds out about its bucket
\* it keeps (bucketChecked).
ExistsFS(i) ==
    [r |-> IF ~root THEN "error" ELSE IF i \in objects THEN "present" ELSE "missing",
     cached |-> cached]

ConfirmBucket == IF cached # "no" THEN cached ELSE IF root THEN "present" ELSE "gone"

ExistsS3(i) ==
    IF root /\ i \in objects THEN [r |-> "present", cached |-> cached]
    ELSE [r |-> IF ConfirmBucket = "present" THEN "missing" ELSE "error",
          cached |-> ConfirmBucket]

Exists(i) ==
    IF ~Readable(kind) THEN [r |-> "denied", cached |-> cached]
    ELSE IF kind.sort = "fs" THEN ExistsFS(i) ELSE ExistsS3(i)

\* One of the concurrent probes of existsPage returns (existsWithCtx); it may
\* fail, be abandoned at its deadline, or panic.
Probe(i) ==
    /\ pc = "probe" /\ i \in cur.page /\ probe[i] = "none"
    /\ \/ /\ probe' = [probe EXCEPT ![i] = Exists(i).r]
          /\ cached' = Exists(i).cached
          /\ Free
       \/ /\ \E r \in {"error", "panic"} : probe' = [probe EXCEPT ![i] = r]
          /\ Spend({"fault"})
          /\ UNCHANGED cached
    /\ UNCHANGED <<args, ctx, world, pc, cur, tally, diff, verdicts, past, stable>>

\* auditTally.add over the results of a page.
Added(a) ==
    LET n(results) == Cardinality({i \in cur.page : probe[i] \in results})
    IN  [checked |-> a.checked + Cardinality(cur.page),
         missing |-> a.missing + n({"missing"}),
         errored |-> a.errored + n({"error", "denied", "panic"}),
         denied |-> a.denied + n({"denied"}),
         panicked |-> a.panicked \/ n({"panic"}) > 0]

\* The early stop: a copy that is write-only by design denies every read.
StopsEarly(a) == Exempt(kind) /\ AllReadDenied(a)

\* All probes of the page are in, and the context is still live.
Tally ==
    /\ pc = "probe" /\ ctx = "live" /\ \A i \in cur.page : probe[i] # "none"
    /\ \/ StopsEarly(Added(tally)) /\ EndExist(TallyVerdict(Added(tally)), Added(tally))
       \/ /\ ~StopsEarly(Added(tally))
          /\ tally' = Added(tally) /\ cur' = [cur EXCEPT !.page = {}] /\ pc' = "page"
          /\ UNCHANGED <<probe, cached, verdicts>>
    /\ Free
    /\ UNCHANGED <<args, ctx, world, diff, past, stable>>

-----------------------------------------------------------------------------
\* CheckImmutability: only targets that are expected to be immutable.

Read(b) == IF ~root THEN "io" ELSE IF b THEN "on" ELSE "off"

EndImm(v) == imm' = v /\ pc' = "root"

\* The object-lock configuration is read first, from a target that can be asked;
\* what it says is kept for the second read.
CheckLock ==
    /\ pc = "lock"
    /\ \/ ~kind.worm /\ EndImm("skipped") /\ Free
       \/ kind.worm /\ ~Asked(kind) /\ EndImm("nodata") /\ Free
       \/ /\ kind.worm /\ Asked(kind) /\ root /\ Free
          /\ pc' = (IF lock.lock THEN "locked" ELSE "unlocked") /\ UNCHANGED imm
       \/ kind.worm /\ Asked(kind) /\ ~root /\ EndImm(ImmutabilityError("io")) /\ Free
       \/ /\ kind.worm /\ Asked(kind) /\ Spend({"fault"})
          /\ \E e \in {"io", "panic"} : EndImm(ImmutabilityError(e))
    /\ UNCHANGED <<args, ctx, world, sweep, diff, exist, inv, exit, past, stable>>

\* Then versioning, whose failure does not take back that the lock is off.
CheckVersioning ==
    /\ pc \in {"locked", "unlocked"}
    /\ \/ EndImm(ImmutabilityProbe(pc = "locked", Read(lock.vers))) /\ Free
       \/ /\ Spend({"fault"})
          /\ \E e \in {"io", "panic"} : EndImm(ImmutabilityProbe(pc = "locked", e))
    /\ UNCHANGED <<args, ctx, world, sweep, diff, exist, inv, exit, past, stable>>

-----------------------------------------------------------------------------
\* The inventory diff.  Its first part is LatestManifest of the two sinks and
\* OpenLatestManifest.

EndInv(e) == inv' = MergeToVerdict(extra, e) /\ pc' = "report"

\* A step of the diff: it succeeds, or the root or bucket is gone.
Reached(succeeds) ==
    /\ \/ root /\ succeeds
       \/ ~root /\ EndInv("io") /\ UNCHANGED <<diff, stable>>
    /\ Free
    /\ UNCHANGED <<args, ctx, world, sweep, exist, imm, exit, past>>

\* confirmRoot, bucketPresentUncached.
ConfirmRoot ==
    /\ pc = "root"
    /\ Reached(/\ \/ Readable(kind) /\ pc' = "pointer" /\ UNCHANGED inv
                  \/ ~Readable(kind) /\ EndInv("io")
               /\ stable' = shelf
               /\ UNCHANGED diff)

\* readManifestPointer: a hint, whatever may be wrong with it.
ReadPointer ==
    /\ pc = "pointer"
    /\ \/ tip' = (IF root THEN pointer ELSE 0) /\ Free
       \/ tip' = 0 /\ Spend({"fault"})
    /\ pc' = IF tip' = 0 THEN "scan" ELSE "list"
    /\ UNCHANGED <<args, ctx, world, sweep, todo, sorted, rest, prev, mcur, extra,
                   verdicts, past, stable>>

\* A bug of OpenLatestManifest: the pointer is trusted.
NewestAfterPointer(p) == p

\* The newest of the pointer's manifest and those listed after it.
NewestAfter(p) == Max({p} \cup {n \in shelf : n > p})

ListAfter ==
    /\ pc = "list"
    /\ Reached(/\ tip' = NewestAfter(tip) /\ pc' = "open"
               /\ UNCHANGED <<todo, sorted, rest, prev, mcur, extra, inv, stable>>)

\* The manifest is open: the strict merge streams it, the fallback reads it
\* as a whole first.
Opened(n) ==
    /\ tip' = n /\ rest' = body[n] /\ prev' = 0 /\ mcur' = CursorAt(0)
    /\ pc' = IF sorted THEN "collect" ELSE "merge"
    /\ UNCHANGED <<todo, sorted, extra, inv, stable>>

\* The newest manifest is opened; if it is gone by now, everything is listed.
OpenTip ==
    /\ pc = "open"
    /\ Reached(\/ tip \in shelf /\ Opened(tip)
               \/ tip \notin shelf /\ pc' = "scan" /\ UNCHANGED <<diff, inv, stable>>)

Scan ==
    /\ pc = "scan"
    /\ Reached(/\ todo' = shelf /\ pc' = "openScan"
               /\ UNCHANGED <<tip, sorted, rest, prev, mcur, extra, inv, stable>>)

\* latestFirst: the newest manifest that can still be opened.
OpenScan ==
    /\ pc = "openScan"
    /\ Reached(\/ todo # {} /\ Max(todo) \in shelf /\ Opened(Max(todo))
               \/ /\ todo # {} /\ Max(todo) \notin shelf
                  /\ todo' = todo \ {Max(todo)}
                  /\ UNCHANGED <<pc, tip, sorted, rest, prev, mcur, extra, inv, stable>>
               \/ todo = {} /\ EndInv("notexist") /\ UNCHANGED <<diff, stable>>)

-----------------------------------------------------------------------------
\* The second part is mergeInventory.

\* What manifestScanner says of the next line.
Line ==
    CASE rest = <<>> -> "end"
      [] rest # <<>> /\ Head(rest) = 0 -> "corrupt"
      [] rest # <<>> /\ Head(rest) # 0 /\ ~sorted /\ Head(rest) <= prev -> "order"
      [] OTHER -> "id"

\* Steps of the diff that need no sink.
Local == Free /\ UNCHANGED <<args, ctx, world, sweep, exist, imm, exit, past, stable>>

\* collectManifestIDs, which stops at the first line that it cannot take, and
\* the sort of what it collected.
Collect ==
    LET parsed == \A j \in 1..Min({Len(rest), MaxSorted + 1}) : rest[j] # 0
    IN  /\ pc = "collect"
        /\ \/ ~parsed /\ EndInv("corrupt") /\ UNCHANGED rest
           \/ parsed /\ Len(rest) > MaxSorted /\ EndInv("toolarge") /\ UNCHANGED rest
           \/ /\ parsed /\ Len(rest) <= MaxSorted
              /\ rest' = SortSeq(rest, <) /\ pc' = "merge" /\ UNCHANGED inv
        /\ Local
        /\ UNCHANGED <<tip, todo, sorted, prev, mcur, extra>>

\* A line that cannot be merged: one that is out of order, before any orphan
\* was seen, starts the diff over, with a sort.
BadLine ==
    /\ pc = "merge" /\ Line \in {"corrupt", "order"}
    /\ \/ /\ Line = "order" /\ extra = 0
          /\ sorted' = TRUE /\ pc' = "root" /\ UNCHANGED inv
       \/ /\ Line = "corrupt" \/ extra > 0
          /\ EndInv(Line) /\ UNCHANGED sorted
    /\ Local
    /\ UNCHANGED <<tip, todo, rest, prev, mcur, extra>>

\* ledgerStoredPull reads its next page, once the manifest has its line.
LedgerPage ==
    /\ pc = "merge" /\ Line \in {"id", "end"} /\ mcur.page = {} /\ ~mcur.last
    /\ \/ /\ ctx = "live"
          /\ mcur' = Pulled(mcur, ledger) /\ Free /\ UNCHANGED <<pc, inv>>
       \/ EndInv("ledger") /\ Spend({"fault"}) /\ UNCHANGED mcur
    /\ UNCHANGED <<args, ctx, world, sweep, exist, imm, exit, past, stable,
                   tip, todo, sorted, rest, prev, extra>>

\* One round of mergeInventory's loop.
MergeStep ==
    LET hasM == Line = "id"
        hasL == mcur.page # {}
        takeM == hasM /\ (hasL => Head(rest) <= Min(mcur.page))
        takeL == hasL /\ (hasM => Min(mcur.page) <= Head(rest))
    IN  /\ pc = "merge" /\ Line \in {"id", "end"} /\ (hasL \/ mcur.last) /\ (hasM \/ hasL)
        /\ extra' = IF takeM /\ ~takeL THEN extra + 1 ELSE extra
        /\ rest' = IF takeM THEN Tail(rest) ELSE rest
        /\ prev' = IF takeM THEN Head(rest) ELSE prev
        /\ mcur' = IF takeL THEN [mcur EXCEPT !.page = @ \ {Min(@)}] ELSE mcur
        /\ Local
        /\ UNCHANGED <<pc, tip, todo, sorted, inv>>

MergeDone ==
    /\ pc = "merge" /\ Line = "end" /\ mcur.page = {} /\ mcur.last
    /\ EndInv("nil")
    /\ Local
    /\ UNCHANGED diff

\* A call to the target fails, is abandoned at its deadline (abandonableFetch,
\* stallReader), or panics.
InvFault ==
    /\ pc \in {"root", "list", "open", "scan", "openScan", "collect", "merge"}
    /\ \E e \in {"io", "panic"} : EndInv(e)
    /\ Spend({"fault"})
    /\ UNCHANGED <<args, ctx, world, sweep, diff, exist, imm, exit, past, stable>>

-----------------------------------------------------------------------------
\* A cancelled context: the direction is abandoned (probeOne, abandonVerdict),
\* or its probe returns the cancellation first.
Abandon ==
    /\ ctx = "canceled"
    /\ \/ pc \in {"page", "probe"} /\ EndExist("nodata", tally)
       \/ /\ pc \in {"lock", "locked", "unlocked"} /\ kind.worm
          /\ imm' = "nodata" /\ pc' = "root" /\ UNCHANGED <<exist, inv, exit, sweep>>
       \/ /\ pc \notin {"page", "probe", "lock", "locked", "unlocked", "report", "exited"}
          /\ inv' \in {"nodata", MergeToVerdict(extra, "canceled")} /\ pc' = "report"
          /\ UNCHANGED <<exist, imm, exit, sweep>>
    /\ Free
    /\ UNCHANGED <<args, ctx, world, diff, past, stable>>

\* A bug of runAudit: the cancellation is not among the joined errors.
PassesUnfolded == \A v \in {exist, imm, inv} : ~Failed(v, Exempt(kind))

\* FailErr of every direction, joined with the context's error.
Passes == ctx = "live" /\ \A v \in {exist, imm, inv} : ~Failed(v, Exempt(kind))

Report ==
    /\ pc = "report" /\ pc' = "exited"
    /\ exit' = IF Passes THEN "zero" ELSE "one"
    /\ Free
    /\ UNCHANGED <<args, ctx, world, sweep, diff, exist, imm, inv, past, stable>>

-----------------------------------------------------------------------------
\* The service: it stores an object, then its row; its pods write manifests.

audit == <<args, ctx, pc, sweep, diff, verdicts>>
manifests == <<shelf, body, pointer, clock, wr>>

Store(i) ==
    /\ i \notin objects \cup ledger /\ root
    /\ objects' = objects \cup {i}
    /\ Spend({})
    /\ UNCHANGED <<audit, ledger, root, lock, manifests, past, stable>>

Record(i) ==
    /\ i \in objects \ ledger
    /\ ledger' = ledger \cup {i} /\ known' = known \cup {i}
    /\ Free
    /\ UNCHANGED <<audit, objects, root, lock, manifests, owed, kept, bare, stable>>

Idle == [pc |-> "idle", name |-> 0, cur |-> CursorAt(0), ids |-> {}]

\* manifestLoop takes the name, then eachStoredObject reads the rows.
WriteBegin(w) ==
    /\ wr[w].pc = "idle" /\ clock + 1 \in Name
    /\ clock' = clock + 1
    /\ wr' = [wr EXCEPT ![w] = [@ EXCEPT !.pc = "scan", !.name = clock + 1]]
    /\ Free
    /\ UNCHANGED <<audit, ledger, objects, root, lock, shelf, body, pointer, past, stable>>

WritePage(w) ==
    LET k == Pulled(wr[w].cur, ledger)
    IN  /\ wr[w].pc = "scan" /\ ~wr[w].cur.last
        /\ wr' = [wr EXCEPT ![w] = [@ EXCEPT !.cur = [k EXCEPT !.page = {}],
                                              !.ids = @ \cup k.page]]
        /\ Free
        /\ UNCHANGED <<audit, ledger, objects, root, lock, shelf, body, pointer, clock, past, stable>>

\* PutManifest publishes the snapshot as a whole, and only a whole one.
WriteCommit(w) ==
    /\ wr[w].pc = "scan" /\ wr[w].cur.last /\ root
    /\ shelf' = shelf \cup {wr[w].name}
    /\ body' = [body EXCEPT ![wr[w].name] = SetToSortSeq(wr[w].ids, <)]
    /\ wr' = [wr EXCEPT ![w].pc = "pointer"]
    /\ Free
    /\ UNCHANGED <<audit, ledger, objects, root, lock, pointer, clock, past, stable>>

\* WriteManifestWithPointer: the pointer's write may fail.
WritePointer(w) ==
    /\ wr[w].pc = "pointer"
    /\ pointer' \in {pointer} \cup (IF root THEN {wr[w].name} ELSE {})
    /\ wr' = [wr EXCEPT ![w] = [Idle EXCEPT !.pc = "done"]]
    /\ Free
    /\ UNCHANGED <<audit, ledger, objects, root, lock, shelf, body, clock, past, stable>>

\* The snapshot fails, or its pod stops: nothing was published.
WriteFails(w) ==
    /\ wr[w].pc = "scan"
    /\ wr' = [wr EXCEPT ![w] = [Idle EXCEPT !.pc = "done"]]
    /\ Free
    /\ UNCHANGED <<audit, ledger, objects, root, lock, shelf, body, pointer, clock, past, stable>>

-----------------------------------------------------------------------------
\* What goes wrong in the world.

LoseObject(i) ==
    /\ i \in objects
    /\ objects' = objects \ {i} /\ Spend({"object"})
    /\ UNCHANGED <<audit, ledger, root, lock, manifests, past, stable>>

LoseRow(i) ==
    /\ i \in ledger
    /\ ledger' = ledger \ {i} /\ kept' = kept \ {i} /\ owed' = owed \ {i}
    /\ Spend({"row"})
    /\ UNCHANGED <<audit, objects, root, lock, manifests, known, bare, stable>>

RootChanges ==
    /\ root' = ~root /\ Spend({"root"})
    /\ UNCHANGED <<audit, ledger, objects, lock, manifests, past, stable>>

LockChanges ==
    /\ kind.worm /\ kind.cred
    /\ \E f \in {"lock", "vers"} : lock' = [lock EXCEPT ![f] = ~@]
    /\ bare' = FALSE /\ Spend({"lock"})
    /\ UNCHANGED <<audit, ledger, objects, root, manifests, owed, kept, known, stable>>

DeleteManifest(n) ==
    /\ n \in shelf
    /\ shelf' = shelf \ {n} /\ stable' = stable \ {n} /\ Spend({})
    /\ UNCHANGED <<audit, ledger, objects, root, lock, body, pointer, clock, wr, past>>

Sigterm ==
    /\ ctx = "live" /\ pc # "exited"
    /\ ctx' = "canceled"
    /\ Free
    /\ UNCHANGED <<args, world, pc, sweep, diff, verdicts, past, stable>>

Finished == pc = "exited" /\ UNCHANGED vars

-----------------------------------------------------------------------------
SampledStarts(n) == IF n > 0 THEN Starts ELSE {0}

\* The causes that are already there when a run begins.
CausesOf(rows, held, s) ==
    (IF bare THEN {"lock"} ELSE {}) \cup
    (IF rows \subseteq held THEN {} ELSE {"object"})
    \cup (IF \A n \in Name : ToSet(s.body[n]) \subseteq rows \cup {0} THEN {} ELSE {"row"})
    \cup (IF \A n \in Name : 0 \notin ToSet(s.body[n]) THEN {} ELSE {"bad"})

Init ==
    /\ kind \in Kinds /\ sample \in Samples /\ start \in SampledStarts(sample)
    /\ ctx = "live" /\ root = TRUE
    /\ lock \in [lock : IF kind.worm /\ Asked(kind) THEN BOOLEAN ELSE {TRUE}, vers : {TRUE}]
    /\ bare = ~lock.lock
    /\ ledger \in Ledgers /\ \E o \in Losses : objects = ledger \ o
    /\ \E s \in Shelves : /\ body = s.body /\ pointer = s.pointer
                          /\ shelf = {n \in Name : s.body[n] # <<>>}
                          /\ causes = CausesOf(ledger, objects, s)
    /\ clock = Max(shelf \cup {0})
    /\ wr = [w \in Writer |-> Idle]
    /\ pc = "page" /\ cur = CursorAt(start) /\ probe = [i \in Id |-> "none"]
    /\ tally = NoTally /\ cached = "no"
    /\ tip = 0 /\ todo = {} /\ sorted = FALSE /\ rest = <<>> /\ prev = 0
    /\ mcur = CursorAt(0) /\ extra = 0
    /\ exist = "unknown" /\ imm = "unknown" /\ inv = "unknown" /\ exit = "none"
    /\ owed = ledger \ objects /\ kept = ledger /\ known = ledger
    /\ stable = {} /\ budget = Budget

Step ==
    \/ ExistPage \/ ExistPageFails \/ ExistDone \/ (\E i \in Id : Probe(i)) \/ Tally
    \/ CheckLock \/ CheckVersioning
    \/ ConfirmRoot \/ ReadPointer \/ ListAfter \/ OpenTip \/ Scan \/ OpenScan
    \/ Collect \/ BadLine \/ LedgerPage \/ MergeStep \/ MergeDone \/ InvFault
    \/ Abandon \/ Report

Service ==
    \/ \E i \in Id : Store(i) \/ Record(i)
    \/ \E w \in Writer : \/ WriteBegin(w) \/ WritePage(w) \/ WriteCommit(w)
                         \/ WritePointer(w) \/ WriteFails(w)

Trouble ==
    \/ \E i \in Id : LoseObject(i) \/ LoseRow(i)
    \/ RootChanges \/ LockChanges \/ (\E n \in Name : DeleteManifest(n)) \/ Sigterm

Next == Step \/ (pc # "exited" /\ (Service \/ Trouble)) \/ Finished

\* Every call of the audit is bounded by auditProbeTimeout, so that it goes on.
Spec == Init /\ [][Next]_vars /\ WF_vars(Step)

-----------------------------------------------------------------------------
\* A verdict that fails the audit has a cause, and the cause it names: a drift
\* is a real loss (of an object, a row or the lock), a corrupt manifest is
\* one, and a SIGTERM on its own never makes a target fail.  A bucket that
\* goes away after the S3 sink has cached it reads as lost objects.
FailureHasCause ==
    LET met(cs) == causes \cap cs # {}
    IN  /\ exist = "drift" => met({"object"}) \/ (kind.sort = "s3" /\ met({"root"}))
        /\ exist = "unverifiable" => ~Readable(kind) \/ met({"fault", "root"})
        /\ exist = "fault" => met({"fault"})
        /\ imm = "drift" => met({"lock"})
        /\ imm \in {"unverifiable", "fault"} => met({"fault", "root"})
        /\ inv = "drift" => met({"row"})
        /\ inv = "corrupt" => met({"bad"})
        /\ inv = "unverifiable" => ~Readable(kind) \/ met({"fault", "root"}) \/ Len(rest) > MaxSorted
        /\ inv = "fault" => met({"fault"})

\* What an audit that exits with zero has shown.  Unless its existence check
\* was excused as unverifiable, a full sweep misses no object that was lost
\* before it began, and a sampled one checks as many rows as it was asked to, or
\* at least as many as were there all along; and if the inventory is verified,
\* every line of the manifest that was read is an object that had its row at
\* some time during the run (mergeInventory).  The lock of an immutable target
\* was not off from the beginning.  targetUnverifiableExempt claims
\* more, that its excuse "never masks a verifiable target's silent loss": one
\* failed probe of a copy that can be read is excused too, see the README.
GreenMeansAudited ==
    exit = "zero" =>
        /\ exist = "unverifiable" => Exempt(kind)
        /\ exist # "unverifiable" =>
              /\ sample = 0 => owed \subseteq objects
              /\ sample > 0 => /\ tally.checked <= sample
                               /\ tally.checked = sample \/ Cardinality(kept) <= tally.checked
        /\ inv = "verified" => ToSet(body[tip]) \subseteq known
        /\ ~bare

\* The manifest that is compared is at least as new as any that is there all
\* through the diff, also when the pointer is stale, or names a manifest that
\* is gone, or the newest one is deleted meanwhile (OpenLatestManifest); and
\* the target is said to have none only if no manifest is there all along,
\* also when the mount goes away between two calls.
NewestManifest ==
    /\ pc \in {"collect", "merge"} => \A n \in stable : n <= tip
    /\ inv = "nodata" /\ ctx = "live" => stable = {}

\* The audit ends, whatever happens to the target (auditProbeTimeout).
AuditEnds == <>(pc = "exited")

\* verdict.go says of the exemption of write-only copies that it "never masks
\* a verifiable target's silent loss".
ExemptionNeverMasks ==
    exit = "zero" /\ Readable(kind) /\ sample = 0 => owed \subseteq objects
=============================================================================
