----------------------------- MODULE ClaimProofs -----------------------------
(***************************************************************************)
(* What holds a claim together, for every number of pods, workers, rows    *)
(* and targets: no two workers process one row while claims outlive their  *)
(* workers' jobs (ExclusiveClaim), and a shutdown is never charged to a    *)
(* row (ShutdownCostsNoAttempt).  Both are read off one list of what a     *)
(* step can do to the rows and to the workers' hold on them (RowMoves).    *)
(***************************************************************************)
EXTENDS BackupServiceProofs

\* A worker takes row r, or the claim's answer is lost and none does.
Takes(r) ==
    /\ Claimable(row[r])
    /\ row' = [row EXCEPT ![r] = Claimed(row[r])]
    /\ \/ held' = held
       \/ \E w \in Job : held[w] = NoRow /\ held' = [held EXCEPT ![w] = r]

\* A shutdown cuts off claims that have been applied.
CutsOff(cut) ==
    /\ \A r \in cut : Claimable(row[r])
    /\ row' = [r \in Row |-> IF r \in cut THEN Claimed(row[r]) ELSE row[r]]
    /\ held' = held

\* Worker w lets go of its row, settled, failed after a panic, or untouched.
Drops(w) ==
    /\ held[w] \in Row
    /\ held' = [held EXCEPT ![w] = NoRow]
    /\ \/ row' = row
       \/ row' = [row EXCEPT ![held[w]] =
                     Settled(row[held[w]], job[w], pod[PodOf[w]] = "up")]
       \/ job[w].pc # "returned" /\ row' = [row EXCEPT ![held[w]] = Fail(row[held[w]])]

\* Time passes for row r.
Waits(r) ==
    /\ held' = held
    /\ \/ /\ LeaseRespected => \A w \in Job : held[w] # r
          /\ row' = [row EXCEPT ![r] = [row[r] EXCEPT !.claim = "stale"]]
       \/ row' = [row EXCEPT ![r] = [row[r] EXCEPT !.visible = "due"]]

\* The reaper requeues the rows whose claim is stale.
Reaps == held' = held /\ row' = [r \in Row |-> Reaped(row[r])]

\* Workers may be gone with a crash; the rows stay.
Stands == row' = row /\ \A w \in Job : held'[w] \in {held[w], NoRow}

RowMoves ==
    \/ \E r \in Row : Takes(r) \/ Waits(r)
    \/ \E cut \in SUBSET Row : CutsOff(cut)
    \/ \E w \in Job : Drops(w)
    \/ Reaps
    \/ Stands

\* Every step of the service is one of these: an idle worker holds no row.
LEMMA StepsMoveRows ==
    ASSUME Inv, ServiceInv, [Next]_vars
    PROVE  RowMoves
<1>0. /\ row \in [Row -> OutboxRow] /\ held \in [Job -> Row \cup {NoRow}]
      /\ \A w \in Job : job[w].pc = "idle" => held[w] = NoRow
  BY DEF ServiceInv, ServiceTypes, HeldOK
<1>1. CASE UNCHANGED <<row, held>>
  BY <1>0, <1>1 DEF RowMoves, Stands
<1>2. ASSUME NEW w \in Job, NEW r \in Row, Claim(w, r) PROVE RowMoves
  <2>1. /\ Claimable(row[r]) /\ job[w].pc = "idle"
        /\ row' = [row EXCEPT ![r] = Claimed(row[r])] /\ held' = [held EXCEPT ![w] = r]
    BY SMTT(30), <1>0, <1>2 DEF Claim, Best, Begin
  <2>2. held[w] = NoRow
    BY <1>0, <2>1
  <2>3. Takes(r)
    BY Zenon, <2>1, <2>2 DEF Takes
  <2>4. QED
    BY <2>3 DEF RowMoves
<1>3. ASSUME NEW w \in Job, NEW r \in Row, ClaimLost(w, r) PROVE RowMoves
  <2>1. Takes(r)
    BY SMTT(30), <1>0, <1>3 DEF ClaimLost, Best, Takes
  <2>2. QED
    BY <2>1 DEF RowMoves
<1>4. ASSUME NEW w \in Job, Settle(w) \/ Panic(w) PROVE RowMoves
  <2>1. held[w] \in Row /\ held' = [held EXCEPT ![w] = NoRow]
    BY SMTT(30), <1>0, <1>4 DEF Settle, Panic, LetGo
  <2>2. CASE Settle(w)
    <3>1. Drops(w)
      BY SMTT(30), <1>0, <2>1, <2>2 DEF Settle, Drops
    <3>2. QED
      BY <3>1 DEF RowMoves
  <2>3. CASE Panic(w)
    <3>1. Drops(w)
      BY SMTT(30), <1>0, <2>1, <2>3 DEF Panic, Drops
    <3>2. QED
      BY <3>1 DEF RowMoves
  <2>4. QED
    BY <1>4, <2>2, <2>3
<1>5. ASSUME NEW r \in Row, Age(r) \/ BecomeDue(r) PROVE RowMoves
  <2>1. Waits(r)
    BY SMTT(30), <1>0, <1>5 DEF Age, BecomeDue, Waits
  <2>2. QED
    BY <2>1 DEF RowMoves
<1>6. ASSUME NEW p \in Pod, Reap(p) PROVE RowMoves
  BY <1>6 DEF Reap, Reaps, RowMoves
<1>7. ASSUME NEW p \in Pod, Shutdown(p) PROVE RowMoves
  <2>1. PICK cut \in SUBSET {r \in Row : Claimable(row[r])} :
          row' = [r \in Row |-> IF r \in cut THEN Claimed(row[r]) ELSE row[r]]
    BY SMTT(30), <1>7 DEF Shutdown
  <2>2. cut \in SUBSET Row /\ CutsOff(cut)
    BY SMTT(30), <1>7, <2>1 DEF Shutdown, CutsOff
  <2>3. QED
    BY <2>2 DEF RowMoves
<1>8. ASSUME NEW p \in Pod, Crash(p) PROVE RowMoves
  BY SMTT(30), <1>0, <1>8 DEF Crash, Stands, RowMoves
<1>9. QED
  BY SMTT(30), <1>1, <1>2, <1>3, <1>4, <1>5, <1>6, <1>7, <1>8
     DEF Next, WorkerStep, Work, Exit, Restart, CoolDown, Calm, Drained,
         serviceVars, vars

-----------------------------------------------------------------------------
\* Attempts.

\* Of the statements on a row, only Fail adds to its attempts.
LEMMA OnlyFailCharges ==
    ASSUME NEW r \in OutboxRow
    PROVE  /\ r.attempts \in Nat
           /\ Fail(r).attempts \in {r.attempts, r.attempts + 1}
           /\ Claimed(r).attempts = r.attempts
           /\ Reaped(r).attempts = r.attempts
           /\ [r EXCEPT !.claim = "stale"].attempts = r.attempts
           /\ [r EXCEPT !.visible = "due"].attempts = r.attempts
           /\ MarkDone(r).attempts = r.attempts
           /\ Release(r).attempts = r.attempts
           /\ Skip(r).attempts = r.attempts
           /\ Defer(r).attempts \in {0, r.attempts}
<1>1. r.attempts \in Nat
  BY OutboxAssumption DEF OutboxRow
<1>2. Fail(r).attempts \in {r.attempts, r.attempts + 1}
  BY DEF Fail, Transition, OutboxRow
<1>3. Claimed(r).attempts = r.attempts /\ Reaped(r).attempts = r.attempts
  BY DEF Claimed, Reaped, OutboxRow
<1>4. /\ [r EXCEPT !.claim = "stale"].attempts = r.attempts
      /\ [r EXCEPT !.visible = "due"].attempts = r.attempts
  BY DEF OutboxRow
<1>5. MarkDone(r).attempts = r.attempts /\ Release(r).attempts = r.attempts
  BY DEF MarkDone, Release, Transition, OutboxRow
<1>6. Skip(r).attempts = r.attempts /\ Defer(r).attempts \in {0, r.attempts}
  BY DEF Skip, Defer, Transition, OutboxRow
<1>7. QED
  BY SMTT(30), <1>1, <1>2, <1>3, <1>4, <1>5, <1>6

\* settle adds an attempt only while the consumer's context is live.
LEMMA SettleCharges ==
    ASSUME NEW r \in OutboxRow, NEW s, NEW up
    PROVE  \/ Settled(r, s, up).attempts \in {0, r.attempts}
           \/ up /\ Settled(r, s, up).attempts = r.attempts + 1
<1>1. \/ Settled(r, s, up) \in {MarkDone(r), Release(r), Skip(r), Defer(r)}
      \/ up /\ Settled(r, s, up) = Fail(r)
  BY DEF Settled
<1>2. QED
  BY <1>1, OnlyFailCharges

\* A step of the service charges row r as it may.
Charged(r) ==
    row'[r].attempts > row[r].attempts =>
        /\ row'[r].attempts = row[r].attempts + 1
        /\ \E w \in Job : /\ held[w] = r /\ held'[w] = NoRow
                          /\ pod[PodOf[w]] = "up" \/ job[w].pc # "returned"

\* Every step does: only a worker that lets go of a row can charge it.
LEMMA StepsCharge ==
    ASSUME ServiceTypes, RowMoves, NEW r \in Row
    PROVE  Charged(r)
<1>0. /\ row \in [Row -> OutboxRow] /\ held \in [Job -> Row \cup {NoRow}]
      /\ row[r] \in OutboxRow /\ row[r].attempts \in Nat
  BY OnlyFailCharges DEF ServiceTypes
<1>1. CASE row'[r].attempts \in {0, row[r].attempts}
  BY <1>0, <1>1 DEF Charged
<1>2. ASSUME NEW q \in Row, Takes(q) \/ Waits(q) PROVE Charged(r)
  <2>1. \/ row'[r] = row[r]
        \/ row'[r] = Claimed(row[r])
        \/ row'[r] = [row[r] EXCEPT !.claim = "stale"]
        \/ row'[r] = [row[r] EXCEPT !.visible = "due"]
    BY SMTT(30), <1>0, <1>2 DEF Takes, Waits
  <2>2. /\ Claimed(row[r]).attempts = row[r].attempts
        /\ [row[r] EXCEPT !.claim = "stale"].attempts = row[r].attempts
        /\ [row[r] EXCEPT !.visible = "due"].attempts = row[r].attempts
    BY <1>0, OnlyFailCharges
  <2>3. row'[r].attempts = row[r].attempts
    BY ONLY Zenon, <2>1, <2>2
  <2>4. QED
    BY <1>1, <2>3
<1>3. ASSUME NEW cut \in SUBSET Row, CutsOff(cut) PROVE Charged(r)
  <2>1. row'[r].attempts = row[r].attempts
    BY SMTT(30), <1>0, <1>3, OnlyFailCharges DEF CutsOff
  <2>2. QED
    BY <1>1, <2>1
<1>4. ASSUME NEW w \in Job, Drops(w) PROVE Charged(r)
  <2>1. CASE held[w] # r
    <3>1. row'[r] = row[r]
      BY SMTT(30), <1>0, <1>4, <2>1 DEF Drops
    <3>2. QED
      BY SMTT(30), <1>1, <3>1
  <2>2. CASE held[w] = r
    <3>1. held'[w] = NoRow
      BY <1>0, <1>4 DEF Drops
    <3>2. \/ row'[r] = row[r]
          \/ row'[r] = Settled(row[r], job[w], pod[PodOf[w]] = "up")
          \/ job[w].pc # "returned" /\ row'[r] = Fail(row[r])
      BY SMTT(30), <1>0, <1>4, <2>2 DEF Drops
    <3>3. CASE row'[r] = Settled(row[r], job[w], pod[PodOf[w]] = "up")
      <4>1. \/ row'[r].attempts \in {0, row[r].attempts}
            \/ pod[PodOf[w]] = "up" /\ row'[r].attempts = row[r].attempts + 1
        <5> DEFINE new == Settled(row[r], job[w], pod[PodOf[w]] = "up")
        <5>1. \/ new.attempts \in {0, row[r].attempts}
              \/ pod[PodOf[w]] = "up" /\ new.attempts = row[r].attempts + 1
          BY ONLY ZenonT(60), <1>0, SettleCharges
        <5>2. QED
          BY ONLY Zenon, <3>3, <5>1
      <4>2. QED
        BY SMTT(30), <1>1, <2>2, <3>1, <4>1 DEF Charged
    <3>4. CASE job[w].pc # "returned" /\ row'[r] = Fail(row[r])
      <4>1. row'[r].attempts \in {row[r].attempts, row[r].attempts + 1}
        BY <1>0, <3>4, OnlyFailCharges
      <4>2. QED
        BY <1>1, <2>2, <3>1, <3>4, <4>1 DEF Charged
    <3>5. QED
      BY SMTT(30), <1>1, <3>2, <3>3, <3>4
  <2>3. QED
    BY <2>1, <2>2
<1>5. CASE Reaps
  <2>1. row'[r].attempts = row[r].attempts
    BY <1>0, <1>5, OnlyFailCharges DEF Reaps
  <2>2. QED
    BY <1>1, <2>1
<1>6. CASE Stands
  BY <1>1, <1>6 DEF Stands
<1>7. QED
  BY SMTT(30), <1>2, <1>3, <1>4, <1>5, <1>6 DEF RowMoves

\* However many pods roll over and whenever the signal comes, settle charges
\* no row for it.
THEOREM ShutdownsAreFree == Spec => ShutdownCostsNoAttempt
<1>1. Inv /\ ServiceInv /\ [Next]_vars =>
          [\A r \in Row : row'[r].attempts > row[r].attempts =>
              /\ row'[r].attempts = row[r].attempts + 1
              /\ \E w \in Job : /\ held[w] = r /\ held'[w] = NoRow
                                /\ pod[PodOf[w]] = "up" \/ job[w].pc # "returned"]_vars
  <2> SUFFICES ASSUME Inv, ServiceInv, [Next]_vars PROVE \A r \in Row : Charged(r)
    BY DEF Charged
  <2>1. RowMoves
    BY StepsMoveRows
  <2>2. QED
    BY SMTT(30), <2>1, StepsCharge DEF ServiceInv
<1>2. QED
  BY <1>1, ServiceInvariance, PTL DEF Spec, ShutdownCostsNoAttempt

-----------------------------------------------------------------------------
\* Exclusive claims.

\* A row that some worker holds is in progress under a young claim, and no
\* other worker holds it.
Exclusive ==
    /\ \A w \in Job : held[w] # NoRow =>
          row[held[w]].status = "in_progress" /\ row[held[w]].claim = "fresh"
    /\ \A v, w \in Job : held[v] = held[w] /\ held[v] # NoRow => v = w

\* A row under a young claim is neither claimable nor reaped, and waiting for
\* its time to come leaves the claim alone.
LEMMA FreshStays ==
    ASSUME NEW r \in OutboxRow, r.status = "in_progress", r.claim = "fresh"
    PROVE  /\ ~Claimable(r)
           /\ Reaped(r) = r
           /\ [r EXCEPT !.visible = "due"].status = "in_progress"
           /\ [r EXCEPT !.visible = "due"].claim = "fresh"
BY DEF Claimable, Reaped, Reapable, OutboxRow

\* Every step keeps it while claims outlive the workers' jobs.
LEMMA ExclusiveStep ==
    ASSUME LeaseRespected, ServiceTypes, Exclusive, RowMoves
    PROVE  Exclusive'
<1>0. /\ row \in [Row -> OutboxRow] /\ held \in [Job -> Row \cup {NoRow}]
      /\ NoRow \notin Row
  BY ServiceAssumption DEF ServiceTypes
<1>1. \A w \in Job : held[w] # NoRow =>
         /\ held[w] \in Row /\ ~Claimable(row[held[w]])
         /\ Reaped(row[held[w]]) = row[held[w]]
  BY SMTT(30), <1>0, FreshStays DEF Exclusive
<1>2. ASSUME \A w \in Job : held'[w] \in {held[w], NoRow},
             \A w \in Job : held'[w] # NoRow =>
                 row'[held[w]].status = "in_progress" /\ row'[held[w]].claim = "fresh"
      PROVE  Exclusive'
  BY SMTT(30), <1>2 DEF Exclusive
<1>3. ASSUME NEW r \in Row, Takes(r) PROVE Exclusive'
  <2>1. /\ row'[r].status = "in_progress" /\ row'[r].claim = "fresh"
        /\ \A q \in Row : q # r => row'[q] = row[q]
    BY SMTT(30), <1>0, <1>3 DEF Takes, Claimed, OutboxRow
  <2>2. \A w \in Job : held[w] # r
    BY SMTT(30), <1>0, <1>1, <1>3 DEF Takes
  <2>3. \A w \in Job : held[w] # NoRow =>
          row'[held[w]].status = "in_progress" /\ row'[held[w]].claim = "fresh"
    BY SMTT(30), <1>1, <2>1, <2>2 DEF Exclusive
  <2>4. CASE held' = held
    BY SMTT(30), <1>2, <2>3, <2>4
  <2>5. ASSUME NEW w \in Job, held' = [held EXCEPT ![w] = r] PROVE Exclusive'
    BY SMTT(30), <1>0, <2>1, <2>2, <2>3, <2>5 DEF Exclusive
  <2>6. QED
    BY SMTT(30), <1>3, <2>4, <2>5 DEF Takes
<1>4. ASSUME NEW cut \in SUBSET Row, CutsOff(cut) PROVE Exclusive'
  <2>1. \A w \in Job : held[w] # NoRow => row'[held[w]] = row[held[w]]
    BY SMTT(30), <1>1, <1>4 DEF CutsOff
  <2>2. QED
    BY SMTT(30), <1>2, <1>4, <2>1 DEF CutsOff, Exclusive
<1>5. ASSUME NEW w \in Job, Drops(w) PROVE Exclusive'
  <2>1. \A q \in Row : q # held[w] => row'[q] = row[q]
    BY SMTT(30), <1>0, <1>5 DEF Drops
  <2>2. \A v \in Job : held'[v] \in {held[v], NoRow} /\ held'[w] = NoRow
    BY SMTT(30), <1>0, <1>5 DEF Drops
  <2>3. \A v \in Job : held'[v] # NoRow => row'[held[v]] = row[held[v]]
    BY SMTT(30), <1>1, <2>1, <2>2 DEF Exclusive
  <2>4. QED
    BY SMTT(30), <1>2, <2>2, <2>3 DEF Exclusive
<1>6. ASSUME NEW r \in Row, Waits(r) PROVE Exclusive'
  <2>1. \A w \in Job : held[w] # NoRow =>
          row'[held[w]].status = "in_progress" /\ row'[held[w]].claim = "fresh"
    <3> SUFFICES ASSUME NEW w \in Job, held[w] # NoRow
                 PROVE  row'[held[w]].status = "in_progress" /\ row'[held[w]].claim = "fresh"
      OBVIOUS
    <3>1. /\ row[held[w]] \in OutboxRow /\ held[w] \in Row
          /\ row[held[w]].status = "in_progress" /\ row[held[w]].claim = "fresh"
      BY <1>0 DEF Exclusive
    <3>2. \/ row'[held[w]] = row[held[w]]
          \/ row'[held[w]] = [row[held[w]] EXCEPT !.visible = "due"]
      BY SMTT(30), <1>0, <1>6, <3>1 DEF Waits
    <3>3. QED
      BY ZenonT(30), <3>1, <3>2, FreshStays
  <2>2. QED
    BY SMTT(30), <1>2, <1>6, <2>1 DEF Waits
<1>7. CASE Reaps
  <2>1. \A w \in Job : held[w] # NoRow => row'[held[w]] = row[held[w]]
    BY SMTT(30), <1>1, <1>7 DEF Reaps
  <2>2. QED
    BY SMTT(30), <1>2, <1>7, <2>1 DEF Reaps, Exclusive
<1>8. CASE Stands
  BY SMTT(30), <1>2, <1>8 DEF Stands, Exclusive
<1>9. QED
  BY SMTT(30), <1>3, <1>4, <1>5, <1>6, <1>7, <1>8 DEF RowMoves

\* While no claim outlives staleTTL under its worker, no two workers of any
\* pods ever process one row (claimSQL, ReapStale).
THEOREM ClaimsAreExclusive == Spec => []ExclusiveClaim
<1>1. Init => (LeaseRespected => Exclusive)
  <2>1. Init => \A w \in Job : held[w] = NoRow
    BY DEF Init
  <2>2. QED
    BY <2>1 DEF Exclusive
<1>2. /\ Inv /\ ServiceInv /\ (LeaseRespected => Exclusive) /\ [Next]_vars
      => (LeaseRespected => Exclusive)'
  <2> SUFFICES ASSUME Inv, ServiceInv, LeaseRespected, Exclusive, [Next]_vars
               PROVE  Exclusive'
    BY ServiceAssumption
  <2>1. RowMoves
    BY StepsMoveRows
  <2>2. QED
    BY <2>1, ExclusiveStep DEF ServiceInv
<1>3. (LeaseRespected => Exclusive) => ExclusiveClaim
  BY DEF Exclusive, ExclusiveClaim
<1>4. QED
  BY <1>1, <1>2, <1>3, ServiceInvariance, PTL DEF Spec
=============================================================================
