----------------------------- MODULE WakeCascade -----------------------------
(***************************************************************************)
(* How the workers of one process learn that there are rows to claim       *)
(* (internal/adapter/inbound/consumer): the wake channel of capacity one,  *)
(* which listen, poll and every successful claim signal without blocking,  *)
(* and which a worker waits on after it has found the outbox empty.        *)
(*                                                                         *)
(* A claim locks the row it picks and skips the rows that others have      *)
(* locked, so a worker can find the outbox empty because of a claim that   *)
(* fails a moment later.  NOTIFY is sent for a row that is inserted; a row *)
(* that becomes visible again, or is reaped, comes without one.            *)
(***************************************************************************)
EXTENDS Integers

CONSTANTS
    Worker, Row,
    NoRow,
    MaxErrors   \* bound: how often a claim fails or its answer is lost

ASSUME WakeAssumption == NoRow \notin Row /\ MaxErrors \in Nat

VARIABLES
    row,        \* row -> what a claim sees of it
    announced,  \* rows whose NOTIFY reached this process's connection (history)
    notices,    \* notifications that WaitForNotification has yet to return
    listening,  \* LISTEN is in force on a connection
    wake,       \* how many tokens the wake channel holds
    at,         \* worker -> where it is in its loop
    held,       \* worker -> the row its claim has locked or that it processes
    errors,     \* claims that went wrong so far
    up          \* the consumer's context is live

vars == <<row, announced, notices, listening, wake, at, held, errors, up>>

TypeOK ==
    /\ row \in [Row -> {"absent", "pending", "hidden", "in_progress", "settled"}]
    /\ announced \subseteq Row /\ notices \subseteq announced
    /\ listening \in BOOLEAN /\ wake \in 0..1 /\ up \in BOOLEAN
    /\ at \in [Worker -> {"claim", "locked", "claimed", "process", "wait",
                          "backoff", "exited"}]
    /\ held \in [Worker -> Row \cup {NoRow}]
    /\ errors \in 0..MaxErrors

Init ==
    /\ row \in [Row -> {"absent", "pending"}]
    /\ announced = {} /\ notices = {} /\ listening = FALSE
    /\ wake = 0 /\ up = TRUE /\ errors = 0
    /\ at = [w \in Worker |-> "claim"]
    /\ held = [w \in Worker |-> NoRow]

-----------------------------------------------------------------------------
\* The database's side.

Held == {held[w] : w \in Worker}

\* The server inserts a row and notifies.
Insert(r) ==
    /\ row[r] = "absent"
    /\ row' = [row EXCEPT ![r] = "pending"]
    /\ announced' = IF listening THEN announced \cup {r} ELSE announced
    /\ notices' = IF listening THEN notices \cup {r} ELSE notices
    /\ UNCHANGED <<listening, wake, at, held, errors, up>>

\* visibleAt passes; or the reaper takes back a row whose claim was lost.
Reappear(r) ==
    /\ row[r] = "hidden" \/ (row[r] = "in_progress" /\ r \notin Held)
    /\ row' = [row EXCEPT ![r] = "pending"]
    /\ announced' = announced \ {r} /\ notices' = notices \ {r}
    /\ UNCHANGED <<listening, wake, at, held, errors, up>>

-----------------------------------------------------------------------------
\* The signallers.

\* signal: a send that never blocks, lost if the channel is full.
Signal == wake' = 1

\* listen: WaitForNotification returns.
Notified(r) ==
    /\ up /\ r \in notices
    /\ notices' = notices \ {r}
    /\ Signal
    /\ UNCHANGED <<row, announced, listening, at, held, errors, up>>

\* listen: the connection breaks, with the notifications it had for us.
ListenLost ==
    /\ listening
    /\ listening' = FALSE
    /\ announced' = announced \ notices /\ notices' = {}
    /\ UNCHANGED <<row, wake, at, held, errors, up>>

Listen ==
    /\ up /\ ~listening
    /\ listening' = TRUE
    /\ UNCHANGED <<row, announced, notices, wake, at, held, errors, up>>

\* A bug of poll: it leaves the work to listen while that has a connection.
PollUnlessListening ==
    /\ up /\ ~listening
    /\ Signal
    /\ UNCHANGED <<row, announced, notices, listening, at, held, errors, up>>

\* poll: a tick of its TickLoop.
Poll ==
    /\ up
    /\ Signal
    /\ UNCHANGED <<row, announced, notices, listening, at, held, errors, up>>

-----------------------------------------------------------------------------
\* worker and claimStep.

Goes(w, place) == at' = [at EXCEPT ![w] = place]

Lockable == {r \in Row : row[r] = "pending" /\ r \notin Held}

\* The claim statement picks and locks a row, or finds none.
Pick(w) ==
    /\ up /\ at[w] = "claim"
    /\ \/ \E r \in Lockable : held' = [held EXCEPT ![w] = r] /\ Goes(w, "locked")
       \/ Lockable = {} /\ Goes(w, "wait") /\ UNCHANGED held
    /\ UNCHANGED <<row, announced, notices, listening, wake, errors, up>>

\* The claim is committed, and its answer arrives.
Commit(w) ==
    /\ at[w] = "locked"
    /\ row' = [row EXCEPT ![held[w]] = "in_progress"]
    /\ Goes(w, "claimed")
    /\ UNCHANGED <<announced, notices, listening, wake, held, errors, up>>

\* The claim fails, or is committed and its answer is lost; shutdown cuts it
\* off in the same two ways.  The worker backs off before it claims again.
ClaimError(w) ==
    /\ at[w] = "locked"
    /\ \/ errors < MaxErrors /\ errors' = errors + 1
       \/ ~up /\ UNCHANGED errors
    /\ row' \in {row, [row EXCEPT ![held[w]] = "in_progress"]}
    /\ held' = [held EXCEPT ![w] = NoRow]
    /\ Goes(w, "backoff")
    /\ UNCHANGED <<announced, notices, listening, wake, up>>

\* A bug of claimStep: a successful claim does not wake a sibling.
CascadeSilently(w) ==
    /\ at[w] = "claimed"
    /\ Goes(w, "process")
    /\ UNCHANGED <<row, announced, notices, listening, wake, held, errors, up>>

\* claimStep wakes a sibling and starts process.
Cascade(w) ==
    /\ at[w] = "claimed"
    /\ Signal
    /\ Goes(w, "process")
    /\ UNCHANGED <<row, announced, notices, listening, held, errors, up>>

\* process has settled the row, terminally, for later (Fail, Defer) or, at
\* shutdown, for any other process at once (Release).
Settle(w) ==
    /\ at[w] = "process"
    /\ \E s \in {"settled", "hidden"} \cup (IF up THEN {} ELSE {"pending"}) :
          row' = [row EXCEPT ![held[w]] = s]
    /\ held' = [held EXCEPT ![w] = NoRow]
    /\ Goes(w, "claim")
    /\ UNCHANGED <<announced, notices, listening, wake, errors, up>>

BackoffEnds(w) ==
    /\ at[w] = "backoff"
    /\ Goes(w, "claim")
    /\ UNCHANGED <<row, announced, notices, listening, wake, held, errors, up>>

\* The worker takes the token and claims again.
Wake(w) ==
    /\ at[w] = "wait" /\ wake = 1
    /\ wake' = 0
    /\ Goes(w, "claim")
    /\ UNCHANGED <<row, announced, notices, listening, held, errors, up>>

\* A bug of worker: while it waits it does not look at its context.
ExitsBetweenClaims(w) ==
    /\ ~up /\ at[w] = "claim"
    /\ Goes(w, "exited")
    /\ UNCHANGED <<row, announced, notices, listening, wake, held, errors, up>>

\* The context has ended: the loop guard, or the select that waits.
Exits(w) ==
    /\ ~up /\ at[w] \in {"claim", "wait"}
    /\ Goes(w, "exited")
    /\ UNCHANGED <<row, announced, notices, listening, wake, held, errors, up>>

Shutdown ==
    /\ up
    /\ up' = FALSE
    /\ UNCHANGED <<row, announced, notices, listening, wake, at, held, errors>>

\* The process is gone, or about to go.
Stopped == ~up /\ UNCHANGED vars

WorkerStep(w) ==
    \/ Pick(w) \/ Commit(w) \/ Cascade(w) \/ Settle(w) \/ BackoffEnds(w)
    \/ Wake(w) \/ Exits(w)

Next ==
    \/ \E w \in Worker : WorkerStep(w) \/ ClaimError(w)
    \/ \E r \in Row : Insert(r) \/ Reappear(r) \/ Notified(r)
    \/ ListenLost \/ Listen \/ Poll \/ Shutdown \/ Stopped

Spec == Init /\ [][Next]_vars

\* Goroutines that can go on do so, and the tickers of poll and of the reaper
\* tick.  Nothing is assumed of the notifications.
FairSpec ==
    /\ Spec
    /\ WF_vars(Poll)
    /\ \A r \in Row : WF_vars(Reappear(r))
    /\ \A w \in Worker : WF_vars(WorkerStep(w))

-----------------------------------------------------------------------------
\* No wakeup is lost: while a row waits whose NOTIFY arrived, and a worker is
\* free, then the token, a notification or a worker that is about to claim is
\* on its way to that row, without any help from the poll ticker; signals that
\* were coalesced in a burst are made up for by the cascade (claimStep).
NoLostWakeup ==
    /\ up
    /\ \E r \in announced : row[r] = "pending" /\ r \notin Held
    /\ \E w \in Worker : at[w] = "wait"
    => \/ wake = 1 \/ notices # {}
       \/ \E w \in Worker : at[w] \in {"claim", "locked", "claimed", "backoff"}

\* "the polling floor and the durable outbox guarantee progress even if
\* notifications are missed" (listen): when a row can be claimed, some worker
\* gets to process a row, unless the process shuts down.
PollingIsEnough ==
    (\E r \in Row : row[r] = "pending") ~>
        (~up \/ \E w \in Worker : at[w] = "process")

\* Run "blocks until every one returns on ctx cancellation": after a shutdown
\* every worker exits, wherever it was.
Drains == ~up ~> \A w \in Worker : at[w] = "exited"
=============================================================================
