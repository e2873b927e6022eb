------------------------------- MODULE Fanout -------------------------------
(***************************************************************************)
(* Pipeline.fanOut and fanoutWriter (internal/domain/backup.go): one       *)
(* goroutine reads the source and hands each chunk to a pump goroutine per *)
(* target; a pump writes it into an unbuffered pipe that the target's      *)
(* Store reads; the next chunk is read when every pump has signalled.      *)
(* After the last chunk the pipes are closed, with end of file only if the *)
(* hash was verified.  A Store runs in a goroutine of its own that is      *)
(* abandoned when the target's context ends: when the object's context     *)
(* ends, or when the target is dropped because it stalled.                 *)
(*                                                                         *)
(* Healthy targets drain every chunk within the stall timeout and do not   *)
(* fail.  The others may fail at any step, stop taking steps, and go on    *)
(* later, even after they were abandoned.                                  *)
(***************************************************************************)
EXTENDS Integers, FiniteSets

CONSTANTS Target, MaxChunks

ASSUME FanoutAssumption ==
    /\ Target # {}
    /\ MaxChunks \in Nat

VARIABLES
    src,        \* how many chunks the source has and how it ends
    healthy,    \* the healthy targets
    copy,       \* the copying goroutine: pc, chunks read, end seen, copyErr
    pump,       \* target -> "parked", "writing", "wrote" or "exited"
    dead,       \* targets whose pump saw a write error
    waiting,    \* targets dispatched and not yet collected (pending[i])
    signals,    \* the content of the done channel
    fired,      \* the stall timer fired for this chunk
    raced,      \* healthy targets dropped between write and signal (history)
    reader,     \* targets whose pipe reader is open
    writer,     \* target -> "open", "eof" or "err"
    live,       \* targets whose store context is live
    store,      \* target -> the inner Store goroutine
    got,        \* target -> chunks that it consumed
    committed,  \* targets that durably hold the object
    res,        \* target -> what storeWithCtx returned
    ctx         \* the object's context is live

given == <<src, healthy>>
copyVars == <<given, copy, dead, waiting, signals, fired, raced>>
storeVars == <<store, got, committed>>
vars == <<copyVars, pump, reader, writer, live, storeVars, res, ctx>>

TypeOK ==
    /\ src \in [chunks : 0..MaxChunks, end : {"good", "corrupt", "broken"}]
    /\ healthy \in SUBSET Target
    /\ copy \in [pc : {"read", "dispatch", "collect", "close", "wait", "returned"},
                 chunk : 0..MaxChunks, end : {"none", "eof", "err"},
                 err : {"nil", "closed", "source"}]
    /\ pump \in [Target -> {"parked", "writing", "wrote", "exited"}]
    /\ dead \subseteq Target /\ waiting \subseteq Target /\ signals \subseteq Target
    /\ raced \subseteq healthy /\ fired \in BOOLEAN /\ ctx \in BOOLEAN
    /\ reader \subseteq Target /\ live \subseteq Target /\ committed \subseteq Target
    /\ writer \in [Target -> {"open", "eof", "err"}]
    /\ store \in [Target -> {"reading", "finalizing", "ok", "short", "failed"}]
    /\ got \in [Target -> 0..MaxChunks]
    /\ res \in [Target -> {"none", "ok", "short", "err"}]

Init ==
    /\ src \in [chunks : 0..MaxChunks, end : {"good", "corrupt", "broken"}]
    /\ healthy \in SUBSET Target
    /\ copy = [pc |-> "read", chunk |-> 0, end |-> "none", err |-> "nil"]
    /\ pump = [t \in Target |-> "parked"]
    /\ dead = {} /\ waiting = {} /\ signals = {} /\ fired = FALSE /\ raced = {}
    /\ reader = Target
    /\ writer = [t \in Target |-> "open"]
    /\ live = Target
    /\ store = [t \in Target |-> "reading"]
    /\ got = [t \in Target |-> 0]
    /\ committed = {}
    /\ res = [t \in Target |-> "none"]
    /\ ctx = TRUE

-----------------------------------------------------------------------------
\* The copying goroutine: fanoutCopy, fanoutWriter.Write and collect.

\* What VerifyReader reports once the source has ended.
EndOf == IF src.end = "good" THEN "eof" ELSE "err"

\* Leave fanoutCopy with copyErr = e.
Stop(e) ==
    /\ copy' = [copy EXCEPT !.pc = "close", !.err = e]
    /\ UNCHANGED <<given, dead, waiting, signals, fired, raced,
                   pump, reader, writer, live, storeVars, res, ctx>>

\* io.ReadFull returns bytes; the last ones may come together with the end of
\* the stream, which is looked at after they have been written.
ReadChunk ==
    /\ copy.pc = "read" /\ copy.end = "none" /\ copy.chunk < src.chunks
    /\ \E e \in {"none"} \cup (IF copy.chunk + 1 = src.chunks THEN {EndOf} ELSE {}) :
          copy' = [copy EXCEPT !.pc = "dispatch", !.chunk = @ + 1, !.end = e]
    /\ UNCHANGED <<given, dead, waiting, signals, fired, raced,
                   pump, reader, writer, live, storeVars, res, ctx>>

\* The stream ends: verified, or an integrity error or read error (or panic).
\* A read on an ended context fails.
ReadEnd ==
    /\ copy.pc = "read"
    /\ \/ copy.end # "none" /\ Stop(IF copy.end = "eof" THEN "nil" ELSE "source")
       \/ /\ copy.end = "none" /\ copy.chunk = src.chunks
          /\ Stop(IF EndOf = "eof" THEN "nil" ELSE "source")
       \/ /\ copy.end = "none"
          /\ src.end = "broken" \/ ~ctx
          /\ Stop("source")

\* Write hands the chunk to every pump that is not dead.
Dispatch ==
    /\ copy.pc = "dispatch"
    /\ \A t \in Target \ dead : pump[t] = "parked"
    /\ pump' = [t \in Target |-> IF t \in dead THEN pump[t] ELSE "writing"]
    /\ waiting' = Target \ dead
    /\ fired' = FALSE
    /\ copy' = [copy EXCEPT !.pc = "collect"]
    /\ UNCHANGED <<given, dead, signals, raced, reader, writer, live, storeVars, res, ctx>>

Collect(t) ==
    /\ copy.pc = "collect" /\ t \in signals
    /\ signals' = signals \ {t}
    /\ waiting' = waiting \ {t}
    /\ UNCHANGED <<given, copy, dead, fired, raced, pump, reader, writer, live, storeVars, res, ctx>>

\* The stall timer may fire for this chunk: a healthy target has drained it by
\* then, but its pump may not have sent its signal yet.
StallDue ==
    /\ copy.pc = "collect" /\ waiting # {} /\ ~fired
    /\ \A t \in healthy \cap reader : pump[t] # "writing"

\* A bug of collect: the drop also hits targets that signalled in time.
StallDropsSignalled ==
    /\ StallDue
    /\ waiting' = waiting \ signals /\ signals' = {}
    /\ fired' = TRUE
    /\ raced' = raced \cup ((waiting \ signals) \cap healthy)
    /\ reader' = reader \ waiting
    /\ live' = live \ waiting
    /\ UNCHANGED <<given, copy, dead, pump, writer, storeVars, res, ctx>>

\* A bug of collect: the timer fires and nothing is dropped.
StallDropsNothing ==
    /\ StallDue
    /\ waiting' = waiting \ signals /\ signals' = {}
    /\ fired' = TRUE
    /\ UNCHANGED <<given, copy, dead, raced, pump, reader, writer, live, storeVars, res, ctx>>

\* The stall timer fires, once per chunk: collect what has been signalled,
\* then drop every target still waited for (close its reader, cancel its
\* store), also a healthy one whose signal is about to be sent.
Stall ==
    LET late == waiting \ signals
    IN  /\ StallDue
        /\ waiting' = late /\ signals' = {}
        /\ fired' = TRUE
        /\ raced' = raced \cup (late \cap healthy)
        /\ reader' = reader \ late
        /\ live' = live \ late
        /\ UNCHANGED <<given, copy, dead, pump, writer, storeVars, res, ctx>>

\* A bug of collect: it does not wait for the pumps it has just dropped.
WrittenAfterStall ==
    /\ copy.pc = "collect" /\ (waiting = {} \/ fired)
    /\ copy' = IF dead = Target
               THEN [copy EXCEPT !.pc = "close", !.err = "closed"]
               ELSE [copy EXCEPT !.pc = "read"]
    /\ UNCHANGED <<given, dead, waiting, signals, fired, raced,
                   pump, reader, writer, live, storeVars, res, ctx>>

\* Every pump has finished the chunk; Write fails if every target is gone.
Written ==
    /\ copy.pc = "collect" /\ waiting = {}
    /\ copy' = IF dead = Target
               THEN [copy EXCEPT !.pc = "close", !.err = "closed"]
               ELSE [copy EXCEPT !.pc = "read"]
    /\ UNCHANGED <<given, dead, waiting, signals, fired, raced,
                   pump, reader, writer, live, storeVars, res, ctx>>

\* A bug of fanOut: the pipes are closed without copyErr, as by Close().
CloseAlwaysEOF ==
    /\ copy.pc = "close" /\ \A t \in Target : pump[t] = "parked"
    /\ pump' = [t \in Target |-> "exited"]
    /\ writer' = [t \in Target |-> "eof"]
    /\ copy' = [copy EXCEPT !.pc = "wait"]
    /\ UNCHANGED <<given, dead, waiting, signals, fired, raced, reader, live, storeVars, res, ctx>>

\* fw.close stops the pumps, and then every pipe is closed with copyErr: only a
\* verified stream ends in end of file.
Close ==
    /\ copy.pc = "close" /\ \A t \in Target : pump[t] = "parked"
    /\ pump' = [t \in Target |-> "exited"]
    /\ writer' = [t \in Target |-> IF copy.err = "nil" THEN "eof" ELSE "err"]
    /\ copy' = [copy EXCEPT !.pc = "wait"]
    /\ UNCHANGED <<given, dead, waiting, signals, fired, raced, reader, live, storeVars, res, ctx>>

\* wg.Wait: every storeWithCtx has returned.
Return ==
    /\ copy.pc = "wait" /\ \A t \in Target : res[t] # "none"
    /\ copy' = [copy EXCEPT !.pc = "returned"]
    /\ UNCHANGED <<given, dead, waiting, signals, fired, raced,
                   pump, reader, writer, live, storeVars, res, ctx>>

-----------------------------------------------------------------------------
\* The pumps.

\* The reader is closed: the write fails.
PumpFails(t) ==
    /\ pump[t] = "writing" /\ t \notin reader
    /\ dead' = dead \cup {t}
    /\ pump' = [pump EXCEPT ![t] = "wrote"]
    /\ UNCHANGED <<given, copy, waiting, signals, fired, raced,
                   reader, writer, live, storeVars, res, ctx>>

PumpSignals(t) ==
    /\ pump[t] = "wrote"
    /\ pump' = [pump EXCEPT ![t] = "parked"]
    /\ signals' = signals \cup {t}
    /\ UNCHANGED <<given, copy, dead, waiting, fired, raced,
                   reader, writer, live, storeVars, res, ctx>>

-----------------------------------------------------------------------------
\* The Store goroutines: a sink reads its stream to the end, then commits.

\* The store takes the chunk that its pump is writing.
StoreReads(t) ==
    /\ store[t] = "reading" /\ t \in reader /\ pump[t] = "writing"
    /\ got' = [got EXCEPT ![t] = @ + 1]
    /\ pump' = [pump EXCEPT ![t] = "wrote"]
    /\ UNCHANGED <<copyVars, reader, writer, live, store, committed, res, ctx>>

StoreSees(t, st) ==
    /\ store' = [store EXCEPT ![t] = st]
    /\ UNCHANGED <<copyVars, pump, reader, writer, live, got, committed, res, ctx>>

StoreEOF(t) ==
    /\ store[t] = "reading" /\ t \in reader /\ writer[t] = "eof"
    /\ StoreSees(t, "finalizing")

\* The pipe ended in an error, or was closed under the store.
StoreCut(t) ==
    /\ store[t] = "reading" /\ (t \notin reader \/ writer[t] = "err")
    /\ StoreSees(t, "failed")

\* A sink that is not healthy fails, or claims success without having read its
\* stream to the end.
StoreBreaks(t) ==
    /\ t \notin healthy
    /\ \/ store[t] \in {"reading", "finalizing"} /\ StoreSees(t, "failed")
       \/ store[t] = "reading" /\ StoreSees(t, "short")

\* The object becomes visible, possibly long after the store was abandoned; a
\* sink that is not healthy may still report an error.
StoreCommits(t) ==
    /\ store[t] = "finalizing"
    /\ committed' = committed \cup {t}
    /\ \E st \in {"ok"} \cup (IF t \in healthy THEN {} ELSE {"failed"}) :
          store' = [store EXCEPT ![t] = st]
    /\ UNCHANGED <<copyVars, pump, reader, writer, live, got, res, ctx>>

\* A cancelled filesystem write is refused at the commit gate.
StoreRefused(t) ==
    /\ store[t] = "finalizing" /\ t \notin live
    /\ StoreSees(t, "failed")

\* A bug of storeWithCtx: it waits for the store even when the context ended.
StoreReturnsPatiently(t) ==
    /\ res[t] = "none"
    /\ \/ store[t] = "ok" /\ res' = [res EXCEPT ![t] = "ok"]
       \/ store[t] = "short" /\ res' = [res EXCEPT ![t] = "short"]
       \/ store[t] = "failed" /\ res' = [res EXCEPT ![t] = "err"]
    /\ reader' = reader \ {t}
    /\ UNCHANGED <<copyVars, pump, writer, live, storeVars, ctx>>

\* storeWithCtx returns the store's result, or abandons it, and the target's
\* goroutine closes the pipe reader.
StoreReturns(t) ==
    /\ res[t] = "none"
    /\ \/ store[t] = "ok" /\ res' = [res EXCEPT ![t] = "ok"]
       \/ store[t] = "short" /\ res' = [res EXCEPT ![t] = "short"]
       \/ /\ store[t] = "failed" \/ t \notin live
          /\ res' = [res EXCEPT ![t] = "err"]
    /\ reader' = reader \ {t}
    /\ UNCHANGED <<copyVars, pump, writer, live, storeVars, ctx>>

\* The object's context ends, and with it every target's.
ContextEnds ==
    /\ ctx /\ copy.pc # "returned"
    /\ ctx' = FALSE
    /\ live' = {}
    /\ UNCHANGED <<copyVars, pump, reader, writer, storeVars, res>>

CopyStep ==
    \/ ReadChunk \/ ReadEnd \/ Dispatch \/ Written \/ Close \/ Return
    \/ \E t \in Target : Collect(t)

PumpStep(t) == PumpFails(t) \/ PumpSignals(t)

StoreStep(t) == StoreReads(t) \/ StoreEOF(t) \/ StoreCut(t) \/ StoreCommits(t)

\* fanOut has returned; stores that were abandoned may still be running.
Finished == copy.pc = "returned" /\ UNCHANGED vars

Next ==
    \/ CopyStep \/ Stall \/ ContextEnds \/ Finished
    \/ \E t \in Target : \/ PumpStep(t) \/ StoreStep(t) \/ StoreReturns(t)
                         \/ StoreBreaks(t) \/ StoreRefused(t)

Spec == Init /\ [][Next]_vars

\* The goroutines of this process run, and so do the stores of healthy targets;
\* the timer fires.
FairSpec ==
    /\ Spec
    /\ WF_vars(CopyStep) /\ WF_vars(Stall)
    /\ \A t \in Target : WF_vars(PumpStep(t)) /\ WF_vars(StoreReturns(t))
    /\ \A t \in Target : WF_vars(t \in healthy /\ StoreStep(t))

-----------------------------------------------------------------------------
\* A bug of fanOut: success is believed without the sawEOF check.
OkUnchecked(t) == res[t] \in {"ok", "short"}

\* The result that fanOut reports for a target: success without having read
\* the stream to its end is turned into errAbortedBeforeEOF.
Ok(t) == res[t] = "ok"

\* Commit is gated on verification: a target ever holds the object only if the
\* source delivered it whole, with the right hash, and the target consumed all
\* of it; in particular nothing is committed for a corrupt or broken source,
\* nor once all pipes died, also by stores that finish after being abandoned.
CommitIsComplete ==
    \A t \in committed :
        /\ src.end = "good" /\ copy.err = "nil"
        /\ got[t] = src.chunks

\* A target that fanOut reports as stored holds the object: neither a sink that
\* returned early nor one that was dropped is reported as stored.
OkIsCommitted ==
    copy.pc = "returned" => \A t \in Target : Ok(t) => t \in committed

\* The one shared buffer is not filled again while a pump may still be writing
\* from it, although stalled pumps are dropped in the middle of a chunk
\* (collect waits for the forced completions too).
BufferNotReused ==
    copy.pc \in {"read", "close"} => \A t \in Target : pump[t] = "parked"

\* One bad target cannot fail another: unless the source is bad or the object
\* is aborted, every healthy target ends up stored, whatever the others do,
\* except one that the stall timer caught between its last byte and its signal
\* (the "spurious drop of a healthy target right at the stall boundary" that
\* collect accepts); and such a target is failed alone, with nothing committed.
Isolation ==
    copy.pc = "returned" /\ ctx /\ src.end = "good" =>
        \A t \in healthy : IF t \in raced THEN ~Ok(t) /\ t \notin committed ELSE Ok(t)

\* A hung target does not block the barrier: every chunk is eventually done
\* with, without waiting for the object's deadline (stall-drop).
BarrierReleases == copy.pc = "collect" ~> copy.pc # "collect"

\* With a deadline on the object fanOut returns, whatever its targets do: the
\* pumps, the pipes and wg.Wait never wait for each other for ever.
Returns == WF_vars(ContextEnds) => <>(copy.pc = "returned")
=============================================================================
