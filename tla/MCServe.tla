------------------------------ MODULE MCServe -------------------------------
(***************************************************************************)
(* A disk and an off-site S3 target; every command; configurations on both *)
(* sides of each limit.  Seconds are counted so that a 32-bit product can  *)
(* pass MaxInt64: 1100000 s is a duration that wraps around.               *)
(***************************************************************************)
EXTENDS Serve

MCName == {"disk", "Disk", "safe", ""}
MCToken == [disk |-> "DISK", Disk |-> "DISK", safe |-> "SAFE"] @@ ("" :> "")
MCProperName == MCName \ {""}

Disk == [Bare("disk") EXCEPT !.type = "filesystem", !.place = TRUE]
Safe(a) == [name |-> "safe", type |-> "s3", place |-> TRUE, keys |-> TRUE, audit |-> a,
            secure |-> TRUE, codec |-> TRUE, worm |-> TRUE]
Unset == [k \in Knob |-> 0]
NoOverlay == [t \in {"DISK", "SAFE", ""} |-> <<>>]

File(ts) == [read |-> "ok", base |-> TRUE, alkemio |-> [parts |-> TRUE, port |-> 0],
             ledger |-> [parts |-> TRUE, port |-> 0], knobs |-> Unset, targets |-> ts]
Env(ks, list, o) == [malformed |-> FALSE, knobs |-> ks, list |-> list, targets |-> o]
NoEnv == Env(<<>>, <<>>, NoOverlay)
Start(cmd, from, f, e, b, tr) ==
    [cmd |-> cmd, from |-> from, file |-> f, env |-> e, bad |-> b, tracked |-> tr]
Run(cmd, from, f, e) == Start(cmd, from, f, e, <<>>, {})

Reading == {"drill", "restore all", "restore"}

\* Good configurations, the service with each sort of WORM target, and what
\* may be in trouble from the start.
Both(d, x, e, y) == (d :> x) @@ (e :> y)
Troubles == {<<>>, Both("disk", "down", "safe", "hung"), Both("disk", "hung", "safe", "down")}
            \cup {d :> x : d \in {"file-service", "alkemio", "ledger", "disk", "safe"},
                          x \in {"down", "hung"}}
            \cup {"port" :> "down", "scratch" :> "down", "scratch" :> "hung"}
Pairs == {{"rpo", "health"}, {"coverage", "immutability"}, {"manifest", "immutability"}}
Good == {Start(c, "", File(<<Disk, Safe("both")>>), NoEnv, b, {}) : c \in Command, b \in Troubles}
        \cup {Start("serve", "", File(<<Disk, Safe("both")>>), NoEnv, <<>>, F) : F \in Pairs}
        \cup {Start("serve", "", File(<<Disk, Safe("both")>>), NoEnv, "disk" :> "hung",
                    {"manifest", "immutability"})}
        \cup {Start("serve", "", File(ts), NoEnv, <<>>, {"immutability"}) :
                ts \in {<<Disk, Safe("none")>>, <<[Disk EXCEPT !.worm = TRUE]>>}}

\* One knob set by the environment.
Settings == {"staleTTL" :> 1816, "staleTTL" :> 1830, "staleTTL" :> 1831, "stall" :> 1800,
             "dbTimeout" :> 14, "dbTimeout" :> 15, "dbTimeout" :> 1100000,
             "perObject" :> 1100000, "perObject" :> 60, "threshold" :> 10, "threshold" :> 9,
             "threshold" :> -1, "concurrency" :> 1025, "concurrency" :> -5, "port" :> 65536,
             "maxAttempts" :> 1001, "maxDeliveries" :> 1001}
Tuned == {Run(c, "disk", File(<<Disk>>), Env(s, <<>>, NoOverlay)) :
            c \in {"audit", "restore"}, s \in Settings}

\* Targets that are incomplete, collide, or are given by the environment.
Lists == {<<"disk", "safe", "disk">>, <<"Disk">>, <<"safe">>, <<"", "safe", "disk">>, <<"">>,
          <<"disk", "Disk">>}
Shelves == {<<>>, <<Disk, Bare("safe")>>, <<Safe("half"), Disk>>, <<Safe("none")>>,
            <<[Disk EXCEPT !.name = ""]>>, <<Disk, [Disk EXCEPT !.name = "Disk"]>>,
            <<[Disk EXCEPT !.codec = FALSE], Safe("both")>>}
Targeted == {Run(c, fr, File(ts), NoEnv) : c \in Reading \cup {"audit"}, fr \in {"", "disk", "safe"},
                                           ts \in Shelves}
            \cup {Run(c, "", File(<<Disk>>), Env(<<>>, ls, o)) : c \in {"restore", "audit"},
                    ls \in Lists, o \in {NoOverlay, [NoOverlay EXCEPT !["SAFE"] = Safe("both")]}}

\* Configurations that cannot be loaded, or lack a part.
Broken == {Run(c, "", f, NoEnv) : c \in {"backfill", "audit"},
             f \in {[File(<<Disk>>) EXCEPT !.read = "bad"], [File(<<>>) EXCEPT !.read = "absent"],
                    [File(<<Disk>>) EXCEPT !.base = FALSE],
                    [File(<<Disk>>) EXCEPT !.ledger.parts = FALSE],
                    [File(<<Disk>>) EXCEPT !.alkemio.port = 65536]}}
          \cup {Run("audit", "", File(<<Disk>>), [NoEnv EXCEPT !.malformed = TRUE])}

MCInputs == Good \cup Tuned \cup Targeted \cup Broken
=============================================================================
