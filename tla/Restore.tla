------------------------------ MODULE Restore -------------------------------
(***************************************************************************)
(* Reading an object back from a target (internal/domain/restore.go): the  *)
(* hash-arbiter that tells a compressed object from a raw one, and the     *)
(* restore of one object to a directory.  Operators only: module Sweep     *)
(* runs them.                                                              *)
(*                                                                         *)
(* What a target holds under a content hash is abstracted to its form:     *)
(*   "raw"       the plaintext                                             *)
(*   "rawMagic"  the plaintext, which itself begins with the zstd magic    *)
(*   "zstd"      the plaintext, compressed                                 *)
(*   "bad"       other bytes, without the magic                            *)
(*   "badMagic"  other bytes, with the magic                               *)
(* (an object beyond the size cap is among the bad ones: both fail the     *)
(* same checks).  What a decode has written to its destination is a        *)
(* sequence of pieces: "plain" for the plaintext, "junk" for other bytes.  *)
(*                                                                         *)
(* A plan says which of its operations fail: the first and the second      *)
(* reading of the source ("ok", "fetch" or "read"), and the writing of     *)
(* each pass ("disk" or "ok").                                             *)
(***************************************************************************)
EXTENDS Sequences, Integers

HasMagic(form) == form \in {"rawMagic", "zstd", "badMagic"}

\* The copy is good: a decode that meets no fault yields the plaintext.
Intact(form) == form \in {"raw", "rawMagic", "zstd"}

NoFault == [first |-> "ok", second |-> "ok", disk1 |-> "ok", disk2 |-> "ok"]

\* The plans in which at most one operation fails.
Plan == {NoFault} \cup
        {[NoFault EXCEPT !.first = f] : f \in {"fetch", "read"}} \cup
        {[NoFault EXCEPT !.second = f] : f \in {"fetch", "read"}} \cup
        {[NoFault EXCEPT !.disk1 = "disk"], [NoFault EXCEPT !.disk2 = "disk"]}

-----------------------------------------------------------------------------
\* decodeRaw: copy, then compare the hash of what was copied.
DecodeRaw(form, read, disk) ==
    CASE read # "ok" \/ disk # "ok" -> [err |-> "io", out |-> <<"junk">>]
      [] form \in {"raw", "rawMagic"} -> [err |-> "nil", out |-> <<"plain">>]
      [] OTHER -> [err |-> "corrupt", out |-> <<"junk">>]

\* A bug of decodeZstd: a failed read of the source is taken for bytes that
\* are not zstd.
DecodeZstdUntracked(form, read, disk) ==
    IF read = "ok" /\ disk = "ok" /\ form = "zstd"
    THEN [err |-> "nil", out |-> <<"plain">>]
    ELSE [err |-> "tryRaw", out |-> <<"junk">>]

\* decodeZstd: an error of the source itself (errTrackingReader) is returned;
\* every other failure, one to write the destination included, says tryRaw.
DecodeZstd(form, read, disk) ==
    CASE read # "ok" -> [err |-> "io", out |-> <<"junk">>]
      [] disk = "ok" /\ form = "zstd" -> [err |-> "nil", out |-> <<"plain">>]
      [] OTHER -> [err |-> "tryRaw", out |-> <<"junk">>]

\* A bug of decodeStreamInner: the destination is not rewound before the raw
\* reading, which hashes only what it copies itself.
DecodeStreamNoReset(form, plan) ==
    LET z == DecodeZstd(form, plan.first, plan.disk1)
        raw == DecodeRaw(form, plan.second, plan.disk2)
    IN  IF plan.first = "fetch" THEN [err |-> "io", out |-> <<>>]
        ELSE IF ~HasMagic(form) THEN DecodeRaw(form, plan.first, plan.disk1)
        ELSE IF z.err # "tryRaw" THEN z
        ELSE [raw EXCEPT !.out = z.out \o @]

\* decodeStreamInner: the magic picks the decoder; when zstd says tryRaw the
\* destination is rewound and the object fetched again, as raw bytes.
DecodeStream(form, plan) ==
    LET z == DecodeZstd(form, plan.first, plan.disk1)
    IN  IF plan.first = "fetch" THEN [err |-> "io", out |-> <<>>]
        ELSE IF ~HasMagic(form) THEN DecodeRaw(form, plan.first, plan.disk1)
        ELSE IF z.err # "tryRaw" THEN z
        ELSE IF plan.second = "fetch" THEN [err |-> "io", out |-> <<>>]
        ELSE DecodeRaw(form, plan.second, plan.disk2)

-----------------------------------------------------------------------------
\* The file at the destination: absent, the plaintext, or other bytes.
File == {"none", "good", "bad"}

\* The file that a temp with these pieces becomes when it is renamed.
FileOf(out) == IF out = <<"plain">> THEN "good" ELSE "bad"

\* restoreObjectTo with a context that stays live: a file that verifies is
\* skipped, any other is replaced through CommitWrite.  commit says how far
\* the commit gets: "ok", "before" (sync, close, chmod or rename fails) or
\* "after" (the directory sync fails when the file is already renamed).
RestoreObjectTo(file, form, plan, commit) ==
    LET d == DecodeStream(form, plan)
    IN  CASE file = "good" -> [skipped |-> TRUE, err |-> "nil", file |-> file]
          [] file # "good" /\ d.err # "nil" -> [skipped |-> FALSE, err |-> d.err, file |-> file]
          [] file # "good" /\ d.err = "nil" /\ commit = "before" ->
                [skipped |-> FALSE, err |-> "io", file |-> file]
          [] OTHER -> [skipped |-> FALSE, file |-> FileOf(d.out),
                       err |-> IF commit = "after" THEN "io" ELSE "nil"]
=============================================================================
