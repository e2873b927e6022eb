---------------------------- MODULE BackupPromise ----------------------------
(***************************************************************************)
(* What the service promises about the outbox, without saying how: copies  *)
(* appear on targets and are never lost, the ledger only ever records      *)
(* copies that exist, and a row is completed only when the record says     *)
(* that every target has its object, or else it is visibly given up        *)
(* (skipped or dead-lettered).  A decision about a row is final.           *)
(***************************************************************************)
CONSTANTS Target, Content, Row, ContentOf

VARIABLES
    copies,     \* target -> contents that it holds
    recorded,   \* content -> targets the ledger records as holding it
    outcome     \* row -> "open", "done" or "given_up"

promiseVars == <<copies, recorded, outcome>>

PromiseInit ==
    /\ copies = [t \in Target |-> {}]
    /\ recorded = [c \in Content |-> {}]
    /\ outcome = [r \in Row |-> "open"]

Copy(t, c) ==
    /\ copies' = [copies EXCEPT ![t] = @ \cup {c}]
    /\ UNCHANGED <<recorded, outcome>>

Record(c, S) ==
    /\ \A t \in S : c \in copies[t]
    /\ recorded' = [recorded EXCEPT ![c] = @ \cup S]
    /\ UNCHANGED <<copies, outcome>>

Complete(r) ==
    /\ outcome[r] = "open"
    /\ recorded[ContentOf[r]] = Target
    /\ outcome' = [outcome EXCEPT ![r] = "done"]
    /\ UNCHANGED <<copies, recorded>>

\* A sweep may give up several rows at once.
GiveUp(R) ==
    /\ \A r \in R : outcome[r] = "open"
    /\ outcome' = [r \in Row |-> IF r \in R THEN "given_up" ELSE outcome[r]]
    /\ UNCHANGED <<copies, recorded>>

PromiseNext ==
    \/ \E t \in Target, c \in Content : Copy(t, c)
    \/ \E c \in Content, S \in SUBSET Target : Record(c, S)
    \/ \E r \in Row : Complete(r)
    \/ \E R \in SUBSET Row : GiveUp(R)

PromiseSpec == PromiseInit /\ [][PromiseNext]_promiseVars
=============================================================================
