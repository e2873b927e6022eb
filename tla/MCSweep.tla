------------------------------ MODULE MCSweep -------------------------------
(***************************************************************************)
(* Three objects over two targets, the second one compressing; pages of    *)
(* two rows and two workers, so that a sweep takes several pages and       *)
(* workers overlap.                                                        *)
(***************************************************************************)
EXTENDS Sweep

MCItem == {2, 4, 6}
MCTarget == {1, 2}
MCCodec == [t \in MCTarget |-> IF t = 1 THEN "none" ELSE "zstd"]
\* Nothing is stored, everything, or objects 2 and 4 on one target each and the
\* third on both; for backfill the third is stored nowhere.
Mixed(third) == [i \in MCItem |-> IF i = 6 THEN third ELSE {i \div 2}]
MCLedgers == [c \in Commands |->
                IF c = "backfill" THEN {Mixed({})}
                ELSE {[i \in MCItem |-> {}], [i \in MCItem |-> {1, 2}], Mixed({1, 2})}]
MCCorpora == {MCItem, {2, 6}}
MCDirs == {[i \in MCItem |-> IF i = 2 THEN "bad" ELSE IF i = 4 THEN "good" ELSE "none"]}
MCMaxRuns == [c \in Commands |-> IF c = "backfill" THEN 1 ELSE 2]
=============================================================================
