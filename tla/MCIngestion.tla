----------------------------- MODULE MCIngestion ------------------------------
(* Small instances of Ingestion. *)
EXTENDS Ingestion, TLC

CONSTANTS m1, m2, m3, m4, m5, d1, d2, k1, k2

\* d2 is pushed for two knowledge bases, and for k1 nothing is made of it; m4 is too
\* short, m5 does not parse.
Documents == m1 :> d1 @@ m2 :> d2 @@ m3 :> d2 @@ m4 :> d1 @@ m5 :> d1
Streams   == m1 :> k1 @@ m2 :> k2 @@ m3 :> k1 @@ m4 :> k1 @@ m5 :> k2

Events(faults, deletions) == [faults |-> faults, deletions |-> deletions]

\* Budgets
FaultsOrDeletion == {Events(1, 0), Events(0, 1)}
===============================================================================
