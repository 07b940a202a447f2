-------------------------- MODULE MCProjectLedger --------------------------
EXTENDS ProjectLedger, TLC

CONSTANTS p1, p2, r1, r2

MCProjects == {p1, p2}
MCRecords  == {r1, r2}
\* Every record is of one hour, and every hour amounts to one.
MCQuantity == [rows \in SUBSET (Records \X Hours) |-> Cardinality(rows)]

Symmetric  == Permutations(MCProjects) \cup Permutations(MCRecords)
=============================================================================
