------------------------------ MODULE MCJobStore ------------------------------
(* Small instances of JobStore for TLC. *)
EXTENDS JobStoreRefinement, TLC

CONSTANTS i1, i2, l1, l2

\* Every list identity of the instances is of one kind.
MCListKind == [l \in ListIds |-> "append"]

\* Identities are interchangeable: no definition orders or names them.
MCSymmetry == Permutations(IngestIds) \cup Permutations(ListIds)
=============================================================================
