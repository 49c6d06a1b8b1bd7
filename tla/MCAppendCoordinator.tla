-------------------------- MODULE MCAppendCoordinator --------------------------
(* Small instances of AppendCoordinator for TLC. *)
EXTENDS AppendCoordinator, TLC

CONSTANTS f1, f2, f3, d1

MCDayOf == [f \in Files |-> d1]

\* Files of one day are interchangeable.
MCSymmetry == Permutations(Files)
=============================================================================
