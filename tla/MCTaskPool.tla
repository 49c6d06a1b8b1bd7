------------------------------ MODULE MCTaskPool ------------------------------
(* Small instances of TaskPool for TLC. *)
EXTENDS TaskPool, TLC

CONSTANTS t1, t2, o1

\* The threads of the pool are interchangeable.
MCSymmetry == Permutations(Threads)
=============================================================================
