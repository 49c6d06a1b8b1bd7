------------------------------ MODULE MCDayClose ------------------------------
(* Small instances of DayClose for TLC. *)
EXTENDS DayClose, TLC

CONSTANTS f1, f2

\* The files of the day are interchangeable.
MCSymmetry == Permutations(Files)
=============================================================================
