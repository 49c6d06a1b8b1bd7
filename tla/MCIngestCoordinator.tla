-------------------------- MODULE MCIngestCoordinator --------------------------
(* Small instances of IngestCoordinator for TLC. *)
EXTENDS IngestCoordinator, TLC

CONSTANTS j1, j2

\* Jobs are interchangeable.
MCSymmetry == Permutations(Jobs)
=============================================================================
