----------------------------- MODULE MCWriteStage -----------------------------
(* Small instances of WriteStage for TLC. *)
EXTENDS WriteStage, TLC

CONSTANTS p1, p2, p3, w1, w2

\* Payloads are interchangeable, and so are the write threads.
MCSymmetry == Permutations(Payloads) \cup Permutations(Workers)
=============================================================================
