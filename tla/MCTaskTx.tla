------------------------------ MODULE MCTaskTx ------------------------------
(* Instances of TaskTx for TLC. *)
EXTENDS TaskTx, TLC

\* Sessions are interchangeable.
MCSymmetry == Permutations(Sessions)
=============================================================================
