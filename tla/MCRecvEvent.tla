---------------------------- MODULE MCRecvEvent ----------------------------
(* Instances of RecvEvent for TLC. *)
EXTENDS RecvEvent, TLC

\* Processes are interchangeable in the safety runs.
Symmetry == Permutations(Procs)
=============================================================================
