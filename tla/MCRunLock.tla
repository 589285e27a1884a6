------------------------------ MODULE MCRunLock ------------------------------
(* RunLock on a few runs of the script. *)
EXTENDS RunLock, TLC

CONSTANTS r1, r2, r3, r4, r5

RunSymmetry == Permutations(Runs)
=============================================================================
