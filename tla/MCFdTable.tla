----------------------------- MODULE MCFdTable ------------------------------
(* Instances of FdTable for TLC. *)
EXTENDS FdTable, TLC

CONSTANTS p1, p2, f1, f2

\* The console and init are distinguished; other files are alike.
FileSymmetry == Permutations(Files \ {con})
=============================================================================
