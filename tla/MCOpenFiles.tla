---------------------------- MODULE MCOpenFiles ----------------------------
EXTENDS OpenFiles, TLC

(* Where a struct file lies makes no difference.                           *)
Symmetry == Permutations(Addresses)
=============================================================================
