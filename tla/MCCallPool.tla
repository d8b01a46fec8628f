----------------------------- MODULE MCCallPool -----------------------------
(* Instances of CallPool for TLC: the symmetry of the threads.             *)
EXTENDS CallPool, TLC

ThreadSymmetry == Permutations(Threads)

=============================================================================
