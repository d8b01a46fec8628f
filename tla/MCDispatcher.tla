---------------------------- MODULE MCDispatcher ----------------------------
(* Instances of Dispatcher for TLC: the symmetry of threads, and of         *)
(* applications.                                                            *)
EXTENDS Dispatcher, TLC

ThreadAppSymmetry == Permutations(Threads) \cup Permutations(Apps)

=============================================================================
