----------------------------- MODULE MCListener -----------------------------
(* Instances of Listener for TLC.                                          *)
EXTENDS Listener, TLC

\* Every kind of socket argument, in builds with and without filters.
EverySetup == [kind : Kinds, seccomp : BOOLEAN]

DaemonSymmetry == Permutations(Daemons)
=============================================================================
