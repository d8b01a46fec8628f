----------------------------- MODULE MCSessions -----------------------------
(* Instances of Sessions for TLC: the symmetries of its constants.  Slots   *)
(* are left out, since an unused entry holds a chosen one.                  *)
EXTENDS Sessions, TLC

ConnAppSymmetry == Permutations(Conns) \cup Permutations(Apps)

=============================================================================
