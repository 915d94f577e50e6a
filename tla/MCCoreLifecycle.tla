-------------------------- MODULE MCCoreLifecycle --------------------------
(* Instances of CoreLifecycle for TLC.                                     *)
EXTENDS CoreLifecycle, TLC

CONSTANTS c1, c2

TwoCallers == {c1, c2}
CallerSymmetry == Permutations(TwoCallers)
=============================================================================
