----------------------------- MODULE MCRealtime ------------------------------
(* Instances of Realtime for model checking.                                 *)
EXTENDS Realtime, TLC

CONSTANTS c1, c2

OneConn == {c1}
TwoConns == {c1, c2}
ConnSymmetry == Permutations({c1, c2})
=============================================================================
