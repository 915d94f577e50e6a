----------------------------- MODULE MCLockOrder -----------------------------
(* Instances of LockOrder.  A behaviour requests the operations of one of    *)
(* the Mixes, so that one run covers several combinations.                   *)
EXTENDS LockOrder

CONSTANT Mixes

VARIABLE mix

MCInit == Init /\ mix \in Mixes
MCNext ==
  /\ ProcessExit \/ \E a \in mix \union {"exit"} : ActorStep(a)
  /\ mix' = mix
MCSpec == MCInit /\ [][MCNext]_<<vars, mix>>
=============================================================================
