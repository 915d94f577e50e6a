------------------------- MODULE MCDnsmasqTakeover -------------------------
(* DnsmasqTakeover with two options an administrator may have chosen.      *)
EXTENDS DnsmasqTakeover, TLC

CONSTANTS u1, u2

TwoSnapshots == {u1, u2}
SnapshotSymmetry == Permutations(TwoSnapshots)
=============================================================================
