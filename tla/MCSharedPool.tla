----------------------------- MODULE MCSharedPool -----------------------------
(* SharedPool for TLC: this router's zone and two others, two of the three *)
(* found through the same sentinels.                                       *)
EXTENDS SharedPool

ThreeZones == {"z1", "z2", "z3"}
TwoSentinelZones == {"z1", "z2"}
SharedSentinels == [z \in TwoSentinelZones |-> TwoSentinelZones]

(* A list that names this zone again, and another zone twice.              *)
Lists ==
    LET E(z, a) == [zone |-> z, addr |-> a] IN
    {<<E("z1", "a"), E("z1", "a"), E("z2", "a"), E("z3", "a"), E("z3", "b")>>}
=============================================================================
