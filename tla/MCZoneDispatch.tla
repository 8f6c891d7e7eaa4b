---------------------------- MODULE MCZoneDispatch ----------------------------
(* ZoneDispatch for TLC: two zones with a client each.  A transaction is    *)
(* run without expiry and late writes, which it does not claim to survive.  *)
EXTENDS ZoneDispatch

TwoZones == {"z1", "z2"}
TwoClients == {"c1", "c2"}
ClientHome == [c \in TwoClients |-> IF c = "c1" THEN "z1" ELSE "z2"]

AllOwners == {"none", "z1", "unknown"}
SomeSets ==
    [o \in AllOwners |->
        CASE o = "none" -> [v : {"a", "b"}, ttl : {FALSE}]
          [] o = "z1" -> [v : {"a"}, ttl : BOOLEAN]
          [] OTHER -> [v : {"a"}, ttl : {FALSE}]]
SomeFaults ==
    [o \in AllOwners |->
        CASE o = "none" -> {F \in SUBSET (FaultKinds \ {"late"}) :
                               Cardinality(F) <= 2}
          [] o = "z1" -> {{f} : f \in FaultKinds}
          [] OTHER -> {}]

NoOwner == {"none"}
ThisOwner == {"z1"}
TwoValues == [o \in NoOwner |-> [v : {"a", "b"}, ttl : {FALSE}]]
OneValue == [o \in ThisOwner |-> [v : {"a"}, ttl : {FALSE}]]
NoFaults == [o \in NoOwner |-> {}]
ErrorReplies == [o \in ThisOwner |-> {{"errorreply"}}]
=============================================================================
