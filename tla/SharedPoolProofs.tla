--------------------------- MODULE SharedPoolProofs ---------------------------
(***************************************************************************)
(* Proofs about SharedPool, for any zones, addresses, lists of zones and   *)
(* sessions, any number of sentinels, elections and faults.                *)
(***************************************************************************)
EXTENDS SharedPool, FiniteSetTheorems, SequenceTheorems, TLAPS

Shared == [addr : Addrs, ref : Nat]

(* The types of TypeOK, part by part, with the fields of the records.      *)
PoolTyped ==
    /\ conns \in Seq(Shared)
    /\ pool \in [Addrs -> Conns] /\ backend \in [Zones -> Conns]
    /\ known \subseteq Zones
FillTyped ==
    /\ list \in ZoneLists
    /\ phase \in {"filling", "failed", "up", "crashed"}
    /\ entry \in 1..Len(list) + 1 /\ found \subseteq SentinelZones
LockTyped ==
    /\ readers \subseteq Procs
    /\ closer \in {"no", "waiting", "locked", "done"}
    /\ closer = "locked" => readers = {}
SwitchTyped ==
    /\ sw \in [pc : {"idle", "ask", "retain", "release", "assign"},
               left : SUBSET SentinelZones, zone : Zones,
               addr : Addrs \cup {""}, conn : Nat]
    /\ sw.conn \in Conns
    /\ sw.pc = "retain" => sw.addr \in Addrs
AliveTyped ==
    /\ alive \in [pc : {"idle", "range", "ping"}, seen : SUBSET Nat,
                  conn : Nat]
    /\ alive.conn \in Conns
SessTyped ==
    /\ sess \in [Sessions ->
                   [pc : {"idle", "lock", "forward", "push", "wait", "stuck"},
                    op : {"get", "set"}, zone : Zones, conn : Nat]]
    /\ \A s \in Sessions : sess[s].conn \in Conns
ElectTyped ==
    /\ elected \in [SentinelZones -> Addrs]
    /\ before \in [SentinelZones -> Addrs]
    /\ lag \in [SentinelZones -> 0..NSentinels - 1]
    /\ failovers \in Nat /\ faults \in Nat

Typed ==
    /\ PoolTyped /\ FillTyped /\ LockTyped /\ SwitchTyped /\ AliveTyped
    /\ SessTyped /\ ElectTyped

(* What is in the pool is under its own address.                           *)
Pooled == PoolExact /\ \A a \in Addrs : pool[a] # 0 => conns[pool[a]].addr = a

(* The zones filled are finitely many, so that their users can be counted. *)
Counted == UsersCounted /\ IsFiniteSet(known)

(* What router.mu keeps apart: while a ticker runs, Close has not begun    *)
(* its work.                                                               *)
LocksHeld ==
    /\ phase = "filling" => readers = {} /\ closer = "no"
    /\ sw.pc # "idle" => "switch" \in readers
    /\ alive.pc # "idle" => "alive" \in readers
    /\ closer \in {"locked", "done"} => sw.pc = "idle" /\ alive.pc = "idle"

(* Until Close every zone has a backend, and it is what is switched.       *)
ZonesBacked ==
    /\ closer \in {"no", "waiting"} => \A z \in known : backend[z] # 0
    /\ sw.left \subseteq known
    /\ sw.pc = "idle" => sw.left = {}
    /\ sw.pc \in {"retain", "release", "assign"} => sw.zone \in known
    /\ sw.pc \in {"release", "assign"} => sw.conn # 0

(* A GET holds the lock from its forward on, and the zone a command goes   *)
(* to stays known until Close.                                             *)
CommandHeld(s) ==
    /\ sess[s].op = "get" /\ sess[s].pc \in {"forward", "push", "wait"}
          => s \in readers
    /\ closer \in {"no", "waiting"} /\ sess[s].pc # "idle"
          => sess[s].zone \in known
CommandsHeld == \A s \in Sessions : CommandHeld(s)

Guarded == LocksHeld /\ ZonesBacked /\ CommandsHeld

(* As long as no master changes and every sentinel answers, every zone has *)
(* its master, nothing is switched, and what was picked to be used stays   *)
(* open until Close.                                                       *)
MastersUsed ==
    closer \in {"no", "waiting"} =>
        \A z \in known \cap SentinelZones : conns[backend[z]].addr = elected[z]
PingsOpen == alive.pc = "ping" => Open(alive.conn)
CommandSafe(s) ==
    closer # "done" /\ sess[s].op = "get" =>
        /\ sess[s].pc # "stuck"
        /\ sess[s].pc \in {"push", "wait"} => Open(sess[s].conn)
NothingSwitched ==
    /\ phase # "crashed" /\ sw.pc \in {"idle", "ask"}
    /\ MastersUsed /\ PingsOpen
    /\ \A s \in Sessions : CommandSafe(s)
Quiet == failovers + faults = 0 => NothingSwitched

Inv == Typed /\ Pooled /\ Counted /\ Guarded /\ Quiet

-----------------------------------------------------------------------------
(* Counting.  The references of a connection, and who uses it; there are   *)
(* none of one that was not made.                                          *)

Ref(i) == IF i \in 1..Len(conns) THEN conns[i].ref ELSE 0

Users(i) == Cardinality(Holders(i)) + InHand(i)

LEMMA TypedIs == Typed => TypeOK
BY DEF Typed, TypeOK, PoolTyped, FillTyped, LockTyped, SwitchTyped, AliveTyped,
       SessTyped, ElectTyped, Shared

LEMMA HoldersFinite ==
    ASSUME IsFiniteSet(known), NEW i
    PROVE  IsFiniteSet(Holders(i)) /\ Cardinality(Holders(i)) \in Nat
<1>1. Holders(i) \in SUBSET known
  BY DEF Holders
<1>2. IsFiniteSet(Holders(i))
  BY <1>1, FS_Subset
<1> QED
  BY <1>2, FS_CardinalityType

LEMMA UsersCountedAll ==
    ASSUME TypeOK, Counted
    PROVE  \A i \in Nat \ {0} :
              Users(i) \in Nat /\ Ref(i) \in Nat /\ Users(i) <= Ref(i)
<1> TAKE i \in Nat \ {0}
<1>1. /\ conns \in Seq(Shared) /\ Len(conns) \in Nat
      /\ IsFiniteSet(known) /\ known \subseteq Zones
      /\ backend \in [Zones -> 0..Len(conns)] /\ sw.conn \in 0..Len(conns)
  BY LenProperties DEF TypeOK, Conns, Counted, Shared
<1>2. Cardinality(Holders(i)) \in Nat /\ InHand(i) \in {0, 1}
  BY <1>1, HoldersFinite DEF InHand
<1>3. CASE i \in 1..Len(conns)
  <2>1. conns[i] \in Shared
    BY <1>1, <1>3, ElementOfSeq
  <2> QED
    BY <1>2, <1>3, <2>1 DEF Counted, UsersCounted, Users, Ref, Shared
<1>4. CASE i \notin 1..Len(conns)
  <2>1. i > Len(conns)
    BY <1>1, <1>4
  <2>2. Holders(i) = {} /\ InHand(i) = 0
    BY <1>1, <2>1 DEF Holders, InHand
  <2> QED
    BY <1>4, <2>2, FS_EmptySet DEF Users, Ref
<1> QED
  BY <1>3, <1>4

(* A set that gains or loses a member.                                     *)
LEMMA CardAdd ==
    ASSUME NEW S, IsFiniteSet(S), NEW z, NEW T \in SUBSET (S \cup {z})
    PROVE  /\ Cardinality(T) \in Nat /\ Cardinality(S) \in Nat
           /\ Cardinality(T) <= Cardinality(S) + 1
<1>1. /\ IsFiniteSet(S \cup {z}) /\ Cardinality(S) \in Nat
      /\ Cardinality(S \cup {z}) <= Cardinality(S) + 1
  BY FS_AddElement, FS_CardinalityType
<1>2. IsFiniteSet(T) /\ Cardinality(T) <= Cardinality(S \cup {z})
  BY <1>1, FS_Subset
<1>3. Cardinality(T) \in Nat /\ Cardinality(S \cup {z}) \in Nat
  BY <1>1, <1>2, FS_CardinalityType
<1> QED
  BY <1>1, <1>2, <1>3

LEMMA CardLess ==
    ASSUME NEW S, IsFiniteSet(S), NEW z \in S
    PROVE  /\ Cardinality(S \ {z}) = Cardinality(S) - 1
           /\ Cardinality(S) \in Nat /\ Cardinality(S) >= 1
<1>1. Cardinality(S \ {z}) = Cardinality(S) - 1 /\ IsFiniteSet(S \ {z})
  BY FS_RemoveElement
<1>2. Cardinality(S \ {z}) \in Nat /\ Cardinality(S) \in Nat
  BY <1>1, FS_CardinalityType
<1> QED
  BY <1>1, <1>2

LEMMA CardSub ==
    ASSUME NEW S, IsFiniteSet(S), NEW T \in SUBSET S
    PROVE  /\ Cardinality(T) \in Nat /\ Cardinality(S) \in Nat
           /\ Cardinality(T) <= Cardinality(S)
<1>1. IsFiniteSet(T) /\ Cardinality(T) <= Cardinality(S)
  BY FS_Subset
<1> QED
  BY <1>1, FS_CardinalityType

-----------------------------------------------------------------------------
(* What Retain and Release do to the pool.                                 *)

LEMMA RetainIs ==
    ASSUME TypeOK, Pooled, NEW a \in Addrs, Retain(a)
    PROVE  /\ conns' \in Seq(Shared) /\ Len(conns') \in Nat
           /\ Len(conns) \in Nat /\ Len(conns) <= Len(conns')
           /\ pool' \in [Addrs -> 0..Len(conns')]
           /\ Retained(a) \in 1..Len(conns') /\ conns'[Retained(a)].addr = a
           /\ \A i \in 1..Len(conns) : conns'[i].addr = conns[i].addr
           /\ \A i \in Nat \ {0} :
                 Ref(i)' = IF i = Retained(a) THEN Ref(i) + 1 ELSE Ref(i)
           /\ Pooled'
<1>1. /\ conns \in Seq(Shared) /\ Len(conns) \in Nat
      /\ pool \in [Addrs -> 0..Len(conns)]
      /\ \A i \in 1..Len(conns) : conns[i] \in Shared
  BY LenProperties, ElementOfSeq DEF TypeOK, Conns, Shared
<1>2. CASE pool[a] # 0
  <2> DEFINE c == pool[a]
             e == [conns[c] EXCEPT !.ref = @ + 1]
  <2>1. /\ c \in 1..Len(conns) /\ conns[c].addr = a /\ Retained(a) = c
        /\ conns' = [conns EXCEPT ![c] = e] /\ pool' = pool
    BY <1>1, <1>2 DEF Retain, Retained, Pooled
  <2>2. e \in Shared /\ e.addr = a /\ e.ref = conns[c].ref + 1
    BY <1>1, <2>1 DEF Shared
  <2> HIDE DEF c, e
  <2>3. /\ conns' \in Seq(Shared) /\ Len(conns') = Len(conns)
        /\ \A i \in 1..Len(conns) : conns'[i] = IF i = c THEN e ELSE conns[i]
    BY <1>1, <2>1, <2>2, ExceptSeq
  <2>4. \A i \in Nat \ {0} : Ref(i)' = IF i = c THEN Ref(i) + 1 ELSE Ref(i)
    BY <2>1, <2>2, <2>3 DEF Ref
  <2>5. Open(c)
    BY <1>1, <2>1 DEF Pooled, PoolExact, c
  <2>6. PoolExact'
    BY <1>1, <2>1, <2>2, <2>3, <2>5 DEF Pooled, PoolExact, Open, Shared
  <2>7. \A b \in Addrs : pool'[b] # 0 => conns'[pool'[b]].addr = b
    BY <1>1, <2>1, <2>2, <2>3 DEF Pooled
  <2> QED
    BY <1>1, <2>1, <2>2, <2>3, <2>4, <2>6, <2>7 DEF Pooled
<1>3. CASE pool[a] = 0
  <2> DEFINE n == Len(conns) + 1
  <2>1. /\ Retained(a) = n /\ conns' = Append(conns, NewConn(a))
        /\ pool' = [pool EXCEPT ![a] = n]
    BY <1>3 DEF Retain, Retained
  <2>2. NewConn(a) \in Shared /\ NewConn(a).addr = a /\ NewConn(a).ref = 1
    BY DEF NewConn, Shared
  <2>3. /\ conns' \in Seq(Shared) /\ Len(conns') = n /\ conns'[n] = NewConn(a)
        /\ \A i \in 1..Len(conns) : conns'[i] = conns[i]
    BY <1>1, <2>1, <2>2, AppendProperties
  <2>4. \A i \in Nat \ {0} : Ref(i)' = IF i = n THEN Ref(i) + 1 ELSE Ref(i)
    BY <1>1, <2>2, <2>3 DEF Ref
  <2>5. \A b \in Addrs : pool'[b] = IF b = a THEN n ELSE pool[b]
    BY <1>1, <2>1
  <2>6. \A i \in 1..Len(conns) : ~(conns[i].addr = a /\ Open(i))
    BY <1>1, <1>3 DEF Pooled, PoolExact
  <2>7. PoolExact'
    <3> SUFFICES ASSUME NEW i \in 1..Len(conns')
                 PROVE  Open(i)' <=> pool'[conns'[i].addr] = i
      BY DEF PoolExact
    <3>1. CASE i = n
      BY <1>1, <2>2, <2>3, <2>5, <3>1 DEF Open
    <3>2. CASE i # n
      <4>1. i \in 1..Len(conns) /\ conns'[i] = conns[i]
        BY <1>1, <2>3, <3>2
      <4>2. Open(i) <=> pool[conns[i].addr] = i
        BY <4>1 DEF Pooled, PoolExact
      <4>3. conns[i].addr \in Addrs
        BY <1>1, <4>1 DEF Shared
      <4> QED
        BY <1>1, <2>5, <2>6, <3>2, <4>1, <4>2, <4>3 DEF Open
    <3> QED
      BY <3>1, <3>2
  <2>8. \A b \in Addrs : pool'[b] # 0 => conns'[pool'[b]].addr = b
    BY <1>1, <2>2, <2>3, <2>5 DEF Pooled
  <2>9. pool' \in [Addrs -> 0..Len(conns')]
    BY <1>1, <2>1, <2>3
  <2> QED
    BY <1>1, <2>1, <2>2, <2>3, <2>4, <2>7, <2>8, <2>9 DEF Pooled
<1> QED
  BY <1>2, <1>3

LEMMA ReleaseIs ==
    ASSUME TypeOK, Pooled, NEW c \in 1..Len(conns), conns[c].ref > 0,
           Release(c)
    PROVE  /\ conns' \in Seq(Shared) /\ Len(conns') = Len(conns)
           /\ Len(conns) \in Nat /\ pool' \in [Addrs -> 0..Len(conns)]
           /\ \A i \in 1..Len(conns) : conns'[i].addr = conns[i].addr
           /\ \A i \in Nat \ {0} :
                 Ref(i)' = IF i = c THEN Ref(i) - 1 ELSE Ref(i)
           /\ Pooled'
<1>1. /\ conns \in Seq(Shared) /\ Len(conns) \in Nat
      /\ pool \in [Addrs -> 0..Len(conns)]
      /\ \A i \in 1..Len(conns) : conns[i] \in Shared
  BY LenProperties, ElementOfSeq DEF TypeOK, Conns, Shared
<1> DEFINE e == [conns[c] EXCEPT !.ref = @ - 1]
<1>2. /\ conns' = [conns EXCEPT ![c] = e]
      /\ pool' = IF conns[c].ref = 1 THEN [pool EXCEPT ![conns[c].addr] = 0]
                                     ELSE pool
  BY DEF Release
<1>3. e \in Shared /\ e.addr = conns[c].addr /\ e.ref = conns[c].ref - 1
  <2>1. conns[c] \in Shared
    BY <1>1
  <2>2. conns[c].ref - 1 \in Nat
    BY <2>1 DEF Shared
  <2> QED
    BY <2>1, <2>2 DEF Shared
<1> HIDE DEF e
<1>4. /\ conns' \in Seq(Shared) /\ Len(conns') = Len(conns)
      /\ \A i \in 1..Len(conns) : conns'[i] = IF i = c THEN e ELSE conns[i]
  BY <1>1, <1>2, <1>3, ExceptSeq
<1>5. \A i \in Nat \ {0} : Ref(i)' = IF i = c THEN Ref(i) - 1 ELSE Ref(i)
  BY <1>3, <1>4 DEF Ref
<1>6. pool[conns[c].addr] = c /\ conns[c].addr \in Addrs /\ conns[c].ref \in Nat
  BY <1>1 DEF Pooled, PoolExact, Open, Shared
<1>7. PoolExact'
  <2> SUFFICES ASSUME NEW i \in 1..Len(conns)
               PROVE  Open(i)' <=> pool'[conns'[i].addr] = i
    BY <1>4 DEF PoolExact
  <2>1. /\ conns'[i].addr = conns[i].addr /\ conns[i].addr \in Addrs
        /\ Open(i) <=> pool[conns[i].addr] = i
    BY <1>1, <1>3, <1>4 DEF Pooled, PoolExact, Shared
  <2>2. CASE conns[c].ref = 1
    BY <1>1, <1>2, <1>3, <1>4, <1>6, <2>1, <2>2 DEF Open
  <2>3. CASE conns[c].ref # 1
    BY <1>2, <1>3, <1>4, <1>6, <2>1, <2>3 DEF Open
  <2> QED
    BY <2>2, <2>3
<1>8. \A b \in Addrs : pool'[b] # 0 => conns'[pool'[b]].addr = b
  BY <1>1, <1>2, <1>3, <1>4, <1>6 DEF Pooled
<1>9. pool' \in [Addrs -> 0..Len(conns)]
  BY <1>1, <1>2, <1>6
<1> QED
  BY <1>1, <1>3, <1>4, <1>5, <1>7, <1>8, <1>9 DEF Pooled

(* A zone's connection is open, unless it has just been given up.          *)
LEMMA BackendOpen ==
    ASSUME Typed, Counted, NEW z \in known, backend[z] # 0,
           ~(sw.pc = "assign" /\ sw.zone = z)
    PROVE  /\ backend[z] \in 1..Len(conns) /\ conns[backend[z]].ref > 0
           /\ Open(backend[z])
<1> DEFINE c == backend[z]
<1>1. c \in 1..Len(conns) /\ Len(conns) \in Nat
  BY LenProperties DEF Typed, PoolTyped, Conns
<1>2. z \in Holders(c) /\ IsFiniteSet(Holders(c))
  BY HoldersFinite DEF Holders, Counted
<1>3. Cardinality(Holders(c)) >= 1 /\ Cardinality(Holders(c)) \in Nat
  BY <1>2, CardLess
<1>4. Users(c) <= Ref(c) /\ InHand(c) \in {0, 1} /\ Ref(c) \in Nat
  BY <1>1, TypedIs, UsersCountedAll DEF InHand
<1> QED
  BY <1>1, <1>3, <1>4 DEF Users, Ref, Open

(* The zone being filled is one of the list.                               *)
LEMMA EntryIs ==
    ASSUME FillTyped, Filling
    PROVE  entry \in 1..Len(list) /\ Entry.zone \in Zones /\ Entry.addr \in Addrs
<1>1. list \in Seq([zone : Zones, addr : Addrs])
  BY PoolAssumption DEF FillTyped, PoolAssumption
<1>2. Len(list) \in Nat
  BY <1>1, LenProperties
<1>3. entry \in 1..Len(list)
  BY <1>2 DEF FillTyped, Filling
<1>4. list[entry] \in [zone : Zones, addr : Addrs]
  BY <1>1, <1>3, ElementOfSeq
<1> QED
  BY <1>3, <1>4 DEF Entry

-----------------------------------------------------------------------------
(* What any step does to the connections.                                  *)

(* Only the steps named change the pool; they retain an address or release *)
(* a connection that is open.                                              *)
LEMMA PoolChanges ==
    ASSUME Inv, [Next]_vars
    PROVE  \/ UNCHANGED poolVars
           \/ \E a \in Addrs :
                 /\ Retain(a)
                 /\ \/ /\ phase = "filling" /\ FillPlain /\ a = Entry.addr
                    \/ /\ phase = "filling"
                       /\ \E n \in found : a = elected[n]
                       /\ FillMaster
                    \/ SwitchRetain /\ a = sw.addr
           \/ \E z \in known :
                 /\ backend[z] \in 1..Len(conns) /\ conns[backend[z]].ref > 0
                 /\ Release(backend[z])
                 /\ \/ SwitchRelease /\ z = sw.zone
                    \/ CloseZone
<1>1. CASE FillPlain
  <2>1. entry \in 1..Len(list) /\ Entry.zone \in Zones /\ Entry.addr \in Addrs
    BY <1>1, EntryIs DEF FillPlain, Inv, Typed
  <2> QED
    BY <1>1, <2>1 DEF FillPlain, Filling
<1>2. CASE FillMaster
  <2>1. \A n \in found : elected[n] \in Addrs
    BY DEF Inv, Typed, FillTyped, ElectTyped
  <2> QED
    BY <1>2, <2>1 DEF FillMaster, Filling
<1>3. CASE SwitchRetain
  BY <1>3 DEF SwitchRetain, Inv, Typed, SwitchTyped
<1>4. CASE SwitchRelease
  <2>1. sw.zone \in known /\ closer \in {"no", "waiting"}
    BY <1>4 DEF SwitchRelease, Inv, Guarded, LocksHeld, ZonesBacked, Typed,
                LockTyped
  <2>2. backend[sw.zone] # 0 /\ sw.pc = "release"
    BY <1>4, <2>1 DEF SwitchRelease, Inv, Guarded, ZonesBacked
  <2> QED
    BY <1>4, <2>1, <2>2, BackendOpen DEF SwitchRelease, Inv
<1>5. CASE CloseZone
  <2>1. sw.pc = "idle"
    BY <1>5 DEF CloseZone, Inv, Guarded, LocksHeld
  <2> QED
    BY <1>5, <2>1, BackendOpen DEF CloseZone, Inv
<1>6. CASE FillSkip \/ FillAsk \/ FillFails \/ LoadFails \/ Start
  BY <1>6 DEF FillSkip, FillAsk, FillFails, LoadFails, Start
<1>7. CASE SwitchBegin \/ SwitchReturns \/ SwitchAssign
           \/ \E z \in SentinelZones : SwitchAsk(z)
  BY <1>7 DEF SwitchBegin, SwitchReturns, SwitchAssign, SwitchAsk
<1>8. CASE KeepAlive \/ MapRace
  BY <1>8 DEF KeepAlive, AliveBegin, AliveNext, AlivePing, AliveCrashes,
              AliveEnd, MapRace
<1>9. CASE CloseWaits \/ CloseLocks \/ CloseEnds
  BY <1>9 DEF CloseWaits, CloseLocks, CloseEnds
<1>10. ASSUME NEW s \in Sessions,
              \/ \E op \in {"get", "set"}, z \in Zones : LookUp(s, op, z)
              \/ Session(s) \/ Answered(s)
       PROVE  UNCHANGED poolVars
  BY <1>10 DEF LookUp, Session, LockForCommand, Process, Push, PushPanics,
               Answered
<1>11. ASSUME NEW z \in SentinelZones, NEW a \in Addrs,
              Failover(z, a) \/ Learn(z)
       PROVE  UNCHANGED poolVars
  BY <1>11 DEF Failover, Learn
<1>12. CASE UNCHANGED vars
  BY <1>12 DEF vars
<1> QED
  BY <1>1, <1>2, <1>3, <1>4, <1>5, <1>6, <1>7, <1>8, <1>9, <1>10, <1>11,
     <1>12
     DEF Next, NewRouter, SentinelSwitch, Close

(* Connections are never removed and never change their address, and the   *)
(* pool stays exact.                                                       *)
LEMMA PoolStep ==
    ASSUME Inv, [Next]_vars
    PROVE  /\ conns' \in Seq(Shared) /\ pool' \in [Addrs -> 0..Len(conns')]
           /\ Len(conns) \in Nat /\ Len(conns') \in Nat
           /\ Len(conns) <= Len(conns')
           /\ \A i \in 1..Len(conns) : conns'[i].addr = conns[i].addr
           /\ Pooled'
<1>0. TypeOK /\ Pooled /\ Len(conns) \in Nat
  BY TypedIs, LenProperties DEF Inv, Typed, PoolTyped
<1>1. CASE UNCHANGED poolVars
  BY <1>0, <1>1 DEF poolVars, Inv, Typed, PoolTyped, Conns, Pooled, PoolExact,
                    Open
<1>2. CASE \E a \in Addrs : Retain(a)
  BY <1>0, <1>2, RetainIs
<1>3. CASE \E c \in 1..Len(conns) : conns[c].ref > 0 /\ Release(c)
  BY <1>0, <1>3, ReleaseIs
<1> QED
  BY <1>1, <1>2, <1>3, PoolChanges

-----------------------------------------------------------------------------
(* Who changes which variables.                                            *)
LEMMA WhoChanges ==
    ASSUME [Next]_vars
    PROVE  /\ \/ UNCHANGED zoneVars
              \/ FillPlain \/ FillMaster \/ SwitchAssign \/ CloseZone \/ CloseEnds
           /\ \/ UNCHANGED <<fillVars, phase>>
              \/ NewRouter
              \/ UNCHANGED fillVars /\ (AliveCrashes \/ MapRace)
           /\ sw' = sw \/ SentinelSwitch
           /\ alive' = alive \/ KeepAlive
           /\ \/ sess' = sess
              \/ \E s \in Sessions :
                    \/ \E op \in {"get", "set"}, z \in Zones : LookUp(s, op, z)
                    \/ Session(s) \/ Answered(s)
           /\ \/ UNCHANGED electVars
              \/ \E z \in SentinelZones, a \in Addrs : Failover(z, a) \/ Learn(z)
           /\ closer' = closer \/ CloseWaits \/ Close
           /\ faults' \in {faults, faults + 1}
<1>1. CASE NewRouter
  BY <1>1 DEF NewRouter, FillSkip, FillPlain, FillAsk, FillMaster, FillFails,
              LoadFails, Start, Fault, envVars, electVars, zoneVars
<1>2. CASE SentinelSwitch
  BY <1>2 DEF SentinelSwitch, SwitchBegin, SwitchReturns, SwitchAsk, Fault,
              SwitchRetain, SwitchRelease, SwitchAssign, envVars, electVars,
              zoneVars, fillVars
<1>3. CASE KeepAlive \/ MapRace
  BY <1>3 DEF KeepAlive, AliveBegin, AliveNext, AlivePing, AliveCrashes,
              AliveEnd, MapRace, envVars, electVars, zoneVars, fillVars
<1>4. CASE CloseWaits \/ Close
  BY <1>4 DEF CloseWaits, Close, CloseLocks, CloseZone, CloseEnds, envVars,
              electVars, zoneVars, fillVars
<1>5. ASSUME NEW s \in Sessions,
             \/ \E op \in {"get", "set"}, z \in Zones : LookUp(s, op, z)
             \/ Session(s) \/ Answered(s)
      PROVE  UNCHANGED <<zoneVars, fillVars, phase, sw, alive, envVars, closer>>
  BY <1>5 DEF LookUp, Session, LockForCommand, Process, Push, PushPanics,
              Answered
<1>6. ASSUME NEW z \in SentinelZones, NEW a \in Addrs,
             Failover(z, a) \/ Learn(z)
      PROVE  UNCHANGED <<zoneVars, fillVars, phase, sw, alive, sess, closer,
                         faults>>
  BY <1>6 DEF Failover, Learn
<1>7. CASE UNCHANGED vars
  BY <1>7 DEF vars, envVars, electVars, zoneVars, fillVars
<1> QED
  BY <1>1, <1>2, <1>3, <1>4, <1>5, <1>6, <1>7 DEF Next, envVars, electVars

-----------------------------------------------------------------------------
(* The types.                                                              *)

LEMMA InitInv == Init => Inv
<1> SUFFICES ASSUME Init PROVE Inv
  OBVIOUS
<1>1. PoolTyped
  BY DEF Init, PoolTyped, Conns
<1>2. FillTyped
  <2>1. list \in Seq([zone : Zones, addr : Addrs])
    BY PoolAssumption DEF Init, PoolAssumption
  <2>2. Len(list) \in Nat
    BY <2>1, LenProperties
  <2> QED
    BY <2>2 DEF Init, FillTyped
<1>3. LockTyped /\ SwitchTyped /\ AliveTyped /\ SessTyped
  <2>1. 0 \in Conns
    BY DEF Init, Conns
  <2>2. LockTyped
    BY DEF Init, LockTyped
  <2>3. SwitchTyped /\ AliveTyped
    BY <2>1, PoolAssumption
    DEF Init, SwitchTyped, AliveTyped, PoolAssumption, NoSwitch, NoRange
  <2>4. SessTyped
    BY <2>1, PoolAssumption DEF Init, SessTyped, PoolAssumption, NoCommand
  <2> QED
    BY <2>2, <2>3, <2>4
<1>4. ElectTyped
  BY PoolAssumption DEF Init, ElectTyped, PoolAssumption
<1>5. Pooled
  BY DEF Init, Pooled, PoolExact
<1>6. Counted
  BY FS_EmptySet DEF Init, Counted, UsersCounted
<1>7. Guarded
  BY DEF Init, Guarded, LocksHeld, ZonesBacked, CommandsHeld, CommandHeld,
         NoSwitch, NoRange, NoCommand
<1>8. Quiet
  BY DEF Init, Quiet, NothingSwitched, MastersUsed, PingsOpen, CommandSafe,
         NoSwitch, NoRange, NoCommand
<1> QED
  BY <1>1, <1>2, <1>3, <1>4, <1>5, <1>6, <1>7, <1>8 DEF Inv, Typed

LEMMA StepPoolTyped == Inv /\ [Next]_vars => PoolTyped'
<1> SUFFICES ASSUME Inv, [Next]_vars PROVE PoolTyped'
  OBVIOUS
<1>1. /\ conns' \in Seq(Shared) /\ pool' \in [Addrs -> 0..Len(conns')]
      /\ Len(conns) \in Nat /\ Len(conns') \in Nat /\ Len(conns) <= Len(conns')
  BY PoolStep
<1>2. /\ TypeOK /\ Pooled /\ known \subseteq Zones
      /\ backend \in [Zones -> 0..Len(conns)]
      /\ backend \in [Zones -> 0..Len(conns')]
  BY <1>1, TypedIs DEF Inv, Typed, PoolTyped, Conns
<1>3. backend' \in [Zones -> 0..Len(conns')] /\ known' \subseteq Zones
  <2>1. CASE UNCHANGED zoneVars
    BY <1>2, <2>1 DEF zoneVars
  <2>2. CASE FillPlain
    <3>1. Entry.zone \in Zones /\ Entry.addr \in Addrs
      BY <2>2, EntryIs DEF FillPlain, Inv, Typed
    <3>2. Retained(Entry.addr) \in 0..Len(conns')
      BY <1>1, <1>2, <2>2, <3>1, RetainIs DEF FillPlain
    <3> QED
      BY <1>2, <2>2, <3>1, <3>2 DEF FillPlain, SetZone
  <2>3. CASE FillMaster
    <3>1. PICK n \in found :
             /\ Retain(elected[n]) /\ Filling
             /\ IF n = Entry.zone THEN SetZone(n, Retained(elected[n]))
                                  ELSE UNCHANGED zoneVars
      BY <2>3 DEF FillMaster
    <3>2. elected[n] \in Addrs /\ Entry.zone \in Zones
      BY <3>1, EntryIs DEF Inv, Typed, FillTyped, ElectTyped
    <3>3. Retained(elected[n]) \in 0..Len(conns')
      BY <1>1, <1>2, <3>1, <3>2, RetainIs
    <3> QED
      BY <1>2, <3>1, <3>2, <3>3 DEF SetZone, zoneVars
  <2>4. CASE SwitchAssign
    <3>1. sw.conn \in 0..Len(conns)
      BY DEF Inv, Typed, SwitchTyped, Conns
    <3>2. sw.conn \in 0..Len(conns')
      BY <1>1, <3>1
    <3> QED
      BY <1>2, <2>4, <3>2 DEF SwitchAssign
  <2>5. CASE CloseZone
    BY <1>1, <1>2, <2>5 DEF CloseZone
  <2>6. CASE CloseEnds
    BY <1>2, <2>6 DEF CloseEnds
  <2> QED
    BY <2>1, <2>2, <2>3, <2>4, <2>5, <2>6, WhoChanges
<1> QED
  BY <1>1, <1>3 DEF PoolTyped, Conns

LEMMA StepFillTyped == Inv /\ [Next]_vars => FillTyped'
<1> SUFFICES ASSUME Inv, [Next]_vars PROVE FillTyped'
  OBVIOUS
<1>1. /\ list \in ZoneLists /\ found \subseteq SentinelZones
      /\ phase \in {"filling", "failed", "up", "crashed"}
      /\ entry \in 1..Len(list) + 1
  BY DEF Inv, Typed, FillTyped
<1>2. list \in Seq([zone : Zones, addr : Addrs]) /\ list # <<>>
  BY <1>1, PoolAssumption DEF PoolAssumption
<1>3. Len(list) \in Nat /\ Len(list) >= 1
  BY <1>2, LenProperties, EmptySeq
<1>4. CASE UNCHANGED <<fillVars, phase>>
  BY <1>1, <1>4 DEF fillVars, FillTyped
<1>5. CASE UNCHANGED fillVars /\ (AliveCrashes \/ MapRace)
  BY <1>1, <1>5 DEF fillVars, FillTyped, AliveCrashes, MapRace
<1>6. CASE NewRouter
  <2>1. Filling => entry \in 1..Len(list) /\ entry + 1 \in 1..Len(list) + 1
    BY <1>1, <1>3 DEF Filling
  <2>2. CASE FillSkip \/ FillPlain
    BY <1>1, <2>1, <2>2 DEF FillSkip, FillPlain, FillTyped
  <2>3. CASE FillAsk
    <3>1. Monitored[Entry.zone] \subseteq SentinelZones
      BY <2>3, PoolAssumption DEF FillAsk, PoolAssumption
    <3> QED
      BY <1>1, <2>3, <3>1 DEF FillAsk, FillTyped
  <2>4. CASE FillMaster
    BY <1>1, <2>1, <2>4 DEF FillMaster, FillTyped
  <2>5. CASE FillFails
    BY <1>1, <1>3, <2>5 DEF FillFails, FillTyped
  <2>6. CASE LoadFails \/ Start
    BY <1>1, <2>6 DEF LoadFails, Start, fillVars, FillTyped
  <2> QED
    BY <1>6, <2>2, <2>3, <2>4, <2>5, <2>6 DEF NewRouter
<1> QED
  BY <1>4, <1>5, <1>6, WhoChanges

LEMMA StepLockTyped == Inv /\ [Next]_vars => LockTyped'
<1> SUFFICES ASSUME Inv, [Next]_vars PROVE LockTyped'
  OBVIOUS
<1>1. LockTyped
  BY DEF Inv, Typed
<1>2. CASE NewRouter
  BY <1>1, <1>2 DEF NewRouter, FillSkip, FillPlain, FillAsk, FillMaster,
                    FillFails, LoadFails, Start, LockTyped, Procs
<1>3. CASE SentinelSwitch
  BY <1>1, <1>3 DEF SentinelSwitch, SwitchBegin, SwitchReturns, SwitchAsk,
                    SwitchRetain, SwitchRelease, SwitchAssign, RLock, RUnlock,
                    LockTyped, Procs
<1>4. CASE KeepAlive \/ MapRace
  BY <1>1, <1>4 DEF KeepAlive, AliveBegin, AliveNext, AlivePing, AliveCrashes,
                    AliveEnd, MapRace, RLock, RUnlock, LockTyped, Procs
<1>5. CASE CloseWaits \/ Close
  BY <1>1, <1>5 DEF CloseWaits, Close, CloseLocks, CloseZone, CloseEnds,
                    MayLock, LockTyped, Procs
<1>6. ASSUME NEW s \in Sessions,
             \/ \E op \in {"get", "set"}, z \in Zones : LookUp(s, op, z)
             \/ Session(s) \/ Answered(s)
      PROVE  LockTyped'
  BY <1>1, <1>6 DEF LookUp, Session, LockForCommand, Process, Push, PushPanics,
                    Answered, RLock, RUnlock, LockTyped, Procs
<1>7. ASSUME NEW z \in SentinelZones, NEW a \in Addrs,
             Failover(z, a) \/ Learn(z)
      PROVE  LockTyped'
  BY <1>1, <1>7 DEF Failover, Learn, LockTyped, Procs
<1>8. CASE UNCHANGED vars
  BY <1>1, <1>8 DEF vars, LockTyped, Procs
<1> QED
  BY <1>2, <1>3, <1>4, <1>5, <1>6, <1>7, <1>8 DEF Next

LEMMA StepSwitchTyped == Inv /\ [Next]_vars => SwitchTyped'
<1> SUFFICES ASSUME Inv, [Next]_vars PROVE SwitchTyped'
  OBVIOUS
<1>1. /\ Len(conns) \in Nat /\ Len(conns') \in Nat /\ Len(conns) <= Len(conns')
      /\ 0 \in Conns' /\ \A i \in Conns : i \in Conns'
  BY PoolStep DEF Conns
<1>2. /\ SwitchTyped /\ known \subseteq Zones /\ Current \in Zones
      /\ SentinelZones \subseteq Zones
  BY PoolAssumption DEF Inv, Typed, PoolTyped, PoolAssumption
<1>3. CASE sw' = sw
  BY <1>1, <1>2, <1>3 DEF SwitchTyped
<1>4. CASE SwitchBegin \/ SwitchReturns \/ SwitchAssign
  <2>1. PICK L \in SUBSET SentinelZones :
           \/ sw' = NoSwitch
           \/ sw' = [NoSwitch EXCEPT !.pc = "ask", !.left = L]
    <3>1. /\ sw.left \ {sw.zone} \in SUBSET SentinelZones
          /\ known \cap SentinelZones \in SUBSET SentinelZones
      BY <1>2 DEF SwitchTyped
    <3> QED
      BY <1>4, <3>1 DEF SwitchBegin, SwitchReturns, SwitchAssign
  <2>2. /\ NoSwitch \in [pc : {"idle", "ask", "retain", "release", "assign"},
                         left : SUBSET SentinelZones, zone : Zones,
                         addr : Addrs \cup {""}, conn : Nat]
        /\ NoSwitch.conn = 0 /\ NoSwitch.pc = "idle"
    BY <1>2 DEF NoSwitch
  <2> QED
    BY <1>1, <2>1, <2>2 DEF SwitchTyped
<1>5. CASE \E z \in SentinelZones : SwitchAsk(z)
  <2>1. PICK z \in SentinelZones, a \in Addrs :
           sw' = IF IsCurrentMaster(z, a) THEN [sw EXCEPT !.left = @ \ {z}]
                 ELSE [sw EXCEPT !.pc = "retain", !.zone = z, !.addr = a]
    <3>1. \A z \in SentinelZones : elected[z] \in Addrs /\ before[z] \in Addrs
      BY DEF Inv, Typed, ElectTyped
    <3> QED
      BY <1>5, <3>1 DEF SwitchAsk
  <2>2. sw.pc = "ask"
    BY <1>5 DEF SwitchAsk
  <2> QED
    BY <1>1, <1>2, <2>1, <2>2 DEF SwitchTyped
<1>6. CASE SwitchRetain
  <2>1. sw.addr \in Addrs /\ Retain(sw.addr)
    BY <1>2, <1>6 DEF SwitchRetain, SwitchTyped
  <2>2. Retained(sw.addr) \in 1..Len(conns')
    BY <2>1, TypedIs, RetainIs DEF Inv
  <2>3. Retained(sw.addr) \in Nat /\ Retained(sw.addr) \in Conns'
    BY <1>1, <2>2 DEF Conns
  <2> QED
    BY <1>2, <1>6, <2>3 DEF SwitchRetain, SwitchTyped
<1>7. CASE SwitchRelease
  BY <1>1, <1>2, <1>7 DEF SwitchRelease, SwitchTyped
<1> QED
  BY <1>3, <1>4, <1>5, <1>6, <1>7, WhoChanges DEF SentinelSwitch

LEMMA StepAliveTyped == Inv /\ [Next]_vars => AliveTyped'
<1> SUFFICES ASSUME Inv, [Next]_vars PROVE AliveTyped'
  OBVIOUS
<1>1. /\ 0 \in Conns' /\ \A i \in Conns : i \in Conns' /\ i \in Nat
  BY PoolStep DEF Conns
<1>2. AliveTyped
  BY DEF Inv, Typed
<1>3. CASE alive' = alive
  BY <1>1, <1>2, <1>3 DEF AliveTyped
<1>4. CASE AliveBegin \/ AliveEnd
  BY <1>1, <1>4 DEF AliveBegin, AliveEnd, NoRange, AliveTyped
<1>5. CASE AliveNext
  <2>1. PICK i \in InPool \ alive.seen :
           alive' = [pc |-> "ping", seen |-> alive.seen \cup {i}, conn |-> i]
    BY <1>5 DEF AliveNext
  <2>2. i \in Conns
    BY DEF InPool, Inv, Typed, PoolTyped
  <2>3. i \in Nat /\ i \in Conns' /\ alive.seen \cup {i} \in SUBSET Nat
    BY <1>1, <1>2, <2>2 DEF AliveTyped
  <2> QED
    BY <2>1, <2>3 DEF AliveTyped
<1>6. CASE AlivePing
  BY <1>1, <1>2, <1>6 DEF AlivePing, AliveTyped
<1>7. CASE AliveCrashes
  BY <1>1, <1>2, <1>7 DEF AliveCrashes, AliveTyped
<1> QED
  BY <1>3, <1>4, <1>5, <1>6, <1>7, WhoChanges DEF KeepAlive

LEMMA StepSessTyped == Inv /\ [Next]_vars => SessTyped'
<1> SUFFICES ASSUME Inv, [Next]_vars PROVE SessTyped'
  OBVIOUS
<1> DEFINE Command ==
             [pc : {"idle", "lock", "forward", "push", "wait", "stuck"},
              op : {"get", "set"}, zone : Zones, conn : Nat]
<1>1. /\ 0 \in Conns' /\ \A i \in Conns : i \in Conns' /\ i \in Nat
  BY PoolStep DEF Conns
<1>2. /\ sess \in [Sessions -> Command] /\ backend \in [Zones -> Conns]
      /\ \A s \in Sessions : sess[s].conn \in Conns
  BY DEF Inv, Typed, PoolTyped, SessTyped
<1>3. CASE sess' = sess
  BY <1>1, <1>2, <1>3 DEF SessTyped
<1>4. ASSUME NEW s \in Sessions,
             \/ \E op \in {"get", "set"}, z \in Zones : LookUp(s, op, z)
             \/ Session(s) \/ Answered(s)
      PROVE  SessTyped'
  <2>1. /\ sess[s] \in Command /\ sess[s].conn \in Conns
        /\ backend[sess[s].zone] \in Conns
    BY <1>2
  <2>2. NoCommand \in Command /\ NoCommand.conn = 0
    BY PoolAssumption DEF NoCommand, PoolAssumption
  <2>3. \E c \in Command : c.conn \in Conns' /\ sess' = [sess EXCEPT ![s] = c]
    <3>1. CASE \E op \in {"get", "set"}, z \in Zones : LookUp(s, op, z)
      BY <1>1, <3>1 DEF LookUp
    <3>2. CASE LockForCommand(s)
      BY <1>1, <2>1, <3>2 DEF LockForCommand
    <3>3. CASE Process(s)
      <4>1. PICK i \in Conns :
               sess' = [sess EXCEPT ![s].pc = "push", ![s].conn = i]
        BY <2>1, <3>3 DEF Process
      <4>2. [sess[s] EXCEPT !.pc = "push", !.conn = i] \in Command
        BY <1>1, <2>1
      <4>3. sess' = [sess EXCEPT ![s] =
                       [sess[s] EXCEPT !.pc = "push", !.conn = i]]
        BY <1>2, <4>1
      <4> QED
        BY <1>1, <2>1, <4>2, <4>3
    <3>4. CASE Push(s) \/ PushPanics(s) \/ Answered(s)
      <4>1. \/ sess' = [sess EXCEPT ![s] = NoCommand]
            \/ \E p \in {"wait", "stuck"} : sess' = [sess EXCEPT ![s].pc = p]
        BY <3>4 DEF Push, PushPanics, Answered
      <4> QED
        BY <1>1, <2>1, <2>2, <4>1
    <3> QED
      BY <1>4, <3>1, <3>2, <3>3, <3>4 DEF Session
  <2> QED
    BY <1>1, <1>2, <2>3 DEF SessTyped
<1> QED
  BY <1>3, <1>4, WhoChanges

LEMMA StepElectTyped == Inv /\ [Next]_vars => ElectTyped'
<1> SUFFICES ASSUME Inv, [Next]_vars PROVE ElectTyped'
  OBVIOUS
<1>1. ElectTyped /\ NSentinels \in Nat \ {0}
  BY PoolAssumption DEF Inv, Typed, PoolAssumption
<1>2. faults' \in Nat
  BY <1>1, WhoChanges DEF ElectTyped
<1>3. CASE UNCHANGED electVars
  BY <1>1, <1>2, <1>3 DEF electVars, ElectTyped
<1>4. ASSUME NEW z \in SentinelZones, NEW a \in Addrs, Failover(z, a)
      PROVE  ElectTyped'
  BY <1>1, <1>2, <1>4 DEF Failover, ElectTyped
<1>5. ASSUME NEW z \in SentinelZones, Learn(z)
      PROVE  ElectTyped'
  BY <1>1, <1>2, <1>5 DEF Learn, ElectTyped
<1> QED
  BY <1>3, <1>4, <1>5, WhoChanges

LEMMA StepTyped == Inv /\ [Next]_vars => Typed'
<1>1. ASSUME PoolTyped', FillTyped', LockTyped', SwitchTyped', AliveTyped',
             SessTyped', ElectTyped'
      PROVE  Typed'
  BY <1>1 DEF Typed
<1> QED
  BY <1>1, StepPoolTyped, StepFillTyped, StepLockTyped, StepSwitchTyped,
     StepAliveTyped, StepSessTyped, StepElectTyped

-----------------------------------------------------------------------------
(* Every user is counted.                                                  *)

AllCounted == \A i \in Nat \ {0} : Users(i) <= Ref(i)

LEMMA InvCounts ==
    ASSUME Inv
    PROVE  /\ TypeOK /\ Pooled /\ IsFiniteSet(known)
           /\ \A i \in Nat \ {0} :
                 /\ Ref(i) \in Nat /\ InHand(i) \in {0, 1}
                 /\ IsFiniteSet(Holders(i)) /\ Cardinality(Holders(i)) \in Nat
                 /\ Cardinality(Holders(i)) + InHand(i) <= Ref(i)
<1>1. TypeOK /\ Counted /\ Pooled /\ IsFiniteSet(known)
  BY TypedIs DEF Inv, Counted
<1>2. ASSUME NEW i \in Nat \ {0}
      PROVE  /\ Ref(i) \in Nat /\ InHand(i) \in {0, 1}
             /\ IsFiniteSet(Holders(i)) /\ Cardinality(Holders(i)) \in Nat
             /\ Cardinality(Holders(i)) + InHand(i) <= Ref(i)
  <2>1. Users(i) <= Ref(i) /\ Ref(i) \in Nat
    BY <1>1, UsersCountedAll
  <2> QED
    BY <1>1, <2>1, HoldersFinite DEF Users, InHand
<1> QED
  BY <1>1, <1>2

(* A zone takes the connection it has retained, or nobody does.            *)
LEMMA FillCounts ==
    ASSUME Inv, NEW a \in Addrs, Retain(a), NEW z \in Zones,
           SetZone(z, Retained(a)) \/ UNCHANGED zoneVars,
           phase = "filling", sw' = sw
    PROVE  AllCounted'
<1>1. sw.pc = "idle"
  BY DEF Inv, Guarded, LocksHeld
<1>2. backend \in [Zones -> Conns] /\ known \subseteq Zones
  BY DEF Inv, Typed, PoolTyped
<1> SUFFICES ASSUME NEW i \in Nat \ {0}
             PROVE  Users(i)' <= Ref(i)'
  BY DEF AllCounted
<1>3. /\ Ref(i) \in Nat /\ IsFiniteSet(Holders(i))
      /\ Cardinality(Holders(i)) \in Nat /\ Cardinality(Holders(i)) <= Ref(i)
  BY InvCounts
<1>4. Ref(i)' = IF i = Retained(a) THEN Ref(i) + 1 ELSE Ref(i)
  BY InvCounts, RetainIs
<1>5. InHand(i)' = 0
  BY <1>1 DEF InHand
<1>6. CASE i = Retained(a)
  <2>1. Holders(i)' \in SUBSET (Holders(i) \cup {z})
    BY <1>1, <1>2, <1>6 DEF Holders, SetZone, zoneVars
  <2>2. Cardinality(Holders(i)') \in Nat
        /\ Cardinality(Holders(i)') <= Cardinality(Holders(i)) + 1
    BY <1>3, <2>1, CardAdd
  <2> QED
    BY <1>3, <1>4, <1>5, <1>6, <2>2 DEF Users
<1>7. CASE i # Retained(a)
  <2>1. Holders(i)' \in SUBSET Holders(i)
    BY <1>1, <1>2, <1>7 DEF Holders, SetZone, zoneVars
  <2>2. Cardinality(Holders(i)') \in Nat
        /\ Cardinality(Holders(i)') <= Cardinality(Holders(i))
    BY <1>3, <2>1, CardSub
  <2> QED
    BY <1>3, <1>4, <1>5, <1>7, <2>2 DEF Users
<1> QED
  BY <1>6, <1>7

(* SentinelSwitch holds the new connection ...                             *)
LEMMA SwitchRetainCounts ==
    ASSUME Inv, SwitchRetain
    PROVE  AllCounted'
<1>1. sw.pc = "retain" /\ sw.addr \in Addrs /\ Retain(sw.addr)
  BY DEF SwitchRetain, Inv, Typed, SwitchTyped
<1>2. sw'.pc = "release" /\ sw'.conn = Retained(sw.addr)
  BY <1>1 DEF SwitchRetain, Inv, Typed, SwitchTyped
<1> SUFFICES ASSUME NEW i \in Nat \ {0}
             PROVE  Users(i)' <= Ref(i)'
  BY DEF AllCounted
<1>3. /\ Ref(i) \in Nat /\ Cardinality(Holders(i)) \in Nat
      /\ Cardinality(Holders(i)) <= Ref(i)
  <2>1. Ref(i) \in Nat /\ Cardinality(Holders(i)) \in Nat
        /\ InHand(i) \in {0, 1} /\ Cardinality(Holders(i)) + InHand(i) <= Ref(i)
    BY InvCounts
  <2> QED
    BY <2>1
<1>4. Ref(i)' = IF i = Retained(sw.addr) THEN Ref(i) + 1 ELSE Ref(i)
  BY <1>1, InvCounts, RetainIs
<1>5. InHand(i)' = IF i = Retained(sw.addr) THEN 1 ELSE 0
  BY <1>2 DEF InHand
<1>6. Holders(i)' = Holders(i)
  BY <1>1, <1>2 DEF Holders, SwitchRetain, zoneVars
<1> QED
  BY <1>3, <1>4, <1>5, <1>6 DEF Users

(* ... while the zone gives up the old one ...                             *)
LEMMA SwitchReleaseCounts ==
    ASSUME Inv, SwitchRelease
    PROVE  AllCounted'
<1> DEFINE z == sw.zone
           c == backend[z]
<1>1. sw.pc = "release" /\ z \in known /\ sw'.pc = "assign" /\ sw'.zone = z
      /\ sw'.conn = sw.conn /\ UNCHANGED zoneVars /\ Release(c)
  BY DEF SwitchRelease, Inv, Typed, SwitchTyped, Guarded, ZonesBacked
<1>2. closer \in {"no", "waiting"}
  BY <1>1 DEF Inv, Guarded, LocksHeld, Typed, LockTyped
<1>3. c # 0
  BY <1>1, <1>2 DEF Inv, Guarded, ZonesBacked
<1>4. c \in 1..Len(conns) /\ conns[c].ref > 0
  BY <1>1, <1>3, BackendOpen DEF Inv
<1> SUFFICES ASSUME NEW i \in Nat \ {0}
             PROVE  Users(i)' <= Ref(i)'
  BY DEF AllCounted
<1>5. /\ Ref(i) \in Nat /\ IsFiniteSet(Holders(i))
      /\ Cardinality(Holders(i)) \in Nat /\ InHand(i) \in {0, 1}
      /\ Cardinality(Holders(i)) + InHand(i) <= Ref(i)
  BY InvCounts
<1>6. Ref(i)' = IF i = c THEN Ref(i) - 1 ELSE Ref(i)
  BY <1>1, <1>4, InvCounts, ReleaseIs
<1>7. InHand(i)' = InHand(i)
  BY <1>1 DEF InHand
<1>8. Holders(i)' = Holders(i) \ {z}
  BY <1>1 DEF Holders, zoneVars
<1>9. CASE i = c
  <2>1. z \in Holders(i)
    BY <1>1, <1>9 DEF Holders
  <2>2. Cardinality(Holders(i)') = Cardinality(Holders(i)) - 1
    BY <1>5, <1>8, <2>1, CardLess
  <2> QED
    BY <1>5, <1>6, <1>7, <1>9, <2>2 DEF Users
<1>10. CASE i # c
  <2>1. Cardinality(Holders(i)') \in Nat
        /\ Cardinality(Holders(i)') <= Cardinality(Holders(i))
    BY <1>5, <1>8, CardSub
  <2> QED
    BY <1>5, <1>6, <1>7, <1>10, <2>1 DEF Users
<1> QED
  BY <1>9, <1>10

(* ... and then takes it over.                                             *)
LEMMA SwitchAssignCounts ==
    ASSUME Inv, SwitchAssign
    PROVE  AllCounted'
<1> DEFINE z == sw.zone
           c == sw.conn
<1>1. sw.pc = "assign" /\ sw'.pc = "ask" /\ known' = known /\ conns' = conns
      /\ backend' = [backend EXCEPT ![z] = c]
  <2>1. NoSwitch.pc = "idle" /\ DOMAIN NoSwitch = {"pc", "left", "zone", "addr", "conn"}
    BY DEF NoSwitch
  <2> QED
    BY <2>1 DEF SwitchAssign, poolVars
<1>2. backend \in [Zones -> Conns] /\ known \subseteq Zones
  BY DEF Inv, Typed, PoolTyped
<1> SUFFICES ASSUME NEW i \in Nat \ {0}
             PROVE  Users(i)' <= Ref(i)'
  BY DEF AllCounted
<1>3. /\ Ref(i) \in Nat /\ IsFiniteSet(Holders(i))
      /\ Cardinality(Holders(i)) \in Nat /\ InHand(i) \in {0, 1}
      /\ Cardinality(Holders(i)) + InHand(i) <= Ref(i)
  BY InvCounts
<1>4. Ref(i)' = Ref(i) /\ InHand(i)' = 0
  BY <1>1 DEF Ref, InHand
<1>5. CASE i = c
  <2>1. Holders(i)' \in SUBSET (Holders(i) \cup {z}) /\ InHand(i) = 1
    BY <1>1, <1>2, <1>5 DEF Holders, InHand
  <2>2. Cardinality(Holders(i)') \in Nat
        /\ Cardinality(Holders(i)') <= Cardinality(Holders(i)) + 1
    BY <1>3, <2>1, CardAdd
  <2> QED
    BY <1>3, <1>4, <2>1, <2>2 DEF Users
<1>6. CASE i # c
  <2>1. Holders(i)' \in SUBSET Holders(i)
    BY <1>1, <1>2, <1>6 DEF Holders
  <2>2. Cardinality(Holders(i)') \in Nat
        /\ Cardinality(Holders(i)') <= Cardinality(Holders(i))
    BY <1>3, <2>1, CardSub
  <2> QED
    BY <1>3, <1>4, <2>2 DEF Users
<1> QED
  BY <1>5, <1>6

(* Close gives up what every zone uses.                                    *)
LEMMA CloseZoneCounts ==
    ASSUME Inv, CloseZone
    PROVE  AllCounted'
<1>1. PICK z \in known : /\ backend[z] # 0 /\ Release(backend[z])
                         /\ backend' = [backend EXCEPT ![z] = 0]
  BY DEF CloseZone
<1> DEFINE c == backend[z]
<1>2. sw.pc = "idle" /\ sw' = sw /\ known' = known
  BY DEF CloseZone, Inv, Guarded, LocksHeld
<1>3. c \in 1..Len(conns) /\ conns[c].ref > 0
  BY <1>1, <1>2, BackendOpen DEF Inv
<1>4. backend \in [Zones -> Conns] /\ known \subseteq Zones
  BY DEF Inv, Typed, PoolTyped
<1> SUFFICES ASSUME NEW i \in Nat \ {0}
             PROVE  Users(i)' <= Ref(i)'
  BY DEF AllCounted
<1>5. /\ Ref(i) \in Nat /\ IsFiniteSet(Holders(i))
      /\ Cardinality(Holders(i)) \in Nat /\ InHand(i) \in {0, 1}
      /\ Cardinality(Holders(i)) + InHand(i) <= Ref(i)
  BY InvCounts
<1>6. Ref(i)' = IF i = c THEN Ref(i) - 1 ELSE Ref(i)
  BY <1>1, <1>3, InvCounts, ReleaseIs
<1>7. InHand(i)' = 0
  BY <1>2 DEF InHand
<1>8. Holders(i)' = Holders(i) \ {z}
  BY <1>1, <1>2, <1>4 DEF Holders
<1>9. CASE i = c
  <2>1. z \in Holders(i)
    BY <1>2, <1>9 DEF Holders
  <2>2. Cardinality(Holders(i)') = Cardinality(Holders(i)) - 1
    BY <1>5, <1>8, <2>1, CardLess
  <2> QED
    BY <1>5, <1>6, <1>7, <1>9, <2>2 DEF Users
<1>10. CASE i # c
  <2>1. Cardinality(Holders(i)') \in Nat
        /\ Cardinality(Holders(i)') <= Cardinality(Holders(i))
    BY <1>5, <1>8, CardSub
  <2> QED
    BY <1>5, <1>6, <1>7, <1>10, <2>1 DEF Users
<1> QED
  BY <1>9, <1>10

LEMMA CloseEndsCounts ==
    ASSUME Inv, CloseEnds
    PROVE  AllCounted'
<1> SUFFICES ASSUME NEW i \in Nat \ {0}
             PROVE  Users(i)' <= Ref(i)'
  BY DEF AllCounted
<1>1. /\ Ref(i) \in Nat /\ Cardinality(Holders(i)) \in Nat
      /\ InHand(i) \in {0, 1} /\ Cardinality(Holders(i)) + InHand(i) <= Ref(i)
  BY InvCounts
<1>2. Holders(i)' = {} /\ InHand(i)' = InHand(i) /\ Ref(i)' = Ref(i)
  BY DEF CloseEnds, Holders, InHand, Ref, poolVars
<1> QED
  BY <1>1, <1>2, FS_EmptySet DEF Users

(* The other steps of SentinelSwitch do not give up or take a connection.  *)
LEMMA NoUserChanges ==
    ASSUME Inv, UNCHANGED <<poolVars, zoneVars>>,
           sw' = sw \/ {sw.pc, sw'.pc} \subseteq {"idle", "ask", "retain"}
    PROVE  AllCounted'
<1> SUFFICES ASSUME NEW i \in Nat \ {0}
             PROVE  Users(i)' <= Ref(i)'
  BY DEF AllCounted
<1>1. Cardinality(Holders(i)) + InHand(i) <= Ref(i)
  BY InvCounts
<1>2. Holders(i)' = Holders(i) /\ InHand(i)' = InHand(i) /\ Ref(i)' = Ref(i)
  BY DEF Holders, InHand, Ref, poolVars, zoneVars
<1> QED
  BY <1>1, <1>2 DEF Users

LEMMA StepAllCounted == Inv /\ [Next]_vars => AllCounted'
<1> SUFFICES ASSUME Inv, [Next]_vars PROVE AllCounted'
  OBVIOUS
<1>1. CASE FillPlain
  <2>1. Entry.zone \in Zones /\ Entry.addr \in Addrs
    BY <1>1, EntryIs DEF FillPlain, Inv, Typed
  <2> QED
    BY <1>1, <2>1, FillCounts DEF FillPlain, Filling
<1>2. CASE FillMaster
  <2>1. PICK n \in found :
           /\ Retain(elected[n]) /\ Filling
           /\ IF n = Entry.zone THEN SetZone(n, Retained(elected[n]))
                                ELSE UNCHANGED zoneVars
    BY <1>2 DEF FillMaster
  <2>2. elected[n] \in Addrs /\ n \in Zones
    BY PoolAssumption DEF Inv, Typed, FillTyped, ElectTyped, PoolAssumption
  <2> QED
    BY <1>2, <2>1, <2>2, FillCounts DEF FillMaster, Filling
<1>3. CASE FillSkip \/ FillAsk \/ FillFails \/ LoadFails \/ Start
  BY <1>3, NoUserChanges DEF FillSkip, FillAsk, FillFails, LoadFails, Start
<1>4. CASE SwitchRetain \/ SwitchRelease \/ SwitchAssign
  BY <1>4, SwitchRetainCounts, SwitchReleaseCounts, SwitchAssignCounts
<1>5. CASE SwitchBegin \/ SwitchReturns \/ \E z \in SentinelZones : SwitchAsk(z)
  <2>1. sw.pc \in {"idle", "ask"}
    BY <1>5 DEF SwitchBegin, SwitchReturns, SwitchAsk
  <2>2. sw'.pc \in {"idle", "ask", "retain"}
    <3>1. NoSwitch.pc = "idle" /\ [NoSwitch EXCEPT !.pc = "ask",
                                   !.left = known \cap SentinelZones].pc = "ask"
      BY DEF NoSwitch
    <3>2. SwitchTyped
      BY DEF Inv, Typed
    <3> QED
      BY <1>5, <2>1, <3>1, <3>2
      DEF SwitchBegin, SwitchReturns, SwitchAsk, SwitchTyped
  <2> QED
    BY <1>5, <2>1, <2>2, NoUserChanges DEF SwitchBegin, SwitchReturns, SwitchAsk
<1>6. CASE KeepAlive \/ MapRace
  BY <1>6, NoUserChanges DEF KeepAlive, AliveBegin, AliveNext, AlivePing,
                             AliveCrashes, AliveEnd, MapRace
<1>7. CASE CloseWaits \/ CloseLocks
  BY <1>7, NoUserChanges DEF CloseWaits, CloseLocks
<1>8. CASE CloseZone \/ CloseEnds
  BY <1>8, CloseZoneCounts, CloseEndsCounts
<1>9. ASSUME NEW s \in Sessions,
             \/ \E op \in {"get", "set"}, z \in Zones : LookUp(s, op, z)
             \/ Session(s) \/ Answered(s)
      PROVE  AllCounted'
  BY <1>9, NoUserChanges DEF LookUp, Session, LockForCommand, Process, Push,
                             PushPanics, Answered
<1>10. ASSUME NEW z \in SentinelZones, NEW a \in Addrs,
              Failover(z, a) \/ Learn(z)
       PROVE  AllCounted'
  BY <1>10, NoUserChanges DEF Failover, Learn
<1>11. CASE UNCHANGED vars
  BY <1>11, NoUserChanges DEF vars
<1> QED
  BY <1>1, <1>2, <1>3, <1>4, <1>5, <1>6, <1>7, <1>8, <1>9, <1>10, <1>11
  DEF Next, NewRouter, SentinelSwitch, Close

LEMMA StepCounted == Inv /\ [Next]_vars => Counted'
<1> SUFFICES ASSUME Inv, [Next]_vars PROVE Counted'
  OBVIOUS
<1>1. AllCounted' /\ Len(conns)' \in Nat
  BY StepAllCounted, PoolStep
<1>2. IsFiniteSet(known')
  <2>1. IsFiniteSet(known)
    BY DEF Inv, Counted
  <2>2. known' = known \/ known' = {} \/ \E z : known' = known \cup {z}
    BY WhoChanges DEF zoneVars, FillPlain, FillMaster, SetZone, SwitchAssign,
                      CloseZone, CloseEnds
  <2> QED
    BY <2>1, <2>2, FS_AddElement, FS_EmptySet
<1>3. ASSUME NEW i \in 1..Len(conns)'
      PROVE  (Cardinality(Holders(i)) + InHand(i) <= conns[i].ref)'
  <2>1. i \in Nat \ {0} /\ Users(i)' <= Ref(i)'
    BY <1>1, <1>3 DEF AllCounted
  <2> QED
    BY <1>3, <2>1 DEF Users, Ref
<1> QED
  BY <1>2, <1>3 DEF Counted, UsersCounted

-----------------------------------------------------------------------------
(* What router.mu keeps apart.                                             *)

LEMMA StepLocksHeld == Inv /\ [Next]_vars => LocksHeld'
<1> SUFFICES ASSUME Inv, [Next]_vars PROVE LocksHeld'
  OBVIOUS
<1>1. /\ LocksHeld /\ readers \subseteq Procs
      /\ closer \in {"no", "waiting", "locked", "done"}
      /\ "switch" \notin Sessions /\ "alive" \notin Sessions
  BY PoolAssumption DEF Inv, Guarded, Typed, LockTyped, PoolAssumption
<1>2. CASE NewRouter
  BY <1>1, <1>2 DEF NewRouter, FillSkip, FillPlain, FillAsk, FillMaster,
                    FillFails, LoadFails, Start, LocksHeld
<1>3. CASE SwitchBegin \/ SwitchReturns
  <2>1. NoSwitch.pc = "idle"
    BY DEF NoSwitch
  <2> QED
    BY <1>1, <1>3, <2>1 DEF SwitchBegin, SwitchReturns, RLock, RUnlock, LocksHeld
<1>4. CASE \E z \in SentinelZones : SwitchAsk(z)
  BY <1>1, <1>4 DEF SwitchAsk, LocksHeld
<1>5. CASE SwitchRetain \/ SwitchRelease \/ SwitchAssign
  BY <1>1, <1>5 DEF SwitchRetain, SwitchRelease, SwitchAssign, LocksHeld
<1>6. CASE KeepAlive \/ MapRace
  <2>1. NoRange.pc = "idle"
    BY DEF NoRange
  <2> QED
    BY <1>1, <1>6, <2>1
    DEF KeepAlive, AliveBegin, AliveNext, AlivePing, AliveCrashes, AliveEnd,
        MapRace, RLock, RUnlock, LocksHeld
<1>7. CASE CloseWaits \/ Close
  BY <1>1, <1>7 DEF CloseWaits, Close, CloseLocks, CloseZone, CloseEnds,
                    MayLock, LocksHeld
<1>8. ASSUME NEW s \in Sessions,
             \/ \E op \in {"get", "set"}, z \in Zones : LookUp(s, op, z)
             \/ Session(s) \/ Answered(s)
      PROVE  LocksHeld'
  BY <1>1, <1>8 DEF LookUp, Session, LockForCommand, Process, Push, PushPanics,
                    Answered, RLock, RUnlock, LocksHeld
<1>9. ASSUME NEW z \in SentinelZones, NEW a \in Addrs,
             Failover(z, a) \/ Learn(z)
      PROVE  LocksHeld'
  BY <1>1, <1>9 DEF Failover, Learn, LocksHeld
<1>10. CASE UNCHANGED vars
  BY <1>1, <1>10 DEF vars, LocksHeld
<1> QED
  BY <1>2, <1>3, <1>4, <1>5, <1>6, <1>7, <1>8, <1>9, <1>10
  DEF Next, SentinelSwitch

LEMMA StepZonesBacked == Inv /\ [Next]_vars => ZonesBacked'
<1> SUFFICES ASSUME Inv, [Next]_vars PROVE ZonesBacked'
  OBVIOUS
<1>1. /\ ZonesBacked /\ TypeOK /\ Pooled /\ SwitchTyped
      /\ closer \in {"no", "waiting", "locked", "done"}
      /\ backend \in [Zones -> Conns] /\ known \subseteq Zones
      /\ closer \in {"locked", "done"} => sw.pc = "idle"
      /\ phase = "filling" => sw.pc = "idle"
  BY TypedIs DEF Inv, Guarded, LocksHeld, Typed, LockTyped, PoolTyped
<1>2. \A a \in Addrs : Retain(a) => Retained(a) # 0
  BY <1>1, RetainIs
<1>3. CASE UNCHANGED <<zoneVars, sw, closer>>
  BY <1>1, <1>3 DEF zoneVars, ZonesBacked
<1>4. CASE FillPlain
  <2>1. Entry.zone \in Zones /\ Retained(Entry.addr) # 0
    BY <1>2, <1>4, EntryIs DEF FillPlain, Inv, Typed
  <2> QED
    BY <1>1, <1>4, <2>1 DEF FillPlain, SetZone, ZonesBacked
<1>5. CASE FillMaster
  <2>1. PICK n \in found :
           /\ Retain(elected[n]) /\ UNCHANGED <<sw, closer>>
           /\ IF n = Entry.zone THEN SetZone(n, Retained(elected[n]))
                                ELSE UNCHANGED zoneVars
    BY <1>5 DEF FillMaster
  <2>2. elected[n] \in Addrs /\ n \in Zones
    BY PoolAssumption DEF Inv, Typed, FillTyped, ElectTyped, PoolAssumption
  <2>3. Retained(elected[n]) # 0
    BY <1>2, <2>1, <2>2
  <2> QED
    BY <1>1, <2>1, <2>2, <2>3 DEF SetZone, zoneVars, ZonesBacked
<1>6. CASE FillSkip \/ FillAsk \/ FillFails \/ LoadFails \/ Start
  BY <1>3, <1>6 DEF FillSkip, FillAsk, FillFails, LoadFails, Start
<1>7. CASE SwitchBegin \/ SwitchReturns \/ SwitchAssign
  <2>1. NoSwitch = [pc |-> "idle", left |-> {}, zone |-> Current, addr |-> "",
                    conn |-> 0]
    BY DEF NoSwitch
  <2>2. CASE SwitchReturns
    BY <1>1, <2>1, <2>2 DEF SwitchReturns, zoneVars, ZonesBacked
  <2>3. CASE SwitchBegin
    <3>1. sw'.pc = "ask" /\ sw'.left = known \cap SentinelZones
      BY <2>1, <2>3 DEF SwitchBegin
    <3> QED
      BY <1>1, <2>3, <3>1 DEF SwitchBegin, zoneVars, ZonesBacked
  <2>4. CASE SwitchAssign
    <3>1. sw'.pc = "ask" /\ sw'.left = sw.left \ {sw.zone}
      BY <2>1, <2>4 DEF SwitchAssign
    <3> QED
      BY <1>1, <2>4, <3>1 DEF SwitchAssign, ZonesBacked
  <2> QED
    BY <1>7, <2>2, <2>3, <2>4
<1>8. CASE \E z \in SentinelZones : SwitchAsk(z)
  <2>1. PICK z \in SentinelZones : SwitchAsk(z)
    BY <1>8
  <2>2. PICK a :
           sw' = IF IsCurrentMaster(z, a) THEN [sw EXCEPT !.left = @ \ {z}]
                 ELSE [sw EXCEPT !.pc = "retain", !.zone = z, !.addr = a]
    BY <2>1 DEF SwitchAsk
  <2>3. sw.pc = "ask" /\ z \in sw.left /\ UNCHANGED <<zoneVars, closer>>
    BY <2>1 DEF SwitchAsk
  <2> QED
    BY <1>1, <2>2, <2>3 DEF zoneVars, ZonesBacked, SwitchTyped
<1>9. CASE SwitchRetain
  <2>1. /\ sw.pc = "retain" /\ Retained(sw.addr) # 0
        /\ sw' = [sw EXCEPT !.pc = "release", !.conn = Retained(sw.addr)]
        /\ UNCHANGED <<zoneVars, closer>>
    BY <1>1, <1>2, <1>9 DEF SwitchRetain, SwitchTyped
  <2> QED
    BY <1>1, <2>1 DEF zoneVars, ZonesBacked, SwitchTyped
<1>10. CASE SwitchRelease
  BY <1>1, <1>10 DEF SwitchRelease, zoneVars, ZonesBacked, SwitchTyped
<1>11. CASE KeepAlive \/ MapRace
  BY <1>3, <1>11 DEF KeepAlive, AliveBegin, AliveNext, AlivePing, AliveCrashes,
                     AliveEnd, MapRace
<1>12. CASE CloseWaits \/ Close
  BY <1>1, <1>12 DEF CloseWaits, Close, CloseLocks, CloseZone, CloseEnds,
                     zoneVars, ZonesBacked
<1>13. ASSUME NEW s \in Sessions,
              \/ \E op \in {"get", "set"}, z \in Zones : LookUp(s, op, z)
              \/ Session(s) \/ Answered(s)
       PROVE  ZonesBacked'
  BY <1>3, <1>13 DEF LookUp, Session, LockForCommand, Process, Push,
                     PushPanics, Answered
<1>14. ASSUME NEW z \in SentinelZones, NEW a \in Addrs,
              Failover(z, a) \/ Learn(z)
       PROVE  ZonesBacked'
  BY <1>3, <1>14 DEF Failover, Learn
<1>15. CASE UNCHANGED vars
  BY <1>3, <1>15 DEF vars
<1> QED
  BY <1>4, <1>5, <1>6, <1>7, <1>8, <1>9, <1>10, <1>11, <1>12, <1>13, <1>14,
     <1>15
  DEF Next, NewRouter, SentinelSwitch

(* Until Close has the lock no zone goes away.                             *)
LEMMA CloseIsFinal ==
    ASSUME Inv, [Next]_vars, closer' \in {"no", "waiting"}
    PROVE  closer \in {"no", "waiting"} /\ known \subseteq known'
<1>1. closer \in {"no", "waiting"} /\ ~CloseEnds
  BY WhoChanges DEF CloseWaits, Close, CloseLocks, CloseZone, CloseEnds
<1> QED
  BY <1>1, WhoChanges DEF zoneVars, FillPlain, FillMaster, SetZone, SwitchAssign,
                          CloseZone

LEMMA StepCommandsHeld == Inv /\ [Next]_vars => CommandsHeld'
<1> SUFFICES ASSUME Inv, [Next]_vars, NEW t \in Sessions
             PROVE  CommandHeld(t)'
  BY DEF CommandsHeld
<1>1. /\ CommandsHeld /\ SessTyped
      /\ "switch" \notin Sessions /\ "alive" \notin Sessions
  BY PoolAssumption DEF Inv, Guarded, Typed, PoolAssumption
<1>2. CASE sess' = sess /\ (readers \ {"switch", "alive"}) \subseteq readers'
  BY <1>1, <1>2, CloseIsFinal DEF CommandsHeld, CommandHeld
<1>3. CASE NewRouter
  BY <1>2, <1>3 DEF NewRouter, FillSkip, FillPlain, FillAsk, FillMaster,
                    FillFails, LoadFails, Start
<1>4. CASE SentinelSwitch
  BY <1>2, <1>4 DEF SentinelSwitch, SwitchBegin, SwitchReturns, SwitchAsk,
                    SwitchRetain, SwitchRelease, SwitchAssign, RLock, RUnlock
<1>5. CASE KeepAlive \/ MapRace
  BY <1>2, <1>5 DEF KeepAlive, AliveBegin, AliveNext, AlivePing, AliveCrashes,
                    AliveEnd, MapRace, RLock, RUnlock
<1>6. CASE CloseWaits \/ Close
  BY <1>2, <1>6 DEF CloseWaits, Close, CloseLocks, CloseZone, CloseEnds
<1>7. ASSUME NEW s \in Sessions,
             \/ \E op \in {"get", "set"}, z \in Zones : LookUp(s, op, z)
             \/ Session(s) \/ Answered(s)
      PROVE  CommandHeld(t)'
  <2>1. UNCHANGED <<known, closer>>
    BY <1>7 DEF LookUp, Session, LockForCommand, Process, Push, PushPanics,
                Answered, zoneVars
  <2>2. CASE t # s
    <3>1. /\ sess'[t] = sess[t]
          /\ t \in readers => t \in readers'
      BY <1>1, <1>7, <2>2
      DEF LookUp, Session, LockForCommand, Process, Push, PushPanics, Answered,
          RLock, RUnlock, SessTyped
    <3> QED
      BY <1>1, <2>1, <3>1 DEF CommandsHeld, CommandHeld
  <2>3. CASE t = s
    <3>1. CASE \E op \in {"get", "set"}, z \in Zones : LookUp(s, op, z)
      BY <1>1, <2>1, <2>3, <3>1 DEF LookUp, SessTyped, CommandHeld
    <3>2. CASE LockForCommand(s) \/ Process(s)
      BY <1>1, <2>1, <2>3, <3>2
      DEF LockForCommand, Process, RLock, SessTyped, CommandsHeld, CommandHeld
    <3>3. CASE Push(s) \/ PushPanics(s) \/ Answered(s)
      <4>1. NoCommand.pc = "idle"
        BY DEF NoCommand
      <4> QED
        BY <1>1, <2>1, <2>3, <3>3, <4>1
        DEF Push, PushPanics, Answered, RUnlock, SessTyped, CommandsHeld,
            CommandHeld
    <3> QED
      BY <1>7, <3>1, <3>2, <3>3 DEF Session
  <2> QED
    BY <2>2, <2>3
<1>8. ASSUME NEW z \in SentinelZones, NEW a \in Addrs,
             Failover(z, a) \/ Learn(z)
      PROVE  UNCHANGED <<sess, readers>>
  BY <1>8 DEF Failover, Learn
<1>9. CASE UNCHANGED vars
  BY <1>2, <1>9 DEF vars
<1> QED
  BY <1>2, <1>3, <1>4, <1>5, <1>6, <1>7, <1>8, <1>9 DEF Next

LEMMA StepGuarded == Inv /\ [Next]_vars => Guarded'
<1>1. LocksHeld' /\ ZonesBacked' /\ CommandsHeld' => Guarded'
  BY DEF Guarded
<1> QED
  BY <1>1, StepLocksHeld, StepZonesBacked, StepCommandsHeld

-----------------------------------------------------------------------------
(* As long as no master changes and every sentinel answers.                *)

LEMMA NoneOfEither ==
    ASSUME NEW m \in Nat, NEW n \in Nat, m + n = 0
    PROVE  m = 0 /\ n = 0
OBVIOUS

LEMMA QuietBefore ==
    ASSUME Inv, [Next]_vars, failovers' + faults' = 0
    PROVE  /\ failovers + faults = 0 /\ NothingSwitched
           /\ elected' = elected /\ ~Fault
<1>1. /\ failovers \in Nat /\ faults \in Nat
      /\ failovers' \in Nat /\ faults' \in Nat
  <2>1. ElectTyped'
    BY StepElectTyped
  <2> QED
    BY <2>1 DEF ElectTyped, Inv, Typed
<1>2. faults' = 0 /\ failovers' = 0 /\ faults = 0
  <2>1. faults' \in {faults, faults + 1}
    BY WhoChanges
  <2>2. faults' = 0 /\ failovers' = 0
    BY <1>1, NoneOfEither
  <2> QED
    BY <1>1, <2>1, <2>2
<1>3. failovers = 0 /\ elected' = elected
  <2>1. CASE UNCHANGED electVars
    BY <1>2, <2>1 DEF electVars
  <2>2. ASSUME NEW z \in SentinelZones, NEW a \in Addrs, Failover(z, a)
        PROVE  FALSE
    BY <1>1, <1>2, <2>2 DEF Failover
  <2>3. ASSUME NEW z \in SentinelZones, Learn(z)
        PROVE  failovers = 0 /\ elected' = elected
    BY <1>2, <2>3 DEF Learn
  <2> QED
    BY <2>1, <2>2, <2>3, WhoChanges
<1>4. ~Fault
  BY <1>2 DEF Fault
<1> QED
  BY <1>2, <1>3, <1>4 DEF Inv, Quiet

(* Every answer is its master, which the zone has.                         *)
LEMMA QuietAsk ==
    ASSUME Inv, [Next]_vars, failovers' + faults' = 0,
           NEW z \in SentinelZones, SwitchAsk(z)
    PROVE  sw'.pc = "ask"
<1>1. /\ NothingSwitched /\ ~Fault /\ sw.pc = "ask" /\ z \in sw.left
      /\ closer \in {"no", "waiting"} /\ z \in known
  BY QuietBefore
  DEF SwitchAsk, Inv, Typed, LockTyped, Guarded, LocksHeld, ZonesBacked
<1>2. IsCurrentMaster(z, elected[z])
  BY <1>1 DEF NothingSwitched, MastersUsed, IsCurrentMaster
<1>3. PICK results :
         LET m == Masters(results, NSentinels)
             a == IF m = "fresh" THEN elected[z] ELSE before[z]
         IN  /\ IF Len(results) = NSentinels /\ m = "fresh"
                THEN UNCHANGED faults ELSE Fault
             /\ sw' = IF IsCurrentMaster(z, a) THEN [sw EXCEPT !.left = @ \ {z}]
                      ELSE [sw EXCEPT !.pc = "retain", !.zone = z, !.addr = a]
  BY DEF SwitchAsk
<1>4. Masters(results, NSentinels) = "fresh"
  BY <1>1, <1>3
<1>5. sw' = [sw EXCEPT !.left = @ \ {z}]
  BY <1>2, <1>3, <1>4
<1> QED
  BY <1>1, <1>5 DEF Inv, Typed, SwitchTyped

(* Only Close releases a connection.                                       *)
LEMMA QuietOpen ==
    ASSUME Inv, [Next]_vars, failovers' + faults' = 0, closer # "locked",
           NEW i \in 1..Len(conns), Open(i)
    PROVE  Open(i)'
<1>1. /\ Len(conns) \in Nat /\ Len(conns') \in Nat /\ Len(conns) <= Len(conns')
      /\ TypeOK /\ Pooled
  BY PoolStep, TypedIs DEF Inv
<1>2. i \in 1..Len(conns') /\ i \in Nat \ {0}
  BY <1>1
<1>3. Ref(i) \in Nat /\ Ref(i) > 0
  BY <1>2, InvCounts DEF Ref, Open
<1>4. Ref(i)' \in {Ref(i), Ref(i) + 1}
  <2>1. CASE UNCHANGED poolVars
    BY <2>1 DEF poolVars, Ref
  <2>2. CASE \E a \in Addrs : Retain(a)
    BY <1>1, <1>2, <2>2, RetainIs
  <2>3. ~SwitchRelease /\ ~CloseZone
    BY QuietBefore DEF NothingSwitched, SwitchRelease, CloseZone
  <2> QED
    BY <2>1, <2>2, <2>3, PoolChanges
<1> QED
  BY <1>2, <1>3, <1>4 DEF Ref, Open

LEMMA StepMastersUsed ==
    ASSUME Inv, [Next]_vars, failovers' + faults' = 0
    PROVE  MastersUsed'
<1> SUFFICES ASSUME closer' \in {"no", "waiting"},
                    NEW z \in known' \cap SentinelZones
             PROVE  conns'[backend'[z]].addr = elected[z]
  BY QuietBefore DEF MastersUsed
<1>1. /\ closer \in {"no", "waiting"} /\ elected' = elected
      /\ NothingSwitched /\ TypeOK /\ Pooled /\ Len(conns) \in Nat
      /\ backend \in [Zones -> 0..Len(conns)] /\ known \subseteq Zones
      /\ \A y \in known : backend[y] # 0
  BY CloseIsFinal, QuietBefore, TypedIs, PoolStep
  DEF Inv, Guarded, ZonesBacked, Typed, PoolTyped, Conns
<1>2. ASSUME z \in known
      PROVE  conns'[backend[z]].addr = elected[z]
  <2>1. conns[backend[z]].addr = elected[z]
    BY <1>1, <1>2 DEF NothingSwitched, MastersUsed
  <2>2. backend[z] \in 1..Len(conns)
    BY <1>1, <1>2
  <2> QED
    BY <2>1, <2>2, PoolStep
<1>3. CASE UNCHANGED zoneVars
  BY <1>2, <1>3 DEF zoneVars
<1>4. CASE FillPlain
  <2>1. z \in known /\ backend'[z] = backend[z]
    BY <1>1, <1>4 DEF FillPlain, SetZone
  <2> QED
    BY <1>2, <2>1
<1>5. CASE FillMaster
  <2>1. PICK n \in found :
           /\ Retain(elected[n])
           /\ IF n = Entry.zone THEN SetZone(n, Retained(elected[n]))
                                ELSE UNCHANGED zoneVars
    BY <1>5 DEF FillMaster
  <2>2. elected[n] \in Addrs /\ n \in Zones
    BY PoolAssumption DEF Inv, Typed, FillTyped, ElectTyped, PoolAssumption
  <2>3. conns'[Retained(elected[n])].addr = elected[n]
    BY <1>1, <2>1, <2>2, RetainIs
  <2> QED
    BY <1>1, <1>2, <1>3, <2>1, <2>2, <2>3 DEF SetZone
<1>6. ~SwitchAssign /\ ~CloseZone /\ ~CloseEnds
  BY <1>1 DEF NothingSwitched, SwitchAssign, CloseZone, CloseEnds
<1> QED
  BY <1>3, <1>4, <1>5, <1>6, WhoChanges

LEMMA StepPingsOpen ==
    ASSUME Inv, [Next]_vars, failovers' + faults' = 0
    PROVE  PingsOpen'
<1> SUFFICES ASSUME alive'.pc = "ping"
             PROVE  Open(alive.conn)'
  BY DEF PingsOpen
<1>1. /\ NothingSwitched /\ AliveTyped /\ PoolTyped /\ Pooled
      /\ closer = "locked" => alive.pc = "idle"
  BY QuietBefore DEF Inv, Typed, Guarded, LocksHeld
<1>2. alive.pc \in {"range", "ping"}
  BY <1>1, WhoChanges DEF KeepAlive, AliveBegin, AliveNext, AlivePing,
                          AliveCrashes, AliveEnd, NoRange, AliveTyped
<1>3. CASE alive' = alive
  <2>1. alive.conn \in 1..Len(conns) /\ Open(alive.conn)
    BY <1>1, <1>3 DEF NothingSwitched, PingsOpen, AliveTyped, Conns, Open
  <2>2. Open(alive.conn)
    BY <2>1
  <2>3. ASSUME NEW i \in 1..Len(conns), Open(i), alive.conn = i
        PROVE  Open(i)'
    BY <1>1, <1>2, <2>3, QuietOpen
  <2> QED
    BY <1>3, <2>1, <2>3 DEF Open
<1>4. CASE AliveNext
  <2>1. PICK i \in InPool : alive'.conn = i
    BY <1>4 DEF AliveNext
  <2>2. i \in 1..Len(conns) /\ Open(i)
    <3>1. PICK a \in Addrs : pool[a] = i /\ i # 0
      BY DEF InPool
    <3>2. i \in 1..Len(conns) /\ conns[i].addr = a
      BY <1>1, <3>1, LenProperties DEF Pooled, PoolTyped, Conns
    <3> QED
      BY <1>1, <3>1, <3>2 DEF Pooled, PoolExact
  <2>3. conns' = conns
    BY <1>4 DEF AliveNext, poolVars
  <2> QED
    BY <2>1, <2>2, <2>3 DEF Open
<1>5. CASE AliveCrashes
  BY <1>3, <1>5 DEF AliveCrashes
<1>6. ~AliveBegin /\ ~AlivePing /\ ~AliveEnd
  <2>1. ~AliveBegin
    BY <1>2 DEF AliveBegin
  <2>2. ~AlivePing
    BY <1>1 DEF AlivePing, AliveTyped
  <2>3. ~AliveEnd
    BY DEF AliveEnd, NoRange
  <2> QED
    BY <2>1, <2>2, <2>3
<1> QED
  BY <1>3, <1>4, <1>5, <1>6, WhoChanges DEF KeepAlive

LEMMA StepCommandSafe ==
    ASSUME Inv, [Next]_vars, failovers' + faults' = 0, NEW t \in Sessions
    PROVE  CommandSafe(t)'
<1> SUFFICES ASSUME closer' # "done", sess'[t].op = "get"
             PROVE  /\ sess'[t].pc # "stuck"
                    /\ sess'[t].pc \in {"push", "wait"} =>
                          sess'[t].conn # 0 /\ conns'[sess'[t].conn].ref > 0
  BY DEF CommandSafe, Open
<1>1. /\ NothingSwitched /\ SessTyped /\ PoolTyped /\ LockTyped /\ CommandsHeld
      /\ Counted /\ Typed
      /\ closer \in {"no", "waiting"} => \A z \in known : backend[z] # 0
  BY QuietBefore DEF Inv, Typed, Guarded, ZonesBacked
<1>2. closer # "done"
  BY WhoChanges DEF CloseWaits, Close, CloseLocks, CloseZone, CloseEnds
<1>3. ASSUME sess[t].op = "get", sess[t].pc \in {"push", "wait"}
      PROVE  /\ sess[t].conn # 0 /\ conns[sess[t].conn].ref > 0
             /\ conns'[sess[t].conn].ref > 0
  <2>1. t \in readers
    BY <1>1, <1>3 DEF CommandsHeld, CommandHeld
  <2>2. closer # "locked"
    BY <1>1, <2>1 DEF LockTyped
  <2>3. Open(sess[t].conn) /\ sess[t].conn \in 1..Len(conns)
    BY <1>1, <1>2, <1>3
    DEF NothingSwitched, CommandSafe, SessTyped, Conns, Open
  <2>4. ASSUME NEW i \in 1..Len(conns), Open(i)
        PROVE  conns'[i].ref > 0
    BY <2>2, <2>4, QuietOpen DEF Open
  <2> QED
    BY <2>3, <2>4 DEF Open
<1>4. CASE sess'[t] = sess[t]
  <2>1. sess[t].pc # "stuck"
    BY <1>1, <1>2, <1>4 DEF NothingSwitched, CommandSafe
  <2> QED
    BY <1>3, <1>4, <2>1 DEF Open
<1>5. CASE \E op \in {"get", "set"}, z \in Zones : LookUp(t, op, z)
  BY <1>1, <1>5 DEF LookUp, SessTyped
<1>6. CASE LockForCommand(t)
  BY <1>1, <1>6 DEF LockForCommand, SessTyped
<1>7. CASE Process(t)
  <2>1. /\ sess[t].op = "get" /\ sess[t].pc = "forward"
        /\ sess'[t].pc = "push" /\ sess'[t].conn = backend[sess[t].zone]
        /\ conns' = conns
    BY <1>1, <1>7 DEF Process, SessTyped, poolVars
  <2>2. t \in readers
    BY <1>1, <2>1 DEF CommandsHeld, CommandHeld
  <2>3. closer \in {"no", "waiting"}
    BY <1>1, <1>2, <2>2 DEF LockTyped
  <2>4. sess[t].zone \in known /\ backend[sess[t].zone] # 0
    BY <1>1, <2>1, <2>3 DEF CommandsHeld, CommandHeld
  <2>5. Open(backend[sess[t].zone])
    BY <1>1, <2>4, BackendOpen DEF NothingSwitched
  <2> QED
    BY <2>1, <2>5 DEF Open
<1>8. CASE Push(t) \/ PushPanics(t) \/ Answered(t)
  <2>1. NoCommand.pc = "idle"
    BY DEF NoCommand
  <2>2. conns' = conns
    BY <1>8 DEF Push, PushPanics, Answered, poolVars
  <2>3. CASE sess'[t] = NoCommand
    BY <2>1, <2>3
  <2>4. CASE \E p \in {"wait", "stuck"} : sess'[t] = [sess[t] EXCEPT !.pc = p]
    <3>1. sess[t].pc = "push" /\ (sess'[t].pc = "stuck" => ~Open(sess[t].conn))
      BY <1>1, <1>8, <2>1, <2>4 DEF Push, PushPanics, Answered, SessTyped
    <3>2. sess[t].op = "get" /\ sess'[t].conn = sess[t].conn
      BY <1>1, <2>4 DEF SessTyped
    <3> QED
      BY <1>3, <3>1, <3>2, <2>2 DEF Open
  <2> QED
    BY <1>1, <1>8, <2>3, <2>4 DEF Push, PushPanics, Answered, SessTyped
<1>9. ASSUME NEW s \in Sessions \ {t},
             \/ \E op \in {"get", "set"}, z \in Zones : LookUp(s, op, z)
             \/ Session(s) \/ Answered(s)
      PROVE  sess'[t] = sess[t]
  BY <1>1, <1>9 DEF LookUp, Session, LockForCommand, Process, Push, PushPanics,
                    Answered, SessTyped
<1> QED
  BY <1>4, <1>5, <1>6, <1>7, <1>8, <1>9, WhoChanges DEF Session

LEMMA StepQuiet == Inv /\ [Next]_vars => Quiet'
<1> SUFFICES ASSUME Inv, [Next]_vars, failovers' + faults' = 0
             PROVE  NothingSwitched'
  BY DEF Quiet
<1>1. NothingSwitched
  BY QuietBefore
<1>2. sw'.pc \in {"idle", "ask"}
  <2>1. CASE sw' = sw
    BY <1>1, <2>1 DEF NothingSwitched
  <2>2. CASE SwitchBegin \/ SwitchReturns
    <3>1. NoSwitch.pc = "idle" /\ [NoSwitch EXCEPT !.pc = "ask",
                                   !.left = known \cap SentinelZones].pc = "ask"
      BY DEF NoSwitch
    <3> QED
      BY <2>2, <3>1 DEF SwitchBegin, SwitchReturns
  <2>3. CASE \E z \in SentinelZones : SwitchAsk(z)
    BY <2>3, QuietAsk
  <2>4. ~SwitchRetain /\ ~SwitchRelease /\ ~SwitchAssign
    BY <1>1 DEF NothingSwitched, SwitchRetain, SwitchRelease, SwitchAssign
  <2> QED
    BY <2>1, <2>2, <2>3, <2>4, WhoChanges DEF SentinelSwitch
<1>3. phase' # "crashed"
  <2>1. ~AliveCrashes /\ ~MapRace
    BY <1>1 DEF NothingSwitched, PingsOpen, AliveCrashes, MapRace
  <2>2. CASE NewRouter
    BY <2>2 DEF NewRouter, FillSkip, FillPlain, FillAsk, FillMaster, FillFails,
                LoadFails, Start, Filling
  <2> QED
    BY <1>1, <2>1, <2>2, WhoChanges DEF NothingSwitched
<1>4. MastersUsed' /\ PingsOpen' /\ \A s \in Sessions : CommandSafe(s)'
  BY StepMastersUsed, StepPingsOpen, StepCommandSafe
<1> QED
  BY <1>2, <1>3, <1>4 DEF NothingSwitched

-----------------------------------------------------------------------------
(* The theorems.                                                           *)

LEMMA StepInv == Inv /\ [Next]_vars => Inv'
<1>1. Inv /\ [Next]_vars => Pooled'
  BY PoolStep
<1>2. Typed' /\ Pooled' /\ Counted' /\ Guarded' /\ Quiet' => Inv'
  BY DEF Inv
<1> QED
  BY <1>1, <1>2, StepTyped, StepCounted, StepGuarded, StepQuiet

(* The invariant holds, whatever NewRouter found, whoever dispatches, and  *)
(* however SentinelSwitch, KeepAlive and Close interleave (router.go       *)
(* 62-163, 165-283 and NewRouter; pool.go 426-456 and 496-527).            *)
THEOREM InvHolds == Spec => []Inv
BY InitInv, StepInv, PTL DEF Spec

(* Every variable has its type, and while Close holds router.mu nobody     *)
(* holds it for reading (router.go, mu).                                   *)
THEOREM TypeCorrect == Spec => []TypeOK
<1>1. Inv => TypeOK
  BY TypedIs DEF Inv
<1> QED
  BY <1>1, InvHolds, PTL

(* A connection counts every zone that uses it, and the reference          *)
(* SentinelSwitch has in hand: none is closed under a zone, and no Release *)
(* is one too many (pool.go 430-431).                                      *)
THEOREM UseIsCounted == Spec => []UsersCounted
<1>1. Inv => UsersCounted
  BY DEF Inv, Counted
<1> QED
  BY <1>1, InvHolds, PTL

(* The pool holds exactly the open connections, one for each address, so   *)
(* that Retain never meets a closed one (pool.go 450-451) and the delete   *)
(* of Release removes no other connection (pool.go 443).                   *)
THEOREM PoolIsExact == Spec => []PoolExact
<1>1. Inv => PoolExact
  BY DEF Inv, Pooled
<1> QED
  BY <1>1, InvHolds, PTL

(* With router.mu, nothing but a switch of masters makes a push to a closed*)
(* connection panic, or two goroutines use the pool's map at once, before  *)
(* Close has ended (router.go 140-163 and 178; pool.go 443 and 514).       *)
THEOREM OnlySwitchPanics == Spec => []PanicsNeedSwitch
<1>1. Inv => PanicsNeedSwitch
  <2> SUFFICES ASSUME Inv, ~(failovers + faults > 0), closer # "done"
               PROVE  /\ phase # "crashed"
                      /\ \A s \in Sessions :
                            ~(sess[s].pc = "stuck" /\ sess[s].op # "set")
    BY DEF PanicsNeedSwitch
  <2>1. failovers + faults = 0
    BY DEF Inv, Typed, ElectTyped
  <2>2. /\ NothingSwitched
        /\ \A s \in Sessions : sess[s].op \in {"get", "set"}
    BY <2>1 DEF Inv, Quiet, Typed, SessTyped
  <2> QED
    BY <2>2 DEF NothingSwitched, CommandSafe
<1> QED
  BY <1>1, InvHolds, PTL
=============================================================================
