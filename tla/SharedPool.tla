------------------------------ MODULE SharedPool ------------------------------
(***************************************************************************)
(* Who uses which backend: the router's zones, the pool of shared, counted *)
(* connections, and router.mu (src/pkg/proxy/router.go, zones.go, pool.go).*)
(*                                                                         *)
(* NewRouter fills the zones before anything else runs.  Afterwards these  *)
(* run concurrently: sessions that dispatch, the ticker that follows the   *)
(* sentinels, the ticker that pings the pool, and Close.  Close takes      *)
(* router.mu; the tickers and every command but SET take it for reading,   *)
(* although SentinelSwitch changes the pool and the zones.                 *)
(*                                                                         *)
(* A SharedBackendConn is one connection here; pushing to one that was     *)
(* released to zero panics, because its input channel is closed.           *)
(***************************************************************************)
EXTENDS Integers, Sequences, FiniteSets, Sentinel

CONSTANTS
    Zones,          \* zone prefixes
    Current,        \* the zone of this router, filled first
    SentinelZones,  \* the zones that are found through sentinels
    Monitored,      \* the zones whose masters a zone's sentinels report
    Addrs,          \* addresses of Redis servers
    ZoneLists,      \* this zone, and what the key ZoneInfoKey may hold
    Sessions,
    NSentinels,     \* how many sentinels a zone asks
    MaxFailovers,   \* BOUND: elections of new masters
    MaxFaults       \* BOUND: failed, incomplete and stale answers

ASSUME PoolAssumption ==
    /\ Current \in Zones /\ SentinelZones \subseteq Zones
    /\ Monitored \in [SentinelZones -> SUBSET SentinelZones]
    /\ \A z \in SentinelZones : z \in Monitored[z]
    /\ ZoneLists \subseteq Seq([zone : Zones, addr : Addrs])
    /\ \A l \in ZoneLists : l # <<>> /\ Head(l).zone = Current
    /\ "switch" \notin Sessions /\ "alive" \notin Sessions
    /\ NSentinels \in Nat \ {0} /\ MaxFailovers \in Nat /\ MaxFaults \in Nat

VARIABLES
    conns,      \* every SharedBackendConn made: its address and refcnt
    pool,       \* SharedBackendConnPool.pool: address -> connection, or 0
    backend,    \* zone.backend.bc, 0 for nil
    known,      \* the keys of router.zones
    phase,      \* of the process: filling, failed to start, up, crashed
    list,       \* the zones NewRouter fills ...
    entry,      \* ... the one it is at ...
    found,      \* ... and the masters of that one still to be retained
    readers,    \* who holds router.mu for reading
    closer,     \* Close: "no", "waiting" for router.mu, "locked", "done"
    sw,         \* SentinelSwitch
    alive,      \* KeepAlive
    sess,       \* each session's dispatch
    elected,    \* the master of each sentinel zone
    before,     \* the master before that one
    lag,        \* how many of its sentinels still report it
    failovers, faults

poolVars == <<conns, pool>>
zoneVars == <<backend, known>>
fillVars == <<list, entry, found>>
electVars == <<elected, before, lag, failovers>>
envVars == <<electVars, faults>>
vars == <<poolVars, zoneVars, fillVars, envVars, phase, readers, closer, sw,
          alive, sess>>

NoSwitch ==
    [pc |-> "idle", left |-> {}, zone |-> Current, addr |-> "", conn |-> 0]
NoRange == [pc |-> "idle", seen |-> {}, conn |-> 0]
NoCommand == [pc |-> "idle", op |-> "get", zone |-> Current, conn |-> 0]

Init ==
    /\ conns = <<>> /\ pool = [a \in Addrs |-> 0]
    /\ backend = [z \in Zones |-> 0] /\ known = {}
    /\ phase = "filling"
    /\ list \in ZoneLists /\ entry = 1 /\ found = {}
    /\ readers = {} /\ closer = "no"
    /\ sw = NoSwitch /\ alive = NoRange
    /\ sess = [s \in Sessions |-> NoCommand]
    /\ elected \in [SentinelZones -> Addrs]
    /\ before = elected /\ lag = [z \in SentinelZones |-> 0]
    /\ failovers = 0 /\ faults = 0

Open(i) == i # 0 /\ conns[i].ref > 0

Fault == faults < MaxFaults /\ faults' = faults + 1

-----------------------------------------------------------------------------
(* The pool.                                                               *)

NewConn(a) == [addr |-> a, ref |-> 1]

(* The connection Retain returns.                                          *)
Retained(a) == IF pool[a] # 0 THEN pool[a] ELSE Len(conns) + 1

(* MUTANT, not the code: another user of a connection is not counted.      *)
RetainUncounted(a) ==
    IF pool[a] # 0
    THEN UNCHANGED poolVars
    ELSE /\ conns' = Append(conns, NewConn(a))
         /\ pool' = [pool EXCEPT ![a] = Len(conns) + 1]

Retain(a) ==
    IF pool[a] # 0
    THEN /\ conns' = [conns EXCEPT ![pool[a]].ref = @ + 1]
         /\ UNCHANGED pool
    ELSE /\ conns' = Append(conns, NewConn(a))
         /\ pool' = [pool EXCEPT ![a] = Len(conns) + 1]

(* MUTANT, not the code: a closed connection stays in the pool.            *)
ReleaseKept(i) ==
    /\ conns' = [conns EXCEPT ![i].ref = @ - 1]
    /\ UNCHANGED pool

(* The last reference closes the connection and takes it out of the pool.  *)
Release(i) ==
    /\ conns' = [conns EXCEPT ![i].ref = @ - 1]
    /\ pool' = IF conns[i].ref = 1 THEN [pool EXCEPT ![conns[i].addr] = 0]
                                   ELSE pool

-----------------------------------------------------------------------------
(* NewRouter and FillZone.  Nothing else runs yet.                         *)

Filling ==
    /\ phase = "filling" /\ entry <= Len(list)
    /\ entry = 1 \/ Current \in known

Entry == list[entry]

SetZone(z, i) ==
    /\ backend' = [backend EXCEPT ![z] = i]
    /\ known' = known \cup {z}

(* The zone of this router is filled once.                                 *)
FillSkip ==
    /\ Filling /\ found = {}
    /\ Entry.zone = Current /\ Current \in known
    /\ entry' = entry + 1
    /\ UNCHANGED <<poolVars, zoneVars, envVars, phase, list, found, readers,
                   closer, sw, alive, sess>>

FillPlain ==
    /\ Filling /\ Entry.zone \notin SentinelZones
    /\ ~(Entry.zone = Current /\ Current \in known)
    /\ Retain(Entry.addr)
    /\ SetZone(Entry.zone, Retained(Entry.addr))
    /\ entry' = entry + 1
    /\ UNCHANGED <<envVars, phase, list, found, readers, closer, sw, alive,
                   sess>>

(* The sentinels answer with all masters they monitor, or miss the one.    *)
FillAsk ==
    /\ Filling /\ found = {} /\ Entry.zone \in SentinelZones
    /\ ~(Entry.zone = Current /\ Current \in known)
    /\ \/ found' = Monitored[Entry.zone] /\ UNCHANGED faults
       \/ found' = Monitored[Entry.zone] \ {Entry.zone} /\ Fault
    /\ found' # {}
    /\ UNCHANGED <<poolVars, zoneVars, phase, list, entry, electVars,
                   readers, closer, sw, alive, sess>>

(* Every master is retained; only the zone's own is used.                  *)
FillMaster ==
    \E n \in found :
        /\ Filling
        /\ Retain(elected[n])
        /\ IF n = Entry.zone THEN SetZone(n, Retained(elected[n]))
                             ELSE UNCHANGED zoneVars
        /\ found' = found \ {n}
        /\ entry' = IF found' = {} THEN entry + 1 ELSE entry
        /\ UNCHANGED <<envVars, phase, list, readers, closer, sw, alive, sess>>

(* No answer, or none with a master: FillZone returns with the rest        *)
(* unfilled, and NewRouter does not look at the error.                     *)
FillFails ==
    /\ Filling /\ found = {} /\ Entry.zone \in SentinelZones
    /\ ~(Entry.zone = Current /\ Current \in known)
    /\ Fault
    /\ entry' = IF entry = 1 THEN 2 ELSE Len(list) + 1
    /\ UNCHANGED <<poolVars, zoneVars, phase, list, found, electVars,
                   readers, closer, sw, alive, sess>>

(* loadZoneInfo without a zone to ask, or without its reply.               *)
LoadFails ==
    /\ phase = "filling" /\ entry = 2
    /\ \/ Current \notin known /\ UNCHANGED faults
       \/ Current \in known /\ Fault
    /\ phase' = "failed"
    /\ UNCHANGED <<poolVars, zoneVars, fillVars, electVars, readers,
                   closer, sw, alive, sess>>

Start ==
    /\ phase = "filling" /\ entry > Len(list) /\ Current \in known
    /\ phase' = "up"
    /\ UNCHANGED <<poolVars, zoneVars, fillVars, envVars, readers, closer, sw,
                   alive, sess>>

-----------------------------------------------------------------------------
(* router.mu: a waiting Lock keeps new readers out.                        *)

RLock(p) ==
    /\ phase = "up" /\ closer \in {"no", "done"}
    /\ readers' = readers \cup {p}

RUnlock(p) == readers' = readers \ {p}

-----------------------------------------------------------------------------
(* SentinelSwitch, called by a ticker.                                     *)

SwitchBegin ==
    /\ sw.pc = "idle" /\ closer = "no" /\ RLock("switch")
    /\ sw' = [NoSwitch EXCEPT !.pc = "ask", !.left = known \cap SentinelZones]
    /\ UNCHANGED <<poolVars, zoneVars, fillVars, envVars, phase, closer, alive,
                   sess>>

(* MUTANT, not the code: a master in the pool is taken for the zone's own. *)
KnownMaster(z, a) == pool[a] # 0

IsCurrentMaster(z, a) == conns[backend[z]].addr = a

(* Masters, for one zone after the other in the order of a Go map; a       *)
(* sentinel that lags reports the master before.  Without a majority, or   *)
(* without the name, the other zones have to wait for the next tick.       *)
SwitchAsk(z) ==
    /\ phase = "up" /\ sw.pc = "ask" /\ z \in sw.left
    /\ \E results \in Arrivals(NSentinels - lag[z], lag[z], NSentinels) :
          LET m == Masters(results, NSentinels)
              a == IF m = "fresh" THEN elected[z] ELSE before[z]
          IN  /\ IF Len(results) = NSentinels /\ m = "fresh" THEN UNCHANGED faults
                                                            ELSE Fault
              /\ m # Lost
              /\ sw' = IF IsCurrentMaster(z, a) THEN [sw EXCEPT !.left = @ \ {z}]
                       ELSE [sw EXCEPT !.pc = "retain", !.zone = z, !.addr = a]
    /\ UNCHANGED <<poolVars, zoneVars, fillVars, electVars, phase, readers,
                   closer, alive, sess>>

SwitchReturns ==
    /\ phase = "up" /\ sw.pc = "ask"
    /\ \/ sw.left = {} /\ UNCHANGED faults
       \/ sw.left # {} /\ Fault
    /\ sw' = NoSwitch /\ RUnlock("switch")
    /\ UNCHANGED <<poolVars, zoneVars, fillVars, electVars, phase, closer,
                   alive, sess>>

SwitchRetain ==
    /\ phase = "up" /\ sw.pc = "retain"
    /\ Retain(sw.addr)
    /\ sw' = [sw EXCEPT !.pc = "release", !.conn = Retained(sw.addr)]
    /\ UNCHANGED <<zoneVars, fillVars, envVars, phase, readers, closer, alive,
                   sess>>

(* ChangeConn: the old connection is released before the new one is set.   *)
SwitchRelease ==
    /\ phase = "up" /\ sw.pc = "release"
    /\ Release(backend[sw.zone])
    /\ sw' = [sw EXCEPT !.pc = "assign"]
    /\ UNCHANGED <<zoneVars, fillVars, envVars, phase, readers, closer, alive,
                   sess>>

SwitchAssign ==
    /\ phase = "up" /\ sw.pc = "assign"
    /\ backend' = [backend EXCEPT ![sw.zone] = sw.conn]
    /\ sw' = [NoSwitch EXCEPT !.pc = "ask", !.left = sw.left \ {sw.zone}]
    /\ UNCHANGED <<poolVars, known, fillVars, envVars, phase, readers, closer,
                   alive, sess>>

-----------------------------------------------------------------------------
(* KeepAlive, called by another ticker: it ranges over the pool's map.     *)

(* MUTANT, not the code: KeepAlive does not take router.mu.                *)
AliveBeginUnlocked ==
    /\ phase = "up" /\ alive.pc = "idle" /\ closer \in {"no", "waiting"}
    /\ alive' = [NoRange EXCEPT !.pc = "range"]
    /\ UNCHANGED <<poolVars, zoneVars, fillVars, envVars, phase, readers,
                   closer, sw, sess>>

AliveBegin ==
    /\ alive.pc = "idle" /\ closer = "no" /\ RLock("alive")
    /\ alive' = [NoRange EXCEPT !.pc = "range"]
    /\ UNCHANGED <<poolVars, zoneVars, fillVars, envVars, phase, closer, sw,
                   sess>>

InPool == {pool[a] : a \in Addrs} \ {0}

AliveNext ==
    /\ phase = "up" /\ alive.pc = "range"
    /\ \E i \in InPool \ alive.seen :
          alive' = [pc |-> "ping", seen |-> alive.seen \cup {i}, conn |-> i]
    /\ UNCHANGED <<poolVars, zoneVars, fillVars, envVars, phase, readers,
                   closer, sw, sess>>

(* Nothing is pushed to a connection whose input still holds a request.    *)
AlivePing ==
    /\ phase = "up" /\ alive.pc = "ping"
    /\ alive' = [alive EXCEPT !.pc = "range", !.conn = 0]
    /\ UNCHANGED <<poolVars, zoneVars, fillVars, envVars, phase, readers,
                   closer, sw, sess>>

(* The ticker does not recover from a panic.                               *)
AliveCrashes ==
    /\ phase = "up" /\ alive.pc = "ping" /\ ~Open(alive.conn)
    /\ phase' = "crashed"
    /\ UNCHANGED <<poolVars, zoneVars, fillVars, envVars, readers, closer, sw,
                   alive, sess>>

AliveEnd ==
    /\ phase = "up" /\ alive.pc = "range" /\ InPool \subseteq alive.seen
    /\ alive' = NoRange /\ RUnlock("alive")
    /\ UNCHANGED <<poolVars, zoneVars, fillVars, envVars, phase, closer, sw,
                   sess>>

(* Undefined: a Go map is written while it is ranged over.                 *)
MapRace ==
    /\ phase = "up" /\ alive.pc \in {"range", "ping"}
    /\ \/ sw.pc = "retain" /\ pool[sw.addr] = 0
       \/ sw.pc = "release" /\ conns[backend[sw.zone]].ref = 1
    /\ phase' = "crashed"
    /\ UNCHANGED <<poolVars, zoneVars, fillVars, envVars, readers, closer, sw,
                   alive, sess>>

-----------------------------------------------------------------------------
(* Close.                                                                  *)

CloseWaits ==
    /\ phase = "up" /\ closer = "no"
    /\ closer' = "waiting"
    /\ UNCHANGED <<poolVars, zoneVars, fillVars, envVars, phase, readers, sw,
                   alive, sess>>

(* MUTANT, not the code: Close does not take router.mu.                    *)
MayLockAlways == TRUE

MayLock == readers = {}

CloseLocks ==
    /\ phase = "up" /\ closer = "waiting" /\ MayLock
    /\ closer' = "locked"
    /\ UNCHANGED <<poolVars, zoneVars, fillVars, envVars, phase, readers, sw,
                   alive, sess>>

CloseZone ==
    /\ phase = "up" /\ closer = "locked"
    /\ \E z \in known :
          /\ backend[z] # 0
          /\ Release(backend[z])
          /\ backend' = [backend EXCEPT ![z] = 0]
    /\ UNCHANGED <<known, fillVars, envVars, phase, readers, closer, sw, alive,
                   sess>>

CloseEnds ==
    /\ phase = "up" /\ closer = "locked"
    /\ \A z \in known : backend[z] = 0
    /\ known' = {} /\ closer' = "done"
    /\ UNCHANGED <<poolVars, backend, fillVars, envVars, phase, readers, sw,
                   alive, sess>>

-----------------------------------------------------------------------------
(* A session's dispatch: "get" holds the read lock and waits for the       *)
(* answer, or does not wait if it is another command; "set" goes without   *)
(* the lock.  A GET's further requests are like its first.                 *)

(* The zone is looked up in router.zones before any lock is taken.         *)
LookUp(s, op, z) ==
    /\ phase = "up" /\ sess[s].pc = "idle" /\ z \in known
    /\ sess' = [sess EXCEPT ![s] =
                  [pc |-> IF op = "set" THEN "forward" ELSE "lock",
                   op |-> op, zone |-> z, conn |-> 0]]
    /\ UNCHANGED <<poolVars, zoneVars, fillVars, envVars, phase, readers,
                   closer, sw, alive>>

LockForCommand(s) ==
    /\ sess[s].pc = "lock" /\ RLock(s)
    /\ sess' = [sess EXCEPT ![s].pc = "forward"]
    /\ UNCHANGED <<poolVars, zoneVars, fillVars, envVars, phase, closer, sw,
                   alive>>

(* Zone.process: what the zone uses now.                                   *)
Process(s) ==
    /\ phase = "up" /\ sess[s].pc = "forward"
    /\ sess' = [sess EXCEPT ![s].pc = "push",
                            ![s].conn = backend[sess[s].zone]]
    /\ UNCHANGED <<poolVars, zoneVars, fillVars, envVars, phase, readers,
                   closer, sw, alive>>

Push(s) ==
    /\ phase = "up" /\ sess[s].pc = "push" /\ Open(sess[s].conn)
    /\ \/ /\ sess[s].op = "get"
          /\ sess' = [sess EXCEPT ![s].pc = "wait"] /\ UNCHANGED readers
       \/ sess' = [sess EXCEPT ![s] = NoCommand] /\ RUnlock(s)
    /\ UNCHANGED <<poolVars, zoneVars, fillVars, envVars, phase, closer, sw,
                   alive>>

(* MUTANT, not the code: the read lock is not given back after a panic.    *)
PushPanicsLocked(s) ==
    /\ phase = "up" /\ sess[s].pc = "push" /\ ~Open(sess[s].conn)
    /\ sess' = [sess EXCEPT ![s].pc = "stuck"]
    /\ UNCHANGED <<poolVars, zoneVars, fillVars, envVars, phase, readers,
                   closer, sw, alive>>

(* The push panics after Batch.Add: dispatch recovers, unlocks and returns *)
(* no error, and the session waits for the reply for ever.                 *)
PushPanics(s) ==
    /\ phase = "up" /\ sess[s].pc = "push" /\ ~Open(sess[s].conn)
    /\ sess' = [sess EXCEPT ![s].pc = "stuck"] /\ RUnlock(s)
    /\ UNCHANGED <<poolVars, zoneVars, fillVars, envVars, phase, closer, sw,
                   alive>>

Answered(s) ==
    /\ phase = "up" /\ sess[s].pc = "wait"
    /\ sess' = [sess EXCEPT ![s] = NoCommand] /\ RUnlock(s)
    /\ UNCHANGED <<poolVars, zoneVars, fillVars, envVars, phase, closer, sw,
                   alive>>

-----------------------------------------------------------------------------
(* One sentinel fails the master over, the others learn of it later.       *)
Failover(z, a) ==
    /\ phase = "up" /\ failovers < MaxFailovers /\ a # elected[z]
    /\ elected' = [elected EXCEPT ![z] = a]
    /\ before' = [before EXCEPT ![z] = elected[z]]
    /\ lag' = [lag EXCEPT ![z] = NSentinels - 1]
    /\ failovers' = failovers + 1
    /\ UNCHANGED <<poolVars, zoneVars, fillVars, phase, readers, closer, sw,
                   alive, sess, faults>>

Learn(z) ==
    /\ phase = "up" /\ lag[z] > 0
    /\ lag' = [lag EXCEPT ![z] = @ - 1]
    /\ before' = IF lag[z] = 1 THEN [before EXCEPT ![z] = elected[z]] ELSE before
    /\ UNCHANGED <<poolVars, zoneVars, fillVars, phase, readers, closer, sw,
                   alive, sess, elected, failovers, faults>>

NewRouter ==
    \/ FillSkip \/ FillPlain \/ FillAsk \/ FillMaster \/ FillFails
    \/ LoadFails \/ Start

SentinelSwitch ==
    \/ SwitchBegin \/ SwitchReturns
    \/ \E z \in SentinelZones : SwitchAsk(z)
    \/ SwitchRetain \/ SwitchRelease \/ SwitchAssign

KeepAlive ==
    AliveBegin \/ AliveNext \/ AlivePing \/ AliveCrashes \/ AliveEnd

Close == CloseLocks \/ CloseZone \/ CloseEnds

Session(s) == LockForCommand(s) \/ Process(s) \/ Push(s) \/ PushPanics(s)

Next ==
    \/ NewRouter \/ SentinelSwitch \/ KeepAlive \/ MapRace
    \/ CloseWaits \/ Close
    \/ \E s \in Sessions :
          \/ \E op \in {"get", "set"}, z \in Zones : LookUp(s, op, z)
          \/ Session(s) \/ Answered(s)
    \/ \E z \in SentinelZones, a \in Addrs : Failover(z, a) \/ Learn(z)

Spec == Init /\ [][Next]_vars

(* The tickers tick, goroutines run, sentinels learn of a new master, and  *)
(* an open connection answers (BackendConn, EveryRequestAnswered); a       *)
(* closed one need not.                                                    *)
Fairness ==
    /\ WF_vars(NewRouter) /\ WF_vars(SentinelSwitch) /\ WF_vars(KeepAlive)
    /\ WF_vars(Close) /\ \A z \in SentinelZones : WF_vars(Learn(z))
    /\ \A s \in Sessions :
          WF_vars(Session(s)) /\ WF_vars(Answered(s) /\ Open(sess[s].conn))

FairSpec == Spec /\ Fairness

-----------------------------------------------------------------------------
(* Properties.                                                             *)

Conns == 0..Len(conns)
Procs == Sessions \cup {"switch", "alive"}

(* Every variable has its type; readers and Close exclude each other.      *)
TypeOK ==
    /\ conns \in Seq([addr : Addrs, ref : Nat])
    /\ pool \in [Addrs -> Conns] /\ backend \in [Zones -> Conns]
    /\ known \subseteq Zones
    /\ phase \in {"filling", "failed", "up", "crashed"}
    /\ entry \in 1..Len(list) + 1 /\ found \subseteq SentinelZones
    /\ readers \subseteq Procs
    /\ closer \in {"no", "waiting", "locked", "done"}
    /\ closer = "locked" => readers = {}
    /\ sw.pc \in {"idle", "ask", "retain", "release", "assign"}
    /\ sw.left \subseteq SentinelZones /\ sw.conn \in Conns
    /\ alive.pc \in {"idle", "range", "ping"} /\ alive.conn \in Conns
    /\ \A s \in Sessions :
          /\ sess[s].pc \in {"idle", "lock", "forward", "push", "wait", "stuck"}
          /\ sess[s].conn \in Conns
    /\ elected \in [SentinelZones -> Addrs] /\ before \in [SentinelZones -> Addrs]
    /\ lag \in [SentinelZones -> 0..NSentinels - 1]

(* The zones that hold a reference to i; ChangeConn gives one up before it *)
(* takes the other.                                                        *)
Holders(i) ==
    {z \in known : backend[z] = i /\ ~(sw.pc = "assign" /\ sw.zone = z)}

InHand(i) == IF sw.pc \in {"release", "assign"} /\ sw.conn = i THEN 1 ELSE 0

(* A connection counts everyone who uses it: none is closed under a zone,  *)
(* and no Release meets the assertion "shared backend conn has been        *)
(* closed, close too many times" (pool.go 431).                            *)
UsersCounted ==
    \A i \in 1..Len(conns) :
        Cardinality(Holders(i)) + InHand(i) <= conns[i].ref

(* The pool holds the open connections, one for each address: Retain never *)
(* meets "shared backend conn has been closed" (pool.go 451), and Release  *)
(* deletes no other connection of the same address (pool.go 443).          *)
PoolExact ==
    \A i \in 1..Len(conns) : Open(i) <=> pool[conns[i].addr] = i

(* router.mu protects the tickers and the locked commands from Close: a    *)
(* push panics, or the process crashes, only after a switch, or for a      *)
(* command that had looked its zone up before Close.                       *)
PanicsNeedSwitch ==
    (\/ phase = "crashed"
     \/ \E s \in Sessions : sess[s].pc = "stuck" /\ sess[s].op # "set")
    => failovers + faults > 0 \/ closer = "done"

Stopped == phase \in {"failed", "crashed"} \/ closer # "no"

(* "哨兵工作模式下持续选择master" (router.go 140): once masters and        *)
(* sentinels are stable, every sentinel zone uses its master for good,     *)
(* whichever answers of the past came last (sentinel.go 200-206).          *)
MastersFollowed ==
    \/ <>Stopped
    \/ <>[](\A z \in known \cap SentinelZones :
              ~Stopped => conns[backend[z]].addr = elected[z])

(* Close gets router.mu, unless a GET waits under the read lock for a      *)
(* connection that was closed and may have left its request behind.        *)
CloseCompletes ==
    closer = "waiting" ~>
        \/ closer = "done" \/ phase = "crashed"
        \/ \E s \in Sessions : sess[s].pc = "wait" /\ ~Open(sess[s].conn)
=============================================================================
