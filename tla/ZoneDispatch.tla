---------------------------- MODULE ZoneDispatch ----------------------------
(***************************************************************************)
(* How the routers keep one key in several zones (src/pkg/proxy/router.go, *)
(* transaction.go, zones.go).                                              *)
(*                                                                         *)
(* Every zone has a Redis and a router; every router has a connection to   *)
(* every zone (backend_primary_parallel = 1), on which requests are served *)
(* in order.  A key without a zone prefix is SET in all zones, in a        *)
(* "transaction" that checks the replies and rolls back; a key with a      *)
(* prefix is SET in its own zone and copied to the others, and a GET in    *)
(* another zone fetches and keeps a missing copy.                          *)
(*                                                                         *)
(* A client here is a session: it dispatches its commands one after the    *)
(* other.  Only the replies that dispatch waits for are modelled.          *)
(***************************************************************************)
EXTENDS Integers, SequencesExt

CONSTANTS
    Zones,
    Clients,
    Writers,      \* the clients that SET
    Home,         \* the zone of each client's router
    Owners,       \* what the key may name: a zone, "none" or an "unknown" one
    Sets,         \* what clients SET: values with or without expiry, per owner
    Faults,       \* BOUND: the sets of things that may go wrong, per owner
    MaxCommands   \* BOUND: commands of all clients

FaultKinds == {"refuse", "panic", "lose", "cut", "late", "errorreply"}

(* Texts that stand for an absent key, an error, a reply there is not and  *)
(* the end of a transaction.                                               *)
Markers == {"", "ERR", "nil", "waiting", "stuck", "ok", "rolledback"}

ASSUME ZoneAssumption ==
    /\ IsFiniteSet(Zones) /\ Writers \subseteq Clients
    /\ {"none", "unknown", "sub", "copy"} \cap Zones = {}
    /\ Home \in [Clients -> Zones]
    /\ Owners \subseteq Zones \cup {"none", "unknown"}
    /\ Sets \in [Owners -> SUBSET [v : STRING \ Markers, ttl : BOOLEAN]]
    /\ Faults \in [Owners -> SUBSET SUBSET FaultKinds]
    /\ MaxCommands \in Nat

VARIABLES
    store,    \* the key in each zone's Redis: value and expiry
    queue,    \* queue[p][z]: the connection of p's router to zone z
    late,     \* writes that failed for the router and still reach Redis
    pc,       \* where each client's dispatch is
    cmd,      \* the command it dispatches
    todo,     \* zones its loop has still to visit
    execed,   \* Transaction.execed: zones that were sent the SET
    old,      \* SetRedisTrx.oldV, per zone
    ans,      \* Resp of its request to each zone, and of its "sub" request
    val,      \* other_val of a GET
    result,   \* what dispatch ended with
    before,   \* HISTORY: the stores when the command began
    faults,   \* what has gone wrong
    issued,   \* how many commands were issued
    owner     \* the zone the key names, "none" or "unknown": never changed

redisVars == <<store, late>>
histVars == <<before, issued, owner>>
clientVars == <<cmd, todo, execed, old, val, result, histVars>>
vars == <<redisVars, queue, pc, ans, faults, clientVars>>

NoKey == [v |-> "", ttl |-> FALSE]

Slots == Zones \cup {"sub"}

Init ==
    /\ owner \in Owners
    /\ \E s \in Sets[owner] \cup {NoKey} :
          store = [z \in Zones |-> s]
    /\ queue = [p \in Zones |-> [z \in Zones |-> <<>>]]
    /\ late = [z \in Zones |-> {}]
    /\ pc = [c \in Clients |-> "idle"]
    /\ cmd = [c \in Clients |-> NoKey]
    /\ todo = [c \in Clients |-> <<>>]
    /\ execed = [c \in Clients |-> <<>>]
    /\ old = [c \in Clients |-> [z \in Zones |-> ""]]
    /\ ans = [c \in Clients |-> [s \in Slots |-> "nil"]]
    /\ val = [c \in Clients |-> ""]
    /\ result = [c \in Clients |-> "none"]
    /\ before = [c \in Clients |-> store]
    /\ faults = {} /\ issued = 0

(* One thing goes wrong that has not gone wrong before.                    *)
Fault(f) ==
    /\ f \notin faults
    /\ faults' = faults \cup {f} /\ faults' \in Faults[owner]

-----------------------------------------------------------------------------
(* Requests and the connections that carry them.                           *)

Request(c, slot, op, v, ttl) ==
    [c |-> c, slot |-> slot, op |-> op, v |-> v, ttl |-> ttl]

(* c goes on at next, or where the recover of a panic leads it.            *)
Goto(c, next) == pc' = [pc EXCEPT ![c] = next]

(* Zone.Forward: BackendConn.PushBack takes the request, or drops it from  *)
(* a full channel and leaves Resp as it was, or panics on a closed one.    *)
Forward(c, z, r, resp, next, recovered) ==
    \/ /\ queue' = [queue EXCEPT ![Home[c]][z] = Append(@, r)]
       /\ ans' = IF r.slot = "copy" THEN ans
                 ELSE [ans EXCEPT ![c][r.slot] = "waiting"]
       /\ Goto(c, next)
       /\ UNCHANGED faults
    \/ /\ Fault("refuse")
       /\ ans' = IF r.slot = "copy" THEN ans
                 ELSE [ans EXCEPT ![c][r.slot] = resp]
       /\ Goto(c, next)
       /\ UNCHANGED queue
    \/ /\ Fault("panic")
       /\ ans' = IF r.slot = "copy" THEN ans
                 ELSE [ans EXCEPT ![c][r.slot] = "stuck"]
       /\ Goto(c, recovered)
       /\ UNCHANGED queue

Applied(z, r) ==
    CASE r.op = "set" -> [store EXCEPT ![z] = [v |-> r.v, ttl |-> r.ttl]]
      [] r.op = "del" -> [store EXCEPT ![z] = NoKey]
      [] OTHER -> store

(* TTL rounds: an expiring key may answer 0, which dispatch takes for a    *)
(* key that does not expire.                                               *)
Replies(z, r) ==
    CASE r.op = "get" -> {store[z].v}
      [] r.op = "ttl" -> {"0"} \cup (IF store[z].ttl THEN {"1"} ELSE {})
      [] OTHER -> {"OK"}

(* MUTANT, not the code: a failed request is not reported.                 *)
RespondUnlessFailed(r, resp) ==
    ans' = IF r.slot = "copy" \/ resp = "nil" THEN ans
           ELSE [ans EXCEPT ![r.c][r.slot] = resp]

Respond(r, resp) ==
    ans' = IF r.slot = "copy" THEN ans
           ELSE [ans EXCEPT ![r.c][r.slot] = resp]

(* Redis in zone z serves the next request on the connection of p.         *)
Serve(p, z) ==
    LET r == Head(queue[p][z]) IN
    /\ queue[p][z] # <<>>
    /\ queue' = [queue EXCEPT ![p][z] = Tail(@)]
    /\ store' = Applied(z, r)
    /\ \E resp \in Replies(z, r) : Respond(r, resp)
    /\ UNCHANGED <<late, pc, faults, clientVars>>

(* It fails: before Redis has it (lose), after Redis has served it (cut),  *)
(* while it is still on its way to Redis (late), or Redis refuses it.      *)
Fail(p, z) ==
    LET r == Head(queue[p][z]) IN
    /\ queue[p][z] # <<>>
    /\ queue' = [queue EXCEPT ![p][z] = Tail(@)]
    /\ \/ /\ Fault("lose")
          /\ Respond(r, "nil") /\ UNCHANGED <<store, late>>
       \/ /\ Fault("cut")
          /\ Respond(r, "nil") /\ store' = Applied(z, r) /\ UNCHANGED late
       \/ /\ Fault("late") /\ r.op \in {"set", "del"}
          /\ Respond(r, "nil") /\ late' = [late EXCEPT ![z] = @ \cup {r}]
          /\ UNCHANGED store
       \/ /\ Fault("errorreply")
          /\ Respond(r, "ERR") /\ UNCHANGED <<store, late>>
    /\ UNCHANGED <<pc, clientVars>>

ServeLate(z) ==
    \E r \in late[z] :
        /\ late' = [late EXCEPT ![z] = @ \ {r}]
        /\ store' = Applied(z, r)
        /\ UNCHANGED <<queue, pc, ans, faults, clientVars>>

Expire(z) ==
    /\ store[z].ttl
    /\ store' = [store EXCEPT ![z] = NoKey]
    /\ UNCHANGED <<late, queue, pc, ans, faults, clientVars>>

Answered(c, slot) == ans[c][slot] \notin {"waiting", "stuck"}

-----------------------------------------------------------------------------
(* dispatch.                                                               *)

Finish(c, r) ==
    /\ result' = [result EXCEPT ![c] = r]
    /\ Goto(c, "idle")

(* Nobody looks at the reply of c's request any more.                      *)
Unheard(c, r) == IF r.c = c THEN [r EXCEPT !.slot = "copy"] ELSE r

(* A command has requests of its own: what an earlier one left behind on   *)
(* the connections, a SET whose rollback was dropped, answers to nobody.   *)
Begin(c) ==
    /\ pc[c] = "idle" /\ issued < MaxCommands
    /\ issued' = issued + 1
    /\ before' = [before EXCEPT ![c] = store]
    /\ ans' = [ans EXCEPT ![c] = [s \in Slots |-> "nil"]]
    /\ queue' = [p \in Zones |-> [z \in Zones |->
                    [i \in DOMAIN queue[p][z] |-> Unheard(c, queue[p][z][i])]]]
    /\ execed' = [execed EXCEPT ![c] = <<>>]
    /\ UNCHANGED <<redisVars, old, val, faults, owner>>

BeginGet(c) ==
    /\ Begin(c)
    /\ Goto(c, "get")
    /\ result' = [result EXCEPT ![c] = "none"]
    /\ UNCHANGED <<cmd, todo>>

(* A key without a zone: Prepare every zone, in the order of a Go map.     *)
BeginTransaction(c) ==
    /\ Begin(c) /\ c \in Writers /\ owner = "none"
    /\ \E s \in Sets[owner] : cmd' = [cmd EXCEPT ![c] = s]
    /\ \E order \in SetToSeqs(Zones) : todo' = [todo EXCEPT ![c] = order]
    /\ Goto(c, "exec")
    /\ UNCHANGED result

(* MUTANT, not the code: the zone itself is not skipped.                   *)
OthersAll == Zones

Others == Zones \ {owner}

(* A key of this zone: here first, then the others, in any order.          *)
BeginCopies(c) ==
    /\ Begin(c) /\ c \in Writers /\ owner = Home[c]
    /\ \E s \in Sets[owner] : cmd' = [cmd EXCEPT ![c] = s]
    /\ \E order \in SetToSeqs(Others) :
          todo' = [todo EXCEPT ![c] = <<owner>> \o order]
    /\ Goto(c, "copy")
    /\ UNCHANGED result

(* A key of another zone, or of a zone nobody knows.                       *)
BeginRejected(c) ==
    /\ Begin(c) /\ c \in Writers /\ owner \notin {"none", Home[c]}
    /\ result' = [result EXCEPT ![c] = "error"]
    /\ UNCHANGED <<pc, cmd, todo>>

Copy(c) ==
    /\ pc[c] = "copy"
    /\ IF todo[c] = <<>>
       THEN /\ Finish(c, "ok")
            /\ UNCHANGED <<queue, ans, faults, todo>>
       ELSE /\ Forward(c, Head(todo[c]),
                  Request(c, "copy", "set", cmd[c].v, cmd[c].ttl),
                  "nil", "copy", "idle")
            /\ todo' = [todo EXCEPT ![c] = Tail(@)]
            /\ UNCHANGED result
    /\ UNCHANGED <<redisVars, cmd, execed, old, val, histVars>>

(* SetRedisTrx.Exec: read the old value ...                                *)
ExecGet(c) ==
    /\ pc[c] = "exec" /\ todo[c] # <<>>
    /\ Forward(c, Head(todo[c]), Request(c, "sub", "get", "", FALSE),
               "nil", "execget", "failed")
    /\ UNCHANGED <<redisVars, clientVars>>

(* ... and send the SET; without a reply to the read it panics.            *)
ExecSet(c) ==
    LET z == Head(todo[c]) IN
    /\ pc[c] = "execget" /\ Answered(c, "sub")
    /\ IF ans[c]["sub"] = "nil"
       THEN /\ Goto(c, "failed")
            /\ UNCHANGED <<queue, ans, faults, old, todo, execed>>
       ELSE /\ old' = [old EXCEPT ![c][z] = ans[c]["sub"]]
            /\ Forward(c, z, Request(c, z, "set", cmd[c].v, cmd[c].ttl),
                       "nil", "exec", "failed")
            /\ todo' = [todo EXCEPT ![c] = Tail(@)]
            /\ execed' = IF pc'[c] = "exec"
                         THEN [execed EXCEPT ![c] = Append(@, z)] ELSE execed
    /\ UNCHANGED <<redisVars, cmd, val, result, histVars>>

(* Every zone was sent the SET: Commit checks their replies in that order. *)
Commit(c) ==
    /\ pc[c] = "exec" /\ todo[c] = <<>>
    /\ todo' = [todo EXCEPT ![c] = execed[c]]
    /\ Goto(c, "check")
    /\ UNCHANGED <<redisVars, queue, ans, faults, cmd, execed, old, val,
                   result, histVars>>

(* MUTANT, not the code: a missing reply is passed over.                   *)
CheckedOkLenient(c, z) == ans[c][z] \in {"OK", "nil"}

(* SetRedisTrx.Check; it panics if there is no reply.                      *)
CheckedOk(c, z) == ans[c][z] = "OK"

Check(c) ==
    /\ pc[c] = "check"
    /\ IF todo[c] = <<>>
       THEN Finish(c, "ok") /\ UNCHANGED todo
       ELSE /\ Answered(c, Head(todo[c]))
            /\ IF CheckedOk(c, Head(todo[c]))
               THEN todo' = [todo EXCEPT ![c] = Tail(@)] /\ UNCHANGED pc
               ELSE Goto(c, "failed") /\ UNCHANGED todo
            /\ UNCHANGED result
    /\ UNCHANGED <<redisVars, queue, ans, faults, cmd, execed, old, val,
                   histVars>>

(* Exec or Commit has failed: Rollback visits the zones in execed.         *)
StartRollback(c) ==
    /\ pc[c] = "failed"
    /\ todo' = [todo EXCEPT ![c] = execed[c]]
    /\ Goto(c, "rollback")
    /\ UNCHANGED <<redisVars, queue, ans, faults, cmd, execed, old, val,
                   result, histVars>>

(* MUTANT, not the code: the key is deleted whatever it held.              *)
UndoDelete(c, z) == Request(c, "sub", "del", "", FALSE)

(* SetRedisTrx.Rollback puts the old value back, without its expiry.       *)
Undo(c, z) ==
    IF old[c][z] # "" THEN Request(c, "sub", "set", old[c][z], FALSE)
                      ELSE Request(c, "sub", "del", "", FALSE)

Rollback(c) ==
    LET z == Head(todo[c]) IN
    /\ pc[c] = "rollback" /\ todo[c] # <<>>
    /\ Forward(c, z, Undo(c, z), "nil", "rolling", "reply")
    /\ UNCHANGED <<redisVars, clientVars>>

RolledBack(c) ==
    /\ pc[c] = "rolling" /\ Answered(c, "sub")
    /\ todo' = [todo EXCEPT ![c] = Tail(@)]
    /\ Goto(c, "rollback")
    /\ UNCHANGED <<redisVars, queue, ans, faults, cmd, execed, old, val,
                   result, histVars>>

(* dispatch returns the error, which becomes the reply, unless Redis has   *)
(* not answered the SET here: its answer replaces the error.  If its push  *)
(* panicked there will be none, and the session's writer waits for ever.   *)
RollbackEnds(c) ==
    /\ pc[c] = "rollback" /\ todo[c] = <<>>
    /\ IF ans[c][Home[c]] # "waiting" THEN Finish(c, "rolledback")
       ELSE Goto(c, "reply") /\ UNCHANGED result
    /\ UNCHANGED <<redisVars, queue, ans, faults, cmd, todo, execed, old, val,
                   histVars>>

(* The client's own SET decides: dispatch has recovered from a panic in    *)
(* Rollback and returned no error, or the error has been replaced.         *)
OwnReply(c) ==
    /\ pc[c] = "reply" /\ Answered(c, Home[c])
    /\ Finish(c, IF CheckedOk(c, Home[c]) THEN "ok" ELSE "error")
    /\ UNCHANGED <<redisVars, queue, ans, faults, cmd, todo, execed, old, val,
                   histVars>>

(* GET: ask this zone and wait.  After a panicked push there is no waiting *)
(* in dispatch, which recovers: the session's writer waits, for ever.      *)
GetHere(c) ==
    /\ pc[c] = "get"
    /\ Forward(c, Home[c], Request(c, "sub", "get", "", FALSE), "nil",
               "gothere", "idle")
    /\ UNCHANGED <<redisVars, clientVars>>

(* Fetch only what is missing here and kept elsewhere.                     *)
GotHere(c) ==
    LET v == ans[c]["sub"] IN
    /\ pc[c] = "gothere" /\ Answered(c, "sub")
    /\ IF v = "nil" \/ owner = "unknown" THEN Finish(c, "error")
       ELSE IF owner \in {"none", Home[c]} \/ v # "" THEN Finish(c, v)
       ELSE Goto(c, "getowner") /\ UNCHANGED result
    /\ UNCHANGED <<redisVars, queue, ans, faults, cmd, todo, execed, old, val,
                   histVars>>

(* The same request goes to the owner: dropped, it keeps its empty reply.  *)
GetOwner(c) ==
    /\ pc[c] = "getowner"
    /\ Forward(c, owner, Request(c, "sub", "get", "", FALSE), "",
               "gotowner", "idle")
    /\ UNCHANGED <<redisVars, clientVars>>

GotOwner(c) ==
    LET v == ans[c]["sub"] IN
    /\ pc[c] = "gotowner" /\ Answered(c, "sub")
    /\ IF v = "nil" THEN Finish(c, "error") /\ UNCHANGED val
       ELSE IF v = "" THEN Finish(c, "") /\ UNCHANGED val
       ELSE /\ val' = [val EXCEPT ![c] = v]
            /\ Goto(c, "ttl") /\ UNCHANGED result
    /\ UNCHANGED <<redisVars, queue, ans, faults, cmd, todo, execed, old,
                   histVars>>

AskTtl(c) ==
    /\ pc[c] = "ttl"
    /\ Forward(c, owner, Request(c, "sub", "ttl", "", FALSE), "nil",
               "gotttl", "filled")
    /\ UNCHANGED <<redisVars, clientVars>>

(* MUTANT, not the code: the copy is filled from the wrong variable.       *)
FillRequestReply(c) ==
    Request(c, "sub", "set", ans[c]["sub"], ans[c]["sub"] = "1")

(* The copy expires if the TTL is a number above zero.                     *)
FillRequest(c) == Request(c, "sub", "set", val[c], ans[c]["sub"] = "1")

(* Without a reply to TTL dispatch panics: the GET is answered as it is.   *)
Fill(c) ==
    /\ pc[c] = "gotttl" /\ Answered(c, "sub")
    /\ IF ans[c]["sub"] = "nil"
       THEN /\ Finish(c, val[c]) /\ UNCHANGED <<queue, ans, faults>>
       ELSE /\ Forward(c, Home[c], FillRequest(c), "nil", "filling", "filled")
            /\ UNCHANGED result
    /\ UNCHANGED <<redisVars, cmd, todo, execed, old, val, histVars>>

Filled(c) ==
    /\ pc[c] = "filled" \/ (pc[c] = "filling" /\ Answered(c, "sub"))
    /\ Finish(c, val[c])
    /\ UNCHANGED <<redisVars, queue, ans, faults, cmd, todo, execed, old, val,
                   histVars>>

Dispatch(c) ==
    \/ Copy(c) \/ ExecGet(c) \/ ExecSet(c) \/ Commit(c) \/ Check(c)
    \/ StartRollback(c) \/ Rollback(c) \/ RolledBack(c) \/ RollbackEnds(c)
    \/ OwnReply(c)
    \/ GetHere(c) \/ GotHere(c) \/ GetOwner(c) \/ GotOwner(c)
    \/ AskTtl(c) \/ Fill(c) \/ Filled(c)

Arrive(c) ==
    \/ BeginGet(c) \/ BeginTransaction(c) \/ BeginCopies(c)
    \/ BeginRejected(c)

Redis(z) ==
    \/ \E p \in Zones : Serve(p, z) \/ Fail(p, z)
    \/ ServeLate(z) \/ Expire(z)

Next ==
    \/ \E c \in Clients : Arrive(c) \/ Dispatch(c)
    \/ \E z \in Zones : Redis(z)

Spec == Init /\ [][Next]_vars

(* A session's goroutine runs, and a backend answers what it accepted      *)
(* (BackendConn, EveryRequestAnswered).                                    *)
Fairness ==
    /\ \A c \in Clients : WF_vars(Dispatch(c))
    /\ \A p, z \in Zones : WF_vars(Serve(p, z) \/ Fail(p, z))

FairSpec == Spec /\ Fairness

-----------------------------------------------------------------------------
(* Properties.                                                             *)

Values == {s.v : s \in Sets[owner]}
Texts == Values \cup {"", "ERR"}
Resps == Texts \cup {"nil", "waiting", "stuck", "OK", "0", "1"}

Stored == [v : Texts, ttl : BOOLEAN]
Requests ==
    [c : Clients, slot : Slots \cup {"copy"}, op : {"get", "set", "del", "ttl"},
     v : Texts, ttl : BOOLEAN]

(* Every variable has its type; a zone is sent the SET once at most.       *)
TypeOK ==
    /\ store \in [Zones -> Stored]
    /\ \A p, z \in Zones : queue[p][z] \in Seq(Requests)
    /\ \A z \in Zones : late[z] \subseteq Requests
    /\ cmd \in [Clients -> Stored]
    /\ \A c \in Clients :
          /\ todo[c] \in Seq(Zones) /\ execed[c] \in Seq(Zones)
          /\ IsInjective(todo[c]) /\ IsInjective(execed[c])
    /\ old \in [Clients -> [Zones -> Texts]]
    /\ ans \in [Clients -> [Slots -> Resps]]
    /\ val \in [Clients -> Texts]
    /\ before \in [Clients -> [Zones -> Stored]]
    /\ faults \subseteq FaultKinds /\ issued \in 0..MaxCommands

Quiet ==
    /\ \A c \in Clients : pc[c] = "idle"
    /\ \A p, z \in Zones : queue[p][z] = <<>>
    /\ \A z \in Zones : late[z] = {}

(* When nothing is under way all zones hold the same, whether the          *)
(* transactions committed or were rolled back: "同步执行的时候的一致性，一 *)
(* 个事务" (router.go 246).                                                *)
AgreeWhenQuiet ==
    owner = "none" /\ Quiet /\ Cardinality(faults) <= 1 =>
        \A y, z \in Zones : store[y] = store[z]

(* A transaction that returned an error because of one failure has left    *)
(* every zone the value it had: "失败回滚" (transaction.go 70).            *)
RolledBackRestores ==
    Cardinality(faults) <= 1 => \A c \in Clients :
        pc[c] = "idle" /\ result[c] = "rolledback" =>
            \A z \in Zones : store[z].v = before[c][z].v

(* A transaction that succeeded is in every zone when it returns           *)
(* (transaction.go 47-67), not merely sent there.  With two failures it    *)
(* need not be: a SET that was rolled back may be answered with OK.        *)
AcknowledgedEverywhere ==
    Cardinality(faults) <= 1 => \A c \in Clients :
        owner = "none" /\ pc[c] = "idle" /\ result[c] = "ok" =>
            \A z \in Zones : store[z] = cmd[c]

(* What a zone stores was SET by a client, also when a GET fetched it from *)
(* another zone: "若有返回信息，并new一个request写入本地区域" (router.go    *)
(* 195).                                                                   *)
OnlyValuesStored == \A z \in Zones : store[z].v \in Values \cup {""}

(* As long as no request is answered with an error, that is so: no drop,   *)
(* no lost reply and no late write stores anything else (router.go 196-215)*)
ValuesWereSet == "errorreply" \in faults \/ OnlyValuesStored

(* Every dispatch ends and the session's reader goes on, also after a push *)
(* that panicked, for whose answer the session's writer waits for ever     *)
(* (router.go 166-182, transaction.go 47-91).                              *)
EveryCommandEnds ==
    \A c \in Clients : pc[c] # "idle" ~> pc[c] = "idle"
=============================================================================
