-------------------------- MODULE ZoneDispatchProofs --------------------------
(***************************************************************************)
(* Proofs about ZoneDispatch, for any zones, clients, keys, values, any    *)
(* number of commands and any faults.                                      *)
(***************************************************************************)
EXTENDS ZoneDispatch, FiniteSetTheorems, SequenceTheorems, TLAPS

(* What may be stored, sent and answered by now: what clients SET, and the *)
(* text of an error only when one has been answered.                       *)
Allowed ==
    Values \cup {""} \cup (IF "errorreply" \in faults THEN {"ERR"} ELSE {})
Kept == [v : Allowed, ttl : BOOLEAN]
Sent ==
    [c : Clients, slot : Slots \cup {"copy"}, op : {"get", "set", "del", "ttl"},
     v : Allowed, ttl : BOOLEAN]
Fetched == Allowed \cup {"nil", "waiting", "stuck"}
Replied == Fetched \cup {"OK", "0", "1"}

(* Where a client looks for the reply of its "sub" request, and where that *)
(* is what a GET returned.                                                 *)
GetPcs == {"execget", "gothere", "gotowner"}
WaitPcs == GetPcs \cup {"gotttl", "filling", "rolling"}
Pcs ==
    WaitPcs \cup {"idle", "copy", "exec", "check", "failed", "rollback",
                  "reply", "get", "getowner", "ttl", "filled"}

EnvTyped ==
    /\ owner \in Owners /\ faults \subseteq FaultKinds
    /\ issued \in 0..MaxCommands
StoreTyped ==
    /\ store \in [Zones -> Kept] /\ late \in [Zones -> SUBSET Sent]
    /\ before \in [Clients -> [Zones -> Kept]]
QueueTyped == queue \in [Zones -> [Zones -> Seq(Sent)]]
DataTyped ==
    /\ cmd \in [Clients -> Kept] /\ val \in [Clients -> Allowed]
    /\ old \in [Clients -> [Zones -> Allowed]]
AnsTyped == ans \in [Clients -> [Slots -> Replied]]

(* The zones to visit are zones, each to be visited once, and none again.  *)
OrderTyped ==
    /\ pc \in [Clients -> Pcs]
    /\ todo \in [Clients -> Seq(Zones)] /\ execed \in [Clients -> Seq(Zones)]
    /\ \A c \in Clients :
          /\ IsInjective(todo[c]) /\ IsInjective(execed[c])
          /\ pc[c] \in {"execget", "rolling"} => todo[c] # <<>>
          /\ pc[c] \in {"exec", "execget"} =>
                \A i \in DOMAIN execed[c], j \in DOMAIN todo[c] :
                    execed[c][i] # todo[c][j]
          /\ pc[c] \in {"getowner", "gotowner", "ttl"} => owner \in Zones

Typed ==
    /\ EnvTyped /\ StoreTyped /\ QueueTyped /\ DataTyped /\ AnsTyped
    /\ OrderTyped

(* The i-th request on a connection is the "sub" request of c.             *)
Heard(c, p, z, i) ==
    /\ i \in 1..Len(queue[p][z])
    /\ queue[p][z][i].c = c /\ queue[p][z][i].slot = "sub"

(* A client has one "sub" request under way at most, waits for it, and     *)
(* knows what it has asked.                                                *)
OneCall ==
    \A c \in Clients, p, z \in Zones, i \in Nat :
        Heard(c, p, z, i) =>
            /\ ans[c]["sub"] = "waiting" /\ pc[c] \in WaitPcs
            /\ pc[c] \in GetPcs => queue[p][z][i].op = "get"
            /\ \A y, x \in Zones, j \in Nat :
                  Heard(c, y, x, j) => y = p /\ x = z /\ j = i

(* What a GET returned is a value.                                         *)
GetTyped == \A c \in Clients : pc[c] \in GetPcs => ans[c]["sub"] \in Fetched

Inv == Typed /\ OneCall /\ GetTyped

-----------------------------------------------------------------------------
(* What a step may allow.                                                  *)

LEMMA FaultIs ==
    ASSUME EnvTyped, NEW f, Fault(f), owner' = owner
    PROVE  /\ faults' = faults \cup {f} /\ faults' \subseteq FaultKinds
<1>1. Faults[owner] \in SUBSET SUBSET FaultKinds
  BY ZoneAssumption DEF EnvTyped, ZoneAssumption
<1> QED
  BY <1>1 DEF Fault

LEMMA AllowedGrows ==
    ASSUME faults \subseteq faults', owner' = owner
    PROVE  /\ Values' = Values /\ Allowed \subseteq Allowed'
           /\ Kept \subseteq Kept' /\ Sent \subseteq Sent'
           /\ Fetched \subseteq Fetched' /\ Replied \subseteq Replied'
<1>1. Values' = Values
  BY DEF Values
<1>2. Allowed \subseteq Allowed'
  BY <1>1 DEF Allowed
<1> QED
  BY <1>1, <1>2 DEF Kept, Sent, Fetched, Replied, Slots

(* Who changes which variables.                                            *)
LEMMA WhoChanges ==
    ASSUME [Next]_vars
    PROVE  /\ owner' = owner
           /\ faults' = faults \/ \E f : Fault(f)
           /\ UNCHANGED <<issued, before, execed>>
              \/ \E c \in Clients : Begin(c) \/ ExecSet(c)
           /\ UNCHANGED <<issued, before>> \/ \E c \in Clients : Begin(c)
           /\ cmd' = cmd \/ \E c \in Clients : BeginTransaction(c) \/ BeginCopies(c)
           /\ old' = old \/ \E c \in Clients : ExecSet(c)
           /\ val' = val \/ \E c \in Clients : GotOwner(c)
           /\ UNCHANGED redisVars
              \/ \E z \in Zones : \/ ServeLate(z) \/ Expire(z)
                                  \/ \E p \in Zones : Serve(p, z) \/ Fail(p, z)
<1>1. ASSUME NEW c \in Clients, Arrive(c)
      PROVE  /\ Begin(c) /\ UNCHANGED <<owner, faults, old, val, redisVars>>
             /\ cmd' = cmd \/ BeginTransaction(c) \/ BeginCopies(c)
  BY <1>1 DEF Arrive, BeginGet, BeginTransaction, BeginCopies, BeginRejected,
              Begin
<1>2. ASSUME NEW c \in Clients, Dispatch(c)
      PROVE  /\ UNCHANGED <<owner, issued, before, cmd, redisVars>>
             /\ execed' = execed \/ ExecSet(c)
             /\ old' = old \/ ExecSet(c)
             /\ val' = val \/ GotOwner(c)
  BY <1>2 DEF Dispatch, Copy, ExecGet, ExecSet, Commit, Check, StartRollback,
              Rollback, RolledBack, RollbackEnds, OwnReply, GetHere, GotHere,
              GetOwner, GotOwner, AskTtl, Fill, Filled, clientVars, histVars
<1>3. ASSUME NEW c \in Clients, Dispatch(c)
      PROVE  faults' = faults \/ \E f : Fault(f)
  BY <1>3 DEF Dispatch, Copy, ExecGet, ExecSet, Commit, Check, StartRollback,
              Rollback, RolledBack, RollbackEnds, OwnReply, GetHere, GotHere,
              GetOwner, GotOwner, AskTtl, Fill, Filled, Forward
<1>4. ASSUME NEW z \in Zones, Redis(z)
      PROVE  /\ UNCHANGED <<owner, issued, before, execed, cmd, old, val>>
             /\ faults' = faults \/ \E f : Fault(f)
  BY <1>4 DEF Redis, Serve, Fail, ServeLate, Expire, clientVars, histVars
<1>5. CASE UNCHANGED vars
  BY <1>5 DEF vars, clientVars, histVars
<1> QED
  BY <1>1, <1>2, <1>3, <1>4, <1>5 DEF Next, Redis

LEMMA StepAllowed ==
    ASSUME Typed, [Next]_vars
    PROVE  /\ faults \subseteq faults' /\ faults' \subseteq FaultKinds
           /\ owner' = owner /\ Values' = Values /\ Allowed \subseteq Allowed'
           /\ Kept \subseteq Kept' /\ Sent \subseteq Sent'
           /\ Fetched \subseteq Fetched' /\ Replied \subseteq Replied'
<1>1. owner' = owner /\ EnvTyped /\ faults \subseteq FaultKinds
  BY WhoChanges DEF Typed, EnvTyped
<1>2. faults \subseteq faults' /\ faults' \subseteq FaultKinds
  BY <1>1, WhoChanges, FaultIs
<1> QED
  BY <1>1, <1>2, AllowedGrows

-----------------------------------------------------------------------------
(* What dispatch does to the connections and to the replies.               *)

(* c sends a request: it waits only for a "sub" request, and then for the  *)
(* reply to a GET only when it sent one.                                   *)
Calls(c) ==
    \E z \in Zones, r \in Sent, resp \in {"nil", ""}, next \in Pcs,
       recovered \in Pcs \ WaitPcs :
        /\ Forward(c, z, r, resp, next, recovered) /\ r.c = c
        /\ r.slot = "sub" => next \in WaitPcs
        /\ r.slot # "sub" => next \notin WaitPcs
        /\ next \in GetPcs => r.op = "get"

(* c goes on without sending, and waits for nothing.                       *)
GoesOn(c) ==
    /\ UNCHANGED <<queue, ans>>
    /\ \E next \in Pcs \ WaitPcs : pc' = [pc EXCEPT ![c] = next]

LEMMA CallIs ==
    ASSUME NEW c, NEW z \in Zones, NEW r \in Sent, NEW resp \in {"nil", ""},
           NEW next \in Pcs, NEW recovered \in Pcs \ WaitPcs,
           Forward(c, z, r, resp, next, recovered), r.c = c,
           r.slot = "sub" => next \in WaitPcs,
           r.slot # "sub" => next \notin WaitPcs,
           next \in GetPcs => r.op = "get"
    PROVE  Calls(c)
BY DEF Calls

LEMMA DispatchCalls ==
    ASSUME Typed, NEW c \in Clients, Dispatch(c)
    PROVE  /\ pc[c] \notin WaitPcs \/ Answered(c, "sub")
           /\ Calls(c) \/ GoesOn(c)
<1> USE DEF Goto, Finish
<1>1. /\ pc \in [Clients -> Pcs] /\ todo[c] \in Seq(Zones)
      /\ todo[c] # <<>> => Head(todo[c]) \in Zones
      /\ Home[c] \in Zones
      /\ pc[c] \in {"execget", "rolling"} => todo[c] # <<>>
      /\ pc[c] \in {"getowner", "gotowner", "ttl"} => owner \in Zones
      /\ cmd[c].v \in Allowed /\ cmd[c].ttl \in BOOLEAN
      /\ val[c] \in Allowed /\ "" \in Allowed
      /\ "sub" \in Slots /\ "sub" \notin Zones /\ "copy" # "sub"
      /\ Zones \subseteq Slots /\ FALSE \in BOOLEAN /\ TRUE \in BOOLEAN
      /\ \A z \in Zones : old[c][z] \in Allowed
  <2>1. OrderTyped /\ DataTyped
    BY DEF Typed
  <2>2. cmd[c] \in Kept
    BY <2>1 DEF DataTyped
  <2>3. cmd[c].v \in Allowed /\ cmd[c].ttl \in BOOLEAN
    BY <2>2 DEF Kept
  <2>4. todo[c] \in Seq(Zones) /\ pc \in [Clients -> Pcs]
    BY <2>1 DEF OrderTyped
  <2>5. todo[c] # <<>> => Head(todo[c]) \in Zones
    BY <2>4, HeadTailProperties
  <2>6. Home[c] \in Zones /\ "sub" \notin Zones
    BY ZoneAssumption DEF ZoneAssumption
  <2> QED
    BY <2>1, <2>3, <2>4, <2>5, <2>6 DEF OrderTyped, DataTyped, Allowed, Slots
<1>2. CASE Copy(c)
  <2>1. pc[c] = "copy"
    BY <1>2 DEF Copy
  <2>2. CASE todo[c] = <<>>
    BY <1>1, <1>2, <2>1, <2>2 DEF Copy, GoesOn, WaitPcs, GetPcs, Pcs
  <2>3. CASE todo[c] # <<>>
    <3> DEFINE r == Request(c, "copy", "set", cmd[c].v, cmd[c].ttl)
    <3>1. r \in Sent /\ r.c = c /\ r.slot = "copy" /\ r.op = "set"
      BY <1>1 DEF Request, Sent
    <3>2. Forward(c, Head(todo[c]), r, "nil", "copy", "idle")
      BY <1>2, <2>3 DEF Copy
    <3> HIDE DEF r
    <3>3. Calls(c)
      BY <1>1, <2>3, <3>1, <3>2, CallIs DEF WaitPcs, GetPcs, Pcs
    <3> QED
      BY <2>1, <3>3 DEF WaitPcs, GetPcs
  <2> QED
    BY <2>2, <2>3
<1>3. CASE ExecGet(c) \/ GetHere(c) \/ GetOwner(c)
  <2> DEFINE r == Request(c, "sub", "get", "", FALSE)
  <2>1. r \in Sent /\ r.c = c /\ r.slot = "sub" /\ r.op = "get"
    BY <1>1 DEF Request, Sent
  <2>2. pc[c] \notin WaitPcs
    BY <1>3 DEF ExecGet, GetHere, GetOwner, WaitPcs, GetPcs
  <2>3. PICK z \in Zones, resp \in {"nil", ""}, next \in GetPcs,
            recovered \in {"failed", "idle"} :
            Forward(c, z, r, resp, next, recovered)
    BY <1>1, <1>3 DEF ExecGet, GetHere, GetOwner, GetPcs
  <2> HIDE DEF r
  <2>4. Calls(c)
    BY <2>1, <2>3, CallIs DEF WaitPcs, GetPcs, Pcs
  <2> QED
    BY <2>2, <2>4
<1>4. CASE ExecSet(c)
  <2>1. pc[c] = "execget" /\ Answered(c, "sub")
    BY <1>4 DEF ExecSet
  <2>2. CASE ans[c]["sub"] = "nil"
    BY <1>1, <1>4, <2>1, <2>2 DEF ExecSet, GoesOn, WaitPcs, GetPcs, Pcs
  <2>3. CASE ans[c]["sub"] # "nil"
    <3> DEFINE z == Head(todo[c])
               r == Request(c, z, "set", cmd[c].v, cmd[c].ttl)
    <3>1. z \in Zones /\ z # "sub" /\ z \in Slots
      BY <1>1, <2>1
    <3>2. r \in Sent /\ r.c = c /\ r.slot = z /\ r.op = "set"
      BY <1>1, <3>1 DEF Request, Sent
    <3>3. Forward(c, z, r, "nil", "exec", "failed")
      BY <1>4, <2>3 DEF ExecSet
    <3> HIDE DEF r, z
    <3>4. Calls(c)
      BY <3>1, <3>2, <3>3, CallIs DEF WaitPcs, GetPcs, Pcs
    <3> QED
      BY <2>1, <3>4
  <2> QED
    BY <2>2, <2>3
<1>5. CASE Rollback(c)
  <2> DEFINE z == Head(todo[c])
             r == Undo(c, z)
  <2>1. pc[c] = "rollback" /\ todo[c] # <<>> /\ z \in Zones
    BY <1>1, <1>5 DEF Rollback
  <2>2. r \in Sent /\ r.c = c /\ r.slot = "sub"
    BY <1>1, <2>1 DEF Undo, Request, Sent
  <2>3. Forward(c, z, r, "nil", "rolling", "reply")
    BY <1>5 DEF Rollback
  <2> HIDE DEF r, z
  <2>4. Calls(c)
    BY <2>1, <2>2, <2>3, CallIs DEF WaitPcs, GetPcs, Pcs
  <2> QED
    BY <2>1, <2>4 DEF WaitPcs, GetPcs
<1>6. CASE AskTtl(c)
  <2> DEFINE r == Request(c, "sub", "ttl", "", FALSE)
  <2>1. r \in Sent /\ r.c = c /\ r.slot = "sub"
    BY <1>1 DEF Request, Sent
  <2>2. /\ pc[c] = "ttl" /\ owner \in Zones
        /\ Forward(c, owner, r, "nil", "gotttl", "filled")
    BY <1>1, <1>6 DEF AskTtl
  <2> HIDE DEF r
  <2>3. Calls(c)
    BY <2>1, <2>2, CallIs DEF WaitPcs, GetPcs, Pcs
  <2> QED
    BY <2>2, <2>3 DEF WaitPcs, GetPcs
<1>7. CASE Fill(c)
  <2>1. pc[c] = "gotttl" /\ Answered(c, "sub")
    BY <1>7 DEF Fill
  <2>2. CASE ans[c]["sub"] = "nil"
    BY <1>1, <1>7, <2>1, <2>2 DEF Fill, GoesOn, WaitPcs, GetPcs, Pcs
  <2>3. CASE ans[c]["sub"] # "nil"
    <3> DEFINE r == FillRequest(c)
    <3>1. r \in Sent /\ r.c = c /\ r.slot = "sub"
      BY <1>1 DEF FillRequest, Request, Sent
    <3>2. Forward(c, Home[c], r, "nil", "filling", "filled")
      BY <1>7, <2>3 DEF Fill
    <3> HIDE DEF r
    <3>3. Calls(c)
      BY <1>1, <3>1, <3>2, CallIs DEF WaitPcs, GetPcs, Pcs
    <3> QED
      BY <2>1, <3>3
  <2> QED
    BY <2>2, <2>3
<1>8. CASE \/ Commit(c) \/ Check(c) \/ StartRollback(c) \/ RollbackEnds(c)
           \/ OwnReply(c)
  <2>1. pc[c] \notin WaitPcs
    BY <1>8 DEF Commit, Check, StartRollback, RollbackEnds, OwnReply, WaitPcs,
                GetPcs
  <2>2. /\ UNCHANGED <<queue, ans>>
        /\ \/ pc' = pc /\ pc[c] = "check"
           \/ \E next \in {"check", "idle", "failed", "rollback", "reply"} :
                 pc' = [pc EXCEPT ![c] = next]
    BY <1>8 DEF Commit, Check, StartRollback, RollbackEnds, OwnReply
  <2>3. GoesOn(c)
    BY <1>1, <2>2 DEF GoesOn, WaitPcs, GetPcs, Pcs
  <2> QED
    BY <2>1, <2>3
<1>9. CASE RolledBack(c) \/ GotHere(c) \/ GotOwner(c) \/ Filled(c)
  <2>1. pc[c] \notin WaitPcs \/ Answered(c, "sub")
    BY <1>9 DEF RolledBack, GotHere, GotOwner, Filled, WaitPcs, GetPcs
  <2>2. /\ UNCHANGED <<queue, ans>>
        /\ \E next \in {"rollback", "idle", "getowner", "ttl"} :
              pc' = [pc EXCEPT ![c] = next]
    BY <1>9 DEF RolledBack, GotHere, GotOwner, Filled
  <2>3. GoesOn(c)
    BY <2>2 DEF GoesOn, WaitPcs, GetPcs, Pcs
  <2> QED
    BY <2>1, <2>3
<1> QED
  BY <1>2, <1>3, <1>4, <1>5, <1>6, <1>7, <1>8, <1>9 DEF Dispatch

-----------------------------------------------------------------------------
(* The five things a step can do to connections, replies and dispatches.   *)

(* c does not wait for a "sub" request.                                    *)
Silent(c) == pc[c] \notin WaitPcs \/ Answered(c, "sub")

(* A command begins; it waits for nothing yet.                             *)
Begins(c) ==
    /\ Begin(c)
    /\ \E next \in Pcs \ WaitPcs : pc' = [pc EXCEPT ![c] = next]

(* The next request on the connection of p to z is answered.               *)
Served(p, z) ==
    /\ queue[p][z] # <<>>
    /\ queue' = [queue EXCEPT ![p][z] = Tail(@)]
    /\ pc' = pc
    /\ \E resp \in Replied' :
          /\ Respond(Head(queue[p][z]), resp)
          /\ Head(queue[p][z]).op = "get" => resp \in Fetched'

LEMMA ArriveBegins ==
    ASSUME Typed, NEW c \in Clients, Arrive(c)
    PROVE  Begins(c)
<1>1. pc \in [Clients -> Pcs]
  BY DEF Typed, OrderTyped
<1>2. Begin(c) /\ pc[c] = "idle"
  BY DEF Arrive, BeginGet, BeginTransaction, BeginCopies, BeginRejected, Begin
<1>3. \E next \in {"idle", "get", "exec", "copy"} :
         pc' = [pc EXCEPT ![c] = next]
  BY <1>1, <1>2 DEF Arrive, BeginGet, BeginTransaction, BeginCopies,
                    BeginRejected, Goto
<1> QED
  BY <1>2, <1>3 DEF Begins, Pcs, WaitPcs, GetPcs

LEMMA ServeServes ==
    ASSUME Typed, NEW p \in Zones, NEW z \in Zones, Serve(p, z)
    PROVE  Served(p, z)
<1> DEFINE r == Head(queue[p][z])
<1>1. store[z] \in Kept
  BY DEF Typed, StoreTyped
<1>2. store[z].v \in Fetched /\ faults' = faults /\ owner' = owner
  BY <1>1 DEF Serve, clientVars, histVars, Kept, Fetched
<1>3. Fetched' = Fetched /\ Replied' = Replied
  BY <1>2 DEF Fetched, Replied, Allowed, Values
<1>4. PICK resp \in Replies(z, r) : Respond(r, resp)
  BY DEF Serve
<1>5. resp \in Replied /\ (r.op = "get" => resp \in Fetched)
  BY <1>2, <1>4 DEF Replies, Replied
<1> HIDE DEF r
<1>6. resp \in Replied' /\ (r.op = "get" => resp \in Fetched')
  BY <1>3, <1>5
<1> QED
  BY <1>4, <1>6 DEF Serve, Served, r

LEMMA FailServes ==
    ASSUME Typed, NEW p \in Zones, NEW z \in Zones, Fail(p, z)
    PROVE  Served(p, z)
<1> DEFINE r == Head(queue[p][z])
<1>1. owner' = owner /\ pc' = pc
  BY DEF Fail, clientVars, histVars
<1>2. \E resp \in {"nil", "ERR"} :
         /\ Respond(r, resp)
         /\ resp = "ERR" => Fault("errorreply")
  BY DEF Fail
<1>3. PICK resp \in {"nil", "ERR"} :
         Respond(r, resp) /\ (resp = "ERR" => Fault("errorreply"))
  BY <1>2
<1>4. EnvTyped
  BY DEF Typed
<1>5. resp = "ERR" => "errorreply" \in faults'
  BY <1>1, <1>3, <1>4, FaultIs
<1>6. resp \in Fetched' /\ resp \in Replied'
  BY <1>5 DEF Fetched, Replied, Allowed
<1> HIDE DEF r
<1>7. \E x \in Replied' : Respond(r, x) /\ (r.op = "get" => x \in Fetched')
  BY <1>3, <1>6
<1> QED
  BY <1>1, <1>7 DEF Fail, Served, r

LEMMA Moves ==
    ASSUME Typed, [Next]_vars
    PROVE  \/ \E c \in Clients : Silent(c) /\ (Calls(c) \/ GoesOn(c))
           \/ \E c \in Clients : Begins(c)
           \/ \E p, z \in Zones : Served(p, z)
           \/ UNCHANGED <<queue, ans, pc>>
<1>1. CASE \E c \in Clients : Dispatch(c)
  BY <1>1, DispatchCalls DEF Silent
<1>2. CASE \E c \in Clients : Arrive(c)
  BY <1>2, ArriveBegins
<1>3. CASE \E p, z \in Zones : Serve(p, z) \/ Fail(p, z)
  BY <1>3, ServeServes, FailServes
<1>4. CASE \E z \in Zones : ServeLate(z) \/ Expire(z)
  BY <1>4 DEF ServeLate, Expire
<1>5. CASE UNCHANGED vars
  BY <1>5 DEF vars
<1> QED
  BY <1>1, <1>2, <1>3, <1>4, <1>5 DEF Next, Redis

-----------------------------------------------------------------------------
(* The connections keep their requests typed and in order.                 *)

(* Forward pushes the request or leaves the connections alone.             *)
LEMMA ForwardPushes ==
    ASSUME NEW c, NEW z, NEW r, NEW resp, NEW next, NEW recovered,
           Forward(c, z, r, resp, next, recovered)
    PROVE  \/ /\ queue' = [queue EXCEPT ![Home[c]][z] = Append(@, r)]
              /\ pc' = [pc EXCEPT ![c] = next]
              /\ r.slot = "copy" => ans' = ans
              /\ r.slot # "copy" =>
                    ans' = [ans EXCEPT ![c][r.slot] = "waiting"]
           \/ /\ queue' = queue
              /\ \/ pc' = [pc EXCEPT ![c] = recovered]
                 \/ /\ pc' = [pc EXCEPT ![c] = next]
                    /\ r.slot = "sub" => ans' = [ans EXCEPT ![c]["sub"] = resp]
              /\ \/ ans' = ans
                 \/ r.slot # "copy" /\ ans' = [ans EXCEPT ![c][r.slot] = resp]
                 \/ r.slot # "copy" /\ ans' = [ans EXCEPT ![c][r.slot] = "stuck"]
BY DEF Forward, Goto

LEMMA StepQueue ==
    ASSUME Inv, [Next]_vars
    PROVE  QueueTyped'
<1>1. QueueTyped /\ Typed /\ Sent \subseteq Sent'
  BY StepAllowed DEF Inv, Typed
<1>2. \A p, z \in Zones : queue[p][z] \in Seq(Sent')
  BY <1>1, SeqMonotonic DEF QueueTyped
<1>3. queue \in [Zones -> [Zones -> Seq(Sent')]]
  BY <1>1, <1>2 DEF QueueTyped
<1>4. ASSUME NEW c \in Clients, Calls(c)
      PROVE  QueueTyped'
  <2>1. PICK z \in Zones, r \in Sent, resp \in {"nil", ""}, next \in Pcs,
             recovered \in Pcs \ WaitPcs :
             Forward(c, z, r, resp, next, recovered)
    BY <1>4 DEF Calls
  <2>2. Home[c] \in Zones
    BY ZoneAssumption DEF ZoneAssumption
  <2>3. Append(queue[Home[c]][z], r) \in Seq(Sent')
    BY <1>1, <1>2, <2>2, AppendProperties
  <2>4. \/ queue' = queue
        \/ queue' = [queue EXCEPT ![Home[c]][z] = Append(@, r)]
    BY <2>1, ForwardPushes
  <2>5. CASE queue' = queue
    BY <1>3, <2>5 DEF QueueTyped
  <2>6. CASE queue' = [queue EXCEPT ![Home[c]][z] = Append(@, r)]
    <3> DEFINE h == Home[c]
               s == Append(queue[h][z], r)
    <3>1. queue' = [queue EXCEPT ![h] = [queue[h] EXCEPT ![z] = s]]
      BY <2>6
    <3> HIDE DEF h, s
    <3>2. s \in Seq(Sent') /\ h \in Zones
      BY <2>2, <2>3 DEF s, h
    <3>3. [queue[h] EXCEPT ![z] = s] \in [Zones -> Seq(Sent')]
      BY <1>3, <3>2
    <3> QED
      BY <1>3, <3>1, <3>2, <3>3 DEF QueueTyped
  <2> QED
    BY <2>4, <2>5, <2>6
<1>5. ASSUME NEW c \in Clients, Begins(c)
      PROVE  QueueTyped'
  <2>1. queue' = [p \in Zones |-> [z \in Zones |->
                    [i \in DOMAIN queue[p][z] |-> Unheard(c, queue[p][z][i])]]]
    BY <1>5 DEF Begins, Begin
  <2>2. \A r \in Sent : Unheard(c, r) \in Sent
    BY DEF Unheard, Sent
  <2>3. ASSUME NEW p \in Zones, NEW z \in Zones
        PROVE  [i \in DOMAIN queue[p][z] |-> Unheard(c, queue[p][z][i])]
                  \in Seq(Sent')
    <3>1. queue[p][z] \in Seq(Sent)
      BY <1>1 DEF QueueTyped
    <3>2. \A i \in DOMAIN queue[p][z] : queue[p][z][i] \in Sent
      BY <3>1, ElementOfSeq
    <3>3. \A i \in 1..Len(queue[p][z]) : Unheard(c, queue[p][z][i]) \in Sent'
      BY <1>1, <2>2, <3>1, <3>2
    <3> QED
      BY <3>1, <3>3, IsASeq
  <2> QED
    BY <2>1, <2>3 DEF QueueTyped
<1>6. ASSUME NEW p \in Zones, NEW z \in Zones, Served(p, z)
      PROVE  QueueTyped'
  <2>1. Tail(queue[p][z]) \in Seq(Sent')
    BY <1>2, <1>6, HeadTailProperties DEF Served
  <2> QED
    BY <1>3, <1>6, <2>1 DEF QueueTyped, Served
<1>7. CASE UNCHANGED <<queue, ans, pc>>
  BY <1>3, <1>7 DEF QueueTyped
<1>8. CASE \E c \in Clients : GoesOn(c)
  BY <1>3, <1>8 DEF QueueTyped, GoesOn
<1> QED
  BY <1>1, <1>4, <1>5, <1>6, <1>7, <1>8, Moves

LEMMA StepAns ==
    ASSUME Inv, [Next]_vars
    PROVE  AnsTyped' /\ pc' \in [Clients -> Pcs]
<1>1. /\ AnsTyped /\ Typed /\ pc \in [Clients -> Pcs]
      /\ Replied \subseteq Replied' /\ QueueTyped
  BY StepAllowed DEF Inv, Typed, OrderTyped
<1>2. ans \in [Clients -> [Slots -> Replied']] /\ Slots' = Slots
  BY <1>1 DEF AnsTyped, Slots
<1>3. {"nil", "", "waiting", "stuck"} \subseteq Replied'
  BY DEF Replied, Fetched, Allowed
<1>4. ASSUME NEW c \in Clients, Calls(c)
      PROVE  AnsTyped' /\ pc' \in [Clients -> Pcs]
  <2>1. PICK z \in Zones, r \in Sent, resp \in {"nil", ""}, next \in Pcs,
             recovered \in Pcs \ WaitPcs :
             Forward(c, z, r, resp, next, recovered)
    BY <1>4 DEF Calls
  <2>2. r.slot # "copy" => r.slot \in Slots
    BY DEF Sent
  <2>3. \/ ans' = ans
        \/ /\ r.slot # "copy"
           /\ \E x \in {"nil", "", "waiting", "stuck"} :
                 ans' = [ans EXCEPT ![c][r.slot] = x]
    BY <2>1 DEF Forward
  <2>4. pc' = [pc EXCEPT ![c] = next] \/ pc' = [pc EXCEPT ![c] = recovered]
    BY <2>1 DEF Forward, Goto
  <2>5. pc' \in [Clients -> Pcs]
    BY <1>1, <2>4
  <2>6. CASE ans' = ans
    BY <1>2, <2>5, <2>6 DEF AnsTyped
  <2>7. ASSUME r.slot # "copy", NEW x \in {"nil", "", "waiting", "stuck"},
               ans' = [ans EXCEPT ![c][r.slot] = x]
        PROVE  AnsTyped' /\ pc' \in [Clients -> Pcs]
    <3> DEFINE t == r.slot
    <3>1. t \in Slots /\ x \in Replied'
      BY <1>3, <2>2, <2>7
    <3>2. ans' = [ans EXCEPT ![c] = [ans[c] EXCEPT ![t] = x]]
      BY <2>7
    <3> HIDE DEF t
    <3> QED
      BY <1>2, <2>5, <3>1, <3>2 DEF AnsTyped
  <2> QED
    BY <2>3, <2>6, <2>7
<1>5. ASSUME NEW c \in Clients, GoesOn(c)
      PROVE  AnsTyped' /\ pc' \in [Clients -> Pcs]
  BY <1>1, <1>2, <1>5 DEF AnsTyped, GoesOn
<1>6. ASSUME NEW c \in Clients, Begins(c)
      PROVE  AnsTyped' /\ pc' \in [Clients -> Pcs]
  BY <1>1, <1>2, <1>3, <1>6 DEF AnsTyped, Begins, Begin
<1>7. ASSUME NEW p \in Zones, NEW z \in Zones, Served(p, z)
      PROVE  AnsTyped' /\ pc' \in [Clients -> Pcs]
  <2> DEFINE r == Head(queue[p][z])
  <2>1. r \in Sent
    BY <1>1, <1>7, HeadTailProperties DEF QueueTyped, Served
  <2>2. r.c \in Clients /\ (r.slot # "copy" => r.slot \in Slots)
    BY <2>1 DEF Sent
  <2>3. PICK resp \in Replied' : Respond(r, resp)
    BY <1>7 DEF Served
  <2> HIDE DEF r
  <2>4. ans' \in [Clients -> [Slots -> Replied']]
    BY <1>2, <2>2, <2>3 DEF Respond
  <2> QED
    BY <1>1, <1>2, <1>7, <2>4 DEF AnsTyped, Served
<1>8. CASE UNCHANGED <<queue, ans, pc>>
  BY <1>1, <1>2, <1>8 DEF AnsTyped
<1> QED
  BY <1>1, <1>4, <1>5, <1>6, <1>7, <1>8, Moves

-----------------------------------------------------------------------------
(* One "sub" request at a time, so that a reply is of the GET it is taken  *)
(* for.                                                                    *)

Pushed(h, y, r) == queue' = [queue EXCEPT ![h][y] = Append(@, r)]
Popped(h, y) == queue[h][y] # <<>> /\ queue' = [queue EXCEPT ![h][y] = Tail(@)]

(* A request that is heard after a push was heard before, or was pushed.   *)
LEMMA PushHeard ==
    ASSUME QueueTyped, NEW h \in Zones, NEW y \in Zones, NEW r \in Sent,
           Pushed(h, y, r),
           NEW c \in Clients, NEW p \in Zones, NEW z \in Zones, NEW i \in Nat,
           Heard(c, p, z, i)'
    PROVE  \/ Heard(c, p, z, i) /\ queue'[p][z][i] = queue[p][z][i]
           \/ /\ p = h /\ z = y /\ i = Len(queue[h][y]) + 1
              /\ queue'[p][z][i] = r /\ r.c = c /\ r.slot = "sub"
<1> DEFINE q == queue[h][y]
<1>1. q \in Seq(Sent) /\ queue[p][z] \in Seq(Sent)
  BY DEF QueueTyped
<1>2. /\ i \in 1..Len(queue'[p][z])
      /\ queue'[p][z][i].c = c /\ queue'[p][z][i].slot = "sub"
  BY DEF Heard
<1>3. CASE p = h /\ z = y
  <2>1. queue'[p][z] = Append(q, r)
    BY <1>3 DEF QueueTyped, Pushed
  <2> HIDE DEF q
  <2>2. /\ Len(Append(q, r)) = Len(q) + 1 /\ Len(q) \in Nat
        /\ \A j \in 1..Len(q) : Append(q, r)[j] = q[j]
        /\ Append(q, r)[Len(q) + 1] = r
    BY <1>1, AppendProperties, LenProperties
  <2>3. CASE i = Len(q) + 1
    BY <1>2, <1>3, <2>1, <2>2, <2>3 DEF q
  <2>4. CASE i # Len(q) + 1
    <3>1. i \in 1..Len(q)
      BY <1>2, <2>1, <2>2, <2>4
    <3>2. queue'[p][z][i] = q[i]
      BY <2>1, <2>2, <3>1
    <3> QED
      BY <1>2, <1>3, <3>1, <3>2 DEF Heard, q
  <2> QED
    BY <2>3, <2>4
<1>4. CASE ~ (p = h /\ z = y)
  <2>1. queue'[p][z] = queue[p][z]
    BY <1>4 DEF QueueTyped, Pushed
  <2> QED
    BY <1>2, <2>1 DEF Heard
<1> QED
  BY <1>3, <1>4

(* One that is heard after an answer was heard before, not as the first.   *)
LEMMA PopHeard ==
    ASSUME QueueTyped, NEW h \in Zones, NEW y \in Zones, Popped(h, y),
           NEW c \in Clients, NEW p \in Zones, NEW z \in Zones, NEW i \in Nat,
           Heard(c, p, z, i)'
    PROVE  \E j \in Nat :
              /\ j = IF p = h /\ z = y THEN i + 1 ELSE i
              /\ Heard(c, p, z, j) /\ queue'[p][z][i] = queue[p][z][j]
              /\ ~ (p = h /\ z = y /\ j = 1)
<1> DEFINE q == queue[h][y]
<1>1. q \in Seq(Sent) /\ q # <<>> /\ queue[p][z] \in Seq(Sent)
  BY DEF QueueTyped, Popped
<1>2. /\ i \in 1..Len(queue'[p][z])
      /\ queue'[p][z][i].c = c /\ queue'[p][z][i].slot = "sub"
  BY DEF Heard
<1>3. CASE p = h /\ z = y
  <2>1. queue'[p][z] = Tail(q)
    BY <1>3 DEF QueueTyped, Popped
  <2> HIDE DEF q
  <2>2. /\ Len(Tail(q)) = Len(q) - 1 /\ Len(q) \in Nat
        /\ \A j \in 1..Len(Tail(q)) : Tail(q)[j] = q[j + 1]
    BY <1>1, HeadTailProperties, LenProperties
  <2>3. i + 1 \in 1..Len(q) /\ i + 1 \in Nat /\ i + 1 # 1
    <3>1. i \in 1..(Len(q) - 1)
      BY <1>2, <2>1, <2>2
    <3> QED
      BY <2>2, <3>1
  <2>4. queue'[p][z][i] = q[i + 1]
    BY <1>2, <2>1, <2>2
  <2> QED
    BY <1>2, <1>3, <2>3, <2>4 DEF Heard, q
<1>4. CASE ~ (p = h /\ z = y)
  <2>1. queue'[p][z] = queue[p][z]
    BY <1>4 DEF QueueTyped, Popped
  <2> QED
    BY <1>2, <1>4, <2>1 DEF Heard
<1> QED
  BY <1>3, <1>4

(* One that is heard when d begins a command is not of d.                  *)
LEMMA BeginHeard ==
    ASSUME QueueTyped, NEW d \in Clients, Begin(d),
           NEW c \in Clients, NEW p \in Zones, NEW z \in Zones, NEW i \in Nat,
           Heard(c, p, z, i)'
    PROVE  c # d /\ Heard(c, p, z, i) /\ queue'[p][z][i] = queue[p][z][i]
<1> DEFINE q == queue[p][z]
<1>1. q \in Seq(Sent)
  BY DEF QueueTyped
<1>2. queue'[p][z] = [j \in DOMAIN q |-> Unheard(d, q[j])]
  BY DEF Begin
<1> HIDE DEF q
<1>3. DOMAIN q = 1..Len(q) /\ Len(q) \in Nat
  BY <1>1, LenProperties
<1>4. Len(queue'[p][z]) = Len(q)
  BY <1>2, <1>3
<1>5. /\ i \in 1..Len(q)
      /\ queue'[p][z][i].c = c /\ queue'[p][z][i].slot = "sub"
  BY <1>4 DEF Heard
<1>6. queue'[p][z][i] = Unheard(d, q[i]) /\ q[i] \in Sent
  BY <1>1, <1>2, <1>3, <1>5, ElementOfSeq
<1>7. CASE q[i].c = d
  <2>1. queue'[p][z][i].slot = "copy"
    BY <1>6, <1>7 DEF Unheard, Sent
  <2> QED
    BY <1>5, <2>1
<1>8. CASE q[i].c # d
  <2>1. queue'[p][z][i] = q[i]
    BY <1>6, <1>8 DEF Unheard
  <2> QED
    BY <1>5, <1>8, <2>1 DEF Heard, q
<1> QED
  BY <1>7, <1>8

(* The "sub" request of a client that was silent is the only one heard.    *)
LEMMA CallHeard ==
    ASSUME QueueTyped, OneCall, NEW d \in Clients, NEW h \in Zones,
           NEW y \in Zones, NEW r \in Sent, Pushed(h, y, r), r.c = d,
           \A p, z \in Zones, i \in Nat : ~ Heard(d, p, z, i),
           \A c \in Clients \ {d} : pc'[c] = pc[c] /\ ans'[c] = ans[c],
           r.slot = "sub" => ans'[d]["sub"] = "waiting",
           r.slot = "sub" => pc'[d] \in WaitPcs,
           pc'[d] \in GetPcs => r.op = "get"
    PROVE  OneCall'
<1> SUFFICES ASSUME NEW c \in Clients, NEW p \in Zones, NEW z \in Zones,
                    NEW i \in Nat, Heard(c, p, z, i)'
             PROVE  /\ ans'[c]["sub"] = "waiting" /\ pc'[c] \in WaitPcs
                    /\ pc'[c] \in GetPcs => queue'[p][z][i].op = "get"
                    /\ \A w, x \in Zones, j \in Nat :
                          Heard(c, w, x, j)' => w = p /\ x = z /\ j = i
  BY DEF OneCall
<1>1. ASSUME NEW w \in Zones, NEW x \in Zones, NEW j \in Nat,
             Heard(c, w, x, j)'
      PROVE  \/ /\ c # d /\ Heard(c, w, x, j)
                /\ queue'[w][x][j] = queue[w][x][j]
             \/ /\ c = d /\ w = h /\ x = y /\ j = Len(queue[h][y]) + 1
                /\ queue'[w][x][j] = r /\ r.slot = "sub"
  BY <1>1, PushHeard
<1>2. CASE c = d
  BY <1>1, <1>2
<1>3. CASE c # d
  <2>1. Heard(c, p, z, i) /\ queue'[p][z][i] = queue[p][z][i]
    BY <1>1, <1>3
  <2>2. \A w, x \in Zones, j \in Nat :
           Heard(c, w, x, j)' => w = p /\ x = z /\ j = i
    BY <1>1, <1>3, <2>1 DEF OneCall
  <2> QED
    BY <1>3, <2>1, <2>2 DEF OneCall
<1> QED
  BY <1>2, <1>3

LEMMA StepOneCall ==
    ASSUME Inv, [Next]_vars
    PROVE  OneCall'
<1>1. QueueTyped /\ AnsTyped /\ Typed /\ OneCall /\ pc \in [Clients -> Pcs]
  BY DEF Inv, Typed, OrderTyped
<1>2. ASSUME NEW c \in Clients, Silent(c)
      PROVE  \A p, z \in Zones, i \in Nat : ~ Heard(c, p, z, i)
  BY <1>1, <1>2 DEF Silent, Answered, OneCall
<1>3. "sub" \in Slots
  BY DEF Slots
(* Nobody starts to wait, and whoever waited and is heard goes on waiting. *)
<1> DEFINE
      Same(c, p, z, i, j) ==
          /\ Heard(c, p, z, j) /\ queue'[p][z][i] = queue[p][z][j]
          /\ pc'[c] = pc[c] /\ ans'[c]["sub"] = ans[c]["sub"]
<1>4. ASSUME \A c \in Clients, p, z \in Zones, i \in Nat :
                Heard(c, p, z, i)' => Same(c, p, z, i, i)
      PROVE  OneCall'
  <2> SUFFICES ASSUME NEW c \in Clients, NEW p \in Zones, NEW z \in Zones,
                      NEW i \in Nat, Heard(c, p, z, i)'
               PROVE  /\ ans'[c]["sub"] = "waiting" /\ pc'[c] \in WaitPcs
                      /\ pc'[c] \in GetPcs => queue'[p][z][i].op = "get"
                      /\ \A y, x \in Zones, j \in Nat :
                            Heard(c, y, x, j)' => y = p /\ x = z /\ j = i
    BY DEF OneCall
  <2> QED
    BY <1>1, <1>4 DEF OneCall
<1>5. ASSUME NEW d \in Clients, Silent(d), GoesOn(d)
      PROVE  OneCall'
  <2>1. \A c \in Clients, p, z \in Zones, i \in Nat :
           Heard(c, p, z, i)' => Heard(c, p, z, i) /\ c # d
    BY <1>2, <1>5 DEF GoesOn, Heard
  <2> QED
    BY <1>1, <1>4, <1>5, <2>1 DEF GoesOn
<1>6. ASSUME NEW d \in Clients, Begins(d)
      PROVE  OneCall'
  <2>1. \A c \in Clients, p, z \in Zones, i \in Nat :
           Heard(c, p, z, i)' => /\ c # d /\ Heard(c, p, z, i)
                                /\ queue'[p][z][i] = queue[p][z][i]
    BY <1>1, <1>6, BeginHeard DEF Begins
  <2>2. \A c \in Clients \ {d} : pc'[c] = pc[c] /\ ans'[c] = ans[c]
    BY <1>1, <1>6 DEF Begins, Begin, AnsTyped
  <2> QED
    BY <1>4, <2>1, <2>2
<1>7. CASE UNCHANGED <<queue, ans, pc>>
  BY <1>4, <1>7 DEF Heard
<1>8. ASSUME NEW d \in Clients, Silent(d), Calls(d)
      PROVE  OneCall'
  <2>1. PICK y \in Zones, r \in Sent, resp \in {"nil", ""}, next \in Pcs,
             recovered \in Pcs \ WaitPcs :
             /\ Forward(d, y, r, resp, next, recovered) /\ r.c = d
             /\ r.slot = "sub" => next \in WaitPcs
             /\ next \in GetPcs => r.op = "get"
    BY <1>8 DEF Calls
  <2>2. \A c \in Clients \ {d} : pc'[c] = pc[c] /\ ans'[c] = ans[c]
    BY <1>1, <2>1 DEF Forward, Goto, AnsTyped
  <2>3. CASE queue' = queue
    <3>1. \A c \in Clients, p, z \in Zones, i \in Nat :
             Heard(c, p, z, i)' => Heard(c, p, z, i) /\ c # d
      BY <1>2, <1>8, <2>3 DEF Heard
    <3> QED
      BY <1>4, <2>2, <2>3, <3>1
  <2>4. CASE /\ queue' = [queue EXCEPT ![Home[d]][y] = Append(@, r)]
             /\ pc' = [pc EXCEPT ![d] = next]
             /\ r.slot # "copy" => ans' = [ans EXCEPT ![d][r.slot] = "waiting"]
    <3>1. Home[d] \in Zones
      BY ZoneAssumption DEF ZoneAssumption
    <3>2. Pushed(Home[d], y, r)
      BY <2>4 DEF Pushed
    <3>3. r.slot = "sub" => ans'[d]["sub"] = "waiting"
      <4> SUFFICES ASSUME r.slot = "sub"
                   PROVE  ans'[d]["sub"] = "waiting"
        OBVIOUS
      <4>1. ans' = [ans EXCEPT ![d]["sub"] = "waiting"]
        BY <2>4
      <4> QED
        BY <1>1, <1>3, <4>1 DEF AnsTyped
    <3>4. pc'[d] = next
      BY <1>1, <2>4
    <3> QED
      BY <1>1, <1>2, <1>8, <2>1, <2>2, <3>1, <3>2, <3>3, <3>4, CallHeard
  <2> QED
    BY <2>1, <2>3, <2>4 DEF Forward, Goto
<1>9. ASSUME NEW h \in Zones, NEW y \in Zones, Served(h, y)
      PROVE  OneCall'
  <2> DEFINE r == Head(queue[h][y])
  <2>1. ASSUME NEW c \in Clients, NEW p \in Zones, NEW z \in Zones,
               NEW i \in Nat, Heard(c, p, z, i)'
        PROVE  \E j \in Nat :
                  /\ j = IF p = h /\ z = y THEN i + 1 ELSE i
                  /\ Heard(c, p, z, j) /\ queue'[p][z][i] = queue[p][z][j]
                  /\ ~ (p = h /\ z = y /\ j = 1)
    <3>1. Popped(h, y)
      BY <1>9 DEF Served, Popped
    <3> QED
      BY <1>1, <2>1, <3>1, PopHeard
  <2>2. /\ r \in Sent /\ r = queue[h][y][1] /\ 1 \in 1..Len(queue[h][y])
        /\ 1 \in Nat
    <3>1. queue[h][y] \in Seq(Sent) /\ queue[h][y] # <<>>
      BY <1>1, <1>9 DEF QueueTyped, Served
    <3> QED
      BY <3>1, HeadTailProperties, EmptySeq, LenProperties
  <2>3. r.slot = "sub" => Heard(r.c, h, y, 1)
    BY <2>2 DEF Heard
  <2>4. PICK resp \in Replied' : Respond(r, resp)
    BY <1>9 DEF Served
  <2> HIDE DEF r
  <2>5. r.c \in Clients
    BY <2>2 DEF Sent
  <2> SUFFICES ASSUME NEW c \in Clients, NEW p \in Zones, NEW z \in Zones,
                      NEW i \in Nat, Heard(c, p, z, i)'
               PROVE  /\ ans'[c]["sub"] = "waiting" /\ pc'[c] \in WaitPcs
                      /\ pc'[c] \in GetPcs => queue'[p][z][i].op = "get"
                      /\ \A w, x \in Zones, j \in Nat :
                            Heard(c, w, x, j)' => w = p /\ x = z /\ j = i
    BY DEF OneCall
  <2>6. PICK j \in Nat :
           /\ j = IF p = h /\ z = y THEN i + 1 ELSE i
           /\ Heard(c, p, z, j) /\ queue'[p][z][i] = queue[p][z][j]
           /\ ~ (p = h /\ z = y /\ j = 1)
    BY <2>1
  <2>7. ~ (r.c = c /\ r.slot = "sub")
    BY <1>1, <2>2, <2>3, <2>6 DEF OneCall
  <2>8. ans'[c]["sub"] = ans[c]["sub"]
    BY <1>1, <1>3, <2>4, <2>5, <2>7 DEF Respond, AnsTyped
  <2>9. ASSUME NEW w \in Zones, NEW x \in Zones, NEW k \in Nat,
               Heard(c, w, x, k)'
        PROVE  w = p /\ x = z /\ k = i
    <3>1. PICK l \in Nat :
             /\ l = IF w = h /\ x = y THEN k + 1 ELSE k
             /\ Heard(c, w, x, l)
      BY <2>1, <2>9
    <3>2. w = p /\ x = z /\ l = j
      BY <1>1, <2>6, <3>1 DEF OneCall
    <3> QED
      BY <2>6, <3>1, <3>2
  <2>10. pc'[c] = pc[c]
    BY <1>9 DEF Served
  <2> QED
    BY <1>1, <2>6, <2>8, <2>9, <2>10 DEF OneCall
<1> QED
  BY <1>1, <1>5, <1>6, <1>7, <1>8, <1>9, Moves

LEMMA StepGetTyped ==
    ASSUME Inv, [Next]_vars
    PROVE  GetTyped'
<1>1. /\ QueueTyped /\ AnsTyped /\ Typed /\ OneCall /\ GetTyped
      /\ pc \in [Clients -> Pcs] /\ Fetched \subseteq Fetched'
  BY StepAllowed DEF Inv, Typed, OrderTyped
<1>2. "sub" \in Slots /\ GetPcs \subseteq WaitPcs
      /\ {"nil", "", "waiting"} \subseteq Fetched'
  BY DEF Slots, WaitPcs, Fetched, Allowed
<1>3. ASSUME NEW d \in Clients, GoesOn(d) \/ Begins(d)
      PROVE  GetTyped'
  <2>1. \A c \in Clients \ {d} : pc'[c] = pc[c] /\ ans'[c] = ans[c]
    BY <1>1, <1>3 DEF GoesOn, Begins, Begin, AnsTyped
  <2>2. pc'[d] \notin GetPcs
    BY <1>1, <1>2, <1>3 DEF GoesOn, Begins
  <2> QED
    BY <1>1, <2>1, <2>2 DEF GetTyped
<1>4. ASSUME NEW d \in Clients, Calls(d)
      PROVE  GetTyped'
  <2>1. PICK y \in Zones, r \in Sent, resp \in {"nil", ""}, next \in Pcs,
             recovered \in Pcs \ WaitPcs :
             /\ Forward(d, y, r, resp, next, recovered)
             /\ r.slot # "sub" => next \notin WaitPcs
    BY <1>4 DEF Calls
  <2>2. \A c \in Clients \ {d} : pc'[c] = pc[c] /\ ans'[c] = ans[c]
    BY <1>1, <2>1 DEF Forward, Goto, AnsTyped
  <2>3. ASSUME r.slot = "sub", NEW x \in {"nil", "", "waiting"},
               ans' = [ans EXCEPT ![d][r.slot] = x]
        PROVE  ans'[d]["sub"] \in Fetched'
    <3>1. ans' = [ans EXCEPT ![d]["sub"] = x]
      BY <2>3
    <3> QED
      BY <1>1, <1>2, <3>1 DEF AnsTyped
  <2>4. \/ pc' = [pc EXCEPT ![d] = recovered]
        \/ /\ pc' = [pc EXCEPT ![d] = next]
           /\ \/ r.slot = "copy"
              \/ \E x \in {"nil", "", "waiting"} :
                    ans' = [ans EXCEPT ![d][r.slot] = x]
    BY <2>1 DEF Forward, Goto
  <2>5. pc'[d] = recovered \/ pc'[d] = next
    BY <1>1, <2>4
  <2>6. pc'[d] \in GetPcs => ans'[d]["sub"] \in Fetched'
    <3> SUFFICES ASSUME pc'[d] \in GetPcs
                 PROVE  ans'[d]["sub"] \in Fetched'
      OBVIOUS
    <3>1. pc'[d] # recovered
      BY <1>2
    <3>2. r.slot = "sub"
      BY <1>2, <2>1, <2>5, <3>1
    <3>3. pc' # [pc EXCEPT ![d] = recovered]
      BY <1>1, <3>1
    <3> QED
      BY <2>3, <2>4, <3>2, <3>3
  <2> QED
    BY <1>1, <2>2, <2>6 DEF GetTyped
<1>5. ASSUME NEW h \in Zones, NEW y \in Zones, Served(h, y)
      PROVE  GetTyped'
  <2> DEFINE r == Head(queue[h][y])
  <2>1. /\ r \in Sent /\ r = queue[h][y][1] /\ 1 \in 1..Len(queue[h][y])
        /\ 1 \in Nat
    <3>1. queue[h][y] \in Seq(Sent) /\ queue[h][y] # <<>>
      BY <1>1, <1>5 DEF QueueTyped, Served
    <3> QED
      BY <3>1, HeadTailProperties, EmptySeq, LenProperties
  <2>2. r.slot = "sub" => Heard(r.c, h, y, 1)
    BY <2>1 DEF Heard
  <2>3. PICK resp \in Replied' :
           Respond(r, resp) /\ (r.op = "get" => resp \in Fetched')
    BY <1>5 DEF Served
  <2>4. r.c \in Clients
    BY <2>1 DEF Sent
  <2>5. r.slot = "sub" /\ pc[r.c] \in GetPcs => r.op = "get"
    BY <1>1, <2>1, <2>2, <2>4 DEF OneCall
  <2> HIDE DEF r
  <2>6. ASSUME NEW c \in Clients, pc'[c] \in GetPcs
        PROVE  ans'[c]["sub"] \in Fetched'
    <3>1. pc[c] \in GetPcs /\ ans[c]["sub"] \in Fetched
      BY <1>1, <1>5, <2>6 DEF Served, GetTyped
    <3>2. CASE r.c = c /\ r.slot = "sub"
      <4>1. ans' = [ans EXCEPT ![c]["sub"] = resp] /\ resp \in Fetched'
        BY <2>3, <2>5, <3>1, <3>2 DEF Respond
      <4> QED
        BY <1>1, <1>2, <4>1 DEF AnsTyped
    <3>3. CASE ~ (r.c = c /\ r.slot = "sub")
      <4>1. ans'[c]["sub"] = ans[c]["sub"]
        BY <1>1, <1>2, <2>3, <2>4, <3>3 DEF Respond, AnsTyped
      <4> QED
        BY <1>1, <3>1, <4>1
    <3> QED
      BY <3>2, <3>3
  <2> QED
    BY <2>6 DEF GetTyped
<1>6. CASE UNCHANGED <<queue, ans, pc>>
  BY <1>1, <1>6 DEF GetTyped
<1> QED
  BY <1>1, <1>3, <1>4, <1>5, <1>6, Moves

-----------------------------------------------------------------------------
(* What is stored and what the clients keep.                               *)

LEMMA StepStore ==
    ASSUME Typed, [Next]_vars
    PROVE  StoreTyped'
<1>1. /\ StoreTyped /\ QueueTyped /\ Kept \subseteq Kept'
      /\ Sent \subseteq Sent' /\ NoKey \in Kept
  BY StepAllowed DEF Typed, NoKey, Kept, Allowed
<1>2. /\ store \in [Zones -> Kept'] /\ before \in [Clients -> [Zones -> Kept']]
      /\ late \in [Zones -> SUBSET Sent']
  BY <1>1 DEF StoreTyped
<1>3. ASSUME NEW z \in Zones, NEW r \in Sent
      PROVE  Applied(z, r) \in [Zones -> Kept']
  <2>1. [v |-> r.v, ttl |-> r.ttl] \in Kept
    BY DEF Sent, Kept
  <2> QED
    BY <1>1, <1>2, <2>1 DEF Applied
<1>4. before' \in [Clients -> [Zones -> Kept']]
  <2>1. before' = before \/ \E c \in Clients : Begin(c)
    BY WhoChanges
  <2> QED
    BY <1>2, <2>1 DEF Begin
<1>5. ASSUME NEW p \in Zones, NEW z \in Zones, Serve(p, z) \/ Fail(p, z)
      PROVE  store' \in [Zones -> Kept'] /\ late' \in [Zones -> SUBSET Sent']
  <2> DEFINE r == Head(queue[p][z])
  <2>1. r \in Sent
    BY <1>1, <1>5, HeadTailProperties DEF QueueTyped, Serve, Fail
  <2>2. store' = store \/ store' = Applied(z, r)
    BY <1>5 DEF Serve, Fail
  <2>3. late' = late \/ late' = [late EXCEPT ![z] = @ \cup {r}]
    BY <1>5 DEF Serve, Fail
  <2> HIDE DEF r
  <2> QED
    BY <1>1, <1>2, <1>3, <2>1, <2>2, <2>3
<1>6. ASSUME NEW z \in Zones, ServeLate(z) \/ Expire(z)
      PROVE  store' \in [Zones -> Kept'] /\ late' \in [Zones -> SUBSET Sent']
  <2>1. \/ store' = [store EXCEPT ![z] = NoKey] /\ late' = late
        \/ \E r \in late[z] :
              /\ store' = Applied(z, r)
              /\ late' = [late EXCEPT ![z] = @ \ {r}]
    BY <1>6 DEF ServeLate, Expire
  <2>2. late[z] \subseteq Sent
    BY <1>1 DEF StoreTyped
  <2> QED
    BY <1>1, <1>2, <1>3, <2>1, <2>2
<1>7. ASSUME UNCHANGED redisVars
      PROVE  store' \in [Zones -> Kept'] /\ late' \in [Zones -> SUBSET Sent']
  BY <1>2, <1>7 DEF redisVars
<1>8. \/ UNCHANGED redisVars
      \/ \E z \in Zones : ServeLate(z) \/ Expire(z)
      \/ \E p, z \in Zones : Serve(p, z) \/ Fail(p, z)
  BY WhoChanges
<1>9. store' \in [Zones -> Kept'] /\ late' \in [Zones -> SUBSET Sent']
  BY <1>5, <1>6, <1>7, <1>8
<1> QED
  BY <1>4, <1>9 DEF StoreTyped

LEMMA StepEnv ==
    ASSUME Typed, [Next]_vars
    PROVE  EnvTyped'
<1>1. EnvTyped /\ owner' = owner /\ faults' \subseteq FaultKinds
  BY StepAllowed DEF Typed
<1>2. issued' = issued \/ \E c \in Clients : Begin(c)
  BY WhoChanges
<1>3. issued' = issued \/ (issued < MaxCommands /\ issued' = issued + 1)
  BY <1>2 DEF Begin
<1>4. MaxCommands \in Nat /\ issued \in 0..MaxCommands
  BY <1>1, ZoneAssumption DEF ZoneAssumption, EnvTyped
<1> QED
  BY <1>1, <1>3, <1>4 DEF EnvTyped

LEMMA StepData ==
    ASSUME Inv, [Next]_vars
    PROVE  DataTyped'
<1>1. /\ DataTyped /\ EnvTyped /\ Typed /\ GetTyped /\ OrderTyped
      /\ Kept \subseteq Kept' /\ Allowed \subseteq Allowed'
  BY StepAllowed DEF Inv, Typed
<1>2. /\ cmd \in [Clients -> Kept'] /\ val \in [Clients -> Allowed']
      /\ old \in [Clients -> [Zones -> Allowed']]
  BY <1>1 DEF DataTyped
<1>3. cmd' \in [Clients -> Kept']
  <2>1. \A s \in Sets[owner] : s \in Kept
    <3>1. Sets[owner] \subseteq [v : STRING \ Markers, ttl : BOOLEAN]
      BY <1>1, ZoneAssumption DEF EnvTyped, ZoneAssumption
    <3>2. \A s \in Sets[owner] : s.v \in Values
      BY DEF Values
    <3> QED
      BY <3>1, <3>2 DEF Kept, Allowed
  <2>2. \/ cmd' = cmd
        \/ \E c \in Clients : \E s \in Sets[owner] :
              cmd' = [cmd EXCEPT ![c] = s]
    <3>1. cmd' = cmd \/ \E c \in Clients : BeginTransaction(c) \/ BeginCopies(c)
      BY WhoChanges
    <3> QED
      BY <3>1 DEF BeginTransaction, BeginCopies
  <2> QED
    BY <1>1, <1>2, <2>1, <2>2
<1>4. ASSUME NEW c \in Clients, pc[c] \in GetPcs, Answered(c, "sub"),
             ans[c]["sub"] # "nil"
      PROVE  ans[c]["sub"] \in Allowed
  BY <1>1, <1>4 DEF GetTyped, Fetched, Answered
<1>5. old' \in [Clients -> [Zones -> Allowed']]
  <2>1. ASSUME NEW c \in Clients, ExecSet(c)
        PROVE  old' \in [Clients -> [Zones -> Allowed']]
    <3> DEFINE z == Head(todo[c])
    <3>1. pc[c] = "execget" /\ Answered(c, "sub")
      BY <2>1 DEF ExecSet
    <3>2. z \in Zones
      BY <1>1, <3>1, HeadTailProperties DEF OrderTyped
    <3>3. \/ old' = old
          \/ ans[c]["sub"] # "nil" /\ old' = [old EXCEPT ![c][z] = ans[c]["sub"]]
      BY <2>1 DEF ExecSet
    <3> HIDE DEF z
    <3>4. ans[c]["sub"] # "nil" => ans[c]["sub"] \in Allowed'
      BY <1>1, <1>4, <3>1 DEF GetPcs
    <3> QED
      BY <1>2, <3>2, <3>3, <3>4
  <2> QED
    BY <1>2, <2>1, WhoChanges
<1>6. val' \in [Clients -> Allowed']
  <2>1. ASSUME NEW c \in Clients, GotOwner(c)
        PROVE  val' \in [Clients -> Allowed']
    <3>1. pc[c] = "gotowner" /\ Answered(c, "sub")
      BY <2>1 DEF GotOwner
    <3>2. \/ val' = val
          \/ ans[c]["sub"] # "nil" /\ val' = [val EXCEPT ![c] = ans[c]["sub"]]
      BY <2>1 DEF GotOwner
    <3>3. ans[c]["sub"] # "nil" => ans[c]["sub"] \in Allowed'
      BY <1>1, <1>4, <3>1 DEF GetPcs
    <3> QED
      BY <1>2, <3>2, <3>3
  <2> QED
    BY <1>2, <2>1, WhoChanges
<1> QED
  BY <1>3, <1>5, <1>6 DEF DataTyped

-----------------------------------------------------------------------------
(* The zones that a loop has still to visit.                               *)

Unrepeated(s) == s \in Seq(Zones) /\ IsInjective(s)
Apart(s, t) == \A i \in DOMAIN s, j \in DOMAIN t : s[i] # t[j]

LEMMA OrderOf ==
    ASSUME NEW S \in SUBSET Zones, NEW s \in SetToSeqs(S)
    PROVE  /\ Unrepeated(s)
           /\ \A z \in Zones \ S : Unrepeated(<<z>> \o s)
<1>1. IsFiniteSet(S) /\ Cardinality(S) \in Nat
  BY ZoneAssumption, FS_Subset, FS_CardinalityType DEF ZoneAssumption
<1> DEFINE n == Cardinality(S)
<1>2. /\ s \in [1..n -> S]
      /\ \A i, j \in 1..n : i # j => s[i] # s[j]
  BY DEF SetToSeqs
<1> HIDE DEF n
<1>3. n \in Nat
  BY <1>1 DEF n
<1>4. s \in Seq(S) /\ s \in Seq(Zones) /\ Len(s) = n /\ DOMAIN s = 1..n
  BY <1>2, <1>3
<1>5. Unrepeated(s)
  BY <1>2, <1>4 DEF Unrepeated, IsInjective
<1>6. ASSUME NEW z \in Zones \ S
      PROVE  Unrepeated(<<z>> \o s)
  <2> DEFINE t == <<z>> \o s
  <2>1. <<z>> \in Seq(Zones) /\ Len(<<z>>) = 1 /\ <<z>>[1] = z
    OBVIOUS
  <2>2. /\ t \in Seq(Zones) /\ Len(t) = 1 + n
        /\ \A i \in 1..Len(t) : t[i] = IF i <= 1 THEN <<z>>[i] ELSE s[i - 1]
    BY <1>4, <2>1, ConcatProperties
  <2>3. DOMAIN t = 1..(n + 1) /\ t[1] = z
    BY <1>3, <2>1, <2>2
  <2>4. \A i \in 1..(n + 1) : i # 1 => i - 1 \in 1..n /\ t[i] = s[i - 1]
    BY <1>3, <2>2
  <2> HIDE DEF t
  <2>5. ASSUME NEW i \in 1..(n + 1), NEW j \in 1..(n + 1), t[i] = t[j]
        PROVE  i = j
    <3>1. CASE i = 1 /\ j # 1
      <4>1. t[j] \in S
        BY <1>2, <2>4, <3>1
      <4> QED
        BY <2>3, <2>5, <3>1, <4>1
    <3>2. CASE i # 1 /\ j = 1
      <4>1. t[i] \in S
        BY <1>2, <2>4, <3>2
      <4> QED
        BY <2>3, <2>5, <3>2, <4>1
    <3>3. CASE i # 1 /\ j # 1
      <4>1. /\ i - 1 \in 1..n /\ j - 1 \in 1..n
            /\ s[i - 1] = s[j - 1]
        BY <2>4, <2>5, <3>3
      <4>2. i - 1 = j - 1
        BY <1>2, <4>1
      <4> QED
        BY <1>3, <4>2
    <3> QED
      BY <3>1, <3>2, <3>3
  <2> QED
    BY <2>2, <2>3, <2>5 DEF Unrepeated, IsInjective, t
<1> QED
  BY <1>5, <1>6

(* The rest of the loop; the zone just visited is not in it.               *)
LEMMA RestOf ==
    ASSUME NEW s, Unrepeated(s), s # <<>>
    PROVE  /\ Unrepeated(Tail(s)) /\ Head(s) \in Zones
           /\ \A i \in DOMAIN Tail(s) : Tail(s)[i] # Head(s)
           /\ \A i \in DOMAIN Tail(s) : \E j \in DOMAIN s : Tail(s)[i] = s[j]
           /\ \E j \in DOMAIN s : Head(s) = s[j]
<1>1. /\ s \in Seq(Zones) /\ Len(s) \in Nat /\ Len(s) > 0
      /\ DOMAIN s = 1..Len(s) /\ IsInjective(s)
  BY EmptySeq, LenProperties DEF Unrepeated
<1>2. /\ Tail(s) \in Seq(Zones) /\ Len(Tail(s)) = Len(s) - 1
      /\ Head(s) = s[1] /\ Head(s) \in Zones
      /\ \A i \in 1..Len(Tail(s)) : Tail(s)[i] = s[i + 1]
  BY <1>1, HeadTailProperties
<1>3. DOMAIN Tail(s) = 1..(Len(s) - 1)
  BY <1>2, LenProperties
<1>4. /\ 1 \in DOMAIN s
      /\ \A i \in DOMAIN Tail(s) :
            i + 1 \in DOMAIN s /\ i + 1 # 1 /\ Tail(s)[i] = s[i + 1]
  BY <1>1, <1>2, <1>3
<1>5. \A i \in DOMAIN Tail(s) : Tail(s)[i] # Head(s)
  BY <1>1, <1>2, <1>4 DEF IsInjective
<1>6. ASSUME NEW i \in DOMAIN Tail(s), NEW j \in DOMAIN Tail(s),
             Tail(s)[i] = Tail(s)[j]
      PROVE  i = j
  <2>1. s[i + 1] = s[j + 1] /\ i + 1 \in DOMAIN s /\ j + 1 \in DOMAIN s
    BY <1>4, <1>6
  <2>2. i + 1 = j + 1
    BY <1>1, <2>1 DEF IsInjective
  <2> QED
    BY <1>1, <1>3, <2>2
<1>7. IsInjective(Tail(s))
  BY <1>6 DEF IsInjective
<1> QED
  BY <1>2, <1>4, <1>5, <1>7 DEF Unrepeated

LEMMA MoreOf ==
    ASSUME NEW s, Unrepeated(s), NEW z \in Zones,
           \A i \in DOMAIN s : s[i] # z
    PROVE  /\ Unrepeated(Append(s, z))
           /\ \A i \in DOMAIN Append(s, z) :
                 Append(s, z)[i] = z \/ \E j \in DOMAIN s : Append(s, z)[i] = s[j]
<1> DEFINE t == Append(s, z)
<1>1. s \in Seq(Zones) /\ Len(s) \in Nat /\ DOMAIN s = 1..Len(s)
  BY LenProperties DEF Unrepeated
<1>2. /\ t \in Seq(Zones) /\ Len(t) = Len(s) + 1
      /\ \A i \in 1..Len(s) : t[i] = s[i]
      /\ t[Len(s) + 1] = z
  BY <1>1, AppendProperties
<1> HIDE DEF t
<1>3. DOMAIN t = 1..(Len(s) + 1)
  BY <1>2, LenProperties
<1>4. \A i \in DOMAIN t :
         \/ i = Len(s) + 1 /\ t[i] = z
         \/ i \in DOMAIN s /\ t[i] = s[i]
  BY <1>1, <1>2, <1>3
<1>5. \A i, j \in DOMAIN s : s[i] = s[j] => i = j
  BY DEF Unrepeated, IsInjective
<1>6. IsInjective(t)
  BY <1>4, <1>5 DEF IsInjective
<1> QED
  BY <1>2, <1>4, <1>6 DEF Unrepeated, t

(* The loop of one client.                                                 *)
Loop(c) ==
    /\ pc[c] \in Pcs /\ Unrepeated(todo[c]) /\ Unrepeated(execed[c])
    /\ pc[c] \in {"execget", "rolling"} => todo[c] # <<>>
    /\ pc[c] \in {"exec", "execget"} => Apart(execed[c], todo[c])
    /\ pc[c] \in {"getowner", "gotowner", "ttl"} => owner \in Zones

LEMMA LoopsOrdered ==
    OrderTyped <=> /\ pc \in [Clients -> Pcs]
                   /\ todo \in [Clients -> Seq(Zones)]
                   /\ execed \in [Clients -> Seq(Zones)]
                   /\ \A c \in Clients : Loop(c)
BY DEF OrderTyped, Loop, Unrepeated, Apart

(* What a step does to the loop of its client; the others' are unchanged.  *)
LoopStep(c) ==
    /\ todo' = [todo EXCEPT ![c] = todo'[c]]
    /\ execed' = [execed EXCEPT ![c] = execed'[c]]
    /\ Unrepeated(todo'[c]) /\ Unrepeated(execed'[c])
    /\ pc'[c] \in {"execget", "rolling"} => todo'[c] # <<>>
    /\ pc'[c] \in {"exec", "execget"} => Apart(execed'[c], todo'[c])
    /\ pc'[c] \in {"getowner", "gotowner", "ttl"} => owner \in Zones
    /\ \A d \in Clients \ {c} : pc'[d] = pc[d]

LEMMA ArriveLoops ==
    ASSUME Inv, NEW c \in Clients, Arrive(c)
    PROVE  LoopStep(c)
<1>1. /\ OrderTyped /\ pc \in [Clients -> Pcs] /\ Loop(c)
      /\ todo \in [Clients -> Seq(Zones)] /\ execed \in [Clients -> Seq(Zones)]
  BY LoopsOrdered DEF Inv, Typed
<1>2. Unrepeated(<<>>) /\ \A s : Apart(<<>>, s)
  BY DEF Unrepeated, IsInjective, Apart
<1>3. /\ execed' = [execed EXCEPT ![c] = <<>>] /\ execed'[c] = <<>>
      /\ pc[c] = "idle"
  BY <1>1 DEF Arrive, BeginGet, BeginTransaction, BeginCopies, BeginRejected,
              Begin
<1>4. CASE BeginGet(c) \/ BeginRejected(c)
  <2>1. /\ todo' = todo /\ pc'[c] \in {"get", "idle"}
        /\ \A d \in Clients \ {c} : pc'[d] = pc[d]
    BY <1>1, <1>3, <1>4 DEF BeginGet, BeginRejected, Goto
  <2>2. todo' = [todo EXCEPT ![c] = todo'[c]]
    BY <1>1, <2>1
  <2> QED
    BY <1>1, <1>2, <1>3, <2>1, <2>2 DEF LoopStep, Loop
<1>5. CASE BeginTransaction(c)
  <2>1. PICK s \in SetToSeqs(Zones) : todo' = [todo EXCEPT ![c] = s]
    BY <1>5 DEF BeginTransaction
  <2>2. Unrepeated(s)
    BY OrderOf
  <2>3. pc'[c] = "exec" /\ \A d \in Clients \ {c} : pc'[d] = pc[d]
    BY <1>1, <1>5 DEF BeginTransaction, Goto
  <2>4. todo'[c] = s
    BY <1>1, <2>1
  <2> QED
    BY <1>2, <1>3, <2>1, <2>2, <2>3, <2>4 DEF LoopStep
<1>6. CASE BeginCopies(c)
  <2>1. PICK s \in SetToSeqs(Others) : todo' = [todo EXCEPT ![c] = <<owner>> \o s]
    BY <1>6 DEF BeginCopies
  <2>2. owner \in Zones /\ owner \in Zones \ Others /\ Others \in SUBSET Zones
    BY <1>6, ZoneAssumption DEF BeginCopies, ZoneAssumption, Others
  <2>3. Unrepeated(<<owner>> \o s)
    BY <2>2, OrderOf
  <2>4. pc'[c] = "copy" /\ \A d \in Clients \ {c} : pc'[d] = pc[d]
    BY <1>1, <1>6 DEF BeginCopies, Goto
  <2>5. todo'[c] = <<owner>> \o s
    BY <1>1, <2>1
  <2> QED
    BY <1>2, <1>3, <2>1, <2>3, <2>4, <2>5 DEF LoopStep
<1> QED
  BY <1>4, <1>5, <1>6 DEF Arrive

LEMMA DispatchLoops ==
    ASSUME Inv, NEW c \in Clients, Dispatch(c)
    PROVE  LoopStep(c)
<1>1. /\ OrderTyped /\ pc \in [Clients -> Pcs] /\ Loop(c) /\ Typed
      /\ todo \in [Clients -> Seq(Zones)] /\ execed \in [Clients -> Seq(Zones)]
  BY LoopsOrdered DEF Inv, Typed
<1>2. \A d \in Clients \ {c} : pc'[d] = pc[d]
  <2>1. Calls(c) \/ GoesOn(c)
    BY <1>1, DispatchCalls
  <2> QED
    BY <1>1, <2>1 DEF Calls, GoesOn, Forward, Goto
(* Loops that stay as they are.                                            *)
<1>3. ASSUME UNCHANGED <<todo, execed>>,
             pc'[c] \in {"execget", "rolling"} => todo[c] # <<>>,
             pc'[c] \in {"exec", "execget"} => pc[c] \in {"exec", "execget"},
             pc'[c] \in {"getowner", "gotowner", "ttl"} => owner \in Zones
      PROVE  LoopStep(c)
  <2>1. /\ todo' = [todo EXCEPT ![c] = todo'[c]]
        /\ execed' = [execed EXCEPT ![c] = execed'[c]]
    BY <1>1, <1>3
  <2> QED
    BY <1>1, <1>2, <1>3, <2>1 DEF LoopStep, Loop
<1>4. CASE \/ ExecGet(c) \/ Rollback(c) \/ GetHere(c) \/ GetOwner(c)
           \/ AskTtl(c) \/ Fill(c)
  <2>1. UNCHANGED <<todo, execed>>
    BY <1>4 DEF ExecGet, Rollback, GetHere, GetOwner, AskTtl, Fill, clientVars
  <2>2. \/ /\ pc[c] = "exec" /\ todo[c] # <<>>
           /\ pc'[c] \in {"execget", "failed"}
        \/ /\ pc[c] = "rollback" /\ todo[c] # <<>>
           /\ pc'[c] \in {"rolling", "reply"}
        \/ pc[c] = "getowner" /\ pc'[c] \in {"gotowner", "idle"}
        \/ pc'[c] \in {"gothere", "gotttl", "filled", "filling", "idle"}
    BY <1>1, <1>4 DEF ExecGet, Rollback, GetHere, GetOwner, AskTtl, Fill,
                      Forward, Goto, Finish
  <2> QED
    BY <1>1, <1>3, <2>1, <2>2 DEF Loop
<1>5. CASE GotHere(c) \/ GotOwner(c)
  <2>1. UNCHANGED <<todo, execed>>
    BY <1>5 DEF GotHere, GotOwner
  <2>2. \/ pc'[c] = "idle"
        \/ pc[c] = "gotowner" /\ pc'[c] = "ttl"
        \/ owner \notin {"none", "unknown"} /\ pc'[c] = "getowner"
    BY <1>1, <1>5 DEF GotHere, GotOwner, Goto, Finish
  <2>3. owner \in Zones \cup {"none", "unknown"}
    BY <1>1, ZoneAssumption DEF Typed, EnvTyped, ZoneAssumption
  <2> QED
    BY <1>1, <1>3, <2>1, <2>2, <2>3 DEF Loop
<1>6. CASE RollbackEnds(c) \/ OwnReply(c) \/ Filled(c)
  <2>1. UNCHANGED <<todo, execed>> /\ pc'[c] \in {"idle", "reply"}
    BY <1>1, <1>6 DEF RollbackEnds, OwnReply, Filled, Goto, Finish
  <2> QED
    BY <1>3, <2>1
(* Loops that start over or go on.                                         *)
<1>7. ASSUME execed' = execed,
             \/ todo' = [todo EXCEPT ![c] = execed[c]]
             \/ todo[c] # <<>> /\ todo' = [todo EXCEPT ![c] = Tail(@)]
             \/ todo' = todo,
             pc'[c] \notin {"exec", "execget", "rolling", "getowner", "gotowner",
                           "ttl"}
      PROVE  LoopStep(c)
  <2>1. execed' = [execed EXCEPT ![c] = execed'[c]]
    BY <1>1, <1>7
  <2>2. todo[c] # <<>> => Unrepeated(Tail(todo[c]))
    BY <1>1, RestOf DEF Loop
  <2>3. Unrepeated(todo'[c]) /\ todo' = [todo EXCEPT ![c] = todo'[c]]
    BY <1>1, <1>7, <2>2 DEF Loop
  <2> QED
    BY <1>1, <1>2, <1>7, <2>1, <2>3 DEF LoopStep, Loop
<1>8. CASE Copy(c) \/ Commit(c) \/ Check(c) \/ StartRollback(c) \/ RolledBack(c)
  <2>1. /\ execed' = execed
        /\ pc'[c] \in {"idle", "copy", "check", "failed", "rollback"}
    BY <1>1, <1>8 DEF Copy, Commit, Check, StartRollback, RolledBack, Goto,
                      Finish, Forward
  <2>2. pc[c] = "rolling" => todo[c] # <<>>
    BY <1>1 DEF Loop
  <2>3. \/ todo' = [todo EXCEPT ![c] = execed[c]]
        \/ todo[c] # <<>> /\ todo' = [todo EXCEPT ![c] = Tail(@)]
        \/ todo' = todo
    BY <1>8, <2>2 DEF Copy, Commit, Check, StartRollback, RolledBack
  <2> QED
    BY <1>7, <2>1, <2>3
<1>9. CASE ExecSet(c)
  <2> DEFINE z == Head(todo[c])
  <2>1. /\ pc[c] = "execget" /\ todo[c] # <<>> /\ Unrepeated(todo[c])
        /\ Unrepeated(execed[c]) /\ Apart(execed[c], todo[c])
    BY <1>1, <1>9 DEF ExecSet, Loop
  <2>2. CASE ans[c]["sub"] = "nil"
    <3>1. UNCHANGED <<todo, execed>> /\ pc'[c] = "failed"
      BY <1>1, <1>9, <2>2 DEF ExecSet, Goto
    <3> QED
      BY <1>3, <3>1
  <2>3. CASE ans[c]["sub"] # "nil"
    <3>1. /\ todo' = [todo EXCEPT ![c] = Tail(@)]
          /\ pc'[c] \in {"exec", "failed"}
          /\ pc'[c] # "exec" => execed' = execed
          /\ pc'[c] = "exec" => execed' = [execed EXCEPT ![c] = Append(@, z)]
      BY <1>1, <1>9, <2>3 DEF ExecSet, Goto, Forward
    <3>2. CASE pc'[c] = "failed"
      BY <1>7, <2>1, <3>1, <3>2
    <3>3. CASE pc'[c] = "exec"
      <4>1. /\ Unrepeated(Tail(todo[c])) /\ z \in Zones
            /\ \A j \in DOMAIN Tail(todo[c]) : Tail(todo[c])[j] # z
            /\ \A j \in DOMAIN Tail(todo[c]) :
                  \E k \in DOMAIN todo[c] : Tail(todo[c])[j] = todo[c][k]
            /\ \E k \in DOMAIN todo[c] : z = todo[c][k]
        BY <2>1, RestOf
      <4>2. \A i \in DOMAIN execed[c] : execed[c][i] # z
        BY <2>1, <4>1 DEF Apart
      <4>3. /\ todo'[c] = Tail(todo[c]) /\ execed'[c] = Append(execed[c], z)
            /\ todo' = [todo EXCEPT ![c] = todo'[c]]
            /\ execed' = [execed EXCEPT ![c] = execed'[c]]
        BY <1>1, <3>1, <3>3
      <4> HIDE DEF z
      <4>4. /\ Unrepeated(Append(execed[c], z))
            /\ \A i \in DOMAIN Append(execed[c], z) :
                  \/ Append(execed[c], z)[i] = z
                  \/ \E k \in DOMAIN execed[c] :
                        Append(execed[c], z)[i] = execed[c][k]
        BY <2>1, <4>1, <4>2, MoreOf
      <4>5. Apart(Append(execed[c], z), Tail(todo[c]))
        BY <2>1, <4>1, <4>4 DEF Apart
      <4> QED
        BY <1>2, <3>3, <4>1, <4>3, <4>4, <4>5 DEF LoopStep
    <3> QED
      BY <3>1, <3>2, <3>3
  <2> QED
    BY <2>2, <2>3
<1> QED
  BY <1>4, <1>5, <1>6, <1>8, <1>9 DEF Dispatch

LEMMA StepOrder ==
    ASSUME Inv, [Next]_vars
    PROVE  OrderTyped'
<1>1. /\ OrderTyped /\ pc \in [Clients -> Pcs] /\ pc' \in [Clients -> Pcs]
      /\ todo \in [Clients -> Seq(Zones)] /\ execed \in [Clients -> Seq(Zones)]
      /\ \A c \in Clients : Loop(c)
      /\ owner' = owner /\ Typed
  BY LoopsOrdered, StepAns, StepAllowed DEF Inv, Typed
<1>2. ASSUME NEW c \in Clients, LoopStep(c)
      PROVE  OrderTyped'
  <2>1. /\ \A d \in Clients \ {c} :
              UNCHANGED <<todo[d], pc[d], execed[d]>>
        /\ todo' \in [Clients -> Seq(Zones)]
        /\ execed' \in [Clients -> Seq(Zones)]
    BY <1>1, <1>2 DEF LoopStep, Unrepeated
  <2>2. ASSUME NEW d \in Clients
        PROVE  Loop(d)'
    <3>1. CASE d = c
      BY <1>1, <1>2, <3>1 DEF LoopStep, Loop, Unrepeated, Apart
    <3>2. CASE d # c
      BY <1>1, <2>1, <3>2 DEF Loop, Unrepeated, Apart
    <3> QED
      BY <3>1, <3>2
  <2> QED
    BY <1>1, <2>1, <2>2 DEF OrderTyped, Loop, Unrepeated, Apart
<1>3. CASE UNCHANGED <<pc, todo, execed>>
  BY <1>1, <1>3 DEF OrderTyped
<1>4. CASE \E z \in Zones : Redis(z)
  <2>1. UNCHANGED <<pc, todo, execed>>
    BY <1>4 DEF Redis, Serve, Fail, ServeLate, Expire, clientVars
  <2> QED
    BY <1>3, <2>1
<1>5. CASE UNCHANGED vars
  <2>1. UNCHANGED <<pc, todo, execed>>
    BY <1>5 DEF vars, clientVars
  <2> QED
    BY <1>3, <2>1
<1> QED
  BY <1>2, <1>4, <1>5, ArriveLoops, DispatchLoops DEF Next

-----------------------------------------------------------------------------
(* The theorems.                                                           *)

LEMMA InitInv == Init => Inv
<1> SUFFICES ASSUME Init
             PROVE  Inv
  OBVIOUS
<1>1. EnvTyped
  <2>1. owner \in Owners /\ faults = {} /\ issued = 0 /\ MaxCommands \in Nat
    BY ZoneAssumption DEF Init, ZoneAssumption
  <2> QED
    BY <2>1 DEF EnvTyped
<1>2. NoKey \in Kept /\ "" \in Allowed
  BY DEF NoKey, Kept, Allowed
<1>3. StoreTyped
  <2>1. PICK s \in Sets[owner] \cup {NoKey} : store = [z \in Zones |-> s]
    BY DEF Init
  <2>2. s \in Kept
    <3>1. CASE s \in Sets[owner]
      <4>1. Sets[owner] \subseteq [v : STRING \ Markers, ttl : BOOLEAN]
        BY <1>1, ZoneAssumption DEF EnvTyped, ZoneAssumption
      <4>2. s.v \in Values
        BY <3>1 DEF Values
      <4> QED
        BY <3>1, <4>1, <4>2 DEF Kept, Allowed
    <3> QED
      BY <1>2, <2>1, <3>1
  <2>3. /\ late = [z \in Zones |-> {}]
        /\ before = [c \in Clients |-> store]
    BY DEF Init
  <2> QED
    BY <2>1, <2>2, <2>3 DEF StoreTyped
<1>4. QueueTyped /\ \A c \in Clients, p, z \in Zones, i \in Nat :
                        ~ Heard(c, p, z, i)
  <2>1. queue = [p \in Zones |-> [z \in Zones |-> <<>>]]
    BY DEF Init
  <2>2. \A p, z \in Zones : queue[p][z] = <<>> /\ Len(queue[p][z]) = 0
    BY <2>1
  <2> QED
    BY <2>1, <2>2 DEF QueueTyped, Heard
<1>5. DataTyped
  <2>1. /\ cmd = [c \in Clients |-> NoKey] /\ val = [c \in Clients |-> ""]
        /\ old = [c \in Clients |-> [z \in Zones |-> ""]]
    BY DEF Init
  <2> QED
    BY <1>2, <2>1 DEF DataTyped
<1>6. AnsTyped
  BY DEF Init, AnsTyped, Replied, Fetched
<1>7. OrderTyped
  <2>1. /\ pc = [c \in Clients |-> "idle"] /\ todo = [c \in Clients |-> <<>>]
        /\ execed = [c \in Clients |-> <<>>]
    BY DEF Init
  <2>2. <<>> \in Seq(Zones) /\ IsInjective(<<>>)
    BY DEF IsInjective
  <2> QED
    BY <2>1, <2>2 DEF OrderTyped, Pcs
<1>8. GetTyped
  BY DEF Init, GetTyped, GetPcs
<1> QED
  BY <1>1, <1>3, <1>4, <1>5, <1>6, <1>7, <1>8 DEF Inv, Typed, OneCall

LEMMA NextInv == Inv /\ [Next]_vars => Inv'
<1> SUFFICES ASSUME Inv, [Next]_vars
             PROVE  Inv'
  OBVIOUS
<1>1. Typed
  BY DEF Inv
<1>2. EnvTyped' /\ StoreTyped'
  BY <1>1, StepEnv, StepStore
<1>3. QueueTyped' /\ DataTyped' /\ AnsTyped' /\ OrderTyped'
  BY StepQueue, StepData, StepAns, StepOrder
<1>4. OneCall' /\ GetTyped'
  BY StepOneCall, StepGetTyped
<1> QED
  BY <1>2, <1>3, <1>4 DEF Inv, Typed

(* The replies that dispatch waits for are those of its own requests, one  *)
(* at a time (router.go 188-246, transaction.go 83-128).                   *)
THEOREM InvHolds == Spec => []Inv
BY InitInv, NextInv, PTL DEF Spec

LEMMA InvTypeOK == Inv => TypeOK
<1> SUFFICES ASSUME Inv
             PROVE  TypeOK
  OBVIOUS
<1>1. Allowed \subseteq Texts
  BY DEF Allowed, Texts
<1>2. Kept \subseteq Stored /\ Sent \subseteq Requests /\ Replied \subseteq Resps
  BY <1>1 DEF Kept, Stored, Sent, Requests, Replied, Fetched, Resps
<1>3. \A p, z \in Zones : queue[p][z] \in Seq(Requests)
  BY <1>2, SeqMonotonic DEF Inv, Typed, QueueTyped
<1>4. /\ store \in [Zones -> Stored]
      /\ \A z \in Zones : late[z] \subseteq Requests
      /\ before \in [Clients -> [Zones -> Stored]]
  BY <1>2 DEF Inv, Typed, StoreTyped
<1>5. /\ cmd \in [Clients -> Stored] /\ val \in [Clients -> Texts]
      /\ old \in [Clients -> [Zones -> Texts]]
  BY <1>1, <1>2 DEF Inv, Typed, DataTyped
<1>6. ans \in [Clients -> [Slots -> Resps]]
  BY <1>2 DEF Inv, Typed, AnsTyped
<1>7. \A c \in Clients :
         /\ todo[c] \in Seq(Zones) /\ execed[c] \in Seq(Zones)
         /\ IsInjective(todo[c]) /\ IsInjective(execed[c])
  BY DEF Inv, Typed, OrderTyped
<1>8. faults \subseteq FaultKinds /\ issued \in 0..MaxCommands
  BY DEF Inv, Typed, EnvTyped
<1> QED
  BY <1>3, <1>4, <1>5, <1>6, <1>7, <1>8 DEF TypeOK

(* Every variable has its type, and the loops of a SET over the zones      *)
(* (transaction.go 47-67 and 98-128) meet a zone once at most.             *)
THEOREM TypeCorrect == Spec => []TypeOK
BY InvHolds, InvTypeOK, PTL

LEMMA InvValues == Inv => ValuesWereSet
<1> SUFFICES ASSUME Inv, "errorreply" \notin faults
             PROVE  OnlyValuesStored
  BY DEF ValuesWereSet
<1>1. Allowed = Values \cup {""}
  BY DEF Allowed
<1>2. store \in [Zones -> Kept]
  BY DEF Inv, Typed, StoreTyped
<1> QED
  BY <1>1, <1>2 DEF Kept, OnlyValuesStored

(* Until a request is answered with an error, every zone stores what a     *)
(* client SET, also when a GET has fetched a copy (router.go 188-224) or a *)
(* transaction has put back what it read (transaction.go 98-122), for any  *)
(* zones and clients, whatever is dropped, lost or late.                   *)
THEOREM OnlySetValuesStored == Spec => []ValuesWereSet
BY InvHolds, InvValues, PTL

-----------------------------------------------------------------------------
(* What a transaction promises when it is not disturbed: one client SETs   *)
(* the key, which never expires, and no write is late.                     *)

(* Left out is what a transaction does not survive: a second writer (the   *)
(* run zone_concurrent shows it), an expiry that a rollback does not put   *)
(* back, and a write that Redis carries out after the rollback.            *)
Undisturbed ==
    /\ \E c \in Clients : Writers \subseteq {c}
    /\ "none" \in Owners =>
          /\ \A s \in Sets["none"] : s.ttl = FALSE
          /\ \A F \in Faults["none"] : "late" \notin F

Writer == CHOOSE c \in Clients : Writers \subseteq {c}

OneFault == \A f, g \in faults : f = g
Failure == faults # {}

ReadPcs == {"idle", "get", "gothere"}
SetPcs == {"exec", "execget", "check", "failed", "rollback", "rolling", "reply"}

-----------------------------------------------------------------------------
(* What is on the connection of the writer's router to a zone.             *)

Line(z) == queue[Home[Writer]][z]

IsGet(r) == r.op = "get" /\ r.slot \in {"sub", "copy"}

(* No write; one write; a write and then another.                          *)
Calm(q) == \A i \in DOMAIN q : IsGet(q[i])
OneWrite(q, r) ==
    \E i \in DOMAIN q :
        q[i] = r /\ \A j \in DOMAIN q : j # i => IsGet(q[j])
TwoWrites(q, r, s) ==
    \E i, k \in DOMAIN q :
        /\ i < k /\ q[i] = r /\ q[k] = s
        /\ \A j \in DOMAIN q : j \notin {i, k} => IsGet(q[j])

-----------------------------------------------------------------------------
(* A zone in the writer's transaction.                                     *)

Was(z) == before[Writer][z]
SetOf(z) == Request(Writer, z, "set", cmd[Writer].v, cmd[Writer].ttl)
Reply(z) == ans[Writer][z]

Untouched(z) ==
    /\ store[z] = Was(z) /\ Calm(Line(z)) /\ Reply(z) # "waiting"

(* The SET is under way, or answered; a failure leaves it done or not.     *)
Pending(z) ==
    store[z] = Was(z) /\ OneWrite(Line(z), SetOf(z)) /\ Reply(z) = "waiting"
Done(z) == store[z] = cmd[Writer] /\ Calm(Line(z)) /\ Reply(z) = "OK"
Broken(z) ==
    /\ Failure /\ store[z] \in {Was(z), cmd[Writer]} /\ Calm(Line(z))
    /\ Reply(z) \in {"nil", "ERR"}
SentOut(z) == Pending(z) \/ Done(z) \/ Broken(z)

(* The write that restores it is the last one.                             *)
Undoing(z) ==
    \/ TwoWrites(Line(z), SetOf(z), Undo(Writer, z))
    \/ OneWrite(Line(z), Undo(Writer, z)) /\ Reply(z) # "waiting"

(* The zones that were sent the SET, and those a loop has still to visit.  *)
Tried == ToSet(execed[Writer])
Left == ToSet(todo[Writer])
This == Head(todo[Writer])
SubReply == ans[Writer]["sub"]

(* A read returned what was not there.  That was the failure: no SET fails.*)
Misread == \E z \in Tried : old[Writer][z] # Was(z).v
NoneBroken == \A z \in Tried : Reply(z) \in {"waiting", "OK"}

Executing ==
    /\ \A z \in Zones : (z \in Left /\ Untouched(z)) \/ (z \in Tried /\ SentOut(z))
    /\ Misread => Failure /\ NoneBroken

Reading ==
    /\ \A p, z \in Zones, i \in Nat :
          Heard(Writer, p, z, i) => p = Home[Writer] /\ z = This
    /\ SubReply \notin {"waiting", Was(This).v} =>
          Failure /\ ~ Misread /\ NoneBroken

Checking ==
    /\ \A z \in Zones : z \in Tried /\ SentOut(z)
    /\ \A z \in Zones \ Left : Reply(z) = "OK"
    /\ Misread => Failure /\ NoneBroken

Failing ==
    /\ Failure /\ ~ Misread
    /\ \A z \in Zones : IF z \in Tried THEN SentOut(z) ELSE Untouched(z)

RollingBack ==
    /\ Failure /\ ~ Misread /\ Left \subseteq Tried
    /\ \A z \in Zones \ Left : Untouched(z)

Resting ==
    /\ \A y, z \in Zones : store[y] = store[z]
    /\ \A z \in Zones : Calm(Line(z))
    /\ pc[Writer] # "idle" => result[Writer] = "none"
    /\ pc[Writer] = "idle" /\ result[Writer] = "ok" =>
          \A z \in Zones : store[z] = cmd[Writer]
    /\ pc[Writer] = "idle" /\ result[Writer] = "rolledback" =>
          \A z \in Zones : store[z] = Was(z)

(* Where the writer's dispatch is tells what the zones hold.               *)
Phase ==
    /\ pc[Writer] \in ReadPcs \cup SetPcs
    /\ pc[Writer] \in ReadPcs => Resting
    /\ pc[Writer] \in {"exec", "execget"} => Executing
    /\ pc[Writer] = "execget" => Reading
    /\ pc[Writer] = "check" => Checking
    /\ pc[Writer] = "failed" => Failing
    /\ pc[Writer] \in {"rollback", "rolling"} => RollingBack
    /\ pc[Writer] = "rollback" => \A z \in Left : SentOut(z)
    /\ pc[Writer] = "rolling" =>
          /\ \A z \in Left \ {This} : SentOut(z)
          /\ IF SubReply = "waiting" THEN Undoing(This) ELSE Untouched(This)
    /\ pc[Writer] # "reply"

(* All before a transaction began is the same, and nothing expires.        *)
Lasting ==
    /\ \A y, z \in Zones : Was(y) = Was(z)
    /\ cmd[Writer].ttl = FALSE
    /\ \A z \in Zones : /\ store[z].ttl = FALSE /\ Was(z).ttl = FALSE
                        /\ late[z] = {}

(* The other clients only read.                                            *)
OthersRead ==
    /\ \A c \in Clients \ {Writer} :
          pc[c] \in ReadPcs /\ result[c] \notin {"ok", "rolledback"}
    /\ \A p, z \in Zones : p # Home[Writer] => Calm(queue[p][z])

Agreement == Lasting /\ OthersRead /\ Phase

(* Only a key without a zone is SET in a transaction.                      *)
TrxOnlyShared ==
    owner # "none" =>
        \A c \in Clients : pc[c] \notin SetPcs /\ result[c] # "rolledback"

(* Every client has a result.                                              *)
Results == \E S : result \in [Clients -> S]

TrxInv == Results /\ TrxOnlyShared /\ (owner = "none" /\ OneFault => Agreement)

-----------------------------------------------------------------------------
(* What a step does to the writes on a connection.                         *)

(* A connection holds the writes it held; GETs may have come and gone.     *)
OwnWrite(r) == r.c = Writer /\ ~ IsGet(r)
SameWrites(q, t) ==
    /\ Calm(q) => Calm(t)
    /\ \A r : OwnWrite(r) /\ OneWrite(q, r) => OneWrite(t, r)
    /\ \A r, s : OwnWrite(r) /\ OwnWrite(s) /\ TwoWrites(q, r, s) =>
          TwoWrites(t, r, s)

LEMMA SameLine == \A q : SameWrites(q, q)
BY DEF SameWrites

LEMMA Pushing ==
    ASSUME NEW q \in Seq(Sent), NEW r
    PROVE  /\ DOMAIN q = 1..Len(q) /\ Len(q) \in Nat
           /\ DOMAIN Append(q, r) = 1..(Len(q) + 1)
           /\ \A i \in 1..Len(q) : Append(q, r)[i] = q[i]
           /\ Append(q, r)[Len(q) + 1] = r
<1>1. q \in Seq(Sent \cup {r}) /\ r \in Sent \cup {r}
  BY SeqMonotonic
<1>2. /\ Append(q, r) \in Seq(Sent \cup {r})
      /\ Len(Append(q, r)) = Len(q) + 1
      /\ \A i \in 1..Len(q) : Append(q, r)[i] = q[i]
      /\ Append(q, r)[Len(q) + 1] = r
  BY <1>1, AppendProperties
<1>3. DOMAIN Append(q, r) = 1..Len(Append(q, r))
  BY <1>2, LenProperties
<1> QED
  BY <1>2, <1>3, LenProperties

LEMMA Popping ==
    ASSUME NEW q \in Seq(Sent), q # <<>>
    PROVE  /\ DOMAIN q = 1..Len(q) /\ Len(q) \in Nat \ {0}
           /\ DOMAIN Tail(q) = 1..(Len(q) - 1)
           /\ \A i \in 1..(Len(q) - 1) : Tail(q)[i] = q[i + 1]
           /\ Head(q) = q[1] /\ Head(q) \in Sent
<1>1. /\ Len(q) \in Nat \ {0} /\ DOMAIN q = 1..Len(q)
  BY EmptySeq, LenProperties
<1>2. /\ Head(q) \in Sent /\ Tail(q) \in Seq(Sent)
      /\ Len(Tail(q)) = Len(q) - 1
      /\ \A i \in 1..Len(Tail(q)) : Tail(q)[i] = q[i + 1]
  BY HeadTailProperties
<1>3. DOMAIN Tail(q) = 1..Len(Tail(q)) /\ Head(q) = q[1]
  BY <1>2, LenProperties
<1> QED
  BY <1>1, <1>2, <1>3

(* A GET is sent.                                                          *)
LEMMA PushGet ==
    ASSUME NEW q \in Seq(Sent), NEW r, IsGet(r)
    PROVE  SameWrites(q, Append(q, r))
<1> DEFINE t == Append(q, r)
<1>1. /\ DOMAIN q = 1..Len(q) /\ Len(q) \in Nat /\ DOMAIN t = 1..(Len(q) + 1)
      /\ \A i \in 1..Len(q) : t[i] = q[i]
      /\ t[Len(q) + 1] = r
  BY Pushing
<1> HIDE DEF t
<1>2. \A i \in DOMAIN t : (i \in DOMAIN q /\ t[i] = q[i]) \/ IsGet(t[i])
  BY <1>1
<1>3. \A i \in DOMAIN q : i \in DOMAIN t /\ t[i] = q[i]
  BY <1>1
<1>4. Calm(q) => Calm(t)
  BY <1>2 DEF Calm
<1>5. \A x : OneWrite(q, x) => OneWrite(t, x)
  BY <1>2, <1>3 DEF OneWrite
<1>6. \A x, y : TwoWrites(q, x, y) => TwoWrites(t, x, y)
  BY <1>2, <1>3 DEF TwoWrites
<1> QED
  BY <1>4, <1>5, <1>6 DEF SameWrites, t

(* A GET is answered.                                                      *)
LEMMA PopGet ==
    ASSUME NEW q \in Seq(Sent), q # <<>>, IsGet(Head(q))
    PROVE  SameWrites(q, Tail(q))
<1> DEFINE t == Tail(q)
<1>1. /\ DOMAIN q = 1..Len(q) /\ Len(q) \in Nat \ {0}
      /\ DOMAIN t = 1..(Len(q) - 1)
      /\ \A i \in 1..(Len(q) - 1) : t[i] = q[i + 1]
      /\ Head(q) = q[1]
  BY Popping
<1> HIDE DEF t
<1>2. \A i \in DOMAIN t : i \in Int /\ i + 1 \in DOMAIN q /\ t[i] = q[i + 1]
  BY <1>1
<1>3. \A i \in DOMAIN q : i \in Int /\ (i = 1 \/ i - 1 \in DOMAIN t)
  BY <1>1
<1>4. \A i \in DOMAIN q : ~ IsGet(q[i]) => i - 1 \in DOMAIN t /\ t[i - 1] = q[i]
  BY <1>1, <1>2, <1>3
<1>5. Calm(q) => Calm(t)
  BY <1>2 DEF Calm
<1>6. ASSUME NEW x, ~ IsGet(x), OneWrite(q, x)
      PROVE  OneWrite(t, x)
  <2>1. PICK i \in DOMAIN q :
            q[i] = x /\ \A j \in DOMAIN q : j # i => IsGet(q[j])
    BY <1>6 DEF OneWrite
  <2>2. i - 1 \in DOMAIN t /\ t[i - 1] = x
    BY <1>4, <1>6, <2>1
  <2>3. \A j \in DOMAIN t : j # i - 1 => IsGet(t[j])
    BY <1>2, <1>3, <2>1
  <2> QED
    BY <2>2, <2>3 DEF OneWrite
<1>7. ASSUME NEW x, NEW y, ~ IsGet(x), ~ IsGet(y), TwoWrites(q, x, y)
      PROVE  TwoWrites(t, x, y)
  <2>1. PICK i \in DOMAIN q, k \in DOMAIN q :
            /\ i < k /\ q[i] = x /\ q[k] = y
            /\ \A j \in DOMAIN q : j \notin {i, k} => IsGet(q[j])
    BY <1>7 DEF TwoWrites
  <2>2. /\ i - 1 \in DOMAIN t /\ t[i - 1] = x
        /\ k - 1 \in DOMAIN t /\ t[k - 1] = y /\ i - 1 < k - 1
    BY <1>3, <1>4, <1>7, <2>1
  <2>3. ASSUME NEW j \in DOMAIN t, j # i - 1, j # k - 1
        PROVE  IsGet(t[j])
    <3>1. /\ j \in Int /\ i \in Int /\ k \in Int
          /\ j + 1 \in DOMAIN q /\ t[j] = q[j + 1]
      BY <1>2, <1>3
    <3>2. j + 1 # i /\ j + 1 # k
      BY <2>3, <3>1
    <3> QED
      BY <2>1, <3>1, <3>2
  <2> QED
    BY <2>2, <2>3 DEF TwoWrites
<1> QED
  BY <1>5, <1>6, <1>7 DEF SameWrites, OwnWrite, t

(* A client forgets the requests of its last command.                      *)
LEMMA UnheardIs ==
    ASSUME NEW c, NEW r \in Sent
    PROVE  /\ IsGet(r) => IsGet(Unheard(c, r))
           /\ r.c # c => Unheard(c, r) = r
BY DEF Unheard, IsGet, Sent

LEMMA Forgetting ==
    ASSUME NEW c, NEW q \in Seq(Sent), NEW t,
           t = [i \in DOMAIN q |-> Unheard(c, q[i])]
    PROVE  /\ Calm(q) => Calm(t)
           /\ c # Writer => SameWrites(q, t)
<1>1. /\ DOMAIN t = DOMAIN q
      /\ \A i \in DOMAIN q : q[i] \in Sent /\ t[i] = Unheard(c, q[i])
  BY ElementOfSeq
<1>2. /\ \A i \in DOMAIN t : /\ i \in DOMAIN q
                            /\ IsGet(q[i]) => IsGet(t[i])
      /\ \A i \in DOMAIN q : /\ i \in DOMAIN t
                            /\ q[i].c # c => t[i] = q[i]
  BY <1>1, UnheardIs
<1>3. Calm(q) => Calm(t)
  BY <1>2 DEF Calm
<1>4. ASSUME c # Writer
      PROVE  /\ \A r : OwnWrite(r) /\ OneWrite(q, r) => OneWrite(t, r)
             /\ \A r, s : OwnWrite(r) /\ OwnWrite(s) /\ TwoWrites(q, r, s) =>
                   TwoWrites(t, r, s)
  <2>1. \A r : OwnWrite(r) /\ OneWrite(q, r) => OneWrite(t, r)
    BY <1>2, <1>4 DEF OneWrite, OwnWrite
  <2>2. \A r, s : OwnWrite(r) /\ OwnWrite(s) /\ TwoWrites(q, r, s) =>
                TwoWrites(t, r, s)
    BY <1>2, <1>4 DEF TwoWrites, OwnWrite
  <2> QED
    BY <2>1, <2>2
<1> QED
  BY <1>3, <1>4 DEF SameWrites

(* A write is sent.                                                        *)
LEMMA PushWrite ==
    ASSUME NEW q \in Seq(Sent), NEW r
    PROVE  /\ Calm(q) => OneWrite(Append(q, r), r)
           /\ \A x : OneWrite(q, x) => TwoWrites(Append(q, r), x, r)
<1> DEFINE t == Append(q, r)
<1>1. /\ DOMAIN q = 1..Len(q) /\ Len(q) \in Nat /\ DOMAIN t = 1..(Len(q) + 1)
      /\ \A i \in 1..Len(q) : t[i] = q[i]
      /\ t[Len(q) + 1] = r
  BY Pushing
<1> DEFINE n == Len(q) + 1
<1> HIDE DEF t
<1>2. /\ n \in DOMAIN t /\ t[n] = r
      /\ \A i \in DOMAIN q : i < n /\ i \in DOMAIN t /\ t[i] = q[i]
      /\ \A i \in DOMAIN t : i # n => i \in DOMAIN q
  BY <1>1
<1> HIDE DEF n
<1>3. Calm(q) => OneWrite(t, r)
  BY <1>2 DEF Calm, OneWrite
<1>4. \A x : OneWrite(q, x) => TwoWrites(t, x, r)
  BY <1>2 DEF OneWrite, TwoWrites
<1> QED
  BY <1>3, <1>4 DEF t

(* A write is answered.                                                    *)
LEMMA PopWrite ==
    ASSUME NEW q \in Seq(Sent), q # <<>>, ~ IsGet(Head(q))
    PROVE  /\ ~ Calm(q)
           /\ \A x : OneWrite(q, x) => Head(q) = x /\ Calm(Tail(q))
           /\ \A x, y : ~ IsGet(x) /\ TwoWrites(q, x, y) =>
                 Head(q) = x /\ OneWrite(Tail(q), y)
<1> DEFINE t == Tail(q)
<1>1. /\ DOMAIN q = 1..Len(q) /\ Len(q) \in Nat \ {0}
      /\ DOMAIN t = 1..(Len(q) - 1)
      /\ \A i \in 1..(Len(q) - 1) : t[i] = q[i + 1]
      /\ Head(q) = q[1]
  BY Popping
<1> HIDE DEF t
 <1>2. \A i \in DOMAIN t : /\ i \in Int /\ i + 1 \in DOMAIN q /\ i + 1 # 1
                         /\ t[i] = q[i + 1]
  BY <1>1
<1>3. \A i \in DOMAIN q : /\ i \in Int /\ 1 <= i
                          /\ i = 1 \/ (i - 1 \in DOMAIN t /\ t[i - 1] = q[i])
  BY <1>1
<1>4. 1 \in DOMAIN q /\ ~ IsGet(q[1])
  BY <1>1
<1>5. ~ Calm(q)
  BY <1>4 DEF Calm
<1>6. ASSUME NEW x, OneWrite(q, x)
      PROVE  Head(q) = x /\ Calm(t)
  <2>1. q[1] = x /\ \A j \in DOMAIN q : j # 1 => IsGet(q[j])
    BY <1>4, <1>6 DEF OneWrite
  <2> QED
    BY <1>1, <1>2, <2>1 DEF Calm
<1>7. ASSUME NEW x, NEW y, ~ IsGet(x), TwoWrites(q, x, y)
      PROVE  Head(q) = x /\ OneWrite(t, y)
  <2>1. PICK i \in DOMAIN q, k \in DOMAIN q :
            /\ i < k /\ q[i] = x /\ q[k] = y
            /\ \A j \in DOMAIN q : j \notin {i, k} => IsGet(q[j])
    BY <1>7 DEF TwoWrites
  <2>2. i = 1 /\ k # 1 /\ k \in Int
    BY <1>3, <1>4, <2>1
  <2>3. k - 1 \in DOMAIN t /\ t[k - 1] = y
    BY <1>3, <2>1, <2>2
  <2>4. \A j \in DOMAIN t : j # k - 1 => IsGet(t[j])
    BY <1>2, <2>1, <2>2
  <2> QED
    BY <1>1, <2>1, <2>2, <2>3, <2>4 DEF OneWrite
<1> QED
  BY <1>5, <1>6, <1>7 DEF t

-----------------------------------------------------------------------------
(* Zones, connections and the writer in a step that leaves them be.        *)

LEMMA Known ==
    ASSUME Undisturbed, Inv
    PROVE  /\ Writer \in Clients /\ Writers \subseteq {Writer}
           /\ Home \in [Clients -> Zones] /\ Home[Writer] \in Zones
           /\ {"none", "sub", "copy"} \cap Zones = {}
           /\ Typed /\ EnvTyped /\ StoreTyped /\ QueueTyped /\ DataTyped
           /\ AnsTyped /\ OrderTyped /\ OneCall /\ GetTyped
<1>1. \E c \in Clients : Writers \subseteq {c}
  BY DEF Undisturbed
<1>2. Writer \in Clients /\ Writers \subseteq {Writer}
  BY <1>1 DEF Writer
<1> QED
  BY <1>2, ZoneAssumption DEF ZoneAssumption, Inv, Typed

LEMMA Loops ==
    ASSUME Undisturbed, Inv
    PROVE  /\ todo[Writer] \in Seq(Zones) /\ execed[Writer] \in Seq(Zones)
           /\ Left \subseteq Zones /\ Tried \subseteq Zones
           /\ Left = {} <=> todo[Writer] = <<>>
           /\ todo[Writer] # <<>> => This \in Left /\ This \in Zones
           /\ pc[Writer] \in {"exec", "execget"} => Left \cap Tried = {}
           /\ pc[Writer] \in {"execget", "rolling"} => todo[Writer] # <<>>
<1> DEFINE s == todo[Writer]
           t == execed[Writer]
<1>1. /\ s \in Seq(Zones) /\ t \in Seq(Zones)
      /\ pc[Writer] \in {"exec", "execget"} =>
            \A i \in DOMAIN t, j \in DOMAIN s : t[i] # s[j]
      /\ pc[Writer] \in {"execget", "rolling"} => s # <<>>
  BY Known DEF OrderTyped
<1>2. Left = {s[i] : i \in DOMAIN s} /\ Tried = {t[i] : i \in DOMAIN t}
  BY DEF Left, Tried, ToSet
<1>3. This = Head(s)
  BY DEF This
<1> HIDE DEF s, t
<1>4. Left \subseteq Zones /\ Tried \subseteq Zones
  BY <1>1, <1>2, ElementOfSeq
<1>5. s # <<>> => Head(s) = s[1] /\ 1 \in DOMAIN s /\ Head(s) \in Zones
  BY <1>1, EmptySeq, LenProperties, HeadTailProperties
<1>6. s = <<>> => DOMAIN s = {}
  OBVIOUS
<1>7. Left = {} <=> s = <<>>
  BY <1>2, <1>5, <1>6
<1> QED
  BY <1>1, <1>2, <1>3, <1>4, <1>5, <1>7 DEF s, t

LEMMA FaultBreaks ==
    ASSUME OneFault', NEW f, Fault(f)
    PROVE  ~ Failure /\ Failure'
BY DEF OneFault, Failure, Fault

(* A zone with all that the predicates on it speak of.                     *)
ZoneKept(z) ==
    /\ store'[z] = store[z] /\ ans'[Writer][z] = ans[Writer][z]
    /\ before'[Writer][z] = before[Writer][z] /\ cmd'[Writer] = cmd[Writer]
    /\ old'[Writer][z] = old[Writer][z]
    /\ faults \subseteq faults'
    /\ SameWrites(queue[Home[Writer]][z], queue'[Home[Writer]][z])

LEMMA WritesAreOwn ==
    ASSUME NEW z \in Zones
    PROVE  OwnWrite(SetOf(z)) /\ OwnWrite(Undo(Writer, z))
BY DEF OwnWrite, IsGet, SetOf, Undo, Request

LEMMA ZoneKeeps ==
    ASSUME NEW z \in Zones, ZoneKept(z)
    PROVE  /\ Failure => Failure'
           /\ Untouched(z) => Untouched(z)'
           /\ Pending(z) => Pending(z)'
           /\ Done(z) => Done(z)'
           /\ Broken(z) => Broken(z)'
           /\ SentOut(z) => SentOut(z)'
           /\ Undoing(z) => Undoing(z)'
<1>1. /\ SetOf(z)' = SetOf(z) /\ Undo(Writer, z)' = Undo(Writer, z)
      /\ Was(z)' = Was(z) /\ Reply(z)' = Reply(z)
      /\ cmd'[Writer] = cmd[Writer] /\ store'[z] = store[z]
  BY DEF ZoneKept, SetOf, Undo, Was, Reply
<1>2. Failure => Failure'
  BY DEF ZoneKept, Failure
<1>3. /\ Calm(Line(z)) => Calm(Line(z)')
      /\ OneWrite(Line(z), SetOf(z)) => OneWrite(Line(z)', SetOf(z)')
      /\ OneWrite(Line(z), Undo(Writer, z)) =>
            OneWrite(Line(z)', Undo(Writer, z)')
      /\ TwoWrites(Line(z), SetOf(z), Undo(Writer, z)) =>
            TwoWrites(Line(z)', SetOf(z)', Undo(Writer, z)')
  <2>1. SameWrites(Line(z), Line(z)')
    BY DEF ZoneKept, Line
  <2> QED
    BY <1>1, <2>1, WritesAreOwn DEF SameWrites
<1>4. Untouched(z) => Untouched(z)'
  BY <1>1, <1>3 DEF Untouched
<1>5. Pending(z) => Pending(z)'
  BY <1>1, <1>3 DEF Pending
<1>6. Done(z) => Done(z)'
  BY <1>1, <1>3 DEF Done
<1>7. Broken(z) => Broken(z)'
  BY <1>1, <1>2, <1>3 DEF Broken
<1>8. Undoing(z) => Undoing(z)'
  BY <1>1, <1>3 DEF Undoing
<1> QED
  BY <1>2, <1>4, <1>5, <1>6, <1>7, <1>8 DEF SentOut

(* The writer itself.                                                      *)
WriterKept ==
    /\ pc'[Writer] = pc[Writer] /\ todo'[Writer] = todo[Writer]
    /\ execed'[Writer] = execed[Writer] /\ result'[Writer] = result[Writer]

LEMMA LoopsKept ==
    ASSUME execed'[Writer] = execed[Writer], todo'[Writer] = todo[Writer]
    PROVE  Tried' = Tried /\ Left' = Left /\ This' = This
BY DEF Tried, Left, This

LEMMA ReadsKept ==
    ASSUME Undisturbed, Inv, Tried' = Tried,
           \A z \in Zones : ZoneKept(z)
    PROVE  (Misread' <=> Misread) /\ (NoneBroken' <=> NoneBroken)
<1>1. Tried \subseteq Zones
  BY Loops
<1>2. \A z \in Tried : /\ old'[Writer][z] = old[Writer][z] /\ Was(z)' = Was(z)
                       /\ Reply(z)' = Reply(z)
  BY <1>1 DEF ZoneKept, Was, Reply
<1> QED
  BY <1>2 DEF Misread, NoneBroken

LinesKept == \A p, z \in Zones : SameWrites(queue[p][z], queue'[p][z])

LEMMA PushLines ==
    ASSUME QueueTyped, NEW h \in Zones, NEW y \in Zones, NEW r,
           Pushed(h, y, r)
    PROVE  /\ queue'[h][y] = Append(queue[h][y], r)
           /\ \A p, z \in Zones : p # h \/ z # y => queue'[p][z] = queue[p][z]
           /\ IsGet(r) => LinesKept
<1>1. /\ queue'[h][y] = Append(queue[h][y], r)
      /\ \A p, z \in Zones : p # h \/ z # y => queue'[p][z] = queue[p][z]
  BY DEF QueueTyped, Pushed
<1>2. ASSUME IsGet(r), NEW p \in Zones, NEW z \in Zones
      PROVE  SameWrites(queue[p][z], queue'[p][z])
  <2>1. CASE p = h /\ z = y
    <3>1. queue[p][z] \in Seq(Sent)
      BY DEF QueueTyped
    <3> QED
      BY <1>1, <1>2, <2>1, <3>1, PushGet
  <2>2. CASE p # h \/ z # y
    BY <1>1, <2>2, SameLine
  <2> QED
    BY <2>1, <2>2
<1> QED
  BY <1>1, <1>2 DEF LinesKept

LEMMA PopLines ==
    ASSUME QueueTyped, NEW h \in Zones, NEW y \in Zones, Popped(h, y)
    PROVE  /\ queue'[h][y] = Tail(queue[h][y])
           /\ \A p, z \in Zones : p # h \/ z # y => queue'[p][z] = queue[p][z]
           /\ IsGet(Head(queue[h][y])) => LinesKept
<1>1. /\ queue'[h][y] = Tail(queue[h][y]) /\ queue[h][y] # <<>>
      /\ \A p, z \in Zones : p # h \/ z # y => queue'[p][z] = queue[p][z]
  BY DEF QueueTyped, Popped
<1>2. ASSUME IsGet(Head(queue[h][y])), NEW p \in Zones, NEW z \in Zones
      PROVE  SameWrites(queue[p][z], queue'[p][z])
  <2>1. CASE p = h /\ z = y
    <3>1. queue[p][z] \in Seq(Sent)
      BY DEF QueueTyped
    <3> QED
      BY <1>1, <1>2, <2>1, <3>1, PopGet
  <2>2. CASE p # h \/ z # y
    BY <1>1, <2>2, SameLine
  <2> QED
    BY <2>1, <2>2
<1> QED
  BY <1>1, <1>2 DEF LinesKept

LEMMA ForgetLines ==
    ASSUME QueueTyped, NEW c \in Clients, Begin(c)
    PROVE  /\ c # Writer => LinesKept
           /\ \A p, z \in Zones : Calm(queue[p][z]) => Calm(queue'[p][z])
<1>1. ASSUME NEW p \in Zones, NEW z \in Zones
      PROVE  /\ queue[p][z] \in Seq(Sent)
             /\ queue'[p][z] =
                   [i \in DOMAIN queue[p][z] |-> Unheard(c, queue[p][z][i])]
  BY DEF QueueTyped, Begin
<1>2. ASSUME NEW p \in Zones, NEW z \in Zones
      PROVE  /\ c # Writer => SameWrites(queue[p][z], queue'[p][z])
             /\ Calm(queue[p][z]) => Calm(queue'[p][z])
  <2> DEFINE q == queue[p][z]
             t == queue'[p][z]
  <2>1. q \in Seq(Sent) /\ t = [i \in DOMAIN q |-> Unheard(c, q[i])]
    BY <1>1
  <2> HIDE DEF q, t
  <2>2. (c # Writer => SameWrites(q, t)) /\ (Calm(q) => Calm(t))
    BY <2>1, Forgetting
  <2> QED
    BY <2>2 DEF q, t
<1> QED
  BY <1>2 DEF LinesKept

-----------------------------------------------------------------------------
(* Steps that leave the writer where it is.                                *)

(* No request of the writer is heard where none was.                       *)
HeardKept ==
    \A p, z \in Zones, i \in Nat :
        Heard(Writer, p, z, i)' => \E j \in Nat : Heard(Writer, p, z, j)

(* Its reply is not changed by a step, or a GET is answered: with what the *)
(* zone holds, unless that is what fails.                                  *)
ReadAnswered ==
    /\ pc[Writer] # "rolling"
    /\ pc[Writer] = "execget" =>
          SubReply' = Was(This).v \/ (~ Failure /\ Failure')

LEMMA Unbroken ==
    ASSUME Undisturbed, Inv, Executing, ~ Failure,
           pc[Writer] \in {"exec", "execget"}
    PROVE  ~ Misread /\ NoneBroken
<1>1. Left \cap Tried = {} /\ Tried \subseteq Zones
  BY Loops
<1>2. \A z \in Tried : Reply(z) \in {"waiting", "OK"}
  BY <1>1 DEF Executing, SentOut, Pending, Done, Broken
<1> QED
  BY <1>2 DEF Executing, NoneBroken

LEMMA PhaseKeeps ==
    ASSUME Undisturbed, Inv, Phase, WriterKept, HeardKept,
           \A z \in Zones : ZoneKept(z),
           SubReply' = SubReply \/ ReadAnswered
    PROVE  Phase'
<1>1. /\ pc'[Writer] = pc[Writer] /\ result'[Writer] = result[Writer]
      /\ Tried' = Tried /\ Left' = Left /\ This' = This
      /\ Tried \subseteq Zones /\ Left \subseteq Zones
      /\ pc[Writer] \in {"execget", "rolling"} => This \in Left /\ This \in Zones
      /\ Home[Writer] \in Zones
  BY Known, Loops, LoopsKept DEF WriterKept
<1>2. (Misread' <=> Misread) /\ (NoneBroken' <=> NoneBroken)
  BY <1>1, ReadsKept
<1>3. \A z \in Zones :
         /\ Failure => Failure'
         /\ Untouched(z) => Untouched(z)'
         /\ SentOut(z) => SentOut(z)'
         /\ Undoing(z) => Undoing(z)'
  BY ZoneKeeps
<1>4. Failure => Failure'
  BY <1>1, <1>3
<1>5. \A z \in Zones :
         /\ store'[z] = store[z] /\ cmd'[Writer] = cmd[Writer]
         /\ Was(z)' = Was(z) /\ Reply(z)' = Reply(z)
         /\ Calm(Line(z)) => Calm(Line(z)')
  BY DEF ZoneKept, Was, Reply, SameWrites, Line
<1>6. Resting => Resting'
  BY <1>1, <1>5 DEF Resting
<1>7. Executing => Executing'
  BY <1>1, <1>2, <1>3, <1>4 DEF Executing
<1>8. Executing /\ Reading /\ pc[Writer] = "execget" => Reading'
  <2> SUFFICES ASSUME Executing, Reading, pc[Writer] = "execget"
               PROVE  Reading'
    OBVIOUS
  <2>1. \A p, z \in Zones, i \in Nat :
           Heard(Writer, p, z, i)' => p = Home[Writer] /\ z = This'
    BY <1>1 DEF HeardKept, Reading
  <2>2. SubReply' \notin {"waiting", Was(This)'.v} =>
           Failure' /\ ~ Misread' /\ NoneBroken'
    <3>1. Was(This)' = Was(This)
      BY <1>1, <1>5
    <3>2. CASE SubReply' = SubReply
      BY <1>2, <1>4, <3>1, <3>2 DEF Reading
    <3>3. CASE ReadAnswered
      BY <1>2, <3>1, <3>3, Unbroken DEF ReadAnswered
    <3> QED
      BY <3>2, <3>3
  <2> QED
    BY <2>1, <2>2 DEF Reading
<1>9. Checking => Checking'
  BY <1>1, <1>2, <1>3, <1>4, <1>5 DEF Checking
<1>10. Failing => Failing'
  BY <1>1, <1>2, <1>3, <1>4 DEF Failing
<1>11. RollingBack => RollingBack'
  BY <1>1, <1>2, <1>3, <1>4 DEF RollingBack
<1>12. CASE pc[Writer] \in ReadPcs
  BY <1>1, <1>6, <1>12 DEF Phase, ReadPcs, SetPcs
<1>13. CASE pc[Writer] \in {"exec", "execget", "check", "failed"}
  BY <1>1, <1>7, <1>8, <1>9, <1>10, <1>13 DEF Phase, ReadPcs, SetPcs
<1>14. CASE pc[Writer] = "rollback"
  BY <1>1, <1>3, <1>11, <1>14 DEF Phase, ReadPcs, SetPcs
<1>15. CASE pc[Writer] = "rolling"
  <2>1. SubReply' = SubReply
    BY <1>15 DEF ReadAnswered
  <2>2. IF SubReply' = "waiting" THEN Undoing(This)' ELSE Untouched(This)'
    BY <1>1, <1>3, <1>15, <2>1 DEF Phase
  <2> QED
    BY <1>1, <1>3, <1>11, <1>15, <2>2 DEF Phase, ReadPcs, SetPcs
<1>16. pc[Writer] # "reply"
  BY DEF Phase
<1> QED
  BY <1>12, <1>13, <1>14, <1>15, <1>16 DEF Phase, ReadPcs, SetPcs

(* What the writer knows is not changed by a Redis.                        *)
LEMMA KnowsKept ==
    ASSUME UNCHANGED <<pc, clientVars>>
    PROVE  /\ WriterKept /\ Tried' = Tried /\ Left' = Left /\ This' = This
           /\ Misread' <=> Misread
           /\ \A z : /\ Was(z)' = Was(z) /\ SetOf(z)' = SetOf(z)
                     /\ old'[Writer][z] = old[Writer][z]
                     /\ before'[Writer][z] = before[Writer][z]
                     /\ Undo(Writer, z)' = Undo(Writer, z)
           /\ cmd'[Writer] = cmd[Writer]
<1>1. /\ pc' = pc /\ cmd' = cmd /\ todo' = todo /\ execed' = execed
      /\ old' = old /\ result' = result /\ before' = before
  BY DEF clientVars, histVars
<1>2. WriterKept /\ Tried' = Tried /\ Left' = Left /\ This' = This
  BY <1>1, LoopsKept DEF WriterKept
<1>3. \A z : /\ Was(z)' = Was(z) /\ SetOf(z)' = SetOf(z)
             /\ Undo(Writer, z)' = Undo(Writer, z)
  BY <1>1 DEF Was, SetOf, Undo
<1>4. Misread' <=> Misread
  BY <1>1, <1>2, <1>3 DEF Misread
<1> QED
  BY <1>1, <1>2, <1>3, <1>4

LEMMA NotCalm ==
    ASSUME NEW q \in Seq(Sent), NEW r, ~ IsGet(r), OneWrite(q, r)
    PROVE  /\ ~ Calm(q)
           /\ \A x, y : ~ IsGet(x) /\ ~ IsGet(y) => ~ TwoWrites(q, x, y)
<1>1. PICK i \in DOMAIN q : q[i] = r /\ \A j \in DOMAIN q : j # i => IsGet(q[j])
  BY DEF OneWrite
<1>2. ~ Calm(q)
  BY <1>1 DEF Calm
<1>3. ASSUME NEW x, NEW y, ~ IsGet(x), ~ IsGet(y), TwoWrites(q, x, y)
      PROVE  FALSE
  <2>1. PICK m \in DOMAIN q, k \in DOMAIN q : m < k /\ q[m] = x /\ q[k] = y
    BY <1>3 DEF TwoWrites
  <2>2. m = i /\ k = i
    BY <1>1, <1>3, <2>1
  <2>3. i \in Nat
    BY LenProperties
  <2> QED
    BY <2>1, <2>2, <2>3
<1> QED
  BY <1>2, <1>3

(* In a zone that waits for its SET, the writer has tried it and nothing   *)
(* has come after.                                                         *)
LEMMA PendingIs ==
    ASSUME Undisturbed, Inv, NEW z \in Zones, Pending(z)
    PROVE  /\ Reply(z) = "waiting" /\ ~ Calm(Line(z)) /\ ~ Untouched(z)
           /\ ~ Undoing(z)
<1>1. Line(z) \in Seq(Sent)
  BY Known DEF QueueTyped, Line
<1>2. /\ ~ IsGet(SetOf(z)) /\ ~ IsGet(Undo(Writer, z))
      /\ OneWrite(Line(z), SetOf(z)) /\ Reply(z) = "waiting"
  BY WritesAreOwn DEF OwnWrite, Pending
<1>3. ~ Calm(Line(z)) /\ ~ TwoWrites(Line(z), SetOf(z), Undo(Writer, z))
  BY <1>1, <1>2, NotCalm
<1> QED
  BY <1>2, <1>3 DEF Untouched, Undoing

(* A SET that was under way is answered.                                   *)
LEMMA PhaseSettles ==
    ASSUME Undisturbed, Inv, Phase, UNCHANGED <<pc, clientVars>>, HeardKept,
           SubReply' = SubReply,
           NEW z \in Zones, Pending(z), \A y \in Zones \ {z} : ZoneKept(y),
           \/ Done(z)' /\ (Failure' <=> Failure)
           \/ Broken(z)' /\ ~ Failure /\ Failure'
    PROVE  Phase'
<1>1. /\ pc' = pc /\ Tried' = Tried /\ Left' = Left /\ This' = This
      /\ Misread' <=> Misread
      /\ Was(This)' = Was(This)
      /\ Tried \subseteq Zones /\ Left \subseteq Zones
      /\ pc[Writer] \in {"execget", "rolling"} => This \in Left /\ This \in Zones
      /\ pc[Writer] \in {"exec", "execget"} => Left \cap Tried = {}
      /\ Home[Writer] \in Zones
  BY Known, Loops, KnowsKept
<1>2. \A y \in Zones \ {z} :
         /\ Untouched(y) => Untouched(y)'
         /\ SentOut(y) => SentOut(y)'
         /\ Undoing(y) => Undoing(y)'
         /\ Reply(y)' = Reply(y)
  BY ZoneKeeps DEF ZoneKept, Reply
<1>3. /\ SentOut(z)' /\ (Failure => Failure')
      /\ Done(z)' => Reply(z)' = "OK"
      /\ Failure => Reply(z)' = "OK"
  BY DEF SentOut, Done
<1>4. /\ Reply(z) = "waiting" /\ ~ Calm(Line(z)) /\ ~ Untouched(z)
      /\ ~ Undoing(z)
  BY PendingIs
<1>5. ASSUME Failure, NoneBroken
      PROVE  NoneBroken'
  BY <1>1, <1>2, <1>3, <1>5 DEF NoneBroken
<1>6. pc[Writer] \notin ReadPcs
  BY <1>4 DEF Phase, Resting
<1>7. Executing => Executing'
  BY <1>1, <1>2, <1>3, <1>4, <1>5 DEF Executing
<1>8. Reading => Reading'
  BY <1>1, <1>3, <1>5 DEF Reading, HeardKept
<1>9. Checking => Checking'
  BY <1>1, <1>2, <1>3, <1>4, <1>5 DEF Checking
<1>10. Failing => Failing'
  BY <1>1, <1>2, <1>3, <1>4 DEF Failing
<1>11. RollingBack => RollingBack'
  BY <1>1, <1>2, <1>3, <1>4 DEF RollingBack
<1>12. CASE pc[Writer] \in {"exec", "execget", "check", "failed"}
  BY <1>1, <1>7, <1>8, <1>9, <1>10, <1>12 DEF Phase, ReadPcs, SetPcs
<1>13. CASE pc[Writer] = "rollback"
  BY <1>1, <1>2, <1>3, <1>11, <1>13 DEF Phase, ReadPcs, SetPcs
<1>14. CASE pc[Writer] = "rolling"
  <2>1. This # z
    BY <1>4, <1>14 DEF Phase
  <2>2. IF SubReply' = "waiting" THEN Undoing(This)' ELSE Untouched(This)'
    BY <1>1, <1>2, <1>14, <2>1 DEF Phase
  <2> QED
    BY <1>1, <1>2, <1>3, <1>11, <1>14, <2>2 DEF Phase, ReadPcs, SetPcs
<1>15. pc[Writer] # "reply"
  BY <1>4 DEF Phase
<1> QED
  BY <1>6, <1>12, <1>13, <1>14, <1>15 DEF Phase, ReadPcs, SetPcs

(* A write of the zone that is being rolled back is answered.              *)
LEMMA PhaseUndoes ==
    ASSUME Undisturbed, Inv, Phase, UNCHANGED <<pc, clientVars>>, Failure',
           pc[Writer] = "rolling", \A y \in Zones \ {This} : ZoneKept(y),
           \/ SubReply' = "waiting" /\ Undoing(This)'
           \/ SubReply' # "waiting" /\ Untouched(This)'
    PROVE  Phase'
<1>1. /\ pc' = pc /\ Tried' = Tried /\ Left' = Left /\ This' = This
      /\ Misread' <=> Misread
      /\ Tried \subseteq Zones /\ Left \subseteq Zones
      /\ This \in Left /\ This \in Zones
  BY Known, Loops, KnowsKept
<1>2. \A y \in Zones \ {This} :
         /\ Untouched(y) => Untouched(y)'
         /\ SentOut(y) => SentOut(y)'
  BY ZoneKeeps
<1>3. RollingBack'
  BY <1>1, <1>2 DEF Phase, RollingBack
<1>4. \A z \in Left' \ {This'} : SentOut(z)'
  BY <1>1, <1>2 DEF Phase
<1>5. IF SubReply' = "waiting" THEN Undoing(This)' ELSE Untouched(This)'
  OBVIOUS
<1> QED
  BY <1>1, <1>3, <1>4, <1>5 DEF Phase, ReadPcs, SetPcs

-----------------------------------------------------------------------------
(* A Redis answers a request.                                              *)

Answers(p, z) ==
    /\ Popped(p, z) /\ UNCHANGED <<late, pc, clientVars>>
    /\ \/ /\ faults' = faults /\ store' = Applied(z, Head(queue[p][z]))
          /\ \E resp \in Replies(z, Head(queue[p][z])) :
                Respond(Head(queue[p][z]), resp)
       \/ /\ ~ Failure /\ Failure' /\ faults \subseteq faults'
          /\ store' \in {store, Applied(z, Head(queue[p][z]))}
          /\ \E resp \in {"nil", "ERR"} : Respond(Head(queue[p][z]), resp)

LEMMA RedisAnswers ==
    ASSUME Undisturbed, Inv, Agreement, owner = "none", OneFault',
           NEW z \in Zones, Redis(z)
    PROVE  \E p \in Zones : Answers(p, z)
<1>1. late[z] = {} /\ store[z].ttl = FALSE
  BY DEF Agreement, Lasting
<1>2. ~ Fault("late")
  <2>1. \A F \in Faults[owner] : "late" \notin F
    BY Known DEF EnvTyped, Undisturbed
  <2> QED
    BY <2>1 DEF Fault
<1>3. ASSUME NEW p \in Zones, Serve(p, z)
      PROVE  Answers(p, z)
  <2>1. Popped(p, z) /\ UNCHANGED <<late, pc, clientVars>> /\ faults' = faults
    BY <1>3 DEF Serve, Popped
  <2> QED
    BY <1>3, <2>1 DEF Answers, Serve
<1>4. ASSUME NEW p \in Zones, Fail(p, z)
      PROVE  Answers(p, z)
  <2>1. Popped(p, z) /\ UNCHANGED <<pc, clientVars>>
    BY <1>4 DEF Fail, Popped
  <2>2. \E f : Fault(f)
    BY <1>4 DEF Fail
  <2>3. ~ Failure /\ Failure' /\ faults \subseteq faults'
    BY <2>2, FaultBreaks DEF Fault
  <2>4. /\ late' = late /\ store' \in {store, Applied(z, Head(queue[p][z]))}
        /\ \E resp \in {"nil", "ERR"} : Respond(Head(queue[p][z]), resp)
    BY <1>2, <1>4 DEF Fail
  <2> QED
    BY <2>1, <2>3, <2>4 DEF Answers
<1> QED
  BY <1>1, <1>3, <1>4 DEF Redis, ServeLate, Expire

LEMMA AnswersKeep ==
    ASSUME Undisturbed, Inv, NEW p \in Zones, NEW z \in Zones, Answers(p, z)
    PROVE  /\ queue[p][z] \in Seq(Sent) /\ queue[p][z] # <<>>
           /\ queue'[p][z] = Tail(queue[p][z])
           /\ Head(queue[p][z]) \in Sent
           /\ \A w, y \in Zones : w # p \/ y # z => queue'[w][y] = queue[w][y]
           /\ HeardKept /\ faults \subseteq faults'
           /\ \A y \in Zones \ {z} : store'[y] = store[y]
           /\ UNCHANGED <<pc, clientVars>> /\ late' = late
<1>1. Popped(p, z) /\ queue[p][z] \in Seq(Sent) /\ queue[p][z] # <<>>
  BY Known DEF QueueTyped, Answers, Popped
<1>2. HeardKept
  BY <1>1, Known, PopHeard DEF HeardKept
<1>3. \A y \in Zones \ {z} : store'[y] = store[y]
  <2>1. store' \in {store, Applied(z, Head(queue[p][z]))}
    BY DEF Answers
  <2>2. store \in [Zones -> Kept]
    BY Known DEF StoreTyped
  <2> QED
    BY <2>1, <2>2 DEF Applied
<1>4. Head(queue[p][z]) \in Sent
  BY <1>1, Popping
<1> QED
  BY <1>1, <1>2, <1>3, <1>4, Known, PopLines DEF Answers

LEMMA RespondIs ==
    ASSUME Undisturbed, Inv, NEW r \in Sent, NEW resp, Respond(r, resp)
    PROVE  /\ \A s \in Slots : r.c # Writer \/ r.slot # s =>
                 ans'[Writer][s] = ans[Writer][s]
           /\ r.c = Writer /\ r.slot \in Slots => ans'[Writer][r.slot] = resp
<1>1. ans \in [Clients -> [Slots -> Replied]] /\ Writer \in Clients
  BY Known DEF AnsTyped
<1>2. r.slot \in Slots => r.slot # "copy"
  BY Known DEF Slots
<1>3. r.c \in Clients /\ r.slot \in Slots \cup {"copy"}
  BY DEF Sent
<1> QED
  BY <1>1, <1>2, <1>3 DEF Respond

(* The writer's "sub" request is the only one that it hears of.            *)
LEMMA HeardOnce ==
    ASSUME Undisturbed, Inv, Phase, NEW p \in Zones, NEW z \in Zones,
           queue[p][z] # <<>>, Head(queue[p][z]).c = Writer,
           Head(queue[p][z]).slot = "sub"
    PROVE  /\ Heard(Writer, p, z, 1)
           /\ pc[Writer] = "execget" => p = Home[Writer] /\ z = This
           /\ pc[Writer] = "rolling" => ~ IsGet(Head(queue[p][z]))
<1>1. queue[p][z] \in Seq(Sent)
  BY Known DEF QueueTyped
<1>2. Heard(Writer, p, z, 1)
  <2>1. Len(queue[p][z]) \in Nat \ {0} /\ queue[p][z][1] = Head(queue[p][z])
    BY <1>1, Popping
  <2> QED
    BY <2>1 DEF Heard
<1>3. pc[Writer] = "execget" => p = Home[Writer] /\ z = This
  BY <1>2 DEF Phase, Reading
<1>4. ASSUME pc[Writer] = "rolling"
      PROVE  ~ IsGet(Head(queue[p][z]))
  <2>1. SubReply = "waiting" /\ This \in Zones /\ Home[Writer] \in Zones
    BY <1>2, <1>4, Known, Loops DEF OneCall, SubReply
  <2>2. Undoing(This) /\ Line(This) \in Seq(Sent)
    BY <1>4, <2>1, Known DEF Phase, QueueTyped, Line
  <2>3. PICK k \in DOMAIN Line(This) : Line(This)[k] = Undo(Writer, This)
    BY <2>2 DEF Undoing, TwoWrites, OneWrite
  <2>4. k \in 1..Len(Line(This)) /\ k \in Nat
    BY <2>2, LenProperties
  <2>5. Undo(Writer, This).c = Writer /\ Undo(Writer, This).slot = "sub"
    BY DEF Undo, Request
  <2>6. Heard(Writer, Home[Writer], This, k)
    BY <2>3, <2>4, <2>5 DEF Heard, Line
  <2>7. p = Home[Writer] /\ z = This /\ k = 1
    BY <1>2, <2>1, <2>4, <2>6, Known DEF OneCall
  <2>8. Head(queue[p][z]) = Undo(Writer, This)
    BY <1>1, <2>3, <2>7, Popping DEF Line
  <2> QED
    BY <2>1, <2>8, WritesAreOwn DEF OwnWrite
<1> QED
  BY <1>2, <1>3, <1>4

LEMMA GetAnswered ==
    ASSUME Undisturbed, Inv, Agreement, NEW p \in Zones, NEW z \in Zones,
           Answers(p, z), IsGet(Head(queue[p][z]))
    PROVE  Agreement'
<1> DEFINE r == Head(queue[p][z])
<1>1. /\ r \in Sent /\ queue[p][z] # <<>> /\ HeardKept
      /\ faults \subseteq faults' /\ UNCHANGED <<pc, clientVars>> /\ late' = late
      /\ IsGet(r) /\ Phase /\ Typed /\ QueueTyped /\ Popped(p, z)
      /\ Home[Writer] \in Zones /\ "sub" \notin Zones /\ "copy" \notin Zones
      /\ Writer \in Clients
  BY AnswersKeep, Known DEF Agreement, Answers
<1>2. LinesKept
  BY <1>1, PopLines
<1>3. Applied(z, r) = store
  BY <1>1 DEF Applied, IsGet
<1>4. store' = store
  BY <1>3 DEF Answers
<1>5. PICK resp : /\ Respond(r, resp)
                  /\ resp = store[z].v \/ (~ Failure /\ Failure')
  <2>1. Replies(z, r) = {store[z].v}
    BY <1>1 DEF Replies, IsGet
  <2> QED
    BY <2>1 DEF Answers
<1> HIDE DEF r
<1>6. \A y \in Zones : ans'[Writer][y] = ans[Writer][y]
  BY <1>1, <1>5, RespondIs DEF IsGet, Slots
<1>7. \A y \in Zones : ZoneKept(y)
  BY <1>1, <1>2, <1>4, <1>6, KnowsKept DEF ZoneKept, LinesKept
<1>8. WriterKept
  BY <1>1, KnowsKept
<1>9. SubReply' = SubReply \/ ReadAnswered
  <2>1. CASE r.c = Writer /\ r.slot = "sub"
    <3>1. /\ pc[Writer] = "execget" => z = This
          /\ pc[Writer] # "rolling"
      BY <1>1, <2>1, HeardOnce DEF r
    <3>2. SubReply' = resp
      BY <1>1, <1>5, <2>1, RespondIs DEF Slots, SubReply
    <3>3. ASSUME pc[Writer] = "execget", resp = store[z].v
          PROVE  SubReply' = Was(This).v
      <4>1. /\ This \in Zones /\ This \in Left /\ Left \cap Tried = {}
            /\ z = This
        BY <3>1, <3>3, Loops
      <4>2. Untouched(This)
        BY <1>1, <3>3, <4>1 DEF Phase, Executing
      <4> QED
        BY <3>2, <3>3, <4>1, <4>2 DEF Untouched
    <3> QED
      BY <1>5, <3>1, <3>3 DEF ReadAnswered
  <2>2. CASE ~ (r.c = Writer /\ r.slot = "sub")
    BY <1>1, <1>5, <2>2, RespondIs DEF Slots, SubReply
  <2> QED
    BY <2>1, <2>2
<1>10. Phase'
  BY <1>1, <1>7, <1>8, <1>9, PhaseKeeps
<1>11. Lasting'
  <2>1. \A y : Was(y)' = Was(y) /\ cmd'[Writer] = cmd[Writer]
    BY <1>1, KnowsKept
  <2> QED
    BY <1>1, <1>4, <2>1 DEF Agreement, Lasting
<1>12. OthersRead'
  <2>1. pc' = pc /\ result' = result
    BY <1>1 DEF clientVars
  <2>2. \A w, y \in Zones : Calm(queue[w][y]) => Calm(queue'[w][y])
    BY <1>2 DEF LinesKept, SameWrites
  <2> QED
    BY <2>1, <2>2 DEF Agreement, OthersRead
<1> QED
  BY <1>10, <1>11, <1>12 DEF Agreement

(* Where there is a write, a SET is under way or being rolled back.        *)
LEMMA WriteWhere ==
    ASSUME Undisturbed, Inv, Phase, NEW z \in Zones, ~ Calm(Line(z))
    PROVE  \/ Pending(z)
           \/ /\ pc[Writer] = "rolling" /\ z = This /\ SubReply = "waiting"
              /\ Undoing(z)
<1>1. ~ Untouched(z) /\ (SentOut(z) => Pending(z))
  BY DEF Untouched, SentOut, Done, Broken
<1>2. CASE pc[Writer] \in ReadPcs
  BY <1>1, <1>2 DEF Phase, Resting
<1>3. CASE pc[Writer] \in {"exec", "execget", "check", "failed"}
  BY <1>1, <1>3 DEF Phase, Executing, Checking, Failing
<1>4. CASE pc[Writer] = "rollback"
  BY <1>1, <1>4 DEF Phase, RollingBack
<1>5. CASE pc[Writer] = "rolling"
  <2>1. z \in Left
    BY <1>1, <1>5 DEF Phase, RollingBack
  <2> QED
    BY <1>1, <1>5, <2>1 DEF Phase
<1> QED
  BY <1>2, <1>3, <1>4, <1>5 DEF Phase, SetPcs

LEMMA WriteIs ==
    ASSUME Undisturbed, Inv, Lasting, NEW z \in Zones
    PROVE  /\ Applied(z, SetOf(z))[z] = cmd[Writer]
           /\ old[Writer][z] = Was(z).v =>
                 Applied(z, Undo(Writer, z))[z] = Was(z)
           /\ Applied(z, Undo(Writer, z))[z].ttl = FALSE
           /\ Replies(z, SetOf(z)) = {"OK"}
           /\ Replies(z, Undo(Writer, z)) = {"OK"}
<1>1. /\ store \in [Zones -> Kept] /\ cmd[Writer] \in Kept /\ Was(z) \in Kept
      /\ old[Writer][z] \in Allowed
      /\ Was(z).ttl = FALSE /\ cmd[Writer].ttl = FALSE
  BY Known DEF DataTyped, StoreTyped, Was, Lasting
<1>2. /\ SetOf(z).op = "set" /\ SetOf(z).v = cmd[Writer].v
      /\ SetOf(z).ttl = FALSE
  BY <1>1 DEF SetOf, Request
<1>3. cmd[Writer] = [v |-> cmd[Writer].v, ttl |-> FALSE]
  BY <1>1 DEF Kept
<1>4. Applied(z, SetOf(z))[z] = cmd[Writer]
  BY <1>1, <1>2, <1>3 DEF Applied
<1>5. Was(z) = [v |-> Was(z).v, ttl |-> FALSE]
  BY <1>1 DEF Kept
<1>6. CASE old[Writer][z] # ""
  <2>1. /\ Undo(Writer, z).op = "set" /\ Undo(Writer, z).ttl = FALSE
        /\ Undo(Writer, z).v = old[Writer][z]
    BY <1>6 DEF Undo, Request
  <2>2. Applied(z, Undo(Writer, z))[z] = [v |-> old[Writer][z], ttl |-> FALSE]
    BY <1>1, <2>1 DEF Applied
  <2> QED
    BY <1>2, <1>4, <1>5, <2>1, <2>2 DEF Replies
<1>7. CASE old[Writer][z] = ""
  <2>1. Undo(Writer, z).op = "del"
    BY <1>7 DEF Undo, Request
  <2>2. Applied(z, Undo(Writer, z))[z] = NoKey
    BY <1>1, <2>1 DEF Applied
  <2>3. Replies(z, SetOf(z)) = {"OK"} /\ Replies(z, Undo(Writer, z)) = {"OK"}
    BY <1>2, <2>1 DEF Replies
  <2>4. old[Writer][z] = Was(z).v => Applied(z, Undo(Writer, z))[z] = Was(z)
    BY <1>5, <1>7, <2>2 DEF NoKey
  <2>5. Applied(z, Undo(Writer, z))[z].ttl = FALSE
    <3>1. NoKey.ttl = FALSE
      BY DEF NoKey
    <3> QED
      BY <2>2, <3>1
  <2> QED
    BY <1>4, <2>3, <2>4, <2>5
<1> QED
  BY <1>6, <1>7

LEMMA WriteAnswered ==
    ASSUME Undisturbed, Inv, Agreement, NEW p \in Zones, NEW z \in Zones,
           Answers(p, z), ~ IsGet(Head(queue[p][z]))
    PROVE  Agreement'
<1> DEFINE r == Head(queue[p][z])
           q == queue[p][z]
<1>1. /\ r \in Sent /\ q \in Seq(Sent) /\ q # <<>> /\ HeardKept
      /\ queue'[p][z] = Tail(q)
      /\ \A w, y \in Zones : w # p \/ y # z => queue'[w][y] = queue[w][y]
      /\ \A y \in Zones \ {z} : store'[y] = store[y]
      /\ faults \subseteq faults' /\ UNCHANGED <<pc, clientVars>> /\ late' = late
      /\ Phase /\ Lasting /\ OthersRead
      /\ Home[Writer] \in Zones /\ "sub" \notin Zones /\ Writer \in Clients
      /\ Zones \subseteq Slots /\ "sub" \in Slots
  BY AnswersKeep, Known DEF Agreement, Slots
<1>2. ~ Calm(q)
  BY <1>1, PopWrite
<1>3. p = Home[Writer] /\ Line(z) = q /\ Line(z)' = Tail(q)
  BY <1>1, <1>2 DEF OthersRead, Line
<1>4. \/ Pending(z)
      \/ /\ pc[Writer] = "rolling" /\ z = This /\ SubReply = "waiting"
         /\ Undoing(z)
  BY <1>1, <1>2, <1>3, WriteWhere
<1>5. \A x, y : ~ IsGet(x) /\ TwoWrites(q, x, y) => r = x /\ OneWrite(Tail(q), y)
  BY <1>1, PopWrite
<1>6. \A x : OneWrite(q, x) => r = x /\ Calm(Tail(q))
  BY <1>1, PopWrite
<1>7. ~ IsGet(SetOf(z)) /\ SetOf(z).c = Writer /\ SetOf(z).slot = z
  BY WritesAreOwn DEF OwnWrite, SetOf, Request
<1>8. Undo(Writer, z).c = Writer /\ Undo(Writer, z).slot = "sub"
  BY DEF Undo, Request
<1>9. r = SetOf(z) \/ r = Undo(Writer, z)
  BY <1>3, <1>4, <1>5, <1>6, <1>7 DEF Pending, Undoing
<1>10. PICK resp : Respond(r, resp) /\ resp # "waiting"
  BY <1>1, <1>9, WriteIs DEF Answers
<1>11. \A y \in Zones \ {z} : ans'[Writer][y] = ans[Writer][y]
  BY <1>1, <1>7, <1>8, <1>9, <1>10, RespondIs
<1>12. \A y \in Zones \ {z} : ZoneKept(y)
  <2>1. \A y \in Zones \ {z} :
           SameWrites(queue[Home[Writer]][y], queue'[Home[Writer]][y])
    BY <1>1, SameLine
  <2> QED
    BY <1>1, <1>11, <2>1, KnowsKept DEF ZoneKept
<1>13. OthersRead'
  <2>1. pc' = pc /\ result' = result
    BY <1>1 DEF clientVars
  <2> QED
    BY <1>1, <1>3, <2>1 DEF OthersRead
<1>14. Lasting'
  <2>1. \A y : Was(y)' = Was(y) /\ cmd'[Writer] = cmd[Writer]
    BY <1>1, KnowsKept
  <2>2. store' \in {store, Applied(z, r)}
    BY DEF Answers
  <2>3. store'[z].ttl = FALSE
    BY <1>1, <1>9, <2>2, WriteIs DEF Lasting
  <2> QED
    BY <1>1, <2>1, <2>3 DEF Lasting
<1> HIDE DEF r, q
<1>15. CASE Pending(z)
  <2>1. r = SetOf(z) /\ Calm(Tail(q)) /\ store[z] = Was(z)
    BY <1>3, <1>6, <1>15 DEF Pending
  <2>2. SubReply' = SubReply
    BY <1>1, <1>7, <1>10, <2>1, RespondIs DEF SubReply
  <2>3. /\ Was(z)' = Was(z) /\ cmd'[Writer] = cmd[Writer]
        /\ Applied(z, r)[z] = cmd[Writer] /\ Replies(z, r) = {"OK"}
    BY <1>1, <2>1, KnowsKept, WriteIs
  <2>4. \A x : Respond(r, x) => Reply(z)' = x
    BY <1>1, <1>7, <2>1, RespondIs DEF Reply
  <2>5. \/ /\ faults' = faults /\ store'[z] = cmd[Writer] /\ Reply(z)' = "OK"
        \/ /\ ~ Failure /\ Failure' /\ store'[z] \in {Was(z), cmd[Writer]}
           /\ Reply(z)' \in {"nil", "ERR"}
    BY <2>1, <2>3, <2>4 DEF Answers, r
  <2>6. \/ Done(z)' /\ (Failure' <=> Failure)
        \/ Broken(z)' /\ ~ Failure /\ Failure'
    <3>1. CASE faults' = faults /\ store'[z] = cmd[Writer] /\ Reply(z)' = "OK"
      BY <1>3, <2>1, <2>3, <3>1 DEF Done, Failure
    <3>2. CASE /\ ~ Failure /\ Failure' /\ store'[z] \in {Was(z), cmd[Writer]}
               /\ Reply(z)' \in {"nil", "ERR"}
      BY <1>3, <2>1, <2>3, <3>2 DEF Broken
    <3> QED
      BY <2>5, <3>1, <3>2
  <2>7. Phase'
    BY <1>1, <1>12, <1>15, <2>2, <2>6, PhaseSettles
  <2> QED
    BY <1>13, <1>14, <2>7 DEF Agreement
<1>16. CASE /\ pc[Writer] = "rolling" /\ z = This /\ SubReply = "waiting"
            /\ Undoing(z)
  <2>1. /\ Failure /\ ~ Misread /\ z \in Tried
    BY <1>1, <1>16, Loops DEF Phase, RollingBack
  <2>2. /\ faults' = faults /\ store' = Applied(z, r)
        /\ \E x \in Replies(z, r) : Respond(r, x)
    BY <2>1 DEF Answers, r
  <2>3. Respond(r, "OK")
    <3>1. Replies(z, r) = {"OK"}
      BY <1>1, <1>9, WriteIs
    <3> QED
      BY <2>2, <3>1
  <2>4. Failure'
    BY <2>1, <2>2 DEF Failure
  <2>5. Was(z)' = Was(z) /\ Undo(Writer, z)' = Undo(Writer, z) /\ This' = This
    BY <1>1, KnowsKept
  <2>6. CASE TwoWrites(q, SetOf(z), Undo(Writer, z))
    <3>1. r = SetOf(z) /\ OneWrite(Tail(q), Undo(Writer, z))
      BY <1>5, <1>7, <2>6
    <3>2. SubReply' = SubReply /\ Reply(z)' = "OK"
      BY <1>1, <1>7, <2>3, <3>1, RespondIs DEF SubReply, Reply
    <3>3. Undoing(z)'
      BY <1>3, <2>5, <3>1, <3>2 DEF Undoing
    <3> QED
      BY <1>1, <1>12, <1>13, <1>14, <1>16, <2>4, <2>5, <3>2, <3>3, PhaseUndoes
      DEF Agreement
  <2>7. CASE OneWrite(q, Undo(Writer, z)) /\ Reply(z) # "waiting"
    <3>1. r = Undo(Writer, z) /\ Calm(Tail(q))
      BY <1>6, <2>7
    <3>2. SubReply' = "OK" /\ Reply(z)' = Reply(z)
      BY <1>1, <1>8, <2>3, <3>1, RespondIs DEF SubReply, Reply
    <3>3. store'[z] = Was(z)
      <4>1. old[Writer][z] = Was(z).v
        BY <2>1 DEF Misread
      <4> QED
        BY <1>1, <2>2, <3>1, <4>1, WriteIs
    <3>4. Untouched(z)'
      BY <1>3, <2>5, <2>7, <3>1, <3>2, <3>3 DEF Untouched
    <3> QED
      BY <1>1, <1>12, <1>13, <1>14, <1>16, <2>4, <2>5, <3>2, <3>4, PhaseUndoes
      DEF Agreement
  <2> QED
    BY <1>3, <1>16, <2>6, <2>7 DEF Undoing
<1> QED
  BY <1>4, <1>15, <1>16

-----------------------------------------------------------------------------
(* A client that only reads.                                               *)

LEMMA NoMarker ==
    ASSUME Undisturbed, Inv
    PROVE  {"nil", "ok", "rolledback"} \cap Allowed = {}
<1>1. Sets[owner] \subseteq [v : STRING \ Markers, ttl : BOOLEAN]
  BY Known, ZoneAssumption DEF EnvTyped, ZoneAssumption
<1>2. \A s \in Sets[owner] : s.v \notin {"nil", "ok", "rolledback"}
  BY <1>1 DEF Markers
<1>3. \A x \in Values : x \notin {"nil", "ok", "rolledback"}
  BY <1>2 DEF Values
<1> QED
  BY <1>3 DEF Allowed

LEMMA GotIs ==
    ASSUME Undisturbed, Inv, NEW c \in Clients, pc[c] = "gothere"
    PROVE  ans[c]["sub"] \notin {"ok", "rolledback"}
<1>1. ans[c]["sub"] \in Fetched
  BY Known DEF GetTyped, GetPcs
<1> QED
  BY <1>1, NoMarker DEF Fetched

ReadsOnly ==
    /\ UNCHANGED redisVars /\ WriterKept /\ LinesKept /\ HeardKept
    /\ ans'[Writer] = ans[Writer] /\ before'[Writer] = before[Writer]
    /\ cmd'[Writer] = cmd[Writer] /\ old'[Writer] = old[Writer]
    /\ faults \subseteq faults'
    /\ \A c \in Clients \ {Writer} :
          pc'[c] \in ReadPcs /\ result'[c] \notin {"ok", "rolledback"}

LEMMA ReadsAgree ==
    ASSUME Undisturbed, Inv, Agreement, ReadsOnly
    PROVE  Agreement'
<1>1. \A z \in Zones : ZoneKept(z)
  BY Known DEF ReadsOnly, ZoneKept, redisVars, LinesKept
<1>2. Phase'
  BY <1>1, PhaseKeeps DEF Agreement, ReadsOnly, SubReply
<1>3. Lasting'
  BY DEF Agreement, Lasting, ReadsOnly, redisVars, Was
<1>4. OthersRead'
  <2>1. \A w, y \in Zones : Calm(queue[w][y]) => Calm(queue'[w][y])
    BY DEF ReadsOnly, LinesKept, SameWrites
  <2> QED
    BY <2>1 DEF Agreement, OthersRead, ReadsOnly
<1> QED
  BY <1>2, <1>3, <1>4 DEF Agreement

LEMMA ReaderActs ==
    ASSUME Undisturbed, Inv, Agreement, Results, owner = "none",
           NEW c \in Clients \ {Writer}, Arrive(c) \/ Dispatch(c)
    PROVE  ReadsOnly
<1>1. /\ c \in Clients /\ c # Writer /\ c \notin Writers /\ Writer \in Clients
      /\ pc[c] \in ReadPcs /\ Home[c] \in Zones
      /\ pc \in [Clients -> Pcs] /\ ans \in [Clients -> [Slots -> Replied]]
      /\ QueueTyped /\ EnvTyped
      /\ \A d \in Clients \ {Writer} :
            pc[d] \in ReadPcs /\ result[d] \notin {"ok", "rolledback"}
  BY Known DEF Agreement, OthersRead, OrderTyped, AnsTyped
<1>2. CASE BeginGet(c)
  <2>1. /\ Begin(c) /\ pc' = [pc EXCEPT ![c] = "get"]
        /\ result' = [result EXCEPT ![c] = "none"]
        /\ UNCHANGED <<cmd, todo>>
    BY <1>2 DEF BeginGet, Goto
  <2>2. LinesKept
    BY <1>1, <2>1, ForgetLines
  <2>3. HeardKept
    BY <1>1, <2>1, BeginHeard DEF HeardKept
  <2>4. /\ ans'[Writer] = ans[Writer] /\ before'[Writer] = before[Writer]
        /\ execed'[Writer] = execed[Writer]
        /\ UNCHANGED <<redisVars, old, faults>>
    BY <1>1, <2>1 DEF Begin
  <2>5. WriterKept
    BY <1>1, <2>1, <2>4 DEF WriterKept
  <2>6. \A d \in Clients \ {Writer} :
           pc'[d] \in ReadPcs /\ result'[d] \notin {"ok", "rolledback"}
    BY <1>1, <2>1 DEF ReadPcs
  <2> QED
    BY <2>1, <2>2, <2>3, <2>4, <2>5, <2>6 DEF ReadsOnly
<1>3. CASE GetHere(c)
  <2> DEFINE r == Request(c, "sub", "get", "", FALSE)
  <2>1. /\ Forward(c, Home[c], r, "nil", "gothere", "idle")
        /\ UNCHANGED <<redisVars, clientVars>>
    BY <1>3 DEF GetHere
  <2>2. /\ r.c = c /\ r.slot = "sub" /\ IsGet(r) /\ r \in Sent
    BY <1>1 DEF Request, IsGet, Sent, Allowed, Slots
  <2> HIDE DEF r
  <2>3. /\ queue' = queue \/ Pushed(Home[c], Home[c], r)
        /\ ans'[Writer] = ans[Writer]
        /\ \E next \in ReadPcs : pc' = [pc EXCEPT ![c] = next]
        /\ faults' = faults \/ \E f : Fault(f)
    BY <1>1, <2>1, <2>2 DEF Forward, Pushed, Goto, ReadPcs
  <2>4. LinesKept /\ HeardKept
    <3>1. CASE queue' = queue
      <4>1. LinesKept
        BY <3>1, SameLine DEF LinesKept
      <4>2. HeardKept
        BY <3>1 DEF HeardKept, Heard
      <4> QED
        BY <4>1, <4>2
    <3>2. CASE Pushed(Home[c], Home[c], r)
      <4>1. LinesKept
        BY <1>1, <2>2, <3>2, PushLines
      <4>2. HeardKept
        BY <1>1, <2>2, <3>2, PushHeard DEF HeardKept
      <4> QED
        BY <4>1, <4>2
    <3> QED
      BY <2>3, <3>1, <3>2
  <2>5. faults \subseteq faults'
    BY <2>3 DEF Fault
  <2>6. /\ WriterKept /\ before' = before /\ cmd' = cmd /\ old' = old
        /\ UNCHANGED redisVars /\ result' = result
    BY <1>1, <2>1, <2>3 DEF WriterKept, clientVars, histVars
  <2>7. \A d \in Clients \ {Writer} :
           pc'[d] \in ReadPcs /\ result'[d] \notin {"ok", "rolledback"}
    BY <1>1, <2>3, <2>6
  <2> QED
    BY <2>3, <2>4, <2>5, <2>6, <2>7 DEF ReadsOnly
<1>4. CASE GotHere(c)
  <2>1. /\ UNCHANGED <<redisVars, queue, ans, faults, cmd, todo, execed, old,
                       before>>
        /\ pc' = [pc EXCEPT ![c] = "idle"]
        /\ \E x : /\ result' = [result EXCEPT ![c] = x]
                  /\ x = "error" \/ x = ans[c]["sub"]
    BY <1>4 DEF GotHere, Finish, Goto, histVars
  <2>2. ans[c]["sub"] \notin {"ok", "rolledback"}
    BY <1>1, <1>4, GotIs DEF GotHere
  <2>3. LinesKept /\ HeardKept
    <3>1. LinesKept
      BY <2>1, SameLine DEF LinesKept
    <3>2. HeardKept
      BY <2>1 DEF HeardKept, Heard
    <3> QED
      BY <3>1, <3>2
  <2>4. \A d \in Clients \ {Writer} :
           pc'[d] \in ReadPcs /\ result'[d] \notin {"ok", "rolledback"}
    <3>1. PICK S : result \in [Clients -> S]
      BY DEF Results
    <3>2. PICK x : /\ result' = [result EXCEPT ![c] = x]
                   /\ x \notin {"ok", "rolledback"}
      BY <2>1, <2>2
    <3> QED
      BY <1>1, <2>1, <3>1, <3>2 DEF ReadPcs
  <2>5. WriterKept
    BY <1>1, <2>1 DEF WriterKept
  <2> QED
    BY <2>1, <2>3, <2>4, <2>5 DEF ReadsOnly
<1>5. ~ (BeginTransaction(c) \/ BeginCopies(c) \/ BeginRejected(c))
  BY <1>1 DEF BeginTransaction, BeginCopies, BeginRejected
<1>6. Dispatch(c) => GetHere(c) \/ GotHere(c)
  BY <1>1 DEF Dispatch, ReadPcs, Copy, ExecGet, ExecSet, Commit, Check,
              StartRollback, Rollback, RolledBack, RollbackEnds, OwnReply,
              GetOwner, GotOwner, AskTtl, Fill, Filled
<1> QED
  BY <1>2, <1>3, <1>4, <1>5, <1>6 DEF Arrive

-----------------------------------------------------------------------------
(* The zones of a loop.                                                    *)

LEMMA OrderCovers ==
    ASSUME NEW s \in SetToSeqs(Zones)
    PROVE  ToSet(s) = Zones
<1> DEFINE n == Cardinality(Zones)
<1>1. IsFiniteSet(Zones) /\ n \in Nat
  BY ZoneAssumption, FS_CardinalityType DEF ZoneAssumption
<1>2. s \in [1..n -> Zones] /\ \A i, j \in 1..n : i # j => s[i] # s[j]
  BY DEF SetToSeqs
<1> HIDE DEF n
<1>3. IsFiniteSet(1..n) /\ Cardinality(1..n) = n
  BY <1>1, FS_Interval
<1>4. s \in Injection(1..n, Zones)
  BY <1>2 DEF Injection, IsInjective
<1>5. s \in Surjection(1..n, Zones)
  BY <1>1, <1>3, <1>4, FS_Injection DEF n
<1>6. \A z \in Zones : \E i \in 1..n : s[i] = z
  BY <1>5 DEF Surjection
<1> QED
  BY <1>2, <1>6 DEF ToSet

LEMMA NextOf ==
    ASSUME NEW s \in Seq(Zones), Unrepeated(s), s # <<>>
    PROVE  ToSet(Tail(s)) = ToSet(s) \ {Head(s)}
<1> DEFINE t == Tail(s)
<1>1. /\ DOMAIN s = 1..Len(s) /\ Len(s) \in Nat \ {0}
      /\ DOMAIN t = 1..(Len(s) - 1) /\ Head(s) = s[1]
      /\ \A i \in 1..(Len(s) - 1) : t[i] = s[i + 1]
  BY EmptySeq, LenProperties, HeadTailProperties
<1> HIDE DEF t
<1>2. \A i \in DOMAIN s, j \in DOMAIN s : i # j => s[i] # s[j]
  BY DEF Unrepeated, IsInjective
<1>3. /\ 1 \in DOMAIN s
      /\ \A i \in DOMAIN t : i + 1 \in DOMAIN s /\ i + 1 # 1 /\ t[i] = s[i + 1]
      /\ \A i \in DOMAIN s : i # 1 => i - 1 \in DOMAIN t /\ t[i - 1] = s[i]
  BY <1>1
<1>4. ToSet(t) = {t[i] : i \in DOMAIN t} /\ ToSet(s) = {s[i] : i \in DOMAIN s}
  BY DEF ToSet
<1>5. ASSUME NEW z \in ToSet(t)
      PROVE  z \in ToSet(s) /\ z # Head(s)
  <2>1. PICK i \in DOMAIN t : z = t[i]
    BY <1>4
  <2> QED
    BY <1>1, <1>2, <1>3, <1>4, <2>1
<1>6. ASSUME NEW z \in ToSet(s), z # Head(s)
      PROVE  z \in ToSet(t)
  <2>1. PICK i \in DOMAIN s : z = s[i]
    BY <1>4
  <2>2. i # 1
    BY <1>1, <1>6, <2>1
  <2> QED
    BY <1>3, <1>4, <2>1, <2>2
<1> QED
  BY <1>5, <1>6 DEF t

LEMMA LastOf ==
    ASSUME NEW s \in Seq(Zones), NEW z \in Zones
    PROVE  ToSet(Append(s, z)) = ToSet(s) \cup {z}
<1> DEFINE t == Append(s, z)
<1>1. /\ DOMAIN s = 1..Len(s) /\ Len(s) \in Nat
      /\ DOMAIN t = 1..(Len(s) + 1) /\ t[Len(s) + 1] = z
      /\ \A i \in 1..Len(s) : t[i] = s[i]
  BY AppendProperties, LenProperties
<1> HIDE DEF t
<1>2. ToSet(t) = {t[i] : i \in DOMAIN t} /\ ToSet(s) = {s[i] : i \in DOMAIN s}
  BY DEF ToSet
<1>3. /\ \A i \in DOMAIN t : t[i] = z \/ (i \in DOMAIN s /\ t[i] = s[i])
      /\ \A i \in DOMAIN s : i \in DOMAIN t /\ t[i] = s[i]
      /\ Len(s) + 1 \in DOMAIN t
  BY <1>1
<1> QED
  BY <1>1, <1>2, <1>3 DEF t

-----------------------------------------------------------------------------
(* The writer, when it does not SET.                                       *)

LEMMA OthersKept ==
    ASSUME Undisturbed, Inv, OthersRead,
           \A c \in Clients \ {Writer} : pc'[c] = pc[c] /\ result'[c] = result[c],
           \A p, z \in Zones : p # Home[Writer] /\ Calm(queue[p][z]) =>
              Calm(queue'[p][z])
    PROVE  OthersRead'
BY DEF OthersRead

LEMMA WriterBegins ==
    ASSUME Undisturbed, Inv, Agreement, Results, owner = "none", Arrive(Writer)
    PROVE  Agreement'
<1>1. /\ Writer \in Clients /\ Home[Writer] \in Zones /\ Zones \subseteq Slots
      /\ pc \in [Clients -> Pcs] /\ ans \in [Clients -> [Slots -> Replied]]
      /\ store \in [Zones -> Kept] /\ before \in [Clients -> [Zones -> Kept]]
      /\ todo \in [Clients -> Seq(Zones)] /\ execed \in [Clients -> Seq(Zones)]
      /\ cmd \in [Clients -> Kept] /\ EnvTyped
      /\ QueueTyped /\ Phase /\ Lasting /\ OthersRead
  BY Known DEF Agreement, OrderTyped, AnsTyped, StoreTyped, DataTyped, Slots
<1>2. BeginGet(Writer) \/ BeginTransaction(Writer)
  <2>1. owner # Home[Writer]
    BY Known
  <2> QED
    BY <2>1 DEF Arrive, BeginCopies, BeginRejected
<1>3. /\ pc[Writer] = "idle" /\ Begin(Writer)
      /\ before' = [before EXCEPT ![Writer] = store]
      /\ ans' = [ans EXCEPT ![Writer] = [s \in Slots |-> "nil"]]
      /\ execed' = [execed EXCEPT ![Writer] = <<>>]
      /\ store' = store /\ late' = late
      /\ \A c \in Clients \ {Writer} : pc'[c] = pc[c] /\ result'[c] = result[c]
      /\ pc'[Writer] \in {"get", "exec"}
      /\ pc'[Writer] = "get" => result'[Writer] = "none"
  <2>1. PICK S : result \in [Clients -> S]
    BY DEF Results
  <2>2. CASE BeginGet(Writer)
    <3>1. /\ Begin(Writer) /\ pc' = [pc EXCEPT ![Writer] = "get"]
          /\ result' = [result EXCEPT ![Writer] = "none"]
      BY <2>2 DEF BeginGet, Goto
    <3> QED
      BY <1>1, <2>1, <3>1 DEF Begin, redisVars
  <2>3. CASE BeginTransaction(Writer)
    <3>1. /\ Begin(Writer) /\ pc' = [pc EXCEPT ![Writer] = "exec"]
          /\ result' = result
      BY <2>3 DEF BeginTransaction, Goto
    <3> QED
      BY <1>1, <2>1, <3>1 DEF Begin, redisVars
  <2> QED
    BY <1>2, <2>2, <2>3
<1>4. \A p, z \in Zones : Calm(queue[p][z]) => Calm(queue'[p][z])
  BY <1>1, <1>3, ForgetLines
<1>5. /\ \A y, z \in Zones : store[y] = store[z]
      /\ \A z \in Zones : Calm(Line(z))
  BY <1>1, <1>3 DEF Phase, ReadPcs, Resting
<1>6. \A z \in Zones : Calm(Line(z)')
  BY <1>1, <1>4, <1>5 DEF Line
<1>7. \A z \in Zones : Was(z)' = store[z]
  BY <1>1, <1>3 DEF Was
<1>8. OthersRead'
  BY <1>1, <1>3, <1>4, OthersKept
<1>9. cmd'[Writer].ttl = FALSE
  <2>1. CASE BeginGet(Writer)
    BY <1>1, <2>1 DEF BeginGet, Lasting
  <2>2. CASE BeginTransaction(Writer)
    <3>1. PICK s \in Sets["none"] : cmd' = [cmd EXCEPT ![Writer] = s]
      BY <2>2 DEF BeginTransaction
    <3>2. s.ttl = FALSE
      BY <1>1, <3>1 DEF Undisturbed, EnvTyped
    <3> QED
      BY <1>1, <3>1, <3>2
  <2> QED
    BY <1>2, <2>1, <2>2
<1>10. Lasting'
  BY <1>1, <1>3, <1>5, <1>7, <1>9 DEF Lasting
<1>11. CASE BeginGet(Writer)
  <2>1. pc'[Writer] = "get"
    BY <1>1, <1>11 DEF BeginGet, Goto
  <2>2. Resting'
    BY <1>3, <1>5, <1>6, <2>1 DEF Resting
  <2>3. Phase'
    BY <2>1, <2>2 DEF Phase, ReadPcs, SetPcs
  <2> QED
    BY <1>8, <1>10, <2>3 DEF Agreement
<1>12. CASE BeginTransaction(Writer)
  <2>1. /\ pc'[Writer] = "exec"
        /\ \E order \in SetToSeqs(Zones) : todo' = [todo EXCEPT ![Writer] = order]
    BY <1>1, <1>12 DEF BeginTransaction, Goto
  <2>2. Left' = Zones
    BY <1>1, <2>1, OrderCovers DEF Left
  <2>3. Tried' = {}
    <3>1. execed'[Writer] = <<>>
      BY <1>1, <1>3
    <3> QED
      BY <3>1 DEF Tried, ToSet
  <2>4. \A z \in Zones : Untouched(z)'
    <3>1. \A z \in Zones : Reply(z)' = "nil"
      BY <1>1, <1>3 DEF Reply
    <3> QED
      BY <1>3, <1>6, <1>7, <3>1 DEF Untouched
  <2>5. Executing'
    BY <2>2, <2>3, <2>4 DEF Executing, Misread
  <2>6. Phase'
    BY <2>1, <2>5 DEF Phase, ReadPcs, SetPcs
  <2> QED
    BY <1>8, <1>10, <2>6 DEF Agreement
<1> QED
  BY <1>2, <1>11, <1>12

LEMMA WriterReads ==
    ASSUME Undisturbed, Inv, Agreement, Results, owner = "none", pc[Writer] \in ReadPcs,
           Dispatch(Writer)
    PROVE  Agreement'
<1>1. /\ Writer \in Clients /\ Home[Writer] \in Zones
      /\ pc \in [Clients -> Pcs] /\ QueueTyped /\ EnvTyped
      /\ Phase /\ Lasting /\ OthersRead
      /\ Resting
  BY Known DEF Agreement, OrderTyped, Phase
<1>2. GetHere(Writer) \/ GotHere(Writer)
  BY DEF Dispatch, ReadPcs, Copy, ExecGet, ExecSet, Commit, Check,
         StartRollback, Rollback, RolledBack, RollbackEnds, OwnReply,
         GetOwner, GotOwner, AskTtl, Fill, Filled
<1>3. UNCHANGED <<redisVars, cmd, before>>
  BY <1>2 DEF GetHere, GotHere, clientVars, histVars
<1>4. Lasting'
  BY <1>1, <1>3 DEF Lasting, redisVars, Was
<1>5. CASE GetHere(Writer)
  <2> DEFINE r == Request(Writer, "sub", "get", "", FALSE)
  <2>1. /\ Forward(Writer, Home[Writer], r, "nil", "gothere", "idle")
        /\ UNCHANGED <<redisVars, clientVars>>
    BY <1>5 DEF GetHere
  <2>2. IsGet(r)
    BY DEF Request, IsGet
  <2> HIDE DEF r
  <2>3. /\ queue' = queue \/ Pushed(Home[Writer], Home[Writer], r)
        /\ \E next \in {"gothere", "idle"} : pc' = [pc EXCEPT ![Writer] = next]
    BY <2>1 DEF Forward, Pushed, Goto
  <2>4. \A w, y \in Zones : Calm(queue[w][y]) => Calm(queue'[w][y])
    <3>1. CASE queue' = queue
      BY <3>1
    <3>2. CASE Pushed(Home[Writer], Home[Writer], r)
      BY <1>1, <2>2, <3>2, PushLines DEF LinesKept, SameWrites
    <3> QED
      BY <2>3, <3>1, <3>2
  <2>5. /\ result' = result /\ pc'[Writer] \in {"gothere", "idle"}
        /\ \A c \in Clients \ {Writer} : pc'[c] = pc[c]
        /\ store' = store
    BY <1>1, <2>1, <2>3 DEF clientVars, redisVars
  <2>6. OthersRead'
    BY <1>1, <2>4, <2>5, OthersKept
  <2>7. Resting'
    <3>1. result[Writer] = "none"
      BY <1>1, <1>5 DEF GetHere, Resting
    <3> QED
      BY <1>1, <2>4, <2>5, <3>1 DEF Resting, Line
  <2>8. Phase'
    BY <2>5, <2>7 DEF Phase, ReadPcs, SetPcs
  <2> QED
    BY <1>4, <2>6, <2>8 DEF Agreement
<1>6. CASE GotHere(Writer)
  <2>1. /\ UNCHANGED <<store, queue>>
        /\ pc' = [pc EXCEPT ![Writer] = "idle"]
        /\ \E x : /\ result' = [result EXCEPT ![Writer] = x]
                  /\ x = "error" \/ x = ans[Writer]["sub"]
    BY <1>6 DEF GotHere, Finish, Goto, redisVars
  <2>2. ans[Writer]["sub"] \notin {"ok", "rolledback"}
    BY <1>1, <1>6, GotIs DEF GotHere
  <2>3. \A c \in Clients \ {Writer} :
           pc'[c] = pc[c] /\ result'[c] = result[c]
    BY <1>1, <2>1
  <2>4. OthersRead'
    BY <1>1, <2>1, <2>3, OthersKept
  <2>5. pc'[Writer] = "idle" /\ result'[Writer] \notin {"ok", "rolledback"}
    <3>1. PICK S : result \in [Clients -> S]
      BY DEF Results
    <3>2. PICK x : /\ result' = [result EXCEPT ![Writer] = x]
                   /\ x \notin {"ok", "rolledback"}
      BY <2>1, <2>2
    <3> QED
      BY <1>1, <2>1, <3>1, <3>2
  <2>6. Resting'
    BY <1>1, <2>1, <2>5 DEF Resting, Line
  <2>7. Phase'
    BY <2>5, <2>6 DEF Phase, ReadPcs, SetPcs
  <2> QED
    BY <1>4, <2>4, <2>7 DEF Agreement
<1> QED
  BY <1>2, <1>5, <1>6

-----------------------------------------------------------------------------
(* The writer, when it SETs.                                               *)

(* The request of the writer is sent, dropped, or its push panics.         *)
LEMMA SendIs ==
    ASSUME Undisturbed, Inv, OneFault', NEW z \in Zones, NEW r, r.c = Writer,
           r.slot \in Slots, NEW next, NEW recovered,
           Forward(Writer, z, r, "nil", next, recovered)
    PROVE  /\ faults \subseteq faults'
           /\ \A s \in Slots : s # r.slot => ans'[Writer][s] = ans[Writer][s]
           /\ \/ /\ Pushed(Home[Writer], z, r) /\ ans'[Writer][r.slot] = "waiting"
                 /\ pc'[Writer] = next /\ faults' = faults
              \/ /\ queue' = queue /\ ans'[Writer][r.slot] = "nil"
                 /\ pc'[Writer] = next /\ ~ Failure /\ Failure'
              \/ /\ queue' = queue /\ ans'[Writer][r.slot] = "stuck"
                 /\ pc'[Writer] = recovered /\ ~ Failure /\ Failure'
<1>1. /\ pc \in [Clients -> Pcs] /\ ans \in [Clients -> [Slots -> Replied]]
      /\ Writer \in Clients /\ r.slot # "copy"
  BY Known DEF OrderTyped, AnsTyped, Slots
<1>2. \A f : Fault(f) => ~ Failure /\ Failure' /\ faults \subseteq faults'
  BY FaultBreaks DEF Fault
<1>3. CASE /\ queue' = [queue EXCEPT ![Home[Writer]][z] = Append(@, r)]
           /\ ans' = [ans EXCEPT ![Writer][r.slot] = "waiting"]
           /\ pc' = [pc EXCEPT ![Writer] = next] /\ faults' = faults
  BY <1>1, <1>3 DEF Pushed
<1>4. CASE /\ Fault("refuse") /\ queue' = queue
           /\ ans' = [ans EXCEPT ![Writer][r.slot] = "nil"]
           /\ pc' = [pc EXCEPT ![Writer] = next]
  BY <1>1, <1>2, <1>4
<1>5. CASE /\ Fault("panic") /\ queue' = queue
           /\ ans' = [ans EXCEPT ![Writer][r.slot] = "stuck"]
           /\ pc' = [pc EXCEPT ![Writer] = recovered]
  BY <1>1, <1>2, <1>5
<1> QED
  BY <1>1, <1>3, <1>4, <1>5 DEF Forward, Goto

LEMMA ExecGetPhase ==
    ASSUME Undisturbed, Inv, Phase, OneFault', ExecGet(Writer)
    PROVE  Phase'
<1> DEFINE r == Request(Writer, "sub", "get", "", FALSE)
<1>1. /\ pc[Writer] = "exec" /\ todo[Writer] # <<>> /\ Executing
      /\ Forward(Writer, This, r, "nil", "execget", "failed")
      /\ UNCHANGED <<redisVars, clientVars>>
      /\ Writer \in Clients /\ QueueTyped /\ This \in Zones
      /\ Left \cap Tried = {}
      /\ "sub" \in Slots /\ "sub" \notin Zones /\ Zones \subseteq Slots
      /\ Home[Writer] \in Zones
  BY Known, Loops DEF ExecGet, Phase, This, Slots
<1>2. r.c = Writer /\ r.slot = "sub" /\ IsGet(r) /\ r \in Sent
  BY <1>1 DEF Request, IsGet, Sent, Allowed
<1> HIDE DEF r
<1>3. /\ faults \subseteq faults'
      /\ \A y \in Zones : ans'[Writer][y] = ans[Writer][y]
      /\ \/ /\ Pushed(Home[Writer], This, r) /\ SubReply' = "waiting"
            /\ pc'[Writer] = "execget" /\ faults' = faults
         \/ /\ queue' = queue /\ SubReply' = "nil"
            /\ pc'[Writer] = "execget" /\ ~ Failure /\ Failure'
         \/ /\ queue' = queue
            /\ pc'[Writer] = "failed" /\ ~ Failure /\ Failure'
  BY <1>1, <1>2, SendIs DEF SubReply
<1>4. LinesKept
  <2>1. CASE queue' = queue
    BY <2>1, SameLine DEF LinesKept
  <2>2. CASE Pushed(Home[Writer], This, r)
    BY <1>1, <1>2, <2>2, PushLines
  <2> QED
    BY <1>3, <2>1, <2>2
<1>5. /\ before' = before /\ cmd' = cmd /\ old' = old /\ store' = store
      /\ Tried' = Tried /\ Left' = Left /\ This' = This
  BY <1>1 DEF clientVars, histVars, redisVars, Tried, Left, This
<1>6. \A y \in Zones : ZoneKept(y)
  BY <1>1, <1>3, <1>4, <1>5 DEF ZoneKept, LinesKept
<1>7. /\ (Misread' <=> Misread) /\ (NoneBroken' <=> NoneBroken)
      /\ ~ Failure => ~ Misread /\ NoneBroken
  BY <1>1, <1>5, <1>6, ReadsKept, Unbroken
<1>8. \A y \in Zones : /\ Untouched(y) => Untouched(y)'
                       /\ SentOut(y) => SentOut(y)'
  BY <1>6, ZoneKeeps
<1>9. Failure => Failure'
  BY <1>1, <1>6, ZoneKeeps
<1>10. Executing'
  BY <1>1, <1>5, <1>7, <1>8, <1>9 DEF Executing
<1>11. \A p, z \in Zones, i \in Nat : ~ Heard(Writer, p, z, i)
  BY <1>1, Known DEF OneCall, WaitPcs, GetPcs
<1>12. \A p, z \in Zones, i \in Nat :
          Heard(Writer, p, z, i)' => p = Home[Writer] /\ z = This
  <2>1. CASE queue' = queue
    BY <1>11, <2>1 DEF Heard
  <2>2. CASE Pushed(Home[Writer], This, r)
    BY <1>1, <1>2, <1>11, <2>2, PushHeard
  <2> QED
    BY <1>3, <2>1, <2>2
<1>13. CASE pc'[Writer] = "execget"
  <2>1. Reading'
    BY <1>3, <1>5, <1>7, <1>12, <1>13 DEF Reading
  <2> QED
    BY <1>10, <1>13, <2>1 DEF Phase, ReadPcs, SetPcs
<1>14. CASE pc'[Writer] = "failed"
  <2>1. Failure' /\ ~ Misread'
    BY <1>3, <1>7, <1>14
  <2>2. Failing'
    BY <1>1, <1>5, <1>8, <2>1 DEF Failing, Executing
  <2> QED
    BY <1>14, <2>2 DEF Phase, ReadPcs, SetPcs
<1> QED
  BY <1>3, <1>13, <1>14

LEMMA ExecSetPhase ==
    ASSUME Undisturbed, Inv, Phase, OneFault', ExecSet(Writer),
           NEW z \in Zones, z = This
    PROVE  Phase'
<1> DEFINE r == Request(Writer, z, "set", cmd[Writer].v, cmd[Writer].ttl)
<1>1. /\ pc[Writer] = "execget" /\ Executing /\ Reading
      /\ SubReply # "waiting" /\ SubReply # "stuck"
      /\ UNCHANGED <<redisVars, cmd, before>>
      /\ Writer \in Clients /\ QueueTyped /\ z \in Zones /\ z \in Left
      /\ Left \cap Tried = {} /\ todo[Writer] # <<>>
      /\ "sub" \in Slots /\ "sub" \notin Zones /\ Zones \subseteq Slots
      /\ Home[Writer] \in Zones /\ pc \in [Clients -> Pcs]
      /\ Tried \subseteq Zones /\ Left \subseteq Zones
  BY Known, Loops DEF ExecSet, Phase, Slots, Answered, SubReply, histVars,
                      OrderTyped
<1>2. Untouched(z)
  BY <1>1 DEF Executing
<1>3. SubReply # Was(z).v => Failure /\ ~ Misread /\ NoneBroken
  BY <1>1 DEF Reading
<1>4. \A y \in Zones : (y \in Tried /\ SentOut(y)) \/ (y \in Left /\ Untouched(y))
  BY <1>1 DEF Executing
<1>5. CASE SubReply = "nil"
  <2>1. Was(z).v # "nil"
    <3>1. Was(z) \in Kept
      BY <1>1, Known DEF Was, StoreTyped
    <3>2. Was(z).v \in Allowed
      BY <3>1 DEF Kept
    <3> QED
      BY <3>2, NoMarker
  <2>2. /\ pc'[Writer] = "failed"
        /\ UNCHANGED <<queue, ans, faults, old, todo, execed>>
    BY <1>1, <1>5 DEF ExecSet, Goto, SubReply
  <2>3. /\ Tried' = Tried /\ \A y \in Zones : ZoneKept(y)
    BY <1>1, <2>2, SameLine DEF Tried, ZoneKept, redisVars
  <2>4. Failure' /\ ~ Misread'
    BY <1>3, <1>5, <2>1, <2>2, <2>3, ReadsKept DEF Failure
  <2>5. \A y \in Zones : /\ Untouched(y) => Untouched(y)'
                         /\ SentOut(y) => SentOut(y)'
    BY <2>3, ZoneKeeps
  <2>6. Failing'
    BY <1>1, <1>4, <2>3, <2>4, <2>5 DEF Failing
  <2> QED
    BY <2>2, <2>6 DEF Phase, ReadPcs, SetPcs
<1>6. CASE SubReply # "nil"
  <2>1. /\ old' = [old EXCEPT ![Writer][z] = SubReply]
        /\ Forward(Writer, z, r, "nil", "exec", "failed")
        /\ todo' = [todo EXCEPT ![Writer] = Tail(@)]
        /\ pc'[Writer] = "exec" =>
              execed' = [execed EXCEPT ![Writer] = Append(@, z)]
        /\ pc'[Writer] # "exec" => execed' = execed
    BY <1>6 DEF ExecSet, This, SubReply
  <2>2. /\ r.c = Writer /\ r.slot = z /\ r.op = "set" /\ r = SetOf(z)
        /\ r = SetOf(z)'
    BY <1>1 DEF Request, SetOf
  <2> HIDE DEF r
  <2>3. /\ faults \subseteq faults'
        /\ \A y \in Zones \ {z} : ans'[Writer][y] = ans[Writer][y]
        /\ \/ /\ Pushed(Home[Writer], z, r) /\ ans'[Writer][z] = "waiting"
              /\ pc'[Writer] = "exec" /\ faults' = faults
           \/ /\ queue' = queue /\ ans'[Writer][z] = "nil"
              /\ pc'[Writer] = "exec" /\ ~ Failure /\ Failure'
           \/ /\ queue' = queue /\ ans'[Writer][z] = "stuck"
              /\ pc'[Writer] = "failed" /\ ~ Failure /\ Failure'
    BY <1>1, <2>1, <2>2, SendIs
  <2>4. \A y \in Zones : y # z => queue'[Home[Writer]][y] = queue[Home[Writer]][y]
    BY <1>1, <2>3, PushLines
  <2>5. /\ old'[Writer][z] = SubReply
        /\ \A y \in Zones \ {z} : old'[Writer][y] = old[Writer][y]
    BY <1>1, <2>1, Known DEF DataTyped
  <2>6. \A y \in Zones \ {z} : ZoneKept(y)
    <3>1. before' = before /\ cmd' = cmd /\ store' = store
      BY <1>1 DEF redisVars
    <3> QED
      BY <2>3, <2>4, <2>5, <3>1, SameLine DEF ZoneKept
  <2>7. \A y \in Zones \ {z} : /\ Untouched(y) => Untouched(y)'
                               /\ SentOut(y) => SentOut(y)'
                               /\ Was(y)' = Was(y) /\ Reply(y)' = Reply(y)
    BY <2>6, ZoneKeeps DEF ZoneKept, Was, Reply
  <2>8. /\ store'[z] = store[z] /\ Was(z)' = Was(z) /\ store[z] = Was(z)
        /\ Calm(Line(z)) /\ cmd'[Writer] = cmd[Writer]
    BY <1>1, <1>2 DEF redisVars, Was, Untouched
  <2>9. Left' = Left \ {z}
    <3>1. /\ todo \in [Clients -> Seq(Zones)] /\ todo[Writer] \in Seq(Zones)
          /\ Unrepeated(todo[Writer])
      BY <1>1, Known DEF OrderTyped, Unrepeated
    <3>2. todo'[Writer] = Tail(todo[Writer])
      BY <1>1, <2>1, <3>1
    <3> QED
      BY <1>1, <3>1, <3>2, NextOf DEF Left, This
  <2>10. z \notin Tried /\ z \in Zones
    BY <1>1
  <2>11. CASE pc'[Writer] = "exec"
    <3>1. Tried' = Tried \cup {z}
      <4>1. execed \in [Clients -> Seq(Zones)] /\ execed[Writer] \in Seq(Zones)
        BY <1>1, Known DEF OrderTyped
      <4>2. execed'[Writer] = Append(execed[Writer], z)
        BY <1>1, <2>1, <2>11, <4>1
      <4> QED
        BY <2>10, <4>1, <4>2, LastOf DEF Tried
    <3>2. CASE Pushed(Home[Writer], z, r) /\ ans'[Writer][z] = "waiting"
               /\ faults' = faults
      <4>1. OneWrite(Line(z)', r)
        <5>1. Line(z)' = Append(Line(z), r) /\ Line(z) \in Seq(Sent)
          BY <1>1, <2>10, <3>2, PushLines DEF Line, QueueTyped
        <5> QED
          BY <2>8, <5>1, PushWrite
      <4>2. Pending(z)'
        BY <2>2, <2>8, <3>2, <4>1 DEF Pending, Reply
      <4>3. \A y \in Zones : (y \in Left' /\ Untouched(y)') \/
                             (y \in Tried' /\ SentOut(y)')
        BY <1>4, <2>7, <2>9, <3>1, <4>2 DEF SentOut
      <4>4. Misread' => Failure' /\ NoneBroken'
        <5>1. Misread' => Failure /\ NoneBroken
          <6>1. Misread => Failure /\ NoneBroken
            BY <1>1 DEF Executing
          <6>2. Misread' => Misread \/ SubReply # Was(z).v
            BY <1>1, <2>5, <2>7, <2>8, <2>10, <3>1 DEF Misread
          <6> QED
            BY <1>3, <6>1, <6>2
        <5>2. NoneBroken => NoneBroken'
          BY <1>1, <2>7, <3>1, <3>2 DEF NoneBroken, Reply
        <5> QED
          BY <3>2, <5>1, <5>2 DEF Failure
      <4>5. Executing'
        BY <4>3, <4>4 DEF Executing
      <4> QED
        BY <2>11, <4>5 DEF Phase, ReadPcs, SetPcs
    <3>3. CASE queue' = queue /\ ans'[Writer][z] = "nil" /\ ~ Failure /\ Failure'
      <4>1. Broken(z)'
        BY <2>8, <3>3 DEF Broken, Reply, Line
      <4>2. \A y \in Zones : (y \in Left' /\ Untouched(y)') \/
                             (y \in Tried' /\ SentOut(y)')
        BY <1>4, <2>7, <2>9, <3>1, <4>1 DEF SentOut
      <4>3. ~ Misread /\ SubReply = Was(z).v
        BY <1>1, <1>3, <3>3, Unbroken
      <4>4. ~ Misread'
        BY <1>1, <2>5, <2>7, <2>8, <2>10, <3>1, <4>3 DEF Misread
      <4>5. Executing'
        BY <4>2, <4>4 DEF Executing
      <4> QED
        BY <2>11, <4>5 DEF Phase, ReadPcs, SetPcs
    <3> QED
      BY <2>3, <2>11, <3>2, <3>3
  <2>12. CASE pc'[Writer] = "failed"
    <3>1. /\ queue' = queue /\ ans'[Writer][z] = "stuck"
          /\ ~ Failure /\ Failure'
      BY <2>3, <2>12
    <3>2. Tried' = Tried
      BY <2>1, <2>12 DEF Tried
    <3>3. Untouched(z)'
      BY <2>8, <3>1 DEF Untouched, Reply, Line
    <3>4. ~ Misread'
      <4>1. ~ Misread
        BY <1>1, <3>1, Unbroken
      <4> QED
        BY <1>1, <2>5, <2>7, <2>10, <3>2, <4>1 DEF Misread
    <3>5. Failing'
      BY <1>4, <2>7, <2>10, <3>1, <3>2, <3>3, <3>4, <1>1 DEF Failing
    <3> QED
      BY <2>12, <3>5 DEF Phase, ReadPcs, SetPcs
  <2> QED
    BY <2>3, <2>11, <2>12
<1> QED
  BY <1>5, <1>6

(* The writer looks at replies, and goes on.                               *)
Looks ==
    UNCHANGED <<redisVars, queue, ans, faults, cmd, execed, old, before>>

LEMMA LooksKeep ==
    ASSUME Undisturbed, Inv, Looks
    PROVE  /\ Tried' = Tried /\ Tried \subseteq Zones /\ Left \subseteq Zones
           /\ (Misread' <=> Misread) /\ (NoneBroken' <=> NoneBroken)
           /\ (Failure' <=> Failure) /\ SubReply' = SubReply
           /\ \A z \in Zones :
                 /\ Untouched(z) => Untouched(z)'
                 /\ SentOut(z) => SentOut(z)'
                 /\ Reply(z)' = Reply(z) /\ Was(z)' = Was(z)
                 /\ store'[z] = store[z] /\ cmd'[Writer] = cmd[Writer]
                 /\ Line(z)' = Line(z)
<1>1. \A z \in Zones : ZoneKept(z)
  BY SameLine DEF Looks, ZoneKept, redisVars
<1>2. Tried' = Tried /\ Tried \subseteq Zones /\ Left \subseteq Zones
  BY Loops DEF Tried, Looks
<1>3. (Misread' <=> Misread) /\ (NoneBroken' <=> NoneBroken)
  BY <1>1, <1>2, ReadsKept
<1>4. (Failure' <=> Failure) /\ SubReply' = SubReply
  BY DEF Failure, Looks, SubReply
<1>5. \A z \in Zones : /\ Untouched(z) => Untouched(z)'
                       /\ SentOut(z) => SentOut(z)'
  BY <1>1, ZoneKeeps
<1>6. \A z \in Zones : /\ Reply(z)' = Reply(z) /\ Was(z)' = Was(z)
                       /\ store'[z] = store[z] /\ cmd'[Writer] = cmd[Writer]
                       /\ Line(z)' = Line(z)
  BY DEF Looks, Reply, Was, Line, redisVars
<1> QED
  BY <1>2, <1>3, <1>4, <1>5, <1>6

LEMMA LeftNext ==
    ASSUME Undisturbed, Inv, todo[Writer] # <<>>,
           todo' = [todo EXCEPT ![Writer] = Tail(@)]
    PROVE  Left' = Left \ {This}
<1>1. /\ todo \in [Clients -> Seq(Zones)] /\ todo[Writer] \in Seq(Zones)
      /\ Unrepeated(todo[Writer]) /\ Writer \in Clients
  BY Known DEF OrderTyped, Unrepeated
<1>2. todo'[Writer] = Tail(todo[Writer])
  BY <1>1
<1> QED
  BY <1>1, <1>2, NextOf DEF Left, This

LEMMA LeftAgain ==
    ASSUME Undisturbed, Inv, todo' = [todo EXCEPT ![Writer] = execed[Writer]]
    PROVE  Left' = Tried
<1>1. todo \in [Clients -> Seq(Zones)] /\ Writer \in Clients
  BY Known DEF OrderTyped
<1>2. todo'[Writer] = execed[Writer]
  BY <1>1
<1> QED
  BY <1>2 DEF Left, Tried

LEMMA CommitPhase ==
    ASSUME Undisturbed, Inv, Phase, Commit(Writer)
    PROVE  Phase'
<1>1. /\ Looks /\ pc[Writer] = "exec" /\ todo[Writer] = <<>>
      /\ todo' = [todo EXCEPT ![Writer] = execed[Writer]]
      /\ pc' = [pc EXCEPT ![Writer] = "check"]
  BY DEF Commit, Looks, Goto, histVars
<1>2. pc'[Writer] = "check"
  BY <1>1, Known DEF OrderTyped
<1>3. Left = {} /\ Left' = Tried /\ Tried' = Tried /\ Executing
  BY <1>1, Loops, LeftAgain, LooksKeep DEF Phase
<1>4. Tried = Zones /\ \A z \in Zones : SentOut(z)
  BY <1>3, Loops DEF Executing
<1>5. Checking'
  BY <1>1, <1>3, <1>4, LooksKeep DEF Checking, Executing
<1> QED
  BY <1>2, <1>5 DEF Phase, ReadPcs, SetPcs

LEMMA CheckPhase ==
    ASSUME Undisturbed, Inv, Phase, Results, Check(Writer)
    PROVE  Phase'
<1>1. /\ Looks /\ pc[Writer] = "check" /\ Checking
      /\ Writer \in Clients /\ pc \in [Clients -> Pcs]
  BY Known DEF Check, Looks, histVars, Phase, OrderTyped
<1>2. CASE todo[Writer] = <<>>
  <2>1. pc'[Writer] = "idle" /\ Left = {}
    BY <1>1, <1>2, Loops DEF Check, Finish, Goto
  <2>2. \A z \in Zones : store[z] = cmd[Writer] /\ Calm(Line(z))
    <3>1. \A z \in Zones : SentOut(z) /\ Reply(z) = "OK"
      BY <1>1, <2>1 DEF Checking
    <3> QED
      BY <3>1 DEF SentOut, Pending, Done, Broken
  <2>3. result'[Writer] = "ok"
    <3>1. result' = [result EXCEPT ![Writer] = "ok"]
      BY <1>2 DEF Check, Finish
    <3>2. PICK S : result \in [Clients -> S]
      BY DEF Results
    <3> QED
      BY <1>1, <3>1, <3>2
  <2>4. Resting'
    BY <1>1, <2>1, <2>2, <2>3, LooksKeep DEF Resting
  <2> QED
    BY <2>1, <2>4 DEF Phase, ReadPcs, SetPcs
<1>3. CASE todo[Writer] # <<>> /\ CheckedOk(Writer, This)
  <2>1. /\ todo' = [todo EXCEPT ![Writer] = Tail(@)] /\ pc' = pc
        /\ Reply(This) = "OK"
    BY <1>3 DEF Check, This, CheckedOk, Reply
  <2>2. Left' = Left \ {This} /\ This \in Zones
    BY <1>3, <2>1, LeftNext, Loops
  <2>3. \A z \in Zones \ Left' : Reply(z)' = "OK"
    BY <1>1, <2>1, <2>2, LooksKeep DEF Checking
  <2>4. Checking'
    BY <1>1, <2>3, LooksKeep DEF Checking
  <2> QED
    BY <1>1, <2>1, <2>4 DEF Phase, ReadPcs, SetPcs
<1>4. CASE todo[Writer] # <<>> /\ ~ CheckedOk(Writer, This)
  <2>1. /\ pc' = [pc EXCEPT ![Writer] = "failed"] /\ This \in Zones
        /\ Reply(This) \notin {"OK", "waiting"}
    BY <1>4, Loops DEF Check, This, CheckedOk, Reply, Answered, Goto
  <2>2. SentOut(This) /\ This \in Tried
    BY <1>1, <2>1 DEF Checking
  <2>3. Failure
    BY <2>1, <2>2 DEF SentOut, Pending, Done, Broken
  <2>4. ~ Misread
    BY <1>1, <2>1, <2>2 DEF Checking, NoneBroken
  <2>5. Failing'
    BY <1>1, <2>3, <2>4, LooksKeep DEF Checking, Failing
  <2>6. pc'[Writer] = "failed"
    BY <1>1, <2>1
  <2> QED
    BY <2>5, <2>6 DEF Phase, ReadPcs, SetPcs
<1> QED
  BY <1>2, <1>3, <1>4

LEMMA StartRollbackPhase ==
    ASSUME Undisturbed, Inv, Phase, StartRollback(Writer)
    PROVE  Phase'
<1>1. /\ Looks /\ pc[Writer] = "failed" /\ Failing
      /\ todo' = [todo EXCEPT ![Writer] = execed[Writer]]
      /\ pc' = [pc EXCEPT ![Writer] = "rollback"]
  BY DEF StartRollback, Looks, Goto, histVars, Phase
<1>2. pc'[Writer] = "rollback"
  BY <1>1, Known DEF OrderTyped
<1>3. Left' = Tried /\ Tried' = Tried /\ Tried \subseteq Zones
  BY <1>1, LeftAgain, LooksKeep
<1>4. RollingBack'
  BY <1>1, <1>3, LooksKeep DEF RollingBack, Failing
<1>5. \A z \in Left' : SentOut(z)'
  BY <1>1, <1>3, LooksKeep DEF Failing
<1> QED
  BY <1>2, <1>4, <1>5 DEF Phase, ReadPcs, SetPcs

LEMMA RolledBackPhase ==
    ASSUME Undisturbed, Inv, Phase, RolledBack(Writer)
    PROVE  Phase'
<1>1. /\ Looks /\ pc[Writer] = "rolling" /\ RollingBack
      /\ SubReply # "waiting" /\ Untouched(This)
      /\ \A z \in Left \ {This} : SentOut(z)
      /\ todo' = [todo EXCEPT ![Writer] = Tail(@)]
      /\ pc' = [pc EXCEPT ![Writer] = "rollback"]
  BY DEF RolledBack, Looks, Goto, histVars, Phase, Answered, SubReply
<1>2. pc'[Writer] = "rollback"
  BY <1>1, Known DEF OrderTyped
<1>3. Left' = Left \ {This} /\ Tried' = Tried /\ Left \subseteq Zones
  BY <1>1, Loops, LeftNext, LooksKeep
<1>4. RollingBack'
  <2>1. \A z \in Zones \ Left' : Untouched(z)
    BY <1>1, <1>3 DEF RollingBack
  <2> QED
    BY <1>1, <1>3, <2>1, LooksKeep DEF RollingBack
<1>5. \A z \in Left' : SentOut(z)'
  BY <1>1, <1>3, LooksKeep
<1> QED
  BY <1>2, <1>4, <1>5 DEF Phase, ReadPcs, SetPcs

LEMMA RollbackEndsPhase ==
    ASSUME Undisturbed, Inv, Phase, Lasting, Results, RollbackEnds(Writer)
    PROVE  Phase'
<1>1. /\ Looks /\ pc[Writer] = "rollback" /\ RollingBack /\ Left = {}
      /\ Writer \in Clients /\ pc \in [Clients -> Pcs] /\ Home[Writer] \in Zones
  BY Known, Loops DEF RollbackEnds, Looks, histVars, Phase, OrderTyped
<1>2. \A z \in Zones : Untouched(z)
  BY <1>1 DEF RollingBack
<1>3. ans[Writer][Home[Writer]] # "waiting"
  BY <1>1, <1>2 DEF Untouched, Reply
<1>4. Resting' /\ pc'[Writer] = "idle"
  <2>1. /\ pc'[Writer] = "idle"
        /\ result' = [result EXCEPT ![Writer] = "rolledback"]
    BY <1>1, <1>3 DEF RollbackEnds, Finish, Goto
  <2>2. result'[Writer] = "rolledback"
    <3>1. PICK S : result \in [Clients -> S]
      BY DEF Results
    <3> QED
      BY <1>1, <2>1, <3>1
  <2>3. \A z \in Zones : store[z] = Was(z) /\ Calm(Line(z))
    BY <1>2 DEF Untouched
  <2>4. Resting'
    BY <1>1, <2>1, <2>2, <2>3, LooksKeep DEF Resting, Lasting
  <2> QED
    BY <2>1, <2>4
<1> QED
  BY <1>4 DEF Phase, ReadPcs, SetPcs

LEMMA RollbackPhase ==
    ASSUME Undisturbed, Inv, Phase, OneFault', Rollback(Writer),
           NEW z \in Zones, z = This
    PROVE  Phase'
<1> DEFINE r == Undo(Writer, z)
<1>1. /\ pc[Writer] = "rollback" /\ RollingBack /\ SentOut(z)
      /\ Forward(Writer, z, r, "nil", "rolling", "reply")
      /\ UNCHANGED <<redisVars, clientVars>>
      /\ Writer \in Clients /\ QueueTyped /\ z \in Left
      /\ \A y \in Left : SentOut(y)
      /\ "sub" \in Slots /\ "sub" \notin Zones /\ Zones \subseteq Slots
      /\ Home[Writer] \in Zones
  BY Known, Loops DEF Rollback, Phase, This, Slots
<1>2. r.c = Writer /\ r.slot = "sub"
  BY DEF Undo, Request
<1> HIDE DEF r
<1>3. /\ \A y \in Zones : ans'[Writer][y] = ans[Writer][y]
      /\ Pushed(Home[Writer], z, r) /\ SubReply' = "waiting"
      /\ pc'[Writer] = "rolling" /\ faults' = faults
  BY <1>1, <1>2, SendIs DEF SubReply, RollingBack
<1>4. /\ queue'[Home[Writer]][z] = Append(queue[Home[Writer]][z], r)
      /\ \A y \in Zones : y # z => queue'[Home[Writer]][y] = queue[Home[Writer]][y]
  BY <1>1, <1>3, PushLines
<1>5. /\ before' = before /\ cmd' = cmd /\ old' = old /\ store' = store
      /\ Tried' = Tried /\ Left' = Left /\ This' = This
  BY <1>1 DEF clientVars, histVars, redisVars, Tried, Left, This
<1>6. \A y \in Zones \ {z} : ZoneKept(y)
  BY <1>1, <1>3, <1>4, <1>5, SameLine DEF ZoneKept
<1>7. \A y \in Zones \ {z} : /\ Untouched(y) => Untouched(y)'
                             /\ SentOut(y) => SentOut(y)'
  BY <1>6, ZoneKeeps
<1>8. /\ SetOf(z)' = SetOf(z) /\ Undo(Writer, z)' = r
      /\ Reply(z)' = Reply(z) /\ Line(z)' = Append(Line(z), r)
  BY <1>3, <1>4, <1>5 DEF SetOf, Undo, Reply, Line, r
<1>9. Undoing(z)'
  <2>1. Line(z) \in Seq(Sent)
    BY <1>1 DEF QueueTyped, Line
  <2>2. CASE Pending(z)
    <3>1. TwoWrites(Append(Line(z), r), SetOf(z), r)
      BY <2>1, <2>2, PushWrite DEF Pending
    <3> QED
      BY <1>8, <3>1 DEF Undoing
  <2>3. CASE Done(z) \/ Broken(z)
    <3>1. OneWrite(Append(Line(z), r), r) /\ Reply(z) # "waiting"
      BY <2>1, <2>3, PushWrite DEF Done, Broken
    <3> QED
      BY <1>8, <3>1 DEF Undoing
  <2> QED
    BY <1>1, <2>2, <2>3 DEF SentOut
<1>10. RollingBack'
  <2>1. Misread' <=> Misread
    BY <1>5 DEF Misread, Was
  <2> QED
    BY <1>1, <1>3, <1>5, <1>7, <2>1 DEF RollingBack, Failure
<1>11. \A y \in Left' \ {This'} : SentOut(y)'
  <2>1. Left \subseteq Zones
    BY Loops
  <2> QED
    BY <1>1, <1>5, <1>7, <2>1
<1>12. This' = z
  BY <1>5
<1>13. Undoing(This)'
  BY <1>9, <1>12
<1> QED
  BY <1>3, <1>10, <1>11, <1>13 DEF Phase, ReadPcs, SetPcs

(* The writer's steps between the begin and the end of a transaction.      *)
LEMMA WriterSets ==
    ASSUME Undisturbed, Inv, Agreement, Results, owner = "none", OneFault',
           pc[Writer] \in SetPcs, Dispatch(Writer)
    PROVE  Agreement'
<1>1. /\ Writer \in Clients /\ Home[Writer] \in Zones
      /\ pc \in [Clients -> Pcs] /\ QueueTyped /\ Typed
      /\ Phase /\ Lasting /\ OthersRead
  BY Known DEF Agreement, OrderTyped
<1>2. \/ ExecGet(Writer) \/ ExecSet(Writer) \/ Commit(Writer) \/ Check(Writer)
      \/ StartRollback(Writer) \/ Rollback(Writer) \/ RolledBack(Writer)
      \/ RollbackEnds(Writer)
  <2>1. ~ OwnReply(Writer)
    BY <1>1 DEF OwnReply, Phase
  <2> QED
    BY <2>1 DEF Dispatch, SetPcs, Copy, GetHere, GotHere, GetOwner, GotOwner,
                AskTtl, Fill, Filled
<1>3. UNCHANGED <<redisVars, cmd, before>>
  BY <1>2 DEF ExecGet, ExecSet, Commit, Check, StartRollback, Rollback,
              RolledBack, RollbackEnds, clientVars, histVars
<1>4. Lasting'
  BY <1>1, <1>3 DEF Lasting, redisVars, Was
<1>5. /\ \A c \in Clients \ {Writer} : pc'[c] = pc[c]
      /\ queue' = queue \/ \E z \in Zones : \E r : Pushed(Home[Writer], z, r)
  <2>1. Calls(Writer) \/ GoesOn(Writer)
    BY <1>1, DispatchCalls
  <2> QED
    BY <1>1, <2>1 DEF Calls, GoesOn, Forward, Goto, Pushed
<1>6. \A c \in Clients \ {Writer} : result'[c] = result[c]
  <2>1. \/ result' = result
        \/ \E x : result' = [result EXCEPT ![Writer] = x]
    BY <1>2 DEF ExecGet, ExecSet, Commit, Check, StartRollback, Rollback,
                RolledBack, RollbackEnds, clientVars, Finish
  <2>2. PICK S : result \in [Clients -> S]
    BY DEF Results
  <2> QED
    BY <2>1, <2>2
<1>7. \A p, z \in Zones : p # Home[Writer] => queue'[p][z] = queue[p][z]
  BY <1>1, <1>5, PushLines
<1>8. OthersRead'
  BY <1>1, <1>5, <1>6, <1>7, OthersKept
<1>9. Phase'
  <2>1. CASE ExecSet(Writer) \/ Rollback(Writer)
    <3>1. This \in Zones
      BY <2>1, Loops DEF ExecSet, Rollback
    <3> QED
      BY <1>1, <2>1, <3>1, ExecSetPhase, RollbackPhase
  <2> QED
    BY <1>1, <1>2, <2>1, ExecGetPhase, CommitPhase, CheckPhase,
       StartRollbackPhase, RolledBackPhase, RollbackEndsPhase
<1> QED
  BY <1>4, <1>8, <1>9 DEF Agreement

LEMMA NextAgreement ==
    ASSUME Undisturbed, Inv, Agreement, Results, owner = "none", OneFault',
           [Next]_vars
    PROVE  Agreement'
<1>1. CASE UNCHANGED vars
  <2>1. /\ UNCHANGED <<redisVars, queue, pc, ans, faults>>
        /\ UNCHANGED <<cmd, todo, execed, old, result, before>>
    BY <1>1 DEF vars, clientVars, histVars
  <2>2. LinesKept /\ HeardKept
    <3>1. LinesKept
      BY <2>1, SameLine DEF LinesKept
    <3>2. HeardKept
      BY <2>1 DEF HeardKept, Heard
    <3> QED
      BY <3>1, <3>2
  <2>3. \A c \in Clients \ {Writer} :
           pc'[c] \in ReadPcs /\ result'[c] \notin {"ok", "rolledback"}
    BY <2>1 DEF Agreement, OthersRead
  <2>4. ReadsOnly
    BY <2>1, <2>2, <2>3 DEF ReadsOnly, WriterKept
  <2> QED
    BY <2>4, ReadsAgree
<1>2. CASE \E z \in Zones : Redis(z)
  <2>1. PICK z \in Zones, p \in Zones : Answers(p, z)
    BY <1>2, RedisAnswers
  <2> QED
    BY <2>1, GetAnswered, WriteAnswered
<1>3. CASE \E c \in Clients \ {Writer} : Arrive(c) \/ Dispatch(c)
  BY <1>3, ReaderActs, ReadsAgree
<1>4. CASE Arrive(Writer) \/ Dispatch(Writer)
  <2>1. pc[Writer] \in ReadPcs \cup SetPcs
    BY DEF Agreement, Phase
  <2> QED
    BY <1>4, <2>1, WriterBegins, WriterReads, WriterSets
<1> QED
  BY <1>1, <1>2, <1>3, <1>4 DEF Next

-----------------------------------------------------------------------------
(* The theorems.                                                           *)

LEMMA NextResults ==
    ASSUME Results, [Next]_vars
    PROVE  Results'
<1>1. result' = result \/ \E c, x : result' = [result EXCEPT ![c] = x]
  <2>1. ASSUME NEW c \in Clients, Arrive(c)
        PROVE  result' = result \/ \E x : result' = [result EXCEPT ![c] = x]
    BY <2>1 DEF Arrive, BeginGet, BeginTransaction, BeginCopies, BeginRejected
  <2>2. ASSUME NEW c \in Clients, Dispatch(c)
        PROVE  result' = result \/ \E x : result' = [result EXCEPT ![c] = x]
    BY <2>2 DEF Dispatch, Copy, ExecGet, ExecSet, Commit, Check, StartRollback,
                Rollback, RolledBack, RollbackEnds, OwnReply, GetHere, GotHere,
                GetOwner, GotOwner, AskTtl, Fill, Filled, clientVars, Finish
  <2>3. ASSUME NEW z \in Zones, Redis(z)
        PROVE  result' = result
    BY <2>3 DEF Redis, Serve, Fail, ServeLate, Expire, clientVars
  <2>4. CASE UNCHANGED vars
    BY <2>4 DEF vars, clientVars
  <2> QED
    BY <2>1, <2>2, <2>3, <2>4 DEF Next
<1>2. PICK S : result \in [Clients -> S]
  BY DEF Results
<1>3. CASE result' = result
  BY <1>3 DEF Results
<1>4. ASSUME NEW c, NEW x, result' = [result EXCEPT ![c] = x]
      PROVE  Results'
  <2>1. result' \in [Clients -> S \cup {x}]
    BY <1>2, <1>4
  <2> QED
    BY <2>1 DEF Results
<1> QED
  BY <1>1, <1>3, <1>4

LEMMA NextOnlyShared ==
    ASSUME Undisturbed, Inv, Results, TrxOnlyShared, [Next]_vars
    PROVE  TrxOnlyShared'
<1>1. /\ owner' = owner /\ pc \in [Clients -> Pcs]
      /\ \E S : result \in [Clients -> S]
  BY Known, StepAllowed DEF OrderTyped, Results
<1> SUFFICES ASSUME owner # "none"
             PROVE  \A d \in Clients :
                       pc'[d] \notin SetPcs /\ result'[d] # "rolledback"
  BY <1>1 DEF TrxOnlyShared
<1>2. \A d \in Clients : pc[d] \notin SetPcs /\ result[d] # "rolledback"
  BY DEF TrxOnlyShared
<1>3. ASSUME NEW c \in Clients,
             pc' = pc \/ \E next : /\ pc' = [pc EXCEPT ![c] = next]
                                   /\ next \notin SetPcs,
             result' = result
             \/ \E x : result' = [result EXCEPT ![c] = x] /\ x # "rolledback"
      PROVE  \A d \in Clients :
                pc'[d] \notin SetPcs /\ result'[d] # "rolledback"
  BY <1>1, <1>2, <1>3
<1>4. ASSUME NEW c \in Clients, Arrive(c)
      PROVE  \A d \in Clients :
                pc'[d] \notin SetPcs /\ result'[d] # "rolledback"
  <2>1. pc' = pc \/ \E next : /\ pc' = [pc EXCEPT ![c] = next]
                              /\ next \notin SetPcs
    BY <1>4 DEF Arrive, BeginGet, BeginTransaction, BeginCopies, BeginRejected,
                Goto, SetPcs
  <2>2. result' = result
        \/ \E x : result' = [result EXCEPT ![c] = x] /\ x # "rolledback"
    BY <1>4 DEF Arrive, BeginGet, BeginTransaction, BeginCopies, BeginRejected
  <2> QED
    BY <1>3, <2>1, <2>2
<1>5. ASSUME NEW c \in Clients, Dispatch(c)
      PROVE  \A d \in Clients :
                pc'[d] \notin SetPcs /\ result'[d] # "rolledback"
  <2>1. \/ Copy(c) \/ GetHere(c) \/ GotHere(c) \/ GetOwner(c) \/ GotOwner(c)
        \/ AskTtl(c) \/ Fill(c) \/ Filled(c)
    BY <1>2, <1>5 DEF Dispatch, SetPcs, ExecGet, ExecSet, Commit, Check,
                      StartRollback, Rollback, RolledBack, RollbackEnds, OwnReply
  <2>2. pc' = pc \/ \E next : /\ pc' = [pc EXCEPT ![c] = next]
                              /\ next \notin SetPcs
    BY <2>1 DEF Copy, GetHere, GotHere, GetOwner, GotOwner, AskTtl, Fill, Filled,
                Forward, Finish, Goto, SetPcs
  <2>3. val[c] # "rolledback"
    BY Known, NoMarker DEF DataTyped
  <2>4. result' = result
        \/ \E x : result' = [result EXCEPT ![c] = x] /\ x # "rolledback"
    <3>1. CASE GotHere(c)
      <4>1. ans[c]["sub"] # "rolledback"
        BY <3>1, GotIs DEF GotHere
      <4> QED
        BY <3>1, <4>1 DEF GotHere, Finish
    <3>2. CASE Copy(c) \/ GotOwner(c) \/ Fill(c) \/ Filled(c)
      BY <2>3, <3>2 DEF Copy, GotOwner, Fill, Filled, Finish
    <3>3. CASE GetHere(c) \/ GetOwner(c) \/ AskTtl(c)
      BY <3>3 DEF GetHere, GetOwner, AskTtl, clientVars
    <3> QED
      BY <2>1, <3>1, <3>2, <3>3
  <2> QED
    BY <1>3, <2>2, <2>4
<1>6. CASE UNCHANGED <<pc, result>>
  BY <1>2, <1>6
<1>7. CASE \E z \in Zones : Redis(z)
  <2>1. UNCHANGED <<pc, result>>
    BY <1>7 DEF Redis, Serve, Fail, ServeLate, Expire, clientVars
  <2> QED
    BY <1>6, <2>1
<1>8. CASE UNCHANGED vars
  <2>1. UNCHANGED <<pc, result>>
    BY <1>8 DEF vars, clientVars
  <2> QED
    BY <1>6, <2>1
<1> QED
  BY <1>4, <1>5, <1>7, <1>8 DEF Next

LEMMA NextTrx ==
    ASSUME Undisturbed, Inv, TrxInv, [Next]_vars
    PROVE  TrxInv'
<1>1. owner' = owner /\ faults \subseteq faults'
  BY StepAllowed DEF Inv
<1>2. OneFault' => OneFault
  BY <1>1 DEF OneFault
<1>3. ASSUME owner = "none", OneFault'
      PROVE  Agreement'
  BY <1>2, <1>3, NextAgreement DEF TrxInv
<1> QED
  BY <1>1, <1>3, NextResults, NextOnlyShared DEF TrxInv

LEMMA InitTrx ==
    ASSUME Undisturbed, Init
    PROVE  TrxInv
<1>1. /\ pc = [c \in Clients |-> "idle"] /\ result = [c \in Clients |-> "none"]
      /\ cmd = [c \in Clients |-> NoKey] /\ late = [z \in Zones |-> {}]
      /\ queue = [p \in Zones |-> [z \in Zones |-> <<>>]]
      /\ before = [c \in Clients |-> store] /\ owner \in Owners
  BY DEF Init
<1>2. Writer \in Clients /\ Home[Writer] \in Zones
  BY Known, InitInv
<1>3. Results
  <2>1. result \in [Clients -> {"none"}]
    BY <1>1
  <2> QED
    BY <2>1 DEF Results
<1>4. TrxOnlyShared
  BY <1>1 DEF TrxOnlyShared, SetPcs
<1>5. ASSUME owner = "none"
      PROVE  Agreement
  <2>1. PICK s \in Sets[owner] \cup {NoKey} : store = [z \in Zones |-> s]
    BY DEF Init
  <2>2. NoKey.ttl = FALSE
    BY DEF NoKey
  <2>3. s.ttl = FALSE
    BY <1>1, <1>5, <2>1, <2>2 DEF Undisturbed
  <2>4. \A p, z \in Zones : Calm(queue[p][z])
    BY <1>1 DEF Calm
  <2>5. \A z \in Zones : store[z] = s /\ Was(z) = s /\ late[z] = {}
    BY <1>1, <1>2, <2>1 DEF Was
  <2>6. Lasting
    BY <1>1, <1>2, <2>2, <2>3, <2>5 DEF Lasting
  <2>7. OthersRead
    BY <1>1, <2>4 DEF OthersRead, ReadPcs
  <2>8. Resting
    BY <1>1, <1>2, <2>4, <2>5 DEF Resting, Line
  <2>9. Phase
    BY <1>1, <1>2, <2>8 DEF Phase, ReadPcs, SetPcs
  <2> QED
    BY <2>6, <2>7, <2>9 DEF Agreement
<1> QED
  BY <1>3, <1>4, <1>5 DEF TrxInv

LEMMA AtMostOne ==
    ASSUME Inv, Cardinality(faults) <= 1
    PROVE  OneFault
<1>1. faults \subseteq FaultKinds
  BY DEF Inv, Typed, EnvTyped
<1>2. IsFiniteSet(FaultKinds)
  <2>1. /\ \A x : IsFiniteSet({x})
        /\ \A S, T : IsFiniteSet(S) /\ IsFiniteSet(T) => IsFiniteSet(S \cup T)
    BY FS_Singleton, FS_Union
  <2>2. FaultKinds = {"refuse"} \cup {"panic"} \cup {"lose"} \cup {"cut"}
                     \cup {"late"} \cup {"errorreply"}
    BY DEF FaultKinds
  <2> QED
    BY <2>1, <2>2
<1>3. IsFiniteSet(faults)
  BY <1>1, <1>2, FS_Subset
<1> SUFFICES ASSUME NEW f \in faults, NEW g \in faults, f # g
             PROVE  FALSE
  BY DEF OneFault
<1>4. /\ IsFiniteSet({f}) /\ Cardinality({f}) = 1
      /\ IsFiniteSet({f, g}) /\ Cardinality({f, g}) = 2
  <2>1. IsFiniteSet({f}) /\ Cardinality({f}) = 1
    BY FS_Singleton
  <2>2. {f, g} = {f} \cup {g} /\ g \notin {f}
    OBVIOUS
  <2> QED
    BY <2>1, <2>2, FS_AddElement
<1>5. Cardinality({f, g}) <= Cardinality(faults)
  BY <1>3, FS_Subset
<1> QED
  BY <1>3, <1>4, <1>5, FS_CardinalityType

(* Where the writer's dispatch is tells what every zone holds and what is  *)
(* on its way to it (router.go 246-273, transaction.go 34-124).            *)
THEOREM TrxInvHolds ==
    ASSUME Undisturbed
    PROVE  Spec => []TrxInv
<1>1. Init => Inv /\ TrxInv
  BY InitInv, InitTrx
<1>2. Inv /\ TrxInv /\ [Next]_vars => Inv' /\ TrxInv'
  BY NextInv, NextTrx
<1> QED
  BY <1>1, <1>2, PTL DEF Spec

LEMMA RestingWhenIdle ==
    ASSUME Undisturbed, Inv, TrxInv, Cardinality(faults) <= 1,
           pc[Writer] = "idle", owner = "none"
    PROVE  Resting /\ OthersRead
<1>1. Agreement
  BY AtMostOne DEF TrxInv
<1> QED
  BY <1>1 DEF Agreement, Phase, ReadPcs

LEMMA TrxAgrees ==
    ASSUME Undisturbed, Inv, TrxInv
    PROVE  AgreeWhenQuiet /\ RolledBackRestores /\ AcknowledgedEverywhere
<1>1. Writer \in Clients
  BY Known
<1>2. AgreeWhenQuiet
  BY <1>1, RestingWhenIdle DEF AgreeWhenQuiet, Quiet, Resting
<1>3. ASSUME Cardinality(faults) <= 1, NEW c \in Clients, pc[c] = "idle",
             result[c] \in {"ok", "rolledback"}, owner = "none"
      PROVE  c = Writer
  <2>1. Agreement
    BY <1>3, AtMostOne DEF TrxInv
  <2> QED
    BY <1>3, <2>1 DEF Agreement, OthersRead
<1>4. RolledBackRestores
  <2> SUFFICES ASSUME Cardinality(faults) <= 1, NEW c \in Clients,
                      pc[c] = "idle", result[c] = "rolledback", NEW z \in Zones
               PROVE  store[z].v = before[c][z].v
    BY DEF RolledBackRestores
  <2>1. owner = "none"
    BY DEF TrxInv, TrxOnlyShared
  <2>2. c = Writer
    BY <1>3, <2>1
  <2>3. Resting
    BY <2>1, <2>2, RestingWhenIdle
  <2> QED
    BY <2>2, <2>3 DEF Resting, Was
<1>5. AcknowledgedEverywhere
  <2> SUFFICES ASSUME Cardinality(faults) <= 1, NEW c \in Clients,
                      owner = "none", pc[c] = "idle", result[c] = "ok"
               PROVE  \A z \in Zones : store[z] = cmd[c]
    BY DEF AcknowledgedEverywhere
  <2>1. c = Writer
    BY <1>3
  <2>2. Resting
    BY <2>1, RestingWhenIdle
  <2> QED
    BY <2>1, <2>2 DEF Resting
<1> QED
  BY <1>2, <1>4, <1>5

(* Zones that held the same hold the same again when nothing is under way, *)
(* after any commits and rollbacks and one failure of any kind: "一致性，一 *)
(* 个事务" (router.go 246-273, transaction.go 34-124).                      *)
THEOREM ZonesAgree ==
    ASSUME Undisturbed
    PROVE  Spec => []AgreeWhenQuiet
BY InvHolds, TrxInvHolds, TrxAgrees, PTL

(* A transaction that returned an error because of one failure, wherever   *)
(* it came, has put back the value each zone had (transaction.go 69-74 and *)
(* 113-124).                                                               *)
THEOREM RollbackRestores ==
    ASSUME Undisturbed
    PROVE  Spec => []RolledBackRestores
BY InvHolds, TrxInvHolds, TrxAgrees, PTL

(* A SET that was answered with success is in every zone by then, whatever *)
(* single failure happened (transaction.go 47-67 and 103-111).             *)
THEOREM SuccessIsEverywhere ==
    ASSUME Undisturbed
    PROVE  Spec => []AcknowledgedEverywhere
BY InvHolds, TrxInvHolds, TrxAgrees, PTL
=============================================================================
