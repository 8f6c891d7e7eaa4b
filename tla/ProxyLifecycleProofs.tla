------------------------ MODULE ProxyLifecycleProofs ------------------------
(***************************************************************************)
(* Proofs about ProxyLifecycle, for any set of tickers, any number of GETs *)
(* and any room for callbacks.                                             *)
(***************************************************************************)
EXTENDS ProxyLifecycle, TLAPS

USE ProxyAssumption DEF ProxyAssumption, Servers, Threads, Closers

(* Where a goroutine may be.                                               *)
Places ==
    {"none", "new", "start", "startRouter", "poll", "working", "close",
     "closeRouter", "end", "notify", "wait", "serve?", "serving", "tick",
     "ticking", "sending", "sent", "idle", "stats", "zones", "getZones"}

Typed == TypeOK /\ pc \in [Threads -> Places]

(* Who is inside Close or Start has Proxy.mu, until the router is done;    *)
(* what New starts is not there before.                                    *)
Locked ==
    /\ \A t \in Closers : pc[t] = "closeRouter" => mu = t /\ closed
    /\ pc["main"] = "startRouter" => mu = "main"
    /\ pc["api"] = "getZones" => mu = "api"
    /\ pc["main"] = "new" => \A t \in Threads \ {"main"} : pc[t] = "none"
    /\ pc["main"] \in {"new", "start", "startRouter"} => pc["signal"] = "none"

(* Between the two halves of Close, closed is set and the router is still  *)
(* open only while somebody holds the lock in between.                     *)
Closing ==
    /\ pc["main"] = "new" => ~closed
    /\ closed => \A t \in Servers : listener[t] # "open"
    /\ closed /\ ~routerClosed =>
          \E t \in Closers : mu = t /\ pc[t] = "closeRouter"
    /\ pc["main"] = "end" => closed /\ routerClosed

Inv == Typed /\ Locked /\ Closing

-----------------------------------------------------------------------------
(* How a step moves the goroutines.                                        *)

LEMMA GotoIs ==
    ASSUME pc \in [Threads -> Places], NEW t \in Threads, NEW p \in Places,
           Goto(t, p)
    PROVE  /\ pc' \in [Threads -> Places] /\ pc'[t] = p
           /\ \A u \in Threads \ {t} : pc'[u] = pc[u]
BY DEF Goto

LEMMA GotoAndStartIs ==
    ASSUME pc \in [Threads -> Places], NEW t \in Threads,
           NEW next \in Places, NEW others \in SUBSET Threads,
           NEW first \in Places, GotoAndStart(t, next, others, first)
    PROVE  /\ pc' \in [Threads -> Places] /\ pc'[t] = next
           /\ \A u \in others \ {t} : pc'[u] = first
           /\ \A u \in Threads \ (others \cup {t}) : pc'[u] = pc[u]
BY DEF GotoAndStart

(* The places a goroutine is sent to are places.                           *)
LEMMA CloseReturnsIs ==
    ASSUME Typed, NEW t \in Closers, CloseReturns(t)
    PROVE  /\ pc' \in [Threads -> Places] /\ pc'[t] = "end"
           /\ \A u \in Threads \ {t} : pc'[u] = pc[u]
           /\ process' \in {"up", "down"}
BY GotoIs DEF CloseReturns, Places, Typed, TypeOK

-----------------------------------------------------------------------------
(* Types.                                                                  *)

LEMMA InitInv == Init => Inv
<1> SUFFICES ASSUME Init PROVE Inv
  OBVIOUS
<1>1. /\ pc \in [Threads -> Places] /\ pc["main"] = "new"
      /\ \A t \in Threads \ {"main"} : pc[t] = "none"
  BY DEF Init, Places
<1>2. TypeOK
  <2>1. DOMAIN pc = Threads
    BY <1>1
  <2>2. callbacks \in 0..CallbackCap
    BY DEF Init
  <2>3. listener \in [Servers -> {"none", "open", "closed"}]
    BY DEF Init
  <2> QED
    BY <2>1, <2>2, <2>3 DEF Init, TypeOK
<1>3. Locked
  BY <1>1 DEF Locked
<1>4. Closing
  BY <1>1 DEF Init, Closing
<1> QED
  BY <1>1, <1>2, <1>3, <1>4 DEF Inv, Typed

(* The steps of main keep the types.                                       *)
LEMMA MainTyped ==
    ASSUME Typed, New \/ Start \/ StartRouter \/ Poll
    PROVE  Typed'
<1> USE DEF Typed, TypeOK, procVars, proxyVars, routerVars, readVars
<1>0. {"start", "close", "startRouter", "poll", "notify", "working", "serve?"}
        \subseteq Places
  BY DEF Places
<1>1. CASE New
  <2>1. pc' \in [Threads -> Places]
    BY <1>0, <1>1, GotoIs, GotoAndStartIs DEF New
  <2>2. listener' \in [Servers -> {"none", "open", "closed"}]
    BY <1>1 DEF New, Setup, SetupFails
  <2> QED
    BY <1>1, <2>1, <2>2 DEF New
<1>2. CASE Start
  <2>1. pc' \in [Threads -> Places]
    BY <1>0, <1>2, GotoIs DEF Start
  <2> QED
    BY <1>2, <2>1 DEF Start
<1>3. CASE StartRouter
  <2>1. pc' \in [Threads -> Places]
    BY <1>0, <1>3, GotoAndStartIs DEF StartRouter
  <2> QED
    BY <1>3, <2>1 DEF StartRouter
<1>4. CASE Poll
  <2>1. pc' \in [Threads -> Places]
    BY <1>0, <1>4, GotoIs DEF Poll
  <2> QED
    BY <1>4, <2>1 DEF Poll
<1> QED
  BY <1>1, <1>2, <1>3, <1>4

(* So do the steps of the handler, the servers and whoever calls Close.    *)
LEMMA ThreadTyped ==
    ASSUME Typed, NEW t \in Threads, Thread(t)
    PROVE  Typed'
<1> USE DEF Typed, TypeOK, procVars, proxyVars, routerVars, readVars
<1>0. {"wait", "close", "closeRouter", "serving", "end", "idle", "tick",
       "zones", "getZones"} \subseteq Places
  BY DEF Places
<1>1. CASE Handler
  BY <1>0, <1>1, GotoIs DEF Handler
<1>2. CASE t \in Servers /\ Serve(t)
  <2>1. pc' \in [Threads -> Places]
    BY <1>0, <1>2, GotoIs, GotoAndStartIs DEF Serve, Spawns
  <2> QED
    BY <1>2, <2>1 DEF Serve
<1>3. CASE t \in Closers /\ Close(t)
  <2>1. pc' \in [Threads -> Places] /\ process' \in {"up", "down"}
    BY <1>0, <1>3, GotoIs, CloseReturnsIs DEF Close
  <2>2. /\ listener' \in [Servers -> {"none", "open", "closed"}]
        /\ closed' \in BOOLEAN /\ online' = online /\ mu' \in {mu, t}
    BY <1>3 DEF Close
  <2> QED
    BY <1>3, <2>1, <2>2 DEF Close
<1>4. CASE t \in Closers /\ CloseRouter(t)
  BY <1>4, CloseReturnsIs DEF CloseRouter
<1>5. CASE Api
  BY <1>0, <1>5, GotoIs DEF Api
<1> QED
  BY <1>1, <1>2, <1>3, <1>4, <1>5, MainTyped DEF Thread

(* So do the tickers, the GETs and the world.                              *)
LEMMA OtherTyped ==
    ASSUME Typed,
           \/ World \/ Send \/ Receive \/ UNCHANGED vars
           \/ \E t \in Tickers : Tick(t)
           \/ \E g \in Gets : GetEnds(g)
    PROVE  Typed'
<1> USE DEF Typed, TypeOK, procVars, proxyVars, routerVars, readVars
<1>0. {"end", "ticking", "tick", "sending", "sent", "close", "stats"}
        \subseteq Places
  BY DEF Places
<1>1. CASE Signal \/ UNCHANGED vars
  BY <1>1 DEF Signal, vars
<1>6. CASE Sticks \/ Receive
  <2>1. UNCHANGED <<process, signalled, pc, mu, online, closed, listener,
                    routerOnline, routerClosed, reading>>
    BY <1>6 DEF Sticks, Receive
  <2>2. stuck' \subseteq Gets /\ callbacks' \in 0..CallbackCap
    BY <1>6 DEF Sticks, Receive
  <2>3. receiver' \in {"running", "stuck"}
    BY <1>6 DEF Sticks, Receive
  <2> QED
    BY <2>1, <2>2, <2>3
<1>2. CASE ApiRequest \/ \E t \in Servers : AcceptFails(t)
  BY <1>0, <1>2, GotoIs DEF ApiRequest, AcceptFails
<1>3. CASE Send
  <2>1. pc' \in [Threads -> Places]
    BY <1>0, <1>3, GotoIs DEF Send
  <2>2. callbacks' \in 0..CallbackCap
    BY <1>3 DEF Send
  <2> QED
    BY <1>3, <2>1, <2>2 DEF Send
<1>4. ASSUME NEW t \in Tickers, Tick(t)
      PROVE  Typed'
  <2>1. pc' \in [Threads -> Places]
    BY <1>0, <1>4, GotoIs DEF Tick
  <2>2. reading' \subseteq Tickers \cup Gets
    BY <1>4 DEF Tick
  <2> QED
    BY <1>4, <2>1, <2>2 DEF Tick
<1>5. CASE \E g \in Gets : GetBegins(g) \/ GetEnds(g)
  BY <1>5 DEF GetBegins, GetEnds
<1> QED
  BY <1>1, <1>2, <1>3, <1>4, <1>5, <1>6 DEF World

LEMMA NextTyped == Typed /\ [Next]_vars => Typed'
BY ThreadTyped, OtherTyped DEF Next

-----------------------------------------------------------------------------
(* The locks and the two halves of Close.                                  *)

(* A goroutine that is outside the locks and stays outside them.           *)
LEMMA MoveKeeps ==
    ASSUME Inv, NEW t \in Threads, UNCHANGED <<mu, closed, listener,
                                               routerClosed>>,
           \A u \in Threads \ {t} : pc'[u] = pc[u],
           pc[t] \notin {"none", "new", "start", "startRouter",
                         "closeRouter"},
           pc'[t] \notin {"new", "start", "startRouter", "closeRouter",
                          "getZones"},
           t = "main" => pc'[t] # "end"
    PROVE  Locked' /\ Closing'
BY DEF Inv, Locked, Closing

LEMMA StillKeeps ==
    ASSUME Inv, UNCHANGED <<pc, mu, closed, listener, routerClosed>>
    PROVE  Locked' /\ Closing'
BY DEF Inv, Locked, Closing

(* New and Start: nobody else is there, or nobody else has the lock.       *)
LEMMA MainKeeps ==
    ASSUME Inv, New \/ Start \/ StartRouter \/ Poll
    PROVE  Locked' /\ Closing'
<1>0. /\ {"start", "startRouter", "poll", "notify", "working", "close",
          "serve?"} \subseteq Places
      /\ pc \in [Threads -> Places]
  BY DEF Places, Inv, Typed
<1>1. CASE New
  <2>1. /\ \A t \in Threads \ {"main"} : pc[t] = "none"
        /\ ~closed /\ UNCHANGED <<mu, closed, routerClosed>>
    BY <1>1 DEF New, Inv, Locked, Closing, routerVars
  <2>2. /\ pc'["main"] \in {"start", "close"}
        /\ \A t \in Threads \ {"main"} : pc'[t] \in {"none", "serve?"}
        /\ pc'["signal"] = "none"
    <3>1. CASE Goto("main", "close")
      BY <1>0, <2>1, <3>1, GotoIs
    <3>2. CASE GotoAndStart("main", "start", Servers, "serve?")
      <4>1. /\ pc'["main"] = "start" /\ \A t \in Servers : pc'[t] = "serve?"
            /\ \A t \in Threads \ (Servers \cup {"main"}) : pc'[t] = pc[t]
        BY <3>2 DEF GotoAndStart
      <4> QED
        BY <2>1, <4>1
    <3> QED
      BY <1>1, <3>1, <3>2 DEF New
  <2> QED
    BY <2>1, <2>2 DEF Locked, Closing
<1>2. CASE Start /\ closed
  BY <1>2, StillKeeps DEF Start, proxyVars, routerVars
<1>3. CASE Start /\ ~closed
  <2>1. /\ mu = "free" /\ mu' = "main" /\ pc["main"] = "start"
        /\ UNCHANGED <<closed, listener, routerClosed>>
        /\ pc'["main"] = "startRouter"
        /\ \A t \in Threads \ {"main"} : pc'[t] = pc[t]
    BY <1>0, <1>3, GotoIs DEF Start, routerVars
  <2> QED
    BY <1>3, <2>1 DEF Inv, Locked, Closing
<1>4. CASE StartRouter
  <2>1. /\ mu = "main" /\ mu' = "free" /\ pc["main"] = "startRouter"
        /\ UNCHANGED <<closed, listener, routerClosed>>
        /\ pc'["main"] = "poll" /\ pc'["signal"] = "notify"
        /\ \A t \in Threads \ {"main", "signal"} : pc'[t] = pc[t]
    <3>1. /\ pc["main"] = "startRouter" /\ mu' = "free"
          /\ GotoAndStart("main", "poll", {"signal"}, "notify")
          /\ UNCHANGED <<closed, listener, routerClosed>>
      BY <1>4 DEF StartRouter, proxyVars
    <3>2. mu = "main"
      BY <3>1 DEF Inv, Locked
    <3>3. /\ pc'["main"] = "poll" /\ pc'["signal"] = "notify"
          /\ \A t \in Threads \ {"main", "signal"} : pc'[t] = pc[t]
      BY <3>1 DEF GotoAndStart, Threads
    <3> QED
      BY <3>1, <3>2, <3>3
  <2>2. /\ \A t \in Closers : pc[t] # "closeRouter"
        /\ closed => routerClosed
        /\ pc["api"] # "getZones"
    BY <2>1 DEF Inv, Locked, Closing
  <2> QED
    BY <2>1, <2>2 DEF Inv, Locked, Closing
<1>5. CASE Poll
  <2>1. /\ pc["main"] \in {"poll", "working"}
        /\ pc'["main"] \in {"working", "close"}
        /\ \A t \in Threads \ {"main"} : pc'[t] = pc[t]
    BY <1>0, <1>5, GotoIs DEF Poll
  <2> QED
    BY <1>5, <2>1, MoveKeeps DEF Poll, proxyVars, routerVars
<1> QED
  BY <1>1, <1>2, <1>3, <1>4, <1>5

(* Close: a second caller finds closed set and the lock free, so that the  *)
(* first has closed the router.                                            *)
LEMMA CloseKeeps ==
    ASSUME Inv, NEW t \in Closers, Close(t)
    PROVE  Locked' /\ Closing'
<1>0. /\ "closeRouter" \in Places /\ pc \in [Threads -> Places]
      /\ pc[t] = "close" /\ mu = "free" /\ UNCHANGED routerClosed
      /\ pc["main"] # "new"
      /\ \A u \in Closers : pc[u] # "closeRouter"
      /\ pc["main"] # "startRouter" /\ pc["api"] # "getZones"
      /\ t = "signal" => pc["main"] \notin {"new", "start", "startRouter"}
  BY DEF Close, Places, Inv, Typed, Locked, routerVars
<1>1. CASE closed
  <2>1. /\ pc'[t] = "end" /\ \A u \in Threads \ {t} : pc'[u] = pc[u]
        /\ UNCHANGED <<mu, closed, listener>>
    BY <1>1, CloseReturnsIs DEF Close, proxyVars, Inv
  <2>2. routerClosed
    BY <1>0, <1>1 DEF Inv, Closing
  <2> QED
    BY <1>0, <1>1, <2>1, <2>2 DEF Inv, Locked, Closing
<1>2. CASE ~closed
  <2>1. /\ pc'[t] = "closeRouter" /\ \A u \in Threads \ {t} : pc'[u] = pc[u]
    BY <1>0, <1>2, GotoIs DEF Close
  <2>2. /\ closed' /\ mu' = t
        /\ \A l \in Servers : listener'[l] # "open"
    BY <1>2 DEF Close
  <2>3. Locked'
    BY <1>0, <2>1, <2>2 DEF Inv, Locked
  <2>4. Closing'
    BY <1>0, <1>2, <2>1, <2>2 DEF Inv, Closing
  <2> QED
    BY <2>3, <2>4
<1> QED
  BY <1>1, <1>2 DEF Inv, Typed, TypeOK

LEMMA CloseRouterKeeps ==
    ASSUME Inv, NEW t \in Closers, CloseRouter(t)
    PROVE  Locked' /\ Closing'
<1>1. /\ pc[t] = "closeRouter" /\ mu = t /\ closed
      /\ routerClosed' /\ mu' = "free" /\ UNCHANGED <<closed, listener>>
      /\ pc'[t] = "end" /\ \A u \in Threads \ {t} : pc'[u] = pc[u]
  BY CloseReturnsIs DEF CloseRouter, Inv, Locked, proxyVars
<1>2. /\ \A u \in Closers \ {t} : pc[u] # "closeRouter"
      /\ t # "main" => pc["main"] # "startRouter"
      /\ pc["api"] # "getZones" /\ pc["main"] # "new"
      /\ t = "signal" => pc["main"] \notin {"new", "start", "startRouter"}
  BY <1>1 DEF Inv, Locked
<1> QED
  BY <1>1, <1>2 DEF Inv, Locked, Closing

(* A server starts what was not there, and is not in Close itself.         *)
LEMMA ServeKeeps ==
    ASSUME Inv, NEW t \in Servers, Serve(t)
    PROVE  Locked' /\ Closing'
<1>0. /\ {"end", "close", "serving", "idle", "tick"} \subseteq Places
      /\ pc \in [Threads -> Places]
      /\ UNCHANGED <<mu, closed, listener, routerClosed>>
  BY DEF Places, Inv, Typed, Serve, proxyVars, routerVars
<1>1. CASE pc[t] = "serve?" /\ Spawns(t)
  <2>1. /\ pc'[t] = "serving"
        /\ \A u \in Threads \ {t} :
              pc'[u] = pc[u] \/ (u \notin Closers /\ pc'[u] \in {"idle", "tick"})
    <3>1. PICK others \in SUBSET {u \in Threads : u \notin Closers},
               first \in {"idle", "tick"} :
                  GotoAndStart(t, "serving", others, first)
      BY <1>1 DEF Spawns
    <3>2. /\ pc'[t] = "serving" /\ \A u \in others \ {t} : pc'[u] = first
          /\ \A u \in Threads \ (others \cup {t}) : pc'[u] = pc[u]
      BY <1>0, <3>1, GotoAndStartIs
    <3> QED
      BY <3>2
  <2> QED
    BY <1>0, <1>1, <2>1 DEF Inv, Locked, Closing
<1>2. CASE pc[t] \in {"serve?", "serving"} /\ (Goto(t, "end") \/ Goto(t, "close"))
  <2>1. /\ pc'[t] \in {"end", "close"}
        /\ \A u \in Threads \ {t} : pc'[u] = pc[u]
    BY <1>0, <1>2, GotoIs
  <2> QED
    BY <1>0, <1>2, <2>1, MoveKeeps
<1> QED
  BY <1>1, <1>2 DEF Serve

(* The admin API has the lock only in between.                             *)
LEMMA ApiKeeps ==
    ASSUME Inv, Api \/ ApiRequest
    PROVE  Locked' /\ Closing'
<1>0. /\ {"stats", "zones", "getZones", "idle"} \subseteq Places
      /\ pc \in [Threads -> Places]
      /\ UNCHANGED <<closed, listener, routerClosed>>
  BY DEF Places, Inv, Typed, Api, ApiRequest, proxyVars, routerVars
<1>1. /\ pc["api"] \in {"idle", "stats", "zones", "getZones"}
      /\ \A u \in Threads \ {"api"} : pc'[u] = pc[u]
  BY <1>0, GotoIs DEF Api, ApiRequest
<1>2. \/ mu' = mu /\ pc'["api"] \in {"stats", "zones"}
      \/ mu = "free" /\ mu' = "api" /\ pc'["api"] = "getZones"
      \/ pc["api"] = "getZones" /\ mu' = "free" /\ pc'["api"] = "idle"
  BY <1>0, GotoIs DEF Api, ApiRequest
<1> QED
  BY <1>0, <1>1, <1>2 DEF Inv, Locked, Closing

(* The tickers never have Proxy.mu, the GETs and the world neither.        *)
LEMMA OtherKeeps ==
    ASSUME Inv,
           \/ Handler \/ Signal \/ Sticks \/ Send \/ Receive \/ UNCHANGED vars
           \/ \E t \in Servers : AcceptFails(t)
           \/ \E t \in Tickers : Tick(t)
           \/ \E g \in Gets : GetBegins(g) \/ GetEnds(g)
    PROVE  Locked' /\ Closing'
<1> USE DEF proxyVars, routerVars
<1>0. /\ {"wait", "close", "end", "ticking", "tick", "sending", "sent"}
            \subseteq Places
      /\ pc \in [Threads -> Places]
  BY DEF Places, Inv, Typed
<1>1. CASE Signal \/ Sticks \/ Receive \/ UNCHANGED vars
           \/ \E g \in Gets : GetBegins(g) \/ GetEnds(g)
  BY <1>1, StillKeeps DEF Signal, Sticks, Receive, GetBegins, GetEnds, vars
<1>2. CASE Handler
  <2>1. /\ pc["signal"] \in {"notify", "wait"}
        /\ pc'["signal"] \in {"wait", "close"}
        /\ \A u \in Threads \ {"signal"} : pc'[u] = pc[u]
    BY <1>0, <1>2, GotoIs DEF Handler
  <2> QED
    BY <1>2, <2>1, MoveKeeps DEF Handler
<1>3. CASE Send
  <2>1. /\ pc["keepAlive"] \in {"ticking", "sending"}
        /\ pc'["keepAlive"] \in {"sending", "sent"} /\ "keepAlive" \in Threads
        /\ \A u \in Threads \ {"keepAlive"} : pc'[u] = pc[u]
    BY <1>0, <1>3, GotoIs DEF Send
  <2> QED
    BY <1>3, <2>1, MoveKeeps DEF Send
<1>4. ASSUME NEW t \in Servers, AcceptFails(t)
      PROVE  Locked' /\ Closing'
  <2>1. /\ pc[t] = "serving" /\ pc'[t] = "close"
        /\ \A u \in Threads \ {t} : pc'[u] = pc[u]
    BY <1>0, <1>4, GotoIs DEF AcceptFails
  <2> QED
    BY <1>4, <2>1, MoveKeeps DEF AcceptFails
<1>5. ASSUME NEW t \in Tickers, Tick(t)
      PROVE  Locked' /\ Closing'
  <2>1. /\ pc[t] \in {"tick", "ticking", "sent"}
        /\ pc'[t] \in {"end", "ticking", "tick"}
        /\ \A u \in Threads \ {t} : pc'[u] = pc[u]
    BY <1>0, <1>5, GotoIs DEF Tick
  <2> QED
    BY <1>5, <2>1, MoveKeeps DEF Tick
<1> QED
  BY <1>1, <1>2, <1>3, <1>4, <1>5

LEMMA NextKeeps == Inv /\ [Next]_vars => Inv'
<1> SUFFICES ASSUME Inv, [Next]_vars PROVE Inv'
  OBVIOUS
<1>1. Typed'
  BY NextTyped DEF Inv
<1>2. Locked' /\ Closing'
  BY MainKeeps, CloseKeeps, CloseRouterKeeps, ServeKeeps, ApiKeeps, OtherKeeps
     DEF Next, World, Thread
<1> QED
  BY <1>1, <1>2 DEF Inv

LEMMA Invariant == Spec => []Inv
BY InitInv, NextKeeps, PTL DEF Spec

(* Every variable has its type, and no more callbacks are queued than      *)
(* there is room for (proxy.go 19-48, pool.go 147-155).                    *)
THEOREM TypeCorrect == Spec => []TypeOK
<1>1. Inv => TypeOK
  BY DEF Inv, Typed
<1> QED
  BY <1>1, Invariant, PTL

(* Whoever calls Close first, main, the signal handler or a server whose   *)
(* Accept failed, and whoever calls it again: main does not return before  *)
(* the router and both listeners are closed (proxy.go 148-169, main.go     *)
(* 121-152).                                                               *)
THEOREM MainExitsClean == Spec => []ExitIsClean
<1>1. Inv => ExitIsClean
  BY DEF Inv, Closing, ExitIsClean
<1> QED
  BY <1>1, Invariant, PTL
=============================================================================
