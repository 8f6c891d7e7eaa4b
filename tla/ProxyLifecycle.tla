---------------------------- MODULE ProxyLifecycle ----------------------------
(***************************************************************************)
(* The life of the proxy process: main and its signal handler              *)
(* (src/cmd/proxy/main.go) and the servers, tickers and locks of Proxy     *)
(* (src/pkg/proxy/proxy.go).                                               *)
(*                                                                         *)
(* Proxy.mu is held by whoever closes the proxy until the router is        *)
(* closed, too; the router's lock is held for reading by a GET until it is *)
(* answered, and by a ticker, which may have to wait for room in           *)
(* keepAliveCallback (pool.go).  What the router's lock protects is        *)
(* SharedPool; how sessions come and go is SessionAdmission.               *)
(***************************************************************************)
EXTENDS Integers

CONSTANTS
    Tickers,      \* BOUND: of keepAlive and sentinelSwitch
    SentinelMode, \* config.SentinelMode: connections may be switched
    Gets,         \* BOUND: the GETs that are dispatched at the same time
    CallbackCap   \* of keepAliveCallback, 128 in the code

ASSUME ProxyAssumption ==
    /\ Tickers \subseteq {"keepAlive", "sentinelSwitch"}
    /\ SentinelMode \in BOOLEAN
    /\ CallbackCap \in Nat \ {0}

Servers == {"admin", "proxy"}
Threads == {"main", "signal", "api"} \cup Servers \cup Tickers

VARIABLES
    process,     \* up or down
    pc,          \* where each goroutine of the proxy is
    mu,          \* who holds Proxy.mu
    online, closed,       \* Proxy.online, Proxy.closed with exit.C
    listener,    \* of each server: none, open, closed
    routerOnline, routerClosed,
    reading,     \* who holds Router.mu for reading
    stuck,       \* the GETs that nobody will ever answer
    callbacks,   \* how many functions are in keepAliveCallback
    receiver,    \* its receiver: running, or stuck in one of them
    signalled    \* a signal has arrived

procVars == <<process, signalled>>
proxyVars == <<online, closed, listener>>
routerVars == <<routerOnline, routerClosed>>
readVars == <<reading, stuck, callbacks, receiver>>
vars == <<procVars, pc, mu, proxyVars, routerVars, readVars>>

Init ==
    /\ process = "up" /\ signalled = FALSE
    /\ pc = [t \in Threads |-> IF t = "main" THEN "new" ELSE "none"]
    /\ mu = "free"
    /\ online = FALSE /\ closed = FALSE
    /\ listener = [t \in Servers |-> "none"]
    /\ routerOnline = FALSE /\ routerClosed = FALSE
    /\ reading = {} /\ stuck = {}
    /\ callbacks = 0 /\ receiver = "running"

Goto(t, next) == pc' = [pc EXCEPT ![t] = next]

(* A goroutine goes on and starts others.                                  *)
GotoAndStart(t, next, others, first) ==
    pc' = [u \in Threads |-> IF u = t THEN next
                             ELSE IF u \in others THEN first ELSE pc[u]]

(* A writer that waits for Router.mu keeps new readers out.                *)
WriterWaits == \E t \in Threads : pc[t] \in {"closeRouter", "startRouter"}

-----------------------------------------------------------------------------
(* New, Start and Close.                                                   *)

(* The listeners are opened one after the other; the error may be in the   *)
(* address to announce, when the listener is open already.                 *)
Setup == listener' = [t \in Servers |-> "open"]

SetupFails ==
    \E p, a \in {"none", "open"} :
        /\ a = "open" => p = "open"
        /\ listener' = [t \in Servers |-> IF t = "proxy" THEN p ELSE a]

(* With an error New closes what is open.                                  *)
New ==
    /\ pc["main"] = "new"
    /\ \/ /\ Setup
          /\ GotoAndStart("main", "start", Servers, "serve?")
       \/ SetupFails /\ Goto("main", "close")
    /\ UNCHANGED <<procVars, mu, online, closed, routerVars, readVars>>

(* Proxy.Start; main does not survive its error.                           *)
Start ==
    /\ pc["main"] = "start" /\ mu = "free"
    /\ IF closed THEN process' = "down" /\ UNCHANGED <<pc, mu, online>>
       ELSE /\ online' = TRUE /\ mu' = "main"
            /\ Goto("main", "startRouter") /\ UNCHANGED process
    /\ UNCHANGED <<signalled, closed, listener, routerVars, readVars>>

StartRouter ==
    /\ pc["main"] = "startRouter" /\ reading = {}
    /\ routerOnline' = (routerOnline \/ ~routerClosed)
    /\ mu' = "free"
    /\ GotoAndStart("main", "poll", {"signal"}, "notify")
    /\ UNCHANGED <<procVars, proxyVars, routerClosed, readVars>>

(* Main returns, or gives up, after its Close.                             *)
CloseReturns(t) ==
    /\ Goto(t, "end")
    /\ process' = IF t = "main" THEN "down" ELSE process

(* MUTANT, not the code: the lock is not kept until the router is closed.  *)
CloseUnlocked(t) ==
    /\ pc[t] = "close" /\ mu = "free"
    /\ IF closed THEN CloseReturns(t) /\ UNCHANGED <<mu, proxyVars>>
       ELSE /\ closed' = TRUE
            /\ listener' = [l \in Servers |-> IF listener[l] = "open"
                                             THEN "closed" ELSE listener[l]]
            /\ Goto(t, "closeRouter")
            /\ UNCHANGED <<process, mu, online>>
    /\ UNCHANGED <<signalled, routerVars, readVars>>

Close(t) ==
    /\ pc[t] = "close" /\ mu = "free"
    /\ IF closed THEN CloseReturns(t) /\ UNCHANGED <<mu, proxyVars>>
       ELSE /\ closed' = TRUE /\ mu' = t
            /\ listener' = [l \in Servers |-> IF listener[l] = "open"
                                             THEN "closed" ELSE listener[l]]
            /\ Goto(t, "closeRouter")
            /\ UNCHANGED <<process, online>>
    /\ UNCHANGED <<signalled, routerVars, readVars>>

CloseRouter(t) ==
    /\ pc[t] = "closeRouter" /\ reading = {}
    /\ routerClosed' = TRUE /\ mu' = "free"
    /\ CloseReturns(t)
    /\ UNCHANGED <<signalled, proxyVars, routerOnline, readVars>>

-----------------------------------------------------------------------------
(* main and the signal handler.                                            *)

(* main polls IsClosed and IsOnline, each under the lock: by now one of    *)
(* them is true, and main works until IsClosed is.                         *)
Poll ==
    /\ mu = "free"
    /\ \/ pc["main"] = "poll" /\ Goto("main", "working")
       \/ pc["main"] = "working" /\ closed /\ Goto("main", "close")
    /\ UNCHANGED <<procVars, mu, proxyVars, routerVars, readVars>>

(* A signal ends the process, until the handler is installed.              *)
Signal ==
    /\ ~signalled
    /\ signalled' = TRUE
    /\ process' = IF pc["signal"] \in {"none", "notify"} THEN "down"
                                                          ELSE process
    /\ UNCHANGED <<pc, mu, proxyVars, routerVars, readVars>>

(* MUTANT, not the code: the handler returns without Close.                *)
HandlerReturns ==
    /\ \/ pc["signal"] = "notify" /\ Goto("signal", "wait")
       \/ pc["signal"] = "wait" /\ signalled /\ Goto("signal", "end")
    /\ UNCHANGED <<procVars, mu, proxyVars, routerVars, readVars>>

Handler ==
    /\ \/ pc["signal"] = "notify" /\ Goto("signal", "wait")
       \/ pc["signal"] = "wait" /\ signalled /\ Goto("signal", "close")
    /\ UNCHANGED <<procVars, mu, proxyVars, routerVars, readVars>>

-----------------------------------------------------------------------------
(* serveAdmin and serveProxy.                                              *)

(* A server starts serving: the listener of the admin API with its         *)
(* handlers, the one of the proxy with the tickers.                        *)
Spawns(t) ==
    IF t = "admin" THEN GotoAndStart(t, "serving", {"api"}, "idle")
                   ELSE GotoAndStart(t, "serving", Tickers, "tick")

(* They do not start on a closed proxy, and close it when they end.        *)
Serve(t) ==
    /\ \/ /\ pc[t] = "serve?" /\ mu = "free"
          /\ IF closed THEN Goto(t, "end")
                       ELSE Spawns(t)
       \/ pc[t] = "serving" /\ closed /\ Goto(t, "close")
    /\ UNCHANGED <<procVars, mu, proxyVars, routerVars, readVars>>

(* The Accept loop of a server ends with an error, which goes through eh.  *)
AcceptFails(t) ==
    /\ pc[t] = "serving" /\ Goto(t, "close")
    /\ UNCHANGED <<procVars, mu, proxyVars, routerVars, readVars>>

(* The loops select between exit.C and the ticker; KeepAlive and           *)
(* SentinelSwitch hold the router's lock for reading.                      *)
Tick(t) ==
    /\ \/ /\ pc[t] = "tick" /\ closed
          /\ Goto(t, "end") /\ UNCHANGED reading
       \/ /\ pc[t] = "tick" /\ ~WriterWaits /\ ~routerClosed
          /\ Goto(t, "ticking") /\ reading' = reading \cup {t}
       \/ /\ pc[t] \in {"ticking", "sent"}
          /\ Goto(t, "tick") /\ reading' = reading \ {t}
    /\ UNCHANGED <<procVars, mu, proxyVars, routerVars, stuck, callbacks,
                   receiver>>

(* MUTANT, not the code: there is always room.                             *)
SendOver ==
    /\ "keepAlive" \in Tickers
    /\ pc["keepAlive"] = "ticking" /\ Goto("keepAlive", "sent")
    /\ callbacks' = callbacks + 1
    /\ UNCHANGED <<procVars, mu, proxyVars, routerVars, reading, stuck,
                   receiver>>

(* KeepAlive has asked a connection whose data are stale for its INFO, and *)
(* has to send what will look at the answer, whether there is room or not. *)
(* BOUND: one such connection in a tick.                                   *)
Send ==
    /\ "keepAlive" \in Tickers
    /\ \/ /\ pc["keepAlive"] = "ticking" /\ Goto("keepAlive", "sending")
          /\ UNCHANGED callbacks
       \/ /\ pc["keepAlive"] = "sending" /\ callbacks < CallbackCap
          /\ Goto("keepAlive", "sent") /\ callbacks' = callbacks + 1
    /\ UNCHANGED <<procVars, mu, proxyVars, routerVars, reading, stuck,
                   receiver>>

(* The receiver runs one function after the other; each waits for an INFO. *)
Receive ==
    /\ receiver = "running" /\ callbacks > 0
    /\ callbacks' = callbacks - 1
    /\ UNCHANGED <<procVars, pc, mu, proxyVars, routerVars, reading, stuck,
                   receiver>>

(* The handler of GET /proxy: Stats polls Proxy.mu, Zones holds it until   *)
(* it has the router's lock.  A connection that is kept alive may ask when *)
(* the listener has been closed.                                           *)
ApiRequest ==
    /\ pc["api"] = "idle"
    /\ Goto("api", "stats")
    /\ UNCHANGED <<procVars, mu, proxyVars, routerVars, readVars>>

Api ==
    /\ \/ /\ pc["api"] = "stats" /\ mu = "free" /\ Goto("api", "zones")
          /\ UNCHANGED mu
       \/ /\ pc["api"] = "zones" /\ mu = "free" /\ Goto("api", "getZones")
          /\ mu' = "api"
       \/ /\ pc["api"] = "getZones" /\ ~WriterWaits /\ Goto("api", "idle")
          /\ mu' = "free"
    /\ UNCHANGED <<procVars, proxyVars, routerVars, readVars>>

-----------------------------------------------------------------------------
(* GETs hold the router's lock from their dispatch to their answer.        *)

GetBegins(g) ==
    /\ routerOnline /\ g \notin reading /\ ~WriterWaits
    /\ reading' = reading \cup {g}
    /\ UNCHANGED <<procVars, pc, mu, proxyVars, routerVars, stuck, callbacks,
                   receiver>>

(* MUTANT, not the code: the lock is not released.                         *)
GetEndsLocked(g) ==
    /\ g \in reading \ stuck
    /\ UNCHANGED vars

(* It was answered, or its push panicked: the lock is given up either way. *)
GetEnds(g) ==
    /\ g \in reading \ stuck
    /\ reading' = reading \ {g}
    /\ UNCHANGED <<procVars, pc, mu, proxyVars, routerVars, stuck, callbacks,
                   receiver>>

(* A connection that SentinelSwitch closes does not answer what it still   *)
(* accepted after its last round: neither a GET nor an INFO.               *)
Sticks ==
    /\ SentinelMode
    /\ \/ /\ \E g \in Gets \cap reading : stuck' = stuck \cup {g}
          /\ UNCHANGED <<receiver, callbacks>>
       \/ /\ callbacks > 0 /\ receiver' = "stuck"
          /\ callbacks' = callbacks - 1 /\ UNCHANGED stuck
    /\ UNCHANGED <<procVars, pc, mu, proxyVars, routerVars, reading>>

-----------------------------------------------------------------------------
Closers == {"main", "signal"} \cup Servers

Thread(t) ==
    \/ t = "main" /\ (New \/ Start \/ StartRouter \/ Poll)
    \/ t = "signal" /\ Handler
    \/ t \in Servers /\ Serve(t)
    \/ t \in Closers /\ (Close(t) \/ CloseRouter(t))
    \/ t = "api" /\ Api

World ==
    \/ Signal \/ ApiRequest \/ Sticks
    \/ \E t \in Servers : AcceptFails(t)
    \/ \E g \in Gets : GetBegins(g)

Next ==
    /\ process = "up"
    /\ \/ World \/ Send \/ Receive
       \/ \E t \in Threads : Thread(t)
       \/ \E t \in Tickers : Tick(t)
       \/ \E g \in Gets : GetEnds(g)

Spec == Init /\ [][Next]_vars

Up(A) == process = "up" /\ A

(* Goroutines run; a GET that is not stuck is answered, an INFO, too; who  *)
(* waits for a sync.Mutex gets it in the end.  A tick need not be taken    *)
(* while exit.C is ready: select chooses at random, but not for ever.      *)
Fairness ==
    /\ \A t \in Closers \cup {"api"} : SF_vars(Up(Thread(t)))
    /\ \A t \in Tickers :
          /\ WF_vars(Up(pc[t] # "tick" /\ (Send \/ Tick(t))))
          /\ SF_vars(Up(pc[t] = "tick" /\ Tick(t) /\ pc'[t] = "end"))
    /\ WF_vars(Up(Receive))
    /\ \A g \in Gets : WF_vars(Up(GetEnds(g)))

FairSpec == Spec /\ Fairness

-----------------------------------------------------------------------------
(* Properties.                                                             *)

(* Every variable has its type.                                            *)
TypeOK ==
    /\ process \in {"up", "down"} /\ signalled \in BOOLEAN
    /\ DOMAIN pc = Threads
    /\ mu \in {"free", "api"} \cup Closers
    /\ {online, closed, routerOnline, routerClosed} \subseteq BOOLEAN
    /\ listener \in [Servers -> {"none", "open", "closed"}]
    /\ reading \subseteq Tickers \cup Gets /\ stuck \subseteq Gets
    /\ callbacks \in 0..CallbackCap /\ receiver \in {"running", "stuck"}

(* When main returns, whoever called Close first, the router and the       *)
(* listeners are closed (proxy.go 148-169, main.go 121-152).               *)
ExitIsClean ==
    pc["main"] = "end" =>
        routerClosed /\ \A t \in Servers : listener[t] # "open"

Stuck == stuck # {} \/ receiver = "stuck"

(* After a signal, a listener's error or any Close the process ends, in    *)
(* whatever order they come, unless a request is stuck: then Close waits   *)
(* for the router's lock, main for Close, and signals go unheard (main.go  *)
(* 127-152).                                                               *)
ProcessEnds ==
    signalled \/ (\E t \in Closers : pc[t] = "close") ~>
        process = "down" \/ Stuck

(* The admin API answers, also while the proxy closes (proxy.go 253-257).  *)
ApiAnswers ==
    pc["api"] \in {"stats", "zones", "getZones"} ~>
        pc["api"] = "idle" \/ process = "down" \/ Stuck
=============================================================================
