--------------------------- MODULE SessionAdmission ---------------------------
(***************************************************************************)
(* How sessions come and go: the accept loop of the proxy (acceptConn and  *)
(* serveProxy in src/pkg/proxy/proxy.go), Session.Start with its limit on  *)
(* the number of clients (session.go), and the statistics each session     *)
(* collects and hands over to the process (flushOpStats in session.go,     *)
(* cmdstats and sessions in stats.go).                                     *)
(*                                                                         *)
(* What a session does to its commands is Session: here a command is       *)
(* decoded, queued, and counted once as replied to or failed.  All         *)
(* commands have one name, so that sessions meet at its entry of cmdstats. *)
(***************************************************************************)
EXTENDS Integers, Sequences, FiniteSets, Delay

CONSTANTS
    Conns,        \* BOUND: the client connections
    MaxClients,   \* config.ProxyMaxClients
    MaxCommands,  \* BOUND: commands on all connections together
    DelayMin,     \* of acceptConn's DelayExp2: 10 in the code
    DelayMax      \* and 500

ASSUME AdmissionAssumption ==
    /\ IsFiniteSet(Conns)
    /\ MaxClients \in Nat /\ MaxCommands \in Nat
    /\ DelayMin \in Nat \ {0} /\ DelayMax \in Nat /\ DelayMin <= DelayMax

VARIABLES
    router,      \* starting, online, closed: Router.online and closed
    acceptor,    \* the accept loop: accept, or admit in Session.Start
    backoff,     \* acceptConn's delay
    sess,        \* where each session is
    alive,       \* sessions.alive
    reader,      \* where its loopReader is: decode, end
    decoded,     \* commands it has decoded
    queued,      \* of these, the ones loopWriter has not counted yet
    flush,       \* where its flushOpStats is
    local,       \* session.stats: total, fails; calls and failed of its opmap
    op,          \* cmdstats: total and fails
    opmap,       \* cmdstats.opmap: the entry of the command, 0 for none
    entries,     \* the entries made: calls and fails
    entry        \* the entry each session's flush works on

acceptVars == <<router, acceptor, backoff>>
countVars == <<sess, alive>>
queueVars == <<reader, decoded, queued>>
opVars == <<op, opmap, entries, entry>>
vars == <<acceptVars, countVars, queueVars, flush, local, opVars>>

NoStats == [total |-> 0, fails |-> 0, calls |-> 0, failed |-> 0]

Init ==
    /\ router = "starting" /\ acceptor = "accept" /\ backoff = 0
    /\ sess = [c \in Conns |-> "none"] /\ alive = 0
    /\ reader = [c \in Conns |-> "decode"]
    /\ decoded = [c \in Conns |-> 0] /\ queued = [c \in Conns |-> 0]
    /\ flush = [c \in Conns |-> "none"]
    /\ local = [c \in Conns |-> NoStats]
    /\ op = [total |-> 0, fails |-> 0]
    /\ opmap = 0 /\ entries = <<>> /\ entry = [c \in Conns |-> 0]

(* The commands decoded, each by its connection and its number there.      *)
Commands == UNION {{c} \X (1..decoded[c]) : c \in Conns}

At(f, c, v) == f' = [f EXCEPT ![c] = v]

-----------------------------------------------------------------------------
(* The accept loop.                                                        *)

(* The router starts and closes when it pleases (ProxyLifecycle).          *)
RouterMoves ==
    /\ \/ router = "starting" /\ router' \in {"online", "closed"}
       \/ router = "online" /\ router' = "closed"
    /\ UNCHANGED <<acceptor, backoff, countVars, queueVars, flush, local, opVars>>

(* A temporary error: acceptConn sleeps and tries again.                   *)
AcceptAgain ==
    /\ acceptor = "accept"
    /\ backoff' = NextValue(backoff, DelayMin, DelayMax)
    /\ UNCHANGED <<router, acceptor, countVars, queueVars, flush, local, opVars>>

(* MUTANT, not the code: the sessions before this one are compared.        *)
TooManyBefore == alive > MaxClients

TooMany == alive + 1 > MaxClients

(* A connection is accepted; incrSessions returns the new count.           *)
Accept(c) ==
    /\ acceptor = "accept" /\ sess[c] = "none"
    /\ alive' = alive + 1
    /\ At(sess, c, IF TooMany THEN "tooMany" ELSE "counted")
    /\ acceptor' = "admit" /\ backoff' = 0
    /\ UNCHANGED <<router, queueVars, flush, local, opVars>>

(* MUTANT, not the code: it stays counted.                                 *)
UncountForgotten == UNCHANGED alive

(* decrSessions, for a session that is turned away.                        *)
Uncount == alive' = alive - 1

(* The session starts, or is turned away in a goroutine of its own.        *)
Admit(c) ==
    /\ sess[c] \in {"tooMany", "counted"}
    /\ IF sess[c] = "counted" /\ router = "online"
       THEN At(sess, c, "running") /\ UNCHANGED alive
       ELSE At(sess, c, "rejected") /\ Uncount
    /\ acceptor' = "accept"
    /\ UNCHANGED <<router, backoff, queueVars, flush, local, opVars>>

(* That goroutine counts a failure and flushes.                            *)
Reject(c) ==
    /\ sess[c] = "rejected"
    /\ At(sess, c, "rejecting")
    /\ local' = [local EXCEPT ![c].fails = @ + 1]
    /\ At(flush, c, "total")
    /\ UNCHANGED <<acceptVars, alive, queueVars, opVars>>

-----------------------------------------------------------------------------
(* A session that runs.                                                    *)

(* loopReader counts the command and queues it, or gives up: some command  *)
(* is waiting already.  BOUND: SessionMaxPipeline is zero for that.        *)
Decode(c) ==
    /\ sess[c] = "running" /\ reader[c] = "decode"
    /\ Cardinality(Commands) < MaxCommands
    /\ At(decoded, c, decoded[c] + 1)
    /\ \/ /\ At(queued, c, queued[c] + 1)
          /\ local' = [local EXCEPT ![c].total = @ + 1]
          /\ UNCHANGED reader
       \/ /\ queued[c] > 0
          /\ At(reader, c, "end")
          /\ local' = [local EXCEPT ![c].total = @ + 1, ![c].fails = @ + 1]
          /\ UNCHANGED queued
    /\ UNCHANGED <<acceptVars, countVars, flush, opVars>>

ReaderEnds(c) ==
    /\ sess[c] = "running" /\ reader[c] = "decode"
    /\ At(reader, c, "end")
    /\ UNCHANGED <<acceptVars, countVars, decoded, queued, flush, local, opVars>>

(* loopWriter counts the next command, and may flush after a reply.        *)
Count(c) ==
    /\ sess[c] = "running" /\ queued[c] > 0 /\ flush[c] = "none"
    /\ At(queued, c, queued[c] - 1)
    /\ \/ /\ local' = [local EXCEPT ![c].calls = @ + 1]
          /\ flush' \in {flush, [flush EXCEPT ![c] = "total"]}
       \/ /\ local' = [local EXCEPT ![c].failed = @ + 1]
          /\ UNCHANGED flush
    /\ UNCHANGED <<acceptVars, countVars, reader, decoded, opVars>>

(* loopWriter ends after loopReader, with the queue drained, and flushes.  *)
LastFlush(c) ==
    /\ sess[c] = "running" /\ reader[c] = "end"
    /\ queued[c] = 0 /\ flush[c] = "none"
    /\ At(sess, c, "ending") /\ At(flush, c, "total")
    /\ UNCHANGED <<acceptVars, alive, queueVars, local, opVars>>

(* decrSessions after loopWriter; who was rejected was uncounted before.   *)
SessionEnds(c) ==
    /\ sess[c] \in {"ending", "rejecting"} /\ flush[c] = "none"
    /\ At(sess, c, IF sess[c] = "ending" THEN "over" ELSE "away")
    /\ alive' = IF sess[c] = "ending" THEN alive - 1 ELSE alive
    /\ UNCHANGED <<acceptVars, queueVars, flush, local, opVars>>

-----------------------------------------------------------------------------
(* flushOpStats: each counter is swapped for zero and added to cmdstats.   *)

(* MUTANT, not the code: the total waits for a flush of nothing else.      *)
FlushTotalLater(c) ==
    /\ flush[c] = "total"
    /\ IF local[c].calls + local[c].failed = 0
       THEN /\ At(flush, c, "fails")
            /\ op' = [op EXCEPT !.total = @ + local[c].total]
            /\ local' = [local EXCEPT ![c].total = 0]
       ELSE At(flush, c, "lookup") /\ UNCHANGED <<op, local>>
    /\ UNCHANGED <<acceptVars, countVars, queueVars, opmap, entries, entry>>

FlushTotal(c) ==
    /\ flush[c] = "total" /\ At(flush, c, "fails")
    /\ op' = [op EXCEPT !.total = @ + local[c].total]
    /\ local' = [local EXCEPT ![c].total = 0]
    /\ UNCHANGED <<acceptVars, countVars, queueVars, opmap, entries, entry>>

(* The opmap is looked at next; nothing has to be flushed without counts.  *)
FlushFails(c) ==
    /\ flush[c] = "fails"
    /\ At(flush, c, IF local[c].calls + local[c].failed = 0 THEN "none"
                                                            ELSE "lookup")
    /\ op' = [op EXCEPT !.fails = @ + local[c].fails]
    /\ local' = [local EXCEPT ![c].fails = 0]
    /\ UNCHANGED <<acceptVars, countVars, queueVars, opmap, entries, entry>>

(* MUTANT, not the code: the entry is made without a second look.          *)
CreateAgain(c) ==
    \/ /\ flush[c] = "lookup"
       /\ At(flush, c, IF opmap = 0 THEN "create" ELSE "calls")
       /\ At(entry, c, opmap) /\ UNCHANGED <<opmap, entries>>
    \/ /\ flush[c] = "create" /\ At(flush, c, "calls")
       /\ entries' = Append(entries, [calls |-> 0, fails |-> 0])
       /\ opmap' = Len(entries) + 1
       /\ At(entry, c, opmap')

(* getOpStats: look under the read lock, look again under the other one.   *)
GetOpStats(c) ==
    \/ /\ flush[c] = "lookup"
       /\ At(flush, c, IF opmap = 0 THEN "create" ELSE "calls")
       /\ At(entry, c, opmap) /\ UNCHANGED <<opmap, entries>>
    \/ /\ flush[c] = "create" /\ At(flush, c, "calls")
       /\ IF opmap = 0
          THEN /\ entries' = Append(entries, [calls |-> 0, fails |-> 0])
               /\ opmap' = Len(entries) + 1
          ELSE UNCHANGED <<opmap, entries>>
       /\ At(entry, c, opmap')

FlushEntry(c) ==
    /\ GetOpStats(c)
    /\ UNCHANGED <<acceptVars, countVars, queueVars, local, op>>

(* incrOpStats: the calls, then the failures, here and in cmdstats.        *)
FlushCalls(c) ==
    /\ flush[c] = "calls" /\ At(flush, c, "opfails")
    /\ entries' = [entries EXCEPT ![entry[c]].calls = @ + local[c].calls]
    /\ local' = [local EXCEPT ![c].calls = 0]
    /\ UNCHANGED <<acceptVars, countVars, queueVars, op, opmap, entry>>

FlushOpFails(c) ==
    /\ flush[c] = "opfails" /\ At(flush, c, "none")
    /\ entries' = [entries EXCEPT ![entry[c]].fails = @ + local[c].failed]
    /\ op' = [op EXCEPT !.fails = @ + local[c].failed]
    /\ local' = [local EXCEPT ![c].failed = 0]
    /\ UNCHANGED <<acceptVars, countVars, queueVars, opmap, entry>>

-----------------------------------------------------------------------------
Flush(c) ==
    FlushTotal(c) \/ FlushFails(c) \/ FlushEntry(c) \/ FlushCalls(c)
    \/ FlushOpFails(c)

Next ==
    \/ RouterMoves \/ AcceptAgain
    \/ \E c \in Conns :
          \/ Accept(c) \/ Admit(c) \/ Reject(c)
          \/ Decode(c) \/ ReaderEnds(c) \/ Count(c)
          \/ LastFlush(c) \/ SessionEnds(c) \/ Flush(c)

Spec == Init /\ [][Next]_vars

-----------------------------------------------------------------------------
(* Properties.                                                             *)

Admitting == {c \in Conns : sess[c] \in {"tooMany", "counted"}}
Serving == {c \in Conns : sess[c] \in {"running", "ending"}}

(* Every variable has its type.                                            *)
TypeOK ==
    /\ router \in {"starting", "online", "closed"}
    /\ acceptor \in {"accept", "admit"}
    /\ backoff \in {0} \cup DelayMin..DelayMax
    /\ sess \in [Conns -> {"none", "tooMany", "counted", "rejected",
                           "rejecting", "away", "running", "ending", "over"}]
    /\ alive \in Nat
    /\ reader \in [Conns -> {"decode", "end"}]
    /\ decoded \in [Conns -> Nat]
    /\ queued \in [Conns -> Nat]
    /\ flush \in [Conns -> {"none", "total", "fails", "lookup", "create",
                            "calls", "opfails"}]
    /\ local \in [Conns -> [total : Nat, fails : Nat, calls : Nat, failed : Nat]]
    /\ op \in [total : Nat, fails : Nat]
    /\ opmap \in 0..Len(entries)
    /\ entries \in Seq([calls : Nat, fails : Nat])
    /\ entry \in [Conns -> 0..Len(entries)]

(* The number of sessions, raised before the test and lowered on four ways *)
(* out, is exact, and never more clients are served than the limit allows  *)
(* (session.go 72-105).                                                    *)
AliveExact ==
    /\ alive = Cardinality(Serving \cup Admitting)
    /\ Cardinality(Serving) <= MaxClients

(* A client is told "max number of clients reached" only when that many    *)
(* are served: those that are being turned away do not count (session.go   *)
(* 74-82).                                                                 *)
RejectedOnlyWhenFull ==
    [][\A c \in Conns : sess[c] = "none" /\ sess'[c] = "tooMany" =>
           Cardinality(Serving) = MaxClients]_vars

Calls == IF opmap = 0 THEN 0 ELSE entries[opmap].calls
Failed == IF opmap = 0 THEN 0 ELSE entries[opmap].fails

(* When every session is over the process has counted every command, each  *)
(* once, as replied to or as failed, and one failure for every client that *)
(* was turned away (session.go 153-160, 260-276, stats.go 93-110, 156-168).*)
StatisticsComplete ==
    (\A c \in Conns : sess[c] \in {"none", "away", "over"}) =>
        /\ op.total = Cardinality(Commands)
        /\ op.total + Cardinality({c \in Conns : sess[c] = "away"}) =
              Calls + op.fails
=============================================================================
