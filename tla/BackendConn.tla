----------------------------- MODULE BackendConn -----------------------------
(***************************************************************************)
(* One pipelined connection of the router to a redis server                *)
(* (src/pkg/proxy/pool.go, type BackendConn, with the FlushEncoder of      *)
(* src/pkg/proxy/redis/conn.go).                                           *)
(*                                                                         *)
(* Callers push requests without blocking into the channel `input`.  One   *)
(* writer goroutine (run / loopWriter) serves them in rounds: a round      *)
(* dials the server, starts a reader goroutine (loopReader) of its own,    *)
(* and hands every encoded request to it over the channel `tasks`.  The    *)
(* reader matches replies with requests by position only.  When anything   *)
(* fails the round is torn down, what is queued is answered with an error, *)
(* and the writer starts the next round.  The reader of an old round can   *)
(* outlive it, so connections are numbered and each has its own reader.    *)
(*                                                                         *)
(* A request is pushed at most once; the server answers the requests it    *)
(* was sent in order, one reply each (the redis protocol).                 *)
(***************************************************************************)
EXTENDS Integers, Sequences, FiniteSets

CONSTANTS
    Requests,     \* the requests callers may push
    Unbatched,    \* those with Batch = nil: the PINGs of KeepAlive
    ReadOnly,     \* those whose OpFlag says read-only
    NoReq,        \* "no reply": not a request
    InputCap,     \* capacity of bc.input, 10240 in the code
    TaskCap,      \* capacity of tasks: config.BackendMaxPipeline, may be 0
    FreeRetries,  \* failed rounds before the writer starts to back off: 10
    MaxConns      \* BOUND: successful dials of one behaviour

ASSUME BackendConnAssumption ==
    /\ Unbatched \subseteq Requests
    /\ ReadOnly \subseteq Requests
    /\ NoReq \notin Requests
    /\ InputCap \in Nat \ {0}
    /\ TaskCap \in Nat
    /\ FreeRetries \in Nat
    /\ MaxConns \in Nat

Conns == 1..MaxConns

VARIABLES
    input,        \* the channel bc.input
    inputClosed,  \* close(bc.input) has happened
    closed,       \* bc.closed
    state,        \* bc.state: 0, stateConnected, stateDataStale
    wpc,          \* where the writer goroutine is
    whand,        \* the request the writer works on, or NoReq
    cur,          \* the connection of the last round that dialled
    nbuffered,    \* FlushEncoder.nbuffered of that connection
    left,         \* the loop counter of the drain at the end of a round
    failed,       \* this round ends with an error
    fails,        \* bc.retry.fails, saturating at FreeRetries + 1
    tasks,        \* per connection: the channel from writer to reader
    tasksClosed,  \* per connection: close(tasks) has happened
    rpc,          \* per connection: where its reader is
    rhand,        \* per connection: the request its reader works on, or NoReq
    stream,       \* per connection: encoded requests not replied to yet
    sent,         \* per connection: how many of `stream` left the buffer
    conn,         \* per connection: none, up, failed (peer, net, timeout), closed
    pushed,       \* the requests PushBack was called with
    panicked,     \* those whose PushBack panicked
    broken,       \* the requests whose session has gone
    keeper,       \* where KeepAlive is: idle, ping, info, or its panic
    burst,        \* requests pushed since it found the input empty
    infos,        \* its INFO requests whose callback has not run
    batch,        \* the counter of each request's Batch
    reply,        \* r.Resp: whose reply it is, NoReq for nil
    err           \* r.Err

chanVars == <<input, inputClosed, closed>>
writerVars == <<wpc, whand, cur, nbuffered, left, failed, fails>>
linkVars == <<tasks, tasksClosed, rpc, rhand, stream, sent, conn>>
keepVars == <<keeper, burst, infos>>
callerVars == <<pushed, panicked, broken, keeper, burst, infos>>
answerVars == <<batch, reply, err>>
vars == <<chanVars, state, writerVars, linkVars, callerVars, answerVars>>

WriterStates == {"top", "dial", "recv", "write", "send", "teardown",
                 "drain", "delay", "exit"}
ReaderStates == {"none", "recv", "decode", "drain", "done"}
Errors == {"nil", "reset", "failure", "broken"}

(* What r.Resp, a goroutine's local r, ... may hold.                       *)
MaybeReq == Requests \cup {NoReq}

Init ==
    /\ input = <<>> /\ inputClosed = FALSE /\ closed = FALSE
    /\ state = "down"
    /\ wpc = "top" /\ whand = NoReq /\ cur = 0
    /\ nbuffered = 0 /\ left = 0 /\ failed = FALSE /\ fails = 0
    /\ tasks = [c \in Conns |-> <<>>]
    /\ tasksClosed = [c \in Conns |-> FALSE]
    /\ rpc = [c \in Conns |-> "none"]
    /\ rhand = [c \in Conns |-> NoReq]
    /\ stream = [c \in Conns |-> <<>>]
    /\ sent = [c \in Conns |-> 0]
    /\ conn = [c \in Conns |-> "none"]
    /\ pushed = {} /\ panicked = {} /\ broken = {}
    /\ keeper = "idle" /\ burst = 0 /\ infos = {}
    /\ batch = [r \in Requests |-> 0]
    /\ reply = [r \in Requests |-> NoReq]
    /\ err = [r \in Requests |-> "nil"]

-----------------------------------------------------------------------------
(* Helpers of the code.                                                    *)

(* WaitGroup.Add(1) and Done on r.Batch, both guarded by Batch != nil.     *)
BatchAdd(r) == IF r \in Unbatched THEN batch ELSE [batch EXCEPT ![r] = @ + 1]
BatchDone(r) == IF r \in Unbatched THEN batch ELSE [batch EXCEPT ![r] = @ - 1]

(* setResponse: the answer first, then Batch.Done().                       *)
setResponse(r, resp, e) ==
    /\ reply' = [reply EXCEPT ![r] = resp]
    /\ err' = [err EXCEPT ![r] = e]
    /\ batch' = BatchDone(r)

HasRoom == Len(input) < InputCap

(* p.MaxBuffered = cap(tasks) / 2.                                         *)
MaxBuffered == TaskCap \div 2

(* MUTANT, not the code: nothing is flushed because the buffer is full.   *)
NeverNeedFlush == FALSE

(* NeedFlush looks at nbuffered after the encoded request is counted.      *)
NeedFlush == MaxBuffered < nbuffered + 1

(* A send on an unbuffered channel needs a reader waiting in a receive.    *)
TaskRoom(c) ==
    \/ Len(tasks[c]) < TaskCap
    \/ TaskCap = 0 /\ tasks[c] = <<>> /\ rpc[c] \in {"recv", "drain"}

(* The number of requests the drain at the end of a round takes.           *)
DrainCount == Len(input)

(* CompareAndSwap(stateConnected, stateDataStale).                         *)
MarkStale(s) == IF s = "connected" THEN "stale" ELSE s

-----------------------------------------------------------------------------
(* Callers: PushBack, Close, and the sessions the requests came from.      *)

PushAccepted(r) ==
    /\ ~inputClosed /\ HasRoom
    /\ input' = Append(input, r)
    /\ batch' = BatchAdd(r)
    /\ panicked' = panicked
    /\ UNCHANGED <<reply, err>>

(* MUTANT, not the code: the default branch forgets Batch.Done().         *)
PushDroppedNoDone(r) ==
    /\ ~inputClosed /\ ~HasRoom
    /\ batch' = BatchAdd(r)
    /\ UNCHANGED <<input, panicked, reply, err>>

(* The default branch: Batch.Done() and nothing else.  A nil Batch is      *)
(* dereferenced.                                                           *)
PushDropped(r) ==
    /\ ~inputClosed /\ ~HasRoom
    /\ panicked' = IF r \in Unbatched THEN panicked \cup {r} ELSE panicked
    /\ UNCHANGED <<input, answerVars>>

(* A send on the closed channel panics after Batch.Add(1).                 *)
PushPanics(r) ==
    /\ inputClosed
    /\ panicked' = panicked \cup {r}
    /\ batch' = BatchAdd(r)
    /\ UNCHANGED <<input, reply, err>>

Push(r) ==
    /\ r \notin pushed
    /\ pushed' = pushed \cup {r}
    /\ PushAccepted(r) \/ PushDropped(r) \/ PushPanics(r)
    /\ UNCHANGED <<inputClosed, closed, state, writerVars, linkVars, broken>>

PushBack(r) ==
    /\ r \notin Unbatched /\ Push(r)
    /\ burst' = IF keeper = "idle" THEN 0 ELSE burst + 1
    /\ UNCHANGED <<keeper, infos>>

(* Close: close(input) once, then closed.Set(true).                        *)
CloseInput ==
    /\ ~inputClosed
    /\ inputClosed' = TRUE
    /\ UNCHANGED <<input, closed, state, writerVars, linkVars, callerVars,
                   answerVars>>

CloseFlag ==
    /\ inputClosed /\ ~closed
    /\ closed' = TRUE
    /\ UNCHANGED <<input, inputClosed, state, writerVars, linkVars,
                   callerVars, answerVars>>

(* The session of r ends: r.Broken is set.                                 *)
SessionBreaks(r) ==
    /\ r \in ReadOnly \ broken
    /\ broken' = broken \cup {r}
    /\ UNCHANGED <<chanVars, state, writerVars, linkVars, pushed, panicked,
                   keepVars, answerVars>>

-----------------------------------------------------------------------------
(* KeepAlive: first it looks, then it pushes a PING or an INFO.            *)

(* MUTANT, not the code: it does not look at the input.                    *)
KeepAliveLooksNot ==
    /\ keeper = "idle"
    /\ keeper' = (IF state = "stale" THEN "info" ELSE "ping") /\ burst' = 0
    /\ UNCHANGED <<chanVars, state, writerVars, linkVars, pushed, panicked,
                   broken, infos, answerVars>>

KeepAliveLook ==
    /\ keeper = "idle" /\ input = <<>>
    /\ keeper' = (IF state = "stale" THEN "info" ELSE "ping") /\ burst' = 0
    /\ UNCHANGED <<chanVars, state, writerVars, linkVars, pushed, panicked,
                   broken, infos, answerVars>>

(* What panics in KeepAlive, a PING without a Batch that finds no room or  *)
(* a send on the closed channel, ends the process.                         *)
KeepAlivePush(r) ==
    /\ \/ keeper = "ping" /\ r \in Unbatched
       \/ keeper = "info" /\ r \notin Unbatched \cup ReadOnly
    /\ Push(r)
    /\ \/ /\ r \in panicked' /\ keeper' = "panic"
          /\ UNCHANGED <<burst, infos>>
       \/ /\ r \notin panicked' /\ keeper' = "idle" /\ burst' = 0
          /\ infos' = IF keeper = "info" THEN infos \cup {r} ELSE infos

(* MUTANT, not the code: Set(stateConnected) without the comparison.       *)
RestoredSet(s) == "connected"

(* CompareAndSwap(stateDataStale, stateConnected).                         *)
Restored(s) == IF s = "stale" THEN "connected" ELSE s

(* The function sent to keepAliveCallback waits for the Batch; a reply     *)
(* that reports neither a broken link nor loading restores the state, of   *)
(* whatever round it is by then.                                           *)
InfoCallback(r) ==
    /\ r \in infos /\ batch[r] = 0
    /\ infos' = infos \ {r}
    /\ \/ reply[r] # NoReq /\ state' = Restored(state)
       \/ UNCHANGED state
    /\ UNCHANGED <<chanVars, writerVars, linkVars, pushed, panicked, broken,
                   keeper, burst, answerVars>>

-----------------------------------------------------------------------------
(* The writer: run, loopWriter, delayBeforeRetry.                          *)

RunRound ==
    /\ wpc = "top"
    /\ wpc' = IF closed THEN "exit" ELSE "dial"
    /\ UNCHANGED <<chanVars, state, whand, cur, nbuffered, left, failed,
                   fails, linkVars, callerVars, answerVars>>

(* newBackendReader fails: dial, AUTH or SELECT.  Only the drain runs.     *)
DialFail ==
    /\ wpc = "dial"
    /\ wpc' = "drain" /\ left' = DrainCount /\ failed' = TRUE
    /\ UNCHANGED <<chanVars, state, whand, cur, nbuffered, fails, linkVars,
                   callerVars, answerVars>>

DialOK ==
    /\ wpc = "dial" /\ cur < MaxConns
    /\ wpc' = "recv" /\ cur' = cur + 1
    /\ rpc' = [rpc EXCEPT ![cur + 1] = "recv"]
    /\ conn' = [conn EXCEPT ![cur + 1] = "up"]
    /\ state' = "connected"
    /\ fails' = 0 /\ nbuffered' = 0
    /\ UNCHANGED <<chanVars, whand, left, failed, tasks, tasksClosed, rhand,
                   stream, sent, callerVars, answerVars>>

(* The head of the input channel and what remains of it.                   *)
TakeInput(r) ==
    /\ input # <<>>
    /\ r = Head(input)
    /\ input' = Tail(input)

ReadBroken(r) == r \in ReadOnly /\ r \in broken

(* MUTANT, not the code: the broken request is encoded before the test.   *)
TakeBrokenEncoded(r) ==
    /\ wpc = "recv" /\ ReadBroken(r)
    /\ TakeInput(r)
    /\ setResponse(r, NoReq, "broken")
    /\ stream' = [stream EXCEPT ![cur] = Append(@, r)]
    /\ UNCHANGED <<inputClosed, closed, state, writerVars, tasks,
                   tasksClosed, rpc, rhand, sent, conn, callerVars>>

(* IsReadOnly && IsBroken: answered without being encoded; the loop goes   *)
(* on with the next receive and does not flush.                            *)
TakeBroken(r) ==
    /\ wpc = "recv" /\ ReadBroken(r)
    /\ TakeInput(r)
    /\ setResponse(r, NoReq, "broken")
    /\ UNCHANGED <<inputClosed, closed, state, writerVars, linkVars,
                   callerVars>>

Take(r) ==
    /\ wpc = "recv" /\ ~ReadBroken(r)
    /\ TakeInput(r)
    /\ wpc' = "write" /\ whand' = r
    /\ UNCHANGED <<inputClosed, closed, state, cur, nbuffered, left, failed,
                   fails, linkVars, callerVars, answerVars>>

(* EncodeMultiBulk and Flush succeed and the buffer is flushed.  Bytes     *)
(* written to a failed connection are lost.                                *)
WriteFlush ==
    /\ wpc = "write" /\ conn[cur] # "closed"
    /\ wpc' = "send"
    /\ stream' = [stream EXCEPT ![cur] = Append(@, whand)]
    /\ sent' = [sent EXCEPT ![cur] =
                   IF conn[cur] = "up" THEN Len(stream[cur]) + 1 ELSE @]
    /\ nbuffered' = 0
    /\ UNCHANGED <<chanVars, state, whand, cur, left, failed, fails, tasks,
                   tasksClosed, rpc, rhand, conn, callerVars, answerVars>>

(* MUTANT, not the code: a burst that ends below the limit stays buffered.*)
MustFlushFull == NeedFlush

MustFlush == input = <<>> \/ NeedFlush

(* They succeed and the request stays in the buffer: there is more input,  *)
(* the limit is not reached, and the last write is not 1ms old.  Encoding  *)
(* may overflow the buffer, which sends what was in it before.             *)
WriteBuffer ==
    /\ wpc = "write" /\ ~MustFlush
    /\ wpc' = "send"
    /\ stream' = [stream EXCEPT ![cur] = Append(@, whand)]
    /\ \/ sent' = sent
       \/ conn[cur] = "up" /\ sent' = [sent EXCEPT ![cur] = Len(stream[cur])]
    /\ nbuffered' = nbuffered + 1
    /\ UNCHANGED <<chanVars, state, whand, cur, left, failed, fails, tasks,
                   tasksClosed, rpc, rhand, conn, callerVars, answerVars>>

(* MUTANT, not the code: the request that failed still goes to the reader.*)
WriteFailContinues ==
    /\ wpc = "write" /\ conn[cur] # "up"
    /\ setResponse(whand, NoReq, "failure")
    /\ wpc' = "send"
    /\ stream' = [stream EXCEPT ![cur] = Append(@, whand)]
    /\ sent' = [sent EXCEPT ![cur] = Len(stream[cur]) + 1]
    /\ UNCHANGED <<chanVars, state, whand, cur, nbuffered, left, failed,
                   fails, tasks, tasksClosed, rpc, rhand, conn, callerVars>>

(* Either returns an error: the request is answered, the round ends.  Some *)
(* of the buffered requests may have reached the wire.                     *)
WriteFail ==
    /\ wpc = "write" /\ conn[cur] # "up"
    /\ setResponse(whand, NoReq, "failure")
    /\ wpc' = "teardown" /\ whand' = NoReq /\ failed' = TRUE
    /\ stream' = [stream EXCEPT ![cur] = Append(@, whand)]
    /\ \E n \in sent[cur]..Len(stream[cur]) + 1 :
          sent' = [sent EXCEPT ![cur] = n]
    /\ UNCHANGED <<chanVars, state, cur, nbuffered, left, fails, tasks,
                   tasksClosed, rpc, rhand, conn, callerVars>>

(* tasks <- r, blocking.                                                   *)
Send ==
    /\ wpc = "send" /\ TaskRoom(cur)
    /\ tasks' = [tasks EXCEPT ![cur] = Append(@, whand)]
    /\ wpc' = "recv" /\ whand' = NoReq
    /\ UNCHANGED <<chanVars, state, cur, nbuffered, left, failed, fails,
                   tasksClosed, rpc, rhand, stream, sent, conn, callerVars,
                   answerVars>>

(* MUTANT, not the code: the loop stops at Close with requests queued.    *)
InputDoneEarly == inputClosed

InputDone == inputClosed /\ input = <<>>

(* The range over the closed input ends: return nil.                       *)
Finish ==
    /\ wpc = "recv" /\ InputDone
    /\ wpc' = "teardown" /\ failed' = FALSE
    /\ UNCHANGED <<chanVars, state, whand, cur, nbuffered, left, fails,
                   linkVars, callerVars, answerVars>>

(* The deferred calls, last first: state.Set(0), close(tasks), then the    *)
(* drain, which looks at len(bc.input) once.                               *)
Teardown ==
    /\ wpc = "teardown"
    /\ state' = "down"
    /\ tasksClosed' = [tasksClosed EXCEPT ![cur] = TRUE]
    /\ wpc' = "drain" /\ left' = DrainCount
    /\ UNCHANGED <<chanVars, whand, cur, nbuffered, failed, fails, tasks,
                   rpc, rhand, stream, sent, conn, callerVars, answerVars>>

DrainOne(r) ==
    /\ wpc = "drain" /\ left > 0
    /\ TakeInput(r)
    /\ setResponse(r, NoReq, "reset")
    /\ left' = left - 1
    /\ UNCHANGED <<inputClosed, closed, state, wpc, whand, cur, nbuffered,
                   failed, fails, linkVars, callerVars>>

(* loopWriter returns; an error leads to delayBeforeRetry, which does not  *)
(* wait for the first FreeRetries failures in a row.                       *)
DrainDone ==
    /\ wpc = "drain" /\ left = 0
    /\ fails' = IF failed /\ fails <= FreeRetries THEN fails + 1 ELSE fails
    /\ wpc' = IF failed /\ fails >= FreeRetries /\ ~closed
              THEN "delay" ELSE "top"
    /\ UNCHANGED <<chanVars, state, whand, cur, nbuffered, left, failed,
                   linkVars, callerVars, answerVars>>

(* The wait of delayBeforeRetry: requests are answered meanwhile, until    *)
(* the timer fires, the input is closed, or closed is seen.                *)
DelayAnswer(r) ==
    /\ wpc = "delay"
    /\ TakeInput(r)
    /\ setResponse(r, NoReq, "reset")
    /\ wpc' = IF closed THEN "top" ELSE "delay"
    /\ UNCHANGED <<inputClosed, closed, state, whand, cur, nbuffered, left,
                   failed, fails, linkVars, callerVars>>

DelayOver ==
    /\ wpc = "delay"
    /\ wpc' = "top"
    /\ UNCHANGED <<chanVars, state, whand, cur, nbuffered, left, failed,
                   fails, linkVars, callerVars, answerVars>>

-----------------------------------------------------------------------------
(* The reader of connection c: loopReader.                                 *)

ReaderTake(c) ==
    /\ rpc[c] = "recv" /\ tasks[c] # <<>>
    /\ rpc' = [rpc EXCEPT ![c] = "decode"]
    /\ rhand' = [rhand EXCEPT ![c] = Head(tasks[c])]
    /\ tasks' = [tasks EXCEPT ![c] = Tail(@)]
    /\ UNCHANGED <<chanVars, state, writerVars, tasksClosed, stream, sent,
                   conn, callerVars, answerVars>>

(* The next reply on the wire is the one to the oldest unanswered request. *)
(* A MASTERDOWN or LOADING error marks the connection as stale.            *)
ReaderDecode(c) ==
    /\ rpc[c] = "decode" /\ conn[c] # "closed" /\ sent[c] > 0
    /\ setResponse(rhand[c], Head(stream[c]), "nil")
    /\ rpc' = [rpc EXCEPT ![c] = "recv"]
    /\ rhand' = [rhand EXCEPT ![c] = NoReq]
    /\ stream' = [stream EXCEPT ![c] = Tail(@)]
    /\ sent' = [sent EXCEPT ![c] = @ - 1]
    /\ state' \in {state, MarkStale(state)}
    /\ UNCHANGED <<chanVars, writerVars, tasks, tasksClosed, conn,
                   callerVars>>

(* MUTANT, not the code: the reader returns without emptying tasks.       *)
ReaderFailNoDrain(c) ==
    /\ rpc[c] = "decode" /\ conn[c] = "failed"
    /\ setResponse(rhand[c], NoReq, "failure")
    /\ rpc' = [rpc EXCEPT ![c] = "done"]
    /\ rhand' = [rhand EXCEPT ![c] = NoReq]
    /\ conn' = [conn EXCEPT ![c] = "closed"]
    /\ UNCHANGED <<chanVars, state, writerVars, tasks, tasksClosed, stream,
                   sent, callerVars>>

(* Decode fails: this request is answered with the failure, the deferred   *)
(* function closes the connection and answers what is or will be in tasks. *)
ReaderFail(c) ==
    /\ rpc[c] = "decode" /\ conn[c] = "failed"
    /\ setResponse(rhand[c], NoReq, "failure")
    /\ rpc' = [rpc EXCEPT ![c] = "drain"]
    /\ rhand' = [rhand EXCEPT ![c] = NoReq]
    /\ conn' = [conn EXCEPT ![c] = "closed"]
    /\ UNCHANGED <<chanVars, state, writerVars, tasks, tasksClosed, stream,
                   sent, callerVars>>

ReaderDrain(c) ==
    /\ rpc[c] = "drain" /\ tasks[c] # <<>>
    /\ setResponse(Head(tasks[c]), NoReq, "reset")
    /\ tasks' = [tasks EXCEPT ![c] = Tail(@)]
    /\ UNCHANGED <<chanVars, state, writerVars, tasksClosed, rpc, rhand,
                   stream, sent, conn, callerVars>>

(* The range over the closed tasks ends, in the loop or in the deferred    *)
(* function; the connection is closed by then.                             *)
ReaderDone(c) ==
    /\ rpc[c] \in {"recv", "drain"} /\ tasks[c] = <<>> /\ tasksClosed[c]
    /\ rpc' = [rpc EXCEPT ![c] = "done"]
    /\ conn' = [conn EXCEPT ![c] = "closed"]
    /\ UNCHANGED <<chanVars, state, writerVars, tasks, tasksClosed, rhand,
                   stream, sent, callerVars, answerVars>>

(* The peer or the network fails, or a read or write times out.            *)
Break(c) ==
    /\ conn[c] = "up"
    /\ conn' = [conn EXCEPT ![c] = "failed"]
    /\ UNCHANGED <<chanVars, state, writerVars, tasks, tasksClosed, rpc,
                   rhand, stream, sent, callerVars, answerVars>>

-----------------------------------------------------------------------------
Caller ==
    \/ \E r \in Requests : PushBack(r) \/ SessionBreaks(r)
    \/ CloseInput \/ CloseFlag

Keeper ==
    \/ KeepAliveLook
    \/ \E r \in Requests : KeepAlivePush(r) \/ InfoCallback(r)

Writer ==
    \/ RunRound \/ DialFail \/ DialOK
    \/ \E r \in Requests :
          TakeBroken(r) \/ Take(r) \/ DrainOne(r) \/ DelayAnswer(r)
    \/ WriteFlush \/ WriteBuffer \/ WriteFail \/ Send \/ Finish
    \/ Teardown \/ DrainDone \/ DelayOver

Reader(c) ==
    \/ ReaderTake(c) \/ ReaderDecode(c) \/ ReaderFail(c)
    \/ ReaderDrain(c) \/ ReaderDone(c)

(* A panic in KeepAlive has not ended the process.                         *)
Up == keeper # "panic"

Next ==
    /\ Up
    /\ \/ Caller \/ Keeper
       \/ Writer
       \/ \E c \in Conns : Reader(c) \/ Break(c)

(* The reader gets a reply or, from a server that is silent, a timeout.     *)
ReaderProgress(c) == Reader(c) \/ (rpc[c] = "decode" /\ Break(c))

(* Both goroutines are scheduled, Close finishes once it has begun, and    *)
(* the receive timeout is configured (BackendRecvTimeout is 30s).          *)
Fairness ==
    /\ WF_vars(Up /\ Writer)
    /\ WF_vars(Up /\ CloseFlag)
    /\ \A c \in Conns : WF_vars(Up /\ ReaderProgress(c))

Spec == Init /\ [][Next]_vars

FairSpec == Spec /\ Fairness
-----------------------------------------------------------------------------
(* Properties.                                                             *)

FlagsOK ==
    /\ inputClosed \in BOOLEAN /\ closed \in BOOLEAN /\ failed \in BOOLEAN
    /\ tasksClosed \in [Conns -> BOOLEAN]
WriterOK ==
    /\ input \in Seq(Requests) /\ Len(input) <= InputCap
    /\ state \in {"down", "connected", "stale"}
    /\ wpc \in WriterStates /\ whand \in MaybeReq
    /\ cur \in 0..MaxConns /\ nbuffered \in Nat /\ left \in Nat
    /\ fails \in 0..FreeRetries + 1
LinksOK ==
    /\ tasks \in [Conns -> Seq(Requests)]
    /\ rpc \in [Conns -> ReaderStates] /\ rhand \in [Conns -> MaybeReq]
    /\ stream \in [Conns -> Seq(Requests)] /\ sent \in [Conns -> Nat]
    /\ conn \in [Conns -> {"none", "up", "failed", "closed"}]
RequestsOK ==
    /\ pushed \subseteq Requests /\ panicked \subseteq pushed
    /\ broken \subseteq ReadOnly
    /\ keeper \in {"idle", "ping", "info", "panic"} /\ burst \in Nat
    /\ infos \subseteq Requests
    /\ batch \in [Requests -> Int] /\ reply \in [Requests -> MaybeReq]
    /\ err \in [Requests -> Errors]

(* Every variable has its type; the channels respect their capacities.     *)
TypeOK == FlagsOK /\ WriterOK /\ LinksOK /\ RequestsOK

Serving == wpc \in {"recv", "write", "send", "teardown"}

(* Replies are matched by position: a request that gets a reply gets the   *)
(* reply the server gave to it, whatever failed, broke or was torn down    *)
(* before (pool.go loopWriter 354-372, loopReader 282-303).                *)
RightReply == \A r \in Requests : reply[r] \in {NoReq, r}

(* What the writer and the reader of a connection agree on by counting:    *)
(* the unanswered requests of the stream are, oldest first, the one in the *)
(* reader's hand, those in tasks, and, while the round serves, the one the *)
(* writer is about to hand over.  After a failed write the stream may hold *)
(* one more, which nobody waits for (pool.go 282-303, 354-372).            *)
InHand(c) == IF rpc[c] = "decode" THEN 1 ELSE 0
Live(c) == c = cur /\ wpc \in {"recv", "write", "send"}

Aligned(c) ==
    /\ InHand(c) + Len(tasks[c]) <= Len(stream[c])
    /\ rpc[c] = "decode" => rhand[c] = stream[c][1]
    /\ \A i \in 1..Len(tasks[c]) : tasks[c][i] = stream[c][InHand(c) + i]
    /\ Live(c) /\ wpc # "send" =>
          Len(stream[c]) = InHand(c) + Len(tasks[c])
    /\ Live(c) /\ wpc = "send" =>
          /\ Len(stream[c]) = InHand(c) + Len(tasks[c]) + 1
          /\ stream[c][Len(stream[c])] = whand

PipelineAligned == \A c \in Conns : conn[c] # "closed" => Aligned(c)

(* The places that hold request r and will answer it.                      *)
At(r, s) == {i \in DOMAIN s : s[i] = r}
Places(r) ==
    {<<"input", 0, i>> : i \in At(r, input)}
      \cup {<<"writer", 0, 0>> : w \in {whand} \cap {r}}
      \cup {<<"reader", c, 0>> : c \in At(r, rhand)}
      \cup UNION {{<<"tasks", c, i>> : i \in At(r, tasks[c])} : c \in Conns}
Holders(r) == Cardinality(Places(r))

(* r.Batch counts exactly the places that will call Done: the session's    *)
(* Wait never returns early and never waits for a request nobody holds.    *)
(* A push that panicked is the exception (pool.go PushBack 68-79).         *)
WaitGroupExact ==
    \A r \in Requests \ (Unbatched \cup panicked) : batch[r] = Holders(r)

(* IsConnected() says yes only while a round is serving: the reader of an  *)
(* old round, or an INFO that was answered in one, may move the state, but *)
(* never out of 0 (pool.go 129, 290, 295, 342-344).                        *)
ConnectedOnlyWhileServing == state # "down" => Serving

(* A PING finds no room on an open connection, which ends the process,     *)
(* only if the whole capacity was filled after KeepAlive found the input   *)
(* empty (pool.go 81-92, 75).                                              *)
PingLostOnlyToBurst == keeper = "panic" /\ ~inputClosed => burst >= InputCap

(* When the writer waits for room in tasks and the reader for a reply, the *)
(* reply is under way: MaxBuffered forces a flush before the pipeline is   *)
(* full, also with an unbuffered tasks (pool.go 348-350, conn.go 165-175). *)
WriterBlockedReaderFed ==
    \A c \in Conns :
        wpc = "send" /\ cur = c /\ ~TaskRoom(c) /\ rpc[c] = "decode"
           /\ conn[c] = "up" => sent[c] > 0

(* A writer that waits for input has sent everything it has encoded        *)
(* (pool.go 364-367: "the data is sent, tell the task to wait for the      *)
(* reply").                                                                *)
IdleWriterFlushed ==
    wpc = "recv" /\ input = <<>> /\ conn[cur] = "up"
       => sent[cur] = Len(stream[cur])

(* It holds as long as no session breaks.                                  *)
UnbrokenIdleFlushed == broken = {} => IdleWriterFlushed

(* What is encoded but not sent is what the FlushEncoder counts, and that  *)
(* is at most half the pipeline (pool.go 350, conn.go 165-203).            *)
FlushBounded ==
    /\ nbuffered <= MaxBuffered
    /\ \A c \in Conns : Live(c) /\ conn[c] = "up" =>
          Len(stream[c]) - sent[c] <= nbuffered

(* A round that ends because of Close has taken all the input: no request  *)
(* accepted before Close is answered with a reset (pool.go 354, 329).      *)
ClosingRoundServesAll ==
    wpc \in {"teardown", "drain"} /\ ~failed => input = <<>>

(* A request whose Batch is done has its reply or an error: what           *)
(* pool_test.go asserts of every pushed request.                           *)
AnsweredHasOutcome ==
    \A r \in pushed \ Unbatched :
        batch[r] = 0 => reply[r] # NoReq \/ err[r] # "nil"

(* Where a goroutine is tells whether it has a request in hand, whether a  *)
(* connection exists, and that connections beyond cur are unused; what is  *)
(* on the wire has been encoded.                                           *)
HandsOK ==
    /\ wpc \in {"write", "send"} <=> whand # NoReq
    /\ Serving => cur \in Conns
    /\ \A c \in Conns : rpc[c] = "decode" <=> rhand[c] # NoReq
    /\ \A c \in Conns : sent[c] <= Len(stream[c])
    /\ \A c \in Conns : c > cur =>
          /\ tasks[c] = <<>> /\ stream[c] = <<>> /\ sent[c] = 0
          /\ rpc[c] = "none" /\ conn[c] = "none"

(* A reader that no longer decodes has closed its connection.              *)
StoppedOK ==
    \A c \in Conns : rpc[c] \in {"drain", "done"} => conn[c] = "closed"

(* Every request accepted is answered, unless Close or a panic intervenes. *)
EveryRequestAnswered ==
    \A r \in Requests : r \in pushed ~> (batch[r] = 0 \/ inputClosed \/ ~Up)

(* The connection implements BackendPromise: accepted once, answered once, *)
(* the answer is final.                                                    *)
Fate(r) ==
    CASE r \notin pushed -> "new"
      [] r \in panicked -> "stuck"
      [] reply[r] # NoReq -> "reply"
      [] err[r] # "nil" -> "error"
      [] OTHER -> IF Places(r) # {} THEN "waiting" ELSE "refused"

Promise == INSTANCE BackendPromise
    WITH Fragile <- Unbatched,
         promise <- [r \in Requests |-> Fate(r)],
         open <- ~inputClosed

(* The abstract specification as a property of this one (pool.go 68-79,    *)
(* 241-250 and every call of setResponse).                                 *)
PromiseKept == Promise!Spec
=============================================================================
