------------------------------- MODULE Session -------------------------------
(***************************************************************************)
(* One client session of the proxy (src/pkg/proxy/session.go) with the     *)
(* RequestChan between its two goroutines (src/pkg/proxy/request.go).      *)
(*                                                                         *)
(* loopReader decodes a command, dispatches it and pushes the request to   *)
(* the channel; loopWriter pops requests in order, waits for the answer of *)
(* each and writes the replies back.  A dispatch hands the request to a    *)
(* backend (async), or waits for it in the reader (sync: GET and the SET   *)
(* of a key without a zone); it may also fail, before or after it handed   *)
(* the request over, and the request then gets an error reply.  What a     *)
(* backend does to a request is BackendPromise, which BackendConn          *)
(* implements.                                                             *)
(***************************************************************************)
EXTENDS Integers, Sequences

CONSTANTS
    MaxCommands,     \* BOUND: commands the client sends
    MaxPipeline      \* config.SessionMaxPipeline

ASSUME SessionAssumption == MaxCommands \in Nat /\ MaxPipeline \in Nat

Commands == 1..MaxCommands

VARIABLES
    received,  \* how many whole commands connReader.Read has returned so far
    decoded,   \* how many commands were decoded; the last one's number
    kind,      \* how each command was dispatched
    promise,   \* what the backend has done with it
    open,      \* the backend connection has not been closed
    rpc,       \* where loopReader is
    data,      \* RequestChan.data
    chClosed,  \* RequestChan.closed
    waits,     \* RequestChan.waits
    wpc,       \* where loopWriter is
    serving,   \* it is in PopFrontAll, not in the deferred PopFrontAllVoid
    wreq,      \* the command it works on, 0 for none
    out,       \* the replies encoded: [cmd, answer]
    flushed,   \* how many of them were flushed
    conn,      \* the connection: open, readclosed, closed
    client,    \* up, or gone: closed, silent too long, or sends nonsense
    BreakOnFailure, \* config.SessionBreakOnFailure, either, never changed
    total,     \* the counters of session.stats: commands decoded,
    calls,     \* replied to,
    fails,     \* failed with a request,
    sfails     \* and failed without one

backendVars == <<promise, open>>
readerVars == <<received, decoded, kind, rpc, total, sfails>>
chanVars == <<data, chClosed, waits>>
writerVars == <<wpc, serving, wreq, out, flushed, calls, fails>>
connVars == <<conn, client, BreakOnFailure>>
vars == <<backendVars, readerVars, chanVars, writerVars, connVars>>

Backend == INSTANCE BackendPromise WITH Requests <- Commands, Fragile <- {}

Init ==
    /\ Backend!Init
    /\ received = 0 /\ decoded = 0 /\ kind = [i \in Commands |-> "none"]
    /\ rpc = "decode" /\ total = 0 /\ sfails = 0
    /\ data = <<>> /\ chClosed = FALSE /\ waits = 0
    /\ wpc = "pop" /\ serving = TRUE /\ wreq = 0
    /\ out = <<>> /\ flushed = 0 /\ calls = 0 /\ fails = 0
    /\ conn = "open" /\ client = "up" /\ BreakOnFailure \in BOOLEAN

-----------------------------------------------------------------------------
(* RequestChan: every operation holds its lock.                            *)

(* MUTANT, not the code: PushBack never signals.                           *)
WakeNever(pc) == pc

(* Signal or Broadcast: the parked consumer looks at the channel again.    *)
Wake(pc) == IF pc = "park" THEN "pop" ELSE pc

ChanPush(i) ==
    /\ data' = Append(data, i)
    /\ wpc' = IF waits # 0 THEN Wake(wpc) ELSE wpc
    /\ UNCHANGED <<chClosed, waits>>

(* MUTANT, not the code: closing does not wake the consumer.               *)
ChanCloseSilent ==
    /\ chClosed' = TRUE
    /\ UNCHANGED <<data, waits, wpc>>

ChanClose ==
    /\ chClosed' = TRUE
    /\ wpc' = Wake(wpc)
    /\ UNCHANGED <<data, waits>>

(* PopFront with something in the channel.                                 *)
ChanPop(i) ==
    /\ wpc = "pop" /\ data # <<>>
    /\ i = Head(data)
    /\ data' = Tail(data) /\ waits' = 0
    /\ UNCHANGED chClosed

(* PopFront with nothing in it: wait for a signal.                         *)
Park ==
    /\ wpc = "pop" /\ data = <<>> /\ ~chClosed
    /\ wpc' = "park" /\ waits' = 1
    /\ UNCHANGED <<data, chClosed, serving, wreq, out, flushed, calls, fails,
                   backendVars, readerVars, connVars>>

(* The channel is closed and empty: PopFront returns false.                *)
ChanEnds == wpc = "pop" /\ data = <<>> /\ chClosed

-----------------------------------------------------------------------------
(* loopReader and the goroutine it runs in.                                *)

TooMany == Len(data) > MaxPipeline

Buffered == decoded < received

(* connReader.Read: nothing whole is left in the buffer, and the           *)
(* connection has more commands, also of a client that has gone since.     *)
Receive ==
    /\ rpc = "decode" /\ ~Buffered /\ conn = "open"
    /\ received' \in received + 1 .. MaxCommands
    /\ UNCHANGED <<decoded, kind, rpc, total, sfails, backendVars, chanVars,
                   writerVars, connVars>>

(* MUTANT, not the code: a command decoded after the connection was closed *)
(* is counted and thrown away.                                             *)
DecodeDiscards ==
    /\ rpc = "decode" /\ Buffered
    /\ decoded' = decoded + 1 /\ total' = total + 1
    /\ rpc' = IF conn = "closed" THEN "closeread" ELSE "dispatch"
    /\ UNCHANGED <<received, kind, sfails, backendVars, chanVars, writerVars,
                   connVars>>

(* DecodeMultiBulk returns a command from the buffer, whatever has become  *)
(* of the connection; over the limit the reader gives up.                  *)
Decode ==
    /\ rpc = "decode" /\ Buffered
    /\ decoded' = decoded + 1 /\ total' = total + 1
    /\ IF TooMany
       THEN rpc' = "closeread" /\ sfails' = sfails + 1
       ELSE rpc' = "dispatch" /\ sfails' = sfails
    /\ UNCHANGED <<received, kind, backendVars, chanVars, writerVars,
                   connVars>>

(* The buffer is used up and the next Read fails, or what follows is       *)
(* nonsense.                                                               *)
DecodeFails ==
    /\ rpc = "decode" /\ ~Buffered /\ (conn # "open" \/ client = "gone")
    /\ rpc' = "closeread"
    /\ UNCHANGED <<received, decoded, kind, total, sfails, backendVars,
                   chanVars, writerVars, connVars>>

(* handleRequest returns an error and the request gets an error reply, for *)
(* a command that is not allowed, a GET from a zone that is not configured *)
(* or a SET rolled back.  If a backend still has the request, its answer   *)
(* comes later and replaces the error.                                     *)
DispatchFails ==
    /\ rpc \in {"dispatch", "wait"}
    /\ kind' = [kind EXCEPT ![decoded] =
                   IF promise[decoded] = "waiting" THEN "overtaken"
                                                   ELSE "failed"]
    /\ rpc' = "push"
    /\ UNCHANGED <<received, decoded, total, sfails, backendVars, chanVars,
                   writerVars, connVars>>

(* The request goes to a backend, which takes it, drops it, or panics in   *)
(* PushBack; dispatch recovers from the panic.                             *)
DispatchForward ==
    /\ rpc = "dispatch"
    /\ \/ Backend!Accept(decoded) \/ Backend!Refuse(decoded)
       \/ Backend!Panic(decoded)
    /\ \E k \in {"async", "sync"} :
          /\ kind' = [kind EXCEPT ![decoded] = k]
          /\ rpc' = IF k = "sync" THEN "wait" ELSE "push"
    /\ UNCHANGED <<received, decoded, total, sfails, chanVars, writerVars,
                   connVars>>

DispatchWaited ==
    /\ rpc = "wait" /\ promise[decoded] # "waiting"
    /\ rpc' = "push"
    /\ UNCHANGED <<received, decoded, kind, total, sfails, backendVars,
                   chanVars, writerVars, connVars>>

(* MUTANT, not the code: the reader goes on after a failed dispatch.       *)
GivesUpNever(i) == FALSE

GivesUp(i) == BreakOnFailure /\ kind[i] \in {"failed", "overtaken"}

PushTask ==
    /\ rpc = "push"
    /\ ChanPush(decoded)
    /\ rpc' = IF GivesUp(decoded) THEN "closeread" ELSE "decode"
    /\ UNCHANGED <<received, decoded, kind, total, sfails, serving, wreq,
                   out, flushed, calls, fails, backendVars, connVars>>

(* The deferred CloseReaderWithError: replies can still be written.        *)
CloseRead ==
    /\ rpc = "closeread"
    /\ conn' = IF conn = "open" THEN "readclosed" ELSE conn
    /\ rpc' = "closechan"
    /\ UNCHANGED <<received, decoded, kind, total, sfails, client,
                   BreakOnFailure, backendVars, chanVars, writerVars>>

(* tasks.Close() after loopReader has returned.                            *)
CloseTasks ==
    /\ rpc = "closechan"
    /\ ChanClose
    /\ rpc' = "done"
    /\ UNCHANGED <<received, decoded, kind, total, sfails, serving, wreq,
                   out, flushed, calls, fails, backendVars, connVars>>

-----------------------------------------------------------------------------
(* loopWriter.                                                             *)

PopTask(i) ==
    /\ serving /\ ChanPop(i)
    /\ wpc' = "batch" /\ wreq' = i
    /\ UNCHANGED <<serving, out, flushed, calls, fails, backendVars,
                   readerVars, connVars>>

(* MUTANT, not the code: the reply is taken without waiting for it.        *)
ReadyAlways(i) == TRUE

(* r.Batch.Wait() in handleResponse: no backend has the request.           *)
Ready(i) == promise[i] \notin {"waiting", "stuck"}

(* A request without a reply, without even an error, is an error.          *)
Answer(i) ==
    IF kind[i] # "failed" /\ promise[i] = "reply" THEN "reply" ELSE "error"

(* handleResponse returns an error; the reply of a failed dispatch is a    *)
(* reply to it unless a backend failed, too.                               *)
Fails(i) ==
    promise[i] = "error" \/ (promise[i] = "refused" /\ kind[i] # "failed")

Encoded(i) == out' = Append(out, [cmd |-> i, answer |-> Answer(i)])

(* MUTANT, not the code: a burst may end without a flush.                  *)
MustFlushNever == FALSE

MustFlush == data = <<>>

(* The reply is encoded, and flushed if nothing else is queued; the        *)
(* FlushEncoder may flush earlier.                                         *)
Reply ==
    /\ wpc = "batch" /\ Ready(wreq) /\ conn # "closed"
    /\ ~(BreakOnFailure /\ Fails(wreq))
    /\ Encoded(wreq)
    /\ flushed' \in {Len(out) + 1} \cup (IF MustFlush THEN {} ELSE {flushed})
    /\ calls' = calls + 1
    /\ wpc' = "pop" /\ wreq' = 0
    /\ UNCHANGED <<serving, fails, backendVars, readerVars, chanVars,
                   connVars>>

(* Encode or Flush fails because the client is gone.                       *)
ReplyFails ==
    /\ wpc = "batch" /\ Ready(wreq) /\ client = "gone"
    /\ fails' = fails + 1
    /\ wpc' = "teardown" /\ wreq' = 0
    /\ UNCHANGED <<serving, out, flushed, calls, backendVars, readerVars,
                   chanVars, connVars>>

(* An error reply ends the session if it is configured to.                 *)
ReplyBreaks ==
    /\ wpc = "batch" /\ Ready(wreq)
    /\ BreakOnFailure /\ Fails(wreq)
    /\ \/ Encoded(wreq) /\ flushed' = Len(out) + 1
       \/ client = "gone" /\ UNCHANGED <<out, flushed>>
    /\ fails' = fails + 1
    /\ wpc' = "teardown" /\ wreq' = 0
    /\ UNCHANGED <<serving, calls, backendVars, readerVars, chanVars,
                   connVars>>

AllReplied ==
    /\ serving /\ ChanEnds
    /\ wpc' = "teardown"
    /\ UNCHANGED <<serving, wreq, out, flushed, calls, fails, backendVars,
                   readerVars, chanVars, connVars>>

(* The deferred CloseWithError, which also makes the reader fail.          *)
Teardown ==
    /\ wpc = "teardown"
    /\ conn' = "closed" /\ serving' = FALSE /\ wpc' = "pop"
    /\ UNCHANGED <<wreq, out, flushed, calls, fails, client, BreakOnFailure,
                   backendVars, readerVars, chanVars>>

(* PopFrontAllVoid: what is left is counted as failed, not waited for.     *)
Drop(i) ==
    /\ ~serving /\ ChanPop(i)
    /\ fails' = fails + 1
    /\ UNCHANGED <<wpc, serving, wreq, out, flushed, calls, backendVars,
                   readerVars, connVars>>

SessionEnds ==
    /\ ~serving /\ ChanEnds
    /\ wpc' = "exit"
    /\ UNCHANGED <<serving, wreq, out, flushed, calls, fails, backendVars,
                   readerVars, chanVars, connVars>>

-----------------------------------------------------------------------------
(* The world around the session.                                           *)

ClientGone ==
    /\ client = "up" /\ client' = "gone"
    /\ UNCHANGED <<conn, BreakOnFailure, backendVars, readerVars, chanVars,
                   writerVars>>

BackendAnswers ==
    /\ \E i \in Commands : Backend!Answer(i)
    /\ UNCHANGED <<readerVars, chanVars, writerVars, connVars>>

BackendShuts ==
    /\ Backend!Shut
    /\ UNCHANGED <<readerVars, chanVars, writerVars, connVars>>

Reader ==
    \/ Receive \/ Decode \/ DecodeFails \/ DispatchFails
    \/ DispatchForward \/ DispatchWaited \/ PushTask \/ CloseRead \/ CloseTasks

Writer ==
    \/ Park \/ Reply \/ ReplyFails \/ ReplyBreaks
    \/ AllReplied \/ Teardown \/ SessionEnds
    \/ \E i \in Commands : PopTask(i) \/ Drop(i)

Next == Reader \/ Writer \/ BackendAnswers \/ BackendShuts \/ ClientGone

Spec == Init /\ [][Next]_vars

(* What the client sends is up to it.  A backend answers what it accepted:  *)
(* BackendConn, EveryRequestAnswered.                                      *)
Fairness ==
    /\ WF_vars(Reader /\ ~Receive) /\ WF_vars(Writer)
    /\ WF_vars(BackendAnswers)

FairSpec == Spec /\ Fairness

-----------------------------------------------------------------------------
(* Properties.                                                             *)

ReaderStates ==
    {"decode", "dispatch", "wait", "push", "closeread", "closechan", "done"}

(* Every variable has its type.                                            *)
TypeOK ==
    /\ promise \in [Commands -> Backend!Fates] /\ open \in BOOLEAN
    /\ received \in 0..MaxCommands /\ decoded \in 0..received
    /\ kind \in [Commands -> {"none", "failed", "overtaken", "async", "sync"}]
    /\ rpc \in ReaderStates
    /\ data \in Seq(Commands) /\ chClosed \in BOOLEAN /\ waits \in {0, 1}
    /\ wpc \in {"pop", "park", "batch", "teardown", "exit"}
    /\ serving \in BOOLEAN /\ wreq \in 0..MaxCommands
    /\ out \in Seq([cmd : Commands, answer : {"reply", "error"}])
    /\ flushed \in 0..Len(out)
    /\ conn \in {"open", "readclosed", "closed"} /\ client \in {"up", "gone"}
    /\ BreakOnFailure \in BOOLEAN
    /\ total \in Nat /\ calls \in Nat /\ fails \in Nat /\ sfails \in Nat

(* The k-th reply answers the k-th command, with the backend's final       *)
(* answer to it, however the answers arrive (session.go 171-194, 212-225). *)
RepliesInOrder ==
    \A k \in 1..Len(out) :
        /\ out[k].cmd = k
        /\ out[k].answer = Answer(k)
        /\ promise[k] \notin {"waiting", "stuck"}

(* A parked writer has been told about everything in the channel           *)
(* (request.go 148-172).                                                   *)
NoLostWakeup == wpc = "park" => data = <<>> /\ ~chClosed

(* The channel holds at most one request more than session_max_pipeline    *)
(* (session.go 126: the comparison comes before the push).                 *)
PipelineBounded == Len(data) <= MaxPipeline + 1

(* Each command decoded is on its way or counted exactly once, in the      *)
(* writer's loop, in its teardown, or by the reader (session.go 124-127,   *)
(* 153-160, 177-187).                                                      *)
InReader == IF rpc \in {"dispatch", "wait", "push"} THEN 1 ELSE 0
InWriter == IF wpc = "batch" THEN 1 ELSE 0
CountedOnce ==
    total = InReader + Len(data) + InWriter + calls + fails + sfails

(* With session_break_on_failure an error reply is the last thing the      *)
(* client receives (session.go 141-146, 174-180), although the error may   *)
(* arise in either goroutine.                                              *)
ErrorEndsSession ==
    BreakOnFailure =>
        \A k \in 1..Len(out) : out[k].answer = "error" => k = Len(out)

Stuck == \E i \in Commands : promise[i] = "stuck"

(* A session whose client has gone ends, both goroutines, unless a push    *)
(* panicked: then its request is never answered.                           *)
GoneSessionEnds ==
    client = "gone" ~> (rpc = "done" /\ wpc = "exit") \/ Stuck

(* The replies catch up with the commands, or the session ends: whatever   *)
(* was received is replied to in the end (session.go 119, 171-187).        *)
EveryCommandReplied ==
    []<>(flushed = received \/ wpc = "exit" \/ Stuck)
=============================================================================
