# A verification of redis-mulive-router in TLA+

redis-mulive-router is a Redis proxy for several active zones (data centres).
A key names its zone by a prefix; each zone has one Redis master. A proxy runs
in one zone, answers its clients' GETs from the local Redis, fetches what is
missing from the zone that owns the key, and writes a key without a zone to
all zones in a hand-made transaction. It is a fork of the codis proxy: the
session, the backend connections and the shared pool come from there; the
zones, the transaction and the sentinel switch are its own.

This directory models the proxy in TLA+, checks the models with TLC and proves
the main safety properties with TLAPS. Every definition is translated from
`src/`; `PROJECT.json` maps each one to its lines.

    tlc -workers 2 -config MCSession_all.cfg MCSession.tla    # one run
    tlapm BackendConnProofs.tla                               # its proofs

## 1. The system

### Its parts

| Part | Source (under `src/pkg/`) | State | Operations |
|---|---|---|---|
| Backend connection | `proxy/pool.go` 22-375, `proxy/redis/conn.go` | channel `input`, the flag `closed`, the state word (0, Connected, DataStale), the retry count and delay; per TCP connection the channel `tasks` and the FlushEncoder | `PushBack`, `Close`, `KeepAlive`, `run`/`loopWriter`, `loopReader`, `delayBeforeRetry` |
| Session | `proxy/session.go`, `proxy/request.go` 90-196 | `RequestChan` (lock, condition variable, queue, closed), counters, the client's connection, the flag `broken` | `loopReader`, `loopWriter`, `handleRequest`, `handleResponse`, `PushBack`/`PopFront`/`Close` of the channel |
| Dispatch and zone transaction | `proxy/router.go` 165-298, `proxy/transaction.go`, `proxy/zones.go` | per command: the sub-requests, the executed zones, their old values | `dispatch`, `SetRedisTrx` with `Exec`, `Commit`, `Check`, `Rollback` |
| Shared connections and zones | `proxy/pool.go` 378-532, `proxy/router.go` 41-163 and 300-350, `proxy/zones.go` | the pool's map of counted connections, `router.zones`, `router.mu` | `FillZone`, `Retain`, `Release`, `SentinelSwitch`, `ChangeConn`, `KeepAlive`, `Close` |
| Keep-alive callback | `proxy/pool.go` 81-155 | channel `keepAliveCallback`, one goroutine | `KeepAlive`, the wait for INFO |
| Sentinel client | `utils/redis/sentinel.go` | one query: answers so far, the majority, a timer | `Masters` |
| Proxy lifecycle | `cmd/proxy/main.go` 121-158, `proxy/proxy.go`, `proxy/session.go` 72-108 | `online`, `closed`, listeners, tickers, session counters, `Proxy.mu` | `New`, `Start`, `Close`, accept and admission, the signal handler |
| Statistics | `proxy/stats.go`, `proxy/session.go` 227-285, `proxy/proxy.go` 397-409 | counters of each session, counters and table of the process | `flushOpStats`, `incrOpStats`, `incrSessions`, `Stats`, `ResetStats` |
| RESP codec, buffered I/O | `proxy/redis/decoder.go`, `encoder.go`, `resp.go`, `utils/bufio2` | a buffer with two indices, a sticky error | `Decode`, `Encode`, `Read...`, `Write...`, `Flush` |
| Pure helpers | `proxy/delay.go`, `proxy/mapper.go`, `cmd/proxy/main.go` 160-200 | the current delay; a constant table; the number of processors | `DelayExp2.NextValue`, `getOpInfo`, `AutoGOMAXPROCS` |
| Surroundings | configuration, JSON models, options and pid file, logging, utilities, vendored code | none that the protocols depend on | |

`proxy/forward.go` is dead code: nothing refers to it.

### How they interact

    client ==TCP==> Session.loopReader --dispatch--> zones of the Router
                        |                                 |
                  RequestChan                         PushBack
                        v                                 v
    client <=TCP== Session.loopWriter <--Batch-- BackendConn (input)
                                                  loopWriter ==TCP==> Redis
                                                      | tasks           |
                                                  loopReader <=TCP=======

* A `Request` carries a `sync.WaitGroup` (`Batch`). `PushBack` adds to it and
  whoever answers the request (writer, reader, drain) calls Done. The session's
  writer waits on it; a transaction and a GET that fetches from another zone
  wait inside the session's reader.
* A backend connection writes requests in the order of its input and matches
  replies by position only.
* Two tickers run beside the sessions: one pings every shared connection, one
  asks the sentinels of each zone for its master and exchanges the connection.
  Both hold `router.mu` for reading, as every command but SET does; `Close`
  holds it for writing.

### What is hard, and what correctness means

* *Backend connection.* Two goroutines and a remote server share one pipeline,
  and a new round may dial while the reader of the last one still drains. A
  request must get its own reply; it must be answered once, whatever fails; the
  writer and the reader must not wait for each other; the state word must not
  be left behind by an old round.
* *Session.* Answers come in any order, from three places; the client must get
  them in the order of its commands, once each; nobody may sleep through a
  wake-up; a session that loses either side must end completely.
* *Zone transaction.* Several zones, each failing in its own way, with no lock
  among sessions. All zones should agree when nothing is under way; an error
  should leave no trace; a success should be everywhere.
* *Shared connections.* References are counted by hand by code that holds the
  wrong lock. No connection may be closed under a user, none be lost; a zone
  must follow its master, although sentinels may answer late, in any order and
  from before an election; Close must end.
* *Lifecycle.* Five goroutines may call Close. The one that does holds a mutex
  that everyone else polls while it waits for a lock that requests hold. The
  process must end, and end clean, after whatever cause.
* *Admission and statistics.* A counter is raised before it is compared, and
  lowered on four ways out; counters move from sessions to the process while
  both go on. Neither may drift, in a process that runs for months.
* *Codec.* Buffers are reused, and values returned from them must not change;
  the network cuts messages anywhere; half a message must never be followed by
  another, as replies are matched by position only.

`PROJECT.json` lists the hazards with their lines and the properties that
cover them, or why none does yet.

## 2. The modules

| Module | What it is | Lines of code it stands for |
|---|---|---|
| `BackendConn` | one `BackendConn`: its users, KeepAlive, writer, readers, network | `pool.go` 22-375, `conn.go` 94-203 |
| `BackendPromise` | what the users of a `BackendConn` rely on, in five actions | the contract of `PushBack` |
| `BackendConnProofs` | theorems about `BackendConn`; that it implements `BackendPromise` | |
| `Session` | one session with its `RequestChan`; its backends are a `BackendPromise` | `session.go` 110-258, `request.go` 90-196 |
| `SessionProofs` | theorems about `Session` | |
| `ZoneDispatch` | the commands on one key: transaction, rollback, copies between zones | `router.go` 165-298, `transaction.go`, `request.go` 198-244, `zones.go` 27-41 |
| `ZoneDispatchProofs` | theorems about `ZoneDispatch`; what its transaction promises | |
| `SharedPool` | zones, counted connections, `router.mu`, tickers, Close | `router.go` 41-163 and 318-350, `pool.go` 378-532, `zones.go` |
| `SharedPoolProofs` | theorems about `SharedPool` | |
| `Sentinel` | what `Masters` makes of the answers it gets | `sentinel.go` 105-208 |
| `ProxyLifecycle` | the process: main, signals, servers, tickers, the API, two locks | `main.go` 97-158, `proxy.go` 50-298 and 377-396, `pool.go` 93-155 |
| `ProxyLifecycleProofs` | theorems about `ProxyLifecycle` | |
| `SessionAdmission` | accept loop, limit of clients, end of sessions, flushing of statistics | `proxy.go` 58-70 and 201-217, `session.go` 72-108 and 260-285, `stats.go` 50-182 |
| `StatsReport` | a reader of the statistics beside the sessions that flush them | `proxy.go` 397-409, `stats.go` 27-42 and 126-135 |
| `SessionAdmissionProofs` | theorems about `SessionAdmission`, `StatsReport` and `Delay` | |
| `Delay` | the reconnect delay and the step of AutoGOMAXPROCS | `delay.go`, `math2.go`, `main.go` 160-200 |
| `Bufio` | buffered reader and writer, allocator | `bufio2/`, `conn.go` 94-144 |
| `RespCodec` | RESP encoder and decoder over `Bufio` | `encoder.go`, `decoder.go`, `resp.go` |
| `CodecProofs` | theorems about `RespCodec` and `Bufio` | |
| `Recursion` | lemmas about recursive functions, which `CodecProofs` uses for each loop | |
| `MC*` | values of the constants for TLC | |

The modules compose upwards. `BackendConn` implements `BackendPromise` (checked
as a refinement, and proved), `Session` INSTANCEs `BackendPromise` as its backend, and
`ZoneDispatch`, `SharedPool` and `ProxyLifecycle` use two facts of it: accepted
requests are answered in order, and a push on a closed connection panics.
`SharedPool` takes the answers of the sentinels through `Sentinel`,
`SessionAdmission` its delay from `Delay`, `StatsReport` EXTENDS
`SessionAdmission`, and `RespCodec` EXTENDS `Bufio`. The
other modules pass whole requests and replies: that they arrive whole and in
order is what `RespCodec` checks. `ProxyLifecycle` sees of `SharedPool` only who
holds `router.mu`, and of the sessions only their GETs.

A definition named `...` followed by a comment "MUTANT, not the code" is a
plausible bug of the definition after it. No specification uses it;
`PROJECT.json` pairs it with the property that the bug breaks.

### BackendConn

The writer's program counter `wpc` follows `run` and `loopWriter`: top of a
round, dial, receive from input, write, send to tasks, tear down, drain, delay.
Each TCP connection `c` has its `tasks`, its reader (`rpc`, `rhand`), the
requests encoded and not answered yet (`stream`) of which the first `sent` have
left the buffer, and whether it is up. Two rounds overlap as in the code: the
writer closes `tasks` and goes on, the old reader drains on its own.

| Action | Code |
|---|---|
| `PushAccepted`, `PushDropped`, `PushPanics` | the select of `PushBack` 68-79, the last one a send on a closed channel |
| `CloseInput`, `CloseFlag` | the two statements of `Close`; anything may happen between them |
| `KeepAliveLook`, `KeepAlivePush` | `KeepAlive` 81-101: the test of the input and the state, then the push of a PING or an INFO; pushes of sessions come in between |
| `InfoCallback` | the function sent to `keepAliveCallback` 101-142 |
| `SessionBreaks` | `session.broken.Set(true)`, seen by the writer for read-only requests |
| `Take`, `TakeBroken` | 354-362 |
| `WriteFlush`, `WriteBuffer`, `WriteFail` | `EncodeMultiBulk` and `Flush` with the FlushEncoder's decision |
| `Send`, `Finish`, `Teardown` | the end of the loop and its deferred calls |
| `DrainOne`, `DrainDone`, `DelayAnswer`, `DelayOver` | `run` 252-270 and `delayBeforeRetry` |
| `Reader...` | `loopReader` 282-305 and its deferred drain |
| `Break` | the network, a server that closes, or the receive time-out |

Abstractions: a reply is the name of the request it answers; flushing by elapsed
time or by bytes is left out, so a buffered request waits for the count or for an
empty input, the worst case for the liveness properties. A PING is a request
without a Batch (`Unbatched`). A PING whose push finds the channel full, or
closed, panics in the ticker's goroutine and ends the process: `Up` is false
from then on. Whether an INFO reply reports a broken link is any choice.
AUTH and SELECT are part of a dial that may fail (`DialFail`, `DialOK`).

### Session

The reader decodes a command, dispatches it and pushes it on the `RequestChan`;
the writer pops, waits for the Batch, encodes and flushes. A command is one of
four kinds, by what dispatch did with it: `failed` (dispatch returned an error
and no backend has the request, so the error is the reply), `overtaken` (dispatch
returned an error while a backend still has the request; its answer comes later
and takes the place of the error), `async` (pushed to a backend, answered later)
and `sync` (the reader waits for it).

Bytes reach the reader in the portions in which the connection gives them:
`Receive` is a Read of the socket, which returns any number of further commands,
and `received` how many whole ones it has returned. Decoding looks at the
buffer alone (`Buffered`). So commands that were received before are still
decoded, counted, dispatched, waited for and queued after the writer has closed
the connection, after the reader's side was closed, and after the client has
gone; the reader ends (`DecodeFails`) when the buffer is used up. The writer
drops, in its teardown, what the reader goes on to queue (`Drop`), and ends only
after the reader has closed the channel. `client` is `gone` when it closes its
side, is silent too long, or sends nonsense; what it sent before may still be
read from the socket.

The channel's mutex makes its operations single steps; the wait on the condition
variable is two (`Park`, `PopTask`) with the signal in between.
`session_max_pipeline` is the constant `MaxPipeline`; `session_break_on_failure`
is a variable that `Init` chooses and nothing changes, so that one run has both.

### ZoneDispatch

One key, one Redis per zone, and one in-order connection from each zone's proxy
to each Redis. A client's command is a program of steps, one per sub-request
sent or awaited: `ExecGet`, `ExecSet`, `Commit`, `Check`, `Rollback` for the
transaction, `GetHere`, `GetOwner`, `AskTtl`, `Fill` for a GET. The order of the
zones is that of a Go map, hence any. A reply is the text that the code looks
at: a value, `""` (an empty value or a nil bulk), `"nil"` (`Resp == nil`),
`"ERR"` (an error reply). A request may be refused (full channel), panic
(closed channel), be lost before or cut after it was executed, be executed
late, or be answered with an error; `Faults` bounds which of these occur
together. A reply is written into its request (`ans`), and a command has requests
of its own: when the next one begins, what the last one left on a connection,
say a SET whose roll-back was dropped, no longer answers to anybody (`Unheard`).
When a push panics, `dispatch` recovers: a GET, or a transaction after its
roll-back, returns an error, and the session's reader goes on to the next
command. The client is `idle` then as after any other command, and what the
zones hold is judged; only the reply is missing, which `Session` models.

### SharedPool

`NewRouter` fills the zones one call at a time. Afterwards the ticker's
`SentinelSwitch` (ask the sentinels of a zone, retain the new connection,
release the old one, assign), the ticker's `KeepAlive` (a range over the pool's
map), `Close` and sessions interleave at every step at which the code can be
interrupted. `router.mu` is modelled with Go's rule that a waiting writer keeps
new readers out. The unsynchronised access to the map is undefined behaviour in
Go: `MapRace` lets the run time abort the process whenever a write and a range
overlap. After a failover the sentinels of a zone hear of the election one after
the other (`Failover`, `Learn`; `lag` counts those that have not). A query gets
their answers in any order, all of them or those before the deadline
(`Arrivals`), and `Masters` decides; with fewer than a majority, or at the price
of a fault, it fails.

### ProxyLifecycle

`pc` says where each goroutine is: main, the signal handler, the two servers,
the tickers and an API request. Close is two steps, `Close` and `CloseRouter`,
with `Proxy.mu` held between them; a goroutine that has to wait is a guard that
is false. `reading` is who holds `router.mu` for reading: GETs until they are
answered, tickers during a tick. KeepAlive's send to `keepAliveCallback` waits
for room while it does. The listeners of `New` may fail in every combination in
which the code can leave them; a server's Accept may fail at any time; a signal
may come at any time, and before `signal.Notify` it kills the process. `Sticks`
is what a switched connection leaves behind in sentinel mode: a GET, or an INFO
of the single receiver, that the connection accepted after its last round and
before it was closed, and that is never answered. A GET whose push panics, as
one on a connection already closed does, gives the lock up while it unwinds
(`GetEnds`). A request to the API may come over a connection that was kept alive
when its listener has been closed. Main's sleeping polls are steps that wait for
their condition.

### SessionAdmission

The accept loop counts a connection, compares, and starts the session or turns
it away in a goroutine of its own; `sess` follows each connection through that.
A running session decodes, queues and counts its commands (what happens to them
is `Session`), and flushes its counters in the five steps between which other
sessions can work: total, failures, the look-up of the entry, its calls, its
failures. `entries` keeps every entry ever made, so that a lost one shows. All
commands have one name: entries of different names do not meet.

### StatsReport

`Proxy.Stats` beside all that: it reads the total of the process, then the
calls of the entry, then its failures, and sessions flush between any two of
these (`ReadTotal`, `ReadCalls`, `ReadFails`, `Answered`); `report` is what it
has read so far. A report may therefore show more commands ended than its own
total, and the property does not deny it: it says by how much at most
(`ReportedWereReceived`). The readings in between, of the process-wide failures,
of the QPS and of the sessions, are left out. Requests for reports change nothing
that others read, so one reader stands for any number of them.

### Bufio and RespCodec

A reader is its buffer, its two positions, its error, what the socket still
holds, and all memory its allocator ever made. What it returns is a `Slice`, a
place and a length, whose bytes are looked at when a property asks for them, so
that reuse of memory shows. A socket returns `first` bytes from the first read
and at most `chunk` from later ones, and nothing but an error at the end. A
writer's socket fails after `limit` bytes. The sending end runs first, as the
decoder waits for bytes anyway; then its bytes, or those of a peer that is no
Encoder, are delivered and decoded. Time-outs are such an error.

A message is the sequence of its nodes in the order in which the code descends
into it: an array is a node with a size, followed by its elements. `decodeArray`
and `decodeMultiBulk` are one loop over how many nodes are `due`, which takes the
same bytes as the code's calls of itself. The one difference is an array inside
a request: the code decodes all of it before it fails, the model fails at its
header. Either way nothing is decoded afterwards. Every loop
is a recursive function of the variables that it changes (`ReadSlice`, `Line`,
`Collect`, `Written`, `Strung`, `encodeResp`, `Elements`, `Split`, `Table`), so
that it can be proved about. `Reader` and `Writer` are the records whose
positions stay in their buffers; outside of them the program would panic, which
is what `TypeOK` excludes. `Sendable` says what an Encoder may be given: no line
end in a text (the router's error texts are single lines, and a text that was
decoded ended at its first one), and numbers whose line fits the buffer, as `ReadSlice` takes no other.

## 3. What the runs check

"Violation" runs check one property that the repository claims and the code
does not keep (section 5).

| Run | Instance | What it shows |
|---|---|---|
| `backendconn_safety` | 3 requests (one PING, one read-only), KeepAlive, 2 connections, capacities 2 | replies match, Batches are exact, the state word follows the round, a PING is lost only to a burst, a closing round leaves nothing, an idle writer has flushed |
| `backendconn_liveness` | the same over 1 connection and an unbuffered `tasks` | `BackendConn` implements `BackendPromise`; everything accepted is answered; no deadlock of the pipeline |
| `backendconn_dropped` (violation) | 2 requests, capacity 1 | a dropped push ends without reply or error |
| `backendconn_unflushed` (violation) | 2 requests, one read-only | a broken request leaves the one before it in the buffer |
| `session` | 3 commands, limit 0, with and without break on failure | order of replies, wake-ups, the counters, an error is the last reply; every command is replied to, and a session whose client left ends |
| `zones` | 2 zones with a client each; a key without a zone under 2 faults, a key of one zone with expiries under 1, a key of an unknown zone | commit means everywhere and an error means nowhere after one fault; copies hold only what was SET; every command ends |
| `zone_concurrent` (violation) | 2 writers, no fault | the zones end up different |
| `zone_errorfill` (violation) | one error reply | an error text becomes a value |
| `pool_failover` | 3 zones, 2 with the same 2 sentinels, 1 failover, 1 fault, 1 session | counts, pool, panics, following the master, Close ends |
| `lifecycle` | 1 ticker, 1 GET, sentinel mode, room for 1 callback | main leaves nothing open; the process ends; the API answers |
| `admission` | 3 connections, limit 2, 3 commands in all, any number of reports | the session count and its limit, rejections, complete statistics; what a report shows as ended has been received |
| `codec` | 2 messages, buffers of 5 and 4 bytes, blocks of 12, sockets that fail after 0 to 25 bytes, reads of 1, 2, 3, 5 or all bytes | what arrives is what was sent, flushed means arrived, pieces do not matter |

`CHECK_DEADLOCK FALSE` is set in all runs but `admission`, where reports never
stop. The other systems may stop, after
Close, when its clients have sent their commands, or by a panic. What must not
stop is stated by the liveness properties instead.

The type invariants of `BackendConn` and `Session` are theorems (section 6), as
is `PipelineBounded` of `Session`; no run repeats them.

### Why the bounds are enough

* *Requests and connections.* The interesting cases of `BackendConn` need one
  request on the wire, one in the channel and one at the writer, and a second
  connection while the first drains. `TaskCap` 2 gives `MaxBuffered` 1, so that
  both buffered and flushed writes occur; 0 is what the configuration allows at
  least. `FreeRetries` stands for the ten rounds without delay: 1 and 0 reach
  both sides of the comparison.
* *Commands.* With three commands and a limit of 0, the queue, the writer and
  the reader each hold one and the limit is exceeded. They arrive in any
  portions, so that up to two are in the buffer when the session breaks.
* *Zones and faults.* Two zones are the smallest transaction with an executed
  and an unexecuted part. One failure must be survived; with two the code's
  rollback, which ignores its own results, cannot be expected to succeed, so
  only the ends of the commands are checked then.
* *Pool.* Two zones behind the same sentinels are needed for one switch to see
  another zone's master; a third one shares an address with them, so that a
  connection has several holders. One failover and one late or failed answer
  produce a switch there and back. Two sentinels are the fewest that can
  disagree. `MaxFailovers` and `MaxFaults` also make
  `MastersFollowed` meaningful: it speaks of the time after the last change.
* *Lifecycle.* The two tickers differ for it only in the send to the callback
  channel, so one is enough; one callback fills its channel. One GET is enough
  to hold the lock, and one to get stuck.
* *Admission.* Three connections for two places give one that is turned away
  while another leaves; two sessions meet at the table's entry while a third
  begins. Of three commands, wherever they come in, two make a session flush in
  the middle and at its end while another session flushes the third, and a
  report can fall between any two of these. The accept loop's delay is raised
  and cut off at once; that it grows to its maximum is the theorem
  `NextValueBounds`.
* *Codec.* The buffers are shorter than the lines, numbers with their ends just
  fit, values of six bytes have memory of their own and shorter ones fill a
  block of twelve and begin another. A sender's limit of 0 to 25 bytes cuts the
  stream inside every kind of line and between messages; 99 is no limit. The
  first read and the later ones have sizes of their own, which moves every
  boundary.
* The theorems of section 6 hold for every value of these constants.

Each passing property has a mutant: a definition changed as a bug would change
it, under which TLC finds the property violated in the same run.

## 4. Fairness

Weak fairness of steps that the Go scheduler runs, except where a lock is won
against others, and these:

* `BackendConn`: the writer; the second half of `Close` once it began; the
  reader of each connection, where a silent server is taken care of by the
  receive time-out (`backend_recv_timeout`, 30 s by default), modelled as
  `Break`. Nothing is assumed about the network: dialling may fail for ever, as
  each failing round answers what is in the input.
* `Session`: the two goroutines, except for the Read of the socket, which needs
  the client (`Receive`); what has been read is decoded. And that a backend answers what it accepted. The latter is
  `EveryRequestAnswered` of `BackendConn`.
* `ZoneDispatch`: each session's goroutine, and that each request in a
  connection is served or fails, again `EveryRequestAnswered`.
* `SharedPool`: the tickers, each goroutine, `Close` once it waits, that every
  sentinel hears of an election, and that an *open* connection answers. One that
  was closed under a waiting request need not (see `EveryRequestAnswered`, which
  excepts Close).
* `ProxyLifecycle`: strong fairness of each goroutine that waits for `Proxy.mu`,
  as `sync.Mutex` gives it to a waiter within a millisecond of starvation, and
  of a ticker's exit, which its select chooses at random among what is ready;
  weak fairness of a tick under way, of the receiver, and that a GET is answered
  unless it is stuck. Signals, requests and errors need not happen.
* `SessionAdmission`, `StatsReport` and `RespCodec` check safety only and assume
  no fairness.

The exceptions in the liveness properties are the code's. In `Session`, a push
that panicked after `Batch.Add` leaves a request that is never answered, and the
session's writer waits for ever (`Stuck`). In `ProxyLifecycle`, a request that a
connection accepted between its last round and its closing is never answered;
a GET keeps `router.mu`, an INFO the receiver of the callbacks (`Stuck`).
`EveryCommandEnds` of `ZoneDispatch` has no exception.

## 5. Findings

1. **A dropped push has no outcome** (`pool.go` 74, `AnsweredHasOutcome`). On a
   full input channel `PushBack` only calls Done. The test of the pool
   (`pool_test.go` 162-164) pushes 16384 requests through a channel of 10240
   and asserts a reply for each; it passes only when the writer keeps up.
2. **A broken request skips the flush** (`pool.go` 358, `IdleWriterFlushed`).
   If the last request of a burst is a read-only one of a broken session, the
   `continue` bypasses the flush that the requests before it wait for. They are
   answered after the next push or by the receive time-out.
   `UnbrokenIdleFlushed` shows that this is the only way.
3. **Concurrent transactions diverge** (`router.go` 260, `AgreeWhenQuiet`). Two
   SETs of a key without zone reach two zones in opposite orders, without any
   failure, and both commit.
4. **An error is copied as a value** (`router.go` 196, `OnlyValuesStored`). The
   text of another zone's error reply is SET locally as the value of the key.

## 6. What is proved

TLAPS checks the following for all values of the constants that satisfy the
assumptions of the modules: capacities and limits are naturals (the input holds
at least one request, the callback channel one callback), `NoReq` is no request,
the sets of special requests are sets of requests, `SessionAdmission` has
finitely many connections, `ZoneDispatch` finitely many zones, none of which has
the name of a marker, and every list of zones that `SharedPool` starts with
begins with the current one.

**BackendConnProofs**

* `TypeCorrect`: `Spec => []TypeOK`. The inductive invariant is `Shape`,
  `TypeOK` with `HandsOK`: where a goroutine is tells what it holds, and
  connections beyond the current one are unused. Without it a step could index
  a connection that does not exist.
* `RepliesMatch`: `Spec => []RightReply`. A reply is right because of where it
  stands, so the invariant has to say what stands where. `Aligned(c)`: the
  unanswered requests of the stream are, in order, the one in the reader's
  hand, those in `tasks`, and the one the writer has encoded and not handed
  over. A failed write may leave one more, which the reader never reaches.
  `StoppedOK` (a reader that drains has closed its connection) excuses a
  draining reader, whose `tasks` no longer follow the stream. Each action has a
  lemma (`AlignedWrite`, `AlignedSend`, `AlignedTake`, `AlignedDecode`, ...).
* `StateTracksRound`: `Spec => []ConnectedOnlyWhileServing`. The reader of an
  old round changes the word only from Connected to DataStale, and the callback
  of an INFO only from DataStale to Connected.
* `CloseServesAccepted`: `Spec => []ClosingRoundServesAll`. Inductive with
  `ClosedAndEmpty`: a round that did not fail ended because the input was closed
  and empty, and a closed input is never filled again.
* `NoPipelineDeadlock`: `Spec => []WriterBlockedReaderFed`, from
  `FlushBounded`: what is encoded and not sent is at most half the pipeline, so
  a full one has something on the wire.
* `PingNeedsBurst`: `Spec => []PingLostOnlyToBurst`. `BurstInv` adds what is
  true while KeepAlive stands between its two steps: the input is no longer
  than what was pushed since the test found it empty.
* `IdleWriterHasFlushed`: `Spec => []UnbrokenIdleFlushed`. `EmptyMeansFlushed`
  speaks also of the writer that is blocked on `tasks`: the last request of a
  burst is encoded with a flush, and nobody but the writer empties the input.

It implements `BackendPromise`:

* `OneHolder`: `Spec => [](Shape /\ Custody)`. `OnePlace`: a request is in the
  input, the writer's hand, one `tasks` or one reader's hand, and in only one of
  them. `HeldOK`: who holds it was given it by a push, it has no outcome yet, and
  its Batch is 1; once nobody holds it its Batch is 0. Every step is of one of
  four kinds (`StepKind`): a push, an answer, the closing of the input, or one
  that changes no holder, and each kind has one lemma, whatever the program
  counters are.
* `BatchCountsHolders`: `Spec => []WaitGroupExact`, from `Custody`.
* `ConnectionKeepsPromise`: `Spec => PromiseKept`, the refinement. Under
  `Custody` the fate of a request is a function of who holds it (`FateIs`), so a
  step of each kind is a step of `BackendPromise` or changes no fate.

**SessionProofs**

* `TypeCorrect`, with `Holding`: what each goroutine's position says about the
  command it holds.
* `WriterIsWoken`, `ChannelBound` and `StatisticsBalance`, with `Channel`, the
  relation between the waiting count, the writer's position and the queue. The
  balance holds through teardown: also of the commands that are decoded from the
  buffer after the connection was closed.
* `RepliesOrdered`: `Spec => []RepliesInOrder`. `Order` says that replies,
  writer, queue and reader hold consecutive commands, oldest first; a reply is
  encoded after its answer is final, and `AnswerFixed` shows that no step of a
  `BackendPromise` changes a final answer.

* `ErrorIsLast`: `Spec => []ErrorEndsSession`. `Ending` ties the error to the
  goroutine that sees it: after a dispatch that failed the reader decodes no
  more (`FailedLast`), so that the request is the last one; after an error that
  a backend gave, the writer stops (`ErrorLast`).

The session's theorems assume nothing of its backend but `BackendPromise`, which
`BackendConn` implements by `ConnectionKeepsPromise`.

**ZoneDispatchProofs**

* `OnlySetValuesStored`: `Spec => []ValuesWereSet`, and `TypeCorrect`:
  `Spec => []TypeOK`. What a zone stores comes out of a reply, and what a reply
  is worth depends on the request it belongs to, so the invariant follows the
  text all the way round. `Allowed` is what may be stored by now (the values
  that clients SET, none, and the text of an error once one was answered):
  stores, connections, late writes, the old values of a transaction and the
  value of a GET hold nothing else. A reply may also be a marker, `OK` or a
  number; that it never becomes a value is `GetTyped`: where a GET or `Exec`
  reads its reply, it is the reply to a GET. `OneCall` gives the reason: a client
  has one "sub" request under way at most, waits for it, and knows what it asked.
  Every step is of one of five kinds (`Moves`): a client sends, goes on, or
  begins; a request is served; or none of these.
* `OrderTyped` adds that a loop over the zones meets a zone once: `todo` and
  `execed` repeat nothing, and share nothing while a transaction executes.

What a transaction promises:

* `ZonesAgree`: `Spec => []AgreeWhenQuiet`, `RollbackRestores`:
  `Spec => []RolledBackRestores`, and `SuccessIsEverywhere`:
  `Spec => []AcknowledgedEverywhere`, all three under the hypothesis
  `Undisturbed`, for any zones, any number of readers and commands, and one
  failure of any kind but a late write. The hypothesis is what the code needs,
  and the run `zones` satisfies it. One client writes: two writers leave the
  zones different without any failure (`zone_concurrent`). The key has no
  expiry: a rollback writes the old value back without its time to live. And no
  write is late: Redis may carry out a SET whose connection was lost after the
  rollback's.
* The inductive invariant is `TrxInv` (`TrxInvHolds`). Agreement at rest says
  nothing of a transaction under way, so the invariant says of every zone what
  it stores and which writes are still on its connection, by where the writer's
  dispatch stands: a zone is `Untouched`, `Pending` (the SET is on its way),
  `Done`, `Broken` (the SET or its reply was lost, and it may be stored or not)
  or `Undoing` (the last write on its way is the one that restores it). `Phase`
  gives each program counter its mixture of these. That one failure is enough
  to break the zones' agreement only once is the point of `Misread`: if the
  failure was a read of an old value, `old` is wrong for one zone, but then no
  SET fails and `old` is not used; if it was a SET, every `old` is right, and
  the rollback meets no failure.
* The steps are those of the reader sessions, which leave no write on a
  connection (`OthersRead`), of Redis, which takes the oldest request of a line,
  and of the writer. Lemmas say how a line changes its shape when a request
  joins or leaves it (`PushGet`, `PopGet`, `PushWrite`, `PopWrite`), what one
  served request makes of a zone (`ZoneKeeps`), and what that makes of the
  whole (`PhaseKeeps`, `PhaseSettles`, `PhaseUndoes`).

**SharedPoolProofs**

* `UseIsCounted`: `Spec => []UsersCounted`. The users of a connection are
  counted as the cardinality of a set of zones and one for a switch between
  Retain and the assignment; `RetainIs` and `ReleaseIs` say what the two do to
  the references of every connection, and `Counted` keeps the set finite. What
  the locks keep apart (`Guarded`) is part of the invariant: while a ticker
  runs, Close has not begun, and every zone has a backend.
* `PoolIsExact`: `Spec => []PoolExact`, with the address of each connection.
* `OnlySwitchPanics`: `Spec => []PanicsNeedSwitch`. `Quiet`: as long as no
  master has changed and no query has failed, every zone has its master, so
  nothing is switched, and what a session or KeepAlive picked stays open.
* `TypeCorrect`: `Spec => []TypeOK`.

**ProxyLifecycleProofs**

* `MainExitsClean`: `Spec => []ExitIsClean`. `Closing`: between the two halves
  of Close the router is open only while the caller that set `closed` is still
  in between, with `Proxy.mu` in its hands (`Locked`); so whoever finds `closed`
  set with the lock free, main in the end, finds the router closed.
* `TypeCorrect`: `Spec => []TypeOK`.

**SessionAdmissionProofs**

* `CountsExactly`: `Spec => []AliveExact`, and `RejectsOnlyWhenFull`:
  `Spec => RejectedOnlyWhenFull`. The inductive invariant is `CountInv`
  (`CountInvariant`). The counter is the cardinality of the sessions that hold a
  place (`Held`). The limit alone is not inductive: between its test and its
  start a session is counted and not yet served, so `WithinLimit` adds those
  that have passed the test. As the acceptor admits one at a time, the counter
  exceeds the served by one at most, hence whoever is turned away was turned
  away by a full house. Each way in and out has a lemma.
* `TypeCorrect`: `Spec => []TypeOK`. What is queued was decoded, so that no
  counter falls below zero, and a flush adds to an entry that was made.
* `CountsEveryCommand`: `Spec => []StatisticsComplete`, and `EndsOnlyWhatCame`:
  `ReportSpec => []ReportedWereReceived`. Both compare sums over all connections. A
  sum is the cardinality of a set of tokens (`SumOf`), for which the laws of
  finite sets give what a fold would need induction for: it changes by what one
  connection changes (`SumChanges`) and is monotonic (`SumBounded`). `Balance`
  says where every command is: in the total or about to be flushed; counted,
  open, or given up by its reader. That a reader gave up is in no variable, so
  the invariant `StatsInv` says that a set of such readers exists. `GaveUp` is
  why the order of the flush matters: what is left of a session's total is at
  most what is left of the rest. Each step balances at its own session
  (`DecodeWeighs`, `CountWeighs`, `FlushCountsWeighs`, ...). `OneEntry`, that
  the entry of a command is made once, keeps its counts together, and `Drained`
  that a session that is over has left nothing.
* `ReportSpec` implements `Spec` (`ReportsRefine`), as a reader changes nothing,
  so the invariants above hold beside any number of reports. `ReportInv` adds
  what a report under way has read: what ended by then is at most what the entry
  holds now, the total likewise, and of these the entry is behind the total
  (`EndedWereReceived`). No step of a session lowers a counter or replaces the
  entry (`CountersGrow`).
* `NextValueBounds` and `ProcsBounds`: every delay and every number of
  processors is within its bounds, and grows until it meets the upper one.

**Recursion**

Lemmas only; they speak of any loop, and say nothing of this program until
`CodecProofs` instantiates them. The library's induction theorems take an
operator as a parameter, which the provers cannot instantiate. Here the
parameters are constants of a module: the states of a loop, a rank that each
round lowers, what the loop returns at its end and adds on the way, and what is
to be shown of a result (`Good`). `Exists` says that the recursive function is
defined and satisfies its equation, `Reaches` that `Good` holds of its value at
every state. Both follow from the least rank of a counterexample, and that from
`NatLessThanWellFounded`. For each loop `CodecProofs` has an instance of the
module, and lemmas that its rank falls (`...Descends`), that the function is the
one of the code (`...Unfolds`), and what one round and the end do.

**CodecProofs**

Under `BufioAssumption` and `CodecAssumption`: positive sizes, limits that are
numbers, what is sent are messages as `Sendable` has them, foreign bytes are any
bytes.

* `LoopsEnd`: the loops of `ReadSlice`, `ReadBytes`, `Write`, `WriteString`,
  `io.ReadFull`, `Btoi64`, `decodeResp`, `encodeResp` and of the words of an
  inline request end from any state in which they can begin, as every round that
  goes on lowers a rank: the room in the buffer, the bytes still to come, those
  still to be written. So their recursive functions are defined everywhere.
* `MessageDecodes`: a decoder depends on its stream alone. `Stream(b)` is what a
  Reader has not given yet, in its buffer or still to come; functions of a
  stream say what is at its beginning (`TextAt`, `IntAt`, `ValueAt`, `NodeAt`,
  `WordsAt`, `MessageAt`). `Decodes` relates the two: an operation of the decoder
  succeeds when the function does, with its value, leaves the function's rest as
  its stream, and keeps the bytes of every slice of memory in use (`Used`,
  `Keeps`). One lemma for each routine, from `ReadSlice` up.
* `MessageOfMore`: a message that was read is the same when more bytes follow;
  so what was read before a break of the connection would have been read
  without it.
* `EncodeWrites`: an encoder is told by what it takes, `Taking(w)`, what is on the
  wire and in its buffer. `Wrote(w, p, x)`: x takes p more, or it has failed and
  its wire is a proper beginning of that. It holds of `Write`, `WriteString` and
  `WriteByte`, goes through sequences (`WritesOn`), and hence of `encodeResp`,
  where p is `Enc[m]`.
* `MessageIsRead`: `MessageAt` of `Enc[m]` is m, and nothing is left. With numbers
  (`FormattedIsRead`, and `ItoaIs` for the table), and by induction over the nodes
  that are due (`ElementsAreRead`).
* `CodecInvHolds`: the inductive invariant. `SentState`: the wire begins with the
  bytes of what was flushed, and is the beginning of those of what was sent or of
  one message more, which failed. `GotState`: all that was decoded is in memory
  in use. `DecodedState`: what was decoded are the first of the messages sent,
  and the stream is what is on the wire after them; when the decoder failed,
  what was flushed had been decoded. `ForeignState`: what is decoded of the rest
  at once makes up, with what was decoded already, what is decoded of all at
  once. None of the properties says where the stream stands, and none is
  inductive without.
* `CodecTypesHold`, `DecodedIsEncodedHolds`, `FlushedArrivesHolds` and
  `PiecesDoNotMatterHolds`: `Spec => []TypeOK`, `[]DecodedIsEncoded`,
  `[]FlushedArrives` and `[]PiecesDoNotMatter`, from the invariant. The last rests
  on `AtOnceIsAlike`: two readers of one stream decode the same.

**Only model-checked.** Everything temporal under fairness
(`EveryRequestAnswered`, `EveryCommandReplied`, `GoneSessionEnds`,
`EveryCommandEnds`, `MastersFollowed`, `CloseCompletes`, `ProcessEnds`,
`ApiAnswers`): liveness and ENABLED are beyond the prover. No safety property of
any module is left without a theorem.

## 7. The plan

The modules are done, in this order of importance: `BackendConn` with
`BackendPromise`, `Session` over it, `ZoneDispatch`, `SharedPool` with
`Sentinel`, keep-alive (in `BackendConn` for the connection, in
`ProxyLifecycle` for the callback channel and the lock), `ProxyLifecycle`,
`SessionAdmission`, and the algorithms `Delay`, `Bufio` and `RespCodec`.

Every safety property has its theorem, those of the codec with the induction of
`Recursion`. What is left are the properties under fairness, which stay with
TLC, and the parts of section 8.

## 8. What is not modelled, and why

Left out of parts that are modelled:

* Dispatch: SET with options, values that are empty strings (the code cannot
  tell them from missing ones), the time to live of a filled copy, and a key of
  a zone without configured owner beyond its error. Every other command is
  forwarded to the current zone, which is what `Session` and `SharedPool` say
  of it.
* Connections: the choice among parallel connections to one address (one is as
  good as another for the properties), `GetZones` (reads only), AUTH, SELECT and
  READONLY on a new connection (part of a dial that may fail), a dispatch after
  Close that finds no zone (it answers with an error). KeepAlive reads the length
  of the input and the state word in one step.
* Sentinel: the connection to one sentinel and the fields of its answer; an
  answer is a vote for a master, or none.
* Statistics: `ResetStats` has no caller but a handler whose route is commented
  out (`proxy_api.go` 64), so counters never fall; `sessions.total` only counts,
  and the QPS and CPU samples are displayed and used by `AutoGOMAXPROCS` only.
* Codec: `strconv` and `io.ReadFull` are modelled from their use. The off-heap
  slices are out of the program: `SetMaxOffheapBytes` is called by tests only,
  so that `MakeSlice` always allocates on the Go heap.

Not modelled at all:

* The command table: a constant and a look-up. The models take from it whether
  a command is allowed and whether it only reads; `Hash` and `getHashKey` have
  no caller.
* The redis client: a thin wrapper of a vendored one, of which the program uses
  `NewClientNoAuth`, `Do` and `Close`.
* The configuration (parsing and range checks, then constants), the JSON models,
  the handlers of the admin API (they only read; those that change state are
  commented out; the locks they take are in `ProxyLifecycle`), the options, the
  pid file and the measuring of CPU time in `main`, logging with its rolling
  files, small utilities, vendored code, and the dead `forward.go`.
