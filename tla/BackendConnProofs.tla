-------------------------- MODULE BackendConnProofs --------------------------
(***************************************************************************)
(* Theorems about BackendConn, for every set of requests, every capacity   *)
(* and every number of connections.                                        *)
(***************************************************************************)
EXTENDS BackendConn, TLAPS, FiniteSetTheorems, SequenceTheorems

USE BackendConnAssumption DEF Conns, MaybeReq

Shape == TypeOK /\ HandsOK

(* Every initial state is well-formed.                                     *)
LEMMA ShapeInit == Init => Shape
<1> SUFFICES ASSUME Init PROVE TypeOK /\ HandsOK
  BY DEF Shape
<1>1. FlagsOK
  BY DEF Init, FlagsOK
<1>2. WriterOK
  BY DEF Init, WriterOK, WriterStates
<1>3. LinksOK
  BY DEF Init, LinksOK, ReaderStates
<1>4. RequestsOK
  BY DEF Init, RequestsOK, Errors
<1>5. HandsOK
  BY DEF Init, HandsOK, Serving
<1> QED BY <1>1, <1>2, <1>3, <1>4, <1>5 DEF TypeOK

(* setResponse keeps the types of what the request records.                *)
LEMMA SetResponseType ==
  ASSUME TypeOK, NEW r \in Requests, NEW p \in MaybeReq, NEW e \in Errors,
         setResponse(r, p, e), UNCHANGED callerVars
  PROVE  RequestsOK'
  BY DEF TypeOK, RequestsOK, setResponse, BatchDone, callerVars

(* What TakeInput leaves is still a queue of requests within the capacity. *)
LEMMA TakeInputType ==
  ASSUME TypeOK, NEW r \in Requests, TakeInput(r)
  PROVE  input' \in Seq(Requests) /\ Len(input') <= InputCap
  BY DEF TypeOK, WriterOK, TakeInput

(* What KeepAlive and its callbacks leave alone.                           *)
LEMMA KeeperFrame ==
  ASSUME Keeper
  PROVE  /\ UNCHANGED <<inputClosed, closed, writerVars, linkVars, broken,
                        reply, err>>
         /\ state' \in {state, Restored(state)}
         /\ inputClosed => UNCHANGED input
<1>1. CASE KeepAliveLook
  BY <1>1 DEF KeepAliveLook, chanVars, answerVars
<1>2. ASSUME NEW r \in Requests, KeepAlivePush(r)
      PROVE  /\ UNCHANGED <<inputClosed, closed, writerVars, linkVars, broken,
                            reply, err, state>>
             /\ inputClosed => UNCHANGED input
  BY <1>2 DEF KeepAlivePush, Push, PushAccepted, PushDropped, PushPanics,
     answerVars
<1>3. ASSUME NEW r \in Requests, InfoCallback(r)
      PROVE  /\ UNCHANGED <<chanVars, writerVars, linkVars, broken, reply, err>>
             /\ state' \in {state, Restored(state)}
  BY <1>3 DEF InfoCallback, answerVars
<1> QED BY <1>1, <1>2, <1>3 DEF Keeper, chanVars

(* A push keeps the types, whoever pushes.                                 *)
LEMMA TypePush ==
  ASSUME TypeOK, NEW r \in Requests, Push(r), infos' \subseteq Requests,
         keeper' \in {"idle", "ping", "info", "panic"}, burst' \in Nat
  PROVE  TypeOK'
<1>1. FlagsOK' /\ LinksOK'
  BY DEF Push, TypeOK, FlagsOK, LinksOK, writerVars, linkVars
<1>2. input' \in Seq(Requests) /\ Len(input') <= InputCap
  BY AppendProperties DEF Push, PushAccepted, PushDropped,
     PushPanics, HasRoom, TypeOK, WriterOK
<1>3. WriterOK'
  BY <1>2 DEF Push, TypeOK, WriterOK, writerVars
<1>4. RequestsOK'
  BY DEF Push, PushAccepted, PushDropped, PushPanics, BatchAdd,
     TypeOK, RequestsOK, answerVars
<1> QED BY <1>1, <1>3, <1>4 DEF TypeOK

(* The steps of KeepAlive keep the types.                                  *)
LEMMA TypeKeeper == ASSUME TypeOK, Keeper PROVE TypeOK'
<1>1. CASE KeepAliveLook
  BY <1>1 DEF KeepAliveLook, TypeOK, FlagsOK, WriterOK, LinksOK, RequestsOK,
     chanVars, writerVars, linkVars, answerVars
<1>2. ASSUME NEW r \in Requests, KeepAlivePush(r) PROVE TypeOK'
  BY <1>2, TypePush DEF KeepAlivePush, TypeOK, RequestsOK
<1>3. ASSUME NEW r \in Requests, InfoCallback(r) PROVE TypeOK'
  BY <1>3 DEF InfoCallback, Restored, TypeOK, FlagsOK, WriterOK, LinksOK,
     RequestsOK, chanVars, writerVars, linkVars, answerVars
<1> QED BY <1>1, <1>2, <1>3 DEF Keeper

(* The steps of the callers keep the types.                                *)
LEMMA TypeCaller == ASSUME TypeOK, Caller PROVE TypeOK'
<1>1. ASSUME NEW r \in Requests, PushBack(r) PROVE TypeOK'
  BY <1>1, TypePush DEF PushBack, TypeOK, RequestsOK
<1>2. ASSUME NEW r \in Requests, SessionBreaks(r) PROVE TypeOK'
  BY <1>2 DEF SessionBreaks, TypeOK, FlagsOK, WriterOK, LinksOK, RequestsOK,
     chanVars, writerVars, linkVars, keepVars, answerVars
<1>3. CASE CloseInput
  BY <1>3 DEF CloseInput, TypeOK, FlagsOK, WriterOK, LinksOK, RequestsOK,
     writerVars, linkVars, callerVars, answerVars
<1>4. CASE CloseFlag
  BY <1>4 DEF CloseFlag, TypeOK, FlagsOK, WriterOK, LinksOK, RequestsOK,
     writerVars, linkVars, callerVars, answerVars
<1> QED BY <1>1, <1>2, <1>3, <1>4 DEF Caller

(* The steps of the writer keep the types.                                 *)
LEMMA TypeWriter == ASSUME TypeOK, HandsOK, Writer PROVE TypeOK'
<1> USE DEF TypeOK, chanVars, writerVars, linkVars, callerVars, answerVars
<1>1. CASE RunRound
  BY <1>1 DEF RunRound, FlagsOK, WriterOK, WriterStates, LinksOK, RequestsOK
<1>2. CASE DialFail
  <2>1. FlagsOK'
    BY <1>2 DEF DialFail, FlagsOK
  <2>2. WriterOK'
    BY <1>2, LenProperties DEF DialFail, WriterOK, WriterStates, DrainCount
  <2>3. LinksOK' /\ RequestsOK'
    BY <1>2 DEF DialFail, LinksOK, RequestsOK
  <2> QED BY <2>1, <2>2, <2>3
<1>3. CASE DialOK
  <2>1. FlagsOK' /\ WriterOK'
    BY <1>3 DEF DialOK, FlagsOK, WriterOK, WriterStates
  <2>2. LinksOK' /\ RequestsOK'
    BY <1>3 DEF DialOK, WriterOK, LinksOK, RequestsOK, ReaderStates
  <2> QED BY <2>1, <2>2
<1>4. ASSUME NEW r \in Requests,
             TakeBroken(r) \/ DrainOne(r) \/ DelayAnswer(r)
      PROVE  TypeOK'
  <2>1. TakeInput(r)
    BY <1>4 DEF TakeBroken, DrainOne, DelayAnswer
  <2>2. RequestsOK'
    BY <1>4, SetResponseType DEF TakeBroken, DrainOne, DelayAnswer, Errors
  <2>3. WriterOK'
    BY <1>4, <2>1, TakeInputType DEF TakeBroken, DrainOne, DelayAnswer,
       WriterOK, WriterStates
  <2>4. FlagsOK' /\ LinksOK'
    BY <1>4 DEF TakeBroken, DrainOne, DelayAnswer, FlagsOK, LinksOK
  <2> QED BY <2>2, <2>3, <2>4
<1>5. ASSUME NEW r \in Requests, Take(r) PROVE TypeOK'
  <2>1. WriterOK'
    BY <1>5, TakeInputType DEF Take, WriterOK, WriterStates
  <2>2. FlagsOK' /\ LinksOK' /\ RequestsOK'
    BY <1>5 DEF Take, FlagsOK, LinksOK, RequestsOK
  <2> QED BY <2>1, <2>2
<1>6. CASE WriteFlush
  <2>1. FlagsOK' /\ WriterOK' /\ RequestsOK'
    BY <1>6 DEF WriteFlush, FlagsOK, WriterOK, WriterStates, RequestsOK
  <2>2. cur \in Conns /\ whand \in Requests
    BY <1>6 DEF WriteFlush, WriterOK, HandsOK, Serving
  <2>3. sent' \in [Conns -> Nat]
    <3>1. Len(stream[cur]) \in Nat
      BY <2>2, LenProperties DEF LinksOK
    <3> QED BY <1>6, <2>2, <3>1 DEF WriteFlush, LinksOK
  <2>4. stream' \in [Conns -> Seq(Requests)]
    BY <1>6, <2>2, AppendProperties DEF WriteFlush, LinksOK
  <2>5. LinksOK'
    BY <1>6, <2>3, <2>4 DEF WriteFlush, LinksOK
  <2> QED BY <2>1, <2>5
<1>7. CASE WriteBuffer
  <2>1. FlagsOK' /\ WriterOK' /\ RequestsOK'
    BY <1>7 DEF WriteBuffer, FlagsOK, WriterOK, WriterStates, RequestsOK
  <2>2. cur \in Conns /\ whand \in Requests
    BY <1>7 DEF WriteBuffer, WriterOK, HandsOK, Serving
  <2>3. sent' \in [Conns -> Nat]
    <3>1. Len(stream[cur]) \in Nat
      BY <2>2, LenProperties DEF LinksOK
    <3>2. sent' = sent \/ sent' = [sent EXCEPT ![cur] = Len(stream[cur])]
      BY <1>7 DEF WriteBuffer
    <3> QED BY <2>2, <3>1, <3>2 DEF LinksOK
  <2>4. stream' \in [Conns -> Seq(Requests)]
    BY <1>7, <2>2, AppendProperties DEF WriteBuffer, LinksOK
  <2>5. LinksOK'
    BY <1>7, <2>3, <2>4 DEF WriteBuffer, LinksOK
  <2> QED BY <2>1, <2>5
<1>8. CASE WriteFail
  <2>1. RequestsOK'
    BY <1>8, SetResponseType DEF WriteFail, WriterOK, HandsOK, Errors
  <2>2. FlagsOK' /\ WriterOK'
    BY <1>8 DEF WriteFail, FlagsOK, WriterOK, WriterStates
  <2>3. cur \in Conns /\ whand \in Requests
    BY <1>8 DEF WriteFail, WriterOK, HandsOK, Serving
  <2>4. sent' \in [Conns -> Nat]
    <3>1. Len(stream[cur]) \in Nat /\ sent[cur] \in Nat
      BY <2>3, LenProperties DEF LinksOK
    <3>2. PICK n \in sent[cur]..Len(stream[cur]) + 1 :
             sent' = [sent EXCEPT ![cur] = n]
      BY <1>8 DEF WriteFail
    <3>3. n \in Nat
      BY <3>1
    <3> QED BY <3>2, <3>3 DEF LinksOK
  <2>5. stream' \in [Conns -> Seq(Requests)]
    BY <1>8, <2>3, AppendProperties DEF WriteFail, LinksOK
  <2>6. LinksOK'
    BY <1>8, <2>4, <2>5 DEF WriteFail, LinksOK
  <2> QED BY <2>1, <2>2, <2>6
<1>9. CASE Send
  <2>1. FlagsOK' /\ WriterOK' /\ RequestsOK'
    BY <1>9 DEF Send, FlagsOK, WriterOK, WriterStates, RequestsOK
  <2>2. LinksOK'
    BY <1>9, AppendProperties DEF Send, LinksOK, WriterOK, HandsOK, Serving
  <2> QED BY <2>1, <2>2
<1>10. CASE Finish
  BY <1>10 DEF Finish, FlagsOK, WriterOK, WriterStates, LinksOK, RequestsOK
<1>11. CASE Teardown
  <2>1. FlagsOK'
    BY <1>11 DEF Teardown, FlagsOK
  <2>2. WriterOK'
    BY <1>11, LenProperties DEF Teardown, WriterOK, WriterStates, DrainCount
  <2>3. LinksOK' /\ RequestsOK'
    BY <1>11 DEF Teardown, LinksOK, RequestsOK
  <2> QED BY <2>1, <2>2, <2>3
<1>12. CASE DrainDone
  <2>1. WriterOK'
    BY <1>12 DEF DrainDone, WriterOK, WriterStates
  <2>2. FlagsOK' /\ LinksOK' /\ RequestsOK'
    BY <1>12 DEF DrainDone, FlagsOK, LinksOK, RequestsOK
  <2> QED BY <2>1, <2>2
<1>13. CASE DelayOver
  BY <1>13 DEF DelayOver, FlagsOK, WriterOK, WriterStates, LinksOK,
     RequestsOK
<1> QED
  BY <1>1, <1>2, <1>3, <1>4, <1>5, <1>6, <1>7, <1>8, <1>9, <1>10, <1>11,
     <1>12, <1>13 DEF Writer

(* The steps of a reader and the failure of its connection keep the types. *)
LEMMA TypeReader ==
  ASSUME TypeOK, HandsOK, NEW c \in Conns, Reader(c) \/ Break(c)
  PROVE  TypeOK'
<1> USE DEF TypeOK, chanVars, writerVars, linkVars, callerVars, answerVars
<1>1. CASE ReaderTake(c)
  <2>1. Head(tasks[c]) \in Requests /\ Tail(tasks[c]) \in Seq(Requests)
    BY <1>1, HeadTailProperties DEF ReaderTake, LinksOK
  <2>2. LinksOK'
    BY <1>1, <2>1 DEF ReaderTake, LinksOK, ReaderStates
  <2>3. FlagsOK' /\ WriterOK' /\ RequestsOK'
    BY <1>1 DEF ReaderTake, FlagsOK, WriterOK, RequestsOK
  <2> QED BY <2>2, <2>3
<1>2. CASE ReaderDecode(c)
  <2>1. rhand[c] \in Requests
    BY <1>2 DEF ReaderDecode, LinksOK, HandsOK
  <2>2. stream[c] \in Seq(Requests) /\ stream[c] # <<>>
    BY <1>2 DEF ReaderDecode, LinksOK, HandsOK
  <2>3. Head(stream[c]) \in Requests /\ Tail(stream[c]) \in Seq(Requests)
    BY <2>2, HeadTailProperties
  <2>4. RequestsOK'
    BY <1>2, <2>1, <2>3, SetResponseType DEF ReaderDecode, Errors
  <2>5. FlagsOK' /\ WriterOK'
    BY <1>2 DEF ReaderDecode, FlagsOK, WriterOK, MarkStale
  <2>6. LinksOK'
    BY <1>2, <2>3 DEF ReaderDecode, LinksOK, ReaderStates
  <2> QED BY <2>4, <2>5, <2>6
<1>3. CASE ReaderFail(c)
  <2>1. rhand[c] \in Requests
    BY <1>3 DEF ReaderFail, LinksOK, HandsOK
  <2>2. RequestsOK'
    BY <1>3, <2>1, SetResponseType DEF ReaderFail, Errors
  <2>3. FlagsOK' /\ WriterOK'
    BY <1>3 DEF ReaderFail, FlagsOK, WriterOK
  <2>4. LinksOK'
    BY <1>3 DEF ReaderFail, LinksOK, ReaderStates
  <2> QED BY <2>2, <2>3, <2>4
<1>4. CASE ReaderDrain(c)
  <2>1. Head(tasks[c]) \in Requests /\ Tail(tasks[c]) \in Seq(Requests)
    BY <1>4, HeadTailProperties DEF ReaderDrain, LinksOK
  <2>2. RequestsOK'
    BY <1>4, <2>1, SetResponseType DEF ReaderDrain, Errors
  <2>3. FlagsOK' /\ WriterOK'
    BY <1>4 DEF ReaderDrain, FlagsOK, WriterOK
  <2>4. LinksOK'
    BY <1>4, <2>1 DEF ReaderDrain, LinksOK
  <2> QED BY <2>2, <2>3, <2>4
<1>5. CASE ReaderDone(c)
  BY <1>5 DEF ReaderDone, FlagsOK, WriterOK, LinksOK, ReaderStates,
     RequestsOK
<1>6. CASE Break(c)
  BY <1>6 DEF Break, FlagsOK, WriterOK, LinksOK, RequestsOK
<1> QED BY <1>1, <1>2, <1>3, <1>4, <1>5, <1>6 DEF Reader

(* The steps of the callers keep the bookkeeping of the goroutines.        *)
LEMMA HandsCaller == ASSUME HandsOK, Caller PROVE HandsOK'
<1> USE DEF HandsOK, Serving, chanVars, writerVars, linkVars
<1>1. ASSUME NEW r \in Requests, PushBack(r) \/ SessionBreaks(r)
      PROVE  HandsOK'
  BY <1>1 DEF PushBack, Push, SessionBreaks
<1>2. CASE CloseInput \/ CloseFlag
  BY <1>2 DEF CloseInput, CloseFlag
<1> QED BY <1>1, <1>2 DEF Caller

(* So do the steps of KeepAlive.                                           *)
LEMMA HandsKeeper == ASSUME HandsOK, Keeper PROVE HandsOK'
BY KeeperFrame DEF HandsOK, Serving, writerVars, linkVars

(* The steps of the writer keep it.                                        *)
LEMMA HandsWriter == ASSUME TypeOK, HandsOK, Writer PROVE HandsOK'
<1> USE DEF HandsOK, Serving, chanVars, writerVars, linkVars
<1>1. CASE RunRound \/ DialFail \/ Finish \/ DrainDone \/ DelayOver
  BY <1>1 DEF RunRound, DialFail, Finish, DrainDone, DelayOver
<1>2. CASE DialOK
  <2>1. cur \in Nat /\ cur + 1 \in Conns /\ cur' = cur + 1
    BY <1>2 DEF DialOK, TypeOK, WriterOK
  <2>2. rhand[cur + 1] = NoReq /\ whand = NoReq
    BY <1>2, <2>1 DEF DialOK
  <2>3. \A d \in Conns :
           /\ rpc'[d] = IF d = cur + 1 THEN "recv" ELSE rpc[d]
           /\ conn'[d] = IF d = cur + 1 THEN "up" ELSE conn[d]
    BY <1>2, <2>1 DEF DialOK, TypeOK, LinksOK
  <2>4. \A d \in Conns : d > cur' => d > cur /\ d # cur + 1
    BY <2>1
  <2>5. UNCHANGED <<whand, tasks, rhand, stream, sent>> /\ wpc' = "recv"
    BY <1>2 DEF DialOK
  <2> QED BY <2>1, <2>2, <2>3, <2>4, <2>5
<1>3. ASSUME NEW r \in Requests,
             TakeBroken(r) \/ Take(r) \/ DrainOne(r) \/ DelayAnswer(r)
      PROVE  HandsOK'
  <2>1. r # NoReq
    BY BackendConnAssumption
  <2>2. CASE TakeBroken(r) \/ DrainOne(r)
    BY <2>2 DEF TakeBroken, DrainOne
  <2>3. CASE Take(r)
    BY <2>1, <2>3 DEF Take
  <2>4. CASE DelayAnswer(r)
    BY <2>4 DEF DelayAnswer
  <2> QED BY <1>3, <2>2, <2>3, <2>4
<1>4. ASSUME WriteFlush \/ WriteBuffer \/ WriteFail PROVE HandsOK'
  <2>1. /\ cur \in Conns /\ whand \in Requests
        /\ stream' = [stream EXCEPT ![cur] = Append(@, whand)]
    BY <1>4 DEF WriteFlush, WriteBuffer, WriteFail, TypeOK, WriterOK
  <2>2. /\ stream'[cur] # <<>>
        /\ Len(stream'[cur]) = Len(stream[cur]) + 1
        /\ \A d \in Conns : d # cur => stream'[d] = stream[d]
    <3>1. stream[cur] \in Seq(Requests)
      BY <2>1 DEF TypeOK, LinksOK
    <3>2. /\ Append(stream[cur], whand) # <<>>
          /\ Len(Append(stream[cur], whand)) = Len(stream[cur]) + 1
      BY <2>1, <3>1, AppendProperties
    <3> QED BY <2>1, <3>2 DEF TypeOK, LinksOK
  <2>3. \A d \in Conns : sent'[d] <= Len(stream'[d])
    <3>0. /\ sent \in [Conns -> Nat]
          /\ \A d \in Conns : Len(stream[d]) \in Nat /\ sent[d] <= Len(stream[d])
      BY LenProperties DEF TypeOK, LinksOK
    <3>1. \A d \in Conns : d # cur => sent'[d] = sent[d]
      BY <1>4, <2>1, <3>0 DEF WriteFlush, WriteBuffer, WriteFail
    <3>2. sent'[cur] \in sent[cur]..Len(stream[cur]) + 1
      BY <1>4, <2>1, <3>0 DEF WriteFlush, WriteBuffer, WriteFail
    <3>3. sent'[cur] <= Len(stream'[cur])
      BY <2>1, <2>2, <3>0, <3>2
    <3> QED BY <2>2, <3>0, <3>1, <3>3
  <2>4. \A d \in Conns : d # cur => sent'[d] = sent[d]
    BY <1>4, <2>1 DEF WriteFlush, WriteBuffer, WriteFail, TypeOK, LinksOK
  <2>5. UNCHANGED <<cur, tasks, rpc, rhand, conn>>
    BY <1>4 DEF WriteFlush, WriteBuffer, WriteFail
  <2>6. wpc' \in {"write", "send"} <=> whand' # NoReq
    BY <1>4, <2>1 DEF WriteFlush, WriteBuffer, WriteFail
  <2>7. \A d \in Conns : d > cur' =>
          /\ tasks'[d] = <<>> /\ stream'[d] = <<>> /\ sent'[d] = 0
          /\ rpc'[d] = "none" /\ conn'[d] = "none"
    <3>1. \A d \in Conns : d > cur => d # cur
      BY <2>1
    <3> QED BY <2>2, <2>4, <2>5, <3>1
  <2> QED BY <2>1, <2>3, <2>5, <2>6, <2>7
<1>5. CASE Send
  BY <1>5 DEF Send, TypeOK, WriterOK, LinksOK
<1>6. CASE Teardown
  BY <1>6 DEF Teardown
<1> QED BY <1>1, <1>2, <1>3, <1>4, <1>5, <1>6 DEF Writer

(* The steps of a reader keep it.                                          *)
LEMMA HandsReader ==
  ASSUME TypeOK, HandsOK, NEW c \in Conns, Reader(c) \/ Break(c)
  PROVE  HandsOK'
<1> USE DEF HandsOK, Serving, chanVars, writerVars, linkVars
<1>0. NoReq \notin Requests
  BY BackendConnAssumption
<1>1. CASE ReaderTake(c)
  <2>1. Head(tasks[c]) \in Requests
    BY <1>1, HeadTailProperties DEF ReaderTake, TypeOK, LinksOK
  <2> QED BY <1>0, <1>1, <2>1 DEF ReaderTake, TypeOK, LinksOK
<1>2. CASE ReaderDecode(c)
  <2>1. stream[c] \in Seq(Requests) /\ stream[c] # <<>>
    BY <1>2 DEF ReaderDecode, TypeOK, LinksOK
  <2>2. Len(Tail(stream[c])) = Len(stream[c]) - 1
    BY <2>1, HeadTailProperties
  <2> QED BY <1>2, <2>1, <2>2 DEF ReaderDecode, TypeOK, LinksOK
<1>3. CASE ReaderFail(c)
  BY <1>3 DEF ReaderFail, TypeOK, LinksOK
<1>4. CASE ReaderDrain(c)
  BY <1>4 DEF ReaderDrain, TypeOK, LinksOK
<1>5. CASE ReaderDone(c)
  BY <1>5 DEF ReaderDone, TypeOK, LinksOK
<1>6. CASE Break(c)
  BY <1>6 DEF Break, TypeOK, LinksOK
<1> QED BY <1>1, <1>2, <1>3, <1>4, <1>5, <1>6 DEF Reader

(* The shape of the state is an invariant by itself.                       *)
LEMMA ShapeNext == ASSUME Shape, [Next]_vars PROVE Shape'
<1> USE DEF Shape
<1>1. CASE Caller
  BY <1>1, TypeCaller, HandsCaller
<1>2. CASE Writer
  BY <1>2, TypeWriter, HandsWriter
<1>3. ASSUME NEW c \in Conns, Reader(c) \/ Break(c) PROVE Shape'
  BY <1>3, TypeReader, HandsReader
<1>4. CASE UNCHANGED vars
  BY <1>4 DEF vars, TypeOK, FlagsOK, WriterOK, LinksOK, RequestsOK, HandsOK,
     Serving, chanVars, writerVars, linkVars, callerVars, answerVars
<1>5. CASE Keeper
  BY <1>5, TypeKeeper, HandsKeeper
<1> QED BY <1>1, <1>2, <1>3, <1>4, <1>5 DEF Next

(* Every variable keeps its type and the channels their capacities,        *)
(* whatever fails and whenever Close is called (pool.go 22-375).           *)
THEOREM TypeCorrect == Spec => []TypeOK
<1>1. Spec => []Shape
  BY ShapeInit, ShapeNext, PTL DEF Spec
<1>2. Shape => TypeOK
  BY DEF Shape
<1> QED BY <1>1, <1>2, PTL

(***************************************************************************)
(* Replies are matched with requests by position.                          *)
(***************************************************************************)

(* A step that leaves the connections alone keeps them aligned if it does  *)
(* not make one live and does not change what its writer holds.            *)
LEMMA AlignedFrame ==
  ASSUME PipelineAligned, UNCHANGED <<tasks, rpc, rhand, stream, conn>>,
         \/ wpc' \notin {"recv", "write", "send"}
         \/ UNCHANGED <<cur, wpc, whand>>
         \/ /\ cur' = cur
            /\ wpc \in {"recv", "write"} /\ wpc' \in {"recv", "write"}
  PROVE  PipelineAligned'
  BY DEF PipelineAligned, Aligned, InHand, Live

(* A new connection starts with nothing encoded and nothing awaited.       *)
LEMMA AlignedDial ==
  ASSUME Shape, PipelineAligned, DialOK PROVE PipelineAligned'
<1> SUFFICES ASSUME NEW d \in Conns, conn'[d] # "closed"
             PROVE  Aligned(d)'
  BY DEF PipelineAligned
<1>1. cur \in Nat /\ cur + 1 \in Conns /\ cur' = cur + 1
  BY DEF DialOK, Shape, TypeOK, WriterOK
<1>2. UNCHANGED <<tasks, rhand, stream>> /\ wpc' = "recv"
  BY DEF DialOK
<1>3. CASE d = cur + 1
  <2>1. tasks[d] = <<>> /\ stream[d] = <<>> /\ rpc'[d] = "recv"
    BY <1>1, <1>3 DEF DialOK, Shape, HandsOK, TypeOK, LinksOK
  <2> QED BY <1>2, <2>1 DEF Aligned, InHand, Live
<1>4. CASE d # cur + 1
  <2>1. rpc'[d] = rpc[d] /\ conn'[d] = conn[d] /\ ~Live(d)'
    BY <1>1, <1>2, <1>4 DEF DialOK, Shape, TypeOK, LinksOK, Live
  <2> QED BY <1>2, <2>1 DEF PipelineAligned, Aligned, InHand
<1> QED BY <1>3, <1>4

(* An encoded request is the last of the stream and the next to be handed  *)
(* over; if the write fails it is one nobody waits for.                    *)
LEMMA AlignedWrite ==
  ASSUME Shape, PipelineAligned, WriteFlush \/ WriteBuffer \/ WriteFail
  PROVE  PipelineAligned'
<1> SUFFICES ASSUME NEW d \in Conns, conn'[d] # "closed"
             PROVE  Aligned(d)'
  BY DEF PipelineAligned
<1>1. /\ cur \in Conns /\ whand \in Requests /\ wpc = "write"
      /\ stream' = [stream EXCEPT ![cur] = Append(@, whand)]
      /\ UNCHANGED <<cur, tasks, rpc, rhand, conn>>
      /\ \/ wpc' = "send" /\ whand' = whand
         \/ wpc' = "teardown"
  BY DEF WriteFlush, WriteBuffer, WriteFail, Shape, TypeOK, WriterOK,
     HandsOK, Serving
<1>2. Aligned(d)
  BY <1>1 DEF PipelineAligned
<1>3. CASE d = cur
  <2>1. stream[d] \in Seq(Requests) /\ tasks[d] \in Seq(Requests)
    BY DEF Shape, TypeOK, LinksOK
  <2>2. /\ Len(stream'[d]) = Len(stream[d]) + 1
        /\ \A i \in 1..Len(stream[d]) : stream'[d][i] = stream[d][i]
        /\ stream'[d][Len(stream[d]) + 1] = whand
    BY <1>1, <1>3, <2>1, AppendProperties DEF Shape, TypeOK, LinksOK
  <2>3. Len(stream[d]) \in Nat /\ Len(tasks[d]) \in Nat
    BY <2>1, LenProperties
  <2>4. Len(stream[d]) = InHand(d) + Len(tasks[d])
    BY <1>1, <1>2, <1>3 DEF Aligned, Live
  <2>5. InHand(d)' = InHand(d) /\ InHand(d) \in {0, 1}
    BY <1>1 DEF InHand
  <2>6. InHand(d)' + Len(tasks'[d]) <= Len(stream'[d])
    BY <1>1, <2>2, <2>3, <2>4, <2>5
  <2>7. rpc'[d] = "decode" => rhand'[d] = stream'[d][1]
    <3>1. rpc[d] = "decode" => 1 \in 1..Len(stream[d])
      BY <2>3, <2>4 DEF InHand
    <3> QED BY <1>1, <1>2, <2>2, <3>1 DEF Aligned
  <2>8. \A i \in 1..Len(tasks'[d]) :
           tasks'[d][i] = stream'[d][InHand(d)' + i]
    <3>1. \A i \in 1..Len(tasks[d]) : InHand(d) + i \in 1..Len(stream[d])
      BY <2>3, <2>4, <2>5
    <3> QED BY <1>1, <1>2, <2>2, <2>5, <3>1 DEF Aligned
  <2>9. /\ Len(stream'[d]) = InHand(d)' + Len(tasks'[d]) + 1
        /\ wpc' = "send" => stream'[d][Len(stream'[d])] = whand'
    BY <1>1, <2>2, <2>3, <2>4, <2>5
  <2> QED BY <1>1, <2>6, <2>7, <2>8, <2>9 DEF Aligned, Live
<1>4. CASE d # cur
  <2>1. stream'[d] = stream[d]
    BY <1>1, <1>4 DEF Shape, TypeOK, LinksOK
  <2> QED BY <1>1, <1>2, <1>4, <2>1 DEF Aligned, InHand, Live
<1> QED BY <1>3, <1>4

(* The request handed over is the one the stream ends with.                *)
LEMMA AlignedSend ==
  ASSUME Shape, PipelineAligned, Send PROVE PipelineAligned'
<1> SUFFICES ASSUME NEW d \in Conns, conn'[d] # "closed"
             PROVE  Aligned(d)'
  BY DEF PipelineAligned
<1>1. /\ cur \in Conns /\ whand \in Requests /\ wpc = "send"
      /\ tasks' = [tasks EXCEPT ![cur] = Append(@, whand)]
      /\ UNCHANGED <<cur, stream, rpc, rhand, conn>> /\ wpc' = "recv"
  BY DEF Send, Shape, TypeOK, WriterOK, HandsOK, Serving
<1>2. Aligned(d)
  BY <1>1 DEF PipelineAligned
<1>3. CASE d = cur
  <2>1. stream[d] \in Seq(Requests) /\ tasks[d] \in Seq(Requests)
    BY DEF Shape, TypeOK, LinksOK
  <2>2. /\ Len(tasks'[d]) = Len(tasks[d]) + 1
        /\ \A i \in 1..Len(tasks[d]) : tasks'[d][i] = tasks[d][i]
        /\ tasks'[d][Len(tasks[d]) + 1] = whand
    BY <1>1, <1>3, <2>1, AppendProperties DEF Shape, TypeOK, LinksOK
  <2>3. Len(stream[d]) \in Nat /\ Len(tasks[d]) \in Nat
    BY <2>1, LenProperties
  <2>4. /\ Len(stream[d]) = InHand(d) + Len(tasks[d]) + 1
        /\ stream[d][Len(stream[d])] = whand
    BY <1>1, <1>2, <1>3 DEF Aligned, Live
  <2>5. InHand(d)' = InHand(d) /\ InHand(d) \in {0, 1}
    BY <1>1 DEF InHand
  <2>6. Len(stream'[d]) = InHand(d)' + Len(tasks'[d])
    BY <1>1, <2>2, <2>3, <2>4, <2>5
  <2>7. rpc'[d] = "decode" => rhand'[d] = stream'[d][1]
    BY <1>1, <1>2 DEF Aligned
  <2>8. \A i \in 1..Len(tasks'[d]) :
           tasks'[d][i] = stream'[d][InHand(d)' + i]
    <3>1. ASSUME NEW i \in 1..Len(tasks[d])
          PROVE  tasks'[d][i] = stream'[d][InHand(d)' + i]
      BY <1>1, <1>2, <2>2, <2>3, <2>5, <3>1 DEF Aligned
    <3>2. tasks'[d][Len(tasks[d]) + 1] = stream'[d][Len(stream[d])]
      BY <1>1, <2>2, <2>4
    <3>3. Len(stream[d]) = InHand(d)' + (Len(tasks[d]) + 1)
      BY <2>3, <2>4, <2>5
    <3>4. \A i \in 1..Len(tasks'[d]) :
             i \in 1..Len(tasks[d]) \/ i = Len(tasks[d]) + 1
      BY <2>2, <2>3
    <3> QED BY <3>1, <3>2, <3>3, <3>4
  <2>9. InHand(d)' + Len(tasks'[d]) <= Len(stream'[d])
    BY <2>2, <2>3, <2>5, <2>6
  <2> QED BY <1>1, <2>6, <2>7, <2>8, <2>9 DEF Aligned, Live
<1>4. CASE d # cur
  <2>1. tasks'[d] = tasks[d]
    BY <1>1, <1>4 DEF Shape, TypeOK, LinksOK
  <2> QED BY <1>1, <1>2, <1>4, <2>1 DEF Aligned, InHand, Live
<1> QED BY <1>3, <1>4

(* The request the reader takes is the oldest unanswered one.              *)
LEMMA AlignedTake ==
  ASSUME Shape, PipelineAligned, NEW c \in Conns, ReaderTake(c)
  PROVE  PipelineAligned'
<1> SUFFICES ASSUME NEW d \in Conns, conn'[d] # "closed"
             PROVE  Aligned(d)'
  BY DEF PipelineAligned
<1>1. /\ rpc[c] = "recv" /\ tasks[c] \in Seq(Requests) /\ tasks[c] # <<>>
      /\ rpc' = [rpc EXCEPT ![c] = "decode"]
      /\ rhand' = [rhand EXCEPT ![c] = Head(tasks[c])]
      /\ tasks' = [tasks EXCEPT ![c] = Tail(@)]
      /\ UNCHANGED <<cur, wpc, whand, stream, conn>>
  BY DEF ReaderTake, writerVars, Shape, TypeOK, LinksOK
<1>2. Aligned(d)
  BY <1>1 DEF PipelineAligned
<1>3. CASE d = c
  <2>1. /\ Head(tasks[d]) = tasks[d][1]
        /\ Len(tasks'[d]) = Len(tasks[d]) - 1
        /\ \A i \in 1..Len(tasks'[d]) : tasks'[d][i] = tasks[d][i + 1]
        /\ Len(tasks[d]) \in Nat /\ Len(tasks[d]) > 0
    BY <1>1, <1>3, HeadTailProperties, LenProperties
    DEF Shape, TypeOK, LinksOK
  <2>2. InHand(d) = 0 /\ InHand(d)' = 1
    BY <1>1, <1>3 DEF InHand, Shape, TypeOK, LinksOK
  <2>3. rhand'[d] = stream[d][1]
    BY <1>1, <1>2, <1>3, <2>1, <2>2 DEF Aligned, Shape, TypeOK, LinksOK
  <2>4. \A i \in 1..Len(tasks'[d]) : tasks'[d][i] = stream[d][1 + i]
    <3>1. ASSUME NEW i \in 1..Len(tasks'[d])
          PROVE  tasks'[d][i] = stream[d][1 + i]
      <4>1. i + 1 \in 1..Len(tasks[d]) /\ InHand(d) + (i + 1) = 1 + i
        BY <2>1, <2>2
      <4>2. tasks[d][i + 1] = stream[d][1 + i]
        BY <1>2, <4>1 DEF Aligned
      <4> QED BY <2>1, <4>2
    <3> QED BY <3>1
  <2>5. rpc'[d] = "decode"
    BY <1>1, <1>3 DEF Shape, TypeOK, LinksOK
  <2>6. InHand(d)' + Len(tasks'[d]) = InHand(d) + Len(tasks[d])
    BY <2>1, <2>2
  <2> QED
    BY <1>1, <1>2, <2>2, <2>3, <2>4, <2>5, <2>6 DEF Aligned, Live
<1>4. CASE d # c
  BY <1>1, <1>2, <1>4 DEF Aligned, InHand, Live, Shape, TypeOK, LinksOK
<1> QED BY <1>3, <1>4

(* The reply read and the request it is given to leave together.           *)
LEMMA AlignedDecode ==
  ASSUME Shape, PipelineAligned, NEW c \in Conns, ReaderDecode(c)
  PROVE  PipelineAligned' /\ Head(stream[c]) = rhand[c]
<1>1. /\ rpc[c] = "decode" /\ conn[c] # "closed"
      /\ rpc' = [rpc EXCEPT ![c] = "recv"]
      /\ stream' = [stream EXCEPT ![c] = Tail(@)]
      /\ rhand' = [rhand EXCEPT ![c] = NoReq]
      /\ UNCHANGED <<cur, wpc, whand, tasks, conn>>
  BY DEF ReaderDecode, writerVars
<1>2. /\ stream[c] \in Seq(Requests) /\ stream[c] # <<>>
      /\ tasks[c] \in Seq(Requests) /\ Len(tasks[c]) \in Nat
  BY LenProperties DEF ReaderDecode, Shape, TypeOK, LinksOK, HandsOK
<1>3. /\ Head(stream[c]) = stream[c][1]
      /\ Len(stream[c]) \in Nat
      /\ Len(stream'[c]) = Len(stream[c]) - 1
      /\ \A i \in 1..Len(stream'[c]) : stream'[c][i] = stream[c][i + 1]
  BY <1>1, <1>2, HeadTailProperties, LenProperties
  DEF Shape, TypeOK, LinksOK
<1>4. Head(stream[c]) = rhand[c]
  BY <1>1, <1>3 DEF PipelineAligned, Aligned
<1>5. ASSUME NEW d \in Conns, conn'[d] # "closed" PROVE Aligned(d)'
  <2>1. Aligned(d)
    BY <1>1, <1>5 DEF PipelineAligned
  <2>2. CASE d = c
    <3>1. InHand(d) = 1 /\ InHand(d)' = 0 /\ tasks'[d] = tasks[d]
      BY <1>1, <2>2 DEF InHand, Shape, TypeOK, LinksOK
    <3>2. rpc'[d] # "decode"
      BY <1>1, <2>2 DEF Shape, TypeOK, LinksOK
    <3>3. \A i \in 1..Len(tasks[d]) : tasks[d][i] = stream'[d][i]
      <4>1. 1 + Len(tasks[d]) <= Len(stream[d])
        BY <2>1, <3>1 DEF Aligned
      <4>2. ASSUME NEW i \in 1..Len(tasks[d])
            PROVE  tasks[d][i] = stream'[d][i]
        <5>1. i \in 1..Len(stream'[d]) /\ InHand(d) + i = i + 1
          BY <1>2, <1>3, <2>2, <3>1, <4>1
        <5>2. tasks[d][i] = stream[d][i + 1]
          BY <2>1, <5>1 DEF Aligned
        <5> QED BY <1>3, <2>2, <5>1, <5>2
      <4> QED BY <4>2
    <3>4. Live(d) /\ wpc = "send" =>
            stream'[d][Len(stream'[d])] = stream[d][Len(stream[d])]
      <4>1. Live(d) /\ wpc = "send" =>
              Len(stream'[d]) \in 1..Len(stream'[d])
        BY <1>2, <1>3, <2>1, <2>2, <3>1 DEF Aligned
      <4> QED BY <1>3, <2>2, <4>1
    <3>5. Len(tasks'[d]) + 1 <= Len(stream[d]) /\ Len(tasks[d]) \in Nat
      BY <2>1, <3>1 DEF Aligned, Shape, TypeOK, LinksOK
    <3>6. Live(d)' = Live(d) /\ wpc' = wpc /\ whand' = whand
      BY <1>1 DEF Live
    <3>7. Len(stream'[d]) = Len(stream[d]) - 1
      BY <1>3, <2>2
    <3> QED
      BY <2>1, <3>1, <3>2, <3>3, <3>4, <3>5, <3>6, <3>7 DEF Aligned
  <2>3. CASE d # c
    BY <1>1, <2>1, <2>3 DEF Aligned, InHand, Live, Shape, TypeOK, LinksOK
  <2> QED BY <2>2, <2>3
<1> QED BY <1>4, <1>5 DEF PipelineAligned

(* A reader that has stopped decoding has closed its connection.           *)
LEMMA AlignedStop ==
  ASSUME Shape, PipelineAligned, NEW c \in Conns,
         ReaderFail(c) \/ ReaderDone(c) \/ Break(c)
  PROVE  PipelineAligned'
<1> SUFFICES ASSUME NEW d \in Conns, conn'[d] # "closed"
             PROVE  Aligned(d)'
  BY DEF PipelineAligned
<1>1. UNCHANGED <<cur, wpc, whand, tasks, stream>>
  BY DEF ReaderFail, ReaderDone, Break, writerVars
<1>2. /\ rpc'[d] = rpc[d] /\ rhand'[d] = rhand[d]
      /\ conn[d] # "closed"
  BY DEF ReaderFail, ReaderDone, Break, Shape, TypeOK, LinksOK
<1> QED BY <1>1, <1>2 DEF PipelineAligned, Aligned, InHand, Live

(* Only the reader itself stops decoding, and it closes the connection.    *)
LEMMA StoppedNext ==
  ASSUME Shape, StoppedOK, [Next]_vars PROVE StoppedOK'
<1>1. CASE DialOK
  <2>1. cur + 1 \in Conns
    BY <1>1 DEF DialOK, Shape, TypeOK, WriterOK
  <2>2. \A d \in Conns : rpc'[d] # rpc[d] \/ conn'[d] # conn[d] =>
           rpc'[d] = "recv"
    BY <1>1, <2>1 DEF DialOK, Shape, TypeOK, LinksOK
  <2> QED BY <2>2 DEF StoppedOK
<1>2. ASSUME NEW c \in Conns, Reader(c) \/ Break(c) PROVE StoppedOK'
  <2>1. CASE ReaderTake(c) \/ ReaderDecode(c)
    BY <2>1 DEF ReaderTake, ReaderDecode, StoppedOK, Shape, TypeOK, LinksOK
  <2>2. CASE ReaderFail(c) \/ ReaderDone(c)
    BY <2>2 DEF ReaderFail, ReaderDone, StoppedOK, Shape, TypeOK, LinksOK
  <2>3. CASE ReaderDrain(c)
    BY <2>3 DEF ReaderDrain, StoppedOK
  <2>4. CASE Break(c)
    BY <2>4 DEF Break, StoppedOK, Shape, TypeOK, LinksOK
  <2> QED BY <1>2, <2>1, <2>2, <2>3, <2>4 DEF Reader
<1>3. ASSUME UNCHANGED <<rpc, conn>> PROVE StoppedOK'
  BY <1>3 DEF StoppedOK
<1>4. CASE Caller \/ UNCHANGED vars
  BY <1>3, <1>4 DEF Caller, PushBack, Push, SessionBreaks, CloseInput, CloseFlag,
     vars, linkVars
<1>5. CASE Writer /\ ~DialOK
  BY <1>3, <1>5 DEF Writer, RunRound, DialFail, TakeBroken, Take, DrainOne,
     DelayAnswer, WriteFlush, WriteBuffer, WriteFail, Send, Finish, Teardown,
     DrainDone, DelayOver, linkVars
<1>6. CASE Keeper
  BY <1>3, <1>6, KeeperFrame DEF linkVars
<1> QED BY <1>1, <1>2, <1>4, <1>5, <1>6 DEF Next, Writer

(* Draining touches no connection that still decodes.                      *)
LEMMA AlignedDrain ==
  ASSUME Shape, StoppedOK, PipelineAligned, NEW c \in Conns, ReaderDrain(c)
  PROVE  PipelineAligned'
<1> SUFFICES ASSUME NEW d \in Conns, conn'[d] # "closed"
             PROVE  Aligned(d)'
  BY DEF PipelineAligned
<1>1. UNCHANGED <<cur, wpc, whand, rpc, rhand, stream, conn>>
  BY DEF ReaderDrain, writerVars
<1>2. d # c
  BY <1>1 DEF ReaderDrain, StoppedOK
<1>3. tasks'[d] = tasks[d]
  BY <1>2 DEF ReaderDrain, Shape, TypeOK, LinksOK
<1>4. Aligned(d)
  BY <1>1 DEF PipelineAligned
<1> QED BY <1>1, <1>3, <1>4 DEF Aligned, InHand, Live

(* Every step keeps the connections aligned.                               *)
LEMMA AlignedNext ==
  ASSUME Shape, StoppedOK, PipelineAligned, [Next]_vars
  PROVE  PipelineAligned'
<1> USE DEF writerVars, linkVars
<1>1. CASE Caller \/ UNCHANGED vars
  BY <1>1, AlignedFrame DEF Caller, PushBack, Push, SessionBreaks, CloseInput,
     CloseFlag, vars
<1>2. CASE Writer
  <2>1. CASE RunRound \/ DialFail \/ Finish \/ Teardown \/ DelayOver
    BY <2>1, AlignedFrame DEF RunRound, DialFail, Finish, Teardown, DelayOver
  <2>2. CASE DrainDone
    BY <2>2, AlignedFrame DEF DrainDone
  <2>3. ASSUME NEW r \in Requests, TakeBroken(r) \/ Take(r) \/ DrainOne(r)
        PROVE  PipelineAligned'
    BY <2>3, AlignedFrame DEF TakeBroken, Take, DrainOne
  <2>4. ASSUME NEW r \in Requests, DelayAnswer(r) PROVE PipelineAligned'
    BY <2>4, AlignedFrame DEF DelayAnswer
  <2>5. CASE DialOK
    BY <2>5, AlignedDial
  <2>6. CASE WriteFlush \/ WriteBuffer \/ WriteFail
    BY <2>6, AlignedWrite
  <2>7. CASE Send
    BY <2>7, AlignedSend
  <2> QED BY <1>2, <2>1, <2>2, <2>3, <2>4, <2>5, <2>6, <2>7 DEF Writer
<1>3. ASSUME NEW c \in Conns, Reader(c) \/ Break(c) PROVE PipelineAligned'
  BY <1>3, AlignedTake, AlignedDecode, AlignedStop, AlignedDrain DEF Reader
<1>4. CASE Keeper
  BY <1>4, KeeperFrame, AlignedFrame
<1> QED BY <1>1, <1>2, <1>3, <1>4 DEF Next

(* Only ReaderDecode gives a request a reply: an error answer has none.    *)
LEMMA RightNext ==
  ASSUME Shape, PipelineAligned, RightReply, [Next]_vars PROVE RightReply'
<1> USE DEF answerVars
<1>1. ASSUME NEW c \in Conns, ReaderDecode(c) PROVE RightReply'
  <2>1. setResponse(rhand[c], rhand[c], "nil")
    BY <1>1, AlignedDecode DEF ReaderDecode
  <2> QED
    BY <2>1 DEF setResponse, RightReply, Shape, TypeOK, RequestsOK
<1>2. ASSUME NEW r, NEW e, setResponse(r, NoReq, e) PROVE RightReply'
  BY <1>2 DEF setResponse, RightReply, Shape, TypeOK, RequestsOK
<1>3. ASSUME UNCHANGED reply PROVE RightReply'
  BY <1>3 DEF RightReply
<1>4. CASE Caller \/ UNCHANGED vars
  BY <1>3, <1>4 DEF Caller, PushBack, Push, PushAccepted, PushDropped, PushPanics,
     SessionBreaks, CloseInput, CloseFlag, vars
<1>5. CASE Writer
  BY <1>2, <1>3, <1>5 DEF Writer, RunRound, DialFail, DialOK, TakeBroken,
     Take, DrainOne, DelayAnswer, WriteFlush, WriteBuffer, WriteFail, Send,
     Finish, Teardown, DrainDone, DelayOver
<1>6. ASSUME NEW c \in Conns, Reader(c) \/ Break(c) PROVE RightReply'
  BY <1>1, <1>2, <1>3, <1>6 DEF Reader, ReaderTake, ReaderFail, ReaderDrain,
     ReaderDone, Break
<1>7. CASE Keeper
  BY <1>3, <1>7, KeeperFrame
<1> QED BY <1>4, <1>5, <1>6, <1>7 DEF Next

(* The inductive invariant behind the matching of replies.                 *)
Matched == Shape /\ StoppedOK /\ PipelineAligned /\ RightReply

(* It holds at first and every step keeps it.                              *)
LEMMA MatchedInit == Init => Matched
<1> SUFFICES ASSUME Init PROVE Matched
  OBVIOUS
<1>1. StoppedOK /\ RightReply
  BY DEF Init, StoppedOK, RightReply
<1>2. PipelineAligned
  BY DEF Init, PipelineAligned, Aligned, InHand, Live
<1> QED BY <1>1, <1>2, ShapeInit DEF Matched

(* Each part is kept with the help of the parts before it.                 *)
LEMMA MatchedNext == Matched /\ [Next]_vars => Matched'
  BY ShapeNext, StoppedNext, AlignedNext, RightNext DEF Matched

(* A request that gets a reply gets its own, for any number of requests,   *)
(* connections and failures (pool.go 272-305, 354-372).                    *)
THEOREM RepliesMatch == Spec => []RightReply
<1>1. Matched => RightReply
  BY DEF Matched
<1> QED BY <1>1, MatchedInit, MatchedNext, PTL DEF Spec

(***************************************************************************)
(* The state word, the closing round, and the blocked writer.              *)
(***************************************************************************)

(* IsConnected() answers yes only while a round is serving: an old reader  *)
(* can mark the connection stale but not revive it, and neither can an     *)
(* INFO answered in an earlier one (pool.go 129, 290-298, 342-344).        *)
THEOREM StateTracksRound == Spec => []ConnectedOnlyWhileServing
<1> USE DEF ConnectedOnlyWhileServing, Serving
<1>1. Init => ConnectedOnlyWhileServing
  BY DEF Init
<1>2. ASSUME ConnectedOnlyWhileServing, [Next]_vars
      PROVE  ConnectedOnlyWhileServing'
  <2>1. CASE Caller \/ UNCHANGED vars
    BY <1>2, <2>1 DEF Caller, PushBack, Push, SessionBreaks, CloseInput, CloseFlag,
       vars, writerVars
  <2>2. CASE Writer
    <3>1. CASE RunRound \/ DialFail \/ DrainDone \/ DelayOver
      BY <1>2, <3>1 DEF RunRound, DialFail, DrainDone, DelayOver
    <3>2. CASE DialOK
      BY <3>2 DEF DialOK
    <3>3. ASSUME NEW r \in Requests,
                 TakeBroken(r) \/ Take(r) \/ DrainOne(r) \/ DelayAnswer(r)
          PROVE  ConnectedOnlyWhileServing'
      BY <1>2, <3>3 DEF TakeBroken, Take, DrainOne, DelayAnswer, writerVars
    <3>4. CASE WriteFlush \/ WriteBuffer \/ WriteFail \/ Send \/ Finish
      BY <1>2, <3>4 DEF WriteFlush, WriteBuffer, WriteFail, Send, Finish
    <3>5. CASE Teardown
      BY <3>5 DEF Teardown
    <3> QED BY <2>2, <3>1, <3>2, <3>3, <3>4, <3>5 DEF Writer
  <2>3. ASSUME NEW c \in Conns, Reader(c) \/ Break(c)
        PROVE  ConnectedOnlyWhileServing'
    BY <1>2, <2>3 DEF Reader, ReaderTake, ReaderDecode, ReaderFail,
       ReaderDrain, ReaderDone, Break, MarkStale, writerVars
  <2>4. CASE Keeper
    BY <1>2, <2>4, KeeperFrame DEF Restored, writerVars
  <2> QED BY <1>2, <2>1, <2>2, <2>3, <2>4 DEF Next
<1> QED BY <1>1, <1>2, PTL DEF Spec

(* A round without an error ended because the input was closed and empty,  *)
(* and a closed input stays empty.                                         *)
ClosedAndEmpty ==
    wpc \in {"teardown", "drain"} /\ ~failed => inputClosed /\ input = <<>>

(* Close does not reset what was accepted before it: the last round serves *)
(* it (pool.go 354, 329).                                                  *)
THEOREM CloseServesAccepted == Spec => []ClosingRoundServesAll
<1> USE DEF ClosedAndEmpty
<1>1. Init => ClosedAndEmpty
  BY DEF Init
<1>2. ASSUME ClosedAndEmpty, [Next]_vars PROVE ClosedAndEmpty'
  <2>1. ASSUME NEW r \in Requests, PushBack(r) PROVE ClosedAndEmpty'
    BY <1>2, <2>1 DEF PushBack, Push, PushAccepted, PushDropped, PushPanics,
       writerVars
  <2>2. ASSUME NEW r \in Requests, SessionBreaks(r) PROVE ClosedAndEmpty'
    BY <1>2, <2>2 DEF SessionBreaks, chanVars, writerVars
  <2>3. CASE CloseInput \/ CloseFlag \/ UNCHANGED vars
    BY <1>2, <2>3 DEF CloseInput, CloseFlag, vars, chanVars, writerVars
  <2>4. CASE RunRound \/ DialOK \/ WriteFlush \/ WriteBuffer \/ Send
             \/ DrainDone \/ DelayOver
    BY <2>4 DEF RunRound, DialOK, WriteFlush, WriteBuffer, Send, DrainDone,
       DelayOver
  <2>5. CASE DialFail \/ WriteFail
    BY <2>5 DEF DialFail, WriteFail
  <2>6. ASSUME NEW r \in Requests,
               TakeBroken(r) \/ Take(r) \/ DelayAnswer(r)
        PROVE  ClosedAndEmpty'
    BY <2>6 DEF TakeBroken, Take, DelayAnswer, writerVars
  <2>7. ASSUME NEW r \in Requests, DrainOne(r) PROVE ClosedAndEmpty'
    BY <1>2, <2>7 DEF DrainOne, TakeInput
  <2>8. CASE Finish
    BY <2>8 DEF Finish, InputDone, chanVars
  <2>9. CASE Teardown
    BY <1>2, <2>9 DEF Teardown, chanVars
  <2>10. ASSUME NEW c \in Conns, Reader(c) \/ Break(c)
         PROVE  ClosedAndEmpty'
    BY <1>2, <2>10 DEF Reader, ReaderTake, ReaderDecode, ReaderFail,
       ReaderDrain, ReaderDone, Break, chanVars, writerVars
  <2>11. CASE Keeper
    BY <1>2, <2>11, KeeperFrame DEF writerVars
  <2> QED
    BY <1>2, <2>1, <2>2, <2>3, <2>4, <2>5, <2>6, <2>7, <2>8, <2>9, <2>10,
       <2>11
    DEF Next, Caller, Writer
<1>3. ClosedAndEmpty => ClosingRoundServesAll
  BY DEF ClosingRoundServesAll
<1> QED BY <1>1, <1>2, <1>3, PTL DEF Spec

(* Between KeepAlive's look and its push the input holds only what was     *)
(* pushed since.                                                           *)
BurstInv ==
    /\ keeper \in {"ping", "info"} => Len(input) <= burst
    /\ PingLostOnlyToBurst

(* KeepAlive's push keeps it: a PING that panics found no room.            *)
LEMMA BurstKeeper ==
  ASSUME TypeOK, BurstInv, Up, Keeper PROVE BurstInv'
<1>1. CASE KeepAliveLook
  BY <1>1 DEF KeepAliveLook, BurstInv, PingLostOnlyToBurst, chanVars
<1>2. ASSUME NEW r \in Requests, KeepAlivePush(r) PROVE BurstInv'
  <2>1. CASE keeper' = "idle"
    BY <2>1 DEF BurstInv, PingLostOnlyToBurst
  <2>2. CASE keeper' # "idle"
    <3>1. keeper' = "panic" /\ r \in panicked' /\ burst' = burst
          /\ keeper \in {"ping", "info"} /\ inputClosed' = inputClosed
      BY <1>2, <2>2 DEF KeepAlivePush, Push
    <3>2. r \notin panicked
      BY <1>2 DEF KeepAlivePush, Push, TypeOK, RequestsOK
    <3>3. PushDropped(r) \/ PushPanics(r)
      BY <1>2, <3>1, <3>2 DEF KeepAlivePush, Push, PushAccepted
    <3>4. inputClosed \/ ~(Len(input) < InputCap)
      BY <3>3 DEF PushDropped, PushPanics, HasRoom
    <3>5. Len(input) \in Nat /\ burst \in Nat /\ Len(input) <= burst
      BY <3>1, LenProperties DEF BurstInv, TypeOK, WriterOK, RequestsOK
    <3> QED
      BY <3>1, <3>4, <3>5, BackendConnAssumption
      DEF BurstInv, PingLostOnlyToBurst, BackendConnAssumption
  <2> QED BY <2>1, <2>2
<1>3. ASSUME NEW r \in Requests, InfoCallback(r) PROVE BurstInv'
  BY <1>3 DEF InfoCallback, BurstInv, PingLostOnlyToBurst, chanVars
<1> QED BY <1>1, <1>2, <1>3 DEF Keeper

LEMMA BurstNext ==
  ASSUME TypeOK, BurstInv, [Next]_vars PROVE BurstInv'
<1>1. ASSUME UNCHANGED <<keeper, burst, input>>,
             inputClosed' = inputClosed \/ inputClosed'
      PROVE  BurstInv'
  BY <1>1 DEF BurstInv, PingLostOnlyToBurst
<1>2. ASSUME NEW r \in Requests, TakeInput(r),
             UNCHANGED <<keeper, burst, inputClosed>>
      PROVE  BurstInv'
  <2>1. Len(input') = Len(input) - 1 /\ Len(input) \in Nat
    BY <1>2, HeadTailProperties, LenProperties DEF TakeInput, TypeOK, WriterOK
  <2> QED
    BY <1>2, <2>1 DEF BurstInv, PingLostOnlyToBurst, TypeOK, RequestsOK
<1>3. ASSUME NEW r \in Requests, PushBack(r), Up PROVE BurstInv'
  <2>1. UNCHANGED <<keeper, inputClosed>>
    BY <1>3 DEF PushBack, Push
  <2>2. Len(input') <= Len(input) + 1 /\ Len(input) \in Nat
        /\ Len(input') \in Nat
    BY <1>3, AppendProperties, LenProperties
    DEF PushBack, Push, PushAccepted, PushDropped, PushPanics, TypeOK, WriterOK
  <2>3. keeper # "idle" => burst' = burst + 1
    BY <1>3 DEF PushBack
  <2> QED
    BY <1>3, <2>1, <2>2, <2>3
    DEF BurstInv, PingLostOnlyToBurst, Up, TypeOK, RequestsOK
<1>4. ASSUME NEW r \in Requests, SessionBreaks(r) PROVE BurstInv'
  BY <1>1, <1>4 DEF SessionBreaks, chanVars, keepVars
<1>5. CASE CloseInput \/ CloseFlag \/ UNCHANGED vars
  BY <1>1, <1>5 DEF CloseInput, CloseFlag, callerVars, chanVars, vars
<1>6. ASSUME NEW r \in Requests,
             TakeBroken(r) \/ Take(r) \/ DrainOne(r) \/ DelayAnswer(r)
      PROVE  BurstInv'
  BY <1>2, <1>6 DEF TakeBroken, Take, DrainOne, DelayAnswer, callerVars
<1>7. CASE RunRound \/ DialFail \/ DialOK \/ WriteFlush \/ WriteBuffer
           \/ WriteFail \/ Send \/ Finish \/ Teardown \/ DrainDone
           \/ DelayOver
  BY <1>1, <1>7 DEF RunRound, DialFail, DialOK, WriteFlush, WriteBuffer,
     WriteFail, Send, Finish, Teardown, DrainDone, DelayOver, callerVars,
     chanVars
<1>8. ASSUME NEW c \in Conns, Reader(c) \/ Break(c) PROVE BurstInv'
  BY <1>1, <1>8 DEF Reader, ReaderTake, ReaderDecode, ReaderFail,
     ReaderDrain, ReaderDone, Break, callerVars, chanVars
<1> QED
  BY <1>3, <1>4, <1>5, <1>6, <1>7, <1>8, BurstKeeper DEF Next, Caller, Writer

(* The process is lost to a PING on an open connection only after a burst  *)
(* of at least the capacity between KeepAlive's two steps (pool.go 75,     *)
(* 81-92).                                                                 *)
THEOREM PingNeedsBurst == Spec => []PingLostOnlyToBurst
<1>1. Init => BurstInv
  BY DEF Init, BurstInv, PingLostOnlyToBurst
<1>2. BurstInv => PingLostOnlyToBurst
  BY DEF BurstInv
<1> QED BY <1>1, <1>2, BurstNext, TypeCorrect, PTL DEF Spec

(* What is encoded and not sent is counted, and the count is bounded.      *)
LEMMA FlushNext ==
  ASSUME Shape, FlushBounded, [Next]_vars PROVE FlushBounded'
<1>0. MaxBuffered \in Nat /\ MaxBuffered' = MaxBuffered /\ nbuffered \in Nat
  BY DEF MaxBuffered, Shape, TypeOK, WriterOK
<1>1. ASSUME UNCHANGED <<nbuffered, stream, sent>>,
             \A c \in Conns : Live(c)' /\ conn'[c] = "up" =>
                Live(c) /\ conn[c] = "up"
      PROVE  FlushBounded'
  BY <1>0, <1>1 DEF FlushBounded
<1>2. ASSUME UNCHANGED <<nbuffered, stream, sent, conn, cur>>,
             UNCHANGED wpc \/ wpc' \notin {"recv", "write", "send"}
               \/ wpc \in {"recv", "write", "send"}
      PROVE  FlushBounded'
  BY <1>1, <1>2 DEF Live
<1>3. CASE Caller \/ UNCHANGED vars
  BY <1>2, <1>3 DEF Caller, PushBack, Push, SessionBreaks, CloseInput, CloseFlag,
     vars, linkVars, writerVars
<1>4. CASE RunRound \/ DialFail \/ Send \/ Finish \/ Teardown \/ DrainDone
           \/ DelayOver
  BY <1>2, <1>4 DEF RunRound, DialFail, Send, Finish, Teardown, DrainDone,
     DelayOver, linkVars
<1>5. ASSUME NEW r \in Requests,
             TakeBroken(r) \/ Take(r) \/ DrainOne(r) \/ DelayAnswer(r)
      PROVE  FlushBounded'
  BY <1>2, <1>5 DEF TakeBroken, Take, DrainOne, DelayAnswer, linkVars,
     writerVars
<1>6. CASE DialOK
  <2>1. cur + 1 \in Conns /\ cur' = cur + 1 /\ cur \in Nat
    BY <1>6 DEF DialOK, Shape, TypeOK, WriterOK
  <2>2. stream[cur'] = <<>> /\ sent[cur'] = 0 /\ UNCHANGED <<stream, sent>>
    BY <1>6, <2>1 DEF DialOK, Shape, HandsOK
  <2>3. nbuffered' = 0
    BY <1>6 DEF DialOK
  <2> QED BY <1>0, <2>2, <2>3 DEF FlushBounded, Live
<1>7. CASE WriteFlush
  <2>1. cur \in Conns /\ whand \in Requests /\ stream[cur] \in Seq(Requests)
    BY <1>7 DEF WriteFlush, Shape, TypeOK, WriterOK, LinksOK, HandsOK,
       Serving
  <2>2. /\ Len(stream'[cur]) = Len(stream[cur]) + 1
        /\ Len(stream[cur]) \in Nat
    BY <1>7, <2>1, AppendProperties, LenProperties
    DEF WriteFlush, Shape, TypeOK, LinksOK
  <2>3. conn'[cur] = "up" => sent'[cur] = Len(stream[cur]) + 1
    BY <1>7, <2>1 DEF WriteFlush, Shape, TypeOK, LinksOK
  <2>4. nbuffered' = 0 /\ cur' = cur
    BY <1>7 DEF WriteFlush
  <2> QED BY <1>0, <2>2, <2>3, <2>4 DEF FlushBounded, Live
<1>8. CASE WriteBuffer
  <2>1. cur \in Conns /\ whand \in Requests /\ stream[cur] \in Seq(Requests)
        /\ wpc = "write"
    BY <1>8 DEF WriteBuffer, Shape, TypeOK, WriterOK, LinksOK, HandsOK,
       Serving
  <2>2. /\ Len(stream'[cur]) = Len(stream[cur]) + 1
        /\ Len(stream[cur]) \in Nat
    BY <1>8, <2>1, AppendProperties, LenProperties
    DEF WriteBuffer, Shape, TypeOK, LinksOK
  <2>3. /\ sent[cur] \in Nat /\ sent[cur] <= Len(stream[cur])
        /\ sent'[cur] \in {sent[cur], Len(stream[cur])}
    BY <1>8, <2>1 DEF WriteBuffer, Shape, TypeOK, LinksOK, HandsOK
  <2>4. /\ nbuffered' = nbuffered + 1 /\ cur' = cur /\ conn' = conn
        /\ nbuffered + 1 <= MaxBuffered
    BY <1>0, <1>8 DEF WriteBuffer, MustFlush, NeedFlush
  <2>5. conn[cur] = "up" => Len(stream[cur]) - sent[cur] <= nbuffered
    BY <2>1 DEF FlushBounded, Live
  <2>6. conn[cur] = "up" => Len(stream'[cur]) - sent'[cur] <= nbuffered'
    BY <1>0, <2>2, <2>3, <2>4, <2>5
  <2> QED BY <1>0, <2>4, <2>6 DEF FlushBounded, Live
<1>9. CASE WriteFail
  <2>1. wpc' = "teardown" /\ nbuffered' = nbuffered
    BY <1>9 DEF WriteFail
  <2> QED BY <1>0, <2>1 DEF FlushBounded, Live
<1>10. ASSUME NEW c \in Conns,
              ReaderTake(c) \/ ReaderFail(c) \/ ReaderDrain(c)
                \/ ReaderDone(c) \/ Break(c)
       PROVE  FlushBounded'
  <2>1. UNCHANGED <<nbuffered, stream, sent, cur, wpc>>
    BY <1>10 DEF ReaderTake, ReaderFail, ReaderDrain, ReaderDone, Break,
       writerVars
  <2>2. \A d \in Conns : conn'[d] = "up" => conn[d] = "up"
    BY <1>10 DEF ReaderTake, ReaderFail, ReaderDrain, ReaderDone, Break,
       Shape, TypeOK, LinksOK
  <2> QED BY <1>1, <2>1, <2>2 DEF Live
<1>11. ASSUME NEW c \in Conns, ReaderDecode(c) PROVE FlushBounded'
  <2>1. stream[c] \in Seq(Requests) /\ stream[c] # <<>> /\ sent[c] \in Nat
    BY <1>11 DEF ReaderDecode, Shape, TypeOK, LinksOK, HandsOK
  <2>2. Len(stream'[c]) = Len(stream[c]) - 1 /\ Len(stream[c]) \in Nat
    BY <1>11, <2>1, HeadTailProperties, LenProperties
    DEF ReaderDecode, Shape, TypeOK, LinksOK
  <2>3. sent'[c] = sent[c] - 1
    BY <1>11, <2>1 DEF ReaderDecode, Shape, TypeOK, LinksOK
  <2>4. \A d \in Conns : d # c =>
           stream'[d] = stream[d] /\ sent'[d] = sent[d]
    BY <1>11 DEF ReaderDecode, Shape, TypeOK, LinksOK
  <2>5. UNCHANGED <<nbuffered, cur, wpc, conn>>
    BY <1>11 DEF ReaderDecode, writerVars
  <2>6. Len(stream'[c]) - sent'[c] = Len(stream[c]) - sent[c]
    BY <2>1, <2>2, <2>3
  <2> QED BY <1>0, <2>4, <2>5, <2>6 DEF FlushBounded, Live
<1>12. CASE Keeper
  BY <1>2, <1>12, KeeperFrame DEF linkVars, writerVars
<1> QED
  BY <1>3, <1>4, <1>5, <1>6, <1>7, <1>8, <1>9, <1>10, <1>11, <1>12
  DEF Next, Writer, Reader

(* The writer that waits for room in tasks and the reader that waits for a *)
(* reply never wait for each other: at least TaskCap + 2 requests are      *)
(* encoded, at most TaskCap \div 2 of them unsent (pool.go 350, 369;       *)
(* conn.go 165-175).                                                       *)
THEOREM NoPipelineDeadlock == Spec => []WriterBlockedReaderFed
<1> DEFINE Inv == Matched /\ FlushBounded
<1>1. Init => Inv
  <2>1. Init => FlushBounded
    BY DEF Init, FlushBounded, MaxBuffered, Live
  <2> QED BY <2>1, MatchedInit
<1>2. Inv /\ [Next]_vars => Inv'
  BY MatchedNext, FlushNext DEF Matched
<1>3. Inv => WriterBlockedReaderFed
  <2> SUFFICES ASSUME Inv, NEW c \in Conns, wpc = "send", cur = c,
                      ~TaskRoom(c), rpc[c] = "decode", conn[c] = "up"
               PROVE  sent[c] > 0
    BY DEF WriterBlockedReaderFed
  <2>1. Len(stream[c]) = 1 + Len(tasks[c]) + 1
    BY DEF Matched, PipelineAligned, Aligned, Live, InHand
  <2>2. Len(tasks[c]) >= TaskCap /\ Len(tasks[c]) \in Nat
    BY LenProperties DEF TaskRoom, Matched, Shape, TypeOK, LinksOK
  <2>3. Len(stream[c]) - sent[c] <= nbuffered /\ nbuffered <= MaxBuffered
    BY DEF FlushBounded, Live
  <2>4. MaxBuffered \in Nat /\ MaxBuffered <= TaskCap /\ nbuffered \in Nat
        /\ sent[c] \in Nat
    BY DEF MaxBuffered, Matched, Shape, TypeOK, WriterOK, LinksOK
  <2> QED BY <2>1, <2>2, <2>3, <2>4
<1> QED BY <1>1, <1>2, <1>3, PTL DEF Spec

(***************************************************************************)
(* The writer that waits for input.                                        *)
(***************************************************************************)

(* While no session has gone, a writer that found the input empty, be it   *)
(* still blocked on tasks, has nothing in its buffer.                      *)
EmptyMeansFlushed ==
    broken = {} /\ wpc \in {"recv", "send"} /\ input = <<>>
      /\ conn[cur] = "up" => sent[cur] = Len(stream[cur])

(* A step that touches neither the link nor the writer keeps it when it    *)
(* does not empty the input.                                               *)
LEMMA FlushedFrame ==
  ASSUME EmptyMeansFlushed, UNCHANGED <<wpc, cur, stream, sent, conn>>,
         broken' = {} => broken = {}, input' = <<>> => input = <<>>
  PROVE  EmptyMeansFlushed'
BY DEF EmptyMeansFlushed

(* The steps of the writer: it takes the last request only to flush it.    *)
LEMMA FlushedWriter ==
  ASSUME Shape, EmptyMeansFlushed, Writer PROVE EmptyMeansFlushed'
<1>1. ASSUME wpc' \notin {"recv", "send"} PROVE EmptyMeansFlushed'
  BY <1>1 DEF EmptyMeansFlushed
<1>2. CASE RunRound \/ DialFail \/ WriteFail \/ Finish \/ Teardown
           \/ DrainDone \/ DelayOver
  BY <1>1, <1>2 DEF RunRound, DialFail, WriteFail, Finish, Teardown,
     DrainDone, DelayOver
<1>3. ASSUME NEW r \in Requests, Take(r) \/ DrainOne(r) \/ DelayAnswer(r)
      PROVE  EmptyMeansFlushed'
  BY <1>1, <1>3 DEF Take, DrainOne, DelayAnswer
<1>4. ASSUME NEW r \in Requests, TakeBroken(r) PROVE EmptyMeansFlushed'
  BY <1>4 DEF TakeBroken, ReadBroken, callerVars, EmptyMeansFlushed
<1>5. CASE DialOK
  <2>1. cur + 1 \in Conns /\ cur' = cur + 1 /\ cur \in Nat
    BY <1>5 DEF DialOK, Shape, TypeOK, WriterOK
  <2>2. stream[cur'] = <<>> /\ sent[cur'] = 0 /\ UNCHANGED <<stream, sent>>
    BY <1>5, <2>1 DEF DialOK, Shape, HandsOK
  <2> QED BY <2>2 DEF EmptyMeansFlushed
<1>6. CASE WriteFlush
  <2>1. cur \in Conns /\ whand \in Requests /\ stream[cur] \in Seq(Requests)
    BY <1>6 DEF WriteFlush, Shape, TypeOK, WriterOK, LinksOK, HandsOK,
       Serving
  <2>2. Len(stream'[cur]) = Len(stream[cur]) + 1
    BY <1>6, <2>1, AppendProperties DEF WriteFlush, Shape, TypeOK, LinksOK
  <2>3. conn'[cur] = "up" => sent'[cur] = Len(stream[cur]) + 1
    BY <1>6, <2>1 DEF WriteFlush, Shape, TypeOK, LinksOK
  <2> QED BY <1>6, <2>2, <2>3 DEF WriteFlush, EmptyMeansFlushed
<1>7. CASE WriteBuffer
  BY <1>7 DEF WriteBuffer, MustFlush, chanVars, EmptyMeansFlushed
<1>8. CASE Send
  BY <1>8 DEF Send, chanVars, callerVars, EmptyMeansFlushed
<1> QED
  BY <1>2, <1>3, <1>4, <1>5, <1>6, <1>7, <1>8 DEF Writer

(* Every step: nobody else empties the input.                              *)
LEMMA FlushedNext ==
  ASSUME Shape, EmptyMeansFlushed, [Next]_vars PROVE EmptyMeansFlushed'
<1>1. ASSUME NEW r \in Requests, Push(r) PROVE EmptyMeansFlushed'
  <2>1. input' = <<>> => input = <<>>
    BY <1>1, AppendProperties DEF Push, PushAccepted, PushDropped,
       PushPanics, Shape, TypeOK, WriterOK
  <2> QED BY <1>1, <2>1, FlushedFrame DEF Push, writerVars, linkVars
<1>2. CASE Caller
  <2>1. ASSUME NEW r \in Requests, SessionBreaks(r)
        PROVE  EmptyMeansFlushed'
    BY <2>1, FlushedFrame DEF SessionBreaks, chanVars, writerVars, linkVars
  <2>2. CASE CloseInput \/ CloseFlag
    BY <2>2, FlushedFrame DEF CloseInput, CloseFlag, writerVars, linkVars,
       callerVars
  <2> QED BY <1>1, <1>2, <2>1, <2>2 DEF Caller, PushBack
<1>3. CASE Keeper
  <2>1. CASE KeepAliveLook
    BY <2>1, FlushedFrame DEF KeepAliveLook, chanVars, writerVars, linkVars
  <2>2. ASSUME NEW r \in Requests, InfoCallback(r)
        PROVE  EmptyMeansFlushed'
    BY <2>2, FlushedFrame DEF InfoCallback, chanVars, writerVars, linkVars
  <2> QED BY <1>1, <1>3, <2>1, <2>2 DEF Keeper, KeepAlivePush
<1>4. ASSUME NEW c \in Conns, ReaderDecode(c) PROVE EmptyMeansFlushed'
  <2>1. stream[c] \in Seq(Requests) /\ stream[c] # <<>> /\ sent[c] \in Nat
    BY <1>4 DEF ReaderDecode, Shape, TypeOK, LinksOK, HandsOK
  <2>2. Len(stream'[c]) = Len(stream[c]) - 1 /\ sent'[c] = sent[c] - 1
    BY <1>4, <2>1, HeadTailProperties DEF ReaderDecode, Shape, TypeOK,
       LinksOK
  <2>3. \A d \in Conns : d # c =>
           stream'[d] = stream[d] /\ sent'[d] = sent[d]
    BY <1>4 DEF ReaderDecode, Shape, TypeOK, LinksOK
  <2>4. UNCHANGED <<broken, wpc, input, cur, conn>>
    BY <1>4 DEF ReaderDecode, chanVars, writerVars, callerVars
  <2>5. wpc \in {"recv", "send"} => cur \in Conns
    BY DEF Shape, HandsOK, Serving
  <2>6. CASE wpc \in {"recv", "send"} /\ cur = c
    BY <2>2, <2>4, <2>6 DEF EmptyMeansFlushed
  <2>7. CASE wpc \in {"recv", "send"} /\ cur # c
    BY <2>3, <2>4, <2>5, <2>7 DEF EmptyMeansFlushed
  <2> QED BY <2>4, <2>6, <2>7 DEF EmptyMeansFlushed
<1>5. ASSUME NEW c \in Conns,
             ReaderTake(c) \/ ReaderFail(c) \/ ReaderDrain(c)
               \/ ReaderDone(c) \/ Break(c)
      PROVE  EmptyMeansFlushed'
  <2>1. UNCHANGED <<broken, wpc, input, cur, stream, sent>>
    BY <1>5 DEF ReaderTake, ReaderFail, ReaderDrain, ReaderDone, Break,
       chanVars, writerVars, callerVars
  <2>2. \A d \in Conns : conn'[d] = "up" => conn[d] = "up"
    BY <1>5 DEF ReaderTake, ReaderFail, ReaderDrain, ReaderDone, Break,
       Shape, TypeOK, LinksOK
  <2>3. wpc \in {"recv", "send"} => cur \in Conns
    BY DEF Shape, HandsOK, Serving
  <2> QED BY <2>1, <2>2, <2>3 DEF EmptyMeansFlushed
<1>6. CASE UNCHANGED vars
  BY <1>6, FlushedFrame DEF vars, chanVars, writerVars, linkVars, callerVars
<1> QED
  BY <1>2, <1>3, <1>4, <1>5, <1>6, FlushedWriter DEF Next, Reader

(* A writer that waits for input has sent everything it has encoded, as    *)
(* long as no request was broken by its session: then the one that would   *)
(* have flushed is skipped (pool.go 356-359, 364-367).                     *)
THEOREM IdleWriterHasFlushed == Spec => []UnbrokenIdleFlushed
<1>1. Init => EmptyMeansFlushed
  BY DEF Init, EmptyMeansFlushed
<1>2. EmptyMeansFlushed => UnbrokenIdleFlushed
  BY DEF EmptyMeansFlushed, UnbrokenIdleFlushed, IdleWriterFlushed
<1>3. Spec => []Shape
  BY ShapeInit, ShapeNext, PTL DEF Spec
<1> QED BY <1>1, <1>2, <1>3, FlushedNext, PTL DEF Spec

-----------------------------------------------------------------------------
(* BackendConn implements BackendPromise, and the Batch of a request       *)
(* counts the places that hold it.  Both rest on one fact: a request is in *)
(* one place at most, and only as long as it has no answer.                *)
(* r is in the sequence s; nothing is in s twice.                          *)
In(r, s) == \E i \in 1..Len(s) : s[i] = r
Distinct(s) == \A i, j \in 1..Len(s) : s[i] = s[j] => i = j

(* Somebody holds r and will answer it.                                    *)
Held(r) ==
    \/ In(r, input)
    \/ whand = r
    \/ \E c \in Conns : rhand[c] = r \/ In(r, tasks[c])

(* A request is in one place at most.                                      *)
OnePlace ==
    /\ Distinct(input)
    /\ \A c \in Conns : Distinct(tasks[c])
    /\ \A r \in Requests :
          /\ In(r, input) =>
                whand # r /\ \A c \in Conns : rhand[c] # r /\ ~In(r, tasks[c])
          /\ whand = r =>
                \A c \in Conns : rhand[c] # r /\ ~In(r, tasks[c])
          /\ \A c, d \in Conns : rhand[c] = r => ~In(r, tasks[d])
          /\ \A c, d \in Conns : c # d =>
                /\ ~(rhand[c] = r /\ rhand[d] = r)
                /\ ~(In(r, tasks[c]) /\ In(r, tasks[d]))

(* Who holds a request was given it by a push, nobody has answered it, and *)
(* its Batch counts the holder; an answer is a reply or an error.          *)
HeldOK ==
    \A r \in Requests :
        /\ Held(r) => r \in pushed \ panicked
        /\ Held(r) \/ r \notin pushed \/ r \in panicked =>
              reply[r] = NoReq /\ err[r] = "nil"
        /\ reply[r] = NoReq \/ err[r] = "nil"
        /\ r \notin Unbatched \cup panicked =>
              batch[r] = IF Held(r) THEN 1 ELSE 0

Custody == OnePlace /\ HeldOK

-----------------------------------------------------------------------------
(* Sequences without repetition.                                           *)

LEMMA InAppend ==
  ASSUME NEW s \in Seq(Requests), NEW x \in Requests, NEW r
  PROVE  In(r, Append(s, x)) <=> In(r, s) \/ r = x
<1>1. Len(Append(s, x)) = Len(s) + 1 /\ Len(s) \in Nat
      /\ Append(s, x)[Len(s) + 1] = x
      /\ \A i \in 1..Len(s) : Append(s, x)[i] = s[i]
  BY AppendProperties, LenProperties
<1> QED BY <1>1 DEF In

LEMMA InTail ==
  ASSUME NEW s \in Seq(Requests), s # <<>>, Distinct(s), NEW r
  PROVE  /\ In(Head(s), s)
         /\ In(r, Tail(s)) <=> In(r, s) /\ r # Head(s)
<1>1. /\ Len(s) \in Nat /\ Len(s) > 0 /\ Len(Tail(s)) = Len(s) - 1
      /\ Head(s) = s[1]
      /\ \A i \in 1..Len(s) - 1 : Tail(s)[i] = s[i + 1]
  BY HeadTailProperties, LenProperties, EmptySeq
<1>2. In(Head(s), s)
  BY <1>1 DEF In
<1>3. ASSUME In(r, Tail(s)) PROVE In(r, s) /\ r # Head(s)
  <2>1. PICK i \in 1..Len(s) - 1 : s[i + 1] = r
    BY <1>1, <1>3 DEF In
  <2>2. i + 1 \in 1..Len(s) /\ 1 \in 1..Len(s) /\ i + 1 # 1
    BY <1>1, <2>1
  <2> QED BY <1>1, <2>1, <2>2 DEF In, Distinct
<1>4. ASSUME In(r, s), r # Head(s) PROVE In(r, Tail(s))
  <2>1. PICK i \in 1..Len(s) : s[i] = r
    BY <1>4 DEF In
  <2>2. i - 1 \in 1..Len(s) - 1 /\ (i - 1) + 1 = i
    BY <1>1, <1>4, <2>1
  <2> QED BY <1>1, <2>1, <2>2 DEF In
<1> QED BY <1>2, <1>3, <1>4

LEMMA DistinctAppend ==
  ASSUME NEW s \in Seq(Requests), NEW x \in Requests, Distinct(s), ~In(x, s)
  PROVE  Distinct(Append(s, x))
<1>1. Len(Append(s, x)) = Len(s) + 1 /\ Len(s) \in Nat
      /\ Append(s, x)[Len(s) + 1] = x
      /\ \A i \in 1..Len(s) : Append(s, x)[i] = s[i]
  BY AppendProperties, LenProperties
<1>2. ASSUME NEW i \in 1..Len(s) + 1, NEW j \in 1..Len(s) + 1,
             Append(s, x)[i] = Append(s, x)[j]
      PROVE  i = j
  <2>1. CASE i \in 1..Len(s) /\ j \in 1..Len(s)
    BY <1>1, <1>2, <2>1 DEF Distinct
  <2>2. CASE i = Len(s) + 1 /\ j \in 1..Len(s)
    BY <1>1, <1>2, <2>2 DEF In
  <2>3. CASE j = Len(s) + 1 /\ i \in 1..Len(s)
    BY <1>1, <1>2, <2>3 DEF In
  <2> QED BY <1>1, <2>1, <2>2, <2>3
<1> QED BY <1>1, <1>2 DEF Distinct

LEMMA DistinctTail ==
  ASSUME NEW s \in Seq(Requests), s # <<>>, Distinct(s)
  PROVE  Distinct(Tail(s))
<1>1. /\ Len(s) \in Nat /\ Len(s) > 0 /\ Len(Tail(s)) = Len(s) - 1
      /\ \A i \in 1..Len(s) - 1 : Tail(s)[i] = s[i + 1]
  BY HeadTailProperties, LenProperties, EmptySeq
<1>2. \A i \in 1..Len(s) - 1 : i + 1 \in 1..Len(s)
  BY <1>1
<1>3. ASSUME NEW i \in 1..Len(s) - 1, NEW j \in 1..Len(s) - 1,
             s[i + 1] = s[j + 1]
      PROVE  i = j
  <2>1. i + 1 = j + 1
    BY <1>2, <1>3 DEF Distinct
  <2> QED BY <1>1, <2>1
<1> QED BY <1>1, <1>3 DEF Distinct

-----------------------------------------------------------------------------
(* What a step does to the places: nothing changes hands, somebody lets go *)
(* of r, or somebody gets it.                                              *)
Keeps == \A q \in Requests : Held(q)' <=> Held(q)
Releases(r) ==
    /\ r \in Requests /\ Held(r)
    /\ \A q \in Requests : Held(q)' <=> Held(q) /\ q # r
Gains(r) ==
    /\ r \in Requests /\ ~Held(r)
    /\ \A q \in Requests : Held(q)' <=> Held(q) \/ q = r

LEMMA PlacesUnchanged ==
  ASSUME OnePlace, UNCHANGED <<input, whand, rhand, tasks>>
  PROVE  OnePlace' /\ Keeps
BY DEF OnePlace, Keeps, Held

(* The writer answers what it takes from the input.                        *)
LEMMA InputReleased ==
  ASSUME TypeOK, OnePlace, NEW r \in Requests, TakeInput(r),
         UNCHANGED <<whand, rhand, tasks>>
  PROVE  OnePlace' /\ Releases(r)
<1>1. input \in Seq(Requests) /\ input # <<>> /\ r = Head(input)
      /\ input' = Tail(input) /\ Distinct(input)
  BY DEF TypeOK, WriterOK, TakeInput, OnePlace
<1>2. In(r, input) /\ Distinct(input')
      /\ \A q : In(q, input') <=> In(q, input) /\ q # r
  BY <1>1, InTail, DistinctTail
<1>3. OnePlace'
  BY <1>2 DEF OnePlace
<1>4. Releases(r)
  BY <1>2 DEF OnePlace, Releases, Held
<1> QED BY <1>3, <1>4

(* It takes a request from the input into its hand.                        *)
LEMMA InputTaken ==
  ASSUME TypeOK, HandsOK, OnePlace, NEW r \in Requests, Take(r)
  PROVE  OnePlace' /\ Keeps
<1>1. input \in Seq(Requests) /\ input # <<>> /\ r = Head(input)
      /\ input' = Tail(input) /\ Distinct(input)
  BY DEF TypeOK, WriterOK, Take, TakeInput, OnePlace
<1>2. In(r, input) /\ Distinct(input')
      /\ \A q : In(q, input') <=> In(q, input) /\ q # r
  BY <1>1, InTail, DistinctTail
<1>3. whand = NoReq /\ whand' = r /\ UNCHANGED <<rhand, tasks>>
  BY DEF Take, HandsOK, linkVars
<1>4. OnePlace'
  BY <1>2, <1>3 DEF OnePlace
<1>5. Keeps
  BY <1>2, <1>3 DEF OnePlace, Keeps, Held
<1> QED BY <1>4, <1>5

(* It hands it over to the reader's tasks.                                 *)
LEMMA HandSent ==
  ASSUME TypeOK, HandsOK, OnePlace, Send
  PROVE  OnePlace' /\ Keeps
<1> DEFINE r == whand
<1>1. r \in Requests /\ cur \in Conns /\ tasks \in [Conns -> Seq(Requests)]
  BY DEF Send, TypeOK, WriterOK, LinksOK, HandsOK, Serving
<1>2. /\ UNCHANGED <<input, rhand>> /\ whand' = NoReq
      /\ tasks' = [tasks EXCEPT ![cur] = Append(tasks[cur], r)]
  BY DEF Send, chanVars
<1>3. /\ ~In(r, input)
      /\ \A c \in Conns : rhand[c] # r /\ ~In(r, tasks[c])
      /\ Distinct(tasks[cur])
  BY <1>1 DEF OnePlace
<1>4. \A c \in Conns, q \in Requests :
         In(q, tasks'[c]) <=> In(q, tasks[c]) \/ (c = cur /\ q = r)
  BY <1>1, <1>2, InAppend
<1>5. \A c \in Conns : Distinct(tasks'[c])
  BY <1>1, <1>2, <1>3, DistinctAppend DEF OnePlace
<1>6. OnePlace'
  BY <1>1, <1>2, <1>3, <1>4, <1>5 DEF OnePlace
<1>7. Keeps
  BY <1>1, <1>2, <1>3, <1>4 DEF Keeps, Held
<1> QED BY <1>6, <1>7

(* It answers what it has in its hand.                                     *)
LEMMA HandFailed ==
  ASSUME TypeOK, HandsOK, OnePlace, WriteFail
  PROVE  OnePlace' /\ Releases(whand)
<1>1. whand \in Requests
  BY DEF WriteFail, TypeOK, WriterOK, HandsOK
<1>2. UNCHANGED <<input, rhand, tasks>> /\ whand' = NoReq
  BY DEF WriteFail, chanVars
<1>3. OnePlace'
  BY <1>2 DEF OnePlace
<1>4. Releases(whand)
  BY <1>1, <1>2 DEF OnePlace, Releases, Held
<1> QED BY <1>3, <1>4

(* The reader of c takes a request from its tasks.                         *)
LEMMA TaskTaken ==
  ASSUME TypeOK, HandsOK, OnePlace, NEW c \in Conns, ReaderTake(c)
  PROVE  OnePlace' /\ Keeps
<1> DEFINE r == Head(tasks[c])
<1>1. tasks \in [Conns -> Seq(Requests)] /\ rhand \in [Conns -> MaybeReq]
      /\ tasks[c] # <<>> /\ Distinct(tasks[c]) /\ rhand[c] = NoReq
  BY DEF ReaderTake, TypeOK, LinksOK, OnePlace, HandsOK
<1>2. r \in Requests
  BY <1>1, HeadTailProperties
<1>3. /\ UNCHANGED <<input, whand>>
      /\ rhand' = [rhand EXCEPT ![c] = r]
      /\ tasks' = [tasks EXCEPT ![c] = Tail(tasks[c])]
  BY DEF ReaderTake, chanVars, writerVars
<1>4. In(r, tasks[c]) /\ Distinct(Tail(tasks[c]))
      /\ \A q : In(q, Tail(tasks[c])) <=> In(q, tasks[c]) /\ q # r
  BY <1>1, InTail, DistinctTail
<1>5. \A d \in Conns : Distinct(tasks'[d])
      /\ \A q : In(q, tasks'[d]) <=> In(q, tasks[d]) /\ (d = c => q # r)
  BY <1>1, <1>3, <1>4 DEF OnePlace
<1>6. \A d \in Conns : rhand'[d] = IF d = c THEN r ELSE rhand[d]
  BY <1>1, <1>3
<1>7. /\ ~In(r, input) /\ whand # r
      /\ \A d \in Conns : rhand[d] # r /\ (d # c => ~In(r, tasks[d]))
  BY <1>2, <1>4 DEF OnePlace
<1>8. OnePlace'
  BY <1>1, <1>2, <1>3, <1>5, <1>6, <1>7 DEF OnePlace
<1>9. Keeps
  BY <1>1, <1>2, <1>3, <1>4, <1>5, <1>6, <1>7 DEF Keeps, Held
<1> QED BY <1>8, <1>9

(* It answers the request in its hand.                                     *)
LEMMA TaskAnswered ==
  ASSUME TypeOK, HandsOK, OnePlace, NEW c \in Conns,
         ReaderDecode(c) \/ ReaderFail(c)
  PROVE  OnePlace' /\ Releases(rhand[c])
<1>1. rhand \in [Conns -> MaybeReq] /\ rhand[c] \in Requests
  BY DEF ReaderDecode, ReaderFail, TypeOK, LinksOK, HandsOK
<1>2. UNCHANGED <<input, whand, tasks>> /\ rhand' = [rhand EXCEPT ![c] = NoReq]
  BY DEF ReaderDecode, ReaderFail, chanVars, writerVars
<1>3. \A d \in Conns : rhand'[d] = IF d = c THEN NoReq ELSE rhand[d]
  BY <1>1, <1>2
<1>4. OnePlace'
  BY <1>2, <1>3 DEF OnePlace
<1>5. Releases(rhand[c])
  BY <1>1, <1>2, <1>3 DEF OnePlace, Releases, Held
<1> QED BY <1>4, <1>5

(* It answers what it finds in its tasks after a failure.                  *)
LEMMA TaskDrained ==
  ASSUME TypeOK, HandsOK, OnePlace, NEW c \in Conns, ReaderDrain(c)
  PROVE  OnePlace' /\ Releases(Head(tasks[c]))
<1> DEFINE r == Head(tasks[c])
<1>1. tasks \in [Conns -> Seq(Requests)]
      /\ tasks[c] # <<>> /\ Distinct(tasks[c])
  BY DEF ReaderDrain, TypeOK, LinksOK, OnePlace
<1>2. r \in Requests
  BY <1>1, HeadTailProperties
<1>3. /\ UNCHANGED <<input, whand, rhand>>
      /\ tasks' = [tasks EXCEPT ![c] = Tail(tasks[c])]
  BY DEF ReaderDrain, chanVars, writerVars
<1>4. In(r, tasks[c]) /\ Distinct(Tail(tasks[c]))
      /\ \A q : In(q, Tail(tasks[c])) <=> In(q, tasks[c]) /\ q # r
  BY <1>1, InTail, DistinctTail
<1>5. \A d \in Conns : Distinct(tasks'[d])
      /\ \A q : In(q, tasks'[d]) <=> In(q, tasks[d]) /\ (d = c => q # r)
  BY <1>1, <1>3, <1>4 DEF OnePlace
<1>6. OnePlace'
  BY <1>3, <1>5 DEF OnePlace
<1>7. Releases(r)
  BY <1>2, <1>3, <1>4, <1>5 DEF OnePlace, Releases, Held
<1> QED BY <1>6, <1>7

(* A push that is accepted puts a new request into the input.              *)
LEMMA InputGained ==
  ASSUME TypeOK, Custody, NEW r \in Requests, r \notin pushed,
         PushAccepted(r), UNCHANGED <<whand, rhand, tasks>>
  PROVE  OnePlace' /\ Gains(r)
<1>1. ~Held(r)
  BY DEF Custody, HeldOK
<1>2. input \in Seq(Requests) /\ input' = Append(input, r)
      /\ Distinct(input) /\ ~In(r, input)
  BY <1>1 DEF TypeOK, WriterOK, PushAccepted, Custody, OnePlace, Held
<1>3. Distinct(input') /\ \A q : In(q, input') <=> In(q, input) \/ q = r
  BY <1>2, InAppend, DistinctAppend
<1>4. OnePlace'
  BY <1>1, <1>3 DEF Custody, OnePlace, Held
<1>5. Gains(r)
  BY <1>1, <1>3 DEF Gains, Held
<1> QED BY <1>4, <1>5

-----------------------------------------------------------------------------
(* The three kinds of steps.  Which one a step is, ...                     *)

(* A step that answers nobody, and in which nobody is pushed.              *)
Quiet ==
    /\ OnePlace' /\ Keeps
    /\ UNCHANGED <<inputClosed, pushed, panicked, reply, err, batch>>

(* r is answered, by a reply or by an error.                               *)
Answers(r) ==
    /\ OnePlace' /\ Releases(r)
    /\ UNCHANGED <<inputClosed, pushed, panicked>>
    /\ \/ \E p \in Requests : setResponse(r, p, "nil")
       \/ \E e \in Errors \ {"nil"} : setResponse(r, NoReq, e)

(* The input is closed.                                                    *)
Closes ==
    /\ OnePlace' /\ Keeps
    /\ ~inputClosed /\ inputClosed'
    /\ UNCHANGED <<pushed, panicked, reply, err, batch>>

LEMMA PlacesPushed ==
  ASSUME TypeOK, Custody, NEW r \in Requests, Push(r)
  PROVE  /\ r \notin pushed /\ OnePlace'
         /\ IF PushAccepted(r) THEN Gains(r) ELSE Keeps
<1>1. r \notin pushed /\ UNCHANGED <<whand, rhand, tasks>>
  BY DEF Push, writerVars, linkVars
<1>2. CASE PushAccepted(r)
  BY <1>1, <1>2, InputGained
<1>3. CASE ~PushAccepted(r)
  <2>1. UNCHANGED input
    BY <1>3 DEF Push, PushDropped, PushPanics
  <2> QED BY <1>1, <1>3, <2>1, PlacesUnchanged DEF Custody
<1> QED BY <1>1, <1>2, <1>3

LEMMA CallerKind ==
  ASSUME TypeOK, HandsOK, Custody, Caller \/ Keeper
  PROVE  \/ Quiet \/ Closes
         \/ \E r \in Requests : Push(r) /\ UNCHANGED inputClosed
<1>1. CASE \E r \in Requests : PushBack(r) \/ KeepAlivePush(r)
  BY <1>1 DEF PushBack, KeepAlivePush, Push
<1>2. CASE KeepAliveLook \/ CloseFlag
           \/ \E r \in Requests : SessionBreaks(r) \/ InfoCallback(r)
  <2>1. UNCHANGED <<inputClosed, pushed, panicked, reply, err, batch>>
        /\ UNCHANGED <<input, whand, rhand, tasks>>
    BY <1>2 DEF KeepAliveLook, CloseFlag, SessionBreaks, InfoCallback,
       chanVars, writerVars, linkVars, callerVars, answerVars
  <2> QED BY <2>1, PlacesUnchanged DEF Quiet, Custody
<1>3. CASE CloseInput
  <2>1. UNCHANGED <<input, whand, rhand, tasks>>
    BY <1>3 DEF CloseInput, writerVars, linkVars
  <2> QED
    BY <1>3, <2>1, PlacesUnchanged
    DEF CloseInput, Closes, Custody, callerVars, answerVars
<1> QED BY <1>1, <1>2, <1>3 DEF Caller, Keeper

LEMMA WriterKind ==
  ASSUME TypeOK, HandsOK, Custody, Writer
  PROVE  Quiet \/ \E r \in Requests : Answers(r)
<1>1. CASE \E r \in Requests : TakeBroken(r) \/ DrainOne(r) \/ DelayAnswer(r)
  <2>1. PICK r \in Requests : TakeBroken(r) \/ DrainOne(r) \/ DelayAnswer(r)
    BY <1>1
  <2>2. TakeInput(r) /\ UNCHANGED <<whand, rhand, tasks>>
        /\ UNCHANGED <<inputClosed, pushed, panicked>>
        /\ \E e \in Errors \ {"nil"} : setResponse(r, NoReq, e)
    BY <2>1 DEF TakeBroken, DrainOne, DelayAnswer, Errors, writerVars,
       linkVars, callerVars
  <2> QED BY <2>2, InputReleased DEF Answers, Custody
<1>2. CASE \E r \in Requests : Take(r)
  <2>1. OnePlace' /\ Keeps
    BY <1>2, InputTaken DEF Custody
  <2> QED BY <1>2, <2>1 DEF Quiet, Take, callerVars, answerVars
<1>3. CASE Send
  <2>1. OnePlace' /\ Keeps
    BY <1>3, HandSent DEF Custody
  <2> QED BY <1>3, <2>1 DEF Quiet, Send, chanVars, callerVars, answerVars
<1>4. CASE WriteFail
  <2>1. OnePlace' /\ Releases(whand) /\ whand \in Requests
    BY <1>4, HandFailed DEF Custody, Releases
  <2> QED
    BY <1>4, <2>1 DEF Answers, WriteFail, Errors, chanVars, callerVars
<1>5. CASE RunRound \/ DialFail \/ DialOK \/ WriteFlush \/ WriteBuffer
           \/ Finish \/ Teardown \/ DrainDone \/ DelayOver
  <2>1. UNCHANGED <<input, whand, rhand, tasks>>
        /\ UNCHANGED <<inputClosed, pushed, panicked, reply, err, batch>>
    BY <1>5 DEF RunRound, DialFail, DialOK, WriteFlush, WriteBuffer, Finish,
       Teardown, DrainDone, DelayOver, chanVars, linkVars, callerVars,
       answerVars
  <2> QED BY <2>1, PlacesUnchanged DEF Quiet, Custody
<1> QED BY <1>1, <1>2, <1>3, <1>4, <1>5 DEF Writer

LEMMA ReaderKind ==
  ASSUME TypeOK, HandsOK, Custody, NEW c \in Conns, Reader(c) \/ Break(c)
  PROVE  Quiet \/ \E r \in Requests : Answers(r)
<1>1. CASE ReaderTake(c)
  <2>1. OnePlace' /\ Keeps
    BY <1>1, TaskTaken DEF Custody
  <2> QED
    BY <1>1, <2>1 DEF Quiet, ReaderTake, chanVars, callerVars, answerVars
<1>2. CASE ReaderDecode(c)
  <2>1. OnePlace' /\ Releases(rhand[c]) /\ rhand[c] \in Requests
    BY <1>2, TaskAnswered DEF Custody, Releases
  <2>2. Head(stream[c]) \in Requests
    <3>1. stream[c] \in Seq(Requests) /\ sent[c] \in Nat
          /\ sent[c] <= Len(stream[c]) /\ sent[c] > 0
      BY <1>2 DEF ReaderDecode, TypeOK, LinksOK, HandsOK
    <3> QED BY <3>1, HeadTailProperties, LenProperties, EmptySeq
  <2> QED
    BY <1>2, <2>1, <2>2 DEF Answers, ReaderDecode, chanVars, callerVars
<1>3. CASE ReaderFail(c)
  <2>1. OnePlace' /\ Releases(rhand[c]) /\ rhand[c] \in Requests
    BY <1>3, TaskAnswered DEF Custody, Releases
  <2> QED
    BY <1>3, <2>1 DEF Answers, ReaderFail, Errors, chanVars, callerVars
<1>4. CASE ReaderDrain(c)
  <2>1. OnePlace' /\ Releases(Head(tasks[c]))
        /\ Head(tasks[c]) \in Requests
    BY <1>4, TaskDrained DEF Custody, Releases
  <2> QED
    BY <1>4, <2>1 DEF Answers, ReaderDrain, Errors, chanVars, callerVars
<1>5. CASE ReaderDone(c) \/ Break(c)
  <2>1. UNCHANGED <<input, whand, rhand, tasks>>
        /\ UNCHANGED <<inputClosed, pushed, panicked, reply, err, batch>>
    BY <1>5 DEF ReaderDone, Break, chanVars, writerVars, callerVars,
       answerVars
  <2> QED BY <2>1, PlacesUnchanged DEF Quiet, Custody
<1> QED BY <1>1, <1>2, <1>3, <1>4, <1>5 DEF Reader

(* ... for every step of the connection.                                   *)
LEMMA StepKind ==
  ASSUME TypeOK, HandsOK, Custody, [Next]_vars
  PROVE  \/ Quiet \/ Closes
         \/ \E r \in Requests : Answers(r)
         \/ \E r \in Requests : Push(r) /\ UNCHANGED inputClosed
<1>1. CASE UNCHANGED vars
  <2>1. UNCHANGED <<input, whand, rhand, tasks>>
        /\ UNCHANGED <<inputClosed, pushed, panicked, reply, err, batch>>
    BY <1>1 DEF vars, chanVars, writerVars, linkVars, callerVars, answerVars
  <2> QED BY <2>1, PlacesUnchanged DEF Quiet, Custody
<1> QED BY <1>1, CallerKind, WriterKind, ReaderKind DEF Next

-----------------------------------------------------------------------------
(* ... and what it does to HeldOK.                                         *)

LEMMA HeldPush ==
  ASSUME TypeOK, Custody, NEW r \in Requests, Push(r)
  PROVE  HeldOK'
<1>1. /\ r \notin pushed /\ pushed' = pushed \cup {r} /\ r \notin panicked
      /\ UNCHANGED <<reply, err>>
      /\ ~Held(r) /\ reply[r] = NoReq /\ err[r] = "nil"
  BY DEF Push, PushAccepted, PushDropped, PushPanics, answerVars, TypeOK,
     RequestsOK, Custody, HeldOK
<1>2. batch \in [Requests -> Int]
  BY DEF TypeOK, RequestsOK
<1>3. CASE PushAccepted(r)
  <2>1. Gains(r) /\ panicked' = panicked /\ batch' = BatchAdd(r)
    BY <1>3, PlacesPushed DEF PushAccepted
  <2>2. r \notin Unbatched => batch[r] = 0
    BY <1>1 DEF Custody, HeldOK
  <2>3. \A q \in Requests :
           batch'[q] = IF q = r /\ r \notin Unbatched THEN 1 ELSE batch[q]
    BY <1>2, <2>1, <2>2 DEF BatchAdd
  <2> QED BY <1>1, <2>1, <2>3 DEF Gains, Custody, HeldOK
<1>4. CASE ~PushAccepted(r) /\ PushDropped(r)
  <2>1. Keeps /\ UNCHANGED batch /\ panicked' \in {panicked, panicked \cup {r}}
    BY <1>4, PlacesPushed DEF PushDropped, answerVars
  <2> QED BY <1>1, <2>1 DEF Keeps, Custody, HeldOK
<1>5. CASE ~PushAccepted(r) /\ PushPanics(r)
  <2>1. Keeps /\ batch' = BatchAdd(r) /\ panicked' = panicked \cup {r}
    BY <1>5, PlacesPushed DEF PushPanics
  <2>2. \A q \in Requests \ {r} : batch'[q] = batch[q]
    BY <1>2, <2>1 DEF BatchAdd
  <2> QED BY <1>1, <2>1, <2>2 DEF Keeps, Custody, HeldOK
<1> QED BY <1>3, <1>4, <1>5 DEF Push

LEMMA HeldAnswers ==
  ASSUME TypeOK, Custody, NEW r \in Requests, Answers(r)
  PROVE  HeldOK'
<1>1. /\ Held(r) /\ UNCHANGED <<pushed, panicked>>
      /\ \A q \in Requests : Held(q)' <=> Held(q) /\ q # r
      /\ r \in pushed \ panicked
      /\ r \notin Unbatched => batch[r] = 1
  BY DEF Answers, Releases, Custody, HeldOK
<1>2. /\ batch \in [Requests -> Int] /\ reply \in [Requests -> MaybeReq]
      /\ err \in [Requests -> Errors]
  BY DEF TypeOK, RequestsOK
<1>3. /\ \A q \in Requests \ {r} :
             reply'[q] = reply[q] /\ err'[q] = err[q] /\ batch'[q] = batch[q]
      /\ r \notin Unbatched => batch'[r] = 0
      /\ reply'[r] = NoReq \/ err'[r] = "nil"
  BY <1>1, <1>2 DEF Answers, setResponse, BatchDone
<1> QED BY <1>1, <1>3 DEF Custody, HeldOK

LEMMA CustodyNext ==
  ASSUME TypeOK, HandsOK, Custody, [Next]_vars
  PROVE  Custody'
<1>1. CASE Quiet \/ Closes
  BY <1>1 DEF Quiet, Closes, Keeps, Custody, HeldOK
<1>2. ASSUME NEW r \in Requests, Answers(r) PROVE Custody'
  BY <1>2, HeldAnswers DEF Answers, Custody
<1>3. ASSUME NEW r \in Requests, Push(r) PROVE Custody'
  BY <1>3, HeldPush, PlacesPushed DEF Custody
<1> QED BY <1>1, <1>2, <1>3, StepKind

LEMMA CustodyInit == Init => Custody
<1> SUFFICES ASSUME Init PROVE Custody
  OBVIOUS
<1>1. \A r : ~In(r, input) /\ \A c \in Conns : ~In(r, tasks[c])
  BY DEF Init, In
<1>2. \A r \in Requests : whand # r /\ \A c \in Conns : rhand[c] # r
  BY DEF Init
<1>3. OnePlace
  BY <1>1, <1>2 DEF Init, OnePlace, Distinct
<1>4. HeldOK
  BY <1>1, <1>2 DEF Init, HeldOK, Held
<1> QED BY <1>3, <1>4 DEF Custody

(* Every request has one holder at most, until it is answered.             *)
THEOREM OneHolder == Spec => [](Shape /\ Custody)
<1>1. Init => Shape /\ Custody
  BY ShapeInit, CustodyInit
<1>2. Shape /\ Custody /\ [Next]_vars => (Shape /\ Custody)'
  BY ShapeNext, CustodyNext DEF Shape
<1> QED BY <1>1, <1>2, PTL DEF Spec

-----------------------------------------------------------------------------
(* The places of BackendConn's properties.                                 *)

LEMMA PlaceKinds ==
  ASSUME TypeOK, NEW r \in Requests, NEW p
  PROVE  p \in Places(r) <=>
           \/ \E i \in 1..Len(input) : p = <<"input", 0, i>> /\ input[i] = r
           \/ p = <<"writer", 0, 0>> /\ whand = r
           \/ \E c \in Conns : p = <<"reader", c, 0>> /\ rhand[c] = r
           \/ \E c \in Conns : \E i \in 1..Len(tasks[c]) :
                 p = <<"tasks", c, i>> /\ tasks[c][i] = r
<1>1. DOMAIN input = 1..Len(input) /\ DOMAIN rhand = Conns
      /\ \A c \in Conns : DOMAIN tasks[c] = 1..Len(tasks[c])
  BY LenProperties DEF TypeOK, WriterOK, LinksOK
<1>2. p \in {<<"input", 0, i>> : i \in At(r, input)} <=>
         \E i \in 1..Len(input) : p = <<"input", 0, i>> /\ input[i] = r
  BY <1>1 DEF At
<1>3. p \in {<<"writer", 0, 0>> : w \in {whand} \cap {r}} <=>
         p = <<"writer", 0, 0>> /\ whand = r
  OBVIOUS
<1>4. p \in {<<"reader", c, 0>> : c \in At(r, rhand)} <=>
         \E c \in Conns : p = <<"reader", c, 0>> /\ rhand[c] = r
  BY <1>1 DEF At
<1>5. p \in UNION {{<<"tasks", c, i>> : i \in At(r, tasks[c])} : c \in Conns}
         <=> \E c \in Conns : \E i \in 1..Len(tasks[c]) :
                p = <<"tasks", c, i>> /\ tasks[c][i] = r
  <2> DEFINE T(c) == {<<"tasks", c, i>> : i \in At(r, tasks[c])}
  <2>1. \A c \in Conns :
           p \in T(c) <=> \E i \in 1..Len(tasks[c]) :
                             p = <<"tasks", c, i>> /\ tasks[c][i] = r
    BY <1>1 DEF At
  <2> HIDE DEF T
  <2>2. p \in UNION {T(c) : c \in Conns} <=> \E c \in Conns : p \in T(c)
    OBVIOUS
  <2> QED BY <2>1, <2>2 DEF T
<1> QED BY <1>2, <1>3, <1>4, <1>5, Zenon DEF Places

LEMMA HeldSomewhere ==
  ASSUME TypeOK, NEW r \in Requests
  PROVE  Held(r) <=> Places(r) # {}
<1>1. ASSUME Held(r) PROVE Places(r) # {}
  <2>1. CASE In(r, input)
    BY <2>1, PlaceKinds DEF In
  <2>2. CASE whand = r
    BY <2>2, PlaceKinds
  <2>3. ASSUME NEW c \in Conns, rhand[c] = r PROVE Places(r) # {}
    BY <2>3, PlaceKinds
  <2>4. ASSUME NEW c \in Conns, In(r, tasks[c]) PROVE Places(r) # {}
    BY <2>4, PlaceKinds DEF In
  <2> QED BY <1>1, <2>1, <2>2, <2>3, <2>4 DEF Held
<1>2. ASSUME NEW p \in Places(r) PROVE Held(r)
  BY PlaceKinds DEF Held, In
<1> QED BY <1>1, <1>2

LEMMA PlaceUnique ==
  ASSUME TypeOK, OnePlace, NEW r \in Requests,
         NEW p \in Places(r), NEW q \in Places(r)
  PROVE  p = q
<1>1. CASE In(r, input)
  <2>1. ~(whand = r) /\ \A c \in Conns : rhand[c] # r /\ ~In(r, tasks[c])
    BY <1>1 DEF OnePlace
  <2> QED BY <2>1, PlaceKinds DEF OnePlace, Distinct, In
<1>2. CASE whand = r
  <2>1. ~In(r, input) /\ \A c \in Conns : rhand[c] # r /\ ~In(r, tasks[c])
    BY <1>2 DEF OnePlace
  <2> QED BY <2>1, PlaceKinds DEF In
<1>3. ASSUME NEW c \in Conns, rhand[c] = r PROVE p = q
  <2>1. ~In(r, input) /\ whand # r
        /\ \A d \in Conns : ~In(r, tasks[d]) /\ (rhand[d] = r => d = c)
    BY <1>3 DEF OnePlace
  <2>2. ASSUME NEW x \in Places(r) PROVE x = <<"reader", c, 0>>
    BY <2>1, PlaceKinds DEF In
  <2> QED BY <2>2
<1>4. ASSUME NEW c \in Conns, In(r, tasks[c]) PROVE p = q
  <2>1. ~In(r, input) /\ whand # r /\ Distinct(tasks[c])
        /\ \A d \in Conns : rhand[d] # r /\ (In(r, tasks[d]) => d = c)
    BY <1>4 DEF OnePlace
  <2>2. ASSUME NEW x \in Places(r)
        PROVE  \E i \in 1..Len(tasks[c]) :
                  x = <<"tasks", c, i>> /\ tasks[c][i] = r
    <3>1. PICK d \in Conns : \E k \in 1..Len(tasks[d]) :
             x = <<"tasks", d, k>> /\ tasks[d][k] = r
      BY <2>1, PlaceKinds DEF In
    <3>2. d = c
      BY <2>1, <3>1 DEF In
    <3> QED BY <3>1, <3>2
  <2>3. PICK i \in 1..Len(tasks[c]) : p = <<"tasks", c, i>> /\ tasks[c][i] = r
    BY <2>2
  <2>4. PICK j \in 1..Len(tasks[c]) : q = <<"tasks", c, j>> /\ tasks[c][j] = r
    BY <2>2
  <2> QED BY <2>1, <2>3, <2>4 DEF Distinct
<1> QED BY <1>1, <1>2, <1>3, <1>4, HeldSomewhere DEF Held

(* The Batch of a request counts exactly who will call Done: Wait neither  *)
(* returns early nor waits for nobody (pool.go 68-79 and every call of     *)
(* setResponse).                                                           *)
THEOREM BatchCountsHolders == Spec => []WaitGroupExact
<1>1. ASSUME Shape, Custody PROVE WaitGroupExact
  <2>1. ASSUME NEW r \in Requests
        PROVE  Holders(r) = IF Held(r) THEN 1 ELSE 0
    <3>1. CASE Held(r)
      <4>1. PICK p : Places(r) = {p}
        <5>1. PICK x : x \in Places(r)
          BY <1>1, <3>1, HeldSomewhere DEF Shape
        <5>2. \A q \in Places(r) : q = x
          BY <1>1, <5>1, PlaceUnique DEF Shape, Custody
        <5> QED BY <5>1, <5>2
      <4>2. Cardinality({p}) = 1
        BY FS_Singleton
      <4> QED BY <3>1, <4>1, <4>2 DEF Holders
    <3>2. CASE ~Held(r)
      BY <1>1, <3>2, HeldSomewhere, FS_EmptySet DEF Shape, Holders
    <3> QED BY <3>1, <3>2
  <2> QED BY <1>1, <2>1 DEF Custody, HeldOK, WaitGroupExact
<1> QED BY <1>1, OneHolder, PTL

-----------------------------------------------------------------------------
(* The refinement.                                                         *)

(* The fate of a request, by who holds it.                                 *)
FateNow(r) ==
    IF r \notin pushed THEN "new"
    ELSE IF r \in panicked THEN "stuck"
    ELSE IF reply[r] # NoReq THEN "reply"
    ELSE IF err[r] # "nil" THEN "error"
    ELSE IF Held(r) THEN "waiting" ELSE "refused"

FatesKnown == \A r \in Requests : Fate(r) = FateNow(r)

LEMMA FateIs == TypeOK /\ Custody => FatesKnown
<1> SUFFICES ASSUME TypeOK, Custody, NEW r \in Requests
             PROVE  Fate(r) = FateNow(r)
  BY DEF FatesKnown
<1>1. /\ r \notin pushed \/ r \in panicked => reply[r] = NoReq /\ err[r] = "nil"
      /\ reply[r] = NoReq \/ err[r] = "nil"
      /\ r \in panicked => r \in pushed
  BY DEF Custody, HeldOK, TypeOK, RequestsOK
<1>2. Held(r) <=> Places(r) # {}
  BY HeldSomewhere
<1> QED BY <1>1, <1>2 DEF Fate, FateNow

(* A step that changes no fate is a stutter; otherwise one request goes    *)
(* from one fate to the next.                                              *)
NewFate(r, before, after) ==
    /\ FateNow(r) = before /\ FateNow(r)' = after
    /\ \A q \in Requests \ {r} : FateNow(q)' = FateNow(q)

LEMMA FatePush ==
  ASSUME TypeOK, Custody, NEW r \in Requests, Push(r)
  PROVE  \/ NewFate(r, "new", "waiting") /\ ~inputClosed
         \/ NewFate(r, "new", "refused") /\ ~inputClosed /\ r \notin Unbatched
         \/ NewFate(r, "new", "stuck") /\ (inputClosed \/ r \in Unbatched)
<1>1. /\ r \notin pushed /\ pushed' = pushed \cup {r} /\ r \notin panicked
      /\ UNCHANGED <<reply, err>>
      /\ ~Held(r) /\ reply[r] = NoReq /\ err[r] = "nil"
  BY DEF Push, PushAccepted, PushDropped, PushPanics, answerVars, TypeOK,
     RequestsOK, Custody, HeldOK
<1>2. CASE PushAccepted(r)
  <2>1. Gains(r) /\ panicked' = panicked /\ ~inputClosed
    BY <1>2, PlacesPushed DEF PushAccepted
  <2> QED BY <1>1, <2>1 DEF Gains, NewFate, FateNow
<1>3. CASE ~PushAccepted(r) /\ PushDropped(r)
  <2>1. /\ Keeps /\ ~inputClosed
        /\ panicked' = IF r \in Unbatched THEN panicked \cup {r} ELSE panicked
    BY <1>3, PlacesPushed DEF PushDropped
  <2> QED BY <1>1, <2>1 DEF Keeps, NewFate, FateNow
<1>4. CASE ~PushAccepted(r) /\ PushPanics(r)
  <2>1. Keeps /\ inputClosed /\ panicked' = panicked \cup {r}
    BY <1>4, PlacesPushed DEF PushPanics
  <2> QED BY <1>1, <2>1 DEF Keeps, NewFate, FateNow
<1> QED BY <1>2, <1>3, <1>4 DEF Push

LEMMA FateAnswers ==
  ASSUME TypeOK, Custody, NEW r \in Requests, Answers(r)
  PROVE  NewFate(r, "waiting", "reply") \/ NewFate(r, "waiting", "error")
<1>1. /\ Held(r) /\ UNCHANGED <<pushed, panicked>>
      /\ \A q \in Requests : Held(q)' <=> Held(q) /\ q # r
      /\ r \in pushed \ panicked /\ reply[r] = NoReq /\ err[r] = "nil"
  BY DEF Answers, Releases, Custody, HeldOK
<1>2. reply \in [Requests -> MaybeReq] /\ err \in [Requests -> Errors]
  BY DEF TypeOK, RequestsOK
<1>3. /\ \A q \in Requests \ {r} : reply'[q] = reply[q] /\ err'[q] = err[q]
      /\ \/ reply'[r] # NoReq
         \/ reply'[r] = NoReq /\ err'[r] # "nil"
  BY <1>2 DEF Answers, setResponse
<1> QED BY <1>1, <1>3 DEF NewFate, FateNow

(* Every step implements a step of BackendPromise or none.                 *)
LEMMA PromiseStep ==
  ASSUME TypeOK, HandsOK, Custody, FatesKnown, FatesKnown', [Next]_vars
  PROVE  [Promise!Next]_(Promise!vars)
<1> DEFINE before == [r \in Requests |-> Fate(r)]
           after == [r \in Requests |-> Fate(r)']
<1>1. /\ before = [r \in Requests |-> FateNow(r)]
      /\ after = [r \in Requests |-> FateNow(r)']
  BY DEF FatesKnown
<1>2. ASSUME NEW r \in Requests, NEW x, NEW y, NewFate(r, x, y)
      PROVE  before[r] = x /\ after = [before EXCEPT ![r] = y]
  BY <1>1, <1>2 DEF NewFate
<1>3. CASE Quiet
  <2>1. after = before
    BY <1>1, <1>3 DEF Quiet, Keeps, FateNow
  <2> QED BY <1>3, <2>1 DEF Quiet, Promise!vars
<1>4. CASE Closes
  <2>1. after = before
    BY <1>1, <1>4 DEF Closes, Keeps, FateNow
  <2> QED BY <1>4, <2>1 DEF Closes, Promise!Next, Promise!Shut
<1>5. ASSUME NEW r \in Requests, Answers(r)
      PROVE  [Promise!Next]_(Promise!vars)
  <2>1. NewFate(r, "waiting", "reply") \/ NewFate(r, "waiting", "error")
    BY <1>5, FateAnswers
  <2>2. Promise!Answer(r)
    BY <1>2, <1>5, <2>1 DEF Answers, Promise!Answer, Promise!Becomes
  <2> QED BY <2>2 DEF Promise!Next
<1>6. ASSUME NEW r \in Requests, Push(r), UNCHANGED inputClosed
      PROVE  [Promise!Next]_(Promise!vars)
  <2>1. CASE NewFate(r, "new", "waiting") /\ ~inputClosed
    BY <1>2, <1>6, <2>1 DEF Promise!Next, Promise!Accept, Promise!Becomes
  <2>2. CASE NewFate(r, "new", "refused") /\ ~inputClosed /\ r \notin Unbatched
    BY <1>2, <1>6, <2>2 DEF Promise!Next, Promise!Refuse, Promise!Becomes
  <2>3. CASE NewFate(r, "new", "stuck") /\ (inputClosed \/ r \in Unbatched)
    BY <1>2, <1>6, <2>3 DEF Promise!Next, Promise!Panic, Promise!Becomes
  <2> QED BY <1>6, <2>1, <2>2, <2>3, FatePush
<1> QED BY <1>3, <1>4, <1>5, <1>6, StepKind

LEMMA PromiseInit ==
  ASSUME Init, FatesKnown PROVE Promise!Init
BY DEF Init, FatesKnown, FateNow, Promise!Init

(* A backend connection keeps its promise: a request is refused at once or *)
(* accepted, an accepted one is answered once, by a reply or by an error,  *)
(* and the answer is final (pool.go 68-79, 241-250).                       *)
THEOREM ConnectionKeepsPromise == Spec => PromiseKept
<1>1. Shape /\ Custody => FatesKnown
  BY FateIs DEF Shape
<1>2. Init /\ FatesKnown => Promise!Init
  BY PromiseInit
<1>3. Shape /\ Custody /\ FatesKnown /\ FatesKnown' /\ [Next]_vars
         => [Promise!Next]_(Promise!vars)
  BY PromiseStep DEF Shape
<1> QED
  BY <1>1, <1>2, <1>3, OneHolder, PTL DEF Spec, PromiseKept, Promise!Spec
=============================================================================
