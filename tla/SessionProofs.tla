---------------------------- MODULE SessionProofs ----------------------------
(***************************************************************************)
(* Proofs about Session, for any number of commands, any pipeline limit    *)
(* and either setting of session_break_on_failure.                         *)
(***************************************************************************)
EXTENDS Session, SequenceTheorems, TLAPS

(* What the backend does to one request keeps the type of promise.         *)
LEMMA BackendTyped ==
    ASSUME promise \in [Commands -> Backend!Fates], open \in BOOLEAN,
           NEW i \in Commands,
           Backend!Accept(i) \/ Backend!Refuse(i) \/ Backend!Panic(i)
           \/ Backend!Answer(i)
    PROVE  promise' \in [Commands -> Backend!Fates] /\ open' \in BOOLEAN
BY DEF Backend!Accept, Backend!Refuse, Backend!Panic, Backend!Answer,
       Backend!Becomes, Backend!Fates

(* A command is with the reader only after it was decoded.                 *)
Holding ==
    /\ rpc \in {"dispatch", "wait", "push"} => decoded \in Commands
    /\ wpc = "batch" => wreq \in Commands

LEMMA InitTyped == Init => TypeOK /\ Holding
<1> SUFFICES ASSUME Init PROVE TypeOK /\ Holding
  OBVIOUS
<1>1. promise \in [Commands -> Backend!Fates] /\ open \in BOOLEAN
  BY DEF Init, Backend!Init, Backend!Fates
<1>2. kind \in [Commands -> {"none", "failed", "overtaken", "async", "sync"}]
  BY DEF Init
<1>3. data \in Seq(Commands)
      /\ out \in Seq([cmd : Commands, answer : {"reply", "error"}])
      /\ Len(out) = 0
  BY EmptySeq DEF Init
<1>4. /\ decoded \in 0..MaxCommands
      /\ wreq \in 0..MaxCommands
      /\ flushed \in 0..Len(out)
      /\ total \in Nat /\ calls \in Nat /\ fails \in Nat /\ sfails \in Nat
  BY <1>3, SessionAssumption DEF Init
<1> QED
  BY <1>1, <1>2, <1>3, <1>4 DEF Init, TypeOK, Holding, ReaderStates

(* Every step keeps the types (TypeOK).                                    *)
LEMMA StepTyped ==
    ASSUME TypeOK, Holding, [Next]_vars
    PROVE  TypeOK' /\ Holding'
<1> USE SessionAssumption DEF TypeOK, Holding, Commands, ReaderStates
<1>1. CASE Decode
  BY <1>1 DEF Decode, Buffered, backendVars, chanVars, writerVars, connVars
<1>2. CASE Receive
  <2>1. received' \in 0..MaxCommands /\ decoded \in 0..received'
    BY <1>2 DEF Receive
  <2> QED
    BY <1>2, <2>1 DEF Receive, backendVars, chanVars, writerVars, connVars
<1>22. CASE DecodeFails
  BY <1>22 DEF DecodeFails, backendVars, chanVars, writerVars, connVars
<1>3. CASE DispatchFails
  BY <1>3 DEF DispatchFails, backendVars, chanVars, writerVars, connVars
<1>4. CASE DispatchForward
  <2>1. promise' \in [Commands -> Backend!Fates] /\ open' \in BOOLEAN
    BY <1>4, BackendTyped DEF DispatchForward
  <2> QED
    BY <1>4, <2>1 DEF DispatchForward, chanVars, writerVars, connVars
<1>5. CASE DispatchWaited
  BY <1>5 DEF DispatchWaited, backendVars, chanVars, writerVars, connVars
<1>6. CASE PushTask
  BY <1>6, AppendProperties
     DEF PushTask, ChanPush, Wake, backendVars, connVars
<1>7. CASE CloseRead
  BY <1>7 DEF CloseRead, backendVars, chanVars, writerVars
<1>8. CASE CloseTasks
  BY <1>8 DEF CloseTasks, ChanClose, Wake, backendVars, connVars
<1>9. CASE Park
  BY <1>9 DEF Park, backendVars, readerVars, connVars
<1>10. CASE Reply
  BY <1>10, AppendProperties
     DEF Reply, Encoded, Answer, backendVars, readerVars, chanVars, connVars
<1>11. CASE ReplyFails
  BY <1>11 DEF ReplyFails, backendVars, readerVars, chanVars, connVars
<1>12. CASE ReplyBreaks
  <2>1. out' \in Seq([cmd : Commands, answer : {"reply", "error"}])
        /\ flushed' \in 0..Len(out')
    <3>1. CASE UNCHANGED <<out, flushed>>
      BY <3>1
    <3>2. CASE Encoded(wreq) /\ flushed' = Len(out) + 1
      <4>1. [cmd |-> wreq, answer |-> Answer(wreq)]
               \in [cmd : Commands, answer : {"reply", "error"}]
        BY <1>12 DEF ReplyBreaks, Answer
      <4> QED
        BY <3>2, <4>1, AppendProperties, LenProperties DEF Encoded
    <3> QED
      BY <1>12, <3>1, <3>2 DEF ReplyBreaks
  <2> QED
    BY <1>12, <2>1
       DEF ReplyBreaks, backendVars, readerVars, chanVars, connVars
<1>13. CASE AllReplied
  BY <1>13 DEF AllReplied, ChanEnds, backendVars, readerVars, chanVars,
               connVars
<1>14. CASE Teardown
  BY <1>14 DEF Teardown, backendVars, readerVars, chanVars
<1>15. CASE SessionEnds
  BY <1>15 DEF SessionEnds, ChanEnds, backendVars, readerVars, chanVars,
               connVars
<1>16. CASE \E i \in Commands : PopTask(i)
  BY <1>16, HeadTailProperties
     DEF PopTask, ChanPop, backendVars, readerVars, connVars
<1>17. CASE \E i \in Commands : Drop(i)
  BY <1>17, HeadTailProperties
     DEF Drop, ChanPop, backendVars, readerVars, connVars
<1>18. CASE BackendAnswers
  <2>1. promise' \in [Commands -> Backend!Fates] /\ open' \in BOOLEAN
    BY <1>18, BackendTyped DEF BackendAnswers
  <2> QED
    BY <1>18, <2>1 DEF BackendAnswers, readerVars, chanVars, writerVars,
                       connVars
<1>19. CASE BackendShuts
  <2>1. promise' \in [Commands -> Backend!Fates] /\ open' \in BOOLEAN
    BY <1>19 DEF BackendShuts, Backend!Shut
  <2> QED
    BY <1>19, <2>1 DEF BackendShuts, readerVars, chanVars, writerVars, connVars
<1>20. CASE ClientGone
  BY <1>20 DEF ClientGone, backendVars, readerVars, chanVars, writerVars
<1>21. CASE UNCHANGED vars
  BY <1>21 DEF vars, backendVars, readerVars, chanVars, writerVars, connVars
<1> QED
  BY <1>1, <1>2, <1>3, <1>4, <1>5, <1>6, <1>7, <1>8, <1>9, <1>10, <1>11,
     <1>12, <1>13, <1>14, <1>15, <1>16, <1>17, <1>18, <1>19, <1>20, <1>21,
     <1>22
     DEF Next, Reader, Writer

LEMMA Typed == Spec => [](TypeOK /\ Holding)
<1> QED
  BY InitTyped, StepTyped, PTL DEF Spec

(* Every variable of a session keeps its type (TypeOK): in particular no   *)
(* reply is flushed before it is encoded.                                  *)
THEOREM TypeCorrect == Spec => []TypeOK
BY Typed, PTL

-----------------------------------------------------------------------------
(* RequestChan and the counters.                                           *)

(* A parked consumer is counted in waits, so that a push signals it; the   *)
(* reader checks the limit before it holds a command.                      *)
Channel ==
    /\ wpc = "park" => data = <<>> /\ ~chClosed /\ waits = 1
    /\ Len(data) <= MaxPipeline + 1
    /\ rpc \in {"dispatch", "wait", "push"} => Len(data) <= MaxPipeline

LEMMA InitChannel == Init => Channel /\ CountedOnce
BY SessionAssumption
   DEF Init, Channel, CountedOnce, InReader, InWriter

(* Every step keeps the bound and the wake-up (PipelineBounded,            *)
(* NoLostWakeup).                                                          *)
LEMMA StepChannel ==
    ASSUME TypeOK, Holding, Channel, [Next]_vars
    PROVE  Channel'
<1>0. /\ data \in Seq(Commands) /\ Len(data) \in Nat /\ MaxPipeline \in Nat
  BY SessionAssumption, LenProperties DEF TypeOK
<1> USE <1>0 DEF Channel
<1>1. CASE Decode
  BY <1>1 DEF Decode, TooMany, chanVars, writerVars
<1>2. CASE Receive \/ DecodeFails
  BY <1>2 DEF Receive, DecodeFails, chanVars, writerVars
<1>3. CASE DispatchFails
  BY <1>3 DEF DispatchFails, chanVars, writerVars
<1>4. CASE DispatchForward
  BY <1>4 DEF DispatchForward, chanVars, writerVars
<1>5. CASE DispatchWaited
  BY <1>5 DEF DispatchWaited, chanVars, writerVars
<1>6. CASE PushTask
  <2>1. Len(data') = Len(data) + 1
    BY <1>6, AppendProperties DEF PushTask, ChanPush, Holding
  <2>2. wpc' # "park"
    BY <1>6 DEF PushTask, ChanPush, Wake
  <2> QED
    BY <1>6, <2>1, <2>2 DEF PushTask, ChanPush
<1>7. CASE CloseRead
  BY <1>7 DEF CloseRead, chanVars, writerVars
<1>8. CASE CloseTasks
  BY <1>8 DEF CloseTasks, ChanClose, Wake
<1>9. CASE Park
  BY <1>9 DEF Park, readerVars
<1>10. CASE Reply \/ ReplyFails \/ ReplyBreaks
  BY <1>10 DEF Reply, ReplyFails, ReplyBreaks, readerVars, chanVars
<1>11. CASE AllReplied \/ Teardown \/ SessionEnds
  BY <1>11 DEF AllReplied, Teardown, SessionEnds, ChanEnds, readerVars,
               chanVars
<1>12. ASSUME NEW i \in Commands, PopTask(i) \/ Drop(i)
       PROVE  Channel'
  <2>1. Len(data') = Len(data) - 1
    BY <1>12, HeadTailProperties DEF PopTask, Drop, ChanPop
  <2> QED
    BY <1>12, <2>1 DEF PopTask, Drop, ChanPop, readerVars
<1>13. CASE BackendAnswers \/ BackendShuts \/ ClientGone
  BY <1>13 DEF BackendAnswers, BackendShuts, ClientGone, readerVars,
               chanVars, writerVars
<1>14. CASE UNCHANGED vars
  BY <1>14 DEF vars, readerVars, chanVars, writerVars
<1> QED
  BY <1>1, <1>2, <1>3, <1>4, <1>5, <1>6, <1>7, <1>8, <1>9, <1>10, <1>11,
     <1>12, <1>13, <1>14
     DEF Next, Reader, Writer

(* Each step moves a command from one term of the balance to the next      *)
(* (CountedOnce).                                                          *)
LEMMA StepCounted ==
    ASSUME TypeOK, Holding, CountedOnce, [Next]_vars
    PROVE  CountedOnce'
<1>0. /\ data \in Seq(Commands) /\ Len(data) \in Nat
      /\ total \in Nat /\ calls \in Nat /\ fails \in Nat /\ sfails \in Nat
      /\ InReader \in {0, 1} /\ InWriter \in {0, 1}
  BY LenProperties DEF TypeOK, InReader, InWriter
<1> USE <1>0 DEF CountedOnce
<1>1. CASE Decode
  <2>1. /\ UNCHANGED <<data, calls, fails>> /\ total' = total + 1
        /\ InReader = 0 /\ InWriter' = InWriter
    BY <1>1 DEF Decode, chanVars, writerVars, InReader, InWriter
  <2>2. \/ InReader' = 0 /\ sfails' = sfails + 1
        \/ InReader' = 1 /\ sfails' = sfails
    BY <1>1 DEF Decode, InReader
  <2> QED
    BY <2>1, <2>2
<1>2. CASE PushTask
  <2>1. Len(data') = Len(data) + 1
    BY <1>2, AppendProperties DEF PushTask, ChanPush, Holding
  <2>2. /\ InReader = 1 /\ InReader' = 0 /\ InWriter' = InWriter
        /\ UNCHANGED <<total, calls, fails, sfails>>
    BY <1>2 DEF PushTask, ChanPush, Wake, InReader, InWriter
  <2> QED
    BY <2>1, <2>2
<1>3. CASE Reply
  <2>1. /\ InReader' = InReader /\ InWriter = 1 /\ InWriter' = 0
        /\ UNCHANGED <<data, total, fails, sfails>> /\ calls' = calls + 1
    BY <1>3 DEF Reply, readerVars, chanVars, InReader, InWriter
  <2> QED
    BY <2>1
<1>4. CASE ReplyFails \/ ReplyBreaks
  <2>1. /\ InReader' = InReader /\ InWriter = 1 /\ InWriter' = 0
        /\ UNCHANGED <<data, total, calls, sfails>> /\ fails' = fails + 1
    BY <1>4 DEF ReplyFails, ReplyBreaks, readerVars, chanVars, InReader,
                InWriter
  <2> QED
    BY <2>1
<1>5. ASSUME NEW i \in Commands, PopTask(i)
      PROVE  CountedOnce'
  <2>1. Len(data') = Len(data) - 1
    BY <1>5, HeadTailProperties DEF PopTask, ChanPop
  <2>2. /\ InReader' = InReader /\ InWriter = 0 /\ InWriter' = 1
        /\ UNCHANGED <<total, calls, fails, sfails>>
    BY <1>5 DEF PopTask, ChanPop, readerVars, InReader, InWriter
  <2> QED
    BY <2>1, <2>2
<1>6. ASSUME NEW i \in Commands, Drop(i)
      PROVE  CountedOnce'
  <2>1. Len(data') = Len(data) - 1
    BY <1>6, HeadTailProperties DEF Drop, ChanPop
  <2>2. /\ InReader' = InReader /\ InWriter' = InWriter
        /\ UNCHANGED <<total, calls, sfails>> /\ fails' = fails + 1
    BY <1>6 DEF Drop, ChanPop, readerVars, InReader, InWriter
  <2> QED
    BY <2>1, <2>2
<1>7. ASSUME UNCHANGED <<data, total, calls, fails, sfails>>,
             InReader' = InReader, InWriter' = InWriter
      PROVE  CountedOnce'
  BY <1>7
<1>8. CASE Receive \/ DecodeFails \/ DispatchFails \/ DispatchForward
           \/ DispatchWaited \/ CloseRead
  BY <1>7, <1>8
     DEF Receive, DecodeFails, DispatchFails, DispatchForward, DispatchWaited,
         CloseRead, chanVars, writerVars, InReader, InWriter
<1>9. CASE CloseTasks
  BY <1>7, <1>9 DEF CloseTasks, ChanClose, Wake, InReader, InWriter
<1>10. CASE Park \/ AllReplied \/ Teardown \/ SessionEnds
  BY <1>7, <1>10
     DEF Park, AllReplied, Teardown, SessionEnds, ChanEnds, readerVars,
         chanVars, InReader, InWriter
<1>11. CASE BackendAnswers \/ BackendShuts \/ ClientGone \/ UNCHANGED vars
  BY <1>7, <1>11
     DEF BackendAnswers, BackendShuts, ClientGone, vars, readerVars, chanVars,
         writerVars, InReader, InWriter
<1> QED
  BY <1>1, <1>2, <1>3, <1>4, <1>5, <1>6, <1>8, <1>9, <1>10, <1>11
     DEF Next, Reader, Writer

LEMMA Counted == Spec => [](Channel /\ CountedOnce)
<1> QED
  BY Typed, InitChannel, StepChannel, StepCounted, PTL DEF Spec

(* Every command decoded is in the session or in exactly one counter.      *)
THEOREM StatisticsBalance == Spec => []CountedOnce
BY Counted, PTL

(* A writer that sleeps has been told of every request pushed and of the   *)
(* end of the channel.                                                     *)
THEOREM WriterIsWoken == Spec => []NoLostWakeup
<1>1. Channel => NoLostWakeup
  BY DEF Channel, NoLostWakeup
<1> QED
  BY <1>1, Counted, PTL

(* The channel holds at most one request more than the configured limit.   *)
THEOREM ChannelBound == Spec => []PipelineBounded
<1>1. Channel => PipelineBounded
  BY DEF Channel, PipelineBounded
<1> QED
  BY <1>1, Counted, PTL

-----------------------------------------------------------------------------
(* The order of the replies.                                               *)

(* How many commands the reader has pushed.                                *)
Pushed == decoded - InReader - sfails

(* The channel holds the last commands pushed, in order; the writer works  *)
(* on the one before them; all before that have been replied to, unless    *)
(* the writer has given up.                                                *)
Order ==
    /\ sfails \in {0, 1}
    /\ sfails = 1 => rpc \in {"closeread", "closechan", "done"}
    /\ \A j \in 1..Len(data) : data[j] = Pushed - Len(data) + j
    /\ Len(out) + InWriter + Len(data) <= Pushed
    /\ serving /\ wpc # "teardown" =>
          Len(out) + InWriter + Len(data) = Pushed
    /\ wpc = "batch" => serving /\ wreq = Pushed - Len(data)

LEMMA InitOrder == Init => Order /\ RepliesInOrder
<1> SUFFICES ASSUME Init PROVE Order /\ RepliesInOrder
  OBVIOUS
<1>1. InReader = 0 /\ InWriter = 0
  BY DEF Init, InReader, InWriter
<1>2. Pushed = 0 /\ Len(data) = 0 /\ Len(out) = 0
  BY <1>1 DEF Init, Pushed
<1> QED
  BY <1>1, <1>2 DEF Init, Order, RepliesInOrder

(* Every step keeps the order.                                             *)
LEMMA StepOrder ==
    ASSUME TypeOK, Holding, Order, [Next]_vars
    PROVE  Order'
<1>0. /\ data \in Seq(Commands) /\ Len(data) \in Nat /\ Len(out) \in Nat
      /\ decoded \in Nat /\ sfails \in Nat /\ serving \in BOOLEAN
      /\ InReader \in {0, 1} /\ InWriter \in {0, 1}
      /\ out \in Seq([cmd : Commands, answer : {"reply", "error"}])
  BY SessionAssumption, LenProperties
     DEF TypeOK, InReader, InWriter
<1> USE <1>0 DEF Order, Pushed
<1>1. CASE Decode
  <2>1. /\ UNCHANGED <<data, out, wpc, serving, wreq>>
        /\ decoded' = decoded + 1 /\ sfails = 0
        /\ InReader = 0 /\ InWriter' = InWriter
    BY <1>1 DEF Decode, chanVars, writerVars, InReader, InWriter
  <2>2. \/ InReader' = 0 /\ sfails' = 1 /\ rpc' = "closeread"
        \/ InReader' = 1 /\ sfails' = 0
    BY <1>1, <2>1 DEF Decode, InReader
  <2> QED
    BY <2>1, <2>2
<1>2. CASE PushTask
  <2>1. /\ decoded \in Commands /\ data' = Append(data, decoded)
        /\ UNCHANGED <<decoded, sfails, out, serving, wreq>> /\ sfails = 0
    BY <1>2 DEF PushTask, ChanPush, Holding
  <2>2. /\ InReader = 1 /\ InReader' = 0 /\ InWriter' = InWriter
        /\ (wpc' = "batch" <=> wpc = "batch")
        /\ (wpc' = "teardown" <=> wpc = "teardown")
    BY <1>2 DEF PushTask, ChanPush, Wake, InReader, InWriter
  <2>3. Len(data') = Len(data) + 1
    BY <2>1, AppendProperties
  <2>4. Pushed = decoded - 1 /\ Pushed' = decoded
    BY <2>1, <2>2
  <2>5. ASSUME NEW j \in 1..Len(data')
        PROVE  data'[j] = Pushed' - Len(data') + j
    <3>1. CASE j = Len(data) + 1
      BY <2>1, <2>3, <2>4, <3>1, AppendProperties
    <3>2. CASE j # Len(data) + 1
      <4>1. j \in 1..Len(data)
        BY <2>3, <3>2
      <4>2. data'[j] = data[j]
        BY <2>1, <4>1, AppendProperties
      <4>3. data[j] = Pushed - Len(data) + j
        BY <4>1
      <4> QED
        <5> HIDE DEF Pushed, Order
        <5> QED BY <2>1, <2>3, <2>4, <4>1, <4>2, <4>3 DEF Commands
    <3> QED
      BY <3>1, <3>2
  <2> QED
    BY <2>1, <2>2, <2>3, <2>4, <2>5
<1>3. CASE Reply
  <2>1. /\ UNCHANGED <<data, decoded, sfails, rpc, serving>>
        /\ InReader' = InReader /\ InWriter = 1 /\ InWriter' = 0
        /\ wpc = "batch" /\ wpc' = "pop"
    BY <1>3 DEF Reply, readerVars, chanVars, InReader, InWriter
  <2>2. Len(out') = Len(out) + 1
    BY <1>3, AppendProperties DEF Reply, Encoded, Answer, Holding
  <2> QED
    BY <2>1, <2>2
<1>4. CASE ReplyFails \/ ReplyBreaks
  <2>1. /\ UNCHANGED <<data, decoded, sfails, rpc, serving>>
        /\ InReader' = InReader /\ InWriter = 1 /\ InWriter' = 0
        /\ wpc = "batch" /\ wpc' = "teardown"
    BY <1>4 DEF ReplyFails, ReplyBreaks, readerVars, chanVars, InReader,
                InWriter
  <2>2. out' = out \/ Len(out') = Len(out) + 1
    BY <1>4, AppendProperties
       DEF ReplyFails, ReplyBreaks, Encoded, Answer, Holding
  <2>3. Len(out') \in Nat
    BY <2>2
  <2> QED
    BY <2>1, <2>2, <2>3
<1>5. ASSUME NEW i \in Commands, PopTask(i) \/ Drop(i)
      PROVE  Order'
  <2>1. /\ data # <<>> /\ i = Head(data) /\ data' = Tail(data)
        /\ UNCHANGED <<decoded, sfails, rpc, serving, out>>
        /\ InReader' = InReader /\ wpc = "pop" /\ InWriter = 0
    BY <1>5 DEF PopTask, Drop, ChanPop, readerVars, InReader, InWriter
  <2>2. /\ Len(data') = Len(data) - 1
        /\ \A j \in 1..Len(data') : data'[j] = data[j + 1]
        /\ Len(data) >= 1 /\ i = data[1]
    BY <2>1, HeadTailProperties
  <2>3. /\ Pushed' = Pushed /\ Pushed \in Int
        /\ i = Pushed - Len(data')
    BY <2>1, <2>2
  <2>4. \A j \in 1..Len(data') : data'[j] = Pushed' - Len(data') + j
    BY <2>2, <2>3
  <2>5. \/ serving /\ wpc' = "batch" /\ InWriter' = 1 /\ wreq' = i
        \/ ~serving /\ wpc' = "pop" /\ InWriter' = 0
    BY <1>5, <2>1 DEF PopTask, Drop, InWriter
  <2>6. /\ sfails' \in {0, 1}
        /\ sfails' = 1 => rpc' \in {"closeread", "closechan", "done"}
        /\ Len(out') + InWriter' + Len(data') <= Pushed'
    BY <2>1, <2>2, <2>3, <2>5
  <2>7. /\ serving' /\ wpc' # "teardown" =>
              Len(out') + InWriter' + Len(data') = Pushed'
        /\ wpc' = "batch" => serving' /\ wreq' = Pushed' - Len(data')
    <3>1. /\ Pushed' = Pushed /\ Pushed \in Int
          /\ serving => Len(out) + InWriter + Len(data) = Pushed
      BY <2>1, <2>3
    <3> HIDE DEF Pushed, Order
    <3>2. CASE serving /\ wpc' = "batch" /\ InWriter' = 1 /\ wreq' = i
      <4>1. /\ Len(data') = Len(data) - 1 /\ i = Pushed - Len(data')
            /\ InWriter = 0 /\ serving' = serving /\ Len(out') = Len(out)
            /\ Len(out) \in Nat /\ Len(data) \in Nat
        BY <2>1, <2>2, <2>3
      <4>2. Len(out) + Len(data) = Pushed
        BY <3>1, <3>2, <4>1
      <4> QED
        BY <3>1, <3>2, <4>1, <4>2
    <3>3. CASE ~serving /\ wpc' = "pop" /\ InWriter' = 0
      BY <2>1, <3>3
    <3> QED
      BY <2>5, <3>2, <3>3
  <2> QED
    BY <2>4, <2>6, <2>7
<1>6. ASSUME UNCHANGED <<data, decoded, sfails, out, serving, wreq, wpc>>,
             \/ rpc' \in {"closeread", "closechan", "done"}
             \/ rpc \notin {"closeread", "closechan", "done"},
             InReader' = InReader
      PROVE  Order'
  <2>1. InWriter' = InWriter
    BY <1>6 DEF InWriter
  <2> QED
    BY <1>6, <2>1
<1>7. CASE Receive \/ DecodeFails \/ DispatchFails \/ DispatchForward
           \/ DispatchWaited \/ CloseRead
  BY <1>6, <1>7
     DEF Receive, DecodeFails, DispatchFails, DispatchForward, DispatchWaited,
         CloseRead, chanVars, writerVars, InReader
<1>8. CASE CloseTasks \/ Park \/ AllReplied \/ Teardown \/ SessionEnds
  <2>1. /\ UNCHANGED <<data, decoded, sfails, out, wreq>>
        /\ rpc' = rpc \/ rpc' = "done"
        /\ InReader' = InReader /\ InWriter' = InWriter
        /\ (wpc' = "batch" <=> wpc = "batch")
    BY <1>8
       DEF CloseTasks, ChanClose, Wake, Park, AllReplied, Teardown,
           SessionEnds, ChanEnds, readerVars, chanVars, InReader, InWriter
  <2>2. /\ serving' => serving
        /\ serving' /\ wpc' # "teardown" => wpc # "teardown"
        /\ wpc' = "batch" => serving' = serving
    BY <1>8
       DEF CloseTasks, ChanClose, Wake, Park, AllReplied, Teardown,
           SessionEnds, ChanEnds
  <2>3. serving' \in BOOLEAN
    BY <1>8
       DEF CloseTasks, Park, AllReplied, Teardown, SessionEnds
  <2> QED
    BY <2>1, <2>2, <2>3
<1>9. CASE BackendAnswers \/ BackendShuts \/ ClientGone \/ UNCHANGED vars
  <2>1. UNCHANGED <<data, decoded, sfails, out, serving, wreq, wpc, rpc>>
    BY <1>9 DEF BackendAnswers, BackendShuts, ClientGone, vars, readerVars,
                chanVars, writerVars
  <2> QED
    BY <1>6, <2>1 DEF InReader
<1> QED
  BY <1>1, <1>2, <1>3, <1>4, <1>5, <1>7, <1>8, <1>9
     DEF Next, Reader, Writer

(* What a backend does later to a request changes no answer given: it      *)
(* turns only requests that it has, or that the reader hands to it.        *)
LEMMA AnswerFixed ==
    ASSUME TypeOK, NEW k \in Commands, NEW i \in Commands, Ready(k),
           \/ Backend!Answer(i)
           \/ /\ i # k
              /\ Backend!Accept(i) \/ Backend!Refuse(i) \/ Backend!Panic(i)
    PROVE  promise'[k] = promise[k]
BY DEF TypeOK, Ready, Backend!Answer, Backend!Accept, Backend!Refuse,
       Backend!Panic, Backend!Becomes

(* Every step keeps the replies given: none is revised (RepliesInOrder).   *)
LEMMA StepReplies ==
    ASSUME TypeOK, Holding, Order, RepliesInOrder, [Next]_vars
    PROVE  RepliesInOrder'
<1>0. /\ Len(data) \in Nat /\ Len(out) \in Nat
      /\ out \in Seq([cmd : Commands, answer : {"reply", "error"}])
      /\ decoded \in 0..MaxCommands /\ MaxCommands \in Nat /\ sfails \in Nat
      /\ InReader \in {0, 1} /\ InWriter \in {0, 1}
  BY SessionAssumption, LenProperties DEF TypeOK, InReader, InWriter
<1>1. ASSUME NEW k \in 1..Len(out)
      PROVE  /\ k \in Commands /\ out[k].cmd = k /\ out[k].answer = Answer(k)
             /\ Ready(k)
             /\ rpc \in {"dispatch", "wait", "push"} => k # decoded
  <2>1. k <= decoded - InReader
    BY <1>0, <1>1 DEF Order, Pushed
  <2>2. rpc \in {"dispatch", "wait", "push"} => InReader = 1
    BY DEF InReader
  <2> QED
    BY <1>0, <1>1, <2>1, <2>2 DEF RepliesInOrder, Ready, Commands
<1>2. ASSUME UNCHANGED out,
             \A k \in 1..Len(out) :
                 kind'[k] = kind[k] /\ promise'[k] = promise[k]
      PROVE  RepliesInOrder'
  BY <1>1, <1>2 DEF RepliesInOrder, Answer, Ready
<1>3. ASSUME Encoded(wreq), wpc = "batch", Ready(wreq),
             UNCHANGED <<promise, kind>>
      PROVE  RepliesInOrder'
  <2>1. wreq = Len(out) + 1 /\ wreq \in Commands
    BY <1>0, <1>3 DEF Order, Holding, InWriter, Pushed
  <2>2. /\ Len(out') = Len(out) + 1
        /\ \A k \in 1..Len(out) : out'[k] = out[k]
        /\ out'[Len(out) + 1] = [cmd |-> wreq, answer |-> Answer(wreq)]
    BY <1>0, <1>3, <2>1, AppendProperties DEF Encoded, Answer
  <2>3. ASSUME NEW k \in 1..Len(out')
        PROVE  out'[k].cmd = k /\ out'[k].answer = Answer(k) /\ Ready(k)
    <3>1. CASE k = Len(out) + 1
      BY <1>3, <2>1, <2>2, <3>1
    <3>2. CASE k # Len(out) + 1
      <4>1. k \in 1..Len(out)
        BY <1>0, <2>2, <3>2
      <4> QED
        BY <1>1, <2>2, <4>1
    <3> QED
      BY <3>1, <3>2
  <2> QED
    BY <1>3, <2>3 DEF RepliesInOrder, Answer, Ready
<1>4. CASE DispatchFails
  BY <1>1, <1>2, <1>4
     DEF DispatchFails, TypeOK, backendVars, writerVars
<1>5. CASE DispatchForward
  <2>1. ASSUME NEW k \in 1..Len(out)
        PROVE  kind'[k] = kind[k] /\ promise'[k] = promise[k]
    BY <1>1, <1>5, AnswerFixed DEF DispatchForward, TypeOK, Holding
  <2> QED
    BY <1>2, <1>5, <2>1 DEF DispatchForward, writerVars
<1>6. CASE Reply
  BY <1>3, <1>6 DEF Reply, backendVars, readerVars
<1>7. CASE ReplyBreaks
  BY <1>2, <1>3, <1>7 DEF ReplyBreaks, backendVars, readerVars
<1>8. CASE BackendAnswers
  <2>1. ASSUME NEW k \in 1..Len(out)
        PROVE  kind'[k] = kind[k] /\ promise'[k] = promise[k]
    BY <1>1, <1>8, AnswerFixed DEF BackendAnswers, readerVars
  <2> QED
    BY <1>2, <1>8, <2>1 DEF BackendAnswers, writerVars
<1>9. CASE Receive \/ Decode \/ DecodeFails \/ DispatchWaited \/ PushTask
           \/ CloseRead \/ CloseTasks
  BY <1>2, <1>9
     DEF Receive, Decode, DecodeFails, DispatchWaited, PushTask, ChanPush,
         CloseRead, CloseTasks, ChanClose, backendVars, writerVars
<1>10. CASE Park \/ ReplyFails \/ AllReplied \/ Teardown \/ SessionEnds
            \/ \E i \in Commands : PopTask(i) \/ Drop(i)
  BY <1>2, <1>10
     DEF Park, ReplyFails, AllReplied, Teardown, SessionEnds, PopTask, Drop,
         backendVars, readerVars
<1>11. CASE BackendShuts \/ ClientGone \/ UNCHANGED vars
  BY <1>2, <1>11
     DEF BackendShuts, Backend!Shut, ClientGone, vars, backendVars,
         readerVars, writerVars
<1> QED
  BY <1>4, <1>5, <1>6, <1>7, <1>8, <1>9, <1>10, <1>11
     DEF Next, Reader, Writer

(* The k-th reply a client gets is the answer to its k-th command, whether *)
(* a backend, the router or the session produced it, and stays it.         *)
THEOREM RepliesOrdered == Spec => []RepliesInOrder
<1> QED
  BY Typed, InitOrder, StepOrder, StepReplies, PTL DEF Spec

-----------------------------------------------------------------------------
(* An error ends the session.                                              *)

(* A command that was pushed has been dispatched, and one that was handed  *)
(* over has a backend that knows it.                                       *)
Dispatched ==
    \A i \in Commands :
        /\ i <= Pushed => kind[i] # "none"
        /\ i = decoded /\ rpc \in {"wait", "push"} => kind[i] # "none"
        /\ kind[i] \in {"overtaken", "async", "sync"} => promise[i] # "new"

(* The reader stops after a dispatch that failed.                          *)
FailedLast ==
    BreakOnFailure =>
        \A i \in Commands : kind[i] \in {"failed", "overtaken"} =>
            /\ i = decoded
            /\ rpc \in {"push", "closeread", "closechan", "done"}

(* An error that was encoded is the last reply so far; the writer stops    *)
(* after it, or there is no other request because the reader has stopped.  *)
ErrorLast ==
    BreakOnFailure =>
        \A k \in 1..Len(out) : out[k].answer = "error" =>
            /\ k = Len(out)
            /\ wpc = "teardown" \/ ~serving \/ kind[k] = "failed"

Ending == Dispatched /\ FailedLast /\ ErrorLast

LEMMA InitEnding == Init => Ending
<1> SUFFICES ASSUME Init PROVE Ending
  OBVIOUS
<1>0. InReader = 0
  BY DEF Init, InReader
<1>1. Pushed = 0 /\ Len(out) = 0 /\ rpc = "decode"
  BY <1>0 DEF Init, Pushed
<1>2. \A i \in Commands : kind[i] = "none" /\ ~(i <= 0)
  BY DEF Init, Commands
<1> QED
  BY <1>1, <1>2 DEF Ending, Dispatched, FailedLast, ErrorLast

(* What the reader and the channel have counted, once for all the cases.   *)
LEMMA EndingFacts ==
    ASSUME TypeOK, Order
    PROVE  /\ Pushed \in Int /\ Pushed <= decoded /\ Len(out) <= Pushed
           /\ Len(out) \in Nat /\ decoded \in Nat
           /\ Commands \subseteq Nat
           /\ rpc \in {"dispatch", "wait", "push"} => Pushed <= decoded - 1
           /\ \A k \in 1..Len(out) : k \in Commands /\ k <= Pushed
<1>1. /\ Len(data) \in Nat /\ Len(out) \in Nat /\ sfails \in {0, 1}
      /\ decoded \in 0..MaxCommands /\ MaxCommands \in Nat
      /\ InReader \in {0, 1} /\ InWriter \in {0, 1}
      /\ rpc \in {"dispatch", "wait", "push"} => InReader = 1
      /\ Len(out) + InWriter + Len(data) <= Pushed
  BY SessionAssumption, LenProperties
     DEF TypeOK, Order, InReader, InWriter
<1>2. /\ Pushed \in Int /\ Pushed <= decoded
      /\ rpc \in {"dispatch", "wait", "push"} => Pushed <= decoded - 1
  BY <1>1 DEF Pushed
<1>3. Len(out) <= Pushed
  BY <1>1, <1>2
<1> QED
  BY <1>1, <1>2, <1>3 DEF Commands

(* A command pushed or in the reader's hand is dispatched, and a backend   *)
(* only turns what it knows.                                               *)
LEMMA StepDispatched ==
    ASSUME TypeOK, Holding, Order, Order', Dispatched, [Next]_vars
    PROVE  Dispatched'
<1>0. /\ decoded \in Nat /\ sfails \in {0, 1} /\ Commands \subseteq Nat
      /\ kind \in [Commands ->
                      {"none", "failed", "overtaken", "async", "sync"}]
      /\ promise \in [Commands -> Backend!Fates]
  BY SessionAssumption DEF TypeOK, Order, Commands
<1>1. ASSUME UNCHANGED <<kind, decoded, sfails>>,
             \A i \in Commands : promise[i] # "new" => promise'[i] # "new",
             InReader' = InReader,
             rpc' \in {"wait", "push"} => rpc \in {"wait", "push"}
      PROVE  Dispatched'
  BY <1>1 DEF Dispatched, Pushed
<1>2. CASE Decode
  <2>1. Pushed' = Pushed
    BY <1>0, <1>2 DEF Decode, Pushed, InReader
  <2>2. UNCHANGED <<kind, promise>> /\ rpc' \notin {"wait", "push"}
    BY <1>2 DEF Decode, backendVars
  <2> QED
    BY <2>1, <2>2 DEF Dispatched
<1>3. CASE PushTask
  <2>1. /\ UNCHANGED <<kind, promise, decoded>> /\ rpc = "push"
        /\ rpc' \notin {"wait", "push"} /\ sfails' = sfails /\ sfails = 0
    BY <1>3 DEF PushTask, backendVars, Order
  <2>2. \A i \in Commands : i <= Pushed' => i <= Pushed \/ i = decoded
    BY <1>0, <2>1 DEF Pushed, InReader
  <2> QED
    BY <2>1, <2>2 DEF Dispatched
<1>4. CASE DispatchFails
  <2>1. /\ UNCHANGED <<decoded, sfails, promise>> /\ InReader' = InReader
        /\ decoded \in Commands
    BY <1>4 DEF DispatchFails, backendVars, InReader, Holding
  <2>2. /\ kind'[decoded] \in {"failed", "overtaken"}
        /\ kind'[decoded] = "overtaken" => promise[decoded] = "waiting"
        /\ \A i \in Commands : i # decoded => kind'[i] = kind[i]
    BY <1>0, <1>4, <2>1 DEF DispatchFails
  <2> QED
    BY <2>1, <2>2 DEF Dispatched, Pushed
<1>5. CASE DispatchForward
  <2>1. /\ UNCHANGED <<decoded, sfails>> /\ InReader' = InReader
        /\ decoded \in Commands
    BY <1>5 DEF DispatchForward, InReader, Holding
  <2>2. /\ kind'[decoded] \in {"async", "sync"}
        /\ \A i \in Commands : i # decoded => kind'[i] = kind[i]
    BY <1>0, <1>5, <2>1 DEF DispatchForward
  <2>3. /\ promise'[decoded] # "new"
        /\ \A i \in Commands : i # decoded => promise'[i] = promise[i]
    BY <1>0, <1>5, <2>1
       DEF DispatchForward, Backend!Accept, Backend!Refuse, Backend!Panic,
           Backend!Becomes
  <2> QED
    BY <2>1, <2>2, <2>3 DEF Dispatched, Pushed
<1>6. CASE Receive \/ DecodeFails \/ DispatchWaited \/ CloseRead \/ CloseTasks
  BY <1>1, <1>6
     DEF Receive, DecodeFails, DispatchWaited, CloseRead, CloseTasks,
         backendVars, InReader
<1>7. CASE Park \/ Reply \/ ReplyFails \/ ReplyBreaks \/ AllReplied
           \/ Teardown \/ SessionEnds \/ \E i \in Commands : PopTask(i) \/ Drop(i)
  BY <1>1, <1>7
     DEF Park, Reply, ReplyFails, ReplyBreaks, AllReplied, Teardown,
         SessionEnds, PopTask, Drop, readerVars, backendVars, InReader
<1>8. CASE BackendAnswers
  BY <1>0, <1>1, <1>8
     DEF BackendAnswers, Backend!Answer, Backend!Becomes, readerVars, InReader
<1>9. CASE BackendShuts \/ ClientGone \/ UNCHANGED vars
  BY <1>1, <1>9
     DEF BackendShuts, Backend!Shut, ClientGone, vars, readerVars,
         backendVars, InReader
<1> QED
  BY <1>2, <1>3, <1>4, <1>5, <1>6, <1>7, <1>8, <1>9
     DEF Next, Reader, Writer

(* The reader decodes nothing after a failed dispatch.                     *)
LEMMA StepFailedLast ==
    ASSUME TypeOK, Holding, FailedLast, [Next]_vars
    PROVE  FailedLast'
<1>1. ASSUME UNCHANGED <<kind, decoded, BreakOnFailure>>,
             rpc \in {"push", "closeread", "closechan", "done"} =>
                 rpc' \in {"push", "closeread", "closechan", "done"}
      PROVE  FailedLast'
  BY <1>1 DEF FailedLast
<1>2. CASE Decode
  BY <1>2 DEF Decode, FailedLast, connVars
<1>3. CASE PushTask
  <2>1. /\ UNCHANGED <<kind, decoded, BreakOnFailure>> /\ rpc = "push"
        /\ rpc' = IF GivesUp(decoded) THEN "closeread" ELSE "decode"
    BY <1>3 DEF PushTask, connVars
  <2> QED
    BY <2>1 DEF FailedLast, GivesUp
<1>4. CASE DispatchFails \/ DispatchForward
  <2>1. /\ UNCHANGED <<decoded, BreakOnFailure>> /\ decoded \in Commands
        /\ rpc \in {"dispatch", "wait"}
        /\ \A i \in Commands : i # decoded => kind'[i] = kind[i]
    BY <1>4 DEF DispatchFails, DispatchForward, Holding, TypeOK, connVars
  <2>2. \/ rpc' = "push"
        \/ kind'[decoded] \in {"async", "sync"}
    BY <1>4, <2>1 DEF DispatchFails, DispatchForward, TypeOK
  <2> QED
    BY <2>1, <2>2 DEF FailedLast
<1>5. CASE Receive \/ DecodeFails \/ DispatchWaited \/ CloseRead \/ CloseTasks
  BY <1>1, <1>5
     DEF Receive, DecodeFails, DispatchWaited, CloseRead, CloseTasks, connVars
<1>6. CASE Writer
  BY <1>1, <1>6
     DEF Writer, Park, Reply, ReplyFails, ReplyBreaks, AllReplied, Teardown,
         SessionEnds, PopTask, Drop, readerVars, connVars
<1>7. CASE BackendAnswers \/ BackendShuts \/ ClientGone \/ UNCHANGED vars
  BY <1>1, <1>7
     DEF BackendAnswers, BackendShuts, ClientGone, vars, readerVars, connVars
<1> QED
  BY <1>2, <1>3, <1>4, <1>5, <1>6, <1>7 DEF Next, Reader

(* A reply follows no error, and an error the writer does not stop at is   *)
(* the reply to the failed dispatch the reader stops at.                   *)
LEMMA StepErrorLast ==
    ASSUME TypeOK, Holding, Order, Ending, [Next]_vars
    PROVE  ErrorLast'
<1>0. /\ Len(out) \in Nat
      /\ out \in Seq([cmd : Commands, answer : {"reply", "error"}])
  BY LenProperties DEF TypeOK
<1>1. ASSUME UNCHANGED <<out, BreakOnFailure>>,
             \A k \in 1..Len(out) : kind'[k] = kind[k],
             wpc = "teardown" => wpc' = "teardown" \/ ~serving',
             ~serving => ~serving'
      PROVE  ErrorLast'
  BY <1>1 DEF Ending, ErrorLast
<1>2. ASSUME Encoded(wreq), wpc = "batch", UNCHANGED <<kind, BreakOnFailure>>,
             BreakOnFailure /\ Answer(wreq) = "error" =>
                 wpc' = "teardown" \/ kind[wreq] = "failed"
      PROVE  ErrorLast'
  <2>1. /\ serving /\ wreq \in Commands /\ wreq = Len(out) + 1
        /\ Len(out) + 1 <= Pushed
    <3>1. serving /\ InWriter = 1 /\ wreq = Pushed - Len(data)
      BY <1>2 DEF Order, InWriter
    <3>2. Len(out) + 1 + Len(data) = Pushed /\ Len(data) \in Nat
      BY <1>2, <3>1, LenProperties DEF Order, TypeOK
    <3> QED
      BY <1>0, <1>2, <3>1, <3>2 DEF Holding
  <2>2. /\ Len(out') = Len(out) + 1
        /\ \A k \in 1..Len(out) : out'[k] = out[k]
        /\ out'[Len(out) + 1] = [cmd |-> wreq, answer |-> Answer(wreq)]
    BY <1>0, <1>2, <2>1, AppendProperties DEF Encoded, Answer
  <2>3. ASSUME BreakOnFailure, NEW k \in 1..Len(out)
        PROVE  out[k].answer # "error"
    <3>1. SUFFICES ASSUME out[k].answer = "error" PROVE FALSE
      OBVIOUS
    <3>2. kind[k] = "failed" /\ k = Len(out)
      BY <1>2, <2>1, <2>3, <3>1 DEF Ending, ErrorLast
    <3>3. k = decoded
      BY <2>3, <3>2, EndingFacts DEF Ending, FailedLast
    <3> QED
      BY <2>1, <3>2, <3>3, EndingFacts
  <2>4. ASSUME BreakOnFailure, NEW k \in 1..Len(out'),
               out'[k].answer = "error"
        PROVE  k = Len(out') /\ (wpc' = "teardown" \/ kind[k] = "failed")
    <3>1. k = Len(out) + 1
      BY <1>0, <2>2, <2>3, <2>4
    <3> QED
      BY <1>2, <2>1, <2>2, <2>4, <3>1
  <2> QED
    BY <1>2, <2>4 DEF ErrorLast
<1>3. CASE Reply
  <2>1. /\ Encoded(wreq) /\ wpc = "batch" /\ Ready(wreq)
        /\ ~(BreakOnFailure /\ Fails(wreq))
        /\ UNCHANGED <<kind, BreakOnFailure>>
    BY <1>3 DEF Reply, readerVars, connVars
  <2>2. kind[wreq] # "none"
    <3>1. wreq = Pushed - Len(data) /\ Len(data) \in Nat /\ wreq \in Commands
      BY <2>1, LenProperties DEF Order, Holding, TypeOK
    <3>2. wreq <= Pushed
      BY <3>1, EndingFacts
    <3> QED
      BY <3>1, <3>2 DEF Ending, Dispatched
  <2>3. /\ kind[wreq] \in {"failed", "overtaken", "async", "sync"}
        /\ promise[wreq] \in Backend!Fates /\ wreq \in Commands
    BY <2>1, <2>2 DEF TypeOK, Holding
  <2>4. BreakOnFailure /\ Answer(wreq) = "error" => kind[wreq] = "failed"
    BY <2>1, <2>3
       DEF Answer, Fails, Ready, Backend!Fates, Ending, Dispatched
  <2> QED
    BY <1>2, <2>1, <2>4
<1>4. CASE ReplyBreaks
  <2>1. /\ wpc = "batch" /\ wpc' = "teardown" /\ serving' = serving
        /\ UNCHANGED <<kind, BreakOnFailure>>
    BY <1>4 DEF ReplyBreaks, readerVars, connVars
  <2> QED
    BY <1>1, <1>2, <1>4, <2>1 DEF ReplyBreaks
<1>5. CASE DispatchFails \/ DispatchForward
  <2>1. \A k \in 1..Len(out) : k \in Commands /\ k # decoded
    BY <1>5, EndingFacts DEF DispatchFails, DispatchForward
  <2>2. \A k \in 1..Len(out) : kind'[k] = kind[k]
    BY <1>5, <2>1 DEF DispatchFails, DispatchForward, TypeOK
  <2> QED
    BY <1>1, <1>5, <2>2
       DEF DispatchFails, DispatchForward, writerVars, connVars
<1>6. CASE Receive \/ Decode \/ DecodeFails \/ DispatchWaited \/ CloseRead
  BY <1>1, <1>6
     DEF Receive, Decode, DecodeFails, DispatchWaited, CloseRead, writerVars,
         connVars
<1>7. CASE PushTask \/ CloseTasks
  BY <1>1, <1>7
     DEF PushTask, ChanPush, CloseTasks, ChanClose, Wake, connVars
<1>8. CASE Park \/ ReplyFails \/ AllReplied \/ Teardown \/ SessionEnds
           \/ \E i \in Commands : PopTask(i) \/ Drop(i)
  BY <1>1, <1>8
     DEF Park, ReplyFails, AllReplied, Teardown, SessionEnds, ChanEnds,
         PopTask, Drop, ChanPop, readerVars, connVars
<1>9. CASE BackendAnswers \/ BackendShuts \/ ClientGone \/ UNCHANGED vars
  BY <1>1, <1>9
     DEF BackendAnswers, BackendShuts, ClientGone, vars, readerVars,
         writerVars, connVars
<1> QED
  BY <1>3, <1>4, <1>5, <1>6, <1>7, <1>8, <1>9 DEF Next, Reader, Writer

(* With session_break_on_failure an error is the last reply, although the  *)
(* reader meets the failed dispatch and the writer the failed backend, and *)
(* each stops by itself (session.go 141-146, 174-187).                     *)
THEOREM ErrorIsLast == Spec => []ErrorEndsSession
<1>1. Ending => ErrorEndsSession
  BY DEF Ending, ErrorLast, ErrorEndsSession
<1>2. /\ Ending /\ TypeOK /\ Holding /\ Order /\ Order' /\ [Next]_vars
      => Ending'
  BY StepDispatched, StepFailedLast, StepErrorLast DEF Ending
<1>3. Init => Order
  BY InitOrder
<1>4. TypeOK /\ Holding /\ Order /\ [Next]_vars => Order'
  BY StepOrder
<1> QED
  BY <1>1, <1>2, <1>3, <1>4, Typed, InitEnding, PTL DEF Spec
=============================================================================
