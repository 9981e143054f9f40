---------------------------- MODULE LogClient_proofs ----------------------------
(***************************************************************************)
(* Proofs about LogClient, for any number of producers and any bounds.     *)
(***************************************************************************)
EXTENDS LogClient, SequenceTheorems, TLAPS

USE DEF MessageToWrite, Unfinished, QueueEmpty, Joinable, args, channel, lock, message, program

LEMMA TypeInit == Init => TypeOK
<1> SUFFICES ASSUME Init PROVE TypeOK
  OBVIOUS
<1>1. ThreadTypes
  <2>1. /\ pc \in [Threads -> CallerLabels \cup IoLabels]
        /\ pc[Io] \in IoLabels /\ \A t \in Callers : pc[t] \in CallerLabels
    BY ThreadsAssumption DEF Init, Threads, Callers, CallerLabels, IoLabels
  <2>2. calls \in [Producers -> 0..MaxCalls]
    BY BoundAssumption DEF Init
  <2> QED
    BY <2>1, <2>2 DEF Init, ThreadTypes
<1>2. ChannelTypes
  BY DEF Init, ChannelTypes
<1>3. WriteTypes
  BY DEF Init, WriteTypes, NoOp
<1>4. LifeTypes
  BY DEF Init, LifeTypes, ELoggingMode
<1> QED
  BY <1>1, <1>2, <1>3, <1>4 DEF TypeOK

LEMMA InvInit == Init => IInv
<1> SUFFICES ASSUME Init PROVE IInv
  OBVIOUS
<1>1. TypeOK
  BY TypeInit
<1>2. MutexInv /\ PushInv
  BY ThreadsAssumption DEF Init, MutexInv, PushInv, Threads, Callers
<1>3. WriterInv
  BY ThreadsAssumption DEF Init, WriterInv, Busy, NoOp, Threads, Callers
<1>4. /\ ChannelInv
      /\ PartialInv
  <2>1. \A t \in Threads : ~Busy(t)
    BY DEF Init, Busy
  <2>2. /\ ~writeInProgress /\ writeOp.state = "none" /\ partial = <<>>
        /\ queue = <<>> /\ accepted = <<>> /\ received = <<>>
    BY DEF Init, NoOp
  <2> QED
    BY <2>1, <2>2 DEF ChannelInv, PartialInv, FrameIntact
<1>5. NoLostWakeup /\ StopLosesAtMostOne
  BY DEF Init, NoLostWakeup, StopLosesAtMostOne
<1> QED
  BY <1>1, <1>2, <1>3, <1>4, <1>5 DEF IInv

-------------------------------------------------------------------------------
(***************************************************************************)
(* Threads go from label to label; a caller inside Push has its package    *)
(***************************************************************************)
LEMMA ThreadStep ==
  ThreadTypes /\ PushInv /\ [Next]_vars => ThreadTypes' /\ PushInv'
<1> SUFFICES ASSUME ThreadTypes, PushInv, [Next]_vars PROVE ThreadTypes' /\ PushInv'
  OBVIOUS
<1> USE ThreadsAssumption
    DEF ThreadTypes, PushInv, Threads, Callers, CallerLabels, IoLabels, Goto, Return
<1>1. CASE Connected
  BY <1>1 DEF Connected, Package
<1>2. CASE ConnectRefused
  BY <1>2 DEF ConnectRefused
<1>3. CASE ConstructorThrows
  BY <1>3 DEF ConstructorThrows, Terminate
<1>4. CASE CallStop
  BY <1>4 DEF CallStop, Package
<1>5. CASE SetStop
  BY <1>5 DEF SetStop
<1>6. CASE QueueSeenEmpty
  BY <1>6 DEF QueueSeenEmpty
<1>7. CASE QueueSeenNonEmpty
  BY <1>7 DEF QueueSeenNonEmpty, vars, buffer, server
<1>8. CASE Close
  BY <1>8 DEF Close
<1>9. CASE ShutdownThrows
  BY <1>9 DEF ShutdownThrows, Terminate
<1>10. CASE StopService
  BY <1>10 DEF StopService
<1>11. CASE Join
  BY <1>11 DEF Join
<1>12. CASE JoinThrows
  BY <1>12 DEF JoinThrows, Terminate
<1>13. CASE RunHandler
  BY <1>13 DEF RunHandler
<1>14. CASE SendReminder
  BY <1>14 DEF SendReminder
<1>15. CASE MessageWritten
  BY <1>15 DEF MessageWritten
<1>16. CASE ClearWriteInProgress
  BY <1>16 DEF ClearWriteInProgress
<1>17. CASE WriteFailed
  BY <1>17 DEF WriteFailed
<1>18. CASE IoExits
  BY <1>18 DEF IoExits
<1>19. CASE SendUnit
  BY <1>19 DEF SendUnit
<1>20. CASE WriteCompletes
  BY <1>20 DEF WriteCompletes
<1>21. CASE WriteFails
  BY <1>21 DEF WriteFails
<1>22. CASE ConnectionBreaks
  BY <1>22 DEF ConnectionBreaks
<1>23. CASE SetLoggingMode
  BY <1>23 DEF SetLoggingMode
<1>24. ASSUME NEW t \in Callers, ReadMode(t) PROVE ThreadTypes' /\ PushInv'
  BY <1>24 DEF ReadMode
<1>25. ASSUME NEW t \in Callers, ReadStop(t) PROVE ThreadTypes' /\ PushInv'
  BY <1>25 DEF ReadStop
<1>26. ASSUME NEW t \in Callers, Enqueue(t) PROVE ThreadTypes' /\ PushInv'
  BY <1>26 DEF Enqueue
<1>27. ASSUME NEW t \in Producers, Log(t) PROVE ThreadTypes' /\ PushInv'
  <2>1. <<t, calls[t] + 1>> \in Package /\ calls[t] + 1 \in 0..MaxCalls
    BY <1>27, BoundAssumption DEF Log, Package, Message
  <2> QED
    BY <1>27, <2>1 DEF Log
<1>28. ASSUME NEW t \in Threads, Lock(t) PROVE ThreadTypes' /\ PushInv'
  BY <1>28 DEF Lock
<1>29. ASSUME NEW t \in Threads, NothingToDo(t) PROVE ThreadTypes' /\ PushInv'
  BY <1>29 DEF NothingToDo
<1>30. ASSUME NEW t \in Threads, TakeNext(t) PROVE ThreadTypes' /\ PushInv'
  BY <1>30 DEF TakeNext
<1>31. ASSUME NEW t \in Threads, Encode(t) PROVE ThreadTypes' /\ PushInv'
  BY <1>31 DEF Encode
<1>32. ASSUME NEW t \in Threads, StartWrite(t) PROVE ThreadTypes' /\ PushInv'
  BY <1>32 DEF StartWrite
<1>33. ASSUME NEW t \in Threads, EncodeThrows(t) PROVE ThreadTypes' /\ PushInv'
  BY <1>33 DEF EncodeThrows
<1>34. ASSUME NEW t \in Threads, EncodeTerminates(t) PROVE ThreadTypes' /\ PushInv'
  BY <1>34 DEF EncodeTerminates, Terminate
<1>35. CASE UNCHANGED vars
  BY <1>35 DEF vars
<1> QED
  BY <1>1, <1>2, <1>3, <1>4, <1>5, <1>6, <1>7, <1>8, <1>9, <1>10, <1>11,
     <1>12, <1>13, <1>14, <1>15, <1>16, <1>17, <1>18, <1>19, <1>20, <1>21,
     <1>22, <1>23, <1>24, <1>25, <1>26, <1>27, <1>28, <1>29, <1>30, <1>31,
     <1>32, <1>33, <1>34, <1>35
  DEF Next, Construct, StopStep, IoStep, Transport, PushStep, WriteNextStep

-------------------------------------------------------------------------------
(***************************************************************************)
(* Most steps are quiet: they touch neither the channel (queue, m_mutex,   *)
(* the write, the server) nor a thread at work on it.                      *)
(***************************************************************************)
coreVars == <<queue, mutex, writeInProgress, buffer, package, writeOp, accepted, server>>
CoreLabels == {"writeNext", "locked", "encode", "send", "handler", "written"}

QuietStep ==
  /\ UNCHANGED coreVars
  /\ \A t \in Threads : pc'[t] = pc[t] \/ {pc[t], pc'[t]} \cap CoreLabels = {}

CoreStep ==
  \/ RunHandler \/ SendReminder \/ MessageWritten \/ ClearWriteInProgress
  \/ WriteFailed \/ Transport
  \/ \E t \in Callers : Enqueue(t)
  \/ \E t \in Threads : \/ Lock(t) \/ NothingToDo(t) \/ TakeNext(t) \/ Encode(t)
                         \/ StartWrite(t) \/ EncodeThrows(t)

LEMMA StepKinds == ThreadTypes /\ [Next]_vars => QuietStep \/ CoreStep
<1> SUFFICES ASSUME ThreadTypes, [Next]_vars PROVE QuietStep \/ CoreStep
  OBVIOUS
<1> USE ThreadsAssumption
    DEF ThreadTypes, QuietStep, CoreLabels, coreVars, Threads, Callers, Goto, Return
<1>1. CASE Connected
  BY <1>1 DEF Connected
<1>2. CASE ConnectRefused
  BY <1>2 DEF ConnectRefused
<1>3. CASE ConstructorThrows
  BY <1>3 DEF ConstructorThrows, Terminate
<1>4. CASE CallStop
  BY <1>4 DEF CallStop
<1>5. CASE SetStop
  BY <1>5 DEF SetStop
<1>6. CASE QueueSeenEmpty
  BY <1>6 DEF QueueSeenEmpty
<1>7. CASE QueueSeenNonEmpty
  BY <1>7 DEF QueueSeenNonEmpty, vars, buffer, server
<1>8. CASE Close
  BY <1>8 DEF Close
<1>9. CASE ShutdownThrows
  BY <1>9 DEF ShutdownThrows, Terminate
<1>10. CASE StopService
  BY <1>10 DEF StopService
<1>11. CASE Join
  BY <1>11 DEF Join
<1>12. CASE JoinThrows
  BY <1>12 DEF JoinThrows, Terminate
<1>13. CASE IoExits
  BY <1>13 DEF IoExits
<1>14. CASE ConnectionBreaks
  BY <1>14 DEF ConnectionBreaks
<1>15. CASE SetLoggingMode
  BY <1>15 DEF SetLoggingMode
<1>16. ASSUME NEW t \in Callers, ReadMode(t) PROVE QuietStep
  BY <1>16 DEF ReadMode
<1>17. ASSUME NEW t \in Callers, ReadStop(t) PROVE QuietStep
  BY <1>17 DEF ReadStop
<1>18. ASSUME NEW t \in Producers, Log(t) PROVE QuietStep
  BY <1>18 DEF Log
<1>19. ASSUME NEW t \in Threads, EncodeTerminates(t) PROVE QuietStep
  BY <1>19 DEF EncodeTerminates, Terminate
<1>20. CASE UNCHANGED vars
  BY <1>20 DEF vars, buffer, server
<1>21. CASE CoreStep
  BY <1>21
<1> HIDE DEF ThreadTypes, QuietStep, CoreLabels, coreVars, Threads, Callers, Goto, Return
<1> QED
  BY <1>1, <1>2, <1>3, <1>4, <1>5, <1>6, <1>7, <1>8, <1>9, <1>10, <1>11,
     <1>12, <1>13, <1>14, <1>15, <1>16, <1>17, <1>18, <1>19, <1>20, <1>21
  DEF Next, Construct, StopStep, IoStep, Transport, PushStep, WriteNextStep, CoreStep

LEMMA MutexStep ==
  ThreadTypes /\ WriteTypes /\ MutexInv /\ [Next]_vars => MutexInv'
<1> SUFFICES ASSUME ThreadTypes, WriteTypes, MutexInv, [Next]_vars PROVE MutexInv'
  OBVIOUS
<1> USE ThreadsAssumption DEF ThreadTypes, WriteTypes, MutexInv, Goto, Return
<1>1. CASE QuietStep
  BY <1>1 DEF QuietStep, CoreLabels, coreVars
<1>2. CASE RunHandler
  BY <1>2 DEF RunHandler, Threads, Callers
<1>3. CASE SendReminder
  BY <1>3 DEF SendReminder, Threads, Callers
<1>4. CASE MessageWritten
  BY <1>4 DEF MessageWritten, Threads, Callers
<1>5. CASE ClearWriteInProgress
  BY <1>5 DEF ClearWriteInProgress, Threads, Callers
<1>6. CASE WriteFailed
  BY <1>6 DEF WriteFailed, Threads, Callers
<1>7. CASE SendUnit
  BY <1>7 DEF SendUnit, Threads, Callers
<1>8. CASE WriteCompletes
  BY <1>8 DEF WriteCompletes, Threads, Callers
<1>9. CASE WriteFails
  BY <1>9 DEF WriteFails, Threads, Callers
<1>10. ASSUME NEW t \in Callers, Enqueue(t) PROVE MutexInv'
  BY <1>10 DEF Enqueue, Threads, Callers
<1>11. ASSUME NEW t \in Threads, Lock(t) PROVE MutexInv'
  BY <1>11 DEF Lock, Threads, Callers
<1>12. ASSUME NEW t \in Threads, NothingToDo(t) PROVE MutexInv'
  BY <1>12 DEF NothingToDo, Threads, Callers
<1>13. ASSUME NEW t \in Threads, TakeNext(t) PROVE MutexInv'
  BY <1>13 DEF TakeNext, Threads, Callers
<1>14. ASSUME NEW t \in Threads, Encode(t) PROVE MutexInv'
  BY <1>14 DEF Encode, Threads, Callers
<1>15. ASSUME NEW t \in Threads, StartWrite(t) PROVE MutexInv'
  BY <1>15 DEF StartWrite, Threads, Callers
<1>16. ASSUME NEW t \in Threads, EncodeThrows(t) PROVE MutexInv'
  BY <1>16 DEF EncodeThrows, Threads, Callers
<1> QED
  BY <1>1, <1>2, <1>3, <1>4, <1>5, <1>6, <1>7, <1>8, <1>9, <1>10, <1>11,
     <1>12, <1>13, <1>14, <1>15, <1>16, StepKinds DEF CoreStep, Transport

-------------------------------------------------------------------------------
(***************************************************************************)
(* m_writeInProgress owns the message buffer and the write                 *)
(***************************************************************************)
LEMMA WriterStep ==
  TypeOK /\ MutexInv /\ WriterInv /\ [Next]_vars => WriteTypes' /\ WriterInv'
<1> SUFFICES ASSUME TypeOK, MutexInv, WriterInv, [Next]_vars
             PROVE  WriteTypes' /\ WriterInv'
  OBVIOUS
<1> USE ThreadsAssumption
    DEF TypeOK, ThreadTypes, WriteTypes, MutexInv, WriterInv, Busy, Goto, Return
<1>1. CASE QuietStep
  BY <1>1 DEF QuietStep, CoreLabels, coreVars, buffer, Threads, Callers
<1>2. CASE RunHandler
  BY <1>2 DEF RunHandler, buffer, Threads, Callers
<1>3. CASE SendReminder
  BY <1>3, PackageAssumption DEF SendReminder, buffer, Threads, Callers, AsyncWrite
<1>4. CASE MessageWritten
  BY <1>4 DEF MessageWritten, buffer, Threads, Callers, NoOp
<1>5. CASE ClearWriteInProgress
  BY <1>5 DEF ClearWriteInProgress, buffer, Threads, Callers
<1>6. CASE WriteFailed
  BY <1>6 DEF WriteFailed, buffer, Threads, Callers, NoOp
<1>7. CASE SendUnit
  <2>1. /\ writeOp.state = "writing" /\ writeOp.sent < writeOp.length
        /\ writeOp' = [writeOp EXCEPT !.sent = @ + 1]
        /\ UNCHANGED <<pc, mutex, writeInProgress, currentMessage, transferred, package>>
    BY <1>7 DEF SendUnit, buffer
  <2>2. /\ writeOp' \in [state : {"none", "writing", "done", "failed"},
                         offset : Nat, length : Nat, sent : Nat]
        /\ writeOp'.state = "writing" /\ writeOp'.offset = writeOp.offset
        /\ writeOp'.length = writeOp.length /\ writeOp'.sent = writeOp.sent + 1
    BY <2>1
  <2>3. WriteTypes'
    BY <2>1, <2>2
  <2> QED
    BY <2>1, <2>2, <2>3
<1>8. CASE WriteCompletes
  BY <1>8 DEF WriteCompletes, buffer, Threads, Callers
<1>9. CASE WriteFails
  BY <1>9 DEF WriteFails, buffer, Threads, Callers
<1>10. ASSUME NEW t \in Callers, Enqueue(t) PROVE WriteTypes' /\ WriterInv'
  BY <1>10 DEF Enqueue, buffer, Threads, Callers
<1>11. ASSUME NEW t \in Threads, Lock(t) PROVE WriteTypes' /\ WriterInv'
  BY <1>11 DEF Lock, buffer, Threads, Callers
<1>12. ASSUME NEW t \in Threads, NothingToDo(t) PROVE WriteTypes' /\ WriterInv'
  BY <1>12 DEF NothingToDo, buffer, Threads, Callers
<1>13. ASSUME NEW t \in Threads, TakeNext(t) PROVE WriteTypes' /\ WriterInv'
  BY <1>13, HeadTailProperties DEF TakeNext, buffer, Threads, Callers, ChannelTypes
<1>14. ASSUME NEW t \in Threads, Encode(t) PROVE WriteTypes' /\ WriterInv'
  BY <1>14 DEF Encode, buffer, Threads, Callers
<1>15. ASSUME NEW t \in Threads, StartWrite(t) PROVE WriteTypes' /\ WriterInv'
  BY <1>15, PackageAssumption DEF StartWrite, buffer, Threads, Callers, AsyncWrite
<1>16. ASSUME NEW t \in Threads, EncodeThrows(t) PROVE WriteTypes' /\ WriterInv'
  BY <1>16 DEF EncodeThrows, buffer, Threads, Callers
<1> QED
  BY <1>1, <1>2, <1>3, <1>4, <1>5, <1>6, <1>7, <1>8, <1>9, <1>10, <1>11,
     <1>12, <1>13, <1>14, <1>15, <1>16, StepKinds DEF CoreStep, Transport

-------------------------------------------------------------------------------
(***************************************************************************)
(* The channel: nothing is lost, duplicated or reordered                   *)
(***************************************************************************)
LEMMA SuffixAppend ==
  ASSUME NEW S, NEW q \in Seq(S), NEW all \in Seq(S), NEW e \in S,
         Len(q) <= Len(all),
         \A i \in 1..Len(q) : q[i] = all[Len(all) - Len(q) + i]
  PROVE  \A i \in 1..(Len(q) + 1) :
           Append(q, e)[i] = Append(all, e)[Len(all) - Len(q) + i]
<1>1. Len(q) \in Nat /\ Len(all) \in Nat
  BY LenProperties
<1>2. \A i \in 1..Len(q) : Append(q, e)[i] = q[i]
  BY AppendProperties
<1>3. \A i \in 1..Len(all) : Append(all, e)[i] = all[i]
  BY AppendProperties
<1>4. Append(q, e)[Len(q) + 1] = e /\ Append(all, e)[Len(all) + 1] = e
  BY AppendProperties
<1>5. ASSUME NEW i \in 1..(Len(q) + 1)
      PROVE  Append(q, e)[i] = Append(all, e)[Len(all) - Len(q) + i]
  <2>1. CASE i = Len(q) + 1
    <3>1. Len(all) - Len(q) + i = Len(all) + 1
      BY <1>1, <2>1
    <3> QED
      BY <1>4, <2>1, <3>1
  <2>2. CASE i \in 1..Len(q)
    <3>1. Len(all) - Len(q) + i \in 1..Len(all)
      BY <1>1, <2>2
    <3> QED
      BY <1>2, <1>3, <2>2, <3>1
  <2>3. i = Len(q) + 1 \/ i \in 1..Len(q)
    BY <1>1
  <2> QED
    BY <2>1, <2>2, <2>3
<1> QED
  BY <1>5

LEMMA SuffixTail ==
  ASSUME NEW S, NEW q \in Seq(S), q # <<>>, NEW all \in Seq(S),
         \A i \in 1..Len(q) : q[i] = all[Len(all) - Len(q) + i],
         NEW q2, q2 = Tail(q)
  PROVE  /\ Len(q2) = Len(q) - 1 /\ Len(q) \in Nat \ {0}
         /\ Head(q) = all[Len(all) - Len(q) + 1]
         /\ \A i \in 1..Len(q2) : q2[i] = all[Len(all) - Len(q2) + i]
<1>1. Len(q) \in Nat \ {0} /\ Len(all) \in Nat /\ Head(q) = q[1]
  BY LenProperties, EmptySeq
<1>2. Len(q2) = Len(q) - 1 /\ \A i \in 1..Len(q2) : q2[i] = q[i + 1]
  BY HeadTailProperties
<1>3. ASSUME NEW i \in 1..Len(q2) PROVE q2[i] = all[Len(all) - Len(q2) + i]
  <2>1. i + 1 \in 1..Len(q) /\ Len(all) - Len(q) + (i + 1) = Len(all) - Len(q2) + i
    BY <1>1, <1>2
  <2> QED
    BY <1>2, <2>1
<1>4. Head(q) = all[Len(all) - Len(q) + 1]
  BY <1>1
<1> QED
  BY <1>1, <1>2, <1>3, <1>4

LEMMA ChannelStep ==
  TypeOK /\ PushInv /\ MutexInv /\ WriterInv /\ ChannelInv /\ PartialInv /\ [Next]_vars
    => ChannelInv' /\ PartialInv'
<1> SUFFICES ASSUME TypeOK, PushInv, MutexInv, WriterInv, ChannelInv, PartialInv, [Next]_vars
             PROVE  ChannelInv' /\ PartialInv'
  OBVIOUS
<1> USE ThreadsAssumption
    DEF TypeOK, ThreadTypes, ChannelTypes, WriteTypes, MutexInv, WriterInv, ChannelInv,
        PartialInv, FrameIntact, FrameDone, Busy, Goto, Return
<1>1. CASE QuietStep
  BY <1>1 DEF QuietStep, CoreLabels, coreVars, buffer, server, Threads, Callers
<1>2. CASE RunHandler
  BY <1>2 DEF RunHandler, buffer, server, Threads, Callers
<1>3. CASE SendReminder
  <2>1. /\ pc[Io] = "handler" /\ writeOp.state = "done" /\ pc' = [pc EXCEPT ![Io] = "poll"]
        /\ transferred' = transferred + writeOp.sent
        /\ transferred' < FrameLength[currentMessage]
        /\ UNCHANGED <<queue, accepted, received, partial, writeInProgress, currentMessage, package>>
    BY <1>3 DEF SendReminder, server
  <2>2. /\ writeOp'.state = "writing" /\ writeOp'.offset = transferred'
        /\ writeOp'.length = FrameLength[currentMessage] - transferred' /\ writeOp'.sent = 0
    BY <1>3 DEF SendReminder, AsyncWrite
  <2>3. FrameLength[currentMessage] \in Nat
    BY <2>1, PackageAssumption
  <2>4. ~FrameDone /\ ~FrameDone'
    <3>1. writeOp.sent # writeOp.length /\ pc[Io] # "written"
      BY <2>1
    <3>2. pc'[Io] # "written"
      BY <2>1 DEF Threads
    <3>3. transferred' \in Nat
      BY <2>1
    <3>4. writeOp'.length # 0
      <4> HIDE DEF TypeOK, ThreadTypes, ChannelTypes, WriteTypes, MutexInv, WriterInv,
               ChannelInv, PartialInv, FrameIntact, FrameDone, Busy
      <4> QED
        BY <2>1, <2>2, <2>3, <3>3
    <3> QED
      BY <2>2, <3>1, <3>2, <3>4
  <2>5. \A t \in Threads : Busy(t)' => Busy(t)
    BY <2>1
  <2>6. writeOp'.offset + writeOp'.sent = writeOp.offset + writeOp.sent
    BY <2>1, <2>2
  <2>7. ChannelInv'
    BY <2>1, <2>4, <2>5
  <2>8. PartialInv'
    BY <2>1, <2>4, <2>5, <2>6
  <2> QED
    BY <2>7, <2>8
<1>4. CASE MessageWritten
  <2>1. /\ writeOp.state = "done" /\ pc' = [pc EXCEPT ![Io] = "written"]
        /\ transferred + writeOp.sent >= FrameLength[currentMessage]
        /\ writeOp'.state = "none"
        /\ UNCHANGED <<queue, accepted, received, partial, writeInProgress, currentMessage, package>>
    BY <1>4 DEF MessageWritten, server, NoOp
  <2>2. FrameDone /\ FrameDone'
    <3>1. writeOp.sent = writeOp.length
      BY <2>1, PackageAssumption
    <3>2. pc'[Io] = "written"
      BY <2>1 DEF Threads
    <3> QED
      BY <3>1, <3>2, <2>1
  <2>3. \A t \in Threads : Busy(t)' => Busy(t)
    BY <2>1
  <2>4. ChannelInv'
    BY <2>1, <2>2, <2>3
  <2>5. PartialInv'
    BY <2>1, <2>2, <2>3
  <2> QED
    BY <2>4, <2>5
<1>5. CASE ClearWriteInProgress
  BY <1>5 DEF ClearWriteInProgress, buffer, server, Threads, Callers
<1>6. CASE WriteFailed
  <2>1. /\ writeOp.state = "failed" /\ pc[Io] = "handler" /\ pc' = [pc EXCEPT ![Io] = "poll"]
        /\ writeOp'.state = "none"
        /\ UNCHANGED <<queue, accepted, received, partial, writeInProgress, currentMessage, package>>
    BY <1>6 DEF WriteFailed, buffer, server, NoOp
  <2>2. ~FrameDone /\ ~FrameDone'
    BY <2>1
  <2>3. \A t \in Threads : Busy(t)' => Busy(t)
    BY <2>1
  <2>4. ChannelInv'
    BY <2>1, <2>2, <2>3
  <2>5. PartialInv'
    BY <2>1, <2>2, <2>3
  <2> QED
    BY <2>4, <2>5
<1>7. CASE SendUnit
  <2> DEFINE unit == <<currentMessage, writeOp.offset + writeOp.sent + 1>>
             frame == Append(partial, unit)
  <2>1. /\ writeOp.state = "writing" /\ writeOp.sent < writeOp.length
        /\ writeOp' = [writeOp EXCEPT !.sent = @ + 1]
        /\ UNCHANGED <<pc, queue, accepted, writeInProgress, currentMessage, package>>
    BY <1>7 DEF SendUnit, buffer
  <2>2. /\ writeOp'.state = "writing" /\ writeOp'.offset = writeOp.offset
        /\ writeOp'.length = writeOp.length /\ writeOp'.sent = writeOp.sent + 1
    BY <2>1
  <2>3. ~FrameDone /\ writeInProgress /\ currentMessage = accepted[Len(received) + 1]
        /\ currentMessage \in Package /\ FrameLength[currentMessage] \in Nat \ {0}
    BY <2>1, PackageAssumption
  <2>4. /\ unit \in Unit /\ frame \in Seq(Unit) /\ Len(frame) = Len(partial) + 1
        /\ \A i \in 1..Len(partial) : frame[i] = partial[i]
        /\ frame[Len(partial) + 1] = unit
    <3>1. writeOp.offset + writeOp.sent + 1 \in Nat \ {0}
      <4>1. writeOp.offset \in Nat /\ writeOp.sent \in Nat
        OBVIOUS
      <4> HIDE DEF TypeOK, ThreadTypes, ChannelTypes, WriteTypes, MutexInv, WriterInv,
               ChannelInv, PartialInv, FrameIntact, FrameDone, Busy
      <4> QED
        BY <4>1
    <3>2. unit \in Unit
      BY <2>3, <3>1 DEF Unit
    <3>3. partial \in Seq(Unit)
      OBVIOUS
    <3> HIDE DEF unit
    <3> QED
      BY <3>2, <3>3, AppendProperties
  <2>5. Len(partial) = writeOp.offset + writeOp.sent /\ Len(partial) \in Nat
    BY <2>1, <2>3, LenProperties
  <2>6. /\ DOMAIN frame = 1..Len(frame)
        /\ \A i \in 1..Len(frame) : frame[i] = <<currentMessage, i>>
    <3>1. DOMAIN frame = 1..Len(frame)
      BY <2>4, LenProperties
    <3>2. \A i \in 1..Len(partial) : partial[i] = <<currentMessage, i>>
      OBVIOUS
    <3>3. unit = <<currentMessage, Len(partial) + 1>>
      BY <2>5
    <3> HIDE DEF unit, frame
    <3> QED
      BY ONLY <3>1, <3>2, <3>3, <2>4, <2>5
  <2>7. frame[1][1] = currentMessage
    BY <2>4, <2>5, <2>6
  <2>8. Len(frame) = FrameLength[currentMessage] <=> FrameDone'
    <3>1. pc'[Io] # "written"
      BY <2>1
    <3>2. FrameDone' <=> writeOp.sent + 1 = writeOp.length
      BY <2>2, <3>1
    <3>3. writeOp.offset + writeOp.length = FrameLength[currentMessage]
      BY <2>1
    <3>4. writeOp.offset \in Nat /\ writeOp.length \in Nat /\ writeOp.sent \in Nat
      OBVIOUS
    <3>5. Len(frame) = writeOp.offset + writeOp.sent + 1
      BY <2>4, <2>5
    <3> HIDE DEF frame
    <3> QED
      BY <3>2, <3>3, <3>4, <3>5
  <2>9. CASE Len(frame) = FrameLength[currentMessage]
    <3>1. received' = Append(received, currentMessage) /\ partial' = <<>>
      BY <1>7, <2>6, <2>7, <2>9 DEF SendUnit
    <3>2. /\ Len(received') = Len(received) + 1 /\ Len(received) \in Nat
          /\ \A i \in 1..Len(received) : received'[i] = received[i]
          /\ received'[Len(received) + 1] = currentMessage
      BY <2>3, <3>1, AppendProperties, LenProperties
    <3>3. FrameDone'
      BY <2>8, <2>9
    <3>4. Len(accepted) = Len(received) + 1 + Len(queue)
      BY <2>3
    <3>5. \A i \in 1..Len(received') : received'[i] = accepted'[i]
      <4>1. \A i \in 1..Len(received) : received[i] = accepted[i]
        OBVIOUS
      <4> HIDE DEF TypeOK, ThreadTypes, ChannelTypes, WriteTypes, MutexInv, WriterInv,
               ChannelInv, PartialInv, FrameIntact, FrameDone, Busy
      <4> QED
        BY <2>1, <2>3, <3>2, <4>1
    <3>6. ~(\E t \in Threads : Busy(t)')
      BY <2>1
    <3>7. Len(accepted') = Len(received') + Len(queue')
      BY <2>1, <3>2, <3>4
    <3>8. ChannelInv'
      <4>1. UNCHANGED <<queue, accepted>>
        BY <1>7 DEF SendUnit
      <4>2. \A i \in 1..Len(queue') : queue'[i] = accepted'[Len(accepted') - Len(queue') + i]
        BY <4>1
      <4> QED
        BY <3>3, <3>5, <3>6, <3>7, <4>2
    <3>9. PartialInv'
      BY <2>1, <3>1, <3>3
    <3> QED
      BY <3>8, <3>9
  <2>10. CASE Len(frame) # FrameLength[currentMessage]
    <3>1. received' = received /\ partial' = frame
      BY <1>7, <2>7, <2>10 DEF SendUnit
    <3>2. ~FrameDone'
      BY <2>8, <2>10
    <3>3. ChannelInv'
      BY <2>1, <2>2, <2>3, <3>1, <3>2
    <3>4. Len(partial') < FrameLength[currentMessage]
      <4>1. writeOp.offset + writeOp.length = FrameLength[currentMessage]
        BY <2>1
      <4>2. writeOp.offset \in Nat /\ writeOp.length \in Nat /\ writeOp.sent \in Nat
        OBVIOUS
      <4>3. Len(frame) = writeOp.offset + writeOp.sent + 1
        BY <2>4, <2>5
      <4> HIDE DEF frame
      <4> QED
        BY ONLY <2>1, <2>3, <2>10, <3>1, <4>1, <4>2, <4>3
    <3>5. FrameIntact'
      BY <2>1, <2>6, <3>1, <3>4
    <3>6. ~(\E t \in Threads : Busy(t)')
      BY <2>1
    <3>7. Len(partial') = writeOp'.offset + writeOp'.sent
      BY <2>2, <2>4, <2>5, <3>1
    <3>8. PartialInv'
      BY <2>1, <2>3, <3>2, <3>5, <3>6, <3>7
    <3> QED
      BY <3>3, <3>8
  <2> QED
    BY <2>9, <2>10
<1>8. CASE WriteCompletes
  BY <1>8 DEF WriteCompletes, buffer, server, Threads, Callers
<1>9. CASE WriteFails
  BY <1>9 DEF WriteFails, buffer, server, Threads, Callers
<1>10. ASSUME NEW t \in Callers, Enqueue(t) PROVE ChannelInv' /\ PartialInv'
  <2>1. /\ pc[t] = "enqueue" /\ pc' = [pc EXCEPT ![t] = "writeNext"]
        /\ queue' = Append(queue, pkg[t]) /\ accepted' = Append(accepted, pkg[t])
        /\ pkg[t] \in Package
        /\ UNCHANGED <<writeOp, received, partial, writeInProgress, currentMessage, package>>
    BY <1>10 DEF Enqueue, buffer, server, PushInv
  <2>2. /\ Len(queue) \in Nat /\ Len(accepted) \in Nat /\ Len(received) \in Nat
    BY LenProperties
  <2>3. /\ Len(queue') = Len(queue) + 1 /\ Len(accepted') = Len(accepted) + 1
        /\ \A i \in 1..Len(accepted) : accepted'[i] = accepted[i]
        /\ \A i \in 1..Len(queue') :
             queue'[i] = accepted'[Len(accepted') - Len(queue') + i]
    <3>1. Len(queue) <= Len(accepted)
      BY <2>2
    <3>2. /\ queue \in Seq(Package) /\ accepted \in Seq(Package)
          /\ \A i \in 1..Len(queue) : queue[i] = accepted[Len(accepted) - Len(queue) + i]
      OBVIOUS
    <3> HIDE DEF TypeOK, ThreadTypes, ChannelTypes, WriteTypes, MutexInv, WriterInv,
               ChannelInv, PartialInv, FrameIntact, FrameDone, Busy
    <3>3. /\ Len(queue') = Len(queue) + 1 /\ Len(accepted') = Len(accepted) + 1
          /\ \A i \in 1..Len(accepted) : accepted'[i] = accepted[i]
      BY <2>1, <3>2, AppendProperties
    <3>4. \A i \in 1..(Len(queue) + 1) :
            queue'[i] = accepted'[Len(accepted) - Len(queue) + i]
      BY ONLY <2>1, <2>2, <3>1, <3>2, SuffixAppend
    <3>5. Len(accepted') - Len(queue') = Len(accepted) - Len(queue)
      BY ONLY <2>2, <3>3, SMT
    <3>6. \A i \in 1..Len(queue') :
            queue'[i] = accepted'[Len(accepted') - Len(queue') + i]
      BY ONLY <3>3, <3>4, <3>5
    <3> QED
      BY ONLY <3>3, <3>6
  <2>4. FrameDone' = FrameDone /\ \A s \in Threads : Busy(s)' => Busy(s)
    BY <2>1 DEF Threads, Callers
  <2>5. (\E s \in Threads : Busy(s)) \/ (writeOp.state # "none" /\ ~FrameDone)
          => writeInProgress /\ ~FrameDone
    OBVIOUS
  <2>6. writeInProgress /\ ~FrameDone => Len(received) + 1 \in 1..Len(accepted)
    BY <2>2
  <2>7. \A i \in 1..Len(received) : i \in 1..Len(accepted)
    BY <2>2
  <2>8. Len(accepted') = Len(received') + Len(queue')
                         + (IF writeInProgress' /\ ~FrameDone' THEN 1 ELSE 0)
    <3> DEFINE n == IF writeInProgress /\ ~FrameDone THEN 1 ELSE 0
               m == IF writeInProgress' /\ ~FrameDone' THEN 1 ELSE 0
    <3>1. Len(accepted) = Len(received) + Len(queue) + n /\ n \in Nat
      OBVIOUS
    <3>2. m = n /\ received' = received
      BY <2>1, <2>4
    <3> HIDE DEF n, m
    <3>3. Len(accepted) + 1 = Len(received) + (Len(queue) + 1) + n
      BY ONLY <2>2, <3>1
    <3>4. Len(accepted') = Len(received') + Len(queue') + m
      <4>1. /\ Len(accepted') = Len(accepted) + 1 /\ Len(queue') = Len(queue) + 1
            /\ Len(received') = Len(received)
        BY ONLY <2>3, <3>2
      <4> QED
        BY ONLY <2>2, <3>1, <3>2, <3>3, <4>1
    <3> QED
      BY ONLY <3>4 DEF m
  <2>9. ChannelInv'
    <3>1. \A i \in 1..Len(received') : received'[i] = accepted'[i]
      <4>1. received' = received /\ \A i \in 1..Len(received) : received[i] = accepted[i]
        BY <2>1
      <4> QED
        BY ONLY <2>3, <2>7, <4>1
    <3>2. (\E s \in Threads : Busy(s)') => package' = accepted'[Len(received') + 1]
      BY <2>1, <2>3, <2>4, <2>5, <2>6
    <3>3. writeOp'.state # "none" /\ ~FrameDone'
            => currentMessage' = accepted'[Len(received') + 1]
      BY <2>1, <2>3, <2>4, <2>5, <2>6
    <3> QED
      BY <2>3, <2>8, <3>1, <3>2, <3>3
  <2>10. PartialInv'
    BY <2>1, <2>4
  <2> QED
    BY <2>9, <2>10
<1>11. ASSUME NEW t \in Threads, Lock(t) PROVE ChannelInv' /\ PartialInv'
  BY <1>11 DEF Lock, buffer, server, Threads, Callers
<1>12. ASSUME NEW t \in Threads, NothingToDo(t) PROVE ChannelInv' /\ PartialInv'
  BY <1>12 DEF NothingToDo, buffer, server, Threads, Callers
<1>13. ASSUME NEW t \in Threads, TakeNext(t) PROVE ChannelInv' /\ PartialInv'
  <2>1. /\ ~writeInProgress /\ queue # <<>> /\ pc[t] = "locked"
        /\ pc' = [pc EXCEPT ![t] = "encode"]
        /\ package' = Head(queue) /\ queue' = Tail(queue) /\ writeInProgress'
        /\ UNCHANGED <<writeOp, accepted, received, partial, currentMessage>>
    BY <1>13 DEF TakeNext, buffer, server
  <2>2. /\ Len(queue') = Len(queue) - 1 /\ Len(queue) \in Nat \ {0}
        /\ Head(queue) = accepted[Len(accepted) - Len(queue) + 1]
        /\ \A i \in 1..Len(queue') :
             queue'[i] = accepted[Len(accepted) - Len(queue') + i]
    <3>1. /\ queue \in Seq(Package) /\ accepted \in Seq(Package)
          /\ \A i \in 1..Len(queue) : queue[i] = accepted[Len(accepted) - Len(queue) + i]
      OBVIOUS
    <3> QED
      BY ONLY <2>1, <3>1, SuffixTail
  <2>3. writeOp.state = "none" /\ pc[Io] # "written" /\ writeOp' = writeOp /\ ~FrameDone'
    BY <2>1
  <2>4. Len(accepted) = Len(received) + Len(queue) /\ Len(received) \in Nat
    BY <2>1, LenProperties
  <2>5. package' = accepted[Len(received) + 1]
    BY <2>1, <2>2, <2>4
  <2>6. Len(accepted') = Len(received') + Len(queue') + 1
    BY <2>1, <2>2, <2>4
  <2>7. ChannelInv'
    BY <2>1, <2>2, <2>3, <2>5, <2>6
  <2>8. PartialInv'
    BY <2>1, <2>3
  <2> QED
    BY <2>7, <2>8
<1>14. ASSUME NEW t \in Threads, Encode(t) PROVE ChannelInv' /\ PartialInv'
  BY <1>14 DEF Encode, buffer, server, Threads, Callers
<1>15. ASSUME NEW t \in Threads, StartWrite(t) PROVE ChannelInv' /\ PartialInv'
  <2>1. /\ Busy(t) /\ currentMessage = package /\ partial = <<>>
        /\ pc' = [pc EXCEPT ![t] = Return(t)]
        /\ writeOp'.state = "writing" /\ writeOp'.offset = 0 /\ writeOp'.sent = 0
        /\ writeOp'.length = FrameLength[currentMessage]
        /\ UNCHANGED <<queue, accepted, received, partial, writeInProgress, currentMessage, package>>
    BY <1>15 DEF StartWrite, buffer, server, AsyncWrite
  <2>2. FrameLength[currentMessage] \in Nat \ {0}
    BY <1>15, PackageAssumption DEF StartWrite
  <2>3. ~FrameDone /\ ~FrameDone' /\ \A s \in Threads : Busy(s)' => Busy(s)
    BY <2>1, <2>2 DEF Threads, Callers
  <2>4. ChannelInv'
    BY <2>1, <2>3
  <2>5. PartialInv'
    BY <2>1, <2>2, <2>3
  <2> QED
    BY <2>4, <2>5
<1>16. ASSUME NEW t \in Threads, EncodeThrows(t) PROVE ChannelInv' /\ PartialInv'
  BY <1>16 DEF EncodeThrows, buffer, server, Threads, Callers
<1> QED
  BY <1>1, <1>2, <1>3, <1>4, <1>5, <1>6, <1>7, <1>8, <1>9, <1>10, <1>11,
     <1>12, <1>13, <1>14, <1>15, <1>16, StepKinds DEF CoreStep, Transport

-------------------------------------------------------------------------------
(***************************************************************************)
(* The remaining types, the wakeup and what Stop may lose                  *)
(***************************************************************************)
LEMMA DrainStep ==
  TypeOK /\ ChannelInv /\ StopLosesAtMostOne /\ [Next]_vars
    => drained' \in Nat /\ (drained' = drained \/ drained' <= Len(received') + 1)
<1> SUFFICES ASSUME TypeOK, ChannelInv, StopLosesAtMostOne, [Next]_vars
             PROVE  drained' \in Nat /\ (drained' = drained \/ drained' <= Len(received') + 1)
  OBVIOUS
<1>1. drained \in Nat
  BY DEF TypeOK, ChannelTypes
<1>2. CASE QueueSeenEmpty
  <2>1. drained' = Len(accepted) /\ queue = <<>> /\ received' = received
    BY <1>2 DEF QueueSeenEmpty, server
  <2>2. Len(accepted) \in Nat /\ Len(received) \in Nat
    BY LenProperties DEF TypeOK, ChannelTypes
  <2>3. Len(accepted) <= Len(received) + 1
    BY <2>1, <2>2 DEF ChannelInv
  <2> QED
    BY <2>1, <2>2, <2>3
<1>3. CASE Next /\ ~QueueSeenEmpty
  <2>1. drained' = drained
    BY <1>3 DEF Next, Construct, StopStep, IoStep, Transport, PushStep, WriteNextStep, life,
       vars, Terminate,
       Connected, ConnectRefused, ConstructorThrows, CallStop, SetStop,
       QueueSeenNonEmpty, Close, ShutdownThrows, StopService, Join,
       JoinThrows, RunHandler, SendReminder, MessageWritten,
       ClearWriteInProgress, WriteFailed, IoExits, SendUnit,
       WriteCompletes, WriteFails, ConnectionBreaks, SetLoggingMode,
       ReadMode, ReadStop, Enqueue, Log, Lock, NothingToDo, TakeNext,
       Encode, StartWrite, EncodeThrows, EncodeTerminates
  <2> QED
    BY <1>1, <2>1
<1>4. CASE UNCHANGED vars
  BY <1>1, <1>4 DEF vars
<1> QED
  BY <1>2, <1>3, <1>4

LEMMA LifeStep == LifeTypes /\ [Next]_vars => LifeTypes'
<1> SUFFICES ASSUME LifeTypes, [Next]_vars PROVE LifeTypes'
  OBVIOUS
<1> USE BoundAssumption DEF LifeTypes, ELoggingMode, life, flags
<1>1. CASE Connected
  BY <1>1 DEF Connected
<1>2. CASE ConnectRefused
  BY <1>2 DEF ConnectRefused
<1>3. CASE ConstructorThrows
  BY <1>3 DEF ConstructorThrows, Terminate
<1>4. CASE CallStop
  BY <1>4 DEF CallStop
<1>5. CASE SetStop
  BY <1>5 DEF SetStop
<1>6. CASE QueueSeenEmpty
  BY <1>6 DEF QueueSeenEmpty
<1>7. CASE QueueSeenNonEmpty
  BY <1>7 DEF QueueSeenNonEmpty, vars
<1>8. CASE Close
  BY <1>8 DEF Close
<1>9. CASE ShutdownThrows
  BY <1>9 DEF ShutdownThrows, Terminate
<1>10. CASE StopService
  BY <1>10 DEF StopService
<1>11. CASE Join
  BY <1>11 DEF Join
<1>12. CASE JoinThrows
  BY <1>12 DEF JoinThrows, Terminate
<1>13. CASE RunHandler
  BY <1>13 DEF RunHandler
<1>14. CASE SendReminder
  BY <1>14 DEF SendReminder
<1>15. CASE MessageWritten
  BY <1>15 DEF MessageWritten
<1>16. CASE ClearWriteInProgress
  BY <1>16 DEF ClearWriteInProgress
<1>17. CASE WriteFailed
  BY <1>17 DEF WriteFailed
<1>18. CASE IoExits
  BY <1>18 DEF IoExits
<1>19. CASE SendUnit
  BY <1>19 DEF SendUnit
<1>20. CASE WriteCompletes
  BY <1>20 DEF WriteCompletes
<1>21. CASE WriteFails
  BY <1>21 DEF WriteFails
<1>22. CASE ConnectionBreaks
  BY <1>22 DEF ConnectionBreaks
<1>23. CASE SetLoggingMode
  BY <1>23 DEF SetLoggingMode
<1>24. ASSUME NEW t \in Callers, ReadMode(t) PROVE LifeTypes'
  BY <1>24 DEF ReadMode
<1>25. ASSUME NEW t \in Callers, ReadStop(t) PROVE LifeTypes'
  BY <1>25 DEF ReadStop
<1>26. ASSUME NEW t \in Callers, Enqueue(t) PROVE LifeTypes'
  BY <1>26 DEF Enqueue
<1>27. ASSUME NEW t \in Producers, Log(t) PROVE LifeTypes'
  BY <1>27 DEF Log
<1>28. ASSUME NEW t \in Threads, Lock(t) PROVE LifeTypes'
  BY <1>28 DEF Lock
<1>29. ASSUME NEW t \in Threads, NothingToDo(t) PROVE LifeTypes'
  BY <1>29 DEF NothingToDo
<1>30. ASSUME NEW t \in Threads, TakeNext(t) PROVE LifeTypes'
  BY <1>30 DEF TakeNext
<1>31. ASSUME NEW t \in Threads, Encode(t) PROVE LifeTypes'
  BY <1>31 DEF Encode
<1>32. ASSUME NEW t \in Threads, StartWrite(t) PROVE LifeTypes'
  BY <1>32 DEF StartWrite
<1>33. ASSUME NEW t \in Threads, EncodeThrows(t) PROVE LifeTypes'
  BY <1>33 DEF EncodeThrows
<1>34. ASSUME NEW t \in Threads, EncodeTerminates(t) PROVE LifeTypes'
  BY <1>34 DEF EncodeTerminates, Terminate
<1>35. CASE UNCHANGED vars
  BY <1>35 DEF vars
<1> QED
  BY <1>1, <1>2, <1>3, <1>4, <1>5, <1>6, <1>7, <1>8, <1>9, <1>10, <1>11,
     <1>12, <1>13, <1>14, <1>15, <1>16, <1>17, <1>18, <1>19, <1>20, <1>21,
     <1>22, <1>23, <1>24, <1>25, <1>26, <1>27, <1>28, <1>29, <1>30, <1>31,
     <1>32, <1>33, <1>34, <1>35
  DEF Next, Construct, StopStep, IoStep, Transport, PushStep, WriteNextStep

LEMMA ChannelTypesStep ==
  TypeOK /\ PushInv /\ WriterInv /\ [Next]_vars
    => /\ queue' \in Seq(Package) /\ accepted' \in Seq(Package)
       /\ partial' \in Seq(Unit) /\ received' \in Seq(Package \cup {Garbled})
       /\ Len(received') >= Len(received)
<1> DEFINE Goal == /\ queue' \in Seq(Package) /\ accepted' \in Seq(Package)
                   /\ partial' \in Seq(Unit) /\ received' \in Seq(Package \cup {Garbled})
                   /\ Len(received') >= Len(received)
<1> SUFFICES ASSUME TypeOK, PushInv, WriterInv, [Next]_vars PROVE Goal
  OBVIOUS
<1>0. /\ queue \in Seq(Package) /\ accepted \in Seq(Package)
      /\ partial \in Seq(Unit) /\ received \in Seq(Package \cup {Garbled})
      /\ Len(received) \in Nat
  BY LenProperties DEF TypeOK, ChannelTypes
<1>1. CASE UNCHANGED <<queue, accepted, server>>
  BY <1>0, <1>1 DEF server
<1>2. ASSUME NEW t \in Callers, Enqueue(t) PROVE Goal
  <2>1. pkg[t] \in Package
    BY <1>2 DEF Enqueue, PushInv
  <2> QED
    BY <1>0, <1>2, <2>1, AppendProperties DEF Enqueue, server
<1>3. ASSUME NEW t \in Threads, TakeNext(t) PROVE Goal
  BY <1>0, <1>3, HeadTailProperties DEF TakeNext, server
<1>4. CASE SendUnit
  <2> DEFINE unit == <<currentMessage, writeOp.offset + writeOp.sent + 1>>
             frame == Append(partial, unit)
             intact == \A i \in DOMAIN frame : frame[i] = <<frame[1][1], i>>
             p == IF intact THEN frame[1][1] ELSE Garbled
  <2>1. /\ queue' = queue /\ accepted' = accepted
        /\ \/ received' = Append(received, p) /\ partial' = <<>>
           \/ received' = received /\ partial' = frame
    BY <1>4 DEF SendUnit
  <2>2. currentMessage \in Package /\ writeOp.offset \in Nat /\ writeOp.sent \in Nat
    BY <1>4 DEF SendUnit, WriterInv, TypeOK, WriteTypes
  <2>3. unit \in Unit
    BY <2>2 DEF Unit
  <2>4. /\ frame \in Seq(Unit) /\ Len(frame) \in Nat \ {0} /\ frame[1] \in Unit
    <3> HIDE DEF unit
    <3>1. frame \in Seq(Unit) /\ Len(frame) = Len(partial) + 1 /\ Len(partial) \in Nat
      BY <1>0, <2>3, AppendProperties, LenProperties
    <3> HIDE DEF frame
    <3>2. 1 \in 1..Len(frame)
      BY <3>1
    <3> QED
      BY <3>1, <3>2, ElementOfSeq
  <2>5. p \in Package \cup {Garbled}
    BY <2>4 DEF Unit
  <2> HIDE DEF p, frame
  <2>6. <<>> \in Seq(Unit)
    BY EmptySeq
  <2>7. CASE received' = Append(received, p) /\ partial' = <<>>
    <3>1. /\ Append(received, p) \in Seq(Package \cup {Garbled})
          /\ Len(Append(received, p)) = Len(received) + 1
      BY <1>0, <2>5, AppendProperties
    <3> QED
      BY <1>0, <2>1, <2>6, <2>7, <3>1
  <2>8. CASE received' = received /\ partial' = frame
    BY <1>0, <2>1, <2>4, <2>8
  <2> QED
    BY <2>1, <2>7, <2>8
<1>5. CASE QuietStep
  BY <1>0, <1>5 DEF QuietStep, coreVars, server
<1>6. CASE CoreStep
  <2>1. \/ UNCHANGED <<queue, accepted, server>>
        \/ SendUnit
        \/ \E t \in Callers : Enqueue(t)
        \/ \E t \in Threads : TakeNext(t)
    BY <1>6 DEF CoreStep, Transport, RunHandler, SendReminder, MessageWritten,
       ClearWriteInProgress, WriteFailed, WriteCompletes, WriteFails, Lock, NothingToDo,
       Encode, StartWrite, EncodeThrows
  <2> QED
    BY <1>1, <1>2, <1>3, <1>4, <2>1
<1> QED
  BY <1>5, <1>6, StepKinds DEF TypeOK

LEMMA WakeupStep ==
  TypeOK /\ MutexInv /\ WriterInv /\ NoLostWakeup /\ [Next]_vars => NoLostWakeup'
<1> SUFFICES ASSUME TypeOK, MutexInv, WriterInv, NoLostWakeup, [Next]_vars
             PROVE  NoLostWakeup'
  OBVIOUS
<1> USE ThreadsAssumption
    DEF TypeOK, ThreadTypes, WriteTypes, MutexInv, WriterInv, NoLostWakeup, Busy, Goto, Return
<1>1. CASE QuietStep
  BY <1>1 DEF QuietStep, CoreLabels, coreVars
<1>2. CASE RunHandler
  BY <1>2 DEF RunHandler, Threads, Callers
<1>3. CASE SendReminder
  BY <1>3 DEF SendReminder, Threads, Callers
<1>4. CASE MessageWritten
  BY <1>4 DEF MessageWritten, Threads, Callers
<1>5. CASE ClearWriteInProgress
  BY <1>5 DEF ClearWriteInProgress, Threads, Callers
<1>6. CASE WriteFailed
  BY <1>6 DEF WriteFailed, Threads, Callers
<1>7. CASE SendUnit
  BY <1>7 DEF SendUnit, Threads, Callers
<1>8. CASE WriteCompletes
  BY <1>8 DEF WriteCompletes, Threads, Callers
<1>9. CASE WriteFails
  BY <1>9 DEF WriteFails, Threads, Callers
<1>10. ASSUME NEW t \in Callers, Enqueue(t) PROVE NoLostWakeup'
  BY <1>10 DEF Enqueue, Threads, Callers
<1>11. ASSUME NEW t \in Threads, Lock(t) PROVE NoLostWakeup'
  BY <1>11 DEF Lock, Threads, Callers
<1>12. ASSUME NEW t \in Threads, NothingToDo(t) PROVE NoLostWakeup'
  BY <1>12 DEF NothingToDo, Threads, Callers
<1>13. ASSUME NEW t \in Threads, TakeNext(t) PROVE NoLostWakeup'
  BY <1>13 DEF TakeNext, Threads, Callers
<1>14. ASSUME NEW t \in Threads, Encode(t) PROVE NoLostWakeup'
  BY <1>14 DEF Encode, Threads, Callers
<1>15. ASSUME NEW t \in Threads, StartWrite(t) PROVE NoLostWakeup'
  BY <1>15 DEF StartWrite, Threads, Callers
<1>16. ASSUME NEW t \in Threads, EncodeThrows(t) PROVE NoLostWakeup'
  BY <1>16 DEF EncodeThrows, Threads, Callers
<1> QED
  BY <1>1, <1>2, <1>3, <1>4, <1>5, <1>6, <1>7, <1>8, <1>9, <1>10, <1>11,
     <1>12, <1>13, <1>14, <1>15, <1>16, StepKinds DEF CoreStep, Transport

LEMMA InvStep == IInv /\ [Next]_vars => IInv'
<1> SUFFICES ASSUME IInv, [Next]_vars PROVE IInv'
  OBVIOUS
<1>1. /\ TypeOK /\ MutexInv /\ PushInv /\ WriterInv /\ ChannelInv /\ PartialInv
      /\ NoLostWakeup /\ StopLosesAtMostOne /\ ThreadTypes /\ WriteTypes /\ LifeTypes
  BY DEF IInv, TypeOK
<1>2. /\ ThreadTypes' /\ PushInv' /\ MutexInv' /\ WriteTypes' /\ WriterInv'
      /\ ChannelInv' /\ PartialInv' /\ NoLostWakeup' /\ LifeTypes'
  BY <1>1, ThreadStep, MutexStep, WriterStep, ChannelStep, WakeupStep, LifeStep
<1>3. ChannelTypes'
  BY <1>1, ChannelTypesStep, DrainStep DEF ChannelTypes
<1>4. StopLosesAtMostOne'
  <2>1. Len(received) \in Nat /\ Len(received') \in Nat /\ drained \in Nat
    BY <1>1, <1>3, LenProperties DEF TypeOK, ChannelTypes
  <2>2. Len(received') >= Len(received)
    BY <1>1, ChannelTypesStep
  <2>3. drained' = drained \/ drained' <= Len(received') + 1
    BY <1>1, DrainStep
  <2>4. drained <= Len(received) + 1
    BY <1>1, <2>1 DEF StopLosesAtMostOne
  <2> QED
    BY <1>3, <2>1, <2>2, <2>3, <2>4 DEF StopLosesAtMostOne, ChannelTypes
<1> QED
  BY <1>2, <1>3, <1>4 DEF IInv, TypeOK

(***************************************************************************)
(* The inductive invariant holds in every reachable state.                 *)
(***************************************************************************)
THEOREM Invariance == Spec => []IInv
<1> QED
  BY InvInit, InvStep, PTL DEF Spec

-------------------------------------------------------------------------------
\* Every variable keeps its type.
THEOREM TypeCorrect == Spec => []TypeOK
<1>1. IInv => TypeOK
  BY DEF IInv
<1> QED
  BY Invariance, <1>1, PTL

\* The reads WriteHandler makes without m_mutex never meet a thread that
\* changes what they read.
THEOREM UnlockedReadsAreSafe == Spec => []UnlockedReadsSafe
<1>1. IInv => UnlockedReadsSafe
  BY ThreadsAssumption DEF IInv, TypeOK, ThreadTypes, MutexInv, WriterInv, UnlockedReadsSafe, Busy
<1> QED
  BY Invariance, <1>1, PTL

\* No package is left in the queue with nobody about to write it.
THEOREM NoWakeupIsLost == Spec => []NoLostWakeup
<1>1. IInv => NoLostWakeup
  BY DEF IInv
<1> QED
  BY Invariance, <1>1, PTL

\* Accepted packages reach the server once, whole and in order, at most one at
\* a time on its way.
THEOREM ChannelIsFIFO == Spec => []FirstInFirstOut
<1>1. IInv => FirstInFirstOut
  <2> SUFFICES ASSUME IInv PROVE FirstInFirstOut
    OBVIOUS
  <2>1. Len(received) \in Nat /\ Len(queue) \in Nat /\ Len(accepted) \in Nat
    BY LenProperties DEF IInv, TypeOK, ChannelTypes
  <2>2. Len(accepted) = Len(received) + Len(queue)
                        + (IF writeInProgress /\ ~FrameDone THEN 1 ELSE 0)
    BY DEF IInv, ChannelInv
  <2>3. InFlight \in {0, 1} /\ (InFlight = 1 => writeInProgress)
    BY <2>1, <2>2 DEF InFlight
  <2> QED
    BY <2>3 DEF IInv, ChannelInv, FirstInFirstOut
<1> QED
  BY Invariance, <1>1, PTL

\* An unfinished frame at the server is a beginning of the package being sent.
THEOREM FramesStayIntact == Spec => []FrameIntact
<1>1. IInv => FrameIntact
  BY DEF IInv, PartialInv
<1> QED
  BY Invariance, <1>1, PTL

\* Stop gives up at most one package of those accepted before it saw the queue
\* empty.
THEOREM StopDrains == Spec => []StopLosesAtMostOne
<1>1. IInv => StopLosesAtMostOne
  BY DEF IInv
<1> QED
  BY Invariance, <1>1, PTL

-------------------------------------------------------------------------------
(***************************************************************************)
(* A wedged client, and the abstract channel                               *)
(***************************************************************************)
LEMMA WedgedStep ==
  IInv /\ Wedged /\ [Next]_vars
    => Wedged' /\ UNCHANGED server /\ Len(queue') >= Len(queue)
<1> DEFINE Goal == Wedged' /\ UNCHANGED server /\ Len(queue') >= Len(queue)
<1> SUFFICES ASSUME IInv, Wedged, [Next]_vars PROVE Goal
  OBVIOUS
<1>0. /\ TypeOK /\ MutexInv /\ PushInv /\ WriterInv /\ ThreadTypes
      /\ queue \in Seq(Package) /\ Len(queue) \in Nat
  BY LenProperties DEF IInv, TypeOK, ChannelTypes
<1> USE <1>0, ThreadsAssumption DEF ThreadTypes, Wedged, Busy, Goto, Return
<1>1. CASE QuietStep
  <2>1. UNCHANGED <<writeInProgress, writeOp, queue>> /\ UNCHANGED server
    BY <1>1 DEF QuietStep, coreVars
  <2>2. pc'[Io] # "written" /\ \A t \in Threads : pc'[t] \notin {"encode", "send"}
    BY <1>1 DEF QuietStep, CoreLabels, Threads
  <2> QED
    BY <2>1, <2>2
<1>2. CASE RunHandler
  BY <1>2 DEF RunHandler, server
<1>3. CASE WriteFailed
  BY <1>3 DEF WriteFailed, NoOp, server
<1>4. CASE SendReminder \/ MessageWritten \/ ClearWriteInProgress \/ Transport
  BY <1>4 DEF SendReminder, MessageWritten, ClearWriteInProgress, Transport, SendUnit,
     WriteCompletes, WriteFails
<1>5. ASSUME NEW t \in Callers, Enqueue(t) PROVE Goal
  <2>1. pkg[t] \in Package
    BY <1>5 DEF Enqueue, PushInv
  <2>2. Len(queue') = Len(queue) + 1
    BY <1>5, <2>1, AppendProperties DEF Enqueue
  <2>3. Wedged' /\ UNCHANGED server
    BY <1>5 DEF Enqueue, server, Threads, Callers
  <2> QED
    BY <2>2, <2>3
<1>6. ASSUME NEW t \in Threads, Lock(t) \/ NothingToDo(t) PROVE Goal
  <2>1. UNCHANGED <<writeInProgress, writeOp, queue>> /\ UNCHANGED server
    BY <1>6 DEF Lock, NothingToDo
  <2>2. pc' = [pc EXCEPT ![t] = "locked"] \/ pc' = [pc EXCEPT ![t] = Return(t)]
    BY <1>6 DEF Lock, NothingToDo
  <2>3. Return(t) \notin {"written", "encode", "send"}
    BY DEF Threads, Callers
  <2>4. pc'[Io] # "written" /\ \A s \in Threads : pc'[s] \notin {"encode", "send"}
    BY <2>2, <2>3 DEF Threads
  <2> QED
    BY <2>1, <2>4
<1>7. ASSUME NEW t \in Threads,
             TakeNext(t) \/ Encode(t) \/ StartWrite(t) \/ EncodeThrows(t)
      PROVE  Goal
  BY <1>7 DEF TakeNext, Encode, StartWrite, EncodeThrows
<1> HIDE DEF Goal
<1> QED
  BY <1>1, <1>2, <1>3, <1>4, <1>5, <1>6, <1>7, StepKinds DEF CoreStep

\* After a failed write or an exception while encoding nothing more reaches the
\* server, whatever is called: the client is cut off for good.
THEOREM WedgedStaysWedged == Spec => WedgedForGood
<1>1. IInv /\ [Next]_vars
        => [Wedged => Wedged' /\ UNCHANGED server /\ Len(queue') >= Len(queue)]_vars
  BY WedgedStep
<1> QED
  BY Invariance, <1>1, PTL DEF Spec, WedgedForGood

LEMMA ChannelInit == Init => Channel!Init
BY DEF Init, Channel!Init, Wedged

LEMMA ChannelSimulation ==
  IInv /\ [Next]_vars => [Channel!Next]_(Channel!channelVars)
<1> SUFFICES ASSUME IInv, [Next]_vars PROVE [Channel!Next]_(Channel!channelVars)
  OBVIOUS
<1> USE DEF Channel!Next, Channel!channelVars
<1>0. TypeOK /\ PushInv /\ WriterInv /\ ChannelInv /\ PartialInv /\ ThreadTypes
  BY DEF IInv, TypeOK
<1>1. Wedged \in BOOLEAN /\ Wedged' \in BOOLEAN
  BY DEF Wedged
<1>2. Wedged => Wedged'
  BY WedgedStep
<1>3. CASE UNCHANGED <<accepted, received>>
  <2>1. CASE Wedged' = Wedged
    BY <1>3, <2>1
  <2>2. CASE Wedged' # Wedged
    <3>1. Wedged' = TRUE
      BY <1>1, <1>2, <2>2
    <3> QED
      BY <1>3, <3>1 DEF Channel!Cut
  <2> QED
    BY <2>1, <2>2
<1>4. ASSUME NEW t \in Callers, Enqueue(t) PROVE [Channel!Next]_(Channel!channelVars)
  <2>1. pkg[t] \in Package /\ accepted' = Append(accepted, pkg[t]) /\ received' = received
    BY <1>0, <1>4 DEF Enqueue, PushInv, server
  <2>2. Wedged' <=> Wedged
    BY <1>0, <1>4, ThreadsAssumption DEF Enqueue, Wedged, Goto, ThreadTypes, Threads, Callers
  <2>3. Wedged' = Wedged
    BY <1>1, <2>2
  <2>4. Channel!Accept
    BY <2>1, <2>3 DEF Channel!Accept
  <2> QED
    BY <2>4
<1>5. CASE SendUnit
  <2>1. ~Wedged /\ ~Wedged'
    BY <1>5 DEF SendUnit, Wedged
  <2>2. CASE received' = received
    BY <1>3, <1>5, <2>2 DEF SendUnit
  <2>3. CASE received' # received
    <3>1. /\ writeOp.state = "writing" /\ writeInProgress /\ ~FrameDone
          /\ writeOp.offset \in Nat /\ writeOp.sent \in Nat
          /\ UNCHANGED accepted
      BY <1>0, <1>5 DEF SendUnit, WriterInv, FrameDone, TypeOK, WriteTypes
    <3>2. /\ Len(received) \in Nat /\ Len(queue) \in Nat /\ Len(accepted) \in Nat
          /\ received \in Seq(Package \cup {Garbled})
      BY <1>0, LenProperties DEF TypeOK, ChannelTypes
    <3>3. Len(accepted) = Len(received) + Len(queue) + 1
      BY <1>0, <3>1 DEF ChannelInv
    <3>4. ChannelInv'
      BY <1>0, ChannelStep DEF IInv
    <3>5. \E p : received' = Append(received, p)
      BY <1>5, <2>3 DEF SendUnit
    <3>6. PICK p : received' = Append(received, p)
      BY <3>5
    <3>7. received' \in Seq(Package \cup {Garbled})
      BY <1>0, ChannelTypesStep
    <3>8. /\ Len(received') = Len(received) + 1 /\ received'[Len(received) + 1] = p
      BY <3>2, <3>6
    <3>9. p = accepted[Len(received) + 1]
      BY <3>1, <3>2, <3>4, <3>8 DEF ChannelInv
    <3>10. Wedged' = Wedged /\ Wedged = FALSE
      BY <1>1, <2>1
    <3>11. Channel!Deliver
      BY <3>1, <3>2, <3>3, <3>6, <3>9, <3>10 DEF Channel!Deliver
    <3> QED
      BY <3>11
  <2> QED
    BY <2>2, <2>3
<1>6. CASE QuietStep
  BY <1>3, <1>6 DEF QuietStep, coreVars, server
<1>7. CASE CoreStep
  <2>1. \/ UNCHANGED <<accepted, received>>
        \/ SendUnit
        \/ \E t \in Callers : Enqueue(t)
    BY <1>7 DEF CoreStep, Transport, RunHandler, SendReminder, MessageWritten,
       ClearWriteInProgress, WriteFailed, WriteCompletes, WriteFails, Lock, NothingToDo,
       TakeNext, Encode, StartWrite, EncodeThrows, server
  <2> QED
    BY <1>3, <1>4, <1>5, <2>1
<1> QED
  BY <1>0, <1>6, <1>7, StepKinds

\* CLogClient implements the abstract FIFO channel, cut when it is wedged.
THEOREM RefinesChannel == Spec => ImplementsChannel
<1> QED
  BY Invariance, ChannelInit, ChannelSimulation, PTL DEF Spec, ImplementsChannel, Channel!Spec

===============================================================================
