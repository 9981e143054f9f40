------------------------------- MODULE LogClient -------------------------------
(***************************************************************************)
(* CLogClient (logclient/LogClient.cpp): threads of the program push log   *)
(* packages, one asynchronous write at a time carries them to the logger   *)
(* server.  Main is the thread that constructs and stops the client, Io    *)
(* the thread that runs m_ioService, the Producers are the threads that    *)
(* log.  A call of CLockQueue (utils/lockqueue.h) is one atomic step here; *)
(* module LockQueue shows that it may be.                                  *)
(***************************************************************************)
EXTENDS Naturals, Sequences

CONSTANTS
  Producers,      \* threads that log
  Main, Io,       \* the constructing thread and the thread of m_ioService
  NoThread,       \* the owner of a free mutex
  ChangeFile,     \* the package of OpenNewLogFile (eChangeFile)
  StopPackage,    \* the package of CloseLogFile (eStop)
  NoPackage,      \* an empty m_currentMessage
  Garbled,        \* what the server makes of a frame that is not one package
  MaxCalls,       \* bound: log messages of one producer
  MaxStops,       \* bound: calls of Stop (one by the program, one by ~CLogClient)
  Retry,          \* "retry" of the configuration
  FrameLength,    \* number of transfers the transport needs for a package's frame
  Oversized,      \* packages make_flap_package refuses ("Overflow SNAC size")
  OpensFile,      \* the logging channel is not LOG_INTERNAL_CHANNEL
  Faulty,         \* connecting can fail and the connection can break
  ShortWrites,    \* a write may complete with a part of its buffer
  SettableModes   \* modes another part of the program sets with LoggingMode(mode)

Callers == Producers \cup {Main}
Threads == Callers \cup {Io}
Message == Producers \X (1..MaxCalls)      \* the n-th message a producer logs
Package == Message \cup {ChangeFile, StopPackage}
ELoggingMode == {"eLoggingToServer", "eNoLogging"}

ASSUME ThreadsAssumption ==
  /\ Main # Io /\ Main \notin Producers /\ Io \notin Producers
  /\ NoThread \notin Threads
ASSUME PackageAssumption ==
  /\ ChangeFile # StopPackage
  /\ {ChangeFile, StopPackage} \cap Message = {}
  /\ NoPackage \notin Package /\ Garbled \notin Package
  /\ Oversized \subseteq Message
  /\ FrameLength \in [Package -> Nat \ {0}]
ASSUME BoundAssumption ==
  /\ MaxCalls \in Nat /\ MaxStops \in Nat /\ Retry \in Nat
  /\ OpensFile \in BOOLEAN /\ Faulty \in BOOLEAN /\ ShortWrites \in BOOLEAN
  /\ SettableModes \subseteq ELoggingMode

VARIABLES
  pc,                 \* where each thread is
  pkg,                \* each caller's argument of Push
  calls,              \* how many messages each producer has logged
  queue,              \* m_queue
  mutex,              \* the owner of m_mutex
  writeInProgress, stopInProgress, loggingMode, currentMessage, transferred,
  package,            \* the package the owner of m_mutex took from the queue
  writeOp,            \* the outstanding async_write
  link,               \* m_socket: "closed", "connected" or "broken"
  ioStopped,          \* m_ioService.stop() was called
  joined,             \* m_thread was joined
  terminated,         \* std::terminate ended the process
  attempts, stops,    \* calls of Connect and of Stop
  accepted,           \* history: every package ever put into m_queue
  drained,            \* history: Len(accepted) when WaitQueueEmpty returned
  partial,            \* the units of an unfinished frame the server holds
  received            \* the packages the server has reassembled

vars == <<pc, pkg, calls, queue, mutex, writeInProgress, stopInProgress,
          loggingMode, currentMessage, transferred, package, writeOp, link,
          ioStopped, joined, terminated, attempts, stops, accepted, drained,
          partial, received>>

flags == <<stopInProgress, loggingMode>>
buffer == <<currentMessage, transferred>>
server == <<partial, received>>
life == <<ioStopped, joined, attempts, stops, drained>>
args == <<pkg, calls>>
channel == <<queue, accepted>>
lock == <<mutex, writeInProgress>>
message == <<buffer, package, writeOp>>
program == <<life, link, terminated>>

NoOp == [state |-> "none", offset |-> 0, length |-> 0, sent |-> 0]
AsyncWrite(offset, length) ==
  [state |-> "writing", offset |-> offset, length |-> length, sent |-> 0]

(***************************************************************************)
(* Where a thread goes on when Push (or, for Io, WriteNextMessage) returns *)
(***************************************************************************)
Return(t) ==
  CASE t \in Producers -> "idle"
    [] t = Io -> "poll"
    [] t = Main -> IF pkg[Main] = StopPackage THEN "setStop" ELSE "run"

Goto(t, label) == pc' = [pc EXCEPT ![t] = label]

Init ==
  /\ pc = [t \in Threads |-> IF t = Main THEN "connect"
                             ELSE IF t = Io THEN "poll" ELSE "idle"]
  /\ pkg = [t \in Callers |-> NoPackage]
  /\ calls = [t \in Producers |-> 0]
  /\ queue = <<>>
  /\ mutex = NoThread
  /\ writeInProgress = FALSE
  /\ stopInProgress = FALSE
  /\ loggingMode = "eNoLogging"
  /\ currentMessage = NoPackage
  /\ transferred = 0
  /\ package = NoPackage
  /\ writeOp = NoOp
  /\ link = "closed"
  /\ ioStopped = FALSE /\ joined = FALSE /\ terminated = FALSE
  /\ attempts = 0 /\ stops = 0 /\ drained = 0
  /\ accepted = <<>>
  /\ partial = <<>> /\ received = <<>>

Terminate ==
  /\ terminated' = TRUE
  /\ UNCHANGED <<pc, args, channel, lock, flags, message, life, link, server>>

-------------------------------------------------------------------------------
(***************************************************************************)
(* The constructor: connect, then open a log file                          *)
(***************************************************************************)
Constructed == pc[Main] # "connect" /\ ~(pkg[Main] = ChangeFile /\ pc[Main] # "run")

Connected ==
  /\ pc[Main] = "connect"
  /\ link' = "connected"
  /\ loggingMode' = "eLoggingToServer"
  /\ attempts' = attempts + 1
  /\ pkg' = [pkg EXCEPT ![Main] = IF OpensFile THEN ChangeFile ELSE @]
  /\ Goto(Main, IF OpensFile THEN "readMode" ELSE "run")
  /\ UNCHANGED <<calls, channel, lock, stopInProgress, message, ioStopped,
                 joined, stops, drained, terminated, server>>

\* one more attempt
ConnectRefused ==
  /\ Faulty /\ pc[Main] = "connect" /\ attempts + 1 < Retry
  /\ attempts' = attempts + 1
  /\ UNCHANGED <<pc, args, channel, lock, flags, message, ioStopped, joined,
                 stops, drained, link, terminated, server>>

\* the attempts are used up, or resolve throws: m_thread is joinable when the
\* members are destroyed
ConstructorThrows == Faulty /\ pc[Main] = "connect" /\ Terminate

-------------------------------------------------------------------------------
(***************************************************************************)
(* Push: the two unprotected reads, the queue, then WriteNextMessage       *)
(***************************************************************************)
Log(t) ==
  /\ t \in Producers /\ pc[t] = "idle" /\ Constructed
  /\ calls[t] < MaxCalls
  /\ calls' = [calls EXCEPT ![t] = @ + 1]
  /\ pkg' = [pkg EXCEPT ![t] = <<t, calls[t] + 1>>]
  /\ Goto(t, "readMode")
  /\ UNCHANGED <<channel, lock, flags, message, program, server>>

ReadMode(t) ==
  /\ pc[t] = "readMode"
  /\ Goto(t, IF loggingMode = "eLoggingToServer" THEN "readStop" ELSE Return(t))
  /\ UNCHANGED <<args, channel, lock, flags, message, program, server>>

ReadStop(t) ==
  /\ pc[t] = "readStop"
  /\ Goto(t, IF stopInProgress THEN Return(t) ELSE "enqueue")
  /\ UNCHANGED <<args, channel, lock, flags, message, program, server>>

Enqueue(t) ==
  /\ pc[t] = "enqueue"
  /\ queue' = Append(queue, pkg[t])
  /\ accepted' = Append(accepted, pkg[t])
  /\ Goto(t, "writeNext")
  /\ UNCHANGED <<args, lock, flags, message, program, server>>

-------------------------------------------------------------------------------
(***************************************************************************)
(* WriteNextMessage, run by a caller of Push or by Io                      *)
(***************************************************************************)
\* slips: a write in progress is overlooked; the last package is left alone
MessageWaits == queue # <<>>
TwoMessagesToWrite == ~writeInProgress /\ Len(queue) > 1
MessageToWrite == ~writeInProgress /\ queue # <<>>

Lock(t) ==
  /\ pc[t] = "writeNext" /\ mutex = NoThread
  /\ mutex' = t
  /\ Goto(t, "locked")
  /\ UNCHANGED <<args, channel, writeInProgress, flags, message, program, server>>

NothingToDo(t) ==
  /\ pc[t] = "locked" /\ ~MessageToWrite
  /\ mutex' = NoThread
  /\ Goto(t, Return(t))
  /\ UNCHANGED <<args, channel, writeInProgress, flags, message, program, server>>

TakeNext(t) ==
  /\ pc[t] = "locked" /\ MessageToWrite
  /\ package' = Head(queue)
  /\ queue' = Tail(queue)
  /\ writeInProgress' = TRUE
  /\ Goto(t, "encode")
  /\ UNCHANGED <<args, accepted, mutex, flags, buffer, writeOp, program, server>>

Encode(t) ==
  /\ pc[t] = "encode" /\ package \notin Oversized
  /\ currentMessage' = package
  /\ transferred' = 0
  /\ Goto(t, "send")
  /\ UNCHANGED <<args, channel, lock, flags, package, writeOp, program, server>>

\* make_flap_package throws with m_writeInProgress set: ~CLogMessageBuilder
\* swallows a producer's exception
EncodeThrows(t) ==
  /\ t \in Producers /\ pc[t] = "encode" /\ package \in Oversized
  /\ mutex' = NoThread
  /\ Goto(t, "idle")
  /\ UNCHANGED <<args, channel, writeInProgress, flags, message, program, server>>

\* nobody catches it in the io thread, nor in the constructor and ~CLogClient
EncodeTerminates(t) ==
  /\ t \in {Main, Io} /\ pc[t] = "encode" /\ package \in Oversized
  /\ Terminate

StartWrite(t) ==
  /\ pc[t] = "send"
  /\ writeOp' = AsyncWrite(0, FrameLength[currentMessage])
  /\ mutex' = NoThread
  /\ Goto(t, Return(t))
  /\ UNCHANGED <<args, channel, writeInProgress, flags, buffer, package,
                 program, server>>

-------------------------------------------------------------------------------
(***************************************************************************)
(* The transport and the server (external): units of the buffer the write  *)
(* was started with leave one by one and are reassembled by frame length   *)
(***************************************************************************)
SendUnit ==
  /\ writeOp.state = "writing" /\ link = "connected" /\ writeOp.sent < writeOp.length
  /\ writeOp' = [writeOp EXCEPT !.sent = @ + 1]
  /\ LET frame == Append(partial, <<currentMessage, writeOp.offset + writeOp.sent + 1>>)
         first == frame[1][1]
         intact == \A i \in DOMAIN frame : frame[i] = <<first, i>>
     IN IF Len(frame) = FrameLength[first]
        THEN /\ received' = Append(received, IF intact THEN first ELSE Garbled)
             /\ partial' = <<>>
        ELSE partial' = frame /\ UNCHANGED received
  /\ UNCHANGED <<pc, args, channel, lock, flags, buffer, package, program>>

WriteCompletes ==
  /\ writeOp.state = "writing"
  /\ \/ writeOp.sent = writeOp.length
     \/ ShortWrites /\ writeOp.sent > 0
  /\ writeOp' = [writeOp EXCEPT !.state = "done"]
  /\ UNCHANGED <<pc, args, channel, lock, flags, buffer, package, program, server>>

WriteFails ==
  /\ writeOp.state = "writing" /\ link # "connected" /\ writeOp.sent < writeOp.length
  /\ writeOp' = [writeOp EXCEPT !.state = "failed"]
  /\ UNCHANGED <<pc, args, channel, lock, flags, buffer, package, program, server>>

ConnectionBreaks ==
  /\ Faulty /\ link = "connected"
  /\ link' = "broken"
  /\ UNCHANGED <<pc, args, channel, lock, flags, message, life, terminated, server>>

-------------------------------------------------------------------------------
(***************************************************************************)
(* The io thread: ThreadLogClient and WriteHandler                         *)
(***************************************************************************)
RunHandler ==
  /\ pc[Io] = "poll" /\ ~ioStopped
  /\ writeOp.state \in {"done", "failed"}
  /\ Goto(Io, "handler")
  /\ UNCHANGED <<args, channel, lock, flags, message, program, server>>

\* slips: <= for <; a short write is taken for the whole message
AtMostAll(sent) == sent <= FrameLength[currentMessage]
NeverUnfinished(sent) == FALSE
Unfinished(sent) == sent < FrameLength[currentMessage]

SendReminder ==
  /\ pc[Io] = "handler" /\ writeOp.state = "done"
  /\ Unfinished(transferred + writeOp.sent)
  /\ transferred' = transferred + writeOp.sent
  /\ writeOp' = AsyncWrite(transferred', FrameLength[currentMessage] - transferred')
  /\ Goto(Io, "poll")
  /\ UNCHANGED <<args, channel, lock, flags, currentMessage, package, program, server>>

MessageWritten ==
  /\ pc[Io] = "handler" /\ writeOp.state = "done"
  /\ ~Unfinished(transferred + writeOp.sent)
  /\ transferred' = transferred + writeOp.sent
  /\ writeOp' = NoOp
  /\ Goto(Io, "written")
  /\ UNCHANGED <<args, channel, lock, flags, currentMessage, package, program, server>>

\* the inner block of WriteHandler: lock, clear, unlock
ClearWriteInProgress ==
  /\ pc[Io] = "written" /\ mutex = NoThread
  /\ writeInProgress' = FALSE
  /\ Goto(Io, "writeNext")
  /\ UNCHANGED <<args, channel, mutex, flags, message, program, server>>

WriteFailed ==
  /\ pc[Io] = "handler" /\ writeOp.state = "failed"
  /\ loggingMode' = "eNoLogging"
  /\ writeOp' = NoOp
  /\ Goto(Io, "poll")
  /\ UNCHANGED <<args, channel, lock, stopInProgress, buffer, package, program, server>>

IoExits ==
  /\ pc[Io] = "poll" /\ ioStopped
  /\ Goto(Io, "exited")
  /\ UNCHANGED <<args, channel, lock, flags, message, program, server>>

-------------------------------------------------------------------------------
(***************************************************************************)
(* Stop                                                                    *)
(***************************************************************************)
\* slip: with nothing queued there is nothing to stop
StopIfQueued ==
  /\ pc[Main] \in {"run", "stopped"} /\ stops < MaxStops
  /\ stops' = stops + 1
  /\ pkg' = [pkg EXCEPT ![Main] = StopPackage]
  /\ Goto(Main, IF queue = <<>> THEN "stopped" ELSE "readMode")
  /\ UNCHANGED <<calls, channel, lock, flags, message, ioStopped, joined,
                 attempts, drained, link, terminated, server>>
CallStop ==
  /\ pc[Main] \in {"run", "stopped"} /\ stops < MaxStops
  /\ stops' = stops + 1
  /\ pkg' = [pkg EXCEPT ![Main] = StopPackage]
  /\ Goto(Main, "readMode")
  /\ UNCHANGED <<calls, channel, lock, flags, message, ioStopped, joined,
                 attempts, drained, link, terminated, server>>

SetStop ==
  /\ pc[Main] = "setStop"
  /\ stopInProgress' = TRUE
  /\ Goto(Main, "waitQueueEmpty")
  /\ UNCHANGED <<args, channel, lock, loggingMode, message, program, server>>

\* slips: WaitQueueEmpty does not wait, or waits for the write as well
Impatient == TRUE
NothingToWrite == queue = <<>> /\ ~writeInProgress
\* WaitQueueEmpty looks at the queue only, not at a write in progress
QueueEmpty == queue = <<>>

QueueSeenEmpty ==
  /\ pc[Main] = "waitQueueEmpty" /\ QueueEmpty
  /\ drained' = Len(accepted)
  /\ Goto(Main, "close")
  /\ UNCHANGED <<args, channel, lock, flags, message, ioStopped, joined,
                 attempts, stops, link, terminated, server>>

QueueSeenNonEmpty ==
  /\ pc[Main] = "waitQueueEmpty" /\ ~QueueEmpty
  /\ UNCHANGED vars

Close ==
  /\ pc[Main] = "close"
  /\ link' = "closed"
  /\ Goto(Main, "stopService")
  /\ UNCHANGED <<args, channel, lock, flags, message, life, terminated, server>>

\* shutdown reports a connection that is gone by an exception
ShutdownThrows == pc[Main] = "close" /\ link = "broken" /\ Terminate

StopService ==
  /\ pc[Main] = "stopService"
  /\ ioStopped' = TRUE
  /\ Goto(Main, "join")
  /\ UNCHANGED <<args, channel, lock, flags, message, joined, attempts, stops,
                 drained, link, terminated, server>>

Joinable == ~joined

Join ==
  /\ pc[Main] = "join" /\ Joinable /\ pc[Io] = "exited"
  /\ joined' = TRUE
  /\ Goto(Main, "stopped")
  /\ UNCHANGED <<args, channel, lock, flags, message, ioStopped, attempts,
                 stops, drained, link, terminated, server>>

\* std::thread::join of a thread that was joined before
JoinThrows == pc[Main] = "join" /\ ~Joinable /\ Terminate

\* LoggingMode(mode), called from elsewhere in the program
SetLoggingMode ==
  /\ Constructed
  /\ \E mode \in SettableModes : loggingMode' = mode
  /\ UNCHANGED <<pc, args, channel, lock, stopInProgress, message, program, server>>

-------------------------------------------------------------------------------
PushStep(t) ==
  \/ ReadMode(t) \/ ReadStop(t) \/ Enqueue(t)
WriteNextStep(t) ==
  \/ Lock(t) \/ NothingToDo(t) \/ TakeNext(t) \/ Encode(t) \/ StartWrite(t)
  \/ EncodeThrows(t) \/ EncodeTerminates(t)
Construct == Connected \/ ConnectRefused \/ ConstructorThrows
StopStep ==
  \/ SetStop \/ QueueSeenEmpty \/ QueueSeenNonEmpty \/ Close \/ ShutdownThrows
  \/ StopService \/ Join \/ JoinThrows
IoStep ==
  \/ RunHandler \/ SendReminder \/ MessageWritten \/ ClearWriteInProgress
  \/ WriteFailed \/ IoExits
Transport == SendUnit \/ WriteCompletes \/ WriteFails

\* nobody is inside the client: the program may rest here
Quiet ==
  /\ \A t \in Producers : pc[t] = "idle"
  /\ pc[Main] \in {"run", "stopped"} /\ pc[Io] \in {"poll", "exited"}

Next ==
  \/ /\ ~terminated
     /\ \/ Construct \/ CallStop \/ StopStep \/ IoStep \/ Transport
        \/ ConnectionBreaks \/ SetLoggingMode
        \/ \E t \in Callers : PushStep(t)
        \/ \E t \in Producers : Log(t)
        \/ \E t \in Threads : WriteNextStep(t)
  \/ terminated /\ UNCHANGED vars
  \/ Quiet /\ UNCHANGED vars

Spec == Init /\ [][Next]_vars

(***************************************************************************)
(* Every thread that can go on does, and so does the network; nobody has   *)
(* to log or to stop the client.                                           *)
(***************************************************************************)
Fairness ==
  /\ \A t \in Callers : WF_vars(~terminated /\ PushStep(t))
  /\ \A t \in Threads : WF_vars(~terminated /\ WriteNextStep(t))
  /\ WF_vars(~terminated /\ Construct)
  /\ WF_vars(~terminated /\ StopStep)
  /\ WF_vars(~terminated /\ IoStep)
  /\ WF_vars(~terminated /\ Transport)

FairSpec == Spec /\ Fairness

-------------------------------------------------------------------------------
CallerLabels ==
  {"idle", "connect", "run", "readMode", "readStop", "enqueue", "writeNext",
   "locked", "encode", "send", "setStop", "waitQueueEmpty", "close",
   "stopService", "join", "stopped"}
IoLabels == {"poll", "handler", "written", "writeNext", "locked", "encode",
             "send", "exited"}
Unit == Package \X (Nat \ {0})

ThreadTypes ==
  /\ pc \in [Threads -> CallerLabels \cup IoLabels]
  /\ pc[Io] \in IoLabels /\ \A t \in Callers : pc[t] \in CallerLabels
  /\ pkg \in [Callers -> Package \cup {NoPackage}]
  /\ calls \in [Producers -> 0..MaxCalls]
ChannelTypes ==
  /\ queue \in Seq(Package) /\ accepted \in Seq(Package)
  /\ partial \in Seq(Unit) /\ received \in Seq(Package \cup {Garbled})
  /\ drained \in Nat
WriteTypes ==
  /\ mutex \in Threads \cup {NoThread}
  /\ writeInProgress \in BOOLEAN
  /\ currentMessage \in Package \cup {NoPackage}
  /\ transferred \in Nat
  /\ package \in Package \cup {NoPackage}
  /\ writeOp \in [state : {"none", "writing", "done", "failed"},
                  offset : Nat, length : Nat, sent : Nat]
LifeTypes ==
  /\ stopInProgress \in BOOLEAN /\ loggingMode \in ELoggingMode
  /\ link \in {"closed", "connected", "broken"}
  /\ ioStopped \in BOOLEAN /\ joined \in BOOLEAN /\ terminated \in BOOLEAN
  /\ attempts \in Nat /\ stops \in Nat

\* Every variable has its type: labels of the right kind of thread, sequences
\* of packages, Boolean flags, a record of asio's progress.
TypeOK == ThreadTypes /\ ChannelTypes /\ WriteTypes /\ LifeTypes

\* WriteHandler reads m_currentMessage and m_transferred without m_mutex
\* (LogClient.cpp:163-168), and asio reads the buffer while it writes: no
\* thread is then on its way to overwrite them in WriteNextMessage.
UnlockedReadsSafe ==
  \A t \in Threads : pc[t] \in {"encode", "send"} =>
     /\ mutex = t
     /\ writeOp.state = "none"
     /\ pc[Io] \notin {"handler", "written"}

\* A package is never left in the queue with nobody to write it: while the
\* queue holds one, a write is in progress or some thread is about to look.
NoLostWakeup ==
  queue # <<>> /\ ~writeInProgress =>
    \E t \in Threads : pc[t] \in {"writeNext", "locked"}

\* What was accepted is, in the order of acceptance: what the server has, at
\* most one package on its way (and then m_writeInProgress is set), the queue.
\* Nothing is duplicated, reordered, garbled or dropped in between.
InFlight == Len(accepted) - Len(received) - Len(queue)
FirstInFirstOut ==
  /\ InFlight \in {0, 1}
  /\ InFlight = 1 => writeInProgress
  /\ \A i \in 1..Len(received) : received[i] = accepted[i]
  /\ \A i \in 1..Len(queue) :
       queue[i] = accepted[Len(accepted) - Len(queue) + i]

\* The server never sees bytes of two packages in one frame, nor a gap: what
\* it holds of an unfinished frame is a beginning of m_currentMessage.
FrameIntact ==
  partial # <<>> =>
    /\ Len(partial) < FrameLength[currentMessage]
    /\ \A i \in 1..Len(partial) : partial[i] = <<currentMessage, i>>

\* WaitQueueEmpty does not wait for the write in progress, so Stop can cut off
\* a package, but never more than one of those accepted before it returned.
StopLosesAtMostOne == Len(received) + 1 >= drained

\* The write that nobody will finish: m_writeInProgress stays set after a
\* failed write or an exception of make_flap_package.
Wedged ==
  /\ writeInProgress /\ writeOp.state \in {"none", "failed"}
  /\ pc[Io] # "written"
  /\ \A t \in Threads : pc[t] \notin {"encode", "send"}

\* After a failed write or encoding the client never writes again, even if
\* LoggingMode(eLoggingToServer) is called: the server gets no second half of a
\* frame and no package out of turn, and the queue is never taken from.
WedgedForGood ==
  [][Wedged => Wedged' /\ UNCHANGED server /\ Len(queue') >= Len(queue)]_vars

\* The client is a FIFO channel that may be cut.
Channel == INSTANCE LogChannel WITH delivered <- received, cut <- Wedged
ImplementsChannel == Channel!Spec

\* Again and again nothing that Push accepted is outstanding: all of it is at
\* the server, unless the write wedged, the connection is gone or the process
\* ended.
AcceptedIsDelivered ==
  []<>(received = accepted \/ Wedged \/ link # "connected" \/ terminated)

\* Stop comes to an end, unless it waits for a queue that a wedged client will
\* never empty.
StopSettles ==
  pc[Main] = "setStop" ~> \/ pc[Main] = "stopped" \/ terminated
                          \/ Wedged /\ queue # <<>>

\* Stop of a client that was stopped before (Stop, then ~CLogClient) never
\* returns: it waits for a package that slipped into the queue, or the second
\* m_thread.join() ends the process.
SecondStopTerminates ==
  stops = 2 ~> terminated \/ (pc[Main] = "waitQueueEmpty" /\ queue # <<>>)

\* LogClient.h:36 says of WriteNextMessage "run under lock (... lock(m_mutex))".
WriteNextMessageUnderLock ==
  \A t \in Threads : pc[t] = "writeNext" => mutex = t

-------------------------------------------------------------------------------
(***************************************************************************)
(* The inductive invariant behind the safety properties (LogClient_proofs) *)
(***************************************************************************)
Busy(t) == pc[t] \in {"encode", "send"}

\* the owner of m_mutex is the thread between lock and unlock
MutexInv == \A t \in Threads : pc[t] \in {"locked", "encode", "send"} <=> mutex = t

\* a caller inside Push has a package to push
PushInv ==
  \A t \in Callers : pc[t] \in {"readMode", "readStop", "enqueue"} => pkg[t] \in Package

\* m_writeInProgress owns m_currentMessage: one thread prepares it, or one
\* write is outstanding, or Io is in its handler
WriterInv ==
  /\ \A t \in Threads : Busy(t) =>
       /\ writeInProgress /\ writeOp.state = "none"
       /\ pc[Io] \notin {"handler", "written"} /\ package \in Package
       /\ pc[t] = "send" => currentMessage = package /\ transferred = 0
  /\ writeOp.state # "none" =>
       /\ writeInProgress /\ currentMessage \in Package
       /\ writeOp.offset = transferred
       /\ writeOp.offset + writeOp.length = FrameLength[currentMessage]
       /\ writeOp.sent <= writeOp.length
       /\ writeOp.state = "failed" => writeOp.sent < writeOp.length
  /\ pc[Io] = "handler" => writeOp.state \in {"done", "failed"}
  /\ pc[Io] = "written" => writeInProgress /\ writeOp.state = "none"

\* the whole frame of m_currentMessage is out
FrameDone ==
  pc[Io] = "written" \/ (writeOp.state # "none" /\ writeOp.sent = writeOp.length)

\* accepted = received, the package of the write in progress, queue
ChannelInv ==
  /\ Len(accepted) = Len(received) + Len(queue)
                     + (IF writeInProgress /\ ~FrameDone THEN 1 ELSE 0)
  /\ \A i \in 1..Len(received) : received[i] = accepted[i]
  /\ \A i \in 1..Len(queue) :
       queue[i] = accepted[Len(accepted) - Len(queue) + i]
  /\ (\E t \in Threads : Busy(t)) => package = accepted[Len(received) + 1]
  /\ writeOp.state # "none" /\ ~FrameDone => currentMessage = accepted[Len(received) + 1]

\* the server holds what was sent of the frame of m_currentMessage
PartialInv ==
  /\ FrameIntact
  /\ ~writeInProgress \/ FrameDone \/ (\E t \in Threads : Busy(t)) => partial = <<>>
  /\ writeOp.state # "none" /\ ~FrameDone => Len(partial) = writeOp.offset + writeOp.sent

IInv ==
  /\ TypeOK /\ MutexInv /\ PushInv /\ WriterInv
  /\ ChannelInv /\ PartialInv /\ NoLostWakeup /\ StopLosesAtMostOne

===============================================================================
