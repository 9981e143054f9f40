---------------------------- MODULE ExternalProcess ----------------------------
(***************************************************************************)
(* CExternalProcess (src/ExternalProcess.cpp) as its owner Console         *)
(* (src/Console.cpp) uses it: the constructor of Console runs it, a thread *)
(* reads the child's output line by line and posts the lines to the GUI    *)
(* thread, and ~CExternalProcess stops it.                                 *)
(***************************************************************************)
EXTENDS Naturals, Sequences

CONSTANTS
  Cmds,           \* commands of RunCommand
  Exit,           \* the command "exit"
  Line,           \* lines the child prints
  EmptyLine,      \* one of them: the line with no character in it
  MaxCommands,    \* bound: calls of RunCommand
  MaxLines,       \* bound: lines the child prints
  Faulty          \* calls of bp::child can throw; the child can exit unasked, or leave its
                  \* pipe to others

ASSUME ConstantsAssumption ==
  /\ Exit \notin Cmds /\ EmptyLine \in Line
  /\ MaxCommands \in Nat /\ MaxLines \in Nat
  /\ Faulty \in BOOLEAN

VARIABLES
  gui,                    \* where the GUI thread is in the life of the object
  worker,                 \* where ThreadProcess is
  isRunning, isStop,
  exitCode,               \* 0, -100 after an exception, or that of the child
  line,                   \* the line ThreadProcess has read
  process,                \* m_process: "null", "running", "exited"
  pipeHeld,               \* a process the child started has the other end of m_in open
  stdin,                  \* m_out: commands the child has not read
  pipe,                   \* m_in: lines ThreadProcess has not read
  posted,                 \* OnString signals queued for the GUI thread
  shown,                  \* the lines Console::output has inserted
  commands,               \* how many commands were put
  written,                \* history: every line the child printed
  crashed                 \* a null m_process was used, or an exception left the destructor

vars == <<gui, worker, isRunning, isStop, exitCode, line, process, pipeHeld, stdin,
          pipe, posted, shown, commands, written, crashed>>
streams == <<pipeHeld, stdin, pipe, posted, shown, commands, written>>

Init ==
  /\ gui = "construct" /\ worker = "none"
  /\ isRunning = FALSE /\ isStop = FALSE /\ exitCode = "zero"
  /\ line = EmptyLine
  /\ process = "null" /\ pipeHeld = FALSE
  /\ stdin = <<>> /\ pipe = <<>> /\ posted = <<>> /\ shown = <<>>
  /\ commands = 0 /\ written = <<>>
  /\ crashed = FALSE

-------------------------------------------------------------------------------
(***************************************************************************)
(* The GUI thread                                                          *)
(***************************************************************************)
Run ==
  /\ gui = "construct"
  /\ gui' = "run" /\ worker' = "start"
  /\ UNCHANGED <<isRunning, isStop, exitCode, line, process, streams, crashed>>

RunCommand(c) ==
  /\ gui = "run" /\ commands < MaxCommands
  /\ stdin' = Append(stdin, c)
  /\ commands' = commands + 1
  /\ UNCHANGED <<gui, worker, isRunning, isStop, exitCode, line, process, pipeHeld, pipe,
                 posted, shown, written, crashed>>

OnOutput ==
  /\ gui = "run" /\ posted # <<>>
  /\ shown' = Append(shown, Head(posted))
  /\ posted' = Tail(posted)
  /\ UNCHANGED <<gui, worker, isRunning, isStop, exitCode, line, process, pipeHeld, stdin,
                 pipe, commands, written, crashed>>

\* ~CExternalProcess, and in it Stop
SetStop ==
  /\ gui = "run"
  /\ isStop' = TRUE
  /\ gui' = "putExit"
  /\ UNCHANGED <<worker, isRunning, exitCode, line, process, streams, crashed>>

PutExit ==
  /\ gui = "putExit"
  /\ stdin' = Append(stdin, Exit)
  /\ gui' = "terminate"
  /\ UNCHANGED <<worker, isRunning, isStop, exitCode, line, process, pipeHeld, pipe,
                 posted, shown, commands, written, crashed>>

\* slip: the child is only asked to exit
AskToExit == UNCHANGED process
Terminate == process' = "exited"

StopTerminates ==
  /\ gui = "terminate" /\ process # "null"
  /\ Terminate
  /\ gui' = "join"
  /\ UNCHANGED <<worker, isRunning, isStop, exitCode, line, streams, crashed>>

\* terminate may race the thread's; nothing between it and the destructor catches
StopThrows ==
  /\ Faulty /\ gui = "terminate" /\ process # "null"
  /\ crashed' = TRUE
  /\ UNCHANGED <<gui, worker, isRunning, isStop, exitCode, line, process, streams>>

\* the child is not made yet, or could not be made
StopCrashes ==
  /\ gui = "terminate" /\ process = "null"
  /\ crashed' = TRUE
  /\ UNCHANGED <<gui, worker, isRunning, isStop, exitCode, line, process, streams>>

\* slip: the thread is detached
Detached == TRUE
ThreadEnded == worker = "ended"

\* with the object its undelivered signals go
Join ==
  /\ gui = "join" /\ ThreadEnded
  /\ gui' = "stopped"
  /\ posted' = <<>>
  /\ UNCHANGED <<worker, isRunning, isStop, exitCode, line, process, pipeHeld, stdin, pipe,
                 shown, commands, written, crashed>>

-------------------------------------------------------------------------------
(***************************************************************************)
(* The thread of ThreadProcess                                             *)
(***************************************************************************)
SetRunning ==
  /\ worker = "start"
  /\ isRunning' = TRUE
  /\ worker' = "resetStop"
  /\ UNCHANGED <<gui, isStop, exitCode, line, process, streams, crashed>>

\* a Stop that came before is forgotten here
ResetStop ==
  /\ worker = "resetStop"
  /\ isStop' = FALSE
  /\ worker' = "spawn"
  /\ UNCHANGED <<gui, isRunning, exitCode, line, process, streams, crashed>>

Spawn ==
  /\ worker = "spawn"
  /\ process' = "running"
  /\ worker' = "loop"
  /\ UNCHANGED <<gui, isRunning, isStop, exitCode, line, streams, crashed>>

Emit(text) == posted' = Append(posted, text)

\* One try block holds all calls of the child: making it, running() in the loop, and after
\* the loop terminate(), which throws before the child is gone, and wait(), which does after.
Throws ==
  /\ Faulty
  /\ worker \in {"spawn", "terminate"} \/ (worker = "loop" /\ ~isStop)
  /\ UNCHANGED process \/ (worker = "terminate" /\ Terminate)
  /\ Emit("exceptionText")
  /\ exitCode' = "exception"
  /\ worker' = "end"
  /\ UNCHANGED <<gui, isRunning, isStop, line, pipeHeld, stdin, pipe, shown, commands,
                 written, crashed>>

\* the first two conditions of the loop
Continue ==
  /\ worker = "loop" /\ ~isStop /\ process = "running"
  /\ worker' = "getline"
  /\ UNCHANGED <<gui, isRunning, isStop, exitCode, line, process, streams, crashed>>

LeaveLoop ==
  /\ worker = "loop" /\ (isStop \/ process = "exited")
  /\ worker' = "terminate"
  /\ UNCHANGED <<gui, isRunning, isStop, exitCode, line, process, streams, crashed>>

\* slip: an empty line is a line like the others
AnyLine(text) == TRUE
Shows(text) == text # EmptyLine

ReadLine ==
  /\ worker = "getline" /\ pipe # <<>>
  /\ line' = Head(pipe)
  /\ pipe' = Tail(pipe)
  /\ worker' = IF Shows(line') THEN "emit" ELSE "terminate"
  /\ UNCHANGED <<gui, isRunning, isStop, exitCode, process, pipeHeld, stdin, posted, shown,
                 commands, written, crashed>>

EndOfFile ==
  /\ worker = "getline" /\ pipe = <<>> /\ process = "exited" /\ ~pipeHeld
  /\ worker' = "terminate"
  /\ UNCHANGED <<gui, isRunning, isStop, exitCode, line, process, streams, crashed>>

EmitLine ==
  /\ worker = "emit"
  /\ Emit(line)
  /\ worker' = "loop"
  /\ UNCHANGED <<gui, isRunning, isStop, exitCode, line, process, pipeHeld, stdin, pipe,
                 shown, commands, written, crashed>>

TerminateAndWait ==
  /\ worker = "terminate"
  /\ Terminate
  /\ exitCode' = "child"
  /\ worker' = "end"
  /\ UNCHANGED <<gui, isRunning, isStop, line, streams, crashed>>

EndThread ==
  /\ worker = "end"
  /\ isRunning' = FALSE
  /\ worker' = "ended"
  /\ UNCHANGED <<gui, isStop, exitCode, line, process, streams, crashed>>

-------------------------------------------------------------------------------
(***************************************************************************)
(* The child (external)                                                    *)
(***************************************************************************)
ChildReads ==
  /\ process = "running" /\ stdin # <<>>
  /\ stdin' = Tail(stdin)
  /\ process' = IF Head(stdin) = Exit THEN "exited" ELSE "running"
  /\ UNCHANGED <<gui, worker, isRunning, isStop, exitCode, line, pipeHeld, pipe, posted,
                 shown, commands, written, crashed>>

ChildPrints ==
  /\ process = "running" /\ Len(written) < MaxLines
  /\ \E l \in Line : pipe' = Append(pipe, l) /\ written' = Append(written, l)
  /\ UNCHANGED <<gui, worker, isRunning, isStop, exitCode, line, process, pipeHeld, stdin,
                 posted, shown, commands, crashed>>

\* a process the child starts inherits its std_out
ChildForks ==
  /\ Faulty /\ process = "running"
  /\ pipeHeld' = TRUE
  /\ UNCHANGED <<gui, worker, isRunning, isStop, exitCode, line, process, stdin, pipe,
                 posted, shown, commands, written, crashed>>

ChildExits ==
  /\ Faulty /\ process = "running"
  /\ process' = "exited"
  /\ UNCHANGED <<gui, worker, isRunning, isStop, exitCode, line, streams, crashed>>

-------------------------------------------------------------------------------
StopStep == PutExit \/ StopTerminates \/ StopThrows \/ StopCrashes \/ Join
ThreadProcess ==
  \/ SetRunning \/ ResetStop \/ Spawn \/ Continue \/ LeaveLoop \/ ReadLine \/ EndOfFile
  \/ EmitLine \/ TerminateAndWait \/ Throws \/ EndThread

\* getline waits for the child, or for whoever holds the pipe
BlockedInGetline == worker = "getline" /\ pipe = <<>>
Resting ==
  \/ crashed
  \/ gui \in {"run", "stopped"} /\ (worker = "ended" \/ BlockedInGetline)
  \/ gui = "join" /\ BlockedInGetline /\ pipeHeld

Next ==
  \/ /\ ~crashed
     /\ \/ Run \/ \E c \in Cmds : RunCommand(c)
        \/ OnOutput \/ SetStop \/ StopStep \/ ThreadProcess
        \/ ChildReads \/ ChildPrints \/ ChildForks \/ ChildExits
  \/ Resting /\ UNCHANGED vars

Spec == Init /\ [][Next]_vars

\* both threads go on; the child does what it likes, and nobody has to stop it
FairSpec ==
  /\ Spec
  /\ WF_vars(~crashed /\ StopStep)
  /\ WF_vars(~crashed /\ ThreadProcess)

-------------------------------------------------------------------------------
Message == Line \cup {"exceptionText"}

\* Every variable has its type.
TypeOK ==
  /\ gui \in {"construct", "run", "putExit", "terminate", "join", "stopped"}
  /\ worker \in {"none", "start", "resetStop", "spawn", "loop", "getline", "emit",
                 "terminate", "end", "ended"}
  /\ isRunning \in BOOLEAN /\ isStop \in BOOLEAN /\ crashed \in BOOLEAN
  /\ exitCode \in {"zero", "exception", "child"}
  /\ line \in Line
  /\ process \in {"null", "running", "exited"} /\ pipeHeld \in BOOLEAN
  /\ stdin \in Seq(Cmds \cup {Exit}) /\ commands \in 0..MaxCommands
  /\ pipe \in Seq(Line) /\ written \in Seq(Line)
  /\ posted \in Seq(Message) /\ shown \in Seq(Message)

\* What is shown are the first lines the child printed, in order and none twice, up
\* to the first empty one (ExternalProcess.cpp:104); the text of an exception, wherever
\* in the try block and beside whatever step of Stop it was thrown, comes once and
\* last.  Lines may be lost at the end, or before that text.
Seen == shown \o posted
ShownInOrder ==
  \A i \in 1..Len(Seen) :
    \/ i <= Len(written) /\ Seen[i] = written[i] /\ Seen[i] # EmptyLine
    \/ i = Len(Seen) /\ Seen[i] = "exceptionText" /\ exitCode = "exception"

\* When Stop has returned, there was a child, it is gone, and so is the thread:
\* even if ThreadProcess reset m_isStop after Stop had set it (l. 98), or left its
\* loop by an exception with the child running (l. 104, 109).
StoppedMeansGone ==
  gui = "stopped" =>
    process = "exited" /\ worker = "ended" /\ ~isRunning /\ exitCode # "zero"

\* Stop comes to an end, or the program dies in it (of a child that was never made,
\* or of a terminate that throws), or it waits for another process that holds the
\* pipe of a child that is gone.
StopSettles ==
  gui = "putExit" ~> \/ gui = "stopped" \/ crashed
                     \/ pipeHeld /\ BlockedInGetline /\ process = "exited"

\* A stop that ThreadProcess forgets is still a stop: while Stop waits in join
\* the child prints nothing more and is not started again.
NothingNewAfterTerminate ==
  [][gui = "join" => process' = "exited" /\ UNCHANGED written]_vars

\* Towards the window the object is a stream of lines: every line the child printed is
\* shown at most once, whole and in its place, none from the first empty one on; a stream
\* that fails says so once, behind all it shows; from Stop on nothing more is (LineStream).
StreamState ==
  IF gui \notin {"construct", "run"} THEN "cut"
  ELSE IF exitCode # "exception" THEN "open"
  ELSE IF posted # <<>> THEN "failing" ELSE "failed"
Stream == INSTANCE LineStream WITH
  Failure <- "exceptionText", printed <- written, delivered <- shown, state <- StreamState
ImplementsStream == Stream!Spec

-------------------------------------------------------------------------------
(***************************************************************************)
(* The inductive invariant behind the safety properties                    *)
(* (Console_proofs)                                                        *)
(***************************************************************************)
LifeInv ==
  /\ worker = "none" <=> gui = "construct"
  /\ worker \in {"none", "start", "resetStop", "spawn"} => process = "null"
  /\ worker \in {"loop", "getline", "emit", "terminate"} => process # "null"
  /\ worker \in {"end", "ended"} => exitCode # "zero"
  /\ worker \in {"none", "start", "ended"} => ~isRunning
  /\ gui \in {"join", "stopped"} => process = "exited"
  /\ gui = "stopped" => worker = "ended"

\* written is what the thread has read and what the pipe holds; as long as the
\* thread may emit, all that was read was posted, but for the line it holds
Read == Len(written) - Len(pipe)
OutputInv ==
  /\ Read >= 0 /\ \A i \in 1..Len(pipe) : pipe[i] = written[Read + i]
  /\ process = "null" => written = <<>> /\ pipe = <<>>
  /\ worker \in {"none", "start", "resetStop", "spawn"} => shown = <<>> /\ posted = <<>>
  /\ worker \in {"loop", "getline"} => Len(Seen) = Read
  /\ worker = "emit" => /\ Len(Seen) + 1 = Read
                        /\ line = written[Read] /\ line # EmptyLine
  /\ worker \notin {"end", "ended"} => exitCode # "exception"

\* the text of the exception is the last there is to show
ThrownInv ==
  exitCode = "exception" /\ gui # "stopped" =>
    Seen # <<>> /\ Seen[Len(Seen)] = "exceptionText"

TypedLife == TypeOK /\ LifeInv
IInv == TypedLife /\ OutputInv /\ ShownInOrder
===============================================================================
