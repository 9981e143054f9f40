-------------------------------- MODULE Monitor --------------------------------
(***************************************************************************)
(* CMonitor (src/Monitor.cpp): a terminal onto a camera.  The GUI thread   *)
(* edits m_currentMessage and prints; the io thread runs ReadHandler and   *)
(* WriteHandler.  No mutex protects m_currentMessage: m_isLocked alone     *)
(* says which of the two threads may touch it.  A key press is one step of *)
(* the GUI thread, for the io thread can do nothing it would notice before *)
(* m_isLocked is FALSE again.                                              *)
(***************************************************************************)
EXTENDS Naturals, Sequences

CONSTANTS
  Character,      \* what the keys 0x20..0x7e type
  NewLine,        \* '\n'
  Outputs,        \* texts the camera sends
  MaxLength,      \* bound: the characters of a command
  MaxCommands,    \* bound: how often Return is pressed
  MaxPosted,      \* bound: onData signals on their way to the GUI thread
  Faulty,         \* the connection can break; the connection string can be none
  ShortWrites     \* a write may complete with a part of its buffer

Command == UNION {[1..n -> Character] : n \in 0..MaxLength}
Text == Seq(Character \cup {NewLine})

ASSUME CharacterAssumption == NewLine \notin Character /\ Outputs \subseteq Text \ {<<>>}
ASSUME BoundAssumption ==
  /\ MaxLength \in Nat /\ MaxCommands \in Nat /\ MaxPosted \in Nat
  /\ Faulty \in BOOLEAN /\ ShortWrites \in BOOLEAN

VARIABLES
  line,                               \* the text block with the cursor, which is at its end
  currentMessage, isLocked, transferred, history, historyPos,
  printing,                           \* onData is connected to printData
  posted,                             \* onData signals queued for the GUI thread
  io,                                 \* where the io thread is
  writeOp,                            \* the outstanding async_write
  link,                               \* m_socket: "closed", "connected" or "broken"
  terminated,                         \* an exception left Stop
  interrupted,                        \* history: output was printed into a command being typed
  partial, received                   \* what the camera has: a line so far, whole lines

keys == <<line, currentMessage, isLocked, transferred, history, historyPos>>
camera == <<partial, received>>
vars == <<keys, printing, posted, io, writeOp, link, terminated, interrupted, camera>>

NoOp == [state |-> "none", offset |-> 0, length |-> 0, sent |-> 0]
AsyncWrite(offset, length) ==
  [state |-> "writing", offset |-> offset, length |-> length, sent |-> 0]

ButLast(s) == SubSeq(s, 1, Len(s) - 1)
\* a text is printed into a new block; the block after its last '\n' gets the cursor
LastBlock(s) ==
  LET breaks == {i \in DOMAIN s : s[i] = NewLine}
  IN {SubSeq(s, i + 1, Len(s)) : i \in {j \in breaks \cup {0} : \A k \in breaks : k <= j}}

\* the constructor fails unless it connects or has nothing to connect to
Init ==
  /\ \/ link = "connected" /\ printing = TRUE
     \/ Faulty /\ link = "closed" /\ printing = FALSE
  /\ line = <<>> /\ currentMessage = <<>> /\ isLocked = FALSE /\ transferred = 0
  /\ history = <<>> /\ historyPos = 0
  /\ posted = <<>> /\ io = "poll" /\ writeOp = NoOp
  /\ terminated = FALSE /\ interrupted = FALSE
  /\ partial = <<>> /\ received = <<>>

-------------------------------------------------------------------------------
(***************************************************************************)
(* The GUI thread: keyPressEvent, printData, Stop                          *)
(***************************************************************************)
\* slip: a locked editor takes keys
AlwaysEditable == TRUE
MayEdit == ~isLocked

TypeCharacter(c) ==
  /\ MayEdit /\ Len(currentMessage) < MaxLength
  /\ line' = Append(line, c)
  /\ currentMessage' = Append(currentMessage, c)
  /\ UNCHANGED <<isLocked, transferred, history, historyPos, printing, posted,
                 io, writeOp, link, terminated, interrupted, camera>>

\* slip: Backspace leaves m_currentMessage as it is
KeepBack(message) == message
PopBack(message) == IF message = <<>> THEN <<>> ELSE ButLast(message)

Backspace ==
  /\ MayEdit /\ line # <<>>
  /\ line' = ButLast(line)
  /\ currentMessage' = PopBack(currentMessage)
  /\ UNCHANGED <<isLocked, transferred, history, historyPos, printing, posted,
                 io, writeOp, link, terminated, interrupted, camera>>

\* slip: m_historyPos points past the end
HistoryAddPastEnd ==
  history' = Append(history, currentMessage) /\ historyPos' = Len(history') + 1
HistoryAdd ==
  history' = Append(history, currentMessage) /\ historyPos' = Len(history')

OnEnter ==
  /\ MayEdit /\ Len(history) < MaxCommands
  /\ isLocked' = TRUE
  /\ HistoryAdd
  /\ transferred' = 0
  /\ currentMessage' = Append(currentMessage, NewLine)
  /\ writeOp' = AsyncWrite(0, Len(currentMessage'))
  /\ line' = IF printing THEN currentMessage ELSE line
  /\ UNCHANGED <<printing, posted, io, link, terminated, interrupted, camera>>

HistoryBack ==
  /\ MayEdit /\ historyPos # 0
  /\ line' = history[historyPos]
  /\ currentMessage' = history[historyPos]
  /\ historyPos' = historyPos - 1
  /\ interrupted' = FALSE
  /\ UNCHANGED <<isLocked, transferred, history, printing, posted, io, writeOp,
                 link, terminated, camera>>

HistoryForward ==
  /\ MayEdit /\ historyPos # Len(history)
  /\ currentMessage' = IF historyPos = Len(history) - 1 THEN <<>>
                       ELSE history[historyPos + 2]
  /\ line' = currentMessage'
  /\ historyPos' = historyPos + 1
  /\ interrupted' = FALSE
  /\ UNCHANGED <<isLocked, transferred, history, printing, posted, io, writeOp,
                 link, terminated, camera>>

PrintData ==
  /\ posted # <<>>
  /\ posted' = Tail(posted)
  /\ line' \in LastBlock(Head(posted))
  /\ interrupted' = (interrupted \/ (~isLocked /\ currentMessage # <<>>))
  /\ UNCHANGED <<currentMessage, isLocked, transferred, history, historyPos,
                 printing, io, writeOp, link, terminated, camera>>

Stop ==
  /\ link = "connected"
  /\ printing' = FALSE
  /\ link' = "closed"
  /\ UNCHANGED <<keys, posted, io, writeOp, terminated, interrupted, camera>>

\* shutdown reports a connection that is gone by an exception
StopThrows ==
  /\ link = "broken"
  /\ printing' = FALSE
  /\ terminated' = TRUE
  /\ UNCHANGED <<keys, posted, io, writeOp, link, interrupted, camera>>

-------------------------------------------------------------------------------
(***************************************************************************)
(* The io thread: ReadHandler and WriteHandler (which does nothing after   *)
(* an error)                                                               *)
(***************************************************************************)
ReadHandler ==
  /\ io = "poll" /\ link = "connected" /\ Len(posted) < MaxPosted
  /\ \E s \in Outputs : posted' = Append(posted, s)
  /\ UNCHANGED <<keys, printing, io, writeOp, link, terminated, interrupted, camera>>

\* slips: <= for <; a short write is taken for the whole command
AtMostAll(sent) == sent <= Len(currentMessage)
NeverUnfinished(sent) == FALSE
Unfinished(sent) == sent < Len(currentMessage)

SendReminder ==
  /\ io = "poll" /\ writeOp.state = "done"
  /\ Unfinished(transferred + writeOp.sent)
  /\ transferred' = transferred + writeOp.sent
  /\ writeOp' = AsyncWrite(transferred', Len(currentMessage) - transferred')
  /\ UNCHANGED <<line, currentMessage, isLocked, history, historyPos, printing,
                 posted, io, link, terminated, interrupted, camera>>

ClearMessage ==
  /\ io = "poll" /\ writeOp.state = "done"
  /\ ~Unfinished(transferred + writeOp.sent)
  /\ transferred' = transferred + writeOp.sent
  /\ currentMessage' = <<>>
  /\ writeOp' = NoOp
  /\ io' = "unlock"
  /\ interrupted' = FALSE
  /\ UNCHANGED <<line, isLocked, history, historyPos, printing, posted, link,
                 terminated, camera>>

Unlock ==
  /\ io = "unlock"
  /\ isLocked' = FALSE
  /\ io' = "poll"
  /\ UNCHANGED <<line, currentMessage, transferred, history, historyPos, printing,
                 posted, writeOp, link, terminated, interrupted, camera>>

-------------------------------------------------------------------------------
(***************************************************************************)
(* The transport and the camera (external)                                 *)
(***************************************************************************)
SendUnit ==
  /\ writeOp.state = "writing" /\ link = "connected" /\ writeOp.sent < writeOp.length
  /\ writeOp' = [writeOp EXCEPT !.sent = @ + 1]
  /\ LET c == currentMessage[writeOp.offset + writeOp.sent + 1]
     IN IF c = NewLine
        THEN received' = Append(received, partial) /\ partial' = <<>>
        ELSE partial' = Append(partial, c) /\ UNCHANGED received
  /\ UNCHANGED <<keys, printing, posted, io, link, terminated, interrupted>>

WriteCompletes ==
  /\ writeOp.state = "writing"
  /\ writeOp.sent = writeOp.length \/ (ShortWrites /\ writeOp.sent > 0)
  /\ writeOp' = [writeOp EXCEPT !.state = "done"]
  /\ UNCHANGED <<keys, printing, posted, io, link, terminated, interrupted, camera>>

\* slip: the handler unlocks the editor whatever the error
WriteFailsUnlocked ==
  /\ writeOp.state = "writing" /\ link # "connected" /\ writeOp.sent < writeOp.length
  /\ writeOp' = [writeOp EXCEPT !.state = "failed"]
  /\ isLocked' = FALSE
  /\ UNCHANGED <<line, currentMessage, transferred, history, historyPos, printing,
                 posted, io, link, terminated, interrupted, camera>>

WriteFails ==
  /\ writeOp.state = "writing" /\ link # "connected" /\ writeOp.sent < writeOp.length
  /\ writeOp' = [writeOp EXCEPT !.state = "failed"]
  /\ UNCHANGED <<keys, printing, posted, io, link, terminated, interrupted, camera>>

ConnectionBreaks ==
  /\ Faulty /\ link = "connected"
  /\ link' = "broken"
  /\ UNCHANGED <<keys, printing, posted, io, writeOp, terminated, interrupted, camera>>

-------------------------------------------------------------------------------
KeyPress ==
  \/ \E c \in Character : TypeCharacter(c)
  \/ Backspace \/ OnEnter \/ HistoryBack \/ HistoryForward
WriteHandler == SendReminder \/ ClearMessage \/ Unlock
Transport == SendUnit \/ WriteCompletes \/ WriteFails

Next ==
  \/ /\ ~terminated
     /\ \/ KeyPress \/ PrintData \/ Stop \/ StopThrows
        \/ ReadHandler \/ WriteHandler \/ Transport \/ ConnectionBreaks
  \/ (terminated \/ writeOp.state = "failed") /\ UNCHANGED vars    \* nothing more to do

Spec == Init /\ [][Next]_vars

\* the io thread and the network go on; nobody has to press a key
FairSpec ==
  /\ Spec
  /\ WF_vars(~terminated /\ WriteHandler)
  /\ WF_vars(~terminated /\ Transport)

-------------------------------------------------------------------------------
\* Every variable has its type; m_historyPos is an index m_history.at() takes.
TypeOK ==
  /\ line \in Text /\ currentMessage \in Text
  /\ isLocked \in BOOLEAN /\ transferred \in Nat
  /\ history \in Seq(Command) /\ historyPos \in 0..Len(history)
  /\ printing \in BOOLEAN /\ posted \in Seq(Outputs)
  /\ io \in {"poll", "unlock"}
  /\ writeOp \in [state : {"none", "writing", "done", "failed"},
                  offset : Nat, length : Nat, sent : Nat]
  /\ link \in {"closed", "connected", "broken"}
  /\ terminated \in BOOLEAN /\ interrupted \in BOOLEAN
  /\ partial \in Seq(Character) /\ received \in Seq(Seq(Character))

\* While asio reads m_currentMessage (or has failed to write all of it), no
\* thread changes it: neither a key press nor a handler (Monitor.cpp:206, 145).
BufferStable ==
  [][writeOp.state \in {"writing", "failed"} => UNCHANGED currentMessage]_vars

\* The camera gets the entered commands whole and in the order of m_history;
\* the editor is unlocked only when the camera has all of them.
CommandsInOrder ==
  /\ \A i \in 1..Len(received) : received[i] = history[i]
  /\ Len(history) - Len(received) \in {0, 1}
  /\ ~isLocked => Len(received) = Len(history) /\ partial = <<>>

\* What Return will send is what stands at the end of the cursor's line, unless
\* camera output was printed while a command was being typed.
Suffix(s, t) ==
  /\ Len(s) <= Len(t)
  /\ \A i \in 1..Len(s) : s[i] = t[Len(t) - Len(s) + i]
SeenIsSent == ~isLocked /\ ~interrupted => Suffix(currentMessage, line)

\* After a failed write m_isLocked is never reset, for the handler returns early
\* (Monitor.cpp:118) and nobody else unlocks: no key is taken any more and no command
\* sent, although output may still be printed.
Stuck == writeOp.state = "failed"
StuckForGood ==
  [][Stuck => Stuck' /\ isLocked' /\ UNCHANGED <<currentMessage, history, camera>>]_vars

\* Return locks the editor only until the command is out, or the connection is gone.
EnterUnlocks == isLocked ~> ~isLocked \/ link # "connected" \/ terminated

\* Commands pass through a FIFO channel that a failed write cuts.
Channel == INSTANCE LogChannel WITH
  Package <- Command, accepted <- history, delivered <- received, cut <- Stuck
ImplementsChannel == Channel!Spec

-------------------------------------------------------------------------------
(***************************************************************************)
(* The inductive invariant behind the safety properties (Monitor_proofs)   *)
(***************************************************************************)
Written == writeOp.offset + writeOp.sent

\* m_isLocked covers the write and its handler
LockInv ==
  /\ isLocked <=> (writeOp.state # "none" \/ io = "unlock")
  /\ io = "unlock" => writeOp.state = "none" /\ currentMessage = <<>>
  /\ ~isLocked => currentMessage \in Command

\* the outstanding write is that of the newest command
WriteInv ==
  writeOp.state # "none" =>
    /\ history # <<>>
    /\ currentMessage = Append(history[Len(history)], NewLine)
    /\ writeOp.offset = transferred
    /\ writeOp.offset + writeOp.length = Len(currentMessage)
    /\ writeOp.sent <= writeOp.length
    /\ writeOp.state = "failed" => writeOp.sent < writeOp.length

CommandSent == writeOp.state = "none" \/ writeOp.sent = writeOp.length
CameraInv ==
  /\ \A i \in 1..Len(received) : received[i] = history[i]
  /\ Len(history) = Len(received) + (IF CommandSent THEN 0 ELSE 1)
  /\ partial = IF CommandSent THEN <<>> ELSE SubSeq(currentMessage, 1, Written)

IInv == TypeOK /\ LockInv /\ WriteInv /\ CameraInv /\ SeenIsSent
===============================================================================
