----------------------------- MODULE Monitor_proofs -----------------------------
(***************************************************************************)
(* Proofs about Monitor, for any set of characters and outputs and any     *)
(* bounds.                                                                 *)
(***************************************************************************)
EXTENDS Monitor, SequenceTheorems, TLAPS

USE DEF MayEdit, PopBack, HistoryAdd, Unfinished

(***************************************************************************)
(* Commands, suffixes and blocks                                           *)
(***************************************************************************)
LEMMA CommandIsSeq ==
  ASSUME NEW c \in Command
  PROVE  c \in Seq(Character) /\ c \in Text /\ Len(c) \in 0..MaxLength
  <1>1. PICK n \in 0..MaxLength : c \in [1..n -> Character]
    BY DEF Command
  <1>2. n \in Nat
    BY <1>1, BoundAssumption
  <1>3. c \in Seq(Character)
    BY <1>1, <1>2, SeqDef
  <1>4. DOMAIN c = 1..Len(c) /\ Len(c) \in Nat /\ DOMAIN c = 1..n
    BY <1>1, <1>3, LenProperties
  <1>5. Len(c) = n
    <2>1. \A i \in Nat : i \in 1..Len(c) <=> i \in 1..n
      BY <1>4
    <2>2. ~(Len(c) < n) /\ ~(n < Len(c))
      BY <1>2, <1>4, <2>1
    <2>3. Len(c) \in Nat
      BY <1>4
    <2> QED BY <1>2, <2>2, <2>3
  <1> QED
    BY <1>1, <1>3, <1>5, SeqMonotonic DEF Text

LEMMA SeqIsCommand ==
  ASSUME NEW c \in Seq(Character), Len(c) <= MaxLength
  PROVE  c \in Command
  <1>1. Len(c) \in Nat /\ c \in [1..Len(c) -> Character]
    BY LenProperties
  <1>2. Len(c) \in 0..MaxLength
    BY <1>1, BoundAssumption
  <1> QED BY <1>1, <1>2 DEF Command

LEMMA EmptyCommand == <<>> \in Command /\ <<>> \in Text /\ <<>> \in Seq(Character)
  <1>1. <<>> \in Seq(Character) /\ Len(<<>>) = 0
    BY EmptySeq
  <1>2. Len(<<>>) <= MaxLength
    BY <1>1, BoundAssumption
  <1> QED BY <1>1, <1>2, SeqIsCommand, EmptySeq DEF Text

LEMMA ButLastProperties ==
  ASSUME NEW S, NEW s \in Seq(S), s # <<>>
  PROVE  /\ ButLast(s) \in Seq(S) /\ Len(ButLast(s)) = Len(s) - 1
         /\ \A i \in 1..Len(s) - 1 : ButLast(s)[i] = s[i]
  <1>1. Len(s) \in Nat \ {0} /\ \A i \in 1..Len(s) - 1 : s[i] \in S
    BY EmptySeq, ElementOfSeq
  <1>2. 1 \in Int /\ Len(s) - 1 \in Int /\ Len(s) - 1 >= 0
    BY <1>1
  <1>3. /\ SubSeq(s, 1, Len(s) - 1) \in Seq(S)
        /\ Len(SubSeq(s, 1, Len(s) - 1)) =
             IF 1 <= Len(s) - 1 THEN (Len(s) - 1) - 1 + 1 ELSE 0
        /\ \A i \in 1 .. (Len(s) - 1) - 1 + 1 :
             SubSeq(s, 1, Len(s) - 1)[i] = s[1 + i - 1]
    BY <1>1, <1>2, SubSeqProperties
  <1>4. (Len(s) - 1) - 1 + 1 = Len(s) - 1
        /\ Len(SubSeq(s, 1, Len(s) - 1)) = Len(s) - 1
    <2>1. CASE Len(s) = 1
      BY <1>3, <2>1
    <2>2. CASE Len(s) > 1
      BY <1>1, <1>3, <2>2
    <2>3. Len(s) \in Nat \ {0}
      BY <1>1
    <2>4. Len(s) = 1 \/ Len(s) > 1
      <3>1. \A n \in Nat \ {0} : n = 1 \/ n > 1
        OBVIOUS
      <3> QED BY <2>3, <3>1
    <2> QED BY <2>1, <2>2, <2>4
  <1>5. \A i \in 1..Len(s) - 1 : 1 + i - 1 = i
    BY <1>1
  <1> QED BY <1>3, <1>4, <1>5 DEF ButLast

LEMMA SuffixAppend ==
  ASSUME NEW s \in Text, NEW t \in Text, NEW c \in Character, Suffix(s, t)
  PROVE  Suffix(Append(s, c), Append(t, c))
  <1>1. Len(s) \in Nat /\ Len(t) \in Nat
    BY DEF Text
  <1>2. /\ Len(Append(s, c)) = Len(s) + 1 /\ Len(Append(t, c)) = Len(t) + 1
        /\ \A i \in 1..Len(s) : Append(s, c)[i] = s[i]
        /\ Append(s, c)[Len(s) + 1] = c
        /\ \A i \in 1..Len(t) : Append(t, c)[i] = t[i]
        /\ Append(t, c)[Len(t) + 1] = c
    BY AppendProperties DEF Text
  <1> QED BY <1>1, <1>2 DEF Suffix

LEMMA SuffixButLast ==
  ASSUME NEW s \in Text, NEW t \in Text, s # <<>>, t # <<>>, Suffix(s, t)
  PROVE  Suffix(ButLast(s), ButLast(t))
  <1>1. Len(s) \in Nat /\ Len(t) \in Nat
    BY DEF Text
  <1>2. /\ Len(ButLast(s)) = Len(s) - 1 /\ Len(ButLast(t)) = Len(t) - 1
        /\ \A i \in 1..Len(s) - 1 : ButLast(s)[i] = s[i]
        /\ \A i \in 1..Len(t) - 1 : ButLast(t)[i] = t[i]
    BY ButLastProperties DEF Text
  <1> QED BY <1>1, <1>2 DEF Suffix

LEMMA SuffixOfAny ==
  ASSUME NEW t \in Text
  PROVE  Suffix(<<>>, t) /\ Suffix(t, t)
  <1>1. Len(t) \in Nat /\ Len(<<>>) = 0
    BY DEF Text
  <1> QED BY <1>1 DEF Suffix

LEMMA LastBlockIsText ==
  ASSUME NEW s \in Text, NEW b \in LastBlock(s)
  PROVE  b \in Text
  <1>1. PICK i \in (DOMAIN s) \cup {0} : b = SubSeq(s, i + 1, Len(s))
    BY DEF LastBlock
  <1>2. Len(s) \in Nat /\ DOMAIN s = 1..Len(s)
    BY LenProperties DEF Text
  <1>3. i + 1 \in Int /\ \A j \in i + 1 .. Len(s) : s[j] \in Character \cup {NewLine}
    BY <1>1, <1>2, ElementOfSeq DEF Text
  <1> QED BY <1>1, <1>2, <1>3, SubSeqProperties DEF Text

-------------------------------------------------------------------------------
(***************************************************************************)
(* What the type invariant says of the command being typed                 *)
(***************************************************************************)
LEMMA TypedCommand ==
  ASSUME IInv, ~isLocked
  PROVE  /\ currentMessage \in Seq(Character) /\ Len(currentMessage) \in 0..MaxLength
         /\ currentMessage \in Command /\ currentMessage \in Text
         /\ writeOp.state = "none" /\ io = "poll"
  BY CommandIsSeq DEF IInv, LockInv, TypeOK

WriteOps == [state : {"none", "writing", "done", "failed"},
             offset : Nat, length : Nat, sent : Nat]

LEMMA InitInvariant == Init => IInv
  <1> SUFFICES ASSUME Init PROVE IInv
    OBVIOUS
  <1>1. <<>> \in Text /\ <<>> \in Command
    BY EmptyCommand
  <1>2. TypeOK
    <2>1. history = <<>> /\ 0 \in 0..Len(<<>>)
      BY EmptySeq DEF Init
    <2>2. NoOp \in WriteOps
      BY DEF NoOp, WriteOps
    <2>3. received \in Seq(Seq(Character)) /\ posted \in Seq(Outputs)
          /\ history \in Seq(Command) /\ partial \in Seq(Character)
      BY EmptySeq DEF Init
    <2> QED BY <1>1, <2>1, <2>2, <2>3 DEF Init, TypeOK, WriteOps
  <1>3. LockInv /\ WriteInv
    BY <1>1 DEF Init, LockInv, WriteInv, NoOp
  <1>4. CameraInv
    BY DEF Init, CameraInv, CommandSent, NoOp
  <1>5. SeenIsSent
    BY <1>1, SuffixOfAny DEF Init, SeenIsSent
  <1> QED BY <1>2, <1>3, <1>4, <1>5 DEF IInv

-------------------------------------------------------------------------------
(***************************************************************************)
(* The GUI thread                                                          *)
(***************************************************************************)
LEMMA TypeCharacterStep ==
  ASSUME IInv, NEW c \in Character, TypeCharacter(c)
  PROVE  IInv'
  <1>1. /\ ~isLocked /\ Len(currentMessage) < MaxLength
        /\ line' = Append(line, c) /\ currentMessage' = Append(currentMessage, c)
        /\ UNCHANGED <<isLocked, transferred, history, historyPos, printing,
                       posted, io, writeOp, link, terminated, interrupted,
                       partial, received>>
    BY DEF TypeCharacter, camera
  <1>2. /\ currentMessage \in Seq(Character) /\ Len(currentMessage) \in Nat
        /\ currentMessage \in Text /\ writeOp.state = "none" /\ io = "poll"
    BY <1>1, TypedCommand
  <1>3. currentMessage' \in Command
    <2>1. currentMessage' \in Seq(Character) /\ Len(currentMessage') = Len(currentMessage) + 1
      BY <1>1, <1>2, AppendProperties
    <2>2. Len(currentMessage') <= MaxLength
      BY <1>1, <1>2, <2>1, BoundAssumption
    <2> QED BY <2>1, <2>2, SeqIsCommand
  <1>4. line \in Text /\ line' \in Text
    BY <1>1, AppendProperties DEF IInv, TypeOK, Text
  <1>5. TypeOK'
    BY <1>1, <1>3, <1>4, CommandIsSeq DEF IInv, TypeOK
  <1>6. LockInv' /\ WriteInv' /\ CameraInv'
    BY <1>1, <1>2, <1>3 DEF IInv, LockInv, WriteInv, CameraInv, CommandSent
  <1>7. SeenIsSent'
    BY <1>1, <1>2, <1>4, SuffixAppend DEF IInv, SeenIsSent
  <1> QED BY <1>5, <1>6, <1>7 DEF IInv

LEMMA BackspaceStep ==
  ASSUME IInv, Backspace
  PROVE  IInv'
  <1>1. /\ ~isLocked /\ line # <<>> /\ line' = ButLast(line)
        /\ currentMessage' = IF currentMessage = <<>> THEN <<>> ELSE ButLast(currentMessage)
        /\ UNCHANGED <<isLocked, transferred, history, historyPos, printing,
                       posted, io, writeOp, link, terminated, interrupted,
                       partial, received>>
    BY DEF Backspace, camera
  <1>2. /\ currentMessage \in Seq(Character) /\ Len(currentMessage) \in 0..MaxLength
        /\ currentMessage \in Text /\ currentMessage \in Command
        /\ writeOp.state = "none" /\ io = "poll"
    BY <1>1, TypedCommand
  <1>3. line \in Text /\ line' \in Text
    BY <1>1, ButLastProperties DEF IInv, TypeOK, Text
  <1>4. currentMessage' \in Command
    <2>1. CASE currentMessage = <<>>
      BY <1>1, <1>2, <2>1
    <2>2. CASE currentMessage # <<>>
      <3>1. currentMessage' \in Seq(Character) /\ Len(currentMessage') = Len(currentMessage) - 1
        BY <1>1, <1>2, <2>2, ButLastProperties
      <3> QED BY <1>2, <3>1, BoundAssumption, SeqIsCommand
    <2> QED BY <2>1, <2>2
  <1>5. TypeOK'
    BY <1>1, <1>3, <1>4, CommandIsSeq DEF IInv, TypeOK
  <1>6. LockInv' /\ WriteInv' /\ CameraInv'
    BY <1>1, <1>2, <1>4 DEF IInv, LockInv, WriteInv, CameraInv, CommandSent
  <1>7. SeenIsSent'
    BY <1>1, <1>2, <1>3, SuffixButLast, SuffixOfAny DEF IInv, SeenIsSent
  <1> QED BY <1>5, <1>6, <1>7 DEF IInv

LEMMA HistoryStep ==
  ASSUME IInv, HistoryBack \/ HistoryForward
  PROVE  IInv'
  <1>1. /\ ~isLocked /\ interrupted' = FALSE /\ line' = currentMessage'
        /\ UNCHANGED <<isLocked, transferred, history, printing, posted, io,
                       writeOp, link, terminated, partial, received>>
    BY DEF HistoryBack, HistoryForward, camera
  <1>2. writeOp.state = "none" /\ io = "poll"
    BY <1>1, TypedCommand
  <1>3. history \in Seq(Command) /\ historyPos \in 0..Len(history) /\ Len(history) \in Nat
    BY DEF IInv, TypeOK
  <1>4. currentMessage' \in Command /\ historyPos' \in 0..Len(history)
    <2>1. CASE HistoryBack
      BY <1>3, <2>1, ElementOfSeq DEF HistoryBack
    <2>2. CASE HistoryForward
      <3>1. <<>> \in Command
        BY EmptyCommand
      <3> QED BY <1>3, <2>2, <3>1, ElementOfSeq DEF HistoryForward
    <2> QED BY <2>1, <2>2
  <1>5. TypeOK'
    BY <1>1, <1>4, CommandIsSeq DEF IInv, TypeOK
  <1>6. LockInv' /\ WriteInv' /\ CameraInv'
    BY <1>1, <1>2, <1>4 DEF IInv, LockInv, WriteInv, CameraInv, CommandSent
  <1>7. SeenIsSent'
    BY <1>1, <1>4, CommandIsSeq, SuffixOfAny DEF SeenIsSent
  <1> QED BY <1>5, <1>6, <1>7 DEF IInv

LEMMA OnEnterStep ==
  ASSUME IInv, OnEnter
  PROVE  IInv'
  <1>1. /\ ~isLocked /\ isLocked' = TRUE
        /\ history' = Append(history, currentMessage) /\ historyPos' = Len(history')
        /\ transferred' = 0 /\ currentMessage' = Append(currentMessage, NewLine)
        /\ writeOp' = AsyncWrite(0, Len(currentMessage'))
        /\ line' \in {currentMessage, line}
        /\ UNCHANGED <<printing, posted, io, link, terminated, interrupted,
                       partial, received>>
    BY DEF OnEnter, camera
  <1>2. /\ currentMessage \in Command /\ currentMessage \in Seq(Character)
        /\ currentMessage \in Text /\ writeOp.state = "none" /\ io = "poll"
    BY <1>1, TypedCommand
  <1>3. /\ history \in Seq(Command) /\ history' \in Seq(Command)
        /\ Len(history) \in Nat /\ Len(history') = Len(history) + 1 /\ history' # <<>>
        /\ \A i \in 1..Len(history) : history'[i] = history[i]
        /\ history'[Len(history')] = currentMessage
    <2>1. history \in Seq(Command)
      BY DEF IInv, TypeOK
    <2>2. Len(history) \in Nat
      BY <2>1, LenProperties
    <2> QED BY <1>1, <1>2, <2>1, <2>2, AppendProperties
  <1>4. currentMessage' \in Text /\ Len(currentMessage') \in Nat \ {0}
    BY <1>1, <1>2, AppendProperties DEF Text
  <1>5. TypeOK'
    <2>1. writeOp' \in WriteOps
      BY <1>1, <1>4 DEF AsyncWrite, WriteOps
    <2>2. historyPos' \in 0..Len(history')
      BY <1>1, <1>3
    <2> QED BY <1>1, <1>2, <1>3, <1>4, <2>1, <2>2 DEF IInv, TypeOK, WriteOps
  <1>6. LockInv'
    BY <1>1, <1>2 DEF IInv, LockInv, AsyncWrite
  <1>7. WriteInv'
    BY <1>1, <1>3, <1>4 DEF WriteInv, AsyncWrite
  <1>8. CameraInv'
    <2>1. /\ received \in Seq(Seq(Character)) /\ Len(received) = Len(history)
          /\ partial = <<>> /\ \A i \in 1..Len(received) : received[i] = history[i]
      BY <1>2, <1>3 DEF IInv, TypeOK, CameraInv, CommandSent
    <2>2. ~CommandSent' /\ Written' = 0
      BY <1>1, <1>4 DEF CommandSent, Written, AsyncWrite
    <2>3. SubSeq(currentMessage', 1, 0) = <<>>
      BY SubSeqEmpty
    <2> QED BY <1>1, <1>3, <2>1, <2>2, <2>3 DEF CameraInv
  <1>9. SeenIsSent'
    BY <1>1 DEF SeenIsSent
  <1> QED BY <1>5, <1>6, <1>7, <1>8, <1>9 DEF IInv

LEMMA PrintDataStep ==
  ASSUME IInv, PrintData
  PROVE  IInv'
  <1>1. /\ posted # <<>> /\ posted' = Tail(posted) /\ line' \in LastBlock(Head(posted))
        /\ interrupted' = (interrupted \/ (~isLocked /\ currentMessage # <<>>))
        /\ UNCHANGED <<currentMessage, isLocked, transferred, history, historyPos,
                       printing, io, writeOp, link, terminated, partial, received>>
    BY DEF PrintData, camera
  <1>2. posted' \in Seq(Outputs) /\ Head(posted) \in Text
    BY <1>1, HeadTailProperties, CharacterAssumption DEF IInv, TypeOK
  <1>3. line' \in Text
    BY <1>1, <1>2, LastBlockIsText
  <1>4. interrupted' \in BOOLEAN
    BY <1>1 DEF IInv, TypeOK
  <1>5. TypeOK'
    BY <1>1, <1>2, <1>3, <1>4 DEF IInv, TypeOK
  <1>6. LockInv' /\ WriteInv' /\ CameraInv'
    BY <1>1 DEF IInv, LockInv, WriteInv, CameraInv, CommandSent, Written
  <1>7. SeenIsSent'
    <2>1. Suffix(<<>>, line')
      BY <1>3, SuffixOfAny
    <2> QED BY <1>1, <2>1 DEF SeenIsSent
  <1> QED BY <1>5, <1>6, <1>7 DEF IInv

\* Stop, ReadHandler and the network's failure leave the editor alone.
LEMMA LinkStep ==
  ASSUME IInv, Stop \/ StopThrows \/ ReadHandler \/ ConnectionBreaks
  PROVE  IInv'
  <1>1. /\ UNCHANGED <<line, currentMessage, isLocked, transferred, history,
                       historyPos, io, writeOp, interrupted, partial, received>>
        /\ printing' \in BOOLEAN /\ terminated' \in BOOLEAN
        /\ link' \in {"closed", "connected", "broken"}
    BY DEF IInv, TypeOK, Stop, StopThrows, ReadHandler, ConnectionBreaks, keys, camera
  <1>2. posted' \in Seq(Outputs)
    <2>1. CASE ReadHandler
      <3>1. PICK s \in Outputs : posted' = Append(posted, s)
        BY <2>1 DEF ReadHandler
      <3> QED BY <3>1, AppendProperties DEF IInv, TypeOK
    <2> QED BY <2>1 DEF IInv, TypeOK, Stop, StopThrows, ConnectionBreaks
  <1>3. TypeOK'
    BY <1>1, <1>2 DEF IInv, TypeOK
  <1> QED
    BY <1>1, <1>3 DEF IInv, LockInv, WriteInv, CameraInv, CommandSent, Written, SeenIsSent

-------------------------------------------------------------------------------
(***************************************************************************)
(* The io thread and the transport                                         *)
(***************************************************************************)
\* the types of a write and of the message it is about
LEMMA WriteTyped ==
  ASSUME IInv, writeOp.state # "none"
  PROVE  /\ writeOp \in WriteOps /\ currentMessage \in Text
         /\ Len(currentMessage) \in Nat /\ transferred \in Nat
         /\ writeOp.offset \in Nat /\ writeOp.length \in Nat /\ writeOp.sent \in Nat
         /\ writeOp.offset = transferred
         /\ writeOp.offset + writeOp.length = Len(currentMessage)
         /\ writeOp.sent <= writeOp.length
         /\ isLocked /\ io = "poll"
  <1>1. writeOp \in WriteOps /\ currentMessage \in Text /\ transferred \in Nat
    BY DEF IInv, TypeOK, WriteOps
  <1>2. Len(currentMessage) \in Nat
    BY <1>1 DEF Text
  <1> QED BY <1>1, <1>2 DEF IInv, TypeOK, LockInv, WriteInv, WriteOps

LEMMA SendReminderStep ==
  ASSUME IInv, SendReminder
  PROVE  IInv'
  <1>1. /\ writeOp.state = "done" /\ transferred + writeOp.sent < Len(currentMessage)
        /\ transferred' = transferred + writeOp.sent
        /\ writeOp' = AsyncWrite(transferred', Len(currentMessage) - transferred')
        /\ UNCHANGED <<line, currentMessage, isLocked, history, historyPos, printing,
                       posted, io, link, terminated, interrupted, partial, received>>
    BY DEF SendReminder, camera
  <1>2. /\ writeOp \in WriteOps /\ Len(currentMessage) \in Nat /\ transferred \in Nat
        /\ writeOp.offset = transferred /\ writeOp.sent \in Nat /\ writeOp.length \in Nat
        /\ writeOp.offset + writeOp.length = Len(currentMessage)
        /\ isLocked /\ io = "poll"
    BY <1>1, WriteTyped
  <1>3. /\ writeOp'.state = "writing" /\ writeOp'.offset = transferred + writeOp.sent
        /\ writeOp'.length = Len(currentMessage) - (transferred + writeOp.sent)
        /\ writeOp'.length > 0 /\ writeOp'.sent = 0 /\ writeOp' \in WriteOps
        /\ transferred' \in Nat
    <2>1. transferred' \in Nat /\ Len(currentMessage) - transferred' \in Nat \ {0}
      <3>1. transferred + writeOp.sent \in Nat
        BY ONLY <1>2
      <3>2. Len(currentMessage) - (transferred + writeOp.sent) \in Nat \ {0}
        BY ONLY <1>1, <1>2, <3>1
      <3> QED BY ONLY <1>1, <3>1, <3>2
    <2> QED BY <1>1, <2>1 DEF AsyncWrite, WriteOps
  <1>4. TypeOK'
    BY <1>1, <1>3 DEF IInv, TypeOK, WriteOps
  <1>5. LockInv' /\ SeenIsSent'
    BY <1>1, <1>2, <1>3 DEF IInv, LockInv, SeenIsSent
  <1>6. WriteInv'
    <2>1. /\ writeOp'.offset = transferred'
          /\ writeOp'.offset + writeOp'.length = Len(currentMessage')
          /\ writeOp'.sent <= writeOp'.length
      <3>1. Len(currentMessage') = Len(currentMessage)
        BY <1>1
      <3>2. transferred' = transferred + writeOp.sent
        BY <1>1
      <3>3. /\ writeOp'.offset = transferred' /\ writeOp'.sent <= writeOp'.length
            /\ writeOp'.length = Len(currentMessage') - transferred'
            /\ transferred' \in Nat /\ Len(currentMessage') \in Nat
        BY ONLY <1>2, <1>3, <3>1, <3>2
      <3> QED BY ONLY <3>3
    <2> QED BY <1>1, <1>3, <2>1 DEF IInv, WriteInv
  <1>7. CameraInv'
    <2>1. writeOp.sent # writeOp.length
      BY <1>1, <1>2
    <2>2. writeOp'.sent # writeOp'.length
      BY <1>3
    <2>3. writeOp'.offset + writeOp'.sent = writeOp.offset + writeOp.sent
      BY <1>2, <1>3
    <2>4. ~CommandSent /\ ~CommandSent' /\ Written' = Written
      BY <1>1, <1>3, <2>1, <2>2, <2>3 DEF CommandSent, Written
    <2> QED BY <1>1, <2>4 DEF IInv, CameraInv
  <1> QED BY <1>4, <1>5, <1>6, <1>7 DEF IInv

LEMMA ClearMessageStep ==
  ASSUME IInv, ClearMessage
  PROVE  IInv'
  <1>1. /\ writeOp.state = "done" /\ transferred + writeOp.sent >= Len(currentMessage)
        /\ transferred' = transferred + writeOp.sent /\ currentMessage' = <<>>
        /\ writeOp' = NoOp /\ io' = "unlock" /\ interrupted' = FALSE
        /\ UNCHANGED <<line, isLocked, history, historyPos, printing, posted, link,
                       terminated, partial, received>>
    BY DEF ClearMessage, camera
  <1>2. /\ Len(currentMessage) \in Nat /\ transferred \in Nat
        /\ writeOp.offset = transferred /\ writeOp.sent \in Nat /\ writeOp.length \in Nat
        /\ writeOp.offset + writeOp.length = Len(currentMessage)
        /\ writeOp.sent <= writeOp.length /\ isLocked
    BY <1>1, WriteTyped
  <1>3. CommandSent /\ CommandSent'
    BY <1>1, <1>2 DEF CommandSent, NoOp
  <1>4. TypeOK'
    <2>1. transferred' \in Nat
      BY <1>1, <1>2
    <2>2. writeOp' \in WriteOps
      BY <1>1 DEF NoOp, WriteOps
    <2>3. currentMessage' \in Text
      BY <1>1, EmptyCommand
    <2> QED BY <1>1, <2>1, <2>2, <2>3 DEF IInv, TypeOK, WriteOps
  <1>5. LockInv' /\ WriteInv' /\ SeenIsSent'
    BY <1>1, <1>2 DEF IInv, LockInv, WriteInv, SeenIsSent, NoOp
  <1>6. CameraInv'
    BY <1>1, <1>3 DEF IInv, CameraInv
  <1> QED BY <1>4, <1>5, <1>6 DEF IInv

LEMMA UnlockStep ==
  ASSUME IInv, Unlock
  PROVE  IInv'
  <1>1. /\ io = "unlock" /\ isLocked' = FALSE /\ io' = "poll"
        /\ UNCHANGED <<line, currentMessage, transferred, history, historyPos, printing,
                       posted, writeOp, link, terminated, interrupted, partial, received>>
    BY DEF Unlock, camera
  <1>2. writeOp.state = "none" /\ currentMessage = <<>> /\ line \in Text
    BY <1>1 DEF IInv, LockInv, TypeOK
  <1>3. <<>> \in Command /\ Suffix(<<>>, line)
    BY <1>2, EmptyCommand, SuffixOfAny
  <1>4. TypeOK'
    BY <1>1 DEF IInv, TypeOK
  <1> QED
    BY <1>1, <1>2, <1>3, <1>4 DEF IInv, LockInv, WriteInv, CameraInv, CommandSent, SeenIsSent

LEMMA SendUnitStep ==
  ASSUME IInv, SendUnit
  PROVE  IInv'
  <1> DEFINE k == Written + 1
             c == currentMessage[k]
  <1>1. /\ writeOp.state = "writing" /\ writeOp.sent < writeOp.length
        /\ writeOp' = [writeOp EXCEPT !.sent = @ + 1]
        /\ UNCHANGED <<line, currentMessage, isLocked, transferred, history, historyPos,
                       printing, posted, io, link, terminated, interrupted>>
    BY DEF SendUnit, keys
  <1>2. IF c = NewLine THEN received' = Append(received, partial) /\ partial' = <<>>
                       ELSE partial' = Append(partial, c) /\ received' = received
    BY DEF SendUnit, Written
  <1>3. /\ writeOp \in WriteOps /\ Len(currentMessage) \in Nat /\ transferred \in Nat
        /\ writeOp.offset = transferred /\ writeOp.offset \in Nat
        /\ writeOp.sent \in Nat /\ writeOp.length \in Nat
        /\ writeOp.offset + writeOp.length = Len(currentMessage)
        /\ isLocked /\ io = "poll"
    BY <1>1, WriteTyped
  <1>4. /\ writeOp'.state = "writing" /\ writeOp'.offset = writeOp.offset
        /\ writeOp'.length = writeOp.length /\ writeOp'.sent = writeOp.sent + 1
        /\ writeOp' \in WriteOps
    BY <1>1, <1>3 DEF WriteOps
  <1>5. PICK cmd \in Command : /\ cmd = history[Len(history)]
                               /\ history # <<>>
                               /\ currentMessage = Append(cmd, NewLine)
    <2>1. history \in Seq(Command) /\ history # <<>>
          /\ currentMessage = Append(history[Len(history)], NewLine)
      BY <1>1 DEF IInv, TypeOK, WriteInv
    <2>2. Len(history) \in 1..Len(history)
      BY <2>1, EmptySeq
    <2> QED BY <2>1, <2>2, ElementOfSeq
  <1>6. /\ cmd \in Seq(Character) /\ Len(cmd) \in Nat /\ Len(currentMessage) = Len(cmd) + 1
        /\ currentMessage \in Text
        /\ \A i \in 1..Len(cmd) : currentMessage[i] = cmd[i] /\ cmd[i] \in Character
        /\ currentMessage[Len(cmd) + 1] = NewLine
    <2>1. cmd \in Seq(Character) /\ cmd \in Text
      BY <1>5, CommandIsSeq
    <2> QED BY <1>5, <2>1, AppendProperties, ElementOfSeq DEF Text
  <1>7. k \in 1..Len(currentMessage) /\ Written \in Nat
    BY <1>1, <1>3 DEF Written
  <1>8. ~CommandSent /\ partial = SubSeq(currentMessage, 1, Written)
        /\ Len(history) = Len(received) + 1 /\ Len(received) \in Nat
        /\ received \in Seq(Seq(Character)) /\ partial \in Seq(Character)
        /\ \A i \in 1..Len(received) : received[i] = history[i]
    <2>1. ~CommandSent /\ received \in Seq(Seq(Character)) /\ partial \in Seq(Character)
      BY <1>1, <1>3 DEF CommandSent, IInv, TypeOK
    <2>2. Len(received) \in Nat
      BY <2>1
    <2> QED BY <2>1, <2>2 DEF IInv, CameraInv
  <1>9. LockInv' /\ WriteInv' /\ SeenIsSent'
    BY <1>1, <1>3, <1>4 DEF IInv, LockInv, WriteInv, SeenIsSent
  <1>10. Written' = k
    BY <1>1, <1>3, <1>4 DEF Written
  <1>11. CASE c = NewLine
    <2>1. k = Len(currentMessage) /\ Written = Len(cmd)
      <3>1. CharacterAssumption!1
        BY CharacterAssumption
      <3> QED BY <1>6, <1>7, <1>11, <3>1
    <2>2. partial = cmd
      <3>1. \A i \in 1..Len(cmd) : currentMessage[i] \in Character
        BY <1>6
      <3>2. /\ Len(SubSeq(currentMessage, 1, Len(cmd))) = Len(cmd)
            /\ \A i \in 1..Len(cmd) : SubSeq(currentMessage, 1, Len(cmd))[i] = currentMessage[i]
        BY <1>6, <3>1, SubSeqProperties
      <3> QED BY <1>6, <1>8, <2>1, <3>2, SeqEqual
    <2>3. /\ received' \in Seq(Seq(Character)) /\ Len(received') = Len(received) + 1
          /\ \A i \in 1..Len(received) : received'[i] = received[i]
          /\ received'[Len(received) + 1] = cmd /\ partial' = <<>>
      <3>1. received' = Append(received, cmd) /\ partial' = <<>>
        BY <1>2, <1>11, <2>2
      <3>2. cmd \in Seq(Character) /\ received \in Seq(Seq(Character))
        BY <1>6, <1>8
      <3> HIDE DEF c, k
      <3> QED BY <3>1, <3>2, AppendProperties
    <2>4. CommandSent'
      BY <1>3, <1>4, <1>10, <2>1 DEF CommandSent, Written
    <2>5. CameraInv'
      <3>1. Len(history') = Len(received')
        BY <1>1, <1>8, <2>3
      <3>2. \A i \in 1..Len(received') : received'[i] = history'[i]
        <4> SUFFICES ASSUME NEW i \in 1..Len(received) + 1
                     PROVE  received'[i] = history[i]
          BY <1>1, <2>3
        <4>1. CASE i = Len(received) + 1
          BY <1>5, <1>8, <2>3, <4>1
        <4>2. CASE i \in 1..Len(received)
          BY <1>8, <2>3, <4>2
        <4> QED BY <1>8, <4>1, <4>2
      <3> QED BY <2>3, <2>4, <3>1, <3>2 DEF CameraInv
    <2>6. TypeOK'
      BY <1>1, <1>4, <2>3, EmptySeq DEF IInv, TypeOK, WriteOps
    <2> QED BY <1>9, <2>5, <2>6 DEF IInv
  <1>12. CASE c # NewLine
    <2>1. k \in 1..Len(cmd) /\ c \in Character /\ c = cmd[k]
      <3>1. k # Len(cmd) + 1
        BY <1>6, <1>12
      <3>2. k \in 1..Len(cmd)
        BY <1>6, <1>7, <3>1
      <3> QED BY <1>6, <3>2
    <2>2. partial' = Append(partial, c) /\ partial' \in Seq(Character) /\ received' = received
      BY <1>2, <1>8, <1>12, <2>1, AppendProperties
    <2>3. SubSeq(currentMessage, 1, k) = Append(SubSeq(currentMessage, 1, Written), c)
      <3>1. currentMessage \in Seq(Character \cup {NewLine})
        BY <1>6 DEF Text
      <3>2. 1 \in 1..Len(currentMessage) /\ k \in 1..Len(currentMessage) /\ k - 1 = Written
        BY <1>7
      <3>3. SubSeq(currentMessage, 1, k) = SubSeq(currentMessage, 1, k - 1) \o <<currentMessage[k]>>
        BY <3>1, <3>2, SubSeqRecursiveSecond
      <3>4. SubSeq(currentMessage, 1, Written) \o <<c>>
            = Append(SubSeq(currentMessage, 1, Written), c)
        BY <1>8, <2>1, AppendIsConcat
      <3> QED BY <3>2, <3>3, <3>4
    <2>4. ~CommandSent'
      BY <1>3, <1>4, <1>6, <1>10, <2>1 DEF CommandSent, Written
    <2>5. CameraInv'
      BY <1>1, <1>8, <1>10, <2>2, <2>3, <2>4 DEF CameraInv
    <2>6. TypeOK'
      BY <1>1, <1>4, <2>2 DEF IInv, TypeOK, WriteOps
    <2> QED BY <1>9, <2>5, <2>6 DEF IInv
  <1> QED BY <1>11, <1>12

\* A write that ends, well or badly, changes nothing else.
LEMMA WriteEndsStep ==
  ASSUME IInv, WriteCompletes \/ WriteFails
  PROVE  IInv'
  <1>1. /\ writeOp.state = "writing"
        /\ \/ writeOp' = [writeOp EXCEPT !.state = "done"]
           \/ writeOp.sent < writeOp.length /\ writeOp' = [writeOp EXCEPT !.state = "failed"]
        /\ UNCHANGED <<line, currentMessage, isLocked, transferred, history, historyPos,
                       printing, posted, io, link, terminated, interrupted, partial, received>>
    BY DEF WriteCompletes, WriteFails, keys, camera
  <1>2. writeOp \in WriteOps
    BY <1>1, WriteTyped
  <1>3. /\ writeOp'.state \in {"done", "failed"} /\ writeOp' \in WriteOps
        /\ writeOp'.state = "failed" => writeOp.sent < writeOp.length
        /\ writeOp'.offset = writeOp.offset /\ writeOp'.length = writeOp.length
        /\ writeOp'.sent = writeOp.sent
    BY <1>1, <1>2 DEF WriteOps
  <1>4. TypeOK'
    BY <1>1, <1>3 DEF IInv, TypeOK, WriteOps
  <1>5. LockInv' /\ SeenIsSent'
    BY <1>1, <1>3 DEF IInv, LockInv, SeenIsSent
  <1>6. WriteInv'
    BY <1>1, <1>3 DEF IInv, WriteInv
  <1>7. CameraInv'
    <2>1. (CommandSent' <=> CommandSent) /\ Written' = Written
      BY <1>1, <1>3 DEF CommandSent, Written
    <2> QED BY <1>1, <2>1 DEF IInv, CameraInv
  <1> QED BY <1>4, <1>5, <1>6, <1>7 DEF IInv

-------------------------------------------------------------------------------
LEMMA StepInvariant == IInv /\ [Next]_vars => IInv'
  <1> SUFFICES ASSUME IInv, [Next]_vars PROVE IInv'
    OBVIOUS
  <1>1. CASE UNCHANGED vars
    BY <1>1 DEF vars, keys, camera, IInv, TypeOK, LockInv, WriteInv, CameraInv,
       CommandSent, Written, SeenIsSent
  <1>2. CASE KeyPress
    BY <1>2, TypeCharacterStep, BackspaceStep, OnEnterStep, HistoryStep DEF KeyPress
  <1>3. CASE WriteHandler
    BY <1>3, SendReminderStep, ClearMessageStep, UnlockStep DEF WriteHandler
  <1>4. CASE Transport
    BY <1>4, SendUnitStep, WriteEndsStep DEF Transport
  <1> QED
    BY <1>1, <1>2, <1>3, <1>4, PrintDataStep, LinkStep DEF Next

\* IInv holds in every state, for every order of the GUI and the io thread.
THEOREM Invariance == Spec => []IInv
  BY InitInvariant, StepInvariant, PTL DEF Spec

\* Every variable of the monitor keeps its type, and m_history.at its range.
THEOREM TypeCorrect == Spec => []TypeOK
  <1>1. IInv => TypeOK
    BY DEF IInv
  <1> QED BY <1>1, Invariance, PTL

\* The camera gets the commands whole and in order; an unlocked editor means
\* that it has them all.
THEOREM CommandsArriveInOrder == Spec => []CommandsInOrder
  <1>1. IInv => CommandsInOrder
    <2> SUFFICES ASSUME IInv PROVE CommandsInOrder
      OBVIOUS
    <2>1. received \in Seq(Seq(Character)) /\ history \in Seq(Command)
      BY DEF IInv, TypeOK
    <2>2. Len(received) \in Nat /\ Len(history) \in Nat
      BY <2>1
    <2>3. ~isLocked => CommandSent
      BY DEF IInv, LockInv, CommandSent
    <2> QED BY <2>2, <2>3 DEF IInv, CameraInv, CommandsInOrder
  <1> QED BY <1>1, Invariance, PTL

\* Return sends what is seen, unless output came in between.
THEOREM SeenIsWhatIsSent == Spec => []SeenIsSent
  <1>1. IInv => SeenIsSent
    BY DEF IInv
  <1> QED BY <1>1, Invariance, PTL

\* Nobody changes m_currentMessage under an outstanding write.
THEOREM BufferIsStable == Spec => BufferStable
  <1>1. IInv /\ [Next]_vars =>
          [writeOp.state \in {"writing", "failed"} => UNCHANGED currentMessage]_vars
    <2> SUFFICES ASSUME IInv, Next, writeOp.state \in {"writing", "failed"}
                 PROVE  currentMessage' = currentMessage
      BY DEF vars
    <2>1. isLocked
      BY DEF IInv, LockInv
    <2>2. ~KeyPress
      BY <2>1 DEF KeyPress, TypeCharacter, Backspace, OnEnter, HistoryBack, HistoryForward
    <2>3. ~ClearMessage
      BY DEF ClearMessage
    <2> QED
      BY <2>2, <2>3 DEF Next, PrintData, Stop, StopThrows, ReadHandler, WriteHandler,
         SendReminder, Unlock, Transport, SendUnit, WriteCompletes, WriteFails,
         ConnectionBreaks, keys, vars
  <1> QED BY <1>1, Invariance, PTL DEF Spec, BufferStable

\* After a failed write the monitor takes no key and sends no command again.
THEOREM StuckStaysStuck == Spec => StuckForGood
  <1>1. IInv /\ [Next]_vars =>
          [Stuck => Stuck' /\ isLocked' /\ UNCHANGED <<currentMessage, history, camera>>]_vars
    <2> SUFFICES ASSUME IInv, Next, writeOp.state = "failed"
                 PROVE  /\ writeOp'.state = "failed" /\ isLocked'
                        /\ UNCHANGED <<currentMessage, history, camera>>
      BY DEF Stuck
    <2>1. isLocked /\ io = "poll"
      BY DEF IInv, LockInv, TypeOK
    <2>2. ~KeyPress
      BY <2>1 DEF KeyPress, TypeCharacter, Backspace, OnEnter, HistoryBack, HistoryForward
    <2>3. ~WriteHandler /\ ~Transport
      BY <2>1 DEF WriteHandler, SendReminder, ClearMessage, Unlock, Transport, SendUnit,
         WriteCompletes, WriteFails
    <2> QED
      BY <2>1, <2>2, <2>3 DEF Next, PrintData, Stop, StopThrows, ReadHandler,
         ConnectionBreaks, keys, camera, vars
  <1> QED BY <1>1, Invariance, PTL DEF Spec, StuckForGood
-------------------------------------------------------------------------------
(***************************************************************************)
(* Refinement of LogChannel                                                *)
(***************************************************************************)
\* What the camera completes is the next command.
LEMMA CameraGetsNext ==
  ASSUME IInv, SendUnit
  PROVE  \/ UNCHANGED received
         \/ /\ Len(received) < Len(history)
            /\ received' = Append(received, history[Len(received) + 1])
  <1>1. IInv'
    BY SendUnitStep
  <1>2. /\ received \in Seq(Seq(Character)) /\ partial \in Seq(Character)
        /\ Len(received) \in Nat /\ history' = history
    BY LenProperties DEF IInv, TypeOK, SendUnit, keys
  <1>3. SUFFICES ASSUME received' = Append(received, partial)
                 PROVE  /\ Len(received) < Len(history)
                        /\ partial = history[Len(received) + 1]
    BY DEF SendUnit
  <1>4. Len(received') = Len(received) + 1 /\ received'[Len(received) + 1] = partial
    BY <1>2, <1>3, AppendProperties
  <1>5. \A i \in 1..Len(received') : received'[i] = history'[i]
    BY <1>1 DEF IInv, CameraInv
  <1>6. partial = history[Len(received) + 1]
    <2>1. Len(received) + 1 \in 1..Len(received')
      BY <1>2, <1>4
    <2> QED BY <1>2, <1>4, <1>5, <2>1
  <1>7. writeOp.sent # writeOp.length /\ writeOp.state # "none"
    BY WriteTyped DEF SendUnit
  <1>8. Len(history) = Len(received) + 1
    BY <1>7 DEF IInv, CameraInv, CommandSent
  <1> QED BY <1>2, <1>6, <1>8

\* The monitor is a FIFO channel of commands that a failed write cuts.
THEOREM RefinesChannel == Spec => ImplementsChannel
  <1>1. Init => Channel!Init
    BY DEF Init, Channel!Init, Stuck, NoOp
  <1>2. IInv /\ [Next]_vars => [Channel!Next]_(Channel!channelVars)
    <2> SUFFICES ASSUME IInv, [Next]_vars
                 PROVE  Channel!Next \/ UNCHANGED <<history, received, Stuck>>
      BY DEF Channel!channelVars
    <2>1. CASE OnEnter
      <3>1. currentMessage \in Command /\ writeOp.state = "none"
        BY <2>1, TypedCommand DEF OnEnter
      <3>2. /\ history' = Append(history, currentMessage)
            /\ UNCHANGED received /\ UNCHANGED Stuck
        BY <2>1, <3>1 DEF OnEnter, camera, Stuck, AsyncWrite
      <3> QED BY <3>1, <3>2 DEF Channel!Next, Channel!Accept
    <2>2. CASE SendUnit
      <3>1. UNCHANGED history /\ ~Stuck /\ ~Stuck'
        <4>1. writeOp'.state = writeOp.state /\ writeOp.state = "writing"
          BY <2>2, WriteTyped DEF SendUnit, WriteOps
        <4> QED BY <2>2, <4>1 DEF SendUnit, keys, Stuck
      <3>2. CASE UNCHANGED received
        BY <3>1, <3>2 DEF Stuck
      <3>3. CASE /\ Len(received) < Len(history)
                 /\ received' = Append(received, history[Len(received) + 1])
        <4>1. UNCHANGED Stuck
          BY <3>1 DEF Stuck
        <4> QED BY <3>1, <3>3, <4>1 DEF Channel!Next, Channel!Deliver
      <3> QED
        BY <2>2, <3>2, <3>3, CameraGetsNext
    <2>3. CASE WriteFails
      <3>1. Stuck' /\ UNCHANGED <<history, received>>
        <4>1. writeOp'.state = "failed"
          BY <2>3, WriteTyped DEF WriteFails, WriteOps
        <4> QED BY <2>3, <4>1 DEF WriteFails, keys, camera, Stuck
      <3> QED BY <3>1 DEF Channel!Next, Channel!Cut
    <2>4. CASE WriteCompletes
      <3>1. writeOp'.state = "done" /\ writeOp.state = "writing"
        BY <2>4, WriteTyped DEF WriteCompletes, WriteOps
      <3> QED BY <2>4, <3>1 DEF WriteCompletes, keys, camera, Stuck
    <2>5. CASE WriteHandler
      BY <2>5 DEF WriteHandler, SendReminder, ClearMessage, Unlock, camera, Stuck,
         AsyncWrite, NoOp
    <2>6. CASE KeyPress /\ ~OnEnter
      BY <2>6 DEF KeyPress, TypeCharacter, Backspace, HistoryBack, HistoryForward,
         camera, Stuck
    <2>7. CASE PrintData \/ Stop \/ StopThrows \/ ReadHandler \/ ConnectionBreaks
      BY <2>7 DEF PrintData, Stop, StopThrows, ReadHandler, ConnectionBreaks, keys,
         camera, Stuck
    <2>8. CASE UNCHANGED vars
      BY <2>8 DEF vars, keys, camera, Stuck
    <2> QED
      BY <2>1, <2>2, <2>3, <2>4, <2>5, <2>6, <2>7, <2>8 DEF Next, Transport
  <1> QED
    BY <1>1, <1>2, Invariance, PTL DEF Spec, ImplementsChannel, Channel!Spec
===============================================================================
