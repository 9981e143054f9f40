---------------------------- MODULE Lifecycle_proofs ----------------------------
(***************************************************************************)
(* Proofs about Lifecycle: IInv is inductive, so the process makes one log *)
(* client, messages find it as long as it is there, and they are cut to    *)
(* its settings, whatever the threads' order was.                          *)
(***************************************************************************)
EXTENDS Lifecycle, TLAPS

USE ThreadAssumption DEF At, Goto, Dead, Count, Advance, program, object, logging

LEMMA InitInvariant == Init => IInv
  <1> SUFFICES ASSUME Init PROVE IInv
    OBVIOUS
  <1>1. TypeOK
    <2>1. DefaultSizes \in Sizes /\ 0 \in Nat /\ 0 \in 0..MaxCalls
      BY SizeAssumption
    <2> QED BY <2>1 DEF Init, TypeOK, Label
  <1>2. LockInv /\ ExitInv /\ ReadyInv /\ MessageInv /\ HeldInv
    BY DEF Init, LockInv, ExitInv, ReadyInv, MessageInv, HeldInv, Thread
  <1>3. ClientInv
    BY DEF Init, ClientInv, Thread
  <1> QED BY <1>1, <1>2, <1>3 DEF IInv

\* A tag is cut and filled up to the length that is set.
LEMMA TagLengthIsSet ==
  ASSUME sizes \in Sizes, NEW tag \in Size
  PROVE  TagLength(tag) \in Size /\ TagLength(tag) = sizes.tag
  <1>1. sizes.tag \in Size
    BY DEF Sizes
  <1>2. sizes.tag \in Nat /\ tag \in Nat
    BY <1>1, SizeAssumption
  <1>3. TagLength(tag) = sizes.tag
    BY <1>2 DEF TagLength, Padded, AtMost
  <1> QED BY <1>1, <1>3

\* A text is cut to the length that is set.
LEMMA TextIsCut ==
  ASSUME sizes \in Sizes, NEW text \in Size
  PROVE  AtMost(sizes.message, text) \in Size /\ AtMost(sizes.message, text) <= sizes.message
  <1>1. sizes.message \in Size
    BY DEF Sizes
  <1>2. sizes.message \in Nat /\ text \in Nat
    BY <1>1, SizeAssumption
  <1> QED BY <1>1, <1>2 DEF AtMost

\* A thread that is inside Get or a message is not yet joined, so the client is not
\* destroyed.
LEMMA InsideBeforeExit ==
  ASSUME IInv, NEW t \in Thread, pc[t] \notin {"idle", "gone"}
  PROVE  stage \notin {"static", "destroyed", "ended"} /\ client # "dead"
  BY DEF IInv, ExitInv, Thread

\* CLogClient::Get(pt).
LEMMA GetStep ==
  ASSUME IInv, NEW t \in Thread, CallGet(t) \/ Get(t)
  PROVE  IInv'
  <1> USE DEF IInv
  <1>1. CASE CallGet(t)
    <2>1. TypeOK'
      BY <1>1 DEF CallGet, Free, TypeOK, Label
    <2>2. LockInv'
      BY <1>1 DEF CallGet, Free, TypeOK, LockInv
    <2>3. ClientInv'
      BY <1>1 DEF CallGet, Free, TypeOK, LockInv, ClientInv
    <2>4. ExitInv' /\ ReadyInv' /\ MessageInv' /\ HeldInv'
      BY <1>1 DEF CallGet, Free, TypeOK, ClientInv, ExitInv, ReadyInv, MessageInv, HeldInv,
         Thread
    <2> QED BY <2>1, <2>2, <2>3, <2>4
  <1>2. CASE Test(t)
    <2>1. TypeOK'
      BY <1>2 DEF Test, TypeOK, Label
    <2>2. LockInv'
      BY <1>2 DEF Test, TypeOK, LockInv
    <2>3. ClientInv'
      BY <1>2 DEF Test, TypeOK, LockInv, ClientInv
    <2>4. ExitInv' /\ ReadyInv' /\ MessageInv' /\ HeldInv'
      BY <1>2 DEF Test, TypeOK, ClientInv, ExitInv, ReadyInv, MessageInv, HeldInv, Thread
    <2> QED BY <2>1, <2>2, <2>3, <2>4
  <1>3. CASE Lock(t)
    <2>1. TypeOK'
      BY <1>3 DEF Lock, TypeOK, Label
    <2>2. LockInv'
      BY <1>3 DEF Lock, TypeOK, LockInv
    <2>3. ClientInv'
      BY <1>3 DEF Lock, TypeOK, LockInv, ClientInv
    <2>4. ExitInv' /\ ReadyInv' /\ MessageInv' /\ HeldInv'
      BY <1>3 DEF Lock, TypeOK, ClientInv, ExitInv, ReadyInv, MessageInv, HeldInv, Thread
    <2> QED BY <2>1, <2>2, <2>3, <2>4
  <1>4. CASE Retest(t)
    <2>1. TypeOK'
      BY <1>4 DEF Retest, TypeOK, Label
    <2>2. LockInv'
      BY <1>4 DEF Retest, TypeOK, LockInv
    <2>3. ClientInv'
      BY <1>4, InsideBeforeExit DEF Retest, TypeOK, LockInv, ClientInv
    <2>4. ExitInv' /\ ReadyInv' /\ MessageInv' /\ HeldInv'
      BY <1>4 DEF Retest, TypeOK, ClientInv, ExitInv, ReadyInv, MessageInv, HeldInv, Thread
    <2> QED BY <2>1, <2>2, <2>3, <2>4
  <1>5. CASE \E pt \in Settings : Make(t, pt)
    <2>1. PICK pt \in Settings : Make(t, pt)
      BY <1>5
    <2>2. TypeOK'
      BY <2>1, SizeAssumption DEF Make, TypeOK, Label
    <2>3. LockInv'
      BY <2>1 DEF Make, TypeOK, LockInv
    <2>4. ClientInv'
      BY <2>1, InsideBeforeExit DEF Make, TypeOK, LockInv, ClientInv
    <2>5. ExitInv' /\ ReadyInv' /\ MessageInv' /\ HeldInv'
      BY <2>1, InsideBeforeExit DEF Make, TypeOK, ClientInv, ExitInv, ReadyInv, MessageInv,
         HeldInv, Thread
    <2> QED BY <2>2, <2>3, <2>4, <2>5
  <1>6. CASE Connect(t)
    <2>1. TypeOK'
      BY <1>6 DEF Connect, TypeOK, Label
    <2>2. LockInv'
      BY <1>6 DEF Connect, TypeOK, LockInv
    <2>3. ClientInv'
      BY <1>6, InsideBeforeExit DEF Connect, TypeOK, LockInv, ClientInv
    <2>4. ExitInv' /\ ReadyInv' /\ MessageInv' /\ HeldInv'
      BY <1>6, InsideBeforeExit DEF Connect, TypeOK, ClientInv, ExitInv, ReadyInv,
         MessageInv, HeldInv, Thread
    <2> QED BY <2>1, <2>2, <2>3, <2>4
  <1>7. CASE ConnectThrows(t)
    <2>1. TypeOK'
      BY <1>7 DEF ConnectThrows, TypeOK, Label
    <2>2. LockInv'
      BY <1>7 DEF ConnectThrows, TypeOK, LockInv
    <2>3. ClientInv'
      BY <1>7 DEF ConnectThrows, TypeOK, LockInv, ClientInv
    <2>4. ExitInv' /\ ReadyInv' /\ MessageInv' /\ HeldInv'
      BY <1>7, InsideBeforeExit DEF ConnectThrows, TypeOK, ClientInv, ExitInv, ReadyInv,
         MessageInv, HeldInv, Thread
    <2> QED BY <2>1, <2>2, <2>3, <2>4
  <1>8. CASE Publish(t)
    <2>1. TypeOK'
      BY <1>8 DEF Publish, TypeOK, Label
    <2>2. LockInv'
      BY <1>8 DEF Publish, TypeOK, LockInv
    <2>3. ClientInv'
      BY <1>8, InsideBeforeExit DEF Publish, TypeOK, LockInv, ClientInv
    <2>4. ExitInv' /\ ReadyInv' /\ MessageInv' /\ HeldInv'
      BY <1>8, InsideBeforeExit DEF Publish, TypeOK, ClientInv, ExitInv, ReadyInv,
         MessageInv, HeldInv, Thread
    <2> QED BY <2>1, <2>2, <2>3, <2>4
  <1>9. CASE Unlock(t)
    <2>1. TypeOK'
      BY <1>9 DEF Unlock, TypeOK, Label
    <2>2. LockInv'
      BY <1>9 DEF Unlock, TypeOK, LockInv
    <2>3. ClientInv'
      BY <1>9 DEF Unlock, TypeOK, LockInv, ClientInv
    <2>4. ExitInv' /\ ReadyInv' /\ MessageInv' /\ HeldInv'
      BY <1>9 DEF Unlock, TypeOK, ClientInv, ExitInv, ReadyInv, MessageInv, HeldInv, Thread
    <2> QED BY <2>1, <2>2, <2>3, <2>4
  <1>10. CASE Return(t)
    <2>1. TypeOK'
      BY <1>10 DEF Return, TypeOK, Label
    <2>2. LockInv'
      BY <1>10 DEF Return, TypeOK, LockInv
    <2>3. ClientInv'
      BY <1>10, InsideBeforeExit DEF Return, TypeOK, LockInv, ClientInv
    <2>4. ExitInv' /\ ReadyInv' /\ MessageInv' /\ HeldInv'
      BY <1>10, InsideBeforeExit DEF Return, TypeOK, ClientInv, ExitInv, ReadyInv,
         MessageInv, HeldInv, Thread
    <2> QED BY <2>1, <2>2, <2>3, <2>4
  <1> QED BY <1>1, <1>2, <1>3, <1>4, <1>5, <1>6, <1>7, <1>8, <1>9, <1>10 DEF Get

\* A message, from LOG_INFO to Push.
LEMMA LogStep ==
  ASSUME IInv, NEW t \in Thread, (\E tag \in Size : BeginLog(t, tag)) \/ Log(t)
  PROVE  IInv'
  <1> USE DEF IInv
  <1>1. CASE \E tag \in Size : BeginLog(t, tag)
    <2>1. PICK tag \in Size : BeginLog(t, tag)
      BY <1>1
    <2>2. TypeOK'
      BY <2>1, TagLengthIsSet, SizeAssumption DEF BeginLog, Free, Sizes, TypeOK, Label
    <2>3. LockInv'
      BY <2>1 DEF BeginLog, Free, Sizes, TypeOK, LockInv
    <2>4. ClientInv'
      BY <2>1 DEF BeginLog, Free, Sizes, TypeOK, LockInv, ClientInv
    <2>5. ExitInv' /\ ReadyInv' /\ HeldInv'
      BY <2>1 DEF BeginLog, Free, TypeOK, ClientInv, ExitInv, ReadyInv, HeldInv, Thread
    <2>6. MessageInv'
      <3>1. 0 <= settings.message
        <4>1. settings.message \in Size
          BY DEF TypeOK, Sizes
        <4>2. settings.message \in Nat
          BY <4>1, SizeAssumption
        <4> QED BY <4>2
      <3>2. message'[t] = [tag |-> sizes.tag, message |-> 0] /\ late'[t] = ready
        BY <2>1, TagLengthIsSet DEF BeginLog, TypeOK
      <3>3. ready => sizes = settings
        BY DEF ReadyInv
      <3>4. \A u \in Thread \ {t} :
              pc'[u] = pc[u] /\ message'[u] = message[u] /\ late'[u] = late[u]
        BY <2>1 DEF BeginLog, TypeOK
      <3> QED BY <2>1, <3>1, <3>2, <3>3, <3>4 DEF BeginLog, MessageInv
    <2> QED BY <2>2, <2>3, <2>4, <2>5, <2>6
  <1>2. CASE \E text \in Size : EndLog(t, text)
    <2>1. PICK text \in Size : EndLog(t, text)
      BY <1>2
    <2>2. TypeOK'
      BY <2>1, TextIsCut DEF EndLog, Sizes, TypeOK, Label
    <2>3. LockInv'
      BY <2>1 DEF EndLog, Sizes, TypeOK, LockInv
    <2>4. ClientInv'
      BY <2>1 DEF EndLog, Sizes, TypeOK, LockInv, ClientInv
    <2>5. ExitInv' /\ ReadyInv' /\ MessageInv' /\ HeldInv'
      BY <2>1, TextIsCut DEF EndLog, Sizes, TypeOK, ClientInv, ExitInv, ReadyInv,
         MessageInv, HeldInv, Thread
    <2> QED BY <2>2, <2>3, <2>4, <2>5
  <1>3. CASE NetSendToLogger(t)
    <2>1. TypeOK'
      BY <1>3 DEF NetSendToLogger, TypeOK, Label
    <2>2. LockInv'
      BY <1>3 DEF NetSendToLogger, TypeOK, LockInv
    <2>3. ClientInv'
      BY <1>3 DEF NetSendToLogger, TypeOK, LockInv, ClientInv
    <2>4. ExitInv' /\ ReadyInv' /\ MessageInv' /\ HeldInv'
      BY <1>3, InsideBeforeExit DEF NetSendToLogger, TypeOK, ClientInv, ExitInv, ReadyInv,
         MessageInv, HeldInv, Thread
    <2> QED BY <2>1, <2>2, <2>3, <2>4
  <1>4. CASE Push(t)
    <2>1. TypeOK'
      BY <1>4 DEF Push, TypeOK, Label
    <2>2. LockInv'
      BY <1>4 DEF Push, TypeOK, LockInv
    <2>3. ClientInv'
      BY <1>4 DEF Push, TypeOK, LockInv, ClientInv
    <2>4. ExitInv' /\ ReadyInv' /\ MessageInv' /\ HeldInv'
      BY <1>4 DEF Push, TypeOK, ClientInv, ExitInv, ReadyInv, MessageInv, HeldInv, Thread
    <2> QED BY <2>1, <2>2, <2>3, <2>4
  <1>5. CASE PushOnNull(t)
    <2>1. TypeOK'
      BY <1>5 DEF PushOnNull, TypeOK, Label
    <2>2. LockInv'
      BY <1>5 DEF PushOnNull, TypeOK, LockInv
    <2>3. ClientInv'
      BY <1>5 DEF PushOnNull, TypeOK, LockInv, ClientInv
    <2>4. ExitInv' /\ ReadyInv' /\ MessageInv' /\ HeldInv'
      BY <1>5, InsideBeforeExit DEF PushOnNull, TypeOK, ClientInv, ExitInv, ReadyInv,
         MessageInv, HeldInv, Thread
    <2> QED BY <2>1, <2>2, <2>3, <2>4
  <1> QED BY <1>1, <1>2, <1>3, <1>4, <1>5 DEF Log

\* The io thread of the window, and the end of the process.
LEMMA WindowStep ==
  ASSUME IInv, RunIo \/ RunIoReturns \/ Close \/ Exit
  PROVE  IInv'
  <1> USE DEF IInv
  <1>1. CASE RunIo
    <2>1. TypeOK'
      BY <1>1 DEF RunIo, TypeOK, Label
    <2>2. LockInv'
      BY <1>1 DEF RunIo, TypeOK, LockInv
    <2>3. ClientInv'
      BY <1>1 DEF RunIo, TypeOK, LockInv, ClientInv
    <2>4. ExitInv' /\ ReadyInv' /\ MessageInv' /\ HeldInv'
      BY <1>1 DEF RunIo, TypeOK, ClientInv, ExitInv, ReadyInv, MessageInv, HeldInv, Thread
    <2> QED BY <2>1, <2>2, <2>3, <2>4
  <1>2. CASE RunIoReturns
    <2>1. TypeOK'
      BY <1>2 DEF RunIoReturns, TypeOK, Label
    <2>2. LockInv'
      BY <1>2 DEF RunIoReturns, TypeOK, LockInv
    <2>3. ClientInv'
      BY <1>2 DEF RunIoReturns, TypeOK, LockInv, ClientInv
    <2>4. ExitInv' /\ ReadyInv' /\ MessageInv' /\ HeldInv'
      BY <1>2 DEF RunIoReturns, TypeOK, ClientInv, ExitInv, ReadyInv, MessageInv, HeldInv,
         Thread
    <2> QED BY <2>1, <2>2, <2>3, <2>4
  <1>3. CASE Close
    <2>1. TypeOK'
      BY <1>3 DEF Close, TypeOK, Label
    <2>2. LockInv'
      BY <1>3 DEF Close, TypeOK, LockInv
    <2>3. ClientInv'
      BY <1>3 DEF Close, TypeOK, LockInv, ClientInv
    <2>4. ExitInv' /\ ReadyInv' /\ MessageInv' /\ HeldInv'
      BY <1>3 DEF Close, TypeOK, ClientInv, ExitInv, ReadyInv, MessageInv, HeldInv, Thread
    <2> QED BY <2>1, <2>2, <2>3, <2>4
  <1>4. CASE StopIo
    <2>1. TypeOK'
      BY <1>4 DEF StopIo, TypeOK, Label
    <2>2. LockInv'
      BY <1>4 DEF StopIo, TypeOK, LockInv
    <2>3. ClientInv'
      BY <1>4 DEF StopIo, TypeOK, LockInv, ClientInv
    <2>4. ExitInv' /\ ReadyInv' /\ MessageInv' /\ HeldInv'
      BY <1>4 DEF StopIo, TypeOK, ClientInv, ExitInv, ReadyInv, MessageInv, HeldInv, Thread
    <2> QED BY <2>1, <2>2, <2>3, <2>4
  <1>5. CASE Join
    <2>1. TypeOK'
      BY <1>5 DEF Join, TypeOK, Label
    <2>2. LockInv'
      BY <1>5 DEF Join, TypeOK, LockInv
    <2>3. ClientInv'
      BY <1>5 DEF Join, TypeOK, LockInv, ClientInv
    <2>4. ExitInv' /\ ReadyInv' /\ MessageInv' /\ HeldInv'
      BY <1>5 DEF Join, TypeOK, ClientInv, ExitInv, ReadyInv, MessageInv, HeldInv, Thread
    <2> QED BY <2>1, <2>2, <2>3, <2>4
  <1>6. CASE DestroyClient
    <2>1. TypeOK'
      BY <1>6 DEF DestroyClient, Thread, ExitInv, TypeOK, Label
    <2>2. LockInv'
      BY <1>6 DEF DestroyClient, Thread, ExitInv, TypeOK, LockInv
    <2>3. ClientInv'
      BY <1>6 DEF DestroyClient, Thread, ExitInv, TypeOK, LockInv, ClientInv
    <2>4. ExitInv' /\ ReadyInv' /\ MessageInv' /\ HeldInv'
      BY <1>6 DEF DestroyClient, Thread, ExitInv, TypeOK, ClientInv, ExitInv, ReadyInv,
         MessageInv, HeldInv, Thread
    <2> QED BY <2>1, <2>2, <2>3, <2>4
  <1>7. CASE EndProcess
    <2>1. TypeOK'
      BY <1>7 DEF EndProcess, Thread, ExitInv, TypeOK, Label
    <2>2. LockInv'
      BY <1>7 DEF EndProcess, Thread, ExitInv, TypeOK, LockInv
    <2>3. ClientInv'
      BY <1>7 DEF EndProcess, Thread, ExitInv, TypeOK, LockInv, ClientInv
    <2>4. ExitInv' /\ ReadyInv' /\ MessageInv' /\ HeldInv'
      BY <1>7 DEF EndProcess, Thread, ExitInv, TypeOK, ClientInv, ExitInv, ReadyInv,
         MessageInv, HeldInv, Thread
    <2> QED BY <2>1, <2>2, <2>3, <2>4
  <1> QED BY <1>1, <1>2, <1>3, <1>4, <1>5, <1>6, <1>7 DEF Exit

LEMMA Inductive == IInv /\ [Next]_vars => IInv'
  <1> SUFFICES ASSUME IInv, [Next]_vars PROVE IInv'
    OBVIOUS
  <1>1. CASE \E t \in Thread : CallGet(t) \/ Get(t)
    BY <1>1, GetStep
  <1>2. CASE \E t \in Thread : (\E tag \in Size : BeginLog(t, tag)) \/ Log(t)
    BY <1>2, LogStep
  <1>3. CASE RunIo \/ RunIoReturns \/ Close \/ Exit
    BY <1>3, WindowStep
  <1>4. CASE UNCHANGED vars
    BY <1>4 DEF vars, IInv, TypeOK, LockInv, ClientInv, ExitInv, ReadyInv, MessageInv,
         HeldInv
  <1> QED BY <1>1, <1>2, <1>3, <1>4 DEF Next

THEOREM Invariant == Spec => []IInv
  BY InitInvariant, Inductive, PTL DEF Spec

\* Every variable of the program keeps its type, for any lengths and settings.
THEOREM TypeCorrect == Spec => []TypeOK
  <1>1. IInv => TypeOK
    BY DEF IInv
  <1> QED BY <1>1, Invariant, PTL

\* The two tests and the mutex of Get(pt) (LogClient.cpp:71-80) make one client.
THEOREM MakesOneClient == Spec => []OneClient
  <1>1. IInv => OneClient
    BY DEF IInv, ClientInv, OneClient
  <1> QED BY <1>1, Invariant, PTL

\* The object a message is pushed to is complete and not destroyed, and a message begun
\* after the first Get(pt) finds it (LogClient.cpp:243).
THEOREM MessagesFindClient == Spec => []PushFindsClient
  <1>1. IInv => PushFindsClient
    BY DEF IInv, HeldInv, PushFindsClient
  <1> QED BY <1>1, Invariant, PTL

\* A message begun after the first Get(pt) has the lengths of its settings
\* (LogClient.cpp:35-36).
THEOREM MessagesFitSettings == Spec => []SettingsApply
  <1>1. IInv => SettingsApply
    BY DEF IInv, MessageInv, SettingsApply
  <1> QED BY <1>1, Invariant, PTL
===============================================================================
