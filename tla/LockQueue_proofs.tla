---------------------------- MODULE LockQueue_proofs ----------------------------
(***************************************************************************)
(* Proofs about LockQueue, for any set of threads and any number of calls. *)
(***************************************************************************)
EXTENDS LockQueue, SequenceTheorems, TLAPS

USE DEF Notified, NothingInTime, Pushed

LEMMA InvInit == Init => IInv
BY QueueAssumption
DEF Init, IInv, TypeOK, MutualExclusion, StageInv, NoMissedNotification, Holding, Operation

LEMMA TypeStep == TypeOK /\ StageInv /\ [Next]_vars => TypeOK'
<1> SUFFICES ASSUME TypeOK, StageInv, [Next]_vars PROVE TypeOK'
  OBVIOUS
<1> USE QueueAssumption DEF TypeOK, StageInv, Holding, Operation, Goto
<1>1. ASSUME NEW t \in Thread, CallPush(t) PROVE TypeOK'
  BY <1>1 DEF CallPush, Begin
<1>2. ASSUME NEW t \in Thread, CallPop(t) PROVE TypeOK'
  BY <1>2 DEF CallPop, Begin
<1>3. ASSUME NEW t \in Thread, CallPopTry(t) PROVE TypeOK'
  BY <1>3 DEF CallPopTry, Begin
<1>4. ASSUME NEW t \in Thread, CallEmpty(t) PROVE TypeOK'
  BY <1>4 DEF CallEmpty, Begin
<1>5. ASSUME NEW t \in Thread, DeadlinePasses(t) PROVE TypeOK'
  BY <1>5 DEF DeadlinePasses
<1>6. ASSUME NEW t \in Thread, SpuriousWakeup(t) PROVE TypeOK'
  BY <1>6 DEF SpuriousWakeup, WakeUp
<1>7. ASSUME NEW t \in Thread, Lock(t) PROVE TypeOK'
  BY <1>7 DEF Lock
<1>8. ASSUME NEW t \in Thread, PushItem(t) PROVE TypeOK'
  BY <1>8, AppendProperties DEF PushItem
<1>9. ASSUME NEW t \in Thread, NotifyAll(t) PROVE TypeOK'
  BY <1>9 DEF NotifyAll
<1>10. ASSUME NEW t \in Thread, Wait(t) PROVE TypeOK'
  BY <1>10 DEF Wait
<1>11. ASSUME NEW t \in Thread, TimeoutWakeup(t) PROVE TypeOK'
  BY <1>11 DEF TimeoutWakeup, WakeUp
<1>12. ASSUME NEW t \in Thread, Relock(t) PROVE TypeOK'
  BY <1>12 DEF Relock
<1>13. ASSUME NEW t \in Thread, TakeFront(t) PROVE TypeOK'
  BY <1>13, HeadTailProperties DEF TakeFront, Answer
<1>14. ASSUME NEW t \in Thread, GiveUp(t) PROVE TypeOK'
  BY <1>14 DEF GiveUp, Answer
<1>15. ASSUME NEW t \in Thread, TestEmpty(t) PROVE TypeOK'
  BY <1>15 DEF TestEmpty, Answer
<1>16. ASSUME NEW t \in Thread, Unlock(t) PROVE TypeOK'
  BY <1>16 DEF Unlock
<1>17. CASE UNCHANGED vars
  BY <1>17 DEF vars
<1> QED
  BY <1>1, <1>2, <1>3, <1>4, <1>5, <1>6, <1>7, <1>8, <1>9, <1>10, <1>11,
     <1>12, <1>13, <1>14, <1>15, <1>16, <1>17 DEF Next, Inside

LEMMA StageStep == TypeOK /\ MutualExclusion /\ StageInv /\ [Next]_vars => MutualExclusion' /\ StageInv'
<1> SUFFICES ASSUME TypeOK, MutualExclusion, StageInv, [Next]_vars PROVE MutualExclusion' /\ StageInv'
  OBVIOUS
<1> USE QueueAssumption
    DEF TypeOK, MutualExclusion, StageInv, Holding, Operation, Goto
<1>1. ASSUME NEW t \in Thread, CallPush(t) PROVE MutualExclusion' /\ StageInv'
  BY <1>1 DEF CallPush, Begin
<1>2. ASSUME NEW t \in Thread, CallPop(t) PROVE MutualExclusion' /\ StageInv'
  BY <1>2 DEF CallPop, Begin
<1>3. ASSUME NEW t \in Thread, CallPopTry(t) PROVE MutualExclusion' /\ StageInv'
  BY <1>3 DEF CallPopTry, Begin
<1>4. ASSUME NEW t \in Thread, CallEmpty(t) PROVE MutualExclusion' /\ StageInv'
  BY <1>4 DEF CallEmpty, Begin
<1>5. ASSUME NEW t \in Thread, DeadlinePasses(t) PROVE MutualExclusion' /\ StageInv'
  BY <1>5 DEF DeadlinePasses
<1>6. ASSUME NEW t \in Thread, SpuriousWakeup(t) PROVE MutualExclusion' /\ StageInv'
  BY <1>6 DEF SpuriousWakeup, WakeUp
<1>7. ASSUME NEW t \in Thread, Lock(t) PROVE MutualExclusion' /\ StageInv'
  BY <1>7 DEF Lock
<1>8. ASSUME NEW t \in Thread, PushItem(t) PROVE MutualExclusion' /\ StageInv'
  BY <1>8, AppendProperties DEF PushItem
<1>9. ASSUME NEW t \in Thread, NotifyAll(t) PROVE MutualExclusion' /\ StageInv'
  BY <1>9 DEF NotifyAll
<1>10. ASSUME NEW t \in Thread, Wait(t) PROVE MutualExclusion' /\ StageInv'
  BY <1>10 DEF Wait
<1>11. ASSUME NEW t \in Thread, TimeoutWakeup(t) PROVE MutualExclusion' /\ StageInv'
  BY <1>11 DEF TimeoutWakeup, WakeUp
<1>12. ASSUME NEW t \in Thread, Relock(t) PROVE MutualExclusion' /\ StageInv'
  BY <1>12 DEF Relock
<1>13. ASSUME NEW t \in Thread, TakeFront(t) PROVE MutualExclusion' /\ StageInv'
  BY <1>13, HeadTailProperties DEF TakeFront, Answer
<1>14. ASSUME NEW t \in Thread, GiveUp(t) PROVE MutualExclusion' /\ StageInv'
  BY <1>14 DEF GiveUp, Answer
<1>15. ASSUME NEW t \in Thread, TestEmpty(t) PROVE MutualExclusion' /\ StageInv'
  BY <1>15 DEF TestEmpty, Answer
<1>16. ASSUME NEW t \in Thread, Unlock(t) PROVE MutualExclusion' /\ StageInv'
  BY <1>16 DEF Unlock
<1>17. CASE UNCHANGED vars
  BY <1>17 DEF vars
<1> QED
  BY <1>1, <1>2, <1>3, <1>4, <1>5, <1>6, <1>7, <1>8, <1>9, <1>10, <1>11,
     <1>12, <1>13, <1>14, <1>15, <1>16, <1>17 DEF Next, Inside

LEMMA NotifyStep == IInv /\ [Next]_vars => NoMissedNotification'
<1> SUFFICES ASSUME IInv, [Next]_vars PROVE NoMissedNotification'
  OBVIOUS
<1> USE QueueAssumption
    DEF IInv, TypeOK, MutualExclusion, StageInv, NoMissedNotification, Holding, Operation, Goto
<1>1. ASSUME NEW t \in Thread, CallPush(t) PROVE NoMissedNotification'
  BY <1>1 DEF CallPush, Begin
<1>2. ASSUME NEW t \in Thread, CallPop(t) PROVE NoMissedNotification'
  BY <1>2 DEF CallPop, Begin
<1>3. ASSUME NEW t \in Thread, CallPopTry(t) PROVE NoMissedNotification'
  BY <1>3 DEF CallPopTry, Begin
<1>4. ASSUME NEW t \in Thread, CallEmpty(t) PROVE NoMissedNotification'
  BY <1>4 DEF CallEmpty, Begin
<1>5. ASSUME NEW t \in Thread, DeadlinePasses(t) PROVE NoMissedNotification'
  BY <1>5 DEF DeadlinePasses
<1>6. ASSUME NEW t \in Thread, SpuriousWakeup(t) PROVE NoMissedNotification'
  BY <1>6 DEF SpuriousWakeup, WakeUp
<1>7. ASSUME NEW t \in Thread, Lock(t) PROVE NoMissedNotification'
  BY <1>7 DEF Lock
<1>8. ASSUME NEW t \in Thread, PushItem(t) PROVE NoMissedNotification'
  BY <1>8, AppendProperties DEF PushItem
<1>9. ASSUME NEW t \in Thread, NotifyAll(t) PROVE NoMissedNotification'
  BY <1>9 DEF NotifyAll
<1>10. ASSUME NEW t \in Thread, Wait(t) PROVE NoMissedNotification'
  BY <1>10 DEF Wait
<1>11. ASSUME NEW t \in Thread, TimeoutWakeup(t) PROVE NoMissedNotification'
  BY <1>11 DEF TimeoutWakeup, WakeUp
<1>12. ASSUME NEW t \in Thread, Relock(t) PROVE NoMissedNotification'
  BY <1>12 DEF Relock
<1>13. ASSUME NEW t \in Thread, TakeFront(t) PROVE NoMissedNotification'
  BY <1>13, HeadTailProperties DEF TakeFront, Answer
<1>14. ASSUME NEW t \in Thread, GiveUp(t) PROVE NoMissedNotification'
  BY <1>14 DEF GiveUp, Answer
<1>15. ASSUME NEW t \in Thread, TestEmpty(t) PROVE NoMissedNotification'
  BY <1>15 DEF TestEmpty, Answer
<1>16. ASSUME NEW t \in Thread, Unlock(t) PROVE NoMissedNotification'
  BY <1>16 DEF Unlock
<1>17. CASE UNCHANGED vars
  BY <1>17 DEF vars
<1> QED
  BY <1>1, <1>2, <1>3, <1>4, <1>5, <1>6, <1>7, <1>8, <1>9, <1>10, <1>11,
     <1>12, <1>13, <1>14, <1>15, <1>16, <1>17 DEF Next, Inside

(***************************************************************************)
(* The inductive invariant holds in every reachable state.                 *)
(***************************************************************************)
THEOREM Invariance == Spec => []IInv
<1>1. IInv /\ [Next]_vars => IInv'
  BY TypeStep, StageStep, NotifyStep DEF IInv
<1> QED
  BY InvInit, <1>1, PTL DEF Spec

\* Every variable keeps its type.
THEOREM TypeCorrect == Spec => []TypeOK
<1>1. IInv => TypeOK
  BY DEF IInv
<1> QED
  BY Invariance, <1>1, PTL

\* One thread at a time is between lock and unlock, waits included.
THEOREM Exclusion == Spec => []MutualExclusion
<1>1. IInv => MutualExclusion
  BY DEF IInv
<1> QED
  BY Invariance, <1>1, PTL

\* No thread sleeps on m_cond beside a value, but for the moment between
\* m_queue.push and m_cond.notify_all.
THEOREM NotificationsArrive == Spec => []NoMissedNotification
<1>1. IInv => NoMissedNotification
  BY DEF IInv
<1> QED
  BY Invariance, <1>1, PTL

LEMMA FifoInit == Init => Fifo!Init
BY DEF Init, Fifo!Init

LEMMA FifoSimulation == IInv /\ [Next]_vars => [Fifo!Next]_(Fifo!fifoVars)
<1> SUFFICES ASSUME IInv, [Next]_vars PROVE [Fifo!Next]_(Fifo!fifoVars)
  OBVIOUS
<1> USE QueueAssumption
    DEF IInv, TypeOK, StageInv, Holding, Operation, Goto, Answer, Fifo!fifoVars
<1>1. ASSUME NEW t \in Thread, CallPush(t) \/ CallPop(t) \/ CallPopTry(t) \/ CallEmpty(t)
      PROVE  Fifo!Call(t)
  BY <1>1 DEF CallPush, CallPop, CallPopTry, CallEmpty, Begin, Fifo!Call
<1>2. ASSUME NEW t \in Thread, PushItem(t) PROVE Fifo!Put(t)
  BY <1>2 DEF PushItem, Fifo!Put
<1>3. ASSUME NEW t \in Thread, TakeFront(t) PROVE Fifo!Take(t)
  BY <1>3 DEF TakeFront, Fifo!Take
<1>4. ASSUME NEW t \in Thread, GiveUp(t) PROVE Fifo!GiveUp(t)
  BY <1>4 DEF GiveUp, Fifo!GiveUp
<1>5. ASSUME NEW t \in Thread, TestEmpty(t) PROVE Fifo!TestEmpty(t)
  BY <1>5 DEF TestEmpty, Fifo!TestEmpty
<1>6. ASSUME NEW t \in Thread, Unlock(t) PROVE Fifo!Return(t)
  BY <1>6 DEF Unlock, Fifo!Return
<1>7. ASSUME NEW t \in Thread,
             \/ DeadlinePasses(t) \/ SpuriousWakeup(t) \/ Lock(t) \/ NotifyAll(t)
             \/ Wait(t) \/ TimeoutWakeup(t) \/ Relock(t)
      PROVE  UNCHANGED Fifo!fifoVars
  BY <1>7 DEF DeadlinePasses, SpuriousWakeup, WakeUp, Lock, NotifyAll, Wait, TimeoutWakeup,
     Relock
<1>8. CASE UNCHANGED vars
  BY <1>8 DEF vars
<1> HIDE DEF IInv, TypeOK, StageInv, Holding, Operation, Goto, Answer, Fifo!fifoVars
<1> QED
  BY <1>1, <1>2, <1>3, <1>4, <1>5, <1>6, <1>7, <1>8 DEF Next, Inside, Fifo!Next

\* CLockQueue is linearizable: every operation takes effect on a FIFO queue at
\* one moment between call and return, as the single steps of LogClient assume.
THEOREM RefinesFifo == Spec => ImplementsFifo
<1> QED
  BY Invariance, FifoInit, FifoSimulation, PTL DEF Spec, ImplementsFifo, Fifo!Spec

===============================================================================
