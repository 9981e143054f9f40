------------------------------- MODULE LockQueue -------------------------------
(***************************************************************************)
(* CLockQueue (utils/lockqueue.h) as its threads execute it: the mutex,    *)
(* the waits on m_cond with their wakeups, spurious ones and timeouts, and *)
(* the deadline of pop_try.                                                *)
(***************************************************************************)
EXTENDS Naturals, Sequences

CONSTANTS
  Thread,         \* threads that use the queue
  Value,          \* what they push
  NoValue,        \* the empty boost::optional, and the result of push
  Pending,        \* no result yet
  NoThread,       \* the owner of a free mutex
  MaxCalls        \* bound: operations one thread calls

Operation == {"push", "pop", "pop_try", "empty"}

ASSUME QueueAssumption ==
  /\ NoThread \notin Thread
  /\ NoValue \notin Value /\ Pending \notin Value \cup {NoValue} \cup BOOLEAN
  /\ MaxCalls \in Nat

VARIABLES
  queue,          \* m_queue
  mutex,          \* the owner of m_mutex
  waiting,        \* the threads asleep on m_cond
  pc,             \* where each thread is
  op, arg,        \* the operation a thread is in, "none" outside, and its argument
  result,         \* what the operation will return
  expired,        \* the threads whose tpEnd has passed
  calls           \* how many operations each thread has called

vars == <<queue, mutex, waiting, pc, op, arg, result, expired, calls>>

Goto(t, label) == pc' = [pc EXCEPT ![t] = label]
Answer(t, r) == result' = [result EXCEPT ![t] = r] /\ Goto(t, "unlock")

Init ==
  /\ queue = <<>>
  /\ mutex = NoThread
  /\ waiting = {}
  /\ pc = [t \in Thread |-> "outside"]
  /\ op = [t \in Thread |-> "none"]
  /\ arg = [t \in Thread |-> NoValue]
  /\ result = [t \in Thread |-> Pending]
  /\ expired = {}
  /\ calls = [t \in Thread |-> 0]

-------------------------------------------------------------------------------
Begin(t, o) ==
  /\ pc[t] = "outside" /\ calls[t] < MaxCalls
  /\ op' = [op EXCEPT ![t] = o]
  /\ calls' = [calls EXCEPT ![t] = @ + 1]
  /\ Goto(t, "lock")
  /\ UNCHANGED <<queue, mutex, waiting, result>>

CallPush(t) ==
  /\ Begin(t, "push")
  /\ \E v \in Value : arg' = [arg EXCEPT ![t] = v]
  /\ UNCHANGED expired

CallPop(t) == Begin(t, "pop") /\ UNCHANGED <<arg, expired>>

CallEmpty(t) == Begin(t, "empty") /\ UNCHANGED <<arg, expired>>

\* tpEnd is now + timeoutMs: already reached when timeoutMs is 0
CallPopTry(t) ==
  /\ Begin(t, "pop_try")
  /\ expired' \in {expired \cup {t}, expired \ {t}}
  /\ UNCHANGED arg

DeadlinePasses(t) ==
  /\ op[t] = "pop_try" /\ t \notin expired
  /\ expired' = expired \cup {t}
  /\ UNCHANGED <<queue, mutex, waiting, pc, op, arg, result, calls>>

-------------------------------------------------------------------------------
Lock(t) ==
  /\ pc[t] = "lock" /\ mutex = NoThread
  /\ mutex' = t
  /\ Goto(t, op[t])
  /\ UNCHANGED <<queue, waiting, op, arg, result, expired, calls>>

Pushed(t) == arg[t]

PushItem(t) ==
  /\ pc[t] = "push"
  /\ queue' = Append(queue, Pushed(t))
  /\ result' = [result EXCEPT ![t] = NoValue]
  /\ Goto(t, "notify")
  /\ UNCHANGED <<mutex, waiting, op, arg, expired, calls>>

\* slip: nobody is notified
NotifiedNobody == {}
Notified == waiting

NotifyAll(t) ==
  /\ pc[t] = "notify"
  /\ waiting' = waiting \ Notified
  /\ Goto(t, "unlock")
  /\ UNCHANGED <<queue, mutex, op, arg, result, expired, calls>>

\* the loop of pop and of pop_try: m_cond releases the mutex while t sleeps
Wait(t) ==
  /\ pc[t] = "pop" \/ (pc[t] = "pop_try" /\ t \notin expired)
  /\ queue = <<>>
  /\ waiting' = waiting \cup {t}
  /\ mutex' = NoThread
  /\ Goto(t, "wait")
  /\ UNCHANGED <<queue, op, arg, result, expired, calls>>

WakeUp(t) ==
  /\ t \in waiting
  /\ waiting' = waiting \ {t}
  /\ UNCHANGED <<queue, mutex, pc, op, arg, result, expired, calls>>

SpuriousWakeup(t) == WakeUp(t)

\* slip: wait for timed_wait
NoTimeoutWakeup(t) == FALSE /\ WakeUp(t)
TimeoutWakeup(t) == op[t] = "pop_try" /\ t \in expired /\ WakeUp(t)

Relock(t) ==
  /\ pc[t] = "wait" /\ t \notin waiting /\ mutex = NoThread
  /\ mutex' = t
  /\ Goto(t, op[t])
  /\ UNCHANGED <<queue, waiting, op, arg, result, expired, calls>>

TakeFront(t) ==
  /\ pc[t] \in {"pop", "pop_try"} /\ queue # <<>>
  /\ Answer(t, Head(queue))
  /\ queue' = Tail(queue)
  /\ UNCHANGED <<mutex, waiting, op, arg, expired, calls>>

\* slip: the deadline is looked at before the queue
TooLate(t) == t \in expired
NothingInTime(t) == queue = <<>> /\ t \in expired

GiveUp(t) ==
  /\ pc[t] = "pop_try" /\ NothingInTime(t)
  /\ Answer(t, NoValue)
  /\ UNCHANGED <<queue, mutex, waiting, op, arg, expired, calls>>

TestEmpty(t) ==
  /\ pc[t] = "empty"
  /\ Answer(t, queue = <<>>)
  /\ UNCHANGED <<queue, mutex, waiting, op, arg, expired, calls>>

Unlock(t) ==
  /\ pc[t] = "unlock"
  /\ mutex' = NoThread
  /\ op' = [op EXCEPT ![t] = "none"]
  /\ result' = [result EXCEPT ![t] = Pending]
  /\ Goto(t, "outside")
  /\ UNCHANGED <<queue, waiting, arg, expired, calls>>

-------------------------------------------------------------------------------
Inside(t) ==
  \/ Lock(t) \/ PushItem(t) \/ NotifyAll(t) \/ Wait(t) \/ TimeoutWakeup(t)
  \/ Relock(t) \/ TakeFront(t) \/ GiveUp(t) \/ TestEmpty(t) \/ Unlock(t)

\* everybody is outside, or asleep in pop on an empty queue
Quiet ==
  \A t \in Thread :
    pc[t] = "outside" \/ (op[t] = "pop" /\ t \in waiting /\ queue = <<>>)

Next ==
  \/ \E t \in Thread : \/ CallPush(t) \/ CallPop(t) \/ CallPopTry(t) \/ CallEmpty(t)
                       \/ DeadlinePasses(t) \/ SpuriousWakeup(t) \/ Inside(t)
  \/ Quiet /\ UNCHANGED vars

Spec == Init /\ [][Next]_vars

\* Threads inside an operation go on, time passes; nobody has to call.  The mutex
\* does not starve a thread (a platform mutex in practice; the C++ standard does
\* not say so): spurious wakeups could otherwise keep it busy for ever.
Acquire(t) == Lock(t) \/ Relock(t)
Fairness ==
  \A t \in Thread : /\ WF_vars(Inside(t)) /\ SF_vars(Acquire(t))
                    /\ WF_vars(DeadlinePasses(t))

FairSpec == Spec /\ Fairness

-------------------------------------------------------------------------------
Holding == Operation \cup {"notify", "unlock"}     \* labels between lock and unlock

\* Every variable has its type.
TypeOK ==
  /\ queue \in Seq(Value)
  /\ mutex \in Thread \cup {NoThread}
  /\ waiting \subseteq Thread
  /\ pc \in [Thread -> Holding \cup {"outside", "lock", "wait"}]
  /\ op \in [Thread -> Operation \cup {"none"}]
  /\ arg \in [Thread -> Value \cup {NoValue}]
  /\ result \in [Thread -> Value \cup {NoValue, Pending} \cup BOOLEAN]
  /\ expired \subseteq Thread
  /\ calls \in [Thread -> 0..MaxCalls]

\* The wait gives the mutex up and takes it back: m_queue is only touched by
\* the one thread that owns m_mutex.
MutualExclusion == \A t \in Thread : pc[t] \in Holding <=> mutex = t

\* No notification is missed: a thread sleeps beside a value only until the
\* thread that pushed it, still holding the mutex, has called notify_all.
NoMissedNotification ==
  queue # <<>> /\ waiting # {} => \E t \in Thread : pc[t] = "notify"

\* Each operation takes effect at one moment between its call and its return.
Fifo == INSTANCE FifoQueue WITH items <- queue
ImplementsFifo == Fifo!Spec

\* pop_try returns, whatever the others do: when its time is up it gives up.
PopTryReturns ==
  \A t \in Thread : op[t] = "pop_try" ~> op[t] # "pop_try"

\* A value and a thread that waits for one in pop do not stay beside each other.
PopIsServed ==
  \A t \in Thread :
    op[t] = "pop" /\ queue # <<>> ~> op[t] # "pop" \/ queue = <<>>

(***************************************************************************)
(* The inductive invariant behind them (LockQueue_proofs)                  *)
(***************************************************************************)
StageInv ==
  \A t \in Thread :
    /\ pc[t] = "outside" <=> op[t] = "none"
    /\ pc[t] \in Operation => pc[t] = op[t]
    /\ pc[t] = "notify" => op[t] = "push"
    /\ pc[t] = "wait" => op[t] \in {"pop", "pop_try"}
    /\ t \in waiting => pc[t] = "wait"
    /\ result[t] # Pending <=> pc[t] \in {"notify", "unlock"}
    /\ op[t] = "push" => arg[t] \in Value

IInv == TypeOK /\ MutualExclusion /\ StageInv /\ NoMissedNotification
===============================================================================
