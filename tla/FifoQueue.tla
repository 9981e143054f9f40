------------------------------- MODULE FifoQueue -------------------------------
(***************************************************************************)
(* What CLockQueue promises its callers: a queue whose operations take     *)
(* effect at one moment between call and return.  pop returns only with a  *)
(* value; pop_try may give up, but only on a queue that is empty.          *)
(***************************************************************************)
EXTENDS Naturals, Sequences

CONSTANTS Thread, Value, NoValue, Pending

VARIABLES
  items,        \* the values in the queue
  op,           \* the operation each thread has called, "none" outside
  arg,          \* the value a thread pushes
  result        \* what the operation returns, Pending before it took effect

fifoVars == <<items, op, arg, result>>

Init ==
  /\ items = <<>>
  /\ op = [t \in Thread |-> "none"]
  /\ arg = [t \in Thread |-> NoValue]
  /\ result = [t \in Thread |-> Pending]

Call(t) ==
  /\ op[t] = "none"
  /\ \/ \E v \in Value : /\ op' = [op EXCEPT ![t] = "push"]
                         /\ arg' = [arg EXCEPT ![t] = v]
     \/ \E o \in {"pop", "pop_try", "empty"} : op' = [op EXCEPT ![t] = o] /\ UNCHANGED arg
  /\ UNCHANGED <<items, result>>

Put(t) ==
  /\ op[t] = "push" /\ result[t] = Pending
  /\ items' = Append(items, arg[t])
  /\ result' = [result EXCEPT ![t] = NoValue]
  /\ UNCHANGED <<op, arg>>

Take(t) ==
  /\ op[t] \in {"pop", "pop_try"} /\ result[t] = Pending /\ items # <<>>
  /\ result' = [result EXCEPT ![t] = Head(items)]
  /\ items' = Tail(items)
  /\ UNCHANGED <<op, arg>>

GiveUp(t) ==
  /\ op[t] = "pop_try" /\ result[t] = Pending /\ items = <<>>
  /\ result' = [result EXCEPT ![t] = NoValue]
  /\ UNCHANGED <<items, op, arg>>

TestEmpty(t) ==
  /\ op[t] = "empty" /\ result[t] = Pending
  /\ result' = [result EXCEPT ![t] = (items = <<>>)]
  /\ UNCHANGED <<items, op, arg>>

Return(t) ==
  /\ op[t] # "none" /\ result[t] # Pending
  /\ op' = [op EXCEPT ![t] = "none"]
  /\ result' = [result EXCEPT ![t] = Pending]
  /\ UNCHANGED <<items, arg>>

Next ==
  \E t \in Thread : \/ Call(t) \/ Put(t) \/ Take(t) \/ GiveUp(t) \/ TestEmpty(t)
                    \/ Return(t)

Spec == Init /\ [][Next]_fifoVars
===============================================================================
