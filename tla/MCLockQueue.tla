------------------------------ MODULE MCLockQueue ------------------------------
(***************************************************************************)
(* Small instances of LockQueue.                                           *)
(***************************************************************************)
EXTENDS LockQueue, TLC

Symmetry == Permutations(Thread) \cup Permutations(Value)
===============================================================================
