------------------------------ MODULE MCLifecycle ------------------------------
(***************************************************************************)
(* Both threads ask for the client, with settings on either side of the    *)
(* defaults, and log texts that are shorter, as long and longer.           *)
(***************************************************************************)
EXTENDS Lifecycle

MCSize == 0..3
MCDefault == [tag |-> 2, message |-> 2]
MCSettings == {[tag |-> 1, message |-> 3], [tag |-> 3, message |-> 1]}
===============================================================================
