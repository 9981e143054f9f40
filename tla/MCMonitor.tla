------------------------------- MODULE MCMonitor -------------------------------
(***************************************************************************)
(* A small instance of Monitor.  One output ends with '\n', so that it     *)
(* leaves the cursor in an empty block, the other does not.                *)
(***************************************************************************)
EXTENDS Monitor, TLC

CONSTANTS a, b

MCOutputs == {<<a>>, <<b, NewLine>>}
===============================================================================
