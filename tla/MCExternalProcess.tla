--------------------------- MODULE MCExternalProcess ---------------------------
(***************************************************************************)
(* A small instance of ExternalProcess.                                    *)
(***************************************************************************)
EXTENDS ExternalProcess, TLC

CONSTANTS dir, x, y, empty

MCLine == {x, y, empty}
===============================================================================
