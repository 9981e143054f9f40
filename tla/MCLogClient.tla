------------------------------ MODULE MCLogClient ------------------------------
(***************************************************************************)
(* Small instances of LogClient.  Frames of messages and of control        *)
(* packages have different lengths, so that a stale m_transferred or a     *)
(* buffer replaced too early shows.                                        *)
(***************************************************************************)
EXTENDS LogClient, TLC

CONSTANTS a, b          \* producers

MCFrameLength == [p \in Package |-> IF p \in {ChangeFile, StopPackage} THEN 1 ELSE 2]
NoneOversized == {}
SecondOfAOversized == {<<a, 2>>}
NoModes == {}
AllModes == ELoggingMode
===============================================================================
