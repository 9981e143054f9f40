------------------------------ MODULE LogChannel ------------------------------
(***************************************************************************)
(* What the log client promises the code that logs: a first-in first-out   *)
(* channel.  A package the client has accepted is handed to the logger     *)
(* server at most once, whole, and never before a package accepted         *)
(* earlier.  A channel may be cut (the connection broke, a package could   *)
(* not be encoded, the client was stopped); after that nothing more is     *)
(* handed over, whatever is still accepted.                                *)
(***************************************************************************)
EXTENDS Naturals, Sequences

CONSTANT Package        \* what can be put on the channel

VARIABLES
  accepted,             \* every package the channel has taken, in that order
  delivered,            \* every package the server has been handed, in order
  cut                   \* the channel has failed for good

channelVars == <<accepted, delivered, cut>>

Init ==
  /\ accepted = <<>>
  /\ delivered = <<>>
  /\ cut = FALSE

Accept ==
  /\ \E p \in Package : accepted' = Append(accepted, p)
  /\ UNCHANGED <<delivered, cut>>

Deliver ==
  /\ ~cut
  /\ Len(delivered) < Len(accepted)
  /\ delivered' = Append(delivered, accepted[Len(delivered) + 1])
  /\ UNCHANGED <<accepted, cut>>

Cut ==
  /\ cut' = TRUE
  /\ UNCHANGED <<accepted, delivered>>

Next == Accept \/ Deliver \/ Cut

Spec == Init /\ [][Next]_channelVars
===============================================================================
