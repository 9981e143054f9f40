------------------------------- MODULE LineStream -------------------------------
(***************************************************************************)
(* What the object that runs a child process promises the window: a stream *)
(* of the lines the child prints, in order, each at most once, that ends   *)
(* before the first empty line.  A stream may fail: then a notice follows  *)
(* what is still delivered, once, and it is the last.  A stream that is    *)
(* cut delivers nothing more, the notice included.                         *)
(***************************************************************************)
EXTENDS Naturals, Sequences

CONSTANTS
  Line,                 \* what the child can print
  EmptyLine,            \* the line that ends the stream
  Failure               \* the notice

VARIABLES
  printed,              \* every line the child has printed
  delivered,            \* what the window has been handed
  state                 \* "open", "failing" (with the notice to come), "failed", "cut"

streamVars == <<printed, delivered, state>>

Init ==
  /\ printed = <<>>
  /\ delivered = <<>>
  /\ state = "open"

PrintLine ==
  /\ \E l \in Line : printed' = Append(printed, l)
  /\ UNCHANGED <<delivered, state>>

Deliver ==
  LET next == Len(delivered) + 1
  IN  /\ state \in {"open", "failing"}
      /\ next <= Len(printed) /\ printed[next] # EmptyLine
      /\ delivered' = Append(delivered, printed[next])
      /\ UNCHANGED <<printed, state>>

Fail ==
  /\ state = "open"
  /\ state' = "failing"
  /\ UNCHANGED <<printed, delivered>>

Notify ==
  /\ state = "failing"
  /\ delivered' = Append(delivered, Failure)
  /\ state' = "failed"
  /\ UNCHANGED printed

Cut ==
  /\ state' = "cut"
  /\ UNCHANGED <<printed, delivered>>

Next == PrintLine \/ Deliver \/ Fail \/ Notify \/ Cut

Spec == Init /\ [][Next]_streamVars
===============================================================================
