------------------------------- MODULE Framing ------------------------------
(***************************************************************************)
(* What the frontend's window promises: the samples it takes form one      *)
(* stream, and the frames are the windows of Size samples that start every *)
(* Step samples of that stream, each handed over as soon as its last       *)
(* sample is taken, however the stream is cut into chunks.  A sample is    *)
(* its position in the stream.                                             *)
(***************************************************************************)
EXTENDS Integers

CONSTANTS Size, Step, NoWindow

VARIABLES
  taken,   \* samples taken since the last reset
  start,   \* position of the first sample of the next frame
  out      \* the frame handed over by the last step, or NoWindow

framingVars == <<taken, start, out>>

Init == taken = 0 /\ start = 0 /\ out = NoWindow

\* Some samples, too few to complete the frame.
Take ==
  /\ taken' \in taken .. start + Size - 1
  /\ UNCHANGED start
  /\ out' = NoWindow

\* The samples that complete the frame.
Emit ==
  /\ taken <= start + Size
  /\ taken' = start + Size
  /\ start' = start + Step
  /\ out' = [i \in 0 .. Size - 1 |-> start + i]

\* The frame is used up and the next samples are awaited.
Release == out' = NoWindow /\ UNCHANGED <<taken, start>>

Restart == taken' = 0 /\ start' = 0 /\ out' = NoWindow

Next == Take \/ Emit \/ Release \/ Restart

Spec == Init /\ [][Next]_framingVars
=============================================================================
