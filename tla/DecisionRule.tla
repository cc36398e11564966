---------------------------- MODULE DecisionRule ----------------------------
(***************************************************************************)
(* What the detector promises, with the stride buffer, the ring and its    *)
(* index, the negative counter and the VAD model's own state hidden.       *)
(*                                                                         *)
(* The rule hears the outputs of the wake word model one by one, at most   *)
(* one per frame.  It counts quiet frames: frames after which the latest   *)
(* output is below the cutoff.  Once it has counted MinSlices of them it   *)
(* is armed, and it judges every output it has not judged yet by the sum   *)
(* of the Window latest.  A verdict that finds speech starts the rule      *)
(* over; one that finds none is blocked and leaves the rule armed.         *)
(***************************************************************************)
EXTENDS StreamingModel

CONSTANTS Window, Cutoff

VARIABLES
  heard,     \* the Window latest outputs, oldest first; 0 before the first
  quiet,     \* quiet frames counted since the rule started over
  pending,   \* an output was heard that was not judged yet
  verdict    \* what the last call reported: "none", "fired", "blocked", or
             \* "error" when it failed

ruleVars == <<heard, quiet, pending, verdict>>

NoOutput == -1
Silence  == [i \in 1 .. Window |-> 0]

Hear(h, o) ==
  IF o = NoOutput THEN h
  ELSE [i \in 1 .. Window |-> IF i = Window THEN o ELSE h[i + 1]]

Count(k, h) == IF h[Window] < Cutoff /\ k < MinSlices THEN k + 1 ELSE k

Init ==
  /\ heard = Silence
  /\ quiet = 0
  /\ pending = FALSE
  /\ verdict = "none"

Listen(o) ==
  /\ heard' = Hear(heard, o)
  /\ quiet' = Count(quiet, heard')
  /\ pending' = (pending \/ o # NoOutput)

\* The call failed after the rule heard the frame's output: no judgement,
\* although one may be due.
Overhear(o) == Listen(o) /\ verdict' = "error"

\* Nothing to judge, or not armed.
Wait(o) ==
  /\ Listen(o)
  /\ pending' => quiet' < MinSlices
  /\ verdict' = "none"

\* The frame's judgement: the rule is armed and has something to judge.
Judge(o, speech) ==
  LET h == Hear(heard, o)
      loud == Sum(h) > Cutoff * Window
  IN  /\ pending \/ o # NoOutput
      /\ Count(quiet, h) = MinSlices
      /\ pending' = FALSE
      /\ verdict' = IF ~loud THEN "none" ELSE IF speech THEN "fired" ELSE "blocked"
      /\ IF loud /\ speech
           THEN heard' = Silence /\ quiet' = 0
           ELSE heard' = h /\ quiet' = MinSlices

\* A call that failed before the rule heard of it.
Miss ==
  /\ verdict' = "error"
  /\ UNCHANGED <<heard, quiet, pending>>

StartOver ==
  /\ heard' = Silence
  /\ quiet' = 0
  /\ pending' = FALSE
  /\ verdict' \in {"none", "error"}

Next ==
  \/ \E o \in Probs \cup {NoOutput} :
       Overhear(o) \/ Wait(o) \/ (\E speech \in BOOLEAN : Judge(o, speech))
  \/ Miss
  \/ StartOver

Spec == Init /\ [][Next]_ruleVars
=============================================================================
