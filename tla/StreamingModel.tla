--------------------------- MODULE StreamingModel ---------------------------
(***************************************************************************)
(* The streaming half of one model (wakeword/streaming.go): the stride     *)
(* buffer of frames, the ring of recent probabilities and the              *)
(* ignore-windows counter that implements the warm-up and the refractory   *)
(* period.                                                                 *)
(*                                                                         *)
(* A streamingModel is a record m of its mutable fields; its immutable     *)
(* fields are a record c = [stride, window, cutoff].  Every operator is a  *)
(* function of the two, so the detector can hold two models (the wake word *)
(* model and the VAD model) with different parameters.                     *)
(*                                                                         *)
(* Data abstracted: a frame of int8 features is a member of Frames, a      *)
(* probability is a number up to MaxProb (255 in the code).  The scorer's  *)
(* streaming state (the variables of the interpreter) is the flag carried, *)
(* TRUE once the scorer was invoked after its last Reset.                  *)
(***************************************************************************)
EXTENDS Integers, FiniteSets

CONSTANTS
  MinSlices,   \* minSlicesBeforeDetection, 100 in the code
  MaxProb,     \* largest model output, 255 in the code
  Frames,      \* frames of the length the models want
  Blank        \* content of a stride buffer slot that no frame was copied to

Probs == 0 .. MaxProb

Config == [stride : Nat \ {0}, window : Nat \ {0}, cutoff : Probs]

Slots(c) == 0 .. c.stride - 1
Cells(c) == 0 .. c.window - 1

State(c) ==
  [strideStep    : 0 .. c.stride,
   input         : [Slots(c) -> Frames \cup {Blank}],
   ring          : [Cells(c) -> Probs],
   lastN         : Cells(c),
   ignoreWindows : -MinSlices .. 0,
   unprocessed   : BOOLEAN,
   lastInvoked   : BOOLEAN,
   carried       : BOOLEAN]

New(c) ==
  [strideStep    |-> 0,
   input         |-> [s \in Slots(c) |-> Blank],
   ring          |-> [n \in Cells(c) |-> 0],
   lastN         |-> 0,
   ignoreWindows |-> -MinSlices,
   unprocessed   |-> FALSE,
   lastInvoked   |-> FALSE,
   carried       |-> FALSE]

-----------------------------------------------------------------------------
(* feed, in the order of its statements. *)

\* The slot the next frame is copied to: strideStep %= stride.
Slot(c, m) == m.strideStep % c.stride

\* The next frame fills the stride buffer, and feed calls Invoke.
InvokeDue(c, m) == Slot(c, m) + 1 = c.stride

Buffered(c, m, f) ==
  [m EXCEPT !.strideStep = Slot(c, m) + 1,
            !.input[Slot(c, m)] = f,
            !.lastInvoked = FALSE]

NextCell(c, m) == IF m.lastN + 1 = c.window THEN 0 ELSE m.lastN + 1

Pushed(c, m, p) ==
  [m EXCEPT !.lastN = NextCell(c, m),
            !.ring[NextCell(c, m)] = p,
            !.unprocessed = TRUE,
            !.lastInvoked = TRUE,
            !.carried = TRUE]

LastOutput(m) == m.ring[m.lastN]

\* Mutants of the climb: without the min, and stopping one short of zero.
ClimbedPastZero(c, m) ==
  IF LastOutput(m) < c.cutoff THEN [m EXCEPT !.ignoreWindows = @ + 1] ELSE m

ClimbedShort(c, m) ==
  IF LastOutput(m) < c.cutoff /\ m.ignoreWindows < -1
    THEN [m EXCEPT !.ignoreWindows = @ + 1]
    ELSE m

Climbed(c, m) ==
  IF LastOutput(m) < c.cutoff /\ m.ignoreWindows < 0
    THEN [m EXCEPT !.ignoreWindows = @ + 1]
    ELSE m

\* feed, when Invoke (if the frame makes it due) returns probability p.
Fed(c, m, f, p) ==
  Climbed(c, IF InvokeDue(c, m) THEN Pushed(c, Buffered(c, m, f), p)
                                ELSE Buffered(c, m, f))

\* feed, when Invoke returns an error: the frame is in the buffer, and the
\* interpreter may have assigned some of its variables.
FailedFed(c, m, f) == [Buffered(c, m, f) EXCEPT !.carried = TRUE]

-----------------------------------------------------------------------------
(* The decision. *)

\* stats: the sum of the ring, counted in units so that facts about
\* cardinalities are facts about sums.
Units(ring) == {u \in (DOMAIN ring) \X (1 .. MaxProb) : u[2] <= ring[u[1]]}
Sum(ring)   == Cardinality(Units(ring))
Average(ring) == Sum(ring) \div Cardinality(DOMAIN ring)
Maximum(ring) ==
  CHOOSE p \in {ring[n] : n \in DOMAIN ring} : \A n \in DOMAIN ring : ring[n] <= p

\* Mutant: the comparison includes the cutoff itself.
ReachesCutoff(c, ring) == Sum(ring) >= c.cutoff * c.window

AboveCutoff(c, ring) == Sum(ring) > c.cutoff * c.window

\* Mutant: the flag is not cleared.
EvaluatedAgain(m) == m

\* determineWakeWord while the counter is negative returns false at once;
\* otherwise it clears unprocessed whatever it decides.
Evaluated(m) ==
  IF m.ignoreWindows < 0 THEN m ELSE [m EXCEPT !.unprocessed = FALSE]

\* Mutant: the gate is closed at zero too.
DetectedPastZero(c, m) == m.ignoreWindows > 0 /\ AboveCutoff(c, m.ring)

WakeWordDetected(c, m) == m.ignoreWindows >= 0 /\ AboveCutoff(c, m.ring)

SpeechDetected(c, m) == AboveCutoff(c, m.ring)

-----------------------------------------------------------------------------
(* resetProbabilities and reset. *)

\* Mutant: no refractory period.
RingZeroed(c, m) == [m EXCEPT !.ring = [n \in Cells(c) |-> 0]]

ProbabilitiesReset(c, m) ==
  [m EXCEPT !.ring = [n \in Cells(c) |-> 0],
            !.ignoreWindows = -MinSlices]

\* Mutants of reset: the stride goes on, or the scorer's state does.
RestartedMidStride(c, m) ==
  ProbabilitiesReset(c, [m EXCEPT !.lastN = 0,
                                  !.unprocessed = FALSE,
                                  !.carried = FALSE])

RestartedCarrying(c, m) ==
  ProbabilitiesReset(c, [m EXCEPT !.strideStep = 0,
                                  !.lastN = 0,
                                  !.unprocessed = FALSE])

\* reset, when the scorer's Reset succeeds; when it fails, reset returns
\* before it touches m.
Restarted(c, m) ==
  ProbabilitiesReset(c, [m EXCEPT !.strideStep = 0,
                                  !.lastN = 0,
                                  !.unprocessed = FALSE,
                                  !.carried = FALSE])
=============================================================================
