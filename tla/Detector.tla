------------------------------ MODULE Detector ------------------------------
(***************************************************************************)
(* The detector on quantized frames (wakeword/detector.go): FeedFeatures,  *)
(* the decision it takes for every frame, and Reset, with every error      *)
(* return.  A Detector is used by one goroutine at a time, so each call is *)
(* one step; an error return in the middle of a call is a step of its own, *)
(* which keeps what the call had already changed.                          *)
(*                                                                         *)
(* The scorers are the environment: an Invoke that is due returns any      *)
(* probability or an error, a scorer's Reset succeeds or fails.            *)
(*                                                                         *)
(* Feed, which cuts samples into frames, and Event.Sample are modelled in  *)
(* AudioFeed.                                                              *)
(***************************************************************************)
EXTENDS StreamingModel

CONSTANTS
  Wake,        \* stride, window and cutoff of the wake word model
  Vad,         \* the same of the VAD model
  HasVad,      \* the detector was given a VAD model
  FrameWrap,   \* the frame counter's range, 2^w for an int of w bits
  NoEvent,     \* no event is returned
  NoReport     \* onProb is not called

\* newStreamingModel refuses a window or a stride below 1.  A cutoff in
\* (0, 1] becomes an integer from 0 to 255.
ASSUME ParametersAssumption ==
  /\ MinSlices \in Nat /\ MaxProb \in Nat
  /\ Wake \in Config /\ Vad \in Config
  /\ HasVad \in BOOLEAN
  /\ FrameWrap \in Nat \ {0}

\* The two values that stand for nil are no record.
ASSUME NilAssumption ==
  /\ NoEvent \notin [frame : 0 .. FrameWrap - 1, avg : Probs, max : Probs,
                      blocked : BOOLEAN]
  /\ NoReport \notin [frame : 0 .. FrameWrap - 1, probability : Probs]

VARIABLES
  model,       \* Detector.model
  vad,         \* Detector.vad; never leaves New(Vad) when HasVad is FALSE
  frames,      \* Detector.frames
  result       \* what the last call returned, and what it gave to onProb

vars == <<model, vad, frames, result>>

Events == [frame : 0 .. FrameWrap - 1, avg : Probs, max : Probs,
           blocked : BOOLEAN]

Reports == [frame : 0 .. FrameWrap - 1, probability : Probs]

Calls == {"NewDetector", "FeedFeatures", "Reset"}

Result(call, ok, event, report) ==
  [call |-> call, ok |-> ok, event |-> event, report |-> report]

Failed(call) == Result(call, FALSE, NoEvent, NoReport)

-----------------------------------------------------------------------------
Init ==
  /\ model = New(Wake)
  /\ vad = New(Vad)
  /\ frames = 0
  /\ result = Result("NewDetector", TRUE, NoEvent, NoReport)

(***************************************************************************)
(* process, once both models were fed: m and v are their states.           *)
(***************************************************************************)
Speech(v) == HasVad => SpeechDetected(Vad, v)

Detected(m) == m.unprocessed /\ WakeWordDetected(Wake, m)

EventOf(m, v) ==
  IF Detected(m)
    THEN [frame |-> frames, avg |-> Average(m.ring), max |-> Maximum(m.ring),
          blocked |-> ~Speech(v)]
    ELSE NoEvent

\* Mutant: the model starts over whether or not there is speech.
ProcessedUngated(m, v) ==
  IF ~m.unprocessed THEN m
  ELSE IF Detected(m) THEN ProbabilitiesReset(Wake, Evaluated(m))
  ELSE Evaluated(m)

Processed(m, v) ==
  IF ~m.unprocessed THEN m
  ELSE IF Detected(m) /\ Speech(v)
    THEN ProbabilitiesReset(Wake, Evaluated(m))
    ELSE Evaluated(m)

ReportOf(m) ==
  IF m.lastInvoked
    THEN [frame |-> frames, probability |-> LastOutput(m)]
    ELSE NoReport

(***************************************************************************)
(* FeedFeatures.  p and q are the outputs of the Invokes that are due.     *)
(***************************************************************************)
ScoreFrame(f, p, q) ==
  LET m == Fed(Wake, model, f, p)
      v == IF HasVad THEN Fed(Vad, vad, f, q) ELSE vad
  IN  /\ model' = Processed(m, v)
      /\ vad' = v
      /\ frames' = (frames + 1) % FrameWrap
      /\ result' = Result("FeedFeatures", TRUE, EventOf(m, v), ReportOf(m))

\* A frame of the wrong length: model.feed returns before it changes anything.
\* The models agree on the length, so vad.feed never refuses a frame.
RejectFrame ==
  /\ result' = Failed("FeedFeatures")
  /\ UNCHANGED <<model, vad, frames>>

\* The wake word model's Invoke fails: the VAD model is not fed.
WakeInvokeFails(f) ==
  /\ InvokeDue(Wake, model)
  /\ model' = FailedFed(Wake, model, f)
  /\ result' = Failed("FeedFeatures")
  /\ UNCHANGED <<vad, frames>>

\* Mutant: the VAD model fails before it buffers the frame.
VadFailsUnfed(f, p) ==
  /\ HasVad
  /\ InvokeDue(Vad, vad)
  /\ model' = Fed(Wake, model, f, p)
  /\ result' = Failed("FeedFeatures")
  /\ UNCHANGED <<vad, frames>>

\* The VAD model's Invoke fails: the wake word model was fed, but its output
\* is neither reported nor evaluated by this call, and the frame not counted.
VadInvokeFails(f, p) ==
  /\ HasVad
  /\ InvokeDue(Vad, vad)
  /\ model' = Fed(Wake, model, f, p)
  /\ vad' = FailedFed(Vad, vad, f)
  /\ result' = Failed("FeedFeatures")
  /\ UNCHANGED frames

(***************************************************************************)
(* Reset: the frame counter, then the wake word model, then the VAD model. *)
(***************************************************************************)
Reset ==
  /\ frames' = 0
  /\ model' = Restarted(Wake, model)
  /\ vad' = IF HasVad THEN Restarted(Vad, vad) ELSE vad
  /\ result' = Result("Reset", TRUE, NoEvent, NoReport)

WakeResetFails ==
  /\ frames' = 0
  /\ result' = Failed("Reset")
  /\ UNCHANGED <<model, vad>>

VadResetFails ==
  /\ HasVad
  /\ frames' = 0
  /\ model' = Restarted(Wake, model)
  /\ result' = Failed("Reset")
  /\ UNCHANGED vad

-----------------------------------------------------------------------------
Next ==
  \/ \E f \in Frames, p, q \in Probs : ScoreFrame(f, p, q)
  \/ RejectFrame
  \/ \E f \in Frames : WakeInvokeFails(f)
  \/ \E f \in Frames, p \in Probs : VadInvokeFails(f, p)
  \/ Reset
  \/ WakeResetFails
  \/ VadResetFails

Spec == Init /\ [][Next]_vars

-----------------------------------------------------------------------------
\* The fields keep the types their declarations and their uses as indices
\* need: ring[lastN] and input[strideStep] stay in range, and the counter
\* never leaves -minSlicesBeforeDetection .. 0.
TypeOK ==
  /\ model \in State(Wake)
  /\ vad \in State(Vad)
  /\ frames \in 0 .. FrameWrap - 1
  /\ result \in [call : Calls, ok : BOOLEAN, event : Events \cup {NoEvent},
                 report : Reports \cup {NoReport}]

\* An event's window maximum is above the cutoff, and its average reaches it:
\* what detector.go reports as AverageProbability and MaxProbability agrees
\* with the reason why it reports (the ring is not the one already zeroed by
\* resetProbabilities, nor one that changed since it was judged).
EventAboveCutoff ==
  result.event # NoEvent =>
    /\ result.event.max > Wake.cutoff
    /\ result.event.avg >= Wake.cutoff
    /\ result.event.avg <= result.event.max

-----------------------------------------------------------------------------
(***************************************************************************)
(* The detector implements the decision rule.                              *)
(***************************************************************************)

\* The cell that holds the i-th of the window's outputs, oldest first.
CellAt(m, i) ==
  IF m.lastN + i < Wake.window THEN m.lastN + i ELSE m.lastN + i - Wake.window

HeardBy(m) == [i \in 1 .. Wake.window |-> m.ring[CellAt(m, i)]]

Verdict ==
  IF ~result.ok THEN "error"
  ELSE IF result.event = NoEvent THEN "none"
  ELSE IF result.event.blocked THEN "blocked" ELSE "fired"

Rule == INSTANCE DecisionRule WITH
  Window  <- Wake.window,
  Cutoff  <- Wake.cutoff,
  heard   <- HeardBy(model),
  quiet   <- MinSlices + model.ignoreWindows,
  pending <- model.unprocessed,
  verdict <- Verdict

\* Whatever the strides, the errors and the order of calls, the sequence of
\* verdicts is one the decision rule allows: the ring and its index behave as
\* the queue of the latest outputs, the counter as the count of quiet frames,
\* every output is judged once when the model is armed, and none is forgotten.
ImplementsRule == Rule!Spec
=============================================================================
