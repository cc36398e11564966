------------------------------ MODULE AudioFeed -----------------------------
(***************************************************************************)
(* From samples to events: Detector.Feed (wakeword/detector.go) looping    *)
(* over the frontend's window (frontend/window.go).  A caller of the       *)
(* frontend alone loops over Process the same way.                         *)
(*                                                                         *)
(* A sample is its position among the samples the window was given since   *)
(* the last Reset.  The features computed from a window do not matter      *)
(* here; what FeedFeatures makes of them is one of its three outcomes: an  *)
(* event, no event, or an error (module Detector).                         *)
(***************************************************************************)
EXTENDS Integers, Sequences

CONSTANTS
  Size,         \* samples in a window
  Step,         \* samples between the starts of two windows
  MaxChunk,     \* bound: samples in one call of Feed
  MaxSamples,   \* bound: samples passed to Feed since the last Reset
  MaxEvents,    \* bound: events in one call of Feed
  FrameWrap,    \* the frame counter's range, 2^w for an int of w bits
  NoWindow

\* Config.validate: a positive window, and a step that is not longer; the step
\* may come out as 0 when it is converted from milliseconds to samples.
ASSUME WindowAssumption ==
  /\ Size \in Nat \ {0}
  /\ Step \in 0 .. Size

ASSUME BoundsAssumption ==
  /\ MaxChunk \in Nat /\ MaxSamples \in Nat /\ MaxEvents \in Nat
  /\ FrameWrap \in Nat \ {0}

ASSUME NoWindow \notin [0 .. Size - 1 -> Int]

VARIABLES
  input,       \* window.input
  inputUsed,   \* window.inputUsed
  taken,       \* samples the window consumed since the last Reset
  left,        \* len(pcm): samples of the call that are still to be consumed
  running,     \* a call of Feed is in its loop
  out,         \* the window of the last Process that completed one
  frames,      \* Detector.frames
  events,      \* the events of the current or the last call of Feed
  given,       \* samples passed to Feed since the last Reset
  since        \* "failure", "direct": a call of Feed has failed, FeedFeatures
               \* was called directly, since the last Reset

windowVars == <<input, inputUsed, taken, out>>
vars == <<windowVars, left, running, frames, events, given, since>>

EmptyInput == [i \in 0 .. Size - 1 |-> 0]

Init ==
  /\ input = EmptyInput /\ inputUsed = 0 /\ taken = 0 /\ out = NoWindow
  /\ left = 0 /\ running = FALSE
  /\ frames = 0 /\ events = << >>
  /\ given = 0 /\ since = {}

-----------------------------------------------------------------------------
(* window.process and the body of Feed's loop. *)

Smaller(a, b) == IF a < b THEN a ELSE b

Consumed == Smaller(Size - inputUsed, left)

\* The buffer once the consumed samples are copied behind the used ones.
Filled ==
  [i \in 0 .. Size - 1 |->
     IF i \in inputUsed .. inputUsed + Consumed - 1
       THEN taken + (i - inputUsed) ELSE input[i]]

\* Mutant: the last Step samples are kept, not all but the first Step.
ShiftedToStep(buffer) ==
  [i \in 0 .. Size - 1 |->
     IF i < Step THEN buffer[i + Size - Step] ELSE buffer[i]]

\* The buffer shifted down by a step; what is behind the moved samples stays.
Shifted(buffer) ==
  [i \in 0 .. Size - 1 |->
     IF i + Step < Size THEN buffer[i + Step] ELSE buffer[i]]

WindowFull == inputUsed + Consumed = Size

BufferSamples ==
  /\ input' = Filled
  /\ inputUsed' = inputUsed + Consumed
  /\ out' = NoWindow

\* Mutant: the used samples are not given up.
CompleteKeepingUsed ==
  /\ out' = Filled
  /\ input' = Shifted(Filled)
  /\ inputUsed' = Size

CompleteWindow ==
  /\ out' = Filled
  /\ input' = Shifted(Filled)
  /\ inputUsed' = inputUsed + Consumed - Step

\* Process returned nil features: the loop goes on with what is left.
NoFeatures ==
  /\ running /\ left > 0
  /\ ~WindowFull
  /\ BufferSamples
  /\ taken' = taken + Consumed
  /\ left' = left - Consumed
  /\ UNCHANGED <<running, frames, events, given, since>>

\* Mutant: the frame is counted before its event is made.
EventAfterCount ==
  [frame  |-> frames,
   sample |-> Size + (frames + 1) * Step,
   end    |-> given - (left - Consumed),
   since  |-> since]

\* Recorded for the properties: end, where the window really ends in what the
\* caller passed, and since, to know what came
\* before it.
EventNow ==
  [frame  |-> frames,
   sample |-> Size + frames * Step,
   end    |-> given - (left - Consumed),
   since  |-> since]

\* A frame was scored; FeedFeatures counted it and may have reported an event.
FrameScored ==
  /\ running /\ left > 0
  /\ WindowFull
  /\ CompleteWindow
  /\ taken' = taken + Consumed
  /\ left' = left - Consumed
  /\ frames' = (frames + 1) % FrameWrap
  /\ \/ UNCHANGED events
     \/ Len(events) < MaxEvents /\ events' = Append(events, EventNow)
  /\ UNCHANGED <<running, given, since>>

\* FeedFeatures failed: Feed returns, and the rest of the call's samples is
\* never consumed.
FrameFailed ==
  /\ running /\ left > 0
  /\ WindowFull
  /\ CompleteWindow
  /\ taken' = taken + Consumed
  /\ left' = 0
  /\ running' = FALSE
  /\ since' = since \cup {"failure"}
  /\ UNCHANGED <<frames, events, given>>

FeedReturns ==
  /\ running /\ left = 0
  /\ running' = FALSE
  /\ out' = NoWindow
  /\ UNCHANGED <<input, inputUsed, taken, left, frames, events, given, since>>

-----------------------------------------------------------------------------
(* Calls. *)

Feed(n) ==
  /\ ~running
  /\ given + n <= MaxSamples
  /\ running' = TRUE
  /\ left' = n
  /\ given' = given + n
  /\ events' = << >>
  /\ UNCHANGED <<windowVars, frames, since>>

\* FeedFeatures called with features from elsewhere.
FeedFeatures ==
  /\ ~running
  /\ frames' = (frames + 1) % FrameWrap
  /\ since' = since \cup {"direct"}
  /\ UNCHANGED <<windowVars, left, running, events, given>>

\* Mutant: the partial window survives.
ResetKeepingWindow ==
  /\ ~running
  /\ input' = EmptyInput /\ taken' = 0 /\ out' = NoWindow
  /\ frames' = 0
  /\ given' = 0
  /\ since' = {}
  /\ UNCHANGED <<inputUsed, left, running, events>>

\* Reset clears the window and the counter whether or not the models' own
\* resets succeed.
Reset ==
  /\ ~running
  /\ input' = EmptyInput /\ inputUsed' = 0 /\ taken' = 0 /\ out' = NoWindow
  /\ frames' = 0
  /\ given' = 0
  /\ since' = {}
  /\ UNCHANGED <<left, running, events>>

LoopBody == NoFeatures \/ FrameScored \/ FrameFailed \/ FeedReturns

Next ==
  \/ \E n \in 0 .. MaxChunk : Feed(n)
  \/ NoFeatures
  \/ FrameScored
  \/ FrameFailed
  \/ FeedReturns
  \/ FeedFeatures
  \/ Reset

Spec == Init /\ [][Next]_vars

\* A goroutine that runs Feed is scheduled until it returns.
FairSpec == Spec /\ WF_vars(LoopBody)

-----------------------------------------------------------------------------
Idle == ~running

\* Between calls the number of frames is what the number of samples makes it,
\* however they were cut into chunks: every window that the samples complete
\* has been scored, and no other.
FramesFollowSamples ==
  Idle /\ since = {} =>
    /\ taken = given
    /\ given < Size + frames * Step
    /\ frames > 0 => given >= Size + (frames - 1) * Step

\* Event.Sample is the position, in what the caller passed since the last
\* Reset, of the end of the window that made the event, as long as no call
\* failed and no frame came from elsewhere before it.
SampleIsWindowEnd ==
  \A k \in 1 .. Len(events) : events[k].since = {} => events[k].sample = events[k].end

\* Every call of Feed returns.  ("No progress with samples left" is what the
\* frontend's test of this loop looks for.)
FeedEnds == running ~> Idle

\* The frames are the windows of one stream of samples: nothing is lost,
\* repeated or reordered between chunks, nor across a call that failed.
Frames == INSTANCE Framing WITH start <- taken - inputUsed
ImplementsFraming == Frames!Spec
=============================================================================
