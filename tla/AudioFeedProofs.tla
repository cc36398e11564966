--------------------------- MODULE AudioFeedProofs --------------------------
(***************************************************************************)
(* Theorems about Feed and the frontend's window, for every size of a      *)
(* window, every step and every way to cut the samples into calls.         *)
(***************************************************************************)
EXTENDS AudioFeed, TLAPS

FeedType ==
  /\ input \in [0 .. Size - 1 -> Int]
  /\ inputUsed \in 0 .. Size
  /\ taken \in Nat /\ left \in Nat
  /\ running \in BOOLEAN
  /\ frames \in 0 .. FrameWrap - 1
  /\ given \in 0 .. MaxSamples

\* The used part of the buffer holds the latest samples of the stream.
Buffered == \A i \in 0 .. inputUsed - 1 : input[i] = taken - inputUsed + i

WindowInv == FeedType /\ Buffered

\* While every frame came from Feed and none failed, the samples taken and the
\* frames counted say how much of the next window there is.
Counted ==
  since = {} =>
    /\ taken + left = given
    /\ taken - inputUsed = frames * Step
    /\ inputUsed < Size
    /\ frames > 0 => inputUsed >= Size - Step

EventRecords ==
  [frame : Nat, sample : Nat, end : Int, since : SUBSET {"failure", "direct"}]

FeedInv ==
  /\ WindowInv
  /\ ~running => left = 0
  /\ since \subseteq {"failure", "direct"}
  /\ events \in Seq(EventRecords)
  /\ Counted
  /\ SampleIsWindowEnd

-----------------------------------------------------------------------------
\* What Process does with the samples it is given.
LEMMA Consuming ==
  ASSUME FeedType, Buffered
  PROVE  /\ Consumed \in 0 .. left
         /\ inputUsed + Consumed <= Size
         /\ ~WindowFull => Consumed = left
         /\ Filled \in [0 .. Size - 1 -> Int]
         /\ \A i \in 0 .. inputUsed + Consumed - 1 : Filled[i] = taken - inputUsed + i
<1> USE WindowAssumption
<1>1. /\ Consumed \in 0 .. left /\ inputUsed + Consumed <= Size
      /\ ~WindowFull => Consumed = left
  BY DEF FeedType, Consumed, Smaller, WindowFull
<1>2. Filled \in [0 .. Size - 1 -> Int]
  BY <1>1 DEF FeedType, Filled
<1>3. ASSUME NEW i \in 0 .. inputUsed + Consumed - 1
      PROVE  Filled[i] = taken - inputUsed + i
  <2>1. i \in 0 .. Size - 1
    BY <1>1 DEF FeedType
  <2>2. CASE i < inputUsed
    BY <1>1, <2>1, <2>2 DEF Filled, Buffered, FeedType
  <2>3. CASE i >= inputUsed
    BY <1>1, <2>1, <2>3 DEF Filled, FeedType
  <2> QED
    BY <1>1, <2>2, <2>3 DEF FeedType
<1> QED
  BY <1>1, <1>2, <1>3

\* A window that is completed is the next Size samples, and the buffer keeps
\* all of it but the first Step samples.
LEMMA Completing ==
  ASSUME FeedType, Buffered, WindowFull, CompleteWindow, taken' = taken + Consumed
  PROVE  /\ out' = [i \in 0 .. Size - 1 |-> taken - inputUsed + i]
         /\ taken' = taken - inputUsed + Size
         /\ inputUsed' = Size - Step
         /\ taken' \in Nat /\ inputUsed' \in 0 .. Size
         /\ input' \in [0 .. Size - 1 -> Int]
         /\ Buffered'
<1> USE WindowAssumption
<1>1. /\ Consumed \in 0 .. left /\ inputUsed + Consumed = Size
      /\ Filled \in [0 .. Size - 1 -> Int]
      /\ \A i \in 0 .. Size - 1 : Filled[i] = taken - inputUsed + i
  <2>1. inputUsed + Consumed = Size
    BY DEF WindowFull
  <2>2. inputUsed \in Int /\ Consumed \in Int
    BY Consuming DEF FeedType
  <2>3. \A i \in 0 .. Size - 1 : i \in 0 .. inputUsed + Consumed - 1
    BY <2>1, <2>2
  <2> QED
    BY <2>1, <2>3, Consuming
<1>2. inputUsed \in Int /\ taken \in Nat /\ left \in Nat
  BY DEF FeedType
<1>3. out' = [i \in 0 .. Size - 1 |-> taken - inputUsed + i]
  BY <1>1 DEF CompleteWindow
<1>4. /\ taken' = taken - inputUsed + Size /\ taken' \in Nat
      /\ inputUsed' = Size - Step /\ inputUsed' \in 0 .. Size
  BY <1>1, <1>2 DEF CompleteWindow
<1>5. input' \in [0 .. Size - 1 -> Int]
  BY <1>1 DEF CompleteWindow, Shifted
<1>6. ASSUME NEW i \in 0 .. inputUsed' - 1
      PROVE  input'[i] = taken' - inputUsed' + i
  <2>1. i + Step \in 0 .. Size - 1 /\ i \in 0 .. Size - 1
    BY <1>4
  <2>2. input'[i] = Filled[i + Step]
    BY <2>1 DEF CompleteWindow, Shifted
  <2> QED
    BY <1>1, <1>2, <1>4, <2>1, <2>2
<1> QED
  BY <1>3, <1>4, <1>5, <1>6 DEF Buffered

LEMMA Window_Init == Init => WindowInv
<1> SUFFICES ASSUME Init PROVE WindowInv
  OBVIOUS
<1>1. input \in [0 .. Size - 1 -> Int] /\ inputUsed \in 0 .. Size
  BY WindowAssumption DEF Init, EmptyInput
<1>2. frames \in 0 .. FrameWrap - 1 /\ given \in 0 .. MaxSamples
  BY BoundsAssumption DEF Init
<1>3. Buffered
  BY DEF Init, Buffered
<1> QED
  BY <1>1, <1>2, <1>3 DEF Init, WindowInv, FeedType

LEMMA Window_Step == WindowInv /\ [Next]_vars => WindowInv'
<1> SUFFICES ASSUME WindowInv, [Next]_vars PROVE WindowInv'
  OBVIOUS
<1> USE WindowAssumption, BoundsAssumption DEF WindowInv
<1>1. CASE NoFeatures
  <2>1. /\ Consumed \in 0 .. left /\ inputUsed + Consumed <= Size
        /\ Filled \in [0 .. Size - 1 -> Int]
        /\ \A i \in 0 .. inputUsed + Consumed - 1 : Filled[i] = taken - inputUsed + i
    BY Consuming
  <2>2. /\ input' = Filled /\ inputUsed' = inputUsed + Consumed
        /\ taken' = taken + Consumed /\ left' = left - Consumed
        /\ UNCHANGED <<running, frames, given>>
    BY <1>1 DEF NoFeatures, BufferSamples
  <2>3. FeedType'
    BY <2>1, <2>2 DEF FeedType
  <2>4. Buffered'
    BY <2>1, <2>2 DEF Buffered, FeedType
  <2> QED
    BY <2>3, <2>4
<1>2. CASE FrameScored \/ FrameFailed
  <2>1. WindowFull /\ CompleteWindow /\ taken' = taken + Consumed
    BY <1>2 DEF FrameScored, FrameFailed
  <2>2. Consumed \in 0 .. left
    BY Consuming
  <2>3. /\ left' \in {left - Consumed, 0}
        /\ running' \in {running, FALSE}
        /\ frames' \in {frames, (frames + 1) % FrameWrap}
        /\ given' = given
    BY <1>2 DEF FrameScored, FrameFailed
  <2>4. left' \in Nat /\ running' \in BOOLEAN /\ frames' \in 0 .. FrameWrap - 1
    <3>1. (frames + 1) % FrameWrap \in 0 .. FrameWrap - 1
      BY DEF FeedType
    <3>2. left - Consumed \in Nat
      BY <2>2 DEF FeedType
    <3>3. left' \in Nat
      BY <2>3, <3>2
    <3>4. frames' \in 0 .. FrameWrap - 1
      BY <2>3, <3>1 DEF FeedType
    <3> QED
      BY <2>3, <3>3, <3>4 DEF FeedType
  <2> QED
    BY <2>1, <2>3, <2>4, Completing DEF FeedType
<1>3. CASE FeedReturns
  BY <1>3 DEF FeedReturns, FeedType, Buffered
<1>4. ASSUME NEW n \in 0 .. MaxChunk, Feed(n)
      PROVE  WindowInv'
  BY <1>4 DEF Feed, FeedType, Buffered, windowVars
<1>5. CASE FeedFeatures
  BY <1>5 DEF FeedFeatures, FeedType, Buffered, windowVars
<1>6. CASE Reset
  BY <1>6 DEF Reset, FeedType, Buffered, EmptyInput
<1>7. CASE UNCHANGED vars
  BY <1>7 DEF vars, windowVars, FeedType, Buffered
<1> QED
  BY <1>1, <1>2, <1>3, <1>4, <1>5, <1>6, <1>7 DEF Next

LEMMA Spec_Window == Spec => []WindowInv
BY Window_Init, Window_Step, PTL DEF Spec

-----------------------------------------------------------------------------
\* A step of Feed is one of the framing's, or leaves it alone.
LEMMA Framing_Step ==
  ASSUME WindowInv, [Next]_vars
  PROVE  [Frames!Next]_(Frames!framingVars)
<1> USE WindowAssumption DEF WindowInv
<1>1. CASE NoFeatures
  <2>1. /\ Consumed \in 0 .. left /\ inputUsed + Consumed < Size
    <3>1. inputUsed + Consumed # Size
      BY <1>1 DEF NoFeatures, WindowFull
    <3>2. Consumed \in 0 .. left /\ inputUsed + Consumed <= Size
      BY Consuming
    <3> QED
      BY <3>1, <3>2 DEF FeedType
  <2>2. /\ inputUsed' = inputUsed + Consumed /\ taken' = taken + Consumed
        /\ out' = NoWindow
    BY <1>1 DEF NoFeatures, BufferSamples
  <2>3. Frames!Take
    BY <2>1, <2>2 DEF Frames!Take, FeedType
  <2> QED
    BY <2>3 DEF Frames!Next
<1>2. CASE FrameScored \/ FrameFailed
  <2>1. WindowFull /\ CompleteWindow /\ taken' = taken + Consumed
    BY <1>2 DEF FrameScored, FrameFailed
  <2>2. /\ out' = [i \in 0 .. Size - 1 |-> taken - inputUsed + i]
        /\ taken' = taken - inputUsed + Size /\ inputUsed' = Size - Step
    BY <2>1, Completing
  <2>3. Frames!Emit
    BY <2>2 DEF Frames!Emit, FeedType
  <2> QED
    BY <2>3 DEF Frames!Next
<1>3. CASE FeedReturns
  BY <1>3 DEF FeedReturns, Frames!Next, Frames!Release
<1>4. CASE UNCHANGED windowVars
  BY <1>4 DEF windowVars, Frames!framingVars
<1>5. CASE Reset
  BY <1>5 DEF Reset, Frames!Next, Frames!Restart
<1> QED
  BY <1>1, <1>2, <1>3, <1>4, <1>5 DEF Next, Feed, FeedFeatures, vars

\* The frames that Feed scores are the windows of one stream of samples, however
\* the stream is cut into calls and whatever fails, for every size and step.
THEOREM RefinesFraming == Spec => ImplementsFraming
<1>1. Init => Frames!Init
  BY DEF Init, Frames!Init
<1>2. WindowInv /\ [Next]_vars => [Frames!Next]_(Frames!framingVars)
  BY Framing_Step
<1> QED
  BY <1>1, <1>2, Spec_Window, PTL DEF Spec, ImplementsFraming, Frames!Spec

-----------------------------------------------------------------------------
(* Positions.  A step of 0 samples, which the configuration allows, and a    *)
(* counter that overflows would both break them.                             *)

NoOverflow == Step > 0 /\ MaxSamples < Size + (FrameWrap - 1) * Step

\* Nonlinear facts about the frames counted.
LEMMA StepTimes ==
  ASSUME NEW f \in Nat, NEW s \in Nat
  PROVE  f * s \in Nat /\ (f + 1) * s = f * s + s
OBVIOUS

\* A completed window ends Size samples behind the start of the frames counted,
\* and there is a number left for its frame.
LEMMA WindowEnds ==
  ASSUME FeedInv, since = {}, NoOverflow, WindowFull
  PROVE  /\ given - (left - Consumed) = Size + frames * Step
         /\ (frames + 1) % FrameWrap = frames + 1
<1> USE WindowAssumption, BoundsAssumption
<1>1. /\ Consumed \in Int /\ Consumed <= left
      /\ inputUsed \in Int /\ taken \in Nat /\ left \in Nat
      /\ given \in Nat /\ given <= MaxSamples
      /\ frames \in Nat
  BY Consuming DEF FeedInv, WindowInv, FeedType
<1>2. inputUsed + Consumed = Size
  BY DEF WindowFull
<1>3. taken + left = given /\ taken - inputUsed = frames * Step
  BY DEF FeedInv, Counted
<1>4. frames * Step \in Nat
  BY <1>1, StepTimes
<1>5. given - (left - Consumed) = Size + frames * Step
  BY <1>1, <1>2, <1>3, <1>4
<1>6. frames + 1 < FrameWrap
  <2>1. Size + frames * Step <= MaxSamples
    BY <1>1, <1>4, <1>5
  <2>2. frames # FrameWrap - 1
    BY <1>4, <2>1 DEF NoOverflow
  <2>3. frames <= FrameWrap - 1
    BY DEF FeedInv, WindowInv, FeedType
  <2> QED
    BY <1>1, <2>2, <2>3
<1> QED
  BY <1>1, <1>5, <1>6

LEMMA Feed_Init == Init => FeedInv
<1> SUFFICES ASSUME Init PROVE FeedInv
  OBVIOUS
<1>1. WindowInv
  BY Window_Init
<1>2. Counted
  BY WindowAssumption DEF Init, Counted
<1> QED
  BY <1>1, <1>2 DEF Init, FeedInv, SampleIsWindowEnd

LEMMA FrameScored_FeedInv ==
  ASSUME FeedInv, FrameScored, WindowInv', NoOverflow
  PROVE  FeedInv'
<1> USE WindowAssumption DEF FeedInv, NoOverflow
<1>1. /\ WindowFull /\ CompleteWindow
      /\ taken' = taken + Consumed /\ left' = left - Consumed
      /\ frames' = (frames + 1) % FrameWrap
      /\ events' = events \/ events' = Append(events, EventNow)
      /\ UNCHANGED <<running, given, since>> /\ running
  BY DEF FrameScored
<1>2. /\ inputUsed' = Size - Step /\ taken' = taken - inputUsed + Size
  BY <1>1, Completing DEF WindowInv
<1>3. /\ Consumed \in Int /\ taken \in Nat /\ left \in Nat /\ inputUsed \in Int
      /\ given \in Nat /\ frames \in Nat
  BY Consuming DEF WindowInv, FeedType
<1>4. Counted'
  <2> SUFFICES ASSUME since = {}
               PROVE  /\ taken' + left' = given'
                      /\ taken' - inputUsed' = frames' * Step
                      /\ inputUsed' < Size
                      /\ frames' > 0 => inputUsed' >= Size - Step
    BY <1>1 DEF Counted
  <2>1. frames' = frames + 1
    BY <1>1, WindowEnds
  <2>2. taken' + left' = given'
    BY <1>1, <1>3 DEF Counted
  <2>3. frames' * Step = frames * Step + Step /\ frames * Step \in Nat
    BY <1>3, <2>1, StepTimes
  <2>4. taken - inputUsed = frames * Step
    BY DEF Counted
  <2> QED
    BY <1>2, <1>3, <2>2, <2>3, <2>4
<1>5. EventNow \in EventRecords
  <2>1. Size + frames * Step \in Nat
    BY <1>3, StepTimes
  <2> QED
    BY <1>3, <2>1 DEF EventNow, EventRecords
<1>6. EventNow.since = {} => EventNow.sample = EventNow.end
  BY <1>1, WindowEnds DEF EventNow
<1>7. events' \in Seq(EventRecords) /\ SampleIsWindowEnd'
  <2>1. CASE events' = events
    BY <2>1 DEF SampleIsWindowEnd
  <2>2. CASE events' = Append(events, EventNow)
    <3>1. /\ events' \in Seq(EventRecords) /\ Len(events') = Len(events) + 1
          /\ \A k \in 1 .. Len(events) : events'[k] = events[k]
          /\ events'[Len(events) + 1] = EventNow
      BY <1>5, <2>2
    <3>2. ASSUME NEW k \in 1 .. Len(events'), events'[k].since = {}
          PROVE  events'[k].sample = events'[k].end
      <4>1. CASE k \in 1 .. Len(events)
        BY <3>1, <3>2, <4>1 DEF SampleIsWindowEnd
      <4>2. CASE k = Len(events) + 1
        BY <1>6, <3>1, <3>2, <4>2
      <4> QED
        BY <3>1, <4>1, <4>2
    <3> QED
      BY <3>1, <3>2 DEF SampleIsWindowEnd
  <2> QED
    BY <1>1, <2>1, <2>2
<1> QED
  BY <1>1, <1>4, <1>7

LEMMA Feed_Step ==
  ASSUME FeedInv, [Next]_vars, WindowInv', NoOverflow
  PROVE  FeedInv'
<1> USE WindowAssumption DEF FeedInv
<1>0. taken \in Nat /\ left \in Nat /\ inputUsed \in Int /\ given \in Nat
  BY DEF WindowInv, FeedType
<1>1. CASE NoFeatures
  <2>1. /\ inputUsed' = inputUsed + Consumed /\ taken' = taken + Consumed
        /\ left' = left - Consumed /\ inputUsed + Consumed # Size
        /\ UNCHANGED <<running, frames, events, given, since>> /\ running
    BY <1>1 DEF NoFeatures, BufferSamples, WindowFull
  <2>2. Consumed \in Int /\ Consumed >= 0 /\ inputUsed + Consumed <= Size
    BY Consuming DEF WindowInv, FeedType
  <2>3. Counted'
    <3> SUFFICES ASSUME since = {}
                 PROVE  /\ taken' + left' = given'
                        /\ taken' - inputUsed' = frames' * Step
                        /\ inputUsed' < Size
                        /\ frames' > 0 => inputUsed' >= Size - Step
      BY <2>1 DEF Counted
    <3>1. taken' - inputUsed' = taken - inputUsed
      BY <1>0, <2>1, <2>2
    <3> QED
      BY <1>0, <2>1, <2>2, <3>1 DEF Counted
  <2> QED
    BY <2>1, <2>3 DEF SampleIsWindowEnd
<1>2. CASE FrameScored
  BY <1>2, FrameScored_FeedInv
<1>3. CASE FrameFailed
  BY <1>3 DEF FrameFailed, Counted, SampleIsWindowEnd
<1>4. CASE FeedReturns
  BY <1>4 DEF FeedReturns, Counted, SampleIsWindowEnd
<1>5. ASSUME NEW n \in 0 .. MaxChunk, Feed(n)
      PROVE  FeedInv'
  <2>1. Counted'
    BY <1>0, <1>5 DEF Feed, Counted, windowVars
  <2> QED
    BY <1>5, <2>1 DEF Feed, SampleIsWindowEnd
<1>6. CASE FeedFeatures
  BY <1>6 DEF FeedFeatures, Counted, SampleIsWindowEnd
<1>7. CASE Reset
  <2>1. Counted'
    BY <1>7 DEF Reset, Counted
  <2> QED
    BY <1>7, <2>1 DEF Reset, SampleIsWindowEnd
<1>8. CASE UNCHANGED vars
  BY <1>8 DEF vars, windowVars, Counted, SampleIsWindowEnd
<1> QED
  BY <1>1, <1>2, <1>3, <1>4, <1>5, <1>6, <1>7, <1>8 DEF Next

LEMMA Spec_Feed ==
  ASSUME NoOverflow
  PROVE  Spec => []FeedInv
<1>1. WindowInv' /\ FeedInv /\ [Next]_vars => FeedInv'
  BY Feed_Step
<1> QED
  BY <1>1, Feed_Init, Spec_Window, PTL DEF Spec

\* Between calls the number of frames is what the number of samples makes it,
\* unless the window moves by nothing or the counter overflows.
THEOREM AlwaysFramesFollowSamples ==
  ASSUME NoOverflow
  PROVE  Spec => []FramesFollowSamples
<1>1. FeedInv => FramesFollowSamples
  <2> SUFFICES ASSUME FeedInv, ~running, since = {}
               PROVE  /\ taken = given
                      /\ given < Size + frames * Step
                      /\ frames > 0 => given >= Size + (frames - 1) * Step
    BY DEF FramesFollowSamples, Idle
  <2> USE WindowAssumption DEF NoOverflow
  <2>1. /\ taken \in Nat /\ inputUsed \in Int /\ frames \in Nat
        /\ taken + left = given /\ left = 0
        /\ taken - inputUsed = frames * Step
        /\ inputUsed < Size /\ (frames > 0 => inputUsed >= Size - Step)
    BY DEF FeedInv, WindowInv, FeedType, Counted
  <2>2. frames * Step \in Nat
    BY <2>1, StepTimes
  <2>3. frames > 0 => frames * Step = (frames - 1) * Step + Step /\ (frames - 1) * Step \in Nat
    <3> SUFFICES ASSUME frames > 0
                 PROVE  frames * Step = (frames - 1) * Step + Step /\ (frames - 1) * Step \in Nat
      OBVIOUS
    <3>1. frames - 1 \in Nat /\ (frames - 1) + 1 = frames
      BY <2>1
    <3> QED
      BY <3>1, StepTimes
  <2>4. taken = given
    BY <2>1
  <2> QED
    BY <2>1, <2>2, <2>3, <2>4
<1> QED
  BY <1>1, Spec_Feed, PTL

\* Event.Sample is where the window that made the event ends.
THEOREM AlwaysSampleIsWindowEnd ==
  ASSUME NoOverflow
  PROVE  Spec => []SampleIsWindowEnd
<1>1. FeedInv => SampleIsWindowEnd
  BY DEF FeedInv
<1> QED
  BY <1>1, Spec_Feed, PTL
=============================================================================
