--------------------------- MODULE DetectorProofs ---------------------------
(***************************************************************************)
(* Theorems about the detector, for every stride, window and cutoff of the *)
(* two models and every warm-up length, and the facts about the operators  *)
(* of StreamingModel on which they rest: what each does to the type of a   *)
(* state, and how the sum of a ring relates to its values.  At the end,    *)
(* that the detector implements the decision rule.                         *)
(***************************************************************************)
EXTENDS Detector, FiniteSetTheorems, FunctionTheorems, TLAPS

-----------------------------------------------------------------------------
(* The types of the operators of StreamingModel. *)

\* newStreamingModel builds a well-typed model.
LEMMA NewType ==
  ASSUME NEW c \in Config, MinSlices \in Nat, MaxProb \in Nat
  PROVE  New(c) \in State(c)
BY DEF New, State, Config, Slots, Cells, Probs

\* The slot a frame is copied to exists.
LEMMA SlotType ==
  ASSUME NEW c \in Config, NEW m \in State(c)
  PROVE  Slot(c, m) \in Slots(c)
BY DEF Slot, Slots, State, Config

\* ... and is the one after the last, or the first again.
LEMMA SlotOf ==
  ASSUME NEW n \in Nat \ {0}, NEW i \in 0 .. n
  PROVE  i % n = i \/ i % n = 0
<1>1. CASE i = n
  BY <1>1
<1>2. CASE i < n
  BY <1>2
<1> QED
  BY <1>1, <1>2

\* Copying a frame into the stride buffer.
LEMMA BufferedType ==
  ASSUME NEW c \in Config, NEW m \in State(c), NEW f \in Frames
  PROVE  Buffered(c, m, f) \in State(c)
<1>1. Slot(c, m) \in Slots(c)
  BY SlotType
<1>2. Slot(c, m) + 1 \in 0 .. c.stride
  BY <1>1 DEF Slots, Config
<1> QED
  BY <1>1, <1>2 DEF Buffered, State

\* Pushing an output into the ring.
LEMMA PushedType ==
  ASSUME NEW c \in Config, NEW m \in State(c), NEW p \in Probs
  PROVE  Pushed(c, m, p) \in State(c)
<1>1. NextCell(c, m) \in Cells(c)
  BY DEF NextCell, Cells, State, Config
<1> QED
  BY <1>1 DEF Pushed, State

\* The counter climbs, but never above 0.
LEMMA ClimbedType ==
  ASSUME NEW c \in Config, NEW m \in State(c), MinSlices \in Nat
  PROVE  Climbed(c, m) \in State(c)
BY DEF Climbed, State

\* feed, with and without an error.
LEMMA FedType ==
  ASSUME NEW c \in Config, NEW m \in State(c), NEW f \in Frames,
         NEW p \in Probs, MinSlices \in Nat
  PROVE  /\ Fed(c, m, f, p) \in State(c)
         /\ FailedFed(c, m, f) \in State(c)
<1>1. Buffered(c, m, f) \in State(c)
  BY BufferedType
<1>2. Pushed(c, Buffered(c, m, f), p) \in State(c)
  BY <1>1, PushedType
<1>3. Fed(c, m, f, p) \in State(c)
  BY <1>1, <1>2, ClimbedType DEF Fed
<1>4. FailedFed(c, m, f) \in State(c)
  BY <1>1 DEF FailedFed, State
<1> QED
  BY <1>3, <1>4

\* What a decision and a reset do to a model.
LEMMA DecidedType ==
  ASSUME NEW c \in Config, NEW m \in State(c), MinSlices \in Nat,
         MaxProb \in Nat
  PROVE  /\ Evaluated(m) \in State(c)
         /\ ProbabilitiesReset(c, m) \in State(c)
         /\ Restarted(c, m) \in State(c)
<1>1. Evaluated(m) \in State(c)
  BY DEF Evaluated, State
<1> DEFINE silent == [n \in Cells(c) |-> 0]
<1>a. /\ silent \in [Cells(c) -> Probs]
      /\ -MinSlices \in -MinSlices .. 0
      /\ 0 \in 0 .. c.stride
      /\ 0 \in Cells(c)
  BY DEF Probs, Config, Cells
<1> HIDE DEF silent
<1>2. ASSUME NEW n \in State(c)
      PROVE  [n EXCEPT !.ring = silent, !.ignoreWindows = -MinSlices] \in State(c)
  BY <1>2, <1>a DEF State
<1>3. [m EXCEPT !.strideStep = 0, !.lastN = 0, !.unprocessed = FALSE,
                !.carried = FALSE] \in State(c)
  BY <1>a DEF State
<1>4. ProbabilitiesReset(c, m) \in State(c) /\ Restarted(c, m) \in State(c)
  BY <1>2, <1>3 DEF ProbabilitiesReset, Restarted, silent
<1> QED
  BY <1>1, <1>4

-----------------------------------------------------------------------------
(* What feed does to the fields the decision reads. *)

\* An Invoke that is not due leaves the ring as it was ...
LEMMA FedSkipped ==
  ASSUME NEW c \in Config, NEW m \in State(c), NEW f \in Frames,
         NEW p \in Probs, ~InvokeDue(c, m)
  PROVE  /\ Fed(c, m, f, p).lastN = m.lastN
         /\ Fed(c, m, f, p).ring = m.ring
         /\ Fed(c, m, f, p).unprocessed = m.unprocessed
<1> DEFINE b == Buffered(c, m, f)
<1>1. b \in State(c) /\ Fed(c, m, f, p) = Climbed(c, b)
  BY BufferedType DEF Fed
<1>2. b.lastN = m.lastN /\ b.ring = m.ring /\ b.unprocessed = m.unprocessed
  BY DEF Buffered, State
<1> HIDE DEF b
<1> QED
  BY <1>1, <1>2 DEF Climbed, State

\* ... and a due one changes one cell, the new last one.
LEMMA FedInvoked ==
  ASSUME NEW c \in Config, NEW m \in State(c), NEW f \in Frames,
         NEW p \in Probs, InvokeDue(c, m)
  PROVE  /\ Fed(c, m, f, p).lastN = NextCell(c, m)
         /\ Fed(c, m, f, p).ring = [m.ring EXCEPT ![NextCell(c, m)] = p]
<1> DEFINE b == Buffered(c, m, f)
           u == Pushed(c, b, p)
<1>1. b \in State(c) /\ b.lastN = m.lastN /\ b.ring = m.ring
  BY BufferedType DEF Buffered, State
<1>2. NextCell(c, b) = NextCell(c, m)
  BY <1>1 DEF NextCell
<1> HIDE DEF b
<1>3. /\ u.lastN = NextCell(c, m)
      /\ u.ring = [m.ring EXCEPT ![NextCell(c, m)] = p]
  BY <1>1, <1>2 DEF Pushed, State
<1>4. u \in State(c) /\ Fed(c, m, f, p) = Climbed(c, u)
  BY <1>1, PushedType DEF Fed, b
<1> HIDE DEF u
<1> QED
  BY <1>3, <1>4 DEF Climbed, State

\* Either way the counter climbs by the output that is the last one then.
LEMMA FedClimbs ==
  ASSUME NEW c \in Config, NEW m \in State(c), NEW f \in Frames, NEW p \in Probs
  PROVE  Fed(c, m, f, p).ignoreWindows =
           IF LastOutput(Fed(c, m, f, p)) < c.cutoff /\ m.ignoreWindows < 0
             THEN m.ignoreWindows + 1 ELSE m.ignoreWindows
<1> DEFINE b == Buffered(c, m, f)
           u == IF InvokeDue(c, m) THEN Pushed(c, b, p) ELSE b
<1>1. b \in State(c) /\ b.ignoreWindows = m.ignoreWindows
  BY BufferedType DEF Buffered, State
<1>2. u \in State(c) /\ u.ignoreWindows = m.ignoreWindows
  BY <1>1, PushedType DEF Pushed, State
<1>3. Fed(c, m, f, p) = Climbed(c, u)
  BY DEF Fed
<1> HIDE DEF u
<1>4. LastOutput(Climbed(c, u)) = LastOutput(u)
  BY <1>2 DEF Climbed, LastOutput, State
<1>5. Climbed(c, u).ignoreWindows =
        IF LastOutput(u) < c.cutoff /\ u.ignoreWindows < 0
          THEN u.ignoreWindows + 1 ELSE u.ignoreWindows
  BY <1>2 DEF Climbed, State
<1> QED
  BY <1>2, <1>3, <1>4, <1>5

-----------------------------------------------------------------------------
(* The sum of a ring. *)

\* A ring whose values reach b at most sums up to b for every cell.
LEMMA SumBound ==
  ASSUME NEW c \in Config, NEW ring \in [Cells(c) -> Probs], MaxProb \in Nat,
         NEW b \in Nat, \A n \in Cells(c) : ring[n] <= b
  PROVE  /\ Sum(ring) \in Nat
         /\ Sum(ring) <= c.window * b
<1> DEFINE Box == Cells(c) \X (1 .. b)
<1>1. IsFiniteSet(Cells(c)) /\ Cardinality(Cells(c)) = c.window
  BY FS_Interval DEF Cells, Config
<1>2. IsFiniteSet(1 .. b) /\ Cardinality(1 .. b) = b
  BY FS_Interval
<1>3. IsFiniteSet(Box) /\ Cardinality(Box) = c.window * b
  <2>1. /\ IsFiniteSet(Box)
        /\ Cardinality(Box) = Cardinality(Cells(c)) * Cardinality(1 .. b)
    BY <1>1, <1>2, FS_Product
  <2> QED
    BY <2>1, <1>1, <1>2
<1>4. Units(ring) \in SUBSET Box
  <2>1. ASSUME NEW u \in Units(ring)
        PROVE  u \in Box
    <3>1. u \in Cells(c) \X (1 .. MaxProb) /\ u[2] <= ring[u[1]]
      BY <2>1 DEF Units
    <3>2. u[1] \in Cells(c) /\ u[2] \in 1 .. MaxProb /\ u = <<u[1], u[2]>>
      BY <3>1
    <3>3. ring[u[1]] \in 0 .. MaxProb /\ ring[u[1]] <= b
      BY <3>2 DEF Probs
    <3>4. u[2] \in 1 .. b
      BY <3>1, <3>2, <3>3
    <3> QED
      BY <3>2, <3>4
  <2> QED
    BY <2>1
<1>5. IsFiniteSet(Units(ring)) /\ Cardinality(Units(ring)) <= c.window * b
  BY <1>3, <1>4, FS_Subset
<1> QED
  BY <1>5, FS_CardinalityType DEF Sum

\* A ring has a largest value, so Maximum is one of its values and bounds all.
LEMMA MaximumBounds ==
  ASSUME NEW c \in Config, NEW ring \in [Cells(c) -> Probs], MaxProb \in Nat
  PROVE  /\ Maximum(ring) \in Probs
         /\ \A n \in Cells(c) : ring[n] <= Maximum(ring)
<1> DEFINE Values == {ring[n] : n \in Cells(c)}
           Gaps   == {MaxProb - v : v \in Values}
<1>1. Values \subseteq Probs
  OBVIOUS
<1>2. Gaps \subseteq Nat
  BY <1>1 DEF Probs
<1>3. Gaps # {}
  <2>1. 0 \in Cells(c)
    BY DEF Cells, Config
  <2>2. ring[0] \in Values
    BY <2>1
  <2> QED
    BY <2>2
<1>4. PICK g \in Gaps : \A h \in Gaps : ~ (<<h, g>> \in OpToRel(<, Nat))
  BY <1>2, <1>3, NatLessThanWellFounded, WFMin
<1>5. PICK v \in Values : g = MaxProb - v
  BY <1>4
<1>6. ASSUME NEW n \in Cells(c)
      PROVE  ring[n] <= v
  <2>1. MaxProb - ring[n] \in Gaps
    BY <1>6
  <2>2. ~ (MaxProb - ring[n] < g)
    BY <1>2, <1>4, <2>1 DEF OpToRel
  <2> QED
    BY <1>1, <1>5, <1>6, <2>2 DEF Probs
<1>7. Maximum(ring) \in Values /\ \A n \in Cells(c) : ring[n] <= Maximum(ring)
  BY <1>5, <1>6 DEF Maximum
<1> QED
  BY <1>1, <1>7

-----------------------------------------------------------------------------
(* The decision. *)

\* The integer division of a sum by the size of its ring.
LEMMA DivisionBounds ==
  ASSUME NEW s \in Nat, NEW w \in Nat \ {0}, NEW b \in Nat
  PROVE  /\ s \div w \in Nat
         /\ s <= w * b => s \div w <= b
         /\ s > w * b => s \div w >= b
<1> DEFINE q == s \div w
           r == s % w
<1>1. q \in Int /\ r \in 0 .. w - 1 /\ s = w * q + r
  OBVIOUS
<1> HIDE DEF q, r
<1>2. ASSUME q > b
      PROVE  w * q >= w * b + w
  <2>1. PICK k \in Nat : q = b + 1 + k
    <3>1. q - b - 1 \in Nat /\ q = b + 1 + (q - b - 1)
      BY <1>1, <1>2
    <3> QED
      BY <3>1
  <2>2. w * q = w * b + w + w * k /\ w * k \in Nat
    BY <2>1
  <2>3. w * b \in Nat
    OBVIOUS
  <2> QED
    BY <2>2, <2>3
<1>3. ASSUME q < b
      PROVE  w * q + w <= w * b
  <2>1. PICK k \in Nat : b = q + 1 + k
    <3>1. b - q - 1 \in Nat /\ b = q + 1 + (b - q - 1)
      BY <1>1, <1>3
    <3> QED
      BY <3>1
  <2>2. w * b = w * q + w + w * k /\ w * k \in Nat
    BY <1>1, <2>1
  <2>3. w * q \in Int
    BY <1>1
  <2> QED
    BY <2>2, <2>3
<1>4. w * q \in Int /\ w * b \in Nat
  BY <1>1
<1>5. q >= 0
  BY <1>1 DEF q
<1> QED
  BY <1>1, <1>2, <1>3, <1>4, <1>5 DEF q

\* Between the statistics of an event: detection is by the sum, and the sum
\* fixes the average and bounds the maximum.
LEMMA DetectedStatistics ==
  ASSUME NEW c \in Config, NEW ring \in [Cells(c) -> Probs], MaxProb \in Nat
  PROVE  /\ Average(ring) \in Probs
         /\ Average(ring) <= Maximum(ring)
         /\ AboveCutoff(c, ring) => /\ Maximum(ring) > c.cutoff
                                    /\ Average(ring) >= c.cutoff
<1>1. /\ Maximum(ring) \in Probs
      /\ \A n \in Cells(c) : ring[n] <= Maximum(ring)
  BY MaximumBounds
<1>2. Sum(ring) \in Nat /\ Sum(ring) <= c.window * Maximum(ring)
  BY <1>1, SumBound DEF Probs
<1>3. /\ c.window \in Nat \ {0}
      /\ c.cutoff \in Nat
      /\ Maximum(ring) \in Nat
  BY <1>1 DEF Config, Probs
<1>4. Average(ring) = Sum(ring) \div c.window
  <2>1. Cardinality(Cells(c)) = c.window
    BY FS_Interval DEF Cells, Config
  <2> QED
    BY <2>1 DEF Average
<1>5. Average(ring) \in Nat /\ Average(ring) <= Maximum(ring)
  BY <1>2, <1>3, <1>4, DivisionBounds
<1>6. ASSUME AboveCutoff(c, ring)
      PROVE  Average(ring) >= c.cutoff
  <2>1. Sum(ring) > c.window * c.cutoff
    BY <1>3, <1>6 DEF AboveCutoff
  <2> QED
    BY <2>1, <1>2, <1>3, <1>4, DivisionBounds
<1>7. ASSUME AboveCutoff(c, ring), Maximum(ring) <= c.cutoff
      PROVE  FALSE
  <2>1. \A n \in Cells(c) : ring[n] <= c.cutoff
    BY <1>1, <1>3, <1>7 DEF Probs
  <2>2. Sum(ring) <= c.window * c.cutoff
    BY <2>1, <1>3, SumBound
  <2>3. Sum(ring) > c.window * c.cutoff
    BY <1>3, <1>7 DEF AboveCutoff
  <2> QED
    BY <2>2, <2>3, <1>2, <1>3
<1> QED
  BY <1>1, <1>3, <1>5, <1>6, <1>7 DEF Probs

\* A detection makes an event, which is not the nil one.
LEMMA DetectedEvent ==
  ASSUME NEW m \in State(Wake), NEW v, frames \in 0 .. FrameWrap - 1, Detected(m)
  PROVE  /\ EventOf(m, v) \in Events
         /\ EventOf(m, v) # NoEvent
         /\ EventOf(m, v).blocked = ~Speech(v)
<1>1. m.ring \in [Cells(Wake) -> Probs]
  BY DEF State
<1>2. Average(m.ring) \in Probs /\ Maximum(m.ring) \in Probs
  BY <1>1, DetectedStatistics, MaximumBounds, ParametersAssumption
<1>3. (~Speech(v)) \in BOOLEAN
  BY DEF Speech
<1>4. EventOf(m, v) \in Events
  BY <1>2, <1>3 DEF EventOf, Events
<1> QED
  BY <1>4, NilAssumption DEF EventOf, Events

-----------------------------------------------------------------------------
(* Type correctness. *)

\* process keeps the wake word model well typed, and its event is one.
LEMMA ProcessType ==
  ASSUME NEW m \in State(Wake), NEW v \in State(Vad), frames \in 0 .. FrameWrap - 1
  PROVE  /\ Processed(m, v) \in State(Wake)
         /\ EventOf(m, v) \in Events \cup {NoEvent}
         /\ ReportOf(m) \in Reports \cup {NoReport}
<1> USE ParametersAssumption
<1>1. Processed(m, v) \in State(Wake)
  <2>1. Evaluated(m) \in State(Wake)
    BY DecidedType
  <2> QED
    BY <2>1, DecidedType DEF Processed
<1>2. EventOf(m, v) \in Events \cup {NoEvent}
  BY DetectedEvent DEF EventOf
<1>3. LastOutput(m) \in Probs
  BY DEF LastOutput, State
<1>4. ReportOf(m) \in Reports \cup {NoReport}
  BY <1>3 DEF ReportOf, Reports
<1> QED
  BY <1>1, <1>2, <1>4

\* Every call that fails returns a result without an event.
LEMMA FailedType ==
  ASSUME NEW call \in Calls
  PROVE  Failed(call) \in [call : Calls, ok : BOOLEAN, event : Events \cup {NoEvent},
                           report : Reports \cup {NoReport}]
BY DEF Failed, Result

\* NewDetector returns a well-typed detector ...
LEMMA TypeInit == Init => TypeOK
<1> USE ParametersAssumption
<1> SUFFICES ASSUME Init PROVE TypeOK
  OBVIOUS
<1>1. model \in State(Wake) /\ vad \in State(Vad)
  BY NewType DEF Init
<1>2. frames \in 0 .. FrameWrap - 1
  BY DEF Init
<1> QED
  BY <1>1, <1>2 DEF Init, TypeOK, Result, Calls

\* ... and every call, failed or not, keeps it so.
LEMMA TypeStep == TypeOK /\ [Next]_vars => TypeOK'
<1> USE ParametersAssumption
<1> SUFFICES ASSUME TypeOK, [Next]_vars PROVE TypeOK'
  OBVIOUS
<1> USE DEF TypeOK
<1>1. ASSUME NEW f \in Frames, NEW p \in Probs, NEW q \in Probs,
             ScoreFrame(f, p, q)
      PROVE  TypeOK'
  <2> DEFINE m == Fed(Wake, model, f, p)
             v == IF HasVad THEN Fed(Vad, vad, f, q) ELSE vad
  <2>1. m \in State(Wake) /\ v \in State(Vad)
    BY FedType
  <2>2. frames' \in 0 .. FrameWrap - 1
    BY <1>1 DEF ScoreFrame
  <2>3. /\ model' = Processed(m, v)
        /\ vad' = v
        /\ result' = Result("FeedFeatures", TRUE, EventOf(m, v), ReportOf(m))
    BY <1>1 DEF ScoreFrame
  <2> HIDE DEF m, v
  <2> QED
    BY <2>1, <2>2, <2>3, ProcessType DEF Result, Calls
<1>2. CASE RejectFrame
  BY <1>2, FailedType DEF RejectFrame, Calls
<1>3. ASSUME NEW f \in Frames, WakeInvokeFails(f)
      PROVE  TypeOK'
  <2>1. 0 \in Probs
    BY DEF Probs
  <2>2. FailedFed(Wake, model, f) \in State(Wake)
    BY <2>1, FedType
  <2> QED
    BY <1>3, <2>2, FailedType DEF WakeInvokeFails, Calls
<1>4. ASSUME NEW f \in Frames, NEW p \in Probs, VadInvokeFails(f, p)
      PROVE  TypeOK'
  <2>1. Fed(Wake, model, f, p) \in State(Wake) /\ FailedFed(Vad, vad, f) \in State(Vad)
    BY FedType
  <2> QED
    BY <1>4, <2>1, FailedType DEF VadInvokeFails, Calls
<1>5. CASE Reset
  <2>1. /\ Restarted(Wake, model) \in State(Wake)
        /\ Restarted(Vad, vad) \in State(Vad)
    BY DecidedType
  <2> QED
    BY <1>5, <2>1 DEF Reset, Result, Calls
<1>6. CASE WakeResetFails
  BY <1>6, FailedType DEF WakeResetFails, Calls
<1>7. CASE VadResetFails
  <2>1. Restarted(Wake, model) \in State(Wake)
    BY DecidedType
  <2> QED
    BY <1>7, <2>1, FailedType DEF VadResetFails, Calls
<1>8. CASE UNCHANGED vars
  BY <1>8 DEF vars
<1> QED
  BY <1>1, <1>2, <1>3, <1>4, <1>5, <1>6, <1>7, <1>8 DEF Next

\* TypeOK is an invariant: the indices into the ring and the stride buffer stay
\* in range and the counter between its bounds, whatever fails.
THEOREM TypeCorrect == Spec => []TypeOK
BY TypeInit, TypeStep, PTL DEF Spec

-----------------------------------------------------------------------------
(* Events. *)

\* A call that reports an event detected a ring above the cutoff.
LEMMA EventOfAboveCutoff ==
  ASSUME NEW m \in State(Wake), NEW v, EventOf(m, v) # NoEvent
  PROVE  /\ EventOf(m, v).max > Wake.cutoff
         /\ EventOf(m, v).avg >= Wake.cutoff
         /\ EventOf(m, v).avg <= EventOf(m, v).max
<1>1. Detected(m)
  BY DEF EventOf
<1>2. AboveCutoff(Wake, m.ring)
  BY <1>1 DEF Detected, WakeWordDetected
<1>3. m.ring \in [Cells(Wake) -> Probs]
  BY DEF State
<1>4. EventOf(m, v).avg = Average(m.ring) /\ EventOf(m, v).max = Maximum(m.ring)
  BY <1>1 DEF EventOf
<1> QED
  BY <1>2, <1>3, <1>4, DetectedStatistics, ParametersAssumption

\* The statistics that an event carries are those of the ring that was judged,
\* and they are above the cutoff: the invariant of the runs, for every window.
THEOREM EventsAreAboveCutoff == Spec => []EventAboveCutoff
<1>1. Init => EventAboveCutoff
  BY DEF Init, Result, EventAboveCutoff
<1>2. TypeOK /\ EventAboveCutoff /\ [Next]_vars => EventAboveCutoff'
  <2> SUFFICES ASSUME TypeOK, EventAboveCutoff, [Next]_vars
               PROVE  EventAboveCutoff'
    OBVIOUS
  <2>1. ASSUME NEW f \in Frames, NEW p \in Probs, NEW q \in Probs,
               ScoreFrame(f, p, q)
        PROVE  EventAboveCutoff'
    <3> DEFINE m == Fed(Wake, model, f, p)
               v == IF HasVad THEN Fed(Vad, vad, f, q) ELSE vad
    <3>1. m \in State(Wake)
      BY FedType, ParametersAssumption DEF TypeOK
    <3>2. result'.event = EventOf(m, v)
      BY <2>1 DEF ScoreFrame, Result
    <3> QED
      BY <3>1, <3>2, EventOfAboveCutoff DEF EventAboveCutoff
  <2>2. ASSUME result'.event = NoEvent
        PROVE  EventAboveCutoff'
    BY <2>2 DEF EventAboveCutoff
  <2>3. CASE \/ RejectFrame
             \/ \E f \in Frames : WakeInvokeFails(f)
             \/ \E f \in Frames, p \in Probs : VadInvokeFails(f, p)
             \/ Reset \/ WakeResetFails \/ VadResetFails
    BY <2>3, <2>2 DEF RejectFrame, WakeInvokeFails, VadInvokeFails, Reset,
       WakeResetFails, VadResetFails, Failed, Result
  <2>4. CASE UNCHANGED vars
    BY <2>4 DEF vars, EventAboveCutoff
  <2> QED
    BY <2>1, <2>3, <2>4 DEF Next
<1> QED
  BY <1>1, <1>2, TypeInit, TypeStep, PTL DEF Spec

-----------------------------------------------------------------------------
(* The detector implements the decision rule: the ring read as a queue. *)

Positions == 1 .. Wake.window

\* Reading from the cell behind the last one visits every cell once.
LEMMA CellAtBijection ==
  ASSUME NEW m \in State(Wake)
  PROVE  /\ \A i \in Positions : CellAt(m, i) \in Cells(Wake)
         /\ \A i, j \in Positions : CellAt(m, i) = CellAt(m, j) => i = j
         /\ \A n \in Cells(Wake) : \E i \in Positions : CellAt(m, i) = n
<1>1. /\ Wake.window \in Nat \ {0}
      /\ m.lastN \in 0 .. Wake.window - 1
  BY ParametersAssumption DEF Config, State, Cells
<1>2. ASSUME NEW i \in Positions
      PROVE  CellAt(m, i) \in Cells(Wake)
  BY <1>1 DEF CellAt, Cells, Positions
<1>3. ASSUME NEW i \in Positions, NEW j \in Positions, CellAt(m, i) = CellAt(m, j)
      PROVE  i = j
  BY <1>1, <1>3 DEF CellAt, Positions
<1>4. ASSUME NEW n \in Cells(Wake)
      PROVE  \E i \in Positions : CellAt(m, i) = n
  <2> DEFINE i == IF n > m.lastN THEN n - m.lastN ELSE n - m.lastN + Wake.window
  <2>1. i \in Positions
    BY <1>1 DEF Cells, Positions
  <2>2. CellAt(m, i) = n
    BY <1>1 DEF CellAt, Cells
  <2> QED
    BY <2>1, <2>2
<1> QED
  BY <1>2, <1>3, <1>4

\* The latest output is the queue's last.
LEMMA LastHeard ==
  ASSUME NEW m \in State(Wake)
  PROVE  /\ HeardBy(m) \in [Positions -> Probs]
         /\ HeardBy(m)[Wake.window] = LastOutput(m)
<1>1. /\ Wake.window \in Nat \ {0} /\ m.lastN \in 0 .. Wake.window - 1
      /\ m.ring \in [Cells(Wake) -> Probs]
  BY ParametersAssumption DEF Config, State, Cells
<1>2. HeardBy(m) \in [Positions -> Probs]
  BY <1>1, CellAtBijection DEF HeardBy, Positions
<1>3. Wake.window \in Positions /\ CellAt(m, Wake.window) = m.lastN
  BY <1>1 DEF Positions, CellAt
<1> QED
  BY <1>2, <1>3 DEF HeardBy, LastOutput, Positions

\* A window sums up to the same in either order.
LEMMA SumHeard ==
  ASSUME NEW m \in State(Wake)
  PROVE  Sum(HeardBy(m)) = Sum(m.ring)
<1> USE ParametersAssumption
<1> DEFINE h == HeardBy(m)
           S == Units(h)
           T == Units(m.ring)
           map == [u \in S |-> <<CellAt(m, u[1]), u[2]>>]
<1>1. /\ m.ring \in [Cells(Wake) -> Probs] /\ h \in [Positions -> Probs]
      /\ \A i \in Positions : h[i] = m.ring[CellAt(m, i)]
  BY LastHeard DEF State, HeardBy, Positions
<1> HIDE DEF h
<1>2. ASSUME NEW u \in S
      PROVE  /\ u[1] \in Positions /\ u[2] \in 1 .. MaxProb /\ u = <<u[1], u[2]>>
             /\ u[2] <= m.ring[CellAt(m, u[1])]
  <2>1. u \in Positions \X (1 .. MaxProb) /\ u[2] <= h[u[1]]
    BY <1>1, <1>2 DEF Units
  <2>2. u[1] \in Positions /\ u[2] \in 1 .. MaxProb /\ u = <<u[1], u[2]>>
    BY <2>1
  <2> QED
    BY <1>1, <2>1, <2>2
<1>3. ASSUME NEW n \in Cells(Wake), NEW k \in 1 .. MaxProb, k <= m.ring[n]
      PROVE  <<n, k>> \in T
  BY <1>1, <1>3 DEF Units
<1>4. map \in [S -> T]
  <2>1. ASSUME NEW u \in S
        PROVE  <<CellAt(m, u[1]), u[2]>> \in T
    BY <1>2, <1>3, CellAtBijection
  <2> QED
    BY <2>1
<1>5. ASSUME NEW a \in S, NEW b \in S, map[a] = map[b]
      PROVE  a = b
  <2>1. CellAt(m, a[1]) = CellAt(m, b[1]) /\ a[2] = b[2]
    BY <1>5
  <2>2. a[1] = b[1]
    BY <1>2, <2>1, CellAtBijection
  <2> QED
    BY <1>2, <2>1, <2>2
<1>6. ASSUME NEW t \in T
      PROVE  \E u \in S : map[u] = t
  <2>1. t \in Cells(Wake) \X (1 .. MaxProb) /\ t[2] <= m.ring[t[1]]
    BY <1>1, <1>6 DEF Units
  <2>2. t[1] \in Cells(Wake) /\ t[2] \in 1 .. MaxProb /\ t = <<t[1], t[2]>>
    BY <2>1
  <2>3. PICK i \in Positions : CellAt(m, i) = t[1]
    BY <2>2, CellAtBijection
  <2>4. <<i, t[2]>> \in S
    BY <1>1, <2>1, <2>2, <2>3 DEF Units
  <2>5. map[<<i, t[2]>>] = t
    BY <2>2, <2>3, <2>4
  <2> QED
    BY <2>4, <2>5
<1>7. IsFiniteSet(T) /\ ExistsBijection(T, S)
  <2>1. IsFiniteSet(T)
    <3>1. T \in SUBSET (Cells(Wake) \X (1 .. MaxProb))
      BY <1>1 DEF Units
    <3>2. IsFiniteSet(Cells(Wake)) /\ IsFiniteSet(1 .. MaxProb)
      <4>1. Wake.window - 1 \in Int /\ MaxProb \in Int
        BY DEF Config
      <4> QED
        BY <4>1, FS_Interval DEF Cells
    <3>3. IsFiniteSet(Cells(Wake) \X (1 .. MaxProb))
      BY <3>2, FS_Product
    <3> QED
      BY <3>1, <3>3, FS_Subset
  <2> HIDE DEF S, T, map
  <2>2. map \in Bijection(S, T)
    BY <1>4, <1>5, <1>6, Fun_IsBij
  <2>3. ExistsBijection(S, T)
    BY <2>2 DEF ExistsBijection
  <2>4. ExistsBijection(T, S)
    BY <2>3, Fun_ExistsBijSymmetric
  <2> QED
    BY <2>1, <2>4
<1>8. Cardinality(S) = Cardinality(T)
  <2> HIDE DEF S, T, map
  <2> QED
    BY <1>7, FS_Bijection
<1> QED
  BY <1>8 DEF Sum, h

-----------------------------------------------------------------------------
(* What feed does, as the rule sees it. *)

\* What the rule hears of a frame.
Output(p) == IF InvokeDue(Wake, model) THEN p ELSE Rule!NoOutput

LEMMA FedUnprocessed ==
  ASSUME NEW c \in Config, NEW m \in State(c), NEW f \in Frames, NEW p \in Probs
  PROVE  Fed(c, m, f, p).unprocessed = (m.unprocessed \/ InvokeDue(c, m))
<1>1. CASE ~InvokeDue(c, m)
  BY <1>1, FedSkipped DEF State
<1>2. CASE InvokeDue(c, m)
  <2> DEFINE b == Buffered(c, m, f)
             u == Pushed(c, b, p)
  <2>1. b \in State(c)
    BY BufferedType
  <2> HIDE DEF b
  <2>2. u \in State(c) /\ u.unprocessed = TRUE
    BY <2>1, PushedType DEF Pushed, State
  <2>3. Fed(c, m, f, p) = Climbed(c, u)
    BY <1>2 DEF Fed, b
  <2> HIDE DEF u
  <2>4. Climbed(c, u).unprocessed = u.unprocessed
    BY <2>2 DEF Climbed, State
  <2> QED
    BY <1>2, <2>2, <2>3, <2>4
<1> QED
  BY <1>1, <1>2

LEMMA FedHeard ==
  ASSUME TypeOK, NEW f \in Frames, NEW p \in Probs
  PROVE  HeardBy(Fed(Wake, model, f, p)) = Rule!Hear(HeardBy(model), Output(p))
<1> DEFINE m == Fed(Wake, model, f, p)
<1>1. m \in State(Wake) /\ model \in State(Wake) /\ Wake \in Config
  BY FedType, ParametersAssumption DEF TypeOK
<1>2. /\ Wake.window \in Nat \ {0} /\ model.lastN \in 0 .. Wake.window - 1
      /\ model.ring \in [Cells(Wake) -> Probs]
  BY <1>1 DEF Config, State, Cells
<1>3. CASE ~InvokeDue(Wake, model)
  <2>1. m.lastN = model.lastN /\ m.ring = model.ring
    BY <1>1, <1>3, FedSkipped
  <2>2. HeardBy(m) = HeardBy(model)
    BY <2>1 DEF HeardBy, CellAt
  <2> QED
    BY <1>3, <2>2 DEF Rule!Hear, Output
<1>4. CASE InvokeDue(Wake, model)
  <2>1. /\ m.lastN = NextCell(Wake, model)
        /\ m.ring = [model.ring EXCEPT ![NextCell(Wake, model)] = p]
    BY <1>1, <1>4, FedInvoked
  <2>a. m.lastN \in 0 .. Wake.window - 1
    BY <1>1 DEF State, Cells
  <2>b. \/ model.lastN + 1 = Wake.window /\ m.lastN = 0
        \/ model.lastN + 1 < Wake.window /\ m.lastN = model.lastN + 1
    BY <1>2, <2>1 DEF NextCell
  <2> HIDE DEF m
  <2>2. ASSUME NEW i \in Positions
        PROVE  m.ring[CellAt(m, i)] =
                 IF i = Wake.window THEN p ELSE HeardBy(model)[i + 1]
    <3>1. CASE i = Wake.window
      <4>1. CellAt(m, i) = NextCell(Wake, model) /\ NextCell(Wake, model) \in Cells(Wake)
        <5>1. CellAt(m, Wake.window) = m.lastN
          BY <1>2, <2>a DEF CellAt
        <5> QED
          BY <2>1, <2>a, <3>1, <5>1 DEF Cells
      <4> QED
        BY <1>2, <2>1, <3>1, <4>1
    <3>2. CASE i # Wake.window
      <4>1. i + 1 \in Positions
        BY <1>2, <3>2 DEF Positions
      <4>2. CellAt(m, i) = CellAt(model, i + 1)
        BY <1>2, <2>a, <2>b, <3>2 DEF CellAt, Positions
      <4>3. CellAt(m, i) # NextCell(Wake, model)
        <5>1. CellAt(m, i) # m.lastN
          BY <1>2, <2>a, <3>2 DEF CellAt, Positions
        <5> QED
          BY <2>1, <5>1
      <4>4. CellAt(m, i) \in Cells(Wake)
        BY <1>1, <4>1, <4>2, CellAtBijection
      <4>5. m.ring[CellAt(m, i)] = model.ring[CellAt(model, i + 1)]
        BY <1>2, <2>1, <4>2, <4>3, <4>4
      <4> QED
        BY <3>2, <4>1, <4>5 DEF HeardBy, Positions
    <3> QED
      BY <3>1, <3>2
  <2>3. Output(p) = p /\ p # Rule!NoOutput
    BY <1>4, ParametersAssumption DEF Output, Rule!NoOutput, Probs
  <2> QED
    BY <2>2, <2>3 DEF HeardBy, Rule!Hear, Positions, m
<1> QED
  BY <1>3, <1>4

\* A frame that is fed is one the rule listens to.
LEMMA FedListens ==
  ASSUME TypeOK, NEW f \in Frames, NEW p \in Probs
  PROVE  LET m == Fed(Wake, model, f, p)
             h == HeardBy(m)
         IN  /\ m \in State(Wake)
             /\ Output(p) \in Rule!Probs \cup {Rule!NoOutput}
             /\ h = Rule!Hear(HeardBy(model), Output(p))
             /\ MinSlices + m.ignoreWindows
                  = Rule!Count(MinSlices + model.ignoreWindows, h)
             /\ m.unprocessed = (model.unprocessed \/ Output(p) # Rule!NoOutput)
<1> DEFINE m == Fed(Wake, model, f, p)
           h == HeardBy(m)
<1>1. m \in State(Wake) /\ model \in State(Wake) /\ Wake \in Config /\ MinSlices \in Nat
  BY FedType, ParametersAssumption DEF TypeOK
<1>2. h[Wake.window] = LastOutput(m)
  BY <1>1, LastHeard
<1>3. m.ignoreWindows =
        IF LastOutput(m) < Wake.cutoff /\ model.ignoreWindows < 0
          THEN model.ignoreWindows + 1 ELSE model.ignoreWindows
  BY <1>1, FedClimbs
<1>4. h = Rule!Hear(HeardBy(model), Output(p))
  BY FedHeard
<1>5. Output(p) \in Rule!Probs \cup {Rule!NoOutput}
  BY DEF Output, Rule!Probs, Probs
<1>6. InvokeDue(Wake, model) <=> Output(p) # Rule!NoOutput
  BY ParametersAssumption DEF Output, Rule!NoOutput, Probs
<1>7. m.unprocessed = (model.unprocessed \/ Output(p) # Rule!NoOutput)
  BY <1>1, <1>6, FedUnprocessed
<1> HIDE DEF m, h
<1>8. MinSlices + m.ignoreWindows = Rule!Count(MinSlices + model.ignoreWindows, h)
  <2>1. model.ignoreWindows \in Int /\ m.ignoreWindows \in Int
    BY <1>1 DEF State
  <2>2. model.ignoreWindows < 0 <=> MinSlices + model.ignoreWindows < MinSlices
    BY <1>1, <2>1
  <2> QED
    BY <1>1, <1>2, <1>3, <2>1, <2>2 DEF Rule!Count
<1> QED
  BY <1>1, <1>4, <1>5, <1>7, <1>8 DEF m, h

-----------------------------------------------------------------------------
(* The decision and the resets, as the rule sees them. *)

LEMMA StartedOver ==
  ASSUME NEW m \in State(Wake)
  PROVE  /\ HeardBy(ProbabilitiesReset(Wake, m)) = Rule!Silence
         /\ HeardBy(Restarted(Wake, m)) = Rule!Silence
         /\ MinSlices + ProbabilitiesReset(Wake, m).ignoreWindows = 0
         /\ MinSlices + Restarted(Wake, m).ignoreWindows = 0
         /\ ProbabilitiesReset(Wake, m).unprocessed = m.unprocessed
         /\ Restarted(Wake, m).unprocessed = FALSE
<1> USE ParametersAssumption
<1>1. ASSUME NEW k \in State(Wake)
      PROVE  /\ HeardBy(ProbabilitiesReset(Wake, k)) = Rule!Silence
             /\ MinSlices + ProbabilitiesReset(Wake, k).ignoreWindows = 0
             /\ ProbabilitiesReset(Wake, k).unprocessed = k.unprocessed
  <2> DEFINE r == ProbabilitiesReset(Wake, k)
  <2>1. /\ r \in State(Wake)
        /\ r.ring = [n \in Cells(Wake) |-> 0]
        /\ r.ignoreWindows = -MinSlices
        /\ r.unprocessed = k.unprocessed
    BY <1>1, DecidedType DEF ProbabilitiesReset, State
  <2> HIDE DEF r
  <2>2. \A i \in Positions : r.ring[CellAt(r, i)] = 0
    BY <2>1, CellAtBijection
  <2>3. HeardBy(r) = Rule!Silence
    BY <2>2 DEF HeardBy, Rule!Silence, Positions
  <2> QED
    BY <2>1, <2>3 DEF r
<1> DEFINE k == [m EXCEPT !.strideStep = 0, !.lastN = 0, !.unprocessed = FALSE,
                          !.carried = FALSE]
<1>2. k \in State(Wake) /\ k.unprocessed = FALSE
  <2>1. 0 \in 0 .. Wake.stride /\ 0 \in Cells(Wake)
    BY DEF Config, Cells
  <2> QED
    BY <2>1 DEF State
<1>3. Restarted(Wake, m) = ProbabilitiesReset(Wake, k)
  BY DEF Restarted
<1> HIDE DEF k
<1> QED
  BY <1>1, <1>2, <1>3

LEMMA EvaluatedHeard ==
  ASSUME NEW m \in State(Wake)
  PROVE  /\ HeardBy(Evaluated(m)) = HeardBy(m)
         /\ Evaluated(m).ignoreWindows = m.ignoreWindows
         /\ m.ignoreWindows < 0 => Evaluated(m) = m
         /\ ~(m.ignoreWindows < 0) => Evaluated(m).unprocessed = FALSE
<1>1. CASE m.ignoreWindows < 0
  BY <1>1 DEF Evaluated
<1>2. CASE ~(m.ignoreWindows < 0)
  <2>1. /\ Evaluated(m).ring = m.ring /\ Evaluated(m).lastN = m.lastN
        /\ Evaluated(m).ignoreWindows = m.ignoreWindows
        /\ Evaluated(m).unprocessed = FALSE
    BY <1>2 DEF Evaluated, State
  <2> QED
    BY <1>2, <2>1 DEF HeardBy, CellAt
<1> QED
  BY <1>1, <1>2

\* A frame that is scored: the rule waits while it is not armed or has nothing
\* to judge, and judges the window otherwise.
LEMMA ScoreFrame_Rule ==
  ASSUME TypeOK, NEW f \in Frames, NEW p \in Probs, NEW q \in Probs,
         ScoreFrame(f, p, q)
  PROVE  Rule!Next
<1> USE ParametersAssumption
<1> DEFINE m == Fed(Wake, model, f, p)
           v == IF HasVad THEN Fed(Vad, vad, f, q) ELSE vad
           h == HeardBy(m)
           o == Output(p)
<1>1. /\ m \in State(Wake)
      /\ o \in Rule!Probs \cup {Rule!NoOutput}
      /\ h = Rule!Hear(HeardBy(model), o)
      /\ MinSlices + m.ignoreWindows = Rule!Count(MinSlices + model.ignoreWindows, h)
      /\ m.unprocessed = (model.unprocessed \/ o # Rule!NoOutput)
  BY FedListens
<1>2. /\ model' = Processed(m, v)
      /\ result'.ok = TRUE /\ result'.event = EventOf(m, v)
  BY DEF ScoreFrame, Result
<1>3. frames \in 0 .. FrameWrap - 1
  BY DEF TypeOK
<1> HIDE DEF m, v, h, o
<1>4. m.ignoreWindows \in -MinSlices .. 0 /\ m.unprocessed \in BOOLEAN
  BY <1>1 DEF State
<1>5. CASE ~m.unprocessed \/ m.ignoreWindows < 0
  <2>1. ~Detected(m)
    BY <1>4, <1>5 DEF Detected, WakeWordDetected
  <2>2. model' = m /\ Verdict' = "none"
    <3>1. Processed(m, v) = m
      BY <1>1, <1>5, <2>1, EvaluatedHeard DEF Processed
    <3>2. EventOf(m, v) = NoEvent
      BY <2>1 DEF EventOf
    <3> QED
      BY <1>2, <3>1, <3>2 DEF Verdict
  <2>3. HeardBy(model)' = h
    BY <2>2 DEF h
  <2>4. Rule!Wait(o)
    <3>1. Rule!Listen(o)
      BY <1>1, <2>2, <2>3 DEF Rule!Listen
    <3>2. model'.unprocessed => MinSlices + model'.ignoreWindows < MinSlices
      BY <1>4, <1>5, <2>2
    <3> QED
      BY <2>2, <3>1, <3>2 DEF Rule!Wait
  <2> QED
    BY <1>1, <2>4 DEF Rule!Next
<1>6. CASE m.unprocessed /\ ~(m.ignoreWindows < 0)
  <2>1. Speech(v) \in BOOLEAN
    BY DEF Speech
  <2> DEFINE loud == Rule!Sum(h) > Wake.cutoff * Wake.window
             e == Evaluated(m)
  <2>2. loud <=> Detected(m)
    <3>1. Rule!Sum(h) = Sum(h)
      <4>1. Rule!Units(h) = Units(h)
        BY DEF Rule!Units, Units
      <4> QED
        BY <4>1 DEF Rule!Sum, Sum, Rule!Cardinality, Cardinality
    <3>2. Sum(h) = Sum(m.ring)
      BY <1>1, SumHeard DEF h
    <3> QED
      BY <1>4, <1>6, <3>1, <3>2 DEF Detected, WakeWordDetected, AboveCutoff
  <2>3. m.ignoreWindows = 0
    BY <1>4, <1>6
  <2>4. /\ e \in State(Wake) /\ HeardBy(e) = h /\ e.ignoreWindows = 0
        /\ e.unprocessed = FALSE
    BY <1>1, <1>6, <2>3, EvaluatedHeard, DecidedType DEF h
  <2>5. model' = IF Detected(m) /\ Speech(v) THEN ProbabilitiesReset(Wake, e) ELSE e
    BY <1>2, <1>6 DEF Processed
  <2>6. Verdict' = IF ~Detected(m) THEN "none" ELSE IF Speech(v) THEN "fired" ELSE "blocked"
    <3>1. CASE ~Detected(m)
      BY <1>2, <3>1 DEF Verdict, EventOf
    <3>2. CASE Detected(m)
      BY <1>1, <1>2, <1>3, <3>2, DetectedEvent DEF Verdict
    <3> QED
      BY <3>1, <3>2
  <2> HIDE DEF e, loud
  <2>7. model'.unprocessed = FALSE
    BY <2>4, <2>5, StartedOver
  <2>8. IF loud /\ Speech(v)
          THEN HeardBy(model)' = Rule!Silence /\ MinSlices + model'.ignoreWindows = 0
          ELSE HeardBy(model)' = h /\ MinSlices + model'.ignoreWindows = MinSlices
    <3>1. CASE loud /\ Speech(v)
      <4>1. model' = ProbabilitiesReset(Wake, e)
        BY <2>2, <2>5, <3>1
      <4> QED
        BY <2>4, <3>1, <4>1, StartedOver
    <3>2. CASE ~(loud /\ Speech(v))
      <4>1. model' = e
        BY <2>2, <2>5, <3>2
      <4> QED
        BY <2>4, <3>2, <4>1
    <3> QED
      BY <3>1, <3>2
  <2>9. Rule!Judge(o, Speech(v))
    <3>1. model.unprocessed \/ o # Rule!NoOutput
      BY <1>1, <1>6
    <3>2. Rule!Count(MinSlices + model.ignoreWindows, h) = MinSlices
      BY <1>1, <2>3
    <3> QED
      BY <1>1, <2>2, <2>6, <2>7, <2>8, <3>1, <3>2 DEF Rule!Judge, loud
  <2> QED
    BY <1>1, <2>1, <2>9 DEF Rule!Next
<1> QED
  BY <1>4, <1>5, <1>6

LEMMA Rule_Step ==
  ASSUME TypeOK, [Next]_vars
  PROVE  [Rule!Next]_(Rule!ruleVars)
<1> USE ParametersAssumption
<1>0. model \in State(Wake) /\ vad \in State(Vad)
  BY DEF TypeOK
<1>1. ASSUME NEW f \in Frames, NEW p \in Probs, NEW q \in Probs, ScoreFrame(f, p, q)
      PROVE  Rule!Next
  BY <1>1, ScoreFrame_Rule
<1>2. CASE RejectFrame \/ WakeResetFails
  <2>1. model' = model /\ Verdict' = "error"
    BY <1>2 DEF RejectFrame, WakeResetFails, Failed, Result, Verdict
  <2>2. Rule!Miss
    BY <2>1 DEF Rule!Miss
  <2> QED
    BY <2>2 DEF Rule!Next
<1>3. ASSUME NEW f \in Frames, WakeInvokeFails(f)
      PROVE  Rule!Next
  <2>1. model' = FailedFed(Wake, model, f) /\ Verdict' = "error"
    BY <1>3 DEF WakeInvokeFails, Failed, Result, Verdict
  <2>2. /\ model'.ring = model.ring /\ model'.lastN = model.lastN
        /\ model'.ignoreWindows = model.ignoreWindows
        /\ model'.unprocessed = model.unprocessed
    BY <1>0, <2>1 DEF FailedFed, Buffered, State
  <2>3. HeardBy(model)' = HeardBy(model)
    BY <2>2 DEF HeardBy, CellAt
  <2>4. Rule!Miss
    BY <2>1, <2>2, <2>3 DEF Rule!Miss
  <2> QED
    BY <2>4 DEF Rule!Next
<1>4. ASSUME NEW f \in Frames, NEW p \in Probs, VadInvokeFails(f, p)
      PROVE  Rule!Next
  <2>1. model' = Fed(Wake, model, f, p) /\ Verdict' = "error"
    BY <1>4 DEF VadInvokeFails, Failed, Result, Verdict
  <2>2. /\ Output(p) \in Rule!Probs \cup {Rule!NoOutput}
        /\ HeardBy(model)' = Rule!Hear(HeardBy(model), Output(p))
        /\ MinSlices + model'.ignoreWindows
             = Rule!Count(MinSlices + model.ignoreWindows, HeardBy(model)')
        /\ model'.unprocessed = (model.unprocessed \/ Output(p) # Rule!NoOutput)
    BY <2>1, FedListens
  <2>3. Rule!Overhear(Output(p))
    BY <2>1, <2>2 DEF Rule!Overhear, Rule!Listen
  <2> QED
    BY <2>2, <2>3 DEF Rule!Next
<1>5. CASE Reset \/ VadResetFails
  <2>1. model' = Restarted(Wake, model) /\ Verdict' \in {"none", "error"}
    BY <1>5 DEF Reset, VadResetFails, Failed, Result, Verdict
  <2>2. Rule!StartOver
    BY <1>0, <2>1, StartedOver DEF Rule!StartOver
  <2> QED
    BY <2>2 DEF Rule!Next
<1>6. CASE UNCHANGED vars
  BY <1>6 DEF vars, Rule!ruleVars, Verdict, HeardBy, CellAt
<1> QED
  BY <1>1, <1>2, <1>3, <1>4, <1>5, <1>6 DEF Next

LEMMA Rule_Init == Init => Rule!Init
<1> SUFFICES ASSUME Init PROVE Rule!Init
  OBVIOUS
<1> USE ParametersAssumption
<1>1. model = New(Wake) /\ New(Wake) \in State(Wake)
  BY NewType DEF Init
<1>2. \A i \in Positions : model.ring[CellAt(model, i)] = 0
  BY <1>1, CellAtBijection DEF New
<1>3. HeardBy(model) = Rule!Silence
  BY <1>2 DEF HeardBy, Rule!Silence, Positions
<1>4. MinSlices + model.ignoreWindows = 0 /\ model.unprocessed = FALSE
  BY <1>1 DEF New
<1>5. Verdict = "none"
  BY DEF Init, Result, Verdict
<1> QED
  BY <1>3, <1>4, <1>5 DEF Rule!Init

-----------------------------------------------------------------------------
\* Whatever fails and in whatever order the calls come, the detector's verdicts
\* are those of the decision rule.
THEOREM RefinesRule == Spec => ImplementsRule
<1>1. TypeOK /\ [Next]_vars => [Rule!Next]_(Rule!ruleVars)
  BY Rule_Step
<1> QED
  BY <1>1, Rule_Init, TypeCorrect, PTL DEF Spec, ImplementsRule, Rule!Spec
=============================================================================
