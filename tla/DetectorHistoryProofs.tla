----------------------- MODULE DetectorHistoryProofs ------------------------
(***************************************************************************)
(* What a detector's answers owe to its past, for every warm-up length,    *)
(* window, stride and cutoff: the refractory period and what the stride    *)
(* buffers hold, whatever fails; and a detector that was used and Reset    *)
(* answers as a new one, for every scorer that is deterministic after a    *)
(* Reset.                                                                  *)
(***************************************************************************)
EXTENDS DetectorAudit, DetectorTwin, DetectorProofs

(* The frames since a start, and the buffers. *)

\* The counter's distance from its start never exceeds the frames taken since,
\* and while the two are equal every frame was quiet, so that the ring holds
\* nothing above the cutoff.
QuietCount == MinSlices + model.ignoreWindows

Spacing ==
  /\ taken \in 0 .. MinSlices + 1
  /\ QuietCount <= SinceStart(taken)
  /\ QuietCount = SinceStart(taken) =>
       \A n \in Cells(Wake) : model.ring[n] <= Wake.cutoff

SpacingInv == TypeOK /\ Spacing /\ EventsAreSpaced

-----------------------------------------------------------------------------
\* A step of the audited detector is one of the detector.
LEMMA AuditedSteps == [AuditNext]_auditVars => [Next]_vars
BY DEF AuditNext, auditVars, AuditScoreFrame, AuditRejectFrame,
   AuditWakeInvokeFails, AuditVadInvokeFails, AuditReset, AuditWakeResetFails,
   AuditVadResetFails, Next

\* The ring of an untouched or restarted model is silent.
LEMMA SilentRing ==
  ASSUME NEW m
  PROVE  /\ \A n \in Cells(Wake) : New(Wake).ring[n] = 0
         /\ m \in State(Wake) =>
              /\ ProbabilitiesReset(Wake, m).ring = New(Wake).ring
              /\ ProbabilitiesReset(Wake, m).ignoreWindows = -MinSlices
              /\ Restarted(Wake, m).ring = New(Wake).ring
              /\ Restarted(Wake, m).ignoreWindows = -MinSlices
BY DEF New, ProbabilitiesReset, Restarted, State

\* What a frame that the wake word model takes does to the count of quiet
\* frames, before any decision.
LEMMA TakenFrame ==
  ASSUME TypeOK, Spacing, NEW f \in Frames, NEW p \in Probs,
         WakeTakes(f)
  PROVE  LET m == Fed(Wake, model, f, p) IN
         /\ m \in State(Wake)
         /\ taken' \in 1 .. MinSlices + 1
         /\ MinSlices + m.ignoreWindows <= taken'
         /\ MinSlices + m.ignoreWindows = taken' =>
              \A n \in Cells(Wake) : m.ring[n] <= Wake.cutoff
<1> USE ParametersAssumption
<1> DEFINE m == Fed(Wake, model, f, p)
           t == SinceStart(taken)
<1>1. model \in State(Wake) /\ m \in State(Wake)
  BY FedType DEF TypeOK
<1>2. t \in 0 .. MinSlices + 1 /\ taken' = UpToMinSlices(t + 1)
  BY DEF Spacing, SinceStart, WakeTakes
<1>3. /\ QuietCount \in 0 .. MinSlices
      /\ QuietCount <= t
      /\ QuietCount = t => \A n \in Cells(Wake) : model.ring[n] <= Wake.cutoff
  BY <1>1 DEF Spacing, QuietCount, State
<1>4. /\ model.ring \in [Cells(Wake) -> Probs]
      /\ m.ring \in [Cells(Wake) -> Probs]
      /\ m.lastN \in Cells(Wake)
      /\ Wake.cutoff \in Nat
  BY <1>1 DEF State, Config, Probs
<1>5. /\ m.ignoreWindows = IF LastOutput(m) < Wake.cutoff /\ model.ignoreWindows < 0
                             THEN model.ignoreWindows + 1 ELSE model.ignoreWindows
      /\ \A n \in Cells(Wake) : n # m.lastN => m.ring[n] = model.ring[n]
  <2>1. ASSUME InvokeDue(Wake, model), NEW n \in Cells(Wake), n # m.lastN
        PROVE  m.ring[n] = model.ring[n]
    <3>1. /\ m.lastN = NextCell(Wake, model)
          /\ m.ring = [model.ring EXCEPT ![NextCell(Wake, model)] = p]
      BY <1>1, <2>1, FedInvoked
    <3> QED
      BY <1>4, <2>1, <3>1
  <2>2. ASSUME ~InvokeDue(Wake, model)
        PROVE  m.ring = model.ring
    BY <1>1, <2>2, FedSkipped
  <2>3. m.ignoreWindows = IF LastOutput(m) < Wake.cutoff /\ model.ignoreWindows < 0
                            THEN model.ignoreWindows + 1 ELSE model.ignoreWindows
    BY <1>1, FedClimbs
  <2> QED
    BY <2>1, <2>2, <2>3
<1>6. /\ m.ignoreWindows \in -MinSlices .. 0
      /\ model.ignoreWindows \in -MinSlices .. 0
  BY <1>1 DEF State
<1> HIDE DEF m, t
<1>7. taken' \in 1 .. MinSlices + 1
  BY <1>2 DEF UpToMinSlices
<1>8. MinSlices + m.ignoreWindows <= taken'
  BY <1>2, <1>3, <1>5, <1>6 DEF UpToMinSlices, QuietCount
<1>9. ASSUME MinSlices + m.ignoreWindows = taken', NEW n \in Cells(Wake)
      PROVE  m.ring[n] <= Wake.cutoff
  <2>1. QuietCount = t /\ LastOutput(m) < Wake.cutoff
    BY <1>2, <1>3, <1>5, <1>6, <1>9 DEF UpToMinSlices, QuietCount
  <2>2. CASE n = m.lastN
    BY <2>1, <2>2, <1>4 DEF LastOutput, Probs
  <2>3. CASE n # m.lastN
    BY <2>1, <2>3, <1>3, <1>5, <1>9
  <2> QED
    BY <2>2, <2>3
<1> QED
  BY <1>1, <1>7, <1>8, <1>9 DEF m

\* The invariant holds initially ...
LEMMA SpacingInit == AuditInit => SpacingInv
<1> USE ParametersAssumption
<1> SUFFICES ASSUME AuditInit PROVE SpacingInv
  OBVIOUS
<1>1. TypeOK
  BY TypeInit DEF AuditInit
<1>2. /\ model.ignoreWindows = -MinSlices
      /\ \A n \in Cells(Wake) : model.ring[n] = 0
      /\ result.event = NoEvent
      /\ taken = 0
  BY DEF AuditInit, Init, New, Result
<1>3. Wake.cutoff \in Nat
  BY DEF Config, Probs
<1> QED
  BY <1>1, <1>2, <1>3
     DEF SpacingInv, Spacing, QuietCount, SinceStart, JustFired, EventsAreSpaced

\* ... and every call keeps it.
LEMMA SpacingStep == SpacingInv /\ [AuditNext]_auditVars => SpacingInv'
<1> USE ParametersAssumption
<1> SUFFICES ASSUME SpacingInv, [AuditNext]_auditVars PROVE SpacingInv'
  OBVIOUS
<1>1. TypeOK /\ TypeOK' /\ Spacing
  BY AuditedSteps, TypeStep DEF SpacingInv
<1>2. SUFFICES Spacing' /\ EventsAreSpaced'
  BY <1>1 DEF SpacingInv
<1>3. ASSUME NEW f \in Frames, NEW p \in Probs, NEW q \in Probs,
             AuditScoreFrame(f, p, q)
      PROVE  Spacing' /\ EventsAreSpaced'
  <2> DEFINE m == Fed(Wake, model, f, p)
             v == IF HasVad THEN Fed(Vad, vad, f, q) ELSE vad
  <2>1. /\ m \in State(Wake)
        /\ taken' \in 1 .. MinSlices + 1
        /\ MinSlices + m.ignoreWindows <= taken'
        /\ MinSlices + m.ignoreWindows = taken' =>
             \A n \in Cells(Wake) : m.ring[n] <= Wake.cutoff
    BY <1>1, <1>3, TakenFrame DEF AuditScoreFrame
  <2>2. model' = Processed(m, v) /\ result'.event = EventOf(m, v)
    BY <1>3 DEF AuditScoreFrame, ScoreFrame, Result
  <2>3. m.ignoreWindows \in -MinSlices .. 0 /\ m.ring \in [Cells(Wake) -> Probs]
    BY <2>1 DEF State
  <2> HIDE DEF m, v
  <2>4. ASSUME Detected(m)
        PROVE  taken' > MinSlices
    <3>1. m.ignoreWindows = 0 /\ AboveCutoff(Wake, m.ring)
      BY <2>3, <2>4 DEF Detected, WakeWordDetected
    <3>2. Maximum(m.ring) > Wake.cutoff /\ Maximum(m.ring) \in Probs
      BY <2>3, <3>1, DetectedStatistics, MaximumBounds
    <3>3. ~ \A n \in Cells(Wake) : m.ring[n] <= Wake.cutoff
      <4>1. ASSUME \A n \in Cells(Wake) : m.ring[n] <= Wake.cutoff
            PROVE  FALSE
        <5>1. Wake.cutoff \in Nat /\ Wake.window \in Nat
          BY DEF Config, Probs
        <5>2. Sum(m.ring) \in Nat /\ Sum(m.ring) <= Wake.window * Wake.cutoff
          BY <2>3, <4>1, <5>1, SumBound
        <5> QED
          BY <3>1, <5>1, <5>2 DEF AboveCutoff
      <4> QED
        BY <4>1
    <3> QED
      BY <2>1, <3>1, <3>3
  <2>5. EventsAreSpaced'
    BY <2>2, <2>4 DEF EventsAreSpaced, EventOf
  <2>6. CASE Detected(m) /\ Speech(v)
    <3>1. Evaluated(m) \in State(Wake)
      BY <2>1, DecidedType
    <3>2. /\ model'.ignoreWindows = -MinSlices
          /\ model'.ring = New(Wake).ring
      BY <2>2, <2>6, <3>1, SilentRing DEF Processed, Detected
    <3>3. JustFired'
      <4>1. EventOf(m, v) # NoEvent /\ ~EventOf(m, v).blocked
        BY <1>1, <2>1, <2>6, DetectedEvent DEF TypeOK
      <4> QED
        BY <4>1, <2>2 DEF JustFired
    <3>4. \A n \in Cells(Wake) : model'.ring[n] <= Wake.cutoff
      BY <3>2, SilentRing DEF Config, Probs
    <3> QED
      BY <2>1, <2>5, <3>2, <3>3, <3>4 DEF Spacing, QuietCount, SinceStart
  <2>7. CASE ~(Detected(m) /\ Speech(v))
    <3>1. /\ Evaluated(m).ring = m.ring
          /\ Evaluated(m).ignoreWindows = m.ignoreWindows
      BY <2>1 DEF Evaluated, State
    <3>2. model'.ring = m.ring /\ model'.ignoreWindows = m.ignoreWindows
      BY <2>2, <2>7, <3>1 DEF Processed
    <3>3. ~JustFired'
      <4>1. CASE Detected(m)
        BY <1>1, <2>1, <2>2, <2>7, <4>1, DetectedEvent DEF JustFired, TypeOK
      <4>2. CASE ~Detected(m)
        BY <2>2, <4>2 DEF JustFired, EventOf
      <4> QED
        BY <4>1, <4>2
    <3> QED
      BY <2>1, <2>5, <3>2, <3>3 DEF Spacing, QuietCount, SinceStart
  <2> QED
    BY <2>6, <2>7
<1>4. ASSUME NEW f \in Frames, NEW p \in Probs, AuditVadInvokeFails(f, p)
      PROVE  Spacing' /\ EventsAreSpaced'
  <2> DEFINE m == Fed(Wake, model, f, p)
  <2>1. /\ taken' \in 1 .. MinSlices + 1
        /\ MinSlices + m.ignoreWindows <= taken'
        /\ MinSlices + m.ignoreWindows = taken' =>
             \A n \in Cells(Wake) : m.ring[n] <= Wake.cutoff
    BY <1>1, <1>4, TakenFrame DEF AuditVadInvokeFails
  <2>2. model' = m /\ result'.event = NoEvent
    BY <1>4 DEF AuditVadInvokeFails, VadInvokeFails, Failed, Result
  <2> QED
    BY <2>1, <2>2 DEF Spacing, QuietCount, SinceStart, JustFired, EventsAreSpaced
<1>5. ASSUME /\ result'.event = NoEvent
             /\ model'.ring = model.ring
             /\ model'.ignoreWindows = model.ignoreWindows
             /\ taken' = SinceStart(taken)
      PROVE  Spacing' /\ EventsAreSpaced'
  BY <1>1, <1>5 DEF Spacing, QuietCount, SinceStart, JustFired, EventsAreSpaced
<1>6. CASE AuditRejectFrame
  BY <1>5, <1>6 DEF AuditRejectFrame, RejectFrame, Failed, Result, KeepsCount
<1>7. ASSUME NEW f \in Frames, AuditWakeInvokeFails(f)
      PROVE  Spacing' /\ EventsAreSpaced'
  <2>1. model' = FailedFed(Wake, model, f) /\ model \in State(Wake)
    BY <1>1, <1>7 DEF AuditWakeInvokeFails, WakeInvokeFails, TypeOK
  <2>2. model'.ring = model.ring /\ model'.ignoreWindows = model.ignoreWindows
    BY <2>1, BufferedType DEF FailedFed, Buffered, State
  <2> QED
    BY <1>5, <1>7, <2>2
       DEF AuditWakeInvokeFails, WakeInvokeFails, Failed, Result, KeepsCount
<1>8. ASSUME /\ model' = Restarted(Wake, model)
             /\ result'.event = NoEvent
             /\ taken' = 0
      PROVE  Spacing' /\ EventsAreSpaced'
  <2>1. /\ model'.ignoreWindows = -MinSlices
        /\ model'.ring = New(Wake).ring
    BY <1>1, <1>8, SilentRing DEF TypeOK
  <2>2. \A n \in Cells(Wake) : model'.ring[n] <= Wake.cutoff
    BY <2>1, SilentRing DEF Config, Probs
  <2> QED
    BY <1>8, <2>1, <2>2
       DEF Spacing, QuietCount, SinceStart, JustFired, EventsAreSpaced
<1>9. CASE AuditReset
  BY <1>8, <1>9 DEF AuditReset, Reset, Result, WakeStartsOver
<1>10. CASE AuditWakeResetFails
  BY <1>5, <1>10 DEF AuditWakeResetFails, WakeResetFails, Failed, Result,
     KeepsCount
<1>11. CASE AuditVadResetFails
  BY <1>8, <1>11 DEF AuditVadResetFails, VadResetFails, Failed, Result,
     WakeStartsOver
<1>12. CASE UNCHANGED auditVars
  BY <1>12 DEF auditVars, vars, SpacingInv, Spacing, QuietCount,
     SinceStart, JustFired, EventsAreSpaced
<1> QED
  BY <1>3, <1>4, <1>6, <1>7, <1>9, <1>10, <1>11, <1>12 DEF AuditNext

\* No event is reported within minSlicesBeforeDetection frames of the start, a
\* reset or a detection.
THEOREM RefractoryPeriod == AuditSpec => []EventsAreSpaced
<1>1. SpacingInv => EventsAreSpaced
  BY DEF SpacingInv
<1> QED
  BY <1>1, SpacingInit, SpacingStep, PTL DEF AuditSpec

-----------------------------------------------------------------------------
(* What the stride buffers hold. *)

Latest(c) == [Slots(c) -> Frames \cup {Blank}]

\* The frames of the stride begun, in order, are the last ones taken.
Holds(c, m, latest) ==
  \A s \in 0 .. m.strideStep - 1 : m.input[s] = latest[c.stride - m.strideStep + s]

BuffersInv ==
  /\ TypeOK
  /\ wakeFrames \in Latest(Wake) /\ vadFrames \in Latest(Vad)
  /\ Holds(Wake, model, wakeFrames) /\ Holds(Vad, vad, vadFrames)
  /\ ~HasVad => vad.strideStep = 0

\* feed, failed or not, puts the frame into the next slot.
LEMMA FedBuffers ==
  ASSUME NEW c \in Config, NEW m \in State(c), NEW f \in Frames, NEW p \in Probs
  PROVE  /\ Fed(c, m, f, p).strideStep = Slot(c, m) + 1
         /\ Fed(c, m, f, p).input = [m.input EXCEPT ![Slot(c, m)] = f]
         /\ FailedFed(c, m, f).strideStep = Slot(c, m) + 1
         /\ FailedFed(c, m, f).input = [m.input EXCEPT ![Slot(c, m)] = f]
<1> DEFINE b == Buffered(c, m, f)
           u == IF InvokeDue(c, m) THEN Pushed(c, b, p) ELSE b
           i == [m.input EXCEPT ![Slot(c, m)] = f]
<1>1. b \in State(c) /\ b.strideStep = Slot(c, m) + 1 /\ b.input = i
  BY BufferedType DEF Buffered, State
<1>2. Fed(c, m, f, p) = Climbed(c, u) /\ FailedFed(c, m, f) = [b EXCEPT !.carried = TRUE]
  BY DEF Fed, FailedFed
<1> HIDE DEF b, i
<1>3. u \in State(c) /\ u.strideStep = Slot(c, m) + 1 /\ u.input = i
  BY <1>1, PushedType DEF Pushed, State
<1> HIDE DEF u
<1>4. Climbed(c, u).strideStep = u.strideStep /\ Climbed(c, u).input = u.input
  BY <1>3 DEF Climbed, State
<1>5. /\ [b EXCEPT !.carried = TRUE].strideStep = b.strideStep
      /\ [b EXCEPT !.carried = TRUE].input = b.input
  BY <1>1 DEF State
<1> QED
  BY <1>1, <1>2, <1>3, <1>4, <1>5 DEF i

LEMMA FedStride ==
  ASSUME NEW c \in Config, NEW m \in State(c), NEW f \in Frames, NEW p \in Probs
  PROVE  /\ Fed(c, m, f, p).strideStep = Slot(c, m) + 1
         /\ FailedFed(c, m, f).strideStep = Slot(c, m) + 1
<1>1. /\ Fed(c, m, f, p).strideStep = Slot(c, m) + 1
      /\ Fed(c, m, f, p).input = [m.input EXCEPT ![Slot(c, m)] = f]
  BY FedBuffers
<1>2. /\ FailedFed(c, m, f).strideStep = Slot(c, m) + 1
      /\ FailedFed(c, m, f).input = [m.input EXCEPT ![Slot(c, m)] = f]
  BY FedBuffers
<1> QED
  BY <1>1, <1>2

\* A frame that is put into the next slot of the buffer and after the latest
\* frames is the last of both.
LEMMA HoldsNext ==
  ASSUME NEW c \in Config, NEW m \in State(c), NEW latest \in Latest(c),
         Holds(c, m, latest), NEW f \in Frames, NEW n,
         n.strideStep = Slot(c, m) + 1, n.input = [m.input EXCEPT ![Slot(c, m)] = f]
  PROVE  /\ LatestWith(c, latest, f) \in Latest(c)
         /\ Holds(c, n, LatestWith(c, latest, f))
<1> DEFINE k == Slot(c, m)
           l == LatestWith(c, latest, f)
           N == c.stride
<1>1. /\ N \in Nat \ {0} /\ k \in 0 .. N - 1 /\ Slots(c) = 0 .. N - 1
      /\ m.strideStep \in 0 .. N /\ (k = m.strideStep \/ k = 0)
      /\ m.input \in [Slots(c) -> Frames \cup {Blank}]
  <2>1. /\ N \in Nat \ {0} /\ Slots(c) = 0 .. N - 1 /\ m.strideStep \in 0 .. N
        /\ m.input \in [Slots(c) -> Frames \cup {Blank}]
    BY DEF Config, State, Slots
  <2>2. k \in Slots(c)
    BY SlotType
  <2>3. k = m.strideStep \/ k = 0
    BY <2>1, SlotOf DEF Slot
  <2> QED
    BY <2>1, <2>2, <2>3
<1>2. /\ \A s \in 0 .. N - 1 : l[s] = IF s = N - 1 THEN f ELSE latest[s + 1]
      /\ l \in Latest(c)
  BY <1>1 DEF LatestWith, Latest
<1>3. /\ n.strideStep = k + 1
      /\ n.input = [m.input EXCEPT ![k] = f]
  OBVIOUS
<1>4. \A s \in 0 .. m.strideStep - 1 : m.input[s] = latest[N - m.strideStep + s]
  BY DEF Holds
<1> HIDE DEF k, l, N
<1>5. ASSUME NEW s \in 0 .. k
      PROVE  n.input[s] = l[N - (k + 1) + s]
  <2>1. CASE s = k
    <3>1. n.input[s] = f
      BY <1>1, <1>3, <2>1
    <3>2. N - (k + 1) + s = N - 1 /\ N - 1 \in 0 .. N - 1
      BY <1>1, <2>1
    <3> QED
      BY <1>2, <3>1, <3>2
  <2>2. CASE s # k
    <3>1. /\ s \in 0 .. k - 1 /\ k = m.strideStep
          /\ N - (k + 1) + s \in 0 .. N - 1 /\ N - (k + 1) + s # N - 1
          /\ N - (k + 1) + s + 1 = N - k + s
      BY <1>1, <2>2
    <3>2. n.input[s] = m.input[s]
      BY <1>1, <1>3, <3>1
    <3>3. l[N - (k + 1) + s] = latest[N - k + s]
      BY <1>2, <3>1
    <3>4. m.input[s] = latest[N - k + s]
      BY <1>4, <3>1
    <3> QED
      BY <3>2, <3>3, <3>4
  <2> QED
    BY <2>1, <2>2
<1>6. 0 .. n.strideStep - 1 = 0 .. k /\ N - n.strideStep = N - (k + 1)
  BY <1>1, <1>3
<1> QED
  BY <1>2, <1>3, <1>5, <1>6 DEF Holds, l, N

\* A model that is fed by a call, which may fail.
LEMMA FedHolds ==
  ASSUME NEW c \in Config, NEW m \in State(c), NEW latest \in Latest(c),
         Holds(c, m, latest), NEW f \in Frames, NEW p \in Probs
  PROVE  /\ LatestWith(c, latest, f) \in Latest(c)
         /\ Holds(c, Fed(c, m, f, p), LatestWith(c, latest, f))
         /\ Holds(c, FailedFed(c, m, f), LatestWith(c, latest, f))
<1> DEFINE ok == Fed(c, m, f, p)
           failed == FailedFed(c, m, f)
<1>1. /\ ok.strideStep = Slot(c, m) + 1
      /\ ok.input = [m.input EXCEPT ![Slot(c, m)] = f]
  BY FedBuffers
<1>2. /\ failed.strideStep = Slot(c, m) + 1
      /\ failed.input = [m.input EXCEPT ![Slot(c, m)] = f]
  BY FedBuffers
<1> HIDE DEF ok, failed
<1>3. Holds(c, ok, LatestWith(c, latest, f)) /\ LatestWith(c, latest, f) \in Latest(c)
  BY <1>1, HoldsNext
<1>4. Holds(c, failed, LatestWith(c, latest, f))
  BY <1>2, HoldsNext
<1> QED
  BY <1>3, <1>4 DEF ok, failed

\* process leaves the buffer alone.
LEMMA ProcessedBuffers ==
  ASSUME NEW m \in State(Wake), NEW v
  PROVE  Processed(m, v).strideStep = m.strideStep /\ Processed(m, v).input = m.input
<1>1. /\ Evaluated(m) \in State(Wake)
      /\ Evaluated(m).strideStep = m.strideStep /\ Evaluated(m).input = m.input
  BY ParametersAssumption, DecidedType DEF Evaluated, State
<1>2. /\ ProbabilitiesReset(Wake, Evaluated(m)).strideStep = m.strideStep
      /\ ProbabilitiesReset(Wake, Evaluated(m)).input = m.input
  BY <1>1 DEF ProbabilitiesReset, State
<1> QED
  BY <1>1, <1>2 DEF Processed

\* A model that has started over holds nothing of a stride.
LEMMA EmptyHolds ==
  ASSUME NEW c \in Config, NEW m, m.strideStep = 0, NEW latest
  PROVE  Holds(c, m, latest) /\ NoFrames(c) \in Latest(c)
BY DEF Holds, NoFrames, Latest

LEMMA RestartedStride ==
  ASSUME NEW c \in Config, NEW m \in State(c)
  PROVE  Restarted(c, m).strideStep = 0
BY DEF Restarted, ProbabilitiesReset, State

\* The invariant holds initially ...
LEMMA BuffersInit == AuditInit => BuffersInv
<1> USE ParametersAssumption
<1> SUFFICES ASSUME AuditInit PROVE BuffersInv
  OBVIOUS
<1>1. TypeOK
  BY TypeInit DEF AuditInit
<1>2. model.strideStep = 0 /\ vad.strideStep = 0
  BY DEF AuditInit, Init, New
<1>3. wakeFrames = NoFrames(Wake) /\ vadFrames = NoFrames(Vad)
  BY DEF AuditInit
<1> QED
  BY <1>1, <1>2, <1>3, EmptyHolds DEF BuffersInv

\* ... and every call keeps it.
LEMMA BuffersStep == BuffersInv /\ [AuditNext]_auditVars => BuffersInv'
<1> USE ParametersAssumption
<1> SUFFICES ASSUME BuffersInv, [AuditNext]_auditVars PROVE BuffersInv'
  OBVIOUS
<1> DEFINE WakeHolds == wakeFrames \in Latest(Wake) /\ Holds(Wake, model, wakeFrames)
           VadHolds  == /\ vadFrames \in Latest(Vad) /\ Holds(Vad, vad, vadFrames)
                        /\ ~HasVad => vad.strideStep = 0
<1>1. TypeOK /\ TypeOK' /\ WakeHolds /\ VadHolds
  BY AuditedSteps, TypeStep DEF BuffersInv
<1>2. SUFFICES WakeHolds' /\ VadHolds'
  BY <1>1 DEF BuffersInv
<1>a. model \in State(Wake) /\ vad \in State(Vad)
  BY <1>1 DEF TypeOK
<1>b. ASSUME UNCHANGED <<model, wakeFrames>>
      PROVE  WakeHolds'
  BY <1>1, <1>b DEF Holds
<1>c. ASSUME UNCHANGED <<vad, vadFrames>>
      PROVE  VadHolds'
  BY <1>1, <1>c DEF Holds
<1>d. ASSUME model' = Restarted(Wake, model), wakeFrames' = NoFrames(Wake)
      PROVE  WakeHolds'
  BY <1>a, <1>d, RestartedStride, EmptyHolds
<1>3. ASSUME NEW f \in Frames, NEW p \in Probs, NEW q \in Probs,
             AuditScoreFrame(f, p, q)
      PROVE  WakeHolds' /\ VadHolds'
  <2> DEFINE m == Fed(Wake, model, f, p)
             v == IF HasVad THEN Fed(Vad, vad, f, q) ELSE vad
             w == LatestWith(Wake, wakeFrames, f)
  <2>1. /\ model' = Processed(m, v) /\ vad' = v
        /\ wakeFrames' = w
        /\ vadFrames' = IF HasVad THEN LatestWith(Vad, vadFrames, f) ELSE vadFrames
    BY <1>3 DEF AuditScoreFrame, ScoreFrame, WakeTakes, VadTakes
  <2>2. m \in State(Wake) /\ w \in Latest(Wake) /\ Holds(Wake, m, w)
    BY <1>1, <1>a, FedType, FedHolds
  <2>3. model'.strideStep = m.strideStep /\ model'.input = m.input
    BY <2>1, <2>2, ProcessedBuffers
  <2>4. WakeHolds'
    BY <2>1, <2>2, <2>3 DEF Holds
  <2>5. CASE HasVad
    BY <1>1, <1>a, <2>1, <2>4, <2>5, FedHolds
  <2>6. CASE ~HasVad
    BY <1>c, <2>1, <2>4, <2>6
  <2> QED
    BY <2>5, <2>6
<1>4. CASE AuditRejectFrame
  BY <1>b, <1>c, <1>4 DEF AuditRejectFrame, RejectFrame
<1>5. ASSUME NEW f \in Frames, AuditWakeInvokeFails(f)
      PROVE  WakeHolds' /\ VadHolds'
  <2>1. /\ model' = FailedFed(Wake, model, f)
        /\ wakeFrames' = LatestWith(Wake, wakeFrames, f)
        /\ vad' = vad /\ vadFrames' = vadFrames
    BY <1>5 DEF AuditWakeInvokeFails, WakeInvokeFails
  <2>2. 0 \in Probs
    BY DEF Probs
  <2> QED
    BY <1>1, <1>a, <1>c, <2>1, <2>2, FedHolds
<1>6. ASSUME NEW f \in Frames, NEW p \in Probs, AuditVadInvokeFails(f, p)
      PROVE  WakeHolds' /\ VadHolds'
  <2>1. /\ model' = Fed(Wake, model, f, p)
        /\ wakeFrames' = LatestWith(Wake, wakeFrames, f)
        /\ vad' = FailedFed(Vad, vad, f)
        /\ vadFrames' = LatestWith(Vad, vadFrames, f)
        /\ HasVad
    BY <1>6 DEF AuditVadInvokeFails, VadInvokeFails, WakeTakes, VadTakes
  <2> QED
    BY <1>1, <1>a, <2>1, FedHolds
<1>7. CASE AuditReset
  <2>1. WakeHolds'
    BY <1>d, <1>7 DEF AuditReset, Reset, WakeStartsOver
  <2>2. /\ vad' = IF HasVad THEN Restarted(Vad, vad) ELSE vad
        /\ vadFrames' = NoFrames(Vad)
    BY <1>7 DEF AuditReset, Reset
  <2>3. CASE HasVad
    BY <1>a, <2>1, <2>2, <2>3, RestartedStride, EmptyHolds
  <2>4. CASE ~HasVad
    <3>1. vad' = vad /\ vad.strideStep = 0
      BY <1>1, <2>2, <2>4
    <3>2. Holds(Vad, vad, NoFrames(Vad)) /\ NoFrames(Vad) \in Latest(Vad)
      BY <3>1, EmptyHolds
    <3>3. VadHolds'
      BY <2>2, <3>1, <3>2 DEF Holds
    <3> QED
      BY <2>1, <3>3
  <2> QED
    BY <2>3, <2>4
<1>8. CASE AuditWakeResetFails
  BY <1>b, <1>c, <1>8 DEF AuditWakeResetFails, WakeResetFails
<1>9. CASE AuditVadResetFails
  BY <1>c, <1>d, <1>9 DEF AuditVadResetFails, VadResetFails, WakeStartsOver
<1>10. CASE UNCHANGED auditVars
  BY <1>b, <1>c, <1>10 DEF auditVars, vars
<1> QED
  BY <1>3, <1>4, <1>5, <1>6, <1>7, <1>8, <1>9, <1>10 DEF AuditNext

\* What a model scores when its stride is complete are the latest frames that it
\* took, in order, whatever calls failed and wherever the last reset fell
\* (streamingModel.feed, whose buffer is never cleared).
THEOREM StridesAreLatest == AuditSpec => []ScoresLatestFrames
<1>1. ASSUME NEW c \in Config, NEW m \in State(c), NEW latest \in Latest(c),
             Holds(c, m, latest), m.strideStep = c.stride
      PROVE  m.input = latest
  <2>1. /\ c.stride \in Nat /\ Slots(c) = 0 .. c.stride - 1
        /\ m.input \in [Slots(c) -> Frames \cup {Blank}]
    BY DEF Config, State, Slots
  <2>2. \A s \in Slots(c) : m.input[s] = latest[s]
    BY <1>1, <2>1 DEF Holds
  <2> QED
    BY <2>1, <2>2 DEF Latest
<1>2. BuffersInv => ScoresLatestFrames
  BY <1>1, ParametersAssumption DEF BuffersInv, TypeOK, ScoresLatestFrames
<1> QED
  BY <1>2, BuffersInit, BuffersStep, PTL DEF AuditSpec

\* Models of one stride complete it with the same frames, unless an Invoke of
\* the wake word model or a Reset of the VAD model has failed since both started
\* over (Detector.FeedFeatures, which feeds one after the other).
THEOREM StridesStayTogether == AuditSpec => []SameStrideTogether
<1> USE ParametersAssumption
<1> DEFINE Inv == TypeOK /\ SameStrideTogether
           Paired == HasVad /\ Wake.stride = Vad.stride
<1>1. AuditInit => Inv
  <2> SUFFICES ASSUME AuditInit PROVE Inv
    OBVIOUS
  <2>1. TypeOK
    BY TypeInit DEF AuditInit
  <2> QED
    BY <2>1 DEF AuditInit, Init, New, NoFrames, Slots, SameStrideTogether
<1>2. Inv /\ [AuditNext]_auditVars => Inv'
  <2> SUFFICES ASSUME Inv, [AuditNext]_auditVars PROVE Inv'
    OBVIOUS
  <2>1. TypeOK /\ TypeOK' /\ SameStrideTogether
    BY AuditedSteps, TypeStep
  <2>2. SUFFICES ASSUME Paired, aligned'
                 PROVE  model'.strideStep = vad'.strideStep /\ wakeFrames' = vadFrames'
    BY <2>1 DEF SameStrideTogether
  <2>a. model \in State(Wake) /\ vad \in State(Vad)
    BY <2>1 DEF TypeOK
  <2>b. ASSUME UNCHANGED <<model, vad, wakeFrames, vadFrames, aligned>>
        PROVE  model'.strideStep = vad'.strideStep /\ wakeFrames' = vadFrames'
    BY <2>1, <2>2, <2>b DEF SameStrideTogether
  <2>c. ASSUME NEW f \in Frames, aligned' = aligned,
               model'.strideStep = Slot(Wake, model) + 1,
               vad'.strideStep = Slot(Vad, vad) + 1,
               wakeFrames' = LatestWith(Wake, wakeFrames, f),
               vadFrames' = LatestWith(Vad, vadFrames, f)
        PROVE  model'.strideStep = vad'.strideStep /\ wakeFrames' = vadFrames'
    <3>1. model.strideStep = vad.strideStep /\ wakeFrames = vadFrames
      BY <2>1, <2>2, <2>c DEF SameStrideTogether
    <3>2. Slot(Wake, model) = Slot(Vad, vad)
      BY <2>2, <3>1 DEF Slot
    <3>3. LatestWith(Wake, wakeFrames, f) = LatestWith(Vad, vadFrames, f)
      BY <2>2, <3>1 DEF LatestWith, Slots
    <3> QED
      BY <2>c, <3>2, <3>3
  <2>3. ASSUME NEW f \in Frames, NEW p \in Probs, NEW q \in Probs,
               AuditScoreFrame(f, p, q)
        PROVE  model'.strideStep = vad'.strideStep /\ wakeFrames' = vadFrames'
    <3> DEFINE m == Fed(Wake, model, f, p)
               v == Fed(Vad, vad, f, q)
    <3>1. /\ model' = Processed(m, v) /\ vad' = v /\ aligned' = aligned
          /\ wakeFrames' = LatestWith(Wake, wakeFrames, f)
          /\ vadFrames' = LatestWith(Vad, vadFrames, f)
      BY <2>2, <2>3 DEF AuditScoreFrame, ScoreFrame, WakeTakes, VadTakes
    <3>2. m \in State(Wake)
      BY <2>a, FedType
    <3>3. m.strideStep = Slot(Wake, model) + 1 /\ v.strideStep = Slot(Vad, vad) + 1
      <4>1. Fed(Wake, model, f, p).strideStep = Slot(Wake, model) + 1
        BY <2>a, FedStride
      <4>2. Fed(Vad, vad, f, q).strideStep = Slot(Vad, vad) + 1
        BY <2>a, FedStride
      <4> QED
        BY <4>1, <4>2
    <3>4. Processed(m, v).strideStep = m.strideStep
      BY <3>2, ProcessedBuffers
    <3> HIDE DEF m, v
    <3> QED
      BY <2>c, <3>1, <3>3, <3>4
  <2>4. CASE AuditRejectFrame
    BY <2>b, <2>4 DEF AuditRejectFrame, RejectFrame
  <2>5. ASSUME NEW f \in Frames, AuditWakeInvokeFails(f)
        PROVE  FALSE
    BY <2>2, <2>5 DEF AuditWakeInvokeFails
  <2>6. ASSUME NEW f \in Frames, NEW p \in Probs, AuditVadInvokeFails(f, p)
        PROVE  model'.strideStep = vad'.strideStep /\ wakeFrames' = vadFrames'
    <3>1. /\ model' = Fed(Wake, model, f, p) /\ vad' = FailedFed(Vad, vad, f)
          /\ aligned' = aligned
          /\ wakeFrames' = LatestWith(Wake, wakeFrames, f)
          /\ vadFrames' = LatestWith(Vad, vadFrames, f)
      BY <2>2, <2>6 DEF AuditVadInvokeFails, VadInvokeFails, WakeTakes, VadTakes
    <3>2. /\ Fed(Wake, model, f, p).strideStep = Slot(Wake, model) + 1
          /\ FailedFed(Vad, vad, f).strideStep = Slot(Vad, vad) + 1
      <4>1. Fed(Wake, model, f, p).strideStep = Slot(Wake, model) + 1
        BY <2>a, FedStride
      <4>2. FailedFed(Vad, vad, f).strideStep = Slot(Vad, vad) + 1
        BY <2>a, FedStride
      <4> QED
        BY <4>1, <4>2
    <3> QED
      BY <2>c, <3>1, <3>2
  <2>7. CASE AuditReset
    <3>1. /\ model' = Restarted(Wake, model) /\ vad' = Restarted(Vad, vad)
          /\ wakeFrames' = NoFrames(Wake) /\ vadFrames' = NoFrames(Vad)
      BY <2>2, <2>7 DEF AuditReset, Reset, WakeStartsOver
    <3>2. NoFrames(Wake) = NoFrames(Vad)
      BY <2>2 DEF NoFrames, Slots
    <3> QED
      BY <2>a, <3>1, <3>2, RestartedStride
  <2>8. CASE AuditWakeResetFails
    BY <2>b, <2>8 DEF AuditWakeResetFails, WakeResetFails
  <2>9. CASE AuditVadResetFails
    BY <2>2, <2>9 DEF AuditVadResetFails
  <2>10. CASE UNCHANGED auditVars
    BY <2>b, <2>10 DEF auditVars, vars
  <2> QED
    BY <2>3, <2>4, <2>5, <2>6, <2>7, <2>8, <2>9, <2>10 DEF AuditNext
<1>3. Inv => SameStrideTogether
  OBVIOUS
<1> QED
  BY <1>1, <1>2, <1>3, PTL DEF AuditSpec
-----------------------------------------------------------------------------
(* A used detector, and a new one. *)

\* What two models must share to answer alike from now on: everything but the
\* lastInvoked flag and the slots that the stride begun has not reached.
Alike(c, m, t) ==
  /\ m \in State(c) /\ t \in State(c)
  /\ m.strideStep = t.strideStep
  /\ m.ring = t.ring /\ m.lastN = t.lastN
  /\ m.ignoreWindows = t.ignoreWindows
  /\ m.unprocessed = t.unprocessed
  /\ m.carried = t.carried
  /\ \A s \in 0 .. m.strideStep - 1 : m.input[s] = t.input[s]

TwinInv ==
  /\ TypeOK
  /\ paired => /\ Alike(Wake, model, tmodel)
               /\ HasVad => Alike(Vad, vad, tvad)
               /\ frames = tframes
               /\ result = tresult

-----------------------------------------------------------------------------
(* The twin is a detector. *)

LEMMA TwinFed ==
  ASSUME NEW c, NEW m, NEW f, NEW p
  PROVE  Twin!Fed(c, m, f, p) = Fed(c, m, f, p)
BY DEF Twin!Fed, Fed, Twin!Climbed, Climbed, Twin!InvokeDue, InvokeDue, Twin!Slot, Slot,
       Twin!Pushed, Pushed, Twin!Buffered, Buffered, Twin!NextCell, NextCell,
       Twin!LastOutput, LastOutput

LEMMA TwinStatistics ==
  ASSUME NEW c, NEW ring
  PROVE  /\ Twin!Average(ring) = Average(ring) /\ Twin!Maximum(ring) = Maximum(ring)
         /\ Twin!AboveCutoff(c, ring) = AboveCutoff(c, ring)
<1>1. Twin!Sum(ring) = Sum(ring)
  BY DEF Twin!Sum, Sum, Twin!Units, Units, Twin!Cardinality, Cardinality
<1>2. Twin!Average(ring) = Average(ring)
  BY <1>1 DEF Twin!Average, Average, Twin!Cardinality, Cardinality
<1>3. Twin!Maximum(ring) = Maximum(ring)
  BY DEF Twin!Maximum, Maximum
<1>4. Twin!AboveCutoff(c, ring) = AboveCutoff(c, ring)
  BY <1>1 DEF Twin!AboveCutoff, AboveCutoff
<1> QED
  BY <1>2, <1>3, <1>4

LEMMA TwinDecides ==
  ASSUME NEW m, NEW v
  PROVE  /\ Twin!Detected(m) = Detected(m)
         /\ Twin!Speech(v) = Speech(v)
         /\ Twin!Processed(m, v) = Processed(m, v)
<1>1. Twin!Detected(m) = Detected(m)
  BY TwinStatistics DEF Twin!Detected, Detected, Twin!WakeWordDetected, WakeWordDetected
<1>2. Twin!Speech(v) = Speech(v)
  BY TwinStatistics DEF Twin!Speech, Speech, Twin!SpeechDetected, SpeechDetected
<1>3. /\ Twin!Evaluated(m) = Evaluated(m)
      /\ \A c, n : Twin!ProbabilitiesReset(c, n) = ProbabilitiesReset(c, n)
  BY DEF Twin!Evaluated, Evaluated, Twin!ProbabilitiesReset, ProbabilitiesReset,
         Twin!Cells, Cells
<1> QED
  BY <1>1, <1>2, <1>3 DEF Twin!Processed, Processed

-----------------------------------------------------------------------------
(* Alike models stay alike. *)

\* feed: the same frame, and the same output if the scores are of the same.
LEMMA FedAlike ==
  ASSUME NEW c \in Config, NEW m, NEW t, Alike(c, m, t), NEW f \in Frames,
         NEW p \in Probs, NEW q \in Answers(c, m, t, f, p), MinSlices \in Nat
  PROVE  /\ Alike(c, Fed(c, m, f, p), Fed(c, t, f, q))
         /\ Fed(c, m, f, p).lastInvoked = Fed(c, t, f, q).lastInvoked
<1> DEFINE k == Slot(c, m)
           b == Buffered(c, m, f)
           d == Buffered(c, t, f)
<1>a. m \in State(c) /\ t \in State(c) /\ q \in Probs
  BY DEF Alike, Answers
<1>b. /\ k \in Slots(c) /\ k = Slot(c, t) /\ c.stride \in Nat \ {0}
      /\ Slots(c) = 0 .. c.stride - 1
      /\ (k = m.strideStep \/ k = 0) /\ m.strideStep \in 0 .. c.stride
      /\ m.input \in [Slots(c) -> Frames \cup {Blank}]
      /\ t.input \in [Slots(c) -> Frames \cup {Blank}]
  <2>1. k \in Slots(c)
    BY <1>a, SlotType
  <2>2. m.strideStep = t.strideStep
    BY DEF Alike
  <2>3. /\ c.stride \in Nat \ {0} /\ Slots(c) = 0 .. c.stride - 1
        /\ m.strideStep \in 0 .. c.stride
        /\ m.input \in [Slots(c) -> Frames \cup {Blank}]
        /\ t.input \in [Slots(c) -> Frames \cup {Blank}]
    BY <1>a DEF Slots, State, Config
  <2>4. k = m.strideStep \/ k = 0
    BY <2>3, SlotOf DEF Slot
  <2>5. k = Slot(c, t)
    BY <2>2 DEF Slot
  <2> QED
    BY <2>1, <2>2, <2>3, <2>4, <2>5
<1>1. /\ b \in State(c) /\ d \in State(c)
      /\ b.strideStep = k + 1 /\ d.strideStep = k + 1
      /\ b.input = [m.input EXCEPT ![k] = f] /\ d.input = [t.input EXCEPT ![k] = f]
      /\ b.lastInvoked = FALSE /\ d.lastInvoked = FALSE
      /\ b.ring = m.ring /\ d.ring = t.ring /\ b.lastN = m.lastN /\ d.lastN = t.lastN
      /\ b.ignoreWindows = m.ignoreWindows /\ d.ignoreWindows = t.ignoreWindows
      /\ b.unprocessed = m.unprocessed /\ d.unprocessed = t.unprocessed
      /\ b.carried = m.carried /\ d.carried = t.carried
  <2>1. b \in State(c) /\ d \in State(c)
    BY <1>a, BufferedType
  <2>2. /\ b.strideStep = k + 1 /\ b.input = [m.input EXCEPT ![k] = f]
        /\ b.lastInvoked = FALSE /\ b.ring = m.ring /\ b.lastN = m.lastN
        /\ b.ignoreWindows = m.ignoreWindows /\ b.unprocessed = m.unprocessed
        /\ b.carried = m.carried
    BY <1>a DEF Buffered, State
  <2>3. /\ d.strideStep = k + 1 /\ d.input = [t.input EXCEPT ![k] = f]
        /\ d.lastInvoked = FALSE /\ d.ring = t.ring /\ d.lastN = t.lastN
        /\ d.ignoreWindows = t.ignoreWindows /\ d.unprocessed = t.unprocessed
        /\ d.carried = t.carried
    BY <1>a, <1>b DEF Buffered, State
  <2> QED
    BY <2>1, <2>2, <2>3
<1>c. \A s \in 0 .. m.strideStep - 1 : m.input[s] = t.input[s]
  BY DEF Alike
<1> HIDE DEF b, d, k
<1>2. \A s \in 0 .. k : b.input[s] = d.input[s]
  <2> SUFFICES ASSUME NEW s \in 0 .. k
               PROVE  b.input[s] = d.input[s]
    OBVIOUS
  <2>1. s \in Slots(c)
    BY <1>b
  <2>2. CASE s = k
    BY <1>1, <1>b, <2>1, <2>2
  <2>3. CASE s # k
    <3>1. s \in 0 .. m.strideStep - 1
      BY <1>b, <2>3
    <3>2. m.input[s] = t.input[s]
      BY <1>c, <3>1
    <3> QED
      BY <1>1, <1>b, <2>1, <2>3, <3>2
  <2> QED
    BY <2>2, <2>3
<1>3. Alike(c, b, d)
  BY <1>1, <1>2, <1>b DEF Alike
<1>4. InvokeDue(c, m) = InvokeDue(c, t) /\ InvokeDue(c, m) = (k + 1 = c.stride)
  BY <1>b DEF InvokeDue, k
<1>5. CASE InvokeDue(c, m)
  <2>1. b.input = d.input
    <3>1. 0 .. k = Slots(c)
      <4>1. k + 1 = c.stride
        BY <1>4, <1>5
      <4>2. c.stride - 1 = k
        BY <1>b, <4>1
      <4> QED
        BY <1>b, <4>2
    <3>2. /\ b.input \in [Slots(c) -> Frames \cup {Blank}]
          /\ d.input \in [Slots(c) -> Frames \cup {Blank}]
      BY <1>1 DEF State
    <3>3. \A s \in Slots(c) : b.input[s] = d.input[s]
      BY <1>2, <3>1
    <3> QED
      BY <3>2, <3>3
  <2>2. q = p
    BY <2>1 DEF Answers, Alike, b, d
  <2> DEFINE u == Pushed(c, b, p)
             w == Pushed(c, d, p)
             n == NextCell(c, b)
  <2>3. n = NextCell(c, d) /\ u \in State(c) /\ w \in State(c)
    BY <1>1, <1>3, PushedType DEF NextCell, Alike
  <2>4. /\ u.strideStep = b.strideStep /\ u.input = b.input /\ u.lastInvoked = TRUE
        /\ u.ring = [b.ring EXCEPT ![n] = p] /\ u.lastN = n
        /\ u.ignoreWindows = b.ignoreWindows /\ u.unprocessed = TRUE /\ u.carried = TRUE
    BY <1>1 DEF Pushed, State
  <2>5. /\ w.strideStep = d.strideStep /\ w.input = d.input /\ w.lastInvoked = TRUE
        /\ w.ring = [d.ring EXCEPT ![n] = p] /\ w.lastN = n
        /\ w.ignoreWindows = d.ignoreWindows /\ w.unprocessed = TRUE /\ w.carried = TRUE
    BY <1>1, <2>3 DEF Pushed, State
  <2>6. Fed(c, m, f, p) = Climbed(c, u) /\ Fed(c, t, f, q) = Climbed(c, w)
    BY <1>4, <1>5, <2>2 DEF Fed, b, d
  <2> HIDE DEF u, w, n
  <2>7. Alike(c, u, w) /\ u.lastInvoked = w.lastInvoked
    <3>1. u.ring = w.ring
      BY <1>3, <2>4, <2>5 DEF Alike
    <3>2. /\ u.strideStep = w.strideStep /\ u.ignoreWindows = w.ignoreWindows
          /\ \A s \in 0 .. u.strideStep - 1 : u.input[s] = w.input[s]
      BY <1>3, <2>4, <2>5 DEF Alike
    <3> QED
      BY <2>3, <2>4, <2>5, <3>1, <3>2 DEF Alike
  <2>8. /\ Alike(c, Climbed(c, u), Climbed(c, w))
        /\ Climbed(c, u).lastInvoked = u.lastInvoked
        /\ Climbed(c, w).lastInvoked = w.lastInvoked
    BY <2>7, ClimbedType DEF Climbed, LastOutput, Alike, State
  <2> QED
    BY <2>6, <2>7, <2>8
<1>6. CASE ~InvokeDue(c, m)
  <2>1. Fed(c, m, f, p) = Climbed(c, b) /\ Fed(c, t, f, q) = Climbed(c, d)
    BY <1>4, <1>6 DEF Fed, b, d
  <2>2. /\ Alike(c, Climbed(c, b), Climbed(c, d))
        /\ Climbed(c, b).lastInvoked = b.lastInvoked
        /\ Climbed(c, d).lastInvoked = d.lastInvoked
    BY <1>3, ClimbedType DEF Climbed, LastOutput, Alike, State
  <2> QED
    BY <1>1, <2>1, <2>2
<1> QED
  BY <1>5, <1>6

\* process decides alike.
LEMMA ProcessedAlike ==
  ASSUME NEW m, NEW t, Alike(Wake, m, t), m.lastInvoked = t.lastInvoked,
         NEW v, NEW w, HasVad => Alike(Vad, v, w), frames = tframes
  PROVE  /\ Alike(Wake, Processed(m, v), Processed(t, w))
         /\ EventOf(m, v) = Twin!EventOf(t, w)
         /\ ReportOf(m) = Twin!ReportOf(t)
<1> USE ParametersAssumption
<1>1. Detected(m) = Detected(t)
  BY DEF Detected, WakeWordDetected, Alike
<1>2. Speech(v) = Speech(w)
  BY DEF Speech, SpeechDetected, Alike
<1>3. EventOf(m, v) = Twin!EventOf(t, w)
  BY <1>1, <1>2, TwinDecides, TwinStatistics DEF EventOf, Twin!EventOf, Alike
<1>4. ReportOf(m) = Twin!ReportOf(t)
  BY DEF ReportOf, Twin!ReportOf, LastOutput, Twin!LastOutput, Alike
<1>5. m \in State(Wake) /\ t \in State(Wake)
  BY DEF Alike
<1>6. Alike(Wake, Evaluated(m), Evaluated(t))
  BY <1>5, DecidedType DEF Evaluated, Alike, State
<1>7. ASSUME NEW x, NEW y, Alike(Wake, x, y)
      PROVE  Alike(Wake, ProbabilitiesReset(Wake, x), ProbabilitiesReset(Wake, y))
  <2>1. x \in State(Wake) /\ y \in State(Wake)
    BY <1>7 DEF Alike
  <2>2. /\ ProbabilitiesReset(Wake, x) \in State(Wake)
        /\ ProbabilitiesReset(Wake, y) \in State(Wake)
    BY <2>1, DecidedType
  <2> QED
    BY <1>7, <2>1, <2>2 DEF ProbabilitiesReset, Alike, State
<1>8. m.unprocessed = t.unprocessed
  BY DEF Alike
<1> QED
  BY <1>1, <1>2, <1>3, <1>4, <1>6, <1>7, <1>8 DEF Processed

\* A model that has started over is like a new one.
LEMMA RestartedAlike ==
  ASSUME NEW c \in Config, NEW m \in State(c)
  PROVE  Alike(c, Restarted(c, m), New(c))
<1>1. Restarted(c, m) \in State(c) /\ New(c) \in State(c)
  BY ParametersAssumption, DecidedType, NewType
<1>2. /\ Restarted(c, m).strideStep = 0
      /\ Restarted(c, m).ring = [n \in Cells(c) |-> 0]
      /\ Restarted(c, m).lastN = 0
      /\ Restarted(c, m).ignoreWindows = -MinSlices
      /\ Restarted(c, m).unprocessed = FALSE
      /\ Restarted(c, m).carried = FALSE
  BY DEF Restarted, ProbabilitiesReset, State
<1>3. /\ New(c).strideStep = 0
      /\ New(c).ring = [n \in Cells(c) |-> 0]
      /\ New(c).lastN = 0
      /\ New(c).ignoreWindows = -MinSlices
      /\ New(c).unprocessed = FALSE
      /\ New(c).carried = FALSE
  BY DEF New
<1>4. 0 .. 0 - 1 = {}
  OBVIOUS
<1>5. \A s \in 0 .. Restarted(c, m).strideStep - 1 : FALSE
  BY <1>2, <1>4
<1> QED
  BY <1>1, <1>2, <1>3, <1>5 DEF Alike

-----------------------------------------------------------------------------
LEMMA TwinInitInv == TwinInit => TwinInv
BY TypeInit DEF TwinInit, TwinInv

\* The detector that is watched takes its own steps.
LEMMA TwinSteps == [TwinNext]_<<vars, paired, twinVars>> => [Next]_vars
BY DEF TwinNext, BothScoreFrame, BothRejectFrame, Part, BuildTwin, Next

LEMMA TwinStep == TwinInv /\ [TwinNext]_<<vars, paired, twinVars>> => TwinInv'
<1> USE ParametersAssumption
<1> SUFFICES ASSUME TwinInv, [TwinNext]_<<vars, paired, twinVars>>
             PROVE  TwinInv'
  OBVIOUS
<1>a. TypeOK /\ TypeOK'
  BY TwinSteps, TypeStep DEF TwinInv
<1> SUFFICES ASSUME paired'
             PROVE  /\ Alike(Wake, model', tmodel')
                    /\ HasVad => Alike(Vad, vad', tvad')
                    /\ frames' = tframes'
                    /\ result' = tresult'
  BY <1>a DEF TwinInv, Alike
<1>b. ASSUME paired
      PROVE  /\ Alike(Wake, model, tmodel)
             /\ HasVad => Alike(Vad, vad, tvad)
             /\ frames = tframes
             /\ result = tresult
  BY <1>b DEF TwinInv
<1>1. CASE paired /\ BothScoreFrame
  <2>1. PICK f \in Frames, p \in Probs, q \in Probs :
          /\ ScoreFrame(f, p, q)
          /\ \E tp \in Answers(Wake, model, tmodel, f, p),
                tq \in Answers(Vad, vad, tvad, f, q) : Twin!ScoreFrame(f, tp, tq)
    BY <1>1 DEF BothScoreFrame
  <2>2. PICK tp \in Answers(Wake, model, tmodel, f, p),
             tq \in Answers(Vad, vad, tvad, f, q) : Twin!ScoreFrame(f, tp, tq)
    BY <2>1
  <2> DEFINE m  == Fed(Wake, model, f, p)
             t  == Fed(Wake, tmodel, f, tp)
             v  == IF HasVad THEN Fed(Vad, vad, f, q) ELSE vad
             tv == IF HasVad THEN Fed(Vad, tvad, f, tq) ELSE tvad
  <2>3. /\ model' = Processed(m, v) /\ vad' = v /\ frames' = (frames + 1) % FrameWrap
        /\ result' = Result("FeedFeatures", TRUE, EventOf(m, v), ReportOf(m))
    BY <2>1 DEF ScoreFrame
  <2>4. /\ tmodel' = Processed(t, tv) /\ tvad' = tv /\ tframes' = (tframes + 1) % FrameWrap
        /\ tresult' = Result("FeedFeatures", TRUE, Twin!EventOf(t, tv), Twin!ReportOf(t))
    BY <2>2, TwinFed, TwinDecides DEF Twin!ScoreFrame, Twin!Result, Result
  <2>5. Alike(Wake, m, t) /\ m.lastInvoked = t.lastInvoked
    BY <1>1, <1>b, FedAlike
  <2>6. HasVad => Alike(Vad, v, tv)
    BY <1>1, <1>b, FedAlike
  <2> HIDE DEF m, t, v, tv
  <2> QED
    BY <1>1, <1>b, <2>3, <2>4, <2>5, <2>6, ProcessedAlike
<1>2. CASE paired /\ BothRejectFrame
  <2>1. /\ UNCHANGED <<model, vad, frames, tmodel, tvad, tframes>>
        /\ result' = tresult'
    BY <1>2 DEF BothRejectFrame, RejectFrame, Twin!RejectFrame, Failed, Twin!Failed,
                Result, Twin!Result
  <2> QED
    BY <1>2, <1>b, <2>1 DEF Alike
<1>3. CASE BuildTwin
  <2>1. /\ model' = Restarted(Wake, model) /\ tmodel' = New(Wake)
        /\ HasVad => vad' = Restarted(Vad, vad)
        /\ tvad' = New(Vad) /\ frames' = 0 /\ tframes' = 0 /\ result' = tresult'
    BY <1>3 DEF BuildTwin, Reset, NewTwin
  <2>2. model \in State(Wake) /\ vad \in State(Vad)
    BY <1>a DEF TypeOK
  <2> QED
    BY <2>1, <2>2, RestartedAlike
<1>4. CASE UNCHANGED <<vars, paired, twinVars>>
  BY <1>4, <1>b DEF vars, twinVars, Alike
<1> QED
  BY <1>1, <1>2, <1>3, <1>4 DEF TwinNext, Part

\* Every call after a Reset returns and reports what it would of a new detector,
\* although Reset does not clear the stride buffer (streamingModel.reset).
THEOREM AlwaysResetMakesNew == TwinSpec => []ResetMakesNew
<1>1. TwinInv => ResetMakesNew
  BY DEF TwinInv, ResetMakesNew
<1> QED
  BY <1>1, TwinInitInv, TwinStep, PTL DEF TwinSpec
=============================================================================
