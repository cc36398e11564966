--------------------------- MODULE DetectorAudit ----------------------------
(***************************************************************************)
(* The detector watched by history variables: what it was given and what   *)
(* its scorers answered, recorded from the calls and not from the fields   *)
(* the detector keeps about them.                                          *)
(***************************************************************************)
EXTENDS Detector

VARIABLES
  taken,      \* frames the wake word model took since it started over, the
              \* last one included, counted up to MinSlices + 1
  wakeFrames, \* the latest frames the wake word model took since its reset
  vadFrames,  \* the same of the VAD model
  aligned     \* both models took the same frames since their last reset

auditVars == <<vars, taken, wakeFrames, vadFrames, aligned>>

NoFrames(c) == [s \in Slots(c) |-> Blank]

LatestWith(c, latest, f) ==
  [s \in Slots(c) |-> IF s = c.stride - 1 THEN f ELSE latest[s + 1]]

UpToMinSlices(n) == IF n > MinSlices THEN MinSlices + 1 ELSE n

\* The wake word model starts over after an event that no VAD blocked.
JustFired == result.event # NoEvent /\ ~result.event.blocked

SinceStart(n) == IF JustFired THEN 0 ELSE n

AuditInit ==
  /\ Init
  /\ taken = 0
  /\ wakeFrames = NoFrames(Wake)
  /\ vadFrames = NoFrames(Vad)
  /\ aligned = TRUE

WakeTakes(f) ==
  /\ taken' = UpToMinSlices(SinceStart(taken) + 1)
  /\ wakeFrames' = LatestWith(Wake, wakeFrames, f)

VadTakes(f) ==
  vadFrames' = IF HasVad THEN LatestWith(Vad, vadFrames, f) ELSE vadFrames

WakeStartsOver ==
  /\ taken' = 0
  /\ wakeFrames' = NoFrames(Wake)

KeepsCount == taken' = SinceStart(taken)

AuditScoreFrame(f, p, q) ==
  /\ ScoreFrame(f, p, q)
  /\ WakeTakes(f)
  /\ VadTakes(f)
  /\ UNCHANGED aligned

AuditRejectFrame ==
  /\ RejectFrame
  /\ KeepsCount
  /\ UNCHANGED <<wakeFrames, vadFrames, aligned>>

\* The frame reached the wake word model's buffer, not the VAD model's.
AuditWakeInvokeFails(f) ==
  /\ WakeInvokeFails(f)
  /\ wakeFrames' = LatestWith(Wake, wakeFrames, f)
  /\ aligned' = ~HasVad
  /\ KeepsCount
  /\ UNCHANGED vadFrames

AuditVadInvokeFails(f, p) ==
  /\ VadInvokeFails(f, p)
  /\ WakeTakes(f)
  /\ VadTakes(f)
  /\ UNCHANGED aligned

AuditReset ==
  /\ Reset
  /\ WakeStartsOver
  /\ vadFrames' = NoFrames(Vad)
  /\ aligned' = TRUE

AuditWakeResetFails ==
  /\ WakeResetFails
  /\ KeepsCount
  /\ UNCHANGED <<wakeFrames, vadFrames, aligned>>

AuditVadResetFails ==
  /\ VadResetFails
  /\ WakeStartsOver
  /\ aligned' = FALSE
  /\ UNCHANGED vadFrames

AuditNext ==
  \/ \E f \in Frames, p, q \in Probs : AuditScoreFrame(f, p, q)
  \/ AuditRejectFrame
  \/ \E f \in Frames : AuditWakeInvokeFails(f)
  \/ \E f \in Frames, p \in Probs : AuditVadInvokeFails(f, p)
  \/ AuditReset
  \/ AuditWakeResetFails
  \/ AuditVadResetFails

AuditSpec == AuditInit /\ [][AuditNext]_auditVars

-----------------------------------------------------------------------------
\* An event, blocked or not, is never reported before the wake word model took
\* more than minSlicesBeforeDetection frames since it was built, reset or last
\* fired: the frames that re-arm it are all quiet, so none of them can be the
\* one that fires.
EventsAreSpaced == result.event # NoEvent => taken > MinSlices

\* A completed stride scores the latest frames the model took, in order, and
\* none from before a reset, whatever failed in between: the stride buffer is
\* never cleared, so its old frames must always be overwritten first.
ScoresLatestFrames ==
  /\ model.strideStep = Wake.stride => model.input = wakeFrames
  /\ vad.strideStep = Vad.stride => vad.input = vadFrames

\* Models of the same stride score the same frames together as long as no
\* Invoke of the wake word model and no Reset of the VAD model failed; an
\* Invoke of the VAD model may fail without setting them apart.
SameStrideTogether ==
  HasVad /\ Wake.stride = Vad.stride /\ aligned =>
    /\ model.strideStep = vad.strideStep
    /\ wakeFrames = vadFrames
=============================================================================
