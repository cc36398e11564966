---------------------------- MODULE DetectorTwin ----------------------------
(***************************************************************************)
(* A detector that has been used and Reset, beside a new one.  The twin is *)
(* built when a Reset succeeds and is given the same frames from then on.  *)
(* A scorer is deterministic: two scorers of the same model answer alike   *)
(* when both or neither carry state from earlier invocations and they      *)
(* score the same frames, and anything otherwise.                          *)
(***************************************************************************)
EXTENDS Detector

VARIABLES
  paired,      \* the twin exists and was given every frame since the Reset
  tmodel, tvad, tframes, tresult

twinVars == <<tmodel, tvad, tframes, tresult>>

Twin == INSTANCE Detector WITH
  model <- tmodel, vad <- tvad, frames <- tframes, result <- tresult

TwinInit ==
  /\ Init
  /\ paired = FALSE
  /\ Twin!Init

\* The answers a scorer in state tm may give where the one in state m gave p.
Answers(c, m, tm, f, p) ==
  IF /\ m.carried = tm.carried
     /\ Buffered(c, m, f).input = Buffered(c, tm, f).input
    THEN {p} ELSE Probs

BothScoreFrame ==
  \E f \in Frames, p, q \in Probs :
    /\ ScoreFrame(f, p, q)
    /\ \E tp \in Answers(Wake, model, tmodel, f, p),
          tq \in Answers(Vad, vad, tvad, f, q) : Twin!ScoreFrame(f, tp, tq)

BothRejectFrame == RejectFrame /\ Twin!RejectFrame

NewTwin ==
  /\ tmodel' = New(Wake)
  /\ tvad' = New(Vad)
  /\ tframes' = 0
  /\ tresult' = Result("Reset", TRUE, NoEvent, NoReport)

\* A scorer's failure is its own: the pair is given up.
Part(A) == A /\ paired' = FALSE /\ NewTwin

BuildTwin == Reset /\ paired' = TRUE /\ NewTwin

TwinNext ==
  \/ paired /\ BothScoreFrame /\ UNCHANGED paired
  \/ paired /\ BothRejectFrame /\ UNCHANGED paired
  \/ ~paired /\ (\E f \in Frames, p, q \in Probs : ScoreFrame(f, p, q))
             /\ UNCHANGED <<paired, twinVars>>
  \/ Part(\E f \in Frames : WakeInvokeFails(f))
  \/ Part(\E f \in Frames, p \in Probs : VadInvokeFails(f, p))
  \/ Part(WakeResetFails)
  \/ Part(VadResetFails)
  \/ BuildTwin

TwinSpec == TwinInit /\ [][TwinNext]_<<vars, paired, twinVars>>

-----------------------------------------------------------------------------
\* After Reset a detector is indistinguishable from a new one: every later call
\* returns and reports the same, although Reset leaves the stride buffers, the
\* lastInvoked flags and the event buffer as they were.
ResetMakesNew == paired => result = tresult
=============================================================================
