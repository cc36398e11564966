---------------------------- MODULE DetectorLive ----------------------------
(***************************************************************************)
(* The detector under fairness.  The caller keeps feeding frames, as the   *)
(* loops of the command and of the evaluation do, and a scorer does not    *)
(* fail for ever when it is asked again and again.                         *)
(*                                                                         *)
(* The ring is zeroed by a detection, so what the wake word model answers  *)
(* is recorded in a history variable of its own.                           *)
(***************************************************************************)
EXTENDS Detector

VARIABLE lastRaw   \* the wake word model's most recent output

ScoreSomeFrame ==
  \E f \in Frames, p, q \in Probs :
    /\ ScoreFrame(f, p, q)
    /\ lastRaw' = IF InvokeDue(Wake, model) THEN p ELSE lastRaw

LiveNext ==
  \/ ScoreSomeFrame
  \/ \E f \in Frames, p \in Probs :
       /\ VadInvokeFails(f, p)
       /\ lastRaw' = IF InvokeDue(Wake, model) THEN p ELSE lastRaw
  \/ RejectFrame /\ UNCHANGED lastRaw
  \/ (\E f \in Frames : WakeInvokeFails(f)) /\ UNCHANGED lastRaw
  \/ Reset /\ lastRaw' = 0
  \/ WakeResetFails /\ UNCHANGED lastRaw
  \/ VadResetFails /\ lastRaw' = 0

liveVars == <<vars, lastRaw>>

LiveSpec ==
  /\ Init /\ lastRaw = 0
  /\ [][LiveNext]_liveVars
  /\ WF_liveVars(ScoreSomeFrame)
  /\ SF_liveVars(ScoreSomeFrame /\ InvokeDue(Wake, model))
  /\ SF_liveVars(ScoreSomeFrame /\ InvokeDue(Vad, vad))

Armed     == model.ignoreWindows = 0
Quiet     == lastRaw < Wake.cutoff
Loud      == lastRaw > Wake.cutoff
Speaking  == LastOutput(vad) > Vad.cutoff
Fired     == result.event # NoEvent /\ ~result.event.blocked

\* Whatever came before, a model that stays quiet is armed in the end, if it
\* is not reset for ever: the warm-up and the refractory period end.
QuietRearms ==
  <>[](Quiet /\ result.call # "Reset") => <>[]Armed

\* An armed model whose outputs stay above the cutoff is reported, even when
\* frames or Invokes of either model fail now and then.
SustainedWordReported ==
  []((Armed /\ []Loud) => <>(result.event # NoEvent))

\* A detection that the VAD blocks is not lost ("it may fire again on the next
\* invocation"): if the word still sounds when speech sets in, it fires.
SpeechUnblocks ==
  []((Armed /\ []Loud /\ <>[](HasVad => Speaking)) => <>Fired)
=============================================================================
