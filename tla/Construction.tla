---------------------------- MODULE Construction ----------------------------
(***************************************************************************)
(* NewDetector (wakeword/detector.go) and what it reads: the manifest      *)
(* (config.go) and the shape of a model (scorer.go).  A probability is a   *)
(* number of parts, Parts of which are 1; an output is at most MaxOutput.  *)
(* An option of 0 is not set, a model or a manifest of Nothing not given.  *)
(***************************************************************************)
EXTENDS Integers, Sequences

CONSTANTS
  MaxOutput,    \* 255
  Parts,        \* how fine a cutoff is: a double's precision in the code
  FrameStep,    \* WindowStepMS of the frontend's configuration
  NumChannels   \* its NumChannels

ASSUME ConstructionAssumption == MaxOutput \in Nat /\ Parts \in Nat \ {0} /\ NumChannels \in Nat

Nothing == [given |-> FALSE]

InUnit(p) == 0 < p /\ p <= Parts

\* Validate, on a manifest that decodes.
ManifestOK(c) ==
  /\ c.type = "micro" /\ c.version = 2 /\ c.named
  /\ InUnit(c.cutoff) /\ c.window >= 1 /\ c.step = FrameStep

\* Mutant: rounded to the nearest.
CutoffRounded(p) == (2 * p * MaxOutput + Parts) \div (2 * Parts)

CutoffUint8(p) ==
  LET v == (p * MaxOutput) \div Parts
  IN IF v < 0 THEN 0 ELSE IF v > MaxOutput THEN MaxOutput ELSE v

\* newModelScorer, and the probe after it.
ScorerOK(model) ==
  /\ model.loads
  /\ model.inputs = 1 /\ model.outputs = 1
  /\ model.in.dtype = "INT8" /\ Len(model.in.shape) = 3
  /\ model.in.shape[1] = 1 /\ model.in.shape[2] >= 1 /\ model.in.shape[3] >= 1
  /\ model.out.dtype = "UINT8" /\ model.out.elements = 1
  /\ model.probes

featureSize(model) == model.in.shape[3]

Overridden(option, own) == IF option = 0 THEN own ELSE option

\* newStreamingModel on the settings that apply.
Streaming(model, cutoff, window) ==
  [cutoff |-> CutoffUint8(cutoff), window |-> window, stride |-> model.in.shape[2]]

\* Mutant: a cutoff from an option is not judged again.
AnyCutoff(cutoff, window) == window >= 1

SettingsOK(cutoff, window) == InUnit(cutoff) /\ window >= 1

Failed == [kind |-> "error"]

newDetector(cfg, model, vadCfg, vadModel, opts) ==
  LET cutoff    == Overridden(opts.cutoff, cfg.cutoff)
      window    == Overridden(opts.window, cfg.window)
      vadCutoff == Overridden(opts.vadCutoff, vadCfg.cutoff)
      vadWindow == Overridden(opts.vadWindow, vadCfg.window)
      hasVad    == vadModel # Nothing
  IN IF \/ ~SettingsOK(cutoff, window) \/ featureSize(model) # NumChannels
        \/ hasVad /\ (~SettingsOK(vadCutoff, vadWindow) \/ featureSize(vadModel) # featureSize(model))
     THEN Failed
     ELSE [kind |-> "ok", model |-> Streaming(model, cutoff, window),
           vad |-> IF hasVad THEN Streaming(vadModel, vadCutoff, vadWindow) ELSE Nothing]

NewDetector(cfg, model, opts) ==
  LET hasVad == opts.vadModel # Nothing
  IN IF \/ ~ManifestOK(cfg) \/ ~ScorerOK(model)
        \/ hasVad # (opts.vadConfig # Nothing)
        \/ hasVad /\ (~ManifestOK(opts.vadConfig) \/ ~ScorerOK(opts.vadModel))
     THEN Failed
     ELSE newDetector(cfg, model, opts.vadConfig, opts.vadModel, opts)
=============================================================================
