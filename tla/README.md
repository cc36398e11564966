# Models and proofs of wakeword-go

TLA+ modules that model the wake word detector of this repository, TLC
configurations that check them on small instances, and theorems that TLAPS
checks for all values of the constants.

## The system

A program that listens for a wake word: samples become feature frames
(`frontend`), a streaming neural network turns frames into probabilities
(`runtime`, `kernels`), and a decision rule turns probabilities into events
(`wakeword`). Two commands use it: `cmd/wakeword` on a file, a pipe or recorded
features, and `cmd/wakeword-eval` on a corpus, in parallel.

| part | state | operations | talks to | right when |
|---|---|---|---|---|
| streaming model (`wakeword/streaming.go`) | stride buffer and position, ring of outputs and index, ignore-windows counter, unprocessed and lastInvoked flags | feed, determineWakeWord, determineVAD, resetProbabilities, reset | calls its scorer | scores the latest frames; judges each output once; refractory period; a reset leaves no trace |
| detector (`wakeword/detector.go`) | two streaming models, frame counter, event buffer | NewDetector, FeedFeatures, Feed, Reset, LastProbability | frontend, both models, `OnProbability` callback | its events follow the decision rule whatever fails in between; positions are those of the audio |
| manifest (`wakeword/config.go`) | none | Validate, the cutoff's conversion | NewDetector | settings decide as they say |
| scorer (`wakeword/scorer.go`) | an interpreter | Invoke, Reset, probe | interpreter | deterministic after Reset |
| interpreter (`runtime/interpreter.go`, `state.go`) | tensors, variables, initialized flag | Invoke, Reset, the state operators | kernels | init subgraph once per reset; Reset gives the first state back |
| loader and validator (`runtime/model.go`, `validate.go`, `options.go`) | none after loading | Load | flatbuffer reader | what it accepts cannot make a kernel index out of range |
| kernels (`kernels/`) | what the prepare step computed | one per operator | tensors | compute what the operation means |
| window (`frontend/window.go`) | sample buffer and fill | process, reset | the frontend | windows of one stream, however it is cut |
| frontend stages (`frontend/`) | noise estimate, work buffers | Process, Reset | window | each stage within its rounding, no word wraps |
| command (`cmd/wakeword`) | output buffer and its first error | detect, features | detector, stdin, stdout | events delivered as they happen; exit code tells of failures |
| evaluation (`cmd/wakeword-eval`) | channels, pool of detectors, shared result | parallel, evaluate | detectors | every file judged once and alone; ends; reports failures |
| WAV reader (`internal/wav`) | none | Read, Write | both commands | reads what was written, whatever stands around it |
| parity data, tools, generated schema | | | | |

What is hard here, and hardly reached by the tests:

- error returns in the middle of a frame or of a reset, which leave one model
  changed and the other not, after which the caller goes on;
- state that reset deliberately leaves alone (the stride buffer, the flags);
- outputs that are judged later than they are computed, and counters that climb
  on some frames only;
- chunks of samples that do not fall together with windows;
- kernels that index flat arrays without a check, on the word of a validator
  that is written elsewhere, operator by operator;
- integer arithmetic with two roundings, shifts that wrap, and layouts that are
  padded and aligned;
- the goroutines of the evaluation: two channels, an early stop, a pool that
  creates and forgets detectors, a mutex and deferred calls.

`PROJECT.json` lists each at its line under `hazards`.

## Modules

### Detector

**StreamingModel** has one operator for each statement group of `streaming.go`,
on a record `m` of the mutable fields and a record `c` of the immutable ones, so
that the detector can hold two models. A frame is a model value and a
probability a small number. The scorer is the environment: an Invoke that is due
gives any output or fails. What the interpreter remembers between Invokes is one
flag, `carried`.

**Detector** has one action per outcome of FeedFeatures (`ScoreFrame`,
`RejectFrame` for a frame of the wrong length, `WakeInvokeFails`,
`VadInvokeFails`) and of Reset (`Reset`, `WakeResetFails`, `VadResetFails`). A
detector is used by one goroutine at a time, so a call is one step and an error
return keeps exactly what the call had changed. `result` is what the caller sees:
the event, the error, and what `OnProbability` was given.

**DecisionRule** is the abstract specification: a queue of the window's latest
outputs, a count of quiet frames, a pending flag and the verdict of each call.
`Detector!ImplementsRule` is the refinement: the queue is the ring read from the
cell after `lastN`, the count is `MinSlices + ignoreWindows`.

**DetectorAudit** adds history variables that record what the detector was fed
and what its scorers answered, and states the properties that relate the two.
**DetectorTwin** runs a used and Reset detector beside a new one.
**DetectorLive** adds fairness.

**Construction** models NewDetector: `Validate` of both manifests, which option
overrides which setting, the conversion of a cutoff to an output, the shape of a
model and the probe. A probability is a number of parts of 1.

**AudioFeed** models `window.process` and the loop of `Detector.Feed`, one step
per iteration, and **Framing** what they promise: the windows of one stream. A
sample is its position, so that a window that mixes, repeats or skips samples is
told from a right one. What FeedFeatures does is one of its three outcomes.

### Network

**Loader** says which models `runtime.Load` accepts, as far as state goes: how
`resolveVariables` and `bind` link state operators to variables, and the rules of
`validate` about them and the init subgraph. **Interpreter** has one operator for
each function of `interpreter.go` and `state.go`, on a record of the tensors, the
variables and the initialized flag. A kernel is not computed: it writes the term
of its name and of what its inputs hold, so that equal here means equal whatever
the kernels compute. **InterpreterTwin** runs an interpreter that was used,
failed and was Reset beside a new one.

**Tensors**, **CopyKernels**, **MacKernels** and **PointwiseKernels** model the
operators that compute: for each its rule in `validate.go`, its prepare step, and
its loops over flat indices. An element is known by where it comes from: a copied
one by its operand and index, an output of CONV_2D, DEPTHWISE_CONV_2D or
FULLY_CONNECTED by the bag of pairs that are multiplied for it, its bias and its
scale. An index outside of an array is a panic. **Operators** takes one operator
from the file through Load and the prepare step to its kernel, and compares what
it moves or multiplies with a definition by coordinates.

**FixedPoint** is the requantization of `kernels/requant.go` on words of a chosen
width, with its users QUANTIZE and LOGISTIC.

The scorer is where the detector and the network meet. StreamingModel lets a
scorer's Reset fail, because `Scorer` is an interface; `StateOperatorsSucceed`
shows that the real one's never does. DetectorTwin takes a scorer to be
deterministic after a Reset (`carried`); `ResetMakesNew` of InterpreterTwin shows
it of the real one, for well-formed models.

### Frontend and files

**Spectrum** models `kissfft.go` in a finite field that has the roots of unity a
transform of up to 32 points needs: what it keeps is which number is multiplied
by which factor and goes where. **Filterbank** models the layout of the filters
(starts, widths, padding, channels without a bin) and which bins each channel
accumulates. **FrontendStages** models the stages around them on words of a
chosen width: the window's multiplication and shift, the square root, the noise
estimate and subtraction, the gain's table and interpolation. **Wav** models the
chunk walk of the reader, and the writer. **Routines** makes one call of any of
these, of FixedPoint and of Construction, and compares its result with a
definition of what it should be.

### Commands

**Parallel** models `parallel` of `wakeword-eval`, one step per channel operation
of the feeder and of each goroutine; **Evaluate** refines each job into what
`evaluate` and `detectTimes` do: Get, New, Reset, Feed, Lock, load, store, Unlock
and Put, with every failure.

**Command** models `runDetect`, `replayFeatures`, `runFeatures` and `outWriter` of
`cmd/wakeword`: one step per chunk that is read, line that is printed, event that
is found and report. The `bufio.Writer` is external: it holds a few lines, and
writing it out may stop at any line.

### Proofs, instances and mutants

**DetectorProofs** (with the lemmas about StreamingModel), **DetectorHistoryProofs**
(of DetectorAudit and DetectorTwin), **AudioFeedProofs**, **EvaluateProofs** (with
those about Parallel), **CommandProofs**, **InterpreterProofs**, **OperatorsProofs** and
**RoutinesProofs** hold the theorems. **PowersOfTwo** has the shift `1<<n` as a
recursive function, since the provers know nothing of exponentiation. The `MC*` modules give constants that a cfg cannot write.

Each module also holds, next to the definition they change, the mutants that
`PROJECT.json` lists: plausible mistakes that make one property fail, which shows
that the property can. No specification uses them.

## Runs

| run | checks | bounds |
|---|---|---|
| detector | `TypeOK`, `EventAboveCutoff`, `ImplementsRule` | strides 2 and 3, windows 2 and 1, cutoff 1 of 3, warm-up 3, counter wraps at 2 |
| detector_audit | `EventsAreSpaced`, `ScoresLatestFrames`, `SameStrideTogether` | both strides 2, two frames to tell apart, warm-up 3 |
| detector_twin | `ResetMakesNew` | as before, warm-up 2 |
| detector_live | `QuietRearms`, `SustainedWordReported`, `SpeechUnblocks` | stride 2 against 1, window 1 against 2, warm-up 2 |
| audio_feed | `FramesFollowSamples`, `SampleIsWindowEnd`, `ImplementsFraming`, `FeedEnds` | window 5, step 2, chunks up to 8 of 16 samples, at most 2 events in a call |
| evaluate | `RoomForEveryError`, `EachJobOnce`, `ErrorTellsAll`, `OneUserPerDetector`, `JudgedAlone`, `NothingUncounted`, `EvaluateReturns` | 2 goroutines, 4 files of which 3 count, 3 detectors |
| command | `DeliveredInOrder`, `EventsDelivered`, `SuccessIsComplete` | a buffer of 2 lines, 6 lines in a run, 2 events in a chunk |
| interpreter | `StateOperatorsSucceed`, `ResetMakesNew` | every main subgraph of two handles and up to 4 of 8 operators, with each of 5 init subgraphs or none; 3 Invokes and any Resets |
| operators | `NeverOutOfRange`, `MovesWhatIsMeant`, `SliceFailsOnlyOnShape`, `MultipliesWhatIsMeant`, `WindowsFit` | 87,800 states: every operator on shapes of up to 4 axes and sizes up to 6, with small axes, splits, slices, strides, paddings, scale lists and biases, refused ones included |
| routines | `TransformIsDFT`, `FilterbankCovers`, `RootsAreNearest`, `ScaledUpWithoutWrap`, `NoiseBounded`, `GainInterpolates`, `RequantizesNearest`, `ReadsWhatWasWritten`, `SettingsDecide` | 99,176 states: words of 8 bits, elements of 4, accumulators of 12; see below |

Why these are enough. The detector's control distinguishes a probability below,
at and above the cutoff, so four values suffice, with a window of two so that
sum and maximum differ; a stride of two has a middle and an end, and two
different strides meet in every phase. A warm-up of three is longer than a stride
and a window. In AudioFeed the window is not a multiple of the step, a chunk can
be shorter than what is missing, complete one window or several, and the stream
is long enough for six windows. Two goroutines can be in two different places
with the feeder in a third, and four files outnumber them, so that both may fail
before the last job, and one may take another's detector from the pool; for more
of each there are the proofs. The command's buffer overflows more than once in
six lines, with and without a failure. Four operators suffice for the streaming
layer of the real models (CALL_ONCE, read, compute, assign) in every order, and
three Invokes for one before a Reset and two after.

The calls of `operators` and `routines` have no state between them, so that what
matters is which arguments are tried. A slice is tried with every begin, end,
stride and mask about an axis of three; a convolution with both paddings
and with strides whose windows end before, at and past the image (dilations are
1, as the loader demands); a scale list and a
bias with every length that may be confused with the right one. The transform is
linear, so the basis vectors of each size (4, 8, 16 and 32 points: with and
without a radix 2, one to three stages) determine it. Filterbanks have all
layouts of up to 3 channels on 12 bins, and those of 4 channels on 17 that are
not all alike. The root is tried on every accumulator of 12 bits. Words of 8 bits
and elements of 4 keep the order of the code's (a product of an element and a
multiplier fits a word, a sum of two words does not), so each saturation, wrap
and tie occurs; where a boundary of the code depends on the width, the model has
it from the width. Streams of WAV chunks are cut at every cell. `SizeBits`,
`FmtSize`, `MaxOutput`, `Parts`, `FrameStep` and `NumChannels` are small stand-ins
for the constants of the code.

`MaxChunk`, `MaxSamples`, `MaxEvents`, `MaxLines`, `MaxInvokes`, `MaxOps` and the
sets of calls are bounds of the model and not of the code; the counter of frames
wraps at `FrameWrap`, as an `int` does at a larger number. Runs of Evaluate,
Command, Operators and Routines switch TLC's deadlock check off because the
function returns; that evaluate does, from every state, is its liveness property.

### Premises

What a property asks of its inputs, and the code does not check, was found
necessary by leaving out each part in turn.

- `ResetMakesNew` of InterpreterTwin, of a well-formed model: operators stand
  after what they read; CALL_ONCE stands before any state operator, since it runs
  the init subgraph in its place although `interpreter.go:178` says that "the init
  subgraph runs first"; and the init subgraph assigns every variable, since
  `Reset` leaves the others as they are although its comment, `interpreter.go:185`,
  has them back in their initial state. The models of the repository are of that
  kind. A model in which an operator writes a constant tensor is accepted too, and
  is left out: the write would go to the model's own buffer, under every
  interpreter of it (`WritesNoConstant`).
- `NeverOutOfRange`, of a `Regular` operator: SPLIT_V's outputs have the rank
  of its input, a CONV_2D's input has channels, a FULLY_CONNECTED's
  bias is a vector, and the input scale of a LOGISTIC is at least 2^-28. The
  comment of `validate.go:12`, "structural invariants the kernels rely on", claims
  more than the rules check; files that a converter writes are all regular.
- `FilterbankCovers`: the filters end at least `BlockSize - 1` bins below the
  spectrum's end, which is what the padding of the last channel may take; its theorem
  shows that no more is needed. Centers rise, as they do between any two band limits,
  and the indexes are integers, while the code keeps them in int16. An upper band limit of 7940 Hz is accepted and panics on every frame,
  since the padded width of the last channel is not checked; 7500 Hz, which the
  detector uses, is well inside.
- `GainInterpolates`: the table is convex and its slopes fit 16 bits, which the
  detector's own table is. An offset such as 78 lets the first slope wrap. In an
  interval of more than 1024 numbers the parabola is taken at the 1024th that the
  number is rounded down to, which is all the code looks at.
- `RequantizesNearest`: the zero points are elements of their tensors' types, which the
  loader leaves to the file. With others QUANTIZE's short cut is not its general path.
- `ScaledUpWithoutWrap`: no sample is the least one, whose negation wraps (its theorem
  needs it too: `LoudestIsGreatest`).
- `NoiseBounded`: the scaled signal fits its word.
- `ReadsWhatWasWritten`: no chunk follows a data chunk whose declared size means
  "the rest", and no fmt chunk has the greatest size, for which `wav.go:67` adds 1
  to 2^32 - 1 and `wav.go:71` reads from an empty buffer. A chunk that is skipped is
  smaller than that too (`wav.go:108` adds the same 1), and one kind, LIST, stands for
  all of those.

### Disagreements

Two runs show a disagreement between the code and what the help text or a test
says (`findings` in `PROJECT.json`):

- `find_all_printed`: detect loses the last lines of --probabilities when reading
  or the detector fails;
- `find_no_progress`: a frontend configuration that is accepted makes the loop
  over Process endless. The detector itself uses only the default configuration.

Others were met while modelling and have no run:

- LastProbability returns 0 after a detection (`detector.go:182`, against
  line 180, "the most recent wake word model output");
- an output is not given to OnProbability when the VAD model fails on the same
  frame (`detector.go:198` against the comment at 49);
- Event.Sample falls short after a call of Feed that failed (`detector.go:251`
  against 27, and the premise of `SampleIsWindowEnd`);
- the warm-up counts frames where some comments say invocations
  (`streaming.go:79` against `wakeword-eval/main.go:8`);
- `requant.go:17` says that multipliers below 2^-31 are flushed to zero; the test
  `exp < -31` at line 29 flushes those below 2^-32;
- `kissfft.go:12` says that the transform "never overflows", which inputs of full
  scale that are made for it do.

## Fairness

- DetectorLive: the loops of both commands go on to the next frame, hence weak
  fairness of `ScoreSomeFrame`. A scorer that is asked again and again does not
  fail each time, hence strong fairness of the calls in which an Invoke is due.
  Failures, refused frames and resets may still happen any number of times.
- AudioFeed: a goroutine in the loop of Feed is scheduled.
- Evaluate (with Parallel in it): weak fairness of the feeder and of each
  goroutine, which the Go scheduler gives; jobs end, as a file is finite. Strong
  fairness of Lock: a `sync.Mutex` in starvation mode is handed to whoever waits
  longest.

## Proofs

Each theorem is for every value of the constants that the named assumptions
allow. They all have the same shape: an inductive invariant, a lemma for the
initial states, a lemma with one step per action, and what the invariant gives.

**Detector.** From `ParametersAssumption` (strides and windows are at least 1, the
cutoff is a possible output) and `NilAssumption` (the two values that stand for
nil are not records):

- `TypeCorrect`: `Spec => []TypeOK`. TypeOK is inductive as it stands; a lemma
  for each operator of StreamingModel gives its type. It is what makes
  `ring[lastN]` and `input[strideStep*featureSize:]` safe.
- `EventsAreAboveCutoff`. The sum is defined as a cardinality (of the unit pairs
  below the ring's values), so that the library's facts about finite sets bound
  it: a ring with no value above the cutoff sums to at most cutoff times window,
  by inclusion in a product (`SumBound`).
- `RefractoryPeriod`: `AuditSpec => []EventsAreSpaced`, which alone is not
  inductive. `SpacingInv` adds that the count of quiet frames never exceeds the
  frames taken since the start, and that while the two are equal the ring holds
  nothing above the cutoff: if every frame was quiet, every output was. At a
  detection the count is MinSlices and the ring holds a value above the cutoff,
  so at least one more frame was taken.
- `StridesAreLatest`: `AuditSpec => []ScoresLatestFrames`. `BuffersInv` speaks of
  the stride that is begun: its slots hold the latest frames, in order, whatever
  the other slots still hold of an earlier one (`Holds`). Without a VAD model the
  invariant also needs that its buffer was never begun.
- `StridesStayTogether`: `AuditSpec => []SameStrideTogether`, inductive with
  TypeOK: two models of one stride that took the same frames are in the same slot.
- `RefinesRule`: `Spec => ImplementsRule`, the refinement of the decision rule.
  The rule sums a queue, the code a ring; a bijection between the cells and the
  places in the queue (`CellAtBijection`) makes the sums equal (`SumHeard`), and
  pushing into the ring is pushing into the queue.

- `AlwaysResetMakesNew`: `TwinSpec => []ResetMakesNew`. Two models are `Alike` if
  they share everything but the lastInvoked flag and the slots that the stride
  begun has not reached; a restarted model is alike to a new one, and a frame keeps
  models alike: when the stride is complete its slots are all equal, so that a
  scorer that is deterministic after a Reset answers both the same.

**Audio feed.** From `WindowAssumption` (the window has samples, the step is at
most its size) and `BoundsAssumption`:

- `RefinesFraming`: `Spec => ImplementsFraming`. `WindowInv` says that the used
  part of the buffer holds the latest samples of the stream, in order.
- `AlwaysFramesFollowSamples` and `AlwaysSampleIsWindowEnd`, on the further
  assumption `NoOverflow`: the step is positive and the stream too short for the
  counter of frames to wrap. `FeedInv` adds the two counts that each iteration
  keeps in step.

**Evaluation.** From `ParallelAssumption` (`--jobs` is any integer),
`CountedAssumption` and the `NilAssumption` of Evaluate:

- `AlwaysRoomForEveryError`, `AlwaysEachJobOnce`, `AlwaysErrorTellsAll` of
  Parallel, from `ParInv`: errors in the channel and goroutines that can still
  fail are together never more than its capacity (`Room`), and jobs in different
  hands are different (`Apart`).
- `EvaluateKeepsJobs`: the same of Evaluate, each of whose steps is one of
  Parallel or leaves it alone.
- `AlwaysOneUserPerDetector`, `AlwaysJudgedAlone`, `AlwaysNothingUncounted`, from
  `EvalInv`: how far a job has come says what its goroutine holds (`Stages`); what
  it loaded is still the total while it holds the mutex (`LoadedIsTotal`); the
  total is the number of files that are past their store (`Counting`).

**Command.** From `CommandAssumption` (the buffer holds at least one line):
`AlwaysDeliveredInOrder`, `AlwaysEventsDelivered`, `AlwaysSuccessIsComplete`, from
`CommandInv`: what reached standard output are the first lines, numbered, and
until writing fails the buffer has the others (`Sound`); an event that was
reported is among the former. One lemma for each call of outWriter shows that it
keeps Sound, wherever it is cut off.

**Interpreter.** From `LoaderAssumption`, `InterpreterAssumption` and
`FilesAssumption` (a file is a sequence of sequences of operators), of files of any
size and of uninterpreted kernels:

- `NothingButKernelsFail`: `Spec => []StateOperatorsSucceed`. `LegitInv` is that the
  state has one value for each tensor and each variable and that the error, if any,
  is a kernel's. What makes it inductive is about the file: a state operator finds a
  handle before it, and its variable was bound, with the shape of the tensor that it
  moves (`StateOperator`, from the facts about the latest of a finite set of places).
  `InitSucceeds` follows the init subgraph operator by operator.
- `ResetIsFresh`: `Spec => []ResetMakesNew`, a simulation. Between calls the used
  interpreter `Follows` the new one: their variables are equal, or the new one has
  its init subgraph still to run and the used one has the values that it gives
  (`InitValues`: the init subgraph runs on constants and zeros only, `InitForgets`,
  and assigns every variable, `InitSetsInitValues`). Within an Invoke they also
  `Agree` at each operator: they hold the same in every constant, in the input and
  in every tensor that the operators so far have written, which in a well-formed
  model is all that the next one reads. `PairStep` shows that an operator keeps
  both, `PairInvoke` that two Invokes end alike.

The progress of a subgraph is a function on its places, defined from the place
before: `InitProgressSteps` and `ProgressSteps` give its equation, and what holds
at every place is shown of the set of places where it holds (`EveryPlace`), which
contains 0 and with each place the next.

**Operators.** From `MaxDimsAssumption` and `OpsAssumption` (every operator of a file
has one of the modelled codes and the options of its code; its tensors are any at all,
of any shape, scales and data):

- `KernelsStayInRange`: `Spec => []NeverOutOfRange`. `OperatorsInv` is what the stage
  says of the operator: from "loaded" on its tensors and its rule have been checked,
  from "ready" on the parameters are those that its prepare step computed, once "done" the
  outputs are what its kernel wrote, "failed" is an error of one of the two, and it has
  panicked only if it is irregular. The rest is about the operators one by one
  (`PrepareInRange`, `KernelInRange`), from lemmas about row-major places: the place of
  coordinates within a shape is below the product of its sizes (`FlatInRange`), a block
  of the outer axes times the inner ones stays within (`RowMajor`, `QuotientBelow` for
  the groups of a convolution), a slice that starts within an axis stays within it
  (`SliceWithinAxis`), a bias that passed `BiasChecked` has a value for each channel.
- `EveryWindowFits`: `Spec => []WindowsFit`, the sizes and the padding that
  `convGeometry` computes, for all images, filters, strides and both paddings
  (`SameWindows`, `ValidWindows`), irregular convolutions included.
- `SlicesFailOnlyOnShape`: `Spec => []SliceFailsOnlyOnShape`. Begin and end, clamped to
  the axis, name the same places as they stand (`ClampingKeepsPlaces`), and these are
  the progression from the clamped begin that `SliceExtent` counts
  (`SelectedIsProgression`), for every begin, end, stride of either sign and mask. The
  kernel's walk takes the output's coordinates in the order of their flat indexes
  (`FlatOfNext`, `FlatOfLast`), so that it reaches the last one neither sooner nor later
  than the output ends (`WalkCounts`), and the count of bytes after it never fails.
- `KernelsMultiplyWhatIsMeant`: `Spec => []MultipliesWhatIsMeant`. The loops over the
  output go over its coordinates and no two write at one place (`OutputPlaces`,
  `OutputAtIsInjective`: a row-major place has one pair of row and column,
  `RowMajorIsInjective`), so that what is read at a place is the one value written there
  (`WrittenAt`). Its taps are compared as sets: a place of the filter and a channel give
  the coordinates of a pixel under the window (`WindowToTap`), every pixel under the
  window comes from such a place (`TapToWindow`), and the channels of a filter's group
  are those with the group's quotient (`ConvTaps`, `QuotientScaled`). The scales are the
  channel's because the prepare step computed them so (`ConvScales`, `DepthwiseScales`,
  `FullyConnectedParams`). Irregular operators are included.
- `KernelsMoveWhatIsMeant`: `Spec => []MovesWhatIsMeant`. A flat index splits around the
  axis of the pieces into what is before it, the place on it and what is after it, and
  coordinates of two tensors that differ on that axis only share the first and the last
  (`AroundAxis`). The kernels write block after block; a flattened sequence of blocks has
  at the sum of the lengths before a block the block's first element (`FlattenSteps`,
  `FlattenedAt`), and for a concatenation, whose blocks differ in length and come round
  once per outer index, that sum is the place where the piece starts on the axis
  (`BlocksFollow`), which lies in exactly one piece (`SumsRise`, `PlaceHasPiece`). The
  slice's walk meets every coordinate of the output because a flat index has one list of
  coordinates (`FlatIsInjective`), and the n-th of the places that a slice names is its
  begin plus n strides (`NthOfProgression`). Neither `validate` nor `splitV` compares a
  SPLIT_V output's other axes with the input's (only its length and its size on the
  axis), so the property is about the shape that such an output should have (`Extents`).

A product of sizes, a sum of pieces and a flat index are recursive functions of one
element more (`product`, `SumOfFirst`, `FlatIndex`); `ProductSteps`, `SumSteps` and
`FlatExists` show once that they exist and give their equation, by the same argument as
for the progress of a subgraph.

**Routines.** From `StagesAssumption`, `ConstructionAssumption`, `FixedPointAssumption`
(a word is at least two bits wider than an element) and `CallsAssumption` (arguments have
the types of the routine's parameters: samples and coefficients of their words, shares that
are fractions, zero points of their tensors, integers in the options and manifests; a stream
is a file of any chunks that a program writes, whole or cut anywhere), of any set of calls. `RoutinesInv`, that what was returned is the routine's result, is inductive as it
stands; what has to be shown is about the routines:

- `DetectorsUseTheirSettings`: `Spec => []SettingsDecide`. Settings that pass the checks of
  `newDetector` and `newStreamingModel` make a model that is in range throughout (`SetUp`,
  `AcceptedIsSetUp`), and both models are made of such settings. Its cutoff is a possible
  output, so that the clamps of `CutoffUint8` never act, and an output above it is one whose
  multiple is above the cutoff's (`QuotientCompares`), for every resolution of the two
  (`CutoffDecides`).
- `NoiseStaysBounded`: `Spec => []NoiseBounded`. The estimate is a weighted mean, rounded
  down, hence between what it is a mean of (`MeanBetween`) and within its word; one frame
  keeps that (`NoiseReduced`), and `FramesSteps` carries it along the stream.
- `ScalingUpNeverWraps`: `Spec => []ScaledUpWithoutWrap`. The loop over the samples finds
  the greatest magnitude unless one is the least of its word (`LoudestIsGreatest`); the
  bits of that (`BitsOfNumber`) and the shift add up to the word's, so that it and all
  smaller ones fit, and it reaches the highest bit (`ShiftFits`).
- `RootsAreTheNearest`: `Spec => []RootsAreNearest`. The loop's invariant is `Digits`: with
  the digits from `2*w` on found, the root so far is a multiple R of `2*w`, the number that
  is left is `num - R*R`, `res` is `R*2*w`, `bit` the square of the next digit `w`, and
  `(R + 2*w)` squared is above the number. One iteration is `OneMoreDigit`; the first bit is
  high enough because of the number's bits (`HighestEvenBit`), and after the last one the
  remainder says on which side of R the nearest root is (`NearestIs`).
- `ScalesAreNearest`: `Spec => []RequantizesNearest`. Every fraction has an exponent
  (`ExponentIs`), and its multiplier is within a half of the scale in that exponent's units
  (`FixedIs`, `MultiplierIs`). The doubling multiplication and the shift each add at most a
  half of their own unit (`HighHalf`, `NearestPower`); `RoundingsTogether` adds the three up
  in the units of the last, `ScaledClosely` is the result. The short cut of QUANTIZE is the
  general path with a scale of one (`FlipIsRequantize`), and a sigmoid's argument that does
  not saturate is small enough for its shift (`SigmoidFits`).
- `GainsAreOnParabola`: `Spec => []GainInterpolates`. How far a number is into its interval
  is an exact number of 1024ths (`FractionIs`). The slope's division by 32 and the gain's by
  2^15 together lose less than one unit, and what they give is a word (`GainOnParabola`);
  the rest is the parabola written in two ways.
- `FiltersCover`: `Spec => []FilterbankCovers`. The invariant of the first pass is
  `Arranged`: each channel's own bins go on from those before it and are inside of what it
  reads, which ends at most `BlockSize - 1` bins later (`Placed`); the weights of two
  channels that have any do not overlap (`Apart`), and from the first channel without bins
  on all stand behind the block of zeros. A channel more keeps it in both cases
  (`OneMoreArranged`), also where it moves those before. The second pass then fills the
  places of each channel and no other's (`OneMoreFilled`, `WeightsFilled`), so that whatever
  a channel reads besides its own weights weighs nothing (`ReadsOwn`); its own bins are its
  band (`BandIs`), and the reads end where `OverrunsAtTheEnd` says.
- `ReadersReadWhatWasWritten`: `Spec => []ReadsWhatWasWritten`. After each round of its loop
  the reader stands behind as many chunks as rounds, none of them data, with a format
  exactly if one of them was an accepted one (`Going`), or its verdict is true of the file
  (`Judged`). `OneMoreRound` keeps that: a round passes a chunk (`PassesChunk`), takes the
  samples (`TakesData`) or finds the stream ended (`StopsAtEnd`), all of which need that the
  size with its pad byte is the size of what was written (`PaddedIsEven`, `NextChunkIs`).
  Every chunk takes a cell at least (`CountsRise`), so that after as many rounds as cells
  there is a verdict; the cells of the data are its samples again (`DataIsRead`).

Those on words rest on `PowSteps`, `PowsRise` and `PowOfSum`, the equations and the order of
the powers of two; every recursive function, of these and of the layout's two passes, exists
by `FoldExists`.

Only model-checked: all liveness (fairness and ENABLED are out of the prover's reach), and
one invariant, `TransformIsDFT` of Routines. It speaks of a field that the model fixes, with
roots of unity for at most 32 points: TLC tries every basis vector of every size of it, and
a theorem would add nothing. Every other invariant of the runs is a theorem.

## Not modelled

- Kernels: the sums of products themselves, the activation's bounds, the
  polynomial of the sigmoid.
- Frontend: the rounding of the FFT and the float tables it reads (cosines, mel
  frequencies, powers), the shrinking of the gain, the final quantization. The
  log scale: its products exceed TLC's integers at every width at which its table
  makes sense.
- Construction: the cutoff's conversion is exact here, while a double's product
  may fall just below a whole number.
- Loader: the reading of the flatbuffer and of the operators' options.
- Interpreter: RunOperator, which only tests use, and the views of tensors.
- Commands: flags, usage errors, the corpus's listing and the printed report,
  which are sequential input and output; the decoding of JSON is the library's.
- Generated code (14,139 of the 19,753 lines, `schema_generated.go`), test data and
  Python tools are no part of the program's logic.

## Plan

Done: every part of the table above, as far as just said. What is left:

1. The detector over the audio feed and the interpreter in one composition, with
   what each assumes of the other as an abstract specification.
2. The transform over a field of any size, and its theorem.
3. The log scale, once its arithmetic is split into limbs that TLC can hold.
