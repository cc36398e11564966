------------------------------ MODULE Routines ------------------------------
(***************************************************************************)
(* One call of a routine that computes from its arguments alone: the FFT,  *)
(* the layout of the filters, the stages of the frontend, the              *)
(* requantization of the kernels, the WAV reader and the construction of a *)
(* detector.  Each property sets the results of one of them against a      *)
(* definition of what they are of.                                         *)
(***************************************************************************)
EXTENDS FixedPoint, Spectrum, Filterbank, FrontendStages, Wav, Construction

CONSTANT Calls

\* The arguments that a routine is called with have the types of its parameters:
\* center frequencies rise and are above 0, so that tops does not fall and holds no
\* 0; a share of the noise is a fraction of 2^SmoothBits, a coefficient of a window
\* one of 2^WindowBits, a gain is not negative, zero points are elements of their
\* tensors, a LOGISTIC's scale has no negative exponent once it is shifted, a stream
\* is a file of chunks whose first data chunk holds the samples, or what a cut left
\* of it, and an option or a manifest that is given holds integers.
ArgumentsOK(c) ==
  /\ c.routine = "filterbank" =>
       /\ c.config.spectrum \in Nat /\ c.config.first \in Nat
       /\ c.config.tops \in Seq(Nat \ {0}) /\ c.config.tops # << >>
       /\ \A i, j \in 1 .. Len(c.config.tops) : i <= j => c.config.tops[i] <= c.config.tops[j]
  /\ c.routine = "sqrt" => c.num \in 0 .. Pow2(AccBits) - 1
  /\ c.routine = "window" =>
       /\ c.in \in Seq(-Pow2(SampleBits - 1) .. Pow2(SampleBits - 1) - 1)
       /\ c.coefficients \in Seq(0 .. Pow2(WindowBits)) /\ Len(c.coefficients) = Len(c.in)
  /\ c.routine = "noise" =>
       /\ c.signals \in Seq(0 .. Pow2(SignalBits) - 1)
       /\ c.nr.bits \in Nat /\ {c.nr.smoothing, c.nr.minRemaining} \subseteq 0 .. Pow2(SmoothBits)
  /\ c.routine = "gain" =>
       /\ c.interval \in Nat \ {0, 1} /\ c.x \in Pow2(c.interval - 1) .. Pow2(c.interval) - 1
       /\ c.y \in [1 .. 3 -> 0 .. Pow2(15) - 1]
  /\ c.routine = "scale" => c.x \in Words /\ c.n \in Nat /\ c.d \in Nat \ {0}
  /\ c.routine = "quantize" => c.x \in Elements /\ c.zin \in Elements /\ c.zout \in 0 .. MaxUnsigned
  /\ c.routine = "logistic" =>
       /\ c.x \in Int /\ c.n \in Nat \ {0} /\ c.d \in Nat \ {0}
       /\ 2 * c.n * Pow2(Bits - 1 - IntegerBits) >= c.d
  /\ c.routine = "wav" =>
       /\ c.chunks \in Seq([id : Ids, size : Nat, body : Seq(AnyCell)])
       /\ \A i \in 1 .. Len(c.chunks) :
            /\ Written(c.chunks[i])
            /\ c.chunks[i].id = "data" /\ (\A j \in 1 .. i - 1 : c.chunks[j].id # "data") =>
                 Holds(c.chunks[i].body, c.pcm)
       /\ Begins(c.stream, c.chunks)
  /\ c.routine = "detector" =>
       /\ {c.opts.cutoff, c.opts.window, c.opts.vadCutoff, c.opts.vadWindow} \subseteq Int
       /\ \A m \in {c.cfg} \cup ({c.opts.vadConfig} \ {Nothing}) : {m.cutoff, m.window} \subseteq Int

ASSUME CallsAssumption == \A c \in Calls : ArgumentsOK(c)

VARIABLES call, result

routineVars == <<call, result>>

Result(c) ==
  CASE c.routine = "fft"        -> realTransform([i \in 1 .. c.size |-> IF i = c.at THEN 1 ELSE 0])
    [] c.routine = "filterbank" -> filterbank(c.config)
    [] c.routine = "sqrt"       -> sqrt(c.num)
    [] c.routine = "window"     -> scaledUp([i \in 1 .. Len(c.in) |-> windowed(c.in[i], c.coefficients[i])])
    [] c.routine = "noise"      -> Frames(c.nr, c.signals)
    [] c.routine = "gain"       -> wideDynamicFunction(c.x, c.interval, Segment(c.y))
    [] c.routine = "scale"      -> LET m == QuantizeMultiplier(c.n, c.d)
                                   IN MultiplyByQuantizedMultiplier(c.x, m.significand, m.shift)
    [] c.routine = "quantize"   -> quantize(c.x, QuantizeMultiplier(c.n, c.d), c.zin, c.zout)
    [] c.routine = "logistic"   -> LET p == logisticParams(c.n, c.d)
                                   IN IF Saturates(c.x, p) THEN c.x
                                      ELSE MultiplyByQuantizedMultiplier(c.x, p.multiplier, p.leftShift)
    [] c.routine = "wav"        -> Read(c.stream)
    [] c.routine = "detector"   -> NewDetector(c.cfg, c.model, c.opts)

Init == call \in Calls /\ result = << >>

Return == result = << >> /\ result' = <<Result(call)>> /\ UNCHANGED call

Spec == Init /\ [][Return]_routineVars

Returned(routine) == call.routine = routine /\ result # << >>

-----------------------------------------------------------------------------
\* The transform of every basis vector is its discrete Fourier transform, over
\* the number of samples: the radixes, the reordering, the butterflies and the
\* unpacking of the two halves take each sample to each bin with its own root of
\* unity.  Rounding apart the transform is linear, so that this is all of it.
TransformIsDFT ==
  Returned("fft") =>
    /\ SizeOK(fftSize(call.size))
    /\ \A k \in 0 .. call.size \div 2 :
         result[1][k] = Fourier([i \in 1 .. call.size |-> IF i = call.at THEN 1 ELSE 0], k)

\* Every channel sums the bins between the center below and its own by their
\* weights and those of the band below by their unweights, each weight with the
\* energy of its own bin: no alignment, padding or block of zeros, of this channel
\* or another, moves one or overlaps one.  And no frame reads past the spectrum,
\* as long as the filters end BlockSize - 1 bins below its end.
FilterbankCovers ==
  Returned("filterbank") =>
    /\ result[1].kind = "ok" =>
         \A ch \in 1 .. Len(call.config.tops) : result[1].work[ch] = Weighed(call.config, ch)
    /\ result[1].kind = "panic" => Last(call.config.tops) + BlockSize - 1 > call.config.spectrum

\* The root is the nearest one, or the greatest of its word: half the bits of the
\* shortcut for numbers of half the width, which rounds its last few down.
RootsAreNearest ==
  Returned("sqrt") =>
    LET half == AccBits \div 2
        top  == Pow2(IF call.num < Pow2(half) THEN half \div 2 ELSE half) - 1
    IN result[1] = IF Nearest(call.num) > top THEN top ELSE Nearest(call.num)

\* Scaling a frame up loses no sample's sign or bits, and brings the loudest to
\* its highest bit: the shift found for the maximum fits every sample, unless one
\* of them is the least of the word, whose magnitude the maximum misses.
ScaledUpWithoutWrap ==
  Returned("window") =>
    LET out == [i \in 1 .. Len(call.in) |-> windowed(call.in[i], call.coefficients[i])]
        abs(x) == IF x < 0 THEN -x ELSE x
    IN (\A i \in 1 .. Len(out) : out[i] # -Pow2(SampleBits - 1)) =>
         \E shift \in 0 .. SampleBits - 1 :
           /\ \A i \in 1 .. Len(out) : result[1][i] = out[i] * Pow2(shift)
           /\ (\E i \in 1 .. Len(out) : out[i] # 0) =>
                \E i \in 1 .. Len(out) : abs(result[1][i]) >= Pow2(SampleBits - 2)

\* Frame after frame, the estimate moves towards the signal and never past it, and
\* what is left of a signal is at most all of it and at least its floor, as long as
\* the signal fits the word once scaled up.
NoiseBounded ==
  Returned("noise") =>
    LET nr == call.nr
        scaled(i) == call.signals[i] * Pow2(nr.bits)
        before(i) == IF i = 1 THEN 0 ELSE result[1][i - 1].estimate
    IN \A i \in 1 .. Len(call.signals) :
         (\A j \in 1 .. i : scaled(j) < Pow2(SignalBits)) =>
           /\ \/ before(i) <= result[1][i].estimate /\ result[1][i].estimate <= scaled(i)
              \/ scaled(i) <= result[1][i].estimate /\ result[1][i].estimate <= before(i)
           /\ result[1][i].signal <= call.signals[i]
           /\ result[1][i].signal >= noiseFloor(call.signals[i], nr.minRemaining)

\* Between two powers of two the gain is on the parabola through its values at both
\* and in the middle, to one unit, as long as the slope at the start fits its word:
\* at the number itself, or in a longer interval at the 1024th of it that the number
\* is rounded down to.
GainInterpolates ==
  Returned("gain") =>
    LET unit == Pow2(IF call.interval > 11 THEN call.interval - 11 ELSE 0)
        n == Pow2(call.interval - 1) \div unit
        k == (call.x - Pow2(call.interval - 1)) \div unit
        y == call.y
        parabola == y[1] * (n - 2 * k) * (n - k) + 4 * y[2] * k * (n - k) + y[3] * k * (2 * k - n)
        off == result[1] * n * n - parabola
        slope == 4 * (y[2] - y[1]) - (y[3] - y[1])
        fits(a) == a \in -Pow2(15) .. Pow2(15) - 1
        convex == 2 * y[2] <= y[1] + y[3]
    IN convex /\ fits(slope) /\ fits(y[3] - y[1] - slope) => off <= n * n /\ -off <= n * n

\* |y - x*n/d| is at most a half and what the first of the two roundings adds.
CloseTo(y, x, n, d, shift) ==
  LET R   == IF shift < -1 THEN -shift ELSE 1
      off == (y * d - x * n) * Pow2(R)
  IN off <= d * (Pow2(R - 1) + 1) /\ -off <= d * (Pow2(R - 1) + 1)

\* Two roundings, of the doubled product and of the division by a power of two, keep
\* a scaled accumulator within 1/2 + 2^-shift of its exact value, wherever the
\* value shifted left fits a word.  QUANTIZE's short cut, the sign bit flipped, is
\* what the general path gives.  The sigmoid's argument always fits: what would
\* not saturates before.
RequantizesNearest ==
  /\ Returned("scale") =>
       LET shift == QuantizeMultiplier(call.n, call.d).shift
       IN call.x * (IF shift > 0 THEN Pow2(shift) ELSE 1) \in Words =>
            CloseTo(result[1], call.x, call.n, call.d, shift)
  /\ Returned("quantize") => result[1] = requantize(call.x, QuantizeMultiplier(call.n, call.d), call.zin, call.zout)
  /\ Returned("logistic") /\ ~Saturates(call.x, logisticParams(call.n, call.d)) =>
       CloseTo(result[1], call.x, call.n * Pow2(Bits - 1 - IntegerBits), call.d, 0)

\* The samples of a file are those of its first data chunk, once a format has been
\* accepted, whatever chunks stand around it; a file cut short is refused, and so
\* is one with another format.  Two premises: the data chunk is not empty with
\* more behind it, since the size 0 means the rest of the stream; and no format
\* declares the greatest size, to which the pad byte adds up to 0.
ReadsWhatWasWritten ==
  Returned("wav") =>
    LET chunks == call.chunks
        \* the first data chunk, or behind the last chunk
        data == CHOOSE i \in 1 .. Len(chunks) + 1 :
                  /\ i <= Len(chunks) => chunks[i].id = "data"
                  /\ \A j \in 1 .. i - 1 : chunks[j].id # "data"
        end  == CellsThrough(chunks)[data - 1] + 1 + Len(chunks[data].body)
        fmts == {i \in 1 .. data - 1 : chunks[i].id = "fmt"}
        endless   == \E i \in fmts : chunks[i].size = MaxSize
        formatOK  == fmts # {} /\ \A i \in fmts : chunks[i].size >= FmtSize /\ Head(chunks[i].body) = Tag(1)
        streaming == chunks[data].size \in {0, MaxSize}
    IN /\ result[1].kind = "panic" => endless
       /\ result[1].kind = "ok" =>
            data <= Len(chunks) /\ formatOK /\ (Len(call.stream) >= end \/ streaming)
       /\ /\ data <= Len(chunks) /\ formatOK /\ ~endless
          /\ Len(call.stream) >= end /\ (streaming => Len(call.stream) = end)
          => result[1] = Samples(call.pcm)

\* A detector's models have each its own settings, an option before the manifest,
\* the stride of its own input and the features of the frontend.  A single output of
\* a model fires exactly if it is a greater share of MaxOutput than the cutoff that
\* applies: truncated, it loses nothing.  No setting that applies is out of range, and
\* no manifest's own value is, even where an option overrides it.
SettingsDecide ==
  Returned("detector") /\ result[1].kind = "ok" =>
    LET opts == call.opts
        applies(option, own) == IF option # 0 THEN option ELSE own
        inRange(cutoff, window) == cutoff \in 1 .. Parts /\ window >= 1
        decides(m, cutoff) ==
          /\ m.cutoff \in 0 .. MaxOutput
          /\ \A output \in 0 .. MaxOutput : output > m.cutoff <=> output * Parts > cutoff * MaxOutput
        built(m, model, cutoff, window) ==
          /\ inRange(cutoff, window) /\ decides(m, cutoff) /\ m.window = window
          /\ m.stride = model.in.shape[2] /\ m.stride >= 1
          /\ featureSize(model) = NumChannels
    IN /\ inRange(call.cfg.cutoff, call.cfg.window)
       /\ built(result[1].model, call.model,
                applies(opts.cutoff, call.cfg.cutoff), applies(opts.window, call.cfg.window))
       /\ (result[1].vad = Nothing) = (opts.vadModel = Nothing)
       /\ opts.vadModel # Nothing =>
            /\ inRange(opts.vadConfig.cutoff, opts.vadConfig.window)
            /\ built(result[1].vad, opts.vadModel,
                     applies(opts.vadCutoff, opts.vadConfig.cutoff), applies(opts.vadWindow, opts.vadConfig.window))
=============================================================================
