--------------------------- MODULE FrontendStages ---------------------------
(***************************************************************************)
(* The arithmetic of a frame around the spectrum: the scaling of the       *)
(* window (frontend/window.go, frontend.go, fft.go), the square root of    *)
(* the channels (filterbank.go), the noise estimate (noise_reduction.go)   *)
(* and the gain it drives (pcan.go).                                       *)
(*                                                                         *)
(* Words are parameters: a sample has SampleBits bits (16 in the code),    *)
(* an accumulator AccBits (64), a signal SignalBits (32); a coefficient    *)
(* and a smoothing factor are fractions of 2^WindowBits (2^12) and of      *)
(* 2^SmoothBits (2^14).                                                    *)
(***************************************************************************)
EXTENDS PowersOfTwo, Sequences, SequencesExt

CONSTANTS SampleBits, WindowBits, AccBits, SignalBits, SmoothBits

ASSUME StagesAssumption ==
  /\ SampleBits \in 2 .. 64
  /\ WindowBits \in Nat /\ SmoothBits \in Nat /\ SignalBits \in Nat
  /\ AccBits \in 0 .. 64 /\ AccBits % 4 = 0

Signed(x, bits) == ((x + Pow2(bits - 1)) % Pow2(bits)) - Pow2(bits - 1)

\* The number of bits of n, 0 for 0.
mostSignificantBit(n) == CHOOSE b \in 0 .. 64 : n < Pow2(b) /\ (b > 0 => n >= Pow2(b - 1))

-----------------------------------------------------------------------------
windowed(in, coefficient) == Signed((in * coefficient) \div Pow2(WindowBits), SampleBits)

\* Mutant: the sign is not taken off.
LoudestPositive(out) == FoldLeft(LAMBDA m, v : IF v > m THEN v ELSE m, 0, out)

\* Negating the least sample leaves it as it is.
maxAbsOutputValue(out) ==
  LET abs(v) == IF v < 0 THEN Signed(-v, SampleBits) ELSE v
      loudest[i \in 0 .. Len(out)] ==
        IF i = 0 THEN 0 ELSE IF abs(out[i]) > loudest[i - 1] THEN abs(out[i]) ELSE loudest[i - 1]
  IN loudest[Len(out)]

inputShift(out) == SampleBits - 1 - mostSignificantBit(maxAbsOutputValue(out))

\* The FFT's input.
scaledUp(out) == [i \in 1 .. Len(out) |-> Signed(out[i] * Pow2(inputShift(out)), SampleBits)]

-----------------------------------------------------------------------------
\* Mutant: the remainder is not rounded.
RootDown(num, bits) == CHOOSE r \in 0 .. num : r * r <= num /\ (r + 1) * (r + 1) > num

\* The digit-by-digit root of num, a word of that many bits.
Root(num, bits) ==
  LET len == mostSignificantBit(num)
      maxBitNumber == IF (bits - len) % 2 = 1 THEN bits - len ELSE bits - len + 1
      start == [num |-> num, res |-> 0, bit |-> Pow2(bits - 1 - maxBitNumber)]
      iterations == (bits - 1 - maxBitNumber) \div 2 + 1
      step(s) == IF s.num >= s.res + s.bit
                 THEN [num |-> s.num - (s.res + s.bit), res |-> s.res \div 2 + s.bit, bit |-> s.bit \div 4]
                 ELSE [s EXCEPT !.res = @ \div 2, !.bit = @ \div 4]
      state[i \in 0 .. iterations] == IF i = 0 THEN start ELSE step(state[i - 1])
      last == state[iterations]
  IN IF num = 0 THEN 0
     ELSE IF last.num > last.res /\ last.res # Pow2(bits \div 2) - 1 THEN last.res + 1 ELSE last.res

\* sqrt64, with sqrt32 for a number whose upper half is zero.
sqrt(num) == IF num < Pow2(AccBits \div 2) THEN Root(num, AccBits \div 2) ELSE Root(num, AccBits)

Nearest(num) == CHOOSE r \in 0 .. num : num <= r * r + r /\ (r > 0 => num > r * r - r)

-----------------------------------------------------------------------------
\* Mutant: the signal's part is added to the whole estimate.
Gathered(scaled, estimate, smoothing) ==
  ((scaled * smoothing + estimate * Pow2(SmoothBits)) \div Pow2(SmoothBits)) % Pow2(SignalBits)

Smoothed(scaled, estimate, smoothing) ==
  ((scaled * smoothing + estimate * (Pow2(SmoothBits) - smoothing)) \div Pow2(SmoothBits)) % Pow2(SignalBits)

noiseFloor(signal, minRemaining) == (signal * minRemaining) \div Pow2(SmoothBits)

\* The estimate and the signal after one frame, in one channel.
\* nr has the smoothing factor of the channel, the smoothing bits and the least share that remains.
noiseReduction(nr, signal, estimate) ==
  LET scaled == (signal * Pow2(nr.bits)) % Pow2(SignalBits)
      noise  == Smoothed(scaled, estimate, nr.smoothing)
      heard  == IF noise > scaled THEN scaled ELSE noise
      subtracted == (scaled - heard) \div Pow2(nr.bits)
      floor  == noiseFloor(signal, nr.minRemaining)
  IN [estimate |-> noise, signal |-> IF subtracted > floor THEN subtracted ELSE floor]

\* Frame after frame, from no estimate.
Frames(nr, signals) ==
  LET frames[i \in 1 .. Len(signals)] ==
        noiseReduction(nr, signals[i], IF i = 1 THEN 0 ELSE frames[i - 1].estimate)
  IN frames

-----------------------------------------------------------------------------
(* The gain between x0 = 2^(interval-1) and 2*x0, from the gains at x0, in *)
(* the middle and at the end.  Gains have 16 bits, a fraction 10.          *)

\* Mutant: a chord, without the curvature.
Chord(y) == <<y[1], y[3] - y[1], 0>>

Segment(y) ==
  LET diff1 == y[2] - y[1]
      diff2 == y[3] - y[1]
      a1    == 4 * diff1 - diff2
  IN <<y[1], Signed(a1, 16), Signed(diff2 - a1, 16)>>

frac(x, interval) == IF interval < 11 THEN (x * Pow2(11 - interval)) % 1024 ELSE (x \div Pow2(interval - 11)) % 1024

wideDynamicFunction(x, interval, lut) ==
  LET f == frac(x, interval)
      slope == (lut[3] * f) \div 32 + lut[2] * 32
  IN Signed((slope * f + Pow2(14)) \div Pow2(15) + lut[1], 16)
=============================================================================
