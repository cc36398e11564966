--------------------------- MODULE RoutinesProofs ---------------------------
(***************************************************************************)
(* What the routines compute, for words of every size and all arguments of *)
(* the types that CallsAssumption states.                                  *)
(***************************************************************************)
EXTENDS Routines, SequenceTheorems, WellFoundedInduction, TLAPS

-----------------------------------------------------------------------------
(* Induction, and functions defined by it. *)

\* Induction over 0 .. n, for a set.
LEMMA EveryPlace ==
  ASSUME NEW n \in Nat, NEW S \in SUBSET (0 .. n), 0 \in S, \A k \in 1 .. n : k - 1 \in S => k \in S
  PROVE  \A k \in 0 .. n : k \in S
<1> DEFINE Missing == {k \in 0 .. n : k \notin S}
<1> SUFFICES ASSUME Missing # {} PROVE FALSE
  OBVIOUS
<1>1. Missing \subseteq Nat
  OBVIOUS
<1>2. PICK k \in Missing : \A j \in Missing : ~ (<<j, k>> \in OpToRel(<, Nat))
  BY <1>1, NatLessThanWellFounded, WFMin
<1>3. k \in 0 .. n /\ k # 0 /\ k \notin S
  BY <1>2
<1> HIDE DEF Missing
<1>4. k \in 1 .. n /\ k - 1 \in 0 .. n /\ k - 1 \in Nat /\ k \in Nat /\ k - 1 < k
  BY <1>3
<1>5. k - 1 \notin S
  BY <1>3, <1>4
<1>6. k - 1 \in Missing
  BY <1>4, <1>5 DEF Missing
<1> QED
  BY <1>2, <1>4, <1>6 DEF OpToRel

\* f starts at v, and each further value is what g makes of the one before.
Folds(f, n, v, g) == f[0] = v /\ \A i \in 1 .. n : f[i] = g[<<i, f[i - 1]>>]

\* Such a function exists, and its values stay in the set that g maps into.
LEMMA FoldExists ==
  ASSUME NEW n \in Nat, NEW V, NEW v \in V, NEW g \in [(1 .. n) \X V -> V]
  PROVE  \E f \in [0 .. n -> V] : Folds(f, n, v, g)
<1> DEFINE Steps(f, k) == f[0] = v /\ \A i \in 1 .. k : f[i] = g[<<i, f[i - 1]>>]
           S == {k \in 0 .. n : \E f \in [0 .. n -> V] : Steps(f, k)}
<1>1. 0 \in S
  <2>1. [i \in 0 .. n |-> v] \in [0 .. n -> V] /\ Steps([i \in 0 .. n |-> v], 0)
    OBVIOUS
  <2> HIDE DEF Steps
  <2> QED
    BY <2>1
<1>2. ASSUME NEW k \in 1 .. n, k - 1 \in S
      PROVE  k \in S
  <2>1. PICK f \in [0 .. n -> V] : Steps(f, k - 1)
    BY <1>2
  <2>2. k \in 0 .. n /\ k - 1 \in 0 .. n /\ k # 0
    OBVIOUS
  <2>3. f[k - 1] \in V /\ <<k, f[k - 1]>> \in (1 .. n) \X V
    BY <2>1, <2>2
  <2> DEFINE w == g[<<k, f[k - 1]>>]
             h == [f EXCEPT ![k] = w]
  <2>4. w \in V
    BY <2>3
  <2> HIDE DEF w
  <2>5. h \in [0 .. n -> V] /\ h[k] = w /\ \A i \in 0 .. n : i # k => h[i] = f[i]
    BY <2>2, <2>4
  <2> HIDE DEF h
  <2>6. h[0] = v
    BY <2>1, <2>2, <2>5
  <2>7. ASSUME NEW i \in 1 .. k
        PROVE  h[i] = g[<<i, h[i - 1]>>]
    <3>1. i - 1 \in 0 .. n /\ i - 1 # k /\ h[i - 1] = f[i - 1]
      BY <2>5
    <3>2. CASE i = k
      BY <2>5, <3>1, <3>2 DEF w
    <3>3. CASE i # k
      <4>1. i \in 1 .. k - 1 /\ i \in 0 .. n
        BY <3>3
      <4>2. f[i] = g[<<i, f[i - 1]>>]
        BY <2>1, <4>1
      <4> QED
        BY <2>5, <3>1, <3>3, <4>1, <4>2
    <3> QED
      BY <3>2, <3>3
  <2>8. Steps(h, k)
    BY <2>6, <2>7
  <2> HIDE DEF Steps
  <2> QED
    BY <2>2, <2>5, <2>8
<1>3. n \in S
  <2>1. S \in SUBSET (0 .. n) /\ n \in 0 .. n
    OBVIOUS
  <2> HIDE DEF S
  <2> QED
    BY <1>1, <1>2, <2>1, EveryPlace
<1> QED
  BY <1>3 DEF Folds

-----------------------------------------------------------------------------
(* Powers of two. *)

IsPow(f, n) == f = [i \in 0 .. n |-> IF i = 0 THEN 1 ELSE 2 * f[i - 1]]

\* The function that Pow2 chooses exists.
LEMMA PowExists ==
  ASSUME NEW n \in Nat
  PROVE  \E f \in [0 .. n -> Int] : IsPow(f, n)
<1> DEFINE g == [p \in (1 .. n) \X Int |-> 2 * p[2]]
<1>1. g \in [(1 .. n) \X Int -> Int]
  OBVIOUS
<1>2. PICK f \in [0 .. n -> Int] : f[0] = 1 /\ \A i \in 1 .. n : f[i] = g[<<i, f[i - 1]>>]
  <2> DEFINE V == Int
             v == 1
  <2>1. v \in V /\ g \in [(1 .. n) \X V -> V]
    BY <1>1
  <2> HIDE DEF g, V, v
  <2>2. \E f \in [0 .. n -> V] : Folds(f, n, v, g)
    BY <2>1, FoldExists
  <2> QED
    BY <2>2 DEF V, v, Folds
<1>3. ASSUME NEW i \in 1 .. n
      PROVE  f[i] = 2 * f[i - 1]
  <2>1. i - 1 \in 0 .. n
    OBVIOUS
  <2>2. <<i, f[i - 1]>> \in (1 .. n) \X Int
    BY <2>1
  <2> QED
    BY <1>2, <2>2
<1>4. \A i \in 0 .. n : f[i] = IF i = 0 THEN 1 ELSE 2 * f[i - 1]
  BY <1>2, <1>3
<1> QED
  BY <1>4 DEF IsPow

\* The function of a larger domain goes on.
LEMMA PowsAgree ==
  ASSUME NEW m \in Nat, NEW n \in Nat, m <= n, NEW f, NEW g, IsPow(f, m), IsPow(g, n)
  PROVE  f[m] = g[m]
<1> DEFINE S == {k \in 0 .. m : f[k] = g[k]}
<1>1. /\ f[0] = 1 /\ \A i \in 1 .. m : f[i] = 2 * f[i - 1]
      /\ g[0] = 1 /\ \A i \in 1 .. m : g[i] = 2 * g[i - 1]
  <2>1. \A i \in 0 .. m : f[i] = IF i = 0 THEN 1 ELSE 2 * f[i - 1]
    BY DEF IsPow
  <2>2. \A i \in 0 .. n : g[i] = IF i = 0 THEN 1 ELSE 2 * g[i - 1]
    BY DEF IsPow
  <2> QED
    BY <2>1, <2>2
<1>2. 0 \in S
  BY <1>1
<1>3. ASSUME NEW k \in 1 .. m, k - 1 \in S
      PROVE  k \in S
  BY <1>1, <1>3
<1>4. S \in SUBSET (0 .. m)
  OBVIOUS
<1> HIDE DEF S
<1>5. \A k \in 0 .. m : k \in S
  BY <1>2, <1>3, <1>4, EveryPlace
<1> QED
  BY <1>5 DEF S

\* The equations of Pow2.
LEMMA PowSteps ==
  /\ Pow2(0) = 1
  /\ \A n \in Nat : Pow2(n) \in Int /\ Pow2(n + 1) = 2 * Pow2(n)
<1> DEFINE pow(n) == CHOOSE f : IsPow(f, n)
<1>1. ASSUME NEW n \in Nat
      PROVE  /\ IsPow(pow(n), n) /\ Pow2(n) = pow(n)[n]
             /\ n > 0 => pow(n)[n] = 2 * pow(n)[n - 1]
             /\ pow(n)[0] = 1 /\ Pow2(n) \in Int
  <2>1. PICK f \in [0 .. n -> Int] : IsPow(f, n)
    BY PowExists
  <2>2. IsPow(pow(n), n)
    BY <2>1
  <2>3. Pow2(n) = pow(n)[n]
    BY DEF Pow2, IsPow
  <2>4. \A i \in 0 .. n : pow(n)[i] = IF i = 0 THEN 1 ELSE 2 * pow(n)[i - 1]
    <3> DEFINE q == pow(n)
    <3>1. IsPow(q, n)
      BY <2>2
    <3> HIDE DEF q
    <3>2. \A i \in 0 .. n : q[i] = IF i = 0 THEN 1 ELSE 2 * q[i - 1]
      BY <3>1 DEF IsPow
    <3> QED
      BY <3>2 DEF q
  <2> HIDE DEF pow
  <2>5. f[n] = pow(n)[n] /\ f[n] \in Int
    BY <2>1, <2>2, PowsAgree
  <2> QED
    BY <2>2, <2>3, <2>4, <2>5
<1> HIDE DEF pow
<1>2. Pow2(0) = 1
  BY <1>1
<1>3. ASSUME NEW n \in Nat
      PROVE  Pow2(n + 1) = 2 * Pow2(n)
  <2>1. n + 1 \in Nat /\ n <= n + 1 /\ n + 1 > 0 /\ (n + 1) - 1 = n
    OBVIOUS
  <2>2. pow(n)[n] = pow(n + 1)[n]
    BY <1>1, <2>1, PowsAgree
  <2>3. pow(n + 1)[n + 1] = 2 * pow(n + 1)[(n + 1) - 1] /\ Pow2(n + 1) = pow(n + 1)[n + 1]
    BY <1>1, <2>1
  <2> QED
    BY <1>1, <2>1, <2>2, <2>3
<1> QED
  BY <1>1, <1>2, <1>3

\* A power is positive, and the powers rise.
LEMMA PowsRise ==
  ASSUME NEW n \in Nat
  PROVE  Pow2(n) \in Nat \ {0} /\ \A k \in 0 .. n : Pow2(k) \in Nat \ {0} /\ Pow2(k) <= Pow2(n)
<1> DEFINE S == {m \in 0 .. n : \A k \in 0 .. m : Pow2(k) \in Nat \ {0} /\ Pow2(k) <= Pow2(m)}
<1>1. 0 \in S
  BY PowSteps
<1>2. ASSUME NEW m \in 1 .. n, m - 1 \in S
      PROVE  m \in S
  <2>1. m - 1 \in Nat /\ (m - 1) + 1 = m
    OBVIOUS
  <2>2. Pow2(m) = 2 * Pow2(m - 1)
    BY <2>1, PowSteps
  <2>3. Pow2(m - 1) \in Nat \ {0} /\ \A k \in 0 .. m - 1 : Pow2(k) \in Nat \ {0} /\ Pow2(k) <= Pow2(m - 1)
    BY <1>2, <2>1
  <2>4. ASSUME NEW k \in 0 .. m
        PROVE  Pow2(k) \in Nat \ {0} /\ Pow2(k) <= Pow2(m)
    <3>1. CASE k = m
      BY <2>2, <2>3, <3>1
    <3>2. CASE k # m
      BY <2>2, <2>3, <3>2
    <3> QED
      BY <3>1, <3>2
  <2> QED
    BY <2>4
<1>3. S \in SUBSET (0 .. n)
  OBVIOUS
<1> HIDE DEF S
<1>4. n \in S
  BY <1>1, <1>2, <1>3, EveryPlace
<1> QED
  BY <1>4 DEF S

-----------------------------------------------------------------------------
(* The construction of a detector. *)

\* A quotient compares with a number as the numerator with its multiple.
LEMMA QuotientCompares ==
  ASSUME NEW a \in Int, NEW b \in Nat \ {0}, NEW x \in Int
  PROVE  x > a \div b <=> x * b > a
<1> DEFINE q == a \div b
           r == a % b
<1>1. q \in Int /\ r \in 0 .. b - 1 /\ a = b * q + r
  OBVIOUS
<1> HIDE DEF q, r
<1>2. CASE x > q
  <2>1. x - q - 1 \in Nat
    BY <1>1, <1>2
  <2> DEFINE e == x - q - 1
  <2>2. e * b >= 0 /\ x = q + 1 + e
    BY <1>1, <2>1
  <2>3. e \in Int /\ (q + 1 + e) * b = b * q + b + e * b
    BY <1>1, <2>1
  <2> HIDE DEF e
  <2>4. x * b = b * q + b + e * b
    BY <2>2, <2>3
  <2>5. b * q \in Int /\ e * b \in Int
    BY <1>1, <2>3
  <2>6. x * b > a
    BY <1>1, <2>2, <2>4, <2>5
  <2> QED
    BY <1>2, <2>6 DEF q
<1>3. CASE ~ (x > q)
  <2> DEFINE e == q - x
  <2>1. e \in Nat /\ q = x + e
    BY <1>1, <1>3
  <2>2. b * (x + e) = x * b + e * b /\ e * b >= 0 /\ x * b \in Int /\ e * b \in Int
    BY <2>1
  <2> HIDE DEF e
  <2>3. ~ (x * b > a)
    BY <1>1, <2>1, <2>2
  <2> QED
    BY <1>3, <2>3 DEF q
<1> QED
  BY <1>2, <1>3

\* What has been returned is the result of the call, whose arguments are as
\* they should be.
RoutinesInv == call \in Calls /\ (result # << >> => result = <<Result(call)>>)

\* RoutinesInv is inductive as it stands.
LEMMA ReturnsResult == Spec => []RoutinesInv
<1>1. Init => RoutinesInv
  BY DEF Init, RoutinesInv
<1>2. RoutinesInv /\ [Return]_routineVars => RoutinesInv'
  <2> HIDE DEF Result
  <2>1. ASSUME call' = call
        PROVE  Result(call)' = Result(call)
    BY <2>1 DEF Result
  <2> QED
    BY <2>1 DEF RoutinesInv, Return, routineVars
<1> QED
  BY <1>1, <1>2, PTL DEF Spec

-----------------------------------------------------------------------------
\* An output is decided by the cutoff that a cutoff in range becomes, which is a
\* possible output itself.
LEMMA CutoffDecides ==
  ASSUME NEW p \in 1 .. Parts
  PROVE  /\ CutoffUint8(p) \in 0 .. MaxOutput
         /\ \A output \in 0 .. MaxOutput : output > CutoffUint8(p) <=> output * Parts > p * MaxOutput
<1> DEFINE a == p * MaxOutput
           v == a \div Parts
<1>1. p \in Nat /\ Parts \in Nat \ {0} /\ MaxOutput \in Nat /\ p <= Parts
  BY ConstructionAssumption
<1>2. a \in Nat
  BY <1>1
<1>3. MaxOutput * Parts >= a
  <2> DEFINE e == Parts - p
  <2>1. e \in Nat /\ Parts = p + e
    BY <1>1
  <2> HIDE DEF e
  <2>2. MaxOutput * (p + e) = p * MaxOutput + e * MaxOutput /\ e * MaxOutput \in Nat
    BY <1>1, <2>1
  <2> QED
    BY <1>1, <2>1, <2>2
<1>4. CutoffUint8(p) = IF v < 0 THEN 0 ELSE IF v > MaxOutput THEN MaxOutput ELSE v
  BY DEF CutoffUint8
<1> HIDE DEF a
<1>5. v \in Int /\ \A x \in Int : x > v <=> x * Parts > a
  <2>1. v \in Int
    BY <1>1, <1>2
  <2> QED
    BY <1>1, <1>2, <2>1, QuotientCompares
<1> HIDE DEF v
<1>6. ~ (v < 0)
  <2>1. 0 \in Int /\ ~ (0 * Parts > a)
    BY <1>1, <1>2
  <2>2. ~ (0 > v)
    BY <1>5, <2>1
  <2> QED
    BY <1>5, <2>2
<1>7. ~ (v > MaxOutput)
  <2> SUFFICES ASSUME v > MaxOutput PROVE FALSE
    OBVIOUS
  <2> DEFINE x == MaxOutput + 1
  <2>1. x \in Int /\ x * Parts = MaxOutput * Parts + Parts /\ MaxOutput * Parts \in Int
    BY <1>1
  <2> HIDE DEF x
  <2>2. x * Parts > a
    BY <1>1, <1>2, <1>3, <2>1
  <2>3. x > v
    BY <1>5, <2>1, <2>2
  <2> QED
    BY <1>1, <1>5, <2>3 DEF x
<1>8. CutoffUint8(p) = v /\ v \in 0 .. MaxOutput
  BY <1>1, <1>4, <1>5, <1>6, <1>7
<1> QED
  BY <1>5, <1>8 DEF a

\* A model with the settings that were accepted: in range, and deciding each output.
SetUp(m, model, cutoff, window) ==
  /\ cutoff \in 1 .. Parts /\ window >= 1
  /\ m.cutoff \in 0 .. MaxOutput
  /\ \A output \in 0 .. MaxOutput : output > m.cutoff <=> output * Parts > cutoff * MaxOutput
  /\ m.window = window
  /\ m.stride = model.in.shape[2] /\ m.stride >= 1
  /\ featureSize(model) = NumChannels

\* Settings and a model that the code accepts make such a streaming model.
LEMMA AcceptedIsSetUp ==
  ASSUME NEW model, ScorerOK(model), featureSize(model) = NumChannels,
         NEW cutoff \in Int, NEW window \in Int, SettingsOK(cutoff, window)
  PROVE  SetUp(Streaming(model, cutoff, window), model, cutoff, window)
<1> DEFINE m == Streaming(model, cutoff, window)
<1>1. m.cutoff = CutoffUint8(cutoff) /\ m.window = window /\ m.stride = model.in.shape[2]
  BY DEF Streaming
<1>2. cutoff \in 1 .. Parts /\ window >= 1
  BY ConstructionAssumption DEF SettingsOK, InUnit
<1>3. model.in.shape[2] >= 1
  BY DEF ScorerOK
<1> HIDE DEF m
<1>4. /\ m.cutoff \in 0 .. MaxOutput
      /\ \A output \in 0 .. MaxOutput : output > m.cutoff <=> output * Parts > cutoff * MaxOutput
  BY <1>1, <1>2, CutoffDecides
<1>5. SetUp(m, model, cutoff, window)
  BY <1>1, <1>2, <1>3, <1>4 DEF SetUp
<1> QED
  BY <1>5 DEF m

\* A detector's models have each its own settings, an option before the manifest, its own
\* stride and the frontend's features, and fire exactly at a greater share of MaxOutput than
\* the cutoff that applies, for every resolution of outputs and cutoffs.  All settings that
\* apply and all of the manifests' own are in range, whatever integers were given.
THEOREM DetectorsUseTheirSettings == Spec => []SettingsDecide
<1>1. RoutinesInv => SettingsDecide
  <2> DEFINE opts == call.opts
             r == NewDetector(call.cfg, call.model, opts)
             cutoff == Overridden(opts.cutoff, call.cfg.cutoff)
             window == Overridden(opts.window, call.cfg.window)
             vadCutoff == Overridden(opts.vadCutoff, opts.vadConfig.cutoff)
             vadWindow == Overridden(opts.vadWindow, opts.vadConfig.window)
             hasVad == opts.vadModel # Nothing
  <2> SUFFICES ASSUME RoutinesInv, Returned("detector"), result[1].kind = "ok"
               PROVE  SettingsDecide
    BY DEF SettingsDecide
  <2>1. call \in Calls /\ result = <<Result(call)>> /\ call.routine = "detector"
    BY DEF RoutinesInv, Returned
  <2>2. result[1] = r
    BY <2>1 DEF Result
  <2>3. r.kind = "ok"
    BY <2>2
  <2>4. /\ ManifestOK(call.cfg) /\ ScorerOK(call.model)
        /\ hasVad => ManifestOK(opts.vadConfig) /\ ScorerOK(opts.vadModel) /\ opts.vadConfig # Nothing
        /\ r = newDetector(call.cfg, call.model, opts.vadConfig, opts.vadModel, opts)
    BY <2>3 DEF NewDetector, Failed
  <2>5. /\ featureSize(call.model) = NumChannels /\ SettingsOK(cutoff, window)
        /\ hasVad => featureSize(opts.vadModel) = NumChannels /\ SettingsOK(vadCutoff, vadWindow)
        /\ r.model = Streaming(call.model, cutoff, window)
        /\ r.vad = IF hasVad THEN Streaming(opts.vadModel, vadCutoff, vadWindow) ELSE Nothing
    <3> HIDE DEF r
    <3> QED
      BY <2>3, <2>4 DEF newDetector, Failed
  <2>6. /\ opts.cutoff \in Int /\ opts.window \in Int /\ opts.vadCutoff \in Int /\ opts.vadWindow \in Int
        /\ \A m \in {call.cfg} \cup ({opts.vadConfig} \ {Nothing}) : m.cutoff \in Int /\ m.window \in Int
    BY <2>1, CallsAssumption DEF ArgumentsOK
  <2>7. /\ call.cfg.cutoff \in Int /\ call.cfg.window \in Int
        /\ hasVad => opts.vadConfig.cutoff \in Int /\ opts.vadConfig.window \in Int
    BY <2>4, <2>6
  <2>8. /\ cutoff = (IF opts.cutoff # 0 THEN opts.cutoff ELSE call.cfg.cutoff)
        /\ window = (IF opts.window # 0 THEN opts.window ELSE call.cfg.window)
        /\ vadCutoff = (IF opts.vadCutoff # 0 THEN opts.vadCutoff ELSE opts.vadConfig.cutoff)
        /\ vadWindow = (IF opts.vadWindow # 0 THEN opts.vadWindow ELSE opts.vadConfig.window)
    BY DEF Overridden
  <2> HIDE DEF r, opts, hasVad, cutoff, window, vadCutoff, vadWindow
  <2>9. /\ call.cfg.cutoff \in 1 .. Parts /\ call.cfg.window >= 1
        /\ hasVad => opts.vadConfig.cutoff \in 1 .. Parts /\ opts.vadConfig.window >= 1
    BY <2>4, <2>7, ConstructionAssumption DEF ManifestOK, InUnit
  <2>10. SetUp(r.model, call.model, cutoff, window)
    <3>1. cutoff \in Int /\ window \in Int
      BY <2>6, <2>7, <2>8
    <3> QED
      BY <2>4, <2>5, <3>1, AcceptedIsSetUp
  <2>11. hasVad => SetUp(r.vad, opts.vadModel, vadCutoff, vadWindow)
    <3> SUFFICES ASSUME hasVad PROVE SetUp(r.vad, opts.vadModel, vadCutoff, vadWindow)
      OBVIOUS
    <3>1. vadCutoff \in Int /\ vadWindow \in Int
      BY <2>6, <2>7, <2>8
    <3> QED
      BY <2>4, <2>5, <3>1, AcceptedIsSetUp
  <2>12. (r.vad = Nothing) = (opts.vadModel = Nothing)
    <3>1. ASSUME NEW m, NEW c, NEW w
          PROVE  Streaming(m, c, w) # Nothing
      <4>1. "cutoff" \in DOMAIN Streaming(m, c, w) /\ "cutoff" \notin DOMAIN Nothing
        BY DEF Streaming, Nothing
      <4> QED
        BY <4>1
    <3> QED
      BY <2>5, <3>1 DEF hasVad
  <2> QED
    BY <2>2, <2>8, <2>9, <2>10, <2>11, <2>12 DEF SettingsDecide, SetUp, opts, hasVad
<1> QED
  BY ReturnsResult, <1>1, PTL
-----------------------------------------------------------------------------
(* The noise estimate. *)

\* A quotient is between the numbers whose multiples the numerator is between.
LEMMA QuotientBetween ==
  ASSUME NEW a \in Int, NEW b \in Nat \ {0}, NEW lo \in Int, NEW hi \in Int, lo * b <= a, a <= hi * b
  PROVE  a \div b \in lo .. hi
<1>1. a \div b \in Int
  OBVIOUS
<1>2. lo * b \in Int /\ hi * b \in Int /\ (hi + 1) * b = hi * b + b /\ hi + 1 \in Int
  OBVIOUS
<1>3. ~ (lo > a \div b)
  <2>1. ~ (lo * b > a)
    BY <1>2
  <2> QED
    BY <2>1, QuotientCompares
<1>4. hi + 1 > a \div b
  <2>1. (hi + 1) * b > a
    BY <1>2
  <2> QED
    BY <1>2, <2>1, QuotientCompares
<1> QED
  BY <1>1, <1>3, <1>4

\* A weighted mean of integers, rounded down, is between them.
LEMMA MeanBetween ==
  ASSUME NEW x \in Nat, NEW y \in Nat, NEW T \in Nat \ {0}, NEW s \in 0 .. T
  PROVE  LET q == (x * s + y * (T - s)) \div T
         IN q \in Nat /\ ((y <= q /\ q <= x) \/ (x <= q /\ q <= y))
<1> DEFINE num == x * s + y * (T - s)
<1>1. x * s \in Int /\ y * (T - s) \in Int /\ num \in Int /\ y * (T - s) = y * T - y * s
  OBVIOUS
<1>2. CASE y <= x
  <2> DEFINE d == x - y
  <2>1. d \in Nat /\ x = y + d
    BY <1>2
  <2>2. (y + d) * s = y * s + d * s /\ (y + d) * T = y * T + d * T /\ y * s \in Int /\ y * T \in Int
    BY <2>1
  <2>3. d * s \in Int /\ d * T \in Int /\ 0 <= d * s /\ d * s <= d * T
    <3>1. T - s \in Nat /\ d * T = d * s + d * (T - s) /\ d * s \in Nat
      BY <2>1
    <3>2. d * (T - s) \in Nat
      BY <2>1, <3>1
    <3> QED
      BY <3>1, <3>2
  <2> HIDE DEF d
  <2>4. num = y * T + d * s
    BY <1>1, <2>1, <2>2, <2>3
  <2>5. y * T <= num /\ num <= x * T
    BY <2>1, <2>2, <2>3, <2>4
  <2> HIDE DEF num
  <2>6. num \div T \in y .. x
    BY <1>1, <2>5, QuotientBetween
  <2> QED
    BY <2>6 DEF num
<1>3. CASE ~ (y <= x)
  <2> DEFINE d == y - x
             r == T - s
  <2>1. d \in Nat /\ y = x + d /\ r \in Nat /\ T = r + s
    BY <1>3
  <2>2. (x + d) * r = x * r + d * r /\ x * (r + s) = x * r + x * s /\ x * s \in Int /\ x * r \in Int
    BY <2>1
  <2>3. d * r \in Nat /\ d * s \in Nat /\ d * (r + s) = d * r + d * s
    BY <2>1
  <2>4. (x + d) * (r + s) = x * (r + s) + d * (r + s)
    BY <2>1
  <2>5. num = x * s + y * r
    OBVIOUS
  <2> HIDE DEF d, r, num
  <2>6. num = x * (r + s) + d * r
    BY <2>1, <2>2, <2>3, <2>5
  <2>7. x * T = x * (r + s) /\ y * T = x * (r + s) + (d * r + d * s) /\ x * (r + s) \in Int
    BY <2>1, <2>2, <2>3, <2>4
  <2>8. x * T <= num /\ num <= y * T
    BY <2>3, <2>6, <2>7
  <2>9. num \div T \in x .. y
    BY <1>1, <2>8, QuotientBetween
  <2> QED
    BY <2>9 DEF num
<1> QED
  BY <1>2, <1>3

\* A share of a signal is at most all of it.
LEMMA ShareBelow ==
  ASSUME NEW x \in Nat, NEW T \in Nat \ {0}, NEW s \in 0 .. T
  PROVE  (x * s) \div T \in 0 .. x
<1>1. x * s \in Nat /\ x * (T - s) \in Nat /\ x * T = x * s + x * (T - s)
  OBVIOUS
<1>2. 0 * T <= x * s /\ x * s <= x * T
  BY <1>1
<1> QED
  BY <1>1, <1>2, QuotientBetween

NoiseOK(nr) ==
  /\ nr.bits \in Nat
  /\ nr.smoothing \in 0 .. Pow2(SmoothBits) /\ nr.minRemaining \in 0 .. Pow2(SmoothBits)

Reduced == [estimate : 0 .. Pow2(SignalBits) - 1, signal : Nat]

\* One frame: what NoiseBounded says of it.
LEMMA NoiseReduced ==
  ASSUME NEW nr, NoiseOK(nr), NEW x \in Nat, NEW estimate \in 0 .. Pow2(SignalBits) - 1
  PROVE  LET r == noiseReduction(nr, x, estimate)
             scaled == x * Pow2(nr.bits)
         IN /\ r \in Reduced
            /\ r.signal <= x /\ r.signal >= noiseFloor(x, nr.minRemaining)
            /\ scaled < Pow2(SignalBits) =>
                 \/ estimate <= r.estimate /\ r.estimate <= scaled
                 \/ scaled <= r.estimate /\ r.estimate <= estimate
<1> DEFINE T == Pow2(SmoothBits)
           M == Pow2(SignalBits)
           B == Pow2(nr.bits)
           full == x * B
           scaled == full % M
           mean == (scaled * nr.smoothing + estimate * (T - nr.smoothing)) \div T
           noise == mean % M
           heard == IF noise > scaled THEN scaled ELSE noise
           subtracted == (scaled - heard) \div B
           floor == noiseFloor(x, nr.minRemaining)
           r == noiseReduction(nr, x, estimate)
<1>1. /\ T \in Nat \ {0} /\ M \in Nat \ {0} /\ B \in Nat \ {0}
      /\ nr.smoothing \in 0 .. T /\ nr.minRemaining \in 0 .. T /\ estimate \in 0 .. M - 1
  BY StagesAssumption, PowsRise DEF NoiseOK
<1>2. r = [estimate |-> noise, signal |-> IF subtracted > floor THEN subtracted ELSE floor]
  BY DEF noiseReduction, Smoothed
<1>3. floor \in 0 .. x
  BY <1>1, ShareBelow DEF noiseFloor
<1> HIDE DEF r, T, M, B, floor
<1>4. full \in Nat
  BY <1>1
<1>5. scaled \in 0 .. M - 1 /\ scaled <= full /\ (full < M => scaled = full)
  <2> HIDE DEF full
  <2>1. full % M \in 0 .. M - 1 /\ full = M * (full \div M) + (full % M) /\ full \div M \in Int
    BY <1>1, <1>4
  <2>2. full \div M \in Nat
    <3>1. 0 * M <= full
      BY <1>1, <1>4
    <3>2. ~ (0 > full \div M)
      BY <1>1, <1>4, <3>1, QuotientCompares
    <3> QED
      BY <2>1, <3>2
  <2>3. M * (full \div M) \in Nat
    BY <1>1, <2>2
  <2>4. full < M => full % M = full
    BY <1>1, <1>4
  <2>5. full % M \in 0 .. M - 1 /\ full % M <= full /\ (full < M => full % M = full)
    BY <1>4, <2>1, <2>3, <2>4
  <2> QED
    BY <2>5
<1> HIDE DEF full, scaled
<1>6. mean \in Nat /\ ((estimate <= mean /\ mean <= scaled) \/ (scaled <= mean /\ mean <= estimate))
  <2>1. scaled \in Nat /\ estimate \in Nat
    BY <1>1, <1>5
  <2> QED
    BY <1>1, <2>1, MeanBetween
<1> HIDE DEF mean
<1>7. noise = mean /\ noise \in 0 .. M - 1
  <2>1. mean < M
    BY <1>1, <1>5, <1>6
  <2> QED
    BY <1>1, <1>6, <2>1
<1> HIDE DEF noise
<1>8. scaled - heard \in Nat /\ scaled - heard <= scaled
  BY <1>1, <1>5, <1>7
<1> HIDE DEF heard
<1>9. subtracted \in 0 .. x
  <2> DEFINE left == scaled - heard
  <2>1. left \in Int /\ 0 * B <= left /\ left <= x * B
    BY <1>1, <1>4, <1>5, <1>8 DEF full
  <2> HIDE DEF left
  <2>2. left \div B \in 0 .. x
    BY <1>1, <2>1, QuotientBetween
  <2> QED
    BY <2>2 DEF left
<1> HIDE DEF subtracted
<1>10. r.estimate = noise /\ r.signal = (IF subtracted > floor THEN subtracted ELSE floor)
  BY <1>2
<1>11. r \in Reduced
  BY <1>2, <1>3, <1>7, <1>9 DEF Reduced, M
<1>12. r.signal <= x /\ r.signal >= floor
  BY <1>3, <1>9, <1>10
<1>13. full < M =>
         \/ estimate <= r.estimate /\ r.estimate <= full
         \/ full <= r.estimate /\ r.estimate <= estimate
  BY <1>5, <1>6, <1>7, <1>10
<1> QED
  BY <1>11, <1>12, <1>13 DEF r, M, B, full, floor

\* The equations of Frames.
LEMMA FramesSteps ==
  ASSUME NEW nr, NoiseOK(nr), NEW signals \in Seq(Nat)
  PROVE  LET frames == Frames(nr, signals)
         IN \A i \in 1 .. Len(signals) :
              /\ frames[i] = noiseReduction(nr, signals[i], IF i = 1 THEN 0 ELSE frames[i - 1].estimate)
              /\ frames[i] \in Reduced
<1> DEFINE n == Len(signals)
           Is(f) == f = [i \in 1 .. n |-> noiseReduction(nr, signals[i], IF i = 1 THEN 0 ELSE f[i - 1].estimate)]
           P1 == CHOOSE f : Is(f)
           g == [p \in (1 .. n) \X Reduced |-> noiseReduction(nr, signals[p[1]], p[2].estimate)]
           quiet == [estimate |-> 0, signal |-> 0]
<1>1. n \in Nat /\ \A i \in 1 .. n : signals[i] \in Nat
  OBVIOUS
<1>2. quiet \in Reduced /\ \A r \in Reduced : r.estimate \in 0 .. Pow2(SignalBits) - 1
  <2>1. Pow2(SignalBits) \in Nat \ {0}
    BY StagesAssumption, PowsRise
  <2> QED
    BY <2>1 DEF Reduced
<1>3. ASSUME NEW i \in 1 .. n, NEW estimate \in 0 .. Pow2(SignalBits) - 1
      PROVE  noiseReduction(nr, signals[i], estimate) \in Reduced
  BY <1>1, NoiseReduced
<1>4. \E f \in [0 .. n -> Reduced] : f[0] = quiet /\ \A i \in 1 .. n : f[i] = g[<<i, f[i - 1]>>]
  <2>1. g \in [(1 .. n) \X Reduced -> Reduced]
    BY <1>2, <1>3
  <2> HIDE DEF g, n, quiet
  <2>2. \E f \in [0 .. n -> Reduced] : Folds(f, n, quiet, g)
    BY <1>1, <1>2, <2>1, FoldExists
  <2> QED
    BY <2>2 DEF Folds
<1>5. PICK f \in [0 .. n -> Reduced] : f[0] = quiet /\ \A i \in 1 .. n : f[i] = g[<<i, f[i - 1]>>]
  BY <1>4
<1>6. \E h : Is(h)
  <2> DEFINE h == [i \in 1 .. n |-> f[i]]
  <2>1. ASSUME NEW i \in 1 .. n
        PROVE  h[i] = noiseReduction(nr, signals[i], IF i = 1 THEN 0 ELSE h[i - 1].estimate)
    <3>1. <<i, f[i - 1]>> \in (1 .. n) \X Reduced
      <4>1. i - 1 \in 0 .. n
        BY <1>1
      <4> HIDE DEF n
      <4>2. f[i - 1] \in Reduced
        BY <4>1
      <4> QED
        BY <4>2
    <3>2. f[i] = noiseReduction(nr, signals[i], f[i - 1].estimate)
      BY <1>5, <3>1
    <3>3. f[i - 1].estimate = IF i = 1 THEN 0 ELSE h[i - 1].estimate
      <4>1. CASE i = 1
        BY <1>5, <4>1
      <4>2. CASE i # 1
        BY <4>2
      <4> QED
        BY <4>1, <4>2
    <3> QED
      BY <3>2, <3>3
  <2>2. Is(h)
    BY <2>1
  <2> HIDE DEF h, Is
  <2> QED
    BY <2>2
<1>7. Is(P1)
  <2> HIDE DEF Is
  <2> QED
    BY <1>6
<1>8. Frames(nr, signals) = P1
  BY DEF Frames
<1> HIDE DEF P1
<1>9. \A i \in 1 .. n : P1[i] = noiseReduction(nr, signals[i], IF i = 1 THEN 0 ELSE P1[i - 1].estimate)
  BY <1>7
<1>10. \A i \in 0 .. n : i # 0 => P1[i] \in Reduced
  <2> DEFINE S == {i \in 0 .. n : i # 0 => P1[i] \in Reduced}
  <2>1. 0 \in S
    BY <1>1
  <2>2. ASSUME NEW k \in 1 .. n, k - 1 \in S
        PROVE  k \in S
    <3> DEFINE e == IF k = 1 THEN 0 ELSE P1[k - 1].estimate
    <3>1. e \in 0 .. Pow2(SignalBits) - 1
      <4>1. CASE k = 1
        BY <1>2, <4>1
      <4>2. CASE k # 1
        BY <1>2, <2>2, <4>2
      <4> QED
        BY <4>1, <4>2
    <3>2. P1[k] = noiseReduction(nr, signals[k], e)
      BY <1>9
    <3> HIDE DEF e
    <3>3. P1[k] \in Reduced
      BY <1>3, <3>1, <3>2
    <3> QED
      BY <3>3
  <2>3. S \in SUBSET (0 .. n)
    OBVIOUS
  <2> HIDE DEF S
  <2>4. \A k \in 0 .. n : k \in S
    BY <1>1, <2>1, <2>2, <2>3, EveryPlace
  <2> QED
    BY <2>4 DEF S
<1> QED
  BY <1>8, <1>9, <1>10

\* Frame after frame the noise estimate moves towards the signal and never past
\* it, and what is left of a signal is between its floor and all of it, for words
\* of every size, all shares of the noise and every length of a stream.
THEOREM NoiseStaysBounded == Spec => []NoiseBounded
<1>1. RoutinesInv => NoiseBounded
  <2> DEFINE nr == call.nr
             x == call.signals
             frames == Frames(nr, x)
             before(i) == IF i = 1 THEN 0 ELSE frames[i - 1].estimate
             scaled(i) == x[i] * Pow2(nr.bits)
  <2> SUFFICES ASSUME RoutinesInv, Returned("noise")
               PROVE  NoiseBounded
    BY DEF NoiseBounded
  <2>1. call \in Calls /\ result = <<Result(call)>> /\ call.routine = "noise"
    BY DEF RoutinesInv, Returned
  <2>2. result[1] = frames
    BY <2>1 DEF Result
  <2>3. NoiseOK(nr) /\ x \in Seq(0 .. Pow2(SignalBits) - 1)
    BY <2>1, CallsAssumption DEF ArgumentsOK, NoiseOK
  <2> HIDE DEF nr, x
  <2>4. x \in Seq(Nat) /\ Len(x) \in Nat
    <3> DEFINE V == 0 .. Pow2(SignalBits) - 1
    <3>1. V \subseteq Nat /\ x \in Seq(V)
      BY <2>3
    <3> HIDE DEF V
    <3>2. Len(x) \in Nat /\ x \in [1 .. Len(x) -> V]
      BY <3>1
    <3>3. x \in [1 .. Len(x) -> Nat]
      BY <3>1, <3>2
    <3> QED
      BY <3>2, <3>3
  <2> HIDE DEF frames
  <2>5. \A i \in 1 .. Len(x) : frames[i] = noiseReduction(nr, x[i], before(i)) /\ frames[i] \in Reduced
    BY <2>3, <2>4, FramesSteps DEF frames
  <2>6. ASSUME NEW i \in 1 .. Len(x)
        PROVE  /\ scaled(i) < Pow2(SignalBits) =>
                    \/ before(i) <= frames[i].estimate /\ frames[i].estimate <= scaled(i)
                    \/ scaled(i) <= frames[i].estimate /\ frames[i].estimate <= before(i)
               /\ frames[i].signal <= x[i]
               /\ frames[i].signal >= noiseFloor(x[i], nr.minRemaining)
    <3>1. x[i] \in Nat
      BY <2>4
    <3>2. before(i) \in 0 .. Pow2(SignalBits) - 1
      <4>1. CASE i = 1
        <5>1. Pow2(SignalBits) \in Nat \ {0}
          BY StagesAssumption, PowsRise
        <5> QED
          BY <4>1, <5>1
      <4>2. CASE i # 1
        <5>1. i - 1 \in 1 .. Len(x)
          BY <2>4, <4>2
        <5>2. frames[i - 1] \in Reduced
          BY <2>5, <5>1
        <5> QED
          BY <4>2, <5>2 DEF Reduced
      <4> QED
        BY <4>1, <4>2
    <3>3. frames[i] = noiseReduction(nr, x[i], before(i))
      BY <2>5
    <3> HIDE DEF before
    <3> QED
      BY <2>3, <3>1, <3>2, <3>3, NoiseReduced
  <2>7. \A i \in 1 .. Len(x) : i \in 1 .. i
    BY <2>4
  <2> QED
    BY <2>2, <2>6, <2>7 DEF NoiseBounded, nr, x
<1> QED
  BY ReturnsResult, <1>1, PTL
-----------------------------------------------------------------------------
(* The window, scaled up for the transform. *)

\* The powers of a sum, and of a greater number.
LEMMA PowOfSum ==
  ASSUME NEW m \in Nat, NEW n \in Nat
  PROVE  Pow2(m + n) = Pow2(m) * Pow2(n)
<1> DEFINE S == {k \in 0 .. n : Pow2(m + k) = Pow2(m) * Pow2(k)}
<1>1. 0 \in S
  <2>1. Pow2(m) \in Int /\ m + 0 = m
    BY PowSteps
  <2> QED
    BY <2>1, PowSteps
<1>2. ASSUME NEW k \in 1 .. n, k - 1 \in S
      PROVE  k \in S
  <2> DEFINE j == k - 1
             a == Pow2(m)
             b == Pow2(j)
  <2>1. j \in Nat /\ j + 1 = k /\ m + j \in Nat /\ (m + j) + 1 = m + k
    OBVIOUS
  <2>2. a \in Int /\ b \in Int /\ Pow2(j + 1) = 2 * b /\ Pow2((m + j) + 1) = 2 * Pow2(m + j)
    BY <2>1, PowSteps
  <2>3. Pow2(m + j) = a * b
    BY <1>2
  <2> HIDE DEF j, a, b
  <2>4. 2 * (a * b) = a * (2 * b)
    BY <2>2
  <2>5. Pow2(m + k) = a * Pow2(k)
    BY <2>1, <2>2, <2>3, <2>4
  <2> QED
    BY <2>5 DEF a
<1>3. S \in SUBSET (0 .. n)
  OBVIOUS
<1> HIDE DEF S
<1>4. n \in 0 .. n
  OBVIOUS
<1>5. n \in S
  BY <1>1, <1>2, <1>3, <1>4, EveryPlace
<1> QED
  BY <1>5 DEF S

\* A signed word of s bits: any number wraps into it, and one that fits stays.
LEMMA SignedWord ==
  ASSUME NEW s \in Nat \ {0}, NEW x \in Int
  PROVE  LET H == Pow2(s - 1)
         IN /\ H \in Nat \ {0} /\ Signed(x, s) \in -H .. H - 1
            /\ x \in -H .. H - 1 => Signed(x, s) = x
<1> DEFINE H == Pow2(s - 1)
<1>1. s - 1 \in Nat /\ (s - 1) + 1 = s
  OBVIOUS
<1>2. H \in Nat \ {0} /\ Pow2(s) = 2 * H
  BY <1>1, PowSteps, PowsRise
<1>3. Signed(x, s) = ((x + H) % (2 * H)) - H
  BY <1>2 DEF Signed
<1> HIDE DEF H
<1>4. (x + H) % (2 * H) \in 0 .. 2 * H - 1
  <2> DEFINE b == 2 * H
  <2>1. b \in Nat \ {0}
    BY <1>2
  <2> HIDE DEF b
  <2>2. (x + H) % b \in 0 .. b - 1
    BY <1>2, <2>1
  <2> QED
    BY <2>2 DEF b
<1>5. x \in -H .. H - 1 => (x + H) % (2 * H) = x + H
  <2> DEFINE b == 2 * H
             y == x + H
  <2>1. b \in Nat \ {0} /\ (x \in -H .. H - 1 => y \in 0 .. b - 1)
    BY <1>2
  <2> HIDE DEF b, y
  <2>2. y \in 0 .. b - 1 => y % b = y
    BY <2>1
  <2> QED
    BY <2>1, <2>2 DEF b, y
<1>6. Signed(x, s) \in -H .. H - 1
  BY <1>2, <1>3, <1>4
<1>7. x \in -H .. H - 1 => Signed(x, s) = x
  BY <1>2, <1>3, <1>5
<1> QED
  BY <1>2, <1>6, <1>7 DEF H

Magnitude(x) == IF x < 0 THEN -x ELSE x

\* The loudest sample is the greatest magnitude, if none is the least of its word.
LEMMA LoudestIsGreatest ==
  ASSUME NEW out \in Seq(Int),
         \A i \in 1 .. Len(out) : out[i] \in 1 - Pow2(SampleBits - 1) .. Pow2(SampleBits - 1) - 1
  PROVE  LET m == maxAbsOutputValue(out)
         IN /\ m \in 0 .. Pow2(SampleBits - 1) - 1
            /\ \A i \in 1 .. Len(out) : Magnitude(out[i]) <= m
            /\ m = 0 \/ \E i \in 1 .. Len(out) : Magnitude(out[i]) = m
<1> DEFINE n == Len(out)
           H == Pow2(SampleBits - 1)
           W == 0 .. H - 1
           abs(v) == IF v < 0 THEN Signed(-v, SampleBits) ELSE v
           next(i, l) == IF abs(out[i]) > l THEN abs(out[i]) ELSE l
           Is(f) == f = [i \in 0 .. n |-> IF i = 0 THEN 0 ELSE next(i, f[i - 1])]
           loud == CHOOSE f : Is(f)
           g == [p \in (1 .. n) \X W |-> next(p[1], p[2])]
<1>1. n \in Nat /\ H \in Nat \ {0} /\ SampleBits \in Nat \ {0}
  <2>1. SampleBits \in Nat \ {0} /\ SampleBits - 1 \in Nat
    BY StagesAssumption
  <2>2. n \in Nat
    OBVIOUS
  <2> QED
    BY <2>1, <2>2, PowsRise
<1>2. ASSUME NEW i \in 1 .. n
      PROVE  abs(out[i]) = Magnitude(out[i]) /\ abs(out[i]) \in W
  <2>1. out[i] \in 1 - H .. H - 1 /\ out[i] \in Int
    OBVIOUS
  <2> HIDE DEF H
  <2>2. Magnitude(out[i]) \in W /\ -out[i] \in Int
    BY <1>1, <2>1 DEF Magnitude
  <2>3. out[i] < 0 => Signed(-out[i], SampleBits) = -out[i]
    <3>1. out[i] < 0 => -out[i] \in -H .. H - 1
      BY <1>1, <2>1
    <3> QED
      BY <1>1, <2>2, <3>1, SignedWord DEF H
  <2> QED
    BY <2>2, <2>3 DEF Magnitude
<1> HIDE DEF abs
<1>3. \A i \in 1 .. n, l \in W : next(i, l) \in W
  BY <1>2
<1>4. \E f \in [0 .. n -> W] : f[0] = 0 /\ \A i \in 1 .. n : f[i] = g[<<i, f[i - 1]>>]
  <2>1. g \in [(1 .. n) \X W -> W]
    BY <1>3
  <2>2. 0 \in W
    BY <1>1
  <2> HIDE DEF g, n, W
  <2>3. \E f \in [0 .. n -> W] : Folds(f, n, 0, g)
    BY <1>1, <2>1, <2>2, FoldExists
  <2> QED
    BY <2>3 DEF Folds
<1>5. \E f : Is(f)
  <2>1. PICK f \in [0 .. n -> W] : f[0] = 0 /\ \A i \in 1 .. n : f[i] = g[<<i, f[i - 1]>>]
    BY <1>4
  <2>2. ASSUME NEW i \in 1 .. n
        PROVE  f[i] = next(i, f[i - 1])
    <3>1. i - 1 \in 0 .. n
      BY <1>1
    <3> HIDE DEF W, n, next
    <3>2. <<i, f[i - 1]>> \in (1 .. n) \X W
      BY <3>1
    <3> QED
      BY <2>1, <3>2
  <2> HIDE DEF W, next
  <2>3. \A i \in 0 .. n : f[i] = IF i = 0 THEN 0 ELSE next(i, f[i - 1])
    BY <1>1, <2>1, <2>2
  <2>4. Is(f)
    BY <2>3
  <2> HIDE DEF Is
  <2> QED
    BY <2>4
<1>6. Is(loud)
  <2> HIDE DEF Is
  <2> QED
    BY <1>5
<1>7. maxAbsOutputValue(out) = loud[n]
  BY DEF maxAbsOutputValue, abs
<1> HIDE DEF loud
<1>8. loud[0] = 0 /\ \A i \in 1 .. n : loud[i] = next(i, loud[i - 1])
  <2> HIDE DEF next, n
  <2>1. \A i \in 0 .. n : loud[i] = IF i = 0 THEN 0 ELSE next(i, loud[i - 1])
    BY <1>6
  <2>2. 0 \in 0 .. n /\ \A i \in 1 .. n : i \in 0 .. n /\ i # 0
    BY <1>1
  <2> QED
    BY <2>1, <2>2
<1> DEFINE Greatest(k) == /\ loud[k] \in W
                          /\ \A i \in 1 .. k : Magnitude(out[i]) <= loud[k]
                          /\ loud[k] = 0 \/ \E i \in 1 .. k : Magnitude(out[i]) = loud[k]
           S == {k \in 0 .. n : Greatest(k)}
<1>9. 0 \in S
  BY <1>1, <1>8
<1>10. ASSUME NEW k \in 1 .. n, k - 1 \in S
       PROVE  k \in S
  <2>1. /\ loud[k] = IF Magnitude(out[k]) > loud[k - 1] THEN Magnitude(out[k]) ELSE loud[k - 1]
        /\ Magnitude(out[k]) \in W
    BY <1>2, <1>8
  <2>2. Greatest(k - 1)
    BY <1>10
  <2>3. \A i \in 1 .. n : Magnitude(out[i]) \in W
    BY <1>2
  <2> HIDE DEF n, next
  <2>4. loud[k] \in W /\ loud[k] >= loud[k - 1] /\ loud[k] >= Magnitude(out[k])
    BY <1>1, <2>1, <2>2
  <2>5. ASSUME NEW i \in 1 .. k
        PROVE  Magnitude(out[i]) <= loud[k]
    <3>1. CASE i = k
      BY <2>1, <2>4, <3>1
    <3>2. CASE i # k
      <4>1. i \in 1 .. k - 1 /\ i \in 1 .. n
        BY <1>1, <3>2
      <4>2. Magnitude(out[i]) <= loud[k - 1] /\ Magnitude(out[i]) \in W
        BY <2>2, <2>3, <4>1
      <4> QED
        BY <1>1, <2>2, <2>4, <4>2
    <3> QED
      BY <3>1, <3>2
  <2>6. loud[k] = 0 \/ \E i \in 1 .. k : Magnitude(out[i]) = loud[k]
    <3>1. k \in 1 .. k /\ \A i \in 1 .. k - 1 : i \in 1 .. k
      BY <1>1
    <3> QED
      BY <2>1, <2>2, <3>1
  <2> HIDE DEF W
  <2>7. Greatest(k)
    BY <2>4, <2>5, <2>6
  <2> HIDE DEF Greatest
  <2>8. k \in 0 .. n
    BY <1>1
  <2> QED
    BY <2>7, <2>8
<1>11. S \in SUBSET (0 .. n)
  OBVIOUS
<1> HIDE DEF S
<1>12. n \in 0 .. n
  BY <1>1
<1>13. n \in S
  BY <1>1, <1>9, <1>10, <1>11, <1>12, EveryPlace
<1> QED
  BY <1>7, <1>13 DEF S

\* The number of bits of a number below a power of two.
LEMMA BitsOfNumber ==
  ASSUME NEW n \in 0 .. 64, NEW m \in 0 .. Pow2(n) - 1
  PROVE  LET b == mostSignificantBit(m)
         IN b \in 0 .. n /\ m < Pow2(b) /\ (b > 0 => m >= Pow2(b - 1))
<1> DEFINE Is(b) == m < Pow2(b) /\ (b > 0 => m >= Pow2(b - 1))
           b == CHOOSE c \in 0 .. 64 : Is(c)
<1>1. n \in Nat /\ m \in Nat /\ m < Pow2(n) /\ \A k \in 0 .. 64 : Pow2(k) \in Nat
  BY PowsRise
<1>2. \E c \in 0 .. 64 : Is(c)
  <2> SUFFICES ASSUME \A c \in 0 .. 64 : ~Is(c) PROVE FALSE
    OBVIOUS
  <2> DEFINE S == {k \in 0 .. n : m >= Pow2(k)}
  <2>1. 0 \in S
    <3>1. ~Is(0)
      OBVIOUS
    <3> QED
      BY <1>1, <3>1
  <2>2. ASSUME NEW k \in 1 .. n, k - 1 \in S
        PROVE  k \in S
    <3>1. k \in 0 .. 64 /\ ~Is(k)
      BY <1>1
    <3> QED
      BY <1>1, <2>2, <3>1
  <2>3. S \in SUBSET (0 .. n) /\ n \in 0 .. n
    BY <1>1
  <2> HIDE DEF S
  <2>4. n \in S
    BY <1>1, <2>1, <2>2, <2>3, EveryPlace
  <2> QED
    BY <1>1, <2>4 DEF S
<1>3. b \in 0 .. 64 /\ Is(b)
  <2> HIDE DEF Is
  <2> QED
    BY <1>2
<1>4. mostSignificantBit(m) = b
  BY DEF mostSignificantBit
<1> HIDE DEF b
<1>5. ~ (b > n)
  <2> SUFFICES ASSUME b > n PROVE FALSE
    OBVIOUS
  <2>1. b - 1 \in Nat /\ n \in 0 .. b - 1 /\ b > 0
    BY <1>1, <1>3
  <2>2. Pow2(n) <= Pow2(b - 1) /\ Pow2(n) \in Nat /\ Pow2(b - 1) \in Nat
    BY <2>1, PowsRise
  <2> QED
    BY <1>1, <1>3, <2>1, <2>2
<1> QED
  BY <1>1, <1>3, <1>4, <1>5

\* Shifted so that the greatest of its bits is the word's last but one, a number
\* fits the word.
LEMMA ShiftFits ==
  ASSUME NEW n \in 0 .. 64, n > 0, NEW m \in 0 .. Pow2(n) - 1
  PROVE  LET k == n - mostSignificantBit(m)
         IN /\ k \in 0 .. n /\ Pow2(k) \in Nat \ {0}
            /\ m * Pow2(k) <= Pow2(n) - 1
            /\ m > 0 => m * Pow2(k) >= Pow2(n - 1)
<1> DEFINE b == mostSignificantBit(m)
           k == n - b
           B == Pow2(b)
           K == Pow2(k)
           N == Pow2(n)
<1>1. b \in 0 .. n /\ m < B /\ (b > 0 => m >= Pow2(b - 1)) /\ m \in Nat
  BY BitsOfNumber
<1> HIDE DEF b
<1>2. k \in 0 .. n /\ k \in Nat /\ b \in Nat /\ b + k = n
  BY <1>1
<1>3. K \in Nat \ {0} /\ B \in Nat \ {0} /\ N = B * K
  BY <1>2, PowOfSum, PowsRise
<1>4. m * K <= N - 1
  <2> DEFINE r == B - 1 - m
  <2>1. r \in Nat /\ m = B - 1 - r
    BY <1>1, <1>3
  <2>2. (B - 1 - r) * K = B * K - K - r * K /\ r * K \in Nat /\ B * K \in Int
    BY <1>3, <2>1
  <2> HIDE DEF B, K, N, r
  <2>3. m * K = B * K - K - r * K
    BY <2>1, <2>2
  <2> QED
    BY <1>3, <2>2, <2>3
<1>5. ASSUME m > 0 PROVE m * K >= Pow2(n - 1)
  <2>1. b > 0
    <3>1. Pow2(0) = 1
      BY PowSteps
    <3> QED
      BY <1>1, <1>5, <3>1
  <2> DEFINE A == Pow2(b - 1)
             r == m - A
  <2>2. b - 1 \in Nat /\ (b - 1) + k = n - 1
    BY <1>2, <2>1
  <2>3. Pow2(n - 1) = A * K /\ A \in Nat
    BY <1>2, <2>2, PowOfSum, PowsRise
  <2>4. r \in Nat /\ m = A + r
    BY <1>1, <2>1, <2>3
  <2>5. (A + r) * K = A * K + r * K /\ r * K \in Nat /\ A * K \in Int
    BY <1>3, <2>3, <2>4
  <2> HIDE DEF A, K, r
  <2>6. m * K = A * K + r * K
    BY <2>4, <2>5
  <2> QED
    BY <2>3, <2>5, <2>6
<1> HIDE DEF K
<1> QED
  BY <1>2, <1>3, <1>4, <1>5 DEF K, N, b

\* Scaling a frame up keeps every sample's sign and bits, and brings the loudest to
\* its word's highest bit, for words of up to 64 bits, frames of every length and all
\* coefficients, unless a sample is the least of its word.
THEOREM ScalingUpNeverWraps == Spec => []ScaledUpWithoutWrap
<1> DEFINE H == Pow2(SampleBits - 1)
           H2 == Pow2(SampleBits - 2)
<1>0. /\ SampleBits - 1 \in 0 .. 64 /\ SampleBits - 1 > 0 /\ SampleBits - 2 = (SampleBits - 1) - 1
      /\ SampleBits \in Nat \ {0} /\ WindowBits \in Nat
  BY StagesAssumption
<1>1. RoutinesInv => ScaledUpWithoutWrap
  <2> DEFINE x == call.in
             c == call.coefficients
             out == [i \in 1 .. Len(x) |-> windowed(x[i], c[i])]
             m == maxAbsOutputValue(out)
             shift == inputShift(out)
             abs(y) == IF y < 0 THEN -y ELSE y
  <2> SUFFICES ASSUME RoutinesInv, Returned("window"), \A i \in 1 .. Len(out) : out[i] # -H
               PROVE  \E k \in 0 .. SampleBits - 1 :
                        /\ \A i \in 1 .. Len(out) : result[1][i] = out[i] * Pow2(k)
                        /\ (\E i \in 1 .. Len(out) : out[i] # 0) =>
                              \E i \in 1 .. Len(out) : abs(result[1][i]) >= H2
    BY DEF ScaledUpWithoutWrap
  <2>1. call \in Calls /\ result = <<Result(call)>> /\ call.routine = "window"
    BY DEF RoutinesInv, Returned
  <2>2. result[1] = scaledUp(out)
    BY <2>1 DEF Result
  <2>3. x \in Seq(Int) /\ c \in Seq(Int) /\ Len(c) = Len(x)
    <3>1. x \in Seq(-H .. H - 1) /\ c \in Seq(0 .. Pow2(WindowBits)) /\ Len(c) = Len(x)
      BY <2>1, CallsAssumption DEF ArgumentsOK
    <3> DEFINE V == -H .. H - 1
               W == 0 .. Pow2(WindowBits)
    <3>2. V \subseteq Int /\ W \subseteq Int /\ x \in Seq(V) /\ c \in Seq(W)
      BY <3>1
    <3> HIDE DEF V, W, x, c
    <3>3. x \in [1 .. Len(x) -> V] /\ c \in [1 .. Len(c) -> W] /\ Len(x) \in Nat /\ Len(c) \in Nat
      BY <3>2
    <3>4. x \in [1 .. Len(x) -> Int] /\ c \in [1 .. Len(c) -> Int]
      BY <3>2, <3>3
    <3> QED
      BY <3>1, <3>3, <3>4
  <2> HIDE DEF x, c
  <2>4. ASSUME NEW i \in 1 .. Len(x)
        PROVE  windowed(x[i], c[i]) \in -H .. H - 1
    <3> DEFINE y == (x[i] * c[i]) \div Pow2(WindowBits)
    <3>1. x[i] \in Int /\ c[i] \in Int
      BY <2>3
    <3>2. x[i] * c[i] \in Int /\ Pow2(WindowBits) \in Nat \ {0}
      BY <1>0, <3>1, PowsRise
    <3>3. y \in Int
      BY <3>2
    <3> HIDE DEF y
    <3>4. Signed(y, SampleBits) \in -H .. H - 1
      BY <1>0, <3>3, SignedWord
    <3> QED
      BY <3>4 DEF windowed, y
  <2>5. H \in Nat \ {0}
    BY <1>0, PowsRise
  <2>6. Len(out) \in Nat /\ Len(out) = Len(x) /\ \A i \in 1 .. Len(out) : out[i] \in -H .. H - 1
    <3>1. Len(x) \in Nat
      BY <2>3
    <3> HIDE DEF H
    <3> QED
      BY <2>4, <3>1
  <2>7. out \in Seq(Int)
    <3>1. Len(x) \in Nat
      BY <2>3
    <3>2. \A i \in 1 .. Len(x) : windowed(x[i], c[i]) \in Int
      BY <2>4, <2>5
    <3> QED
      BY <3>1, <3>2
  <2> HIDE DEF out, H
  <2>8. \A i \in 1 .. Len(out) : out[i] \in 1 - H .. H - 1
    BY <2>5, <2>6
  <2>9. /\ m \in 0 .. H - 1
        /\ \A i \in 1 .. Len(out) : Magnitude(out[i]) <= m
        /\ m = 0 \/ \E i \in 1 .. Len(out) : Magnitude(out[i]) = m
    BY <2>7, <2>8, LoudestIsGreatest DEF H
  <2> DEFINE K == Pow2(shift)
  <2>10. /\ shift \in 0 .. SampleBits - 1 /\ K \in Nat \ {0}
         /\ m * K <= H - 1 /\ (m > 0 => m * K >= H2)
    <3>1. shift = SampleBits - 1 - mostSignificantBit(m)
      BY DEF inputShift
    <3> HIDE DEF shift, m
    <3> QED
      BY <1>0, <2>9, <3>1, ShiftFits DEF H
  <2> HIDE DEF m, shift
  <2>11. \A i \in 1 .. Len(out) : result[1][i] = Signed(out[i] * K, SampleBits)
    BY <2>2 DEF scaledUp, shift
  <2> HIDE DEF K
  <2>12. ASSUME NEW i \in 1 .. Len(out)
         PROVE  /\ result[1][i] = out[i] * K
                /\ abs(result[1][i]) = Magnitude(out[i]) * K
    <3> DEFINE y == out[i]
               a == Magnitude(y)
               r == m - a
    <3>1. y \in Int /\ a \in Nat /\ r \in Nat /\ m = a + r /\ m \in Nat /\ (y = a \/ y = -a) /\ (y < 0 <=> y # a)
      BY <2>6, <2>9 DEF Magnitude
    <3> HIDE DEF y, a, r
    <3>2. (a + r) * K = a * K + r * K /\ a * K \in Nat /\ r * K \in Nat /\ (-a) * K = -(a * K)
      BY <2>10, <3>1
    <3>3. a * K <= H - 1
      BY <2>5, <2>10, <3>1, <3>2
    <3>4. y * K \in Int /\ y * K \in -H .. H - 1
      BY <2>5, <3>1, <3>2, <3>3
    <3>5. result[1][i] = y * K
      BY <1>0, <2>11, <3>4, SignedWord DEF H, y
    <3>6. abs(y * K) = a * K
      <4>1. CASE y = a
        BY <3>2, <4>1
      <4>2. CASE y # a
        BY <3>1, <3>2, <4>2
      <4> QED
        BY <4>1, <4>2
    <3> HIDE DEF abs
    <3>7. abs(result[1][i]) = a * K
      BY <3>5, <3>6
    <3> QED
      BY <3>5, <3>7 DEF y, a
  <2>13. ASSUME NEW j \in 1 .. Len(out), out[j] # 0
         PROVE  \E i \in 1 .. Len(out) : abs(result[1][i]) >= H2
    <3>1. m > 0 /\ m \in Nat
      <4>1. Magnitude(out[j]) > 0 /\ Magnitude(out[j]) \in Nat
        BY <2>6, <2>13 DEF Magnitude
      <4> QED
        BY <2>5, <2>9, <4>1
    <3>2. PICK i \in 1 .. Len(out) : Magnitude(out[i]) = m
      BY <2>9, <3>1
    <3> HIDE DEF abs
    <3>3. abs(result[1][i]) = m * K
      BY <2>12, <3>2
    <3> QED
      BY <2>10, <3>1, <3>3
  <2> HIDE DEF abs
  <2> QED
    BY <2>10, <2>12, <2>13 DEF K
<1> QED
  BY ReturnsResult, <1>1, PTL
-----------------------------------------------------------------------------
(* The square root. *)

RootState == [num : Int, res : Int, bit : Int]

\* One digit of Root.
RootStep(s) ==
  IF s.num >= s.res + s.bit
  THEN [num |-> s.num - (s.res + s.bit), res |-> s.res \div 2 + s.bit, bit |-> s.bit \div 4]
  ELSE [s EXCEPT !.res = @ \div 2, !.bit = @ \div 4]

\* The state after a digit.
LEMMA RootStepTyped ==
  ASSUME NEW s \in RootState
  PROVE  /\ RootStep(s) \in RootState /\ RootStep(s).bit = s.bit \div 4
         /\ s.num >= s.res + s.bit =>
              RootStep(s).num = s.num - (s.res + s.bit) /\ RootStep(s).res = s.res \div 2 + s.bit
         /\ ~ (s.num >= s.res + s.bit) => RootStep(s).num = s.num /\ RootStep(s).res = s.res \div 2
<1>1. s = [num |-> s.num, res |-> s.res, bit |-> s.bit] /\ s.num \in Int /\ s.res \in Int /\ s.bit \in Int
  BY DEF RootState
<1>2. s.res \div 2 \in Int /\ s.bit \div 4 \in Int
  BY <1>1
<1>3. CASE s.num >= s.res + s.bit
  <2>1. RootStep(s) = [num |-> s.num - (s.res + s.bit), res |-> s.res \div 2 + s.bit, bit |-> s.bit \div 4]
    BY <1>3 DEF RootStep
  <2> QED
    BY <1>1, <1>2, <1>3, <2>1 DEF RootState
<1>4. CASE ~ (s.num >= s.res + s.bit)
  <2>1. RootStep(s) = [s EXCEPT !.res = @ \div 2, !.bit = @ \div 4]
    BY <1>4 DEF RootStep
  <2>2. RootStep(s) = [num |-> s.num, res |-> s.res \div 2, bit |-> s.bit \div 4]
    BY <1>1, <2>1
  <2> QED
    BY <1>1, <1>2, <1>4, <2>2 DEF RootState
<1> QED
  BY <1>3, <1>4

IsRun(f, start, n) == f = [i \in 0 .. n |-> IF i = 0 THEN start ELSE RootStep(f[i - 1])]

RootRun(start, n) == CHOOSE f : IsRun(f, start, n)

\* The equations of the loop.
LEMMA RootRuns ==
  ASSUME NEW start \in RootState, NEW n \in Nat
  PROVE  LET f == RootRun(start, n)
         IN f[0] = start /\ \A i \in 1 .. n : f[i] = RootStep(f[i - 1])
<1> DEFINE g == [p \in (1 .. n) \X RootState |-> RootStep(p[2])]
           run == RootRun(start, n)
<1>1. \A s \in RootState : RootStep(s) \in RootState
  BY RootStepTyped
<1>2. \E f : IsRun(f, start, n)
  <2>1. g \in [(1 .. n) \X RootState -> RootState]
    BY <1>1
  <2> HIDE DEF g
  <2>2. PICK f \in [0 .. n -> RootState] : f[0] = start /\ \A i \in 1 .. n : f[i] = g[<<i, f[i - 1]>>]
    <3>1. \E f \in [0 .. n -> RootState] : Folds(f, n, start, g)
      BY <2>1, FoldExists
    <3> QED
      BY <3>1 DEF Folds
  <2>3. ASSUME NEW i \in 1 .. n
        PROVE  f[i] = RootStep(f[i - 1])
    <3>1. i - 1 \in 0 .. n
      OBVIOUS
    <3>2. <<i, f[i - 1]>> \in (1 .. n) \X RootState
      BY <3>1
    <3> QED
      BY <2>2, <3>2 DEF g
  <2>4. \A i \in 0 .. n : f[i] = IF i = 0 THEN start ELSE RootStep(f[i - 1])
    BY <2>2, <2>3
  <2>5. IsRun(f, start, n)
    BY <2>4 DEF IsRun
  <2> QED
    BY <2>5
<1>3. IsRun(run, start, n)
  BY <1>2 DEF RootRun
<1> HIDE DEF run
<1>4. \A i \in 0 .. n : run[i] = IF i = 0 THEN start ELSE RootStep(run[i - 1])
  BY <1>3 DEF IsRun
<1>5. 0 \in 0 .. n /\ \A i \in 1 .. n : i \in 0 .. n /\ i # 0
  OBVIOUS
<1> QED
  BY <1>4, <1>5 DEF run

\* With the digits worth 2*w and more found, R is their root: what is left of num
\* is less than another of these digits takes.
Digits(s, num, R, w) ==
  /\ s \in RootState
  /\ s.num = num - R * R /\ R * R <= num /\ num < (R + w) * (R + w)
  /\ s.res = R * w

\* A digit more.
LEMMA DigitFound ==
  ASSUME NEW num \in Nat, NEW r \in Nat, NEW w \in Nat \ {0}, NEW s,
         NEW R, R = r * (2 * w), NEW v, v = 2 * w, Digits(s, num, R, v), s.bit = w * w
  PROVE  \E q \in Nat : Digits(RootStep(s), num, q * w, w) /\ RootStep(s).bit = (w * w) \div 4
<1> DEFINE rw == R * w
           sq == R * R
           u == RootStep(s)
<1>1. R \in Nat /\ R = (2 * r) * w /\ R + w = (2 * r + 1) * w
  OBVIOUS
<1>2. /\ s \in RootState /\ s.num = num - sq /\ sq <= num
      /\ num < (R + 2 * w) * (R + 2 * w) /\ s.res = R * (2 * w)
  BY DEF Digits
<1>3. /\ rw \in Nat /\ sq \in Nat /\ w * w \in Nat
      /\ R * (2 * w) = 2 * rw
      /\ (R + w) * (R + w) = sq + 2 * rw + w * w
      /\ (R + w) * w = rw + w * w
  BY <1>1
<1>4. ((R + w) + w) * ((R + w) + w) = (R + 2 * w) * (R + 2 * w)
  BY <1>1
<1> DEFINE W == w * w
<1>5. s.res = 2 * rw /\ s.bit = W /\ W \in Nat /\ rw \in Nat /\ sq \in Nat
  BY <1>2, <1>3
<1>6. u \in RootState /\ u.bit = W \div 4
  BY <1>2, <1>5, RootStepTyped
<1>7. CASE s.num >= s.res + s.bit
  <2>1. u.num = s.num - (s.res + s.bit) /\ u.res = s.res \div 2 + s.bit
    BY <1>2, <1>7, RootStepTyped
  <2> DEFINE Q == R + w
  <2>2. Q * Q = sq + 2 * rw + W /\ Q * w = rw + W /\ num < (Q + w) * (Q + w)
    BY <1>2, <1>3, <1>4
  <2> HIDE DEF Q, W, rw, sq, u
  <2>3. u.num = num - Q * Q /\ Q * Q <= num /\ u.res = Q * w
    BY <1>2, <1>5, <1>7, <2>1, <2>2
  <2>4. Digits(u, num, Q, w)
    BY <1>6, <2>2, <2>3 DEF Digits
  <2>5. 2 * r + 1 \in Nat /\ Q = (2 * r + 1) * w
    BY <1>1 DEF Q
  <2>6. Digits(u, num, (2 * r + 1) * w, w)
    BY <2>4, <2>5
  <2> QED
    BY <1>6, <2>5, <2>6 DEF u, W
<1>8. CASE ~ (s.num >= s.res + s.bit)
  <2>1. u.num = s.num /\ u.res = s.res \div 2
    BY <1>2, <1>8, RootStepTyped
  <2>2. R * w = rw /\ R * R = sq /\ (R + w) * (R + w) = sq + 2 * rw + W
    BY <1>3
  <2> HIDE DEF W, rw, sq, u
  <2>3. u.num = num - sq /\ sq <= num /\ num < sq + 2 * rw + W /\ u.res = rw
    BY <1>2, <1>5, <1>8, <2>1
  <2>4. Digits(u, num, R, w)
    BY <1>6, <2>2, <2>3 DEF Digits
  <2>5. 2 * r \in Nat /\ Digits(u, num, (2 * r) * w, w)
    BY <1>1, <2>4
  <2> QED
    BY <1>6, <2>5 DEF u, W
<1> QED
  BY <1>7, <1>8
SomeDigits(s, num, w) == \E q \in Nat : Digits(s, num, q * w, w)

Square(w) == w * w

\* The same, of some root.
LEMMA OneMoreDigit ==
  ASSUME NEW num \in Nat, NEW w \in Nat \ {0}, NEW v, v = 2 * w, NEW s,
         SomeDigits(s, num, v), s.bit = Square(w)
  PROVE  SomeDigits(RootStep(s), num, w) /\ RootStep(s).bit = Square(w) \div 4
<1>1. PICK r \in Nat : Digits(s, num, r * v, v)
  BY DEF SomeDigits
<1> DEFINE R == r * v
<1>2. R = r * (2 * w) /\ Digits(s, num, R, v) /\ s.bit = w * w
  BY <1>1 DEF Square
<1> HIDE DEF R
<1>3. \E q \in Nat : Digits(RootStep(s), num, q * w, w) /\ RootStep(s).bit = (w * w) \div 4
  BY <1>2, DigitFound
<1> QED
  BY <1>3 DEF SomeDigits, Square

\* The loop, from a bit that is at least a quarter of the number, finds its root.
LEMMA RootFound ==
  ASSUME NEW num \in Nat, NEW t \in Nat, num < Pow2(t + 1) * Pow2(t + 1)
  PROVE  LET last == RootRun([num |-> num, res |-> 0, bit |-> Pow2(2 * t)], t + 1)[t + 1]
             R == last.res
         IN R \in Nat /\ last.num = num - R * R /\ R * R <= num /\ num < (R + 1) * (R + 1)
<1> DEFINE start == [num |-> num, res |-> 0, bit |-> Pow2(2 * t)]
           n == t + 1
           f == RootRun(start, n)
           w(i) == Pow2(n - i)
           Inv(i) == /\ \E q \in Nat : Digits(f[i], num, q * w(i), w(i))
                     /\ i <= t => f[i].bit = Pow2(t - i) * Pow2(t - i)
           S == {i \in 0 .. n : Inv(i)}
<1>1. n \in Nat /\ \A i \in 0 .. n : n - i \in Nat
  OBVIOUS
<1>2. \A i \in Nat : Pow2(i) \in Nat \ {0}
  BY PowsRise
<1>3. start \in RootState
  <2>1. Pow2(2 * t) \in Int
    BY <1>2
  <2> QED
    BY <2>1 DEF RootState
<1>4. f[0] = start /\ \A i \in 1 .. n : f[i] = RootStep(f[i - 1])
  <2> HIDE DEF start, n
  <2> QED
    BY <1>1, <1>3, RootRuns
<1> HIDE DEF f
<1>5. 0 \in S
  <2> DEFINE v == w(0)
  <2>1. n - 0 = t + 1
    OBVIOUS
  <2>2. v \in Nat /\ num < v * v
    BY <1>1, <1>2, <2>1
  <2>3. 0 * v = 0 /\ (0 + v) * (0 + v) = v * v
    BY <2>2
  <2>4. start.num = num /\ start.res = 0 /\ start.bit = Pow2(2 * t)
    OBVIOUS
  <2> HIDE DEF v, start
  <2>5. Digits(start, num, 0, v)
    BY <1>3, <2>2, <2>3, <2>4 DEF Digits
  <2>6. Digits(start, num, 0 * v, v)
    BY <2>3, <2>5
  <2>7. Pow2(2 * t) = Pow2(t) * Pow2(t)
    <3>1. 2 * t = t + t
      OBVIOUS
    <3> QED
      BY <3>1, PowOfSum
  <2>8. 0 <= t => start.bit = Pow2(t - 0) * Pow2(t - 0)
    BY <2>4, <2>7
  <2>9. 0 \in Nat /\ 0 \in 0 .. n
    BY <1>1
  <2> QED
    BY <1>4, <2>6, <2>8, <2>9 DEF v
<1>6. ASSUME NEW k \in 1 .. n, k - 1 \in S
      PROVE  k \in S
  <2> DEFINE v == w(k)
             s == f[k - 1]
  <2>1. /\ n - k \in Nat /\ n - (k - 1) = (n - k) + 1 /\ k - 1 <= t /\ t - (k - 1) = n - k
        /\ k \in 0 .. n /\ k - 1 \in Int
    OBVIOUS
  <2>2. v \in Nat \ {0} /\ w(k - 1) = 2 * v
    BY <1>2, <2>1, PowSteps
  <2>3. s.bit = Square(v)
    <3>1. s.bit = Pow2(t - (k - 1)) * Pow2(t - (k - 1))
      BY <1>6, <2>1
    <3> QED
      BY <2>1, <3>1 DEF Square
  <2>4. SomeDigits(s, num, w(k - 1))
    BY <1>6 DEF SomeDigits
  <2>6. f[k] = RootStep(s)
    BY <1>4
  <2> HIDE DEF s
  <2>5. SomeDigits(RootStep(s), num, v) /\ RootStep(s).bit = Square(v) \div 4
    <3> DEFINE u == w(k - 1)
    <3>1. u = 2 * v /\ SomeDigits(s, num, u) /\ v \in Nat \ {0}
      BY <2>2, <2>4
    <3> HIDE DEF u, v
    <3> QED
      BY <2>3, <3>1, OneMoreDigit
  <2>7. (\E q \in Nat : Digits(f[k], num, q * v, v)) /\ f[k].bit = (v * v) \div 4
    BY <2>5, <2>6 DEF SomeDigits, Square
  <2>8. ASSUME k <= t
        PROVE  (v * v) \div 4 = Pow2(t - k) * Pow2(t - k)
    <3> DEFINE u == Pow2(t - k)
               z == u * u
    <3>1. t - k \in Nat /\ n - k = (t - k) + 1
      BY <2>8
    <3>2. v = 2 * u /\ u \in Nat
      BY <1>2, <3>1, PowSteps
    <3> HIDE DEF u, v
    <3>3. v * v = 4 * z /\ z \in Nat
      BY <3>2
    <3> HIDE DEF z
    <3>4. (4 * z) \div 4 = z
      BY <3>3
    <3> QED
      BY <3>3, <3>4 DEF z, u
  <2>9. Inv(k)
    BY <2>7, <2>8
  <2> HIDE DEF Inv
  <2> QED
    BY <2>1, <2>9
<1>7. n \in S
  <2>1. S \in SUBSET (0 .. n) /\ n \in 0 .. n
    BY <1>1
  <2> HIDE DEF S
  <2> QED
    BY <1>1, <1>5, <1>6, <2>1, EveryPlace
<1>8. PICK q \in Nat : Digits(f[n], num, q * w(n), w(n))
  BY <1>7
<1>9. w(n) = 1 /\ q * 1 = q
  <2>1. n - n = 0
    BY <1>1
  <2> QED
    BY <2>1, PowSteps
<1>10. Digits(f[n], num, q, 1)
  BY <1>8, <1>9
<1>11. f[n].res = q
  BY <1>10 DEF Digits
<1> QED
  BY <1>10, <1>11 DEF Digits, f

\* The nearest root, from the one rounded down.
LEMMA NearestIs ==
  ASSUME NEW num \in Nat, NEW R \in Nat, R * R <= num, num < (R + 1) * (R + 1)
  PROVE  Nearest(num) = IF num - R * R > R THEN R + 1 ELSE R
<1> DEFINE Is(r) == num <= r * r + r /\ (r > 0 => num > r * r - r)
           S == IF num - R * R > R THEN R + 1 ELSE R
<1>1. S \in 0 .. num /\ Is(S)
  <2>1. R * R \in Nat /\ (R + 1) * (R + 1) = R * R + 2 * R + 1 /\ R <= R * R /\ (R > 0 => R * R > 0)
    OBVIOUS
  <2> QED
    BY <2>1
<1>2. ASSUME NEW r \in Nat, NEW s \in Nat, Is(r), Is(s)
      PROVE  ~ (r < s)
  <2> SUFFICES ASSUME r < s PROVE FALSE
    OBVIOUS
  <2> DEFINE e == s - r - 1
  <2>1. e \in Nat /\ s = r + 1 + e
    OBVIOUS
  <2>2. (r + 1 + e) * (r + 1 + e) - (r + 1 + e) = r * r + r + (2 * (r * e) + e * e + e) /\ r * e \in Nat /\ e * e \in Nat
    BY <2>1
  <2>3. num <= r * r + r /\ num > s * s - s /\ r * r \in Nat
    BY <1>2
  <2> HIDE DEF e
  <2>4. s * s - s = r * r + r + (2 * (r * e) + e * e + e)
    BY <2>1, <2>2
  <2> QED
    BY <2>1, <2>2, <2>3, <2>4
<1>3. Nearest(num) \in 0 .. num /\ Is(Nearest(num))
  <2>1. \E r \in 0 .. num : Is(r)
    BY <1>1
  <2>2. Nearest(num) = CHOOSE r \in 0 .. num : Is(r)
    BY DEF Nearest
  <2> HIDE DEF Is
  <2> QED
    BY <2>1, <2>2
<1> HIDE DEF Is, S
<1>4. Nearest(num) \in Nat /\ S \in Nat
  BY <1>1, <1>3
<1>5. Nearest(num) = S
  BY <1>1, <1>2, <1>3, <1>4
<1> QED
  BY <1>5 DEF S

\* Root, of the run from the highest even bit of the number.
HighestBit(len, bits) == bits - 1 - (IF (bits - len) % 2 = 1 THEN bits - len ELSE bits - len + 1)

RootOf(num, bits, e) ==
  LET last == RootRun([num |-> num, res |-> 0, bit |-> Pow2(e)], e \div 2 + 1)[e \div 2 + 1]
  IN IF last.num > last.res /\ last.res # Pow2(bits \div 2) - 1 THEN last.res + 1 ELSE last.res

\* The loop of sqrt gives what its run of rounds ends with.
LEMMA RootIsRun ==
  ASSUME NEW num, num # 0, NEW bits
  PROVE  Root(num, bits) = RootOf(num, bits, HighestBit(mostSignificantBit(num), bits))
<1> DEFINE e == bits - 1 - (IF (bits - mostSignificantBit(num)) % 2 = 1
                            THEN bits - mostSignificantBit(num) ELSE bits - mostSignificantBit(num) + 1)
           last == (CHOOSE f : f = [i \in 0 .. e \div 2 + 1 |->
                      IF i = 0 THEN [num |-> num, res |-> 0, bit |-> Pow2(e)]
                      ELSE IF f[i - 1].num >= f[i - 1].res + f[i - 1].bit
                           THEN [num |-> f[i - 1].num - (f[i - 1].res + f[i - 1].bit),
                                 res |-> f[i - 1].res \div 2 + f[i - 1].bit, bit |-> f[i - 1].bit \div 4]
                           ELSE [f[i - 1] EXCEPT !.res = @ \div 2, !.bit = @ \div 4]])[e \div 2 + 1]
<1>1. Root(num, bits) = IF last.num > last.res /\ last.res # Pow2(bits \div 2) - 1
                        THEN last.res + 1 ELSE last.res
  BY Zenon DEF Root
<1>2. last = RootRun([num |-> num, res |-> 0, bit |-> Pow2(e)], e \div 2 + 1)[e \div 2 + 1]
  BY Zenon DEF RootRun, IsRun, RootStep
<1>3. e = HighestBit(mostSignificantBit(num), bits)
  BY DEF HighestBit
<1> HIDE DEF last, e
<1> QED
  BY <1>1, <1>2, <1>3 DEF RootOf

\* The highest even bit of a number of an even width.
LEMMA HighestEvenBit ==
  ASSUME NEW h \in 0 .. 32, NEW len \in 1 .. 2 * h
  PROVE  \E t \in Nat : HighestBit(len, 2 * h) = 2 * t /\ len <= 2 * t + 2
<1>1. PICK k \in Nat : len = 2 * k + 1 \/ len = 2 * k + 2
  <2>1. (len - 1) \div 2 \in Nat /\ (len = 2 * ((len - 1) \div 2) + 1 \/ len = 2 * ((len - 1) \div 2) + 2)
    OBVIOUS
  <2> QED
    BY <2>1
<1>2. h \in Nat /\ len \in Nat
  OBVIOUS
<1>4. CASE len = 2 * k + 1
  <2>1. (2 * h - len) % 2 = 1
    BY <1>2, <1>4
  <2> QED
    BY <1>2, <1>4, <2>1 DEF HighestBit
<1>5. CASE len = 2 * k + 2
  <2>1. (2 * h - len) % 2 = 0
    BY <1>2, <1>5
  <2> QED
    BY <1>2, <1>5, <2>1 DEF HighestBit
<1> QED
  BY <1>1, <1>4, <1>5

\* The root of a number of 2*h bits is the nearest one, or the greatest of h bits.
LEMMA RootNearest ==
  ASSUME NEW h \in 0 .. 32, NEW num \in 0 .. Pow2(2 * h) - 1
  PROVE  LET top == Pow2(h) - 1
         IN Root(num, 2 * h) = IF Nearest(num) > top THEN top ELSE Nearest(num)
<1> DEFINE top == Pow2(h) - 1
           len == mostSignificantBit(num)
<1>1. num \in Nat /\ top \in Nat /\ top + 1 = Pow2(h) /\ num < (top + 1) * (top + 1)
  <2>1. h \in Nat /\ 2 * h \in Nat /\ 2 * h = h + h
    OBVIOUS
  <2>2. Pow2(h) \in Nat \ {0} /\ Pow2(2 * h) \in Nat \ {0}
    BY <2>1, PowsRise
  <2>3. Pow2(2 * h) = Pow2(h) * Pow2(h)
    BY <2>1, PowOfSum
  <2>4. num < Pow2(2 * h) /\ num \in Nat
    BY <2>2
  <2> QED
    BY <2>2, <2>3, <2>4
<1>2. CASE num = 0
  <2>1. Root(num, 2 * h) = 0
    BY <1>2 DEF Root
  <2>2. 0 * 0 <= num /\ num < (0 + 1) * (0 + 1) /\ ~ (num - 0 * 0 > 0)
    BY <1>2
  <2>3. Nearest(num) = 0
    BY <1>1, <2>2, NearestIs
  <2> QED
    BY <1>1, <2>1, <2>3
<1>3. CASE num # 0
  <2>1. len \in 1 .. 2 * h /\ num < Pow2(len)
    <3>1. 2 * h \in 0 .. 64
      OBVIOUS
    <3>2. len \in 0 .. 2 * h /\ num < Pow2(len)
      BY <3>1, BitsOfNumber
    <3>3. len # 0
      BY <1>1, <1>3, <3>2, PowSteps
    <3> QED
      BY <3>2, <3>3
  <2>2. PICK t \in Nat : HighestBit(len, 2 * h) = 2 * t /\ len <= 2 * t + 2
    <3> HIDE DEF len
    <3> QED
      BY <2>1, HighestEvenBit
  <2>3. num < Pow2(t + 1) * Pow2(t + 1)
    <3>1. t + 1 \in Nat /\ 2 * t + 2 = (t + 1) + (t + 1) /\ 2 * t + 2 \in Nat /\ len \in 0 .. 2 * t + 2
      BY <2>1, <2>2
    <3>2. Pow2(2 * t + 2) = Pow2(t + 1) * Pow2(t + 1)
      BY <3>1, PowOfSum
    <3>3. Pow2(len) <= Pow2(2 * t + 2) /\ Pow2(len) \in Nat /\ Pow2(2 * t + 2) \in Nat
      BY <3>1, PowsRise
    <3> HIDE DEF len
    <3> QED
      BY <1>1, <2>1, <3>2, <3>3
  <2> DEFINE last == RootRun([num |-> num, res |-> 0, bit |-> Pow2(2 * t)], t + 1)[t + 1]
             R == last.res
  <2>4. R \in Nat /\ last.num = num - R * R /\ R * R <= num /\ num < (R + 1) * (R + 1)
    BY <1>1, <2>3, RootFound
  <2>5. Root(num, 2 * h) = IF last.num > R /\ R # Pow2((2 * h) \div 2) - 1 THEN R + 1 ELSE R
    <3>1. Root(num, 2 * h) = RootOf(num, 2 * h, 2 * t)
      BY <1>3, <2>2, RootIsRun
    <3>2. (2 * t) \div 2 + 1 = t + 1
      OBVIOUS
    <3> QED
      BY <3>1, <3>2 DEF RootOf
  <2>6. (2 * h) \div 2 = h
    OBVIOUS
  <2> HIDE DEF last
  <2>7. Root(num, 2 * h) = IF last.num > R /\ R # top THEN R + 1 ELSE R
    BY <2>5, <2>6
  <2> HIDE DEF R, top
  <2>8. Nearest(num) = IF num - R * R > R THEN R + 1 ELSE R
    BY <1>1, <2>4, NearestIs
  <2>9. R <= top
    <3> SUFFICES ASSUME R > top PROVE FALSE
      BY <1>1, <2>4
    <3> DEFINE d == R - top - 1
    <3>1. d \in Nat /\ R = (top + 1) + d
      BY <1>1, <2>4
    <3> HIDE DEF d
    <3>2. R * R = (top + 1) * (top + 1) + (2 * ((top + 1) * d) + d * d) /\ (top + 1) * d \in Nat /\ d * d \in Nat
      BY <1>1, <3>1
    <3>3. (top + 1) * (top + 1) \in Nat
      BY <1>1
    <3> QED
      BY <1>1, <2>4, <3>2, <3>3
  <2>10. R * R \in Nat
    BY <2>4
  <2> QED
    BY <1>1, <2>4, <2>7, <2>8, <2>9, <2>10 DEF top
<1> QED
  BY <1>2, <1>3

\* The root is the nearest one, or the greatest of its word, for every number of
\* an accumulator of any width that four divides, the shortcut for half the width
\* included.
THEOREM RootsAreTheNearest == Spec => []RootsAreNearest
<1>1. RoutinesInv => RootsAreNearest
  <2> DEFINE num == call.num
             half == AccBits \div 2
             quarter == half \div 2
  <2> SUFFICES ASSUME RoutinesInv, Returned("sqrt")
               PROVE  RootsAreNearest
    BY DEF RootsAreNearest
  <2>1. call \in Calls /\ result = <<Result(call)>> /\ call.routine = "sqrt"
    BY DEF RoutinesInv, Returned
  <2>2. result[1] = sqrt(num)
    BY <2>1 DEF Result
  <2>3. num \in 0 .. Pow2(AccBits) - 1
    BY <2>1, CallsAssumption DEF ArgumentsOK
  <2>4. /\ half \in 0 .. 32 /\ AccBits = 2 * half
        /\ quarter \in 0 .. 32 /\ half = 2 * quarter
    BY StagesAssumption
  <2> HIDE DEF num, half, quarter
  <2>5. num < Pow2(half) => num \in 0 .. Pow2(2 * quarter) - 1
    <3>1. Pow2(half) \in Nat
      BY <2>4, PowsRise
    <3> QED
      BY <2>3, <2>4, <3>1
  <2>6. num \in 0 .. Pow2(2 * half) - 1
    BY <2>3, <2>4
  <2>7. sqrt(num) = IF num < Pow2(half) THEN Root(num, half) ELSE Root(num, AccBits)
    BY DEF sqrt, half
  <2>8. CASE num < Pow2(half)
    <3> DEFINE top == Pow2(quarter) - 1
    <3>1. Root(num, 2 * quarter) = IF Nearest(num) > top THEN top ELSE Nearest(num)
      BY <2>4, <2>5, <2>8, RootNearest
    <3>2. result[1] = IF Nearest(num) > top THEN top ELSE Nearest(num)
      BY <2>2, <2>4, <2>7, <2>8, <3>1
    <3> QED
      BY <2>8, <3>2 DEF RootsAreNearest, num, half, quarter
  <2>9. CASE ~ (num < Pow2(half))
    <3> DEFINE top == Pow2(half) - 1
    <3>1. Root(num, 2 * half) = IF Nearest(num) > top THEN top ELSE Nearest(num)
      BY <2>4, <2>6, RootNearest
    <3>2. result[1] = IF Nearest(num) > top THEN top ELSE Nearest(num)
      BY <2>2, <2>4, <2>7, <2>9, <3>1
    <3> QED
      BY <2>9, <3>2 DEF RootsAreNearest, num, half
  <2> QED
    BY <2>8, <2>9
<1> QED
  BY ReturnsResult, <1>1, PTL

-----------------------------------------------------------------------------
(* The requantization. *)

\* A number is below its power of two.
LEMMA BelowItsPower ==
  ASSUME NEW n \in Nat
  PROVE  n < Pow2(n)
<1> DEFINE S == {k \in 0 .. n : k < Pow2(k)}
<1>1. 0 \in S
  BY PowSteps
<1>2. ASSUME NEW k \in 1 .. n, k - 1 \in S
      PROVE  k \in S
  <2>1. k - 1 \in Nat /\ (k - 1) + 1 = k
    OBVIOUS
  <2>2. Pow2(k) = 2 * Pow2(k - 1) /\ Pow2(k - 1) \in Int
    BY <2>1, PowSteps
  <2>3. k - 1 < Pow2(k - 1)
    BY <1>2
  <2> QED
    BY <2>2, <2>3
<1>3. S \in SUBSET (0 .. n) /\ n \in 0 .. n
  OBVIOUS
<1> HIDE DEF S
<1>4. n \in S
  BY <1>1, <1>2, <1>3, EveryPlace
<1> QED
  BY <1>4 DEF S

\* Every positive fraction has an exponent.
LEMMA ExponentIs ==
  ASSUME NEW n \in Nat \ {0}, NEW d \in Nat \ {0}
  PROVE  LET e == Exponent(n, d)
         IN e \in Int /\ n * Down(e) < d * Up(e) /\ 2 * n * Down(e) >= d * Up(e)
<1>1. CASE n >= d
  <2> DEFINE Is(e) == n < d * Pow2(e) /\ 2 * n >= d * Pow2(e)
             c == CHOOSE e \in 1 .. n : Is(e)
  <2>1. \E e \in 1 .. n : Is(e)
    <3> SUFFICES ASSUME \A e \in 1 .. n : ~Is(e) PROVE FALSE
      OBVIOUS
    <3> DEFINE S == {k \in 0 .. n : n >= d * Pow2(k)}
    <3>1. 0 \in S
      BY <1>1, PowSteps
    <3>2. ASSUME NEW k \in 1 .. n, k - 1 \in S
          PROVE  k \in S
      <4> DEFINE p == Pow2(k - 1)
      <4>1. k - 1 \in Nat /\ (k - 1) + 1 = k
        OBVIOUS
      <4>2. Pow2(k) = 2 * p /\ p \in Int
        BY <4>1, PowSteps
      <4>3. n >= d * p
        BY <3>2
      <4> HIDE DEF p
      <4>4. d * Pow2(k) = 2 * (d * p) /\ d * p \in Int
        BY <4>2
      <4>5. 2 * n >= d * Pow2(k)
        BY <4>3, <4>4
      <4>6. ~ (n < d * Pow2(k))
        BY <4>5
      <4> QED
        BY <4>4, <4>6
    <3>3. S \in SUBSET (0 .. n) /\ n \in 0 .. n
      OBVIOUS
    <3> HIDE DEF S
    <3>4. n \in S
      BY <3>1, <3>2, <3>3, EveryPlace
    <3>5. n < Pow2(n) /\ Pow2(n) \in Int
      BY BelowItsPower, PowSteps
    <3>6. d * Pow2(n) >= Pow2(n)
      BY <3>5
    <3>7. d * Pow2(n) \in Int
      BY <3>5
    <3> QED
      BY <3>4, <3>5, <3>6, <3>7 DEF S
  <2>2. c \in 1 .. n /\ Is(c)
    <3> HIDE DEF Is
    <3> QED
      BY <2>1
  <2>3. Exponent(n, d) = c
    BY <1>1 DEF Exponent
  <2> HIDE DEF c
  <2>4. Down(c) = 1 /\ Up(c) = Pow2(c) /\ c \in Int
    BY <2>2 DEF Up, Down
  <2>5. n * 1 = n /\ 2 * n * 1 = 2 * n
    OBVIOUS
  <2> QED
    BY <2>2, <2>3, <2>4, <2>5
<1>2. CASE ~ (n >= d)
  <2> DEFINE Is(k) == n * Pow2(k) < d /\ 2 * n * Pow2(k) >= d
             c == CHOOSE k \in 0 .. d : Is(k)
  <2>1. \E k \in 0 .. d : Is(k)
    <3> SUFFICES ASSUME \A k \in 0 .. d : ~Is(k) PROVE FALSE
      OBVIOUS
    <3> DEFINE S == {k \in 0 .. d : n * Pow2(k) < d}
    <3>1. 0 \in S
      BY <1>2, PowSteps
    <3>2. ASSUME NEW k \in 1 .. d, k - 1 \in S
          PROVE  k \in S
      <4> DEFINE p == Pow2(k - 1)
      <4>1. k - 1 \in Nat /\ (k - 1) + 1 = k /\ k - 1 \in 0 .. d
        OBVIOUS
      <4>2. Pow2(k) = 2 * p /\ p \in Int
        BY <4>1, PowSteps
      <4>3. n * p < d /\ ~Is(k - 1)
        BY <3>2, <4>1
      <4>4. ~ (2 * n * p >= d)
        BY <4>3
      <4> HIDE DEF p
      <4>5. n * Pow2(k) = 2 * n * p /\ n * p \in Int /\ 2 * n * p \in Int
        BY <4>2
      <4> QED
        BY <4>4, <4>5
    <3>3. S \in SUBSET (0 .. d) /\ d \in 0 .. d
      OBVIOUS
    <3> HIDE DEF S
    <3>4. d \in S
      BY <3>1, <3>2, <3>3, EveryPlace
    <3>5. d < Pow2(d) /\ Pow2(d) \in Int
      BY BelowItsPower, PowSteps
    <3>6. n * Pow2(d) >= Pow2(d)
      BY <3>5
    <3>7. n * Pow2(d) \in Int
      BY <3>5
    <3> QED
      BY <3>4, <3>5, <3>6, <3>7 DEF S
  <2>2. c \in 0 .. d /\ Is(c)
    <3> HIDE DEF Is
    <3> QED
      BY <2>1
  <2>3. Exponent(n, d) = -c
    BY <1>2 DEF Exponent
  <2> HIDE DEF c
  <2>4. Down(-c) = Pow2(c) /\ Up(-c) = 1 /\ -c \in Int
    <3>1. CASE c = 0
      BY <3>1, PowSteps DEF Up, Down
    <3>2. CASE c # 0
      <4>1. c \in Nat /\ -c < 0 /\ ~ (-c > 0) /\ -(-c) = c
        BY <2>2, <3>2
      <4> QED
        BY <4>1 DEF Up, Down
    <3> QED
      BY <3>1, <3>2
  <2>5. d * 1 = d
    OBVIOUS
  <2> QED
    BY <2>2, <2>3, <2>4, <2>5
<1> QED
  BY <1>1, <1>2

\* A quotient and its remainder.
LEMMA Divided ==
  ASSUME NEW A \in Int, NEW b \in Nat \ {0}
  PROVE  A \div b \in Int /\ (A % b) \in 0 .. b - 1 /\ A = b * (A \div b) + (A % b)
  OBVIOUS

\* A fraction a/b of at least a half and less than one, in units of 1/M.
LEMMA RoundedShare ==
  ASSUME NEW a \in Nat, NEW b \in Nat \ {0}, NEW M \in Nat, a < b, 2 * a >= b,
         NEW aM, aM = a * M
  PROVE  LET q == (2 * aM + b) \div (2 * b)
         IN q \in Nat /\ 2 * (q * b - aM) <= b /\ -b <= 2 * (q * b - aM) /\ M <= 2 * q /\ q <= M
<1> DEFINE q == (2 * aM + b) \div (2 * b)
<1>1. aM \in Nat /\ q \in Int
  OBVIOUS
<1>2. (2 * b) * q <= 2 * aM + b /\ 2 * aM + b < (2 * b) * q + 2 * b
  <2> DEFINE A == 2 * aM + b
             B == 2 * b
  <2>1. A \in Int /\ B \in Nat \ {0}
    BY <1>1
  <2> HIDE DEF A, B
  <2>2. B * (A \div B) <= A /\ A < B * (A \div B) + B
    <3>1. A = B * (A \div B) + (A % B) /\ (A % B) \in 0 .. B - 1 /\ A \div B \in Int
      BY <2>1, Divided
    <3>2. B * (A \div B) \in Int
      BY <2>1, <3>1
    <3> QED
      BY <2>1, <3>1, <3>2
  <2> QED
    BY <2>2 DEF A, B
<1> HIDE DEF q
<1>3. (2 * b) * q = 2 * (q * b) /\ q * b \in Int
  BY <1>1
<1>4. b * M \in Nat /\ aM <= b * M /\ 2 * aM >= b * M
  OBVIOUS
<1>5. ~ (q > M)
  <2> SUFFICES ASSUME q > M PROVE FALSE
    OBVIOUS
  <2>1. q * b >= b * M + b
    <3>1. q - M - 1 \in Nat
      BY <1>1
    <3>2. (q - M - 1) * b \in Nat /\ (q - M - 1) * b = q * b - b * M - b
      BY <1>1, <3>1
    <3> QED
      BY <1>3, <1>4, <3>2
  <2> QED
    BY <1>1, <1>2, <1>3, <1>4, <2>1
<1>6. ~ (2 * q < M)
  <2> SUFFICES ASSUME 2 * q < M PROVE FALSE
    OBVIOUS
  <2>1. M - 2 * q - 1 \in Nat
    BY <1>1
  <2>2. (M - 2 * q - 1) * b \in Nat /\ (M - 2 * q - 1) * b = b * M - 2 * (q * b) - b
    BY <1>1, <2>1
  <2> QED
    BY <1>1, <1>2, <1>3, <1>4, <2>2
<1>7. q \in Nat
  BY <1>1, <1>6
<1> QED
  BY <1>1, <1>2, <1>3, <1>5, <1>6, <1>7 DEF q

\* Half of a number's multiple added, a quotient is the nearest.
LEMMA NearestQuotient ==
  ASSUME NEW A \in Int, NEW h \in Nat \ {0}, NEW n \in {h - 1, h}, NEW M, M = 2 * h
  PROVE  LET k == (A + n) \div M IN k \in Int /\ 2 * (k * M - A) <= M /\ -M <= 2 * (k * M - A)
<1> DEFINE B == A + n
           k == B \div M
           r == B % M
<1>1. B \in Int /\ M \in Nat \ {0} /\ n \in Int
  OBVIOUS
<1>2. k \in Int /\ r \in 0 .. M - 1 /\ B = M * k + r
  <2> HIDE DEF B
  <2> QED
    BY <1>1, Divided
<1> HIDE DEF k, r
<1>3. M * k = k * M /\ k * M \in Int
  BY <1>1, <1>2
<1> QED
  BY <1>1, <1>2, <1>3 DEF k

\* The high half of the doubled product, rounded to the nearest word.
LEMMA HighHalf ==
  ASSUME NEW X \in Int, NEW s \in Nat
  PROVE  LET M == Pow2(Bits - 1)
             Y == SaturatingRoundingDoublingHighMul(X, s)
         IN Y \in Int /\ 2 * (Y * M - X * s) <= M /\ -M <= 2 * (Y * M - X * s)
<1> DEFINE M == Pow2(Bits - 1)
           h == Pow2(Bits - 2)
           Y == SaturatingRoundingDoublingHighMul(X, s)
           p == X * s
<1>1. h \in Nat \ {0} /\ M = 2 * h /\ M \in Nat \ {0} /\ p \in Int
  <2>1. Bits - 2 \in Nat /\ (Bits - 2) + 1 = Bits - 1
    BY FixedPointAssumption
  <2>2. h \in Nat \ {0} /\ Pow2(Bits - 1) = 2 * h
    BY <2>1, PowSteps, PowsRise
  <2> QED
    BY <2>2
<1>2. ~ (X = MinWord /\ s = MinWord)
  BY <1>1 DEF MinWord
<1>3. Y = Towards0(p + (IF p >= 0 THEN h ELSE 1 - h), M)
  BY <1>2 DEF SaturatingRoundingDoublingHighMul
<1> HIDE DEF Y, M, h, p
<1>4. CASE p >= 0
  <2>1. Y = (p + h) \div M
    <3>1. p + h >= 0
      BY <1>1, <1>4
    <3> QED
      BY <1>3, <1>4, <3>1 DEF Towards0
  <2>2. Y \in Int /\ 2 * (Y * M - p) <= M /\ -M <= 2 * (Y * M - p)
    BY <1>1, <2>1, NearestQuotient
  <2> QED
    BY <2>2 DEF Y, M, p
<1>5. CASE ~ (p >= 0)
  <2> DEFINE A == -p
             k == (A + (h - 1)) \div M
  <2>1. Y = -k
    <3>1. ~ (p + (1 - h) >= 0) /\ -(p + (1 - h)) = A + (h - 1)
      BY <1>1, <1>5
    <3> QED
      BY <1>3, <1>5, <3>1 DEF Towards0
  <2>2. k \in Int /\ 2 * (k * M - A) <= M /\ -M <= 2 * (k * M - A)
    <3>1. A \in Int /\ h - 1 \in {h - 1, h}
      BY <1>1
    <3> HIDE DEF A
    <3> QED
      BY <1>1, <3>1, NearestQuotient
  <2> HIDE DEF k
  <2>3. Y \in Int /\ Y * M = -(k * M) /\ k * M \in Int
    BY <1>1, <2>1, <2>2
  <2>4. 2 * (Y * M - p) <= M /\ -M <= 2 * (Y * M - p)
    BY <1>1, <2>2, <2>3
  <2> QED
    BY <2>3, <2>4 DEF Y, M, p
<1> QED
  BY <1>4, <1>5

\* The division by a power of two, rounded to the nearest.
LEMMA NearestPower ==
  ASSUME NEW Y \in Int, NEW r \in Nat
  PROVE  LET two == Pow2(r)
             Z == RoundingDivideByPOT(Y, r)
         IN /\ Z \in Int
            /\ 2 * (Z * two - Y) <= (IF r > 0 THEN two ELSE 0) /\ -(IF r > 0 THEN two ELSE 0) <= 2 * (Z * two - Y)
<1> DEFINE two == Pow2(r)
           Z == RoundingDivideByPOT(Y, r)
           t == IF Y < 0 THEN (two - 1) \div 2 + 1 ELSE (two - 1) \div 2
           k == Y \div two
           m == Y % two
<1>1. two \in Nat \ {0}
  BY PowsRise
<1>2. Z = IF m > t THEN k + 1 ELSE k
  BY DEF RoundingDivideByPOT
<1> HIDE DEF two, Z
<1>3. k \in Int /\ m \in 0 .. two - 1 /\ Y = two * k + m
  BY <1>1
<1>4. CASE r = 0
  <2>1. two = 1
    BY <1>4, PowSteps DEF two
  <2> HIDE DEF k, m
  <2>2. m = 0 /\ k = Y /\ t \in {0, 1}
    BY <1>3, <2>1
  <2>3. Z = Y /\ Z * two = Y
    BY <1>2, <2>1, <2>2
  <2> QED
    BY <1>4, <2>3 DEF two, Z
<1>5. CASE r # 0
  <2> DEFINE h == Pow2(r - 1)
  <2>1. h \in Nat \ {0} /\ two = 2 * h
    <3>1. r - 1 \in Nat /\ (r - 1) + 1 = r
      BY <1>5
    <3> QED
      BY <3>1, PowSteps, PowsRise DEF two
  <2> HIDE DEF h
  <2>2. (two - 1) \div 2 = h - 1
    BY <2>1
  <2>3. t \in {h - 1, h}
    BY <2>1, <2>2
  <2> HIDE DEF t, k, m
  <2>4. k * two = two * k /\ k * two \in Int /\ (k + 1) * two = k * two + two
    BY <1>1, <1>3
  <2>5. Z \in Int /\ 2 * (Z * two - Y) <= two /\ -two <= 2 * (Z * two - Y)
    <3>1. CASE m > t
      <4>1. Z = k + 1 /\ Z * two = k * two + two
        BY <1>2, <2>4, <3>1
      <4> QED
        BY <1>1, <1>3, <2>1, <2>3, <2>4, <3>1, <4>1
    <3>2. CASE ~ (m > t)
      <4>1. Z = k /\ Z * two = k * two
        BY <1>2, <3>2
      <4> QED
        BY <1>1, <1>3, <2>1, <2>3, <2>4, <3>2, <4>1
    <3> QED
      BY <3>1, <3>2
  <2>6. r > 0
    BY <1>5
  <2> QED
    BY <2>5, <2>6 DEF two, Z
<1> QED
  BY <1>4, <1>5

\* A product is bounded by the product of the bounds.
LEMMA BoundedProduct ==
  ASSUME NEW X \in Int, NEW E \in Int, NEW M \in Nat, NEW b \in Nat, -M <= X, X <= M, -b <= 2 * E, 2 * E <= b
  PROVE  2 * (X * E) <= M * b /\ -(M * b) <= 2 * (X * E)
<1>1. (M - X) * (b - 2 * E) >= 0 /\ (M + X) * (b + 2 * E) >= 0 /\ (M - X) * (b + 2 * E) >= 0 /\ (M + X) * (b - 2 * E) >= 0
  <2>1. M - X \in Nat /\ M + X \in Nat /\ b - 2 * E \in Nat /\ b + 2 * E \in Nat
    OBVIOUS
  <2>2. \A i, j \in Nat : i * j >= 0
    OBVIOUS
  <2> QED
    BY <2>1, <2>2
<1>2. /\ M * b \in Int /\ X * E \in Int /\ M * E \in Int /\ X * b \in Int
      /\ (M - X) * (b - 2 * E) = M * b - 2 * (M * E) - X * b + 2 * (X * E)
      /\ (M + X) * (b + 2 * E) = M * b + 2 * (M * E) + X * b + 2 * (X * E)
      /\ (M - X) * (b + 2 * E) = M * b + 2 * (M * E) - X * b - 2 * (X * E)
      /\ (M + X) * (b - 2 * E) = M * b - 2 * (M * E) + X * b - 2 * (X * E)
  OBVIOUS
<1> QED
  BY <1>1, <1>2

\* A common factor.
LEMMA CommonFactor ==
  ASSUME NEW K \in Nat \ {0}, NEW a \in Int, NEW c \in Int, K * a <= K * c
  PROVE  a <= c
<1> SUFFICES ASSUME a > c PROVE FALSE
  OBVIOUS
<1>1. a - c - 1 \in Nat
  OBVIOUS
<1>2. K * (a - c - 1) \in Nat /\ K * (a - c - 1) = K * a - K * c - K /\ K * a \in Int /\ K * c \in Int
  BY <1>1
<1> QED
  BY <1>2

\* The two roundings, and that of the multiplier, together.
LEMMA RoundingsTogether ==
  ASSUME NEW x \in Int, NEW n \in Nat, NEW d \in Nat \ {0}, NEW Z \in Int, NEW s \in Int,
         NEW U \in Nat \ {0}, NEW W \in Nat \ {0}, NEW M \in Nat \ {0}, NEW D \in Nat,
         -M <= x * U, x * U <= M,
         2 * (Z * W * M - x * U * s) <= M + D * M, -(M + D * M) <= 2 * (Z * W * M - x * U * s),
         2 * (s * (d * U) - n * W * M) <= d * U, -(d * U) <= 2 * (s * (d * U) - n * W * M)
  PROVE  2 * (W * (Z * d - x * n)) <= 2 * d + D * d /\ -(2 * d + D * d) <= 2 * (W * (Z * d - x * n))
<1> DEFINE X == x * U
           b == d * U
           E1 == Z * W * M - X * s
           E2 == s * b - n * W * M
           T == W * (Z * d - x * n)
           K == M * U
           N == M + D * M
<1>1. X \in Int /\ b \in Nat \ {0} /\ E1 \in Int /\ E2 \in Int /\ T \in Int /\ K \in Nat \ {0} /\ N \in Nat
  <2>1. Z * W * M \in Int /\ n * W * M \in Int /\ X \in Int /\ b \in Nat \ {0}
    OBVIOUS
  <2>2. X * s \in Int /\ s * b \in Int
    BY <2>1
  <2> QED
    BY <2>1, <2>2
<1>2. E1 * b + X * E2 = K * T
  OBVIOUS
<1>3. 2 * (X * E2) <= M * b /\ -(M * b) <= 2 * (X * E2)
  <2> HIDE DEF X, b
  <2>1. -M <= X /\ X <= M /\ 2 * E2 <= b /\ -b <= 2 * E2
    BY DEF X, b
  <2> HIDE DEF E2
  <2> QED
    BY <1>1, <2>1, BoundedProduct
<1>4. 2 * (b * E1) <= b * N /\ -(b * N) <= 2 * (b * E1)
  <2>1. 2 * E1 <= N /\ -N <= 2 * E1 /\ -b <= b /\ b <= b
    BY <1>1
  <2> HIDE DEF E1, N, b
  <2> QED
    BY <1>1, <2>1, BoundedProduct
<1>5. b * N + M * b = K * (2 * d + D * d) /\ E1 * b = b * E1
  <2>1. b * N + M * b = K * (2 * d + D * d)
    OBVIOUS
  <2>2. E1 * b = b * E1
    BY <1>1
  <2> QED
    BY <2>1, <2>2
<1>6. 2 * d + D * d \in Int /\ b * N \in Int /\ M * b \in Int /\ b * E1 \in Int /\ X * E2 \in Int /\ K * T \in Int
  BY <1>1
<1> DEFINE L == 2 * d + D * d
<1> HIDE DEF X, b, E1, E2, T, K, N, L
<1>7. 2 * (K * T) <= K * L /\ -(K * L) <= 2 * (K * T)
  BY <1>2, <1>3, <1>4, <1>5, <1>6 DEF L
<1>8. L \in Int /\ 2 * T \in Int /\ -L \in Int /\ K * (2 * T) = 2 * (K * T) /\ K * (-L) = -(K * L)
  BY <1>1, <1>6 DEF L
<1>9. K * (2 * T) <= K * L /\ K * (-L) <= K * (2 * T)
  BY <1>7, <1>8
<1>10. 2 * T <= L /\ -L <= 2 * T
  BY <1>1, <1>8, <1>9, CommonFactor
<1> QED
  BY <1>10 DEF T, L

\* A shift's two factors.
LEMMA ShiftFactors ==
  ASSUME NEW e \in Int
  PROVE  /\ Up(e) \in Nat \ {0} /\ Down(e) \in Nat \ {0}
         /\ e >= 0 => Down(e) = 1 /\ Up(e) = Pow2(e)
         /\ e <= 0 => Up(e) = 1 /\ Down(e) = Pow2(-e)
<1>1. CASE e > 0
  <2>1. e \in Nat /\ ~ (e < 0)
    BY <1>1
  <2> QED
    BY <1>1, <2>1, PowsRise DEF Up, Down
<1>2. CASE e = 0
  BY <1>2, PowSteps DEF Up, Down
<1>3. CASE e < 0
  <2>1. -e \in Nat /\ ~ (e > 0) /\ ~ (e >= 0)
    BY <1>3
  <2> QED
    BY <1>3, <2>1, PowsRise DEF Up, Down
<1> QED
  BY <1>1, <1>2, <1>3

\* A word shifted, multiplied and shifted, rounded twice.
LEMMA RoundedTwice ==
  ASSUME NEW x \in Int, NEW s \in Nat, NEW shift \in Int, x * Up(shift) \in Words
  PROVE  LET M == Pow2(Bits - 1)
             D == IF shift < 0 THEN Down(shift) ELSE 0
             Z == MultiplyByQuantizedMultiplier(x, s, shift)
         IN /\ Z \in Int
            /\ 2 * (Z * Down(shift) * M - x * Up(shift) * s) <= M + D * M
            /\ -(M + D * M) <= 2 * (Z * Down(shift) * M - x * Up(shift) * s)
<1> DEFINE M == Pow2(Bits - 1)
           W == Down(shift)
           D == IF shift < 0 THEN W ELSE 0
           Z == MultiplyByQuantizedMultiplier(x, s, shift)
           left == IF shift > 0 THEN shift ELSE 0
           right == IF shift > 0 THEN 0 ELSE -shift
           X == x * Up(shift)
           Y == SaturatingRoundingDoublingHighMul(X, s)
           p == X * s
<1>1. M \in Nat \ {0} /\ Bits - 1 \in Nat
  BY FixedPointAssumption, PowsRise
<1>2. right \in Nat /\ Pow2(left) = Up(shift) /\ Pow2(right) = W /\ (right > 0 <=> shift < 0)
  <2>1. CASE shift > 0
    BY <2>1, ShiftFactors, PowSteps
  <2>2. CASE ~ (shift > 0)
    <3>1. shift <= 0 /\ -shift \in Nat /\ (-shift > 0 <=> shift < 0)
      BY <2>2
    <3> QED
      BY <2>2, <3>1, ShiftFactors, PowSteps
  <2> QED
    BY <2>1, <2>2
<1>3. W \in Nat \ {0} /\ Up(shift) \in Nat \ {0} /\ X \in Int /\ p \in Int
  BY ShiftFactors
<1>4. Word(X) = X
  <2>1. Pow2(Bits) = 2 * M
    <3>1. (Bits - 1) + 1 = Bits
      BY FixedPointAssumption
    <3> QED
      BY <1>1, <3>1, PowSteps
  <2> HIDE DEF X, M
  <2>2. X >= -M /\ X < M
    BY <1>1, <1>3 DEF Words, MinWord, MaxWord, M, X
  <2>3. (X + M) % (2 * M) = X + M
    <3>1. X + M \in 0 .. 2 * M - 1 /\ 2 * M \in Nat \ {0}
      BY <1>1, <1>3, <2>2
    <3> DEFINE A == X + M
               B == 2 * M
    <3> HIDE DEF A, B
    <3>2. A % B = A
      BY <3>1 DEF A, B
    <3> QED
      BY <3>2 DEF A, B
  <2>4. X - (-M) = X + M /\ (X + M) + (-M) = X
    BY <1>1, <1>3
  <2> QED
    BY <2>1, <2>3, <2>4 DEF Word, MinWord, M
<1>5. Z = RoundingDivideByPOT(Y, right)
  <2>1. Z = RoundingDivideByPOT(SaturatingRoundingDoublingHighMul(Word(x * Pow2(left)), s), right)
    BY DEF MultiplyByQuantizedMultiplier
  <2> QED
    BY <1>2, <1>4, <2>1
<1> HIDE DEF X, right
<1>6. Y \in Int /\ 2 * (Y * M - p) <= M /\ -M <= 2 * (Y * M - p)
  BY <1>3, HighHalf
<1> HIDE DEF Y, p
<1>7. Z \in Int /\ 2 * (Z * W - Y) <= D /\ -D <= 2 * (Z * W - Y)
  <2>1. RoundingDivideByPOT(Y, right) \in Int
        /\ 2 * (RoundingDivideByPOT(Y, right) * Pow2(right) - Y) <= (IF right > 0 THEN Pow2(right) ELSE 0)
        /\ -(IF right > 0 THEN Pow2(right) ELSE 0) <= 2 * (RoundingDivideByPOT(Y, right) * Pow2(right) - Y)
    BY <1>2, <1>6, NearestPower
  <2>2. D = IF right > 0 THEN Pow2(right) ELSE 0
    BY <1>2
  <2> HIDE DEF D, Z, W
  <2> QED
    BY <1>2, <1>5, <2>1, <2>2
<1>8. D \in Nat /\ D * M \in Int
  BY <1>1, <1>3
<1> HIDE DEF M, W, D, Z
<1>9. 2 * (M * (Z * W - Y)) <= M * D /\ -(M * D) <= 2 * (M * (Z * W - Y))
  <2> DEFINE E == Z * W - Y
  <2>1. E \in Int /\ -M <= M /\ M <= M /\ M \in Int /\ M \in Nat
    BY <1>1, <1>3, <1>6, <1>7
  <2>2. 2 * E <= D /\ -D <= 2 * E
    BY <1>7
  <2> HIDE DEF E
  <2>3. 2 * (M * E) <= M * D /\ -(M * D) <= 2 * (M * E)
    BY <1>8, <2>1, <2>2, BoundedProduct
  <2> QED
    BY <2>3 DEF E
<1>10. M * (Z * W - Y) = Z * W * M - Y * M /\ Z * W * M \in Int /\ Y * M \in Int /\ M * D = D * M
  BY <1>1, <1>3, <1>6, <1>7, <1>8
<1>11. p = x * Up(shift) * s /\ p \in Int
  BY <1>3 DEF p, X
<1>12. 2 * (Z * W * M - p) <= M + D * M /\ -(M + D * M) <= 2 * (Z * W * M - p)
  BY <1>1, <1>6, <1>8, <1>9, <1>10, <1>11
<1> QED
  BY <1>7, <1>11, <1>12 DEF M, W, D, Z

\* The digits of a fraction between a half and one, of its exponent.
LEMMA FixedIs ==
  ASSUME NEW n \in Nat \ {0}, NEW d \in Nat \ {0}
  PROVE  LET M == Pow2(Bits - 1)
             e == Exponent(n, d)
             q == Fixed(n, d, e)
             b == d * Up(e)
             a == n * Down(e) * M
         IN q \in Nat /\ 2 * (q * b - a) <= b /\ -b <= 2 * (q * b - a)
<1> DEFINE M == Pow2(Bits - 1)
           e == Exponent(n, d)
           q == Fixed(n, d, e)
           a == n * Down(e)
           b == d * Up(e)
           aM == a * M
<1>1. M \in Nat \ {0}
  BY FixedPointAssumption, PowsRise
<1>2. e \in Int /\ a < b /\ 2 * n * Down(e) >= b
  BY ExponentIs
<1>3. Up(e) \in Nat \ {0} /\ Down(e) \in Nat \ {0}
  BY <1>2, ShiftFactors
<1> HIDE DEF e
<1>4. a \in Nat \ {0} /\ b \in Nat \ {0} /\ 2 * n * Down(e) = 2 * a
  BY <1>3
<1>5. q = (2 * aM + b) \div (2 * b)
  <2>1. 2 * n * Down(e) * M = 2 * aM /\ 2 * d * Up(e) = 2 * b
    BY <1>1, <1>3
  <2> QED
    BY <2>1 DEF Fixed
<1> HIDE DEF q
<1>6. q \in Nat /\ 2 * (q * b - aM) <= b /\ -b <= 2 * (q * b - aM)
  <2> HIDE DEF a, b
  <2> QED
    BY <1>1, <1>2, <1>4, <1>5, RoundedShare
<1> QED
  BY <1>6 DEF q, e

\* The multiplier: its exact value within its last digit's half, or flushed to 0
\* because a word times it is less than a half.
LEMMA MultiplierIs ==
  ASSUME NEW n \in Nat, NEW d \in Nat \ {0}
  PROVE  LET M == Pow2(Bits - 1)
             m == QuantizeMultiplier(n, d)
             s == m.significand
             b == d * Up(m.shift)
             a == n * Down(m.shift) * M
         IN \/ m = [significand |-> 0, shift |-> 0] /\ 2 * (M * n) <= d
            \/ s \in Nat /\ m.shift \in Int /\ 2 * (s * b - a) <= b /\ -b <= 2 * (s * b - a)
<1> DEFINE M == Pow2(Bits - 1)
           e == Exponent(n, d)
           q == Fixed(n, d, e)
           m == QuantizeMultiplier(n, d)
           exp == IF q = M THEN e + 1 ELSE e
<1>1. M \in Nat \ {0} /\ Bits - 1 \in Nat
  BY FixedPointAssumption, PowsRise
<1>2. m = IF n = 0 \/ exp < 1 - Bits THEN [significand |-> 0, shift |-> 0]
          ELSE [significand |-> IF q = M THEN q \div 2 ELSE q, shift |-> exp]
  BY DEF QuantizeMultiplier
<1>3. CASE n = 0
  <2>1. M * n = 0
    BY <1>1, <1>3
  <2> QED
    BY <1>2, <1>3, <2>1
<1>4. CASE n # 0
  <2> DEFINE a == n * Down(e)
             b == d * Up(e)
             aM == a * M
  <2> HIDE DEF m
  <2>1. e \in Int /\ a < b /\ 2 * n * Down(e) >= b
    BY <1>4, ExponentIs
  <2>2. Up(e) \in Nat \ {0} /\ Down(e) \in Nat \ {0}
    BY <2>1, ShiftFactors
  <2> HIDE DEF e
  <2>3. a \in Nat \ {0} /\ b \in Nat \ {0} /\ 2 * n * Down(e) = 2 * a
    BY <1>4, <2>2
  <2>5. q \in Nat /\ 2 * (q * b - aM) <= b /\ -b <= 2 * (q * b - aM)
    BY <1>4, FixedIs DEF e
  <2> HIDE DEF q
  <2>6. CASE exp < 1 - Bits
    <3>1. e <= -Bits /\ Bits \in Nat /\ e <= 0 /\ Bits \in 0 .. -e /\ -e \in Nat
      BY <2>1, <2>6, FixedPointAssumption
    <3>2. Up(e) = 1 /\ Down(e) = Pow2(-e) /\ Pow2(Bits) <= Pow2(-e)
      BY <2>1, <3>1, ShiftFactors, PowsRise
    <3>3. Pow2(Bits) = 2 * M
      <4>1. (Bits - 1) + 1 = Bits
        BY <3>1
      <4> QED
        BY <1>1, <4>1, PowSteps
    <3>4. 2 * M <= Down(e) /\ b = d
      BY <3>2, <3>3
    <3>5. n * (2 * M) <= n * Down(e) /\ n * (2 * M) = 2 * (M * n)
      <4>1. Down(e) - 2 * M \in Nat
        BY <1>1, <2>2, <3>4
      <4>2. n * (Down(e) - 2 * M) \in Nat /\ n * (Down(e) - 2 * M) = n * Down(e) - n * (2 * M)
        BY <1>1, <2>2, <4>1
      <4>3. n * (2 * M) = 2 * (M * n) /\ n * (2 * M) \in Int
        BY <1>1
      <4> QED
        BY <2>3, <4>2, <4>3
    <3>6. M * n \in Int
      BY <1>1
    <3> HIDE DEF M
    <3>7. 2 * (M * n) <= d
      BY <2>1, <2>3, <3>4, <3>5, <3>6
    <3>8. m = [significand |-> 0, shift |-> 0]
      BY <1>2, <2>6 DEF M
    <3> QED
      BY <3>7, <3>8 DEF m, M
  <2>7. CASE ~ (exp < 1 - Bits) /\ q # M
    <3>1. m = [significand |-> q, shift |-> e]
      BY <1>2, <1>4, <2>7
    <3>2. m.significand = q /\ m.shift = e
      BY <3>1
    <3> QED
      BY <2>1, <2>5, <3>2 DEF m
  <2>8. CASE ~ (exp < 1 - Bits) /\ q = M
    <3> DEFINE h == Pow2(Bits - 2)
               B == d * Up(e + 1)
               A == n * Down(e + 1)
    <3>1. h \in Nat /\ M = 2 * h
      <4>1. Bits - 2 \in Nat /\ (Bits - 2) + 1 = Bits - 1
        BY FixedPointAssumption
      <4> QED
        BY <4>1, PowSteps, PowsRise
    <3>2. m = [significand |-> q \div 2, shift |-> e + 1]
      BY <1>2, <1>4, <2>8
    <3>3. m.significand = h /\ m.shift = e + 1 /\ e + 1 \in Int
      <4>1. (2 * h) \div 2 = h
        BY <3>1
      <4> QED
        BY <2>1, <2>8, <3>1, <3>2, <4>1
    <3>4. 2 * (h * B - A * M) <= B /\ -B <= 2 * (h * B - A * M)
      <4>1. CASE e >= 0
        <5>1. e \in Nat /\ e + 1 \in Nat /\ e + 1 >= 0
          BY <2>1, <4>1
        <5>2. Up(e + 1) = 2 * Up(e) /\ Down(e + 1) = 1 /\ Down(e) = 1
          BY <4>1, <5>1, ShiftFactors, PowSteps
        <5>3. B = 2 * b /\ A * M = aM
          BY <2>2, <5>2
        <5>4. h * B = q * b /\ q * b \in Int /\ aM \in Int
          <6>1. h * (2 * b) = (2 * h) * b
            BY <2>3, <3>1
          <6> QED
            BY <1>1, <2>3, <2>5, <2>8, <3>1, <5>3, <6>1
        <5> HIDE DEF b, B, aM, A, h, M
        <5> QED
          BY <2>3, <2>5, <5>3, <5>4
      <4>2. CASE e < 0
        <5>1. -(e + 1) \in Nat /\ -(e + 1) + 1 = -e /\ e + 1 <= 0 /\ e <= 0
          BY <2>1, <4>2
        <5>2. Down(e) = 2 * Down(e + 1) /\ Up(e + 1) = 1 /\ Up(e) = 1
          BY <2>1, <5>1, ShiftFactors, PowSteps
        <5>3. Down(e + 1) \in Int
          BY <2>1, ShiftFactors
        <5>4. B = b /\ a = 2 * A /\ A \in Int
          BY <5>2, <5>3
        <5>5. aM = 2 * (A * M) /\ A * M \in Int
          BY <1>1, <5>4
        <5>6. q * b = 2 * (h * B) /\ h * B \in Int
          BY <2>3, <2>8, <3>1, <5>4
        <5> HIDE DEF b, B, aM, A, h, M
        <5> QED
          BY <2>3, <2>5, <5>4, <5>5, <5>6
      <4> QED
        BY <2>1, <4>1, <4>2
    <3> QED
      BY <3>1, <3>3, <3>4 DEF m
  <2> QED
    BY <2>6, <2>7, <2>8
<1> QED
  BY <1>3, <1>4

\* A multiplier that is that close scales a word that close.
LEMMA ScalesClose ==
  ASSUME NEW x \in Int, NEW n \in Nat, NEW d \in Nat \ {0}, NEW s \in Nat, NEW shift \in Int,
         x * Up(shift) \in Words,
         2 * (s * (d * Up(shift)) - n * Down(shift) * Pow2(Bits - 1)) <= d * Up(shift),
         -(d * Up(shift)) <= 2 * (s * (d * Up(shift)) - n * Down(shift) * Pow2(Bits - 1))
  PROVE  CloseTo(MultiplyByQuantizedMultiplier(x, s, shift), x, n, d, shift)
<1> DEFINE M == Pow2(Bits - 1)
           U == Up(shift)
           W == Down(shift)
           D == IF shift < 0 THEN W ELSE 0
           Z == MultiplyByQuantizedMultiplier(x, s, shift)
           R == IF shift < -1 THEN -shift ELSE 1
           E == Z * d - x * n
           h == Pow2(R - 1)
<1>1. M \in Nat \ {0}
  BY FixedPointAssumption, PowsRise
<1>2. U \in Nat \ {0} /\ W \in Nat \ {0} /\ D \in Nat
  BY ShiftFactors
<1>3. /\ Z \in Int
      /\ 2 * (Z * W * M - x * U * s) <= M + D * M
      /\ -(M + D * M) <= 2 * (Z * W * M - x * U * s)
  BY RoundedTwice
<1>4. -M <= x * U /\ x * U <= M
  <2>1. x * U \in Int
    BY <1>2
  <2> QED
    BY <1>1, <2>1 DEF Words, MinWord, MaxWord
<1>5. E \in Int
  BY <1>3
<1>6. 2 * (W * E) <= 2 * d + D * d /\ -(2 * d + D * d) <= 2 * (W * E)
  <2> HIDE DEF Z, W, U, M, D
  <2>1. 2 * (s * (d * U) - n * W * M) <= d * U /\ -(d * U) <= 2 * (s * (d * U) - n * W * M)
    BY DEF U, W, M
  <2> QED
    BY <1>1, <1>2, <1>3, <1>4, <2>1, RoundingsTogether
<1> HIDE DEF Z, E
<1>7. R - 1 \in Nat /\ (R - 1) + 1 = R
  OBVIOUS
<1>8. h \in Nat /\ Pow2(R) = 2 * h
  BY <1>7, PowSteps, PowsRise
<1>9. E * Pow2(R) <= d * (h + 1) /\ -(E * Pow2(R)) <= d * (h + 1)
  <2>1. CASE shift >= 0
    <3>1. W = 1 /\ D = 0 /\ R = 1
      BY <2>1, ShiftFactors
    <3>2. h = 1
      BY <3>1, PowSteps
    <3>3. D * d = 0 /\ 2 * (W * E) = 2 * E /\ E * Pow2(R) = 2 * E /\ d * (h + 1) = 2 * d
      BY <1>5, <1>8, <3>1, <3>2
    <3> HIDE DEF W, D, R, h
    <3> QED
      BY <1>5, <1>6, <3>3
  <2>2. CASE shift = -1
    <3>1. R = 1 /\ D = W
      BY <2>2
    <3>2. h = 1 /\ W = Pow2(1)
      BY <2>2, <3>1, PowSteps, ShiftFactors
    <3>3. W = 2
      BY <3>1, <3>2, <1>8
    <3>4. D * d = 2 * d /\ 2 * (W * E) = 4 * E /\ E * Pow2(R) = 2 * E /\ d * (h + 1) = 2 * d
      BY <1>5, <1>8, <3>1, <3>2, <3>3
    <3> HIDE DEF W, D, R, h
    <3> QED
      BY <1>5, <1>6, <3>4
  <2>3. CASE shift < -1
    <3>1. R = -shift /\ D = W /\ shift <= 0
      BY <2>3
    <3>2. W = Pow2(R)
      BY <3>1, ShiftFactors
    <3> HIDE DEF W, D, R, h
    <3>3. W = 2 * h /\ E * Pow2(R) = 2 * (h * E) /\ h * E \in Int /\ h * d \in Int
      BY <1>5, <1>8, <3>2
    <3>4. D * d = 2 * (h * d) /\ 2 * (W * E) = 4 * (h * E) /\ d * (h + 1) = h * d + d
      BY <1>5, <1>8, <3>1, <3>3
    <3> QED
      BY <1>6, <3>3, <3>4
  <2> QED
    BY <2>1, <2>2, <2>3
<1> QED
  BY <1>9 DEF CloseTo, Z, E

\* The same of every fraction, for a word that fits once shifted.
LEMMA ScaledClosely ==
  ASSUME NEW x \in Words, NEW n \in Nat, NEW d \in Nat \ {0},
         x * Up(QuantizeMultiplier(n, d).shift) \in Words
  PROVE  LET m == QuantizeMultiplier(n, d)
         IN CloseTo(MultiplyByQuantizedMultiplier(x, m.significand, m.shift), x, n, d, m.shift)
<1> DEFINE M == Pow2(Bits - 1)
           m == QuantizeMultiplier(n, d)
<1>1. M \in Nat \ {0} /\ x \in Int /\ -M <= x /\ x <= M
  <2>1. M \in Nat \ {0}
    BY FixedPointAssumption, PowsRise
  <2> QED
    BY <2>1 DEF Words, MinWord, MaxWord
<1>2. CASE m = [significand |-> 0, shift |-> 0] /\ 2 * (M * n) <= d
  <2> DEFINE Z == MultiplyByQuantizedMultiplier(x, 0, 0)
  <2>1. m.significand = 0 /\ m.shift = 0
    BY <1>2
  <2>2. Up(0) = 1 /\ Down(0) = 1
    BY ShiftFactors
  <2>3. /\ Z \in Int
        /\ 2 * (Z * 1 * M - x * 1 * 0) <= M + 0 * M
        /\ -(M + 0 * M) <= 2 * (Z * 1 * M - x * 1 * 0)
    <3>1. x * Up(0) \in Words
      BY <1>1, <2>2
    <3>2. /\ Z \in Int
          /\ 2 * (Z * Down(0) * M - x * Up(0) * 0) <= M + (IF 0 < 0 THEN Down(0) ELSE 0) * M
          /\ -(M + (IF 0 < 0 THEN Down(0) ELSE 0) * M) <= 2 * (Z * Down(0) * M - x * Up(0) * 0)
      BY <1>1, <3>1, RoundedTwice
    <3> QED
      BY <2>2, <3>2
  <2> HIDE DEF Z, M
  <2>4. Z = 0
    <3>1. 2 * (Z * M) <= M /\ -M <= 2 * (Z * M)
      <4>1. Z * 1 * M = Z * M /\ x * 1 * 0 = 0 /\ 0 * M = 0 /\ Z * M \in Int
        BY <1>1, <2>3
      <4> QED
        BY <1>1, <2>3, <4>1
    <3>2. Z >= 1 => Z * M >= M
      BY <1>1, <2>3
    <3>3. Z <= -1 => Z * M <= -M
      BY <1>1, <2>3
    <3>4. Z * M \in Int
      BY <1>1, <2>3
    <3> QED
      BY <1>1, <2>3, <3>1, <3>2, <3>3, <3>4
  <2>5. 2 * (x * n) <= 2 * d /\ -(2 * d) <= 2 * (x * n)
    <3>1. -(2 * n) <= 2 * n /\ 2 * n <= 2 * n /\ 2 * n \in Nat
      OBVIOUS
    <3>2. 2 * (x * n) <= M * (2 * n) /\ -(M * (2 * n)) <= 2 * (x * n)
      BY <1>1, <3>1, BoundedProduct
    <3>3. M * (2 * n) = 2 * (M * n) /\ M * n \in Int
      BY <1>1
    <3> QED
      BY <1>1, <1>2, <3>2, <3>3 DEF M
  <2>6. (0 * d - x * n) * 2 = -(2 * (x * n)) /\ d * (1 + 1) = 2 * d /\ x * n \in Int
    BY <1>1
  <2>7. Pow2(1) = 2 /\ Pow2(1 - 1) = 1
    BY PowSteps
  <2>8. CloseTo(0, x, n, d, 0)
    BY <2>5, <2>6, <2>7 DEF CloseTo
  <2> QED
    BY <2>1, <2>4, <2>8 DEF Z
<1>3. CASE /\ m.significand \in Nat /\ m.shift \in Int
           /\ 2 * (m.significand * (d * Up(m.shift)) - n * Down(m.shift) * M) <= d * Up(m.shift)
           /\ -(d * Up(m.shift)) <= 2 * (m.significand * (d * Up(m.shift)) - n * Down(m.shift) * M)
  <2>1. x * Up(m.shift) \in Words
    OBVIOUS
  <2> HIDE DEF m
  <2>2. CloseTo(MultiplyByQuantizedMultiplier(x, m.significand, m.shift), x, n, d, m.shift)
    BY <1>1, <1>3, <2>1, ScalesClose
  <2> QED
    BY <2>2 DEF m
<1> QED
  BY <1>2, <1>3, MultiplierIs

\* QUANTIZE's short cut.
LEMMA FlipIsRequantize ==
  ASSUME NEW x \in Elements, NEW zin \in Elements, NEW zout \in 0 .. MaxUnsigned,
         zin - zout = -Pow2(ElementBits - 1)
  PROVE  FlipSign(x) = requantize(x, [significand |-> Pow2(Bits - 2), shift |-> 1], zin, zout)
<1> DEFINE E == Pow2(ElementBits - 1)
           M == Pow2(Bits - 1)
           h == Pow2(Bits - 2)
           y == x - zin
           Z == MultiplyByQuantizedMultiplier(y, h, 1)
           m == [significand |-> h, shift |-> 1]
<1>1. E \in Nat \ {0} /\ Pow2(ElementBits) = 2 * E
  <2>1. ElementBits - 1 \in Nat /\ (ElementBits - 1) + 1 = ElementBits
    BY FixedPointAssumption
  <2> QED
    BY <2>1, PowSteps, PowsRise
<1>2. h \in Nat \ {0} /\ M = 2 * h /\ 2 * E <= h
  <2>1. Bits - 2 \in Nat /\ (Bits - 2) + 1 = Bits - 1 /\ ElementBits \in 0 .. Bits - 2
    BY FixedPointAssumption
  <2> QED
    BY <1>1, <2>1, PowSteps, PowsRise
<1>3. x \in -E .. E - 1 /\ zin \in -E .. E - 1 /\ zout \in 0 .. 2 * E - 1
  BY <1>1 DEF Elements, MaxUnsigned
<1>4. y \in Int /\ y + zout = x + E /\ y < 2 * E /\ y > -(2 * E) /\ x + E \in 0 .. 2 * E - 1
  BY <1>1, <1>3
<1>5. Up(1) = 2 /\ Down(1) = 1 /\ Pow2(1) = 2
  <2>1. Pow2(1) = 2
    <3>1. 0 \in Nat /\ 0 + 1 = 1
      OBVIOUS
    <3> QED
      BY <3>1, PowSteps
  <2> QED
    BY <2>1, ShiftFactors
<1> HIDE DEF E, M, h, y, Z
<1>6. y * Up(1) \in Words
  BY <1>2, <1>4, <1>5, <1>1 DEF Words, MinWord, MaxWord, M
<1>7. Z \in Int /\ 2 * (Z * Down(1) * M - y * Up(1) * h) <= M /\ -M <= 2 * (Z * Down(1) * M - y * Up(1) * h)
  <2>1. /\ Z \in Int
        /\ 2 * (Z * Down(1) * M - y * Up(1) * h) <= M + (IF 1 < 0 THEN Down(1) ELSE 0) * M
        /\ -(M + (IF 1 < 0 THEN Down(1) ELSE 0) * M) <= 2 * (Z * Down(1) * M - y * Up(1) * h)
    BY <1>2, <1>4, <1>6, RoundedTwice DEF Z, M
  <2>2. M + (IF 1 < 0 THEN Down(1) ELSE 0) * M = M
    BY <1>2
  <2> QED
    BY <2>1, <2>2
<1>8. Z = y
  <2> DEFINE D == Z - y
  <2>1. D \in Int
    BY <1>4, <1>7
  <2>2. Z * Down(1) * M - y * Up(1) * h = D * M
    <3>1. Z * 1 * M = Z * M /\ y * 2 * h = y * (2 * h) /\ (Z - y) * M = Z * M - y * M
      BY <1>2, <1>4, <1>7
    <3> QED
      BY <1>2, <1>5, <3>1
  <2> HIDE DEF D
  <2>3. 2 * (D * M) <= M /\ -M <= 2 * (D * M)
    BY <1>7, <2>2
  <2>4. M \in Nat \ {0} /\ D * M \in Int /\ (D >= 1 => D * M >= M) /\ (D <= -1 => D * M <= -M)
    BY <1>2, <2>1
  <2>5. D = 0
    BY <2>1, <2>3, <2>4
  <2> QED
    BY <1>4, <1>7, <2>5 DEF D
<1>9. requantize(x, m, zin, zout) = Clamped(Z + zout, 0, MaxUnsigned)
  BY DEF requantize, Z, y
<1>10. Clamped(x + E, 0, MaxUnsigned) = x + E
  BY <1>1, <1>4 DEF Clamped, MaxUnsigned
<1>11. requantize(x, m, zin, zout) = x + E
  BY <1>4, <1>8, <1>9, <1>10
<1> QED
  BY <1>11 DEF FlipSign, E, h

\* The argument of a sigmoid that does not saturate fits a word once it is shifted.
LEMMA SigmoidFits ==
  ASSUME NEW x \in Int, NEW e \in Nat, NEW p, p.leftShift = e, ~Saturates(x, p)
  PROVE  x * Up(e) \in Words
<1> DEFINE M == Pow2(Bits - 1)
           A == Pow2(IntegerBits)
           B == Pow2(Bits - 1 - IntegerBits)
           W == Pow2(e)
           N == (A - 1) * B
           radius == N \div W
<1>1. A \in Nat \ {0} /\ B \in Nat \ {0} /\ W \in Nat \ {0} /\ M = A * B /\ Up(e) = W
  <2>1. IntegerBits \in Nat /\ Bits - 1 - IntegerBits \in Nat /\ IntegerBits + (Bits - 1 - IntegerBits) = Bits - 1
    BY FixedPointAssumption
  <2>2. Pow2(IntegerBits + (Bits - 1 - IntegerBits)) = A * B
    BY <2>1, PowOfSum
  <2> QED
    BY <2>1, <2>2, PowsRise, ShiftFactors
<1>2. ~ (x <= -radius) /\ ~ (x >= radius)
  BY DEF Saturates, calculateInputRadius
<1> HIDE DEF A, B, W
<1>3. N \in Nat /\ M = N + B /\ M \in Nat
  <2>1. (A - 1) * B = A * B - B /\ A - 1 \in Nat /\ A * B \in Nat
    BY <1>1
  <2>2. (A - 1) * B \in Nat
    BY <1>1, <2>1
  <2> QED
    BY <1>1, <2>1, <2>2
<1> HIDE DEF N, M
<1>4. radius \in Int /\ W * radius <= N /\ W * radius \in Int
  <2> DEFINE r == N % W
  <2>1. radius \in Int /\ r \in 0 .. W - 1 /\ N = W * radius + r
    <3>1. N \in Int /\ W \in Nat \ {0}
      BY <1>1, <1>3
    <3> QED
      BY <3>1, Divided
  <2> HIDE DEF radius, r
  <2>2. W * radius \in Int
    BY <1>1, <2>1
  <2> QED
    BY <1>1, <1>3, <2>1, <2>2
<1> HIDE DEF radius
<1>5. x * W < W * radius /\ x * W > -(W * radius) /\ x * W \in Int
  <2>1. radius - x - 1 \in Nat /\ radius + x - 1 \in Nat
    BY <1>2, <1>4
  <2>2. /\ W * (radius - x - 1) \in Nat /\ W * (radius - x - 1) = W * radius - x * W - W
        /\ W * (radius + x - 1) \in Nat /\ W * (radius + x - 1) = W * radius + x * W - W
    BY <1>1, <1>4, <2>1
  <2>3. x * W \in Int
    BY <1>1
  <2> QED
    BY <1>1, <1>4, <2>2, <2>3
<1>6. x * W < M /\ x * W > -M
  BY <1>1, <1>3, <1>4, <1>5
<1> QED
  BY <1>1, <1>3, <1>5, <1>6 DEF Words, MinWord, MaxWord, M

\* Two roundings keep a scaled accumulator within 1/2 + 2^-shift of its exact
\* value, QUANTIZE's short cut is what the general path gives, and the sigmoid's
\* argument is within 1, for words and elements of every width, every multiplier
\* and all values that fit.
THEOREM ScalesAreNearest == Spec => []RequantizesNearest
<1>1. ASSUME RoutinesInv, Returned("scale")
      PROVE  LET shift == QuantizeMultiplier(call.n, call.d).shift
             IN call.x * (IF shift > 0 THEN Pow2(shift) ELSE 1) \in Words =>
                  CloseTo(result[1], call.x, call.n, call.d, shift)
  <2> DEFINE m == QuantizeMultiplier(call.n, call.d)
  <2>1. call \in Calls /\ result = <<Result(call)>> /\ call.routine = "scale"
    BY <1>1 DEF RoutinesInv, Returned
  <2>2. result[1] = MultiplyByQuantizedMultiplier(call.x, m.significand, m.shift)
    BY <2>1 DEF Result
  <2>3. call.x \in Words /\ call.n \in Nat /\ call.d \in Nat \ {0}
    BY <2>1, CallsAssumption DEF ArgumentsOK
  <2>4. SUFFICES ASSUME call.x * Up(m.shift) \in Words
                 PROVE  CloseTo(result[1], call.x, call.n, call.d, m.shift)
    BY DEF Up
  <2> QED
    BY <2>2, <2>3, <2>4, ScaledClosely
<1>2. ASSUME RoutinesInv, Returned("quantize")
      PROVE  result[1] = requantize(call.x, QuantizeMultiplier(call.n, call.d), call.zin, call.zout)
  <2> DEFINE m == QuantizeMultiplier(call.n, call.d)
             x == call.x
             zin == call.zin
             zout == call.zout
             short == m.significand = Pow2(Bits - 2) /\ m.shift = 1 /\ zin - zout = -Pow2(ElementBits - 1)
  <2>1. call \in Calls /\ result = <<Result(call)>> /\ call.routine = "quantize"
    BY <1>2 DEF RoutinesInv, Returned
  <2>2. result[1] = quantize(x, m, zin, zout)
    BY <2>1 DEF Result
  <2>3. x \in Elements /\ zin \in Elements /\ zout \in 0 .. MaxUnsigned
    BY <2>1, CallsAssumption DEF ArgumentsOK
  <2>4. quantize(x, m, zin, zout) = IF short THEN FlipSign(x) ELSE requantize(x, m, zin, zout)
    BY DEF quantize
  <2> HIDE DEF m, x, zin, zout
  <2>5. short => FlipSign(x) = requantize(x, m, zin, zout)
    <3> SUFFICES ASSUME short PROVE FlipSign(x) = requantize(x, m, zin, zout)
      OBVIOUS
    <3>1. FlipSign(x) = requantize(x, [significand |-> Pow2(Bits - 2), shift |-> 1], zin, zout)
      BY <2>3, FlipIsRequantize
    <3>2. requantize(x, m, zin, zout) = requantize(x, [significand |-> Pow2(Bits - 2), shift |-> 1], zin, zout)
      BY DEF requantize
    <3> QED
      BY <3>1, <3>2
  <2> QED
    BY <2>2, <2>4, <2>5 DEF m, x, zin, zout
<1>3. ASSUME RoutinesInv, Returned("logistic"), ~Saturates(call.x, logisticParams(call.n, call.d))
      PROVE  CloseTo(result[1], call.x, call.n * Pow2(Bits - 1 - IntegerBits), call.d, 0)
  <2> DEFINE p == logisticParams(call.n, call.d)
             x == call.x
             d == call.d
             n == call.n * Pow2(Bits - 1 - IntegerBits)
             e == Exponent(n, d)
             q == Fixed(n, d, e)
  <2>1. call \in Calls /\ result = <<Result(call)>> /\ call.routine = "logistic"
    BY <1>3 DEF RoutinesInv, Returned
  <2>2. p.multiplier = q /\ p.leftShift = e
    BY DEF logisticParams
  <2>3. result[1] = MultiplyByQuantizedMultiplier(x, q, e)
    BY <1>3, <2>1, <2>2 DEF Result
  <2>4. x \in Int /\ n \in Nat \ {0} /\ d \in Nat \ {0} /\ 2 * n >= d
    <3>1. Pow2(Bits - 1 - IntegerBits) \in Nat \ {0}
      BY FixedPointAssumption, PowsRise
    <3>2. /\ x \in Int /\ call.n \in Nat \ {0} /\ d \in Nat \ {0}
          /\ 2 * call.n * Pow2(Bits - 1 - IntegerBits) >= d
      BY <2>1, CallsAssumption DEF ArgumentsOK
    <3> QED
      BY <3>1, <3>2
  <2>5. ~Saturates(x, p)
    BY <1>3
  <2> HIDE DEF p, x, n, d
  <2>6. e \in Int /\ n * Down(e) < d * Up(e)
    BY <2>4, ExponentIs
  <2>7. q \in Nat /\ 2 * (q * (d * Up(e)) - n * Down(e) * Pow2(Bits - 1)) <= d * Up(e)
        /\ -(d * Up(e)) <= 2 * (q * (d * Up(e)) - n * Down(e) * Pow2(Bits - 1))
    BY <2>4, FixedIs
  <2> HIDE DEF q, e
  <2>8. e \in Nat
    <3> SUFFICES ASSUME e < 0 PROVE FALSE
      BY <2>6
    <3>1. -e - 1 \in Nat /\ (-e - 1) + 1 = -e /\ e <= 0
      BY <2>6
    <3> DEFINE w == Pow2(-e - 1)
    <3>2. Up(e) = 1 /\ Down(e) = 2 * w /\ w \in Nat \ {0}
      BY <2>6, <3>1, ShiftFactors, PowSteps, PowsRise
    <3> HIDE DEF w
    <3>3. n * Down(e) = 2 * (n * w) /\ n * w >= n /\ n * w \in Int /\ d * Up(e) = d
      BY <2>4, <3>2
    <3> QED
      BY <2>4, <2>6, <3>3
  <2>9. x * Up(e) \in Words
    BY <2>2, <2>4, <2>5, <2>8, SigmoidFits
  <2>10. CloseTo(MultiplyByQuantizedMultiplier(x, q, e), x, n, d, e)
    BY <2>4, <2>6, <2>7, <2>9, ScalesClose
  <2>11. ~ (e < -1) /\ ~ (0 < -1)
    BY <2>8
  <2>12. CloseTo(MultiplyByQuantizedMultiplier(x, q, e), x, n, d, 0)
    BY <2>10, <2>11 DEF CloseTo
  <2> QED
    BY <2>3, <2>12 DEF x, n, d
<1>4. RoutinesInv => RequantizesNearest
  BY <1>1, <1>2, <1>3 DEF RequantizesNearest
<1> QED
  BY ReturnsResult, <1>4, PTL

-----------------------------------------------------------------------------
(* The interpolated gain. *)

\* The quotient is the one that leaves a remainder.
LEMMA QuotientIs ==
  ASSUME NEW A \in Int, NEW b \in Nat \ {0}, NEW q \in Int, NEW r \in 0 .. b - 1, A = b * q + r
  PROVE  A \div b = q /\ (A % b) = r
<1> DEFINE q1 == A \div b
           r1 == A % b
           D == q - q1
<1>1. q1 \in Int /\ r1 \in 0 .. b - 1 /\ A = b * q1 + r1
  BY Divided
<1> HIDE DEF q1, r1
<1>2. D \in Int /\ b * D = b * q - b * q1 /\ b * q \in Int /\ b * q1 \in Int
  BY <1>1
<1> HIDE DEF D
<1>3. b * D = r1 - r
  BY <1>1, <1>2
<1>4. (D >= 1 => b * D >= b) /\ (D <= -1 => b * D <= -b) /\ (D = 0 => b * D = 0)
  BY <1>2
<1>5. D = 0
  BY <1>1, <1>2, <1>3, <1>4
<1>6. r1 = r /\ q1 = q
  <2>1. r1 = r
    BY <1>1, <1>3, <1>4, <1>5
  <2> QED
    BY <1>1, <1>5, <2>1 DEF D
<1> QED
  BY <1>6 DEF q1, r1

\* The powers that the gain's fraction and words are made of.
LEMMA SmallPowers ==
  Pow2(0) = 1 /\ Pow2(5) = 32 /\ Pow2(10) = 1024 /\ Pow2(14) = 16384 /\ Pow2(15) = 32768
<1>1. Pow2(0) = 1 /\ Pow2(1) = 2 /\ Pow2(2) = 4 /\ Pow2(3) = 8 /\ Pow2(4) = 16 /\ Pow2(5) = 32
  <2>1. \A n \in Nat : Pow2(n + 1) = 2 * Pow2(n)
    BY PowSteps
  <2>2. Pow2(0) = 1
    BY PowSteps
  <2>3. Pow2(0 + 1) = 2 * Pow2(0) /\ Pow2(1 + 1) = 2 * Pow2(1) /\ Pow2(2 + 1) = 2 * Pow2(2)
        /\ Pow2(3 + 1) = 2 * Pow2(3) /\ Pow2(4 + 1) = 2 * Pow2(4)
    BY <2>1
  <2>4. 0 + 1 = 1 /\ 1 + 1 = 2 /\ 2 + 1 = 3 /\ 3 + 1 = 4 /\ 4 + 1 = 5
    OBVIOUS
  <2> QED
    BY <2>2, <2>3, <2>4
<1>2. Pow2(5 + 5) = Pow2(5) * Pow2(5) /\ Pow2(10 + 4) = Pow2(10) * Pow2(4) /\ Pow2(10 + 5) = Pow2(10) * Pow2(5)
  BY PowOfSum
<1>3. 5 + 5 = 10 /\ 10 + 4 = 14 /\ 10 + 5 = 15
  OBVIOUS
<1> QED
  BY <1>1, <1>2, <1>3

\* The power of a sum, whose sum has a name.
LEMMA PowParts ==
  ASSUME NEW a \in Nat, NEW b \in Nat, NEW c, a + b = c
  PROVE  Pow2(c) = Pow2(a) * Pow2(b) /\ Pow2(a) \in Nat \ {0} /\ Pow2(b) \in Nat \ {0}
  BY PowOfSum, PowsRise

\* How far into its interval a number is, in 1024ths.
LEMMA FractionIs ==
  ASSUME NEW i \in Nat \ {0}, NEW x \in Pow2(i - 1) .. Pow2(i) - 1
  PROVE  LET unit == Pow2(IF i > 11 THEN i - 11 ELSE 0)
             n == Pow2(i - 1) \div unit
             k == (x - Pow2(i - 1)) \div unit
             f == frac(x, i)
         IN n \in Nat \ {0} /\ k \in Nat /\ f \in 0 .. 1023 /\ f * n = 1024 * k
<1> DEFINE N == Pow2(i - 1)
           K == x - N
           f == frac(x, i)
<1>1. N \in Nat \ {0} /\ x \in Int /\ K \in 0 .. N - 1 /\ x = N + K
  <2>1. i - 1 \in Nat /\ (i - 1) + 1 = i
    OBVIOUS
  <2>2. N \in Nat \ {0} /\ Pow2(i) = 2 * N
    BY <2>1, PowSteps, PowsRise
  <2> QED
    BY <2>2
<1>2. CASE i < 11
  <2> DEFINE g == Pow2(11 - i)
  <2>1. g \in Nat \ {0} /\ N * g = 1024
    <3> DEFINE a == i - 1
               b == 11 - i
    <3>1. a \in Nat /\ b \in Nat /\ a + b = 10
      BY <1>2
    <3> HIDE DEF a, b
    <3>2. Pow2(10) = Pow2(a) * Pow2(b) /\ Pow2(a) \in Nat \ {0} /\ Pow2(b) \in Nat \ {0}
      BY <3>1, PowParts
    <3> QED
      BY <3>2, SmallPowers DEF a, b
  <2>2. f = (x * g) % 1024
    BY <1>2 DEF frac
  <2>3. (IF i > 11 THEN i - 11 ELSE 0) = 0
    BY <1>2
  <2> HIDE DEF f, N, K, g
  <2>4. K \div 1 = K /\ N \div 1 = N
    BY <1>1
  <2>5. x * g = 1024 * 1 + K * g /\ K * g \in Nat /\ K * g < 1024 /\ x * g \in Int
    <3>1. (N + K) * g = N * g + K * g /\ K * g \in Nat
      BY <1>1, <2>1
    <3>2. (N - K) * g = N * g - K * g /\ (N - K) * g \in Nat \ {0}
      <4>1. N - K \in Nat \ {0}
        BY <1>1
      <4> QED
        BY <1>1, <2>1, <4>1
    <3> QED
      BY <1>1, <2>1, <3>1, <3>2
  <2>6. f = K * g
    <3> DEFINE A == x * g
               r == K * g
    <3>1. A \in Int /\ r \in 0 .. 1024 - 1 /\ A = 1024 * 1 + r /\ 1 \in Int /\ 1024 \in Nat \ {0}
      BY <2>5
    <3> HIDE DEF A, r
    <3>2. (A % 1024) = r
      BY <3>1, QuotientIs
    <3> QED
      BY <2>2, <3>2 DEF A, r
  <2>7. f * N = 1024 * K
    <3>1. (K * g) * N = (N * g) * K
      BY <1>1, <2>1
    <3> QED
      BY <2>1, <2>6, <3>1
  <2>8. f \in 0 .. 1023
    BY <2>5, <2>6
  <2>9. Pow2(IF i > 11 THEN i - 11 ELSE 0) = 1
    BY <2>3, SmallPowers
  <2>10. N \in Nat \ {0} /\ K \in Nat
    BY <1>1
  <2> QED
    BY <2>4, <2>7, <2>8, <2>9, <2>10 DEF f, N, K
<1>3. CASE ~ (i < 11)
  <2> DEFINE u == Pow2(i - 11)
             k == K \div u
             r == K % u
  <2>1. u \in Nat \ {0} /\ N = 1024 * u
    <3> DEFINE b == i - 11
               c == i - 1
    <3>1. b \in Nat /\ 10 \in Nat /\ 10 + b = c
      BY <1>3
    <3> HIDE DEF b, c
    <3>2. Pow2(c) = Pow2(10) * Pow2(b) /\ Pow2(b) \in Nat \ {0}
      BY <3>1, PowParts
    <3> QED
      BY <3>2, SmallPowers DEF b, c
  <2>2. f = (x \div u) % 1024
    BY <1>3 DEF frac
  <2>3. (IF i > 11 THEN i - 11 ELSE 0) = i - 11
    BY <1>3
  <2> HIDE DEF f, N, K, u
  <2>4. k \in Int /\ r \in 0 .. u - 1 /\ K = u * k + r
    <3>1. K \in Int
      BY <1>1
    <3> QED
      BY <2>1, <3>1, Divided
  <2> HIDE DEF k, r
  <2>5. k \in 0 .. 1023
    <3>1. u * k \in Int /\ u * k <= K /\ K < u * k + u
      BY <2>1, <2>4
    <3>2. k <= -1 => u * k <= -u
      BY <2>1, <2>4
    <3>3. k >= 1024 => u * k >= 1024 * u
      BY <2>1, <2>4
    <3> QED
      BY <1>1, <2>1, <2>4, <3>1, <3>2, <3>3
  <2>6. x \div u = 1024 + k
    <3>1. x = u * (1024 + k) + r /\ 1024 + k \in Int
      <4>1. u * (1024 + k) = 1024 * u + u * k /\ u * k \in Int
        BY <2>1, <2>4
      <4> QED
        BY <1>1, <2>1, <2>4, <4>1
    <3> DEFINE q == 1024 + k
    <3>3. x = u * q + r /\ q \in Int /\ x \in Int /\ r \in 0 .. u - 1
      BY <1>1, <2>4, <3>1
    <3> HIDE DEF q
    <3>2. x \div u = q
      BY <2>1, <3>3, QuotientIs
    <3> QED
      BY <3>2 DEF q
  <2>7. f = k
    <3>1. (1024 + k) % 1024 = k
      BY <2>5
    <3> QED
      BY <2>2, <2>6, <3>1
  <2>8. N \div u = 1024
    <3>1. N \in Int /\ N = u * 1024 + 0 /\ 0 \in 0 .. u - 1 /\ 1024 \in Int
      BY <1>1, <2>1
    <3> QED
      BY <2>1, <3>1, QuotientIs
  <2>9. k * 1024 = 1024 * k /\ k \in Nat
    BY <2>5
  <2> QED
    BY <2>3, <2>5, <2>7, <2>8, <2>9 DEF f, N, K, u, k
<1> QED
  BY <1>2, <1>3

\* The division of the interpolation by 2^5.
LEMMA Divided32 ==
  ASSUME NEW x \in Int
  PROVE  x \div 32 \in Int /\ x % 32 \in Int /\ 0 <= x % 32 /\ x % 32 <= 31 /\ x = 32 * (x \div 32) + (x % 32)
OBVIOUS

\* And by 2^15.
LEMMA Divided32768 ==
  ASSUME NEW x \in Int
  PROVE  x \div 32768 \in Int /\ x % 32768 \in Int /\ 0 <= x % 32768 /\ x % 32768 <= 32767
         /\ x = 32768 * (x \div 32768) + (x % 32768)
OBVIOUS

\* What the two roundings of the interpolation add up to.
LEMMA GainRoundings ==
  ASSUME NEW Q \in Int, NEW r \in Int, 0 <= r, r <= 32767,
         NEW G \in Int, NEW H \in Int, NEW C \in Int, NEW f \in Int, f <= 1023,
         32 * G <= C, C <= 32 * G + 31 * f, 32768 * Q + r = G + 32 * H + 16384
  PROVE  1024 * 1024 * Q - (C + 1024 * H) <= 512 * 1024 /\ -(1024 * 1024 * Q - (C + 1024 * H)) <= 543 * 1024
OBVIOUS

\* The gain of a segment whose values are words is a word.
LEMMA GainRange ==
  ASSUME NEW Q \in Int, NEW F \in Int, NEW H \in Int, NEW C \in Int, NEW y \in Int,
         0 <= C, C <= 1024 * F, F + H <= 1024 * (32767 - y), -(32768 * 1023) <= H, 0 <= y, y <= 32767,
         1024 * 1024 * Q - (C + 1024 * H) <= 512 * 1024, -(1024 * 1024 * Q - (C + 1024 * H)) <= 543 * 1024
  PROVE  Q + y <= 32767 /\ -32768 <= Q + y
OBVIOUS

\* The bends and the rises of the interpolation, before its divisions are rounded.
LEMMA GainSlopes ==
  ASSUME NEW a \in Int, NEW c \in Int, NEW y \in Int, NEW f \in Int,
         -32768 <= a, 0 <= c, 0 <= y, y <= 32767, y + a + c <= 32767, 0 <= f, f <= 1023,
         NEW share \in Int, NEW rest \in Int, 0 <= rest, rest <= 31, c * f = 32 * share + rest
  PROVE  /\ 32 * (share * f) <= c * (f * f) /\ c * (f * f) <= 32 * (share * f) + 31 * f
         /\ 0 <= c * (f * f) /\ c * (f * f) <= 1024 * (c * f)
         /\ c * f + a * f <= 1024 * (32767 - y) /\ -(32768 * 1023) <= a * f
<1>1. 32 * (share * f) <= c * (f * f) /\ c * (f * f) <= 32 * (share * f) + 31 * f
  <2>1. c * (f * f) = (32 * share + rest) * f
    OBVIOUS
  <2>2. (32 * share + rest) * f = 32 * (share * f) + rest * f
    OBVIOUS
  <2>3. rest * f >= 0 /\ (31 - rest) * f >= 0 /\ (31 - rest) * f = 31 * f - rest * f
    OBVIOUS
  <2> QED
    BY <2>1, <2>2, <2>3
<1>2. 0 <= c * (f * f) /\ c * (f * f) <= 1024 * (c * f)
  <2>1. 0 <= c * f
    OBVIOUS
  <2>2. (c * f) * f >= 0 /\ (c * f) * (1024 - f) >= 0
    BY <2>1
  <2>3. (c * f) * f = c * (f * f) /\ (c * f) * (1024 - f) = 1024 * (c * f) - (c * f) * f
    OBVIOUS
  <2> QED
    BY <2>2, <2>3
<1>3. c * f + a * f <= 1024 * (32767 - y)
  <2>1. (32767 - y - (a + c)) * f >= 0 /\ (32767 - y) * (1024 - f) >= 0
    OBVIOUS
  <2>2. (32767 - y - (a + c)) * f = 32767 * f - y * f - a * f - c * f
    OBVIOUS
  <2>3. (32767 - y) * (1024 - f) = 1024 * (32767 - y) - 32767 * f + y * f
    OBVIOUS
  <2> QED
    BY <2>1, <2>2, <2>3
<1>4. -(32768 * 1023) <= a * f
  <2>1. (a + 32768) * f >= 0 /\ (a + 32768) * f = a * f + 32768 * f
    OBVIOUS
  <2> QED
    BY <2>1
<1> QED
  BY <1>1, <1>2, <1>3, <1>4

\* The interpolation in 1024ths: within one unit of the parabola, and within a word.
LEMMA GainOnParabola ==
  ASSUME NEW a \in Int, NEW c \in Int, NEW y \in Int, NEW f \in Int,
         -32768 <= a, 0 <= c, 0 <= y, y <= 32767, y + a + c <= 32767, 0 <= f, f <= 1023
  PROVE  LET slope == (c * f) \div 32 + a * 32
             Q == (slope * f + 16384) \div 32768
             V == c * (f * f) + 1024 * (a * f)
         IN /\ Q \in Int /\ 1024 * 1024 * Q - V <= 1024 * 1024 /\ -(1024 * 1024 * Q - V) <= 1024 * 1024
            /\ -32768 <= Q + y /\ Q + y <= 32767
<1>1. PICK bend \in Int : bend = c * f
  OBVIOUS
<1>2. PICK share \in Int, rest \in Int :
        share = (c * f) \div 32 /\ 0 <= rest /\ rest <= 31 /\ c * f = 32 * share + rest
  BY <1>1, Divided32
<1>3. PICK sum \in Int : sum = (share + a * 32) * f + 16384
  OBVIOUS
<1>4. PICK gain \in Int, over \in Int :
        gain = sum \div 32768 /\ 0 <= over /\ over <= 32767 /\ sum = 32768 * gain + over
  BY <1>3, Divided32768
<1>5. PICK rise \in Int, turn \in Int, curve \in Int : rise = share * f /\ turn = a * f /\ curve = c * (f * f)
  OBVIOUS
<1>6. /\ 32 * rise <= curve /\ curve <= 32 * rise + 31 * f
      /\ 0 <= curve /\ curve <= 1024 * bend
      /\ bend + turn <= 1024 * (32767 - y) /\ -(32768 * 1023) <= turn
  BY <1>1, <1>2, <1>5, GainSlopes
<1>7. 32768 * gain + over = rise + 32 * turn + 16384
  BY <1>3, <1>4, <1>5
<1>8. 1024 * 1024 * gain - (curve + 1024 * turn) <= 512 * 1024 /\ -(1024 * 1024 * gain - (curve + 1024 * turn)) <= 543 * 1024
  BY <1>4, <1>6, <1>7, GainRoundings
<1>9. gain + y <= 32767 /\ -32768 <= gain + y
  BY <1>6, <1>8, GainRange
<1>10. ((c * f) \div 32 + a * 32) * f + 16384 = sum
  BY <1>2, <1>3
<1> QED
  BY <1>4, <1>5, <1>8, <1>9, <1>10

\* Between two powers of two the gain is on the parabola through its values at both
\* and in the middle, to one unit, for every interval of numbers of any width and
\* all gains whose slopes fit, the rounding of the number to 1024ths aside.
THEOREM GainsAreOnParabola == Spec => []GainInterpolates
<1>1. RoutinesInv => GainInterpolates
  <2> DEFINE i == call.interval
             x == call.x
             y == call.y
             unit == Pow2(IF i > 11 THEN i - 11 ELSE 0)
             n == Pow2(i - 1) \div unit
             k == (x - Pow2(i - 1)) \div unit
             a == 4 * (y[2] - y[1]) - (y[3] - y[1])
             c == y[3] - y[1] - a
             fits(b) == b \in -Pow2(15) .. Pow2(15) - 1
             f == frac(x, i)
             slope == (c * f) \div 32 + a * 32
             Q == (slope * f + 16384) \div 32768
             V == c * (f * f) + 1024 * (a * f)
             parabola == y[1] * (n - 2 * k) * (n - k) + 4 * y[2] * k * (n - k) + y[3] * k * (2 * k - n)
             off == (Q + y[1]) * n * n - parabola
  <2> SUFFICES ASSUME RoutinesInv, Returned("gain"),
                      2 * y[2] <= y[1] + y[3], fits(a), fits(c)
               PROVE  result[1] = Q + y[1] /\ off <= n * n /\ -off <= n * n
    <3> HIDE DEF Q, n, k, a, c, i, x, y
    <3>1. /\ RoutinesInv /\ Returned("gain") /\ 2 * y[2] <= y[1] + y[3] /\ fits(a) /\ fits(c)
          => result[1] * n * n - parabola <= n * n /\ -(result[1] * n * n - parabola) <= n * n
      OBVIOUS
    <3> QED
      BY <3>1 DEF GainInterpolates, n, k, a, c, i, x, y
  <2>1. call \in Calls /\ result = <<Result(call)>> /\ call.routine = "gain"
    BY DEF RoutinesInv, Returned
  <2>2. result[1] = wideDynamicFunction(x, i, Segment(y))
    BY <2>1 DEF Result
  <2>3. i \in Nat \ {0} /\ x \in Pow2(i - 1) .. Pow2(i) - 1 /\ y \in [1 .. 3 -> 0 .. Pow2(15) - 1]
    BY <2>1, CallsAssumption DEF ArgumentsOK
  <2>4. n \in Nat \ {0} /\ k \in Nat /\ f \in 0 .. 1023 /\ f * n = 1024 * k
    <3> HIDE DEF i, x
    <3> QED
      BY <2>3, FractionIs
  <2> HIDE DEF n, k, f, i, x, y
  <2>5. /\ y[1] \in Nat /\ y[2] \in Nat /\ y[3] \in Nat
        /\ y[1] <= 32767 /\ y[2] <= 32767 /\ y[3] <= 32767
    BY <2>3, SmallPowers
  <2>6. a \in Int /\ c \in Nat /\ -32768 <= a /\ y[1] + a + c <= 32767
    <3>1. fits(a) /\ fits(c)
      OBVIOUS
    <3> QED
      BY <2>5, <3>1, SmallPowers
  <2>7. Segment(y) = <<y[1], a, c>>
    <3>1. Signed(a, 16) = a /\ Signed(c, 16) = c
      <4>1. 16 - 1 = 15 /\ 16 \in Nat \ {0} /\ a \in Int /\ c \in Int /\ fits(a) /\ fits(c)
        BY <2>6
      <4> HIDE DEF a, c
      <4> QED
        BY <4>1, SignedWord
    <3> QED
      BY <3>1 DEF Segment
  <2> HIDE DEF a, c
  <2>8. /\ Q \in Int /\ -32768 <= Q + y[1] /\ Q + y[1] <= 32767
        /\ 1024 * 1024 * Q - V <= 1024 * 1024 /\ -(1024 * 1024 * Q - V) <= 1024 * 1024
    <3>1. /\ f \in Int /\ 0 <= f /\ f <= 1023 /\ y[1] \in Int /\ 0 <= y[1] /\ y[1] <= 32767
          /\ c \in Int /\ 0 <= c
      BY <2>4, <2>5, <2>6
    <3> QED
      BY <2>6, <3>1, GainOnParabola
  <2>9. result[1] = Q + y[1]
    <3>1. result[1] = Signed(Q + y[1], 16)
      BY <2>2, <2>7, SmallPowers DEF wideDynamicFunction, f
    <3>2. 16 - 1 = 15 /\ 16 \in Nat \ {0} /\ Q + y[1] \in Int /\ Q + y[1] \in -Pow2(15) .. Pow2(15) - 1
      BY <2>5, <2>8, SmallPowers
    <3> HIDE DEF Q
    <3>3. Signed(Q + y[1], 16) = Q + y[1]
      BY <3>2, SignedWord
    <3> QED
      BY <3>1, <3>3
  <2> HIDE DEF Q
  <2>10. parabola = y[1] * (n * n) + (a * (k * n) + c * (k * k))
    BY <2>4, <2>5 DEF a, c
  <2>11. V * (n * n) = (1024 * 1024) * (a * (k * n) + c * (k * k))
    <3>1. V * (n * n) = c * ((f * n) * (f * n)) + 1024 * (a * ((f * n) * n))
      BY <2>4, <2>6
    <3>2. (1024 * k) * (1024 * k) = (1024 * 1024) * (k * k) /\ (1024 * k) * n = 1024 * (k * n)
      BY <2>4
    <3>3. c * ((1024 * 1024) * (k * k)) + 1024 * (a * (1024 * (k * n))) = (1024 * 1024) * (a * (k * n) + c * (k * k))
      BY <2>4, <2>6
    <3> QED
      BY <2>4, <3>1, <3>2, <3>3
  <2> DEFINE N == n * n
             w == a * (k * n) + c * (k * k)
             T == (1024 * 1024) * Q - V
  <2>12. N \in Nat \ {0} /\ w \in Int /\ V \in Int /\ T \in Int
    BY <2>4, <2>6, <2>8
  <2>13. off = Q * N - w
    <3>1. (Q + y[1]) * n * n = Q * N + y[1] * N
      BY <2>4, <2>5, <2>8
    <3>2. y[1] * N \in Int /\ Q * N \in Int
      BY <2>5, <2>8, <2>12
    <3>3. parabola = y[1] * N + w
      <4> HIDE DEF parabola
      <4> QED
        BY <2>10
    <3>4. off = (Q + y[1]) * n * n - parabola
      OBVIOUS
    <3> DEFINE e == (Q + y[1]) * n * n
               m == y[1] * N
               g == Q * N
    <3>5. e = g + m /\ g \in Int /\ m \in Int /\ w \in Int /\ off = e - (m + w)
      BY <2>12, <3>1, <3>2, <3>3, <3>4
    <3> HIDE DEF e, m, g, w, off
    <3>6. off = g - w
      BY <3>5
    <3> QED
      BY <3>6 DEF g
  <2>14. T * N = (1024 * 1024) * (Q * N) - (1024 * 1024) * w /\ Q * N \in Int
    <3>1. T * N = (1024 * 1024) * (Q * N) - V * N /\ Q * N \in Int
      BY <2>8, <2>12
    <3> QED
      BY <2>11, <3>1
  <2>15. T * N <= (1024 * 1024) * N /\ -(T * N) <= (1024 * 1024) * N
    <3> HIDE DEF T, N
    <3>1. (1024 * 1024) - T \in Nat /\ (1024 * 1024) + T \in Nat
      BY <2>8, <2>12 DEF T
    <3>2. ((1024 * 1024) - T) * N \in Nat /\ ((1024 * 1024) - T) * N = (1024 * 1024) * N - T * N
      BY <2>12, <3>1
    <3>3. ((1024 * 1024) + T) * N \in Nat /\ ((1024 * 1024) + T) * N = (1024 * 1024) * N + T * N
      BY <2>12, <3>1
    <3>4. T * N \in Int /\ (1024 * 1024) * N \in Int
      BY <2>12
    <3> QED
      BY <3>2, <3>3, <3>4
  <2> HIDE DEF T, N, w, V
  <2>16. Q * N - w <= N /\ -(Q * N - w) <= N
    BY <2>12, <2>14, <2>15
  <2> QED
    BY <2>9, <2>13, <2>16 DEF N
<1> QED
  BY ReturnsResult, <1>1, PTL

-----------------------------------------------------------------------------
(* The filters. *)

Banks == [start : Nat, weightStart : Nat, width : Nat, actualStart : Nat, actualWidth : Nat]

\* What the first pass works on, after n channels.
Layouts(n) == {fb \in [banks : Seq(Banks), next : Nat, room : Nat, needsZeros : BOOLEAN] : Len(fb.banks) = n}

\* The fields of a layout.
LEMMA LayoutIs ==
  ASSUME NEW n \in Nat, NEW fb \in Layouts(n)
  PROVE  /\ fb.banks \in Seq(Banks) /\ Len(fb.banks) = n
         /\ fb.next \in Nat /\ fb.room \in Nat /\ fb.needsZeros \in BOOLEAN
         /\ \A j \in 1 .. n : fb.banks[j] \in Banks
BY DEF Layouts

\* A list and one bank more.
LEMMA OneMore ==
  ASSUME NEW s \in Seq(Banks), NEW x \in Banks, NEW n \in Nat, Len(s) = n
  PROVE  /\ Append(s, x) \in Seq(Banks) /\ Len(Append(s, x)) = n + 1 /\ Append(s, x)[n + 1] = x
         /\ \A j \in 1 .. n : Append(s, x)[j] = s[j]
OBVIOUS

\* A padded width holds the width, and at most BlockSize - 1 bins more.
LEMMA PaddedIs ==
  ASSUME NEW w \in Nat \ {0}
  PROVE  PaddedWidth(w) \in Nat /\ w <= PaddedWidth(w) /\ PaddedWidth(w) <= w + BlockSize - 1
<1> DEFINE q == (w - 1) \div 4
<1>1. q \in Nat /\ 4 * q <= w - 1 /\ w - 1 <= 4 * q + 3
  OBVIOUS
<1>2. PaddedWidth(w) = (q + 1) * 4
  BY DEF PaddedWidth, BlockSize
<1> HIDE DEF q
<1> QED
  BY <1>1, <1>2 DEF BlockSize

\* What is added for a channel with bins.
LEMMA WithBinsIs ==
  ASSUME NEW n \in Nat, NEW fb \in Layouts(n), NEW width \in Nat \ {0}
  PROVE  LET b == WithBins(fb, width)
             k == b.banks[n + 1]
         IN /\ b \in Layouts(n + 1)
            /\ k.start <= fb.next /\ fb.next + width <= k.start + k.width
            /\ k.start + k.width <= fb.next + width + BlockSize - 1
            /\ k.weightStart = fb.room /\ k.actualStart = fb.next /\ k.actualWidth = width
            /\ \A j \in 1 .. n : b.banks[j] = fb.banks[j]
            /\ b.next = fb.next + width /\ b.room = fb.room + k.width /\ b.needsZeros = fb.needsZeros
<1> DEFINE b == WithBins(fb, width)
           start == (fb.next \div IndexAlignment) * IndexAlignment
           w == fb.next - start + width
           padded == PaddedWidth(w)
           k == Bank(start, fb.room, padded, fb.next, width)
<1>1. fb.next \in Nat /\ fb.room \in Nat /\ fb.needsZeros \in BOOLEAN /\ fb.banks \in Seq(Banks) /\ Len(fb.banks) = n
  BY LayoutIs
<1>2. start \in Nat /\ start <= fb.next
  <2> DEFINE x == fb.next
  <2>1. x \in Nat
    BY <1>1
  <2> HIDE DEF x
  <2>2. (x \div 2) * 2 \in Nat /\ (x \div 2) * 2 <= x
    BY <2>1
  <2> QED
    BY <2>2 DEF x, IndexAlignment
<1>3. b = [banks |-> Append(fb.banks, k), next |-> fb.next + width, room |-> fb.room + padded,
           needsZeros |-> fb.needsZeros]
  BY DEF WithBins
<1> HIDE DEF start
<1>4. w \in Nat \ {0}
  BY <1>1, <1>2
<1>5. padded \in Nat /\ w <= padded /\ padded <= w + BlockSize - 1
  <2> HIDE DEF w
  <2> QED
    BY <1>4, PaddedIs
<1> HIDE DEF padded, b
<1>6. /\ k \in Banks /\ k.start = start /\ k.weightStart = fb.room /\ k.width = padded
      /\ k.actualStart = fb.next /\ k.actualWidth = width
  BY <1>1, <1>2, <1>5 DEF Bank, Banks
<1> HIDE DEF k
<1>7. /\ Append(fb.banks, k) \in Seq(Banks) /\ Len(Append(fb.banks, k)) = n + 1 /\ Append(fb.banks, k)[n + 1] = k
      /\ \A j \in 1 .. n : Append(fb.banks, k)[j] = fb.banks[j]
  BY <1>1, <1>6, OneMore
<1>8. b \in Layouts(n + 1)
  <2>1. fb.next + width \in Nat /\ fb.room + padded \in Nat
    BY <1>1, <1>5
  <2> QED
    BY <1>1, <1>3, <1>7, <2>1 DEF Layouts
<1>9. fb.next + width <= start + padded /\ start + padded <= fb.next + width + BlockSize - 1
  BY <1>1, <1>2, <1>5 DEF BlockSize
<1>10. /\ b.banks = Append(fb.banks, k) /\ b.next = fb.next + width /\ b.room = fb.room + padded
       /\ b.needsZeros = fb.needsZeros
  BY <1>3
<1> QED
  BY <1>2, <1>6, <1>7, <1>8, <1>9, <1>10 DEF b

\* How far the block of zeros moves the channels before.
ShiftOf(fb) == IF fb.needsZeros THEN 0 ELSE BlockSize

\* What is added for a channel without.
Emptied(b, fb, n) ==
  LET k == b.banks[n + 1]
  IN  /\ b \in Layouts(n + 1)
      /\ k.start = 0 /\ k.weightStart = 0 /\ k.width = BlockSize /\ k.actualStart = fb.next /\ k.actualWidth = 0
      /\ \A j \in 1 .. n :
           /\ b.banks[j].weightStart = fb.banks[j].weightStart + ShiftOf(fb)
           /\ b.banks[j].start = fb.banks[j].start /\ b.banks[j].width = fb.banks[j].width
           /\ b.banks[j].actualStart = fb.banks[j].actualStart
           /\ b.banks[j].actualWidth = fb.banks[j].actualWidth
      /\ b.next = fb.next /\ b.room = fb.room + ShiftOf(fb) /\ b.needsZeros = TRUE

\* So it is.
LEMMA WithoutBinsIs ==
  ASSUME NEW n \in Nat, NEW fb \in Layouts(n), NEW b, b = WithoutBins(fb)
  PROVE  Emptied(b, fb, n)
<1> DEFINE shift == ShiftOf(fb)
           one(bank) == [bank EXCEPT !.weightStart = @ + shift]
           moved == [j \in 1 .. n |-> one(fb.banks[j])]
           k == Bank(0, 0, BlockSize, fb.next, 0)
<1>1. /\ fb.next \in Nat /\ fb.room \in Nat /\ fb.needsZeros \in BOOLEAN /\ fb.banks \in Seq(Banks) /\ Len(fb.banks) = n
      /\ \A j \in 1 .. n : fb.banks[j] \in Banks
  BY LayoutIs
<1>2. b = [banks |-> Append(moved, k), next |-> fb.next, room |-> fb.room + shift, needsZeros |-> TRUE]
  BY <1>1 DEF WithoutBins, ShiftOf
<1>3. shift \in Nat
  BY DEF BlockSize, ShiftOf
<1> HIDE DEF shift
<1>4. ASSUME NEW bank \in Banks
      PROVE  /\ one(bank) \in Banks /\ one(bank).weightStart = bank.weightStart + shift
             /\ one(bank).start = bank.start /\ one(bank).width = bank.width
             /\ one(bank).actualStart = bank.actualStart /\ one(bank).actualWidth = bank.actualWidth
  BY <1>3 DEF Banks
<1> HIDE DEF one
<1>5. moved \in Seq(Banks) /\ Len(moved) = n /\ \A j \in 1 .. n : moved[j] = one(fb.banks[j])
  BY <1>1, <1>4
<1>6. k \in Banks /\ k.start = 0 /\ k.weightStart = 0 /\ k.width = BlockSize /\ k.actualStart = fb.next /\ k.actualWidth = 0
  BY <1>1 DEF Bank, Banks, BlockSize
<1> HIDE DEF moved, k
<1>7. /\ Append(moved, k) \in Seq(Banks) /\ Len(Append(moved, k)) = n + 1 /\ Append(moved, k)[n + 1] = k
      /\ \A j \in 1 .. n : Append(moved, k)[j] = moved[j]
  BY <1>5, <1>6, OneMore
<1>8. b \in Layouts(n + 1)
  <2>1. fb.room + shift \in Nat
    BY <1>1, <1>3
  <2> QED
    BY <1>1, <1>2, <1>7, <2>1 DEF Layouts
<1>9. b.banks = Append(moved, k) /\ b.next = fb.next /\ b.room = fb.room + shift /\ b.needsZeros = TRUE
  BY <1>2
<1>10. \A j \in 1 .. n : b.banks[j] = one(fb.banks[j])
  BY <1>5, <1>7, <1>9
<1> QED
  BY <1>1, <1>4, <1>6, <1>7, <1>8, <1>9, <1>10 DEF shift, Emptied

\* The bin after those of the first c channels.
Upper(first, tops, c) == IF c = 0 THEN first ELSE MaxOf(first, tops[c])

TopsOK(first, tops) ==
  /\ first \in Nat /\ tops \in Seq(Nat \ {0})
  /\ \A i, j \in 1 .. Len(tops) : i <= j => tops[i] <= tops[j]

\* A channel's place: its own bins are inside of what is read, and its weights inside
\* of the arrays and behind the block of zeros; without bins it is that block.
Placed(k, room, needsZeros, first, tops, j) ==
  /\ k.actualStart = Upper(first, tops, j - 1)
  /\ k.actualWidth = Upper(first, tops, j) - Upper(first, tops, j - 1)
  /\ k.actualWidth = 0 => needsZeros /\ k.start = 0 /\ k.weightStart = 0 /\ k.width = BlockSize
  /\ k.actualWidth # 0 =>
       /\ k.start <= k.actualStart /\ k.actualStart + k.actualWidth <= k.start + k.width
       /\ k.start + k.width <= Upper(first, tops, j) + BlockSize - 1
       /\ needsZeros => k.weightStart >= BlockSize
       /\ k.weightStart + k.width <= room

\* Weights of two channels do not overlap.
Apart(k, m) == k.actualWidth # 0 /\ m.actualWidth # 0 => k.weightStart + k.width <= m.weightStart

\* The first pass after c channels.
Arranged(fb, first, tops, c) ==
  /\ fb \in Layouts(c) /\ fb.next = Upper(first, tops, c)
  /\ fb.needsZeros => fb.room >= BlockSize
  /\ \A j \in 1 .. c : Placed(fb.banks[j], fb.room, fb.needsZeros, first, tops, j)
  /\ \A j \in 1 .. c : \A i \in 1 .. j - 1 : Apart(fb.banks[i], fb.banks[j])

\* It is at least 0, and no channel's bins end before those of the channel before.
LEMMA UpperIs ==
  ASSUME NEW first, NEW tops, TopsOK(first, tops), NEW c \in 0 .. Len(tops)
  PROVE  /\ Upper(first, tops, c) \in Nat
         /\ c > 0 => /\ Upper(first, tops, c) = MaxOf(Upper(first, tops, c - 1), tops[c])
                     /\ Upper(first, tops, c - 1) <= Upper(first, tops, c)
<1>1. Len(tops) \in Nat /\ \A i \in 1 .. Len(tops) : tops[i] \in Nat
  BY DEF TopsOK
<1>2. c > 1 => tops[c - 1] <= tops[c]
  <2>1. c > 1 => c - 1 \in 1 .. Len(tops) /\ c \in 1 .. Len(tops) /\ c - 1 <= c
    BY <1>1
  <2> QED
    BY <2>1 DEF TopsOK
<1>3. first \in Nat
  BY DEF TopsOK
<1>4. CASE c = 0
  BY <1>3, <1>4 DEF Upper
<1>5. CASE c = 1
  <2>1. tops[c] \in Nat /\ c # 0 /\ c - 1 = 0
    BY <1>1, <1>5
  <2> QED
    BY <1>3, <2>1 DEF Upper, MaxOf
<1>6. CASE c > 1
  <2>1. c \in 1 .. Len(tops) /\ c - 1 \in 1 .. Len(tops) /\ c - 1 # 0 /\ c # 0
    BY <1>1, <1>6
  <2>2. tops[c] \in Nat /\ tops[c - 1] \in Nat /\ tops[c - 1] <= tops[c]
    BY <1>1, <1>2, <1>6, <2>1
  <2> QED
    BY <1>3, <2>1, <2>2 DEF Upper, MaxOf
<1> QED
  BY <1>1, <1>4, <1>5, <1>6

\* A channel more keeps the arrangement.
LEMMA OneMoreArranged ==
  ASSUME NEW first, NEW tops, TopsOK(first, tops), NEW n \in Nat, n + 1 <= Len(tops),
         NEW fb, Arranged(fb, first, tops, n)
  PROVE  Arranged(OneMoreBank(fb, tops[n + 1]), first, tops, n + 1)
<1> DEFINE u(c) == Upper(first, tops, c)
           width == u(n + 1) - u(n)
           b == OneMoreBank(fb, tops[n + 1])
<1>1. u(n) \in Nat /\ u(n + 1) \in Nat /\ u(n) <= u(n + 1) /\ u(n + 1) = MaxOf(u(n), tops[n + 1])
  <2>1. n \in 0 .. Len(tops) /\ n + 1 \in 0 .. Len(tops) /\ n + 1 > 0 /\ (n + 1) - 1 = n
    BY DEF TopsOK
  <2> QED
    BY <2>1, UpperIs
<1>2. /\ fb \in Layouts(n) /\ fb.next = u(n) /\ fb.room \in Nat /\ fb.needsZeros \in BOOLEAN
      /\ \A j \in 1 .. n : fb.banks[j] \in Banks
  BY LayoutIs DEF Arranged
<1>3. width \in Nat /\ b = IF width = 0 THEN WithoutBins(fb) ELSE WithBins(fb, width)
  BY <1>1, <1>2 DEF OneMoreBank
<1> HIDE DEF b, u, width
<1>4. ASSUME NEW j \in 1 .. n + 1
      PROVE  j = n + 1 \/ j \in 1 .. n
  OBVIOUS
<1>5. CASE width = 0
  <2> DEFINE shift == ShiftOf(fb)
             k == b.banks[n + 1]
  <2>1. /\ b \in Layouts(n + 1)
        /\ k.start = 0 /\ k.weightStart = 0 /\ k.width = BlockSize /\ k.actualStart = fb.next /\ k.actualWidth = 0
        /\ \A j \in 1 .. n :
             /\ b.banks[j].weightStart = fb.banks[j].weightStart + shift
             /\ b.banks[j].start = fb.banks[j].start /\ b.banks[j].width = fb.banks[j].width
             /\ b.banks[j].actualStart = fb.banks[j].actualStart
             /\ b.banks[j].actualWidth = fb.banks[j].actualWidth
        /\ b.next = fb.next /\ b.room = fb.room + shift /\ b.needsZeros = TRUE
    <3>1. b = WithoutBins(fb)
      BY <1>3, <1>5
    <3>2. Emptied(b, fb, n)
      BY <1>2, <3>1, WithoutBinsIs
    <3> QED
      BY <3>2 DEF Emptied
  <2>2. u(n + 1) = u(n)
    BY <1>1, <1>5 DEF width
  <2>3. shift \in Nat /\ (fb.needsZeros => shift = 0) /\ (~ fb.needsZeros => shift = BlockSize) /\ BlockSize \in Nat
    BY DEF BlockSize, ShiftOf
  <2> HIDE DEF shift, k
  <2>4. b.room >= BlockSize
    BY <1>2, <2>1, <2>3 DEF Arranged
  <2>5. Placed(k, b.room, b.needsZeros, first, tops, n + 1)
    <3>1. u(n + 1) - u(n) = 0 /\ (n + 1) - 1 = n
      BY <1>1, <2>2
    <3> QED
      BY <1>2, <2>1, <3>1 DEF Placed, u
  <2>6. ASSUME NEW j \in 1 .. n
        PROVE  Placed(b.banks[j], b.room, b.needsZeros, first, tops, j)
    <3> DEFINE o == fb.banks[j]
               m == b.banks[j]
    <3>1. Placed(o, fb.room, fb.needsZeros, first, tops, j) /\ o \in Banks
      BY <1>2 DEF Arranged
    <3>2. /\ m.weightStart = o.weightStart + shift /\ m.start = o.start /\ m.width = o.width
          /\ m.actualStart = o.actualStart /\ m.actualWidth = o.actualWidth
      BY <2>1
    <3>3. o.weightStart \in Nat /\ o.width \in Nat
      BY <3>1 DEF Banks
    <3> HIDE DEF o, m
    <3>4. CASE o.actualWidth = 0
      <4>1. shift = 0
        BY <2>3, <3>1, <3>4 DEF Placed
      <4> QED
        BY <2>1, <3>1, <3>2, <3>3, <3>4, <4>1 DEF Placed, m
    <3>5. CASE o.actualWidth # 0
      <4>1. m.weightStart >= BlockSize
        BY <2>3, <3>1, <3>2, <3>3, <3>5 DEF Placed
      <4>2. m.weightStart + m.width <= b.room
        BY <1>2, <2>1, <2>3, <3>1, <3>2, <3>3, <3>5 DEF Placed
      <4> QED
        BY <2>1, <3>1, <3>2, <3>5, <4>1, <4>2 DEF Placed, m
    <3> QED
      BY <3>4, <3>5
  <2>7. ASSUME NEW j \in 1 .. n + 1, NEW i \in 1 .. j - 1
        PROVE  Apart(b.banks[i], b.banks[j])
    <3>1. CASE j = n + 1
      BY <2>1, <3>1 DEF Apart, k
    <3>2. CASE j \in 1 .. n
      <4>1. i \in 1 .. n
        BY <3>2
      <4>2. Apart(fb.banks[i], fb.banks[j])
        BY <3>2 DEF Arranged
      <4>3. /\ fb.banks[i].weightStart \in Nat /\ fb.banks[j].weightStart \in Nat /\ fb.banks[i].width \in Nat
        BY <1>2, <3>2, <4>1 DEF Banks
      <4> DEFINE o == fb.banks[i]
                 m == fb.banks[j]
                 v == b.banks[i]
                 w == b.banks[j]
      <4>4. /\ v.weightStart = o.weightStart + shift /\ v.width = o.width /\ v.actualWidth = o.actualWidth
            /\ w.weightStart = m.weightStart + shift /\ w.actualWidth = m.actualWidth
        BY <2>1, <3>2, <4>1
      <4>5. Apart(o, m) /\ o.weightStart \in Nat /\ m.weightStart \in Nat /\ o.width \in Nat
        BY <4>2, <4>3
      <4> HIDE DEF o, m, v, w
      <4>6. Apart(v, w)
        BY <2>3, <4>4, <4>5 DEF Apart
      <4> QED
        BY <4>6 DEF v, w
    <3> QED
      BY <1>4, <3>1, <3>2
  <2>8. \A j \in 1 .. n + 1 : Placed(b.banks[j], b.room, b.needsZeros, first, tops, j)
    BY <1>4, <2>5, <2>6 DEF k
  <2>9. b.next = u(n + 1)
    BY <1>2, <2>1, <2>2
  <2> QED
    BY <2>1, <2>4, <2>7, <2>8, <2>9 DEF Arranged, b, u
<1>6. CASE width # 0
  <2> DEFINE k == b.banks[n + 1]
  <2>1. /\ b \in Layouts(n + 1)
        /\ k.start <= fb.next /\ fb.next + width <= k.start + k.width
        /\ k.start + k.width <= fb.next + width + BlockSize - 1
        /\ k.weightStart = fb.room /\ k.actualStart = fb.next /\ k.actualWidth = width
        /\ \A j \in 1 .. n : b.banks[j] = fb.banks[j]
        /\ b.next = fb.next + width /\ b.room = fb.room + k.width /\ b.needsZeros = fb.needsZeros
    <3>1. width \in Nat \ {0}
      BY <1>3, <1>6
    <3> QED
      BY <1>2, <1>3, <1>6, <3>1, WithBinsIs
  <2>2. u(n + 1) = u(n) + width /\ u(n + 1) - u(n) = width
    BY <1>1 DEF width
  <2>3. k \in Banks /\ k.width \in Nat
    <3>1. n + 1 \in Nat /\ n + 1 \in 1 .. n + 1
      OBVIOUS
    <3>2. k \in Banks
      BY <2>1, <3>1, LayoutIs
    <3> QED
      BY <3>2 DEF Banks
  <2> HIDE DEF k
  <2>4. b.needsZeros => b.room >= BlockSize
    BY <1>2, <2>1, <2>3 DEF Arranged, BlockSize
  <2>5. Placed(k, b.room, b.needsZeros, first, tops, n + 1)
    <3>1. (n + 1) - 1 = n /\ (b.needsZeros => k.weightStart >= BlockSize)
      BY <2>1 DEF Arranged
    <3>2. k.weightStart + k.width <= b.room
      BY <1>2, <2>1, <2>3
    <3>3. k.start + k.width <= u(n + 1) + BlockSize - 1
      BY <1>2, <2>1, <2>2
    <3> QED
      BY <1>2, <1>6, <2>1, <2>2, <3>1, <3>2, <3>3 DEF Placed, u
  <2>6. ASSUME NEW j \in 1 .. n
        PROVE  Placed(b.banks[j], b.room, b.needsZeros, first, tops, j)
    <3> DEFINE o == fb.banks[j]
    <3>1. Placed(o, fb.room, fb.needsZeros, first, tops, j) /\ o \in Banks
      BY <1>2 DEF Arranged
    <3>3. o.weightStart \in Nat /\ o.width \in Nat /\ b.banks[j] = o
      BY <2>1, <3>1 DEF Banks
    <3> HIDE DEF o
    <3>4. o.weightStart + o.width <= fb.room => o.weightStart + o.width <= b.room
      BY <1>2, <2>1, <2>3, <3>3
    <3> QED
      BY <2>1, <3>1, <3>3, <3>4 DEF Placed
  <2>7. ASSUME NEW j \in 1 .. n + 1, NEW i \in 1 .. j - 1
        PROVE  Apart(b.banks[i], b.banks[j])
    <3>1. CASE j = n + 1
      <4>1. i \in 1 .. n
        BY <3>1
      <4>2. Placed(fb.banks[i], fb.room, fb.needsZeros, first, tops, i) /\ b.banks[i] = fb.banks[i] /\ b.banks[j] = k
        BY <2>1, <3>1, <4>1 DEF Arranged, k
      <4> QED
        BY <2>1, <4>2 DEF Apart, Placed
    <3>2. CASE j \in 1 .. n
      <4>1. i \in 1 .. n
        BY <3>2
      <4>2. Apart(fb.banks[i], fb.banks[j])
        BY <3>2 DEF Arranged
      <4> QED
        BY <2>1, <3>2, <4>1, <4>2
    <3> QED
      BY <1>4, <3>1, <3>2
  <2>8. \A j \in 1 .. n + 1 : Placed(b.banks[j], b.room, b.needsZeros, first, tops, j)
    BY <1>4, <2>5, <2>6 DEF k
  <2>9. b.next = u(n + 1)
    BY <1>2, <2>1, <2>2
  <2> QED
    BY <2>1, <2>4, <2>7, <2>8, <2>9 DEF Arranged, b, u
<1> QED
  BY <1>5, <1>6 DEF b

AnyLayout == [banks : Seq(Banks), next : Nat, room : Nat, needsZeros : BOOLEAN]

\* A layout stays one.
LEMMA OneMoreIsLayout ==
  ASSUME NEW fb \in AnyLayout, NEW top \in Nat
  PROVE  OneMoreBank(fb, top) \in AnyLayout
<1> DEFINE n == Len(fb.banks)
           width == MaxOf(fb.next, top) - fb.next
<1>1. n \in Nat /\ fb \in Layouts(n) /\ fb.next \in Nat
  BY DEF AnyLayout, Layouts
<1>2. width \in Nat
  BY <1>1 DEF MaxOf
<1>3. \A m : Layouts(m) \subseteq AnyLayout
  BY DEF Layouts, AnyLayout
<1>4. OneMoreBank(fb, top) = IF width = 0 THEN WithoutBins(fb) ELSE WithBins(fb, width)
  BY DEF OneMoreBank
<1> HIDE DEF width, n
<1>5. CASE width = 0
  <2>1. Emptied(WithoutBins(fb), fb, n)
    BY <1>1, WithoutBinsIs
  <2> QED
    BY <1>3, <1>4, <1>5, <2>1 DEF Emptied
<1>6. CASE width # 0
  <2>1. width \in Nat \ {0}
    BY <1>2, <1>6
  <2>2. WithBins(fb, width) \in Layouts(n + 1)
    BY <1>1, <2>1, WithBinsIs
  <2> QED
    BY <1>3, <1>4, <1>6, <2>2
<1> QED
  BY <1>5, <1>6

IsLayout(f, first, tops) ==
  f = [ch \in 0 .. Len(tops) |-> IF ch = 0 THEN NoBanks(first) ELSE OneMoreBank(f[ch - 1], tops[ch])]

\* The function of the first pass exists.
LEMMA LayoutExists ==
  ASSUME NEW first, NEW tops, TopsOK(first, tops)
  PROVE  \E f : IsLayout(f, first, tops)
<1> DEFINE n == Len(tops)
           V == AnyLayout
           v == NoBanks(first)
           g == [p \in (1 .. n) \X V |-> OneMoreBank(p[2], tops[p[1]])]
<1>1. n \in Nat /\ \A i \in 1 .. n : tops[i] \in Nat
  BY DEF TopsOK
<1>2. v \in V
  BY DEF TopsOK, NoBanks, AnyLayout
<1>3. \A i \in 1 .. n : \A fb \in V : OneMoreBank(fb, tops[i]) \in V
  BY <1>1, OneMoreIsLayout
<1> HIDE DEF V, v, n
<1>4. g \in [(1 .. n) \X V -> V] /\ \A i \in 1 .. n : \A fb \in V : g[<<i, fb>>] = OneMoreBank(fb, tops[i])
  BY <1>3
<1> HIDE DEF g
<1>5. PICK f \in [0 .. n -> V] : Folds(f, n, v, g)
  BY <1>1, <1>2, <1>4, FoldExists
<1>6. ASSUME NEW i \in 1 .. n
      PROVE  f[i] = OneMoreBank(f[i - 1], tops[i])
  <2>1. i - 1 \in 0 .. n
    BY <1>1
  <2> QED
    BY <1>4, <1>5, <2>1 DEF Folds
<1>7. \A i \in 0 .. n : f[i] = IF i = 0 THEN v ELSE OneMoreBank(f[i - 1], tops[i])
  BY <1>1, <1>5, <1>6 DEF Folds
<1> QED
  BY <1>5, <1>7 DEF IsLayout, v, n

\* The first pass arranges every channel.
LEMMA LayoutArranged ==
  ASSUME NEW first, NEW tops, TopsOK(first, tops)
  PROVE  Arranged(Layout(first, tops), first, tops, Len(tops))
<1> DEFINE n == Len(tops)
           f == CHOOSE f : IsLayout(f, first, tops)
           S == {c \in 0 .. n : Arranged(f[c], first, tops, c)}
<1>1. Layout(first, tops) = f[n]
  BY DEF Layout, IsLayout
<1>2. IsLayout(f, first, tops)
  BY LayoutExists
<1> HIDE DEF f
<1>3. n \in Nat
  BY DEF TopsOK
<1>4. f[0] = NoBanks(first) /\ \A i \in 1 .. n : f[i] = OneMoreBank(f[i - 1], tops[i])
  <2>1. \A i \in 0 .. n : f[i] = IF i = 0 THEN NoBanks(first) ELSE OneMoreBank(f[i - 1], tops[i])
    BY <1>2 DEF IsLayout
  <2> QED
    BY <1>3, <2>1
<1>5. 0 \in S
  <2> DEFINE b == NoBanks(first)
  <2>1. first \in Nat
    BY DEF TopsOK
  <2>2. b = [banks |-> << >>, next |-> first, room |-> 0, needsZeros |-> FALSE]
    BY DEF NoBanks
  <2>3. b \in Layouts(0)
    BY <2>1, <2>2 DEF Layouts
  <2>4. b.next = Upper(first, tops, 0) /\ b.needsZeros = FALSE
    BY <2>2 DEF Upper
  <2> HIDE DEF b
  <2>5. Arranged(b, first, tops, 0)
    BY <2>3, <2>4 DEF Arranged
  <2> QED
    BY <1>3, <1>4, <2>5 DEF b
<1>6. ASSUME NEW c \in 1 .. n, c - 1 \in S
      PROVE  c \in S
  <2> DEFINE m == c - 1
             b == f[m]
  <2>1. m \in Nat /\ m + 1 <= n /\ m + 1 = c
    BY <1>3
  <2>2. Arranged(b, first, tops, m)
    BY <1>6
  <2>3. f[c] = OneMoreBank(b, tops[m + 1])
    BY <1>4, <2>1
  <2> HIDE DEF m, b
  <2>4. Arranged(OneMoreBank(b, tops[m + 1]), first, tops, m + 1)
    BY <2>1, <2>2, OneMoreArranged
  <2> QED
    BY <2>1, <2>3, <2>4
<1>7. S \in SUBSET (0 .. n)
  OBVIOUS
<1> HIDE DEF S, n
<1>8. n \in S
  BY <1>3, <1>5, <1>6, <1>7, EveryPlace
<1> QED
  BY <1>1, <1>8 DEF S, n

-----------------------------------------------------------------------------
(* The weights. *)

\* A channel's first weight of its own, and the places of them all.
FirstPlace(k) == k.weightStart + k.actualStart - k.start
OwnPlace(k, x) == FirstPlace(k) <= x /\ x <= FirstPlace(k) + k.actualWidth - 1

\* They are inside of what the channel reads, and behind the block of zeros.
LEMMA PlaceInside ==
  ASSUME NEW first, NEW tops, NEW j, NEW room \in Nat, NEW needsZeros, NEW k \in Banks,
         Placed(k, room, needsZeros, first, tops, j), NEW x \in Int, OwnPlace(k, x)
  PROVE  /\ k.actualWidth # 0 /\ k.weightStart <= x /\ x < k.weightStart + k.width /\ x < room
         /\ needsZeros => x >= BlockSize
<1>1. /\ k.weightStart \in Nat /\ k.actualStart \in Nat /\ k.start \in Nat /\ k.width \in Nat /\ k.actualWidth \in Nat
  BY DEF Banks
<1>2. k.actualWidth # 0
  BY <1>1 DEF OwnPlace, FirstPlace
<1>3. /\ k.start <= k.actualStart /\ k.actualStart + k.actualWidth <= k.start + k.width
      /\ needsZeros => k.weightStart >= BlockSize
      /\ k.weightStart + k.width <= room
  BY <1>2 DEF Placed
<1>4. k.weightStart <= x /\ x < k.weightStart + k.width
  BY <1>1, <1>3 DEF OwnPlace, FirstPlace
<1>5. x < room /\ (needsZeros => x >= BlockSize)
  BY <1>1, <1>3, <1>4 DEF BlockSize
<1> QED
  BY <1>2, <1>4, <1>5

\* What an arrangement says of one channel.
LEMMA ArrangedIs ==
  ASSUME NEW first, NEW tops, NEW n \in Nat, NEW fb, Arranged(fb, first, tops, n)
  PROVE  /\ fb.banks \in Seq(Banks) /\ Len(fb.banks) = n /\ fb.room \in Nat
         /\ fb.needsZeros => fb.room >= BlockSize
         /\ \A j \in 1 .. n : /\ fb.banks[j] \in Banks
                              /\ Placed(fb.banks[j], fb.room, fb.needsZeros, first, tops, j)
BY LayoutIs DEF Arranged

\* What one channel reads is no other's.
LEMMA PlacesApart ==
  ASSUME NEW first, NEW tops, NEW n \in Nat, NEW fb, Arranged(fb, first, tops, n),
         NEW i \in 1 .. n, NEW j \in 1 .. n, i # j, NEW x \in Int, OwnPlace(fb.banks[i], x),
         fb.banks[j].actualWidth # 0, fb.banks[j].weightStart <= x
  PROVE  x >= fb.banks[j].weightStart + fb.banks[j].width
<1> DEFINE k == fb.banks[i]
           m == fb.banks[j]
<1>1. k \in Banks /\ m \in Banks /\ Placed(k, fb.room, fb.needsZeros, first, tops, i) /\ fb.room \in Nat
  BY ArrangedIs
<1>2. i < j => Apart(k, m)
  <2>1. i < j => i \in 1 .. j - 1
    OBVIOUS
  <2> QED
    BY <2>1 DEF Arranged
<1>3. j < i => Apart(m, k)
  <2>1. j < i => j \in 1 .. i - 1
    OBVIOUS
  <2> QED
    BY <2>1 DEF Arranged
<1>4. OwnPlace(k, x) /\ m.actualWidth # 0 /\ m.weightStart <= x
  OBVIOUS
<1>5. /\ k.weightStart \in Nat /\ k.width \in Nat /\ m.weightStart \in Nat /\ m.width \in Nat
  BY <1>1 DEF Banks
<1> HIDE DEF k, m
<1>6. k.actualWidth # 0 /\ k.weightStart <= x /\ x < k.weightStart + k.width
  BY <1>1, <1>4, PlaceInside
<1>7. CASE i < j
  BY <1>2, <1>4, <1>5, <1>6, <1>7 DEF Apart
<1>8. CASE j < i
  BY <1>3, <1>4, <1>5, <1>6, <1>8 DEF Apart, m
<1> QED
  BY <1>7, <1>8

\* The bin whose weight stands at each place after c channels.
Filled(w, fb, c) ==
  /\ w \in [0 .. fb.room - 1 -> Int]
  /\ \A x \in 0 .. fb.room - 1 :
       /\ (\A j \in 1 .. c : ~ OwnPlace(fb.banks[j], x)) => w[x] = NoBin
       /\ \A j \in 1 .. c : OwnPlace(fb.banks[j], x) =>
            w[x] = fb.banks[j].actualStart + x - FirstPlace(fb.banks[j])

\* The weights of a channel.
LEMMA WithWeightsIs ==
  ASSUME NEW room \in Nat, NEW w \in [0 .. room - 1 -> Int], NEW k \in Banks
  PROVE  /\ WithWeights(k, w) \in [0 .. room - 1 -> Int]
         /\ \A x \in 0 .. room - 1 :
              WithWeights(k, w)[x] = IF OwnPlace(k, x) THEN k.actualStart + x - FirstPlace(k) ELSE w[x]
<1> DEFINE at == FirstPlace(k)
           value(x) == k.actualStart + x - at
<1>1. k.weightStart \in Nat /\ k.actualStart \in Nat /\ k.start \in Nat /\ k.actualWidth \in Nat
  BY DEF Banks
<1>2. at \in Int
  BY <1>1 DEF FirstPlace
<1>3. WithWeights(k, w) =
        [x \in 0 .. room - 1 |-> IF x \in at .. at + k.actualWidth - 1 THEN value(x) ELSE w[x]]
  BY DEF WithWeights, FirstPlace
<1>4. \A x \in 0 .. room - 1 : x \in at .. at + k.actualWidth - 1 <=> OwnPlace(k, x)
  BY <1>1, <1>2 DEF OwnPlace
<1> HIDE DEF at
<1>5. \A x \in 0 .. room - 1 : value(x) \in Int /\ w[x] \in Int
  BY <1>1, <1>2
<1> HIDE DEF value
<1>6. WithWeights(k, w) \in [0 .. room - 1 -> Int]
  BY <1>3, <1>5
<1>7. \A x \in 0 .. room - 1 : WithWeights(k, w)[x] = IF OwnPlace(k, x) THEN value(x) ELSE w[x]
  BY <1>3, <1>4
<1> QED
  BY <1>6, <1>7 DEF at, value

IsWeights(f, fb) ==
  f = [ch \in 0 .. Len(fb.banks) |->
         IF ch = 0 THEN [i \in 0 .. fb.room - 1 |-> NoBin] ELSE WithWeights(fb.banks[ch], f[ch - 1])]

\* The function of the second pass exists.
LEMMA WeightsExist ==
  ASSUME NEW fb, fb.banks \in Seq(Banks), fb.room \in Nat
  PROVE  \E f : IsWeights(f, fb)
<1> DEFINE n == Len(fb.banks)
           V == [0 .. fb.room - 1 -> Int]
           v == [i \in 0 .. fb.room - 1 |-> NoBin]
           g == [p \in (1 .. n) \X V |-> WithWeights(fb.banks[p[1]], p[2])]
<1>1. n \in Nat /\ \A i \in 1 .. n : fb.banks[i] \in Banks
  OBVIOUS
<1>2. v \in V
  BY DEF NoBin
<1>3. \A i \in 1 .. n : \A w \in V : WithWeights(fb.banks[i], w) \in V
  BY <1>1, WithWeightsIs
<1> HIDE DEF V, v, n
<1>4. g \in [(1 .. n) \X V -> V] /\ \A i \in 1 .. n : \A w \in V : g[<<i, w>>] = WithWeights(fb.banks[i], w)
  BY <1>3
<1> HIDE DEF g
<1>5. PICK f \in [0 .. n -> V] : Folds(f, n, v, g)
  BY <1>1, <1>2, <1>4, FoldExists
<1>6. ASSUME NEW i \in 1 .. n
      PROVE  f[i] = WithWeights(fb.banks[i], f[i - 1])
  <2>1. i - 1 \in 0 .. n
    BY <1>1
  <2> QED
    BY <1>4, <1>5, <2>1 DEF Folds
<1>7. \A i \in 0 .. n : f[i] = IF i = 0 THEN v ELSE WithWeights(fb.banks[i], f[i - 1])
  BY <1>1, <1>5, <1>6 DEF Folds
<1> QED
  BY <1>5, <1>7 DEF IsWeights, v, n

\* A channel more fills its own places, and none that is filled.
LEMMA OneMoreFilled ==
  ASSUME NEW first, NEW tops, NEW n \in Nat, NEW fb, Arranged(fb, first, tops, n),
         NEW c \in 1 .. n, NEW w, Filled(w, fb, c - 1)
  PROVE  Filled(WithWeights(fb.banks[c], w), fb, c)
<1> DEFINE k == fb.banks[c]
           v == WithWeights(k, w)
           room == fb.room
<1>1. k \in Banks /\ room \in Nat /\ w \in [0 .. room - 1 -> Int]
  BY ArrangedIs DEF Filled
<1>2. v \in [0 .. room - 1 -> Int]
      /\ \A x \in 0 .. room - 1 : v[x] = IF OwnPlace(k, x) THEN k.actualStart + x - FirstPlace(k) ELSE w[x]
  <2> HIDE DEF k, room
  <2> QED
    BY <1>1, WithWeightsIs
<1>3. ASSUME NEW j \in 1 .. c
      PROVE  j = c \/ j \in 1 .. c - 1
  OBVIOUS
<1> HIDE DEF v
<1>4. ASSUME NEW x \in 0 .. room - 1, \A j \in 1 .. c : ~ OwnPlace(fb.banks[j], x)
      PROVE  v[x] = NoBin
  <2>1. ~ OwnPlace(k, x)
    BY <1>4
  <2>2. \A j \in 1 .. c - 1 : ~ OwnPlace(fb.banks[j], x)
    BY <1>4
  <2>3. w[x] = NoBin
    BY <2>2 DEF Filled
  <2> QED
    BY <1>2, <2>1, <2>3
<1>5. ASSUME NEW x \in 0 .. room - 1, NEW j \in 1 .. c, OwnPlace(fb.banks[j], x)
      PROVE  v[x] = fb.banks[j].actualStart + x - FirstPlace(fb.banks[j])
  <2>1. CASE j = c
    BY <1>2, <1>5, <2>1
  <2>2. CASE j \in 1 .. c - 1
    <3>1. ~ OwnPlace(k, x)
      <4> SUFFICES ASSUME OwnPlace(k, x) PROVE FALSE
        OBVIOUS
      <4> DEFINE m == fb.banks[j]
      <4>1. j \in 1 .. n /\ j # c /\ x \in Int
        BY <2>2
      <4>2. Placed(m, fb.room, fb.needsZeros, first, tops, j) /\ m \in Banks /\ fb.room \in Nat
        BY <4>1, ArrangedIs
      <4>3. m.actualWidth # 0 /\ m.weightStart <= x /\ x < m.weightStart + m.width
        <5>1. OwnPlace(m, x)
          BY <1>5
        <5> HIDE DEF m
        <5> QED
          BY <4>1, <4>2, <5>1, PlaceInside
      <4>4. x >= m.weightStart + m.width
        BY <4>1, <4>3, PlacesApart
      <4>5. m.weightStart + m.width \in Int
        BY <4>2 DEF Banks
      <4> QED
        BY <4>1, <4>3, <4>4, <4>5
    <3>2. w[x] = fb.banks[j].actualStart + x - FirstPlace(fb.banks[j])
      BY <1>5, <2>2 DEF Filled
    <3> QED
      BY <1>2, <3>1, <3>2
  <2> QED
    BY <1>3, <2>1, <2>2
<1> QED
  BY <1>2, <1>4, <1>5 DEF Filled, v

\* The second pass fills the places of every channel.
LEMMA WeightsFilled ==
  ASSUME NEW first, NEW tops, NEW n \in Nat, NEW fb, Arranged(fb, first, tops, n)
  PROVE  Filled(WeightBins(fb), fb, n)
<1> DEFINE f == CHOOSE f : IsWeights(f, fb)
           S == {c \in 0 .. n : Filled(f[c], fb, c)}
<1>1. fb.banks \in Seq(Banks) /\ Len(fb.banks) = n /\ fb.room \in Nat
  BY ArrangedIs
<1>2. WeightBins(fb) = f[n]
  BY <1>1 DEF WeightBins, IsWeights
<1>3. IsWeights(f, fb)
  BY <1>1, WeightsExist
<1> HIDE DEF f
<1>4. f[0] = [i \in 0 .. fb.room - 1 |-> NoBin] /\ \A i \in 1 .. n : f[i] = WithWeights(fb.banks[i], f[i - 1])
  <2> DEFINE v == [i \in 0 .. fb.room - 1 |-> NoBin]
  <2>1. \A i \in 0 .. n : f[i] = IF i = 0 THEN v ELSE WithWeights(fb.banks[i], f[i - 1])
    BY <1>1, <1>3 DEF IsWeights
  <2> HIDE DEF v
  <2>2. f[0] = v /\ \A i \in 1 .. n : f[i] = WithWeights(fb.banks[i], f[i - 1])
    BY <2>1
  <2> QED
    BY <2>2 DEF v
<1>5. 0 \in S
  <2>1. Filled(f[0], fb, 0)
    BY <1>1, <1>4 DEF Filled, NoBin
  <2> QED
    BY <2>1
<1>6. ASSUME NEW c \in 1 .. n, c - 1 \in S
      PROVE  c \in S
  <2> DEFINE w == f[c - 1]
  <2>1. Filled(w, fb, c - 1) /\ f[c] = WithWeights(fb.banks[c], w)
    BY <1>4, <1>6
  <2> HIDE DEF w
  <2>2. Filled(WithWeights(fb.banks[c], w), fb, c)
    BY <2>1, OneMoreFilled
  <2> QED
    BY <2>1, <2>2
<1>7. S \in SUBSET (0 .. n)
  OBVIOUS
<1> HIDE DEF S
<1>8. n \in S
  BY <1>5, <1>6, <1>7, EveryPlace
<1> QED
  BY <1>2, <1>8 DEF S

-----------------------------------------------------------------------------
(* What a channel sums. *)

\* The bins of a channel, as the pairs that weigh each with its own energy.
OwnReads(k, kind) == {<<kind, b, b>> : b \in k.actualStart .. k.actualStart + k.actualWidth - 1}

Weighing(reads) == {p \in reads : p[2] # NoBin}

\* What a channel reads besides them weighs nothing.
LEMMA ReadsOwn ==
  ASSUME NEW first, NEW tops, NEW n \in Nat, NEW fb, Arranged(fb, first, tops, n), NEW ch \in 1 .. n,
         NEW kind \in {"weight", "unweight"}
  PROVE  Weighing(Reads(fb.banks[ch], WeightBins(fb), kind)) = OwnReads(fb.banks[ch], kind)
<1> DEFINE k == fb.banks[ch]
           w == WeightBins(fb)
           room == fb.room
           pair(i) == <<kind, w[k.weightStart + i], k.start + i>>
<1>1. /\ k \in Banks /\ room \in Nat /\ Placed(k, room, fb.needsZeros, first, tops, ch)
      /\ fb.needsZeros => room >= BlockSize
  BY ArrangedIs
<1>2. Filled(w, fb, n)
  BY WeightsFilled
<1>3. /\ k.weightStart \in Nat /\ k.actualStart \in Nat /\ k.start \in Nat /\ k.width \in Nat /\ k.actualWidth \in Nat
  BY <1>1 DEF Banks
<1>4. Reads(k, w, kind) = {pair(i) : i \in 0 .. k.width - 1}
  BY DEF Reads
<1> HIDE DEF w
<1>5. k.weightStart + k.width <= room
  <2>1. CASE k.actualWidth = 0
    BY <1>1, <2>1 DEF Placed, BlockSize
  <2>2. CASE k.actualWidth # 0
    BY <1>1, <2>2 DEF Placed
  <2> QED
    BY <2>1, <2>2
<1>6. ASSUME NEW i \in 0 .. k.width - 1, OwnPlace(k, k.weightStart + i)
      PROVE  w[k.weightStart + i] = k.start + i
  <2> DEFINE x == k.weightStart + i
  <2>1. x \in 0 .. room - 1
    BY <1>1, <1>3, <1>5
  <2>2. w[x] = k.actualStart + x - FirstPlace(k)
    <3> HIDE DEF x
    <3> QED
      BY <1>2, <1>6, <2>1 DEF Filled, x
  <2> QED
    BY <1>3, <2>2 DEF FirstPlace
<1>7. ASSUME NEW i \in 0 .. k.width - 1, ~ OwnPlace(k, k.weightStart + i)
      PROVE  w[k.weightStart + i] = NoBin
  <2> DEFINE x == k.weightStart + i
  <2>1. x \in 0 .. room - 1 /\ x \in Int /\ k.weightStart <= x /\ x < k.weightStart + k.width
    BY <1>1, <1>3, <1>5
  <2>2. ASSUME NEW j \in 1 .. n, OwnPlace(fb.banks[j], x)
        PROVE  FALSE
    <3> DEFINE m == fb.banks[j]
    <3>1. j # ch
      BY <1>7, <2>2
    <3>2. CASE k.actualWidth = 0
      <4>1. fb.needsZeros /\ x < BlockSize
        BY <1>1, <2>1, <3>2 DEF Placed, BlockSize
      <4>2. m \in Banks /\ Placed(m, room, fb.needsZeros, first, tops, j) /\ OwnPlace(m, x)
        BY <2>2, ArrangedIs
      <4>3. x >= BlockSize
        <5> HIDE DEF m, x, room
        <5> QED
          BY <1>1, <2>1, <4>1, <4>2, PlaceInside
      <4> HIDE DEF x
      <4> QED
        BY <2>1, <4>1, <4>3 DEF BlockSize
    <3>3. CASE k.actualWidth # 0
      <4>1. x >= k.weightStart + k.width
        <5> HIDE DEF x
        <5> QED
          BY <2>1, <2>2, <3>1, <3>3, PlacesApart
      <4> QED
        BY <1>3, <2>1, <4>1
    <3> QED
      BY <3>2, <3>3
  <2> HIDE DEF x
  <2>3. w[x] = NoBin
    BY <1>2, <2>1, <2>2 DEF Filled
  <2> QED
    BY <2>3 DEF x
<1>8. ASSUME NEW i \in 0 .. k.width - 1
      PROVE  OwnPlace(k, k.weightStart + i) <=> k.start + i \in k.actualStart .. k.actualStart + k.actualWidth - 1
  BY <1>3 DEF OwnPlace, FirstPlace
<1>9. ASSUME NEW b \in k.actualStart .. k.actualStart + k.actualWidth - 1
      PROVE  \E i \in 0 .. k.width - 1 : k.start + i = b
  <2>1. k.actualWidth # 0
    BY <1>3
  <2>2. k.start <= k.actualStart /\ k.actualStart + k.actualWidth <= k.start + k.width
    BY <1>1, <2>1 DEF Placed
  <2>3. b - k.start \in 0 .. k.width - 1 /\ k.start + (b - k.start) = b
    BY <1>3, <2>2
  <2> QED
    BY <2>3
<1>10. \A i \in 0 .. k.width - 1 : k.start + i # NoBin
  BY <1>3 DEF NoBin
<1> DEFINE bin(i) == w[k.weightStart + i]
           own == k.actualStart .. k.actualStart + k.actualWidth - 1
           Q == 0 .. k.width - 1
           at(i) == k.start + i
<1>11. \A i \in Q : bin(i) = IF at(i) \in own THEN at(i) ELSE NoBin
  BY <1>6, <1>7, <1>8
<1>12. /\ \A b \in own : \E i \in Q : at(i) = b
       /\ \A i \in Q : at(i) # NoBin
  BY <1>9, <1>10
<1>13. Reads(k, w, kind) = {<<kind, bin(i), at(i)>> : i \in Q} /\ OwnReads(k, kind) = {<<kind, b, b>> : b \in own}
  BY <1>4 DEF OwnReads
<1> HIDE DEF bin, own, Q, at, pair, k
<1>14. {p \in Reads(k, w, kind) : p[2] # NoBin} \subseteq OwnReads(k, kind)
  BY <1>11, <1>13
<1>15. ASSUME NEW b \in own
       PROVE  <<kind, b, b>> \in {p \in Reads(k, w, kind) : p[2] # NoBin}
  <2>1. PICK i \in Q : at(i) = b
    BY <1>12
  <2>2. bin(i) = b /\ b # NoBin
    BY <1>11, <1>12, <2>1
  <2> QED
    BY <1>13, <2>1, <2>2
<1> QED
  BY <1>13, <1>14, <1>15 DEF k, w, Weighing

OwnOnly(fb, n) == \A ch \in 1 .. n : \A kind \in {"weight", "unweight"} :
                    Weighing(Reads(fb.banks[ch], WeightBins(fb), kind)) = OwnReads(fb.banks[ch], kind)

\* This goes for every channel and both kinds of weights.
LEMMA AllReadOwn ==
  ASSUME NEW first, NEW tops, NEW n \in Nat, NEW fb, Arranged(fb, first, tops, n)
  PROVE  OwnOnly(fb, n)
BY ReadsOwn DEF OwnOnly

\* A channel's own bins are those of its band.
LEMMA BandIs ==
  ASSUME NEW config, TopsOK(config.first, config.tops), NEW ch \in 1 .. Len(config.tops)
  PROVE  Band(config, ch) = Upper(config.first, config.tops, ch - 1) .. Upper(config.first, config.tops, ch) - 1
<1> DEFINE first == config.first
           tops == config.tops
<1>1. first \in Nat /\ Len(tops) \in Nat /\ \A i \in 1 .. Len(tops) : tops[i] \in Nat
  BY DEF TopsOK
<1>2. /\ Band(config, ch) = {b \in first .. tops[ch] - 1 : ch > 1 => b >= tops[ch - 1]}
      /\ ch \in 1 .. Len(tops)
  BY DEF Band
<1> HIDE DEF first, tops
<1>3. CASE ch = 1
  <2>1. Upper(first, tops, ch - 1) = first /\ Upper(first, tops, ch) = MaxOf(first, tops[ch])
    BY <1>3 DEF Upper
  <2>2. tops[ch] \in Nat
    BY <1>1, <1>2
  <2> QED
    BY <1>1, <1>2, <1>3, <2>1, <2>2 DEF MaxOf, first, tops
<1>4. CASE ch > 1
  <2>1. Upper(first, tops, ch - 1) = MaxOf(first, tops[ch - 1]) /\ Upper(first, tops, ch) = MaxOf(first, tops[ch])
    BY <1>4 DEF Upper
  <2>2. ch - 1 \in 1 .. Len(tops) /\ ch - 1 <= ch
    BY <1>1, <1>2, <1>4
  <2>3. tops[ch] \in Nat /\ tops[ch - 1] \in Nat /\ tops[ch - 1] <= tops[ch]
    BY <1>1, <1>2, <2>2 DEF TopsOK, first, tops
  <2> DEFINE a == tops[ch]
             c == tops[ch - 1]
  <2>4. Band(config, ch) = {b \in first .. a - 1 : b >= c}
    BY <1>2, <1>4
  <2> HIDE DEF a, c
  <2>5. {b \in first .. a - 1 : b >= c} = MaxOf(first, c) .. MaxOf(first, a) - 1
    BY <1>1, <2>3 DEF MaxOf, a, c
  <2> QED
    BY <2>1, <2>4, <2>5 DEF a, c, first, tops
<1> QED
  BY <1>3, <1>4

\* Every channel sums its band and the one below.
LEMMA AccumulatesBands ==
  ASSUME NEW config, TopsOK(config.first, config.tops), NEW ch \in 1 .. Len(config.tops)
  PROVE  accumulate(Layout(config.first, config.tops))[ch] = Weighed(config, ch)
<1> DEFINE n == Len(config.tops)
           fb == Layout(config.first, config.tops)
           w == WeightBins(fb)
           reads(j, kind) == Reads(fb.banks[j], w, kind)
           band(j, kind) == {<<kind, b, b>> : b \in Band(config, j)}
<1>1. n \in Nat
  BY DEF TopsOK
<1>2. Arranged(fb, config.first, config.tops, n)
  BY LayoutArranged
<1> HIDE DEF fb
<1>3. Len(fb.banks) = n
  BY <1>1, <1>2, ArrangedIs
<1>4. accumulate(fb)[ch] =
        Weighing(reads(ch, "weight") \cup (IF ch = 1 THEN {} ELSE reads(ch - 1, "unweight")))
  BY <1>3 DEF accumulate, Weighing
<1>5. ASSUME NEW j \in 1 .. n, NEW kind \in {"weight", "unweight"}
      PROVE  Weighing(reads(j, kind)) = band(j, kind)
  <2>1. Weighing(reads(j, kind)) = OwnReads(fb.banks[j], kind)
    <3> DEFINE first == config.first
               tops == config.tops
    <3>1. Arranged(fb, first, tops, n)
      BY <1>2
    <3> HIDE DEF first, tops, n
    <3>2. OwnOnly(fb, n)
      BY <1>1, <3>1, AllReadOwn
    <3> QED
      BY <3>2 DEF OwnOnly
  <2>2. /\ fb.banks[j].actualStart = Upper(config.first, config.tops, j - 1)
        /\ fb.banks[j].actualWidth = Upper(config.first, config.tops, j) - Upper(config.first, config.tops, j - 1)
    BY <1>1, <1>2, ArrangedIs DEF Placed
  <2>3. Upper(config.first, config.tops, j - 1) \in Nat /\ Upper(config.first, config.tops, j) \in Nat
    <3>1. j \in 0 .. n /\ j - 1 \in 0 .. n
      BY <1>1
    <3> QED
      BY <3>1, UpperIs
  <2>4. fb.banks[j].actualStart .. fb.banks[j].actualStart + fb.banks[j].actualWidth - 1 = Band(config, j)
    <3> DEFINE u == Upper(config.first, config.tops, j - 1)
               v == Upper(config.first, config.tops, j)
    <3>1. Band(config, j) = u .. v - 1
      BY BandIs
    <3>2. u \in Nat /\ v \in Nat /\ fb.banks[j].actualStart = u /\ fb.banks[j].actualWidth = v - u
      BY <2>2, <2>3
    <3> HIDE DEF u, v
    <3>3. u + (v - u) - 1 = v - 1
      BY <3>2
    <3> QED
      BY <3>1, <3>2, <3>3
  <2> QED
    BY <2>1, <2>4 DEF OwnReads
<1> HIDE DEF reads
<1>6. Weighed(config, ch) = band(ch, "weight") \cup (IF ch = 1 THEN {} ELSE band(ch - 1, "unweight"))
  BY DEF Weighed
<1>7. Weighing(reads(ch, "weight")) = band(ch, "weight")
  BY <1>5
<1>8. CASE ch = 1
  BY <1>4, <1>6, <1>7, <1>8 DEF fb
<1>9. CASE ch # 1
  <2>1. ch - 1 \in 1 .. n
    BY <1>1, <1>9
  <2>2. Weighing(reads(ch - 1, "unweight")) = band(ch - 1, "unweight")
    BY <1>5, <2>1
  <2> QED
    BY <1>4, <1>6, <1>7, <1>9, <2>2 DEF fb, Weighing
<1> QED
  BY <1>8, <1>9

\* The last channel's top bounds them all, and no weight stands outside of the arrays.
LEMMA OverrunsAtTheEnd ==
  ASSUME NEW config, TopsOK(config.first, config.tops), config.tops # << >>, config.spectrum \in Nat,
         Overruns(Layout(config.first, config.tops), config.spectrum)
  PROVE  Last(config.tops) + BlockSize - 1 > config.spectrum
<1> DEFINE first == config.first
           tops == config.tops
           n == Len(tops)
           fb == Layout(first, tops)
           last == tops[n]
<1>1. n \in Nat \ {0} /\ Last(tops) = last /\ last \in Nat \ {0} /\ first \in Nat
  BY DEF TopsOK, Last
<1>2. Arranged(fb, first, tops, n)
  BY LayoutArranged
<1> HIDE DEF first, tops, n, fb, last
<1>3. Len(fb.banks) = n /\ fb.room \in Nat /\ (fb.needsZeros => fb.room >= BlockSize)
  BY <1>1, <1>2, ArrangedIs
<1>4. PICK ch \in 1 .. n :
        fb.banks[ch].start + fb.banks[ch].width > config.spectrum
        \/ fb.banks[ch].weightStart + fb.banks[ch].width > fb.room
  BY <1>3 DEF Overruns, fb, first, tops
<1> DEFINE k == fb.banks[ch]
<1>5. k \in Banks /\ Placed(k, fb.room, fb.needsZeros, first, tops, ch)
  BY <1>1, <1>2, ArrangedIs
<1>6. /\ k.weightStart \in Nat /\ k.start \in Nat /\ k.width \in Nat /\ k.actualWidth \in Nat
  BY <1>5 DEF Banks
<1>7. tops[ch] \in Nat /\ tops[ch] <= last
  BY <1>1 DEF TopsOK, first, tops, n, last
<1> HIDE DEF k
<1>8. CASE k.actualWidth = 0
  <2>1. fb.needsZeros /\ k.start = 0 /\ k.weightStart = 0 /\ k.width = BlockSize
    BY <1>5, <1>8 DEF Placed
  <2>2. BlockSize > config.spectrum
    BY <1>3, <1>4, <2>1 DEF k, BlockSize
  <2> QED
    BY <1>1, <2>2 DEF BlockSize, tops
<1>9. CASE k.actualWidth # 0
  <2> DEFINE u == Upper(first, tops, ch)
             v == Upper(first, tops, ch - 1)
  <2>1. k.start + k.width <= u + BlockSize - 1 /\ k.weightStart + k.width <= fb.room /\ k.actualWidth = u - v
    BY <1>5, <1>9 DEF Placed
  <2>2. u \in Nat /\ v \in Nat /\ v <= u /\ u = MaxOf(v, tops[ch])
    <3>1. ch \in 0 .. Len(tops) /\ ch > 0
      BY <1>1 DEF n
    <3> QED
      BY <3>1, UpperIs DEF first, tops
  <2>3. k.start + k.width > config.spectrum
    BY <1>3, <1>4, <1>6, <2>1 DEF k
  <2> HIDE DEF u, v
  <2>4. u = tops[ch]
    BY <1>6, <1>7, <1>9, <2>1, <2>2 DEF MaxOf
  <2> QED
    BY <1>1, <1>6, <1>7, <2>1, <2>3, <2>4 DEF BlockSize, tops
<1> QED
  BY <1>8, <1>9

\* Whatever the band limits, the number of channels and their centers: no alignment, padding or block
\* of zeros puts a weight on another bin's energy or another channel's weight, and accumulate stays
\* inside of the arrays and, as long as the filters end BlockSize - 1 bins below its end, of the spectrum.
THEOREM FiltersCover == Spec => []FilterbankCovers
<1>1. RoutinesInv => FilterbankCovers
  <2> DEFINE config == call.config
  <2> SUFFICES ASSUME RoutinesInv, Returned("filterbank")
               PROVE  /\ result[1].kind = "ok" =>
                           \A ch \in 1 .. Len(config.tops) : result[1].work[ch] = Weighed(config, ch)
                      /\ result[1].kind = "panic" => Last(config.tops) + BlockSize - 1 > config.spectrum
    BY DEF FilterbankCovers
  <2>1. call \in Calls /\ call.routine = "filterbank" /\ result = <<Result(call)>>
    BY DEF RoutinesInv, Returned
  <2>2. TopsOK(config.first, config.tops) /\ config.tops # << >> /\ config.spectrum \in Nat
    BY <2>1, CallsAssumption DEF ArgumentsOK, TopsOK
  <2>3. result[1] = filterbank(config)
    BY <2>1 DEF Result
  <2> HIDE DEF config
  <2> DEFINE fb == Layout(config.first, config.tops)
  <2>4. /\ filterbank(config).kind = "ok" => filterbank(config).work = accumulate(fb)
        /\ filterbank(config).kind = "panic" => Overruns(fb, config.spectrum)
    BY DEF filterbank
  <2>5. ASSUME result[1].kind = "ok", NEW ch \in 1 .. Len(config.tops)
        PROVE  result[1].work[ch] = Weighed(config, ch)
    BY <2>2, <2>3, <2>4, <2>5, AccumulatesBands
  <2>6. result[1].kind = "panic" => Last(config.tops) + BlockSize - 1 > config.spectrum
    BY <2>2, <2>3, <2>4, OverrunsAtTheEnd
  <2> QED
    BY <2>5, <2>6
<1> QED
  BY ReturnsResult, <1>1, PTL

-----------------------------------------------------------------------------
(* The WAV reader. *)

Chunks == [id : Ids, size : Nat, body : Seq(AnyCell)]

Pad(n) == (n % 2)
CellCount(chunk) == 1 + Len(chunk.body) + Pad(Len(chunk.body))

Joined(a, b) == a \o b

\* Two lists, one behind the other.
LEMMA JoinedIs ==
  ASSUME NEW a \in Seq(AnyCell), NEW b \in Seq(AnyCell)
  PROVE  /\ Joined(a, b) \in Seq(AnyCell) /\ Len(Joined(a, b)) = Len(a) + Len(b)
         /\ \A k \in 1 .. Len(a) : Joined(a, b)[k] = a[k]
         /\ \A k \in 1 .. Len(b) : Joined(a, b)[k + Len(a)] = b[k]
<1> DEFINE c == a \o b
           m == Len(a)
           n == Len(b)
<1>1. m \in Nat /\ n \in Nat
  OBVIOUS
<1>2. c \in Seq(AnyCell) /\ Len(c) = m + n /\ \A i \in 1 .. m + n : c[i] = IF i <= m THEN a[i] ELSE b[i - m]
  BY ConcatProperties
<1> HIDE DEF c, m, n
<1>3. ASSUME NEW k \in 1 .. m
      PROVE  c[k] = a[k]
  <2>1. k \in 1 .. m + n /\ k <= m
    BY <1>1
  <2> QED
    BY <1>2, <2>1
<1>4. ASSUME NEW k \in 1 .. n
      PROVE  c[k + m] = b[k]
  <2>1. k + m \in 1 .. m + n /\ ~ (k + m <= m) /\ (k + m) - m = k
    BY <1>1
  <2> QED
    BY <1>2, <2>1
<1> QED
  BY <1>2, <1>3, <1>4 DEF c, m, n, Joined

\* A chunk's first cell is its header, and its body comes next.
LEMMA CellsAre ==
  ASSUME NEW chunk \in Chunks
  PROVE  /\ Len(Cells(chunk)) = CellCount(chunk) /\ CellCount(chunk) \in Nat \ {0}
         /\ Len(chunk.body) \in Nat /\ Len(chunk.body) < CellCount(chunk)
         /\ Cells(chunk)[1] = Cell(chunk.id, chunk.size)
         /\ \A k \in 1 .. Len(chunk.body) : Cells(chunk)[k + 1] = chunk.body[k]
<1> DEFINE body == chunk.body
           pad == [i \in 1 .. Pad(Len(body)) |-> Byte(0)]
           head == <<Cell(chunk.id, chunk.size)>>
<1>1. body \in Seq(AnyCell) /\ Cell(chunk.id, chunk.size) \in AnyCell /\ Byte(0) \in AnyCell
  <2>1. chunk.body \in Seq(AnyCell) /\ chunk.id \in Ids /\ chunk.size \in Nat
    BY DEF Chunks
  <2>2. Cell(chunk.id, chunk.size) \in AnyCell
    BY <2>1 DEF AnyCell, Cell
  <2>3. Byte(0) = [kind |-> "byte", value |-> 0]
    BY DEF Byte, Cell
  <2>4. Byte(0) \in AnyCell
    BY <2>3 DEF AnyCell
  <2> QED
    BY <2>1, <2>2, <2>4
<1>2. Len(body) \in Nat /\ Pad(Len(body)) \in Nat
  <2>1. Len(body) \in Nat
    BY <1>1
  <2>2. \A m \in Nat : Pad(m) \in Nat
    BY DEF Pad
  <2> QED
    BY <2>1, <2>2
<1>3. pad \in Seq(AnyCell) /\ Len(pad) = Pad(Len(body))
  BY <1>1, <1>2
<1>4. head \in Seq(AnyCell) /\ Len(head) = 1 /\ head[1] = Cell(chunk.id, chunk.size)
  BY <1>1
<1>5. Cells(chunk) = Joined(Joined(head, body), pad)
  BY DEF Cells, Pad, Joined
<1>6. CellCount(chunk) = 1 + Len(body) + Pad(Len(body))
  BY DEF CellCount
<1> HIDE DEF body, pad, head
<1>7. /\ Joined(head, body) \in Seq(AnyCell) /\ Len(Joined(head, body)) = 1 + Len(body)
      /\ Joined(head, body)[1] = head[1] /\ \A k \in 1 .. Len(body) : Joined(head, body)[k + 1] = body[k]
  <2> DEFINE c == Joined(head, body)
             m == Len(head)
  <2>1. /\ c \in Seq(AnyCell) /\ Len(c) = m + Len(body)
        /\ \A k \in 1 .. m : c[k] = head[k]
        /\ \A k \in 1 .. Len(body) : c[k + m] = body[k]
    BY <1>1, <1>4, JoinedIs
  <2>2. m = 1 /\ 1 \in 1 .. m
    BY <1>4
  <2> HIDE DEF c, m
  <2> QED
    BY <2>1, <2>2 DEF c
<1> DEFINE front == Joined(head, body)
<1>8. front \in Seq(AnyCell) /\ Len(front) = 1 + Len(body)
  BY <1>7
<1> HIDE DEF front
<1>9. Len(Joined(front, pad)) = Len(front) + Len(pad) /\ \A k \in 1 .. Len(front) : Joined(front, pad)[k] = front[k]
  BY <1>3, <1>8, JoinedIs
<1>10. \A k \in 1 .. Len(body) : k + 1 \in 1 .. Len(front)
  BY <1>2, <1>8
<1>11. 1 \in 1 .. Len(front)
  BY <1>2, <1>8
<1>12. /\ Len(Cells(chunk)) = CellCount(chunk)
       /\ Cells(chunk)[1] = head[1] /\ \A k \in 1 .. Len(body) : Cells(chunk)[k + 1] = body[k]
  BY <1>3, <1>5, <1>6, <1>7, <1>8, <1>9, <1>10, <1>11 DEF front
<1> QED
  BY <1>2, <1>4, <1>6, <1>12 DEF body

\* The pad byte is added to every size but the greatest, which it takes to 0.
LEMMA PaddedIsEven ==
  /\ MaxSize \in Nat /\ Padded(MaxSize) = 0 /\ FmtSize \in Nat \ {0} /\ FmtSize <= MaxSize
  /\ \A n \in Nat : n < MaxSize => Padded(n) = n + (n % 2)
<1> DEFINE W == Pow2(SizeBits)
           H == Pow2(SizeBits - 1)
<1>1. SizeBits \in Nat /\ FmtSize \in 1 .. W - 1
  BY WavAssumption
<1>2. SizeBits # 0
  BY <1>1, PowSteps
<1>3. W = 2 * H /\ H \in Nat \ {0}
  <2>1. SizeBits - 1 \in Nat /\ (SizeBits - 1) + 1 = SizeBits
    BY <1>1, <1>2
  <2> QED
    BY <2>1, PowSteps, PowsRise
<1>4. MaxSize = W - 1
  BY DEF MaxSize
<1>5. \A n : Padded(n) = ((n + (n % 2)) % W)
  BY DEF Padded
<1> HIDE DEF W, H
<1>6. W \in Nat \ {0} /\ W - 1 \in Nat /\ ((W - 1) % 2) = 1
  BY <1>3
<1>7. ((W - 1) + 1) % W = 0
  BY <1>6
<1>8. ASSUME NEW n \in Nat, n < W - 1
      PROVE  (n + (n % 2)) % W = n + (n % 2)
  <2> DEFINE x == n + (n % 2)
  <2>1. x \in Nat /\ x < W
    BY <1>3, <1>8
  <2> HIDE DEF x
  <2>2. x % W = x
    BY <1>6, <2>1
  <2> QED
    BY <2>2 DEF x
<1> QED
  BY <1>1, <1>4, <1>5, <1>6, <1>7, <1>8

\* The cells of a file, counted.
Counts(t, chunks) ==
  /\ t \in [0 .. Len(chunks) -> Nat] /\ t[0] = 1
  /\ \A i \in 1 .. Len(chunks) : t[i] = t[i - 1] + CellCount(chunks[i])

IsThrough(f, chunks) ==
  f = [i \in 0 .. Len(chunks) |-> IF i = 0 THEN 1 ELSE f[i - 1] + Len(Cells(chunks[i]))]

\* CellsThrough counts them.
LEMMA ThroughCounts ==
  ASSUME NEW chunks \in Seq(Chunks)
  PROVE  Counts(CellsThrough(chunks), chunks)
<1> DEFINE n == Len(chunks)
           V == Nat
           v == 1
           g == [p \in (1 .. n) \X V |-> p[2] + CellCount(chunks[p[1]])]
           t == CellsThrough(chunks)
<1>1. n \in Nat /\ \A i \in 1 .. n : chunks[i] \in Chunks
  OBVIOUS
<1>2. \A i \in 1 .. n : Len(Cells(chunks[i])) = CellCount(chunks[i]) /\ CellCount(chunks[i]) \in Nat
  BY <1>1, CellsAre
<1>3. g \in [(1 .. n) \X V -> V] /\ \A i \in 1 .. n : \A a \in V : g[<<i, a>>] = a + CellCount(chunks[i])
  BY <1>2
<1>4. v \in V
  OBVIOUS
<1> HIDE DEF g, V, v, n
<1>5. PICK f \in [0 .. n -> V] : Folds(f, n, v, g)
  BY <1>1, <1>3, <1>4, FoldExists
<1>6. f[0] = 1 /\ \A i \in 1 .. n : f[i] = f[i - 1] + CellCount(chunks[i])
  <2>1. \A i \in 1 .. n : i - 1 \in 0 .. n
    BY <1>1
  <2> QED
    BY <1>3, <1>5, <2>1 DEF Folds, v
<1>7. IsThrough(f, chunks)
  <2>1. \A i \in 0 .. n : f[i] = IF i = 0 THEN 1 ELSE f[i - 1] + Len(Cells(chunks[i]))
    BY <1>1, <1>2, <1>6
  <2> QED
    BY <1>5, <2>1 DEF IsThrough, n
<1>8. t = CHOOSE x : IsThrough(x, chunks)
  BY DEF CellsThrough, IsThrough
<1>9. IsThrough(t, chunks)
  BY <1>7, <1>8
<1> HIDE DEF t
<1>10. \A i \in 0 .. n : t[i] = IF i = 0 THEN 1 ELSE t[i - 1] + Len(Cells(chunks[i]))
  BY <1>9 DEF IsThrough, n
<1>11. t[0] = 1 /\ \A i \in 1 .. n : t[i] = t[i - 1] + CellCount(chunks[i])
  BY <1>1, <1>2, <1>10
<1> DEFINE S == {k \in 0 .. n : t[k] \in Nat}
<1>12. 0 \in S
  BY <1>1, <1>11
<1>13. ASSUME NEW k \in 1 .. n, k - 1 \in S
       PROVE  k \in S
  BY <1>2, <1>11, <1>13
<1>14. S \in SUBSET (0 .. n)
  OBVIOUS
<1> HIDE DEF S
<1>15. \A k \in 0 .. n : k \in S
  BY <1>1, <1>12, <1>13, <1>14, EveryPlace
<1>16. t \in [0 .. n -> Nat]
  <2>1. t = [i \in 0 .. n |-> t[i]]
    BY <1>9 DEF IsThrough, n
  <2> QED
    BY <1>15, <2>1 DEF S
<1> QED
  BY <1>11, <1>16 DEF Counts, t, n

\* The counts rise.
LEMMA CountsRise ==
  ASSUME NEW chunks \in Seq(Chunks), NEW t, Counts(t, chunks), NEW j \in 0 .. Len(chunks)
  PROVE  t[j] \in Nat /\ t[j] > j /\ \A i \in 0 .. j : t[i] <= t[j]
<1> DEFINE n == Len(chunks)
           S == {k \in 0 .. j : t[k] > k /\ \A i \in 0 .. k : t[i] <= t[k]}
<1>1. n \in Nat /\ j \in Nat /\ j <= n /\ t \in [0 .. n -> Nat] /\ t[0] = 1
  BY DEF Counts
<1>2. \A i \in 1 .. n : t[i] = t[i - 1] + CellCount(chunks[i]) /\ CellCount(chunks[i]) \in Nat \ {0}
  BY CellsAre DEF Counts
<1> HIDE DEF n
<1>3. \A i \in 0 .. j : t[i] \in Nat
  BY <1>1
<1>4. 0 \in S
  BY <1>1
<1>5. ASSUME NEW k \in 1 .. j, k - 1 \in S
      PROVE  k \in S
  <2>1. t[k] > t[k - 1] /\ t[k - 1] \in Nat /\ t[k] \in Nat
    BY <1>1, <1>2
  <2>2. t[k - 1] > k - 1 /\ \A i \in 0 .. k - 1 : t[i] <= t[k - 1]
    BY <1>5
  <2>3. ASSUME NEW i \in 0 .. k
        PROVE  t[i] <= t[k]
    <3>1. i = k \/ i \in 0 .. k - 1
      OBVIOUS
    <3> QED
      BY <1>3, <2>1, <2>2, <3>1
  <2> QED
    BY <1>1, <2>1, <2>2, <2>3
<1>6. S \in SUBSET (0 .. j)
  OBVIOUS
<1> HIDE DEF S
<1>7. j \in S
  <2>1. \A k \in 0 .. j : k \in S
    BY <1>1, <1>4, <1>5, <1>6, EveryPlace
  <2> QED
    BY <1>1, <2>1
<1> QED
  BY <1>1, <1>7 DEF S

\* A stream that is a file of chunks, or what a cut left of it, with t counting the cells;
\* data is the place of its first data chunk, which holds pcm, or behind the last chunk.
IsFile(chunks, pcm, stream, t, data) ==
  /\ chunks \in Seq(Chunks) /\ Counts(t, chunks) /\ \A i \in 1 .. Len(chunks) : Written(chunks[i])
  /\ stream \in Seq(AnyCell) /\ Len(stream) <= t[Len(chunks)]
  /\ \A i \in 1 .. Len(chunks) : \A k \in 1 .. Len(Cells(chunks[i])) :
       t[i - 1] + k <= Len(stream) => stream[t[i - 1] + k] = Cells(chunks[i])[k]
  /\ data \in 1 .. Len(chunks) + 1
  /\ data <= Len(chunks) => chunks[data].id = "data" /\ Holds(chunks[data].body, pcm)
  /\ \A j \in 1 .. data - 1 : chunks[j].id # "data"

\* The next chunk, where the stream is not at its end.
LEMMA NextChunkIs ==
  ASSUME NEW chunks, NEW pcm, NEW stream, NEW t, NEW data, IsFile(chunks, pcm, stream, t, data),
         NEW k \in 0 .. Len(chunks), t[k] < Len(stream)
  PROVE  /\ k < Len(chunks) /\ chunks[k + 1] \in Chunks /\ Written(chunks[k + 1])
         /\ t[k + 1] = t[k] + CellCount(chunks[k + 1]) /\ t[k] \in Nat
         /\ stream[t[k] + 1] = Cell(chunks[k + 1].id, chunks[k + 1].size)
         /\ \A m \in 1 .. Len(chunks[k + 1].body) :
              t[k] + 1 + m <= Len(stream) => stream[t[k] + 1 + m] = chunks[k + 1].body[m]
<1> DEFINE n == Len(chunks)
           c == chunks[k + 1]
           len == Len(stream)
<1>1. n \in Nat /\ len \in Nat /\ t \in [0 .. n -> Nat] /\ len <= t[n]
  BY DEF IsFile, Counts
<1>2. k < n /\ k + 1 \in 1 .. n /\ (k + 1) - 1 = k /\ t[k] \in Nat
  BY <1>1
<1>3. c \in Chunks /\ Written(c)
  BY <1>2 DEF IsFile
<1>4. t[k + 1] = t[k] + CellCount(c)
  BY <1>2 DEF IsFile, Counts
<1>5. \A m \in 1 .. Len(Cells(c)) : t[k] + m <= len => stream[t[k] + m] = Cells(c)[m]
  BY <1>2 DEF IsFile
<1> HIDE DEF c, len
<1>6. /\ Len(Cells(c)) = CellCount(c) /\ CellCount(c) \in Nat \ {0} /\ Len(c.body) \in Nat
      /\ Len(c.body) < CellCount(c) /\ Cells(c)[1] = Cell(c.id, c.size)
      /\ \A m \in 1 .. Len(c.body) : Cells(c)[m + 1] = c.body[m]
  BY <1>3, CellsAre
<1>7. stream[t[k] + 1] = Cell(c.id, c.size)
  <2>1. 1 \in 1 .. Len(Cells(c)) /\ t[k] + 1 <= len
    BY <1>1, <1>2, <1>6 DEF len
  <2> QED
    BY <1>5, <1>6, <2>1
<1>8. ASSUME NEW m \in 1 .. Len(c.body), t[k] + 1 + m <= len
      PROVE  stream[t[k] + 1 + m] = c.body[m]
  <2> DEFINE a == t[k]
  <2>1. m + 1 \in 1 .. Len(Cells(c)) /\ a + (m + 1) = a + 1 + m
    <3>1. m \in Nat /\ m >= 1 /\ m <= Len(c.body) /\ a \in Nat
      BY <1>2, <1>6
    <3> HIDE DEF a
    <3> QED
      BY <1>6, <3>1
  <2>2. stream[t[k] + (m + 1)] = Cells(c)[m + 1]
    BY <1>5, <1>8, <2>1
  <2> QED
    BY <1>6, <2>1, <2>2
<1> QED
  BY <1>2, <1>3, <1>4, <1>7, <1>8 DEF c, len

OpenEnded(chunk) == chunk.size \in {0, MaxSize}

Raw(stream, at, size) ==
  SubSeq(stream, at, IF size \in {0, MaxSize} THEN Len(stream) ELSE at + size - 1)

\* What is read of a data chunk.
LEMMA DataIsRead ==
  ASSUME NEW chunk \in Chunks, Written(chunk), chunk.id = "data", NEW pcm, Holds(chunk.body, pcm),
         NEW stream \in Seq(AnyCell), NEW a \in Nat \ {0}, a <= Len(stream),
         \A m \in 1 .. Len(chunk.body) : a + m <= Len(stream) => stream[a + m] = chunk.body[m]
  PROVE  LET v == ReadData(stream, a + 1, chunk.size)
             end == a + Len(chunk.body)
         IN \/ v = Refused /\ Len(stream) < end
            \/ /\ v.kind = "ok" /\ (Len(stream) >= end \/ OpenEnded(chunk))
               /\ Len(stream) >= end /\ (OpenEnded(chunk) => Len(stream) = end) => v = Samples(pcm)
<1> DEFINE len == Len(stream)
           size == chunk.size
           body == chunk.body
           n == Len(body)
           v == ReadData(stream, a + 1, size)
           streaming == size \in {0, MaxSize}
           raw == Raw(stream, a + 1, size)
<1>1. body \in Seq(AnyCell) /\ n \in Nat /\ len \in Nat /\ size \in Nat
  BY DEF Chunks
<1>2. ~ streaming => size = n
  BY DEF Written
<1>3. v = IF ~ streaming /\ len - (a + 1) + 1 < size THEN Refused ELSE Samples(DecodePCM16(raw))
  BY DEF ReadData, Raw
<1>4. OpenEnded(chunk) <=> streaming
  BY DEF OpenEnded
<1> HIDE DEF streaming, raw, v
<1>5. CASE ~ streaming /\ len < a + n
  <2>1. v = Refused
    BY <1>1, <1>2, <1>3, <1>5
  <2> QED
    BY <1>5, <2>1 DEF v
<1>6. CASE streaming \/ len >= a + n
  <2>1. v = Samples(DecodePCM16(raw)) /\ (len >= a + n \/ OpenEnded(chunk))
    BY <1>1, <1>2, <1>3, <1>4, <1>6
  <2>2. ASSUME len >= a + n, streaming => len = a + n
        PROVE  DecodePCM16(raw) = pcm
    <3>1. raw = SubSeq(stream, a + 1, a + n)
      <4>1. CASE streaming
        BY <1>1, <2>2, <4>1 DEF raw, Raw, streaming
      <4>2. CASE ~ streaming
        <5>1. a + 1 + size - 1 = a + n
          BY <1>1, <1>2, <4>2
        <5> QED
          BY <4>2, <5>1 DEF raw, Raw, streaming
      <4> QED
        BY <4>1, <4>2
    <3>2. Len(raw) = n /\ \A m \in 1 .. n : raw[m] = stream[a + m]
      <4>1. SubSeq(stream, a + 1, a + n) = [m \in 1 .. n |-> stream[a + m]]
        BY <1>1, <2>2
      <4> DEFINE s == [m \in 1 .. n |-> stream[a + m]]
      <4>2. Len(s) = n
        BY <1>1
      <4> QED
        BY <3>1, <4>1, <4>2
    <3>3. \A m \in 1 .. n : raw[m] = body[m]
      BY <1>1, <2>2, <3>2
    <3>4. pcm \in Seq(AnySample) /\ Len(pcm) = n \div 2
          /\ \A i \in 1 .. Len(pcm) : body[2 * i - 1] = pcm[i][1] /\ body[2 * i] = pcm[i][2]
      BY DEF Holds
    <3>5. ASSUME NEW i \in 1 .. n \div 2
          PROVE  <<raw[2 * i - 1], raw[2 * i]>> = pcm[i]
      <4>1. 2 * i - 1 \in 1 .. n /\ 2 * i \in 1 .. n
        <5>1. \A x \in Nat : \A j \in 1 .. x \div 2 : 2 * j - 1 \in 1 .. x /\ 2 * j \in 1 .. x
          OBVIOUS
        <5> HIDE DEF n
        <5> QED
          BY <1>1, <5>1
      <4>2. i \in 1 .. Len(pcm) /\ pcm[i] \in AnySample
        <5>1. i \in 1 .. Len(pcm)
          BY <3>4
        <5>2. pcm \in Seq(AnySample)
          BY <3>4
        <5>3. pcm[i] \in AnySample
          BY <5>1, <5>2, ElementOfSeq
        <5> QED
          BY <5>1, <5>3
      <4>3. pcm[i] = <<pcm[i][1], pcm[i][2]>>
        BY <4>2 DEF AnySample
      <4> QED
        BY <3>3, <3>4, <4>1, <4>2, <4>3
    <3>6. DecodePCM16(raw) = [i \in 1 .. n \div 2 |-> pcm[i]]
      BY <3>2, <3>5 DEF DecodePCM16
    <3>7. pcm = [i \in 1 .. Len(pcm) |-> pcm[i]]
      BY <3>4
    <3> QED
      BY <3>4, <3>6, <3>7
  <2>3. v.kind = "ok"
    BY <2>1 DEF Samples
  <2> QED
    BY <1>4, <2>1, <2>2, <2>3 DEF v
<1> QED
  BY <1>1, <1>5, <1>6

\* The formats among the first k chunks.
FormatsIn(chunks, k) == {i \in 1 .. k : chunks[i].id = "fmt"}

FormatOK(chunk) == chunk.size >= FmtSize /\ Head(chunk.body) = Tag(1)

Accepted(chunks, k) == \A i \in FormatsIn(chunks, k) : FormatOK(chunks[i])
Endless(chunks, k)  == \E i \in FormatsIn(chunks, k) : chunks[i].size = MaxSize

\* One chunk more.
LEMMA FormatsGrow ==
  ASSUME NEW chunks, NEW k \in Nat, NEW d \in Nat, k < d
  PROVE  /\ chunks[k + 1].id # "fmt" => FormatsIn(chunks, k + 1) = FormatsIn(chunks, k)
         /\ chunks[k + 1].id = "fmt" =>
              /\ FormatsIn(chunks, k + 1) # {}
              /\ ~ FormatOK(chunks[k + 1]) => ~ Accepted(chunks, d)
              /\ chunks[k + 1].size = MaxSize => Endless(chunks, d)
              /\ FormatOK(chunks[k + 1]) /\ Accepted(chunks, k) => Accepted(chunks, k + 1)
              /\ chunks[k + 1].size # MaxSize /\ ~ Endless(chunks, k) => ~ Endless(chunks, k + 1)
<1>1. FormatsIn(chunks, k + 1) = FormatsIn(chunks, k) \cup (IF chunks[k + 1].id = "fmt" THEN {k + 1} ELSE {})
  <2>1. \A i : i \in 1 .. k + 1 <=> i \in 1 .. k \/ i = k + 1
    OBVIOUS
  <2> QED
    BY <2>1 DEF FormatsIn
<1>2. chunks[k + 1].id = "fmt" => k + 1 \in FormatsIn(chunks, d)
  <2>1. k + 1 \in 1 .. d
    OBVIOUS
  <2> QED
    BY <2>1 DEF FormatsIn
<1> QED
  BY <1>1, <1>2 DEF Accepted, Endless

\* Where a file's first data chunk ends.
EndOf(chunks, t, data) == t[data - 1] + 1 + Len(chunks[data].body)

\* It is behind all chunks before.
LEMMA EndBeyond ==
  ASSUME NEW chunks, NEW pcm, NEW stream, NEW t, NEW data, IsFile(chunks, pcm, stream, t, data),
         data <= Len(chunks), NEW j \in 0 .. data - 1
  PROVE  t[j] \in Nat /\ EndOf(chunks, t, data) \in Nat /\ t[j] < EndOf(chunks, t, data)
<1> DEFINE n == Len(chunks)
           d == data - 1
<1>1. n \in Nat /\ data \in 1 .. n /\ chunks \in Seq(Chunks) /\ Counts(t, chunks)
  BY DEF IsFile
<1>2. d \in 0 .. n /\ j \in 0 .. d /\ j \in 0 .. n
  BY <1>1
<1> HIDE DEF d
<1>3. t[d] \in Nat /\ t[j] <= t[d] /\ t[j] \in Nat
  BY <1>1, <1>2, CountsRise
<1>4. chunks[data] \in Chunks
  BY <1>1
<1>5. Len(chunks[data].body) \in Nat
  BY <1>4 DEF Chunks
<1>6. EndOf(chunks, t, data) = t[d] + 1 + Len(chunks[data].body)
  BY DEF EndOf, d
<1> QED
  BY <1>3, <1>5, <1>6

\* The results there are, and what each of them says of the file.
Judged(v, chunks, pcm, stream, t, data) ==
  \/ v = Crashed /\ Endless(chunks, data - 1)
  \/ /\ v = Refused
     /\ \/ data > Len(chunks) \/ FormatsIn(chunks, data - 1) = {} \/ ~ Accepted(chunks, data - 1)
        \/ Len(stream) < EndOf(chunks, t, data)
  \/ /\ v.kind = "ok" /\ data <= Len(chunks)
     /\ FormatsIn(chunks, data - 1) # {} /\ Accepted(chunks, data - 1)
     /\ Len(stream) >= EndOf(chunks, t, data) \/ OpenEnded(chunks[data])
     /\ /\ Len(stream) >= EndOf(chunks, t, data)
        /\ OpenEnded(chunks[data]) => Len(stream) = EndOf(chunks, t, data)
        => v = Samples(pcm)

\* The reader between two chunks.
Going(r, k, chunks, stream, t, data) ==
  /\ k \in 0 .. data - 1 /\ t[k] <= Len(stream)
  /\ r.at = t[k] + 1 /\ r.haveFmt \in BOOLEAN /\ r.verdict = Reading
  /\ r.haveFmt <=> FormatsIn(chunks, k) # {}
  /\ Accepted(chunks, k) /\ ~ Endless(chunks, k)

\* What a round of the loop makes of the reader, case by case.
Rounds(b, stream, at, haveFmt, kind, value) ==
  LET next == at + 1 + Padded(value)
      cut == next > Len(stream) + 1
  IN /\ at > Len(stream) => b.verdict = Refused
     /\ ~ (at > Len(stream)) =>
          /\ kind = "data" =>
               /\ haveFmt => b.verdict = ReadData(stream, at + 1, value)
               /\ ~ haveFmt => b.verdict = Refused
          /\ kind = "fmt" =>
               /\ value < FmtSize \/ cut => b.verdict = Refused
               /\ ~ (value < FmtSize) /\ ~ cut =>
                    /\ Padded(value) < FmtSize => b.verdict = Crashed
                    /\ ~ (Padded(value) < FmtSize) =>
                         /\ stream[at + 1] # Tag(1) => b.verdict = Refused
                         /\ stream[at + 1] = Tag(1) => b = Reader(next, TRUE, Reading)
          /\ kind # "data" /\ kind # "fmt" =>
               /\ cut => b.verdict = Refused
               /\ ~ cut => b = Reader(next, haveFmt, Reading)

\* A round of the loop is one of these cases.
LEMMA RoundIs ==
  ASSUME NEW stream, NEW r, r.verdict = Reading, NEW at, r.at = at, NEW kind, NEW value,
         ~ (at > Len(stream)) => stream[at] = Cell(kind, value)
  PROVE  Rounds(ReadChunk(stream, r), stream, at, r.haveFmt, kind, value)
<1> DEFINE b == ReadChunk(stream, r)
           next == at + 1 + Padded(value)
           cut == next > Len(stream) + 1
           ends(verdict) == Reader(at, r.haveFmt, verdict)
<1>1. \A v : ends(v).verdict = v
  BY DEF Reader
<1>2. CASE at > Len(stream)
  <2>1. b = ends(Refused)
    BY <1>2 DEF ReadChunk
  <2> QED
    BY <1>1, <1>2, <2>1 DEF Rounds
<1>3. CASE ~ (at > Len(stream))
  <2>1. stream[at].kind = kind /\ stream[at].value = value
    BY <1>3 DEF Cell
  <2>2. b = CASE kind = "fmt" ->
                 IF value < FmtSize \/ cut THEN ends(Refused)
                 ELSE IF Padded(value) < FmtSize THEN ends(Crashed)
                 ELSE IF stream[at + 1] # Tag(1) THEN ends(Refused) ELSE Reader(next, TRUE, Reading)
            [] kind = "data" -> ends(IF r.haveFmt THEN ReadData(stream, at + 1, value) ELSE Refused)
            [] OTHER -> IF cut THEN ends(Refused) ELSE Reader(next, r.haveFmt, Reading)
    BY <1>3, <2>1 DEF ReadChunk
  <2> HIDE DEF b, next, cut, ends
  <2>3. CASE kind = "fmt"
    BY <1>1, <1>3, <2>2, <2>3 DEF b, next, cut, Rounds
  <2>4. CASE kind = "data"
    BY <1>1, <1>3, <2>2, <2>4 DEF b, next, cut, Rounds
  <2>5. CASE kind # "fmt" /\ kind # "data"
    BY <1>1, <1>3, <2>2, <2>5 DEF b, next, cut, Rounds
  <2> QED
    BY <2>3, <2>4, <2>5
<1> QED
  BY <1>2, <1>3

\* Another chunk before the data: the reader goes on behind it, or stops for a reason.
LEMMA PassesChunk ==
  ASSUME NEW chunks, NEW pcm, NEW stream, NEW t, NEW data, IsFile(chunks, pcm, stream, t, data),
         NEW r, NEW k, Going(r, k, chunks, stream, t, data), k < data - 1, t[k] < Len(stream)
  PROVE  \/ Going(ReadChunk(stream, r), k + 1, chunks, stream, t, data)
         \/ Judged(ReadChunk(stream, r).verdict, chunks, pcm, stream, t, data)
<1> DEFINE n == Len(chunks)
           len == Len(stream)
           c == chunks[k + 1]
           a == t[k] + 1
           b == ReadChunk(stream, r)
           size == Len(c.body)
           d == data - 1
<1>1. /\ n \in Nat /\ len \in Nat /\ d \in Nat /\ d <= n /\ k \in Nat /\ k < d /\ k \in 0 .. n
      /\ chunks \in Seq(Chunks) /\ Counts(t, chunks)
  BY DEF IsFile, Going
<1>2. /\ c \in Chunks /\ Written(c) /\ t[k] \in Nat /\ t[k + 1] = t[k] + CellCount(c)
      /\ stream[a] = Cell(c.id, c.size)
      /\ \A m \in 1 .. size : a + m <= len => stream[a + m] = c.body[m]
  BY <1>1, NextChunkIs
<1>3. c.id # "data"
  <2>1. k + 1 \in 1 .. data - 1
    BY <1>1
  <2> QED
    BY <2>1 DEF IsFile
<1>4. t[k + 1] \in Nat /\ (data <= n => t[k + 1] < EndOf(chunks, t, data) /\ EndOf(chunks, t, data) \in Nat)
  <2>1. k + 1 \in 0 .. data - 1 /\ k + 1 \in 0 .. n
    BY <1>1
  <2>2. t[k + 1] \in Nat
    BY <1>1, <2>1 DEF Counts
  <2> QED
    BY <2>1, <2>2, EndBeyond
<1>5. CellCount(c) = 1 + size + Pad(size) /\ size \in Nat /\ c.size \in Nat /\ Pad(size) \in Nat
  <2>1. size \in Nat /\ c.size \in Nat
    BY <1>2 DEF Chunks
  <2>2. \A m \in Nat : Pad(m) \in Nat
    BY DEF Pad
  <2> QED
    BY <2>1, <2>2 DEF CellCount
<1>6. /\ r.verdict = Reading /\ r.at = a /\ r.haveFmt \in BOOLEAN
      /\ r.haveFmt <=> FormatsIn(chunks, k) # {}
      /\ Accepted(chunks, k) /\ ~ Endless(chunks, k)
  BY DEF Going
<1> DEFINE next == a + 1 + Padded(c.size)
           cut == next > len + 1
<1>7. len < t[k + 1] => len < EndOf(chunks, t, data) \/ data > n
  <2>1. data \in Int
    BY <1>1 DEF IsFile
  <2> QED
    BY <1>1, <1>4, <2>1
<1>8. a <= len /\ a \in Nat
  BY <1>1, <1>2
<1> HIDE DEF b
<1>9. /\ c.id = "fmt" =>
           /\ c.size < FmtSize \/ cut => b.verdict = Refused
           /\ ~ (c.size < FmtSize) /\ ~ cut =>
                /\ Padded(c.size) < FmtSize => b.verdict = Crashed
                /\ ~ (Padded(c.size) < FmtSize) =>
                     /\ stream[a + 1] # Tag(1) => b.verdict = Refused
                     /\ stream[a + 1] = Tag(1) => b = Reader(next, TRUE, Reading)
      /\ c.id # "fmt" =>
           /\ cut => b.verdict = Refused
           /\ ~ cut => b = Reader(next, r.haveFmt, Reading)
  <2> DEFINE kind == c.id
             value == c.size
  <2>1. ~ (a > len) /\ stream[a] = Cell(kind, value) /\ r.at = a /\ r.verdict = Reading /\ kind # "data"
    BY <1>1, <1>2, <1>3, <1>6, <1>8
  <2> HIDE DEF a, kind, value
  <2>2. Rounds(b, stream, a, r.haveFmt, kind, value)
    BY <2>1, RoundIs DEF b
  <2> QED
    BY <2>1, <2>2 DEF Rounds, kind, value
<1>10. \A at, h, v : Reader(at, h, v).at = at /\ Reader(at, h, v).haveFmt = h /\ Reader(at, h, v).verdict = v
  BY DEF Reader
<1> HIDE DEF a, next, cut, c, size
<1>11. ASSUME c.size = size, size < MaxSize
       PROVE  next = t[k + 1] + 1 /\ (cut => len < t[k + 1]) /\ (~ cut => t[k + 1] <= len)
  <2>1. Padded(c.size) = size + Pad(size)
    <3>1. Padded(size) = size + (size % 2)
      BY <1>5, <1>11, PaddedIsEven
    <3> QED
      BY <1>11, <3>1 DEF Pad
  <2>2. next = t[k + 1] + 1
    BY <1>2, <1>5, <2>1 DEF next, a
  <2>3. t[k + 1] \in Int
    BY <1>2, <1>5
  <2> QED
    BY <1>1, <2>2, <2>3 DEF cut
<1>12. /\ c.id # "fmt" => FormatsIn(chunks, k + 1) = FormatsIn(chunks, k)
       /\ c.id = "fmt" =>
            /\ FormatsIn(chunks, k + 1) # {}
            /\ ~ FormatOK(c) => ~ Accepted(chunks, d)
            /\ c.size = MaxSize => Endless(chunks, d)
            /\ FormatOK(c) /\ Accepted(chunks, k) => Accepted(chunks, k + 1)
            /\ c.size # MaxSize /\ ~ Endless(chunks, k) => ~ Endless(chunks, k + 1)
  BY <1>1, FormatsGrow DEF c
<1>13. k + 1 \in 0 .. data - 1
  BY <1>1
<1>14. CASE c.id = "fmt"
  <2>1. c.body # << >> /\ c.size \in {MaxSize, size} /\ size <= MaxSize
    BY <1>2, <1>14 DEF Written, size
  <2>2. c.size < FmtSize => ~ FormatOK(c)
    <3>1. FmtSize \in Nat
      BY PaddedIsEven
    <3> QED
      BY <1>5, <3>1 DEF FormatOK
  <2>3. CASE c.size = MaxSize
    <3>1. Endless(chunks, d) /\ ~ (c.size < FmtSize) /\ Padded(c.size) = 0 /\ 0 < FmtSize
      BY <1>12, <1>14, <2>3, PaddedIsEven
    <3>2. ~ cut
      BY <1>1, <1>8, <3>1 DEF next, cut
    <3>3. b.verdict = Crashed
      BY <1>9, <1>14, <3>1, <3>2
    <3> QED
      BY <3>1, <3>3 DEF Judged, b
  <2>4. CASE c.size # MaxSize
    <3>1. c.size = size /\ size < MaxSize
      BY <1>5, <2>1, <2>4, PaddedIsEven
    <3>2. next = t[k + 1] + 1 /\ (cut => len < t[k + 1]) /\ (~ cut => t[k + 1] <= len)
      BY <1>11, <3>1
    <3>3. CASE c.size < FmtSize
      BY <1>9, <1>12, <1>14, <2>2, <3>3 DEF Judged, b
    <3>4. CASE cut
      <4>1. b.verdict = Refused
        BY <1>9, <1>14, <3>4
      <4>2. len < EndOf(chunks, t, data) \/ data > n
        BY <1>7, <3>2, <3>4
      <4> QED
        BY <4>1, <4>2 DEF Judged, b
    <3>5. CASE ~ (c.size < FmtSize) /\ ~ cut
      <4>1. ~ (Padded(c.size) < FmtSize)
        <5>1. Padded(size) = size + Pad(size)
          BY <1>5, <3>1, PaddedIsEven DEF Pad
        <5> QED
          BY <1>5, <3>1, <3>5, <5>1, PaddedIsEven
      <4>2. stream[a + 1] = Head(c.body)
        <5>1. c.body \in Seq(AnyCell)
          BY <1>2 DEF Chunks
        <5>2. size # 0
          BY <2>1, <5>1 DEF size
        <5>3. 1 \in 1 .. size /\ Head(c.body) = c.body[1]
          BY <1>5, <5>2
        <5>4. a + 1 <= len
          BY <1>1, <1>2, <1>5, <3>2, <3>5, <5>2 DEF a
        <5> QED
          BY <1>2, <5>3, <5>4
      <4>3. CASE stream[a + 1] # Tag(1)
        <5>1. ~ FormatOK(c) /\ b.verdict = Refused
          BY <1>9, <1>14, <3>5, <4>1, <4>2, <4>3 DEF FormatOK
        <5> QED
          BY <1>12, <1>14, <5>1 DEF Judged, b
      <4>4. CASE stream[a + 1] = Tag(1)
        <5>1. FormatOK(c)
          <6>1. FmtSize \in Nat
            BY PaddedIsEven
          <6> QED
            BY <1>5, <3>5, <4>2, <4>4, <6>1 DEF FormatOK
        <5>2. b = Reader(next, TRUE, Reading)
          BY <1>9, <1>14, <3>5, <4>1, <4>4
        <5>3. b.at = t[k + 1] + 1 /\ b.haveFmt = TRUE /\ b.verdict = Reading /\ t[k + 1] <= len
          BY <3>2, <3>5, <5>2 DEF Reader
        <5>4. FormatsIn(chunks, k + 1) # {} /\ Accepted(chunks, k + 1) /\ ~ Endless(chunks, k + 1)
          BY <1>6, <1>12, <1>14, <2>4, <5>1
        <5> QED
          BY <1>13, <5>3, <5>4 DEF Going, b
      <4> QED
        BY <4>3, <4>4
    <3> QED
      BY <3>3, <3>4, <3>5
  <2> QED
    BY <2>3, <2>4
<1>15. CASE c.id # "fmt"
  <2>1. c.size = size /\ size < MaxSize
    BY <1>2, <1>3, <1>15 DEF Written, size
  <2>2. next = t[k + 1] + 1 /\ (cut => len < t[k + 1]) /\ (~ cut => t[k + 1] <= len)
    BY <1>11, <2>1
  <2>3. CASE cut
    <3>1. b.verdict = Refused
      BY <1>9, <1>15, <2>3
    <3>2. len < EndOf(chunks, t, data) \/ data > n
      BY <1>7, <2>2, <2>3
    <3> QED
      BY <3>1, <3>2 DEF Judged, b
  <2>4. CASE ~ cut
    <3>1. b = Reader(next, r.haveFmt, Reading)
      BY <1>9, <1>15, <2>4
    <3>2. b.at = t[k + 1] + 1 /\ b.haveFmt = r.haveFmt /\ b.verdict = Reading /\ t[k + 1] <= len
      BY <1>10, <2>2, <2>4, <3>1
    <3>3. FormatsIn(chunks, k + 1) = FormatsIn(chunks, k)
      BY <1>12, <1>15
    <3>4. Accepted(chunks, k + 1) /\ ~ Endless(chunks, k + 1)
      BY <1>6, <3>3 DEF Accepted, Endless
    <3> QED
      BY <1>6, <1>13, <3>2, <3>3, <3>4 DEF Going, b
  <2> QED
    BY <2>3, <2>4
<1> QED
  BY <1>14, <1>15

\* At the data chunk the reader stops, with its samples or without.
LEMMA TakesData ==
  ASSUME NEW chunks, NEW pcm, NEW stream, NEW t, NEW data, IsFile(chunks, pcm, stream, t, data),
         NEW r, NEW k, Going(r, k, chunks, stream, t, data), k = data - 1, t[k] < Len(stream)
  PROVE  Judged(ReadChunk(stream, r).verdict, chunks, pcm, stream, t, data)
<1> DEFINE n == Len(chunks)
           len == Len(stream)
           c == chunks[k + 1]
           a == t[k] + 1
           b == ReadChunk(stream, r)
<1>1. /\ n \in Nat /\ len \in Nat /\ k \in Nat /\ k + 1 = data /\ k \in 0 .. n /\ stream \in Seq(AnyCell)
      /\ chunks \in Seq(Chunks) /\ Counts(t, chunks)
  BY DEF IsFile, Going
<1>2. /\ k < n /\ c \in Chunks /\ Written(c) /\ t[k] \in Nat /\ stream[a] = Cell(c.id, c.size)
      /\ \A m \in 1 .. Len(c.body) : a + m <= len => stream[a + m] = c.body[m]
  BY <1>1, NextChunkIs
<1>3. data <= n /\ c = chunks[data] /\ c.id = "data" /\ Holds(c.body, pcm)
  BY <1>1, <1>2 DEF IsFile
<1>4. EndOf(chunks, t, data) = a + Len(c.body)
  BY <1>1, <1>3 DEF EndOf
<1>5. /\ r.verdict = Reading /\ r.at = a /\ r.haveFmt \in BOOLEAN
      /\ r.haveFmt <=> FormatsIn(chunks, data - 1) # {}
      /\ Accepted(chunks, data - 1) /\ ~ Endless(chunks, data - 1)
  BY DEF Going
<1>6. a \in Nat \ {0} /\ a <= len
  BY <1>1, <1>2
<1> HIDE DEF a, b, c
<1>7. /\ r.haveFmt => b.verdict = ReadData(stream, a + 1, c.size)
      /\ ~ r.haveFmt => b.verdict = Refused
  <2> DEFINE kind == c.id
             value == c.size
  <2>1. ~ (a > len) /\ stream[a] = Cell(kind, value) /\ r.at = a /\ r.verdict = Reading /\ kind = "data"
    BY <1>1, <1>2, <1>3, <1>5, <1>6
  <2> HIDE DEF kind, value
  <2>2. Rounds(b, stream, a, r.haveFmt, kind, value)
    BY <2>1, RoundIs DEF b
  <2> QED
    BY <2>1, <2>2 DEF Rounds, kind, value
<1>8. CASE ~ r.haveFmt
  BY <1>5, <1>7, <1>8 DEF Judged, b
<1>9. CASE r.haveFmt
  <2> DEFINE v == ReadData(stream, a + 1, c.size)
             end == a + Len(c.body)
  <2>1. \/ v = Refused /\ len < end
        \/ /\ v.kind = "ok" /\ (len >= end \/ OpenEnded(c))
           /\ len >= end /\ (OpenEnded(c) => len = end) => v = Samples(pcm)
    BY <1>1, <1>2, <1>3, <1>6, DataIsRead
  <2>2. b.verdict = v
    BY <1>7, <1>9
  <2> HIDE DEF v
  <2>3. end = EndOf(chunks, t, data)
    BY <1>4
  <2> HIDE DEF end
  <2>4. FormatsIn(chunks, data - 1) # {}
    BY <1>5, <1>9
  <2> QED
    BY <1>3, <1>5, <2>1, <2>2, <2>3, <2>4 DEF Judged, b
<1> QED
  BY <1>5, <1>8, <1>9

\* At the end of the stream it stops, too.
LEMMA StopsAtEnd ==
  ASSUME NEW chunks, NEW pcm, NEW stream, NEW t, NEW data, IsFile(chunks, pcm, stream, t, data),
         NEW r, NEW k, Going(r, k, chunks, stream, t, data), t[k] = Len(stream)
  PROVE  Judged(ReadChunk(stream, r).verdict, chunks, pcm, stream, t, data)
<1> DEFINE len == Len(stream)
           a == t[k] + 1
           b == ReadChunk(stream, r)
<1>1. len \in Nat /\ Len(chunks) \in Nat /\ data \in Int /\ k \in 0 .. data - 1
  BY DEF IsFile, Going
<1>2. r.verdict = Reading /\ r.at = a /\ a > len
  BY <1>1 DEF Going
<1>3. b.verdict = Refused
  <2> HIDE DEF a
  <2>1. Rounds(b, stream, a, r.haveFmt, "data", 0)
    BY <1>2, RoundIs
  <2> QED
    BY <1>2, <2>1 DEF Rounds
<1>4. data > Len(chunks) \/ len < EndOf(chunks, t, data)
  <2>1. ASSUME data <= Len(chunks)
        PROVE  len < EndOf(chunks, t, data)
    BY <1>1, <2>1, EndBeyond
  <2> QED
    BY <1>1, <2>1
<1> QED
  BY <1>3, <1>4 DEF Judged

\* One round.
LEMMA OneMoreRound ==
  ASSUME NEW chunks, NEW pcm, NEW stream, NEW t, NEW data, IsFile(chunks, pcm, stream, t, data),
         NEW r, NEW k, Going(r, k, chunks, stream, t, data)
  PROVE  \/ Going(ReadChunk(stream, r), k + 1, chunks, stream, t, data)
         \/ Judged(ReadChunk(stream, r).verdict, chunks, pcm, stream, t, data)
<1>1. data \in Nat /\ k \in 0 .. data - 1 /\ k \in 0 .. Len(chunks) /\ Len(stream) \in Nat /\ t[k] <= Len(stream)
  BY DEF IsFile, Going
<1>2. t[k] \in Nat
  BY <1>1 DEF IsFile, Counts
<1>3. CASE t[k] = Len(stream)
  BY <1>3, StopsAtEnd
<1>4. CASE t[k] < Len(stream) /\ k = data - 1
  BY <1>4, TakesData
<1>5. CASE t[k] < Len(stream) /\ k < data - 1
  BY <1>5, PassesChunk
<1> QED
  BY <1>1, <1>2, <1>3, <1>4, <1>5

Readers(stream) ==
  [at : Nat \ {0}, haveFmt : BOOLEAN,
   verdict : {Reading, Refused, Crashed} \cup {ReadData(stream, p[1], p[2]) : p \in Nat \X Nat}]

\* A round makes a reader of a reader.
LEMMA ReadersRead ==
  ASSUME NEW stream \in Seq(AnyCell), NEW r \in Readers(stream)
  PROVE  ReadChunk(stream, r) \in Readers(stream)
<1> DEFINE Verdicts == {Reading, Refused, Crashed} \cup {ReadData(stream, p[1], p[2]) : p \in Nat \X Nat}
<1>1. r.at \in Nat \ {0} /\ r.haveFmt \in BOOLEAN /\ r.verdict \in Verdicts
  BY DEF Readers
<1>2. ASSUME NEW at \in Nat \ {0}, NEW haveFmt \in BOOLEAN, NEW verdict \in Verdicts
      PROVE  Reader(at, haveFmt, verdict) \in Readers(stream)
  BY DEF Readers, Reader
<1>3. \A x \in Nat : \A y \in Nat : ReadData(stream, x, y) \in Verdicts
  <2>1. ASSUME NEW x \in Nat, NEW y \in Nat
        PROVE  ReadData(stream, x, y) \in Verdicts
    <3>1. <<x, y>> \in Nat \X Nat /\ ReadData(stream, x, y) = ReadData(stream, <<x, y>>[1], <<x, y>>[2])
      OBVIOUS
    <3> QED
      BY <3>1
  <2> QED
    BY <2>1
<1>4. Reading \in Verdicts /\ Refused \in Verdicts /\ Crashed \in Verdicts
  OBVIOUS
<1> HIDE DEF Verdicts
<1>5. \A x \in Nat : Padded(x) \in Nat
  <2>1. Pow2(SizeBits) \in Nat \ {0}
    BY WavAssumption, PowsRise
  <2>2. \A x \in Nat : (x + (x % 2)) \in Nat
    OBVIOUS
  <2>3. \A x \in Nat : \A w \in Nat \ {0} : (x % w) \in Nat
    OBVIOUS
  <2> QED
    BY <2>1, <2>2, <2>3 DEF Padded
<1>6. CASE r.verdict # Reading
  BY <1>6 DEF ReadChunk
<1>7. CASE r.verdict = Reading /\ r.at > Len(stream)
  <2>1. ReadChunk(stream, r) = Reader(r.at, r.haveFmt, Refused)
    BY <1>7 DEF ReadChunk
  <2> QED
    BY <1>1, <1>2, <1>4, <2>1
<1>8. CASE r.verdict = Reading /\ ~ (r.at > Len(stream))
  <2> DEFINE ch == stream[r.at]
             value == ch.value
             at == r.at
             next == at + 1 + Padded(value)
  <2>1. ch \in AnyCell /\ at \in Nat \ {0}
    BY <1>1, <1>8
  <2>2. value \in Nat
    BY <2>1 DEF AnyCell
  <2> HIDE DEF value, at
  <2>3. next \in Nat \ {0} /\ at + 1 \in Nat
    <3>1. Padded(value) \in Nat
      BY <1>5, <2>2
    <3> QED
      BY <2>1, <3>1
  <2> HIDE DEF next
  <2>4. /\ Reader(next, TRUE, Reading) \in Readers(stream) /\ Reader(next, r.haveFmt, Reading) \in Readers(stream)
        /\ \A v \in Verdicts : Reader(at, r.haveFmt, v) \in Readers(stream)
    BY <1>1, <1>2, <1>4, <2>1, <2>3
  <2>5. ReadData(stream, at + 1, value) \in Verdicts
    BY <1>3, <2>2, <2>3
  <2> QED
    BY <1>4, <1>8, <2>4, <2>5 DEF ReadChunk, next, value, at
<1> QED
  BY <1>6, <1>7, <1>8

IsReading(f, stream) ==
  f = [round \in 0 .. Len(stream) |->
         IF round = 0 THEN Reader(2, FALSE, Reading) ELSE ReadChunk(stream, f[round - 1])]

\* The loop's readers, round after round.
LEMMA ReadingExists ==
  ASSUME NEW stream \in Seq(AnyCell)
  PROVE  \E f : IsReading(f, stream)
<1> DEFINE n == Len(stream)
           V == Readers(stream)
           v == Reader(2, FALSE, Reading)
           g == [p \in (1 .. n) \X V |-> ReadChunk(stream, p[2])]
<1>1. n \in Nat
  OBVIOUS
<1>2. v \in V
  BY DEF Reader, Readers
<1>3. \A r \in V : ReadChunk(stream, r) \in V
  BY ReadersRead
<1> HIDE DEF V, v, n
<1>4. g \in [(1 .. n) \X V -> V] /\ \A i \in 1 .. n : \A r \in V : g[<<i, r>>] = ReadChunk(stream, r)
  BY <1>3
<1> HIDE DEF g
<1>5. PICK f \in [0 .. n -> V] : Folds(f, n, v, g)
  BY <1>1, <1>2, <1>4, FoldExists
<1>6. ASSUME NEW i \in 1 .. n
      PROVE  f[i] = ReadChunk(stream, f[i - 1])
  <2>1. i - 1 \in 0 .. n
    BY <1>1
  <2> QED
    BY <1>4, <1>5, <2>1 DEF Folds
<1>7. \A i \in 0 .. n : f[i] = IF i = 0 THEN v ELSE ReadChunk(stream, f[i - 1])
  BY <1>1, <1>5, <1>6 DEF Folds
<1> QED
  BY <1>5, <1>7 DEF IsReading, v, n

\* A stream's verdict is one that says the truth of the file.
LEMMA ReadIsJudged ==
  ASSUME NEW chunks, NEW pcm, NEW stream, NEW t, NEW data, IsFile(chunks, pcm, stream, t, data), stream # << >>
  PROVE  Judged(ReadChunks(stream), chunks, pcm, stream, t, data)
<1> DEFINE n == Len(stream)
           f == CHOOSE f : IsReading(f, stream)
           going(k) == Going(f[k], k, chunks, stream, t, data)
           judged(k) == Judged(f[k].verdict, chunks, pcm, stream, t, data)
           S == {k \in 0 .. n : going(k) \/ judged(k)}
<1>1. stream \in Seq(AnyCell) /\ n \in Nat \ {0} /\ data \in Nat \ {0} /\ data - 1 <= Len(chunks)
      /\ chunks \in Seq(Chunks) /\ Counts(t, chunks) /\ Len(chunks) \in Nat
  BY DEF IsFile
<1>2. ReadChunks(stream) = f[n].verdict
  BY DEF ReadChunks, IsReading
<1>3. IsReading(f, stream)
  BY <1>1, ReadingExists
<1> HIDE DEF f
<1>4. f[0] = Reader(2, FALSE, Reading) /\ \A i \in 1 .. n : f[i] = ReadChunk(stream, f[i - 1])
  <2> DEFINE v == Reader(2, FALSE, Reading)
  <2>1. \A i \in 0 .. n : f[i] = IF i = 0 THEN v ELSE ReadChunk(stream, f[i - 1])
    BY <1>3 DEF IsReading
  <2> HIDE DEF v
  <2>2. f[0] = v /\ \A i \in 1 .. n : f[i] = ReadChunk(stream, f[i - 1])
    BY <1>1, <2>1
  <2> QED
    BY <2>2 DEF v
<1>5. going(0)
  <2> DEFINE r == f[0]
  <2>1. r.at = 2 /\ ~ r.haveFmt /\ r.verdict = Reading /\ r.haveFmt \in BOOLEAN
    BY <1>4 DEF Reader
  <2> HIDE DEF r
  <2>2. t[0] = 1 /\ 0 \in 0 .. data - 1 /\ t[0] <= n
    BY <1>1 DEF Counts
  <2>3. FormatsIn(chunks, 0) = {}
    BY DEF FormatsIn
  <2>4. Accepted(chunks, 0) /\ ~ Endless(chunks, 0)
    BY <2>3 DEF Accepted, Endless
  <2>5. r.haveFmt <=> FormatsIn(chunks, 0) # {}
    BY <2>1, <2>3
  <2>6. r.at = t[0] + 1
    BY <2>1, <2>2
  <2>7. Going(r, 0, chunks, stream, t, data)
    BY <2>1, <2>2, <2>4, <2>5, <2>6 DEF Going
  <2> QED
    BY <2>7 DEF r
<1>6. ASSUME NEW k \in 1 .. n, k - 1 \in S
      PROVE  k \in S
  <2> DEFINE r == f[k - 1]
  <2>1. f[k] = ReadChunk(stream, r) /\ (k - 1) + 1 = k /\ k \in 0 .. n
    BY <1>1, <1>4
  <2>2. CASE going(k - 1)
    <3> DEFINE m == k - 1
    <3>1. Going(r, m, chunks, stream, t, data) /\ m + 1 = k
      BY <2>1, <2>2
    <3> HIDE DEF r, m
    <3>2. \/ Going(ReadChunk(stream, r), m + 1, chunks, stream, t, data)
          \/ Judged(ReadChunk(stream, r).verdict, chunks, pcm, stream, t, data)
      BY <3>1, OneMoreRound
    <3> QED
      BY <2>1, <3>1, <3>2
  <2>3. CASE judged(k - 1)
    <3>1. r.verdict # Reading
      BY <2>3 DEF Judged, Reading, Refused, Crashed
    <3>2. ReadChunk(stream, r) = r
      BY <3>1 DEF ReadChunk
    <3> QED
      BY <2>1, <2>3, <3>2
  <2> QED
    BY <1>6, <2>2, <2>3
<1>7. S \in SUBSET (0 .. n) /\ 0 \in S
  BY <1>1, <1>5
<1>8. n \in S
  <2> HIDE DEF S
  <2>1. \A k \in 0 .. n : k \in S
    BY <1>1, <1>6, <1>7, EveryPlace
  <2> QED
    BY <1>1, <2>1
<1>9. ~ going(n)
  <2> SUFFICES ASSUME going(n) PROVE FALSE
    OBVIOUS
  <2>1. n \in 0 .. Len(chunks) /\ t[n] <= n
    BY <1>1 DEF Going
  <2>2. t[n] \in Nat /\ t[n] > n
    BY <1>1, <2>1, CountsRise
  <2> QED
    BY <1>1, <2>1, <2>2
<1> QED
  BY <1>2, <1>8, <1>9

\* There is a first data chunk, or none.
LEMMA FirstData ==
  ASSUME NEW chunks \in Seq(Chunks)
  PROVE  \E i \in 1 .. Len(chunks) + 1 : /\ i <= Len(chunks) => chunks[i].id = "data"
                                         /\ \A j \in 1 .. i - 1 : chunks[j].id # "data"
<1> DEFINE n == Len(chunks)
           S == {i \in 1 .. n + 1 : i <= n => chunks[i].id = "data"}
<1>1. n \in Nat /\ S \subseteq Nat /\ n + 1 \in S
  OBVIOUS
<1> HIDE DEF n
<1>2. PICK i \in S : \A j \in S : ~ (<<j, i>> \in OpToRel(<, Nat))
  <2> HIDE DEF S
  <2> QED
    BY <1>1, NatLessThanWellFounded, WFMin
<1>3. i \in 1 .. n + 1 /\ (i <= n => chunks[i].id = "data")
  BY <1>2
<1>4. ASSUME NEW j \in 1 .. i - 1, chunks[j].id = "data"
      PROVE  FALSE
  <2>1. j \in 1 .. n + 1 /\ j < i /\ j \in Nat /\ i \in Nat
    BY <1>1, <1>3
  <2>2. j \in S
    BY <1>4, <2>1
  <2> QED
    BY <1>2, <2>1, <2>2 DEF OpToRel
<1> QED
  BY <1>3, <1>4 DEF n

\* Whatever chunks a file is made of and wherever it is cut: the reader's rounds stay in step with
\* the chunks, so that it returns the samples of the first data chunk exactly if a format was
\* accepted before and they are all there, and panics only at a format of the greatest size.
THEOREM ReadersReadWhatWasWritten == Spec => []ReadsWhatWasWritten
<1>1. RoutinesInv => ReadsWhatWasWritten
  <2> DEFINE chunks == call.chunks
             pcm == call.pcm
             stream == call.stream
             t == CellsThrough(chunks)
             first(i) == /\ i <= Len(chunks) => chunks[i].id = "data"
                         /\ \A j \in 1 .. i - 1 : chunks[j].id # "data"
             data == CHOOSE i \in 1 .. Len(chunks) + 1 : first(i)
             fmts == {i \in 1 .. data - 1 : chunks[i].id = "fmt"}
             end == t[data - 1] + 1 + Len(chunks[data].body)
             endless == \E i \in fmts : chunks[i].size = MaxSize
             formatOK == fmts # {} /\ \A i \in fmts : chunks[i].size >= FmtSize /\ Head(chunks[i].body) = Tag(1)
             streaming == chunks[data].size \in {0, MaxSize}
  <2> SUFFICES ASSUME RoutinesInv, Returned("wav")
               PROVE  /\ result[1].kind = "panic" => endless
                      /\ result[1].kind = "ok" =>
                           data <= Len(chunks) /\ formatOK /\ (Len(stream) >= end \/ streaming)
                      /\ /\ data <= Len(chunks) /\ formatOK /\ ~endless
                         /\ Len(stream) >= end /\ (streaming => Len(stream) = end)
                         => result[1] = Samples(pcm)
    BY DEF ReadsWhatWasWritten
  <2>1. call \in Calls /\ call.routine = "wav" /\ result = <<Result(call)>>
    BY DEF RoutinesInv, Returned
  <2>2. /\ chunks \in Seq([id : Ids, size : Nat, body : Seq(AnyCell)])
        /\ \A i \in 1 .. Len(chunks) :
             /\ Written(chunks[i])
             /\ chunks[i].id = "data" /\ (\A j \in 1 .. i - 1 : chunks[j].id # "data") => Holds(chunks[i].body, pcm)
        /\ Begins(stream, chunks)
    BY <2>1, CallsAssumption DEF ArgumentsOK
  <2>3. result[1] = Read(stream)
    BY <2>1 DEF Result
  <2> HIDE DEF chunks, pcm, stream
  <2>4. chunks \in Seq(Chunks)
    BY <2>2 DEF Chunks
  <2>5. data \in 1 .. Len(chunks) + 1 /\ first(data)
    BY <2>4, FirstData
  <2>6. Counts(t, chunks)
    BY <2>4, ThroughCounts
  <2> HIDE DEF data
  <2>7. /\ stream \in Seq(AnyCell) /\ Len(stream) <= t[Len(chunks)]
        /\ stream # << >> => Head(stream) = Riff
        /\ \A i \in 1 .. Len(chunks) : \A k \in 1 .. Len(Cells(chunks[i])) :
             t[i - 1] + k <= Len(stream) => stream[t[i - 1] + k] = Cells(chunks[i])[k]
    BY <2>2 DEF Begins
  <2> HIDE DEF t
  <2>8. IsFile(chunks, pcm, stream, t, data)
    <3>1. data <= Len(chunks) => chunks[data].id = "data" /\ Holds(chunks[data].body, pcm)
      <4>1. data <= Len(chunks) => data \in 1 .. Len(chunks)
        BY <2>4, <2>5
      <4> QED
        BY <2>2, <2>5, <4>1
    <3> QED
      BY <2>2, <2>4, <2>5, <2>6, <2>7, <3>1 DEF IsFile
  <2>9. /\ EndOf(chunks, t, data) = end
        /\ Endless(chunks, data - 1) = endless
        /\ FormatsIn(chunks, data - 1) # {} /\ Accepted(chunks, data - 1) <=> formatOK
        /\ data <= Len(chunks) => (OpenEnded(chunks[data]) <=> streaming)
    BY DEF EndOf, Endless, FormatsIn, Accepted, FormatOK, OpenEnded
  <2>10. Judged(Read(stream), chunks, pcm, stream, t, data)
    <3>1. CASE stream = << >>
      <4>1. Read(stream) = Refused
        BY <3>1 DEF Read
      <4>2. data <= Len(chunks) => Len(stream) < EndOf(chunks, t, data)
        <5>1. ASSUME data <= Len(chunks)
              PROVE  0 < EndOf(chunks, t, data)
          <6>1. 0 \in 0 .. data - 1
            BY <2>4, <2>5
          <6> QED
            BY <2>8, <5>1, <6>1, EndBeyond
        <5>2. Len(stream) = 0
          BY <3>1
        <5> QED
          BY <5>1, <5>2
      <4>3. data > Len(chunks) \/ data <= Len(chunks)
        BY <2>4, <2>5
      <4> QED
        BY <4>1, <4>2, <4>3 DEF Judged
    <3>2. CASE stream # << >>
      <4>1. Read(stream) = ReadChunks(stream)
        BY <2>7, <3>2 DEF Read
      <4> QED
        BY <2>8, <3>2, <4>1, ReadIsJudged
    <3> QED
      BY <3>1, <3>2
  <2>11. Refused.kind = "error" /\ Crashed.kind = "panic"
    BY DEF Refused, Crashed
  <2>12. Len(stream) \in Nat /\ Len(chunks) \in Nat /\ data \in Nat /\ (data <= Len(chunks) => end \in Nat)
    <3>1. ASSUME data <= Len(chunks)
          PROVE  EndOf(chunks, t, data) \in Nat
      <4>1. 0 \in 0 .. data - 1
        BY <2>4, <2>5
      <4> QED
        BY <2>8, <3>1, <4>1, EndBeyond
    <3> QED
      BY <2>4, <2>5, <2>7, <2>9, <3>1
  <2> HIDE DEF end, endless, formatOK, streaming
  <2> DEFINE v == Read(stream)
  <2>13. \/ v = Crashed /\ endless
         \/ v = Refused /\ (data > Len(chunks) \/ ~ formatOK \/ Len(stream) < end)
         \/ /\ v.kind = "ok" /\ data <= Len(chunks) /\ formatOK /\ (Len(stream) >= end \/ streaming)
            /\ Len(stream) >= end /\ (streaming => Len(stream) = end) => v = Samples(pcm)
    BY <2>9, <2>10 DEF Judged
  <2> QED
    BY <2>3, <2>11, <2>12, <2>13
<1> QED
  BY ReturnsResult, <1>1, PTL
=============================================================================
