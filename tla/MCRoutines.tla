----------------------------- MODULE MCRoutines -----------------------------
(***************************************************************************)
(* The calls for TLC: for each routine, all of its arguments on small      *)
(* words, or those around each of its boundaries.                          *)
(***************************************************************************)
EXTENDS Routines

Transforms == UNION {[routine : {"fft"}, size : {n}, at : 1 .. n] : n \in {4, 8, 16, 32}}

Rising(n, values) == {t \in [1 .. n -> values] : \A i \in 1 .. n - 1 : t[i] <= t[i + 1]}

Filterbanks ==
  [routine : {"filterbank"},
   config : [spectrum : {12}, first : 1 .. 4, tops : Rising(1, 1 .. 12) \cup Rising(2, 1 .. 12) \cup Rising(3, 1 .. 12)]
            \cup [spectrum : {17}, first : {1, 4}, tops : Rising(4, {1, 4, 5, 6, 11, 13, 16})]]

Roots == [routine : {"sqrt"}, num : 0 .. 2 ^ AccBits - 1]

Least == -(2 ^ (SampleBits - 1))
Loud  == {Least, Least + 1, -17, -16, -5, -1, 0, 1, 7, 16, -(Least + 1)}

Windows ==
  [routine : {"window"}, in : [1 .. 2 -> Loud], coefficients : [1 .. 2 -> {0, 3, 2 ^ WindowBits - 1, 2 ^ WindowBits}]]

Noises ==
  [routine : {"noise"}, signals : [1 .. 3 -> {0, 1, 3, 10, 31, 100}],
   nr : [bits : {0, 2, 3}, smoothing : {0, 1, 5, 2 ^ SmoothBits}, minRemaining : {0, 3, 2 ^ SmoothBits}]]

Falling == {y \in [1 .. 3 -> {0, 1, 50, 900, 4000, 20000, 26000, 32767}] : y[1] >= y[2] /\ y[2] >= y[3]}

Gains ==
  UNION {[routine : {"gain"}, interval : {i}, x : {2 ^ (i - 1) + (k * 2 ^ (i - 1)) \div 16 : k \in 0 .. 15}, y : Falling] :
           i \in {2, 5, 8}}
  \cup UNION {[routine : {"gain"}, interval : {i}, y : {y \in Falling : y[1] <= 50} \cup {<<400, 200, 100>>},
               x : {2 ^ (i - 1) + (k * 2 ^ (i - 1)) \div 16 + j : k \in 0 .. 15, j \in {0, 1, 7}}] :
                i \in {11, 12, 14}}

Fractions == {<<0, 1>>, <<1, 1>>, <<2, 1>>, <<3, 1>>, <<7, 2>>, <<1, 2>>, <<2, 3>>, <<3, 5>>, <<127, 128>>, <<255, 256>>, <<511, 512>>,
              <<1, 3>>, <<5, 17>>, <<1, 9>>, <<3, 100>>, <<1, 200>>, <<1, 256>>, <<1, 300>>}

ElementSpan == 2 ^ ElementBits - 1

Scalings  == {[routine |-> "scale", x |-> x, n |-> f[1], d |-> f[2]] : x \in Words, f \in Fractions}
Quantizes ==
  {[routine |-> "quantize", x |-> x, n |-> f[1], d |-> f[2], zin |-> i, zout |-> o] :
     x \in Elements, f \in Fractions, i \in {Min(Elements), -3, 0}, o \in {0, 5, -Min(Elements), MaxUnsigned}}
Logistics ==
  {[routine |-> "logistic", x |-> x, n |-> n, d |-> 2 ^ k] : x \in -ElementSpan .. ElementSpan, n \in 1 .. 9, k \in 1 .. 5}

-----------------------------------------------------------------------------
Chunk(id, body) == [id |-> id, size |-> Len(body), body |-> body]

Pcm == <<<<Byte(1), Byte(2)>>, <<Byte(3), Byte(4)>>>>

Others  == {Chunk("LIST", << >>), Chunk("LIST", <<Byte(9)>>), Chunk("LIST", <<Byte(9), Byte(9)>>)}
Formats == {Format(1, FmtSize), Format(1, FmtSize + 1), Format(6, FmtSize), Format(1, FmtSize - 1),
            [Format(1, FmtSize) EXCEPT !.size = MaxSize]}
Datas   == {Data(Pcm), [Data(Pcm) EXCEPT !.size = 0], [Data(Pcm) EXCEPT !.size = MaxSize],
            Chunk("data", FlattenSeq(Pcm) \o <<Byte(5)>>)}

Other == <<Chunk("LIST", <<Byte(9)>>)>>

Files == UNION {{p \o q : q \in {<< >>, Other} \cup {<<d>> \o s : d \in Datas, s \in {<< >>, Other, <<Data(Tail(Pcm))>>}}} :
                p \in {<< >>} \cup {<<x>> : x \in Others} \cup {<<x>> : x \in Formats}
                      \cup {<<x, y>> : x, y \in Others \cup Formats}}

Stream(chunks) == <<Riff>> \o FlattenSeq([i \in 1 .. Len(chunks) |-> Cells(chunks[i])])

Wavs ==
  UNION {{[routine |-> "wav", chunks |-> f, pcm |-> Pcm, stream |-> SubSeq(Stream(f), 1, n)] : n \in 0 .. Len(Stream(f))} :
           f \in Files}
  \cup {[routine |-> "wav", chunks |-> <<Format(1, FmtSize), Data(pcm)>>, pcm |-> pcm, stream |-> Write(pcm)] :
           pcm \in {<< >>, <<<<Byte(7), Byte(8)>>>>, Pcm}}

-----------------------------------------------------------------------------
Manifest(cutoff, window) ==
  [given |-> TRUE, type |-> "micro", version |-> 2, named |-> TRUE, cutoff |-> cutoff, window |-> window, step |-> FrameStep]

Model(stride, features) ==
  [given |-> TRUE, loads |-> TRUE, inputs |-> 1, outputs |-> 1, probes |-> TRUE,
   in |-> [dtype |-> "INT8", shape |-> <<1, stride, features>>], out |-> [dtype |-> "UINT8", elements |-> 1]]

Good == Model(3, NumChannels)

Options(cutoff, window, vadModel, vadConfig, vadCutoff, vadWindow) ==
  [cutoff |-> cutoff, window |-> window, vadModel |-> vadModel, vadConfig |-> vadConfig,
   vadCutoff |-> vadCutoff, vadWindow |-> vadWindow]

NoVad == Options(0, 0, Nothing, Nothing, 0, 0)

Construct(cfg, model, opts) == [routine |-> "detector", cfg |-> cfg, model |-> model, opts |-> opts]

Cutoffs == 0 .. Parts + 1

\* Every cutoff by every way, every pair of windows and options, and one thing wrong at a time.
Constructions ==
  {Construct(Manifest(c, 1), Good, [NoVad EXCEPT !.cutoff = o]) : c \in Cutoffs, o \in {-1} \cup Cutoffs}
  \cup {Construct(Manifest(5, w), Good, Options(o[1], o[2], v, Manifest(c, 2), o[3], o[4])) :
          w \in 0 .. 2, c \in {0, 3, 7}, v \in {Nothing, Model(1, NumChannels), Model(2, NumChannels + 1)},
          o \in {0, 4} \X {-1, 0, 3} \X {-1, 0, 6, Parts + 1} \X {-1, 0, 4}}
  \cup {Construct(c, Good, NoVad) :
          c \in {[Manifest(5, 1) EXCEPT !.type = "other"], [Manifest(5, 1) EXCEPT !.version = 1],
                 [Manifest(5, 1) EXCEPT !.named = FALSE], [Manifest(5, 1) EXCEPT !.step = FrameStep + 1]}}
  \cup {Construct(Manifest(5, 1), m, NoVad) :
          m \in {Model(0, NumChannels), Model(1, NumChannels + 1), [Good EXCEPT !.loads = FALSE], [Good EXCEPT !.probes = FALSE],
                 [Good EXCEPT !.outputs = 2], [Good EXCEPT !.in.dtype = "UINT8"], [Good EXCEPT !.in.shape = <<1, NumChannels>>]}}

MCCalls == Transforms \cup Filterbanks \cup Roots \cup Windows \cup Noises \cup Gains
           \cup Scalings \cup Quantizes \cup Logistics \cup Wavs \cup Constructions
=============================================================================
