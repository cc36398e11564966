----------------------------- MODULE MCOperators ----------------------------
(***************************************************************************)
(* The operators for TLC: for each kernel, every choice of small shapes,   *)
(* constant parameters and options, those that Load, the prepare step or   *)
(* the kernel refuses included.                                            *)
(***************************************************************************)
EXTENDS Operators

NoQuant == [scales |-> << >>, zeroPoints |-> << >>, dim |-> 0]
Unit    == [scales |-> <<1>>, zeroPoints |-> <<0>>, dim |-> 0]

Int8Of(shape)  == [dtype |-> "INT8", shape |-> shape, quant |-> Unit, const |-> << >>]
Vector(values) == [dtype |-> "INT32", shape |-> <<Len(values)>>, quant |-> NoQuant, const |-> values]
Weights(shape, quant) == [dtype |-> "INT8", shape |-> shape, quant |-> quant,
                          const |-> [i \in 1 .. product(shape, 0, Len(shape)) |-> 0]]
Bias(shape, quant)    == [Weights(shape, quant) EXCEPT !.dtype = "INT32"]

Op(code, ins, outputs, opt) == [code |-> code, ins |-> ins, outs |-> outputs, opt |-> opt]

Vectors(n, values) == [1 .. n -> values]
UpTo(n, values) == UNION {Vectors(k, values) : k \in 1 .. n}

-----------------------------------------------------------------------------
\* Two pieces in two dimensions, three in one and in three.
Pieces == Vectors(2, {<<1, 1>>, <<1, 2>>, <<2, 1>>, <<2, 2>>, <<2, 0>>})
          \cup Vectors(3, {<<1>>, <<2>>}) \cup {<< <<2, 1, 2>>, <<2, 2, 2>>, <<2, 1, 2>> >>}

Concatenations ==
  {Op("CONCATENATION", [k \in 1 .. Len(p) |-> Int8Of(p[k])], <<Int8Of(o)>>, [axis |-> a, activation |-> "NONE"]) :
     p \in Pieces, a \in -3 .. 2,
     o \in Vectors(2, 1 .. 3) \cup Vectors(1, 3 .. 6) \cup {<<2, 4, 2>>, <<2, 4>>}}

\* The shape with another size on the axis.
Cut(shape, axis, size) ==
  LET a == IF axis < 0 THEN axis + Len(shape) ELSE axis
  IN [i \in 1 .. Len(shape) |-> IF i = a + 1 THEN size ELSE shape[i]]

\* Outputs cut where the sizes say, with 1 or 2 for what is left over, or
\* of the right length and one dimension.
Splits ==
  {Op("SPLIT_V", <<Int8Of(s), Vector(z), Vector(<<a>>)>>,
      [k \in 1 .. Len(z) |-> LET c == Cut(s, a, IF z[k] < 0 THEN r ELSE z[k])
                             IN Int8Of(IF flat THEN <<product(c, 0, Len(c))>> ELSE c)], << >>) :
     s \in {<<3>>, <<2, 3>>, <<2, 2, 2>>}, a \in -4 .. 3, z \in UpTo(2, -2 .. 3) \cup Vectors(3, -1 .. 1), r \in 1 .. 2, flat \in BOOLEAN}

Slice1(begin, end, stride, bm, em, size, n) ==
  Op("STRIDED_SLICE", <<Int8Of(<<size>>), Vector(<<begin>>), Vector(<<end>>), Vector(<<stride>>)>>,
     <<Int8Of(<<n>>)>>, [beginMask |-> bm, endMask |-> em, otherMasks |-> 0])

Slice2(begin, end, stride, m, shape, o) ==
  Op("STRIDED_SLICE", <<Int8Of(shape), Vector(begin), Vector(end), Vector(stride)>>,
     <<Int8Of(o)>>, [beginMask |-> m, endMask |-> {}, otherMasks |-> 0])

Slices ==
  {Slice1(b, e, s, bm, em, 3, n) : b, e \in -4 .. 4, s \in -2 .. 2, bm, em \in {{}, {1}}, n \in 0 .. 3}
  \cup {Slice1(b, e, s, bm, {}, 0, n) : b, e \in -1 .. 1, s \in -1 .. 1, bm \in {{}, {1}}, n \in 0 .. 1}
  \cup {Slice2(<<b, d>>, <<3, e>>, <<1, s>>, m, <<2, 3>>, o) :
          b \in {0, 1}, d \in {-1, 0, 2}, e \in {-4, 0, 3}, s \in {-1, 1, 2}, m \in {{}, {1}, {1, 2}},
          o \in {<<2, 3>>, <<2, 2>>, <<1, 3>>, <<2, 1>>, <<3>>, <<2, 0>>}}

Reshapes ==
  {Op("RESHAPE", <<Int8Of(s), Vector(w)>>, <<Int8Of(o)>>, << >>) :
     s \in {<<6>>, <<2, 3>>, <<0>>}, w \in UpTo(3, {-2, -1, 0, 1, 2, 3}),
     o \in {<<6>>, <<2, 3>>, <<3, 2>>, <<1, 2, 3>>, <<0>>, <<0, 2>>}}

-----------------------------------------------------------------------------
Channels(scales, dim) == [scales |-> scales, zeroPoints |-> [i \in 1 .. Len(scales) |-> 0], dim |-> dim]

Scales(n) == [i \in 1 .. n |-> 1 + (i % 2)]

Spread(h, w) == [a \in Spatial |-> IF a = 1 THEN h ELSE w]

ConvOptions(padding, stride) ==
  [padding |-> padding, stride |-> stride, dilation |-> Spread(1, 1), activation |-> "RELU", multiplier |-> 1]

Conv(in, filter, n, out, padding, stride) ==
  Op("CONV_2D", <<Int8Of(in), Weights(filter, Channels(Scales(n), 0)), Bias(<<n>>, Channels(Scales(n), 0))>>,
     <<Int8Of(out)>>, ConvOptions(padding, stride))

\* The geometry of one axis with every size that the output may claim, and the
\* other axis as it is in the models of the wake word: one frame wide.
TallConvs ==
  {Conv(<<1, h, 1, 1>>, <<2, f, 1, 1>>, 2, <<1, o, 1, 2>>, p, Spread(s, 1)) :
     h \in 0 .. 6, f \in 0 .. 4, o \in 0 .. 6, p \in {"SAME", "VALID"}, s \in 0 .. 3}

\* Both axes, batches, and channels in one group, in two, or in none.
WideConvs ==
  {Conv(<<b, h, w, d[1]>>, <<d[3], 2, f, d[2]>>, d[3], <<b, o, v, d[3]>>, p, Spread(1, s)) :
     b \in {1, 2}, h \in {2, 3}, w \in {2, 4}, f \in {1, 3}, o \in 2 .. 3, v \in 1 .. 4, s \in {1, 2}, p \in {"SAME", "VALID"},
     d \in {<<2, 2, 2>>, <<2, 1, 2>>, <<2, 1, 4>>, <<3, 2, 2>>, <<0, 1, 2>>, <<4, 2, 3>>}}

Depthwise ==
  {Op("DEPTHWISE_CONV_2D",
      <<Int8Of(<<1, h, w, d>>), Weights(<<1, f, 2, c>>, Channels(Scales(c), a)), Bias(<<c>>, Channels(Scales(c), 0))>>,
      <<Int8Of(<<1, o, v, c>>)>>, [ConvOptions(p, Spread(s, 1)) EXCEPT !.multiplier = m]) :
     h \in {3, 4}, w \in {3}, d, c \in 2 .. 3, f \in {1, 2}, a \in {0, 3}, o \in 1 .. 4, v \in {2, 3},
     p \in {"SAME", "VALID"}, s, m \in {1, 2}}

\* Scales and zero points of the bias and the filter, against a coarse output.
BiasScales ==
  {[Conv(<<1, 1, 1, 1>>, <<2, 1, 1, 1>>, 2, <<1, 1, 1, 2>>, "VALID", Spread(1, 1))
      EXCEPT !.ins[3].quant = [scales |-> b, zeroPoints |-> z, dim |-> 0], !.ins[2].quant.zeroPoints[1] = y,
             !.outs[1].quant.scales = <<t>>] :
     b \in Vectors(2, 1 .. 4), z \in Vectors(2, {0, 1}), y \in {0, 1}, t \in {1, 50}}

FullyConnecteds ==
  {Op("FULLY_CONNECTED", <<Int8Of(in), Weights(<<r, 3>>, Channels(<<1>>, 0)), Bias(bs, q)>>, <<Int8Of(out)>>,
      [activation |-> "NONE"]) :
     in \in {<<3>>, <<1, 3>>, <<2, 3>>, <<6>>, <<2>>}, r \in 1 .. 4,
     bs \in {<<2>>, <<3>>, <<1, 4>>, <<2, 2>>}, q \in {Channels(<<1>>, 0), Channels(<<1, 1>>, 0), NoQuant},
     out \in {<<2>>, <<1, 2>>, <<2, 2>>, <<1, 4>>, <<2, 0>>, <<3>>}}

\* Inputs and outputs of each kind of quantization, and scales at the least one.
Pointwises ==
  {Op(c, <<[Int8Of(in) EXCEPT !.quant = q]>>,
      <<[Int8Of(out) EXCEPT !.dtype = t, !.quant = [Channels(s, 0) EXCEPT !.zeroPoints[1] = z]]>>, << >>) :
     c \in {"LOGISTIC", "QUANTIZE"}, t \in {"INT8", "UINT8"}, in, out \in {<<2>>, <<1, 2>>, <<3>>, <<0>>},
     q \in {Channels(<<1>>, 0), Channels(<<2>>, 0), Channels(<<2, 2>>, 0), NoQuant},
     s \in {<<SigmoidScale>>, <<1>>, <<SigmoidScale, SigmoidScale>>}, z \in {LeastZeroPoint, 0}}

MCOps == Concatenations \cup Splits \cup Slices \cup Reshapes \cup TallConvs \cup WideConvs
         \cup Depthwise \cup BiasScales \cup FullyConnecteds \cup Pointwises
=============================================================================
