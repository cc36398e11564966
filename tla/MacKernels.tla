----------------------------- MODULE MacKernels -----------------------------
(***************************************************************************)
(* The operators that multiply and accumulate, CONV_2D, DEPTHWISE_CONV_2D  *)
(* and FULLY_CONNECTED: the loader's rules (runtime/validate.go), the      *)
(* prepare steps and the loops (kernels/conv.go, fully_connected.go,       *)
(* quant_params.go).                                                       *)
(*                                                                         *)
(* What an output element is computed from is kept, not its value: the     *)
(* products' pairs of flat indexes into the input and the filter, the      *)
(* bias's index and the scales it is requantized by.                       *)
(***************************************************************************)
EXTENDS CopyKernels

Ready(p) == [kind |-> "ok", params |-> p]

\* A kernel's loops as the set of their writes, each the place written, what
\* is written, and the places it is read from.
Write(at, value) == [at |-> at, value |-> value]

Value(taps, bias, scales) == [taps |-> taps, bias |-> bias, scales |-> scales]

\* An output's elements: all that was ever written there.
Written(writes, in, filter, bias, out) ==
  IF \A w \in writes :
       /\ w.at \in 0 .. NumElements(out) - 1
       /\ w.value.bias \in 0 .. NumElements(bias) - 1
       /\ \A t \in w.value.taps : t[1] \in 0 .. NumElements(in) - 1 /\ t[2] \in 0 .. NumElements(filter) - 1
  THEN Wrote(<<[i \in 1 .. NumElements(out) |-> {w.value : w \in {v \in writes : v.at = i - 1}}]>>)
  ELSE Panic

-----------------------------------------------------------------------------
(* Scales: the requantization parameters of a channel are kept as the two *)
(* factors and the divisor they are computed from.                        *)

filterScale(filter, c) == IF PerChannel(filter) THEN filter.quant.scales[c + 1] ELSE filter.quant.scales[1]

perChannelMultipliers(in, filter, out, channels) ==
  [c \in 0 .. channels - 1 |-> <<in.quant.scales[1], filterScale(filter, c), out.quant.scales[1]>>]

\* |in * filter - bias| is at most 2 % of the output's scale.
BiasScaleOK(in, fs, bs, out) ==
  LET diff == in.quant.scales[1] * fs - bs
  IN 50 * (IF diff < 0 THEN -diff ELSE diff) <= out.quant.scales[1]

\* Mutant: a bias for fewer channels passes.
AnyBias(bias, channels) == Quantized(bias)

BiasOK(bias, channels) == Quantized(bias) /\ NumElements(bias) = channels

checkBias(bias, in, filter, out, channels) ==
  LET k(c) == IF PerChannel(bias) THEN c + 1 ELSE 1
      has  == {c \in 0 .. channels - 1 : k(c) <= Len(bias.quant.scales)}
      ok(c) == /\ bias.quant.zeroPoints[k(c)] = 0
               /\ BiasScaleOK(in, filterScale(filter, c), bias.quant.scales[k(c)], out)
  IN IF ~BiasOK(bias, channels) \/ \E c \in has : ~ok(c) THEN Error
     ELSE IF has # 0 .. channels - 1 THEN Panic       \* ZeroPoints[k]
     ELSE Ready(<< >>)

-----------------------------------------------------------------------------
(* The geometry of a convolution, along axis 1 (height) or 2 (width). *)

Spatial == {1, 2}

effectiveFilter(filter, dilation) == (filter - 1) * dilation + 1

\* The size before it is checked; the code fails when it is negative.
computeOutSize(padding, image, filter, stride, dilation) ==
  IF padding = "SAME" THEN (image + stride - 1) \div stride
  ELSE Quo(image + stride - effectiveFilter(filter, dilation), stride)

\* Mutant: all of the padding in front.
AllInFront(stride, dilation, in, filter, out) ==
  LET total == (out - 1) * stride + effectiveFilter(filter, dilation) - in
  IN IF total < 0 THEN 0 ELSE total

computePadding(stride, dilation, in, filter, out) ==
  LET total == (out - 1) * stride + effectiveFilter(filter, dilation) - in
  IN IF total < 0 THEN 0 ELSE total \div 2

OutSize(op, a) == computeOutSize(op.opt.padding, op.ins[1].shape[a + 1], op.ins[2].shape[a + 1],
                                 op.opt.stride[a], op.opt.dilation[a])

\* convGeometry's checks, with the image's size never negative.
GeometryOK(op, outDepth) ==
  /\ rank(op.ins[1]) = 4 /\ rank(op.ins[2]) = 4 /\ rank(op.outs[1]) = 4
  /\ \A a \in Spatial : op.ins[2].shape[a + 1] > 0 /\ op.opt.stride[a] > 0 /\ op.opt.dilation[a] > 0
  /\ \A a \in Spatial : OutSize(op, a) >= 0
  /\ op.outs[1].shape = <<op.ins[1].shape[1], OutSize(op, 1), OutSize(op, 2), outDepth>>

convGeometry(op, outDepth) ==
  [batches |-> op.ins[1].shape[1], inDepth |-> op.ins[1].shape[4], outDepth |-> outDepth,
   in      |-> [a \in Spatial |-> op.ins[1].shape[a + 1]],
   filter  |-> [a \in Spatial |-> op.ins[2].shape[a + 1]],
   out     |-> [a \in Spatial |-> OutSize(op, a)],
   pad     |-> [a \in Spatial |-> computePadding(op.opt.stride[a], op.opt.dilation[a],
                                    op.ins[1].shape[a + 1], op.ins[2].shape[a + 1], OutSize(op, a))],
   stride |-> op.opt.stride, dilation |-> op.opt.dilation,
   filterInDepth |-> 0, filtersPerGroup |-> 0, multiplier |-> 1, scales |-> << >>]

\* filter.Quant, per channel, is along the axis that holds the output channels.
FilterScalesOK(filter, axis, outDepth) ==
  PerChannel(filter) => filter.quant.dim = axis /\ Len(filter.quant.scales) = outDepth

finishConvParams(op, p) ==
  LET in == op.ins[1]   filter == op.ins[2]   out == op.outs[1]
      check == checkBias(op.ins[3], in, filter, out, p.outDepth)
  IN IF filter.quant.zeroPoints[1] # 0 THEN Error
     ELSE IF check.kind # "ok" THEN check
     ELSE Ready([p EXCEPT !.scales = perChannelMultipliers(in, filter, out, p.outDepth)])

-----------------------------------------------------------------------------
\* What both convolutions and FULLY_CONNECTED ask of their tensors.
MacTensorsOK(op) ==
  /\ Len(op.ins) = 3 /\ Len(op.outs) = 1
  /\ op.ins[1].dtype = "INT8" /\ op.ins[2].dtype = "INT8" /\ op.ins[3].dtype = "INT32"
  /\ op.outs[1].dtype = "INT8"
  /\ IsConst(op.ins[2]) /\ IsConst(op.ins[3])
  /\ op.opt.activation \in {"NONE", "RELU"}

ConvRule(op) ==
  /\ MacTensorsOK(op)
  /\ rank(op.ins[1]) = 4 /\ rank(op.ins[2]) = 4 /\ rank(op.outs[1]) = 4
  /\ \A a \in Spatial : op.opt.stride[a] >= 1 /\ op.opt.dilation[a] = 1
  /\ op.code = "DEPTHWISE_CONV_2D" => op.opt.multiplier = 1
  /\ PerChannel(op.ins[2])
  /\ Len(op.ins[3].quant.scales) = Len(op.ins[2].quant.scales)   \* Load recovers from a bias without

prepareConv(op) ==
  LET filter   == op.ins[2]
      outDepth == filter.shape[1]
      inDepth  == op.ins[1].shape[4]
      groups   == inDepth \div filter.shape[4]
      p == [convGeometry(op, outDepth) EXCEPT !.filterInDepth = filter.shape[4],
                                              !.filtersPerGroup = outDepth \div groups]
  IN IF ~GeometryOK(op, outDepth) \/ filter.shape[4] = 0 \/ inDepth % filter.shape[4] # 0 THEN Error
     ELSE IF groups = 0 THEN Panic                    \* outDepth % groups
     ELSE IF outDepth % groups # 0 \/ ~FilterScalesOK(filter, 0, outDepth) THEN Error
     ELSE finishConvParams(op, p)

prepareDepthwiseConv(op) ==
  LET outDepth == op.ins[2].shape[4] IN
  IF /\ GeometryOK(op, outDepth)
     /\ op.opt.multiplier >= 1 /\ outDepth = op.ins[1].shape[4] * op.opt.multiplier
     /\ FilterScalesOK(op.ins[2], 3, outDepth)
  THEN finishConvParams(op, [convGeometry(op, outDepth) EXCEPT !.multiplier = op.opt.multiplier])
  ELSE Error

\* The loops over the output: batch, y, x and output channel.
ConvOutputs(p) ==
  (0 .. p.batches - 1) \X (0 .. p.out[1] - 1) \X (0 .. p.out[2] - 1) \X (0 .. p.outDepth - 1)

OutputAt(p, o) == ((o[1] * p.out[1] + o[2]) * p.out[2] + o[3]) * p.outDepth + o[4]

\* inY or inX, for filterY or filterX f.
InputAt(p, o, a, f) == o[a + 1] * p.stride[a] - p.pad[a] + p.dilation[a] * f

\* The filter's places that are inside the image.
FilterInside(p, o) ==
  {f \in (0 .. p.filter[1] - 1) \X (0 .. p.filter[2] - 1) :
     \A a \in Spatial : InputAt(p, o, a, f[a]) \in 0 .. p.in[a] - 1}

PixelAt(p, o, f) ==
  ((o[1] * p.in[1] + InputAt(p, o, 1, f[1])) * p.in[2] + InputAt(p, o, 2, f[2])) * p.inDepth

\* Mutant: every filter reads the first group's channels.
FirstGroup(p, o, f) ==
  {<<PixelAt(p, o, f) + c, ((o[4] * p.filter[1] + f[1]) * p.filter[2] + f[2]) * p.filterInDepth + c>> :
     c \in 0 .. p.filterInDepth - 1}

\* The products of conv2D's inner loop.
ConvProducts(p, o, f) ==
  LET inBase     == PixelAt(p, o, f) + (o[4] \div p.filtersPerGroup) * p.filterInDepth
      filterBase == ((o[4] * p.filter[1] + f[1]) * p.filter[2] + f[2]) * p.filterInDepth
  IN {<<inBase + c, filterBase + c>> : c \in 0 .. p.filterInDepth - 1}

conv2D(op, p) ==
  Written({Write(OutputAt(p, o), Value(UNION {ConvProducts(p, o, f) : f \in FilterInside(p, o)}, o[4], p.scales[o[4]])) :
             o \in ConvOutputs(p)},
          op.ins[1], op.ins[2], op.ins[3], op.outs[1])

\* The loops over the input's channels and the multiplier make up o[4].
DepthwiseProduct(p, o, f) ==
  <<PixelAt(p, o, f) + o[4] \div p.multiplier, (f[1] * p.filter[2] + f[2]) * p.outDepth + o[4]>>

depthwiseConv2D(op, p) ==
  Written({Write(OutputAt(p, o), Value({DepthwiseProduct(p, o, f) : f \in FilterInside(p, o)}, o[4], p.scales[o[4]])) :
             o \in ConvOutputs(p)},
          op.ins[1], op.ins[2], op.ins[3], op.outs[1])

-----------------------------------------------------------------------------
FullyConnectedRule(op) ==
  MacTensorsOK(op) /\ ~PerChannel(op.ins[2]) /\ rank(op.ins[2]) = 2

prepareFullyConnected(op) ==
  LET in == op.ins[1]   filter == op.ins[2]   out == op.outs[1]
      outputDepth == out.shape[rank(out)]
      accumDepth  == filter.shape[rank(filter)]
      batches     == NumElements(out) \div outputDepth
      check       == checkBias(op.ins[3], in, filter, out, outputDepth)
  IN IF \/ rank(filter) < 2 \/ rank(out) < 1 \/ PerChannel(filter)
        \/ outputDepth = 0 \/ outputDepth > filter.shape[rank(filter) - 1]
        \/ NumElements(in) # batches * accumDepth
     THEN Error
     ELSE IF check.kind # "ok" THEN check
     ELSE Ready([batches |-> batches, outputDepth |-> outputDepth, accumDepth |-> accumDepth,
                 scales |-> <<in.quant.scales[1], filter.quant.scales[1], out.quant.scales[1]>>])

fullyConnected(op, p) ==
  Written({Write(o[2] + p.outputDepth * o[1],
                 Value({<<o[1] * p.accumDepth + d, o[2] * p.accumDepth + d>> : d \in 0 .. p.accumDepth - 1}, o[2], p.scales)) :
             o \in (0 .. p.batches - 1) \X (0 .. p.outputDepth - 1)},
          op.ins[1], op.ins[2], op.ins[3], op.outs[1])

=============================================================================
