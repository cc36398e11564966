------------------------------ MODULE Operators -----------------------------
(***************************************************************************)
(* One operator from the model file to its kernel: Load checks its tensors *)
(* and its rule, NewInterpreter runs its prepare step, and every Invoke    *)
(* runs its kernel with what the prepare step computed.                    *)
(*                                                                         *)
(* The loader alone stands between a file and the kernels, which index     *)
(* without a check: what Load and the prepare step let pass must be all    *)
(* that the loops rely on.  A panic in Load is an error of Load.           *)
(***************************************************************************)
EXTENDS PointwiseKernels

CONSTANT Ops   \* the operators that a file may hold

OptionsOf(code) ==
  CASE code = "CONCATENATION" -> [axis : Int, activation : STRING]
    [] code = "STRIDED_SLICE" -> [beginMask : SUBSET Nat, endMask : SUBSET Nat, otherMasks : Int]
    [] code \in {"CONV_2D", "DEPTHWISE_CONV_2D"} ->
         [padding : {"SAME", "VALID"}, stride : [Spatial -> Int], dilation : [Spatial -> Int],
          activation : STRING, multiplier : Int]
    [] code = "FULLY_CONNECTED" -> [activation : STRING]
    [] OTHER -> {<< >>}

OperatorsOf(code) ==
  [code : {code}, ins : Seq(TensorInfo), outs : Seq(TensorInfo), opt : OptionsOf(code)]

\* The codes of supportedOps whose kernels are modelled here; validate refuses any
\* code that is not of supportedOps before it looks at a tensor.
Codes == {"CONCATENATION", "SPLIT_V", "STRIDED_SLICE", "RESHAPE", "CONV_2D", "DEPTHWISE_CONV_2D",
          "FULLY_CONNECTED", "LOGISTIC", "QUANTIZE"}

ASSUME OpsAssumption == \A o \in Ops : o.code \in Codes /\ o \in OperatorsOf(o.code)

VARIABLES
  op,      \* the operator
  stage,   \* "file", "loaded", "ready" or "done"; "refused", "failed" or "panicked"
  params,  \* what the prepare step computed
  outs     \* the contents of the outputs

opVars == <<op, stage, params, outs>>

Tensors(o) == {o.ins[k] : k \in 1 .. Len(o.ins)} \cup {o.outs[k] : k \in 1 .. Len(o.outs)}

validateOperator(o) ==
  CASE o.code = "CONCATENATION"   -> ConcatenationRule(o)
    [] o.code = "SPLIT_V"         -> SplitVRule(o)
    [] o.code = "STRIDED_SLICE"   -> StridedSliceRule(o)
    [] o.code = "RESHAPE"         -> ReshapeRule(o)
    [] o.code = "FULLY_CONNECTED" -> FullyConnectedRule(o)
    [] o.code \in {"CONV_2D", "DEPTHWISE_CONV_2D"} -> ConvRule(o)
    [] o.code = "LOGISTIC"        -> LogisticRule(o)
    [] o.code = "QUANTIZE"        -> QuantizeRule(o)

\* supportedOps[op.Code].prepare
Prepare(o) ==
  CASE o.code = "CONV_2D"           -> prepareConv(o)
    [] o.code = "DEPTHWISE_CONV_2D" -> prepareDepthwiseConv(o)
    [] o.code = "FULLY_CONNECTED"   -> prepareFullyConnected(o)
    [] o.code = "LOGISTIC"          -> prepareLogistic(o)
    [] o.code = "QUANTIZE"          -> prepareQuantize(o)
    [] OTHER                        -> Ready(<< >>)

\* supportedOps[op.Code].kernel
Kernel(o, p) ==
  CASE o.code = "CONCATENATION"     -> concatenation(o)
    [] o.code = "SPLIT_V"           -> splitV(o)
    [] o.code = "STRIDED_SLICE"     -> stridedSlice(o)
    [] o.code = "RESHAPE"           -> reshape(o)
    [] o.code = "CONV_2D"           -> conv2D(o, p)
    [] o.code = "DEPTHWISE_CONV_2D" -> depthwiseConv2D(o, p)
    [] o.code = "FULLY_CONNECTED"   -> fullyConnected(o, p)
    [] o.code \in {"LOGISTIC", "QUANTIZE"} -> pointwise(o)

Init ==
  /\ op \in Ops
  /\ stage = "file"
  /\ params = << >>
  /\ outs = << >>

\* A panicking rule is a refusal.
Load ==
  /\ stage = "file"
  /\ stage' = IF /\ \A t \in Tensors(op) : TensorOK(t) /\ QuantizationOK(t)
                 /\ validateOperator(op)
              THEN "loaded" ELSE "refused"
  /\ UNCHANGED <<op, params, outs>>

NewInterpreter ==
  /\ stage = "loaded"
  /\ LET r == Prepare(op) IN
       \/ r.kind = "ok"    /\ stage' = "ready"    /\ params' = r.params
       \/ r.kind = "error" /\ stage' = "failed"   /\ UNCHANGED params
       \/ r.kind = "panic" /\ stage' = "panicked" /\ UNCHANGED params
  /\ UNCHANGED <<op, outs>>

Invoke ==
  /\ stage \in {"ready", "done"}
  /\ LET r == Kernel(op, params) IN
       \/ r.kind = "ok"    /\ stage' = "done"     /\ outs' = r.outs
       \/ r.kind = "error" /\ stage' = "failed"   /\ UNCHANGED outs
       \/ r.kind = "panic" /\ stage' = "panicked" /\ UNCHANGED outs
  /\ UNCHANGED <<op, params>>

Next == Load \/ NewInterpreter \/ Invoke

Spec == Init /\ [][Next]_opVars

-----------------------------------------------------------------------------
(* What validate does not check and the kernels rely on: the outputs of a  *)
(* SPLIT_V have the input's rank, the input of a convolution has channels, *)
(* the bias of a FULLY_CONNECTED is a vector, and the input of a LOGISTIC  *)
(* has a scale of at least 2^-28.                                          *)
Regular(o) ==
  /\ o.code = "SPLIT_V" => \A k \in 1 .. Len(o.outs) : rank(o.outs[k]) = rank(o.ins[1])
  /\ o.code = "CONV_2D" => o.ins[1].shape[4] > 0
  /\ o.code = "FULLY_CONNECTED" => rank(o.ins[3]) = 1
  /\ o.code = "LOGISTIC" => ~TooFine(o.ins[1].quant.scales[1])

\* No operator that Load accepts makes NewInterpreter or Invoke panic: no index
\* of any kernel is outside its tensor, whatever the shapes, the constant
\* parameters and the options, as long as the operator is regular.
NeverOutOfRange == stage = "panicked" => ~Regular(op)

\* The places that a[begin:end:stride] names on an axis, as the language of
\* slices has it: from the first place at or after begin, as long as before end.
Selected(o, a) ==
  LET size   == o.ins[1].shape[a]
      stride == o.ins[4].const[a]
      place(i) == IF i < 0 THEN i + size ELSE i
      after(i) == a \in o.opt.beginMask \/
        (IF stride > 0 THEN i >= place(o.ins[2].const[a]) ELSE i <= place(o.ins[2].const[a]))
      before(i) == a \in o.opt.endMask \/
        (IF stride > 0 THEN i < place(o.ins[3].const[a]) ELSE i > place(o.ins[3].const[a]))
      from == {i \in 0 .. size - 1 : after(i)}
      first == CHOOSE i \in from : \A j \in from : (j - i) * stride >= 0
  IN {i \in from : before(i) /\ (i - first) % (IF stride > 0 THEN stride ELSE -stride) = 0}

\* The n-th of them, from 0.
Nth(places, stride, n) ==
  CHOOSE i \in places : Cardinality({j \in places : (i - j) * stride > 0}) = n

\* Where along its axis the k-th piece of a concatenation or a split starts.
PieceStart(pieces, axis, k) == SumOfFirst(SizesAlong(pieces, axis), k - 1)

PieceAxis(o) ==
  LET nd == rank(o.ins[1])
      axis == IF o.code = "SPLIT_V" THEN o.ins[3].const[1] ELSE o.opt.axis
  IN 1 + ((axis + nd) % nd)

\* The shape of output k: what is left of a SPLIT_V's input, whose output may
\* claim another with as many elements, and its own otherwise.
Extents(o, k) ==
  IF o.code = "SPLIT_V" THEN [o.ins[1].shape EXCEPT ![PieceAxis(o)] = o.outs[k].shape[PieceAxis(o)]]
  ELSE o.outs[k].shape

\* The operand and the coordinates that output k holds at coordinates c.
Source(o, k, c) ==
  LET shift(j, by) == [c EXCEPT ![PieceAxis(o)] = @ + by * PieceStart(IF by > 0 THEN o.outs ELSE o.ins, PieceAxis(o), j)]
  IN CASE o.code = "SPLIT_V" -> <<1, shift(k, 1)>>
       [] o.code = "STRIDED_SLICE" ->
            <<1, [a \in 1 .. Len(c) |-> Nth(Selected(o, a), o.ins[4].const[a], c[a])]>>
       [] o.code = "CONCATENATION" ->
            LET j == CHOOSE i \in 1 .. Len(o.ins) :
                       /\ PieceStart(o.ins, PieceAxis(o), i) <= c[PieceAxis(o)]
                       /\ c[PieceAxis(o)] < PieceStart(o.ins, PieceAxis(o), i + 1)
            IN <<j, shift(j, -1)>>

\* CONCATENATION, SPLIT_V and STRIDED_SLICE put at every coordinate of every
\* output the element of the input that the operation means, and a RESHAPE, a
\* LOGISTIC and a QUANTIZE keep the order of the elements: the kernels compute with offsets into flat
\* buffers, block by block or with an index that carries.
MovesWhatIsMeant ==
  stage = "done" =>
    /\ op.code \in {"CONCATENATION", "SPLIT_V", "STRIDED_SLICE"} =>
         \A k \in 1 .. Len(op.outs) :
           /\ Len(outs[k]) = NumElements(op.outs[k])
           /\ \A c \in Coordinates(Extents(op, k)) :
                LET from == Source(op, k, c)
                IN outs[k][FlatIndex(Extents(op, k), c) + 1] = <<from[1], FlatIndex(op.ins[from[1]].shape, from[2])>>
    /\ op.code \in {"RESHAPE", "LOGISTIC", "QUANTIZE"} => outs = <<Contents(op, 1)>>

\* A STRIDED_SLICE that Load accepts fails exactly when its output does not
\* have the shape of the slice, which only the kernel finds out.
SliceFailsOnlyOnShape ==
  op.code = "STRIDED_SLICE" /\ stage \in {"done", "failed"} =>
    (stage = "done" <=>
       /\ rank(op.outs[1]) = rank(op.ins[1])
       /\ \A a \in 1 .. rank(op.ins[1]) :
            op.ins[4].const[a] # 0 /\ op.outs[1].shape[a] = Cardinality(Selected(op, a)))

\* The products that the output at o sums, by coordinates: row y is under the
\* window of output row o when y + pad - o * stride is a row of the filter, and
\* a group of filters reads its own input channels.
Products(p, in, filter, o) ==
  LET under(a, y, f) == y + p.pad[a] - o[a + 1] * p.stride[a] = f
      groups == in.shape[4] \div filter.shape[4]
      group(c, n) == (c * groups) \div n
      channel(c) == IF op.code = "CONV_2D" THEN group(c[4], in.shape[4]) = group(o[4], p.outDepth)
                    ELSE c[4] = o[4]
      weight(c, f) == IF op.code = "CONV_2D" THEN <<o[4], f[1], f[2], c[4] % filter.shape[4]>>
                      ELSE <<0, f[1], f[2], o[4]>>
  IN {<<FlatIndex(in.shape, cf[1]), FlatIndex(filter.shape, weight(cf[1], cf[2]))>> :
        cf \in {cf \in Coordinates(in.shape) \X Coordinates(SubSeq(filter.shape, 2, 3)) :
                  /\ cf[1][1] = o[1] /\ channel(cf[1])
                  /\ \A a \in Spatial : under(a, cf[1][a + 1], cf[2][a])}}

ScalesOf(o, c) == <<o.ins[1].quant.scales[1], filterScale(o.ins[2], c), o.outs[1].quant.scales[1]>>

\* Every output of a convolution is written once per Invoke, from the filter of
\* its channel, its bias and its scale, and from each pixel under the window and
\* no other; a FULLY_CONNECTED is the product of the input's rows and the
\* filter's.  The kernels compute flat indexes, four loops deep.
MultipliesWhatIsMeant ==
  stage = "done" =>
    /\ op.code \in {"CONV_2D", "DEPTHWISE_CONV_2D"} =>
         \A o \in Coordinates(op.outs[1].shape) :
           outs[1][FlatIndex(op.outs[1].shape, o) + 1] =
             {Value(Products(params, op.ins[1], op.ins[2], o), o[4], ScalesOf(op, o[4]))}
    /\ op.code = "FULLY_CONNECTED" =>
         LET rows == [b |-> params.batches, d |-> params.accumDepth]
             cols == params.outputDepth
         IN \A b \in 0 .. rows.b - 1, c \in 0 .. cols - 1 :
              outs[1][FlatIndex(<<rows.b, cols>>, <<b, c>>) + 1] =
                {Value({<<FlatIndex(<<rows.b, rows.d>>, <<b, d>>), FlatIndex(op.ins[2].shape, <<c, d>>)>> :
                          d \in 0 .. rows.d - 1}, c, ScalesOf(op, c))}

\* What an accepted convolution covers, along each axis.  VALID: every window is
\* inside the image, and no further one would be.  SAME: one output for every
\* stride of the image, and the padding is shared between both ends, the odd
\* one behind.
WindowsFit ==
  params # << >> /\ op.code \in {"CONV_2D", "DEPTHWISE_CONV_2D"} =>
    \A a \in Spatial :
      LET last   == (params.out[a] - 1) * params.stride[a]
          behind == last + params.filter[a] - params.in[a] - params.pad[a]
      IN IF op.opt.padding = "VALID"
         THEN /\ params.out[a] > 0 => params.pad[a] = 0 /\ last + params.filter[a] <= params.in[a]
              /\ last + params.stride[a] + params.filter[a] > params.in[a]
         ELSE /\ last < params.in[a] /\ params.in[a] <= last + params.stride[a]
              /\ params.out[a] > 0 /\ behind > 0 => behind - params.pad[a] \in {0, 1}
              /\ params.out[a] > 0 /\ behind <= 0 => params.pad[a] = 0
=============================================================================
