-------------------------- MODULE PointwiseKernels --------------------------
(***************************************************************************)
(* LOGISTIC and QUANTIZE, which compute each element from the one at its   *)
(* place: the loader's rules (runtime/validate.go) and the prepare steps   *)
(* and loops (kernels/logistic.go, quantize.go).  What is computed is in   *)
(* FixedPoint; here an element is known by where it comes from.            *)
(*                                                                         *)
(* The unit of their scales is 2^-29, so that the input of a LOGISTIC can  *)
(* be just too fine.                                                       *)
(***************************************************************************)
EXTENDS MacKernels

LeastZeroPoint == -128
SigmoidScale   == 2 ^ 21    \* 1/256

LogisticRule(op) ==
  LET in == op.ins[1]   out == op.outs[1] IN
  /\ Len(op.ins) = 1 /\ Len(op.outs) = 1
  /\ in.dtype = "INT8" /\ out.dtype = "INT8"
  /\ ~PerChannel(out)
  /\ out.quant.zeroPoints[1] = LeastZeroPoint /\ out.quant.scales[1] = SigmoidScale
  /\ NumElements(in) = NumElements(out)

\* math.Frexp of the scale times 2^27 has a negative exponent, by which
\* calculateInputRadius shifts to the left.
TooFine(scale) == scale < 2

\* checkLogisticOutputQuantization asks again what LogisticRule did.
prepareLogistic(op) ==
  IF Len(op.outs[1].quant.scales) # 1 THEN Error
  ELSE IF TooFine(op.ins[1].quant.scales[1]) THEN Panic
  ELSE Ready(<< >>)

QuantizeRule(op) ==
  /\ Len(op.ins) = 1 /\ Len(op.outs) = 1
  /\ op.ins[1].dtype = "INT8" /\ op.outs[1].dtype = "UINT8"
  /\ NumElements(op.ins[1]) = NumElements(op.outs[1])

prepareQuantize(op) ==
  IF Len(op.ins[1].quant.scales) = 1 /\ Len(op.outs[1].quant.scales) = 1 THEN Ready(<< >>) ELSE Error

\* Both loops run over the input.
pointwise(op) ==
  IF NumElements(op.ins[1]) > NumElements(op.outs[1]) THEN Panic ELSE Wrote(<<Contents(op, 1)>>)
=============================================================================
