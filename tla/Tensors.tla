------------------------------- MODULE Tensors ------------------------------
(***************************************************************************)
(* What the loader and the kernels know of a tensor (runtime/model.go,     *)
(* runtime/dtype.go, kernels/kernels.go), and an operator with its         *)
(* tensors.  An axis is numbered from 0, as in the code; a flat index too. *)
(*                                                                         *)
(* A tensor without constant data has the const << >>, since the loader    *)
(* takes an empty buffer for none; one without quantization has no scales. *)
(* Scales are whole numbers of some unit.  The tensors of an operator are  *)
(* distinct: no operator of the models writes where it reads.              *)
(***************************************************************************)
EXTENDS Integers, Sequences, FiniteSets, SequencesExt

CONSTANT MaxDims   \* maxDims, the greatest rank

ASSUME MaxDimsAssumption == MaxDims \in Nat

TensorInfo ==
  [dtype : STRING, shape : Seq(Int),
   quant : [scales : Seq(Int), zeroPoints : Seq(Int), dim : Int], const : Seq(Int)]

\* shape[from] * ... * shape[to-1]
product(shape, from, to) ==
  LET p[i \in 0 .. Len(shape)] == IF i <= from THEN 1 ELSE p[i - 1] * shape[i]
  IN p[to]

rank(t) == Len(t.shape)
NumElements(t) == product(t.shape, 0, rank(t))
IsConst(t) == t.const # << >>
PerChannel(t) == Len(t.quant.scales) > 1
Quantized(t) == t.quant.scales # << >>

\* The axis as an index; InRank says whether it is one.
resolveAxis(axis, nd) == IF axis < 0 THEN axis + nd ELSE axis
InRank(axis, nd) == axis \in 0 .. nd - 1

\* loadTensor, for shapes small enough for its size limits.
TensorOK(t) ==
  /\ rank(t) <= MaxDims
  /\ \A a \in 1 .. rank(t) : t.shape[a] >= 0
  /\ Len(t.quant.scales) = Len(t.quant.zeroPoints)
  /\ \A k \in 1 .. Len(t.quant.scales) : t.quant.scales[k] > 0
  /\ IsConst(t) => Len(t.const) = NumElements(t)

\* The tensors' part of validate.
QuantizationOK(t) ==
  /\ t.dtype \in {"INT8", "UINT8"} => Quantized(t)
  /\ t.dtype = "RESOURCE" => ~IsConst(t)
  /\ PerChannel(t) =>
       /\ InRank(t.quant.dim, rank(t))
       /\ Len(t.quant.scales) = t.shape[t.quant.dim + 1]

\* numbers[0] + ... + numbers[k-1]
SumOfFirst(numbers, k) ==
  LET sum[i \in 0 .. Len(numbers)] == IF i = 0 THEN 0 ELSE sum[i - 1] + numbers[i]
  IN sum[k]

\* The sizes of the operands along an axis, which is numbered from 1 here.
SizesAlong(tensors, a) == [k \in 1 .. Len(tensors) |-> tensors[k].shape[a]]

\* Integer division as Go does it, towards zero, for a positive divisor.
Quo(a, b) == IF a >= 0 THEN a \div b ELSE -((-a) \div b)

-----------------------------------------------------------------------------
(* Coordinates: the meaning of a flat index in row-major order, for the   *)
(* properties.                                                             *)

Coordinates(shape) ==
  LET longest == Max({shape[a] : a \in 1 .. Len(shape)} \cup {0})
  IN {c \in [1 .. Len(shape) -> 0 .. longest] : \A a \in 1 .. Len(shape) : c[a] < shape[a]}

FlatIndex(shape, c) ==
  LET flat[a \in 0 .. Len(shape)] == IF a = 0 THEN 0 ELSE flat[a - 1] * shape[a] + c[a]
  IN flat[Len(shape)]
=============================================================================
