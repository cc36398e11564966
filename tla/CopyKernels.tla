----------------------------- MODULE CopyKernels ----------------------------
(***************************************************************************)
(* The operators that move data: CONCATENATION, SPLIT_V, STRIDED_SLICE and *)
(* RESHAPE (kernels/concat.go, split_v.go, strided_slice.go, reshape.go),  *)
(* and the loader's rules for them (runtime/validate.go).                  *)
(*                                                                         *)
(* An input's element is <<k, i>>, its operand and flat index, so that     *)
(* where each element ends up can be seen.  A kernel's outcome is its      *)
(* outputs, an error it returns, or a panic: an index out of range.        *)
(***************************************************************************)
EXTENDS Tensors

Contents(op, k) == [i \in 1 .. NumElements(op.ins[k]) |-> <<k, i - 1>>]

Wrote(outs) == [kind |-> "ok", outs |-> outs]
Error       == [kind |-> "error"]
Panic       == [kind |-> "panic"]

\* src[from : from+n]
Slice(src, from, n) == SubSeq(src, from + 1, from + n)
Beyond(src, from, n) == from + n > Len(src)

\* All pairs of an outer index and an operand, in the order of the loops.
Nest(outer, inner) == [n \in 1 .. outer * inner |-> <<(n - 1) \div inner, 1 + ((n - 1) % inner)>>]

-----------------------------------------------------------------------------
ConcatenationRule(op) ==
  LET out  == op.outs[1]
      axis == resolveAxis(op.opt.axis, rank(out))
  IN
  /\ Len(op.ins) >= 1 /\ Len(op.outs) = 1
  /\ op.opt.activation = "NONE"
  /\ InRank(axis, rank(out))
  /\ \A k \in 1 .. Len(op.ins) :
       /\ op.ins[k].dtype = "INT8"
       /\ rank(op.ins[k]) = rank(out)
       /\ \A a \in 1 .. rank(out) : a # axis + 1 => op.ins[k].shape[a] = out.shape[a]
       /\ op.ins[k].quant = out.quant
  /\ out.dtype = "INT8"
  /\ SumOfFirst(SizesAlong(op.ins, axis + 1), Len(op.ins)) = out.shape[axis + 1]

\* Mutant: one input after the other, whatever the outer dimensions.
ConcatenatedWhole(op) == Wrote(<<FlattenSeq([k \in 1 .. Len(op.ins) |-> Contents(op, k)])>>)

concatenation(op) ==
  LET out   == op.outs[1]
      axis  == resolveAxis(op.opt.axis, rank(out))
      outer == product(out.shape, 0, axis)
      block(k) == product(op.ins[k].shape, axis, rank(out))
      turns == Nest(outer, Len(op.ins))
      from(t) == t[1] * block(t[2])
      copied == FlattenSeq([n \in 1 .. Len(turns) |->
                              Slice(Contents(op, turns[n][2]), from(turns[n]), block(turns[n][2]))])
  IN IF ~InRank(axis, rank(out)) THEN Error
     ELSE IF \E n \in 1 .. Len(turns) : Beyond(Contents(op, turns[n][2]), from(turns[n]), block(turns[n][2]))
     THEN Panic
     ELSE IF Len(copied) < NumElements(out) THEN Error
     ELSE Wrote(<<SubSeq(copied, 1, NumElements(out))>>)

-----------------------------------------------------------------------------
SplitVRule(op) ==
  /\ Len(op.ins) = 3 /\ Len(op.outs) >= 1
  /\ op.ins[1].dtype = "INT8" /\ op.ins[2].dtype = "INT32" /\ op.ins[3].dtype = "INT32"
  /\ IsConst(op.ins[2]) /\ IsConst(op.ins[3])
  /\ NumElements(op.ins[3]) = 1
  /\ NumElements(op.ins[2]) = Len(op.outs)
  /\ \A k \in 1 .. Len(op.outs) :
       op.outs[k].dtype = "INT8" /\ op.outs[k].quant = op.ins[1].quant

\* The size that -1 stands for: what the others leave of the axis.
Resolved(sizes, whole) ==
  LET total == FoldLeft(LAMBDA n, s : IF s < 0 THEN n ELSE n + s, 0, sizes)
  IN [k \in 1 .. Len(sizes) |-> IF sizes[k] = -1 THEN whole - total ELSE sizes[k]]

\* No size below -1, at most one -1, and the sizes make up the axis.
SizesOK(sizes, whole) ==
  /\ \A k \in 1 .. Len(sizes) : sizes[k] >= -1
  /\ Cardinality({k \in 1 .. Len(sizes) : sizes[k] = -1}) <= 1
  /\ \A k \in 1 .. Len(sizes) : Resolved(sizes, whole)[k] >= 0
  /\ SumOfFirst(Resolved(sizes, whole), Len(sizes)) = whole

\* maxDims*4, the room for resolved sizes.
MaxSplits == 4 * MaxDims

splitV(op) ==
  LET in    == op.ins[1]
      axis  == resolveAxis(op.ins[3].const[1], rank(in))
      whole == in.shape[axis + 1]
      sizes == Resolved(op.ins[2].const, whole)
      outer == product(in.shape, 0, axis)
      inner == product(in.shape, axis + 1, rank(in))
      piece(o, k) == Slice(Contents(op, 1), (o * whole + SumOfFirst(sizes, k - 1)) * inner, sizes[k] * inner)
      lengthOK(k) == NumElements(op.outs[k]) = sizes[k] * inner * outer
  IN IF \/ ~InRank(axis, rank(in))
        \/ Len(op.ins[2].const) # Len(op.outs) \/ Len(op.outs) > MaxSplits
        \/ ~SizesOK(op.ins[2].const, whole)
     THEN Error
     ELSE LET bad == {k \in 1 .. Len(op.outs) :
                        \/ ~lengthOK(k)
                        \/ axis >= rank(op.outs[k])
                        \/ op.outs[k].shape[axis + 1] # sizes[k]}
              first == CHOOSE k \in bad : \A j \in bad : k <= j
          IN IF bad = {}
             THEN Wrote([k \in 1 .. Len(op.outs) |-> FlattenSeq([o \in 1 .. outer |-> piece(o - 1, k)])])
             ELSE IF lengthOK(first) /\ axis >= rank(op.outs[first]) THEN Panic   \* out.Info.Shape[axis]
             ELSE Error

-----------------------------------------------------------------------------
StridedSliceRule(op) ==
  LET in == op.ins[1] IN
  /\ Len(op.ins) = 4 /\ Len(op.outs) = 1
  /\ in.dtype = "INT8" /\ op.outs[1].dtype = "INT8"
  /\ \A k \in 2 .. 4 :
       op.ins[k].dtype = "INT32" /\ IsConst(op.ins[k]) /\ NumElements(op.ins[k]) = rank(in)
  /\ op.opt.otherMasks = 0
  /\ in.quant = op.outs[1].quant

Clamp(v, lo, hi) == IF v < lo THEN lo ELSE IF v > hi THEN hi ELSE v

FromEnd(i, size) == IF i < 0 THEN i + size ELSE i

\* The bounds that both ends are clamped to.
ClampedToAxis(i, stride, size) ==
  IF stride > 0 THEN Clamp(FromEnd(i, size), 0, size) ELSE Clamp(FromEnd(i, size), -1, size - 1)

startForAxis(masked, begin, stride, size) ==
  IF size = 0 THEN 0
  ELSE IF masked THEN (IF stride > 0 THEN 0 ELSE size - 1)
  ELSE ClampedToAxis(begin, stride, size)

stopForAxis(masked, end, stride, size) ==
  IF size = 0 THEN 0
  ELSE IF masked THEN (IF stride > 0 THEN size ELSE -1)
  ELSE ClampedToAxis(end, stride, size)

Extent(start, stop, stride) ==
  CASE stride > 0 /\ stop > start -> (stop - start + stride - 1) \div stride
    [] stride < 0 /\ stop < start -> (start - stop - stride - 1) \div (-stride)
    [] OTHER -> 0

\* The walk's index after idx: the last axis that has a next value takes it,
\* the axes after it start again.
HasNext(shape, idx) == \E a \in 1 .. Len(shape) : idx[a] + 1 < shape[a]

\* Mutant: the axes after it stay where they are.
CarriesNothing(shape, idx) ==
  LET a == CHOOSE x \in 1 .. Len(shape) : idx[x] + 1 < shape[x] /\ \A y \in x + 1 .. Len(shape) : idx[y] + 1 >= shape[y]
  IN [idx EXCEPT ![a] = @ + 1]

NextIndex(shape, idx) ==
  LET a == CHOOSE x \in 1 .. Len(shape) :
             idx[x] + 1 < shape[x] /\ \A y \in x + 1 .. Len(shape) : idx[y] + 1 >= shape[y]
  IN [x \in 1 .. Len(shape) |-> CASE x < a -> idx[x] [] x = a -> idx[x] + 1 [] OTHER -> 0]

SliceRanksDiffer(op) ==
  \/ rank(op.ins[1]) > MaxDims
  \/ \E k \in 2 .. 4 : Len(op.ins[k].const) # rank(op.ins[1])
  \/ rank(op.outs[1]) # rank(op.ins[1])

SliceStride(op, a) == op.ins[4].const[a]

SliceStart(op, a) ==
  startForAxis(a \in op.opt.beginMask, op.ins[2].const[a], SliceStride(op, a), op.ins[1].shape[a])

SliceStop(op, a) ==
  stopForAxis(a \in op.opt.endMask, op.ins[3].const[a], SliceStride(op, a), op.ins[1].shape[a])

SliceExtent(op, a) == Extent(SliceStart(op, a), SliceStop(op, a), SliceStride(op, a))

\* The walk's index at each of the output's n elements.  After the last index the
\* walk ends; a longer output would be an error.
Walk(shape, n) ==
  LET walk[i \in 0 .. n - 1] == IF i = 0 \/ ~HasNext(shape, walk[i - 1])
                                THEN [a \in 1 .. Len(shape) |-> 0] ELSE NextIndex(shape, walk[i - 1])
  IN walk

\* Where an element of the output comes from.
SliceOffset(op, idx) ==
  LET shape == op.ins[1].shape
      off[a \in 0 .. Len(shape)] ==
        IF a = 0 THEN 0
        ELSE off[a - 1] + (SliceStart(op, a) + idx[a] * SliceStride(op, a)) * product(shape, a, Len(shape))
  IN off[Len(shape)]

stridedSlice(op) ==
  LET in == op.ins[1]   out == op.outs[1]   n == NumElements(out)
      walk == Walk(out.shape, n)
  IN IF SliceRanksDiffer(op) \/ \E a \in 1 .. rank(in) : SliceStride(op, a) = 0 THEN Error
     ELSE IF \E a \in 1 .. rank(in) : SliceExtent(op, a) # out.shape[a] THEN Error
     ELSE IF \E i \in 0 .. n - 1 : SliceOffset(op, walk[i]) \notin 0 .. NumElements(in) - 1 THEN Panic
     ELSE IF \E i \in 0 .. n - 2 : ~HasNext(out.shape, walk[i]) THEN Error
     ELSE Wrote(<<[i \in 1 .. n |-> Contents(op, 1)[SliceOffset(op, walk[i - 1]) + 1]]>>)

-----------------------------------------------------------------------------
\* checkReshapeTarget: the shape parameter, with its wildcard resolved, is the
\* output's shape.
checkReshapeTarget(want, out) ==
  LET wild  == {i \in 1 .. Len(want) : want[i] = -1}
      known == FoldLeft(LAMBDA n, d : IF d < 0 THEN n ELSE n * d, 1, want)
  IN /\ Len(want) = rank(out)
     /\ \A i \in 1 .. Len(want) : want[i] >= -1
     /\ Cardinality(wild) <= 1
     /\ wild # {} => known # 0
     /\ \A i \in 1 .. Len(want) :
          out.shape[i] = IF i \in wild THEN NumElements(out) \div known ELSE want[i]

ReshapeRule(op) ==
  /\ Len(op.ins) = 2 /\ Len(op.outs) = 1
  /\ op.ins[1].dtype = "INT8" /\ op.ins[2].dtype = "INT32" /\ op.outs[1].dtype = "INT8"
  /\ IsConst(op.ins[2])
  /\ NumElements(op.ins[1]) = NumElements(op.outs[1])
  /\ op.ins[1].quant = op.outs[1].quant
  /\ checkReshapeTarget(op.ins[2].const, op.outs[1])

reshape(op) ==
  IF NumElements(op.ins[1]) = NumElements(op.outs[1]) THEN Wrote(<<Contents(op, 1)>>) ELSE Error
=============================================================================
