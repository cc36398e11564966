----------------------------- MODULE Filterbank -----------------------------
(***************************************************************************)
(* The layout of the triangular filters (frontend/filterbank.go): which    *)
(* bins of the spectrum a channel weighs, where its weights stand in the   *)
(* padded and aligned arrays, and what accumulate multiplies with what.    *)
(*                                                                         *)
(* A configuration is spectrum, the number of bins; first, the startIndex  *)
(* computed from the lower band limit; and tops, for each channel the      *)
(* first bin above its center frequency.  Center frequencies rise, so tops *)
(* does not fall.  A weight is known by its bin; NoBin has weight 0.  The  *)
(* arrays' indexes are kept in int16, which the 257 bins and 41 channels   *)
(* of the frontend do not come near to fill: here they are integers.       *)
(***************************************************************************)
EXTENDS Integers, Sequences, SequencesExt

IndexAlignment == 2
BlockSize == 4
NoBin == -1

MaxOf(a, b) == IF a > b THEN a ELSE b

\* alignedWidth rounded up to whole blocks
PaddedWidth(alignedWidth) == ((alignedWidth - 1) \div BlockSize + 1) * BlockSize

NoBanks(first) == [banks |-> << >>, next |-> first, room |-> 0, needsZeros |-> FALSE]

\* A channel: its start and width as they are read, where its weights stand, and the bins that are its own.
Bank(start, weightStart, width, actualStart, actualWidth) ==
  [start |-> start, weightStart |-> weightStart, width |-> width,
   actualStart |-> actualStart, actualWidth |-> actualWidth]

\* Mutant: the channels before the first empty one stay where they are.
WithoutShift(fb) ==
  [banks |-> Append(fb.banks, Bank(0, 0, BlockSize, fb.next, 0)), next |-> fb.next,
   room |-> fb.room + (IF fb.needsZeros THEN 0 ELSE BlockSize), needsZeros |-> TRUE]

\* A channel without a bin of its own gets the block of zeros, before which the first
\* such channel moves the others.
WithoutBins(fb) ==
  LET shift == IF fb.needsZeros THEN 0 ELSE BlockSize
      moved == [j \in 1 .. Len(fb.banks) |-> [fb.banks[j] EXCEPT !.weightStart = @ + shift]]
  IN [banks |-> Append(moved, Bank(0, 0, BlockSize, fb.next, 0)), next |-> fb.next,
      room |-> fb.room + shift, needsZeros |-> TRUE]

WithBins(fb, width) ==
  LET alignedStart == (fb.next \div IndexAlignment) * IndexAlignment
      paddedWidth  == PaddedWidth(fb.next - alignedStart + width)
  IN [banks |-> Append(fb.banks, Bank(alignedStart, fb.room, paddedWidth, fb.next, width)), next |-> fb.next + width,
      room |-> fb.room + paddedWidth, needsZeros |-> fb.needsZeros]

\* A channel goes on from the bin where the last one ended.
OneMoreBank(fb, top) ==
  LET width == MaxOf(fb.next, top) - fb.next
  IN IF width = 0 THEN WithoutBins(fb) ELSE WithBins(fb, width)

\* The first pass.
Layout(first, tops) ==
  LET after[ch \in 0 .. Len(tops)] ==
        IF ch = 0 THEN NoBanks(first) ELSE OneMoreBank(after[ch - 1], tops[ch])
  IN after[Len(tops)]

\* A channel's weights stand behind the padding of its aligned start.
WithWeights(bank, weights) ==
  LET at == bank.weightStart + bank.actualStart - bank.start
  IN [i \in DOMAIN weights |->
        IF i \in at .. at + bank.actualWidth - 1 THEN bank.actualStart + i - at ELSE weights[i]]

\* The second pass: the bin whose weight stands at each index.
WeightBins(fb) ==
  LET after[ch \in 0 .. Len(fb.banks)] ==
        IF ch = 0 THEN [i \in 0 .. fb.room - 1 |-> NoBin] ELSE WithWeights(fb.banks[ch], after[ch - 1])
  IN after[Len(fb.banks)]

endIndex(fb) == FoldLeft(LAMBDA end, bank : MaxOf(end, bank.actualStart + bank.actualWidth), 0, fb.banks)

\* The second pass writes outside the arrays, or accumulate reads outside them.
Overruns(fb, spectrum) ==
  \E ch \in 1 .. Len(fb.banks) :
    LET bank == fb.banks[ch]
    IN bank.start + bank.width > spectrum \/ bank.weightStart + bank.width > fb.room

\* What a channel reads with one kind of weight: pairs of the weight's bin and the energy's.
Reads(bank, weights, kind) ==
  {<<kind, weights[bank.weightStart + j], bank.start + j>> : j \in 0 .. bank.width - 1}

\* The products that work[ch] sums: its weights' and what the channel below carries over.
accumulate(fb) ==
  LET weights == WeightBins(fb)
      sum(ch) == Reads(fb.banks[ch], weights, "weight")
                 \cup (IF ch = 1 THEN {} ELSE Reads(fb.banks[ch - 1], weights, "unweight"))
  IN [ch \in 1 .. Len(fb.banks) |-> {p \in sum(ch) : p[2] # NoBin}]

\* newFilterbank, and the accumulate of every frame.
filterbank(config) ==
  LET fb == Layout(config.first, config.tops)
  IN IF endIndex(fb) >= config.spectrum THEN [kind |-> "error"]
     ELSE IF Overruns(fb, config.spectrum) THEN [kind |-> "panic"]
     ELSE [kind |-> "ok", work |-> accumulate(fb)]

-----------------------------------------------------------------------------
\* The bins between the centers of the channel below and of this one.
Band(config, ch) ==
  {b \in config.first .. config.tops[ch] - 1 : ch > 1 => b >= config.tops[ch - 1]}

Weighed(config, ch) ==
  {<<"weight", b, b>> : b \in Band(config, ch)}
  \cup (IF ch = 1 THEN {} ELSE {<<"unweight", b, b>> : b \in Band(config, ch - 1)})
=============================================================================
