-------------------------------- MODULE Wav ---------------------------------
(***************************************************************************)
(* The WAV reader and writer (internal/wav/wav.go).  A stream is a         *)
(* sequence of cells, each with a kind and a value: the RIFF header, the   *)
(* header of a chunk, of the kind of its id and with the size it declares, *)
(* the fields of a format, known by its tag, and bytes.  A sample is two   *)
(* bytes.  A stream may end at any cell.                                   *)
(***************************************************************************)
EXTENDS PowersOfTwo, Sequences, SequencesExt

CONSTANTS
  SizeBits,   \* bits of a size: 32 in the code
  FmtSize     \* the least size of a format: 16 bytes in the code

ASSUME WavAssumption == SizeBits \in Nat /\ FmtSize \in 1 .. Pow2(SizeBits) - 1

MaxSize == Pow2(SizeBits) - 1

Cell(kind, value) == [kind |-> kind, value |-> value]

Riff   == Cell("RIFF", 0)
Tag(t) == Cell("tag", t)
Byte(b) == Cell("byte", b)

Samples(pcm) == [kind |-> "ok", pcm |-> pcm]
Refused == [kind |-> "error"]
Crashed == [kind |-> "panic"]
Reading == [kind |-> "reading"]

\* The size and its pad byte, as a word.
Padded(size) == (size + (size % 2)) % Pow2(SizeBits)

DecodePCM16(raw) == [i \in 1 .. Len(raw) \div 2 |-> <<raw[2 * i - 1], raw[2 * i]>>]

\* Mutant: whatever follows the data is read as samples.
ReadsToTheEnd(stream, at, size) == Samples(DecodePCM16(SubSeq(stream, at, Len(stream))))

\* The samples of a data chunk that starts at cell at.
ReadData(stream, at, size) ==
  LET rest == Len(stream) - at + 1
      streaming == size \in {0, MaxSize}
  IN IF ~streaming /\ rest < size THEN Refused
     ELSE Samples(DecodePCM16(SubSeq(stream, at, IF streaming THEN Len(stream) ELSE at + size - 1)))

\* The reader at a cell, with or without an accepted format, until there is a result.
Reader(at, haveFmt, verdict) == [at |-> at, haveFmt |-> haveFmt, verdict |-> verdict]

\* One round of the loop.  A format is read whole; its fields are in its first cell,
\* and tag 1 is that of 16 kHz mono 16-bit PCM.
ReadChunk(stream, r) ==
  LET ch   == stream[r.at]
      next == r.at + 1 + Padded(ch.value)
      cut  == next > Len(stream) + 1
      ends(verdict) == Reader(r.at, r.haveFmt, verdict)
  IN IF r.verdict # Reading THEN r
     ELSE IF r.at > Len(stream) THEN ends(Refused)
     ELSE CASE ch.kind = "fmt" ->
                 IF ch.value < FmtSize \/ cut THEN ends(Refused)
                 ELSE IF Padded(ch.value) < FmtSize THEN ends(Crashed)   \* buf[0:2] of an empty buf
                 ELSE IF stream[r.at + 1] # Tag(1) THEN ends(Refused) ELSE Reader(next, TRUE, Reading)
            [] ch.kind = "data" -> ends(IF r.haveFmt THEN ReadData(stream, r.at + 1, ch.value) ELSE Refused)
            [] OTHER -> IF cut THEN ends(Refused) ELSE Reader(next, r.haveFmt, Reading)

\* A round takes a cell at least, so that there are no more rounds than cells.
ReadChunks(stream) ==
  LET after[round \in 0 .. Len(stream)] ==
        IF round = 0 THEN Reader(2, FALSE, Reading) ELSE ReadChunk(stream, after[round - 1])
  IN after[Len(stream)].verdict

Read(stream) == IF stream = << >> \/ Head(stream) # Riff THEN Refused ELSE ReadChunks(stream)

\* A chunk as cells: its header, its body and the pad byte of an odd one.
Cells(chunk) == <<Cell(chunk.id, chunk.size)>> \o chunk.body \o [i \in 1 .. Len(chunk.body) % 2 |-> Byte(0)]

-----------------------------------------------------------------------------
\* What is written.
Format(tag, size) == [id |-> "fmt", size |-> size, body |-> <<Tag(tag)>> \o [i \in 1 .. size - 1 |-> Byte(0)]]

Data(pcm) == [id |-> "data", size |-> 2 * Len(pcm), body |-> FlattenSeq(pcm)]

Write(pcm) == <<Riff>> \o Cells(Format(1, FmtSize)) \o Cells(Data(pcm))

\* LIST stands for every other chunk.
Ids == {"fmt", "data", "LIST"}
AnyCell == [kind : Ids \cup {"RIFF", "tag", "byte"}, value : Nat]
AnySample == AnyCell \X AnyCell

\* A chunk as a program writes it.  The size of a data chunk may be left open, and that
\* of a format be the greatest of its word.
Written(chunk) ==
  /\ chunk.body \in Seq(AnyCell) /\ Len(chunk.body) <= MaxSize
  /\ CASE chunk.id = "data" -> chunk.size \in {0, MaxSize, Len(chunk.body)}
       [] chunk.id = "fmt"  -> chunk.body # << >> /\ chunk.size \in {MaxSize, Len(chunk.body)}
       [] OTHER -> chunk.size = Len(chunk.body) /\ chunk.size < MaxSize

Holds(body, pcm) ==
  /\ pcm \in Seq(AnySample) /\ Len(pcm) = Len(body) \div 2
  /\ \A i \in 1 .. Len(pcm) : body[2 * i - 1] = pcm[i][1] /\ body[2 * i] = pcm[i][2]

\* The cells of a file from its header through each chunk.
CellsThrough(chunks) ==
  LET through[i \in 0 .. Len(chunks)] == IF i = 0 THEN 1 ELSE through[i - 1] + Len(Cells(chunks[i]))
  IN through

\* The stream is the file of these chunks, or what a cut leaves of it.
Begins(stream, chunks) ==
  LET through == CellsThrough(chunks)
  IN /\ stream \in Seq(AnyCell) /\ Len(stream) <= through[Len(chunks)]
     /\ stream # << >> => Head(stream) = Riff
     /\ \A i \in 1 .. Len(chunks) : \A k \in 1 .. Len(Cells(chunks[i])) :
          through[i - 1] + k <= Len(stream) => stream[through[i - 1] + k] = Cells(chunks[i])[k]
=============================================================================
