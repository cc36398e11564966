---------------------------- MODULE CommandProofs ---------------------------
(***************************************************************************)
(* What the wakeword command promises about its output, for every size of  *)
(* the buffer, every number of lines and events, and whatever fails.       *)
(***************************************************************************)
EXTENDS Command, TLAPS

\* A sequence of consecutive lines, the first of which follows line k.
Numbered(s, k) == \A i \in 1 .. Len(s) : s[i] = k + i

Writers == [buffer : Seq(Nat), stuck : BOOLEAN, err : BOOLEAN, stdout : Seq(Nat)]

\* The output after n lines: what is written out are the first lines, and until
\* writing fails the buffer has the others.
Sound(o, n) ==
  /\ o \in Writers
  /\ o.err => o.stuck
  /\ Numbered(o.stdout, 0) /\ Len(o.stdout) <= n
  /\ ~o.stuck => /\ Numbered(o.buffer, Len(o.stdout))
                 /\ Len(o.stdout) + Len(o.buffer) = n

CommandInv ==
  /\ said \in Seq(Nat) /\ Numbered(said, 0)
  /\ Sound(out, Len(said))
  /\ due \in Nat
  /\ ~out.stuck => due <= Len(out.stdout)
  /\ step # "exited" => exit = NoExit
  /\ exit = exitOK => ~out.stuck /\ Len(out.stdout) = Len(said)

-----------------------------------------------------------------------------
(* The calls of outWriter. *)

\* Consecutive lines are cut into consecutive lines and put together again.
LEMMA CutLines ==
  ASSUME NEW s \in Seq(Nat), NEW a \in Nat, Numbered(s, a), NEW k \in 0 .. Len(s)
  PROVE  /\ SubSeq(s, 1, k) \in Seq(Nat) /\ Len(SubSeq(s, 1, k)) = k
         /\ Numbered(SubSeq(s, 1, k), a)
         /\ SubSeq(s, k + 1, Len(s)) \in Seq(Nat)
<1>1. /\ SubSeq(s, 1, k) \in Seq(Nat) /\ Len(SubSeq(s, 1, k)) = k
      /\ \A i \in 1 .. k : SubSeq(s, 1, k)[i] = s[i]
  OBVIOUS
<1>2. SubSeq(s, k + 1, Len(s)) \in Seq(Nat)
  OBVIOUS
<1> QED
  BY <1>1, <1>2 DEF Numbered

LEMMA JoinLines ==
  ASSUME NEW s \in Seq(Nat), NEW t \in Seq(Nat), Numbered(s, 0), Numbered(t, Len(s))
  PROVE  /\ s \o t \in Seq(Nat) /\ Len(s \o t) = Len(s) + Len(t)
         /\ Numbered(s \o t, 0)
<1>1. /\ s \o t \in Seq(Nat) /\ Len(s \o t) = Len(s) + Len(t)
      /\ \A i \in 1 .. Len(s) : (s \o t)[i] = s[i]
      /\ \A i \in 1 .. Len(t) : (s \o t)[Len(s) + i] = t[i]
  OBVIOUS
<1>2. ASSUME NEW i \in 1 .. Len(s) + Len(t)
      PROVE  (s \o t)[i] = i
  <2>1. CASE i <= Len(s)
    BY <1>1, <2>1 DEF Numbered
  <2>2. CASE i > Len(s)
    <3>1. i - Len(s) \in 1 .. Len(t) /\ i = Len(s) + (i - Len(s))
      BY <2>2
    <3>2. (s \o t)[Len(s) + (i - Len(s))] = t[i - Len(s)]
      BY <1>1, <3>1
    <3> QED
      BY <3>1, <3>2 DEF Numbered
  <2> QED
    BY <2>1, <2>2
<1> QED
  BY <1>1, <1>2 DEF Numbered

LEMMA WrittenOutSound ==
  ASSUME NEW n \in Nat, NEW o, Sound(o, n), ~o.stuck, NEW u \in WrittenOut(o)
  PROVE  /\ Sound(u, n)
         /\ Len(o.stdout) <= Len(u.stdout)
         /\ ~u.stuck => u.buffer = << >> /\ Len(u.stdout) = n
<1>1. /\ o \in Writers /\ o.buffer \in Seq(Nat) /\ o.stdout \in Seq(Nat)
      /\ Numbered(o.stdout, 0) /\ Numbered(o.buffer, Len(o.stdout))
      /\ ~o.err
  BY DEF Sound, Writers
<1> DEFINE p == Len(o.stdout)
           q == Len(o.buffer)
<1>a. p \in Nat /\ q \in Nat /\ p + q = n
  <2>1. Len(o.stdout) \in Nat /\ Len(o.buffer) \in Nat
    BY <1>1
  <2>2. Len(o.stdout) + Len(o.buffer) = n
    BY DEF Sound
  <2> QED
    BY <2>1, <2>2
<1>2. CASE u = [o EXCEPT !.buffer = << >>, !.stdout = @ \o o.buffer]
  <2> DEFINE all == o.stdout \o o.buffer
  <2>1. all \in Seq(Nat) /\ Len(all) = n /\ Numbered(all, 0)
    BY <1>1, <1>a, JoinLines
  <2>2. << >> \in Seq(Nat) /\ u = [o EXCEPT !.buffer = << >>, !.stdout = all]
    BY <1>2
  <2> HIDE DEF all
  <2>3. /\ u \in Writers /\ u.buffer = << >> /\ u.stdout = all /\ u.stuck = o.stuck
        /\ u.err = o.err
    BY <1>1, <2>1, <2>2 DEF Writers
  <2>4. Numbered(u.buffer, Len(u.stdout)) /\ Len(u.buffer) = 0 /\ Len(u.stdout) = n
    BY <2>1, <2>3 DEF Numbered
  <2>5. ~u.err /\ Numbered(u.stdout, 0)
    BY <1>1, <2>1, <2>3
  <2>6. Len(u.stdout) <= n /\ Len(u.stdout) + Len(u.buffer) = n /\ Len(o.stdout) <= Len(u.stdout)
    <3> HIDE DEF p, q
    <3>1. n <= n /\ n + 0 = n /\ p <= n
      BY <1>a
    <3> QED
      BY <2>4, <3>1 DEF p
  <2>7. Sound(u, n)
    BY <2>3, <2>4, <2>5, <2>6 DEF Sound
  <2> QED
    BY <2>3, <2>4, <2>6, <2>7
<1>3. ASSUME NEW k \in 0 .. Len(o.buffer) - 1,
             u = [o EXCEPT !.buffer = SubSeq(@, k + 1, Len(@)),
                           !.stdout = @ \o SubSeq(o.buffer, 1, k),
                           !.stuck  = TRUE]
      PROVE  Sound(u, n) /\ Len(o.stdout) <= Len(u.stdout) /\ u.stuck
  <2> DEFINE head == SubSeq(o.buffer, 1, k)
             rest == SubSeq(o.buffer, k + 1, Len(o.buffer))
             sent == o.stdout \o head
  <2>1. /\ k \in 0 .. Len(o.buffer)
        /\ head \in Seq(Nat) /\ Len(head) = k /\ Numbered(head, Len(o.stdout))
        /\ rest \in Seq(Nat)
    BY <1>1, CutLines
  <2>2. u = [o EXCEPT !.buffer = rest, !.stdout = sent, !.stuck = TRUE]
    BY <1>3
  <2> HIDE DEF head, rest
  <2>3. sent \in Seq(Nat) /\ Len(sent) = Len(o.stdout) + k /\ Numbered(sent, 0)
    BY <1>1, <2>1, JoinLines
  <2> HIDE DEF sent
  <2>4. /\ u \in Writers /\ u.stdout = sent /\ u.stuck
    BY <1>1, <2>1, <2>2, <2>3 DEF Writers
  <2>5. Len(sent) <= n /\ Len(o.stdout) <= Len(sent)
    <3>1. Len(sent) = p + k /\ k \in 0 .. q - 1
      BY <2>3
    <3> HIDE DEF p, q
    <3>2. p + k <= n /\ p <= p + k
      BY <1>a, <3>1
    <3> QED
      BY <3>1, <3>2 DEF p
  <2> QED
    BY <2>3, <2>4, <2>5 DEF Sound
<1> QED
  BY <1>2, <1>3 DEF WrittenOut

\* printf after n lines: until writing fails, line n + 1 is in the output.
LEMMA PrintedSound ==
  ASSUME NEW n \in Nat, NEW o, Sound(o, n), NEW u \in Printed(o, n + 1)
  PROVE  /\ Sound(u, n + 1)
         /\ ~u.stuck => ~o.stuck /\ Len(o.stdout) <= Len(u.stdout)
<1> USE CommandAssumption
<1>1. /\ o \in Writers /\ o.buffer \in Seq(Nat) /\ o.stdout \in Seq(Nat)
      /\ Numbered(o.stdout, 0) /\ Len(o.stdout) \in Nat /\ Len(o.stdout) <= n + 1
  BY DEF Sound, Writers
<1>2. ASSUME u \in Writers, u.stuck, u.stdout = o.stdout
      PROVE  Sound(u, n + 1)
  BY <1>1, <1>2 DEF Sound
<1>3. CASE o.err
  <2>1. u = o /\ o.stuck
    BY <1>3 DEF Printed, Sound
  <2> QED
    BY <1>1, <1>2, <2>1
<1>4. CASE ~o.err /\ o.stuck
  <2>1. u = [o EXCEPT !.err = TRUE]
    BY <1>4 DEF Printed
  <2>2. u \in Writers /\ u.stdout = o.stdout /\ u.stuck = o.stuck
    BY <1>1, <2>1 DEF Writers
  <2>3. u.stuck
    BY <1>4, <2>2
  <2> QED
    BY <1>2, <2>2, <2>3
<1>5. CASE ~o.err /\ ~o.stuck /\ Len(o.buffer) < Cap
  <2> DEFINE b == Append(o.buffer, n + 1)
  <2>1. /\ b \in Seq(Nat) /\ Len(b) = Len(o.buffer) + 1 /\ Len(o.buffer) \in Nat
        /\ \A i \in 1 .. Len(o.buffer) : b[i] = o.buffer[i]
        /\ b[Len(o.buffer) + 1] = n + 1
    BY <1>1
  <2>2. u = [o EXCEPT !.buffer = b]
    BY <1>5 DEF Printed
  <2> HIDE DEF b
  <2>3. /\ u \in Writers /\ u.buffer = b /\ u.stdout = o.stdout
        /\ u.stuck = o.stuck /\ u.err = o.err
    BY <1>1, <2>1, <2>2 DEF Writers
  <2>4. Numbered(o.buffer, Len(o.stdout)) /\ Len(o.stdout) + Len(o.buffer) = n
    BY <1>5 DEF Sound
  <2> DEFINE p == Len(o.stdout)
             q == Len(o.buffer)
  <2>a. p \in Nat /\ q \in Nat /\ p + q = n /\ Len(b) = q + 1
    BY <1>1, <2>1, <2>4
  <2>5. Numbered(b, Len(o.stdout))
    <3> SUFFICES ASSUME NEW i \in 1 .. Len(o.buffer) + 1
                 PROVE  b[i] = Len(o.stdout) + i
      BY <2>1 DEF Numbered
    <3>1. CASE i = Len(o.buffer) + 1
      <4>1. b[i] = n + 1
        BY <2>1, <3>1
      <4>2. n + 1 = Len(o.stdout) + i
        <5>1. i = q + 1
          BY <3>1
        <5> HIDE DEF p, q
        <5>2. n + 1 = p + i
          BY <2>a, <5>1
        <5> QED
          BY <5>2 DEF p
      <4> QED
        BY <4>1, <4>2
    <3>2. CASE i # Len(o.buffer) + 1
      <4>1. i \in 1 .. Len(o.buffer)
        BY <2>1, <3>2
      <4> QED
        BY <2>1, <2>4, <4>1 DEF Numbered
    <3> QED
      BY <3>1, <3>2
  <2>6. ~u.stuck /\ ~u.err
    BY <1>5, <2>3
  <2>7. Len(u.stdout) + Len(u.buffer) = n + 1 /\ Numbered(u.buffer, Len(u.stdout))
    <3>1. Len(u.stdout) = Len(o.stdout) /\ Len(u.buffer) = Len(b)
      BY <2>3
    <3>2. Len(u.stdout) + Len(u.buffer) = n + 1
      <4> HIDE DEF p, q
      <4>1. p + (q + 1) = n + 1
        BY <2>a
      <4> QED
        BY <2>a, <3>1, <4>1 DEF p
    <3> QED
      BY <2>3, <2>5, <3>2
  <2>8. Sound(u, n + 1)
    BY <1>1, <2>3, <2>6, <2>7 DEF Sound
  <2> QED
    BY <1>1, <1>5, <2>3, <2>8
<1>6. CASE ~o.err /\ ~o.stuck /\ ~(Len(o.buffer) < Cap)
  <2>1. PICK v \in WrittenOut(o) :
          u = IF v.stuck THEN [v EXCEPT !.err = TRUE] ELSE [v EXCEPT !.buffer = <<n + 1>>]
    BY <1>6 DEF Printed
  <2>2. /\ Sound(v, n) /\ Len(o.stdout) <= Len(v.stdout)
        /\ ~v.stuck => v.buffer = << >> /\ Len(v.stdout) = n
    BY <1>6, WrittenOutSound
  <2>3. /\ v \in Writers /\ v.buffer \in Seq(Nat) /\ v.stdout \in Seq(Nat)
        /\ Numbered(v.stdout, 0) /\ Len(v.stdout) <= n /\ Len(v.stdout) \in Nat
        /\ v.err => v.stuck
    BY <2>2 DEF Sound, Writers
  <2>4. CASE v.stuck
    <3>1. u \in Writers /\ u.stdout = v.stdout /\ u.stuck = v.stuck
      BY <2>1, <2>3, <2>4 DEF Writers
    <3>2. u.stuck /\ Len(u.stdout) <= n + 1 /\ Numbered(u.stdout, 0)
      BY <2>3, <2>4, <3>1
    <3> QED
      BY <3>1, <3>2 DEF Sound
  <2>5. CASE ~v.stuck
    <3> DEFINE b == <<n + 1>>
    <3>1. b \in Seq(Nat) /\ Len(b) = 1 /\ Numbered(b, n)
      BY DEF Numbered
    <3>2. u = [v EXCEPT !.buffer = b]
      BY <2>1, <2>5
    <3> HIDE DEF b
    <3>3. /\ u \in Writers /\ u.buffer = b /\ u.stdout = v.stdout
          /\ u.stuck = v.stuck /\ u.err = v.err
      BY <2>3, <3>1, <3>2 DEF Writers
    <3>4. Len(u.stdout) = n /\ ~u.stuck /\ ~u.err
      BY <2>2, <2>3, <2>5, <3>3
    <3>5. Numbered(u.stdout, 0) /\ Numbered(u.buffer, Len(u.stdout))
          /\ Len(u.stdout) + Len(u.buffer) = n + 1 /\ Len(u.stdout) <= n + 1
      <4>1. Numbered(u.stdout, 0) /\ Numbered(u.buffer, Len(u.stdout))
        BY <2>3, <3>1, <3>3, <3>4
      <4>2. Len(u.stdout) = n /\ Len(u.buffer) = 1
        BY <3>1, <3>3, <3>4
      <4> QED
        BY <4>1, <4>2
    <3>6. Sound(u, n + 1)
      BY <3>3, <3>4, <3>5 DEF Sound
    <3> QED
      BY <1>6, <2>2, <3>3, <3>6
  <2> QED
    BY <2>4, <2>5
<1> QED
  BY <1>3, <1>4, <1>5, <1>6

\* flush after n lines: until writing fails, all are on standard output.
LEMMA FlushedSound ==
  ASSUME NEW n \in Nat, NEW o, Sound(o, n), NEW u \in Flushed(o)
  PROVE  /\ Sound(u, n)
         /\ ~u.stuck => ~o.stuck /\ Len(u.stdout) = n
<1>1. CASE o.err \/ o.stuck
  BY <1>1 DEF Flushed, Sound
<1>2. CASE ~(o.err \/ o.stuck)
  BY <1>2, WrittenOutSound DEF Flushed
<1> QED
  BY <1>1, <1>2

-----------------------------------------------------------------------------
(* The invariant. *)

LEMMA SaidSound ==
  ASSUME CommandInv, Say
  PROVE  /\ said' \in Seq(Nat) /\ Numbered(said', 0)
         /\ Len(said) \in Nat /\ Len(said') = Len(said) + 1
<1>1. said \in Seq(Nat) /\ Numbered(said, 0) /\ said' = Append(said, Len(said) + 1)
  BY DEF CommandInv, Say, NextLine
<1>2. /\ said' \in Seq(Nat) /\ Len(said) \in Nat /\ Len(said') = Len(said) + 1
      /\ \A i \in 1 .. Len(said) : said'[i] = said[i]
      /\ said'[Len(said) + 1] = Len(said) + 1
  BY <1>1
<1>3. ASSUME NEW i \in 1 .. Len(said) + 1
      PROVE  said'[i] = 0 + i
  <2>1. CASE i = Len(said) + 1
    BY <1>2, <2>1
  <2>2. CASE i # Len(said) + 1
    <3>1. i \in 1 .. Len(said)
      BY <1>2, <2>2
    <3> QED
      BY <1>1, <1>2, <3>1 DEF Numbered
  <2> QED
    BY <2>1, <2>2
<1> QED
  BY <1>2, <1>3 DEF Numbered

\* A line is printed, and no exit code is set.
LEMMA PrintStep ==
  ASSUME CommandInv, step # "exited", Say, out' \in Printed(out, NextLine),
         due' = due, exit' = exit, step' = step
  PROVE  CommandInv'
<1> DEFINE n == Len(said)
<1>1. /\ said' \in Seq(Nat) /\ Numbered(said', 0) /\ n \in Nat /\ Len(said') = n + 1
  BY SaidSound
<1>2. Sound(out, n) /\ out' \in Printed(out, n + 1)
  BY DEF CommandInv, NextLine
<1> HIDE DEF n
<1>3. /\ Sound(out', n + 1)
      /\ ~out'.stuck => ~out.stuck /\ Len(out.stdout) <= Len(out'.stdout)
  BY <1>1, <1>2, PrintedSound
<1>4. due \in Nat /\ (~out.stuck => due <= Len(out.stdout)) /\ exit = NoExit
  BY DEF CommandInv
<1>5. ASSUME ~out'.stuck
      PROVE  due <= Len(out'.stdout)
  <2> DEFINE p == Len(out.stdout)
             q == Len(out'.stdout)
  <2>1. out.stdout \in Seq(Nat) /\ out'.stdout \in Seq(Nat)
    BY <1>2, <1>3 DEF Sound, Writers
  <2>2. p \in Nat /\ q \in Nat
    BY <2>1
  <2>3. due <= p /\ p <= q
    BY <1>3, <1>4, <1>5
  <2> HIDE DEF p, q
  <2>4. due <= q
    BY <1>4, <2>2, <2>3
  <2> QED
    BY <2>4 DEF q
<1>6. exit' = NoExit /\ exit' # exitOK
  BY <1>4 DEF NoExit, exitOK
<1> QED
  BY <1>1, <1>3, <1>4, <1>5, <1>6 DEF CommandInv

\* No line is printed, and no exit code is set.
LEMMA QuietStep ==
  ASSUME CommandInv, step # "exited", step' # "exited",
         UNCHANGED <<out, said, due, exit>>
  PROVE  CommandInv'
BY DEF CommandInv, Sound, Writers, Numbered

LEMMA InitCommandInv == Init => CommandInv
<1> SUFFICES ASSUME Init
             PROVE  CommandInv
  OBVIOUS
<1>1. << >> \in Seq(Nat) /\ Len(<< >>) = 0 /\ \A k : Numbered(<< >>, k)
  BY DEF Numbered
<1>2. /\ out \in Writers /\ ~out.stuck /\ ~out.err
      /\ out.stdout = << >> /\ out.buffer = << >>
  BY <1>1 DEF Init, Writers
<1>3. Sound(out, 0)
  BY <1>1, <1>2 DEF Sound
<1>4. NoExit # exitOK
  BY DEF NoExit, exitOK
<1> QED
  BY <1>1, <1>2, <1>3, <1>4 DEF Init, CommandInv

LEMMA NextCommandInv == CommandInv /\ [Next]_vars => CommandInv'
<1> SUFFICES ASSUME CommandInv, [Next]_vars
             PROVE  CommandInv'
  OBVIOUS
<1> DEFINE n == Len(said)
<1>a. /\ said \in Seq(Nat) /\ Numbered(said, 0) /\ Sound(out, n) /\ due \in Nat
      /\ step # "exited" => exit = NoExit
  BY DEF CommandInv
<1>b. n \in Nat
  BY <1>a
<1> HIDE DEF n
<1>1. CASE ReadChunk
  BY <1>1, QuietStep DEF ReadChunk
<1>2. CASE EndOfInput
  BY <1>2, QuietStep DEF EndOfInput
<1>3. CASE SourceFails
  BY <1>3, QuietStep DEF SourceFails
<1>4. CASE PrintProbability
  BY <1>4, PrintStep DEF PrintProbability
<1>5. CASE \E blocked \in BOOLEAN : FindEvent(blocked)
  BY <1>5, QuietStep DEF FindEvent
<1>6. CASE FeedReturns
  BY <1>6, QuietStep DEF FeedReturns
<1>7. CASE FeedFails
  BY <1>7, QuietStep DEF FeedFails
<1>8. CASE Report
  <2>1. CASE Head(events) /\ ~verbose
    BY <1>8, <2>1, QuietStep DEF Report
  <2>2. CASE ~(Head(events) /\ ~verbose)
    <3>1. /\ Say /\ due' = n + 1 /\ exit' = exit /\ step' = step /\ step # "exited"
      BY <1>8, <2>2 DEF Report, NextLine, n
    <3>2. PICK o \in Printed(out, n + 1) : out' \in Flushed(o)
      BY <1>8, <2>2 DEF Report, NextLine, n
    <3>3. Sound(o, n + 1)
      BY <1>a, <1>b, PrintedSound
    <3>4. n + 1 \in Nat
      BY <1>b
    <3>5. Sound(out', n + 1) /\ (~out'.stuck => Len(out'.stdout) = n + 1)
      BY <3>2, <3>3, <3>4, FlushedSound
    <3>6. /\ said' \in Seq(Nat) /\ Numbered(said', 0) /\ Len(said') = n + 1
      BY <3>1, SaidSound DEF n
    <3>7. due' \in Nat /\ due' <= n + 1
      BY <3>1, <1>b
    <3>8. exit' = NoExit /\ exit' # exitOK
      BY <1>a, <3>1 DEF NoExit, exitOK
    <3> QED
      BY <3>5, <3>6, <3>7, <3>8 DEF CommandInv
  <2> QED
    BY <2>1, <2>2
<1>9. CASE ChunkReported
  BY <1>9, QuietStep DEF ChunkReported
<1>10. CASE PrintFrame
  BY <1>10, PrintStep DEF PrintFrame
<1>11. CASE ChunkPrinted
  BY <1>11, QuietStep DEF ChunkPrinted
<1>12. CASE Finish
  <2>1. said' = said /\ due' = due /\ step' = "exited" /\ step # "exited"
    BY <1>12 DEF Finish
  <2>2. CASE err = "none"
    <3>1. /\ out' \in Flushed(out)
          /\ exit' = exitOK => ~FlushFailed(out')
      BY <1>12, <2>2 DEF Finish, exitOK, exitRuntime
    <3>2. Sound(out', n) /\ (~out'.stuck => Len(out'.stdout) = n)
      BY <1>a, <1>b, <3>1, FlushedSound
    <3>3. ~out'.stuck => due <= n
      <4> SUFFICES ASSUME ~out'.stuck
                   PROVE  due <= n
        OBVIOUS
      <4>1. ~out.stuck
        BY <1>a, <1>b, <3>1, FlushedSound
      <4> DEFINE p == Len(out.stdout)
      <4>2. due <= p /\ p <= n
        BY <1>a, <4>1 DEF CommandInv, Sound
      <4>3. out.stdout \in Seq(Nat)
        BY <1>a DEF Sound, Writers
      <4>4. p \in Nat
        BY <4>3
      <4> HIDE DEF p
      <4> QED
        BY <1>a, <1>b, <4>2, <4>4
    <3>4. exit' = exitOK => ~out'.stuck
      BY <3>1 DEF FlushFailed
    <3>5. ~out'.stuck => due' <= Len(out'.stdout)
      BY <2>1, <3>2, <3>3
    <3>6. exit' = exitOK => ~out'.stuck /\ Len(out'.stdout) = Len(said')
      BY <2>1, <3>2, <3>4 DEF n
    <3>7. Sound(out', Len(said'))
      BY <2>1, <3>2 DEF n
    <3> QED
      BY <1>a, <2>1, <3>5, <3>6, <3>7 DEF CommandInv
  <2>3. CASE err # "none"
    <3>1. out' = out /\ exit' # exitOK
      BY <1>12, <2>3 DEF Finish, exitOK, exitRuntime
    <3> QED
      BY <2>1, <3>1 DEF CommandInv, Sound, Writers, Numbered
  <2> QED
    BY <2>2, <2>3
<1>13. CASE UNCHANGED vars
  BY <1>13 DEF vars, CommandInv, Sound, Writers, Numbered
<1> QED
  BY <1>1, <1>2, <1>3, <1>4, <1>5, <1>6, <1>7, <1>8, <1>9, <1>10, <1>11, <1>12, <1>13
  DEF Next

LEMMA AlwaysCommandInv == Spec => []CommandInv
BY InitCommandInv, NextCommandInv, PTL DEF Spec

-----------------------------------------------------------------------------
(* What it gives. *)

\* Lines that were written out are those printed, in their order.
LEMMA WrittenIsSaid ==
  ASSUME CommandInv
  PROVE  /\ out.stdout \in Seq(Nat) /\ said \in Seq(Nat)
         /\ Len(out.stdout) <= Len(said)
         /\ \A i \in 1 .. Len(out.stdout) : out.stdout[i] = said[i]
<1>1. /\ out.stdout \in Seq(Nat) /\ said \in Seq(Nat)
      /\ Numbered(out.stdout, 0) /\ Numbered(said, 0)
      /\ Len(out.stdout) <= Len(said)
  BY DEF CommandInv, Sound, Writers
<1>2. ASSUME NEW i \in 1 .. Len(out.stdout)
      PROVE  out.stdout[i] = said[i]
  <2>1. i \in 1 .. Len(said)
    BY <1>1
  <2> QED
    BY <1>1, <2>1 DEF Numbered
<1> QED
  BY <1>1, <1>2

\* Standard output is always a beginning of what was printed: whatever fails and
\* wherever the buffer is cut, no line is skipped, repeated or overtaken
\* (outWriter, cmd/wakeword/main.go).
THEOREM AlwaysDeliveredInOrder == Spec => []DeliveredInOrder
<1>1. CommandInv => DeliveredInOrder
  <2> SUFFICES ASSUME CommandInv
               PROVE  IsPrefix(out.stdout, said)
    BY DEF DeliveredInOrder
  <2> DEFINE o == out.stdout
  <2>1. /\ o \in Seq(Nat) /\ said \in Seq(Nat) /\ Len(o) <= Len(said)
        /\ \A i \in 1 .. Len(o) : o[i] = said[i]
    BY WrittenIsSaid
  <2> HIDE DEF o
  <2>2. SubSeq(o, 1, Len(o)) = SubSeq(said, 1, Len(o))
    BY <2>1
  <2> QED
    BY <2>1, <2>2 DEF IsPrefix, o
<1> QED
  BY <1>1, AlwaysCommandInv, PTL

\* Unless writing has failed, the command does not wait for input while the
\* buffer holds back an event that it has reported (report, main.go).
THEOREM AlwaysEventsDelivered == Spec => []EventsDelivered
<1>1. CommandInv => EventsDelivered
  <2> SUFFICES ASSUME CommandInv, ~out.stuck
               PROVE  Len(out.stdout) >= due
    BY DEF EventsDelivered
  <2> DEFINE p == Len(out.stdout)
  <2>1. out.stdout \in Seq(Nat) /\ due \in Nat /\ due <= p
    BY DEF CommandInv, Sound, Writers
  <2>2. p \in Nat
    BY <2>1
  <2> HIDE DEF p
  <2>3. p >= due
    BY <2>1, <2>2
  <2> QED
    BY <2>3 DEF p
<1> QED
  BY <1>1, AlwaysCommandInv, PTL

\* Exit code 0 means that every line reached standard output, whichever of the
\* two errors a failed write was kept in (flush and run, main.go).
THEOREM AlwaysSuccessIsComplete == Spec => []SuccessIsComplete
<1>1. CommandInv => SuccessIsComplete
  <2> SUFFICES ASSUME CommandInv, exit = exitOK
               PROVE  out.stdout = said
    BY DEF SuccessIsComplete
  <2> DEFINE o == out.stdout
  <2>1. /\ o \in Seq(Nat) /\ said \in Seq(Nat)
        /\ \A i \in 1 .. Len(o) : o[i] = said[i]
    BY WrittenIsSaid
  <2>2. Len(o) = Len(said)
    BY DEF CommandInv
  <2> HIDE DEF o
  <2>3. o = said
    BY <2>1, <2>2
  <2> QED
    BY <2>3 DEF o
<1> QED
  BY <1>1, AlwaysCommandInv, PTL

=============================================================================
