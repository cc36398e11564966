------------------------------- MODULE Command ------------------------------
(***************************************************************************)
(* The wakeword command (cmd/wakeword/main.go): runDetect, runFeatures and *)
(* replayFeatures, the source they read from, and outWriter, the buffered  *)
(* standard output that keeps its first error.                             *)
(*                                                                         *)
(* Output is counted in lines.  The detector and the frontend are the      *)
(* environment: from a chunk of the source come any outputs and events,    *)
(* and possibly an error.  Usage errors and a detector that cannot be      *)
(* built are left out: the command then exits before it reads anything.    *)
(***************************************************************************)
EXTENDS Integers, Sequences, SequencesExt

CONSTANTS
  Cap,         \* lines that the bufio.Writer holds
  MaxLines,    \* bound: lines that a run prints
  MaxEvents    \* bound: events of one chunk

ASSUME CommandAssumption ==
  Cap \in Nat \ {0} /\ MaxLines \in Nat /\ MaxEvents \in Nat

VARIABLES
  mode,        \* "detect", "replay" (detect --features) or "features"
  verbose,     \* --verbose
  step,        \* "reading", "feeding", "reporting", "ending" or "exited"
  events,      \* events to report, in order: blocked or not
  err,         \* what ended the run: "none", "source", "detector", "output"
  out,         \* outWriter: the lines in the bufio.Writer, whether that is
               \* stuck with an error, outWriter.err, and the lines that reached
               \* standard output
  exit,        \* exit code, NoExit before the end
  said,        \* history: the lines given to printf
  due          \* history: how many were when the last event was reported

vars == <<mode, verbose, step, events, err, out, exit, said, due>>

NoExit == -1
exitOK == 0
exitRuntime == 2

Init ==
  /\ mode \in {"detect", "replay", "features"}
  /\ verbose \in BOOLEAN
  /\ step = "reading"
  /\ events = << >>
  /\ err = "none"
  /\ out = [buffer |-> << >>, stuck |-> FALSE, err |-> FALSE, stdout |-> << >>]
  /\ exit = NoExit
  /\ said = << >> /\ due = 0

-----------------------------------------------------------------------------
(* outWriter: the states each call may leave it in. *)

\* The buffer is written out, or only its first k lines are before an error;
\* the bufio.Writer keeps the others, and the error.
WrittenOut(o) ==
  {[o EXCEPT !.buffer = << >>, !.stdout = @ \o o.buffer]} \cup
  {[o EXCEPT !.buffer = SubSeq(@, k + 1, Len(@)),
             !.stdout = @ \o SubSeq(o.buffer, 1, k),
             !.stuck  = TRUE] : k \in 0 .. Len(o.buffer) - 1}

\* Mutant: printf forgets its error.
PrintedUnchecked(o, line) ==
  IF o.stuck THEN {o}
  ELSE IF Len(o.buffer) < Cap THEN {[o EXCEPT !.buffer = Append(@, line)]}
  ELSE {[u EXCEPT !.buffer = <<line>>, !.stuck = FALSE] : u \in WrittenOut(o)}

Printed(o, line) ==
  IF o.err THEN {o}
  ELSE IF o.stuck THEN {[o EXCEPT !.err = TRUE]}
  ELSE IF Len(o.buffer) < Cap THEN {[o EXCEPT !.buffer = Append(@, line)]}
  ELSE {IF u.stuck THEN [u EXCEPT !.err = TRUE]
                   ELSE [u EXCEPT !.buffer = <<line>>] : u \in WrittenOut(o)}

\* flush does not keep its error in outWriter.err; the bufio.Writer does.
Flushed(o) == IF o.err \/ o.stuck THEN {o} ELSE WrittenOut(o)

FlushFailed(o) == o.err \/ o.stuck

NextLine == Len(said) + 1

Say ==
  /\ NextLine <= MaxLines
  /\ said' = Append(said, NextLine)

-----------------------------------------------------------------------------
(* The source. *)

ReadChunk ==
  /\ step = "reading"
  /\ step' = "feeding"
  /\ UNCHANGED <<mode, verbose, events, err, out, exit, said, due>>

EndOfInput ==
  /\ step = "reading"
  /\ step' = "ending"
  /\ UNCHANGED <<mode, verbose, events, err, out, exit, said, due>>

\* Reading standard input fails.  A WAV file and a recording are read whole
\* before the first chunk is handed out.
SourceFails ==
  /\ step = "reading" /\ mode # "replay"
  /\ step' = "ending"
  /\ err' = "source"
  /\ UNCHANGED <<mode, verbose, events, out, exit, said, due>>

-----------------------------------------------------------------------------
(* detect: one call of Feed or FeedFeatures. *)

\* onProb prints an output as the detector computes it: in a call of Feed also
\* after an event of an earlier frame, which is reported when Feed has returned.
PrintProbability ==
  /\ step = "feeding" /\ mode # "features"
  /\ mode = "replay" => events = << >>
  /\ Say
  /\ out' \in Printed(out, NextLine)
  /\ UNCHANGED <<mode, verbose, step, events, err, exit, due>>

\* FeedFeatures returns one event at most, Feed one for each of its frames.
FindEvent(blocked) ==
  /\ step = "feeding" /\ mode # "features"
  /\ Len(events) < IF mode = "replay" THEN 1 ELSE MaxEvents
  /\ events' = Append(events, blocked)
  /\ UNCHANGED <<mode, verbose, step, err, out, exit, said, due>>

FeedReturns ==
  /\ step = "feeding" /\ mode # "features"
  /\ step' = "reporting"
  /\ UNCHANGED <<mode, verbose, events, err, out, exit, said, due>>

\* Feed returns an error with the events before it, FeedFeatures without any.
FeedFails ==
  /\ step = "feeding" /\ mode # "features"
  /\ mode = "replay" => events = << >>
  /\ step' = "reporting"
  /\ err' = "detector"
  /\ UNCHANGED <<mode, verbose, events, out, exit, said, due>>

\* Mutant: the report waits in the buffer.
ReportUnflushed ==
  /\ step = "reporting" /\ events # << >>
  /\ events' = Tail(events)
  /\ IF Head(events) /\ ~verbose
       THEN UNCHANGED <<out, said, due>>
       ELSE /\ Say
            /\ out' \in Printed(out, NextLine)
            /\ due' = NextLine
  /\ UNCHANGED <<mode, verbose, step, err, exit>>

\* report: a failure to flush is a warning, and the command goes on.
Report ==
  /\ step = "reporting" /\ events # << >>
  /\ events' = Tail(events)
  /\ IF Head(events) /\ ~verbose
       THEN UNCHANGED <<out, said, due>>
       ELSE /\ Say
            /\ \E o \in Printed(out, NextLine) : out' \in Flushed(o)
            /\ due' = NextLine
  /\ UNCHANGED <<mode, verbose, step, err, exit>>

ChunkReported ==
  /\ step = "reporting" /\ events = << >>
  /\ step' = IF err = "none" THEN "reading" ELSE "ending"
  /\ UNCHANGED <<mode, verbose, events, err, out, exit, said, due>>

-----------------------------------------------------------------------------
(* features: the frames of a chunk, and out.err looked at after it. *)

PrintFrame ==
  /\ step = "feeding" /\ mode = "features"
  /\ Say
  /\ out' \in Printed(out, NextLine)
  /\ UNCHANGED <<mode, verbose, step, events, err, exit, due>>

ChunkPrinted ==
  /\ step = "feeding" /\ mode = "features"
  /\ step' = IF out.err THEN "ending" ELSE "reading"
  /\ err' = IF out.err THEN "output" ELSE err
  /\ UNCHANGED <<mode, verbose, events, out, exit, said, due>>

-----------------------------------------------------------------------------
\* Mutant: flush is called for nothing but the lines.
FinishUnchecked ==
  /\ step = "ending"
  /\ step' = "exited"
  /\ IF err = "none" THEN out' \in Flushed(out) ELSE UNCHANGED out
  /\ exit' = IF err = "none" THEN exitOK ELSE exitRuntime
  /\ UNCHANGED <<mode, verbose, events, err, said, due>>

\* The last flush, unless the run has failed, and the exit code.
Finish ==
  /\ step = "ending"
  /\ step' = "exited"
  /\ IF err = "none"
       THEN /\ out' \in Flushed(out)
            /\ err' = IF FlushFailed(out') THEN "output" ELSE "none"
       ELSE UNCHANGED <<out, err>>
  /\ exit' = IF err' = "none" THEN exitOK ELSE exitRuntime
  /\ UNCHANGED <<mode, verbose, events, said, due>>

Next ==
  \/ ReadChunk
  \/ EndOfInput
  \/ SourceFails
  \/ PrintProbability
  \/ \E blocked \in BOOLEAN : FindEvent(blocked)
  \/ FeedReturns
  \/ FeedFails
  \/ Report
  \/ ChunkReported
  \/ PrintFrame
  \/ ChunkPrinted
  \/ Finish

Spec == Init /\ [][Next]_vars

-----------------------------------------------------------------------------
\* Whatever fails, standard output holds the first of the lines that were
\* printed: none is skipped, repeated or overtaken by a later one, even when
\* the command goes on after a failed flush.
DeliveredInOrder == IsPrefix(out.stdout, said)

\* "Events are rare, deliver them as they happen": unless writing has failed,
\* the command does not wait for more input while it holds back an event.
EventsDelivered ==
  step = "reading" /\ ~out.stuck => Len(out.stdout) >= due

\* Exit code 0 means that every line reached standard output, so a write error
\* in the middle of the run that was only warned about is still told.
SuccessIsComplete == exit = exitOK => out.stdout = said

\* detect --probabilities prints "the raw model output after every invocation":
\* if no write failed, detect does not end with lines it never wrote.
AllPrinted ==
  mode = "detect" /\ step = "exited" /\ ~out.stuck => out.stdout = said
=============================================================================
