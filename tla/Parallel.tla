------------------------------- MODULE Parallel -----------------------------
(***************************************************************************)
(* parallel (cmd/wakeword-eval/main.go): n jobs run by a few goroutines    *)
(* that receive job numbers from an unbuffered channel.  A goroutine whose *)
(* job fails sends the error to a buffered channel and ends; the feeder,   *)
(* which selects between handing out the next job and receiving an error,  *)
(* then stops handing out.  It closes the job channel, waits for the       *)
(* goroutines, and joins the errors that are left.                         *)
(*                                                                         *)
(* An error is the number of the job that failed.  The step numbers of the *)
(* goroutines are named after what they are about to do.                   *)
(***************************************************************************)
EXTENDS Integers, Sequences, FiniteSets

CONSTANTS
  Jobs,    \* the jobs argument
  N        \* number of jobs to run

ASSUME ParallelAssumption == Jobs \in Int /\ N \in Nat

Goroutines == IF Jobs < 1 THEN 1 ELSE Jobs
Workers    == 1 .. Goroutines
Indexes    == 0 .. N - 1

\* errs := make(chan error, jobs)
ErrsCap == Goroutines

NoJob == -1

VARIABLES
  next,     \* the index the feeder offers next
  feeder,   \* "feeding", "closing", "waiting", "joining" or "returned"
  worker,   \* "receiving", "running", "sending" or "done"
  job,      \* the job a worker runs or has failed
  errs,     \* the buffered channel of errors
  first,    \* the errors joined so far: the value parallel returns
  ran,      \* history: the jobs that ended well
  failed    \* history: the jobs that failed

parVars == <<next, feeder, worker, job, errs, first, ran, failed>>

ParInit ==
  /\ next = 0
  /\ feeder = "feeding"
  /\ worker = [w \in Workers |-> "receiving"]
  /\ job = [w \in Workers |-> NoJob]
  /\ errs = << >>
  /\ first = {}
  /\ ran = {} /\ failed = {}

-----------------------------------------------------------------------------
(* The feeder. *)

\* Mutant: the same index is offered again.
HandOutAgain(w) ==
  /\ feeder = "feeding" /\ next < N
  /\ worker[w] = "receiving"
  /\ worker' = [worker EXCEPT ![w] = "running"]
  /\ job' = [job EXCEPT ![w] = next]
  /\ next' \in {next, next + 1}
  /\ UNCHANGED <<feeder, errs, first, ran, failed>>

\* The select took the send: worker w receives the index.
HandOut(w) ==
  /\ feeder = "feeding" /\ next < N
  /\ worker[w] = "receiving"
  /\ worker' = [worker EXCEPT ![w] = "running"]
  /\ job' = [job EXCEPT ![w] = next]
  /\ next' = next + 1
  /\ UNCHANGED <<feeder, errs, first, ran, failed>>

\* The select took the receive: break loop.
HearError ==
  /\ feeder = "feeding" /\ next < N
  /\ errs # << >>
  /\ first' = {Head(errs)}
  /\ errs' = Tail(errs)
  /\ feeder' = "closing"
  /\ UNCHANGED <<next, worker, job, ran, failed>>

AllHandedOut ==
  /\ feeder = "feeding" /\ next = N
  /\ feeder' = "closing"
  /\ UNCHANGED <<next, worker, job, errs, first, ran, failed>>

CloseIndexes ==
  /\ feeder = "closing"
  /\ feeder' = "waiting"
  /\ UNCHANGED <<next, worker, job, errs, first, ran, failed>>

\* wg.Wait returns and errs is closed.
WaitEnds ==
  /\ feeder = "waiting"
  /\ \A w \in Workers : worker[w] = "done"
  /\ feeder' = "joining"
  /\ UNCHANGED <<next, worker, job, errs, first, ran, failed>>

\* Mutant: the errors left in the channel are dropped.
FirstErrorOnly ==
  /\ feeder = "joining"
  /\ feeder' = "returned"
  /\ errs' = << >>
  /\ UNCHANGED <<next, worker, job, first, ran, failed>>

JoinErrors ==
  /\ feeder = "joining"
  /\ first' = first \cup {errs[k] : k \in 1 .. Len(errs)}
  /\ errs' = << >>
  /\ feeder' = "returned"
  /\ UNCHANGED <<next, worker, job, ran, failed>>

-----------------------------------------------------------------------------
(* A goroutine. *)

JobEnds(w) ==
  /\ worker[w] = "running"
  /\ worker' = [worker EXCEPT ![w] = "receiving"]
  /\ ran' = ran \cup {job[w]}
  /\ job' = [job EXCEPT ![w] = NoJob]
  /\ UNCHANGED <<next, feeder, errs, first, failed>>

JobFails(w) ==
  /\ worker[w] = "running"
  /\ worker' = [worker EXCEPT ![w] = "sending"]
  /\ failed' = failed \cup {job[w]}
  /\ UNCHANGED <<next, feeder, job, errs, first, ran>>

\* Mutant: the goroutine goes on after an error.
SendErrorAndGoOn(w) ==
  /\ worker[w] = "sending"
  /\ Len(errs) < ErrsCap
  /\ errs' = Append(errs, job[w])
  /\ worker' = [worker EXCEPT ![w] = "receiving"]
  /\ job' = [job EXCEPT ![w] = NoJob]
  /\ UNCHANGED <<next, feeder, first, ran, failed>>

SendError(w) ==
  /\ worker[w] = "sending"
  /\ Len(errs) < ErrsCap
  /\ errs' = Append(errs, job[w])
  /\ worker' = [worker EXCEPT ![w] = "done"]
  /\ job' = [job EXCEPT ![w] = NoJob]
  /\ UNCHANGED <<next, feeder, first, ran, failed>>

\* The range over the job channel ends once it is closed.
NoMoreJobs(w) ==
  /\ worker[w] = "receiving"
  /\ feeder \notin {"feeding", "closing"}
  /\ worker' = [worker EXCEPT ![w] = "done"]
  /\ UNCHANGED <<next, feeder, job, errs, first, ran, failed>>

-----------------------------------------------------------------------------
Feeder == HearError \/ AllHandedOut \/ CloseIndexes \/ WaitEnds \/ JoinErrors

ParNext ==
  \/ Feeder
  \/ \E w \in Workers : \/ HandOut(w)
                        \/ JobEnds(w)
                        \/ JobFails(w)
                        \/ SendError(w)
                        \/ NoMoreJobs(w)

ParSpec == ParInit /\ [][ParNext]_parVars

-----------------------------------------------------------------------------
\* Nobody can be kept from sending its error, although nobody may be receiving:
\* the feeder stops at the first error, and the buffer has room for all.
RoomForEveryError ==
  Len(errs) + Cardinality({w \in Workers : worker[w] \in {"running", "sending"}})
    <= ErrsCap

\* No index is run by two goroutines, run again, or skipped: what was handed
\* out is running, ended or failed.
EachJobOnce ==
  LET busy == {w \in Workers : worker[w] \in {"running", "sending"}}
  IN  /\ \A v, w \in busy : v # w => job[v] # job[w]
      /\ ran \cap failed = {}
      /\ {job[w] : w \in busy} \cap ran = {}
      /\ 0 .. next - 1 = ran \cup failed \cup {job[w] : w \in busy}

\* What parallel returns: every failure is in the error, and a nil error means
\* that every job was run and ended well.
ErrorTellsAll ==
  feeder = "returned" =>
    /\ first = failed
    /\ first = {} => ran = Indexes

=============================================================================
