------------------------------- MODULE Evaluate -----------------------------
(***************************************************************************)
(* evaluate and detectTimes (cmd/wakeword-eval/main.go): the jobs that     *)
(* parallel runs.  A job takes a detector from a sync.Pool, resets it,     *)
(* feeds it the preroll and one file, adds its findings to the shared      *)
(* result under a mutex, and gives the detector back.                      *)
(*                                                                         *)
(* The result is one counter, of the files that count for the wake word,   *)
(* which a job loads and stores in two steps as r.posTotal++ does.  What a *)
(* detector has heard since its last complete Reset is the set of files it *)
(* was fed from.                                                           *)
(***************************************************************************)
EXTENDS Parallel

CONSTANTS
  Counted,      \* the jobs whose file counts for the wake word
  Detectors,    \* detectors that may exist at a time
  NoDetector,
  Free          \* the mutex is not held

ASSUME CountedAssumption == Counted \subseteq Indexes

ASSUME NilAssumption == NoDetector \notin Detectors /\ Free \notin Workers

VARIABLES
  phase,     \* what a goroutine that runs a job is about to do
  holds,     \* the detector it took from the pool
  heard,     \* the files a detector heard since its last complete Reset
  pool,      \* the detectors in the sync.Pool
  mutex,     \* who holds mu
  total,     \* the shared counter
  loaded,    \* what a goroutine loaded of it
  alone      \* history: the jobs judged by a detector that heard only them

evalVars == <<parVars, phase, holds, heard, pool, mutex, total, loaded, alone>>
fnVars == <<phase, holds, heard, pool, mutex, total, loaded, alone>>

EvalInit ==
  /\ ParInit
  /\ phase = [w \in Workers |-> "none"]
  /\ holds = [w \in Workers |-> NoDetector]
  /\ heard = [d \in Detectors |-> {}]
  /\ pool = {}
  /\ mutex = Free
  /\ total = 0
  /\ loaded = [w \in Workers |-> 0]
  /\ alone = {}

Goes(w, from, to) == phase[w] = from /\ phase' = [phase EXCEPT ![w] = to]

-----------------------------------------------------------------------------
Start(w) ==
  /\ HandOut(w)
  /\ Goes(w, "none", "get")
  /\ UNCHANGED <<holds, heard, pool, mutex, total, loaded, alone>>

\* Mutant: the detector is still in the pool while it is used.
GetShared(w) ==
  /\ Goes(w, "get", "reset")
  /\ \E d \in pool : holds' = [holds EXCEPT ![w] = d]
  /\ UNCHANGED <<parVars, heard, pool, mutex, total, loaded, alone>>

\* pool.Get hands out an idle detector ...
GetPooled(w) ==
  /\ Goes(w, "get", "reset")
  /\ \E d \in pool : holds' = [holds EXCEPT ![w] = d] /\ pool' = pool \ {d}
  /\ UNCHANGED <<parVars, heard, mutex, total, loaded, alone>>

\* ... or calls New, which a sync.Pool may do at any time.
GetNew(w) ==
  /\ Goes(w, "get", "reset")
  /\ \E d \in Detectors \ (pool \cup {holds[v] : v \in Workers}) :
       /\ holds' = [holds EXCEPT ![w] = d]
       /\ heard' = [heard EXCEPT ![d] = {}]
  /\ UNCHANGED <<parVars, pool, mutex, total, loaded, alone>>

\* New returned an error: the job fails before it defers the Put.
NewFails(w) ==
  /\ Goes(w, "get", "none")
  /\ JobFails(w)
  /\ UNCHANGED <<holds, heard, pool, mutex, total, loaded, alone>>

\* Mutant: the detector is not reset between files.
ResetForgotten(w) ==
  /\ Goes(w, "reset", "feed")
  /\ UNCHANGED <<parVars, holds, heard, pool, mutex, total, loaded, alone>>

ResetDetector(w) ==
  /\ Goes(w, "reset", "feed")
  /\ heard' = [heard EXCEPT ![holds[w]] = {}]
  /\ UNCHANGED <<parVars, holds, pool, mutex, total, loaded, alone>>

ResetFails(w) ==
  /\ Goes(w, "reset", "put failed")
  /\ UNCHANGED <<parVars, holds, heard, pool, mutex, total, loaded, alone>>

FeedFile(w) ==
  /\ Goes(w, "feed", "lock")
  /\ heard' = [heard EXCEPT ![holds[w]] = @ \cup {job[w]}]
  /\ alone' = IF heard'[holds[w]] = {job[w]} THEN alone \cup {job[w]} ELSE alone
  /\ UNCHANGED <<parVars, holds, pool, mutex, total, loaded>>

FeedFails(w) ==
  /\ Goes(w, "feed", "put failed")
  /\ heard' = [heard EXCEPT ![holds[w]] = @ \cup {job[w]}]
  /\ UNCHANGED <<parVars, holds, pool, mutex, total, loaded, alone>>

\* Mutant: nobody waits for the mutex.
LockForgotten(w) ==
  /\ Goes(w, "lock", "load")
  /\ mutex' = w
  /\ UNCHANGED <<parVars, holds, heard, pool, total, loaded, alone>>

Lock(w) ==
  /\ Goes(w, "lock", "load")
  /\ mutex = Free
  /\ mutex' = w
  /\ UNCHANGED <<parVars, holds, heard, pool, total, loaded, alone>>

\* An embedded or positive file of another word: return nil.
Skip(w) ==
  /\ Goes(w, "load", "unlock")
  /\ job[w] \notin Counted
  /\ UNCHANGED <<parVars, holds, heard, pool, mutex, total, loaded, alone>>

Load(w) ==
  /\ Goes(w, "load", "store")
  /\ job[w] \in Counted
  /\ loaded' = [loaded EXCEPT ![w] = total]
  /\ UNCHANGED <<parVars, holds, heard, pool, mutex, total, alone>>

Store(w) ==
  /\ Goes(w, "store", "unlock")
  /\ total' = loaded[w] + 1
  /\ UNCHANGED <<parVars, holds, heard, pool, mutex, loaded, alone>>

\* Mutant: the mutex is kept.
UnlockForgotten(w) ==
  /\ Goes(w, "unlock", "put")
  /\ UNCHANGED <<parVars, holds, heard, pool, mutex, total, loaded, alone>>

\* The deferred calls run last in, first out: Unlock, then Put.
Unlock(w) ==
  /\ Goes(w, "unlock", "put")
  /\ mutex' = Free
  /\ UNCHANGED <<parVars, holds, heard, pool, total, loaded, alone>>

PutBack(w) ==
  /\ pool' = pool \cup {holds[w]}
  /\ holds' = [holds EXCEPT ![w] = NoDetector]

PutAndEnd(w) ==
  /\ Goes(w, "put", "none")
  /\ PutBack(w)
  /\ JobEnds(w)
  /\ UNCHANGED <<heard, mutex, total, loaded, alone>>

PutAndFail(w) ==
  /\ Goes(w, "put failed", "none")
  /\ PutBack(w)
  /\ JobFails(w)
  /\ UNCHANGED <<heard, mutex, total, loaded, alone>>

\* The garbage collector empties pools.
Collect ==
  /\ \E d \in pool : pool' = pool \ {d}
  /\ UNCHANGED <<parVars, phase, holds, heard, mutex, total, loaded, alone>>

-----------------------------------------------------------------------------
RunJob(w) ==
  \/ GetPooled(w) \/ GetNew(w) \/ NewFails(w)
  \/ ResetDetector(w) \/ ResetFails(w)
  \/ FeedFile(w) \/ FeedFails(w)
  \/ Lock(w) \/ Skip(w) \/ Load(w) \/ Store(w) \/ Unlock(w)
  \/ PutAndEnd(w) \/ PutAndFail(w)

Leaves(w) == (SendError(w) \/ NoMoreJobs(w)) /\ UNCHANGED fnVars

EvalNext ==
  \/ Feeder /\ UNCHANGED fnVars
  \/ \E w \in Workers : \/ Start(w)
                        \/ RunJob(w)
                        \/ Leaves(w)
  \/ Collect

EvalSpec == EvalInit /\ [][EvalNext]_evalVars

\* The scheduler is fair to the feeder and to every goroutine; a mutex is
\* handed to every goroutine that waits for it (Go's starvation mode).
EvalFairSpec ==
  /\ EvalSpec
  /\ WF_evalVars((Feeder /\ UNCHANGED fnVars) \/ \E w \in Workers : Start(w))
  /\ \A w \in Workers :
       /\ WF_evalVars(RunJob(w) \/ Leaves(w))
       /\ SF_evalVars(Lock(w))

-----------------------------------------------------------------------------
\* A detector, which "is not safe for concurrent use", is held by one
\* goroutine, and is not in the pool at the same time.
OneUserPerDetector ==
  \A w \in Workers : holds[w] # NoDetector =>
    /\ holds[w] \notin pool
    /\ \A v \in Workers : holds[v] = holds[w] => v = w

\* Every file that counts was judged by a detector that had heard nothing but
\* the preroll and that file, although detectors go from file to file, also
\* after a file on which they failed.
JudgedAlone == ran \subseteq alone

\* The shared result counts every file that ended well and counts for the word
\* once: no update is lost between the goroutines.
NothingUncounted ==
  feeder = "returned" => total = Cardinality(ran \cap Counted)

\* evaluate returns, whatever fails.
EvaluateReturns == <>(feeder = "returned")
=============================================================================
