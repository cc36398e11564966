---------------------------- MODULE EvaluateProofs --------------------------
(***************************************************************************)
(* What parallel promises about jobs and errors, for every number of jobs  *)
(* and of goroutines, and what evaluate promises about detectors and       *)
(* counts, for every number of files, goroutines and detectors.            *)
(***************************************************************************)
EXTENDS Evaluate, TLAPS, FiniteSetTheorems, SequenceTheorems

-----------------------------------------------------------------------------
(* Parallel. *)

Busy    == {w \in Workers : worker[w] \in {"running", "sending"}}
Unended == {w \in Workers : worker[w] # "done"}
Sending == {w \in Workers : worker[w] = "sending"}

JobsOf(ws)  == {job[w] : w \in ws}
Elements(s) == {s[k] : k \in 1 .. Len(s)}

ParType ==
  /\ next \in 0 .. N
  /\ feeder \in {"feeding", "closing", "waiting", "joining", "returned"}
  /\ worker \in [Workers -> {"receiving", "running", "sending", "done"}]
  /\ job \in [Workers -> Indexes \cup {NoJob}]
  /\ errs \in Seq(Indexes)
  /\ first \subseteq Indexes
  /\ ran \subseteq Indexes
  /\ failed \subseteq Indexes

\* A place in the buffer for whoever may still fail: a goroutine takes its own
\* for good when it sends, and gives it up when it ends.
Room == Len(errs) + Cardinality(Unended) <= ErrsCap

\* A running job has not failed yet, and a busy goroutine's has been handed out.
Apart ==
  /\ \A w \in Workers : worker[w] = "running" => job[w] \notin failed
  /\ \A w \in Busy : job[w] \in 0 .. next - 1

\* Where the failures are: joined, in the buffer, or about to be sent.  The
\* feeder stops early only with an error in its hands.
Told ==
  /\ failed = first \cup Elements(errs) \cup JobsOf(Sending)
  /\ feeder = "feeding" => first = {}
  /\ feeder # "feeding" /\ first = {} => next = N
  /\ feeder \in {"joining", "returned"} => \A w \in Workers : worker[w] = "done"
  /\ feeder = "returned" => errs = << >>

ParInv == ParType /\ Room /\ Apart /\ EachJobOnce /\ Told

-----------------------------------------------------------------------------
LEMMA GoroutinesAreMany ==
  Goroutines \in Nat \ {0} /\ IsFiniteSet(Workers) /\ Cardinality(Workers) = Goroutines
<1>1. Goroutines \in Nat \ {0}
  BY ParallelAssumption DEF Goroutines
<1> QED
  BY <1>1, FS_Interval DEF Workers

\* What is sent is added to the buffer's elements, ...
LEMMA SentElements ==
  ASSUME NEW s \in Seq(Indexes), NEW e \in Indexes
  PROVE  /\ Append(s, e) \in Seq(Indexes)
         /\ Len(Append(s, e)) = Len(s) + 1
         /\ Elements(Append(s, e)) = Elements(s) \cup {e}
<1>1. /\ Append(s, e) \in Seq(Indexes) /\ Len(Append(s, e)) = Len(s) + 1
      /\ \A k \in 1 .. Len(s) : Append(s, e)[k] = s[k]
      /\ Append(s, e)[Len(s) + 1] = e
  OBVIOUS
<1>2. Len(s) \in Nat
  OBVIOUS
<1>3. 1 .. Len(s) + 1 = 1 .. Len(s) \cup {Len(s) + 1}
  BY <1>2
<1> QED
  BY <1>1, <1>3 DEF Elements

\* ... and what is received is taken from them, or was there twice.
LEMMA ReceivedElements ==
  ASSUME NEW s \in Seq(Indexes), s # << >>
  PROVE  /\ Head(s) \in Indexes
         /\ Tail(s) \in Seq(Indexes)
         /\ Len(Tail(s)) = Len(s) - 1
         /\ Elements(s) = {Head(s)} \cup Elements(Tail(s))
<1>1. /\ Tail(s) \in Seq(Indexes) /\ Len(Tail(s)) = Len(s) - 1
      /\ \A k \in 1 .. Len(s) - 1 : Tail(s)[k] = s[k + 1]
      /\ Head(s) = s[1] /\ Len(s) \in Nat /\ Len(s) >= 1
  OBVIOUS
<1>2. ASSUME NEW k \in 2 .. Len(s)
      PROVE  k - 1 \in 1 .. Len(s) - 1 /\ Tail(s)[k - 1] = s[k]
  BY <1>1
<1>3. Elements(s) \subseteq {Head(s)} \cup Elements(Tail(s))
  <2> SUFFICES ASSUME NEW k \in 1 .. Len(s)
               PROVE  s[k] = Head(s) \/ \E j \in 1 .. Len(Tail(s)) : s[k] = Tail(s)[j]
    BY DEF Elements
  <2>1. CASE k = 1
    BY <1>1, <2>1
  <2>2. CASE k # 1
    <3>1. k \in 2 .. Len(s)
      BY <1>1, <2>2
    <3> QED
      BY <1>1, <1>2, <3>1
  <2> QED
    BY <2>1, <2>2
<1>4. {Head(s)} \cup Elements(Tail(s)) \subseteq Elements(s)
  <2>1. Head(s) \in Elements(s)
    BY <1>1 DEF Elements
  <2>2. ASSUME NEW j \in 1 .. Len(Tail(s))
        PROVE  j + 1 \in 1 .. Len(s) /\ Tail(s)[j] = s[j + 1]
    BY <1>1
  <2> QED
    BY <2>1, <2>2 DEF Elements
<1>5. Head(s) \in Indexes
  BY <1>1
<1> QED
  BY <1>1, <1>3, <1>4, <1>5

\* The goroutines that have not ended are finitely many, and one fewer when one ends.
LEMMA UnendedCount ==
  /\ IsFiniteSet(Unended) /\ Cardinality(Unended) \in Nat
  /\ \A w \in Unended : Cardinality(Unended \ {w}) = Cardinality(Unended) - 1
<1>1. IsFiniteSet(Unended)
  BY GoroutinesAreMany, FS_Subset DEF Unended
<1> QED
  BY <1>1, FS_CardinalityType, FS_RemoveElement

-----------------------------------------------------------------------------
LEMMA ParInit_ParInv == ParInit => ParInv
<1> SUFFICES ASSUME ParInit PROVE ParInv
  OBVIOUS
<1> USE DEF ParInit
<1>1. ParType
  BY ParallelAssumption DEF ParType, Indexes, NoJob
<1>2. Room
  <2>1. Unended = Workers
    BY DEF Unended
  <2> QED
    BY <2>1, GoroutinesAreMany DEF Room, ErrsCap
<1>3. Busy = {} /\ Sending = {}
  BY DEF Busy, Sending
<1>4. Apart
  BY <1>3 DEF Apart
<1>5. EachJobOnce
  BY DEF EachJobOnce
<1>6. Told
  BY <1>3 DEF Told, Elements, JobsOf
<1> QED
  BY <1>1, <1>2, <1>4, <1>5, <1>6 DEF ParInv

-----------------------------------------------------------------------------
(* One lemma per kind of step.  Busy goroutines, and what they run, are      *)
(* disturbed by a goroutine's own step alone.                                *)

\* A step that leaves the goroutines and their jobs alone.
LEMMA SameGoroutines ==
  ASSUME UNCHANGED <<worker, job>>
  PROVE  /\ Busy' = Busy /\ Unended' = Unended /\ Sending' = Sending
         /\ JobsOf(Sending)' = JobsOf(Sending)
BY DEF Busy, Unended, Sending, JobsOf

LEMMA HandOut_ParInv ==
  ASSUME ParInv, NEW w \in Workers, HandOut(w)
  PROVE  ParInv'
<1> USE DEF ParInv, HandOut
<1>1. ParType'
  BY ParallelAssumption DEF ParType, Indexes
<1>2. Busy' = Busy \cup {w} /\ w \notin Busy /\ Unended' = Unended /\ Sending' = Sending
      /\ w \notin Sending
  BY DEF ParType, Busy, Unended, Sending
<1>3. Room'
  BY <1>2 DEF Room
<1>4. job'[w] = next /\ \A v \in Workers : v # w => job'[v] = job[v]
  BY DEF ParType
<1>5. next \in Nat /\ next' = next + 1 /\ next \notin 0 .. next - 1
      /\ 0 .. next' - 1 = 0 .. next - 1 \cup {next}
  BY ParallelAssumption DEF ParType
<1>6. 0 .. next - 1 = ran \cup failed \cup {job[v] : v \in Busy}
  BY DEF EachJobOnce, Busy
<1>7. Apart'
  <2>1. ASSUME NEW v \in Workers, worker'[v] = "running"
        PROVE  job'[v] \notin failed'
    BY <1>4, <1>5, <1>6, <2>1 DEF Apart, ParType
  <2>2. ASSUME NEW v \in Busy'
        PROVE  job'[v] \in 0 .. next' - 1
    BY <1>2, <1>4, <1>5, <2>2 DEF Apart, Busy
  <2> QED
    BY <2>1, <2>2 DEF Apart
<1>8. EachJobOnce'
  <2>1. \A u, v \in Busy' : u # v => job'[u] # job'[v]
    BY <1>2, <1>4, <1>5 DEF EachJobOnce, Busy, Apart
  <2>2. {job'[v] : v \in Busy'} = {job[v] : v \in Busy} \cup {next}
    BY <1>2, <1>4 DEF Busy
  <2>3. {job[v] : v \in Busy} \cap ran = {} /\ ran \cap failed = {}
    BY DEF EachJobOnce, Busy
  <2>4. {job'[v] : v \in Busy'} \cap ran' = {}
    BY <1>5, <1>6, <2>2, <2>3
  <2>5. 0 .. next' - 1 = ran' \cup failed' \cup {job'[v] : v \in Busy'}
    BY <1>5, <1>6, <2>2
  <2> QED
    BY <2>1, <2>3, <2>4, <2>5 DEF EachJobOnce, Busy
<1>9. Told'
  <2>1. JobsOf(Sending)' = JobsOf(Sending)
    BY <1>2, <1>4 DEF JobsOf, Sending
  <2> QED
    BY <2>1 DEF Told, Elements
<1> QED
  BY <1>1, <1>3, <1>7, <1>8, <1>9

LEMMA Feeder_ParInv ==
  ASSUME ParInv, Feeder
  PROVE  ParInv'
<1> USE DEF ParInv
<1>1. CASE HearError
  <2> USE <1>1 DEF HearError
  <2>1. /\ Head(errs) \in Indexes /\ errs' \in Seq(Indexes) /\ Len(errs') = Len(errs) - 1
        /\ Elements(errs) = {Head(errs)} \cup Elements(errs')
    BY ReceivedElements DEF ParType
  <2>2. ParType'
    BY <2>1 DEF ParType
  <2>3. Room'
    BY <2>1, SameGoroutines, UnendedCount, GoroutinesAreMany DEF Room, ErrsCap, ParType
  <2>4. Apart'
    BY SameGoroutines DEF Apart
  <2>5. EachJobOnce'
    BY DEF EachJobOnce
  <2>6. Told'
    <3>1. failed' = first' \cup Elements(errs)' \cup JobsOf(Sending)'
      BY <2>1, SameGoroutines DEF Told, Elements
    <3> QED
      BY <3>1 DEF Told
  <2> QED
    BY <2>2, <2>3, <2>4, <2>5, <2>6
<1>2. CASE AllHandedOut \/ CloseIndexes \/ WaitEnds
  <2> USE <1>2 DEF AllHandedOut, CloseIndexes, WaitEnds
  <2>1. ParType'
    BY DEF ParType
  <2>2. Room' /\ Apart'
    BY SameGoroutines DEF Room, Apart
  <2>3. EachJobOnce'
    BY DEF EachJobOnce
  <2>4. Told'
    <3>1. failed' = first' \cup Elements(errs)' \cup JobsOf(Sending)'
      BY SameGoroutines DEF Told, Elements
    <3> QED
      BY <3>1 DEF Told
  <2> QED
    BY <2>1, <2>2, <2>3, <2>4
<1>3. CASE JoinErrors
  <2> USE <1>3 DEF JoinErrors
  <2>1. Elements(errs) \subseteq Indexes
    BY DEF ParType, Elements
  <2>2. first' = first \cup Elements(errs) /\ errs' = << >> /\ Elements(errs)' = {}
    BY DEF Elements
  <2>3. ParType'
    BY <2>1, <2>2 DEF ParType
  <2>4. Room'
    BY <2>2, SameGoroutines, UnendedCount, GoroutinesAreMany DEF Room, ErrsCap, ParType
  <2>5. Apart'
    BY SameGoroutines DEF Apart
  <2>6. EachJobOnce'
    BY DEF EachJobOnce
  <2>7. Told'
    <3>1. failed' = first' \cup Elements(errs)' \cup JobsOf(Sending)'
      BY <2>2, SameGoroutines DEF Told
    <3>2. first' = {} => next' = N
      BY <2>2 DEF Told
    <3> QED
      BY <2>2, <3>1, <3>2 DEF Told
  <2> QED
    BY <2>3, <2>4, <2>5, <2>6, <2>7
<1> QED
  BY <1>1, <1>2, <1>3 DEF Feeder

LEMMA JobEnds_ParInv ==
  ASSUME ParInv, NEW w \in Workers, JobEnds(w)
  PROVE  ParInv'
<1> USE DEF ParInv, JobEnds
<1>1. w \in Busy /\ Busy' = Busy \ {w} /\ Unended' = Unended /\ Sending' = Sending
      /\ w \notin Sending
  BY DEF ParType, Busy, Unended, Sending
<1>2. \A v \in Workers : v # w => job'[v] = job[v] /\ worker'[v] = worker[v]
  BY DEF ParType
<1>3. job[w] \in 0 .. next - 1 /\ 0 .. next - 1 \subseteq Indexes
  BY <1>1, ParallelAssumption DEF Apart, ParType, Indexes
<1>4. ParType'
  BY <1>3 DEF ParType
<1>5. Room'
  BY <1>1 DEF Room
<1>6. Apart'
  <2>1. ASSUME NEW v \in Workers, worker'[v] = "running"
        PROVE  job'[v] \notin failed'
    BY <1>2, <2>1 DEF Apart, ParType
  <2>2. ASSUME NEW v \in Busy'
        PROVE  job'[v] \in 0 .. next' - 1
    BY <1>1, <1>2, <2>2 DEF Apart, Busy
  <2> QED
    BY <2>1, <2>2 DEF Apart
<1>7. EachJobOnce'
  <2>1. /\ \A u, v \in Busy : u # v => job[u] # job[v]
        /\ ran \cap failed = {}
        /\ {job[v] : v \in Busy} \cap ran = {}
        /\ 0 .. next - 1 = ran \cup failed \cup {job[v] : v \in Busy}
    BY DEF EachJobOnce, Busy
  <2>2. {job'[v] : v \in Busy'} = {job[v] : v \in Busy \ {w}}
    BY <1>1, <1>2 DEF Busy
  <2>3. {job[v] : v \in Busy} = {job[v] : v \in Busy \ {w}} \cup {job[w]}
    BY <1>1
  <2>4. \A u, v \in Busy' : u # v => job'[u] # job'[v]
    BY <1>1, <1>2, <2>1 DEF Busy
  <2>5. ran' \cap failed' = {}
    BY <2>1 DEF Apart
  <2>6. job[w] \notin {job[v] : v \in Busy \ {w}}
    BY <1>1, <2>1
  <2>7. {job'[v] : v \in Busy'} \cap ran' = {}
    BY <2>1, <2>2, <2>3, <2>6
  <2>8. 0 .. next' - 1 = ran' \cup failed' \cup {job'[v] : v \in Busy'}
    BY <2>1, <2>2, <2>3
  <2> QED
    BY <2>4, <2>5, <2>7, <2>8 DEF EachJobOnce, Busy
<1>8. Told'
  <2>1. JobsOf(Sending)' = JobsOf(Sending)
    BY <1>1, <1>2 DEF JobsOf, Sending
  <2>2. feeder \notin {"joining", "returned"}
    BY DEF Told
  <2> QED
    BY <2>1, <2>2 DEF Told, Elements
<1> QED
  BY <1>4, <1>5, <1>6, <1>7, <1>8

LEMMA JobFails_ParInv ==
  ASSUME ParInv, NEW w \in Workers, JobFails(w)
  PROVE  ParInv'
<1> USE DEF ParInv, JobFails
<1>1. w \in Busy /\ Busy' = Busy /\ Unended' = Unended /\ Sending' = Sending \cup {w}
  BY DEF ParType, Busy, Unended, Sending
<1>2. \A v \in Workers : v # w => worker'[v] = worker[v]
  BY DEF ParType
<1>3. job[w] \in 0 .. next - 1 /\ 0 .. next - 1 \subseteq Indexes
  BY <1>1, ParallelAssumption DEF Apart, ParType, Indexes
<1>4. /\ \A u, v \in Busy : u # v => job[u] # job[v]
      /\ ran \cap failed = {}
      /\ {job[v] : v \in Busy} \cap ran = {}
      /\ 0 .. next - 1 = ran \cup failed \cup {job[v] : v \in Busy}
  BY DEF EachJobOnce, Busy
<1>5. ParType'
  BY <1>3 DEF ParType
<1>6. Room'
  BY <1>1 DEF Room
<1>7. Apart'
  <2>1. ASSUME NEW v \in Workers, worker'[v] = "running"
        PROVE  job'[v] \notin failed'
    <3>1. v # w /\ worker[v] = "running" /\ v \in Busy
      BY <1>2, <2>1 DEF ParType, Busy
    <3> QED
      BY <1>1, <1>4, <3>1 DEF Apart
  <2> QED
    BY <1>1, <2>1 DEF Apart
<1>8. EachJobOnce'
  <2>1. ran' \cap failed' = {}
    BY <1>1, <1>4
  <2>2. 0 .. next' - 1 = ran' \cup failed' \cup {job'[v] : v \in Busy'}
    BY <1>1, <1>4
  <2> QED
    BY <1>1, <1>4, <2>1, <2>2 DEF EachJobOnce, Busy
<1>9. Told'
  <2>1. JobsOf(Sending)' = JobsOf(Sending) \cup {job[w]}
    BY <1>1 DEF JobsOf
  <2>2. feeder \notin {"joining", "returned"}
    BY DEF Told
  <2> QED
    BY <2>1, <2>2 DEF Told, Elements
<1> QED
  BY <1>5, <1>6, <1>7, <1>8, <1>9

LEMMA SendError_ParInv ==
  ASSUME ParInv, NEW w \in Workers, SendError(w)
  PROVE  ParInv'
<1> USE DEF ParInv, SendError
<1>1. /\ w \in Busy /\ w \in Sending /\ w \in Unended
      /\ Busy' = Busy \ {w} /\ Unended' = Unended \ {w} /\ Sending' = Sending \ {w}
  BY DEF ParType, Busy, Unended, Sending
<1>2. \A v \in Workers : v # w => job'[v] = job[v] /\ worker'[v] = worker[v]
  BY DEF ParType
<1>3. job[w] \in Indexes /\ job[w] \in 0 .. next - 1
  BY <1>1, ParallelAssumption DEF Apart, ParType, Indexes
<1>4. /\ errs' \in Seq(Indexes) /\ Len(errs') = Len(errs) + 1
      /\ Elements(errs)' = Elements(errs) \cup {job[w]}
  BY <1>3, SentElements DEF ParType, Elements
<1>5. ParType'
  BY <1>4 DEF ParType
<1>6. Room'
  <2>1. Cardinality(Unended') = Cardinality(Unended) - 1 /\ Cardinality(Unended) \in Nat
    BY <1>1, UnendedCount
  <2>2. Len(errs) \in Nat
    BY DEF ParType
  <2> QED
    BY <1>4, <2>1, <2>2, GoroutinesAreMany DEF Room, ErrsCap
<1>7. Apart'
  <2>1. ASSUME NEW v \in Workers, worker'[v] = "running"
        PROVE  job'[v] \notin failed'
    BY <1>2, <2>1 DEF Apart, ParType
  <2>2. ASSUME NEW v \in Busy'
        PROVE  job'[v] \in 0 .. next' - 1
    BY <1>1, <1>2, <2>2 DEF Apart, Busy
  <2> QED
    BY <2>1, <2>2 DEF Apart
<1>8. EachJobOnce'
  <2>1. /\ \A u, v \in Busy : u # v => job[u] # job[v]
        /\ ran \cap failed = {}
        /\ {job[v] : v \in Busy} \cap ran = {}
        /\ 0 .. next - 1 = ran \cup failed \cup {job[v] : v \in Busy}
    BY DEF EachJobOnce, Busy
  <2>2. {job'[v] : v \in Busy'} = {job[v] : v \in Busy \ {w}}
    BY <1>1, <1>2 DEF Busy
  <2>3. {job[v] : v \in Busy} = {job[v] : v \in Busy \ {w}} \cup {job[w]}
    BY <1>1
  <2>4. job[w] \in failed
    BY <1>1 DEF Told, JobsOf
  <2>5. \A u, v \in Busy' : u # v => job'[u] # job'[v]
    BY <1>1, <1>2, <2>1 DEF Busy
  <2>6. {job'[v] : v \in Busy'} \cap ran' = {}
    BY <2>1, <2>2, <2>3
  <2>7. 0 .. next' - 1 = ran' \cup failed' \cup {job'[v] : v \in Busy'}
    BY <2>1, <2>2, <2>3, <2>4
  <2> QED
    BY <2>1, <2>5, <2>6, <2>7 DEF EachJobOnce, Busy
<1>9. Told'
  <2>1. JobsOf(Sending) = JobsOf(Sending)' \cup {job[w]}
    BY <1>1, <1>2 DEF JobsOf, Sending
  <2>2. failed' = first' \cup Elements(errs)' \cup JobsOf(Sending)'
    BY <1>4, <2>1 DEF Told
  <2>3. feeder \notin {"joining", "returned"}
    BY DEF Told
  <2> QED
    BY <2>2, <2>3 DEF Told
<1> QED
  BY <1>5, <1>6, <1>7, <1>8, <1>9

LEMMA NoMoreJobs_ParInv ==
  ASSUME ParInv, NEW w \in Workers, NoMoreJobs(w)
  PROVE  ParInv'
<1> USE DEF ParInv, NoMoreJobs
<1>1. /\ Busy' = Busy /\ w \in Unended /\ Unended' = Unended \ {w}
      /\ Sending' = Sending
  BY DEF ParType, Busy, Unended, Sending
<1>2. \A v \in Workers : v # w => worker'[v] = worker[v]
  BY DEF ParType
<1>3. ParType'
  BY DEF ParType
<1>4. Room'
  <2>1. Cardinality(Unended') = Cardinality(Unended) - 1 /\ Cardinality(Unended) \in Nat
    BY <1>1, UnendedCount
  <2>2. Len(errs) \in Nat
    BY DEF ParType
  <2> QED
    BY <2>1, <2>2, GoroutinesAreMany DEF Room, ErrsCap
<1>5. Apart'
  BY <1>1 DEF Apart, ParType
<1>6. EachJobOnce'
  BY <1>1 DEF EachJobOnce, Busy
<1>7. Told'
  <2>1. JobsOf(Sending)' = JobsOf(Sending)
    BY <1>1 DEF JobsOf
  <2>2. feeder \notin {"joining", "returned"}
    BY DEF Told
  <2> QED
    BY <2>1, <2>2 DEF Told, Elements
<1> QED
  BY <1>3, <1>4, <1>5, <1>6, <1>7

LEMMA ParStep_ParInv == ParInv /\ [ParNext]_parVars => ParInv'
<1> SUFFICES ASSUME ParInv, [ParNext]_parVars PROVE ParInv'
  OBVIOUS
<1>1. CASE UNCHANGED parVars
  BY <1>1 DEF ParInv, ParType, Room, Apart, EachJobOnce, Told, parVars, Busy, Unended,
              Sending, JobsOf, Elements
<1>2. CASE Feeder
  BY <1>2, Feeder_ParInv
<1>3. ASSUME NEW w \in Workers,
             HandOut(w) \/ JobEnds(w) \/ JobFails(w) \/ SendError(w) \/ NoMoreJobs(w)
      PROVE  ParInv'
  BY <1>3, HandOut_ParInv, JobEnds_ParInv, JobFails_ParInv, SendError_ParInv,
     NoMoreJobs_ParInv
<1> QED
  BY <1>1, <1>2, <1>3 DEF ParNext

-----------------------------------------------------------------------------
\* What the invariant says of the properties.
LEMMA ParInv_Properties ==
  ParInv => RoomForEveryError /\ EachJobOnce /\ ErrorTellsAll
<1> SUFFICES ASSUME ParInv PROVE RoomForEveryError /\ EachJobOnce /\ ErrorTellsAll
  OBVIOUS
<1>1. RoomForEveryError
  <2>1. Busy \subseteq Unended
    BY DEF Busy, Unended
  <2>2. Cardinality(Busy) <= Cardinality(Unended) /\ Cardinality(Busy) \in Nat
    BY <2>1, UnendedCount, FS_Subset, FS_CardinalityType
  <2>3. Len(errs) \in Nat
    BY DEF ParInv, ParType
  <2>4. Len(errs) + Cardinality(Busy) <= ErrsCap
    BY <2>2, <2>3, UnendedCount, GoroutinesAreMany DEF ParInv, Room, ErrsCap
  <2> QED
    BY <2>4 DEF RoomForEveryError, Busy
<1>2. EachJobOnce
  BY DEF ParInv
<1>3. ErrorTellsAll
  <2> SUFFICES ASSUME feeder = "returned"
               PROVE  first = failed /\ (first = {} => ran = Indexes)
    BY DEF ErrorTellsAll
  <2>1. Busy = {} /\ Sending = {}
    BY DEF ParInv, Told, Busy, Sending
  <2>2. first = failed
    BY <2>1 DEF ParInv, Told, JobsOf, Elements
  <2>3. 0 .. next - 1 = ran \cup failed
    BY <2>1 DEF ParInv, EachJobOnce, Busy
  <2>4. first = {} => next = N
    BY DEF ParInv, Told
  <2> QED
    BY <2>2, <2>3, <2>4 DEF Indexes
<1> QED
  BY <1>1, <1>2, <1>3

LEMMA ParSpec_ParInv == ParSpec => []ParInv
BY ParInit_ParInv, ParStep_ParInv, PTL DEF ParSpec

\* parallel cannot deadlock on its error channel: whoever may still fail finds
\* a place in it, with any number of goroutines and jobs.
THEOREM AlwaysRoomForEveryError == ParSpec => []RoomForEveryError
BY ParSpec_ParInv, ParInv_Properties, PTL

\* parallel runs every index at most once, and skips none it got past.
THEOREM AlwaysEachJobOnce == ParSpec => []EachJobOnce
BY ParSpec_ParInv, ParInv_Properties, PTL

\* parallel returns every failure, and nil only after all jobs ended well.
THEOREM AlwaysErrorTellsAll == ParSpec => []ErrorTellsAll
BY ParSpec_ParInv, ParInv_Properties, PTL

-----------------------------------------------------------------------------
(* Evaluate. *)

Phases == {"none", "get", "reset", "feed", "lock", "load", "store", "unlock", "put",
           "put failed"}

EvalType ==
  /\ phase \in [Workers -> Phases]
  /\ holds \in [Workers -> Detectors \cup {NoDetector}]
  /\ heard \in [Detectors -> SUBSET Indexes]
  /\ pool \subseteq Detectors
  /\ mutex \in Workers \cup {Free}
  /\ total \in Nat
  /\ loaded \in [Workers -> Nat]
  /\ alone \subseteq Indexes

\* How far a job has come tells what its goroutine has in its hands.
Stages ==
  \A w \in Workers :
    /\ worker[w] = "running" <=> phase[w] # "none"
    /\ holds[w] = NoDetector <=> phase[w] \in {"none", "get"}
    /\ mutex = w <=> phase[w] \in {"load", "store", "unlock"}

HeardNothing == \A w \in Workers : phase[w] = "feed" => heard[holds[w]] = {}

Judged == \A w \in Workers :
  phase[w] \in {"lock", "load", "store", "unlock", "put"} => job[w] \in alone

\* What was loaded is still what is stored while the mutex is held ...
LoadedIsTotal == \A w \in Workers :
  phase[w] = "store" => loaded[w] = total /\ job[w] \in Counted

\* ... and the total counts the jobs that are past the store.
Past    == {w \in Workers : phase[w] \in {"unlock", "put"}}
Added   == (ran \cup JobsOf(Past)) \cap Counted
Counting == total = Cardinality(Added)

EvalInv ==
  /\ ParInv
  /\ EvalType /\ Stages
  /\ OneUserPerDetector
  /\ HeardNothing /\ Judged /\ JudgedAlone
  /\ LoadedIsTotal /\ Counting

-----------------------------------------------------------------------------
\* evaluate takes no step of parallel's that parallel does not take.
LEMMA EvalStep_ParStep == [EvalNext]_evalVars => [ParNext]_parVars
<1> SUFFICES ASSUME [EvalNext]_evalVars PROVE [ParNext]_parVars
  OBVIOUS
<1>1. CASE UNCHANGED evalVars
  BY <1>1 DEF evalVars
<1>2. CASE Feeder
  BY <1>2 DEF ParNext
<1>3. ASSUME NEW w \in Workers, Start(w) \/ RunJob(w) \/ Leaves(w)
      PROVE  [ParNext]_parVars
  <2>1. CASE Start(w)
    BY <2>1 DEF Start, ParNext
  <2>2. CASE RunJob(w)
    BY <2>2 DEF RunJob, GetPooled, GetNew, NewFails, ResetDetector, ResetFails, FeedFile,
                FeedFails, Lock, Skip, Load, Store, Unlock, PutAndEnd, PutAndFail, ParNext
  <2>3. CASE Leaves(w)
    BY <2>3 DEF Leaves, ParNext
  <2> QED
    BY <1>3, <2>1, <2>2, <2>3
<1>4. CASE Collect
  BY <1>4 DEF Collect
<1> QED
  BY <1>1, <1>2, <1>3, <1>4 DEF EvalNext

\* evaluate is a use of parallel.
LEMMA EvalSpec_ParSpec == EvalSpec => ParSpec
<1>1. EvalInit => ParInit
  BY DEF EvalInit
<1> QED
  BY <1>1, EvalStep_ParStep, PTL DEF EvalSpec, ParSpec

LEMMA IndexesAreMany == IsFiniteSet(Indexes)
BY ParallelAssumption, FS_Interval DEF Indexes

LEMMA RunsAnIndex ==
  ASSUME EvalInv, NEW w \in Workers, phase[w] # "none"
  PROVE  w \in Busy /\ job[w] \in Indexes
<1>1. w \in Busy
  BY DEF EvalInv, Stages, Busy
<1>2. job[w] \in 0 .. next - 1
  BY <1>1 DEF EvalInv, ParInv, Apart
<1>3. next \in 0 .. N
  BY DEF EvalInv, ParInv, ParType
<1> QED
  BY <1>1, <1>2, <1>3, ParallelAssumption DEF Indexes

LEMMA EvalInit_EvalInv == EvalInit => EvalInv
<1> SUFFICES ASSUME EvalInit PROVE EvalInv
  OBVIOUS
<1> USE DEF EvalInit, ParInit
<1>1. ParInv
  BY ParInit_ParInv
<1>2. EvalType
  BY DEF EvalType, Phases
<1>3. Stages
  BY NilAssumption DEF Stages
<1>4. OneUserPerDetector /\ HeardNothing /\ Judged /\ JudgedAlone /\ LoadedIsTotal
  BY DEF OneUserPerDetector, HeardNothing, Judged, JudgedAlone, LoadedIsTotal
<1>5. Counting
  <2>1. Added = {}
    BY DEF Added, JobsOf, Past
  <2> QED
    BY <2>1, FS_EmptySet DEF Counting
<1> QED
  BY <1>1, <1>2, <1>3, <1>4, <1>5 DEF EvalInv

-----------------------------------------------------------------------------
(* A goroutine's steps inside its job: parallel's own state is untouched.    *)

LEMMA Get_EvalInv ==
  ASSUME EvalInv, NEW w \in Workers, GetPooled(w) \/ GetNew(w), ParInv'
  PROVE  EvalInv'
<1> USE DEF EvalInv, Goes
<1>0. UNCHANGED parVars /\ UNCHANGED <<mutex, total, loaded, alone>>
      /\ Goes(w, "get", "reset")
  BY DEF GetPooled, GetNew
<1>1. PICK d \in Detectors :
        /\ holds' = [holds EXCEPT ![w] = d]
        /\ \A v \in Workers : holds[v] # d
        /\ d \notin pool' /\ pool' \subseteq pool
        /\ heard' = heard \/ heard' = [heard EXCEPT ![d] = {}]
  <2>1. CASE GetPooled(w)
    <3>1. PICK d \in pool : holds' = [holds EXCEPT ![w] = d] /\ pool' = pool \ {d}
      BY <2>1 DEF GetPooled
    <3>2. d \in Detectors /\ \A v \in Workers : holds[v] # d
      BY NilAssumption DEF EvalType, OneUserPerDetector
    <3>3. heard' = heard
      BY <2>1 DEF GetPooled
    <3> QED
      BY <3>1, <3>2, <3>3
  <2>2. CASE GetNew(w)
    <3>1. PICK d \in Detectors \ (pool \cup {holds[v] : v \in Workers}) :
            holds' = [holds EXCEPT ![w] = d] /\ heard' = [heard EXCEPT ![d] = {}]
      BY <2>2 DEF GetNew
    <3>2. pool' = pool
      BY <2>2 DEF GetNew
    <3> QED
      BY <3>1, <3>2
  <2> QED
    BY <2>1, <2>2
<1>2. EvalType'
  BY <1>0, <1>1 DEF EvalType, Phases
<1>3. Stages'
  BY <1>0, <1>1, NilAssumption DEF Stages, EvalType, parVars
<1>4. OneUserPerDetector'
  BY <1>1, NilAssumption DEF OneUserPerDetector, EvalType
<1>5. HeardNothing'
  BY <1>0, <1>1 DEF HeardNothing, EvalType, Stages
<1>6. Judged' /\ JudgedAlone' /\ LoadedIsTotal'
  BY <1>0 DEF Judged, JudgedAlone, LoadedIsTotal, EvalType, parVars
<1>7. Counting'
  <2>1. Past' = Past
    BY <1>0 DEF Past, EvalType
  <2> QED
    BY <1>0, <2>1 DEF Counting, Added, JobsOf, parVars
<1> QED
  BY <1>2, <1>3, <1>4, <1>5, <1>6, <1>7

LEMMA Reset_EvalInv ==
  ASSUME EvalInv, NEW w \in Workers, ResetDetector(w) \/ ResetFails(w), ParInv'
  PROVE  EvalInv'
<1> USE DEF EvalInv, Goes
<1>0. UNCHANGED parVars /\ UNCHANGED <<holds, pool, mutex, total, loaded, alone>>
      /\ \/ heard' = [heard EXCEPT ![holds[w]] = {}]
         \/ heard' = heard /\ Goes(w, "reset", "put failed")
      /\ \E to \in {"feed", "put failed"} : Goes(w, "reset", to)
  BY DEF ResetDetector, ResetFails
<1>1. holds[w] \in Detectors
  BY <1>0 DEF Stages, EvalType
<1>2. EvalType'
  BY <1>0, <1>1 DEF EvalType, Phases
<1>3. Stages'
  BY <1>0 DEF Stages, EvalType, parVars
<1>4. OneUserPerDetector'
  BY <1>0 DEF OneUserPerDetector
<1>5. HeardNothing'
  <2> SUFFICES ASSUME NEW v \in Workers, phase'[v] = "feed"
               PROVE  heard'[holds'[v]] = {}
    BY DEF HeardNothing
  <2>1. CASE v = w
    BY <1>0, <1>1, <2>1 DEF EvalType
  <2>2. CASE v # w
    <3>1. phase[v] = "feed" /\ holds[v] \in Detectors
      BY <1>0, <2>2 DEF EvalType, Stages
    <3> QED
      BY <1>0, <3>1 DEF HeardNothing, EvalType
  <2> QED
    BY <2>1, <2>2
<1>6. Judged' /\ JudgedAlone' /\ LoadedIsTotal'
  BY <1>0 DEF Judged, JudgedAlone, LoadedIsTotal, EvalType, parVars
<1>7. Counting'
  <2>1. Past' = Past
    BY <1>0 DEF Past, EvalType
  <2> QED
    BY <1>0, <2>1 DEF Counting, Added, JobsOf, parVars
<1> QED
  BY <1>2, <1>3, <1>4, <1>5, <1>6, <1>7

LEMMA Feed_EvalInv ==
  ASSUME EvalInv, NEW w \in Workers, FeedFile(w) \/ FeedFails(w), ParInv'
  PROVE  EvalInv'
<1> USE DEF EvalInv, Goes
<1>0. UNCHANGED parVars /\ UNCHANGED <<holds, pool, mutex, total, loaded>>
      /\ heard' = [heard EXCEPT ![holds[w]] = @ \cup {job[w]}]
      /\ phase[w] = "feed"
      /\ \E to \in {"lock", "put failed"} : Goes(w, "feed", to)
  BY DEF FeedFile, FeedFails
<1>1. holds[w] \in Detectors /\ job[w] \in Indexes
  <2>1. holds[w] \in Detectors
    BY <1>0 DEF Stages, EvalType
  <2>2. job[w] \in Indexes
    BY <1>0, RunsAnIndex
  <2> QED
    BY <2>1, <2>2
<1>2. heard'[holds[w]] = {job[w]}
  BY <1>0, <1>1 DEF HeardNothing, EvalType
<1>3. \/ phase' = [phase EXCEPT ![w] = "lock"] /\ alone' = alone \cup {job[w]}
      \/ phase' = [phase EXCEPT ![w] = "put failed"] /\ alone' = alone
  BY <1>2 DEF FeedFile, FeedFails
<1>4. EvalType'
  <2>1. heard' \in [Detectors -> SUBSET Indexes]
    BY <1>0, <1>1 DEF EvalType
  <2>2. phase' \in [Workers -> Phases]
    BY <1>3 DEF EvalType, Phases
  <2>3. alone' \subseteq Indexes
    BY <1>1, <1>3 DEF EvalType
  <2> QED
    BY <1>0, <2>1, <2>2, <2>3 DEF EvalType
<1>5. Stages'
  BY <1>0 DEF Stages, EvalType, parVars
<1>6. OneUserPerDetector'
  BY <1>0 DEF OneUserPerDetector
<1>7. HeardNothing'
  <2> SUFFICES ASSUME NEW v \in Workers, phase'[v] = "feed"
               PROVE  heard'[holds'[v]] = {}
    BY DEF HeardNothing
  <2>1. v # w /\ phase[v] = "feed"
    BY <1>3 DEF EvalType
  <2>2. holds[v] \in Detectors /\ holds[v] # holds[w]
    BY <1>1, <2>1, NilAssumption DEF Stages, EvalType, OneUserPerDetector
  <2> QED
    BY <1>0, <1>1, <2>1, <2>2 DEF HeardNothing, EvalType
<1>8. Judged' /\ JudgedAlone' /\ LoadedIsTotal'
  BY <1>0, <1>3 DEF Judged, JudgedAlone, LoadedIsTotal, EvalType, parVars
<1>9. Counting'
  <2>1. Past' = Past
    BY <1>0 DEF Past, EvalType
  <2> QED
    BY <1>0, <2>1 DEF Counting, Added, JobsOf, parVars
<1> QED
  BY <1>4, <1>5, <1>6, <1>7, <1>8, <1>9

LEMMA Lock_EvalInv ==
  ASSUME EvalInv, NEW w \in Workers, Lock(w), ParInv'
  PROVE  EvalInv'
<1> USE DEF EvalInv, Lock, Goes
<1>1. EvalType'
  BY DEF EvalType, Phases
<1>2. Stages'
  BY NilAssumption DEF Stages, EvalType, parVars
<1>3. OneUserPerDetector' /\ HeardNothing'
  BY DEF OneUserPerDetector, HeardNothing, EvalType
<1>4. Judged' /\ JudgedAlone' /\ LoadedIsTotal'
  BY DEF Judged, JudgedAlone, LoadedIsTotal, EvalType, parVars
<1>5. Counting'
  <2>1. Past' = Past
    BY DEF Past, EvalType
  <2> QED
    BY <2>1 DEF Counting, Added, JobsOf, parVars
<1> QED
  BY <1>1, <1>2, <1>3, <1>4, <1>5

LEMMA Load_EvalInv ==
  ASSUME EvalInv, NEW w \in Workers, Skip(w) \/ Load(w), ParInv'
  PROVE  EvalInv'
<1> USE DEF EvalInv, Goes
<1>0. UNCHANGED parVars /\ UNCHANGED <<holds, heard, pool, mutex, total, alone>>
      /\ phase[w] = "load"
      /\ \/ Skip(w) /\ phase' = [phase EXCEPT ![w] = "unlock"] /\ loaded' = loaded
            /\ job[w] \notin Counted
         \/ Load(w) /\ phase' = [phase EXCEPT ![w] = "store"]
            /\ loaded' = [loaded EXCEPT ![w] = total] /\ job[w] \in Counted
  BY DEF Skip, Load
<1>1. EvalType'
  BY <1>0 DEF EvalType, Phases
<1>2. Stages'
  BY <1>0 DEF Stages, EvalType, parVars
<1>3. OneUserPerDetector' /\ HeardNothing'
  BY <1>0 DEF OneUserPerDetector, HeardNothing, EvalType
<1>4. Judged' /\ JudgedAlone'
  BY <1>0 DEF Judged, JudgedAlone, EvalType, parVars
<1>5. LoadedIsTotal'
  BY <1>0 DEF LoadedIsTotal, EvalType, parVars
<1>6. Counting'
  <2>1. CASE Skip(w)
    <3>1. Past' = Past \cup {w} /\ job[w] \notin Counted
      BY <2>1 DEF Skip, Past, EvalType
    <3>2. Added' = Added
      BY <1>0, <3>1 DEF Added, JobsOf, parVars
    <3> QED
      BY <1>0, <3>2 DEF Counting
  <2>2. CASE Load(w)
    <3>1. Past' = Past
      BY <2>2 DEF Load, Past, EvalType
    <3> QED
      BY <1>0, <3>1 DEF Counting, Added, JobsOf, parVars
  <2> QED
    BY <2>1, <2>2
<1> QED
  BY <1>1, <1>2, <1>3, <1>4, <1>5, <1>6

\* The job that stores was not counted before: nobody else runs it, and it has
\* not ended.
LEMMA Store_EvalInv ==
  ASSUME EvalInv, NEW w \in Workers, Store(w), ParInv'
  PROVE  EvalInv'
<1> USE DEF EvalInv, Store, Goes
<1>1. loaded[w] = total /\ job[w] \in Counted /\ total \in Nat /\ total' = total + 1
  BY DEF LoadedIsTotal, EvalType
<1>2. EvalType'
  <2>1. phase' \in [Workers -> Phases]
    BY DEF EvalType, Phases
  <2>2. total' \in Nat
    BY <1>1
  <2> QED
    BY <2>1, <2>2 DEF EvalType
<1>3. Stages'
  BY DEF Stages, EvalType, parVars
<1>4. OneUserPerDetector' /\ HeardNothing'
  BY DEF OneUserPerDetector, HeardNothing, EvalType
<1>5. Judged' /\ JudgedAlone'
  BY DEF Judged, JudgedAlone, EvalType, parVars
<1>6. LoadedIsTotal'
  <2> SUFFICES ASSUME NEW v \in Workers, phase'[v] = "store"
               PROVE  FALSE
    BY DEF LoadedIsTotal
  <2>1. v # w /\ phase[v] = "store"
    BY DEF EvalType
  <2> QED
    BY <2>1 DEF Stages
<1>7. Counting'
  <2>1. Past' = Past \cup {w} /\ w \notin Past
    BY DEF Past, EvalType
  <2>2. Added' = Added \cup {job[w]}
    BY <1>1, <2>1 DEF Added, JobsOf, parVars
  <2>3. job[w] \notin Added
    <3>1. w \in Busy /\ Past \subseteq Busy
      BY RunsAnIndex DEF Past, Stages, Busy
    <3>2. \A v \in Past : job[v] # job[w]
      BY <2>1, <3>1 DEF ParInv, EachJobOnce, Busy
    <3>3. job[w] \notin ran
      BY <3>1 DEF ParInv, EachJobOnce, Busy
    <3> QED
      BY <3>2, <3>3 DEF Added, JobsOf
  <2>4. IsFiniteSet(Added)
    BY IndexesAreMany, CountedAssumption, FS_Subset DEF Added
  <2>5. Cardinality(Added') = Cardinality(Added) + 1
    BY <2>2, <2>3, <2>4, FS_AddElement
  <2> QED
    BY <1>1, <2>5 DEF Counting
<1> QED
  BY <1>2, <1>3, <1>4, <1>5, <1>6, <1>7

LEMMA Unlock_EvalInv ==
  ASSUME EvalInv, NEW w \in Workers, Unlock(w), ParInv'
  PROVE  EvalInv'
<1> USE DEF EvalInv, Unlock, Goes
<1>1. EvalType'
  <2>1. phase' \in [Workers -> Phases]
    BY DEF EvalType, Phases
  <2> QED
    BY <2>1 DEF EvalType
<1>2. Stages'
  BY NilAssumption DEF Stages, EvalType, parVars
<1>3. OneUserPerDetector' /\ HeardNothing'
  BY DEF OneUserPerDetector, HeardNothing, EvalType
<1>4. Judged' /\ JudgedAlone' /\ LoadedIsTotal'
  BY DEF Judged, JudgedAlone, LoadedIsTotal, EvalType, parVars
<1>5. Counting'
  <2>1. Past' = Past
    BY DEF Past, EvalType
  <2> QED
    BY <2>1 DEF Counting, Added, JobsOf, parVars
<1> QED
  BY <1>1, <1>2, <1>3, <1>4, <1>5

-----------------------------------------------------------------------------
(* The steps that a goroutine of parallel takes.                             *)

LEMMA Start_EvalInv ==
  ASSUME EvalInv, NEW w \in Workers, Start(w), ParInv'
  PROVE  EvalInv'
<1> USE DEF EvalInv, Start, Goes
<1>1. /\ UNCHANGED <<holds, heard, pool, mutex, total, loaded, alone, ran>>
      /\ worker[w] = "receiving" /\ worker' = [worker EXCEPT ![w] = "running"]
      /\ job' = [job EXCEPT ![w] = next]
      /\ phase[w] = "none" /\ phase' = [phase EXCEPT ![w] = "get"]
      /\ worker \in [Workers -> {"receiving", "running", "sending", "done"}]
      /\ job \in [Workers -> Indexes \cup {NoJob}]
  BY DEF HandOut, ParInv, ParType
<1>2. EvalType'
  BY <1>1 DEF EvalType, Phases
<1>3. Stages'
  BY <1>1 DEF Stages, EvalType
<1>4. OneUserPerDetector' /\ HeardNothing'
  BY <1>1 DEF OneUserPerDetector, HeardNothing, EvalType
<1>5. Judged' /\ JudgedAlone' /\ LoadedIsTotal'
  BY <1>1 DEF Judged, JudgedAlone, LoadedIsTotal, EvalType
<1>6. Counting'
  <2>1. Past' = Past /\ w \notin Past
    BY <1>1 DEF Past, EvalType
  <2>2. JobsOf(Past)' = JobsOf(Past)
    BY <1>1, <2>1 DEF JobsOf, Past
  <2> QED
    BY <1>1, <2>2 DEF Counting, Added
<1> QED
  BY <1>2, <1>3, <1>4, <1>5, <1>6

LEMMA NewFails_EvalInv ==
  ASSUME EvalInv, NEW w \in Workers, NewFails(w), ParInv'
  PROVE  EvalInv'
<1> USE DEF EvalInv, NewFails, Goes
<1>1. /\ UNCHANGED <<holds, heard, pool, mutex, total, loaded, alone, ran, job>>
      /\ worker' = [worker EXCEPT ![w] = "sending"]
      /\ phase[w] = "get" /\ phase' = [phase EXCEPT ![w] = "none"]
      /\ worker \in [Workers -> {"receiving", "running", "sending", "done"}]
  BY DEF JobFails, ParInv, ParType
<1>2. EvalType'
  BY <1>1 DEF EvalType, Phases
<1>3. Stages'
  BY <1>1 DEF Stages, EvalType
<1>4. OneUserPerDetector' /\ HeardNothing'
  BY <1>1 DEF OneUserPerDetector, HeardNothing, EvalType
<1>5. Judged' /\ JudgedAlone' /\ LoadedIsTotal'
  BY <1>1 DEF Judged, JudgedAlone, LoadedIsTotal, EvalType
<1>6. Counting'
  <2>1. Past' = Past
    BY <1>1 DEF Past, EvalType
  <2> QED
    BY <1>1, <2>1 DEF Counting, Added, JobsOf
<1> QED
  BY <1>2, <1>3, <1>4, <1>5, <1>6

\* The detector goes back to the pool, and no one else holds it.
LEMMA PutBack_OneUser ==
  ASSUME EvalInv, NEW w \in Workers, PutBack(w), holds[w] \in Detectors
  PROVE  /\ OneUserPerDetector'
         /\ pool' \subseteq Detectors
         /\ holds' \in [Workers -> Detectors \cup {NoDetector}]
<1> USE DEF EvalInv, PutBack
<1>1. /\ holds' = [holds EXCEPT ![w] = NoDetector] /\ pool' = pool \cup {holds[w]}
      /\ holds' \in [Workers -> Detectors \cup {NoDetector}]
  BY DEF EvalType
<1>2. ASSUME NEW v \in Workers, holds'[v] # NoDetector
      PROVE  /\ v # w /\ holds[v] = holds'[v] /\ holds[v] # holds[w]
             /\ holds[v] \notin pool
  BY <1>1, <1>2, NilAssumption DEF OneUserPerDetector, EvalType
<1>3. OneUserPerDetector'
  <2> SUFFICES ASSUME NEW v \in Workers, holds'[v] # NoDetector
               PROVE  /\ holds'[v] \notin pool'
                      /\ \A u \in Workers : holds'[u] = holds'[v] => u = v
    BY DEF OneUserPerDetector
  <2>1. holds'[v] \notin pool'
    BY <1>1, <1>2
  <2>2. ASSUME NEW u \in Workers, holds'[u] = holds'[v]
        PROVE  u = v
    <3>1. holds[u] = holds[v] /\ holds[v] # NoDetector
      BY <1>2, <2>2
    <3> QED
      BY <3>1 DEF OneUserPerDetector
  <2> QED
    BY <2>1, <2>2
<1> QED
  BY <1>1, <1>3 DEF EvalType

LEMMA PutAndEnd_EvalInv ==
  ASSUME EvalInv, NEW w \in Workers, PutAndEnd(w), ParInv'
  PROVE  EvalInv'
<1> USE DEF EvalInv, PutAndEnd, Goes
<1>1. /\ UNCHANGED <<heard, mutex, total, loaded, alone>>
      /\ holds' = [holds EXCEPT ![w] = NoDetector]
      /\ phase[w] = "put" /\ phase' = [phase EXCEPT ![w] = "none"]
      /\ worker' = [worker EXCEPT ![w] = "receiving"]
      /\ ran' = ran \cup {job[w]} /\ job' = [job EXCEPT ![w] = NoJob]
      /\ worker \in [Workers -> {"receiving", "running", "sending", "done"}]
      /\ job \in [Workers -> Indexes \cup {NoJob}]
  BY DEF PutBack, JobEnds, ParInv, ParType
<1>2. holds[w] \in Detectors
  BY <1>1 DEF Stages, EvalType
<1>3. OneUserPerDetector' /\ pool' \subseteq Detectors
      /\ holds' \in [Workers -> Detectors \cup {NoDetector}]
  BY <1>2, PutBack_OneUser
<1>4. EvalType'
  <2>1. phase' \in [Workers -> Phases]
    BY <1>1 DEF EvalType, Phases
  <2> QED
    BY <1>1, <1>3, <2>1 DEF EvalType
<1>5. Stages'
  BY <1>1 DEF Stages, EvalType
<1>6. HeardNothing'
  BY <1>1 DEF HeardNothing, EvalType
<1>7. Judged' /\ LoadedIsTotal'
  BY <1>1 DEF Judged, LoadedIsTotal, EvalType
<1>8. JudgedAlone'
  BY <1>1 DEF Judged, JudgedAlone
<1>9. Counting'
  <2>1. Past' = Past \ {w} /\ w \in Past
    BY <1>1 DEF Past, EvalType
  <2>2. JobsOf(Past) = JobsOf(Past)' \cup {job[w]}
    BY <1>1, <2>1 DEF JobsOf, Past
  <2>3. Added' = Added
    BY <1>1, <2>2 DEF Added
  <2> QED
    BY <1>1, <2>3 DEF Counting
<1> QED
  BY <1>3, <1>4, <1>5, <1>6, <1>7, <1>8, <1>9

LEMMA PutAndFail_EvalInv ==
  ASSUME EvalInv, NEW w \in Workers, PutAndFail(w), ParInv'
  PROVE  EvalInv'
<1> USE DEF EvalInv, PutAndFail, Goes
<1>1. /\ UNCHANGED <<heard, mutex, total, loaded, alone, ran, job>>
      /\ holds' = [holds EXCEPT ![w] = NoDetector]
      /\ phase[w] = "put failed" /\ phase' = [phase EXCEPT ![w] = "none"]
      /\ worker' = [worker EXCEPT ![w] = "sending"]
      /\ worker \in [Workers -> {"receiving", "running", "sending", "done"}]
  BY DEF PutBack, JobFails, ParInv, ParType
<1>2. holds[w] \in Detectors
  BY <1>1 DEF Stages, EvalType
<1>3. OneUserPerDetector' /\ pool' \subseteq Detectors
      /\ holds' \in [Workers -> Detectors \cup {NoDetector}]
  BY <1>2, PutBack_OneUser
<1>4. EvalType'
  <2>1. phase' \in [Workers -> Phases]
    BY <1>1 DEF EvalType, Phases
  <2> QED
    BY <1>1, <1>3, <2>1 DEF EvalType
<1>5. Stages'
  BY <1>1 DEF Stages, EvalType
<1>6. HeardNothing'
  BY <1>1 DEF HeardNothing, EvalType
<1>7. Judged' /\ JudgedAlone' /\ LoadedIsTotal'
  BY <1>1 DEF Judged, JudgedAlone, LoadedIsTotal, EvalType
<1>8. Counting'
  <2>1. Past' = Past
    BY <1>1 DEF Past, EvalType
  <2> QED
    BY <1>1, <2>1 DEF Counting, Added, JobsOf
<1> QED
  BY <1>3, <1>4, <1>5, <1>6, <1>7, <1>8

LEMMA Leaves_EvalInv ==
  ASSUME EvalInv, NEW w \in Workers, Leaves(w), ParInv'
  PROVE  EvalInv'
<1> USE DEF EvalInv, Leaves
<1>1. /\ UNCHANGED fnVars /\ UNCHANGED ran
      /\ worker[w] # "running" /\ worker' = [worker EXCEPT ![w] = "done"]
      /\ \A v \in Workers : v # w => job'[v] = job[v]
      /\ worker \in [Workers -> {"receiving", "running", "sending", "done"}]
  BY DEF SendError, NoMoreJobs, ParInv, ParType
<1>2. phase[w] = "none"
  BY <1>1 DEF Stages
<1>3. EvalType' /\ OneUserPerDetector' /\ HeardNothing'
  BY <1>1 DEF EvalType, OneUserPerDetector, HeardNothing, fnVars
<1>4. Stages'
  BY <1>1, <1>2 DEF Stages, fnVars
<1>5. Judged' /\ JudgedAlone' /\ LoadedIsTotal'
  BY <1>1, <1>2 DEF Judged, JudgedAlone, LoadedIsTotal, fnVars
<1>6. Counting'
  <2>1. Past' = Past /\ w \notin Past
    BY <1>1, <1>2 DEF Past, fnVars
  <2>2. JobsOf(Past)' = JobsOf(Past)
    BY <1>1, <2>1 DEF JobsOf, Past
  <2> QED
    BY <1>1, <2>2 DEF Counting, Added, fnVars
<1> QED
  BY <1>3, <1>4, <1>5, <1>6

\* The feeder's steps and the garbage collector's touch no goroutine.
LEMMA Others_EvalInv ==
  ASSUME EvalInv, ParInv',
         UNCHANGED <<worker, job, ran, phase, holds, heard, mutex, total, loaded, alone>>,
         pool' \subseteq pool
  PROVE  EvalInv'
<1> USE DEF EvalInv
<1>1. EvalType' /\ Stages' /\ OneUserPerDetector' /\ HeardNothing'
  BY DEF EvalType, Stages, OneUserPerDetector, HeardNothing
<1>2. Judged' /\ JudgedAlone' /\ LoadedIsTotal'
  BY DEF Judged, JudgedAlone, LoadedIsTotal
<1>3. Counting'
  BY DEF Counting, Added, JobsOf, Past
<1> QED
  BY <1>1, <1>2, <1>3

LEMMA EvalStep_EvalInv == EvalInv /\ [EvalNext]_evalVars => EvalInv'
<1> SUFFICES ASSUME EvalInv, [EvalNext]_evalVars PROVE EvalInv'
  OBVIOUS
<1>0. ParInv'
  BY EvalStep_ParStep, ParStep_ParInv DEF EvalInv
<1>1. CASE UNCHANGED evalVars
  BY <1>0, <1>1, Others_EvalInv DEF evalVars, parVars
<1>2. CASE Feeder /\ UNCHANGED fnVars
  <2>1. UNCHANGED <<worker, job, ran>>
    BY <1>2 DEF Feeder, HearError, AllHandedOut, CloseIndexes, WaitEnds, JoinErrors
  <2> QED
    BY <1>0, <1>2, <2>1, Others_EvalInv DEF fnVars
<1>3. ASSUME NEW w \in Workers, Start(w) \/ RunJob(w) \/ Leaves(w)
      PROVE  EvalInv'
  BY <1>0, <1>3, Start_EvalInv, Get_EvalInv, NewFails_EvalInv, Reset_EvalInv,
     Feed_EvalInv, Lock_EvalInv, Load_EvalInv, Store_EvalInv, Unlock_EvalInv,
     PutAndEnd_EvalInv, PutAndFail_EvalInv, Leaves_EvalInv DEF RunJob
<1>4. CASE Collect
  BY <1>0, <1>4, Others_EvalInv DEF Collect, parVars
<1> QED
  BY <1>1, <1>2, <1>3, <1>4 DEF EvalNext

LEMMA EvalSpec_EvalInv == EvalSpec => []EvalInv
BY EvalInit_EvalInv, EvalStep_EvalInv, PTL DEF EvalSpec

-----------------------------------------------------------------------------
\* evaluate cannot deadlock on parallel's error channel, runs each file once,
\* and returns every failure.
THEOREM EvaluateKeepsJobs == EvalSpec => [](RoomForEveryError /\ EachJobOnce /\ ErrorTellsAll)
BY EvalSpec_ParSpec, ParSpec_ParInv, ParInv_Properties, PTL

\* A detector of the pool is never used by two goroutines.
THEOREM AlwaysOneUserPerDetector == EvalSpec => []OneUserPerDetector
<1>1. EvalInv => OneUserPerDetector
  BY DEF EvalInv
<1> QED
  BY <1>1, EvalSpec_EvalInv, PTL

\* Every file that ended well was judged by a detector that heard only it.
THEOREM AlwaysJudgedAlone == EvalSpec => []JudgedAlone
<1>1. EvalInv => JudgedAlone
  BY DEF EvalInv
<1> QED
  BY <1>1, EvalSpec_EvalInv, PTL

\* No update of the shared result is lost, however many goroutines make them.
THEOREM AlwaysNothingUncounted == EvalSpec => []NothingUncounted
<1>1. ASSUME EvalInv, feeder = "returned"
      PROVE  total = Cardinality(ran \cap Counted)
  <2>1. \A w \in Workers : worker[w] = "done"
    BY <1>1 DEF EvalInv, ParInv, Told
  <2>2. JobsOf(Past) = {}
    BY <1>1, <2>1 DEF EvalInv, Stages, Past, JobsOf
  <2> QED
    BY <1>1, <2>2 DEF EvalInv, Counting, Added
<1>2. EvalInv => NothingUncounted
  BY <1>1 DEF NothingUncounted
<1> QED
  BY <1>2, EvalSpec_EvalInv, PTL
=============================================================================
