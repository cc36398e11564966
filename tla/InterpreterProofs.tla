------------------------- MODULE InterpreterProofs --------------------------
(***************************************************************************)
(* What the interpreter promises of every file that Load accepts, whatever *)
(* its kernels compute and wherever they fail: its state operators never   *)
(* fail, and after a Reset it goes on as a new interpreter does.           *)
(***************************************************************************)
EXTENDS InterpreterTwin, FiniteSetTheorems, TLAPS

-----------------------------------------------------------------------------
(* Files. *)

File(f) == f \in Seq(Seq(Operators)) /\ Accepted(f)

\* Maximum of a set of places.
LEMMA LatestPlace ==
  ASSUME NEW n \in Nat, NEW S \in SUBSET (1 .. n), S # {}
  PROVE  Max(S) \in S
<1> DEFINE Gaps == {n - h : h \in S}
<1>1. Gaps \subseteq Nat /\ Gaps # {}
  <2>1. \A h \in S : h \in 1 .. n /\ n - h \in Nat
    OBVIOUS
  <2> QED
    BY <2>1
<1>2. PICK g \in Gaps : \A k \in Gaps : ~ (<<k, g>> \in OpToRel(<, Nat))
  BY <1>1, NatLessThanWellFounded, WFMin
<1>3. PICK h \in S : g = n - h
  BY <1>2
<1>4. ASSUME NEW k \in S
      PROVE  h >= k
  <2>1. n - k \in Gaps
    OBVIOUS
  <2>2. ~ (n - k < g)
    BY <1>1, <1>2, <2>1 DEF OpToRel
  <2> QED
    BY <1>3, <2>2
<1> QED
  BY <1>4 DEF Max

\* Induction over 0 .. n, for a set.
LEMMA EveryPlace ==
  ASSUME NEW n \in Nat, NEW S \in SUBSET (0 .. n), 0 \in S, \A k \in 1 .. n : k - 1 \in S => k \in S
  PROVE  \A k \in 0 .. n : k \in S
<1> DEFINE Missing == {k \in 0 .. n : k \notin S}
<1> SUFFICES ASSUME Missing # {} PROVE FALSE
  OBVIOUS
<1>1. Missing \subseteq Nat
  OBVIOUS
<1>2. PICK k \in Missing : \A j \in Missing : ~ (<<j, k>> \in OpToRel(<, Nat))
  BY <1>1, NatLessThanWellFounded, WFMin
<1>3. k \in 0 .. n /\ k # 0 /\ k \notin S
  BY <1>2
<1> HIDE DEF Missing
<1>4. k \in 1 .. n /\ k - 1 \in 0 .. n /\ k - 1 \in Nat /\ k \in Nat /\ k - 1 < k
  BY <1>3
<1>5. k - 1 \notin S
  BY <1>3, <1>4
<1>6. k - 1 \in Missing
  BY <1>4, <1>5 DEF Missing
<1> QED
  BY <1>2, <1>4, <1>6 DEF OpToRel

\* The places of a file, and what Load has asked of the operator at each.
LEMMA FilePlaces ==
  ASSUME NEW f, File(f)
  PROVE  /\ Len(f) \in Nat /\ Main \in 1 .. Len(f)
         /\ \A s \in 1 .. Len(f) :
              /\ f[s] \in Seq(Operators)
              /\ Len(f[s]) \in Nat
              /\ \A i \in 1 .. Len(f[s]) :
                   /\ <<s, i>> \in Positions(f)
                   /\ f[s][i] \in Operators /\ OperandsOK(f[s][i])
<1>1. /\ f \in Seq(Seq(Operators)) /\ f # << >>
      /\ \A p \in Positions(f) : OperandsOK(f[p[1]][p[2]])
  BY DEF File, Accepted
<1>2. Len(f) \in Nat /\ Main \in 1 .. Len(f)
  BY <1>1 DEF Main
<1>3. ASSUME NEW s \in 1 .. Len(f)
      PROVE  /\ f[s] \in Seq(Operators)
             /\ Len(f[s]) \in Nat
             /\ \A i \in 1 .. Len(f[s]) :
                  /\ <<s, i>> \in Positions(f)
                  /\ f[s][i] \in Operators /\ OperandsOK(f[s][i])
  <2>1. f[s] \in Seq(Operators) /\ Len(f[s]) \in Nat
    BY <1>1, <1>3
  <2>2. ASSUME NEW i \in 1 .. Len(f[s])
        PROVE  <<s, i>> \in Positions(f)
    BY <1>3 DEF Positions
  <2>3. ASSUME NEW i \in 1 .. Len(f[s])
        PROVE  f[s][i] \in Operators /\ OperandsOK(f[s][i])
    <3>1. f[s][i] \in Operators
      BY <2>1, <2>3
    <3>2. OperandsOK(f[<<s, i>>[1]][<<s, i>>[2]])
      BY <1>1, <2>2
    <3> QED
      BY <3>1, <3>2
  <2> QED
    BY <2>1, <2>2, <2>3
<1> QED
  BY <1>2, <1>3

\* A file has finitely many places.
LEMMA FinitePositions ==
  ASSUME NEW f, File(f)
  PROVE  IsFiniteSet(Positions(f))
<1> DEFINE Places(s) == {s} \X (1 .. Len(f[s]))
           All == {Places(s) : s \in 1 .. Len(f)}
           g == [s \in 1 .. Len(f) |-> Places(s)]
<1>1. Len(f) \in Nat /\ \A s \in 1 .. Len(f) : Len(f[s]) \in Nat
  BY FilePlaces
<1>2. IsFiniteSet(1 .. Len(f))
  BY <1>1, FS_Interval
<1>3. g \in Surjection(1 .. Len(f), All)
  BY DEF Surjection
<1>4. IsFiniteSet(All)
  BY <1>2, <1>3, FS_Surjection
<1>5. ASSUME NEW s \in 1 .. Len(f)
      PROVE  IsFiniteSet(Places(s))
  <2> DEFINE n == Len(f[s])
  <2>0. 1 \in Int /\ n \in Int
    BY <1>1, <1>5
  <2> HIDE DEF n
  <2>1. IsFiniteSet(1 .. n)
    BY <2>0, FS_Interval
  <2>2. IsFiniteSet({s})
    BY FS_Singleton
  <2> QED
    BY <2>1, <2>2, FS_Product DEF n
<1>6. IsFiniteSet(UNION All)
  BY <1>4, <1>5, FS_UNION
<1> QED
  BY <1>6 DEF Positions

\* An accepted state operator has a variable, of the shape of its tensor.
LEMMA StateOperator ==
  ASSUME NEW f, File(f),
         NEW s \in 1 .. Len(f), NEW i \in 1 .. Len(f[s]), TouchesState(f[s][i])
  PROVE  /\ VariableOf(f[s], i) \in Variables(f)
         /\ BoundTensor(f[s][i]) \in Tensors
         /\ SameShape(f, VariableOf(f[s], i), BoundTensor(f[s][i]))
<1> DEFINE p == <<s, i>>
           v == VariableOf(f[s], i)
           h == Max(HandlesOf(f[s], i))
<1>1. p \in StateOps(f)
  BY FilePlaces DEF StateOps
<1>2. /\ HandlesOf(f[s], i) # {}
      /\ BoundTensor(f[s][i]) \in Tensors
  BY <1>1 DEF File, Accepted, Resolves
<1>3. h \in HandlesOf(f[s], i)
  <2>1. i \in Nat \ {0} /\ Len(f[s]) \in Nat
    BY FilePlaces
  <2>2. HandlesOf(f[s], i) \in SUBSET (1 .. i - 1) /\ i - 1 \in Nat
    BY <2>1 DEF HandlesOf
  <2> QED
    BY <1>2, <2>2, LatestPlace
<1>4. v \in Variables(f)
  <2>1. h \in 1 .. i - 1 /\ f[s][h].code = "VAR_HANDLE"
    BY <1>3 DEF HandlesOf
  <2>2. Len(f[s]) \in Nat
    BY FilePlaces
  <2>3. h \in 1 .. Len(f[s])
    BY <2>1, <2>2
  <2>4. <<s, h>> \in Positions(f)
    BY <2>3, FilePlaces
  <2> QED
    BY <2>1, <2>4 DEF Variables, VariableOf
<1>5. Shape[BoundTensor(f[s][i])] \in Bindings(f, v)
  BY <1>1 DEF Bindings
<1>6. Cardinality(Bindings(f, v)) = 1
  BY <1>4 DEF File, Accepted, Binds
<1>7. IsFiniteSet(Bindings(f, v))
  <2> DEFINE Q == {q \in StateOps(f) : VariableOf(f[q[1]], q[2]) = v}
             g == [q \in Q |-> Shape[BoundTensor(f[q[1]][q[2]])]]
  <2>1. Q \in SUBSET Positions(f)
    BY DEF StateOps
  <2>2. IsFiniteSet(Q)
    BY <2>1, FinitePositions, FS_Subset
  <2>3. g \in Surjection(Q, Bindings(f, v))
    BY DEF Surjection, Bindings
  <2> QED
    BY <2>2, <2>3, FS_Surjection
<1>8. PICK x : Bindings(f, v) = {x}
  BY <1>6, <1>7, FS_Singleton
<1> QED
  BY <1>2, <1>4, <1>5, <1>8 DEF SameShape, VariableShape

\* Where a CALL_ONCE is, and what it runs.
LEMMA InitFacts ==
  ASSUME NEW f, File(f), InitSubgraph(f) # NoSubgraph
  PROVE  /\ InitSubgraph(f) \in 1 .. Len(f) /\ InitSubgraph(f) # Main
         /\ \A i \in 1 .. Len(f[InitSubgraph(f)]) :
              f[InitSubgraph(f)][i].code \in {"VAR_HANDLE", "ASSIGN_VARIABLE"}
         /\ \E i \in 1 .. Len(f[Main]) : f[Main][i].code = "CALL_ONCE" /\ <<Main, i>> \in CallOnces(f)
<1>1. InitSubgraph(f) = 2 /\ CallOnces(f) # {}
  BY DEF InitSubgraph, InitSubgraphIndex
<1>2. PICK p \in CallOnces(f) : p[1] = Main /\ 2 <= Len(f)
  BY <1>1 DEF File, Accepted, CallOnceOK, InitSubgraphIndex
<1>3. PICK s \in 1 .. Len(f) : \E i \in 1 .. Len(f[s]) : p = <<s, i>> /\ f[s][i].code = "CALL_ONCE"
  BY <1>2 DEF CallOnces, Positions
<1>4. PICK k \in 1 .. Len(f[Main]) : p = <<Main, k>> /\ f[Main][k].code = "CALL_ONCE"
  BY <1>2, <1>3
<1>5. InitSubgraph(f) \in 1 .. Len(f) /\ InitSubgraph(f) # Main
  <2>1. Len(f) \in Nat
    BY FilePlaces
  <2> QED
    BY <1>1, <1>2, <2>1 DEF Main
<1>6. \A i \in 1 .. Len(f[InitSubgraph(f)]) :
        f[InitSubgraph(f)][i].code \in {"VAR_HANDLE", "ASSIGN_VARIABLE"}
  BY DEF File, Accepted, InitOK
<1> QED
  BY <1>2, <1>4, <1>5, <1>6

-----------------------------------------------------------------------------
(* Interpreters, and what one write changes. *)

InterpretersOver(f, V) ==
  [tensors : [1 .. Len(f) -> [Tensors -> V]], variables : [Variables(f) -> V], initialized : BOOLEAN]

IsInterpreter(f, x) == \E V : x \in InterpretersOver(f, V)

TensorSet(x, s, t, v) == [x EXCEPT !.tensors[s][t] = v]

VariableSet(x, w, v) == [x EXCEPT !.variables[w] = v]

Marked(x, b) == [x EXCEPT !.initialized = b]

LEMMA TensorWritten ==
  ASSUME NEW f, NEW x, IsInterpreter(f, x), NEW s \in 1 .. Len(f), NEW t \in Tensors, NEW v
  PROVE  LET y == TensorSet(x, s, t, v) IN
         /\ IsInterpreter(f, y)
         /\ y.variables = x.variables /\ y.initialized = x.initialized
         /\ \A r \in 1 .. Len(f), u \in Tensors :
              y.tensors[r][u] = IF r = s /\ u = t THEN v ELSE x.tensors[r][u]
<1> DEFINE y == TensorSet(x, s, t, v)
<1> HIDE DEF y
<1>1. PICK V : x \in InterpretersOver(f, V)
  BY DEF IsInterpreter
<1> DEFINE W   == V \cup {v}
           row == [x.tensors[s] EXCEPT ![t] = v]
           ts  == [x.tensors EXCEPT ![s] = row]
<1>2. /\ x.tensors \in [1 .. Len(f) -> [Tensors -> V]]
      /\ x.variables \in [Variables(f) -> V]
      /\ x.initialized \in BOOLEAN
  BY <1>1 DEF InterpretersOver
<1>3. row \in [Tensors -> W] /\ \A u \in Tensors : row[u] = IF u = t THEN v ELSE x.tensors[s][u]
  BY <1>2
<1>4. ts \in [1 .. Len(f) -> [Tensors -> W]] /\ \A r \in 1 .. Len(f) : ts[r] = IF r = s THEN row ELSE x.tensors[r]
  <2> HIDE DEF row
  <2>1. [Tensors -> V] \subseteq [Tensors -> W]
    OBVIOUS
  <2>2. row \in [Tensors -> W]
    BY <1>3
  <2> HIDE DEF W
  <2> DEFINE F == [Tensors -> W]
  <2>3. x.tensors \in [1 .. Len(f) -> F] /\ row \in F
    BY <1>2, <2>1, <2>2
  <2> HIDE DEF F
  <2>4. ts \in [1 .. Len(f) -> F] /\ \A r \in 1 .. Len(f) : ts[r] = IF r = s THEN row ELSE x.tensors[r]
    BY <2>3
  <2> QED
    BY <2>4 DEF F
<1>5. y = [x EXCEPT !.tensors = ts]
  BY DEF y, TensorSet
<1> HIDE DEF ts, row
<1>6. y = [tensors |-> ts, variables |-> x.variables, initialized |-> x.initialized]
  BY <1>1, <1>5 DEF InterpretersOver
<1>7. y \in InterpretersOver(f, W)
  <2>1. x.variables \in [Variables(f) -> W]
    BY <1>2
  <2>2. ts \in [1 .. Len(f) -> [Tensors -> W]] /\ x.initialized \in BOOLEAN
    BY <1>2, <1>4
  <2> HIDE DEF W
  <2>3. [tensors |-> ts, variables |-> x.variables, initialized |-> x.initialized] \in InterpretersOver(f, W)
    BY <2>1, <2>2 DEF InterpretersOver
  <2> QED
    BY <1>6, <2>3
<1>8. IsInterpreter(f, y)
  BY <1>7 DEF IsInterpreter
<1> QED
  BY <1>3, <1>4, <1>6, <1>8 DEF y

LEMMA VariableWritten ==
  ASSUME NEW f, NEW x, IsInterpreter(f, x), NEW w \in Variables(f), NEW v
  PROVE  LET y == VariableSet(x, w, v) IN
         /\ IsInterpreter(f, y)
         /\ y.tensors = x.tensors /\ y.initialized = x.initialized
         /\ \A u \in Variables(f) : y.variables[u] = IF u = w THEN v ELSE x.variables[u]
<1> DEFINE y == VariableSet(x, w, v)
<1> HIDE DEF y
<1>1. PICK V : x \in InterpretersOver(f, V)
  BY DEF IsInterpreter
<1> DEFINE W  == V \cup {v}
           vs == [x.variables EXCEPT ![w] = v]
<1>2. /\ x.tensors \in [1 .. Len(f) -> [Tensors -> W]]
      /\ x.variables \in [Variables(f) -> V]
      /\ x.initialized \in BOOLEAN
  BY <1>1 DEF InterpretersOver
<1>3. vs \in [Variables(f) -> W] /\ \A u \in Variables(f) : vs[u] = IF u = w THEN v ELSE x.variables[u]
  BY <1>2
<1> HIDE DEF vs
<1>4. y = [x EXCEPT !.variables = vs]
  BY DEF vs, y, VariableSet
<1>5. y = [tensors |-> x.tensors, variables |-> vs, initialized |-> x.initialized]
  BY <1>1, <1>4 DEF InterpretersOver
<1>6. y \in InterpretersOver(f, W)
  BY <1>2, <1>3, <1>5 DEF InterpretersOver
<1> QED
  BY <1>3, <1>5, <1>6 DEF IsInterpreter, y

LEMMA Initialized ==
  ASSUME NEW f, NEW x, IsInterpreter(f, x), NEW b \in BOOLEAN
  PROVE  LET y == Marked(x, b) IN
         /\ IsInterpreter(f, y)
         /\ y.tensors = x.tensors /\ y.variables = x.variables /\ y.initialized = b
<1> DEFINE y == Marked(x, b)
<1>1. PICK V : x \in InterpretersOver(f, V)
  BY DEF IsInterpreter
<1>2. y \in InterpretersOver(f, V) /\ y.tensors = x.tensors /\ y.variables = x.variables /\ y.initialized = b
  BY <1>1 DEF InterpretersOver, Marked
<1> QED
  BY <1>2 DEF IsInterpreter

LEMMA ClearedVariables ==
  ASSUME NEW f, NEW x, IsInterpreter(f, x)
  PROVE  /\ IsInterpreter(f, Cleared(x))
         /\ Cleared(x).tensors = x.tensors
         /\ Cleared(x).variables = [v \in Variables(f) |-> Zeros]
<1>1. PICK V : x \in InterpretersOver(f, V)
  BY DEF IsInterpreter
<1> DEFINE W  == V \cup {Zeros}
           vs == [v \in Variables(f) |-> Zeros]
<1>2. /\ x.tensors \in [1 .. Len(f) -> [Tensors -> W]]
      /\ DOMAIN x.variables = Variables(f)
      /\ x.initialized \in BOOLEAN
      /\ vs \in [Variables(f) -> W]
  BY <1>1 DEF InterpretersOver
<1>3. Cleared(x) = [x EXCEPT !.variables = vs]
  BY <1>2 DEF Cleared
<1> HIDE DEF vs
<1>4. Cleared(x) = [tensors |-> x.tensors, variables |-> vs, initialized |-> x.initialized]
  BY <1>1, <1>3 DEF InterpretersOver
<1>5. Cleared(x) \in InterpretersOver(f, W)
  BY <1>2, <1>4 DEF InterpretersOver
<1> QED
  BY <1>4, <1>5 DEF IsInterpreter, vs

LEMMA NewIsInterpreter ==
  ASSUME NEW f
  PROVE  /\ IsInterpreter(f, NewInterpreter(f))
         /\ NewInterpreter(f).variables = [v \in Variables(f) |-> Zeros]
         /\ NewInterpreter(f).initialized = FALSE
         /\ \A s \in 1 .. Len(f), t \in Tensors : NewInterpreter(f).tensors[s][t] = Contents(t)
<1> DEFINE V == {Contents(t) : t \in Tensors} \cup {Zeros}
<1>1. NewInterpreter(f) \in InterpretersOver(f, V)
  BY DEF NewInterpreter, InterpretersOver
<1>2. IsInterpreter(f, NewInterpreter(f))
  BY <1>1 DEF IsInterpreter
<1> QED
  BY <1>2 DEF NewInterpreter

-----------------------------------------------------------------------------
(* The two loops over operators are recursive functions, which have the    *)
(* values that their definitions say: there is such a function for no      *)
(* operator, and the one for k - 1 of them extends to k.                   *)

\* After no operator of the init subgraph, and after one more.
LEMMA InitProgressSteps ==
  ASSUME NEW f, NEW x, Len(f[InitSubgraph(f)]) \in Nat
  PROVE  LET P == InitProgress(f, x) IN
         /\ P[0] = Going(x)
         /\ \A i \in 1 .. Len(f[InitSubgraph(f)]) :
              P[i] = IF P[i - 1].error = "none" THEN runStateOp(f, P[i - 1].it, InitSubgraph(f), i) ELSE P[i - 1]
<1> DEFINE n == Len(f[InitSubgraph(f)])
           Step(r, i) == IF r.error = "none" THEN runStateOp(f, r.it, InitSubgraph(f), i) ELSE r
           Steps(g, k) == g = [i \in 0 .. k |-> IF i = 0 THEN Going(x) ELSE Step(g[i - 1], i)]
           Reached == {k \in 0 .. n : \E g : Steps(g, k)}
<1> HIDE DEF Step, n
<1>1. n \in Nat
  BY DEF n
<1>2. 0 \in Reached
  <2>1. Steps([i \in 0 .. 0 |-> Going(x)], 0)
    OBVIOUS
  <2> HIDE DEF Steps
  <2>2. \E g : Steps(g, 0)
    BY <2>1
  <2> QED
    BY <1>1, <2>2
<1>3. ASSUME NEW k \in 1 .. n, k - 1 \in Reached
      PROVE  k \in Reached
  <2>1. PICK g : Steps(g, k - 1)
    BY <1>3
  <2> DEFINE h == [i \in 0 .. k |-> IF i = k THEN Step(g[k - 1], k) ELSE g[i]]
  <2>2. Steps(h, k)
    <3>1. ASSUME NEW i \in 0 .. k
          PROVE  h[i] = IF i = 0 THEN Going(x) ELSE Step(h[i - 1], i)
      <4>1. CASE i = k
        <5>1. h[i - 1] = g[k - 1]
          BY <1>1, <1>3, <4>1
        <5> QED
          BY <1>3, <4>1, <5>1
      <4>2. CASE i # k
        <5>1. i \in 0 .. k - 1 /\ h[i] = g[i] /\ (i # 0 => i - 1 \in 0 .. k /\ i - 1 # k)
          BY <1>1, <1>3, <4>2, <3>1
        <5>2. i # 0 => h[i - 1] = g[i - 1]
          BY <5>1
        <5>3. g[i] = IF i = 0 THEN Going(x) ELSE Step(g[i - 1], i)
          BY <2>1, <5>1
        <5> QED
          BY <5>1, <5>2, <5>3
      <4> QED
        BY <4>1, <4>2
    <3>2. h = [i \in 0 .. k |-> h[i]]
      OBVIOUS
    <3> HIDE DEF h
    <3> QED
      BY <3>1, <3>2
  <2> HIDE DEF h
  <2>3. k \in 0 .. n
    BY <1>1, <1>3
  <2> QED
    BY <2>2, <2>3
<1>4. \E g : Steps(g, n)
  <2>1. Reached \in SUBSET (0 .. n) /\ n \in 0 .. n
    BY <1>1
  <2> HIDE DEF Reached
  <2>2. n \in Reached
    BY <1>1, <1>2, <1>3, <2>1, EveryPlace
  <2> QED
    BY <2>2 DEF Reached
<1> DEFINE P == InitProgress(f, x)
<1>5. P = CHOOSE g : Steps(g, n)
  BY DEF InitProgress, Step, n
<1>6. Steps(P, n)
  BY <1>4, <1>5
<1> HIDE DEF P
<1>7. P[0] = Going(x) /\ \A i \in 1 .. n : P[i] = Step(P[i - 1], i)
  <2>1. P[0] = Going(x)
    BY <1>1, <1>6
  <2>2. ASSUME NEW i \in 1 .. n
        PROVE  P[i] = Step(P[i - 1], i)
    BY <1>1, <1>6, <2>2
  <2> QED
    BY <2>1, <2>2
<1> QED
  BY <1>7 DEF Step, n, P

\* After no operator of the main subgraph, and after one more.
LEMMA ProgressSteps ==
  ASSUME NEW f, NEW x, NEW failing, Len(f[Main]) \in Nat
  PROVE  LET P == Progress(f, x, failing) IN
         /\ P[0] = Going(x)
         /\ \A i \in 1 .. Len(f[Main]) :
              P[i] = IF P[i - 1].error = "none" THEN run(f, P[i - 1].it, i, failing) ELSE P[i - 1]
<1> DEFINE n == Len(f[Main])
           Step(r, i) == IF r.error = "none" THEN run(f, r.it, i, failing) ELSE r
           Steps(g, k) == g = [i \in 0 .. k |-> IF i = 0 THEN Going(x) ELSE Step(g[i - 1], i)]
           Reached == {k \in 0 .. n : \E g : Steps(g, k)}
<1> HIDE DEF Step, n
<1>1. n \in Nat
  BY DEF n
<1>2. 0 \in Reached
  <2>1. Steps([i \in 0 .. 0 |-> Going(x)], 0)
    OBVIOUS
  <2> HIDE DEF Steps
  <2>2. \E g : Steps(g, 0)
    BY <2>1
  <2> QED
    BY <1>1, <2>2
<1>3. ASSUME NEW k \in 1 .. n, k - 1 \in Reached
      PROVE  k \in Reached
  <2>1. PICK g : Steps(g, k - 1)
    BY <1>3
  <2> DEFINE h == [i \in 0 .. k |-> IF i = k THEN Step(g[k - 1], k) ELSE g[i]]
  <2>2. Steps(h, k)
    <3>1. ASSUME NEW i \in 0 .. k
          PROVE  h[i] = IF i = 0 THEN Going(x) ELSE Step(h[i - 1], i)
      <4>1. CASE i = k
        <5>1. h[i - 1] = g[k - 1]
          BY <1>1, <1>3, <4>1
        <5> QED
          BY <1>3, <4>1, <5>1
      <4>2. CASE i # k
        <5>1. i \in 0 .. k - 1 /\ h[i] = g[i] /\ (i # 0 => i - 1 \in 0 .. k /\ i - 1 # k)
          BY <1>1, <1>3, <4>2, <3>1
        <5>2. i # 0 => h[i - 1] = g[i - 1]
          BY <5>1
        <5>3. g[i] = IF i = 0 THEN Going(x) ELSE Step(g[i - 1], i)
          BY <2>1, <5>1
        <5> QED
          BY <5>1, <5>2, <5>3
      <4> QED
        BY <4>1, <4>2
    <3>2. h = [i \in 0 .. k |-> h[i]]
      OBVIOUS
    <3> HIDE DEF h
    <3> QED
      BY <3>1, <3>2
  <2> HIDE DEF h
  <2>3. k \in 0 .. n
    BY <1>1, <1>3
  <2> QED
    BY <2>2, <2>3
<1>4. \E g : Steps(g, n)
  <2>1. Reached \in SUBSET (0 .. n) /\ n \in 0 .. n
    BY <1>1
  <2> HIDE DEF Reached
  <2>2. n \in Reached
    BY <1>1, <1>2, <1>3, <2>1, EveryPlace
  <2> QED
    BY <2>2 DEF Reached
<1> DEFINE P == Progress(f, x, failing)
<1>5. P = CHOOSE g : Steps(g, n)
  BY DEF Progress, Step, n
<1>6. Steps(P, n)
  BY <1>4, <1>5
<1> HIDE DEF P
<1>7. P[0] = Going(x) /\ \A i \in 1 .. n : P[i] = Step(P[i - 1], i)
  <2>1. P[0] = Going(x)
    BY <1>1, <1>6
  <2>2. ASSUME NEW i \in 1 .. n
        PROVE  P[i] = Step(P[i - 1], i)
    BY <1>1, <1>6, <2>2
  <2> QED
    BY <2>1, <2>2
<1> QED
  BY <1>7 DEF Step, n, P

-----------------------------------------------------------------------------
(* One operator, one loop: nothing but a kernel fails, and the tensors that *)
(* hold constants keep them.                                               *)

\* No tensor out of the main subgraph is ever written, and only a file that
\* writes to constants writes to one that is not the input.
Kept(f, x) ==
  \A s \in 1 .. Len(f), t \in Tensors :
    s # Main \/ (WritesNoConstant(f) /\ t \in Constants \ {InputTensor}) => x.tensors[s][t] = Contents(t)

Legit(f, x) == IsInterpreter(f, x) /\ Kept(f, x)

StateCodes == {"VAR_HANDLE", "READ_VARIABLE", "ASSIGN_VARIABLE"}

\* What an operator on the state does, which never fails.
LEMMA StateOperatorStep ==
  ASSUME NEW f, File(f), NEW x, IsInterpreter(f, x),
         NEW s \in 1 .. Len(f), NEW i \in 1 .. Len(f[s]), f[s][i].code \in StateCodes,
         NEW r, r = runStateOp(f, x, s, i)
  PROVE  /\ r.error = "none"
         /\ f[s][i].code = "VAR_HANDLE" => r.it = x
         /\ f[s][i].code = "READ_VARIABLE" =>
              /\ VariableOf(f[s], i) \in Variables(f) /\ f[s][i].outs[1] \in Tensors
              /\ r.it = TensorSet(x, s, f[s][i].outs[1], x.variables[VariableOf(f[s], i)])
         /\ f[s][i].code = "ASSIGN_VARIABLE" =>
              /\ VariableOf(f[s], i) \in Variables(f) /\ f[s][i].ins[2] \in Tensors
              /\ r.it = VariableSet(x, VariableOf(f[s], i), x.tensors[s][f[s][i].ins[2]])
<1> DEFINE op == f[s][i]
           v  == VariableOf(f[s], i)
<1>1. CASE op.code = "VAR_HANDLE"
  BY <1>1 DEF runStateOp, Going
<1>2. CASE op.code = "READ_VARIABLE"
  <2>1. v \in Variables(f) /\ op.outs[1] \in Tensors /\ SameShape(f, v, op.outs[1])
    BY <1>2, StateOperator DEF TouchesState, BoundTensor
  <2>2. r = readVariable(f, x, s, op, v)
    BY <1>2 DEF runStateOp
  <2> QED
    BY <1>2, <2>1, <2>2 DEF readVariable, Going, TensorSet
<1>3. CASE op.code = "ASSIGN_VARIABLE"
  <2>1. v \in Variables(f) /\ op.ins[2] \in Tensors /\ SameShape(f, v, op.ins[2])
    BY <1>3, StateOperator DEF TouchesState, BoundTensor
  <2>2. r = assignVariable(f, x, s, op, v)
    BY <1>3 DEF runStateOp
  <2> QED
    BY <1>3, <2>1, <2>2 DEF assignVariable, Going, VariableSet
<1> QED
  BY <1>1, <1>2, <1>3 DEF StateCodes

\* The init subgraph, from any state: it writes variables and nothing else.
LEMMA InitRuns ==
  ASSUME NEW f, File(f), InitSubgraph(f) # NoSubgraph, NEW x, IsInterpreter(f, x)
  PROVE  \A i \in 0 .. Len(f[InitSubgraph(f)]) :
           LET r == InitProgress(f, x)[i] IN
           /\ r.error = "none" /\ IsInterpreter(f, r.it)
           /\ r.it.tensors = x.tensors
<1> DEFINE s == InitSubgraph(f)
           n == Len(f[s])
           P == InitProgress(f, x)
           Fine(r) == r.error = "none" /\ IsInterpreter(f, r.it) /\ r.it.tensors = x.tensors
           S == {i \in 0 .. n : Fine(P[i])}
<1>1. s \in 1 .. Len(f) /\ \A i \in 1 .. n : f[s][i].code \in {"VAR_HANDLE", "ASSIGN_VARIABLE"}
  BY InitFacts
<1>2. n \in Nat
  BY <1>1, FilePlaces
<1> HIDE DEF n, s
<1>3. P[0] = Going(x) /\ \A i \in 1 .. n :
        P[i] = IF P[i - 1].error = "none" THEN runStateOp(f, P[i - 1].it, s, i) ELSE P[i - 1]
  BY <1>2, InitProgressSteps DEF n, s
<1> HIDE DEF P
<1>4. 0 \in S
  BY <1>2, <1>3 DEF Going
<1>5. ASSUME NEW i \in 1 .. n, i - 1 \in S
      PROVE  i \in S
  <2> DEFINE z == P[i - 1].it
  <2>1. Fine(P[i - 1])
    BY <1>5
  <2>2. P[i] = runStateOp(f, z, s, i)
    BY <1>3, <2>1
  <2>3. f[s][i].code \in {"VAR_HANDLE", "ASSIGN_VARIABLE"} /\ i \in 1 .. Len(f[s])
    BY <1>1 DEF n
  <2>4. /\ P[i].error = "none"
        /\ f[s][i].code = "VAR_HANDLE" => P[i].it = z
        /\ f[s][i].code = "ASSIGN_VARIABLE" =>
             /\ VariableOf(f[s], i) \in Variables(f)
             /\ P[i].it = VariableSet(z, VariableOf(f[s], i), z.tensors[s][f[s][i].ins[2]])
    <3> HIDE DEF z
    <3>1. IsInterpreter(f, z) /\ f[s][i].code \in StateCodes
      BY <2>1, <2>3 DEF z, StateCodes
    <3> QED
      BY <1>1, <2>2, <2>3, <3>1, StateOperatorStep
  <2>5. Fine(P[i])
    <3>1. CASE f[s][i].code = "VAR_HANDLE"
      BY <2>1, <2>4, <3>1
    <3>2. CASE f[s][i].code = "ASSIGN_VARIABLE"
      BY <2>1, <2>4, <3>2, VariableWritten
    <3> QED
      BY <2>3, <3>1, <3>2
  <2>6. i \in 0 .. n
    BY <1>2
  <2> QED
    BY <2>5, <2>6
<1>6. \A i \in 0 .. n : i \in S
  <2>1. S \in SUBSET (0 .. n)
    OBVIOUS
  <2> HIDE DEF S
  <2> QED
    BY <1>2, <1>4, <1>5, <2>1, EveryPlace
<1> QED
  BY <1>6 DEF P, n, s

LEMMA InitSucceeds ==
  ASSUME NEW f, File(f), InitSubgraph(f) # NoSubgraph, NEW x, IsInterpreter(f, x)
  PROVE  LET r == runInit(f, x) IN
         /\ r.error = "none" /\ IsInterpreter(f, r.it)
         /\ r.it.tensors = x.tensors /\ r.it.initialized = TRUE
         /\ r.it.variables = InitProgress(f, x)[Len(f[InitSubgraph(f)])].it.variables
<1> DEFINE n == Len(f[InitSubgraph(f)])
           r == InitProgress(f, x)[n]
<1>1. n \in Nat
  BY InitFacts, FilePlaces
<1>2. r.error = "none" /\ IsInterpreter(f, r.it) /\ r.it.tensors = x.tensors
  <2>1. n \in 0 .. n
    BY <1>1
  <2> QED
    BY <2>1, InitRuns
<1>3. runInit(f, x) = Going(Marked(r.it, TRUE))
  BY <1>2 DEF runInit, Marked
<1> HIDE DEF r
<1> DEFINE y == Marked(r.it, TRUE)
<1>4. IsInterpreter(f, y) /\ y.tensors = r.it.tensors /\ y.variables = r.it.variables /\ y.initialized = TRUE
  BY <1>2, Initialized
<1> HIDE DEF y
<1>5. runInit(f, x).it = y /\ runInit(f, x).error = "none"
  BY <1>3 DEF Going, y
<1> QED
  BY <1>2, <1>4, <1>5 DEF r

\* What the operators of the main subgraph keep, an operator that fails too.
LEMMA OperatorStep ==
  ASSUME NEW f, File(f), NEW x, Legit(f, x),
         NEW i \in 1 .. Len(f[Main]), NEW failing
  PROVE  LET r == run(f, x, i, failing) IN
         /\ r.error \in {"none", "kernel"} /\ Legit(f, r.it)
         /\ x.initialized = TRUE => r.it.initialized = TRUE
<1> DEFINE op == f[Main][i]
           r  == run(f, x, i, failing)
<1>1. Main \in 1 .. Len(f) /\ OperandsOK(op) /\ op \in Operators /\ <<Main, i>> \in Positions(f)
  BY FilePlaces
<1>2. WritesNoConstant(f) => \A k \in 1 .. Len(op.outs) : op.outs[k] \notin Constants
  <2>1. f[<<Main, i>>[1]][<<Main, i>>[2]] = op
    OBVIOUS
  <2> QED
    BY <1>1, <2>1 DEF WritesNoConstant
<1>3. IsInterpreter(f, x) /\ Kept(f, x)
  BY DEF Legit
<1> HIDE DEF op
<1>4. ASSUME NEW t \in Tensors, NEW v, WritesNoConstant(f) => t \notin Constants
      PROVE  Legit(f, TensorSet(x, Main, t, v)) /\ TensorSet(x, Main, t, v).initialized = x.initialized
  <2> DEFINE y == TensorSet(x, Main, t, v)
  <2>1. /\ IsInterpreter(f, y) /\ y.initialized = x.initialized
        /\ \A q \in 1 .. Len(f), u \in Tensors :
             y.tensors[q][u] = IF q = Main /\ u = t THEN v ELSE x.tensors[q][u]
    BY <1>1, <1>3, TensorWritten
  <2> HIDE DEF y
  <2>2. Kept(f, y)
    BY <1>3, <1>4, <2>1 DEF Kept
  <2> QED
    BY <2>1, <2>2 DEF Legit, y
<1>5. CASE op.code = "CALL_ONCE"
  <2>1. InitSubgraph(f) # NoSubgraph
    <3>1. <<Main, i>> \in CallOnces(f)
      BY <1>1, <1>5 DEF CallOnces, op
    <3> QED
      BY <3>1 DEF InitSubgraph, NoSubgraph, InitSubgraphIndex
  <2>2. r = callOnce(f, x)
    BY <1>5 DEF run, op
  <2>3. CASE x.initialized
    BY <2>2, <2>3 DEF callOnce, Going
  <2>4. CASE ~ x.initialized
    <3>1. r = runInit(f, x)
      BY <2>2, <2>4 DEF callOnce
    <3> HIDE DEF r
    <3>2. r.error = "none" /\ IsInterpreter(f, r.it) /\ r.it.tensors = x.tensors /\ r.it.initialized = TRUE
      BY <1>3, <2>1, <3>1, InitSucceeds
    <3>3. Kept(f, r.it)
      BY <1>3, <3>2 DEF Kept
    <3> QED
      BY <3>2, <3>3 DEF Legit, r
  <2> QED
    BY <2>3, <2>4
<1>6. CASE op.code = "KERNEL"
  <2>1. op.outs[1] \in Tensors /\ (WritesNoConstant(f) => op.outs[1] \notin Constants)
    BY <1>1, <1>2, <1>6 DEF OperandsOK, Arity
  <2>2. r = runKernel(x, op, i = failing)
    BY <1>6 DEF run, op
  <2>3. \E v : r.it = TensorSet(x, Main, op.outs[1], v) /\ r.error \in {"none", "kernel"}
    <3> DEFINE args == [k \in 1 .. Len(op.ins) |-> x.tensors[Main][op.ins[k]]]
    <3>1. r = IF i = failing THEN Fails(TensorSet(x, Main, op.outs[1], Torn), "kernel")
              ELSE Going(TensorSet(x, Main, op.outs[1], <<op.name>> \o args))
      BY <2>2 DEF runKernel, TensorSet
    <3> HIDE DEF args, r
    <3> QED
      BY <3>1 DEF Going, Fails
  <2> HIDE DEF r
  <2>4. Legit(f, r.it) /\ r.it.initialized = x.initialized
    BY <1>4, <2>1, <2>3
  <2> QED
    BY <2>3, <2>4 DEF r
<1>7. CASE op.code \in StateCodes
  <2>1. r = runStateOp(f, x, Main, i)
    BY <1>7 DEF run, op, StateCodes
  <2> HIDE DEF r
  <2>2. /\ r.error = "none"
        /\ op.code = "VAR_HANDLE" => r.it = x
        /\ op.code = "READ_VARIABLE" =>
             op.outs[1] \in Tensors /\ \E v : r.it = TensorSet(x, Main, op.outs[1], v)
        /\ op.code = "ASSIGN_VARIABLE" =>
             \E w \in Variables(f) : \E v : r.it = VariableSet(x, w, v)
    BY <1>1, <1>3, <1>7, <2>1, StateOperatorStep DEF op
  <2>3. CASE op.code = "VAR_HANDLE"
    BY <2>2, <2>3 DEF r
  <2>4. CASE op.code = "READ_VARIABLE"
    <3>1. WritesNoConstant(f) => op.outs[1] \notin Constants
      BY <1>1, <1>2, <2>4 DEF OperandsOK, Arity
    <3> QED
      BY <1>4, <2>2, <2>4, <3>1 DEF r
  <2>5. CASE op.code = "ASSIGN_VARIABLE"
    <3>0. PICK w \in Variables(f) : \E v : r.it = VariableSet(x, w, v)
      BY <2>2, <2>5
    <3>1. PICK v : r.it = VariableSet(x, w, v)
      BY <3>0
    <3>2. IsInterpreter(f, r.it) /\ r.it.tensors = x.tensors /\ r.it.initialized = x.initialized
      BY <1>3, <3>1, VariableWritten
    <3>3. Kept(f, r.it)
      BY <1>3, <3>2 DEF Kept
    <3> QED
      BY <2>2, <3>2, <3>3 DEF Legit, r
  <2> QED
    BY <1>7, <2>3, <2>4, <2>5 DEF StateCodes
<1> QED
  BY <1>1, <1>5, <1>6, <1>7 DEF OperandsOK, StateCodes

LEMMA GivenLegit ==
  ASSUME NEW f, File(f), NEW x, Legit(f, x), NEW u
  PROVE  LET y == Given(x, u) IN
         /\ Legit(f, y)
         /\ y.variables = x.variables /\ y.initialized = x.initialized
         /\ \A t \in Tensors : y.tensors[Main][t] = IF t = InputTensor THEN u ELSE x.tensors[Main][t]
<1> DEFINE y == Given(x, u)
<1>1. y = TensorSet(x, Main, InputTensor, u)
  BY DEF Given, TensorSet
<1> HIDE DEF y
<1>2. /\ IsInterpreter(f, y)
      /\ y.variables = x.variables /\ y.initialized = x.initialized
      /\ \A q \in 1 .. Len(f), t \in Tensors :
           y.tensors[q][t] = IF q = Main /\ t = InputTensor THEN u ELSE x.tensors[q][t]
  BY <1>1, TensorWritten, FilePlaces, InterpreterAssumption DEF Legit
<1>3. Kept(f, y)
  BY <1>2 DEF Kept, Legit
<1>4. Main \in 1 .. Len(f)
  BY FilePlaces
<1> QED
  BY <1>2, <1>3, <1>4 DEF Legit, y

\* The main subgraph, from any legitimate state.
LEMMA InvokeRuns ==
  ASSUME NEW f, File(f), NEW x, Legit(f, x), NEW u, NEW failing
  PROVE  LET r == Invoked(f, x, u, failing) IN
         r.error \in {"none", "kernel"} /\ Legit(f, r.it)
<1> DEFINE n == Len(f[Main])
           P == Progress(f, Given(x, u), failing)
           Fine(r) == r.error \in {"none", "kernel"} /\ Legit(f, r.it)
           S == {i \in 0 .. n : Fine(P[i])}
<1>1. n \in Nat
  BY FilePlaces
<1>2. P[0] = Going(Given(x, u)) /\ \A i \in 1 .. n :
        P[i] = IF P[i - 1].error = "none" THEN run(f, P[i - 1].it, i, failing) ELSE P[i - 1]
  BY <1>1, ProgressSteps
<1>3. Invoked(f, x, u, failing) = P[n]
  BY DEF Invoked
<1> HIDE DEF P
<1>4. 0 \in S
  BY <1>1, <1>2, GivenLegit DEF Going
<1>5. ASSUME NEW i \in 1 .. n, i - 1 \in S
      PROVE  i \in S
  <2>1. Fine(P[i - 1]) /\ i \in 0 .. n
    BY <1>1, <1>5
  <2>2. CASE P[i - 1].error = "none"
    <3> DEFINE z == P[i - 1].it
    <3> HIDE DEF z
    <3>1. Legit(f, z) /\ P[i] = run(f, z, i, failing)
      BY <1>2, <2>1, <2>2 DEF z
    <3>2. Fine(P[i])
      BY <3>1, OperatorStep
    <3> QED
      BY <2>1, <3>2
  <2>3. CASE P[i - 1].error # "none"
    BY <1>2, <2>1, <2>3
  <2> QED
    BY <2>2, <2>3
<1>6. \A i \in 0 .. n : i \in S
  <2>1. S \in SUBSET (0 .. n)
    OBVIOUS
  <2> HIDE DEF S, n
  <2> QED
    BY <1>1, <1>4, <1>5, <2>1, EveryPlace
<1> QED
  BY <1>1, <1>3, <1>6

\* Reset runs no kernel, and so never fails.
LEMMA ResetSucceeds ==
  ASSUME NEW f, File(f), NEW x, Legit(f, x)
  PROVE  LET r == WasReset(f, x) IN
         /\ r.error = "none" /\ Legit(f, r.it) /\ r.it.initialized = TRUE
         /\ InitSubgraph(f) = NoSubgraph => r.it.variables = [v \in Variables(f) |-> Zeros]
         /\ InitSubgraph(f) # NoSubgraph =>
              IsInterpreter(f, Marked(x, FALSE)) /\ r = runInit(f, Marked(x, FALSE))
<1> DEFINE r == WasReset(f, x)
<1>1. IsInterpreter(f, x) /\ Kept(f, x)
  BY DEF Legit
<1>2. CASE InitSubgraph(f) = NoSubgraph
  <2>1. r = Going(Marked(Cleared(x), TRUE))
    BY <1>2 DEF WasReset, Marked
  <2> HIDE DEF r
  <2>2. /\ IsInterpreter(f, Cleared(x)) /\ Cleared(x).tensors = x.tensors
        /\ Cleared(x).variables = [v \in Variables(f) |-> Zeros]
    BY <1>1, ClearedVariables
  <2> DEFINE y == Marked(Cleared(x), TRUE)
  <2>3. /\ IsInterpreter(f, y) /\ y.tensors = x.tensors /\ y.initialized = TRUE
        /\ y.variables = [v \in Variables(f) |-> Zeros]
    <3>1. /\ IsInterpreter(f, y) /\ y.initialized = TRUE
          /\ y.tensors = Cleared(x).tensors /\ y.variables = Cleared(x).variables
      BY <2>2, Initialized
    <3> HIDE DEF y
    <3> QED
      BY <2>2, <3>1
  <2>4. r.it = y /\ r.error = "none"
    BY <2>1 DEF Going
  <2> HIDE DEF y
  <2>5. Kept(f, y)
    BY <1>1, <2>3 DEF Kept
  <2> QED
    BY <1>2, <2>3, <2>4, <2>5 DEF Legit, r
<1>3. CASE InitSubgraph(f) # NoSubgraph
  <2>1. r = runInit(f, Marked(x, FALSE))
    BY <1>3 DEF WasReset, Marked
  <2> HIDE DEF r
  <2> DEFINE y == Marked(x, FALSE)
  <2>2. IsInterpreter(f, y) /\ y.tensors = x.tensors
    BY <1>1, Initialized
  <2>3. r = runInit(f, y)
    BY <2>1
  <2> HIDE DEF y
  <2>4. r.error = "none" /\ IsInterpreter(f, r.it) /\ r.it.tensors = y.tensors /\ r.it.initialized = TRUE
    BY <1>3, <2>2, <2>3, InitSucceeds
  <2>5. Kept(f, r.it)
    BY <1>1, <2>2, <2>4 DEF Kept
  <2> QED
    BY <1>3, <2>1, <2>2, <2>4, <2>5 DEF Legit, r, y
<1> QED
  BY <1>2, <1>3

LEMMA NewLegit ==
  ASSUME NEW f
  PROVE  Legit(f, NewInterpreter(f))
BY NewIsInterpreter DEF Legit, Kept

-----------------------------------------------------------------------------
(* Nothing but a kernel fails. *)

LegitInv ==
  /\ File(file)
  /\ Legit(file, it)
  /\ error \in {"none", "kernel"}
  /\ twin # NoTwin => Legit(file, twin)

LEMMA LegitInit == Init => LegitInv
<1> SUFFICES ASSUME Init PROVE LegitInv
  OBVIOUS
<1>1. File(file)
  BY FilesAssumption DEF Init, File
<1>2. Legit(file, it) /\ error = "none" /\ twin = NoTwin
  BY NewLegit DEF Init
<1> QED
  BY <1>1, <1>2 DEF LegitInv

LEMMA LegitNext == LegitInv /\ [Next]_vars => LegitInv'
<1> SUFFICES ASSUME LegitInv, [Next]_vars PROVE LegitInv'
  OBVIOUS
<1>0. /\ File(file)
      /\ Legit(file, it)
      /\ twin # NoTwin => Legit(file, twin)
  BY DEF LegitInv
<1>1. ASSUME NEW failing, Invoke(failing)
      PROVE  LegitInv'
  <2>1. /\ file' = file
        /\ it' = Invoked(file, it, NextInput, failing).it
        /\ error' = Invoked(file, it, NextInput, failing).error
        /\ twin' = IF twin = NoTwin THEN NoTwin ELSE Invoked(file, twin, NextInput, failing).it
    BY <1>1 DEF Invoke
  <2>2. Legit(file, it') /\ error' \in {"none", "kernel"}
    BY <1>0, <2>1, InvokeRuns
  <2>3. twin' # NoTwin => Legit(file, twin')
    BY <1>0, <2>1, InvokeRuns
  <2> QED
    BY <1>0, <2>1, <2>2, <2>3 DEF LegitInv
<1>2. CASE Reset
  <2>1. /\ file' = file
        /\ it' = WasReset(file, it).it /\ error' = WasReset(file, it).error
        /\ twin' = NewInterpreter(file)
    BY <1>2 DEF Reset
  <2>2. Legit(file, it') /\ error' = "none"
    BY <1>0, <2>1, ResetSucceeds
  <2> QED
    BY <1>0, <2>1, <2>2, NewLegit DEF LegitInv
<1>3. CASE UNCHANGED vars
  BY <1>3 DEF LegitInv, vars
<1> QED
  BY <1>1, <1>2, <1>3 DEF Next

\* For every model that Load accepts, with any kernels, failing anywhere: no
\* state operator fails, a missing variable or a wrong size is never met, and
\* Reset always succeeds (validate and bind against readVariable,
\* assignVariable and Reset).
THEOREM NothingButKernelsFail == Spec => []StateOperatorsSucceed
<1>1. LegitInv => StateOperatorsSucceed
  BY DEF LegitInv, StateOperatorsSucceed
<1> QED
  BY LegitInit, LegitNext, <1>1, PTL DEF Spec

-----------------------------------------------------------------------------
(* After a Reset, a new interpreter beside the one that was reset.          *)

\* Interpreters with the same variables, one by one, have the same function.
LEMMA SameVariables ==
  ASSUME NEW f, NEW x, NEW y, IsInterpreter(f, x), IsInterpreter(f, y),
         \A w \in Variables(f) : x.variables[w] = y.variables[w]
  PROVE  x.variables = y.variables
<1>1. PICK V : x \in InterpretersOver(f, V)
  BY DEF IsInterpreter
<1>2. PICK W : y \in InterpretersOver(f, W)
  BY DEF IsInterpreter
<1>3. x.variables \in [Variables(f) -> V] /\ y.variables \in [Variables(f) -> W]
  BY <1>1, <1>2 DEF InterpretersOver
<1> QED
  BY <1>3

\* An init subgraph that assigns every variable gives them the same values
\* from any state, as the constants it reads are never written.
LEMMA InitForgets ==
  ASSUME File(file), InitAssignsAll, InitSubgraph(file) # NoSubgraph,
         NEW x, IsInterpreter(file, x), NEW y, IsInterpreter(file, y),
         \A t \in Tensors : x.tensors[InitSubgraph(file)][t] = y.tensors[InitSubgraph(file)][t]
  PROVE  runInit(file, x).it.variables = runInit(file, y).it.variables
<1> DEFINE f == file
           s == InitSubgraph(f)
           n == Len(f[s])
           P == InitProgress(f, x)
           Q == InitProgress(f, y)
           Assigns(j) == f[s][j].code = "ASSIGN_VARIABLE"
           Assigned(i) == {VariableOf(f[s], j) : j \in {k \in 1 .. i : Assigns(k)}}
           Same(i) == \A w \in Variables(f) \cap Assigned(i) : P[i].it.variables[w] = Q[i].it.variables[w]
           S == {i \in 0 .. n : Same(i)}
<1>1. s \in 1 .. Len(f) /\ \A i \in 1 .. n : f[s][i].code \in {"VAR_HANDLE", "ASSIGN_VARIABLE"}
  BY InitFacts
<1>2. n \in Nat
  BY <1>1, FilePlaces
<1>3. /\ \A i \in 1 .. n : P[i] = IF P[i - 1].error = "none" THEN runStateOp(f, P[i - 1].it, s, i) ELSE P[i - 1]
      /\ \A i \in 1 .. n : Q[i] = IF Q[i - 1].error = "none" THEN runStateOp(f, Q[i - 1].it, s, i) ELSE Q[i - 1]
  BY <1>2, InitProgressSteps
<1>4. \A i \in 0 .. n :
        /\ P[i].error = "none" /\ IsInterpreter(f, P[i].it) /\ P[i].it.tensors = x.tensors
        /\ Q[i].error = "none" /\ IsInterpreter(f, Q[i].it) /\ Q[i].it.tensors = y.tensors
  BY InitRuns
<1>5. runInit(f, x).it.variables = P[n].it.variables /\ runInit(f, y).it.variables = Q[n].it.variables
  BY InitSucceeds
<1>6. \A v \in Variables(f) : v \in Assigned(n)
  BY DEF InitAssignsAll
<1>7. \A t \in Tensors : x.tensors[s][t] = y.tensors[s][t]
  OBVIOUS
<1>13. File(f)
  OBVIOUS
<1> HIDE DEF P, Q, s, f, Assigned, Assigns
<1>8. 0 \in S
  <2>1. Assigned(0) = {}
    BY DEF Assigned
  <2> QED
    BY <1>2, <2>1
<1>9. ASSUME NEW i \in 1 .. n, i - 1 \in S
      PROVE  i \in S
  <2> DEFINE p == P[i - 1].it
             q == Q[i - 1].it
             v == VariableOf(f[s], i)
  <2>1. i - 1 \in 0 .. n /\ i \in 0 .. n /\ i \in Nat
    BY <1>2, <1>9
  <2>2. /\ IsInterpreter(f, p) /\ p.tensors = x.tensors /\ P[i] = runStateOp(f, p, s, i)
        /\ IsInterpreter(f, q) /\ q.tensors = y.tensors /\ Q[i] = runStateOp(f, q, s, i)
    BY <1>3, <1>4, <2>1
  <2>3. \A w \in Variables(f) \cap Assigned(i - 1) : p.variables[w] = q.variables[w]
    BY <1>9
  <2> HIDE DEF p, q
  <2>4. CASE f[s][i].code = "VAR_HANDLE"
    <3>1. P[i].it = p /\ Q[i].it = q
      BY <1>13, <1>1, <2>2, <2>4, StateOperatorStep DEF StateCodes
    <3>2. \A w \in Assigned(i) : w \in Assigned(i - 1)
      BY <2>1, <2>4 DEF Assigned, Assigns
    <3> QED
      BY <2>1, <2>3, <3>1, <3>2
  <2>5. CASE f[s][i].code = "ASSIGN_VARIABLE"
    <3> DEFINE t == f[s][i].ins[2]
    <3>1. /\ v \in Variables(f) /\ t \in Tensors
          /\ P[i].it = VariableSet(p, v, p.tensors[s][t])
          /\ Q[i].it = VariableSet(q, v, q.tensors[s][t])
      BY <1>13, <1>1, <2>2, <2>5, StateOperatorStep DEF StateCodes
    <3>2. p.tensors[s][t] = q.tensors[s][t]
      BY <1>7, <2>2, <3>1
    <3> HIDE DEF t, v
    <3>3. \A w \in Variables(f) :
            /\ P[i].it.variables[w] = IF w = v THEN p.tensors[s][t] ELSE p.variables[w]
            /\ Q[i].it.variables[w] = IF w = v THEN q.tensors[s][t] ELSE q.variables[w]
      BY <2>2, <3>1, VariableWritten
    <3>4. \A w \in Assigned(i) : w = v \/ w \in Assigned(i - 1)
      BY <2>1 DEF Assigned, Assigns, v
    <3> QED
      BY <2>1, <2>3, <3>2, <3>3, <3>4
  <2> QED
    BY <1>1, <2>4, <2>5
<1>10. \A i \in 0 .. n : i \in S
  <2>1. S \in SUBSET (0 .. n)
    OBVIOUS
  <2> HIDE DEF S
  <2> QED
    BY <1>2, <1>8, <1>9, <2>1, EveryPlace
<1>11. \A w \in Variables(f) : P[n].it.variables[w] = Q[n].it.variables[w]
  BY <1>2, <1>6, <1>10
<1>12. P[n].it.variables = Q[n].it.variables
  <2>1. IsInterpreter(f, P[n].it) /\ IsInterpreter(f, Q[n].it)
    BY <1>2, <1>4
  <2> QED
    BY <1>11, <2>1, SameVariables
<1> QED
  BY <1>5, <1>12 DEF f

\* The variables as the init subgraph of a new interpreter sets them.
InitValues == runInit(file, NewInterpreter(file)).it.variables

LEMMA InitSetsInitValues ==
  ASSUME File(file), InitAssignsAll, InitSubgraph(file) # NoSubgraph, NEW x, IsInterpreter(file, x), Kept(file, x)
  PROVE  runInit(file, x).it.variables = InitValues
<1> DEFINE y == NewInterpreter(file)
<1>1. IsInterpreter(file, y) /\ Kept(file, y)
  BY NewLegit DEF Legit
<1>2. InitSubgraph(file) \in 1 .. Len(file) /\ InitSubgraph(file) # Main
  BY InitFacts
<1> HIDE DEF y
<1>3. \A t \in Tensors : x.tensors[InitSubgraph(file)][t] = y.tensors[InitSubgraph(file)][t]
  BY <1>1, <1>2 DEF Kept
<1>4. runInit(file, x).it.variables = runInit(file, y).it.variables
  BY <1>1, <1>3, InitForgets
<1> QED
  BY <1>4 DEF InitValues, y

\* What operator i adds to the tensors written.
LEMMA WrittenGrows ==
  ASSUME NEW i \in Nat \ {0}
  PROVE  Written(i + 1) = Written(i) \cup {file[Main][i].outs[k] : k \in 1 .. Len(file[Main][i].outs)}
<1> DEFINE Outs(j) == {file[Main][j].outs[k] : k \in 1 .. Len(file[Main][j].outs)}
<1>1. Written(i + 1) = Constants \cup {InputTensor} \cup UNION {Outs(j) : j \in 1 .. i + 1 - 1}
  BY DEF Written
<1>2. Written(i) = Constants \cup {InputTensor} \cup UNION {Outs(j) : j \in 1 .. i - 1}
  BY DEF Written
<1>3. i + 1 - 1 = i /\ 1 .. i = (1 .. i - 1) \cup {i}
  OBVIOUS
<1> HIDE DEF Outs
<1>4. UNION {Outs(j) : j \in 1 .. i} = (UNION {Outs(j) : j \in 1 .. i - 1}) \cup Outs(i)
  BY <1>3
<1> QED
  BY <1>1, <1>2, <1>3, <1>4 DEF Outs

\* The interpreter that was reset, x, runs ahead of the new one, y: its init
\* subgraph has run already.
Follows(x, y) ==
  /\ Legit(file, x) /\ Legit(file, y)
  /\ x.initialized = TRUE
  /\ x.variables = IF y.initialized = TRUE \/ InitSubgraph(file) = NoSubgraph THEN y.variables ELSE InitValues

\* After i operators of the main subgraph the two hold the same data, and an
\* init subgraph that y has not run is still to come.
Agree(i, x, y) ==
  /\ \A t \in Written(i + 1) \cap Tensors : x.tensors[Main][t] = y.tensors[Main][t]
  /\ y.initialized # TRUE => \A p \in CallOnces(file) : i < p[2]

\* One operator on both: the same error, and they stay together.
LEMMA PairStep ==
  ASSUME File(file), WellFormed,
         NEW i \in 1 .. Len(file[Main]), NEW failing,
         NEW x, NEW y, Follows(x, y), Agree(i - 1, x, y)
  PROVE  LET r == run(file, x, i, failing)
             q == run(file, y, i, failing)
         IN /\ r.error = q.error
            /\ Follows(r.it, q.it)
            /\ r.error = "none" => Agree(i, r.it, q.it)
<1> DEFINE op == file[Main][i]
           r == run(file, x, i, failing)
           q == run(file, y, i, failing)
           Done == r.error = q.error /\ Follows(r.it, q.it) /\ (r.error = "none" => Agree(i, r.it, q.it))
<1> SUFFICES Done
  OBVIOUS
<1>1. /\ Main \in 1 .. Len(file) /\ OperandsOK(op) /\ op \in Operators
      /\ <<Main, i>> \in Positions(file) /\ Len(file[Main]) \in Nat
  BY FilePlaces
<1>2. /\ Legit(file, x) /\ IsInterpreter(file, x) /\ x.initialized = TRUE
      /\ Legit(file, y) /\ IsInterpreter(file, y)
  BY DEF Follows, Legit
<1>3. Legit(file, r.it) /\ Legit(file, q.it) /\ r.it.initialized = TRUE
  BY <1>2, OperatorStep
<1>4. i \in Nat \ {0} /\ (i - 1) + 1 = i
  BY <1>1
<1>5. \A t \in Written(i) \cap Tensors : x.tensors[Main][t] = y.tensors[Main][t]
  BY <1>4 DEF Agree
<1>6. Written(i + 1) = Written(i) \cup {op.outs[k] : k \in 1 .. Len(op.outs)}
  BY <1>4, WrittenGrows
<1>7. DataRead(op) \subseteq Written(i)
  BY DEF WellFormed, InOrder
\* A CALL_ONCE that y has not run stays to come after any other operator.
<1>8. op.code # "CALL_ONCE" /\ y.initialized # TRUE => \A p \in CallOnces(file) : i < p[2]
  <2> SUFFICES ASSUME op.code # "CALL_ONCE", y.initialized # TRUE, NEW p \in CallOnces(file)
               PROVE  i < p[2]
    OBVIOUS
  <2>1. p[1] = Main /\ p \in Positions(file) /\ file[p[1]][p[2]].code = "CALL_ONCE"
    BY DEF File, Accepted, CallOnceOK, CallOnces
  <2>2. p[2] \in 1 .. Len(file[Main])
    BY <2>1 DEF Positions
  <2>3. p[2] # i
    BY <2>1
  <2>4. i - 1 < p[2]
    BY DEF Agree
  <2> QED
    BY <1>1, <2>2, <2>3, <2>4
\* Before it, no operator touches the state.
<1>9. TouchesState(op) => y.initialized = TRUE \/ InitSubgraph(file) = NoSubgraph
  <2> SUFFICES ASSUME TouchesState(op), y.initialized # TRUE, InitSubgraph(file) # NoSubgraph
               PROVE  FALSE
    OBVIOUS
  <2>1. PICK p \in CallOnces(file) : TRUE
    BY DEF InitSubgraph
  <2>2. i < p[2]
    BY <1>8, <2>1 DEF TouchesState
  <2>3. p[2] \in Nat
    BY <1>1, <2>1 DEF CallOnces, Positions, File, Accepted, CallOnceOK
  <2>4. i \in 1 .. p[2] - 1
    BY <1>4, <2>2, <2>3
  <2> QED
    BY <2>1, <2>4 DEF WellFormed, InitRunsFirst
<1> HIDE DEF op, r, q
\* Both write v to tensor t.
<1>10. ASSUME NEW t \in Tensors, NEW v, r.it = TensorSet(x, Main, t, v), q.it = TensorSet(y, Main, t, v)
       PROVE  /\ Follows(r.it, q.it) /\ q.it.initialized = y.initialized
              /\ \A u \in Tensors : u = t \/ u \in Written(i) => r.it.tensors[Main][u] = q.it.tensors[Main][u]
  <2>1. /\ r.it.variables = x.variables /\ r.it.initialized = x.initialized
        /\ \A u \in Tensors : r.it.tensors[Main][u] = IF u = t THEN v ELSE x.tensors[Main][u]
    BY <1>1, <1>2, <1>10, TensorWritten
  <2>2. /\ q.it.variables = y.variables /\ q.it.initialized = y.initialized
        /\ \A u \in Tensors : q.it.tensors[Main][u] = IF u = t THEN v ELSE y.tensors[Main][u]
    BY <1>1, <1>2, <1>10, TensorWritten
  <2>3. Follows(r.it, q.it)
    BY <1>3, <2>1, <2>2 DEF Follows
  <2>4. \A u \in Tensors : u = t \/ u \in Written(i) => r.it.tensors[Main][u] = q.it.tensors[Main][u]
    BY <1>5, <2>1, <2>2
  <2> QED
    BY <2>2, <2>3, <2>4
<1>11. CASE op.code = "CALL_ONCE"
  <2>1. InitSubgraph(file) # NoSubgraph
    <3>1. <<Main, i>> \in CallOnces(file)
      BY <1>1, <1>11 DEF CallOnces, op
    <3> QED
      BY <3>1 DEF InitSubgraph, NoSubgraph, InitSubgraphIndex
  <2>2. r = callOnce(file, x) /\ q = callOnce(file, y)
    BY <1>11 DEF run, op, r, q
  <2>3. r.it = x /\ r.error = "none"
    BY <1>2, <2>2 DEF callOnce, Going
  <2>4. Written(i + 1) = Written(i)
    <3>1. Len(op.outs) = 0
      BY <1>1, <1>11 DEF OperandsOK, Arity
    <3>2. {op.outs[k] : k \in 1 .. Len(op.outs)} = {}
      BY <3>1
    <3> QED
      BY <1>6, <3>2
  <2>5. /\ q.error = "none" /\ q.it.tensors = y.tensors
        /\ q.it.initialized = TRUE /\ q.it.variables = x.variables
    <3>1. CASE y.initialized = TRUE
      <4>1. q.it = y /\ q.error = "none"
        BY <2>2, <3>1 DEF callOnce, Going
      <4> QED
        BY <3>1, <4>1 DEF Follows
    <3>2. CASE y.initialized # TRUE
      <4>1. y.initialized \in BOOLEAN
        BY <1>2 DEF IsInterpreter, InterpretersOver
      <4>2. q = runInit(file, y)
        BY <2>2, <3>2, <4>1 DEF callOnce
      <4>3. q.error = "none" /\ q.it.tensors = y.tensors /\ q.it.initialized = TRUE
        BY <1>2, <2>1, <4>2, InitSucceeds
      <4>4. q.it.variables = InitValues
        BY <1>2, <2>1, <4>2, InitSetsInitValues DEF WellFormed, Legit
      <4> QED
        BY <2>1, <3>2, <4>3, <4>4 DEF Follows
    <3> QED
      BY <3>1, <3>2
  <2>6. Follows(r.it, q.it)
    BY <1>3, <2>3, <2>5 DEF Follows
  <2>7. Agree(i, r.it, q.it)
    BY <1>5, <2>3, <2>4, <2>5 DEF Agree
  <2> QED
    BY <2>3, <2>5, <2>6, <2>7
<1>12. CASE op.code = "KERNEL"
  <2> DEFINE argsx == [k \in 1 .. Len(op.ins) |-> x.tensors[Main][op.ins[k]]]
             argsy == [k \in 1 .. Len(op.ins) |-> y.tensors[Main][op.ins[k]]]
             t == op.outs[1]
  <2>1. argsx = argsy
    <3>1. \A k \in 1 .. Len(op.ins) : op.ins[k] \in Tensors /\ op.ins[k] \in Written(i)
      BY <1>1, <1>7, <1>12 DEF OperandsOK, DataRead
    <3> QED
      BY <1>5, <3>1
  <2>2. t \in Tensors /\ Written(i + 1) = Written(i) \cup {t}
    BY <1>1, <1>6, <1>12 DEF OperandsOK, Arity
  <2>3. /\ r = IF i = failing THEN Fails(TensorSet(x, Main, t, Torn), "kernel")
               ELSE Going(TensorSet(x, Main, t, <<op.name>> \o argsx))
        /\ q = IF i = failing THEN Fails(TensorSet(y, Main, t, Torn), "kernel")
               ELSE Going(TensorSet(y, Main, t, <<op.name>> \o argsy))
    BY <1>12 DEF run, runKernel, TensorSet, op, r, q
  <2> HIDE DEF argsx, argsy, t
  <2>4. r.error = q.error /\ \E v : r.it = TensorSet(x, Main, t, v) /\ q.it = TensorSet(y, Main, t, v)
    BY <2>1, <2>3 DEF Going, Fails
  <2>5. /\ Follows(r.it, q.it) /\ q.it.initialized = y.initialized
        /\ \A u \in Tensors : u = t \/ u \in Written(i) => r.it.tensors[Main][u] = q.it.tensors[Main][u]
    BY <1>10, <2>2, <2>4
  <2>6. Agree(i, r.it, q.it)
    BY <1>8, <1>12, <2>2, <2>5 DEF Agree
  <2> QED
    BY <2>4, <2>5, <2>6
<1>13. CASE op.code \in StateCodes
  <2>1. r = runStateOp(file, x, Main, i) /\ q = runStateOp(file, y, Main, i)
    BY <1>13 DEF run, op, r, q, StateCodes
  <2>2. file[Main][i].code \in StateCodes
    BY <1>13 DEF op
  <2>3. r.error = "none" /\ q.error = "none"
    BY <1>1, <1>2, <2>1, <2>2, StateOperatorStep
  <2>4. CASE op.code = "VAR_HANDLE"
    <3>1. r.it = x /\ q.it = y
      BY <1>1, <1>2, <2>1, <2>2, <2>4, StateOperatorStep DEF op
    <3>2. \A u \in Written(i + 1) \cap Tensors : u \in Written(i)
      BY <1>1, <1>6, <2>4, LoaderAssumption DEF OperandsOK, Arity
    <3>3. Agree(i, x, y)
      BY <1>5, <1>8, <2>4, <3>2 DEF Agree
    <3> QED
      BY <2>3, <3>1, <3>3
  <2>5. CASE op.code = "READ_VARIABLE"
    <3> DEFINE v == VariableOf(file[Main], i)
               t == op.outs[1]
    <3>1. /\ t \in Tensors
          /\ r.it = TensorSet(x, Main, t, x.variables[v])
          /\ q.it = TensorSet(y, Main, t, y.variables[v])
      BY <1>1, <1>2, <2>1, <2>2, <2>5, StateOperatorStep DEF op
    <3>2. x.variables = y.variables
      BY <1>9, <2>5 DEF TouchesState, Follows
    <3>3. Written(i + 1) = Written(i) \cup {t}
      <4>1. Len(op.outs) = 1
        BY <1>1, <2>5 DEF OperandsOK, Arity
      <4>2. {op.outs[k] : k \in 1 .. Len(op.outs)} = {t}
        BY <4>1
      <4> QED
        BY <1>6, <4>2
    <3> HIDE DEF t, v
    <3>4. /\ Follows(r.it, q.it) /\ q.it.initialized = y.initialized
          /\ \A u \in Tensors : u = t \/ u \in Written(i) => r.it.tensors[Main][u] = q.it.tensors[Main][u]
      BY <1>10, <3>1, <3>2
    <3>5. Agree(i, r.it, q.it)
      BY <1>8, <2>5, <3>3, <3>4 DEF Agree
    <3> QED
      BY <2>3, <3>4, <3>5
  <2>6. CASE op.code = "ASSIGN_VARIABLE"
    <3> DEFINE v == VariableOf(file[Main], i)
               t == op.ins[2]
    <3>1. /\ v \in Variables(file) /\ t \in Tensors
          /\ r.it = VariableSet(x, v, x.tensors[Main][t])
          /\ q.it = VariableSet(y, v, y.tensors[Main][t])
      BY <1>1, <1>2, <2>1, <2>2, <2>6, StateOperatorStep DEF op
    <3>2. x.variables = y.variables
      BY <1>9, <2>6 DEF TouchesState, Follows
    <3>3. x.tensors[Main][t] = y.tensors[Main][t]
      BY <1>5, <1>7, <2>6, <3>1 DEF DataRead
    <3>4. Written(i + 1) = Written(i)
      <4>1. Len(op.outs) = 0
        BY <1>1, <2>6 DEF OperandsOK, Arity
      <4>2. {op.outs[k] : k \in 1 .. Len(op.outs)} = {}
        BY <4>1
      <4> QED
        BY <1>6, <4>2
    <3> HIDE DEF t, v
    <3>5. /\ IsInterpreter(file, r.it) /\ r.it.tensors = x.tensors
          /\ \A u \in Variables(file) : r.it.variables[u] = IF u = v THEN x.tensors[Main][t] ELSE x.variables[u]
      BY <1>2, <3>1, VariableWritten
    <3>6. /\ IsInterpreter(file, q.it) /\ q.it.tensors = y.tensors /\ q.it.initialized = y.initialized
          /\ \A u \in Variables(file) : q.it.variables[u] = IF u = v THEN y.tensors[Main][t] ELSE y.variables[u]
      BY <1>2, <3>1, VariableWritten
    <3>7. r.it.variables = q.it.variables
      BY <3>2, <3>3, <3>5, <3>6, SameVariables
    <3>8. Follows(r.it, q.it)
      BY <1>3, <1>9, <2>6, <3>6, <3>7 DEF Follows, TouchesState
    <3>9. Agree(i, r.it, q.it)
      BY <1>5, <1>8, <2>6, <3>4, <3>5, <3>6 DEF Agree
    <3> QED
      BY <2>3, <3>8, <3>9
  <2> QED
    BY <1>13, <2>4, <2>5, <2>6 DEF StateCodes
<1> QED
  BY <1>1, <1>11, <1>12, <1>13 DEF OperandsOK, StateCodes

\* A whole Invoke on both, from states that only Follows relates.
LEMMA PairInvoke ==
  ASSUME File(file), WellFormed,
         NEW u, NEW failing, NEW x, NEW y, Follows(x, y)
  PROVE  LET r == Invoked(file, x, u, failing)
             q == Invoked(file, y, u, failing)
         IN /\ Follows(r.it, q.it)
            /\ r.error = "none" =>
                 /\ r.it.variables = q.it.variables
                 /\ \A t \in Written(Len(file[Main]) + 1) \cap Tensors :
                      r.it.tensors[Main][t] = q.it.tensors[Main][t]
<1> DEFINE n == Len(file[Main])
           P == Progress(file, Given(x, u), failing)
           Q == Progress(file, Given(y, u), failing)
           Together(i) ==
             /\ P[i].error = Q[i].error
             /\ Follows(P[i].it, Q[i].it)
             /\ P[i].error = "none" => Agree(i, P[i].it, Q[i].it)
           S == {i \in 0 .. n : Together(i)}
<1>1. n \in Nat
  BY FilePlaces
<1>2. /\ P[0] = Going(Given(x, u))
      /\ \A i \in 1 .. n : P[i] = IF P[i - 1].error = "none" THEN run(file, P[i - 1].it, i, failing) ELSE P[i - 1]
  BY <1>1, ProgressSteps
<1>3. /\ Q[0] = Going(Given(y, u))
      /\ \A i \in 1 .. n : Q[i] = IF Q[i - 1].error = "none" THEN run(file, Q[i - 1].it, i, failing) ELSE Q[i - 1]
  BY <1>1, ProgressSteps
<1>4. Invoked(file, x, u, failing) = P[n] /\ Invoked(file, y, u, failing) = Q[n]
  BY DEF Invoked
<1> HIDE DEF P, Q
<1>5. 0 \in S
  <2> DEFINE a == Given(x, u)
             b == Given(y, u)
  <2>1. P[0].it = a /\ P[0].error = "none" /\ Q[0].it = b /\ Q[0].error = "none"
    BY <1>2, <1>3 DEF Going
  <2>2. /\ Legit(file, a) /\ a.variables = x.variables /\ a.initialized = x.initialized
        /\ \A t \in Tensors : a.tensors[Main][t] = IF t = InputTensor THEN u ELSE x.tensors[Main][t]
    BY GivenLegit DEF Follows
  <2>3. /\ Legit(file, b) /\ b.variables = y.variables /\ b.initialized = y.initialized
        /\ \A t \in Tensors : b.tensors[Main][t] = IF t = InputTensor THEN u ELSE y.tensors[Main][t]
    BY GivenLegit DEF Follows
  <2> HIDE DEF a, b
  <2>4. Follows(a, b)
    BY <2>2, <2>3 DEF Follows
  <2>5. \A t \in Constants \ {InputTensor} : x.tensors[Main][t] = y.tensors[Main][t]
    <3>1. Main \in 1 .. Len(file)
      BY FilePlaces
    <3> QED
      BY <3>1, LoaderAssumption DEF Follows, Legit, Kept, WellFormed
  <2>6. Written(0 + 1) = Constants \cup {InputTensor}
    <3>1. 1 .. (0 + 1) - 1 = {}
      OBVIOUS
    <3> QED
      BY <3>1 DEF Written
  <2>7. \A p \in CallOnces(file) : 0 < p[2]
    <3> SUFFICES ASSUME NEW p \in CallOnces(file) PROVE 0 < p[2]
      OBVIOUS
    <3>1. PICK s \in 1 .. Len(file) : p[2] \in 1 .. Len(file[s])
      BY DEF CallOnces, Positions
    <3>2. Len(file[s]) \in Nat
      BY FilePlaces
    <3> QED
      BY <3>1, <3>2
  <2>8. Agree(0, a, b)
    BY <2>2, <2>3, <2>5, <2>6, <2>7 DEF Agree
  <2> QED
    BY <1>1, <2>1, <2>4, <2>8
<1>6. ASSUME NEW i \in 1 .. n, i - 1 \in S
      PROVE  i \in S
  <2>1. Together(i - 1) /\ i \in 0 .. n
    BY <1>1, <1>6
  <2>2. CASE P[i - 1].error = "none"
    <3> DEFINE a == P[i - 1].it
               b == Q[i - 1].it
    <3>1. /\ P[i] = run(file, a, i, failing) /\ Q[i] = run(file, b, i, failing)
          /\ Follows(a, b) /\ Agree(i - 1, a, b)
      BY <1>2, <1>3, <2>1, <2>2
    <3> HIDE DEF a, b
    <3>2. Together(i)
      BY <3>1, PairStep
    <3> QED
      BY <2>1, <3>2
  <2>3. CASE P[i - 1].error # "none"
    <3>1. P[i] = P[i - 1] /\ Q[i] = Q[i - 1]
      BY <1>2, <1>3, <2>1, <2>3
    <3> QED
      BY <2>1, <2>3, <3>1
  <2> QED
    BY <2>2, <2>3
<1>7. \A i \in 0 .. n : i \in S
  <2>1. S \in SUBSET (0 .. n)
    OBVIOUS
  <2> HIDE DEF S, n
  <2> QED
    BY <1>1, <1>5, <1>6, <2>1, EveryPlace
<1>8. Together(n)
  BY <1>1, <1>7
<1>9. ASSUME P[n].error = "none"
      PROVE  P[n].it.variables = Q[n].it.variables
  <2>1. Q[n].it.initialized # TRUE => CallOnces(file) = {}
    <3> SUFFICES ASSUME Q[n].it.initialized # TRUE, NEW p \in CallOnces(file) PROVE FALSE
      OBVIOUS
    <3>1. n < p[2]
      BY <1>8, <1>9 DEF Agree
    <3>2. p[2] \in 1 .. n
      BY DEF File, Accepted, CallOnceOK, CallOnces, Positions
    <3> QED
      BY <1>1, <3>1, <3>2
  <2>2. Q[n].it.initialized = TRUE \/ InitSubgraph(file) = NoSubgraph
    BY <2>1 DEF InitSubgraph
  <2> QED
    BY <1>8, <2>2 DEF Follows
<1> QED
  BY <1>4, <1>8, <1>9 DEF Agree

\* Together since the last Reset, whatever failed in between; and after an
\* Invoke that succeeded, the same variables and the same data.
TwinInv ==
  WellFormed /\ twin # NoTwin =>
    /\ Follows(it, twin)
    /\ call = "Invoke" /\ error = "none" =>
         /\ it.variables = twin.variables
         /\ \A t \in Written(Len(file[Main]) + 1) \cap Tensors : it.tensors[Main][t] = twin.tensors[Main][t]

LEMMA TwinNext == LegitInv /\ TwinInv /\ [Next]_vars => TwinInv'
<1> SUFFICES ASSUME LegitInv, TwinInv, [Next]_vars PROVE TwinInv'
  OBVIOUS
<1>0. File(file) /\ Legit(file, it)
  BY DEF LegitInv
<1>1. ASSUME NEW failing, Invoke(failing)
      PROVE  TwinInv'
  <2> SUFFICES ASSUME WellFormed', (twin # NoTwin)'
               PROVE  /\ Follows(it, twin)'
                      /\ error' = "none" =>
                           /\ it'.variables = twin'.variables
                           /\ \A t \in Written(Len(file[Main]) + 1)' \cap Tensors :
                                it'.tensors[Main][t] = twin'.tensors[Main][t]
    BY DEF TwinInv
  <2>1. /\ file' = file
        /\ it' = Invoked(file, it, NextInput, failing).it
        /\ error' = Invoked(file, it, NextInput, failing).error
        /\ twin' = IF twin = NoTwin THEN NoTwin ELSE Invoked(file, twin, NextInput, failing).it
    BY <1>1 DEF Invoke
  <2>2. WellFormed
    BY <2>1 DEF WellFormed, InOrder, InitRunsFirst, InitAssignsAll, Written, WritesNoConstant, Positions
  <2>3. twin # NoTwin /\ twin' = Invoked(file, twin, NextInput, failing).it /\ Follows(it, twin)
    BY <2>1, <2>2 DEF TwinInv
  <2>4. /\ Follows(it', twin')
        /\ error' = "none" =>
             /\ it'.variables = twin'.variables
             /\ \A t \in Written(Len(file[Main]) + 1) \cap Tensors : it'.tensors[Main][t] = twin'.tensors[Main][t]
    BY <1>0, <2>1, <2>2, <2>3, PairInvoke
  <2> QED
    BY <2>1, <2>4 DEF Follows, InitValues, Written
<1>2. CASE Reset
  <2> SUFFICES ASSUME WellFormed'
               PROVE  Follows(it, twin)'
    BY <1>2 DEF TwinInv, Reset
  <2>1. /\ file' = file
        /\ it' = WasReset(file, it).it
        /\ twin' = NewInterpreter(file)
    BY <1>2 DEF Reset
  <2>2. InitAssignsAll
    BY <2>1 DEF WellFormed, InitAssignsAll
  <2>3. Legit(file, it') /\ it'.initialized = TRUE
    BY <1>0, <2>1, ResetSucceeds
  <2>4. /\ Legit(file, twin') /\ twin'.initialized = FALSE
        /\ twin'.variables = [v \in Variables(file) |-> Zeros]
    BY <2>1, NewLegit, NewIsInterpreter
  <2>5. CASE InitSubgraph(file) = NoSubgraph
    <3>1. it'.variables = [v \in Variables(file) |-> Zeros]
      BY <1>0, <2>1, <2>5, ResetSucceeds
    <3>2. Follows(it', twin')
      BY <2>3, <2>4, <2>5, <3>1 DEF Follows
    <3> QED
      BY <2>1, <3>2 DEF Follows, InitValues
  <2>6. CASE InitSubgraph(file) # NoSubgraph
    <3> DEFINE y == Marked(it, FALSE)
    <3>1. IsInterpreter(file, y) /\ it' = runInit(file, y).it
      BY <1>0, <2>1, <2>6, ResetSucceeds
    <3>2. Kept(file, y)
      <4>1. y.tensors = it.tensors
        BY <1>0, Initialized DEF Legit
      <4> HIDE DEF y
      <4> QED
        BY <1>0, <4>1 DEF Legit, Kept
    <3> HIDE DEF y
    <3>3. it'.variables = InitValues
      BY <1>0, <2>2, <2>6, <3>1, <3>2, InitSetsInitValues
    <3>4. Follows(it', twin')
      BY <2>3, <2>4, <2>6, <3>3 DEF Follows
    <3> QED
      BY <2>1, <3>4 DEF Follows, InitValues
  <2> QED
    BY <2>5, <2>6
<1>3. CASE UNCHANGED vars
  BY <1>3 DEF TwinInv, vars, WellFormed, InOrder, InitRunsFirst, InitAssignsAll, Written, Follows, InitValues,
              WritesNoConstant, Positions
<1> QED
  BY <1>1, <1>2, <1>3 DEF Next

\* "Reset puts the state variables back into their initial state, as a fresh
\* interpreter would": proved for every well-formed model, every number of
\* Invokes and kernels that fail anywhere, although Reset clears no tensor
\* (Reset, runInit, callOnce and Invoke).
THEOREM ResetIsFresh == Spec => []ResetMakesNew
<1>1. Init => TwinInv
  BY DEF Init, TwinInv
<1>2. TwinInv => ResetMakesNew
  <2> SUFFICES ASSUME TwinInv, WellFormed, twin # NoTwin, call = "Invoke", error = "none"
               PROVE  /\ it.variables = twin.variables
                      /\ OutputTensor \in Written(Len(file[Main]) + 1) => OutputOf(it) = OutputOf(twin)
    BY DEF ResetMakesNew
  <2>1. OutputTensor \in Tensors
    BY InterpreterAssumption
  <2> QED
    BY <2>1 DEF TwinInv, OutputOf
<1> QED
  BY LegitInit, LegitNext, TwinNext, <1>1, <1>2, PTL DEF Spec
=============================================================================
