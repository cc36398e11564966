-------------------------- MODULE InterpreterTwin ---------------------------
(***************************************************************************)
(* An interpreter that is used, fails and is Reset, and beside it from     *)
(* each Reset on a new one that is given the same inputs.  Each Invoke has *)
(* an input of its own, of which any other inputs are an instance.         *)
(***************************************************************************)
EXTENDS Interpreter

CONSTANTS
  Files,        \* files to load
  MaxInvokes    \* bound: Invokes in all

ASSUME FilesAssumption == (\A f \in Files : f \in Seq(Seq(Operators))) /\ MaxInvokes \in Nat

VARIABLES
  file,         \* the model that was loaded
  it,           \* its interpreter
  twin,         \* a new one, since the last Reset, or NoTwin
  invokes,      \* Invokes so far
  call,         \* the last call, and how it ended
  error

vars == <<file, it, twin, invokes, call, error>>

NoTwin == [none |-> TRUE]

Init ==
  /\ file \in {f \in Files : Accepted(f)}
  /\ it = NewInterpreter(file)
  /\ twin = NoTwin
  /\ invokes = 0
  /\ call = "NewInterpreter" /\ error = "none"

Kernels == {i \in 1 .. Len(file[Main]) : file[Main][i].code = "KERNEL"}

NoFailure == 0

NextInput == <<"input", invokes + 1>>

Invoke(failing) ==
  /\ invokes < MaxInvokes
  /\ invokes' = invokes + 1
  /\ call' = "Invoke"
  /\ LET r == Invoked(file, it, NextInput, failing)
     IN it' = r.it /\ error' = r.error
  /\ twin' = IF twin = NoTwin THEN NoTwin
             ELSE Invoked(file, twin, NextInput, failing).it
  /\ UNCHANGED file

Reset ==
  /\ call' = "Reset"
  /\ LET r == WasReset(file, it)
     IN it' = r.it /\ error' = r.error
  /\ twin' = NewInterpreter(file)
  /\ UNCHANGED <<file, invokes>>

Next ==
  \/ \E failing \in Kernels \cup {NoFailure} : Invoke(failing)
  \/ Reset

Spec == Init /\ [][Next]_vars

-----------------------------------------------------------------------------
\* Nothing but a kernel fails in a model that was accepted: the state operators
\* find the sizes they check, and so Reset, which runs no kernel, never fails.
StateOperatorsSucceed == error \in {"none", "kernel"}

\* Tensors that hold a constant, the input or what an earlier operator wrote.
Written(i) ==
  Constants \cup {InputTensor}
    \cup UNION {{file[Main][j].outs[k] : k \in 1 .. Len(file[Main][j].outs)} : j \in 1 .. i - 1}

DataRead(op) ==
  CASE op.code = "KERNEL"          -> {op.ins[k] : k \in 1 .. Len(op.ins)}
    [] op.code = "ASSIGN_VARIABLE" -> {op.ins[2]}
    [] OTHER                       -> {}

InOrder == \A i \in 1 .. Len(file[Main]) : DataRead(file[Main][i]) \subseteq Written(i)

InitRunsFirst ==
  \A p \in CallOnces(file) : \A i \in 1 .. p[2] - 1 : ~TouchesState(file[Main][i])

InitAssignsAll ==
  InitSubgraph(file) # NoSubgraph =>
    \A v \in Variables(file) : \E i \in 1 .. Len(file[InitSubgraph(file)]) :
      /\ file[InitSubgraph(file)][i].code = "ASSIGN_VARIABLE"
      /\ VariableOf(file[InitSubgraph(file)], i) = v

\* No operator writes to constant data, which is the memory of the file itself.
WritesNoConstant(f) ==
  \A p \in Positions(f) : \A k \in 1 .. Len(f[p[1]][p[2]].outs) : f[p[1]][p[2]].outs[k] \notin Constants

\* What the models of this repository are like and Load does not ask for.
WellFormed == InOrder /\ InitRunsFirst /\ InitAssignsAll /\ WritesNoConstant(file)

\* "Reset puts the state variables back into their initial state, as a fresh
\* interpreter would": for a well-formed model, although no tensor is cleared
\* and earlier Invokes may have failed halfway, the outputs and the state that
\* follow are those of a new interpreter given the same inputs and failures.
ResetMakesNew ==
  WellFormed /\ twin # NoTwin /\ call = "Invoke" /\ error = "none" =>
    /\ it.variables = twin.variables
    /\ OutputTensor \in Written(Len(file[Main]) + 1) => OutputOf(it) = OutputOf(twin)
=============================================================================
