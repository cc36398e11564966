---------------------------- MODULE Interpreter -----------------------------
(***************************************************************************)
(* runtime.Interpreter as operators on a record `it` of its mutable state, *)
(* for a file that Load accepted.  The kernels are uninterpreted: what one *)
(* writes is the term of its name and of what its inputs hold, so that two *)
(* tensors are equal here only if they are equal for all kernels.          *)
(***************************************************************************)
EXTENDS Loader

CONSTANTS
  InputTensor,   \* the input and the output of the main subgraph
  OutputTensor

ASSUME InterpreterAssumption == {InputTensor, OutputTensor} \subseteq Tensors

Zeros == <<"zeros">>

ConstantOf(t) == <<"constant", t>>

\* Part of a kernel's output, after it failed.
Torn == <<"torn">>

Contents(t) == IF t \in Constants THEN ConstantOf(t) ELSE Zeros

NewInterpreter(file) ==
  [tensors     |-> [s \in 1 .. Len(file) |-> [t \in Tensors |-> Contents(t)]],
   variables   |-> [v \in Variables(file) |-> Zeros],
   initialized |-> FALSE]

-----------------------------------------------------------------------------
\* What a call has done so far: the state, and the error that ended it.
Going(it) == [it |-> it, error |-> "none"]

Fails(it, error) == [it |-> it, error |-> error]

SameShape(file, v, t) == VariableShape(file, v) = Shape[t]

readVariable(file, it, s, op, v) ==
  IF SameShape(file, v, op.outs[1])
    THEN Going([it EXCEPT !.tensors[s][op.outs[1]] = it.variables[v]])
    ELSE Fails(it, "shape")

assignVariable(file, it, s, op, v) ==
  IF SameShape(file, v, op.ins[2])
    THEN Going([it EXCEPT !.variables[v] = it.tensors[s][op.ins[2]]])
    ELSE Fails(it, "shape")

\* Operator i of subgraph s, a CALL_ONCE and kernels apart.
runStateOp(file, it, s, i) ==
  LET op == file[s][i] IN
  CASE op.code = "VAR_HANDLE"      -> Going(it)
    [] op.code = "READ_VARIABLE"   -> readVariable(file, it, s, op, VariableOf(file[s], i))
    [] op.code = "ASSIGN_VARIABLE" -> assignVariable(file, it, s, op, VariableOf(file[s], i))
    [] OTHER                       -> Fails(it, "operator")

\* What the init subgraph has done after each of its operators.
InitProgress(file, it) ==
  LET s == InitSubgraph(file)
      done[i \in 0 .. Len(file[s])] ==
        IF i = 0 THEN Going(it)
        ELSE LET r == done[i - 1] IN IF r.error = "none" THEN runStateOp(file, r.it, s, i) ELSE r
  IN done

runInit(file, it) ==
  LET done == InitProgress(file, it)[Len(file[InitSubgraph(file)])]
  IN IF done.error = "none" THEN Going([done.it EXCEPT !.initialized = TRUE]) ELSE done

callOnce(file, it) == IF it.initialized THEN Going(it) ELSE runInit(file, it)

runKernel(it, op, fails) ==
  LET args == [k \in 1 .. Len(op.ins) |-> it.tensors[Main][op.ins[k]]]
      out  == op.outs[1]
  IN IF fails THEN Fails([it EXCEPT !.tensors[Main][out] = Torn], "kernel")
     ELSE Going([it EXCEPT !.tensors[Main][out] = <<op.name>> \o args])

run(file, it, i, failing) ==
  CASE file[Main][i].code = "CALL_ONCE" -> callOnce(file, it)
    [] file[Main][i].code = "KERNEL"    -> runKernel(it, file[Main][i], i = failing)
    [] OTHER                            -> runStateOp(file, it, Main, i)

\* What the main subgraph has done after each of its operators; the kernel at
\* operator `failing`, if any, fails.
Progress(file, it, failing) ==
  LET done[i \in 0 .. Len(file[Main])] ==
        IF i = 0 THEN Going(it)
        ELSE LET r == done[i - 1] IN IF r.error = "none" THEN run(file, r.it, i, failing) ELSE r
  IN done

Given(it, x) == [it EXCEPT !.tensors[Main][InputTensor] = x]

\* Invoke on input x.
Invoked(file, it, x, failing) == Progress(file, Given(it, x), failing)[Len(file[Main])]

OutputOf(it) == it.tensors[Main][OutputTensor]

-----------------------------------------------------------------------------
Cleared(it) == [it EXCEPT !.variables = [v \in DOMAIN @ |-> Zeros]]

\* Mutant: the init subgraph is left to its CALL_ONCE, which has run already.
WasResetByCallOnce(file, it) ==
  IF InitSubgraph(file) = NoSubgraph
    THEN Going([Cleared(it) EXCEPT !.initialized = TRUE])
    ELSE callOnce(file, it)

\* Only the variables: no tensor is cleared.
WasReset(file, it) ==
  IF InitSubgraph(file) = NoSubgraph
    THEN Going([Cleared(it) EXCEPT !.initialized = TRUE])
    ELSE runInit(file, [it EXCEPT !.initialized = FALSE])
=============================================================================
