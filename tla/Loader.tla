------------------------------- MODULE Loader -------------------------------
(***************************************************************************)
(* What runtime.Load makes of a model file: which variable each state      *)
(* operator touches (resolveVariables, bind), which subgraph initializes   *)
(* them, and whether the file is accepted (validate).                      *)
(*                                                                         *)
(* A file is the sequence of its subgraphs, the main one first, and a      *)
(* subgraph the sequence of its operators.  Every subgraph has tensors of  *)
(* the same names.  The operators that compute are one, "KERNEL", told     *)
(* apart by name; their shape and quantization rules are left out, as is   *)
(* the reading of the flatbuffer.                                          *)
(***************************************************************************)
EXTENDS Integers, Sequences, FiniteSets, FiniteSetsExt

CONSTANTS
  Tensors,     \* names of the tensors that hold data
  Resources,   \* names of the tensors that stand for a variable
  Constants,   \* the data tensors with constant data
  Shape        \* shape of each data tensor

ASSUME LoaderAssumption ==
  Constants \subseteq Tensors /\ Tensors \cap Resources = {}

Operators ==
  [code : STRING, name : STRING, ins : Seq(Tensors \cup Resources), outs : Seq(Tensors \cup Resources)]

Op(code, name, ins, outs) ==
  [code |-> code, name |-> name, ins |-> ins, outs |-> outs]

\* Operands only: the operators of a file are built with these.
VarHandle(v, r) == Op("VAR_HANDLE", v, << >>, <<r>>)
ReadVariable(r, t) == Op("READ_VARIABLE", "", <<r>>, <<t>>)
AssignVariable(r, t) == Op("ASSIGN_VARIABLE", "", <<r, t>>, << >>)
CallOnce == Op("CALL_ONCE", "", << >>, << >>)
Kernel(k, args, t) == Op("KERNEL", k, args, <<t>>)

Main == 1

\* A CALL_ONCE names the subgraph after the main one.
InitSubgraphIndex == 2

NoSubgraph == 0

TouchesState(op) == op.code \in {"READ_VARIABLE", "ASSIGN_VARIABLE"}

-----------------------------------------------------------------------------
\* The handles before operator i of a subgraph for the resource it takes.
HandlesOf(ops, i) ==
  {h \in 1 .. i - 1 : ops[h].code = "VAR_HANDLE" /\ ops[h].outs[1] = ops[i].ins[1]}

\* The variable of operator i: that of the latest handle.
VariableOf(ops, i) == ops[Max(HandlesOf(ops, i))].name

\* The data tensor whose shape operator i binds its variable to.
BoundTensor(op) == IF op.code = "READ_VARIABLE" THEN op.outs[1] ELSE op.ins[2]

Positions(file) ==
  UNION {{s} \X (1 .. Len(file[s])) : s \in 1 .. Len(file)}

StateOps(file) == {p \in Positions(file) : TouchesState(file[p[1]][p[2]])}

Variables(file) ==
  {file[p[1]][p[2]].name :
     p \in {q \in Positions(file) : file[q[1]][q[2]].code = "VAR_HANDLE"}}

\* The shapes that the state operators give variable v.
Bindings(file, v) ==
  {Shape[BoundTensor(file[p[1]][p[2]])] :
     p \in {q \in StateOps(file) : VariableOf(file[q[1]], q[2]) = v}}

Resolves(file) ==
  \A p \in StateOps(file) :
    /\ HandlesOf(file[p[1]], p[2]) # {}
    /\ BoundTensor(file[p[1]][p[2]]) \in Tensors

\* Mutant: bind does not compare with what is bound already.
BindsAny(file) == \A v \in Variables(file) : Bindings(file, v) # {}

\* Every variable is read or assigned, always with one shape.
Binds(file) == \A v \in Variables(file) : Cardinality(Bindings(file, v)) = 1

\* The shape a variable is allocated with.
VariableShape(file, v) == CHOOSE s \in Bindings(file, v) : TRUE

-----------------------------------------------------------------------------
CallOnces(file) ==
  {p \in Positions(file) : file[p[1]][p[2]].code = "CALL_ONCE"}

InitSubgraph(file) ==
  IF CallOnces(file) = {} THEN NoSubgraph ELSE InitSubgraphIndex

Arity(op, ins, outs) == Len(op.ins) = ins /\ Len(op.outs) = outs

OperandsOK(op) ==
  CASE op.code = "VAR_HANDLE"      -> Arity(op, 0, 1) /\ op.outs[1] \in Resources
    [] op.code = "READ_VARIABLE"   -> Arity(op, 1, 1) /\ op.ins[1] \in Resources /\ op.outs[1] \in Tensors
    [] op.code = "ASSIGN_VARIABLE" -> Arity(op, 2, 0) /\ op.ins[1] \in Resources /\ op.ins[2] \in Tensors
    [] op.code = "CALL_ONCE"       -> Arity(op, 0, 0)
    [] op.code = "KERNEL"          -> /\ Arity(op, Len(op.ins), 1)
                                      /\ \A k \in 1 .. Len(op.ins) : op.ins[k] \in Tensors
                                      /\ op.outs[1] \in Tensors
    [] OTHER                       -> FALSE

CallOnceOK(file) ==
  /\ Cardinality(CallOnces(file)) <= 1
  /\ \A p \in CallOnces(file) : p[1] = Main /\ InitSubgraphIndex <= Len(file)

\* The init subgraph only assigns variables.
InitOK(file) ==
  InitSubgraph(file) # NoSubgraph =>
    \A i \in 1 .. Len(file[InitSubgraph(file)]) :
      file[InitSubgraph(file)][i].code \in {"VAR_HANDLE", "ASSIGN_VARIABLE"}

Accepted(file) ==
  /\ file # << >>
  /\ Resolves(file)
  /\ \A p \in Positions(file) : OperandsOK(file[p[1]][p[2]])
  /\ CallOnceOK(file)
  /\ Binds(file)
  /\ InitOK(file)
=============================================================================
