--------------------------- MODULE MCInterpreter ----------------------------
(***************************************************************************)
(* InterpreterTwin on every accepted file whose main subgraph has two      *)
(* handles and then up to MaxOps of the operators below, in any order and  *)
(* as often as they fit, with each of five init subgraphs.                 *)
(***************************************************************************)
EXTENDS InterpreterTwin, SequencesExt

CONSTANT MaxOps

MCTensors == {"in", "out", "state", "wide", "k"}
MCResources == {"r", "q"}
MCConstants == {"k"}
MCShape == [t \in MCTensors |-> IF t = "wide" THEN 2 ELSE 1]

Handles == <<VarHandle("x", "r"), VarHandle("y", "q")>>

Ops ==
  {CallOnce,
   VarHandle("y", "r"),
   ReadVariable("r", "state"), ReadVariable("r", "wide"),
   AssignVariable("r", "out"), AssignVariable("q", "in"),
   Kernel("f", <<"in", "state">>, "out"), Kernel("g", <<"k", "in">>, "state")}

InitSubgraphs ==
  {<< >>,
   <<AssignVariable("q", "k")>>,
   <<AssignVariable("r", "k"), AssignVariable("q", "k")>>,
   <<AssignVariable("r", "state"), AssignVariable("q", "wide")>>,
   <<ReadVariable("r", "state")>>}

MCFiles ==
  {<<Handles \o body, Handles \o init>> :
     body \in BoundedSeq(Ops, MaxOps), init \in InitSubgraphs}
  \cup {<<Handles \o body>> : body \in BoundedSeq(Ops, MaxOps)}
=============================================================================
