----------------------------- MODULE MCEvaluate -----------------------------
(* Two goroutines, four files and as many detectors as they can hold and     *)
(* leave in the pool, in the cfg file.                                       *)
EXTENDS Evaluate
=============================================================================
