----------------------------- MODULE MCDetector -----------------------------
(* Values of the detector's constants for TLC. *)
EXTENDS Detector

MCWake == [stride |-> 2, window |-> 2, cutoff |-> 1]
MCVad  == [stride |-> 3, window |-> 1, cutoff |-> 0]
=============================================================================
