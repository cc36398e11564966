--------------------------- MODULE MCDetectorTwin ---------------------------
(* Values of the paired detectors' constants for TLC. *)
EXTENDS DetectorTwin

MCWake == [stride |-> 2, window |-> 2, cutoff |-> 1]
MCVad  == [stride |-> 2, window |-> 1, cutoff |-> 0]
=============================================================================
