--------------------------- MODULE MCDetectorLive ---------------------------
(* Smaller values of the detector's constants, for the liveness properties. *)
EXTENDS DetectorLive

MCWake == [stride |-> 2, window |-> 1, cutoff |-> 1]
MCVad  == [stride |-> 1, window |-> 2, cutoff |-> 1]
=============================================================================
