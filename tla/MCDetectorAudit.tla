-------------------------- MODULE MCDetectorAudit ---------------------------
(* Values of the audited detector's constants for TLC: two models of the    *)
(* same stride, so that they can fall out of step.                          *)
EXTENDS DetectorAudit

MCWake == [stride |-> 2, window |-> 2, cutoff |-> 1]
MCVad  == [stride |-> 2, window |-> 1, cutoff |-> 0]
=============================================================================
