---------------------------- MODULE MCAudioFeed -----------------------------
(* Values of the feed's constants for TLC are numbers, in the cfg files.     *)
EXTENDS AudioFeed
=============================================================================
