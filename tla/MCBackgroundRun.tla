--------------------------- MODULE MCBackgroundRun ---------------------------
(* Instances of BackgroundRun for TLC.                                     *)
EXTENDS BackgroundRun
=============================================================================
