--------------------------- MODULE MCRunLifecycle ---------------------------
(* Instances of RunLifecycle for TLC.                                      *)
EXTENDS RunLifecycle, TLC

\* Runs and requests are interchangeable; used in the run without liveness.
Symmetry == Permutations(Runs) \union Permutations(Requests)
=============================================================================
