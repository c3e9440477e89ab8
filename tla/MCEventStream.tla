---------------------------- MODULE MCEventStream ----------------------------
(* Instances of EventStream and EventConversion for TLC.  They share no     *)
(* state: a behaviour runs one of Foci, and the conversion of a behaviour  *)
(* that runs the other has one pinned request and takes no step.           *)
EXTENDS EventStream, EventConversion

CONSTANT Foci

VARIABLE focus

MCInit ==
  /\ Init /\ InitConversion /\ focus \in Foci
  /\ focus = "stream" =>
       request = [modes |-> {"values"}, subgraphs |-> FALSE, resume |-> FALSE]

MCNext ==
  /\ \/ focus = "stream" /\ Next /\ UNCHANGED conversionVars
     \/ focus = "conversion" /\ NextConversion /\ UNCHANGED vars
  /\ UNCHANGED focus

MCSpec ==
  /\ MCInit /\ [][MCNext]_<<vars, conversionVars, focus>>
  /\ StreamFairness
=============================================================================
