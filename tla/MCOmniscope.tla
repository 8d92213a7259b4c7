----------------------------- MODULE MCOmniscope ----------------------------
(* Constants for TLC.  In most runs a reader keeps one sample, so that some  *)
(* overflow; in the one about order it keeps two of each of two instances.   *)
EXTENDS OmniscopeApp, TLC

MCDepth == [t \in DdsTopic |-> 1]
MCDepth2 == [t \in DdsTopic |-> 2]
MCInstanceTopic == [i \in DdsInstance |-> CHOOSE t \in DdsTopic : TRUE]

ClientsAndKeys == Permutations(Worker) \cup Permutations(DdsInstance)
=============================================================================
