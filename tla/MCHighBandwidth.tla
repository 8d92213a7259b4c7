--------------------------- MODULE MCHighBandwidth ---------------------------
(* Constants for TLC.  "t" is a topic of 1 byte; a packet carries 3 bytes   *)
(* after the 12-byte header, so payloads of 2, 3 and 5 bytes need 1, 2 and  *)
(* 2 fragments.  In the run over many sizes a packet carries 4 bytes, and a *)
(* topic leaves the first one 3 bytes or no room.                           *)
EXTENDS HighBandwidth, TLC

MCTopicSize == [t \in Topic |-> 1]
MCTopicSizes == [t \in Topic |-> IF t = "short" THEN 1 ELSE 4]
Callers == Permutations(Caller)
=============================================================================
