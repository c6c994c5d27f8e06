---------------------------- MODULE MCSendEngine ----------------------------
(* Instances of SendEngine for TLC. *)
EXTENDS SendEngine, TLC

CONSTANTS j1, j2, c1, a1, a2, t1, t2, none

MCOneCampaign  == [j \in Jobs |-> c1]
MCOwnAddresses == [j \in Jobs |-> IF j = j1 THEN a1 ELSE a2]
=============================================================================
