-------------------------- MODULE MCDeliveryLedger --------------------------
(* An instance of DeliveryLedger for TLC: two recipients of one campaign. *)
EXTENDS DeliveryLedger, TLC

CONSTANTS j1, j2, c1, a1, a2

MCOneCampaign  == [j \in {j1, j2} |-> c1]
MCTwoAddresses == (j1 :> a1) @@ (j2 :> a2)
=============================================================================
