-------------------------- MODULE MCProviderEvents --------------------------
(* Instances of ProviderEvents for TLC. *)
EXTENDS ProviderEvents, TLC

CONSTANTS j1, j2, c1, c2, a1, n1, n2

MCCampaigns == [j \in Jobs |-> IF j = j1 THEN c1 ELSE c2]
MCAddresses == [j \in Jobs |-> a1]

\* SNS MessageIds are interchangeable.
MCNotices == Permutations(Notices)
=============================================================================
