------------------------ MODULE MCCampaignLifecycle ------------------------
(***************************************************************************)
(* The instance of CampaignLifecycle for TLC, in two parts: two requests   *)
(* that overlap, on a live deployment that stays as it is, as long as the  *)
(* campaign has not ended; and one request at a time, over a longer clock, *)
(* with a fault.                                                           *)
(***************************************************************************)
EXTENDS CampaignLifecycle

CONSTANTS l1, l2, a1, a2, t1

VARIABLE part

mcVars == <<vars, part>>

\* The bounds of each part.
Bounds ==
    /\ part = "overlap" => /\ deployed = "live" /\ faults = 0 /\ now <= 3 /\ row.at <= 2
                           /\ row.status \notin Terminal
                           /\ session[a1] = Idle \/ Scheduling(a1)
    /\ part = "faults"  => session[a2] = Idle /\ row.setup # l2

MCInit == Init /\ part \in {"overlap", "faults"} /\ Bounds

MCNext == Next /\ UNCHANGED part /\ Bounds'

MCFairness ==
    /\ WF_mcVars(ClockAdvances /\ UNCHANGED part /\ Bounds')
    /\ \A t \in Ticks : WF_mcVars(TickSteps(t) /\ UNCHANGED part)

MCSpec == MCInit /\ [][MCNext]_mcVars /\ MCFairness
=============================================================================
