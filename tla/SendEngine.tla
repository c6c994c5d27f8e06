----------------------------- MODULE SendEngine -----------------------------
(***************************************************************************)
(* The send tick (src/lib/sending/worker.ts) working over DeliveryLedger.  *)
(*                                                                         *)
(* Every minute the scheduler invokes a tick; ticks overlap, stop between  *)
(* any two awaits, and leave behind whatever they had committed.  A tick   *)
(* does maintenance, takes a snapshot of the active campaigns, and serves  *)
(* them one by one: materialise, re-read, claim a batch, re-check          *)
(* eligibility, send the batch through concurrent lanes, finish.  Between  *)
(* two awaits other ticks, people and the provider move.                   *)
(*                                                                         *)
(* Abstractions.  The deadline, budget, gate, sender and footer tests only *)
(* decide whether a tick goes on, so each is a choice.  The order in which *)
(* campaigns are served and the width of the lane pool are left open.      *)
(***************************************************************************)
EXTENDS DeliveryLedger

CONSTANTS
    Ticks,         \* tick invocations that may overlap
    NoCampaign,    \* a tick between campaigns
    Overrun,       \* may a tick outlive the reaper and reconciler windows?
    MaxCrashes,    \* bound: invocations that die, or whose database call fails
    MaxDecisions   \* bound: steps taken by people

ASSUME NoCampaignIsNone == NoCampaign \notin Campaigns
ASSUME OverrunIsBoolean == Overrun \in BOOLEAN
ASSUME BoundsAreNatural == MaxCrashes \in Nat /\ MaxDecisions \in Nat

VARIABLES
    pc,        \* where each tick is
    plan,      \* its snapshot of the active campaigns it has yet to serve
    serving,   \* the campaign it serves
    lane,      \* what it holds of each job, in its memory
    number,    \* the attempt each of its lanes began
    halted,    \* sendBatch's flag: the provider refused the account
    crashes, decisions

tickVars   == <<pc, plan, serving, lane, number, halted>>
engineVars == <<vars, tickVars, crashes, decisions>>

TickPc == {"idle", "reconcile", "list", "turn", "materialize", "read", "claim",
           "check", "batch", "failed", "finish"}

\* A claim is checked, then waits in the pool, is cleared by sendOne's first
\* test, and begins its attempt; or it is to be released as ineligible.
LaneState == {"none", "claimed", "suppressed", "skipped", "ready", "cleared", "begun"}

EngineTypeOK ==
    /\ TypeOK
    /\ pc      \in [Ticks -> TickPc]
    /\ plan    \in [Ticks -> [Campaigns -> {"none", "queued", "sending"}]]
    /\ serving \in [Ticks -> Campaigns \cup {NoCampaign}]
    /\ lane    \in [Ticks -> [Jobs -> LaneState]]
    /\ number  \in [Ticks -> [Jobs -> 0 .. MaxAttempts]]
    /\ halted  \in [Ticks -> BOOLEAN]
    /\ crashes \in 0 .. MaxCrashes
    /\ decisions \in 0 .. MaxDecisions

NoPlan  == [c \in Campaigns |-> "none"]
NoLanes == [j \in Jobs |-> "none"]

EngineInit ==
    /\ Init
    /\ pc        = [t \in Ticks |-> "idle"]
    /\ plan      = [t \in Ticks |-> NoPlan]
    /\ serving   = [t \in Ticks |-> NoCampaign]
    /\ lane      = [t \in Ticks |-> NoLanes]
    /\ number    = [t \in Ticks |-> [j \in Jobs |-> 0]]
    /\ halted    = [t \in Ticks |-> FALSE]
    /\ crashes   = 0
    /\ decisions = 0

-----------------------------------------------------------------------------
(* Helpers *)

Goto(t, label) == pc' = [pc EXCEPT ![t] = label]

\* The jobs tick t still holds in memory.
Held(t) == {j \in Jobs : lane[t][j] # "none"}

\* What the provider adapter reports of attempt n: the provider's answer, and
\* nothing known while there is none.
TimeoutIsRefusal_Bug(j, n) == IF answer[j][n] = "none" THEN "refused" ELSE answer[j][n]

Reported(j, n) == answer[j][n]

\* A row the maintenance queries may find older than their timeout.  Unless
\* ticks overrun, a row that a running tick holds is younger than that.
ShortTimeout_Bug(j) == TRUE

MayBeStale(j) == Overrun \/ \A t \in Ticks : j \notin Held(t)

\* The lane of j ends, in an orderly way.
LaneDone(t, j) ==
    /\ lane'   = [lane EXCEPT ![t][j] = "none"]
    /\ number' = [number EXCEPT ![t][j] = 0]

\* Tick t is gone, with everything it had in memory.
Forget(t) ==
    /\ Goto(t, "idle")
    /\ plan'    = [plan EXCEPT ![t] = NoPlan]
    /\ serving' = [serving EXCEPT ![t] = NoCampaign]
    /\ lane'    = [lane EXCEPT ![t] = NoLanes]
    /\ number'  = [number EXCEPT ![t] = [j \in Jobs |-> 0]]
    /\ halted'  = [halted EXCEPT ![t] = FALSE]

-----------------------------------------------------------------------------
(* The tick *)

\* Steps 1 and 2: maintenance, one statement each.
TickReaps(t, stale) ==
    /\ pc[t] = "idle"
    /\ \A j \in stale : MayBeStale(j)
    /\ IF stale = {} THEN UNCHANGED vars ELSE ReapClaimed(stale)
    /\ Goto(t, "reconcile")
    /\ UNCHANGED <<plan, serving, lane, number, halted, crashes, decisions>>

TickReconciles(t, stale) ==
    /\ pc[t] = "reconcile"
    /\ \A j \in stale : MayBeStale(j)
    /\ IF stale \cup Redispatched = {} THEN UNCHANGED vars ELSE ReconcileAttempts(stale)
    /\ Goto(t, "list")
    /\ UNCHANGED <<plan, serving, lane, number, halted, crashes, decisions>>

\* sending_active_campaigns: from here on the tick trusts this list.
TickLists(t) ==
    /\ pc[t] = "list"
    /\ plan' = [plan EXCEPT ![t] = [c \in Campaigns |->
                   IF campaign[c] \in {"queued", "sending"} THEN campaign[c] ELSE "none"]]
    /\ Goto(t, "turn")
    /\ UNCHANGED <<vars, serving, lane, number, halted, crashes, decisions>>

\* The next campaign of the list.  Past the deadline its batch is skipped.
TickServes(t, c) ==
    /\ pc[t] = "turn" /\ plan[t][c] # "none"
    /\ plan'    = [plan EXCEPT ![t][c] = "none"]
    /\ serving' = [serving EXCEPT ![t] = c]
    /\ IF plan[t][c] = "queued" THEN Goto(t, "materialize")
                                ELSE Goto(t, "read") \/ Goto(t, "finish")
    /\ UNCHANGED <<vars, lane, number, halted, crashes, decisions>>

TickEnds(t) ==
    /\ pc[t] = "turn" /\ plan[t] = NoPlan
    /\ Forget(t)
    /\ UNCHANGED <<vars, crashes, decisions>>

\* Null, when somebody else moved the campaign: the loop goes on to the next.
TickMaterializes(t, members) ==
    /\ pc[t] = "materialize"
    /\ IF campaign[serving[t]] = "queued"
       THEN /\ MaterializeCampaign(serving[t], members)
            /\ Goto(t, "read") \/ Goto(t, "finish")
            /\ UNCHANGED serving
       ELSE /\ UNCHANGED vars
            /\ Goto(t, "turn")
            /\ serving' = [serving EXCEPT ![t] = NoCampaign]
    /\ UNCHANGED <<plan, lane, number, halted, crashes, decisions>>

\* loadCampaignContext and the tests on it.
TickReads(t) ==
    /\ pc[t] = "read"
    /\ IF campaign[serving[t]] = "sending" THEN Goto(t, "claim") ELSE Goto(t, "finish")
    /\ UNCHANGED <<vars, plan, serving, lane, number, halted, crashes, decisions>>

\* The sender, footer or unsubscribe mechanism is not ready: the campaign pauses.
TickPauses(t) ==
    /\ pc[t] = "claim"
    /\ IF campaign[serving[t]] = "sending" THEN PauseCampaign(serving[t])
                                           ELSE UNCHANGED vars
    /\ Goto(t, "finish")
    /\ UNCHANGED <<plan, serving, lane, number, halted, crashes, decisions>>

\* sending_claim_jobs re-checks the campaign.  Nothing may be due, and there may
\* be no provider or no budget: then there is no batch.
TickClaims(t, batch, inactive) ==
    /\ pc[t] = "claim"
    /\ \/ /\ ClaimJobs(serving[t], batch, inactive)
          /\ LET claimed == {j \in batch : status'[j] = "claimed"}
             IN  /\ lane' = [lane EXCEPT ![t] = [j \in Jobs |->
                                IF j \in claimed THEN "claimed" ELSE "none"]]
                 /\ Goto(t, IF claimed = {} THEN "finish" ELSE "check")
       \/ /\ batch = {} /\ inactive = {}
          /\ Goto(t, "finish")
          /\ UNCHANGED <<vars, lane>>
    /\ UNCHANGED <<plan, serving, number, halted, crashes, decisions>>

\* checkEligibilityBatch: one read for the whole batch; the verdicts are acted
\* on later.  `inactive` are the jobs refused for another reason.
TickChecks(t, inactive) ==
    /\ pc[t] = "check"
    /\ inactive \subseteq Held(t)
    /\ lane' = [lane EXCEPT ![t] = [j \in Jobs |->
           CASE j \notin Held(t) -> "none"
             [] j \in Held(t) /\ Suppressed(j) -> "suppressed"
             [] j \in inactive /\ ~Suppressed(j) -> "skipped"
             [] OTHER -> "ready"]]
    /\ Goto(t, "batch")
    /\ UNCHANGED <<vars, plan, serving, number, halted, crashes, decisions>>

\* All lanes have returned.  A halt pauses every sending campaign.
TickSettles(t) ==
    /\ pc[t] = "batch" /\ Held(t) = {}
    /\ IF halted[t] /\ \E c \in Campaigns : campaign[c] = "sending"
       THEN PauseWorkspace ELSE UNCHANGED vars
    /\ halted' = [halted EXCEPT ![t] = FALSE]
    /\ Goto(t, "finish")
    /\ UNCHANGED <<plan, serving, lane, number, crashes, decisions>>

TickFinishes(t) ==
    /\ pc[t] = "finish"
    /\ IF Finishable(serving[t]) THEN FinishCampaign(serving[t]) ELSE UNCHANGED vars
    /\ serving' = [serving EXCEPT ![t] = NoCampaign]
    /\ Goto(t, "turn")
    /\ UNCHANGED <<plan, lane, number, halted, crashes, decisions>>

-----------------------------------------------------------------------------
(* The lanes of a batch.  After one lane raised, the others run on until the  *)
(* invocation is frozen.                                                      *)

Running(t) == pc[t] \in {"batch", "failed"}

\* sending_release_job answers false, and nothing happens, for a job that is no
\* longer claimed or has an attempt.
Release(j, outcome) ==
    IF Unattempted(j) THEN ReleaseJob(j, outcome) ELSE UNCHANGED vars

\* The ineligible jobs are released before the pool starts.
LaneDrops(t, j) ==
    /\ pc[t] = "batch" /\ lane[t][j] \in {"suppressed", "skipped"}
    /\ Release(j, lane[t][j])
    /\ LaneDone(t, j)
    /\ UNCHANGED <<pc, plan, serving, halted, crashes, decisions>>

PoolStarted(t) == \A j \in Jobs : lane[t][j] \notin {"suppressed", "skipped"}

\* sendOne begins: neither halted nor, so far, past the deadline.
LaneStarts(t, j) ==
    /\ Running(t) /\ PoolStarted(t) /\ lane[t][j] = "ready" /\ ~halted[t]
    /\ lane' = [lane EXCEPT ![t][j] = "cleared"]
    /\ UNCHANGED <<vars, pc, plan, serving, number, halted, crashes, decisions>>

\* Halted, or past the deadline: the claim is handed back.
LaneDefers(t, j) ==
    /\ Running(t) /\ PoolStarted(t) /\ lane[t][j] = "ready"
    /\ Release(j, "pending")
    /\ LaneDone(t, j)
    /\ UNCHANGED <<pc, plan, serving, halted, crashes, decisions>>

\* The message cannot be composed.
LaneFailsToCompose(t, j) ==
    /\ Running(t) /\ lane[t][j] = "cleared"
    /\ Release(j, "failed")
    /\ LaneDone(t, j)
    /\ UNCHANGED <<pc, plan, serving, halted, crashes, decisions>>

\* Intent is committed before the provider is called.  Null ends the lane; a
\* refused insert raises.
LaneBegins(t, j) ==
    /\ Running(t) /\ lane[t][j] = "cleared"
    /\ \/ /\ BeginAttempt(j)
          /\ lane'   = [lane EXCEPT ![t][j] = "begun"]
          /\ number' = [number EXCEPT ![t][j] = attempts[j]]
          /\ UNCHANGED pc
       \/ /\ ~CanBegin(j)
          /\ LaneDone(t, j)
          /\ IF status[j] = "claimed" THEN Goto(t, "failed") ELSE UNCHANGED pc
          /\ UNCHANGED vars
    /\ UNCHANGED <<plan, serving, halted, crashes, decisions>>

\* The answer is `accepted`: recorded, even when the reconciler gave the attempt
\* up meanwhile.  A second acceptance of the job raises.
LaneRecordsAccepted(t, j) ==
    LET n == number[t][j]
    IN  /\ Running(t) /\ lane[t][j] = "begun"
        /\ Reported(j, n) = "accepted"
        /\ LaneDone(t, j)
        /\ \/ RecordAccepted(j, n) /\ UNCHANGED pc
           \/ /\ attempt[j][n] \in {"dispatched", "unknown"}
              /\ \E m \in AttemptNos : attempt[j][m] = "accepted"
              /\ Goto(t, "failed") /\ UNCHANGED vars
        /\ UNCHANGED <<plan, serving, halted, crashes, decisions>>

\* The answer is a refusal.  The time to retry at is null for a permanent one,
\* and for a transient one after the last attempt.
LaneRecordsRejected(t, j, class) ==
    LET n == number[t][j]
    IN  /\ Running(t) /\ lane[t][j] = "begun"
        /\ Reported(j, n) = "refused"
        /\ LaneDone(t, j)
        /\ IF attempt[j][n] = "dispatched"
           THEN RecordRejected(j, n, class \in {"transient", "halt"})
           ELSE UNCHANGED vars
        /\ halted' = [halted EXCEPT ![t] = @ \/ class = "halt"]
        /\ UNCHANGED <<pc, plan, serving, crashes, decisions>>

\* A timeout, a reset connection or an answer without an id: the attempt stays
\* `dispatched`, whether or not the provider took the message.
LaneLeavesUnknown(t, j) ==
    /\ Running(t) /\ lane[t][j] = "begun"
    /\ LaneDone(t, j)
    /\ UNCHANGED <<vars, pc, plan, serving, halted, crashes, decisions>>

-----------------------------------------------------------------------------
(* Failures, people, the provider *)

\* The invocation dies between two awaits, or a database call of its main line
\* fails, before or after its commit.
TickCrashes(t) ==
    /\ pc[t] # "idle" /\ crashes < MaxCrashes
    /\ crashes' = crashes + 1
    /\ Forget(t)
    /\ UNCHANGED <<vars, decisions>>

\* A lane's database call fails: runPool rejects, the batch's end is skipped.
LaneRaises(t, j) ==
    /\ Running(t) /\ lane[t][j] # "none" /\ crashes < MaxCrashes
    /\ crashes' = crashes + 1
    /\ Goto(t, "failed")
    /\ LaneDone(t, j)
    /\ UNCHANGED <<vars, plan, serving, halted, decisions>>

FailedTickEnds(t) ==
    /\ pc[t] = "failed"
    /\ Forget(t)
    /\ UNCHANGED <<vars, crashes, decisions>>

PersonActs ==
    /\ decisions < MaxDecisions
    /\ decisions' = decisions + 1
    /\ PersonStep \/ RecipientStep
    /\ UNCHANGED <<tickVars, crashes>>

ProviderStep(j) ==
    /\ \E n \in AttemptNos, a \in {"accepted", "refused"} : ProviderAnswers(j, n, a)
    /\ UNCHANGED <<tickVars, crashes, decisions>>

-----------------------------------------------------------------------------
(* The specification *)

TickStep(t) ==
    \/ \E stale \in SUBSET Jobs : TickReaps(t, stale) \/ TickReconciles(t, stale)
    \/ TickLists(t) \/ TickEnds(t)
    \/ \E c \in Campaigns : TickServes(t, c)
    \/ \E members \in SUBSET Jobs : TickMaterializes(t, members)
    \/ TickReads(t) \/ TickPauses(t)
    \/ \E batch, inactive \in SUBSET Jobs : TickClaims(t, batch, inactive)
    \/ \E inactive \in SUBSET Jobs : TickChecks(t, inactive)
    \/ TickSettles(t) \/ TickFinishes(t) \/ FailedTickEnds(t)

LaneStep(t, j) ==
    \/ LaneDrops(t, j) \/ LaneStarts(t, j) \/ LaneDefers(t, j)
    \/ LaneFailsToCompose(t, j) \/ LaneBegins(t, j)
    \/ LaneRecordsAccepted(t, j) \/ LaneLeavesUnknown(t, j)
    \/ \E class \in {"transient", "permanent", "halt"} : LaneRecordsRejected(t, j, class)

EngineNext ==
    \/ \E t \in Ticks : TickStep(t) \/ TickCrashes(t)
    \/ \E t \in Ticks, j \in Jobs : LaneStep(t, j) \/ LaneRaises(t, j)
    \/ \E j \in Jobs : ProviderStep(j)
    \/ PersonActs

EngineSpec == EngineInit /\ [][EngineNext]_engineVars

\* What the scheduler and the deployment owe the liveness properties.  Ticks are
\* invoked again and again and an invocation that is not killed runs on (weak
\* fairness).  Kills, deadlines and budgets do not conspire for ever against the
\* same step: a row past its timeout is found, a campaign is served, a due job
\* is claimed, and a waiting lane starts, if each can again and again (strong).
Fairness ==
    /\ \A t \in Ticks : WF_engineVars(TickStep(t))
    /\ \A t \in Ticks, j \in Jobs : WF_engineVars(LaneStep(t, j))
    /\ \A j \in Jobs :
           /\ SF_engineVars(\E t \in Ticks, stale \in SUBSET Jobs :
                                j \in stale /\ TickReaps(t, stale))
           /\ SF_engineVars(\E t \in Ticks, stale \in SUBSET Jobs :
                                j \in stale /\ TickReconciles(t, stale))
           /\ SF_engineVars(\E t \in Ticks, batch, inactive \in SUBSET Jobs :
                                j \in batch /\ TickClaims(t, batch, inactive))
           /\ SF_engineVars(\E t \in Ticks : LaneStarts(t, j))
    /\ \A c \in Campaigns :
           SF_engineVars(\E t \in Ticks : TickServes(t, c) /\ pc'[t] = "read")

FairEngineSpec == EngineSpec /\ Fairness

-----------------------------------------------------------------------------
(* Properties *)

\* Whatever ticks do, overlapping, dying or overrunning, the tables go through
\* steps of DeliveryLedger only: a refusal or an acceptance is recorded only if
\* the provider gave it, and every theorem about the tables holds of the engine.
TicksImplementTables == Spec

\* While ticks keep inside the maintenance windows, a claimed job belongs to the
\* one tick that holds it: no other tick, reaper, person or suppression takes it
\* away, and no lane ever raises on somebody else's attempt.
ClaimIsExclusive ==
    \A t \in Ticks : \A j \in Held(t) :
        /\ \A u \in Ticks \ {t} : j \notin Held(u)
        /\ IF lane[t][j] = "begun"
           THEN /\ status[j] = "claimed" /\ number[t][j] = attempts[j]
                /\ attempt[j][attempts[j]] = "dispatched"
           ELSE Unattempted(j)

\* ADR-0001 4.1 (3).  A claim a dead tick left behind is the reaper's or the
\* reconciler's to resolve, never neither's: no job stays claimed unseen.
ClaimIsRecoverable ==
    \A j \in Jobs : status[j] = "claimed" =>
        Unattempted(j) \/ \E n \in AttemptNos : attempt[j][n] = "dispatched"

\* ADR-0001 7 (2).  No claim lasts for ever, wherever its tick died.
ClaimsAreSettled ==
    \A j \in Jobs : status[j] = "claimed" ~> status[j] # "claimed"

\* A sending campaign comes to an end, is stopped, or waits for a person to
\* decide about an uncertain message; it never sends on without progress.
CampaignsConclude ==
    \A c \in Campaigns :
        campaign[c] = "sending" ~>
            campaign[c] # "sending" \/ JobsIn(c, {"send_uncertain"}) # {}

\* 0010, "Cancelling a campaign cancels what has not been sent", and ADR-0001 4.1
\* (2), "No job is silently lost": nothing waits in a cancelled campaign.
CancelledHasNothingPending ==
    \A c \in Campaigns : campaign[c] = "cancelled" => JobsIn(c, {"pending"}) = {}
=============================================================================
