-------------------------- MODULE SendEngineProofs --------------------------
(***************************************************************************)
(* The send tick implements DeliveryLedger, so every theorem about the     *)
(* tables holds of the whole engine: for any number of overlapping ticks,  *)
(* whatever their timing, and however often they die.                      *)
(***************************************************************************)
EXTENDS SendEngine, DeliveryLedgerProofs

\* A tick's memory has its shape, and what it addresses exists.
MemoryTyped ==
    /\ pc      \in [Ticks -> TickPc]
    /\ serving \in [Ticks -> Campaigns \cup {NoCampaign}]
    /\ lane    \in [Ticks -> [Jobs -> LaneState]]
    /\ number  \in [Ticks -> [Jobs -> 0 .. MaxAttempts]]

\* Between taking a campaign off its list and finishing it, a tick serves it.
ServesACampaign ==
    \A t \in Ticks :
        pc[t] \in {"materialize", "read", "claim", "check", "batch", "failed", "finish"}
            => serving[t] \in Campaigns

\* A lane that began an attempt knows its number.
LanesAreNumbered ==
    \A t \in Ticks, j \in Jobs : lane[t][j] = "begun" => number[t][j] \in AttemptNos

EInv == MemoryTyped /\ ServesACampaign /\ LanesAreNumbered

-----------------------------------------------------------------------------
(* Every step of a tick is a step, or a stutter, of the tables *)

\* The main line of a tick.
LEMMA TickIsTableStep ==
    ASSUME EInv, NEW t \in Ticks, TickStep(t)
    PROVE  [Next]_vars
<1> USE DEF EInv, MaintenanceStep
<1>1. ASSUME NEW stale \in SUBSET Jobs, TickReaps(t, stale) PROVE [Next]_vars
    BY <1>1 DEF TickReaps, Next
<1>2. ASSUME NEW stale \in SUBSET Jobs, TickReconciles(t, stale) PROVE [Next]_vars
    BY <1>2 DEF TickReconciles, Next
<1>3. CASE TickLists(t) \/ TickEnds(t) \/ TickReads(t) \/ FailedTickEnds(t)
           \/ \E c \in Campaigns : TickServes(t, c)
    BY <1>3 DEF TickLists, TickEnds, TickReads, FailedTickEnds, TickServes
<1>4. ASSUME NEW members \in SUBSET Jobs, TickMaterializes(t, members) PROVE [Next]_vars
    BY <1>4 DEF TickMaterializes, ServesACampaign, Next
<1>5. CASE TickPauses(t)
    BY <1>5 DEF TickPauses, ServesACampaign, Next, PersonStep
<1>6. ASSUME NEW batch \in SUBSET Jobs, NEW inactive \in SUBSET Jobs,
             TickClaims(t, batch, inactive)
      PROVE  [Next]_vars
    BY <1>6 DEF TickClaims, ServesACampaign, Next, ClaimStep
<1>7. CASE TickSettles(t)
    BY <1>7 DEF TickSettles, Next
<1>8. CASE TickFinishes(t)
    BY <1>8 DEF TickFinishes, ServesACampaign, Next
<1>9. CASE \E stale \in SUBSET Jobs : TickReaps(t, stale) \/ TickReconciles(t, stale)
    BY <1>1, <1>2, <1>9
<1>10. CASE \E members \in SUBSET Jobs : TickMaterializes(t, members)
    BY <1>4, <1>10
<1>11. CASE \E batch, inactive \in SUBSET Jobs : TickClaims(t, batch, inactive)
    BY <1>6, <1>11
<1>12. CASE \E inactive \in SUBSET Jobs : TickChecks(t, inactive)
    BY <1>12 DEF TickChecks
<1>13. QED
    BY <1>3, <1>5, <1>7, <1>8, <1>9, <1>10, <1>11, <1>12 DEF TickStep

\* A lane releases, begins and records only as the tables allow.
LEMMA LaneIsTableStep ==
    ASSUME EInv, NEW t \in Ticks, NEW j \in Jobs, LaneStep(t, j)
    PROVE  [Next]_vars
<1>1. JobStep(j) => [Next]_vars
    BY DEF Next
<1>2. CASE LaneDrops(t, j) \/ LaneDefers(t, j) \/ LaneFailsToCompose(t, j)
    BY <1>1, <1>2 DEF LaneDrops, LaneDefers, LaneFailsToCompose, Release, JobStep
<1>3. CASE LaneBegins(t, j)
    BY <1>1, <1>3 DEF LaneBegins, JobStep
<1>4. CASE LaneRecordsAccepted(t, j)
    <2>1. number[t][j] \in AttemptNos
        BY <1>4 DEF LaneRecordsAccepted, EInv, LanesAreNumbered
    <2>2. QED BY <1>1, <1>4, <2>1 DEF LaneRecordsAccepted, Reported, JobStep
<1>5. ASSUME NEW class \in {"transient", "permanent", "halt"},
             LaneRecordsRejected(t, j, class)
      PROVE  [Next]_vars
    <2>1. number[t][j] \in AttemptNos
        BY <1>5 DEF LaneRecordsRejected, EInv, LanesAreNumbered
    <2>2. CASE class \in {"transient", "halt"}
        <3>1. RecordRejected(j, number[t][j], class \in {"transient", "halt"})
                  => RecordRejected(j, number[t][j], TRUE)
            BY <2>2 DEF RecordRejected
        <3>2. QED BY <1>1, <1>5, <2>1, <3>1 DEF LaneRecordsRejected, Reported, JobStep
    <2>3. CASE class \notin {"transient", "halt"}
        <3>1. RecordRejected(j, number[t][j], class \in {"transient", "halt"})
                  => RecordRejected(j, number[t][j], FALSE)
            BY <2>3 DEF RecordRejected
        <3>2. QED BY <1>1, <1>5, <2>1, <3>1 DEF LaneRecordsRejected, Reported, JobStep
    <2>4. QED BY <2>2, <2>3
<1>6. CASE LaneStarts(t, j) \/ LaneLeavesUnknown(t, j)
    BY <1>6 DEF LaneStarts, LaneLeavesUnknown
<1>7. QED BY <1>2, <1>3, <1>4, <1>5, <1>6 DEF LaneStep

\* Whoever moves, the tables move as DeliveryLedger says.
LEMMA EngineIsTableStep ==
    EInv /\ [EngineNext]_engineVars => [Next]_vars
<1> SUFFICES ASSUME EInv, [EngineNext]_engineVars PROVE [Next]_vars
    OBVIOUS
<1>1. ASSUME NEW t \in Ticks, TickCrashes(t) \/ \E j \in Jobs : LaneRaises(t, j)
      PROVE  [Next]_vars
    BY <1>1 DEF TickCrashes, LaneRaises
<1>2. ASSUME NEW j \in Jobs, ProviderStep(j) PROVE [Next]_vars
    BY <1>2 DEF ProviderStep, JobStep, Next
<1>3. CASE PersonActs
    BY <1>3 DEF PersonActs, Next
<1>4. CASE UNCHANGED engineVars
    BY <1>4 DEF engineVars
<1>5. QED BY <1>1, <1>2, <1>3, <1>4, TickIsTableStep, LaneIsTableStep DEF EngineNext

-----------------------------------------------------------------------------
(* What a tick has in memory stays well formed *)

\* No tick runs at first.
LEMMA EngineInitInv == EngineInit => Init /\ EInv
BY AttemptCap
DEF EngineInit, NoLanes, EInv, MemoryTyped, ServesACampaign, LanesAreNumbered, TickPc,
    LaneState

\* Forgetting a tick leaves the other ticks' memory alone.
LEMMA ForgetKeepsMemory ==
    ASSUME EInv, NEW t \in Ticks, Forget(t)
    PROVE  EInv'
BY AttemptCap
DEF Forget, Goto, NoLanes, EInv, MemoryTyped, ServesACampaign, LanesAreNumbered, TickPc,
    LaneState

\* The main line moves the program counter and takes or leaves a campaign.
LEMMA TickKeepsMemory ==
    ASSUME EInv, NEW t \in Ticks, TickStep(t)
    PROVE  EInv'
<1> USE DEF EInv, MemoryTyped, ServesACampaign, LanesAreNumbered, Goto, TickPc, LaneState
<1>1. ASSUME NEW stale \in SUBSET Jobs, TickReaps(t, stale) \/ TickReconciles(t, stale)
      PROVE  EInv'
    BY <1>1 DEF TickReaps, TickReconciles
<1>2. CASE TickLists(t)
    BY <1>2 DEF TickLists
<1>3. CASE TickEnds(t) \/ FailedTickEnds(t)
    BY <1>3, ForgetKeepsMemory DEF TickEnds, FailedTickEnds
<1>4. ASSUME NEW c \in Campaigns, TickServes(t, c) PROVE EInv'
    BY <1>4 DEF TickServes
<1>5. ASSUME NEW members \in SUBSET Jobs, TickMaterializes(t, members) PROVE EInv'
    BY <1>5 DEF TickMaterializes
<1>6. CASE TickReads(t) \/ TickPauses(t)
    BY <1>6 DEF TickReads, TickPauses
<1>7. ASSUME NEW batch \in SUBSET Jobs, NEW inactive \in SUBSET Jobs,
             TickClaims(t, batch, inactive)
      PROVE  EInv'
    <2>1. \/ lane' = lane
          \/ \E S \in SUBSET Jobs : lane' = [lane EXCEPT ![t] = [j \in Jobs |->
                                       IF j \in S THEN "claimed" ELSE "none"]]
        BY <1>7 DEF TickClaims
    <2>2. serving[t] \in Campaigns /\ UNCHANGED <<serving, number>>
        BY <1>7 DEF TickClaims
    <2>3. pc' = [pc EXCEPT ![t] = "finish"] \/ pc' = [pc EXCEPT ![t] = "check"]
        BY <1>7 DEF TickClaims
    <2>4. ASSUME NEW u \in Ticks, NEW i \in Jobs
          PROVE  lane'[u][i] = "claimed" \/ lane'[u][i] = "none" \/ lane'[u][i] = lane[u][i]
        BY <2>1
    <2>5. lane' \in [Ticks -> [Jobs -> LaneState]]
        BY <2>1
    <2>6. QED BY <2>2, <2>3, <2>4, <2>5
<1>8. ASSUME NEW inactive \in SUBSET Jobs, TickChecks(t, inactive) PROVE EInv'
    BY <1>8 DEF TickChecks
<1>9. CASE TickSettles(t)
    BY <1>9 DEF TickSettles
<1>10. CASE TickFinishes(t)
    BY <1>10 DEF TickFinishes
<1>11. CASE \E stale \in SUBSET Jobs : TickReaps(t, stale) \/ TickReconciles(t, stale)
    BY <1>1, <1>11
<1>12. CASE \E batch, inactive \in SUBSET Jobs : TickClaims(t, batch, inactive)
    BY <1>7, <1>12
<1> HIDE DEF EInv
<1>13. CASE \/ \E c \in Campaigns : TickServes(t, c)
            \/ \E members \in SUBSET Jobs : TickMaterializes(t, members)
    BY <1>4, <1>5, <1>13
<1>14. CASE \E inactive \in SUBSET Jobs : TickChecks(t, inactive)
    BY <1>8, <1>14
<1>15. QED
    BY <1>2, <1>3, <1>6, <1>9, <1>10, <1>11, <1>12, <1>13, <1>14 DEF TickStep

\* A lane that begins an attempt takes its job's claim number, a true number.
LEMMA LaneKeepsMemory ==
    ASSUME IInv, EInv, NEW t \in Ticks, NEW j \in Jobs,
           LaneStep(t, j) \/ LaneRaises(t, j)
    PROVE  EInv'
<1> USE AttemptCap
    DEF EInv, MemoryTyped, ServesACampaign, LanesAreNumbered, Goto, TickPc, LaneState,
        LaneDone, Running
<1>1. CASE LaneDrops(t, j) \/ LaneDefers(t, j) \/ LaneFailsToCompose(t, j)
           \/ LaneLeavesUnknown(t, j) \/ LaneRaises(t, j)
    <2>1. LaneDone(t, j) /\ UNCHANGED serving
        BY <1>1 DEF LaneDrops, LaneDefers, LaneFailsToCompose, LaneLeavesUnknown, LaneRaises
    <2>2. UNCHANGED pc \/ (Running(t) /\ pc' = [pc EXCEPT ![t] = "failed"])
        BY <1>1 DEF LaneDrops, LaneDefers, LaneFailsToCompose, LaneLeavesUnknown, LaneRaises
    <2>3. QED BY <2>1, <2>2
<1>2. CASE LaneStarts(t, j)
    BY <1>2 DEF LaneStarts
<1>3. CASE LaneBegins(t, j)
    <2>1. BeginAttempt(j) => attempts[j] \in AttemptNos
        BY DEF BeginAttempt, CanBegin, IInv, ClaimNumberIsFree
    <2>2. attempts[j] \in 0 .. MaxAttempts
        BY DEF IInv, TypeOK
    <2>3. CASE BeginAttempt(j) /\ lane' = [lane EXCEPT ![t][j] = "begun"]
                  /\ number' = [number EXCEPT ![t][j] = attempts[j]] /\ UNCHANGED pc
        BY <1>3, <2>1, <2>2, <2>3 DEF LaneBegins
    <2>4. CASE LaneDone(t, j) /\ (Goto(t, "failed") \/ UNCHANGED pc)
        BY <1>3, <2>4 DEF LaneBegins
    <2>5. QED BY <1>3, <2>3, <2>4 DEF LaneBegins
<1>4. CASE LaneRecordsAccepted(t, j)
    <2>1. LaneDone(t, j) /\ UNCHANGED serving
        BY <1>4 DEF LaneRecordsAccepted
    <2>2. UNCHANGED pc \/ (Running(t) /\ pc' = [pc EXCEPT ![t] = "failed"])
        BY <1>4 DEF LaneRecordsAccepted
    <2>3. QED BY <2>1, <2>2
<1>5. ASSUME NEW class \in {"transient", "permanent", "halt"},
             LaneRecordsRejected(t, j, class)
      PROVE  EInv'
    BY <1>5 DEF LaneRecordsRejected
<1> HIDE DEF EInv
<1>6. QED BY <1>1, <1>2, <1>3, <1>4, <1>5 DEF LaneStep

\* The memory invariant is inductive, given the tables' own.
LEMMA EngineStepInv == IInv /\ EInv /\ [EngineNext]_engineVars => EInv'
<1> SUFFICES ASSUME IInv, EInv, [EngineNext]_engineVars PROVE EInv'
    OBVIOUS
<1>1. ASSUME NEW t \in Ticks, TickCrashes(t) PROVE EInv'
    BY <1>1, ForgetKeepsMemory DEF TickCrashes
<1>2. CASE PersonActs \/ \E j \in Jobs : ProviderStep(j)
    BY <1>2 DEF PersonActs, ProviderStep, tickVars, EInv, MemoryTyped, ServesACampaign,
                LanesAreNumbered
<1>3. CASE UNCHANGED engineVars
    BY <1>3 DEF engineVars, tickVars, EInv, MemoryTyped, ServesACampaign, LanesAreNumbered
<1>4. QED BY <1>1, <1>2, <1>3, TickKeepsMemory, LaneKeepsMemory DEF EngineNext

-----------------------------------------------------------------------------
(* Theorems *)

\* Every behaviour of overlapping, dying, overrunning ticks is a behaviour of the
\* tables' specification.
THEOREM EngineImplementsTables == EngineSpec => TicksImplementTables
<1>1. EngineInit => Init /\ IInv /\ EInv
    BY EngineInitInv, InitInv
<1>2. IInv /\ EInv /\ [EngineNext]_engineVars => IInv' /\ EInv' /\ [Next]_vars
    BY EngineIsTableStep, EngineStepInv, StepInv
<1>3. QED BY <1>1, <1>2, PTL DEF EngineSpec, TicksImplementTables, Spec

\* ADR-0001 4.1 (1) for the engine itself: however ticks interleave and die, the
\* provider accepts at most one call per job that nobody decided to repeat.
THEOREM EngineSendsAtMostOnce == EngineSpec => []AtMostOneSend
BY EngineImplementsTables, SendsAtMostOnce, PTL DEF TicksImplementTables

\* What holds of the tables holds under the engine: its sent jobs are those with an
\* accepted attempt, its campaigns finish for good, and their counters are those
\* of a recount of the rows at every moment, whatever ticks die in between.
THEOREM EngineKeepsTables ==
    EngineSpec => [](MessageIdMeansSent /\ FinishedIsSettled /\ TallyMatchesJobs)
BY EngineImplementsTables, MessageIdIsProofOfSend, FinishedStaysSettled, CountersMatchRows, PTL
DEF TicksImplementTables

\* The engine over the tables, as one system, implements the at-most-once promise
\* of ADR-0001; and no tick ever claims a suppressed address.
THEOREM EngineImplementsPromise ==
    EngineSpec => ImplementsAtMostOnceSend /\ SuppressedNeverClaimed
<1>1. EngineSpec => Spec
    BY EngineImplementsTables DEF TicksImplementTables
<1>2. Spec => ImplementsAtMostOnceSend
    BY ImplementsPromise
<1>3. Spec => SuppressedNeverClaimed
    BY SuppressedIsNeverClaimed
<1>4. QED BY <1>1, <1>2, <1>3

-----------------------------------------------------------------------------
(* Inside the maintenance windows *)

\* Between the claim and the check a tick has touched none of the jobs it holds.
UntouchedBeforeCheck ==
    \A t \in Ticks, j \in Jobs : pc[t] = "check" => lane[t][j] \in {"none", "claimed"}

\* While every lane records its own attempt in time, an accepted attempt has moved
\* its job to `sent`: none is found on a job that waits or is claimed again.
AcceptedIsSent ==
    \A j \in Jobs, n \in AttemptNos : attempt[j][n] = "accepted" => status[j] = "sent"

WInv == IInv /\ EInv /\ NothingReported /\ ClaimIsExclusive /\ UntouchedBeforeCheck
             /\ AcceptedIsSent

\* What a step of the tables leaves alone outside the rows S: the claimed rows, the
\* acceptances and what counts as sent.
RowSame(j) == status'[j] = status[j] /\ attempts'[j] = attempts[j] /\ attempt'[j] = attempt[j]

Kept(S) ==
    /\ \A j \in Jobs \ S : status[j] = "claimed" => RowSame(j)
    /\ \A j \in Jobs, n \in AttemptNos : attempt'[j][n] = "accepted" => attempt[j][n] = "accepted"
    /\ \A j \in Jobs : status[j] = "sent" => status'[j] = "sent"

LEMMA NothingMovesKept == UNCHANGED <<status, attempts, attempt>> => Kept({})
BY DEF Kept, RowSame

\* Maintenance touches the claimed rows it finds stale.
LEMMA MaintenanceKept ==
    ASSUME TypeOK, NEW stale \in SUBSET Jobs, ReapClaimed(stale) \/ ReconcileAttempts(stale)
    PROVE  Kept(stale)
<1>1. CASE ReapClaimed(stale)
    BY <1>1 DEF TypeOK, ReapClaimed, Unattempted, Move, Kept, RowSame
<1>2. CASE ReconcileAttempts(stale)
    BY <1>2 DEF TypeOK, ReconcileAttempts, Redispatched, WithoutAnswer, Kept, RowSame
<1>3. QED BY <1>1, <1>2

\* Nobody but the worker touches a claimed row.
LEMMA CampaignStepKept ==
    ASSUME TypeOK, NEW c \in Campaigns,
           \/ \E members \in SUBSET Jobs : MaterializeCampaign(c, members)
           \/ \E batch, inactive \in SUBSET Jobs : ClaimJobs(c, batch, inactive)
           \/ FinishCampaign(c) \/ PauseCampaign(c) \/ PauseWorkspace
    PROVE  Kept({})
<1>1. ASSUME NEW members \in SUBSET Jobs, MaterializeCampaign(c, members) PROVE Kept({})
    BY <1>1 DEF TypeOK, MaterializeCampaign, Move, JobsIn, JobsOf, Kept, RowSame
<1>2. ASSUME NEW batch \in SUBSET Jobs, NEW inactive \in SUBSET Jobs, ClaimJobs(c, batch, inactive)
      PROVE  Kept({})
    BY <1>2 DEF TypeOK, ClaimJobs, Listed, JobsIn, JobsOf, Kept, RowSame
<1>3. CASE FinishCampaign(c) \/ PauseCampaign(c) \/ PauseWorkspace
    BY <1>3, NothingMovesKept DEF FinishCampaign, PauseCampaign, PauseWorkspace, jobVars
<1>4. QED BY <1>1, <1>2, <1>3

LEMMA PersonStepKept == ASSUME TypeOK, PersonStep \/ RecipientStep PROVE Kept({})
<1>1. ASSUME NEW i \in Jobs, NEW d \in {"redispatch", "leave"}, ResolveUncertain(i, d)
      PROVE  Kept({})
    BY <1>1 DEF TypeOK, ResolveUncertain, Move, Kept, RowSame
<1>2. ASSUME NEW c \in Campaigns, CancelCampaign(c) PROVE Kept({})
    BY <1>2 DEF TypeOK, CancelCampaign, Move, JobsIn, JobsOf, Kept, RowSame
<1>3. ASSUME NEW a, NEW kind, InsertSuppression(a, kind), UNCHANGED <<attempts, attempt>>
      PROVE  Kept({})
    BY <1>3 DEF TypeOK, InsertSuppression, PendingAt, Move, Kept, RowSame
<1>4. CASE \/ \E c \in Campaigns : PauseCampaign(c) \/ ResumeSending(c)
           \/ \E a \in Addresses : Unsuppress(a)
    BY <1>4, NothingMovesKept DEF PauseCampaign, ResumeSending, Unsuppress, jobVars
<1>5. QED BY <1>1, <1>2, <1>3, <1>4 DEF PersonStep, RecipientStep, Suppress, RecordUnsubscribe

\* The worker's own functions touch one row.
LEMMA JobFunctionKept ==
    ASSUME TypeOK, NEW j \in Jobs,
           \/ \E o \in {"pending", "suppressed", "skipped", "failed"} : ReleaseJob(j, o)
           \/ BeginAttempt(j)
           \/ \E n \in AttemptNos, retry \in BOOLEAN : RecordRejected(j, n, retry)
    PROVE  Kept({j})
<1>1. ASSUME NEW o \in {"pending", "suppressed", "skipped", "failed"}, ReleaseJob(j, o)
      PROVE  Kept({j})
    BY <1>1 DEF TypeOK, ReleaseJob, Unattempted, Move, Kept, RowSame
<1>2. CASE BeginAttempt(j)
    BY <1>2 DEF TypeOK, BeginAttempt, jobVars, Kept, RowSame
<1>3. ASSUME NEW n \in AttemptNos, NEW retry \in BOOLEAN, RecordRejected(j, n, retry)
      PROVE  Kept({j})
    BY <1>3 DEF TypeOK, RecordRejected, Move, Kept, RowSame
<1>4. QED BY <1>1, <1>2, <1>3

\* A held row is claimed, by one tick.
LEMMA HeldIsClaimed ==
    ASSUME ClaimIsExclusive, NEW t \in Ticks, NEW j \in Jobs, lane[t][j] # "none"
    PROVE  /\ status[j] = "claimed"
           /\ \A u \in Ticks \ {t} : lane[u][j] = "none"
BY DEF ClaimIsExclusive, Held, Unattempted

\* When no lane is taken up or begun, and those that go on hold rows outside S, the
\* claims stay exclusive.
LEMMA LanesGoOn ==
    ASSUME WInv, NEW S, Kept(S),
           \A t \in Ticks, i \in Jobs : lane'[t][i] # "none" =>
               /\ i \notin S /\ lane[t][i] # "none" /\ number'[t][i] = number[t][i]
               /\ lane'[t][i] = "begun" <=> lane[t][i] = "begun"
    PROVE  ClaimIsExclusive' /\ AcceptedIsSent'
<1>1. AcceptedIsSent'
    BY DEF WInv, Kept, AcceptedIsSent
<1>2. ASSUME NEW t \in Ticks, NEW j \in Jobs, lane'[t][j] # "none"
      PROVE  /\ \A u \in Ticks \ {t} : lane'[u][j] = "none"
             /\ IF lane'[t][j] = "begun"
                THEN /\ status'[j] = "claimed" /\ number'[t][j] = attempts'[j]
                     /\ attempt'[j][attempts'[j]] = "dispatched"
                ELSE Unattempted(j)'
    <2>1. /\ lane[t][j] # "none" /\ j \notin S /\ number'[t][j] = number[t][j]
          /\ lane'[t][j] = "begun" <=> lane[t][j] = "begun"
        BY <1>2
    <2>2. status[j] = "claimed" /\ \A u \in Ticks \ {t} : lane[u][j] = "none"
        BY <2>1, HeldIsClaimed DEF WInv
    <2>3. RowSame(j)
        BY <2>1, <2>2 DEF Kept
    <2>4. \A u \in Ticks \ {t} : lane'[u][j] = "none"
        BY <2>2
    <2>5. IF lane[t][j] = "begun"
          THEN /\ status[j] = "claimed" /\ number[t][j] = attempts[j]
               /\ attempt[j][attempts[j]] = "dispatched"
          ELSE Unattempted(j)
        BY <2>1 DEF WInv, ClaimIsExclusive, Held
    <2>6. QED BY <2>1, <2>3, <2>4, <2>5 DEF RowSame, Unattempted, Blocking
<1>3. ClaimIsExclusive'
    BY <1>2 DEF ClaimIsExclusive, Held
<1>4. QED BY <1>1, <1>3

\* A tick that forgets its memory holds nothing.
LEMMA ForgetKeepsClaims ==
    ASSUME WInv, NEW t \in Ticks, Forget(t), UNCHANGED vars
    PROVE  ClaimIsExclusive' /\ AcceptedIsSent' /\ UntouchedBeforeCheck'
<1>1. Kept({})
    BY NothingMovesKept DEF vars, jobVars
<1>2. \A u \in Ticks, i \in Jobs : lane'[u][i] # "none" =>
          /\ lane[u][i] # "none" /\ number'[u][i] = number[u][i]
          /\ lane'[u][i] = lane[u][i]
    BY DEF WInv, EInv, MemoryTyped, Forget, NoLanes
<1>3. UntouchedBeforeCheck'
    BY DEF WInv, EInv, MemoryTyped, Forget, Goto, NoLanes, UntouchedBeforeCheck
<1>4. QED BY <1>1, <1>2, <1>3, LanesGoOn

\* The main line, but for the claim and the check, leaves every lane alone.
LEMMA MainLineKeepsClaims ==
    ASSUME WInv, Kept({}), UNCHANGED <<lane, number>>, NEW t \in Ticks,
           \E label \in TickPc \ {"check"} : Goto(t, label)
    PROVE  ClaimIsExclusive' /\ AcceptedIsSent' /\ UntouchedBeforeCheck'
<1>1. ClaimIsExclusive' /\ AcceptedIsSent'
    BY LanesGoOn
<1>2. UntouchedBeforeCheck'
    BY DEF WInv, EInv, MemoryTyped, Goto, UntouchedBeforeCheck
<1>3. QED BY <1>1, <1>2

\* A claim takes only rows that wait: no tick holds them, no attempt of theirs is
\* open or accepted, and the number it takes is free.
LEMMA TickClaimsKeepsClaims ==
    ASSUME WInv, NEW t \in Ticks, NEW batch \in SUBSET Jobs, NEW inactive \in SUBSET Jobs,
           TickClaims(t, batch, inactive)
    PROVE  ClaimIsExclusive' /\ AcceptedIsSent' /\ UntouchedBeforeCheck'
<1>1. CASE ~ClaimJobs(serving[t], batch, inactive)
    <2>1. UNCHANGED <<vars, lane, number>> /\ Goto(t, "finish")
        BY <1>1 DEF TickClaims
    <2>2. QED BY <2>1, NothingMovesKept, MainLineKeepsClaims DEF vars, jobVars, TickPc
<1>2. CASE ClaimJobs(serving[t], batch, inactive)
    <2> DEFINE claimed == {j \in batch : status'[j] = "claimed"}
    <2>1. /\ lane' = [lane EXCEPT ![t] = [j \in Jobs |-> IF j \in claimed THEN "claimed"
                                                                        ELSE "none"]]
          /\ UNCHANGED number
          /\ \E label \in {"finish", "check"} : Goto(t, label)
        BY <1>2 DEF TickClaims, ClaimJobs
    <2>2. /\ TypeOK /\ serving[t] \in Campaigns
          /\ lane \in [Ticks -> [Jobs -> LaneState]]
        BY <1>2 DEF WInv, IInv, EInv, MemoryTyped, ServesACampaign, TickClaims
    <2>3. Kept({})
        BY <1>2, <2>2, CampaignStepKept
    <2>4. ASSUME NEW j \in claimed
          PROVE  /\ j \in Jobs /\ status[j] = "pending" /\ status'[j] = "claimed"
                 /\ attempts'[j] = attempts[j] + 1 /\ attempt' = attempt
        BY <1>2 DEF ClaimJobs, Listed, JobsIn, JobsOf
    <2> HIDE DEF claimed
    <2>5. ASSUME NEW j \in claimed PROVE Unattempted(j)'
        <3>1. \A n \in AttemptNos : attempt[j][n] \notin {"dispatched", "accepted"}
            BY <2>4 DEF WInv, NothingReported, AcceptedIsSent
        <3>2. \A n \in AttemptNos : attempt[j][n] # "none" => n <= attempts[j]
            BY <2>4 DEF WInv, IInv, ClaimNumberIsFree
        <3>3. attempts[j] \in Nat /\ AttemptNos \subseteq Nat
            BY <2>2, <2>4 DEF TypeOK, AttemptNos
        <3>4. \A n \in AttemptNos : attempt'[j][n] # "none" => n # attempts'[j]
            BY <2>4, <3>2, <3>3
        <3>5. ~Blocking(j)'
            BY <2>4, <3>1 DEF Blocking
        <3>6. QED BY <2>4, <3>4, <3>5 DEF Unattempted
    <2>6. ASSUME NEW j \in Jobs, NEW u \in Ticks, lane[u][j] # "none"
          PROVE  j \notin claimed /\ RowSame(j)
        BY <2>3, <2>4, <2>6, HeldIsClaimed DEF WInv, Kept
    <2>7. AcceptedIsSent'
        BY <2>3 DEF WInv, Kept, AcceptedIsSent
    <2>8. UntouchedBeforeCheck'
        BY <2>1, <2>2 DEF WInv, EInv, MemoryTyped, Goto, UntouchedBeforeCheck
    <2>9. ASSUME NEW u \in Ticks, NEW j \in Jobs, lane'[u][j] # "none"
          PROVE  /\ \A v \in Ticks \ {u} : lane'[v][j] = "none"
                 /\ IF lane'[u][j] = "begun"
                    THEN /\ status'[j] = "claimed" /\ number'[u][j] = attempts'[j]
                         /\ attempt'[j][attempts'[j]] = "dispatched"
                    ELSE Unattempted(j)'
        <3>1. CASE u = t
            <4>1. j \in claimed /\ lane'[u][j] = "claimed"
                BY <2>1, <2>2, <2>9, <3>1
            <4>2. \A v \in Ticks \ {u} : lane'[v][j] = "none"
                BY <2>1, <2>2, <2>6, <3>1, <4>1
            <4>3. QED BY <2>5, <4>1, <4>2
        <3>2. CASE u # t
            <4>1. lane'[u] = lane[u] /\ lane[u][j] # "none"
                BY <2>1, <2>2, <2>9, <3>2
            <4>2. j \notin claimed /\ RowSame(j)
                BY <2>6, <4>1
            <4>3. \A v \in Ticks \ {u} : lane[v][j] = "none"
                BY <4>1, HeldIsClaimed DEF WInv
            <4>4. \A v \in Ticks \ {u} : lane'[v][j] = "none"
                BY <2>1, <2>2, <4>2, <4>3
            <4>5. IF lane[u][j] = "begun"
                  THEN /\ status[j] = "claimed" /\ number[u][j] = attempts[j]
                       /\ attempt[j][attempts[j]] = "dispatched"
                  ELSE Unattempted(j)
                BY <4>1 DEF WInv, ClaimIsExclusive, Held
            <4>6. number' = number
                BY <2>1
            <4>7. QED BY <4>1, <4>2, <4>4, <4>5, <4>6 DEF RowSame, Unattempted, Blocking
        <3>3. QED BY <3>1, <3>2
    <2>10. ClaimIsExclusive'
        BY <2>9 DEF ClaimIsExclusive, Held
    <2>11. QED BY <2>7, <2>8, <2>10
<1>3. QED BY <1>1, <1>2

\* The main line of a tick, given that it keeps inside the windows.
LEMMA TickKeepsClaims ==
    ASSUME WInv, Overrun = FALSE, NEW t \in Ticks, TickStep(t)
    PROVE  ClaimIsExclusive' /\ AcceptedIsSent' /\ UntouchedBeforeCheck'
<1> DEFINE Goal == ClaimIsExclusive' /\ AcceptedIsSent' /\ UntouchedBeforeCheck'
<1>1. TypeOK /\ lane \in [Ticks -> [Jobs -> LaneState]]
    BY DEF WInv, IInv, EInv, MemoryTyped
\* The reaper and the reconciler pass over what a running tick holds.
<1>2. ASSUME NEW stale \in SUBSET Jobs, TickReaps(t, stale) \/ TickReconciles(t, stale)
      PROVE  Goal
    <2>1. /\ UNCHANGED <<lane, number>> /\ Kept(stale)
          /\ \A j \in stale : MayBeStale(j)
          /\ \E label \in TickPc \ {"check"} : Goto(t, label)
        BY <1>1, <1>2, MaintenanceKept
           DEF TickReaps, TickReconciles, TickPc, Kept, RowSame, vars, jobVars
    <2>2. \A u \in Ticks, j \in stale : lane[u][j] = "none"
        BY <2>1 DEF MayBeStale, Held
    <2>3. ClaimIsExclusive' /\ AcceptedIsSent'
        BY <2>1, <2>2, LanesGoOn
    <2>4. UntouchedBeforeCheck'
        BY <2>1 DEF WInv, EInv, MemoryTyped, Goto, UntouchedBeforeCheck
    <2>5. QED BY <2>3, <2>4
<1>3. CASE TickLists(t) \/ TickReads(t) \/ \E c \in Campaigns : TickServes(t, c)
    <2>1. UNCHANGED <<vars, lane, number>> /\ \E label \in TickPc \ {"check"} : Goto(t, label)
        BY <1>3 DEF TickLists, TickReads, TickServes, TickPc
    <2>2. QED BY <2>1, NothingMovesKept, MainLineKeepsClaims DEF vars, jobVars
<1>4. CASE TickEnds(t) \/ FailedTickEnds(t)
    BY <1>4, ForgetKeepsClaims DEF TickEnds, FailedTickEnds
<1>5. ASSUME \/ \E members \in SUBSET Jobs : TickMaterializes(t, members)
             \/ TickPauses(t) \/ TickSettles(t) \/ TickFinishes(t)
      PROVE  Goal
    <2>1. serving[t] \in Campaigns \/ pc[t] = "batch"
        BY <1>5 DEF WInv, EInv, ServesACampaign, TickMaterializes, TickPauses, TickSettles,
                    TickFinishes
    <2>2. /\ UNCHANGED <<lane, number>>
          /\ \E label \in TickPc \ {"check"} : Goto(t, label)
        BY <1>5 DEF TickMaterializes, TickPauses, TickSettles, TickFinishes, TickPc
    <2>3. \/ UNCHANGED vars \/ PauseWorkspace
          \/ \E members \in SUBSET Jobs : MaterializeCampaign(serving[t], members)
          \/ FinishCampaign(serving[t]) \/ PauseCampaign(serving[t])
        BY <1>5 DEF TickMaterializes, TickPauses, TickSettles, TickFinishes
    <2>4. CASE UNCHANGED vars
        BY <2>4, <2>2, NothingMovesKept, MainLineKeepsClaims DEF vars, jobVars
    <2>5. CASE PauseWorkspace
        BY <2>5, <2>2, NothingMovesKept, MainLineKeepsClaims DEF PauseWorkspace, jobVars
    <2>6. serving[t] \in Campaigns
        BY <1>5 DEF WInv, EInv, ServesACampaign, TickMaterializes, TickPauses, TickSettles,
                    TickFinishes
    <2>7. CASE ~UNCHANGED vars /\ ~PauseWorkspace
        BY <1>1, <2>2, <2>3, <2>6, <2>7, CampaignStepKept, MainLineKeepsClaims
    <2>8. QED BY <2>4, <2>5, <2>7
\* The check relabels claims, none of which has begun an attempt.
<1>6. ASSUME NEW inactive \in SUBSET Jobs, TickChecks(t, inactive) PROVE Goal
    <2>1. /\ UNCHANGED <<vars, number>> /\ pc[t] = "check" /\ Goto(t, "batch")
          /\ lane' = [lane EXCEPT ![t] = [j \in Jobs |->
                 CASE j \notin Held(t) -> "none"
                   [] j \in Held(t) /\ Suppressed(j) -> "suppressed"
                   [] j \in inactive /\ ~Suppressed(j) -> "skipped"
                   [] OTHER -> "ready"]]
        BY <1>6 DEF TickChecks
    <2>2. Kept({})
        BY <2>1, NothingMovesKept DEF vars, jobVars
    <2>3. \A j \in Jobs : lane[t][j] \in {"none", "claimed"}
        BY <2>1 DEF WInv, UntouchedBeforeCheck
    <2>4. \A j \in Jobs : /\ lane'[t][j] \in {"none", "suppressed", "skipped", "ready"}
                          /\ lane'[t][j] # "none" => lane[t][j] # "none"
        <3>1. lane'[t] = [j \in Jobs |->
                  CASE j \notin Held(t) -> "none"
                    [] j \in Held(t) /\ Suppressed(j) -> "suppressed"
                    [] j \in inactive /\ ~Suppressed(j) -> "skipped"
                    [] OTHER -> "ready"]
            BY <1>1, <2>1
        <3>2. inactive \subseteq Held(t)
            BY <1>6 DEF TickChecks
        <3>3. ASSUME NEW j \in Jobs
              PROVE  lane'[t][j] \in (IF j \in Held(t) THEN {"suppressed", "skipped", "ready"}
                                                       ELSE {"none"})
            BY <3>1, <3>2
        <3>4. QED BY <3>3 DEF Held
    <2>5. \A u \in Ticks \ {t} : lane'[u] = lane[u]
        BY <1>1, <2>1
    <2>6. \A u \in Ticks, i \in Jobs : lane'[u][i] # "none" =>
              /\ lane[u][i] # "none" /\ number'[u][i] = number[u][i]
              /\ lane'[u][i] = "begun" <=> lane[u][i] = "begun"
        <3>1. number' = number
            BY <2>1
        <3>2. ASSUME NEW i \in Jobs, lane'[t][i] # "none"
              PROVE  lane[t][i] # "none" /\ lane'[t][i] # "begun" /\ lane[t][i] # "begun"
            BY <2>3, <2>4, <3>2
        <3>3. QED BY <2>5, <3>1, <3>2
    <2>7. UntouchedBeforeCheck'
        BY <2>1, <2>5 DEF WInv, EInv, MemoryTyped, Goto, UntouchedBeforeCheck
    <2>8. QED BY <2>2, <2>6, <2>7, LanesGoOn
<1>7. CASE \E stale \in SUBSET Jobs : TickReaps(t, stale) \/ TickReconciles(t, stale)
    BY <1>2, <1>7
<1>8. CASE \E batch, inactive \in SUBSET Jobs : TickClaims(t, batch, inactive)
    BY <1>8, TickClaimsKeepsClaims
<1>9. CASE \E inactive \in SUBSET Jobs : TickChecks(t, inactive)
    BY <1>6, <1>9
<1>10. QED BY <1>3, <1>4, <1>5, <1>7, <1>8, <1>9 DEF TickStep

\* A lane that ends, and its row, leave every other claim alone.
LEMMA LaneDoneKeepsClaims ==
    ASSUME WInv, NEW t \in Ticks, NEW j \in Jobs, lane[t][j] # "none", pc[t] # "check",
           LaneDone(t, j), UNCHANGED pc \/ Goto(t, "failed"), Kept({j})
    PROVE  ClaimIsExclusive' /\ AcceptedIsSent' /\ UntouchedBeforeCheck'
<1>1. /\ lane \in [Ticks -> [Jobs -> LaneState]]
      /\ number \in [Ticks -> [Jobs -> 0 .. MaxAttempts]]
    BY DEF WInv, EInv, MemoryTyped
<1>2. \A u \in Ticks, i \in Jobs :
          IF u = t /\ i = j THEN lane'[u][i] = "none"
                            ELSE lane'[u][i] = lane[u][i] /\ number'[u][i] = number[u][i]
    BY <1>1 DEF LaneDone
<1>3. \A u \in Ticks \ {t} : lane[u][j] = "none"
    BY HeldIsClaimed DEF WInv
<1>4. ClaimIsExclusive' /\ AcceptedIsSent'
    BY <1>2, <1>3, LanesGoOn
<1>5. UntouchedBeforeCheck'
    BY <1>2 DEF WInv, EInv, MemoryTyped, Goto, UntouchedBeforeCheck
<1>6. QED BY <1>4, <1>5

LEMMA LaneKeepsClaims ==
    ASSUME WInv, NEW t \in Ticks, NEW j \in Jobs, LaneStep(t, j) \/ LaneRaises(t, j)
    PROVE  ClaimIsExclusive' /\ AcceptedIsSent' /\ UntouchedBeforeCheck'
<1>1. /\ TypeOK /\ NothingReported
      /\ lane \in [Ticks -> [Jobs -> LaneState]]
      /\ number \in [Ticks -> [Jobs -> 0 .. MaxAttempts]]
    BY DEF WInv, IInv, EInv, MemoryTyped
<1>2. ASSUME UNCHANGED vars PROVE Kept({j})
    BY <1>2 DEF Kept, RowSame, vars, jobVars
<1>3. CASE LaneDrops(t, j) \/ LaneDefers(t, j) \/ LaneFailsToCompose(t, j)
    <2>1. /\ lane[t][j] # "none" /\ pc[t] # "check" /\ LaneDone(t, j) /\ UNCHANGED pc
          /\ \E o \in {"pending", "suppressed", "skipped", "failed"} : Release(j, o)
        BY <1>3 DEF LaneDrops, LaneDefers, LaneFailsToCompose, Running
    <2>2. Kept({j})
        BY <1>1, <1>2, <2>1, JobFunctionKept DEF Release
    <2>3. QED BY <2>1, <2>2, LaneDoneKeepsClaims
<1>4. CASE LaneLeavesUnknown(t, j) \/ LaneRaises(t, j)
    <2>1. /\ lane[t][j] # "none" /\ pc[t] # "check" /\ LaneDone(t, j) /\ UNCHANGED vars
          /\ UNCHANGED pc \/ Goto(t, "failed")
        BY <1>4 DEF LaneLeavesUnknown, LaneRaises, Running
    <2>2. QED BY <1>2, <2>1, LaneDoneKeepsClaims
<1>5. CASE LaneStarts(t, j)
    <2>1. /\ UNCHANGED <<vars, pc, number>> /\ pc[t] # "check" /\ lane[t][j] = "ready"
          /\ lane' = [lane EXCEPT ![t][j] = "cleared"]
        BY <1>5 DEF LaneStarts, Running
    <2>2. Kept({})
        BY <2>1, NothingMovesKept DEF vars, jobVars
    <2>3. \A u \in Ticks, i \in Jobs :
              IF u = t /\ i = j THEN lane'[u][i] = "cleared" ELSE lane'[u][i] = lane[u][i]
        BY <1>1, <2>1
    <2>4. ClaimIsExclusive' /\ AcceptedIsSent'
        BY <2>1, <2>2, <2>3, LanesGoOn
    <2>5. UntouchedBeforeCheck'
        BY <2>1, <2>3 DEF WInv, UntouchedBeforeCheck
    <2>6. QED BY <2>4, <2>5
\* The attempt the lane begins has its own number, and the row is its own.
<1>6. CASE LaneBegins(t, j)
    <2>1. CASE LaneDone(t, j) /\ UNCHANGED vars /\ (UNCHANGED pc \/ Goto(t, "failed"))
        <3>1. lane[t][j] # "none" /\ pc[t] # "check"
            BY <1>6 DEF LaneBegins, Running
        <3>2. QED BY <1>2, <2>1, <3>1, LaneDoneKeepsClaims
    <2>2. CASE /\ BeginAttempt(j) /\ UNCHANGED pc
               /\ lane' = [lane EXCEPT ![t][j] = "begun"]
               /\ number' = [number EXCEPT ![t][j] = attempts[j]]
        <3>1. lane[t][j] = "cleared" /\ pc[t] # "check"
            BY <1>6 DEF LaneBegins, Running
        <3>2. Kept({j})
            BY <1>1, <2>2, JobFunctionKept
        <3>3. \A u \in Ticks, i \in Jobs :
                  IF u = t /\ i = j
                  THEN lane'[u][i] = "begun" /\ number'[u][i] = attempts[j]
                  ELSE lane'[u][i] = lane[u][i] /\ number'[u][i] = number[u][i]
            BY <1>1, <2>2
        <3>4. /\ status'[j] = "claimed" /\ attempts'[j] = attempts[j]
              /\ attempt'[j][attempts[j]] = "dispatched"
            BY <1>1, <2>2 DEF WInv, IInv, TypeOK, ClaimNumberIsFree, BeginAttempt, CanBegin, jobVars
        <3>5. ASSUME NEW u \in Ticks, NEW i \in Jobs, lane'[u][i] # "none"
              PROVE  /\ \A v \in Ticks \ {u} : lane'[v][i] = "none"
                     /\ IF lane'[u][i] = "begun"
                        THEN /\ status'[i] = "claimed" /\ number'[u][i] = attempts'[i]
                             /\ attempt'[i][attempts'[i]] = "dispatched"
                        ELSE Unattempted(i)'
            <4>1. lane[u][i] # "none"
                BY <3>1, <3>3, <3>5
            <4>2. status[i] = "claimed" /\ \A v \in Ticks \ {u} : lane[v][i] = "none"
                BY <4>1, HeldIsClaimed DEF WInv
            <4>3. \A v \in Ticks \ {u} : lane'[v][i] = "none"
                BY <3>1, <3>3, <4>2
            <4>4. CASE i = j
                <5>1. u = t
                    BY <3>1, <4>2, <4>4
                <5>2. QED BY <3>3, <3>4, <4>3, <4>4, <5>1
            <4>5. CASE i # j
                <5>1. RowSame(i)
                    BY <3>2, <4>2, <4>5 DEF Kept
                <5>2. IF lane[u][i] = "begun"
                      THEN /\ status[i] = "claimed" /\ number[u][i] = attempts[i]
                           /\ attempt[i][attempts[i]] = "dispatched"
                      ELSE Unattempted(i)
                    BY <4>1 DEF WInv, ClaimIsExclusive, Held
                <5>3. lane'[u][i] = lane[u][i] /\ number'[u][i] = number[u][i]
                    BY <3>3, <4>5
                <5>4. QED BY <4>3, <5>1, <5>2, <5>3 DEF RowSame, Unattempted, Blocking
            <4>6. QED BY <4>4, <4>5
        <3>6. ClaimIsExclusive'
            BY <3>5 DEF ClaimIsExclusive, Held
        <3>7. AcceptedIsSent'
            BY <3>2 DEF WInv, Kept, AcceptedIsSent
        <3>8. UntouchedBeforeCheck'
            BY <2>2, <3>1, <3>3 DEF WInv, UntouchedBeforeCheck
        <3>9. QED BY <3>6, <3>7, <3>8
    <2>3. QED BY <1>6, <2>1, <2>2 DEF LaneBegins
\* The job of a begun lane is still claimed, so its acceptance moves it to sent.
<1>7. CASE LaneRecordsAccepted(t, j)
    <2>1. /\ lane[t][j] = "begun" /\ pc[t] # "check" /\ LaneDone(t, j)
          /\ number[t][j] \in AttemptNos
        BY <1>7 DEF LaneRecordsAccepted, Running, WInv, EInv, LanesAreNumbered
    <2>2. status[j] = "claimed"
        BY <2>1 DEF WInv, ClaimIsExclusive, Held
    <2>3. CASE UNCHANGED vars /\ Goto(t, "failed")
        BY <1>2, <2>1, <2>3, LaneDoneKeepsClaims
    <2>4. CASE RecordAccepted(j, number[t][j]) /\ UNCHANGED pc
        <3>1. /\ status' = [i \in Jobs |-> IF i \in {j} THEN "sent" ELSE status[i]]
              /\ attempt' = [attempt EXCEPT ![j][number[t][j]] = "accepted"]
              /\ attempts' = attempts
            BY <2>2, <2>4 DEF RecordAccepted, Move
        <3>2. AcceptedIsSent'
            BY <1>1, <3>1 DEF WInv, TypeOK, AcceptedIsSent
        <3>3. \A i \in Jobs \ {j} : RowSame(i)
            BY <1>1, <3>1 DEF RowSame, TypeOK
        <3>4. \A u \in Ticks, i \in Jobs :
                  IF u = t /\ i = j THEN lane'[u][i] = "none"
                  ELSE lane'[u][i] = lane[u][i] /\ number'[u][i] = number[u][i]
            BY <1>1, <2>1 DEF LaneDone
        <3>5. \A u \in Ticks \ {t} : lane[u][j] = "none"
            BY <2>1, HeldIsClaimed DEF WInv
        <3>6. ASSUME NEW u \in Ticks, NEW i \in Jobs, lane'[u][i] # "none"
              PROVE  /\ \A v \in Ticks \ {u} : lane'[v][i] = "none"
                     /\ IF lane'[u][i] = "begun"
                        THEN /\ status'[i] = "claimed" /\ number'[u][i] = attempts'[i]
                             /\ attempt'[i][attempts'[i]] = "dispatched"
                        ELSE Unattempted(i)'
            <4>1. /\ i # j /\ lane'[u][i] = lane[u][i] /\ number'[u][i] = number[u][i]
                  /\ lane[u][i] # "none"
                BY <3>4, <3>5, <3>6
            <4>2. \A v \in Ticks \ {u} : lane'[v][i] = "none"
                BY <3>4, <4>1, HeldIsClaimed DEF WInv
            <4>3. IF lane[u][i] = "begun"
                  THEN /\ status[i] = "claimed" /\ number[u][i] = attempts[i]
                       /\ attempt[i][attempts[i]] = "dispatched"
                  ELSE Unattempted(i)
                BY <4>1 DEF WInv, ClaimIsExclusive, Held
            <4>4. RowSame(i)
                BY <3>3, <4>1
            <4>5. QED BY <4>1, <4>2, <4>3, <4>4 DEF RowSame, Unattempted, Blocking
        <3>7. ClaimIsExclusive'
            BY <3>6 DEF ClaimIsExclusive, Held
        <3>8. UntouchedBeforeCheck'
            BY <2>1, <2>4, <3>4 DEF WInv, UntouchedBeforeCheck
        <3>9. QED BY <3>2, <3>7, <3>8
    <2>5. QED BY <1>7, <2>3, <2>4 DEF LaneRecordsAccepted
<1>8. ASSUME NEW class \in {"transient", "permanent", "halt"}, LaneRecordsRejected(t, j, class)
      PROVE  ClaimIsExclusive' /\ AcceptedIsSent' /\ UntouchedBeforeCheck'
    <2>1. /\ lane[t][j] # "none" /\ pc[t] # "check" /\ LaneDone(t, j) /\ UNCHANGED pc
          /\ number[t][j] \in AttemptNos
        BY <1>8 DEF LaneRecordsRejected, Running, WInv, EInv, LanesAreNumbered
    <2>2. \/ UNCHANGED vars
          \/ RecordRejected(j, number[t][j], class \in {"transient", "halt"})
        BY <1>8 DEF LaneRecordsRejected
    <2>3. Kept({j})
        <3>1. (class \in {"transient", "halt"}) \in BOOLEAN
            OBVIOUS
        <3>2. QED BY <1>1, <1>2, <2>1, <2>2, <3>1, JobFunctionKept
    <2>4. QED BY <2>1, <2>3, LaneDoneKeepsClaims
<1>9. QED BY <1>3, <1>4, <1>5, <1>6, <1>7, <1>8 DEF LaneStep

\* WInv is inductive while no tick overruns.
LEMMA WindowStepInv ==
    ASSUME Overrun = FALSE
    PROVE  WInv /\ [EngineNext]_engineVars => WInv'
<1> SUFFICES ASSUME WInv, [EngineNext]_engineVars PROVE WInv'
    OBVIOUS
<1>1. IInv' /\ EInv' /\ NothingReported'
    BY EngineIsTableStep, EngineStepInv, StepInv, NothingReportedStep DEF WInv
<1>2. ClaimIsExclusive' /\ AcceptedIsSent' /\ UntouchedBeforeCheck'
    <2>1. ASSUME NEW t \in Ticks, TickCrashes(t)
          PROVE  ClaimIsExclusive' /\ AcceptedIsSent' /\ UntouchedBeforeCheck'
        BY <2>1, ForgetKeepsClaims DEF TickCrashes
    <2>2. ASSUME PersonActs \/ (\E j \in Jobs : ProviderStep(j)) \/ UNCHANGED engineVars
          PROVE  ClaimIsExclusive' /\ AcceptedIsSent' /\ UntouchedBeforeCheck'
        <3>1. Kept({}) /\ UNCHANGED tickVars
            BY <2>2, PersonStepKept, NothingMovesKept
               DEF WInv, IInv, PersonActs, ProviderStep, ProviderAnswers, engineVars, vars, jobVars
        <3>2. ClaimIsExclusive' /\ AcceptedIsSent'
            BY <3>1, LanesGoOn DEF tickVars
        <3>3. UntouchedBeforeCheck'
            BY <3>1 DEF WInv, UntouchedBeforeCheck, tickVars
        <3>4. QED BY <3>2, <3>3
    <2>3. QED BY <2>1, <2>2, TickKeepsClaims, LaneKeepsClaims DEF EngineNext
<1>3. QED BY <1>1, <1>2 DEF WInv

LEMMA WindowInitInv == EngineInit => WInv
<1> SUFFICES ASSUME EngineInit PROVE WInv
    OBVIOUS
<1>1. IInv /\ EInv /\ NothingReported
    BY EngineInitInv, InitInv DEF Init, NothingReported
<1>2. ClaimIsExclusive /\ UntouchedBeforeCheck /\ AcceptedIsSent
    BY DEF EngineInit, Init, NoLanes, ClaimIsExclusive, Held, UntouchedBeforeCheck, AcceptedIsSent
<1>3. QED BY <1>1, <1>2 DEF WInv

\* While no tick outlives the maintenance windows, a claim belongs to one tick: no
\* other tick, reaper, person or suppression takes the job away before the lane is
\* done with it, for any number of overlapping and dying ticks.
THEOREM ClaimsAreExclusive ==
    ASSUME Overrun = FALSE
    PROVE  EngineSpec => []ClaimIsExclusive
<1>1. WInv => ClaimIsExclusive BY DEF WInv
<1>2. QED BY <1>1, WindowInitInv, WindowStepInv, PTL DEF EngineSpec

\* ADR-0001 4.1 (3): a claim that a dead tick left is always the reaper's or the
\* reconciler's to resolve.
THEOREM ClaimsAreRecoverable ==
    ASSUME Overrun = FALSE
    PROVE  EngineSpec => []ClaimIsRecoverable
<1>1. WInv => ClaimIsRecoverable
    <2> SUFFICES ASSUME WInv, NEW j \in Jobs, status[j] = "claimed",
                        \A n \in AttemptNos : attempt[j][n] # "dispatched"
                 PROVE  Unattempted(j)
        BY DEF ClaimIsRecoverable
    <2>1. \A n \in AttemptNos : attempt[j][n] # "accepted"
        BY DEF WInv, AcceptedIsSent
    <2>2. \A n \in AttemptNos : attempt[j][n] # "none" => n # attempts[j]
        BY DEF WInv, IInv, ClaimNumberIsFree
    <2>3. QED BY <2>1, <2>2 DEF Unattempted, Blocking
<1>2. QED BY <1>1, WindowInitInv, WindowStepInv, PTL DEF EngineSpec
=============================================================================
