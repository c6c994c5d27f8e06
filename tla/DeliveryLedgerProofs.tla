------------------------ MODULE DeliveryLedgerProofs ------------------------
(***************************************************************************)
(* The delivery tables keep their promise for every number of jobs,        *)
(* campaigns, addresses and attempts, under either policy, whatever order  *)
(* the functions are called in.  IInv is inductive: one lemma per function *)
(* shows that it keeps IInv, and the theorems read the properties off it.  *)
(***************************************************************************)
EXTENDS DeliveryLedger, FiniteSetTheorems, TLAPS

\* Counting a set of job rows keeps every counter a natural number.
LEMMA CountTyped ==
    ASSUME TypeOK, NEW k \in Counters, NEW S \in SUBSET Jobs, Count(k, S)
    PROVE  tally' \in [Campaigns -> [Counters -> Nat]]
<1>1. \A c \in Campaigns : Cardinality(S \cap JobsOf(c)) \in Nat
    <2>1. TAKE c \in Campaigns
    <2>2. IsFiniteSet(S \cap JobsOf(c))
        BY FS_Subset, JobsFinite DEF JobsOf
    <2>3. QED BY <2>2, FS_CardinalityType
<1>2. ASSUME NEW c \in Campaigns
      PROVE  [tally[c] EXCEPT ![k] = @ + Cardinality(S \cap JobsOf(c))]
                 \in [Counters -> Nat]
    <2>1. tally[c] \in [Counters -> Nat]
        BY DEF TypeOK
    <2>2. tally[c][k] + Cardinality(S \cap JobsOf(c)) \in Nat
        BY <1>1, <2>1
    <2>3. QED BY <2>1, <2>2
<1>3. QED BY <1>2 DEF Count

\* The tables start empty.
LEMMA InitInv == Init => IInv
<1> SUFFICES ASSUME Init PROVE IInv
    OBVIOUS
<1> USE AttemptCap DEF Init, AttemptNos
<1>1. TypeOK
    BY DEF TypeOK, JobStatus, AttemptState, CampaignStatus
<1>2. ClaimNumberIsFree /\ AttemptsInRange /\ OpenAttemptIsOwned /\ DoubtIsOpen
    BY DEF ClaimNumberIsFree, AttemptsInRange, OpenAttemptIsOwned, DoubtIsOpen
<1>3. MessageIdIsKept /\ FinishedIsSettled
    BY DEF MessageIdIsKept, SentStatus, FinishedIsSettled
<1>4. InDoubtIsLatest /\ RecordsAreTrue
    BY DEF InDoubtIsLatest, RecordsAreTrue
<1>5. QED BY <1>1, <1>2, <1>3, <1>4 DEF IInv

\* Materialisation touches absent rows only, and its campaign is not finished.
LEMMA MaterializeStep ==
    ASSUME IInv, NEW c \in Campaigns, NEW members \in SUBSET Jobs, MaterializeCampaign(c, members)
    PROVE  IInv'
<1> USE AttemptCap DEF IInv, AttemptNos, TypeOK, MaterializeCampaign, Move
<1>1. TypeOK'
    <2> DEFINE created == {j \in members \cap JobsIn(c, {"absent"}) : ~Suppressed(j)}
    <2>1. Cardinality(created \cup (JobsOf(c) \ JobsIn(c, {"absent"}))) \in Nat
        <3>1. created \cup (JobsOf(c) \ JobsIn(c, {"absent"})) \in SUBSET Jobs
            BY DEF JobsOf, JobsIn
        <3>2. QED BY <3>1, JobsFinite, FS_Subset, FS_CardinalityType
    <2>2. tally' \in [Campaigns -> [Counters -> Nat]]
        BY <2>1 DEF Counters
    <2>3. QED BY <2>2 DEF JobStatus, CampaignStatus
<1>2. ClaimNumberIsFree' BY DEF ClaimNumberIsFree, AttemptState, JobsIn, JobsOf, AttemptsInRange
<1>3. OpenAttemptIsOwned' BY DEF OpenAttemptIsOwned, SentStatus, JobsIn, JobsOf
<1>4. MessageIdIsKept' BY DEF MessageIdIsKept, SentStatus, JobsIn, JobsOf
<1>5. FinishedIsSettled' BY RowsTyped DEF FinishedIsSettled, JobsIn, JobsOf, OpenStatus
<1>6. InDoubtIsLatest' BY DEF InDoubtIsLatest, JobsIn, JobsOf, ClaimNumberIsFree, AttemptsInRange
<1>7. RecordsAreTrue' BY DEF RecordsAreTrue
<1>8. AttemptsInRange' BY DEF AttemptsInRange, JobsIn, JobsOf
<1>9. DoubtIsOpen' BY DEF DoubtIsOpen, ClaimNumberIsFree, AttemptsInRange, JobsIn, JobsOf
<1>10. QED BY <1>1, <1>2, <1>3, <1>4, <1>5, <1>6, <1>7, <1>8, <1>9

\* A claim takes the next number, which no attempt has used.
LEMMA ClaimStepInv ==
    ASSUME IInv, NEW c \in Campaigns, NEW batch \in SUBSET Jobs,
           NEW inactive \in SUBSET Jobs, ClaimJobs(c, batch, inactive)
    PROVE  IInv'
<1> USE AttemptCap DEF IInv, AttemptNos, TypeOK, ClaimJobs, Listed
<1>1. TypeOK'
    <2>1. tally' \in [Campaigns -> [Counters -> Nat]]
        BY CountTyped DEF Counters
    <2>2. \A j \in batch : attempts[j] < MaxAttempts
        BY DEF ClaimNumberIsFree, JobsIn, JobsOf
    <2>3. QED BY <2>1, <2>2 DEF JobStatus
<1>2. ClaimNumberIsFree' BY DEF ClaimNumberIsFree, AttemptState, JobsIn, JobsOf
<1>3. OpenAttemptIsOwned' BY DEF OpenAttemptIsOwned, SentStatus, JobsIn, JobsOf
<1>4. MessageIdIsKept' BY DEF MessageIdIsKept, SentStatus, JobsIn, JobsOf
<1>5. FinishedIsSettled' BY RowsTyped DEF FinishedIsSettled, JobsIn, JobsOf, OpenStatus
<1>6. InDoubtIsLatest' BY DEF InDoubtIsLatest, JobsIn, JobsOf
<1>7. RecordsAreTrue' BY DEF RecordsAreTrue
<1>8. AttemptsInRange' BY DEF AttemptsInRange, JobsIn, JobsOf
<1>9. DoubtIsOpen' BY DEF DoubtIsOpen, ClaimNumberIsFree, AttemptsInRange, JobsIn, JobsOf
<1>10. QED BY <1>1, <1>2, <1>3, <1>4, <1>5, <1>6, <1>7, <1>8, <1>9

\* Release gives back a number no attempt carries.
LEMMA ReleaseStep ==
    ASSUME IInv, NEW j \in Jobs,
           NEW outcome \in {"pending", "suppressed", "skipped", "failed"}, ReleaseJob(j, outcome)
    PROVE  IInv'
<1> USE AttemptCap DEF IInv, AttemptNos, TypeOK, ReleaseJob, Move
<1>1. TypeOK'
    <2>1. tally' \in [Campaigns -> [Counters -> Nat]]
        BY CountTyped DEF Counters
    <2>2. QED BY <2>1 DEF JobStatus, Unattempted, ClaimNumberIsFree
<1>2. ClaimNumberIsFree' BY DEF ClaimNumberIsFree, AttemptState, Unattempted
<1>3. OpenAttemptIsOwned' BY DEF OpenAttemptIsOwned, SentStatus, Unattempted, Blocking
<1>4. MessageIdIsKept' BY DEF MessageIdIsKept, SentStatus, Unattempted
<1>5. FinishedIsSettled' BY RowsTyped DEF FinishedIsSettled, JobsIn, JobsOf, OpenStatus, Unattempted
<1>6. InDoubtIsLatest' BY DEF InDoubtIsLatest, Unattempted
<1>7. RecordsAreTrue' BY DEF RecordsAreTrue
<1>8. AttemptsInRange' BY DEF AttemptsInRange, Unattempted
<1>9. DoubtIsOpen' BY DEF DoubtIsOpen, ClaimNumberIsFree, AttemptsInRange, Unattempted, Blocking
<1>10. QED BY <1>1, <1>2, <1>3, <1>4, <1>5, <1>6, <1>7, <1>8, <1>9

\* The number of an attempt is its job's claim number.
LEMMA BeginStep ==
    ASSUME IInv, NEW j \in Jobs, BeginAttempt(j)
    PROVE  IInv'
<1> USE AttemptCap DEF IInv, AttemptNos, TypeOK, BeginAttempt, CanBegin, jobVars, campaignVars
<1>1. TypeOK'
    BY DEF AttemptState, ClaimNumberIsFree
<1>2. ClaimNumberIsFree' BY DEF ClaimNumberIsFree, AttemptState
<1>3. OpenAttemptIsOwned' BY DEF OpenAttemptIsOwned, SentStatus, ClaimNumberIsFree
<1>4. MessageIdIsKept' BY DEF MessageIdIsKept, SentStatus, ClaimNumberIsFree
<1>5. FinishedIsSettled' BY RowsTyped DEF FinishedIsSettled, JobsIn, JobsOf, OpenStatus
<1>6. InDoubtIsLatest' BY DEF InDoubtIsLatest, ClaimNumberIsFree
<1>7. RecordsAreTrue' BY DEF RecordsAreTrue, ClaimNumberIsFree
<1>8. AttemptsInRange' BY DEF AttemptsInRange
<1>9. DoubtIsOpen' BY DEF DoubtIsOpen, ClaimNumberIsFree, AttemptsInRange, Blocking
<1>10. QED BY <1>1, <1>2, <1>3, <1>4, <1>5, <1>6, <1>7, <1>8, <1>9

\* A recorded acceptance moves the job, or finds it already decided.
LEMMA AcceptedStep ==
    ASSUME IInv, NEW j \in Jobs, NEW n \in AttemptNos, RecordAccepted(j, n)
    PROVE  IInv'
<1> USE AttemptCap DEF IInv, AttemptNos, TypeOK, RecordAccepted, Move
<1>1. TypeOK'
    <2>1. tally' \in [Campaigns -> [Counters -> Nat]]
        BY CountTyped DEF Counters
    <2>2. QED BY <2>1 DEF JobStatus, AttemptState
<1>2. ClaimNumberIsFree' BY DEF ClaimNumberIsFree, AttemptState
<1>3. OpenAttemptIsOwned' BY DEF OpenAttemptIsOwned, SentStatus
<1>4. MessageIdIsKept' BY DEF MessageIdIsKept, SentStatus
<1>5. FinishedIsSettled' BY RowsTyped DEF FinishedIsSettled, JobsIn, JobsOf, OpenStatus
<1>6. InDoubtIsLatest' BY DEF InDoubtIsLatest
<1>7. RecordsAreTrue' BY DEF RecordsAreTrue
<1>8. AttemptsInRange' BY DEF AttemptsInRange
<1>9. DoubtIsOpen' BY DEF DoubtIsOpen, ClaimNumberIsFree, AttemptsInRange
<1>10. QED BY <1>1, <1>2, <1>3, <1>4, <1>5, <1>6, <1>7, <1>8, <1>9

\* Only a known refusal returns an attempted job to the queue.
LEMMA RejectedStep ==
    ASSUME IInv, NEW j \in Jobs, NEW n \in AttemptNos, NEW retry \in BOOLEAN,
           answer[j][n] = "refused", RecordRejected(j, n, retry)
    PROVE  IInv'
<1> USE AttemptCap DEF IInv, AttemptNos, TypeOK, RecordRejected, MayRetry, Move
<1>1. TypeOK'
    <2>1. tally' \in [Campaigns -> [Counters -> Nat]]
        BY CountTyped DEF Counters
    <2>2. QED BY <2>1 DEF JobStatus, AttemptState
<1>2. ClaimNumberIsFree' BY DEF ClaimNumberIsFree, AttemptState
<1>3. OpenAttemptIsOwned' BY DEF OpenAttemptIsOwned, SentStatus
<1>4. MessageIdIsKept' BY DEF MessageIdIsKept, SentStatus
<1>5. FinishedIsSettled' BY RowsTyped DEF FinishedIsSettled, JobsIn, JobsOf, OpenStatus
<1>6. InDoubtIsLatest' BY DEF InDoubtIsLatest, OpenAttemptIsOwned
<1>7. RecordsAreTrue' BY DEF RecordsAreTrue
<1>8. AttemptsInRange' BY DEF AttemptsInRange
<1>9. DoubtIsOpen' BY DEF DoubtIsOpen, ClaimNumberIsFree, AttemptsInRange, OpenAttemptIsOwned
<1>10. QED BY <1>1, <1>2, <1>3, <1>4, <1>5, <1>6, <1>7, <1>8, <1>9

\* Reaping returns only claims no attempt was made for.
LEMMA ReapStep ==
    ASSUME IInv, NEW stale \in SUBSET Jobs, ReapClaimed(stale)
    PROVE  IInv'
<1> USE AttemptCap DEF IInv, AttemptNos, TypeOK, ReapClaimed, Move, campaignVars
<1>1. TypeOK'
    BY DEF Unattempted, ClaimNumberIsFree, JobStatus
<1>2. ClaimNumberIsFree' BY DEF ClaimNumberIsFree, AttemptState, Unattempted
<1>3. OpenAttemptIsOwned' BY DEF OpenAttemptIsOwned, SentStatus, Unattempted, Blocking
<1>4. MessageIdIsKept' BY DEF MessageIdIsKept, SentStatus, Unattempted
<1>5. FinishedIsSettled' BY RowsTyped DEF FinishedIsSettled, JobsIn, JobsOf, OpenStatus, Unattempted
<1>6. InDoubtIsLatest' BY DEF InDoubtIsLatest, Unattempted
<1>7. RecordsAreTrue' BY DEF RecordsAreTrue
<1>8. AttemptsInRange' BY DEF AttemptsInRange, Unattempted
<1>9. DoubtIsOpen' BY DEF DoubtIsOpen, ClaimNumberIsFree, AttemptsInRange, Unattempted, Blocking
<1>10. QED BY <1>1, <1>2, <1>3, <1>4, <1>5, <1>6, <1>7, <1>8, <1>9

\* Reconciliation gives up the open attempt of a job; a redispatch writes it off.
LEMMA ReconcileStep ==
    ASSUME IInv, NEW stale \in SUBSET Jobs, ReconcileAttempts(stale)
    PROVE  IInv'
<1> USE AttemptCap
    DEF IInv, AttemptNos, TypeOK, ReconcileAttempts, Redispatched, MayRetry, WithoutAnswer,
        campaignVars
<1>1. TypeOK'
    BY DEF JobStatus, AttemptState, AttemptsInRange
<1>2. ClaimNumberIsFree' BY DEF ClaimNumberIsFree, AttemptState, OpenAttemptIsOwned
<1>3. OpenAttemptIsOwned' BY DEF OpenAttemptIsOwned, SentStatus, AttemptsInRange
<1>4. MessageIdIsKept' BY DEF MessageIdIsKept, SentStatus
<1>5. FinishedIsSettled' BY RowsTyped DEF FinishedIsSettled, JobsIn, JobsOf, OpenStatus
<1>6. InDoubtIsLatest' BY DEF InDoubtIsLatest, OpenAttemptIsOwned
<1>7. RecordsAreTrue' BY DEF RecordsAreTrue
<1>8. AttemptsInRange' BY DEF AttemptsInRange, ClaimNumberIsFree
<1>9. DoubtIsOpen' BY DEF DoubtIsOpen, ClaimNumberIsFree, AttemptsInRange, OpenAttemptIsOwned
<1>10. QED BY <1>1, <1>2, <1>3, <1>4, <1>5, <1>6, <1>7, <1>8, <1>9

\* Cancelling closes jobs and reopens none.
LEMMA CancelStep ==
    ASSUME IInv, NEW c \in Campaigns, CancelCampaign(c)
    PROVE  IInv'
<1> USE AttemptCap DEF IInv, AttemptNos, TypeOK, CancelCampaign, Move
<1>1. TypeOK'
    BY DEF JobStatus, CampaignStatus, JobsIn, JobsOf
<1>2. ClaimNumberIsFree' BY DEF ClaimNumberIsFree, AttemptState, JobsIn, JobsOf
<1>3. OpenAttemptIsOwned' BY DEF OpenAttemptIsOwned, SentStatus, JobsIn, JobsOf
<1>4. MessageIdIsKept' BY DEF MessageIdIsKept, SentStatus, JobsIn, JobsOf
<1>5. FinishedIsSettled' BY RowsTyped DEF FinishedIsSettled, JobsIn, JobsOf, OpenStatus
<1>6. InDoubtIsLatest' BY DEF InDoubtIsLatest, JobsIn, JobsOf
<1>7. RecordsAreTrue' BY DEF RecordsAreTrue
<1>8. AttemptsInRange' BY DEF AttemptsInRange, JobsIn, JobsOf
<1>9. DoubtIsOpen' BY DEF DoubtIsOpen, ClaimNumberIsFree, AttemptsInRange, JobsIn, JobsOf
<1>10. QED BY <1>1, <1>2, <1>3, <1>4, <1>5, <1>6, <1>7, <1>8, <1>9

\* A decision to send again writes off the attempt in doubt.
LEMMA ResolveStep ==
    ASSUME IInv, NEW j \in Jobs, NEW d \in {"redispatch", "leave"}, ResolveUncertain(j, d)
    PROVE  IInv'
<1> USE AttemptCap DEF IInv, AttemptNos
<1>1. /\ attempts[j] \in AttemptNos
      /\ status[j] = "send_uncertain"
      /\ status' \in [Jobs -> JobStatus]
      /\ resent' \in [Jobs -> SUBSET AttemptNos]
      /\ \A i \in Jobs : i # j => status'[i] = status[i] /\ resent'[i] = resent[i]
      /\ \/ /\ status'[j] = "pending"
            /\ attempts[j] < MaxAttempts
            /\ resent'[j] = resent[j] \cup {attempts[j]}
         \/ /\ status'[j] = "failed"
            /\ resent'[j] = resent[j]
    <2>1. CASE d = "redispatch"
        <3>1. status[j] = "send_uncertain" /\ attempts[j] < MaxAttempts
            BY <2>1 DEF ResolveUncertain, MayRetry
        <3>2. status' = [i \in Jobs |-> IF i \in {j} THEN "pending" ELSE status[i]]
            BY <2>1 DEF ResolveUncertain, MayRetry, Move
        <3>3. resent' = [resent EXCEPT ![j] = @ \cup {attempts[j]}]
            BY <2>1 DEF ResolveUncertain
        <3>4. attempts[j] \in AttemptNos
            BY <3>1 DEF AttemptsInRange
        <3>5. status' \in [Jobs -> JobStatus] /\ resent' \in [Jobs -> SUBSET AttemptNos]
            BY <3>2, <3>3, <3>4 DEF TypeOK, JobStatus
        <3>6. resent \in [Jobs -> SUBSET AttemptNos]
            BY DEF TypeOK
        <3>7. QED BY <3>1, <3>2, <3>3, <3>4, <3>5, <3>6
    <2>2. CASE d = "leave"
        BY <2>2 DEF ResolveUncertain, AttemptsInRange, Move, TypeOK, JobStatus
    <2>3. QED BY <2>1, <2>2
<1>2. UNCHANGED <<attempts, messageOf, attempt, campaign, suppression, answer>>
    BY DEF ResolveUncertain
<1>3. TypeOK'
    <2>1. UNCHANGED tally \/ Count("failed", {j})
        BY DEF ResolveUncertain
    <2>2. tally' \in [Campaigns -> [Counters -> Nat]]
        BY <2>1, CountTyped DEF Counters, TypeOK
    <2>3. QED BY <1>1, <1>2, <2>2 DEF TypeOK
<1>4. ClaimNumberIsFree' BY <1>1, <1>2 DEF ClaimNumberIsFree
<1>5. OpenAttemptIsOwned' BY <1>1, <1>2 DEF OpenAttemptIsOwned, SentStatus
<1>6. MessageIdIsKept' BY <1>1, <1>2 DEF MessageIdIsKept, SentStatus
<1>7. FinishedIsSettled'
    BY <1>1, <1>2 DEF FinishedIsSettled, JobsIn, JobsOf, OpenStatus
<1>8. InDoubtIsLatest' BY <1>1, <1>2 DEF InDoubtIsLatest
<1>9. RecordsAreTrue' BY <1>2 DEF RecordsAreTrue
<1>10. AttemptsInRange' BY <1>1, <1>2 DEF AttemptsInRange
<1>11. DoubtIsOpen' BY <1>1, <1>2 DEF DoubtIsOpen
<1>12. QED BY <1>3, <1>4, <1>5, <1>6, <1>7, <1>8, <1>9, <1>10, <1>11

\* Suppression closes pending jobs.
LEMMA SuppressStep ==
    ASSUME IInv, NEW a \in Addresses, NEW kind \in {"reversible", "irreversible"}, Suppress(a, kind)
    PROVE  IInv'
<1> USE AttemptCap DEF IInv, AttemptNos, TypeOK, Suppress, InsertSuppression, PendingAt, Move
<1>1. TypeOK'
    <2>1. tally' \in [Campaigns -> [Counters -> Nat]]
        BY CountTyped DEF Counters
    <2>2. QED BY <2>1 DEF JobStatus
<1>2. ClaimNumberIsFree' BY DEF ClaimNumberIsFree, AttemptState
<1>3. OpenAttemptIsOwned' BY DEF OpenAttemptIsOwned, SentStatus
<1>4. MessageIdIsKept' BY DEF MessageIdIsKept, SentStatus
<1>5. FinishedIsSettled' BY RowsTyped DEF FinishedIsSettled, JobsIn, JobsOf, OpenStatus
<1>6. InDoubtIsLatest' BY DEF InDoubtIsLatest
<1>7. RecordsAreTrue' BY DEF RecordsAreTrue
<1>8. AttemptsInRange' BY DEF AttemptsInRange
<1>9. DoubtIsOpen' BY DEF DoubtIsOpen, ClaimNumberIsFree, AttemptsInRange
<1>10. QED BY <1>1, <1>2, <1>3, <1>4, <1>5, <1>6, <1>7, <1>8, <1>9

\* So does an unsubscribe.
LEMMA UnsubscribeStep ==
    ASSUME IInv, NEW j \in Jobs, RecordUnsubscribe(j)
    PROVE  IInv'
<1> USE AttemptCap DEF IInv, AttemptNos, TypeOK, RecordUnsubscribe, InsertSuppression, PendingAt, Move
<1>1. TypeOK'
    <2> DEFINE closed(c) == Cardinality(PendingAt(AddressOf[j]) \cap JobsOf(c))
    <2>1. \A c \in Campaigns : closed(c) \in Nat
        <3>1. TAKE c \in Campaigns
        <3>2. PendingAt(AddressOf[j]) \cap JobsOf(c) \in SUBSET Jobs
            BY DEF PendingAt
        <3>3. QED BY <3>2, JobsFinite, FS_Subset, FS_CardinalityType
    <2> DEFINE more(c, k) == CASE k = "suppressed" -> closed(c)
                               [] k = "unsubscribed" /\ c = CampaignOf[j] -> 1
                               [] OTHER -> 0
    <2>2. tally' = [c \in Campaigns |-> [k \in Counters |-> tally[c][k] + more(c, k)]]
        OBVIOUS
    <2>3. tally' \in [Campaigns -> [Counters -> Nat]]
        <3>1. \A c \in Campaigns, k \in Counters : tally[c][k] + more(c, k) \in Nat
            <4>1. \A c \in Campaigns, k \in Counters : tally[c][k] \in Nat
                OBVIOUS
            <4> HIDE DEF closed, IInv, TypeOK, RecordUnsubscribe
            <4>2. \A c \in Campaigns, k \in Counters : more(c, k) \in Nat
                BY <2>1
            <4> HIDE DEF more
            <4>3. QED BY <4>1, <4>2
        <3> HIDE DEF more, IInv, TypeOK, RecordUnsubscribe
        <3>2. QED BY <2>2, <3>1
    <2>4. status' \in [Jobs -> JobStatus]
        BY DEF JobStatus
    <2>5. suppression' \in [Addresses -> {"none", "reversible", "irreversible"}]
        BY RowsTyped
    <2>6. UNCHANGED <<attempts, messageOf, attempt, campaign, answer, resent>>
        OBVIOUS
    <2> HIDE DEF RecordUnsubscribe, InsertSuppression, PendingAt, Move
    <2>7. QED BY <2>3, <2>4, <2>5, <2>6
<1>2. ClaimNumberIsFree' BY DEF ClaimNumberIsFree, AttemptState
<1>3. OpenAttemptIsOwned' BY DEF OpenAttemptIsOwned, SentStatus
<1>4. MessageIdIsKept' BY DEF MessageIdIsKept, SentStatus
<1>5. FinishedIsSettled' BY RowsTyped DEF FinishedIsSettled, JobsIn, JobsOf, OpenStatus
<1>6. InDoubtIsLatest' BY DEF InDoubtIsLatest
<1>7. RecordsAreTrue' BY DEF RecordsAreTrue
<1>8. AttemptsInRange' BY DEF AttemptsInRange
<1>9. DoubtIsOpen' BY DEF DoubtIsOpen, ClaimNumberIsFree, AttemptsInRange
<1>10. QED BY <1>1, <1>2, <1>3, <1>4, <1>5, <1>6, <1>7, <1>8, <1>9

\* The provider answers an attempt once, and only one in doubt.
LEMMA AnswerStep ==
    ASSUME IInv, NEW j \in Jobs, NEW n \in AttemptNos,
           NEW a \in {"accepted", "refused"}, ProviderAnswers(j, n, a)
    PROVE  IInv'
<1> USE AttemptCap DEF IInv, AttemptNos, TypeOK, ProviderAnswers, jobVars, campaignVars
<1>1. TypeOK'
    OBVIOUS
<1>2. ClaimNumberIsFree' BY DEF ClaimNumberIsFree, AttemptState
<1>3. OpenAttemptIsOwned' BY DEF OpenAttemptIsOwned, SentStatus
<1>4. MessageIdIsKept' BY DEF MessageIdIsKept, SentStatus
<1>5. FinishedIsSettled' BY RowsTyped DEF FinishedIsSettled, JobsIn, JobsOf, OpenStatus
<1>6. InDoubtIsLatest' BY DEF InDoubtIsLatest
<1>7. RecordsAreTrue' BY DEF RecordsAreTrue
<1>8. AttemptsInRange' BY DEF AttemptsInRange
<1>9. DoubtIsOpen' BY DEF DoubtIsOpen, ClaimNumberIsFree, AttemptsInRange
<1>10. QED BY <1>1, <1>2, <1>3, <1>4, <1>5, <1>6, <1>7, <1>8, <1>9


\* Statements about campaigns or the suppression list alone leave the rows as
\* they are; all they could break is a finished campaign.
LEMMA RowsUnchanged ==
    ASSUME IInv, UNCHANGED <<jobVars, attempt, answer, resent>>,
           TypeOK', FinishedIsSettled'
    PROVE  IInv'
<1> USE DEF IInv, jobVars
<1>1. ClaimNumberIsFree' /\ AttemptsInRange' /\ OpenAttemptIsOwned' /\ DoubtIsOpen'
    BY DEF ClaimNumberIsFree, AttemptsInRange, OpenAttemptIsOwned, DoubtIsOpen
<1>2. MessageIdIsKept'
    BY DEF MessageIdIsKept, SentStatus
<1>3. InDoubtIsLatest' /\ RecordsAreTrue'
    BY DEF InDoubtIsLatest, RecordsAreTrue
<1>4. QED BY <1>1, <1>2, <1>3

\* Finishing checks for open jobs; nothing leaves the finished states.
LEMMA FinishStep ==
    ASSUME IInv, NEW c \in Campaigns, FinishCampaign(c)
    PROVE  IInv'
<1> USE DEF FinishCampaign, Finishable, IInv, jobVars
<1>1. TypeOK' BY DEF TypeOK, CampaignStatus
<1>2. FinishedIsSettled' BY DEF FinishedIsSettled, JobsIn, JobsOf, TypeOK
<1>3. QED BY <1>1, <1>2, RowsUnchanged

\* Pausing and resuming move no job, and neither leaves a finished campaign.
LEMMA PauseResumeStep ==
    ASSUME IInv,
           \/ PauseWorkspace
           \/ \E c \in Campaigns : PauseCampaign(c) \/ ResumeSending(c)
           \/ \E a \in Addresses : Unsuppress(a)
    PROVE  IInv'
<1> USE DEF IInv, jobVars, campaignVars, PauseWorkspace, PauseCampaign, ResumeSending,
            Unsuppress
<1>1. TypeOK' BY DEF TypeOK, CampaignStatus
<1>2. FinishedIsSettled' BY DEF FinishedIsSettled, JobsIn, JobsOf, TypeOK
<1>3. UNCHANGED <<jobVars, attempt, answer, resent>>
    OBVIOUS
<1>4. QED BY <1>1, <1>2, <1>3, RowsUnchanged

\* IInv is inductive.
LEMMA StepInv == IInv /\ [Next]_vars => IInv'
<1> SUFFICES ASSUME IInv, [Next]_vars PROVE IInv'
    OBVIOUS
<1>1. CASE MaintenanceStep
    BY <1>1, ReapStep, ReconcileStep, MaterializeStep, FinishStep DEF MaintenanceStep
<1>2. CASE ClaimStep
    BY <1>2, ClaimStepInv DEF ClaimStep
<1>3. ASSUME NEW j \in Jobs, JobStep(j) PROVE IInv'
    BY <1>3, ReleaseStep, BeginStep, AnswerStep, AcceptedStep, RejectedStep DEF JobStep
<1>4. CASE PauseWorkspace
    BY <1>4, PauseResumeStep
<1>5. CASE PersonStep \/ RecipientStep
    BY <1>5, ResolveStep, CancelStep, SuppressStep, UnsubscribeStep, PauseResumeStep
    DEF PersonStep, RecipientStep
<1>6. CASE UNCHANGED vars
    <2>1. TypeOK' /\ FinishedIsSettled'
        BY <1>6 DEF vars, jobVars, campaignVars, IInv, TypeOK, FinishedIsSettled,
                    JobsIn, JobsOf
    <2>2. QED BY <1>6, <2>1, RowsUnchanged DEF vars, jobVars
<1>7. QED BY <1>1, <1>2, <1>3, <1>4, <1>5, <1>6 DEF Next

-----------------------------------------------------------------------------

\* Every reachable state of the tables satisfies the inductive invariant.
THEOREM InvariantHolds == Spec => []IInv
<1>1. QED BY InitInv, StepInv, PTL DEF Spec

\* The types of the columns hold in every reachable state.
THEOREM TypeCorrect == Spec => []TypeOK
<1>1. IInv => TypeOK BY DEF IInv
<1>2. QED BY <1>1, InvariantHolds, PTL

\* ADR-0001 4.1: the provider accepts at most one call per job, beyond those a
\* recorded decision to send again wrote off.
LEMMA OneSend == IInv => AtMostOneSend
<1> SUFFICES ASSUME IInv, NEW j \in Jobs,
                    NEW m \in AttemptNos \ resent[j], NEW n \in AttemptNos \ resent[j],
                    answer[j][m] = "accepted", answer[j][n] = "accepted"
             PROVE  m = n
    BY DEF AtMostOneSend
<1>1. \A k \in AttemptNos \ resent[j] :
          answer[j][k] = "accepted" => k = attempts[j]
    BY DEF IInv, RecordsAreTrue, InDoubtIsLatest, TypeOK, AttemptState
<1>2. QED BY <1>1

THEOREM SendsAtMostOnce == Spec => []AtMostOneSend
<1>1. QED BY OneSend, InvariantHolds, PTL

\* G4: only a known refusal, or a recorded decision, puts an attempted job back in
\* the queue.
THEOREM RetriesOnlyAfterRefusal == Spec => []RetryOnlyAfterRefusal
<1>1. IInv => RetryOnlyAfterRefusal
    BY DEF IInv, InDoubtIsLatest, RetryOnlyAfterRefusal, TypeOK, AttemptState
<1>2. QED BY <1>1, InvariantHolds, PTL

-----------------------------------------------------------------------------
(* Before any notification *)

\* These functions alone take a job no further than `sent`, and never fail one that
\* has a message id.
NothingReported ==
    \A j \in Jobs :
        /\ status[j] \notin {"delivered", "bounced", "complained"}
        /\ messageOf[j] # 0 => status[j] = "sent"
        /\ \A n \in AttemptNos : attempt[j][n] = "dispatched" => status[j] \in {"claimed", "sent"}

LEMMA NothingReportedStep == IInv /\ NothingReported /\ [Next]_vars => NothingReported'
<1> SUFFICES ASSUME IInv, NothingReported, [Next]_vars PROVE NothingReported'
    OBVIOUS
<1> USE DEF IInv, TypeOK, NothingReported
<1>1. ASSUME NEW stale \in SUBSET Jobs, ReapClaimed(stale) PROVE NothingReported'
    BY <1>1 DEF ReapClaimed, Unattempted, Blocking, Move
<1>2. ASSUME NEW stale \in SUBSET Jobs, ReconcileAttempts(stale) PROVE NothingReported'
    BY <1>2 DEF ReconcileAttempts, Redispatched, WithoutAnswer, OpenAttemptIsOwned
<1>3. ASSUME NEW c \in Campaigns, NEW members \in SUBSET Jobs, MaterializeCampaign(c, members)
      PROVE  NothingReported'
    BY <1>3 DEF MaterializeCampaign, Move, JobsIn, JobsOf
<1>4. ASSUME NEW c \in Campaigns, NEW batch \in SUBSET Jobs, NEW inactive \in SUBSET Jobs,
             ClaimJobs(c, batch, inactive)
      PROVE  NothingReported'
    BY <1>4 DEF ClaimJobs, Listed, JobsIn, JobsOf
<1>5. ASSUME NEW j \in Jobs, JobStep(j) PROVE NothingReported'
    <2>1. ASSUME NEW o \in {"pending", "suppressed", "skipped", "failed"}, ReleaseJob(j, o)
          PROVE  NothingReported'
        BY <2>1 DEF ReleaseJob, Move, Unattempted, Blocking
    <2>2. CASE BeginAttempt(j)
        BY <2>2 DEF BeginAttempt, CanBegin, jobVars
    <2>3. ASSUME NEW n \in AttemptNos, NEW a \in {"accepted", "refused"}, ProviderAnswers(j, n, a)
          PROVE  NothingReported'
        BY <2>3 DEF ProviderAnswers, jobVars
    <2>4. ASSUME NEW n \in AttemptNos, RecordAccepted(j, n) PROVE NothingReported'
        BY <2>4 DEF RecordAccepted, Move
    <2>5. ASSUME NEW n \in AttemptNos, NEW retry \in BOOLEAN, RecordRejected(j, n, retry)
          PROVE  NothingReported'
        BY <2>5 DEF RecordRejected, MayRetry, Move, OpenAttemptIsOwned
    <2>6. QED BY <1>5, <2>1, <2>2, <2>3, <2>4, <2>5 DEF JobStep
<1>6. CASE PauseWorkspace \/ (\E c \in Campaigns : FinishCampaign(c)) \/ UNCHANGED vars
    BY <1>6 DEF PauseWorkspace, FinishCampaign, jobVars, vars
<1>7. CASE PersonStep \/ RecipientStep
    <2>1. ASSUME NEW j \in Jobs, NEW d \in {"redispatch", "leave"}, ResolveUncertain(j, d)
          PROVE  NothingReported'
        BY <2>1 DEF ResolveUncertain, Move
    <2>2. ASSUME NEW c \in Campaigns, CancelCampaign(c) PROVE NothingReported'
        BY <2>2 DEF CancelCampaign, Move, JobsIn
    <2>3. ASSUME NEW a \in Addresses, NEW kind, InsertSuppression(a, kind),
                 UNCHANGED <<messageOf, attempt>>
          PROVE  NothingReported'
        BY <2>3 DEF InsertSuppression, PendingAt, Move
    <2>4. CASE \/ \E c \in Campaigns : PauseCampaign(c) \/ ResumeSending(c)
               \/ \E a \in Addresses : Unsuppress(a)
        BY <2>4 DEF PauseCampaign, ResumeSending, Unsuppress, jobVars
    <2>5. QED BY <1>7, <2>1, <2>2, <2>3, <2>4, RowsTyped
              DEF PersonStep, RecipientStep, Suppress, RecordUnsubscribe
<1>8. QED BY <1>1, <1>2, <1>3, <1>4, <1>5, <1>6, <1>7 DEF Next, MaintenanceStep, ClaimStep

LEMMA NothingReportedHolds == Spec => [](IInv /\ NothingReported)
<1>1. Init => NothingReported
    BY DEF Init, NothingReported
<1>2. QED BY <1>1, InitInv, StepInv, NothingReportedStep, PTL DEF Spec

\* G2, G3 and the numbering of attempts: no recorded attempt ever collides with
\* another, and a call is open only for the job that owns it.
THEOREM AttemptsNeverCollide == Spec => [](ClaimNumberIsFree /\ OneOpenAttempt)
<1>1. IInv /\ NothingReported => ClaimNumberIsFree /\ OneOpenAttempt
    BY DEF IInv, NothingReported, OpenAttemptIsOwned, OneOpenAttempt
<1>2. QED BY <1>1, NothingReportedHolds, PTL

\* A message id is present exactly on the jobs that count as sent, and names the
\* accepted attempt.
THEOREM MessageIdIsProofOfSend == Spec => []MessageIdMeansSent
<1>1. IInv /\ NothingReported => MessageIdMeansSent
    BY DEF IInv, NothingReported, MessageIdIsKept, MessageIdMeansSent, SentStatus
<1>2. QED BY <1>1, NothingReportedHolds, PTL

\* A finished campaign stays settled, for any number of campaigns and jobs.
THEOREM FinishedStaysSettled == Spec => []FinishedIsSettled
<1>1. IInv => FinishedIsSettled BY DEF IInv
<1>2. QED BY <1>1, InvariantHolds, PTL

-----------------------------------------------------------------------------
(* The counters *)

\* The statuses each counter of a campaign counts.
Groups == {"total", "sent", "failed", "suppressed"}
Group  == [g \in Groups |-> CASE g = "total"      -> JobStatus \ {"absent"}
                              [] g = "sent"       -> SentStatus
                              [] g = "failed"     -> {"failed"}
                              [] g = "suppressed" -> {"suppressed", "skipped"}]

CountedByGroup ==
    \A c \in Campaigns, g \in Groups : tally[c][g] = Cardinality(JobsIn(c, Group[g]))

\* Counting rows that are disjoint from those counted adds up.
LEMMA DisjointRowsAdd ==
    ASSUME NEW A \in SUBSET Jobs, NEW B \in SUBSET Jobs, A \cap B = {}
    PROVE  /\ Cardinality(A) \in Nat /\ Cardinality(B) \in Nat
           /\ Cardinality(A \cup B) = Cardinality(A) + Cardinality(B)
<1>1. IsFiniteSet(A) /\ IsFiniteSet(B)
    BY JobsFinite, FS_Subset
<1>2. Cardinality(A) \in Nat /\ Cardinality(B) \in Nat /\ Cardinality(A \cap B) = 0
    BY <1>1, FS_CardinalityType, FS_EmptySet
<1>3. Cardinality(A \cup B) = Cardinality(A) + Cardinality(B) - Cardinality(A \cap B)
    BY <1>1, FS_Union
<1>4. QED BY <1>2, <1>3

\* The counters match the rows when each matches its group.
LEMMA TallyByGroup == TypeOK => (TallyMatchesJobs <=> CountedByGroup)
<1> SUFFICES ASSUME TypeOK PROVE TallyMatchesJobs <=> CountedByGroup
    OBVIOUS
<1>1. /\ Group["total"]  = JobStatus \ {"absent"} /\ Group["sent"] = SentStatus
      /\ Group["failed"] = {"failed"} /\ Group["suppressed"] = {"suppressed", "skipped"}
    BY DEF Groups, Group
<1>2. ASSUME NEW c \in Campaigns
      PROVE  JobsOf(c) \ JobsIn(c, {"absent"}) = JobsIn(c, Group["total"])
    BY <1>1 DEF TypeOK, JobsIn, JobsOf
<1>3. CountedByGroup <=>
          \A c \in Campaigns : /\ tally[c]["total"]  = Cardinality(JobsIn(c, Group["total"]))
                               /\ tally[c]["sent"]   = Cardinality(JobsIn(c, Group["sent"]))
                               /\ tally[c]["failed"] = Cardinality(JobsIn(c, Group["failed"]))
                               /\ tally[c]["suppressed"]
                                      = Cardinality(JobsIn(c, Group["suppressed"]))
    BY Zenon DEF CountedByGroup, Groups
<1>4. QED BY <1>1, <1>2, <1>3, Zenon DEF TallyMatchesJobs

LEMMA TallyByGroupNext == (TypeOK => (TallyMatchesJobs <=> CountedByGroup))'
BY TallyByGroup, PTL

\* The rows of S, and no others, join group k, and counter k grows by them.
Joins(k, S) ==
    /\ \A c \in Campaigns, g \in Groups : tally'[c][g] =
           IF g = k THEN tally[c][g] + Cardinality(S \cap JobsOf(c)) ELSE tally[c][g]
    /\ \A j \in Jobs, g \in Groups :
           status'[j] \in Group[g] <=> status[j] \in Group[g] \/ (g = k /\ j \in S)
    /\ \A j \in S : status[j] \notin Group[k]

LEMMA JoinKeepsTally ==
    ASSUME TypeOK, TypeOK', TallyMatchesJobs, NEW k, NEW S \in SUBSET Jobs, Joins(k, S)
    PROVE  TallyMatchesJobs'
<1>1. ASSUME NEW c \in Campaigns, NEW g \in Groups
      PROVE  tally'[c][g] = Cardinality(JobsIn(c, Group[g])')
    <2>1. tally[c][g] = Cardinality(JobsIn(c, Group[g]))
        BY TallyByGroup DEF CountedByGroup
    <2>2. CASE g # k
        <3>1. JobsIn(c, Group[g])' = JobsIn(c, Group[g])
            BY <2>2 DEF JobsIn, JobsOf, Joins
        <3>2. tally'[c][g] = tally[c][g]
            BY <2>2 DEF Joins
        <3>3. QED BY <2>1, <3>1, <3>2
    <2>3. CASE g = k
        <3> DEFINE A == JobsIn(c, Group[k])
                   B == S \cap JobsOf(c)
        <3>1. JobsIn(c, Group[k])' = A \cup B
            BY <2>3 DEF JobsIn, JobsOf, Joins
        <3>2. A \in SUBSET Jobs /\ B \in SUBSET Jobs /\ A \cap B = {}
            BY DEF JobsIn, JobsOf, Joins
        <3>3. tally'[c][g] = tally[c][g] + Cardinality(B)
            BY <2>3 DEF Joins
        <3>4. Cardinality(A \cup B) = Cardinality(A) + Cardinality(B)
            BY <3>2, DisjointRowsAdd
        <3>5. QED BY <2>1, <2>3, <3>1, <3>3, <3>4
    <2>4. QED BY <2>2, <2>3
<1>2. QED BY <1>1, TallyByGroupNext DEF CountedByGroup

LEMMA GroupMembers ==
    \A g \in Groups : \A s : s \in Group[g] <=>
        \/ g = "total" /\ s \in JobStatus \ {"absent"}
        \/ g = "sent" /\ s \in SentStatus
        \/ g = "failed" /\ s = "failed"
        \/ g = "suppressed" /\ s \in {"suppressed", "skipped"}
BY DEF Groups, Group

LEMMA CountAdds ==
    ASSUME TypeOK, NEW k \in Counters, NEW S, Count(k, S)
    PROVE  \A c \in Campaigns, g \in Groups : tally'[c][g] =
               IF g = k THEN tally[c][g] + Cardinality(S \cap JobsOf(c)) ELSE tally[c][g]
BY DEF TypeOK, Count, Counters, Groups

\* The materialisation recounts instead of adding.
LEMMA MaterializeKeepsTally ==
    ASSUME TypeOK, TypeOK', TallyMatchesJobs, NEW c \in Campaigns, NEW members \in SUBSET Jobs,
           MaterializeCampaign(c, members)
    PROVE  TallyMatchesJobs'
<1> DEFINE created == {j \in members \cap JobsIn(c, {"absent"}) : ~Suppressed(j)}
<1>1. \A j \in Jobs, g \in Groups :
          status'[j] \in Group[g] <=> status[j] \in Group[g] \/ (g = "total" /\ j \in created)
    <2>1. \A j \in Jobs : IF j \in created THEN status[j] = "absent" /\ status'[j] = "pending"
                                           ELSE status'[j] = status[j]
        BY DEF MaterializeCampaign, Move, JobsIn, JobsOf
    <2> HIDE DEF created
    <2>2. \A g \in Groups : /\ "absent" \notin Group[g]
                            /\ "pending" \in Group[g] <=> g = "total"
        BY GroupMembers DEF JobStatus, SentStatus
    <2>3. QED BY <2>1, <2>2
<1>2. /\ \A d \in Campaigns, g \in Groups : (d # c \/ g # "total") => tally'[d][g] = tally[d][g]
      /\ tally'[c]["total"] = Cardinality(created \cup (JobsOf(c) \ JobsIn(c, {"absent"})))
    BY DEF TypeOK, MaterializeCampaign, Counters, Groups
<1>3. created \subseteq JobsOf(c)
    BY DEF JobsIn
<1> HIDE DEF created
<1>4. ASSUME NEW d \in Campaigns, NEW g \in Groups
      PROVE  tally'[d][g] = Cardinality(JobsIn(d, Group[g])')
    <2>1. tally[d][g] = Cardinality(JobsIn(d, Group[g]))
        BY TallyByGroup DEF CountedByGroup
    <2>2. CASE d # c \/ g # "total"
        <3>1. JobsIn(d, Group[g])' = JobsIn(d, Group[g])
            BY <1>1, <1>3, <2>2 DEF JobsIn, JobsOf
        <3>2. QED BY <1>2, <2>1, <2>2, <3>1
    <2>3. CASE d = c /\ g = "total"
        <3>1. JobsIn(c, Group["total"])' = created \cup (JobsOf(c) \ JobsIn(c, {"absent"}))
            BY <1>1, <1>3, GroupMembers DEF JobsIn, JobsOf, Groups, TypeOK
        <3>2. QED BY <1>2, <2>3, <3>1
    <2>4. QED BY <2>2, <2>3
<1>5. QED BY <1>4, TallyByGroupNext DEF CountedByGroup

\* A status in which the job still waits, or was given up, counts in the total only.
LEMMA OpenCountsInTotal ==
    \A g \in Groups, s \in OpenStatus \cup {"cancelled"} : s \in Group[g] <=> g = "total"
BY GroupMembers DEF OpenStatus, JobStatus, SentStatus

\* Every other function moves open jobs into a group and adds them to its counter,
LEMMA MoveJoins ==
    ASSUME TypeOK, NEW S \in SUBSET Jobs, NEW k \in {"sent", "failed", "suppressed"},
           NEW s, Count(k, S), \A j \in S : status[j] \in OpenStatus,
           \A j \in Jobs : status'[j] = (IF j \in S THEN s ELSE status[j]),
           s \in (CASE k = "sent" -> {"sent"} [] k = "failed" -> {"failed"}
                    [] k = "suppressed" -> {"suppressed", "skipped"})
    PROVE  Joins(k, S)
<1>1. \A g \in Groups : s \in Group[g] <=> g \in {"total", k}
    BY GroupMembers DEF JobStatus, SentStatus
<1>2. \A j \in Jobs, g \in Groups :
          status'[j] \in Group[g] <=> status[j] \in Group[g] \/ (g = k /\ j \in S)
    BY <1>1, OpenCountsInTotal
<1>3. \A j \in S : status[j] \notin Group[k]
    BY OpenCountsInTotal DEF Groups
<1>4. k \in Counters
    BY DEF Counters
<1>5. QED BY <1>2, <1>3, <1>4, CountAdds DEF Joins

\* or moves them from one open status to another and counts nothing.
LEMMA MoveWithin ==
    ASSUME TypeOK, NEW S \in SUBSET Jobs, tally' = tally,
           \A j \in S : /\ status[j] \in OpenStatus
                        /\ status'[j] \in OpenStatus \cup {"cancelled"},
           \A j \in Jobs \ S : status'[j] = status[j]
    PROVE  Joins("none", {})
<1>1. \A j \in Jobs, g \in Groups : status'[j] \in Group[g] <=> status[j] \in Group[g]
    BY OpenCountsInTotal
<1>2. QED BY <1>1 DEF Joins, Groups

JoinsSome == \E k \in Counters \cup {"none"}, S \in SUBSET Jobs : Joins(k, S)

LEMMA JobStepJoins == ASSUME TypeOK, NEW j \in Jobs, JobStep(j) PROVE JoinsSome
<1>1. ASSUME NEW o \in {"pending", "suppressed", "skipped", "failed"}, ReleaseJob(j, o)
      PROVE  JoinsSome
    <2>1. Move({j}, o) /\ status[j] = "claimed"
        BY <1>1 DEF ReleaseJob, Unattempted
    <2>2. CASE o = "pending"
        <3>1. tally' = tally
            BY <1>1, <2>2 DEF ReleaseJob
        <3>2. Joins("none", {})
            BY <2>1, <2>2, <3>1, MoveWithin DEF Move, OpenStatus
        <3>3. QED BY <3>2 DEF JoinsSome
    <2>3. CASE o = "failed"
        <3>1. Count("failed", {j})
            BY <1>1, <2>3 DEF ReleaseJob
        <3>2. Joins("failed", {j})
            BY <2>1, <2>3, <3>1, MoveJoins DEF Move, OpenStatus
        <3>3. QED BY <3>2 DEF JoinsSome, Counters
    <2>4. CASE o \in {"suppressed", "skipped"}
        <3>1. Count("suppressed", {j})
            BY <1>1, <2>4 DEF ReleaseJob
        <3>2. Joins("suppressed", {j})
            BY <2>1, <2>4, <3>1, MoveJoins DEF Move, OpenStatus
        <3>3. QED BY <3>2 DEF JoinsSome, Counters
    <2>5. QED BY <2>2, <2>3, <2>4
<1>2. CASE \/ BeginAttempt(j)
           \/ \E n \in AttemptNos, a \in {"accepted", "refused"} : ProviderAnswers(j, n, a)
    <2>1. Joins("none", {})
        BY <1>2 DEF Joins, BeginAttempt, ProviderAnswers, jobVars, campaignVars, Groups
    <2>2. QED BY <2>1 DEF JoinsSome
<1>3. ASSUME NEW n \in AttemptNos, RecordAccepted(j, n) PROVE JoinsSome
    <2>1. CASE status[j] \in {"claimed", "send_uncertain"}
        <3>1. Count("sent", {j}) /\ Move({j}, "sent")
            BY <1>3, <2>1 DEF RecordAccepted
        <3>2. Joins("sent", {j})
            BY <2>1, <3>1, MoveJoins DEF Move, OpenStatus
        <3>3. QED BY <3>2 DEF JoinsSome, Counters
    <2>2. CASE status[j] \notin {"claimed", "send_uncertain"}
        <3>1. Joins("none", {})
            BY <1>3, <2>2 DEF Joins, RecordAccepted, Groups
        <3>2. QED BY <3>1 DEF JoinsSome
    <2>3. QED BY <2>1, <2>2
<1>4. ASSUME NEW n \in AttemptNos, NEW retry \in BOOLEAN, RecordRejected(j, n, retry)
      PROVE  JoinsSome
    <2>1. CASE status[j] # "claimed"
        <3>1. Joins("none", {})
            BY <1>4, <2>1 DEF Joins, RecordRejected, Groups
        <3>2. QED BY <3>1 DEF JoinsSome
    <2>2. CASE status[j] = "claimed" /\ retry /\ MayRetry(j)
        <3>1. tally' = tally /\ Move({j}, "pending")
            BY <1>4, <2>2 DEF RecordRejected
        <3>2. Joins("none", {})
            BY <2>2, <3>1, MoveWithin DEF Move, OpenStatus
        <3>3. QED BY <3>2 DEF JoinsSome
    <2>3. CASE status[j] = "claimed" /\ ~(retry /\ MayRetry(j))
        <3>1. Count("failed", {j}) /\ Move({j}, "failed")
            BY <1>4, <2>3 DEF RecordRejected
        <3>2. Joins("failed", {j})
            BY <2>3, <3>1, MoveJoins DEF Move, OpenStatus
        <3>3. QED BY <3>2 DEF JoinsSome, Counters
    <2>4. QED BY <2>1, <2>2, <2>3
<1>5. QED BY <1>1, <1>2, <1>3, <1>4 DEF JobStep

LEMMA ClaimStepJoins ==
    ASSUME TypeOK, NEW c \in Campaigns, NEW batch \in SUBSET Jobs, NEW inactive \in SUBSET Jobs,
           ClaimJobs(c, batch, inactive)
    PROVE  JoinsSome
<1> DEFINE D == Listed(batch) \cup inactive
<1>1. /\ Count("suppressed", D) /\ D \in SUBSET Jobs
      /\ batch \in SUBSET Jobs /\ D \subseteq batch
      /\ \A j \in batch : status[j] = "pending"
      /\ \A j \in D : status'[j] \in {"suppressed", "skipped"}
      /\ \A j \in batch \ D : status'[j] = "claimed"
      /\ \A j \in Jobs \ batch : status'[j] = status[j]
    BY DEF ClaimJobs, Listed, JobsIn, JobsOf
<1> HIDE DEF D
<1>2. \A s \in {"suppressed", "skipped"}, g \in Groups :
          s \in Group[g] <=> g \in {"total", "suppressed"}
    BY GroupMembers DEF JobStatus, SentStatus
<1>3. \A s \in {"pending", "claimed"}, g \in Groups : s \in Group[g] <=> g = "total"
    BY OpenCountsInTotal DEF OpenStatus
<1>4. \A j \in Jobs, g \in Groups :
          status'[j] \in Group[g] <=> status[j] \in Group[g] \/ (g = "suppressed" /\ j \in D)
    BY <1>1, <1>2, <1>3
<1>5. \A j \in D : status[j] \notin Group["suppressed"]
    BY <1>1, <1>3 DEF Groups
<1>6. Joins("suppressed", D)
    BY <1>1, <1>4, <1>5, CountAdds DEF Joins, Counters
<1>7. QED BY <1>1, <1>6 DEF JoinsSome, Counters

LEMMA PersonStepJoins == ASSUME TypeOK, PersonStep \/ RecipientStep PROVE JoinsSome
<1>1. ASSUME NEW j \in Jobs, NEW d \in {"redispatch", "leave"}, ResolveUncertain(j, d)
      PROVE  JoinsSome
    <2>1. status[j] = "send_uncertain"
        BY <1>1 DEF ResolveUncertain
    <2>2. CASE Move({j}, "pending") /\ UNCHANGED tally
        <3>1. Joins("none", {})
            BY <2>1, <2>2, MoveWithin DEF Move, OpenStatus
        <3>2. QED BY <3>1 DEF JoinsSome
    <2>3. CASE Move({j}, "failed") /\ Count("failed", {j})
        <3>1. Joins("failed", {j})
            BY <2>1, <2>3, MoveJoins DEF Move, OpenStatus
        <3>2. QED BY <3>1 DEF JoinsSome, Counters
    <2>4. QED BY <1>1, <2>2, <2>3 DEF ResolveUncertain
<1>2. ASSUME NEW c \in Campaigns, CancelCampaign(c) PROVE JoinsSome
    <2> DEFINE S == JobsIn(c, {"pending", "send_uncertain"})
    <2>1. Move(S, "cancelled") /\ tally' = tally
        BY <1>2 DEF CancelCampaign
    <2>2. S \in SUBSET Jobs /\ \A j \in S : status[j] \in {"pending", "send_uncertain"}
        BY DEF JobsIn, JobsOf
    <2> HIDE DEF S
    <2>3. Joins("none", {})
        BY <2>1, <2>2, MoveWithin DEF Move, OpenStatus
    <2>4. QED BY <2>3 DEF JoinsSome
<1>3. \A a : PendingAt(a) \in SUBSET Jobs /\ \A j \in PendingAt(a) : status[j] \in OpenStatus
    BY DEF PendingAt, OpenStatus
<1>4. ASSUME NEW a \in Addresses, Suppress(a, "reversible") PROVE JoinsSome
    <2>1. Move(PendingAt(a), "suppressed") /\ Count("suppressed", PendingAt(a))
        BY <1>4 DEF Suppress, InsertSuppression
    <2>2. Joins("suppressed", PendingAt(a))
        BY <1>3, <2>1, MoveJoins DEF Move
    <2>3. QED BY <1>3, <2>2 DEF JoinsSome, Counters
<1>5. ASSUME NEW j \in Jobs, RecordUnsubscribe(j) PROVE JoinsSome
    <2> DEFINE S == PendingAt(AddressOf[j])
    <2>1. Move(S, "suppressed")
        BY <1>5 DEF RecordUnsubscribe, InsertSuppression
    <2>2. \A c \in Campaigns, g \in Groups : tally'[c][g] =
              IF g = "suppressed" THEN tally[c][g] + Cardinality(S \cap JobsOf(c))
                                  ELSE tally[c][g]
        BY <1>5 DEF RecordUnsubscribe, TypeOK, Counters, Groups
    <2>3. \A g \in Groups : "suppressed" \in Group[g] <=> g \in {"total", "suppressed"}
        BY GroupMembers DEF JobStatus, SentStatus
    <2>4. S \in SUBSET Jobs /\ \A i \in S : status[i] \in OpenStatus
        BY <1>3
    <2> HIDE DEF S
    <2>5. /\ \A i \in Jobs, g \in Groups : status'[i] \in Group[g] <=>
                 status[i] \in Group[g] \/ (g = "suppressed" /\ i \in S)
          /\ \A i \in S : status[i] \notin Group["suppressed"]
        BY <2>1, <2>3, <2>4, OpenCountsInTotal DEF Move, Groups
    <2>6. Joins("suppressed", S)
        BY <2>2, <2>5 DEF Joins
    <2>7. QED BY <2>4, <2>6 DEF JoinsSome, Counters
<1>6. CASE \/ \E c \in Campaigns : PauseCampaign(c) \/ ResumeSending(c)
           \/ \E a \in Addresses : Unsuppress(a)
    <2>1. Joins("none", {})
        BY <1>6 DEF Joins, PauseCampaign, ResumeSending, Unsuppress, jobVars, campaignVars, Groups
    <2>2. QED BY <2>1 DEF JoinsSome
<1>7. QED BY <1>1, <1>2, <1>4, <1>5, <1>6 DEF PersonStep, RecipientStep

LEMMA TallyStep == IInv /\ TallyMatchesJobs /\ [Next]_vars => TallyMatchesJobs'
<1> SUFFICES ASSUME IInv, TallyMatchesJobs, [Next]_vars PROVE TallyMatchesJobs'
    OBVIOUS
<1>1. TypeOK /\ TypeOK'
    BY StepInv DEF IInv
<1>2. ASSUME NEW stale \in SUBSET Jobs, ReapClaimed(stale) PROVE JoinsSome
    <2>1. Joins("none", {})
        BY <1>1, <1>2, MoveWithin DEF ReapClaimed, Unattempted, Move, campaignVars, OpenStatus
    <2>2. QED BY <2>1 DEF JoinsSome
<1>3. ASSUME NEW stale \in SUBSET Jobs, ReconcileAttempts(stale) PROVE JoinsSome
    <2> DEFINE S == Redispatched \cup {j \in stale : status[j] = "claimed"}
    <2>1. /\ S \in SUBSET Jobs /\ tally' = tally
          /\ \A j \in S : status[j] \in {"claimed", "send_uncertain"}
          /\ \A j \in S : status'[j] \in {"pending", "send_uncertain"}
          /\ \A j \in Jobs \ S : status'[j] = status[j]
        BY <1>3 DEF ReconcileAttempts, Redispatched, WithoutAnswer, campaignVars
    <2> HIDE DEF S
    <2>2. Joins("none", {})
        BY <1>1, <2>1, MoveWithin DEF OpenStatus
    <2>3. QED BY <2>2 DEF JoinsSome
<1>4. ASSUME PauseWorkspace \/ (\E c \in Campaigns : FinishCampaign(c)) \/ UNCHANGED vars
      PROVE  JoinsSome
    <2>1. Joins("none", {})
        BY <1>4 DEF Joins, PauseWorkspace, FinishCampaign, jobVars, campaignVars, vars, Groups
    <2>2. QED BY <2>1 DEF JoinsSome
<1>5. CASE \E c \in Campaigns, members \in SUBSET Jobs : MaterializeCampaign(c, members)
    BY <1>1, <1>5, MaterializeKeepsTally
<1>6. CASE JoinsSome
    BY <1>1, <1>6, JoinKeepsTally, Zenon DEF JoinsSome
<1>7. QED BY <1>1, <1>2, <1>3, <1>4, <1>5, <1>6, ClaimStepJoins, JobStepJoins, PersonStepJoins
          DEF Next, MaintenanceStep, ClaimStep

LEMMA InitTally == Init => TallyMatchesJobs
<1> SUFFICES ASSUME Init PROVE TallyMatchesJobs
    OBVIOUS
<1>1. \A c \in Campaigns : /\ JobsOf(c) \ JobsIn(c, {"absent"}) = {}
                           /\ JobsIn(c, SentStatus) = {} /\ JobsIn(c, {"failed"}) = {}
                           /\ JobsIn(c, {"suppressed", "skipped"}) = {}
    BY DEF Init, JobsIn, JobsOf, SentStatus
<1>2. Cardinality({}) = 0
    BY FS_EmptySet
<1>3. QED BY <1>1, <1>2 DEF Init, TallyMatchesJobs, Counters

\* The counters always equal a recount of the rows, for any number of campaigns,
\* jobs and attempts.
THEOREM CountersMatchRows == Spec => []TallyMatchesJobs
<1>1. QED BY InitInv, InitTally, StepInv, TallyStep, PTL DEF Spec

-----------------------------------------------------------------------------
(* Action properties *)

\* G7: no function attempts a transition the trigger refuses.
THEOREM NoTransitionRefused == Spec => TransitionsAllowed
<1> DEFINE Legal == \A j \in Jobs : status'[j] # status[j] =>
                        JobTransitionAllowed(status[j], status'[j])
<1>1. ASSUME IInv, Next PROVE Legal
    <2> USE <1>1 DEF IInv, TypeOK
    <2>1. ASSUME NEW stale \in SUBSET Jobs, ReapClaimed(stale) PROVE Legal
        BY <2>1 DEF ReapClaimed, Unattempted, Move, JobTransitionAllowed
    <2>2. ASSUME NEW stale \in SUBSET Jobs, ReconcileAttempts(stale) PROVE Legal
        BY <2>2 DEF ReconcileAttempts, Redispatched, WithoutAnswer, JobTransitionAllowed
    <2>3. ASSUME NEW c \in Campaigns, NEW members \in SUBSET Jobs,
                 MaterializeCampaign(c, members)
          PROVE  Legal
        BY <2>3 DEF MaterializeCampaign, Move, JobsIn, JobsOf, JobTransitionAllowed
    <2>4. ASSUME NEW c \in Campaigns, NEW batch \in SUBSET Jobs,
                 NEW inactive \in SUBSET Jobs, ClaimJobs(c, batch, inactive)
          PROVE  Legal
        BY <2>4 DEF ClaimJobs, Listed, JobsIn, JobsOf, JobTransitionAllowed
    <2>5. ASSUME NEW j \in Jobs, JobStep(j) PROVE Legal
        <3>1. ASSUME NEW o \in {"pending", "suppressed", "skipped", "failed"},
                     ReleaseJob(j, o)
              PROVE  Legal
            BY <3>1 DEF ReleaseJob, Move, Unattempted, JobTransitionAllowed
        <3>2. CASE BeginAttempt(j)
            BY <3>2 DEF BeginAttempt, jobVars
        <3>3. ASSUME NEW n \in AttemptNos, NEW a \in {"accepted", "refused"},
                     ProviderAnswers(j, n, a)
              PROVE  Legal
            BY <3>3 DEF ProviderAnswers, jobVars
        <3>4. ASSUME NEW n \in AttemptNos, RecordAccepted(j, n) PROVE Legal
            BY <3>4 DEF RecordAccepted, Move, JobTransitionAllowed
        <3>5. ASSUME NEW n \in AttemptNos, NEW retry \in BOOLEAN,
                     RecordRejected(j, n, retry)
              PROVE  Legal
            BY <3>5 DEF RecordRejected, MayRetry, Move, JobTransitionAllowed
        <3>6. QED BY <2>5, <3>1, <3>2, <3>3, <3>4, <3>5 DEF JobStep
    <2>6. CASE PauseWorkspace \/ \E c \in Campaigns : FinishCampaign(c)
        BY <2>6 DEF PauseWorkspace, FinishCampaign, jobVars
    <2>7. CASE PersonStep \/ RecipientStep
        <3>1. ASSUME NEW j \in Jobs, NEW d \in {"redispatch", "leave"},
                     ResolveUncertain(j, d)
              PROVE  Legal
            BY <3>1 DEF ResolveUncertain, Move, JobTransitionAllowed
        <3>2. ASSUME NEW c \in Campaigns, CancelCampaign(c) PROVE Legal
            BY <3>2 DEF CancelCampaign, Move, JobsIn, JobTransitionAllowed
        <3>3. ASSUME NEW a, NEW kind, InsertSuppression(a, kind) PROVE Legal
            BY <3>3 DEF InsertSuppression, PendingAt, Move, JobTransitionAllowed
        <3>4. CASE \/ \E c \in Campaigns : PauseCampaign(c) \/ ResumeSending(c)
                   \/ \E a \in Addresses : Unsuppress(a)
            BY <3>4 DEF PauseCampaign, ResumeSending, Unsuppress, jobVars
        <3>5. QED BY <2>7, <3>1, <3>2, <3>3, <3>4
                  DEF PersonStep, RecipientStep, Suppress, RecordUnsubscribe
    <2>8. QED BY <2>1, <2>2, <2>3, <2>4, <2>5, <2>6, <2>7
              DEF Next, MaintenanceStep, ClaimStep
<1>2. IInv /\ [Next]_vars => [Legal]_vars
    BY <1>1
<1>3. QED BY <1>2, InvariantHolds, PTL DEF Spec, TransitionsAllowed

\* No function but sending_claim_jobs claims, and it claims no suppressed address.
THEOREM SuppressedIsNeverClaimed == Spec => SuppressedNeverClaimed
<1> DEFINE Safe == \A j \in Jobs : status[j] # "claimed" /\ status'[j] = "claimed" =>
                       ~Suppressed(j)
<1>1. ASSUME IInv, [Next]_vars, NEW j \in Jobs, status[j] # "claimed",
             status'[j] = "claimed"
      PROVE  ~Suppressed(j)
    <2> USE <1>1 DEF IInv, TypeOK
    <2>1. CASE ClaimStep
        BY <2>1 DEF ClaimStep, ClaimJobs, Listed
    <2>2. CASE MaintenanceStep
        BY <2>2 DEF MaintenanceStep, ReapClaimed, ReconcileAttempts, WithoutAnswer,
                    MaterializeCampaign, FinishCampaign, Move, jobVars
    <2>3. ASSUME NEW i \in Jobs, JobStep(i) PROVE FALSE
        BY <2>3 DEF JobStep, ReleaseJob, BeginAttempt, ProviderAnswers, RecordAccepted,
                    RecordRejected, Move, jobVars
    <2>4. CASE PersonStep \/ RecipientStep
        BY <2>4 DEF PersonStep, RecipientStep, ResolveUncertain, PauseCampaign, ResumeSending,
                    CancelCampaign, Suppress, Unsuppress, RecordUnsubscribe,
                    InsertSuppression, Move, jobVars
    <2>5. CASE PauseWorkspace \/ UNCHANGED vars
        BY <2>5 DEF PauseWorkspace, vars, jobVars
    <2>6. QED BY <2>1, <2>2, <2>3, <2>4, <2>5 DEF Next
<1>2. IInv /\ [Next]_vars => [Safe]_vars
    BY <1>1
<1>3. QED BY <1>2, InvariantHolds, PTL DEF Spec, SuppressedNeverClaimed

-----------------------------------------------------------------------------
(* The tables implement the abstract promise *)

\* The messages of one job the provider accepted, under the refinement mapping.
Mailed(j) == {n \in AttemptNos : answer[j][n] = "accepted"}

\* A call answered now is the job's latest attempt, or was already written off.
LEMMA AnswerIsMail ==
    ASSUME IInv, NEW j \in Jobs, NEW n \in AttemptNos,
           ProviderAnswers(j, n, "accepted")
    PROVE  Promise!Mail(j, n)
<1> USE DEF ProviderAnswers, IInv, TypeOK
<1>1. n \notin Mailed(j)
    BY DEF Mailed
<1>2. n \in resent[j] \/ Mailed(j) \subseteq resent[j]
    <2>1. SUFFICES ASSUME n \notin resent[j], NEW m \in Mailed(j), m \notin resent[j]
                   PROVE  FALSE
        OBVIOUS
    <2>2. n = attempts[j]
        BY <2>1 DEF InDoubtIsLatest
    <2>3. m = attempts[j]
        BY <2>1 DEF Mailed, InDoubtIsLatest, RecordsAreTrue, AttemptState
    <2>4. QED BY <1>1, <2>1, <2>2, <2>3
<1>3. [i \in Jobs |-> {k \in AttemptNos : answer[i][k] = "accepted"}]'
          = [[i \in Jobs |-> {k \in AttemptNos : answer[i][k] = "accepted"}]
                EXCEPT ![j] = @ \cup {n}]
    OBVIOUS
<1>4. QED BY <1>1, <1>2, <1>3 DEF Promise!Mail, Mailed

MailedBar == [j \in Jobs |-> {n \in AttemptNos : answer[j][n] = "accepted"}]

\* Every step of the tables is a step of the promise or stutters.
LEMMA PromiseStep == IInv /\ [Next]_vars => Promise!Next \/ UNCHANGED <<MailedBar, resent>>
<1> SUFFICES ASSUME IInv, [Next]_vars PROVE Promise!Next \/ UNCHANGED <<MailedBar, resent>>
    OBVIOUS
<1> USE DEF IInv, TypeOK, MailedBar
<1>1. ASSUME NEW j \in Jobs, NEW n \in AttemptNos, NEW a \in {"accepted", "refused"},
             ProviderAnswers(j, n, a)
      PROVE  Promise!Next \/ UNCHANGED <<MailedBar, resent>>
    <2>1. CASE a = "accepted"
        BY <1>1, <2>1, AnswerIsMail DEF Promise!Next
    <2>2. CASE a = "refused"
        BY <1>1, <2>2 DEF ProviderAnswers
    <2>3. QED BY <2>1, <2>2
<1>2. ASSUME UNCHANGED answer, NEW S \in SUBSET Jobs,
             \A j \in S : attempts[j] \in AttemptNos,
             resent' = [j \in Jobs |-> IF j \in S THEN resent[j] \cup {attempts[j]}
                                                  ELSE resent[j]]
      PROVE  Promise!Next \/ UNCHANGED <<MailedBar, resent>>
    <2> DEFINE inDoubt == [j \in Jobs |-> IF j \in S THEN {attempts[j]} ELSE {}]
    <2>1. inDoubt \in [Jobs -> {{}} \cup {{m} : m \in AttemptNos}]
        BY <1>2
    <2>2. resent' = [j \in Jobs |-> resent[j] \cup inDoubt[j]]
        BY <1>2
    <2>3. CASE S = {}
        BY <1>2, <2>3
    <2>4. CASE S # {}
        <3>1. \E j \in Jobs : inDoubt[j] # {}
            BY <2>4
        <3> HIDE DEF inDoubt
        <3>2. Promise!SendAgain(inDoubt)
            BY <1>2, <2>2, <3>1 DEF Promise!SendAgain
        <3>3. \E w \in [Jobs -> {{}} \cup {{m} : m \in AttemptNos}] : Promise!SendAgain(w)
            BY <2>1, <3>2, Zenon
        <3>4. QED BY <3>3, Zenon DEF Promise!Next
    <2>5. QED BY <2>3, <2>4
<1>3. ASSUME NEW stale \in SUBSET Jobs, ReconcileAttempts(stale)
      PROVE  Promise!Next \/ UNCHANGED <<MailedBar, resent>>
    <2> DEFINE S == Redispatched
    <2>1. resent' = [j \in Jobs |-> IF j \in S THEN resent[j] \cup {attempts[j]}
                                              ELSE resent[j]]
        BY <1>3 DEF ReconcileAttempts
    <2>2. \A j \in S : attempts[j] \in AttemptNos
        BY DEF Redispatched, AttemptsInRange
    <2>3. S \in SUBSET Jobs /\ UNCHANGED answer
        BY <1>3 DEF ReconcileAttempts, Redispatched
    <2> HIDE DEF S
    <2>4. QED BY <1>2, <2>1, <2>2, <2>3
<1>4. ASSUME NEW j \in Jobs, NEW d \in {"redispatch", "leave"}, ResolveUncertain(j, d)
      PROVE  Promise!Next \/ UNCHANGED <<MailedBar, resent>>
    <2>1. CASE d = "leave"
        BY <1>4, <2>1 DEF ResolveUncertain
    <2>2. CASE d = "redispatch"
        <3> DEFINE S == {j}
        <3>1. S \in SUBSET Jobs /\ UNCHANGED answer
            BY <1>4 DEF ResolveUncertain
        <3>2. \A i \in S : attempts[i] \in AttemptNos
            BY <1>4 DEF ResolveUncertain, AttemptsInRange
        <3>3. resent' = [i \in Jobs |-> IF i \in S THEN resent[i] \cup {attempts[i]}
                                                ELSE resent[i]]
            BY <1>4, <2>2 DEF ResolveUncertain
        <3> HIDE DEF S
        <3>4. QED BY <1>2, <3>1, <3>2, <3>3
    <2>3. QED BY <2>1, <2>2
<1>5. CASE UNCHANGED <<answer, resent>>
    BY <1>5
<1>6. QED BY <1>1, <1>3, <1>4, <1>5
      DEF Next, vars, MaintenanceStep, ClaimStep, JobStep, PersonStep, RecipientStep, PauseWorkspace,
          ReapClaimed, MaterializeCampaign, FinishCampaign, ClaimJobs, ReleaseJob,
          BeginAttempt, RecordAccepted, RecordRejected, PauseCampaign, ResumeSending,
          CancelCampaign, Suppress, Unsuppress, RecordUnsubscribe

\* The detailed tables implement AtMostOnceSend for every instance.
THEOREM ImplementsPromise == Spec => ImplementsAtMostOnceSend
<1>1. Init => Promise!Init
    BY DEF Init, Promise!Init
<1>2. IInv /\ [Next]_vars => [Promise!Next]_<<MailedBar, resent>>
    BY PromiseStep
<1>3. QED
    BY <1>1, <1>2, InvariantHolds, PTL
    DEF Spec, ImplementsAtMostOnceSend, Promise!Spec, MailedBar
=============================================================================
