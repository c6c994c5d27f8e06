------------------------ MODULE ProviderEventsProofs ------------------------
(***************************************************************************)
(* What DeliveryLedgerProofs shows of the delivery tables survives the     *)
(* notifications of the provider, for every number of notifications, in    *)
(* every order and with every repetition.  EventsInv is inductive: the     *)
(* steps of the tables are taken over from DeliveryLedgerProofs, and the   *)
(* work is in one transaction, RecordApplied.                              *)
(***************************************************************************)
EXTENDS ProviderEvents, DeliveryLedgerProofs

\* What a notification says of an attempt is what the provider did with it, and
\* only published ones are recorded.
NoticesAreTrue ==
    \A x \in Notices :
        /\ outcome[x] # "none" => notice[x] # Unpublished
        /\ notice[x] # Unpublished => answer[notice[x].job][notice[x].attempt] = "accepted"

\* A recorded notification about the latest attempt of a job has taken the job out
\* of the hands of the tick and of the reconciler: it is neither in doubt nor on
\* the way to be.
RecordedIsDecided ==
    \A x \in Notices :
        outcome[x] # "none" /\ notice[x].attempt = attempts[notice[x].job] =>
            status[notice[x].job] \notin {"claimed", "send_uncertain"}

EventsInv == /\ IInv
             /\ EventsTypeOK
             /\ TallyMatchesJobs
             /\ NoticesAreTrue
             /\ RecordedIsDecided
             /\ ComplaintIsForGood

\* What the tables count as delivered, bounced or complained about.
Reported == {"delivered", "bounced", "complained"}

-----------------------------------------------------------------------------
(* The steps of the tables *)

\* No function of the tables moves a job into or out of a reported state, and none
\* deletes an irreversible suppression.
LEMMA TablesLeaveReported ==
    ASSUME IInv, [Next]_vars
    PROVE  /\ \A j \in Jobs : status[j] \in Reported \/ status'[j] \in Reported =>
                  status'[j] = status[j]
           /\ \A a \in Addresses : suppression[a] = "irreversible" =>
                  suppression'[a] = "irreversible"
<1> DEFINE Quiet == /\ \A j \in Jobs : status[j] \in Reported \/ status'[j] \in Reported =>
                           status'[j] = status[j]
                    /\ \A a \in Addresses : suppression[a] = "irreversible" =>
                           suppression'[a] = "irreversible"
<1> USE DEF Reported
<1>1. TypeOK
    BY DEF IInv
<1>2. CASE MaintenanceStep
    BY <1>1, <1>2, ZenonT(60) DEF TypeOK, MaintenanceStep, ReapClaimed, Unattempted, ReconcileAttempts,
        Redispatched, WithoutAnswer, MaterializeCampaign, FinishCampaign, Move, JobsIn, JobsOf,
        jobVars
<1>3. CASE ClaimStep
    BY <1>1, <1>3 DEF TypeOK, ClaimStep, ClaimJobs, Listed, JobsIn, JobsOf
<1>4. ASSUME NEW j \in Jobs, JobStep(j) PROVE Quiet
    BY <1>1, <1>4 DEF TypeOK, JobStep, ReleaseJob, Unattempted, BeginAttempt, ProviderAnswers,
        RecordAccepted, RecordRejected, Move, jobVars
<1>5. CASE PauseWorkspace \/ UNCHANGED vars
    BY <1>1, <1>5 DEF TypeOK, PauseWorkspace, jobVars, vars
<1>6. ASSUME PersonStep \/ RecipientStep PROVE Quiet
    <2>1. ASSUME NEW i \in Jobs, NEW d \in {"redispatch", "leave"}, ResolveUncertain(i, d)
          PROVE  Quiet
        BY <1>1, <2>1 DEF TypeOK, ResolveUncertain, Move
    <2>2. ASSUME NEW c \in Campaigns, CancelCampaign(c) PROVE Quiet
        BY <1>1, <2>2 DEF TypeOK, CancelCampaign, Move, JobsIn, JobsOf
    <2>3. ASSUME NEW a \in Addresses, NEW kind, InsertSuppression(a, kind),
                 UNCHANGED attempts
          PROVE  Quiet
        BY <1>1, <2>3 DEF TypeOK, InsertSuppression, PendingAt, Move
    <2>4. CASE \/ \E c \in Campaigns : PauseCampaign(c) \/ ResumeSending(c)
               \/ \E a \in Addresses : Unsuppress(a)
        BY <1>1, <2>4 DEF TypeOK, PauseCampaign, ResumeSending, Unsuppress, jobVars
    <2>5. QED BY <1>6, <2>1, <2>2, <2>3, <2>4, RowsTyped
              DEF PersonStep, RecipientStep, Suppress, RecordUnsubscribe
<1>7. QED BY <1>2, <1>3, <1>4, <1>5, <1>6 DEF Next

\* An attempt the provider answered keeps its answer, and only a claim moves a job
\* to `claimed`: with a number that no attempt carries yet.
LEMMA TablesDecide ==
    ASSUME IInv, [Next]_vars, NEW j \in Jobs, NEW n \in AttemptNos,
           answer[j][n] = "accepted",
           n = attempts[j] => status[j] \notin {"claimed", "send_uncertain"}
    PROVE  n = attempts'[j] => status'[j] \notin {"claimed", "send_uncertain"}
<1> DEFINE Decided == status'[j] \notin {"claimed", "send_uncertain"}
<1> SUFFICES ASSUME n = attempts'[j] PROVE Decided
    OBVIOUS
<1>1. TypeOK /\ attempts[j] \in Nat
    BY DEF IInv, TypeOK
<1>2. n <= attempts[j]
    BY DEF IInv, RecordsAreTrue, ClaimNumberIsFree
<1>3. CASE MaintenanceStep
    <2>1. ASSUME NEW stale \in SUBSET Jobs, ReapClaimed(stale) PROVE Decided
        BY <1>1, <2>1 DEF TypeOK, ReapClaimed, Unattempted, Move
    <2>2. ASSUME NEW stale \in SUBSET Jobs, ReconcileAttempts(stale) PROVE Decided
        BY <1>1, <2>2 DEF TypeOK, ReconcileAttempts, Redispatched, WithoutAnswer
    <2>3. ASSUME NEW c \in Campaigns, NEW members \in SUBSET Jobs,
                 MaterializeCampaign(c, members)
          PROVE  Decided
        BY <1>1, <2>3 DEF TypeOK, MaterializeCampaign, Move, JobsIn, JobsOf
    <2>4. ASSUME NEW c \in Campaigns, FinishCampaign(c) PROVE Decided
        BY <1>1, <2>4 DEF TypeOK, FinishCampaign, jobVars
    <2>5. QED BY <1>3, <2>1, <2>2, <2>3, <2>4 DEF MaintenanceStep
<1>4. CASE ClaimStep
    BY <1>1, <1>2, <1>4 DEF TypeOK, AttemptNos, ClaimStep, ClaimJobs, Listed, JobsIn, JobsOf
<1>5. ASSUME NEW i \in Jobs, JobStep(i)
      PROVE  Decided
    BY <1>1, <1>5 DEF TypeOK, JobStep, ReleaseJob, Unattempted, BeginAttempt, ProviderAnswers,
        RecordAccepted, RecordRejected, Move, jobVars
<1>6. CASE PauseWorkspace \/ UNCHANGED vars
    BY <1>1, <1>6 DEF TypeOK, PauseWorkspace, jobVars, vars
<1>7. ASSUME PersonStep \/ RecipientStep PROVE Decided
    <2>1. ASSUME NEW i \in Jobs, NEW d \in {"redispatch", "leave"}, ResolveUncertain(i, d)
          PROVE  Decided
        BY <1>1, <2>1 DEF TypeOK, ResolveUncertain, Move
    <2>2. ASSUME NEW c \in Campaigns, CancelCampaign(c) PROVE Decided
        BY <1>1, <2>2 DEF TypeOK, CancelCampaign, Move, JobsIn, JobsOf
    <2>3. ASSUME NEW a \in Addresses, NEW kind, InsertSuppression(a, kind),
                 UNCHANGED attempts
          PROVE  Decided
        BY <1>1, <2>3 DEF TypeOK, InsertSuppression, PendingAt, Move
    <2>4. CASE \/ \E c \in Campaigns : PauseCampaign(c) \/ ResumeSending(c)
               \/ \E a \in Addresses : Unsuppress(a)
        BY <1>1, <2>4 DEF TypeOK, PauseCampaign, ResumeSending, Unsuppress, jobVars
    <2>5. QED BY <1>7, <2>1, <2>2, <2>3, <2>4, RowsTyped
              DEF PersonStep, RecipientStep, Suppress, RecordUnsubscribe
<1>8. QED BY <1>3, <1>4, <1>5, <1>6, <1>7 DEF Next

\* The provider never takes back an acceptance.
LEMMA AcceptedStaysAccepted ==
    ASSUME IInv, [Next]_vars, NEW j \in Jobs, NEW n \in AttemptNos, answer[j][n] = "accepted"
    PROVE  answer'[j][n] = "accepted"
<1>1. ASSUME NEW i \in Jobs, NEW m \in AttemptNos, NEW a \in {"accepted", "refused"},
             ProviderAnswers(i, m, a)
      PROVE  answer'[j][n] = "accepted"
    BY <1>1 DEF IInv, TypeOK, ProviderAnswers
<1>2. CASE UNCHANGED answer
    BY <1>2
<1>3. QED BY <1>1, <1>2
      DEF Next, vars, MaintenanceStep, ClaimStep, JobStep, PersonStep, RecipientStep,
          PauseWorkspace, ReapClaimed, ReconcileAttempts, MaterializeCampaign, FinishCampaign,
          ClaimJobs, ReleaseJob, BeginAttempt, RecordAccepted, RecordRejected, ResolveUncertain,
          PauseCampaign, ResumeSending, CancelCampaign, Suppress, Unsuppress, RecordUnsubscribe

\* A step of the tables, alone or with the unsubscribe page, keeps the invariant.
LEMMA TablesKeepInv ==
    ASSUME EventsInv, [Next]_vars, UNCHANGED <<notice, outcome, eventTally>>,
           stopped' \subseteq Addresses
    PROVE  EventsInv'
<1> USE DEF EventsInv
<1>1. IInv' /\ TallyMatchesJobs'
    BY StepInv, TallyStep
<1>2. EventsTypeOK'
    BY <1>1 DEF EventsTypeOK, IInv
<1>3. ASSUME NEW x \in Notices, notice[x] # Unpublished
      PROVE  /\ notice[x] \in Published /\ notice[x].job \in Jobs
             /\ notice[x].attempt \in AttemptNos /\ notice'[x] = notice[x]
             /\ answer[notice[x].job][notice[x].attempt] = "accepted"
    BY <1>3 DEF EventsTypeOK, Published, NoticesAreTrue
<1>4. NoticesAreTrue'
    BY <1>3, AcceptedStaysAccepted DEF NoticesAreTrue
<1>5. RecordedIsDecided'
    BY <1>3, TablesDecide DEF RecordedIsDecided, NoticesAreTrue
<1>6. ComplaintIsForGood'
    BY <1>3, TablesLeaveReported, RowsTyped DEF ComplaintIsForGood, NoticesAreTrue
<1>7. QED BY <1>1, <1>2, <1>4, <1>5, <1>6

-----------------------------------------------------------------------------
(* One notification *)

\* The job a notification matches counts as sent already, or did until SES rejected
\* the message, or is in the hands of a tick that may record the same answer.
LEMMA MatchedJob ==
    ASSUME EventsInv, NEW x \in Notices, notice[x] # Unpublished
    PROVE  LET j == notice[x].job
               n == notice[x].attempt
           IN  /\ notice[x] \in Published
               /\ j \in Jobs /\ n \in AttemptNos /\ notice[x].kind \in Kind
               /\ AddressOf[j] \in Addresses /\ CampaignOf[j] \in Campaigns
               /\ answer[j][n] = "accepted"
               /\ Resolvable(j, n) => /\ status[j] \in {"claimed", "send_uncertain"}
                                      /\ attempts[j] = n
                                      /\ attempt[j][n] \in {"dispatched", "unknown"}
                                      /\ \A m \in AttemptNos : attempt[j][m] # "accepted"
               /\ messageOf[j] = n => /\ ~Resolvable(j, n)
                                      /\ status[j] \in SentStatus \cup {"failed"}
                                      /\ attempt[j][n] = "accepted"
<1> DEFINE j == notice[x].job
           n == notice[x].attempt
<1>1. /\ notice[x] \in Published
      /\ j \in Jobs /\ n \in AttemptNos /\ n # 0 /\ notice[x].kind \in Kind
    BY KindsKnown DEF EventsInv, EventsTypeOK, Published, AttemptNos
<1>2. AddressOf[j] \in Addresses /\ CampaignOf[j] \in Campaigns /\ answer[j][n] = "accepted"
    BY <1>1, RowsTyped DEF EventsInv, NoticesAreTrue
<1> HIDE DEF j, n
<1>3. messageOf[j] = n => /\ ~Resolvable(j, n)
                          /\ status[j] \in SentStatus \cup {"failed"}
                          /\ attempt[j][n] = "accepted"
    BY <1>1 DEF EventsInv, IInv, MessageIdIsKept, Resolvable
<1>4. Resolvable(j, n) => \A m \in AttemptNos : attempt[j][m] # "accepted"
    BY <1>1 DEF EventsInv, IInv, ClaimNumberIsFree, DoubtIsOpen, Resolvable
<1>5. QED BY <1>1, <1>2, <1>3, <1>4 DEF Resolvable, j, n

\* What it does to the job rows: its own job ends up past the provider, and the
\* pending jobs of a suppressed address are dropped.
Dropped(x) == IF notice[x].kind \in {"permanentBounce", "complaint"}
                 /\ suppression[AddressOf[notice[x].job]] = "none"
              THEN PendingAt(AddressOf[notice[x].job]) ELSE {}

LEMMA AppliedRows ==
    ASSUME EventsInv, NEW x \in Notices, notice[x] # Unpublished, NEW pauses \in BOOLEAN,
           RecordApplied(x, pauses)
    PROVE  LET j == notice[x].job
               n == notice[x].attempt
           IN  /\ status[j] \in SentStatus \cup {"failed", "claimed", "send_uncertain"}
               /\ status'[j] \in SentStatus \cup {"failed"}
               /\ status'[j] = After(notice[x].kind, Before(j, n))
               /\ Dropped(x) \in SUBSET Jobs /\ j \notin Dropped(x)
               /\ \A i \in Dropped(x) : status[i] = "pending" /\ status'[i] = "suppressed"
               /\ \A i \in Jobs \ (Dropped(x) \cup {j}) : status'[i] = status[i]
               /\ status' \in [Jobs -> JobStatus]
<1> DEFINE j == notice[x].job
           n == notice[x].attempt
<1>1. /\ j \in Jobs /\ n \in AttemptNos /\ notice[x].kind \in Kind
      /\ status[j] \in SentStatus \cup {"failed", "claimed", "send_uncertain"}
      /\ Before(j, n) \in SentStatus \cup {"failed"}
    BY MatchedJob DEF RecordApplied, Matches, Before, SentStatus
<1>2. After(notice[x].kind, Before(j, n)) \in SentStatus \cup {"failed"}
    BY <1>1 DEF After, Moves, Becomes, SentStatus, Kind
<1>3. /\ Dropped(x) \in SUBSET Jobs
      /\ \A i \in Dropped(x) : status[i] = "pending"
    BY DEF Dropped, PendingAt
<1>4. j \notin Dropped(x)
    BY <1>1, <1>3 DEF SentStatus
<1>5. status' = [i \in Jobs |-> CASE i = j -> After(notice[x].kind, Before(j, n))
                                  [] i \in Dropped(x) \ {j} -> "suppressed"
                                  [] OTHER -> status[i]]
    BY Zenon DEF RecordApplied, Dropped
<1>6. status \in [Jobs -> JobStatus]
    BY DEF EventsInv, IInv, TypeOK
<1> HIDE DEF j, n
<1>7. status' \in [Jobs -> JobStatus]
    BY <1>2, <1>5, <1>6 DEF JobStatus, SentStatus
<1>8. /\ status'[j] = After(notice[x].kind, Before(j, n))
      /\ \A i \in Dropped(x) : status'[i] = "suppressed"
      /\ \A i \in Jobs \ (Dropped(x) \cup {j}) : status'[i] = status[i]
    BY <1>1, <1>3, <1>4, <1>5
<1>9. QED BY <1>1, <1>2, <1>3, <1>4, <1>7, <1>8 DEF j, n

\* What it does to the attempt and to the message id.
LEMMA AppliedAttempt ==
    ASSUME EventsInv, NEW x \in Notices, notice[x] # Unpublished, NEW pauses \in BOOLEAN,
           RecordApplied(x, pauses)
    PROVE  LET j == notice[x].job
               n == notice[x].attempt
           IN  /\ messageOf' \in [Jobs -> 0 .. MaxAttempts]
               /\ attempt' \in [Jobs -> [AttemptNos -> AttemptState]]
               /\ messageOf'[j] = n /\ attempt'[j][n] = "accepted"
               /\ \A m \in AttemptNos \ {n} : attempt'[j][m] = attempt[j][m]
               /\ \A i \in Jobs \ {j} : messageOf'[i] = messageOf[i] /\ attempt'[i] = attempt[i]
<1>1. CASE Resolvable(notice[x].job, notice[x].attempt)
    BY <1>1, MatchedJob DEF EventsInv, IInv, TypeOK, RecordApplied, AttemptState, AttemptNos
<1>2. CASE ~Resolvable(notice[x].job, notice[x].attempt)
    BY <1>2, MatchedJob
       DEF EventsInv, IInv, TypeOK, RecordApplied, AttemptState, AttemptNos, Matches
<1>3. QED BY <1>1, <1>2

\* The rest of the row-level invariant.
LEMMA AppliedKeepsRows ==
    ASSUME EventsInv, NEW x \in Notices, notice[x] # Unpublished, NEW pauses \in BOOLEAN,
           RecordApplied(x, pauses)
    PROVE  /\ ClaimNumberIsFree' /\ OpenAttemptIsOwned' /\ MessageIdIsKept' /\ DoubtIsOpen'
           /\ FinishedIsSettled' /\ InDoubtIsLatest' /\ RecordsAreTrue' /\ AttemptsInRange'
<1> DEFINE j == notice[x].job
           n == notice[x].attempt
           D == Dropped(x)
<1>1. /\ status[j] \in SentStatus \cup {"failed", "claimed", "send_uncertain"}
      /\ status'[j] \in SentStatus \cup {"failed"}
      /\ D \in SUBSET Jobs /\ j \notin D
      /\ \A i \in D : status[i] = "pending" /\ status'[i] = "suppressed"
      /\ \A i \in Jobs \ (D \cup {j}) : status'[i] = status[i]
    BY AppliedRows
<1>2. /\ messageOf'[j] = n /\ attempt'[j][n] = "accepted"
      /\ \A m \in AttemptNos \ {n} : attempt'[j][m] = attempt[j][m]
      /\ \A i \in Jobs \ {j} : messageOf'[i] = messageOf[i] /\ attempt'[i] = attempt[i]
    BY AppliedAttempt
<1>3. UNCHANGED <<attempts, answer, resent>>
    BY DEF RecordApplied
<1>4. \A c \in Campaigns : /\ campaign'[c] \in {"completed", "failed"} =>
                                  campaign[c] \in {"completed", "failed"}
    BY DEF RecordApplied
<1>5. /\ j \in Jobs /\ n \in AttemptNos
      /\ \/ /\ attempts[j] = n /\ attempt[j][n] \in {"dispatched", "unknown"}
            /\ \A m \in AttemptNos : attempt[j][m] # "accepted"
         \/ attempt[j][n] = "accepted" /\ status[j] \in SentStatus \cup {"failed"}
    BY MatchedJob DEF RecordApplied, Matches
<1>6. IInv /\ TypeOK
    BY DEF EventsInv, IInv
<1> HIDE DEF j, n, D
<1> USE <1>1, <1>2, <1>3, <1>4, <1>5, <1>6 DEF IInv, SentStatus
<1>7. ClaimNumberIsFree'
    BY DEF ClaimNumberIsFree
<1>8. OpenAttemptIsOwned'
    BY DEF OpenAttemptIsOwned
<1>9. MessageIdIsKept'
    BY AttemptCap DEF MessageIdIsKept, AttemptNos
<1>10. FinishedIsSettled'
    BY DEF FinishedIsSettled, JobsIn, JobsOf, OpenStatus
<1>11. InDoubtIsLatest'
    BY DEF InDoubtIsLatest
<1>12. RecordsAreTrue' /\ AttemptsInRange'
    BY DEF RecordsAreTrue, AttemptsInRange
<1>13. DoubtIsOpen'
    <2>1. ASSUME NEW i \in Jobs, status'[i] \in {"claimed", "send_uncertain"}
          PROVE  attempt'[i] = attempt[i] /\ status'[i] = status[i]
        BY <2>1
    <2>2. QED BY <2>1 DEF DoubtIsOpen
<1>14. QED BY <1>7, <1>8, <1>9, <1>10, <1>11, <1>12, <1>13

\* The counters: the notification's job joins `sent` when the attempt was resolved
\* by it, leaves it for `failed` on a rejection, and the dropped jobs join
\* `suppressed`.
LEMMA AppliedCounters ==
    ASSUME EventsInv, NEW x \in Notices, notice[x] # Unpublished, NEW pauses \in BOOLEAN,
           RecordApplied(x, pauses), NEW c \in Campaigns
    PROVE  LET j        == notice[x].job
               resolved == Resolvable(j, notice[x].attempt)
               before   == Before(j, notice[x].attempt)
               rejected == notice[x].kind = "reject" /\ before = "sent"
           IN  /\ tally'[c]["total"] = tally[c]["total"]
               /\ tally'[c]["suppressed"] =
                      tally[c]["suppressed"] + Cardinality(Dropped(x) \cap JobsOf(c))
               /\ tally'[c]["sent"] = tally[c]["sent"] +
                      IF c # CampaignOf[j] THEN 0
                      ELSE (IF resolved THEN 1 ELSE 0) - (IF rejected THEN 1 ELSE 0)
               /\ tally'[c]["failed"] = tally[c]["failed"] +
                      (IF c = CampaignOf[j] /\ rejected THEN 1 ELSE 0)
               /\ tally'[c]["unsubscribed"] = tally[c]["unsubscribed"]
<1> DEFINE j        == notice[x].job
           resolved == Resolvable(j, notice[x].attempt)
           before   == Before(j, notice[x].attempt)
           moved    == before # After(notice[x].kind, before)
           rejected == notice[x].kind = "reject" /\ before = "sent"
<1>1. (notice[x].kind = "reject" /\ moved) <=> rejected
    BY DEF After, Moves, Becomes
<1>2. tally' = [d \in Campaigns |-> [k \in Counters |-> tally[d][k] +
               CASE k = "sent" /\ d = CampaignOf[j] ->
                        (IF resolved THEN 1 ELSE 0) - (IF notice[x].kind = "reject" /\ moved
                                                       THEN 1 ELSE 0)
                 [] k = "failed" /\ d = CampaignOf[j] /\ notice[x].kind = "reject" /\ moved -> 1
                 [] k = "suppressed" -> Cardinality(Dropped(x) \cap JobsOf(d))
                 [] OTHER -> 0]]
    BY Zenon DEF RecordApplied, Dropped
<1>3. tally[c] \in [Counters -> Nat]
    BY DEF EventsInv, IInv, TypeOK
<1> HIDE DEF j, resolved, before, moved
<1>4. tally'[c] = [k \in Counters |-> tally[c][k] +
               CASE k = "sent" /\ c = CampaignOf[j] ->
                        (IF resolved THEN 1 ELSE 0) - (IF rejected THEN 1 ELSE 0)
                 [] k = "failed" /\ c = CampaignOf[j] /\ rejected -> 1
                 [] k = "suppressed" -> Cardinality(Dropped(x) \cap JobsOf(c))
                 [] OTHER -> 0]
    BY <1>1, <1>2
<1> HIDE DEF rejected
<1>5. /\ tally'[c]["total"] = tally[c]["total"]
      /\ tally'[c]["suppressed"] =
             tally[c]["suppressed"] + Cardinality(Dropped(x) \cap JobsOf(c))
      /\ tally'[c]["sent"] = tally[c]["sent"] +
             IF c # CampaignOf[j] THEN 0
             ELSE (IF resolved THEN 1 ELSE 0) - (IF rejected THEN 1 ELSE 0)
      /\ tally'[c]["failed"] = tally[c]["failed"] +
             (IF c = CampaignOf[j] /\ rejected THEN 1 ELSE 0)
      /\ tally'[c]["unsubscribed"] = tally[c]["unsubscribed"]
    BY <1>3, <1>4 DEF Counters
<1>6. QED BY <1>5 DEF j, resolved, before, rejected

\* Recounting a group after one row moved.
LEMMA RecountOne ==
    ASSUME NEW S, NEW c \in Campaigns, NEW j \in Jobs,
           \A i \in JobsOf(c) \ {j} : status'[i] \in S <=> status[i] \in S
    PROVE  /\ Cardinality(JobsIn(c, S)) \in Nat
           /\ Cardinality(JobsIn(c, S)') =
                  Cardinality(JobsIn(c, S))
                  + (IF CampaignOf[j] = c /\ status'[j] \in S THEN 1 ELSE 0)
                  - (IF CampaignOf[j] = c /\ status[j] \in S THEN 1 ELSE 0)
<1> DEFINE others == {i \in JobsOf(c) \ {j} : status[i] \in S}
           one(p) == IF CampaignOf[j] = c /\ p THEN {j} ELSE {}
<1>1. /\ JobsIn(c, S)  = others \cup one(status[j] \in S)
      /\ JobsIn(c, S)' = others \cup one(status'[j] \in S)
    BY DEF JobsIn, JobsOf
<1>2. /\ others \in SUBSET Jobs
      /\ \A p \in BOOLEAN : one(p) \in SUBSET Jobs /\ others \cap one(p) = {}
    BY DEF JobsOf
<1>3. \A p \in BOOLEAN : Cardinality(one(p)) = IF CampaignOf[j] = c /\ p THEN 1 ELSE 0
    BY FS_EmptySet, FS_Singleton
<1>4. (status[j] \in S) \in BOOLEAN /\ (status'[j] \in S) \in BOOLEAN
    OBVIOUS
<1> DEFINE A == one(status[j] \in S)
           B == one(status'[j] \in S)
<1>5. /\ Cardinality(A) = IF CampaignOf[j] = c /\ status[j] \in S THEN 1 ELSE 0
      /\ Cardinality(B) = IF CampaignOf[j] = c /\ status'[j] \in S THEN 1 ELSE 0
    BY FS_EmptySet, FS_Singleton
<1>6. A \in SUBSET Jobs /\ B \in SUBSET Jobs /\ others \cap A = {} /\ others \cap B = {}
    BY DEF JobsOf
<1> HIDE DEF others, one, A, B
<1>7. /\ Cardinality(others) \in Nat
      /\ Cardinality(others \cup A) = Cardinality(others) + Cardinality(A)
      /\ Cardinality(others \cup B) = Cardinality(others) + Cardinality(B)
    BY <1>2, <1>6, DisjointRowsAdd
<1>8. JobsIn(c, S) = others \cup A /\ JobsIn(c, S)' = others \cup B
    BY <1>1 DEF A, B
<1>9. QED BY <1>5, <1>7, <1>8

\* So the counters still match the rows after a notification, and stay natural.
LEMMA AppliedKeepsTally ==
    ASSUME EventsInv, NEW x \in Notices, notice[x] # Unpublished, NEW pauses \in BOOLEAN,
           RecordApplied(x, pauses)
    PROVE  TallyMatchesJobs' /\ tally' \in [Campaigns -> [Counters -> Nat]]
<1> DEFINE j        == notice[x].job
           n        == notice[x].attempt
           resolved == Resolvable(j, n)
           before   == Before(j, n)
           rejected == notice[x].kind = "reject" /\ before = "sent"
           D        == Dropped(x)
<1>1. /\ j \in Jobs /\ notice[x].kind \in Kind
      /\ resolved => status[j] \in {"claimed", "send_uncertain"}
      /\ ~resolved => status[j] \in SentStatus \cup {"failed"}
    BY MatchedJob DEF RecordApplied, Matches
<1>2. /\ status'[j] = After(notice[x].kind, before)
      /\ D \in SUBSET Jobs /\ j \notin D
      /\ \A i \in D : status[i] = "pending" /\ status'[i] = "suppressed"
      /\ \A i \in Jobs \ (D \cup {j}) : status'[i] = status[i]
    BY AppliedRows
<1>3. /\ status'[j] # "absent" /\ status[j] # "absent"
      /\ status'[j] \in SentStatus <=> ~rejected /\ (resolved \/ status[j] \in SentStatus)
      /\ status'[j] = "failed" <=> rejected \/ status[j] = "failed"
      /\ rejected /\ ~resolved => status[j] = "sent"
      /\ status'[j] \notin {"suppressed", "skipped"}
      /\ status[j] \notin {"suppressed", "skipped"}
    BY <1>1, <1>2 DEF Before, After, Moves, Becomes, Kind, SentStatus
<1>4. ASSUME NEW c \in Campaigns
      PROVE  /\ tally'[c]["total"] = tally[c]["total"]
             /\ tally'[c]["suppressed"] = tally[c]["suppressed"] + Cardinality(D \cap JobsOf(c))
             /\ tally'[c]["sent"] = tally[c]["sent"] +
                    IF c # CampaignOf[j] THEN 0
                    ELSE (IF resolved THEN 1 ELSE 0) - (IF rejected THEN 1 ELSE 0)
             /\ tally'[c]["failed"] = tally[c]["failed"] +
                    (IF c = CampaignOf[j] /\ rejected THEN 1 ELSE 0)
             /\ tally'[c]["unsubscribed"] = tally[c]["unsubscribed"]
    BY AppliedCounters
<1>5. tally' = [c \in Campaigns |-> [k \in Counters |-> tally'[c][k]]]
    BY DEF RecordApplied
<1> HIDE DEF j, n, resolved, before, rejected, D
<1>6. ASSUME NEW c \in Campaigns
      PROVE  /\ tally[c]["total"]  = Cardinality(JobsOf(c) \ JobsIn(c, {"absent"}))
             /\ tally[c]["sent"]   = Cardinality(JobsIn(c, SentStatus))
             /\ tally[c]["failed"] = Cardinality(JobsIn(c, {"failed"}))
             /\ tally[c]["suppressed"] = Cardinality(JobsIn(c, {"suppressed", "skipped"}))
             /\ tally[c]["unsubscribed"] \in Nat /\ tally[c]["total"] \in Nat
             /\ tally[c]["suppressed"] \in Nat
    <2>1. TallyMatchesJobs /\ tally[c] \in [Counters -> Nat]
        BY DEF EventsInv, IInv, TypeOK
    <2>2. \A k \in {"unsubscribed", "total", "suppressed"} : tally[c][k] \in Nat
        BY <2>1 DEF Counters
    <2>3. QED BY <2>1, <2>2 DEF TallyMatchesJobs
<1>7. ASSUME NEW c \in Campaigns
      PROVE  tally'[c]["total"] = Cardinality(JobsOf(c) \ JobsIn(c, {"absent"})')
    <2>1. JobsIn(c, {"absent"})' = JobsIn(c, {"absent"})
        BY <1>2, <1>3 DEF JobsIn, JobsOf
    <2>2. QED BY <1>4, <1>6, <2>1
<1>8. ASSUME NEW c \in Campaigns
      PROVE  /\ tally'[c]["sent"] = Cardinality(JobsIn(c, SentStatus)')
             /\ tally'[c]["sent"] \in Nat
    <2>1. \A i \in JobsOf(c) \ {j} : status'[i] \in SentStatus <=> status[i] \in SentStatus
        BY <1>2 DEF JobsOf, SentStatus
    <2>2. /\ Cardinality(JobsIn(c, SentStatus)) \in Nat
          /\ Cardinality(JobsIn(c, SentStatus)') =
                 Cardinality(JobsIn(c, SentStatus))
                 + (IF CampaignOf[j] = c /\ status'[j] \in SentStatus THEN 1 ELSE 0)
                 - (IF CampaignOf[j] = c /\ status[j] \in SentStatus THEN 1 ELSE 0)
        BY <1>1, <2>1, RecountOne
    <2>3. tally'[c]["sent"] = Cardinality(JobsIn(c, SentStatus)')
        <3>1. resolved => status[j] \notin SentStatus
            BY <1>1 DEF SentStatus
        <3>2. "sent" \in SentStatus
            BY DEF SentStatus
        <3> DEFINE in  == IF CampaignOf[j] = c /\ status'[j] \in SentStatus THEN 1 ELSE 0
                   out == IF CampaignOf[j] = c /\ status[j] \in SentStatus THEN 1 ELSE 0
                   d   == IF c # CampaignOf[j] THEN 0
                          ELSE (IF resolved THEN 1 ELSE 0) - (IF rejected THEN 1 ELSE 0)
        <3>3. d = in - out /\ in \in Int /\ out \in Int
            BY <1>3, <3>1, <3>2
        <3>4. tally'[c]["sent"] = tally[c]["sent"] + d
            BY <1>4
        <3>5. /\ Cardinality(JobsIn(c, SentStatus)) \in Int
              /\ Cardinality(JobsIn(c, SentStatus)') = Cardinality(JobsIn(c, SentStatus)) + in - out
            BY <2>2
        <3>6. tally[c]["sent"] = Cardinality(JobsIn(c, SentStatus))
            BY <1>6
        <3> HIDE DEF in, out, d
        <3>7. QED BY <3>3, <3>4, <3>5, <3>6
    <2>4. Cardinality(JobsIn(c, SentStatus)') \in Nat
        <3>1. JobsIn(c, SentStatus)' \in SUBSET Jobs
            BY DEF JobsIn, JobsOf
        <3>2. QED BY <3>1, JobsFinite, FS_Subset, FS_CardinalityType
    <2>5. QED BY <2>3, <2>4
<1>9. ASSUME NEW c \in Campaigns
      PROVE  /\ tally'[c]["failed"] = Cardinality(JobsIn(c, {"failed"})')
             /\ tally'[c]["failed"] \in Nat
    <2>1. \A i \in JobsOf(c) \ {j} : status'[i] \in {"failed"} <=> status[i] \in {"failed"}
        BY <1>2 DEF JobsOf
    <2>2. /\ Cardinality(JobsIn(c, {"failed"})) \in Nat
          /\ Cardinality(JobsIn(c, {"failed"})') =
                 Cardinality(JobsIn(c, {"failed"}))
                 + (IF CampaignOf[j] = c /\ status'[j] \in {"failed"} THEN 1 ELSE 0)
                 - (IF CampaignOf[j] = c /\ status[j] \in {"failed"} THEN 1 ELSE 0)
        BY <1>1, <2>1, RecountOne
    <2>3. rejected => status[j] # "failed"
        BY <1>1, <1>3
    <2> DEFINE in  == IF CampaignOf[j] = c /\ status'[j] \in {"failed"} THEN 1 ELSE 0
               out == IF CampaignOf[j] = c /\ status[j] \in {"failed"} THEN 1 ELSE 0
               d   == IF c = CampaignOf[j] /\ rejected THEN 1 ELSE 0
    <2>4. d = in - out /\ in \in Int /\ out \in Int /\ d \in Nat
        BY <1>3, <2>3
    <2>5. /\ tally'[c]["failed"] = tally[c]["failed"] + d
          /\ tally[c]["failed"]  = Cardinality(JobsIn(c, {"failed"}))
          /\ Cardinality(JobsIn(c, {"failed"})) \in Nat
          /\ Cardinality(JobsIn(c, {"failed"})') = Cardinality(JobsIn(c, {"failed"})) + in - out
        BY <1>4, <1>6, <2>2
    <2> HIDE DEF in, out, d
    <2>6. QED BY <2>4, <2>5
<1>10. ASSUME NEW c \in Campaigns
       PROVE  /\ tally'[c]["suppressed"] = Cardinality(JobsIn(c, {"suppressed", "skipped"})')
              /\ tally'[c]["suppressed"] \in Nat
    <2> DEFINE A == JobsIn(c, {"suppressed", "skipped"})
               B == D \cap JobsOf(c)
    <2>1. JobsIn(c, {"suppressed", "skipped"})' = A \cup B
        BY <1>2, <1>3 DEF JobsIn, JobsOf
    <2>2. A \in SUBSET Jobs /\ B \in SUBSET Jobs /\ A \cap B = {}
        BY <1>2 DEF JobsIn, JobsOf
    <2>3. Cardinality(A \cup B) = Cardinality(A) + Cardinality(B) /\ Cardinality(B) \in Nat
        BY <2>2, DisjointRowsAdd
    <2>4. /\ tally'[c]["suppressed"] = tally[c]["suppressed"] + Cardinality(B)
          /\ tally[c]["suppressed"] = Cardinality(A) /\ tally[c]["suppressed"] \in Nat
        BY <1>4, <1>6
    <2> HIDE DEF A, B
    <2>5. Cardinality(JobsIn(c, {"suppressed", "skipped"})') = Cardinality(A) + Cardinality(B)
        BY <2>1, <2>3
    <2>6. Cardinality(A) \in Nat /\ Cardinality(B) \in Nat
        BY <2>3, <2>4
    <2>7. tally'[c]["suppressed"] = Cardinality(A) + Cardinality(B)
        BY <2>4
    <2>8. QED BY <2>5, <2>6, <2>7
<1>11. TallyMatchesJobs'
    BY <1>7, <1>8, <1>9, <1>10 DEF TallyMatchesJobs, JobsOf
<1>12. ASSUME NEW c \in Campaigns, NEW k \in Counters PROVE tally'[c][k] \in Nat
    <2>1. /\ tally'[c]["total"] \in Nat /\ tally'[c]["unsubscribed"] \in Nat
          /\ tally'[c]["sent"] \in Nat /\ tally'[c]["failed"] \in Nat
          /\ tally'[c]["suppressed"] \in Nat
        BY <1>4, <1>6, <1>8, <1>9, <1>10
    <2>2. QED BY <2>1 DEF Counters
<1>13. QED BY <1>5, <1>11, <1>12

-----------------------------------------------------------------------------
(* EventsInv is inductive *)

LEMMA AppliedKeepsInv ==
    ASSUME EventsInv, NEW x \in Notices, notice[x] # Unpublished, NEW pauses \in BOOLEAN,
           RecordApplied(x, pauses)
    PROVE  EventsInv'
<1> DEFINE j == notice[x].job
           n == notice[x].attempt
<1>1. /\ j \in Jobs /\ n \in AttemptNos /\ AddressOf[j] \in Addresses
      /\ CampaignOf[j] \in Campaigns
    BY MatchedJob
<1>2. TallyMatchesJobs' /\ tally' \in [Campaigns -> [Counters -> Nat]]
    BY AppliedKeepsTally
<1>3. TypeOK'
    <2>1. TypeOK
        BY DEF EventsInv, IInv
    <2>2. status' \in [Jobs -> JobStatus]
        BY AppliedRows
    <2>3. /\ messageOf' \in [Jobs -> 0 .. MaxAttempts]
          /\ attempt' \in [Jobs -> [AttemptNos -> AttemptState]]
        BY AppliedAttempt
    <2>4. campaign' \in [Campaigns -> CampaignStatus]
        BY <2>1 DEF RecordApplied, TypeOK, CampaignStatus
    <2>5. suppression' \in [Addresses -> {"none", "reversible", "irreversible"}]
        BY <1>1, <2>1 DEF RecordApplied, TypeOK, Strengthened
    <2>6. UNCHANGED <<attempts, answer, resent>>
        BY DEF RecordApplied
    <2>7. QED BY <1>2, <2>1, <2>2, <2>3, <2>4, <2>5, <2>6 DEF TypeOK
<1>4. IInv'
    BY <1>3, AppliedKeepsRows DEF IInv
<1>5. EventsTypeOK'
    <2>1. EventsTypeOK
        BY DEF EventsInv
    <2>2. notice' \in [Notices -> Published \cup {Unpublished}] /\ stopped' \subseteq Addresses
        BY <2>1 DEF RecordApplied, EventsTypeOK
    <2>3. outcome' \in [Notices -> {"none", "applied", "unmatched"}]
        BY <2>1 DEF RecordApplied, EventsTypeOK
    <2>4. eventTally' \in [Campaigns -> [EventCounters -> Nat]]
        BY <1>1, <2>1 DEF RecordApplied, EventsTypeOK
    <2>5. QED BY <1>3, <2>2, <2>3, <2>4 DEF EventsTypeOK
<1>6. NoticesAreTrue'
    BY DEF EventsInv, EventsTypeOK, RecordApplied, NoticesAreTrue
<1>7. RecordedIsDecided'
    <2>1. status'[j] \in SentStatus \cup {"failed"}
        BY AppliedRows
    <2>2. \A i \in Jobs \ {j} : status'[i] \in {"claimed", "send_uncertain"} =>
              status'[i] = status[i]
        BY AppliedRows
    <2>3. /\ UNCHANGED <<attempts, notice>>
          /\ \A y \in Notices \ {x} : outcome'[y] = outcome[y]
        BY DEF RecordApplied, EventsInv, EventsTypeOK
    <2>4. ASSUME NEW y \in Notices, outcome[y] # "none"
          PROVE  notice[y].job \in Jobs
        BY <2>4 DEF EventsInv, NoticesAreTrue, EventsTypeOK, Published
    <2>5. RecordedIsDecided
        BY DEF EventsInv
    <2> HIDE DEF n
    <2>6. QED BY <2>1, <2>2, <2>3, <2>4, <2>5 DEF RecordedIsDecided, SentStatus
<1>8. ComplaintIsForGood'
    <2>1. /\ UNCHANGED notice
          /\ \A y \in Notices \ {x} : outcome'[y] = outcome[y]
          /\ \A a \in Addresses : suppression[a] = "irreversible" =>
                 suppression'[a] = "irreversible"
          /\ notice[x].kind \in {"permanentBounce", "complaint"} =>
                 suppression'[AddressOf[j]] = "irreversible"
        BY <1>1 DEF RecordApplied, EventsInv, EventsTypeOK, IInv, TypeOK, Strengthened
    <2>2. ASSUME NEW y \in Notices, outcome[y] # "none"
          PROVE  AddressOf[notice[y].job] \in Addresses
        BY <2>2, RowsTyped DEF EventsInv, NoticesAreTrue, EventsTypeOK, Published
    <2>3. QED BY <2>1, <2>2 DEF EventsInv, ComplaintIsForGood
<1>9. QED BY <1>2, <1>4, <1>5, <1>6, <1>7, <1>8 DEF EventsInv

\* A notification that matches no job changes no job: of an accepted attempt that
\* is the latest of its job this can be true only when the job is decided.
LEMMA UnmatchedKeepsInv ==
    ASSUME EventsInv, NEW x \in Notices, notice[x] # Unpublished, RecordUnmatched(x)
    PROVE  EventsInv'
<1> DEFINE j == notice[x].job
           n == notice[x].attempt
<1>1. /\ UNCHANGED <<vars, notice, eventTally, stopped>>
      /\ outcome' \in [Notices -> {"none", "applied", "unmatched"}]
      /\ \A y \in Notices \ {x} : outcome'[y] = outcome[y]
      /\ outcome'[x] = "applied" => notice[x].kind = "send"
      /\ ~Resolvable(j, n)
    BY DEF RecordUnmatched, Matches, EventsInv, EventsTypeOK
<1>2. IInv' /\ TallyMatchesJobs'
    <2>1. [Next]_vars
        BY <1>1
    <2>2. QED BY <2>1, StepInv, TallyStep DEF EventsInv
<1>3. EventsTypeOK'
    BY <1>1, <1>2 DEF EventsInv, EventsTypeOK, IInv
<1>4. NoticesAreTrue'
    BY <1>1 DEF EventsInv, NoticesAreTrue, vars
<1>5. RecordedIsDecided'
    <2>1. n = attempts[j] => status[j] \notin {"claimed", "send_uncertain"}
        <3>1. j \in Jobs /\ n \in AttemptNos /\ answer[j][n] = "accepted"
            BY MatchedJob
        <3> HIDE DEF j, n
        <3>2. SUFFICES ASSUME n = attempts[j], status[j] \in {"claimed", "send_uncertain"}
                       PROVE  Resolvable(j, n)
            BY <1>1
        <3>3. messageOf[j] = 0
            BY <3>1, <3>2 DEF EventsInv, IInv, MessageIdIsKept, SentStatus
        <3>4. attempt[j][n] # "none"
            BY <3>1 DEF EventsInv, IInv, RecordsAreTrue
        <3>5. attempt[j][n] \in {"dispatched", "unknown"}
            BY <3>1, <3>2, <3>4 DEF EventsInv, IInv, ClaimNumberIsFree, DoubtIsOpen
        <3>6. QED BY <3>2, <3>3, <3>5 DEF Resolvable
    <2>2. QED BY <1>1, <2>1 DEF EventsInv, RecordedIsDecided, vars, jobVars
<1>6. ComplaintIsForGood'
    BY <1>1 DEF EventsInv, ComplaintIsForGood, vars
<1>7. QED BY <1>2, <1>3, <1>4, <1>5, <1>6 DEF EventsInv

\* SES publishes only what is true.
LEMMA PublishKeepsInv ==
    ASSUME EventsInv, NEW x \in Notices, NEW kind \in Kinds, NEW j \in Jobs, NEW n \in AttemptNos,
           Publish(x, kind, j, n)
    PROVE  EventsInv'
<1>1. /\ UNCHANGED <<vars, outcome, eventTally, stopped>>
      /\ notice' \in [Notices -> Published \cup {Unpublished}]
      /\ \A y \in Notices \ {x} : notice'[y] = notice[y]
      /\ notice'[x].job = j /\ notice'[x].attempt = n
      /\ answer[j][n] = "accepted"
      /\ outcome[x] = "none"
    BY DEF Publish, EventsInv, EventsTypeOK, NoticesAreTrue, Published
<1>2. IInv' /\ TallyMatchesJobs'
    <2>1. [Next]_vars
        BY <1>1
    <2>2. QED BY <2>1, StepInv, TallyStep DEF EventsInv
<1>3. EventsTypeOK'
    BY <1>1, <1>2 DEF EventsInv, EventsTypeOK, IInv
<1>4. NoticesAreTrue'
    BY <1>1 DEF EventsInv, NoticesAreTrue, vars
<1>5. RecordedIsDecided'
    BY <1>1 DEF EventsInv, RecordedIsDecided, vars, jobVars
<1>6. ComplaintIsForGood'
    BY <1>1 DEF EventsInv, ComplaintIsForGood, vars
<1>7. QED BY <1>2, <1>3, <1>4, <1>5, <1>6 DEF EventsInv

LEMMA EventsInitInv == EventsInit => EventsInv
<1> SUFFICES ASSUME EventsInit PROVE EventsInv
    OBVIOUS
<1>1. IInv /\ TallyMatchesJobs
    BY InitInv, InitTally DEF EventsInit
<1>2. EventsTypeOK
    BY <1>1 DEF EventsInit, EventsTypeOK, IInv
<1>3. NoticesAreTrue /\ RecordedIsDecided /\ ComplaintIsForGood
    BY DEF EventsInit, NoticesAreTrue, RecordedIsDecided, ComplaintIsForGood
<1>4. QED BY <1>1, <1>2, <1>3 DEF EventsInv

LEMMA EventsStepInv == EventsInv /\ [EventsNext]_allVars => EventsInv'
<1> SUFFICES ASSUME EventsInv, [EventsNext]_allVars PROVE EventsInv'
    OBVIOUS
<1>1. stopped \subseteq Addresses
    BY DEF EventsInv, EventsTypeOK
<1>2. CASE TablesStep \/ UNCHANGED allVars
    <2>1. [Next]_vars /\ UNCHANGED eventVars
        BY <1>2 DEF TablesStep, Next, allVars
    <2>2. QED BY <1>1, <2>1, TablesKeepInv DEF eventVars
<1>3. ASSUME NEW j \in Jobs, Unsubscribes(j) PROVE EventsInv'
    <2>1. [Next]_vars /\ UNCHANGED <<notice, outcome, eventTally>>
        BY <1>3 DEF Unsubscribes, Next, RecipientStep
    <2>2. stopped' \subseteq Addresses
        BY <1>1, <1>3, RowsTyped DEF Unsubscribes
    <2>3. QED BY <2>1, <2>2, TablesKeepInv
<1>4. ASSUME NEW x \in Notices, Deliver(x) PROVE EventsInv'
    BY <1>4, AppliedKeepsInv, UnmatchedKeepsInv DEF Deliver
<1>5. QED BY <1>2, <1>3, <1>4, PublishKeepsInv DEF EventsNext

-----------------------------------------------------------------------------
(* The theorems *)

\* Every reachable state of the tables and the notifications satisfies EventsInv.
THEOREM EventsInvariantHolds == EventsSpec => []EventsInv
<1>1. QED BY EventsInitInv, EventsStepInv, PTL DEF EventsSpec

\* ADR-0006: a recorded notification ends the doubt about its attempt, whether it
\* came before or after the reconciler gave the attempt up.
THEOREM RecordedNoticeEndsDoubt == EventsSpec => []UncertainIsUnconfirmed
<1>1. EventsInv => UncertainIsUnconfirmed
    BY DEF EventsInv, RecordedIsDecided, UncertainIsUnconfirmed
<1>2. QED BY <1>1, EventsInvariantHolds, PTL

\* 0016: a complaint or a permanent bounce suppresses for good.
THEOREM ComplaintsAreForGood == EventsSpec => []ComplaintIsForGood
<1>1. EventsInv => ComplaintIsForGood BY DEF EventsInv
<1>2. QED BY <1>1, EventsInvariantHolds, PTL

\* The counters of the campaign still equal a recount of the rows when
\* notifications resolve attempts and SES rejects what it had accepted.
THEOREM CountersMatchRowsAfterEvents == EventsSpec => []TallyMatchesJobs
<1>1. EventsInv => TallyMatchesJobs BY DEF EventsInv
<1>2. QED BY <1>1, EventsInvariantHolds, PTL

\* ADR-0001 4.1 and G4 with notifications: still at most one accepted call per job
\* beyond those written off, and no retry of an attempt that may have arrived.
THEOREM EventsSendAtMostOnce == EventsSpec => [](AtMostOneSend /\ RetryOnlyAfterRefusal)
<1>1. EventsInv => AtMostOneSend
    BY OneSend DEF EventsInv
<1>2. EventsInv => RetryOnlyAfterRefusal
    BY DEF EventsInv, IInv, InDoubtIsLatest, RetryOnlyAfterRefusal, TypeOK, AttemptState
<1>3. QED BY <1>1, <1>2, EventsInvariantHolds, PTL

\* The tables with the notifications implement the same promise.
THEOREM EventsImplementPromise == EventsSpec => ImplementsAtMostOnceSend
<1>1. EventsInit => Promise!Init
    BY DEF EventsInit, Init, Promise!Init
<1>2. EventsInv /\ [EventsNext]_allVars => [Promise!Next]_<<MailedBar, resent>>
    <2> SUFFICES ASSUME EventsInv, [EventsNext]_allVars
                 PROVE  Promise!Next \/ UNCHANGED <<MailedBar, resent>>
        OBVIOUS
    <2>1. CASE [Next]_vars
        BY <2>1, PromiseStep DEF EventsInv
    <2>2. CASE UNCHANGED <<answer, resent>>
        BY <2>2 DEF MailedBar
    <2>3. QED BY <2>1, <2>2
          DEF EventsNext, allVars, TablesStep, Next, Unsubscribes, RecipientStep, Publish, Deliver,
              RecordApplied, RecordUnmatched, vars
<1>3. QED
    BY <1>1, <1>2, EventsInvariantHolds, PTL
    DEF EventsSpec, ImplementsAtMostOnceSend, Promise!Spec, MailedBar

-----------------------------------------------------------------------------
(* The counters of what became of the messages *)

\* A notification that counts a state takes the job to it for the first time, and
\* one that counts nothing leaves the reported states alone.
LEMMA AppliedReports ==
    ASSUME EventsInv, NEW x \in Notices, notice[x] # Unpublished, NEW pauses \in BOOLEAN,
           RecordApplied(x, pauses)
    PROVE  LET j     == notice[x].job
               moved == Before(j, notice[x].attempt) # status'[j]
           IN  /\ moved => CASE status'[j] = "delivered"  -> status[j] \notin Reported
                             [] status'[j] = "bounced"    -> status[j] \notin {"bounced", "complained"}
                             [] status'[j] = "complained" -> status[j] # "complained"
                             [] OTHER                     -> status[j] \notin Reported
               /\ ~moved => (status[j] \in Reported \/ status'[j] \in Reported =>
                                 status'[j] = status[j])
               /\ \A i \in Jobs \ {j} : status[i] \in Reported \/ status'[i] \in Reported =>
                      status'[i] = status[i]
               /\ \A c \in Campaigns, k \in EventCounters :
                      eventTally'[c][k] = eventTally[c][k] +
                          (IF c = CampaignOf[j] /\ moved /\ status'[j] = k THEN 1 ELSE 0)
<1> DEFINE j     == notice[x].job
           n     == notice[x].attempt
           moved == Before(j, n) # status'[j]
<1>1. /\ j \in Jobs /\ CampaignOf[j] \in Campaigns /\ notice[x].kind \in Kind
      /\ Resolvable(j, n) => status[j] \in {"claimed", "send_uncertain"}
    BY MatchedJob
<1>2. status'[j] = After(notice[x].kind, Before(j, n))
    BY AppliedRows
<1>3. \A i \in Jobs \ {j} : status[i] \in Reported \/ status'[i] \in Reported =>
          status'[i] = status[i]
    BY AppliedRows DEF Reported
<1>4. ASSUME NEW c \in Campaigns, NEW k \in EventCounters
      PROVE  eventTally'[c][k] = eventTally[c][k] +
                 (IF c = CampaignOf[j] /\ moved /\ status'[j] = k THEN 1 ELSE 0)
    <2>1. eventTally \in [Campaigns -> [EventCounters -> Nat]]
        BY DEF EventsInv, EventsTypeOK
    <2>2. eventTally' = [eventTally EXCEPT ![CampaignOf[j]] = [e \in EventCounters |->
              IF Before(j, n) # After(notice[x].kind, Before(j, n))
                 /\ e = After(notice[x].kind, Before(j, n)) THEN @[e] + 1 ELSE @[e]]]
        BY Zenon DEF RecordApplied
    <2> HIDE DEF j, n
    <2>3. QED BY <1>1, <1>2, <2>1, <2>2
<1> HIDE DEF j, n
<1>5. /\ moved => CASE status'[j] = "delivered"  -> status[j] \notin Reported
                    [] status'[j] = "bounced"    -> status[j] \notin {"bounced", "complained"}
                    [] status'[j] = "complained" -> status[j] # "complained"
                    [] OTHER                     -> status[j] \notin Reported
      /\ ~moved => (status[j] \in Reported \/ status'[j] \in Reported =>
                        status'[j] = status[j])
    BY <1>1, <1>2 DEF Reported, Before, After, Moves, Becomes, Kind
<1>6. QED BY <1>3, <1>4, <1>5 DEF j, n

LEMMA AppliedKeepsEventTallies ==
    ASSUME EventsInv, EventTalliesMatchJobs, NEW x \in Notices, notice[x] # Unpublished,
           NEW pauses \in BOOLEAN, RecordApplied(x, pauses)
    PROVE  EventTalliesMatchJobs'
<1> DEFINE j     == notice[x].job
           moved == Before(j, notice[x].attempt) # status'[j]
<1>1. j \in Jobs
    BY MatchedJob
<1>2. /\ moved => CASE status'[j] = "delivered"  -> status[j] \notin Reported
                    [] status'[j] = "bounced"    -> status[j] \notin {"bounced", "complained"}
                    [] status'[j] = "complained" -> status[j] # "complained"
                    [] OTHER                     -> status[j] \notin Reported
      /\ ~moved => (status[j] \in Reported \/ status'[j] \in Reported => status'[j] = status[j])
      /\ \A i \in Jobs \ {j} : status[i] \in Reported \/ status'[i] \in Reported =>
             status'[i] = status[i]
      /\ \A c \in Campaigns, k \in EventCounters :
             eventTally'[c][k] = eventTally[c][k] +
                 (IF c = CampaignOf[j] /\ moved /\ status'[j] = k THEN 1 ELSE 0)
    BY AppliedReports
<1> HIDE DEF j, moved
<1> SUFFICES ASSUME NEW c \in Campaigns
             PROVE  LET C == Cardinality(JobsIn(c, {"complained"})')
                        B == Cardinality(JobsIn(c, {"bounced"})')
                        D == Cardinality(JobsIn(c, {"delivered"})')
                    IN  /\ eventTally'[c]["complained"] = C
                        /\ eventTally'[c]["bounced"] \in B .. B + C
                        /\ eventTally'[c]["delivered"] \in D .. D + B + C
    BY DEF EventTalliesMatchJobs
<1>3. ASSUME NEW s \in Reported
      PROVE  /\ Cardinality(JobsIn(c, {s})) \in Nat
             /\ Cardinality(JobsIn(c, {s})') = Cardinality(JobsIn(c, {s}))
                    + (IF CampaignOf[j] = c /\ status'[j] = s THEN 1 ELSE 0)
                    - (IF CampaignOf[j] = c /\ status[j] = s THEN 1 ELSE 0)
    <2>1. \A i \in JobsOf(c) \ {j} : status'[i] \in {s} <=> status[i] \in {s}
        BY <1>2 DEF JobsOf
    <2>2. /\ Cardinality(JobsIn(c, {s})) \in Nat
          /\ Cardinality(JobsIn(c, {s})') = Cardinality(JobsIn(c, {s}))
                 + (IF CampaignOf[j] = c /\ status'[j] \in {s} THEN 1 ELSE 0)
                 - (IF CampaignOf[j] = c /\ status[j] \in {s} THEN 1 ELSE 0)
        BY <1>1, <2>1, RecountOne
    <2>3. QED BY <2>2
<1> DEFINE C0 == Cardinality(JobsIn(c, {"complained"}))
           B0 == Cardinality(JobsIn(c, {"bounced"}))
           D0 == Cardinality(JobsIn(c, {"delivered"}))
           C1 == Cardinality(JobsIn(c, {"complained"})')
           B1 == Cardinality(JobsIn(c, {"bounced"})')
           D1 == Cardinality(JobsIn(c, {"delivered"})')
           inC  == IF CampaignOf[j] = c /\ status'[j] = "complained" THEN 1 ELSE 0
           inB  == IF CampaignOf[j] = c /\ status'[j] = "bounced" THEN 1 ELSE 0
           inD  == IF CampaignOf[j] = c /\ status'[j] = "delivered" THEN 1 ELSE 0
           outC == IF CampaignOf[j] = c /\ status[j] = "complained" THEN 1 ELSE 0
           outB == IF CampaignOf[j] = c /\ status[j] = "bounced" THEN 1 ELSE 0
           outD == IF CampaignOf[j] = c /\ status[j] = "delivered" THEN 1 ELSE 0
           upC  == IF c = CampaignOf[j] /\ moved /\ status'[j] = "complained" THEN 1 ELSE 0
           upB  == IF c = CampaignOf[j] /\ moved /\ status'[j] = "bounced" THEN 1 ELSE 0
           upD  == IF c = CampaignOf[j] /\ moved /\ status'[j] = "delivered" THEN 1 ELSE 0
<1>4. /\ C0 \in Nat /\ B0 \in Nat /\ D0 \in Nat
      /\ C1 = C0 + inC - outC /\ B1 = B0 + inB - outB /\ D1 = D0 + inD - outD
    BY <1>3 DEF Reported
<1>5. /\ eventTally'[c]["complained"] = eventTally[c]["complained"] + upC
      /\ eventTally'[c]["bounced"] = eventTally[c]["bounced"] + upB
      /\ eventTally'[c]["delivered"] = eventTally[c]["delivered"] + upD
    BY <1>2 DEF EventCounters
<1>6. /\ eventTally[c]["complained"] = C0
      /\ eventTally[c]["bounced"] \in B0 .. B0 + C0
      /\ eventTally[c]["delivered"] \in D0 .. D0 + B0 + C0
    BY DEF EventTalliesMatchJobs
\* A job leaves a state only for one that is counted with it.
<1>7. /\ {inC, inB, inD, outC, outB, outD, upC, upB, upD} \subseteq 0 .. 1
      /\ upC = inC - outC
      /\ inB - outB <= upB /\ upB <= (inB - outB) + (inC - outC)
      /\ inD - outD <= upD /\ upD <= (inD - outD) + (inB - outB) + (inC - outC)
    BY <1>2 DEF Reported
<1> HIDE DEF C0, B0, D0, C1, B1, D1, inC, inB, inD, outC, outB, outD, upC, upB, upD
<1>8. /\ eventTally'[c]["complained"] = C1
      /\ eventTally'[c]["bounced"] \in B1 .. B1 + C1
      /\ eventTally'[c]["delivered"] \in D1 .. D1 + B1 + C1
    BY <1>4, <1>5, <1>6, <1>7
<1>9. QED BY <1>8 DEF C1, B1, D1

\* Steps that leave the reported states and the counters alone keep them matching.
LEMMA SameReportsKeepEventTallies ==
    ASSUME EventTalliesMatchJobs, UNCHANGED eventTally,
           \A j \in Jobs : status[j] \in Reported \/ status'[j] \in Reported =>
               status'[j] = status[j]
    PROVE  EventTalliesMatchJobs'
<1>1. \A c \in Campaigns, s \in Reported : JobsIn(c, {s})' = JobsIn(c, {s})
    BY DEF JobsIn, JobsOf
<1>2. \A c \in Campaigns : /\ JobsIn(c, {"complained"})' = JobsIn(c, {"complained"})
                           /\ JobsIn(c, {"bounced"})' = JobsIn(c, {"bounced"})
                           /\ JobsIn(c, {"delivered"})' = JobsIn(c, {"delivered"})
    BY <1>1 DEF Reported
<1>3. QED BY <1>2 DEF EventTalliesMatchJobs

\* 0017 E7: for every number of notifications, in every order and repetition, each
\* job counts once per state it was reported in.
THEOREM EventsCountOnce == EventsSpec => []EventTalliesMatchJobs
<1>1. EventsInit => EventTalliesMatchJobs
    <2> SUFFICES ASSUME EventsInit PROVE EventTalliesMatchJobs
        OBVIOUS
    <2>1. \A c \in Campaigns : /\ JobsIn(c, {"complained"}) = {} /\ JobsIn(c, {"bounced"}) = {}
                               /\ JobsIn(c, {"delivered"}) = {}
        BY DEF EventsInit, Init, JobsIn, JobsOf
    <2>2. Cardinality({}) = 0
        BY FS_EmptySet
    <2>3. QED BY <2>1, <2>2 DEF EventsInit, EventTalliesMatchJobs, EventCounters
<1>2. EventsInv /\ EventTalliesMatchJobs /\ [EventsNext]_allVars => EventTalliesMatchJobs'
    <2> SUFFICES ASSUME EventsInv, EventTalliesMatchJobs, [EventsNext]_allVars
                 PROVE  EventTalliesMatchJobs'
        OBVIOUS
    <2>1. ASSUME NEW x \in Notices, NEW pauses \in BOOLEAN, notice[x] # Unpublished,
                 RecordApplied(x, pauses)
          PROVE  EventTalliesMatchJobs'
        BY <2>1, AppliedKeepsEventTallies
    <2>2. CASE [Next]_vars /\ UNCHANGED eventTally
        BY <2>2, TablesLeaveReported, SameReportsKeepEventTallies DEF EventsInv
    <2>3. QED BY <2>1, <2>2
          DEF EventsNext, allVars, eventVars, TablesStep, Next, Unsubscribes, RecipientStep,
              Publish, Deliver, RecordUnmatched
<1>3. QED BY <1>1, <1>2, EventsInvariantHolds, PTL DEF EventsSpec
=============================================================================
