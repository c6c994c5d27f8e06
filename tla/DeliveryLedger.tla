--------------------------- MODULE DeliveryLedger ---------------------------
(***************************************************************************)
(* The delivery tables of the sending engine: email_jobs, send_attempts,   *)
(* the counters and status of launched campaigns, and the suppression      *)
(* list, together with every sending_* function that writes them           *)
(* (supabase/migrations/0010, 0012, 0013; trigger text of 0017).           *)
(*                                                                         *)
(* Each SQL function is one transaction and so one action.  The callers    *)
(* are left out on purpose: any function may be called at any moment, by   *)
(* anyone, with any row.  What holds here holds whatever the worker does;  *)
(* SendEngine adds the worker and is shown to implement this module.       *)
(*                                                                         *)
(* Abstractions.  Clock tests (next_attempt_at, claim timeout, grace       *)
(* window) are nondeterministic choices of the rows they select.  A        *)
(* provider message id is the number of the attempt that earned it.        *)
(* Campaigns start `queued`, the state a launch leaves them in.            *)
(***************************************************************************)
EXTENDS Integers, FiniteSets

CONSTANTS
    Jobs,         \* the rows a materialisation may create, one per recipient
    Campaigns,
    Addresses,
    CampaignOf,   \* email_jobs.campaign_id
    AddressOf,    \* email_jobs.to_email, frozen at launch
    MaxAttempts,  \* 5 in the code: CHECK on email_jobs.attempts
    Policy        \* UNCERTAIN_ATTEMPT_POLICY: "hold" or "redispatch"

ASSUME JobsFinite == IsFiniteSet(Jobs)
ASSUME RowsTyped  == /\ CampaignOf \in [Jobs -> Campaigns]
                     /\ AddressOf  \in [Jobs -> Addresses]
\* uq_email_jobs_campaign_email (G1): one job per recipient per campaign.
ASSUME OneJobPerRecipient ==
    \A i, j \in Jobs :
        CampaignOf[i] = CampaignOf[j] /\ AddressOf[i] = AddressOf[j] => i = j
ASSUME AttemptCap  == MaxAttempts \in Nat \ {0}
ASSUME PolicyKnown == Policy \in {"hold", "redispatch"}

VARIABLES
    status,       \* email_jobs.status; "absent" is no row yet
    attempts,     \* email_jobs.attempts
    messageOf,    \* email_jobs.provider_message_id, 0 is null
    attempt,      \* send_attempts.state by job and attempt_no
    campaign,     \* campaigns.status
    tally,        \* campaigns.n_*
    suppression,  \* suppressions: none, or whether its reason is reversible
    answer,       \* what the provider did with the call of each attempt
    resent        \* attempts a person, or the redispatch policy, gave up on

jobVars      == <<status, attempts, messageOf>>
campaignVars == <<campaign, tally>>
vars == <<jobVars, attempt, campaignVars, suppression, answer, resent>>

AttemptNos == 1 .. MaxAttempts

JobStatus == {"absent", "pending", "claimed", "sent", "delivered", "bounced",
              "complained", "failed", "suppressed", "skipped", "cancelled",
              "send_uncertain"}
AttemptState   == {"none", "dispatched", "accepted", "rejected", "unknown"}
CampaignStatus == {"queued", "sending", "paused", "completed", "failed",
                   "cancelled"}
Counters == {"total", "sent", "failed", "suppressed", "unsubscribed"}

\* Accepted by the provider, whatever became of the message afterwards.
SentStatus == {"sent", "delivered", "bounced", "complained"}
\* Work left to do; these hold a campaign's completion open.
OpenStatus == {"pending", "claimed", "send_uncertain"}

TypeOK ==
    /\ status      \in [Jobs -> JobStatus]
    /\ attempts    \in [Jobs -> 0 .. MaxAttempts]
    /\ messageOf   \in [Jobs -> 0 .. MaxAttempts]
    /\ attempt     \in [Jobs -> [AttemptNos -> AttemptState]]
    /\ campaign    \in [Campaigns -> CampaignStatus]
    /\ tally       \in [Campaigns -> [Counters -> Nat]]
    /\ suppression \in [Addresses -> {"none", "reversible", "irreversible"}]
    /\ answer      \in [Jobs -> [AttemptNos -> {"none", "accepted", "refused"}]]
    /\ resent      \in [Jobs -> SUBSET AttemptNos]

Init ==
    /\ status      = [j \in Jobs |-> "absent"]
    /\ attempts    = [j \in Jobs |-> 0]
    /\ messageOf   = [j \in Jobs |-> 0]
    /\ attempt     = [j \in Jobs |-> [n \in AttemptNos |-> "none"]]
    /\ campaign    = [c \in Campaigns |-> "queued"]
    /\ tally       = [c \in Campaigns |-> [k \in Counters |-> 0]]
    /\ suppression \in [Addresses -> {"none", "reversible", "irreversible"}]
    /\ answer      = [j \in Jobs |-> [n \in AttemptNos |-> "none"]]
    /\ resent      = [j \in Jobs |-> {}]

-----------------------------------------------------------------------------
(* Helpers.  A name that ends in _Bug is a definition with a plausible bug; no *)
(* specification uses it.  It shows that a property notices the bug.           *)

JobsOf(c)         == {j \in Jobs : CampaignOf[j] = c}
JobsIn(c, states) == {j \in JobsOf(c) : status[j] \in states}
Suppressed(j)     == suppression[AddressOf[j]] # "none"

\* The rows in S, and no others, take status s.
Move(S, s) == status' = [j \in Jobs |-> IF j \in S THEN s ELSE status[j]]

PerStatement_Bug(k, S) == tally' = [c \in Campaigns |-> [tally[c] EXCEPT ![k] = @ + 1]]

\* campaigns.<k> grows by the number of S's jobs each campaign owns.
Count(k, S) == tally' = [c \in Campaigns |->
    [tally[c] EXCEPT ![k] = @ + Cardinality(S \cap JobsOf(c))]]

\* An attempt that forbids any other: guard_send_attempt_write, and the guard
\* of the reaper and of release.
Blocking(j) == \E n \in AttemptNos : attempt[j][n] \in {"dispatched", "accepted"}

\* An attempt more may follow this one.
OneTooMany_Bug(j) == attempts[j] <= MaxAttempts

MayRetry(j) == attempts[j] < MaxAttempts

\* Claimed, and provably never handed to the provider.
ClaimedIsEnough_Bug(j) == status[j] = "claimed"

Unattempted(j) ==
    /\ status[j] = "claimed"
    /\ ~Blocking(j)
    /\ \A n \in AttemptNos : attempt[j][n] # "none" => n # attempts[j]

-----------------------------------------------------------------------------
(* Worker functions *)

\* queued -> sending, creating one pending job per eligible recipient: `members`
\* are the recipients whose contacts are on the list and active right now.
MaterializeCampaign(c, members) ==
    LET created == {j \in members \cap JobsIn(c, {"absent"}) : ~Suppressed(j)}
    IN  /\ campaign[c] = "queued"
        /\ Move(created, "pending")
        /\ campaign' = [campaign EXCEPT ![c] = "sending"]
        /\ tally' = [tally EXCEPT ![c]["total"] =
                        Cardinality(created \cup (JobsOf(c) \ JobsIn(c, {"absent"})))]
        /\ UNCHANGED <<attempts, messageOf, attempt, suppression, answer, resent>>

\* The jobs of a batch whose address is on the suppression list.
OnlyIrreversible_Bug(batch) ==
    {j \in batch : suppression[AddressOf[j]] = "irreversible"}

Listed(batch) == {j \in batch : Suppressed(j)}

\* `batch` is what the due, limit and SKIP LOCKED clauses select; `inactive` are
\* the jobs of it whose contact is no longer an active contact at the frozen
\* address, or was reached by another campaign within the cooldown window.
ClaimJobs(c, batch, inactive) ==
    LET blocked == Listed(batch)
        dropped == blocked \cup inactive
        claimed == batch \ dropped
    IN  /\ campaign[c] = "sending"
        /\ batch # {} /\ batch \subseteq JobsIn(c, {"pending"})
        /\ inactive \subseteq batch
        /\ status' = [j \in Jobs |-> CASE j \in blocked -> "suppressed"
                                       [] j \in inactive \ blocked -> "skipped"
                                       [] j \in claimed -> "claimed"
                                       [] OTHER -> status[j]]
        /\ attempts' = [j \in Jobs |-> IF j \in claimed THEN attempts[j] + 1
                                                        ELSE attempts[j]]
        /\ Count("suppressed", dropped)
        /\ UNCHANGED <<messageOf, attempt, campaign, suppression, answer, resent>>

\* Hands back a claim that was never attempted; the number it took goes back
\* with it only when the job returns to the queue.
ReleaseJob(j, outcome) ==
    /\ Unattempted(j)
    /\ Move({j}, outcome)
    /\ attempts' = IF outcome = "pending" THEN [attempts EXCEPT ![j] = @ - 1]
                                          ELSE attempts
    /\ CASE outcome = "pending"                   -> UNCHANGED tally
         [] outcome \in {"suppressed", "skipped"} -> Count("suppressed", {j})
         [] outcome = "failed"                    -> Count("failed", {j})
    /\ UNCHANGED <<messageOf, attempt, campaign, suppression, answer, resent>>

\* The record of intent.  The insert raises, and changes nothing, when the
\* trigger or uq_attempt refuses it.
CanBegin(j) ==
    /\ status[j] = "claimed"
    /\ ~Blocking(j)
    /\ \A n \in AttemptNos : n = attempts[j] => attempt[j][n] = "none"

BeginAttempt(j) ==
    /\ CanBegin(j)
    /\ attempt' = [attempt EXCEPT ![j][attempts[j]] = "dispatched"]
    /\ UNCHANGED <<jobVars, campaignVars, suppression, answer, resent>>

IdForAnyJob_Bug(j, n) ==
    /\ attempt[j][n] \in {"dispatched", "unknown"}
    /\ \A m \in AttemptNos : attempt[j][m] # "accepted"
    /\ attempt' = [attempt EXCEPT ![j][n] = "accepted"]
    /\ messageOf' = [messageOf EXCEPT ![j] = n]
    /\ IF status[j] \in {"claimed", "send_uncertain"}
       THEN Move({j}, "sent") /\ Count("sent", {j})
       ELSE UNCHANGED <<status, tally>>
    /\ UNCHANGED <<attempts, campaign, suppression, answer, resent>>

\* uq_attempts_one_accepted raises on a second acceptance of the same job.
RecordAccepted(j, n) ==
    /\ attempt[j][n] \in {"dispatched", "unknown"}
    /\ \A m \in AttemptNos : attempt[j][m] # "accepted"
    /\ attempt' = [attempt EXCEPT ![j][n] = "accepted"]
    /\ IF status[j] \in {"claimed", "send_uncertain"}
       THEN /\ Move({j}, "sent")
            /\ messageOf' = [messageOf EXCEPT ![j] = n]
            /\ Count("sent", {j})
       ELSE UNCHANGED <<status, messageOf, tally>>
    /\ UNCHANGED <<attempts, campaign, suppression, answer, resent>>

\* `retry` stands for: a transient or halt refusal, with a time to retry at.
RecordRejected(j, n, retry) ==
    /\ attempt[j][n] = "dispatched"
    /\ attempt' = [attempt EXCEPT ![j][n] = "rejected"]
    /\ CASE status[j] # "claimed" -> UNCHANGED <<status, tally>>
         [] status[j] = "claimed" /\ retry /\ MayRetry(j) ->
                Move({j}, "pending") /\ UNCHANGED tally
         [] OTHER -> Move({j}, "failed") /\ Count("failed", {j})
    /\ UNCHANGED <<attempts, messageOf, campaign, suppression, answer, resent>>

\* Claims older than the timeout that provably never reached the provider.
ReapClaimed(stale) ==
    /\ stale # {} /\ \A j \in stale : Unattempted(j)
    /\ Move(stale, "pending")
    /\ attempts' = [j \in Jobs |-> IF j \in stale THEN attempts[j] - 1
                                                  ELSE attempts[j]]
    /\ UNCHANGED <<messageOf, attempt, campaignVars, suppression, answer, resent>>

\* The uncertain jobs the deployment's policy sends again without asking.
Redispatched ==
    {j \in Jobs : /\ Policy = "redispatch"
                  /\ status[j] = "send_uncertain" /\ MayRetry(j)}

\* What becomes of a job whose open attempt is given up.
RetryUnknown_Bug(s) == IF s = "claimed" THEN "pending" ELSE s
StayClaimed_Bug(s)  == s

WithoutAnswer(s) == IF s = "claimed" THEN "send_uncertain" ELSE s

\* One snapshot for both statements: a job made uncertain by this call is not
\* redispatched by it.
ReconcileAttempts(stale) ==
    /\ stale \cup Redispatched # {}
    /\ \A j \in stale : \E n \in AttemptNos : attempt[j][n] = "dispatched"
    /\ attempt' = [j \in Jobs |-> [n \in AttemptNos |->
           IF j \in stale /\ attempt[j][n] = "dispatched" THEN "unknown"
                                                          ELSE attempt[j][n]]]
    /\ status' = [j \in Jobs |-> CASE j \in Redispatched -> "pending"
                                   [] j \in stale \ Redispatched -> WithoutAnswer(status[j])
                                   [] OTHER -> status[j]]
    /\ resent' = [j \in Jobs |-> IF j \in Redispatched THEN resent[j] \cup {attempts[j]}
                                                        ELSE resent[j]]
    /\ UNCHANGED <<attempts, messageOf, campaignVars, suppression, answer>>

\* sending -> completed | failed, once nothing is left to do.
UncertainIsDone_Bug(c) == campaign[c] = "sending" /\ JobsIn(c, {"pending", "claimed"}) = {}
OnlySentIsDone_Bug(c) ==
    campaign[c] = "sending" /\ JobsIn(c, JobStatus \ (SentStatus \cup {"absent"})) = {}

Finishable(c) == campaign[c] = "sending" /\ JobsIn(c, OpenStatus) = {}

FinishCampaign(c) ==
    /\ Finishable(c)
    /\ campaign' = [campaign EXCEPT ![c] =
           IF tally[c]["sent"] = 0 /\ tally[c]["failed"] > 0 THEN "failed"
                                                             ELSE "completed"]
    /\ UNCHANGED <<jobVars, attempt, tally, suppression, answer, resent>>

\* provider_halt: every sending campaign of the workspace stops.
PauseWorkspace ==
    /\ \E c \in Campaigns : campaign[c] = "sending"
    /\ campaign' = [c \in Campaigns |-> IF campaign[c] = "sending" THEN "paused"
                                                                   ELSE campaign[c]]
    /\ UNCHANGED <<jobVars, attempt, tally, suppression, answer, resent>>

PauseCampaign(c) ==
    /\ campaign[c] = "sending"
    /\ campaign' = [campaign EXCEPT ![c] = "paused"]
    /\ UNCHANGED <<jobVars, attempt, tally, suppression, answer, resent>>

-----------------------------------------------------------------------------
(* People *)

ResumeSending(c) ==
    /\ campaign[c] = "paused"
    /\ campaign' = [campaign EXCEPT ![c] = "sending"]
    /\ UNCHANGED <<jobVars, attempt, tally, suppression, answer, resent>>

\* The trigger cancels what waits; a claimed job belongs to its claimer.
CancelCampaign(c) ==
    /\ campaign[c] \in {"queued", "sending", "paused"}
    /\ campaign' = [campaign EXCEPT ![c] = "cancelled"]
    /\ Move(JobsIn(c, {"pending", "send_uncertain"}), "cancelled")
    /\ UNCHANGED <<attempts, messageOf, attempt, tally, suppression, answer, resent>>

\* A person's decision about one uncertain job.
ResolveUncertain(j, decision) ==
    /\ status[j] = "send_uncertain"
    /\ \/ /\ decision = "redispatch"
          /\ MayRetry(j)
          /\ Move({j}, "pending")
          /\ resent' = [resent EXCEPT ![j] = @ \cup {attempts[j]}]
          /\ UNCHANGED tally
       \/ /\ decision = "leave"
          /\ Move({j}, "failed")
          /\ Count("failed", {j})
          /\ UNCHANGED resent
    /\ UNCHANGED <<attempts, messageOf, attempt, campaign, suppression, answer>>

\* insert into suppressions, with the trigger that takes the address's pending
\* jobs out of every campaign.  The insert is a no-op on a suppressed address.
UncertainToo_Bug(a) ==
    {j \in Jobs : AddressOf[j] = a /\ status[j] \in {"pending", "send_uncertain"}}

PendingAt(a) == {j \in Jobs : AddressOf[j] = a /\ status[j] = "pending"}

InsertSuppression(a, kind) ==
    /\ suppression[a] = "none"
    /\ suppression' = [suppression EXCEPT ![a] = kind]
    /\ Move(PendingAt(a), "suppressed")

Suppress(a, kind) ==
    /\ InsertSuppression(a, kind)
    /\ Count("suppressed", PendingAt(a))
    /\ UNCHANGED <<attempts, messageOf, attempt, campaign, answer, resent>>

\* Only a reversible suppression may be deleted.
Unsuppress(a) ==
    /\ suppression[a] = "reversible"
    /\ suppression' = [suppression EXCEPT ![a] = "none"]
    /\ UNCHANGED <<jobVars, attempt, campaignVars, answer, resent>>

\* The unsubscribe link, keyed by job so that it outlives the contact.
RecordUnsubscribe(j) ==
    /\ status[j] # "absent"
    /\ InsertSuppression(AddressOf[j], "irreversible")
    /\ tally' = [c \in Campaigns |-> [k \in Counters |-> tally[c][k] +
           CASE k = "suppressed" -> Cardinality(PendingAt(AddressOf[j]) \cap JobsOf(c))
             [] k = "unsubscribed" /\ c = CampaignOf[j] -> 1
             [] OTHER -> 0]]
    /\ UNCHANGED <<attempts, messageOf, attempt, campaign, answer, resent>>

\* The provider takes, or refuses, the one call made for an attempt.  The
\* answer may come after the reconciler has given the attempt up.
ProviderAnswers(j, n, a) ==
    /\ attempt[j][n] \in {"dispatched", "unknown"}
    /\ answer[j][n] = "none"
    /\ answer' = [answer EXCEPT ![j][n] = a]
    /\ UNCHANGED <<jobVars, attempt, campaignVars, suppression, resent>>

-----------------------------------------------------------------------------
(* The specification *)

MaintenanceStep ==
    \/ \E stale \in SUBSET Jobs : ReapClaimed(stale) \/ ReconcileAttempts(stale)
    \/ \E c \in Campaigns, members \in SUBSET Jobs : MaterializeCampaign(c, members)
    \/ \E c \in Campaigns : FinishCampaign(c)

ClaimStep ==
    \E c \in Campaigns, batch, inactive \in SUBSET Jobs :
        ClaimJobs(c, batch, inactive)

JobStep(j) ==
    \/ \E outcome \in {"pending", "suppressed", "skipped", "failed"} :
           ReleaseJob(j, outcome)
    \/ BeginAttempt(j)
    \/ \E n \in AttemptNos, a \in {"accepted", "refused"} : ProviderAnswers(j, n, a)
    \/ \E n \in AttemptNos : answer[j][n] = "accepted" /\ RecordAccepted(j, n)
    \/ \E n \in AttemptNos, retry \in BOOLEAN :
           answer[j][n] = "refused" /\ RecordRejected(j, n, retry)

PersonStep ==
    \/ \E j \in Jobs, d \in {"redispatch", "leave"} : ResolveUncertain(j, d)
    \/ \E c \in Campaigns : \/ PauseCampaign(c) \/ ResumeSending(c)
                            \/ CancelCampaign(c)
    \/ \E a \in Addresses : Suppress(a, "reversible") \/ Unsuppress(a)

\* A recipient follows the link of a message.
RecipientStep == \E j \in Jobs : RecordUnsubscribe(j)

Next ==
    \/ MaintenanceStep
    \/ ClaimStep
    \/ \E j \in Jobs : JobStep(j)
    \/ PauseWorkspace
    \/ PersonStep
    \/ RecipientStep

Spec == Init /\ [][Next]_vars

-----------------------------------------------------------------------------
(* Properties *)

\* ADR-0001 4.1 (1).  Of the calls the provider accepted for one job, all but
\* one were written off by a recorded decision to send again.
AtMostOneSend ==
    \A j \in Jobs : \A m, n \in AttemptNos \ resent[j] :
        answer[j][m] = "accepted" /\ answer[j][n] = "accepted" => m = n

\* G4.  A job waiting to be sent has no attempt that may have reached the
\* recipient, unless a decision to send again wrote that attempt off.
RetryOnlyAfterRefusal ==
    \A j \in Jobs : status[j] = "pending" =>
        \A n \in AttemptNos \ resent[j] : attempt[j][n] \in {"none", "rejected"}

\* The number a claim takes is free when the attempt is recorded: giving numbers
\* back on release and on reaping never makes (job_id, attempt_no) collide, and
\* the CHECK on attempts never stops a claim.
ClaimNumberIsFree ==
    \A j \in Jobs :
        /\ \A n \in AttemptNos : attempt[j][n] # "none" => n <= attempts[j]
        /\ status[j] = "pending" => attempts[j] < MaxAttempts
        /\ status[j] = "claimed" =>
               /\ attempts[j] \in AttemptNos
               /\ attempt[j][attempts[j]] \in {"none", "dispatched"}

\* G2 and G3, and that only a job the provider owns holds an open attempt: no
\* call ever runs for a job that waits, was dropped or was cancelled.
OneOpenAttempt ==
    \A j \in Jobs :
        /\ \A n \in AttemptNos : attempt[j][n] = "dispatched" =>
               n = attempts[j] /\ status[j] \in {"claimed", "sent"}
        /\ \A m, n \in AttemptNos :
               attempt[j][m] = "accepted" /\ attempt[j][n] = "accepted" => m = n

\* A message id names the accepted attempt, and a job has one exactly when it
\* counts as sent: the trigger that freezes the id can never refuse a write.
MessageIdMeansSent ==
    \A j \in Jobs :
        /\ messageOf[j] # 0 <=> status[j] \in SentStatus
        /\ messageOf[j] # 0 => attempt[j][messageOf[j]] = "accepted"

\* The campaign counters, moved one by one in a dozen functions and triggers,
\* always equal a recount of the job rows.
TallyMatchesJobs ==
    \A c \in Campaigns :
        /\ tally[c]["total"]  = Cardinality(JobsOf(c) \ JobsIn(c, {"absent"}))
        /\ tally[c]["sent"]   = Cardinality(JobsIn(c, SentStatus))
        /\ tally[c]["failed"] = Cardinality(JobsIn(c, {"failed"}))
        /\ tally[c]["suppressed"] = Cardinality(JobsIn(c, {"suppressed", "skipped"}))

\* A campaign reported finished has nothing left to do and never gets work back:
\* no retry, reap, decision or late answer reopens one of its jobs.
FinishedIsSettled ==
    \A c \in Campaigns :
        campaign[c] \in {"completed", "failed"} => JobsIn(c, OpenStatus) = {}

\* Why AtMostOneSend holds: the one attempt not written off that may have reached
\* the recipient is the job's latest, and then the job is not waiting.
InDoubtIsLatest ==
    \A j \in Jobs : \A n \in AttemptNos \ resent[j] :
        attempt[j][n] \in {"dispatched", "unknown", "accepted"} =>
            n = attempts[j] /\ status[j] # "pending"

\* What the tables say of an attempt never contradicts what the provider did.
RecordsAreTrue ==
    \A j \in Jobs, n \in AttemptNos :
        /\ answer[j][n] # "none" => attempt[j][n] # "none"
        /\ answer[j][n] = "accepted" => attempt[j][n] # "rejected"

AttemptsInRange ==
    \A j \in Jobs : /\ status[j] = "absent" => attempts[j] = 0
                    /\ status[j] = "send_uncertain" => attempts[j] \in AttemptNos

\* The same two facts as far as they outlive the provider's notifications, which
\* move a sent job on and, when SES rejects what it had accepted, fail it.
OpenAttemptIsOwned ==
    \A j \in Jobs :
        /\ \A n \in AttemptNos : attempt[j][n] = "dispatched" =>
               n = attempts[j] /\ status[j] \in SentStatus \cup {"claimed", "failed"}
        /\ \A m, n \in AttemptNos :
               attempt[j][m] = "accepted" /\ attempt[j][n] = "accepted" => m = n

MessageIdIsKept ==
    \A j \in Jobs :
        /\ status[j] \in SentStatus => messageOf[j] # 0
        /\ messageOf[j] # 0 => /\ attempt[j][messageOf[j]] = "accepted"
                               /\ status[j] \in SentStatus \cup {"failed"}

\* While a call is open or in doubt, nothing about the job is known to be accepted;
\* and what is in doubt is the latest attempt.
DoubtIsOpen ==
    \A j \in Jobs :
        /\ status[j] = "send_uncertain" => attempt[j][attempts[j]] = "unknown"
        /\ status[j] = "send_uncertain"
           \/ (status[j] = "claimed" /\ attempt[j][attempts[j]] = "dispatched") =>
               \A n \in AttemptNos : attempt[j][n] # "accepted"

\* The inductive invariant of DeliveryLedgerProofs, which ProviderEvents keeps too.
IInv == /\ TypeOK
        /\ ClaimNumberIsFree
        /\ OpenAttemptIsOwned
        /\ MessageIdIsKept
        /\ DoubtIsOpen
        /\ FinishedIsSettled
        /\ InDoubtIsLatest
        /\ RecordsAreTrue
        /\ AttemptsInRange

\* app.job_transition_allowed (G7), as 0017 leaves it.
JobTransitionAllowed(old, new) ==
    CASE old = "absent"         -> new = "pending"
      [] old = "pending"        -> new \in {"claimed", "suppressed", "skipped", "cancelled"}
      [] old = "claimed"        -> new \in {"sent", "pending", "failed", "send_uncertain",
                                            "suppressed", "skipped"}
      [] old = "send_uncertain" -> new \in {"pending", "failed", "sent", "cancelled"}
      [] old = "sent"           -> new \in {"delivered", "bounced", "complained", "failed"}
      [] old = "delivered"      -> new \in {"bounced", "complained"}
      [] old = "bounced"        -> new = "complained"
      [] OTHER                  -> FALSE

\* The transition trigger never refuses a step of these functions: a refusal
\* would abort the transaction half way through a tick.
TransitionsAllowed ==
    [][\A j \in Jobs : status'[j] # status[j] =>
           JobTransitionAllowed(status[j], status'[j])]_vars

\* Suppression defence 2 and 3: an address on the list is claimed by no campaign,
\* whether the suppression found the job waiting, claimed or being retried.
SuppressedNeverClaimed ==
    [][\A j \in Jobs : status[j] # "claimed" /\ status'[j] = "claimed" =>
           ~Suppressed(j)]_vars

\* The refinement mapping to the abstract promise.
Promise == INSTANCE AtMostOnceSend WITH
    Messages <- AttemptNos,
    mailed   <- [j \in Jobs |-> {n \in AttemptNos : answer[j][n] = "accepted"}],
    givenUp  <- resent

ImplementsAtMostOnceSend == Promise!Spec
=============================================================================
