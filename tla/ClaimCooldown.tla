---------------------------- MODULE ClaimCooldown ----------------------------
(***************************************************************************)
(* The contact cooldown (supabase/migrations/0013): how sending_claim_jobs *)
(* keeps two campaigns of one workspace from reaching one address within   *)
(* the cooldown, while several ticks are in it at once.                    *)
(*                                                                         *)
(* A claim is one transaction of several statements: its now() is the      *)
(* moment it began, it waits for the workspace's claim lock, each of its   *)
(* statements sees what was committed before it (READ COMMITTED), and the  *)
(* rows it chose are locked until it ends.  The functions that change a    *)
(* job afterwards are single short transactions and one action each.       *)
(*                                                                         *)
(* Of email_jobs.status, "sent" stands for sent, delivered, bounced and    *)
(* complained, "over" for skipped, suppressed, failed and cancelled.  Of   *)
(* the attempts only the last counts.  A moment is about an hour.          *)
(***************************************************************************)
EXTENDS Integers

CONSTANTS
    Jobs,        \* email_jobs of the workspace
    CampaignOf,  \* email_jobs.campaign_id
    AddressOf,   \* email_jobs.to_email
    ModeOf,      \* campaigns.execution_mode
    Callers,     \* ticks that may be claiming at the same time
    Nobody,      \* no caller
    Cooldown,    \* CONTACT_COOLDOWN_HOURS
    LastMoment   \* bound: how long the clock runs

ASSUME CooldownNumbers == Cooldown \in Nat /\ LastMoment \in Nat /\ Nobody \notin Callers

VARIABLES
    moment,   \* the time
    job,      \* job -> its row
    call,     \* caller -> its claim transaction
    holder,   \* who has the claim lock
    took,     \* history: when the last claim of a job began
    reached   \* history: when the provider last took a message of a job

cooldownVars == <<moment, job, call, holder, took, reached>>

Never   == -1
NoClaim == [at |-> "idle", campaign |-> Nobody, began |-> 0, batch |-> {}, dropped |-> {}]
Active  == {"claimed", "sent", "send_uncertain"}

CooldownInit ==
    /\ moment  = 0
    /\ job     = [j \in Jobs |-> [status |-> "pending", claimedAt |-> Never, sentAt |-> Never,
                                  updatedAt |-> 0, attempt |-> "none"]]
    /\ call    = [k \in Callers |-> NoClaim]
    /\ holder  = Nobody
    /\ took    = [j \in Jobs |-> Never]
    /\ reached = [j \in Jobs |-> Never]

-----------------------------------------------------------------------------
(* Helpers *)

\* Rows a claim that has not ended has locked.
Locked == UNION {call[k].batch : k \in Callers}

\* Two jobs of which the cooldown allows one at a time.
Rivals(i, j) ==
    /\ AddressOf[i] = AddressOf[j] /\ CampaignOf[i] # CampaignOf[j]
    /\ ModeOf[CampaignOf[i]] = ModeOf[CampaignOf[j]]

\* coalesce(sent_at, claimed_at, updated_at).
LastActivity(row) ==
    IF row.sentAt # Never THEN row.sentAt
    ELSE IF row.claimedAt # Never THEN row.claimedAt ELSE row.updatedAt

\* The cooldown's verdict of a claim that began at `began`.
Capped(j, began) ==
    /\ Cooldown > 0
    /\ \E o \in Jobs : /\ Rivals(o, j) /\ job[o].status \in Active
                       /\ LastActivity(job[o]) > began - Cooldown

\* pg_advisory_xact_lock('send_claim:' || workspace).
NoLock_Bug == TRUE

LockIsFree == holder = Nobody

Freed(k) == holder' = IF holder = k THEN Nobody ELSE holder

-----------------------------------------------------------------------------
(* sending_claim_jobs *)

BeginClaim(k, c) ==
    /\ call[k].at = "idle"
    /\ call' = [call EXCEPT ![k] = [NoClaim EXCEPT !.at = "waiting", !.campaign = c, !.began = moment]]
    /\ UNCHANGED <<moment, job, holder, took, reached>>

TakeLock(k) ==
    /\ call[k].at = "waiting" /\ LockIsFree
    /\ holder' = k
    /\ call' = [call EXCEPT ![k].at = "choosing"]
    /\ UNCHANGED <<moment, job, took, reached>>

\* The candidates and the verdict on each: `out` are those whose address is
\* suppressed or whose contact is no longer active.
Judge(k, batch, out) ==
    LET claim == call[k]
    IN  /\ claim.at = "choosing"
        /\ batch # {} /\ out \subseteq batch
        /\ \A j \in batch : CampaignOf[j] = claim.campaign /\ job[j].status = "pending" /\ j \notin Locked
        /\ call' = [call EXCEPT ![k] = [claim EXCEPT !.at = "judged", !.batch = batch,
                                        !.dropped = out \cup {j \in batch : Capped(j, claim.began)}]]
        /\ UNCHANGED <<moment, job, holder, took, reached>>

\* What the verdict dropped is skipped for good, the rest is claimed; commit.
CommitClaim(k) ==
    LET claim == call[k]
        claimed == claim.batch \ claim.dropped
    IN  /\ claim.at = "judged"
        /\ job' = [j \in Jobs |->
               IF j \in claim.dropped THEN [job[j] EXCEPT !.status = "over", !.updatedAt = claim.began]
               ELSE IF j \in claimed
               THEN [job[j] EXCEPT !.status = "claimed", !.claimedAt = claim.began, !.updatedAt = claim.began]
               ELSE job[j]]
        /\ took' = [j \in Jobs |-> IF j \in claimed THEN claim.began ELSE took[j]]
        /\ call' = [call EXCEPT ![k] = NoClaim]
        /\ Freed(k)
        /\ UNCHANGED <<moment, reached>>

\* Nothing is due, the campaign is not sending, or the connection is lost: the
\* transaction ends and leaves nothing.
EndClaim(k) ==
    /\ call[k].at # "idle"
    /\ call' = [call EXCEPT ![k] = NoClaim]
    /\ Freed(k)
    /\ UNCHANGED <<moment, job, took, reached>>

-----------------------------------------------------------------------------
(* What becomes of a job.  A row a claim has locked waits for it.          *)

Becomes(rows, status, attempt) ==
    /\ rows \cap Locked = {}
    /\ job' = [j \in Jobs |->
           IF j \in rows
           THEN [job[j] EXCEPT !.status = status, !.attempt = attempt, !.updatedAt = moment,
                               !.claimedAt = IF status = "sent" /\ job[j].status = "claimed" THEN @ ELSE Never,
                               !.sentAt = IF status = "sent" THEN moment ELSE @]
           ELSE job[j]]
    /\ UNCHANGED <<moment, call, holder, took, reached>>

\* sending_release_job, the reaper, a refusal: nothing reached the provider.
GiveBack(j, status) ==
    /\ job[j].status = "claimed" /\ job[j].attempt = "none"
    /\ Becomes({j}, status, "none")

Refused(j, status) ==
    /\ job[j].status = "claimed" /\ job[j].attempt = "open"
    /\ Becomes({j}, status, "none")

BeginAttempt(j) ==
    /\ job[j].status = "claimed" /\ job[j].attempt = "none"
    /\ job' = [job EXCEPT ![j].attempt = "open"]
    /\ UNCHANGED <<moment, call, holder, took, reached>>

\* The tick that claimed a job calls the provider before its deadline, minutes
\* after the claim; the provider takes the message.
ProviderTakes(j) ==
    /\ job[j].status = "claimed" /\ job[j].attempt = "open" /\ moment = job[j].claimedAt
    /\ job' = [job EXCEPT ![j].attempt = "taken"]
    /\ reached' = [reached EXCEPT ![j] = moment]
    /\ UNCHANGED <<moment, call, holder, took>>

\* By the tick, or by the event that tells what became of an uncertain attempt;
\* or late, when that attempt was given up and the job is claimed again.
RecordSent(j) ==
    /\ job[j].status \in {"claimed", "send_uncertain"}
    /\ job[j].attempt = "taken" \/ (job[j].attempt = "none" /\ reached[j] # Never)
    /\ Becomes({j}, "sent", "taken")

\* No answer within the grace window.
Reconcile(j) ==
    /\ job[j].status = "claimed" /\ job[j].attempt \in {"open", "taken"}
    /\ Becomes({j}, "send_uncertain", job[j].attempt)

\* A person, or the redispatch policy, gives an uncertain attempt up.
ResolveUncertain(j, status) ==
    /\ job[j].status = "send_uncertain"
    /\ Becomes({j}, status, "none")

CancelCampaign(c) ==
    LET rows == {j \in Jobs : CampaignOf[j] = c /\ job[j].status \in {"pending", "send_uncertain"}}
    IN  rows # {} /\ Becomes(rows, "over", "none")

SuppressionAdded(a) ==
    LET rows == {j \in Jobs : AddressOf[j] = a /\ job[j].status = "pending"}
    IN  rows # {} /\ Becomes(rows, "over", "none")

MomentPasses ==
    /\ moment < LastMoment
    /\ moment' = moment + 1
    /\ UNCHANGED <<job, call, holder, took, reached>>

-----------------------------------------------------------------------------
ClaimSteps(k) ==
    \/ \E j \in Jobs : BeginClaim(k, CampaignOf[j])
    \/ TakeLock(k) \/ CommitClaim(k) \/ EndClaim(k)
    \/ \E batch \in SUBSET Jobs : \E out \in SUBSET batch : Judge(k, batch, out)

JobSteps(j) ==
    \/ \E status \in {"pending", "over"} : GiveBack(j, status) \/ Refused(j, status) \/ ResolveUncertain(j, status)
    \/ BeginAttempt(j) \/ ProviderTakes(j) \/ RecordSent(j) \/ Reconcile(j)
    \/ CancelCampaign(CampaignOf[j]) \/ SuppressionAdded(AddressOf[j])

CooldownNext ==
    \/ \E k \in Callers : ClaimSteps(k)
    \/ \E j \in Jobs : JobSteps(j)
    \/ MomentPasses

CooldownSpec == CooldownInit /\ [][CooldownNext]_cooldownVars

-----------------------------------------------------------------------------
(* Properties *)

Apart(s, t) == s - t >= Cooldown \/ t - s >= Cooldown

\* 0013, "the checks are exact under concurrent ticks: two campaigns claiming the
\* same address at the same instant see each other's claim".  Two jobs to one
\* address that are being sent, or were, began their claims a cooldown apart,
\* whoever waited for the lock meanwhile and whatever time its now() is.
ClaimsKeepTheirDistance ==
    \A i, j \in Jobs : Rivals(i, j) /\ job[i].status \in Active /\ job[j].status \in Active =>
        Apart(took[i], took[j])
=============================================================================
