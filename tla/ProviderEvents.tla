--------------------------- MODULE ProviderEvents ---------------------------
(***************************************************************************)
(* SES notifications over SNS (supabase/migrations/0016, 0017,             *)
(* src/app/api/webhooks/ses) and the unsubscribe link, on top of           *)
(* DeliveryLedger.                                                         *)
(*                                                                         *)
(* SES publishes notifications about a message it accepted; SNS delivers   *)
(* each at any later moment, in any order, and again and again until the   *)
(* webhook has committed it.  One notification is one transaction.         *)
(*                                                                         *)
(* Abstractions.  Notifications are authentic, live and about the job's    *)
(* frozen address (E2 keeps the others out), and a message id is the       *)
(* number of the attempt, so the tags and the id of one always agree.  The *)
(* rates of the health guard are a choice.  Audit rows are left out.       *)
(***************************************************************************)
EXTENDS DeliveryLedger

CONSTANTS
    Notices,   \* SNS MessageIds
    Kinds      \* the kinds of notification SES publishes

Kind == {"send", "delivery", "reject", "permanentBounce", "transientBounce", "complaint"}

ASSUME KindsKnown == Kinds \subseteq Kind

VARIABLES
    notice,      \* what SES published under each id
    outcome,     \* provider_events.outcome, "none" while there is no row
    eventTally,  \* campaigns.n_delivered, n_bounced, n_complained
    stopped      \* addresses whose owner used an unsubscribe link

eventVars  == <<notice, outcome, eventTally, stopped>>
allVars    == <<vars, eventVars>>

EventCounters == {"delivered", "bounced", "complained"}
Unpublished   == [kind |-> "none", job |-> "none", attempt |-> 0]
Published     == [kind : Kinds, job : Jobs, attempt : AttemptNos]

EventsTypeOK ==
    /\ TypeOK
    /\ notice     \in [Notices -> Published \cup {Unpublished}]
    /\ outcome    \in [Notices -> {"none", "applied", "unmatched"}]
    /\ eventTally \in [Campaigns -> [EventCounters -> Nat]]
    /\ stopped    \subseteq Addresses

EventsInit ==
    /\ Init
    /\ notice     = [x \in Notices |-> Unpublished]
    /\ outcome    = [x \in Notices |-> "none"]
    /\ eventTally = [c \in Campaigns |-> [k \in EventCounters |-> 0]]
    /\ stopped    = {}

-----------------------------------------------------------------------------
(* Helpers *)

\* The kinds SES has published about attempt n of j.
PublishedOf(j, n) ==
    {notice[x].kind : x \in {y \in Notices : notice[y].job = j /\ notice[y].attempt = n}}

\* events_resolve_attempt: the notification proves that SES accepted attempt n,
\* and nobody has decided about the job in the meantime.
ClaimedOnly_Bug(j, n) ==
    /\ attempt[j][n] \in {"dispatched", "unknown"}
    /\ attempts[j] = n
    /\ messageOf[j] = 0
    /\ status[j] = "claimed"

Resolvable(j, n) ==
    /\ attempt[j][n] \in {"dispatched", "unknown"}
    /\ attempts[j] = n
    /\ messageOf[j] = 0
    /\ status[j] \in {"claimed", "send_uncertain"}

\* events_match_job, after the attempt was resolved if it could be.
Matches(j, n) == Resolvable(j, n) \/ messageOf[j] = n

StatusReadFirst_Bug(j, n) == status[j]

\* Where a matched job stands when the effects of the notification are decided,
\* and where they take it.  A job never moves backwards.
Before(j, n) == IF Resolvable(j, n) THEN "sent" ELSE status[j]

Backwards_Bug == [delivery |-> {"sent"}, reject |-> {"sent"},
                  permanentBounce |-> {"sent", "delivered", "complained"},
                  complaint |-> {"sent", "delivered", "bounced"},
                  send |-> {}, transientBounce |-> {}]

Moves == [delivery |-> {"sent"}, reject |-> {"sent"},
          permanentBounce |-> {"sent", "delivered"},
          complaint |-> {"sent", "delivered", "bounced"},
          send |-> {}, transientBounce |-> {}]
Becomes == [delivery |-> "delivered", reject |-> "failed",
            permanentBounce |-> "bounced", complaint |-> "complained"]

After(kind, s) == IF s \in Moves[kind] THEN Becomes[kind] ELSE s

\* events_suppress: created, strengthened or existing, the address ends up
\* suppressed for a reason nobody can delete.
DoNothing_Bug(old) == IF old = "none" THEN "irreversible" ELSE old

Strengthened(old) == "irreversible"

-----------------------------------------------------------------------------
(* Actions *)

\* SES publishes.  A message it refused after accepting it goes nowhere.
Publish(x, kind, j, n) ==
    /\ notice[x] = Unpublished
    /\ answer[j][n] = "accepted"
    /\ kind = "reject" => PublishedOf(j, n) \subseteq {"send", "reject"}
    /\ kind \in {"delivery", "permanentBounce", "transientBounce", "complaint"} =>
           "reject" \notin PublishedOf(j, n)
    /\ notice' = [notice EXCEPT ![x] = [kind |-> kind, job |-> j, attempt |-> n]]
    /\ UNCHANGED <<vars, outcome, eventTally, stopped>>

\* No job is matched: only the row of the notification is written.  A Send needs
\* no more than that its attempt is known to be accepted.
RecordUnmatched(x) ==
    LET j == notice[x].job
        n == notice[x].attempt
    IN  /\ ~Matches(j, n)
        /\ outcome' = [outcome EXCEPT ![x] =
               IF notice[x].kind = "send" /\ attempt[j][n] = "accepted" THEN "applied"
                                                                        ELSE "unmatched"]
        /\ UNCHANGED <<vars, notice, eventTally, stopped>>

\* The attempt is reconciled, the job moves, the address is suppressed (with the
\* trigger on its pending jobs), the counters follow the job, and after a bounce
\* or a complaint that moved it the health guard may pause what is sending.
RecordApplied(x, pauses) ==
    LET j        == notice[x].job
        n        == notice[x].attempt
        a        == AddressOf[j]
        kind     == notice[x].kind
        resolved == Resolvable(j, n)
        before   == Before(j, n)
        after    == After(kind, before)
        bad      == kind \in {"permanentBounce", "complaint"}
        dropped  == IF bad /\ suppression[a] = "none" THEN PendingAt(a) ELSE {}
    IN  /\ Matches(j, n)
        /\ pauses => bad /\ before # after
        /\ outcome' = [outcome EXCEPT ![x] = "applied"]
        /\ attempt' = IF resolved THEN [attempt EXCEPT ![j][n] = "accepted"] ELSE attempt
        /\ messageOf' = [messageOf EXCEPT ![j] = n]
        /\ status' = [i \in Jobs |-> CASE i = j -> after
                                       [] i \in dropped \ {j} -> "suppressed"
                                       [] OTHER -> status[i]]
        /\ suppression' = IF bad THEN [suppression EXCEPT ![a] = Strengthened(@)]
                                 ELSE suppression
        /\ campaign' = [c \in Campaigns |->
               IF pauses /\ campaign[c] = "sending" THEN "paused" ELSE campaign[c]]
        /\ tally' = [c \in Campaigns |-> [k \in Counters |-> tally[c][k] +
               CASE k = "sent" /\ c = CampaignOf[j] ->
                        (IF resolved THEN 1 ELSE 0) - (IF kind = "reject" /\ before # after
                                                       THEN 1 ELSE 0)
                 [] k = "failed" /\ c = CampaignOf[j] /\ kind = "reject" /\ before # after -> 1
                 [] k = "suppressed" -> Cardinality(dropped \cap JobsOf(c))
                 [] OTHER -> 0]]
        /\ eventTally' = [eventTally EXCEPT ![CampaignOf[j]] = [k \in EventCounters |->
               IF before # after /\ k = after THEN @[k] + 1 ELSE @[k]]]
        /\ UNCHANGED <<attempts, answer, resent, notice, stopped>>

\* SNS delivers.  A notification whose row is there already changes nothing.
Deliver(x) ==
    /\ notice[x] # Unpublished
    /\ outcome[x] = "none"
    /\ RecordUnmatched(x) \/ \E pauses \in BOOLEAN : RecordApplied(x, pauses)

\* The recipient of a message posts its unsubscribe form.  On an address that is
\* suppressed already the insert does nothing, and the page says the same.
Unsubscribes(j) ==
    /\ \E n \in AttemptNos : answer[j][n] = "accepted"
    /\ stopped' = stopped \cup {AddressOf[j]}
    /\ IF Suppressed(j) THEN UNCHANGED vars ELSE RecordUnsubscribe(j)
    /\ UNCHANGED <<notice, outcome, eventTally>>

-----------------------------------------------------------------------------
(* The specification *)

TablesStep == /\ \/ MaintenanceStep \/ ClaimStep \/ PauseWorkspace \/ PersonStep
                 \/ \E j \in Jobs : JobStep(j)
              /\ UNCHANGED eventVars

EventsNext ==
    \/ TablesStep
    \/ \E x \in Notices, kind \in Kinds, j \in Jobs, n \in AttemptNos : Publish(x, kind, j, n)
    \/ \E x \in Notices : Deliver(x)
    \/ \E j \in Jobs : Unsubscribes(j)

EventsSpec == EventsInit /\ [][EventsNext]_allVars

\* SNS retries until the webhook has answered 200, which it does after commit.
FairEventsSpec == EventsSpec /\ \A x \in Notices : WF_allVars(Deliver(x))

-----------------------------------------------------------------------------
(* Properties *)

\* 0017 E7.  However often and in whatever order notifications arrive, each job
\* counts once per state, and a state it has left is not taken back.
EventTalliesMatchJobs ==
    \A c \in Campaigns :
        LET complained == Cardinality(JobsIn(c, {"complained"}))
            bounced    == Cardinality(JobsIn(c, {"bounced"}))
            delivered  == Cardinality(JobsIn(c, {"delivered"}))
        IN  /\ eventTally[c]["complained"] = complained
            /\ eventTally[c]["bounced"] \in bounced .. bounced + complained
            /\ eventTally[c]["delivered"] \in delivered .. delivered + bounced + complained

\* ADR-0006, "an attempt is held as `send_uncertain` only when SES really never
\* confirmed it": whether the notification came before or after the reconciler
\* gave the attempt up, a recorded one ends the doubt.
UncertainIsUnconfirmed ==
    \A x \in Notices : outcome[x] # "none" =>
        ~ /\ status[notice[x].job] = "send_uncertain"
          /\ attempts[notice[x].job] = notice[x].attempt

\* 0016, "Strengthening a suppression".  Whoever complained or bounced for good is
\* on the list for a reason nobody can delete, even if a person had blocked or
\* unblocked the address meanwhile.
ComplaintIsForGood ==
    \A x \in Notices :
        outcome[x] = "applied" /\ notice[x].kind \in {"complaint", "permanentBounce"} =>
            suppression[AddressOf[notice[x].job]] = "irreversible"

\* ADR-0001 3.2.  What a dead or timed-out worker could not record, the provider's
\* notification does: doubt about a message that SES reported comes to an end.
DoubtIsResolved ==
    \A x \in Notices, j \in Jobs :
        LET inDoubt == /\ notice[x].job = j /\ notice[x].attempt = attempts[j]
                       /\ status[j] = "send_uncertain"
        IN  inDoubt ~> ~inDoubt

\* suppression/service.ts:248, "there is no code path - for any role - that
\* un-suppresses a complaint, an unsubscribe": who once used the link stays off.
UnsubscribeIsForGood == \A a \in stopped : suppression[a] # "none"
=============================================================================
