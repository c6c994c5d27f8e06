------------------------- MODULE CampaignLifecycle -------------------------
(***************************************************************************)
(* One campaign from its draft to its end: the people who edit, check,     *)
(* schedule, pause and resume it (src/lib/campaigns/service.ts,            *)
(* src/lib/sending/service.ts), the worker ticks that launch it            *)
(* (src/lib/sending/worker.ts, steps 3-7), and the row trigger that judges *)
(* every write (supabase/migrations/0012).                                 *)
(*                                                                         *)
(* Every write is a compare-and-set on the status alone, and every verdict *)
(* is reached on a row read some awaits earlier; the row may have moved on *)
(* in between.                                                             *)
(*                                                                         *)
(* Abstractions.  The fields an edit patches (list, sender, template) are  *)
(* one setup; a snapshot is the setup whose template was copied.  Whether  *)
(* contacts, domain and template are in order is a choice of each verdict: *)
(* they change at any moment.  The clock counts tick lifetimes: now is a   *)
(* unit of time, a schedule is the instant at which a unit begins, and an  *)
(* instant is past from its own unit on.  The jobs are DeliveryLedger's.   *)
(***************************************************************************)
EXTENDS Integers

CONSTANTS
    Setups,       \* choices of list, sender and template
    Sessions,     \* requests of admins in flight
    Ticks,        \* worker ticks in flight
    Grace,        \* SCHEDULE_GRACE_MINUTES, in clock units
    Lead,         \* MIN_SCHEDULE_LEAD_MS, in clock units
    LastTime,     \* bound: the clock stops here
    Dates,        \* bound: the schedules members ask for
    MaxFaults     \* bound: changes of the deployment's mode and ticks that die

Modes == {"dry_run", "live"}

\* sendingConfig(): the mode, and whether the gate of the live mode is closed.
Deployments == {"disabled", "dry_run", "live", "gated"}

ASSUME BoundsPositive ==
    /\ Grace \in Nat \ {0}
    /\ Lead \in Nat \ {0}
    /\ LastTime \in Nat
    /\ Dates \subseteq 0 .. LastTime
    /\ MaxFaults \in Nat

\* A schedule lies further ahead than a tick lives: 5 minutes against 60 seconds.
ASSUME LeadOutlastsTick == Lead > 1

\* "none" stands for SQL's null and is no setup.
ASSUME NoneIsNoSetup == "none" \notin Setups

VARIABLES
    row,       \* the campaigns row
    agreed,    \* the row as it was scheduled, until it is unscheduled (history)
    deployed,  \* the deployment's sending configuration
    now,
    session,   \* admins' requests: where they are and what they read
    tick,      \* worker ticks: where they are, what they read, and (history) the
               \* schedulings they met when they judged, and whether one overtook
    faults     \* changes of the deployment and deaths so far

env  == <<deployed, now, faults>>
vars == <<row, agreed, session, tick, env>>

Never == -1
Time  == 0 .. LastTime

Status == {"draft", "validating", "scheduled", "queued", "sending", "paused",
           "completed", "cancelled", "failed", "deleted"}
Row == [status : Status, setup : Setups \cup {"none"}, at : Time \cup {Never},
        frozen : Setups \cup {"none"}, approved : Modes \cup {"disabled", "none"},
        mode : Modes \cup {"none"}]

NewRow  == [status |-> "draft", setup |-> "none", at |-> Never,
            frozen |-> "none", approved |-> "none", mode |-> "none"]
Idle    == [pc |-> "idle", intent |-> "check", mode |-> "disabled", saw |-> "none", at |-> Never]
Resting == [pc |-> "idle", mode |-> "none", saw |-> NewRow, aged |-> FALSE,
            met |-> {}, overtaken |-> FALSE]

SessionPcs == {"idle", "judge", "reject", "freeze", "resume"}
TickPcs    == {"idle", "hold", "list", "load", "refuse", "launch", "active", "work"}

LifecycleTypeOK ==
    /\ row      \in Row
    /\ agreed   \in Row
    /\ deployed \in Deployments
    /\ now      \in Time
    /\ session  \in [Sessions -> [pc : SessionPcs, intent : {"check", "schedule"},
                                  mode : Modes \cup {"disabled"},
                                  saw : Setups \cup {"none"}, at : Time \cup {Never}]]
    /\ tick     \in [Ticks -> [pc : TickPcs, mode : Modes \cup {"none"}, saw : Row,
                               aged : BOOLEAN, met : SUBSET Sessions, overtaken : BOOLEAN]]
    /\ faults   \in 0 .. MaxFaults

Init ==
    /\ row = NewRow
    /\ agreed = NewRow
    /\ deployed \in Deployments
    /\ now = 0
    /\ session = [s \in Sessions |-> Idle]
    /\ tick = [t \in Ticks |-> Resting]
    /\ faults = 0

-----------------------------------------------------------------------------
(* The row and its trigger *)

Editable == {"draft", "validating"}
Terminal == {"completed", "cancelled", "failed", "deleted"}
Launched(r) == r.mode # "none"

Transitions == [
    draft      |-> {"validating", "cancelled"},
    validating |-> {"scheduled", "draft", "cancelled"},
    scheduled  |-> {"draft", "cancelled", "queued", "paused"},
    queued     |-> {"sending", "failed", "cancelled"},
    sending    |-> {"completed", "failed", "paused", "cancelled"},
    paused     |-> {"sending", "draft", "cancelled"},
    completed  |-> {}, cancelled |-> {}, failed |-> {}, deleted |-> {}]

\* What guard_campaign_write does to the new row: a draft is approved for nothing.
Stored(new) == IF new.status = "draft" THEN [new EXCEPT !.approved = "none"] ELSE new

AnyPause_Bug(old, new) ==
    /\ new.status # old.status => new.status \in Transitions[old.status]
    /\ new.mode # old.mode => ~Launched(old) /\ new.mode = old.approved
    /\ new.status = "scheduled" => new.at # Never /\ "none" \notin {new.setup, new.frozen}

\* The writes guard_campaign_write and the table's checks let through.
TriggerAllows(old, new) ==
    /\ new.status # old.status => new.status \in Transitions[old.status]
    /\ new.approved \notin {old.approved, "none"} =>
         old.status = "validating" /\ new.status = "scheduled"
    /\ new.mode # old.mode =>
         /\ ~Launched(old)
         /\ old.status = "scheduled" /\ new.status = "queued"
         /\ new.mode = old.approved
    /\ old.status = "paused" /\ new.status = "draft"   => ~Launched(old)
    /\ old.status = "paused" /\ new.status = "sending" => Launched(old)
    /\ new.frozen # old.frozen => old.status \in Editable \/ new.status \in Editable
    /\ new.status = "scheduled" => new.at # Never /\ "none" \notin {new.setup, new.frozen}

\* update campaigns set ... ; a refusal raises, and the step is not taken.
Write(new) ==
    /\ TriggerAllows(row, Stored(new))
    /\ row' = Stored(new)

Moved(status) == [row EXCEPT !.status = status]

Due    == row.status = "scheduled" /\ row.at <= now
Missed == Due /\ row.at + Grace <= now

-----------------------------------------------------------------------------
(* Members: single statements *)

AnyStatus_Bug(setup, at) ==
    /\ row.status \in Editable \cup {"scheduled"}
    /\ at \in {row.at, Never} \/ at >= now + Lead
    /\ Write([row EXCEPT !.setup = setup, !.at = at])
    /\ UNCHANGED <<agreed, session, tick, env>>

\* updateCampaignDraft.  An edit leaves the status as it is.
Edit(setup, at) ==
    /\ row.status \in Editable
    /\ at \in {row.at, Never} \/ at >= now + Lead
    /\ Write([row EXCEPT !.setup = setup, !.at = at])
    /\ UNCHANGED <<agreed, session, tick, env>>

Unschedule ==
    /\ row.status \in {"scheduled", "paused"}
    /\ Write([row EXCEPT !.status = "draft", !.frozen = "none"])
    /\ agreed' = NewRow
    /\ UNCHANGED <<session, tick, env>>

Cancel ==
    /\ row.status \notin Terminal
    /\ Write(Moved("cancelled"))
    /\ UNCHANGED <<agreed, session, tick, env>>

\* deleteCampaign, under the policy of 0010.
Delete ==
    /\ row.status \in {"draft", "cancelled"}
    /\ ~Launched(row)
    /\ row' = Moved("deleted")
    /\ UNCHANGED <<agreed, session, tick, env>>

\* pauseSending; also the health guard of 0017.
PauseSending ==
    /\ row.status \in {"sending", "queued"}
    /\ Write(Moved("paused"))
    /\ UNCHANGED <<agreed, session, tick, env>>

-----------------------------------------------------------------------------
(* Admins: requests that read, judge and write *)

Goes(s, pc) == session' = [session EXCEPT ![s].pc = pc]
Ends(s)     == session' = [session EXCEPT ![s] = Idle]

ConfigAsIs_Bug(config) == config

\* sendingConfig().mode
Mode(config) == IF config = "gated" THEN "live" ELSE config

\* A compare-and-set: one that finds another status, or is refused, writes nothing.
IfStill(status, new) ==
    IF row.status = status /\ TriggerAllows(row, Stored(new))
    THEN row' = Stored(new) ELSE UNCHANGED row

\* runCampaignPreflight, up to the row it will judge; scheduleCampaign begins
\* with it, and only a scheduling uses the mode.
BeginPreflight(s, intent) ==
    /\ session[s].pc = "idle"
    /\ row.status \in Editable
    /\ Write(Moved("validating"))
    /\ session' = [session EXCEPT ![s] =
         [pc |-> "judge", intent |-> intent,
          mode |-> IF intent = "schedule" THEN Mode(deployed) ELSE "disabled",
          saw |-> row.setup, at |-> row.at]]
    /\ tick' = [t \in Ticks |-> [tick[t] EXCEPT !.met = @ \ {s}]]
    /\ UNCHANGED <<agreed, env>>

PastAllowed_Bug(setup, at, intent) ==
    /\ setup # "none"
    /\ at # Never \/ intent = "check"

\* What evaluateCampaignPreflight asks of the row itself.
Complete(setup, at, intent) ==
    /\ setup # "none"
    /\ at > now \/ (at = Never /\ intent = "check")

Judge(s) ==
    /\ session[s].pc = "judge"
    /\ \/ Goes(s, "reject")
       \/ /\ Complete(session[s].saw, session[s].at, session[s].intent)
          /\ IF session[s].intent = "schedule" THEN Goes(s, "freeze") ELSE Ends(s)
    /\ UNCHANGED <<row, agreed, tick, env>>

Reject(s) ==
    /\ session[s].pc = "reject"
    /\ IfStill("validating", Moved("draft"))
    /\ Ends(s)
    /\ UNCHANGED <<agreed, tick, env>>

\* The second half of scheduleCampaign: the snapshot is of the template that was
\* read, the mode is the request's deployment's; the rest of the row is what it
\* has become.
Freeze(s) ==
    LET new == [row EXCEPT !.status = "scheduled", !.frozen = session[s].saw,
                           !.approved = session[s].mode]
    IN /\ session[s].pc = "freeze"
       /\ IfStill("validating", new)
       /\ agreed' = IF row' = row THEN agreed ELSE row'
       /\ tick' = [t \in Ticks |->
            [tick[t] EXCEPT !.overtaken = @ \/ (row' # row /\ s \in tick[t].met)]]
       /\ Ends(s)
       /\ UNCHANGED env

\* resumeSending, up to a verdict that lets it go on.
BeginResume(s) ==
    /\ session[s].pc = "idle"
    /\ deployed # "disabled"
    /\ row.status = "paused" /\ Launched(row)
    /\ Goes(s, "resume")
    /\ UNCHANGED <<row, agreed, tick, env>>

Resume(s) ==
    /\ session[s].pc = "resume"
    /\ IfStill("paused", Moved("sending"))
    /\ Ends(s)
    /\ UNCHANGED <<agreed, tick, env>>

\* The request is cut off.
SessionDies(s) ==
    /\ session[s].pc # "idle"
    /\ Ends(s)
    /\ UNCHANGED <<row, agreed, tick, env>>

-----------------------------------------------------------------------------
(* Worker ticks *)

Steps(t, pc) == tick' = [tick EXCEPT ![t].pc = pc]

\* Past the promotion, what the tick read for it is no longer used.
Proceeds(t)  == tick' = [tick EXCEPT ![t] = [Resting EXCEPT !.pc = "active", !.aged = tick[t].aged]]
Rests(t)     == tick' = [tick EXCEPT ![t] = Resting]

\* launchMode: "none" while the gate of the live mode is closed.
LaunchMode(config) == IF config \in Modes THEN config ELSE "none"

TickStarts(t) ==
    /\ tick[t].pc = "idle"
    /\ deployed # "disabled"
    /\ tick' = [tick EXCEPT ![t] =
         [Resting EXCEPT !.pc = "hold", !.mode = LaunchMode(deployed)]]
    /\ UNCHANGED <<row, agreed, session, env>>

GateFirst_Bug(t) ==
    /\ tick[t].pc = "hold"
    /\ IF Missed /\ tick[t].mode # "none" THEN Write(Moved("paused")) ELSE UNCHANGED row
    /\ Steps(t, IF tick[t].mode = "none" THEN "active" ELSE "list")
    /\ UNCHANGED <<agreed, session, env>>

\* sending_hold_missed_campaigns
HoldMissed(t) ==
    /\ tick[t].pc = "hold"
    /\ IF Missed THEN Write(Moved("paused")) ELSE UNCHANGED row
    /\ Steps(t, IF tick[t].mode = "none" THEN "active" ELSE "list")
    /\ UNCHANGED <<agreed, session, env>>

\* sending_due_campaigns
ListDue(t) ==
    /\ tick[t].pc = "list"
    /\ IF Due /\ ~Missed THEN Steps(t, "load") ELSE Proceeds(t)
    /\ UNCHANGED <<row, agreed, session, env>>

Scheduling(s) == session[s].intent = "schedule"

\* loadCampaignContext and the verdict of promote.
LoadContext(t) ==
    /\ tick[t].pc = "load"
    /\ IF row.status # "scheduled" THEN Proceeds(t)
       ELSE \/ Steps(t, "refuse")
            \/ /\ row.approved = tick[t].mode
               /\ tick' = [tick EXCEPT ![t] =
                    [@ EXCEPT !.pc = "launch", !.saw = row, !.met = {s \in Sessions : Scheduling(s)}]]
    /\ UNCHANGED <<row, agreed, session, env>>

\* sending_pause_campaign, from scheduled
RefuseLaunch(t) ==
    /\ tick[t].pc = "refuse"
    /\ IfStill("scheduled", Moved("paused"))
    /\ Proceeds(t)
    /\ UNCHANGED <<agreed, session, env>>

AnyTime_Bug(mode) == row.status = "scheduled" /\ row.approved = mode

\* sending_promote_campaign's WHERE
Launchable(mode) == Due /\ row.approved = mode

Promote(t) ==
    /\ tick[t].pc = "launch"
    /\ IF Launchable(tick[t].mode)
          THEN Write([row EXCEPT !.status = "queued", !.mode = tick[t].mode])
          ELSE UNCHANGED row
    /\ Proceeds(t)
    /\ UNCHANGED <<agreed, session, env>>

\* sending_active_campaigns
ListActive(t) ==
    /\ tick[t].pc = "active"
    /\ IF row.status \in {"queued", "sending"} THEN Steps(t, "work") ELSE Rests(t)
    /\ UNCHANGED <<row, agreed, session, env>>

\* Materialising, a halt of the provider or of the sender, finishing: each is a
\* statement that looks at the status again (DeliveryLedger has their jobs).
Work(t) ==
    /\ tick[t].pc = "work"
    /\ \/ row.status = "queued"  /\ Write(Moved("sending"))
       \/ row.status = "sending" /\ \E s \in {"paused", "completed", "failed"} : Write(Moved(s))
    /\ UNCHANGED <<agreed, session, tick, env>>

TickEnds(t) ==
    /\ tick[t].pc = "work"
    /\ Rests(t)
    /\ UNCHANGED <<row, agreed, session, env>>

TickDies(t) ==
    /\ tick[t].pc # "idle"
    /\ faults < MaxFaults
    /\ faults' = faults + 1
    /\ Rests(t)
    /\ UNCHANGED <<row, agreed, session, deployed, now>>

TickSteps(t) ==
    \/ TickStarts(t) \/ HoldMissed(t) \/ ListDue(t) \/ LoadContext(t)
    \/ RefuseLaunch(t) \/ Promote(t) \/ ListActive(t) \/ TickEnds(t)

-----------------------------------------------------------------------------
(* The world *)

Deploy ==
    /\ faults < MaxFaults
    /\ faults' = faults + 1
    /\ deployed' \in Deployments \ {deployed}
    /\ UNCHANGED <<row, agreed, session, tick, now>>

\* A tick sees the clock advance once at most: a unit is its maxDuration.
ClockAdvances ==
    /\ now < LastTime
    /\ \A t \in Ticks : ~tick[t].aged
    /\ now' = now + 1
    /\ tick' = [t \in Ticks |-> [tick[t] EXCEPT !.aged = tick[t].pc # "idle"]]
    /\ UNCHANGED <<row, agreed, session, deployed, faults>>

\* What an edit may do to the schedule: clear it, leave it, set it.
Schedules == {Never, row.at} \cup Dates

Next ==
    \/ \E setup \in Setups \cup {"none"}, at \in Schedules : Edit(setup, at)
    \/ Unschedule \/ Cancel \/ Delete \/ PauseSending
    \/ \E s \in Sessions :
         \/ \E intent \in {"check", "schedule"} : BeginPreflight(s, intent)
         \/ Judge(s) \/ Reject(s) \/ Freeze(s)
         \/ BeginResume(s) \/ Resume(s) \/ SessionDies(s)
    \/ \E t \in Ticks : TickSteps(t) \/ Work(t) \/ TickDies(t)
    \/ Deploy \/ ClockAdvances

\* The cron calls the worker every minute, and a tick that is not cut off takes
\* its next step; nobody is obliged to use the application.
Fairness ==
    /\ WF_vars(ClockAdvances)
    /\ \A t \in Ticks : WF_vars(TickSteps(t))

Spec == Init /\ [][Next]_vars /\ Fairness

-----------------------------------------------------------------------------
(* Properties *)

\* From the statement that schedules it a campaign keeps its list, sender,
\* template, time, frozen content and approval until it is a draft again, and
\* it is launched as it was scheduled, in the approved mode, or not at all.
\* No unschedule, late edit, stale request or change of the deployment's mode
\* gets between the approval and the launch (0012, ADR-0004).
Approved(r) == [r EXCEPT !.status = "scheduled", !.mode = "none"]

LaunchedAsApproved ==
    /\ row.status \in {"scheduled", "queued", "sending", "paused", "completed", "failed"}
         => Approved(row) = agreed
    /\ Launched(row) => Approved(row) = agreed /\ row.mode = agreed.approved

\* A launched campaign is history: it never becomes a draft, never waits for
\* its schedule again and is not deleted, so nothing can launch it again; and
\* only a launched campaign sends (0010:77-100).
LaunchIsHistory ==
    /\ Launched(row) => row.status \notin {"draft", "validating", "scheduled", "deleted"}
    /\ row.status \in {"queued", "sending", "completed"} => Launched(row)

\* The check constraint on the table, as far as the clock needs it.
ScheduledHasTime == row.status = "scheduled" => row.at # Never

\* Only a tick that may launch gets as far as listing due campaigns, and what it
\* listed was due at the time.
TickSawDue ==
    \A t \in Ticks :
        /\ tick[t].pc \in {"list", "load", "refuse", "launch"} => tick[t].mode \in Modes
        /\ tick[t].pc \in {"load", "refuse", "launch"} =>
             \/ row.at = Never
             \/ now < row.at + Grace
             \/ tick[t].aged /\ now = row.at + Grace

\* The inductive invariant behind the theorems: the row is as it was approved,
\* and a tick that is about to launch is not late.
LifecycleIInv == LifecycleTypeOK /\ LaunchedAsApproved /\ LaunchIsHistory
                   /\ ScheduledHasTime /\ TickSawDue

\* A launch comes at or after the scheduled time and not later than one tick's
\* life past the grace window: a campaign whose time was missed is held
\* (0010:534-563, ADR-0002 5.1).
LaunchesOnTime ==
    [][~Launched(row) /\ Launched(row') => row.at <= now /\ now <= row.at + Grace]_vars

\* What a tick launches is what its own launch preflight passed, unless a request
\* that was scheduling when the tick judged froze the campaign after it: one that
\* began later, on a campaign unscheduled, changed and checked again meanwhile,
\* cannot schedule it for a time at which this tick launches (worker.ts:296-346,
\* campaigns/service.ts:375-487).
LaunchedAsJudged ==
    [][~Launched(row) /\ Launched(row') =>
         \E t \in Ticks :
             tick[t].pc = "launch" /\ (tick[t].saw = row \/ tick[t].overtaken)]_vars

\* While the deployment is not disabled for good, no campaign waits for its
\* schedule for ever: it is launched, refused, held as missed, or taken out by
\* a person, however the ticks, requests and crashes fall.
ScheduleIsDecided ==
    <>[](deployed # "disabled") =>
        (row.status = "scheduled" ~> row.status # "scheduled")
=============================================================================
