---------------------------- MODULE SendDecisions ----------------------------
(***************************************************************************)
(* The decisions of sending that need no state of their own: the verdict   *)
(* of the preflight, the schedule a wall clock names, the gate of live     *)
(* sending and the provider it opens, what a send that ended somehow is    *)
(* taken for and when it is tried again, the budget of the provider's      *)
(* limits, and the health that pauses a workspace.  Who asks for them, and *)
(* when, is in CampaignLifecycle and SendEngine.  Of a text only its being *)
(* blank is asked for, and what it was rendered to; SendRules gives both.  *)
(***************************************************************************)
EXTENDS Integers, FiniteSetsExt

CONSTANTS Null,         \* a column that is null, or a row that is not there
          NoText,       \* a preview text that is null
          IsBlank(_),   \* whether nothing is left of a text once trimmed
          MinLead,      \* MIN_SCHEDULE_LEAD_MS
          FarFuture,    \* FAR_FUTURE_MS
          MaxAhead      \* MAX_SCHEDULE_AHEAD_MS

NoTime == -1

-----------------------------------------------------------------------------
(* schedule.ts.  Times are minutes; a zone changes its offset once.        *)
OffsetAt(zone, instant) == IF instant < zone.change THEN zone.before ELSE zone.after

ZonedWallClockToUtc(wall, zone) ==
  LET firstPass == wall - OffsetAt(zone, wall) IN wall - OffsetAt(zone, firstPass)

ToLocalInputValue(instant, zone) == instant + OffsetAt(zone, instant)

Lateness(at, now, lead) ==
  IF at < now THEN "in_past" ELSE IF at < now + lead THEN "too_soon" ELSE IF at > now + MaxAhead THEN "too_far" ELSE "ok"

ParseScheduleRequest(wall, zone, now) ==
  LET at == ZonedWallClockToUtc(wall, zone) IN [at |-> at, verdict |-> Lateness(at, now, MinLead)]

CheckStoredSchedule(at, now) == IF at = NoTime THEN "empty" ELSE Lateness(at, now, 0)

-----------------------------------------------------------------------------
(* preflight.ts: the issues of each part, by severity.                     *)
Issue(severity, code, holds) == IF holds THEN {<<severity, code>>} ELSE {}
Blocker(code, holds) == Issue("blocker", code, holds)

CampaignIssues(p) ==
  IF p.intent = "launch"
  THEN Blocker("campaign_not_launchable", p.status \notin {"scheduled", "paused"})
       \cup Blocker("template_snapshot_missing", p.snapshot = Null)
  ELSE Blocker("campaign_not_editable", p.status \notin {"draft", "validating"})

(* The first of the rows that applies, and with a usable audience the rest.*)
AudienceIssues(p) ==
  IF p.listId = Null THEN Blocker("audience_missing", TRUE)
  ELSE IF p.list = Null THEN Blocker("audience_unavailable", TRUE)
  ELSE IF p.audience.total = 0 THEN Blocker("audience_empty", TRUE)
  ELSE IF p.audience.eligible = 0 THEN Blocker("audience_no_eligible", TRUE)
  ELSE Issue("info", "audience_size", TRUE)
       \cup Issue("warning", "audience_has_suppressed", p.audience.suppressed > 0)
       \cup Issue("warning", "audience_has_inactive", p.audience.inactive > 0)
       \cup Issue("warning", "audience_count_capped", p.audience.capped)

(* The readiness of the sender is Sender's EvaluateSenderReadiness.        *)
SenderIssues(p) ==
  IF p.senderId = Null THEN Blocker("sender_not_selected", TRUE)
  ELSE IF p.readiness = Null THEN Blocker("sender_identity_missing", TRUE)
  ELSE {<<"blocker", b>> : b \in p.readiness.blockers} \cup {<<"warning", w>> : w \in p.readiness.warnings}
       \cup Issue("info", "sender_from", p.readiness.blockers = {})

PersonalizationIssues(p) ==
  IF p.render = Null THEN Blocker("personalization_render_failed", TRUE)
  ELSE {<<"blocker", problem>> : problem \in p.render.issues}
       \cup Issue("warning", "personalization_missing_values", p.render.missing # {})
       \cup Issue("info", "personalization_none", p.template.variables = {})

TemplateIssues(p) ==
  LET empty(part) == IsBlank(p.template[part]) IN
  IF p.templateId = Null THEN Blocker("template_not_selected", TRUE)
  ELSE IF p.template = Null THEN Blocker("template_unavailable", TRUE)
  ELSE Blocker("template_subject_empty", empty("subject"))
       \cup Blocker("template_body_empty", empty("html"))
       \cup Blocker("template_text_empty", empty("text"))
       \cup Issue("warning", "template_no_preview_text", p.template.preview = NoText)
       \cup Issue("warning", "template_snapshot_stale",
                  p.snapshot # Null /\ p.snapshot.version # p.template.version)
       \cup Issue("info", "template_version", TRUE) \cup PersonalizationIssues(p)

UnsubscribeIssues(p) ==
  IF ~p.requires THEN Issue("warning", "unsubscribe_not_required", TRUE)
  ELSE Blocker("postal_address_missing", IsBlank(p.address))
       \cup Blocker("unsubscribe_mechanism_unavailable", ~p.mechanism)

ScheduleIssues(p) ==
  LET verdict == CheckStoredSchedule(p.scheduledAt, p.now) IN
  IF p.intent = "launch" THEN {}
  ELSE IF verdict = "empty" /\ p.intent = "check" THEN Issue("info", "schedule_missing", TRUE)
  ELSE IF verdict # "ok" THEN Blocker(verdict, TRUE)
  ELSE Issue("info", "schedule_time", TRUE)
       \cup Issue("warning", "schedule_far_future", p.scheduledAt > p.now + FarFuture)

EvaluateCampaignPreflight(p) ==
  CampaignIssues(p) \cup AudienceIssues(p) \cup SenderIssues(p) \cup TemplateIssues(p)
    \cup UnsubscribeIssues(p) \cup ScheduleIssues(p)

Ready(issues) == \A issue \in issues : issue[1] # "blocker"

(* The two callers: the service judges the template as it is, the worker   *)
(* the frozen copy, each with what that renders to for the sample contact. *)
ServiceInput(p, intent, render) == [p EXCEPT !.intent = intent, !.render = render]
Frozen(p) == [p EXCEPT !.status = "scheduled", !.snapshot = p.template]
LaunchInput(p, render) == [p EXCEPT !.intent = "launch", !.template = p.snapshot, !.render = render]

-----------------------------------------------------------------------------
(* gate.ts, config.ts, provider/index.ts.  An environment is its mode and  *)
(* the settings that are there.                                            *)
Settings == {"credentials", "configuration_set", "unsubscribe_secret", "worker_secret", "https_app_url"}

EventPipelineConfigured(topic, region, account) ==
  /\ topic # Null /\ region # Null
  /\ topic.region = region /\ account \in {Null, topic.account}

EvaluateLiveGate(env) ==
  {requirement \in Settings : requirement \notin env.has}
    \cup (IF env.mode = "live" THEN {} ELSE {"mode_is_live"})
    \cup (IF env.app = "production" THEN {} ELSE {"production_environment"})
    \cup (IF EventPipelineConfigured(env.topic, env.region, env.account) THEN {} ELSE {"event_pipeline"})

UnsubscribeMechanismAvailable(env) == "unsubscribe_secret" \in env.has

OutboundProviderFor(executionMode, env) ==
  IF executionMode = "dry_run" THEN "dry run"
  ELSE IF EvaluateLiveGate(env) # {} THEN Null ELSE "ses"

-----------------------------------------------------------------------------
(* ses.ts, ses-send-client.ts.  A reply is how the call ended and, of an   *)
(* answer, its status, its body and the error it names.                    *)
Halting == {"AccountSuspended", "AccessDenied", "ConfigurationSetNotFound"}
Transient == {"Throttling", "ServiceUnavailable"}
PermanentErrors == {"MessageRejected", "BadRequest"}

ClassifySesError(status, error) ==
  IF error \in Halting THEN "halt" ELSE IF error \in Transient THEN "transient" ELSE IF error \in PermanentErrors THEN "permanent"
  ELSE IF status \in {401, 403} THEN "halt" ELSE IF status = 429 \/ status >= 500 THEN "transient" ELSE "permanent"

Outcome(status, class) == [status |-> status, class |-> class]

TimeoutIsRefusal_Bug(reply) ==
  IF reply.ended # "answered" THEN Outcome("rejected", "transient")
  ELSE IF reply.status = 200 THEN Outcome("accepted", "none")
  ELSE Outcome("rejected", ClassifySesError(reply.status, reply.error))

SendEmail(reply) ==
  IF reply.ended = "connect failed" THEN Outcome("rejected", "transient")
  ELSE IF reply.ended \in {"timeout", "network error"} THEN Outcome("unknown", "none")
  ELSE IF reply.status = 200 THEN (IF reply.body = "message id" THEN Outcome("accepted", "none") ELSE Outcome("unknown", "none"))
  ELSE Outcome("rejected", ClassifySesError(reply.status, reply.error))

SesSend(valid, reply) == IF valid THEN SendEmail(reply) ELSE Outcome("rejected", "permanent")

(* retry.ts: the earliest and the latest moment of the next attempt, in    *)
(* units of ten seconds; after the last one there is none.                 *)
MaxSends == 5
BackoffCeiling == <<6, 24, 90, 360>>
HaltRetryDelay == 90
NextAttemptAt(attempts) ==
  IF attempts \in DOMAIN BackoffCeiling THEN [from |-> 1, to |-> BackoffCeiling[attempts]] ELSE Null

(* worker.ts: when a rejected message is tried again.                      *)
RetryAt(class, attempts) ==
  CASE class = "transient" -> NextAttemptAt(attempts)
    [] class = "halt" -> [from |-> HaltRetryDelay, to |-> HaltRetryDelay] [] OTHER -> Null

-----------------------------------------------------------------------------
(* limits.ts.  The safety factor is in tenths, between one and ten; a      *)
(* daily limit below zero is none.                                         *)
Unlimited == 1000
BudgetFromLimits(limits, tenths) ==
  LET factor == Min({10, Max({1, tenths})})
      dailyCap == IF limits.max24HourSend < 0 THEN Unlimited ELSE (limits.max24HourSend * factor) \div 10 IN
  IF ~limits.sendingEnabled THEN [perMinute |-> 0, remainingToday |-> 0]
  ELSE IF ~limits.known THEN Null
  ELSE [perMinute |-> (limits.maxSendRate * 60 * factor) \div 10, remainingToday |-> Max({0, dailyCap - limits.sentLast24Hours})]

(* 0017, events_health_guard, and health.ts beside it.                     *)
HealthGuard(h) ==
  IF h.sample < 100 THEN Null
  ELSE IF h.complained * 10000 >= h.sample * 8 THEN "complaint_rate_high"
  ELSE IF h.bounced * 100 >= h.sample * 4 THEN "bounce_rate_high"
  ELSE Null

DescribeHealth(h) ==
  LET over == h.bounced * 100 >= h.sample * 4 \/ h.complained * 10000 >= h.sample * 8 IN
  IF h.sample = 0 THEN "no_data" ELSE IF h.sample < 100 THEN "too_few" ELSE IF over THEN "over_threshold" ELSE "healthy"

-----------------------------------------------------------------------------
(* preflight.ts, launch.ts: the launch judges as the schedule did.  A      *)
(* campaign found ready when it was scheduled is ready when it is launched *)
(* while nothing it rests on has changed, with no new warning.             *)
LaunchJudgesTheSame(judged, launch) ==
  Ready(judged) => Ready(launch) /\ {issue \in launch : issue[1] = "warning"} \subseteq judged

(* schedule.ts, 95: a wall clock that the zone shows becomes an instant    *)
(* that shows it, also on the day its offset changes; one it skips, an     *)
(* instant not an hour beside; and what the schedule form accepts the      *)
(* checks after it do not refuse before its time.                          *)
WallClocksAreKept(wall, zone, now) ==
  LET request == ParseScheduleRequest(wall, zone, now)
      meant == {wall - zone.before, wall - zone.after}
      shown == {u \in meant : ToLocalInputValue(u, zone) = wall} IN
  /\ request.at \in IF shown = {} THEN meant ELSE shown
  /\ request.verdict = "ok" =>
       \A later \in now..request.at : CheckStoredSchedule(request.at, later) = "ok"

(* provider/types.ts, 26: an outcome is taken for a rejection only when    *)
(* the message was certainly not sent, and a message is given up or tried  *)
(* again only then; a rehearsal never reaches SES; a live message has its  *)
(* links signed and its events coming back.                                *)
MayBeSent(valid, reply) ==
  /\ valid /\ reply.ended # "connect failed"
  /\ reply.ended = "answered" => reply.status = 200

OutcomesAreHonest(valid, reply, attempts, env, mode) ==
  LET outcome == SesSend(valid, reply)
      provider == OutboundProviderFor(mode, env) IN
  /\ outcome.status = "rejected" => ~MayBeSent(valid, reply)
  /\ outcome.status = "accepted" => MayBeSent(valid, reply)
  /\ (outcome.class = "transient" /\ attempts < MaxSends) => RetryAt(outcome.class, attempts).from > 0
  /\ provider = "ses" =>
       /\ mode = "live" /\ env.mode = "live"
       /\ UnsubscribeMechanismAvailable(env) /\ env.topic.region = env.region

(* limits.ts, 0017:251, health.ts: never more than the provider allows;    *)
(* and the page says over the threshold exactly when the next event        *)
(* pauses - never below a hundred messages, always at four in a hundred.   *)
LimitsAreKept(limits, tenths, h) ==
  LET budget == BudgetFromLimits(limits, tenths) IN
  /\ budget # Null =>
       /\ budget.perMinute <= limits.maxSendRate * 60
       /\ limits.max24HourSend >= 0 => budget.remainingToday <= limits.max24HourSend
       /\ ~limits.sendingEnabled => budget.perMinute = 0
  /\ (HealthGuard(h) # Null) = (DescribeHealth(h) = "over_threshold")
  /\ (HealthGuard(h) # Null) => h.sample >= 100 /\ h.bounced + h.complained > 0
  /\ (h.sample >= 100 /\ h.bounced * 25 >= h.sample) => HealthGuard(h) # Null
=============================================================================
