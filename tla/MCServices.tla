------------------------------ MODULE MCServices ------------------------------
(***************************************************************************)
(* The services around sending for TLC, one part to a behaviour: the       *)
(* contact book, a sending domain, the send budget, claims under the       *)
(* cooldown, the templates and the intake of events move; the texts,       *)
(* messages, records and decisions are initial states that never do, each  *)
(* a bounded input of its rules.                                           *)
(***************************************************************************)
EXTENDS Audience, Sender, SendBudget, ClaimCooldown, EventIntake, SendRules, TLC

VARIABLES part, \* which service, or which rules the input is for
          case  \* the input

Pure == <<part, case>>

\* Two of three contacts share a moment of creation.
MCBook == [c \in 1..3 |-> [email |-> <<"a", "b", "c">>[c], status |-> "active", at |-> IF c = 3 THEN 2 ELSE 1]]

\* Two jobs to one address, each of a live campaign that is named after it.
MCCampaignOf == [j \in Jobs |-> j]
MCAddressOf  == [j \in Jobs |-> "a"]
MCModeOf     == [j \in Jobs |-> "live"]

\* Notices are interchangeable, and so are the requests that serve them.
MCServed == Permutations(Notices) \cup Permutations(Handlers)

-----------------------------------------------------------------------------
(* Bodies: every three of these fragments, most of them unbalanced.        *)
Fragments ==
  { <<"x">>, <<" ">>, <<"&", "lt", ";">>, <<"&">>, <<"<", " ", "x">>, <<"nl">>, <<"<", "p", ">">>, <<"</", "p", ">">>,
    <<"<", "div", " ", "style", "=", "quote", "display:", "none", "quote", ">">>, <<"</", "div", ">">>,
    <<"<", "p", " ", "style", "=", "quote", "color:", "&", "amp", ";", "amp", ";", "lt", "quote", " ", "title", "=", "apos", "quote", "apos", ">">>,
    <<"<", "div", " ", "style", "=", "apos", "color:", "&", "amp", ";", "amp", ";", "lt", ";", " ", "display:", "none", "apos", ">">>,
    <<"<", "a", " ", "href", "=", "quote", "https:", "&", "z", "quote", " ", "target", "=", "_blank", ">">>, <<"</", "a", ">">>,
    <<"<", "a", " ", "href", "=", "quote", "ftp:", "quote", ">">>,
    <<"<", "img", " ", "src", "=", "data:", " ", "style", "=", "apos", "color:", " ", "red", ";", "y", ";", "display:", "none", "apos", "/", ">">>,
    <<"<", "br", ">">>, <<"<", "font", ">">>, <<"<!", "--">>, <<"--", ">">>, <<"<", "style", ">">>, <<"</", "style", ">">>,
    <<"<", "li", ">">>, <<"<", "td", " ", "title">> }
Docs == {a \o b \o c : a, b, c \in Fragments}

Lines == {<<"x">>, <<"#", " ", "x">>, <<"-", " ", "y", "&">>, <<"**", "x", "**", "y", "**">>, <<>>,
          <<"x", " ", "https:", "&", "x", " ", "**", "y", "**">>, <<" ", "<", "p", ">">>, <<"&", "lt", ";">>, <<"**", "**">>}
SimpleTexts == {a \o <<"nl">> \o b \o <<"nl">> \o c : a, b, c \in Lines}

(* Templates as typed, and contacts with values that look like more.       *)
Field(v) == <<"{", "{", v, "}", "}">>
Subjects == {<<"x">>, Field("first_name"), <<"x">> \o Field("email"), <<" ", "ctl">>, <<"x", "ctl">>, <<"{", "{", "x">>}
Htmls ==
  { <<"<", "p", ">">> \o Field("first_name"), <<"<", "form", ">", "x">>,
    <<"<", "a", " ", "href", "=", "quote">> \o Field("website") \o <<"quote", ">", "x">>,
    <<"x">> \o <<"{", "{", " ", "full_name", " ", "}", "}">>, <<"x", "<!", "--">> \o Field("frist_name"),
    <<"<", "style", ">">> \o Field("email") \o <<"</", "style", ">", "y">>,
    <<"<", "p", " ", "style", "=", "quote", "color:", "&", "amp", ";", "amp", ";", "lt", "quote", ">">> \o Field("first_name"),
    <<"<", "img", " ", "title", "=", "quote", "{", "{", "company", "}", "}", "quote", ">", "y">> }
Typed == [subject : Subjects, preview : {<<>>, Field("first_name"), <<"y", "nl", "y">>}, html : Htmls,
          text : {<<>>, <<"x", "nl", " ">> \o Field("custom.plan"), <<"}", "}">>}]
Somebody == [first_name |-> <<>>, last_name |-> <<"y">>, company |-> <<"quote", " ", "title">>, website |-> <<"ftp:", "y">>,
             phone |-> <<>>, plan |-> <<"x">>, email |-> <<"me", "@", "x">>]
Anybody == {[Somebody EXCEPT !.first_name = v] :
              v \in {<<>>, Field("email"), <<"x", "ctl", "nl">>, <<"<", "p", ">">>, <<"ftp:", "x">>}}
Addresses == {<<" ", "nl">>, <<"x", "nl", "y">>}

Headers == [widths : UNION {[1..n -> 1..4] : n \in 0..5}, name : {<<"x">>}]
           \cup [widths : {<<1>>}, name : UNION {[1..n -> {"x", "quote", "backslash", " "}] : n \in 0..4}]

(* What a domain publishes, and what somebody types for one.               *)
Records == {<<"v=spf1">>, <<"v=spf1", "+all">>, <<"v=spf1", "include:amazonses.com", "-all">>, <<"v=DMARC1", <<"p", "reject">>>>,
            <<"v=DMARC1", <<"sp", "none">>>>, <<"other">>}
Published3 == UNION {[1..n -> Records] : n \in 0..3}
TypedNames == UNION {[1..n -> PlainLabels \cup {"-bad"}] : n \in 0..4}

(* SNS messages, and two that are published.                               *)
People == {Odd, <<>>, <<[normalized |-> "a@x"], [normalized |-> "a@x"]>>, <<[normalized |-> Odd]>>}
TagSets == {Missing, Odd} \cup [job_id : {"job1", Odd, Missing}, attempt_no : {1, Odd, Missing}]
Bodies == {Missing, Odd} \cup [recipients : People, timestamp : {"noon", Odd}]
Mails == {Missing} \cup [messageId : {"id1", Odd, Missing}, tags : TagSets, recipients : People, timestamp : {"noon", Odd}]
SesMessages == [eventType : {Missing, "Bounce", "Send", "Open"}, notificationType : {Missing, "Complaint"}, mail : Mails, body : Bodies]
Bounce == [eventType |-> "Bounce", notificationType |-> Missing,
           mail |-> [messageId |-> "id1", tags |-> [job_id |-> "job1", attempt_no |-> 1], recipients |-> <<>>, timestamp |-> Odd],
           body |-> [recipients |-> <<[normalized |-> "a@x"]>>, timestamp |-> "noon"]]
MCMails == {[type |-> "Notification", message |-> Bounce], [type |-> "Notification", message |-> [Bounce EXCEPT !.body = Missing]],
            [type |-> "SubscriptionConfirmation", message |-> "hello"]}

-----------------------------------------------------------------------------
(* Campaigns before the preflight.                                         *)
Stored(subject, html, vars) ==
  [subject |-> subject, preview |-> NoText, html |-> html, text |-> <<"x">>, variables |-> vars, version |-> 2]
Rows == {Null, Stored(<<"x">>, <<"y">>, {}), Stored(Field("first_name"), <<"y">>, {"first_name"}),
         Stored(<<" ">>, <<"y">>, {}), Stored(<<"x">>, Field("nl"), {})}
Counts == {[total |-> n[1], eligible |-> n[2], suppressed |-> n[3], inactive |-> n[4], capped |-> n[5]] :
             n \in {<<0, 0, 0, 0, FALSE>>, <<2, 0, 1, 1, FALSE>>, <<3, 1, 1, 1, TRUE>>}}
Readiness == {Null} \cup [blockers : {{}, {"spf_not_verified"}}, warnings : {{"dmarc_not_enforcing"}}]
Plans ==
  [intent : {"schedule"}, status : {"draft"}, listId : {1, Null}, list : {1, Null}, audience : Counts,
   senderId : {1, Null}, readiness : Readiness, templateId : {1, Null}, template : Rows, snapshot : {Null},
   requires : BOOLEAN, address : {<<" ">>, <<"x">>}, mechanism : BOOLEAN, scheduledAt : {NoTime, 1, 3, 9}, now : {2}, render : {Null}]

Zones == [before : -2..2, after : -2..2, change : 0..6]
Envs == [mode : {"disabled", "dry_run", "live"}, app : {"production", "preview"}, has : {Settings} \cup {Settings \ {x} : x \in Settings},
         topic : {Null, [region |-> "r1", account |-> "a1"]}, region : {Null, "r1", "r2"}, account : {Null, "a1", "a2"}]
LiveEnv == [mode |-> "live", app |-> "production", has |-> Settings, topic |-> [region |-> "r1", account |-> "a1"], region |-> "r1", account |-> Null]
Replies == [ended : {"connect failed", "timeout", "network error"}]
           \cup [ended : {"answered"}, status : {200, 400, 403, 404, 429, 500}, body : {"message id", "other"},
                 error : {"none"} \cup Halting \cup Transient \cup PermanentErrors]
Ends == [reply : Replies, attempts : 1..5, env : {LiveEnv}, mode : {"live"}]
        \cup [reply : {[ended |-> "timeout"]}, attempts : {1}, env : Envs, mode : {"dry_run", "live"}]
Limits == [sendingEnabled : BOOLEAN, known : BOOLEAN, maxSendRate : {0, 1, 14}, max24HourSend : {-1, 0, 200}, sentLast24Hours : {0, 150, 250}]
Healths == [sample : {0, 99, 100, 101, 125, 500}, bounced : {0, 3, 4, 5, 19, 20}, complained : {0, 1}]
NoBounce == [sample |-> 500, bounced |-> 0, complained |-> 0]
NoQuota == [sendingEnabled |-> TRUE, known |-> FALSE, maxSendRate |-> 14, max24HourSend |-> -1, sentLast24Hours |-> 0]
Measures == [limits : Limits, tenths : {0, 1, 8, 12}, health : {NoBounce}]
            \cup [limits : {NoQuota}, tenths : {8}, health : Healths]

-----------------------------------------------------------------------------
MCInit ==
  /\ AudienceInit /\ SenderInit /\ BudgetInit /\ CooldownInit /\ TemplateInit /\ IntakeInit
  /\ \/ part \in {"audience", "sender", "budget", "claims", "templates", "intake"} /\ case = Missing
     \/ part = "body" /\ case \in Docs
     \/ part = "simple" /\ case \in SimpleTexts
     \/ part = "typed" /\ case \in Typed
     \/ part = "header" /\ case \in Headers
     \/ part = "records" /\ case \in Published3
     \/ part = "name" /\ case \in TypedNames
     \/ part = "event" /\ case \in SesMessages
     \/ part = "plan" /\ case \in Plans
     \/ part = "clock" /\ case \in [wall : -3..9, zone : Zones, now : 0..3]
     \/ part = "end" /\ case \in Ends
     \/ part = "limits" /\ case \in Measures

MCNext ==
  /\ UNCHANGED Pure
  /\ \/ part = "audience" /\ AudienceNext /\ UNCHANGED <<senderVars, budgetVars, cooldownVars, templateVars, intakeVars>>
     \/ part = "sender" /\ SenderNext /\ UNCHANGED <<audienceVars, budgetVars, cooldownVars, templateVars, intakeVars>>
     \/ part = "budget" /\ BudgetNext /\ UNCHANGED <<audienceVars, senderVars, cooldownVars, templateVars, intakeVars>>
     \/ part = "claims" /\ CooldownNext /\ UNCHANGED <<audienceVars, senderVars, budgetVars, templateVars, intakeVars>>
     \/ part = "templates" /\ TemplateNext /\ UNCHANGED <<audienceVars, senderVars, budgetVars, cooldownVars, intakeVars>>
     \/ part = "intake" /\ IntakeNext(MCMails) /\ UNCHANGED <<audienceVars, senderVars, budgetVars, cooldownVars, templateVars>>

-----------------------------------------------------------------------------
(* sanitize.ts, text.ts, simple.ts: a sanitised body is balanced, and      *)
(* settled but for a style that can still be decoded; its text says what   *)
(* it shows, and what Simple mode wrote reopens in it.                     *)
BodiesReadBack ==
  /\ part = "body" => \A s \in {SanitizeHtml(case)} : SanitisedIsSettled(s) /\ TextCarriesTheMessage(s, HtmlToText(s))
  /\ part = "simple" => SimpleModeReopens(ToSimpleHtml(case), Blocks(case))

(* service.ts, render.ts, compose.ts, mime.ts: what could be saved renders *)
(* for everybody, and what was approved is what is sent.                   *)
MessagesAsApproved ==
  /\ part = "typed" => \A t \in {PrepareTemplate(case)} \ {Refusal} :
       /\ \A c \in Anybody : SavedTemplateRenders(t, BuildPreview(t, c))
       /\ \A r \in BOOLEAN, u \in {<<>>, <<"https:">>}, a \in Addresses, c \in {[Somebody EXCEPT !.first_name = Field("email")]} :
            MessageIsThePreview(BuildPreview(t, c), ComposeMessage(t, MergeData(c), c.email, r, u, a), c, r, u, a)
  /\ part = "header" => HeadersReadBack(case.widths, case.name)

(* preflight.ts, schedule.ts, gate.ts, ses-send-client.ts, limits.ts,      *)
(* 0017, and the readers of DNS records, names and events they rest on.    *)
DecisionsHold ==
  /\ part = "plan" =>
       \A asked \in {ServiceInput(case, "schedule", Rendered(case.template))},
          later \in {LaunchInput(Frozen(case), Rendered(Frozen(case).snapshot))} :
         \A judged \in {EvaluateCampaignPreflight(asked)} :
           /\ LaunchJudgesTheSame(judged, EvaluateCampaignPreflight(later))
           /\ Ready(judged) => \A c \in {[Somebody EXCEPT !.plan = Opaque]} :
                ReadyComposes(case, c, ComposeMessage(case.template, MergeData(c), c.email, case.requires, <<"https:">>, case.address))
  /\ part = "clock" => WallClocksAreKept(case.wall, case.zone, case.now)
  /\ part = "end" => \A valid \in BOOLEAN : OutcomesAreHonest(valid, case.reply, case.attempts, case.env, case.mode)
  /\ part = "limits" => LimitsAreKept(case.limits, case.tenths, case.health)
  /\ part = "records" => ShownRecordsPass(case)
  /\ part = "name" => AcceptedNamesResolve(case)
  /\ part = "event" => FeedbackIsReadable(case)
=============================================================================
