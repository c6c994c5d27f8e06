# Verification of the sending system

This directory specifies Bulk Email Uploader, first of all the part that can do
irreversible harm: the code that decides whether a person is sent a message, once,
twice or not at all; and then what that code rests on, from the spreadsheet that
names the person to the webhook that reports what became of the message. The
specifications are TLA+; TLC checks them on small instances, and TLAPS proves every
safety property of a protocol for every number of jobs, campaigns, attempts, ticks,
notifications, imports, servers, contacts and requests, and most of what is said of
decisions for every input. What is left to TLC alone is liveness, and what is said of
texts and of the bytes of files (section 4).

Paths below are relative to the repository root. ADR-*n* is `docs/adr/000n-*.md`,
and a four-digit number such as 0010 is the migration `supabase/migrations/0010_*.sql`.

## 1. The system

A Next.js application over a Supabase PostgreSQL database. Almost all of the state
that matters is in tables, and almost every state change of the sending path is one
SQL function, which is one transaction. What calls those functions is not: a
serverless worker that is started every minute, may overlap with itself and may be
killed between any two awaits; webhooks that arrive in any order and more than once;
people in a browser.

| Component | State it keeps | Operations | Talks to |
|---|---|---|---|
| **Delivery tables** (0010, 0012, 0013, 0015, 0017; `src/lib/sending/store.ts`, `service.ts`) | `email_jobs`, `send_attempts`, `campaigns.status` and `n_*`, `suppressions` | `sending_*` functions, the guard triggers, the suppression and cancellation triggers, pause, resume, cancel, resolve | called by worker, webhooks, people |
| **Send tick** (`src/lib/sending/worker.ts`, `api/internal/worker/tick/route.ts`, `supabase/ops/p5_schedule.sql`) | only memory: snapshot of campaigns, the claimed batch, verdicts, lanes, halt flag | reap, reconcile, hold missed schedules, list, launch, materialise, claim, check, send, finish | delivery tables, budget, SES |
| **SES adapter** (`src/lib/sending/provider/*`) | none | send, classify the answer | SES; the answer may be lost |
| **Send budget** (0010 `rate_ledger`, 0013, `limits.ts`) | reservations by minute; for the contact cooldown, the jobs of an address | reserve, refund, claim under the lock | send tick |
| **Provider events** (0016, 0017, `src/lib/provider-events/*`, `api/webhooks/ses`) | `provider_events`, event counters, health guard | record send, delivery, reject, bounce, complaint | SNS; delivery tables |
| **Unsubscribe** (`src/app/u/[token]`, `src/lib/unsubscribe/*`) | none (signed token) | record an unsubscribe | suppression list |
| **Campaign lifecycle** (0009, 0010, 0012, `src/lib/campaigns/*`) | `campaigns`: status, approval, schedule, launch stamp | create, edit, preflight, validate, schedule, approve, send back to draft, launch, hold a missed schedule | templates, senders, lists; the tick launches |
| **Eligibility** (`src/lib/eligibility/*`, 0011) | none | verdict per recipient, counts of an audience | suppressions, contacts |
| **Imports** (0006, 0007, `src/lib/imports/*`) | `imports`, `import_jobs`, `import_rejections`, the staged file | upload, inspect, confirm, abandon, claim, run chunk by chunk, retry, sweep | contacts, suppressions |
| **File readers** (`imports/csv.ts`, `xlsx.ts`, `xls.ts`, `zip.ts`, `ole2.ts`, ...) | none | bytes to rows of cells; rows to a CSV export | imports |
| **Contacts and lists** (0005, 0011, `src/lib/contacts`, `lists`, `suppression`, `pagination.ts`) | contacts, lists with a counter, members, suppressions | create, edit, delete, add and remove members, block and unblock, page | eligibility, materialisation |
| **Sender verification** (0008, `src/lib/sender/*`, `src/lib/dns/*`) | a domain's four statuses, the stamp of each address | add, provision, check, remove; add and delete addresses | provider, DNS, lifecycle, tick |
| **Templates** (0009, `src/lib/templates/*`) | template versions, snapshots of campaigns | sanitise, derive text, scan fields, render, save, freeze | lifecycle |
| **Message composition** (`sending/compose.ts`, `mime.ts`) | none | a message of a snapshot and a job | tick |
| **Event intake** (`api/webhooks/ses`, `src/lib/provider-events/sns-*.ts`, `parse.ts`) | the certificate cache | verify, parse, confirm a subscription, answer | SNS; provider events |
| **Rate limiting** (`src/lib/rate-limit`) | counter by window | consume | all mutating routes |
| **Workspaces, sessions, audit** (0002-0004, `src/lib/auth`, `audit`) | members, log | membership checks, append | everything |
| **Web pages** | none | rendering | everything |

### What is hard

* **The outcome of a send is not always known.** The process can die after SES took
  the message and before that was written; a timeout says nothing. ADR-0001 resolves
  this by writing intent first and never retrying on a guess.
* **Ticks overlap.** The scheduler starts one every minute whether or not the last
  has ended; both serve the same campaigns. Claims are made with `SKIP LOCKED`.
* **Maintenance races the work.** The reaper and the reconciler decide by age which
  claims and attempts are abandoned; the owner may only be slow.
* **Stale reads.** The status of a campaign and the eligibility of a batch are read
  once and acted on after many awaits.
* **Late, repeated and early notifications.** SNS may deliver a delivery report
  before the worker has committed that it sent the message at all.
* **Counters.** `campaigns.n_*` are incremented in a dozen functions and triggers and
  never recomputed.
* **Time.** The budget is kept per minute and per UTC day while transactions wait for
  locks and refunds come later than reservations. Schedules are wall clocks of zones.
* **Several calls for one act.** The services are not transactional: an import is some
  fifteen database calls per chunk of rows, a domain check three, a block two. Any of
  them may fail, and other requests run between them.
* **Text that is read several times.** A body is decoded, sanitised, stored, rendered,
  sanitised again, turned to text and folded; a spreadsheet is cut into chunks, sectors,
  records and entities that have nothing to do with its cells.

### What makes each component correct

* Delivery tables: one provider acceptance per recipient and campaign unless somebody
  decided otherwise; nothing in doubt is retried silently; an attempt number is used
  once; no claim takes a suppressed address; counters equal a recount; a finished
  campaign stays finished; the transition trigger never refuses a function's own write.
* Send tick: a claim has one holder; a claim without a holder is always resolvable
  and is resolved; every campaign concludes; whatever it does, the tables take only
  the steps their own specification allows.
* Provider events: each job counts once per state in any order of arrival; a recorded
  notification ends doubt; a complaint suppresses irrevocably.
* Send budget: no interleaving of reservations and refunds exceeds the daily cap; no
  interleaving of claims sends one address to two campaigns within the cooldown.
* Unsubscribe: who unsubscribes is never mailed again.
* Campaign lifecycle: what is launched is what was approved, and what the launch judged
  unless a scheduling under way at that moment overtook it; a launch happens once, on time; a missed schedule is held, never sent late, and no schedule
  waits for ever.
* Imports: one runner at a time; every row of a finished import is accounted for once;
  no spreadsheet brings back an address that was suppressed; a confirmed import ends.
* File readers: a file that somebody wrote is read as it was written, whatever its
  encoding, and costs no more memory than the limits say.
* Contacts and lists: every count shown is a recount; a page turner sees every row.
* Sender verification: an address is ready only when the authorities have confirmed
  every part for this row of its domain.
* Templates and composition: a second pass of the sanitiser changes nothing but a style
  that could still be decoded; what was approved is what is sent; what could be saved
  renders for everybody.
* Event intake: SNS is told "taken" only of what is recorded, and refuses nothing that
  it could have recorded later, but for age.
* Others: no protocol of several steps; see section 8.

## 2. The modules

| Module | What it is |
|---|---|
| `AtMostOnceSend` | The abstract promise: which messages the provider took for a job, and which were written off by a decision to send again. |
| `DeliveryLedger` | The tables and every function that writes them, callable in any order by anybody. Implements `AtMostOnceSend`. |
| `DeliveryLedgerProofs` | Its inductive invariant and theorems. |
| `SendEngine` | The ticks, over `DeliveryLedger`: one program counter per tick and one per lane. Implements `DeliveryLedger!Spec`. |
| `SendEngineProofs` | That it does, for any number of ticks. |
| `ProviderEvents` | SES notifications and the unsubscribe form, over `DeliveryLedger`. |
| `ProviderEventsProofs` | That they keep what is proved of the tables, and their own theorems. |
| `SendBudget` | The rate ledger with a clock. |
| `ClaimCooldown` | The contact cooldown: overlapping claim transactions, their lock, and what becomes of a job. |
| `SendBudgetProofs` | Sums over finite sets, and the theorems about the ledger, the cooldown and `SendDecisions`. |
| `CampaignLifecycle` | One campaign's row from draft to its end: members, admins' requests, ticks, trigger, clock, deployment. |
| `CampaignLifecycleProofs` | Its inductive invariant and theorems. |
| `ImportRun` | The imports of a workspace: requests, queue, runners, sweep, and people meanwhile. |
| `ImportRunProofs` | Its inductive invariant and theorems, and those about `ImportRules`. |
| `ImportRules` | What an import decides of a file: its format, header row, mapping, and the class of each row. |
| `FileReaders` | CSV, ZIP, XML, XLSX, OLE2 and XLS as operators, with the CSV export. |
| `Audience` | Contacts, lists, suppressions, the paged table, eligibility and audience counts. |
| `Sender` | A sending domain and its addresses under overlapping requests, and the rules for its records and names. |
| `Html` | The sanitiser, the text of a body, and the Simple format. |
| `TemplateVersions` | Templates, versions and the snapshots of campaigns under concurrent edits. |
| `Templates` | Fields, saving, rendering, composition, headers. |
| `SetupProofs` | The theorems about `Audience`, `Sender` and its domain names, and `TemplateVersions`. |
| `EventIntake` | The SNS webhook from the envelope to its answer. |
| `EventIntakeProofs` | Its inductive invariant and theorem, and that of its parser. |
| `SendDecisions` | The decisions without state: preflight, schedule, live gate, outcome and retry, limits, health. |
| `SendRules` | `SendDecisions` over the texts of `Templates`. |
| `MC*` | Instances for TLC. `MCImports` joins `ImportRun` and `FileReaders`; `MCServices` the service modules and `SendBudget`. |

The layering is the argument. `DeliveryLedger` leaves the caller out: a property that
holds there holds for every worker, present or future, that goes through the
functions. `SendEngine` then only has to show that the worker does that, and gets
its own properties (who holds a claim, what becomes of it) on top. An action named
after an SQL function is that function; an action of `SendEngine` is the code
between two awaits of `worker.ts`.

The modules from `ImportRun` on are of two kinds. Where the code has a protocol, the module
is a state machine, with one action for each awaited call. Where it computes, the module is
operators, and the property compares a computation with its inverse, with another
computation that must agree with it, or with what it was computed from: it would be
pointless to restate it. Text is a sequence of lexemes, one for each class of characters
that the code tells apart, so that a bounded set of them meets every branch.

### DeliveryLedger

| Variable | In the code |
|---|---|
| `status`, `attempts`, `messageOf` | `email_jobs.status`, `.attempts`, `.provider_message_id`; `"absent"` is a row not yet materialised |
| `attempt[j][n]` | `send_attempts.state` at `(job_id, attempt_no)` |
| `campaign`, `tally` | `campaigns.status` after launch, `campaigns.n_total`, `n_sent`, `n_failed`, `n_suppressed`, `n_unsubscribed` |
| `suppression` | the row of `suppressions`, reduced to whether its reason may be deleted |
| `answer` | not in the database: what SES really did with the call of an attempt |
| `resent` | not in the database: attempts that a redispatch decision wrote off |

`answer` and `resent` are what the promise is about; no guard of a function reads
them. In `JobStep`, recording an acceptance or a refusal requires that SES gave it.
That is the contract with the caller, and `SendEngine` is shown to honour it.

Triggers are part of the action whose statement fires them: inserting a suppression
moves the pending jobs of the address (`InsertSuppression`), cancelling a campaign
moves its jobs (`CancelCampaign`), beginning an attempt is refused by
`guard_send_attempt_write` (`CanBegin`). `ReconcileAttempts` is one statement over
one snapshot: a job it makes uncertain is not also redispatched by it.

Clock tests are choices: *any* claimed and unattempted job may be found stale, so
nothing proved here depends on the timeouts.

### SendEngine

| Step | `worker.ts` |
|---|---|
| `TickReaps`, `TickReconciles`, `TickLists` | 182-209: maintenance, then the snapshot `plan` |
| `TickServes`, `TickMaterializes`, `TickFinishes`, `TickEnds` | 236-266: the loop over the snapshot |
| `TickReads`, `TickPauses`, `TickClaims`, `TickChecks` | 357-437: read the campaign, claim, check the batch |
| `LaneDrops` ... `LaneLeavesUnknown` | 431-522: release the ineligible, then `sendOne` |
| `TickSettles` | 524-536: after the pool, a halt pauses the workspace |
| `LaneRaises`, `FailedTickEnds`, `TickCrashes` | a database call fails in a lane; the invocation is killed |

A lane that raises makes `runPool` reject: the halt is not acted on and the campaign
is not finished, but the other lanes run on until the invocation is frozen (`"failed"`).

`Overrun` says whether a tick may still hold a row that the reaper or the reconciler
considers abandoned. The deployment rules it out: `maxDuration` is 60 s, the
deadline of a tick 45 s, while the environment accepts no reaper timeout under 5
minutes and no grace window under 10 (`src/lib/env.ts`). The *exclusivity* of claims
needs this; the *safety* of sending does not and is proved without it.

### ProviderEvents

`Publish` is SES: it reports on messages it accepted, and on a message it then
rejected nothing else. `Deliver` is one webhook transaction: `RecordUnmatched` when
neither the message id nor the tags lead to a job, `RecordApplied` otherwise, with
all its effects (attempt reconciled, job moved, address suppressed and its pending
jobs taken out everywhere, counters, health guard). A row that exists makes a repeat
a no-op. `Unsubscribes` is the form behind the link of a message somebody received.

### SendBudget

The advisory lock makes `Reserve` and `Refund` atomic, but `now()` is the start of the
transaction, so a reservation has a moment at which it begins (`BeginReserve`) and a
later one at which it gets the lock. The clock may tick anywhere between.

### ClaimCooldown

| Variable | In the code |
|---|---|
| `job` | of the `email_jobs` row: `status`, `claimed_at`, `sent_at`, `updated_at`; `attempt` stands for its last attempt, `"taken"` if SES took the message |
| `call` | a running `sending_claim_jobs`: how far it is, its `now()`, the rows it locked, the ones its verdict drops |
| `holder` | who has `pg_advisory_xact_lock('send_claim:...')` |
| `moment` | the time, in about hours |
| `took`, `reached` | not in the database: when the last claim of a job began, and when SES last took a message of it |

`DeliveryLedger` has a claim in one step and its verdict as an input. Here a claim is what
it is at READ COMMITTED: it begins (`BeginClaim`, which fixes `now()`), waits for the lock
(`TakeLock`), locks rows and judges them by what is committed (`Judge`), and commits
(`CommitClaim`) or ends without a trace (`EndClaim`); the clock and everything that happens to a
job go on between. A row that a claim has locked waits for it (`Locked`). The other actions
are the functions of 0010 and 0017 that change a job, reduced to the columns the
verdict reads.

### CampaignLifecycle

| Variable | In the code |
|---|---|
| `row` | the `campaigns` row: `status`; `setup`, which stands for list, sender and template; `at` for `scheduled_at`; `frozen` for the template snapshot; `approved` for `approved_send_mode`; `mode` for `execution_mode` and the launch stamp |
| `session` | requests of admins: what `runCampaignPreflight`, `scheduleCampaign` and `resumeSending` hold between two awaits |
| `tick` | `runSendTick` between two awaits: its mode, and in `promote` the campaign its verdict was about |
| `deployed` | what `sendingConfig()` and the live gate say in the running deployment |
| `now` | the clock |
| `agreed` | not in the database: the row as it was scheduled |

Every write of the application is `repository.transition`: an update whose WHERE names
statuses and nothing else of the row. The module is about what can have happened to the
rest of the row in the meantime, and what 0012's trigger then makes of it
(`TriggerAllows`, `Stored`).

| Steps | Code |
|---|---|
| `Edit`, `Unschedule`, `Cancel`, `Delete`, `PauseSending` | single statements of `campaigns/service.ts` and `sending/service.ts` |
| `BeginPreflight`, `Judge`, then `Reject` or `Freeze` | a check, or a scheduling, of `campaigns/service.ts`: move to validating, read, judge, write by status |
| `BeginResume`, `Resume` | `resumeSending`, with its verdict between |
| `HoldMissed`, `ListDue`, `LoadContext`, `RefuseLaunch` or `Promote`, `ListActive`, `Work` | the statements of a tick, `worker.ts` 210-346 |
| `Deploy`, `ClockAdvances` | a deployment with another `EMAIL_SENDING_MODE`; time |

Whether audience, sender and content are in order is a choice of every verdict, since
contacts, domains and templates change at any time; what a verdict asks of the row
itself (`Complete`) is kept. An edit is one step with the parsing of the time it sets: in
the code nothing but the update itself comes between, and the lead is taken to outlast it.

The unit of time is `maxDuration`, the longest a tick lives, so a tick sees the clock
advance once at most. A schedule is the instant at which a unit begins, and is past
from that unit on. `Lead` (5 minutes in the code) is then any number greater than 1,
and the run takes 2.

### ImportRun, ImportRules, FileReaders

| Variable | In the code |
|---|---|
| `imports`, `jobs`, `stored` | `imports` (status and row counters), `import_jobs` (status, attempts), the number of `import_rejections` |
| `staged` | what the object store holds: nothing, a file, or one the inspection refused |
| `contacts`, `banned` | `contacts.status` by address, and the addresses with a `suppressions` row |
| `aged` | created more than 24 hours ago |
| `srv` | a request in progress: where it is, which import, and of a runner its position, chunk, tallies and what it has read |
| `wrote`, `faults`, `edits` | not in the database: what an import inserted, and bounds |

| Steps | Code |
|---|---|
| `Upload`, `Asks`, `Inspect`, `CannotRead`, `MarkFailed`, `Abandon`, `Confirm`, `Enqueue`, `Retries` | `imports/service.ts`, `actions.ts`, `lifecycle.ts` |
| `Claim`, `CountAttempt`, `Load`, `Reset`, `ClearRejections`, `OpenFile` | the head of `processImport` |
| `OfferRow`, `Flush`, `FindSuppressed`, `UpsertChunk`, `PersistRejections`, `UpdateCounters` | the loop over the file, one call of a chunk at a time; `UpsertChunk` is 0007's function |
| `Complete`, `CompleteJob`, `RemoveFile`, `RecordFailure`, `FailJob` | its end, and its `catch` |
| `SweepReads`, `SweepRemoves`, `SweepCloses` | `sweepStagedFiles`, which runs after a request |
| `Raises`, `Dies` | a call of the runner raises; the server is gone |
| `SuppressionAdded`, `SuppressionLifted`, `ContactDeleted` | people meanwhile |

`ImportRules` is `detect.ts`, `mapping.ts`, `classify.ts` and the address rules; a file is
its extension, its first bytes and its declared type, a header cell a word. `FileReaders`
follows the bytes only where the format makes them interesting: quotes and line ends across
chunks, sector and mini-sector chains with the allocation table split over the header and
the DIFAT, XLS strings that continue in the next record in another width, ZIP
entries that lie about their size.

### Audience

`book`, `lists`, `members` and `blocks` are the four tables, `block` an `addSuppression`
between its two statements, `pager` somebody who is paging (`OpenContacts`, `ReadMembers`,
`ListContacts`, `TurnPage`, `TurnBack`). The triggers of 0005 are part of the statement that
fires them (`Uncounted`, `Mirrored`). `Decide` is `eligibility.ts`, and
`CampaignAudienceCounts` and `SummarizeAudience` are its twins in SQL and in the list page.

### Sender

`domain` is the row, `stamped` the `verified_at` of each address, `session` what a request
or the sweep holds between its calls, `proved` the history of what provider and DNS really
said of this row. `InsertDomain` and `Provision` are `addSenderDomain`; `RunDomainCheck` is
the write of `runDomainCheck` with the answers that lead to it, `SetIdentityVerification` its
stamp; `CreateSenderIdentity` and `InsertIdentity` are a read and an insert. `CutOff` ends a
request anywhere.

### Html, Templates, TemplateVersions

A document is a sequence of lexemes. `Scan` is the loop of `sanitizeHtml`, with a stack of
open elements; `TextOf` that of `htmlToText`. `ToSimpleHtml` and `FromSimpleHtml` are the
Simple editor. `PrepareTemplate` is what a save stores, `RenderTemplate` what the preview and
the worker both call, `ComposeMessage` the message of a job. In `TemplateVersions`,
`CreateTemplate` to `UnfreezeTemplate` are the statements that write templates and the snapshot of a campaign;
scheduling is a read (`ReadTemplate`) and a later write (`FreezeTemplate`).

### EventIntake

`published` and `fate` are Amazon's: each notice's envelope, and whether SNS is still
retrying it. `requests` are the running invocations, `certificates` the module-level cache,
`recorded` what the database holds. `Receive` runs to the first await, `FetchSigningCertificate`
to the next, then `Commit` and `Reply`, between which the answer can be lost
(`NoAnswerHeard`). `Stray` is a request that SNS did not publish.

### SendDecisions, SendRules

One operator per function of `preflight.ts` (`evaluateCampaignPreflight` part by part),
`schedule.ts`, `gate.ts`, `provider/*`, `retry.ts`, `limits.ts` and `health.ts`, and the SQL
of the health guard. `CampaignLifecycle` and `SendEngine` say when they are asked. Of a text
`SendDecisions` asks only whether it is blank, by a constant operator, and what it was
rendered to, by an argument of `ServiceInput` and `LaunchInput` (what the two callers load
before they judge), so that what is proved of the decisions holds for whatever these are;
`SendRules` gives both as `Templates` computes them.

## 3. What the runs check

All runs finish within about three minutes on two cores.

| Run | Question | Instance |
|---|---|---|
| `ledger` | Are the tables right whoever calls the functions, in whatever order? | 2 recipients of one campaign, 2 attempts each, redispatch |
| `engine_overlap` | Does a claim have one holder while two ticks overlap and may die? | 1 job, 2 ticks, 1 death, 2 acts of people, redispatch |
| `engine_live` | Is everything a dead tick left behind resolved, and does every campaign conclude? | 1 job, 2 ticks, 1 death, redispatch, fair |
| `engine_cancelled` | *(violated)* Is nothing left waiting in a cancelled campaign? | 1 job, 1 tick, 1 act |
| `events_order` | Does any order of notifications give the same, right account? | 1 job, 2 notifications of all 6 kinds, 2 attempts |
| `events_two_campaigns` | Does a complaint about one campaign reach the other? Does a report end doubt? | 2 campaigns of one address, 1 notification, fair SNS |
| `events_unsubscribe` | *(violated)* Is an unsubscribe for good? | 1 job, 1 notification |
| `budget_midnight` | *(violated)* And across midnight? | 2 ticks, days of 2 minutes, cap 3 |
| `lifecycle` | Is a campaign launched once, on time, as approved and as judged, and is every schedule decided? | 1 tick, grace 1, lead 2, and either 2 overlapping requests, 2 setups, one date and a clock of 3, or 1 request, 1 setup, 1 death or deployment, dates 2 and 4 and a clock of 5 |
| `imports` | Does an import end, run once at a time, count truly and respect suppressions? Do the readers and the column rules agree with what was written? | 1 import of 4 rows in chunks of 2, 2 servers, 2 faults, 1 act of people, 2 attempts; and, as initial states, some 87,000 small files, sheets, mappings, texts, sector chains and archives |
| `services` | The contact book, a domain, the budget of a day, claims under the cooldown, the templates and the webhook, each by itself: are their accounts, verdicts and answers true? And do bodies, messages and decisions hold? | 4 contact ids with 3 contacts and a shared timestamp, pages of 1, 2 writes; 2 sessions, 3 tasks, 2 rows of a domain; 2 ticks, 2 minutes, cap 5; 2 jobs of one address, 2 claims at once, cooldown 1, 2 moments; 2 templates, 3 versions, 2 campaigns; 2 notices, 2 requests, 3 instants; and some 77,000 inputs |
| `sender_stamp` | *(violated)* Does the stamp of an address follow its domain? | 2 sessions, 4 tasks |

The properties, by what they say:

* **Sending.** `AtMostOneSend` is the promise of ADR-0001 section 4.1; `RetryOnlyAfterRefusal`
  says what makes it hold: a waiting job has no attempt that may have reached anyone.
  `ImplementsAtMostOnceSend` is the same promise as a specification, with every step
  accounted for. `MessageIdMeansSent` says that the trigger that freezes a message id never
  has to refuse. (That an attempt number given back is free again, and that a job has one
  open attempt, are conjuncts of the proved invariant, section 4.)
* **Accounts.** `TallyMatchesJobs` and `EventTalliesMatchJobs` compare every counter
  with a recount of rows. `n_bounced` and `n_delivered` count jobs that went through
  the state, so they may exceed the jobs still in it by those that moved on, and by
  no more.
* **Ends.** `FinishedIsSettled`, `TransitionsAllowed`, `SuppressedNeverClaimed`.
* **Ticks.** `ClaimIsExclusive` is stated over memory and tables together: what a lane
  believes is what the row says. `ClaimIsRecoverable` and `ClaimsAreSettled` say that
  a claim is resolvable at any moment and in the end resolved. `CampaignsConclude`.
* **Events.** `UncertainIsUnconfirmed`, `ComplaintIsForGood`, `DoubtIsResolved`.
* **Budget.** `NothingIsForgotten` (what the ledger holds never falls below what was
  used or is still granted, taken over all windows) and `DayKeepsCap`.
  `ClaimsKeepTheirDistance`: two jobs of one address and two campaigns that are being sent, or
  were, began their claims a cooldown apart.
* **Lifecycle.** `LaunchedAsApproved`: from its scheduling on the row is as it was
  scheduled, and is launched so, in the approved mode. `LaunchedAsJudged`: it is also
  what the tick that launches it has itself judged, although it may have been taken
  back, changed and scheduled again meanwhile; the one exception, which the code allows, is
  a request that was already scheduling when the tick judged and froze the campaign
  afterwards (section 5). `LaunchesOnTime`: not before its time
  and not later than a tick's life past the grace window. `LaunchIsHistory`: no way
  through pause, edit and schedule leads to a second launch. `ScheduleIsDecided`: no
  campaign waits in `scheduled` for ever.
* **Imports.** `OneRunnerPerImport` is over two requests and the queue row.
  `CountersTellTheTruth` compares the counters with the file, the stored reasons and what
  was really written, also after failures halfway. `ImportNeverUnsuppresses` and
  `ConfirmedImportEnds` as named. `FilesReadBack`: the export reads back as exported
  (`ExportReadsBack`), a stream gives the same rows wherever it is cut
  (`ChunkingIsInvisible`), the same grid written as XLSX and as XLS in any style reads the
  same (`WorkbooksAgree`), strings and streams survive their encoding, and no archive
  makes the reader hold more than the limits (`InflatedWithinLimits`). `ImportDecisionsHold`:
  the reader fits the bytes, a proposed mapping is one that can be confirmed, each field has
  one column, an address has one form.
* **Contact book.** `AudienceAddsUp`: the trigger's counter, the SQL counts, the page's
  counts and the rule that decides a single recipient agree after any history.
  `PagesShowEveryRow`: a row that is there all the time is shown exactly once, although
  others come, go and share its timestamp.
* **Domain.** `ReadyIsProved`, against the history of what was answered.
* **Texts.** `BodiesReadBack`: the sanitiser's output is balanced and within its depth, and a
  second pass changes nothing unless a style value can still be decoded, and then nothing but
  styles (section 5); the text body carries the same words and every link; Simple mode reopens what it
  wrote. `MessagesAsApproved`: what could be saved renders for hostile values as well, no
  value is read as a template again, what is sent is what the preview showed, with its
  unsubscribe link and address; encoded headers read back. `VersionNamesContent`: a version
  number means one content, across every copy.
* **Webhook.** `AnswersAreTrue`.
* **Decisions.** `DecisionsHold` is seven statements over bounded inputs: the launch judges
  as the schedule did and a ready campaign composes; a wall clock is kept across a change of
  offset; an outcome is a rejection only when nothing was sent; budgets stay under the
  provider's limits and the two forms of the health rule agree; the DNS records shown are
  accepted; an accepted name can be looked up; feedback stays readable.

### Why the bounds are enough

* *Two attempts* instead of five are enough to have a first, a retried and a last one;
  guards compare `attempts` only with the cap and with an attempt's own number. The
  proofs do not bound it.
* *Two jobs* are enough for a batch with one dropped and one claimed, a campaign with
  one open and one settled job, and an address on two campaigns. Functions treat rows
  independently, except for the recounts and the finish test, which two rows exercise.
* *Two ticks* are enough for one to work against the leftovers of another; no step
  involves three.
* *One death* gives a claim without a holder at every point; deaths after that meet the
  same tables. People's acts are bounded because they do not depend on each other.
* *Two notifications* are enough for repetition of a kind, and for every ordered pair.
* `SendBudget` needs a minute to overlap, one to refund in, and a boundary between.
* *Two claims at once* and *two jobs* are a job and its rival with a claim of each; the cooldown of
  1 runs out while the clock reaches 1, unless a message recorded then renews it, so that both
  verdicts occur, and a claim can be older than the one it waits for.
* *One import* is enough because a runner writes only its own import's rows; its four
  rows have a repeated address, an invalid one and a known contact, and fill one chunk and
  begin another. *Two servers* overlap, *two faults* fail a call and the retry of it.
* *A cap, page, cache or window of 1 to 3* is met and passed by the inputs: one stored reason
  where two rows want one, pages of one row, one certificate for two notices.
* *Three lexemes, lines or fragments* in a body are enough for an element, something inside
  it and something behind; the fragments are chosen unbalanced. *Depth 2* is exceeded by three.
* *Two sessions with three tasks* are a check of a domain that another request removes
  and adds again meanwhile, with an address on it. *Three instants* let a notice grow stale,
  a certificate expire and a cached one be replaced. UnsubscribeConfirmation envelopes, which
  are answered 200 and nothing else, are left out of the instance.
* The inputs of `DecisionsHold` hold every class that a branch tells apart, and numbers on both
  sides of each boundary.
* `CampaignLifecycle` is checked in two parts, since their product is too large. Two requests
  and two setups are what it takes to overtake a verdict: one request that judged the old row,
  one that schedules it and lets it be changed; the first of them only ever schedules, one
  date becomes due, the deployment stays live, and nobody cancels: an ended campaign is never
  launched. A second date, for a schedule made anew at the moment the first has come, the
  clock until the later is missed, deaths, deployments and cancelling are the other part. The
  theorems hold for any number of requests and ticks, all together; liveness is checked for
  one tick.

`CHECK_DEADLOCK FALSE` is set where the system may really stop: all campaigns finished
and the bound on people's acts used up, the clock at its last minute, a campaign
deleted on a disabled deployment, all imports ended; and the inputs of rules never move.

### Fairness

`FairEngineSpec`: ticks are started for ever and run on (weak fairness on `TickStep` and
`LaneStep`), because `p5_schedule.sql` starts one every minute and an invocation that is
not killed proceeds. Strong fairness is assumed of five choices that the model leaves
open and that in the code depend on time or allowance: that a row past its timeout is
found by the reaper and by the reconciler, that a campaign that is listed again and
again is at some time served before the deadline, that a due job is at some time
claimed, and that a waiting lane at some time starts. Each of these recurs every
minute with a fresh deadline and a fresh budget. Nothing is assumed of people, of SES,
or of crashes, of which there are finitely many in the run.

`FairEventsSpec`: weak fairness of each delivery. SNS retries until the webhook has
answered 200, which `route.ts` does only after the transaction has committed.

`CampaignLifecycle!Spec`: weak fairness of the clock and of the steps of each tick, for
the reason given above. `ScheduleIsDecided` assumes besides, in its own premise, that the
deployment is not left disabled, because a disabled deployment runs no ticks.

`ImportFairness`: a server that has begun a request takes its next step, for as long as it
is not killed. Nothing starts a request: nobody need retry, and nobody does for
`ConfirmedImportEnds`, which promises an end only while no call has failed and no server has
died. What a fault can leave behind is in section 5. `MCSpec` states the fairness for the
behaviours in which the import moves.

## 4. What is proved

Each theorem holds for all values of the constants that the named assumptions of its
module admit, and for states without any bound that a run sets. The assumptions are
what the schema and the code fix: typed foreign keys and the unique key of jobs, a
finite number of rows, positive caps, a stored file that is a sequence of rows, a
contact table without duplicates to begin with, moments and ids that are numbers. TLC evaluates
every one of them.

### The tables and the ticks

`DeliveryLedgerProofs`: `TypeCorrect`, `SendsAtMostOnce`, `RetriesOnlyAfterRefusal`,
`AttemptsNeverCollide`, `MessageIdIsProofOfSend`, `FinishedStaysSettled`,
`CountersMatchRows`, `NoTransitionRefused`, `SuppressedIsNeverClaimed`, `ImplementsPromise`.

The invariant is `IInv`. `AtMostOneSend` alone is not inductive: it speaks of answers,
and an answer can come for an attempt that the tables consider given up. Three facts
carry it.

1. `InDoubtIsLatest`: the one attempt not written off that may have reached the
   recipient is the job's latest, and then the job is not waiting. A new claim, which
   takes a new number, is thus possible only after a refusal or a decision.
2. `RecordsAreTrue`: the tables never contradict the provider; in particular no attempt
   recorded as rejected was accepted.
3. `ClaimNumberIsFree`, with `AttemptsInRange`: no attempt has a number above the job's
   counter, although release and reaping count it down.

Two accepted attempts not written off would both be the latest, hence one. There is
one lemma per function showing that it keeps `IInv`, and the theorems read off it.
The refinement to `AtMostOnceSend` uses the same invariant: a new acceptance is a
`Mail` step because everything else mailed is written off, and a late one because it
is written off itself.

The other conjuncts, `OpenAttemptIsOwned`, `MessageIdIsKept` and `DoubtIsOpen`, are stated
so that they survive what only a notification does: it moves a job past `sent`, settles
an attempt that was given up, and may fail a job that has a message id. That is why the
same `IInv` serves here and in `ProviderEvents`. Without notifications a job never leaves
`sent`, and `NothingReported` sharpens them to `OneOpenAttempt` and `MessageIdMeansSent`.

`CountersMatchRows` counts by groups of statuses. A function moves a set of rows out of one
status and into another, and adjusts the counters by the number of rows it moved; the
lemmas say what moving does to the cardinality of each group (`DisjointRowsAdd` and
those on it), and then every function is one application of them, including the
materialisation and the triggers that move rows of several campaigns.

`ProviderEventsProofs`: `EventsSendAtMostOnce`, `EventsImplementPromise`,
`RecordedNoticeEndsDoubt`, `ComplaintsAreForGood`, `CountersMatchRowsAfterEvents`,
`EventsCountOnce`, for any number of notifications, in any order and with any repetition.
`EventsInv` is `IInv` with the counters and two facts: `NoticesAreTrue`, that SES reports
only on what it accepted, and `RecordedIsDecided`, that a recorded notification about the
latest attempt has taken the job out of the hands of tick and reconciler. From the second
it follows that a report which comes before the worker's own write, or after the
reconciler's, ends the doubt. The steps of the tables are taken over from
`DeliveryLedgerProofs`; the work is in `RecordApplied`. The counters of events may
exceed the rows, which is stated and proved as sums: what left `delivered` is in `bounced` or
`complained`.

`SendEngineProofs`: `EngineImplementsTables`, every step of every tick is a step of
`DeliveryLedger` or leaves the tables alone, for any number of ticks, with crashes at
any point and with `Overrun` either way; hence `EngineSendsAtMostOnce`,
`EngineKeepsTables` and `EngineImplementsPromise`. The invariant
needed is small: a tick that serves a campaign serves one that exists, and a lane that
has begun an attempt remembers a number that is one.

`ClaimsAreExclusive` and `ClaimsAreRecoverable` have the hypothesis `Overrun = FALSE`, that
no tick outlives the maintenance windows, which the configuration guarantees (section 2). The
invariant `WInv` ties memory to tables: what a lane believes of a row is what the row says
(`ClaimIsExclusive` itself), a tick that has not checked its batch has touched none
of it, and an accepted attempt has moved its job to `sent` (`AcceptedIsSent`). The last is
where the windows enter: without them a lane could record its answer to a row that has
been given away.

`SendBudgetProofs`, the ledger: `LedgerForgetsNothing`, and
`CapHoldsUnlessARefundCrossesMidnight`: for a clock over any number of days, `DayKeepsCap` holds
of every behaviour in which each refund finds the newest window to be of the day it was
reserved in (`RefundsFindTheirDay`). The refund that `budget_midnight` shows is thus the only way in
which the cap fails. `CapHoldsWithinADay` is the case of a clock that does not pass midnight.
The ledger is a sum over windows, defined by a fold. The first part of the module
proves of that fold, for every finite set, that it is well defined, what
adding, removing or changing one summand does to it, and that a part is no more than the
whole; it uses that a set of subsets has a least member, so that no induction scheme is
needed. A refund clips at zero, and so takes no more from the
ledger than was granted to the tick that returns it.

The cooldown: `ClaimsAreACooldownApart`, for any jobs, addresses, campaigns and
modes, any number of claims at once and any cooldown. The invariant is `CooldownIInv`. That a commit keeps
its distance rests on a verdict passed earlier, so `VerdictStands` says that until the commit
no rival of a job about to be claimed is active by a claim within the cooldown. It holds
because whoever has judged has the lock (`LockIsHeld`), and no other step makes a row active. The
verdict itself reads `coalesce(sent_at, claimed_at, updated_at)`, and `RowsAreDated` says that for
an active row this is never before the claim that made it active: a verdict may be
stricter than the distance of claims, never laxer. Two rivals are never in one batch, as a
batch is of one campaign (`BatchIsPending`).

### The decisions

Also in `SendBudgetProofs`, about `SendDecisions`, for every input of the shape the code gives it:
`EveryLaunchJudgesTheSame` (a campaign that scheduling finds ready, whatever its facts, is ready when the launch
judges its frozen content by the same facts, without a new warning), `EveryWallClockIsKept` (any wall clock in any
zone that changes its offset once), `EveryOutcomeIsHonest` (every answer of SES, every attempt) and
`EveryLimitIsKept` (all limits and counts, with the two forms of the health rule). They are the statements of
`DecisionsHold` that ask nothing of a text. `EveryAcceptedNameResolves` in `SetupProofs` is another: a
domain name of any number of labels. `EveryFeedbackIsReadable` in `EventIntakeProofs` is the last,
over every message, with any recipients and values, known or not.

### The lifecycle

`CampaignLifecycleProofs`, from positive time constants and for any setups, requests,
ticks and bounds: `LifecycleTyped`, `LaunchesOnlyTheApproved`, `LaunchedStaysHistory`,
`LaunchesAreOnTime`. The invariant is `LifecycleIInv`. The first two facts about the row
support each other: that what was approved is still there needs that a launched
campaign is never editable, and that in turn that `paused` keeps the launch stamp.
Launching on time does not follow from the row, since the SQL function tests only that
the time has come. It follows from `TickSawDue`: a tick that is about to launch saw the
campaign inside its grace window at most one unit ago. A stale request cannot disturb
this, because an edit only sets times that lie further ahead.

`LaunchesWhatItJudged`: for any number of requests and ticks, the promotion launches the row
that the promoting tick has itself judged, or one frozen after that verdict by a request that
was already scheduling when it was reached. Two history fields of a tick name these: `met`, the
schedulings in flight when it judged, less those that have begun anew since, and `overtaken`,
whether one of them has frozen the row. `JudgedInv` says why there is no other way. As each
tick sees it, the campaign either cannot become due before the tick's end (`Ahead`) or has a
time that is past, and no request the tick did not meet has passed or can pass its own verdict
on that time (`Past`); what comes in between can only lead from the second to the first. This needs
that the lead is longer than a tick lives (`LeadOutlastsTick`; five minutes against one): a
new scheduling begins with a verdict that wants a time still ahead.

### Imports

`ImportRunProofs`, from `ImportsAssumption` (some import; files of addresses and settled
rows; positive chunks and attempts): `ImportHasOneRunner`, `ImportsMoveForward`,
`ImportsNeverUnsuppress`, `CountersAreTrue`, for any number of imports, servers, rows, faults
and edits. The
invariant is `RunInv`. That one request runs an import does not follow from the claim alone:
the claim takes a queued job, and what is queued was enqueued by a confirmation or requeued
by a failure, so that it needs to be known that (`JobFollowsConfirmation`) only one request
ever enqueues, before there is a job, and that (`OneRunnerPerImport` itself) whoever requeues
is the only runner and leaves. `ProcessingIsHeld` then says that an import in `processing`
stays so until its own runner ends it, which gives the order of the statuses. Each kind of
step has a lemma: a server that moves on, one that moves its import, one that moves its job,
and those that move none. `ImportsMoveForward` is proved for every instance, so that
no run repeats it.

`CountersAreTrue` needs both that there is one runner and what it has in memory. `CountInv`
says of each runner that its tallies add up to the rows it has passed, that what it counts
as valid are addresses it wrote, each once (`CountsTruly`), and that the reasons stored are those
it has kept, from the clearing of the table on (`KnowsItsPlace`); of each import,
that its record is such a tally, of the whole file when it is completed (`RecordIsTrue`). A
runner that dies or fails leaves a record behind that is true of the rows it stands for.

`EveryReaderMatchesItsBytes` and `EveryAcceptedMappingIsUsable`, in the same module, are two rules
of `ImportDecisionsHold` for every input: a file of any name, type and first bytes, and a mapping of
any number of columns that is accepted. The second needs the column of each field to exist
and be the only one, which the validation asks through `FirstOf` and counts of the columns that
have a target; a least column exists in every set of them.

### What a workspace sets up

`SetupProofs` has one invariant per part.

* `AudienceNumbersAgree`, `MembershipsNeverDangle`: `AudienceInv` is the table types, the
  foreign keys, the unique address, and the trigger's counter as the cardinality of the rows
  of a list. A statement that removes memberships of many lists takes from each counter
  the number its list loses (`UncountedCounts`); the SQL counts and the page's are then two
  partitions of the same rows.
* `EveryRowIsShownOnce`: whoever pages to an end, in pages of any size, with any number of writes
  between two calls and within one, is shown every row that stays, and none twice. The order
  of the table is total (`OrderIsTotal`), hence the rows of a scope have one sorted
  order (`OrderExists` gets it by counting the rows before each), and a page is what comes
  next in it behind the cursor (`PageIsNext`). `PagerInv` says that what was shown lies
  behind the reader's place and what is still owed to it lies ahead. A cursor is a key, not a row:
  that the row it came from may be deleted is why the invariant speaks of places. Ids are
  never used again, and a row's key is never changed.
* `ReadyAddressesAreProved`: the row of a domain says verified only of what provider or DNS
  have confirmed of this very row (`RowsAreBacked`), because the update of a check names the id
  it has read, and a new row has a new id.
* `VersionsNameContents`: over the rows, what a session holds, and every snapshot (`Copies`),
  two with the same id and version have the same content, and no copy is newer than its row:
  an edit raises the version, and the id of a deleted template is not given out again.

`EventIntakeProofs`: `WhatSnsIsToldIsTrue`, for any notices, requests, cache sizes and ages, whatever
strays the endpoint is sent. A request that is served holds an envelope that Amazon signed or one
whose answer nobody hears (`RequestsAreServedWell`); what is recorded was published
(`RecordedIsReadable`); a cached certificate is the one of its own URL
(`CertificatesAreTheirOwn`); so that what SNS was told is true (`FateIsTrue`). The one
hypothesis besides the module's assumptions, `MarksAreNoRecords`, says that the two values that
stand for an absent and a malformed field are not themselves records.

### What is only model-checked

* Liveness (`ConfirmedImportEnds`, `ClaimsAreSettled`, `CampaignsConclude`, `DoubtIsResolved`,
  `ScheduleIsDecided`): fairness and `ENABLED` are beyond the prover used here.
* What is said of texts and files (`FilesReadBack`, `BodiesReadBack`, `MessagesAsApproved`):
  their operators are recursive, and what a recursive operator computes for every input
  needs induction over data, which this prover version cannot do.
* Of `DecisionsHold`, that a ready campaign composes (`ReadyComposes`) and that the records shown are
  accepted (`ShownRecordsPass`); of `ImportDecisionsHold`, that a proposed mapping can be
  confirmed (`ProposalIsConfirmable`) and that an address has one form (`NormalFormIsStable`):
  each rests on texts or on a recursion over words. The other statements of both are proved, one by one;
  the run checks all of them together.

The modules with proofs reach no recursive operator; this is why `TemplateVersions` is
apart from `Templates`, and `SendDecisions` from `SendRules`. Sums are folds, whose defining recursion the
proofs in `SendBudgetProofs` unfold. `Audience` chooses the sorted page order by its defining
property, since the library's sorting is opaque to the prover; both are the same
sequence, as `OrderIsComplete` shows.

## 5. Disagreements between the code and its documents

Four runs are expected to fail. Each checks one sentence of the repository.

* `engine_cancelled`. Cancelling moves `pending` and `send_uncertain` jobs. A job that
  is `claimed` at that moment is left to its claimer, and if it comes back (released
  past the deadline, refused for now, or reaped) it is `pending` in a cancelled
  campaign, and no function ever touches it again. 0010 says "Cancelling a campaign
  cancels what has not been sent", ADR-0001 that no job is silently lost.
* `events_unsubscribe`. `sending_record_unsubscribe` inserts `on conflict do nothing`. If
  the address is already blocked by hand (a reversible reason) when its owner
  unsubscribes, the reason stays as it is, and lifting the block later makes the person
  mailable. `suppression/service.ts` says there is no code path that un-suppresses an
  unsubscribe. Complaints do not have this defect: `app.strengthen_suppression` raises
  the reason, and `ComplaintIsForGood` holds.
* `budget_midnight`. `sending_refund_budget` gives back to the newest window. If another
  tick has reserved after midnight, a refund of yesterday's allowance lowers today's
  ledger, and today can exceed the cap. 0013 says the newest window is the one that was
  reserved from. The same happens at a minute boundary to the rate.
* `sender_stamp`. `runDomainCheck` stamps the addresses only when the domain's usability changes
  against the row it read, and a new address is never stamped. An address added to a domain
  that is already verified stays `identity_not_marked_verified` through every later check:
  the campaign cannot be sent until the domain fails once and recovers.
  `sender/verification.ts:268` says the stamp can never disagree with the domain.

Two further sentences are looser than the code, which seems intended: `worker.ts:41`
says a tick never sends for a campaign that is not sending, while a batch in flight
goes on after a pause; and ADR-0003 2.6 says account-level errors do not fail jobs,
while a halt that meets a job's last attempt does.

Two more concern the lifecycle. `campaigns/service.ts:375` says that a campaign in
`validating` is one that is ready to be scheduled; an edit leaves the status as it is,
and a request that is cut off leaves it at whatever it had not judged. This is harmless, as
scheduling judges again. And 0010:107 says a campaign is launched when the preflight
re-runs clean. The launch preflight reads the row, and `sending_promote_campaign` tests
status, time and mode, so that it can launch a row that was scheduled anew in between. In
the model, with `Sessions = {a1, a2}` and a lead of 2: a member sets l1 for time 2; at 1 both
a1 and a2 begin to schedule and judge it, and a2 freezes it; at 2 the tick loads it and passes
it; it is unscheduled, changed to l2 with its time left alone, and a2 begins a check, which
leaves it `validating`; a1 freezes, as its write looks at the status only; the tick promotes
l2 on the verdict about l1. a1 need only span the instant at which the campaign is due. So
the plain statement, that a tick launches nothing but what it judged, fails;
`LaunchedAsJudged` excludes exactly the launches after such a freeze, and the run contains
them. Neither the approval nor the moment of the launch is affected (`LaunchedAsApproved`
and `LaunchesOnTime` hold without exception).

The following were met while modelling the rest. The models do what the code does; where a
property would fail on one of these, it says in brackets what it leaves out.

Imports:

* `imports/actions.ts:107` says that a crash halfway leaves a job that can be claimed. It
  leaves it `claimed`, and nothing claims such a job: the import stays in `processing`. A
  death between confirmation and enqueuing, and a rate limit in the background pass, leave one
  in `processing` without a runner as well.
* `failJob` requeues with a backoff, but the import is already `failed`, so that the retry does nothing.
* The eligibility of a chunk is read before it is written. A suppression added in between does
  not keep the contact from being inserted as `active`; `createContact` and `updateContact` do
  not look either. Sending asks the suppression list, so that only the column is wrong.
* `constants.ts:147` lacks the transition from `uploaded` to `processing`, which confirming makes.
* `lifecycle.ts:29` says the sweep removes the files of imports older than a day; line 48 takes
  the 50 oldest imports whether or not they still have a file.
* `dedupeHeaders` can give two columns the same name (`a`, `a`, `a (2)`).
* The delimiter of a CSV whose first line holds a quoted line break depends on where the stream
  is cut within the sample (`ChunkingIsInvisible` holds beyond it).
* A stored ZIP entry is not counted again against the total when it is read; XLS loses the value
  of a string-valued shared formula (`xls.ts:517`); blank rows are dropped from XLSX and kept in XLS.
* The contact form saves `custom: {}` and so wipes what an import stored there, and the audit
  entry's `emailChanged` is always false (`contacts/service.ts:289`).

Senders:

* A name with a punycode top level is accepted by `normalizeDomainName`, refused by 0008's
  check and not queryable by the resolver; a domain below `bounce.`, or one too long for that
  prefix, gets no MAIL FROM and so is never usable.
* Of two overlapping checks the one with a failed lookup carries an older status forward.

Templates:

* `text.ts`: a hidden void element is pushed on `skipping` and never popped, so that the text
  behind it is lost; a hidden element that holds one of its own name shows the remainder; a link
  inside a link loses the first one's text.
* `sanitize.ts`: a dropped void element (`<input>`, `<meta>`) is skipped like one with content, and
  with no close tag the rest of the document goes; numeric entities are decoded before named
  ones, so that `&#38;lt;` becomes a bracket.
* `sanitize.ts:173` says that the sanitiser is idempotent. `sanitizeStyle` decodes a value that
  was decoded when the attribute was read, and what survives is encoded once, so that it is not:
  `style="color: &amp;amp;lt"` is written as `color: &amp;lt`, which the next pass decodes to
  `color: <` and refuses. With `display:none` behind the entity an element hidden in the first
  pass is shown after the second. (`BodiesReadBack` excludes the documents that have such a style:
  exactly those whose styles can still be decoded do change, and in nothing but their styles.
  The fragments of the run contain both. What is sent is what was previewed all the same, as both
  sanitise twice: `MessagesAsApproved` has such a style too.)
* `simple.ts:13`: a list right below a heading becomes a paragraph, and reopens in Advanced mode.
* The editor opens Simple HTML with a hand-written text part in Simple mode; saving discards the text.
* `templates/service.ts:269` advises to cancel the campaign that uses a template before deleting
  it; cancelling does not release the foreign key.

Webhook:

* `route.ts:34` says that 500 means nothing was committed. A lost reply of the database answers
  500 with the event recorded, which is harmless as the repeat is a no-op.
* A redelivery more than an hour after the envelope's timestamp is refused with 400 as stale, and
  a retry after the signing certificate has expired too; SNS then gives up, and the event is lost.
* `parse.ts:73` shields odd destinations and times; odd `tags` still make a bounce unreadable.
* Over a window of 500 messages one complaint is 0.2 %, above the threshold of 0.08 %: the
  complaint rule is "one complaint".

Sending:

* `env.ts:115` says that a recipient sent to by one campaign is skipped by any other for the whole
  cooldown. The cooldown looks at what the rival job is now, not at whether it was sent. A
  message that SES took and whose answer was lost makes its job `send_uncertain`, which counts; once
  a person leaves it (`failed`), it is redispatched (`pending`) or its campaign is cancelled, it
  counts no more, and another campaign reaches the same address at once (`ClaimsKeepTheirDistance`
  speaks of jobs that still count; `reached` in `ClaimCooldown` shows the rest).
* `ses-send-client.ts:153` clears the timer before it reads the body of the answer.
* A schedule in the second of two equal wall-clock hours comes back from the form an hour earlier.
* The stored schedule is not tested for its lead again, and the preflight renders only the sample
  contact: a subject made of one field can be empty for a contact, whose job then fails.

## 6. Mutants

A definition whose name ends in `_Bug` is a mapped definition with a plausible mistake
in it: a dropped guard, an off-by-one, a counter per statement instead of per row, a
status read before the reconciliation instead of after. No specification uses one.
`PROJECT.json` pairs each property of a passing run with one that the property catches.

## 7. Plan

Done: `AtMostOnceSend`, `DeliveryLedger`, `SendEngine`, `ProviderEvents`, `SendBudget`,
`CampaignLifecycle`; then `ImportRun` with its proofs, `ImportRules`, `FileReaders`, `Audience`,
`Sender`, `Html`, `Templates`, `EventIntake`, `SendDecisions`, `SendRules`; then the proofs of section 4 for
those with a protocol, `ClaimCooldown` with its own, and the decisions. Next, in order of what could do harm:

1. A halt that meets two campaigns in one tick, when the engine's runs have room for it.
2. `EventIntake` over `ProviderEvents`, so that a refused notice is one that `DoubtIsResolved`
   does not count on.
3. The sweep of staged files with its limit, over more imports than it takes at once.

## 8. What is not modelled, and why

* *Row locks and isolation below a statement.* Each function is atomic, but for the claim in
  `ClaimCooldown`. The lock order of
  cancelling against recording a result (0010:519) and the reads of materialisation under a
  concurrent suppression (0010:657) are below the grain of the models.
* *Which rows are due, how many, in what order.* Left open, so all choices are covered.
* *By design and so not a hazard:* a suppression may land between the eligibility read of a
  batch and its last send (`worker.ts:424`), and a complaint about a superseded attempt leaves
  the job as it is (0017:165), while it suppresses the address.
* *Rate limiting.* One SQL statement increments a counter by window and answers; there is
  nothing between two steps.
* *Workspaces, sessions, row-level security, audit, pages, the import wizard.* Access control,
  CRUD and rendering; no protocol of several steps.
* *Cryptography.* Signatures of SNS, of unsubscribe tokens, of requests to SES and of upload URLs
  are valid or not.
* *Layout.* MIME boundaries, base64, the wording of issues, the footer's HTML; the lengths of
  template parts.
* *Notification kinds without effect* (delayed, opened, clicked, rendering failure): they
  write their own row in `provider_events` and nothing else. Their retention, and the pruning of
  `rate_ledger`, which deletes windows two days old that no reservation reads.
