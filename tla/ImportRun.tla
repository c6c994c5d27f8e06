----------------------------- MODULE ImportRun -----------------------------
(***************************************************************************)
(* One workspace's spreadsheet imports: the requests that inspect, confirm *)
(* and abandon an import, the queue row that hands it to a runner, the     *)
(* runner that reads the file in chunks, and the sweep of old files.       *)
(*                                                                         *)
(* A server handles one request at a time and each awaited database call   *)
(* of lib/imports is one step, so requests interleave between calls.  A    *)
(* row of a file is an address, or the bucket classifyRow settles it in.   *)
(* The backoff of a requeued job is abstracted: a queued job may be        *)
(* claimed at any later time.                                              *)
(***************************************************************************)
EXTENDS Naturals, Sequences, FiniteSets

CONSTANTS Imports,     \* imports of the workspace
          Servers,     \* requests being served at the same time
          Addresses,   \* normalised addresses
          Known,       \* those that are contacts already
          File,        \* Imports -> sequence of rows below the header
          ChunkRows,   \* IMPORT_CHUNK_ROWS
          MaxStored,   \* MAX_PERSISTED_REJECTIONS
          MaxAttempts, \* import_jobs.max_attempts
          MaxFaults,   \* bound: calls that raise and servers that die
          MaxEdits     \* bound: suppressions and deletions by people

Buckets == {"valid", "invalid", "duplicate", "suppressed", "rejected"}
SettledRows == {"invalid", "rejected"}

ASSUME ImportsAssumption ==
  /\ Imports # {}
  /\ File \in [Imports -> Seq(Addresses \cup SettledRows)]
  /\ Addresses \cap SettledRows = {} /\ Known \subseteq Addresses
  /\ ChunkRows \in Nat \ {0} /\ MaxStored \in Nat /\ MaxAttempts \in Nat \ {0}
  /\ MaxFaults \in Nat /\ MaxEdits \in Nat

VARIABLES imports,  \* import -> [status, rows]
          staged,   \* import -> what the object store holds for it
          jobs,     \* import -> its import_jobs row
          stored,   \* import -> number of import_rejections rows
          contacts, \* address -> contacts.status, "none" without a row
          banned,   \* addresses with a suppressions row
          aged,     \* imports created more than 24 hours ago
          srv,      \* server -> the request it is serving
          wrote,    \* history: import -> addresses it inserted as contacts
          faults, edits

importVars == <<imports, staged, jobs, stored, contacts, banned, aged, srv,
                wrote, faults, edits>>

Waiting == {"uploaded", "mapping"}
Terminal == {"completed", "failed"}

NoRows == [b \in Buckets \cup {"total"} |-> 0]
Bucketed(rows) == rows["valid"] + rows["invalid"] + rows["duplicate"]
                  + rows["suppressed"] + rows["rejected"]
NoJob == [status |-> "none", attempts |-> 0]

IdleServer(i) == [pc |-> "idle", imp |-> i, after |-> FALSE, pos |-> 1,
                  seen |-> {}, chunk |-> <<>>, tally |-> NoRows, held |-> 0,
                  kept |-> 0, supp |-> {}, old |-> {}]

ImportInit ==
  /\ imports = [i \in Imports |-> [status |-> "uploaded", rows |-> NoRows]]
  /\ staged = [i \in Imports |-> "nothing"]
  /\ jobs = [i \in Imports |-> NoJob]
  /\ stored = [i \in Imports |-> 0]
  /\ contacts = [a \in Addresses |-> IF a \in Known THEN "active" ELSE "none"]
  /\ banned = {} /\ aged = {}
  /\ srv = [s \in Servers |-> IdleServer(CHOOSE i \in Imports : TRUE)]
  /\ wrote = [i \in Imports |-> {}]
  /\ faults = 0 /\ edits = 0

-----------------------------------------------------------------------------
(* The update is the compare-and-set of repository.transition: the patch  *)
(* lands only while the status is one of `from` and the reconciliation     *)
(* constraint accepts the row.                                             *)
Moves(i, from, to, rows) ==
  /\ imports[i].status \in from
  /\ to = "completed" => rows["total"] = Bucketed(rows)

Transition(i, from, to, rows) ==
  imports' = IF Moves(i, from, to, rows)
             THEN [imports EXCEPT ![i] = [status |-> to, rows |-> rows]]
             ELSE imports

At(s, pc) == srv[s].pc = pc
Goto(s, pc) == srv' = [srv EXCEPT ![s].pc = pc]
Free(s) == srv' = [srv EXCEPT ![s] = IdleServer(@.imp)]
(* What runs after the runner: the background pass sweeps, a retry ends.   *)
Leave(s) == srv' = [srv EXCEPT ![s] = [IdleServer(@.imp) EXCEPT
                      !.pc = IF srv[s].after THEN "sweep" ELSE "idle"]]

(* The browser uploads with its signed URL: something the content check    *)
(* accepts, something it refuses, or something the reader cannot parse.    *)
Upload(i) ==
  /\ imports[i].status = "uploaded" /\ staged[i] = "nothing" /\ i \notin aged
  /\ \E kind \in {"good", "refused", "corrupt"} : staged' = [staged EXCEPT ![i] = kind]
  /\ UNCHANGED <<imports, jobs, stored, contacts, banned, aged, srv, wrote, faults, edits>>

GrowsOld(i) ==
  /\ i \notin aged
  /\ aged' = aged \cup {i}
  /\ UNCHANGED <<imports, staged, jobs, stored, contacts, banned, srv, wrote, faults, edits>>

(* A request reads the record; the early returns for a record that is not  *)
(* waiting change nothing, and neither does a file that cannot be read.    *)
Asks(s, i, request) ==
  /\ At(s, "idle")
  /\ imports[i].status \in Waiting
  /\ request # "abandon" => staged[i] # "nothing"
  /\ srv' = [srv EXCEPT ![s] = [IdleServer(i) EXCEPT !.pc = request]]
  /\ UNCHANGED <<imports, staged, jobs, stored, contacts, banned, aged, wrote, faults, edits>>

(* markFailed: a file the content check refuses, whoever else has moved    *)
(* the import meanwhile.                                                   *)
MarkFailed(s) ==
  /\ srv[s].pc \in {"inspect", "confirm"}
  /\ staged[srv[s].imp] = "refused"
  /\ Transition(srv[s].imp, Waiting \cup {"processing"}, "failed", imports[srv[s].imp].rows)
  /\ Free(s)
  /\ UNCHANGED <<staged, jobs, stored, contacts, banned, aged, wrote, faults, edits>>

(* A reader that raises leaves the import where it was.                    *)
CannotRead(s) ==
  /\ srv[s].pc \in {"inspect", "confirm"}
  /\ staged[srv[s].imp] \in {"corrupt", "nothing"}
  /\ Free(s)
  /\ UNCHANGED <<imports, staged, jobs, stored, contacts, banned, aged, wrote, faults, edits>>

Inspect(s) ==
  LET i == srv[s].imp IN
  /\ At(s, "inspect") /\ staged[i] \in {"good", "nothing"}
  /\ Transition(i, Waiting, "mapping", imports[i].rows)
  /\ Free(s)
  /\ UNCHANGED <<staged, jobs, stored, contacts, banned, aged, wrote, faults, edits>>

Abandon(s) ==
  LET i == srv[s].imp IN
  /\ At(s, "abandon")
  /\ Transition(i, Waiting, "failed", imports[i].rows)
  /\ Free(s)
  /\ UNCHANGED <<staged, jobs, stored, contacts, banned, aged, wrote, faults, edits>>

(* The file was downloaded and the mapping checked before this update, so  *)
(* the sweep may have removed the object meanwhile.                        *)
Confirm(s) ==
  LET i == srv[s].imp IN
  /\ At(s, "confirm") /\ staged[i] \in {"good", "nothing"}
  /\ Transition(i, Waiting, "processing", imports[i].rows)
  /\ IF imports[i].status \in Waiting
     THEN srv' = [srv EXCEPT ![s].pc = "enqueue", ![s].after = TRUE]
     ELSE Free(s)
  /\ UNCHANGED <<staged, jobs, stored, contacts, banned, aged, wrote, faults, edits>>

Enqueue(s) ==
  /\ At(s, "enqueue")
  /\ jobs' = [jobs EXCEPT ![srv[s].imp].status = "queued"]
  /\ Goto(s, "claim")
  /\ UNCHANGED <<imports, staged, stored, contacts, banned, aged, wrote, faults, edits>>

(* retryImportAction runs the queued import again, for any import.         *)
Retries(s, i) ==
  /\ At(s, "idle")
  /\ jobs[i].status # "none"
  /\ srv' = [srv EXCEPT ![s] = [IdleServer(i) EXCEPT !.pc = "claim"]]
  /\ UNCHANGED <<imports, staged, jobs, stored, contacts, banned, aged, wrote, faults, edits>>

-----------------------------------------------------------------------------
ClaimedToo_Bug(i) == jobs[i].status \in {"queued", "claimed"}

(* processImport.                                                          *)
Claimable(i) == jobs[i].status = "queued"

Claim(s) ==
  LET i == srv[s].imp IN
  /\ At(s, "claim")
  /\ \/ /\ Claimable(i)
        /\ jobs' = [jobs EXCEPT ![i].status = "claimed"]
        /\ Goto(s, "count")
     \/ /\ ~Claimable(i)
        /\ Leave(s)
        /\ UNCHANGED jobs
  /\ UNCHANGED <<imports, staged, stored, contacts, banned, aged, wrote, faults, edits>>

CountAttempt(s) ==
  /\ At(s, "count")
  /\ jobs' = [jobs EXCEPT ![srv[s].imp].attempts = @ + 1]
  /\ Goto(s, "load")
  /\ UNCHANGED <<imports, staged, stored, contacts, banned, aged, wrote, faults, edits>>

(* A job whose import is not in `processing` is closed without writing.    *)
Load(s) ==
  LET i == srv[s].imp IN
  /\ At(s, "load")
  /\ IF imports[i].status = "processing"
     THEN Goto(s, "reset") /\ UNCHANGED jobs
     ELSE Leave(s) /\ jobs' = [jobs EXCEPT ![i].status = "done"]
  /\ UNCHANGED <<imports, staged, stored, contacts, banned, aged, wrote, faults, edits>>

Reset(s) ==
  /\ At(s, "reset")
  /\ imports' = [imports EXCEPT ![srv[s].imp].rows = NoRows]
  /\ Goto(s, "clear")
  /\ UNCHANGED <<staged, jobs, stored, contacts, banned, aged, wrote, faults, edits>>

KeepsOldReasons_Bug(s) ==
  /\ At(s, "clear") /\ Goto(s, "open")
  /\ UNCHANGED <<imports, staged, jobs, stored, contacts, banned, aged, wrote, faults, edits>>

ClearRejections(s) ==
  /\ At(s, "clear")
  /\ stored' = [stored EXCEPT ![srv[s].imp] = 0]
  /\ Goto(s, "open")
  /\ UNCHANGED <<imports, staged, jobs, contacts, banned, aged, wrote, faults, edits>>

OpenFile(s) ==
  /\ At(s, "open")
  /\ Goto(s, IF staged[srv[s].imp] = "good" THEN "rows" ELSE "fail")
  /\ UNCHANGED <<imports, staged, jobs, stored, contacts, banned, aged, wrote, faults, edits>>

Add(tally, b) == [tally EXCEPT ![b] = @ + 1, !["total"] = @ + 1]
(* pushRejection keeps at most MaxStored rows over the whole pass.         *)
Push(run) == IF run.kept + run.held >= MaxStored THEN run ELSE [run EXCEPT !.held = @ + 1]
Turned(run, b) == [Push(run) EXCEPT !.tally = Add(@, b)]

(* The row is settled by itself, or a repeat of an address seen above, or  *)
(* waits in the chunk.                                                     *)
Offered(run, row) ==
  CASE row \in SettledRows -> Turned(run, row)
    [] row \in run.seen -> Turned(run, "duplicate")
    [] OTHER -> [run EXCEPT !.seen = @ \cup {row}, !.chunk = Append(@, row)]

OfferRow(s) ==
  LET run == srv[s]
      next == Offered(run, File[run.imp][run.pos]) IN
  /\ At(s, "rows") /\ run.pos <= Len(File[run.imp])
  /\ srv' = [srv EXCEPT ![s] = [next EXCEPT !.pos = @ + 1,
               !.pc = IF Len(next.chunk) >= ChunkRows THEN "eligible" ELSE "rows"]]
  /\ UNCHANGED <<imports, staged, jobs, stored, contacts, banned, aged, wrote, faults, edits>>

(* state.flush at the end of the file.                                     *)
Flush(s) ==
  LET run == srv[s] IN
  /\ At(s, "rows") /\ run.pos > Len(File[run.imp])
  /\ Goto(s, IF run.chunk # <<>> THEN "eligible"
             ELSE IF run.held > 0 THEN "lastPersist" ELSE "complete")
  /\ UNCHANGED <<imports, staged, jobs, stored, contacts, banned, aged, wrote, faults, edits>>

InChunk(run) == {run.chunk[k] : k \in 1..Len(run.chunk)}

FindSuppressed(s) ==
  /\ At(s, "eligible")
  /\ srv' = [srv EXCEPT ![s].supp = InChunk(srv[s]) \cap banned, ![s].pc = "upsert"]
  /\ UNCHANGED <<imports, staged, jobs, stored, contacts, banned, aged, wrote, faults, edits>>

ImportedIsActive_Bug(a, supp) == IF a \in supp THEN "suppressed" ELSE "active"

(* import_upsert_contacts: insert, or enrich and keep the status unless    *)
(* the import says suppressed.                                             *)
StatusFor(a, supp) ==
  IF a \in supp THEN "suppressed"
  ELSE IF contacts[a] = "none" THEN "active" ELSE contacts[a]

WriteContacts(run) ==
  /\ contacts' = [a \in Addresses |-> IF a \in InChunk(run) THEN StatusFor(a, run.supp)
                                      ELSE contacts[a]]
  /\ wrote' = [wrote EXCEPT ![run.imp] = @ \cup {a \in InChunk(run) : contacts[a] = "none"}]

Lesser(m, n) == IF m < n THEN m ELSE n

(* One bucket for each candidate of the chunk, and a reason for each that  *)
(* is not a new contact while there is room: every one is counted, so the  *)
(* order in which they are settled makes no difference.                    *)
BucketOf(a, supp) ==
  IF a \in supp THEN "suppressed" ELSE IF contacts[a] = "none" THEN "valid" ELSE "duplicate"

RowsInto(run, b) == {k \in 1..Len(run.chunk) : BucketOf(run.chunk[k], run.supp) = b}

Settled(run) ==
  LET turned == Cardinality(RowsInto(run, "suppressed")) + Cardinality(RowsInto(run, "duplicate")) IN
  [run EXCEPT !.tally = [b \in DOMAIN @ |-> @[b] + IF b = "total" THEN Len(run.chunk)
                                                   ELSE Cardinality(RowsInto(run, b))],
              !.held = Lesser(@ + turned, MaxStored - run.kept), !.chunk = <<>>, !.supp = {}]

UpsertChunk(s) ==
  /\ At(s, "upsert")
  /\ WriteContacts(srv[s])
  /\ srv' = [srv EXCEPT ![s] = [Settled(srv[s]) EXCEPT !.pc = "persist"]]
  /\ UNCHANGED <<imports, staged, jobs, stored, banned, aged, faults, edits>>

PersistRejections(s) ==
  LET run == srv[s] IN
  /\ run.pc \in {"persist", "lastPersist"}
  /\ stored' = [stored EXCEPT ![run.imp] = @ + run.held]
  /\ srv' = [srv EXCEPT ![s].kept = @ + run.held, ![s].held = 0,
               ![s].pc = IF run.pc = "persist" THEN "counters" ELSE "complete"]
  /\ UNCHANGED <<imports, staged, jobs, contacts, banned, aged, wrote, faults, edits>>

UpdateCounters(s) ==
  /\ At(s, "counters")
  /\ imports' = [imports EXCEPT ![srv[s].imp].rows = srv[s].tally]
  /\ Goto(s, "rows")
  /\ UNCHANGED <<staged, jobs, stored, contacts, banned, aged, wrote, faults, edits>>

(* The final transition; a refused one is an ImportFailure.                *)
Complete(s) ==
  LET i == srv[s].imp IN
  /\ At(s, "complete")
  /\ Transition(i, {"processing"}, "completed", srv[s].tally)
  /\ Goto(s, IF Moves(i, {"processing"}, "completed", srv[s].tally) THEN "close" ELSE "fail")
  /\ UNCHANGED <<staged, jobs, stored, contacts, banned, aged, wrote, faults, edits>>

CompleteJob(s) ==
  /\ At(s, "close")
  /\ jobs' = [jobs EXCEPT ![srv[s].imp].status = "done"]
  /\ Goto(s, "remove")
  /\ UNCHANGED <<imports, staged, stored, contacts, banned, aged, wrote, faults, edits>>

RemoveFile(s) ==
  /\ At(s, "remove")
  /\ staged' = [staged EXCEPT ![srv[s].imp] = "nothing"]
  /\ Leave(s)
  /\ UNCHANGED <<imports, jobs, stored, contacts, banned, aged, wrote, faults, edits>>

JobOnly_Bug(s) ==
  /\ At(s, "fail") /\ Goto(s, "failJob")
  /\ UNCHANGED <<imports, staged, jobs, stored, contacts, banned, aged, wrote, faults, edits>>

(* The catch: the counters as they stand, rows_total as attributed.        *)
RecordFailure(s) ==
  LET run == srv[s]
      rows == [run.tally EXCEPT !["total"] = Bucketed(run.tally)] IN
  /\ At(s, "fail")
  /\ Transition(run.imp, {"processing"}, "failed", rows)
  /\ Goto(s, "failJob")
  /\ UNCHANGED <<staged, jobs, stored, contacts, banned, aged, wrote, faults, edits>>

WillRetry(job) == job.attempts < MaxAttempts

FailJob(s) ==
  LET i == srv[s].imp IN
  /\ At(s, "failJob")
  /\ jobs' = [jobs EXCEPT ![i].status = IF WillRetry(jobs[i]) THEN "queued" ELSE "dead"]
  /\ Leave(s)
  /\ UNCHANGED <<imports, staged, stored, contacts, banned, aged, wrote, faults, edits>>

-----------------------------------------------------------------------------
(* sweepStagedFiles: the imports older than the retention window as read   *)
(* at the start, each file removed, then a waiting import closed.          *)
SweepReads(s) ==
  /\ At(s, "sweep")
  /\ IF aged = {} THEN Free(s)
     ELSE srv' = [srv EXCEPT ![s].pc = "sweepRemove",
                    ![s].supp = {i \in aged : imports[i].status \in Waiting}, ![s].old = aged]
  /\ UNCHANGED <<imports, staged, jobs, stored, contacts, banned, aged, wrote, faults, edits>>

SweepRemoves(s, i) ==
  /\ At(s, "sweepRemove") /\ i \in srv[s].old
  /\ staged' = [staged EXCEPT ![i] = "nothing"]
  /\ srv' = [srv EXCEPT ![s].imp = i, ![s].old = @ \ {i},
               ![s].pc = IF i \in srv[s].supp THEN "sweepClose"
                         ELSE IF srv[s].old = {i} THEN "idle" ELSE "sweepRemove"]
  /\ UNCHANGED <<imports, jobs, stored, contacts, banned, aged, wrote, faults, edits>>

SweepCloses(s) ==
  LET i == srv[s].imp IN
  /\ At(s, "sweepClose")
  /\ Transition(i, Waiting, "failed", imports[i].rows)
  /\ IF srv[s].old = {} THEN Free(s) ELSE Goto(s, "sweepRemove")
  /\ UNCHANGED <<staged, jobs, stored, contacts, banned, aged, wrote, faults, edits>>

-----------------------------------------------------------------------------
(* Faults.  A call inside processImport's try raises, before or (for the   *)
(* upsert) after its effect; outside it the request ends; the two writes   *)
(* of the catch swallow the error; the rate limit may refuse the run.      *)
InTry == {"reset", "clear", "open", "eligible", "upsert", "persist", "lastPersist",
          "counters", "complete", "close"}

Raises(s) ==
  /\ faults < MaxFaults
  /\ faults' = faults + 1
  /\ \/ /\ srv[s].pc \in InTry
        /\ Goto(s, "fail") /\ UNCHANGED <<contacts, wrote>>
     \/ /\ At(s, "upsert")
        /\ WriteContacts(srv[s]) /\ Goto(s, "fail")
     \/ /\ At(s, "fail")
        /\ Goto(s, "failJob") /\ UNCHANGED <<contacts, wrote>>
     \/ /\ srv[s].pc \in {"claim", "load", "failJob", "remove"}
        /\ Leave(s) /\ UNCHANGED <<contacts, wrote>>
     \/ /\ srv[s].pc \in {"inspect", "confirm", "abandon", "enqueue", "sweep"}
        /\ Free(s) /\ UNCHANGED <<contacts, wrote>>
  /\ UNCHANGED <<imports, staged, jobs, stored, banned, aged, edits>>

Dies(s) ==
  /\ faults < MaxFaults /\ ~At(s, "idle")
  /\ faults' = faults + 1
  /\ Free(s)
  /\ UNCHANGED <<imports, staged, jobs, stored, contacts, banned, aged, wrote, edits>>

(* People meanwhile: the trigger of a new or deleted suppression mirrors   *)
(* itself into contacts.status; a contact is deleted.                      *)
SuppressionAdded(a) ==
  /\ edits < MaxEdits /\ a \notin banned
  /\ banned' = banned \cup {a}
  /\ contacts' = IF contacts[a] = "active" THEN [contacts EXCEPT ![a] = "suppressed"] ELSE contacts
  /\ edits' = edits + 1
  /\ UNCHANGED <<imports, staged, jobs, stored, aged, srv, wrote, faults>>

SuppressionLifted(a) ==
  /\ edits < MaxEdits /\ a \in banned
  /\ banned' = banned \ {a}
  /\ contacts' = IF contacts[a] = "suppressed" THEN [contacts EXCEPT ![a] = "active"] ELSE contacts
  /\ edits' = edits + 1
  /\ UNCHANGED <<imports, staged, jobs, stored, aged, srv, wrote, faults>>

ContactDeleted(a) ==
  /\ edits < MaxEdits /\ contacts[a] # "none"
  /\ contacts' = [contacts EXCEPT ![a] = "none"]
  /\ edits' = edits + 1
  /\ UNCHANGED <<imports, staged, jobs, stored, banned, aged, srv, wrote, faults>>

-----------------------------------------------------------------------------
RequestStep(s) ==
  \/ MarkFailed(s) \/ CannotRead(s) \/ Inspect(s) \/ Abandon(s) \/ Confirm(s) \/ Enqueue(s)

RunStep(s) ==
  \/ Claim(s) \/ CountAttempt(s) \/ Load(s) \/ Reset(s) \/ ClearRejections(s) \/ OpenFile(s)
  \/ OfferRow(s) \/ Flush(s) \/ FindSuppressed(s) \/ UpsertChunk(s) \/ PersistRejections(s)
  \/ UpdateCounters(s) \/ Complete(s) \/ CompleteJob(s) \/ RemoveFile(s)
  \/ RecordFailure(s) \/ FailJob(s)

SweepStep(s) == SweepReads(s) \/ SweepCloses(s) \/ \E i \in Imports : SweepRemoves(s, i)

ServerStep(s) == RequestStep(s) \/ RunStep(s) \/ SweepStep(s)

ImportNext ==
  \/ \E i \in Imports : Upload(i) \/ GrowsOld(i)
  \/ \E s \in Servers, i \in Imports :
       Retries(s, i) \/ \E request \in {"inspect", "confirm", "abandon"} : Asks(s, i, request)
  \/ \E s \in Servers : ServerStep(s) \/ Raises(s) \/ Dies(s)
  \/ \E a \in Addresses : SuppressionAdded(a) \/ SuppressionLifted(a) \/ ContactDeleted(a)

(* A server that has begun a request goes on with it.                      *)
ImportFairness == \A s \in Servers : WF_importVars(ServerStep(s))

ImportSpec == ImportInit /\ [][ImportNext]_importVars /\ ImportFairness

-----------------------------------------------------------------------------
Running(s) == srv[s].pc \in InTry \cup {"count", "load", "rows", "fail", "failJob"}

(* processImport: "exactly one processing pass".  No two requests are      *)
(* inside the runner for one import, and the job stays claimed meanwhile.  *)
OneRunnerPerImport ==
  \A s \in Servers : Running(s) =>
    /\ jobs[srv[s].imp].status = "claimed"
    /\ \A t \in Servers \ {s} : Running(t) => srv[t].imp # srv[s].imp

(* A completed import accounts for every row of its file exactly once, has *)
(* a stored reason for every row that is not a new contact up to the cap,  *)
(* and counts as valid only rows it wrote; a failed one counts no row that *)
(* was not reached and no contact that was not written.                    *)
CountersTellTheTruth ==
  \A i \in Imports :
    LET rows == imports[i].rows IN
    /\ rows["total"] = Bucketed(rows)
    /\ rows["total"] <= Len(File[i]) /\ rows["valid"] <= Cardinality(wrote[i])
    /\ imports[i].status = "completed" =>
         /\ rows["total"] = Len(File[i])
         /\ stored[i] = Lesser(MaxStored, rows["total"] - rows["valid"])

(* An import only moves along its statuses, and once it is completed or    *)
(* failed neither the status nor the counters change again.                *)
ImportsOnlyMoveForward ==
  [][\A i \in Imports :
      LET from == imports[i].status  to == imports'[i].status IN
      /\ from \in Terminal => imports'[i] = imports[i]
      /\ from # to => <<from, to>> \in {<<"uploaded", "mapping">>, <<"uploaded", "failed">>,
            <<"uploaded", "processing">>, <<"mapping", "processing">>, <<"mapping", "failed">>,
            <<"processing", "completed">>, <<"processing", "failed">>}]_importVars

(* Whatever a spreadsheet says, a contact marked suppressed is made active *)
(* again only by removing the suppression or the contact.                  *)
ImportNeverUnsuppresses ==
  [][\A a \in Addresses :
      contacts[a] = "suppressed" /\ contacts'[a] = "active" => banned' = banned \ {a}]_importVars

(* Without a fault a confirmed import ends, whatever else goes on.         *)
ConfirmedImportEnds ==
  \A i \in Imports :
    (imports[i].status = "processing" /\ faults = 0)
      ~> (imports[i].status \in Terminal \/ faults > 0)
=============================================================================
