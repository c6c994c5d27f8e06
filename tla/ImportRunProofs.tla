-------------------------- MODULE ImportRunProofs --------------------------
(***************************************************************************)
(* An import has one runner, moves forward only and cannot lift a          *)
(* suppression, for any files, imports, servers, faults and people.  Its   *)
(* reader is the one for the bytes of the file, and an accepted mapping    *)
(* takes one column of the file for every field it names.                  *)
(***************************************************************************)
EXTENDS ImportRun, ImportRules, FiniteSetTheorems, SequenceTheorems, WellFoundedInduction, TLAPS

Statuses == Waiting \cup Terminal \cup {"processing"}
Fields == {"pc", "imp", "after", "pos", "seen", "chunk", "tally", "held", "kept", "supp", "old"}

\* What the proofs need to know of the types: the rows of an import and the
\* rest of a server are whatever they are.
TablesShaped ==
    /\ imports = [i \in Imports |-> imports[i]]
    /\ \A i \in Imports : /\ DOMAIN imports[i] = {"status", "rows"}
                          /\ imports[i].status \in Statuses
    /\ jobs = [i \in Imports |-> jobs[i]]
    /\ \A i \in Imports : DOMAIN jobs[i] = {"status", "attempts"}
    /\ staged = [i \in Imports |-> staged[i]]

ServersShaped ==
    /\ srv = [s \in Servers |-> srv[s]]
    /\ \A s \in Servers : DOMAIN srv[s] = Fields /\ srv[s].imp \in Imports

\* A job exists only for an import that was confirmed, and whoever is about to
\* enqueue it is the only one and the first.
JobFollowsConfirmation ==
    /\ \A i \in Imports : jobs[i].status # "none" => imports[i].status \notin Waiting
    /\ \A s \in Servers : srv[s].pc = "enqueue" =>
         /\ jobs[srv[s].imp].status = "none" /\ imports[srv[s].imp].status \notin Waiting
         /\ \A t \in Servers \ {s} : srv[t].pc = "enqueue" => srv[t].imp # srv[s].imp

\* A refused file never gets past confirmation, and what is being processed
\* is processed until its own runner says otherwise.
Writing == {"reset", "clear", "open", "rows", "eligible", "upsert", "persist", "lastPersist",
            "counters", "complete"}

ProcessingIsHeld ==
    /\ \A i \in Imports : imports[i].status = "processing" => staged[i] # "refused"
    /\ \A s \in Servers : srv[s].pc \in Writing => imports[srv[s].imp].status = "processing"

RunInv == TablesShaped /\ ServersShaped /\ JobFollowsConfirmation /\ OneRunnerPerImport /\ ProcessingIsHeld

-----------------------------------------------------------------------------
\* A step of server s takes it to pc p, about import i, and no other server
\* anywhere.
Becomes(s, p, i) ==
    /\ srv' = [t \in Servers |-> srv'[t]]
    /\ \A t \in Servers : DOMAIN srv'[t] = Fields
    /\ srv'[s].pc = p /\ srv'[s].imp = i
    /\ \A t \in Servers \ {s} : srv'[t] = srv[t]

LEMMA GotoBecomes ==
    ASSUME ServersShaped, NEW s \in Servers, NEW p, Goto(s, p)
    PROVE  Becomes(s, p, srv[s].imp)
BY DEF ServersShaped, Goto, Becomes, Fields

LEMMA RecordBecomes ==
    ASSUME ServersShaped, NEW s \in Servers, NEW r, srv' = [srv EXCEPT ![s] = r], DOMAIN r = Fields
    PROVE  Becomes(s, r.pc, r.imp)
BY DEF ServersShaped, Becomes

LEMMA IdleFields ==
    ASSUME NEW i PROVE DOMAIN IdleServer(i) = Fields /\ IdleServer(i).pc = "idle" /\ IdleServer(i).imp = i
BY DEF IdleServer, Fields

LEMMA FreeBecomes ==
    ASSUME ServersShaped, NEW s \in Servers, Free(s)
    PROVE  Becomes(s, "idle", srv[s].imp)
BY IdleFields DEF ServersShaped, Free, Becomes

LEMMA LeaveBecomes ==
    ASSUME ServersShaped, NEW s \in Servers, Leave(s)
    PROVE  \E p \in {"idle", "sweep"} : Becomes(s, p, srv[s].imp)
<1> DEFINE p == IF srv[s].after THEN "sweep" ELSE "idle"
<1>1. srv' = [srv EXCEPT ![s] = [IdleServer(srv[s].imp) EXCEPT !.pc = p]]
    BY DEF Leave
<1>2. p \in {"idle", "sweep"} OBVIOUS
<1> HIDE DEF p
<1>3. Becomes(s, p, srv[s].imp)
    BY <1>1, IdleFields DEF ServersShaped, Becomes, Fields
<1>4. QED BY <1>2, <1>3

-----------------------------------------------------------------------------
\* The statuses of imports and jobs stay, and no file becomes a refused one.
StatusesStay ==
    /\ TablesShaped'
    /\ \A k \in Imports : imports'[k].status = imports[k].status
    /\ \A k \in Imports : jobs'[k].status = jobs[k].status
    /\ \A k \in Imports : staged'[k] = "refused" => staged[k] = "refused"

RunnerPcs == InTry \cup {"count", "load", "rows", "fail", "failJob"}

\* A step that leaves the statuses alone keeps the invariant when only a
\* runner goes on running, and only about an import in processing writes.
LEMMA ServerMoves ==
    ASSUME RunInv, StatusesStay, NEW s \in Servers, NEW p, NEW i \in Imports, Becomes(s, p, i),
           p # "enqueue",
           p \in RunnerPcs => srv[s].pc \in RunnerPcs /\ i = srv[s].imp,
           p \in Writing => imports[i].status = "processing"
    PROVE  RunInv'
<1>1. ServersShaped'
    BY DEF RunInv, ServersShaped, Becomes
<1>2. JobFollowsConfirmation'
    BY DEF RunInv, ServersShaped, JobFollowsConfirmation, Becomes, StatusesStay
<1>3. OneRunnerPerImport'
    BY DEF RunInv, ServersShaped, OneRunnerPerImport, Running, RunnerPcs, Becomes, StatusesStay
<1>4. ProcessingIsHeld'
    BY DEF RunInv, ServersShaped, ProcessingIsHeld, Becomes, StatusesStay
<1>5. QED BY <1>1, <1>2, <1>3, <1>4 DEF RunInv, StatusesStay

\* A step that moves the import of its server: out of waiting, where it has no
\* job and no runner, or out of processing by its own runner.
LEMMA ServerTransitions ==
    ASSUME RunInv, TablesShaped', NEW s \in Servers, NEW p, NEW i \in Imports,
           i = srv[s].imp, Becomes(s, p, i), UNCHANGED <<jobs, staged>>,
           \A k \in Imports \ {i} : imports'[k] = imports[k],
           \/ /\ imports[i].status \in Waiting
              /\ p \notin RunnerPcs
              /\ imports'[i].status = "processing" => staged[i] # "refused"
              /\ p = "enqueue" => imports'[i].status \notin Waiting
           \/ /\ imports[i].status = "processing" /\ imports'[i].status \in Terminal
              /\ srv[s].pc \in RunnerPcs /\ p \notin Writing \cup {"enqueue"}
    PROVE  RunInv'
<1>1. ServersShaped'
    BY DEF RunInv, ServersShaped, Becomes
<1>2. JobFollowsConfirmation'
    BY DEF RunInv, ServersShaped, JobFollowsConfirmation, Becomes, Waiting, Terminal
<1>3. OneRunnerPerImport'
    BY DEF RunInv, ServersShaped, JobFollowsConfirmation, OneRunnerPerImport, Running, RunnerPcs, Becomes
<1>4. ProcessingIsHeld'
    BY DEF RunInv, ServersShaped, ProcessingIsHeld, OneRunnerPerImport, Running, RunnerPcs, InTry, Writing,
           Becomes, Waiting, Terminal
<1>5. QED BY <1>1, <1>2, <1>3, <1>4 DEF RunInv

-----------------------------------------------------------------------------
\* The compare-and-set moves the import or leaves every import alone.
LEMMA TransitionEffect ==
    ASSUME TablesShaped, NEW i \in Imports, NEW from, NEW to \in Statuses, NEW rows,
           Transition(i, from, to, rows), UNCHANGED <<jobs, staged>>
    PROVE  /\ TablesShaped'
           /\ \A k \in Imports \ {i} : imports'[k] = imports[k]
           /\ \/ Moves(i, from, to, rows) /\ imports'[i].status = to
              \/ ~Moves(i, from, to, rows) /\ imports' = imports
<1>1. CASE Moves(i, from, to, rows)
    BY <1>1 DEF TablesShaped, Transition
<1>2. CASE ~Moves(i, from, to, rows)
    BY <1>2 DEF TablesShaped, Transition
<1>3. QED BY <1>1, <1>2

\* A request, or the sweep, moves an import that waits.
LEMMA WaitingTransition ==
    ASSUME RunInv, NEW s \in Servers, NEW p, NEW from, NEW to \in Statuses, NEW rows,
           Becomes(s, p, srv[s].imp), Transition(srv[s].imp, from, to, rows),
           UNCHANGED <<jobs, staged>>, p \notin RunnerPcs, to # "completed",
           from \subseteq Waiting \/ staged[srv[s].imp] = "refused",
           from \subseteq Waiting \cup {"processing"},
           to = "processing" => staged[srv[s].imp] # "refused",
           p = "enqueue" => imports[srv[s].imp].status \in from /\ to \notin Waiting
    PROVE  RunInv'
<1> DEFINE i == srv[s].imp
<1>0. i \in Imports
    BY DEF RunInv, ServersShaped
<1>1. /\ TablesShaped'
      /\ \A k \in Imports \ {i} : imports'[k] = imports[k]
      /\ \/ Moves(i, from, to, rows) /\ imports'[i].status = to
         \/ ~Moves(i, from, to, rows) /\ imports' = imports
    BY <1>0, TransitionEffect DEF RunInv
<1>2. imports[i].status # "processing" \/ staged[i] # "refused"
    BY <1>0 DEF RunInv, ProcessingIsHeld
<1>3. CASE Moves(i, from, to, rows) /\ imports'[i].status = to
    <2>1. imports[i].status \in Waiting
        BY <1>2, <1>3 DEF Moves
    <2>2. QED BY <1>0, <1>1, <1>3, <2>1, ServerTransitions
<1>4. CASE ~Moves(i, from, to, rows) /\ imports' = imports
    <2>1. p # "enqueue"
        BY <1>4 DEF Moves
    <2>2. StatusesStay
        BY <1>1, <1>4 DEF StatusesStay
    <2>3. p \notin Writing
        BY DEF RunnerPcs, Writing, InTry
    <2>4. QED BY <1>0, <2>1, <2>2, <2>3, ServerMoves
<1>5. QED BY <1>1, <1>3, <1>4

LEMMA SameTables ==
    ASSUME RunInv, UNCHANGED <<imports, jobs, staged>>
    PROVE  StatusesStay
BY DEF RunInv, TablesShaped, StatusesStay

\* The requests of people keep the invariant.
LEMMA RequestInv ==
    ASSUME RunInv, NEW s \in Servers, RequestStep(s)
    PROVE  RunInv'
<1> USE DEF RunnerPcs, InTry, Writing, Waiting, Terminal, Statuses
<1>0. srv[s].imp \in Imports /\ ServersShaped
    BY DEF RunInv, ServersShaped
<1>1. CASE MarkFailed(s)
    <2>1. Becomes(s, "idle", srv[s].imp)
        BY <1>0, <1>1, FreeBecomes DEF MarkFailed
    <2>2. /\ Transition(srv[s].imp, Waiting \cup {"processing"}, "failed", imports[srv[s].imp].rows)
          /\ UNCHANGED <<jobs, staged>> /\ staged[srv[s].imp] = "refused"
        BY <1>1 DEF MarkFailed
    <2>3. "failed" \in Statuses /\ "idle" \notin RunnerPcs
        OBVIOUS
    <2> HIDE DEF RunnerPcs, InTry, Writing, Waiting, Terminal, Statuses
    <2>4. QED BY <2>1, <2>2, <2>3, WaitingTransition
<1>2. CASE CannotRead(s)
    <2>1. Becomes(s, "idle", srv[s].imp)
        BY <1>0, <1>2, FreeBecomes DEF CannotRead
    <2>2. StatusesStay
        BY <1>2, SameTables DEF CannotRead
    <2>3. QED BY <1>0, <2>1, <2>2, ServerMoves
<1>3. CASE Inspect(s)
    <2>1. Becomes(s, "idle", srv[s].imp)
        BY <1>0, <1>3, FreeBecomes DEF Inspect
    <2>2. /\ Transition(srv[s].imp, Waiting, "mapping", imports[srv[s].imp].rows)
          /\ UNCHANGED <<jobs, staged>>
        BY <1>3 DEF Inspect
    <2>3. "mapping" \in Statuses \ {"processing", "completed"} /\ "idle" \notin RunnerPcs
        OBVIOUS
    <2> HIDE DEF RunnerPcs, InTry, Writing, Waiting, Terminal, Statuses
    <2>4. QED BY <2>1, <2>2, <2>3, WaitingTransition
<1>4. CASE Abandon(s)
    <2>1. Becomes(s, "idle", srv[s].imp)
        BY <1>0, <1>4, FreeBecomes DEF Abandon
    <2>2. /\ Transition(srv[s].imp, Waiting, "failed", imports[srv[s].imp].rows)
          /\ UNCHANGED <<jobs, staged>>
        BY <1>4 DEF Abandon
    <2>3. "failed" \in Statuses \ {"processing", "completed"} /\ "idle" \notin RunnerPcs
        OBVIOUS
    <2> HIDE DEF RunnerPcs, InTry, Writing, Waiting, Terminal, Statuses
    <2>4. QED BY <2>1, <2>2, <2>3, WaitingTransition
<1>5. CASE Confirm(s)
    <2>1. CASE imports[srv[s].imp].status \in Waiting
        <3>1. Becomes(s, "enqueue", srv[s].imp)
            <4> DEFINE r == [srv[s] EXCEPT !.pc = "enqueue", !.after = TRUE]
            <4>1. srv' = [srv EXCEPT ![s] = r]
                BY <1>5, <2>1 DEF Confirm
            <4>2. DOMAIN r = Fields /\ r.pc = "enqueue" /\ r.imp = srv[s].imp
                BY <1>0 DEF ServersShaped, Fields
            <4> HIDE DEF r
            <4>3. QED BY <1>0, <4>1, <4>2, RecordBecomes
        <3>2. /\ Transition(srv[s].imp, Waiting, "processing", imports[srv[s].imp].rows)
              /\ UNCHANGED <<jobs, staged>> /\ staged[srv[s].imp] # "refused"
            BY <1>5 DEF Confirm, Transition
        <3>3. "processing" \in Statuses \ Waiting /\ "enqueue" \notin RunnerPcs
            OBVIOUS
        <3> HIDE DEF RunnerPcs, InTry, Writing, Waiting, Terminal, Statuses
        <3>4. QED BY <2>1, <3>1, <3>2, <3>3, WaitingTransition
    <2>2. CASE imports[srv[s].imp].status \notin Waiting
        <3>1. Becomes(s, "idle", srv[s].imp)
            BY <1>0, <1>5, <2>2, FreeBecomes DEF Confirm
        <3>2. /\ Transition(srv[s].imp, Waiting, "processing", imports[srv[s].imp].rows)
              /\ UNCHANGED <<jobs, staged>> /\ staged[srv[s].imp] # "refused"
            BY <1>5 DEF Confirm, Transition
        <3>3. "processing" \in Statuses \ Waiting /\ "idle" \notin RunnerPcs
            OBVIOUS
        <3> HIDE DEF RunnerPcs, InTry, Writing, Waiting, Terminal, Statuses
        <3>4. QED BY <3>1, <3>2, <3>3, WaitingTransition
    <2>3. QED BY <2>1, <2>2
<1>6. CASE Enqueue(s)
    <2>1. Becomes(s, "claim", srv[s].imp)
        BY <1>0, <1>6, GotoBecomes DEF Enqueue
    <2>2. TablesShaped'
        BY <1>6 DEF Enqueue, RunInv, TablesShaped
    <2>3. /\ srv[s].pc = "enqueue" /\ jobs[srv[s].imp].status = "none"
          /\ \A k \in Imports : jobs'[k].status = IF k = srv[s].imp THEN "queued" ELSE jobs[k].status
        BY <1>0, <1>6, ZenonT(60) DEF Enqueue, At, RunInv, TablesShaped, JobFollowsConfirmation
    <2>4. imports' = imports /\ staged' = staged
        BY <1>6 DEF Enqueue
    <2>5. ServersShaped'
        BY <1>0, <2>1 DEF ServersShaped, Becomes
    <2>6. JobFollowsConfirmation'
        BY <1>0, <2>1, <2>3, <2>4 DEF RunInv, JobFollowsConfirmation, ServersShaped, Becomes
    <2>7. OneRunnerPerImport'
        BY <1>0, <2>1, <2>3 DEF RunInv, OneRunnerPerImport, Running, ServersShaped, Becomes
    <2>8. ProcessingIsHeld'
        BY <1>0, <2>1, <2>4 DEF RunInv, ProcessingIsHeld, ServersShaped, Becomes
    <2>9. QED BY <2>2, <2>5, <2>6, <2>7, <2>8 DEF RunInv
<1>7. QED BY <1>1, <1>2, <1>3, <1>4, <1>5, <1>6 DEF RequestStep

-----------------------------------------------------------------------------
\* The steps of a runner keep the invariant: those that change a job first.
LEMMA JobInv ==
    ASSUME RunInv, NEW s \in Servers,
           NEW p, p \notin Writing \cup {"enqueue"}, Becomes(s, p, srv[s].imp),
           TablesShaped', UNCHANGED <<imports, staged>>,
           NEW status, status # "none", jobs[srv[s].imp].status # "none",
           \A k \in Imports : jobs'[k].status = IF k = srv[s].imp THEN status ELSE jobs[k].status,
           \/ jobs[srv[s].imp].status = "queued" /\ status = "claimed"
           \/ srv[s].pc \in RunnerPcs /\ p \notin RunnerPcs
    PROVE  RunInv'
<1> DEFINE i == srv[s].imp
<1>0. i \in Imports
    BY DEF RunInv, ServersShaped
<1>1. ServersShaped'
    BY <1>0 DEF RunInv, ServersShaped, Becomes
<1>2. JobFollowsConfirmation'
    BY <1>0 DEF RunInv, ServersShaped, JobFollowsConfirmation, Becomes
<1>3. OneRunnerPerImport'
    BY <1>0 DEF RunInv, ServersShaped, OneRunnerPerImport, Running, RunnerPcs, Becomes
<1>4. ProcessingIsHeld'
    BY <1>0 DEF RunInv, ServersShaped, ProcessingIsHeld, Becomes
<1>5. QED BY <1>1, <1>2, <1>3, <1>4 DEF RunInv

\* Inside the runner the job is claimed.
LEMMA RunnerHoldsJob ==
    ASSUME RunInv, NEW s \in Servers, srv[s].pc \in RunnerPcs
    PROVE  jobs[srv[s].imp].status = "claimed"
BY DEF RunInv, OneRunnerPerImport, Running, RunnerPcs

\* What ends a run and leaves the statuses alone.
LEMMA LeaveInv ==
    ASSUME RunInv, NEW s \in Servers, StatusesStay, Leave(s)
    PROVE  RunInv'
<1>1. PICK p \in {"idle", "sweep"} : Becomes(s, p, srv[s].imp)
    BY LeaveBecomes DEF RunInv
<1>2. p \notin RunnerPcs /\ p \notin Writing /\ p # "enqueue" /\ srv[s].imp \in Imports
    BY DEF RunnerPcs, InTry, Writing, RunInv, ServersShaped
<1>3. QED BY <1>1, <1>2, ServerMoves

\* What goes on with a run that writes, and leaves the statuses alone.
LEMMA WriteOn ==
    ASSUME RunInv, NEW s \in Servers, StatusesStay, srv[s].pc \in Writing,
           NEW p, p \in RunnerPcs, Becomes(s, p, srv[s].imp)
    PROVE  RunInv'
<1>1. p # "enqueue" /\ srv[s].pc \in RunnerPcs /\ srv[s].imp \in Imports
    BY DEF RunnerPcs, InTry, Writing, RunInv, ServersShaped
<1>2. imports[srv[s].imp].status = "processing"
    BY DEF RunInv, ProcessingIsHeld
<1>3. QED BY <1>1, <1>2, ServerMoves

LEMMA StartInv ==
    ASSUME RunInv, NEW s \in Servers, Claim(s) \/ CountAttempt(s) \/ Load(s)
    PROVE  RunInv'
<1>0. srv[s].imp \in Imports /\ ServersShaped
    BY DEF RunInv, ServersShaped
<1>1. CASE Claim(s) /\ Claimable(srv[s].imp)
    <2>1. Becomes(s, "count", srv[s].imp)
        BY <1>0, <1>1, GotoBecomes DEF Claim
    <2>2. jobs' = [jobs EXCEPT ![srv[s].imp].status = "claimed"] /\ UNCHANGED <<imports, staged>>
        BY <1>1 DEF Claim
    <2>3. jobs[srv[s].imp].status = "queued"
        BY <1>1 DEF Claimable
    <2>4. "count" \notin Writing \cup {"enqueue"}
        BY DEF Writing
    <2>5. /\ TablesShaped'
          /\ \A k \in Imports : jobs'[k].status = IF k = srv[s].imp THEN "claimed" ELSE jobs[k].status
        BY <1>0, <2>2 DEF RunInv, TablesShaped
    <2>6. QED BY <2>1, <2>2, <2>3, <2>4, <2>5, JobInv
<1>2. CASE Claim(s) /\ ~Claimable(srv[s].imp)
    <2>1. Leave(s) /\ StatusesStay
        BY <1>2, SameTables DEF Claim
    <2>2. QED BY <2>1, LeaveInv
<1>3. CASE CountAttempt(s)
    <2>1. Becomes(s, "load", srv[s].imp)
        BY <1>0, <1>3, GotoBecomes DEF CountAttempt
    <2>2. StatusesStay
        BY <1>0, <1>3 DEF CountAttempt, StatusesStay, RunInv, TablesShaped
    <2>3. srv[s].pc \in RunnerPcs /\ "load" \notin Writing
        BY <1>3 DEF CountAttempt, At, RunnerPcs, Writing
    <2>4. QED BY <1>0, <2>1, <2>2, <2>3, ServerMoves
<1>4. CASE Load(s) /\ imports[srv[s].imp].status = "processing"
    <2>1. Becomes(s, "reset", srv[s].imp)
        BY <1>0, <1>4, GotoBecomes DEF Load
    <2>2. StatusesStay
        BY <1>4, SameTables DEF Load
    <2>3. srv[s].pc \in RunnerPcs
        BY <1>4 DEF Load, At, RunnerPcs
    <2>4. QED BY <1>0, <1>4, <2>1, <2>2, <2>3, ServerMoves
<1>5. CASE Load(s) /\ imports[srv[s].imp].status # "processing"
    <2>1. PICK p \in {"idle", "sweep"} : Becomes(s, p, srv[s].imp)
        BY <1>0, <1>5, LeaveBecomes DEF Load
    <2>2. jobs' = [jobs EXCEPT ![srv[s].imp].status = "done"] /\ UNCHANGED <<imports, staged>>
        BY <1>5 DEF Load
    <2>3. srv[s].pc \in RunnerPcs /\ p \notin RunnerPcs /\ p \notin Writing \cup {"enqueue"}
        BY <1>5 DEF Load, At, RunnerPcs, InTry, Writing
    <2>4. jobs[srv[s].imp].status = "claimed"
        BY <2>3, RunnerHoldsJob
    <2>5. /\ TablesShaped'
          /\ \A k \in Imports : jobs'[k].status = IF k = srv[s].imp THEN "done" ELSE jobs[k].status
        BY <1>0, <2>2 DEF RunInv, TablesShaped
    <2>6. QED BY <2>1, <2>2, <2>3, <2>4, <2>5, JobInv
<1>6. QED BY <1>1, <1>2, <1>3, <1>4, <1>5

\* The steps between the opening of the file and its last chunk.
LEMMA WriteInv ==
    ASSUME RunInv, NEW s \in Servers,
           \/ Reset(s) \/ ClearRejections(s) \/ OpenFile(s) \/ OfferRow(s) \/ Flush(s)
           \/ FindSuppressed(s) \/ UpsertChunk(s) \/ PersistRejections(s) \/ UpdateCounters(s)
    PROVE  RunInv'
<1>0. srv[s].imp \in Imports /\ ServersShaped
    BY DEF RunInv, ServersShaped
<1>1. CASE Reset(s)
    <2>1. StatusesStay
        BY <1>0, <1>1 DEF Reset, StatusesStay, RunInv, TablesShaped
    <2>2. Becomes(s, "clear", srv[s].imp)
        BY <1>0, <1>1, GotoBecomes DEF Reset
    <2>3. srv[s].pc \in Writing /\ "clear" \in RunnerPcs
        BY <1>1 DEF Reset, At, Writing, RunnerPcs, InTry
    <2>4. QED BY <2>1, <2>2, <2>3, WriteOn
<1>2. CASE ClearRejections(s)
    <2>1. StatusesStay
        BY <1>2, SameTables DEF ClearRejections
    <2>2. Becomes(s, "open", srv[s].imp)
        BY <1>0, <1>2, GotoBecomes DEF ClearRejections
    <2>3. srv[s].pc \in Writing /\ "open" \in RunnerPcs
        BY <1>2 DEF ClearRejections, At, Writing, RunnerPcs, InTry
    <2>4. QED BY <2>1, <2>2, <2>3, WriteOn
<1>3. CASE OpenFile(s)
    <2>1. StatusesStay
        BY <1>3, SameTables DEF OpenFile
    <2>2. PICK p \in {"rows", "fail"} : Goto(s, p)
        BY <1>3 DEF OpenFile
    <2>3. Becomes(s, p, srv[s].imp)
        BY <1>0, <2>2, GotoBecomes
    <2>4. srv[s].pc \in Writing /\ p \in RunnerPcs
        BY <1>3 DEF OpenFile, At, Writing, RunnerPcs, InTry
    <2>5. QED BY <2>1, <2>3, <2>4, WriteOn
<1>4. CASE OfferRow(s)
    <2>1. StatusesStay
        BY <1>4, SameTables DEF OfferRow
    <2> DEFINE next == Offered(srv[s], File[srv[s].imp][srv[s].pos])
               p == IF Len(next.chunk) >= ChunkRows THEN "eligible" ELSE "rows"
               r == [next EXCEPT !.pos = @ + 1, !.pc = p]
    <2>2. srv' = [srv EXCEPT ![s] = r]
        BY <1>4 DEF OfferRow
    <2>3. DOMAIN next = Fields /\ next.imp = srv[s].imp
        BY <1>0 DEF ServersShaped, Offered, Turned, Push, Fields
    <2>4. DOMAIN r = Fields /\ r.pc = p /\ r.imp = srv[s].imp
        <3> HIDE DEF next, p
        <3>1. QED BY <2>3 DEF Fields
    <2>5. p \in RunnerPcs
        BY DEF RunnerPcs, InTry
    <2>6. srv[s].pc \in Writing
        BY <1>4 DEF OfferRow, At, Writing
    <2> HIDE DEF r, p
    <2>7. Becomes(s, p, srv[s].imp)
        BY <1>0, <2>2, <2>4, RecordBecomes
    <2>8. QED BY <2>1, <2>5, <2>6, <2>7, WriteOn
<1>5. CASE Flush(s)
    <2>1. StatusesStay
        BY <1>5, SameTables DEF Flush
    <2>2. PICK p \in {"eligible", "lastPersist", "complete"} : Goto(s, p)
        BY <1>5 DEF Flush
    <2>3. Becomes(s, p, srv[s].imp)
        BY <1>0, <2>2, GotoBecomes
    <2>4. srv[s].pc \in Writing /\ p \in RunnerPcs
        BY <1>5 DEF Flush, At, Writing, RunnerPcs, InTry
    <2>5. QED BY <2>1, <2>3, <2>4, WriteOn
<1>6. CASE FindSuppressed(s)
    <2>1. StatusesStay
        BY <1>6, SameTables DEF FindSuppressed
    <2> DEFINE r == [srv[s] EXCEPT !.supp = InChunk(srv[s]) \cap banned, !.pc = "upsert"]
    <2>2. srv' = [srv EXCEPT ![s] = r]
        BY <1>6 DEF FindSuppressed
    <2>3. DOMAIN r = Fields /\ r.pc = "upsert" /\ r.imp = srv[s].imp
        BY <1>0 DEF ServersShaped, Fields
    <2>4. srv[s].pc \in Writing /\ "upsert" \in RunnerPcs
        BY <1>6 DEF FindSuppressed, At, Writing, RunnerPcs, InTry
    <2> HIDE DEF r
    <2>5. QED BY <1>0, <2>1, <2>2, <2>3, <2>4, RecordBecomes, WriteOn
<1>7. CASE UpsertChunk(s)
    <2>1. StatusesStay
        BY <1>7, SameTables DEF UpsertChunk
    <2> DEFINE r == [Settled(srv[s]) EXCEPT !.pc = "persist"]
    <2>2. srv' = [srv EXCEPT ![s] = r]
        BY <1>7 DEF UpsertChunk
    <2>3. DOMAIN Settled(srv[s]) = Fields /\ Settled(srv[s]).imp = srv[s].imp
        BY <1>0 DEF ServersShaped, Fields, Settled
    <2>4. DOMAIN r = Fields /\ r.pc = "persist" /\ r.imp = srv[s].imp
        BY <2>3 DEF Fields
    <2>5. srv[s].pc \in Writing /\ "persist" \in RunnerPcs
        BY <1>7 DEF UpsertChunk, At, Writing, RunnerPcs, InTry
    <2> HIDE DEF r
    <2>6. QED BY <1>0, <2>1, <2>2, <2>4, <2>5, RecordBecomes, WriteOn
<1>8. CASE PersistRejections(s)
    <2>1. StatusesStay
        BY <1>8, SameTables DEF PersistRejections
    <2> DEFINE p == IF srv[s].pc = "persist" THEN "counters" ELSE "complete"
               r == [srv[s] EXCEPT !.kept = @ + srv[s].held, !.held = 0, !.pc = p]
    <2>2. srv' = [srv EXCEPT ![s] = r]
        BY <1>8 DEF PersistRejections
    <2>3. DOMAIN r = Fields /\ r.pc = p /\ r.imp = srv[s].imp
        BY <1>0 DEF ServersShaped, Fields
    <2>4. srv[s].pc \in Writing /\ p \in RunnerPcs
        BY <1>8 DEF PersistRejections, Writing, RunnerPcs, InTry
    <2> HIDE DEF r, p
    <2>5. Becomes(s, p, srv[s].imp)
        BY <1>0, <2>2, <2>3, RecordBecomes
    <2>6. QED BY <2>1, <2>4, <2>5, WriteOn
<1>9. CASE UpdateCounters(s)
    <2>1. StatusesStay
        BY <1>0, <1>9 DEF UpdateCounters, StatusesStay, RunInv, TablesShaped
    <2>2. Becomes(s, "rows", srv[s].imp)
        BY <1>0, <1>9, GotoBecomes DEF UpdateCounters
    <2>3. srv[s].pc \in Writing /\ "rows" \in RunnerPcs
        BY <1>9 DEF UpdateCounters, At, Writing, RunnerPcs, InTry
    <2>4. QED BY <2>1, <2>2, <2>3, WriteOn
<1>10. QED BY <1>1, <1>2, <1>3, <1>4, <1>5, <1>6, <1>7, <1>8, <1>9

\* Its own runner takes an import out of processing, or finds it moved.
LEMMA RunnerTransition ==
    ASSUME RunInv, NEW s \in Servers, NEW p, NEW to \in Terminal, NEW rows,
           Becomes(s, p, srv[s].imp), Transition(srv[s].imp, {"processing"}, to, rows),
           UNCHANGED <<jobs, staged>>, srv[s].pc \in RunnerPcs, p \notin Writing \cup {"enqueue"}
    PROVE  RunInv'
<1> DEFINE i == srv[s].imp
<1>0. i \in Imports /\ to \in Statuses /\ TablesShaped
    BY DEF RunInv, ServersShaped, Statuses
<1>1. /\ TablesShaped'
      /\ \A k \in Imports \ {i} : imports'[k] = imports[k]
      /\ \/ Moves(i, {"processing"}, to, rows) /\ imports'[i].status = to
         \/ ~Moves(i, {"processing"}, to, rows) /\ imports' = imports
    BY <1>0, TransitionEffect
<1>2. CASE Moves(i, {"processing"}, to, rows) /\ imports'[i].status = to
    <2>1. imports[i].status = "processing"
        BY <1>2 DEF Moves
    <2>2. QED BY <1>0, <1>1, <1>2, <2>1, ServerTransitions
<1>3. CASE imports' = imports
    <2>1. StatusesStay
        BY <1>1, <1>3 DEF StatusesStay
    <2>2. QED BY <1>0, <2>1, ServerMoves
<1>4. QED BY <1>1, <1>2, <1>3

\* The end of a run, well or badly.
LEMMA EndInv ==
    ASSUME RunInv, NEW s \in Servers,
           Complete(s) \/ CompleteJob(s) \/ RemoveFile(s) \/ RecordFailure(s) \/ FailJob(s)
    PROVE  RunInv'
<1>0. srv[s].imp \in Imports /\ ServersShaped
    BY DEF RunInv, ServersShaped
<1>1. CASE Complete(s)
    <2>1. PICK p \in {"close", "fail"} : Goto(s, p)
        BY <1>1 DEF Complete
    <2>2. Becomes(s, p, srv[s].imp)
        BY <1>0, <2>1, GotoBecomes
    <2>3. Transition(srv[s].imp, {"processing"}, "completed", srv[s].tally) /\ UNCHANGED <<jobs, staged>>
        BY <1>1 DEF Complete
    <2>4. srv[s].pc \in RunnerPcs /\ p \notin Writing \cup {"enqueue"} /\ "completed" \in Terminal
        BY <1>1 DEF Complete, At, RunnerPcs, InTry, Writing, Terminal
    <2>5. QED BY <2>2, <2>3, <2>4, RunnerTransition
<1>2. CASE CompleteJob(s)
    <2>1. Becomes(s, "remove", srv[s].imp)
        BY <1>0, <1>2, GotoBecomes DEF CompleteJob
    <2>2. jobs' = [jobs EXCEPT ![srv[s].imp].status = "done"] /\ UNCHANGED <<imports, staged>>
        BY <1>2 DEF CompleteJob
    <2>3. srv[s].pc \in RunnerPcs /\ "remove" \notin RunnerPcs /\ "remove" \notin Writing \cup {"enqueue"}
        BY <1>2 DEF CompleteJob, At, RunnerPcs, InTry, Writing
    <2>4. jobs[srv[s].imp].status = "claimed"
        BY <2>3, RunnerHoldsJob
    <2>5. /\ TablesShaped'
          /\ \A k \in Imports : jobs'[k].status = IF k = srv[s].imp THEN "done" ELSE jobs[k].status
        BY <1>0, <2>2 DEF RunInv, TablesShaped
    <2>6. QED BY <2>1, <2>2, <2>3, <2>4, <2>5, JobInv
<1>3. CASE RemoveFile(s)
    <2>1. StatusesStay
        BY <1>0, <1>3 DEF RemoveFile, StatusesStay, RunInv, TablesShaped
    <2>2. QED BY <1>3, <2>1, LeaveInv DEF RemoveFile
<1>4. CASE RecordFailure(s)
    <2>1. Becomes(s, "failJob", srv[s].imp)
        BY <1>0, <1>4, GotoBecomes DEF RecordFailure
    <2>2. PICK rows : Transition(srv[s].imp, {"processing"}, "failed", rows)
        BY <1>4 DEF RecordFailure
    <2>3. UNCHANGED <<jobs, staged>> /\ srv[s].pc \in RunnerPcs /\ "failJob" \notin Writing \cup {"enqueue"}
          /\ "failed" \in Terminal
        BY <1>4 DEF RecordFailure, At, RunnerPcs, InTry, Writing, Terminal
    <2>4. QED BY <2>1, <2>2, <2>3, RunnerTransition
<1>5. CASE FailJob(s)
    <2>1. PICK p \in {"idle", "sweep"} : Becomes(s, p, srv[s].imp)
        BY <1>0, <1>5, LeaveBecomes DEF FailJob
    <2>2. PICK status \in {"queued", "dead"} : jobs' = [jobs EXCEPT ![srv[s].imp].status = status]
        BY <1>5 DEF FailJob
    <2>3. srv[s].pc \in RunnerPcs /\ p \notin RunnerPcs /\ p \notin Writing \cup {"enqueue"}
        BY <1>5 DEF FailJob, At, RunnerPcs, InTry, Writing
    <2>4. jobs[srv[s].imp].status = "claimed" /\ UNCHANGED <<imports, staged>>
        BY <1>5, <2>3, RunnerHoldsJob DEF FailJob
    <2>5. /\ TablesShaped'
          /\ \A k \in Imports : jobs'[k].status = IF k = srv[s].imp THEN status ELSE jobs[k].status
        BY <1>0, <2>2, <2>4 DEF RunInv, TablesShaped
    <2>6. QED BY <2>1, <2>2, <2>3, <2>4, <2>5, JobInv
<1>6. QED BY <1>1, <1>2, <1>3, <1>4, <1>5

-----------------------------------------------------------------------------
\* The sweep runs no import: it takes files and closes imports that wait.
LEMMA SweepInv ==
    ASSUME RunInv, NEW s \in Servers, SweepStep(s)
    PROVE  RunInv'
<1>0. srv[s].imp \in Imports /\ ServersShaped
    BY DEF RunInv, ServersShaped
<1>1. CASE SweepReads(s)
    <2>1. StatusesStay
        BY <1>1, SameTables DEF SweepReads
    <2>2. CASE aged = {}
        <3>1. Becomes(s, "idle", srv[s].imp)
            BY <1>0, <1>1, <2>2, FreeBecomes DEF SweepReads
        <3>2. "idle" \notin RunnerPcs /\ "idle" \notin Writing
            BY DEF RunnerPcs, InTry, Writing
        <3>3. QED BY <1>0, <2>1, <3>1, <3>2, ServerMoves
    <2>3. CASE aged # {}
        <3> DEFINE r == [srv[s] EXCEPT !.pc = "sweepRemove",
                           !.supp = {i \in aged : imports[i].status \in Waiting}, !.old = aged]
        <3>1. srv' = [srv EXCEPT ![s] = r]
            BY <1>1, <2>3 DEF SweepReads
        <3>2. DOMAIN r = Fields /\ r.pc = "sweepRemove" /\ r.imp = srv[s].imp
            BY <1>0 DEF ServersShaped, Fields
        <3>3. "sweepRemove" \notin RunnerPcs /\ "sweepRemove" \notin Writing
            BY DEF RunnerPcs, InTry, Writing
        <3> HIDE DEF r
        <3>4. Becomes(s, "sweepRemove", srv[s].imp)
            BY <1>0, <3>1, <3>2, RecordBecomes
        <3>5. QED BY <1>0, <2>1, <3>3, <3>4, ServerMoves
    <2>4. QED BY <2>2, <2>3
<1>2. ASSUME NEW i \in Imports, SweepRemoves(s, i) PROVE RunInv'
    <2>1. StatusesStay
        BY <1>2 DEF SweepRemoves, StatusesStay, RunInv, TablesShaped
    <2> DEFINE p == IF i \in srv[s].supp THEN "sweepClose"
                    ELSE IF srv[s].old = {i} THEN "idle" ELSE "sweepRemove"
               r == [srv[s] EXCEPT !.imp = i, !.old = @ \ {i}, !.pc = p]
    <2>2. srv' = [srv EXCEPT ![s] = r]
        BY <1>2 DEF SweepRemoves
    <2>3. DOMAIN r = Fields /\ r.pc = p /\ r.imp = i
        BY <1>0 DEF ServersShaped, Fields
    <2>4. p \notin RunnerPcs /\ p \notin Writing /\ p # "enqueue"
        BY DEF RunnerPcs, InTry, Writing
    <2> HIDE DEF r, p
    <2>5. Becomes(s, p, i)
        BY <1>0, <2>2, <2>3, RecordBecomes
    <2>6. QED BY <1>2, <2>1, <2>4, <2>5, ServerMoves
<1>3. CASE SweepCloses(s)
    <2>1. PICK p \in {"idle", "sweepRemove"} : Becomes(s, p, srv[s].imp)
        BY <1>0, <1>3, FreeBecomes, GotoBecomes DEF SweepCloses
    <2>2. /\ Transition(srv[s].imp, Waiting, "failed", imports[srv[s].imp].rows)
          /\ UNCHANGED <<jobs, staged>>
        BY <1>3 DEF SweepCloses
    <2>3. p \notin RunnerPcs /\ p # "enqueue" /\ "failed" \in Statuses
        BY DEF RunnerPcs, InTry, Statuses, Terminal
    <2>4. QED BY <2>1, <2>2, <2>3, WaitingTransition
<1>4. QED BY <1>1, <1>2, <1>3 DEF SweepStep

\* A failed call goes to the catch or ends the request; a death ends it.
LEMMA FaultInv ==
    ASSUME RunInv, NEW s \in Servers, Raises(s) \/ Dies(s)
    PROVE  RunInv'
<1>0. srv[s].imp \in Imports /\ ServersShaped
    BY DEF RunInv, ServersShaped
<1>1. StatusesStay
    BY SameTables DEF Raises, Dies
<1>2. \/ srv[s].pc \in InTry \cup {"fail"} /\ \E p \in {"fail", "failJob"} : Goto(s, p)
      \/ Leave(s) \/ Free(s)
    BY DEF Raises, Dies, At, InTry
<1>3. CASE srv[s].pc \in InTry \cup {"fail"} /\ \E p \in {"fail", "failJob"} : Goto(s, p)
    <2>1. PICK p \in {"fail", "failJob"} : Goto(s, p)
        BY <1>3
    <2>2. Becomes(s, p, srv[s].imp)
        BY <1>0, <2>1, GotoBecomes
    <2>3. srv[s].pc \in RunnerPcs /\ p \notin Writing /\ p # "enqueue"
        BY <1>3 DEF RunnerPcs, Writing
    <2>4. QED BY <1>0, <1>1, <2>2, <2>3, ServerMoves
<1>4. CASE Leave(s)
    BY <1>1, <1>4, LeaveInv
<1>5. CASE Free(s)
    <2>1. Becomes(s, "idle", srv[s].imp)
        BY <1>0, <1>5, FreeBecomes
    <2>2. "idle" \notin RunnerPcs /\ "idle" \notin Writing
        BY DEF RunnerPcs, InTry, Writing
    <2>3. QED BY <1>0, <1>1, <2>1, <2>2, ServerMoves
<1>6. QED BY <1>2, <1>3, <1>4, <1>5

\* A new request only reads.
LEMMA AskInv ==
    ASSUME RunInv, NEW s \in Servers, NEW i \in Imports,
           Retries(s, i) \/ \E request \in {"inspect", "confirm", "abandon"} : Asks(s, i, request)
    PROVE  RunInv'
<1>0. ServersShaped
    BY DEF RunInv
<1>1. StatusesStay
    BY SameTables DEF Retries, Asks
<1>2. PICK p \in {"claim", "inspect", "confirm", "abandon"} :
        srv' = [srv EXCEPT ![s] = [IdleServer(i) EXCEPT !.pc = p]]
    BY DEF Retries, Asks
<1> DEFINE r == [IdleServer(i) EXCEPT !.pc = p]
<1>3. DOMAIN r = Fields /\ r.pc = p /\ r.imp = i
    BY IdleFields DEF Fields
<1>4. p \notin RunnerPcs /\ p \notin Writing /\ p # "enqueue"
    BY DEF RunnerPcs, InTry, Writing
<1> HIDE DEF r
<1>5. Becomes(s, p, i)
    BY <1>0, <1>2, <1>3, RecordBecomes DEF r
<1>6. QED BY <1>1, <1>4, <1>5, ServerMoves

\* People, the browser and time change what no guard of the invariant reads.
LEMMA WorldInv ==
    ASSUME RunInv,
           \/ \E i \in Imports : Upload(i) \/ GrowsOld(i)
           \/ \E a \in Addresses : SuppressionAdded(a) \/ SuppressionLifted(a) \/ ContactDeleted(a)
    PROVE  RunInv'
<1>1. ASSUME NEW i \in Imports, Upload(i) PROVE RunInv'
    <2>1. UNCHANGED <<imports, jobs, srv>> /\ imports[i].status = "uploaded"
        BY <1>1 DEF Upload
    <2>2. PICK kind : staged' = [staged EXCEPT ![i] = kind]
        BY <1>1 DEF Upload
    <2>3. TablesShaped' /\ ServersShaped'
        BY <2>1, <2>2 DEF RunInv, TablesShaped, ServersShaped
    <2>4. JobFollowsConfirmation' /\ OneRunnerPerImport'
        BY <2>1 DEF RunInv, JobFollowsConfirmation, OneRunnerPerImport, Running
    <2>5. ProcessingIsHeld'
        BY <2>1, <2>2 DEF RunInv, TablesShaped, ProcessingIsHeld
    <2>6. QED BY <2>3, <2>4, <2>5 DEF RunInv
<1>2. ASSUME UNCHANGED <<imports, jobs, staged, srv>> PROVE RunInv'
    BY <1>2 DEF RunInv, TablesShaped, ServersShaped, JobFollowsConfirmation, OneRunnerPerImport,
                Running, ProcessingIsHeld
<1>3. QED
    BY <1>1, <1>2 DEF GrowsOld, SuppressionAdded, SuppressionLifted, ContactDeleted

-----------------------------------------------------------------------------
\* At the start nothing is confirmed and nobody runs.
LEMMA InitRunInv ==
    ASSUME ImportInit
    PROVE  RunInv
<1>1. TablesShaped
    BY DEF ImportInit, TablesShaped, Statuses, Waiting, NoJob
<1>2. \A s \in Servers : srv[s] = IdleServer(CHOOSE i \in Imports : TRUE)
    BY DEF ImportInit
<1>3. (CHOOSE i \in Imports : TRUE) \in Imports
    BY ImportsAssumption
<1>4. \A s \in Servers : DOMAIN srv[s] = Fields /\ srv[s].pc = "idle" /\ srv[s].imp \in Imports
    BY <1>2, <1>3, IdleFields
<1>5. ServersShaped
    BY <1>4 DEF ImportInit, ServersShaped
<1>6. JobFollowsConfirmation
    BY <1>4 DEF ImportInit, JobFollowsConfirmation, NoJob
<1>7. OneRunnerPerImport
    BY <1>4 DEF OneRunnerPerImport, Running, InTry
<1>8. ProcessingIsHeld
    BY <1>4 DEF ImportInit, ProcessingIsHeld, Writing
<1>9. QED BY <1>1, <1>5, <1>6, <1>7, <1>8 DEF RunInv

\* Every step keeps the invariant.
LEMMA StepRunInv ==
    ASSUME RunInv, [ImportNext]_importVars
    PROVE  RunInv'
<1>1. CASE ImportNext
    <2>1. ASSUME NEW s \in Servers, RunStep(s) PROVE RunInv'
        BY <2>1, StartInv, WriteInv, EndInv DEF RunStep
    <2>2. QED BY <1>1, <2>1, RequestInv, SweepInv, FaultInv, AskInv, WorldInv DEF ImportNext, ServerStep
<1>2. CASE UNCHANGED importVars
    BY <1>2 DEF importVars, RunInv, TablesShaped, ServersShaped, JobFollowsConfirmation,
                OneRunnerPerImport, Running, ProcessingIsHeld
<1>3. QED BY <1>1, <1>2

\* The invariant that what follows is read off.
THEOREM RunInvariant == ImportSpec => []RunInv
<1>1. ImportInit => RunInv
    BY InitRunInv
<1>2. RunInv /\ [ImportNext]_importVars => RunInv'
    BY StepRunInv
<1>3. QED BY <1>1, <1>2, PTL DEF ImportSpec

\* An import never has two runners, and its job stays claimed while one works,
\* whatever requests, retries, deaths and sweeps overlap (processImport).
THEOREM ImportHasOneRunner == ImportSpec => []OneRunnerPerImport
<1>1. RunInv => OneRunnerPerImport
    BY DEF RunInv
<1>2. QED BY <1>1, RunInvariant, PTL

-----------------------------------------------------------------------------
Forward ==
    \A i \in Imports :
      LET from == imports[i].status  to == imports'[i].status IN
      /\ from \in Terminal => imports'[i] = imports[i]
      /\ from # to => <<from, to>> \in {<<"uploaded", "mapping">>, <<"uploaded", "failed">>,
            <<"uploaded", "processing">>, <<"mapping", "processing">>, <<"mapping", "failed">>,
            <<"processing", "completed">>, <<"processing", "failed">>}

\* A transition moves the import forward when what it moves from is waiting or
\* in processing and what it moves to comes later.
LEMMA TransitionForward ==
    ASSUME TablesShaped, NEW i \in Imports, NEW from, NEW to, NEW rows, Transition(i, from, to, rows),
           \/ from = Waiting /\ to \in {"mapping", "failed", "processing"}
           \/ from = Waiting \cup {"processing"} /\ to = "failed"
           \/ from = {"processing"} /\ to \in Terminal,
           to = "mapping" => imports[i].status # "processing"
    PROVE  Forward
<1>1. CASE ~Moves(i, from, to, rows)
    BY <1>1 DEF Transition, Forward
<1>2. CASE Moves(i, from, to, rows)
    <2>1. imports[i].status \in from
        BY <1>2 DEF Moves
    <2>2. /\ imports'[i].status = to
          /\ \A k \in Imports \ {i} : imports'[k] = imports[k]
        BY <1>2 DEF Transition, TablesShaped
    <2>3. imports[i].status \in from /\ imports[i].status \notin Terminal
        BY <2>1 DEF Waiting, Terminal
    <2>4. imports[i].status # to => <<imports[i].status, to>> \in
            {<<"uploaded", "mapping">>, <<"uploaded", "failed">>, <<"uploaded", "processing">>,
             <<"mapping", "processing">>, <<"mapping", "failed">>,
             <<"processing", "completed">>, <<"processing", "failed">>}
        BY <2>1 DEF Waiting, Terminal
    <2>5. QED BY <2>2, <2>3, <2>4 DEF Forward
<1>3. QED BY <1>1, <1>2

\* New counters for an import in processing are no move.
LEMMA CountersForward ==
    ASSUME RunInv, NEW s \in Servers, NEW rows, srv[s].pc \in Writing,
           imports' = [imports EXCEPT ![srv[s].imp].rows = rows]
    PROVE  Forward
<1>1. srv[s].imp \in Imports /\ imports[srv[s].imp].status = "processing"
    BY DEF RunInv, ServersShaped, ProcessingIsHeld
<1>2. /\ imports'[srv[s].imp].status = imports[srv[s].imp].status
      /\ \A k \in Imports \ {srv[s].imp} : imports'[k] = imports[k]
    BY <1>1 DEF RunInv, TablesShaped
<1>3. QED BY <1>1, <1>2 DEF Forward, Terminal

LEMMA StepForward ==
    ASSUME RunInv, [ImportNext]_importVars
    PROVE  Forward
<1>0. \A s \in Servers : srv[s].imp \in Imports /\ TablesShaped
    BY DEF RunInv, ServersShaped
<1>1. ASSUME UNCHANGED imports PROVE Forward
    BY <1>1 DEF Forward
<1>2. ASSUME NEW s \in Servers, RequestStep(s) PROVE Forward
    <2>1. CASE MarkFailed(s)
        BY <1>0, <2>1, TransitionForward DEF MarkFailed
    <2>2. CASE Inspect(s)
        BY <1>0, <2>2, TransitionForward DEF Inspect, Waiting, Transition, Moves, Forward, Terminal
    <2>3. CASE Abandon(s)
        BY <1>0, <2>3, TransitionForward DEF Abandon
    <2>4. CASE Confirm(s)
        BY <1>0, <2>4, TransitionForward DEF Confirm
    <2>5. CASE CannotRead(s) \/ Enqueue(s)
        BY <1>1, <2>5 DEF CannotRead, Enqueue
    <2>6. QED BY <1>2, <2>1, <2>2, <2>3, <2>4, <2>5 DEF RequestStep
<1>3. ASSUME NEW s \in Servers, RunStep(s) PROVE Forward
    <2>1. CASE Reset(s) \/ UpdateCounters(s)
        BY <2>1, CountersForward DEF Reset, UpdateCounters, At, Writing
    <2>2. CASE Complete(s)
        BY <1>0, <2>2, TransitionForward DEF Complete, Terminal
    <2>3. CASE RecordFailure(s)
        BY <1>0, <2>3, TransitionForward DEF RecordFailure, Terminal
    <2>4. CASE Claim(s) \/ CountAttempt(s) \/ Load(s) \/ ClearRejections(s) \/ OpenFile(s) \/ OfferRow(s)
        BY <1>1, <2>4 DEF Claim, CountAttempt, Load, ClearRejections, OpenFile, OfferRow
    <2>5. CASE Flush(s) \/ FindSuppressed(s) \/ UpsertChunk(s) \/ PersistRejections(s)
        BY <1>1, <2>5 DEF Flush, FindSuppressed, UpsertChunk, PersistRejections
    <2>6. CASE CompleteJob(s) \/ RemoveFile(s) \/ FailJob(s)
        BY <1>1, <2>6 DEF CompleteJob, RemoveFile, FailJob
    <2>7. QED BY <1>3, <2>1, <2>2, <2>3, <2>4, <2>5, <2>6 DEF RunStep
<1>4. ASSUME NEW s \in Servers, SweepStep(s) PROVE Forward
    <2>1. CASE SweepCloses(s)
        BY <1>0, <2>1, TransitionForward DEF SweepCloses
    <2>2. CASE SweepReads(s) \/ \E i \in Imports : SweepRemoves(s, i)
        BY <1>1, <2>2 DEF SweepReads, SweepRemoves
    <2>3. QED BY <1>4, <2>1, <2>2 DEF SweepStep
<1>5. ASSUME NEW s \in Servers, NEW i \in Imports,
             Raises(s) \/ Dies(s) \/ Retries(s, i)
             \/ \E request \in {"inspect", "confirm", "abandon"} : Asks(s, i, request)
      PROVE  UNCHANGED imports
    BY <1>5 DEF Raises, Dies, Retries, Asks
<1>6. ASSUME \/ \E i \in Imports : Upload(i) \/ GrowsOld(i)
             \/ \E a \in Addresses : SuppressionAdded(a) \/ SuppressionLifted(a) \/ ContactDeleted(a)
      PROVE  UNCHANGED imports
    BY <1>6 DEF Upload, GrowsOld, SuppressionAdded, SuppressionLifted, ContactDeleted
<1>7. CASE ImportNext
    BY <1>1, <1>2, <1>3, <1>4, <1>5, <1>6, <1>7, ImportsAssumption DEF ImportNext, ServerStep
<1>8. CASE UNCHANGED importVars
    BY <1>1, <1>8 DEF importVars
<1>9. QED BY <1>7, <1>8

\* An import moves along its statuses only, and what has ended is never touched
\* again, by no retry of its job, no late failure and no sweep (0006, runner.ts).
THEOREM ImportsMoveForward == ImportSpec => ImportsOnlyMoveForward
<1>1. RunInv /\ [ImportNext]_importVars => [Forward]_importVars
    BY StepForward
<1>2. QED BY <1>1, RunInvariant, PTL DEF ImportSpec, ImportsOnlyMoveForward, Forward

-----------------------------------------------------------------------------
ContactsShaped == contacts = [a \in Addresses |-> contacts[a]]

NotUnsuppressed ==
    \A a \in Addresses :
      contacts[a] = "suppressed" /\ contacts'[a] = "active" => banned' = banned \ {a}

\* Every write of a contact keeps a suppressed one so, but for the lifting.
LEMMA StepContacts ==
    ASSUME ContactsShaped, [ImportNext]_importVars
    PROVE  ContactsShaped' /\ NotUnsuppressed
<1>1. ASSUME UNCHANGED contacts PROVE ContactsShaped' /\ NotUnsuppressed
    BY <1>1 DEF ContactsShaped, NotUnsuppressed
<1>2. ASSUME NEW run, WriteContacts(run) PROVE ContactsShaped' /\ NotUnsuppressed
    BY <1>2 DEF WriteContacts, StatusFor, ContactsShaped, NotUnsuppressed
<1>3. ASSUME NEW s \in Servers, ServerStep(s) PROVE ContactsShaped' /\ NotUnsuppressed
    <2>1. CASE RequestStep(s)
        BY <1>1, <2>1 DEF RequestStep, MarkFailed, CannotRead, Inspect, Abandon, Confirm, Enqueue
    <2>2. CASE UpsertChunk(s)
        BY <1>2, <2>2 DEF UpsertChunk
    <2>3. CASE Claim(s) \/ CountAttempt(s) \/ Load(s) \/ Reset(s) \/ ClearRejections(s) \/ OpenFile(s)
        BY <1>1, <2>3 DEF Claim, CountAttempt, Load, Reset, ClearRejections, OpenFile
    <2>4. CASE OfferRow(s) \/ Flush(s) \/ FindSuppressed(s) \/ PersistRejections(s) \/ UpdateCounters(s)
        BY <1>1, <2>4 DEF OfferRow, Flush, FindSuppressed, PersistRejections, UpdateCounters
    <2>5. CASE Complete(s) \/ CompleteJob(s) \/ RemoveFile(s) \/ RecordFailure(s) \/ FailJob(s)
        BY <1>1, <2>5 DEF Complete, CompleteJob, RemoveFile, RecordFailure, FailJob
    <2>6. CASE SweepStep(s)
        BY <1>1, <2>6 DEF SweepStep, SweepReads, SweepRemoves, SweepCloses
    <2>7. QED BY <1>3, <2>1, <2>2, <2>3, <2>4, <2>5, <2>6 DEF ServerStep, RunStep
<1>4. ASSUME NEW s \in Servers, Raises(s) \/ Dies(s) PROVE ContactsShaped' /\ NotUnsuppressed
    BY <1>1, <1>2, <1>4 DEF Raises, Dies
<1>5. ASSUME NEW s \in Servers, NEW i \in Imports,
             Upload(i) \/ GrowsOld(i) \/ Retries(s, i)
             \/ \E request \in {"inspect", "confirm", "abandon"} : Asks(s, i, request)
      PROVE  UNCHANGED contacts
    BY <1>5 DEF Upload, GrowsOld, Retries, Asks
<1>6. ASSUME NEW a \in Addresses, SuppressionAdded(a) PROVE ContactsShaped' /\ NotUnsuppressed
    BY <1>6 DEF SuppressionAdded, ContactsShaped, NotUnsuppressed
<1>7. ASSUME NEW a \in Addresses, SuppressionLifted(a) PROVE ContactsShaped' /\ NotUnsuppressed
    BY <1>7 DEF SuppressionLifted, ContactsShaped, NotUnsuppressed
<1>8. ASSUME NEW a \in Addresses, ContactDeleted(a) PROVE ContactsShaped' /\ NotUnsuppressed
    BY <1>8 DEF ContactDeleted, ContactsShaped, NotUnsuppressed
<1>9. ASSUME NEW i \in Imports, Upload(i) \/ GrowsOld(i) PROVE UNCHANGED contacts
    BY <1>9 DEF Upload, GrowsOld
<1>10. CASE ImportNext
    BY <1>1, <1>3, <1>4, <1>5, <1>6, <1>7, <1>8, <1>9, <1>10 DEF ImportNext
<1>11. CASE UNCHANGED importVars
    BY <1>1, <1>11 DEF importVars
<1>12. QED BY <1>10, <1>11

\* Whatever a spreadsheet says and whenever a suppression comes or goes during
\* its run, no import makes a suppressed contact active (import_upsert_contacts).
THEOREM ImportsNeverUnsuppress == ImportSpec => ImportNeverUnsuppresses
<1>1. ImportInit => ContactsShaped
    BY DEF ImportInit, ContactsShaped
<1>2. ContactsShaped /\ [ImportNext]_importVars => ContactsShaped' /\ [NotUnsuppressed]_importVars
    BY StepContacts
<1>3. QED BY <1>1, <1>2, PTL DEF ImportSpec, ImportNeverUnsuppresses, NotUnsuppressed

-----------------------------------------------------------------------------
(* The counters.  What a run has counted adds up to the rows it has passed *)
(* and what it counted as valid are addresses it wrote.                    *)
Tallies == [Buckets \cup {"total"} -> Nat]

CountsTruly(run, written) ==
    /\ run.tally \in Tallies /\ run.tally["total"] = Bucketed(run.tally)
    /\ run.chunk \in Seq(Addresses) /\ InChunk(run) \subseteq run.seen /\ run.seen \subseteq Addresses
    /\ \A j, k \in 1..Len(run.chunk) : run.chunk[j] = run.chunk[k] => j = k
    /\ run.pos = run.tally["total"] + Len(run.chunk) + 1 /\ run.pos <= Len(File[run.imp]) + 1
    /\ run.held \in Nat /\ run.kept \in Nat
    /\ run.kept + run.held = Lesser(MaxStored, run.tally["total"] - run.tally["valid"])
    /\ \E V \in SUBSET (run.seen \ InChunk(run)) :
         V \subseteq written /\ IsFiniteSet(V) /\ Cardinality(V) = run.tally["valid"]

\* Where a run is in its file: before the first row, among the rows with all the
\* reasons it kept in the table, or behind the last row with all of them stored.
Reading == {"rows", "eligible", "upsert", "persist", "lastPersist", "counters", "complete"}
Behind  == {"close", "remove", "fail", "failJob"}

KnowsItsPlace(run, reasons) ==
    /\ run.pc \notin Reading \cup Behind => run.pos = 1 /\ run.kept = 0
    /\ run.pc \in Reading \cup {"open"} => reasons = run.kept
    /\ run.pc \in {"lastPersist", "complete"} => run.chunk = <<>> /\ run.pos = Len(File[run.imp]) + 1
    /\ run.pc = "complete" => run.held = 0

\* What the record of an import says.
RecordIsTrue(i, record, reasons, written) ==
    /\ record.rows \in Tallies /\ record.rows["total"] = Bucketed(record.rows)
    /\ record.rows["total"] <= Len(File[i]) /\ record.rows["valid"] <= Cardinality(written)
    /\ record.status = "completed" =>
         /\ record.rows["total"] = Len(File[i])
         /\ reasons = Lesser(MaxStored, record.rows["total"] - record.rows["valid"])

CountInv ==
    /\ DOMAIN stored = Imports /\ DOMAIN wrote = Imports
    /\ \A i \in Imports : IsFiniteSet(wrote[i]) /\ RecordIsTrue(i, imports[i], stored[i], wrote[i])
    /\ \A s \in Servers : /\ CountsTruly(srv[s], wrote[srv[s].imp])
                           /\ KnowsItsPlace(srv[s], stored[srv[s].imp])

\* What two records of a server have to share for one to count as the other.
SamePass(run, next) ==
    /\ next.tally = run.tally /\ next.chunk = run.chunk /\ next.seen = run.seen /\ next.pos = run.pos
    /\ next.imp = run.imp /\ next.held = run.held /\ next.kept = run.kept

Unread(run) ==
    /\ run.tally = NoRows /\ run.chunk = <<>> /\ run.seen = {} /\ run.pos = 1 /\ run.held = 0 /\ run.kept = 0

LEMMA FileLengths ==
    \A i \in Imports : Len(File[i]) \in Nat /\ File[i] \in Seq(Addresses \cup SettledRows)
BY ImportsAssumption

LEMMA NoRowsCount ==
    NoRows \in Tallies /\ NoRows["total"] = 0 /\ NoRows["valid"] = 0 /\ Bucketed(NoRows) = 0
BY DEF NoRows, Tallies, Bucketed, Buckets

LEMMA TallyNumbers ==
    ASSUME NEW tally \in Tallies, tally["total"] = Bucketed(tally)
    PROVE  tally["total"] \in Nat /\ tally["valid"] \in Nat /\ tally["total"] >= tally["valid"]
<1>1. /\ tally["total"] \in Nat /\ tally["valid"] \in Nat /\ tally["invalid"] \in Nat /\ tally["duplicate"] \in Nat
      /\ tally["suppressed"] \in Nat /\ tally["rejected"] \in Nat
    BY DEF Tallies, Buckets
<1> QED
    BY <1>1 DEF Bucketed

LEMMA EmptyChunk ==
    <<>> \in Seq(Addresses) /\ Len(<<>>) = 0 /\ 1..0 = {}
OBVIOUS

LEMMA UnreadCounts ==
    ASSUME NEW run, NEW written, Unread(run), run.imp \in Imports
    PROVE  CountsTruly(run, written)
<1>1. InChunk(run) = {}
    BY EmptyChunk DEF InChunk, Unread
<1>2. Lesser(MaxStored, 0) = 0
    BY ImportsAssumption DEF Lesser
<1>3. {} \subseteq written /\ IsFiniteSet({}) /\ Cardinality({}) = 0 /\ {} \in SUBSET (run.seen \ InChunk(run))
    BY FS_EmptySet
<1>4. run.tally["valid"] = 0 /\ run.tally["total"] = 0
    BY NoRowsCount DEF Unread
<1>5. run.pos = run.tally["total"] + Len(run.chunk) + 1 /\ run.pos <= Len(File[run.imp]) + 1
    BY <1>4, EmptyChunk, FileLengths DEF Unread
<1>6. run.kept + run.held = Lesser(MaxStored, run.tally["total"] - run.tally["valid"])
    BY <1>2, <1>4 DEF Unread
<1>7. run.chunk \in Seq(Addresses) /\ \A j, k \in 1..Len(run.chunk) : run.chunk[j] = run.chunk[k] => j = k
    BY EmptyChunk DEF Unread
<1>8. run.tally \in Tallies /\ run.tally["total"] = Bucketed(run.tally)
    BY NoRowsCount DEF Unread
<1> QED
    BY <1>1, <1>3, <1>4, <1>5, <1>6, <1>7, <1>8 DEF CountsTruly, Unread

LEMMA SamePassCounts ==
    ASSUME NEW run, NEW next, NEW written, NEW more, written \subseteq more,
           CountsTruly(run, written), SamePass(run, next)
    PROVE  CountsTruly(next, more)
<1>1. InChunk(next) = InChunk(run)
    BY DEF SamePass, InChunk
<1> QED
    BY <1>1 DEF CountsTruly, SamePass

\* One more row with a reason, or one more contact.
LEMMA AddCounts ==
    ASSUME NEW tally \in Tallies, tally["total"] = Bucketed(tally), NEW b \in Buckets
    PROVE  /\ Add(tally, b) \in Tallies /\ Add(tally, b)["total"] = tally["total"] + 1
           /\ Add(tally, b)["total"] = Bucketed(Add(tally, b))
           /\ b # "valid" => Add(tally, b)["valid"] = tally["valid"]
<1>1. \A k \in Buckets \cup {"total"} : Add(tally, b)[k] = IF k \in {b, "total"} THEN tally[k] + 1 ELSE tally[k]
    BY DEF Add, Tallies, Buckets
<1>2. DOMAIN Add(tally, b) = Buckets \cup {"total"}
    BY DEF Add, Tallies
<1>3. Add(tally, b) \in Tallies
    BY DEF Add, Tallies, Buckets
<1>4. /\ tally["total"] \in Nat /\ tally["valid"] \in Nat /\ tally["invalid"] \in Nat /\ tally["duplicate"] \in Nat
      /\ tally["suppressed"] \in Nat /\ tally["rejected"] \in Nat
    BY DEF Tallies, Buckets
<1>5. Add(tally, b)["total"] = tally["total"] + 1
    BY <1>1
<1>6. b # "valid" => Add(tally, b)["valid"] = tally["valid"]
    BY <1>1 DEF Buckets
<1>7. Bucketed(Add(tally, b)) = Bucketed(tally) + 1
    <2> DEFINE n(k) == IF k = b THEN tally[k] + 1 ELSE tally[k]
    <2>1. /\ Add(tally, b)["valid"] = n("valid") /\ Add(tally, b)["invalid"] = n("invalid")
          /\ Add(tally, b)["duplicate"] = n("duplicate") /\ Add(tally, b)["suppressed"] = n("suppressed")
          /\ Add(tally, b)["rejected"] = n("rejected")
        BY <1>1 DEF Buckets
    <2>2. n("valid") + n("invalid") + n("duplicate") + n("suppressed") + n("rejected") = Bucketed(tally) + 1
        <3>1. CASE b = "valid"
            BY ONLY <3>1, <1>4 DEF Bucketed
        <3>2. CASE b = "invalid"
            BY ONLY <3>2, <1>4 DEF Bucketed
        <3>3. CASE b = "duplicate"
            BY ONLY <3>3, <1>4 DEF Bucketed
        <3>4. CASE b = "suppressed"
            BY ONLY <3>4, <1>4 DEF Bucketed
        <3>5. CASE b = "rejected"
            BY ONLY <3>5, <1>4 DEF Bucketed
        <3> QED
            BY <3>1, <3>2, <3>3, <3>4, <3>5 DEF Buckets
    <2> HIDE DEF n
    <2> QED
        BY <2>1, <2>2 DEF Bucketed
<1> QED
    BY <1>3, <1>5, <1>6, <1>7

LEMMA TurnedCounts ==
    ASSUME NEW run, DOMAIN run = Fields, NEW written, CountsTruly(run, written), NEW b \in {"invalid", "rejected", "duplicate"}
    PROVE  LET next == Turned(run, b) IN
           /\ DOMAIN next = Fields
           /\ next.tally = Add(run.tally, b) /\ next.chunk = run.chunk /\ next.seen = run.seen /\ next.pos = run.pos
           /\ next.imp = run.imp /\ next.kept = run.kept /\ next.held \in Nat
           /\ next.kept + next.held = Lesser(MaxStored, next.tally["total"] - next.tally["valid"])
<1> DEFINE pushed == Push(run)
           next == Turned(run, b)
<1>1. /\ DOMAIN pushed = Fields
      /\ pushed.tally = run.tally /\ pushed.chunk = run.chunk /\ pushed.seen = run.seen /\ pushed.pos = run.pos
      /\ pushed.imp = run.imp /\ pushed.kept = run.kept
      /\ pushed.held = IF run.kept + run.held >= MaxStored THEN run.held ELSE run.held + 1
    BY DEF Push, Fields
<1>2. next = [pushed EXCEPT !.tally = Add(@, b)]
    BY DEF Turned
<1> HIDE DEF pushed, next
<1>3. /\ DOMAIN next = Fields
      /\ next.tally = Add(run.tally, b) /\ next.chunk = run.chunk /\ next.seen = run.seen /\ next.pos = run.pos
      /\ next.imp = run.imp /\ next.kept = run.kept /\ next.held = pushed.held
    BY <1>1, <1>2 DEF Fields
<1>4. /\ next.tally["total"] = run.tally["total"] + 1 /\ next.tally["valid"] = run.tally["valid"]
    BY <1>3, AddCounts DEF CountsTruly, Buckets
<1>5. /\ run.tally["total"] \in Nat /\ run.tally["valid"] \in Nat /\ run.tally["total"] >= run.tally["valid"]
      /\ run.held \in Nat /\ run.kept \in Nat /\ MaxStored \in Nat
      /\ run.kept + run.held = Lesser(MaxStored, run.tally["total"] - run.tally["valid"])
    <2>1. run.tally \in Tallies /\ run.tally["total"] = Bucketed(run.tally)
        BY DEF CountsTruly
    <2>2. run.held \in Nat /\ run.kept \in Nat
          /\ run.kept + run.held = Lesser(MaxStored, run.tally["total"] - run.tally["valid"])
        BY DEF CountsTruly
    <2> QED
        BY <2>1, <2>2, TallyNumbers, ImportsAssumption
<1>6. next.held \in Nat /\ next.kept + next.held = Lesser(MaxStored, next.tally["total"] - next.tally["valid"])
    BY <1>1, <1>3, <1>4, <1>5 DEF Lesser
<1> QED
    BY <1>3, <1>6 DEF next

LEMMA OneMoreRow ==
    ASSUME NEW p, NEW t \in Nat, NEW c \in Nat, p = t + c + 1
    PROVE  p + 1 = (t + 1) + c + 1
OBVIOUS

\* A row is settled by itself, or joins the chunk: the run has passed one more.
LEMMA OfferedCounts ==
    ASSUME NEW run, DOMAIN run = Fields, run.imp \in Imports, NEW written, CountsTruly(run, written),
           run.pos <= Len(File[run.imp]),
           NEW next, next = Offered(run, File[run.imp][run.pos]),
           NEW then, SamePass([next EXCEPT !.pos = @ + 1], then)
    PROVE  CountsTruly(then, written)
<1> DEFINE row == File[run.imp][run.pos]
<1>0. run.pos \in Nat /\ run.pos >= 1 /\ run.tally["total"] \in Nat /\ Len(run.chunk) \in Nat
    BY DEF CountsTruly, Tallies
<1>1. row \in Addresses \cup SettledRows
    <2>1. run.pos \in 1..Len(File[run.imp])
        BY <1>0, FileLengths
    <2> QED
        BY <2>1, FileLengths, ElementOfSeq
<1> DEFINE stepped == [next EXCEPT !.pos = @ + 1]
<1>2. ASSUME NEW b \in {"invalid", "rejected", "duplicate"}, next = Turned(run, b)
      PROVE  CountsTruly(then, written)
    <2>1. /\ DOMAIN next = Fields
          /\ next.tally = Add(run.tally, b) /\ next.chunk = run.chunk /\ next.seen = run.seen /\ next.pos = run.pos
          /\ next.imp = run.imp /\ next.kept = run.kept /\ next.held \in Nat
          /\ next.kept + next.held = Lesser(MaxStored, next.tally["total"] - next.tally["valid"])
        BY <1>2, TurnedCounts
    <2>2. /\ then.tally = next.tally /\ then.chunk = run.chunk /\ then.seen = run.seen /\ then.pos = run.pos + 1
          /\ then.imp = run.imp /\ then.kept = run.kept /\ then.held = next.held
        BY <2>1 DEF SamePass, Fields
    <2>3. /\ then.tally \in Tallies /\ then.tally["total"] = run.tally["total"] + 1
          /\ then.tally["total"] = Bucketed(then.tally) /\ then.tally["valid"] = run.tally["valid"]
        <3>1. b \in Buckets /\ b # "valid"
            BY DEF Buckets
        <3>2. run.tally \in Tallies /\ run.tally["total"] = Bucketed(run.tally)
            BY DEF CountsTruly
        <3>3. then.tally = Add(run.tally, b)
            BY <2>1, <2>2
        <3> QED
            BY ONLY <3>1, <3>2, <3>3, AddCounts
    <2>4. InChunk(then) = InChunk(run)
        BY <2>2 DEF InChunk
    <2>5. then.pos = then.tally["total"] + Len(then.chunk) + 1 /\ then.pos <= Len(File[then.imp]) + 1
        <3>1. run.pos = run.tally["total"] + Len(run.chunk) + 1
            BY DEF CountsTruly
        <3>2. Len(File[run.imp]) \in Nat
            BY FileLengths
        <3>3. Len(then.chunk) = Len(run.chunk) /\ then.imp = run.imp /\ then.pos = run.pos + 1
            BY <2>2
        <3>4. then.tally["total"] = run.tally["total"] + 1
            BY <2>3
        <3>5. run.pos + 1 = (run.tally["total"] + 1) + Len(run.chunk) + 1
            BY ONLY <1>0, <3>1, OneMoreRow
        <3>6. run.pos + 1 <= Len(File[run.imp]) + 1
            BY ONLY <1>0, <3>2, run.pos <= Len(File[run.imp])
        <3> QED
            BY ONLY <3>3, <3>4, <3>5, <3>6
    <2> HIDE DEF stepped
    <2> QED
        BY <2>1, <2>2, <2>3, <2>4, <2>5 DEF CountsTruly
<1>3. CASE row \in SettledRows
    <2>1. next = Turned(run, row) \/ next = Turned(run, "duplicate")
        BY ONLY <1>3, next = Offered(run, row) DEF Offered
    <2>2. row \in {"invalid", "rejected", "duplicate"} /\ "duplicate" \in {"invalid", "rejected", "duplicate"}
        BY <1>3 DEF SettledRows
    <2> HIDE DEF row
    <2> QED
        BY ONLY <1>2, <2>1, <2>2
<1>4. CASE row \notin SettledRows /\ row \in run.seen
    BY <1>2, <1>4 DEF Offered
<1>5. CASE row \notin SettledRows /\ row \notin run.seen
    <2> HIDE DEF row
    <2>1. next = [run EXCEPT !.seen = @ \cup {row}, !.chunk = Append(@, row)]
        BY <1>5 DEF Offered, row
    <2>2. /\ then.tally = run.tally /\ then.chunk = Append(run.chunk, row) /\ then.seen = run.seen \cup {row}
          /\ then.pos = run.pos + 1 /\ then.imp = run.imp /\ then.kept = run.kept /\ then.held = run.held
        BY <2>1 DEF SamePass, Fields
    <2>3. row \in Addresses
        BY <1>1, <1>5 DEF row
    <2>4. /\ then.chunk \in Seq(Addresses) /\ Len(then.chunk) = Len(run.chunk) + 1
          /\ \A k \in 1..Len(run.chunk) : then.chunk[k] = run.chunk[k]
          /\ then.chunk[Len(run.chunk) + 1] = row
        BY <2>2, <2>3 DEF CountsTruly
    <2>5. InChunk(then) = InChunk(run) \cup {row}
        <3>1. 1..Len(then.chunk) = 1..Len(run.chunk) \cup {Len(run.chunk) + 1}
            BY <1>0, <2>4
        <3> QED
            BY <2>4, <3>1 DEF InChunk
    <2>6. \A j, k \in 1..Len(then.chunk) : then.chunk[j] = then.chunk[k] => j = k
        <3> SUFFICES ASSUME NEW j \in 1..Len(then.chunk), NEW k \in 1..Len(then.chunk), then.chunk[j] = then.chunk[k]
                     PROVE  j = k
            OBVIOUS
        <3>1. \A m \in 1..Len(run.chunk) : run.chunk[m] # row
            BY <1>5 DEF CountsTruly, InChunk
        <3>2. j = Len(run.chunk) + 1 \/ j \in 1..Len(run.chunk)
            BY <1>0, <2>4
        <3>3. k = Len(run.chunk) + 1 \/ k \in 1..Len(run.chunk)
            BY <1>0, <2>4
        <3> QED
            BY <2>4, <3>1, <3>2, <3>3 DEF CountsTruly
    <2>7. then.pos = then.tally["total"] + Len(then.chunk) + 1 /\ then.pos <= Len(File[then.imp]) + 1
        <3>1. run.pos = run.tally["total"] + Len(run.chunk) + 1 /\ Len(File[run.imp]) \in Nat
            BY FileLengths DEF CountsTruly
        <3>2. then.pos = run.pos + 1 /\ then.tally["total"] = run.tally["total"] /\ then.imp = run.imp
            BY <2>2
        <3>3. Len(then.chunk) = Len(run.chunk) + 1
            BY <2>4
        <3> QED
            BY ONLY <1>0, <3>1, <3>2, <3>3, run.pos <= Len(File[run.imp])
    <2>8. PICK V \in SUBSET (run.seen \ InChunk(run)) :
             V \subseteq written /\ IsFiniteSet(V) /\ Cardinality(V) = run.tally["valid"]
        BY DEF CountsTruly
    <2>9. V \in SUBSET (then.seen \ InChunk(then))
        BY <1>5, <2>2, <2>5, <2>8
    <2>10. InChunk(then) \subseteq then.seen /\ then.seen \subseteq Addresses
        BY <2>2, <2>3, <2>5 DEF CountsTruly
    <2>11. /\ then.tally \in Tallies /\ then.tally["total"] = Bucketed(then.tally)
           /\ then.held \in Nat /\ then.kept \in Nat
           /\ then.kept + then.held = Lesser(MaxStored, then.tally["total"] - then.tally["valid"])
        BY <2>2 DEF CountsTruly
    <2> HIDE DEF stepped
    <2> QED
        BY <2>2, <2>4, <2>6, <2>7, <2>8, <2>9, <2>10, <2>11 DEF CountsTruly
<1> QED
    BY <1>3, <1>4, <1>5

LEMMA LesserAdds ==
    ASSUME NEW m \in Nat, NEW d \in Nat, NEW t \in Nat, NEW k \in Nat, NEW h \in Nat, k + h = Lesser(m, d)
    PROVE  Lesser(h + t, m - k) \in Nat /\ k + Lesser(h + t, m - k) = Lesser(m, d + t)
BY DEF Lesser

LEMMA BucketsAdd ==
    ASSUME NEW v \in Nat, NEW i \in Nat, NEW d \in Nat, NEW s \in Nat, NEW r \in Nat,
           NEW cs \in Nat, NEW cv \in Nat, NEW cd \in Nat
    PROVE  (v + i + d + s + r) + (cs + cv + cd) = (v + cv) + i + (d + cd) + (s + cs) + r
OBVIOUS

LEMMA DisjointAdd ==
    ASSUME NEW S, NEW T, IsFiniteSet(S), IsFiniteSet(T), S \cap T = {}
    PROVE  IsFiniteSet(S \cup T) /\ Cardinality(S \cup T) = Cardinality(S) + Cardinality(T)
<1>1. Cardinality(S \cap T) = 0
    BY FS_EmptySet
<1>2. Cardinality(S) \in Nat /\ Cardinality(T) \in Nat
    BY FS_CardinalityType
<1>3. IsFiniteSet(S \cup T) /\ Cardinality(S \cup T) = Cardinality(S) + Cardinality(T) - Cardinality(S \cap T)
    BY FS_Union
<1> QED
    BY <1>1, <1>2, <1>3

\* The candidates of a chunk fall into three buckets, and nowhere else.
LEMMA ChunkSplits ==
    ASSUME NEW run, Len(run.chunk) \in Nat
    PROVE  /\ \A b : IsFiniteSet(RowsInto(run, b)) /\ Cardinality(RowsInto(run, b)) \in Nat
           /\ Cardinality(RowsInto(run, "suppressed")) + Cardinality(RowsInto(run, "valid"))
                + Cardinality(RowsInto(run, "duplicate")) = Len(run.chunk)
           /\ Cardinality(RowsInto(run, "invalid")) = 0 /\ Cardinality(RowsInto(run, "rejected")) = 0
<1> DEFINE all == 1..Len(run.chunk)
           S == RowsInto(run, "suppressed")
           V == RowsInto(run, "valid")
           D == RowsInto(run, "duplicate")
<1>1. IsFiniteSet(all) /\ Cardinality(all) = Len(run.chunk)
    BY FS_Interval, SMTT(30)
<1>2. \A b : RowsInto(run, b) \in SUBSET all
    BY DEF RowsInto
<1>3. \A b : IsFiniteSet(RowsInto(run, b)) /\ Cardinality(RowsInto(run, b)) \in Nat
    <2> HIDE DEF all
    <2> QED
        BY <1>1, <1>2, FS_Subset, FS_CardinalityType
<1>4. \A k \in all : BucketOf(run.chunk[k], run.supp) \in {"suppressed", "valid", "duplicate"}
    BY DEF BucketOf
<1>5. all = (S \cup V) \cup D /\ S \cap V = {} /\ (S \cup V) \cap D = {}
    BY <1>4 DEF RowsInto
<1>6. RowsInto(run, "invalid") = {} /\ RowsInto(run, "rejected") = {}
    BY <1>4 DEF RowsInto
<1>7. Cardinality(S) \in Nat /\ Cardinality(V) \in Nat /\ Cardinality(D) \in Nat
    BY <1>3
<1> HIDE DEF all, S, V, D
<1>8. IsFiniteSet(S) /\ IsFiniteSet(V) /\ IsFiniteSet(D)
    BY <1>3 DEF S, V, D
<1>9. IsFiniteSet(S \cup V) /\ Cardinality(S \cup V) = Cardinality(S) + Cardinality(V)
    BY <1>5, <1>8, DisjointAdd
<1>10. Cardinality((S \cup V) \cup D) = Cardinality(S) + Cardinality(V) + Cardinality(D)
    BY <1>5, <1>8, <1>9, DisjointAdd
<1> QED
    BY <1>1, <1>3, <1>5, <1>6, <1>10, FS_EmptySet DEF S, V, D

\* The new contacts of a chunk are as many as the rows that made them.
LEMMA NewOnesAreCounted ==
    ASSUME NEW run, NEW written, CountsTruly(run, written)
    PROVE  LET N == {run.chunk[k] : k \in RowsInto(run, "valid")} IN
           /\ N \subseteq {a \in InChunk(run) : contacts[a] = "none"}
           /\ IsFiniteSet(N) /\ Cardinality(N) = Cardinality(RowsInto(run, "valid"))
<1> DEFINE R == RowsInto(run, "valid")
           N == {run.chunk[k] : k \in R}
           f == [k \in R |-> run.chunk[k]]
<1>1. R \subseteq 1..Len(run.chunk) /\ \A k \in R : contacts[run.chunk[k]] = "none"
    BY DEF RowsInto, BucketOf
<1>2. N \subseteq {a \in InChunk(run) : contacts[a] = "none"}
    <2> HIDE DEF R
    <2> QED
        BY <1>1 DEF InChunk
<1>3. IsFiniteSet(R)
    BY ChunkSplits DEF CountsTruly
<1>4. \A j, k \in R : run.chunk[j] = run.chunk[k] => j = k
    <2> HIDE DEF R
    <2> QED
        BY <1>1 DEF CountsTruly
<1>5. f \in Bijection(R, N)
    <2> HIDE DEF R
    <2>1. f \in [R -> N] /\ \A k \in R : f[k] = run.chunk[k]
        OBVIOUS
    <2>2. \A t \in N : \E k \in R : f[k] = t
        OBVIOUS
    <2> HIDE DEF f, N
    <2>3. \A j, k \in R : f[j] = f[k] => j = k
        BY <1>4, <2>1
    <2>4. f \in Injection(R, N)
        BY <2>1, <2>3 DEF Injection, IsInjective
    <2>5. f \in Surjection(R, N)
        BY <2>1, <2>2 DEF Surjection
    <2> QED
        BY <2>4, <2>5 DEF Bijection
<1> HIDE DEF R, N, f
<1>6. IsFiniteSet(N) /\ Cardinality(N) = Cardinality(R)
    BY <1>3, <1>5, FS_Bijection DEF ExistsBijection
<1> QED
    BY <1>2, <1>6 DEF N, R

\* A chunk is written: what it counted as valid is what it inserted.
LEMMA SettledCounts ==
    ASSUME NEW run, DOMAIN run = Fields, run.imp \in Imports, NEW written, CountsTruly(run, written),
           NEW then, SamePass(Settled(run), then)
    PROVE  CountsTruly(then, written \cup {a \in InChunk(run) : contacts[a] = "none"})
<1> DEFINE C(b) == Cardinality(RowsInto(run, b))
           turned == C("suppressed") + C("duplicate")
           counted == [b \in DOMAIN run.tally |-> run.tally[b] + IF b = "total" THEN Len(run.chunk) ELSE C(b)]
           reasons == Lesser(run.held + turned, MaxStored - run.kept)
           fresh == {a \in InChunk(run) : contacts[a] = "none"}
<1>1. /\ then.tally = counted /\ then.chunk = <<>> /\ then.seen = run.seen /\ then.pos = run.pos
      /\ then.imp = run.imp /\ then.held = reasons /\ then.kept = run.kept
    <2>1. Settled(run) = [run EXCEPT !.tally = counted, !.held = reasons, !.chunk = <<>>, !.supp = {}]
        BY DEF Settled
    <2> HIDE DEF counted, reasons
    <2> QED
        BY <2>1 DEF SamePass, Fields
<1>2. /\ run.tally \in Tallies /\ run.tally["total"] = Bucketed(run.tally) /\ Len(run.chunk) \in Nat
      /\ run.pos = run.tally["total"] + Len(run.chunk) + 1 /\ run.pos <= Len(File[run.imp]) + 1
      /\ run.held \in Nat /\ run.kept \in Nat /\ run.seen \subseteq Addresses
      /\ run.kept + run.held = Lesser(MaxStored, run.tally["total"] - run.tally["valid"])
    BY DEF CountsTruly
<1>3. /\ \A b : C(b) \in Nat
      /\ C("suppressed") + C("valid") + C("duplicate") = Len(run.chunk) /\ C("invalid") = 0 /\ C("rejected") = 0
    BY <1>2, ChunkSplits
<1> HIDE DEF C
<1>4. counted \in Tallies /\ \A b \in Buckets : counted[b] = run.tally[b] + C(b)
    <2>1. DOMAIN run.tally = Buckets \cup {"total"} /\ \A b \in Buckets \cup {"total"} : run.tally[b] \in Nat
        BY <1>2 DEF Tallies
    <2>2. ASSUME NEW b \in Buckets \cup {"total"}
          PROVE  /\ counted[b] = run.tally[b] + IF b = "total" THEN Len(run.chunk) ELSE C(b)
                 /\ counted[b] \in Nat
        <3>1. C(b) \in Nat /\ run.tally[b] \in Nat
            BY <1>3, <2>1
        <3>2. counted[b] = run.tally[b] + IF b = "total" THEN Len(run.chunk) ELSE C(b)
            BY <2>1
        <3> HIDE DEF counted
        <3> QED
            BY <1>2, <3>1, <3>2
    <2>3. DOMAIN counted = Buckets \cup {"total"} /\ counted = [b \in DOMAIN counted |-> counted[b]]
        BY <2>1
    <2> HIDE DEF counted
    <2> QED
        BY <2>2, <2>3 DEF Tallies, Buckets
<1>5. counted["total"] = run.tally["total"] + Len(run.chunk) /\ counted["total"] = Bucketed(counted)
    <2>1. counted["total"] = run.tally["total"] + Len(run.chunk)
        BY <1>2 DEF Tallies
    <2>2. /\ run.tally["total"] \in Nat /\ run.tally["valid"] \in Nat /\ run.tally["invalid"] \in Nat
          /\ run.tally["duplicate"] \in Nat /\ run.tally["suppressed"] \in Nat /\ run.tally["rejected"] \in Nat
        BY <1>2 DEF Tallies, Buckets
    <2>3. /\ counted["valid"] = run.tally["valid"] + C("valid") /\ counted["invalid"] = run.tally["invalid"]
          /\ counted["duplicate"] = run.tally["duplicate"] + C("duplicate")
          /\ counted["suppressed"] = run.tally["suppressed"] + C("suppressed")
          /\ counted["rejected"] = run.tally["rejected"]
        BY <1>3, <1>4, <2>2 DEF Buckets
    <2>4. C("suppressed") \in Nat /\ C("valid") \in Nat /\ C("duplicate") \in Nat
        BY <1>3
    <2>5. run.tally["total"] = run.tally["valid"] + run.tally["invalid"] + run.tally["duplicate"]
                               + run.tally["suppressed"] + run.tally["rejected"]
        BY <1>2 DEF Bucketed
    <2> HIDE DEF counted
    <2>6. counted["total"] = counted["valid"] + counted["invalid"] + counted["duplicate"]
                             + counted["suppressed"] + counted["rejected"]
        <3>1. (run.tally["valid"] + run.tally["invalid"] + run.tally["duplicate"]
                 + run.tally["suppressed"] + run.tally["rejected"]) + (C("suppressed") + C("valid") + C("duplicate"))
              = (run.tally["valid"] + C("valid")) + run.tally["invalid"] + (run.tally["duplicate"] + C("duplicate"))
                 + (run.tally["suppressed"] + C("suppressed")) + run.tally["rejected"]
            BY <2>2, <2>4, BucketsAdd
        <3>2. counted["total"] = run.tally["total"] + (C("suppressed") + C("valid") + C("duplicate"))
            BY <1>3, <2>1
        <3>3. (run.tally["valid"] + C("valid")) + run.tally["invalid"] + (run.tally["duplicate"] + C("duplicate"))
                 + (run.tally["suppressed"] + C("suppressed")) + run.tally["rejected"]
              = counted["valid"] + counted["invalid"] + counted["duplicate"]
                 + counted["suppressed"] + counted["rejected"]
            BY ONLY <2>3
        <3> QED
            BY ONLY <2>5, <3>1, <3>2, <3>3
    <2> QED
        BY <2>1, <2>6 DEF Bucketed
<1>6. counted["valid"] = run.tally["valid"] + C("valid")
    BY <1>4 DEF Buckets
<1>7. reasons \in Nat /\ run.kept + reasons = Lesser(MaxStored, counted["total"] - counted["valid"])
    <2>1. run.tally["total"] \in Nat /\ run.tally["valid"] \in Nat /\ run.tally["total"] >= run.tally["valid"]
        BY <1>2, TallyNumbers
    <2>2. C("suppressed") \in Nat /\ C("duplicate") \in Nat /\ C("valid") \in Nat /\ MaxStored \in Nat
        BY <1>3, ImportsAssumption
    <2>3. counted["total"] - counted["valid"] = (run.tally["total"] - run.tally["valid"]) + turned
        BY <1>2, <1>3, <1>5, <1>6, <2>1, <2>2
    <2> DEFINE d == run.tally["total"] - run.tally["valid"]
    <2>4. d \in Nat /\ turned \in Nat /\ counted["total"] - counted["valid"] = d + turned
        <3>1. d \in Nat
            BY ONLY <2>1
        <3>2. turned \in Nat
            BY ONLY <2>2
        <3> QED
            BY ONLY <2>3, <3>1, <3>2
    <2>5. run.kept + run.held = Lesser(MaxStored, d) /\ run.kept \in Nat /\ run.held \in Nat
        BY <1>2
    <2> HIDE DEF counted, d, turned
    <2>6. Lesser(run.held + turned, MaxStored - run.kept) \in Nat
          /\ run.kept + Lesser(run.held + turned, MaxStored - run.kept) = Lesser(MaxStored, d + turned)
        BY <2>2, <2>4, <2>5, LesserAdds
    <2> QED
        BY <2>4, <2>6
<1>8. PICK V \in SUBSET (run.seen \ InChunk(run)) :
         V \subseteq written /\ IsFiniteSet(V) /\ Cardinality(V) = run.tally["valid"]
    BY DEF CountsTruly
<1> DEFINE N == {run.chunk[k] : k \in RowsInto(run, "valid")}
<1>9. N \subseteq fresh /\ IsFiniteSet(N) /\ Cardinality(N) = C("valid")
    BY NewOnesAreCounted DEF C
<1>10. fresh \subseteq InChunk(run) /\ InChunk(run) \subseteq run.seen
    BY DEF CountsTruly
<1> HIDE DEF N, fresh, counted, reasons
<1>11. V \cap N = {}
    BY <1>8, <1>9, <1>10
<1>12. IsFiniteSet(V \cup N) /\ Cardinality(V \cup N) = counted["valid"]
    BY <1>6, <1>8, <1>9, <1>11, DisjointAdd
<1>13. InChunk(then) = {}
    BY <1>1, EmptyChunk DEF InChunk
<1>14. V \cup N \in SUBSET (then.seen \ InChunk(then)) /\ V \cup N \subseteq written \cup fresh
    BY <1>1, <1>8, <1>9, <1>10, <1>13
<1>15. then.pos = then.tally["total"] + Len(then.chunk) + 1 /\ then.pos <= Len(File[then.imp]) + 1
    <2>1. Len(then.chunk) = 0 /\ run.tally["total"] \in Nat
        BY <1>1, <1>2, EmptyChunk, TallyNumbers
    <2> QED
        BY <1>1, <1>2, <1>5, <2>1
<1>16. then.chunk \in Seq(Addresses) /\ \A j, k \in 1..Len(then.chunk) : then.chunk[j] = then.chunk[k] => j = k
    BY <1>1, EmptyChunk
<1>17. CountsTruly(then, written \cup fresh)
    BY <1>1, <1>2, <1>4, <1>5, <1>7, <1>12, <1>13, <1>14, <1>15, <1>16 DEF CountsTruly
<1> QED
    BY <1>17 DEF fresh

\* What a run holds back, it stores.
LEMMA StoredCounts ==
    ASSUME NEW run, DOMAIN run = Fields, NEW written, CountsTruly(run, written),
           NEW then, SamePass([run EXCEPT !.kept = @ + run.held, !.held = 0], then)
    PROVE  CountsTruly(then, written) /\ then.kept = run.kept + run.held /\ then.held = 0
<1>1. /\ then.tally = run.tally /\ then.chunk = run.chunk /\ then.seen = run.seen /\ then.pos = run.pos
      /\ then.imp = run.imp /\ then.held = 0 /\ then.kept = run.kept + run.held
    BY DEF SamePass, Fields
<1>2. InChunk(then) = InChunk(run)
    BY <1>1 DEF InChunk
<1>3. then.kept \in Nat /\ then.held \in Nat /\ then.kept + then.held = run.kept + run.held
    BY <1>1 DEF CountsTruly
<1> QED
    BY <1>1, <1>2, <1>3, ZenonT(60) DEF CountsTruly

-----------------------------------------------------------------------------
\* The statuses of a server in which it has read no row of its import yet.
LEMMA UnreadKnowsItsPlace ==
    ASSUME NEW run, NEW reasons, run.pc \notin Reading \cup Behind \cup {"open"}, Unread(run)
    PROVE  KnowsItsPlace(run, reasons)
BY DEF KnowsItsPlace, Unread, Reading, Behind

LEMMA NotReadingIsUnread ==
    ASSUME NEW run, NEW written, NEW reasons, CountsTruly(run, written), KnowsItsPlace(run, reasons),
           run.pc \notin Reading \cup Behind
    PROVE  run.pos = 1 /\ run.kept = 0 /\ run.held = 0 /\ run.tally["total"] = 0 /\ run.tally["valid"] = 0
           /\ Len(run.chunk) = 0
<1>1. run.pos = 1 /\ run.kept = 0
    BY DEF KnowsItsPlace
<1>2. /\ run.tally["total"] \in Nat /\ run.tally["valid"] \in Nat /\ run.tally["total"] >= run.tally["valid"]
      /\ Len(run.chunk) \in Nat /\ run.pos = run.tally["total"] + Len(run.chunk) + 1
      /\ run.held \in Nat /\ run.kept + run.held = Lesser(MaxStored, run.tally["total"] - run.tally["valid"])
    BY TallyNumbers DEF CountsTruly
<1>3. run.tally["total"] = 0 /\ run.tally["valid"] = 0 /\ Len(run.chunk) = 0
    BY <1>1, <1>2
<1>4. run.held = 0
    BY <1>1, <1>2, <1>3, ImportsAssumption DEF Lesser
<1> QED
    BY <1>1, <1>3, <1>4

LEMMA IdleIsUnread ==
    ASSUME NEW i PROVE Unread(IdleServer(i)) /\ IdleServer(i).pc = "idle" /\ IdleServer(i).imp = i
BY DEF Unread, IdleServer

\* A record that is not written, or moves along with the rows it has.
LEMMA RecordStays ==
    ASSUME CountInv, NEW i \in Imports, wrote[i] \subseteq wrote'[i], IsFiniteSet(wrote'[i]),
           imports'[i].rows = imports[i].rows,
           imports'[i].status = "completed" => imports[i].status = "completed" /\ stored'[i] = stored[i]
    PROVE  RecordIsTrue(i, imports'[i], stored'[i], wrote'[i])
<1>1. Cardinality(wrote[i]) <= Cardinality(wrote'[i]) /\ Cardinality(wrote[i]) \in Nat /\ Cardinality(wrote'[i]) \in Nat
    BY FS_Subset, FS_CardinalityType DEF CountInv
<1>2. RecordIsTrue(i, imports[i], stored[i], wrote[i])
    BY DEF CountInv
<1>3. imports[i].rows["valid"] \in Nat
    BY <1>2, TallyNumbers DEF RecordIsTrue
<1>4. imports'[i].rows["valid"] <= Cardinality(wrote'[i])
    BY <1>1, <1>2, <1>3 DEF RecordIsTrue
<1> QED
    BY <1>2, <1>4 DEF RecordIsTrue

\* A step of one server: the others count on, for nobody else runs its import.
LEMMA CountStep ==
    ASSUME RunInv, CountInv, NEW s \in Servers, \A t \in Servers \ {s} : srv'[t] = srv[t], srv'[s].imp \in Imports,
           DOMAIN stored' = Imports, DOMAIN wrote' = Imports,
           \A i \in Imports : wrote[i] \subseteq wrote'[i] /\ IsFiniteSet(wrote'[i]),
           \A i \in Imports : stored'[i] = stored[i] \/ (srv[s].pc \in Writing /\ i = srv[s].imp),
           \A i \in Imports : RecordIsTrue(i, imports'[i], stored'[i], wrote'[i]),
           CountsTruly(srv'[s], wrote'[srv'[s].imp]), KnowsItsPlace(srv'[s], stored'[srv'[s].imp])
    PROVE  CountInv'
<1>1. ASSUME NEW t \in Servers
      PROVE  CountsTruly(srv'[t], wrote'[srv'[t].imp]) /\ KnowsItsPlace(srv'[t], stored'[srv'[t].imp])
    <2>1. CASE t = s
        BY <2>1
    <2>2. CASE t # s
        <3>1. srv'[t] = srv[t] /\ srv[t].imp \in Imports
            BY <2>2 DEF RunInv, ServersShaped
        <3>2. CountsTruly(srv[t], wrote[srv[t].imp]) /\ KnowsItsPlace(srv[t], stored[srv[t].imp])
            BY DEF CountInv
        <3>3. SamePass(srv[t], srv[t])
            BY DEF SamePass
        <3>4. CountsTruly(srv[t], wrote'[srv[t].imp])
            BY <3>1, <3>2, <3>3, SamePassCounts
        <3>5. srv[t].pc \in Reading \cup {"open"} => stored'[srv[t].imp] = stored[srv[t].imp]
            <4> SUFFICES ASSUME srv[t].pc \in Reading \cup {"open"}, srv[s].pc \in Writing, srv[t].imp = srv[s].imp
                         PROVE  FALSE
                BY <3>1
            <4>1. Running(s) /\ Running(t)
                BY DEF Running, InTry, Writing, Reading
            <4> QED
                BY <2>2, <4>1 DEF RunInv, OneRunnerPerImport
        <3>6. KnowsItsPlace(srv[t], stored'[srv[t].imp])
            BY <3>2, <3>5 DEF KnowsItsPlace
        <3> QED
            BY <3>1, <3>4, <3>6
    <2> QED
        BY <2>1, <2>2
<1> QED
    BY <1>1 DEF CountInv

\* A step that counts nothing.
LEMMA QuietStep ==
    ASSUME RunInv, CountInv, NEW s \in Servers, \A t \in Servers \ {s} : srv'[t] = srv[t], srv'[s].imp \in Imports,
           UNCHANGED <<stored, wrote>>,
           \A i \in Imports : /\ imports'[i].rows = imports[i].rows
                              /\ imports'[i].status = "completed" => imports[i].status = "completed",
           CountsTruly(srv'[s], wrote[srv'[s].imp]), KnowsItsPlace(srv'[s], stored[srv'[s].imp])
    PROVE  CountInv'
<1>1. \A i \in Imports : wrote[i] \subseteq wrote'[i] /\ IsFiniteSet(wrote'[i])
    BY DEF CountInv
<1>2. \A i \in Imports : RecordIsTrue(i, imports'[i], stored'[i], wrote'[i])
    BY <1>1, RecordStays
<1>3. DOMAIN stored' = Imports /\ DOMAIN wrote' = Imports
    BY DEF CountInv
<1> QED
    BY <1>1, <1>2, <1>3, CountStep

\* Whoever ends what it did, or begins, has read nothing.
LEMMA UnreadStep ==
    ASSUME RunInv, CountInv, NEW s \in Servers, \A t \in Servers \ {s} : srv'[t] = srv[t], srv'[s].imp \in Imports,
           UNCHANGED <<stored, wrote>>, Unread(srv'[s]), srv'[s].pc \notin Reading \cup Behind \cup {"open"},
           \A i \in Imports : /\ imports'[i].rows = imports[i].rows
                              /\ imports'[i].status = "completed" => imports[i].status = "completed"
    PROVE  CountInv'
BY UnreadCounts, UnreadKnowsItsPlace, QuietStep

\* Whoever goes on with what it has.
LEMMA GoesOn ==
    ASSUME RunInv, CountInv, NEW s \in Servers, \A t \in Servers \ {s} : srv'[t] = srv[t], SamePass(srv[s], srv'[s]),
           UNCHANGED <<stored, wrote>>, KnowsItsPlace(srv'[s], stored[srv'[s].imp]),
           \A i \in Imports : /\ imports'[i].rows = imports[i].rows
                              /\ imports'[i].status = "completed" => imports[i].status = "completed"
    PROVE  CountInv'
<1>1. srv'[s].imp = srv[s].imp /\ srv[s].imp \in Imports
    BY DEF SamePass, RunInv, ServersShaped
<1>2. CountsTruly(srv[s], wrote[srv[s].imp])
    BY DEF CountInv
<1>3. CountsTruly(srv'[s], wrote[srv'[s].imp])
    BY <1>1, <1>2, SamePassCounts
<1> QED
    BY <1>1, <1>3, QuietStep

\* What the ways of moving a server do to its record.
LEMMA GotoSamePass ==
    ASSUME ServersShaped, NEW s \in Servers, NEW p, Goto(s, p)
    PROVE  SamePass(srv[s], srv'[s]) /\ srv'[s].pc = p /\ \A t \in Servers \ {s} : srv'[t] = srv[t]
BY DEF ServersShaped, Goto, SamePass, Fields

LEMMA FreeUnread ==
    ASSUME ServersShaped, NEW s \in Servers, Free(s) \/ Leave(s)
    PROVE  /\ Unread(srv'[s]) /\ srv'[s].imp = srv[s].imp /\ srv'[s].pc \in {"idle", "sweep"}
           /\ \A t \in Servers \ {s} : srv'[t] = srv[t]
<1> DEFINE idle == IdleServer(srv[s].imp)
           left == [idle EXCEPT !.pc = IF srv[s].after THEN "sweep" ELSE "idle"]
<1>1. idle.imp = srv[s].imp /\ idle.pc = "idle" /\ Unread(idle) /\ DOMAIN idle = Fields
    BY IdleIsUnread, IdleFields
<1> HIDE DEF idle
<1>2. left.imp = srv[s].imp /\ left.pc \in {"idle", "sweep"} /\ Unread(left)
    BY <1>1 DEF Unread, Fields
<1>3. srv' = [srv EXCEPT ![s] = idle] \/ srv' = [srv EXCEPT ![s] = left]
    BY DEF Free, Leave, idle
<1> HIDE DEF left
<1>4. (srv'[s] = idle \/ srv'[s] = left) /\ \A t \in Servers \ {s} : srv'[t] = srv[t]
    BY <1>3 DEF ServersShaped
<1> QED
    BY <1>1, <1>2, <1>4

\* No record is written, and none completes.
RecordsStand ==
    \A i \in Imports : /\ imports'[i].rows = imports[i].rows
                       /\ imports'[i].status = "completed" => imports[i].status = "completed"

LEMMA SameRecordsStand ==
    ASSUME imports' = imports PROVE RecordsStand
BY DEF RecordsStand

LEMMA TransitionStands ==
    ASSUME TablesShaped, NEW i \in Imports, NEW from, NEW to, to # "completed",
           Transition(i, from, to, imports[i].rows)
    PROVE  RecordsStand
<1>1. CASE Moves(i, from, to, imports[i].rows)
    BY <1>1 DEF TablesShaped, Transition, RecordsStand
<1>2. CASE ~Moves(i, from, to, imports[i].rows)
    BY <1>2 DEF Transition, RecordsStand
<1> QED
    BY <1>1, <1>2

LEMMA FreeStep ==
    ASSUME RunInv, CountInv, NEW s \in Servers, Free(s) \/ Leave(s), UNCHANGED <<stored, wrote>>, RecordsStand
    PROVE  CountInv'
<1>1. /\ Unread(srv'[s]) /\ srv'[s].imp \in Imports /\ srv'[s].pc \in {"idle", "sweep"}
      /\ \A t \in Servers \ {s} : srv'[t] = srv[t]
    BY FreeUnread DEF RunInv, ServersShaped
<1>2. srv'[s].pc \notin Reading \cup Behind \cup {"open"}
    BY <1>1 DEF Reading, Behind
<1> QED
    BY <1>1, <1>2, UnreadStep DEF RecordsStand

\* A server whose run is over, or not begun, goes on to another pc of the kind.
Before(pc) == pc \notin Reading \cup Behind \cup {"open"}

LEMMA MoveStep ==
    ASSUME RunInv, CountInv, NEW s \in Servers, SamePass(srv[s], srv'[s]), \A t \in Servers \ {s} : srv'[t] = srv[t],
           srv'[s].pc \in Behind \/ (Before(srv[s].pc) /\ Before(srv'[s].pc)),
           UNCHANGED <<stored, wrote>>, RecordsStand
    PROVE  CountInv'
<1>1. KnowsItsPlace(srv[s], stored[srv[s].imp])
    BY DEF CountInv
<1>2. KnowsItsPlace(srv'[s], stored[srv'[s].imp])
    BY <1>1 DEF KnowsItsPlace, SamePass, Before, Reading, Behind
<1> QED
    BY <1>2, GoesOn DEF RecordsStand

LEMMA GotoStep ==
    ASSUME RunInv, CountInv, NEW s \in Servers, NEW p, Goto(s, p), p \in Behind \/ (Before(srv[s].pc) /\ Before(p)),
           UNCHANGED <<stored, wrote>>, RecordsStand
    PROVE  CountInv'
BY GotoSamePass, MoveStep DEF RunInv

-----------------------------------------------------------------------------
\* Requests, whatever they do to the status, leave the counters alone.
LEMMA RequestCounts ==
    ASSUME RunInv, CountInv, NEW s \in Servers, RequestStep(s)
    PROVE  CountInv'
<1>0. srv[s].imp \in Imports /\ TablesShaped /\ ServersShaped
    BY DEF RunInv, ServersShaped
<1>1. CASE MarkFailed(s)
    <2>1. Free(s) /\ UNCHANGED <<stored, wrote>>
          /\ Transition(srv[s].imp, Waiting \cup {"processing"}, "failed", imports[srv[s].imp].rows)
        BY <1>1 DEF MarkFailed
    <2> QED
        BY <1>0, <2>1, TransitionStands, FreeStep
<1>2. CASE CannotRead(s)
    <2>1. Free(s) /\ UNCHANGED <<stored, wrote, imports>>
        BY <1>2 DEF CannotRead
    <2> QED
        BY <2>1, SameRecordsStand, FreeStep
<1>3. CASE Inspect(s)
    <2>1. Free(s) /\ UNCHANGED <<stored, wrote>>
          /\ Transition(srv[s].imp, Waiting, "mapping", imports[srv[s].imp].rows)
        BY <1>3 DEF Inspect
    <2> QED
        BY <1>0, <2>1, TransitionStands, FreeStep
<1>4. CASE Abandon(s)
    <2>1. Free(s) /\ UNCHANGED <<stored, wrote>>
          /\ Transition(srv[s].imp, Waiting, "failed", imports[srv[s].imp].rows)
        BY <1>4 DEF Abandon
    <2> QED
        BY <1>0, <2>1, TransitionStands, FreeStep
<1>5. CASE Confirm(s)
    <2>1. UNCHANGED <<stored, wrote>> /\ At(s, "confirm")
          /\ Transition(srv[s].imp, Waiting, "processing", imports[srv[s].imp].rows)
        BY <1>5 DEF Confirm
    <2>2. RecordsStand
        BY <1>0, <2>1, TransitionStands
    <2>3. CASE imports[srv[s].imp].status \in Waiting
        <3>1. srv' = [srv EXCEPT ![s].pc = "enqueue", ![s].after = TRUE]
            BY <1>5, <2>3 DEF Confirm
        <3>2. SamePass(srv[s], srv'[s]) /\ srv'[s].pc = "enqueue" /\ \A t \in Servers \ {s} : srv'[t] = srv[t]
            BY <1>0, <3>1 DEF ServersShaped, Fields, SamePass
        <3>3. Before(srv[s].pc) /\ Before("enqueue")
            BY <2>1 DEF At, Before, Reading, Behind
        <3> QED
            BY <2>1, <2>2, <3>2, <3>3, MoveStep
    <2>4. CASE imports[srv[s].imp].status \notin Waiting
        <3>1. Free(s)
            BY <1>5, <2>4 DEF Confirm
        <3> QED
            BY <2>1, <2>2, <3>1, FreeStep
    <2> QED
        BY <2>3, <2>4
<1>6. CASE Enqueue(s)
    <2>1. Goto(s, "claim") /\ At(s, "enqueue") /\ UNCHANGED <<stored, wrote, imports>>
        BY <1>6 DEF Enqueue
    <2>2. Before(srv[s].pc) /\ Before("claim")
        BY <2>1 DEF At, Before, Reading, Behind
    <2> QED
        BY <2>1, <2>2, SameRecordsStand, GotoStep
<1> QED
    BY <1>1, <1>2, <1>3, <1>4, <1>5, <1>6 DEF RequestStep

\* A runner that takes a job up, or has done with it.
LEMMA JobCounts ==
    ASSUME RunInv, CountInv, NEW s \in Servers,
           \/ Claim(s) \/ CountAttempt(s) \/ Load(s) \/ CompleteJob(s) \/ RemoveFile(s) \/ FailJob(s)
    PROVE  CountInv'
<1>0. UNCHANGED <<stored, wrote, imports>>
    BY DEF Claim, CountAttempt, Load, CompleteJob, RemoveFile, FailJob
<1>1. CASE Free(s) \/ Leave(s)
    BY <1>0, <1>1, SameRecordsStand, FreeStep
<1>2. CASE ~(Free(s) \/ Leave(s))
    <2>1. \/ (At(s, "claim") /\ Goto(s, "count")) \/ (At(s, "count") /\ Goto(s, "load"))
          \/ (At(s, "load") /\ Goto(s, "reset")) \/ Goto(s, "remove")
        BY <1>2 DEF Claim, CountAttempt, Load, CompleteJob, RemoveFile, FailJob
    <2>2. "remove" \in Behind /\ \A p \in {"claim", "count", "load", "reset"} : Before(p)
        BY DEF Before, Reading, Behind
    <2> QED
        BY <1>0, <2>1, <2>2, SameRecordsStand, GotoStep DEF At
<1> QED
    BY <1>1, <1>2

-----------------------------------------------------------------------------
\* A writing runner is the only one that touches what it counts.
LEMMA WriterProcesses ==
    ASSUME RunInv, NEW s \in Servers
    PROVE  /\ srv[s].imp \in Imports /\ DOMAIN srv[s] = Fields
           /\ srv[s].pc \in Writing => imports[srv[s].imp].status = "processing"
BY DEF RunInv, ServersShaped, ProcessingIsHeld

LEMMA RunnerStep ==
    ASSUME RunInv, CountInv, NEW s \in Servers, srv[s].pc \in Writing,
           \A t \in Servers \ {s} : srv'[t] = srv[t], srv'[s].imp = srv[s].imp,
           DOMAIN stored' = Imports, wrote' = wrote,
           \A k \in Imports \ {srv[s].imp} : imports'[k] = imports[k] /\ stored'[k] = stored[k],
           RecordIsTrue(srv[s].imp, imports'[srv[s].imp], stored'[srv[s].imp], wrote[srv[s].imp]),
           CountsTruly(srv'[s], wrote[srv[s].imp]), KnowsItsPlace(srv'[s], stored'[srv[s].imp])
    PROVE  CountInv'
<1>1. srv[s].imp \in Imports
    BY WriterProcesses
<1>2. \A i \in Imports : wrote[i] \subseteq wrote'[i] /\ IsFiniteSet(wrote'[i])
    BY DEF CountInv
<1>3. \A i \in Imports : RecordIsTrue(i, imports'[i], stored'[i], wrote'[i])
    BY DEF CountInv
<1>4. DOMAIN wrote' = Imports
    BY DEF CountInv
<1>5. \A i \in Imports : stored'[i] = stored[i] \/ (srv[s].pc \in Writing /\ i = srv[s].imp)
    OBVIOUS
<1> QED
    BY <1>1, <1>2, <1>3, <1>4, <1>5, CountStep

\* A pass counts no row beyond its file and no contact it did not write.
LEMMA TallyIsTrue ==
    ASSUME NEW run, run.imp \in Imports, NEW written, IsFiniteSet(written), CountsTruly(run, written)
    PROVE  /\ run.tally \in Tallies /\ run.tally["total"] = Bucketed(run.tally)
           /\ run.tally["total"] <= Len(File[run.imp]) /\ run.tally["valid"] <= Cardinality(written)
<1>1. PICK V \in SUBSET (run.seen \ InChunk(run)) :
         V \subseteq written /\ IsFiniteSet(V) /\ Cardinality(V) = run.tally["valid"]
    BY DEF CountsTruly
<1>2. Cardinality(V) <= Cardinality(written)
    BY <1>1, FS_Subset
<1>3. run.tally \in Tallies /\ run.tally["total"] = Bucketed(run.tally)
    BY DEF CountsTruly
<1>4. run.tally["total"] \in Nat /\ Len(run.chunk) \in Nat /\ Len(File[run.imp]) \in Nat
    BY <1>3, TallyNumbers, FileLengths DEF CountsTruly
<1>5. run.tally["total"] <= Len(File[run.imp])
    BY <1>4 DEF CountsTruly
<1> QED
    BY <1>1, <1>2, <1>3, <1>5

LEMMA ResetCounts ==
    ASSUME RunInv, CountInv, NEW s \in Servers, Reset(s) PROVE CountInv'
<1> DEFINE i == srv[s].imp
<1>1. /\ srv[s].pc = "reset" /\ Goto(s, "clear") /\ UNCHANGED <<stored, wrote>>
      /\ imports' = [imports EXCEPT ![i].rows = NoRows]
    BY DEF Reset, At
<1>2. srv[s].pc \in Writing /\ i \in Imports /\ imports[i].status = "processing"
    BY <1>1, WriterProcesses DEF Writing
<1>3. /\ SamePass(srv[s], srv'[s]) /\ srv'[s].pc = "clear" /\ srv'[s].imp = i
      /\ \A t \in Servers \ {s} : srv'[t] = srv[t]
    BY <1>1, GotoSamePass DEF RunInv, SamePass
<1>4. /\ imports'[i].rows = NoRows /\ imports'[i].status = "processing"
      /\ \A k \in Imports \ {i} : imports'[k] = imports[k]
    BY <1>1, <1>2 DEF RunInv, TablesShaped
<1>5. IsFiniteSet(wrote[i]) /\ DOMAIN stored = Imports /\ CountsTruly(srv[s], wrote[i]) /\ KnowsItsPlace(srv[s], stored[i])
    BY <1>2 DEF CountInv
<1>6. Cardinality(wrote[i]) \in Nat /\ Len(File[i]) \in Nat
    BY <1>2, <1>5, FS_CardinalityType, FileLengths
<1>7. RecordIsTrue(i, imports'[i], stored'[i], wrote[i])
    BY <1>4, <1>6, NoRowsCount DEF RecordIsTrue
<1>8. CountsTruly(srv'[s], wrote[i])
    BY <1>3, <1>5, SamePassCounts
<1>9. KnowsItsPlace(srv'[s], stored'[i])
    BY <1>1, <1>3, <1>5 DEF KnowsItsPlace, SamePass, Reading, Behind
<1> QED
    BY <1>1, <1>2, <1>3, <1>4, <1>5, <1>7, <1>8, <1>9, RunnerStep

LEMMA ClearCounts ==
    ASSUME RunInv, CountInv, NEW s \in Servers, ClearRejections(s) PROVE CountInv'
<1> DEFINE i == srv[s].imp
<1>1. /\ srv[s].pc = "clear" /\ Goto(s, "open") /\ UNCHANGED <<imports, wrote>>
      /\ stored' = [stored EXCEPT ![i] = 0]
    BY DEF ClearRejections, At
<1>2. srv[s].pc \in Writing /\ i \in Imports /\ imports[i].status = "processing"
    BY <1>1, WriterProcesses DEF Writing
<1>3. /\ SamePass(srv[s], srv'[s]) /\ srv'[s].pc = "open" /\ srv'[s].imp = i
      /\ \A t \in Servers \ {s} : srv'[t] = srv[t]
    BY <1>1, GotoSamePass DEF RunInv, SamePass
<1>4. /\ RecordIsTrue(i, imports[i], stored[i], wrote[i]) /\ DOMAIN stored = Imports
      /\ CountsTruly(srv[s], wrote[i]) /\ KnowsItsPlace(srv[s], stored[i])
    BY <1>2 DEF CountInv
<1>5. DOMAIN stored' = Imports /\ stored'[i] = 0 /\ \A k \in Imports \ {i} : stored'[k] = stored[k]
    BY <1>1, <1>2, <1>4
<1>6. RecordIsTrue(i, imports'[i], stored'[i], wrote[i])
    BY <1>1, <1>2, <1>4 DEF RecordIsTrue
<1>7. CountsTruly(srv'[s], wrote[i])
    BY <1>3, <1>4, SamePassCounts
<1>8. KnowsItsPlace(srv'[s], stored'[i])
    BY <1>1, <1>3, <1>4, <1>5 DEF KnowsItsPlace, SamePass, Reading, Behind
<1> QED
    BY <1>1, <1>2, <1>3, <1>5, <1>6, <1>7, <1>8, RunnerStep

\* A runner in its file, as the proofs of its steps find it.
LEMMA InFile ==
    ASSUME RunInv, CountInv, NEW s \in Servers
    PROVE  /\ srv[s].imp \in Imports /\ DOMAIN srv[s] = Fields /\ srv = [t \in Servers |-> srv[t]]
           /\ DOMAIN stored = Imports /\ DOMAIN wrote = Imports /\ IsFiniteSet(wrote[srv[s].imp])
           /\ RecordIsTrue(srv[s].imp, imports[srv[s].imp], stored[srv[s].imp], wrote[srv[s].imp])
           /\ CountsTruly(srv[s], wrote[srv[s].imp]) /\ KnowsItsPlace(srv[s], stored[srv[s].imp])
BY DEF RunInv, ServersShaped, CountInv

LEMMA OpenCounts ==
    ASSUME RunInv, CountInv, NEW s \in Servers, OpenFile(s) \/ FindSuppressed(s) PROVE CountInv'
<1>1. UNCHANGED <<stored, wrote, imports>>
    BY DEF OpenFile, FindSuppressed
<1>2. CASE OpenFile(s) /\ Goto(s, "fail")
    BY <1>1, <1>2, SameRecordsStand, GotoStep DEF Behind
<1>3. CASE OpenFile(s) /\ Goto(s, "rows")
    <2>1. SamePass(srv[s], srv'[s]) /\ srv'[s].pc = "rows" /\ \A t \in Servers \ {s} : srv'[t] = srv[t]
        BY <1>3, GotoSamePass DEF RunInv
    <2>2. KnowsItsPlace(srv'[s], stored[srv'[s].imp])
        BY <1>3, <2>1, InFile DEF OpenFile, At, KnowsItsPlace, SamePass, Reading, Behind
    <2> QED
        BY <1>1, <2>1, <2>2, GoesOn
<1>4. CASE FindSuppressed(s)
    <2>1. srv' = [srv EXCEPT ![s].supp = InChunk(srv[s]) \cap banned, ![s].pc = "upsert"] /\ srv[s].pc = "eligible"
        BY <1>4 DEF FindSuppressed, At
    <2>2. SamePass(srv[s], srv'[s]) /\ srv'[s].pc = "upsert" /\ \A t \in Servers \ {s} : srv'[t] = srv[t]
        BY <2>1, InFile DEF SamePass, Fields
    <2>3. KnowsItsPlace(srv'[s], stored[srv'[s].imp])
        BY <2>1, <2>2, InFile DEF KnowsItsPlace, SamePass, Reading, Behind
    <2> QED
        BY <1>1, <2>2, <2>3, GoesOn
<1> QED
    BY <1>2, <1>3, <1>4 DEF OpenFile

LEMMA OfferedKeeps ==
    ASSUME NEW run, DOMAIN run = Fields, NEW row
    PROVE  Offered(run, row).kept = run.kept /\ Offered(run, row).imp = run.imp /\ DOMAIN Offered(run, row) = Fields
<1>1. DOMAIN Push(run) = Fields /\ Push(run).kept = run.kept /\ Push(run).imp = run.imp
    BY DEF Push, Fields
<1>2. \A b : DOMAIN Turned(run, b) = Fields /\ Turned(run, b).kept = run.kept /\ Turned(run, b).imp = run.imp
    BY <1>1 DEF Turned, Fields
<1>3. CASE row \in SettledRows
    BY <1>2, <1>3 DEF Offered
<1>4. CASE row \notin SettledRows /\ row \in run.seen
    BY <1>2, <1>4 DEF Offered
<1>5. CASE row \notin SettledRows /\ row \notin run.seen
    <2>1. Offered(run, row) = [run EXCEPT !.seen = @ \cup {row}, !.chunk = Append(@, row)]
        BY <1>5 DEF Offered
    <2> QED
        BY <2>1 DEF Fields
<1> QED
    BY <1>3, <1>4, <1>5

LEMMA RowCounts ==
    ASSUME RunInv, CountInv, NEW s \in Servers, OfferRow(s) PROVE CountInv'
<1> DEFINE run  == srv[s]
           next == Offered(run, File[run.imp][run.pos])
           pc   == IF Len(next.chunk) >= ChunkRows THEN "eligible" ELSE "rows"
           then == [next EXCEPT !.pos = @ + 1, !.pc = pc]
<1>1. run.pc = "rows" /\ run.pos <= Len(File[run.imp]) /\ UNCHANGED <<stored, wrote, imports>>
    BY DEF OfferRow, At
<1>2. srv' = [srv EXCEPT ![s] = then]
    BY DEF OfferRow
<1>3. next.kept = run.kept /\ next.imp = run.imp /\ DOMAIN next = Fields
    BY OfferedKeeps, InFile
<1>4. next = Offered(run, File[run.imp][run.pos]) /\ pc \in {"eligible", "rows"}
    OBVIOUS
<1> HIDE DEF next, pc
<1>5. SamePass([next EXCEPT !.pos = @ + 1], then) /\ then.pc = pc /\ then.kept = run.kept /\ then.imp = run.imp
    BY <1>3 DEF SamePass, Fields
<1> HIDE DEF then
<1>6. srv'[s] = then /\ \A t \in Servers \ {s} : srv'[t] = srv[t]
    BY <1>2, InFile
<1>7. CountsTruly(then, wrote[run.imp])
    BY <1>1, <1>4, <1>5, InFile, OfferedCounts
<1>8. KnowsItsPlace(then, stored[run.imp])
    BY <1>1, <1>4, <1>5, InFile DEF KnowsItsPlace, Reading, Behind
<1> QED
    BY <1>1, <1>5, <1>6, <1>7, <1>8, InFile, QuietStep

LEMMA FlushCounts ==
    ASSUME RunInv, CountInv, NEW s \in Servers, Flush(s) PROVE CountInv'
<1> DEFINE run == srv[s]
           p   == IF run.chunk # <<>> THEN "eligible" ELSE IF run.held > 0 THEN "lastPersist" ELSE "complete"
<1>1. run.pc = "rows" /\ run.pos > Len(File[run.imp]) /\ UNCHANGED <<stored, wrote, imports>> /\ Goto(s, p)
    BY DEF Flush, At
<1>2. SamePass(run, srv'[s]) /\ srv'[s].pc = p /\ \A t \in Servers \ {s} : srv'[t] = srv[t]
    BY <1>1, GotoSamePass DEF RunInv
<1>3. run.pos \in Nat /\ Len(File[run.imp]) \in Nat /\ run.pos <= Len(File[run.imp]) + 1 /\ run.held \in Nat
    <2>1. run.tally["total"] \in Nat /\ Len(run.chunk) \in Nat /\ run.pos = run.tally["total"] + Len(run.chunk) + 1
        BY InFile, TallyNumbers DEF CountsTruly
    <2>2. run.pos <= Len(File[run.imp]) + 1 /\ run.held \in Nat
        BY InFile DEF CountsTruly
    <2> QED
        BY <2>1, <2>2, InFile, FileLengths
<1>4. run.pos = Len(File[run.imp]) + 1
    BY <1>1, <1>3
<1>5. /\ p \in {"eligible", "lastPersist", "complete"} /\ (p # "eligible" => run.chunk = <<>>)
      /\ p = "complete" => run.held = 0
    BY <1>3
<1> HIDE DEF p
<1>6. KnowsItsPlace(srv'[s], stored[srv'[s].imp])
    BY <1>1, <1>2, <1>4, <1>5, InFile DEF KnowsItsPlace, SamePass, Reading, Behind
<1> QED
    BY <1>1, <1>2, <1>6, GoesOn

LEMMA ChunkIsFinite ==
    ASSUME NEW run, Len(run.chunk) \in Nat PROVE IsFiniteSet(InChunk(run))
<1> DEFINE all == 1..Len(run.chunk)
           f   == [k \in all |-> run.chunk[k]]
<1>1. IsFiniteSet(all)
    BY FS_Interval
<1>2. f \in [all -> InChunk(run)] /\ \A t \in InChunk(run) : \E k \in all : f[k] = t
    BY DEF InChunk
<1> HIDE DEF all, f
<1>3. f \in Surjection(all, InChunk(run))
    BY <1>2 DEF Surjection
<1> QED
    BY <1>1, <1>3, FS_Surjection

LEMMA WritesGrow ==
    ASSUME RunInv, CountInv, NEW s \in Servers, WriteContacts(srv[s])
    PROVE  LET fresh == {a \in InChunk(srv[s]) : contacts[a] = "none"} IN
           /\ DOMAIN wrote' = Imports /\ wrote'[srv[s].imp] = wrote[srv[s].imp] \cup fresh
           /\ \A i \in Imports : wrote[i] \subseteq wrote'[i] /\ IsFiniteSet(wrote'[i])
<1> DEFINE fresh == {a \in InChunk(srv[s]) : contacts[a] = "none"}
<1>1. IsFiniteSet(fresh)
    <2>1. Len(srv[s].chunk) \in Nat
        BY InFile DEF CountsTruly
    <2> QED
        BY <2>1, ChunkIsFinite, FS_Subset
<1>2. wrote' = [wrote EXCEPT ![srv[s].imp] = @ \cup fresh]
    BY DEF WriteContacts
<1> HIDE DEF fresh
<1>3. DOMAIN wrote' = Imports /\ wrote'[srv[s].imp] = wrote[srv[s].imp] \cup fresh
      /\ \A i \in Imports \ {srv[s].imp} : wrote'[i] = wrote[i]
    BY <1>2, InFile
<1>4. IsFiniteSet(wrote[srv[s].imp] \cup fresh)
    BY <1>1, InFile, FS_Union
<1>5. \A i \in Imports : IsFiniteSet(wrote[i])
    BY DEF CountInv
<1> QED
    BY <1>3, <1>4, <1>5 DEF fresh

LEMMA SettledKeeps ==
    ASSUME NEW run, DOMAIN run = Fields
    PROVE  Settled(run).kept = run.kept /\ Settled(run).imp = run.imp /\ DOMAIN Settled(run) = Fields
BY DEF Settled, Fields

LEMMA ChunkCounts ==
    ASSUME RunInv, CountInv, NEW s \in Servers, UpsertChunk(s) PROVE CountInv'
<1> DEFINE run  == srv[s]
           next == Settled(run)
           then == [next EXCEPT !.pc = "persist"]
<1>1. run.pc = "upsert" /\ WriteContacts(run) /\ UNCHANGED <<stored, imports>> /\ srv' = [srv EXCEPT ![s] = then]
    BY DEF UpsertChunk, At
<1>2. next.kept = run.kept /\ next.imp = run.imp /\ DOMAIN next = Fields /\ next = Settled(run)
    BY SettledKeeps, InFile
<1> HIDE DEF next
<1>3. SamePass(next, then) /\ then.pc = "persist" /\ then.kept = run.kept /\ then.imp = run.imp
    BY <1>2 DEF SamePass, Fields
<1> HIDE DEF then
<1>4. srv'[s] = then /\ \A t \in Servers \ {s} : srv'[t] = srv[t]
    BY <1>1, InFile
<1>5. /\ DOMAIN wrote' = Imports /\ wrote'[run.imp] = wrote[run.imp] \cup {a \in InChunk(run) : contacts[a] = "none"}
      /\ \A i \in Imports : wrote[i] \subseteq wrote'[i] /\ IsFiniteSet(wrote'[i])
    BY <1>1, WritesGrow
<1>6. CountsTruly(then, wrote[run.imp] \cup {a \in InChunk(run) : contacts[a] = "none"})
    BY <1>2, <1>3, InFile, SettledCounts
<1>7. KnowsItsPlace(then, stored[run.imp])
    BY <1>1, <1>3, InFile DEF KnowsItsPlace, Reading, Behind
<1>8. \A i \in Imports : RecordIsTrue(i, imports'[i], stored'[i], wrote'[i])
    BY <1>1, <1>5, RecordStays
<1>9. srv'[s].imp \in Imports /\ DOMAIN stored' = Imports /\ \A i \in Imports : stored'[i] = stored[i]
    BY <1>1, <1>3, <1>4, InFile
<1>10. CountsTruly(srv'[s], wrote'[srv'[s].imp]) /\ KnowsItsPlace(srv'[s], stored'[srv'[s].imp])
    BY <1>1, <1>3, <1>4, <1>5, <1>6, <1>7
<1> HIDE DEF run
<1> QED
    BY <1>4, <1>5, <1>8, <1>9, <1>10, CountStep

LEMMA PersistCounts ==
    ASSUME RunInv, CountInv, NEW s \in Servers, PersistRejections(s) PROVE CountInv'
<1> DEFINE run == srv[s]
           i   == srv[s].imp
           pc  == IF run.pc = "persist" THEN "counters" ELSE "complete"
<1>1. run.pc \in {"persist", "lastPersist"} /\ UNCHANGED <<imports, wrote>>
    BY DEF PersistRejections
<1>2. run.pc \in Writing /\ i \in Imports /\ imports[i].status = "processing"
    BY <1>1, WriterProcesses DEF Writing
<1>3. /\ srv' = [srv EXCEPT ![s].kept = @ + run.held, ![s].held = 0, ![s].pc = pc]
      /\ stored' = [stored EXCEPT ![i] = @ + run.held]
    BY DEF PersistRejections
<1>4. /\ pc \in {"counters", "complete"} /\ (pc = "complete" => run.pc = "lastPersist")
    BY <1>1
<1> HIDE DEF pc
<1>5. /\ SamePass([run EXCEPT !.kept = @ + run.held, !.held = 0], srv'[s]) /\ srv'[s].pc = pc /\ srv'[s].imp = i
      /\ srv'[s].chunk = run.chunk /\ srv'[s].pos = run.pos /\ \A t \in Servers \ {s} : srv'[t] = srv[t]
    BY <1>3, InFile DEF SamePass, Fields
<1>6. /\ DOMAIN stored' = Imports /\ stored'[i] = stored[i] + run.held
      /\ \A k \in Imports \ {i} : stored'[k] = stored[k]
    BY <1>2, <1>3, InFile
<1>7. CountsTruly(srv'[s], wrote[i]) /\ srv'[s].kept = run.kept + run.held /\ srv'[s].held = 0
    BY <1>5, InFile, StoredCounts
<1>8. KnowsItsPlace(srv'[s], stored'[i])
    BY <1>1, <1>4, <1>5, <1>6, <1>7, InFile DEF KnowsItsPlace, Reading, Behind
<1>9. RecordIsTrue(i, imports'[i], stored'[i], wrote[i])
    BY <1>1, <1>2, InFile DEF RecordIsTrue
<1> QED
    BY <1>1, <1>2, <1>5, <1>6, <1>7, <1>8, <1>9, RunnerStep

LEMMA UpdateCounts ==
    ASSUME RunInv, CountInv, NEW s \in Servers, UpdateCounters(s) PROVE CountInv'
<1> DEFINE i == srv[s].imp
<1>1. /\ srv[s].pc = "counters" /\ Goto(s, "rows") /\ UNCHANGED <<stored, wrote>>
      /\ imports' = [imports EXCEPT ![i].rows = srv[s].tally]
    BY DEF UpdateCounters, At
<1>2. srv[s].pc \in Writing /\ i \in Imports /\ imports[i].status = "processing"
    BY <1>1, WriterProcesses DEF Writing
<1>3. /\ SamePass(srv[s], srv'[s]) /\ srv'[s].pc = "rows" /\ srv'[s].imp = i
      /\ \A t \in Servers \ {s} : srv'[t] = srv[t]
    BY <1>1, GotoSamePass DEF RunInv, SamePass
<1>4. /\ imports'[i].rows = srv[s].tally /\ imports'[i].status = "processing"
      /\ \A k \in Imports \ {i} : imports'[k] = imports[k]
    BY <1>1, <1>2 DEF RunInv, TablesShaped
<1>5. RecordIsTrue(i, imports'[i], stored'[i], wrote[i])
    BY <1>4, InFile, TallyIsTrue DEF RecordIsTrue
<1>6. CountsTruly(srv'[s], wrote[i])
    BY <1>3, InFile, SamePassCounts
<1>7. KnowsItsPlace(srv'[s], stored'[i])
    BY <1>1, <1>3, InFile DEF KnowsItsPlace, SamePass, Reading, Behind
<1>8. DOMAIN stored' = Imports
    BY <1>1, InFile
<1> QED
    BY <1>1, <1>2, <1>3, <1>4, <1>5, <1>6, <1>7, <1>8, RunnerStep

\* The pass that completes has read every row and stored every reason it kept.
LEMMA CompleteCounts ==
    ASSUME RunInv, CountInv, NEW s \in Servers, Complete(s) PROVE CountInv'
<1> DEFINE run == srv[s]
           i   == srv[s].imp
<1>1. /\ run.pc = "complete" /\ UNCHANGED <<stored, wrote>>
      /\ Transition(i, {"processing"}, "completed", run.tally)
    BY DEF Complete, At
<1>2. run.pc \in Writing /\ i \in Imports /\ imports[i].status = "processing"
    BY <1>1, WriterProcesses DEF Writing
<1>3. CountsTruly(run, wrote[i]) /\ KnowsItsPlace(run, stored[i])
    BY InFile
<1>4. Moves(i, {"processing"}, "completed", run.tally)
    BY <1>2, <1>3 DEF Moves, CountsTruly
<1>5. Goto(s, "close")
    BY <1>4 DEF Complete
<1>6. /\ SamePass(run, srv'[s]) /\ srv'[s].pc = "close" /\ srv'[s].imp = i
      /\ \A t \in Servers \ {s} : srv'[t] = srv[t]
    BY <1>5, GotoSamePass DEF RunInv, SamePass
<1>7. /\ imports'[i] = [status |-> "completed", rows |-> run.tally]
      /\ \A k \in Imports \ {i} : imports'[k] = imports[k]
    BY <1>1, <1>2, <1>4 DEF Transition, RunInv, TablesShaped
<1>8. /\ run.tally \in Tallies /\ run.tally["total"] = Bucketed(run.tally)
      /\ run.tally["total"] <= Len(File[i]) /\ run.tally["valid"] <= Cardinality(wrote[i])
    BY <1>3, InFile, TallyIsTrue
<1>9. run.tally["total"] = Len(File[i]) /\ stored[i] = Lesser(MaxStored, run.tally["total"] - run.tally["valid"])
    <2>1. /\ run.chunk = <<>> /\ run.pos = Len(File[i]) + 1 /\ run.held = 0 /\ stored[i] = run.kept
          /\ run.pos = run.tally["total"] + Len(run.chunk) + 1 /\ run.kept \in Nat
          /\ run.kept + run.held = Lesser(MaxStored, run.tally["total"] - run.tally["valid"])
        BY <1>1, <1>3 DEF KnowsItsPlace, CountsTruly, Reading
    <2>2. run.tally["total"] \in Nat /\ Len(File[i]) \in Nat /\ Len(run.chunk) = 0
        BY <1>2, <1>8, <2>1, TallyNumbers, FileLengths, EmptyChunk
    <2> QED
        BY <2>1, <2>2
<1>10. RecordIsTrue(i, imports'[i], stored'[i], wrote[i])
    <2>1. imports'[i].status = "completed" /\ imports'[i].rows = run.tally /\ stored'[i] = stored[i]
        BY <1>1, <1>7
    <2> HIDE DEF run, i
    <2> QED
        BY <1>8, <1>9, <2>1 DEF RecordIsTrue
<1>11. CountsTruly(srv'[s], wrote[i])
    BY <1>3, <1>6, SamePassCounts
<1>12. KnowsItsPlace(srv'[s], stored'[i])
    BY <1>6 DEF KnowsItsPlace, Reading, Behind
<1>13. DOMAIN stored' = Imports
    BY <1>1, InFile
<1> QED
    BY <1>1, <1>2, <1>6, <1>7, <1>10, <1>11, <1>12, <1>13, RunnerStep

\* What the catch records is what the run had counted.
LEMMA FailureCounts ==
    ASSUME RunInv, CountInv, NEW s \in Servers, RecordFailure(s) PROVE CountInv'
<1> DEFINE run  == srv[s]
           i    == srv[s].imp
           rows == [run.tally EXCEPT !["total"] = Bucketed(run.tally)]
<1>1. /\ Transition(i, {"processing"}, "failed", rows) /\ Goto(s, "failJob") /\ UNCHANGED <<stored, wrote>>
    BY DEF RecordFailure
<1>2. i \in Imports /\ CountsTruly(run, wrote[i]) /\ IsFiniteSet(wrote[i])
    BY InFile
<1>3. /\ run.tally \in Tallies /\ run.tally["total"] = Bucketed(run.tally)
      /\ run.tally["total"] <= Len(File[i]) /\ run.tally["valid"] <= Cardinality(wrote[i])
    BY <1>2, TallyIsTrue
<1>4. rows = run.tally
    BY <1>3 DEF Tallies, Buckets
<1> HIDE DEF rows
<1>5. CASE Moves(i, {"processing"}, "failed", rows)
    <2>1. /\ imports'[i] = [status |-> "failed", rows |-> run.tally]
          /\ \A k \in Imports \ {i} : imports'[k] = imports[k]
        BY <1>1, <1>2, <1>4, <1>5 DEF Transition, RunInv, TablesShaped
    <2>2. RecordIsTrue(i, imports'[i], stored'[i], wrote'[i])
        BY <1>1, <1>3, <2>1 DEF RecordIsTrue
    <2>3. \A k \in Imports \ {i} : RecordIsTrue(k, imports'[k], stored'[k], wrote'[k])
        BY <1>1, <2>1 DEF CountInv
    <2>4. /\ SamePass(run, srv'[s]) /\ srv'[s].pc = "failJob" /\ srv'[s].imp = i
          /\ \A t \in Servers \ {s} : srv'[t] = srv[t]
        BY <1>1, GotoSamePass DEF RunInv, SamePass
    <2>5. CountsTruly(srv'[s], wrote'[i]) /\ KnowsItsPlace(srv'[s], stored'[i])
        BY <1>1, <1>2, <2>4, SamePassCounts DEF KnowsItsPlace, Reading, Behind
    <2>6. \A k \in Imports : wrote[k] \subseteq wrote'[k] /\ IsFiniteSet(wrote'[k]) /\ stored'[k] = stored[k]
        BY <1>1 DEF CountInv
    <2>7. DOMAIN stored' = Imports /\ DOMAIN wrote' = Imports
        BY <1>1, InFile
    <2> QED
        BY <1>2, <2>2, <2>3, <2>4, <2>5, <2>6, <2>7, CountStep
<1>6. CASE ~Moves(i, {"processing"}, "failed", rows)
    <2>1. imports' = imports
        BY <1>1, <1>6 DEF Transition
    <2> QED
        BY <1>1, <2>1, SameRecordsStand, GotoStep DEF Behind
<1> QED
    BY <1>5, <1>6

-----------------------------------------------------------------------------
\* The sweep takes its imports one after the other; it has read none of them.
LEMMA SweepCounts ==
    ASSUME RunInv, CountInv, NEW s \in Servers, SweepStep(s)
    PROVE  CountInv'
<1> DEFINE run == srv[s]
<1>0. ServersShaped /\ TablesShaped /\ run.imp \in Imports
    BY DEF RunInv, ServersShaped
<1>1. CASE SweepReads(s)
    <2>1. UNCHANGED <<stored, wrote, imports>> /\ run.pc = "sweep"
        BY <1>1 DEF SweepReads, At
    <2>2. CASE Free(s)
        BY <2>1, <2>2, SameRecordsStand, FreeStep
    <2>3. CASE ~Free(s)
        <3>1. srv' = [srv EXCEPT ![s].pc = "sweepRemove",
                        ![s].supp = {i \in aged : imports[i].status \in Waiting}, ![s].old = aged]
            BY <1>1, <2>3 DEF SweepReads
        <3>2. SamePass(run, srv'[s]) /\ srv'[s].pc = "sweepRemove" /\ \A t \in Servers \ {s} : srv'[t] = srv[t]
            BY <1>0, <3>1 DEF ServersShaped, Fields, SamePass
        <3>3. Before(run.pc) /\ Before("sweepRemove")
            BY <2>1 DEF Before, Reading, Behind
        <3> QED
            BY <2>1, <3>2, <3>3, SameRecordsStand, MoveStep
    <2> QED
        BY <2>2, <2>3
<1>2. CASE SweepCloses(s)
    <2>1. /\ UNCHANGED <<stored, wrote>> /\ run.pc = "sweepClose" /\ (Free(s) \/ Goto(s, "sweepRemove"))
          /\ Transition(run.imp, Waiting, "failed", imports[run.imp].rows)
        BY <1>2 DEF SweepCloses, At
    <2>2. RecordsStand
        BY <1>0, <2>1, TransitionStands
    <2>3. Before(run.pc) /\ Before("sweepRemove")
        BY <2>1 DEF Before, Reading, Behind
    <2> QED
        BY <2>1, <2>2, <2>3, FreeStep, GotoStep
<1>3. ASSUME NEW i \in Imports, SweepRemoves(s, i) PROVE CountInv'
    <2> DEFINE pc == IF i \in run.supp THEN "sweepClose" ELSE IF run.old = {i} THEN "idle" ELSE "sweepRemove"
    <2>1. /\ UNCHANGED <<stored, wrote, imports>> /\ run.pc = "sweepRemove"
          /\ srv' = [srv EXCEPT ![s].imp = i, ![s].old = @ \ {i}, ![s].pc = pc]
        BY <1>3 DEF SweepRemoves, At
    <2>2. pc \in {"sweepClose", "idle", "sweepRemove"}
        OBVIOUS
    <2> HIDE DEF pc
    <2>3. /\ srv'[s].tally = run.tally /\ srv'[s].chunk = run.chunk /\ srv'[s].seen = run.seen
          /\ srv'[s].pos = run.pos /\ srv'[s].held = run.held /\ srv'[s].kept = run.kept
          /\ srv'[s].imp = i /\ srv'[s].pc = pc /\ \A t \in Servers \ {s} : srv'[t] = srv[t]
        BY <1>0, <2>1 DEF ServersShaped, Fields
    <2>4. CountsTruly(run, wrote[run.imp]) /\ KnowsItsPlace(run, stored[run.imp])
        BY InFile
    <2>5. /\ run.pos = 1 /\ run.kept = 0 /\ run.held = 0 /\ run.tally["total"] = 0 /\ run.tally["valid"] = 0
          /\ Len(run.chunk) = 0
        BY <2>1, <2>4, NotReadingIsUnread DEF Reading, Behind
    <2>6. InChunk(srv'[s]) = InChunk(run)
        BY <2>3 DEF InChunk
    <2>7. run.pos <= Len(File[i]) + 1
        BY <2>5, FileLengths
    <2>8. {} \in SUBSET (run.seen \ InChunk(run)) /\ {} \subseteq wrote[i] /\ IsFiniteSet({}) /\ Cardinality({}) = run.tally["valid"]
        BY <2>5, FS_EmptySet
    <2>9. CountsTruly(srv'[s], wrote[i])
        BY <2>3, <2>4, <2>6, <2>7, <2>8 DEF CountsTruly
    <2>10. KnowsItsPlace(srv'[s], stored[i])
        BY <2>2, <2>3, <2>5 DEF KnowsItsPlace, Reading, Behind
    <2> QED
        BY <2>1, <2>3, <2>9, <2>10, QuietStep
<1> QED
    BY <1>1, <1>2, <1>3 DEF SweepStep

\* A call that raises counts nothing; the contacts of a chunk may be written.
LEMMA FaultCounts ==
    ASSUME RunInv, CountInv, NEW s \in Servers, Raises(s) \/ Dies(s)
    PROVE  CountInv'
<1>1. UNCHANGED <<stored, imports>> /\ RecordsStand
    BY SameRecordsStand DEF Raises, Dies
<1>2. CASE wrote' = wrote /\ (Free(s) \/ Leave(s))
    BY <1>1, <1>2, FreeStep
<1>3. CASE wrote' = wrote /\ (Goto(s, "fail") \/ Goto(s, "failJob"))
    BY <1>1, <1>3, GotoStep DEF Behind
<1>4. CASE WriteContacts(srv[s]) /\ Goto(s, "fail")
    <2>1. /\ SamePass(srv[s], srv'[s]) /\ srv'[s].pc = "fail" /\ srv'[s].imp = srv[s].imp
          /\ \A t \in Servers \ {s} : srv'[t] = srv[t]
        BY <1>4, GotoSamePass DEF RunInv, SamePass
    <2>2. DOMAIN wrote' = Imports /\ \A i \in Imports : wrote[i] \subseteq wrote'[i] /\ IsFiniteSet(wrote'[i])
        BY <1>4, WritesGrow
    <2>3. \A i \in Imports : RecordIsTrue(i, imports'[i], stored'[i], wrote'[i])
        BY <1>1, <2>2, RecordStays
    <2>4. srv'[s].imp \in Imports /\ DOMAIN stored' = Imports /\ \A i \in Imports : stored'[i] = stored[i]
        BY <1>1, <2>1, InFile
    <2>5. CountsTruly(srv'[s], wrote'[srv'[s].imp])
        BY <2>1, <2>2, InFile, SamePassCounts
    <2>6. KnowsItsPlace(srv'[s], stored'[srv'[s].imp])
        BY <2>1 DEF KnowsItsPlace, Reading, Behind
    <2> QED
        BY <2>1, <2>2, <2>3, <2>4, <2>5, <2>6, CountStep
<1>5. \/ wrote' = wrote /\ (Free(s) \/ Leave(s) \/ Goto(s, "fail") \/ Goto(s, "failJob"))
      \/ WriteContacts(srv[s]) /\ Goto(s, "fail")
    BY DEF Raises, Dies
<1> QED
    BY <1>2, <1>3, <1>4, <1>5

\* A request begins with nothing read.
LEMMA AskCounts ==
    ASSUME RunInv, CountInv, NEW s \in Servers, NEW i \in Imports, NEW pc \in {"claim", "inspect", "confirm", "abandon"},
           srv' = [srv EXCEPT ![s] = [IdleServer(i) EXCEPT !.pc = pc]], UNCHANGED <<stored, wrote, imports>>
    PROVE  CountInv'
<1> DEFINE run == [IdleServer(i) EXCEPT !.pc = pc]
<1>1. Unread(run) /\ run.imp = i /\ run.pc = pc
    BY IdleIsUnread, IdleFields DEF Unread, Fields
<1> HIDE DEF run
<1>2. srv'[s] = run /\ \A t \in Servers \ {s} : srv'[t] = srv[t]
    BY InFile DEF run
<1>3. pc \notin Reading \cup Behind \cup {"open"}
    BY DEF Reading, Behind
<1> QED
    BY <1>1, <1>2, <1>3, UnreadStep

LEMMA SameCounts ==
    ASSUME CountInv, UNCHANGED <<imports, stored, wrote, srv>> PROVE CountInv'
BY DEF CountInv

LEMMA InitCountInv == ImportInit => CountInv
<1> SUFFICES ASSUME ImportInit PROVE CountInv
    OBVIOUS
<1>1. ASSUME NEW i \in Imports
      PROVE  IsFiniteSet(wrote[i]) /\ RecordIsTrue(i, imports[i], stored[i], wrote[i])
    <2>1. wrote[i] = {} /\ imports[i].rows = NoRows /\ imports[i].status = "uploaded"
        BY DEF ImportInit
    <2>2. IsFiniteSet({}) /\ Cardinality({}) = 0 /\ Len(File[i]) \in Nat
        BY FS_EmptySet, FileLengths
    <2> QED
        BY <2>1, <2>2, NoRowsCount DEF RecordIsTrue
<1>2. ASSUME NEW s \in Servers
      PROVE  CountsTruly(srv[s], wrote[srv[s].imp]) /\ KnowsItsPlace(srv[s], stored[srv[s].imp])
    <2> DEFINE first == CHOOSE i \in Imports : TRUE
    <2>1. srv[s] = IdleServer(first) /\ first \in Imports
        BY ImportsAssumption DEF ImportInit
    <2> HIDE DEF first
    <2>2. Unread(srv[s]) /\ srv[s].pc = "idle" /\ srv[s].imp \in Imports
        BY <2>1, IdleIsUnread
    <2>3. srv[s].pc \notin Reading \cup Behind \cup {"open"}
        BY <2>2 DEF Reading, Behind
    <2> QED
        BY <2>2, <2>3, UnreadCounts, UnreadKnowsItsPlace
<1>3. DOMAIN stored = Imports /\ DOMAIN wrote = Imports
    BY DEF ImportInit
<1> QED
    BY <1>1, <1>2, <1>3 DEF CountInv

LEMMA StepCountInv ==
    ASSUME RunInv, CountInv, [ImportNext]_importVars PROVE CountInv'
<1>1. CASE UNCHANGED importVars
    BY <1>1, SameCounts DEF importVars
<1>2. ASSUME NEW i \in Imports, Upload(i) \/ GrowsOld(i) PROVE CountInv'
    BY <1>2, SameCounts DEF Upload, GrowsOld
<1>3. ASSUME NEW s \in Servers, NEW i \in Imports, Retries(s, i) PROVE CountInv'
    BY <1>3, AskCounts DEF Retries
<1>4. ASSUME NEW s \in Servers, NEW i \in Imports, NEW request \in {"inspect", "confirm", "abandon"},
             Asks(s, i, request)
      PROVE  CountInv'
    BY <1>4, AskCounts DEF Asks
<1>5. ASSUME NEW s \in Servers, RunStep(s) PROVE CountInv'
    BY <1>5, JobCounts, ResetCounts, ClearCounts, OpenCounts, RowCounts, FlushCounts, ChunkCounts, PersistCounts,
       UpdateCounts, CompleteCounts, FailureCounts DEF RunStep
<1>6. ASSUME NEW s \in Servers, ServerStep(s) \/ Raises(s) \/ Dies(s) PROVE CountInv'
    BY <1>5, <1>6, RequestCounts, SweepCounts, FaultCounts DEF ServerStep
<1>7. ASSUME NEW a \in Addresses, SuppressionAdded(a) \/ SuppressionLifted(a) \/ ContactDeleted(a) PROVE CountInv'
    BY <1>7, SameCounts DEF SuppressionAdded, SuppressionLifted, ContactDeleted
<1> QED
    BY <1>1, <1>2, <1>3, <1>4, <1>6, <1>7 DEF ImportNext

(* What an import reports is so: a completed one accounts for every row of *)
(* its file exactly once and has a stored reason for every row that is not *)
(* a new contact up to the cap, and none counts a row it did not reach or  *)
(* a contact it did not write, after whatever attempts, faults and sweeps. *)
THEOREM CountersAreTrue == ImportSpec => []CountersTellTheTruth
<1>1. ImportInit => CountInv
    BY InitCountInv
<1>2. RunInv /\ CountInv /\ [ImportNext]_importVars => CountInv'
    BY StepCountInv
<1>3. CountInv => CountersTellTheTruth
    BY DEF CountInv, RecordIsTrue, CountersTellTheTruth
<1> QED
    BY <1>1, <1>2, <1>3, RunInvariant, PTL DEF ImportSpec
-----------------------------------------------------------------------------
\* Of the finite sets that have a property there is one no part of which has
\* it: what the proofs by induction on a finite set rest on.
LEMMA LeastSet ==
    ASSUME NEW S, IsFiniteSet(S), NEW Bad, Bad \subseteq SUBSET S, Bad # {}
    PROVE  \E s \in Bad : /\ s \subseteq S /\ IsFiniteSet(s)
                          /\ \A u \in SUBSET s : u # s => u \notin Bad
<1>1. Bad \subseteq FiniteSubsetsOf(S)
    BY FS_Subset DEF FiniteSubsetsOf
<1>2. PICK s \in Bad : \A y \in Bad : ~(<<y, s>> \in StrictSubsetOrdering(S))
    BY <1>1, FS_StrictSubsetOrderingWellFounded, WFMin
<1>3. \A u \in SUBSET s : u # s => u \notin Bad
    BY <1>2 DEF StrictSubsetOrdering
<1> QED
    BY <1>2, <1>3, FS_Subset

\* A set of positive numbers has a least one, the number Min picks.
LEMMA LeastOfSome ==
    ASSUME NEW S \in SUBSET (Nat \ {0}), S # {}
    PROVE  Min(S) \in S /\ \A k \in S : Min(S) <= k
<1>1. PICK n \in S : TRUE
    OBVIOUS
<1> DEFINE Closed == {T \in SUBSET (S \cap 1 .. n) : T # {} /\ \A x \in T, y \in S : y <= x => y \in T}
<1>2. S \cap 1 .. n \in Closed /\ Closed \subseteq SUBSET (1 .. n)
    BY <1>1
<1>3. PICK T \in Closed : \A u \in SUBSET T : u # T => u \notin Closed
    <2> DEFINE all == 1 .. n
    <2>1. IsFiniteSet(all)
        BY <1>1, FS_Interval
    <2>2. Closed # {} /\ Closed \subseteq SUBSET all
        BY <1>2
    <2> HIDE DEF Closed, all
    <2> QED
        BY <2>1, <2>2, LeastSet
<1>4. PICK x \in T : TRUE
    OBVIOUS
<1> DEFINE below == {y \in T : y < x}
<1>5. below \in SUBSET T /\ x \notin below
    BY <1>4
<1>6. below = {}
    <2> SUFFICES ASSUME below # {} PROVE FALSE
        OBVIOUS
    <2>1. T \subseteq S /\ T \subseteq 1 .. n /\ \A y \in T, z \in S : z <= y => z \in T
        OBVIOUS
    <2>2. ASSUME NEW y \in below, NEW z \in S, z <= y
          PROVE  z \in below
        <3>1. y \in T /\ y < x /\ x \in Nat /\ y \in Nat /\ z \in Nat
            BY <1>4, <2>1
        <3> QED
            BY <2>1, <2>2, <3>1
    <2>3. below \in SUBSET (S \cap 1 .. n)
        BY <2>1
    <2>4. below \in Closed
        BY <2>2, <2>3
    <2> QED
        BY <1>3, <1>4, <1>5, <2>4
<1>7. x \in S /\ \A y \in S : x <= y
    BY <1>4, <1>6
<1> QED
    BY <1>7 DEF Min

\* detect.ts: a reader is chosen by the bytes, of whatever file with whatever name
\* and type: the workbook readers only see the container they read, the text
\* reader never sees one, and the two checks never disagree on the format.
THEOREM EveryReaderMatchesItsBytes ==
    \A f \in FileCases : ReaderMatchesBytes(f, CheckFileContent(f))
<1> SUFFICES ASSUME NEW f \in FileCases PROVE ReaderMatchesBytes(f, CheckFileContent(f))
    OBVIOUS
<1>1. /\ Signed(f) = "xlsx" <=> f.magic = "zip"
      /\ Signed(f) = "xls" <=> f.magic = "ole2"
      /\ Signed(f) \in {"", "xlsx", "xls"}
    BY DEF Signed
<1>2. \/ CheckFileContent(f).ok = FALSE
      \/ /\ CheckFileContent(f) = Accepted(f.ext)
         /\ Signed(f) = f.ext \/ (Signed(f) = "" /\ f.ext \notin {"xlsx", "xls"})
    BY <1>1 DEF CheckFileContent, Refused
<1>3. CheckDeclaredFile(f) = Accepted(f.ext) \/ CheckDeclaredFile(f).ok = FALSE
    BY DEF CheckDeclaredFile, Refused
<1>4. Accepted(f.ext).ok = TRUE /\ Accepted(f.ext).format = f.ext
    BY DEF Accepted
<1> DEFINE checked == CheckFileContent(f)
           declared == CheckDeclaredFile(f)
<1> HIDE DEF checked, declared
<1>5. checked.ok => (checked.format = "xlsx" <=> f.magic = "zip") /\ (checked.format = "xls" <=> f.magic = "ole2")
    BY <1>1, <1>2, <1>4 DEF checked
<1>6. checked.ok /\ declared.ok => declared.format = checked.format
    BY <1>2, <1>3, <1>4 DEF checked, declared
<1> QED
    BY <1>5, <1>6 DEF ReaderMatchesBytes, checked, declared

\* What a column of a mapping may be sent to, and the columns it may number.
TargetsOf(Labels, Keys) == {Ignore} \cup {FieldTarget(f) : f \in Labels} \cup {CustomTarget(k) : k \in Keys}
ColumnsOf(Labels, Keys) == [index : Nat \ {0}, target : TargetsOf(Labels, Keys)]

\* A target is told by its kind and what it names.
LEMMA TargetsAreTold ==
    ASSUME NEW Labels, NEW Keys, NEW columns \in Seq(ColumnsOf(Labels, Keys)), NEW k \in DOMAIN columns
    PROVE  LET t == columns[k].target IN
           /\ columns[k].index \in Nat \ {0}
           /\ t.kind = "field" => t = FieldTarget(t.field) /\ t # Ignore
           /\ t.kind = "custom" => t = CustomTarget(t.key) /\ t # Ignore
           /\ t = FieldTarget("email") => t.kind = "field" /\ t.field = "email"
<1>1. columns[k] \in ColumnsOf(Labels, Keys)
    OBVIOUS
<1>2. columns[k].index \in Nat \ {0} /\ columns[k].target \in TargetsOf(Labels, Keys)
    BY <1>1 DEF ColumnsOf
<1> QED
    BY <1>2 DEF TargetsOf, Ignore, FieldTarget, CustomTarget

\* What validateMapping lets through: columns of the file, none sent where an
\* earlier one went, one of them the address.
LEMMA AcceptedMapping ==
    ASSUME NEW Labels, NEW Keys, NEW columns \in Seq(ColumnsOf(Labels, Keys)), NEW width \in Nat,
           ValidateMapping(columns, width) = "none"
    PROVE  /\ \A k \in DOMAIN columns : columns[k].index \in 1 .. width
           /\ \A j, k \in DOMAIN columns :
                columns[j].target = columns[k].target /\ columns[k].target # Ignore => j = k
           /\ \E k \in DOMAIN columns : columns[k].target = FieldTarget("email")
<1> DEFINE bad == {k \in DOMAIN columns : ColumnProblem(columns, k, width) # "none"}
<1>1. bad = {} /\ \E k \in DOMAIN columns : columns[k].target = FieldTarget("email")
    <2>1. ASSUME bad # {} PROVE FALSE
        <3>1. bad \in SUBSET (Nat \ {0})
            OBVIOUS
        <3>2. Min(bad) \in bad
            BY <2>1, <3>1, LeastOfSome
        <3>3. ValidateMapping(columns, width) = ColumnProblem(columns, Min(bad), width)
            BY <2>1 DEF ValidateMapping
        <3> QED
            BY <3>2, <3>3
    <2> QED
        BY <2>1 DEF ValidateMapping
<1>2. ASSUME NEW k \in DOMAIN columns
      PROVE  columns[k].index \in 1 .. width /\ ~Repeats(columns, k)
    <2>1. ColumnProblem(columns, k, width) = "none"
        BY <1>1
    <2>2. columns[k].index \in Nat \ {0}
        BY TargetsAreTold
    <2>3. ~(columns[k].index > width)
        BY <2>1 DEF ColumnProblem
    <2>4. ~Repeats(columns, k)
        BY <2>1, <2>3 DEF ColumnProblem
    <2> QED
        BY <2>2, <2>3, <2>4
<1>3. ASSUME NEW j \in DOMAIN columns, NEW k \in DOMAIN columns, j < k,
             columns[j].target = columns[k].target, columns[k].target # Ignore
      PROVE  FALSE
    <2>1. j \in 1 .. (k - 1)
        BY <1>3
    <2> QED
        BY <1>2, <1>3, <2>1 DEF Repeats
<1>4. \A j, k \in DOMAIN columns : columns[j].target = columns[k].target /\ columns[k].target # Ignore => j = k
    <2>1. \A k \in DOMAIN columns : k \in Nat
        OBVIOUS
    <2> QED
        BY <1>3, <2>1
<1> QED
    BY <1>1, <1>2, <1>4

\* mapping.ts, classify.ts: of any mapping that is accepted, for a file of any
\* width, the runner takes one column of the file for each contact field and
\* custom key, and no row without an address goes on to the database.
THEOREM EveryAcceptedMappingIsUsable ==
    ASSUME NEW Labels, NEW Keys, NEW columns \in Seq(ColumnsOf(Labels, Keys)), NEW Texts, NEW row \in Seq(Texts)
    PROVE  AcceptedMappingIsUsable(columns, row)
<1> DEFINE of(kind) == {k \in DOMAIN columns : columns[k].target.kind = kind}
           emails == {k \in of("field") : columns[k].target.field = "email"}
           mapping == CompileMapping(columns)
           feeds == mapping.fields \cup {<<mapping.email, "email">>}
<1> SUFFICES ASSUME ValidateMapping(columns, Len(row)) = "none"
             PROVE  /\ \A x \in feeds : x[1] \in 1 .. Len(row)
                    /\ \A x \in mapping.custom : x[1] \in 1 .. Len(row)
                    /\ \A x, y \in feeds : x[2] = y[2] => x = y
                    /\ \A x, y \in mapping.custom : x[2] = y[2] => x = y
                    /\ ClassifyRow(row, mapping) = "candidate" => row[mapping.email] = Address
    BY DEF AcceptedMappingIsUsable
<1>1. /\ \A k \in DOMAIN columns : columns[k].index \in 1 .. Len(row)
      /\ \A j, k \in DOMAIN columns : columns[j].target = columns[k].target /\ columns[k].target # Ignore => j = k
      /\ \E k \in DOMAIN columns : columns[k].target = FieldTarget("email")
    <2>1. Len(row) \in Nat
        OBVIOUS
    <2> DEFINE width == Len(row)
    <2> HIDE DEF width
    <2>2. ValidateMapping(columns, width) = "none" /\ width \in Nat
        BY <2>1 DEF width
    <2>3. /\ \A k \in DOMAIN columns : columns[k].index \in 1 .. width
          /\ \A j, k \in DOMAIN columns :
               columns[j].target = columns[k].target /\ columns[k].target # Ignore => j = k
          /\ \E k \in DOMAIN columns : columns[k].target = FieldTarget("email")
        BY <2>2, AcceptedMapping
    <2> QED
        BY <2>3 DEF width
<1>2. \A k \in DOMAIN columns :
        /\ columns[k].target.kind = "field" =>
             columns[k].target = FieldTarget(columns[k].target.field) /\ columns[k].target # Ignore
        /\ columns[k].target.kind = "custom" =>
             columns[k].target = CustomTarget(columns[k].target.key) /\ columns[k].target # Ignore
    BY TargetsAreTold
<1>3. PICK e \in DOMAIN columns : emails = {e}
    <2>1. PICK e \in DOMAIN columns : columns[e].target = FieldTarget("email")
        BY <1>1
    <2>2. \A k \in emails : columns[k].target = FieldTarget("email") /\ columns[k].target # Ignore
        BY <1>2
    <2>3. e \in emails
        BY <2>1, TargetsAreTold
    <2>4. emails \subseteq DOMAIN columns
        OBVIOUS
    <2> HIDE DEF emails
    <2> QED
        BY <1>1, <2>1, <2>2, <2>3, <2>4
<1>4. /\ mapping.email = columns[e].index
      /\ mapping.fields = {<<columns[k].index, columns[k].target.field>> : k \in of("field") \ {e}}
      /\ mapping.custom = {<<columns[k].index, columns[k].target.key>> : k \in of("custom")}
    <2>1. Min({e}) = e
        <3>1. e \in Nat \ {0}
            OBVIOUS
        <3>2. {e} \in SUBSET (Nat \ {0}) /\ {e} # {}
            BY <3>1
        <3> QED
            BY <3>2, LeastOfSome
    <2>2. mapping = [email |-> IF emails = {} THEN 0 ELSE columns[Min(emails)].index,
                     fields |-> {<<columns[k].index, columns[k].target.field>> : k \in of("field") \ emails},
                     custom |-> {<<columns[k].index, columns[k].target.key>> : k \in of("custom")}]
        BY DEF CompileMapping
    <2> HIDE DEF mapping, of, emails
    <2> QED
        BY <1>3, <2>1, <2>2
<1>5. e \in emails /\ columns[e].target.kind = "field" /\ columns[e].target.field = "email"
    <2>1. e \in emails
        BY <1>3
    <2> QED
        BY <2>1
<1>6. \A x \in feeds : \E k \in DOMAIN columns :
        /\ x = <<columns[k].index, columns[k].target.field>> /\ columns[k].target.kind = "field"
    BY <1>4, <1>5
<1>7. \A x \in mapping.custom : \E k \in DOMAIN columns :
        /\ x = <<columns[k].index, columns[k].target.key>> /\ columns[k].target.kind = "custom"
    BY <1>4
<1> HIDE DEF mapping, feeds, emails, of
<1>8. ASSUME NEW x \in feeds, NEW y \in feeds, x[2] = y[2] PROVE x = y
    <2>1. PICK j \in DOMAIN columns :
            x = <<columns[j].index, columns[j].target.field>> /\ columns[j].target.kind = "field"
        BY <1>6
    <2>2. PICK k \in DOMAIN columns :
            y = <<columns[k].index, columns[k].target.field>> /\ columns[k].target.kind = "field"
        BY <1>6
    <2>3. columns[j].target.field = columns[k].target.field
        BY <1>8, <2>1, <2>2
    <2>4. columns[j].target = columns[k].target /\ columns[k].target # Ignore
        BY <1>2, <2>1, <2>2, <2>3, Zenon
    <2> QED
        BY <1>1, <2>1, <2>2, <2>4
<1>9. ASSUME NEW x \in mapping.custom, NEW y \in mapping.custom, x[2] = y[2] PROVE x = y
    <2>1. PICK j \in DOMAIN columns :
            x = <<columns[j].index, columns[j].target.key>> /\ columns[j].target.kind = "custom"
        BY <1>7
    <2>2. PICK k \in DOMAIN columns :
            y = <<columns[k].index, columns[k].target.key>> /\ columns[k].target.kind = "custom"
        BY <1>7
    <2>3. columns[j].target.key = columns[k].target.key
        BY <1>9, <2>1, <2>2
    <2>4. columns[j].target = columns[k].target /\ columns[k].target # Ignore
        BY <1>2, <2>1, <2>2, <2>3, Zenon
    <2> QED
        BY <1>1, <2>1, <2>2, <2>4
<1>10. ClassifyRow(row, mapping) = "candidate" => row[mapping.email] = Address
    <2>1. mapping.email \in DOMAIN row
        BY <1>1, <1>4
    <2>2. ClassifyRow(row, mapping) = "candidate" => Cell(row, mapping.email) = Address
        BY DEF ClassifyRow
    <2> QED
        BY <2>1, <2>2 DEF Cell
<1> QED
    BY <1>1, <1>6, <1>7, <1>8, <1>9, <1>10, SMTT(30)
=============================================================================
