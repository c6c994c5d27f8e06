---------------------- MODULE CampaignLifecycleProofs ----------------------
(***************************************************************************)
(* A campaign is launched once, on time and as it was approved, for any    *)
(* number of requests and ticks, any grace window and any setups.          *)
(***************************************************************************)
EXTENDS CampaignLifecycle, TLAPS

\* Every write keeps the row typed, and a refused one keeps it as it is.
LEMMA StoredTyped ==
    ASSUME NEW new \in Row
    PROVE  Stored(new) \in Row
BY DEF Stored, Row

\* The row of a new campaign is typed.
LEMMA NewRowTyped == NewRow \in Row
BY BoundsPositive DEF NewRow, Row, Status, Time, Never

\* A write that only moves the status, and not into a schedule, a launch or a
\* deletion, keeps what was approved: the trigger lets no launched campaign
\* become a draft and none that never launched go on sending.
LEMMA MoveStep ==
    ASSUME LifecycleTypeOK, LaunchedAsApproved, LaunchIsHistory,
           NEW s \in Status \ {"scheduled", "queued", "deleted"},
           Write(Moved(s)), UNCHANGED agreed
    PROVE  row' \in Row /\ row'.at = row.at /\ LaunchedAsApproved' /\ LaunchIsHistory' /\ ScheduledHasTime'
<1>1. Moved(s) \in Row /\ row \in Row
    BY DEF LifecycleTypeOK, Moved, Row
<1>2. row' = Stored(Moved(s)) /\ TriggerAllows(row, Stored(Moved(s)))
    BY DEF Write
<1>3. row' \in Row /\ row'.at = row.at /\ row'.status = s /\ row'.mode = row.mode
    BY <1>1, <1>2, StoredTyped, ZenonT(60) DEF Moved, Stored, Row
<1>4. s # "draft" => Approved(row') = Approved(row)
    BY <1>1, <1>2 DEF Moved, Stored, Row, Approved
<1>5. s # row.status => s \in Transitions[row.status]
    BY <1>2, <1>3 DEF TriggerAllows
<1>6. /\ row.status = "paused" /\ s = "draft"   => ~Launched(row)
      /\ row.status = "paused" /\ s = "sending" => Launched(row)
    BY <1>2, <1>3 DEF TriggerAllows
<1>7. LaunchIsHistory'
    BY <1>1, <1>3, <1>5, <1>6 DEF LaunchIsHistory, Launched, Transitions, Row, Status
<1>8. LaunchedAsApproved'
    BY <1>1, <1>3, <1>4, <1>5, <1>6, <1>7
    DEF LaunchedAsApproved, LaunchIsHistory, Launched, Transitions, Row, Status
<1>9. QED BY <1>3, <1>7, <1>8 DEF ScheduledHasTime

\* A step that is no tick's may touch what a tick met, and nothing else of it.
TicksKeepPlace ==
    /\ tick' \in [Ticks -> [pc : TickPcs, mode : Modes \cup {"none"}, saw : Row, aged : BOOLEAN,
                           met : SUBSET Sessions, overtaken : BOOLEAN]]
    /\ \A t \in Ticks : /\ tick'[t].pc = tick[t].pc /\ tick'[t].mode = tick[t].mode
                        /\ tick'[t].saw = tick[t].saw /\ tick'[t].aged = tick[t].aged

LEMMA SameTicks ==
    ASSUME LifecycleTypeOK, UNCHANGED tick
    PROVE  TicksKeepPlace
BY DEF LifecycleTypeOK, TicksKeepPlace

LEMMA MetChanges ==
    ASSUME LifecycleTypeOK, NEW M \in [Ticks -> SUBSET Sessions],
           tick' = [t \in Ticks |-> [tick[t] EXCEPT !.met = M[t]]]
    PROVE  TicksKeepPlace
<1>1. ASSUME NEW t \in Ticks
      PROVE  /\ tick'[t] \in [pc : TickPcs, mode : Modes \cup {"none"}, saw : Row, aged : BOOLEAN,
                              met : SUBSET Sessions, overtaken : BOOLEAN]
             /\ tick'[t].pc = tick[t].pc /\ tick'[t].mode = tick[t].mode
             /\ tick'[t].saw = tick[t].saw /\ tick'[t].aged = tick[t].aged
    <2> DEFINE m == M[t]
    <2>1. tick'[t] = [tick[t] EXCEPT !.met = m] /\ m \in SUBSET Sessions
        OBVIOUS
    <2>2. tick[t] \in [pc : TickPcs, mode : Modes \cup {"none"}, saw : Row, aged : BOOLEAN,
                       met : SUBSET Sessions, overtaken : BOOLEAN]
        BY DEF LifecycleTypeOK
    <2> HIDE DEF m
    <2> QED
        BY <2>1, <2>2
<1> QED
    BY <1>1 DEF TicksKeepPlace

LEMMA OvertakingChanges ==
    ASSUME LifecycleTypeOK, NEW O \in [Ticks -> BOOLEAN],
           tick' = [t \in Ticks |-> [tick[t] EXCEPT !.overtaken = O[t]]]
    PROVE  TicksKeepPlace
<1>1. ASSUME NEW t \in Ticks
      PROVE  /\ tick'[t] \in [pc : TickPcs, mode : Modes \cup {"none"}, saw : Row, aged : BOOLEAN,
                              met : SUBSET Sessions, overtaken : BOOLEAN]
             /\ tick'[t].pc = tick[t].pc /\ tick'[t].mode = tick[t].mode
             /\ tick'[t].saw = tick[t].saw /\ tick'[t].aged = tick[t].aged
    <2> DEFINE o == O[t]
    <2>1. tick'[t] = [tick[t] EXCEPT !.overtaken = o] /\ o \in BOOLEAN
        OBVIOUS
    <2>2. tick[t] \in [pc : TickPcs, mode : Modes \cup {"none"}, saw : Row, aged : BOOLEAN,
                       met : SUBSET Sessions, overtaken : BOOLEAN]
        BY DEF LifecycleTypeOK
    <2> HIDE DEF o
    <2> QED
        BY <2>1, <2>2
<1> QED
    BY <1>1 DEF TicksKeepPlace

\* What a step about the row leaves alone keeps its part of the invariant.
LEMMA OthersUnchanged ==
    ASSUME LifecycleIInv, row' \in Row, agreed' \in Row, row'.at = row.at,
           LaunchedAsApproved', LaunchIsHistory', ScheduledHasTime',
           session' \in [Sessions -> [pc : SessionPcs, intent : {"check", "schedule"},
                                      mode : Modes \cup {"disabled"},
                                      saw : Setups \cup {"none"}, at : Time \cup {Never}]],
           TicksKeepPlace, UNCHANGED env
    PROVE  LifecycleIInv'
BY DEF LifecycleIInv, LifecycleTypeOK, TickSawDue, TicksKeepPlace, env

\* So does a step that leaves the row alone.
LEMMA RowUnchanged ==
    ASSUME LifecycleIInv, UNCHANGED <<row, agreed>>,
           session' \in [Sessions -> [pc : SessionPcs, intent : {"check", "schedule"},
                                      mode : Modes \cup {"disabled"},
                                      saw : Setups \cup {"none"}, at : Time \cup {Never}]],
           TicksKeepPlace, UNCHANGED env
    PROVE  LifecycleIInv'
BY OthersUnchanged
DEF LifecycleIInv, LifecycleTypeOK, LaunchedAsApproved, LaunchIsHistory, ScheduledHasTime

\* A new campaign satisfies the invariant.
LEMMA InitInv == Init => LifecycleIInv
<1> SUFFICES ASSUME Init PROVE LifecycleIInv
    OBVIOUS
<1>1. LifecycleTypeOK
    BY NewRowTyped, BoundsPositive
    DEF Init, LifecycleTypeOK, Idle, Resting, SessionPcs, TickPcs, Time, Modes
<1>2. LaunchedAsApproved /\ LaunchIsHistory /\ ScheduledHasTime
    BY DEF Init, LaunchedAsApproved, LaunchIsHistory, ScheduledHasTime, Launched, NewRow
<1>3. TickSawDue
    BY DEF Init, TickSawDue, Resting
<1>4. QED BY <1>1, <1>2, <1>3 DEF LifecycleIInv

\* A member's statement: only an edit changes the schedule, and to a time that
\* is not yet due; only an unscheduling makes a draft again.
LEMMA MemberStep ==
    ASSUME LifecycleIInv,
           \/ \E setup \in Setups \cup {"none"}, at \in Schedules : Edit(setup, at)
           \/ Unschedule \/ Cancel \/ Delete \/ PauseSending
    PROVE  LifecycleIInv'
<1> USE BoundsPositive DEF LifecycleIInv, Launched
<1>0. row \in Row /\ agreed \in Row
    BY DEF LifecycleTypeOK
<1>1. ASSUME NEW setup \in Setups \cup {"none"}, NEW at \in Schedules, Edit(setup, at)
      PROVE  LifecycleIInv'
    <2> DEFINE new == [row EXCEPT !.setup = setup, !.at = at]
    <2>1. /\ row' = Stored(new)
          /\ row.status \in Editable
          /\ at = row.at \/ at = Never \/ at >= now + Lead
          /\ UNCHANGED <<agreed, session, tick, env>>
        BY <1>1 DEF Edit, Write
    <2>2. at \in Time \cup {Never}
        BY DEF Schedules, Time, Never, LifecycleTypeOK, Row
    <2>3. new \in Row
        BY <2>2 DEF LifecycleTypeOK, Row
    <2>4. LifecycleTypeOK'
        BY <2>1, <2>3, StoredTyped DEF LifecycleTypeOK, env
    <2>5. row'.status = row.status /\ row'.mode = row.mode /\ row'.at = at
        BY <2>1 DEF Stored, LifecycleTypeOK, Row
    <2>6. LaunchedAsApproved' /\ LaunchIsHistory' /\ ScheduledHasTime'
        BY <2>1, <2>5 DEF LaunchedAsApproved, LaunchIsHistory, ScheduledHasTime, Editable
    <2>7. TickSawDue'
        <3>1. now \in Nat /\ (row.at = Never \/ row.at \in Nat) /\ (at = Never \/ at \in Nat)
            BY <2>2 DEF LifecycleTypeOK, Row, Time
        <3>2. QED BY <2>1, <2>5, <3>1 DEF TickSawDue, env, Never
    <2>8. QED BY <2>4, <2>6, <2>7
<1>2. CASE Unschedule
    <2> DEFINE new == [row EXCEPT !.status = "draft", !.frozen = "none"]
    <2>1. new \in Row
        BY DEF LifecycleTypeOK, Row, Status
    <2>2. row' = Stored(new) /\ TriggerAllows(row, Stored(new))
        BY <1>2 DEF Unschedule, Write
    <2>3. row' \in Row /\ row'.status = "draft" /\ row'.mode = row.mode /\ row'.at = row.at
        <3>1. new.status = "draft" /\ new.mode = row.mode /\ new.at = row.at
            BY <1>0 DEF Row
        <3>2. row' = [new EXCEPT !.approved = "none"]
            BY <2>2, <3>1 DEF Stored
        <3> HIDE DEF new
        <3>3. QED BY <2>1, <3>1, <3>2 DEF Row
    <2>4. ~Launched(row)
        BY <1>2, <2>2, <2>3 DEF Unschedule, TriggerAllows, LaunchIsHistory
    <2>5. LifecycleTypeOK'
        BY <1>2, <2>3, NewRowTyped DEF LifecycleTypeOK, Unschedule, env
    <2>6. LaunchedAsApproved' /\ LaunchIsHistory' /\ ScheduledHasTime'
        BY <2>3, <2>4 DEF LaunchedAsApproved, LaunchIsHistory, ScheduledHasTime
    <2>7. TickSawDue'
        BY <1>2, <2>3 DEF TickSawDue, Unschedule, env
    <2>8. QED BY <2>5, <2>6, <2>7
<1>3. CASE Cancel \/ PauseSending
    <2>1. PICK s \in {"cancelled", "paused"} : Write(Moved(s))
        BY <1>3 DEF Cancel, PauseSending
    <2>2. UNCHANGED <<agreed, session, tick, env>>
        BY <1>3 DEF Cancel, PauseSending
    <2>3. s \in Status \ {"scheduled", "queued", "deleted"}
        BY DEF Status
    <2>4. row' \in Row /\ row'.at = row.at /\ LaunchedAsApproved' /\ LaunchIsHistory' /\ ScheduledHasTime'
        BY <2>1, <2>2, <2>3, MoveStep
    <2>5. QED BY <1>0, <2>2, <2>4, SameTicks, OthersUnchanged DEF LifecycleTypeOK
<1>4. CASE Delete
    <2>1. row' \in Row /\ row'.status = "deleted" /\ row'.mode = "none" /\ row'.at = row.at
        BY <1>0, <1>4 DEF Delete, Moved, Row, Status
    <2>2. LaunchedAsApproved' /\ LaunchIsHistory' /\ ScheduledHasTime'
        BY <2>1 DEF LaunchedAsApproved, LaunchIsHistory, ScheduledHasTime
    <2>3. UNCHANGED <<agreed, session, tick, env>>
        BY <1>4 DEF Delete
    <2>4. QED BY <1>0, <2>1, <2>2, <2>3, SameTicks, OthersUnchanged DEF LifecycleTypeOK
<1>5. QED BY <1>1, <1>2, <1>3, <1>4

\* An admin's request: what it froze is what the invariant remembers, and a
\* campaign that is being prepared has not been launched.
LEMMA SessionStep ==
    ASSUME LifecycleIInv, NEW s \in Sessions,
           \/ \E intent \in {"check", "schedule"} : BeginPreflight(s, intent)
           \/ Judge(s) \/ Reject(s) \/ Freeze(s)
           \/ BeginResume(s) \/ Resume(s) \/ SessionDies(s)
    PROVE  LifecycleIInv'
<1> USE DEF LifecycleIInv
<1> DEFINE Session == [pc : SessionPcs, intent : {"check", "schedule"}, mode : Modes \cup {"disabled"},
                       saw : Setups \cup {"none"}, at : Time \cup {Never}]
<1>1. session' \in [Sessions -> Session]
    <2>1. Idle \in Session
        BY BoundsPositive DEF Idle, SessionPcs, Time, Never, Modes
    <2>2. ASSUME NEW pc \in SessionPcs PROVE [session EXCEPT ![s].pc = pc] \in [Sessions -> Session]
        BY DEF LifecycleTypeOK
    <2>3. CASE \E intent \in {"check", "schedule"} : BeginPreflight(s, intent)
        <3>1. row.setup \in Setups \cup {"none"} /\ row.at \in Time \cup {Never}
            BY DEF LifecycleTypeOK, Row
        <3>2. Mode(deployed) \in Modes \cup {"disabled"}
            BY DEF LifecycleTypeOK, Deployments, Modes, Mode
        <3>3. QED BY <2>3, <3>1, <3>2 DEF BeginPreflight, LifecycleTypeOK, SessionPcs
    <2>4. CASE Judge(s) \/ Reject(s) \/ Freeze(s) \/ BeginResume(s) \/ Resume(s) \/ SessionDies(s)
        <3>1. [session EXCEPT ![s] = Idle] \in [Sessions -> Session]
            BY <2>1 DEF LifecycleTypeOK
        <3>2. \/ session' = [session EXCEPT ![s] = Idle]
              \/ \E pc \in SessionPcs : session' = [session EXCEPT ![s].pc = pc]
            BY <2>4 DEF Judge, Reject, Freeze, BeginResume, Resume, SessionDies, Goes, Ends, SessionPcs
        <3>3. QED BY <2>2, <3>1, <3>2
    <2>5. QED BY <2>3, <2>4
<1>2. TicksKeepPlace /\ UNCHANGED env
    <2>1. CASE \E intent \in {"check", "schedule"} : BeginPreflight(s, intent)
        <3>1. /\ tick' = [t \in Ticks |-> [tick[t] EXCEPT !.met = @ \ {s}]]
              /\ UNCHANGED env
            BY <2>1 DEF BeginPreflight
        <3> DEFINE M == [t \in Ticks |-> tick[t].met \ {s}]
        <3>2. M \in [Ticks -> SUBSET Sessions]
            BY DEF LifecycleTypeOK
        <3>3. tick' = [t \in Ticks |-> [tick[t] EXCEPT !.met = M[t]]]
            BY <3>1
        <3> QED
            BY <3>1, <3>2, <3>3, MetChanges
    <2>2. CASE Freeze(s)
        <3>1. /\ tick' = [t \in Ticks |-> [tick[t] EXCEPT !.overtaken = @ \/ (row' # row /\ s \in tick[t].met)]]
              /\ UNCHANGED env
            BY <2>2 DEF Freeze
        <3> DEFINE O == [t \in Ticks |-> tick[t].overtaken \/ (row' # row /\ s \in tick[t].met)]
        <3>2. O \in [Ticks -> BOOLEAN]
            BY Zenon DEF LifecycleTypeOK
        <3>3. tick' = [t \in Ticks |-> [tick[t] EXCEPT !.overtaken = O[t]]]
            BY <3>1
        <3> QED
            BY <3>1, <3>2, <3>3, OvertakingChanges
    <2>3. CASE Judge(s) \/ Reject(s) \/ BeginResume(s) \/ Resume(s) \/ SessionDies(s)
        BY <2>3, SameTicks DEF Judge, Reject, BeginResume, Resume, SessionDies
    <2> QED
        BY <2>1, <2>2, <2>3
<1>3. CASE Freeze(s)
    <2> DEFINE new == [row EXCEPT !.status = "scheduled", !.frozen = session[s].saw,
                                  !.approved = session[s].mode]
    <2>1. new \in Row /\ Stored(new) = new
        <3>1. session[s].saw \in Setups \cup {"none"} /\ session[s].mode \in Modes \cup {"disabled"}
            BY DEF LifecycleTypeOK
        <3>2. row \in Row
            BY DEF LifecycleTypeOK
        <3>3. QED BY <3>1, <3>2 DEF Row, Status, Stored
    <2>2. CASE UNCHANGED row
        <3>1. UNCHANGED agreed
            BY <1>3, <2>2 DEF Freeze
        <3>2. QED BY <1>1, <1>2, <2>2, <3>1, RowUnchanged
    <2>3. CASE ~UNCHANGED row
        <3>1. row.status = "validating" /\ row' = new /\ agreed' = row' /\ TriggerAllows(row, new)
            BY <1>3, <2>1, <2>3 DEF Freeze, IfStill
        <3>2. row' \in Row /\ row'.status = "scheduled" /\ row'.mode = row.mode /\ row'.at = row.at
            BY <2>1, <3>1 DEF LifecycleTypeOK, Row
        <3>3. row'.mode = "none"
            BY <3>1, <3>2 DEF LaunchIsHistory, Launched
        <3>4. Approved(row') = agreed'
            BY <3>1, <3>2, <3>3 DEF Approved, Row
        <3>5. LaunchedAsApproved' /\ LaunchIsHistory' /\ ScheduledHasTime'
            BY <3>1, <3>2, <3>3, <3>4
            DEF LaunchedAsApproved, LaunchIsHistory, Launched, ScheduledHasTime, TriggerAllows
        <3>6. LifecycleTypeOK'
            BY <1>1, <1>2, <3>1, <3>2 DEF LifecycleTypeOK, TicksKeepPlace, env
        <3>7. TickSawDue'
            BY <1>2, <3>2 DEF TickSawDue, TicksKeepPlace, env
        <3>8. QED BY <3>5, <3>6, <3>7
    <2>4. QED BY <2>2, <2>3
<1>4. CASE \/ \E intent \in {"check", "schedule"} : BeginPreflight(s, intent)
           \/ Judge(s) \/ Reject(s) \/ BeginResume(s) \/ Resume(s) \/ SessionDies(s)
    <2>1. UNCHANGED agreed
        BY <1>4 DEF BeginPreflight, Judge, Reject, BeginResume, Resume, SessionDies
    <2>2. \/ UNCHANGED row
          \/ \E to \in {"validating", "draft", "sending"} : Write(Moved(to))
        BY <1>4 DEF BeginPreflight, Judge, Reject, BeginResume, Resume, SessionDies, IfStill, Write
    <2>3. CASE UNCHANGED row
        BY <1>1, <1>2, <2>1, <2>3, RowUnchanged
    <2>4. ASSUME NEW to \in {"validating", "draft", "sending"}, Write(Moved(to))
          PROVE  LifecycleIInv'
        <3>1. to \in Status \ {"scheduled", "queued", "deleted"}
            BY DEF Status
        <3>2. row' \in Row /\ row'.at = row.at /\ LaunchedAsApproved' /\ LaunchIsHistory' /\ ScheduledHasTime'
            BY <2>1, <2>4, <3>1, MoveStep
        <3>3. agreed' \in Row
            BY <2>1 DEF LifecycleTypeOK
        <3>4. QED BY <1>1, <1>2, <3>2, <3>3, OthersUnchanged
    <2>5. QED BY <2>2, <2>3, <2>4
<1>5. QED BY <1>3, <1>4

\* A tick's step: a tick that listed the campaign as due is at most one unit
\* older when it launches it, and the trigger checks the approval again.
LEMMA TickStep ==
    ASSUME LifecycleIInv, NEW t \in Ticks, TickSteps(t) \/ Work(t) \/ TickDies(t)
    PROVE  LifecycleIInv'
<1> USE DEF LifecycleIInv
<1> DEFINE Tick == [pc : TickPcs, mode : Modes \cup {"none"}, saw : Row, aged : BOOLEAN,
                    met : SUBSET Sessions, overtaken : BOOLEAN]
<1>1. /\ row \in Row /\ agreed \in Row /\ tick \in [Ticks -> Tick]
      /\ now \in Nat /\ (row.at = Never \/ row.at \in Nat)
    BY DEF LifecycleTypeOK, Row, Time
<1>2. UNCHANGED <<agreed, session, deployed, now>>
    BY DEF TickSteps, TickStarts, HoldMissed, ListDue, LoadContext, RefuseLaunch, Promote,
           ListActive, TickEnds, Work, TickDies, env
<1>3. faults' \in 0 .. MaxFaults
    BY BoundsPositive DEF LifecycleTypeOK, TickSteps, TickStarts, HoldMissed, ListDue, LoadContext,
           RefuseLaunch, Promote, ListActive, TickEnds, Work, TickDies, env
<1>4. tick' \in [Ticks -> Tick]
    <2>1. Resting \in Tick
        BY NewRowTyped DEF Resting, TickPcs
    <2>2. LaunchMode(deployed) \in Modes \cup {"none"}
        BY DEF LaunchMode
    <2>3. \A x \in Tick : [tick EXCEPT ![t] = x] \in [Ticks -> Tick]
        BY <1>1
    <2>4. [Resting EXCEPT !.pc = "hold", !.mode = LaunchMode(deployed)] \in Tick
        BY <2>2, NewRowTyped DEF Resting, TickPcs
    <2>5. \A pc \in TickPcs : [tick EXCEPT ![t].pc = pc] \in [Ticks -> Tick]
        BY <1>1
    <2>6. [Resting EXCEPT !.pc = "active", !.aged = tick[t].aged] \in Tick
        BY <1>1, NewRowTyped DEF Resting, TickPcs
    <2>7. [tick[t] EXCEPT !.pc = "launch", !.saw = row, !.met = {s \in Sessions : Scheduling(s)}] \in Tick
        BY <1>1 DEF TickPcs
    <2>8. \/ UNCHANGED tick
          \/ Proceeds(t) \/ Rests(t)
          \/ \E pc \in TickPcs : Steps(t, pc)
          \/ tick' = [tick EXCEPT ![t] = [Resting EXCEPT !.pc = "hold", !.mode = LaunchMode(deployed)]]
          \/ tick' = [tick EXCEPT ![t] =
                 [tick[t] EXCEPT !.pc = "launch", !.saw = row, !.met = {s \in Sessions : Scheduling(s)}]]
        BY DEF TickSteps, TickStarts, HoldMissed, ListDue, LoadContext, RefuseLaunch, Promote,
               ListActive, TickEnds, Work, TickDies, TickPcs
    <2> HIDE DEF Tick
    <2>9. QED BY <1>1, <2>1, <2>3, <2>4, <2>5, <2>6, <2>7, <2>8 DEF Proceeds, Rests, Steps
<1>5. row' \in Row /\ row'.at = row.at /\ LaunchedAsApproved' /\ LaunchIsHistory' /\ ScheduledHasTime'
    <2>1. CASE UNCHANGED row
        BY <1>1, <1>2, <2>1 DEF LaunchedAsApproved, LaunchIsHistory, ScheduledHasTime
    <2>2. ASSUME NEW s \in {"paused", "sending", "completed", "failed"}, Write(Moved(s))
          PROVE  row' \in Row /\ row'.at = row.at /\ LaunchedAsApproved' /\ LaunchIsHistory' /\ ScheduledHasTime'
        <3>1. s \in Status \ {"scheduled", "queued", "deleted"}
            BY DEF Status
        <3>2. QED BY <1>2, <2>2, <3>1, MoveStep
    <2>3. CASE Promote(t) /\ ~UNCHANGED row
        <3> DEFINE new == [row EXCEPT !.status = "queued", !.mode = tick[t].mode]
        <3>1. tick[t].mode \in Modes
            BY <2>3 DEF Promote, TickSawDue
        <3>2. row.status = "scheduled" /\ row.approved = tick[t].mode /\ row' = Stored(new)
            BY <2>3 DEF Promote, Launchable, Due, Write
        <3>3. new \in Row /\ Stored(new) = new
            BY <1>1, <3>1 DEF Row, Status, Stored
        <3>4. /\ row' \in Row /\ row'.at = row.at /\ row'.status = "queued"
              /\ row'.mode = tick[t].mode /\ Approved(row') = Approved(row)
              /\ row.approved = Approved(row).approved
            BY <1>1, <3>2, <3>3 DEF Row, Approved
        <3>5. Approved(row) = agreed
            BY <3>2 DEF LaunchedAsApproved
        <3>6. LaunchedAsApproved' /\ LaunchIsHistory' /\ ScheduledHasTime'
            BY <1>2, <3>1, <3>2, <3>4, <3>5 
            DEF LaunchedAsApproved, LaunchIsHistory, ScheduledHasTime, Launched, Modes
        <3>7. QED BY <3>4, <3>6
    <2>4. \/ UNCHANGED row
          \/ Promote(t)
          \/ \E s \in {"paused", "sending", "completed", "failed"} : Write(Moved(s))
        BY DEF TickSteps, TickStarts, HoldMissed, ListDue, LoadContext, RefuseLaunch, ListActive,
               TickEnds, Work, TickDies, IfStill, Write
    <2>5. QED BY <2>1, <2>2, <2>3, <2>4
<1>6. TickSawDue'
    <2>0. ASSUME Proceeds(t), UNCHANGED now PROVE TickSawDue'
        <3>1. tick'[t].pc = "active"
            BY <1>1, <2>0 DEF Proceeds, Resting
        <3>2. \A u \in Ticks \ {t} : tick'[u] = tick[u]
            BY <1>1, <2>0 DEF Proceeds
        <3>3. QED BY <1>5, <2>0, <3>1, <3>2 DEF TickSawDue
    <2>1. CASE TickStarts(t)
        BY <1>1, <1>2, <1>5, <2>1 DEF TickStarts, TickSawDue, Resting
    <2>2. CASE HoldMissed(t)
        BY <1>1, <1>2, <1>5, <2>2 DEF HoldMissed, TickSawDue, Steps
    <2>3. CASE ListDue(t)
        BY <1>1, <1>2, <1>5, <2>0, <2>3, BoundsPositive DEF ListDue, TickSawDue, Steps, Due, Missed
    <2>4. CASE LoadContext(t)
        <3>1. CASE Proceeds(t)
            BY <1>2, <2>0, <3>1
        <3>2. ASSUME NEW to \in Tick, to.pc \in {"refuse", "launch"}, to.mode = tick[t].mode,
                     to.aged = tick[t].aged, tick' = [tick EXCEPT ![t] = to]
              PROVE  TickSawDue'
            <4>1. tick'[t] = to /\ \A u \in Ticks \ {t} : tick'[u] = tick[u]
                BY <1>1, <3>2
            <4>2. tick[t].pc = "load"
                BY <2>4 DEF LoadContext
            <4> QED
                BY <1>2, <1>5, <3>2, <4>1, <4>2 DEF TickSawDue
        <3> DEFINE launch == [tick[t] EXCEPT !.pc = "launch", !.saw = row, !.met = {s \in Sessions : Scheduling(s)}]
                   refuse == [tick[t] EXCEPT !.pc = "refuse"]
        <3>3. /\ launch \in Tick /\ launch.pc = "launch" /\ launch.mode = tick[t].mode /\ launch.aged = tick[t].aged
              /\ refuse \in Tick /\ refuse.pc = "refuse" /\ refuse.mode = tick[t].mode /\ refuse.aged = tick[t].aged
            BY <1>1 DEF TickPcs
        <3>4. \/ Proceeds(t)
              \/ tick' = [tick EXCEPT ![t] = launch]
              \/ tick' = [tick EXCEPT ![t] = refuse]
            BY <2>4 DEF LoadContext, Steps
        <3> HIDE DEF launch, refuse
        <3> QED
            BY <3>1, <3>2, <3>3, <3>4
    <2>5. CASE RefuseLaunch(t) \/ Promote(t)
        BY <1>2, <2>0, <2>5 DEF RefuseLaunch, Promote
    <2>6. CASE ListActive(t) \/ TickEnds(t) \/ Work(t) \/ TickDies(t)
        BY <1>1, <1>2, <1>5, <2>6
        DEF ListActive, TickEnds, Work, TickDies, TickSawDue, Steps, Rests, Resting
    <2>7. QED BY <2>1, <2>2, <2>3, <2>4, <2>5, <2>6 DEF TickSteps
<1>7. QED BY <1>2, <1>3, <1>4, <1>5, <1>6 DEF LifecycleTypeOK

\* Configuration changes and the clock: a tick sees the clock advance once.
LEMMA WorldStep ==
    ASSUME LifecycleIInv, Deploy \/ ClockAdvances
    PROVE  LifecycleIInv'
<1> USE BoundsPositive DEF LifecycleIInv
<1>1. CASE Deploy
    <2>1. LifecycleTypeOK'
        BY <1>1 DEF Deploy, LifecycleTypeOK
    <2>2. QED BY <1>1, <2>1 DEF Deploy, LaunchedAsApproved, LaunchIsHistory, ScheduledHasTime, TickSawDue
<1>2. CASE ClockAdvances
    <2>1. LifecycleTypeOK'
        <3>1. ASSUME NEW t \in Ticks
              PROVE  [tick[t] EXCEPT !.aged = tick[t].pc # "idle"]
                       \in [pc : TickPcs, mode : Modes \cup {"none"}, saw : Row, aged : BOOLEAN,
                            met : SUBSET Sessions, overtaken : BOOLEAN]
            <4>1. tick[t] \in [pc : TickPcs, mode : Modes \cup {"none"}, saw : Row, aged : BOOLEAN,
                               met : SUBSET Sessions, overtaken : BOOLEAN]
                BY DEF LifecycleTypeOK
            <4> HIDE DEF LifecycleIInv
            <4> QED BY <4>1
        <3>2. now' \in Time
            BY <1>2 DEF ClockAdvances, LifecycleTypeOK, Time
        <3>3. QED BY <1>2, <3>1, <3>2 DEF ClockAdvances, LifecycleTypeOK
    <2>2. LaunchedAsApproved' /\ LaunchIsHistory' /\ ScheduledHasTime'
        BY <1>2 DEF ClockAdvances, LaunchedAsApproved, LaunchIsHistory, ScheduledHasTime
    <2>3. now \in Nat /\ (row.at = Never \/ row.at \in Nat)
        BY DEF LifecycleTypeOK, Row, Time
    <2>4. \A t \in Ticks : /\ tick'[t].pc = tick[t].pc /\ tick'[t].mode = tick[t].mode
                           /\ tick'[t].aged = (tick[t].pc # "idle") /\ ~tick[t].aged
        BY <1>2 DEF ClockAdvances, LifecycleTypeOK
    <2>5. TickSawDue'
        <3>1. now' = now + 1 /\ UNCHANGED row
            BY <1>2 DEF ClockAdvances
        <3>2. ASSUME NEW t \in Ticks, tick[t].pc \in {"load", "refuse", "launch"}
              PROVE  \/ row.at = Never
                     \/ now + 1 < row.at + Grace
                     \/ tick'[t].aged /\ now + 1 = row.at + Grace
            <4>1. row.at = Never \/ now < row.at + Grace
                BY <2>4, <3>2 DEF TickSawDue
            <4>2. tick'[t].aged
                BY <2>4, <3>2
            <4>3. row.at = Never \/ now + 1 < row.at + Grace \/ now + 1 = row.at + Grace
                BY <2>3, <4>1
            <4>4. QED BY <4>2, <4>3
        <3>3. QED BY <2>4, <3>1, <3>2 DEF TickSawDue
    <2>6. QED BY <2>1, <2>2, <2>5
<1>3. QED BY <1>1, <1>2

\* Every step keeps the invariant.
LEMMA StepInv == LifecycleIInv /\ [Next]_vars => LifecycleIInv'
<1> SUFFICES ASSUME LifecycleIInv, [Next]_vars PROVE LifecycleIInv'
    OBVIOUS
<1>1. CASE Next
    BY <1>1, MemberStep, SessionStep, TickStep, WorldStep DEF Next
<1>2. CASE UNCHANGED vars
    BY <1>2 DEF vars, env, LifecycleIInv, LifecycleTypeOK, LaunchedAsApproved, LaunchIsHistory,
                ScheduledHasTime, TickSawDue
<1>3. QED BY <1>1, <1>2

\* The invariant holds in every reachable state.
THEOREM LifecycleInvariant == Spec => []LifecycleIInv
<1>1. QED BY InitInv, StepInv, PTL DEF Spec

\* The row, the requests and the ticks stay typed.
THEOREM LifecycleTyped == Spec => []LifecycleTypeOK
<1>1. LifecycleIInv => LifecycleTypeOK
    BY DEF LifecycleIInv
<1>2. QED BY <1>1, LifecycleInvariant, PTL

\* A campaign is launched as it was approved, or not at all (ADR-0004), whatever
\* requests, ticks and deployments overlap.
THEOREM LaunchesOnlyTheApproved == Spec => []LaunchedAsApproved
<1>1. LifecycleIInv => LaunchedAsApproved
    BY DEF LifecycleIInv
<1>2. QED BY <1>1, LifecycleInvariant, PTL

\* A launched campaign is never a draft, scheduled or deleted again, and nothing
\* sends that was not launched.
THEOREM LaunchedStaysHistory == Spec => []LaunchIsHistory
<1>1. LifecycleIInv => LaunchIsHistory
    BY DEF LifecycleIInv
<1>2. QED BY <1>1, LifecycleInvariant, PTL

\* Nothing but a promotion launches the campaign.
LEMMA LaunchIsPromotion ==
    ASSUME LifecycleIInv, Next, ~Launched(row), Launched(row')
    PROVE  \E t \in Ticks : Promote(t) /\ Launchable(tick[t].mode)
<1> USE DEF LifecycleIInv
<1>0. row \in Row
    BY DEF LifecycleTypeOK
<1>1. row'.mode # row.mode
    BY DEF Launched
<1>2. ASSUME NEW r \in Row, r.mode = row.mode, row' = Stored(r) PROVE FALSE
    BY <1>1, <1>2 DEF Stored, Row
<1>3. ASSUME NEW s \in Status, Write(Moved(s)) \/ row' = Moved(s) PROVE FALSE
    <2>1. Moved(s) \in Row /\ Moved(s).mode = row.mode
        BY <1>0 DEF Moved, Row
    <2>2. QED BY <1>1, <1>2, <1>3, <2>1 DEF Write
<1>4. ASSUME NEW setup \in Setups \cup {"none"}, NEW at \in Schedules, Edit(setup, at)
      PROVE  FALSE
    <2>1. [row EXCEPT !.setup = setup, !.at = at] \in Row
        <3>1. at \in Time \cup {Never}
            BY BoundsPositive DEF Schedules, Time, Never, LifecycleTypeOK, Row
        <3>2. QED BY <1>0, <3>1 DEF Row
    <2>2. [row EXCEPT !.setup = setup, !.at = at].mode = row.mode
        BY <1>0 DEF Row
    <2>3. QED BY <1>2, <1>4, <2>1, <2>2 DEF Edit, Write
<1>5. ASSUME Unschedule PROVE FALSE
    <2>1. /\ [row EXCEPT !.status = "draft", !.frozen = "none"] \in Row
          /\ [row EXCEPT !.status = "draft", !.frozen = "none"].mode = row.mode
        BY <1>0 DEF Row, Status
    <2>2. QED BY <1>2, <1>5, <2>1 DEF Unschedule, Write
<1>6. ASSUME Cancel \/ Delete \/ PauseSending PROVE FALSE
    BY <1>3, <1>6 DEF Cancel, Delete, PauseSending, Status
<1>7. ASSUME NEW s \in Sessions, Freeze(s) PROVE FALSE
    <2> DEFINE new == [row EXCEPT !.status = "scheduled", !.frozen = session[s].saw,
                                  !.approved = session[s].mode]
    <2>1. /\ session[s].saw \in Setups \cup {"none"}
          /\ session[s].mode \in Modes \cup {"disabled"}
        BY DEF LifecycleTypeOK
    <2>2. new \in Row /\ new.mode = row.mode
        BY <1>0, <2>1 DEF Row, Status
    <2>3. row' = row \/ row' = Stored(new)
        BY <1>7 DEF Freeze, IfStill
    <2> HIDE DEF new
    <2>4. QED BY <1>1, <1>2, <2>2, <2>3
<1>8. ASSUME NEW s \in Sessions,
             \/ \E intent \in {"check", "schedule"} : BeginPreflight(s, intent)
             \/ Judge(s) \/ Reject(s) \/ BeginResume(s) \/ Resume(s) \/ SessionDies(s)
      PROVE  FALSE
    BY <1>1, <1>3, <1>8
    DEF BeginPreflight, Judge, Reject, BeginResume, Resume, SessionDies, IfStill, Write, Status
<1>9. ASSUME NEW t \in Ticks, TickSteps(t) \/ Work(t) \/ TickDies(t)
      PROVE  Promote(t) /\ Launchable(tick[t].mode)
    BY <1>1, <1>3, <1>9
    DEF TickSteps, TickStarts, HoldMissed, ListDue, LoadContext, RefuseLaunch, Promote,
        ListActive, TickEnds, Work, TickDies, IfStill, Write, Status
<1>10. ~Deploy /\ ~ClockAdvances
    BY <1>1 DEF Deploy, ClockAdvances
<1>11. QED BY <1>4, <1>5, <1>6, <1>7, <1>8, <1>9, <1>10 DEF Next

\* No launch comes before its time, or later than one tick past the grace window
\* (ADR-0002 5.1).
THEOREM LaunchesAreOnTime == Spec => LaunchesOnTime
<1> DEFINE OnTime == ~Launched(row) /\ Launched(row') => row.at <= now /\ now <= row.at + Grace
<1>1. LifecycleIInv /\ [Next]_vars => [OnTime]_vars
    <2> SUFFICES ASSUME LifecycleIInv, Next, ~Launched(row), Launched(row')
                 PROVE  row.at <= now /\ now <= row.at + Grace
        BY DEF vars
    <2> USE DEF LifecycleIInv
    <2>1. row \in Row /\ now \in Nat /\ (row.at = Never \/ row.at \in Nat)
        BY DEF LifecycleTypeOK, Row, Time
    <2>2. PICK t \in Ticks : Promote(t) /\ Launchable(tick[t].mode)
        BY LaunchIsPromotion
    <2>3. row.status = "scheduled" /\ row.at <= now
        BY <2>2 DEF Launchable, Due
    <2>4. row.at # Never
        BY <2>3 DEF ScheduledHasTime
    <2>5. now < row.at + Grace \/ now = row.at + Grace
        BY <2>2, <2>4 DEF Promote, TickSawDue
    <2>6. QED BY <2>1, <2>3, <2>4, <2>5, BoundsPositive
<1>2. QED BY <1>1, LifecycleInvariant, PTL DEF Spec, LaunchesOnTime

-----------------------------------------------------------------------------
(* What a tick launches is what it judged, unless a request it met when it *)
(* judged overtook it.  The campaign may be taken back and scheduled again *)
(* under a tick that has seen it due, but by a request that began later    *)
(* only for a time that this tick does not live to see: such a request     *)
(* must find the time still ahead, and an edit puts it further off than a  *)
(* tick lives.                                                             *)

\* The schedule is none, or for later than the tick lives.
Ahead(t) == row.at = Never \/ row.at > now + 1 \/ (tick[t].aged /\ row.at > now)

\* The time has come, and no request the tick did not meet is on its way to
\* schedule for a time that has not.
Past(t) ==
    /\ row.at <= now
    /\ \A s \in Sessions \ tick[t].met :
         /\ session[s].pc # "freeze"
         /\ session[s].pc = "judge" /\ session[s].intent = "schedule" => session[s].at <= now

OnlySchedulingsFreeze ==
    \A s \in Sessions : session[s].pc = "freeze" => session[s].intent = "schedule"

JudgedBy(t) ==
    /\ tick[t].pc = "load"   => Ahead(t) \/ row.at <= now
    /\ tick[t].pc = "launch" => Ahead(t) \/ Past(t)
    /\ tick[t].pc = "launch" /\ ~tick[t].overtaken /\ row.status = "scheduled" /\ row.at <= now
         => tick[t].saw = row

JudgedInv == OnlySchedulingsFreeze /\ \A t \in Ticks : JudgedBy(t)

LEMMA Numbers ==
    ASSUME LifecycleIInv
    PROVE  /\ row \in Row /\ now \in Nat /\ (row.at = Never \/ row.at \in Nat) /\ Never = -1
           /\ row.status = "scheduled" => row.at \in Nat
BY DEF LifecycleIInv, LifecycleTypeOK, Row, Time, ScheduledHasTime, Never

\* The tick neither moves nor forgets that it was overtaken.
TickStays(t) ==
    /\ tick'[t].pc = tick[t].pc /\ tick'[t].saw = tick[t].saw /\ tick'[t].aged = tick[t].aged
    /\ tick[t].overtaken => tick'[t].overtaken

\* A step that does not schedule the row, as one tick sees it.
LEMMA UnscheduledStep ==
    ASSUME NEW t \in Ticks, JudgedBy(t), TickStays(t), UNCHANGED now, row'.at = row.at,
           row'.status = "scheduled" => row' = row,
           Past(t) => Past(t)'
    PROVE  JudgedBy(t)'
BY DEF JudgedBy, Ahead, TickStays

\* One request's step, as one tick sees it.
LEMMA PastKept ==
    ASSUME NEW t \in Ticks, NEW s \in Sessions, Past(t), UNCHANGED now, row'.at = row.at,
           \A u \in Sessions \ {s} : session'[u] = session[u],
           tick[t].met \subseteq tick'[t].met \cup {s},
           s \notin tick'[t].met =>
               /\ session'[s].pc # "freeze"
               /\ session'[s].pc = "judge" /\ session'[s].intent = "schedule" => session'[s].at <= now
    PROVE  Past(t)'
BY DEF Past

\* A write that only moves the status.
LEMMA MovedRow ==
    ASSUME LifecycleIInv, NEW s \in Status, s # "scheduled", Write(Moved(s)) \/ row' = Moved(s)
    PROVE  row'.at = row.at /\ row'.status = s
<1>1. row \in Row
    BY DEF LifecycleIInv, LifecycleTypeOK
<1>2. row' = Stored(Moved(s)) \/ row' = Moved(s)
    BY DEF Write
<1> QED
    BY <1>1, <1>2 DEF Moved, Stored, Row

\* A member's statement: an edit keeps the time, clears it or puts it ahead.
LEMMA MemberKeepsJudged ==
    ASSUME LifecycleIInv, JudgedInv,
           \/ \E setup \in Setups \cup {"none"}, at \in Schedules : Edit(setup, at)
           \/ Unschedule \/ Cancel \/ Delete \/ PauseSending
    PROVE  JudgedInv'
<1>0. UNCHANGED <<session, tick, now>>
    BY DEF Edit, Unschedule, Cancel, Delete, PauseSending, env
<1>1. OnlySchedulingsFreeze'
    BY <1>0 DEF JudgedInv, OnlySchedulingsFreeze
<1>2. ASSUME row'.at = row.at, row'.status # "scheduled"
      PROVE  JudgedInv'
    <2>1. \A t \in Ticks : TickStays(t) /\ (Past(t) => Past(t)')
        BY <1>0, <1>2 DEF TickStays, Past
    <2> QED
        BY <1>0, <1>1, <1>2, <2>1, UnscheduledStep DEF JudgedInv
<1>3. ASSUME NEW setup \in Setups \cup {"none"}, NEW at \in Schedules, Edit(setup, at)
      PROVE  JudgedInv'
    <2>1. /\ row.status \in Editable /\ row' = Stored([row EXCEPT !.setup = setup, !.at = at])
          /\ at = row.at \/ at = Never \/ at >= now + Lead
        BY <1>3 DEF Edit, Write
    <2>2. row'.status = row.status /\ row'.at = at
        BY <2>1, Numbers DEF Stored, Row
    <2>3. row'.status # "scheduled"
        BY <2>1, <2>2 DEF Editable
    <2>4. CASE at = row.at
        BY <1>2, <2>2, <2>3, <2>4
    <2>5. CASE at # row.at
        <3>1. at \in Time \cup {Never}
            BY BoundsPositive DEF Schedules, Time, Never, LifecycleIInv, LifecycleTypeOK, Row
        <3>2. at = Never \/ at > now + 1
            BY <2>1, <2>5, <3>1, Numbers, BoundsPositive, LeadOutlastsTick DEF Time, Never
        <3>3. \A t \in Ticks : Ahead(t)'
            BY <1>0, <2>2, <3>2 DEF Ahead
        <3> QED
            BY <1>1, <2>3, <3>3 DEF JudgedInv, JudgedBy
    <2> QED
        BY <2>4, <2>5
<1>4. CASE Unschedule
    <2>1. row' = Stored([row EXCEPT !.status = "draft", !.frozen = "none"])
        BY <1>4 DEF Unschedule, Write
    <2>2. row'.status = "draft" /\ row'.at = row.at
        BY <2>1, Numbers DEF Stored, Row
    <2> QED
        BY <1>2, <2>2
<1>5. CASE Cancel \/ Delete \/ PauseSending
    <2>1. PICK s \in {"cancelled", "deleted", "paused"} : Write(Moved(s)) \/ row' = Moved(s)
        BY <1>5 DEF Cancel, Delete, PauseSending
    <2>2. row'.at = row.at /\ row'.status = s /\ s # "scheduled"
        BY <2>1, MovedRow DEF Status
    <2> QED
        BY <1>2, <2>2
<1> QED
    BY <1>3, <1>4, <1>5

\* A request: one the tick did not meet cannot freeze the row for a time that has come.
LEMMA SessionKeepsJudged ==
    ASSUME LifecycleIInv, JudgedInv, NEW s \in Sessions,
           \/ \E intent \in {"check", "schedule"} : BeginPreflight(s, intent)
           \/ Judge(s) \/ Reject(s) \/ Freeze(s)
           \/ BeginResume(s) \/ Resume(s) \/ SessionDies(s)
    PROVE  JudgedInv'
<1>0. UNCHANGED now
    BY DEF BeginPreflight, Judge, Reject, Freeze, BeginResume, Resume, SessionDies, env
<1>1. session \in [Sessions -> [pc : SessionPcs, intent : {"check", "schedule"}, mode : Modes \cup {"disabled"},
                                saw : Setups \cup {"none"}, at : Time \cup {Never}]]
    BY DEF LifecycleIInv, LifecycleTypeOK
<1>2. tick \in [Ticks -> [pc : TickPcs, mode : Modes \cup {"none"}, saw : Row, aged : BOOLEAN,
                          met : SUBSET Sessions, overtaken : BOOLEAN]]
    BY DEF LifecycleIInv, LifecycleTypeOK
<1>3. \A u \in Sessions \ {s} : session'[u] = session[u]
    BY <1>1 DEF BeginPreflight, Judge, Reject, Freeze, BeginResume, Resume, SessionDies, Goes, Ends
<1>4. OnlySchedulingsFreeze'
    <2>1. session'[s].pc = "freeze" => session'[s].intent = "schedule"
        <3>1. CASE \E intent \in {"check", "schedule"} : BeginPreflight(s, intent)
            BY <1>1, <3>1 DEF BeginPreflight
        <3>2. CASE session' = [session EXCEPT ![s] = Idle]
            BY <1>1, <3>2 DEF Idle
        <3>3. ASSUME NEW pc \in {"reject", "resume"}, session' = [session EXCEPT ![s].pc = pc]
              PROVE  session'[s].pc # "freeze"
            BY <1>1, <3>3
        <3>4. CASE session' = [session EXCEPT ![s].pc = "freeze"] /\ session[s].intent = "schedule"
            BY <1>1, <3>4
        <3> QED
            BY <3>1, <3>2, <3>3, <3>4 DEF Judge, Reject, Freeze, BeginResume, Resume, SessionDies, Goes, Ends
    <2> QED
        BY <1>3, <2>1 DEF JudgedInv, OnlySchedulingsFreeze
<1>5. ASSUME NEW t \in Ticks
      PROVE  JudgedBy(t)'
    <2>0. JudgedBy(t)
        BY DEF JudgedInv
    <2>1. ASSUME NEW intent \in {"check", "schedule"}, BeginPreflight(s, intent)
          PROVE  JudgedBy(t)'
        <3>1. row'.at = row.at /\ row'.status = "validating"
            BY <2>1, MovedRow DEF BeginPreflight, Status
        <3>2. session'[s].pc = "judge" /\ session'[s].at = row.at
            BY <1>1, <2>1 DEF BeginPreflight
        <3>3. tick'[t] = [tick[t] EXCEPT !.met = @ \ {s}]
            BY <2>1 DEF BeginPreflight
        <3>4. TickStays(t) /\ tick'[t].met = tick[t].met \ {s}
            BY <1>2, <3>3 DEF TickStays
        <3>5. Past(t) => Past(t)'
            <4>1. Past(t) => row.at <= now
                BY DEF Past
            <4> QED
                BY <1>0, <1>3, <3>1, <3>2, <3>4, <4>1, PastKept
        <3> QED
            BY <1>0, <2>0, <3>1, <3>4, <3>5, UnscheduledStep
    <2>2. CASE Judge(s)
        <3>1. row' = row /\ tick' = tick /\ session[s].pc = "judge"
            BY <2>2 DEF Judge
        <3>2. CASE session' = [session EXCEPT ![s].pc = "reject"] \/ session' = [session EXCEPT ![s] = Idle]
            <4>1. session'[s].pc \in {"reject", "idle"}
                BY <1>1, <3>2 DEF Idle
            <4> QED
                BY <1>0, <1>3, <2>0, <3>1, <4>1, PastKept, UnscheduledStep DEF TickStays
        <3>3. CASE Complete(session[s].saw, session[s].at, session[s].intent) /\ session[s].intent = "schedule"
            <4>1. session[s].at > now
                BY <3>3 DEF Complete
            <4>2. session[s].at \in Int /\ now \in Nat
                BY <1>1, Numbers DEF Time, Never
            <4>3. Past(t) => s \in tick[t].met
                BY <3>1, <3>3, <4>1, <4>2 DEF Past
            <4> QED
                BY <1>0, <1>3, <2>0, <3>1, <4>3, PastKept, UnscheduledStep DEF TickStays
        <3> QED
            BY <2>2, <3>2, <3>3 DEF Judge, Goes, Ends
    <2>3. CASE Reject(s) \/ BeginResume(s) \/ Resume(s) \/ SessionDies(s)
        <3>1. session'[s].pc \in {"idle", "resume"}
            BY <1>1, <2>3 DEF Reject, BeginResume, Resume, SessionDies, Goes, Ends, Idle
        <3>2. row' = row \/ \E to \in {"draft", "sending"} : Write(Moved(to))
            BY <2>3 DEF Reject, BeginResume, Resume, SessionDies, IfStill, Write
        <3>3. row'.at = row.at /\ (row'.status = "scheduled" => row' = row) /\ tick' = tick
            BY <2>3, <3>2, MovedRow DEF Status, Reject, BeginResume, Resume, SessionDies
        <3> QED
            BY <1>0, <1>3, <2>0, <3>1, <3>3, PastKept, UnscheduledStep DEF TickStays
    <2>4. CASE Freeze(s)
        <3>1. session[s].pc = "freeze" /\ session'[s].pc = "idle"
            BY <1>1, <2>4 DEF Freeze, Ends, Idle
        <3>2. tick'[t] = [tick[t] EXCEPT !.overtaken = @ \/ (row' # row /\ s \in tick[t].met)]
            BY <2>4 DEF Freeze
        <3>3. /\ TickStays(t) /\ tick'[t].met = tick[t].met
              /\ ~tick'[t].overtaken => row' = row \/ s \notin tick[t].met
            <4>1. PICK o \in BOOLEAN : /\ tick'[t] = [tick[t] EXCEPT !.overtaken = o]
                                       /\ o <=> (tick[t].overtaken \/ (row' # row /\ s \in tick[t].met))
                BY <3>2
            <4>2. tick'[t].overtaken = o
                BY <1>2, <4>1
            <4> QED
                BY <1>2, <4>1, <4>2 DEF TickStays
        <3> DEFINE new == [row EXCEPT !.status = "scheduled", !.frozen = session[s].saw, !.approved = session[s].mode]
        <3>4. row' = row \/ (row.status = "validating" /\ row' = Stored(new) /\ TriggerAllows(row, Stored(new)))
            BY <2>4 DEF Freeze, IfStill
        <3>5. new.status = "scheduled" /\ new.at = row.at
            BY Numbers DEF Row
        <3> HIDE DEF new
        <3>6. row'.at = row.at /\ (row' # row => row.at # Never)
            BY <3>4, <3>5 DEF Stored, TriggerAllows
        <3>7. Past(t) => Past(t)'
            BY <1>0, <1>3, <3>1, <3>3, <3>6, PastKept
        <3>8. CASE row' = row
            BY <1>0, <2>0, <3>3, <3>7, <3>8, UnscheduledStep
        <3>9. CASE row' # row
            <4>1. tick[t].pc = "launch" /\ ~tick'[t].overtaken => Ahead(t)
                BY <2>0, <3>1, <3>3, <3>9 DEF JudgedBy, Past
            <4>2. tick[t].pc = "launch" /\ ~tick'[t].overtaken => ~(row.at <= now)
                BY <3>6, <3>9, <4>1, Numbers DEF Ahead
            <4> QED
                BY <1>0, <2>0, <3>3, <3>6, <3>7, <4>2 DEF JudgedBy, Ahead, TickStays
        <3> QED
            BY <3>8, <3>9
    <2> QED
        BY <2>1, <2>2, <2>3, <2>4
<1> QED
    BY <1>4, <1>5 DEF JudgedInv

\* A tick's step, of which only the two that read the campaign can matter.
LEMMA TickMoves ==
    ASSUME JudgedInv, NEW t \in Ticks, UNCHANGED <<session, now>>, \A u \in Ticks \ {t} : tick'[u] = tick[u],
           row'.at = row.at, row'.status = "scheduled" => row' = row,
           JudgedBy(t)'
    PROVE  JudgedInv'
<1>1. ASSUME NEW u \in Ticks \ {t}
      PROVE  JudgedBy(u)'
    <2>1. TickStays(u) /\ (Past(u) => Past(u)')
        BY DEF TickStays, Past
    <2> QED
        BY <2>1, UnscheduledStep DEF JudgedInv
<1> QED
    BY <1>1 DEF JudgedInv, OnlySchedulingsFreeze

LEMMA TickKeepsJudged ==
    ASSUME LifecycleIInv, JudgedInv, NEW t \in Ticks, TickSteps(t) \/ Work(t) \/ TickDies(t)
    PROVE  JudgedInv'
<1>0. UNCHANGED <<session, now>>
    BY DEF TickSteps, TickStarts, HoldMissed, ListDue, LoadContext, RefuseLaunch, Promote, ListActive, TickEnds,
           Work, TickDies, env
<1>1. tick \in [Ticks -> [pc : TickPcs, mode : Modes \cup {"none"}, saw : Row, aged : BOOLEAN,
                          met : SUBSET Sessions, overtaken : BOOLEAN]]
    BY DEF LifecycleIInv, LifecycleTypeOK
<1>2. row'.at = row.at /\ (row'.status = "scheduled" => row' = row)
    <2>1. CASE Promote(t) /\ row' # row
        <3>1. row' = Stored([row EXCEPT !.status = "queued", !.mode = tick[t].mode])
            BY <2>1 DEF Promote, Write
        <3> QED
            BY <3>1, Numbers DEF Stored, Row
    <2>2. ASSUME NEW s \in {"paused", "sending", "completed", "failed"}, Write(Moved(s))
          PROVE  row'.at = row.at /\ row'.status = s /\ s # "scheduled"
        BY <2>2, MovedRow DEF Status
    <2>3. \/ row' = row \/ Promote(t)
          \/ \E s \in {"paused", "sending", "completed", "failed"} : Write(Moved(s))
        BY DEF TickSteps, TickStarts, HoldMissed, ListDue, LoadContext, RefuseLaunch, ListActive, TickEnds, Work,
               TickDies, IfStill, Write
    <2> QED
        BY <2>1, <2>2, <2>3
<1>3. CASE ListDue(t) /\ Due /\ ~Missed
    <2>1. tick' = [tick EXCEPT ![t].pc = "load"] /\ row' = row /\ row.at <= now
        BY <1>3 DEF ListDue, Steps, Due
    <2>2. tick'[t].pc = "load" /\ \A u \in Ticks \ {t} : tick'[u] = tick[u]
        BY <1>1, <2>1
    <2>3. JudgedBy(t)'
        BY <1>0, <2>1, <2>2 DEF JudgedBy
    <2> QED
        BY <1>0, <1>2, <2>2, <2>3, TickMoves
<1> DEFINE rivals == {s \in Sessions : Scheduling(s)}
<1>4. CASE /\ tick[t].pc = "load" /\ row' = row
           /\ tick' = [tick EXCEPT ![t] = [tick[t] EXCEPT !.pc = "launch", !.saw = row, !.met = rivals]]
    <2> HIDE DEF rivals
    <2>1. /\ tick'[t].pc = "launch" /\ tick'[t].saw = row /\ tick'[t].aged = tick[t].aged /\ tick'[t].met = rivals
          /\ \A u \in Ticks \ {t} : tick'[u] = tick[u]
        BY <1>1, <1>4
    <2>2. Ahead(t) \/ row.at <= now
        BY <1>4 DEF JudgedInv, JudgedBy
    <2>3. Ahead(t) => Ahead(t)'
        BY <1>0, <1>4, <2>1 DEF Ahead
    <2>4. row.at <= now => Past(t)'
        <3>1. \A s \in Sessions \ rivals : session[s].pc # "freeze" /\ session[s].intent # "schedule"
            BY DEF rivals, Scheduling, JudgedInv, OnlySchedulingsFreeze
        <3> QED
            BY <1>0, <1>4, <2>1, <3>1 DEF Past
    <2>5. JudgedBy(t)'
        BY <1>4, <2>1, <2>2, <2>3, <2>4 DEF JudgedBy
    <2> QED
        BY <1>0, <1>2, <2>1, <2>5, TickMoves
<1>5. CASE Work(t) /\ tick' = tick
    <2>1. TickStays(t) /\ (Past(t) => Past(t)')
        BY <1>0, <1>2, <1>5 DEF TickStays, Past
    <2>2. JudgedBy(t)'
        BY <1>0, <1>2, <2>1, UnscheduledStep DEF JudgedInv
    <2> QED
        BY <1>0, <1>2, <1>5, <2>2, TickMoves
<1>6. CASE \/ Proceeds(t) \/ Rests(t) \/ TickStarts(t)
           \/ \E pc \in TickPcs \ {"load", "launch"} : Steps(t, pc)
    <2>1. tick'[t].pc \notin {"load", "launch"} /\ \A u \in Ticks \ {t} : tick'[u] = tick[u]
        <3>1. CASE Proceeds(t) \/ Rests(t) \/ TickStarts(t)
            <4> DEFINE after == [Resting EXCEPT !.pc = "active", !.aged = tick[t].aged]
                       first == [Resting EXCEPT !.pc = "hold", !.mode = LaunchMode(deployed)]
            <4>1. Resting.pc = "idle" /\ after.pc = "active" /\ first.pc = "hold"
                BY DEF Resting
            <4>2. \E x \in {after, first, Resting} : tick' = [tick EXCEPT ![t] = x]
                BY <3>1 DEF Proceeds, Rests, TickStarts
            <4> HIDE DEF after, first
            <4> QED
                BY <1>1, <4>1, <4>2
        <3>2. ASSUME NEW pc \in TickPcs \ {"load", "launch"}, tick' = [tick EXCEPT ![t].pc = pc]
              PROVE  tick'[t].pc = pc /\ \A u \in Ticks \ {t} : tick'[u] = tick[u]
            BY <1>1, <3>2
        <3> QED
            BY <1>6, <3>1, <3>2 DEF Steps
    <2>2. JudgedBy(t)'
        BY <2>1 DEF JudgedBy
    <2> QED
        BY <1>0, <1>2, <2>1, <2>2, TickMoves
<1>7. \/ ListDue(t) /\ Due /\ ~Missed
      \/ /\ tick[t].pc = "load" /\ row' = row
         /\ tick' = [tick EXCEPT ![t] = [tick[t] EXCEPT !.pc = "launch", !.saw = row, !.met = rivals]]
      \/ Work(t) /\ tick' = tick
      \/ Proceeds(t) \/ Rests(t) \/ TickStarts(t)
      \/ \E pc \in TickPcs \ {"load", "launch"} : Steps(t, pc)
    BY DEF TickSteps, HoldMissed, ListDue, LoadContext, RefuseLaunch, Promote, ListActive, TickEnds, Work, TickDies,
           TickPcs
<1> QED
    BY <1>3, <1>4, <1>5, <1>6, <1>7

\* The clock: what lies ahead of a tick stays ahead of it while it lives.
LEMMA WorldKeepsJudged ==
    ASSUME LifecycleIInv, JudgedInv, Deploy \/ ClockAdvances
    PROVE  JudgedInv'
<1>0. UNCHANGED <<row, session>> /\ OnlySchedulingsFreeze'
    BY DEF Deploy, ClockAdvances, JudgedInv, OnlySchedulingsFreeze
<1>1. CASE Deploy
    <2>1. UNCHANGED <<tick, now>>
        BY <1>1 DEF Deploy
    <2> QED
        BY <1>0, <2>1 DEF JudgedInv, JudgedBy, Ahead, Past
<1>2. CASE ClockAdvances
    <2>1. now' = now + 1 /\ \A t \in Ticks : ~tick[t].aged
        BY <1>2 DEF ClockAdvances
    <2>2. \A t \in Ticks : /\ tick'[t].pc = tick[t].pc /\ tick'[t].saw = tick[t].saw /\ tick'[t].met = tick[t].met
                           /\ tick'[t].aged = (tick[t].pc # "idle") /\ tick'[t].overtaken = tick[t].overtaken
        BY <1>2 DEF ClockAdvances, LifecycleIInv, LifecycleTypeOK
    <2>3. ASSUME NEW t \in Ticks
          PROVE  JudgedBy(t)'
        <3>0. JudgedBy(t)
            BY DEF JudgedInv
        <3>1. Past(t) => Past(t)'
            <4>1. \A s \in Sessions : session[s].at \in Int
                BY DEF LifecycleIInv, LifecycleTypeOK, Time, Never
            <4> QED
                BY <1>0, <2>1, <2>2, <4>1, Numbers DEF Past
        <3>2. tick[t].pc \in {"load", "launch"} /\ Ahead(t) => Ahead(t)'
            BY <1>0, <2>1, <2>2, Numbers DEF Ahead
        <3>3. row.at <= now => row'.at <= now'
            BY <1>0, <2>1, Numbers
        <3>4. row.status = "scheduled" /\ row.at <= now + 1 => ~Ahead(t)
            BY <2>1, Numbers DEF Ahead
        <3>5. Past(t) => row.at <= now
            BY DEF Past
        <3> QED
            BY <1>0, <2>1, <2>2, <3>0, <3>1, <3>2, <3>3, <3>4, <3>5 DEF JudgedBy
    <2> QED
        BY <1>0, <2>3 DEF JudgedInv
<1> QED
    BY <1>1, <1>2

LEMMA StepKeepsJudged ==
    ASSUME LifecycleIInv, JudgedInv, [Next]_vars
    PROVE  JudgedInv'
<1>1. CASE Next
    BY <1>1, MemberKeepsJudged, SessionKeepsJudged, TickKeepsJudged, WorldKeepsJudged DEF Next
<1>2. CASE UNCHANGED vars
    <2>1. UNCHANGED <<row, tick, session, now>>
        BY <1>2 DEF vars, env
    <2> QED
        BY <2>1 DEF JudgedInv, OnlySchedulingsFreeze, JudgedBy, Ahead, Past
<1> QED
    BY <1>1, <1>2

(* What a tick launches is the row its own preflight passed, for any number *)
(* of requests, ticks, setups and dates, unless a request that was          *)
(* scheduling when the tick judged froze the row after it (worker.ts:296-   *)
(* 346, campaigns/service.ts:375-487).                                      *)
THEOREM LaunchesWhatItJudged == Spec => LaunchedAsJudged
<1> DEFINE AsJudged ==
        ~Launched(row) /\ Launched(row') =>
            \E t \in Ticks : tick[t].pc = "launch" /\ (tick[t].saw = row \/ tick[t].overtaken)
<1>1. Init => JudgedInv
    BY DEF Init, JudgedInv, OnlySchedulingsFreeze, JudgedBy, Resting, Idle
<1>2. LifecycleIInv /\ JudgedInv /\ [Next]_vars => JudgedInv'
    BY StepKeepsJudged
<1>3. LifecycleIInv /\ JudgedInv /\ [Next]_vars => [AsJudged]_vars
    <2> SUFFICES ASSUME LifecycleIInv, JudgedInv, Next, ~Launched(row), Launched(row')
                 PROVE  \E t \in Ticks : tick[t].pc = "launch" /\ (tick[t].saw = row \/ tick[t].overtaken)
        BY DEF vars
    <2>1. PICK t \in Ticks : Promote(t) /\ Launchable(tick[t].mode)
        BY LaunchIsPromotion
    <2> QED
        BY <2>1 DEF Promote, Launchable, Due, JudgedInv, JudgedBy
<1> QED
    BY <1>1, <1>2, <1>3, LifecycleInvariant, PTL DEF Spec, LaunchedAsJudged
=============================================================================
