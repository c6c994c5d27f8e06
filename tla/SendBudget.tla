----------------------------- MODULE SendBudget -----------------------------
(***************************************************************************)
(* The send budget of one workspace (supabase/migrations/0013):            *)
(* rate_ledger, sending_reserve_budget and sending_refund_budget, called   *)
(* by overlapping ticks (src/lib/sending/worker.ts:394-419) while time     *)
(* goes on.                                                                *)
(*                                                                         *)
(* A tick reserves, claims at most as many jobs, and refunds the rest.     *)
(* Each call is a transaction; it takes the workspace's advisory lock, but *)
(* its now() is the moment it began, which may be before the lock is free. *)
(* Days are UTC days of MinutesPerDay minutes.                             *)
(***************************************************************************)
EXTENDS Integers, FiniteSets, FiniteSetsExt

CONSTANTS
    Ticks,
    Rates,          \* p_per_minute: the deployment's rate or a campaign's lower one
    Requests,       \* p_requested: up to SEND_BATCH_MAX
    DailyCap,       \* SEND_DAILY_CAP
    MinutesPerDay,  \* 1440
    LastMinute,     \* bound: how long the clock runs
    MaxCrashes      \* bound: ticks that die

ASSUME BudgetNumbers ==
    /\ Rates \subseteq Nat \ {0} /\ Requests \subseteq Nat \ {0}
    /\ DailyCap \in Nat /\ LastMinute \in Nat /\ MaxCrashes \in Nat
    /\ MinutesPerDay \in Nat \ {0}
    /\ IsFiniteSet(Ticks)

VARIABLES
    clock,     \* the current minute
    reserved,  \* rate_ledger.reserved by window_start; Absent is no row
    pc,        \* where each tick is
    window,    \* the minute in which its reservation began
    granted,   \* what it was granted and has neither claimed nor refunded
    used,      \* jobs claimed on reservations of each minute
    crashes

budgetVars == <<clock, reserved, pc, window, granted, used, crashes>>

Minutes == 0 .. LastMinute
Absent  == -1
Day(m)  == m \div MinutesPerDay

BudgetTypeOK ==
    /\ clock    \in Minutes
    /\ reserved \in [Minutes -> Nat \cup {Absent}]
    /\ pc       \in [Ticks -> {"idle", "reserve", "claim", "refund"}]
    /\ window   \in [Ticks -> Minutes]
    /\ granted  \in [Ticks -> Nat]
    /\ used     \in [Minutes -> Nat]
    /\ crashes  \in 0 .. MaxCrashes

BudgetInit ==
    /\ clock    = 0
    /\ reserved = [m \in Minutes |-> Absent]
    /\ pc       = [t \in Ticks |-> "idle"]
    /\ window   = [t \in Ticks |-> 0]
    /\ granted  = [t \in Ticks |-> 0]
    /\ used     = [m \in Minutes |-> 0]
    /\ crashes  = 0

-----------------------------------------------------------------------------
(* Helpers *)

Windows == {m \in Minutes : reserved[m] # Absent}

Least(S)   == CHOOSE x \in S : \A y \in S : x <= y
AtLeast(x, floor) == IF x < floor THEN floor ELSE x

\* select sum(f) over the rows S.
SumOver(f, S) == MapThenSumSet(LAMBDA x : f[x], S)

\* What is reserved since the day of minute m began.
Today(m) == SumOver(reserved, {w \in Windows : Day(w) >= Day(m)})

ThisMinute(m) == IF reserved[m] = Absent THEN 0 ELSE reserved[m]

\* What a reservation that began in minute m is granted.
RateOnly_Bug(m, rate, requested) == AtLeast(Least({requested, rate - ThisMinute(m)}), 0)

Grant(m, rate, requested) ==
    AtLeast(Least({requested, rate - ThisMinute(m), DailyCap - Today(m)}), 0)

\* The part of its grant a tick that claimed k jobs hands back.
WholeGrant_Bug(t, k) == granted[t]

Unused(t, k) == granted[t] - k

-----------------------------------------------------------------------------
(* Actions *)

MinutePasses ==
    /\ clock < LastMinute
    /\ clock' = clock + 1
    /\ UNCHANGED <<reserved, pc, window, granted, used, crashes>>

\* The transaction begins and waits for the lock.
BeginReserve(t) ==
    /\ pc[t] = "idle"
    /\ window' = [window EXCEPT ![t] = clock]
    /\ pc'     = [pc EXCEPT ![t] = "reserve"]
    /\ UNCHANGED <<clock, reserved, granted, used, crashes>>

\* The lock is held.  Even a reservation of nothing leaves the row of its minute.
Reserve(t, rate, requested) ==
    LET m == window[t]
        g == Grant(m, rate, requested)
    IN  /\ pc[t] = "reserve"
        /\ reserved' = [reserved EXCEPT ![m] = ThisMinute(m) + g]
        /\ granted'  = [granted EXCEPT ![t] = g]
        /\ pc'       = [pc EXCEPT ![t] = IF g = 0 THEN "idle" ELSE "claim"]
        /\ UNCHANGED <<clock, window, used, crashes>>

\* sending_claim_jobs finds k due jobs.
Claim(t, k) ==
    /\ pc[t] = "claim"
    /\ k \in 0 .. granted[t]
    /\ used'    = [used EXCEPT ![window[t]] = @ + k]
    /\ granted' = [granted EXCEPT ![t] = Unused(t, k)]
    /\ pc'      = [pc EXCEPT ![t] = IF k = granted[t] THEN "idle" ELSE "refund"]
    /\ UNCHANGED <<clock, reserved, window, crashes>>

\* The refund goes to the newest window there is.
Refund(t) ==
    LET newest == CHOOSE m \in Windows : \A w \in Windows : m >= w
    IN  /\ pc[t] = "refund"
        /\ reserved' = [reserved EXCEPT ![newest] = AtLeast(@ - granted[t], 0)]
        /\ granted'  = [granted EXCEPT ![t] = 0]
        /\ pc'       = [pc EXCEPT ![t] = "idle"]
        /\ UNCHANGED <<clock, window, used, crashes>>

\* The tick dies: its reservation stays.
TickDies(t) ==
    /\ pc[t] # "idle" /\ crashes < MaxCrashes
    /\ crashes' = crashes + 1
    /\ pc'      = [pc EXCEPT ![t] = "idle"]
    /\ granted' = [granted EXCEPT ![t] = 0]
    /\ UNCHANGED <<clock, reserved, window, used>>

BudgetNext ==
    \/ MinutePasses
    \/ \E t \in Ticks :
           \/ BeginReserve(t) \/ Refund(t) \/ TickDies(t)
           \/ \E rate \in Rates, requested \in Requests : Reserve(t, rate, requested)
           \/ \E k \in 0 .. granted[t] : Claim(t, k)

BudgetSpec == BudgetInit /\ [][BudgetNext]_budgetVars

-----------------------------------------------------------------------------
(* Properties *)

UsedOn(d) == SumOver(used, {m \in Minutes : Day(m) = d})

\* Taken over all windows, the ledger never forgets a message: refunds that meet
\* in one window, or fall below zero, give back too little but never too much.
NothingIsForgotten ==
    SumOver(reserved, Windows) >= SumOver(used, Minutes) + SumOver(granted, Ticks)

\* 0013, "the software's job is to make the cap impossible to exceed, including by
\* overlapping workers".
DayKeepsCap == \A m \in Minutes : UsedOn(Day(m)) <= DailyCap
=============================================================================
