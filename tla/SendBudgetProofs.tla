-------------------------- MODULE SendBudgetProofs --------------------------
(***************************************************************************)
(* What keeps a workspace from sending too much, and the decisions around  *)
(* it.  The ledger of the send budget forgets no message, and keeps the    *)
(* daily cap unless a refund crosses midnight, for any number of ticks,    *)
(* any rates and any cap.  The decisions of SendDecisions are honest about *)
(* every wall clock, outcome, limit and launch.  And two campaigns claim   *)
(* one address a cooldown apart, however many ticks claim at once.         *)
(***************************************************************************)
EXTENDS SendBudget, SendDecisions, ClaimCooldown, FiniteSetTheorems, WellFoundedInduction, TLAPS

(* Sums.  The recursion of MapThenSumSet is well defined on finite sets,   *)
(* and what it adds up does not depend on the order it takes.              *)

\* The recursion a sum is defined by: an element of s is added to the sum of
\* the others.
Step(f, it, s) == IF s = {} THEN 0 ELSE LET x == CHOOSE y \in s : TRUE IN f[x] + it[s \ {x}]
SumsUpTo(f, S, it) == it = [s \in SUBSET S |-> Step(f, it, s)]
Sums(f, S) == CHOOSE it : SumsUpTo(f, S, it)

LEMMA SumIsSums ==
    ASSUME NEW f, NEW S
    PROVE  SumOver(f, S) = Sums(f, S)[S]
BY DEF SumOver, Sums, SumsUpTo, Step, MapThenSumSet, MapThenFoldSet

\* Of the finite sets that have a property there is one no part of which has
\* it: what the proofs by induction on a finite set rest on.
LEMMA LeastSet ==
    ASSUME NEW S, IsFiniteSet(S), NEW Bad, Bad \subseteq SUBSET S, Bad # {}
    PROVE  \E s \in Bad : /\ s \subseteq S /\ IsFiniteSet(s)
                          /\ \A u \in SUBSET s : u # s => u \notin Bad
<1>1. Bad \subseteq FiniteSubsetsOf(S)
    BY FS_Subset DEF FiniteSubsetsOf
<1>2. PICK s \in Bad : \A y \in Bad : ~(<<y, s>> \in StrictSubsetOrdering(S))
    BY <1>1, FS_StrictSubsetOrderingWellFounded, WFMin
<1>3. \A u \in SUBSET s : u # s => u \notin Bad
    BY <1>2 DEF StrictSubsetOrdering
<1> QED
    BY <1>2, <1>3, FS_Subset

\* Two sums of parts agree where both are defined.
LEMMA SumsAgree ==
    ASSUME NEW f, NEW S, IsFiniteSet(S), NEW T, NEW a, NEW b, SumsUpTo(f, S, a), SumsUpTo(f, T, b)
    PROVE  \A s \in SUBSET S : s \in SUBSET T => a[s] = b[s]
<1> DEFINE Bad == {s \in SUBSET S : s \in SUBSET T /\ a[s] # b[s]}
<1> SUFFICES ASSUME Bad # {} PROVE FALSE
    OBVIOUS
<1>1. PICK s \in Bad : \A u \in SUBSET s : u # s => u \notin Bad
    <2>1. Bad \subseteq SUBSET S
        OBVIOUS
    <2> HIDE DEF Bad
    <2> QED
        BY <2>1, LeastSet, ZenonT(60)
<1>2. a[s] = Step(f, a, s) /\ b[s] = Step(f, b, s)
    BY <1>1 DEF SumsUpTo
<1>3. s # {}
    BY <1>1, <1>2 DEF Step
<1> DEFINE x == CHOOSE y \in s : TRUE
<1>4. x \in s
    BY <1>3
<1> HIDE DEF x
<1>5. a[s \ {x}] = b[s \ {x}]
    BY <1>1, <1>4
<1> QED
    BY <1>1, <1>2, <1>3, <1>5 DEF Step, x

LEMMA SumsExist ==
    ASSUME NEW f, NEW S, IsFiniteSet(S)
    PROVE  SumsUpTo(f, S, Sums(f, S))
<1> DEFINE Bad == {s \in SUBSET S : ~\E it : SumsUpTo(f, s, it)}
<1> SUFFICES S \notin Bad
    BY DEF Sums
<1> SUFFICES ASSUME Bad # {} PROVE FALSE
    OBVIOUS
<1>1. PICK s \in Bad : IsFiniteSet(s) /\ \A u \in SUBSET s : u # s => u \notin Bad
    <2>1. Bad \subseteq SUBSET S
        OBVIOUS
    <2> HIDE DEF Bad
    <2> QED
        BY <2>1, LeastSet
<1>2. \A u \in SUBSET s : u # s => SumsUpTo(f, u, Sums(f, u)) /\ IsFiniteSet(u)
    BY <1>1, FS_Subset DEF Sums
<1> DEFINE part(u) == Sums(f, u)[u]
           g == [u \in SUBSET s |-> IF u = {} THEN 0
                                    ELSE LET x == CHOOSE y \in u : TRUE IN f[x] + part(u \ {x})]
<1>3. ASSUME NEW u \in SUBSET s, u # s
      PROVE  g[u] = part(u)
    <2>1. part(u) = Step(f, Sums(f, u), u)
        BY <1>2, <1>3 DEF SumsUpTo
    <2>2. CASE u = {}
        BY <2>1, <2>2 DEF Step
    <2>3. CASE u # {}
        <3> DEFINE x == CHOOSE y \in u : TRUE
        <3>1. x \in u
            BY <2>3
        <3> HIDE DEF x
        <3>2. u \ {x} \in SUBSET s /\ u \ {x} # s /\ u \ {x} \in SUBSET u
            BY <1>3
        <3>3. Sums(f, u)[u \ {x}] = Sums(f, u \ {x})[u \ {x}]
            BY <1>2, <1>3, <3>2, SumsAgree
        <3>4. g[u] = f[x] + part(u \ {x})
            BY <2>3 DEF x
        <3>5. part(u) = f[x] + Sums(f, u)[u \ {x}]
            BY <2>1, <2>3 DEF Step, x
        <3> QED
            BY <3>3, <3>4, <3>5
    <2> QED
        BY <2>2, <2>3
<1>4. ASSUME NEW u \in SUBSET s
      PROVE  g[u] = Step(f, g, u)
    <2>1. CASE u = {}
        BY <2>1 DEF Step
    <2>2. CASE u # {}
        <3> DEFINE x == CHOOSE y \in u : TRUE
        <3>1. x \in u
            BY <2>2
        <3>2. g[u] = f[x] + part(u \ {x})
            BY <2>2
        <3>3. Step(f, g, u) = f[x] + g[u \ {x}]
            BY <2>2 DEF Step
        <3> HIDE DEF x, g
        <3>4. u \ {x} \in SUBSET s /\ u \ {x} # s
            BY <3>1
        <3> QED
            BY <1>3, <3>2, <3>3, <3>4
    <2> QED
        BY <2>1, <2>2
<1>5. SumsUpTo(f, s, g)
    BY <1>4 DEF SumsUpTo
<1> QED
    BY <1>1, <1>5

\* A sum over nothing is zero; any other is a chosen element and the rest.
LEMMA SumUnfolds ==
    ASSUME NEW f, NEW S, IsFiniteSet(S)
    PROVE  SumOver(f, S) = IF S = {} THEN 0
                           ELSE LET x == CHOOSE y \in S : TRUE IN f[x] + SumOver(f, S \ {x})
<1>1. SumOver(f, S) = Step(f, Sums(f, S), S)
    <2> DEFINE it == Sums(f, S)
    <2>1. SumsUpTo(f, S, it)
        BY SumsExist
    <2> HIDE DEF it
    <2>2. it[S] = Step(f, it, S)
        BY <2>1 DEF SumsUpTo
    <2> QED
        BY <2>2, SumIsSums DEF it
<1>2. CASE S = {}
    BY <1>1, <1>2 DEF Step
<1>3. CASE S # {}
    <2> DEFINE x == CHOOSE y \in S : TRUE
    <2>1. SumOver(f, S) = f[x] + Sums(f, S)[S \ {x}]
        BY <1>1, <1>3 DEF Step
    <2> HIDE DEF x
    <2>2. IsFiniteSet(S \ {x}) /\ S \ {x} \in SUBSET S /\ S \ {x} \in SUBSET (S \ {x})
        BY FS_Subset
    <2>3. Sums(f, S)[S \ {x}] = Sums(f, S \ {x})[S \ {x}]
        BY <2>2, SumsExist, SumsAgree
    <2>4. SumOver(f, S) = f[x] + SumOver(f, S \ {x})
        BY <2>1, <2>3, SumIsSums
    <2> QED
        BY <1>3, <2>4 DEF x
<1> QED
    BY <1>2, <1>3

\* Taking out the element the recursion chooses.
LEMMA SumTakesOne ==
    ASSUME NEW f, NEW S, IsFiniteSet(S)
    PROVE  /\ S = {} => SumOver(f, S) = 0
           /\ S # {} => \E x \in S : x = (CHOOSE y \in S : TRUE) /\ SumOver(f, S) = f[x] + SumOver(f, S \ {x})
<1>1. S = {} => SumOver(f, S) = 0
    BY SumUnfolds
<1>2. ASSUME S # {}
      PROVE  \E x \in S : x = (CHOOSE y \in S : TRUE) /\ SumOver(f, S) = f[x] + SumOver(f, S \ {x})
    <2> DEFINE x == CHOOSE y \in S : TRUE
    <2>1. SumOver(f, S) = f[x] + SumOver(f, S \ {x})
        BY <1>2, SumUnfolds
    <2>2. x \in S
        BY <1>2
    <2> QED
        BY <2>1, <2>2
<1> QED
    BY <1>1, <1>2

\* The sum of integers is an integer.
LEMMA SumType ==
    ASSUME NEW f, NEW S, IsFiniteSet(S), \A x \in S : f[x] \in Int
    PROVE  SumOver(f, S) \in Int
<1> DEFINE Bad == {s \in SUBSET S : SumOver(f, s) \notin Int}
<1> SUFFICES ASSUME Bad # {} PROVE FALSE
    OBVIOUS
<1>1. PICK s \in Bad : s \subseteq S /\ IsFiniteSet(s) /\ \A u \in SUBSET s : u # s => u \notin Bad
    <2>1. Bad \subseteq SUBSET S
        OBVIOUS
    <2> HIDE DEF Bad
    <2> QED
        BY <2>1, LeastSet
<1>2. s # {}
    <2>1. s = {} => SumOver(f, s) = 0
        BY <1>1, SumTakesOne
    <2> QED
        BY <1>1, <2>1
<1>3. PICK x \in s : SumOver(f, s) = f[x] + SumOver(f, s \ {x})
    BY <1>1, <1>2, SumTakesOne
<1>4. SumOver(f, s \ {x}) \in Int
    BY <1>1
<1> QED
    BY <1>1, <1>3, <1>4

\* The order in which elements are taken makes no difference.
LEMMA SumRemove ==
    ASSUME NEW f, NEW S, IsFiniteSet(S), \A x \in S : f[x] \in Int, NEW a \in S
    PROVE  SumOver(f, S) = f[a] + SumOver(f, S \ {a})
<1> DEFINE Bad == {s \in SUBSET S : \E x \in s : SumOver(f, s) # f[x] + SumOver(f, s \ {x})}
<1> SUFFICES ASSUME Bad # {} PROVE FALSE
    OBVIOUS
<1>1. PICK s \in Bad : s \subseteq S /\ IsFiniteSet(s) /\ \A u \in SUBSET s : u # s => u \notin Bad
    <2>1. Bad \subseteq SUBSET S
        OBVIOUS
    <2> HIDE DEF Bad
    <2> QED
        BY <2>1, LeastSet
<1>2. PICK b \in s : SumOver(f, s) # f[b] + SumOver(f, s \ {b})
    BY <1>1
<1>3. PICK c \in s : SumOver(f, s) = f[c] + SumOver(f, s \ {c})
    BY <1>1, <1>2, SumTakesOne
<1>4. b # c
    BY <1>2, <1>3
<1>5. SumOver(f, s \ {c}) = f[b] + SumOver(f, (s \ {c}) \ {b})
    BY <1>1, <1>4
<1>6. SumOver(f, s \ {b}) = f[c] + SumOver(f, (s \ {b}) \ {c})
    BY <1>1, <1>4
<1> DEFINE rest == (s \ {b}) \ {c}
<1>7. (s \ {c}) \ {b} = rest
    OBVIOUS
<1>8. SumOver(f, rest) \in Int /\ f[b] \in Int /\ f[c] \in Int
    BY <1>1, SumType, FS_Subset
<1>9. SumOver(f, s \ {c}) = f[b] + SumOver(f, rest) /\ SumOver(f, s \ {b}) = f[c] + SumOver(f, rest)
    BY <1>5, <1>6, <1>7
<1> HIDE DEF rest, Bad
<1> QED
    BY <1>2, <1>3, <1>8, <1>9

\* A sum depends only on what it adds.
LEMMA SumSame ==
    ASSUME NEW f, NEW g, NEW S, IsFiniteSet(S), \A x \in S : f[x] = g[x]
    PROVE  SumOver(f, S) = SumOver(g, S)
<1> DEFINE Bad == {s \in SUBSET S : SumOver(f, s) # SumOver(g, s)}
<1> SUFFICES ASSUME Bad # {} PROVE FALSE
    OBVIOUS
<1>1. PICK s \in Bad : s \subseteq S /\ IsFiniteSet(s) /\ \A u \in SUBSET s : u # s => u \notin Bad
    <2>1. Bad \subseteq SUBSET S
        OBVIOUS
    <2> HIDE DEF Bad
    <2> QED
        BY <2>1, LeastSet
<1>2. s # {}
    BY <1>1, SumTakesOne
<1>3. PICK x \in s : x = (CHOOSE y \in s : TRUE) /\ SumOver(f, s) = f[x] + SumOver(f, s \ {x})
    BY <1>1, <1>2, SumTakesOne
<1>4. SumOver(g, s) = g[x] + SumOver(g, s \ {x})
    <2>1. PICK y \in s : y = (CHOOSE z \in s : TRUE) /\ SumOver(g, s) = g[y] + SumOver(g, s \ {y})
        BY <1>1, <1>2, SumTakesOne
    <2>2. y = x
        BY <1>3, <2>1
    <2> QED
        BY <2>1, <2>2
<1>5. SumOver(f, s \ {x}) = SumOver(g, s \ {x})
    BY <1>1, <1>3
<1> QED
    BY <1>1, <1>3, <1>4, <1>5

\* Zeros add up to zero.
LEMMA SumOfZeros ==
    ASSUME NEW f, NEW S, IsFiniteSet(S), \A x \in S : f[x] = 0
    PROVE  SumOver(f, S) = 0
<1> DEFINE Bad == {s \in SUBSET S : SumOver(f, s) # 0}
<1> SUFFICES ASSUME Bad # {} PROVE FALSE
    OBVIOUS
<1>1. PICK s \in Bad : s \subseteq S /\ IsFiniteSet(s) /\ \A u \in SUBSET s : u # s => u \notin Bad
    <2>1. Bad \subseteq SUBSET S
        OBVIOUS
    <2> HIDE DEF Bad
    <2> QED
        BY <2>1, LeastSet
<1>2. s # {}
    <2>1. s = {} => SumOver(f, s) = 0
        BY <1>1, SumTakesOne
    <2> QED
        BY <1>1, <2>1
<1>3. PICK x \in s : SumOver(f, s) = f[x] + SumOver(f, s \ {x})
    BY <1>1, <1>2, SumTakesOne
<1>4. SumOver(f, s \ {x}) = 0
    BY <1>1
<1> QED
    BY <1>1, <1>3, <1>4

\* Changing one number changes the sum by as much.
LEMMA SumChange ==
    ASSUME NEW f, NEW g, NEW S, IsFiniteSet(S), NEW a \in S,
           \A x \in S : f[x] \in Int /\ g[x] \in Int /\ (x # a => f[x] = g[x])
    PROVE  SumOver(g, S) = SumOver(f, S) - f[a] + g[a] /\ SumOver(f, S) \in Int
<1>1. IsFiniteSet(S \ {a})
    BY FS_Subset
<1>2. SumOver(f, S \ {a}) = SumOver(g, S \ {a})
    BY <1>1, SumSame
<1>3. SumOver(f, S) = f[a] + SumOver(f, S \ {a}) /\ SumOver(g, S) = g[a] + SumOver(g, S \ {a})
    BY SumRemove
<1>4. SumOver(f, S \ {a}) \in Int
    BY <1>1, SumType
<1> QED
    BY <1>2, <1>3, <1>4

\* A part of what is counted is no more than the whole.
LEMMA SumSubset ==
    ASSUME NEW f, NEW S, IsFiniteSet(S), \A x \in S : f[x] \in Nat
    PROVE  \A T \in SUBSET S : SumOver(f, T) <= SumOver(f, S) /\ SumOver(f, T) \in Nat
<1> DEFINE Bad == {s \in SUBSET S : \E T \in SUBSET s : ~(SumOver(f, T) <= SumOver(f, s) /\ SumOver(f, T) \in Nat)}
<1> SUFFICES ASSUME Bad # {} PROVE FALSE
    OBVIOUS
<1>1. PICK s \in Bad : s \subseteq S /\ IsFiniteSet(s) /\ \A u \in SUBSET s : u # s => u \notin Bad
    <2>1. Bad \subseteq SUBSET S
        OBVIOUS
    <2> HIDE DEF Bad
    <2> QED
        BY <2>1, LeastSet
<1>2. PICK T \in SUBSET s : ~(SumOver(f, T) <= SumOver(f, s) /\ SumOver(f, T) \in Nat)
    BY <1>1
<1>3. s # {}
    <2>1. s = {} => SumOver(f, s) = 0
        BY <1>1, SumTakesOne
    <2>2. s = {} => T = s
        OBVIOUS
    <2> QED
        BY <1>2, <2>1, <2>2
<1>4. PICK x \in s : x \notin T \/ T = s
    BY <1>3
<1>5. SumOver(f, s) = f[x] + SumOver(f, s \ {x}) /\ f[x] \in Nat
    BY <1>1, SumRemove
<1>6. \A U \in SUBSET (s \ {x}) : SumOver(f, U) <= SumOver(f, s \ {x}) /\ SumOver(f, U) \in Nat
    BY <1>1, <1>4
<1>7. SumOver(f, s \ {x}) \in Nat
    BY <1>6
<1> QED
    BY <1>2, <1>4, <1>5, <1>6, <1>7

\* What is zero adds nothing.
LEMMA SumWithoutZeros ==
    ASSUME NEW f, NEW S, IsFiniteSet(S), \A x \in S : f[x] \in Int,
           NEW T \in SUBSET S, \A x \in S \ T : f[x] = 0
    PROVE  SumOver(f, S) = SumOver(f, T)
<1> DEFINE Bad == {s \in SUBSET S : T \subseteq s /\ SumOver(f, s) # SumOver(f, T)}
<1> SUFFICES ASSUME Bad # {} PROVE FALSE
    OBVIOUS
<1>1. PICK s \in Bad : s \subseteq S /\ IsFiniteSet(s) /\ \A u \in SUBSET s : u # s => u \notin Bad
    <2>1. Bad \subseteq SUBSET S
        OBVIOUS
    <2> HIDE DEF Bad
    <2> QED
        BY <2>1, LeastSet
<1>2. PICK x \in s : x \notin T
    <2>1. T \subseteq s /\ s # T
        BY <1>1
    <2> QED
        BY <2>1
<1>3. SumOver(f, s) = f[x] + SumOver(f, s \ {x}) /\ f[x] = 0
    BY <1>1, <1>2, SumRemove
<1>4. SumOver(f, s \ {x}) = SumOver(f, T)
    BY <1>1, <1>2
<1>5. SumOver(f, T) \in Int
    BY FS_Subset, SumType
<1> QED
    BY <1>1, <1>3, <1>4, <1>5

-----------------------------------------------------------------------------
\* The minutes a ledger can have rows for are finitely many.
LEMMA MinutesFinite ==
    /\ IsFiniteSet(Minutes) /\ Minutes \subseteq Nat
    /\ \A S \in SUBSET Minutes : IsFiniteSet(S)
<1>1. IsFiniteSet(Minutes) /\ Minutes \subseteq Nat
    BY BudgetNumbers, FS_Interval DEF Minutes
<1> QED
    BY <1>1, FS_Subset

\* The least of three numbers is one of them, and none is below it.
LEMMA LeastOfThree ==
    ASSUME NEW a \in Int, NEW b \in Int, NEW c \in Int
    PROVE  /\ Least({a, b, c}) \in Int
           /\ Least({a, b, c}) <= a /\ Least({a, b, c}) <= b /\ Least({a, b, c}) <= c
<1>1. \E x \in {a, b, c} : \A y \in {a, b, c} : x <= y
    <2>1. CASE a <= b /\ a <= c
        BY <2>1
    <2>2. CASE b <= a /\ b <= c
        BY <2>2
    <2>3. CASE c <= a /\ c <= b
        BY <2>3
    <2> QED
        BY <2>1, <2>2, <2>3
<1>2. Least({a, b, c}) \in {a, b, c} /\ \A y \in {a, b, c} : Least({a, b, c}) <= y
    BY <1>1 DEF Least
<1> QED
    BY <1>2

\* What is reserved since a day began is a number of messages.
LEMMA TodayTyped ==
    ASSUME BudgetTypeOK, NEW m \in Minutes
    PROVE  Today(m) \in Int
<1> DEFINE rows == {w \in Windows : Day(w) >= Day(m)}
<1>1. rows \in SUBSET Minutes /\ \A w \in rows : reserved[w] \in Int
    BY DEF Windows, BudgetTypeOK, Absent
<1>2. SumOver(reserved, rows) \in Int
    BY <1>1, MinutesFinite, SumType
<1> QED
    BY <1>2 DEF Today

\* A grant is never negative, and what is granted fits under the cap.
LEMMA GrantFits ==
    ASSUME BudgetTypeOK, NEW m \in Minutes, NEW rate \in Rates, NEW requested \in Requests
    PROVE  /\ Grant(m, rate, requested) \in Nat
           /\ Grant(m, rate, requested) > 0 => Grant(m, rate, requested) + Today(m) <= DailyCap
<1>1. rate \in Nat /\ requested \in Nat /\ DailyCap \in Nat /\ Today(m) \in Int
    BY BudgetNumbers, TodayTyped
<1>2. ThisMinute(m) \in Int
    BY DEF ThisMinute, BudgetTypeOK, Absent
<1> DEFINE leftNow == rate - ThisMinute(m)
           leftToday == DailyCap - Today(m)
           least == Least({requested, leftNow, leftToday})
<1>3. least \in Int /\ least <= leftToday
    <2>1. requested \in Int /\ leftNow \in Int /\ leftToday \in Int
        BY <1>1, <1>2
    <2> HIDE DEF leftNow, leftToday
    <2> QED
        BY <2>1, LeastOfThree
<1> HIDE DEF least
<1>4. Grant(m, rate, requested) = IF least < 0 THEN 0 ELSE least
    BY DEF Grant, AtLeast, least
<1> QED
    BY <1>1, <1>3, <1>4

-----------------------------------------------------------------------------
\* The state of the ledger is typed.
LEMMA BudgetInitTyped == BudgetInit => BudgetTypeOK
BY BudgetNumbers DEF BudgetInit, BudgetTypeOK, Minutes, Absent

LEMMA BudgetStepTyped == BudgetTypeOK /\ [BudgetNext]_budgetVars => BudgetTypeOK'
<1> SUFFICES ASSUME BudgetTypeOK, [BudgetNext]_budgetVars PROVE BudgetTypeOK'
    OBVIOUS
<1> USE BudgetNumbers
<1>1. ASSUME MinutePasses PROVE BudgetTypeOK'
    BY <1>1 DEF MinutePasses, BudgetTypeOK, Minutes
<1>2. ASSUME NEW t \in Ticks, BeginReserve(t) PROVE BudgetTypeOK'
    BY <1>2 DEF BeginReserve, BudgetTypeOK
<1>3. ASSUME NEW t \in Ticks, NEW rate \in Rates, NEW requested \in Requests, Reserve(t, rate, requested)
      PROVE  BudgetTypeOK'
    <2> DEFINE g == Grant(window[t], rate, requested)
    <2>1. window[t] \in Minutes /\ ThisMinute(window[t]) \in Nat
        BY DEF BudgetTypeOK, ThisMinute
    <2>2. g \in Nat
        BY <2>1, GrantFits
    <2>3. /\ reserved' = [reserved EXCEPT ![window[t]] = ThisMinute(window[t]) + g]
          /\ granted' = [granted EXCEPT ![t] = g]
          /\ pc' = [pc EXCEPT ![t] = IF g = 0 THEN "idle" ELSE "claim"]
          /\ UNCHANGED <<clock, window, used, crashes>>
        BY <1>3 DEF Reserve
    <2> HIDE DEF g
    <2>4. ThisMinute(window[t]) + g \in Nat
        BY <2>1, <2>2
    <2> QED
        BY <2>2, <2>3, <2>4 DEF BudgetTypeOK
<1>4. ASSUME NEW t \in Ticks, NEW k \in 0 .. granted[t], Claim(t, k) PROVE BudgetTypeOK'
    <2>1. granted[t] \in Nat /\ window[t] \in Minutes /\ used[window[t]] \in Nat
        BY DEF BudgetTypeOK
    <2>2. Unused(t, k) \in Nat /\ used[window[t]] + k \in Nat
        BY <2>1 DEF Unused
    <2> QED
        BY <1>4, <2>2 DEF Claim, BudgetTypeOK
<1>5. ASSUME NEW t \in Ticks, Refund(t) PROVE BudgetTypeOK'
    <2> DEFINE newest == CHOOSE m \in Windows : \A w \in Windows : m >= w
    <2>1. /\ reserved' = [reserved EXCEPT ![newest] = AtLeast(@ - granted[t], 0)]
          /\ granted' = [granted EXCEPT ![t] = 0] /\ pc' = [pc EXCEPT ![t] = "idle"]
          /\ UNCHANGED <<clock, window, used, crashes>>
        BY <1>5 DEF Refund
    <2> HIDE DEF newest
    <2>2. newest \in Minutes => AtLeast(reserved[newest] - granted[t], 0) \in Nat
        BY DEF AtLeast, BudgetTypeOK, Absent
    <2> QED
        BY <2>1, <2>2 DEF BudgetTypeOK
<1>6. ASSUME NEW t \in Ticks, TickDies(t) PROVE BudgetTypeOK'
    BY <1>6 DEF TickDies, BudgetTypeOK
<1>7. ASSUME UNCHANGED budgetVars PROVE BudgetTypeOK'
    BY <1>7 DEF budgetVars, BudgetTypeOK
<1> QED
    BY <1>1, <1>2, <1>3, <1>4, <1>5, <1>6, <1>7 DEF BudgetNext
-----------------------------------------------------------------------------
Reserved == SumOver(reserved, Windows)

\* What the ledger holds, what was claimed and what is still granted are numbers.
LEMMA TotalsTyped ==
    ASSUME BudgetTypeOK
    PROVE  /\ Reserved \in Int /\ SumOver(used, Minutes) \in Int /\ SumOver(granted, Ticks) \in Nat
           /\ \A T \in SUBSET Minutes : SumOver(used, T) <= SumOver(used, Minutes)
<1>1. Windows \in SUBSET Minutes /\ \A m \in Windows : reserved[m] \in Int
    BY DEF Windows, BudgetTypeOK, Absent
<1>2. Reserved \in Int
    BY <1>1, MinutesFinite, SumType DEF Reserved
<1>3. \A m \in Minutes : used[m] \in Nat
    BY DEF BudgetTypeOK
<1>4. \A T \in SUBSET Minutes : SumOver(used, T) <= SumOver(used, Minutes) /\ SumOver(used, T) \in Nat
    BY <1>3, MinutesFinite, SumSubset
<1>5. \A t \in Ticks : granted[t] \in Nat
    BY DEF BudgetTypeOK
<1>6. SumOver(granted, Ticks) \in Nat
    BY <1>5, BudgetNumbers, SumSubset
<1> QED
    BY <1>2, <1>4, <1>6

\* The same of the state after a step.
LEMMA TotalsPrimed == (BudgetTypeOK => Reserved \in Int)'
<1>1. BudgetTypeOK => Reserved \in Int
    BY TotalsTyped
<1> QED
    BY <1>1, PTL

\* Writing one window moves the ledger's total by what the window gains.
LEMMA WindowWritten ==
    ASSUME BudgetTypeOK, NEW m \in Minutes, NEW v \in Nat,
           \A w \in Minutes : reserved'[w] = IF w = m THEN v ELSE reserved[w]
    PROVE  Reserved' = Reserved - ThisMinute(m) + v
<1>1. Windows \in SUBSET Minutes /\ \A w \in Windows : reserved[w] \in Int
    BY DEF Windows, BudgetTypeOK, Absent
<1>2. Windows' = Windows \cup {m}
    BY DEF Windows, BudgetTypeOK, Absent
<1>3. IsFiniteSet(Windows) /\ IsFiniteSet(Windows')
    BY <1>1, <1>2, MinutesFinite, FS_AddElement
<1>4. reserved'[m] = v /\ \A w \in Windows \ {m} : reserved'[w] = reserved[w]
    BY <1>1 DEF BudgetTypeOK
<1>5. CASE m \in Windows
    <2>1. Windows' = Windows /\ ThisMinute(m) = reserved[m]
        BY <1>2, <1>5 DEF ThisMinute, Windows
    <2>2. \A w \in Windows : reserved[w] \in Int /\ reserved'[w] \in Int /\ (w # m => reserved[w] = reserved'[w])
        BY <1>1, <1>4
    <2>3. SumOver(reserved', Windows) = SumOver(reserved, Windows) - reserved[m] + reserved'[m]
        BY <1>3, <1>5, <2>2, SumChange
    <2> QED
        BY <1>4, <2>1, <2>3 DEF Reserved
<1>6. CASE m \notin Windows
    <2>1. ThisMinute(m) = 0 /\ Windows' \ {m} = Windows
        BY <1>2, <1>6 DEF ThisMinute, Windows
    <2>2. \A w \in Windows' : reserved'[w] \in Int
        BY <1>1, <1>2, <1>4
    <2>3. SumOver(reserved', Windows') = v + SumOver(reserved', Windows)
        BY <1>2, <1>3, <1>4, <2>1, <2>2, SumRemove
    <2>4. SumOver(reserved', Windows) = SumOver(reserved, Windows) /\ SumOver(reserved, Windows) \in Int
        BY <1>1, <1>3, <1>4, <1>6, SumSame, SumType
    <2> QED
        BY <2>1, <2>3, <2>4 DEF Reserved
<1> QED
    BY <1>5, <1>6

\* So does a tick's grant, and so does a minute's claim.
LEMMA GrantWritten ==
    ASSUME BudgetTypeOK, NEW t \in Ticks, NEW v \in Nat,
           \A x \in Ticks : granted'[x] = IF x = t THEN v ELSE granted[x]
    PROVE  SumOver(granted', Ticks) = SumOver(granted, Ticks) - granted[t] + v
<1>1. \A x \in Ticks : granted[x] \in Int /\ granted'[x] \in Int /\ (x # t => granted[x] = granted'[x])
    BY DEF BudgetTypeOK
<1>2. granted'[t] = v
    BY DEF BudgetTypeOK
<1> QED
    BY <1>1, <1>2, BudgetNumbers, SumChange

LEMMA ClaimWritten ==
    ASSUME BudgetTypeOK, NEW m \in Minutes, NEW k \in Nat,
           \A x \in Minutes : used'[x] = IF x = m THEN used[x] + k ELSE used[x]
    PROVE  SumOver(used', Minutes) = SumOver(used, Minutes) + k
<1>1. \A x \in Minutes : used[x] \in Int /\ used'[x] \in Int /\ (x # m => used[x] = used'[x])
    BY DEF BudgetTypeOK
<1>2. used'[m] = used[m] + k
    BY DEF BudgetTypeOK
<1>3. IsFiniteSet(Minutes)
    BY MinutesFinite
<1>4. SumOver(used', Minutes) = SumOver(used, Minutes) - used[m] + used'[m] /\ SumOver(used, Minutes) \in Int
    BY <1>1, <1>3, SumChange
<1> QED
    BY <1>1, <1>2, <1>4

\* What is claimed and granted comes out of what is reserved: a refund takes
\* no more from the ledger than the grant it hands back.
LEMMA BudgetStepForgetsNothing ==
    BudgetTypeOK /\ NothingIsForgotten /\ [BudgetNext]_budgetVars => NothingIsForgotten'
<1> SUFFICES ASSUME BudgetTypeOK, NothingIsForgotten, [BudgetNext]_budgetVars PROVE NothingIsForgotten'
    OBVIOUS
<1> DEFINE U == SumOver(used, Minutes)
           G == SumOver(granted, Ticks)
<1>1. Reserved \in Int /\ U \in Int /\ G \in Int /\ Reserved >= U + G
    BY TotalsTyped DEF NothingIsForgotten, Reserved
<1> SUFFICES Reserved' >= U' + G'
    BY DEF NothingIsForgotten, Reserved
<1>2. ASSUME UNCHANGED <<reserved, used, granted>> PROVE Reserved' >= U' + G'
    BY <1>1, <1>2 DEF Reserved, Windows
<1>3. ASSUME NEW t \in Ticks, NEW rate \in Rates, NEW requested \in Requests, Reserve(t, rate, requested)
      PROVE  Reserved' >= U' + G'
    <2> DEFINE g == Grant(window[t], rate, requested)
    <2>1. window[t] \in Minutes /\ ThisMinute(window[t]) \in Nat /\ granted[t] \in Nat
        BY DEF BudgetTypeOK, ThisMinute
    <2>2. g \in Nat
        BY <2>1, GrantFits
    <2>3. /\ \A w \in Minutes : reserved'[w] = IF w = window[t] THEN ThisMinute(window[t]) + g ELSE reserved[w]
          /\ \A x \in Ticks : granted'[x] = IF x = t THEN g ELSE granted[x]
          /\ used' = used
        BY <1>3 DEF Reserve, BudgetTypeOK
    <2> HIDE DEF g
    <2>4. ThisMinute(window[t]) + g \in Nat
        BY <2>1, <2>2
    <2>5. Reserved' = Reserved - ThisMinute(window[t]) + (ThisMinute(window[t]) + g)
        BY <2>1, <2>3, <2>4, WindowWritten
    <2>6. G' = G - granted[t] + g /\ U' = U
        BY <2>2, <2>3, GrantWritten
    <2> HIDE DEF U, G
    <2> QED
        BY <1>1, <2>1, <2>2, <2>5, <2>6
<1>4. ASSUME NEW t \in Ticks, NEW k \in 0 .. granted[t], Claim(t, k)
      PROVE  Reserved' >= U' + G'
    <2>1. granted[t] \in Nat /\ window[t] \in Minutes
        BY DEF BudgetTypeOK
    <2>2. k \in Nat /\ Unused(t, k) \in Nat /\ Unused(t, k) = granted[t] - k
        BY <2>1 DEF Unused
    <2>3. Reserved' = Reserved
        BY <1>4 DEF Claim, Reserved, Windows
    <2>6. /\ \A x \in Ticks : granted'[x] = IF x = t THEN Unused(t, k) ELSE granted[x]
          /\ \A x \in Minutes : used'[x] = IF x = window[t] THEN used[x] + k ELSE used[x]
        BY <1>4 DEF Claim, BudgetTypeOK
    <2>4. G' = G - granted[t] + Unused(t, k)
        BY <2>2, <2>6, GrantWritten
    <2>5. U' = U + k
        BY <2>1, <2>2, <2>6, ClaimWritten
    <2> HIDE DEF U, G
    <2> QED
        BY <1>1, <2>1, <2>2, <2>3, <2>4, <2>5
<1>5. ASSUME NEW t \in Ticks, Refund(t)
      PROVE  Reserved' >= U' + G'
    <2> DEFINE newest == CHOOSE m \in Windows : \A w \in Windows : m >= w
               left == AtLeast(reserved[newest] - granted[t], 0)
    <2>1. /\ reserved' = [reserved EXCEPT ![newest] = left]
          /\ granted' = [granted EXCEPT ![t] = 0] /\ used' = used
        BY <1>5 DEF Refund
    <2> HIDE DEF newest
    <2>2. granted[t] \in Nat
        BY DEF BudgetTypeOK
    <2>3. G' = G - granted[t] + 0 /\ U' = U
        <3>1. \A x \in Ticks : granted'[x] = IF x = t THEN 0 ELSE granted[x]
            BY <2>1 DEF BudgetTypeOK
        <3>2. G' = G - granted[t] + 0
            BY <3>1, GrantWritten
        <3> QED
            BY <2>1, <3>2
    <2>4. Reserved' >= Reserved - granted[t]
        <3>1. CASE newest \notin Minutes
            <4>1. reserved' = reserved
                BY <2>1, <3>1 DEF BudgetTypeOK
            <4> QED
                BY <1>1, <2>2, <4>1 DEF Reserved, Windows
        <3>2. CASE newest \in Minutes
            <4>1. left \in Nat /\ left >= ThisMinute(newest) - granted[t] /\ ThisMinute(newest) \in Nat
                BY <2>2, <3>2 DEF AtLeast, ThisMinute, BudgetTypeOK, Absent
            <4>3. \A w \in Minutes : reserved'[w] = IF w = newest THEN left ELSE reserved[w]
                BY <2>1 DEF BudgetTypeOK
            <4> HIDE DEF left
            <4>2. Reserved' = Reserved - ThisMinute(newest) + left
                BY <3>2, <4>1, <4>3, WindowWritten
            <4> QED
                BY <1>1, <2>2, <4>1, <4>2
        <3> QED
            BY <3>1, <3>2
    <2>5. Reserved' \in Int
        BY BudgetStepTyped, TotalsPrimed
    <2> HIDE DEF U, G
    <2> QED
        BY <1>1, <2>2, <2>3, <2>4, <2>5
<1>6. ASSUME NEW t \in Ticks, TickDies(t)
      PROVE  Reserved' >= U' + G'
    <2>3. granted[t] \in Nat /\ \A x \in Ticks : granted'[x] = IF x = t THEN 0 ELSE granted[x]
        BY <1>6 DEF TickDies, BudgetTypeOK
    <2>1. G' = G - granted[t] + 0
        BY <2>3, GrantWritten
    <2>2. Reserved' = Reserved /\ U' = U
        BY <1>6 DEF TickDies, Reserved, Windows
    <2> HIDE DEF U, G
    <2> QED
        BY <1>1, <2>1, <2>2, <2>3
<1>7. ASSUME MinutePasses PROVE Reserved' >= U' + G'
    BY <1>2, <1>7 DEF MinutePasses
<1>8. ASSUME NEW t \in Ticks, BeginReserve(t) PROVE Reserved' >= U' + G'
    BY <1>2, <1>8 DEF BeginReserve
<1>9. ASSUME UNCHANGED budgetVars PROVE Reserved' >= U' + G'
    BY <1>2, <1>9 DEF budgetVars
<1> QED
    BY <1>3, <1>4, <1>5, <1>6, <1>7, <1>8, <1>9 DEF BudgetNext
-----------------------------------------------------------------------------
\* At first nothing is reserved, claimed or granted.
LEMMA BudgetInitForgetsNothing == BudgetInit => NothingIsForgotten /\ Reserved = 0
<1> SUFFICES ASSUME BudgetInit PROVE NothingIsForgotten /\ Reserved = 0
    OBVIOUS
<1>1. Windows = {}
    BY DEF BudgetInit, Windows
<1>2. Reserved = 0
    BY <1>1, FS_EmptySet, SumTakesOne DEF Reserved
<1>3. SumOver(used, Minutes) = 0
    BY MinutesFinite, SumOfZeros DEF BudgetInit
<1>4. SumOver(granted, Ticks) = 0
    BY BudgetNumbers, SumOfZeros DEF BudgetInit
<1> QED
    BY <1>2, <1>3, <1>4 DEF NothingIsForgotten, Reserved

\* Taken over all windows the ledger never forgets a message, however ticks
\* overlap, die and refund, over any number of minutes and midnights.
THEOREM LedgerForgetsNothing == BudgetSpec => []NothingIsForgotten
<1> DEFINE Inv == BudgetTypeOK /\ NothingIsForgotten
<1>1. BudgetInit => Inv
    BY BudgetInitTyped, BudgetInitForgetsNothing
<1>2. Inv /\ [BudgetNext]_budgetVars => Inv'
    BY BudgetStepTyped, BudgetStepForgetsNothing
<1> QED
    BY <1>1, <1>2, PTL DEF BudgetSpec

-----------------------------------------------------------------------------
(* The cap of each day.  The ledger is read day by day: what a day's       *)
(* windows hold covers what was claimed on them and what is still granted. *)

OnDay(d)      == {m \in Minutes : Day(m) = d}
ReservedOn(d) == SumOver([m \in Minutes |-> ThisMinute(m)], OnDay(d))
GrantsOn(d)   == [t \in Ticks |-> IF Day(window[t]) = d THEN granted[t] ELSE 0]
GrantedOn(d)  == SumOver(GrantsOn(d), Ticks)

\* Only a tick that has reserved holds a grant, and its window has a row.
GrantsAreReserved == \A t \in Ticks :
    /\ pc[t] \in {"idle", "reserve"} => granted[t] = 0
    /\ pc[t] \in {"claim", "refund"} => reserved[window[t]] # Absent

DaysCoverClaims == \A m \in Minutes :
    /\ ReservedOn(Day(m)) <= DailyCap
    /\ UsedOn(Day(m)) + GrantedOn(Day(m)) <= ReservedOn(Day(m))

CapInv == BudgetTypeOK /\ GrantsAreReserved /\ DaysCoverClaims

\* What the refund of 0013 takes for granted when it picks the newest window:
\* no window is of a later day than the reservation it gives back to.
RefundsFindTheirDay ==
    [][\A t \in Ticks : Refund(t) => \A w \in Windows : Day(w) <= Day(window[t])]_budgetVars

\* A later minute is of no earlier day.
LEMMA DayGrows ==
    ASSUME NEW a \in Nat, NEW b \in Nat, a <= b
    PROVE  Day(a) <= Day(b)
<1>1. MinutesPerDay \in Nat /\ MinutesPerDay > 0
    BY BudgetNumbers
<1> DEFINE p == MinutesPerDay
           i == a \div p
           j == b \div p
<1>2. /\ i \in Int /\ a = p * i + (a % p) /\ a % p \in 0 .. p - 1
      /\ j \in Int /\ b = p * j + (b % p) /\ b % p \in 0 .. p - 1
    BY <1>1
<1>3. SUFFICES ASSUME i > j PROVE FALSE
    BY <1>2 DEF Day
<1> HIDE DEF i, j
<1>4. p * i >= p * (j + 1)
    BY <1>1, <1>2, <1>3
<1> QED
    BY <1>1, <1>2, <1>4

\* What a day's windows hold, what was claimed on them and what is granted on
\* them are numbers.
LEMMA DayNumbers ==
    ASSUME BudgetTypeOK, NEW d
    PROVE  /\ ReservedOn(d) \in Int /\ UsedOn(d) \in Int /\ GrantedOn(d) \in Nat
           /\ IsFiniteSet(OnDay(d)) /\ OnDay(d) \subseteq Minutes
<1>1. IsFiniteSet(OnDay(d)) /\ OnDay(d) \subseteq Minutes
    BY MinutesFinite DEF OnDay
<1> DEFINE rows == [m \in Minutes |-> ThisMinute(m)]
<1>2. \A m \in OnDay(d) : rows[m] \in Int
    BY <1>1 DEF BudgetTypeOK, ThisMinute, Absent
<1>3. SumOver(rows, OnDay(d)) \in Int
    <2> HIDE DEF rows
    <2> QED
        BY <1>1, <1>2, SumType
<1>4. \A m \in OnDay(d) : used[m] \in Int
    BY <1>1 DEF BudgetTypeOK
<1>5. SumOver(used, OnDay(d)) \in Int
    BY <1>1, <1>4, SumType
<1>6. \A t \in Ticks : GrantsOn(d)[t] \in Nat
    BY DEF BudgetTypeOK, GrantsOn
<1>7. GrantedOn(d) \in Nat
    BY <1>6, BudgetNumbers, SumSubset DEF GrantedOn
<1> QED
    BY <1>1, <1>3, <1>5, <1>7 DEF ReservedOn, UsedOn, OnDay

\* Writing a window moves the total of its own day only.
LEMMA RowWritten ==
    ASSUME BudgetTypeOK, NEW d, NEW m \in Minutes, NEW v \in Nat,
           \A w \in Minutes : reserved'[w] = IF w = m THEN v ELSE reserved[w]
    PROVE  ReservedOn(d)' = IF Day(m) = d THEN ReservedOn(d) - ThisMinute(m) + v ELSE ReservedOn(d)
<1> DEFINE rows == [w \in Minutes |-> ThisMinute(w)]
           rowsN == [w \in Minutes |-> ThisMinute(w)']
<1>1. IsFiniteSet(OnDay(d)) /\ OnDay(d) \subseteq Minutes
    BY DayNumbers
<1>2. \A w \in Minutes : rowsN[w] = (IF w = m THEN v ELSE rows[w]) /\ rows[w] \in Int /\ rowsN[w] \in Int
    BY DEF ThisMinute, BudgetTypeOK, Absent
<1>3. ReservedOn(d) = SumOver(rows, OnDay(d)) /\ ReservedOn(d)' = SumOver(rowsN, OnDay(d))
    BY DEF ReservedOn
<1>4. rows[m] = ThisMinute(m) /\ rowsN[m] = v
    BY <1>2
<1> HIDE DEF rows, rowsN
<1>5. CASE Day(m) = d
    <2>1. m \in OnDay(d)
        BY <1>5 DEF OnDay
    <2>2. SumOver(rowsN, OnDay(d)) = SumOver(rows, OnDay(d)) - rows[m] + rowsN[m]
        BY <1>1, <1>2, <2>1, SumChange
    <2> QED
        BY <1>3, <1>4, <1>5, <2>2
<1>6. CASE Day(m) # d
    <2>1. m \notin OnDay(d)
        BY <1>6 DEF OnDay
    <2>2. SumOver(rows, OnDay(d)) = SumOver(rowsN, OnDay(d))
        BY <1>1, <1>2, <2>1, SumSame
    <2> QED
        BY <1>3, <1>6, <2>2
<1> QED
    BY <1>5, <1>6

\* So does a claim, and so does what a tick is granted or hands back.
LEMMA DayClaimWritten ==
    ASSUME BudgetTypeOK, NEW d, NEW m \in Minutes, NEW k \in Nat,
           \A x \in Minutes : used'[x] = IF x = m THEN used[x] + k ELSE used[x]
    PROVE  UsedOn(d)' = IF Day(m) = d THEN UsedOn(d) + k ELSE UsedOn(d)
<1>1. IsFiniteSet(OnDay(d)) /\ OnDay(d) \subseteq Minutes
    BY DayNumbers
<1>2. \A x \in Minutes : used[x] \in Int /\ used'[x] \in Int
    BY DEF BudgetTypeOK
<1>3. UsedOn(d) = SumOver(used, OnDay(d)) /\ UsedOn(d)' = SumOver(used', OnDay(d))
    BY DEF UsedOn, OnDay
<1>4. CASE Day(m) = d
    <2>1. m \in OnDay(d)
        BY <1>4 DEF OnDay
    <2>2. SumOver(used', OnDay(d)) = SumOver(used, OnDay(d)) - used[m] + used'[m] /\ SumOver(used, OnDay(d)) \in Int
        BY <1>1, <1>2, <2>1, SumChange
    <2> QED
        BY <1>2, <1>3, <1>4, <2>2
<1>5. CASE Day(m) # d
    <2>1. m \notin OnDay(d)
        BY <1>5 DEF OnDay
    <2>2. SumOver(used, OnDay(d)) = SumOver(used', OnDay(d))
        BY <1>1, <2>1, SumSame
    <2> QED
        BY <1>3, <1>5, <2>2
<1> QED
    BY <1>4, <1>5

LEMMA DayGrantWritten ==
    ASSUME BudgetTypeOK, NEW d, NEW t \in Ticks, NEW v \in Nat, window' = window,
           \A x \in Ticks : granted'[x] = IF x = t THEN v ELSE granted[x]
    PROVE  GrantedOn(d)' = IF Day(window[t]) = d THEN GrantedOn(d) - granted[t] + v ELSE GrantedOn(d)
<1> DEFINE f == GrantsOn(d)
           g == GrantsOn(d)'
<1>1. \A x \in Ticks : /\ f[x] \in Int /\ g[x] \in Int
                       /\ x # t => f[x] = g[x]
                       /\ Day(window[t]) # d => f[x] = g[x]
    BY DEF GrantsOn, BudgetTypeOK, Day
<1>2. Day(window[t]) = d => f[t] = granted[t] /\ g[t] = v
    BY DEF GrantsOn, Day
<1>3. GrantedOn(d) = SumOver(f, Ticks) /\ GrantedOn(d)' = SumOver(g, Ticks)
    BY DEF GrantedOn
<1> HIDE DEF f, g
<1>4. SumOver(g, Ticks) = SumOver(f, Ticks) - f[t] + g[t]
    BY <1>1, BudgetNumbers, SumChange
<1>5. Day(window[t]) # d => SumOver(f, Ticks) = SumOver(g, Ticks)
    BY <1>1, BudgetNumbers, SumSame
<1> QED
    BY <1>2, <1>3, <1>4, <1>5

\* What the grant of a minute leaves alone: all that its day's windows hold is
\* among what is reserved since the day began.
LEMMA TodayCoversTheDay ==
    ASSUME BudgetTypeOK, NEW m \in Minutes
    PROVE  ReservedOn(Day(m)) <= Today(m)
<1> DEFINE rows  == [w \in Minutes |-> ThisMinute(w)]
           since == {w \in Windows : Day(w) >= Day(m)}
           here  == {w \in Windows : Day(w) = Day(m)}
<1>1. /\ since \in SUBSET Minutes /\ IsFiniteSet(since)
      /\ here \in SUBSET since /\ here \in SUBSET OnDay(Day(m))
      /\ IsFiniteSet(OnDay(Day(m))) /\ OnDay(Day(m)) \subseteq Minutes
    <2>1. \A w \in Minutes : Day(w) \in Int
        BY BudgetNumbers, MinutesFinite DEF Day
    <2>2. here \in SUBSET since
        BY <2>1 DEF Windows
    <2> QED
        BY <2>2, DayNumbers, MinutesFinite DEF Windows, OnDay
<1>2. \A w \in Minutes : /\ rows[w] \in Nat
                         /\ w \in Windows => rows[w] = reserved[w]
                         /\ w \notin Windows => rows[w] = 0
    BY DEF ThisMinute, Windows, BudgetTypeOK, Absent
<1>3. \A w \in OnDay(Day(m)) \ here : rows[w] = 0
    BY <1>2 DEF OnDay
<1>4. ReservedOn(Day(m)) = SumOver(rows, OnDay(Day(m))) /\ Today(m) = SumOver(reserved, since)
    BY DEF ReservedOn, Today
<1>5. since \subseteq Windows
    OBVIOUS
<1> HIDE DEF rows, since, here
<1>6. SumOver(rows, OnDay(Day(m))) = SumOver(rows, here)
    BY <1>1, <1>2, <1>3, SumWithoutZeros
<1>7. SumOver(rows, here) <= SumOver(rows, since)
    BY <1>1, <1>2, SumSubset
<1>8. SumOver(rows, since) = SumOver(reserved, since)
    BY <1>1, <1>2, <1>5, SumSame
<1> QED
    BY <1>4, <1>6, <1>7, <1>8

\* At first no day has anything.
LEMMA CapAtFirst == BudgetInit => CapInv
<1> SUFFICES ASSUME BudgetInit PROVE CapInv
    OBVIOUS
<1>1. BudgetTypeOK /\ GrantsAreReserved
    BY BudgetInitTyped DEF BudgetInit, GrantsAreReserved
<1>2. ASSUME NEW m \in Minutes
      PROVE  ReservedOn(Day(m)) = 0 /\ UsedOn(Day(m)) = 0 /\ GrantedOn(Day(m)) = 0
    <2>1. IsFiniteSet(OnDay(Day(m))) /\ OnDay(Day(m)) \subseteq Minutes
        BY <1>1, DayNumbers
    <2>2. \A w \in OnDay(Day(m)) : [x \in Minutes |-> ThisMinute(x)][w] = 0 /\ used[w] = 0
        BY <2>1 DEF BudgetInit, ThisMinute
    <2>3. ReservedOn(Day(m)) = 0 /\ SumOver(used, OnDay(Day(m))) = 0
        BY <2>1, <2>2, SumOfZeros DEF ReservedOn
    <2>4. \A t \in Ticks : GrantsOn(Day(m))[t] = 0
        BY DEF BudgetInit, GrantsOn
    <2>5. GrantedOn(Day(m)) = 0
        BY <2>4, BudgetNumbers, SumOfZeros DEF GrantedOn
    <2> QED
        BY <2>3, <2>5 DEF UsedOn, OnDay
<1>3. DaysCoverClaims
    BY <1>2, BudgetNumbers DEF DaysCoverClaims
<1> QED
    BY <1>1, <1>3 DEF CapInv

\* A tick that claims or refunds has reserved, and only such a tick has a grant.
LEMMA BudgetStepReservesGrants ==
    BudgetTypeOK /\ GrantsAreReserved /\ [BudgetNext]_budgetVars => GrantsAreReserved'
<1> SUFFICES ASSUME BudgetTypeOK, GrantsAreReserved, [BudgetNext]_budgetVars
             PROVE  GrantsAreReserved'
    OBVIOUS
<1>1. ASSUME MinutePasses PROVE GrantsAreReserved'
    BY <1>1 DEF MinutePasses, GrantsAreReserved
<1>2. ASSUME NEW t \in Ticks, BeginReserve(t) PROVE GrantsAreReserved'
    BY <1>2 DEF BeginReserve, GrantsAreReserved, BudgetTypeOK
<1>3. ASSUME NEW t \in Ticks, NEW rate \in Rates, NEW requested \in Requests, Reserve(t, rate, requested)
      PROVE  GrantsAreReserved'
    <2> DEFINE g == Grant(window[t], rate, requested)
    <2>1. window[t] \in Minutes /\ g \in Nat /\ ThisMinute(window[t]) \in Nat
        BY GrantFits DEF BudgetTypeOK, ThisMinute
    <2>2. /\ reserved' = [reserved EXCEPT ![window[t]] = ThisMinute(window[t]) + g]
          /\ granted' = [granted EXCEPT ![t] = g]
          /\ pc' = [pc EXCEPT ![t] = IF g = 0 THEN "idle" ELSE "claim"] /\ window' = window
        BY <1>3 DEF Reserve
    <2> HIDE DEF g
    <2>3. \A w \in Minutes : reserved[w] # Absent => reserved'[w] # Absent
        BY <2>1, <2>2 DEF BudgetTypeOK, Absent
    <2>4. reserved'[window[t]] # Absent
        BY <2>1, <2>2 DEF BudgetTypeOK, Absent
    <2> QED
        BY <2>1, <2>2, <2>3, <2>4 DEF GrantsAreReserved, BudgetTypeOK
<1>4. ASSUME NEW t \in Ticks, NEW k \in 0 .. granted[t], Claim(t, k) PROVE GrantsAreReserved'
    BY <1>4 DEF Claim, Unused, GrantsAreReserved, BudgetTypeOK
<1>5. ASSUME NEW t \in Ticks, Refund(t) PROVE GrantsAreReserved'
    <2> DEFINE newest == CHOOSE m \in Windows : \A w \in Windows : m >= w
    <2>1. /\ reserved' = [reserved EXCEPT ![newest] = AtLeast(@ - granted[t], 0)]
          /\ granted' = [granted EXCEPT ![t] = 0] /\ pc' = [pc EXCEPT ![t] = "idle"] /\ window' = window
        BY <1>5 DEF Refund
    <2> HIDE DEF newest
    <2>2. \A w \in Minutes : reserved[w] # Absent => reserved'[w] # Absent
        BY <2>1 DEF BudgetTypeOK, AtLeast, Absent
    <2> QED
        BY <2>1, <2>2 DEF GrantsAreReserved, BudgetTypeOK
<1>6. ASSUME NEW t \in Ticks, TickDies(t) PROVE GrantsAreReserved'
    BY <1>6 DEF TickDies, GrantsAreReserved, BudgetTypeOK
<1>7. ASSUME UNCHANGED budgetVars PROVE GrantsAreReserved'
    BY <1>7 DEF budgetVars, GrantsAreReserved
<1> QED
    BY <1>1, <1>2, <1>3, <1>4, <1>5, <1>6, <1>7 DEF BudgetNext

\* The newest window of a ledger whose windows are none of a later day than m.
LEMMA NewestIsOfTheDay ==
    ASSUME BudgetTypeOK, NEW m \in Windows, \A w \in Windows : Day(w) <= Day(m)
    PROVE  LET newest == CHOOSE x \in Windows : \A w \in Windows : x >= w
           IN  newest \in Windows /\ Day(newest) = Day(m)
<1> DEFINE newest == CHOOSE x \in Windows : \A w \in Windows : x >= w
<1>1. Windows \subseteq Nat /\ Windows \subseteq 0 .. LastMinute
    BY MinutesFinite DEF Windows, Minutes
<1>2. \E x \in Windows : \A w \in Windows : x >= w
    <2> DEFINE Bad == {s \in SUBSET Windows : s # {} /\ ~\E x \in s : \A w \in s : x >= w}
    <2> SUFFICES ASSUME Bad # {} PROVE FALSE
        OBVIOUS
    <2>1. PICK s \in Bad : s \subseteq Windows /\ \A u \in SUBSET s : u # s => u \notin Bad
        <3>1. Bad \subseteq SUBSET Windows /\ IsFiniteSet(Windows)
            BY MinutesFinite DEF Windows
        <3> HIDE DEF Bad
        <3> QED
            BY <3>1, LeastSet
    <2>2. PICK x \in s : TRUE
        BY <2>1
    <2>3. s \ {x} # {}
        BY <1>1, <2>1, <2>2
    <2>4. PICK y \in s \ {x} : \A w \in s \ {x} : y >= w
        BY <2>1, <2>2, <2>3
    <2> QED
        BY <1>1, <2>1, <2>2, <2>4
<1>3. newest \in Windows /\ newest >= m
    BY <1>2
<1> HIDE DEF newest
<1>4. Day(newest) >= Day(m) /\ Day(newest) <= Day(m)
    <2>1. newest \in Nat /\ m \in Nat /\ MinutesPerDay \in Nat /\ MinutesPerDay > 0
        BY <1>1, <1>3, BudgetNumbers
    <2>2. Day(newest) >= Day(m)
        BY <1>3, <2>1, DayGrows
    <2> QED
        BY <1>3, <2>2
<1>5. Day(newest) \in Int /\ Day(m) \in Int
    BY <1>1, <1>3, BudgetNumbers DEF Day
<1> QED
    BY <1>3, <1>4, <1>5 DEF newest

\* No step makes a day hold more than the cap or less than its claims: a grant
\* fits under what is reserved since the day began, a claim uses up the grant,
\* and a refund, if it finds its own day, takes no more than it hands back.
LEMMA BudgetStepCoversClaims ==
    ASSUME CapInv, [BudgetNext]_budgetVars,
           \A t \in Ticks : Refund(t) => \A w \in Windows : Day(w) <= Day(window[t])
    PROVE  DaysCoverClaims'
<1> USE DEF CapInv
<1> SUFFICES ASSUME NEW m \in Minutes
             PROVE  /\ ReservedOn(Day(m))' <= DailyCap
                    /\ UsedOn(Day(m))' + GrantedOn(Day(m))' <= ReservedOn(Day(m))'
    BY DEF DaysCoverClaims, Minutes, Day
<1> DEFINE d == Day(m)
           R == ReservedOn(d)
           U == UsedOn(d)
           G == GrantedOn(d)
<1>1. /\ R \in Int /\ U \in Int /\ G \in Nat /\ DailyCap \in Nat
      /\ R <= DailyCap /\ U + G <= R
    BY DayNumbers, BudgetNumbers DEF DaysCoverClaims
<1> SUFFICES R' <= DailyCap /\ U' + G' <= R'
    OBVIOUS
<1> HIDE DEF d
<1>2. ASSUME reserved' = reserved PROVE R' = R
    BY <1>2 DEF ReservedOn, ThisMinute
<1>3. ASSUME used' = used PROVE U' = U
    BY <1>3 DEF UsedOn
<1>4. ASSUME \A t \in Ticks : granted'[t] = granted[t] /\ (granted[t] # 0 => window'[t] = window[t])
      PROVE  G' = G
    <2>1. \A t \in Ticks : GrantsOn(d)[t] = GrantsOn(d)'[t]
        BY <1>4 DEF GrantsOn, Day
    <2> QED
        BY <2>1, BudgetNumbers, SumSame DEF GrantedOn
<1>5. ASSUME MinutePasses \/ UNCHANGED budgetVars PROVE R' <= DailyCap /\ U' + G' <= R'
    <2>1. R' = R /\ U' = U /\ G' = G
        BY <1>2, <1>3, <1>4, <1>5 DEF MinutePasses, budgetVars
    <2> QED
        BY <1>1, <2>1
<1>6. ASSUME NEW t \in Ticks, BeginReserve(t) PROVE R' <= DailyCap /\ U' + G' <= R'
    <2>1. reserved' = reserved /\ used' = used /\ granted' = granted
        BY <1>6 DEF BeginReserve
    <2>2. \A x \in Ticks : granted[x] # 0 => window'[x] = window[x]
        BY <1>6 DEF BeginReserve, GrantsAreReserved, BudgetTypeOK
    <2>3. R' = R /\ U' = U /\ G' = G
        BY <1>2, <1>3, <1>4, <2>1, <2>2
    <2> QED
        BY <1>1, <2>3
<1>7. ASSUME NEW t \in Ticks, NEW rate \in Rates, NEW requested \in Requests, Reserve(t, rate, requested)
      PROVE  R' <= DailyCap /\ U' + G' <= R'
    <2> DEFINE n == window[t]
               g == Grant(n, rate, requested)
    <2>1. n \in Minutes /\ ThisMinute(n) \in Nat /\ granted[t] = 0
        BY <1>7 DEF Reserve, BudgetTypeOK, ThisMinute, GrantsAreReserved
    <2>2. g \in Nat /\ (g > 0 => g + Today(n) <= DailyCap) /\ Today(n) \in Int
        BY <2>1, GrantFits, TodayTyped
    <2>3. /\ \A w \in Minutes : reserved'[w] = IF w = n THEN ThisMinute(n) + g ELSE reserved[w]
          /\ \A x \in Ticks : granted'[x] = IF x = t THEN g ELSE granted[x]
          /\ used' = used /\ window' = window
        BY <1>7 DEF Reserve, BudgetTypeOK
    <2>4. ReservedOn(Day(n)) <= Today(n)
        BY <2>1, TodayCoversTheDay
    <2> HIDE DEF g
    <2>5. ThisMinute(n) + g \in Nat
        BY <2>1, <2>2
    <2>6. R' = IF Day(n) = d THEN R - ThisMinute(n) + (ThisMinute(n) + g) ELSE R
        BY <2>1, <2>3, <2>5, RowWritten
    <2>7. G' = IF Day(n) = d THEN G - granted[t] + g ELSE G
        BY <2>2, <2>3, DayGrantWritten
    <2>8. U' = U
        BY <1>3, <2>3
    <2>9. Day(n) = d => R = ReservedOn(Day(n))
        OBVIOUS
    <2> HIDE DEF R, U, G, n
    <2> QED
        BY <1>1, <2>1, <2>2, <2>4, <2>6, <2>7, <2>8, <2>9
<1>8. ASSUME NEW t \in Ticks, NEW k \in 0 .. granted[t], Claim(t, k)
      PROVE  R' <= DailyCap /\ U' + G' <= R'
    <2>1. granted[t] \in Nat /\ window[t] \in Minutes
        BY DEF BudgetTypeOK
    <2>2. k \in Nat /\ Unused(t, k) \in Nat /\ Unused(t, k) = granted[t] - k
        BY <2>1 DEF Unused
    <2>3. /\ \A x \in Ticks : granted'[x] = IF x = t THEN Unused(t, k) ELSE granted[x]
          /\ \A x \in Minutes : used'[x] = IF x = window[t] THEN used[x] + k ELSE used[x]
          /\ reserved' = reserved /\ window' = window
        BY <1>8 DEF Claim, BudgetTypeOK
    <2>4. R' = R
        BY <1>2, <2>3
    <2>5. U' = IF Day(window[t]) = d THEN U + k ELSE U
        BY <2>1, <2>2, <2>3, DayClaimWritten
    <2>6. G' = IF Day(window[t]) = d THEN G - granted[t] + Unused(t, k) ELSE G
        BY <2>2, <2>3, DayGrantWritten
    <2> HIDE DEF R, U, G
    <2> QED
        BY <1>1, <2>1, <2>2, <2>4, <2>5, <2>6
<1>9. ASSUME NEW t \in Ticks, Refund(t)
      PROVE  R' <= DailyCap /\ U' + G' <= R'
    <2> DEFINE newest == CHOOSE x \in Windows : \A w \in Windows : x >= w
               left == AtLeast(reserved[newest] - granted[t], 0)
    <2>1. /\ reserved' = [reserved EXCEPT ![newest] = left]
          /\ granted' = [granted EXCEPT ![t] = 0] /\ used' = used /\ window' = window
        BY <1>9 DEF Refund
    <2>2. window[t] \in Windows
        BY <1>9 DEF Refund, GrantsAreReserved, BudgetTypeOK, Windows
    <2>3. newest \in Windows /\ Day(newest) = Day(window[t])
        BY <1>9, <2>2, NewestIsOfTheDay
    <2> HIDE DEF newest
    <2>4. newest \in Minutes /\ reserved[newest] \in Nat /\ ThisMinute(newest) = reserved[newest] /\ granted[t] \in Nat
        BY <2>3 DEF Windows, BudgetTypeOK, ThisMinute
    <2>5. left \in Nat /\ left <= ThisMinute(newest) /\ left >= ThisMinute(newest) - granted[t]
        BY <2>4 DEF AtLeast
    <2>6. /\ \A w \in Minutes : reserved'[w] = IF w = newest THEN left ELSE reserved[w]
          /\ \A x \in Ticks : granted'[x] = IF x = t THEN 0 ELSE granted[x]
        BY <2>1 DEF BudgetTypeOK
    <2> HIDE DEF left
    <2>7. R' = IF Day(newest) = d THEN R - ThisMinute(newest) + left ELSE R
        BY <2>4, <2>5, <2>6, RowWritten
    <2>8. G' = IF Day(window[t]) = d THEN G - granted[t] + 0 ELSE G
        BY <2>1, <2>6, DayGrantWritten
    <2>9. U' = U
        BY <1>3, <2>1
    <2> HIDE DEF R, U, G
    <2> QED
        BY <1>1, <2>3, <2>4, <2>5, <2>7, <2>8, <2>9
<1>10. ASSUME NEW t \in Ticks, TickDies(t)
      PROVE  R' <= DailyCap /\ U' + G' <= R'
    <2>1. /\ granted[t] \in Nat /\ \A x \in Ticks : granted'[x] = IF x = t THEN 0 ELSE granted[x]
          /\ reserved' = reserved /\ used' = used /\ window' = window
        BY <1>10 DEF TickDies, BudgetTypeOK
    <2>2. G' = IF Day(window[t]) = d THEN G - granted[t] + 0 ELSE G
        BY <2>1, DayGrantWritten
    <2>3. R' = R /\ U' = U
        BY <1>2, <1>3, <2>1
    <2> HIDE DEF R, U, G
    <2> QED
        BY <1>1, <2>1, <2>2, <2>3
<1> QED
    BY <1>5, <1>6, <1>7, <1>8, <1>9, <1>10 DEF BudgetNext

\* What was claimed in a day was reserved on it, and that fits the cap.
LEMMA CapCoversClaims == CapInv => DayKeepsCap
<1> SUFFICES ASSUME CapInv, NEW m \in Minutes PROVE UsedOn(Day(m)) <= DailyCap
    BY DEF DayKeepsCap
<1>1. ReservedOn(Day(m)) \in Int /\ UsedOn(Day(m)) \in Int /\ GrantedOn(Day(m)) \in Nat /\ DailyCap \in Nat
    BY DayNumbers, BudgetNumbers DEF CapInv
<1> QED
    BY <1>1 DEF CapInv, DaysCoverClaims

\* 0013, "make the cap impossible to exceed, including by overlapping workers":
\* so it is over any number of ticks, minutes and midnights, however ticks
\* overlap and die and however late a reservation gets the lock, as long as no
\* refund finds a window of a later day than its own.  That one interleaving is
\* the whole of what the run budget_midnight finds.
THEOREM CapHoldsUnlessARefundCrossesMidnight ==
    BudgetSpec /\ RefundsFindTheirDay => []DayKeepsCap
<1> DEFINE Found == \A t \in Ticks : Refund(t) => \A w \in Windows : Day(w) <= Day(window[t])
<1>1. BudgetInit => CapInv
    BY CapAtFirst
<1>2. CapInv /\ [BudgetNext]_budgetVars /\ [Found]_budgetVars => CapInv'
    <2> SUFFICES ASSUME CapInv, [BudgetNext]_budgetVars, [Found]_budgetVars PROVE CapInv'
        OBVIOUS
    <2>1. BudgetTypeOK' /\ GrantsAreReserved'
        BY BudgetStepTyped, BudgetStepReservesGrants DEF CapInv
    <2>2. CASE Found
        BY <2>1, <2>2, BudgetStepCoversClaims DEF CapInv
    <2>3. CASE UNCHANGED budgetVars
        <3>1. ~\E t \in Ticks : Refund(t)
            BY <2>3 DEF Refund, budgetVars, CapInv, BudgetTypeOK
        <3> QED
            BY <2>1, <3>1, BudgetStepCoversClaims DEF CapInv
    <2> QED
        BY <2>2, <2>3
<1>3. CapInv => DayKeepsCap
    BY CapCoversClaims
<1> QED
    BY <1>1, <1>2, <1>3, PTL DEF BudgetSpec, RefundsFindTheirDay

-----------------------------------------------------------------------------
\* Before the first midnight every window is of one day.
LEMMA OneDay ==
    ASSUME LastMinute < MinutesPerDay, NEW m \in Minutes
    PROVE  Day(m) = 0
<1>1. m \in Nat /\ MinutesPerDay \in Nat /\ MinutesPerDay > 0 /\ m < MinutesPerDay
    BY BudgetNumbers DEF Minutes
<1> QED
    BY <1>1 DEF Day

\* So the cap holds until the clock first passes midnight, with no condition.
THEOREM CapHoldsWithinADay ==
    ASSUME LastMinute < MinutesPerDay
    PROVE  BudgetSpec => []DayKeepsCap
<1> DEFINE Found == \A t \in Ticks : Refund(t) => \A w \in Windows : Day(w) <= Day(window[t])
<1>1. BudgetInit => BudgetTypeOK
    BY BudgetInitTyped
<1>2. BudgetTypeOK /\ [BudgetNext]_budgetVars => BudgetTypeOK'
    BY BudgetStepTyped
<1>3. BudgetTypeOK => Found
    BY OneDay DEF BudgetTypeOK, Windows
<1> HIDE DEF Found
<1>4. BudgetSpec => [][Found]_budgetVars
    BY <1>1, <1>2, <1>3, PTL DEF BudgetSpec
<1> QED
    BY <1>4, CapHoldsUnlessARefundCrossesMidnight DEF RefundsFindTheirDay, Found
-----------------------------------------------------------------------------
(* The decisions of sending, for every input.                              *)

\* schedule.ts: a wall clock that the zone shows becomes an instant that shows
\* it, one it skips becomes one of its two neighbours, and what the form accepts
\* no later check refuses before its time: for every wall clock, every zone that
\* changes its offset once, by however much, and every lead and horizon.
THEOREM EveryWallClockIsKept ==
    ASSUME NEW wall \in Int, NEW now \in Nat, MinLead \in Nat, MaxAhead \in Int,
           NEW zone \in [before : Int, after : Int, change : Int]
    PROVE  WallClocksAreKept(wall, zone, now)
<1> DEFINE early == wall - zone.before
           late  == wall - zone.after
           request == ParseScheduleRequest(wall, zone, now)
           shown == {u \in {early, late} : ToLocalInputValue(u, zone) = wall}
<1>1. zone.before \in Int /\ zone.after \in Int /\ zone.change \in Int
    OBVIOUS
<1>2. early \in Int /\ late \in Int
    BY <1>1
<1>3. /\ request.at = ZonedWallClockToUtc(wall, zone)
      /\ request.verdict = Lateness(request.at, now, MinLead)
    BY DEF ParseScheduleRequest
<1>4. \A u \in Int : OffsetAt(zone, u) = IF u < zone.change THEN zone.before ELSE zone.after
    BY DEF OffsetAt
<1>5. request.at \in {early, late} /\ request.at \in Int
    <2>1. \A u \in Int : wall - OffsetAt(zone, u) \in {early, late}
        BY <1>4
    <2> QED
        BY <1>2, <1>3, <2>1 DEF ZonedWallClockToUtc
<1>6. shown # {} => request.at \in shown
    <2>1. \A u \in {early, late} : u \in shown <=> wall - OffsetAt(zone, u) = u
        <3>1. \A u \in {early, late} : u \in Int /\ OffsetAt(zone, u) \in Int
            BY <1>1, <1>2, <1>4
        <3> QED
            BY <3>1 DEF ToLocalInputValue
    <2>2. PICK first \in {early, late} : request.at = wall - OffsetAt(zone, first)
        BY <1>1, <1>2, <1>3, <1>4 DEF ZonedWallClockToUtc
    <2>3. CASE early < zone.change
        BY <1>1, <1>2, <1>4, <2>1, <2>2, <2>3
    <2>4. CASE ~(early < zone.change)
        BY <1>1, <1>2, <1>4, <2>1, <2>2, <2>4
    <2> QED
        BY <2>3, <2>4
<1>7. ASSUME request.verdict = "ok", NEW later \in now .. request.at
      PROVE  CheckStoredSchedule(request.at, later) = "ok"
    <2>1. request.at <= now + MaxAhead
        BY <1>3, <1>5, <1>7 DEF Lateness
    <2>2. request.at # NoTime /\ now <= request.at
        BY <1>3, <1>5, <1>7 DEF Lateness, NoTime
    <2> QED
        BY <1>5, <1>7, <2>1, <2>2 DEF CheckStoredSchedule, Lateness
<1> QED
    BY <1>5, <1>6, <1>7 DEF WallClocksAreKept

\* An answer of the provider, or how the call ended without one.
Replies == [ended : {"connect failed", "timeout", "network error"}]
           \cup [ended : {"answered"}, status : Nat, body : STRING, error : STRING]

\* provider/types.ts: a message is taken for refused only when it was certainly
\* not sent, for every answer of the provider; what may be tried again is tried
\* later, and only an environment whose live gate is open reaches SES.
THEOREM EveryOutcomeIsHonest ==
    ASSUME Null # "ses", NEW valid \in BOOLEAN, NEW reply \in Replies, NEW attempts \in 1 .. MaxSends,
           NEW env, NEW mode \in {"dry_run", "live"}
    PROVE  OutcomesAreHonest(valid, reply, attempts, env, mode)
<1> DEFINE outcome  == SesSend(valid, reply)
           provider == OutboundProviderFor(mode, env)
<1>1. ClassifySesError(reply.status, reply.error) \in {"halt", "transient", "permanent"}
    BY DEF ClassifySesError
<1>2. /\ outcome.status = "rejected" => ~MayBeSent(valid, reply)
      /\ outcome.status = "accepted" => MayBeSent(valid, reply)
    <2>1. CASE ~valid
        BY <2>1 DEF SesSend, Outcome, MayBeSent
    <2>2. CASE valid /\ reply.ended = "answered"
        BY <2>2 DEF SesSend, SendEmail, Outcome, MayBeSent
    <2>3. CASE valid /\ reply.ended # "answered"
        <3>1. reply.ended \in {"connect failed", "timeout", "network error"}
            BY <2>3 DEF Replies
        <3> QED
            BY <2>3, <3>1 DEF SesSend, SendEmail, Outcome, MayBeSent
    <2> QED
        BY <2>1, <2>2, <2>3
<1>3. attempts < MaxSends => RetryAt("transient", attempts).from > 0
    BY DEF RetryAt, NextAttemptAt, BackoffCeiling, MaxSends
<1>4. ASSUME provider = "ses"
      PROVE  /\ mode = "live" /\ env.mode = "live"
             /\ UnsubscribeMechanismAvailable(env) /\ env.topic.region = env.region
    <2>1. mode = "live" /\ EvaluateLiveGate(env) = {}
        BY <1>4 DEF OutboundProviderFor
    <2>2. /\ \A requirement \in Settings : requirement \in env.has
          /\ env.mode = "live" /\ EventPipelineConfigured(env.topic, env.region, env.account)
        BY <2>1 DEF EvaluateLiveGate
    <2> QED
        BY <2>1, <2>2 DEF UnsubscribeMechanismAvailable, Settings, EventPipelineConfigured
<1> QED
    BY <1>2, <1>3, <1>4 DEF OutcomesAreHonest

-----------------------------------------------------------------------------
\* The larger and the smaller of two numbers.
LEMMA MaxOfTwo ==
    ASSUME NEW a \in Int, NEW b \in Int
    PROVE  Max({a, b}) = IF a >= b THEN a ELSE b
<1>1. CASE a >= b
    <2>1. \E x \in {a, b} : \A y \in {a, b} : x >= y
        BY <1>1
    <2>2. Max({a, b}) \in {a, b} /\ Max({a, b}) >= a /\ Max({a, b}) >= b
        BY <2>1 DEF Max
    <2> QED
        BY <1>1, <2>2
<1>2. CASE b > a
    <2>1. \E x \in {a, b} : \A y \in {a, b} : x >= y
        BY <1>2
    <2>2. Max({a, b}) \in {a, b} /\ Max({a, b}) >= a /\ Max({a, b}) >= b
        BY <2>1 DEF Max
    <2> QED
        BY <1>2, <2>2
<1> QED
    BY <1>1, <1>2

LEMMA MinOfTwo ==
    ASSUME NEW a \in Int, NEW b \in Int
    PROVE  Min({a, b}) = IF a <= b THEN a ELSE b
<1>1. CASE a <= b
    <2>1. \E x \in {a, b} : \A y \in {a, b} : x <= y
        BY <1>1
    <2>2. Min({a, b}) \in {a, b} /\ Min({a, b}) <= a /\ Min({a, b}) <= b
        BY <2>1 DEF Min
    <2> QED
        BY <1>1, <2>2
<1>2. CASE b < a
    <2>1. \E x \in {a, b} : \A y \in {a, b} : x <= y
        BY <1>2
    <2>2. Min({a, b}) \in {a, b} /\ Min({a, b}) <= a /\ Min({a, b}) <= b
        BY <2>1 DEF Min
    <2> QED
        BY <1>2, <2>2
<1> QED
    BY <1>1, <1>2

\* So many tenths of a number, rounded down, are no more than it.
LEMMA TenthsOf ==
    ASSUME NEW x \in Nat, NEW f \in 1 .. 10
    PROVE  (x * f) \div 10 \in Nat /\ (x * f) \div 10 <= x
<1>1. f \in {1, 2, 3, 4, 5, 6, 7, 8, 9, 10}
    OBVIOUS
<1>2. CASE f = 1
    BY <1>2
<1>3. CASE f = 2
    BY <1>3
<1>4. CASE f = 3
    BY <1>4
<1>5. CASE f = 4
    BY <1>5
<1>6. CASE f = 5
    BY <1>6
<1>7. CASE f = 6
    BY <1>7
<1>8. CASE f = 7
    BY <1>8
<1>9. CASE f = 8
    BY <1>9
<1>10. CASE f = 9
    BY <1>10
<1>11. CASE f = 10
    BY <1>11
<1> QED
    BY <1>1, <1>2, <1>3, <1>4, <1>5, <1>6, <1>7, <1>8, <1>9, <1>10, <1>11

\* limits.ts, health.ts: the budget is never more than the provider allows, for
\* every limit and every safety factor; and the page calls a workspace over the
\* threshold exactly when the guard pauses it, for every number of messages.
THEOREM EveryLimitIsKept ==
    ASSUME Null \notin {"complaint_rate_high", "bounce_rate_high"}, NEW tenths \in Int,
           NEW limits \in [sendingEnabled : BOOLEAN, known : BOOLEAN, maxSendRate : Nat, max24HourSend : Int, sentLast24Hours : Nat],
           NEW h \in [sample : Nat, bounced : Nat, complained : Nat]
    PROVE  LimitsAreKept(limits, tenths, h)
<1> DEFINE factor   == Min({10, Max({1, tenths})})
           dailyCap == IF limits.max24HourSend < 0 THEN Unlimited ELSE (limits.max24HourSend * factor) \div 10
           budget   == BudgetFromLimits(limits, tenths)
           rate     == limits.maxSendRate * 60
<1>1. factor \in 1 .. 10
    <2>1. Max({1, tenths}) \in Int /\ Max({1, tenths}) >= 1
        BY MaxOfTwo
    <2> QED
        BY <2>1, MinOfTwo
<1>2. rate \in Nat /\ (rate * factor) \div 10 \in Nat /\ (rate * factor) \div 10 <= rate
    <2>1. rate \in Nat
        OBVIOUS
    <2> HIDE DEF rate, factor
    <2> QED
        BY <1>1, <2>1, TenthsOf
<1>3. dailyCap \in Nat /\ (limits.max24HourSend >= 0 => dailyCap <= limits.max24HourSend)
    <2> HIDE DEF factor
    <2> QED
        BY <1>1, TenthsOf DEF Unlimited
<1>4. budget # Null =>
        /\ budget.perMinute <= rate
        /\ limits.max24HourSend >= 0 => budget.remainingToday <= limits.max24HourSend
        /\ ~limits.sendingEnabled => budget.perMinute = 0
    <2>1. CASE ~limits.sendingEnabled
        BY <1>2, <2>1 DEF BudgetFromLimits
    <2>2. CASE limits.sendingEnabled /\ limits.known
        <3>1. budget = [perMinute |-> (rate * factor) \div 10, remainingToday |-> Max({0, dailyCap - limits.sentLast24Hours})]
            BY <2>2 DEF BudgetFromLimits
        <3> HIDE DEF budget, rate, factor, dailyCap
        <3>2. Max({0, dailyCap - limits.sentLast24Hours}) <= dailyCap
            BY <1>3, MaxOfTwo
        <3>3. Max({0, dailyCap - limits.sentLast24Hours}) \in Int
            BY <1>3, MaxOfTwo
        <3> QED
            BY <1>2, <1>3, <2>2, <3>1, <3>2, <3>3
    <2>3. CASE limits.sendingEnabled /\ ~limits.known
        BY <2>3 DEF BudgetFromLimits
    <2> QED
        BY <2>1, <2>2, <2>3
<1>5. /\ (HealthGuard(h) # Null) = (DescribeHealth(h) = "over_threshold")
      /\ (HealthGuard(h) # Null) => h.sample >= 100 /\ h.bounced + h.complained > 0
      /\ (h.sample >= 100 /\ h.bounced * 25 >= h.sample) => HealthGuard(h) # Null
    BY DEF HealthGuard, DescribeHealth
<1> HIDE DEF budget
<1> QED
    BY <1>4, <1>5 DEF LimitsAreKept, budget

-----------------------------------------------------------------------------
\* Launched, the campaign is judged by the copy of its template frozen with the
\* schedule.
LEMMA LaunchFindsNothingNew ==
    ASSUME NEW Any, NEW render,
           NEW p \in [intent : Any, status : Any, listId : Any, list : Any, audience : Any, senderId : Any, readiness : Any,
                      templateId : Any, template : Any, snapshot : Any, requires : BOOLEAN, address : Any, mechanism : BOOLEAN,
                      scheduledAt : Any, now : Any, render : Any],
           Ready(EvaluateCampaignPreflight(ServiceInput(p, "schedule", render)))
    PROVE  EvaluateCampaignPreflight(LaunchInput(Frozen(p), render)) \subseteq
             EvaluateCampaignPreflight(ServiceInput(p, "schedule", render))
<1> DEFINE j == ServiceInput(p, "schedule", render)
           f == Frozen(p)
           l == LaunchInput(f, render)
<1>1. Ready(EvaluateCampaignPreflight(j))
    OBVIOUS
<1>2. /\ f.snapshot = p.template /\ l.status = "scheduled" /\ l.intent = "launch" /\ l.snapshot = p.template
      /\ j.intent = "schedule"
      /\ j.template = l.template /\ l.template = p.template /\ j.render = l.render
      /\ j.listId = l.listId /\ j.list = l.list /\ j.audience = l.audience
      /\ j.senderId = l.senderId /\ j.readiness = l.readiness /\ j.templateId = l.templateId
      /\ j.requires = l.requires /\ j.address = l.address /\ j.mechanism = l.mechanism
    BY DEF Frozen, ServiceInput, LaunchInput
<1> HIDE DEF j, l, f
<1>3. AudienceIssues(l) = AudienceIssues(j)
    BY <1>2 DEF AudienceIssues
<1>4. SenderIssues(l) = SenderIssues(j)
    BY <1>2 DEF SenderIssues
<1>5. PersonalizationIssues(l) = PersonalizationIssues(j)
    BY <1>2 DEF PersonalizationIssues
<1>6. UnsubscribeIssues(l) = UnsubscribeIssues(j)
    BY <1>2 DEF UnsubscribeIssues
<1>7. ScheduleIssues(l) = {}
    BY <1>2 DEF ScheduleIssues
<1>8. j.templateId # Null /\ j.template # Null
    <2>1. \A issue \in TemplateIssues(j) : issue[1] # "blocker"
        BY <1>1 DEF Ready, EvaluateCampaignPreflight
    <2>2. j.templateId = Null => <<"blocker", "template_not_selected">> \in TemplateIssues(j)
        BY DEF TemplateIssues, Blocker, Issue
    <2>3. j.templateId # Null /\ j.template = Null => <<"blocker", "template_unavailable">> \in TemplateIssues(j)
        BY DEF TemplateIssues, Blocker, Issue
    <2> QED
        BY <2>1, <2>2, <2>3
<1>9. CampaignIssues(l) = {}
    BY <1>2, <1>8 DEF CampaignIssues, Blocker, Issue
<1>10. TemplateIssues(l) \subseteq TemplateIssues(j)
    BY <1>2, <1>5, <1>8 DEF TemplateIssues, Blocker, Issue
<1>11. EvaluateCampaignPreflight(l) \subseteq EvaluateCampaignPreflight(j)
    <2> SUFFICES ASSUME NEW issue \in EvaluateCampaignPreflight(l)
                 PROVE  issue \in EvaluateCampaignPreflight(j)
        OBVIOUS
    <2>1. issue \in AudienceIssues(j) \/ issue \in SenderIssues(j) \/ issue \in TemplateIssues(j) \/ issue \in UnsubscribeIssues(j)
        BY <1>3, <1>4, <1>6, <1>7, <1>9, <1>10 DEF EvaluateCampaignPreflight
    <2> QED
        BY <2>1 DEF EvaluateCampaignPreflight
<1> QED
    BY <1>11 DEF j, l, f

\* preflight.ts, launch.ts: a campaign found ready when it was scheduled is found
\* ready when it is launched, with no new warning, while nothing it rests on has
\* changed: for every campaign, whatever its texts are and render to.
THEOREM EveryLaunchJudgesTheSame ==
    ASSUME NEW PreviewOf(_), NEW Any,
           NEW p \in [intent : Any, status : Any, listId : Any, list : Any, audience : Any, senderId : Any, readiness : Any,
                      templateId : Any, template : Any, snapshot : Any, requires : BOOLEAN, address : Any, mechanism : BOOLEAN,
                      scheduledAt : Any, now : Any, render : Any]
    PROVE  LaunchJudgesTheSame(EvaluateCampaignPreflight(ServiceInput(p, "schedule", PreviewOf(p.template))),
                               EvaluateCampaignPreflight(LaunchInput(Frozen(p), PreviewOf(Frozen(p).snapshot))))
<1>1. Frozen(p).snapshot = p.template
    BY DEF Frozen
<1> QED
    BY <1>1, LaunchFindsNothingNew DEF LaunchJudgesTheSame, Ready
-----------------------------------------------------------------------------
(* The contact cooldown.  ClaimsKeepTheirDistance is not inductive: that a *)
(* claim keeps its distance when it commits rests on the verdict it passed *)
(* earlier, which stays true because no other claim commits meanwhile (the *)
(* lock) and because what else happens to a rival only ends it or leaves   *)
(* the moment it was claimed alone.                                        *)

RowStatuses == {"pending", "over", "claimed", "sent", "send_uncertain"}

RowShape == [status : RowStatuses, claimedAt : Int, sentAt : Int, updatedAt : Int,
             attempt : {"none", "open", "taken"}]

CallShape == [at : {"idle", "waiting", "choosing", "judged"}, campaign : {Nobody} \cup {CampaignOf[j] : j \in Jobs},
              began : Nat, batch : SUBSET Jobs, dropped : SUBSET Jobs]

CooldownShapes ==
    /\ moment \in Nat /\ took \in [Jobs -> Int]
    /\ job \in [Jobs -> RowShape]
    /\ call \in [Callers -> CallShape]

\* Who chooses or has judged has the claim lock.
LockIsHeld == \A k \in Callers : call[k].at \in {"choosing", "judged"} => holder = k

\* A batch is that of a judged claim: pending rows of its campaign.
BatchIsPending ==
    \A k \in Callers :
        /\ call[k].began <= moment
        /\ call[k].batch # {} => call[k].at = "judged"
        /\ \A j \in call[k].batch : job[j].status = "pending" /\ CampaignOf[j] = call[k].campaign

\* What the row says of its last activity is not before its claim.
RowIsDated(row, claim) ==
    /\ row.status = "pending" => row.sentAt = Never
    /\ row.status \in Active => claim >= 0
    /\ row.status = "claimed" => row.sentAt = Never /\ row.claimedAt = claim
    /\ row.status = "sent" => row.sentAt >= claim
    /\ row.status = "send_uncertain" => row.sentAt = Never /\ row.claimedAt = Never /\ row.updatedAt >= claim

RowsAreDated == \A j \in Jobs : RowIsDated(job[j], took[j]) /\ took[j] <= moment

\* A verdict stays right until its claim commits.
VerdictStands ==
    \A k \in Callers : \A j \in call[k].batch \ call[k].dropped : \A i \in Jobs :
        Rivals(i, j) /\ job[i].status \in Active /\ Cooldown > 0 => took[i] <= call[k].began - Cooldown

CooldownIInv ==
    /\ CooldownShapes /\ LockIsHeld /\ BatchIsPending /\ RowsAreDated /\ VerdictStands
    /\ ClaimsKeepTheirDistance

LEMMA CooldownStarts == CooldownInit => CooldownIInv
BY CooldownNumbers DEF RowShape, CallShape, CooldownInit, CooldownIInv, CooldownShapes, LockIsHeld, BatchIsPending, RowsAreDated, RowIsDated,
    VerdictStands, ClaimsKeepTheirDistance, RowStatuses, NoClaim, Never, Active

\* A row's last activity is not before the claim it is active by.
LEMMA ActivityFollowsClaim ==
    ASSUME CooldownIInv, NEW i \in Jobs, job[i].status \in Active
    PROVE  took[i] \in Int /\ LastActivity(job[i]) \in Int /\ took[i] <= LastActivity(job[i])
BY DEF RowShape, CooldownIInv, CooldownShapes, RowsAreDated, RowIsDated, RowStatuses, Active, LastActivity, Never

\* Rows that become something else while nobody has them locked, and that were
\* active if they become active: no verdict and no distance is disturbed.
LEMMA RowsChange ==
    ASSUME CooldownIInv, UNCHANGED <<moment, call, holder, took>>,
           job' \in [Jobs -> RowShape],
           \A j \in Jobs : /\ RowIsDated(job'[j], took[j])
                           /\ job'[j].status \in Active => job[j].status \in Active
                           /\ j \in Locked => job'[j].status = job[j].status
    PROVE  CooldownIInv'
<1>1. CooldownShapes' /\ LockIsHeld' /\ RowsAreDated'
    BY DEF CooldownIInv, CooldownShapes, LockIsHeld, RowsAreDated
<1>2. BatchIsPending'
    <2>1. \A k \in Callers : call[k].batch \subseteq Jobs /\ call[k].batch \subseteq Locked
        BY DEF CallShape, CooldownIInv, CooldownShapes, Locked
    <2> QED
        BY <2>1 DEF CooldownIInv, BatchIsPending
<1>3. VerdictStands' /\ ClaimsKeepTheirDistance'
    BY DEF CooldownIInv, VerdictStands, ClaimsKeepTheirDistance, Rivals, Apart
<1> QED
    BY <1>1, <1>2, <1>3 DEF CooldownIInv

\* The rows of one step of a job: given back, refused, sent, uncertain, over.
LEMMA BecomesKeeps ==
    ASSUME CooldownIInv, NEW rows \in SUBSET Jobs, NEW status \in RowStatuses \ {"claimed"},
           NEW attempt \in {"none", "open", "taken"}, Becomes(rows, status, attempt),
           \A j \in rows : status \in Active => job[j].status \in {"claimed", "send_uncertain"},
           \A j \in rows : status = "pending" => job[j].status \in {"pending", "claimed", "send_uncertain"}
    PROVE  CooldownIInv'
<1>1. job' = [j \in Jobs |->
           IF j \in rows
           THEN [job[j] EXCEPT !.status = status, !.attempt = attempt, !.updatedAt = moment,
                               !.claimedAt = IF status = "sent" /\ job[j].status = "claimed" THEN job[j].claimedAt ELSE Never,
                               !.sentAt = IF status = "sent" THEN moment ELSE job[j].sentAt]
           ELSE job[j]]
    BY DEF Becomes
<1>2. job' \in [Jobs -> RowShape]
    <2>1. ASSUME NEW j \in Jobs
          PROVE  job'[j] \in RowShape
        <3>1. /\ job[j] \in RowShape
              /\ moment \in Int /\ Never \in Int
            BY DEF CooldownIInv, CooldownShapes, Never
        <3> QED
            BY <1>1, <3>1 DEF RowShape
    <2> QED
        BY <1>1, <2>1
<1>3. ASSUME NEW j \in Jobs
      PROVE  /\ RowIsDated(job'[j], took[j])
             /\ job'[j].status \in Active => job[j].status \in Active
             /\ j \in Locked => job'[j].status = job[j].status
    <2>1. CASE j \notin rows
        BY <1>1, <2>1 DEF CooldownIInv, RowsAreDated
    <2>2. CASE j \in rows
        <3>1. j \notin Locked
            BY <2>2 DEF Becomes
        <3>2. /\ job[j] \in RowShape
              /\ moment \in Nat /\ took[j] \in Int
            BY DEF CooldownIInv, CooldownShapes
        <3>3. /\ job'[j].status = status /\ job'[j].updatedAt = moment
              /\ status # "sent" => job'[j].claimedAt = Never /\ job'[j].sentAt = job[j].sentAt
              /\ status = "sent" => job'[j].sentAt = moment
            BY <1>1, <2>2, <3>2 DEF RowShape
        <3>4. RowIsDated(job[j], took[j]) /\ took[j] <= moment
            BY DEF CooldownIInv, RowsAreDated
        <3>5. RowIsDated(job'[j], took[j])
            BY <2>2, <3>2, <3>3, <3>4 DEF RowIsDated, Active, RowStatuses, Never
        <3> QED
            BY <2>2, <3>1, <3>3, <3>5 DEF Active
    <2> QED
        BY <2>1, <2>2
<1>4. UNCHANGED <<moment, call, holder, took>>
    BY DEF Becomes
<1> QED
    BY <1>2, <1>3, <1>4, RowsChange

LEMMA JobStepsKeep ==
    ASSUME CooldownIInv, NEW j \in Jobs, JobSteps(j)
    PROVE  CooldownIInv'
<1>1. ASSUME NEW status \in {"pending", "over"}, GiveBack(j, status) PROVE CooldownIInv'
    BY <1>1, BecomesKeeps DEF GiveBack, RowStatuses, Active
<1>2. ASSUME NEW status \in {"pending", "over"}, Refused(j, status) PROVE CooldownIInv'
    BY <1>2, BecomesKeeps DEF Refused, RowStatuses, Active
<1>3. ASSUME NEW status \in {"pending", "over"}, ResolveUncertain(j, status) PROVE CooldownIInv'
    BY <1>3, BecomesKeeps DEF ResolveUncertain, RowStatuses, Active
<1>4. CASE BeginAttempt(j)
    <2>1. job' = [job EXCEPT ![j].attempt = "open"] /\ UNCHANGED <<moment, call, holder, took>>
        BY <1>4 DEF BeginAttempt
    <2>2. RowsAreDated
        BY DEF CooldownIInv
    <2>3. \A i \in Jobs : /\ RowIsDated(job'[i], took[i])
                          /\ job'[i].status = job[i].status
        BY <2>1, <2>2 DEF RowsAreDated, RowIsDated, CooldownIInv, CooldownShapes
    <2>4. job' \in [Jobs -> RowShape]
        BY <2>1 DEF RowShape, CooldownIInv, CooldownShapes
    <2> QED
        BY <2>1, <2>3, <2>4, RowsChange
<1>5. CASE ProviderTakes(j)
    <2>1. job' = [job EXCEPT ![j].attempt = "taken"] /\ UNCHANGED <<moment, call, holder, took>>
        BY <1>5 DEF ProviderTakes
    <2>2. RowsAreDated
        BY DEF CooldownIInv
    <2>3. \A i \in Jobs : /\ RowIsDated(job'[i], took[i])
                          /\ job'[i].status = job[i].status
        BY <2>1, <2>2 DEF RowsAreDated, RowIsDated, CooldownIInv, CooldownShapes
    <2>4. job' \in [Jobs -> RowShape]
        BY <2>1 DEF RowShape, CooldownIInv, CooldownShapes
    <2> QED
        BY <2>1, <2>3, <2>4, RowsChange
<1>6. CASE RecordSent(j)
    BY <1>6, BecomesKeeps DEF RecordSent, RowStatuses, Active
<1>7. CASE Reconcile(j)
    BY <1>7, BecomesKeeps DEF Reconcile, RowStatuses, Active
<1>8. CASE CancelCampaign(CampaignOf[j])
    BY <1>8, BecomesKeeps DEF CancelCampaign, RowStatuses, Active
<1>9. CASE SuppressionAdded(AddressOf[j])
    BY <1>9, BecomesKeeps DEF SuppressionAdded, RowStatuses, Active
<1> QED
    BY <1>1, <1>2, <1>3, <1>4, <1>5, <1>6, <1>7, <1>8, <1>9 DEF JobSteps

LEMMA NoClaimIsIdle == NoClaim \in CallShape /\ NoClaim.at = "idle" /\ NoClaim.batch = {} /\ NoClaim.began = 0
BY DEF NoClaim, CallShape

\* A call that changes while no row does.
LEMMA CallChanges ==
    ASSUME CooldownIInv, UNCHANGED <<moment, job, took>>, NEW k \in Callers,
           NEW claim \in CallShape,
           call' = [call EXCEPT ![k] = claim],
           claim.at \in {"choosing", "judged"} => holder' = k,
           \A h \in Callers \ {k} : call[h].at \in {"choosing", "judged"} => holder' = h,
           claim.began <= moment, claim.batch # {} => claim.at = "judged",
           \A j \in claim.batch : job[j].status = "pending" /\ CampaignOf[j] = claim.campaign,
           \A j \in claim.batch \ claim.dropped : \A i \in Jobs :
               Rivals(i, j) /\ job[i].status \in Active /\ Cooldown > 0 => took[i] <= claim.began - Cooldown
    PROVE  CooldownIInv'
<1>1. /\ call'[k] = claim
      /\ \A h \in Callers \ {k} : call'[h] = call[h]
    BY DEF CooldownIInv, CooldownShapes
<1>2. CooldownShapes' /\ RowsAreDated' /\ ClaimsKeepTheirDistance'
    BY DEF CooldownIInv, CooldownShapes, RowsAreDated, ClaimsKeepTheirDistance
<1>3. LockIsHeld'
    BY <1>1 DEF LockIsHeld
<1>4. BatchIsPending'
    BY <1>1 DEF CooldownIInv, BatchIsPending
<1>5. VerdictStands'
    BY <1>1 DEF CooldownIInv, VerdictStands
<1> QED
    BY <1>2, <1>3, <1>4, <1>5 DEF CooldownIInv

\* A claim that ends frees the lock only if it had it.
LEMMA LockIsFreed ==
    ASSUME CooldownIInv, NEW k \in Callers, Freed(k)
    PROVE  \A h \in Callers \ {k} : call[h].at \in {"choosing", "judged"} => holder' = h
BY DEF CooldownIInv, LockIsHeld, Freed

LEMMA BeginClaimKeeps ==
    ASSUME CooldownIInv, NEW k \in Callers, NEW j \in Jobs, BeginClaim(k, CampaignOf[j])
    PROVE  CooldownIInv'
<1> DEFINE claim == [NoClaim EXCEPT !.at = "waiting", !.campaign = CampaignOf[j], !.began = moment]
<1>1. call' = [call EXCEPT ![k] = claim] /\ UNCHANGED <<moment, job, holder, took>>
    BY DEF BeginClaim
<1>2. moment \in Nat /\ \A h \in Callers : call[h].at \in {"choosing", "judged"} => holder' = h
    BY <1>1 DEF CooldownIInv, CooldownShapes, LockIsHeld
<1>3. claim \in CallShape /\ claim.at = "waiting" /\ claim.began = moment /\ claim.batch = {}
    BY <1>2, NoClaimIsIdle DEF CallShape
<1> HIDE DEF claim
<1>4. /\ claim.at \in {"choosing", "judged"} => holder' = k
      /\ claim.began <= moment
      /\ claim.batch # {} => claim.at = "judged"
    BY <1>2, <1>3
<1> QED
    BY <1>1, <1>2, <1>3, <1>4, CallChanges

LEMMA TakeLockKeeps ==
    ASSUME CooldownIInv, NEW k \in Callers, TakeLock(k)
    PROVE  CooldownIInv'
<1> DEFINE claim == [call[k] EXCEPT !.at = "choosing"]
<1>1. call' = [call EXCEPT ![k] = claim] /\ UNCHANGED <<moment, job, took>> /\ holder' = k
    BY DEF TakeLock
<1>2. call[k] \in CallShape
    BY DEF CooldownIInv, CooldownShapes
<1>3. claim \in CallShape
    BY <1>2 DEF CallShape
<1>4. call[k].batch = {} /\ call[k].began <= moment
    BY DEF CooldownIInv, BatchIsPending, TakeLock
<1>5. claim.at = "choosing" /\ claim.batch = {} /\ claim.began <= moment
    BY <1>2, <1>4
<1>6. \A h \in Callers \ {k} : call[h].at \notin {"choosing", "judged"}
    BY CooldownNumbers DEF CooldownIInv, LockIsHeld, TakeLock, LockIsFree
<1> HIDE DEF claim
<1> QED
    BY <1>1, <1>3, <1>5, <1>6, CallChanges

LEMMA EndClaimKeeps ==
    ASSUME CooldownIInv, NEW k \in Callers, EndClaim(k)
    PROVE  CooldownIInv'
<1>1. moment \in Nat
    BY DEF CooldownIInv, CooldownShapes
<1>2. call' = [call EXCEPT ![k] = NoClaim] /\ Freed(k) /\ UNCHANGED <<moment, job, took>>
    BY DEF EndClaim
<1>3. /\ NoClaim.at \in {"choosing", "judged"} => holder' = k
      /\ NoClaim.began <= moment
      /\ NoClaim.batch # {} => NoClaim.at = "judged"
    BY <1>1, NoClaimIsIdle
<1>4. \A h \in Callers \ {k} : call[h].at \in {"choosing", "judged"} => holder' = h
    BY <1>2, LockIsFreed
<1> QED
    BY <1>2, <1>3, <1>4, NoClaimIsIdle, CallChanges

LEMMA JudgeKeeps ==
    ASSUME CooldownIInv, NEW k \in Callers, NEW batch \in SUBSET Jobs, NEW out \in SUBSET batch, Judge(k, batch, out)
    PROVE  CooldownIInv'
<1> DEFINE out2  == out \cup {j \in batch : Capped(j, call[k].began)}
           claim == [call[k] EXCEPT !.at = "judged", !.batch = batch, !.dropped = out2]
<1>1. call' = [call EXCEPT ![k] = claim] /\ UNCHANGED <<moment, job, holder, took>>
    BY DEF Judge
<1>2. call[k] \in CallShape
    BY DEF CooldownIInv, CooldownShapes
<1>3. out2 \in SUBSET Jobs
    OBVIOUS
<1>4. \A j \in batch \ out2 : ~Capped(j, call[k].began)
    OBVIOUS
<1> HIDE DEF out2
<1>5. claim \in CallShape
    BY <1>2, <1>3 DEF CallShape
<1>6. /\ claim.at = "judged" /\ claim.batch = batch /\ claim.dropped = out2
      /\ claim.began = call[k].began /\ claim.campaign = call[k].campaign
    BY <1>2
<1> HIDE DEF claim
<1>7. call[k].began <= moment /\ holder = k /\ \A h \in Callers : call[h].at \in {"choosing", "judged"} => holder = h
    BY DEF CooldownIInv, BatchIsPending, LockIsHeld, Judge
<1>8. \A j \in batch : job[j].status = "pending" /\ CampaignOf[j] = call[k].campaign
    BY DEF Judge
<1>9. ASSUME NEW j \in batch \ out2, NEW i \in Jobs, Rivals(i, j), job[i].status \in Active, Cooldown > 0
      PROVE  took[i] <= call[k].began - Cooldown
    <2>1. ~(LastActivity(job[i]) > call[k].began - Cooldown)
        BY <1>4, <1>9 DEF Capped
    <2>2. took[i] \in Int /\ LastActivity(job[i]) \in Int /\ took[i] <= LastActivity(job[i])
        BY <1>9, ActivityFollowsClaim
    <2>3. call[k].began \in Int /\ Cooldown \in Int
        BY <1>2, CooldownNumbers DEF CallShape
    <2> QED
        BY <2>1, <2>2, <2>3
<1> QED
    BY <1>1, <1>5, <1>6, <1>7, <1>8, <1>9, CallChanges

LEMMA RowSkipped ==
    ASSUME NEW row \in RowShape, NEW n \in Int,
           NEW skipped, skipped = [row EXCEPT !.status = "over", !.updatedAt = n]
    PROVE  skipped \in RowShape /\ skipped.status = "over"
<1>1. skipped \in RowShape
    BY DEF RowShape, RowStatuses
<1> QED
    BY <1>1 DEF RowShape

\* The one step that makes a row active: what it claims has no rival that was
\* claimed within the cooldown, and it claims no two rivals.
LEMMA CommitClaimKeeps ==
    ASSUME CooldownIInv, NEW k \in Callers, CommitClaim(k)
    PROVE  CooldownIInv'
<1> DEFINE began   == call[k].began
           dropped == call[k].dropped
           claimed == call[k].batch \ dropped
<1>1. /\ call[k].at = "judged" /\ UNCHANGED moment
      /\ call' = [call EXCEPT ![k] = NoClaim] /\ Freed(k)
      /\ job' = [j \in Jobs |->
             IF j \in dropped THEN [job[j] EXCEPT !.status = "over", !.updatedAt = began]
             ELSE IF j \in claimed
             THEN [job[j] EXCEPT !.status = "claimed", !.claimedAt = began, !.updatedAt = began]
             ELSE job[j]]
      /\ took' = [j \in Jobs |-> IF j \in claimed THEN began ELSE took[j]]
    BY DEF CommitClaim
<1>2. /\ moment \in Nat /\ took \in [Jobs -> Int] /\ job \in [Jobs -> RowShape]
      /\ began \in Nat /\ began <= moment /\ claimed \subseteq Jobs
      /\ call[k].batch \subseteq Jobs /\ Cooldown \in Nat
    BY CooldownNumbers DEF CallShape, CooldownIInv, CooldownShapes, BatchIsPending
<1>3. \A j \in claimed : /\ job[j].status = "pending" /\ CampaignOf[j] = call[k].campaign
                          /\ job[j].sentAt = Never
    BY <1>2 DEF CooldownIInv, BatchIsPending, RowsAreDated, RowIsDated
<1>4. ASSUME NEW j \in Jobs
      PROVE  /\ job'[j] \in RowShape /\ took'[j] \in Int /\ took'[j] <= moment
             /\ RowIsDated(job'[j], took'[j])
             /\ j \in claimed => took'[j] = began
             /\ j \notin claimed => /\ took'[j] = took[j]
                                    /\ job'[j].status \in Active => job[j].status \in Active
    <2>1. job[j] \in RowShape /\ took[j] \in Int /\ RowIsDated(job[j], took[j]) /\ took[j] <= moment
        BY <1>2 DEF CooldownIInv, RowsAreDated
    <2>2. CASE j \in dropped
        <3>1. job'[j] = [job[j] EXCEPT !.status = "over", !.updatedAt = began] /\ took'[j] = took[j] /\ j \notin claimed
            BY <1>1, <2>2
        <3>2. job'[j] \in RowShape /\ job'[j].status = "over"
            <4>1. began \in Int /\ job[j] \in RowShape
                BY <1>2, <2>1
            <4>2. job'[j] = [job[j] EXCEPT !.status = "over", !.updatedAt = began]
                BY <3>1
            <4> HIDE DEF began
            <4> QED
                BY <4>1, <4>2, RowSkipped, ZenonT(60)
        <3> QED
            BY <2>1, <3>1, <3>2 DEF RowIsDated, Active
    <2>3. CASE j \in claimed
        <3>1. job'[j] = [job[j] EXCEPT !.status = "claimed", !.claimedAt = began, !.updatedAt = began] /\ took'[j] = began
            BY <1>1, <2>3
        <3>2. job'[j] \in RowShape /\ job'[j].status = "claimed" /\ job'[j].claimedAt = began /\ job'[j].sentAt = Never
            <4>1. began \in Int /\ job[j] \in RowShape /\ job[j].sentAt = Never
                BY <1>2, <1>3, <2>1, <2>3
            <4>2. job'[j] = [job[j] EXCEPT !.status = "claimed", !.claimedAt = began, !.updatedAt = began]
                BY <3>1
            <4> HIDE DEF began
            <4> QED
                <5>1. job'[j].status = "claimed" /\ job'[j].claimedAt = began /\ job'[j].sentAt = job[j].sentAt
                    BY <4>1, <4>2 DEF RowShape
                <5>2. job'[j] \in RowShape
                    BY <4>1, <4>2 DEF RowShape, RowStatuses
                <5> QED
                    BY <4>1, <5>1, <5>2
        <3> QED
            BY <1>2, <2>3, <3>1, <3>2 DEF RowIsDated
    <2>4. CASE j \notin dropped /\ j \notin claimed
        BY <1>1, <2>1, <2>4
    <2> QED
        BY <2>2, <2>3, <2>4
<1>5. /\ call'[k] = NoClaim
      /\ \A h \in Callers \ {k} : /\ call'[h] = call[h]
                                  /\ call[h].at \notin {"choosing", "judged"}
                                  /\ call[h].batch = {}
    BY <1>1 DEF CooldownIInv, CooldownShapes, LockIsHeld, BatchIsPending
<1>6. CooldownShapes'
    <2>1. job' \in [Jobs -> RowShape] /\ took' \in [Jobs -> Int]
        BY <1>1, <1>4
    <2> QED
        BY <1>1, <1>2, <2>1, NoClaimIsIdle DEF CooldownIInv, CooldownShapes
<1>7. LockIsHeld'
    BY <1>5, NoClaimIsIdle DEF LockIsHeld
<1>8. BatchIsPending'
    <2>1. \A h \in Callers : call'[h].began <= moment /\ call'[h].batch = {}
        BY <1>2, <1>5, NoClaimIsIdle DEF CooldownIInv, BatchIsPending
    <2> QED
        BY <1>1, <2>1 DEF BatchIsPending
<1>9. RowsAreDated'
    BY <1>1, <1>4 DEF RowsAreDated
<1>10. VerdictStands'
    BY <1>5, NoClaimIsIdle DEF VerdictStands
<1>11. ClaimsKeepTheirDistance'
    <2> SUFFICES ASSUME NEW i \in Jobs, NEW j \in Jobs, Rivals(i, j),
                        job'[i].status \in Active, job'[j].status \in Active
                 PROVE  Apart(took'[i], took'[j])
        BY DEF ClaimsKeepTheirDistance, Rivals
    <2>1. CASE Cooldown = 0
        BY <1>4, <2>1 DEF Apart
    <2>2. \A a, b \in Jobs : Rivals(a, b) /\ b \in claimed /\ a \notin claimed /\ job'[a].status \in Active /\ Cooldown > 0 =>
              took'[b] - took'[a] >= Cooldown
        BY <1>2, <1>4 DEF CooldownIInv, VerdictStands
    <2>3. CASE Cooldown > 0 /\ i \in claimed
        BY <1>3, <2>2, <2>3 DEF Apart, Rivals
    <2>4. CASE Cooldown > 0 /\ i \notin claimed /\ j \in claimed
        BY <2>2, <2>4 DEF Apart, Rivals
    <2>5. CASE i \notin claimed /\ j \notin claimed
        BY <1>4, <2>5 DEF CooldownIInv, ClaimsKeepTheirDistance
    <2> QED
        BY <1>2, <2>1, <2>3, <2>4, <2>5
<1> QED
    BY <1>6, <1>7, <1>8, <1>9, <1>10, <1>11 DEF CooldownIInv

LEMMA MomentPassesKeeps ==
    ASSUME CooldownIInv, MomentPasses
    PROVE  CooldownIInv'
BY CooldownNumbers DEF RowShape, CallShape, MomentPasses, CooldownIInv, CooldownShapes, LockIsHeld, BatchIsPending, RowsAreDated, RowIsDated,
    VerdictStands, ClaimsKeepTheirDistance

LEMMA CooldownStep == CooldownIInv /\ [CooldownNext]_cooldownVars => CooldownIInv'
<1> SUFFICES ASSUME CooldownIInv, [CooldownNext]_cooldownVars
             PROVE  CooldownIInv'
    OBVIOUS
<1>1. ASSUME NEW k \in Callers, ClaimSteps(k) PROVE CooldownIInv'
    BY <1>1, BeginClaimKeeps, TakeLockKeeps, EndClaimKeeps, JudgeKeeps, CommitClaimKeeps DEF ClaimSteps
<1>2. ASSUME NEW j \in Jobs, JobSteps(j) PROVE CooldownIInv'
    BY <1>2, JobStepsKeep
<1>3. CASE UNCHANGED cooldownVars
    BY <1>3 DEF cooldownVars, CooldownIInv, CooldownShapes, LockIsHeld, BatchIsPending, RowsAreDated, RowIsDated,
        VerdictStands, ClaimsKeepTheirDistance
<1> QED
    BY <1>1, <1>2, <1>3, MomentPassesKeeps DEF CooldownNext

\* Two jobs to one address, of two campaigns of one mode, that are being sent or
\* were, began their claims a cooldown apart, for any number of ticks claiming at
\* once, of campaigns and of addresses.
THEOREM ClaimsAreACooldownApart == CooldownSpec => []ClaimsKeepTheirDistance
<1>1. CooldownIInv => ClaimsKeepTheirDistance
    BY DEF CooldownIInv
<1> QED
    BY <1>1, CooldownStarts, CooldownStep, PTL DEF CooldownSpec

=============================================================================
