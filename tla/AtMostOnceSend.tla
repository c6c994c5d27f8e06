--------------------------- MODULE AtMostOnceSend ---------------------------
(***************************************************************************)
(* What the sending engine promises about one recipient of one campaign    *)
(* (docs/adr/0001 4.1): the provider accepts a message for it at most      *)
(* once, plus once for every accepted or unknown message that somebody     *)
(* explicitly decided to send again.                                       *)
(***************************************************************************)
CONSTANTS Jobs, Messages

VARIABLES
    mailed,   \* the messages the provider accepted, by job
    givenUp   \* the messages a recorded decision to send again wrote off

Init == /\ mailed  = [j \in Jobs |-> {}]
        /\ givenUp = [j \in Jobs |-> {}]

\* A message may be mailed while every other one mailed is written off, or
\* when it is itself written off already: an answer that came too late.
Mail(j, m) ==
    /\ m \notin mailed[j]
    /\ m \in givenUp[j] \/ mailed[j] \subseteq givenUp[j]
    /\ mailed' = [mailed EXCEPT ![j] = @ \cup {m}]
    /\ UNCHANGED givenUp

\* A decision writes off the one message in doubt.  Under the redispatch policy
\* one pass of the reconciler decides for several jobs at once.
SendAgain(inDoubt) ==
    /\ \E j \in Jobs : inDoubt[j] # {}
    /\ givenUp' = [j \in Jobs |-> givenUp[j] \cup inDoubt[j]]
    /\ UNCHANGED mailed

Next == \/ \E j \in Jobs, m \in Messages : Mail(j, m)
        \/ \E inDoubt \in [Jobs -> {{}} \cup {{m} : m \in Messages}] :
               SendAgain(inDoubt)

Spec == Init /\ [][Next]_<<mailed, givenUp>>
=============================================================================
