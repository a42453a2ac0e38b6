-------------------------- MODULE RequestLifecycle --------------------------
(***************************************************************************)
(* What the capability layer promises about one request: it is issued      *)
(* once, settled at most once, and the way it was settled is final.  The   *)
(* decision that issued it can therefore act on the outcome.               *)
(***************************************************************************)
CONSTANT Requests

VARIABLE outcome

\* How a request can be settled: a result was taken over, it timed out, it
\* could not be sent, or the process that knew of it ended.
Settled == {"answered", "expired", "failed", "lost"}

Init == outcome = [q \in Requests |-> "unused"]

Issue(q) ==
    /\ outcome[q] = "unused"
    /\ outcome' = [outcome EXCEPT ![q] = "open"]

\* Several requests may be settled at once (a prune, the end of the process).
Settle(Q, o) ==
    /\ Q # {}
    /\ \A q \in Q : outcome[q] = "open"
    /\ outcome' = [q \in Requests |-> IF q \in Q THEN o ELSE outcome[q]]

Next ==
    \/ \E q \in Requests : Issue(q)
    \/ \E Q \in SUBSET Requests, o \in Settled : Settle(Q, o)

Spec == Init /\ [][Next]_outcome

=============================================================================
