---------------------------- MODULE SerialCycles ----------------------------
(***************************************************************************)
(* What OtomeKairo promises about its judgement cycles, independent of how *)
(* the coordinator keeps the promise: at most one cycle runs, foreground   *)
(* cycles (conversation, manual wake, capability result) run in the order  *)
(* in which they asked, and a background cycle (periodic thought, due      *)
(* autonomous run) starts only when no foreground cycle runs or waits.     *)
(* The design notes call it FIFO (docs/design/runtime, initiative loop).   *)
(***************************************************************************)
EXTENDS Naturals, Sequences

CONSTANTS Foreground,  \* threads that ask for a foreground cycle
          Background,  \* threads that try for a background cycle
          Nobody       \* no cycle is running

VARIABLES queue,   \* foreground threads still waiting, in order of arrival
          running  \* the thread whose cycle is running, or Nobody

vars == <<queue, running>>

Init == queue = <<>> /\ running = Nobody

\* A foreground thread asks; it is not waiting or running already.
Ask(t) ==
    /\ running # t
    /\ \A i \in 1..Len(queue) : queue[i] # t
    /\ queue' = Append(queue, t)
    /\ UNCHANGED running

\* A thread that finds nobody running and nobody waiting is served at once.
AskAndRun(t) ==
    /\ running = Nobody
    /\ queue = <<>>
    /\ running' = t
    /\ UNCHANGED queue

\* The head of the queue is served.
Serve ==
    /\ running = Nobody
    /\ queue # <<>>
    /\ running' = Head(queue)
    /\ queue' = Tail(queue)

\* A background cycle slips in only when nothing runs and nothing waits.
SlipIn(b) ==
    /\ running = Nobody
    /\ queue = <<>>
    /\ running' = b
    /\ UNCHANGED queue

Finish ==
    /\ running # Nobody
    /\ running' = Nobody
    /\ UNCHANGED queue

Next ==
    \/ \E t \in Foreground : Ask(t) \/ AskAndRun(t)
    \/ Serve
    \/ \E b \in Background : SlipIn(b)
    \/ Finish

Spec == Init /\ [][Next]_vars

=============================================================================
