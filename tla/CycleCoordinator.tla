-------------------------- MODULE CycleCoordinator --------------------------
(***************************************************************************)
(* service/cycle_coordinator.py: the ticket lock every judgement cycle     *)
(* goes through.  One condition variable guards four fields.  A thread of  *)
(* Foreground runs enter_foreground / leave_foreground, a thread of        *)
(* Background runs try_enter_background / leave_background.                *)
(*                                                                         *)
(* A critical section under the condition's lock is one action; a call of  *)
(* wait() splits enter_foreground, so a thread sleeps in the wait set      *)
(* ("asleep"), is moved out of it by notify_all ("woken"), and re-tests    *)
(* its condition when it gets the lock back.                               *)
(***************************************************************************)
EXTENDS Integers, Sequences, FiniteSets

CONSTANTS Foreground,  \* threads of conversation, wake and result cycles
          Background,  \* threads of periodic thought and due autonomous runs
          Nobody,      \* stands for "no thread"
          MaxTickets   \* bound on _next_ticket, for model checking only

ASSUME ThreadAssumption ==
    /\ IsFiniteSet(Foreground)
    /\ Foreground \cap Background = {}
    /\ Nobody \notin Foreground \cup Background
    /\ MaxTickets \in Nat

VARIABLES
    nextTicket,     \* _next_ticket
    servingTicket,  \* _serving_ticket
    waiters,        \* _foreground_waiters
    active,         \* _active
    ticket,         \* the local variable "ticket" of each foreground thread
    state           \* where each thread is

vars == <<nextTicket, servingTicket, waiters, active, ticket, state>>

Threads == Foreground \cup Background

States == {"idle", "asleep", "woken", "running"}

\* A foreground thread that has its ticket and has not started its cycle.
Waiting(t) == state[t] \in {"asleep", "woken"}

Init ==
    /\ nextTicket = 0
    /\ servingTicket = 0
    /\ waiters = 0
    /\ active = FALSE
    /\ ticket = [t \in Foreground |-> 0]
    /\ state = [t \in Threads |-> "idle"]

-----------------------------------------------------------------------------
(* enter_foreground                                                        *)

\* Two faulty tests, for the mutants: one forgets the ticket, one _active.
MustWaitInAnyOrder(k) == active
MustWaitForTicketOnly(k) == k # servingTicket

\* The test of the while loop, for a thread that holds ticket k.
MustWait(k) == active \/ k # servingTicket

\* First pass: take a ticket, count as a waiter, and either go to sleep or
\* fall through the loop.
EnterForeground(t) ==
    /\ state[t] = "idle"
    /\ nextTicket < MaxTickets
    /\ ticket' = [ticket EXCEPT ![t] = nextTicket]
    /\ nextTicket' = nextTicket + 1
    /\ IF MustWait(nextTicket)
       THEN /\ waiters' = waiters + 1
            /\ state' = [state EXCEPT ![t] = "asleep"]
            /\ UNCHANGED active
       ELSE /\ active' = TRUE
            /\ state' = [state EXCEPT ![t] = "running"]
            /\ UNCHANGED waiters
    /\ UNCHANGED servingTicket

\* A woken thread has the lock again but it is still not its turn.
SleepAgain(t) ==
    /\ state[t] = "woken"
    /\ MustWait(ticket[t])
    /\ state' = [state EXCEPT ![t] = "asleep"]
    /\ UNCHANGED <<nextTicket, servingTicket, waiters, active, ticket>>

\* A woken thread has the lock again and leaves the loop.
StartForeground(t) ==
    /\ state[t] = "woken"
    /\ ~ MustWait(ticket[t])
    /\ waiters' = waiters - 1
    /\ active' = TRUE
    /\ state' = [state EXCEPT ![t] = "running"]
    /\ UNCHANGED <<nextTicket, servingTicket, ticket>>

-----------------------------------------------------------------------------
(* leave_foreground, try_enter_background, leave_background                *)

\* notify() in place of notify_all(): some one sleeper is woken.
NotifyOne(s) ==
    LET asleep == {t \in Threads : s[t] = "asleep"}
    IN IF asleep = {} THEN s
       ELSE [s EXCEPT ![CHOOSE t \in asleep : TRUE] = "woken"]

\* notify_all empties the wait set.
NotifyAll(s) == [t \in Threads |-> IF s[t] = "asleep" THEN "woken" ELSE s[t]]

LeaveForeground(t) ==
    /\ state[t] = "running"
    /\ active' = FALSE
    /\ servingTicket' = servingTicket + 1
    /\ state' = NotifyAll([state EXCEPT ![t] = "idle"])
    /\ UNCHANGED <<nextTicket, waiters, ticket>>

\* A faulty check that looks at the running cycle and not at the waiters.
TryEnterUnlessActive(b) ==
    /\ state[b] = "idle"
    /\ ~ active
    /\ active' = TRUE
    /\ state' = [state EXCEPT ![b] = "running"]
    /\ UNCHANGED <<nextTicket, servingTicket, waiters, ticket>>

\* The call that returns True.  The one that returns False changes nothing.
TryEnterBackground(b) ==
    /\ state[b] = "idle"
    /\ ~ active
    /\ waiters = 0
    /\ active' = TRUE
    /\ state' = [state EXCEPT ![b] = "running"]
    /\ UNCHANGED <<nextTicket, servingTicket, waiters, ticket>>

LeaveBackground(b) ==
    /\ state[b] = "running"
    /\ active' = FALSE
    /\ state' = NotifyAll([state EXCEPT ![b] = "idle"])
    /\ UNCHANGED <<nextTicket, servingTicket, waiters, ticket>>

Next ==
    \/ \E t \in Foreground :
         \/ EnterForeground(t)
         \/ SleepAgain(t)
         \/ StartForeground(t)
         \/ LeaveForeground(t)
    \/ \E b \in Background : TryEnterBackground(b) \/ LeaveBackground(b)

\* A notified thread gets the lock back, and a cycle ends: its LLM calls and
\* waits all carry timeouts and the leave sits in a finally block.  Nothing
\* is promised about threads that ask again.
Fairness ==
    /\ \A t \in Foreground :
         /\ WF_vars(SleepAgain(t))
         /\ WF_vars(StartForeground(t))
         /\ WF_vars(LeaveForeground(t))
    /\ \A b \in Background : WF_vars(LeaveBackground(b))

Spec == Init /\ [][Next]_vars

FairSpec == Spec /\ Fairness

-----------------------------------------------------------------------------
(* Properties                                                              *)

TypeOK ==
    /\ nextTicket \in Nat
    /\ servingTicket \in Nat
    /\ waiters \in Nat
    /\ active \in BOOLEAN
    /\ ticket \in [Foreground -> Nat]
    /\ state \in [Threads -> States]

\* Two cycles never run at once, whichever mix of foreground and background
\* they are: enter_foreground and try_enter_background share one _active.
MutualExclusion ==
    \A s, t \in Threads : state[s] = "running" /\ state[t] = "running" => s = t

\* No wake-up is lost: a thread asleep in wait() whose turn has come sleeps
\* only while a cycle runs, and the end of that cycle will notify it.
NoLostWakeup ==
    \A t \in Foreground :
      state[t] = "asleep" /\ ticket[t] = servingTicket => active

\* The counter try_enter_background reads is the number of threads waiting:
\* it neither drifts upwards (background work would stop for good) nor
\* downwards (background work would overtake a waiting conversation).
WaitersCounted == waiters = Cardinality({t \in Foreground : Waiting(t)})

Starts(t) == state[t] # "running" /\ state'[t] = "running"

\* A foreground cycle starts only ahead of threads that asked after it, and a
\* background cycle starts only when no foreground thread waits.
FifoStart ==
    \A t \in Threads : Starts(t) =>
      \A u \in Foreground \ {t} :
        Waiting(u) => t \in Foreground /\ ticket'[t] < ticket[u]

ForegroundFirst == [][FifoStart]_vars

\* Every foreground caller of enter_foreground gets its cycle.
ForegroundServed == \A t \in Foreground : Waiting(t) ~> state[t] = "running"

-----------------------------------------------------------------------------
(* The abstract promise, and how the fields implement it.                  *)

\* The waiting threads ordered by ticket; the first of them holds the serving
\* ticket, or the one after it while that one's cycle runs.
Arrivals ==
    LET W == {t \in Foreground : Waiting(t)}
        Before(t) == Cardinality({u \in W : ticket[u] < ticket[t]})
    IN [i \in 1..Cardinality(W) |-> CHOOSE t \in W : Before(t) = i - 1]

Runner ==
    IF \E t \in Threads : state[t] = "running"
    THEN CHOOSE t \in Threads : state[t] = "running"
    ELSE Nobody

Abstract == INSTANCE SerialCycles WITH queue <- Arrivals, running <- Runner

ImplementsSerialCycles == Abstract!Spec

=============================================================================
