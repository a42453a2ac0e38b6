----------------------- MODULE CycleCoordinator_proofs -----------------------
(***************************************************************************)
(* Proofs about CycleCoordinator for every set of threads and every bound  *)
(* on the tickets.  The invariants the runs check are not inductive alone: *)
(* what ties them together is the account of the tickets in Account and    *)
(* Ordered below.  With the counter it also gives the refinement of        *)
(* SerialCycles.                                                           *)
(***************************************************************************)
EXTENDS CycleCoordinator, FiniteSetTheorems, TLAPS

Running(t) == state[t] = "running"

ForegroundRuns == \E t \in Foreground : Running(t)

\* Every ticket handed out and not yet passed belongs to a waiting thread, or
\* to the foreground thread that runs.
Account ==
    /\ ForegroundRuns => nextTicket = servingTicket + waiters + 1
    /\ ~ ForegroundRuns => nextTicket = servingTicket + waiters

\* Threads waiting hold distinct tickets not passed yet, and none holds the
\* serving ticket while the foreground thread it was given to runs.
Ordered ==
    /\ \A t \in Foreground : Waiting(t) =>
         /\ servingTicket <= ticket[t]
         /\ ticket[t] < nextTicket
         /\ ForegroundRuns => servingTicket < ticket[t]
    /\ \A t, u \in Foreground :
         Waiting(t) /\ Waiting(u) /\ ticket[t] = ticket[u] => t = u

\* _active says whether some cycle runs.
ActiveMeansRunning == active <=> \E t \in Threads : Running(t)

IInv ==
    /\ TypeOK
    /\ MutualExclusion
    /\ ActiveMeansRunning
    /\ Account
    /\ Ordered
    /\ NoLostWakeup

-----------------------------------------------------------------------------
\* The fields are well typed and the account balances when nobody has asked.
LEMMA InitIInv == Init => IInv
<1> SUFFICES ASSUME Init PROVE IInv
  OBVIOUS
<1> USE DEF Init
<1>1. TypeOK
  BY ThreadAssumption DEF TypeOK, Threads, States
<1>2. \A t \in Threads : ~ Running(t)
  BY DEF Running
<1>3. \A t \in Foreground : ~ Waiting(t)
  BY DEF Waiting, Threads
<1>4. MutualExclusion /\ ActiveMeansRunning
  BY <1>2 DEF MutualExclusion, ActiveMeansRunning, Running
<1>5. Account
  BY <1>2 DEF Account, ForegroundRuns, Threads
<1>6. Ordered /\ NoLostWakeup
  BY <1>3 DEF Ordered, NoLostWakeup, Waiting
<1> QED
  BY <1>1, <1>4, <1>5, <1>6 DEF IInv

\* What one step may do to the thread that takes it: everybody else keeps its
\* place, except that a sleeper may be woken.
LEMMA EnterKeepsIInv ==
    ASSUME IInv, NEW t \in Foreground, EnterForeground(t)
    PROVE  IInv'
<1> USE DEF EnterForeground, IInv, TypeOK
<1>1. TypeOK'
  <2>1. t \in Threads /\ "asleep" \in States /\ "running" \in States
    BY DEF Threads, States
  <2>2. nextTicket' \in Nat /\ servingTicket' \in Nat /\ ticket' \in [Foreground -> Nat]
    OBVIOUS
  <2>3. CASE MustWait(nextTicket)
    BY <2>1, <2>2, <2>3
  <2>4. CASE ~ MustWait(nextTicket)
    BY <2>1, <2>2, <2>4
  <2> QED
    BY <2>3, <2>4
<1>2. \A s \in Threads \ {t} : state'[s] = state[s]
  BY DEF Threads
<1>3. \A s \in Foreground \ {t} : ticket'[s] = ticket[s]
  OBVIOUS
<1>4. t \in Threads /\ ticket'[t] = nextTicket /\ ~ Waiting(t) /\ ~ Running(t)
  BY DEF Threads, Waiting, Running
<1>5. CASE MustWait(nextTicket)
  <2>1. state'[t] = "asleep" /\ waiters' = waiters + 1 /\ active' = active
    BY <1>5, <1>4
  <2>2. \A s \in Threads : Running(s)' <=> Running(s)
    BY <2>1, <1>2, <1>4 DEF Running
  <2>3. ForegroundRuns' <=> ForegroundRuns
    BY <2>2 DEF ForegroundRuns, Threads
  <2>4. MutualExclusion' /\ ActiveMeansRunning'
    BY <2>1, <2>2 DEF MutualExclusion, ActiveMeansRunning, Running
  <2>5. Account'
    BY <2>1, <2>3 DEF Account
  <2>6. servingTicket <= nextTicket /\ (ForegroundRuns => servingTicket < nextTicket)
    BY DEF Account
  <2>7. \A s \in Foreground \ {t} : Waiting(s)' <=> Waiting(s)
    BY <1>2 DEF Waiting, Threads
  <2>8. Ordered'
    BY <1>3, <1>4, <2>3, <2>6, <2>7 DEF Ordered
  <2>9. NoLostWakeup'
    BY <1>2, <1>3, <1>4, <1>5, <2>1 DEF NoLostWakeup, MustWait, Threads
  <2> QED
    BY <1>1, <2>4, <2>5, <2>8, <2>9
<1>6. CASE ~ MustWait(nextTicket)
  <2>1. state'[t] = "running" /\ waiters' = waiters /\ active'
    BY <1>6, <1>4
  <2>2. ~ active /\ nextTicket = servingTicket
    BY <1>6 DEF MustWait
  <2>3. \A s \in Threads : ~ Running(s)
    BY <2>2 DEF ActiveMeansRunning
  <2>4. \A s \in Threads : Running(s)' <=> s = t
    BY <1>2, <1>4, <2>1, <2>3 DEF Running
  <2>5. MutualExclusion' /\ ActiveMeansRunning'
    BY <1>4, <2>1, <2>4 DEF MutualExclusion, ActiveMeansRunning, Running
  <2>6. ForegroundRuns' /\ ~ ForegroundRuns
    BY <1>4, <2>3, <2>4 DEF ForegroundRuns, Threads
  <2>7. Account'
    BY <2>1, <2>6 DEF Account
  <2>8. \A s \in Foreground : ~ Waiting(s)
    BY <2>2 DEF Ordered
  <2>9. \A s \in Foreground : ~ Waiting(s)'
    BY <1>2, <2>1, <2>8 DEF Waiting, Threads
  <2>10. Ordered' /\ NoLostWakeup'
    BY <2>9 DEF Ordered, NoLostWakeup, Waiting
  <2> QED
    BY <1>1, <2>5, <2>7, <2>10
<1> QED
  BY <1>5, <1>6

\* A thread that goes back to sleep does so because it is not its turn.
LEMMA SleepAgainKeepsIInv ==
    ASSUME IInv, NEW t \in Foreground, SleepAgain(t)
    PROVE  IInv'
<1> USE DEF SleepAgain, IInv, TypeOK
<1>1. TypeOK'
  BY DEF Threads, States
<1>2. /\ t \in Threads
      /\ state'[t] = "asleep"
      /\ \A s \in Threads \ {t} : state'[s] = state[s]
  BY DEF Threads
<1>3. \A s \in Threads : Running(s)' <=> Running(s)
  BY <1>2 DEF Running
<1>4. \A s \in Foreground : Waiting(s)' <=> Waiting(s)
  BY <1>2 DEF Waiting, Threads
<1>5. ForegroundRuns' <=> ForegroundRuns
  BY <1>3 DEF ForegroundRuns, Threads
<1>6. MutualExclusion' /\ ActiveMeansRunning'
  BY <1>3 DEF MutualExclusion, ActiveMeansRunning, Running
<1>7. Account' /\ Ordered'
  BY <1>4, <1>5 DEF Account, Ordered
<1>8. NoLostWakeup'
  BY <1>2 DEF NoLostWakeup, MustWait, Threads
<1> QED
  BY <1>1, <1>6, <1>7, <1>8

\* A woken thread starts only when nobody runs, and it holds the one ticket
\* that is being served.
LEMMA StartKeepsIInv ==
    ASSUME IInv, NEW t \in Foreground, StartForeground(t)
    PROVE  IInv'
<1> USE DEF StartForeground, IInv, TypeOK
<1>1. /\ t \in Threads
      /\ Waiting(t)
      /\ ~ active
      /\ ticket[t] = servingTicket
  BY DEF Threads, Waiting, MustWait
<1>2. /\ state'[t] = "running"
      /\ \A s \in Threads \ {t} : state'[s] = state[s]
  BY <1>1
<1>3. \A s \in Threads : ~ Running(s)
  BY <1>1 DEF ActiveMeansRunning
<1>4. ~ ForegroundRuns
  BY <1>3 DEF ForegroundRuns, Threads
<1>5. waiters >= 1
  BY <1>1, <1>4 DEF Account, Ordered
<1>6. TypeOK'
  BY <1>5 DEF Threads, States
<1>7. \A s \in Threads : Running(s)' <=> s = t
  BY <1>2, <1>3, <1>1 DEF Running
<1>8. MutualExclusion' /\ ActiveMeansRunning'
  BY <1>1, <1>7 DEF MutualExclusion, ActiveMeansRunning, Running
<1>9. ForegroundRuns'
  BY <1>1, <1>7 DEF ForegroundRuns
<1>10. Account'
  BY <1>4, <1>5, <1>9 DEF Account
<1>11. \A s \in Foreground : Waiting(s)' => Waiting(s) /\ s # t
  BY <1>2 DEF Waiting, Threads
<1>12. \A s \in Foreground \ {t} : Waiting(s) => servingTicket < ticket[s]
  BY <1>1 DEF Ordered
<1>13. Ordered'
  BY <1>11, <1>12 DEF Ordered
<1>14. NoLostWakeup'
  BY DEF NoLostWakeup
<1> QED
  BY <1>6, <1>8, <1>10, <1>13, <1>14

\* When a cycle ends nobody runs, and everybody who waits is awake.
LEMMA LeaveStates ==
    ASSUME TypeOK, MutualExclusion, NEW t \in Threads, state[t] = "running",
           state' = NotifyAll([state EXCEPT ![t] = "idle"])
    PROVE  /\ state' \in [Threads -> States]
           /\ \A s \in Threads : ~ Running(s)' /\ state'[s] # "asleep"
           /\ \A s \in Foreground : Waiting(s)' <=> Waiting(s)
<1> DEFINE mid == [state EXCEPT ![t] = "idle"]
<1>1. mid \in [Threads -> States]
  BY DEF TypeOK, States
<1>2. \A s \in Threads : mid[s] = IF s = t THEN "idle" ELSE state[s]
  BY DEF TypeOK
<1>3. \A s \in Threads : mid[s] # "running"
  BY <1>2 DEF MutualExclusion
<1>4. \A s \in Threads : mid[s] \in {"asleep", "woken"} <=> state[s] \in {"asleep", "woken"}
  BY <1>2
<1>5. state' = [s \in Threads |-> IF mid[s] = "asleep" THEN "woken" ELSE mid[s]]
  BY DEF NotifyAll
<1> HIDE DEF mid
<1>6. /\ state' \in [Threads -> States]
      /\ \A s \in Threads : state'[s] # "asleep"
      /\ \A s \in Threads : state'[s] = "running" <=> mid[s] = "running"
      /\ \A s \in Threads : state'[s] \in {"asleep", "woken"}
                                <=> mid[s] \in {"asleep", "woken"}
  BY <1>1, <1>5 DEF States, NotifyAll
<1>7. \A s \in Threads : ~ Running(s)' /\ state'[s] # "asleep"
  BY <1>3, <1>6 DEF Running
<1>8. \A s \in Foreground : Waiting(s)' <=> Waiting(s)
  BY <1>4, <1>6 DEF Waiting, Threads
<1> QED
  BY <1>6, <1>7, <1>8

\* The end of a foreground cycle hands the turn to the next ticket.
LEMMA LeaveForegroundKeepsIInv ==
    ASSUME IInv, NEW t \in Foreground, LeaveForeground(t)
    PROVE  IInv'
<1> USE DEF LeaveForeground, IInv
<1>1. t \in Threads /\ Running(t) /\ ForegroundRuns
  BY DEF Threads, Running, ForegroundRuns
<1>2. /\ state' \in [Threads -> States]
      /\ \A s \in Threads : ~ Running(s)' /\ state'[s] # "asleep"
      /\ \A s \in Foreground : Waiting(s)' <=> Waiting(s)
  BY <1>1, LeaveStates
<1>3. TypeOK'
  <2>1. servingTicket' \in Nat
    BY DEF TypeOK, NotifyAll
  <2>2. active' \in BOOLEAN
    BY Zenon
  <2> QED
    BY <1>2, <2>1, <2>2 DEF TypeOK
<1>4. ~ ForegroundRuns'
  BY <1>2 DEF ForegroundRuns, Threads
<1>5. MutualExclusion' /\ ActiveMeansRunning' /\ NoLostWakeup'
  BY <1>2 DEF MutualExclusion, ActiveMeansRunning, NoLostWakeup, Running, Threads
<1>6. Account'
  BY <1>1, <1>4 DEF Account, TypeOK
<1>7. Ordered'
  BY <1>1, <1>2, <1>4 DEF Ordered, TypeOK
<1> QED
  BY <1>3, <1>5, <1>6, <1>7

\* A background cycle starts when nobody runs; no foreground thread waits, so
\* nobody's turn is taken.
LEMMA TryEnterKeepsIInv ==
    ASSUME IInv, NEW b \in Background, TryEnterBackground(b)
    PROVE  IInv'
<1> USE DEF TryEnterBackground, IInv, TypeOK
<1>1. /\ b \in Threads
      /\ b \notin Foreground
      /\ state'[b] = "running"
      /\ \A s \in Threads \ {b} : state'[s] = state[s]
  BY ThreadAssumption DEF Threads
<1>2. TypeOK'
  BY DEF States
<1>3. \A s \in Threads : ~ Running(s)
  BY DEF ActiveMeansRunning
<1>4. \A s \in Threads : Running(s)' <=> s = b
  BY <1>1, <1>3 DEF Running
<1>5. MutualExclusion' /\ ActiveMeansRunning' /\ NoLostWakeup'
  BY <1>1, <1>4 DEF MutualExclusion, ActiveMeansRunning, NoLostWakeup, Running
<1>6. ~ ForegroundRuns /\ ~ ForegroundRuns'
  BY <1>1, <1>3, <1>4 DEF ForegroundRuns, Threads
<1>7. \A s \in Foreground : Waiting(s)' <=> Waiting(s)
  BY <1>1 DEF Waiting, Threads
<1>8. Account' /\ Ordered'
  BY <1>6, <1>7 DEF Account, Ordered
<1> QED
  BY <1>2, <1>5, <1>8

\* The end of a background cycle leaves the tickets alone.
LEMMA LeaveBackgroundKeepsIInv ==
    ASSUME IInv, NEW b \in Background, LeaveBackground(b)
    PROVE  IInv'
<1> USE DEF LeaveBackground, IInv
<1>1. b \in Threads /\ b \notin Foreground /\ Running(b)
  BY ThreadAssumption DEF Threads, Running
<1>2. /\ state' \in [Threads -> States]
      /\ \A s \in Threads : ~ Running(s)' /\ state'[s] # "asleep"
      /\ \A s \in Foreground : Waiting(s)' <=> Waiting(s)
  BY <1>1, LeaveStates
<1>3. TypeOK'
  BY <1>2 DEF TypeOK
<1>4. ~ ForegroundRuns /\ ~ ForegroundRuns'
  BY <1>1, <1>2 DEF ForegroundRuns, Threads, MutualExclusion, Running
<1>5. MutualExclusion' /\ ActiveMeansRunning' /\ NoLostWakeup'
  BY <1>2 DEF MutualExclusion, ActiveMeansRunning, NoLostWakeup, Running, Threads
<1>6. Account' /\ Ordered'
  BY <1>2, <1>4 DEF Account, Ordered
<1> QED
  BY <1>3, <1>5, <1>6

\* Every step of the coordinator, and every stutter, keeps the invariant.
LEMMA NextKeepsIInv == IInv /\ [Next]_vars => IInv'
<1> SUFFICES ASSUME IInv, [Next]_vars PROVE IInv'
  OBVIOUS
<1>1. ASSUME NEW t \in Foreground, EnterForeground(t) PROVE IInv'
  BY <1>1, EnterKeepsIInv
<1>2. ASSUME NEW t \in Foreground, SleepAgain(t) PROVE IInv'
  BY <1>2, SleepAgainKeepsIInv
<1>3. ASSUME NEW t \in Foreground, StartForeground(t) PROVE IInv'
  BY <1>3, StartKeepsIInv
<1>4. ASSUME NEW t \in Foreground, LeaveForeground(t) PROVE IInv'
  BY <1>4, LeaveForegroundKeepsIInv
<1>5. ASSUME NEW b \in Background, TryEnterBackground(b) PROVE IInv'
  BY <1>5, TryEnterKeepsIInv
<1>6. ASSUME NEW b \in Background, LeaveBackground(b) PROVE IInv'
  BY <1>6, LeaveBackgroundKeepsIInv
<1>7. CASE UNCHANGED vars
  BY <1>7 DEF vars, IInv, TypeOK, MutualExclusion, ActiveMeansRunning, Account,
              Ordered, NoLostWakeup, ForegroundRuns, Running, Waiting
<1> QED
  BY <1>1, <1>2, <1>3, <1>4, <1>5, <1>6, <1>7 DEF Next

LEMMA Invariance == Spec => []IInv
BY InitIInv, NextKeepsIInv, PTL DEF Spec

-----------------------------------------------------------------------------
(* The theorems.                                                           *)

\* The fields keep their types; _foreground_waiters never goes negative.
THEOREM TypeCorrect == Spec => []TypeOK
BY Invariance, PTL DEF IInv

\* At most one judgement cycle runs.
THEOREM Exclusion == Spec => []MutualExclusion
BY Invariance, PTL DEF IInv

\* The thread whose turn it is never sleeps past the end of a cycle.
THEOREM NoWakeupLost == Spec => []NoLostWakeup
BY Invariance, PTL DEF IInv

\* A step that starts a cycle overtakes no waiting foreground thread.
LEMMA StepIsFifo == IInv /\ [Next]_vars => [FifoStart]_vars
<1> SUFFICES ASSUME IInv, Next PROVE FifoStart
  BY DEF vars
<1> SUFFICES ASSUME NEW t \in Threads, Starts(t),
                    NEW u \in Foreground \ {t}, Waiting(u)
             PROVE  t \in Foreground /\ ticket'[t] < ticket[u]
  BY DEF FifoStart
<1> USE DEF IInv, TypeOK
<1>1. ASSUME NEW s \in Foreground, EnterForeground(s) PROVE FALSE
  <2>1. s = t /\ ~ MustWait(nextTicket)
    BY <1>1 DEF EnterForeground, Starts, Threads
  <2>2. waiters = 0 /\ ~ ForegroundRuns
    BY <2>1 DEF MustWait, Account, ActiveMeansRunning, ForegroundRuns, Threads
  <2> QED
    BY <2>1, <2>2 DEF MustWait, Account, Ordered
<1>2. ASSUME NEW s \in Foreground, SleepAgain(s) PROVE FALSE
  BY <1>2 DEF SleepAgain, Starts, Threads
<1>3. ASSUME NEW s \in Foreground, StartForeground(s)
      PROVE  t \in Foreground /\ ticket'[t] < ticket[u]
  <2>1. s = t /\ ticket' = ticket /\ Waiting(t) /\ ticket[t] = servingTicket
    BY <1>3 DEF StartForeground, Starts, Threads, MustWait, Waiting
  <2> QED
    BY <1>3, <2>1 DEF Ordered
<1>4. ASSUME NEW s \in Foreground, LeaveForeground(s) PROVE FALSE
  <2>1. s \in Threads /\ state[s] = "running"
    BY <1>4 DEF LeaveForeground, Threads
  <2> QED
    BY <1>4, <2>1, LeaveStates DEF LeaveForeground, Starts, Running
<1>5. ASSUME NEW b \in Background, TryEnterBackground(b) PROVE FALSE
  <2>1. ~ ForegroundRuns /\ waiters = 0
    BY <1>5 DEF TryEnterBackground, ActiveMeansRunning, ForegroundRuns, Threads
  <2> QED
    BY <2>1 DEF Account, Ordered
<1>6. ASSUME NEW b \in Background, LeaveBackground(b) PROVE FALSE
  <2>1. b \in Threads /\ state[b] = "running"
    BY <1>6 DEF LeaveBackground, Threads
  <2> QED
    BY <1>6, <2>1, LeaveStates DEF LeaveBackground, Starts, Running
<1> QED
  BY <1>1, <1>2, <1>3, <1>4, <1>5, <1>6 DEF Next

\* Foreground cycles start in the order of arrival, and a background cycle
\* starts only when no foreground thread waits.
THEOREM ForegroundIsFirst == Spec => ForegroundFirst
BY Invariance, StepIsFifo, PTL DEF Spec, ForegroundFirst

-----------------------------------------------------------------------------
(* The counter of waiters, which needs the cardinality of a set.           *)

Waiters == {t \in Foreground : Waiting(t)}

\* Waking a sleeper leaves the set of waiting threads as it is.
LEMMA LeaveKeepsWaiters ==
    ASSUME IInv, NEW s \in Threads, state[s] = "running",
           state' = NotifyAll([state EXCEPT ![s] = "idle"])
    PROVE  Waiters' = Waiters
BY LeaveStates DEF IInv, Waiters

\* Each step changes the counter as it changes the set of waiting threads.
LEMMA StepCounts == IInv /\ WaitersCounted /\ [Next]_vars => WaitersCounted'
<1> SUFFICES ASSUME IInv, WaitersCounted, [Next]_vars PROVE WaitersCounted'
  OBVIOUS
<1> USE DEF IInv, TypeOK
<1>0. IsFiniteSet(Waiters) /\ waiters = Cardinality(Waiters)
  <2>1. IsFiniteSet(Waiters)
    BY ThreadAssumption, FS_Subset DEF Waiters
  <2> QED
    BY <2>1 DEF WaitersCounted, Waiters
<1> SUFFICES waiters' = Cardinality(Waiters')
  BY DEF WaitersCounted, Waiters
<1>1. ASSUME NEW t \in Foreground, EnterForeground(t)
      PROVE  waiters' = Cardinality(Waiters')
  <2>1. t \in Threads /\ t \notin Waiters
    BY <1>1 DEF EnterForeground, Waiters, Waiting, Threads
  <2>2. CASE MustWait(nextTicket)
    <3>1. Waiters' = Waiters \cup {t} /\ waiters' = waiters + 1
      BY <1>1, <2>1, <2>2 DEF EnterForeground, Waiters, Waiting, Threads
    <3> QED
      BY <1>0, <2>1, <3>1, FS_AddElement
  <2>3. CASE ~ MustWait(nextTicket)
    <3>1. Waiters' = Waiters /\ waiters' = waiters
      BY <1>1, <2>1, <2>3 DEF EnterForeground, Waiters, Waiting, Threads
    <3> QED
      BY <1>0, <3>1
  <2> QED
    BY <2>2, <2>3
<1>2. ASSUME NEW t \in Foreground, SleepAgain(t)
      PROVE  waiters' = Cardinality(Waiters')
  <2>1. Waiters' = Waiters /\ waiters' = waiters
    BY <1>2 DEF SleepAgain, Waiters, Waiting, Threads
  <2> QED
    BY <1>0, <2>1
<1>3. ASSUME NEW t \in Foreground, StartForeground(t)
      PROVE  waiters' = Cardinality(Waiters')
  <2>1. /\ t \in Waiters
        /\ Waiters' = Waiters \ {t}
        /\ waiters' = waiters - 1
    BY <1>3 DEF StartForeground, Waiters, Waiting, Threads
  <2> QED
    BY <1>0, <2>1, FS_RemoveElement
<1>4. ASSUME NEW t \in Foreground, LeaveForeground(t)
      PROVE  waiters' = Cardinality(Waiters')
  <2>1. t \in Threads /\ state[t] = "running" /\ waiters' = waiters
    BY <1>4 DEF LeaveForeground, Threads
  <2> QED
    BY <1>0, <1>4, <2>1, LeaveKeepsWaiters DEF LeaveForeground
<1>5. ASSUME NEW b \in Background, TryEnterBackground(b)
      PROVE  waiters' = Cardinality(Waiters')
  <2>1. Waiters' = Waiters /\ waiters' = waiters
    BY <1>5, ThreadAssumption DEF TryEnterBackground, Waiters, Waiting, Threads
  <2> QED
    BY <1>0, <2>1
<1>6. ASSUME NEW b \in Background, LeaveBackground(b)
      PROVE  waiters' = Cardinality(Waiters')
  <2>1. b \in Threads /\ state[b] = "running" /\ waiters' = waiters
    BY <1>6 DEF LeaveBackground, Threads
  <2> QED
    BY <1>0, <1>6, <2>1, LeaveKeepsWaiters DEF LeaveBackground
<1>7. CASE UNCHANGED vars
  BY <1>0, <1>7 DEF vars, Waiters, Waiting
<1> QED
  BY <1>1, <1>2, <1>3, <1>4, <1>5, <1>6, <1>7 DEF Next

\* _foreground_waiters is the number of threads waiting in enter_foreground.
THEOREM CounterIsExact == Spec => []WaitersCounted
<1>1. Init => WaitersCounted
  <2> SUFFICES ASSUME Init PROVE WaitersCounted
    OBVIOUS
  <2>1. {t \in Foreground : Waiting(t)} = {}
    BY DEF Init, Waiting, Threads
  <2> QED
    BY <2>1, FS_EmptySet DEF Init, WaitersCounted
<1> QED
  BY <1>1, Invariance, StepCounts, PTL DEF Spec

-----------------------------------------------------------------------------
(* The coordinator implements SerialCycles: the waiting threads, ordered by *)
(* ticket, are the queue, and the one that runs is the runner.             *)

\* The ticket of the first thread of the queue.
FirstTicket == IF ForegroundRuns THEN servingTicket + 1 ELSE servingTicket

\* Arrivals, for any set of threads and any tickets.
Nth(W, tk, i) == CHOOSE t \in W : Cardinality({u \in W : tk[u] < tk[t]}) = i - 1

Queued(W, tk) == [i \in 1..Cardinality(W) |-> Nth(W, tk, i)]

\* If the tickets of n threads are the numbers from b on, the thread with
\* ticket b + i - 1 is the i-th of the queue.
LEMMA QueuedByTicket ==
    ASSUME NEW W, IsFiniteSet(W), NEW tk, NEW b \in Nat, NEW n \in Nat,
           Cardinality(W) = n, \A t \in W : tk[t] \in b..(b + n - 1),
           \A t, u \in W : tk[t] = tk[u] => t = u
    PROVE  /\ Queued(W, tk) \in [1..n -> W]
           /\ \A i \in 1..n : tk[Queued(W, tk)[i]] = b + i - 1
<1>1. \A k \in b..(b + n - 1) : \E t \in W : tk[t] = k
  <2> DEFINE f == [t \in W |-> tk[t]]
  <2>1. f \in Injection(W, b..(b + n - 1))
    BY DEF Injection, IsInjective
  <2>2. IsFiniteSet(b..(b + n - 1)) /\ Cardinality(b..(b + n - 1)) = n
    <3>1. b \in Int /\ b + n - 1 \in Int
      OBVIOUS
    <3> HIDE DEF f
    <3> QED
      BY <3>1, FS_Interval
  <2>3. f \in Surjection(W, b..(b + n - 1))
    BY <2>1, <2>2, FS_Injection
  <2> QED
    BY <2>3 DEF Surjection
<1>2. ASSUME NEW t \in W
      PROVE  Cardinality({u \in W : tk[u] < tk[t]}) = tk[t] - b
  <2> DEFINE B == {u \in W : tk[u] < tk[t]}
             g == [u \in B |-> tk[u]]
  <2>1. IsFiniteSet(B)
    BY FS_Subset
  <2>2. g \in Bijection(B, b..(tk[t] - 1))
    <3>1. \A u \in B : tk[u] \in b..(tk[t] - 1)
      OBVIOUS
    <3>2. \A k \in b..(tk[t] - 1) : \E u \in B : tk[u] = k
      BY <1>1
    <3>3. \A u, v \in B : tk[u] = tk[v] => u = v
      OBVIOUS
    <3> HIDE DEF B
    <3> QED
      BY <3>1, <3>2, <3>3 DEF Bijection, Injection, Surjection, IsInjective
  <2>3. Cardinality(b..(tk[t] - 1)) = Cardinality(B)
    BY <2>1, <2>2, FS_Bijection DEF ExistsBijection
  <2>4. Cardinality(b..(tk[t] - 1)) = tk[t] - b
    <3>1. b \in Int /\ tk[t] - 1 \in Int /\ tk[t] >= b
      OBVIOUS
    <3>2. Cardinality(b..(tk[t] - 1)) = IF b > tk[t] - 1 THEN 0 ELSE (tk[t] - 1) - b + 1
      BY <3>1, FS_Interval
    <3> QED
      BY <3>1, <3>2
  <2> QED
    BY <2>3, <2>4
<1>3. ASSUME NEW i \in 1..n
      PROVE  Nth(W, tk, i) \in W /\ tk[Nth(W, tk, i)] = b + i - 1
  <2> DEFINE P(t) == Cardinality({u \in W : tk[u] < tk[t]}) = i - 1
  <2>1. PICK s \in W : tk[s] = b + i - 1
    BY <1>1
  <2>2. P(s)
    BY <1>2, <2>1
  <2>3. Nth(W, tk, i) = CHOOSE t \in W : P(t)
    BY DEF Nth
  <2>4. Nth(W, tk, i) \in W /\ P(Nth(W, tk, i))
    <3> HIDE DEF P
    <3> QED
      BY <2>2, <2>3
  <2>5. /\ tk[Nth(W, tk, i)] - b = i - 1
        /\ tk[Nth(W, tk, i)] \in b..(b + n - 1)
    BY <1>2, <2>4
  <2>6. \A x \in b..(b + n - 1) : x - b = i - 1 => x = b + i - 1
    OBVIOUS
  <2> QED
    BY <2>4, <2>5, <2>6
<1> QED
  BY <1>3 DEF Queued

\* The queue is in the order of the tickets, without a gap, and the runner is the
\* thread that runs.
QueueInv ==
    /\ FirstTicket \in Nat
    /\ Arrivals \in [1..waiters -> Waiters]
    /\ \A i \in 1..waiters : ticket[Arrivals[i]] = FirstTicket + i - 1
    /\ \A t \in Threads : Running(t) => Runner = t
    /\ (\A t \in Threads : ~ Running(t)) => Runner = Nobody

LEMMA QueueIsSorted == IInv /\ WaitersCounted => QueueInv
<1> SUFFICES ASSUME IInv, WaitersCounted PROVE QueueInv
  OBVIOUS
<1>1. IsFiniteSet(Waiters) /\ Cardinality(Waiters) = waiters /\ waiters \in Nat
  BY ThreadAssumption, FS_Subset DEF Waiters, WaitersCounted, IInv, TypeOK
<1>2. FirstTicket \in Nat /\ nextTicket = FirstTicket + waiters
  BY DEF FirstTicket, IInv, TypeOK, Account
<1>3. \A t \in Waiters : ticket[t] \in FirstTicket..(FirstTicket + waiters - 1)
  BY <1>2 DEF Waiters, FirstTicket, IInv, TypeOK, Ordered
<1>4. \A t, u \in Waiters : ticket[t] = ticket[u] => t = u
  BY DEF Waiters, IInv, Ordered
<1>5. Arrivals = Queued(Waiters, ticket)
  BY DEF Arrivals, Queued, Nth, Waiters
<1>6. /\ Arrivals \in [1..waiters -> Waiters]
      /\ \A i \in 1..waiters : ticket[Arrivals[i]] = FirstTicket + i - 1
  <2> DEFINE W == Waiters  b == FirstTicket  Q == Queued(W, ticket)
  <2>1. IsFiniteSet(W) /\ b \in Nat /\ waiters \in Nat /\ Cardinality(W) = waiters
    BY <1>1, <1>2
  <2>2. \A t \in W : ticket[t] \in b..(b + waiters - 1)
    BY <1>3
  <2>3. \A t, u \in W : ticket[t] = ticket[u] => t = u
    BY <1>4
  <2> HIDE DEF W, b
  <2>4. Q \in [1..waiters -> W] /\ \A i \in 1..waiters : ticket[Q[i]] = b + i - 1
    BY <2>1, <2>2, <2>3, QueuedByTicket
  <2> QED
    BY <1>5, <2>4 DEF W, b
<1>7. \A t \in Threads : Running(t) => Runner = t
  <2> SUFFICES ASSUME NEW t \in Threads, state[t] = "running"
               PROVE  Runner = t
    BY DEF Running
  <2>1. Runner \in Threads /\ state[Runner] = "running"
    BY DEF Runner
  <2> QED
    BY <2>1 DEF IInv, MutualExclusion
<1>8. (\A t \in Threads : ~ Running(t)) => Runner = Nobody
  BY DEF Runner, Running
<1> QED
  BY <1>2, <1>6, <1>7, <1>8 DEF QueueInv

\* A function on 1..n is a sequence.
LEMMA QueueIsSeq ==
    ASSUME NEW W, NEW q, NEW n \in Nat, q \in [1..n -> W]
    PROVE  q \in Seq(W) /\ Len(q) = n
OBVIOUS

\* Each step of the coordinator is a step of the promise, or none.
LEMMA StepIsSerial ==
    ASSUME IInv, IInv', QueueInv, QueueInv', [Next]_vars
    PROVE  [Abstract!Next]_Abstract!vars
<1> USE DEF Abstract!vars
<1>0. /\ waiters \in Nat /\ waiters' \in Nat
      /\ Arrivals \in Seq(Waiters) /\ Len(Arrivals) = waiters
      /\ Arrivals' \in Seq(Waiters') /\ Len(Arrivals') = waiters'
      /\ DOMAIN Arrivals = 1..waiters /\ DOMAIN Arrivals' = 1..waiters'
  <2>1. waiters \in Nat /\ waiters' \in Nat
    BY DEF IInv, TypeOK
  <2>2. Arrivals \in [1..waiters -> Waiters] /\ Arrivals' \in [1..waiters' -> Waiters']
    BY DEF QueueInv
  <2> HIDE DEF Waiters, Arrivals
  <2> QED
    BY <2>1, <2>2, QueueIsSeq
\* A queue whose head stays at the same ticket has the same threads at the same places.
<1>same. ASSUME Waiters \subseteq Waiters', \A s \in Waiters : ticket'[s] = ticket[s],
                FirstTicket' = FirstTicket, waiters <= waiters'
         PROVE  \A i \in 1..waiters : Arrivals'[i] = Arrivals[i]
  <2> SUFFICES ASSUME NEW i \in 1..waiters PROVE Arrivals'[i] = Arrivals[i]
    OBVIOUS
  <2>1. Arrivals[i] \in Waiters /\ ticket[Arrivals[i]] = FirstTicket + i - 1
    BY DEF QueueInv
  <2>2. i \in 1..waiters'
    BY <1>0, <1>same
  <2>3. Arrivals'[i] \in Waiters' /\ ticket'[Arrivals'[i]] = FirstTicket' + i - 1
    BY <2>2 DEF QueueInv
  <2>4. Arrivals[i] \in Waiters' /\ ticket'[Arrivals[i]] = ticket'[Arrivals'[i]]
    BY <1>same, <2>1, <2>3
  <2> QED
    BY <2>3, <2>4 DEF Waiters, IInv, Ordered
<1>still. ASSUME Waiters' = Waiters, ticket' = ticket, FirstTicket' = FirstTicket,
                 waiters' = waiters
          PROVE  Arrivals' = Arrivals
  <2>1. \A i \in 1..waiters : Arrivals'[i] = Arrivals[i]
    BY <1>0, <1>still, <1>same
  <2> QED
    BY <1>0, <1>still, <2>1
<1>empty. waiters = 0 => Arrivals = << >>
  BY <1>0
<1>runs. ASSUME NEW s \in Threads, state[s] = "running"
         PROVE  active /\ Runner = s
  BY <1>runs DEF QueueInv, Running, IInv, ActiveMeansRunning
<1>runsNext. ASSUME NEW s \in Threads, state'[s] = "running"
          PROVE  Runner' = s
  BY <1>runsNext DEF QueueInv, Running
<1>free. ~ active => Runner = Nobody /\ ~ ForegroundRuns
  BY DEF QueueInv, IInv, ActiveMeansRunning, ForegroundRuns, Threads
<1>freeNext. ~ active' => Runner' = Nobody /\ ~ ForegroundRuns'
  BY DEF QueueInv, IInv, ActiveMeansRunning, ForegroundRuns, Threads
<1>noone. \A s \in Threads : Runner = s => state[s] = "running"
  <2>1. (\E s \in Threads : state[s] = "running") => state[Runner] = "running"
    BY DEF Runner
  <2>2. (\A s \in Threads : state[s] # "running") => Runner \notin Threads
    BY ThreadAssumption DEF Runner, Threads
  <2> QED
    BY <2>1, <2>2
<1>types. /\ nextTicket \in Nat /\ servingTicket \in Nat /\ ticket \in [Foreground -> Nat]
          /\ state \in [Threads -> States] /\ Foreground \subseteq Threads
          /\ Background \subseteq Threads
  BY DEF IInv, TypeOK, Threads
<1>1. ASSUME NEW t \in Foreground, EnterForeground(t), MustWait(nextTicket)
      PROVE  Abstract!Ask(t)
  <2>1. /\ waiters' = waiters + 1 /\ ticket'[t] = nextTicket /\ servingTicket' = servingTicket
        /\ \A s \in Foreground \ {t} : ticket'[s] = ticket[s]
        /\ state[t] = "idle" /\ state' = [state EXCEPT ![t] = "asleep"]
    BY <1>1, <1>types DEF EnterForeground
  <2>2. Waiters' = Waiters \cup {t} /\ t \notin Waiters
    BY <2>1, <1>types DEF Waiters, Waiting
  <2>3. \A s \in Threads : Running(s)' <=> Running(s)
    BY <2>1, <1>types DEF Running
  <2>4. FirstTicket' = FirstTicket
    BY <2>1, <2>3, <1>types DEF FirstTicket, ForegroundRuns
  <2>5. \A i \in 1..waiters : Arrivals'[i] = Arrivals[i]
    <3>1. \A s \in Waiters : ticket'[s] = ticket[s]
      BY <2>1, <2>2 DEF Waiters
    <3> QED
      BY <1>0, <1>same, <2>1, <2>2, <2>4, <3>1
  <2>6. Arrivals'[waiters + 1] = t
    <3>1. /\ Arrivals'[waiters + 1] \in Waiters'
          /\ ticket'[Arrivals'[waiters + 1]] = FirstTicket + waiters
      BY <1>0, <2>1, <2>4 DEF QueueInv
    <3>2. nextTicket = FirstTicket + waiters
      BY <1>0, <1>types DEF FirstTicket, IInv, Account
    <3> QED
      BY <2>1, <2>2, <3>1, <3>2 DEF Waiters, IInv, Ordered
  <2>7. Arrivals' = Append(Arrivals, t)
    <3> DEFINE Q == Arrivals  R == Arrivals'
    <3>1. Q \in Seq(Waiters) /\ Len(Q) = waiters /\ R \in Seq(Waiters') /\ Len(R) = waiters + 1
      BY <1>0, <2>1
    <3>2. (\A i \in 1..waiters : R[i] = Q[i]) /\ R[waiters + 1] = t
      BY <2>5, <2>6
    <3> HIDE DEF Q, R, Waiters
    <3>3. R = Append(Q, t)
      BY <1>0, <3>1, <3>2
    <3> QED
      BY <3>3 DEF Q, R
  <2>8. \A i \in 1..Len(Arrivals) : Arrivals[i] # t
    BY <1>0, <2>2 DEF QueueInv
  <2>9. Runner # t
    BY <2>1, <1>types, <1>noone
  <2>10. Runner' = Runner
    BY <2>1, <1>types DEF Runner
  <2> QED
    BY <2>7, <2>8, <2>9, <2>10 DEF Abstract!Ask
<1>2. ASSUME NEW t \in Foreground, EnterForeground(t), ~ MustWait(nextTicket)
      PROVE  Abstract!AskAndRun(t)
  <2>1. /\ ~ active /\ nextTicket = servingTicket /\ waiters' = waiters
        /\ state' = [state EXCEPT ![t] = "running"]
    BY <1>2 DEF EnterForeground, MustWait
  <2>2. waiters = 0
    BY <2>1, <1>0, <1>free, <1>types DEF IInv, Account
  <2>3. Arrivals = << >> /\ Arrivals' = << >>
    BY <1>0, <2>1, <2>2
  <2>4. Runner = Nobody /\ Runner' = t
    BY <2>1, <1>free, <1>runsNext, <1>types
  <2> QED
    BY <2>3, <2>4 DEF Abstract!AskAndRun
<1>3. ASSUME NEW t \in Foreground, SleepAgain(t)
      PROVE  UNCHANGED <<Arrivals, Runner>>
  <2>1. /\ state[t] = "woken" /\ state' = [state EXCEPT ![t] = "asleep"]
        /\ UNCHANGED <<servingTicket, waiters, ticket>>
    BY <1>3 DEF SleepAgain
  <2>2. Waiters' = Waiters
    BY <2>1, <1>types DEF Waiters, Waiting
  <2>3. \A s \in Threads : Running(s)' <=> Running(s)
    BY <2>1, <1>types DEF Running
  <2>4. FirstTicket' = FirstTicket
    BY <2>1, <2>3, <1>types DEF FirstTicket, ForegroundRuns
  <2>5. Runner' = Runner
    BY <2>3 DEF Runner, Running
  <2> QED
    BY <1>still, <2>1, <2>2, <2>4, <2>5
<1>4. ASSUME NEW t \in Foreground, StartForeground(t)
      PROVE  Abstract!Serve
  <2>1. /\ ~ active /\ ticket[t] = servingTicket /\ waiters' = waiters - 1
        /\ state[t] = "woken" /\ state' = [state EXCEPT ![t] = "running"]
        /\ UNCHANGED <<servingTicket, ticket>>
    BY <1>4 DEF StartForeground, MustWait
  <2>2. Waiters' = Waiters \ {t} /\ t \in Waiters
    BY <2>1, <1>types DEF Waiters, Waiting
  <2>3. FirstTicket = servingTicket /\ FirstTicket' = servingTicket + 1
    <3>1. ForegroundRuns'
      BY <2>1, <1>types DEF ForegroundRuns, Running
    <3> QED
      BY <2>1, <3>1, <1>free DEF FirstTicket
  <2>4. waiters >= 1
    BY <1>0, <2>1
  <2>5. Arrivals[1] = t
    <3>1. Arrivals[1] \in Waiters /\ ticket[Arrivals[1]] = servingTicket
      BY <1>0, <2>3, <2>4, <1>types DEF QueueInv
    <3> QED
      BY <2>1, <2>2, <3>1 DEF Waiters, IInv, Ordered
  <2>6. ASSUME NEW i \in 1..(waiters - 1)  PROVE Arrivals'[i] = Arrivals[i + 1]
    <3>1. i \in 1..waiters' /\ i + 1 \in 1..waiters
      BY <1>0, <2>1
    <3>2. Arrivals'[i] \in Waiters' /\ ticket'[Arrivals'[i]] = servingTicket + 1 + i - 1
      BY <2>3, <3>1 DEF QueueInv
    <3>3. Arrivals[i + 1] \in Waiters /\ ticket[Arrivals[i + 1]] = servingTicket + (i + 1) - 1
      BY <2>3, <3>1 DEF QueueInv
    <3>4. ticket[Arrivals'[i]] = ticket[Arrivals[i + 1]]
      BY <2>1, <3>2, <3>3, <1>types
    <3> QED
      BY <2>2, <3>2, <3>3, <3>4 DEF Waiters, IInv, Ordered
  <2>7. Arrivals # << >> /\ Arrivals' = Tail(Arrivals) /\ Head(Arrivals) = t
    <3> DEFINE Q == Arrivals  R == Arrivals'
    <3>1. /\ Q \in Seq(Waiters) /\ Len(Q) = waiters /\ R \in Seq(Waiters')
          /\ Len(R) = waiters - 1
      BY <1>0, <2>1
    <3>2. (\A i \in 1..(waiters - 1) : R[i] = Q[i + 1]) /\ Q[1] = t
      BY <2>5, <2>6
    <3> HIDE DEF Q, R, Waiters
    <3>3. Q # << >> /\ R = Tail(Q) /\ Head(Q) = t
      BY <1>0, <2>4, <3>1, <3>2
    <3> QED
      BY <3>3 DEF Q, R
  <2>8. Runner = Nobody /\ Runner' = t
    BY <2>1, <1>free, <1>runsNext, <1>types
  <2> QED
    BY <2>7, <2>8 DEF Abstract!Serve
<1>5. ASSUME NEW t \in Threads,
             \/ LeaveForeground(t) /\ t \in Foreground
             \/ LeaveBackground(t) /\ t \in Background
      PROVE  Abstract!Finish
  <2>1. /\ state[t] = "running" /\ ~ active' /\ UNCHANGED <<waiters, ticket>>
        /\ state' = NotifyAll([state EXCEPT ![t] = "idle"])
    BY <1>5 DEF LeaveForeground, LeaveBackground
  <2>2. Waiters' = Waiters
    BY <2>1, LeaveKeepsWaiters
  <2>3. active /\ Runner = t /\ \A s \in Threads : state[s] = "running" => s = t
    BY <2>1, <1>runs DEF IInv, MutualExclusion
  <2>4. FirstTicket' = FirstTicket
    <3>1. ~ ForegroundRuns'
      BY <2>1, <1>freeNext
    <3>2. CASE LeaveForeground(t) /\ t \in Foreground
      <4>1. ForegroundRuns /\ servingTicket' = servingTicket + 1
        BY <1>5, <2>1, <3>2 DEF ForegroundRuns, Running, LeaveForeground
      <4> QED
        BY <3>1, <4>1 DEF FirstTicket
    <3>3. CASE LeaveBackground(t) /\ t \in Background
      <4>1. ~ ForegroundRuns /\ servingTicket' = servingTicket
        BY <1>5, <2>3, <3>3, <1>types, ThreadAssumption
           DEF ForegroundRuns, Running, LeaveBackground
      <4> QED
        BY <3>1, <4>1 DEF FirstTicket
    <3> QED
      BY <1>5, <3>2, <3>3
  <2>5. Arrivals' = Arrivals
    BY <1>still, <2>1, <2>2, <2>4
  <2>6. Runner # Nobody /\ Runner' = Nobody
    BY <2>1, <2>3, <1>freeNext, ThreadAssumption DEF Threads
  <2> QED
    BY <2>5, <2>6 DEF Abstract!Finish
<1>6. ASSUME NEW b \in Background, TryEnterBackground(b)
      PROVE  Abstract!SlipIn(b)
  <2>1. /\ ~ active /\ waiters = 0 /\ waiters' = 0
        /\ state' = [state EXCEPT ![b] = "running"]
    BY <1>6 DEF TryEnterBackground
  <2>2. Arrivals = << >> /\ Arrivals' = << >>
    BY <1>0, <2>1
  <2>3. Runner = Nobody /\ Runner' = b
    BY <2>1, <1>free, <1>runsNext, <1>types
  <2> QED
    BY <2>2, <2>3 DEF Abstract!SlipIn
<1>7. CASE UNCHANGED vars
  BY <1>7 DEF vars, Arrivals, Runner, Waiting
<1>8. CASE \E t \in Foreground : EnterForeground(t)
  BY <1>1, <1>2, <1>8 DEF Abstract!Next
<1>9. CASE \E t \in Foreground : SleepAgain(t)
  BY <1>3, <1>9
<1>10. CASE \E t \in Foreground : StartForeground(t)
  BY <1>4, <1>10 DEF Abstract!Next
<1>11. CASE \/ \E t \in Foreground : LeaveForeground(t)
            \/ \E b \in Background : LeaveBackground(b)
  <2>1. Abstract!Finish
    BY <1>5, <1>11, <1>types
  <2> QED
    BY <2>1 DEF Abstract!Next
<1>12. CASE \E b \in Background : TryEnterBackground(b)
  BY <1>6, <1>12 DEF Abstract!Next
<1> QED
  BY <1>7, <1>8, <1>9, <1>10, <1>11, <1>12 DEF Next

\* The tickets, the flag, the counter of waiters and the wake-ups amount to a queue
\* in order of arrival, served one at a time, past which background cycles slip
\* only when it is empty and nobody runs.
THEOREM CoordinatorRefines == Spec => ImplementsSerialCycles
<1>1. Init => Abstract!Init
  <2> SUFFICES ASSUME Init PROVE Abstract!Init
    OBVIOUS
  <2>1. {t \in Foreground : Waiting(t)} = {} /\ \A t \in Threads : state[t] # "running"
    BY DEF Init, Waiting, Threads
  <2>2. Arrivals = << >>
    <3>1. waiters = 0 /\ WaitersCounted
      BY <2>1, FS_EmptySet DEF Init, WaitersCounted
    <3>2. Arrivals \in [1..0 -> Waiters]
      BY <3>1, InitIInv, QueueIsSorted DEF QueueInv
    <3> HIDE DEF Arrivals, Waiters
    <3> QED
      BY <3>2
  <2>3. Runner = Nobody
    BY <2>1 DEF Runner
  <2> QED
    BY <2>2, <2>3 DEF Abstract!Init
<1>2. Spec => []QueueInv
  BY Invariance, CounterIsExact, QueueIsSorted, PTL
<1> QED
  BY <1>1, <1>2, Invariance, StepIsSerial, PTL DEF Spec, ImplementsSerialCycles, Abstract!Spec
=============================================================================
