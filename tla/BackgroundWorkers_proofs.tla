----------------------- MODULE BackgroundWorkers_proofs -----------------------
(***************************************************************************)
(* Proofs about the two workers that turn what the cycles left behind into *)
(* memory.                                                                 *)
(*                                                                         *)
(* MemoryPostprocess, for any number of jobs made by as many threads, any  *)
(* ends of the process, and any memory set that is deleted: no job is      *)
(* lost, jobs finish in the order of their time unless overtaken while     *)
(* they were made, effects are applied again only after a cut, and a job   *)
(* of a deleted memory set is not run.                                     *)
(*                                                                         *)
(* VisualDaily, whose names the two share none of, for any number of days, *)
(* records and faults and any limit on a round: a digest becomes memory    *)
(* once, but for the cuts, and misses only what was written too late.      *)
(*                                                                         *)
(* The liveness of both is model-checked only.                             *)
(***************************************************************************)
EXTENDS MemoryPostprocess, VisualDaily, FiniteSetTheorems, WellFoundedInduction, TLAPS

Busy == {"read", "start", "run", "finish"}

InTheMaking(j) == making[j] \in {"begun", "persisted"}

\* What is left when the process has ended.
Down == ~alive => /\ worker = "ended" /\ hand = StopMark /\ queue = <<>>
                  /\ ~stopping /\ \A j \in Jobs : ~InTheMaking(j)

Hands ==
    /\ worker \in Busy => hand # StopMark
    /\ worker \in {"get", "ended", "dead"} => hand = StopMark

\* Only jobs that have been put are in the queue, in hand or finished.
Known ==
    /\ hand # StopMark => making[hand] = "done"
    /\ \A i \in 1..Len(queue) : queue[i] # StopMark => making[queue[i]] = "done"
    /\ \A i \in 1..Len(finished) : making[finished[i]] = "done"
    /\ \A j \in Jobs : /\ making[j] # "done" => runs[j] = 0
                       /\ making[j] \in {"none", "begun"} => row[j] = "none"

\* A job is queued once, and not while it is in hand.
Once ==
    /\ \A i, k \in 1..Len(queue) : i < k /\ queue[k] # StopMark => queue[i] # queue[k]
    /\ \A i \in 1..Len(queue) : queue[i] # StopMark => hand # queue[i]

\* Job k may come after job i.
MayFollow(i, k) == QueuedAt[i] <= QueuedAt[k] \/ k \in overtaken

\* The queue, after what is in hand, is in that order.
Order ==
    /\ \A i, k \in 1..Len(queue) :
          i < k /\ queue[i] # StopMark /\ queue[k] # StopMark => MayFollow(queue[i], queue[k])
    /\ \A i \in 1..Len(queue) :
          hand # StopMark /\ queue[i] # StopMark => MayFollow(hand, queue[i])

\* A job in the making may come after all that has been put.
Fresh ==
    \A j \in Jobs : InTheMaking(j) =>
      /\ hand # StopMark => MayFollow(hand, j)
      /\ \A i \in 1..Len(queue) : queue[i] # StopMark => MayFollow(queue[i], j)

\* JobsNotLost, also while the process is asked to stop.
Kept ==
    alive /\ worker # "dead" => \A j \in Jobs :
        row[j] \in Unfinished =>
          Queued(j) \/ (hand = j /\ worker \in Busy) \/ making[j] = "persisted"

\* Jobs that may still be run, and the one that has been.
Ahead(j) ==
    \/ Queued(j)
    \/ row[j] \in Unfinished
    \/ hand = j /\ worker \in Busy
    \/ InTheMaking(j)

Ran(j) == hand = j /\ worker = "finish"

Owed ==
    \A j \in Jobs : /\ runs[j] <= 1 + cut[j]
                    /\ Ahead(j) /\ ~Ran(j) => runs[j] <= cut[j]

Finished(j) == \E i \in 1..Len(finished) : finished[i] = j

FinishedFirst ==
    \A j \in Jobs : Ahead(j) /\ ~Finished(j) =>
        \A i \in 1..Len(finished) : MayFollow(finished[i], j)

Gone ==
    deleted => \A j \in Doomed \ excused :
        /\ row[j] = "none"
        /\ ~(hand = j /\ worker \in {"start", "run", "finish"})
        /\ making[j] \in {"persisted", "done"}

IInv == /\ TypeOK /\ Down /\ Hands /\ Known /\ Once /\ Order /\ Fresh /\ Kept /\ Owed
        /\ FinishedFirst /\ FinishInOrder /\ Gone

-----------------------------------------------------------------------------
(* The queue.                                                              *)

LEMMA JobNumbers ==
    /\ MaxJobs \in Nat /\ Jobs = 1..MaxJobs /\ StopMark = 0 /\ StopMark \notin Jobs
    /\ \A j \in Jobs : QueuedAt[j] \in Nat
    /\ Doomed \subseteq Jobs
BY PostprocessAssumption DEF Jobs, StopMark

LEMMA Elements ==
    ASSUME TypeOK
    PROVE  /\ Len(queue) \in Nat /\ Len(finished) \in Nat
           /\ \A i \in 1..Len(queue) : queue[i] \in Jobs \cup {StopMark}
           /\ \A i \in 1..Len(finished) : finished[i] \in Jobs
           /\ hand \in Jobs \cup {StopMark}
<1>1. queue \in Seq(Jobs \cup {StopMark}) /\ finished \in Seq(Jobs) /\ hand \in Jobs \cup {StopMark}
  BY DEF TypeOK
<1>2. /\ Len(queue) \in Nat /\ Len(finished) \in Nat
      /\ \A i \in 1..Len(queue) : queue[i] \in Jobs \cup {StopMark}
      /\ \A i \in 1..Len(finished) : finished[i] \in Jobs
  BY ONLY <1>1
<1> QED
  BY <1>1, <1>2

LEMMA Appended ==
    ASSUME TypeOK, NEW x \in Jobs \cup {StopMark}, queue' = Append(queue, x)
    PROVE  /\ queue' \in Seq(Jobs \cup {StopMark})
           /\ Len(queue') = Len(queue) + 1 /\ Len(queue) \in Nat
           /\ queue'[Len(queue) + 1] = x
           /\ \A i \in 1..Len(queue) : queue'[i] = queue[i]
           /\ \A j : Queued(j)' <=> Queued(j) \/ j = x
<1>1. queue \in Seq(Jobs \cup {StopMark})
  BY DEF TypeOK
<1>2. /\ queue' \in Seq(Jobs \cup {StopMark})
      /\ Len(queue') = Len(queue) + 1 /\ Len(queue) \in Nat
      /\ queue'[Len(queue) + 1] = x
      /\ \A i \in 1..Len(queue) : queue'[i] = queue[i]
  BY <1>1
<1>3. ASSUME NEW j PROVE Queued(j)' <=> Queued(j) \/ j = x
  BY <1>2 DEF Queued
<1> QED
  BY <1>2, <1>3

LEMMA Shortened ==
    ASSUME TypeOK, queue # <<>>, queue' = Tail(queue)
    PROVE  /\ queue' \in Seq(Jobs \cup {StopMark})
           /\ Len(queue') = Len(queue) - 1 /\ Len(queue) \in Nat \ {0}
           /\ Head(queue) = queue[1] /\ queue[1] \in Jobs \cup {StopMark}
           /\ \A i \in 1..Len(queue') : i + 1 \in 1..Len(queue) /\ queue'[i] = queue[i + 1]
           /\ \A j : Queued(j) <=> Queued(j)' \/ j = queue[1]
<1>1. queue \in Seq(Jobs \cup {StopMark})
  BY DEF TypeOK
<1>2. /\ queue' \in Seq(Jobs \cup {StopMark})
      /\ Len(queue') = Len(queue) - 1 /\ Len(queue) \in Nat \ {0}
      /\ Head(queue) = queue[1] /\ queue[1] \in Jobs \cup {StopMark}
      /\ \A i \in 1..Len(queue') : i + 1 \in 1..Len(queue) /\ queue'[i] = queue[i + 1]
  BY <1>1
<1>3. ASSUME NEW j PROVE Queued(j) <=> Queued(j)' \/ j = queue[1]
  <2>1. Queued(j)' => Queued(j)
    BY <1>2 DEF Queued
  <2>2. ASSUME NEW i \in 1..Len(queue), queue[i] = j, i # 1 PROVE Queued(j)'
    <3>1. i - 1 \in 1..Len(queue') /\ queue'[i - 1] = queue[i]
      BY <1>2, <2>2
    <3> QED
      BY <2>2, <3>1 DEF Queued
  <2> QED
    BY <1>2, <2>1, <2>2 DEF Queued
<1> QED
  BY <1>2, <1>3

-----------------------------------------------------------------------------
(* Every step keeps the invariant.                                         *)

LEMMA BeginJobKeepsIInv ==
    ASSUME IInv, NEW j \in Jobs, BeginJob(j)
    PROVE  IInv'
<1> USE JobNumbers DEF IInv
<1>1. /\ alive /\ making[j] = "none"
      /\ \A i \in Jobs : making[i] # "none" => QueuedAt[i] <= QueuedAt[j]
      /\ making' = [making EXCEPT ![j] = "begun"]
      /\ UNCHANGED <<alive, stopping, crashes, row, deleted, queue, worker, hand,
                     runs, cut, finished, overtaken, excused>>
  BY DEF BeginJob, workerVars, history
<1>2. /\ \A i \in Jobs : making'[i] = IF i = j THEN "begun" ELSE making[i]
      /\ \A i \in Jobs : InTheMaking(i)' <=> InTheMaking(i) \/ i = j
      /\ making' \in [Jobs -> {"none", "begun", "persisted", "done"}]
  BY <1>1 DEF TypeOK, InTheMaking
<1>3. \A i \in Jobs : making[i] = "done" => i # j /\ MayFollow(i, j)
  BY <1>1 DEF MayFollow
<1>4. /\ \A i, k : MayFollow(i, k)' <=> MayFollow(i, k)
      /\ \A i : (Queued(i)' <=> Queued(i)) /\ (Finished(i)' <=> Finished(i))
      /\ \A i : (Ran(i)' <=> Ran(i))
  BY <1>1 DEF MayFollow, Queued, Finished, Ran
<1>5. TypeOK'
  BY <1>1, <1>2 DEF TypeOK
<1>6. Down' /\ Hands'
  BY <1>1 DEF Down, Hands
<1>7. Known'
  BY <1>1, <1>2, Elements DEF Known
<1>8. Once' /\ Order'
  BY <1>1, <1>4 DEF Once, Order
<1>9. Fresh'
  BY <1>1, <1>2, <1>3, <1>4, Elements DEF Fresh, Known
<1>10. Kept'
  BY <1>1, <1>2, <1>4 DEF Kept
<1>11. ASSUME NEW i \in Jobs, Ahead(i)', i # j  PROVE Ahead(i)
  BY <1>1, <1>2, <1>4, <1>11 DEF Ahead
<1>12. Owed'
  <2>1. runs[j] = 0 /\ runs[j] <= cut[j] /\ cut' = cut /\ runs' = runs
    BY <1>1 DEF Known, TypeOK
  <2> QED
    BY <1>4, <1>11, <2>1 DEF Owed
<1>13. FinishedFirst'
  <2> SUFFICES ASSUME NEW i \in Jobs, Ahead(i)', ~Finished(i)', NEW k \in 1..Len(finished)
               PROVE  MayFollow(finished[k], i)
    BY <1>1, <1>4 DEF FinishedFirst
  <2>1. CASE i = j
    BY <1>3, <2>1, Elements DEF Known
  <2>2. CASE i # j
    BY <1>4, <1>11, <2>2 DEF FinishedFirst
  <2> QED
    BY <2>1, <2>2
<1>14. FinishInOrder' /\ Gone'
  BY <1>1, <1>2 DEF FinishInOrder, Gone
<1> QED
  BY <1>5, <1>6, <1>7, <1>8, <1>9, <1>10, <1>12, <1>13, <1>14

LEMMA PersistJobKeepsIInv ==
    ASSUME IInv, NEW j \in Jobs, PersistJob(j)
    PROVE  IInv'
<1> USE JobNumbers DEF IInv
<1>1. /\ making[j] = "begun"
      /\ \/ row' = [row EXCEPT ![j] = "queued"] /\ making' = [making EXCEPT ![j] = "persisted"]
         \/ making' = [making EXCEPT ![j] = "done"] /\ row' = row
      /\ UNCHANGED <<alive, stopping, crashes, deleted, queue, worker, hand,
                     runs, cut, finished, overtaken, excused>>
  BY DEF PersistJob, workerVars, history
<1>2. /\ \A i \in Jobs : i # j => making'[i] = making[i] /\ row'[i] = row[i]
      /\ \/ making'[j] = "persisted" /\ row'[j] = "queued"
         \/ making'[j] = "done" /\ row'[j] = row[j]
      /\ making' \in [Jobs -> {"none", "begun", "persisted", "done"}]
      /\ row' \in [Jobs -> {"none", "queued", "running", "succeeded", "failed"}]
  BY <1>1 DEF TypeOK
<1>3. /\ \A i \in Jobs : InTheMaking(i)' => InTheMaking(i)
      /\ alive /\ row[j] = "none"
  BY <1>1, <1>2 DEF InTheMaking, Down, Known
<1>4. /\ \A i, k : MayFollow(i, k)' <=> MayFollow(i, k)
      /\ \A i : (Queued(i)' <=> Queued(i)) /\ (Finished(i)' <=> Finished(i))
      /\ \A i : (Ran(i)' <=> Ran(i))
  BY <1>1 DEF MayFollow, Queued, Finished, Ran
<1>5. TypeOK'
  BY <1>1, <1>2 DEF TypeOK
<1>6. Down' /\ Hands'
  BY <1>1, <1>3 DEF Down, Hands
<1>7. Known'
  <2>1. /\ \A i \in Jobs : making[i] = "done" => making'[i] = "done"
        /\ \A i \in Jobs : making'[i] # "done" => making[i] # "done"
        /\ \A i \in Jobs : making'[i] \in {"none", "begun"} =>
                making[i] \in {"none", "begun"} /\ row'[i] = row[i]
    BY <1>1, <1>2
  <2>2. Known
    OBVIOUS
  <2> QED
    BY ONLY <1>1, <2>1, <2>2, TypeOK, Elements, JobNumbers DEF Known
<1>8. Once' /\ Order' /\ Fresh'
  BY <1>1, <1>3, <1>4 DEF Once, Order, Fresh
<1>9. Kept'
  BY <1>1, <1>2, <1>3, <1>4 DEF Kept, Unfinished
<1>10. \A i \in Jobs : Ahead(i)' => Ahead(i)
  BY <1>1, <1>2, <1>3, <1>4 DEF Ahead, InTheMaking
<1>11. Owed' /\ FinishedFirst'
  BY <1>1, <1>4, <1>10 DEF Owed, FinishedFirst
<1>12. FinishInOrder'
  BY <1>1 DEF FinishInOrder
<1>13. Gone'
  BY <1>1, <1>2 DEF Gone
<1> QED
  BY <1>5, <1>6, <1>7, <1>8, <1>9, <1>11, <1>12, <1>13

LEMMA PutJobKeepsIInv ==
    ASSUME IInv, NEW j \in Jobs, PutJob(j)
    PROVE  IInv'
<1> USE JobNumbers DEF IInv
<1> DEFINE Now(i, k) == QueuedAt[i] <= QueuedAt[k] \/ k \in overtaken'
<1>1. /\ making[j] = "persisted" /\ queue' = Append(queue, j)
      /\ making' = [making EXCEPT ![j] = "done"]
      /\ overtaken' = overtaken \cup {i \in Jobs : /\ making[i] \in {"begun", "persisted"}
                                                 /\ QueuedAt[i] < QueuedAt[j]}
      /\ UNCHANGED <<alive, stopping, crashes, row, deleted, worker, hand,
                     runs, cut, finished, excused>>
  BY DEF PutJob, workerVars
<1>2. /\ queue' \in Seq(Jobs \cup {StopMark})
      /\ Len(queue') = Len(queue) + 1 /\ queue'[Len(queue) + 1] = j
      /\ \A i \in 1..Len(queue) : queue'[i] = queue[i]
      /\ \A i : Queued(i)' <=> Queued(i) \/ i = j
      /\ Len(queue) \in Nat
  BY <1>1, Appended
<1>3. \A i \in 1..Len(queue') : i \in 1..Len(queue) \/ i = Len(queue) + 1
  BY <1>2
<1>4. /\ \A i \in Jobs : making'[i] = IF i = j THEN "done" ELSE making[i]
      /\ \A i \in Jobs : InTheMaking(i)' <=> InTheMaking(i) /\ i # j
      /\ InTheMaking(j) /\ alive
      /\ making' \in [Jobs -> {"none", "begun", "persisted", "done"}]
  BY <1>1 DEF TypeOK, InTheMaking, Down
<1>5. /\ \A i, k : MayFollow(i, k) => Now(i, k)
      /\ \A i \in Jobs : InTheMaking(i) => Now(j, i)
      /\ \A i : (Finished(i)' <=> Finished(i)) /\ (Ran(i)' <=> Ran(i))
  BY <1>1 DEF MayFollow, InTheMaking, Finished, Ran
<1> HIDE DEF Now
<1>6. TypeOK'
  BY <1>1, <1>2, <1>4 DEF TypeOK
<1>7. Down' /\ Hands'
  BY <1>1, <1>4 DEF Down, Hands
<1>8. Known'
  BY <1>1, <1>2, <1>3, <1>4, Elements DEF Known
<1>9. Once'
  <2>1. \A i \in 1..Len(queue) : queue[i] # j
    BY <1>1, Elements DEF Known
  <2>2. hand # j
    BY <1>1 DEF Known
  <2>3. ASSUME NEW i \in 1..Len(queue'), NEW k \in 1..Len(queue'), i < k, queue'[k] # StopMark
        PROVE  queue'[i] # queue'[k]
    BY <1>2, <1>3, <2>1, <2>3 DEF Once
  <2>4. ASSUME NEW i \in 1..Len(queue'), queue'[i] # StopMark  PROVE hand' # queue'[i]
    BY <1>1, <1>2, <1>3, <2>2, <2>4 DEF Once
  <2> QED
    BY <2>3, <2>4 DEF Once
<1>10. Order'
  <2>1. ASSUME NEW i \in 1..Len(queue'), NEW k \in 1..Len(queue'), i < k,
               queue'[i] # StopMark, queue'[k] # StopMark
        PROVE  Now(queue'[i], queue'[k])
    <3>1. i \in 1..Len(queue) /\ queue'[i] = queue[i]
      BY <1>2, <1>3, <2>1
    <3>2. CASE k = Len(queue) + 1
      BY <1>2, <1>4, <1>5, <2>1, <3>1, <3>2 DEF Fresh
    <3>3. CASE k \in 1..Len(queue)
      BY <1>2, <1>5, <2>1, <3>1, <3>3 DEF Order
    <3> QED
      BY <1>3, <3>2, <3>3
  <2>2. ASSUME NEW i \in 1..Len(queue'), hand # StopMark, queue'[i] # StopMark
        PROVE  Now(hand, queue'[i])
    BY <1>2, <1>3, <1>4, <1>5, <2>2 DEF Order, Fresh
  <2> QED
    BY <1>1, <2>1, <2>2 DEF Order, MayFollow, Now
<1>11. Fresh'
  <2> SUFFICES ASSUME NEW i \in Jobs, InTheMaking(i)'
               PROVE  /\ hand # StopMark => Now(hand, i)
                      /\ \A k \in 1..Len(queue') : queue'[k] # StopMark => Now(queue'[k], i)
    BY <1>1 DEF Fresh, MayFollow, Now
  <2>1. InTheMaking(i)
    BY <1>4
  <2>2. ASSUME NEW k \in 1..Len(queue'), queue'[k] # StopMark  PROVE Now(queue'[k], i)
    BY <1>2, <1>3, <1>5, <2>1, <2>2 DEF Fresh
  <2> QED
    BY <1>5, <2>1, <2>2 DEF Fresh
<1>12. Kept'
  BY <1>1, <1>2, <1>4 DEF Kept
<1>13. \A i \in Jobs : Ahead(i)' => Ahead(i)
  BY <1>1, <1>2, <1>4 DEF Ahead
<1>14. Owed'
  BY <1>1, <1>5, <1>13 DEF Owed
<1>15. FinishedFirst' /\ FinishInOrder'
  <2>1. \A i \in Jobs : Ahead(i)' /\ ~Finished(i)' =>
            \A k \in 1..Len(finished) : Now(finished[k], i)
    BY <1>5, <1>13 DEF FinishedFirst
  <2> QED
    BY <1>1, <1>5, <2>1 DEF FinishedFirst, FinishInOrder, MayFollow, Now
<1>16. Gone'
  BY <1>1, <1>4 DEF Gone
<1> QED
  BY <1>6, <1>7, <1>8, <1>9, <1>10, <1>11, <1>12, <1>14, <1>15, <1>16

LEMMA DeleteMemorySetKeepsIInv == IInv /\ DeleteMemorySet => IInv'
<1> SUFFICES ASSUME IInv, DeleteMemorySet PROVE IInv'
  OBVIOUS
<1> USE JobNumbers DEF IInv, DeleteMemorySet, workerVars
<1>1. TypeOK' /\ Down' /\ Hands'
  BY DEF TypeOK, Down, InTheMaking, Hands, Busy
<1>2. Known'
  BY DEF TypeOK, Known, Unfinished
<1>3. Once' /\ Order'
  BY DEF TypeOK, Once, Order, MayFollow
<1>4. Fresh'
  BY DEF TypeOK, Fresh, InTheMaking, MayFollow
<1>5. Kept'
  BY DEF TypeOK, Kept, Busy, Unfinished, Queued
<1>6. Owed'
  BY DEF TypeOK, Owed, Ahead, InTheMaking, Ran, Queued, Busy, Unfinished
<1>7. FinishedFirst' /\ FinishInOrder'
  BY DEF TypeOK, FinishedFirst, FinishInOrder, Finished, Ahead, InTheMaking, MayFollow,
         Queued, Busy, Unfinished
<1>8. Gone'
  BY PostprocessAssumption DEF TypeOK, Gone
<1> QED
  BY <1>1, <1>2, <1>3, <1>4, <1>5, <1>6, <1>7, <1>8

LEMMA WorkerTopKeepsIInv == IInv /\ WorkerTop => IInv'
<1> SUFFICES ASSUME IInv, WorkerTop PROVE IInv'
  OBVIOUS
<1> USE JobNumbers DEF IInv, WorkerTop, history
<1>1. TypeOK' /\ Down' /\ Hands'
  BY DEF TypeOK, Down, InTheMaking, Hands, Busy
<1>2. Known'
  BY DEF TypeOK, Known, Unfinished
<1>3. Once' /\ Order'
  BY DEF TypeOK, Once, Order, MayFollow
<1>4. Fresh'
  BY DEF TypeOK, Fresh, InTheMaking, MayFollow
<1>5. Kept'
  BY DEF TypeOK, Kept, Busy, Unfinished, Queued
<1>6. Owed'
  BY DEF TypeOK, Owed, Ahead, InTheMaking, Ran, Queued, Busy, Unfinished
<1>7. FinishedFirst' /\ FinishInOrder'
  BY DEF TypeOK, FinishedFirst, FinishInOrder, Finished, Ahead, InTheMaking, MayFollow,
         Queued, Busy, Unfinished
<1>8. Gone'
  BY PostprocessAssumption DEF TypeOK, Gone
<1> QED
  BY <1>1, <1>2, <1>3, <1>4, <1>5, <1>6, <1>7, <1>8

LEMMA WorkerGetKeepsIInv == IInv /\ WorkerGet => IInv'
<1> SUFFICES ASSUME IInv, WorkerGet PROVE IInv'
  OBVIOUS
<1> USE JobNumbers, Elements DEF IInv, WorkerGet, history
<1>1. /\ worker = "get" /\ hand = StopMark
      /\ UNCHANGED <<alive, stopping, crashes, making, row, deleted,
                     runs, cut, finished, overtaken, excused>>
      /\ \A i, k : MayFollow(i, k)' <=> MayFollow(i, k)
      /\ \A i : (InTheMaking(i)' <=> InTheMaking(i)) /\ (Finished(i)' <=> Finished(i))
  BY DEF Hands, MayFollow, InTheMaking, Finished
<1>2. CASE queue = <<>>
  <2>1. worker' = "top" /\ UNCHANGED <<hand, queue>>
    BY <1>2
  <2>2. TypeOK'
    BY <1>1, <2>1 DEF TypeOK
  <2>3. Down' /\ Hands' /\ Gone'
    BY <1>1, <2>1 DEF Down, Hands, Gone, Busy
  <2>4. Known' /\ Once' /\ Order' /\ Fresh'
    BY <1>1, <2>1 DEF Known, Once, Order, Fresh
  <2>5. Kept' /\ Owed' /\ FinishedFirst' /\ FinishInOrder'
    BY <1>1, <2>1 DEF Kept, Owed, FinishedFirst, FinishInOrder, Ahead, Ran, Queued, Busy
  <2> QED
    BY <2>2, <2>3, <2>4, <2>5
<1>3. CASE queue # <<>>
  <2>1. /\ queue' \in Seq(Jobs \cup {StopMark}) /\ Len(queue') = Len(queue) - 1
        /\ Len(queue) \in Nat \ {0} /\ hand' = queue[1] /\ hand' \in Jobs \cup {StopMark}
        /\ \A i \in 1..Len(queue') : i + 1 \in 1..Len(queue) /\ queue'[i] = queue[i + 1]
        /\ \A j : Queued(j) <=> Queued(j)' \/ j = queue[1]
        /\ 1 \in 1..Len(queue)
    BY <1>3, Shortened
  <2>2. /\ hand' # StopMark => worker' = "read"
        /\ worker' \in {"read", "ended", "top"}
        /\ worker' \in {"read", "ended"} => alive
    BY <1>1, <1>3 DEF Down
  <2>3. TypeOK' /\ Down' /\ Hands'
    <3>1. TypeOK'
      BY <1>1, <2>1, <2>2 DEF TypeOK
    <3>2. alive
      BY <1>1 DEF Down
    <3>3. worker' \in {"ended"} => hand' = StopMark
      BY <1>3
    <3> QED
      BY <1>1, <2>2, <3>1, <3>2, <3>3 DEF Down, Hands, Busy
  <2>4. Known'
    BY <1>1, <2>1 DEF Known
  <2>5. ASSUME NEW i \in 1..Len(queue'), NEW k \in 1..Len(queue'), i < k
        PROVE  /\ i + 1 \in 1..Len(queue) /\ queue'[i] = queue[i + 1]
               /\ k + 1 \in 1..Len(queue) /\ queue'[k] = queue[k + 1] /\ i + 1 < k + 1
    BY ONLY <2>1, <2>5
  <2>6. ASSUME NEW i \in 1..Len(queue')
        PROVE  /\ i + 1 \in 1..Len(queue) /\ queue'[i] = queue[i + 1]
               /\ 1 < i + 1 /\ hand' = queue[1]
    BY ONLY <2>1
  <2>7. Once'
    <3>1. ASSUME NEW i \in 1..Len(queue'), NEW k \in 1..Len(queue'), i < k,
                 queue'[k] # StopMark
          PROVE  queue'[i] # queue'[k]
      <4>1. /\ i + 1 \in 1..Len(queue) /\ queue'[i] = queue[i + 1]
            /\ k + 1 \in 1..Len(queue) /\ queue'[k] = queue[k + 1] /\ i + 1 < k + 1
        BY <2>5, <3>1
      <4>2. \A a, b \in 1..Len(queue) : a < b /\ queue[b] # StopMark => queue[a] # queue[b]
        BY DEF Once
      <4> QED
        BY ONLY <3>1, <4>1, <4>2
    <3>2. ASSUME NEW i \in 1..Len(queue'), queue'[i] # StopMark  PROVE hand' # queue'[i]
      BY ONLY <3>2, <2>1, <2>6, Once DEF Once
    <3> QED
      BY <3>1, <3>2 DEF Once
  <2>8. Order'
    <3>1. ASSUME NEW i \in 1..Len(queue'), NEW k \in 1..Len(queue'), i < k,
                 queue'[i] # StopMark, queue'[k] # StopMark
          PROVE  MayFollow(queue'[i], queue'[k])
      <4>1. /\ i + 1 \in 1..Len(queue) /\ queue'[i] = queue[i + 1]
            /\ k + 1 \in 1..Len(queue) /\ queue'[k] = queue[k + 1] /\ i + 1 < k + 1
        BY <2>5, <3>1
      <4>2. \A a, b \in 1..Len(queue) :
                a < b /\ queue[a] # StopMark /\ queue[b] # StopMark
                    => MayFollow(queue[a], queue[b])
        BY DEF Order
      <4> QED
        BY ONLY <3>1, <4>1, <4>2
    <3>2. ASSUME NEW i \in 1..Len(queue'), hand' # StopMark, queue'[i] # StopMark
          PROVE  MayFollow(hand', queue'[i])
      BY ONLY <3>2, <2>1, <2>6, Order DEF Order
    <3> QED
      BY <1>1, <3>1, <3>2 DEF Order, MayFollow
  <2>9. Fresh'
    <3> SUFFICES ASSUME NEW j \in Jobs, InTheMaking(j)
                 PROVE  /\ hand' # StopMark => MayFollow(hand', j)
                        /\ \A i \in 1..Len(queue') :
                             queue'[i] # StopMark => MayFollow(queue'[i], j)
      BY <1>1 DEF Fresh, MayFollow
    <3>1. \A i \in 1..Len(queue) : queue[i] # StopMark => MayFollow(queue[i], j)
      BY DEF Fresh
    <3> QED
      BY ONLY <2>1, <3>1
  <2>10. \A j \in Jobs : Ahead(j)' => Ahead(j)
    BY <1>1, <2>1, <2>2 DEF Ahead, Busy
  <2>11. Kept'
    BY <1>1, <2>1, <2>2 DEF Kept, Busy
  <2>12. Owed' /\ FinishedFirst' /\ FinishInOrder'
    BY <1>1, <2>10 DEF Owed, Ran, FinishedFirst, FinishInOrder
  <2>13. Gone'
    BY <1>1, <2>2 DEF Gone
  <2> QED
    BY <2>3, <2>4, <2>7, <2>8, <2>9, <2>11, <2>12, <2>13
<1> QED
  BY <1>2, <1>3

LEMMA WorkerReadKeepsIInv == IInv /\ WorkerRead => IInv'
<1> SUFFICES ASSUME IInv, WorkerRead PROVE IInv'
  OBVIOUS
<1> USE JobNumbers DEF IInv, WorkerRead, history
<1>1. TypeOK' /\ Down' /\ Hands'
  BY DEF TypeOK, Down, InTheMaking, Hands, Busy
<1>2. Known'
  BY DEF TypeOK, Known, Unfinished
<1>3. Once' /\ Order'
  BY DEF TypeOK, Once, Order, MayFollow
<1>4. Fresh'
  BY DEF TypeOK, Fresh, InTheMaking, MayFollow
<1>5. Kept'
  BY DEF TypeOK, Kept, Busy, Unfinished, Queued
<1>6. Owed'
  BY DEF TypeOK, Owed, Ahead, InTheMaking, Ran, Queued, Busy, Unfinished
<1>7. FinishedFirst' /\ FinishInOrder'
  BY DEF TypeOK, FinishedFirst, FinishInOrder, Finished, Ahead, InTheMaking, MayFollow,
         Queued, Busy, Unfinished
<1>8. Gone'
  BY PostprocessAssumption DEF TypeOK, Gone
<1> QED
  BY <1>1, <1>2, <1>3, <1>4, <1>5, <1>6, <1>7, <1>8

LEMMA WorkerStartKeepsIInv == IInv /\ WorkerStart => IInv'
<1> SUFFICES ASSUME IInv, WorkerStart PROVE IInv'
  OBVIOUS
<1> USE JobNumbers DEF IInv, WorkerStart, history
<1>1. TypeOK' /\ Down' /\ Hands'
  BY DEF TypeOK, Down, InTheMaking, Hands, Busy
<1>2. Known'
  BY DEF TypeOK, Known, Unfinished
<1>3. Once' /\ Order'
  BY DEF TypeOK, Once, Order, MayFollow
<1>4. Fresh'
  BY DEF TypeOK, Fresh, InTheMaking, MayFollow
<1>5. Kept'
  BY DEF TypeOK, Kept, Busy, Unfinished, Queued
<1>6. Owed'
  BY DEF TypeOK, Owed, Ahead, InTheMaking, Ran, Queued, Busy, Unfinished
<1>7. FinishedFirst' /\ FinishInOrder'
  BY DEF TypeOK, FinishedFirst, FinishInOrder, Finished, Ahead, InTheMaking, MayFollow,
         Queued, Busy, Unfinished
<1>8. Gone'
  BY PostprocessAssumption DEF TypeOK, Gone
<1> QED
  BY <1>1, <1>2, <1>3, <1>4, <1>5, <1>6, <1>7, <1>8

LEMMA WorkerRunKeepsIInv == IInv /\ WorkerRun => IInv'
<1> SUFFICES ASSUME IInv, WorkerRun PROVE IInv'
  OBVIOUS
<1> USE JobNumbers DEF IInv, WorkerRun
<1>1. TypeOK' /\ Down' /\ Hands'
  <2>1. hand \in Jobs /\ runs \in [Jobs -> Nat]
    BY DEF TypeOK, Hands, Busy
  <2>2. runs' \in [Jobs -> Nat]
    BY ONLY <2>1, WorkerRun DEF WorkerRun
  <2>3. TypeOK'
    BY <2>2 DEF TypeOK
  <2>4. Down' /\ Hands'
    BY DEF Down, Hands, Busy
  <2> QED
    BY <2>3, <2>4
<1>2. Known'
  <2>1. hand \in Jobs /\ making[hand] = "done" /\ runs \in [Jobs -> Nat]
    BY DEF TypeOK, Hands, Busy, Known
  <2>2. \A j \in Jobs : making[j] # "done" => runs'[j] = runs[j]
    BY ONLY <2>1, WorkerRun DEF WorkerRun
  <2> QED
    BY ONLY <2>2, Known, WorkerRun DEF Known, WorkerRun
<1>3. Once' /\ Order'
  BY DEF TypeOK, Once, Order, MayFollow
<1>4. Fresh'
  BY DEF TypeOK, Fresh, InTheMaking, MayFollow
<1>5. Kept'
  BY DEF TypeOK, Kept, Busy, Unfinished, Queued
<1>6. Owed'
  BY DEF TypeOK, Owed, Ahead, InTheMaking, Ran, Queued, Busy, Unfinished
<1>7. FinishedFirst' /\ FinishInOrder'
  BY DEF TypeOK, FinishedFirst, FinishInOrder, Finished, Ahead, InTheMaking, MayFollow,
         Queued, Busy, Unfinished
<1>8. Gone'
  BY PostprocessAssumption DEF TypeOK, Gone
<1> QED
  BY <1>1, <1>2, <1>3, <1>4, <1>5, <1>6, <1>7, <1>8

LEMMA WorkerFinishKeepsIInv == IInv /\ WorkerFinish => IInv'
<1> SUFFICES ASSUME IInv, WorkerFinish PROVE IInv'
  OBVIOUS
<1> USE JobNumbers, Elements DEF IInv
<1>1. /\ worker = "finish" /\ worker' = "top"
      /\ finished' = IF Finished(hand) THEN finished ELSE Append(finished, hand)
      /\ UNCHANGED <<alive, stopping, crashes, making, deleted, queue, hand,
                     runs, cut, overtaken, excused>>
      /\ \A i, k : MayFollow(i, k)' <=> MayFollow(i, k)
      /\ \A i : (InTheMaking(i)' <=> InTheMaking(i)) /\ (Queued(i)' <=> Queued(i))
  BY DEF WorkerFinish, MayFollow, InTheMaking, Queued, Finished
<1>2. hand \in Jobs /\ alive /\ making[hand] = "done" /\ ~InTheMaking(hand)
  BY <1>1 DEF TypeOK, Hands, Busy, Down, Known, InTheMaking
<1>3. /\ row'[hand] \notin Unfinished /\ row'[hand] # "none"
      /\ row' \in [Jobs -> {"none", "queued", "running", "succeeded", "failed"}]
      /\ \A j \in Jobs \ {hand} : row'[j] = row[j]
  <2>1. row \in [Jobs -> {"none", "queued", "running", "succeeded", "failed"}]
    BY DEF TypeOK
  <2>2. PICK outcome \in {"succeeded", "failed"} : row' = [row EXCEPT ![hand] = outcome]
    BY DEF WorkerFinish
  <2> QED
    BY ONLY <1>2, <2>1, <2>2 DEF Unfinished
<1>4. /\ finished' \in Seq(Jobs) /\ Len(finished') \in Nat
      /\ \A i \in 1..Len(finished') :
            (i \in 1..Len(finished) /\ finished'[i] = finished[i])
            \/ (i > Len(finished) /\ finished'[i] = hand /\ ~Finished(hand)
                /\ i = Len(finished'))
      /\ \A j : Finished(j)' <=> Finished(j) \/ j = hand
  <2>1. CASE Finished(hand)
    BY <1>1, <2>1 DEF TypeOK, Finished
  <2>2. CASE ~Finished(hand)
    <3>1. finished \in Seq(Jobs) /\ finished' = Append(finished, hand)
      BY <1>1, <2>2 DEF TypeOK
    <3>2. /\ finished' \in Seq(Jobs) /\ Len(finished') = Len(finished) + 1
          /\ finished'[Len(finished) + 1] = hand
          /\ \A i \in 1..Len(finished) : finished'[i] = finished[i]
      BY ONLY <1>2, <3>1
    <3>3. /\ Len(finished) \in Nat
          /\ \A i \in 1..Len(finished') : i \in 1..Len(finished) \/ i = Len(finished) + 1
      BY ONLY <3>1, <3>2
    <3>4. \A j : Finished(j)' <=> Finished(j) \/ j = hand
      BY ONLY <3>2, <3>3 DEF Finished
    <3> QED
      BY ONLY <2>2, <3>2, <3>3, <3>4
  <2> QED
    BY <2>1, <2>2
<1>5. ~Finished(hand) => \A i \in 1..Len(finished) : MayFollow(finished[i], hand)
  BY <1>1, <1>2 DEF FinishedFirst, Ahead, Busy
<1>6. ~Queued(hand)
  BY <1>2 DEF Queued, Once
<1>7. ASSUME NEW j \in Jobs, Ahead(j)'  PROVE j # hand /\ Ahead(j)
  <2>1. j # hand
    BY <1>1, <1>2, <1>3, <1>6, <1>7 DEF Ahead, Busy
  <2> QED
    BY <1>1, <1>3, <1>7, <2>1 DEF Ahead, Busy
<1>8. ASSUME NEW j \in Jobs, Ahead(j)'  PROVE MayFollow(hand, j)
  <2>1. Queued(j) \/ InTheMaking(j)
    BY <1>1, <1>2, <1>7, <1>8 DEF Kept, Ahead, InTheMaking
  <2>2. ASSUME Queued(j)  PROVE MayFollow(hand, j)
    BY <1>2, <2>2 DEF Queued, Order
  <2> QED
    BY <1>2, <2>1, <2>2 DEF Fresh
<1>9. TypeOK'
  BY <1>1, <1>3, <1>4 DEF TypeOK
<1>10. Down' /\ Hands'
  BY <1>1, <1>2 DEF Down, Hands, Busy
<1>11. Known'
  <2>1. \A i \in 1..Len(finished') : making[finished'[i]] = "done"
    BY <1>2, <1>4 DEF Known
  <2>2. \A j \in Jobs : making[j] \in {"none", "begun"} => row'[j] = "none"
    BY <1>2, <1>3 DEF Known
  <2> QED
    BY <1>1, <2>1, <2>2 DEF Known
<1>12. Once' /\ Order' /\ Fresh'
  BY <1>1 DEF Once, Order, Fresh
<1>13. Kept'
  BY <1>1, <1>3 DEF Kept
<1>14. Owed'
  BY <1>1, <1>7 DEF Owed, Ran
<1>15. FinishedFirst'
  <2> SUFFICES ASSUME NEW j \in Jobs, Ahead(j)', ~Finished(j)', NEW i \in 1..Len(finished')
               PROVE  MayFollow(finished'[i], j)
    BY <1>1 DEF FinishedFirst, MayFollow
  <2>1. Ahead(j) /\ ~Finished(j) /\ MayFollow(hand, j)
    BY <1>4, <1>7, <1>8
  <2> QED
    BY <1>4, <2>1 DEF FinishedFirst
<1>16. FinishInOrder'
  <2> SUFFICES ASSUME NEW i \in 1..Len(finished'), NEW k \in 1..Len(finished'), i < k
               PROVE  MayFollow(finished'[i], finished'[k])
    BY <1>1 DEF FinishInOrder, MayFollow
  <2>1. i \in 1..Len(finished) /\ finished'[i] = finished[i]
    BY <1>4
  <2>2. CASE k \in 1..Len(finished) /\ finished'[k] = finished[k]
    BY <2>1, <2>2 DEF FinishInOrder, MayFollow
  <2>3. CASE finished'[k] = hand /\ ~Finished(hand)
    BY <1>5, <2>1, <2>3
  <2> QED
    BY <1>4, <2>2, <2>3
<1>17. Gone'
  BY <1>1, <1>3 DEF Gone
<1> QED
  BY <1>9, <1>10, <1>11, <1>12, <1>13, <1>14, <1>15, <1>16, <1>17

LEMMA WorkerDiesKeepsIInv == IInv /\ WorkerDies => IInv'
<1> SUFFICES ASSUME IInv, WorkerDies PROVE IInv'
  OBVIOUS
<1> USE JobNumbers, Elements DEF IInv, WorkerDies
<1>1. hand \in Jobs
  BY DEF TypeOK, Hands, Busy
<1>2. TypeOK' /\ Down' /\ Hands'
  <2>1. cut' \in [Jobs -> Nat]
    <3>1. cut \in [Jobs -> Nat]
      BY DEF TypeOK
    <3> QED
      BY ONLY <1>1, <3>1, WorkerDies DEF WorkerDies
  <2> QED
    BY <2>1 DEF TypeOK, Down, InTheMaking, Hands, Busy
<1>3. Known' /\ Kept' /\ Gone'
  BY DEF Known, Kept, Gone
<1>4. Once' /\ Order' /\ Fresh'
  BY <1>1 DEF Once, Order, Fresh, InTheMaking, MayFollow
<1>5. \A j \in Jobs : Ahead(j)' => Ahead(j)
  BY DEF Ahead, InTheMaking, Queued, Busy
<1>6. Owed'
  <2>1. cut \in [Jobs -> Nat] /\ runs \in [Jobs -> Nat] /\ runs' = runs
    BY DEF TypeOK
  <2>2. \A j \in Jobs : IF Ran(j) THEN cut'[j] = cut[j] + 1 ELSE cut'[j] = cut[j]
    BY ONLY <1>1, <2>1, WorkerDies DEF WorkerDies, Ran
  <2> QED
    BY ONLY <1>5, <2>1, <2>2, Owed DEF Owed
<1>7. FinishedFirst' /\ FinishInOrder'
  BY <1>5 DEF FinishedFirst, FinishInOrder, Finished, MayFollow
<1> QED
  BY <1>2, <1>3, <1>4, <1>6, <1>7

LEMMA StopKeepsIInv == IInv /\ Stop => IInv'
<1> SUFFICES ASSUME IInv, Stop PROVE IInv'
  OBVIOUS
<1> USE JobNumbers, Elements DEF IInv
<1>1. /\ alive /\ stopping' = TRUE /\ queue' = Append(queue, StopMark)
      /\ UNCHANGED <<alive, crashes, making, row, deleted, worker, hand,
                     runs, cut, finished, overtaken, excused>>
      /\ \A i, k : MayFollow(i, k)' <=> MayFollow(i, k)
      /\ \A i : (InTheMaking(i)' <=> InTheMaking(i)) /\ (Finished(i)' <=> Finished(i))
      /\ \A i : Ran(i)' <=> Ran(i)
  BY DEF Stop, workerVars, history, MayFollow, InTheMaking, Finished, Ran
<1>2. /\ queue' \in Seq(Jobs \cup {StopMark})
      /\ Len(queue') = Len(queue) + 1 /\ queue'[Len(queue) + 1] = StopMark
      /\ \A i \in 1..Len(queue) : queue'[i] = queue[i]
      /\ \A j : Queued(j)' <=> Queued(j) \/ j = StopMark
  BY <1>1, Appended
<1>3. \A i \in 1..Len(queue') : queue'[i] # StopMark => i \in 1..Len(queue)
  BY <1>2
<1>4. \A j \in Jobs : Queued(j)' <=> Queued(j)
  BY <1>2
<1>5. TypeOK' /\ Down' /\ Hands'
  BY <1>1, <1>2 DEF TypeOK, Down, Hands, Busy
<1>6. Known'
  BY <1>1, <1>2, <1>3 DEF Known
<1>7. Once'
  <2>1. ASSUME NEW i \in 1..Len(queue'), NEW k \in 1..Len(queue'), i < k, queue'[k] # StopMark
        PROVE  queue'[i] # queue'[k]
    <3>1. i \in 1..Len(queue) /\ k \in 1..Len(queue)
      BY <1>2, <1>3, <2>1
    <3> QED
      BY <1>2, <2>1, <3>1 DEF Once
  <2> QED
    BY <1>1, <1>2, <1>3, <2>1 DEF Once
<1>8. Order' /\ Fresh'
  <2>1. \A i \in 1..Len(queue') : queue'[i] # StopMark =>
            i \in 1..Len(queue) /\ queue'[i] = queue[i]
    BY <1>2, <1>3
  <2> QED
    BY <1>1, <2>1 DEF Order, Fresh
<1>9. Kept'
  BY <1>1, <1>4 DEF Kept
<1>10. Owed' /\ FinishedFirst' /\ FinishInOrder'
  BY <1>1, <1>4 DEF Owed, Ahead, FinishedFirst, FinishInOrder
<1>11. Gone'
  BY <1>1 DEF Gone
<1> QED
  BY <1>5, <1>6, <1>7, <1>8, <1>9, <1>10, <1>11

LEMMA EndProcessKeepsIInv == IInv /\ EndProcess => IInv'
<1> SUFFICES ASSUME IInv, EndProcess PROVE IInv'
  OBVIOUS
<1> USE JobNumbers, Elements DEF IInv, EndProcess
<1>1. worker = "finish" => hand \in Jobs
  BY DEF TypeOK, Hands, Busy
<1>2. /\ queue' \in Seq(Jobs \cup {StopMark}) /\ Len(queue') = 0
      /\ making' \in [Jobs -> {"none", "begun", "persisted", "done"}]
      /\ \A j \in Jobs : /\ ~InTheMaking(j)'
                         /\ making'[j] = "none" <=> making[j] = "none"
                         /\ making'[j] \in {"none", "done"}
  BY DEF InTheMaking
<1>3. TypeOK' /\ Down' /\ Hands'
  <2>1. cut' \in [Jobs -> Nat]
    <3>1. cut \in [Jobs -> Nat]
      BY DEF TypeOK
    <3> QED
      BY ONLY <1>1, <3>1, EndProcess DEF EndProcess
  <2>2. crashes' \in 0..MaxCrashes
    BY PostprocessAssumption DEF TypeOK
  <2>3. TypeOK'
    BY <1>2, <2>1, <2>2 DEF TypeOK
  <2> QED
    BY <1>2, <2>3 DEF Down, Hands, Busy
<1>4. Known'
  BY <1>2 DEF Known
<1>5. Once' /\ Order' /\ Fresh' /\ Kept'
  BY <1>2 DEF Once, Order, Fresh, Kept
<1>6. Gone'
  BY <1>2 DEF Gone
<1>7. \A j \in Jobs : Ahead(j)' => row[j] \in Unfinished
  BY <1>2 DEF Ahead, Queued, Busy
<1>8. Owed'
  <2>1. cut \in [Jobs -> Nat] /\ runs \in [Jobs -> Nat] /\ runs' = runs
    BY DEF TypeOK
  <2>2. \A j \in Jobs : IF Ran(j) THEN cut'[j] = cut[j] + 1 ELSE cut'[j] = cut[j]
    BY ONLY <1>1, <2>1, EndProcess DEF EndProcess, Ran
  <2>3. \A j \in Jobs : Ahead(j)' => Ahead(j)
    BY ONLY <1>7 DEF Ahead
  <2> QED
    BY ONLY <2>1, <2>2, <2>3, Owed DEF Owed
<1>9. FinishedFirst' /\ FinishInOrder'
  BY <1>7 DEF FinishedFirst, FinishInOrder, Finished, Ahead, MayFollow
<1> QED
  BY <1>3, <1>4, <1>5, <1>6, <1>8, <1>9

LEMMA StartProcessKeepsIInv == IInv /\ StartProcess => IInv'
<1> SUFFICES ASSUME IInv, StartProcess PROVE IInv'
  OBVIOUS
<1> USE JobNumbers, Elements DEF IInv, StartProcess, history
<1>1. /\ hand = StopMark /\ Restored \subseteq Jobs
      /\ \A j \in Jobs : ~InTheMaking(j) /\ ~InTheMaking(j)'
      /\ \A j \in Restored : making[j] = "done"
  <2>1. hand = StopMark /\ Restored \subseteq Jobs /\ \A j \in Jobs : ~InTheMaking(j)
    BY DEF Down, Restored
  <2>2. \A j \in Jobs : InTheMaking(j)' <=> InTheMaking(j)
    BY DEF InTheMaking
  <2>3. \A j \in Jobs : making[j] \in {"none", "begun", "persisted", "done"}
    BY DEF TypeOK
  <2>4. \A j \in Restored : making[j] \notin {"none", "begun"}
    BY DEF Known, Restored, Unfinished
  <2> QED
    BY <2>1, <2>2, <2>3, <2>4 DEF InTheMaking
<1>2. Cardinality(Restored) \in Nat
  <2>1. IsFiniteSet(1..MaxJobs)
    BY JobNumbers, FS_Interval
  <2> QED
    BY <1>1, <2>1, FS_CardinalityType, FS_Subset
<1>3. queue' \in [1..Cardinality(Restored) -> Restored] /\ InOrder(queue', Restored)
  OBVIOUS
<1>4. queue' \in Seq(Jobs \cup {StopMark}) /\ Len(queue') = Cardinality(Restored)
  BY ONLY <1>1, <1>2, <1>3
<1>5. /\ \A i, k \in 1..Len(queue') : i < k =>
            QueuedAt[queue'[i]] <= QueuedAt[queue'[k]] /\ queue'[i] # queue'[k]
      /\ \A i \in 1..Len(queue') : queue'[i] \in Restored
      /\ \A j : Queued(j)' <=> j \in Restored
  BY <1>3, <1>4 DEF InOrder, Queued
<1>6. \A j \in Jobs : row'[j] = IF j \in Restored THEN "queued" ELSE row[j]
  BY <1>1
<1>7. TypeOK' /\ Down' /\ Hands'
  BY <1>1, <1>4, <1>6 DEF TypeOK, Down, Hands, Busy
<1>8. Known'
  BY <1>1, <1>5, <1>6 DEF Known, Restored, Unfinished
<1>9. Once' /\ Order' /\ Fresh'
  BY <1>1, <1>5 DEF Once, Order, Fresh, MayFollow
<1>10. Kept'
  BY <1>5, <1>6 DEF Kept, Restored
<1>11. \A j \in Jobs : Ahead(j)' => j \in Restored /\ Ahead(j) /\ ~Ran(j)
  BY <1>1, <1>5, <1>6 DEF Ahead, Busy, Restored, Ran
<1>12. Owed' /\ FinishedFirst' /\ FinishInOrder'
  BY <1>11 DEF Owed, FinishedFirst, FinishInOrder, Finished, MayFollow
<1>13. Gone'
  BY <1>1, <1>6 DEF Gone, Restored, Unfinished
<1> QED
  BY <1>7, <1>8, <1>9, <1>10, <1>12, <1>13

LEMMA InitIInv == Init => IInv
<1> SUFFICES ASSUME Init PROVE IInv
  OBVIOUS
<1> USE JobNumbers DEF Init
<1>1. TypeOK
  <2>1. queue \in Seq(Jobs \cup {StopMark}) /\ finished \in Seq(Jobs)
    OBVIOUS
  <2>2. /\ row \in [Jobs -> {"none", "queued", "running", "succeeded", "failed"}]
        /\ runs \in [Jobs -> Nat] /\ cut \in [Jobs -> Nat]
    OBVIOUS
  <2>3. crashes \in 0..MaxCrashes
    BY PostprocessAssumption
  <2>4. /\ hand \in Jobs \cup {StopMark} /\ excused \subseteq Doomed /\ overtaken \subseteq Jobs
        /\ making \in [Jobs -> {"none", "begun", "persisted", "done"}]
    OBVIOUS
  <2>5. alive \in BOOLEAN /\ stopping \in BOOLEAN /\ deleted \in BOOLEAN
    OBVIOUS
  <2> QED
    BY <2>1, <2>2, <2>3, <2>4, <2>5 DEF TypeOK
<1>2. Len(queue) = 0 /\ Len(finished) = 0
  OBVIOUS
<1>3. Down /\ Hands /\ Gone /\ Fresh
  BY DEF Down, Hands, Gone, Fresh, InTheMaking, Busy
<1>4. Known /\ Once /\ Order /\ FinishInOrder
  BY <1>2 DEF Known, Once, Order, FinishInOrder
<1>5. \A j \in Jobs : ~Ahead(j) /\ row[j] \notin Unfinished
  BY <1>2 DEF Ahead, InTheMaking, Queued, Busy, Unfinished
<1>6. Kept /\ Owed /\ FinishedFirst
  BY <1>5 DEF Kept, Owed, FinishedFirst
<1> QED
  BY <1>1, <1>3, <1>4, <1>6 DEF IInv

LEMMA StepIInv == IInv /\ [Next]_vars => IInv'
<1> SUFFICES ASSUME IInv, [Next]_vars PROVE IInv'
  OBVIOUS
<1>1. CASE UNCHANGED vars
  BY <1>1 DEF vars, workerVars, history, IInv, TypeOK, Down, InTheMaking, Hands, Known, Once,
              Order, MayFollow, Fresh, Kept, Owed, FinishedFirst, FinishInOrder, Gone, Ahead,
              Ran, Finished, Queued, Busy
<1>2. CASE \E j \in Jobs : BeginJob(j) \/ PersistJob(j) \/ PutJob(j)
  BY <1>2, BeginJobKeepsIInv, PersistJobKeepsIInv, PutJobKeepsIInv
<1>5. CASE DeleteMemorySet
  BY <1>5, DeleteMemorySetKeepsIInv
<1>3. CASE Worker \/ WorkerDies
  BY <1>3, WorkerTopKeepsIInv, WorkerGetKeepsIInv, WorkerReadKeepsIInv,
     WorkerStartKeepsIInv, WorkerRunKeepsIInv, WorkerFinishKeepsIInv,
     WorkerDiesKeepsIInv DEF Worker
<1>4. CASE Stop \/ EndProcess \/ StartProcess
  BY <1>4, StopKeepsIInv, EndProcessKeepsIInv, StartProcessKeepsIInv
<1> QED
  BY <1>1, <1>2, <1>3, <1>4, <1>5 DEF Next

LEMMA Invariance == Spec => []IInv
BY InitIInv, StepIInv, PTL DEF Spec

-----------------------------------------------------------------------------
(* The properties.                                                         *)

\* The state of the jobs, the queue and the worker keeps its types.
THEOREM TypeCorrect == Spec => []TypeOK
<1>1. IInv => TypeOK
  BY DEF IInv
<1> QED
  BY <1>1, Invariance, PTL

\* While the process runs, whatever the table says is to be done is known to
\* the queue, to the worker or to the thread about to put it: neither a
\* restart nor a deletion nor a failed write leaves a job to the table alone.
THEOREM NoJobIsLost == Spec => []JobsNotLost
<1>1. IInv => JobsNotLost
  BY DEF IInv, Kept, JobsNotLost
<1> QED
  BY <1>1, Invariance, PTL

\* Jobs first finish in the order of their queued_at, whatever number of threads
\* make them at once, and through any number of crashes and restarts; but one
\* that its thread had not yet put when a later one was put may come after that.
THEOREM JobsFinishInOrder == Spec => []FinishInOrder
<1>1. IInv => FinishInOrder
  BY DEF IInv
<1> QED
  BY <1>1, Invariance, PTL

\* The effects of a job are applied at most once more than it was cut off
\* between applying them and writing that down.
THEOREM EffectsAreOncePerCut == Spec => []EffectsOncePerCut
<1>1. IInv => EffectsOncePerCut
  BY DEF IInv, Owed, EffectsOncePerCut
<1> QED
  BY <1>1, Invariance, PTL

\* No step runs a job of a deleted memory set, unless the worker was past its
\* look at the row, or the job had not been persisted, at the deletion.
THEOREM DeletedJobsAreNotRun == Spec => DeletedNotRun
<1>1. IInv /\ [Next]_vars =>
        [\A j \in Doomed : deleted /\ j \notin excused => runs'[j] = runs[j]]_vars
  <2> SUFFICES ASSUME IInv, Next, NEW j \in Doomed, deleted, j \notin excused
               PROVE  runs'[j] = runs[j]
    OBVIOUS
  <2>1. runs \in [Jobs -> Nat] /\ j \in Jobs
    BY PostprocessAssumption DEF IInv, TypeOK, Jobs
  <2>2. CASE WorkerRun
    <3>1. hand # j
      BY <2>2 DEF IInv, Gone, WorkerRun
    <3> QED
      BY <2>1, <2>2, <3>1 DEF WorkerRun
  <2>3. CASE ~WorkerRun
    BY <2>3 DEF Next, Worker, BeginJob, PersistJob, PutJob, DeleteMemorySet, WorkerTop,
                WorkerGet, WorkerRead, WorkerStart, WorkerFinish, WorkerDies, Stop,
                EndProcess, StartProcess, history
  <2> QED
    BY <2>2, <2>3
<1> QED
  BY <1>1, Invariance, PTL DEF Spec, DeletedNotRun

-----------------------------------------------------------------------------
(* The daily worker.                                                       *)

Observed ==
    observing # NoDay => records[observing] < MaxRecords /\ observing <= today

OnlyPastDigested == \A d \in Digested : d < today

\* The two loops of a round go over past days, the second over digested ones.
Rounds ==
    /\ \A d \in todo : d < today
    /\ phase = "promotions" => todo \subseteq Digested

\* The digest in hand has not been settled, by either loop.
InHand ==
    step \in {"promoting", "storing"} => day \in Days /\ digest[day] = "not_started"

\* What may still be promoted has been promoted only when it was cut off.
Unsettled(d) == digest[d] \in {"none", "not_started"} /\ ~(step = "storing" /\ day = d)

PromotionsOwed == \A d \in Days : Unsettled(d) => promoted[d] <= cutOff[d]

DailyInv ==
    /\ DailyTypeOK /\ Observed /\ OnlyPastDigested /\ Rounds /\ InHand /\ PromotionsOwed
    /\ PromotedOncePerCut /\ MissesOnlyLate

-----------------------------------------------------------------------------
LEMMA DailyBounds ==
    /\ MaxDay \in Nat \ {0} /\ MaxRecords \in Nat /\ MaxFaults \in Nat
    /\ Days \subseteq Nat /\ NoDay \notin Days
BY VisualAssumption DEF Days, NoDay

\* The loops take the earliest of the days they still have.
LEMMA MinIsMember ==
    ASSUME NEW S \in SUBSET Days, S # {}
    PROVE  Min(S) \in S
<1> DEFINE R == {ss \in Nat \X Nat : ss[1] < ss[2]}
<1>1. IsWellFoundedOn(R, Nat)
  BY NatLessThanWellFounded DEF OpToRel
<1>2. R = {ss \in Nat \X Nat : ss[1] < ss[2]}
  OBVIOUS
<1> HIDE DEF R
<1>3. PICK x \in S : \A y \in S : <<y, x>> \notin R
  BY <1>1, DailyBounds, WFMin
<1>4. ASSUME NEW y \in S  PROVE x <= y
  <2>1. x \in Nat /\ y \in Nat /\ <<y, x>> \in Nat \X Nat
    BY DailyBounds
  <2>2. ~(y < x)
    BY <1>3, <1>2, <2>1
  <2> QED
    BY <2>1, <2>2
<1> QED
  BY <1>4 DEF Min

LEMMA InitDailyInv == DailyInit => DailyInv
<1> SUFFICES ASSUME DailyInit  PROVE DailyInv
  OBVIOUS
<1>1. DailyTypeOK
  BY DailyBounds DEF DailyInit, DailyTypeOK, Days, NoDay, Statuses
<1>2. Observed /\ OnlyPastDigested /\ Rounds /\ InHand /\ PromotionsOwed /\ PromotedOncePerCut
      /\ MissesOnlyLate
  BY DEF DailyInit, Observed, OnlyPastDigested, Digested, Rounds, InHand, PromotionsOwed,
         PromotedOncePerCut, MissesOnlyLate
<1> QED
  BY <1>1, <1>2 DEF DailyInv

\* A day that a loop takes up, in either of the two.
LEMMA TakenUp ==
    ASSUME DailyInv, todo # {}
    PROVE  Min(todo) \in todo /\ Min(todo) \in Days /\ Min(todo) < today
BY MinIsMember DEF DailyInv, DailyTypeOK, Rounds

-----------------------------------------------------------------------------
(* The steps.                                                              *)

LEMMA ClockSteps ==
    DailyInv /\ (Midnight \/ BeginObservation \/ EndObservation) => DailyInv'
<1> USE DailyBounds
<1>1. ASSUME DailyInv, Midnight  PROVE DailyInv'
  <2>1. today' \in Days
    <3>1. today \in Days /\ today < MaxDay /\ today' = today + 1
      BY <1>1 DEF DailyInv, DailyTypeOK, Midnight
    <3> QED
      BY <1>1, <3>1 DEF DailyInv, Days
  <2>2. DailyTypeOK'
    BY <1>1, <2>1 DEF DailyInv, DailyTypeOK, Midnight, observationVars, roundVars
  <2>3. /\ today \in Nat /\ today' = today + 1 /\ Days \subseteq Nat
        /\ UNCHANGED <<observing, records, digest, todo, phase>> /\ todo \subseteq Days
    BY <1>1 DEF DailyInv, DailyTypeOK, Midnight, observationVars, roundVars
  <2>4. ASSUME NEW d \in Days  PROVE (d <= today => d <= today') /\ (d < today => d < today')
    <3>1. d \in Nat
      BY <1>1 DEF DailyInv
    <3> QED
      BY <2>3, <3>1
  <2>5. Observed'
    BY <1>1, <2>3, <2>4 DEF DailyInv, DailyTypeOK, Observed
  <2>6. OnlyPastDigested' /\ Rounds'
    BY <1>1, <2>3, <2>4 DEF DailyInv, OnlyPastDigested, Rounds, Digested
  <2>7. InHand' /\ PromotionsOwed' /\ PromotedOncePerCut' /\ MissesOnlyLate'
    BY <1>1 DEF DailyInv, InHand, PromotionsOwed, Unsettled, PromotedOncePerCut,
                MissesOnlyLate, Midnight, observationVars, roundVars
  <2> QED
    BY <1>1, <2>2, <2>5, <2>6, <2>7 DEF DailyInv
<1>2. ASSUME DailyInv, BeginObservation  PROVE DailyInv'
  <2>1. DailyTypeOK' /\ Observed'
    BY <1>2 DEF DailyInv, DailyTypeOK, Observed, BeginObservation, roundVars
  <2>2. OnlyPastDigested' /\ Rounds' /\ InHand' /\ PromotionsOwed' /\ PromotedOncePerCut'
        /\ MissesOnlyLate'
    BY <1>2 DEF DailyInv, OnlyPastDigested, Rounds, Digested, InHand, PromotionsOwed,
                Unsettled, PromotedOncePerCut, MissesOnlyLate, BeginObservation,
                roundVars
  <2> QED
    BY <1>2, <2>1, <2>2 DEF DailyInv
<1>3. ASSUME DailyInv, EndObservation  PROVE DailyInv'
  <2>1. observing \in Days /\ observing <= today /\ today \in Nat /\ observing \in Nat
        /\ records[observing] < MaxRecords /\ observing' = NoDay
        /\ (observing = today => digest[observing] = "none")
    BY <1>3 DEF DailyInv, DailyTypeOK, Observed, OnlyPastDigested, Digested, EndObservation
  <2>2. records' \in [Days -> 0..MaxRecords] /\ late' \subseteq Days
    <3>1. records \in [Days -> 0..MaxRecords] /\ late \subseteq Days
      BY <1>3 DEF DailyInv, DailyTypeOK
    <3>2. records[observing] + 1 \in 0..MaxRecords
      BY <1>3, <2>1, <3>1 DEF DailyInv
    <3> QED
      BY <1>3, <2>1, <3>1, <3>2 DEF EndObservation
  <2>3. DailyTypeOK'
    BY <1>3, <2>1, <2>2 DEF DailyInv, DailyTypeOK, EndObservation, roundVars
  <2>4. /\ Observed' /\ OnlyPastDigested' /\ Rounds' /\ InHand' /\ PromotionsOwed'
        /\ PromotedOncePerCut'
    BY <1>3, <2>1 DEF DailyInv, Observed, OnlyPastDigested, Rounds, Digested, InHand,
                      PromotionsOwed, Unsettled, PromotedOncePerCut, EndObservation,
                      roundVars
  <2>5. MissesOnlyLate'
    BY <1>3, <2>1 DEF DailyInv, DailyTypeOK, MissesOnlyLate, EndObservation
  <2> QED
    BY <1>3, <2>3, <2>4, <2>5 DEF DailyInv
<1> QED
  BY <1>1, <1>2, <1>3

\* The steps that only move the worker on.
LEMMA LoopSteps ==
    DailyInv /\ (BeginRound \/ BeginPromotions \/ NextPromotion \/ EndRound)
      => DailyInv'
<1>1. ASSUME DailyInv, UNCHANGED <<today, observationVars, digest, covered, promoted, cutOff,
                                   faults>>,
             step' \in {"asleep", "looping", "promoting"}, step # "storing",
             phase' \in {"digests", "promotions"}, day' \in Days \cup {NoDay},
             todo' \subseteq Days,
             Rounds', InHand'
      PROVE  DailyInv'
  <2>1. DailyTypeOK'
    BY <1>1 DEF DailyInv, DailyTypeOK, observationVars
  <2>2. /\ Observed' /\ OnlyPastDigested' /\ PromotionsOwed'
        /\ PromotedOncePerCut' /\ MissesOnlyLate'
    BY <1>1 DEF DailyInv, Observed, OnlyPastDigested, Digested, PromotionsOwed, Unsettled,
                PromotedOncePerCut, MissesOnlyLate, observationVars
  <2> QED
    BY <1>1, <2>1, <2>2 DEF DailyInv
<1>2. ASSUME DailyInv, BeginRound  PROVE DailyInv'
  <2>1. Rounds' /\ InHand' /\ todo' \subseteq Days
    BY <1>2 DEF BeginRound, Rounds, InHand, DueDays, Oldest
  <2> QED
    BY <1>1, <1>2, <2>1 DEF BeginRound, DailyInv, DailyTypeOK
<1>3. ASSUME DailyInv, BeginPromotions  PROVE DailyInv'
  <2>1. todo' \subseteq Digested /\ Digested \subseteq Days /\ Digested' = Digested
    BY <1>3 DEF BeginPromotions, Newest, Digested
  <2>2. Rounds' /\ InHand'
    BY <1>3, <2>1 DEF BeginPromotions, Rounds, InHand, DailyInv, OnlyPastDigested
  <2> QED
    BY <1>1, <1>3, <2>1, <2>2 DEF BeginPromotions, DailyInv, DailyTypeOK
<1>4. ASSUME DailyInv, NextPromotion  PROVE DailyInv'
  <2> DEFINE d == Min(todo)
  <2>1. d \in todo /\ d \in Days
    BY <1>4, TakenUp DEF NextPromotion
  <2> HIDE DEF d
  <2>2. /\ todo' = todo \ {d} /\ UNCHANGED <<today, digest, phase>>
        /\ \/ step' = step /\ day' = day
           \/ step' = "promoting" /\ day' = d /\ digest[d] \notin Settled
        /\ step = "looping" /\ phase = "promotions"
    BY <1>4 DEF NextPromotion, d
  <2>3. Rounds'
    BY <1>4, <2>2 DEF DailyInv, Rounds, Digested
  <2>4. digest[d] \in Statuses \ {"none"}
    BY <1>4, <2>1, <2>2 DEF DailyInv, DailyTypeOK, Rounds, Digested
  <2>5. InHand'
    BY <2>1, <2>2, <2>4 DEF InHand, Settled, Statuses
  <2> QED
    BY <1>1, <1>4, <2>1, <2>2, <2>3, <2>5 DEF NextPromotion, DailyInv, DailyTypeOK
<1>5. ASSUME DailyInv, EndRound  PROVE DailyInv'
  <2>1. Rounds' /\ InHand'
    BY <1>5 DEF EndRound, Rounds, InHand
  <2> QED
    BY <1>1, <1>5, <2>1 DEF EndRound, DailyInv, DailyTypeOK
<1> QED
  BY <1>2, <1>3, <1>4, <1>5

LEMMA DigestStep == DailyInv /\ Digest => DailyInv'
<1> SUFFICES ASSUME DailyInv, Digest  PROVE DailyInv'
  OBVIOUS
<1> DEFINE d == Min(todo)
<1>1. d \in todo /\ d \in Days /\ d < today
  BY TakenUp DEF Digest
<1> HIDE DEF d
<1>2. /\ step = "looping" /\ phase = "digests" /\ todo' = todo \ {d}
      /\ UNCHANGED <<today, observationVars, phase, promoted, cutOff, faults>>
  BY DEF Digest, d
<1>3. \/ UNCHANGED <<digest, covered, step, day>>
      \/ /\ digest[d] = "none"
         /\ digest' = [digest EXCEPT ![d] = "not_started"]
         /\ covered' = [covered EXCEPT ![d] = records[d]]
         /\ step' = "promoting" /\ day' = d
  BY DEF Digest, d
<1>4. DailyTypeOK'
  BY <1>1, <1>2, <1>3 DEF DailyInv, DailyTypeOK, Statuses, observationVars
<1>5. Observed' /\ OnlyPastDigested' /\ Rounds'
  BY <1>1, <1>2, <1>3 DEF DailyInv, DailyTypeOK, Observed, OnlyPastDigested, Rounds, Digested,
                          observationVars
<1>6. InHand' /\ PromotedOncePerCut'
  BY <1>1, <1>2, <1>3 DEF DailyInv, DailyTypeOK, InHand, PromotedOncePerCut
<1>7. PromotionsOwed'
  BY <1>1, <1>2, <1>3 DEF DailyInv, DailyTypeOK, PromotionsOwed, Unsettled
<1>8. MissesOnlyLate'
  BY <1>1, <1>2, <1>3, DailyBounds DEF DailyInv, DailyTypeOK, MissesOnlyLate, observationVars
<1> QED
  BY <1>4, <1>5, <1>6, <1>7, <1>8 DEF DailyInv

\* Persisting a promotion, or setting the digest in hand aside.
LEMMA SettleStep == DailyInv /\ (Promote \/ StoreResult) => DailyInv'
<1>1. ASSUME DailyInv, NEW outcome \in Settled,
             step \in {"promoting", "storing"}, step' = "looping",
             digest' = [digest EXCEPT ![day] = outcome],
             UNCHANGED <<today, observationVars, covered, phase, todo, day, promoted, cutOff,
                         faults>>
      PROVE  DailyInv'
  <2>1. day \in Days /\ digest[day] = "not_started"
    BY <1>1 DEF DailyInv, InHand
  <2>2. DailyTypeOK'
    BY <1>1, <2>1 DEF DailyInv, DailyTypeOK, Settled, Statuses, observationVars
  <2>3. \A d \in Days : digest'[d] = IF d = day THEN outcome ELSE digest[d]
    BY <1>1 DEF DailyInv, DailyTypeOK
  <2>4. Digested' = Digested
    BY <1>1, <2>1, <2>3 DEF Digested, Settled
  <2>5. Observed' /\ OnlyPastDigested' /\ Rounds' /\ InHand' /\ PromotedOncePerCut'
    BY <1>1, <2>4 DEF DailyInv, Observed, OnlyPastDigested, Rounds, InHand,
                      PromotedOncePerCut, observationVars
  <2>6. PromotionsOwed'
    BY <1>1, <2>1, <2>3 DEF DailyInv, PromotionsOwed, Unsettled, Settled
  <2>7. MissesOnlyLate'
    BY <1>1, <2>1, <2>3 DEF DailyInv, MissesOnlyLate, observationVars
  <2> QED
    BY <1>1, <2>2, <2>5, <2>6, <2>7 DEF DailyInv
<1>2. ASSUME DailyInv, step = "promoting", step' = "storing",
             promoted' = [promoted EXCEPT ![day] = @ + 1],
             UNCHANGED <<today, observationVars, digest, covered, phase, todo, day, cutOff,
                         faults>>
      PROVE  DailyInv'
  <2>1. day \in Days /\ digest[day] = "not_started" /\ promoted[day] <= cutOff[day]
    BY <1>2 DEF DailyInv, InHand, PromotionsOwed, Unsettled
  <2>2. DailyTypeOK'
    BY <1>2, <2>1 DEF DailyInv, DailyTypeOK, observationVars
  <2>3. \A d \in Days : promoted'[d] = IF d = day THEN promoted[d] + 1 ELSE promoted[d]
    BY <1>2 DEF DailyInv, DailyTypeOK
  <2>4. Observed' /\ OnlyPastDigested' /\ Rounds' /\ InHand' /\ MissesOnlyLate'
    BY <1>2 DEF DailyInv, Observed, OnlyPastDigested, Rounds, Digested, InHand,
                MissesOnlyLate, observationVars
  <2>5. \A d \in Days : promoted[d] \in Nat /\ cutOff[d] \in Nat
    BY <1>2 DEF DailyInv, DailyTypeOK
  <2>6. PromotedOncePerCut' /\ PromotionsOwed'
    BY <1>2, <2>1, <2>3, <2>5 DEF DailyInv, PromotedOncePerCut, PromotionsOwed, Unsettled
  <2> QED
    BY <1>2, <2>2, <2>4, <2>6 DEF DailyInv
<1>3. ASSUME DailyInv, Promote  PROVE DailyInv'
  <2>1. CASE \E outcome \in {"skipped", "failed"} :
               digest' = [digest EXCEPT ![day] = outcome] /\ step' = "looping"
               /\ UNCHANGED promoted
    BY <1>1, <1>3, <2>1 DEF Promote, Settled
  <2>2. CASE promoted' = [promoted EXCEPT ![day] = @ + 1] /\ step' = "storing" /\ UNCHANGED digest
    BY <1>2, <1>3, <2>2 DEF Promote
  <2> QED
    BY <1>3, <2>1, <2>2 DEF Promote
<1>4. ASSUME DailyInv, StoreResult  PROVE DailyInv'
  BY <1>1, <1>4 DEF StoreResult, Settled
<1> QED
  BY <1>3, <1>4

\* What was persisted and not written down is owed once more, and counted.
LEMMA FaultStep == DailyInv /\ Fault => DailyInv'
<1> SUFFICES ASSUME DailyInv, Fault  PROVE DailyInv'
  OBVIOUS
<1>1. \A d \in Days : promoted[d] \in Nat /\ cutOff[d] \in Nat
  BY DEF DailyInv, DailyTypeOK
<1>2. /\ step = "storing" => day \in Days
      /\ step' = "asleep" /\ todo' = {}
      /\ UNCHANGED <<today, records, late, digest, covered, phase, day, promoted>>
      /\ observing' \in {observing, NoDay}
  BY DEF DailyInv, InHand, Fault
<1>3. DailyTypeOK'
  BY <1>2, DailyBounds DEF DailyInv, DailyTypeOK, Fault
<1>4. \A d \in Days :
         cutOff'[d] = IF step = "storing" /\ day = d THEN cutOff[d] + 1 ELSE cutOff[d]
  BY DEF DailyInv, DailyTypeOK, Fault
<1>5. Observed' /\ OnlyPastDigested' /\ Rounds' /\ InHand' /\ MissesOnlyLate'
  BY <1>2 DEF DailyInv, Observed, OnlyPastDigested, Rounds, Digested, InHand, MissesOnlyLate
<1>6. PromotedOncePerCut'
  BY <1>1, <1>2, <1>4 DEF DailyInv, PromotedOncePerCut
<1>7. PromotionsOwed'
  BY <1>1, <1>2, <1>4 DEF DailyInv, PromotedOncePerCut, PromotionsOwed, Unsettled
<1> QED
  BY <1>3, <1>5, <1>6, <1>7 DEF DailyInv

LEMMA DailyInvariance == DailySpec => []DailyInv
<1>1. DailyInv /\ [DailyNext]_dailyVars => DailyInv'
  <2>1. DailyInv /\ UNCHANGED dailyVars => DailyInv'
    BY DEF dailyVars, observationVars, roundVars, DailyInv, DailyTypeOK, Observed, OnlyPastDigested,
           Rounds, Digested, InHand, PromotionsOwed, Unsettled, PromotedOncePerCut,
           MissesOnlyLate
  <2> QED
    BY <2>1, ClockSteps, LoopSteps, DigestStep, SettleStep, FaultStep DEF DailyNext, DailyWorker
<1> QED
  BY InitDailyInv, <1>1, PTL DEF DailySpec

\* The records, the digests and the worker keep their types, in particular
\* what a round still has to do is a set of days.
THEOREM DailyTypeCorrect == DailySpec => []DailyTypeOK
<1>1. DailyInv => DailyTypeOK
  BY DEF DailyInv
<1> QED
  BY <1>1, DailyInvariance, PTL

\* A digest's candidates become memory once, and once more for each time that
\* the worker was cut off between persisting them and writing that down.
THEOREM PromotionsAreOncePerCut == DailySpec => []PromotedOncePerCut
<1>1. DailyInv => PromotedOncePerCut
  BY DEF DailyInv
<1> QED
  BY <1>1, DailyInvariance, PTL

\* A digest covers all records of its day but those a cycle wrote after
\* midnight, when the day was digested already.
THEOREM DigestsMissOnlyLate == DailySpec => []MissesOnlyLate
<1>1. DailyInv => MissesOnlyLate
  BY DEF DailyInv
<1> QED
  BY <1>1, DailyInvariance, PTL
=============================================================================
