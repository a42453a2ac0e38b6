------------------------- MODULE MemoryPostprocess -------------------------
(***************************************************************************)
(* The memory postprocess worker (service/memory.py): the jobs that turns  *)
(* leave behind, persisted before they are queued, one worker thread that  *)
(* runs them, and their recovery when the process starts again.            *)
(*                                                                         *)
(* Jobs are made by any number of threads at once.  A judgement cycle      *)
(* leaves one for its turn, and the end of an autonomous run another       *)
(* (_consolidate_autonomous_run_terminal), which the cancel API reaches on *)
(* an HTTP thread, outside the coordinator.  Each takes the time that      *)
(* becomes its queued_at before an LLM consolidates the turn, and persists *)
(* and puts its job after that.  What run_postprocess_job does to the      *)
(* memory is one step; the trace updates are left out.                     *)
(***************************************************************************)
EXTENDS Naturals, Sequences, FiniteSets

CONSTANTS
    MaxJobs,    \* bound on jobs
    MaxCrashes, \* bound on ends of the process
    QueuedAt,   \* job -> queued_at; the runs that one conversation cancels
                \*   share one time
    Doomed      \* the jobs of a memory set that is deleted

ASSUME PostprocessAssumption ==
    /\ MaxJobs \in Nat /\ MaxCrashes \in Nat
    /\ QueuedAt \in [1..MaxJobs -> Nat] /\ Doomed \subseteq 1..MaxJobs

Jobs == 1..MaxJobs
StopMark == 0       \* the None that stop puts into the queue, and no job

VARIABLES
    alive,      \* the process runs
    stopping,   \* stop_background_memory_postprocess_worker was called
    crashes,    \* how often the process ended
    making,     \* job -> how far its thread has come with it
    row,        \* job -> result_status of its row, "none" without a row
    deleted,    \* the rows of the doomed memory set were deleted
    queue,      \* _memory_postprocess_queue
    worker,     \* where the worker thread is
    hand,       \* the job it runs
    runs,       \* history: job -> how often its effects were applied
    cut,        \* history: job -> how often that was not written down
    finished,   \* history: jobs in the order in which they first finished
    overtaken,  \* history: jobs that were still being made when one with a
                \*   later queued_at was put
    excused     \* history: doomed jobs that were past the worker's look at
                \*   their row, or not yet persisted, at the deletion

workerVars == <<worker, hand>>
history == <<runs, cut, finished, overtaken, excused>>
vars == <<alive, stopping, crashes, making, row, deleted, queue, workerVars, history>>

TypeOK ==
    /\ alive \in BOOLEAN /\ stopping \in BOOLEAN /\ crashes \in 0..MaxCrashes
    /\ making \in [Jobs -> {"none", "begun", "persisted", "done"}]
    /\ row \in [Jobs -> {"none", "queued", "running", "succeeded", "failed"}]
    /\ deleted \in BOOLEAN
    /\ queue \in Seq(Jobs \cup {StopMark})
    /\ worker \in {"top", "get", "read", "start", "run", "finish", "ended", "dead"}
    /\ hand \in Jobs \cup {StopMark}
    /\ runs \in [Jobs -> Nat] /\ cut \in [Jobs -> Nat]
    /\ finished \in Seq(Jobs) /\ overtaken \subseteq Jobs /\ excused \subseteq Doomed

Init ==
    /\ alive = TRUE /\ stopping = FALSE /\ crashes = 0
    /\ making = [j \in Jobs |-> "none"]
    /\ row = [j \in Jobs |-> "none"] /\ deleted = FALSE
    /\ queue = <<>>
    /\ worker = "top" /\ hand = StopMark
    /\ runs = [j \in Jobs |-> 0] /\ cut = [j \in Jobs |-> 0]
    /\ finished = <<>> /\ overtaken = {} /\ excused = {}

Unfinished == {"queued", "running"}

-----------------------------------------------------------------------------
(* The threads that make jobs: _finalize_memory_trace and                  *)
(* _queue_memory_postprocess_job.                                          *)

\* The time is taken; the clock does not go back.
BeginJob(j) ==
    /\ alive /\ making[j] = "none"
    /\ \A i \in Jobs : making[i] # "none" => QueuedAt[i] <= QueuedAt[j]
    /\ making' = [making EXCEPT ![j] = "begun"]
    /\ UNCHANGED <<alive, stopping, crashes, row, deleted, queue, workerVars, history>>

\* The turn may leave no job: the consolidation fails, or the store refuses the
\* row and the trace gets a failed postprocess.
PersistJob(j) ==
    /\ making[j] = "begun"
    /\ \/ row' = [row EXCEPT ![j] = "queued"] /\ making' = [making EXCEPT ![j] = "persisted"]
       \/ making' = [making EXCEPT ![j] = "done"] /\ UNCHANGED row
    /\ UNCHANGED <<alive, stopping, crashes, deleted, queue, workerVars, history>>

PutJob(j) ==
    /\ making[j] = "persisted"
    /\ queue' = Append(queue, j)
    /\ making' = [making EXCEPT ![j] = "done"]
    /\ overtaken' = overtaken \cup {i \in Jobs : /\ making[i] \in {"begun", "persisted"}
                                               /\ QueuedAt[i] < QueuedAt[j]}
    /\ UNCHANGED <<alive, stopping, crashes, row, deleted, workerVars, runs, cut,
                   finished, excused>>

\* delete_memory_set_records; a thread or the worker may be at one of its jobs.
DeleteMemorySet ==
    /\ alive /\ ~deleted
    /\ deleted' = TRUE
    /\ row' = [j \in Jobs |-> IF j \in Doomed THEN "none" ELSE row[j]]
    /\ excused' = {j \in Doomed : \/ making[j] \in {"none", "begun"}
                                  \/ j = hand /\ worker \in {"start", "run", "finish"}}
    /\ UNCHANGED <<alive, stopping, crashes, making, queue, workerVars, runs, cut,
                   finished, overtaken>>

-----------------------------------------------------------------------------
(* The worker: _background_memory_postprocess_loop, _run_memory_postprocess_job. *)

WorkerTop ==
    /\ worker = "top"
    /\ worker' = IF stopping /\ queue = <<>> THEN "ended" ELSE "get"
    /\ hand' = StopMark
    /\ UNCHANGED <<alive, stopping, crashes, making, row, deleted, queue, history>>

\* get(timeout=0.5): with nothing in the queue the loop begins again.
WorkerGet ==
    /\ worker = "get"
    /\ IF queue = <<>>
         THEN worker' = "top" /\ UNCHANGED <<hand, queue>>
         ELSE /\ hand' = Head(queue)
              /\ queue' = Tail(queue)
              /\ worker' = IF hand' # StopMark THEN "read"
                           ELSE IF stopping THEN "ended" ELSE "top"
    /\ UNCHANGED <<alive, stopping, crashes, making, row, deleted, history>>

\* A faulty WorkerRead: the job that was queued is taken for the row.
ReadFromQueue ==
    /\ worker = "read"
    /\ worker' = "start"
    /\ UNCHANGED <<alive, stopping, crashes, making, row, deleted, queue, hand, history>>

\* A job whose row was deleted is not run.
WorkerRead ==
    /\ worker = "read"
    /\ worker' = IF row[hand] = "none" THEN "top" ELSE "start"
    /\ UNCHANGED <<alive, stopping, crashes, making, row, deleted, queue, hand, history>>

\* INSERT OR REPLACE: a row deleted meanwhile is there again.
WorkerStart ==
    /\ worker = "start"
    /\ row' = [row EXCEPT ![hand] = "running"]
    /\ worker' = "run"
    /\ UNCHANGED <<alive, stopping, crashes, making, deleted, queue, hand, history>>

WorkerRun ==
    /\ worker = "run"
    /\ runs' = [runs EXCEPT ![hand] = @ + 1]
    /\ worker' = "finish"
    /\ UNCHANGED <<alive, stopping, crashes, making, row, deleted, queue, hand,
                   cut, finished, overtaken, excused>>

WorkerFinish ==
    /\ worker = "finish"
    /\ \E outcome \in {"succeeded", "failed"} : row' = [row EXCEPT ![hand] = outcome]
    /\ finished' = IF \E i \in 1..Len(finished) : finished[i] = hand
                     THEN finished ELSE Append(finished, hand)
    /\ worker' = "top"
    /\ UNCHANGED <<alive, stopping, crashes, making, deleted, queue, hand,
                   runs, cut, overtaken, excused>>

\* A store that refuses outside the try block, or in its handler, ends the
\* thread: nothing catches the exception in the loop, nothing starts another.
WorkerDies ==
    /\ worker \in {"read", "start", "finish"}
    /\ worker' = "dead"
    /\ cut' = IF worker = "finish" THEN [cut EXCEPT ![hand] = @ + 1] ELSE cut
    /\ hand' = StopMark
    /\ UNCHANGED <<alive, stopping, crashes, making, row, deleted, queue,
                   runs, finished, overtaken, excused>>

Worker == WorkerTop \/ WorkerGet \/ WorkerRead \/ WorkerStart \/ WorkerRun \/ WorkerFinish

-----------------------------------------------------------------------------
(* The process. *)

Stop ==
    /\ alive /\ ~stopping /\ crashes < MaxCrashes
    /\ stopping' = TRUE
    /\ queue' = Append(queue, StopMark)
    /\ UNCHANGED <<alive, crashes, making, row, deleted, workerVars, history>>

\* A crash, or the end of main: the join of the worker gives up after 5 s.
EndProcess ==
    /\ alive /\ crashes < MaxCrashes
    /\ crashes' = crashes + 1
    /\ alive' = FALSE /\ stopping' = FALSE
    /\ queue' = <<>>
    /\ making' = [j \in Jobs |-> IF making[j] = "none" THEN "none" ELSE "done"]
    /\ worker' = "ended" /\ hand' = StopMark
    /\ cut' = IF worker = "finish" THEN [cut EXCEPT ![hand] = @ + 1] ELSE cut
    /\ UNCHANGED <<row, deleted, runs, finished, overtaken, excused>>

\* A faulty Restored: jobs that were running are taken for done.
RestoredQueued == {j \in Jobs : row[j] = "queued"}

\* A faulty Restored: every row that is there.
RestoredAll == {j \in Jobs : row[j] # "none"}

Restored == {j \in Jobs : row[j] \in Unfinished}

\* A faulty InOrder: as the table gives them.
InAnyOrder(q, S) == S = {q[i] : i \in 1..Len(q)}

\* ORDER BY queued_at, rowid: every upsert of a row gives it a new rowid, so
\* jobs of one time may come in any order.
InOrder(q, S) ==
    /\ \A i, k \in 1..Len(q) : i < k => QueuedAt[q[i]] <= QueuedAt[q[k]] /\ q[i] # q[k]
    /\ S = {q[i] : i \in 1..Len(q)}

\* A faulty StartProcess: the queue begins empty.
StartEmpty ==
    /\ ~alive
    /\ alive' = TRUE
    /\ worker' = "top"
    /\ UNCHANGED <<stopping, crashes, making, row, deleted, queue, hand, history>>

\* start_background_memory_postprocess_worker, before any request is served.
StartProcess ==
    /\ ~alive
    /\ alive' = TRUE
    /\ row' = [j \in Jobs |-> IF j \in Restored THEN "queued" ELSE row[j]]
    /\ \E q \in [1..Cardinality(Restored) -> Restored] : InOrder(q, Restored) /\ queue' = q
    /\ worker' = "top"
    /\ UNCHANGED <<stopping, crashes, making, deleted, hand, history>>

Next ==
    \/ \E j \in Jobs : BeginJob(j) \/ PersistJob(j) \/ PutJob(j)
    \/ DeleteMemorySet
    \/ Worker \/ WorkerDies
    \/ Stop \/ EndProcess \/ StartProcess

\* The worker thread is scheduled; a process asked to stop ends, and one that
\* has ended is started again.  What is persisted is put; before that a thread
\* and the store owe nothing.
Fairness ==
    /\ WF_vars(Worker)
    /\ \A j \in Jobs : WF_vars(PutJob(j))
    /\ WF_vars(stopping /\ EndProcess)
    /\ WF_vars(StartProcess)

Spec == Init /\ [][Next]_vars

FairSpec == Spec /\ Fairness

-----------------------------------------------------------------------------
(* Properties. *)

Queued(j) == \E i \in 1..Len(queue) : queue[i] = j

\* While the process runs and is not asked to stop, a job whose row says that
\* it is to be done is in the queue, in the worker's hand, or about to be put
\* by its thread - or the worker has died with it: no restart, deletion or
\* interleaving leaves a job that only the table knows.
JobsNotLost ==
    alive /\ ~stopping /\ worker # "dead" => \A j \in Jobs :
        row[j] \in Unfinished => Queued(j) \/ hand = j \/ making[j] = "persisted"

\* Jobs finish in the order of their queued_at, across restarts: a later turn's
\* memory is not consolidated before an earlier one's.  Only a job whose own
\* thread had not put it yet when a later one was put may finish after that.
FinishInOrder ==
    \A i, k \in 1..Len(finished) : i < k =>
        QueuedAt[finished[i]] <= QueuedAt[finished[k]] \/ finished[k] \in overtaken

\* The effects of a job are applied again only when the process, or the worker,
\* ended between applying them and writing that down.
EffectsOncePerCut == \A j \in Jobs : runs[j] <= 1 + cut[j]

\* A job is never run after its memory set was deleted, unless the worker was
\* past its look at the row then, or its thread had still to persist it.
DeletedNotRun ==
    [][\A j \in Doomed : deleted /\ j \notin excused => runs'[j] = runs[j]]_vars

\* A queued job is finished in the end, or its row is deleted - or the worker
\* has died of a store error.
JobsFinish ==
    \A j \in Jobs : row[j] = "queued" ~>
        row[j] \in {"succeeded", "failed", "none"} \/ worker = "dead"
=============================================================================
