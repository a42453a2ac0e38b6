---------------------------- MODULE AutonomousRun ----------------------------
(***************************************************************************)
(* service/autonomous_run.py: an autonomous run is a stored record that    *)
(* judgement cycles move along step by step.  A step reads the record,     *)
(* asks an LLM, may send a capability request, reads the record again and  *)
(* writes it.  Others write the same record meanwhile:                     *)
(*   - the pause, resume and cancel APIs, on HTTP threads, with no lock;   *)
(*   - the conversation cycle, which pauses runs when it begins and        *)
(*     resumes them when it ends, or cancels them all;                     *)
(*   - whoever prunes an expired request, under the run's lock;            *)
(*   - the cycle that started the run, when its turn has been consolidated *)
(*     into memory: it links the run to the commitments made, with no lock.*)
(* Cycles exclude each other (CycleCoordinator); "cyc" is the one that     *)
(* runs.  A read and a write of the store are separate steps wherever the  *)
(* code makes them separate calls and somebody may come in between.        *)
(*                                                                         *)
(* A request is settled once (RequestLifecycle): it is answered or it      *)
(* expires.  The checks of _user_response_cycle_active inside a step are   *)
(* left out: the count is above zero only inside a conversation or result  *)
(* cycle, and no scheduled step runs then.                                 *)
(***************************************************************************)
EXTENDS Integers, FiniteSets

CONSTANTS Runs,        \* run ids
          Nobody,      \* no run
          MaxRequests, \* bound on the requests sent, for model checking
          MaxTime,     \* bound on the clock, for model checking
          MaxRestarts, \* bound on the restarts, for model checking
          StepLimit,   \* AUTONOMOUS_RUN_CONSECUTIVE_STEP_LIMIT
          Cooldown,    \* AUTONOMOUS_RUN_COOLDOWN_SECONDS, in ticks
          ApiOps       \* the operations clients call

ASSUME RunAssumption ==
    /\ Nobody \notin Runs
    /\ MaxRequests \in Nat /\ MaxTime \in Nat /\ MaxRestarts \in Nat
    /\ StepLimit \in Nat \ {0}
    /\ Cooldown \in Nat \ {0}
    /\ ApiOps \subseteq {"pause", "resume", "cancel"}

Requests == 1..MaxRequests
None == 0
NoTime == -1

VARIABLES
    run,      \* the stored records
    req,      \* what became of each request
    owner,    \* autonomous_run_id of each request
    now,      \* the clock
    cyc,      \* the judgement cycle that runs, and how far it is
    held,     \* the record the cycle will write, made from the one it read
    todo,     \* the records a conversation cycle will write, likewise
    api,      \* the API call that has read a record and not written it yet
    mark,     \* the expired request whose run is being marked, likewise
    lock,     \* who holds each run's execution lock
    restarts,
    rest,     \* history: until when each run has been told to rest
    revived   \* history: the requests whose wait was written back, by the link
              \* of commitments, after they had been settled

memory == <<cyc, held, todo, api, mark, lock>>
vars == <<run, req, owner, now, memory, restarts, rest, revived>>

Terminal == {"completed", "cancelled"}

NoRun == [status |-> "absent", resume |-> "none", reason |-> "none",
          waits |-> None, next |-> NoTime, cool |-> NoTime, count |-> 0]
NoCycle == [kind |-> "none", pc |-> "idle", run |-> Nobody, of |-> None,
            act |-> "none", then |-> "continue", more |-> 0]
NoCall == [op |-> "none", run |-> Nobody, write |-> NoRun, more |-> 0]
NoMark == [of |-> None, write |-> NoRun]

Init ==
    /\ run = [r \in Runs |-> NoRun]
    /\ req = [q \in Requests |-> "unused"]
    /\ owner = [q \in Requests |-> Nobody]
    /\ now = 0
    /\ cyc = NoCycle
    /\ held = NoRun
    /\ todo = {}
    /\ api = NoCall
    /\ mark = NoMark
    /\ lock = [r \in Runs |-> "free"]
    /\ restarts = 0
    /\ rest = [r \in Runs |-> NoTime]
    /\ revived = {}

-----------------------------------------------------------------------------
(* What the code computes from a record.                                   *)

\* A faulty test that also takes a run that waits for a result.
DueOrWaiting(x) ==
    \/ x.status \in {"active", "waiting_result"}
    \/ x.status = "waiting_timer" /\ x.next # NoTime /\ x.next <= now

\* _autonomous_run_due_for_step and list_due_autonomous_runs.
Due(x) ==
    \/ x.status = "active"
    \/ x.status = "waiting_timer" /\ x.next # NoTime /\ x.next <= now

\* _autonomous_run_active_cooldown_until, for a caller that took the time t.
ActiveCooldown(x, t) == IF x.cool > t THEN x.cool ELSE NoTime

\* _terminal_autonomous_run.
Ended(x, status) ==
    [x EXCEPT !.status = status, !.waits = None, !.next = NoTime,
              !.reason = "none", !.cool = NoTime, !.count = 0]

\* _finalize_autonomous_run_commitments writes an ended record up to twice more.
MoreWrites(x) == IF x.status \in Terminal THEN 2 ELSE 0

\* _paused_autonomous_run: a run already paused is paused over again.
Paused(x, reason) ==
    [x EXCEPT !.status = "paused", !.resume = x.status, !.reason = reason]

\* A faulty resume that forgets that the run is resting.
ResumedAtOnce(x) ==
    [x EXCEPT !.resume = "none", !.reason = "none", !.status = "active",
              !.next = now]

\* resume_autonomous_run_api, for a paused record.
Resumed(x) ==
    LET cool == ActiveCooldown(x, now)
        y == [x EXCEPT !.resume = "none", !.reason = "none", !.cool = cool]
    IN IF x.resume = "waiting_result" /\ x.waits # None
       THEN [y EXCEPT !.status = "waiting_result", !.next = NoTime]
       ELSE IF cool # NoTime
       THEN [y EXCEPT !.status = "waiting_timer", !.next = cool]
       ELSE IF x.resume = "waiting_timer"
       THEN [y EXCEPT !.status = "waiting_timer"]
       ELSE [y EXCEPT !.status = "active", !.next = now]

\* _resume_autonomous_runs_after_user_interaction, for one of its records.
ResumedAfterUser(x) ==
    [x EXCEPT !.resume = "none", !.reason = "none",
              !.status = IF x.resume \in {"active", "waiting_timer"}
                         THEN x.resume ELSE "active"]

\* A faulty schedule that forgets the cooldown.
AfterResultAtOnce(x, t) ==
    LET y == [x EXCEPT !.waits = None, !.next = t, !.cool = NoTime]
    IN IF x.status = "paused" THEN [y EXCEPT !.resume = "active"]
       ELSE [y EXCEPT !.status = "active", !.resume = "none"]

\* _autonomous_run_after_result_schedule and the update made from it, by the
\* result cycle or by the mark of an interrupted wait: the run is to be looked
\* at again, at once or after its cooldown, and a paused run stays paused.
\* Both took the time before they waited for a lock: t may be long past.
AfterResult(x, t) ==
    LET cool == ActiveCooldown(x, t)
        status == IF cool = NoTime THEN "active" ELSE "waiting_timer"
        y == [x EXCEPT !.waits = None, !.cool = cool,
                       !.next = IF cool = NoTime THEN t ELSE cool]
    IN IF x.status = "paused" THEN [y EXCEPT !.resume = status]
       ELSE [y EXCEPT !.status = status, !.resume = "none"]

\* _mark_autonomous_run_capability_wait_interrupted also drops pause_reason.
Interrupted(x, t) ==
    IF x.status = "paused" THEN AfterResult(x, t)
    ELSE [AfterResult(x, t) EXCEPT !.reason = "none"]

MarkApplies(x, q) == x.status \in {"waiting_result", "paused"} /\ x.waits = q

\* A faulty count that never starts over.
CountedOn(x) == [x EXCEPT !.count = @ + 1, !.cool = NoTime]

\* _next_autonomous_run_continuation_state: a full count starts the cooldown.
Counted(x) ==
    IF x.count + 1 < StepLimit
    THEN [x EXCEPT !.count = @ + 1, !.cool = NoTime]
    ELSE [x EXCEPT !.count = 0, !.cool = now + Cooldown]

\* _apply_autonomous_step_transition on the record just read.
Stepped(x) ==
    LET counted == [Counted(x) EXCEPT !.reason = "none"]
    IN IF cyc.act = "request"
       THEN [counted EXCEPT !.status = "waiting_result", !.waits = cyc.of,
                            !.next = NoTime]
       ELSE IF cyc.act = "fail" \/ cyc.then = "cancel" THEN Ended(x, "cancelled")
       ELSE IF cyc.then = "complete" THEN Ended(x, "completed")
       ELSE IF cyc.then = "wait_until"
       THEN [x EXCEPT !.status = "waiting_timer", !.waits = None, !.next = now + 1,
                      !.reason = "none", !.count = 0, !.cool = NoTime]
       ELSE [counted EXCEPT !.status = "waiting_timer", !.waits = None,
                            !.next = IF counted.cool = NoTime THEN now + 1
                                     ELSE counted.cool]

Store(r, x) == run' = [run EXCEPT ![r] = x]

-----------------------------------------------------------------------------
(* The clock, the clients' answers, the APIs.                              *)

Tick ==
    /\ now < MaxTime
    /\ now' = now + 1
    /\ UNCHANGED <<run, req, owner, memory, restarts, rest, revived>>

\* _accept_capability_response hands the answer to a thread of its own.
Answer(q) ==
    /\ req[q] = "open"
    /\ req' = [req EXCEPT ![q] = "answered"]
    /\ UNCHANGED <<run, owner, now, memory, restarts, rest, revived>>

\* _prune_pending_capability_requests takes the request out; its run is owed
\* a mark.
Expire(q) ==
    /\ req[q] = "open"
    /\ req' = [req EXCEPT ![q] = "expired"]
    /\ UNCHANGED <<run, owner, now, memory, restarts, rest, revived>>

\* A faulty mark that does not take the run's lock.
MarkReadUnlocked(q) ==
    /\ req[q] = "expired" /\ mark = NoMark
    /\ IF MarkApplies(run[owner[q]], q)
       THEN /\ \E t \in 0..now :
                 mark' = [of |-> q, write |-> Interrupted(run[owner[q]], t)]
            /\ UNCHANGED req
       ELSE req' = [req EXCEPT ![q] = "done"] /\ UNCHANGED mark
    /\ UNCHANGED <<run, owner, now, cyc, held, todo, api, lock, restarts, rest, revived>>

\* The mark, up to its read; one that does not apply ends there.
MarkRead(q) ==
    /\ req[q] = "expired" /\ mark = NoMark
    /\ lock[owner[q]] = "free"
    /\ IF MarkApplies(run[owner[q]], q)
       THEN /\ \E t \in 0..now :
                 mark' = [of |-> q, write |-> Interrupted(run[owner[q]], t)]
            /\ lock' = [lock EXCEPT ![owner[q]] = "mark"]
            /\ UNCHANGED req
       ELSE req' = [req EXCEPT ![q] = "done"] /\ UNCHANGED <<mark, lock>>
    /\ UNCHANGED <<run, owner, now, cyc, held, todo, api, restarts, rest, revived>>

MarkWrite ==
    /\ mark # NoMark
    /\ Store(owner[mark.of], mark.write)
    /\ req' = [req EXCEPT ![mark.of] = "done"]
    /\ lock' = [lock EXCEPT ![owner[mark.of]] = "free"]
    /\ mark' = NoMark
    /\ UNCHANGED <<owner, now, cyc, held, todo, api, restarts, rest, revived>>

\* pause_, resume_ and cancel_autonomous_run_api, up to their read ...
ApiApplies(op, x) ==
    IF op = "resume" THEN x.status = "paused"
    ELSE x.status \notin Terminal \cup {"absent"}

ApiResult(op, x) ==
    CASE op = "pause"  -> Paused(x, "manual")
      [] op = "resume" -> Resumed(x)
      [] op = "cancel" -> Ended(x, "cancelled")

ApiRead(op, r) ==
    /\ api = NoCall
    /\ ApiApplies(op, run[r])
    /\ LET x == ApiResult(op, run[r])
       IN api' = [op |-> op, run |-> r, write |-> x, more |-> MoreWrites(x)]
    /\ UNCHANGED <<run, req, owner, now, cyc, held, todo, mark, lock,
                   restarts, rest, revived>>

\* ... and their write, or one of their writes.
ApiWrite ==
    /\ api # NoCall
    /\ Store(api.run, api.write)
    /\ \/ api' = NoCall
       \/ api.more > 0 /\ api' = [api EXCEPT !.more = @ - 1]
    /\ UNCHANGED <<req, owner, now, cyc, held, todo, mark, lock, restarts, rest, revived>>

-----------------------------------------------------------------------------
(* Judgement cycles.  One runs at a time (CycleCoordinator).               *)

Outside == <<now, api, mark, restarts>>

\* The cycle ends, or the conversation cycle comes to its finally clause.
Over == cyc' = IF cyc.kind = "user" THEN [cyc EXCEPT !.pc = "ending"] ELSE NoCycle

\* The cycle has started a run, and was no step or result of one.
HasStarted == cyc.kind \in {"user", "cancel_all", "wake"} /\ cyc.run # Nobody

\* The run's lock is released.  A cycle that has started a run consolidates its
\* turn before it ends and, if commitments came of it, links the run to them.
Leave ==
    /\ Over \/ (HasStarted /\ cyc' = [cyc EXCEPT !.pc = "link"])
    /\ lock' = [r \in Runs |-> IF lock[r] = "cycle" THEN "free" ELSE lock[r]]
    /\ held' = NoRun

ByUserPause(x) == x.status = "paused" /\ x.reason = "user"

\* _handle_conversation_cycle begins: it lists the runs to pause or to cancel.
UserStart(kind) ==
    /\ cyc = NoCycle
    /\ cyc' = [cyc EXCEPT !.kind = kind, !.pc = "begin"]
    /\ todo' = IF kind = "user"
               THEN {<<r, Paused(run[r], "user"), 0>> :
                       r \in {r \in Runs : run[r].status \in {"active", "waiting_timer"}}}
               ELSE {<<r, Ended(run[r], "cancelled"), 2>> :
                       r \in {r \in Runs : run[r].status \notin Terminal \cup {"absent"}}}
    /\ UNCHANGED <<Outside, run, req, owner, held, lock, rest, revived>>

\* It writes them, one after the other ...
UserBegin(t) ==
    /\ cyc.pc = "begin" /\ t \in todo
    /\ Store(t[1], t[2])
    /\ \/ todo' = todo \ {t}
       \/ t[3] > 0 /\ todo' = (todo \ {t}) \cup {<<t[1], t[2], t[3] - 1>>}
    /\ UNCHANGED <<Outside, req, owner, cyc, held, lock, rest, revived>>

\* ... and goes on to the decision.
UserBegun ==
    /\ cyc.pc = "begin" /\ todo = {}
    /\ cyc' = [cyc EXCEPT !.pc = "decide"]
    /\ UNCHANGED <<Outside, run, req, owner, held, todo, lock, rest, revived>>

\* A wake or background cycle comes to its decision.
WakeStart ==
    /\ cyc = NoCycle
    /\ cyc' = [cyc EXCEPT !.kind = "wake", !.pc = "decide"]
    /\ UNCHANGED <<Outside, run, req, owner, held, todo, lock, rest, revived>>

\* The decision starts no run.
DecideNoRun ==
    /\ cyc.pc = "decide"
    /\ Leave
    /\ UNCHANGED <<Outside, run, req, owner, todo, rest, revived>>

\* _start_autonomous_run_from_decision: a new run takes the place of others,
\* each of which is cancelled under its lock, and has its first step at once.
StartRun(r, replaced) ==
    /\ cyc.pc = "decide" /\ run[r].status = "absent"
    /\ \A x \in replaced :
          run[x].status \notin Terminal \cup {"absent"} /\ lock[x] = "free"
    /\ run' = [x \in Runs |->
                 IF x = r THEN [NoRun EXCEPT !.status = "active", !.next = now]
                 ELSE IF x \in replaced THEN Ended(run[x], "cancelled")
                 ELSE run[x]]
    /\ cyc' = [cyc EXCEPT !.pc = "guard", !.run = r]
    /\ UNCHANGED <<Outside, req, owner, held, todo, lock, rest, revived>>

\* A faulty list that forgets the runs that were waiting for a timer.
UserEndingActiveOnly ==
    /\ cyc.pc = "ending"
    /\ cyc' = [cyc EXCEPT !.pc = "end"]
    /\ todo' = {<<r, ResumedAfterUser(run[r]), 0>> :
                  r \in {r \in Runs : ByUserPause(run[r]) /\ run[r].resume = "active"}}
    /\ UNCHANGED <<Outside, run, req, owner, held, lock, rest, revived>>

\* The finally clause of the conversation cycle lists the runs that were paused
\* for a conversation, this one or an earlier one ...
UserEnding ==
    /\ cyc.pc = "ending"
    /\ cyc' = [cyc EXCEPT !.pc = "end"]
    /\ todo' = {<<r, ResumedAfterUser(run[r]), 0>> :
                  r \in {r \in Runs : ByUserPause(run[r])}}
    /\ UNCHANGED <<Outside, run, req, owner, held, lock, rest, revived>>

\* ... and resumes them.
UserEnd(t) ==
    /\ cyc.pc = "end" /\ t \in todo
    /\ Store(t[1], t[2])
    /\ todo' = todo \ {t}
    /\ UNCHANGED <<Outside, req, owner, cyc, held, lock, rest, revived>>

UserEnded ==
    /\ cyc.pc = "end" /\ todo = {}
    /\ cyc' = NoCycle
    /\ UNCHANGED <<Outside, run, req, owner, held, todo, lock, rest, revived>>

\* The scheduler comes to a due run.
StepStart(r) ==
    /\ cyc = NoCycle /\ Due(run[r])
    /\ cyc' = [cyc EXCEPT !.kind = "step", !.pc = "guard", !.run = r]
    /\ UNCHANGED <<Outside, run, req, owner, held, todo, lock, rest, revived>>

\* The thread of an answer gets its turn; it keeps the record as it is now.
ResultStart(q) ==
    /\ cyc = NoCycle /\ req[q] = "answered"
    /\ req' = [req EXCEPT ![q] = "done"]
    /\ cyc' = [cyc EXCEPT !.kind = "result", !.pc = "take", !.of = q,
                          !.run = owner[q]]
    /\ held' = run[owner[q]]
    /\ UNCHANGED <<Outside, run, owner, todo, lock, rest, revived>>

\* Interpreting the answer fails: the run is cancelled from that record.
ResultFails ==
    /\ cyc.pc = "take"
    /\ held' = Ended(held, "cancelled")
    /\ cyc' = [cyc EXCEPT !.pc = "write", !.more = 2]
    /\ UNCHANGED <<Outside, run, req, owner, todo, lock, rest, revived>>

\* Under the run's lock the answer is taken in, whatever request the run waits
\* for by now, up to the read ...
ResultTake ==
    /\ cyc.pc = "take" /\ lock[cyc.run] = "free"
    /\ IF run[cyc.run].status \in Terminal
       THEN Leave
       ELSE /\ \E t \in 0..now : held' = AfterResult(run[cyc.run], t)
            /\ lock' = [lock EXCEPT ![cyc.run] = "cycle"]
            /\ cyc' = [cyc EXCEPT !.pc = "put"]
    /\ UNCHANGED <<Outside, run, req, owner, todo, rest, revived>>

\* ... and the write; a run that is active has its next step at once.
ResultPut ==
    /\ cyc.pc = "put"
    /\ Store(cyc.run, held)
    /\ IF held.status = "active"
       THEN /\ cyc' = [cyc EXCEPT !.pc = "guard"]
            /\ UNCHANGED <<held, lock>>
       ELSE Leave
    /\ UNCHANGED <<Outside, req, owner, todo, rest, revived>>

-----------------------------------------------------------------------------
(* _execute_autonomous_run_step, under the run's lock (an RLock: a result  *)
(* cycle has it already).  The one retry after the check before sending    *)
(* withheld the request repeats StepDecide and StepSend; it is left out.   *)

\* _autonomous_run_step_guard lets the step go on, or ends the cycle's step.
GuardedBy(next) ==
    /\ IF Due(run[cyc.run])
       THEN /\ cyc' = next
            /\ lock' = [lock EXCEPT ![cyc.run] = "cycle"]
            /\ UNCHANGED held
       ELSE Leave
    /\ UNCHANGED <<Outside, run, req, owner, todo, rest, revived>>

StepGuard ==
    /\ cyc.pc = "guard" /\ lock[cyc.run] # "mark"
    /\ GuardedBy([cyc EXCEPT !.pc = "think"])

\* The LLM's reviewed answer: what to do, and how to go on.  A request always
\* waits for its result.  Speech is emitted here outside conversations.
StepDecide(act, then) ==
    /\ cyc.pc = "think"
    /\ GuardedBy([cyc EXCEPT !.act = act, !.then = then,
                             !.pc = IF act = "request" THEN "dispatch" ELSE "read"])

\* A second look before the request is prepared.
StepDispatch ==
    /\ cyc.pc = "dispatch"
    /\ GuardedBy([cyc EXCEPT !.pc = "send"])

\* _dispatch_capability_request asks an LLM to review the request and sends it.
StepSend ==
    /\ cyc.pc = "send"
    /\ \E q \in Requests :
         /\ req[q] = "unused" /\ \A p \in 1..q - 1 : req[p] # "unused"
         /\ req' = [req EXCEPT ![q] = "open"]
         /\ owner' = [owner EXCEPT ![q] = cyc.run]
         /\ cyc' = [cyc EXCEPT !.pc = "read", !.of = q]
    /\ UNCHANGED <<Outside, run, held, todo, lock, rest, revived>>

\* An exception of the LLM, the check before sending or the dispatch.
StepFails ==
    /\ cyc.pc \in {"think", "dispatch", "send"}
    /\ cyc' = [cyc EXCEPT !.pc = "read", !.act = "fail"]
    /\ UNCHANGED <<Outside, run, req, owner, held, todo, lock, rest, revived>>

\* The record is read once more; only a step that has done nothing yet, or has
\* speech to hand to the conversation, is given up if the run has changed.
Unspoken ==
    \/ cyc.act = "none"
    \/ cyc.act = "speak" /\ cyc.kind \in {"user", "cancel_all", "wake"}

StepRead ==
    /\ cyc.pc = "read"
    /\ IF Unspoken /\ ~Due(run[cyc.run])
       THEN Leave
       ELSE /\ held' = Stepped(run[cyc.run])
            /\ cyc' = [cyc EXCEPT !.pc = "write",
                                  !.more = MoreWrites(Stepped(run[cyc.run]))]
            /\ UNCHANGED lock
    /\ UNCHANGED <<Outside, run, req, owner, todo, rest, revived>>

StepWrite ==
    /\ cyc.pc = "write"
    /\ Store(cyc.run, held)
    /\ rest' = [rest EXCEPT ![cyc.run] = IF held.cool > @ THEN held.cool ELSE @]
    /\ \/ Leave
       \/ /\ cyc.more > 0
          /\ cyc' = [cyc EXCEPT !.more = @ - 1]
          /\ UNCHANGED <<held, lock>>
    /\ UNCHANGED <<Outside, req, owner, todo, revived>>

-----------------------------------------------------------------------------
(* _link_autonomous_run_source_commitments, with no lock: the record is    *)
(* read, given the commitments' ids (left out) and written as a whole,     *)
(* whatever an API or a mark wrote in between; one that has ended is       *)
(* finalized, which writes it again.                                       *)

LinkRead ==
    /\ cyc.pc = "link"
    /\ held' = run[cyc.run]
    /\ cyc' = [cyc EXCEPT !.pc = "linking", !.more = MoreWrites(run[cyc.run])]
    /\ UNCHANGED <<Outside, run, req, owner, todo, lock, rest, revived>>

LinkWrite ==
    /\ cyc.pc = "linking"
    /\ Store(cyc.run, held)
    /\ revived' = revived \cup {q \in Requests : /\ held.status = "waiting_result"
                                                /\ held.waits = q /\ req[q] = "done"}
    /\ \/ Over /\ held' = NoRun
       \/ cyc.more > 0 /\ cyc' = [cyc EXCEPT !.more = @ - 1] /\ UNCHANGED held
    /\ UNCHANGED <<Outside, req, owner, todo, lock, rest>>

-----------------------------------------------------------------------------
(* The process ends and starts again: its memory is gone, and with it the  *)
(* requests that were out; the store is kept.                              *)

Forget ==
    /\ restarts < MaxRestarts
    /\ restarts' = restarts + 1
    /\ req' = [q \in Requests |->
                 IF req[q] \in {"open", "answered", "expired"} THEN "done" ELSE req[q]]
    /\ cyc' = NoCycle /\ held' = NoRun /\ todo' = {}
    /\ api' = NoCall /\ mark' = NoMark
    /\ lock' = [r \in Runs |-> "free"]
    /\ UNCHANGED <<owner, now, rest, revived>>

\* A faulty restart that leaves the runs as they are.
RestartUnrecovered == Forget /\ UNCHANGED run

\* recover_autonomous_run_runtime_state_after_startup looks again at every run
\* that waits for a result.
Restart ==
    /\ Forget
    /\ run' = [r \in Runs |->
                 IF run[r].status \in {"waiting_result", "paused"} /\ run[r].waits # None
                 THEN Interrupted(run[r], now) ELSE run[r]]

-----------------------------------------------------------------------------
Actions == {"request", "speak", "none"}
Transitions == {"continue", "wait_until", "complete", "cancel"}

Conversation ==
    \/ \E t \in todo : UserBegin(t) \/ UserEnd(t)
    \/ UserBegun \/ UserEnding \/ UserEnded

Decision == DecideNoRun \/ \E r \in Runs, replaced \in SUBSET Runs : StartRun(r, replaced)

Step ==
    \/ StepGuard
    \/ \E act \in Actions, then \in Transitions : StepDecide(act, then)
    \/ StepDispatch \/ StepSend \/ StepFails \/ StepRead \/ StepWrite

Result == ResultFails \/ ResultTake \/ ResultPut

Link == LinkRead \/ LinkWrite

Cycle == Conversation \/ Decision \/ Step \/ Result \/ Link

Next ==
    \/ Tick
    \/ \E q \in Requests : Answer(q) \/ Expire(q) \/ MarkRead(q) \/ ResultStart(q)
    \/ MarkWrite
    \/ \E op \in ApiOps, r \in Runs : ApiRead(op, r)
    \/ ApiWrite
    \/ \E kind \in {"user", "cancel_all"} : UserStart(kind)
    \/ WakeStart
    \/ \E r \in Runs : StepStart(r)
    \/ Cycle
    \/ Restart

Spec == Init /\ [][Next]_vars

\* A cycle that has begun goes on, the scheduler prunes what has expired and
\* marks its run, and an answer gets its turn among the cycles: turns are given
\* in order of arrival (CycleCoordinator, ForegroundServed).
Fairness ==
    /\ WF_vars(Cycle)
    /\ WF_vars(MarkWrite)
    /\ \A q \in Requests :
          WF_vars(Expire(q)) /\ SF_vars(MarkRead(q)) /\ SF_vars(ResultStart(q))

FairSpec == Spec /\ Fairness

-----------------------------------------------------------------------------
Statuses == {"absent", "active", "waiting_timer", "waiting_result", "paused"} \cup Terminal

Records == [status : Statuses, resume : Statuses \cup {"none"},
            reason : {"none", "manual", "user"}, waits : Requests \cup {None},
            next : NoTime..MaxTime + Cooldown, cool : NoTime..MaxTime + Cooldown,
            count : 0..StepLimit - 1]

\* Every record ever written is well formed; above all the count of steps stays
\* below the limit, or _autonomous_run_consecutive_step_count refuses the record
\* and the run is cancelled at its next step.
TypeOK ==
    /\ run \in [Runs -> Records]
    /\ req \in [Requests -> {"unused", "open", "answered", "expired", "done"}]
    /\ owner \in [Requests -> Runs \cup {Nobody}]
    /\ now \in 0..MaxTime
    /\ cyc.kind \in {"none", "user", "cancel_all", "wake", "step", "result"}
    /\ cyc.run \in Runs \cup {Nobody} /\ cyc.of \in Requests \cup {None}
    /\ held \in Records
    /\ todo \subseteq Runs \X Records \X (0..2)
    /\ api \in [op : ApiOps \cup {"none"}, run : Runs \cup {Nobody},
                write : Records, more : 0..2]
    /\ mark \in [of : Requests \cup {None}, write : Records]
    /\ lock \in [Runs -> {"free", "cycle", "mark"}]
    /\ restarts \in 0..MaxRestarts
    /\ rest \in [Runs -> NoTime..MaxTime + Cooldown]
    /\ revived \subseteq Requests

\* A run is never due while its record says that it rests: whatever order the
\* APIs, the conversation, the answer and the mark write it in, a record with an
\* active cooldown is not taken up by the scheduler.
RestingIsNotDue ==
    \A r \in Runs : Due(run[r]) => run[r].cool <= now

\* A run whose steps have reached the limit takes no step before its rest is
\* over, although the record goes through answers, marks, conversations and
\* restarts in between.
RestsAfterLimit ==
    [][cyc.pc = "guard" /\ cyc'.pc = "think" => rest[cyc.run] <= now]_vars

\* A run that waits for a result waits for one that can still come, or whose
\* expiry will be marked: nothing else would ever take the run up again.  The
\* one exception is a wait that had ended and that the link of commitments, with
\* the record it had read before, wrote back.
WaitIsAnswerable ==
    \A r \in Runs : run[r].status = "waiting_result" =>
        LET q == run[r].waits
        IN /\ q # None
           /\ \/ req[q] \in {"open", "answered", "expired"}
              \/ cyc.pc \in {"take", "put", "write"} /\ cyc.of = q
              \/ q \in revived

\* A run never has two requests out, even if a client answers before the run's
\* own write or the run is cancelled while its request is sent.
OneOpenRequestPerRun ==
    \A p, q \in Requests :
        req[p] = "open" /\ req[q] = "open" /\ owner[p] = owner[q] => p = q

\* A conversation gives back every run it, or an earlier one that was cut short,
\* has paused.
PausesAreGivenBack ==
    [][cyc.kind = "user" /\ cyc'.kind = "none" /\ restarts' = restarts
         => \A r \in Runs : ~ByUserPause(run'[r])]_vars

\* A run does not wait for a result for ever: lost answers, late ones, restarts
\* and conversations notwithstanding.  Only a wait that the link of commitments
\* wrote back after its end lasts until the run is cancelled or the process ends.
WaitEnds ==
    \A r \in Runs : run[r].status = "waiting_result"
                      ~> run[r].status # "waiting_result" \/ run[r].waits \in revived

-----------------------------------------------------------------------------
(* What the documents say.                                                 *)

\* Cancelled is final.
CancelIsFinal ==
    [][\A r \in Runs : run[r].status \in Terminal => run'[r].status \in Terminal]_vars

=============================================================================
