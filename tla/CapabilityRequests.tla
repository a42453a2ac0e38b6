------------------------- MODULE CapabilityRequests -------------------------
(***************************************************************************)
(* service/capability.py, service/agent_skills.py and the result cycles of *)
(* service/spontaneous/capability_cycle.py: a judgement cycle dispatches a *)
(* capability request to a client (or to the Agent Skill runner), records  *)
(* it in a process-local table and in one persistent ongoing_action, and a *)
(* result, a timeout, a failed send or the end of the process settles it.  *)
(*                                                                         *)
(* Threads: the one judgement cycle that may run (CycleCoordinator), which *)
(* does the dispatching; an HTTP thread (or the runner's thread) for each  *)
(* result that arrives; and whoever prunes the table: the scheduler, which *)
(* does so every second, the dispatcher and the HTTP threads.              *)
(*                                                                         *)
(* Not modelled: paused and temporarily unavailable capabilities, targets  *)
(* that do not resolve and pre-send checks only refuse a dispatch, so      *)
(* Refuse stands for all of them.                                          *)
(***************************************************************************)
EXTENDS Integers, FiniteSets

CONSTANTS Capabilities,  \* capability ids
          Runner,        \* agent_skill.run_script, which has its own dispatch
          MaxRequests,   \* bound on the requests issued, for model checking
          MaxCrashes     \* bound on the restarts, for model checking

ASSUME CapabilityAssumption ==
    /\ Runner \in Capabilities
    /\ MaxRequests \in Nat
    /\ MaxCrashes \in Nat

Requests == 1..MaxRequests

\* Stands for None where a request id or an action id is optional.
None == 0

\* Who may be cleaning up after requests that it found expired.
Pruners == {"scheduler", "dispatcher", "acceptor"}

VARIABLES
    issued,     \* how many request records have been built
    info,       \* request_record: capability, wait_for_response, action_id
    pending,    \* keys of _pending_capability_requests
    response,   \* the pending entries whose "response" is set
    busyReq,    \* busy_request_id of each capability
    busyAct,    \* busy_action_id of each capability
    action,     \* the ongoing_action row; "by" is the request that set expires_at
    lapsed,     \* requests whose expires_at lies in the past
    cycle,      \* the judgement cycle that runs: kind, result it handles, request it sent
    disp,       \* where the cycle is in a dispatch
    delivered,  \* requests that reached their client
    accepting,  \* requests an HTTP thread is handling a result of
    results,    \* results accepted, their cycle waits for its turn
    owed,       \* requests each pruner has taken out and not cleaned up after
    crashes,    \* how often the process was restarted
    outcome     \* history: how each request was settled

vars == <<issued, info, pending, response, busyReq, busyAct, action, lapsed,
          cycle, disp, delivered, accepting, results, owed, crashes, outcome>>

NoInfo == [cap |-> Runner, sync |-> FALSE, action |-> None]
NoAction == [id |-> None, by |-> None, cap |-> Runner, status |-> "none"]
NoCycle == [kind |-> "none", of |-> None, sent |-> None]
NotDispatching == [pc |-> "idle", cap |-> Runner, sync |-> FALSE, req |-> None]

Init ==
    /\ issued = 0
    /\ info = [q \in Requests |-> NoInfo]
    /\ pending = {}
    /\ response = {}
    /\ busyReq = [c \in Capabilities |-> None]
    /\ busyAct = [c \in Capabilities |-> None]
    /\ action = NoAction
    /\ lapsed = {}
    /\ cycle = NoCycle
    /\ disp = NotDispatching
    /\ delivered = {}
    /\ accepting = {}
    /\ results = {}
    /\ owed = [p \in Pruners |-> {}]
    /\ crashes = 0
    /\ outcome = [q \in Requests |-> "unused"]

-----------------------------------------------------------------------------
(* The shared helpers.                                                     *)

\* get_ongoing_action returns the row only while it has not expired.
ActionLive == action.id # None /\ action.by \notin lapsed

\* _finish_capability_ongoing_action: the row goes if it is this action's.
FinishedAction(id) ==
    IF id # None /\ ActionLive /\ action.id = id THEN NoAction ELSE action

\* _activate_capability_ongoing_action, with the time the result arrived.
ActivatedAction(id) ==
    IF id # None /\ action.id = id
    THEN [action EXCEPT !.status = "active"] ELSE action

\* _clear_capability_runtime_busy after request q: an action id of None
\* clears whatever action is there.
ClearBusy(q) ==
    LET c == info[q].cap
        id == info[q].action
    IN /\ busyReq' = IF busyReq[c] = q
                     THEN [busyReq EXCEPT ![c] = None] ELSE busyReq
       /\ busyAct' = IF id = None \/ busyAct[c] = id
                     THEN [busyAct EXCEPT ![c] = None] ELSE busyAct

\* _capability_runtime_state_snapshot: busy by the table of the process, or by
\* the ongoing action that waits for this capability.
Busy(c) ==
    \/ busyReq[c] # None
    \/ busyAct[c] # None
    \/ ActionLive /\ action.status = "waiting" /\ action.cap = c

Settle(Q, o) == outcome' = [q \in Requests |-> IF q \in Q THEN o ELSE outcome[q]]

\* A faulty prune that passes over the requests of the runner.
ExpiredOfClients == {q \in pending \cap lapsed : info[q].cap # Runner}

Expired == pending \cap lapsed

\* The critical section of _prune_pending_capability_requests, run by p.
TakeOutExpired(p) ==
    /\ pending' = pending \ Expired
    /\ owed' = [owed EXCEPT ![p] = @ \cup Expired]
    /\ Settle(Expired, "expired")

-----------------------------------------------------------------------------
(* Judgement cycles and time.                                              *)

StartCycle ==
    /\ cycle.kind = "none"
    /\ cycle' = [NoCycle EXCEPT !.kind = "plain"]
    /\ UNCHANGED <<issued, info, pending, response, busyReq, busyAct, action,
                   lapsed, disp, delivered, accepting, results, owed, crashes,
                   outcome>>

StartResultCycle(q) ==
    /\ cycle.kind = "none"
    /\ q \in results
    /\ cycle' = [kind |-> "result", of |-> q, sent |-> None]
    /\ results' = results \ {q}
    /\ action' = ActivatedAction(info[q].action)
    /\ UNCHANGED <<issued, info, pending, response, busyReq, busyAct, lapsed,
                   disp, delivered, accepting, owed, crashes, outcome>>

\* A cycle that handled no result leaves the action alone.  So does a result
\* cycle that crashed, and one whose decision sent a follow-up request.
EndCycle ==
    /\ cycle.kind # "none"
    /\ disp.pc = "idle"
    /\ cycle' = NoCycle
    /\ UNCHANGED <<issued, info, pending, response, busyReq, busyAct, action,
                   lapsed, disp, delivered, accepting, results, owed, crashes,
                   outcome>>

\* Otherwise the result cycle finishes the action its request belongs to.  It
\* also does when its decision started an autonomous run whose first step has
\* sent a request, or when it failed after sending one.
FinishResultCycle ==
    /\ cycle.kind = "result"
    /\ disp.pc = "idle"
    /\ cycle' = NoCycle
    /\ action' = FinishedAction(info[cycle.of].action)
    /\ UNCHANGED <<issued, info, pending, response, busyReq, busyAct, lapsed,
                   disp, delivered, accepting, results, owed, crashes, outcome>>

\* expires_at of request q passes.  A synchronous wait ends 29 seconds before
\* that, and the runner is started within milliseconds; a request to a client
\* may be born expired, its text is reviewed by an LLM after the clock is read.
Lapse(q) ==
    /\ outcome[q] # "unused"
    /\ q \notin lapsed
    /\ q = disp.req => ~ disp.sync /\ disp.cap # Runner
    /\ lapsed' = lapsed \cup {q}
    /\ UNCHANGED <<issued, info, pending, response, busyReq, busyAct, action,
                   cycle, disp, delivered, accepting, results, owed, crashes,
                   outcome>>

-----------------------------------------------------------------------------
(* Dispatch: _dispatch_capability_request and, for the runner,             *)
(* _dispatch_agent_skill_script_capability.                                *)

\* The dispatch first prunes the table.  A cycle sends one request that it
\* does not wait for; it waits only for observations made before it decides.
StartDispatch(c, sync) ==
    /\ cycle.kind # "none"
    /\ cycle.sent = None
    /\ disp.pc = "idle"
    /\ issued < MaxRequests
    /\ sync => cycle.kind = "plain" /\ c # Runner
    /\ disp' = [pc |-> "check", cap |-> c, sync |-> sync, req |-> None]
    /\ TakeOutExpired("dispatcher")
    /\ UNCHANGED <<issued, info, response, busyReq, busyAct, action, lapsed,
                   cycle, delivered, accepting, results, crashes>>

\* The dispatch is refused and raises.
Refuse ==
    /\ disp.pc \in {"check", "begin"}
    /\ owed["dispatcher"] = {}
    /\ disp' = NotDispatching
    /\ UNCHANGED <<issued, info, pending, response, busyReq, busyAct, action,
                   lapsed, cycle, delivered, accepting, results, owed, crashes,
                   outcome>>

\* A faulty Check that only looks at the limits of the capability.
CheckUnlessLimited ==
    /\ disp.pc = "check"
    /\ owed["dispatcher"] = {}
    /\ disp' = [disp EXCEPT !.pc = "begin"]
    /\ UNCHANGED <<issued, info, pending, response, busyReq, busyAct, action,
                   lapsed, cycle, delivered, accepting, results, owed, crashes,
                   outcome>>

\* _validate_capability_runtime_dispatchable.
Check ==
    /\ disp.pc = "check"
    /\ owed["dispatcher"] = {}
    /\ ~ Busy(disp.cap)
    /\ disp' = [disp EXCEPT !.pc = "begin"]
    /\ UNCHANGED <<issued, info, pending, response, busyReq, busyAct, action,
                   lapsed, cycle, delivered, accepting, results, owed, crashes,
                   outcome>>

\* _begin_capability_ongoing_action and the building of the request record: a
\* live action that is not waiting is continued, otherwise a new one starts.
\* A synchronous request has no action.
Begin ==
    LET q == issued + 1
        id == IF disp.sync THEN None
              ELSE IF ActionLive THEN action.id ELSE q
    IN /\ disp.pc = "begin"
       /\ disp.sync \/ ~ (ActionLive /\ action.status = "waiting")
       /\ issued' = q
       /\ info' = [info EXCEPT ![q] =
                     [cap |-> disp.cap, sync |-> disp.sync, action |-> id]]
       /\ action' = IF disp.sync THEN action
                    ELSE [id |-> id, by |-> q, cap |-> disp.cap,
                          status |-> "waiting"]
       /\ disp' = [disp EXCEPT !.pc = "register", !.req = q]
       /\ outcome' = [outcome EXCEPT ![q] = "open"]
       /\ UNCHANGED <<pending, response, busyReq, busyAct, lapsed, cycle,
                      delivered, accepting, results, owed, crashes>>

\* The entry is in the table before the client can answer.
Register ==
    /\ disp.pc = "register"
    /\ pending' = pending \cup {disp.req}
    /\ disp' = [disp EXCEPT !.pc = IF disp.cap = Runner THEN "busy" ELSE "send"]
    /\ UNCHANGED <<issued, info, response, busyReq, busyAct, action, lapsed,
                   cycle, delivered, accepting, results, owed, crashes, outcome>>

\* send_to_client returned True.
Send ==
    /\ disp.pc = "send"
    /\ delivered' = delivered \cup {disp.req}
    /\ disp' = [disp EXCEPT !.pc = "busy"]
    /\ UNCHANGED <<issued, info, pending, response, busyReq, busyAct, action,
                   lapsed, cycle, accepting, results, owed, crashes, outcome>>

\* A faulty failure path that forgets the ongoing_action.
SendFailsKeepingAction ==
    /\ disp.pc = "send"
    /\ pending' = pending \ {disp.req}
    /\ ClearBusy(disp.req)
    /\ disp' = NotDispatching
    /\ Settle({disp.req} \cap pending, "failed")
    /\ UNCHANGED <<issued, info, response, action, lapsed, cycle, delivered,
                   accepting, results, owed, crashes>>

\* send_to_client returned False: everything is taken back.
SendFails ==
    /\ disp.pc = "send"
    /\ pending' = pending \ {disp.req}
    /\ ClearBusy(disp.req)
    /\ action' = FinishedAction(info[disp.req].action)
    /\ disp' = NotDispatching
    /\ Settle({disp.req} \cap pending, "failed")
    /\ UNCHANGED <<issued, info, response, lapsed, cycle, delivered, accepting,
                   results, owed, crashes>>

\* _set_capability_runtime_busy, which follows the send to a client and
\* precedes the start of the runner.
SetBusy ==
    /\ disp.pc = "busy"
    /\ busyReq' = [busyReq EXCEPT ![disp.cap] = disp.req]
    /\ busyAct' = [busyAct EXCEPT ![disp.cap] = info[disp.req].action]
    /\ IF disp.sync
       THEN disp' = [disp EXCEPT !.pc = "wait"] /\ UNCHANGED cycle
       ELSE IF disp.cap = Runner
       THEN disp' = [disp EXCEPT !.pc = "launch"] /\ UNCHANGED cycle
       ELSE disp' = NotDispatching /\ cycle' = [cycle EXCEPT !.sent = disp.req]
    /\ UNCHANGED <<issued, info, pending, response, action, lapsed, delivered,
                   accepting, results, owed, crashes, outcome>>

\* The thread of the runner is started; it will submit a result.
Launch ==
    /\ disp.pc = "launch"
    /\ delivered' = delivered \cup {disp.req}
    /\ disp' = NotDispatching
    /\ cycle' = [cycle EXCEPT !.sent = disp.req]
    /\ UNCHANGED <<issued, info, pending, response, busyReq, busyAct, action,
                   lapsed, accepting, results, owed, crashes, outcome>>

\* The synchronous wait ended with a response in the entry.
Collect ==
    /\ disp.pc = "wait"
    /\ disp.req \in response
    /\ pending' = pending \ {disp.req}
    /\ disp' = NotDispatching
    /\ Settle({disp.req}, "answered")
    /\ UNCHANGED <<issued, info, response, busyReq, busyAct, action, lapsed,
                   cycle, delivered, accepting, results, owed, crashes>>

\* A faulty timeout that does not look at the response once more.
GiveUpUnseen ==
    /\ disp.pc = "wait"
    /\ pending' = pending \ {disp.req}
    /\ ClearBusy(disp.req)
    /\ disp' = NotDispatching
    /\ Settle({disp.req}, "expired")
    /\ UNCHANGED <<issued, info, response, action, lapsed, cycle, delivered,
                   accepting, results, owed, crashes>>

\* The synchronous wait timed out and there is no response in the entry.
GiveUp ==
    /\ disp.pc = "wait"
    /\ disp.req \notin response
    /\ pending' = pending \ {disp.req}
    /\ ClearBusy(disp.req)
    /\ disp' = NotDispatching
    /\ Settle({disp.req}, "expired")
    /\ UNCHANGED <<issued, info, response, action, lapsed, cycle, delivered,
                   accepting, results, owed, crashes>>

-----------------------------------------------------------------------------
(* Results: _accept_capability_result, called on an HTTP thread or on the  *)
(* runner's thread.  A client may post a result late and more than once.   *)

\* The table is pruned with the time of arrival before the lookup.  The
\* runner submits one result only.
Receive(q) ==
    /\ q \in delivered
    /\ q \notin accepting
    /\ accepting' = accepting \cup {q}
    /\ delivered' = IF info[q].cap = Runner THEN delivered \ {q} ELSE delivered
    /\ TakeOutExpired("acceptor")
    /\ UNCHANGED <<issued, info, response, busyReq, busyAct, action, lapsed,
                   cycle, disp, results, crashes>>

\* A faulty critical section that accepts what the table no longer holds.
AcceptAnyway(q) ==
    /\ q \in accepting
    /\ owed["acceptor"] = {}
    /\ accepting' = accepting \ {q}
    /\ ClearBusy(q)
    /\ pending' = pending \ {q}
    /\ results' = results \cup {q}
    /\ Settle({q}, "answered")
    /\ UNCHANGED <<issued, info, action, response, lapsed, cycle, disp,
                   delivered, owed, crashes>>

\* The critical section: a request still in the table takes the result.
Accept(q) ==
    /\ q \in accepting
    /\ owed["acceptor"] = {}
    /\ accepting' = accepting \ {q}
    /\ q \in pending
    /\ ClearBusy(q)
    /\ IF info[q].sync
       THEN /\ response' = response \cup {q}
            /\ UNCHANGED <<pending, results, outcome>>
       ELSE /\ pending' = pending \ {q}
            /\ results' = results \cup {q}
            /\ Settle({q}, "answered")
            /\ UNCHANGED response
    /\ UNCHANGED <<issued, info, action, lapsed, cycle, disp, delivered, owed,
                   crashes>>

\* A request that is no longer in the table ignores it, and so does one whose
\* result comes from another client or from another source.
Ignore(q) ==
    /\ q \in accepting
    /\ owed["acceptor"] = {}
    /\ q \in pending => info[q].cap # Runner
    /\ accepting' = accepting \ {q}
    /\ UNCHANGED <<issued, info, pending, response, busyReq, busyAct, action,
                   lapsed, cycle, disp, delivered, results, owed, crashes,
                   outcome>>

\* The runner's own result did not validate: its thread clears busy and ends,
\* the request stays in the table.
RunnerRejected(q) ==
    /\ q \in delivered
    /\ info[q].cap = Runner
    /\ delivered' = delivered \ {q}
    /\ ClearBusy(q)
    /\ UNCHANGED <<issued, info, pending, response, action, lapsed, cycle, disp,
                   accepting, results, owed, crashes, outcome>>

-----------------------------------------------------------------------------
(* Pruning, and the end of the process.                                    *)

\* The scheduler's turn, once a second.
Prune ==
    /\ Expired # {}
    /\ TakeOutExpired("scheduler")
    /\ UNCHANGED <<issued, info, response, busyReq, busyAct, action, lapsed,
                   cycle, disp, delivered, accepting, results, crashes>>

\* A faulty clean-up that leaves the capability busy.
CleanUpKeepingBusy(p, q) ==
    /\ q \in owed[p]
    /\ owed' = [owed EXCEPT ![p] = @ \ {q}]
    /\ action' = FinishedAction(info[q].action)
    /\ UNCHANGED <<issued, info, pending, response, busyReq, busyAct, lapsed,
                   cycle, disp, delivered, accepting, results, crashes, outcome>>

\* What follows the critical section, for one of the requests taken out.
CleanUp(p, q) ==
    /\ q \in owed[p]
    /\ owed' = [owed EXCEPT ![p] = @ \ {q}]
    /\ ClearBusy(q)
    /\ action' = FinishedAction(info[q].action)
    /\ UNCHANGED <<issued, info, pending, response, lapsed, cycle, disp,
                   delivered, accepting, results, crashes, outcome>>

\* The process ends at any point and starts again; the table is gone, the row
\* is not, and recover_capability_runtime_state_after_startup drops it if it
\* waits for a result.  Clients may still answer.
Restart ==
    /\ crashes < MaxCrashes
    /\ crashes' = crashes + 1
    /\ pending' = {}
    /\ response' = {}
    /\ busyReq' = [c \in Capabilities |-> None]
    /\ busyAct' = [c \in Capabilities |-> None]
    /\ action' = IF ActionLive /\ action.status = "waiting"
                 THEN NoAction ELSE action
    /\ cycle' = NoCycle
    /\ disp' = NotDispatching
    /\ delivered' = {q \in delivered : info[q].cap # Runner}
    /\ accepting' = {}
    /\ results' = {}
    /\ owed' = [p \in Pruners |-> {}]
    /\ Settle({q \in Requests : outcome[q] = "open"}, "lost")
    /\ UNCHANGED <<issued, info, lapsed>>

Next ==
    \/ StartCycle
    \/ EndCycle
    \/ FinishResultCycle
    \/ Refuse
    \/ Check
    \/ Begin
    \/ Register
    \/ Send
    \/ SendFails
    \/ SetBusy
    \/ Launch
    \/ Collect
    \/ GiveUp
    \/ Prune
    \/ Restart
    \/ \E c \in Capabilities, sync \in BOOLEAN : StartDispatch(c, sync)
    \/ \E q \in Requests :
         \/ StartResultCycle(q)
         \/ Lapse(q)
         \/ Receive(q)
         \/ Accept(q)
         \/ Ignore(q)
         \/ RunnerRejected(q)
    \/ \E p \in Pruners, q \in Requests : CleanUp(p, q)

Spec == Init /\ [][Next]_vars

\* The scheduler prunes every second, clocks move on, the dispatching thread
\* is not stopped between its steps, and the runner's process has a timeout.
\* Nothing is assumed of clients: they may never answer.
Fairness ==
    /\ WF_vars(Refuse \/ Check \/ Begin)
    /\ WF_vars(Register)
    /\ WF_vars(Send \/ SendFails)
    /\ WF_vars(SetBusy)
    /\ WF_vars(Launch)
    /\ WF_vars(Collect \/ GiveUp)
    /\ WF_vars(Prune)
    /\ \A q \in Requests : WF_vars(Lapse(q))
    /\ \A p \in Pruners, q \in Requests : WF_vars(CleanUp(p, q))

FairSpec == Spec /\ Fairness

-----------------------------------------------------------------------------
(* Properties                                                              *)

Statuses == {"unused", "open", "answered", "expired", "failed", "lost"}

TypeOK ==
    /\ issued \in 0..MaxRequests
    /\ info \in [Requests -> [cap : Capabilities, sync : BOOLEAN,
                              action : 0..MaxRequests]]
    /\ pending \subseteq 1..issued /\ response \subseteq 1..issued
    /\ lapsed \subseteq 1..issued /\ delivered \subseteq 1..issued
    /\ accepting \subseteq 1..issued /\ results \subseteq 1..issued
    /\ busyReq \in [Capabilities -> 0..issued]
    /\ busyAct \in [Capabilities -> 0..issued]
    /\ action \in [id : 0..issued, by : 0..issued, cap : Capabilities,
                   status : {"none", "waiting", "active"}]
    /\ cycle \in [kind : {"none", "plain", "result"}, of : 0..issued,
                  sent : 0..issued]
    /\ disp \in [pc : {"idle", "check", "begin", "register", "send", "busy",
                       "launch", "wait"},
                 cap : Capabilities, sync : BOOLEAN, req : 0..issued]
    /\ owed \in [Pruners -> SUBSET (1..issued)]
    /\ crashes \in 0..MaxCrashes
    /\ outcome \in [Requests -> Statuses]

\* The ongoing_action never says that a result is awaited when no result can
\* come any more: the request it waits for is in the table, or in the hands of
\* the dispatcher or of an accepted result's cycle.  Otherwise it would refuse
\* every request until it expires, in the next process too.
ActionHasRequest ==
    ActionLive /\ action.status = "waiting" =>
      action.by \in pending \cup results \cup {disp.req}

\* blocks_parallel_capability: two requests that may still be answered are
\* never out for the same capability, though the check and the setting of busy
\* are many steps apart.
OneRequestPerCapability ==
    \A q, r \in (pending \ lapsed) \cap (delivered \cup accepting \cup {disp.req}) :
      info[q].cap = info[r].cap => q = r

\* A result that was taken over for a cycle that waits is handed to it: the
\* timeout of the wait and the prune do not settle that request their way.
SyncAnswerKept ==
    \A q \in response : outcome[q] \in {"open", "answered"}

\* Busy for a request that is answered, or that is not in the table, in dispatch or
\* being cleaned up after: nothing clears that, and every later request is refused.
StaleBusy(c) ==
    /\ busyReq[c] # None
    /\ busyReq[c] \notin ((pending \cup {disp.req}) \ response)
                           \cup UNION {owed[p] : p \in Pruners}

\* Whatever settles a request leaves its capability free.  The one step that makes
\* a capability stale is the setting of busy, after the send, for a request of a
\* client that has been settled in between.
BusyIsCleared ==
    [][\A c \in Capabilities : StaleBusy(c)' =>
         StaleBusy(c) \/ (c # Runner /\ disp.pc = "busy" /\ disp.cap = c)]_vars

\* A request is settled once, in one way, whatever results arrive, how often,
\* and whoever prunes.
Lifecycle == INSTANCE RequestLifecycle

ImplementsRequestLifecycle == Lifecycle!Spec

\* Every request is settled, even if its client never answers.
RequestsSettle == \A q \in Requests : outcome[q] = "open" ~> outcome[q] # "open"

\* The runner can always be used again.
RunnerFreed == busyReq[Runner] # None ~> busyReq[Runner] = None

=============================================================================
