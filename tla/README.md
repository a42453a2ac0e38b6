# OtomeKairo in TLA+

This directory models the parts of the OtomeKairo server (`src/otomekairo/`) where threads,
timers, restarts and lost messages meet: the judgement cycles that share one lock, the
capability requests they send to clients, the autonomous runs they move along, the event
streams, speech output and audio input, the three background workers (memory
postprocessing, daily visual digests, periodic thought), and the memory units that turns and
workers rewrite. TLC checks each model on small
instances; TLAPS proves most of their safety properties for every value of the constants.

Paths below are relative to `src/otomekairo/` unless they start with `docs/`.

## The system

OtomeKairo is one Python process. An HTTP server answers each request on a thread
of its own; daemon threads run periodic thought, due autonomous runs, memory
postprocessing, daily visual digests, audio recognition and speech output. Clients
(console, browser, microphone, cameras, MCP connectors) hold WebSockets and post
results. State is kept in SQLite and JSON files (`store/`), in process-local
tables, and in one persistent `ongoing_action` row per memory set.

| Component | State | Operations | What is hard | What makes it correct |
|---|---|---|---|---|
| Cycle coordinator (`service/cycle_coordinator.py`) | two ticket counters, waiter count, active flag, one condition variable | `enter_foreground`, `leave_foreground`, `try_enter_background`, `leave_background` | wake-ups, order, counter drift | one cycle at a time, FIFO, background stands back, everyone is served |
| Capability requests (`service/capability.py`, `service/agent_skills.py`, `service/spontaneous/capability_cycle.py`) | pending table, busy table, `ongoing_action` | dispatch, accept a result, time out, prune, follow up, recover after startup | answers before, during and after every other step; three pruning threads; restart | a request is settled once; no capability and no action stays taken without a request |
| Autonomous runs (`service/autonomous_run.py`, `service/input/cycle.py`) | stored run records, one execution lock per run | step, take in a result, mark an expiry, pause, resume, cancel, start, replace, link to commitments, recover | records read, held over LLM calls and written back, by writers some of which take no lock | no wait is orphaned unless a whole record was written back over its end, no step during a rest, no two requests out, pauses are given back |
| Event streams (`event_stream.py`, `service/config/stream.py`) | sessions by id, what each said in its hello | connect, hello, send, remove, close all | a hello that replaces sessions and may then be refused; sends that fail; sockets closed outside the lock | one session per client, a source id has one owner |
| Speech output (`service/speech_output.py`, `tts/runtime.py`) | bounded queue, one event per delivery, one worker | choose, reserve, broadcast, activate, synthesize, send, close | the text has to precede the audio; queue full; reconnection; shutdown | nobody hears twice or before the text; the worker never waits for ever |
| Audio input (`audio/runtime.py`) | lease, Web input session, enrollment, queue, pause and block, two generations | connect, start, stop, utter, time out, enroll, forget, reload, recognise, deliver | seven ways to end a lease on five threads; recognition outside the lock | samples and conversations stay apart; only the active connection feeds audio; the pause is exact |
| Memory worker (`service/memory.py`) | persisted jobs and an in-memory queue | persist, queue, run, stop, restore | several threads that make jobs, end of the process inside a job, slow stop, deletion meanwhile | no job lost, in order unless overtaken while made, effects again only after a cut |
| Memory units (`memory/actions.py`, `memory/consolidator.py`, `memory/correction.py`, `memory/reflection/`, `store/memory_links.py`) | records of a compare key, their revisions, jobs with what was read | resolve candidates, persist a turn, correct, reflect, end a run | decided on lists read before LLM calls, written back whole, by four writers without a lock | what is gone stays gone, the newest change is the one corrected, nothing is remembered twice |
| Visual daily worker (`service/visual_daily.py`, `store/visual.py`) | records, digests, promotion results | digest, promote, store the result | end of the process in between, cycles over midnight, cut lists | each day digested and promoted once |
| Periodic thought and pending intents (`service/spontaneous/wake.py`, `service/spontaneous/pending_intent.py`, `service/input/wake_pipeline.py`) | interval start, retry time, candidates, speech history | find due, run a thought, take up an intent, record, prune, reset | state read before LLM calls and used after; resets in between | thoughts keep their distance, intents rest, nothing is said twice |
| Speech endpoints (`tts/endpoint_health.py`, `tts/provider.py`), recognition (`audio/segmenter.py`, `audio/models.py`, `audio/amivoice.py`) | caches, models | probe, synthesize, recognise | slow or failing services | - |
| Log stream (`log_stream.py`) | sessions, bounded buffer | append, send | - | - |
| Store (`store/`) | SQLite, JSON files | one transaction per call | - | atomic calls |
| Input pipeline, recall, LLM, configuration, HTTP, world state | mostly none of their own | prompts, ranking, validation | text, not order | - |

How they meet: every judgement cycle (conversation, manual wake, result of a
capability, periodic thought, due run) holds the coordinator while it runs. A cycle
may dispatch a capability request; the result is accepted on an HTTP thread, which
starts another thread that waits for the coordinator. The scheduler of the
autonomous runs also prunes expired requests, once a second, and marks the runs
that waited for them. Conversations pause and resume runs. A cycle ends by writing its
records and a memory job, and the end of a run writes another, also from the cancel API's thread; one
worker takes them from a queue. What a cycle saw is digested on a later day. What a cycle says goes to the event streams as text and, through the speech
queue, as audio. What a microphone hears becomes a conversation, and the audio runtime is told
by the event streams when the owner of its input has gone.

## Modules

| Module | Models | Kind |
|---|---|---|
| `SerialCycles` | what the coordinator promises: a queue of threads and one that runs | abstract specification |
| `CycleCoordinator` | `service/cycle_coordinator.py` | detailed, implements `SerialCycles` |
| `RequestLifecycle` | what the capability layer promises: a request is issued once and settled once | abstract specification |
| `CapabilityRequests` | dispatch, results, timeouts, prune, restart | detailed, implements `RequestLifecycle` |
| `AutonomousRun` | the run record and all its writers | detailed; relies on `RequestLifecycle` and on `SerialCycles` |
| `EventStream` | `event_stream.py` and the threads that read the WebSockets | component; its steps are steps of the two below |
| `SpeechOutput` | `service/speech_output.py`, `tts/runtime.py` | composed with `EventStream` |
| `AudioInput` | `audio/runtime.py` | composed with `EventStream` |
| `MemoryPostprocess` | `service/memory.py`, and the threads that make its jobs | detailed; jobs come from cycles and from outside them |
| `MemoryUnits` | `memory/`: what candidates, corrections and reflections do to the units of a key | detailed; the worker's queue is that of `MemoryPostprocess` |
| `VisualDaily` | `service/visual_daily.py`, `store/visual.py` | detailed |
| `Wake` | `service/spontaneous/wake.py`, `pending_intent.py`, `service/input/wake_pipeline.py` | detailed; relies on `SerialCycles` |
| `MC...` | one instance each for TLC | |
| `..._proofs` | theorems about `CycleCoordinator`, `CapabilityRequests`, `AutonomousRun`, `SpeechOutput` (with `EventStream`), `AudioInput`, `MemoryUnits` and `Wake`; those about `MemoryPostprocess` and `VisualDaily` share `BackgroundWorkers_proofs` | TLAPS |

The definitions named `...Unlocked`, `...AtOnce`, `MustWaitInAnyOrder` and so on,
each introduced as "A faulty ...", are not part of any specification. They are
plausible bugs; replacing the definition that follows by one of them must make the
property named in `PROJECT.json` fail, which shows that the property has teeth.
Variables marked "history" in the modules are not in the code either: they record what happened, for a
property to speak about it, and no guard reads them.

### CycleCoordinator

The variables are the fields of the class; `ticket` is the local variable of
`enter_foreground` and `state` says whether a thread is outside, in the condition
variable's wait set (`asleep`), notified but without the lock (`woken`), or running
its cycle. One action is one critical section. `enter_foreground` has three:
`EnterForeground` up to the first `wait()` or out of the loop, `SleepAgain` for one
more turn of the loop, `StartForeground` out of it. The call of
`try_enter_background` that returns `False` changes nothing and is left out.

Refinement: `queue` is the waiting threads by ticket (`Arrivals`), `running` the
thread in its cycle. `notify_all`, `SleepAgain` and the sleep itself are stutters.

### CapabilityRequests

`pending` and `response` are `_pending_capability_requests`; `busyReq` and `busyAct`
the busy fields of `_capability_runtime_state`; `action` the `ongoing_action` row, with
`by` standing for the request whose timeout set its `expires_at`. `lapsed` is the set
of requests whose `expires_at` has passed, in place of a clock. `disp.pc` is the
place in `_dispatch_capability_request`:

    check -> begin -> register -> send -> busy -> idle      (asynchronous, a client)
                                       -> busy -> wait      (synchronous)
                               -> busy -> launch -> idle    (the runner)

The dispatcher is the one judgement cycle that may run (`CycleCoordinator`), so there
is one `disp`. Each prune has a critical section that takes expired requests out of
the table (`TakeOutExpired`) and a clean-up for each of them afterwards (`CleanUp`); the
requests in between are in `owed`, by the thread that took them. Any number of
results may arrive for a client's request, at any time after it was sent; the
runner submits one. `outcome` is a history variable, and the refinement mapping to
`RequestLifecycle`.

Every reason to refuse a dispatch (paused, temporarily unavailable, no such target,
withheld by the review before sending) is the action `Refuse`. Whether the runner is
chosen at random or by rule is the decision's business: all choices are open. A send is
accepted or refused; an accepted one may reach nobody, which is what `EventStream` allows
(a send to a socket that was closed is dropped without an error).

### AutonomousRun

`run` is the store. `cyc` is the judgement cycle that runs and where it is; `held` is the
record it is about to write, computed from the one it read. A conversation's list of
runs to pause, cancel or resume is read at once and written one by one (`todo`); the
APIs (`api`) and the mark of an expired wait (`mark`) also read and write in two steps.
The time used by a result or a mark is taken before the thread waits for its lock,
so it is any time up to now. `lock` is the run's execution lock. A record that ends a run
is written up to three times, because `_finalize_autonomous_run_commitments` and the
consolidation after it store it again; `more` counts those writes. A cycle that has started a run ends with the link of that run to the
commitments its turn left (`LinkRead`, `LinkWrite`: `_link_autonomous_run_source_commitments`), which holds no lock and writes the
whole record it read; it is skipped when no commitment came of the turn. `revived` is history: the requests whose wait it wrote back after they had
been settled.

    guard -> think -> dispatch -> send -> read -> write       (_execute_autonomous_run_step)
    take -> put -> guard ...                                  (result cycle)
    begin -> decide -> (guard ... ) -> (link -> linking ->) ending -> end     (conversation)
    decide -> (guard ... ) -> (link -> linking ->) over                       (thought, cancel_all)

Coarser than the code: the one retry after a withheld pre-send check is a repetition
of steps already there and is left out; replacing other runs when one is started is
one step, under all their locks (what can come between is the API's write, which may
come before or after as well); one API call and one mark are under way at a time;
lists are never longer than their limits (50, 200, 3).
Which commitments, events and summaries a run has is left out here, and so is its `ongoing_action`.

### EventStream

`table` is `EventStreamRegistry._sessions`; a hello is its client, the client's kind, the events it
subscribes to and the source ids it claims. `socket` says what a send does to it: it
succeeds, raises (`broken`) or is dropped without an error (`closed`). `thread` is where the
connection's handler is. Each critical section of the registry is one action; what the
code does outside its lock - closing the sockets of replaced sessions (`CloseReplaced`), looking
whether the client has another session (`CheckClientGone`), telling the audio runtime that it
has not (`TellClientGone`), sending (`SendTo`) - is an action of its own. `HelloRefused` takes the client's
other sessions out before it refuses, as the code does.
The module has no `Next` of its own users: `SpeechOutput` and `AudioInput` interleave `StreamNext` with
their actions, send through `SendTo`, and check the registry's properties.

### SpeechOutput

A delivery is named by the cycle that speaks. `speaking` is where that cycle is in `_emit_assistant_message_with_audio`:

    thinking -> chosen -> reserved -> sending -> spoken

`Choose` reads the settings and the subscribers, `Reserve` puts the delivery into the bounded queue,
`Broadcast` takes the snapshot of sessions the text goes to, `SendMessage` sends to one of
them, `Activate` sets the delivery's event. The worker (`worker`, `hand`) waits for that event with a poll of
the stop flag, looks again for subscribers, synthesizes, takes its snapshot (`listeners`) and sends to one
session a step. `Close`, `Drain`, `EndWorker` are the steps of `TtsRuntime.close`; the cycles go on meanwhile.
A synthesis succeeds or fails with the same messages to the same clients, so it is one step. Fields
of a speech that a caller must supply are there (the `ValueError`s of `speech_output.py:147-150` are not
modelled), and `cancel` of one reservation has no caller.

### AudioInput

`mic`, `client`, `lease` belong to the microphone connections; `active`, `leases`, `settings`, `session`,
`enrollment`, `paused`, `blocked` and `waiting` are the runtime's fields, under its one lock. Every
critical section is an action, and the helpers that several of them call
(`DiscardAudio`, `RefreshPause`, `ReleaseActive`, `CancelEnrollment`) are parts of those actions. `fresh` stands
for the comparison of the work and settings generations with the utterance in the worker's hand: every change of
either goes through `_discard_audio_locked`.

    idle -> taken -> enrolling -> finishing -> idle
                  -> recognising -> (accepted ->) finishing

`WorkerChoose` reads the mode without the lock. `EventClientGone` is the rest of `TellClientGone`.
Simplified: sends to microphone connections succeed; a missing key counts as recognition
switched off; the read of the settings and their comparison are one step; one call of `unregister_speaker` at a
time. Left out: the console's device catalog and a mismatch with it, a missing model runtime, wake words, the acknowledgement
of heartbeats, publication of the state, `close`.

### MemoryPostprocess

`row` is the table of jobs, `queue` the in-memory queue with the `None` of `stop` as 0, `worker` and `hand` the thread. `making` says how far the
thread that makes a job has come: it has taken the time that becomes `queued_at` (`BeginJob`), persisted the job after the LLM consolidated the turn, or
left none (`PersistJob`), and put it (`PutJob`). Any number of jobs are made at once: a cycle makes one for its turn, and
`_consolidate_autonomous_run_terminal` one for the end of a run, which the cancel API reaches on an HTTP thread, outside the coordinator
(`service/autonomous_run.py:226`, 2870). The times are a constant (`QueuedAt`) and begin in their order, since the clock does not go back; they may be
equal, as for the runs that one conversation cancels. Jobs of one time may come in any order at a restart (`InOrder`), since every upsert of a row gives it a new
rowid. `overtaken` is history: the jobs still being made when one with a later time was put.
`WorkerRead`, `WorkerStart`, `WorkerRun`, `WorkerFinish` are the store's and
the consolidator's calls in `_run_memory_postprocess_job`; `WorkerDies` is a store error that nothing catches.
`EndProcess` may come between any two steps; `StartProcess` rebuilds the queue from the rows, before any request is
served. What a job does to the memory is one step, and the updates of its trace are left out.

### MemoryUnits

The life of one compare key: a candidate is only ever compared with units of the same type, scope, subject and
predicate. `units` are the stored records, `log` the revisions, one entry for each decision, with the snapshots before and
after. `Resolutions` is `resolve_memory_actions`: which branch a candidate takes, and which units it writes. Its helpers have
the names of the code's. What the LLM proposes is a choice among `Candidates`.

    finished -> resolving -> persisted -> job       a turn (Prepare, Resolve, PersistTurn, QueueJob)
    corrected -> summaries -> dormant               the worker's job (CorrectFirst, Reflect..., PersistReflection)
    read                                            the end of a run (EndRead, EndPersist)

Each of these reads, waits for an LLM, and writes whole records in one transaction; nothing is locked in between, so
the actions interleave. Turns are on several threads since a run's end is also consolidated outside its cycle. A turn's
candidates are resolved one after the other against the store as it is, which none of them has changed. `at` and `blind` of
a decision are history: how much of the log had been written when it was decided, and whether it saw all units. A
correction names the revision it corrects by its place in the log.

Confidence, salience and texts are left out: where they order units the order is a choice, and a candidate below the
threshold of a write is one the LLM did not propose. A time is the number of the turn or of the run's end. `AgainstPrimary` has no branch for a refinement by
meaning: see the observations. The visual digests' promotion, which resolves and writes as a turn does, is left out, and so are
the links and the index, which follow the units.

### VisualDaily

Days are numbered and records of a day counted. `BeginRound` and `Digest` are the first loop of a round,
`BeginPromotions` and `NextPromotion` the second; both reach `Promote` and `StoreResult`. `Fault` is an exception, which
ends the round, or the end of the process, which also ends the cycle that observes; the restart is
immediate. One memory set; a cycle that runs over midnight ends before the next midnight.

### Wake

`since` and `retry` are `interval_started_at` and `retry_after`, `pool` the candidates by their dedupe key, `spoken` the
speech history. `FindDue` is the scheduler's look at the clock, `StartScheduled` its cycle's turn,
`StartByApi` the two APIs. A cycle runs

    begun -> selected -> observed -> deciding -> recording

with an LLM, and so a failure, between any two. Its `started` is the time it uses throughout. `ChangeSettings`,
`ClearLayers` and `SyncPolicy` are the separate writes of a change of settings, which no cycle holds off; one
change is under way at a time. Simplified: one memory set; the read of the pool and the choice of the LLM are one step; a
`retry_after` that has passed is kept and compared, not cleared; the interval's length does not change; the
mode that a cycle goes by is the one `FindDue` saw. Left out: observations and visual signals, periodic topics, the count of
user-facing cycles (above zero only inside cycles that exclude a thought), traces and events.

## Runs

| Run | Instance | Properties | Shows |
|---|---|---|---|
| `coordinator` | 3 foreground, 2 background threads, 6 tickets | `NoLostWakeup` `ForegroundFirst` `ForegroundServed` `ImplementsSerialCycles` | the coordinator is a FIFO lock that background cycles do not overtake |
| `requests` | a client's capability and the runner, 2 requests, 2 restarts | `ActionHasRequest` `OneRequestPerCapability` `SyncAnswerKept` `BusyIsCleared` `ImplementsRequestLifecycle` `RequestsSettle` `RunnerFreed` | requests are settled once, and in the end; no action waits for nothing; never two requests out for a capability; a capability is left busy for a settled request only if the client answered before busy was set |
| `run_steps` | 1 run, 2 requests, clock to 3, 1 restart, cancel API | `WaitIsAnswerable` `OneOpenRequestPerRun` `RestsAfterLimit` `PausesAreGivenBack` `WaitEnds` | waits end unless the link of commitments wrote them back, rests are kept, pauses are given back |
| `run_api` | 1 run, 1 request, clock to 2, 1 restart, all APIs | `RestingIsNotDue` | no API wakes a run out of its rest |
| `speech` | 2 cycles, 2 connections, 2 clients that claim one source, a queue of 1 | `SourcesUnique` `AudioFollowsMessage` `HeardOnce` `WillBeActivated` `WorkerNotStranded` | text before audio, once to each client, no worker left waiting, through reconnections and shutdown |
| `audio` | 1 event stream connection, a local and a Web microphone, 2 leases, 2 enrollments, a queue of 1, 2 samples | `LeaseIsActive` `SamplesAreOwn` `EnrollmentIsPrivate` `PauseIsExact` | who feeds audio, what it is taken for, and when the source pauses |
| `memory` | 3 jobs made at once, 2 with one time, 2 of a deleted memory set, 2 ends of the process | `JobsNotLost` `FinishInOrder` `EffectsOncePerCut` `DeletedNotRun` `JobsFinish` | no job is lost, out of order unless overtaken while it was made, repeated without need, or left over |
| `memory_units` | 2 units, 2 turns on 2 threads with 2 candidates and 1 correction each, lists of 1, 1 end of a run, 1 restart; facts, commitments, summaries | `DeadStayDead` `CorrectsTheNewest` `MemoriesDistinct` | what is gone stays gone, the newest change is the one corrected, nothing is remembered twice, unless the list was stale or cut |
| `visual` | 4 days, 2 records a day, lists of 2, 2 faults | `PromotedOncePerCut` `MissesOnlyLate` `DigestsSettle` | digests are complete but for late records, and promoted once |
| `wake` | 1 intent, interval 2, window 3, rest 2 after 2, expiry 3, clock to 5 | `CandidatesRest` `ThoughtsSpaced` `SpokenOnceAWhile` | distance between thoughts, rest of intents, nothing said twice |
| `run_cancel` | 1 run, cancel API | `CancelIsFinal` - violated | see Findings |
| `visual_starvation` | 4 days, 1 record a day, lists of 2, no faults | `EveryDayDigested` - violated | see Findings |

### Bounds

- `coordinator`, `MaxTickets = 6`: three threads can each ask twice, so a thread asks again while
  others still wait, which is where order and counters can go wrong. Deadlock is not
  checked because the system stops when the tickets are used up.
- `requests`, `MaxRequests = 2`: one request answered late and one that took its place, or that a follow-up sends.
  `MaxCrashes = 2`: every step can be the last before a restart, answers of the old process reach the new one, and
  the recovery can be cut short too. Deadlock is not checked: a client may
  never answer and the requests are used up.
- `run_steps`, `run_api`: `StepLimit = 2` stands for 20 and `Cooldown = 2` ticks for five minutes: what matters is that
  a count below the limit exists and that a rest lasts longer than one tick.
  `MaxTime` reaches the end of a rest that began at the first tick. With two requests a run may send its second
  while the first is still on its way. The replacement of one run by another (`StartRun` with `replaced` not empty) is
  modelled but takes two runs, an instance too large to check.
- `speech`: two connections let a client reconnect while its old session is still sent to, and two clients claim the same source.
  With a queue of one it is full whenever something is in it. Two cycles: one delivery is
  waited for while the other is reserved. Connections and cycles are symmetric; the run checks
  invariants only. Deadlock is not checked: the service shuts down.
- `audio`: two microphones, so that the active one changes; a queue of one is full with one utterance; two leases
  and two enrollments, so that what was captured in the first meets the second; `Required = 2`, so that there is a count below
  it. Deadlock is not checked: leases and enrollments are used up.
- `memory`: three jobs, so that two wait in order behind one that runs; the first may be overtaken by the others while it is made, and those two have one
  time; two are of the deleted memory set, one is not. Two ends of the
  process: the second may cut off the recovery of the first. Deadlock is not checked: everything may be done.
- `memory_units`: two turns, so that one decides while the other writes, and the second corrects what the first did and the reflection put to rest.
  Two units: one and its replacement, or its double. `CompareLimit = 1` of 5 makes a list that hides a unit as soon as there are two. Candidates
  are resolved until the log has three entries; corrections, reflections and the end of a run add to it. The candidates are one for each way of
  resolving. Facts, commitments and summaries: one type for each rule of coexistence and for each writer. Threads are symmetric. Deadlock is not
  checked: turns are used up.
- `visual`: four days are two more than `Limit`, so that lists are really cut; two records a day, so that a day is
  digested with one and gets the other late; two faults, one for each loop.
- `wake`: the clock passes two intervals, one window, a rest and an expiry. One intent is enough, since nothing relates two
  candidates; `Limit = 2` has a count below it. The module proves the same properties for all values.

### Fairness

- Coordinator: a notified thread gets the lock back, and a cycle that runs ends (LLM
  calls and waits have timeouts; the leave is in a `finally`). Nothing is assumed of
  threads that are outside.
- Requests: the dispatching thread is not stopped between two steps, time passes, and
  the scheduler's loop (`_background_autonomous_run_loop`) prunes again and again. Clients
  owe nothing.
- Runs: a cycle that has begun goes on, the link of commitments included; expired requests are pruned; the mark of an
  expiry gets its run's lock (`SF`: the lock is free again and again, between steps) and
  the thread of an answer gets its turn among the cycles (`SF`, justified by
  `ForegroundServed` of the coordinator). Nothing is assumed of clients, users, the
  decisions of the LLM or of the scheduler coming to a run.
- Memory: the worker's thread goes on while it lives; a thread that has persisted its job puts it; a process asked to
  stop ends (`stop` joins the worker for five seconds at most) and is started again. Nothing is assumed of what comes before that, or of the store,
  so `JobsFinish` excepts the death of the worker.
- Visual: the worker's thread goes on; it wakes every hour, and after an exception. Nothing is assumed of cycles.
- Speech, audio and thought are checked for safety only: clients may break or fall silent at any
  time, the LLM may fail every time, and nothing there is promised to happen.

## Findings

Two places where the documents say more than the code does. Each is a run that TLC
must find violated; the line numbers and quotations are in `PROJECT.json`.

1. **Cancelled is not final** (`run_cancel`). The cancel API takes no lock; a step that read the record
   before writes it back as live.
2. **Later days are never digested** (`visual_starvation`). A round asks for the seven oldest past days with
   records, digested or not, so that the eighth day and all after it are never reached.

Observations of the same kind that the models reproduce and no run is spent on:

- The link of a new run to the commitments of its turn writes back the whole record it read, without the run's lock
  (`service/autonomous_run.py:2477`, 2497). When the mark of an expiry has been written in between, the run waits again for a request that is
  settled, and only a cancellation or a restart ends that wait; a cancellation written in between is undone. `WaitIsAnswerable` and
  `WaitEnds` except exactly the waits that came back so (`revived`); without the exception TLC finds both violated.
- A run that is cancelled over the API leaves its memory job from an HTTP thread, while a cycle makes its own
  (`service/autonomous_run.py:2870`): the jobs are put, and the memory of the two turns is consolidated, in the order in which their LLM calls end,
  not in that of `queued_at`. `FinishInOrder` excepts the job that was overtaken so; without the exception TLC finds it violated.
- A client that answers between the send and the setting of busy leaves its capability busy for a request that is already answered, and
  nothing clears it until the process restarts (`service/capability.py:289`, 293, 352;
  `docs/design/api/列挙とinspection.md:473` has busy mean that a result is awaited). `BusyIsCleared` says that this is the
  only way to it; for the runner, which sets busy first, `RunnerFreed` holds.
- The revision offered for correction is the one with the latest `occurred_at`, not the last one written (`store/file_store.py:206-213`: "最新revisionだけを候補にする。"). A
  reflection, or an earlier turn, that runs late stamps what it writes with an older time; a correction then restores what was before the offered
  revision and undoes the later change as well. `CorrectsTheNewest` excepts exactly that.
- A whole record read before an LLM call is written over what was written meanwhile: the reflection brings a unit back that a turn revoked, a
  correction undoes its own turn's candidates, and `before_snapshot` of a revision is then not the record it replaced
  (`store/memory_links.py:213`). `DeadStayDead` and `MemoriesDistinct` except what became stale.
- Correcting a revoke that came with a replacement restores the unit and leaves the replacement alive (`memory/correction.py:261`).
- A compare list of five hides an equal unit beyond it, which is then made again (`store/file_store.py:1109`).
- The refinement by meaning (`memory/actions.py:272-292`) is never reached: it asks for an interpretation with another object, and such a
  candidate has become a parallel unit, or has superseded the primary match, before.

- Pausing a paused run overwrites what it is to resume to; a later resume makes the run active while its request is
  out (`service/autonomous_run.py:2370`; `docs/design/api/状態と設定.md:119` has the resume restore the wait).
- A result cycle that starts an autonomous run, or fails after a dispatch, finishes the `ongoing_action` that its
  follow-up request continues (`service/spontaneous/capability_cycle.py:435`).
- A source that was paused because the recognition service refused the key resumes at once: the worker's `finally` recomputes
  the pause (`audio/runtime.py:1052`, after 1211; `docs/design/audio/音声入力と話者識別.md:362-364` has it
  stay paused until the settings are saved).
- A thought whose selection or entry check fails is due again at once, without a wait
  (`service/input/wake_pipeline.py:303`; `docs/design/api/状態と設定.md:319`), and a scheduler that is refused its turn
  looks again without a wait as long as a foreground cycle runs (`service/spontaneous/wake.py:374-397`).
- A reset of the settings during a thought starts the interval anew, and the thought then moves its start back to the time
  it began itself (`service/spontaneous/wake.py:525`; `docs/design/api/状態と設定.md:312`).

The lock-free read and write of the pause API has more consequences that the model
shows when `run_steps` is given all APIs in place of cancel alone, and that are why it is
not, and why the theorems about its properties have the hypothesis `OnlyCancel`: a run paused from a record read before its result was taken in waits, once resumed,
for a request that is settled (`WaitIsAnswerable` and `WaitEnds` fail), and one paused from a record
read before its last step forgets its rest (`RestsAfterLimit` fails). A run resumed from a record read before its step sent a request becomes active and sends a second one
(`OneOpenRequestPerRun` fails), and the mark of an expiry, read while a conversation had the run paused and written after the
conversation gave it back, leaves it paused (`PausesAreGivenBack` fails, after a pause and a resume of the run while it waits).

## Proofs

Each proof module takes the safety properties of one module (`BackgroundWorkers_proofs`: of both background workers) to all values of its
constants. The assumptions are the named `ASSUME`s of the modules: what the constants are (naturals, disjoint sets, values that mark
"nothing"), never how the system behaves. Four theorems about `AutonomousRun` have one more hypothesis, `OnlyCancel`: that of the APIs
clients call cancel alone. It is what the run that checks their properties assumes too, and it cannot be dropped: with the pause and
resume APIs TLC finds each of the four violated (see Findings). In each module, an inductive invariant `IInv` is the conjunction of named parts; there is a lemma for what every
action, or family of actions, does to them; `Invariance` joins the lemmas, and the theorems follow.

| Module | Theorem | States |
|---|---|---|
| `CycleCoordinator_proofs` (`ThreadAssumption`) | `TypeCorrect` | `Spec => []TypeOK` |
| | `Exclusion` | `Spec => []MutualExclusion` |
| | `NoWakeupLost` | `Spec => []NoLostWakeup` |
| | `ForegroundIsFirst` | `Spec => ForegroundFirst` |
| | `CounterIsExact` | `Spec => []WaitersCounted` |
| | `CoordinatorRefines` | `Spec => ImplementsSerialCycles` |
| `CapabilityRequests_proofs` (`CapabilityAssumption`) | `TypeCorrect` | `Spec => []TypeOK` |
| | `SyncAnswer` | `Spec => []SyncAnswerKept` |
| | `RequestsRefine` | `Spec => ImplementsRequestLifecycle` |
| | `ActionAwaitsRequest`, `OneRequestOut` | `Spec => []ActionHasRequest`, `[]OneRequestPerCapability` |
| | `SettlingFreesCapability` | `Spec => BusyIsCleared` |
| `AutonomousRun_proofs` (`RunAssumption`) | `TypeCorrect`, `RestingRunsAreNotDue` | `Spec => []TypeOK`, `[]RestingIsNotDue` |
| | `WaitsAreAnswerable` | `OnlyCancel /\ Spec => []WaitIsAnswerable` |
| | `OneOpenRequest` | `OnlyCancel /\ Spec => []OneOpenRequestPerRun` |
| | `LimitIsKept`, `PausesReturned` | `OnlyCancel /\ Spec => RestsAfterLimit`, `PausesAreGivenBack` |
| `SpeechOutput_proofs` (`HellosAssumption`, `SpeechAssumption`) | `TypeCorrect` | `Spec => []TypeOK` |
| | `OneSession`, `SourcesAreUnique` | `Spec => []OneSessionPerClient`, `[]SourcesUnique` |
| | `AudioIsSecond`, `SpeechIsHeardOnce` | `Spec => []AudioFollowsMessage`, `[]HeardOnce` |
| | `DeliveriesAreActivated`, `WorkerIsNotStranded` | `Spec => []WillBeActivated`, `[]WorkerNotStranded` |
| `AudioInput_proofs` (`HellosAssumption`, `AudioAssumption`) | `TypeCorrect` | `Spec => []TypeOK` |
| | `OnlyTheActiveFeeds`, `PauseStaysExact` | `Spec => []LeaseIsActive`, `[]PauseIsExact` |
| | `SamplesStayOwn`, `EnrollmentStaysPrivate` | `Spec => []SamplesAreOwn`, `[]EnrollmentIsPrivate` |
| `BackgroundWorkers_proofs` (`PostprocessAssumption`, `VisualAssumption`) | `TypeCorrect` | `Spec => []TypeOK` |
| | `NoJobIsLost`, `JobsFinishInOrder` | `Spec => []JobsNotLost`, `[]FinishInOrder` |
| | `EffectsAreOncePerCut`, `DeletedJobsAreNotRun` | `Spec => []EffectsOncePerCut`, `DeletedNotRun` |
| | `DailyTypeCorrect` | `DailySpec => []DailyTypeOK` |
| | `PromotionsAreOncePerCut`, `DigestsMissOnlyLate` | `DailySpec => []PromotedOncePerCut`, `[]MissesOnlyLate` |
| `MemoryUnits_proofs` (`MemoryAssumption`) | `TypeCorrect` | `Spec => []TypeOK` |
| | `DeadStayGone`, `CorrectionsAreNewest` | `Spec => []DeadStayDead`, `[]CorrectsTheNewest` |
| | `MemoriesStayDistinct` | `Spec => []MemoriesDistinct` |
| `Wake_proofs` (`WakeAssumption`) | `TypeCorrect` | `Spec => []TypeOK` |
| | `IntentsRest` | `Spec => []CandidatesRest` |
| | `ThoughtsKeepDistance`, `SaidOnceAWhile` | `Spec => ThoughtsSpaced`, `SpokenOnceAWhile` |

Why the invariants are what they are:

**CycleCoordinator.** That the thread with the serving ticket is not asleep says
nothing without knowing which tickets are out. `IInv` adds `ActiveMeansRunning` (the flag
is set exactly while a cycle runs), `Account` (tickets handed out and not passed are the waiters, and the
running foreground cycle) and `Ordered` (waiting threads hold distinct tickets between the two counters).
`Account` is what makes a background cycle's test of
`waiters` worth anything: with no waiters and nobody running, the next ticket is the one served, so
the next thread to ask is served at once. `CounterIsExact` relates the counter to a cardinality and
is proved separately, on top of `IInv`, by adding and removing one element of a finite set.
Both together give the refinement of `SerialCycles`: as many threads wait as there are tickets out, with distinct tickets, so the tickets are
consecutive, and the thread at place `i` of the queue holds the `i`-th of them (`QueuedByTicket`, by a bijection). `QueueInv` says so of every
state; each step is then a step on the two ends of the queue.

**CapabilityRequests.** That a step settles only open requests rests on what the table says: an entry is open (`Table`). To keep that, and an
answer that was taken over, no prune may take out the request a cycle waits for. The code has no lock against it; what
holds it off is that the request has not expired while its dispatcher has it in hand (`InHand`, and the guard of `Lapse`),
that only such requests get a response (`Kept`), and that a synchronous entry is always the dispatcher's (`Table`).
`Numbered` says that a request id is fresh when it is issued. `TakingOut` is the part that the three pruners share, and `WaitEnds`
that of the two ends of a synchronous wait.
A second invariant, `BInv`, is proved on top of it. `Named` says whose request the ongoing action waits for, so that only what settles that
request ends the wait (`Awaited`). `Holders` is the argument for one request per capability: every request that is out, but the one in
hand, has its capability busy, and the one in hand was checked against them when none held its capability; a late result or a clean-up
clears only its own capability (`Clearing`), and what is cleaned up after is settled already (`Apart`). The runner, whose busy is set
before it starts, needs `HandOf` and `RunnerOnce`. That settling frees a capability follows: what leaves the table goes to a pruner
that owes the clean-up, or the same step clears busy.

**AutonomousRun.** A run's record is read, kept in somebody's hands (a step's, an API call's, a mark's, a conversation's list) and written
back as a whole, so an invariant of the stored records has to hold of every record in hand, and of what a conversation will make of it
when it gives it back. The first invariant, `IInv`, does this for the rest: a record that asks for a rest is not due before its end
(`RestsAt`; `Timed` for one with a timer, which may also be paused); it holds whatever the APIs do, because each writer computes the schedule
from the record it writes.
The second, `CInv`, is about requests and needs more than that, since it relates what is written to what is true meanwhile. A request
that is out belongs to a run that waits for it, to one that has ended, or to the step that is about to write the wait (`Owned`,
`Asking`); there is one per run (`OneOut`); a waiting run's request is out, or its answer or expiry is in hand (`Awaited`).
A wait that the link wrote back (`revived`) is out of that claim. What lets each of these survive the other writers is that the run's execution lock keeps the mark and the cycle off the same record (`Locks`), that a
conversation, which takes no lock, gives its list only to runs that have nothing out (`Given`) while a mark is only about one that
waits, and that what is left to come between a read and a write, a cancellation, only ends a run (`RecordsSound`). The link holds no lock: what keeps its write harmless but for `revived` is
that the only cycle is at its end, so that no request is sent meanwhile: if one of its run is out, the record in hand waits for it or has ended (`Linking`). `Limits` carries the end of
the rest along in every record that may be written, and `Pauses` says that the list a conversation will give back covers
what conversations have paused. Here the pause and resume APIs would break the argument: they write, without the lock, a status that was
true when they read it. `RunsWritten`, `Writes` and `GoesOn` are the shared lemmas: what it takes for a record written by a cycle to
keep the invariant; with them each action's lemma says only which records it writes. TLC checked both invariants on
small instances before they were proved. The proof of `TypeCorrect` showed that the cases of `Stepped` overlapped, which
`CASE` leaves undetermined; they are tried in the code's order now.

**SpeechOutput.** The registry's two properties are inductive with its types; a hello that is refused harms neither, since it only takes
sessions out (`Removal`, `Acceptance`). "Heard once" needs the whole way of a delivery: one not yet reserved is nowhere
(`Unreserved`), a queued one is queued once and neither in hand nor heard (`QueuedOnce`), one in hand has not been heard before it is sent
(`Unheard`), and the snapshot holds one session per client, none of which has heard it (`Audience`, from `OneSessionPerClient`
at the time of the snapshot). "Text first" needs `Activated` (an event is set by its cycle, or by the shutdown, which also cancels) and
`Shown`.

**AudioInput.** Samples are an enrollment's own because everything that waits, and the utterance in hand as long as nothing was
discarded, was captured in the mode that is on (`Captured`): every change of mode discards. That the worker chose the way of an utterance
without the lock does no harm, because what it chose by then is either still so or the utterance is no longer current
(`Conversational`). `LeaseIsActive` and `PauseIsExact` are inductive with the types and `Captured`'s bound on the queue.

**MemoryPostprocess.** Order and single effects through restarts need: whatever comes later in the queue may follow what is before it and what is in the worker's hand
(`Order`), and a job in the making may follow all of these (`Fresh`), where `MayFollow` is a later time or having been overtaken; a job is
queued once and not while in hand (`Once`), which the times, not being distinct, no longer give; what is queued, in hand or finished was put (`Known`); a
row that is unfinished is queued, in hand or about to be put (`Kept`); a job that may still be run owes no effect (`Owed`); what is not finished may
follow all that is (`FinishedFirst`). `MayFollow` is not transitive, so all pairs are stated and not only neighbours. `Down` says what an
ended process leaves and `Gone` that a deleted row stays away.

**MemoryUnits.** The store says what the log says (`AsOf`): a unit is what the last decision that touched it left. Everything else is about decisions
that are not applied yet. Each was made from the units as they were when the log had the length `at` (`InHand`, `Seen`), so one that
is applied with nothing in between starts from what is stored; if it also saw the whole list, it keeps memories distinct (`DistinctIn`), and
if it does not, it is an excuse from then on, since the log never loses an entry. `DeadIn` and `CorrectsIn` are `DeadStayDead` and `CorrectsTheNewest` with
the log as a parameter, so that one lemma appends decisions to it; `JobsAsk` says that a job's targets were the newest by the time of its turn, which
`CorrectsIn` then needs. `IdsIssued` makes a new unit's id one that no log entry has. The case split over `Resolutions` is done once, for what a
resolution may write; the actions only cite it.

**VisualDaily.** `DailyInv` is the invariant; the proof module extends both workers' modules, which is why `VisualDaily` has names of its own
(`DailySpec`, `DailyInit`, ...) and why this one is not called `IInv`. A digest that may still be promoted was promoted only when cut off (`PromotionsOwed`); both loops have past days only, the second
digested ones (`Rounds`), and what is in hand is unsettled (`InHand`). `OnlyPastDigested` makes every record written
after a digest a late one.

**Wake.** `Resting` ties a candidate's fields to its history: it is not offered before its rest ends, and a renewal that forgets the
cooldown comes after it. `Waited` carries the second look at the clock to the step that uses the interval up, over a reset of the
timers in between: it speaks of thoughts, which no reset forgets. `MaySpeak` carries the look at the speech history to the record of the
speech; no other cycle runs meanwhile.

Every invariant and action property that a passing run checks, and both refinements, are thus theorems. Only model-checked is the liveness, which needs fairness and is out
of the prover's reach: `ForegroundServed`, `RequestsSettle`, `RunnerFreed`, `WaitEnds`, `JobsFinish` and `DigestsSettle`.

## Not modelled

- Store, and errors of the store other than those named above: every call is one transaction and the other modules take it as one step.
- Input pipeline, LLM adapters, recall, prompts: the bulk of the code by lines, and a function of text and data. What
  it decides is a nondeterministic choice in the models; what it changes in runs, requests, intents, jobs and memory units is in the modules of those. Neither
  TLC nor TLAPS has anything to say about wording and ranking, which is why the map stays at a small share of all lines.
- Configuration, HTTP routing, authorisation, world state: shapes of data, and merges of it.
- Speech endpoints and recognition: caches with timeouts and external services, taken to succeed or fail.
- Log stream: a bounded buffer that loses its oldest entries and a list of sessions, nothing that waits for it.
- Connectors, watchers, web console: programs of their own; what they may do to the server is in the models: answer, answer twice,
  break, reconnect, or keep silent.

What a next step would take up: a failing store in `CapabilityRequests`; `CapabilityRequests` on
top of `EventStream`, in place of its own send.
