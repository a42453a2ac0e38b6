-------------------------------- MODULE Wake --------------------------------
(***************************************************************************)
(* Periodic thought, the wake API and the pending intents they take up     *)
(* again: service/spontaneous/wake.py, service/spontaneous/                *)
(* pending_intent.py and service/input/wake_pipeline.py.                   *)
(*                                                                         *)
(* The scheduler's thread looks whether a thought is due and runs a wake   *)
(* cycle; so do two APIs, on threads of their own.  Judgement cycles       *)
(* exclude each other (CycleCoordinator), and "cyc" is the wake cycle that *)
(* runs.  Settings change under its feet: patch_current takes no lock that *)
(* a cycle holds.                                                          *)
(*                                                                         *)
(* One memory set; a pending intent is named by its dedupe_key.  A cycle   *)
(* that waits for its turn and cycles of other kinds are not told from the *)
(* passing of time, except that they, too, leave intents behind (Intend).  *)
(***************************************************************************)
EXTENDS Integers

CONSTANTS
    Keys,       \* dedupe keys
    NoKey,      \* no candidate selected
    Interval,   \* wake_policy.interval_seconds, in ticks
    RetryDelay, \* BACKGROUND_THINKING_POLL_SECONDS
    Window,     \* WAKE_RECENT_DEDUPE_WINDOW_MINUTES
    Limit,      \* PENDING_INTENT_CONSECUTIVE_EVALUATION_LIMIT
    Cooldown,   \* PENDING_INTENT_COOLDOWN_MINUTES
    Expiry,     \* PENDING_INTENT_EXPIRES_HOURS
    MaxTime     \* bound on the clock, for model checking

ASSUME WakeAssumption ==
    /\ NoKey \notin Keys
    /\ {Interval, RetryDelay, Window, Limit, Cooldown, Expiry} \subseteq Nat \ {0}
    /\ MaxTime \in Nat

Never == -1

VARIABLES
    now,
    enabled,    \* wake_policy.mode = "interval", as stored
    since,      \* interval_started_at
    retry,      \* retry_after, or Never
    pool,       \* key -> its pending intent candidate
    spoken,     \* speech_history_by_dedupe
    sched,      \* "due" when the scheduler has found a thought due
    cyc,        \* the wake cycle that runs, and how far it is
    patch,      \* what a change of the settings has still to do
    thought,    \* history: when the last cycle began that used the interval up
    tired       \* history: key -> how often its candidate was taken up since
                \*   it last rested, and until when it is to rest

policyVars == <<enabled, patch>>
timerVars == <<since, retry, thought>>
intentVars == <<pool, spoken, tired>>
vars == <<now, policyVars, timerVars, intentVars, sched, cyc>>

NoCandidate == [notBefore |-> Never, expires |-> Never, count |-> 0, cooldown |-> Never]
Fresh == [times |-> 0, until |-> 0]
NoCycle == [kind |-> "none", pc |-> "idle", started |-> Never,
            key |-> NoKey, same |-> FALSE, speaks |-> FALSE]
NoPatch == [clear |-> FALSE, sync |-> FALSE]

Times == Never..(MaxTime + Expiry + Cooldown + RetryDelay)

TypeOK ==
    /\ now \in 0..MaxTime
    /\ enabled \in BOOLEAN
    /\ since \in 0..MaxTime /\ retry \in Times /\ thought \in Times
    /\ pool \in [Keys -> [notBefore : Times, expires : Times,
                          count : 0..(Limit - 1), cooldown : Times]]
    /\ spoken \in [Keys -> Times]
    /\ tired \in [Keys -> [times : 0..(Limit - 1), until : Times]]
    /\ sched \in {"waiting", "due"}
    /\ cyc \in [kind : {"none", "scheduled", "once", "api"},
                pc : {"idle", "begun", "selected", "observed", "deciding", "recording"},
                started : Times, key : Keys \cup {NoKey},
                same : BOOLEAN, speaks : BOOLEAN]
    /\ patch \in [clear : BOOLEAN, sync : BOOLEAN]

\* The server starts; no thought has taken place.
Init ==
    /\ now = 0
    /\ enabled \in BOOLEAN
    /\ since = 0 /\ retry = Never /\ thought = Never
    /\ pool = [k \in Keys |-> NoCandidate]
    /\ spoken = [k \in Keys |-> Never]
    /\ tired = [k \in Keys |-> Fresh]
    /\ sched = "waiting"
    /\ cyc = NoCycle
    /\ patch = NoPatch

-----------------------------------------------------------------------------
(* What the code computes. *)

\* _wake_is_due at time t, for a state whose mode is "interval".
Due(t) == retry <= t /\ since + Interval <= t

\* A faulty DueInCycle: what the scheduler saw before its cycle began is enough.
DueAsSeenBefore == TRUE

\* _background_thinking_should_proceed inside the cycle that runs.
DueInCycle == cyc.kind = "scheduled" => Due(cyc.started)

\* _prune_pending_intent_candidates
Pruned(t) == [k \in Keys |-> IF pool[k].expires <= t THEN NoCandidate ELSE pool[k]]

Eligible(t) ==
    {k \in Keys : Pruned(t)[k] # NoCandidate /\ Pruned(t)[k].notBefore <= t}

\* A faulty SpokenLately: the window is not looked at.
SpokenLatelyNever(k, t) == FALSE

\* _was_recently_replied
SpokenLately(k, t) == spoken[k] # Never /\ t - spoken[k] < Window

\* A faulty Upserted: a candidate that rests can be taken up at once.
UpsertedAwake(c, t) ==
    [c EXCEPT !.notBefore = t, !.expires = t + Expiry, !.cooldown = Never]

\* _apply_pending_intent_candidate: c as it is left at time t.
Upserted(c, t) ==
    IF c.cooldown > t THEN [c EXCEPT !.expires = t + Expiry]
    ELSE [c EXCEPT !.notBefore = t, !.expires = t + Expiry, !.cooldown = Never]

\* _record_pending_intent_candidate_evaluation, in a cycle that began at t.
Evaluated(c, t) ==
    IF c.count + 1 < Limit
      THEN [c EXCEPT !.count = @ + 1, !.cooldown = Never]
      ELSE [c EXCEPT !.count = 0, !.notBefore = t + Cooldown, !.cooldown = t + Cooldown]

\* Its history then.
TakenUp(h, t) ==
    IF h.times + 1 < Limit THEN [h EXCEPT !.times = @ + 1]
    ELSE [times |-> 0, until |-> t + Cooldown]

\* The history of a candidate that is created or removed begins anew.
Followed(next) ==
    [k \in Keys |-> IF pool[k] = NoCandidate \/ next[k] = NoCandidate
                    THEN Fresh ELSE tired[k]]

UpsertKey(k) ==
    /\ pool' = [Pruned(now) EXCEPT ![k] = Upserted(@, now)]
    /\ tired' = [Followed(Pruned(now)) EXCEPT
                    ![k] = IF Pruned(now)[k] = NoCandidate THEN Fresh ELSE @]

-----------------------------------------------------------------------------
(* The clock, the settings, the other cycles. *)

Tick ==
    /\ now < MaxTime
    /\ now' = now + 1
    /\ UNCHANGED <<policyVars, timerVars, intentVars, sched, cyc>>

\* patch_current and replace_editor_state: the state is written, then the
\* runtime layers are cleared if the persona, the memory set or the model has
\* changed, then the interval of a policy that was disabled begins.
ChangeSettings ==
    /\ patch = NoPatch
    /\ \E mode, clears \in BOOLEAN :
          /\ enabled' = mode
          /\ patch' = [clear |-> clears, sync |-> mode /\ ~enabled]
    /\ UNCHANGED <<now, timerVars, intentVars, sched, cyc>>

\* _clear_pending_intent_candidates; a candidate the cycle has in hand is not
\* the one its key names from now on.
ClearLayers ==
    /\ patch.clear
    /\ patch' = [patch EXCEPT !.clear = FALSE]
    /\ pool' = [k \in Keys |-> NoCandidate]
    /\ tired' = [k \in Keys |-> Fresh]
    /\ spoken' = [k \in Keys |-> Never]
    /\ since' = now /\ retry' = Never
    /\ cyc' = [cyc EXCEPT !.same = FALSE]
    /\ UNCHANGED <<now, enabled, thought, sched>>

\* _sync_wake_policy_runtime_state
SyncPolicy ==
    /\ patch.sync /\ ~patch.clear
    /\ patch' = NoPatch
    /\ since' = now /\ retry' = Never
    /\ UNCHANGED <<now, enabled, thought, intentVars, sched, cyc>>

\* A conversation or a result cycle ends with a decision to come back to it.
Intend(k) ==
    /\ cyc = NoCycle
    /\ UpsertKey(k)
    /\ UNCHANGED <<now, policyVars, timerVars, spoken, sched, cyc>>

-----------------------------------------------------------------------------
(* The scheduler and the start of a cycle. *)

\* The mode is the one stored now; the cycle goes by it to its end.
FindDue ==
    /\ sched = "waiting" /\ cyc.kind # "scheduled"
    /\ enabled /\ Due(now)
    /\ sched' = "due"
    /\ UNCHANGED <<now, policyVars, timerVars, intentVars, cyc>>

\* try_enter_background is refused: the loop looks again at once.
StandBack ==
    /\ sched = "due" /\ cyc # NoCycle
    /\ sched' = "waiting"
    /\ UNCHANGED <<now, policyVars, timerVars, intentVars, cyc>>

Start(kind) ==
    /\ cyc = NoCycle
    /\ cyc' = [NoCycle EXCEPT !.kind = kind, !.pc = "begun", !.started = now]

StartScheduled ==
    /\ sched = "due"
    /\ Start("scheduled")
    /\ sched' = "waiting"
    /\ UNCHANGED <<now, policyVars, timerVars, intentVars>>

\* trigger_background_thinking_once, refused while a cycle runs, and
\* trigger_wake, which waits for its turn.
StartByApi ==
    /\ \E kind \in {"once", "api"} : Start(kind)
    /\ UNCHANGED <<now, policyVars, timerVars, intentVars, sched>>

-----------------------------------------------------------------------------
(* The cycle. *)

\* An exception ends a cycle wherever an LLM is asked; the interval is then as
\* it was, and a thought that was due is due again at once.
EndCycle == cyc' = NoCycle

NotDueAnyMore ==
    /\ cyc.pc = "begun" /\ ~DueInCycle
    /\ EndCycle
    /\ UNCHANGED <<now, policyVars, timerVars, intentVars, sched>>

\* _select_due_pending_intent_candidate: with nothing eligible no LLM is asked.
Select ==
    /\ cyc.pc = "begun" /\ DueInCycle
    /\ pool' = Pruned(cyc.started)
    /\ tired' = Followed(pool')
    /\ \/ \E k \in Eligible(cyc.started) \cup {NoKey} :
             cyc' = [cyc EXCEPT !.pc = "selected", !.key = k, !.same = (k # NoKey)]
       \/ Eligible(cyc.started) # {} /\ EndCycle
    /\ UNCHANGED <<now, policyVars, timerVars, spoken, sched>>

\* The settings may have been reset while the LLM selected.
Observe ==
    /\ cyc.pc = "selected"
    /\ cyc' = [cyc EXCEPT !.pc = IF DueInCycle THEN "observed" ELSE "recording"]
    /\ UNCHANGED <<now, policyVars, timerVars, intentVars, sched>>

\* _consume_background_thinking_interval
Consume ==
    IF cyc.kind = "api" THEN UNCHANGED timerVars
    ELSE since' = cyc.started /\ retry' = Never /\ thought' = cyc.started

\* There is nothing to think about: the cycle is over, and tries again soon if
\* that is because a source was out of reach (only thoughts observe sources).
NothingToThink ==
    /\ cyc.pc = "observed" /\ cyc.key = NoKey
    /\ \/ Consume
       \/ /\ cyc.kind # "api"
          /\ retry' = cyc.started + RetryDelay
          /\ UNCHANGED <<since, thought>>
    /\ EndCycle
    /\ UNCHANGED <<now, policyVars, intentVars, sched>>

\* The LLM that is asked whether to enter fails.
EntryFails ==
    /\ cyc.pc = "observed" /\ cyc.key = NoKey
    /\ EndCycle
    /\ UNCHANGED <<now, policyVars, timerVars, intentVars, sched>>

Enter ==
    /\ cyc.pc = "observed"
    /\ Consume
    /\ cyc' = [cyc EXCEPT
                  !.pc = IF cyc.key # NoKey /\ SpokenLately(cyc.key, cyc.started)
                         THEN "recording" ELSE "deciding"]
    /\ UNCHANGED <<now, policyVars, intentVars, sched>>

\* The decision may speak, and may leave an intent behind, at the end of the
\* pipeline; the candidate in hand may have expired by then.
Decide ==
    /\ cyc.pc = "deciding"
    /\ \E speaks \in BOOLEAN, k \in Keys \cup {NoKey} :
          /\ cyc' = [cyc EXCEPT
                        !.pc = "recording", !.speaks = speaks,
                        !.same = @ /\ (k # NoKey => Pruned(now)[cyc.key] # NoCandidate)]
          /\ IF k = NoKey THEN UNCHANGED <<pool, tired>> ELSE UpsertKey(k)
    /\ UNCHANGED <<now, policyVars, timerVars, spoken, sched>>

DecisionFails ==
    /\ cyc.pc = "deciding"
    /\ EndCycle
    /\ UNCHANGED <<now, policyVars, timerVars, intentVars, sched>>

\* _record_wake_outcome of a decision that speaks.
RecordSpeech ==
    /\ cyc.pc = "recording" /\ cyc.speaks
    /\ spoken' = IF cyc.key = NoKey THEN spoken
                 ELSE [spoken EXCEPT ![cyc.key] = cyc.started]
    /\ pool' = IF cyc.same THEN [pool EXCEPT ![cyc.key] = NoCandidate] ELSE pool
    /\ tired' = Followed(pool')
    /\ EndCycle
    /\ UNCHANGED <<now, policyVars, timerVars, sched>>

\* _record_wake_outcome of one that does not.
RecordEvaluation ==
    /\ cyc.pc = "recording" /\ ~cyc.speaks
    /\ IF cyc.same
         THEN LET k == cyc.key IN
              /\ pool' = [pool EXCEPT ![k] = Evaluated(@, cyc.started)]
              /\ tired' = [tired EXCEPT ![k] = TakenUp(@, cyc.started)]
         ELSE UNCHANGED <<pool, tired>>
    /\ EndCycle
    /\ UNCHANGED <<now, policyVars, timerVars, spoken, sched>>

Cycle == NotDueAnyMore \/ Select \/ Observe \/ NothingToThink \/ EntryFails
         \/ Enter \/ Decide \/ DecisionFails \/ RecordSpeech \/ RecordEvaluation

Settings == ChangeSettings \/ ClearLayers \/ SyncPolicy

Next ==
    \/ Tick
    \/ Settings
    \/ \E k \in Keys : Intend(k)
    \/ FindDue \/ StandBack \/ StartScheduled \/ StartByApi
    \/ Cycle

Spec == Init /\ [][Next]_vars

-----------------------------------------------------------------------------
(* Properties. *)

\* A scheduled thought uses the interval up only if it began a whole interval
\* after the one before it, whichever of the scheduler and the API ran that:
\* the scheduler's look at the clock may be overtaken by an API's cycle, and
\* settings may be reset in the middle of one.
ThoughtsSpaced ==
    [][thought' # thought /\ thought # Never /\ cyc.kind = "scheduled"
         => thought' >= thought + Interval]_vars

\* A candidate that was taken up Limit times is left alone for Cooldown, though
\* conversations, and the very cycle that took it up, renew it meanwhile.
CandidatesRest ==
    cyc.same => tired[cyc.key].until <= cyc.started

\* An intent that was spoken of is not spoken of again within Window, also if
\* a decision takes it up anew: only a reset forgets.
SpokenOnceAWhile ==
    [][\A k \in Keys :
         spoken[k] # Never /\ spoken'[k] \notin {spoken[k], Never}
            => spoken'[k] >= spoken[k] + Window]_vars
=============================================================================
