---------------------------- MODULE VisualDaily ----------------------------
(***************************************************************************)
(* The daily visual worker (service/visual_daily.py, store/visual.py): an  *)
(* hourly round stores one digest for each past day that has visual        *)
(* records, and promotes what a digest repeats from earlier ones into      *)
(* memory.  Records are written by judgement cycles, when they end, with   *)
(* the day on which they began.                                            *)
(*                                                                         *)
(* One memory set; days are numbered; the records of a day are counted.    *)
(* A cycle that runs over midnight ends before the next one.  The names    *)
(* differ from those of MemoryPostprocess, with which this module shares   *)
(* its proofs.                                                             *)
(***************************************************************************)
EXTENDS Naturals, FiniteSets, FiniteSetsExt

CONSTANTS
    MaxDay,     \* bound on days
    MaxRecords, \* bound on the records of a day
    MaxFaults,  \* bound on exceptions and ends of the process
    Limit       \* VISUAL_DAILY_RUN_DATE_LIMIT

ASSUME VisualAssumption ==
    /\ MaxDay \in Nat \ {0} /\ MaxRecords \in Nat /\ MaxFaults \in Nat
    /\ Limit \in Nat \ {0}

Days == 1..MaxDay
NoDay == 0

VARIABLES
    today,
    observing,  \* the day on which the cycle that observes began, or NoDay
    records,    \* day -> visual observation records
    late,       \* history: days with a record written after they were over
    digest,     \* day -> memory_promotion.result_status of its digest, or "none"
    covered,    \* history: day -> records when its digest was made
    step,       \* where the worker is
    phase,      \* which of the two loops of a round it is in
    todo,       \* days of the loop still to come
    day,        \* the day whose digest is promoted
    promoted,   \* history: day -> how often its candidates became memory
    cutOff,     \* history: day -> how often that was not written down
    faults

observationVars == <<observing, records, late>>
roundVars == <<step, phase, todo, day>>
dailyVars == <<today, observationVars, digest, covered, roundVars, promoted, cutOff, faults>>

Statuses == {"none", "not_started", "skipped", "failed", "succeeded"}

DailyTypeOK ==
    /\ today \in Days
    /\ observing \in Days \cup {NoDay}
    /\ records \in [Days -> 0..MaxRecords] /\ late \subseteq Days
    /\ digest \in [Days -> Statuses] /\ covered \in [Days -> 0..MaxRecords]
    /\ step \in {"asleep", "looping", "promoting", "storing"}
    /\ phase \in {"digests", "promotions"}
    /\ todo \subseteq Days /\ day \in Days \cup {NoDay}
    /\ promoted \in [Days -> Nat] /\ cutOff \in [Days -> Nat]
    /\ faults \in 0..MaxFaults

DailyInit ==
    /\ today = 1
    /\ observing = NoDay /\ records = [d \in Days |-> 0] /\ late = {}
    /\ digest = [d \in Days |-> "none"] /\ covered = [d \in Days |-> 0]
    /\ step = "asleep" /\ phase = "digests" /\ todo = {} /\ day = NoDay
    /\ promoted = [d \in Days |-> 0] /\ cutOff = [d \in Days |-> 0]
    /\ faults = 0

\* A faulty Settled: a promotion that failed is tried again.
SettledWell == {"skipped", "succeeded"}

Settled == {"skipped", "failed", "succeeded"}

-----------------------------------------------------------------------------
(* The clock and the cycles. *)

Midnight ==
    /\ today < MaxDay
    /\ observing \in {NoDay, today}
    /\ today' = today + 1
    /\ UNCHANGED <<observationVars, digest, covered, roundVars, promoted, cutOff, faults>>

BeginObservation ==
    /\ observing = NoDay
    /\ records[today] < MaxRecords
    /\ observing' = today
    /\ UNCHANGED <<today, records, late, digest, covered, roundVars, promoted, cutOff, faults>>

\* persist_cycle_records, of a cycle that fails too (_persist_cycle_failure); the
\* cycle may have no visual record to write, or the store may refuse it.
EndObservation ==
    /\ observing # NoDay
    /\ observing' = NoDay
    /\ \/ /\ records' = [records EXCEPT ![observing] = @ + 1]
          /\ late' = IF observing < today THEN late \cup {observing} ELSE late
       \/ UNCHANGED <<records, late>>
    /\ UNCHANGED <<today, digest, covered, roundVars, promoted, cutOff, faults>>

-----------------------------------------------------------------------------
(* The round. *)

\* The n smallest, or largest, members of S.
Oldest(n, S) == {d \in S : Cardinality({e \in S : e < d}) < n}
Newest(n, S) == {d \in S : Cardinality({e \in S : e > d}) < n}

\* A faulty DueDays: today is not left out.
DueDaysWithToday == Oldest(Limit, {d \in Days : d <= today /\ records[d] > 0})

\* list_visual_observation_local_dates: the oldest past days, digested or not.
DueDays == Oldest(Limit, {d \in Days : d < today /\ records[d] > 0})

BeginRound ==
    /\ step = "asleep"
    /\ step' = "looping" /\ phase' = "digests"
    /\ todo' = DueDays
    /\ UNCHANGED <<today, observationVars, digest, covered, day, promoted, cutOff, faults>>

\* _run_visual_daily_digest: the digest and its records in one transaction.
Digest ==
    /\ step = "looping" /\ phase = "digests" /\ todo # {}
    /\ LET d == Min(todo) IN
          /\ todo' = todo \ {d}
          /\ IF digest[d] # "none"
               THEN UNCHANGED <<digest, covered, step, day>>
               ELSE /\ digest' = [digest EXCEPT ![d] = "not_started"]
                    /\ covered' = [covered EXCEPT ![d] = records[d]]
                    /\ step' = "promoting" /\ day' = d
    /\ UNCHANGED <<today, observationVars, phase, promoted, cutOff, faults>>

Digested == {d \in Days : digest[d] # "none"}

\* A faulty BeginPromotions: only what this round digested was promoted.
BeginNoPromotions ==
    /\ step = "looping" /\ phase = "digests" /\ todo = {}
    /\ phase' = "promotions"
    /\ UNCHANGED <<today, observationVars, digest, covered, step, todo, day, promoted, cutOff,
                   faults>>

\* list_daily_visual_digests: the newest digests, taken from the oldest on.
BeginPromotions ==
    /\ step = "looping" /\ phase = "digests" /\ todo = {}
    /\ phase' = "promotions"
    /\ todo' = Newest(Limit, Digested)
    /\ UNCHANGED <<today, observationVars, digest, covered, step, day, promoted, cutOff, faults>>

NextPromotion ==
    /\ step = "looping" /\ phase = "promotions" /\ todo # {}
    /\ LET d == Min(todo) IN
          /\ todo' = todo \ {d}
          /\ IF digest[d] \in Settled
               THEN UNCHANGED <<step, day>>
               ELSE step' = "promoting" /\ day' = d
    /\ UNCHANGED <<today, observationVars, digest, covered, phase, promoted, cutOff, faults>>

\* No candidate that an earlier day's digest supports; or the memory actions
\* are persisted, or the store refuses them.
Promote ==
    /\ step = "promoting"
    /\ \/ /\ \E outcome \in {"skipped", "failed"} :
                /\ outcome = "failed" => \E e \in Digested : e < day
                /\ digest' = [digest EXCEPT ![day] = outcome]
          /\ step' = "looping"
          /\ UNCHANGED promoted
       \/ /\ \E e \in Digested : e < day
          /\ promoted' = [promoted EXCEPT ![day] = @ + 1]
          /\ step' = "storing"
          /\ UNCHANGED digest
    /\ UNCHANGED <<today, observationVars, covered, phase, todo, day, cutOff, faults>>

\* Failed, if the vector or the relation index could not be brought up to date.
StoreResult ==
    /\ step = "storing"
    /\ \E outcome \in {"succeeded", "failed"} : digest' = [digest EXCEPT ![day] = outcome]
    /\ step' = "looping"
    /\ UNCHANGED <<today, observationVars, covered, phase, todo, day, promoted, cutOff, faults>>

EndRound ==
    /\ step = "looping" /\ phase = "promotions" /\ todo = {}
    /\ step' = "asleep"
    /\ UNCHANGED <<today, observationVars, digest, covered, phase, todo, day, promoted, cutOff,
                   faults>>

\* An exception ends the round, the end of the process also the cycle; either
\* way the next thing the worker does is the next round.
Fault ==
    /\ faults < MaxFaults
    /\ faults' = faults + 1
    /\ step' = "asleep" /\ todo' = {}
    /\ cutOff' = IF step = "storing" THEN [cutOff EXCEPT ![day] = @ + 1] ELSE cutOff
    /\ observing' \in {observing, NoDay}
    /\ UNCHANGED <<today, records, late, digest, covered, phase, day, promoted>>

DailyWorker == BeginRound \/ Digest \/ BeginPromotions \/ NextPromotion \/ Promote
          \/ StoreResult \/ EndRound

DailyNext == Midnight \/ BeginObservation \/ EndObservation \/ DailyWorker \/ Fault

\* The worker's thread wakes every hour.  Nothing is assumed of the cycles.
DailySpec == DailyInit /\ [][DailyNext]_dailyVars /\ WF_dailyVars(DailyWorker)

-----------------------------------------------------------------------------
(* Properties. *)

\* Candidates of a digest are promoted again only when the worker was stopped
\* between persisting them and writing that down: a digest that two loops, or
\* two rounds, come across does not repeat itself into memory.
PromotedOncePerCut == \A d \in Days : promoted[d] <= 1 + cutOff[d]

\* A digest misses a record of its day only if a cycle ran over midnight and
\* wrote the record when the day was digested already.
MissesOnlyLate ==
    \A d \in Days : digest[d] # "none" /\ covered[d] < records[d] => d \in late

\* A digest that was stored and not promoted, whatever cut the worker off, is
\* promoted or set aside in a later round.
DigestsSettle == \A d \in Days : digest[d] = "not_started" ~> digest[d] \in Settled

\* Every day with visual records gets its digest.
EveryDayDigested ==
    \A d \in Days : d < today /\ records[d] > 0 ~> digest[d] # "none"
=============================================================================
