---------------------------- MODULE MemoryUnits ----------------------------
(***************************************************************************)
(* Consolidation of long-term memory (memory/actions.py, consolidator.py,  *)
(* correction.py, reflection/, and the store they write to).  A memory     *)
(* unit is a record that is always replaced as a whole; what a candidate   *)
(* does to the units is decided from a list read earlier, and applied in a *)
(* later transaction.  Nothing is locked between the two, and four kinds   *)
(* of writers do so: the consolidation of a turn, the postprocess worker   *)
(* with a turn's corrections and with the reflection, and the end of an    *)
(* autonomous run.                                                         *)
(*                                                                         *)
(* Candidates are compared with the units of one compare key only (type,   *)
(* scope, subject, predicate): this is the life of one key.  Confidence,   *)
(* salience and the texts are left out; where they only order the units    *)
(* the order is a choice.                                                  *)
(***************************************************************************)
EXTENDS Naturals, Sequences, FiniteSets

CONSTANTS
    Kinds,          \* memory types to look at
    Objects,        \* values of object_ref_or_value
    NoObject,       \* a candidate or unit without one
    Turns,          \* threads that consolidate turns
    Candidates,     \* what the LLM may propose
    CompareLimit,   \* limit of find_memory_units_for_compare
    MaxUnits,       \* bound on units
    MaxTurns,       \* bound on consolidated turns
    MaxCandidates,  \* bound on candidates of a turn
    MaxSelected,    \* bound on corrections of a turn
    MaxLog,         \* bound on the log when candidates are resolved
    MaxEndings,     \* bound on ends of autonomous runs
    MaxRestarts     \* bound on ends of the process

MemoryTypes ==
    {"fact", "preference", "relation", "commitment", "interpretation", "summary"}
PARALLEL_MEMORY_TYPES == {"commitment", "interpretation", "preference", "relation"}
Senses == {"plain", "pos", "neg"}    \* qualifiers.polarity, if any
Commitments == {"none", "open", "done"}
Active == {"inferred", "confirmed"}
Revivable == Active \cup {"dormant"}
Gone == {"superseded", "revoked"}

\* What _normalized_candidate leaves of a candidate.
CandidateRecords ==
    [status: Revivable \cup {"revoked"}, object: Objects \cup {NoObject}, sense: Senses,
     commit: Commitments,
     direct: BOOLEAN,    \* the source is a direct statement
     dated: BOOLEAN,     \* valid_from or valid_to is given
     replaces: BOOLEAN, negates: BOOLEAN, parallel: BOOLEAN]

ASSUME MemoryAssumption ==
    /\ Kinds \subseteq MemoryTypes
    /\ NoObject \notin Objects
    /\ Candidates \subseteq CandidateRecords
    /\ CompareLimit \in Nat \ {0}
    /\ MaxUnits \in Nat /\ MaxTurns \in Nat /\ MaxCandidates \in Nat
    /\ MaxSelected \in Nat /\ MaxLog \in Nat
    /\ MaxEndings \in Nat /\ MaxRestarts \in Nat

Ids == 1..MaxUnits
UnitRecords ==
    [status: Revivable \cup Gone, object: Objects \cup {NoObject}, sense: Senses,
     commit: Commitments]
Absent == [status |-> "absent"]

VARIABLES
    kind,       \* memory_type of the key
    units,      \* the memory_units of the key
    issued,     \* unit ids handed out
    log,        \* revisions, a decision at a time
    turn,       \* the consolidation each thread is in
    jobs,       \* postprocess jobs: what their turn had read and selected
    worker,     \* the postprocess worker
    ending,     \* the run that ends
    turns, endings, restarts    \* how many there were

vars == <<kind, units, issued, log, turn, jobs, worker, ending, turns, endings, restarts>>

(***************************************************************************)
(* A decision is what one candidate, one correction or one reflection step *)
(* resolves to: a function from the units it writes to the operation with  *)
(* the snapshots before and after.  `at` is how much of the log was there  *)
(* when the units it starts from were read, and `blind` says that it       *)
(* could not, or was told not to, look at all of them.  `time` is its      *)
(* occurred_at.  A correction names the revision it corrects: the place in *)
(* the log and the unit.                                                   *)
(***************************************************************************)
NoTarget == [place |-> 0, unit |-> 0]

Write(op, before, after) == [op |-> op, before |-> before, after |-> after]
Decision(writes, at, time, blind) ==
    [writes |-> writes, at |-> at, time |-> time, blind |-> blind, corrects |-> NoTarget]

Touches(d, u) == u \in DOMAIN d.writes
TouchedIn(ds, u) == {i \in DOMAIN ds : Touches(ds[i], u)}
Newest(S) == CHOOSE i \in S : \A j \in S : j <= i

\* _apply_memory_action, for all of a transaction: whole records, in order.
Applied(us, ds) ==
    [u \in Ids |-> IF TouchedIn(ds, u) = {} THEN us[u]
                   ELSE ds[Newest(TouchedIn(ds, u))].writes[u].after]

Apply(ds) ==
    /\ units' = Applied(units, ds)
    /\ log' = log \o ds

-----------------------------------------------------------------------------
(* What a candidate does (MemoryActionResolver).                           *)

Stored == {u \in Ids : units[u] # Absent}
Listed == {u \in Stored : units[u].status \notin Gone}

\* The lists find_memory_units_for_compare may return.
Compared ==
    {M \in SUBSET Listed :
        Cardinality(M) = (IF Cardinality(Listed) < CompareLimit
                          THEN Cardinality(Listed) ELSE CompareLimit)}

Rank(status) ==
    IF status = "confirmed" THEN 3 ELSE IF status = "inferred" THEN 2 ELSE 1
First(S) == {u \in S : \A v \in S : Rank(units[v].status) <= Rank(units[u].status)}

Explicit(c) ==
    \/ c.direct
    \/ c.status = "confirmed" /\ kind \in {"fact", "preference", "commitment"}
Confirms(c) == c.status = "confirmed" \/ (Explicit(c) /\ kind # "interpretation")

Merged(sense, c) == IF c.sense = "plain" THEN sense ELSE c.sense
Conflicts(e, c) == e.sense # "plain" /\ c.sense # "plain" /\ e.sense # c.sense
Committed(e, c) == IF c.commit = "none" THEN e.commit ELSE c.commit

IsSameMemory(e, c) == e.object = c.object /\ e.commit = c.commit /\ e.sense = c.sense
SameObject(M, c) == {u \in M : units[u].object = c.object}

New(c) == [status |-> c.status, object |-> c.object, sense |-> c.sense, commit |-> c.commit]
Reinforced(e, c) ==
    [e EXCEPT
        !.status = IF e.status = "dormant" THEN (IF Confirms(c) THEN "confirmed" ELSE c.status)
                   ELSE IF Confirms(c) THEN "confirmed" ELSE @,
        !.commit = Committed(e, c),
        !.sense = Merged(@, c)]
Refined(e, c) ==
    [e EXCEPT
        !.object = c.object,
        !.status = IF Confirms(c) THEN "confirmed" ELSE IF @ = "dormant" THEN "inferred" ELSE @,
        !.commit = Committed(e, c),
        !.sense = Merged(@, c)]
Superseded(e) == [e EXCEPT !.status = "superseded"]
Revoked(e) == [e EXCEPT !.status = "revoked"]
Dormant(e) == [e EXCEPT !.status = "dormant"]

Create(n, c) == [u \in {n} |-> Write("create", Absent, New(c))]
Reinforce(p, c) == [u \in {p} |-> Write("reinforce", units[p], Reinforced(units[p], c))]
Refine(p, c) == [u \in {p} |-> Write("refine", units[p], Refined(units[p], c))]
Revoke(S) == [u \in S |-> Write("revoke", units[u], Revoked(units[u]))]
Replace(S, n, c) ==
    [u \in S \cup {n} |-> IF u = n THEN Write("create", Absent, New(c))
                          ELSE Write("revoke", units[u], Revoked(units[u]))]
Supersede(p, n, c) ==
    [u \in {p, n} |-> IF u = n THEN Write("create", Absent, New(c))
                      ELSE Write("supersede", units[p], Superseded(units[p]))]
MakeDormant(p) == [u \in {p} |-> Write("dormant", units[p], Dormant(units[p]))]

\* A faulty search that passes over dormant units.
PrimariesAwake(M, c) ==
    LET awake == {u \in M : units[u].status \in Active}
    IN  First(IF SameObject(awake, c) # {} THEN SameObject(awake, c) ELSE awake)

\* _primary_match: a unit with the object, else the best of the rest.
Primaries(M, c) == First(IF SameObject(M, c) # {} THEN SameObject(M, c) ELSE M)

RevocationTargets(M, c) ==
    IF SameObject(M, c) # {} THEN {SameObject(M, c)}
    ELSE IF c.status = "revoked" /\ c.object = NoObject THEN {{p} : p \in Primaries(M, c)}
    ELSE {}

CanRefine(p, c) == units[p].object = c.object /\ ~Conflicts(units[p], c)
ShouldRevokeWithReplacement(p, c) ==
    /\ units[p].object = c.object
    /\ Explicit(c)
    /\ c.negates \/ Conflicts(units[p], c)
ShouldCreateParallel(p, c) ==
    /\ ~c.replaces /\ ~c.negates
    /\ \/ c.parallel
       \/ kind \in PARALLEL_MEMORY_TYPES /\ units[p].object # c.object
ShouldSupersede(p, c) ==
    \/ c.replaces
    \/ c.negates /\ units[p].object # c.object
    \/ kind = "fact" /\ units[p].object # c.object /\ (c.dated \/ Explicit(c))
    \/ kind \notin PARALLEL_MEMORY_TYPES \cup {"fact"}

\* With a primary match that is not the same memory.  The refinement by
\* meaning that comes last in the code is never reached: it is for
\* interpretations with another object, and those have become parallel units,
\* or have superseded the primary match, by then.
AgainstPrimary(p, M, n, c) ==
    IF CanRefine(p, c) THEN {Refine(p, c)}
    ELSE IF ShouldRevokeWithReplacement(p, c)
         THEN {Replace(S, n, c) : S \in RevocationTargets(M, c)}
    ELSE IF ShouldCreateParallel(p, c) THEN {Create(n, c)}
    ELSE IF ShouldSupersede(p, c) THEN {Supersede(p, n, c)}
    ELSE {}

\* resolve_memory_actions, of a candidate that is worth a write, with the list
\* M and the next unit id: the writes it may come to, none if it does nothing.
Resolutions(M, n, c) ==
    LET same == {u \in M : IsSameMemory(units[u], c)}
        primaries == Primaries(M, c)
    IN  CASE c.status = "revoked" -> {Revoke(S) : S \in RevocationTargets(M, c)}
          [] c.status = "dormant" ->
                {MakeDormant(p) : p \in {q \in primaries : units[q].status # "dormant"}}
          [] c.status \in Active /\ same # {} -> {Reinforce(p, c) : p \in First(same)}
          [] c.status \in Active /\ same = {} /\ primaries = {} -> {Create(n, c)}
          [] OTHER -> UNION {AgainstPrimary(p, M, n, c) : p \in primaries}

\* A candidate for a commitment has a commitment_state; summaries come from the
\* reflection only, and are neither revoked nor put to rest.
Proposals ==
    {c \in Candidates :
        /\ (kind = "commitment") = (c.commit # "none")
        /\ kind = "summary" => c.status \in Active}

\* What the candidate c may add to the decisions of a turn, or of the
\* reflection, with the given time.
Resolved(c, time) ==
    {d \in UNION {{Decision(writes, Len(log), time, M # Listed \/ c.parallel) :
                      writes \in Resolutions(M, issued + 1, c)} : M \in Compared} :
        DOMAIN d.writes \subseteq Ids}

\* Ids are handed out when a unit is built.
IssuedBy(d) == IF Touches(d, issued + 1) THEN issued + 1 ELSE issued

-----------------------------------------------------------------------------
(* The consolidation of a turn.                                            *)

Resting == [phase |-> "idle", time |-> 0, seen |-> <<>>, at |-> 0, ds |-> <<>>]
Now == turns + endings + 1

Init ==
    /\ kind \in Kinds
    /\ units = [u \in Ids |-> Absent]
    /\ issued = 0
    /\ log = <<>>
    /\ turn = [t \in Turns |-> Resting]
    /\ jobs = <<>>
    /\ worker = Resting /\ ending = Resting
    /\ turns = 0 /\ endings = 0 /\ restarts = 0

\* The cycle is over; the consolidation bears the time of this.
Finish(t) ==
    /\ turn[t].phase = "idle"
    /\ turns < MaxTurns
    /\ turns' = turns + 1
    /\ turn' = [turn EXCEPT ![t].phase = "finished", ![t].time = Now]
    /\ UNCHANGED <<kind, units, issued, log, jobs, worker, ending, endings, restarts>>

\* The revisions that may be corrected are read with the units they are of,
\* before the LLM is asked.
Prepare(t) ==
    /\ turn[t].phase = "finished"
    /\ turn' = [turn EXCEPT ![t].phase = "resolving", ![t].seen = units, ![t].at = Len(log)]
    /\ UNCHANGED <<kind, units, issued, log, jobs, worker, ending, turns, endings, restarts>>

\* The LLM's candidates are resolved one after the other, each against the
\* store, which none of them has changed yet.
Resolve(t) ==
    /\ turn[t].phase = "resolving"
    /\ Len(turn[t].ds) < MaxCandidates /\ Len(log) + Len(turn[t].ds) < MaxLog
    /\ kind # "summary"
    /\ \E c \in Proposals : \E d \in Resolved(c, turn[t].time) :
          /\ turn' = [turn EXCEPT ![t].ds = Append(@, d)]
          /\ issued' = IssuedBy(d)
    /\ UNCHANGED <<kind, units, log, jobs, worker, ending, turns, endings, restarts>>

\* persist_turn_consolidation: one transaction.
PersistTurn(t) ==
    /\ turn[t].phase = "resolving"
    /\ Apply(turn[t].ds)
    /\ turn' = [turn EXCEPT ![t].phase = "persisted", ![t].ds = <<>>]
    /\ UNCHANGED <<kind, issued, jobs, worker, ending, turns, endings, restarts>>

\* Any failure leaves the turn without any effect.
TurnFails(t) ==
    /\ turn[t].phase = "resolving"
    /\ turn' = [turn EXCEPT ![t] = Resting]
    /\ UNCHANGED <<kind, units, issued, log, jobs, worker, ending, turns, endings, restarts>>

\* Of each unit the revision with the latest time is offered, if it is older
\* than the turn and no correction.
IsCorrection(d) == d.corrects # NoTarget
Correctable(at, time, u) ==
    {i \in 1..at : Touches(log[i], u) /\ ~IsCorrection(log[i]) /\ log[i].time < time}
\* A faulty list that offers older revisions too.
TargetsOfAnyAge(at, time) ==
    {target \in [place : 1..at, unit : Ids] :
        target.place \in Correctable(at, time, target.unit)}

Targets(at, time) ==
    {target \in [place : 1..at, unit : Ids] :
        /\ target.place \in Correctable(at, time, target.unit)
        /\ \A j \in Correctable(at, time, target.unit) :
              \/ log[j].time < log[target.place].time
              \/ log[j].time = log[target.place].time /\ j <= target.place}
Selections(S) ==
    {s \in UNION {[1..m -> S] : m \in 0..MaxSelected} : \A i, j \in DOMAIN s : s[i] = s[j] => i = j}

\* The job carries the targets as they were read, and the LLM's selection.
QueueJob(t) ==
    /\ turn[t].phase = "persisted"
    /\ \E selected \in Selections(Targets(turn[t].at, turn[t].time)) :
          jobs' = Append(jobs, [seen |-> turn[t].seen, at |-> turn[t].at,
                                time |-> turn[t].time, selected |-> selected])
    /\ turn' = [turn EXCEPT ![t] = Resting]
    /\ UNCHANGED <<kind, units, issued, log, worker, ending, turns, endings, restarts>>

-----------------------------------------------------------------------------
(* The postprocess worker: corrections, then the reflection.               *)

Correct(u, before, after) == [v \in {u} |-> Write("correct", before, after)]

\* _build_actions_for_target.  A unit that was made and is gone needs nothing.
\* The replacement made by a supersede is revoked, one that came with a revoke
\* is not.
Correction(target, seen) ==
    LET u == target.unit
        revision == log[target.place].writes[u]
        related == {v \in DOMAIN log[target.place].writes \ {u} : seen[v].status \notin Gone}
    IN  CASE revision.op = "create" ->
                IF seen[u].status \in Gone THEN <<>>
                ELSE Correct(u, seen[u], Revoked(seen[u]))
          [] revision.op = "supersede" ->
                [v \in related \cup {u} |->
                    Write("correct", seen[v], IF v = u THEN revision.before ELSE Revoked(seen[v]))]
          [] OTHER -> Correct(u, seen[u], revision.before)

Corrections(job) ==
    [i \in DOMAIN job.selected |->
        [Decision(Correction(job.selected[i], job.seen), job.at, job.time, FALSE)
            EXCEPT !.corrects = job.selected[i]]]

CorrectFirst ==
    /\ worker.phase = "idle"
    /\ jobs # <<>>
    /\ Apply(Corrections(Head(jobs)))
    /\ worker' = [worker EXCEPT !.phase = "corrected", !.time = Head(jobs).time]
    /\ UNCHANGED <<kind, issued, turn, jobs, ending, turns, endings, restarts>>

\* The vectors could not be synchronised, nothing triggers a reflection, or it
\* fails: the job is done all the same.
SkipReflection ==
    /\ worker.phase # "idle"
    /\ jobs' = Tail(jobs)
    /\ worker' = Resting
    /\ UNCHANGED <<kind, units, issued, log, turn, ending, turns, endings, restarts>>

\* The active units are read before the LLM writes the summaries.
ReflectRead ==
    /\ worker.phase = "corrected"
    /\ worker' = [worker EXCEPT !.phase = "summaries", !.seen = units, !.at = Len(log)]
    /\ UNCHANGED <<kind, units, issued, log, turn, jobs, ending, turns, endings, restarts>>

ReflectSummary ==
    /\ worker.phase = "summaries"
    /\ kind = "summary"
    /\ worker.ds = <<>>
    /\ \E c \in Proposals : \E d \in Resolved(c, worker.time) :
          /\ worker' = [worker EXCEPT !.ds = Append(@, d)]
          /\ issued' = IssuedBy(d)
    /\ UNCHANGED <<kind, units, log, turn, jobs, ending, turns, endings, restarts>>

Reflected(u) == \E i \in DOMAIN worker.ds : Touches(worker.ds[i], u)
Reflect(phase, u, op, after) ==
    worker' = [worker EXCEPT
                  !.phase = phase,
                  !.ds = Append(@, Decision([v \in {u} |-> Write(op, worker.seen[u], after)],
                                            worker.at, worker.time, FALSE))]

\* An inferred unit with enough support, and no variant in the store, is
\* confirmed as it was read.
ReflectConfirm(u) ==
    /\ worker.phase = "summaries"
    /\ kind # "summary"
    /\ worker.seen[u].status = "inferred"
    /\ ~Reflected(u)
    /\ \E M \in Compared :
          Cardinality({<<units[v].object, units[v].sense>> :
                         v \in {w \in M : units[w].status \in Active}}) <= 1
    /\ Reflect("summaries", u, "reinforce", [worker.seen[u] EXCEPT !.status = "confirmed"])
    /\ UNCHANGED <<kind, units, issued, log, turn, jobs, ending, turns, endings, restarts>>

\* A faulty choice that also takes units that are gone.
ReflectDormantAny(u) ==
    /\ worker.phase \in {"summaries", "dormant"}
    /\ kind # "commitment"
    /\ worker.seen[u] # Absent
    /\ ~Reflected(u)
    /\ Reflect("dormant", u, "dormant", Dormant(worker.seen[u]))
    /\ UNCHANGED <<kind, units, issued, log, turn, jobs, ending, turns, endings, restarts>>

\* A unit of an old topic that nothing above took up is put to rest.
ReflectDormant(u) ==
    /\ worker.phase \in {"summaries", "dormant"}
    /\ kind # "commitment"
    /\ worker.seen[u].status \in Active
    /\ ~Reflected(u)
    /\ Reflect("dormant", u, "dormant", Dormant(worker.seen[u]))
    /\ UNCHANGED <<kind, units, issued, log, turn, jobs, ending, turns, endings, restarts>>

\* persist_memory_actions, and the end of the job.
PersistReflection ==
    /\ worker.phase \in {"summaries", "dormant"}
    /\ worker.ds # <<>>
    /\ Apply(worker.ds)
    /\ jobs' = Tail(jobs)
    /\ worker' = Resting
    /\ UNCHANGED <<kind, issued, turn, ending, turns, endings, restarts>>

-----------------------------------------------------------------------------
(* resolve_autonomous_run_commitments: the commitments linked to a run that *)
(* ends are read, whatever their status, and written back as done.          *)

EndRead ==
    /\ kind = "commitment"
    /\ ending.phase = "idle" /\ endings < MaxEndings
    /\ \E S \in SUBSET {u \in Stored : units[u].commit = "open"} :
          /\ S # {}
          /\ ending' = [ending EXCEPT
                 !.phase = "read",
                 !.ds = <<Decision([u \in S |-> Write("refine", units[u],
                                       [units[u] EXCEPT !.commit = "done"])],
                                   Len(log), Now, FALSE)>>]
    /\ endings' = endings + 1
    /\ UNCHANGED <<kind, units, issued, log, turn, jobs, worker, turns, restarts>>

EndPersist ==
    /\ ending.phase = "read"
    /\ Apply(ending.ds)
    /\ ending' = Resting
    /\ UNCHANGED <<kind, issued, turn, jobs, worker, turns, endings, restarts>>

\* The process ends and starts again: what is not in the store is gone, and
\* the job in hand is run again.
Restart ==
    /\ restarts < MaxRestarts
    /\ restarts' = restarts + 1
    /\ turn' = [t \in Turns |-> Resting]
    /\ worker' = Resting /\ ending' = Resting
    /\ UNCHANGED <<kind, units, issued, log, jobs, turns, endings>>

Next ==
    \/ \E t \in Turns :
          \/ Finish(t) \/ Prepare(t) \/ Resolve(t) \/ PersistTurn(t) \/ TurnFails(t)
          \/ QueueJob(t)
    \/ CorrectFirst \/ SkipReflection \/ ReflectRead \/ ReflectSummary
    \/ \E u \in Ids : ReflectConfirm(u) \/ ReflectDormant(u)
    \/ PersistReflection
    \/ EndRead \/ EndPersist \/ Restart

Spec == Init /\ [][Next]_vars

-----------------------------------------------------------------------------
(* Properties.                                                             *)

Snapshots == UnitRecords \cup {Absent}
Writes ==
    [op : {"create"}, before : {Absent}, after : UnitRecords] \cup
    [op : {"reinforce", "refine", "supersede", "revoke", "dormant", "correct"},
     before : UnitRecords, after : UnitRecords]
AreDecisions(ds) ==
    /\ ds \in Seq({ds[i] : i \in DOMAIN ds})
    /\ \A i \in DOMAIN ds :
          /\ DOMAIN ds[i].writes \subseteq Ids
          /\ \A u \in DOMAIN ds[i].writes : ds[i].writes[u] \in Writes
          /\ ds[i].at \in Nat /\ ds[i].time \in Nat /\ ds[i].blind \in BOOLEAN
          /\ ds[i].corrects \in [place : Nat, unit : Nat]
IsConsolidation(c, phases) ==
    /\ c \in [phase : phases, time : Nat, seen : [Ids -> Snapshots] \cup {<<>>}, at : Nat,
              ds : {c.ds}]
    /\ AreDecisions(c.ds)

\* The units, the log, the jobs and what is in hand have their types.
TypeOK ==
    /\ kind \in Kinds
    /\ units \in [Ids -> Snapshots]
    /\ issued \in 0..MaxUnits
    /\ AreDecisions(log)
    /\ turn \in [Turns -> {turn[t] : t \in Turns}]
    /\ \A t \in Turns :
          IsConsolidation(turn[t], {"idle", "finished", "resolving", "persisted"})
    /\ jobs \in Seq([seen : [Ids -> Snapshots], at : Nat, time : Nat,
                     selected : Seq([place : Nat, unit : Ids])])
    /\ IsConsolidation(worker, {"idle", "corrected", "summaries", "dormant"})
    /\ IsConsolidation(ending, {"idle", "read"})
    /\ turns \in Nat /\ endings \in Nat /\ restarts \in Nat

\* The last change of u before place k of the log.
IsLast(j, k, u) == Touches(log[j], u) /\ \A i \in (j + 1)..(k - 1) : ~Touches(log[i], u)

\* A unit that is superseded or revoked comes back to life only by a correction,
\* or by a write whose unit was read before it went.
DeadStayDead ==
    \A k \in DOMAIN log : \A u \in DOMAIN log[k].writes : \A j \in 1..(k - 1) :
        /\ IsLast(j, k, u)
        /\ log[j].writes[u].after.status \in Gone
        /\ log[k].writes[u].after.status \in Revivable
        => IsCorrection(log[k]) \/ log[k].at < j

\* A correction restores what was before the newest change of its unit.  What
\* else it undoes was not there when the correction was chosen, or bears another
\* time than its place in the log: an earlier one, of a reflection that ran late,
\* or a later one than the turn that corrects.
CorrectsTheNewest ==
    \A k \in DOMAIN log : IsCorrection(log[k]) =>
        LET target == log[k].corrects
        IN  \A j \in (target.place + 1)..(k - 1) :
                Touches(log[j], target.unit) =>
                    \/ IsCorrection(log[j])
                    \/ j > log[k].at
                    \/ log[j].time < log[target.place].time
                    \/ log[j].time >= log[k].time

\* Decided with all the units in sight, and applied before anything changed.
Sound(k) == ~IsCorrection(log[k]) /\ ~log[k].blind /\ log[k].at = k - 1
Live == {u \in Stored : units[u].status \in Revivable}
Excused(object) ==
    \E k \in DOMAIN log : \E u \in DOMAIN log[k].writes :
        /\ ~Sound(k)
        /\ log[k].writes[u].after.status \in Revivable
        /\ log[k].writes[u].after.object = object

\* No two live units of a key have the same object, and a fact or a summary has
\* only one live unit, unless they come from decisions that were made blind,
\* became stale, or were corrections.
MemoriesDistinct ==
    \A u, v \in Live : u # v =>
        /\ units[u].object = units[v].object => Excused(units[u].object)
        /\ kind \in {"fact", "summary"} => \E object \in Objects \cup {NoObject} : Excused(object)
=============================================================================
