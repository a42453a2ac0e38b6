---------------------------- MODULE Wake_proofs ----------------------------
(***************************************************************************)
(* Proofs about Wake for any intervals, limits and keys: scheduled thoughts *)
(* keep their distance, a pending intent that was taken up too often rests, *)
(* and nothing is spoken of twice within the window.                        *)
(***************************************************************************)
EXTENDS Wake, TLAPS

\* A cycle that runs began at some time that has come.
Started == cyc.started <= now /\ (cyc.pc # "idle" => 0 <= cyc.started)

\* The interval that runs began with the last thought, or was reset since.
Intervals == thought <= since /\ since <= now

\* What a scheduled thought was let through for still holds when it consumes
\* the interval: it looks only at thoughts, which no reset forgets.
Waited ==
    cyc.kind = "scheduled" /\ cyc.pc = "observed" /\ thought # Never
        => thought + Interval <= cyc.started

MaySpeak ==
    /\ cyc.speaks => cyc.pc = "recording"
    /\ cyc.key \in Keys /\ (cyc.pc = "deciding" \/ cyc.speaks)
          => ~SpokenLately(cyc.key, cyc.started)

InHand == cyc.same => cyc.key \in Keys /\ pool[cyc.key] # NoCandidate

\* The fields of a candidate tell what its history tells: it is not offered
\* before its rest is over, and a renewal that forgets the cooldown comes when
\* the rest is over.
Rested(c, h) ==
    /\ c.expires # Never
    /\ h.until <= c.notBefore
    /\ h.until <= c.cooldown \/ h.until <= now
    /\ h.times = c.count

Resting == \A k \in Keys : pool[k] # NoCandidate => Rested(pool[k], tired[k])

IInv == TypeOK /\ Started /\ Intervals /\ Waited /\ MaySpeak /\ InHand /\ Resting
        /\ CandidatesRest

Candidates == [notBefore : Times, expires : Times, count : 0..(Limit - 1), cooldown : Times]
Histories == [times : 0..(Limit - 1), until : Times]

-----------------------------------------------------------------------------
(* Candidates that are pruned and renewed.                                 *)

LEMMA ConstantsAreNat ==
    /\ Interval \in Nat \ {0} /\ RetryDelay \in Nat \ {0} /\ Window \in Nat \ {0}
    /\ Limit \in Nat \ {0} /\ Cooldown \in Nat \ {0} /\ Expiry \in Nat \ {0}
    /\ MaxTime \in Nat /\ NoKey \notin Keys
BY WakeAssumption

LEMMA InTimes ==
    /\ Never \in Times
    /\ \A t \in 0..MaxTime : {t, t + Expiry, t + Cooldown, t + RetryDelay} \subseteq Times
BY ConstantsAreNat DEF Times, Never

LEMMA NoneTyped == NoCandidate \in Candidates /\ Fresh \in Histories
BY ConstantsAreNat DEF NoCandidate, Fresh, Candidates, Histories, Times, Never

\* Pruning takes candidates out and changes none.
LEMMA Pruning ==
    ASSUME pool \in [Keys -> Candidates], NEW t
    PROVE  /\ Pruned(t) \in [Keys -> Candidates]
           /\ \A k \in Keys : Pruned(t)[k] # NoCandidate
                                => Pruned(t)[k] = pool[k] /\ pool[k] # NoCandidate
BY NoneTyped DEF Pruned

\* A candidate that is renewed now keeps its rest.
LEMMA Renewal ==
    ASSUME NEW c \in Candidates, now \in 0..MaxTime
    PROVE  /\ Upserted(c, now) \in Candidates
           /\ Upserted(c, now) # NoCandidate
           /\ \A h \in Histories : Rested(c, h) => Rested(Upserted(c, now), h)
           /\ c = NoCandidate => Rested(Upserted(c, now), Fresh)
<1>1. CASE c.cooldown > now
  BY <1>1, ConstantsAreNat DEF Upserted, Candidates, Histories, Times, Never, NoCandidate, Rested
<1>2. CASE ~(c.cooldown > now)
  <2> DEFINE u == Upserted(c, now)
  <2>1. u = [c EXCEPT !.notBefore = now, !.expires = now + Expiry, !.cooldown = Never]
    BY <1>2 DEF Upserted
  <2>2. u.notBefore = now /\ u.expires = now + Expiry /\ u.count = c.count
    BY <2>1 DEF Candidates
  <2>3. u \in Candidates
    BY <2>1, InTimes DEF Candidates
  <2>4. u.expires # Never /\ u # NoCandidate
    BY <2>2, ConstantsAreNat DEF NoCandidate, Never
  <2>5. ASSUME NEW h \in Histories, Rested(c, h)  PROVE Rested(u, h)
    <3>1. h.until \in Int /\ c.cooldown \in Int /\ now \in Int
      BY ConstantsAreNat DEF Histories, Candidates, Times, Never
    <3>2. h.until <= now
      BY <1>2, <2>5, <3>1 DEF Rested
    <3> QED
      BY <2>2, <2>4, <2>5, <3>2 DEF Rested
  <2>6. ASSUME c = NoCandidate  PROVE Rested(u, Fresh)
    <3>1. u.count = 0
      BY <2>2, <2>6 DEF NoCandidate
    <3> QED
      BY <2>2, <2>4, <3>1 DEF Rested, Fresh
  <2> QED
    BY <2>3, <2>4, <2>5, <2>6
<1> QED
  BY <1>1, <1>2

\* Taking a candidate up once more, in a cycle that began when its rest was over.
LEMMA Evaluation ==
    ASSUME NEW c \in Candidates, NEW h \in Histories, NEW t \in 0..MaxTime,
           t <= now, now \in 0..MaxTime, Rested(c, h), h.until <= t
    PROVE  LET e == Evaluated(c, t)
               g == TakenUp(h, t)
           IN  e \in Candidates /\ g \in Histories /\ e # NoCandidate /\ Rested(e, g)
<1> DEFINE e == Evaluated(c, t)
           g == TakenUp(h, t)
<1>1. h.times = c.count /\ h.times \in 0..(Limit - 1) /\ h.until <= c.notBefore
  BY DEF Rested, Histories
<1>2. CASE h.times + 1 < Limit
  <2>1. e = [c EXCEPT !.count = @ + 1, !.cooldown = Never] /\ g = [h EXCEPT !.times = @ + 1]
    BY <1>1, <1>2 DEF Evaluated, TakenUp
  <2>2. h.times + 1 \in 0..(Limit - 1)
    BY <1>1, <1>2, ConstantsAreNat
  <2>3. e \in Candidates /\ g \in Histories
    BY <1>1, <2>1, <2>2, InTimes DEF Candidates, Histories
  <2>4. e.expires = c.expires /\ e.notBefore = c.notBefore /\ e.count = h.times + 1
        /\ g.until = h.until /\ g.times = h.times + 1
    BY <1>1, <2>1 DEF Candidates, Histories
  <2>5. h.until <= now
    BY ConstantsAreNat DEF Histories, Times, Never
  <2> QED
    BY <1>1, <2>3, <2>4, <2>5 DEF Rested, NoCandidate
<1>3. CASE ~(h.times + 1 < Limit)
  <2>1. /\ e = [c EXCEPT !.count = 0, !.notBefore = t + Cooldown, !.cooldown = t + Cooldown]
        /\ g = [times |-> 0, until |-> t + Cooldown]
    BY <1>1, <1>3 DEF Evaluated, TakenUp
  <2>2. 0 \in 0..(Limit - 1) /\ t + Cooldown \in Times
    BY ConstantsAreNat, InTimes
  <2> HIDE DEF e, g
  <2>3. e \in Candidates /\ g \in Histories
    BY <2>1, <2>2 DEF Candidates, Histories
  <2>4. e.expires = c.expires /\ e.notBefore = t + Cooldown /\ e.cooldown = t + Cooldown
        /\ e.count = 0 /\ g.until = t + Cooldown /\ g.times = 0
    BY <2>1 DEF Candidates
  <2>5. t + Cooldown <= t + Cooldown
    BY ConstantsAreNat
  <2> QED
    BY <2>3, <2>4, <2>5 DEF e, g, Rested, NoCandidate
<1> QED
  BY <1>2, <1>3

\* The two halves of what a step that renews one candidate leaves behind.
LEMMA RenewalStep ==
    ASSUME TypeOK, Resting, NEW k \in Keys, UpsertKey(k), now' = now
    PROVE  /\ pool' \in [Keys -> Candidates] /\ tired' \in [Keys -> Histories]
           /\ pool'[k] # NoCandidate
           /\ \A q \in Keys : Pruned(now)[q] # NoCandidate
                 => pool'[q] # NoCandidate /\ tired'[q] = tired[q]
           /\ Resting'
<1> DEFINE P == Pruned(now)
<1>1. pool \in [Keys -> Candidates] /\ tired \in [Keys -> Histories] /\ now \in 0..MaxTime
  BY DEF TypeOK, Candidates, Histories
<1>2. /\ P \in [Keys -> Candidates]
      /\ \A q \in Keys : P[q] # NoCandidate => P[q] = pool[q] /\ pool[q] # NoCandidate
  BY <1>1, Pruning
<1> DEFINE u == Upserted(P[k], now)
<1>3. pool' = [P EXCEPT ![k] = u]
  BY <1>2 DEF UpsertKey
<1>4. /\ tired' \in [Keys -> Histories]
      /\ tired'[k] = IF P[k] = NoCandidate THEN Fresh ELSE tired[k]
      /\ \A q \in Keys \ {k} : P[q] # NoCandidate => tired'[q] = tired[q]
  BY <1>1, <1>2, NoneTyped DEF UpsertKey, Followed
<1> HIDE DEF P
<1>5. /\ u \in Candidates /\ u # NoCandidate
      /\ \A h \in Histories : Rested(P[k], h) => Rested(u, h)
      /\ P[k] = NoCandidate => Rested(u, Fresh)
  BY <1>1, <1>2, Renewal
<1> HIDE DEF u
<1>6. pool' \in [Keys -> Candidates] /\ pool'[k] = u
      /\ \A q \in Keys \ {k} : pool'[q] = P[q]
  BY <1>2, <1>3, <1>5
<1>7. ASSUME NEW q \in Keys, pool'[q] # NoCandidate
      PROVE  Rested(pool'[q], tired'[q])
  <2>1. CASE q = k /\ P[k] = NoCandidate
    BY <2>1, <1>4, <1>5, <1>6
  <2>2. CASE P[q] # NoCandidate
    <3>1. Rested(P[q], tired[q]) /\ tired'[q] = tired[q] /\ tired[q] \in Histories
      BY <2>2, <1>1, <1>2, <1>4 DEF Resting
    <3> QED
      BY <3>1, <1>5, <1>6
  <2> QED
    BY <2>1, <2>2, <1>6, <1>7
<1>8. Resting'
  BY <1>7 DEF Resting, Rested
<1> QED
  BY <1>2, <1>4, <1>5, <1>6, <1>8 DEF P

\* Taking candidates out leaves the others as they were.
LEMMA RemovalStep ==
    ASSUME TypeOK, Resting, NEW p \in [Keys -> Candidates], now' = now,
           \A k \in Keys : p[k] # NoCandidate => p[k] = pool[k],
           pool' = p, tired' = Followed(p)
    PROVE  tired' \in [Keys -> Histories] /\ Resting'
           /\ \A k \in Keys : p[k] # NoCandidate => tired'[k] = tired[k]
<1>1. pool \in [Keys -> Candidates] /\ tired \in [Keys -> Histories]
  BY DEF TypeOK, Candidates, Histories
<1>2. tired' \in [Keys -> Histories]
      /\ \A k \in Keys : p[k] # NoCandidate => tired'[k] = tired[k]
  BY <1>1, NoneTyped DEF Followed
<1> QED
  BY <1>1, <1>2 DEF Resting, Rested

-----------------------------------------------------------------------------
(* The initial state and the steps.                                        *)

LEMMA InitIInv == Init => IInv
<1> SUFFICES ASSUME Init  PROVE IInv
  OBVIOUS
<1>1. TypeOK
  BY ConstantsAreNat, NoneTyped, InTimes
     DEF Init, TypeOK, Candidates, Histories, NoCycle, NoPatch
<1>2. Started /\ Intervals /\ Waited
  BY DEF Init, Started, Intervals, Waited, NoCycle, Never
<1>3. MaySpeak /\ InHand /\ Resting /\ CandidatesRest
  BY WakeAssumption DEF Init, MaySpeak, InHand, Resting, CandidatesRest, NoCycle, Fresh, Never
<1> QED
  BY <1>1, <1>2, <1>3 DEF IInv

LEMMA CycleTyped ==
    ASSUME IInv
    PROVE  /\ now \in 0..MaxTime /\ since \in Int /\ thought \in Int
           /\ cyc.started \in Int /\ cyc.key \in Keys \cup {NoKey}
           /\ cyc.pc # "idle" => cyc.started \in 0..MaxTime
           /\ \A k \in Keys : tired[k].until \in Int /\ pool[k].notBefore \in Int
<1>1. Times \subseteq Int
  BY ConstantsAreNat DEF Times, Never
<1>2. /\ now \in 0..MaxTime /\ since \in 0..MaxTime /\ thought \in Times
      /\ cyc.started \in Times /\ cyc.key \in Keys \cup {NoKey}
      /\ \A k \in Keys : tired[k].until \in Times /\ pool[k].notBefore \in Times
  BY DEF IInv, TypeOK
<1>3. cyc.pc # "idle" => cyc.started \in 0..MaxTime
  BY <1>1, <1>2, ConstantsAreNat DEF IInv, Started
<1>4. \A x \in 0..MaxTime : x \in Int
  OBVIOUS
<1> QED
  BY <1>1, <1>2, <1>3, <1>4

\* What a step makes of the cycle when one starts, and when it selects.
LEMMA StartShape ==
    ASSUME StartScheduled \/ StartByApi
    PROVE  /\ cyc = NoCycle
           /\ \E kind \in {"scheduled", "once", "api"} :
                 cyc' = [kind |-> kind, pc |-> "begun", started |-> now,
                         key |-> NoKey, same |-> FALSE, speaks |-> FALSE]
<1>1. \E kind \in {"scheduled", "once", "api"} : Start(kind)
  BY DEF StartScheduled, StartByApi
<1> QED
  BY <1>1 DEF Start, NoCycle

LEMMA SelectShape ==
    ASSUME IInv, Select
    PROVE  \/ cyc' = NoCycle
           \/ \E k \in Eligible(cyc.started) \cup {NoKey}, same \in BOOLEAN :
                 /\ same <=> k # NoKey
                 /\ cyc' = [kind |-> cyc.kind, pc |-> "selected", started |-> cyc.started,
                            key |-> k, same |-> same, speaks |-> cyc.speaks]
                 /\ ~cyc.speaks
<1>1. cyc = [kind |-> cyc.kind, pc |-> cyc.pc, started |-> cyc.started,
            key |-> cyc.key, same |-> cyc.same, speaks |-> cyc.speaks]
  BY DEF IInv, TypeOK
<1>2. ~cyc.speaks
  BY DEF IInv, MaySpeak, Select
<1>3. ASSUME NEW k, cyc' = [cyc EXCEPT !.pc = "selected", !.key = k, !.same = (k # NoKey)]
      PROVE  cyc' = [kind |-> cyc.kind, pc |-> "selected", started |-> cyc.started,
                     key |-> k, same |-> (k # NoKey), speaks |-> cyc.speaks]
  BY <1>1, <1>3
<1>4. CASE cyc' = NoCycle
  BY <1>4
<1>5. ASSUME NEW k \in Eligible(cyc.started) \cup {NoKey},
             cyc' = [cyc EXCEPT !.pc = "selected", !.key = k, !.same = (k # NoKey)]
      PROVE  \E same \in BOOLEAN :
                 /\ same <=> k # NoKey
                 /\ cyc' = [kind |-> cyc.kind, pc |-> "selected", started |-> cyc.started,
                            key |-> k, same |-> same, speaks |-> cyc.speaks]
  <2> WITNESS (k # NoKey) \in BOOLEAN
  <2> QED
    BY <1>3, <1>5
<1> QED
  BY <1>2, <1>4, <1>5 DEF Select, EndCycle

\* Only a cycle that consumes the interval moves thought, and only to its own
\* beginning.
LEMMA ClockStep == IInv /\ [Next]_vars => Started' /\ Intervals' /\ Waited'
<1> SUFFICES ASSUME IInv, [Next]_vars  PROVE Started' /\ Intervals' /\ Waited'
  OBVIOUS
<1> USE CycleTyped, ConstantsAreNat
<1>1. CASE Tick
  BY <1>1 DEF IInv, Started, Intervals, Waited, Tick, policyVars, timerVars
<1>2. CASE ChangeSettings
  BY <1>2 DEF IInv, Started, Intervals, Waited, ChangeSettings, timerVars
<1>3. CASE ClearLayers
  BY <1>3 DEF IInv, TypeOK, Started, Intervals, Waited, ClearLayers
<1>4. CASE SyncPolicy
  BY <1>4 DEF IInv, Started, Intervals, Waited, SyncPolicy
<1>5. CASE \E k \in Keys : Intend(k)
  BY <1>5 DEF IInv, Started, Intervals, Waited, Intend, timerVars
<1>6. CASE FindDue \/ StandBack
  BY <1>6 DEF IInv, Started, Intervals, Waited, FindDue, StandBack, timerVars
<1>7. CASE StartScheduled \/ StartByApi
  <2>1. UNCHANGED <<now, since, thought>>
    BY <1>7 DEF StartScheduled, StartByApi, timerVars
  <2> QED
    BY <1>7, <2>1, StartShape DEF IInv, Started, Intervals, Waited
<1>8. CASE NotDueAnyMore \/ EntryFails \/ DecisionFails \/ RecordSpeech \/ RecordEvaluation
  BY <1>8 DEF IInv, Started, Intervals, Waited, NotDueAnyMore, EntryFails, DecisionFails,
              RecordSpeech, RecordEvaluation, EndCycle, NoCycle, Never, timerVars
<1>9. CASE Select
  <2>1. UNCHANGED <<now, since, thought>> /\ cyc.pc = "begun"
    BY <1>9 DEF Select, timerVars
  <2> QED
    BY <1>9, <2>1, SelectShape DEF IInv, Started, Intervals, Waited, NoCycle, Never
<1>10. CASE Observe
  BY <1>10 DEF IInv, TypeOK, Started, Intervals, Waited, Observe, DueInCycle, Due, timerVars
<1>11. CASE NothingToThink
  BY <1>11 DEF IInv, Started, Intervals, Waited, NothingToThink, Consume, EndCycle, NoCycle,
               Never, timerVars
<1>12. CASE Enter
  BY <1>12 DEF IInv, TypeOK, Started, Intervals, Waited, Enter, Consume, timerVars
<1>13. CASE Decide
  BY <1>13 DEF IInv, TypeOK, Started, Intervals, Waited, Decide, timerVars
<1>14. CASE UNCHANGED vars
  BY <1>14 DEF IInv, Started, Intervals, Waited, vars, timerVars
<1> QED
  BY <1>1, <1>2, <1>3, <1>4, <1>5, <1>6, <1>7, <1>8, <1>9, <1>10, <1>11, <1>12, <1>13, <1>14
     DEF Next, Settings, Cycle

\* A cycle asks whether its key was spoken of lately after it was chosen, and
\* only its own end writes that down.
LEMMA SpeechStep == IInv /\ [Next]_vars => MaySpeak'
<1> SUFFICES ASSUME IInv, [Next]_vars  PROVE MaySpeak'
  OBVIOUS
<1>1. CASE Tick \/ ChangeSettings \/ SyncPolicy \/ FindDue \/ StandBack
           \/ (\E k \in Keys : Intend(k)) \/ UNCHANGED vars
  BY <1>1 DEF IInv, MaySpeak, SpokenLately, Tick, ChangeSettings, SyncPolicy, FindDue, StandBack,
              Intend, vars, intentVars
<1>2. CASE ClearLayers
  BY <1>2 DEF IInv, TypeOK, MaySpeak, SpokenLately, ClearLayers
<1>3. CASE StartScheduled \/ StartByApi
  BY <1>3, StartShape DEF MaySpeak
<1>4. CASE NotDueAnyMore \/ NothingToThink \/ EntryFails \/ DecisionFails \/ RecordSpeech
           \/ RecordEvaluation
  BY <1>4 DEF MaySpeak, NotDueAnyMore, NothingToThink, EntryFails, DecisionFails,
              RecordSpeech, RecordEvaluation, EndCycle, NoCycle
<1>5. CASE Select
  BY <1>5, SelectShape DEF MaySpeak, NoCycle
<1>6. CASE Observe
  <2>1. cyc' = [cyc EXCEPT !.pc = IF DueInCycle THEN "observed" ELSE "recording"]
        /\ spoken' = spoken /\ ~cyc.speaks
    BY <1>6 DEF IInv, MaySpeak, Observe, intentVars
  <2> QED
    BY <2>1 DEF IInv, TypeOK, MaySpeak
<1>7. CASE Enter
  <2>1. cyc' = [cyc EXCEPT !.pc = IF cyc.key # NoKey /\ SpokenLately(cyc.key, cyc.started)
                                  THEN "recording" ELSE "deciding"]
        /\ spoken' = spoken /\ ~cyc.speaks
    BY <1>7 DEF IInv, MaySpeak, Enter, intentVars
  <2> QED
    BY <2>1, WakeAssumption DEF IInv, TypeOK, MaySpeak, SpokenLately
<1>8. CASE Decide
  <2>1. /\ cyc.pc = "deciding" /\ spoken' = spoken
        /\ cyc'.pc = "recording" /\ cyc'.key = cyc.key /\ cyc'.started = cyc.started
    BY <1>8 DEF IInv, TypeOK, Decide
  <2> QED
    BY <2>1 DEF IInv, MaySpeak, SpokenLately
<1> QED
  BY <1>1, <1>2, <1>3, <1>4, <1>5, <1>7, <1>8, <1>6 DEF Next, Settings, Cycle

\* Steps that leave the candidates, their history and what the cycle has in
\* hand alone.
LEMMA OthersKeepCandidates ==
    ASSUME IInv, pool' = pool, tired' = tired, now <= now', now' \in Int,
           cyc'.same => cyc.same /\ cyc'.key = cyc.key /\ cyc'.started = cyc.started
    PROVE  InHand' /\ Resting' /\ CandidatesRest'
<1>1. ASSUME NEW k \in Keys, pool[k] # NoCandidate  PROVE Rested(pool[k], tired[k])'
  <2>1. Rested(pool[k], tired[k])
    BY <1>1 DEF IInv, Resting
  <2> QED
    BY <1>1, <2>1, CycleTyped DEF Rested
<1>2. Resting'
  BY <1>1 DEF Resting
<1>3. InHand' /\ CandidatesRest'
  BY DEF IInv, InHand, CandidatesRest
<1> QED
  BY <1>2, <1>3

\* The candidate a cycle has in hand is the one it selected, and rested when
\* the cycle began.
LEMMA CandidateStep == IInv /\ [Next]_vars => InHand' /\ Resting' /\ CandidatesRest'
<1> SUFFICES ASSUME IInv, [Next]_vars  PROVE InHand' /\ Resting' /\ CandidatesRest'
  OBVIOUS
<1>1. pool \in [Keys -> Candidates] /\ tired \in [Keys -> Histories] /\ now \in 0..MaxTime
      /\ TypeOK /\ Resting /\ InHand /\ CandidatesRest
  BY DEF IInv, TypeOK, Candidates, Histories
<1>2. CASE Tick \/ ChangeSettings \/ SyncPolicy \/ FindDue \/ StandBack \/ UNCHANGED vars
  <2>1. pool' = pool /\ tired' = tired /\ cyc' = cyc /\ (now' = now \/ now' = now + 1)
    BY <1>2 DEF Tick, ChangeSettings, SyncPolicy, FindDue, StandBack, vars, intentVars
  <2> QED
    BY <1>1, <2>1, OthersKeepCandidates
<1>3. CASE ClearLayers
  <2>1. \A k \in Keys : pool'[k] = NoCandidate
    BY <1>3 DEF ClearLayers
  <2>2. ~cyc'.same
    BY <1>3 DEF IInv, TypeOK, ClearLayers
  <2> QED
    BY <2>1, <2>2 DEF InHand, Resting, CandidatesRest
<1>4. ASSUME NEW k \in Keys, Intend(k)  PROVE InHand' /\ Resting' /\ CandidatesRest'
  <2>1. UpsertKey(k) /\ now' = now /\ ~cyc'.same
    BY <1>4 DEF Intend, NoCycle
  <2> QED
    BY <1>1, <2>1, RenewalStep DEF InHand, CandidatesRest
<1>5. CASE StartScheduled \/ StartByApi
  <2>1. pool' = pool /\ tired' = tired /\ now' = now
    BY <1>5 DEF StartScheduled, StartByApi, intentVars
  <2> QED
    BY <1>1, <1>5, <2>1, StartShape, OthersKeepCandidates
<1>6. CASE NotDueAnyMore \/ NothingToThink \/ EntryFails \/ DecisionFails
  <2>1. pool' = pool /\ tired' = tired /\ now' = now /\ ~cyc'.same
    BY <1>6 DEF NotDueAnyMore, NothingToThink, EntryFails, DecisionFails, EndCycle, NoCycle, intentVars
  <2> QED
    BY <1>1, <2>1, OthersKeepCandidates
<1>7. CASE Observe \/ Enter
  <2>1. pool' = pool /\ tired' = tired /\ now' = now
        /\ \E pc : cyc' = [cyc EXCEPT !.pc = pc]
    BY <1>7 DEF Observe, Enter, intentVars
  <2>2. cyc'.same = cyc.same /\ cyc'.key = cyc.key /\ cyc'.started = cyc.started
    BY <2>1 DEF IInv, TypeOK
  <2> QED
    BY <1>1, <2>1, <2>2, OthersKeepCandidates
<1>8. CASE Select
  <2> DEFINE t == cyc.started
             p == Pruned(t)
  <2>1. p \in [Keys -> Candidates]
        /\ \A k \in Keys : p[k] # NoCandidate => p[k] = pool[k] /\ pool[k] # NoCandidate
    BY <1>1, Pruning
  <2>2. pool' = p /\ tired' = Followed(p) /\ now' = now
    BY <1>8 DEF Select
  <2>3. Resting' /\ \A k \in Keys : p[k] # NoCandidate => tired'[k] = tired[k]
    BY <1>1, <2>1, <2>2, RemovalStep
  <2>4. ASSUME cyc'.same
        PROVE  cyc'.key \in Keys /\ p[cyc'.key] # NoCandidate
               /\ p[cyc'.key].notBefore <= t /\ cyc'.started = t
    BY <1>8, <2>4, SelectShape DEF Eligible, NoCycle
  <2>5. ASSUME cyc'.same  PROVE tired'[cyc'.key].until <= t
    <3>1. Rested(pool[cyc'.key], tired[cyc'.key])
      BY <1>1, <2>1, <2>4, <2>5 DEF Resting
    <3> QED
      BY <2>1, <2>3, <2>4, <2>5, <3>1, CycleTyped DEF Rested
  <2> QED
    BY <2>2, <2>3, <2>4, <2>5 DEF InHand, CandidatesRest
<1>9. CASE Decide
  <2>1. now' = now /\ cyc'.key = cyc.key /\ cyc'.started = cyc.started
    BY <1>9 DEF IInv, TypeOK, Decide
  <2>2. PICK k \in Keys \cup {NoKey} :
          /\ cyc'.same => cyc.same /\ (k # NoKey => Pruned(now)[cyc.key] # NoCandidate)
          /\ IF k = NoKey THEN UNCHANGED <<pool, tired>> ELSE UpsertKey(k)
    BY <1>9 DEF IInv, TypeOK, Decide
  <2>3. CASE k = NoKey
    <3>1. pool' = pool /\ tired' = tired
      BY <2>2, <2>3
    <3>2. cyc'.same => cyc.same
      BY <2>2
    <3>3. now <= now' /\ now' \in Int
      BY <1>1, <2>1
    <3> QED
      BY <2>1, <3>1, <3>2, <3>3, OthersKeepCandidates
  <2>4. CASE k # NoKey
    <3>1. /\ Resting'
          /\ \A q \in Keys : Pruned(now)[q] # NoCandidate
                 => pool'[q] # NoCandidate /\ tired'[q] = tired[q]
      BY <1>1, <2>1, <2>2, <2>4, RenewalStep
    <3> QED
      BY <1>1, <2>1, <2>2, <2>4, <3>1 DEF InHand, CandidatesRest
  <2> QED
    BY <2>3, <2>4
<1>10. CASE RecordSpeech
  <2>1. now' = now /\ ~cyc'.same /\ tired' = Followed(pool')
        /\ pool' = IF cyc.same THEN [pool EXCEPT ![cyc.key] = NoCandidate] ELSE pool
    BY <1>10 DEF RecordSpeech, EndCycle, NoCycle
  <2>2. pool' \in [Keys -> Candidates]
        /\ \A k \in Keys : pool'[k] # NoCandidate => pool'[k] = pool[k]
    BY <1>1, <2>1, NoneTyped DEF InHand
  <2>3. Resting'
    BY <1>1, <2>1, <2>2, RemovalStep
  <2> QED
    BY <2>1, <2>3 DEF InHand, CandidatesRest
<1>11. CASE RecordEvaluation
  <2>1. now' = now /\ ~cyc'.same
    BY <1>11 DEF RecordEvaluation, EndCycle, NoCycle
  <2>2. CASE ~cyc.same
    BY <1>1, <1>11, <2>1, <2>2, OthersKeepCandidates DEF RecordEvaluation
  <2>3. CASE cyc.same
    <3> DEFINE q == cyc.key
               t == cyc.started
    <3>1. q \in Keys /\ Rested(pool[q], tired[q]) /\ tired[q].until <= t
          /\ t \in 0..MaxTime /\ t <= now
      BY <1>1, <1>11, <2>3, CycleTyped
         DEF IInv, InHand, Resting, CandidatesRest, RecordEvaluation, Started
    <3>2. /\ pool' = [pool EXCEPT ![q] = Evaluated(@, t)]
          /\ tired' = [tired EXCEPT ![q] = TakenUp(@, t)]
      BY <1>11, <2>3 DEF RecordEvaluation
    <3>3. Rested(pool'[q], tired'[q])
      <4> DEFINE e == Evaluated(pool[q], t)
                 g == TakenUp(tired[q], t)
      <4>1. pool[q] \in Candidates /\ tired[q] \in Histories
        BY <1>1, <3>1
      <4>2. Rested(e, g)
        BY <1>1, <3>1, <4>1, Evaluation
      <4>3. pool'[q] = e /\ tired'[q] = g
        BY <1>1, <3>1, <3>2
      <4> HIDE DEF e, g
      <4> QED
        BY <4>2, <4>3
    <3>4. \A k \in Keys \ {q} : pool'[k] = pool[k] /\ tired'[k] = tired[k]
      BY <1>1, <3>2
    <3>5. Resting'
      BY <1>1, <2>1, <3>3, <3>4 DEF Resting, Rested
    <3> QED
      BY <2>1, <3>5 DEF InHand, CandidatesRest
  <2> QED
    BY <2>2, <2>3
<1> QED
  BY <1>2, <1>3, <1>4, <1>5, <1>6, <1>7, <1>8, <1>9, <1>10, <1>11 DEF Next, Settings, Cycle

-----------------------------------------------------------------------------
(* Types.                                                                  *)

Kinds == {"none", "scheduled", "once", "api"}
Places == {"idle", "begun", "selected", "observed", "deciding", "recording"}
Cycles == [kind : Kinds, pc : Places, started : Times, key : Keys \cup {NoKey},
           same : BOOLEAN, speaks : BOOLEAN]

LEMMA CycleTypes == IInv /\ [Next]_vars => cyc' \in Cycles
<1> SUFFICES ASSUME IInv, [Next]_vars  PROVE cyc' \in Cycles
  OBVIOUS
<1>1. cyc \in Cycles /\ now \in 0..MaxTime
  BY DEF IInv, TypeOK, Cycles, Kinds, Places
<1>2. NoCycle \in Cycles
  BY InTimes DEF NoCycle, Cycles, Kinds, Places
<1>3. CASE cyc' = cyc \/ cyc' = NoCycle
  BY <1>1, <1>2, <1>3
<1>4. ASSUME NEW pc \in Places, cyc' = [cyc EXCEPT !.pc = pc]  PROVE cyc' \in Cycles
  BY <1>1, <1>4 DEF Cycles
<1>5. CASE StartScheduled \/ StartByApi
  <2>1. PICK kind \in {"scheduled", "once", "api"} :
          cyc' = [kind |-> kind, pc |-> "begun", started |-> now,
                  key |-> NoKey, same |-> FALSE, speaks |-> FALSE]
    BY <1>5, StartShape
  <2> QED
    BY <1>1, <2>1, InTimes DEF Cycles, Kinds, Places
<1>6. CASE Select
  <2>1. CASE cyc' = NoCycle
    BY <1>2, <2>1
  <2>2. ASSUME NEW k \in Eligible(cyc.started) \cup {NoKey}, NEW same \in BOOLEAN,
               cyc' = [kind |-> cyc.kind, pc |-> "selected", started |-> cyc.started,
                       key |-> k, same |-> same, speaks |-> cyc.speaks]
        PROVE  cyc' \in Cycles
    BY <1>1, <2>2 DEF Cycles, Places, Eligible
  <2> QED
    BY <1>6, <2>1, <2>2, SelectShape
<1>7. CASE ClearLayers
  BY <1>1, <1>7 DEF ClearLayers, Cycles
<1>8. CASE Observe
  <2>1. cyc' = [cyc EXCEPT !.pc = "observed"] \/ cyc' = [cyc EXCEPT !.pc = "recording"]
    BY <1>8 DEF Observe
  <2> QED
    BY <1>4, <2>1 DEF Places
<1>9. CASE Enter
  <2>1. cyc' = [cyc EXCEPT !.pc = "recording"] \/ cyc' = [cyc EXCEPT !.pc = "deciding"]
    BY <1>9 DEF Enter
  <2> QED
    BY <1>4, <2>1 DEF Places
<1>10. CASE Decide
  <2>1. PICK speaks \in BOOLEAN, k \in Keys \cup {NoKey} :
          cyc' = [cyc EXCEPT
                    !.pc = "recording", !.speaks = speaks,
                    !.same = @ /\ (k # NoKey => Pruned(now)[cyc.key] # NoCandidate)]
    BY <1>10 DEF Decide
  <2>2. PICK same \in BOOLEAN : same = (cyc.same /\ (k # NoKey => Pruned(now)[cyc.key] # NoCandidate))
    OBVIOUS
  <2>3. cyc' = [cyc EXCEPT !.pc = "recording", !.speaks = speaks, !.same = same]
    BY <2>1, <2>2
  <2> QED
    BY <1>1, <2>3 DEF Cycles, Places
<1>11. Tick \/ ChangeSettings \/ SyncPolicy \/ FindDue \/ StandBack
       \/ (\E k \in Keys : Intend(k)) \/ UNCHANGED vars => cyc' = cyc
  BY DEF Tick, ChangeSettings, SyncPolicy, FindDue, StandBack, Intend, vars
<1>12. NotDueAnyMore \/ NothingToThink \/ EntryFails \/ DecisionFails \/ RecordSpeech
       \/ RecordEvaluation => cyc' = NoCycle
  BY DEF NotDueAnyMore, NothingToThink, EntryFails, DecisionFails, RecordSpeech,
         RecordEvaluation, EndCycle
<1> QED
  BY <1>3, <1>5, <1>6, <1>7, <1>8, <1>9, <1>10, <1>11, <1>12 DEF Next, Settings, Cycle

IntentsTyped ==
    /\ pool \in [Keys -> Candidates]
    /\ tired \in [Keys -> Histories]
    /\ spoken \in [Keys -> Times]

LEMMA IntentTypes == IInv /\ [Next]_vars => IntentsTyped'
<1> SUFFICES ASSUME IInv, [Next]_vars  PROVE IntentsTyped'
  OBVIOUS
<1>1. /\ pool \in [Keys -> Candidates] /\ tired \in [Keys -> Histories]
      /\ spoken \in [Keys -> Times] /\ now \in 0..MaxTime /\ TypeOK /\ Resting
  BY DEF IInv, TypeOK, Candidates, Histories
<1>2. ASSUME NEW k \in Keys, UpsertKey(k), now' = now, spoken' = spoken
      PROVE  IntentsTyped'
  BY <1>1, <1>2, RenewalStep DEF IntentsTyped
<1>3. CASE UNCHANGED <<pool, tired, spoken>>
  BY <1>1, <1>3 DEF IntentsTyped
<1>4. CASE ClearLayers
  BY <1>4, NoneTyped, InTimes DEF ClearLayers, IntentsTyped
<1>5. CASE \E k \in Keys : Intend(k)
  BY <1>2, <1>5 DEF Intend
<1>6. CASE Select
  <2> DEFINE p == Pruned(cyc.started)
  <2>1. /\ p \in [Keys -> Candidates]
        /\ \A k \in Keys : p[k] # NoCandidate => p[k] = pool[k] /\ pool[k] # NoCandidate
    BY <1>1, Pruning
  <2>2. pool' = p /\ tired' = Followed(p) /\ now' = now /\ spoken' = spoken
    BY <1>6 DEF Select
  <2>3. tired' \in [Keys -> Histories]
    BY <1>1, <2>1, <2>2, RemovalStep
  <2> QED
    BY <1>1, <2>1, <2>2, <2>3 DEF IntentsTyped
<1>7. CASE Decide
  <2>1. now' = now /\ spoken' = spoken
    BY <1>7 DEF Decide
  <2>2. PICK k \in Keys \cup {NoKey} : IF k = NoKey THEN UNCHANGED <<pool, tired>> ELSE UpsertKey(k)
    BY <1>7 DEF Decide
  <2> QED
    BY <1>2, <1>3, <2>1, <2>2
<1>8. CASE RecordSpeech
  <2>1. /\ tired' = Followed(pool')
        /\ pool' = IF cyc.same THEN [pool EXCEPT ![cyc.key] = NoCandidate] ELSE pool
        /\ spoken' = IF cyc.key = NoKey THEN spoken ELSE [spoken EXCEPT ![cyc.key] = cyc.started]
    BY <1>8 DEF RecordSpeech
  <2>2. cyc.started \in Times
    BY DEF IInv, TypeOK
  <2>3. pool' \in [Keys -> Candidates] /\ spoken' \in [Keys -> Times]
    BY <1>1, <2>1, <2>2, NoneTyped
  <2>4. tired' \in [Keys -> Histories]
    BY <1>1, <2>1, NoneTyped DEF Followed
  <2> QED
    BY <2>3, <2>4 DEF IntentsTyped
<1>9. CASE RecordEvaluation
  <2>1. CASE ~cyc.same
    BY <1>3, <1>9, <2>1 DEF RecordEvaluation
  <2>2. CASE cyc.same
    <3> DEFINE q == cyc.key
               t == cyc.started
    <3>1. q \in Keys /\ Rested(pool[q], tired[q]) /\ tired[q].until <= t
          /\ t \in 0..MaxTime /\ t <= now
      BY <1>1, <1>9, <2>2, CycleTyped
         DEF IInv, InHand, Resting, CandidatesRest, RecordEvaluation, Started
    <3>2. /\ pool' = [pool EXCEPT ![q] = Evaluated(@, t)]
          /\ tired' = [tired EXCEPT ![q] = TakenUp(@, t)]
          /\ spoken' = spoken
      BY <1>9, <2>2 DEF RecordEvaluation
    <3>3. pool[q] \in Candidates /\ tired[q] \in Histories
      BY <1>1, <3>1
    <3>4. Evaluated(pool[q], t) \in Candidates /\ TakenUp(tired[q], t) \in Histories
      BY <1>1, <3>1, <3>3, Evaluation
    <3> QED
      BY <1>1, <3>1, <3>2, <3>4 DEF IntentsTyped
  <2> QED
    BY <2>1, <2>2
<1>10. Tick \/ ChangeSettings \/ SyncPolicy \/ FindDue \/ StandBack \/ StartScheduled
       \/ StartByApi \/ NotDueAnyMore \/ Observe \/ NothingToThink \/ EntryFails \/ Enter
       \/ DecisionFails \/ UNCHANGED vars => UNCHANGED <<pool, tired, spoken>>
  BY DEF Tick, ChangeSettings, SyncPolicy, FindDue, StandBack, StartScheduled, StartByApi,
         NotDueAnyMore, Observe, NothingToThink, EntryFails, Enter, DecisionFails, vars, intentVars
<1> QED
  BY <1>3, <1>4, <1>5, <1>6, <1>7, <1>8, <1>9, <1>10 DEF Next, Settings, Cycle

ClocksTyped ==
    /\ now \in 0..MaxTime /\ enabled \in BOOLEAN
    /\ since \in 0..MaxTime /\ retry \in Times /\ thought \in Times
    /\ sched \in {"waiting", "due"}
    /\ patch \in [clear : BOOLEAN, sync : BOOLEAN]

LEMMA ClockTypes == IInv /\ [Next]_vars => ClocksTyped'
<1> SUFFICES ASSUME IInv, [Next]_vars  PROVE ClocksTyped'
  OBVIOUS
<1>1. ClocksTyped /\ cyc.started \in Times /\ now \in Times
      /\ (cyc.pc # "idle" => cyc.started \in 0..MaxTime)
  BY CycleTyped, InTimes DEF IInv, TypeOK, ClocksTyped
<1>2. CASE Tick
  BY <1>1, <1>2, ConstantsAreNat DEF Tick, ClocksTyped, policyVars, timerVars
<1>3. CASE ChangeSettings
  <2>1. PICK mode \in BOOLEAN, clears \in BOOLEAN :
          enabled' = mode /\ patch' = [clear |-> clears, sync |-> mode /\ ~enabled]
    BY <1>3 DEF ChangeSettings
  <2>2. patch' \in [clear : BOOLEAN, sync : BOOLEAN]
    BY <1>1, <2>1 DEF ClocksTyped
  <2> QED
    BY <1>1, <1>3, <2>1, <2>2 DEF ChangeSettings, ClocksTyped, timerVars
<1>4. CASE ClearLayers
  BY <1>1, <1>4, InTimes DEF ClearLayers, ClocksTyped
<1>5. CASE SyncPolicy
  BY <1>1, <1>5, InTimes DEF SyncPolicy, ClocksTyped, NoPatch
<1>6. CASE FindDue \/ StandBack \/ StartScheduled
  BY <1>1, <1>6 DEF FindDue, StandBack, StartScheduled, ClocksTyped, policyVars, timerVars
<1>7. CASE NothingToThink
  BY <1>1, <1>7, InTimes DEF NothingToThink, Consume, ClocksTyped, policyVars, timerVars
<1>8. CASE Enter
  BY <1>1, <1>8, InTimes DEF Enter, Consume, ClocksTyped, policyVars, timerVars
<1>9. (\E k \in Keys : Intend(k)) \/ StartByApi \/ NotDueAnyMore \/ Select \/ Observe
      \/ EntryFails \/ Decide \/ DecisionFails \/ RecordSpeech \/ RecordEvaluation
      \/ UNCHANGED vars => UNCHANGED <<now, enabled, patch, since, retry, thought, sched>>
  BY DEF Intend, StartByApi, NotDueAnyMore, Select, Observe, EntryFails, Decide, DecisionFails,
         RecordSpeech, RecordEvaluation, vars, policyVars, timerVars
<1>10. CASE UNCHANGED <<now, enabled, patch, since, retry, thought, sched>>
  BY <1>1, <1>10 DEF ClocksTyped
<1> QED
  BY <1>2, <1>3, <1>4, <1>5, <1>6, <1>7, <1>8, <1>9, <1>10 DEF Next, Settings, Cycle

LEMMA Invariance == Spec => []IInv
<1>1. IInv /\ [Next]_vars => TypeOK'
  BY CycleTypes, IntentTypes, ClockTypes
     DEF TypeOK, Cycles, Kinds, Places, IntentsTyped, ClocksTyped, Candidates, Histories
<1>2. IInv /\ [Next]_vars => IInv'
  BY <1>1, ClockStep, SpeechStep, CandidateStep DEF IInv
<1> QED
  BY InitIInv, <1>2, PTL DEF Spec

-----------------------------------------------------------------------------
(* The theorems.                                                           *)

\* Timers, candidates and the cycle keep their types: no count reaches the
\* limit at which it is set back, whatever expires or is reset meanwhile.
THEOREM TypeCorrect == Spec => []TypeOK
<1>1. IInv => TypeOK
  BY DEF IInv
<1> QED
  BY <1>1, Invariance, PTL

\* A candidate that a cycle takes up has had its rest since it was taken up
\* Limit times, whoever renewed it in between.
THEOREM IntentsRest == Spec => []CandidatesRest
<1>1. IInv => CandidatesRest
  BY DEF IInv
<1> QED
  BY <1>1, Invariance, PTL

\* Two thoughts, the later of them the scheduler's, are a whole interval apart,
\* also when an API's thought comes between the scheduler's look and its cycle.
THEOREM ThoughtsKeepDistance == Spec => ThoughtsSpaced
<1> DEFINE A == thought' # thought /\ thought # Never /\ cyc.kind = "scheduled"
                  => thought' >= thought + Interval
<1>1. ASSUME IInv, [Next]_vars  PROVE [A]_vars
  <2> SUFFICES ASSUME thought' # thought, thought # Never, cyc.kind = "scheduled"
               PROVE  thought' >= thought + Interval
    OBVIOUS
  <2>1. CASE cyc.pc = "observed" /\ thought' = cyc.started
    BY <1>1, <2>1, CycleTyped, ConstantsAreNat DEF IInv, Waited
  <2>2. NothingToThink \/ Enter => cyc.pc = "observed" /\ thought' = cyc.started
    BY DEF NothingToThink, Enter, Consume, timerVars
  <2>3. (\E k \in Keys : Intend(k)) \/ StartScheduled \/ StartByApi \/ NotDueAnyMore \/ Select
        \/ Observe \/ EntryFails \/ Decide \/ DecisionFails \/ RecordSpeech \/ RecordEvaluation
        \/ UNCHANGED vars => thought' = thought
    BY DEF Intend, StartScheduled, StartByApi, NotDueAnyMore, Select, Observe, EntryFails,
           Decide, DecisionFails, RecordSpeech, RecordEvaluation, vars, timerVars
  <2>4. Tick \/ ChangeSettings \/ ClearLayers \/ SyncPolicy \/ FindDue \/ StandBack
        => thought' = thought
    BY DEF Tick, ChangeSettings, ClearLayers, SyncPolicy, FindDue, StandBack, timerVars
  <2> QED
    BY <1>1, <2>1, <2>2, <2>3, <2>4 DEF Next, Settings, Cycle
<1>2. Spec => [][A]_vars
  BY <1>1, Invariance, PTL DEF Spec
<1> QED
  BY <1>2 DEF ThoughtsSpaced

\* Nothing is spoken of twice within the window, though the cycle looked at
\* what was spoken of long before it speaks: its own end alone writes that.
THEOREM SaidOnceAWhile == Spec => SpokenOnceAWhile
<1> DEFINE A == \A k \in Keys :
                  spoken[k] # Never /\ spoken'[k] \notin {spoken[k], Never}
                     => spoken'[k] >= spoken[k] + Window
<1>1. ASSUME IInv, [Next]_vars  PROVE [A]_vars
  <2> SUFFICES ASSUME NEW k \in Keys, spoken[k] # Never, spoken'[k] \notin {spoken[k], Never}
               PROVE  spoken'[k] >= spoken[k] + Window
    OBVIOUS
  <2>1. spoken \in [Keys -> Times] /\ spoken[k] \in Int /\ cyc.started \in Int
    BY <1>1, CycleTyped, ConstantsAreNat DEF IInv, TypeOK, Times, Never
  <2>2. CASE RecordSpeech
    <3>1. spoken'[k] = cyc.started /\ cyc.key = k /\ cyc.speaks
      BY <2>1, <2>2 DEF RecordSpeech
    <3>2. ~SpokenLately(k, cyc.started)
      BY <1>1, <3>1 DEF IInv, MaySpeak
    <3> QED
      BY <2>1, <3>1, <3>2, ConstantsAreNat DEF SpokenLately
  <2>3. ClearLayers => spoken'[k] = Never
    BY DEF ClearLayers
  <2>4. (\E q \in Keys : Intend(q)) \/ StartScheduled \/ StartByApi \/ NotDueAnyMore \/ Select
        \/ Observe \/ NothingToThink \/ EntryFails \/ Enter \/ Decide \/ DecisionFails
        \/ RecordEvaluation \/ UNCHANGED vars => spoken' = spoken
    BY DEF Intend, StartScheduled, StartByApi, NotDueAnyMore, Select, Observe, NothingToThink,
           EntryFails, Enter, Decide, DecisionFails, RecordEvaluation, vars, intentVars
  <2>5. Tick \/ ChangeSettings \/ SyncPolicy \/ FindDue \/ StandBack => spoken' = spoken
    BY DEF Tick, ChangeSettings, SyncPolicy, FindDue, StandBack, intentVars
  <2> QED
    BY <1>1, <2>2, <2>3, <2>4, <2>5 DEF Next, Settings, Cycle
<1>2. Spec => [][A]_vars
  BY <1>1, Invariance, PTL DEF Spec
<1> QED
  BY <1>2 DEF SpokenOnceAWhile
=============================================================================
