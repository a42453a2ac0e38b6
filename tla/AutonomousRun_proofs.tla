------------------------ MODULE AutonomousRun_proofs ------------------------
(***************************************************************************)
(* Proofs about AutonomousRun for any runs, requests, limits and times:    *)
(* whatever the APIs do, a run that rests is not due; and while clients    *)
(* only cancel, a waiting run waits for a request that can still come, has *)
(* no other one out, rests after the limit of its steps, and gets its      *)
(* pauses back.  The pause and resume APIs break the latter (they write    *)
(* back what they read before), and that a wait ends is model-checked.     *)
(***************************************************************************)
EXTENDS AutonomousRun, TLAPS

AtRun == {"guard", "take", "put", "think", "dispatch", "send", "read", "write",
          "link", "linking"}

Cycles ==
    [kind : {"none", "user", "cancel_all", "wake", "step", "result"},
     pc : {"idle", "begin", "decide", "ending", "end"} \cup AtRun,
     run : Runs \cup {Nobody}, of : Requests \cup {None},
     act : Actions \cup {"fail"}, then : Transitions, more : 0..2]

\* A request that somebody still has to settle.
Out(q) == req[q] \in {"open", "answered", "expired"}

\* A timer does not end before the rest, or the rest is over at t.
Timed(x, t) == x.next # NoTime => x.cool <= x.next \/ x.cool <= t

\* A record that is not due at t while it rests, nor would be if it were given
\* back after a conversation.
RestsAt(x, t) ==
    /\ x.status = "active" => x.cool <= t
    /\ x.status = "waiting_timer" => Timed(x, t)
    /\ x.reason = "user" =>
          /\ x.status = "paused"
          /\ \/ x.resume = "active" /\ x.cool <= t
             \/ x.resume = "waiting_timer" /\ Timed(x, t)

\* A record as it may be written.
Kept(x) == x \in Records /\ RestsAt(x, now)

\* The records in the store, and those that somebody has read and will write.
StoreOK == run \in [Runs -> Records] /\ \A r \in Runs : RestsAt(run[r], now)
HeldOK == Kept(held)
TodoOK == todo \subseteq Runs \X Records \X (0..2) /\ \A t \in todo : RestsAt(t[2], now)
ApiOK ==
    /\ api \in [op : ApiOps \cup {"none"}, run : Runs \cup {Nobody}, write : Records, more : 0..2]
    /\ RestsAt(api.write, now)
    /\ api # NoCall => api.run \in Runs
MarkOK ==
    /\ mark \in [of : Requests \cup {None}, write : Records]
    /\ RestsAt(mark.write, now)
    /\ mark # NoMark => mark.of \in Requests /\ req[mark.of] = "expired"

CycleOK == cyc \in Cycles /\ (cyc.pc \in AtRun => cyc.run \in Runs)

RequestsOK ==
    /\ req \in [Requests -> {"unused", "open", "answered", "expired", "done"}]
    /\ owner \in [Requests -> Runs \cup {Nobody}]
    /\ \A q \in Requests : Out(q) => owner[q] \in Runs

LocksOK ==
    /\ now \in 0..MaxTime /\ restarts \in 0..MaxRestarts
    /\ lock \in [Runs -> {"free", "cycle", "mark"}]
    /\ rest \in [Runs -> NoTime..MaxTime + Cooldown]

RevivedOK == revived \subseteq Requests

IInv == /\ StoreOK /\ HeldOK /\ TodoOK /\ ApiOK /\ MarkOK
        /\ CycleOK /\ RequestsOK /\ LocksOK /\ RevivedOK

-----------------------------------------------------------------------------
(* What the code computes from a record.                                   *)

LEMMA Constants ==
    /\ MaxRequests \in Nat /\ MaxTime \in Nat /\ MaxRestarts \in Nat
    /\ StepLimit \in Nat \ {0} /\ Cooldown \in Nat \ {0} /\ Nobody \notin Runs
    /\ Requests = 1..MaxRequests /\ None = 0 /\ NoTime = -1 /\ None \notin Requests
BY RunAssumption DEF Requests, None, NoTime

LEMMA Fields ==
    ASSUME NEW x \in Records
    PROVE  /\ x.status \in Statuses /\ x.resume \in Statuses \cup {"none"}
           /\ x.reason \in {"none", "manual", "user"} /\ x.waits \in Requests \cup {None}
           /\ x.next \in NoTime..MaxTime + Cooldown /\ x.cool \in NoTime..MaxTime + Cooldown
           /\ x.count \in 0..StepLimit - 1
           /\ x.next \in Int /\ x.cool \in Int /\ x.count \in Int
BY Constants DEF Records

LEMMA EmptyRecord ==
    /\ NoRun \in Records /\ NoRun.status = "absent" /\ NoRun.cool = NoTime
    /\ NoRun.waits = None /\ NoRun.reason = "none"
    /\ \A t : RestsAt(NoRun, t)
<1>1. 0 \in 0..StepLimit - 1 /\ NoTime \in NoTime..MaxTime + Cooldown
  BY Constants
<1>2. NoRun \in Records
  BY <1>1 DEF NoRun, Records, Statuses
<1> QED
  BY <1>2 DEF NoRun, RestsAt

LEMMA EndedRecord ==
    ASSUME NEW x \in Records, NEW status \in Terminal, NEW y, y = Ended(x, status)
    PROVE  /\ y \in Records /\ y.status = status /\ y.waits = None /\ y.cool = NoTime
           /\ y.reason = "none"
           /\ \A t : RestsAt(y, t)
<1>1. 0 \in 0..StepLimit - 1 /\ NoTime \in NoTime..MaxTime + Cooldown
  BY Constants
<1>2. /\ y.status = status /\ y.waits = None /\ y.cool = NoTime /\ y.reason = "none"
      /\ y \in Records
  BY <1>1 DEF Ended, Records, Statuses
<1>3. status \notin {"active", "waiting_timer"}
  BY DEF Terminal
<1> QED
  BY <1>2, <1>3 DEF RestsAt

LEMMA PausedRecord ==
    ASSUME NEW x \in Records, NEW reason \in {"manual", "user"}, NEW y, y = Paused(x, reason)
    PROVE  /\ y \in Records /\ y.status = "paused" /\ y.reason = reason
           /\ y.waits = x.waits /\ y.cool = x.cool
           /\ \A t : /\ RestsAt(x, t)
                     /\ reason = "user" => x.status \in {"active", "waiting_timer"}
                     => RestsAt(y, t)
<1>1. /\ y.status = "paused" /\ y.reason = reason /\ y.resume = x.status
      /\ y.waits = x.waits /\ y.cool = x.cool /\ y.next = x.next
      /\ y \in Records
  BY DEF Paused, Records, Statuses
<1> QED
  BY <1>1 DEF RestsAt, Timed

LEMMA ResumedRecord ==
    ASSUME now \in 0..MaxTime, NEW x \in Records, NEW y, y = Resumed(x)
    PROVE  y \in Records /\ RestsAt(y, now)
<1>1. now \in 0..MaxTime /\ now \in NoTime..MaxTime + Cooldown /\ NoTime \in NoTime..MaxTime + Cooldown
  BY Constants
<1> DEFINE cool == ActiveCooldown(x, now)
<1>2. cool \in NoTime..MaxTime + Cooldown /\ (cool # NoTime \/ cool <= now)
  BY <1>1, Constants, Fields DEF ActiveCooldown
<1> HIDE DEF cool
<1>3. /\ y.reason = "none" /\ y.cool = cool
      /\ \/ y.status = "waiting_result"
         \/ y.status = "waiting_timer" /\ (y.next = cool \/ cool = NoTime)
         \/ y.status = "active" /\ cool = NoTime
      /\ y \in Records
  BY <1>1, <1>2 DEF Resumed, Records, Statuses, cool
<1> QED
  BY <1>1, <1>2, <1>3, Constants DEF RestsAt, Timed

LEMMA ResumedAfterUserRecord ==
    ASSUME NEW x \in Records, ByUserPause(x), NEW y, y = ResumedAfterUser(x)
    PROVE  /\ y \in Records /\ y.status \in {"active", "waiting_timer"}
           /\ y.reason = "none" /\ y.waits = x.waits /\ y.cool = x.cool
           /\ \A t : RestsAt(x, t) => RestsAt(y, t)
<1>1. /\ y.status = IF x.resume \in {"active", "waiting_timer"} THEN x.resume ELSE "active"
      /\ y.reason = "none" /\ y.waits = x.waits /\ y.cool = x.cool /\ y.next = x.next
      /\ y \in Records
  BY DEF ResumedAfterUser, Records, Statuses
<1> QED
  BY <1>1 DEF RestsAt, Timed, ByUserPause

\* An answer, or an expiry, is taken in with a time t that may be long past.
LEMMA AfterResultRecord ==
    ASSUME now \in 0..MaxTime, NEW x \in Records, NEW t \in 0..now, NEW y,
           y \in {AfterResult(x, t), Interrupted(x, t)}
    PROVE  /\ y \in Records /\ y.waits = None
           /\ x.status # "paused" => y.status \in {"active", "waiting_timer"}
           /\ x.status = "paused" => y.status = "paused" /\ y.reason = x.reason
           /\ y.reason \in {x.reason, "none"}
           /\ y.cool = x.cool \/ x.cool <= now
           /\ RestsAt(x, now) => RestsAt(y, now)
<1>1. /\ now \in 0..MaxTime /\ t <= now /\ t \in NoTime..MaxTime + Cooldown
      /\ NoTime \in NoTime..MaxTime + Cooldown
  BY Constants
<1> DEFINE cool == ActiveCooldown(x, t)
           z == AfterResult(x, t)
<1>2. /\ cool \in NoTime..MaxTime + Cooldown /\ (cool = NoTime => cool <= now)
      /\ cool = x.cool \/ x.cool <= now
  BY <1>1, Constants, Fields DEF ActiveCooldown
<1> HIDE DEF cool
<1>3. /\ z.waits = None /\ z.cool = cool /\ z.reason = x.reason
      /\ z.next = IF cool = NoTime THEN t ELSE cool
      /\ x.status = "paused" =>
            z.status = "paused" /\ z.resume = IF cool = NoTime THEN "active" ELSE "waiting_timer"
      /\ x.status # "paused" =>
            z.status = IF cool = NoTime THEN "active" ELSE "waiting_timer"
  BY DEF AfterResult, Records, cool
<1>4. z \in Records
  BY <1>1, <1>2 DEF AfterResult, Records, Statuses, cool
<1> HIDE DEF z
<1>5. RestsAt(x, now) => RestsAt(z, now)
  BY <1>1, <1>2, <1>3, Constants, Fields DEF RestsAt, Timed
<1>6. \/ y = z
      \/ x.status # "paused" /\ y = [z EXCEPT !.reason = "none"]
  BY DEF Interrupted, z
<1>7. ASSUME x.status # "paused", y = [z EXCEPT !.reason = "none"]
      PROVE  /\ y \in Records /\ y.reason = "none"
             /\ y.status = z.status /\ y.waits = z.waits /\ y.cool = z.cool /\ y.next = z.next
  BY <1>4, <1>7 DEF Records
<1>8. ASSUME x.status # "paused", y = [z EXCEPT !.reason = "none"], RestsAt(x, now)
      PROVE  RestsAt(y, now)
  BY <1>5, <1>7, <1>8 DEF RestsAt, Timed
<1> QED
  BY <1>2, <1>3, <1>4, <1>5, <1>6, <1>7, <1>8

LEMMA CountedRecord ==
    ASSUME now \in 0..MaxTime, NEW x \in Records, NEW y, y = [Counted(x) EXCEPT !.reason = "none"]
    PROVE  /\ y \in Records /\ y.reason = "none"
           /\ y.cool = NoTime \/ y.cool = now + Cooldown
<1>1. /\ NoTime \in NoTime..MaxTime + Cooldown /\ now + Cooldown \in NoTime..MaxTime + Cooldown
      /\ 0 \in 0..StepLimit - 1
      /\ x.count + 1 < StepLimit => x.count + 1 \in 0..StepLimit - 1
  <2>1. x.count \in 0..StepLimit - 1
    BY Fields
  <2> QED
    BY <2>1, Constants
<1>2. Counted(x) \in Records /\ Counted(x).cool \in {NoTime, now + Cooldown}
  BY <1>1 DEF Counted, Records
<1> QED
  BY <1>2 DEF Records

LEMMA SteppedRecord ==
    ASSUME now \in 0..MaxTime, cyc \in Cycles, NEW x \in Records, NEW y, y = Stepped(x)
    PROVE  /\ y \in Records /\ y.reason = "none" /\ RestsAt(y, now)
           /\ cyc.act = "request" => y.status = "waiting_result" /\ y.waits = cyc.of
           /\ cyc.act # "request" => y.waits = None /\ y.status \in Terminal \cup {"waiting_timer"}
           /\ y.status \in Terminal => y.cool = NoTime
           /\ MoreWrites(y) \in 0..2
<1> DEFINE counted == [Counted(x) EXCEPT !.reason = "none"]
<1>1. /\ counted \in Records /\ counted.reason = "none"
      /\ counted.cool = NoTime \/ counted.cool = now + Cooldown
  BY CountedRecord
<1> HIDE DEF counted
<1>2. /\ now + 1 \in NoTime..MaxTime + Cooldown /\ NoTime \in NoTime..MaxTime + Cooldown
      /\ NoTime <= now /\ 0 \in 0..StepLimit - 1 /\ counted.cool \in NoTime..MaxTime + Cooldown
  BY <1>1, Constants, Fields
<1>3. MoreWrites(y) \in 0..2
  BY DEF MoreWrites
<1>4. CASE /\ cyc.act = "request"
           /\ y = [counted EXCEPT !.status = "waiting_result", !.waits = cyc.of, !.next = NoTime]
  <2>1. y = [counted EXCEPT !.status = "waiting_result", !.waits = cyc.of, !.next = NoTime]
    BY <1>4
  <2>2. y.status = "waiting_result" /\ y.waits = cyc.of /\ y.reason = "none"
    BY <1>1, <2>1 DEF Records
  <2>3. cyc.of \in Requests \cup {None}
    BY DEF Cycles
  <2>4. y \in Records
    BY <1>1, <1>2, <2>1, <2>3 DEF Records, Statuses
  <2> QED
    BY <1>3, <1>4, <2>2, <2>4 DEF RestsAt, Terminal
<1>5. CASE y \in {Ended(x, "completed"), Ended(x, "cancelled")} /\ cyc.act # "request"
  <2>1. {"completed", "cancelled"} \subseteq Terminal
    BY DEF Terminal
  <2> QED
    BY <1>3, <1>5, <2>1, EndedRecord
<1>6. CASE /\ cyc.act # "request"
           /\ y = [x EXCEPT !.status = "waiting_timer", !.waits = None, !.next = now + 1,
                            !.reason = "none", !.count = 0, !.cool = NoTime]
  <2>1. y.status = "waiting_timer" /\ y.waits = None /\ y.reason = "none" /\ y.cool = NoTime
    BY ONLY <1>6, x \in Records DEF Records
  <2>2. y \in Records
    BY ONLY <1>2, <1>6, x \in Records DEF Records, Statuses
  <2> QED
    BY ONLY <1>2, <1>3, <1>6, <2>1, <2>2 DEF RestsAt, Timed, Terminal
<1>7. CASE /\ cyc.act # "request"
           /\ y = [counted EXCEPT !.status = "waiting_timer", !.waits = None,
                                  !.next = IF counted.cool = NoTime THEN now + 1
                                           ELSE counted.cool]
  <2>1. /\ y.status = "waiting_timer" /\ y.waits = None /\ y.reason = "none"
        /\ y.cool = counted.cool /\ (counted.cool = NoTime \/ y.next = counted.cool)
    BY ONLY <1>1, <1>7 DEF Records
  <2>2. y \in Records
    <3> DEFINE next == IF counted.cool = NoTime THEN now + 1 ELSE counted.cool
    <3>1. next \in NoTime..MaxTime + Cooldown
      BY <1>2
    <3>2. y = [counted EXCEPT !.status = "waiting_timer", !.waits = None, !.next = next]
      BY <1>7
    <3> HIDE DEF next
    <3> QED
      BY ONLY <1>1, <3>1, <3>2 DEF Records, Statuses
  <2>3. Timed(y, now)
    <3>1. y.cool \in Int /\ (y.cool <= now \/ y.next = y.cool)
      BY ONLY <1>2, <2>1, <2>2, Constants, Fields
    <3> QED
      BY ONLY <3>1 DEF Timed
  <2> QED
    BY <1>3, <1>7, <2>1, <2>2, <2>3 DEF RestsAt, Terminal
<1> QED
  BY <1>4, <1>5, <1>6, <1>7 DEF Stepped, counted

LEMMA RestsOn ==
    ASSUME NEW x \in Records, NEW t \in Int, NEW u \in Int, t <= u, RestsAt(x, t)
    PROVE  RestsAt(x, u)
BY Fields DEF RestsAt, Timed

-----------------------------------------------------------------------------
(* Every step writes well-formed records that rest.                        *)

LEMMA InvFacts ==
    ASSUME IInv
    PROVE  /\ \A r \in Runs : Kept(run[r])
           /\ Kept(held) /\ Kept(api.write) /\ Kept(mark.write)
           /\ \A t \in todo : t[1] \in Runs /\ t[2] \in Records /\ t[3] \in 0..2 /\ Kept(t[2])
           /\ now \in 0..MaxTime /\ now \in Int /\ cyc \in Cycles
<1>1. now \in 0..MaxTime /\ now \in Int /\ cyc \in Cycles
  BY Constants DEF IInv, LocksOK, CycleOK
<1>2. api.write \in Records /\ mark.write \in Records
  BY DEF IInv, ApiOK, MarkOK
<1>3. \A t \in todo : t[1] \in Runs /\ t[2] \in Records /\ t[3] \in 0..2
  BY DEF IInv, TodoOK
<1> QED
  BY <1>1, <1>2, <1>3 DEF IInv, StoreOK, HeldOK, TodoOK, ApiOK, MarkOK, Kept

\* What a step leaves alone stays as it was, while the clock stands.
LEMMA Frames ==
    ASSUME IInv, now' = now
    PROVE  /\ run' = run => StoreOK'
           /\ held' = held => HeldOK'
           /\ todo' = todo => TodoOK'
           /\ api' = api => ApiOK'
           /\ mark' = mark /\ req' = req => MarkOK'
           /\ cyc' = cyc => CycleOK'
           /\ req' = req /\ owner' = owner => RequestsOK'
           /\ restarts' = restarts /\ lock' = lock /\ rest' = rest => LocksOK'
           /\ revived' = revived => RevivedOK'
<1>1. run' = run => StoreOK'
  BY DEF IInv, StoreOK
<1>2. held' = held => HeldOK'
  BY DEF IInv, HeldOK, Kept
<1>3. todo' = todo => TodoOK'
  BY DEF IInv, TodoOK
<1>4. api' = api => ApiOK'
  BY DEF IInv, ApiOK
<1>5. mark' = mark /\ req' = req => MarkOK'
  BY DEF IInv, MarkOK
<1>6. cyc' = cyc => CycleOK'
  BY DEF IInv, CycleOK
<1>7. req' = req /\ owner' = owner => RequestsOK'
  BY DEF IInv, RequestsOK, Out
<1>8. restarts' = restarts /\ lock' = lock /\ rest' = rest => LocksOK'
  BY DEF IInv, LocksOK
<1>9. revived' = revived => RevivedOK'
  BY DEF IInv, RevivedOK
<1> QED
  BY <1>1, <1>2, <1>3, <1>4, <1>5, <1>6, <1>7, <1>8, <1>9

LEMMA Written ==
    ASSUME IInv, now' = now, NEW r \in Runs, NEW x, Kept(x), Store(r, x)
    PROVE  StoreOK'
<1>1. run' = [run EXCEPT ![r] = x] /\ x \in Records /\ RestsAt(x, now)
  BY DEF Store, Kept
<1> QED
  BY <1>1 DEF IInv, StoreOK

LEMMA NothingRead ==
    /\ NoCycle \in Cycles /\ NoCycle.pc = "idle" /\ NoCycle.kind = "none"
    /\ NoCycle.act = "none" /\ Kept(NoRun)
    /\ NoCall \in [op : ApiOps \cup {"none"}, run : Runs \cup {Nobody},
                   write : Records, more : 0..2]
    /\ NoMark \in [of : Requests \cup {None}, write : Records]
    /\ NoCall.write = NoRun /\ NoMark.write = NoRun
BY EmptyRecord DEF NoCycle, Cycles, Actions, Transitions, NoCall, NoMark, Kept

LEMMA OverCycle ==
    ASSUME cyc \in Cycles, Over
    PROVE  /\ cyc' \in Cycles /\ cyc'.pc \in {"idle", "ending"}
           /\ cyc'.kind \in {cyc.kind, "none"} /\ (cyc.kind = "user" => cyc'.kind = "user")
<1>1. CASE cyc.kind = "user"
  <2>1. cyc' = [cyc EXCEPT !.pc = "ending"]
    BY <1>1 DEF Over
  <2> QED
    BY ONLY <2>1, cyc \in Cycles DEF Cycles
<1>2. CASE cyc.kind # "user"
  BY <1>2, NothingRead DEF Over
<1> QED
  BY <1>1, <1>2

LEMMA Left ==
    ASSUME IInv, Leave
    PROVE  /\ CycleOK' /\ Kept(held')
           /\ lock' \in [Runs -> {"free", "cycle", "mark"}]
           /\ cyc'.pc \in {"idle", "ending", "link"} /\ cyc'.kind \in {cyc.kind, "none"}
           /\ cyc.kind = "user" => cyc'.kind = "user"
           /\ held' = NoRun
           /\ \A r \in Runs : lock'[r] = IF lock[r] = "cycle" THEN "free" ELSE lock[r]
<1>1. CycleOK' /\ cyc'.pc \in {"idle", "ending", "link"} /\ cyc'.kind \in {cyc.kind, "none"}
      /\ (cyc.kind = "user" => cyc'.kind = "user")
  <2>1. cyc \in Cycles
    BY InvFacts
  <2>2. CASE cyc.kind = "user" /\ Over
    BY <2>1, <2>2, OverCycle DEF CycleOK, AtRun
  <2>3. CASE cyc.kind # "user" /\ Over
    BY <2>1, <2>3, OverCycle DEF CycleOK, AtRun
  <2>4. CASE HasStarted /\ cyc' = [cyc EXCEPT !.pc = "link"]
    <3>1. cyc' = [cyc EXCEPT !.pc = "link"] /\ cyc.run # Nobody
      BY <2>4 DEF HasStarted
    <3>2. cyc' \in Cycles /\ cyc'.pc = "link" /\ cyc'.kind = cyc.kind /\ cyc'.run \in Runs
      BY ONLY <2>1, <3>1 DEF Cycles, AtRun
    <3> QED
      BY <3>2 DEF CycleOK
  <2> QED
    BY <2>2, <2>3, <2>4 DEF Leave
<1>2. held' = NoRun /\ lock' = [r \in Runs |-> IF lock[r] = "cycle" THEN "free" ELSE lock[r]]
  BY DEF Leave
<1>3. lock \in [Runs -> {"free", "cycle", "mark"}]
  BY DEF IInv, LocksOK
<1>4. Kept(held')
  BY <1>2, NothingRead
<1> QED
  BY <1>1, <1>2, <1>3, <1>4

LEMMA TickKeeps == ASSUME IInv, Tick PROVE IInv'
<1>1. /\ now' = now + 1 /\ now' \in 0..MaxTime /\ now \in Int /\ now' \in Int /\ now <= now'
      /\ UNCHANGED <<run, req, owner, cyc, held, todo, api, mark, lock, restarts, rest, revived>>
  BY InvFacts, Constants DEF Tick, memory
<1>2. \A x \in Records : RestsAt(x, now) => RestsAt(x, now')
  BY <1>1, RestsOn
<1>3. StoreOK' /\ HeldOK'
  BY <1>1, <1>2 DEF IInv, StoreOK, HeldOK, Kept
<1>4. TodoOK'
  BY <1>1, <1>2, InvFacts DEF IInv, TodoOK
<1>5. ApiOK' /\ MarkOK'
  BY <1>1, <1>2, InvFacts DEF IInv, ApiOK, MarkOK
<1>6. CycleOK' /\ RequestsOK' /\ LocksOK' /\ RevivedOK'
  BY <1>1 DEF IInv, CycleOK, RequestsOK, LocksOK, RevivedOK, Out
<1> QED
  BY <1>3, <1>4, <1>5, <1>6 DEF IInv

LEMMA SettleKeeps ==
    ASSUME IInv, NEW q \in Requests, Answer(q) \/ Expire(q)
    PROVE  IInv'
<1>1. /\ req[q] = "open" /\ req' \in {[req EXCEPT ![q] = "answered"], [req EXCEPT ![q] = "expired"]}
      /\ UNCHANGED <<run, owner, now, cyc, held, todo, api, mark, lock, restarts, rest, revived>>
  BY DEF Answer, Expire, memory
<1>2. RequestsOK'
  BY <1>1 DEF IInv, RequestsOK, Out
<1>3. MarkOK'
  BY <1>1 DEF IInv, MarkOK, RequestsOK
<1> QED
  BY <1>1, <1>2, <1>3, Frames DEF IInv

LEMMA MarkReadKeeps ==
    ASSUME IInv, NEW q \in Requests, MarkRead(q)
    PROVE  IInv'
<1>1. /\ req[q] = "expired" /\ mark = NoMark /\ owner[q] \in Runs
      /\ UNCHANGED <<run, owner, now, cyc, held, todo, api, restarts, rest, revived>>
  BY DEF MarkRead, IInv, RequestsOK, Out
<1>2. CASE MarkApplies(run[owner[q]], q)
  <2>1. PICK t \in 0..now : mark' = [of |-> q, write |-> Interrupted(run[owner[q]], t)]
    BY <1>2 DEF MarkRead
  <2>2. req' = req /\ lock' = [lock EXCEPT ![owner[q]] = "mark"]
    BY <1>2 DEF MarkRead
  <2>3. mark'.of = q /\ Kept(mark'.write) /\ mark' \in [of : Requests \cup {None}, write : Records]
    <3>1. Kept(Interrupted(run[owner[q]], t))
      BY <1>1, <2>1, AfterResultRecord, InvFacts DEF Kept
    <3> QED
      BY <2>1, <3>1 DEF Kept
  <2>4. MarkOK'
    BY <1>1, <2>2, <2>3 DEF MarkOK, Kept
  <2>5. LocksOK'
    BY <1>1, <2>2 DEF IInv, LocksOK
  <2> QED
    BY <1>1, <2>2, <2>4, <2>5, Frames DEF IInv
<1>3. CASE ~MarkApplies(run[owner[q]], q)
  <2>1. req' = [req EXCEPT ![q] = "done"] /\ mark' = mark /\ lock' = lock
    BY <1>3 DEF MarkRead
  <2>2. RequestsOK'
    BY <1>1, <2>1 DEF IInv, RequestsOK, Out
  <2>3. MarkOK'
    BY <1>1, <2>1 DEF IInv, MarkOK
  <2> QED
    BY <1>1, <2>1, <2>2, <2>3, Frames DEF IInv
<1> QED
  BY <1>2, <1>3

LEMMA MarkWriteKeeps == ASSUME IInv, MarkWrite PROVE IInv'
<1>1. /\ mark # NoMark /\ mark.of \in Requests /\ owner[mark.of] \in Runs
      /\ Store(owner[mark.of], mark.write) /\ Kept(mark.write)
      /\ req' = [req EXCEPT ![mark.of] = "done"] /\ mark' = NoMark
      /\ lock' = [lock EXCEPT ![owner[mark.of]] = "free"]
      /\ UNCHANGED <<owner, now, cyc, held, todo, api, restarts, rest, revived>>
  BY InvFacts DEF MarkWrite, IInv, MarkOK, RequestsOK, Out
<1>2. StoreOK'
  BY <1>1, Written
<1>3. RequestsOK'
  BY <1>1 DEF IInv, RequestsOK, Out
<1>4. MarkOK'
  BY <1>1, NothingRead DEF MarkOK, Kept
<1>5. LocksOK'
  BY <1>1 DEF IInv, LocksOK
<1> QED
  BY <1>1, <1>2, <1>3, <1>4, <1>5, Frames DEF IInv

LEMMA ApiReadKeeps ==
    ASSUME IInv, NEW op \in ApiOps, NEW r \in Runs, ApiRead(op, r)
    PROVE  IInv'
<1> DEFINE x == ApiResult(op, run[r])
<1>1. /\ ApiApplies(op, run[r])
      /\ api' = [op |-> op, run |-> r, write |-> x, more |-> MoreWrites(x)]
      /\ UNCHANGED <<run, req, owner, now, cyc, held, todo, mark, lock, restarts, rest, revived>>
  BY DEF ApiRead
<1>2. run[r] \in Records /\ RestsAt(run[r], now) /\ op \in {"pause", "resume", "cancel"}
  BY InvFacts, RunAssumption DEF Kept
<1>3. x = Paused(run[r], "manual") \/ x = Resumed(run[r]) \/ x = Ended(run[r], "cancelled")
  BY <1>2 DEF ApiResult
<1> HIDE DEF x
<1>4. Kept(x)
  BY <1>2, <1>3, PausedRecord, ResumedRecord, EndedRecord, InvFacts DEF Kept, Terminal
<1>5. MoreWrites(x) \in 0..2
  BY DEF MoreWrites
<1>6. ApiOK'
  BY <1>1, <1>4, <1>5 DEF ApiOK, Kept
<1> QED
  BY <1>1, <1>6, Frames DEF IInv

LEMMA ApiWriteKeeps == ASSUME IInv, ApiWrite PROVE IInv'
<1>1. /\ api # NoCall /\ api.run \in Runs /\ Kept(api.write) /\ Store(api.run, api.write)
      /\ api' = NoCall \/ (api.more > 0 /\ api' = [api EXCEPT !.more = @ - 1])
      /\ UNCHANGED <<req, owner, now, cyc, held, todo, mark, lock, restarts, rest, revived>>
  BY InvFacts DEF ApiWrite, IInv, ApiOK
<1>2. StoreOK'
  BY <1>1, Written
<1>3. ApiOK'
  <2>1. CASE api' = NoCall
    BY <1>1, <2>1, NothingRead DEF ApiOK, Kept
  <2>2. CASE api.more > 0 /\ api' = [api EXCEPT !.more = @ - 1]
    <3>1. api \in [op : ApiOps \cup {"none"}, run : Runs \cup {Nobody},
                   write : Records, more : 0..2]
      BY DEF IInv, ApiOK
    <3>2. /\ api' \in [op : ApiOps \cup {"none"}, run : Runs \cup {Nobody},
                       write : Records, more : 0..2]
          /\ api'.run = api.run /\ api'.write = api.write
      BY ONLY <2>2, <3>1
    <3> QED
      BY <1>1, <3>2 DEF ApiOK, Kept
  <2> QED
    BY <1>1, <2>1, <2>2
<1> QED
  BY <1>1, <1>2, <1>3, Frames DEF IInv

LEMMA UserStartKeeps ==
    ASSUME IInv, NEW kind \in {"user", "cancel_all"}, UserStart(kind)
    PROVE  IInv'
<1>1. /\ cyc = NoCycle /\ cyc' = [cyc EXCEPT !.kind = kind, !.pc = "begin"]
      /\ UNCHANGED <<now, api, mark, restarts, run, req, owner, held, lock, rest, revived>>
  BY DEF UserStart, Outside
<1>2. CycleOK'
  BY <1>1, NothingRead DEF Cycles, CycleOK, AtRun
<1>3. \A t \in todo' : /\ t \in Runs \X Records \X (0..2)
                       /\ RestsAt(t[2], now)
  <2>1. CASE kind = "user"
    <3>1. ASSUME NEW r \in Runs, run[r].status \in {"active", "waiting_timer"}
          PROVE  Kept(Paused(run[r], "user"))
      BY <3>1, PausedRecord, InvFacts DEF Kept
    <3> QED
      BY <2>1, <3>1 DEF UserStart, Kept
  <2>2. CASE kind # "user"
    <3>1. ASSUME NEW r \in Runs  PROVE Kept(Ended(run[r], "cancelled"))
      BY EndedRecord, InvFacts DEF Kept, Terminal
    <3> QED
      BY <2>2, <3>1 DEF UserStart, Kept
  <2> QED
    BY <2>1, <2>2
<1>4. TodoOK'
  BY <1>1, <1>3 DEF TodoOK
<1> QED
  BY <1>1, <1>2, <1>4, Frames DEF IInv

LEMMA UserBeginKeeps ==
    ASSUME IInv, NEW t \in todo, UserBegin(t) \/ UserEnd(t)
    PROVE  IInv'
<1>1. /\ Store(t[1], t[2]) /\ t[1] \in Runs /\ Kept(t[2]) /\ t[2] \in Records /\ t[3] \in 0..2
      /\ \/ todo' = todo \ {t}
         \/ t[3] > 0 /\ todo' = (todo \ {t}) \cup {<<t[1], t[2], t[3] - 1>>}
      /\ UNCHANGED <<now, api, mark, restarts, req, owner, cyc, held, lock, rest, revived>>
  BY InvFacts DEF UserBegin, UserEnd, Outside
<1>2. StoreOK'
  BY <1>1, Written
<1>3. TodoOK'
  <2>1. CASE todo' = todo \ {t}
    BY <1>1, <2>1 DEF IInv, TodoOK
  <2>2. CASE t[3] > 0 /\ todo' = (todo \ {t}) \cup {<<t[1], t[2], t[3] - 1>>}
    <3>1. <<t[1], t[2], t[3] - 1>> \in Runs \X Records \X (0..2)
      BY <1>1, <2>2
    <3> QED
      BY <1>1, <2>2, <3>1 DEF IInv, TodoOK, Kept
  <2> QED
    BY <1>1, <2>1, <2>2
<1> QED
  BY <1>1, <1>2, <1>3, Frames DEF IInv

LEMMA TurnKeeps ==
    ASSUME IInv, UserBegun \/ UserEnding \/ UserEnded \/ WakeStart
    PROVE  IInv'
<1>1. UNCHANGED <<now, api, mark, restarts, run, req, owner, held, lock, rest, revived>>
  BY DEF UserBegun, UserEnding, UserEnded, WakeStart, Outside
<1>2. cyc \in Cycles
  BY InvFacts
<1>3. \/ cyc' = [cyc EXCEPT !.pc = "decide"]
      \/ cyc' = [cyc EXCEPT !.pc = "end"]
      \/ cyc' = NoCycle
      \/ cyc' = [cyc EXCEPT !.kind = "wake", !.pc = "decide"]
  BY DEF UserBegun, UserEnding, UserEnded, WakeStart
<1>4. CycleOK'
  <2>1. CASE cyc' = NoCycle
    BY ONLY <2>1, NothingRead DEF CycleOK, AtRun
  <2>2. CASE cyc' = [cyc EXCEPT !.pc = "decide"]
    BY ONLY <1>2, <2>2 DEF Cycles, CycleOK, AtRun
  <2>3. CASE cyc' = [cyc EXCEPT !.pc = "end"]
    BY ONLY <1>2, <2>3 DEF Cycles, CycleOK, AtRun
  <2>4. CASE cyc' = [cyc EXCEPT !.kind = "wake", !.pc = "decide"]
    BY ONLY <1>2, <2>4 DEF Cycles, CycleOK, AtRun
  <2> QED
    BY <1>3, <2>1, <2>2, <2>3, <2>4
<1>5. TodoOK'
  <2>1. CASE UserEnding
    <3>1. ASSUME NEW r \in Runs, ByUserPause(run[r])  PROVE Kept(ResumedAfterUser(run[r]))
      BY <3>1, ResumedAfterUserRecord, InvFacts DEF Kept
    <3>2. \A t \in todo' : t \in Runs \X Records \X (0..2) /\ RestsAt(t[2], now)
      BY <2>1, <3>1 DEF UserEnding, Kept
    <3> QED
      BY <1>1, <3>2 DEF TodoOK
  <2>2. CASE ~UserEnding
    BY <1>1, <2>2, Frames DEF UserBegun, UserEnded, WakeStart
  <2> QED
    BY <2>1, <2>2
<1> QED
  BY <1>1, <1>4, <1>5, Frames DEF IInv

LEMMA DecideNoRunKeeps == ASSUME IInv, DecideNoRun PROVE IInv'
<1>1. UNCHANGED <<now, api, mark, restarts, run, req, owner, todo, rest, revived>> /\ Leave
  BY DEF DecideNoRun, Outside
<1>2. CycleOK' /\ HeldOK' /\ LocksOK'
  BY <1>1, Left DEF IInv, HeldOK, Kept, LocksOK
<1> QED
  BY <1>1, <1>2, Frames DEF IInv

LEMMA StartRunKeeps ==
    ASSUME IInv, NEW r \in Runs, NEW replaced \in SUBSET Runs, StartRun(r, replaced)
    PROVE  IInv'
<1> DEFINE new == [NoRun EXCEPT !.status = "active", !.next = now]
<1>1. /\ run' = [x \in Runs |-> IF x = r THEN new
                                ELSE IF x \in replaced THEN Ended(run[x], "cancelled")
                                ELSE run[x]]
      /\ cyc' = [cyc EXCEPT !.pc = "guard", !.run = r]
      /\ UNCHANGED <<now, api, mark, restarts, req, owner, held, todo, lock, rest, revived>>
  BY DEF StartRun, Outside
<1>2. new \in Records /\ RestsAt(new, now)
  <2>1. now \in NoTime..MaxTime + Cooldown /\ 0 \in 0..StepLimit - 1 /\ NoTime <= now
        /\ NoTime \in NoTime..MaxTime + Cooldown
    BY InvFacts, Constants
  <2>2. /\ new \in Records /\ new.status = "active" /\ new.cool = NoTime /\ new.reason = "none"
    BY <2>1 DEF NoRun, Records, Statuses
  <2> QED
    BY <2>1, <2>2 DEF RestsAt
<1> HIDE DEF new
<1>3. \A x \in Runs : Ended(run[x], "cancelled") \in Records
                      /\ RestsAt(Ended(run[x], "cancelled"), now)
  BY EndedRecord, InvFacts DEF Kept, Terminal
<1>4. StoreOK'
  BY <1>1, <1>2, <1>3, InvFacts DEF StoreOK, Kept
<1>5. CycleOK'
  BY <1>1, InvFacts DEF Cycles, CycleOK, AtRun
<1> QED
  BY <1>1, <1>4, <1>5, Frames DEF IInv

LEMMA StepStartKeeps == ASSUME IInv, NEW r \in Runs, StepStart(r) PROVE IInv'
<1>1. /\ cyc' = [cyc EXCEPT !.kind = "step", !.pc = "guard", !.run = r]
      /\ UNCHANGED <<now, api, mark, restarts, run, req, owner, held, todo, lock, rest, revived>>
  BY DEF StepStart, Outside
<1>2. CycleOK'
  BY <1>1, InvFacts DEF Cycles, CycleOK, AtRun
<1> QED
  BY <1>1, <1>2, Frames DEF IInv

LEMMA ResultStartKeeps == ASSUME IInv, NEW q \in Requests, ResultStart(q) PROVE IInv'
<1>1. /\ req[q] = "answered" /\ req' = [req EXCEPT ![q] = "done"] /\ owner[q] \in Runs
      /\ cyc = NoCycle
      /\ cyc' = [cyc EXCEPT !.kind = "result", !.pc = "take", !.of = q, !.run = owner[q]]
      /\ held' = run[owner[q]]
      /\ UNCHANGED <<now, api, mark, restarts, run, owner, todo, lock, rest, revived>>
  BY DEF ResultStart, Outside, IInv, RequestsOK, Out
<1>2. CycleOK'
  BY <1>1, NothingRead DEF Cycles, CycleOK, AtRun
<1>3. HeldOK'
  BY <1>1, InvFacts DEF HeldOK, Kept
<1>4. RequestsOK'
  BY <1>1 DEF IInv, RequestsOK, Out
<1>5. MarkOK'
  BY <1>1 DEF IInv, MarkOK, RequestsOK
<1> QED
  BY <1>1, <1>2, <1>3, <1>4, <1>5, Frames DEF IInv

LEMMA ResultFailsKeeps == ASSUME IInv, ResultFails PROVE IInv'
<1>1. /\ cyc.pc = "take" /\ held' = Ended(held, "cancelled")
      /\ cyc' = [cyc EXCEPT !.pc = "write", !.more = 2]
      /\ UNCHANGED <<now, api, mark, restarts, run, req, owner, todo, lock, rest, revived>>
  BY DEF ResultFails, Outside
<1>2. CycleOK'
  <2>1. cyc \in Cycles /\ cyc.run \in Runs
    BY <1>1 DEF IInv, CycleOK, AtRun
  <2>2. cyc' \in Cycles /\ cyc'.run = cyc.run
    <3>1. cyc' = [cyc EXCEPT !.pc = "write", !.more = 2] /\ 2 \in 0..2 /\ "write" \in AtRun
      BY <1>1 DEF AtRun
    <3> QED
      BY ONLY <2>1, <3>1 DEF Cycles
  <2> QED
    BY <2>1, <2>2 DEF CycleOK
<1>3. HeldOK'
  BY <1>1, EndedRecord, InvFacts DEF HeldOK, Kept, Terminal
<1> QED
  BY <1>1, <1>2, <1>3, Frames DEF IInv

LEMMA ResultTakeKeeps == ASSUME IInv, ResultTake PROVE IInv'
<1>1. /\ cyc.pc = "take" /\ cyc.run \in Runs
      /\ UNCHANGED <<now, api, mark, restarts, run, req, owner, todo, rest, revived>>
  BY DEF ResultTake, Outside, IInv, CycleOK, AtRun
<1>2. CASE Leave
  BY <1>1, <1>2, Left, Frames DEF IInv, HeldOK, Kept, LocksOK
<1>3. CASE ~Leave
  <2>1. PICK t \in 0..now : held' = AfterResult(run[cyc.run], t)
    BY <1>3 DEF ResultTake
  <2>2. lock' = [lock EXCEPT ![cyc.run] = "cycle"] /\ cyc' = [cyc EXCEPT !.pc = "put"]
    BY <1>3 DEF ResultTake
  <2>3. HeldOK'
    BY <1>1, <2>1, AfterResultRecord, InvFacts DEF HeldOK, Kept
  <2>4. CycleOK'
    BY <1>1, <2>2 DEF IInv, Cycles, CycleOK, AtRun
  <2>5. LocksOK'
    BY <1>1, <2>2 DEF IInv, LocksOK
  <2> QED
    BY <1>1, <2>3, <2>4, <2>5, Frames DEF IInv
<1> QED
  BY <1>2, <1>3

LEMMA ResultPutKeeps == ASSUME IInv, ResultPut PROVE IInv'
<1>1. /\ cyc.pc = "put" /\ cyc.run \in Runs /\ Store(cyc.run, held) /\ Kept(held)
      /\ UNCHANGED <<now, api, mark, restarts, req, owner, todo, rest, revived>>
  BY InvFacts DEF ResultPut, Outside, IInv, CycleOK, AtRun
<1>2. StoreOK'
  BY <1>1, Written
<1>3. CASE Leave
  BY <1>1, <1>2, <1>3, Left, Frames DEF IInv, HeldOK, Kept, LocksOK
<1>4. CASE ~Leave
  <2>1. cyc' = [cyc EXCEPT !.pc = "guard"] /\ held' = held /\ lock' = lock
    BY <1>4 DEF ResultPut
  <2>2. CycleOK'
    BY <1>1, <2>1 DEF IInv, Cycles, CycleOK, AtRun
  <2> QED
    BY <1>1, <1>2, <2>1, <2>2, Frames DEF IInv
<1> QED
  BY <1>3, <1>4

\* A step goes on to next, or its cycle ends.
LEMMA GuardedKeeps ==
    ASSUME IInv, NEW next, GuardedBy(next), next \in Cycles, next.run \in Runs,
           next.run = cyc.run
    PROVE  IInv'
<1>1. UNCHANGED <<now, api, mark, restarts, run, req, owner, todo, rest, revived>>
  BY DEF GuardedBy, Outside
<1>2. CASE Leave
  BY <1>1, <1>2, Left, Frames DEF IInv, HeldOK, Kept, LocksOK
<1>3. CASE ~Leave
  <2>1. cyc' = next /\ lock' = [lock EXCEPT ![cyc.run] = "cycle"] /\ held' = held
    BY <1>3 DEF GuardedBy
  <2>2. CycleOK' /\ LocksOK'
    BY <1>1, <2>1 DEF IInv, CycleOK, LocksOK
  <2> QED
    BY <1>1, <2>1, <2>2, Frames DEF IInv
<1> QED
  BY <1>2, <1>3

LEMMA GuardsKeep ==
    ASSUME IInv, \/ StepGuard \/ StepDispatch
                 \/ \E act \in Actions, then \in Transitions : StepDecide(act, then)
    PROVE  IInv'
<1>1. cyc \in Cycles /\ (cyc.pc \in AtRun => cyc.run \in Runs)
  BY DEF IInv, CycleOK
<1>2. CASE StepGuard
  <2>1. cyc.pc = "guard" /\ GuardedBy([cyc EXCEPT !.pc = "think"])
    BY <1>2 DEF StepGuard
  <2>2. [cyc EXCEPT !.pc = "think"] \in Cycles /\ [cyc EXCEPT !.pc = "think"].run = cyc.run
    BY <1>1 DEF Cycles, AtRun
  <2> QED
    BY <1>1, <2>1, <2>2, GuardedKeeps DEF AtRun
<1>3. CASE StepDispatch
  <2>1. cyc.pc = "dispatch" /\ GuardedBy([cyc EXCEPT !.pc = "send"])
    BY <1>3 DEF StepDispatch
  <2>2. [cyc EXCEPT !.pc = "send"] \in Cycles /\ [cyc EXCEPT !.pc = "send"].run = cyc.run
    BY <1>1 DEF Cycles, AtRun
  <2> QED
    BY <1>1, <2>1, <2>2, GuardedKeeps DEF AtRun
<1>4. ASSUME NEW act \in Actions, NEW then \in Transitions, StepDecide(act, then)
      PROVE  IInv'
  <2> DEFINE next == [cyc EXCEPT !.act = act, !.then = then,
                                 !.pc = IF act = "request" THEN "dispatch" ELSE "read"]
  <2>1. cyc.pc = "think" /\ GuardedBy(next)
    BY <1>4 DEF StepDecide
  <2>2. next \in Cycles /\ next.run = cyc.run
    BY <1>1 DEF Cycles, AtRun
  <2> HIDE DEF next
  <2> QED
    BY <1>1, <2>1, <2>2, GuardedKeeps DEF AtRun
<1> QED
  BY <1>2, <1>3, <1>4

LEMMA StepSendKeeps == ASSUME IInv, StepSend PROVE IInv'
<1>1. /\ cyc.pc = "send" /\ cyc.run \in Runs /\ cyc \in Cycles
      /\ UNCHANGED <<now, api, mark, restarts, run, held, todo, lock, rest, revived>>
  BY DEF StepSend, Outside, IInv, CycleOK, AtRun
<1>2. PICK q \in Requests :
         /\ req[q] = "unused" /\ req' = [req EXCEPT ![q] = "open"]
         /\ owner' = [owner EXCEPT ![q] = cyc.run]
         /\ cyc' = [cyc EXCEPT !.pc = "read", !.of = q]
  BY DEF StepSend
<1>3. CycleOK'
  BY <1>1, <1>2 DEF Cycles, CycleOK, AtRun
<1>4. RequestsOK'
  BY <1>1, <1>2 DEF IInv, RequestsOK, Out
<1>5. MarkOK'
  BY <1>1, <1>2 DEF IInv, MarkOK, RequestsOK
<1> QED
  BY <1>1, <1>3, <1>4, <1>5, Frames DEF IInv

LEMMA StepFailsKeeps == ASSUME IInv, StepFails PROVE IInv'
<1>1. /\ cyc.pc \in AtRun /\ cyc' = [cyc EXCEPT !.pc = "read", !.act = "fail"]
      /\ UNCHANGED <<now, api, mark, restarts, run, req, owner, held, todo, lock, rest, revived>>
  BY DEF StepFails, Outside, AtRun
<1>2. CycleOK'
  <2>1. cyc \in Cycles /\ cyc.run \in Runs
    BY <1>1 DEF IInv, CycleOK
  <2>2. cyc' \in Cycles /\ cyc'.run = cyc.run
    BY ONLY <1>1, <2>1 DEF Cycles, AtRun
  <2> QED
    BY <2>1, <2>2 DEF CycleOK
<1> QED
  BY <1>1, <1>2, Frames DEF IInv

LEMMA StepReadKeeps == ASSUME IInv, StepRead PROVE IInv'
<1>1. /\ cyc.pc = "read" /\ cyc.run \in Runs /\ cyc \in Cycles
      /\ UNCHANGED <<now, api, mark, restarts, run, req, owner, todo, rest, revived>>
  BY DEF StepRead, Outside, IInv, CycleOK, AtRun
<1>2. CASE Leave
  BY <1>1, <1>2, Left, Frames DEF IInv, HeldOK, Kept, LocksOK
<1>3. CASE ~Leave
  <2> DEFINE x == Stepped(run[cyc.run])
  <2>1. held' = x /\ cyc' = [cyc EXCEPT !.pc = "write", !.more = MoreWrites(x)] /\ lock' = lock
    BY <1>3 DEF StepRead
  <2>2. x \in Records /\ RestsAt(x, now) /\ MoreWrites(x) \in 0..2
    BY <1>1, SteppedRecord, InvFacts DEF Kept
  <2> HIDE DEF x
  <2>3. CycleOK'
    BY <1>1, <2>1, <2>2 DEF Cycles, CycleOK, AtRun
  <2>4. HeldOK'
    BY <1>1, <2>1, <2>2 DEF HeldOK, Kept
  <2> QED
    BY <1>1, <2>1, <2>3, <2>4, Frames DEF IInv
<1> QED
  BY <1>2, <1>3

LEMMA StepWriteKeeps == ASSUME IInv, StepWrite PROVE IInv'
<1>1. /\ cyc.pc = "write" /\ cyc.run \in Runs /\ cyc \in Cycles
      /\ Store(cyc.run, held) /\ Kept(held)
      /\ rest' = [rest EXCEPT ![cyc.run] = IF held.cool > @ THEN held.cool ELSE @]
      /\ UNCHANGED <<now, api, mark, restarts, req, owner, todo, revived>>
  BY InvFacts DEF StepWrite, Outside, IInv, CycleOK, AtRun
<1>2. StoreOK'
  BY <1>1, Written
<1>3. rest' \in [Runs -> NoTime..MaxTime + Cooldown]
  <2>1. rest \in [Runs -> NoTime..MaxTime + Cooldown] /\ held.cool \in NoTime..MaxTime + Cooldown
    BY <1>1, Fields DEF IInv, LocksOK, Kept
  <2> QED
    BY <1>1, <2>1
<1>4. CASE Leave
  BY <1>1, <1>2, <1>3, <1>4, Left, Frames DEF IInv, HeldOK, Kept, LocksOK
<1>5. CASE ~Leave
  <2>1. cyc.more > 0 /\ cyc' = [cyc EXCEPT !.more = @ - 1] /\ UNCHANGED <<held, lock>>
    BY <1>5 DEF StepWrite
  <2>2. CycleOK'
    BY <1>1, <2>1 DEF Cycles, CycleOK, AtRun
  <2>3. LocksOK'
    BY <1>1, <1>3, <2>1 DEF IInv, LocksOK
  <2> QED
    BY <1>1, <1>2, <2>1, <2>2, <2>3, Frames DEF IInv
<1> QED
  BY <1>4, <1>5

LEMMA LinkReadKeeps == ASSUME IInv, LinkRead PROVE IInv'
<1>1. /\ cyc.pc = "link" /\ cyc.run \in Runs /\ cyc \in Cycles
      /\ held' = run[cyc.run]
      /\ cyc' = [cyc EXCEPT !.pc = "linking", !.more = MoreWrites(run[cyc.run])]
      /\ UNCHANGED <<now, api, mark, restarts, run, req, owner, todo, lock, rest, revived>>
  BY DEF LinkRead, Outside, IInv, CycleOK, AtRun
<1>2. MoreWrites(run[cyc.run]) \in 0..2
  BY DEF MoreWrites
<1>3. CycleOK'
  BY <1>1, <1>2 DEF Cycles, CycleOK, AtRun
<1>4. HeldOK'
  BY <1>1, InvFacts DEF HeldOK, Kept
<1> QED
  BY <1>1, <1>3, <1>4, Frames DEF IInv

LEMMA LinkWriteKeeps == ASSUME IInv, LinkWrite PROVE IInv'
<1>1. /\ cyc.pc = "linking" /\ cyc.run \in Runs /\ cyc \in Cycles
      /\ Store(cyc.run, held) /\ Kept(held)
      /\ UNCHANGED <<now, api, mark, restarts, req, owner, todo, lock, rest>>
  BY InvFacts DEF LinkWrite, Outside, IInv, CycleOK, AtRun
<1>2. StoreOK'
  BY <1>1, Written
<1>3. RevivedOK'
  BY DEF LinkWrite, IInv, RevivedOK
<1>4. CASE Over /\ held' = NoRun
  <2>1. CycleOK' /\ HeldOK'
    BY <1>1, <1>4, OverCycle, NothingRead DEF CycleOK, HeldOK, Kept, AtRun
  <2> QED
    BY <1>1, <1>2, <1>3, <2>1, Frames DEF IInv
<1>5. CASE cyc.more > 0 /\ cyc' = [cyc EXCEPT !.more = @ - 1] /\ held' = held
  <2>1. CycleOK'
    BY <1>1, <1>5 DEF Cycles, CycleOK, AtRun
  <2> QED
    BY <1>1, <1>2, <1>3, <1>5, <2>1, Frames DEF IInv
<1> QED
  BY <1>4, <1>5 DEF LinkWrite

LEMMA RestartKeeps == ASSUME IInv, Restart PROVE IInv'
<1>1. /\ restarts' \in 0..MaxRestarts
      /\ req' = [q \in Requests |->
                   IF req[q] \in {"open", "answered", "expired"} THEN "done" ELSE req[q]]
      /\ cyc' = NoCycle /\ held' = NoRun /\ todo' = {} /\ api' = NoCall /\ mark' = NoMark
      /\ lock' = [r \in Runs |-> "free"]
      /\ UNCHANGED <<owner, now, rest, revived>>
  BY Constants DEF Restart, Forget, IInv, LocksOK
<1>2. \A r \in Runs : Kept(Interrupted(run[r], now))
  BY AfterResultRecord, InvFacts DEF Kept
<1>3. StoreOK'
  BY <1>1, <1>2, InvFacts DEF Restart, StoreOK, Kept
<1>4. HeldOK' /\ TodoOK' /\ ApiOK' /\ MarkOK' /\ CycleOK'
  BY <1>1, NothingRead DEF HeldOK, TodoOK, ApiOK, MarkOK, CycleOK, Kept, AtRun
<1>5. RequestsOK'
  BY <1>1 DEF IInv, RequestsOK, Out
<1>6. LocksOK' /\ RevivedOK'
  BY <1>1 DEF IInv, LocksOK, RevivedOK
<1> QED
  BY <1>3, <1>4, <1>5, <1>6 DEF IInv

LEMMA InitIInv == Init => IInv
<1> SUFFICES ASSUME Init PROVE IInv
  OBVIOUS
<1>1. now \in 0..MaxTime /\ restarts \in 0..MaxRestarts /\ NoTime \in NoTime..MaxTime + Cooldown
  BY Constants DEF Init
<1>2. NoRun \in Records /\ RestsAt(NoRun, now)
  BY EmptyRecord
<1>3. StoreOK /\ HeldOK /\ TodoOK
  BY <1>2 DEF Init, StoreOK, HeldOK, TodoOK, Kept
<1>4. ApiOK /\ MarkOK /\ CycleOK
  BY <1>2, NothingRead DEF Init, ApiOK, MarkOK, CycleOK, AtRun
<1>5. RequestsOK /\ LocksOK /\ RevivedOK
  BY <1>1 DEF Init, RequestsOK, LocksOK, RevivedOK, Out
<1> QED
  BY <1>3, <1>4, <1>5 DEF IInv

LEMMA CycleKeeps == ASSUME IInv, Cycle PROVE IInv'
<1>1. CASE Conversation
  BY <1>1, UserBeginKeeps, TurnKeeps DEF Conversation
<1>2. CASE Decision
  BY <1>2, DecideNoRunKeeps, StartRunKeeps DEF Decision
<1>3. CASE Step
  BY <1>3, GuardsKeep, StepSendKeeps, StepFailsKeeps, StepReadKeeps, StepWriteKeeps DEF Step
<1>4. CASE Result
  BY <1>4, ResultFailsKeeps, ResultTakeKeeps, ResultPutKeeps DEF Result
<1>5. CASE Link
  BY <1>5, LinkReadKeeps, LinkWriteKeeps DEF Link
<1> QED
  BY <1>1, <1>2, <1>3, <1>4, <1>5 DEF Cycle

LEMMA StepIInv == IInv /\ [Next]_vars => IInv'
<1> SUFFICES ASSUME IInv, [Next]_vars PROVE IInv'
  OBVIOUS
<1>1. CASE UNCHANGED vars
  BY <1>1, Frames DEF vars, memory, IInv
<1>2. CASE Next
  BY <1>2, TickKeeps, SettleKeeps, MarkReadKeeps, ResultStartKeeps, MarkWriteKeeps,
     ApiReadKeeps, ApiWriteKeeps, UserStartKeeps, TurnKeeps, StepStartKeeps, CycleKeeps,
     RestartKeeps DEF Next
<1> QED
  BY <1>1, <1>2

LEMMA Invariance == Spec => []IInv
BY InitIInv, StepIInv, PTL DEF Spec

\* The records, the requests and whatever is in somebody's hands keep their
\* types; in particular the count of steps stays below the limit.
THEOREM TypeCorrect == Spec => []TypeOK
<1>1. IInv => TypeOK
  BY DEF IInv, StoreOK, HeldOK, TodoOK, ApiOK, MarkOK, CycleOK, RequestsOK, LocksOK, RevivedOK,
         Kept, TypeOK, Cycles
<1> QED
  BY <1>1, Invariance, PTL

\* Whatever clients call and in whatever order a record is read and written
\* back, a run whose record says that it rests is not due.
THEOREM RestingRunsAreNotDue == Spec => []RestingIsNotDue
<1>1. IInv => RestingIsNotDue
  <2> SUFFICES ASSUME IInv, NEW r \in Runs, Due(run[r])  PROVE run[r].cool <= now
    BY DEF RestingIsNotDue
  <2>1. /\ RestsAt(run[r], now) /\ run[r].cool \in Int /\ run[r].next \in Int /\ now \in Int
    BY InvFacts, Fields DEF Kept
  <2> QED
    BY <2>1 DEF Due, RestsAt, Timed
<1> QED
  BY <1>1, Invariance, PTL

-----------------------------------------------------------------------------
(* While clients only cancel.  The pause and resume APIs write back what   *)
(* they read before: they can give a run a status, a wait or an end to its *)
(* rest that are no longer true.                                           *)

OnlyCancel == ApiOps \subseteq {"cancel"}

Clear(r) == \A q \in Requests : Out(q) => owner[q] # r

\* A run waits exactly while it names a request, and is paused only by a
\* conversation.
Sound(x) ==
    /\ x.waits # None <=> x.status = "waiting_result"
    /\ x.status = "paused" <=> x.reason = "user"
    /\ x.status \in Terminal => x.cool = NoTime

RecordsSound ==
    /\ \A r \in Runs : Sound(run[r])
    /\ \A t \in todo : Sound(t[2]) /\ t[2].status \notin {"absent", "waiting_result"}
    /\ Sound(held)
    /\ api # NoCall => Sound(api.write) /\ api.write.status = "cancelled"
    /\ mark # NoMark => Sound(mark.write) /\ mark.write.status \in {"active", "waiting_timer"}

\* The one lock of a run is held by the cycle that will write it, unless that
\* ends the run, and by the mark.
Locks ==
    /\ cyc.pc \in {"put", "think", "dispatch", "send", "read"} => lock[cyc.run] = "cycle"
    /\ cyc.pc = "write" => lock[cyc.run] = "cycle" \/ held.status \in Terminal
    /\ mark # NoMark => lock[owner[mark.of]] = "mark"

\* The step of q's run is about to write that the run waits for q.
Passing(q) ==
    cyc.pc \in {"read", "write"} /\ cyc.act = "request" /\ cyc.run = owner[q] /\ cyc.of = q

\* The answer to q is being taken in for r.
Taking(r, q) ==
    /\ cyc.pc \in {"take", "put", "write"} /\ cyc.run = r /\ cyc.of = q
    /\ cyc.pc = "write" => held.status \in Terminal

\* What x waits for is out, and is r's.
Answerable(r, x) == x.waits \in Requests /\ Out(x.waits) /\ owner[x.waits] = r

\* A request that is out belongs to a run that waits for it, or has ended, or
\* is about to be written as waiting for it.
Owned ==
    \A q \in Requests : Out(q) =>
        \/ run[owner[q]].status \in Terminal
        \/ run[owner[q]].status = "waiting_result" /\ run[owner[q]].waits = q
        \/ Passing(q)

OneOut == \A p, q \in Requests : Out(p) /\ Out(q) /\ owner[p] = owner[q] => p = q

\* A run that waits for a request is the owner of it, or its answer is just
\* being taken in, or the link of commitments has written the wait back.
Awaited ==
    \A r \in Runs : run[r].status = "waiting_result" =>
        Answerable(r, run[r]) \/ Taking(r, run[r].waits) \/ run[r].waits \in revived

\* What a cycle knows of the request of its run.
Asking ==
    /\ cyc.pc \in {"take", "put", "think", "dispatch", "send"} => Clear(cyc.run)
    /\ cyc.pc \in {"dispatch", "send"} => cyc.act = "request"
    /\ cyc.pc = "take" =>
          cyc.act # "request" /\ run[cyc.run].status \in Terminal \cup {"waiting_result"}
    /\ cyc.pc = "put" => held.status \in {"active", "waiting_timer"}
    /\ cyc.pc = "read" /\ cyc.act # "request" => Clear(cyc.run)
    /\ cyc.pc \in {"read", "write"} /\ cyc.act = "request" =>
          cyc.of \in Requests /\ Out(cyc.of) /\ owner[cyc.of] = cyc.run
    /\ cyc.pc = "write" /\ cyc.act = "request" =>
          held.status = "waiting_result" /\ held.waits = cyc.of
    /\ cyc.pc = "write" /\ cyc.act # "request" =>
          held.status \in Terminal \/ (held.status = "waiting_timer" /\ Clear(cyc.run))

\* The record that the link will write does not deny a request that is out, and
\* waits for none that was never sent.
Linking ==
    cyc.pc = "linking" =>
        /\ \A q \in Requests : Out(q) /\ owner[q] = cyc.run =>
              held.status \in Terminal \/ (held.status = "waiting_result" /\ held.waits = q)
        /\ held.status = "waiting_result" =>
              \/ held.waits \in revived
              \/ owner[held.waits] = cyc.run /\ req[held.waits] # "unused"

Given == \A t \in todo : t[2].status \in Terminal \/ Clear(t[1])

\* Every run that a conversation paused is on the list of those it gives back.
Pauses ==
    /\ todo # {} => cyc.pc \in {"begin", "end"}
    /\ cyc.pc = "end" =>
          /\ \A t \in todo : t[2].status # "paused"
          /\ \A r \in Runs : ByUserPause(run[r]) => \E t \in todo : t[1] = r

\* A record says of its run's rest what was written when it was told to rest.
Keeps(r, x) == rest[r] <= now \/ x.status \in Terminal \/ rest[r] <= x.cool

Limits ==
    /\ \A r \in Runs : Keeps(r, run[r]) /\ (run[r].status = "absent" => rest[r] = NoTime)
    /\ \A t \in todo : Keeps(t[1], t[2])
    /\ cyc.pc \in {"put", "write", "linking"} => Keeps(cyc.run, held)
    /\ cyc.pc = "linking" /\ held.status = "absent" => rest[cyc.run] = NoTime
    /\ cyc.pc \in {"think", "dispatch", "send", "read"} => rest[cyc.run] <= now
    /\ mark # NoMark => Keeps(owner[mark.of], mark.write)

Requesting == Owned /\ OneOut /\ Awaited /\ Asking /\ Given /\ Linking

CInv == IInv /\ OnlyCancel /\ RecordsSound /\ Locks /\ Requesting /\ Pauses /\ Limits

\* No request is sent, and none is settled for good.
RequestsStay ==
    \A q \in Requests : (Out(q)' <=> Out(q)) /\ (req'[q] = "unused" <=> req[q] = "unused")

LEMMA CancelFacts ==
    ASSUME CInv
    PROVE  /\ \A r \in Runs : /\ run[r] \in Records /\ RestsAt(run[r], now) /\ Sound(run[r])
                              /\ run[r].cool \in Int /\ rest[r] \in NoTime..MaxTime + Cooldown
                              /\ Keeps(r, run[r])
           /\ held \in Records /\ mark.write \in Records /\ Sound(held) /\ held.cool \in Int
           /\ cyc \in Cycles /\ (cyc.pc \in AtRun => cyc.run \in Runs)
           /\ \A q \in Requests : Out(q) => owner[q] \in Runs
           /\ now \in Int /\ now <= now
<1>1. /\ \A r \in Runs : run[r] \in Records /\ RestsAt(run[r], now)
      /\ held \in Records /\ mark.write \in Records /\ now \in Int /\ cyc \in Cycles
  BY InvFacts DEF CInv, Kept
<1>2. \A r \in Runs : run[r].cool \in Int
  BY <1>1, Fields
<1>3. held.cool \in Int
  BY <1>1, Fields
<1>4. \A r \in Runs : rest[r] \in NoTime..MaxTime + Cooldown
  BY DEF CInv, IInv, LocksOK
<1>5. /\ \A r \in Runs : Sound(run[r]) /\ Keeps(r, run[r])
      /\ Sound(held)
  BY DEF CInv, RecordsSound, Limits
<1>6. /\ cyc.pc \in AtRun => cyc.run \in Runs
      /\ \A q \in Requests : Out(q) => owner[q] \in Runs
  BY DEF CInv, IInv, CycleOK, RequestsOK
<1> QED
  BY <1>1, <1>2, <1>3, <1>4, <1>5, <1>6

\* What a step leaves alone stays as it was.
LEMMA CancelFrames ==
    ASSUME CInv, now <= now', now' \in Int
    PROVE  /\ UNCHANGED <<run, todo, held, api, mark>> => RecordsSound'
           /\ UNCHANGED <<cyc, lock, held, owner, mark>> => Locks'
           /\ /\ UNCHANGED <<run, cyc, owner, held, todo, revived>>
              /\ RequestsStay
              => Requesting'
           /\ UNCHANGED <<run, cyc, todo>> => Pauses'
           /\ UNCHANGED <<run, rest, todo, held, cyc, owner, mark>> => Limits'
<1>1. UNCHANGED <<run, todo, held, api, mark>> => RecordsSound'
  BY DEF CInv, RecordsSound
<1>2. UNCHANGED <<cyc, lock, held, owner, mark>> => Locks'
  BY DEF CInv, Locks
<1>3. ASSUME UNCHANGED <<run, cyc, owner, held, todo, revived>>, RequestsStay
      PROVE  Requesting'
  <2>1. \A q \in Requests : Out(q)' <=> Out(q)
    BY <1>3 DEF RequestsStay
  <2>2. \A r : Clear(r)' <=> Clear(r)
    BY <1>3, <2>1 DEF Clear
  <2>3. Owned' /\ OneOut'
    BY <1>3, <2>1 DEF CInv, Requesting, Owned, OneOut, Passing
  <2>4. Awaited'
    BY <1>3, <2>1 DEF CInv, Requesting, Awaited, Answerable, Taking
  <2>5. Asking' /\ Given'
    BY <1>3, <2>1, <2>2 DEF CInv, Requesting, Asking, Given
  <2>6. Linking'
    <3> SUFFICES ASSUME cyc.pc = "linking"  PROVE Linking'
      BY <1>3 DEF Linking
    <3>1. held.status = "waiting_result" => held.waits \in Requests
      BY CancelFacts, Fields DEF Sound
    <3> QED
      BY <1>3, <2>1, <3>1 DEF CInv, Requesting, Linking, RequestsStay
  <2> QED
    BY <2>3, <2>4, <2>5, <2>6 DEF Requesting
<1>4. UNCHANGED <<run, cyc, todo>> => Pauses'
  BY DEF CInv, Pauses
<1>5. ASSUME UNCHANGED <<run, rest, todo, held, cyc, owner, mark>>  PROVE Limits'
  <2>1. ASSUME NEW r \in Runs, NEW x, Keeps(r, x)  PROVE Keeps(r, x)'
    <3>1. rest[r] \in Int /\ now \in Int
      BY Constants DEF CInv, IInv, LocksOK
    <3> QED
      BY <1>5, <2>1, <3>1 DEF Keeps
  <2>2. /\ \A r \in Runs : Keeps(r, run[r])' /\ (run'[r].status = "absent" => rest'[r] = NoTime)
        /\ \A t \in todo : Keeps(t[1], t[2])'
    BY <1>5, <2>1, InvFacts DEF CInv, Limits
  <2>3. /\ cyc.pc \in {"put", "write", "linking"} => Keeps(cyc.run, held)'
        /\ cyc.pc = "linking" /\ held.status = "absent" => rest'[cyc.run] = NoTime
    BY <1>5, <2>1 DEF CInv, Limits, IInv, CycleOK, AtRun
  <2>4. cyc.pc \in {"think", "dispatch", "send", "read"} => rest'[cyc.run] <= now'
    <3>1. cyc.pc \in {"think", "dispatch", "send", "read"} => rest[cyc.run] \in Int /\ now \in Int
      BY Constants DEF CInv, IInv, LocksOK, CycleOK, AtRun
    <3> QED
      BY <1>5, <3>1 DEF CInv, Limits
  <2>5. mark # NoMark => Keeps(owner[mark.of], mark.write)'
    BY <1>5, <2>1 DEF CInv, Limits, IInv, MarkOK, RequestsOK, Out
  <2> QED
    BY <1>5, <2>2, <2>3, <2>4, <2>5 DEF Limits, Keeps
<1> QED
  BY <1>1, <1>2, <1>3, <1>4, <1>5

LEMMA Stored ==
    ASSUME IInv, NEW r \in Runs, NEW x, Store(r, x)
    PROVE  run' \in [Runs -> {run'[q] : q \in Runs}]
           /\ \A q \in Runs : run'[q] = IF q = r THEN x ELSE run[q]
BY DEF IInv, StoreOK, Store

Strong == RecordsSound /\ Locks /\ Requesting /\ Pauses /\ Limits

LEMMA TickStrong == ASSUME CInv, Tick PROVE Strong'
<1>1. /\ now <= now' /\ now' \in Int
      /\ UNCHANGED <<run, req, owner, cyc, held, todo, api, mark, lock, restarts, rest, revived>>
  BY CancelFacts DEF Tick, memory
<1>2. RequestsStay
  BY <1>1 DEF RequestsStay, Out
<1> QED
  BY <1>1, <1>2, CancelFrames DEF Strong

LEMMA SettleStrong ==
    ASSUME CInv, NEW q \in Requests, Answer(q) \/ Expire(q)
    PROVE  Strong'
<1>1. /\ now' = now /\ now <= now' /\ now' \in Int
      /\ req[q] = "open" /\ req' \in {[req EXCEPT ![q] = "answered"], [req EXCEPT ![q] = "expired"]}
      /\ UNCHANGED <<run, owner, cyc, held, todo, api, mark, lock, restarts, rest, revived>>
  BY CancelFacts DEF Answer, Expire, memory
<1>2. RequestsStay
  BY <1>1 DEF RequestsStay, CInv, IInv, RequestsOK, Out
<1> QED
  BY <1>1, <1>2, CancelFrames DEF Strong

LEMMA SettledLinking ==
    ASSUME CInv, NEW q \in Requests, req[q] # "unused", req' = [req EXCEPT ![q] = "done"],
           UNCHANGED <<owner, cyc, held, revived>>
    PROVE  Linking'
<1>1. \A p \in Requests : (Out(p)' => Out(p)) /\ (req'[p] = "unused" => req[p] = "unused")
  BY DEF CInv, IInv, RequestsOK, Out
<1>2. held.status = "waiting_result" => held.waits \in Requests
  BY CancelFacts, Fields DEF Sound
<1>3. Linking
  BY DEF CInv, Requesting
<1> QED
  BY <1>1, <1>2, <1>3 DEF Linking

LEMMA MarkReadStrong ==
    ASSUME CInv, NEW q \in Requests, MarkRead(q)
    PROVE  Strong'
<1> DEFINE r == owner[q]
<1>1. /\ req[q] = "expired" /\ mark = NoMark /\ r \in Runs /\ Out(q) /\ lock[r] = "free"
      /\ now' = now /\ now <= now' /\ now' \in Int
      /\ UNCHANGED <<run, owner, cyc, held, todo, api, restarts, rest, revived>>
  BY CancelFacts DEF MarkRead, Out
<1>2. run[r] \in Records /\ Sound(run[r]) /\ Keeps(r, run[r])
  BY <1>1, CancelFacts
<1>3. Pauses'
  BY <1>1, CancelFrames
<1>4. CASE MarkApplies(run[r], q)
  <2>1. PICK t \in 0..now : mark' = [of |-> q, write |-> Interrupted(run[r], t)]
    BY <1>4 DEF MarkRead
  <2>2. req' = req /\ lock' = [lock EXCEPT ![r] = "mark"]
    BY <1>4 DEF MarkRead
  <2> DEFINE y == Interrupted(run[r], t)
  <2>3. run[r].status = "waiting_result" /\ run[r].reason # "user"
    BY <1>2, <1>4, Constants DEF MarkApplies, Sound
  <2>4. /\ y \in Records /\ y.status \in {"active", "waiting_timer"} /\ y.waits = None
        /\ y.reason # "user" /\ (y.cool = run[r].cool \/ run[r].cool <= now)
    BY <1>2, <2>3, AfterResultRecord, InvFacts DEF CInv
  <2> HIDE DEF y
  <2>5. Sound(y) /\ Keeps(r, y)
    <3>1. rest[r] \in Int /\ now \in Int /\ run[r].cool \in Int
      BY <1>1, CancelFacts, Constants
    <3> QED
      BY <1>2, <2>3, <2>4, <3>1 DEF Sound, Keeps, Terminal
  <2>6. mark'.of = q /\ mark'.write = y /\ mark' # NoMark
    BY <2>1, Constants DEF y, NoMark
  <2>7. RecordsSound'
    BY <1>1, <2>4, <2>5, <2>6 DEF CInv, RecordsSound
  <2>8. Locks'
    <3>1. lock'[r] = "mark" /\ \A x \in Runs : lock[x] = "cycle" => lock'[x] = "cycle"
      BY <1>1, <2>2 DEF CInv, IInv, LocksOK
    <3>2. cyc.pc \in {"put", "think", "dispatch", "send", "read", "write"} => cyc.run \in Runs
      BY CancelFacts DEF AtRun
    <3> QED
      BY <1>1, <2>6, <3>1, <3>2 DEF CInv, Locks
  <2>9. Requesting'
    <3>1. RequestsStay
      BY <2>2 DEF RequestsStay, Out
    <3> QED
      BY <1>1, <3>1, CancelFrames
  <2>10. Limits'
    BY <1>1, <2>5, <2>6 DEF CInv, Limits, Keeps
  <2> QED
    BY <1>3, <2>7, <2>8, <2>9, <2>10 DEF Strong
<1>5. CASE ~MarkApplies(run[r], q)
  <2>1. req' = [req EXCEPT ![q] = "done"] /\ mark' = mark /\ lock' = lock
    BY <1>5 DEF MarkRead
  <2>2. \A p \in Requests : Out(p)' <=> Out(p) /\ p # q
    BY <2>1 DEF CInv, IInv, RequestsOK, Out
  <2>3. Owned' /\ OneOut'
    BY <1>1, <2>2 DEF CInv, Requesting, Owned, OneOut, Passing
  <2>4. Awaited'
    <3>1. \A x \in Runs : run[x].status = "waiting_result" /\ run[x].waits = q => owner[q] # x
      BY <1>5 DEF MarkApplies
    <3> QED
      BY <1>1, <2>2, <3>1 DEF CInv, Requesting, Awaited, Answerable, Taking
  <2>5. Asking' /\ Given'
    <3>1. \A x : Clear(x) => Clear(x)'
      BY <1>1, <2>2 DEF Clear
    <3>2. cyc.pc \in {"read", "write"} /\ cyc.act = "request" => cyc.of # q
      <4>1. cyc.pc \in {"read", "write"} /\ cyc.act = "request" =>
               lock[cyc.run] = "cycle" /\ owner[cyc.of] = cyc.run
        BY DEF CInv, Locks, Requesting, Asking, Terminal
      <4> QED
        BY <1>1, <4>1
    <3> QED
      BY <1>1, <2>2, <3>1, <3>2 DEF CInv, Requesting, Asking, Given
  <2>6. Linking'
    BY <1>1, <2>1, <2>2, SettledLinking
  <2>7. Requesting'
    BY <2>3, <2>4, <2>5, <2>6 DEF Requesting
  <2> QED
    BY <1>1, <1>3, <2>1, <2>7, CancelFrames DEF Strong
<1> QED
  BY <1>4, <1>5

LEMMA MarkWriteStrong == ASSUME CInv, MarkWrite PROVE Strong'
<1> DEFINE q == mark.of
           r == owner[q]
           x == mark.write
<1>1. /\ mark # NoMark /\ q \in Requests /\ Out(q) /\ r \in Runs /\ lock[r] = "mark"
      /\ Store(r, x) /\ req' = [req EXCEPT ![q] = "done"] /\ mark' = NoMark
      /\ lock' = [lock EXCEPT ![r] = "free"]
      /\ now' = now /\ now <= now' /\ now' \in Int
      /\ UNCHANGED <<owner, cyc, held, todo, api, restarts, rest, revived>>
  BY CancelFacts DEF MarkWrite, CInv, IInv, MarkOK, Locks, Out
<1>2. x \in Records /\ Sound(x) /\ x.status \in {"active", "waiting_timer"} /\ Keeps(r, x)
  BY <1>1, CancelFacts DEF CInv, RecordsSound, Limits
<1>3. \A p \in Runs : run'[p] = IF p = r THEN x ELSE run[p]
  BY <1>1, Stored DEF CInv
<1>4. \A p \in Requests : Out(p)' <=> Out(p) /\ p # q
  BY <1>1 DEF CInv, IInv, RequestsOK, Out
<1>5. \A p \in Requests : Out(p)' => owner[p] # r
  BY <1>1, <1>4 DEF CInv, Requesting, OneOut
<1> HIDE DEF q, r, x
<1>6. RecordsSound'
  BY <1>1, <1>2, <1>3 DEF CInv, RecordsSound
<1>7. cyc.pc \in {"put", "think", "dispatch", "send", "read"} \/
      (cyc.pc = "write" /\ held.status \notin Terminal) => cyc.run # r
  BY <1>1 DEF CInv, Locks
<1>8. Locks'
  <2>1. \A p \in Runs : p # r => lock'[p] = lock[p]
    BY <1>1 DEF CInv, IInv, LocksOK
  <2>2. cyc.pc \in AtRun => cyc.run \in Runs
    BY CancelFacts
  <2> QED
    BY <1>1, <1>7, <2>1, <2>2 DEF CInv, Locks, AtRun
<1>9. Requesting'
  <2>1. OneOut'
    BY <1>1, <1>4 DEF CInv, Requesting, OneOut
  <2>2. Owned'
    <3>1. \A p \in Requests : Out(p) => owner[p] \in Runs
      BY CancelFacts
    <3> QED
      BY <1>1, <1>3, <1>4, <1>5, <3>1 DEF CInv, Requesting, Owned, Passing
  <2>3. Awaited'
    <3> SUFFICES ASSUME NEW p \in Runs, run'[p].status = "waiting_result"
                 PROVE  (Answerable(p, run[p]) \/ Taking(p, run[p].waits) \/ run[p].waits \in revived)'
      BY DEF Awaited
    <3>1. p # r /\ run'[p] = run[p]
      BY <1>2, <1>3
    <3>2. owner[q] # p
      BY <3>1 DEF r
    <3>3. Answerable(p, run[p]) \/ Taking(p, run[p].waits) \/ run[p].waits \in revived
      BY <3>1 DEF CInv, Requesting, Awaited
    <3> QED
      BY <1>1, <1>4, <3>1, <3>2, <3>3 DEF Answerable, Taking
  <2>4. Asking' /\ Given'
    <3>1. \A p : Clear(p) => Clear(p)'
      BY <1>1, <1>4 DEF Clear
    <3>2. cyc.pc = "take" => cyc.run # r
      BY <1>1 DEF CInv, Requesting, Asking, Clear, r
    <3>3. cyc.pc \in {"read", "write"} /\ cyc.act = "request" => cyc.of # q
      BY <1>1, <1>7 DEF CInv, Requesting, Asking, Terminal, r
    <3>4. cyc.pc = "take" => cyc.run \in Runs
      BY CancelFacts DEF AtRun
    <3> QED
      BY <1>1, <1>3, <1>4, <3>1, <3>2, <3>3, <3>4 DEF CInv, Requesting, Asking, Given
  <2>5. Linking'
    BY <1>1, SettledLinking DEF Out
  <2> QED
    BY <2>1, <2>2, <2>3, <2>4, <2>5 DEF Requesting
<1>10. Pauses'
  BY <1>1, <1>2, <1>3 DEF CInv, Pauses, ByUserPause
<1>11. Limits'
  BY <1>1, <1>2, <1>3 DEF CInv, Limits, Keeps
<1> QED
  BY <1>6, <1>8, <1>9, <1>10, <1>11 DEF Strong

\* While nobody sends or settles a request.
LEMMA RequestsStand ==
    ASSUME UNCHANGED <<req, owner>>
    PROVE  /\ \A q : Out(q)' <=> Out(q)
           /\ \A r : Clear(r)' <=> Clear(r)
           /\ \A r, x : Answerable(r, x)' <=> Answerable(r, x)
BY DEF Out, Clear, Answerable

\* What may be written to the runs while nobody sends or settles a request.
LEMMA RunsWritten ==
    ASSUME CInv, UNCHANGED <<req, owner>>, revived \subseteq revived',
           \A p \in Runs :
              \/ run'[p] = run[p]
              \/ run'[p].status \in Terminal
              \/ run'[p].status # "waiting_result" /\ Clear(p)
              \/ run'[p].status = "waiting_result" /\ Answerable(p, run'[p])
              \/ run'[p].waits \in revived' /\ Clear(p),
           \A q \in Requests : Passing(q) =>
              \/ Passing(q)'
              \/ run'[owner[q]].status = "waiting_result" /\ run'[owner[q]].waits = q,
           \A p \in Runs : \A q :
              Taking(p, q) /\ run'[p].status = "waiting_result" => Taking(p, q)'
    PROVE  Owned' /\ OneOut' /\ Awaited'
<1>1. \A q \in Requests : Out(q) => owner[q] \in Runs
  BY CancelFacts
<1>2. OneOut'
  BY RequestsStand DEF CInv, Requesting, OneOut
<1>3. Owned'
  <2> SUFFICES ASSUME NEW q \in Requests, Out(q)
               PROVE  \/ run'[owner[q]].status \in Terminal
                      \/ run'[owner[q]].status = "waiting_result" /\ run'[owner[q]].waits = q
                      \/ Passing(q)'
    BY RequestsStand DEF Owned
  <2>1. \/ run[owner[q]].status \in Terminal
        \/ run[owner[q]].status = "waiting_result" /\ run[owner[q]].waits = q
        \/ Passing(q)
    BY DEF CInv, Requesting, Owned
  <2>2. ~Clear(owner[q])
    BY DEF Clear
  <2>3. \A p \in Requests : Out(p) /\ owner[p] = owner[q] => p = q
    BY DEF CInv, Requesting, OneOut
  <2> QED
    BY <1>1, <2>1, <2>2, <2>3 DEF Answerable
<1>4. Awaited'
  <2> SUFFICES ASSUME NEW p \in Runs, run'[p].status = "waiting_result"
               PROVE  (Answerable(p, run[p]) \/ Taking(p, run[p].waits) \/ run[p].waits \in revived)'
    BY DEF Awaited
  <2>1. Answerable(p, run[p])' <=> Answerable(p, run'[p])
    BY DEF Answerable, Out
  <2>2. run'[p] = run[p] \/ Answerable(p, run'[p]) \/ run'[p].waits \in revived'
    BY DEF Terminal
  <2>3. CASE run'[p] = run[p]
    <3>1. Answerable(p, run[p]) \/ Taking(p, run[p].waits) \/ run[p].waits \in revived
      BY <2>3 DEF CInv, Requesting, Awaited
    <3>2. ASSUME NEW w, w = run[p].waits, Taking(p, w)  PROVE Taking(p, run[p].waits)'
      <4>1. Taking(p, w)'
        BY <3>2
      <4> QED
        BY <2>3, <3>2, <4>1 DEF Taking
    <3> QED
      BY <2>1, <2>3, <3>1, <3>2
  <2> QED
    BY <2>1, <2>2, <2>3
<1> QED
  BY <1>2, <1>3, <1>4

\* Likewise, for a cycle that goes on as it was: a run may end.
LEMMA EndedRunsWritten ==
    ASSUME CInv, UNCHANGED <<req, owner, cyc, held, todo, revived>>,
           \A p \in Runs : run'[p] = run[p] \/ run'[p].status \in Terminal
    PROVE  Requesting'
<1>1. Owned' /\ OneOut' /\ Awaited'
  BY RunsWritten DEF Passing, Taking
<1>2. cyc.pc \in {"take", "put", "write"} => cyc.run \in Runs
  BY CancelFacts DEF AtRun
<1>3. Asking' /\ Given'
  BY <1>2, RequestsStand DEF CInv, Requesting, Asking, Given
<1>4. Linking'
  BY RequestsStand DEF CInv, Requesting, Linking
<1> QED
  BY <1>1, <1>3, <1>4 DEF Requesting

LEMMA EndedSound ==
    ASSUME NEW x \in Records, NEW status \in Terminal
    PROVE  /\ Sound(Ended(x, status)) /\ Ended(x, status).status = status
           /\ Ended(x, status).reason = "none" /\ status # "waiting_result"
<1>1. "user" # "none" /\ status \notin {"paused", "waiting_result"}
  BY DEF Terminal
<1> QED
  BY <1>1, EndedRecord DEF Sound

LEMMA ApiReadStrong ==
    ASSUME CInv, NEW op \in ApiOps, NEW r \in Runs, ApiRead(op, r)
    PROVE  Strong'
<1>1. op = "cancel" /\ run[r] \in Records
  BY CancelFacts DEF CInv, OnlyCancel
<1>2. api'.write = Ended(run[r], "cancelled")
  BY <1>1 DEF ApiRead, ApiResult
<1>3. Sound(api'.write) /\ api'.write.status = "cancelled"
  BY <1>1, <1>2, EndedSound DEF Terminal
<1>4. UNCHANGED <<run, req, owner, now, cyc, held, todo, mark, lock, rest, revived>> /\ now <= now' /\ now' \in Int
  BY CancelFacts DEF ApiRead
<1>5. RecordsSound'
  BY <1>3, <1>4 DEF CInv, RecordsSound
<1>6. RequestsStay
  BY <1>4 DEF RequestsStay, Out
<1> QED
  BY <1>4, <1>5, <1>6, CancelFrames DEF Strong

LEMMA ApiWriteStrong == ASSUME CInv, ApiWrite PROVE Strong'
<1> DEFINE r == api.run
           x == api.write
<1>1. /\ r \in Runs /\ Store(r, x) /\ Sound(x) /\ x.status = "cancelled"
      /\ api' = NoCall \/ api'.write = x
      /\ UNCHANGED <<req, owner, now, cyc, held, todo, mark, lock, rest, revived>>
      /\ now <= now' /\ now' \in Int
  BY CancelFacts DEF ApiWrite, CInv, IInv, ApiOK, RecordsSound
<1> HIDE DEF r, x
<1>2. \A p \in Runs : run'[p] = IF p = r THEN x ELSE run[p]
  BY <1>1, Stored DEF CInv
<1>3. RecordsSound'
  BY <1>1, <1>2 DEF CInv, RecordsSound
<1>4. Requesting'
  BY <1>1, <1>2, EndedRunsWritten DEF Terminal
<1>5. Pauses'
  BY <1>1, <1>2 DEF CInv, Pauses, ByUserPause
<1>6. Limits'
  BY <1>1, <1>2 DEF CInv, Limits, Keeps, Terminal
<1> QED
  BY <1>1, <1>3, <1>4, <1>5, <1>6, CancelFrames DEF Strong

\* What may be written to p while nobody sends or settles a request.
Writable(p, x) ==
    /\ x.status # "absent" /\ Sound(x) /\ Keeps(p, x)
    /\ \/ x.status \in Terminal
       \/ x.status # "waiting_result" /\ Clear(p)
       \/ x.status = "waiting_result" /\ Answerable(p, x)

\* The requests stay as they are, and the runs are written as they may be.
Writes ==
    /\ UNCHANGED <<req, owner, now, rest, revived, api, mark>>
    /\ \A p \in Runs : run'[p] = run[p] \/ Writable(p, run'[p])
    /\ \A q \in Requests : Passing(q) =>
          \/ Passing(q)'
          \/ run'[owner[q]].status = "waiting_result" /\ run'[owner[q]].waits = q
    /\ \A p \in Runs : \A q : Taking(p, q) /\ run'[p].status = "waiting_result" => Taking(p, q)'
    /\ \A p \in Runs : lock[p] = "mark" => lock'[p] = "mark"

LEMMA WritesFacts ==
    ASSUME CInv, Writes
    PROVE  /\ Owned' /\ OneOut' /\ Awaited'
           /\ \A p \in Runs : /\ Sound(run'[p]) /\ Keeps(p, run'[p])
                              /\ run'[p].status = "absent" => rest[p] = NoTime
           /\ now' = now /\ now <= now' /\ now' \in Int /\ rest' = rest
           /\ \A r, x : Keeps(r, x)' <=> Keeps(r, x)
           /\ api' # NoCall => Sound(api'.write) /\ api'.write.status = "cancelled"
           /\ mark' # NoMark =>
                 /\ Sound(mark'.write) /\ mark'.write.status \in {"active", "waiting_timer"}
                 /\ lock'[owner'[mark'.of]] = "mark" /\ Keeps(owner'[mark'.of], mark'.write)
<1>1. UNCHANGED <<req, owner, now, rest, revived, api, mark>>
  BY DEF Writes
<1>2. Owned' /\ OneOut' /\ Awaited'
  BY RunsWritten DEF Writes, Writable
<1>3. \A p \in Runs : /\ Sound(run'[p]) /\ Keeps(p, run'[p])
                      /\ run'[p].status = "absent" => rest[p] = NoTime
  BY DEF Writes, Writable, CInv, RecordsSound, Limits
<1>4. \A r, x : Keeps(r, x)' <=> Keeps(r, x)
  BY <1>1 DEF Keeps
<1>5. api' # NoCall => Sound(api'.write) /\ api'.write.status = "cancelled"
  BY <1>1 DEF CInv, RecordsSound
<1>6. ASSUME mark' # NoMark
      PROVE  /\ Sound(mark'.write) /\ mark'.write.status \in {"active", "waiting_timer"}
             /\ lock'[owner'[mark'.of]] = "mark" /\ Keeps(owner'[mark'.of], mark'.write)
  <2>1. owner[mark.of] \in Runs
    BY <1>1, <1>6 DEF CInv, IInv, MarkOK, RequestsOK, Out
  <2> QED
    BY <1>1, <1>6, <2>1 DEF CInv, RecordsSound, Locks, Limits, Writes
<1> QED
  BY <1>1, <1>2, <1>3, <1>4, <1>5, <1>6, CancelFacts

\* A cycle that knows nothing of a run any more, or not yet.
Unaware(pc) == pc \in {"idle", "begin", "decide", "ending", "end", "guard", "link"}

LEMMA UnawareStrong ==
    ASSUME CInv, Writes, Unaware(cyc'.pc), Sound(held'), Pauses',
           \A t \in todo' : t[2].status \notin {"absent", "waiting_result"} /\ Writable(t[1], t[2])
    PROVE  Strong'
<1>1. /\ cyc'.pc \notin {"take", "put", "think", "dispatch", "send", "read", "write", "linking"}
  BY DEF Unaware
<1>2. RecordsSound'
  BY WritesFacts DEF RecordsSound, Writable
<1>3. Locks'
  BY <1>1, WritesFacts DEF Locks
<1>4. Given'
  <2>1. \A r : Clear(r)' <=> Clear(r)
    BY RequestsStand DEF Writes
  <2> QED
    BY <2>1 DEF Given, Writable
<1>5. Requesting'
  BY <1>1, <1>4, WritesFacts DEF Requesting, Asking, Linking
<1>6. Limits'
  <2>1. /\ \A r \in Runs : Keeps(r, run'[r])
        /\ \A t \in todo' : Keeps(t[1], t[2])
    BY WritesFacts DEF Writable
  <2>2. /\ \A r \in Runs : Keeps(r, run[r])'
        /\ \A t \in todo' : Keeps(t[1], t[2])'
        /\ mark' # NoMark => Keeps(owner[mark.of], mark.write)'
    BY <2>1, WritesFacts DEF Keeps
  <2> QED
    BY <1>1, <2>2, WritesFacts DEF Limits
<1> QED
  BY <1>2, <1>3, <1>5, <1>6 DEF Strong

\* A run that neither waits nor has ended has no request out, unless its step
\* is about to write that it waits.
LEMMA ClearRuns ==
    ASSUME CInv, NEW r \in Runs, run[r].status \notin Terminal \cup {"waiting_result"},
           ~(cyc.pc \in {"read", "write"} /\ cyc.act = "request" /\ cyc.run = r)
    PROVE  Clear(r)
BY DEF CInv, Requesting, Owned, Clear, Passing

LEMMA UserStartStrong ==
    ASSUME CInv, NEW kind \in {"user", "cancel_all"}, UserStart(kind)
    PROVE  Strong'
<1>1. /\ cyc = NoCycle /\ cyc' = [cyc EXCEPT !.kind = kind, !.pc = "begin"]
      /\ UNCHANGED <<now, api, mark, run, req, owner, held, lock, rest, revived>>
  BY DEF UserStart, Outside
<1>2. cyc.pc = "idle" /\ cyc'.pc = "begin"
  BY <1>1 DEF NoCycle
<1>3. Writes
  BY <1>1, <1>2 DEF Writes, Passing, Taking
<1>4. Sound(held')
  BY <1>1, CancelFacts
<1>5. Pauses'
  BY <1>2 DEF Pauses
<1>6. ASSUME NEW r \in Runs, run[r].status \in {"active", "waiting_timer"},
             NEW x, x = Paused(run[r], "user")
      PROVE  x.status \notin {"absent", "waiting_result"} /\ Writable(r, x)
  <2>1. Clear(r)
    BY <1>2, <1>6, ClearRuns DEF Terminal
  <2>2. run[r] \in Records /\ Sound(run[r]) /\ Keeps(r, run[r])
    BY CancelFacts
  <2>3. /\ x.status = "paused" /\ x.reason = "user"
        /\ x.waits = run[r].waits /\ x.cool = run[r].cool
    BY <1>6, <2>2, PausedRecord
  <2> QED
    BY <1>6, <2>1, <2>2, <2>3 DEF Writable, Sound, Keeps, Terminal
<1>7. ASSUME NEW r \in Runs, NEW x, x = Ended(run[r], "cancelled")
      PROVE  x.status \notin {"absent", "waiting_result"} /\ Writable(r, x)
  BY <1>7, CancelFacts, EndedSound DEF Writable, Keeps, Terminal
<1>8. ASSUME NEW t \in todo'
      PROVE  t[2].status \notin {"absent", "waiting_result"} /\ Writable(t[1], t[2])
  <2>1. CASE kind = "user"
    <3>1. PICK r \in Runs : /\ run[r].status \in {"active", "waiting_timer"}
                            /\ t = <<r, Paused(run[r], "user"), 0>>
      BY <2>1 DEF UserStart
    <3> QED
      BY <1>6, <3>1
  <2>2. CASE kind # "user"
    <3>1. PICK r \in Runs : t = <<r, Ended(run[r], "cancelled"), 2>>
      BY <2>2 DEF UserStart
    <3> QED
      BY <1>7, <3>1
  <2> QED
    BY <2>1, <2>2
<1> QED
  BY <1>2, <1>3, <1>4, <1>5, <1>8, UnawareStrong DEF Unaware

\* A conversation cycle writes one of its records.
LEMMA ListedStrong ==
    ASSUME CInv, NEW t \in todo, UserBegin(t) \/ UserEnd(t)
    PROVE  Strong'
<1>1. /\ cyc.pc \in {"begin", "end"} /\ Store(t[1], t[2])
      /\ UNCHANGED <<now, api, mark, req, owner, cyc, held, lock, rest, revived>>
  BY DEF UserBegin, UserEnd, Outside
<1>2. ASSUME NEW u \in todo
      PROVE  /\ u[1] \in Runs /\ u[2].status \notin {"absent", "waiting_result"}
             /\ Writable(u[1], u[2])
  BY InvFacts DEF CInv, RecordsSound, Requesting, Given, Limits, Writable
<1>3. \A p \in Runs : run'[p] = IF p = t[1] THEN t[2] ELSE run[p]
  BY <1>1, <1>2, Stored DEF CInv
<1>4. Writes
  BY <1>1, <1>2, <1>3 DEF Writes, Passing, Taking
<1>5. Sound(held')
  BY <1>1, CancelFacts
<1>6. ASSUME NEW u \in todo'
      PROVE  u[2].status \notin {"absent", "waiting_result"} /\ Writable(u[1], u[2])
  <2>1. u \in todo \/ u = <<t[1], t[2], t[3] - 1>>
    BY DEF UserBegin, UserEnd
  <2> QED
    BY <1>2, <2>1
<1>7. Pauses'
  <2>1. CASE cyc.pc = "begin"
    BY <1>1, <2>1 DEF Pauses
  <2>2. CASE cyc.pc = "end"
    <3>1. todo' = todo \ {t} /\ cyc' = cyc
      BY <2>2 DEF UserBegin, UserEnd
    <3>2. /\ \A u \in todo : u[2].status # "paused"
          /\ \A r \in Runs : ByUserPause(run[r]) => \E u \in todo : u[1] = r
      BY <2>2 DEF CInv, Pauses
    <3>3. ASSUME NEW r \in Runs, ByUserPause(run'[r])
          PROVE  \E u \in todo' : u[1] = r
      <4>1. r # t[1] /\ run'[r] = run[r]
        BY <1>3, <3>2, <3>3 DEF ByUserPause
      <4>2. PICK u \in todo : u[1] = r
        BY <3>2, <3>3, <4>1
      <4> QED
        BY <3>1, <4>1, <4>2
    <3> QED
      BY <2>2, <3>1, <3>2, <3>3 DEF Pauses, ByUserPause
  <2> QED
    BY <1>1, <2>1, <2>2
<1> QED
  BY <1>1, <1>4, <1>5, <1>6, <1>7, UnawareStrong DEF Unaware

LEMMA UserEndingStrong == ASSUME CInv, UserEnding PROVE Strong'
<1>1. /\ cyc.pc = "ending" /\ cyc' = [cyc EXCEPT !.pc = "end"]
      /\ UNCHANGED <<now, api, mark, run, req, owner, held, lock, rest, revived>>
      /\ todo' = {<<r, ResumedAfterUser(run[r]), 0>> :
                    r \in {r \in Runs : ByUserPause(run[r])}}
  BY DEF UserEnding, Outside
<1>2. cyc'.pc = "end"
  BY <1>1, CancelFacts DEF Cycles
<1>3. Writes
  BY <1>1, <1>2 DEF Writes, Passing, Taking
<1>4. Sound(held')
  BY <1>1, CancelFacts
<1>5. ASSUME NEW r \in Runs, ByUserPause(run[r]), NEW x, x = ResumedAfterUser(run[r])
      PROVE  x.status \in {"active", "waiting_timer"} /\ Writable(r, x)
  <2>1. run[r].status = "paused"
    BY <1>5 DEF ByUserPause
  <2>2. Clear(r)
    BY <1>1, <2>1, ClearRuns DEF Terminal
  <2>3. run[r] \in Records /\ Sound(run[r]) /\ Keeps(r, run[r])
    BY CancelFacts
  <2>4. /\ x.status \in {"active", "waiting_timer"} /\ x.reason = "none"
        /\ x.waits = run[r].waits /\ x.cool = run[r].cool
    BY <1>5, <2>3, ResumedAfterUserRecord
  <2> QED
    BY <2>1, <2>2, <2>3, <2>4 DEF Writable, Sound, Keeps, Terminal
<1>6. ASSUME NEW t \in todo'
      PROVE  t[2].status \in {"active", "waiting_timer"} /\ Writable(t[1], t[2])
  <2>1. PICK r \in Runs : ByUserPause(run[r]) /\ t = <<r, ResumedAfterUser(run[r]), 0>>
    BY <1>1
  <2> QED
    BY <1>5, <2>1
<1>7. ASSUME NEW r \in Runs, ByUserPause(run[r])  PROVE \E t \in todo' : t[1] = r
  <2>1. <<r, ResumedAfterUser(run[r]), 0>> \in todo'
    BY <1>1, <1>7
  <2> QED
    BY <2>1
<1>8. Pauses'
  BY <1>1, <1>2, <1>6, <1>7 DEF Pauses, ByUserPause
<1> QED
  BY <1>2, <1>3, <1>4, <1>6, <1>8, UnawareStrong DEF Unaware

\* A cycle that comes from such a place to another, with nothing to write.
LEMMA TurnStrong ==
    ASSUME CInv, UserBegun \/ UserEnded \/ WakeStart \/ (\E r \in Runs : StepStart(r))
    PROVE  Strong'
<1>1. /\ cyc = NoCycle \/ (cyc.pc \in {"begin", "end"} /\ todo = {})
      /\ UNCHANGED <<now, api, mark, run, req, owner, held, todo, lock, rest, revived>>
  BY DEF UserBegun, UserEnded, WakeStart, StepStart, Outside
<1>2. Unaware(cyc.pc) /\ todo = {}
  BY <1>1 DEF CInv, Pauses, NoCycle, Unaware
<1>3. cyc'.pc \in {"decide", "idle", "guard"}
  <2>1. CASE UserBegun
    BY <2>1, CancelFacts DEF UserBegun, Cycles
  <2>2. CASE UserEnded
    BY <2>2 DEF UserEnded, NoCycle
  <2>3. CASE WakeStart
    BY <2>3 DEF WakeStart, NoCycle
  <2>4. CASE \E r \in Runs : StepStart(r)
    BY <2>4 DEF StepStart, NoCycle
  <2> QED
    BY <2>1, <2>2, <2>3, <2>4
<1>4. Writes
  BY <1>1, <1>2 DEF Writes, Passing, Taking, Unaware
<1>5. Sound(held') /\ Pauses'
  BY <1>1, <1>2, <1>3, CancelFacts DEF Pauses
<1> QED
  BY <1>1, <1>2, <1>3, <1>4, <1>5, UnawareStrong DEF Unaware

LEMMA LeaveStrong ==
    ASSUME CInv, Leave, cyc.pc \notin {"begin", "end"},
           UNCHANGED <<now, api, mark, req, owner, todo, rest, revived>>,
           \A p \in Runs : run'[p] = run[p] \/ Writable(p, run'[p]),
           \A q \in Requests : Passing(q) =>
              run'[owner[q]].status = "waiting_result" /\ run'[owner[q]].waits = q,
           \A p \in Runs : \A q : Taking(p, q) => run'[p].status # "waiting_result"
    PROVE  Strong'
<1>1. cyc'.pc \in {"idle", "ending", "link"}
  BY Left DEF CInv
<1>2. \A p \in Runs : lock[p] = "mark" => lock'[p] = "mark"
  BY DEF Leave
<1>3. Writes
  BY <1>2 DEF Writes
<1>4. Sound(held')
  BY EmptyRecord DEF Leave, Sound, Terminal
<1>5. todo' = {}
  BY DEF CInv, Pauses
<1>6. Pauses'
  BY <1>1, <1>5 DEF Pauses
<1> QED
  BY <1>1, <1>3, <1>4, <1>5, <1>6, UnawareStrong DEF Unaware

LEMMA DecideNoRunStrong == ASSUME CInv, DecideNoRun PROVE Strong'
<1>1. /\ cyc.pc = "decide" /\ Leave
      /\ UNCHANGED <<now, api, mark, run, req, owner, todo, rest, revived>>
  BY DEF DecideNoRun, Outside
<1> QED
  BY <1>1, LeaveStrong DEF Passing, Taking

LEMMA StartRunStrong ==
    ASSUME CInv, NEW r \in Runs, NEW replaced \in SUBSET Runs, StartRun(r, replaced)
    PROVE  Strong'
<1>1. /\ cyc.pc = "decide" /\ run[r].status = "absent"
      /\ run' = [x \in Runs |->
                   IF x = r THEN [NoRun EXCEPT !.status = "active", !.next = now]
                   ELSE IF x \in replaced THEN Ended(run[x], "cancelled")
                   ELSE run[x]]
      /\ cyc' = [cyc EXCEPT !.pc = "guard", !.run = r]
      /\ UNCHANGED <<now, api, mark, req, owner, held, todo, lock, rest, revived>>
  BY DEF StartRun, Outside
<1>2. cyc'.pc = "guard"
  BY <1>1, CancelFacts DEF Cycles
<1>3. ASSUME NEW p \in Runs  PROVE run'[p] = run[p] \/ Writable(p, run'[p])
  <2>1. CASE p = r
    <3>1. run'[p] = [NoRun EXCEPT !.status = "active", !.next = now]
      BY <1>1, <2>1
    <3>2. run'[p].status = "active" /\ run'[p].waits = None /\ run'[p].reason = "none"
      BY <3>1 DEF NoRun
    <3>3. Clear(p)
      BY <1>1, <2>1, ClearRuns DEF Terminal
    <3>4. rest[p] <= now
      <4>1. rest[p] = NoTime /\ now \in 0..MaxTime
        BY <1>1, <2>1, InvFacts DEF CInv, Limits
      <4> QED
        BY <4>1, Constants
    <3> QED
      BY <3>2, <3>3, <3>4 DEF Writable, Sound, Keeps, Terminal
  <2>2. CASE p # r /\ p \in replaced
    <3>1. run'[p] = Ended(run[p], "cancelled")
      BY <1>1, <2>2
    <3> QED
      BY <3>1, CancelFacts, EndedSound DEF Writable, Keeps, Terminal
  <2>3. CASE p # r /\ p \notin replaced
    BY <1>1, <2>3
  <2> QED
    BY <2>1, <2>2, <2>3
<1>4. Writes
  BY <1>1, <1>3 DEF Writes, Passing, Taking
<1>5. todo' = {} /\ Sound(held')
  BY <1>1, CancelFacts DEF CInv, Pauses
<1>6. Pauses'
  BY <1>2, <1>5 DEF Pauses
<1> QED
  BY <1>2, <1>4, <1>5, <1>6, UnawareStrong DEF Unaware

\* A cycle that goes on inside its step or its result: it writes no run, and
\* leaves the locks of marks alone.
LEMMA GoesOn ==
    ASSUME CInv, UNCHANGED <<now, api, mark, run, req, owner, todo, rest, revived>>,
           cyc.pc \in AtRun, cyc'.pc \in AtRun \ {"linking"}, cyc'.run = cyc.run,
           \A p \in Runs : lock[p] = "mark" => lock'[p] = "mark",
           \A q \in Requests : Passing(q) => Passing(q)',
           \A p \in Runs : \A q : Taking(p, q) /\ run[p].status = "waiting_result" => Taking(p, q)',
           Sound(held'), Asking',
           cyc'.pc \in {"put", "think", "dispatch", "send", "read"} => lock'[cyc.run] = "cycle",
           cyc'.pc = "write" => lock'[cyc.run] = "cycle" \/ held'.status \in Terminal,
           cyc'.pc \in {"put", "write"} => Keeps(cyc.run, held'),
           cyc'.pc \in {"think", "dispatch", "send", "read"} => rest[cyc.run] <= now
    PROVE  Strong'
<1>1. Writes
  BY DEF Writes
<1>2. todo = {} /\ todo' = {}
  BY DEF CInv, Pauses, AtRun
<1>3. RecordsSound'
  BY <1>1, <1>2, WritesFacts DEF RecordsSound
<1>4. Locks'
  BY <1>1, WritesFacts DEF Locks
<1>5. Requesting'
  BY <1>1, <1>2, WritesFacts DEF Requesting, Given, Linking
<1>6. Pauses'
  BY <1>2 DEF Pauses, AtRun
<1>7. Limits'
  <2>1. /\ \A r \in Runs : Keeps(r, run[r])'
        /\ mark' # NoMark => Keeps(owner[mark.of], mark.write)'
        /\ cyc'.pc \in {"put", "write"} => Keeps(cyc.run, held)'
    BY <1>1, WritesFacts DEF Keeps
  <2> QED
    BY <1>1, <1>2, <2>1, WritesFacts DEF Limits
<1> QED
  BY <1>3, <1>4, <1>5, <1>6, <1>7 DEF Strong

LEMMA ResultFailsStrong == ASSUME CInv, ResultFails PROVE Strong'
<1>1. /\ cyc.pc = "take" /\ held' = Ended(held, "cancelled")
      /\ cyc' = [cyc EXCEPT !.pc = "write", !.more = 2]
      /\ UNCHANGED <<now, api, mark, run, req, owner, todo, lock, rest, revived>>
  BY DEF ResultFails, Outside
<1>2. cyc \in Cycles /\ cyc.run \in Runs /\ held \in Records
  BY <1>1, CancelFacts DEF AtRun
<1>3. cyc'.pc = "write" /\ cyc'.run = cyc.run /\ cyc'.act = cyc.act /\ cyc'.of = cyc.of
  BY <1>1, <1>2 DEF Cycles
<1>4. Sound(held') /\ held'.status = "cancelled" /\ held'.status \in Terminal
  BY <1>1, <1>2, EndedSound DEF Terminal
<1>5. cyc.act # "request"
  BY <1>1 DEF CInv, Requesting, Asking
<1>6. Asking'
  BY <1>3, <1>4, <1>5 DEF Asking
<1>7. \A p \in Runs : \A q : Taking(p, q) => Taking(p, q)'
  BY <1>1, <1>3, <1>4 DEF Taking
<1>8. \A q \in Requests : ~Passing(q)
  BY <1>1 DEF Passing
<1> QED
  BY <1>1, <1>3, <1>4, <1>6, <1>7, <1>8, GoesOn DEF AtRun, Keeps

LEMMA ResultTakeStrong == ASSUME CInv, ResultTake PROVE Strong'
<1> DEFINE r == cyc.run
<1>1. /\ cyc.pc = "take" /\ lock[r] = "free" /\ r \in Runs /\ cyc \in Cycles
      /\ UNCHANGED <<now, api, mark, run, req, owner, todo, rest, revived>>
  BY CancelFacts DEF ResultTake, Outside, AtRun
<1>2. /\ Clear(r) /\ cyc.act # "request"
      /\ run[r].status \in Terminal \cup {"waiting_result"}
  BY <1>1 DEF CInv, Requesting, Asking
<1>3. \A q \in Requests : ~Passing(q)
  BY <1>1 DEF Passing
<1>4. CASE run[r].status \in Terminal
  <2>1. Leave
    BY <1>4 DEF ResultTake
  <2>2. \A p \in Runs : \A q : Taking(p, q) => run'[p].status # "waiting_result"
    BY <1>1, <1>4 DEF Taking, Terminal
  <2> QED
    BY <1>1, <1>3, <2>1, <2>2, LeaveStrong
<1>5. CASE run[r].status = "waiting_result"
  <2>1. PICK t \in 0..now : held' = AfterResult(run[r], t)
    BY <1>5 DEF ResultTake, Terminal
  <2>2. lock' = [lock EXCEPT ![r] = "cycle"] /\ cyc' = [cyc EXCEPT !.pc = "put"]
    BY <1>5 DEF ResultTake, Terminal
  <2>3. cyc'.pc = "put" /\ cyc'.run = r /\ cyc'.act = cyc.act /\ cyc'.of = cyc.of
    BY <1>1, <2>2 DEF Cycles
  <2>4. /\ run[r] \in Records /\ Sound(run[r]) /\ Keeps(r, run[r])
        /\ run[r].cool \in Int /\ rest[r] \in Int /\ now \in Int
    BY <1>1, CancelFacts, Constants
  <2>5. run[r].reason # "user"
    BY <1>5, <2>4 DEF Sound
  <2>6. /\ held' \in Records /\ held'.status \in {"active", "waiting_timer"} /\ held'.waits = None
        /\ held'.reason # "user" /\ (held'.cool = run[r].cool \/ run[r].cool <= now)
    BY <1>5, <2>1, <2>4, <2>5, AfterResultRecord, InvFacts DEF CInv
  <2>7. Sound(held')
    BY <2>6 DEF Sound, Terminal
  <2>8. Keeps(r, held')
    BY <1>5, <2>4, <2>6 DEF Keeps, Terminal
  <2>9. lock'[r] = "cycle" /\ \A p \in Runs : lock[p] = "mark" => lock'[p] = "mark"
    BY <1>1, <2>2 DEF CInv, IInv, LocksOK
  <2>10. Clear(r)'
    BY <1>1, <1>2, <2>3 DEF Clear, Out
  <2>11. Asking'
    BY <2>3, <2>6, <2>10 DEF Asking
  <2>12. \A p \in Runs : \A q : Taking(p, q) => Taking(p, q)'
    BY <1>1, <2>3 DEF Taking
  <2> QED
    BY <1>1, <1>3, <2>3, <2>7, <2>8, <2>9, <2>11, <2>12, GoesOn DEF AtRun
<1> QED
  BY <1>2, <1>4, <1>5

LEMMA ResultPutStrong == ASSUME CInv, ResultPut PROVE Strong'
<1> DEFINE r == cyc.run
<1>1. /\ cyc.pc = "put" /\ r \in Runs /\ Store(r, held) /\ cyc \in Cycles
      /\ UNCHANGED <<now, api, mark, req, owner, todo, rest, revived>>
  BY CancelFacts DEF ResultPut, Outside, AtRun
<1>2. /\ held.status \in {"active", "waiting_timer"} /\ Writable(r, held)
  <2>1. held.status \in {"active", "waiting_timer"} /\ Clear(r) /\ Keeps(r, held) /\ Sound(held)
    BY <1>1, CancelFacts DEF CInv, Requesting, Asking, Limits
  <2> QED
    BY <2>1 DEF Writable
<1>3. \A p \in Runs : run'[p] = IF p = r THEN held ELSE run[p]
  BY <1>1, Stored DEF CInv
<1>4. \A p \in Runs : run'[p] = run[p] \/ Writable(p, run'[p])
  BY <1>2, <1>3
<1>5. \A q \in Requests : ~Passing(q)
  BY <1>1 DEF Passing
<1>6. \A p \in Runs : \A q : Taking(p, q) => run'[p].status # "waiting_result"
  BY <1>2, <1>3 DEF Taking
<1>7. CASE held.status = "active"
  <2>1. cyc' = [cyc EXCEPT !.pc = "guard"] /\ held' = held /\ lock' = lock
    BY <1>7 DEF ResultPut
  <2>2. cyc'.pc = "guard"
    BY <1>1, <2>1 DEF Cycles
  <2>3. Writes
    BY <1>1, <1>4, <1>5, <1>6, <2>1 DEF Writes
  <2>4. Sound(held')
    BY <2>1, CancelFacts
  <2>5. todo' = {}
    BY <1>1 DEF CInv, Pauses
  <2>6. Pauses'
    BY <2>2, <2>5 DEF Pauses
  <2> QED
    BY <2>2, <2>3, <2>4, <2>5, <2>6, UnawareStrong DEF Unaware
<1>8. CASE held.status # "active"
  <2>1. Leave
    BY <1>8 DEF ResultPut
  <2> QED
    BY <1>1, <1>4, <1>5, <1>6, <2>1, LeaveStrong
<1> QED
  BY <1>7, <1>8

\* A due run is Clear, and has rested.
LEMMA DueRuns ==
    ASSUME CInv, NEW r \in Runs, Due(run[r])
    PROVE  /\ run[r].status \notin Terminal \cup {"waiting_result", "absent"}
           /\ rest[r] <= now
<1>1. run[r].status \in {"active", "waiting_timer"}
  BY DEF Due
<1>2. /\ run[r] \in Records /\ RestsAt(run[r], now) /\ Keeps(r, run[r])
      /\ rest[r] \in Int /\ now \in Int /\ run[r].cool \in Int /\ run[r].next \in Int
  BY CancelFacts, Constants, Fields
<1>3. run[r].cool <= now
  BY <1>2 DEF Due, RestsAt, Timed
<1> QED
  BY <1>1, <1>2, <1>3 DEF Keeps, Terminal

LEMMA GuardedStrong ==
    ASSUME CInv, NEW next, GuardedBy(next), lock[cyc.run] # "mark",
           cyc.pc \in {"guard", "think", "dispatch"}, next.run = cyc.run,
           next.pc \in {"think", "dispatch", "send", "read"},
           next.pc \in {"dispatch", "send"} => next.act = "request",
           next.pc = "read" => next.act # "request"
    PROVE  Strong'
<1> DEFINE r == cyc.run
<1>1. /\ r \in Runs /\ UNCHANGED <<now, api, mark, run, req, owner, todo, rest, revived>>
  BY CancelFacts DEF GuardedBy, Outside, AtRun
<1>2. \A q \in Requests : ~Passing(q)
  BY DEF Passing
<1>3. \A p \in Runs : \A q : ~Taking(p, q)
  BY DEF Taking
<1>4. CASE Due(run[r])
  <2>1. cyc' = next /\ lock' = [lock EXCEPT ![r] = "cycle"] /\ held' = held
    BY <1>4 DEF GuardedBy
  <2>2. rest[r] <= now /\ run[r].status \notin Terminal \cup {"waiting_result", "absent"}
    BY <1>1, <1>4, DueRuns
  <2>3. Clear(r)'
    <3>1. Clear(r)
      BY <1>1, <2>2, ClearRuns
    <3> QED
      BY <1>1, <2>1, <3>1 DEF Clear, Out
  <2>4. Asking'
    BY <2>1, <2>3 DEF Asking
  <2>5. lock'[r] = "cycle" /\ \A p \in Runs : lock[p] = "mark" => lock'[p] = "mark"
    BY <1>1, <2>1 DEF CInv, IInv, LocksOK
  <2>6. Sound(held')
    BY <2>1, CancelFacts
  <2> QED
    BY <1>1, <1>2, <1>3, <2>1, <2>2, <2>4, <2>5, <2>6, GoesOn DEF AtRun
<1>5. CASE ~Due(run[r])
  <2>1. Leave
    BY <1>5 DEF GuardedBy
  <2> QED
    BY <1>1, <1>2, <1>3, <2>1, LeaveStrong
<1> QED
  BY <1>4, <1>5

LEMMA StepGuardStrong == ASSUME CInv, StepGuard PROVE Strong'
<1> DEFINE next == [cyc EXCEPT !.pc = "think"]
<1>1. cyc.pc = "guard" /\ lock[cyc.run] # "mark" /\ GuardedBy(next)
  BY DEF StepGuard
<1>2. next.pc = "think" /\ next.run = cyc.run
  BY CancelFacts DEF Cycles
<1> HIDE DEF next
<1> QED
  BY <1>1, <1>2, GuardedStrong

LEMMA StepDecideStrong ==
    ASSUME CInv, NEW act \in Actions, NEW then \in Transitions, StepDecide(act, then)
    PROVE  Strong'
<1> DEFINE next == [cyc EXCEPT !.act = act, !.then = then,
                               !.pc = IF act = "request" THEN "dispatch" ELSE "read"]
<1>1. cyc.pc = "think" /\ GuardedBy(next)
  BY DEF StepDecide
<1>2. lock[cyc.run] # "mark"
  BY <1>1 DEF CInv, Locks
<1>3. /\ next.pc = IF act = "request" THEN "dispatch" ELSE "read"
      /\ next.act = act /\ next.run = cyc.run
  BY CancelFacts DEF Cycles
<1> HIDE DEF next
<1> QED
  BY <1>1, <1>2, <1>3, GuardedStrong

LEMMA StepDispatchStrong == ASSUME CInv, StepDispatch PROVE Strong'
<1> DEFINE next == [cyc EXCEPT !.pc = "send"]
<1>1. cyc.pc = "dispatch" /\ GuardedBy(next)
  BY DEF StepDispatch
<1>2. lock[cyc.run] # "mark" /\ cyc.act = "request"
  BY <1>1 DEF CInv, Locks, Requesting, Asking
<1>3. next.pc = "send" /\ next.act = cyc.act /\ next.run = cyc.run
  BY CancelFacts DEF Cycles
<1> HIDE DEF next
<1> QED
  BY <1>1, <1>2, <1>3, GuardedStrong

LEMMA StepFailsStrong == ASSUME CInv, StepFails PROVE Strong'
<1>1. /\ cyc.pc \in {"think", "dispatch", "send"}
      /\ cyc' = [cyc EXCEPT !.pc = "read", !.act = "fail"]
      /\ UNCHANGED <<now, api, mark, run, req, owner, held, todo, lock, rest, revived>>
  BY DEF StepFails, Outside
<1>2. cyc'.pc = "read" /\ cyc'.act = "fail" /\ cyc'.run = cyc.run
  BY <1>1, CancelFacts DEF Cycles
<1>3. Clear(cyc.run) /\ lock[cyc.run] = "cycle" /\ rest[cyc.run] <= now
  BY <1>1 DEF CInv, Requesting, Asking, Locks, Limits
<1>4. Clear(cyc.run)'
  BY <1>1, <1>2, <1>3 DEF Clear, Out
<1>5. Asking'
  BY <1>2, <1>4 DEF Asking
<1>6. \A q \in Requests : ~Passing(q)
  BY <1>1 DEF Passing
<1>7. \A p \in Runs : \A q : ~Taking(p, q)
  BY <1>1 DEF Taking
<1>8. Sound(held')
  BY <1>1, CancelFacts
<1> QED
  BY <1>1, <1>2, <1>3, <1>5, <1>6, <1>7, <1>8, GoesOn DEF AtRun

LEMMA StepReadStrong == ASSUME CInv, StepRead PROVE Strong'
<1> DEFINE r == cyc.run
           x == Stepped(run[r])
<1>1. /\ cyc.pc = "read" /\ r \in Runs /\ cyc \in Cycles
      /\ UNCHANGED <<now, api, mark, run, req, owner, todo, rest, revived>>
  BY CancelFacts DEF StepRead, Outside, AtRun
<1>2. \A p \in Runs : \A q : ~Taking(p, q)
  BY <1>1 DEF Taking
<1>3. CASE Unspoken /\ ~Due(run[r])
  <2>1. Leave
    BY <1>3 DEF StepRead
  <2>2. \A q \in Requests : ~Passing(q)
    BY <1>3 DEF Passing, Unspoken
  <2> QED
    BY <1>1, <1>2, <2>1, <2>2, LeaveStrong
<1>4. CASE ~(Unspoken /\ ~Due(run[r]))
  <2>1. /\ held' = x /\ lock' = lock
        /\ cyc' = [cyc EXCEPT !.pc = "write", !.more = MoreWrites(x)]
    BY <1>4 DEF StepRead
  <2>2. cyc'.pc = "write" /\ cyc'.run = r /\ cyc'.act = cyc.act /\ cyc'.of = cyc.of
    BY <1>1, <2>1 DEF Cycles
  <2>3. /\ x.reason = "none"
        /\ cyc.act = "request" => x.status = "waiting_result" /\ x.waits = cyc.of
        /\ cyc.act # "request" => x.waits = None /\ x.status \in Terminal \cup {"waiting_timer"}
        /\ x.status \in Terminal => x.cool = NoTime
    BY <1>1, CancelFacts, InvFacts, SteppedRecord DEF CInv
  <2>4. /\ lock[r] = "cycle" /\ rest[r] <= now
        /\ cyc.act # "request" => Clear(r)
        /\ cyc.act = "request" => cyc.of \in Requests /\ Out(cyc.of) /\ owner[cyc.of] = r
    BY <1>1 DEF CInv, Requesting, Asking, Locks, Limits
  <2> HIDE DEF x
  <2>5. Sound(held')
    <3>1. cyc.of \in Requests => cyc.of # None
      BY Constants
    <3> QED
      BY <2>1, <2>3, <2>4, <3>1 DEF Sound, Terminal
  <2>6. Asking'
    BY <1>1, <2>1, <2>2, <2>3, <2>4 DEF Asking, Clear, Out
  <2>7. \A q \in Requests : Passing(q) => Passing(q)'
    BY <1>1, <2>2 DEF Passing
  <2> QED
    BY <1>1, <1>2, <2>1, <2>2, <2>4, <2>5, <2>6, <2>7, GoesOn DEF AtRun, Keeps
<1> QED
  BY <1>3, <1>4

LEMMA StepSendStrong == ASSUME CInv, StepSend PROVE Strong'
<1> DEFINE r == cyc.run
<1>1. PICK q \in Requests : /\ req[q] = "unused"
                            /\ req' = [req EXCEPT ![q] = "open"]
                            /\ owner' = [owner EXCEPT ![q] = r]
                            /\ cyc' = [cyc EXCEPT !.pc = "read", !.of = q]
  BY DEF StepSend
<1>2. /\ cyc.pc = "send" /\ r \in Runs /\ cyc \in Cycles
      /\ UNCHANGED <<now, api, mark, run, held, todo, lock, rest, revived>>
      /\ now <= now' /\ now' \in Int
  BY CancelFacts DEF StepSend, Outside, AtRun
<1>3. /\ Clear(r) /\ cyc.act = "request" /\ lock[r] = "cycle" /\ rest[r] <= now
  BY <1>2 DEF CInv, Requesting, Asking, Locks, Limits
<1>4. cyc'.pc = "read" /\ cyc'.of = q /\ cyc'.run = r /\ cyc'.act = "request"
  BY <1>1, <1>2, <1>3 DEF Cycles
<1>5. /\ \A p \in Requests : Out(p)' <=> Out(p) \/ p = q
      /\ \A p \in Requests : owner'[p] = IF p = q THEN r ELSE owner[p]
      /\ ~Out(q)
  BY <1>1 DEF CInv, IInv, RequestsOK, Out
<1> HIDE DEF r
<1>6. RecordsSound'
  BY <1>2, CancelFrames
<1>7. mark # NoMark => owner'[mark.of] = owner[mark.of]
  BY <1>5 DEF CInv, IInv, MarkOK, Out
<1>8. Locks'
  BY <1>2, <1>3, <1>4, <1>7 DEF CInv, Locks
<1>9. todo = {} /\ todo' = {}
  BY <1>2 DEF CInv, Pauses
<1>10. Owned'
  BY <1>2, <1>4, <1>5 DEF CInv, Requesting, Owned, Passing
<1>11. OneOut'
  BY <1>3, <1>5 DEF CInv, Requesting, OneOut, Clear
<1>12. Awaited'
  <2> SUFFICES ASSUME NEW p \in Runs, run[p].status = "waiting_result"
               PROVE  Answerable(p, run[p])' \/ run'[p].waits \in revived'
    BY <1>2 DEF Awaited
  <2>1. Answerable(p, run[p]) \/ run'[p].waits \in revived'
    BY <1>2 DEF CInv, Requesting, Awaited, Taking
  <2> QED
    BY <1>2, <1>5, <2>1 DEF Answerable
<1>13. Asking' /\ Given' /\ Linking'
  BY <1>4, <1>5, <1>9 DEF Asking, Given, Linking
<1>14. Pauses'
  BY <1>4, <1>9 DEF Pauses
<1>15. Limits'
  BY <1>2, <1>3, <1>4, <1>7, <1>9 DEF CInv, Limits, Keeps
<1> QED
  BY <1>6, <1>8, <1>10, <1>11, <1>12, <1>13, <1>14, <1>15 DEF Strong, Requesting

LEMMA StepWriteStrong == ASSUME CInv, StepWrite PROVE Strong'
<1> DEFINE r == cyc.run
<1>1. /\ cyc.pc = "write" /\ r \in Runs /\ Store(r, held) /\ cyc \in Cycles
      /\ rest' = [rest EXCEPT ![r] = IF held.cool > @ THEN held.cool ELSE @]
      /\ UNCHANGED <<now, api, mark, req, owner, todo, revived>>
      /\ now <= now' /\ now' \in Int
  BY CancelFacts DEF StepWrite, Outside, AtRun
<1>2. \/ Leave
      \/ /\ cyc' = [cyc EXCEPT !.more = @ - 1]
         /\ held' = held /\ lock' = lock
  BY DEF StepWrite
<1>3. \/ cyc'.pc \in {"idle", "ending", "link"}
      \/ /\ cyc'.pc = "write" /\ cyc'.run = r /\ cyc'.act = cyc.act /\ cyc'.of = cyc.of
         /\ held' = held /\ lock' = lock
  BY <1>1, <1>2, Left DEF CInv, Cycles
<1>4. /\ \A p \in Runs : lock[p] = "mark" => lock'[p] = "mark"
      /\ Sound(held')
  BY <1>2, CancelFacts, EmptyRecord DEF Leave, Sound, Terminal
<1>5. /\ Sound(held) /\ Keeps(r, held)
      /\ lock[r] = "cycle" \/ held.status \in Terminal
      /\ cyc.act = "request" =>
            /\ held.status = "waiting_result" /\ held.waits = cyc.of
            /\ Answerable(r, held)
      /\ cyc.act # "request" =>
            held.status \in Terminal \/ (held.status = "waiting_timer" /\ Clear(r))
  BY <1>1, CancelFacts DEF CInv, Requesting, Asking, Locks, Limits, Answerable
<1>6. \A p \in Runs : run'[p] = IF p = r THEN held ELSE run[p]
  BY <1>1, Stored DEF CInv
<1>7. todo = {} /\ todo' = {}
  BY <1>1 DEF CInv, Pauses
<1>8. mark # NoMark => owner[mark.of] \in Runs /\ lock[owner[mark.of]] = "mark"
  BY DEF CInv, IInv, MarkOK, RequestsOK, Out, Locks
<1> HIDE DEF r
<1>9. RecordsSound'
  BY <1>1, <1>4, <1>5, <1>6, <1>7 DEF CInv, RecordsSound
<1>10. Locks'
  BY <1>1, <1>3, <1>4, <1>5, <1>8 DEF CInv, Locks
<1>11. Owned' /\ OneOut' /\ Awaited'
  <2>1. ASSUME NEW p \in Runs
        PROVE  \/ run'[p] = run[p]
               \/ run'[p].status \in Terminal
               \/ run'[p].status # "waiting_result" /\ Clear(p)
               \/ run'[p].status = "waiting_result" /\ Answerable(p, run'[p])
    BY <1>5, <1>6
  <2>2. ASSUME NEW q \in Requests, Passing(q)
        PROVE  run'[owner[q]].status = "waiting_result" /\ run'[owner[q]].waits = q
    BY <1>1, <1>5, <1>6, <2>2 DEF Passing, r
  <2>3. ASSUME NEW p \in Runs, NEW q, Taking(p, q)
        PROVE  run'[p].status # "waiting_result"
    BY <1>1, <1>6, <2>3 DEF Taking, Terminal, r
  <2> QED
    BY <1>1, <2>1, <2>2, <2>3, RunsWritten
<1>12. Asking' /\ Given' /\ Linking'
  <2>1. \A p : Clear(p)' <=> Clear(p)
    BY <1>1, RequestsStand
  <2> QED
    BY <1>1, <1>3, <1>5, <1>7, <2>1 DEF Asking, Given, Linking, Answerable, Out, r
<1>13. Pauses'
  BY <1>3, <1>7 DEF Pauses
<1>14. Limits'
  <2>1. ASSUME NEW p \in Runs
        PROVE  /\ p # r => rest'[p] = rest[p]
               /\ rest'[p] = rest[p] \/ rest'[p] = held.cool
               /\ rest[r] \in Int /\ held.cool \in Int
    BY <1>1, CancelFacts, Constants DEF CInv, IInv, LocksOK
  <2>2. rest'[r] = rest[r] \/ held.status \notin Terminal
    <3>1. rest[r] \in NoTime..MaxTime + Cooldown /\ rest \in [Runs -> NoTime..MaxTime + Cooldown]
      BY <1>1, CancelFacts DEF CInv, IInv, LocksOK
    <3>2. rest'[r] = IF held.cool > rest[r] THEN held.cool ELSE rest[r]
      BY <1>1, <3>1
    <3>3. held.status \in Terminal => held.cool = NoTime
      BY <1>5 DEF Sound
    <3>4. ~(NoTime > rest[r])
      BY <3>1, Constants
    <3> QED
      BY <3>2, <3>3, <3>4
  <2>3. rest'[r] <= now \/ held.status \in Terminal \/ rest'[r] <= held.cool
    BY <1>1, <1>5, <2>1 DEF Keeps
  <2>4. ASSUME NEW p \in Runs  PROVE Keeps(p, run[p])' /\ (run'[p].status = "absent" => rest'[p] = NoTime)
    <3>1. CASE p = r
      <4>1. held.status # "absent"
        BY <1>5 DEF Terminal
      <4> QED
        BY <1>1, <1>6, <2>3, <3>1, <4>1 DEF Keeps
    <3>2. CASE p # r
      BY <1>1, <1>6, <2>1, <3>2 DEF CInv, Limits, Keeps
    <3> QED
      BY <3>1, <3>2
  <2>5. mark' # NoMark => Keeps(owner[mark.of], mark.write)'
    <3>1. CASE mark # NoMark /\ owner[mark.of] # r
      BY <1>1, <1>8, <2>1, <3>1 DEF CInv, Limits, Keeps
    <3>2. CASE mark # NoMark /\ owner[mark.of] = r
      <4>1. rest'[r] = rest[r]
        BY <1>5, <1>8, <2>2, <3>2
      <4> QED
        BY <1>1, <3>2, <4>1 DEF CInv, Limits, Keeps
    <3> QED
      BY <1>1, <3>1, <3>2
  <2>6. cyc'.pc = "write" => Keeps(cyc.run, held)'
    BY <1>1, <1>3, <2>3 DEF Keeps
  <2> QED
    BY <1>3, <1>7, <2>4, <2>5, <2>6 DEF Limits
<1> QED
  BY <1>9, <1>10, <1>11, <1>12, <1>13, <1>14 DEF Strong, Requesting

LEMMA ResultStartStrong ==
    ASSUME CInv, NEW q \in Requests, ResultStart(q)
    PROVE  Strong'
<1> DEFINE r == owner[q]
<1>1. /\ cyc = NoCycle /\ req[q] = "answered" /\ req' = [req EXCEPT ![q] = "done"]
      /\ cyc' = [cyc EXCEPT !.kind = "result", !.pc = "take", !.of = q, !.run = r]
      /\ held' = run[r]
      /\ UNCHANGED <<now, api, mark, run, owner, todo, lock, rest, revived>>
      /\ now <= now' /\ now' \in Int
  BY CancelFacts DEF ResultStart, Outside
<1>2. /\ cyc.pc = "idle" /\ cyc'.pc = "take" /\ cyc'.act = "none"
      /\ cyc'.of = q /\ cyc'.run = r
  BY <1>1 DEF NoCycle
<1>3. Out(q) /\ r \in Runs
  BY <1>1, CancelFacts DEF Out
<1>4. \A p \in Requests : Out(p)' <=> Out(p) /\ p # q
  BY <1>1 DEF CInv, IInv, RequestsOK, Out
<1>5. \A p \in Requests : Out(p) /\ owner[p] = r => p = q
  BY <1>3 DEF CInv, Requesting, OneOut
<1>6. todo = {} /\ todo' = {}
  BY <1>1, <1>2 DEF CInv, Pauses
<1>7. run[r].status \in Terminal \cup {"waiting_result"} /\ Sound(run[r])
  BY <1>2, <1>3, CancelFacts DEF CInv, Requesting, Owned, Passing
<1> HIDE DEF r
<1>8. RecordsSound'
  BY <1>1, <1>6, <1>7 DEF CInv, RecordsSound
<1>9. Locks'
  BY <1>1, <1>2 DEF CInv, Locks
<1>10. Owned' /\ OneOut'
  BY <1>1, <1>2, <1>4 DEF CInv, Requesting, Owned, OneOut, Passing
<1>11. Awaited'
  <2> SUFFICES ASSUME NEW p \in Runs, run[p].status = "waiting_result"
               PROVE  (Answerable(p, run[p]) \/ Taking(p, run[p].waits) \/ run[p].waits \in revived)'
    BY <1>1 DEF Awaited
  <2>1. Answerable(p, run[p]) \/ run[p].waits \in revived'
    BY <1>1, <1>2 DEF CInv, Requesting, Awaited, Taking
  <2>2. CASE run[p].waits = q
    BY <1>1, <1>2, <2>1, <2>2 DEF Answerable, Taking, r
  <2>3. CASE run[p].waits # q
    BY <1>1, <1>4, <2>1, <2>3 DEF Answerable
  <2> QED
    BY <2>2, <2>3
<1>12. Asking' /\ Given' /\ Linking'
  <2>1. \A p \in Requests : Out(p)' => owner'[p] # r
    BY <1>1, <1>4, <1>5
  <2>2. Clear(cyc.run)'
    BY <1>2, <2>1 DEF Clear
  <2> QED
    BY <1>1, <1>2, <1>6, <1>7, <2>2 DEF Asking, Given, Linking
<1>13. Pauses'
  BY <1>2, <1>6 DEF Pauses
<1>14. Limits'
  BY <1>1, <1>2, <1>6 DEF CInv, Limits, Keeps
<1> QED
  BY <1>8, <1>9, <1>10, <1>11, <1>12, <1>13, <1>14 DEF Strong, Requesting

LEMMA LinkReadStrong == ASSUME CInv, LinkRead PROVE Strong'
<1> DEFINE r == cyc.run
<1>1. /\ cyc.pc = "link" /\ r \in Runs /\ cyc \in Cycles /\ held' = run[r]
      /\ cyc' = [cyc EXCEPT !.pc = "linking", !.more = MoreWrites(run[r])]
      /\ UNCHANGED <<now, api, mark, run, req, owner, todo, lock, rest, revived>>
  BY CancelFacts DEF LinkRead, Outside, AtRun
<1>2. cyc'.pc = "linking" /\ cyc'.run = r
  BY <1>1 DEF Cycles
<1>3. Sound(run[r]) /\ Keeps(r, run[r]) /\ (run[r].status = "absent" => rest[r] = NoTime)
  BY <1>1, CancelFacts DEF CInv, Limits
<1>4. todo = {} /\ todo' = {}
  BY <1>1 DEF CInv, Pauses
<1> HIDE DEF r
<1>5. Writes
  BY <1>1, <1>2 DEF Writes, Passing, Taking
<1>6. RecordsSound'
  BY <1>1, <1>3, <1>4, <1>5, WritesFacts DEF RecordsSound
<1>7. Locks' /\ Pauses'
  BY <1>2, <1>4, <1>5, WritesFacts DEF Locks, Pauses
<1>8. Linking'
  <2>1. ASSUME NEW q \in Requests, Out(q), owner[q] = r
        PROVE  run[r].status \in Terminal \/ (run[r].status = "waiting_result" /\ run[r].waits = q)
    BY <1>1, <2>1 DEF CInv, Requesting, Owned, Passing
  <2>2. ASSUME run[r].status = "waiting_result"
        PROVE  \/ run[r].waits \in revived
               \/ owner[run[r].waits] = r /\ req[run[r].waits] # "unused"
    BY <1>1, <2>2 DEF CInv, Requesting, Awaited, Taking, Answerable, Out
  <2> QED
    BY <1>1, <1>2, <2>1, <2>2, RequestsStand DEF Linking
<1>9. Requesting'
  BY <1>2, <1>4, <1>5, <1>8, WritesFacts DEF Requesting, Asking, Given
<1>10. Limits'
  <2>1. /\ \A p \in Runs : Keeps(p, run[p])'
        /\ mark' # NoMark => Keeps(owner[mark.of], mark.write)'
    BY <1>5, WritesFacts DEF Keeps
  <2>2. Keeps(cyc.run, held)'
    BY <1>1, <1>2, <1>3 DEF Keeps
  <2> QED
    BY <1>1, <1>2, <1>3, <1>4, <1>5, <2>1, <2>2, WritesFacts DEF Limits
<1> QED
  BY <1>6, <1>7, <1>9, <1>10 DEF Strong

\* The link writes over whatever was written since it read: a wait that has
\* ended meanwhile is revived, and is no request that is out.
LEMMA LinkWriteStrong == ASSUME CInv, LinkWrite PROVE Strong'
<1> DEFINE r == cyc.run
<1>1. /\ cyc.pc = "linking" /\ r \in Runs /\ cyc \in Cycles /\ Store(r, held)
      /\ revived' = revived \cup {q \in Requests : /\ held.status = "waiting_result"
                                                  /\ held.waits = q /\ req[q] = "done"}
      /\ UNCHANGED <<now, api, mark, req, owner, todo, lock, rest>>
      /\ now <= now' /\ now' \in Int
  BY CancelFacts DEF LinkWrite, Outside, AtRun
<1>2. \/ Over /\ held' = NoRun
      \/ cyc' = [cyc EXCEPT !.more = @ - 1] /\ held' = held
  BY DEF LinkWrite
<1>3. \/ cyc'.pc \in {"idle", "ending"}
      \/ cyc'.pc = "linking" /\ cyc'.run = r /\ held' = held
  BY <1>1, <1>2, OverCycle DEF Cycles
<1>4. Sound(held) /\ Sound(held') /\ Keeps(r, held)
      /\ (held.status = "absent" => rest[r] = NoTime)
  BY <1>1, <1>2, CancelFacts, EmptyRecord DEF CInv, Limits, Sound, Terminal
<1>5. \A p \in Runs : run'[p] = IF p = r THEN held ELSE run[p]
  BY <1>1, Stored DEF CInv
<1>6. todo = {} /\ todo' = {}
  BY <1>1 DEF CInv, Pauses
<1>7. /\ \A q \in Requests : Out(q) /\ owner[q] = r =>
            held.status \in Terminal \/ (held.status = "waiting_result" /\ held.waits = q)
      /\ held.status = "waiting_result" =>
            \/ held.waits \in revived
            \/ owner[held.waits] = r /\ req[held.waits] # "unused"
  BY <1>1 DEF CInv, Requesting, Linking
<1> HIDE DEF r
<1>8. RecordsSound' /\ Locks' /\ Pauses'
  BY <1>1, <1>3, <1>4, <1>5, <1>6 DEF CInv, RecordsSound, Locks, Pauses
<1>9. \/ held.status \in Terminal
      \/ held.status # "waiting_result" /\ Clear(r)
      \/ held.status = "waiting_result" /\ Answerable(r, held)
      \/ held.waits \in revived' /\ Clear(r)
  <2>1. CASE held.status \notin Terminal \cup {"waiting_result"}
    BY <1>7, <2>1 DEF Clear
  <2>2. CASE held.status = "waiting_result"
    <3>1. held.waits \in Requests
      BY <1>4, <2>2, CancelFacts, Fields DEF Sound
    <3>2. CASE Out(held.waits) /\ owner[held.waits] = r
      BY <2>2, <3>1, <3>2 DEF Answerable
    <3>3. CASE ~(Out(held.waits) /\ owner[held.waits] = r)
      <4>1. Clear(r)
        BY <1>7, <2>2, <3>3 DEF Clear, Terminal
      <4>2. held.waits \in revived \/ req[held.waits] = "done"
        BY <1>7, <2>2, <3>1, <3>3 DEF Out, CInv, IInv, RequestsOK
      <4> QED
        BY <1>1, <2>2, <3>1, <4>1, <4>2
    <3> QED
      BY <3>2, <3>3
  <2> QED
    BY <2>1, <2>2
<1>10. Owned' /\ OneOut' /\ Awaited'
  <2>1. ASSUME NEW p \in Runs
        PROVE  \/ run'[p] = run[p]
               \/ run'[p].status \in Terminal
               \/ run'[p].status # "waiting_result" /\ Clear(p)
               \/ run'[p].status = "waiting_result" /\ Answerable(p, run'[p])
               \/ run'[p].waits \in revived' /\ Clear(p)
    BY <1>5, <1>9
  <2> QED
    BY <1>1, <2>1, RunsWritten DEF Passing, Taking
<1>11. Linking'
  BY <1>1, <1>3, <1>7, RequestsStand DEF Linking
<1>12. Asking' /\ Given'
  BY <1>3, <1>6 DEF Asking, Given
<1>13. Limits'
  <2>1. ASSUME NEW p \in Runs
        PROVE  Keeps(p, run[p])' /\ (run'[p].status = "absent" => rest'[p] = NoTime)
    BY <1>1, <1>4, <1>5 DEF CInv, Limits, Keeps
  <2>2. mark' # NoMark => Keeps(owner[mark.of], mark.write)'
    BY <1>1 DEF CInv, Limits, Keeps
  <2>3. cyc'.pc = "linking" => Keeps(cyc.run, held)' /\ (held'.status = "absent" => rest'[cyc'.run] = NoTime)
    BY <1>1, <1>3, <1>4 DEF Keeps
  <2> QED
    BY <1>3, <1>6, <2>1, <2>2, <2>3 DEF Limits
<1> QED
  BY <1>8, <1>10, <1>11, <1>12, <1>13 DEF Strong, Requesting

LEMMA RestartStrong == ASSUME CInv, Restart PROVE Strong'
<1>1. /\ req' = [q \in Requests |->
                   IF req[q] \in {"open", "answered", "expired"} THEN "done" ELSE req[q]]
      /\ cyc' = NoCycle /\ held' = NoRun /\ todo' = {} /\ api' = NoCall /\ mark' = NoMark
      /\ UNCHANGED <<owner, now, rest, revived>>
      /\ run' = [r \in Runs |->
                   IF run[r].status \in {"waiting_result", "paused"} /\ run[r].waits # None
                   THEN Interrupted(run[r], now) ELSE run[r]]
  BY DEF Restart, Forget
<1>2. \A q \in Requests : ~Out(q)'
  BY <1>1 DEF Out
<1>3. cyc'.pc = "idle"
  BY <1>1 DEF NoCycle
<1>4. ASSUME NEW r \in Runs
      PROVE  /\ run'[r].status # "waiting_result" /\ Sound(run'[r]) /\ Keeps(r, run'[r])
             /\ run'[r].status = "absent" => rest[r] = NoTime
  <2>1. /\ run[r] \in Records /\ Sound(run[r]) /\ Keeps(r, run[r])
        /\ rest[r] \in Int /\ now \in Int /\ run[r].cool \in Int
    BY CancelFacts, Constants
  <2>2. CASE run[r].status = "waiting_result"
    <3>1. run[r].waits # None /\ run[r].reason # "user"
      BY <2>1, <2>2 DEF Sound
    <3>2. run'[r] = Interrupted(run[r], now)
      BY <1>1, <2>2, <3>1
    <3>3. now \in 0..now /\ now \in 0..MaxTime
      BY InvFacts, Constants DEF CInv
    <3> DEFINE y == run'[r]
    <3>4. /\ y.waits = None /\ y.status \in {"active", "waiting_timer"}
          /\ y.reason # "user" /\ (y.cool = run[r].cool \/ run[r].cool <= now)
      BY <2>1, <2>2, <3>1, <3>2, <3>3, AfterResultRecord
    <3> HIDE DEF y
    <3>5. Keeps(r, y)
      BY <2>1, <2>2, <3>4 DEF Keeps, Terminal
    <3> QED
      BY <3>4, <3>5 DEF Sound, Terminal, y
  <2>3. CASE run[r].status # "waiting_result"
    <3>1. run'[r] = run[r]
      BY <1>1, <2>1, <2>3 DEF Sound
    <3> QED
      BY <2>1, <2>3, <3>1 DEF CInv, Limits
  <2> QED
    BY <2>2, <2>3
<1>5. RecordsSound'
  BY <1>1, <1>4, EmptyRecord DEF RecordsSound, Sound, Terminal
<1>6. Locks'
  BY <1>1, <1>3 DEF Locks
<1>7. Requesting'
  BY <1>1, <1>2, <1>3, <1>4 DEF Requesting, Owned, OneOut, Awaited, Asking, Given, Linking
<1>8. Pauses'
  BY <1>1, <1>3 DEF Pauses
<1>9. Limits'
  BY <1>1, <1>3, <1>4 DEF Limits, Keeps
<1> QED
  BY <1>5, <1>6, <1>7, <1>8, <1>9 DEF Strong

LEMMA InitCInv == Init /\ OnlyCancel => CInv
<1> SUFFICES ASSUME Init, OnlyCancel PROVE CInv
  OBVIOUS
<1>1. /\ run = [r \in Runs |-> NoRun] /\ cyc.pc = "idle" /\ held = NoRun
      /\ todo = {} /\ api = NoCall /\ mark = NoMark
      /\ rest = [r \in Runs |-> NoTime] /\ now = 0
      /\ \A q \in Requests : ~Out(q)
  BY DEF Init, Out, NoCycle
<1>2. Sound(NoRun) /\ NoRun.status = "absent"
  BY EmptyRecord DEF Sound, Terminal
<1>3. RecordsSound /\ Locks /\ Pauses
  BY <1>1, <1>2 DEF RecordsSound, Locks, Pauses, ByUserPause
<1>4. Requesting
  BY <1>1, <1>2 DEF Requesting, Owned, OneOut, Awaited, Asking, Given, Linking
<1>5. Limits
  BY <1>1, <1>2, Constants DEF Limits, Keeps
<1> QED
  BY <1>3, <1>4, <1>5, InitIInv DEF CInv

LEMMA CycleStrong == ASSUME CInv, Cycle PROVE Strong'
<1>1. CASE Conversation
  BY <1>1, ListedStrong, TurnStrong, UserEndingStrong DEF Conversation
<1>2. CASE Decision
  BY <1>2, DecideNoRunStrong, StartRunStrong DEF Decision
<1>3. CASE Step
  BY <1>3, StepGuardStrong, StepDecideStrong, StepDispatchStrong, StepSendStrong,
     StepFailsStrong, StepReadStrong, StepWriteStrong DEF Step
<1>4. CASE Result
  BY <1>4, ResultFailsStrong, ResultTakeStrong, ResultPutStrong DEF Result
<1>5. CASE Link
  BY <1>5, LinkReadStrong, LinkWriteStrong DEF Link
<1> QED
  BY <1>1, <1>2, <1>3, <1>4, <1>5 DEF Cycle

LEMMA StepCInv == CInv /\ [Next]_vars => CInv'
<1> SUFFICES ASSUME CInv, [Next]_vars PROVE CInv'
  OBVIOUS
<1>1. IInv'
  BY StepIInv DEF CInv
<1>2. OnlyCancel'
  BY DEF CInv, OnlyCancel
<1>3. CASE UNCHANGED vars
  <2>1. UNCHANGED <<run, req, owner, now, cyc, held, todo, api, mark, lock, restarts, rest, revived>>
    BY <1>3 DEF vars, memory
  <2>2. RequestsStay
    BY <2>1 DEF RequestsStay, Out
  <2> QED
    BY <1>1, <1>2, <2>1, <2>2, CancelFrames, CancelFacts DEF CInv
<1>4. CASE Next
  <2>1. Strong'
    BY <1>4, TickStrong, SettleStrong, MarkReadStrong, ResultStartStrong, MarkWriteStrong,
       ApiReadStrong, ApiWriteStrong, UserStartStrong, TurnStrong, CycleStrong,
       RestartStrong DEF Next
  <2> QED
    BY <1>1, <1>2, <2>1 DEF CInv, Strong
<1> QED
  BY <1>3, <1>4

LEMMA CancelInvariance == OnlyCancel /\ Spec => []CInv
BY InitCInv, StepCInv, PTL DEF Spec

\* While clients only cancel: a run that waits for a result waits for one that
\* can still come or whose expiry will be marked, whoever else writes its
\* record, and after a restart too; but for a wait that had ended when the link
\* of commitments wrote it back.
THEOREM WaitsAreAnswerable == OnlyCancel /\ Spec => []WaitIsAnswerable
<1>1. CInv => WaitIsAnswerable
  <2> SUFFICES ASSUME CInv, NEW r \in Runs, run[r].status = "waiting_result"
               PROVE  /\ run[r].waits # None
                      /\ \/ req[run[r].waits] \in {"open", "answered", "expired"}
                         \/ cyc.pc \in {"take", "put", "write"} /\ cyc.of = run[r].waits
                         \/ run[r].waits \in revived
    BY DEF WaitIsAnswerable
  <2>1. /\ Sound(run[r])
        /\ Answerable(r, run[r]) \/ Taking(r, run[r].waits) \/ run[r].waits \in revived
    BY CancelFacts DEF CInv, Requesting, Awaited
  <2> QED
    BY <2>1 DEF Sound, Answerable, Taking, Out
<1> QED
  BY <1>1, CancelInvariance, PTL

\* While clients only cancel: a run never has two requests out, although an
\* answer may come before the step has written that the run waits for it, and a
\* run may be cancelled while its request is sent.
THEOREM OneOpenRequest == OnlyCancel /\ Spec => []OneOpenRequestPerRun
<1>1. CInv => OneOpenRequestPerRun
  BY DEF CInv, Requesting, OneOut, OneOpenRequestPerRun, Out
<1> QED
  BY <1>1, CancelInvariance, PTL

\* While clients only cancel: a run that was told to rest takes no step before
\* its rest is over, whatever was written to its record in between.
THEOREM LimitIsKept == OnlyCancel /\ Spec => RestsAfterLimit
<1>1. ASSUME CInv, [Next]_vars, cyc.pc = "guard", cyc'.pc = "think"
      PROVE  rest[cyc.run] <= now
  <2>1. cyc' # cyc /\ cyc # NoCycle /\ cyc' # NoCycle
    BY <1>1 DEF NoCycle
  <2>2. Step
    BY <1>1, <2>1 DEF Next, vars, memory, Tick, Answer, Expire, MarkRead, ResultStart, MarkWrite,
       ApiRead, ApiWrite, UserStart, WakeStart, StepStart, Restart, Forget, Cycle, Conversation,
       Decision, Result, Link, UserBegin, UserEnd, UserBegun, UserEnding, UserEnded, DecideNoRun,
       StartRun, ResultFails, ResultTake, ResultPut, LinkRead, LinkWrite
  <2>3. StepGuard
    BY <1>1, <2>2 DEF Step, StepDecide, StepDispatch, StepSend, StepFails, StepRead, StepWrite
  <2>4. Due(run[cyc.run])
    <3>1. Leave => cyc'.pc \in {"idle", "ending", "link"}
      BY <1>1, Left DEF CInv
    <3> QED
      BY <1>1, <2>3, <3>1 DEF StepGuard, GuardedBy
  <2> QED
    BY <1>1, <2>4, CancelFacts, DueRuns DEF AtRun
<1>2. CInv /\ [Next]_vars
        => [cyc.pc = "guard" /\ cyc'.pc = "think" => rest[cyc.run] <= now]_vars
  BY <1>1
<1> QED
  BY <1>2, CancelInvariance, PTL DEF Spec, RestsAfterLimit

\* While clients only cancel: a conversation that ends, and is not cut short by
\* a restart, leaves no run paused for a conversation, its own or an earlier one.
THEOREM PausesReturned == OnlyCancel /\ Spec => PausesAreGivenBack
<1>1. ASSUME CInv, [Next]_vars, cyc.kind = "user", cyc'.kind = "none", restarts' = restarts
      PROVE  \A r \in Runs : ~ByUserPause(run'[r])
  <2>1. cyc' # cyc /\ cyc # NoCycle /\ cyc \in Cycles
    BY <1>1, CancelFacts DEF NoCycle
  <2>2. ~Restart
    BY <1>1, Constants DEF Restart, Forget, CInv, IInv, LocksOK
  <2>3. Cycle
    BY <1>1, <2>1, <2>2 DEF Next, vars, memory, Tick, Answer, Expire, MarkRead, ResultStart,
       MarkWrite, ApiRead, ApiWrite, UserStart, WakeStart, StepStart
  <2>4. ~Leave
    BY <1>1, Left DEF CInv
  <2>5. ~Decision
    BY <1>1, <2>1, <2>4 DEF Decision, DecideNoRun, StartRun, Cycles
  <2>6. ~Result
    BY <1>1, <2>1, <2>4 DEF Result, ResultFails, ResultTake, ResultPut, Cycles
  <2>7. ~Step
    BY <1>1, <2>1, <2>4 DEF Step, StepGuard, StepDecide, StepDispatch, GuardedBy, StepSend,
       StepFails, StepRead, StepWrite, Cycles
  <2>8. ~Link
    BY <1>1, <2>1, OverCycle DEF Link, LinkRead, LinkWrite, Cycles
  <2>9. UserEnded
    BY <1>1, <2>1, <2>3, <2>5, <2>6, <2>7, <2>8 DEF Cycle, Conversation, UserBegin, UserEnd, UserBegun,
       UserEnding, Cycles
  <2>10. cyc.pc = "end" /\ todo = {} /\ run' = run
    BY <2>9 DEF UserEnded
  <2>11. ASSUME NEW r \in Runs, ByUserPause(run[r])  PROVE FALSE
    <3>1. Pauses
      BY <1>1 DEF CInv
    <3>2. \E t \in todo : t[1] = r
      BY <2>10, <2>11, <3>1 DEF Pauses
    <3> QED
      BY <2>10, <3>2
  <2> QED
    BY <2>10, <2>11 DEF ByUserPause
<1>2. CInv /\ [Next]_vars
        => [cyc.kind = "user" /\ cyc'.kind = "none" /\ restarts' = restarts
              => \A r \in Runs : ~ByUserPause(run'[r])]_vars
  BY <1>1
<1> QED
  BY <1>2, CancelInvariance, PTL DEF Spec, PausesAreGivenBack

=============================================================================
