------------------------ MODULE MemoryUnits_proofs ------------------------
(***************************************************************************)
(* Proofs about MemoryUnits for any candidates, any number of threads,     *)
(* units and decisions, and any limit of the compare list.                 *)
(***************************************************************************)
EXTENDS MemoryUnits, WellFoundedInduction, TLAPS

-----------------------------------------------------------------------------
(* Sequences of decisions, and their last change of a unit.                *)

\* A set of places has a last one.
LEMMA LastPlace ==
    ASSUME NEW n \in Nat, NEW S \in SUBSET (1..n), S # {}
    PROVE  Newest(S) \in S /\ \A j \in S : j <= Newest(S)
<1> DEFINE R == {ss \in Nat \X Nat : ss[1] < ss[2]}
           T == {n - i : i \in S}
<1>1. IsWellFoundedOn(R, Nat)
  BY NatLessThanWellFounded DEF OpToRel
<1>2. R = {ss \in Nat \X Nat : ss[1] < ss[2]}
  OBVIOUS
<1>3. T \subseteq Nat /\ T # {}
  <2>1. \A i \in S : n - i \in Nat
    OBVIOUS
  <2>2. PICK i \in S : TRUE
    OBVIOUS
  <2>3. n - i \in T
    BY <2>2
  <2> QED
    BY <2>1, <2>3
<1> HIDE DEF R
<1>4. PICK x \in T : \A y \in T : <<y, x>> \notin R
  BY <1>1, <1>3, WFMin
<1>5. ASSUME NEW y \in T  PROVE x <= y
  <2>1. x \in Nat /\ y \in Nat /\ <<y, x>> \in Nat \X Nat
    BY <1>3
  <2>2. ~(y < x)
    BY <1>4, <1>2, <2>1
  <2> QED
    BY <2>1, <2>2
<1>6. PICK i \in S : x = n - i
  OBVIOUS
<1>7. \A j \in S : j <= i
  BY <1>5, <1>6
<1> QED
  BY <1>7 DEF Newest

LEMMA Lengths ==
    ASSUME NEW s, AreDecisions(s)
    PROVE  Len(s) \in Nat /\ DOMAIN s = 1..Len(s)
BY DEF AreDecisions

LEMMA OwnElements ==
    ASSUME NEW S, NEW s \in Seq(S)
    PROVE  s \in Seq({s[i] : i \in DOMAIN s})
<1>1. DOMAIN s = 1..Len(s) /\ Len(s) \in Nat
  OBVIOUS
<1> DEFINE n == Len(s)
<1>2. s \in [1..n -> S]
  OBVIOUS
<1>3. s = [i \in 1..n |-> s[i]]
  BY <1>2
<1> DEFINE U == {s[i] : i \in DOMAIN s}
<1>4. \A i \in 1..n : s[i] \in U
  BY <1>1
<1> HIDE DEF U
<1>5. [i \in 1..n |-> s[i]] \in Seq(U)
  BY <1>1, <1>4
<1> QED
  BY <1>3, <1>5 DEF U

LEMMA Joined ==
    ASSUME NEW s, NEW t, AreDecisions(s), AreDecisions(t)
    PROVE  /\ Len(s \o t) = Len(s) + Len(t)
           /\ \A k \in 1..Len(s) : (s \o t)[k] = s[k]
           /\ \A i \in 1..Len(t) : (s \o t)[Len(s) + i] = t[i]
           /\ AreDecisions(s \o t)
<1> DEFINE S == {s[i] : i \in DOMAIN s} \cup {t[i] : i \in DOMAIN t}
<1>1. s \in Seq({s[i] : i \in DOMAIN s}) /\ t \in Seq({t[i] : i \in DOMAIN t})
  BY DEF AreDecisions
<1>2. s \in Seq(S) /\ t \in Seq(S)
  BY <1>1
<1> HIDE DEF S
<1>3. s \o t \in Seq(S) /\ Len(s \o t) = Len(s) + Len(t)
  BY <1>2
<1>4. /\ \A k \in 1..Len(s) : (s \o t)[k] = s[k]
      /\ \A i \in 1..Len(t) : (s \o t)[Len(s) + i] = t[i]
  BY <1>2
<1>5. s \o t \in Seq({(s \o t)[i] : i \in DOMAIN (s \o t)})
  BY <1>3, OwnElements
<1>6. ASSUME NEW i \in DOMAIN (s \o t)
      PROVE  \/ i \in DOMAIN s /\ (s \o t)[i] = s[i]
             \/ i - Len(s) \in DOMAIN t /\ (s \o t)[i] = t[i - Len(s)]
  BY <1>2, <1>3, <1>4
<1>7. AreDecisions(s \o t)
  BY <1>5, <1>6 DEF AreDecisions
<1> QED
  BY <1>3, <1>4, <1>7

LEMMA Appended ==
    ASSUME NEW s, NEW d, AreDecisions(s), AreDecisions(<<d>>)
    PROVE  /\ Len(Append(s, d)) = Len(s) + 1
           /\ \A i \in DOMAIN Append(s, d) :
                 (i \in DOMAIN s /\ Append(s, d)[i] = s[i]) \/ Append(s, d)[i] = d
           /\ AreDecisions(Append(s, d))
<1>1. s \in Seq({s[i] : i \in DOMAIN s} \cup {d})
  BY DEF AreDecisions
<1>2. Append(s, d) = s \o <<d>>
  BY <1>1
<1>3. Len(<<d>>) = 1 /\ <<d>>[1] = d
  OBVIOUS
<1> QED
  BY <1>1, <1>2, <1>3, Joined


-----------------------------------------------------------------------------
(* What the log says of the units, for any log l.                          *)

LastIn(l, j, k, u) == Touches(l[j], u) /\ \A i \in (j + 1)..(k - 1) : ~Touches(l[i], u)

\* The units us are those after the first n decisions of l.
AsOf(l, us, n) ==
    /\ us \in [Ids -> Snapshots]
    /\ n \in 0..Len(l)
    /\ \A u \in Ids : us[u] # Absent <=> \E j \in 1..n : Touches(l[j], u)
    /\ \A u \in Ids : \A j \in 1..n :
          LastIn(l, j, n + 1, u) => us[u] = l[j].writes[u].after

\* A decision that waits to be applied, with m ids issued: it bears on units
\* that exist or are its own, and it brings to life none that was gone when they
\* were read.
Honest(l, m, d) ==
    /\ d.at \in 0..Len(l)
    /\ ~IsCorrection(d)
    /\ \A u \in DOMAIN d.writes :
          /\ u <= m
          /\ \A j \in 1..d.at :
                LastIn(l, j, d.at + 1, u) /\ l[j].writes[u].after.status \in Gone
                => d.writes[u].after.status \notin Revivable

IdsIssued(l, m) == \A j \in DOMAIN l : \A u \in DOMAIN l[j].writes : u <= m

DeadIn(l) ==
    \A k \in DOMAIN l : \A u \in DOMAIN l[k].writes : \A j \in 1..(k - 1) :
        /\ LastIn(l, j, k, u)
        /\ l[j].writes[u].after.status \in Gone
        /\ l[k].writes[u].after.status \in Revivable
        => IsCorrection(l[k]) \/ l[k].at < j

LEMMA DeadIsDead == DeadStayDead <=> DeadIn(log)
BY DEF DeadStayDead, DeadIn, IsLast, LastIn

LEMMA LastGrows ==
    ASSUME NEW s, NEW t, AreDecisions(s), AreDecisions(t),
           NEW k \in 1..(Len(s) + 1), NEW j \in 1..(k - 1), NEW u
    PROVE  LastIn(s \o t, j, k, u) <=> LastIn(s, j, k, u)
<1>1. Len(s) \in Nat /\ \A i \in 1..Len(s) : (s \o t)[i] = s[i]
  BY Lengths, Joined
<1>2. j \in 1..Len(s) /\ \A i \in (j + 1)..(k - 1) : i \in 1..Len(s)
  BY <1>1
<1> QED
  BY <1>1, <1>2 DEF LastIn

LEMMA AsOfGrows ==
    ASSUME NEW s, NEW t, AreDecisions(s), AreDecisions(t), NEW us, NEW n, AsOf(s, us, n)
    PROVE  AsOf(s \o t, us, n)
<1>1. Len(s) \in Nat /\ Len(t) \in Nat /\ n \in 0..Len(s)
  BY Lengths DEF AsOf
<1>2. Len(s \o t) = Len(s) + Len(t) /\ \A i \in 1..Len(s) : (s \o t)[i] = s[i]
  BY Joined
<1>3. n \in 0..Len(s \o t) /\ \A j \in 1..n : (s \o t)[j] = s[j]
  BY <1>1, <1>2
<1>4. ASSUME NEW u \in Ids, NEW j \in 1..n, LastIn(s \o t, j, n + 1, u)
      PROVE  us[u] = (s \o t)[j].writes[u].after
  <2>1. LastIn(s, j, n + 1, u)
    BY <1>1, <1>4, LastGrows
  <2> QED
    BY <2>1, <1>3 DEF AsOf
<1> QED
  BY <1>3, <1>4 DEF AsOf

LEMMA HonestGrows ==
    ASSUME NEW s, NEW t, AreDecisions(s), AreDecisions(t), NEW m \in Nat, NEW m2 \in Nat, m <= m2,
           NEW d, DOMAIN d.writes \subseteq Nat, Honest(s, m, d)
    PROVE  Honest(s \o t, m2, d)
<1>1. Len(s) \in Nat /\ Len(t) \in Nat /\ d.at \in 0..Len(s)
  BY Lengths DEF Honest
<1>2. Len(s \o t) = Len(s) + Len(t) /\ \A i \in 1..Len(s) : (s \o t)[i] = s[i]
  BY Joined
<1>3. d.at \in 0..Len(s \o t) /\ \A j \in 1..d.at : (s \o t)[j] = s[j]
  BY <1>1, <1>2
<1>4. ASSUME NEW u \in DOMAIN d.writes, NEW j \in 1..d.at,
             LastIn(s \o t, j, d.at + 1, u), (s \o t)[j].writes[u].after.status \in Gone
      PROVE  d.writes[u].after.status \notin Revivable
  <2>1. LastIn(s, j, d.at + 1, u)
    BY <1>1, <1>4, LastGrows
  <2> QED
    BY <2>1, <1>3, <1>4 DEF Honest
<1>5. \A u \in DOMAIN d.writes : u <= m2
  BY DEF Honest
<1> QED
  BY <1>3, <1>4, <1>5 DEF Honest

LEMMA IssuedGrows ==
    ASSUME NEW s, NEW t, AreDecisions(s), AreDecisions(t), NEW m \in Nat,
           IdsIssued(s, m), IdsIssued(t, m)
    PROVE  IdsIssued(s \o t, m)
<1>1. /\ Len(s) \in Nat /\ Len(t) \in Nat /\ DOMAIN s = 1..Len(s) /\ DOMAIN t = 1..Len(t)
      /\ DOMAIN (s \o t) = 1..(Len(s) + Len(t))
  BY Lengths, Joined
<1>2. ASSUME NEW j \in DOMAIN (s \o t)
      PROVE  \/ j \in DOMAIN s /\ (s \o t)[j] = s[j]
             \/ j - Len(s) \in DOMAIN t /\ (s \o t)[j] = t[j - Len(s)]
  <2>1. CASE j <= Len(s)
    BY <1>1, <2>1, Joined
  <2>2. CASE j > Len(s)
    <3>1. j - Len(s) \in 1..Len(t) /\ j = Len(s) + (j - Len(s))
      BY <1>1, <2>2
    <3> QED
      BY <1>1, <3>1, Joined
  <2> QED
    BY <1>1, <2>1, <2>2
<1> QED
  BY <1>2 DEF IdsIssued

\* What Apply does to the units.
LEMMA AppliedUnits ==
    ASSUME NEW us, NEW t, AreDecisions(t), us \in [Ids -> Snapshots]
    PROVE  /\ Applied(us, t) \in [Ids -> Snapshots]
           /\ \A u \in Ids : (\A i \in DOMAIN t : ~Touches(t[i], u)) => Applied(us, t)[u] = us[u]
           /\ \A u \in Ids : \A i \in DOMAIN t :
                 LastIn(t, i, Len(t) + 1, u) => Applied(us, t)[u] = t[i].writes[u].after
           /\ \A u \in Ids : (\E i \in DOMAIN t : Touches(t[i], u)) =>
                 /\ Applied(us, t)[u] \in UnitRecords
                 /\ \E i \in DOMAIN t : LastIn(t, i, Len(t) + 1, u)
<1>1. Len(t) \in Nat /\ DOMAIN t = 1..Len(t)
  BY Lengths
<1>2. ASSUME NEW u \in Ids, NEW i \in DOMAIN t, Touches(t[i], u)
      PROVE  t[i].writes[u].after \in UnitRecords
  BY <1>2 DEF AreDecisions, Touches, Writes
<1>3. ASSUME NEW u \in Ids, \E i \in DOMAIN t : Touches(t[i], u)
      PROVE  /\ Newest(TouchedIn(t, u)) \in DOMAIN t
             /\ LastIn(t, Newest(TouchedIn(t, u)), Len(t) + 1, u)
             /\ Applied(us, t)[u] = t[Newest(TouchedIn(t, u))].writes[u].after
  <2>1. TouchedIn(t, u) \in SUBSET (1..Len(t)) /\ TouchedIn(t, u) # {}
    BY <1>1, <1>3 DEF TouchedIn
  <2>2. PICK k \in 1..Len(t) : /\ k = Newest(TouchedIn(t, u)) /\ k \in TouchedIn(t, u)
                               /\ \A j \in TouchedIn(t, u) : j <= k
    BY <1>1, <2>1, LastPlace
  <2>3. ASSUME NEW i \in (k + 1)..(Len(t) + 1 - 1)  PROVE ~Touches(t[i], u)
    <3>1. i \in 1..Len(t) /\ ~(i <= k)
      BY <1>1, <2>3
    <3> QED
      BY <1>1, <2>2, <3>1 DEF TouchedIn
  <2>4. LastIn(t, k, Len(t) + 1, u)
    BY <2>2, <2>3 DEF LastIn, TouchedIn
  <2>5. Applied(us, t)[u] = t[k].writes[u].after
    BY <2>1, <2>2 DEF Applied
  <2> QED
    BY <1>1, <2>2, <2>4, <2>5
<1>4. ASSUME NEW u \in Ids, \A i \in DOMAIN t : ~Touches(t[i], u)
      PROVE  Applied(us, t)[u] = us[u]
  BY <1>4 DEF Applied, TouchedIn
<1>5. ASSUME NEW u \in Ids, NEW i \in DOMAIN t, LastIn(t, i, Len(t) + 1, u)
      PROVE  i = Newest(TouchedIn(t, u)) /\ \E h \in DOMAIN t : Touches(t[h], u)
  <2> DEFINE k == Newest(TouchedIn(t, u))
  <2>1. \E h \in DOMAIN t : Touches(t[h], u)
    BY <1>5 DEF LastIn
  <2>2. k \in DOMAIN t /\ LastIn(t, k, Len(t) + 1, u)
    BY <1>3, <2>1
  <2> HIDE DEF k
  <2>3. ~(i < k)
    BY <1>1, <1>5, <2>2 DEF LastIn
  <2>4. ~(k < i)
    BY <1>1, <1>5, <2>2 DEF LastIn
  <2> QED
    BY <1>1, <2>1, <2>2, <2>3, <2>4 DEF k
<1>6. ASSUME NEW u \in Ids  PROVE Applied(us, t)[u] \in Snapshots
  <2>1. CASE \E i \in DOMAIN t : Touches(t[i], u)
    <3>1. Applied(us, t)[u] \in UnitRecords
      BY <1>2, <1>3, <2>1 DEF LastIn
    <3> QED
      BY <3>1 DEF Snapshots
  <2>2. CASE \A i \in DOMAIN t : ~Touches(t[i], u)
    BY <1>4, <2>2
  <2> QED
    BY <2>1, <2>2
<1>7. Applied(us, t) \in [Ids -> Snapshots]
  BY <1>6 DEF Applied
<1>8. \A u \in Ids : (\E i \in DOMAIN t : Touches(t[i], u)) =>
                 /\ Applied(us, t)[u] \in UnitRecords
                 /\ \E i \in DOMAIN t : LastIn(t, i, Len(t) + 1, u)
  BY <1>2, <1>3 DEF LastIn
<1> QED
  BY <1>3, <1>4, <1>5, <1>7, <1>8

\* Where a place of a joined log comes from.
LEMMA Places ==
    ASSUME NEW s, NEW t, AreDecisions(s), AreDecisions(t), NEW k \in DOMAIN (s \o t)
    PROVE  \/ k \in 1..Len(s) /\ (s \o t)[k] = s[k]
           \/ \E i \in 1..Len(t) : k = Len(s) + i /\ (s \o t)[k] = t[i]
<1>1. /\ Len(s) \in Nat /\ Len(t) \in Nat
      /\ DOMAIN (s \o t) = 1..(Len(s) + Len(t))
  BY Lengths, Joined
<1>2. CASE k <= Len(s)
  BY <1>1, <1>2, Joined
<1>3. CASE k > Len(s)
  <2>1. k - Len(s) \in 1..Len(t) /\ k = Len(s) + (k - Len(s))
    BY <1>1, <1>3
  <2> QED
    BY <1>1, <2>1, Joined
<1> QED
  BY <1>1, <1>2, <1>3

LEMMA AppliedAsOf ==
    ASSUME NEW s, NEW t, AreDecisions(s), AreDecisions(t), NEW us, AsOf(s, us, Len(s))
    PROVE  AsOf(s \o t, Applied(us, t), Len(s \o t))
<1> DEFINE l == s \o t
           n == Len(s) + Len(t)
           vs == Applied(us, t)
<1>1. /\ Len(s) \in Nat /\ Len(t) \in Nat /\ DOMAIN t = 1..Len(t) /\ Len(l) = n
      /\ DOMAIN l = 1..n /\ us \in [Ids -> Snapshots]
  BY Lengths, Joined DEF AsOf
<1>2. /\ \A k \in 1..Len(s) : l[k] = s[k]
      /\ \A i \in 1..Len(t) : l[Len(s) + i] = t[i] /\ Len(s) + i \in 1..n
  BY <1>1, Joined
<1>3. \A j \in 1..n : \/ j \in 1..Len(s) /\ l[j] = s[j]
                      \/ \E i \in 1..Len(t) : j = Len(s) + i /\ l[j] = t[i]
  BY <1>1, Places
<1>4. /\ vs \in [Ids -> Snapshots]
      /\ \A u \in Ids : (\A i \in 1..Len(t) : ~Touches(t[i], u)) => vs[u] = us[u]
      /\ \A u \in Ids : \A i \in 1..Len(t) :
            LastIn(t, i, Len(t) + 1, u) => vs[u] = t[i].writes[u].after
      /\ \A u \in Ids : (\E i \in 1..Len(t) : Touches(t[i], u)) => vs[u] \in UnitRecords
  BY <1>1, AppliedUnits
<1> HIDE DEF l, n, vs
<1>5. n \in Nat /\ n = Len(s) + Len(t)
  BY <1>1 DEF n
<1>6. \A r \in UnitRecords : r # Absent
  BY DEF UnitRecords, Absent, Revivable, Active, Gone
<1>7. ASSUME NEW u \in Ids
      PROVE  vs[u] # Absent <=> \E j \in 1..n : Touches(l[j], u)
  <2>1. CASE \E i \in 1..Len(t) : Touches(t[i], u)
    BY <1>2, <1>4, <1>6, <2>1
  <2>2. CASE \A i \in 1..Len(t) : ~Touches(t[i], u)
    <3>1. vs[u] = us[u]
      BY <1>4, <2>2
    <3>2. us[u] # Absent <=> \E j \in 1..Len(s) : Touches(s[j], u)
      BY DEF AsOf
    <3>3. (\E j \in 1..n : Touches(l[j], u)) <=> \E j \in 1..Len(s) : Touches(s[j], u)
      <4>1. \A j \in 1..Len(s) : j \in 1..n
        BY <1>1, <1>5
      <4> QED
        BY <1>2, <1>3, <2>2, <4>1
    <3> QED
      BY <3>1, <3>2, <3>3
  <2> QED
    BY <2>1, <2>2
<1>8. ASSUME NEW u \in Ids, NEW j \in 1..n, LastIn(l, j, n + 1, u)
      PROVE  vs[u] = l[j].writes[u].after
  <2>1. Touches(l[j], u) /\ \A i \in (j + 1)..n : ~Touches(l[i], u)
    BY <1>5, <1>8 DEF LastIn
  <2>2. CASE j \in 1..Len(s) /\ l[j] = s[j]
    <3>1. ASSUME NEW i \in 1..Len(t)  PROVE ~Touches(t[i], u)
      <4>1. Len(s) + i \in (j + 1)..n
        BY <1>1, <1>5, <2>2
      <4> QED
        BY <1>2, <2>1, <4>1
    <3>2. ASSUME NEW i \in (j + 1)..Len(s)  PROVE ~Touches(s[i], u)
      <4>1. i \in (j + 1)..n /\ i \in 1..Len(s)
        BY <1>1, <1>5
      <4> QED
        BY <1>2, <2>1, <4>1
    <3>3. LastIn(s, j, Len(s) + 1, u)
      BY <1>1, <2>1, <2>2, <3>2 DEF LastIn
    <3>4. us[u] = s[j].writes[u].after
      BY <2>2, <3>3 DEF AsOf
    <3> QED
      BY <1>4, <2>2, <3>1, <3>4
  <2>3. CASE \E i \in 1..Len(t) : j = Len(s) + i /\ l[j] = t[i]
    <3>1. PICK i \in 1..Len(t) : j = Len(s) + i /\ l[j] = t[i]
      BY <2>3
    <3>2. ASSUME NEW h \in (i + 1)..Len(t)  PROVE ~Touches(t[h], u)
      <4>1. Len(s) + h \in (j + 1)..n /\ h \in 1..Len(t)
        BY <1>1, <1>5, <3>1
      <4> QED
        BY <1>2, <2>1, <4>1
    <3>3. LastIn(t, i, Len(t) + 1, u)
      BY <1>1, <2>1, <3>1, <3>2 DEF LastIn
    <3> QED
      BY <1>4, <3>1, <3>3
  <2> QED
    BY <1>3, <2>2, <2>3
<1>9. AsOf(l, vs, n)
  BY <1>1, <1>4, <1>5, <1>7, <1>8 DEF AsOf
<1> QED
  BY <1>1, <1>9 DEF l, n, vs

\* The log tells the units: two states after as many decisions are the same.
LEMMA AsOfUnique ==
    ASSUME NEW s, AreDecisions(s), NEW us, NEW vs, NEW n, AsOf(s, us, n), AsOf(s, vs, n)
    PROVE  us = vs
<1>1. us \in [Ids -> Snapshots] /\ vs \in [Ids -> Snapshots] /\ n \in Nat
  BY Lengths DEF AsOf
<1>2. ASSUME NEW u \in Ids  PROVE us[u] = vs[u]
  <2>1. CASE \E j \in 1..n : Touches(s[j], u)
    <3> DEFINE S == {j \in 1..n : Touches(s[j], u)}
    <3>1. S \in SUBSET (1..n) /\ S # {}
      BY <2>1
    <3>2. PICK k \in S : \A j \in S : j <= k
      BY <1>1, <3>1, LastPlace
    <3>3. ASSUME NEW i \in (k + 1)..(n + 1 - 1)  PROVE ~Touches(s[i], u)
      <4>1. i \in 1..n /\ ~(i <= k)
        BY <1>1, <3>3
      <4> QED
        BY <3>2, <4>1
    <3>4. k \in 1..n /\ Touches(s[k], u)
      OBVIOUS
    <3>5. LastIn(s, k, n + 1, u)
      BY <1>1, <3>3, <3>4 DEF LastIn
    <3> QED
      BY <3>4, <3>5 DEF AsOf
  <2>2. CASE ~\E j \in 1..n : Touches(s[j], u)
    BY <2>2 DEF AsOf
  <2> QED
    BY <2>1, <2>2
<1> QED
  BY <1>1, <1>2

\* Honest decisions and corrections bring nothing back from what is gone.
LEMMA DeadGrows ==
    ASSUME NEW s, NEW t, AreDecisions(s), AreDecisions(t), NEW m, DeadIn(s),
           \A i \in DOMAIN t : IsCorrection(t[i]) \/ Honest(s, m, t[i])
    PROVE  DeadIn(s \o t)
<1> DEFINE l == s \o t
<1>1. Len(s) \in Nat /\ DOMAIN s = 1..Len(s) /\ DOMAIN t = 1..Len(t) /\ AreDecisions(l)
      /\ Len(t) \in Nat /\ DOMAIN l = 1..Len(l) /\ Len(l) = Len(s) + Len(t)
  BY Lengths, Joined
<1>2. SUFFICES ASSUME NEW k \in DOMAIN l, NEW u \in DOMAIN l[k].writes, NEW j \in 1..(k - 1),
                      LastIn(l, j, k, u), l[j].writes[u].after.status \in Gone,
                      l[k].writes[u].after.status \in Revivable,
                      ~IsCorrection(l[k]), ~(l[k].at < j)
               PROVE  FALSE
  BY DEF DeadIn
<1>3. k \in 1..Len(l)
  BY <1>1
<1>4. (k \in 1..Len(s) /\ l[k] = s[k]) \/ \E i \in 1..Len(t) : k = Len(s) + i /\ l[k] = t[i]
  BY Places
<1> HIDE DEF l
<1>5. CASE k \in 1..Len(s) /\ l[k] = s[k]
  <2>1. LastIn(s, j, k, u) /\ l[j] = s[j]
    <3>1. k \in 1..(Len(s) + 1) /\ j \in 1..Len(s)
      BY <1>1, <1>5
    <3> QED
      BY <1>2, <3>1, LastGrows, Joined DEF l
  <2> QED
    BY <1>1, <1>2, <1>5, <2>1 DEF DeadIn
<1>6. CASE \E i \in 1..Len(t) : k = Len(s) + i /\ l[k] = t[i]
  <2>1. PICK i \in 1..Len(t) : k = Len(s) + i /\ l[k] = t[i]
    BY <1>6
  <2>2. Honest(s, m, t[i]) /\ t[i].at \in 0..Len(s)
    BY <1>1, <1>2, <2>1 DEF Honest
  <2>3. j \in 1..t[i].at /\ t[i].at + 1 <= k /\ t[i].at + 1 \in 1..(Len(s) + 1)
    BY <1>1, <1>2, <2>1, <2>2
  <2>4. LastIn(l, j, t[i].at + 1, u)
    BY <1>1, <1>2, <1>3, <2>2, <2>3 DEF LastIn
  <2>5. LastIn(s, j, t[i].at + 1, u) /\ l[j] = s[j]
    <3>1. PICK h \in 1..(Len(s) + 1) : h = t[i].at + 1
      BY <2>3
    <3>2. j \in 1..Len(s) /\ j \in 1..(h - 1)
      BY <1>1, <2>2, <2>3, <3>1
    <3>3. LastIn(s, j, h, u)
      BY <2>4, <3>1, <3>2, LastGrows DEF l
    <3> QED
      BY <3>1, <3>2, <3>3, Joined DEF l
  <2> QED
    BY <1>2, <2>1, <2>2, <2>3, <2>5 DEF Honest
<1> QED
  BY <1>5, <1>6, <1>4

-----------------------------------------------------------------------------
(* What a candidate may come to.                                           *)

LEMMA NewType ==
    ASSUME NEW c \in CandidateRecords, c.status \in Active
    PROVE  New(c) \in UnitRecords /\ New(c).object = c.object
BY DEF CandidateRecords, UnitRecords, New, Revivable

LEMMA UnitTypes ==
    ASSUME NEW e \in UnitRecords, NEW c \in CandidateRecords
    PROVE  /\ Superseded(e) \in UnitRecords /\ Superseded(e).status = "superseded"
           /\ Revoked(e) \in UnitRecords /\ Revoked(e).status = "revoked"
           /\ Dormant(e) \in UnitRecords /\ Dormant(e).object = e.object
           /\ c.status \in Active =>
                 /\ New(c) \in UnitRecords /\ New(c).object = c.object
                 /\ Reinforced(e, c) \in UnitRecords /\ Reinforced(e, c).object = e.object
                 /\ Refined(e, c) \in UnitRecords /\ Refined(e, c).object = c.object
<1>1. /\ e.status \in Revivable \cup Gone /\ e.object \in Objects \cup {NoObject}
      /\ e.sense \in Senses /\ e.commit \in Commitments
      /\ c.status \in Revivable \cup {"revoked"} /\ c.object \in Objects \cup {NoObject}
      /\ c.sense \in Senses /\ c.commit \in Commitments
  BY DEF UnitRecords, CandidateRecords
<1>2. /\ Superseded(e) \in UnitRecords /\ Superseded(e).status = "superseded"
      /\ Revoked(e) \in UnitRecords /\ Revoked(e).status = "revoked"
      /\ Dormant(e) \in UnitRecords /\ Dormant(e).object = e.object
  BY <1>1 DEF UnitRecords, Superseded, Revoked, Dormant, Revivable, Gone
<1>3. ASSUME c.status \in Active  PROVE New(c) \in UnitRecords /\ New(c).object = c.object
  BY <1>3, NewType
<1>4. Merged(e.sense, c) \in Senses /\ Committed(e, c) \in Commitments
  BY <1>1 DEF Merged, Committed
<1>5. ASSUME c.status \in Active
      PROVE  Reinforced(e, c) \in UnitRecords /\ Reinforced(e, c).object = e.object
  <2> DEFINE s == IF e.status = "dormant" THEN (IF Confirms(c) THEN "confirmed" ELSE c.status)
                  ELSE IF Confirms(c) THEN "confirmed" ELSE e.status
  <2>1. s \in Revivable \cup Gone
    BY <1>1, <1>5 DEF Revivable, Active
  <2>2. Reinforced(e, c) = [e EXCEPT !.status = s, !.commit = Committed(e, c),
                                     !.sense = Merged(e.sense, c)]
    BY DEF Reinforced, UnitRecords
  <2> HIDE DEF s
  <2> QED
    BY <1>1, <1>4, <2>1, <2>2 DEF UnitRecords
<1>6. ASSUME c.status \in Active
      PROVE  Refined(e, c) \in UnitRecords /\ Refined(e, c).object = c.object
  <2> DEFINE s == IF Confirms(c) THEN "confirmed"
                  ELSE IF e.status = "dormant" THEN "inferred" ELSE e.status
  <2>1. s \in Revivable \cup Gone
    BY <1>1, <1>6 DEF Revivable, Active
  <2>2. Refined(e, c) = [e EXCEPT !.object = c.object, !.status = s,
                                  !.commit = Committed(e, c), !.sense = Merged(e.sense, c)]
    BY DEF Refined, UnitRecords
  <2> HIDE DEF s
  <2> QED
    BY <1>1, <1>4, <2>1, <2>2 DEF UnitRecords
<1> QED
  BY <1>2, <1>3, <1>5, <1>6

\* A writes of what is there, or of a new unit n.
Renews(w, M, n, c) ==
    \A u \in DOMAIN w :
        \/ u \in M /\ w[u].op # "create" /\ w[u] \in Writes
        \/ u = n /\ c.status \in Active /\ w[u] = Write("create", Absent, New(c))

LEMMA PrimaryIsListed ==
    ASSUME NEW M, NEW c
    PROVE  Primaries(M, c) \subseteq M /\ SameObject(M, c) \subseteq M
BY DEF Primaries, First, SameObject

LEMMA WritesRenew ==
    ASSUME NEW M \in SUBSET Listed, NEW n, NEW c \in CandidateRecords, units \in [Ids -> Snapshots],
           NEW w \in Resolutions(M, n, c)
    PROVE  Renews(w, M, n, c)
<1>1. \A u \in M : units[u] \in UnitRecords
  BY DEF Listed, Stored, Snapshots
<1>2. \A S \in RevocationTargets(M, c) : S \subseteq M
  BY PrimaryIsListed DEF RevocationTargets
<1>3. ASSUME NEW S \in SUBSET M, w = Revoke(S)  PROVE Renews(w, M, n, c)
  BY <1>1, <1>3, UnitTypes DEF Renews, Revoke, Write, Writes
<1>4. ASSUME NEW p \in M, w = MakeDormant(p)  PROVE Renews(w, M, n, c)
  BY <1>1, <1>4, UnitTypes DEF Renews, MakeDormant, Write, Writes
<1>5. ASSUME NEW p \in M, c.status \in Active, w = Reinforce(p, c)  PROVE Renews(w, M, n, c)
  BY <1>1, <1>5, UnitTypes DEF Renews, Reinforce, Write, Writes
<1>6. ASSUME NEW p \in M, c.status \in Active, w = Refine(p, c)  PROVE Renews(w, M, n, c)
  BY <1>1, <1>6, UnitTypes DEF Renews, Refine, Write, Writes
<1>7. ASSUME c.status \in Active, w = Create(n, c)  PROVE Renews(w, M, n, c)
  BY <1>7 DEF Renews, Create
<1>8. ASSUME NEW S \in SUBSET M, c.status \in Active, w = Replace(S, n, c)
      PROVE  Renews(w, M, n, c)
  BY <1>1, <1>8, UnitTypes DEF Renews, Replace, Write, Writes
<1>9. ASSUME NEW p \in M, c.status \in Active, w = Supersede(p, n, c)  PROVE Renews(w, M, n, c)
  BY <1>1, <1>9, UnitTypes DEF Renews, Supersede, Write, Writes
<1>10. CASE c.status = "revoked"
  BY <1>2, <1>3, <1>10 DEF Resolutions, Active
<1>11. CASE c.status = "dormant"
  BY <1>4, <1>11, PrimaryIsListed DEF Resolutions, Active
<1>12. CASE c.status \in Active
  <2>1. \/ \E p \in M : w = Reinforce(p, c)
        \/ w = Create(n, c)
        \/ \E p \in M : w \in AgainstPrimary(p, M, n, c)
    BY <1>12, PrimaryIsListed DEF Resolutions, Active, First
  <2>2. ASSUME NEW p \in M, w \in AgainstPrimary(p, M, n, c)
        PROVE  \/ w = Refine(p, c) \/ w = Create(n, c) \/ w = Supersede(p, n, c)
               \/ \E S \in SUBSET M : w = Replace(S, n, c)
    BY <1>2, <2>2 DEF AgainstPrimary
  <2> QED
    BY <1>5, <1>6, <1>7, <1>8, <1>9, <1>12, <2>1, <2>2
<1> QED
  BY <1>10, <1>11, <1>12 DEF CandidateRecords, Revivable

-----------------------------------------------------------------------------
(* Decisions made with all the units in sight keep memories distinct.      *)

Alive(us) == {u \in Ids : us[u].status \in Revivable}

\* Two living units with the object.
Clash(us, object) ==
    \E u, v \in Alive(us) : u # v /\ us[u].object = object /\ us[v].object = object
One(us) == \A u, v \in Alive(us) : u = v

After(us, w) == [u \in Ids |-> IF u \in DOMAIN w THEN w[u].after ELSE us[u]]

\* The writes w bring no clash that us had not, and leave one unit for one.
Keeps(k, us, w) ==
    /\ \A u, v \in Alive(After(us, w)) :
          u # v /\ After(us, w)[u].object = After(us, w)[v].object
          => Clash(us, After(us, w)[u].object)
    /\ k \in {"fact", "summary"} /\ One(us) => One(After(us, w))

\* Writes that change no object and revive nothing keep memories distinct.
LEMMA ChangesKeep ==
    ASSUME NEW us \in [Ids -> Snapshots], NEW w, DOMAIN w \subseteq Ids,
           \A u \in DOMAIN w :
              w[u].after.status \in Revivable =>
                 us[u].status \in Revivable /\ w[u].after.object = us[u].object
    PROVE  Keeps(kind, us, w)
<1>1. \A u \in Alive(After(us, w)) : u \in Alive(us) /\ After(us, w)[u].object = us[u].object
  BY DEF Alive, After
<1> QED
  BY <1>1 DEF Keeps, Clash, One

\* A new unit whose object no unit that stays has.
LEMMA NewKeeps ==
    ASSUME NEW us \in [Ids -> Snapshots], NEW w, NEW n \in Ids,
           DOMAIN w \subseteq Ids, us[n] = Absent,
           \A u \in DOMAIN w \ {n} : w[u].after.status \notin Revivable,
           \A v \in Alive(us) \ DOMAIN w :
              us[v].object = w[n].after.object => Clash(us, w[n].after.object),
           kind \in {"fact", "summary"} /\ One(us) => Alive(us) \subseteq DOMAIN w
    PROVE  Keeps(kind, us, w)
<1>1. \A u \in Alive(After(us, w)) :
         \/ u = n
         \/ u \in Alive(us) \ DOMAIN w /\ After(us, w)[u].object = us[u].object
  BY DEF Alive, After
<1>2. n \notin Alive(us)
  BY DEF Alive, Absent, Revivable, Active
<1>3. n \in DOMAIN w => After(us, w)[n].object = w[n].after.object
  BY DEF After
<1>4. n \notin DOMAIN w => n \notin Alive(After(us, w))
  BY <1>2 DEF Alive, After
<1>5. ASSUME NEW u \in Alive(After(us, w)), NEW v \in Alive(After(us, w)), u # v,
             After(us, w)[u].object = After(us, w)[v].object
      PROVE  Clash(us, After(us, w)[u].object)
  <2>1. CASE u = n
    BY <1>1, <1>3, <1>4, <1>5, <2>1
  <2>2. CASE v = n
    BY <1>1, <1>3, <1>4, <1>5, <2>2
  <2>3. CASE u # n /\ v # n
    BY <1>1, <1>5, <2>3 DEF Clash
  <2> QED
    BY <2>1, <2>2, <2>3
<1>6. kind \in {"fact", "summary"} /\ One(us) => One(After(us, w))
  BY <1>1 DEF One
<1> QED
  BY <1>5, <1>6 DEF Keeps

LEMMA FirstOfSome ==
    ASSUME NEW S, S # {}
    PROVE  First(S) # {}
<1>1. \A u \in S : Rank(units[u].status) \in {1, 2, 3}
  BY DEF Rank
<1>2. CASE \E u \in S : Rank(units[u].status) = 3
  BY <1>1, <1>2 DEF First
<1>3. CASE (\E u \in S : Rank(units[u].status) = 2) /\ ~\E u \in S : Rank(units[u].status) = 3
  BY <1>1, <1>3 DEF First
<1>4. CASE \A u \in S : Rank(units[u].status) = 1
  BY <1>1, <1>4 DEF First
<1> QED
  BY <1>1, <1>2, <1>3, <1>4

\* With all the units in sight, and no wish for a parallel one.
LEMMA WritesKeep ==
    ASSUME NEW c \in CandidateRecords, ~c.parallel, units \in [Ids -> Snapshots],
           NEW n, n \in Ids => units[n] = Absent,
           NEW w \in Resolutions(Listed, n, c), DOMAIN w \subseteq Ids
    PROVE  Keeps(kind, units, w)
<1> DEFINE M == Listed
<1>1. Alive(units) = M /\ M \subseteq Ids /\ \A u \in M : units[u] \in UnitRecords
  BY DEF Alive, Listed, Stored, Snapshots, UnitRecords, Revivable, Gone, Active, Absent
<1>2. n \notin M
  BY DEF Listed, Stored
<1> HIDE DEF M
<1>3. \A S \in RevocationTargets(M, c) : S \subseteq M
  BY PrimaryIsListed DEF RevocationTargets
<1>4. ASSUME NEW S \in SUBSET M, w = Revoke(S)  PROVE Keeps(kind, units, w)
  <2>1. \A u \in DOMAIN w : w[u].after.status \notin Revivable
    BY <1>1, <1>4, UnitTypes DEF Revoke, Write, Revivable, Active
  <2> QED
    BY <2>1, ChangesKeep
<1>5. ASSUME NEW p \in M, w = MakeDormant(p)  PROVE Keeps(kind, units, w)
  <2>1. \A u \in DOMAIN w : u \in M /\ w[u].after.object = units[u].object
    BY <1>1, <1>5, UnitTypes DEF MakeDormant, Write
  <2> QED
    BY <1>1, <2>1, ChangesKeep DEF Alive
<1>6. ASSUME NEW p \in M, c.status \in Active,
             w = Reinforce(p, c) \/ (w = Refine(p, c) /\ units[p].object = c.object)
      PROVE  Keeps(kind, units, w)
  <2>1. \A u \in DOMAIN w : u \in M /\ w[u].after.object = units[u].object
    BY <1>1, <1>6, UnitTypes DEF Reinforce, Refine, Write
  <2> QED
    BY <1>1, <2>1, ChangesKeep DEF Alive
<1>7. ASSUME c.status \in Active, w = Create(n, c), SameObject(M, c) = {},
             M = {} \/ kind \notin {"fact", "summary"}
      PROVE  Keeps(kind, units, w)
  <2>1. DOMAIN w = {n} /\ w[n].after.object = c.object
    BY <1>7 DEF Create, Write, New
  <2>2. \A v \in M : units[v].object # c.object
    BY <1>7 DEF SameObject
  <2> QED
    BY <1>1, <1>7, <2>1, <2>2, NewKeeps
<1>8. ASSUME c.status \in Active, NEW p \in SameObject(M, c), w = Replace(SameObject(M, c), n, c)
      PROVE  Keeps(kind, units, w)
  <2>1. /\ DOMAIN w = SameObject(M, c) \cup {n} /\ w[n].after.object = c.object
        /\ \A u \in DOMAIN w \ {n} : w[u].after.status \notin Revivable
    BY <1>1, <1>8, UnitTypes, PrimaryIsListed DEF Replace, Write, New, Revivable, Active
  <2>2. \A v \in M \ DOMAIN w : units[v].object # c.object
    BY <2>1 DEF SameObject
  <2>3. One(units) => M \subseteq DOMAIN w
    BY <1>1, <2>1, PrimaryIsListed DEF One
  <2> QED
    BY <1>1, <2>1, <2>2, <2>3, NewKeeps
<1>9. ASSUME c.status \in Active, NEW p \in M, w = Supersede(p, n, c),
             units[p].object = c.object \/ SameObject(M, c) = {}
      PROVE  Keeps(kind, units, w)
  <2>1. /\ DOMAIN w = {p, n} /\ w[n].after.object = c.object
        /\ \A u \in DOMAIN w \ {n} : w[u].after.status \notin Revivable
    BY <1>1, <1>2, <1>9, UnitTypes DEF Supersede, Write, New, Revivable, Active
  <2>2. ASSUME NEW v \in M \ DOMAIN w, units[v].object = c.object
        PROVE  Clash(units, c.object)
    BY <1>1, <1>9, <2>1, <2>2 DEF Clash, SameObject
  <2>3. One(units) => M \subseteq DOMAIN w
    BY <1>1, <2>1 DEF One
  <2> QED
    BY <1>1, <2>1, <2>2, <2>3, NewKeeps
<1>10. CASE c.status = "revoked"
  BY <1>3, <1>4, <1>10 DEF Resolutions, Active, M
<1>11. CASE c.status = "dormant"
  BY <1>5, <1>11, PrimaryIsListed DEF Resolutions, Active, M
<1>12. CASE c.status \in Active
  <2>1. M = {} => SameObject(M, c) = {}
    BY DEF SameObject
  <2>2. Primaries(M, c) = {} => M = {}
    BY FirstOfSome DEF Primaries
  <2>3. \A p \in Primaries(M, c) :
           p \in M /\ (units[p].object = c.object \/ SameObject(M, c) = {})
    BY PrimaryIsListed DEF Primaries, First, SameObject
  <2>4. ASSUME NEW p \in Primaries(M, c), w \in AgainstPrimary(p, M, n, c)
        PROVE  Keeps(kind, units, w)
    <3>1. CASE w = Refine(p, c) /\ CanRefine(p, c)
      BY <1>6, <1>12, <2>3, <3>1 DEF CanRefine
    <3>2. CASE /\ units[p].object = c.object
               /\ w \in {Replace(S, n, c) : S \in RevocationTargets(M, c)}
      <4>1. p \in SameObject(M, c)
        BY <2>3, <3>2 DEF SameObject
      <4> QED
        BY <1>8, <1>12, <3>2, <4>1 DEF RevocationTargets
    <3>3. CASE w = Create(n, c) /\ ShouldCreateParallel(p, c)
      BY <1>7, <1>12, <2>3, <3>3 DEF ShouldCreateParallel, PARALLEL_MEMORY_TYPES
    <3>4. CASE w = Supersede(p, n, c)
      BY <1>9, <1>12, <2>3, <3>4
    <3> QED
      BY <2>4, <3>1, <3>2, <3>3, <3>4 DEF AgainstPrimary, ShouldRevokeWithReplacement
  <2>5. \/ \E p \in M : w = Reinforce(p, c)
        \/ w = Create(n, c) /\ Primaries(M, c) = {}
        \/ \E p \in Primaries(M, c) : w \in AgainstPrimary(p, M, n, c)
    BY <1>12 DEF Resolutions, Active, First, M
  <2> QED
    BY <1>6, <1>7, <1>12, <2>1, <2>2, <2>4, <2>5
<1> QED
  BY <1>10, <1>11, <1>12 DEF CandidateRecords, Revivable

-----------------------------------------------------------------------------
(* The inductive invariant.                                                *)

\* A decision that waits, with the units us after the log l: should it be the
\* next to be applied, and made with all in sight, it keeps memories distinct.
Waits(k, us, l, m, d) ==
    /\ Honest(l, m, d)
    /\ ~d.blind /\ d.at = Len(l) => Keeps(k, us, d.writes)
AllWait(k, us, l, m, ds) == \A i \in DOMAIN ds : Waits(k, us, l, m, ds[i])

InHand ==
    /\ \A t \in Turns : AllWait(kind, units, log, issued, turn[t].ds)
    /\ AllWait(kind, units, log, issued, worker.ds)
    /\ AllWait(kind, units, log, issued, ending.ds)

\* What was read was there then.
Seen ==
    /\ \A t \in Turns :
          turn[t].phase \in {"resolving", "persisted"} => AsOf(log, turn[t].seen, turn[t].at)
    /\ worker.phase \in {"summaries", "dormant"} => AsOf(log, worker.seen, worker.at)

TargetsIn(l, at, time, target) ==
    LET correctable == {i \in 1..at : /\ Touches(l[i], target.unit) /\ ~IsCorrection(l[i])
                                      /\ l[i].time < time}
    IN  /\ target.unit \in Ids
        /\ target.place \in correctable
        /\ \A j \in correctable : \/ l[j].time < l[target.place].time
                                  \/ l[j].time = l[target.place].time /\ j <= target.place

\* What a job will correct was the latest when its turn read it.
Asked(l, job) ==
    /\ AsOf(l, job.seen, job.at)
    /\ \A i \in DOMAIN job.selected : TargetsIn(l, job.at, job.time, job.selected[i])

JobsAsk == \A i \in DOMAIN jobs : Asked(log, jobs[i])

CorrectsIn(l) ==
    \A k \in DOMAIN l : IsCorrection(l[k]) =>
        LET target == l[k].corrects
        IN  /\ target.place \in 1..(k - 1)
            /\ \A j \in (target.place + 1)..(k - 1) :
                  Touches(l[j], target.unit) =>
                      \/ IsCorrection(l[j])
                      \/ j > l[k].at
                      \/ l[j].time < l[target.place].time
                      \/ l[j].time >= l[k].time

SoundAt(l, k) == ~IsCorrection(l[k]) /\ ~l[k].blind /\ l[k].at = k - 1
ExcusedIn(l, object) ==
    \E k \in DOMAIN l : \E u \in DOMAIN l[k].writes :
        /\ ~SoundAt(l, k)
        /\ l[k].writes[u].after.status \in Revivable
        /\ l[k].writes[u].after.object = object
DistinctIn(k, us, l) ==
    \A u, v \in Alive(us) : u # v =>
        /\ us[u].object = us[v].object => ExcusedIn(l, us[u].object)
        /\ k \in {"fact", "summary"} => \E object \in Objects \cup {NoObject} : ExcusedIn(l, object)

\* The worker has a job in hand until it is idle again.
Working == worker.phase # "idle" => jobs # <<>>

IInv ==
    /\ TypeOK /\ AsOf(log, units, Len(log)) /\ IdsIssued(log, issued)
    /\ InHand /\ Seen /\ JobsAsk /\ Working
    /\ DeadIn(log) /\ CorrectsIn(log) /\ DistinctIn(kind, units, log)

\* The invariant holds the three properties.
LEMMA IInvProperties == IInv => DeadStayDead /\ CorrectsTheNewest /\ MemoriesDistinct
<1> SUFFICES ASSUME IInv  PROVE DeadStayDead /\ CorrectsTheNewest /\ MemoriesDistinct
  OBVIOUS
<1>1. DeadStayDead
  BY DeadIsDead DEF IInv
<1>2. CorrectsTheNewest
  BY DEF IInv, CorrectsIn, CorrectsTheNewest
<1>3. MemoriesDistinct
  <2>1. Live = Alive(units)
    BY DEF Live, Alive, Stored, Absent, Revivable, Active
  <2>2. \A object : Excused(object) <=> ExcusedIn(log, object)
    BY DEF Excused, ExcusedIn, Sound, SoundAt
  <2> QED
    BY <2>1, <2>2 DEF IInv, DistinctIn, MemoriesDistinct
<1> QED
  BY <1>1, <1>2, <1>3

LEMMA Constants ==
    MaxUnits \in Nat /\ MaxSelected \in Nat /\ Ids \subseteq Nat
    /\ \A c \in Candidates : c \in CandidateRecords
BY MemoryAssumption DEF Ids

LEMMA NothingDecided == AreDecisions(<<>>)
BY DEF AreDecisions

LEMMA InitIInv == Init => IInv
<1> SUFFICES ASSUME Init  PROVE IInv
  OBVIOUS
<1> USE DEF Init
<1>1. /\ Resting.ds = <<>> /\ Resting.phase = "idle"
      /\ \A phases : "idle" \in phases => IsConsolidation(Resting, phases)
  BY NothingDecided DEF Resting, IsConsolidation
<1>2. TypeOK
  <2>1. units \in [Ids -> Snapshots] /\ issued \in 0..MaxUnits
    BY Constants DEF Snapshots
  <2>2. turn \in [Turns -> {turn[t] : t \in Turns}]
    OBVIOUS
  <2> QED
    BY <1>1, <2>1, <2>2, NothingDecided DEF TypeOK
<1>3. AsOf(log, units, Len(log)) /\ IdsIssued(log, issued)
  BY DEF AsOf, IdsIssued, Snapshots
<1>4. InHand /\ Seen /\ JobsAsk /\ Working
  BY <1>1 DEF InHand, AllWait, Seen, JobsAsk, Working
<1>5. DeadIn(log) /\ CorrectsIn(log)
  BY DEF DeadIn, CorrectsIn
<1>6. DistinctIn(kind, units, log)
  BY DEF DistinctIn, Alive, Absent, Revivable, Active
<1> QED
  BY <1>2, <1>3, <1>4, <1>5, <1>6 DEF IInv

\* A decision by itself is a sequence of them.
LEMMA Single ==
    ASSUME NEW w, NEW at \in Nat, NEW time \in Nat, NEW blind \in BOOLEAN,
           DOMAIN w \subseteq Ids, \A u \in DOMAIN w : w[u] \in Writes
    PROVE  /\ AreDecisions(<<Decision(w, at, time, blind)>>)
           /\ ~IsCorrection(Decision(w, at, time, blind))
           /\ Decision(w, at, time, blind).writes = w
           /\ Decision(w, at, time, blind).at = at
           /\ Decision(w, at, time, blind).time = time
           /\ Decision(w, at, time, blind).blind = blind
BY DEF Decision, AreDecisions, IsCorrection, NoTarget

LEMMA SingleInSight ==
    ASSUME NEW w, NEW at \in Nat, NEW time \in Nat, DOMAIN w \subseteq Ids,
           \A u \in DOMAIN w : w[u] \in Writes
    PROVE  /\ AreDecisions(<<Decision(w, at, time, FALSE)>>)
           /\ Decision(w, at, time, FALSE).writes = w
           /\ Decision(w, at, time, FALSE).at = at
<1>1. \A b \in BOOLEAN : /\ AreDecisions(<<Decision(w, at, time, b)>>)
                          /\ Decision(w, at, time, b).writes = w
                          /\ Decision(w, at, time, b).at = at
  BY Single
<1>2. FALSE \in BOOLEAN
  OBVIOUS
<1> QED
  BY <1>1, <1>2, Zenon

\* Writes made from the units us, read after n decisions.
LEMMA FromSeen ==
    ASSUME AreDecisions(log), IdsIssued(log, issued), NEW us, NEW n, AsOf(log, us, n), NEW w,
           DOMAIN w \subseteq Ids, NEW time, NEW blind, NEW m \in Nat, issued <= m, issued \in Nat,
           \A u \in DOMAIN w :
              \/ us[u] # Absent /\ (w[u].after.status \in Revivable => us[u].status \notin Gone)
              \/ u = m /\ issued < m
    PROVE  Honest(log, m, Decision(w, n, time, blind))
<1> DEFINE d == Decision(w, n, time, blind)
<1>1. d.writes = w /\ d.at = n /\ n \in 0..Len(log) /\ Len(log) \in Nat /\ DOMAIN log = 1..Len(log)
      /\ ~IsCorrection(d)
  BY Lengths DEF Decision, AsOf, IsCorrection
<1> HIDE DEF d
<1>2. ASSUME NEW u \in DOMAIN w, NEW j \in 1..n, Touches(log[j], u)
      PROVE  u <= issued
  BY <1>1, <1>2 DEF IdsIssued, Touches
<1>3. ASSUME NEW u \in DOMAIN w  PROVE u <= m
  <2>1. CASE us[u] # Absent
    <3>1. \E j \in 1..n : Touches(log[j], u)
      BY <2>1 DEF AsOf
    <3>2. u <= issued /\ u \in Nat
      BY <1>2, <3>1, Constants
    <3> QED
      BY <3>2
  <2>2. CASE u = m
    BY <2>2
  <2> QED
    BY <2>1, <2>2
<1>4. ASSUME NEW u \in DOMAIN w, NEW j \in 1..n, LastIn(log, j, n + 1, u),
             log[j].writes[u].after.status \in Gone, w[u].after.status \in Revivable
      PROVE  FALSE
  <2>1. us[u] = log[j].writes[u].after /\ Touches(log[j], u)
    BY <1>4 DEF AsOf, LastIn
  <2>2. u <= issued
    BY <1>2, <2>1
  <2> QED
    BY <1>4, <2>1, <2>2, Constants
<1> QED
  BY <1>1, <1>3, <1>4 DEF Honest, d

\* The same without a new unit.
LEMMA SeenAgain ==
    ASSUME AreDecisions(log), IdsIssued(log, issued), issued \in Nat, NEW us, NEW n,
           AsOf(log, us, n), NEW w, DOMAIN w \subseteq Ids, NEW time, NEW blind,
           \A u \in DOMAIN w :
              us[u] # Absent /\ (w[u].after.status \in Revivable => us[u].status \notin Gone)
    PROVE  Honest(log, issued, Decision(w, n, time, blind))
<1>1. issued <= issued
  OBVIOUS
<1> QED
  BY <1>1, FromSeen

\* What a candidate resolves to may wait.
LEMMA ResolvedWaits ==
    ASSUME IInv, NEW c \in Proposals, NEW time \in Nat, NEW d \in Resolved(c, time)
    PROVE  /\ AreDecisions(<<d>>)
           /\ IssuedBy(d) \in 0..MaxUnits /\ issued <= IssuedBy(d)
           /\ Honest(log, IssuedBy(d), d)
           /\ ~d.blind => Keeps(kind, units, d.writes)
<1>1. /\ c \in CandidateRecords /\ units \in [Ids -> Snapshots] /\ issued \in 0..MaxUnits
      /\ AreDecisions(log) /\ IdsIssued(log, issued) /\ AsOf(log, units, Len(log))
      /\ Len(log) \in Nat /\ MaxUnits \in Nat /\ DOMAIN log = 1..Len(log)
  BY Constants, Lengths DEF Proposals, IInv, TypeOK
<1>2. PICK M \in Compared : \E w \in Resolutions(M, issued + 1, c) :
         /\ d = Decision(w, Len(log), time, M # Listed \/ c.parallel)
         /\ DOMAIN w \subseteq Ids
  BY DEF Resolved, Decision
<1>3. PICK w \in Resolutions(M, issued + 1, c) :
         /\ d = Decision(w, Len(log), time, M # Listed \/ c.parallel)
         /\ DOMAIN w \subseteq Ids
  BY <1>2
<1>4. M \in SUBSET Listed /\ Listed \subseteq Stored /\ Stored \subseteq Ids
  BY DEF Compared, Listed, Stored
<1>5. Renews(w, M, issued + 1, c)
  BY <1>1, <1>3, <1>4, WritesRenew
<1>6. \A u \in DOMAIN w : w[u] \in Writes
  BY <1>1, <1>5, NewType DEF Renews, Write, Writes
<1>7. (M # Listed \/ c.parallel) \in BOOLEAN
  BY <1>1 DEF CandidateRecords
<1>8. AreDecisions(<<d>>) /\ d.writes = w /\ d.blind = (M # Listed \/ c.parallel)
  <2> DEFINE b == M # Listed \/ c.parallel
  <2>1. b \in BOOLEAN /\ d = Decision(w, Len(log), time, b) /\ Len(log) \in Nat
    BY <1>1, <1>3, <1>7
  <2> HIDE DEF b
  <2>2. AreDecisions(<<d>>) /\ d.writes = w /\ d.blind = b
    BY <1>6, <1>3, <2>1, Single
  <2> QED
    BY <2>2 DEF b
<1>9. IssuedBy(d) \in 0..MaxUnits /\ issued <= IssuedBy(d)
      /\ (issued + 1 \in DOMAIN w => IssuedBy(d) = issued + 1)
  BY <1>1, <1>3, <1>8 DEF IssuedBy, Touches, Ids
<1>10. ASSUME NEW u \in DOMAIN w
      PROVE  \/ /\ units[u] # Absent
                /\ w[u].after.status \in Revivable => units[u].status \notin Gone
             \/ u = IssuedBy(d) /\ issued < IssuedBy(d)
  <2>1. CASE u \in M
    BY <1>4, <2>1 DEF Listed, Stored
  <2>2. CASE u = issued + 1
    BY <1>1, <1>9, <2>2
  <2> QED
    BY <1>5, <2>1, <2>2 DEF Renews
<1>11. Honest(log, IssuedBy(d), d)
  BY <1>1, <1>3, <1>9, <1>10, FromSeen
<1>12. ASSUME ~d.blind  PROVE Keeps(kind, units, w)
  <2>1. M = Listed /\ ~c.parallel
    BY <1>8, <1>12
  <2>2. \A j \in 1..Len(log) : ~Touches(log[j], issued + 1)
    BY <1>1 DEF IdsIssued, Touches
  <2>3. issued + 1 \in Ids => units[issued + 1] = Absent
    BY <1>1, <2>2 DEF AsOf
  <2> QED
    BY <1>1, <1>3, <2>1, <2>3, WritesKeep
<1> QED
  BY <1>8, <1>9, <1>11, <1>12

-----------------------------------------------------------------------------
(* What applying decisions preserves.                                      *)

LEMMA TargetsGrow ==
    ASSUME NEW s, NEW t, AreDecisions(s), AreDecisions(t), NEW at \in 0..Len(s), NEW time,
           NEW target, TargetsIn(s, at, time, target)
    PROVE  TargetsIn(s \o t, at, time, target)
<1>1. Len(s) \in Nat
  BY Lengths
<1>2. \A i \in 1..at : i \in 1..Len(s) /\ (s \o t)[i] = s[i]
  BY <1>1, Joined
<1> QED
  BY <1>2 DEF TargetsIn

\* Corrections that were the newest when asked for.
LEMMA CorrectsGrows ==
    ASSUME NEW s, NEW t, AreDecisions(s), AreDecisions(t), CorrectsIn(s),
           \A i \in DOMAIN t : IsCorrection(t[i]) =>
              /\ t[i].at \in 0..Len(s)
              /\ TargetsIn(s, t[i].at, t[i].time, t[i].corrects)
              /\ \A h \in DOMAIN t : IsCorrection(t[h])
    PROVE  CorrectsIn(s \o t)
<1> DEFINE l == s \o t
<1>1. /\ Len(s) \in Nat /\ Len(t) \in Nat /\ DOMAIN s = 1..Len(s) /\ DOMAIN t = 1..Len(t)
      /\ Len(l) = Len(s) + Len(t) /\ DOMAIN l = 1..Len(l)
  BY Lengths, Joined
<1>2. \A i \in 1..Len(s) : l[i] = s[i]
  BY Joined
<1>3. ASSUME NEW k \in DOMAIN l
      PROVE  (k \in 1..Len(s) /\ l[k] = s[k]) \/ \E i \in 1..Len(t) : k = Len(s) + i /\ l[k] = t[i]
  BY Places
<1> HIDE DEF l
<1>4. ASSUME NEW k \in DOMAIN l, IsCorrection(l[k])
      PROVE  /\ l[k].corrects.place \in 1..(k - 1)
             /\ \A j \in (l[k].corrects.place + 1)..(k - 1) :
                   Touches(l[j], l[k].corrects.unit) =>
                      \/ IsCorrection(l[j])
                      \/ j > l[k].at
                      \/ l[j].time < l[l[k].corrects.place].time
                      \/ l[j].time >= l[k].time
  <2> DEFINE place == l[k].corrects.place
             unit == l[k].corrects.unit
  <2>1. CASE k \in 1..Len(s) /\ l[k] = s[k]
    <3>1. /\ place \in 1..(k - 1)
          /\ \A j \in (place + 1)..(k - 1) :
                Touches(s[j], unit) =>
                   \/ IsCorrection(s[j])
                   \/ j > s[k].at
                   \/ s[j].time < s[place].time
                   \/ s[j].time >= s[k].time
      BY <1>1, <1>4, <2>1 DEF CorrectsIn
    <3>2. place \in 1..Len(s) /\ \A j \in (place + 1)..(k - 1) : j \in 1..Len(s)
      BY <1>1, <2>1, <3>1
    <3> QED
      BY <1>2, <2>1, <3>1, <3>2
  <2>2. CASE \E i \in 1..Len(t) : k = Len(s) + i /\ l[k] = t[i]
    <3>1. PICK i \in 1..Len(t) : k = Len(s) + i /\ l[k] = t[i]
      BY <2>2
    <3>2. /\ t[i].at \in 0..Len(s) /\ TargetsIn(s, t[i].at, t[i].time, t[i].corrects)
          /\ \A h \in DOMAIN t : IsCorrection(t[h])
      BY <1>1, <1>4, <3>1
    <3>3. place \in 1..t[i].at /\ place \in 1..Len(s) /\ place \in 1..(k - 1)
      BY <1>1, <3>1, <3>2 DEF TargetsIn
    <3>4. ASSUME NEW j \in (place + 1)..(k - 1), Touches(l[j], unit), ~IsCorrection(l[j]),
                 ~(j > l[k].at), ~(l[j].time >= l[k].time)
          PROVE  l[j].time < l[place].time
      <4>1. j \in 1..t[i].at /\ j \in 1..Len(s) /\ ~(j <= place)
        BY <1>1, <3>1, <3>2, <3>3, <3>4
      <4>2. l[j] = s[j] /\ l[place] = s[place]
        BY <1>2, <3>3, <4>1
      <4>3. s[j].time \in Nat /\ t[i].time \in Nat
        BY <1>1, <4>1, <3>1 DEF AreDecisions
      <4>4. s[j].time < t[i].time
        BY <3>1, <3>4, <4>2, <4>3
      <4> QED
        BY <3>1, <3>2, <3>4, <4>1, <4>2, <4>4 DEF TargetsIn
    <3> QED
      BY <3>3, <3>4
  <2> QED
    BY <1>3, <2>1, <2>2
<1>5. CorrectsIn(l)
  BY <1>4 DEF CorrectsIn
<1> QED
  BY <1>5 DEF l

\* Decisions that keep memories distinct when they are sound.
LEMMA DistinctGrows ==
    ASSUME NEW s, NEW t, AreDecisions(s), AreDecisions(t), NEW us \in [Ids -> Snapshots],
           DistinctIn(kind, us, s),
           \A i \in DOMAIN t :
              /\ t[i].at \in 0..Len(s)
              /\ ~IsCorrection(t[i]) /\ ~t[i].blind /\ t[i].at = Len(s)
                 => Keeps(kind, us, t[i].writes)
    PROVE  DistinctIn(kind, Applied(us, t), s \o t)
<1> DEFINE l == s \o t
           vs == Applied(us, t)
           w == IF t # <<>> /\ SoundAt(l, Len(s) + 1) THEN t[1].writes ELSE [u \in {} |-> 0]
           vv == After(us, w)
<1>1. /\ Len(s) \in Nat /\ Len(t) \in Nat /\ DOMAIN s = 1..Len(s) /\ DOMAIN t = 1..Len(t)
      /\ Len(l) = Len(s) + Len(t) /\ DOMAIN l = 1..Len(l)
      /\ (t # <<>> => 1 \in DOMAIN t) /\ (DOMAIN t # {} => t # <<>>)
  <2>1. t # <<>> => Len(t) # 0
    BY DEF AreDecisions
  <2> QED
    BY <2>1, Lengths, Joined
<1>2. /\ \A i \in 1..Len(s) : l[i] = s[i] /\ i \in DOMAIN l
      /\ \A i \in 1..Len(t) : l[Len(s) + i] = t[i] /\ Len(s) + i \in DOMAIN l
  BY <1>1, Joined
<1>3. /\ vs \in [Ids -> Snapshots]
      /\ \A u \in Ids : (\A i \in DOMAIN t : ~Touches(t[i], u)) => vs[u] = us[u]
      /\ \A u \in Ids : \A i \in DOMAIN t :
            LastIn(t, i, Len(t) + 1, u) => vs[u] = t[i].writes[u].after
      /\ \A u \in Ids : (\E i \in DOMAIN t : Touches(t[i], u)) =>
            \E i \in DOMAIN t : LastIn(t, i, Len(t) + 1, u)
  <2> HIDE DEF l, w, vv
  <2>1. \A u \in Ids : (\E i \in DOMAIN t : Touches(t[i], u)) =>
            \E i \in DOMAIN t : LastIn(t, i, Len(t) + 1, u)
    BY AppliedUnits
  <2>2. /\ Applied(us, t) \in [Ids -> Snapshots]
        /\ \A u \in Ids : (\A i \in DOMAIN t : ~Touches(t[i], u)) => Applied(us, t)[u] = us[u]
        /\ \A u \in Ids : \A i \in DOMAIN t :
              LastIn(t, i, Len(t) + 1, u) => Applied(us, t)[u] = t[i].writes[u].after
    BY AppliedUnits
  <2> QED
    BY <2>1, <2>2
<1> HIDE DEF l, vs
<1>4. ASSUME NEW o, ExcusedIn(s, o)  PROVE ExcusedIn(l, o)
  BY <1>1, <1>2, <1>4 DEF ExcusedIn, SoundAt
<1>5. ASSUME NEW i \in DOMAIN t, NEW u \in DOMAIN t[i].writes, ~SoundAt(l, Len(s) + i),
             t[i].writes[u].after.status \in Revivable
      PROVE  ExcusedIn(l, t[i].writes[u].after.object)
  BY <1>1, <1>2, <1>5 DEF ExcusedIn
<1>6. ASSUME NEW i \in DOMAIN t, SoundAt(l, Len(s) + i)
      PROVE  i = 1 /\ w = t[i].writes /\ Keeps(kind, us, t[i].writes)
  <2>1. l[Len(s) + i] = t[i] /\ t[i].at \in 0..Len(s) /\ t[i].at = (Len(s) + i) - 1
        /\ ~IsCorrection(t[i]) /\ ~t[i].blind
    BY <1>1, <1>2, <1>6 DEF SoundAt
  <2>2. i = 1 /\ t[i].at = Len(s)
    BY <1>1, <2>1
  <2> QED
    BY <1>1, <1>6, <2>1, <2>2
<1>7. Keeps(kind, us, w)
  <2>1. CASE t # <<>> /\ SoundAt(l, Len(s) + 1)
    BY <1>1, <1>6, <2>1
  <2>2. CASE ~(t # <<>> /\ SoundAt(l, Len(s) + 1))
    <3>1. w = [u \in {} |-> 0]
      BY <2>2
    <3> HIDE DEF w
    <3> QED
      BY <3>1, ChangesKeep
  <2> QED
    BY <2>1, <2>2
<1>8. ASSUME NEW u \in Alive(vs)
      PROVE  ExcusedIn(l, vs[u].object) \/ (u \in Alive(vv) /\ vs[u] = vv[u])
  <2>1. u \in Ids /\ vs[u].status \in Revivable
    BY DEF Alive
  <2>2. CASE \E i \in DOMAIN t : Touches(t[i], u)
    <3>1. PICK i \in DOMAIN t : LastIn(t, i, Len(t) + 1, u)
      BY <1>3, <2>1, <2>2
    <3>2. vs[u] = t[i].writes[u].after /\ u \in DOMAIN t[i].writes
      BY <1>3, <2>1, <3>1 DEF LastIn, Touches
    <3>3. CASE SoundAt(l, Len(s) + i)
      <4>1. w = t[i].writes
        BY <1>6, <3>3
      <4> HIDE DEF w
      <4>2. vv[u] = vs[u]
        BY <2>1, <3>2, <4>1 DEF After
      <4> QED
        BY <2>1, <4>2 DEF Alive
    <3>4. CASE ~SoundAt(l, Len(s) + i)
      BY <1>5, <2>1, <3>2, <3>4
    <3> QED
      BY <3>3, <3>4
  <2>3. CASE \A i \in DOMAIN t : ~Touches(t[i], u)
    <3>1. u \notin DOMAIN w
      BY <1>1, <2>3 DEF Touches
    <3>2. vs[u] = us[u]
      BY <1>3, <2>1, <2>3
    <3> HIDE DEF w
    <3> QED
      BY <2>1, <3>1, <3>2 DEF After, Alive
  <2> QED
    BY <2>2, <2>3
<1> HIDE DEF w, vv
<1>9. ASSUME NEW u \in Alive(vs), NEW v \in Alive(vs), u # v, vs[u].object = vs[v].object
      PROVE  ExcusedIn(l, vs[u].object)
  <2>1. SUFFICES ASSUME u \in Alive(vv), vs[u] = vv[u], v \in Alive(vv), vs[v] = vv[v]
                 PROVE  ExcusedIn(l, vs[u].object)
    BY <1>8, <1>9
  <2>2. Clash(us, vs[u].object)
    BY <1>7, <1>9, <2>1 DEF Keeps, vv
  <2>3. ExcusedIn(s, vs[u].object)
    BY <2>2 DEF Clash, DistinctIn
  <2> QED
    BY <1>4, <2>3
<1>10. ASSUME NEW u \in Alive(vs), NEW v \in Alive(vs), u # v, kind \in {"fact", "summary"}
       PROVE  \E object \in Objects \cup {NoObject} : ExcusedIn(l, object)
  <2>1. \A a \in Alive(vs) : vs[a].object \in Objects \cup {NoObject}
    BY <1>3 DEF Alive, Snapshots, UnitRecords, Absent, Revivable, Active
  <2>2. SUFFICES ASSUME u \in Alive(vv), v \in Alive(vv)
                 PROVE  \E object \in Objects \cup {NoObject} : ExcusedIn(l, object)
    BY <1>8, <2>1
  <2>3. ~One(us)
    BY <1>7, <1>10, <2>2 DEF Keeps, One, vv
  <2>4. \E object \in Objects \cup {NoObject} : ExcusedIn(s, object)
    BY <1>10, <2>3 DEF One, DistinctIn
  <2> QED
    BY <1>4, <2>4
<1>11. DistinctIn(kind, vs, l)
  BY <1>9, <1>10 DEF DistinctIn
<1> QED
  BY <1>11 DEF l, vs

LEMMA WaitsGrow ==
    ASSUME NEW s, NEW t, AreDecisions(s), AreDecisions(t), NEW us \in [Ids -> Snapshots],
           NEW m \in Nat, NEW d, DOMAIN d.writes \subseteq Nat, Waits(kind, us, s, m, d)
    PROVE  Waits(kind, Applied(us, t), s \o t, m, d)
<1>1. Honest(s, m, d) /\ Honest(s \o t, m, d) /\ d.at \in 0..Len(s)
  <2>1. Honest(s, m, d) /\ m <= m
    BY DEF Waits
  <2>2. Honest(s \o t, m, d)
    BY <2>1, HonestGrows
  <2> QED
    BY <2>1, <2>2 DEF Honest
<1>2. ASSUME d.at = Len(s \o t)
      PROVE  d.at = Len(s) /\ Applied(us, t) = us
  <2>1. Len(s \o t) = Len(s) + Len(t) /\ Len(s) \in Nat /\ Len(t) \in Nat /\ DOMAIN t = 1..Len(t)
    BY Lengths, Joined
  <2>2. Len(t) = 0 /\ d.at = Len(s)
    BY <1>1, <1>2, <2>1
  <2>3. \A u \in Ids : Applied(us, t)[u] = us[u]
    BY <2>1, <2>2, AppliedUnits
  <2> QED
    BY <2>2, <2>3, AppliedUnits
<1> QED
  BY <1>1, <1>2 DEF Waits

\* What a step must leave of the store, and of what was read from it.
StoreKept ==
    /\ units' \in [Ids -> Snapshots] /\ AreDecisions(log')
    /\ AsOf(log', units', Len(log')) /\ IdsIssued(log', issued')
    /\ DeadIn(log') /\ CorrectsIn(log') /\ DistinctIn(kind', units', log')
    /\ \A us, n : AsOf(log, us, n) => AsOf(log', us, n)
    /\ \A ds : AreDecisions(ds) /\ AllWait(kind, units, log, issued, ds)
               => AllWait(kind', units', log', issued', ds)
    /\ \A job : Asked(log, job) => Asked(log', job)

\* What a state keeps when t is applied: decisions that waited, or corrections
\* that were asked for.
LEMMA ApplyKeeps ==
    ASSUME IInv, NEW t, AreDecisions(t), Apply(t), UNCHANGED <<kind, issued>>,
           IdsIssued(t, issued),
           \/ AllWait(kind, units, log, issued, t)
           \/ \A i \in DOMAIN t :
                 /\ IsCorrection(t[i]) /\ t[i].at \in 0..Len(log)
                 /\ TargetsIn(log, t[i].at, t[i].time, t[i].corrects)
    PROVE  StoreKept
<1>1. /\ AreDecisions(log) /\ units \in [Ids -> Snapshots] /\ issued \in Nat
      /\ AsOf(log, units, Len(log)) /\ IdsIssued(log, issued)
      /\ DeadIn(log) /\ CorrectsIn(log) /\ DistinctIn(kind, units, log)
  BY Constants DEF IInv, TypeOK
<1>2. units' = Applied(units, t) /\ log' = log \o t /\ kind' = kind /\ issued' = issued
  BY DEF Apply
<1>3. \A i \in DOMAIN t : \/ IsCorrection(t[i]) /\ t[i].at \in 0..Len(log)
                          \/ Waits(kind, units, log, issued, t[i])
  BY DEF AllWait
<1>4. units' \in [Ids -> Snapshots] /\ AreDecisions(log')
  BY <1>1, <1>2, AppliedUnits, Joined
<1>5. AsOf(log', units', Len(log')) /\ IdsIssued(log', issued')
  BY <1>1, <1>2, AppliedAsOf, IssuedGrows
<1>6. DeadIn(log')
  BY <1>1, <1>2, <1>3, DeadGrows DEF Waits
<1>7. CorrectsIn(log')
  <2>1. \A i \in DOMAIN t : IsCorrection(t[i]) =>
              /\ t[i].at \in 0..Len(log)
              /\ TargetsIn(log, t[i].at, t[i].time, t[i].corrects)
              /\ \A h \in DOMAIN t : IsCorrection(t[h])
    BY DEF AllWait, Waits, Honest
  <2> QED
    BY <1>1, <1>2, <2>1, CorrectsGrows
<1>8. DistinctIn(kind', units', log')
  <2>1. \A i \in DOMAIN t :
              /\ t[i].at \in 0..Len(log)
              /\ ~IsCorrection(t[i]) /\ ~t[i].blind /\ t[i].at = Len(log)
                 => Keeps(kind, units, t[i].writes)
    BY <1>3 DEF Waits, Honest
  <2> QED
    BY <1>1, <1>2, <2>1, DistinctGrows
<1>9. \A us, n : AsOf(log, us, n) => AsOf(log', us, n)
  BY <1>1, <1>2, AsOfGrows
<1>10. ASSUME NEW ds, AreDecisions(ds), AllWait(kind, units, log, issued, ds)
       PROVE  AllWait(kind', units', log', issued', ds)
  <2>1. ASSUME NEW i \in DOMAIN ds  PROVE Waits(kind', units', log', issued', ds[i])
    <3>1. Waits(kind, units, log, issued, ds[i]) /\ DOMAIN ds[i].writes \subseteq Nat
      BY <1>10, Constants DEF AllWait, AreDecisions
    <3> QED
      BY <1>1, <1>2, <3>1, WaitsGrow
  <2> QED
    BY <2>1 DEF AllWait
<1>11. ASSUME NEW job, Asked(log, job)  PROVE Asked(log', job)
  <2>1. AsOf(log', job.seen, job.at) /\ job.at \in 0..Len(log)
    BY <1>9, <1>11 DEF Asked, AsOf
  <2>2. \A i \in DOMAIN job.selected : TargetsIn(log', job.at, job.time, job.selected[i])
    BY <1>1, <1>2, <1>11, <2>1, TargetsGrow DEF Asked
  <2> QED
    BY <2>1, <2>2 DEF Asked
<1> QED
  BY <1>4, <1>5, <1>6, <1>7, <1>8, <1>9, <1>10, <1>11 DEF StoreKept

LEMMA StoreStays ==
    ASSUME IInv, UNCHANGED <<kind, units, log>>, issued' \in Nat, issued <= issued'
    PROVE  StoreKept
<1>1. /\ AreDecisions(log) /\ units \in [Ids -> Snapshots] /\ issued \in Nat
      /\ AsOf(log, units, Len(log)) /\ IdsIssued(log, issued)
      /\ DeadIn(log) /\ CorrectsIn(log) /\ DistinctIn(kind, units, log)
  BY Constants DEF IInv, TypeOK
<1>2. IdsIssued(log', issued')
  <2>1. \A j \in DOMAIN log : \A u \in DOMAIN log[j].writes : u \in Nat /\ u <= issued
    BY <1>1, Constants DEF AreDecisions, IdsIssued
  <2> QED
    BY <1>1, <2>1 DEF IdsIssued
<1>3. ASSUME NEW ds, AreDecisions(ds), AllWait(kind, units, log, issued, ds)
      PROVE  AllWait(kind', units', log', issued', ds)
  <2>1. ASSUME NEW i \in DOMAIN ds  PROVE Waits(kind, units, log, issued', ds[i])
    <3>1. Waits(kind, units, log, issued, ds[i]) /\ DOMAIN ds[i].writes \subseteq Nat
      BY <1>3, Constants DEF AllWait, AreDecisions
    <3>2. \A u \in DOMAIN ds[i].writes : u <= issued'
      BY <1>1, <3>1 DEF Waits, Honest
    <3> QED
      BY <3>1, <3>2 DEF Waits, Honest
  <2> QED
    BY <2>1 DEF AllWait
<1> QED
  BY <1>1, <1>2, <1>3 DEF StoreKept

-----------------------------------------------------------------------------
(* The invariant, part by part.                                            *)

TurnPhases == {"idle", "finished", "resolving", "persisted"}
TurnReads == {"resolving", "persisted"}
WorkerPhases == {"idle", "corrected", "summaries", "dormant"}
WorkerReads == {"summaries", "dormant"}
EndPhases == {"idle", "read"}
JobRecords ==
    [seen : [Ids -> Snapshots], at : Nat, time : Nat, selected : Seq([place : Nat, unit : Ids])]

\* A consolidation in one of the phases, that has read in those of `reads`.
Fine(k, us, l, m, c, phases, reads) ==
    /\ IsConsolidation(c, phases)
    /\ AllWait(k, us, l, m, c.ds)
    /\ c.phase \in reads => AsOf(l, c.seen, c.at)

LEMMA AllFine ==
    ASSUME IInv
    PROVE  /\ \A t \in Turns : Fine(kind, units, log, issued, turn[t], TurnPhases, TurnReads)
           /\ Fine(kind, units, log, issued, worker, WorkerPhases, WorkerReads)
           /\ Fine(kind, units, log, issued, ending, EndPhases, {})
           /\ AsOf(log, units, Len(log)) /\ Len(log) \in Nat /\ units \in [Ids -> Snapshots]
           /\ issued \in 0..MaxUnits /\ issued \in Nat /\ turns \in Nat /\ endings \in Nat
           /\ restarts \in Nat /\ jobs \in Seq(JobRecords) /\ kind \in Kinds
           /\ AreDecisions(log) /\ DOMAIN log = 1..Len(log) /\ IdsIssued(log, issued)
<1>1. /\ \A t \in Turns : Fine(kind, units, log, issued, turn[t], TurnPhases, TurnReads)
      /\ Fine(kind, units, log, issued, worker, WorkerPhases, WorkerReads)
      /\ Fine(kind, units, log, issued, ending, EndPhases, {})
  BY DEF IInv, TypeOK, InHand, Seen, Fine, TurnPhases, TurnReads, WorkerPhases, WorkerReads,
         EndPhases
<1>2. /\ AsOf(log, units, Len(log)) /\ units \in [Ids -> Snapshots]
      /\ issued \in 0..MaxUnits /\ issued \in Nat /\ turns \in Nat /\ endings \in Nat
      /\ restarts \in Nat /\ jobs \in Seq(JobRecords) /\ kind \in Kinds
      /\ AreDecisions(log) /\ IdsIssued(log, issued)
  BY Constants DEF IInv, TypeOK, JobRecords
<1> QED
  BY <1>1, <1>2, Lengths

LEMMA Kept ==
    ASSUME IInv, StoreKept, kind' = kind, issued' \in 0..MaxUnits,
           turns' \in Nat, endings' \in Nat, restarts' \in Nat,
           turn' \in [Turns -> {turn'[t] : t \in Turns}],
           \A t \in Turns : \/ turn'[t] = turn[t]
                            \/ Fine(kind', units', log', issued', turn'[t], TurnPhases, TurnReads),
           \/ worker' = worker
           \/ Fine(kind', units', log', issued', worker', WorkerPhases, WorkerReads),
           ending' = ending \/ Fine(kind', units', log', issued', ending', EndPhases, {}),
           jobs' \in Seq(JobRecords),
           \A i \in DOMAIN jobs' :
              (\E j \in DOMAIN jobs : jobs'[i] = jobs[j]) \/ Asked(log', jobs'[i]),
           worker'.phase # "idle" => jobs' # <<>>
    PROVE  IInv'
<1>1. ASSUME NEW c, NEW phases, NEW reads, Fine(kind, units, log, issued, c, phases, reads)
      PROVE  Fine(kind', units', log', issued', c, phases, reads)
  BY <1>1 DEF Fine, StoreKept, IsConsolidation
<1>2. /\ \A t \in Turns : Fine(kind', units', log', issued', turn'[t], TurnPhases, TurnReads)
      /\ Fine(kind', units', log', issued', worker', WorkerPhases, WorkerReads)
      /\ Fine(kind', units', log', issued', ending', EndPhases, {})
  BY <1>1, AllFine
<1>3. TypeOK'
  BY <1>2, AllFine DEF TypeOK, Fine, StoreKept, JobRecords, TurnPhases, WorkerPhases, EndPhases
<1>4. InHand' /\ Seen'
  BY <1>2 DEF InHand, Seen, Fine, TurnReads, WorkerReads
<1>5. JobsAsk'
  BY DEF IInv, JobsAsk, StoreKept
<1> QED
  BY <1>3, <1>4, <1>5 DEF IInv, StoreKept, Working

LEMMA RestingIsFine ==
    ASSUME NEW k, NEW us, NEW l, NEW m
    PROVE  /\ Fine(k, us, l, m, Resting, TurnPhases, TurnReads)
           /\ Fine(k, us, l, m, Resting, WorkerPhases, WorkerReads)
           /\ Fine(k, us, l, m, Resting, EndPhases, {})
BY NothingDecided DEF Fine, Resting, IsConsolidation, AllWait, TurnPhases, TurnReads, WorkerPhases,
      WorkerReads, EndPhases

\* A step of one thread.
LEMMA Turned ==
    ASSUME IInv, NEW t \in Turns, NEW r, turn' = [turn EXCEPT ![t] = r]
    PROVE  /\ turn' \in [Turns -> {turn'[s] : s \in Turns}]
           /\ turn'[t] = r
           /\ \A s \in Turns \ {t} : turn'[s] = turn[s]
<1>1. DOMAIN turn = Turns /\ turn = [s \in Turns |-> turn[s]]
  BY DEF IInv, TypeOK
<1>2. /\ turn' = [s \in Turns |-> turn'[s]] /\ turn'[t] = r
      /\ \A s \in Turns \ {t} : turn'[s] = turn[s]
  BY <1>1
<1> QED
  BY <1>2

\* No job goes, and none comes.
LEMMA JobsStay ==
    ASSUME IInv, jobs' = jobs
    PROVE  /\ jobs' \in Seq(JobRecords)
           /\ \A i \in DOMAIN jobs' : \E j \in DOMAIN jobs : jobs'[i] = jobs[j]
BY AllFine

\* A step of a thread that changes nothing else.
LEMMA OneTurns ==
    ASSUME IInv, NEW t \in Turns, NEW r, turn' = [turn EXCEPT ![t] = r], StoreKept,
           Fine(kind', units', log', issued', r, TurnPhases, TurnReads), issued' \in 0..MaxUnits,
           turns' \in Nat, UNCHANGED <<kind, jobs, worker, ending, endings, restarts>>
    PROVE  IInv'
<1>1. /\ turn' \in [Turns -> {turn'[s] : s \in Turns}]
      /\ \A s \in Turns : \/ turn'[s] = turn[s]
                          \/ Fine(kind', units', log', issued', turn'[s], TurnPhases, TurnReads)
  BY Turned
<1>2. worker'.phase # "idle" => jobs' # <<>>
  BY DEF IInv, Working
<1> QED
  BY <1>1, <1>2, AllFine, JobsStay, Kept

-----------------------------------------------------------------------------
(* Every step keeps the invariant.                                         *)

LEMMA FinishKeeps == ASSUME IInv, NEW t \in Turns, Finish(t)  PROVE IInv'
<1> DEFINE r == [turn[t] EXCEPT !.phase = "finished", !.time = Now]
<1>1. turn' = [turn EXCEPT ![t] = r]
  BY DEF Finish
<1>2. Now \in Nat /\ turns' \in Nat
  BY AllFine DEF Finish, Now
<1>3. Fine(kind, units, log, issued, r, TurnPhases, TurnReads)
  <2>1. Fine(kind, units, log, issued, turn[t], TurnPhases, TurnReads)
    BY AllFine
  <2> QED
    BY <1>2, <2>1 DEF Fine, IsConsolidation, TurnPhases, TurnReads
<1> HIDE DEF r
<1>4. UNCHANGED <<kind, units, log, issued, jobs, worker, ending, endings, restarts>>
  BY DEF Finish
<1>5. StoreKept
  BY <1>4, AllFine, StoreStays
<1> QED
  BY <1>1, <1>2, <1>3, <1>4, <1>5, AllFine, OneTurns

LEMMA PrepareKeeps == ASSUME IInv, NEW t \in Turns, Prepare(t)  PROVE IInv'
<1> DEFINE r == [turn[t] EXCEPT !.phase = "resolving", !.seen = units, !.at = Len(log)]
<1>1. turn' = [turn EXCEPT ![t] = r]
  BY DEF Prepare
<1>2. Fine(kind, units, log, issued, r, TurnPhases, TurnReads)
  <2>1. Fine(kind, units, log, issued, turn[t], TurnPhases, TurnReads)
    BY AllFine
  <2> QED
    BY <2>1, AllFine DEF Fine, IsConsolidation, TurnPhases
<1> HIDE DEF r
<1>3. UNCHANGED <<kind, units, log, issued, turns, jobs, worker, ending, endings, restarts>>
  BY DEF Prepare
<1>4. StoreKept
  BY <1>3, AllFine, StoreStays
<1> QED
  BY <1>1, <1>2, <1>3, <1>4, AllFine, OneTurns

\* One more decision that waits.
LEMMA OneMoreWaits ==
    ASSUME IInv, NEW ds, AreDecisions(ds), AllWait(kind, units, log, issued, ds), NEW d,
           AreDecisions(<<d>>), NEW m \in Nat, issued <= m, Honest(log, m, d),
           ~d.blind /\ d.at = Len(log) => Keeps(kind, units, d.writes)
    PROVE  AreDecisions(Append(ds, d)) /\ AllWait(kind, units, log, m, Append(ds, d))
<1>1. AreDecisions(Append(ds, d)) /\ \A i \in DOMAIN Append(ds, d) :
         (i \in DOMAIN ds /\ Append(ds, d)[i] = ds[i]) \/ Append(ds, d)[i] = d
  BY Appended
<1>2. ASSUME NEW i \in DOMAIN ds  PROVE Waits(kind, units, log, m, ds[i])
  <2>1. Waits(kind, units, log, issued, ds[i]) /\ DOMAIN ds[i].writes \subseteq Nat
    BY Constants DEF AllWait, AreDecisions
  <2>2. \A u \in DOMAIN ds[i].writes : u <= m
    BY <2>1, AllFine DEF Waits, Honest
  <2> QED
    BY <2>1, <2>2 DEF Waits, Honest
<1>3. Waits(kind, units, log, m, d)
  BY DEF Waits
<1> QED
  BY <1>1, <1>2, <1>3 DEF AllWait

LEMMA ResolveKeeps == ASSUME IInv, NEW t \in Turns, Resolve(t)  PROVE IInv'
<1>1. Fine(kind, units, log, issued, turn[t], TurnPhases, TurnReads) /\ turn[t].time \in Nat
  BY AllFine DEF Fine, IsConsolidation
<1>2. PICK c \in Proposals : \E d \in Resolved(c, turn[t].time) :
         /\ turn' = [turn EXCEPT ![t].ds = Append(@, d)]
         /\ issued' = IssuedBy(d)
  BY DEF Resolve
<1>3. PICK d \in Resolved(c, turn[t].time) :
         /\ turn' = [turn EXCEPT ![t].ds = Append(@, d)]
         /\ issued' = IssuedBy(d)
  BY <1>2
<1> DEFINE r == [turn[t] EXCEPT !.ds = Append(turn[t].ds, d)]
<1>4. turn' = [turn EXCEPT ![t] = r]
  BY <1>3
<1>5. /\ AreDecisions(<<d>>) /\ issued' \in 0..MaxUnits /\ issued' \in Nat /\ issued <= issued'
      /\ Honest(log, issued', d) /\ (~d.blind => Keeps(kind, units, d.writes))
  <2>1. IssuedBy(d) \in 0..MaxUnits /\ issued <= IssuedBy(d)
    BY <1>1, ResolvedWaits
  <2> QED
    BY <1>1, <1>3, <2>1, ResolvedWaits, Constants
<1>6. AreDecisions(Append(turn[t].ds, d))
      /\ AllWait(kind, units, log, issued', Append(turn[t].ds, d))
  BY <1>1, <1>5, OneMoreWaits DEF Fine, IsConsolidation
<1>7. Fine(kind, units, log, issued', r, TurnPhases, TurnReads)
  <2> DEFINE e == Append(turn[t].ds, d)
  <2>1. r = [turn[t] EXCEPT !.ds = e]
    OBVIOUS
  <2> HIDE DEF e
  <2>2. r \in [phase : TurnPhases, time : Nat, seen : [Ids -> Snapshots] \cup {<<>>}, at : Nat,
               ds : {r.ds}] /\ r.ds = e /\ r.phase = turn[t].phase /\ r.seen = turn[t].seen
               /\ r.at = turn[t].at
    BY <1>1, <2>1 DEF Fine, IsConsolidation
  <2> QED
    BY <1>1, <1>6, <2>2 DEF Fine, IsConsolidation, e
<1> HIDE DEF r
<1>8. UNCHANGED <<kind, units, log, turns, jobs, worker, ending, endings, restarts>>
  BY DEF Resolve
<1>9. StoreKept
  BY <1>5, <1>8, StoreStays
<1> QED
  BY <1>4, <1>5, <1>7, <1>8, <1>9, AllFine, OneTurns

\* What waits bears on units that were issued.
LEMMA WaitingIsIssued ==
    ASSUME NEW k, NEW us, NEW l, NEW m, NEW ds, AllWait(k, us, l, m, ds)
    PROVE  IdsIssued(ds, m)
BY DEF AllWait, Waits, Honest, IdsIssued

LEMMA PersistTurnKeeps == ASSUME IInv, NEW t \in Turns, PersistTurn(t)  PROVE IInv'
<1> DEFINE r == [turn[t] EXCEPT !.phase = "persisted", !.ds = <<>>]
<1>1. turn' = [turn EXCEPT ![t] = r]
  BY DEF PersistTurn
<1>2. Fine(kind, units, log, issued, turn[t], TurnPhases, TurnReads)
  BY AllFine
<1>3. UNCHANGED <<kind, issued, turns, jobs, worker, ending, endings, restarts>>
  BY DEF PersistTurn
<1>4. StoreKept
  BY <1>2, <1>3, WaitingIsIssued, ApplyKeeps DEF PersistTurn, Fine, IsConsolidation
<1>5. Fine(kind', units', log', issued', r, TurnPhases, TurnReads)
  <2>1. r \in [phase : TurnPhases, time : Nat, seen : [Ids -> Snapshots] \cup {<<>>}, at : Nat,
               ds : {r.ds}] /\ r.ds = <<>> /\ r.seen = turn[t].seen /\ r.at = turn[t].at
    BY <1>2 DEF Fine, IsConsolidation, TurnPhases
  <2>2. AsOf(log', r.seen, r.at)
    BY <1>2, <1>4, <2>1 DEF Fine, TurnReads, PersistTurn, StoreKept
  <2> QED
    BY <2>1, <2>2, NothingDecided DEF Fine, IsConsolidation, AllWait
<1> HIDE DEF r
<1> QED
  BY <1>1, <1>3, <1>4, <1>5, AllFine, OneTurns

LEMMA TurnFailsKeeps == ASSUME IInv, NEW t \in Turns, TurnFails(t)  PROVE IInv'
<1>1. /\ turn' = [turn EXCEPT ![t] = Resting]
      /\ UNCHANGED <<kind, units, log, issued, turns, jobs, worker, ending, endings, restarts>>
  BY DEF TurnFails
<1>2. StoreKept
  BY <1>1, AllFine, StoreStays
<1> QED
  BY <1>1, <1>2, AllFine, RestingIsFine, OneTurns

LEMMA QueueJobKeeps == ASSUME IInv, NEW t \in Turns, QueueJob(t)  PROVE IInv'
<1>1. /\ turn' = [turn EXCEPT ![t] = Resting] /\ turn[t].phase = "persisted"
      /\ UNCHANGED <<kind, units, log, issued, turns, worker, ending, endings, restarts>>
  BY DEF QueueJob
<1>2. StoreKept
  BY <1>1, AllFine, StoreStays
<1>3. AsOf(log, turn[t].seen, turn[t].at) /\ turn[t].at \in Nat /\ turn[t].time \in Nat
  BY <1>1, AllFine DEF Fine, TurnReads, IsConsolidation
<1> DEFINE at == turn[t].at
           time == turn[t].time
<1>4. PICK selected \in Selections(Targets(at, time)) :
         jobs' = Append(jobs, [seen |-> turn[t].seen, at |-> at, time |-> time,
                               selected |-> selected])
  BY DEF QueueJob
<1> DEFINE job == [seen |-> turn[t].seen, at |-> at, time |-> time, selected |-> selected]
<1>5. PICK m \in 0..MaxSelected : selected \in [1..m -> Targets(at, time)]
  BY <1>4 DEF Selections
<1>6. selected \in Seq([place : Nat, unit : Ids])
  <2>1. \A target \in Targets(at, time) : target \in [place : Nat, unit : Ids]
    BY <1>3 DEF Targets
  <2>2. m \in Nat
    BY Constants
  <2> DEFINE R == [place : Nat, unit : Ids]
  <2>3. selected \in [1..m -> R]
    BY <1>5, <2>1
  <2> HIDE DEF R
  <2>4. selected \in Seq(R)
    BY <2>2, <2>3
  <2> QED
    BY <2>4 DEF R
<1>7. \A target \in Targets(at, time) : TargetsIn(log, at, time, target)
  BY DEF Targets, TargetsIn, Correctable
<1>8. Asked(log', job)
  BY <1>1, <1>3, <1>5, <1>7 DEF Asked
<1>9. job \in JobRecords
  BY <1>3, <1>6 DEF JobRecords, AsOf
<1> HIDE DEF job, at, time
<1>10. jobs' = Append(jobs, job) /\ jobs \in Seq(JobRecords)
  BY <1>4, AllFine DEF job
<1>11. /\ jobs' \in Seq(JobRecords) /\ jobs' # <<>>
       /\ \A i \in DOMAIN jobs' : (\E j \in DOMAIN jobs : jobs'[i] = jobs[j]) \/ jobs'[i] = job
  BY <1>9, <1>10
<1>12. /\ turn' \in [Turns -> {turn'[s] : s \in Turns}]
       /\ \A s \in Turns : \/ turn'[s] = turn[s]
                           \/ Fine(kind', units', log', issued', turn'[s], TurnPhases, TurnReads)
  BY <1>1, Turned, RestingIsFine
<1> QED
  BY <1>1, <1>2, <1>8, <1>11, <1>12, AllFine, Kept

\* What a correction writes: units that its turn saw.
LEMMA CorrectionWrites ==
    ASSUME AreDecisions(log), NEW seen, NEW at, AsOf(log, seen, at), NEW time, NEW target,
           TargetsIn(log, at, time, target)
    PROVE  /\ DOMAIN Correction(target, seen) \subseteq Ids
           /\ \A u \in DOMAIN Correction(target, seen) :
                 /\ Correction(target, seen)[u] \in Writes
                 /\ \E j \in 1..at : Touches(log[j], u)
<1> DEFINE u == target.unit
           p == target.place
           w == log[p].writes
<1>1. /\ Len(log) \in Nat /\ DOMAIN log = 1..Len(log) /\ at \in 0..Len(log)
      /\ seen \in [Ids -> Snapshots]
  BY Lengths DEF AsOf
<1>2. u \in Ids /\ p \in 1..at /\ p \in DOMAIN log /\ u \in DOMAIN w
  BY <1>1 DEF TargetsIn, Touches
<1>3. \A v \in DOMAIN w : v \in Ids /\ w[v] \in Writes /\ (\E j \in 1..at : Touches(log[j], v))
  BY <1>2 DEF AreDecisions, Touches
<1>4. \A v \in DOMAIN w : seen[v] \in UnitRecords
  BY <1>1, <1>3 DEF AsOf, Snapshots
<1>5. \A e \in UnitRecords : Revoked(e) \in UnitRecords
  BY DEF UnitRecords, Revoked, Gone
<1>6. w[u].op # "create" => w[u].before \in UnitRecords
  BY <1>2, <1>3 DEF Writes
<1>7. \A b, a \in UnitRecords : Write("correct", b, a) \in Writes
  BY DEF Write, Writes
<1> DEFINE related == {v \in DOMAIN w \ {u} : seen[v].status \notin Gone}
           supersede == [v \in related \cup {u} |->
                            Write("correct", seen[v],
                                  IF v = u THEN w[u].before ELSE Revoked(seen[v]))]
<1>8. Correction(target, seen) =
         CASE w[u].op = "create" ->
                IF seen[u].status \in Gone THEN <<>>
                ELSE Correct(u, seen[u], Revoked(seen[u]))
          [] w[u].op = "supersede" -> supersede
          [] OTHER -> Correct(u, seen[u], w[u].before)
  BY DEF Correction
<1> HIDE DEF u, p, w
<1>9. CASE w[u].op = "create"
  <2>1. CASE seen[u].status \in Gone
    <3>1. Correction(target, seen) = <<>>
      BY <1>8, <1>9, <2>1
    <3>2. DOMAIN Correction(target, seen) = {}
      BY <3>1
    <3> QED
      BY <3>2
  <2>2. CASE seen[u].status \notin Gone
    <3>1. Correction(target, seen) = [v \in {u} |-> Write("correct", seen[u], Revoked(seen[u]))]
      BY <1>8, <1>9, <2>2 DEF Correct
    <3> QED
      BY <1>2, <1>3, <1>4, <1>5, <1>7, <3>1
  <2> QED
    BY <2>1, <2>2
<1>10. CASE w[u].op = "supersede"
  <2>1. Correction(target, seen) = supersede
    BY <1>8, <1>10
  <2>2. \A v \in related \cup {u} : v \in DOMAIN w /\ v \in Ids
    BY <1>2, <1>3
  <2>3. \A v \in related \cup {u} :
           (IF v = u THEN w[u].before ELSE Revoked(seen[v])) \in UnitRecords
    BY <1>4, <1>5, <1>6, <1>10, <2>2
  <2> HIDE DEF related
  <2>4. \A v \in related \cup {u} : supersede[v] \in Writes
    BY <1>4, <1>7, <2>2, <2>3
  <2> QED
    BY <1>3, <2>1, <2>2, <2>4
<1>11. CASE w[u].op \notin {"create", "supersede"}
  <2>1. Correction(target, seen) = [v \in {u} |-> Write("correct", seen[u], w[u].before)]
    BY <1>8, <1>11 DEF Correct
  <2> QED
    BY <1>2, <1>3, <1>4, <1>6, <1>7, <1>11, <2>1
<1> QED
  BY <1>9, <1>10, <1>11

LEMMA HeadJob ==
    ASSUME IInv, jobs # <<>>
    PROVE  /\ Head(jobs) \in JobRecords /\ Asked(log, Head(jobs))
           /\ Tail(jobs) \in Seq(JobRecords)
           /\ \A i \in DOMAIN Tail(jobs) : \E j \in DOMAIN jobs : Tail(jobs)[i] = jobs[j]
<1>1. jobs \in Seq(JobRecords) /\ Head(jobs) = jobs[1] /\ 1 \in DOMAIN jobs
  BY AllFine
<1>2. Head(jobs) \in JobRecords
  BY <1>1
<1>3. Tail(jobs) \in Seq(JobRecords)
      /\ \A i \in DOMAIN Tail(jobs) : i + 1 \in DOMAIN jobs /\ Tail(jobs)[i] = jobs[i + 1]
  BY <1>1
<1> QED
  BY <1>1, <1>2, <1>3 DEF IInv, JobsAsk

LEMMA CorrectFirstKeeps == ASSUME IInv, CorrectFirst  PROVE IInv'
<1> DEFINE job == Head(jobs)
           ds == Corrections(job)
           r == [worker EXCEPT !.phase = "corrected", !.time = job.time]
<1>1. /\ jobs # <<>> /\ Apply(ds) /\ worker' = r
      /\ UNCHANGED <<kind, issued, turn, jobs, ending, turns, endings, restarts>>
  BY DEF CorrectFirst
<1>2. job \in JobRecords /\ Asked(log, job)
  BY <1>1, HeadJob
<1> HIDE DEF job
<1>3. /\ DOMAIN job.selected = 1..Len(job.selected) /\ Len(job.selected) \in Nat
      /\ job.at \in Nat /\ job.time \in Nat /\ job.at \in 0..Len(log) /\ AsOf(log, job.seen, job.at)
      /\ \A i \in DOMAIN job.selected :
            /\ TargetsIn(log, job.at, job.time, job.selected[i])
            /\ job.selected[i] \in [place : Nat, unit : Ids]
  <2> DEFINE R == [place : Nat, unit : Ids]
  <2>1. job.at \in Nat /\ job.time \in Nat /\ job.selected \in Seq(R)
    BY <1>2 DEF JobRecords
  <2> HIDE DEF R
  <2>2. /\ DOMAIN job.selected = 1..Len(job.selected) /\ Len(job.selected) \in Nat
        /\ \A i \in DOMAIN job.selected : job.selected[i] \in R
    BY <2>1
  <2>3. /\ job.at \in 0..Len(log) /\ AsOf(log, job.seen, job.at)
        /\ \A i \in DOMAIN job.selected : TargetsIn(log, job.at, job.time, job.selected[i])
    BY <1>2 DEF Asked, AsOf
  <2> QED
    BY <2>1, <2>2, <2>3 DEF R
<1>4. ASSUME NEW i \in DOMAIN job.selected
      PROVE  /\ ds[i].writes = Correction(job.selected[i], job.seen)
             /\ ds[i].at = job.at /\ ds[i].time = job.time /\ ds[i].blind = FALSE
             /\ ds[i].corrects = job.selected[i] /\ IsCorrection(ds[i])
  <2>1. /\ ds[i].writes = Correction(job.selected[i], job.seen)
        /\ ds[i].at = job.at /\ ds[i].time = job.time /\ ds[i].blind = FALSE
        /\ ds[i].corrects = job.selected[i]
    BY DEF Corrections, Decision
  <2>2. job.selected[i].place # 0
    BY <1>3 DEF TargetsIn
  <2> QED
    BY <2>1, <2>2 DEF IsCorrection, NoTarget
<1>5. DOMAIN ds = 1..Len(job.selected)
  BY <1>3 DEF Corrections
<1>6. AreDecisions(ds)
  <2>1. \A i \in DOMAIN ds :
          /\ DOMAIN ds[i].writes \subseteq Ids
          /\ \A u \in DOMAIN ds[i].writes : ds[i].writes[u] \in Writes
          /\ ds[i].at \in Nat /\ ds[i].time \in Nat /\ ds[i].blind \in BOOLEAN
          /\ ds[i].corrects \in [place : Nat, unit : Nat]
    <3> HIDE DEF ds
    <3>1. ASSUME NEW i \in DOMAIN job.selected
          PROVE  /\ DOMAIN ds[i].writes \subseteq Ids
                 /\ \A u \in DOMAIN ds[i].writes : ds[i].writes[u] \in Writes
                 /\ ds[i].corrects \in [place : Nat, unit : Nat]
      <4>1. TargetsIn(log, job.at, job.time, job.selected[i]) /\ AreDecisions(log)
        BY <1>3, AllFine
      <4>2. /\ DOMAIN Correction(job.selected[i], job.seen) \subseteq Ids
            /\ \A u \in DOMAIN Correction(job.selected[i], job.seen) :
                  Correction(job.selected[i], job.seen)[u] \in Writes
        BY <1>3, <4>1, CorrectionWrites
      <4>3. job.selected[i] \in [place : Nat, unit : Nat]
        BY <1>3, Constants
      <4> QED
        BY <1>4, <4>2, <4>3
    <3> QED
      BY <1>3, <1>4, <1>5, <3>1
  <2>2. ds \in Seq({ds[i] : i \in DOMAIN ds})
    <3>1. ds = [i \in 1..Len(job.selected) |-> ds[i]]
      BY <1>3 DEF Corrections
    <3> DEFINE S == {ds[i] : i \in DOMAIN ds}
    <3>2. \A i \in 1..Len(job.selected) : ds[i] \in S
      BY <1>5
    <3> HIDE DEF ds, S
    <3>3. [i \in 1..Len(job.selected) |-> ds[i]] \in Seq(S)
      BY <1>3, <3>2
    <3> QED
      BY <3>1, <3>3 DEF S
  <2> QED
    BY <2>1, <2>2 DEF AreDecisions
<1>7. IdsIssued(ds, issued)
  <2>1. ASSUME NEW i \in DOMAIN ds, NEW u \in DOMAIN ds[i].writes
        PROVE  u <= issued
    <3> HIDE DEF ds
    <3>1. TargetsIn(log, job.at, job.time, job.selected[i]) /\ AreDecisions(log)
      BY <1>3, <1>5, AllFine
    <3>2. u \in DOMAIN Correction(job.selected[i], job.seen)
      BY <1>3, <1>4, <1>5
    <3>3. \E j \in 1..job.at : Touches(log[j], u)
      BY <1>3, <3>1, <3>2, CorrectionWrites
    <3>4. \E j \in DOMAIN log : Touches(log[j], u)
      BY <1>3, <3>3, AllFine
    <3> QED
      BY <3>4, AllFine DEF IdsIssued, Touches
  <2> QED
    BY <2>1 DEF IdsIssued
<1>8. StoreKept
  <2>1. \A i \in DOMAIN ds :
          /\ IsCorrection(ds[i]) /\ ds[i].at \in 0..Len(log)
          /\ TargetsIn(log, ds[i].at, ds[i].time, ds[i].corrects)
    BY <1>3, <1>4, <1>5
  <2> HIDE DEF ds
  <2> QED
    BY <1>1, <1>6, <1>7, <2>1, ApplyKeeps
<1>9. Fine(kind', units', log', issued', r, WorkerPhases, WorkerReads)
  <2>1. Fine(kind, units, log, issued, worker, WorkerPhases, WorkerReads)
    BY AllFine
  <2>2. AllWait(kind', units', log', issued', worker.ds)
    BY <1>8, <2>1 DEF Fine, IsConsolidation, StoreKept
  <2>3. r \in [phase : WorkerPhases, time : Nat, seen : [Ids -> Snapshots] \cup {<<>>}, at : Nat,
               ds : {r.ds}] /\ r.ds = worker.ds /\ r.phase = "corrected"
    BY <1>3, <2>1 DEF Fine, IsConsolidation, WorkerPhases
  <2> QED
    BY <2>1, <2>2, <2>3 DEF Fine, IsConsolidation, WorkerReads
<1> HIDE DEF r, ds
<1>10. turn' \in [Turns -> {turn'[s] : s \in Turns}] /\ \A s \in Turns : turn'[s] = turn[s]
  BY <1>1 DEF IInv, TypeOK
<1> QED
  BY <1>1, <1>8, <1>9, <1>10, AllFine, JobsStay, Kept

\* A step of the worker that changes nothing else.
LEMMA WorkerTurns ==
    ASSUME IInv, StoreKept,
           Fine(kind', units', log', issued', worker', WorkerPhases, WorkerReads),
           issued' \in 0..MaxUnits, UNCHANGED <<kind, turn, ending, turns, endings, restarts>>,
           \/ jobs' = jobs /\ worker.phase # "idle"
           \/ jobs # <<>> /\ jobs' = Tail(jobs) /\ worker'.phase = "idle"
    PROVE  IInv'
<1>1. turn' \in [Turns -> {turn'[s] : s \in Turns}] /\ \A s \in Turns : turn'[s] = turn[s]
  BY DEF IInv, TypeOK
<1>2. /\ jobs' \in Seq(JobRecords)
      /\ \A i \in DOMAIN jobs' : \E j \in DOMAIN jobs : jobs'[i] = jobs[j]
  BY JobsStay, HeadJob
<1>3. worker'.phase # "idle" => jobs' # <<>>
  BY DEF IInv, Working
<1> QED
  BY <1>1, <1>2, <1>3, AllFine, Kept

LEMMA SkipReflectionKeeps == ASSUME IInv, SkipReflection  PROVE IInv'
<1>1. /\ jobs # <<>> /\ jobs' = Tail(jobs) /\ worker' = Resting
      /\ UNCHANGED <<kind, units, issued, log, turn, ending, turns, endings, restarts>>
  BY DEF SkipReflection, IInv, Working
<1>2. StoreKept
  BY <1>1, AllFine, StoreStays
<1> QED
  BY <1>1, <1>2, AllFine, RestingIsFine, WorkerTurns DEF Resting

LEMMA ReflectReadKeeps == ASSUME IInv, ReflectRead  PROVE IInv'
<1> DEFINE r == [worker EXCEPT !.phase = "summaries", !.seen = units, !.at = Len(log)]
<1>1. /\ worker.phase # "idle" /\ worker' = r
      /\ UNCHANGED <<kind, units, issued, log, turn, jobs, ending, turns, endings, restarts>>
  BY DEF ReflectRead
<1>2. StoreKept
  BY <1>1, AllFine, StoreStays
<1>3. Fine(kind, units, log, issued, r, WorkerPhases, WorkerReads)
  <2>1. Fine(kind, units, log, issued, worker, WorkerPhases, WorkerReads)
    BY AllFine
  <2> QED
    BY <2>1, AllFine DEF Fine, IsConsolidation, WorkerPhases
<1> HIDE DEF r
<1> QED
  BY <1>1, <1>2, <1>3, AllFine, WorkerTurns

\* The worker with one more decision.
LEMMA WorkerAdds ==
    ASSUME IInv, NEW d, NEW phase \in WorkerPhases, AreDecisions(Append(worker.ds, d)),
           NEW m, AllWait(kind, units, log, m, Append(worker.ds, d)),
           phase \in WorkerReads => AsOf(log, worker.seen, worker.at)
    PROVE  Fine(kind, units, log, m, [worker EXCEPT !.phase = phase, !.ds = Append(worker.ds, d)],
                WorkerPhases, WorkerReads)
<1> DEFINE e == Append(worker.ds, d)
           r == [worker EXCEPT !.phase = phase, !.ds = e]
<1> HIDE DEF e
<1>1. Fine(kind, units, log, issued, worker, WorkerPhases, WorkerReads)
  BY AllFine
<1>2. r \in [phase : WorkerPhases, time : Nat, seen : [Ids -> Snapshots] \cup {<<>>}, at : Nat,
             ds : {r.ds}] /\ r.ds = e /\ r.phase = phase /\ r.seen = worker.seen
      /\ r.at = worker.at
  BY <1>1 DEF Fine, IsConsolidation
<1>3. Fine(kind, units, log, m, r, WorkerPhases, WorkerReads)
  <2> HIDE DEF r
  <2> QED
    BY <1>2 DEF Fine, IsConsolidation, e
<1> QED
  BY <1>3 DEF e

LEMMA ReflectSummaryKeeps == ASSUME IInv, ReflectSummary  PROVE IInv'
<1>1. /\ Fine(kind, units, log, issued, worker, WorkerPhases, WorkerReads)
      /\ worker.time \in Nat /\ worker.phase = "summaries"
      /\ UNCHANGED <<kind, units, log, turn, jobs, ending, turns, endings, restarts>>
  BY AllFine DEF Fine, IsConsolidation, ReflectSummary
<1>2. PICK c \in Proposals : \E d \in Resolved(c, worker.time) :
         /\ worker' = [worker EXCEPT !.ds = Append(@, d)]
         /\ issued' = IssuedBy(d)
  BY DEF ReflectSummary
<1>3. PICK d \in Resolved(c, worker.time) :
         /\ worker' = [worker EXCEPT !.ds = Append(@, d)]
         /\ issued' = IssuedBy(d)
  BY <1>2
<1>4. /\ AreDecisions(<<d>>) /\ issued' \in 0..MaxUnits /\ issued' \in Nat /\ issued <= issued'
      /\ Honest(log, issued', d) /\ (~d.blind => Keeps(kind, units, d.writes))
  <2>1. IssuedBy(d) \in 0..MaxUnits /\ issued <= IssuedBy(d)
    BY <1>1, ResolvedWaits
  <2> QED
    BY <1>1, <1>3, <2>1, ResolvedWaits, Constants
<1>5. AreDecisions(Append(worker.ds, d))
      /\ AllWait(kind, units, log, issued', Append(worker.ds, d))
  BY <1>1, <1>4, OneMoreWaits DEF Fine, IsConsolidation
<1>6. Fine(kind', units', log', issued', worker', WorkerPhases, WorkerReads)
  <2>1. worker' = [worker EXCEPT !.phase = "summaries", !.ds = Append(worker.ds, d)]
    <3> DEFINE e == Append(worker.ds, d)
    <3>1. worker' = [worker EXCEPT !.ds = e]
      BY <1>3
    <3> HIDE DEF e
    <3>2. worker' = [worker EXCEPT !.phase = "summaries", !.ds = e]
      BY <1>1, <3>1 DEF Fine, IsConsolidation
    <3> QED
      BY <3>2 DEF e
  <2>2. AsOf(log, worker.seen, worker.at)
    BY <1>1 DEF Fine, WorkerReads
  <2> QED
    BY <1>1, <1>5, <2>1, <2>2, WorkerAdds DEF WorkerPhases
<1>7. StoreKept
  BY <1>1, <1>4, StoreStays
<1> QED
  BY <1>1, <1>4, <1>6, <1>7, WorkerTurns

\* A change the worker makes of a unit it has seen.
LEMMA ReflectKeeps ==
    ASSUME IInv, NEW u \in Ids, NEW phase \in WorkerReads, NEW op \in {"reinforce", "dormant"},
           NEW after \in UnitRecords, worker.phase \in WorkerReads,
           worker.seen[u].status \in Active, after.object = worker.seen[u].object,
           Reflect(phase, u, op, after),
           UNCHANGED <<kind, units, issued, log, turn, jobs, ending, turns, endings, restarts>>
    PROVE  IInv'
<1> DEFINE w == [v \in {u} |-> Write(op, worker.seen[u], after)]
           d == Decision(w, worker.at, worker.time, FALSE)
<1>1. /\ Fine(kind, units, log, issued, worker, WorkerPhases, WorkerReads)
      /\ AsOf(log, worker.seen, worker.at) /\ worker.seen \in [Ids -> Snapshots]
      /\ worker.at \in Nat /\ worker.time \in Nat /\ worker.phase # "idle"
  BY AllFine DEF Fine, IsConsolidation, WorkerReads, AsOf
<1>2. worker' = [worker EXCEPT !.phase = phase, !.ds = Append(worker.ds, d)]
  BY DEF Reflect
<1>3. worker.seen[u] \in UnitRecords
  BY <1>1 DEF Snapshots, Absent, Active
<1>4. DOMAIN w = {u} /\ DOMAIN w \subseteq Ids /\ w[u] \in Writes /\ w[u].after = after
  BY <1>3 DEF Write, Writes
<1> HIDE DEF w
<1>5. /\ AreDecisions(<<d>>) /\ d.writes = w /\ d.at = worker.at
  <2>1. \A v \in DOMAIN w : w[v] \in Writes
    BY <1>4
  <2>2. worker.at \in Nat /\ worker.time \in Nat /\ DOMAIN w \subseteq Ids
    BY <1>1, <1>4
  <2> HIDE DEF d
  <2>3. d = Decision(w, worker.at, worker.time, FALSE)
    BY DEF d
  <2>4. /\ AreDecisions(<<Decision(w, worker.at, worker.time, FALSE)>>)
        /\ Decision(w, worker.at, worker.time, FALSE).writes = w
        /\ Decision(w, worker.at, worker.time, FALSE).at = worker.at
    BY ONLY <2>1, <2>2, SingleInSight, Zenon
  <2> QED
    BY ONLY <2>3, <2>4, Zenon
<1> HIDE DEF d
<1>6. Honest(log, issued, d)
  <2>1. worker.seen[u] # Absent /\ worker.seen[u].status \notin Gone
    BY DEF Absent, Active, Gone
  <2>2. \A v \in DOMAIN w : worker.seen[v] # Absent
           /\ (w[v].after.status \in Revivable => worker.seen[v].status \notin Gone)
    BY ONLY <1>4, <2>1
  <2>3. Honest(log, issued, Decision(w, worker.at, worker.time, FALSE))
    <3>1. /\ AreDecisions(log) /\ IdsIssued(log, issued) /\ issued \in Nat
          /\ AsOf(log, worker.seen, worker.at) /\ DOMAIN w \subseteq Ids
      BY <1>1, <1>4, AllFine
    <3> QED
      BY ONLY <2>2, <3>1, SeenAgain
  <2> QED
    BY ONLY <2>3 DEF d
<1>7. ASSUME d.at = Len(log)  PROVE Keeps(kind, units, d.writes)
  <2>1. worker.seen = units
    BY <1>1, <1>5, <1>7, AllFine, AsOfUnique
  <2>2. \A v \in DOMAIN w : units[v].status \in Revivable /\ w[v].after.object = units[v].object
    BY <1>4, <2>1 DEF Revivable
  <2> QED
    BY <1>4, <1>5, <2>2, AllFine, ChangesKeep
<1>8. /\ AreDecisions(Append(worker.ds, d))
      /\ AllWait(kind, units, log, issued, Append(worker.ds, d))
  BY <1>1, <1>5, <1>6, <1>7, AllFine, OneMoreWaits DEF Fine, IsConsolidation
<1>9. Fine(kind', units', log', issued', worker', WorkerPhases, WorkerReads)
  BY <1>1, <1>2, <1>8, WorkerAdds DEF WorkerPhases, WorkerReads
<1>10. StoreKept
  BY AllFine, StoreStays
<1> QED
  BY <1>1, <1>9, <1>10, AllFine, WorkerTurns

LEMMA ReflectConfirmKeeps == ASSUME IInv, NEW u \in Ids, ReflectConfirm(u)  PROVE IInv'
<1> DEFINE after == [worker.seen[u] EXCEPT !.status = "confirmed"]
<1>1. /\ worker.phase = "summaries" /\ worker.seen[u].status = "inferred"
      /\ Reflect("summaries", u, "reinforce", after)
      /\ UNCHANGED <<kind, units, issued, log, turn, jobs, ending, turns, endings, restarts>>
  BY DEF ReflectConfirm
<1>2. worker.seen[u] \in UnitRecords
  BY <1>1, AllFine DEF Fine, WorkerReads, AsOf, Snapshots, Absent
<1>3. after \in UnitRecords /\ after.object = worker.seen[u].object
  BY <1>2 DEF UnitRecords, Revivable, Active
<1> HIDE DEF after
<1> QED
  BY <1>1, <1>3, ReflectKeeps DEF WorkerReads, Active

LEMMA ReflectDormantKeeps == ASSUME IInv, NEW u \in Ids, ReflectDormant(u)  PROVE IInv'
<1>1. /\ worker.phase \in WorkerReads /\ worker.seen[u].status \in Active
      /\ Reflect("dormant", u, "dormant", Dormant(worker.seen[u]))
      /\ UNCHANGED <<kind, units, issued, log, turn, jobs, ending, turns, endings, restarts>>
  BY DEF ReflectDormant, WorkerReads
<1>2. worker.seen[u] \in UnitRecords
  BY <1>1, AllFine DEF Fine, AsOf, Snapshots, Absent, Active
<1>3. Dormant(worker.seen[u]) \in UnitRecords
      /\ Dormant(worker.seen[u]).object = worker.seen[u].object
  BY <1>2 DEF UnitRecords, Dormant, Revivable
<1> QED
  BY <1>1, <1>3, ReflectKeeps DEF WorkerReads

LEMMA PersistReflectionKeeps == ASSUME IInv, PersistReflection  PROVE IInv'
<1>1. /\ jobs # <<>> /\ jobs' = Tail(jobs) /\ worker' = Resting /\ Apply(worker.ds)
      /\ UNCHANGED <<kind, issued, turn, ending, turns, endings, restarts>>
  BY DEF PersistReflection, IInv, Working
<1>2. Fine(kind, units, log, issued, worker, WorkerPhases, WorkerReads)
  BY AllFine
<1>3. StoreKept
  BY <1>1, <1>2, WaitingIsIssued, ApplyKeeps DEF Fine, IsConsolidation
<1> QED
  BY <1>1, <1>3, AllFine, RestingIsFine, WorkerTurns DEF Resting

\* A step of the run that ends.
LEMMA EndTurns ==
    ASSUME IInv, StoreKept, Fine(kind', units', log', issued', ending', EndPhases, {}),
           endings' \in Nat, UNCHANGED <<kind, issued, turn, jobs, worker, turns, restarts>>
    PROVE  IInv'
<1>1. turn' \in [Turns -> {turn'[s] : s \in Turns}] /\ \A s \in Turns : turn'[s] = turn[s]
  BY DEF IInv, TypeOK
<1>2. worker'.phase # "idle" => jobs' # <<>>
  BY DEF IInv, Working
<1> QED
  BY <1>1, <1>2, AllFine, JobsStay, Kept

LEMMA EndReadKeeps == ASSUME IInv, EndRead  PROVE IInv'
<1>1. PICK S \in SUBSET {u \in Stored : units[u].commit = "open"} :
         ending' = [ending EXCEPT
             !.phase = "read",
             !.ds = <<Decision([u \in S |-> Write("refine", units[u],
                                   [units[u] EXCEPT !.commit = "done"])],
                               Len(log), Now, FALSE)>>]
  BY DEF EndRead
<1> DEFINE w == [u \in S |-> Write("refine", units[u], [units[u] EXCEPT !.commit = "done"])]
           d == Decision(w, Len(log), Now, FALSE)
<1>2. /\ UNCHANGED <<kind, units, issued, log, turn, jobs, worker, turns, restarts>>
      /\ endings' \in Nat /\ Now \in Nat
  BY AllFine DEF EndRead, Now
<1>3. \A u \in S : u \in Ids /\ units[u] \in UnitRecords
  BY AllFine DEF Stored, Snapshots
<1>4. \A e \in UnitRecords : LET f == [e EXCEPT !.commit = "done"]
                             IN  f \in UnitRecords /\ f.object = e.object /\ f.status = e.status
  BY DEF UnitRecords, Commitments
<1>5. \A u \in DOMAIN w : /\ u \in Ids /\ units[u] \in UnitRecords /\ w[u] \in Writes
                          /\ w[u].after.object = units[u].object
                          /\ w[u].after.status = units[u].status
  BY <1>3, <1>4 DEF Write, Writes
<1>6. ending' = [ending EXCEPT !.phase = "read", !.ds = <<d>>]
  BY <1>1
<1> HIDE DEF w
<1>7. DOMAIN w \subseteq Ids
  BY <1>5
<1>8. AreDecisions(<<d>>) /\ d.writes = w
  <2>1. /\ Len(log) \in Nat /\ Now \in Nat
        /\ \A u \in DOMAIN w : w[u] \in Writes
    BY <1>2, <1>5, AllFine
  <2>2. /\ AreDecisions(<<Decision(w, Len(log), Now, FALSE)>>)
        /\ Decision(w, Len(log), Now, FALSE).writes = w
    BY ONLY <1>7, <2>1, SingleInSight, Zenon
  <2> QED
    BY ONLY <2>2
<1>9. Honest(log, issued, d)
  <2>1. \A u \in DOMAIN w : /\ units[u] # Absent
                            /\ w[u].after.status \in Revivable => units[u].status \notin Gone
    BY <1>5 DEF UnitRecords, Absent, Revivable, Active, Gone
  <2>2. /\ AreDecisions(log) /\ IdsIssued(log, issued) /\ issued \in Nat
        /\ AsOf(log, units, Len(log))
    BY AllFine
  <2>3. Honest(log, issued, Decision(w, Len(log), Now, FALSE))
    BY ONLY <1>7, <2>1, <2>2, SeenAgain
  <2> QED
    BY ONLY <2>3
<1>10. Keeps(kind, units, d.writes)
  BY <1>5, <1>7, <1>8, AllFine, ChangesKeep
<1> HIDE DEF d
<1>11. AllWait(kind, units, log, issued, <<d>>)
  BY <1>9, <1>10 DEF AllWait, Waits
<1>12. Fine(kind, units, log, issued, ending', EndPhases, {})
  <2> DEFINE e == <<d>>
  <2>1. ending' = [ending EXCEPT !.phase = "read", !.ds = e]
    BY <1>6
  <2> HIDE DEF e
  <2>2. ending' \in [phase : EndPhases, time : Nat, seen : [Ids -> Snapshots] \cup {<<>>},
                     at : Nat, ds : {ending'.ds}] /\ ending'.ds = e
    BY <2>1, AllFine DEF Fine, IsConsolidation, EndPhases
  <2> QED
    BY <1>8, <1>11, <2>2 DEF Fine, IsConsolidation, e
<1>13. StoreKept
  BY <1>2, AllFine, StoreStays
<1> QED
  BY <1>2, <1>12, <1>13, EndTurns

LEMMA EndPersistKeeps == ASSUME IInv, EndPersist  PROVE IInv'
<1>1. /\ Apply(ending.ds) /\ ending' = Resting
      /\ UNCHANGED <<kind, issued, turn, jobs, worker, turns, endings, restarts>>
  BY DEF EndPersist
<1>2. Fine(kind, units, log, issued, ending, EndPhases, {})
  BY AllFine
<1>3. StoreKept
  BY <1>1, <1>2, WaitingIsIssued, ApplyKeeps DEF Fine, IsConsolidation
<1> QED
  BY <1>1, <1>3, AllFine, RestingIsFine, EndTurns

LEMMA RestartKeeps == ASSUME IInv, Restart  PROVE IInv'
<1>1. /\ turn' = [t \in Turns |-> Resting] /\ worker' = Resting /\ ending' = Resting
      /\ restarts' \in Nat /\ UNCHANGED <<kind, units, issued, log, jobs, turns, endings>>
  BY AllFine DEF Restart
<1>2. StoreKept
  BY <1>1, AllFine, StoreStays
<1>3. turn' \in [Turns -> {turn'[t] : t \in Turns}]
  BY <1>1
<1> QED
  BY <1>1, <1>2, <1>3, AllFine, JobsStay, RestingIsFine, Kept DEF Resting

LEMMA StutterKeeps == ASSUME IInv, UNCHANGED vars  PROVE IInv'
<1>1. StoreKept
  BY AllFine, StoreStays DEF vars
<1>2. ending' = ending /\ Fine(kind', units', log', issued', ending', EndPhases, {})
  BY AllFine DEF vars
<1> QED
  BY <1>1, <1>2, AllFine, EndTurns DEF vars

LEMMA NextKeeps == IInv /\ [Next]_vars => IInv'
<1> SUFFICES ASSUME IInv, [Next]_vars  PROVE IInv'
  OBVIOUS
<1>1. ASSUME NEW t \in Turns,
             \/ Finish(t) \/ Prepare(t) \/ Resolve(t) \/ PersistTurn(t) \/ TurnFails(t)
             \/ QueueJob(t)
      PROVE  IInv'
  BY <1>1, FinishKeeps, PrepareKeeps, ResolveKeeps, PersistTurnKeeps, TurnFailsKeeps,
     QueueJobKeeps
<1>2. ASSUME CorrectFirst \/ SkipReflection \/ ReflectRead \/ ReflectSummary \/ PersistReflection
      PROVE  IInv'
  BY <1>2, CorrectFirstKeeps, SkipReflectionKeeps, ReflectReadKeeps, ReflectSummaryKeeps,
     PersistReflectionKeeps
<1>3. ASSUME NEW u \in Ids, ReflectConfirm(u) \/ ReflectDormant(u)  PROVE IInv'
  BY <1>3, ReflectConfirmKeeps, ReflectDormantKeeps
<1>4. ASSUME EndRead \/ EndPersist \/ Restart  PROVE IInv'
  BY <1>4, EndReadKeeps, EndPersistKeeps, RestartKeeps
<1> QED
  BY <1>1, <1>2, <1>3, <1>4, StutterKeeps DEF Next

THEOREM Invariance == Spec => []IInv
<1>1. Init => IInv
  BY InitIInv
<1>2. IInv /\ [Next]_vars => IInv'
  BY NextKeeps
<1> QED
  BY <1>1, <1>2, PTL DEF Spec

-----------------------------------------------------------------------------
(* The properties.                                                         *)

\* The units, the log, the jobs and all that is in hand keep their types.
THEOREM TypeCorrect == Spec => []TypeOK
<1>1. IInv => TypeOK
  BY DEF IInv
<1> QED
  BY <1>1, Invariance, PTL

\* A superseded or revoked unit is revived by a correction, or by a write whose
\* unit was read before it went (_apply_memory_action writes whole records).
THEOREM DeadStayGone == Spec => []DeadStayDead
<1>1. IInv => DeadStayDead
  BY IInvProperties
<1> QED
  BY <1>1, Invariance, PTL

\* A correction undoes the newest change of its unit that was there to choose.
THEOREM CorrectionsAreNewest == Spec => []CorrectsTheNewest
<1>1. IInv => CorrectsTheNewest
  BY IInvProperties
<1> QED
  BY <1>1, Invariance, PTL

\* Memories of one key are distinct as long as candidates are resolved with all
\* the units in sight and applied before anything else is.
THEOREM MemoriesStayDistinct == Spec => []MemoriesDistinct
<1>1. IInv => MemoriesDistinct
  BY IInvProperties
<1> QED
  BY <1>1, Invariance, PTL

=============================================================================
