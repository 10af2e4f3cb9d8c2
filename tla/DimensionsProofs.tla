-------------------------- MODULE DimensionsProofs --------------------------
(***************************************************************************)
(* Proofs about Dimensions for any identities, version ids, states and     *)
(* bound on time: the ranges of an identity are ordered, a read of a time  *)
(* has one answer, and no write changes an answer given before.            *)
(***************************************************************************)
EXTENDS Dimensions, NaturalsInduction, WellFoundedInduction, TLAPS

\* A well-founded order on the naturals that contains < yields least elements.
LEMMA LeastOf ==
  ASSUME NEW R, IsWellFoundedOn(R, Nat), \A a, b \in Nat : a < b => <<a, b>> \in R,
         NEW T, T \subseteq Nat, T # {}
  PROVE  \E m \in T : \A k \in T : m <= k
<1>1. PICK m \in T : \A k \in T : ~(<<k, m>> \in R)
  BY WFMin, ZenonT(60)
<1>2. \A k \in T : ~(k < m)
  BY <1>1
<1> QED
  BY <1>2

\* A set of naturals has a least element: induction over the statements of a batch goes by
\* the least number that fails, and a finite order has a last element.
LEMMA Least ==
  ASSUME NEW T, T \subseteq Nat, T # {}
  PROVE  \E m \in T : \A k \in T : m <= k
<1>1. IsWellFoundedOn(OpToRel(<, Nat), Nat)
  BY NatLessThanWellFounded
<1>2. \A a, b \in Nat : a < b => <<a, b>> \in OpToRel(<, Nat)
  BY DEF OpToRel
<1> QED
  BY <1>1, <1>2, LeastOf

\* Of two rows of an identity the open one has the higher number, so a new number is
\* above all of them.
LEMMA OpenIsLast ==
  ASSUME DimensionsTypeOK, RangesOrdered,
         NEW v \in versions, v.to = Open,
         NEW w \in versions, w.of = v.of, w # v
  PROVE  w.num < v.num /\ w.to # Open /\ w.to <= v.from
<1>1. v.num \in Nat /\ w.num \in Nat
  BY DEF DimensionsTypeOK, Versions
<1>2. w.num # v.num /\ ~(v.num < w.num)
  BY DEF RangesOrdered
<1>3. w.num < v.num
  BY <1>1, <1>2
<1> QED
  BY <1>3 DEF RangesOrdered

\* What a step of PutVersion can be: nothing, a first version, or a version after the
\* open one.
LEMMA PutVersionCases ==
  ASSUME NEW i, NEW id, NEW s, NEW t, PutVersion(i, id, s, t)
  PROVE  \/ UNCHANGED versions
         \/ FirstVersion(i, id, s, t)
         \/ NextVersion(i, id, s, t)
  BY DEF PutVersion, SameVersion, LateVersion, PutFails

\* FirstVersion keeps the invariant: the identity had no row at all.
LEMMA FirstVersionInv ==
  ASSUME DimensionsInv, NEW i \in Identities, NEW id \in VersionIDs, NEW s \in States, NEW t \in Times,
         FirstVersion(i, id, s, t)
  PROVE  DimensionsInv'
<1> DEFINE n == Row(i, 1, id, s, t)
<1> USE DimensionsAssumption
<1>1. n = [of |-> i, num |-> 1, id |-> id, state |-> s, from |-> t, to |-> Open]
  BY DEF Row
<1>2. versions' = versions \cup {n} /\ Current(i) = {}
  BY DEF FirstVersion
<1>3. \A v \in versions : v.of # i
  BY <1>2 DEF DimensionsInv, HasCurrent
<1>4. n \in Versions
  BY <1>1 DEF Versions
<1>5. DimensionsTypeOK'
  BY <1>2, <1>4 DEF DimensionsInv, DimensionsTypeOK
<1>6. RangesOrdered'
  <2> SUFFICES ASSUME NEW v \in versions', NEW w \in versions'
               PROVE  /\ v.to # Open => v.from < v.to
                      /\ v.of = w.of /\ v.num = w.num => v = w
                      /\ v.of = w.of /\ v.num < w.num => v.to # Open /\ v.to <= w.from
    BY DEF RangesOrdered
  <2>1. CASE v \in versions /\ w \in versions
    BY <2>1 DEF DimensionsInv, RangesOrdered
  <2>2. CASE v = n /\ w \in versions
    BY <1>1, <1>3, <2>2
  <2>3. CASE v \in versions /\ w = n
    BY <1>1, <1>3, <2>3 DEF DimensionsInv, RangesOrdered
  <2>4. CASE v = n /\ w = n
    BY <1>1, <2>4
  <2> QED
    BY <1>2, <2>1, <2>2, <2>3, <2>4
<1>7. HasCurrent'
  BY <1>1, <1>2 DEF DimensionsInv, HasCurrent, Current
<1>8. AsOfDetermined'
  <2> SUFFICES ASSUME NEW j \in Identities, NEW u \in Times
               PROVE  /\ \A v, w \in AsOf(j, u)' : v = w
                      /\ (\E v \in versions' : v.of = j /\ v.from <= u) => AsOf(j, u)' # {}
    BY DEF AsOfDetermined
  <2>1. CASE j = i
    <3>1. AsOf(j, u)' \subseteq {n}
      BY <1>2, <1>3, <2>1 DEF AsOf
    <3>2. t <= u => n \in AsOf(j, u)'
      BY <1>1, <1>2, <2>1 DEF AsOf, Covers
    <3>3. \A v \in versions' : v.of = j => v = n
      BY <1>2, <1>3, <2>1
    <3> QED
      BY <1>1, <3>1, <3>2, <3>3
  <2>2. CASE j # i
    <3>1. AsOf(j, u)' = AsOf(j, u)
      BY <1>1, <1>2, <2>2 DEF AsOf, Covers
    <3>2. \A v \in versions' : v.of = j => v \in versions
      BY <1>1, <1>2, <2>2
    <3> QED
      BY <3>1, <3>2 DEF DimensionsInv, AsOfDetermined
  <2> QED
    BY <2>1, <2>2
<1> QED
  BY <1>5, <1>6, <1>7, <1>8 DEF DimensionsInv

\* NextVersion keeps the invariant: the open row is closed where the new one starts.
LEMMA NextVersionInv ==
  ASSUME DimensionsInv, NEW i \in Identities, NEW id \in VersionIDs, NEW s \in States, NEW t \in Times,
         NextVersion(i, id, s, t)
  PROVE  DimensionsInv'
<1> USE DimensionsAssumption
<1>1. PICK o \in versions :
        /\ o.of = i /\ o.to = Open /\ t > o.from
        /\ versions' = (versions \ {o}) \cup {[o EXCEPT !.to = t], Row(i, o.num + 1, id, s, t)}
  BY DEF NextVersion, Current, LaterThan
<1> DEFINE c == [o EXCEPT !.to = t]
           n == Row(i, o.num + 1, id, s, t)
           Old == versions \ {o}
<1>2. n = [of |-> i, num |-> o.num + 1, id |-> id, state |-> s, from |-> t, to |-> Open]
  BY DEF Row
<1>3. o \in Versions
  BY <1>1 DEF DimensionsInv, DimensionsTypeOK
<1>4. c = [of |-> i, num |-> o.num, id |-> o.id, state |-> o.state, from |-> o.from, to |-> t]
  BY <1>1, <1>3 DEF Versions
<1>5. versions' = Old \cup {c, n}
  BY <1>1
<1>6. o.num \in Nat /\ o.from \in Nat /\ t \in Nat /\ o.from < t /\ t # Open
  BY <1>1, <1>3 DEF Versions, Times
<1>7. \A w \in Old : w.of = i => w.num < o.num /\ w.to # Open /\ w.to <= o.from
  BY <1>1, OpenIsLast DEF DimensionsInv
<1>8. \A w \in Old : w \in Versions /\ w \in versions
  BY DEF DimensionsInv, DimensionsTypeOK
<1> HIDE DEF c, n
<1>9. DimensionsTypeOK'
  <2>1. c \in Versions
    BY <1>3, <1>4 DEF Versions
  <2>2. n \in Versions
    BY <1>2, <1>6 DEF Versions
  <2> QED
    BY <1>5, <1>8, <2>1, <2>2 DEF DimensionsTypeOK
<1>10. RangesOrdered'
  <2> SUFFICES ASSUME NEW v \in versions', NEW w \in versions'
               PROVE  /\ v.to # Open => v.from < v.to
                      /\ v.of = w.of /\ v.num = w.num => v = w
                      /\ v.of = w.of /\ v.num < w.num => v.to # Open /\ v.to <= w.from
    BY DEF RangesOrdered
  <2>1. CASE v \in Old /\ w \in Old
    BY <1>8, <2>1 DEF DimensionsInv, RangesOrdered
  <2>2. CASE v \in Old /\ w \in {c, n}
    <3>1. v.of = i => v.num < o.num /\ v.to # Open /\ v.to <= o.from
      BY <1>7, <2>2
    <3>2. v.to # Open => v.from < v.to
      BY <1>8, <2>2 DEF DimensionsInv, RangesOrdered
    <3>3. v.num \in Nat /\ v.to \in Times \cup {Open}
      BY <1>8, <2>2 DEF Versions
    <3> QED
      BY <1>2, <1>4, <1>6, <2>2, <3>1, <3>2, <3>3 DEF Times
  <2>3. CASE v \in {c, n} /\ w \in Old
    <3>1. w.of = i => w.num < o.num
      BY <1>7, <2>3
    <3>2. w.num \in Nat
      BY <1>8, <2>3 DEF Versions
    <3> QED
      BY <1>2, <1>4, <1>6, <2>3, <3>1, <3>2
  <2>4. CASE v \in {c, n} /\ w \in {c, n}
    BY <1>2, <1>4, <1>6, <2>4
  <2> QED
    BY <1>5, <2>1, <2>2, <2>3, <2>4
<1>11. HasCurrent'
  <2> SUFFICES ASSUME NEW v \in versions'
               PROVE  \E w \in versions' : w.of = v.of /\ w.to = Open
    BY DEF HasCurrent, Current
  <2>1. CASE v.of = i
    BY <1>2, <1>5, <2>1
  <2>2. CASE v.of # i
    <3>1. v \in versions
      BY <1>2, <1>4, <1>5, <2>2
    <3>2. PICK w \in versions : w.of = v.of /\ w.to = Open
      BY <3>1 DEF DimensionsInv, HasCurrent, Current
    <3> QED
      BY <1>1, <1>5, <2>2, <3>2
  <2> QED
    BY <2>1, <2>2
<1>12. AsOfDetermined'
  <2> SUFFICES ASSUME NEW j \in Identities, NEW u \in Times
               PROVE  /\ \A v, w \in AsOf(j, u)' : v = w
                      /\ (\E v \in versions' : v.of = j /\ v.from <= u) => AsOf(j, u)' # {}
    BY DEF AsOfDetermined
  <2>1. \A v, w \in AsOf(j, u)' : v = w
    <3> SUFFICES ASSUME NEW v \in AsOf(j, u)', NEW w \in AsOf(j, u)', v.num <= w.num
                 PROVE  v = w
      <4>1. \A v \in AsOf(j, u)' : v.num \in Nat
        BY <1>9 DEF AsOf, DimensionsTypeOK, Versions
      <4> QED
        BY <4>1
    <3>1. /\ v \in versions' /\ w \in versions' /\ v.of = w.of
          /\ w.from <= u /\ (v.to = Open \/ u < v.to)
      BY DEF AsOf, Covers
    <3>2. v.num \in Nat /\ w.num \in Nat /\ w.from \in Nat /\ v.to \in Nat \cup {Open} /\ u \in Nat
      BY <1>9, <3>1 DEF DimensionsTypeOK, Versions, Times
    <3>3. ~(v.num < w.num)
      BY <1>10, <3>1, <3>2 DEF RangesOrdered
    <3> QED
      BY <1>10, <3>1, <3>2, <3>3 DEF RangesOrdered
  <2>2. ASSUME NEW v \in versions', v.of = j, v.from <= u
        PROVE  AsOf(j, u)' # {}
    <3>1. CASE j = i /\ t <= u
      BY <1>2, <1>5, <3>1 DEF AsOf, Covers
    <3>2. CASE ~(j = i /\ t <= u)
      <4>1. \E w \in versions : w.of = j /\ w.from <= u
        BY <1>1, <1>2, <1>4, <1>5, <2>2, <3>2
      <4>2. PICK w \in versions : w.of = j /\ w.from <= u /\ (w.to = Open \/ u < w.to)
        BY <4>1 DEF DimensionsInv, AsOfDetermined, AsOf, Covers
      <4>3. CASE w # o
        BY <1>5, <4>2, <4>3 DEF AsOf, Covers
      <4>4. CASE w = o
        <5>1. u < t
          BY <1>1, <1>6, <3>2, <4>2, <4>4 DEF Times
        <5> QED
          BY <1>1, <1>4, <1>5, <4>2, <4>4, <5>1 DEF AsOf, Covers
      <4> QED
        BY <4>3, <4>4
    <3> QED
      BY <3>1, <3>2
  <2> QED
    BY <2>1, <2>2
<1> QED
  BY <1>9, <1>10, <1>11, <1>12 DEF DimensionsInv

\* The invariant holds in every reachable state: the ranges are ordered, every identity
\* with a row has an open one, and reads by time are determined.
THEOREM DimensionsInvariant == DimensionsSpec => []DimensionsInv
<1>1. DimensionsInit => DimensionsInv
  BY DEF DimensionsInit, DimensionsInv, DimensionsTypeOK, RangesOrdered, HasCurrent, AsOfDetermined, AsOf
<1>2. DimensionsInv /\ [DimensionsNext]_versions => DimensionsInv'
  <2> SUFFICES ASSUME DimensionsInv, [DimensionsNext]_versions
               PROVE  DimensionsInv'
    OBVIOUS
  <2>1. CASE UNCHANGED versions
    BY <2>1 DEF DimensionsInv, DimensionsTypeOK, RangesOrdered, HasCurrent, Current, AsOfDetermined, AsOf
  <2>2. CASE DimensionsNext
    <3>1. PICK i \in Identities, id \in VersionIDs, s \in States, t \in Times : PutVersion(i, id, s, t)
      BY <2>2 DEF DimensionsNext
    <3> QED
      BY <2>1, <3>1, PutVersionCases, FirstVersionInv, NextVersionInv
  <2> QED
    BY <2>1, <2>2
<1> QED
  BY <1>1, <1>2, PTL DEF DimensionsSpec

\* projectVersion and sourceVersion: at most one row answers for a time, and some row
\* does for every time since the first version.
THEOREM DimensionsAsOfDetermined == DimensionsSpec => []AsOfDetermined
<1>1. DimensionsInv => AsOfDetermined
  BY DEF DimensionsInv
<1> QED
  BY <1>1, DimensionsInvariant, PTL

\* PutProject and PutSource: a version that was found for a time is found again, but for
\* the end of its range, unless the version after it starts at or before that time.
THEOREM DimensionsHistoryKept == DimensionsSpec => HistoryKept
<1> DEFINE Kept(i, t, v) ==
             \/ \E w \in AsOf(i, t)' : w = [v EXCEPT !.to = w.to]
             \/ /\ v.to = Open
                /\ \E w \in AsOf(i, t)' : w.num = v.num + 1 /\ w.from > v.from
           AllKept == \A i \in Identities, t \in Times : \A v \in AsOf(i, t) : Kept(i, t, v)
<1>1. DimensionsInv /\ [DimensionsNext]_versions => [AllKept]_versions
  <2> USE DimensionsAssumption
  <2> SUFFICES ASSUME DimensionsInv, DimensionsNext,
                      NEW i \in Identities, NEW t \in Times, NEW v \in AsOf(i, t)
               PROVE  Kept(i, t, v)
    OBVIOUS
  <2>1. v \in versions /\ v.of = i /\ v.from <= t /\ (v.to = Open \/ t < v.to) /\ v \in Versions
    BY DEF AsOf, Covers, DimensionsInv, DimensionsTypeOK
  <2>2. v \in versions' => Kept(i, t, v)
    <3>1. v = [v EXCEPT !.to = v.to]
      BY <2>1 DEF Versions
    <3> QED
      BY <2>1, <3>1 DEF AsOf, Covers
  <2>3. PICK j \in Identities, id \in VersionIDs, s \in States, u \in Times : PutVersion(j, id, s, u)
    BY DEF DimensionsNext
  <2>4. CASE versions \subseteq versions'
    BY <2>1, <2>2, <2>4
  <2>5. CASE NextVersion(j, id, s, u)
    <3>1. PICK o \in versions :
            /\ o.of = j /\ o.to = Open /\ u > o.from
            /\ versions' = (versions \ {o}) \cup {[o EXCEPT !.to = u], Row(j, o.num + 1, id, s, u)}
      BY <2>5 DEF NextVersion, Current, LaterThan
    <3>2. CASE v # o
      BY <2>1, <2>2, <3>1, <3>2
    <3>3. CASE v = o
      <4>1. u \in Nat /\ t \in Nat /\ v.from \in Nat /\ u # Open
        BY <2>1 DEF Versions, Times
      <4>2. CASE t < u
        <5> DEFINE w == [v EXCEPT !.to = u]
        <5>1. w.of = i /\ w.from = v.from /\ w.to = u /\ w = [v EXCEPT !.to = w.to]
          BY <2>1 DEF Versions
        <5>2. w \in AsOf(i, t)'
          BY <2>1, <3>1, <3>3, <4>1, <4>2, <5>1 DEF AsOf, Covers
        <5> QED
          BY <5>1, <5>2
      <4>3. CASE ~(t < u)
        <5> DEFINE w == Row(j, v.num + 1, id, s, u)
        <5>1. w.of = i /\ w.num = v.num + 1 /\ w.from = u /\ w.to = Open
          BY <2>1, <3>1, <3>3 DEF Row
        <5>2. w \in AsOf(i, t)'
          BY <3>1, <3>3, <4>1, <4>3, <5>1 DEF AsOf, Covers
        <5> QED
          BY <2>1, <3>1, <3>3, <5>1, <5>2
      <4> QED
        BY <4>2, <4>3
    <3> QED
      BY <3>2, <3>3
  <2>6. FirstVersion(j, id, s, u) => versions \subseteq versions'
    BY DEF FirstVersion
  <2> QED
    BY <2>3, <2>4, <2>5, <2>6, PutVersionCases
<1> QED
  BY <1>1, DimensionsInvariant, PTL DEF DimensionsSpec, HistoryKept
=============================================================================
