---------------------------- MODULE Graph_proofs ----------------------------
(***************************************************************************)
(* What is watched of a hub, for any objects, roots and bounds: both ends  *)
(* of a remote graph, the client (GraphClient) and the watch of a root at  *)
(* the source (RootWatch), and the queue of traffic events that a watcher  *)
(* is sent (TrafficSubscription).  Every operation is first shown to keep  *)
(* the invariant of any state it is given, as its code does one thing      *)
(* after the other.                                                        *)
(***************************************************************************)
EXTENDS GraphClient, RootWatch, TrafficSubscription, FiniteSetTheorems, TLAPS

-----------------------------------------------------------------------------
(* The watch of a root (RootWatch).                                        *)

RootRef == GraphRoot \cup {NoRoot}

RootOp == {SendOp} \cup [kind : {"accept", "release"}, version : Version]

RootWatchType ==
    [published : RootRef, wanted : RootRef, queue : Seq(RootOp),
     step : {"idle", "retaining", "sending", "releasing"}, ref : RootRef, todo : Seq(Version),
     retained : Seq(Version), offered : [Version -> RootRef], issued : Nat, timers : SUBSET Version,
     sent : SUBSET Version, disposals : [Version -> Nat], settled : BOOLEAN]

\* The retained offers: in the order of their versions, and the newest one last.
RetainedInv(s) ==
    /\ s.issued <= MaxOffer
    /\ \A i \in 1..Len(s.retained) : s.retained[i] <= s.issued
    /\ \A i, j \in 1..Len(s.retained) : i < j => s.retained[i] < s.retained[j]
    /\ s.settled => s.retained = << >>
    /\ ~s.settled /\ s.issued # 0 => s.retained # << >> /\ s.retained[Len(s.retained)] = s.issued
    /\ s.step = "releasing" => s.todo # << >>
    /\ s.step = "sending" => s.issued # 0

\* The leases, of all versions there may be.
LeaseInv(s) ==
    /\ \A v \in Version : s.disposals[v] = IF v <= s.issued /\ v \notin Range(s.retained) THEN 1 ELSE 0
    /\ s.timers \subseteq Range(s.retained)

\* What was issued was sent, or is being sent, and what was released has a successor that was;
\* too many offers are retained only until the one that was sent has been followed by releases.
SentInv(s) ==
    ~s.settled =>
        /\ \A v \in Version : v <= s.issued => v \in s.sent \/ (s.step = "sending" /\ v = s.issued)
        /\ \A v \in Version : s.disposals[v] > 0 => v + 1 \in s.sent
        /\ s.step \in {"idle", "retaining"} => Len(s.retained) <= MaxSuperseded + 1
        /\ s.step = "sending" => Len(s.retained) <= MaxSuperseded + 2
        /\ s.step = "releasing" =>
             \/ Len(s.retained) <= MaxSuperseded + 1
             \/ Len(s.retained) = MaxSuperseded + 2 /\ s.todo[1] = s.retained[1]

\* The last root that was published is offered, or it is wanted and will be looked at.
NewestInv(s) ==
    ~s.settled =>
        /\ s.wanted = NoRoot => s.published = IF s.step = "retaining" THEN s.ref ELSE newest(s)
        /\ s.wanted # NoRoot => s.wanted = s.published /\ \E i \in 1..Len(s.queue) : s.queue[i].kind = "send"

RootWatchRest(s) == RetainedInv(s) /\ LeaseInv(s) /\ SentInv(s) /\ NewestInv(s)

RootWatchInv == rootWatch \in RootWatchType /\ RootWatchRest(rootWatch)

LEMMA Versions ==
    /\ \A v \in Version : v \in Nat /\ 0 < v /\ v <= MaxOffer
    /\ \A v \in Nat : 0 < v /\ v <= MaxOffer => v \in Version
    /\ MaxSuperseded \in Nat /\ MaxOffer \in Nat /\ NoRoot \notin GraphRoot
BY RootWatchAssumption DEF Version

LEMMA RangeIs ==
    ASSUME NEW q \in Seq(Version), NEW v
    PROVE  v \in Range(q) <=> \E i \in 1..Len(q) : q[i] = v
BY DEF Range

LEMMA VersionsJoined ==
    ASSUME NEW S, NEW a \in Seq(S), NEW b \in Seq(S)
    PROVE  a \o b \in Seq(S) /\ Len(a \o b) = Len(a) + Len(b)
OBVIOUS

LEMMA OfferRemoved ==
    ASSUME NEW q \in Seq(Version), NEW i \in 1..Len(q), i < Len(q),
           \A j, k \in 1..Len(q) : j < k => q[j] < q[k]
    PROVE  LET r == RemoveAt(q, i) IN
           /\ r \in Seq(Version) /\ Len(r) = Len(q) - 1 /\ r # << >> /\ r[Len(r)] = q[Len(q)]
           /\ \A j, k \in 1..Len(r) : j < k => r[j] < r[k]
           /\ Range(r) = Range(q) \ {q[i]}
           /\ r[1] \in Range(q)
<1> DEFINE r == RemoveAt(q, i)
<1> DEFINE a == SubSeq(q, 1, i - 1)
           b == SubSeq(q, i + 1, Len(q))
<1>a. a \in Seq(Version) /\ Len(a) = i - 1 /\ \A j \in 1..(i - 1) : a[j] = q[j] OBVIOUS
<1>b. b \in Seq(Version) /\ Len(b) = Len(q) - i /\ \A j \in 1..(Len(q) - i) : b[j] = q[i + j]
  OBVIOUS
<1>r. r = a \o b BY DEF RemoveAt
<1> HIDE DEF a, b, r
<1>c. a \o b \in Seq(Version) /\ Len(a \o b) = Len(a) + Len(b) BY <1>a, <1>b, VersionsJoined
<1>1. r \in Seq(Version) /\ Len(r) = Len(q) - 1
  <2>1. i \in Nat /\ Len(q) \in Nat OBVIOUS
  <2>2. Len(r) = (i - 1) + (Len(q) - i) BY <1>a, <1>b, <1>c, <1>r
  <2> QED BY <1>c, <1>r, <2>1, <2>2
<1>2. \A j \in 1..Len(r) : r[j] = IF j < i THEN q[j] ELSE q[j + 1]
  <2> TAKE j \in 1..Len(r)
  <2>1. CASE j < i BY <1>a, <1>b, <1>r, <1>1, <2>1
  <2>2. CASE ~(j < i)
    <3>1. r[j] = b[j - (i - 1)] BY <1>a, <1>b, <1>r, <1>1, <2>2
    <3>2. j - (i - 1) \in 1..(Len(q) - i) /\ i + (j - (i - 1)) = j + 1 BY <1>1, <2>2
    <3> QED BY <1>b, <2>2, <3>1, <3>2
  <2> QED BY <2>1, <2>2
<1>3. \A j, k \in 1..Len(r) : j < k => r[j] < r[k] BY <1>1, <1>2
<1>4. \A j \in 1..Len(q) : q[j] \in Nat BY Versions
<1>5. ASSUME NEW v \in Range(q) \ {q[i]}
      PROVE  v \in Range(r)
  <2>1. PICK j \in 1..Len(q) : q[j] = v BY RangeIs
  <2>2. CASE j < i BY <1>1, <1>2, <2>1, <2>2, RangeIs
  <2>3. CASE j > i
    <3>1. j - 1 \in 1..Len(r) /\ r[j - 1] = v BY <1>1, <1>2, <2>1, <2>3
    <3> QED BY <1>1, <3>1, RangeIs
  <2> QED BY <2>1, <2>2, <2>3
<1>6. ASSUME NEW v \in Range(r)
      PROVE  v \in Range(q) \ {q[i]}
  <2>1. PICK j \in 1..Len(r) : r[j] = v BY <1>1, RangeIs
  <2>2. CASE j < i
    <3>1. j \in 1..Len(q) /\ q[j] = v /\ q[j] < q[i] BY <1>1, <1>2, <2>1, <2>2
    <3> QED BY <1>4, <3>1, RangeIs
  <2>3. CASE ~(j < i)
    <3>1. j + 1 \in 1..Len(q) /\ q[j + 1] = v /\ q[i] < q[j + 1] BY <1>1, <1>2, <2>1, <2>3
    <3> QED BY <1>4, <3>1, RangeIs
  <2> QED BY <2>2, <2>3
<1>7. r # << >> /\ r[Len(r)] = q[Len(q)] /\ 1 \in 1..Len(r) BY <1>1, <1>2
<1>8. r[1] \in Range(r) BY <1>1, <1>7, RangeIs
<1> QED BY <1>1, <1>3, <1>5, <1>6, <1>7, <1>8 DEF r

\* What the helpers of the watch leave alone.
SameRoot(s, t) == t.published = s.published /\ t.wanted = s.wanted /\ t.queue = s.queue

SameStep(s, t) == t.step = s.step /\ t.ref = s.ref /\ t.todo = s.todo

SameLeases(s, t) ==
    t.retained = s.retained /\ t.timers = s.timers /\ t.disposals = s.disposals /\ t.settled = s.settled

SameOffers(s, t) == t.offered = s.offered /\ t.issued = s.issued /\ t.sent = s.sent

\* What holds whenever the releases that are left may begin.
RootReady(s) ==
    /\ RetainedInv(s) /\ LeaseInv(s)
    /\ ~s.settled =>
        /\ \A v \in Version : v <= s.issued => v \in s.sent
        /\ \A v \in Version : s.disposals[v] > 0 => v + 1 \in s.sent
        /\ s.wanted = NoRoot => s.published = newest(s)
        /\ s.wanted # NoRoot => s.wanted = s.published /\ \E i \in 1..Len(s.queue) : s.queue[i].kind = "send"

LEMMA ReleasingKeeps ==
    ASSUME NEW s \in RootWatchType, RootReady(s), NEW versions \in Seq(Version),
           ~s.settled => \/ Len(s.retained) <= MaxSuperseded + 1
                         \/ /\ Len(s.retained) = MaxSuperseded + 2 /\ versions # << >>
                            /\ versions[1] = s.retained[1]
    PROVE  releasing(s, versions) \in RootWatchType /\ RootWatchRest(releasing(s, versions))
<1> DEFINE t == releasing(s, versions)
           step1 == IF versions = << >> THEN "idle" ELSE "releasing"
<1>1. t = [s EXCEPT !.step = step1, !.ref = NoRoot, !.todo = versions]
  BY DEF releasing, operationOver
<1>2. step1 \in {"idle", "releasing"} /\ NoRoot \in RootRef /\ (step1 = "releasing" <=> versions # << >>)
  BY DEF RootRef
<1> HIDE DEF t, step1
<1>3. t \in RootWatchType BY <1>1, <1>2 DEF RootWatchType
<1>4. SameRoot(s, t) /\ SameLeases(s, t) /\ SameOffers(s, t) /\ t.step = step1 /\ t.todo = versions
  BY <1>1, <1>2 DEF RootWatchType, SameRoot, SameLeases, SameOffers
<1>5. RetainedInv(t) BY <1>2, <1>4 DEF RetainedInv, RootReady, SameLeases, SameOffers
<1>6. LeaseInv(t) BY <1>4 DEF LeaseInv, RootReady, SameLeases, SameOffers
<1>7. SentInv(t) BY <1>2, <1>4 DEF SentInv, RootReady, SameLeases, SameOffers
<1>8. newest(t) = newest(s) BY <1>4 DEF newest, SameLeases, SameOffers
<1>9. NewestInv(t) BY <1>2, <1>4, <1>8 DEF NewestInv, RootReady, SameRoot, SameLeases
<1> QED BY <1>3, <1>5, <1>6, <1>7, <1>9 DEF RootWatchRest, t

LEMMA LeasesAreDisposed ==
    ASSUME NEW s \in RootWatchType, NEW vs
    PROVE  LET t == leasesDisposed(s, vs) IN
           /\ t \in RootWatchType /\ SameRoot(s, t) /\ SameStep(s, t) /\ SameOffers(s, t)
           /\ t.retained = s.retained /\ t.timers = s.timers /\ t.settled = s.settled
           /\ \A v \in Version : t.disposals[v] = IF v \in vs THEN s.disposals[v] + 1 ELSE s.disposals[v]
<1> DEFINE t == leasesDisposed(s, vs)
           disposals1 == [v \in Version |-> IF v \in vs THEN s.disposals[v] + 1 ELSE s.disposals[v]]
<1>1. t = [s EXCEPT !.disposals = disposals1] BY DEF leasesDisposed
<1>2. /\ disposals1 \in [Version -> Nat]
      /\ \A v \in Version : disposals1[v] = IF v \in vs THEN s.disposals[v] + 1 ELSE s.disposals[v]
  BY DEF RootWatchType
<1> HIDE DEF t, disposals1
<1>3. t \in RootWatchType BY <1>1, <1>2 DEF RootWatchType
<1>4. /\ SameRoot(s, t) /\ SameStep(s, t) /\ SameOffers(s, t)
      /\ t.retained = s.retained /\ t.timers = s.timers /\ t.settled = s.settled /\ t.disposals = disposals1
  BY <1>1, <1>2 DEF RootWatchType, SameRoot, SameStep, SameOffers
<1> QED BY <1>2, <1>3, <1>4 DEF t

\* The end of the watch: every lease that is left is disposed of.
LEMMA FinishKeeps ==
    ASSUME NEW s \in RootWatchType, RootWatchRest(s)
    PROVE  LET t == watchFinished(s) IN
           /\ t \in RootWatchType /\ RootWatchRest(t) /\ t.settled
<1>1. CASE s.settled BY <1>1 DEF watchFinished
<1>2. CASE ~s.settled
  <2> DEFINE d == leasesDisposed(s, Range(s.retained))
             t == watchFinished(s)
  <2>1. /\ d \in RootWatchType /\ SameRoot(s, d) /\ SameStep(s, d) /\ SameOffers(s, d)
        /\ d.retained = s.retained /\ d.timers = s.timers /\ d.settled = s.settled
        /\ \A v \in Version : d.disposals[v] = IF v \in Range(s.retained) THEN s.disposals[v] + 1 ELSE s.disposals[v]
    BY LeasesAreDisposed
  <2>2. t = [d EXCEPT !.settled = TRUE, !.retained = << >>, !.timers = {}, !.wanted = NoRoot]
    BY <1>2 DEF watchFinished
  <2> HIDE DEF d, t
  <2>3. << >> \in Seq(Version) /\ NoRoot \in RootRef BY DEF RootRef
  <2>4. t \in RootWatchType BY <2>1, <2>2, <2>3 DEF RootWatchType
  <2>5. /\ SameStep(d, t) /\ SameOffers(d, t) /\ t.settled = TRUE /\ t.retained = << >> /\ t.timers = {}
        /\ t.disposals = d.disposals
    BY <2>1, <2>2, <2>3 DEF RootWatchType, SameStep, SameOffers
  <2>6. RetainedInv(t) BY <2>1, <2>5 DEF RetainedInv, RootWatchRest, SameStep, SameOffers
  <2>7. LeaseInv(t)
    <3>1. \A v : v \notin Range(t.retained) BY <2>5 DEF Range
    <3>2. ASSUME NEW v \in Version
          PROVE  t.disposals[v] = IF v <= s.issued THEN 1 ELSE 0
      <4>1. v \in Range(s.retained) => v <= s.issued
        BY RangeIs DEF RootWatchRest, RetainedInv, RootWatchType
      <4>2. s.disposals[v] = IF v <= s.issued /\ v \notin Range(s.retained) THEN 1 ELSE 0
        BY DEF RootWatchRest, LeaseInv
      <4> QED BY <2>1, <2>5, <4>1, <4>2
    <3> QED BY <2>1, <2>5, <3>1, <3>2 DEF LeaseInv, SameOffers
  <2>8. SentInv(t) /\ NewestInv(t) BY <2>5 DEF SentInv, NewestInv
  <2> QED BY <2>4, <2>5, <2>6, <2>7, <2>8 DEF RootWatchRest, t
<1> QED BY <1>1, <1>2

\* A release: the offers that are kept are still in order, and the newest is among them.
LEMMA ReleasedKeeps ==
    ASSUME NEW s \in RootWatchType, RootReady(s), NEW v \in Version
    PROVE  LET t == released(s, v) IN
           /\ t \in RootWatchType /\ RootReady(t) /\ t.settled = s.settled
           /\ Len(t.retained) <= Len(s.retained)
           /\ ~s.settled /\ Len(s.retained) > 1 /\ v = s.retained[1] => Len(t.retained) = Len(s.retained) - 1
<1>q. s.retained \in Seq(Version) /\ Len(s.retained) \in Nat BY DEF RootWatchType
<1>o. \A i, j \in 1..Len(s.retained) : i < j => s.retained[i] < s.retained[j]
  BY DEF RootReady, RetainedInv
<1>n. \A i \in 1..Len(s.retained) : s.retained[i] \in Nat BY <1>q, Versions
<1>1. CASE s.settled \/ v \notin Range(s.retained) \/ v = Last(s.retained)
  <2>1. released(s, v) = s BY <1>1 DEF released
  <2>2. ~s.settled /\ Len(s.retained) > 1 => v # s.retained[1]
    <3> SUFFICES ASSUME ~s.settled, Len(s.retained) > 1, v = s.retained[1] PROVE FALSE
      OBVIOUS
    <3>1. v \in Range(s.retained) BY <1>q, RangeIs
    <3>2. s.retained[1] < s.retained[Len(s.retained)] BY <1>q, <1>o
    <3> QED BY <1>1, <1>q, <1>n, <3>1, <3>2 DEF Last
  <2> QED BY <1>q, <2>1, <2>2
<1>2. CASE ~(s.settled \/ v \notin Range(s.retained) \/ v = Last(s.retained))
  <2> DEFINE i == indexOf(s, v)
             q == RemoveAt(s.retained, i)
             timers1 == s.timers \ {v}
             r == [s EXCEPT !.timers = timers1, !.retained = q]
             t == leasesDisposed(r, {v})
  <2>1. i \in 1..Len(s.retained) /\ s.retained[i] = v
    <3>1. \E j \in DOMAIN s.retained : s.retained[j] = v BY <1>2, <1>q, RangeIs
    <3>2. i \in DOMAIN s.retained /\ s.retained[i] = v BY <3>1 DEF indexOf
    <3> QED BY <1>q, <3>2
  <2>2. released(s, v) = t BY <1>2 DEF released
  <2> HIDE DEF i
  <2>3. i < Len(s.retained) BY <1>2, <1>q, <2>1 DEF Last
  <2>4. /\ q \in Seq(Version) /\ Len(q) = Len(s.retained) - 1 /\ q # << >> /\ q[Len(q)] = s.retained[Len(s.retained)]
        /\ \A j, k \in 1..Len(q) : j < k => q[j] < q[k]
        /\ Range(q) = Range(s.retained) \ {v}
    BY <1>q, <1>o, <2>1, <2>3, OfferRemoved
  <2>5. timers1 \in SUBSET Version BY DEF RootWatchType
  <2> HIDE DEF q, timers1
  <2>6. r \in RootWatchType BY <2>4, <2>5 DEF RootWatchType
  <2>7. /\ SameRoot(s, r) /\ SameStep(s, r) /\ SameOffers(s, r) /\ r.retained = q /\ r.timers = timers1
        /\ r.disposals = s.disposals /\ r.settled = s.settled
    BY <2>4, <2>5 DEF RootWatchType, SameRoot, SameStep, SameOffers
  <2> HIDE DEF r
  <2>8. /\ t \in RootWatchType /\ SameRoot(r, t) /\ SameStep(r, t) /\ SameOffers(r, t)
        /\ t.retained = r.retained /\ t.timers = r.timers /\ t.settled = r.settled
        /\ \A w \in Version : t.disposals[w] = IF w \in {v} THEN r.disposals[w] + 1 ELSE r.disposals[w]
    BY <2>6, LeasesAreDisposed
  <2> HIDE DEF t
  <2>9. t.retained = q /\ t.issued = s.issued /\ t.step = s.step /\ t.todo = s.todo /\ t.settled = s.settled
    BY <2>7, <2>8 DEF SameOffers, SameStep
  <2>10. RetainedInv(t)
    <3>1. \A j \in 1..Len(q) : q[j] <= s.issued
      <4> TAKE j \in 1..Len(q)
      <4>1. q[j] \in Range(s.retained) BY <2>4, RangeIs
      <4>2. PICK k \in 1..Len(s.retained) : s.retained[k] = q[j] BY <1>q, <4>1, RangeIs
      <4> QED BY <4>2 DEF RootReady, RetainedInv
    <3> QED BY <1>2, <2>4, <2>9, <3>1 DEF RootReady, RetainedInv
  <2>11. LeaseInv(t)
    <3>1. v <= s.issued BY <2>1 DEF RootReady, RetainedInv
    <3>2. t.timers \subseteq Range(q) BY <2>4, <2>7, <2>8 DEF timers1, RootReady, LeaseInv
    <3>3. ASSUME NEW w \in Version
          PROVE  t.disposals[w] = IF w <= s.issued /\ w \notin Range(q) THEN 1 ELSE 0
      BY <1>2, <2>4, <2>7, <2>8, <3>1 DEF RootReady, LeaseInv
    <3> QED BY <2>9, <3>2, <3>3 DEF LeaseInv
  <2>12. /\ t.sent = s.sent /\ t.wanted = s.wanted /\ t.published = s.published /\ t.queue = s.queue
         /\ t.offered = s.offered /\ t.issued = s.issued
    BY <2>7, <2>8 DEF SameOffers, SameRoot
  <2>13. newest(t) = newest(s)
    <3>1. s.retained # << >> BY <1>q, <2>1
    <3> QED BY <2>4, <2>9, <2>12, <3>1 DEF newest, Last
  <2>14. v + 1 \in s.sent
    <3>1. s.retained[Len(s.retained)] = s.issued /\ v < s.retained[Len(s.retained)] /\ s.issued <= MaxOffer
      <4>1. s.issued # 0 BY <1>n, <2>1, Versions DEF RootReady, RetainedInv, RootWatchType
      <4> QED BY <1>2, <1>q, <1>o, <2>1, <2>3, <4>1 DEF RootReady, RetainedInv
    <3>2. v + 1 \in Version /\ v + 1 <= s.issued BY <3>1, Versions DEF RootWatchType
    <3> QED BY <1>2, <3>2 DEF RootReady
  <2>15. RootReady(t)
    <3>1. \A w \in Version : t.disposals[w] > 0 => w + 1 \in t.sent
      BY <1>2, <2>7, <2>8, <2>12, <2>14 DEF RootReady
    <3> QED BY <1>2, <2>9, <2>10, <2>11, <2>12, <2>13, <3>1 DEF RootReady
  <2> QED BY <1>q, <2>2, <2>4, <2>8, <2>9, <2>15
<1> QED BY <1>1, <1>2

LEMMA RootWatchInitial == RootWatchInit => RootWatchInv
<1> SUFFICES ASSUME RootWatchInit PROVE RootWatchInv
  OBVIOUS
<1>1. rootWatch \in RootWatchType BY DEF RootWatchInit, RootWatchType, RootRef
<1>2. /\ rootWatch.retained = << >> /\ rootWatch.issued = 0 /\ rootWatch.step = "idle" /\ rootWatch.timers = {}
      /\ rootWatch.wanted = NoRoot /\ rootWatch.published = NoRoot
      /\ \A v \in Version : rootWatch.disposals[v] = 0 /\ v \in Nat /\ v > 0
  BY Versions DEF RootWatchInit
<1>3. RetainedInv(rootWatch) /\ LeaseInv(rootWatch) BY <1>2, Versions DEF RetainedInv, LeaseInv
<1>4. SentInv(rootWatch) BY <1>2, Versions DEF SentInv
<1>5. NewestInv(rootWatch) BY <1>2 DEF NewestInv, newest
<1> QED BY <1>1, <1>3, <1>4, <1>5 DEF RootWatchInv, RootWatchRest


\* A step that touches no offer and no lease, but may stop a timer.
LEMMA OffersKept ==
    ASSUME NEW s \in RootWatchType, NEW t \in RootWatchType, RootWatchRest(s), SameOffers(s, t),
           t.retained = s.retained, t.disposals = s.disposals, t.settled = s.settled, t.timers \subseteq s.timers,
           \/ t.step = s.step /\ t.todo = s.todo
           \/ t.step \in {"idle", "retaining"} /\ s.step = "idle",
           NewestInv(t)
    PROVE  RootWatchRest(t)
<1>1. RetainedInv(t) BY DEF RetainedInv, RootWatchRest, SameOffers
<1>2. LeaseInv(t) BY DEF LeaseInv, RootWatchRest, SameOffers
<1>3. SentInv(t) BY DEF SentInv, RootWatchRest, SameOffers
<1> QED BY <1>1, <1>2, <1>3 DEF RootWatchRest

\* An operation that is not a send leaves the queue.
LEMMA HeadTaken ==
    ASSUME NEW s \in RootWatchType, RootWatchRest(s), s.step = "idle", s.queue # << >>, Head(s.queue).kind # "send"
    PROVE  LET t == [s EXCEPT !.queue = Tail(@)] IN
           /\ t \in RootWatchType /\ RootWatchRest(t) /\ RootReady(t) /\ t.retained = s.retained /\ t.settled = s.settled
           /\ Head(s.queue) \in RootOp
<1> DEFINE q == Tail(s.queue)
           t == [s EXCEPT !.queue = q]
<1>1. s.queue \in Seq(RootOp) /\ Len(s.queue) \in Nat BY DEF RootWatchType
<1>2. q \in Seq(RootOp) /\ Len(q) = Len(s.queue) - 1 /\ \A i \in 1..Len(q) : q[i] = s.queue[i + 1]
  BY <1>1
<1>3. Head(s.queue) = s.queue[1] /\ Head(s.queue) \in RootOp BY <1>1
<1>4. (\E i \in 1..Len(s.queue) : s.queue[i].kind = "send") => \E i \in 1..Len(q) : q[i].kind = "send"
  <2> SUFFICES ASSUME NEW i \in 1..Len(s.queue), s.queue[i].kind = "send"
               PROVE  \E j \in 1..Len(q) : q[j].kind = "send"
    OBVIOUS
  <2>1. i # 1 BY <1>3
  <2>2. i - 1 \in 1..Len(q) /\ q[i - 1] = s.queue[i] BY <1>1, <1>2, <2>1
  <2> QED BY <2>2
<1> HIDE DEF q
<1>5. t \in RootWatchType BY <1>2 DEF RootWatchType
<1>6. /\ t.published = s.published /\ t.wanted = s.wanted /\ t.queue = q
      /\ SameStep(s, t) /\ SameLeases(s, t) /\ SameOffers(s, t)
  BY <1>2 DEF RootWatchType, SameStep, SameLeases, SameOffers
<1> HIDE DEF t
<1>7. newest(t) = newest(s) BY <1>6 DEF newest, SameLeases, SameOffers
<1>8. NewestInv(t) BY <1>4, <1>6, <1>7 DEF NewestInv, RootWatchRest, SameLeases, SameStep
<1>9. RootWatchRest(t) BY <1>5, <1>6, <1>8, OffersKept DEF SameLeases, SameStep
<1>10. RootReady(t) BY <1>6, <1>8, <1>9 DEF RootReady, RootWatchRest, SentInv, NewestInv, SameStep
<1> QED BY <1>3, <1>5, <1>6, <1>9, <1>10 DEF SameLeases, t, q

\* The operations of the chain, and what only enqueues them.
LEMMA RootPublished ==
    ASSUME NEW s \in RootWatchType, RootWatchRest(s), NEW ref \in GraphRoot
    PROVE  LET p == [s EXCEPT !.published = ref]
               t == IF s.settled THEN p ELSE enqueued([p EXCEPT !.wanted = ref], SendOp)
           IN t \in RootWatchType /\ RootWatchRest(t)
<1> DEFINE p == [s EXCEPT !.published = ref]
           t == IF s.settled THEN p ELSE enqueued([p EXCEPT !.wanted = ref], SendOp)
           q == Append(s.queue, SendOp)
<1>a. ref \in RootRef /\ ref # NoRoot BY Versions DEF RootRef
<1>1. CASE s.settled
  <2>1. t = p BY <1>1
  <2>2. p \in RootWatchType BY <1>a DEF RootWatchType
  <2>3. /\ SameStep(s, p) /\ SameLeases(s, p) /\ SameOffers(s, p)
    BY DEF RootWatchType, SameStep, SameLeases, SameOffers
  <2> HIDE DEF p
  <2>4. NewestInv(p) BY <1>1, <2>3 DEF NewestInv, SameLeases
  <2>5. RootWatchRest(p) BY <2>2, <2>3, <2>4, OffersKept DEF SameLeases, SameStep
  <2> QED BY <2>1, <2>2, <2>5 DEF p
<1>2. CASE ~s.settled
  <2>1. t = [s EXCEPT !.published = ref, !.wanted = ref, !.queue = q]
    BY <1>2 DEF enqueued, RootWatchType
  <2>2. q \in Seq(RootOp) /\ Len(q) = Len(s.queue) + 1 /\ q[Len(s.queue) + 1] = SendOp /\ Len(s.queue) \in Nat
    BY DEF RootWatchType, RootOp
  <2> HIDE DEF q, t
  <2>3. t \in RootWatchType BY <1>a, <2>1, <2>2 DEF RootWatchType
  <2>4. /\ t.published = ref /\ t.wanted = ref /\ t.queue = q
        /\ SameStep(s, t) /\ SameLeases(s, t) /\ SameOffers(s, t)
    BY <1>a, <2>1, <2>2 DEF RootWatchType, SameStep, SameLeases, SameOffers
  <2>5. \E i \in 1..Len(q) : q[i].kind = "send" BY <2>2 DEF SendOp
  <2>6. NewestInv(t) BY <1>a, <2>4, <2>5 DEF NewestInv
  <2>7. RootWatchRest(t) BY <2>3, <2>4, <2>6, OffersKept DEF SameLeases, SameStep
  <2> QED BY <2>3, <2>7 DEF t
<1> QED BY <1>1, <1>2

LEMMA RootEnqueued ==
    ASSUME NEW s \in RootWatchType, RootWatchRest(s), NEW op \in RootOp, NEW timers \in SUBSET s.timers
    PROVE  LET t == enqueued([s EXCEPT !.timers = timers], op) IN t \in RootWatchType /\ RootWatchRest(t)
<1> DEFINE q == IF s.settled THEN s.queue ELSE Append(s.queue, op)
           t == enqueued([s EXCEPT !.timers = timers], op)
<1>1. t = [s EXCEPT !.timers = timers, !.queue = q] BY DEF enqueued, RootWatchType
<1>2. /\ q \in Seq(RootOp) /\ timers \in SUBSET Version
      /\ (\E i \in 1..Len(s.queue) : s.queue[i].kind = "send") => \E i \in 1..Len(q) : q[i].kind = "send"
  <2>1. CASE s.settled BY <2>1 DEF RootWatchType
  <2>2. CASE ~s.settled
    <3>1. s.queue \in Seq(RootOp) /\ q = Append(s.queue, op) BY <2>2 DEF RootWatchType
    <3> HIDE DEF q
    <3>2. q \in Seq(RootOp) /\ Len(q) = Len(s.queue) + 1 /\ \A i \in 1..Len(s.queue) : q[i] = s.queue[i] /\ i \in 1..Len(q)
      BY <3>1
    <3> QED BY <3>2 DEF RootWatchType
  <2> QED BY <2>1, <2>2
<1> HIDE DEF q, t
<1>3. t \in RootWatchType BY <1>1, <1>2 DEF RootWatchType
<1>4. /\ t.published = s.published /\ t.wanted = s.wanted /\ t.queue = q /\ t.timers = timers
      /\ t.retained = s.retained /\ t.disposals = s.disposals /\ t.settled = s.settled
      /\ SameStep(s, t) /\ SameOffers(s, t)
  BY <1>1, <1>2 DEF RootWatchType, SameStep, SameOffers
<1>5. newest(t) = newest(s) BY <1>4 DEF newest, SameOffers
<1>6. NewestInv(t) BY <1>2, <1>4, <1>5 DEF NewestInv, RootWatchRest, SameStep
<1>7. RootWatchRest(t) BY <1>3, <1>4, <1>6, OffersKept DEF SameStep
<1> QED BY <1>3, <1>7 DEF t

LEMMA WantedTaken ==
    ASSUME NEW s \in RootWatchType, RootWatchRest(s), s.step = "idle", s.queue # << >>
    PROVE  LET t == wantedTaken([s EXCEPT !.queue = Tail(@)]) IN t \in RootWatchType /\ RootWatchRest(t)
<1> DEFINE q == Tail(s.queue)
           r == [s EXCEPT !.queue = q]
           t == wantedTaken(r)
           none == s.settled \/ s.wanted = NoRoot \/ s.wanted = newest(s)
           step1 == IF none THEN s.step ELSE "retaining"
           ref1 == IF none THEN s.ref ELSE s.wanted
<1>1. q \in Seq(RootOp) BY DEF RootWatchType
<1> HIDE DEF q
<1>2. r.settled = s.settled /\ r.wanted = s.wanted /\ newest(r) = newest(s) /\ r.step = s.step /\ r.ref = s.ref
  BY <1>1 DEF RootWatchType, newest
<1>3. t = [s EXCEPT !.queue = q, !.wanted = NoRoot, !.step = step1, !.ref = ref1]
  <2>1. CASE none
    <3>1. t = [r EXCEPT !.wanted = NoRoot] BY <1>2, <2>1 DEF wantedTaken
    <3> QED BY <1>1, <2>1, <3>1 DEF RootWatchType
  <2>2. CASE ~none
    <3>1. t = [r EXCEPT !.wanted = NoRoot, !.step = "retaining", !.ref = s.wanted]
      BY <1>2, <2>2 DEF wantedTaken
    <3> QED BY <1>1, <2>2, <3>1 DEF RootWatchType
  <2> QED BY <2>1, <2>2
<1>4. step1 \in {"idle", "retaining"} /\ ref1 \in RootRef /\ NoRoot \in RootRef
  BY DEF RootWatchType, RootRef
<1>5. ~s.settled => s.published = IF step1 = "retaining" THEN ref1 ELSE newest(s)
  BY DEF RootWatchRest, NewestInv
<1> HIDE DEF r, t, none, step1, ref1
<1>6. t \in RootWatchType BY <1>1, <1>3, <1>4 DEF RootWatchType
<1>7. /\ t.published = s.published /\ t.wanted = NoRoot /\ t.step = step1 /\ t.ref = ref1
      /\ SameLeases(s, t) /\ SameOffers(s, t)
  BY <1>1, <1>3, <1>4 DEF RootWatchType, SameLeases, SameOffers
<1>8. newest(t) = newest(s) BY <1>7 DEF newest, SameLeases, SameOffers
<1>9. NewestInv(t) BY <1>5, <1>7, <1>8 DEF NewestInv, SameLeases
<1>10. RootWatchRest(t) BY <1>4, <1>6, <1>7, <1>9, OffersKept DEF SameLeases
<1> QED BY <1>6, <1>10 DEF t, r, q

\* A new version: its closure was retained for a watch that has ended, or that has not.
LEMMA RetainedLate ==
    ASSUME NEW s \in RootWatchType, RootWatchRest(s), s.settled, s.issued < MaxOffer
    PROVE  LET v == s.issued + 1
               t == operationOver(leasesDisposed([s EXCEPT !.issued = v, !.offered[v] = s.ref], {v}))
           IN t \in RootWatchType /\ RootWatchRest(t)
<1> DEFINE v == s.issued + 1
           offered1 == [s.offered EXCEPT ![v] = s.ref]
           r == [s EXCEPT !.issued = v, !.offered = offered1]
           d == leasesDisposed(r, {v})
           t == operationOver(d)
<1>1. v \in Version /\ v \in Nat /\ s.issued \in Nat /\ offered1 \in [Version -> RootRef]
  BY Versions DEF RootWatchType
<1>2. [s EXCEPT !.issued = v, !.offered[v] = s.ref] = r BY DEF RootWatchType
<1> HIDE DEF offered1
<1>3. r \in RootWatchType BY <1>1 DEF RootWatchType
<1>4. r.issued = v /\ SameRoot(s, r) /\ SameStep(s, r) /\ SameLeases(s, r)
  BY <1>1 DEF RootWatchType, SameRoot, SameStep, SameLeases
<1> HIDE DEF r
<1>5. /\ d \in RootWatchType /\ SameRoot(r, d) /\ SameStep(r, d) /\ SameOffers(r, d)
      /\ d.retained = r.retained /\ d.timers = r.timers /\ d.settled = r.settled
      /\ \A w \in Version : d.disposals[w] = IF w \in {v} THEN r.disposals[w] + 1 ELSE r.disposals[w]
  BY <1>3, LeasesAreDisposed
<1> HIDE DEF d
<1>6. /\ d.settled /\ d.retained = << >> /\ d.timers = {} /\ d.issued = v
    <2>1. s.retained = << >> BY DEF RootWatchRest, RetainedInv
    <2>2. s.timers = {} BY <2>1 DEF RootWatchRest, LeaseInv, Range
    <2> QED BY <1>4, <1>5, <2>1, <2>2 DEF SameLeases, SameOffers
<1>7. RetainedInv(d)
  <2>1. v <= MaxOffer /\ v # 0 /\ Len(d.retained) = 0 BY <1>1, <1>6, Versions
  <2>2. d.step = s.step /\ d.todo = s.todo BY <1>4, <1>5 DEF SameStep
  <2> QED BY <1>6, <2>1, <2>2 DEF RetainedInv, RootWatchRest
<1>8. LeaseInv(d)
  <2>1. \A w : w \notin Range(d.retained) /\ w \notin Range(s.retained)
    BY <1>6 DEF Range, RootWatchRest, RetainedInv
  <2>2. \A w \in Version : s.disposals[w] = IF w <= s.issued THEN 1 ELSE 0
    BY <2>1 DEF RootWatchRest, LeaseInv
  <2>3. \A w \in Version : w \in Nat BY Versions
  <2>4. \A w \in Version : d.disposals[w] = IF w <= v THEN 1 ELSE 0
    BY <1>1, <1>4, <1>5, <2>2, <2>3 DEF SameLeases
  <2> QED BY <1>6, <2>1, <2>4 DEF LeaseInv
<1>9. RootReady(d) BY <1>6, <1>7, <1>8 DEF RootReady
<1>10. t = releasing(d, << >>) BY DEF releasing
<1>11. t \in RootWatchType /\ RootWatchRest(t)
  <2>1. << >> \in Seq(Version) OBVIOUS
  <2> QED BY <2>1, <1>5, <1>6, <1>9, <1>10, ReleasingKeeps
<1> QED BY <1>2, <1>11 DEF d, v

LEMMA RetainedNew ==
    ASSUME NEW s \in RootWatchType, RootWatchRest(s), ~s.settled, s.step = "retaining", s.issued < MaxOffer
    PROVE  LET v == s.issued + 1
               t == [[s EXCEPT !.issued = v, !.offered[v] = s.ref] EXCEPT !.retained = Append(@, v), !.step = "sending"]
           IN t \in RootWatchType /\ RootWatchRest(t)
<1> DEFINE v == s.issued + 1
           offered1 == [s.offered EXCEPT ![v] = s.ref]
           q == Append(s.retained, v)
           t == [s EXCEPT !.issued = v, !.offered = offered1, !.retained = q, !.step = "sending"]
<1>1. v \in Version /\ v \in Nat /\ s.issued \in Nat /\ v <= MaxOffer /\ v # 0
  BY Versions DEF RootWatchType
<1>2. offered1 \in [Version -> RootRef] /\ offered1[v] = s.ref BY <1>1 DEF RootWatchType
<1>3. [[s EXCEPT !.issued = v, !.offered[v] = s.ref] EXCEPT !.retained = Append(@, v), !.step = "sending"] = t
  BY DEF RootWatchType
<1>4. s.retained \in Seq(Version) /\ Len(s.retained) \in Nat BY DEF RootWatchType
<1> HIDE DEF v
<1>5. /\ q \in Seq(Version) /\ Len(q) = Len(s.retained) + 1 /\ q[Len(s.retained) + 1] = v
      /\ \A i \in 1..Len(s.retained) : q[i] = s.retained[i]
  BY <1>1, <1>4
<1> HIDE DEF q, offered1
<1>6. t \in RootWatchType BY <1>1, <1>2, <1>5 DEF RootWatchType
<1>7. /\ SameRoot(s, t) /\ t.ref = s.ref /\ t.step = "sending" /\ t.issued = v /\ t.offered = offered1
      /\ t.retained = q /\ t.timers = s.timers /\ t.disposals = s.disposals /\ t.sent = s.sent /\ ~t.settled
  BY <1>1, <1>2, <1>5 DEF RootWatchType, SameRoot
<1> HIDE DEF t
<1>8. \A i \in 1..Len(s.retained) : s.retained[i] <= s.issued /\ s.retained[i] \in Nat
  BY <1>4, Versions DEF RootWatchRest, RetainedInv
<1>9. \A i \in 1..Len(q) : i \in 1..Len(s.retained) \/ i = Len(s.retained) + 1 BY <1>4, <1>5
<1>v. v = s.issued + 1 BY DEF v
<1>10. \A i, j \in 1..Len(q) : i < j => q[i] < q[j]
  <2> SUFFICES ASSUME NEW i \in 1..Len(q), NEW j \in 1..Len(q), i < j PROVE q[i] < q[j]
    OBVIOUS
  <2>1. i \in 1..Len(s.retained) BY <1>4, <1>5
  <2>2. CASE j \in 1..Len(s.retained) BY <1>5, <2>1, <2>2 DEF RootWatchRest, RetainedInv
  <2>3. CASE j = Len(s.retained) + 1 BY <1>1, <1>5, <1>8, <1>v, <2>1, <2>3
  <2> QED BY <1>9, <2>2, <2>3
<1>11. \A i \in 1..Len(q) : q[i] <= v BY <1>1, <1>5, <1>8, <1>9, <1>v
<1>12. RetainedInv(t)
  <2>1. q # << >> /\ q[Len(q)] = v BY <1>4, <1>5
  <2> QED BY <1>1, <1>7, <1>10, <1>11, <2>1 DEF RetainedInv
<1>13. \A w \in Version : w \in Range(q) <=> w \in Range(s.retained) \/ w = v
  BY <1>4, <1>5, <1>9, RangeIs
<1>14. v \notin Range(s.retained) BY <1>1, <1>4, <1>8, <1>v, RangeIs
<1>15. LeaseInv(t)
  <2>1. ASSUME NEW w \in Version
        PROVE  s.disposals[w] = IF w <= v /\ w \notin Range(q) THEN 1 ELSE 0
    <3>1. s.disposals[w] = IF w <= s.issued /\ w \notin Range(s.retained) THEN 1 ELSE 0
      BY DEF RootWatchRest, LeaseInv
    <3>2. w \in Nat /\ (w <= v <=> w <= s.issued \/ w = v) BY <1>1, <1>v, Versions
    <3>3. ~(v <= s.issued) BY <1>1, <1>v
    <3> QED BY <1>13, <3>1, <3>2, <3>3
  <2>2. s.timers \subseteq Range(q) BY <1>13 DEF RootWatchRest, LeaseInv, RootWatchType
  <2> QED BY <1>7, <2>1, <2>2 DEF LeaseInv
<1>16. SentInv(t)
  <2>1. \A w \in Version : w <= v => w \in s.sent \/ w = v
    <3>1. \A w \in Version : w \in Nat /\ (w <= v <=> w <= s.issued \/ w = v)
      BY <1>1, <1>v, Versions
    <3> QED BY <3>1 DEF RootWatchRest, SentInv
  <2>2. \A w \in Version : s.disposals[w] > 0 => w + 1 \in s.sent BY DEF RootWatchRest, SentInv
  <2>3. Len(q) <= MaxSuperseded + 2 BY <1>4, <1>5, Versions DEF RootWatchRest, SentInv
  <2> QED BY <1>7, <2>1, <2>2, <2>3 DEF SentInv
<1>17. NewestInv(t)
  <2>1. newest(t) = s.ref BY <1>2, <1>4, <1>5, <1>7 DEF newest, Last
  <2> QED BY <1>7, <2>1 DEF NewestInv, RootWatchRest, SameRoot
<1> QED BY <1>3, <1>6, <1>12, <1>15, <1>16, <1>17 DEF RootWatchRest, t, v

LEMMA AtLeastTwo ==
    ASSUME NEW n \in Nat, n # 0, n # 1
    PROVE  n >= 2 /\ n - 1 \in 1..n
OBVIOUS

LEMMA NotEmpty ==
    ASSUME NEW S, NEW q \in Seq(S), Len(q) = 1
    PROVE  q # << >>
OBVIOUS

\* The newest version is sent: the one before it gets a timer, and what is too much is released.
LEMMA SentKeeps ==
    ASSUME NEW s \in RootWatchType, RootWatchRest(s), s.step = "sending"
    PROVE  LET p == [s EXCEPT !.sent = @ \cup {s.issued}]
               t == IF s.settled \/ Len(s.retained) = 1 THEN operationOver(p)
                    ELSE releasing([p EXCEPT !.timers = @ \cup {p.retained[Len(p.retained) - 1]}], expiredOffers(p))
           IN t \in RootWatchType /\ RootWatchRest(t)
<1> DEFINE sent1 == s.sent \cup {s.issued}
           p == [s EXCEPT !.sent = sent1]
<1>e. << >> \in Seq(Version) OBVIOUS
<1>q. s.retained \in Seq(Version) /\ Len(s.retained) \in Nat BY DEF RootWatchType
<1>1. s.issued \in Version BY Versions DEF RootWatchType, RootWatchRest, RetainedInv
<1>2. sent1 \in SUBSET Version /\ s.sent \subseteq sent1 /\ s.issued \in sent1
  BY <1>1 DEF RootWatchType
<1> HIDE DEF sent1
<1>3. p \in RootWatchType BY <1>2 DEF RootWatchType
<1>4. SameRoot(s, p) /\ SameStep(s, p) /\ SameLeases(s, p) /\ p.offered = s.offered /\ p.issued = s.issued /\ p.sent = sent1
  BY <1>2 DEF RootWatchType, SameRoot, SameStep, SameLeases
<1> HIDE DEF p
<1>5. newest(p) = newest(s) BY <1>4 DEF newest, SameLeases
<1>6. RetainedInv(p) /\ LeaseInv(p)
  BY <1>4 DEF RetainedInv, LeaseInv, RootWatchRest, SameLeases, SameStep
<1>7. ~p.settled =>
        /\ \A v \in Version : v <= p.issued => v \in p.sent
        /\ \A v \in Version : p.disposals[v] > 0 => v + 1 \in p.sent
  BY <1>2, <1>4 DEF SentInv, RootWatchRest, SameLeases
<1>8. ~p.settled =>
        /\ p.wanted = NoRoot => p.published = newest(p)
        /\ p.wanted # NoRoot => p.wanted = p.published /\ \E i \in 1..Len(p.queue) : p.queue[i].kind = "send"
  BY <1>4, <1>5 DEF NewestInv, RootWatchRest, SameLeases, SameRoot
<1>9. RootReady(p) BY <1>6, <1>7, <1>8 DEF RootReady
<1>10. CASE s.settled \/ Len(s.retained) = 1
  <2>1. operationOver(p) = releasing(p, << >>) BY DEF releasing
  <2>2. ~p.settled => Len(p.retained) <= MaxSuperseded + 1
    <3>1. p.retained = s.retained /\ (p.settled <=> s.settled) BY <1>4 DEF SameLeases
    <3>2. Len(s.retained) = 1 => Len(s.retained) <= MaxSuperseded + 1 BY Versions
    <3> QED BY <1>10, <3>1, <3>2, Zenon
  <2>3. operationOver(p) \in RootWatchType /\ RootWatchRest(operationOver(p))
    BY <1>e, <1>3, <1>9, <2>1, <2>2, ReleasingKeeps
  <2> QED BY <1>10, <2>3 DEF p, sent1
<1>11. CASE ~(s.settled \/ Len(s.retained) = 1)
  <2> DEFINE w == s.retained[Len(s.retained) - 1]
             timers1 == s.timers \cup {w}
             r == [p EXCEPT !.timers = timers1]
             vs == SubSeq(s.retained, 1, Len(s.retained) - 1 - MaxSuperseded)
  <2>1. s.retained # << >> BY <1>1, <1>11, Versions DEF RootWatchRest, RetainedInv
  <2>2. Len(s.retained) >= 2 /\ Len(s.retained) - 1 \in 1..Len(s.retained)
    <3>1. Len(s.retained) # 1 BY <1>11, Zenon
    <3>2. Len(s.retained) # 0 BY <1>q, <2>1
    <3> QED BY <1>q, <3>1, <3>2, AtLeastTwo
  <2>3. w \in Version /\ w \in Range(s.retained) BY <1>q, <2>2, RangeIs
  <2>4. timers1 \in SUBSET Version /\ timers1 \subseteq Range(s.retained)
    BY <2>3 DEF RootWatchType, RootWatchRest, LeaseInv
  <2>5. [p EXCEPT !.timers = @ \cup {p.retained[Len(p.retained) - 1]}] = r BY <1>4 DEF SameLeases
  <2> HIDE DEF w, timers1
  <2>6. r \in RootWatchType BY <1>3, <2>4 DEF RootWatchType
  <2>7. /\ SameRoot(p, r) /\ SameStep(p, r) /\ SameOffers(p, r) /\ r.timers = timers1
        /\ r.retained = p.retained /\ r.disposals = p.disposals /\ r.settled = p.settled
    BY <1>3, <2>4 DEF RootWatchType, SameRoot, SameStep, SameOffers
  <2> HIDE DEF r
  <2>8. newest(r) = newest(p) BY <2>7 DEF newest, SameOffers
  <2>9. RetainedInv(r) BY <1>6, <2>7 DEF RetainedInv, SameStep, SameOffers
  <2>10. LeaseInv(r) BY <1>4, <1>6, <2>4, <2>7 DEF LeaseInv, SameOffers, SameLeases
  <2>11. RootReady(r) BY <1>7, <1>8, <2>7, <2>8, <2>9, <2>10 DEF RootReady, SameRoot, SameOffers
  <2>12. expiredOffers(p) = vs BY <1>4 DEF expiredOffers, SameLeases
  <2>13. vs \in Seq(Version) BY <1>q, <2>2, Versions
  <2>14. Len(s.retained) <= MaxSuperseded + 2 BY <1>11 DEF RootWatchRest, SentInv
  <2>15. ~(Len(s.retained) <= MaxSuperseded + 1) =>
            Len(s.retained) = MaxSuperseded + 2 /\ vs # << >> /\ vs[1] = s.retained[1]
    <3> SUFFICES ASSUME ~(Len(s.retained) <= MaxSuperseded + 1)
                 PROVE  Len(s.retained) = MaxSuperseded + 2 /\ vs # << >> /\ vs[1] = s.retained[1]
      OBVIOUS
    <3>1. Len(s.retained) = MaxSuperseded + 2 /\ Len(s.retained) - 1 - MaxSuperseded = 1
      BY <1>q, <2>14, Versions
    <3>2. vs = SubSeq(s.retained, 1, 1) BY <3>1
    <3>3. Len(vs) = 1 /\ vs[1] = s.retained[1]
      <4> HIDE DEF vs
      <4> QED BY <1>q, <2>2, <3>2
    <3> HIDE DEF vs
    <3>4. vs # << >> BY <2>13, <3>3, NotEmpty
    <3> QED BY <3>1, <3>3, <3>4
  <2>16. r.retained = s.retained BY <1>4, <2>7 DEF SameLeases
  <2> HIDE DEF vs
  <2>17. releasing(r, vs) \in RootWatchType /\ RootWatchRest(releasing(r, vs))
    BY <2>6, <2>11, <2>13, <2>15, <2>16, ReleasingKeeps
  <2> QED BY <1>11, <2>5, <2>12, <2>17 DEF p, sent1
<1> QED BY <1>10, <1>11

LEMMA FailedKeeps ==
    ASSUME NEW s \in RootWatchType, RootWatchRest(s)
    PROVE  LET t == operationOver(watchFinished(s)) IN t \in RootWatchType /\ RootWatchRest(t)
<1> DEFINE f == watchFinished(s)
<1>1. f \in RootWatchType /\ RootWatchRest(f) /\ f.settled BY FinishKeeps
<1> HIDE DEF f
<1>2. RootReady(f) BY <1>1 DEF RootReady, RootWatchRest
<1>3. operationOver(f) = releasing(f, << >>) /\ << >> \in Seq(Version) BY DEF releasing
<1>4. operationOver(f) \in RootWatchType /\ RootWatchRest(operationOver(f))
  BY <1>1, <1>2, <1>3, ReleasingKeeps
<1> QED BY <1>4 DEF f

LEMMA AcceptKeeps ==
    ASSUME NEW s \in RootWatchType, RootWatchRest(s), s.step = "idle", s.queue # << >>, Head(s.queue).kind = "accept"
    PROVE  LET p == [s EXCEPT !.queue = Tail(@)]
               version == Head(s.queue).version
               t == IF version \in Range(p.retained) THEN releasing(p, SubSeq(p.retained, 1, indexOf(p, version) - 1)) ELSE p
           IN t \in RootWatchType /\ RootWatchRest(t)
<1> DEFINE p == [s EXCEPT !.queue = Tail(@)]
           version == Head(s.queue).version
           i == indexOf(p, version)
           vs == SubSeq(p.retained, 1, i - 1)
<1>1. p \in RootWatchType /\ RootWatchRest(p) /\ RootReady(p) /\ p.retained = s.retained /\ p.settled = s.settled
  BY HeadTaken
<1>2. ~p.settled => Len(p.retained) <= MaxSuperseded + 1 BY <1>1 DEF RootWatchRest, SentInv
<1> HIDE DEF p, version
<1>3. CASE version \in Range(p.retained)
  <2>1. p.retained \in Seq(Version) BY <1>1 DEF RootWatchType
  <2>2. \E j \in DOMAIN p.retained : p.retained[j] = version BY <1>3, <2>1, RangeIs
  <2>3. i \in DOMAIN p.retained BY <2>2 DEF indexOf
  <2> HIDE DEF i
  <2>4. vs \in Seq(Version) BY <2>1, <2>3
  <2> HIDE DEF vs
  <2>5. releasing(p, vs) \in RootWatchType /\ RootWatchRest(releasing(p, vs))
    BY <1>1, <1>2, <2>4, ReleasingKeeps
  <2> QED BY <1>3, <2>5 DEF p, version, vs, i
<1>4. CASE version \notin Range(p.retained) BY <1>1, <1>4 DEF p, version
<1> QED BY <1>3, <1>4

LEMMA QueuedReleaseKeeps ==
    ASSUME NEW s \in RootWatchType, RootWatchRest(s), s.step = "idle", s.queue # << >>, Head(s.queue).kind = "release"
    PROVE  LET t == releasing([s EXCEPT !.queue = Tail(@)], <<Head(s.queue).version>>)
           IN t \in RootWatchType /\ RootWatchRest(t)
<1> DEFINE p == [s EXCEPT !.queue = Tail(@)]
           version == Head(s.queue).version
<1>1. /\ p \in RootWatchType /\ RootWatchRest(p) /\ RootReady(p) /\ p.retained = s.retained /\ p.settled = s.settled
      /\ Head(s.queue) \in RootOp
  BY HeadTaken
<1>2. ~p.settled => Len(p.retained) <= MaxSuperseded + 1 BY <1>1 DEF RootWatchRest, SentInv
<1>3. version \in Version BY <1>1 DEF RootOp, SendOp
<1> HIDE DEF p, version
<1>4. <<version>> \in Seq(Version) BY <1>3
<1>5. releasing(p, <<version>>) \in RootWatchType /\ RootWatchRest(releasing(p, <<version>>))
  BY <1>1, <1>2, <1>4, ReleasingKeeps
<1> QED BY <1>5 DEF p, version

LEMMA ReleaseKeeps ==
    ASSUME NEW s \in RootWatchType, RootWatchRest(s), s.step = "releasing"
    PROVE  LET t == releasing(released(s, Head(s.todo)), Tail(s.todo)) IN t \in RootWatchType /\ RootWatchRest(t)
<1> DEFINE v == Head(s.todo)
           vs == Tail(s.todo)
           r == released(s, v)
<1>1. s.todo \in Seq(Version) /\ s.todo # << >> /\ Len(s.retained) \in Nat
  BY DEF RootWatchType, RootWatchRest, RetainedInv
<1>2. v \in Version /\ v = s.todo[1] /\ vs \in Seq(Version) BY <1>1
<1>3. RootReady(s) BY DEF RootReady, RootWatchRest, SentInv, NewestInv
<1> HIDE DEF v, vs
<1>4. /\ r \in RootWatchType /\ RootReady(r) /\ r.settled = s.settled
      /\ Len(r.retained) <= Len(s.retained)
      /\ ~s.settled /\ Len(s.retained) > 1 /\ v = s.retained[1] => Len(r.retained) = Len(s.retained) - 1
  BY <1>2, <1>3, ReleasedKeeps
<1> HIDE DEF r
<1>5. ~r.settled => Len(r.retained) <= MaxSuperseded + 1
  <2>1. Len(r.retained) \in Nat BY <1>4 DEF RootWatchType
  <2> QED BY <1>1, <1>2, <1>4, <2>1, Versions DEF RootWatchRest, SentInv
<1>6. releasing(r, vs) \in RootWatchType /\ RootWatchRest(releasing(r, vs))
  BY <1>2, <1>4, <1>5, ReleasingKeeps
<1> QED BY <1>6 DEF r, v, vs

LEMMA RootWatchStep ==
    ASSUME RootWatchInv, [RootWatchNext]_rootWatch
    PROVE  RootWatchInv'
<1>a. rootWatch \in RootWatchType /\ RootWatchRest(rootWatch) BY DEF RootWatchInv
<1>b. SUFFICES rootWatch' \in RootWatchType /\ RootWatchRest(rootWatch')
  BY DEF RootWatchInv, RootWatchRest, RetainedInv, LeaseInv, SentInv, NewestInv, newest
<1>1. ASSUME NEW ref \in GraphRoot, PublishRoot(ref)
      PROVE  rootWatch' \in RootWatchType /\ RootWatchRest(rootWatch')
  BY <1>a, <1>1, RootPublished DEF PublishRoot
<1>2. ASSUME NEW v \in Version, RootTimerFires(v)
      PROVE  rootWatch' \in RootWatchType /\ RootWatchRest(rootWatch')
  <2>1. [kind |-> "release", version |-> v] \in RootOp /\ rootWatch.timers \ {v} \in SUBSET rootWatch.timers
    BY DEF RootOp
  <2> QED BY <1>a, <1>2, <2>1, RootEnqueued DEF RootTimerFires
<1>3. ASSUME NEW v \in Version, AcceptArrives(v)
      PROVE  rootWatch' \in RootWatchType /\ RootWatchRest(rootWatch')
  <2>1. [kind |-> "accept", version |-> v] \in RootOp /\ rootWatch.timers \in SUBSET rootWatch.timers
    BY DEF RootOp
  <2>2. [rootWatch EXCEPT !.timers = rootWatch.timers] = rootWatch BY <1>a DEF RootWatchType
  <2> QED BY <1>a, <1>3, <2>1, <2>2, RootEnqueued DEF AcceptArrives
<1>4. CASE RootWatchAborted BY <1>a, <1>4, FinishKeeps DEF RootWatchAborted
<1>5. CASE SendWanted BY <1>a, <1>5, WantedTaken DEF SendWanted
<1>6. CASE ClosureRetained
  <2>1. CASE rootWatch.settled BY <1>a, <1>6, <2>1, RetainedLate DEF ClosureRetained
  <2>2. CASE ~rootWatch.settled BY <1>a, <1>6, <2>2, RetainedNew DEF ClosureRetained
  <2> QED BY <2>1, <2>2
<1>7. CASE OfferSent BY <1>a, <1>7, SentKeeps DEF OfferSent
<1>8. CASE OperationFails BY <1>a, <1>8, FailedKeeps DEF OperationFails
<1>9. CASE AcceptRoot BY <1>a, <1>9, AcceptKeeps DEF AcceptRoot
<1>10. CASE ReleaseQueued BY <1>a, <1>10, QueuedReleaseKeeps DEF ReleaseQueued
<1>11. CASE ReleaseOffer BY <1>a, <1>11, ReleaseKeeps DEF ReleaseOffer
<1>12. CASE UNCHANGED rootWatch BY <1>a, <1>12
<1> QED BY <1>1, <1>2, <1>3, <1>4, <1>5, <1>6, <1>7, <1>8, <1>9, <1>10, <1>11, <1>12 DEF RootWatchNext

LEMMA OpsWidened ==
    ASSUME NEW S, NEW T, S \subseteq T, NEW q \in Seq(S)
    PROVE  q \in Seq(T)
<1>1. Len(q) \in Nat /\ \A i \in 1..Len(q) : q[i] \in T OBVIOUS
<1>2. q = [i \in 1..Len(q) |-> q[i]] OBVIOUS
<1> QED BY <1>1, <1>2

LEMMA RootWatchIsRight ==
    RootWatchInv => RootWatchTypeOK /\ LeasesAreDisposedOnce /\ SuccessorIsSentFirst /\ NewestRootIsSent
<1> SUFFICES ASSUME RootWatchInv
             PROVE  RootWatchTypeOK /\ LeasesAreDisposedOnce /\ SuccessorIsSentFirst /\ NewestRootIsSent
  OBVIOUS
<1>a. rootWatch \in RootWatchType /\ RootWatchRest(rootWatch) BY DEF RootWatchInv
<1>b. \A v \in 1..rootWatch.issued : v \in Version /\ v <= rootWatch.issued
  BY <1>a, Versions DEF RootWatchType, RootWatchRest, RetainedInv
<1>1. RootWatchTypeOK
  <2>1. RootOp \subseteq [kind : {"send", "accept", "release"}, version : 0..MaxOffer]
    BY Versions DEF RootOp, SendOp, Version
  <2>2. rootWatch.queue \in Seq([kind : {"send", "accept", "release"}, version : 0..MaxOffer])
    <3>1. rootWatch.queue \in Seq(RootOp) BY <1>a DEF RootWatchType
    <3> QED BY <2>1, <3>1, OpsWidened
  <2>3. rootWatch.issued \in 0..MaxOffer
    BY <1>a, Versions DEF RootWatchType, RootWatchRest, RetainedInv
  <2> QED BY <1>a, <2>2, <2>3 DEF RootWatchType, RootWatchTypeOK, RootRef
<1>2. LeasesAreDisposedOnce
  BY <1>a, <1>b DEF RootWatchRest, RetainedInv, LeaseInv, LeasesAreDisposedOnce
<1>3. SuccessorIsSentFirst BY <1>a, <1>b DEF RootWatchRest, SentInv, SuccessorIsSentFirst
<1>4. NewestRootIsSent BY <1>a DEF RootWatchRest, NewestInv, NewestRootIsSent
<1> QED BY <1>1, <1>2, <1>3, <1>4

-----------------------------------------------------------------------------
(* The client of a graph (GraphClient).                                    *)

PinState == {"none", "asking", "accepting", "live", "failed"}

ObjectState == {"loading", "ready", "error"}

RootOffer == [version : Nat, waits : SUBSET GraphRef]

GraphType ==
    [connected : BOOLEAN, disposed : BOOLEAN, epoch : Epoch, demands : Nat, known : SUBSET GraphRef,
     users : [GraphRef -> Nat], state : [GraphRef -> ObjectState], error : SUBSET GraphRef,
     branch : SUBSET GraphRef, pin : [GraphRef -> PinState], pending : SUBSET GraphRef,
     inFlight : [GraphRef -> Nat], scheduled : BOOLEAN, running : Nat, batch : [Epoch -> SUBSET GraphRef],
     offered : Nat, offers : SUBSET RootOffer, applied : Nat, root : ObjectState]

\* The loop of _flush() of this epoch runs while, and only while, it awaits a batch, over a
\* connection; what is in flight is in that batch; no later epoch has a batch.
FlightInv(g) ==
    /\ g.running <= g.epoch /\ (g.connected => ~g.disposed)
    /\ \A e \in Epoch : e > g.epoch => g.batch[e] = {}
    /\ g.running = g.epoch <=> g.batch[g.epoch] # {}
    /\ g.batch[g.epoch] # {} => g.connected
    /\ \A r \in GraphRef : g.inFlight[r] # 0 => g.inFlight[r] = g.epoch /\ r \in g.batch[g.epoch]

\* NoIdleDemand and LoadingIsUnderWay, of a state that may be in the middle of a step.
DemandInv(g) ==
    \A r \in GraphRef : g.pin[r] # "none" \/ r \in g.pending => g.users[r] > 0 /\ g.connected

UnderWayInv(g) ==
    \A r \in GraphRef :
        g.users[r] > 0 /\ g.connected /\ g.state[r] = "loading" =>
            \/ g.pin[r] \in {"asking", "accepting"}
            \/ r \in g.batch[g.epoch]
            \/ r \in g.pending /\ (g.scheduled \/ g.batch[g.epoch] # {})

GraphRest(g) == FlightInv(g) /\ DemandInv(g) /\ UnderWayInv(g)

GraphInv == graph \in GraphType /\ GraphRest(graph)

\* What the helpers of the client leave alone.
SameLink(g, h) == h.connected = g.connected /\ h.disposed = g.disposed /\ h.epoch = g.epoch

SameFetch(g, h) ==
    h.pending = g.pending /\ h.inFlight = g.inFlight /\ h.scheduled = g.scheduled /\ h.running = g.running
    /\ h.batch = g.batch

SameShown(g, h) == h.applied = g.applied /\ h.offered = g.offered

SameUse(g, h) == SameLink(g, h) /\ SameFetch(g, h) /\ h.users = g.users /\ h.state = g.state

\* No root that is older is shown.
RootKept(g, h) == h.applied < g.applied => h.applied = 0 /\ h.offered = 0

LEMMA ShownIsKept ==
    ASSUME NEW g \in GraphType, NEW h, SameShown(g, h)
    PROVE  RootKept(g, h)
BY DEF GraphType, SameShown, RootKept

LEMMA PinIsSettled ==
    ASSUME NEW g \in GraphType, NEW refs
    PROVE  LET h == pinSettled(g, refs) IN
           h \in GraphType /\ SameUse(g, h) /\ SameShown(g, h) /\ h.pin = g.pin /\ h.error = g.error /\ h.branch = g.branch
<1> DEFINE h == pinSettled(g, refs)
           offers1 == {[o EXCEPT !.waits = @ \ refs] : o \in g.offers}
<1>1. h = [g EXCEPT !.offers = offers1] BY DEF pinSettled
<1>2. offers1 \in SUBSET RootOffer BY DEF GraphType, RootOffer
<1> HIDE DEF h, offers1
<1>3. h \in GraphType BY <1>1, <1>2 DEF GraphType
<1>4. SameUse(g, h) /\ SameShown(g, h) /\ h.pin = g.pin /\ h.error = g.error /\ h.branch = g.branch
  BY <1>1, <1>2 DEF GraphType, SameUse, SameLink, SameFetch, SameShown
<1> QED BY <1>3, <1>4 DEF h

LEMMA PinIsDisposed ==
    ASSUME NEW g \in GraphType, NEW refs
    PROVE  LET h == pinDisposed(g, refs) IN
           /\ h \in GraphType /\ SameUse(g, h) /\ SameShown(g, h) /\ h.error = g.error /\ h.branch = g.branch
           /\ \A r \in GraphRef : h.pin[r] = IF r \in refs THEN "none" ELSE g.pin[r]
<1> DEFINE pin1 == [r \in GraphRef |-> IF r \in refs THEN "none" ELSE g.pin[r]]
           p == [g EXCEPT !.pin = pin1]
           h == pinSettled(p, refs)
<1>1. pinDisposed(g, refs) = h BY DEF pinDisposed
<1>2. pin1 \in [GraphRef -> PinState] /\ \A r \in GraphRef : pin1[r] = IF r \in refs THEN "none" ELSE g.pin[r]
  BY DEF GraphType, PinState
<1> HIDE DEF pin1
<1>3. p \in GraphType BY <1>2 DEF GraphType
<1>4. SameUse(g, p) /\ SameShown(g, p) /\ p.pin = pin1 /\ p.error = g.error /\ p.branch = g.branch
  BY <1>2 DEF GraphType, SameUse, SameLink, SameFetch, SameShown
<1> HIDE DEF p
<1>5. h \in GraphType /\ SameUse(p, h) /\ SameShown(p, h) /\ h.pin = p.pin /\ h.error = p.error /\ h.branch = p.branch
  BY <1>3, PinIsSettled
<1> HIDE DEF h
<1> QED BY <1>1, <1>2, <1>4, <1>5 DEF SameUse, SameLink, SameFetch, SameShown

LEMMA EntriesFail ==
    ASSUME NEW g \in GraphType, NEW refs \in SUBSET GraphRef
    PROVE  LET h == entriesFailed(g, refs) IN
           /\ h \in GraphType /\ SameLink(g, h) /\ SameFetch(g, h) /\ SameShown(g, h)
           /\ h.users = g.users /\ h.pin = g.pin
           /\ \A r \in GraphRef : h.state[r] = IF r \in refs /\ g.state[r] # "ready" THEN "error" ELSE g.state[r]
<1> DEFINE error1 == g.error \cup refs
           state1 == [r \in GraphRef |-> IF r \in refs /\ g.state[r] # "ready" THEN "error" ELSE g.state[r]]
           h == entriesFailed(g, refs)
<1>1. h = [g EXCEPT !.error = error1, !.state = state1] BY DEF entriesFailed
<1>2. /\ error1 \in SUBSET GraphRef /\ state1 \in [GraphRef -> ObjectState]
      /\ \A r \in GraphRef : state1[r] = IF r \in refs /\ g.state[r] # "ready" THEN "error" ELSE g.state[r]
  BY DEF GraphType, ObjectState
<1> HIDE DEF h, error1, state1
<1>3. h \in GraphType BY <1>1, <1>2 DEF GraphType
<1>4. /\ SameLink(g, h) /\ SameFetch(g, h) /\ SameShown(g, h) /\ h.users = g.users /\ h.pin = g.pin /\ h.state = state1
  BY <1>1, <1>2 DEF GraphType, SameLink, SameFetch, SameShown
<1> QED BY <1>2, <1>3, <1>4 DEF h

LEMMA ObjectsPinned ==
    ASSUME NEW g \in GraphType, NEW refs
    PROVE  LET h == pinned(g, refs) IN
           /\ h \in GraphType /\ SameUse(g, h) /\ SameShown(g, h)
           /\ \A r \in GraphRef :
                h.pin[r] = IF r \in refs /\ (r \in g.branch \/ g.state[r] # "ready") THEN "asking" ELSE g.pin[r]
<1> DEFINE pin1 == [r \in GraphRef |->
                      IF r \in refs /\ (r \in g.branch \/ g.state[r] # "ready") THEN "asking" ELSE g.pin[r]]
           h == pinned(g, refs)
<1>1. h = [g EXCEPT !.pin = pin1] BY DEF pinned
<1>2. /\ pin1 \in [GraphRef -> PinState]
      /\ \A r \in GraphRef :
            pin1[r] = IF r \in refs /\ (r \in g.branch \/ g.state[r] # "ready") THEN "asking" ELSE g.pin[r]
  BY DEF GraphType, PinState
<1> HIDE DEF h, pin1
<1>3. h \in GraphType BY <1>1, <1>2 DEF GraphType
<1>4. SameUse(g, h) /\ SameShown(g, h) /\ h.pin = pin1
  BY <1>1, <1>2 DEF GraphType, SameUse, SameLink, SameFetch, SameShown
<1> QED BY <1>2, <1>3, <1>4 DEF h

LEMMA EntriesGo ==
    ASSUME NEW g \in GraphType, NEW choice
    PROVE  LET h == entriesEvicted(g, choice) IN
           /\ h \in GraphType /\ SameLink(g, h) /\ SameFetch(g, h) /\ SameShown(g, h)
           /\ h.users = g.users /\ h.pin = g.pin
           /\ \A r \in GraphRef : g.users[r] > 0 => h.state[r] = g.state[r]
<1> DEFINE idle == {r \in g.known \ inUse(g) : g.inFlight[r] = 0}
           gone == {r \in idle : g.state[r] # "ready" \/ r \in choice}
           known1 == g.known \ gone
           error1 == g.error \ gone
           branch1 == g.branch \cup gone
           state1 == [r \in GraphRef |-> IF r \in gone THEN "loading" ELSE g.state[r]]
           h == entriesEvicted(g, choice)
<1>1. h = [g EXCEPT !.known = known1, !.error = error1, !.branch = branch1, !.state = state1]
  BY DEF entriesEvicted
<1>2. gone \subseteq GraphRef /\ \A r \in GraphRef : g.users[r] > 0 => r \notin gone
  BY DEF inUse, GraphType
<1> HIDE DEF gone
<1>3. /\ known1 \in SUBSET GraphRef /\ error1 \in SUBSET GraphRef /\ branch1 \in SUBSET GraphRef
      /\ state1 \in [GraphRef -> ObjectState] /\ \A r \in GraphRef : g.users[r] > 0 => state1[r] = g.state[r]
  BY <1>2 DEF GraphType, ObjectState
<1> HIDE DEF h, known1, error1, branch1, state1
<1>4. h \in GraphType BY <1>1, <1>3 DEF GraphType
<1>5. /\ SameLink(g, h) /\ SameFetch(g, h) /\ SameShown(g, h) /\ h.users = g.users /\ h.pin = g.pin /\ h.state = state1
  BY <1>1, <1>3 DEF GraphType, SameLink, SameFetch, SameShown
<1> QED BY <1>3, <1>4, <1>5 DEF h

LEMMA FlushIsScheduled ==
    ASSUME NEW g \in GraphType
    PROVE  LET h == flushScheduled(g) IN
           /\ h \in GraphType /\ SameLink(g, h) /\ SameShown(g, h)
           /\ h.users = g.users /\ h.state = g.state /\ h.pin = g.pin /\ h.pending = g.pending
           /\ h.inFlight = g.inFlight /\ h.running = g.running /\ h.batch = g.batch
           /\ h.scheduled <=> (g.scheduled \/ (g.running # g.epoch /\ ~g.disposed))
<1> DEFINE scheduled1 == g.scheduled \/ (g.running # g.epoch /\ ~g.disposed)
           h == flushScheduled(g)
<1>1. h = [g EXCEPT !.scheduled = scheduled1] BY DEF flushScheduled
<1>2. scheduled1 \in BOOLEAN BY DEF GraphType
<1> HIDE DEF h, scheduled1
<1>3. h \in GraphType BY <1>1, <1>2 DEF GraphType
<1>4. /\ SameLink(g, h) /\ SameShown(g, h)
      /\ h.users = g.users /\ h.state = g.state /\ h.pin = g.pin /\ h.pending = g.pending
      /\ h.inFlight = g.inFlight /\ h.running = g.running /\ h.batch = g.batch /\ h.scheduled = scheduled1
  BY <1>1, <1>2 DEF GraphType, SameLink, SameShown
<1> QED BY <1>3, <1>4 DEF h, scheduled1

LEMMA GraphInitial == GraphInit => GraphInv
<1> SUFFICES ASSUME GraphInit PROVE GraphInv
  OBVIOUS
<1>1. 1 \in Epoch /\ Epoch \subseteq Nat BY GraphAssumption DEF Epoch
<1>2. graph \in GraphType BY <1>1 DEF GraphInit, GraphType, ObjectState, PinState
<1>3. GraphRest(graph) BY <1>1 DEF GraphInit, GraphRest, FlightInv, DemandInv, UnderWayInv
<1> QED BY <1>2, <1>3 DEF GraphInv

LEMMA Epochs == MaxEpoch \in Nat /\ Epoch \subseteq Nat /\ 0 \notin Epoch /\ \A e \in Nat : e \in Epoch <=> 1 <= e /\ e <= MaxEpoch
BY GraphAssumption DEF Epoch

\* The connection is gone, or about to be replaced: nothing is demanded over it any more.
LEMMA GraphIsDetached ==
    ASSUME NEW g \in GraphType, FlightInv(g), g.epoch < MaxEpoch
    PROVE  LET h == graphDetached(g) IN
           /\ h \in GraphType /\ GraphRest(h) /\ ~h.connected /\ h.disposed = g.disposed /\ h.applied = 0 /\ h.offered = 0
           /\ h.batch[h.epoch] = {} /\ \A r \in GraphRef : h.pin[r] = "none"
<1> DEFINE p == pinDisposed(g, GraphRef)
           epoch1 == p.epoch + 1
           flight1 == [r \in GraphRef |-> 0]
           d == [p EXCEPT !.epoch = epoch1, !.connected = FALSE, !.pending = {}, !.inFlight = flight1,
                          !.offers = {}, !.offered = 0, !.applied = 0]
           h == entriesEvicted(d, {})
<1>1. graphDetached(g) = h BY DEF graphDetached
<1>2. /\ p \in GraphType /\ SameUse(g, p) /\ \A r \in GraphRef : p.pin[r] = "none" BY PinIsDisposed
<1> HIDE DEF p
<1>3. epoch1 \in Epoch /\ epoch1 = g.epoch + 1 /\ g.epoch \in Nat
  <2>1. p.epoch = g.epoch BY <1>2 DEF SameUse, SameLink
  <2>2. g.epoch \in Nat /\ 1 <= g.epoch BY Epochs DEF GraphType
  <2> QED BY <2>1, <2>2, Epochs
<1>4. flight1 \in [GraphRef -> Nat] /\ \A r \in GraphRef : flight1[r] = 0 OBVIOUS
<1> HIDE DEF epoch1, flight1
<1>5. d \in GraphType BY <1>2, <1>3, <1>4 DEF GraphType
<1>6. /\ d.epoch = epoch1 /\ d.connected = FALSE /\ d.disposed = p.disposed /\ d.pending = {} /\ d.inFlight = flight1
      /\ d.running = p.running /\ d.batch = p.batch /\ d.pin = p.pin /\ d.users = p.users /\ d.applied = 0 /\ d.offered = 0
  BY <1>2, <1>3, <1>4 DEF GraphType
<1> HIDE DEF d
<1>7. /\ h \in GraphType /\ SameLink(d, h) /\ SameFetch(d, h) /\ SameShown(d, h) /\ h.users = d.users /\ h.pin = d.pin
  BY <1>5, EntriesGo
<1> HIDE DEF h
<1>8. /\ h.epoch = g.epoch + 1 /\ h.connected = FALSE /\ h.disposed = g.disposed /\ h.pending = {} /\ h.inFlight = flight1
      /\ h.running = g.running /\ h.batch = g.batch /\ h.applied = 0 /\ h.offered = 0
      /\ \A r \in GraphRef : h.pin[r] = "none"
  BY <1>2, <1>3, <1>6, <1>7 DEF SameUse, SameLink, SameFetch, SameShown
<1>9. h.batch[h.epoch] = {} /\ \A e \in Epoch : e > h.epoch => h.batch[e] = {}
  BY <1>3, <1>8, Epochs DEF FlightInv
<1>10. FlightInv(h)
  <2>1. g.running \in Nat /\ g.running <= g.epoch BY DEF FlightInv, GraphType
  <2>2. h.running <= h.epoch /\ h.running # h.epoch BY <1>3, <1>8, <2>1
  <2> QED BY <1>4, <1>8, <1>9, <2>2 DEF FlightInv
<1>11. DemandInv(h) /\ UnderWayInv(h) BY <1>8 DEF DemandInv, UnderWayInv
<1> QED BY <1>1, <1>7, <1>8, <1>9, <1>10, <1>11 DEF GraphRest

\* What holds when the loop of _flush() of this epoch looks for its next batch.
LoopReady(g) ==
    /\ g.running = g.epoch /\ (g.connected => ~g.disposed)
    /\ \A e \in Epoch : e > g.epoch => g.batch[e] = {}
    /\ \A r \in GraphRef : g.inFlight[r] = 0
    /\ DemandInv(g)
    /\ \A r \in GraphRef :
        g.users[r] > 0 /\ g.connected /\ g.state[r] = "loading" =>
            g.pin[r] \in {"asking", "accepting"} \/ r \in g.pending

\* The loop ends.
LoopEnd(g, e) ==
    LET over == [[g EXCEPT !.batch[e] = {}] EXCEPT !.running = IF @ = e THEN 0 ELSE @]
    IN IF over.pending # {} THEN flushScheduled(over) ELSE over

LEMMA LoopOver ==
    ASSUME NEW g \in GraphType, NEW e \in Epoch
    PROVE  LET h == LoopEnd(g, e)
           IN  /\ h \in GraphType /\ SameLink(g, h) /\ SameShown(g, h)
               /\ h.users = g.users /\ h.state = g.state /\ h.pin = g.pin /\ h.pending = g.pending
               /\ h.inFlight = g.inFlight /\ h.running = (IF g.running = e THEN 0 ELSE g.running)
               /\ h.batch = [g.batch EXCEPT ![e] = {}]
               /\ g.scheduled => h.scheduled
<1> DEFINE batch1 == [g.batch EXCEPT ![e] = {}]
           running1 == IF g.running = e THEN 0 ELSE g.running
           over == [g EXCEPT !.batch = batch1, !.running = running1]
           h == IF over.pending # {} THEN flushScheduled(over) ELSE over
<1>1. [[g EXCEPT !.batch[e] = {}] EXCEPT !.running = IF @ = e THEN 0 ELSE @] = over BY DEF GraphType
<1>6. LoopEnd(g, e) = h BY <1>1 DEF LoopEnd
<1>2. batch1 \in [Epoch -> SUBSET GraphRef] /\ running1 \in Nat BY DEF GraphType
<1> HIDE DEF batch1, running1
<1>3. over \in GraphType BY <1>2 DEF GraphType
<1>4. /\ SameLink(g, over) /\ SameShown(g, over)
      /\ over.users = g.users /\ over.state = g.state /\ over.pin = g.pin /\ over.pending = g.pending
      /\ over.inFlight = g.inFlight /\ over.running = running1 /\ over.batch = batch1 /\ over.scheduled = g.scheduled
  BY <1>2 DEF GraphType, SameLink, SameShown
<1> HIDE DEF over
<1>5. /\ h \in GraphType /\ SameLink(over, h) /\ SameShown(over, h)
      /\ h.users = over.users /\ h.state = over.state /\ h.pin = over.pin /\ h.pending = over.pending
      /\ h.inFlight = over.inFlight /\ h.running = over.running /\ h.batch = over.batch
      /\ over.scheduled => h.scheduled
  <2>1. CASE over.pending # {} BY <1>3, <2>1, FlushIsScheduled
  <2>2. CASE over.pending = {} BY <1>3, <2>2 DEF SameLink, SameShown
  <2> QED BY <2>1, <2>2
<1> HIDE DEF h
<1>7. SameLink(g, h) /\ SameShown(g, h) BY <1>4, <1>5 DEF SameLink, SameShown
<1> QED BY <1>4, <1>5, <1>6, <1>7 DEF batch1, running1

LEMMA LoopKeeps ==
    ASSUME NEW g \in GraphType, LoopReady(g), NEW h \in flushLoops(g, g.epoch)
    PROVE  h \in GraphType /\ GraphRest(h) /\ SameShown(g, h)
<1> DEFINE e == g.epoch
           wanted == g.pending \cap inUse(g)
<1>a. e \in Epoch /\ e \in Nat /\ e # 0 BY Epochs DEF GraphType
<1>b. g.batch \in [Epoch -> SUBSET GraphRef] BY DEF GraphType
<1>1. CASE g.disposed \/ wanted = {}
  <2>1. h = LoopEnd(g, e) BY <1>1 DEF flushLoops, LoopEnd
  <2>2. /\ h \in GraphType /\ SameLink(g, h) /\ SameShown(g, h)
        /\ h.users = g.users /\ h.state = g.state /\ h.pin = g.pin /\ h.pending = g.pending
        /\ h.inFlight = g.inFlight /\ h.running = (IF g.running = e THEN 0 ELSE g.running)
        /\ h.batch = [g.batch EXCEPT ![e] = {}]
    BY <1>a, <2>1, LoopOver
  <2>3. g.connected => g.pending = {} BY <1>1 DEF LoopReady, DemandInv, inUse, GraphType
  <2>4. h.running = 0 /\ h.epoch = e /\ h.batch[e] = {} /\ \A f \in Epoch : f > e => h.batch[f] = {}
    BY <1>a, <1>b, <2>2 DEF LoopReady, SameLink
  <2>5. FlightInv(h) BY <1>a, <2>2, <2>4 DEF FlightInv, LoopReady, SameLink
  <2>6. DemandInv(h) BY <2>2 DEF DemandInv, LoopReady, SameLink
  <2>7. UnderWayInv(h) BY <2>2, <2>3 DEF UnderWayInv, LoopReady, SameLink
  <2> QED BY <2>2, <2>5, <2>6, <2>7 DEF GraphRest
<1>2. CASE ~(g.disposed \/ wanted = {})
  <2>1. PICK b \in SUBSET wanted :
          /\ Cardinality(b) = MaxBatch \/ b = wanted
          /\ h = [g EXCEPT !.batch[e] = b, !.pending = @ \ b,
                           !.inFlight = [r \in GraphRef |-> IF r \in b THEN e ELSE @[r]]]
    BY <1>2 DEF flushLoops
  <2>2. b # {} BY <1>2, <2>1, FS_EmptySet, GraphAssumption
  <2>3. b \subseteq GraphRef /\ g.connected BY <2>1, <2>2 DEF GraphType, LoopReady, DemandInv
  <2> DEFINE batch1 == [g.batch EXCEPT ![e] = b]
             pending1 == g.pending \ b
             flight1 == [r \in GraphRef |-> IF r \in b THEN e ELSE g.inFlight[r]]
  <2>4. h = [g EXCEPT !.batch = batch1, !.pending = pending1, !.inFlight = flight1]
    BY <2>1 DEF GraphType
  <2>5. /\ batch1 \in [Epoch -> SUBSET GraphRef] /\ batch1[e] = b /\ \A f \in Epoch : f # e => batch1[f] = g.batch[f]
        /\ pending1 \in SUBSET GraphRef /\ flight1 \in [GraphRef -> Nat]
        /\ \A r \in GraphRef : flight1[r] = IF r \in b THEN e ELSE 0
    BY <1>a, <1>b, <2>3 DEF GraphType, LoopReady
  <2>6. pending1 \subseteq g.pending /\ \A r \in g.pending : r \in b \/ r \in pending1 OBVIOUS
  <2> HIDE DEF batch1, pending1, flight1, wanted, e
  <2>7. h \in GraphType BY <2>4, <2>5 DEF GraphType
  <2>8. /\ SameLink(g, h) /\ SameShown(g, h) /\ h.users = g.users /\ h.state = g.state /\ h.pin = g.pin
        /\ h.pending = pending1 /\ h.inFlight = flight1 /\ h.running = g.running /\ h.batch = batch1
    BY <2>4, <2>5 DEF GraphType, SameLink, SameShown
  <2>9. h.epoch = e /\ h.running = e /\ h.connected BY <2>3, <2>8 DEF SameLink, LoopReady, e
  <2>10. FlightInv(h)
    <3>1. \A f \in Epoch : f > h.epoch => h.batch[f] = {}
      BY <1>a, <2>5, <2>8, <2>9, Epochs DEF LoopReady, e
    <3>2. h.connected => ~h.disposed BY <2>8 DEF SameLink, LoopReady
    <3>3. h.running <= h.epoch BY <1>a, <2>9
    <3> QED BY <2>2, <2>5, <2>8, <2>9, <3>1, <3>2, <3>3 DEF FlightInv
  <2>11. DemandInv(h) BY <2>6, <2>8 DEF DemandInv, LoopReady, SameLink
  <2>12. UnderWayInv(h) BY <2>2, <2>5, <2>6, <2>8, <2>9 DEF UnderWayInv, LoopReady, SameLink
  <2> QED BY <2>7, <2>8, <2>10, <2>11, <2>12 DEF GraphRest
<1> QED BY <1>1, <1>2

\* The end of a loop of a former epoch.
LEMMA FormerLoopKeeps ==
    ASSUME NEW g \in GraphType, GraphRest(g), NEW e \in Epoch, e # g.epoch, NEW h \in flushLoops(g, e)
    PROVE  h \in GraphType /\ GraphRest(h) /\ SameShown(g, h)
<1>1. h = LoopEnd(g, e) BY DEF flushLoops, LoopEnd
<1>2. /\ h \in GraphType /\ SameLink(g, h) /\ SameShown(g, h)
      /\ h.users = g.users /\ h.state = g.state /\ h.pin = g.pin /\ h.pending = g.pending
      /\ h.inFlight = g.inFlight /\ h.running = (IF g.running = e THEN 0 ELSE g.running)
      /\ h.batch = [g.batch EXCEPT ![e] = {}]
      /\ g.scheduled => h.scheduled
  BY <1>1, LoopOver
<1>3. g.epoch \in Epoch /\ g.epoch \in Nat /\ g.epoch # 0 /\ g.running \in Nat
  BY Epochs DEF GraphType
<1>4. h.batch[g.epoch] = g.batch[g.epoch] /\ \A f \in Epoch : h.batch[f] = g.batch[f] \/ h.batch[f] = {}
  BY <1>2, <1>3 DEF GraphType
<1>5. h.running <= g.epoch /\ (h.running = g.epoch <=> g.running = g.epoch)
  BY <1>2, <1>3 DEF GraphRest, FlightInv
<1>6. FlightInv(h) BY <1>2, <1>4, <1>5 DEF GraphRest, FlightInv, SameLink
<1>7. DemandInv(h) BY <1>2 DEF GraphRest, DemandInv, SameLink
<1>8. UnderWayInv(h) BY <1>2, <1>4 DEF GraphRest, UnderWayInv, SameLink
<1> QED BY <1>2, <1>6, <1>7, <1>8 DEF GraphRest

\* A batch is answered or fails: nothing is in flight any more, and the loop goes on.
LEMMA BatchEnds ==
    ASSUME NEW g \in GraphType, FlightInv(g), DemandInv(g), g.batch[g.epoch] # {},
           \A r \in GraphRef :
               g.users[r] > 0 /\ g.state[r] = "loading" => g.pin[r] \in {"asking", "accepting"} \/ r \in g.pending,
           NEW choice, NEW h \in flushLoops(entriesEvicted(batchOver(g, g.epoch), choice), g.epoch)
    PROVE  h \in GraphType /\ GraphRest(h) /\ SameShown(g, h)
<1> DEFINE flight1 == [r \in GraphRef |-> IF r \in g.batch[g.epoch] /\ g.inFlight[r] = g.epoch THEN 0 ELSE g.inFlight[r]]
           o == batchOver(g, g.epoch)
           v == entriesEvicted(o, choice)
<1>1. o = [g EXCEPT !.inFlight = flight1] BY DEF batchOver
<1>2. flight1 \in [GraphRef -> Nat] /\ \A r \in GraphRef : flight1[r] = 0
  BY DEF GraphType, FlightInv
<1> HIDE DEF o, flight1
<1>3. o \in GraphType BY <1>1, <1>2 DEF GraphType
<1>4. /\ SameLink(g, o) /\ SameShown(g, o) /\ o.users = g.users /\ o.state = g.state /\ o.pin = g.pin
      /\ o.pending = g.pending /\ o.inFlight = flight1 /\ o.running = g.running /\ o.batch = g.batch
  BY <1>1, <1>2 DEF GraphType, SameLink, SameShown
<1>5. /\ v \in GraphType /\ SameLink(o, v) /\ SameFetch(o, v) /\ SameShown(o, v)
      /\ v.users = o.users /\ v.pin = o.pin
      /\ \A r \in GraphRef : o.users[r] > 0 => v.state[r] = o.state[r]
  BY <1>3, EntriesGo
<1>6. h \in flushLoops(v, v.epoch) BY <1>4, <1>5 DEF SameLink, o
<1> HIDE DEF v
<1>7. /\ v.epoch = g.epoch /\ v.connected = g.connected /\ v.disposed = g.disposed /\ v.running = g.running
      /\ v.batch = g.batch /\ v.pending = g.pending /\ v.users = g.users /\ v.pin = g.pin
      /\ \A r \in GraphRef : v.inFlight[r] = 0
      /\ \A r \in GraphRef : g.users[r] > 0 => v.state[r] = g.state[r]
  BY <1>2, <1>4, <1>5 DEF SameLink, SameFetch
<1>8. LoopReady(v) BY <1>7 DEF LoopReady, FlightInv, DemandInv
<1>9. h \in GraphType /\ GraphRest(h) /\ SameShown(v, h) BY <1>5, <1>6, <1>8, LoopKeeps
<1> QED BY <1>4, <1>5, <1>9 DEF SameShown

\* Fetches and the connection as they were.
LEMMA FlightKept ==
    ASSUME NEW g, NEW h, FlightInv(g), SameLink(g, h), h.inFlight = g.inFlight, h.running = g.running, h.batch = g.batch
    PROVE  FlightInv(h)
BY DEF FlightInv, SameLink

\* What the actions do to a state of the client.

LEMMA AcquireKeeps ==
    ASSUME NEW s \in GraphType, GraphRest(s), NEW r \in GraphRef
    PROVE  LET g == [s EXCEPT !.demands = @ + 1, !.known = @ \cup {r}, !.users[r] = @ + 1]
               h == IF g.pin[r] = "none" /\ g.connected THEN pinned(g, {r}) ELSE g
           IN h \in GraphType /\ GraphRest(h) /\ SameShown(s, h)
<1> DEFINE demands1 == s.demands + 1
           known1 == s.known \cup {r}
           users1 == [s.users EXCEPT ![r] = @ + 1]
           g == [s EXCEPT !.demands = demands1, !.known = known1, !.users = users1]
           h == IF g.pin[r] = "none" /\ g.connected THEN pinned(g, {r}) ELSE g
<1>1. [s EXCEPT !.demands = @ + 1, !.known = @ \cup {r}, !.users[r] = @ + 1] = g BY DEF GraphType
<1>2. /\ demands1 \in Nat /\ known1 \in SUBSET GraphRef /\ users1 \in [GraphRef -> Nat]
      /\ users1[r] > 0 /\ \A q \in GraphRef : users1[q] # s.users[q] => q = r
      /\ s.users \in [GraphRef -> Nat]
  BY DEF GraphType
<1> HIDE DEF demands1, known1, users1
<1>3. g \in GraphType BY <1>2 DEF GraphType
<1>4. /\ SameLink(s, g) /\ SameFetch(s, g) /\ SameShown(s, g) /\ g.users = users1 /\ g.state = s.state /\ g.pin = s.pin
  BY <1>2 DEF GraphType, SameLink, SameFetch, SameShown
<1> HIDE DEF g
<1>5. FlightInv(g) /\ DemandInv(g)
  <2>1. FlightInv(g) BY <1>4, FlightKept DEF GraphRest, SameFetch
  <2>2. DemandInv(g) BY <1>2, <1>4 DEF GraphRest, DemandInv, SameLink, SameFetch
  <2> QED BY <2>1, <2>2
<1>6. CASE g.pin[r] = "none" /\ g.connected
  <2>1. /\ h \in GraphType /\ SameUse(g, h) /\ SameShown(g, h)
        /\ \A q \in GraphRef :
             h.pin[q] = IF q \in {r} /\ (q \in g.branch \/ g.state[q] # "ready") THEN "asking" ELSE g.pin[q]
    BY <1>3, <1>6, ObjectsPinned
  <2> HIDE DEF h
  <2>2. FlightInv(h) BY <1>5, <2>1, FlightKept DEF SameUse, SameFetch
  <2>3. DemandInv(h) BY <1>2, <1>4, <1>5, <1>6, <2>1 DEF DemandInv, SameUse, SameLink, SameFetch
  <2>4. UnderWayInv(h) BY <1>2, <1>4, <2>1 DEF GraphRest, UnderWayInv, SameUse, SameLink, SameFetch
  <2>5. SameShown(s, h) BY <1>4, <2>1 DEF SameShown
  <2> QED BY <1>1, <2>1, <2>2, <2>3, <2>4, <2>5 DEF GraphRest, h
<1>7. CASE ~(g.pin[r] = "none" /\ g.connected)
  <2>1. h = g BY <1>7
  <2>2. UnderWayInv(g)
    BY <1>2, <1>4, <1>7 DEF GraphRest, UnderWayInv, DemandInv, SameLink, SameFetch
  <2> QED BY <1>1, <1>3, <1>4, <1>5, <2>1, <2>2 DEF GraphRest
<1> QED BY <1>6, <1>7

LEMMA HandleKeeps ==
    ASSUME NEW s \in GraphType, GraphRest(s), NEW r \in GraphRef, s.users[r] > 0, NEW choice
    PROVE  LET g == [s EXCEPT !.users[r] = @ - 1]
               h == entriesEvicted(IF g.users[r] = 0 THEN [pinDisposed(g, {r}) EXCEPT !.pending = @ \ {r}] ELSE g, choice)
           IN h \in GraphType /\ GraphRest(h) /\ SameShown(s, h)
<1> DEFINE users1 == [s.users EXCEPT ![r] = @ - 1]
           g == [s EXCEPT !.users = users1]
           p == pinDisposed(g, {r})
           pending1 == p.pending \ {r}
           d == [p EXCEPT !.pending = pending1]
           m == IF g.users[r] = 0 THEN d ELSE g
           h == entriesEvicted(m, choice)
<1>1. [s EXCEPT !.users[r] = @ - 1] = g BY DEF GraphType
<1>2. /\ users1 \in [GraphRef -> Nat] /\ \A q \in GraphRef : q # r => users1[q] = s.users[q]
      /\ s.users \in [GraphRef -> Nat]
  BY DEF GraphType
<1> HIDE DEF users1
<1>3. g \in GraphType BY <1>2 DEF GraphType
<1>4. /\ SameLink(s, g) /\ SameFetch(s, g) /\ SameShown(s, g) /\ g.users = users1 /\ g.state = s.state /\ g.pin = s.pin
  BY <1>2 DEF GraphType, SameLink, SameFetch, SameShown
<1> HIDE DEF g
<1>5. /\ m \in GraphType /\ SameLink(s, m) /\ SameShown(s, m) /\ m.users = users1 /\ m.state = s.state
      /\ m.inFlight = s.inFlight /\ m.running = s.running /\ m.batch = s.batch /\ m.scheduled = s.scheduled
      /\ \A q \in GraphRef : users1[q] > 0 => m.pin[q] = s.pin[q] /\ (q \in m.pending <=> q \in s.pending)
      /\ \A q \in GraphRef : users1[q] = 0 /\ q = r => m.pin[q] = "none" /\ q \notin m.pending
      /\ \A q \in GraphRef : q # r => m.pin[q] = s.pin[q] /\ (q \in m.pending <=> q \in s.pending)
  <2>1. CASE g.users[r] = 0
    <3>1. /\ p \in GraphType /\ SameUse(g, p) /\ SameShown(g, p)
          /\ \A q \in GraphRef : p.pin[q] = IF q \in {r} THEN "none" ELSE g.pin[q]
      BY <1>3, PinIsDisposed
    <3>2. pending1 \in SUBSET GraphRef /\ \A q : q \in pending1 <=> q \in p.pending /\ q # r
      BY <3>1 DEF GraphType
    <3> HIDE DEF p, pending1
    <3>3. d \in GraphType BY <3>1, <3>2 DEF GraphType
    <3>4. /\ SameLink(p, d) /\ SameShown(p, d) /\ d.users = p.users /\ d.state = p.state /\ d.pin = p.pin
          /\ d.pending = pending1 /\ d.inFlight = p.inFlight /\ d.running = p.running /\ d.batch = p.batch
          /\ d.scheduled = p.scheduled
      BY <3>1, <3>2 DEF GraphType, SameLink, SameShown
    <3>5. m = d BY <2>1
    <3> HIDE DEF d, m
    <3>6. SameLink(s, m) /\ SameShown(s, m)
      BY <1>4, <3>1, <3>4, <3>5 DEF SameUse, SameLink, SameShown
    <3> QED BY <1>2, <1>4, <2>1, <3>1, <3>2, <3>3, <3>4, <3>5, <3>6 DEF SameUse, SameFetch
  <2>2. CASE g.users[r] # 0 BY <1>2, <1>3, <1>4, <2>2 DEF SameFetch
  <2> QED BY <2>1, <2>2
<1> HIDE DEF m
<1>6. /\ h \in GraphType /\ SameLink(m, h) /\ SameFetch(m, h) /\ SameShown(m, h)
      /\ h.users = m.users /\ h.pin = m.pin
      /\ \A q \in GraphRef : m.users[q] > 0 => h.state[q] = m.state[q]
  BY <1>5, EntriesGo
<1> HIDE DEF h
<1>7. /\ SameLink(s, h) /\ SameShown(s, h) /\ h.users = users1
      /\ h.inFlight = s.inFlight /\ h.running = s.running /\ h.batch = s.batch /\ h.scheduled = s.scheduled
      /\ \A q \in GraphRef : users1[q] > 0 => h.pin[q] = s.pin[q] /\ (q \in h.pending <=> q \in s.pending) /\ h.state[q] = s.state[q]
      /\ \A q \in GraphRef : users1[q] = 0 /\ q = r => h.pin[q] = "none" /\ q \notin h.pending
      /\ \A q \in GraphRef : q # r => h.pin[q] = s.pin[q] /\ (q \in h.pending <=> q \in s.pending)
  BY <1>5, <1>6 DEF SameLink, SameFetch, SameShown
<1>8. FlightInv(h) BY <1>7, FlightKept DEF GraphRest
<1>9. DemandInv(h)
  <2> SUFFICES ASSUME NEW q \in GraphRef, h.pin[q] # "none" \/ q \in h.pending
               PROVE  h.users[q] > 0 /\ h.connected
    BY DEF DemandInv
  <2>1. h.users[q] \in Nat BY <1>2, <1>7
  <2>2. CASE q = r BY <1>7, <2>1, <2>2 DEF GraphRest, DemandInv, SameLink
  <2>3. CASE q # r BY <1>2, <1>7, <2>3 DEF GraphRest, DemandInv, SameLink
  <2> QED BY <2>2, <2>3
<1>10. UnderWayInv(h)
  <2> SUFFICES ASSUME NEW q \in GraphRef, h.users[q] > 0, h.connected, h.state[q] = "loading"
               PROVE  \/ h.pin[q] \in {"asking", "accepting"}
                      \/ q \in h.batch[h.epoch]
                      \/ q \in h.pending /\ (h.scheduled \/ h.batch[h.epoch] # {})
    BY DEF UnderWayInv
  <2>1. s.users[q] > 0 BY <1>2, <1>7
  <2> QED BY <1>7, <2>1 DEF GraphRest, UnderWayInv, SameLink
<1> QED BY <1>1, <1>6, <1>7, <1>8, <1>9, <1>10 DEF GraphRest, h, m, d, p, pending1

\* Roots and offers do not matter to the demand for objects.
LEMMA UseKept ==
    ASSUME NEW g, NEW h, GraphRest(g), SameUse(g, h), h.pin = g.pin
    PROVE  GraphRest(h)
<1>1. FlightInv(h) BY FlightKept DEF GraphRest, SameUse, SameFetch
<1>2. DemandInv(h) BY DEF GraphRest, DemandInv, SameUse, SameLink, SameFetch
<1>3. UnderWayInv(h) BY DEF GraphRest, UnderWayInv, SameUse, SameLink, SameFetch
<1> QED BY <1>1, <1>2, <1>3 DEF GraphRest

LEMMA RetryKeeps ==
    ASSUME NEW s \in GraphType, GraphRest(s), NEW r \in GraphRef, s.users[r] > 0
    PROVE  LET g == [pinDisposed(s, {r}) EXCEPT
                        !.demands = @ + 1, !.error = @ \ {r}, !.state[r] = IF @ = "ready" THEN @ ELSE "loading"]
               h == IF g.connected THEN pinned(g, {r}) ELSE g
           IN h \in GraphType /\ GraphRest(h) /\ SameShown(s, h)
<1> DEFINE p == pinDisposed(s, {r})
           demands1 == p.demands + 1
           error1 == p.error \ {r}
           state1 == [p.state EXCEPT ![r] = IF @ = "ready" THEN @ ELSE "loading"]
           g == [p EXCEPT !.demands = demands1, !.error = error1, !.state = state1]
           h == IF g.connected THEN pinned(g, {r}) ELSE g
<1>1. /\ p \in GraphType /\ SameUse(s, p) /\ SameShown(s, p)
      /\ \A q \in GraphRef : p.pin[q] = IF q \in {r} THEN "none" ELSE s.pin[q]
  BY PinIsDisposed
<1> HIDE DEF p
<1>2. [p EXCEPT !.demands = @ + 1, !.error = @ \ {r}, !.state[r] = IF @ = "ready" THEN @ ELSE "loading"] = g
  BY <1>1 DEF GraphType
<1>3. /\ demands1 \in Nat /\ error1 \in SUBSET GraphRef /\ state1 \in [GraphRef -> ObjectState]
      /\ \A q \in GraphRef : q # r => state1[q] = p.state[q]
  BY <1>1 DEF GraphType, ObjectState
<1> HIDE DEF demands1, error1, state1
<1>4. g \in GraphType BY <1>1, <1>3 DEF GraphType
<1>5. SameLink(p, g) /\ SameFetch(p, g) /\ SameShown(p, g) /\ g.users = p.users /\ g.state = state1 /\ g.pin = p.pin
  BY <1>1, <1>3 DEF GraphType, SameLink, SameFetch, SameShown
<1> HIDE DEF g
<1>6. /\ SameLink(s, g) /\ SameFetch(s, g) /\ SameShown(s, g) /\ g.users = s.users
      /\ \A q \in GraphRef : q # r => g.state[q] = s.state[q] /\ g.pin[q] = s.pin[q]
      /\ g.pin[r] = "none"
  BY <1>1, <1>3, <1>5 DEF SameUse, SameLink, SameFetch, SameShown
<1>7. FlightInv(g) BY <1>6, FlightKept DEF GraphRest, SameFetch
<1>8. DemandInv(g)
  <2> SUFFICES ASSUME NEW q \in GraphRef, g.pin[q] # "none" \/ q \in g.pending PROVE g.users[q] > 0 /\ g.connected
    BY DEF DemandInv
  <2> QED BY <1>6 DEF GraphRest, DemandInv, SameLink, SameFetch
<1>9. CASE g.connected
  <2>1. /\ h \in GraphType /\ SameUse(g, h) /\ SameShown(g, h)
        /\ \A q \in GraphRef :
             h.pin[q] = IF q \in {r} /\ (q \in g.branch \/ g.state[q] # "ready") THEN "asking" ELSE g.pin[q]
    BY <1>4, <1>9, ObjectsPinned
  <2> HIDE DEF h
  <2>2. FlightInv(h) BY <1>7, <2>1, FlightKept DEF SameUse, SameFetch
  <2>3. DemandInv(h) BY <1>6, <1>8, <1>9, <2>1 DEF DemandInv, SameUse, SameLink, SameFetch
  <2>4. UnderWayInv(h) BY <1>6, <2>1 DEF GraphRest, UnderWayInv, SameUse, SameLink, SameFetch
  <2>5. SameShown(s, h) BY <1>6, <2>1 DEF SameShown
  <2> QED BY <1>2, <2>1, <2>2, <2>3, <2>4, <2>5 DEF GraphRest, h, p
<1>10. CASE ~g.connected
  <2>1. UnderWayInv(g) BY <1>10 DEF UnderWayInv
  <2> QED BY <1>2, <1>4, <1>6, <1>7, <1>8, <1>10, <2>1 DEF GraphRest, p
<1> QED BY <1>9, <1>10

LEMMA RootIsWatched ==
    ASSUME NEW g \in GraphType
    PROVE  LET h == rootWatched(g) IN
           h \in GraphType /\ SameUse(g, h) /\ h.pin = g.pin /\ h.applied = 0 /\ h.offered = 0
<1> DEFINE root1 == IF g.root = "ready" THEN g.root ELSE "loading"
           h == rootWatched(g)
<1>1. h = [g EXCEPT !.root = root1, !.offered = 0, !.offers = {}, !.applied = 0] BY DEF rootWatched
<1>2. root1 \in ObjectState BY DEF GraphType, ObjectState
<1> HIDE DEF h, root1
<1>3. h \in GraphType BY <1>1, <1>2 DEF GraphType
<1>4. SameUse(g, h) /\ h.pin = g.pin /\ h.applied = 0 /\ h.offered = 0
  BY <1>1, <1>2 DEF GraphType, SameUse, SameLink, SameFetch
<1> QED BY <1>3, <1>4 DEF h

LEMMA ConnectKeeps ==
    ASSUME NEW s \in GraphType, GraphRest(s), ~s.disposed, s.epoch < MaxEpoch
    PROVE  LET g == graphDetached(s)
               shown == inUse(g)
               fresh == [g EXCEPT !.connected = TRUE, !.error = @ \ shown,
                           !.state = [r \in GraphRef |-> IF r \in shown /\ @[r] # "ready" THEN "loading" ELSE @[r]]]
               h == rootWatched(pinned(fresh, shown))
           IN h \in GraphType /\ GraphRest(h) /\ RootKept(s, h)
<1> DEFINE g == graphDetached(s)
           shown == inUse(g)
           error1 == g.error \ shown
           state1 == [r \in GraphRef |-> IF r \in shown /\ g.state[r] # "ready" THEN "loading" ELSE g.state[r]]
           f == [g EXCEPT !.connected = TRUE, !.error = error1, !.state = state1]
           p == pinned(f, shown)
           h == rootWatched(p)
<1>1. /\ g \in GraphType /\ GraphRest(g) /\ g.disposed = s.disposed /\ g.batch[g.epoch] = {}
      /\ \A r \in GraphRef : g.pin[r] = "none"
  BY GraphIsDetached DEF GraphRest
<1> HIDE DEF g
<1>2. error1 \in SUBSET GraphRef /\ state1 \in [GraphRef -> ObjectState]
  BY <1>1 DEF GraphType, ObjectState
<1>3. \A r \in GraphRef : r \in shown <=> g.users[r] > 0 BY DEF inUse
<1> HIDE DEF error1, state1, shown
<1>4. f \in GraphType BY <1>1, <1>2 DEF GraphType
<1>5. /\ f.connected = TRUE /\ f.disposed = g.disposed /\ f.epoch = g.epoch /\ SameFetch(g, f)
      /\ f.users = g.users /\ f.state = state1 /\ f.pin = g.pin
  BY <1>1, <1>2 DEF GraphType, SameFetch
<1> HIDE DEF f
<1>6. /\ p \in GraphType /\ SameUse(f, p)
      /\ \A r \in GraphRef :
           p.pin[r] = IF r \in shown /\ (r \in f.branch \/ f.state[r] # "ready") THEN "asking" ELSE f.pin[r]
  BY <1>4, ObjectsPinned
<1> HIDE DEF p
<1>7. FlightInv(p)
  <2>1. FlightInv(g) BY <1>1 DEF GraphRest
  <2> QED BY <1>1, <1>5, <1>6, <2>1 DEF FlightInv, SameUse, SameLink, SameFetch
<1>8. DemandInv(p)
  <2>1. g.pending = {} \/ g.connected BY <1>1 DEF GraphRest, DemandInv, GraphType
  <2> QED BY <1>1, <1>3, <1>5, <1>6, <2>1 DEF GraphRest, DemandInv, SameUse, SameLink, SameFetch
<1>9. UnderWayInv(p) BY <1>3, <1>5, <1>6 DEF UnderWayInv, SameUse, SameLink, SameFetch
<1>10. h \in GraphType /\ SameUse(p, h) /\ h.pin = p.pin /\ h.applied = 0 /\ h.offered = 0
  BY <1>6, RootIsWatched
<1> HIDE DEF h
<1>11. GraphRest(h) BY <1>7, <1>8, <1>9, <1>10, UseKept DEF GraphRest
<1>12. RootKept(s, h) BY <1>10 DEF RootKept
<1> QED BY <1>10, <1>11, <1>12 DEF h, p, f, error1, state1, shown, g

LEMMA CloseKeeps ==
    ASSUME NEW s \in GraphType, GraphRest(s), s.epoch < MaxEpoch, NEW lost \in SUBSET GraphRef
    PROVE  LET h == graphDetached([entriesFailed(s, lost) EXCEPT !.root = IF @ = "ready" THEN @ ELSE "error"])
           IN h \in GraphType /\ GraphRest(h) /\ RootKept(s, h)
<1> DEFINE f == entriesFailed(s, lost)
           root1 == IF f.root = "ready" THEN f.root ELSE "error"
           g == [f EXCEPT !.root = root1]
           h == graphDetached(g)
<1>1. f \in GraphType /\ SameLink(s, f) /\ SameFetch(s, f) BY EntriesFail
<1> HIDE DEF f
<1>2. root1 \in ObjectState BY <1>1 DEF GraphType, ObjectState
<1> HIDE DEF root1
<1>3. g \in GraphType BY <1>1, <1>2 DEF GraphType
<1>4. SameLink(f, g) /\ SameFetch(f, g) BY <1>1, <1>2 DEF GraphType, SameLink, SameFetch
<1> HIDE DEF g
<1>5. FlightInv(g)
  <2>1. FlightInv(f) BY <1>1, FlightKept DEF GraphRest, SameFetch
  <2> QED BY <1>4, <2>1, FlightKept DEF SameFetch
<1>6. g.epoch < MaxEpoch BY <1>1, <1>4 DEF SameLink
<1>7. h \in GraphType /\ GraphRest(h) /\ h.applied = 0 /\ h.offered = 0
  BY <1>3, <1>5, <1>6, GraphIsDetached
<1> HIDE DEF h
<1> QED BY <1>7 DEF RootKept, h, g, root1, f

LEMMA DisposeKeeps ==
    ASSUME NEW s \in GraphType, GraphRest(s), s.epoch < MaxEpoch
    PROVE  LET h == [graphDetached(s) EXCEPT !.disposed = TRUE, !.known = {}]
           IN h \in GraphType /\ GraphRest(h) /\ RootKept(s, h)
<1> DEFINE g == graphDetached(s)
           h == [g EXCEPT !.disposed = TRUE, !.known = {}]
<1>1. g \in GraphType /\ GraphRest(g) /\ ~g.connected /\ g.applied = 0 /\ g.offered = 0
  BY GraphIsDetached DEF GraphRest
<1> HIDE DEF g
<1>2. h \in GraphType BY <1>1 DEF GraphType
<1>3. /\ h.connected = g.connected /\ h.epoch = g.epoch /\ SameFetch(g, h) /\ SameShown(g, h)
      /\ h.users = g.users /\ h.pin = g.pin
  BY <1>1 DEF GraphType, SameFetch, SameShown
<1> HIDE DEF h
<1>4. FlightInv(h) /\ DemandInv(h) /\ UnderWayInv(h)
  BY <1>1, <1>3 DEF GraphRest, FlightInv, DemandInv, UnderWayInv, SameFetch
<1> QED BY <1>1, <1>2, <1>3, <1>4 DEF GraphRest, RootKept, SameShown, h, g

LEMMA OfferedKeeps ==
    ASSUME NEW s \in GraphType, GraphRest(s), NEW r \in GraphRef, s.pin[r] = "asking"
    PROVE  LET h == [s EXCEPT !.pin[r] = "accepting"] IN h \in GraphType /\ GraphRest(h) /\ SameShown(s, h)
<1> DEFINE pin1 == [s.pin EXCEPT ![r] = "accepting"]
           h == [s EXCEPT !.pin = pin1]
<1>1. [s EXCEPT !.pin[r] = "accepting"] = h BY DEF GraphType
<1>2. pin1 \in [GraphRef -> PinState] /\ pin1[r] = "accepting" /\ \A q \in GraphRef : q # r => pin1[q] = s.pin[q]
  BY DEF GraphType, PinState
<1> HIDE DEF pin1
<1>3. h \in GraphType BY <1>2 DEF GraphType
<1>4. SameUse(s, h) /\ SameShown(s, h) /\ h.pin = pin1
  BY <1>2 DEF GraphType, SameUse, SameLink, SameFetch, SameShown
<1> HIDE DEF h
<1>5. FlightInv(h) BY <1>4, FlightKept DEF GraphRest, SameUse, SameFetch
<1>6. DemandInv(h) BY <1>2, <1>4 DEF GraphRest, DemandInv, SameUse, SameLink, SameFetch
<1>7. UnderWayInv(h) BY <1>2, <1>4 DEF GraphRest, UnderWayInv, SameUse, SameLink, SameFetch
<1> QED BY <1>1, <1>3, <1>4, <1>5, <1>6, <1>7 DEF GraphRest

LEMMA ReadyKeeps ==
    ASSUME NEW s \in GraphType, GraphRest(s), NEW r \in GraphRef, s.pin[r] = "accepting"
    PROVE  LET g == pinSettled([s EXCEPT !.pin[r] = "live", !.error = @ \ {r}], {r})
               h == IF g.state[r] = "loading" /\ g.inFlight[r] = 0
                    THEN flushScheduled([g EXCEPT !.pending = @ \cup {r}]) ELSE g
           IN h \in GraphType /\ GraphRest(h) /\ SameShown(s, h)
<1> DEFINE pin1 == [s.pin EXCEPT ![r] = "live"]
           error1 == s.error \ {r}
           p == [s EXCEPT !.pin = pin1, !.error = error1]
           g == pinSettled(p, {r})
           pending1 == g.pending \cup {r}
           q == [g EXCEPT !.pending = pending1]
           f == flushScheduled(q)
<1>1. [s EXCEPT !.pin[r] = "live", !.error = @ \ {r}] = p BY DEF GraphType
<1>2. /\ pin1 \in [GraphRef -> PinState] /\ \A x \in GraphRef : x # r => pin1[x] = s.pin[x]
      /\ error1 \in SUBSET GraphRef
  BY DEF GraphType, PinState
<1> HIDE DEF pin1, error1
<1>3. p \in GraphType BY <1>2 DEF GraphType
<1>4. SameUse(s, p) /\ SameShown(s, p) /\ p.pin = pin1
  BY <1>2 DEF GraphType, SameUse, SameLink, SameFetch, SameShown
<1> HIDE DEF p
<1>5. g \in GraphType /\ SameUse(p, g) /\ SameShown(p, g) /\ g.pin = p.pin BY <1>3, PinIsSettled
<1> HIDE DEF g
<1>6. SameUse(s, g) /\ SameShown(s, g) /\ g.pin = pin1
  BY <1>4, <1>5 DEF SameUse, SameLink, SameFetch, SameShown
<1>7. s.users[r] > 0 /\ s.connected /\ ~s.disposed BY DEF GraphRest, DemandInv, FlightInv
<1>8. FlightInv(g) BY <1>6, FlightKept DEF GraphRest, SameUse, SameFetch
<1>9. DemandInv(g) BY <1>2, <1>6, <1>7 DEF GraphRest, DemandInv, SameUse, SameLink, SameFetch
<1>10. \A x \in GraphRef :
         x # r /\ g.users[x] > 0 /\ g.connected /\ g.state[x] = "loading" =>
            \/ g.pin[x] \in {"asking", "accepting"}
            \/ x \in g.batch[g.epoch]
            \/ x \in g.pending /\ (g.scheduled \/ g.batch[g.epoch] # {})
  BY <1>2, <1>6 DEF GraphRest, UnderWayInv, SameUse, SameLink, SameFetch
<1>11. CASE g.state[r] = "loading" /\ g.inFlight[r] = 0
  <2>1. pending1 \in SUBSET GraphRef /\ \A x : x \in pending1 <=> x \in g.pending \/ x = r
    BY <1>5 DEF GraphType
  <2> HIDE DEF pending1
  <2>2. q \in GraphType BY <1>5, <2>1 DEF GraphType
  <2>3. /\ SameLink(g, q) /\ SameShown(g, q) /\ q.users = g.users /\ q.state = g.state /\ q.pin = g.pin
        /\ q.pending = pending1 /\ q.inFlight = g.inFlight /\ q.scheduled = g.scheduled /\ q.running = g.running
        /\ q.batch = g.batch
    BY <1>5, <2>1 DEF GraphType, SameLink, SameShown
  <2> HIDE DEF q
  <2>4. /\ f \in GraphType /\ SameLink(q, f) /\ SameShown(q, f)
        /\ f.users = q.users /\ f.state = q.state /\ f.pin = q.pin /\ f.pending = q.pending
        /\ f.inFlight = q.inFlight /\ f.running = q.running /\ f.batch = q.batch
        /\ f.scheduled <=> (q.scheduled \/ (q.running # q.epoch /\ ~q.disposed))
    BY <2>2, FlushIsScheduled
  <2> HIDE DEF f
  <2>5. /\ SameLink(g, f) /\ SameShown(s, f) /\ f.users = g.users /\ f.state = g.state /\ f.pin = g.pin
        /\ f.pending = pending1 /\ f.inFlight = g.inFlight /\ f.running = g.running /\ f.batch = g.batch
        /\ g.scheduled => f.scheduled
        /\ g.running # g.epoch /\ ~g.disposed => f.scheduled
    BY <1>6, <2>3, <2>4 DEF SameLink, SameShown
  <2>6. FlightInv(f) BY <1>8, <2>5, FlightKept
  <2>7. DemandInv(f) BY <1>6, <1>7, <1>9, <2>1, <2>5 DEF DemandInv, SameUse, SameLink
  <2>8. f.scheduled \/ f.batch[f.epoch] # {}
    BY <1>6, <1>7, <1>8, <2>5 DEF FlightInv, SameUse, SameLink
  <2>9. UnderWayInv(f) BY <1>10, <2>1, <2>5, <2>8 DEF UnderWayInv, SameLink
  <2> QED BY <1>1, <1>11, <2>4, <2>5, <2>6, <2>7, <2>9 DEF GraphRest, f, q, pending1, g
<1>12. CASE ~(g.state[r] = "loading" /\ g.inFlight[r] = 0)
  <2>1. g.state[r] = "loading" => r \in g.batch[g.epoch] BY <1>8, <1>12 DEF FlightInv
  <2>2. UnderWayInv(g) BY <1>10, <2>1 DEF UnderWayInv
  <2> QED BY <1>1, <1>5, <1>6, <1>8, <1>9, <1>12, <2>2 DEF GraphRest, g
<1> QED BY <1>11, <1>12

LEMMA FailKeeps ==
    ASSUME NEW s \in GraphType, GraphRest(s), NEW r \in GraphRef, s.pin[r] \in {"asking", "accepting", "live"}
    PROVE  LET h == entriesFailed(pinSettled([s EXCEPT !.pin[r] = "failed"], {r}), {r})
           IN h \in GraphType /\ GraphRest(h) /\ SameShown(s, h)
<1> DEFINE pin1 == [s.pin EXCEPT ![r] = "failed"]
           p == [s EXCEPT !.pin = pin1]
           g == pinSettled(p, {r})
           h == entriesFailed(g, {r})
<1>1. [s EXCEPT !.pin[r] = "failed"] = p BY DEF GraphType
<1>2. pin1 \in [GraphRef -> PinState] /\ \A x \in GraphRef : x # r => pin1[x] = s.pin[x]
  BY DEF GraphType, PinState
<1> HIDE DEF pin1
<1>3. p \in GraphType BY <1>2 DEF GraphType
<1>4. SameUse(s, p) /\ SameShown(s, p) /\ p.pin = pin1
  BY <1>2 DEF GraphType, SameUse, SameLink, SameFetch, SameShown
<1> HIDE DEF p
<1>5. g \in GraphType /\ SameUse(p, g) /\ SameShown(p, g) /\ g.pin = p.pin BY <1>3, PinIsSettled
<1> HIDE DEF g
<1>6. /\ h \in GraphType /\ SameLink(g, h) /\ SameFetch(g, h) /\ SameShown(g, h)
      /\ h.users = g.users /\ h.pin = g.pin
      /\ \A x \in GraphRef : h.state[x] = IF x \in {r} /\ g.state[x] # "ready" THEN "error" ELSE g.state[x]
  BY <1>5, EntriesFail
<1> HIDE DEF h
<1>7. /\ SameLink(s, h) /\ SameFetch(s, h) /\ SameShown(s, h) /\ h.users = s.users /\ h.pin = pin1
      /\ h.state[r] # "loading" /\ \A x \in GraphRef : x # r => h.state[x] = s.state[x]
  BY <1>4, <1>5, <1>6 DEF SameUse, SameLink, SameFetch, SameShown
<1>8. FlightInv(h) BY <1>7, FlightKept DEF GraphRest, SameFetch
<1>9. DemandInv(h)
  <2>1. s.users[r] > 0 /\ s.connected BY DEF GraphRest, DemandInv
  <2> QED BY <1>2, <1>7, <2>1 DEF GraphRest, DemandInv, SameLink, SameFetch
<1>10. UnderWayInv(h) BY <1>2, <1>7 DEF GraphRest, UnderWayInv, SameLink, SameFetch
<1> QED BY <1>1, <1>6, <1>7, <1>8, <1>9, <1>10 DEF GraphRest, h, g

LEMMA RootOfferedKeeps ==
    ASSUME NEW s \in GraphType, GraphRest(s), NEW waits \in SUBSET GraphRef
    PROVE  LET h == [s EXCEPT !.offered = @ + 1, !.offers = @ \cup {[version |-> s.offered + 1, waits |-> waits]}]
           IN h \in GraphType /\ GraphRest(h) /\ RootKept(s, h)
<1> DEFINE offered1 == s.offered + 1
           offers1 == s.offers \cup {[version |-> s.offered + 1, waits |-> waits]}
           h == [s EXCEPT !.offered = offered1, !.offers = offers1]
<1>1. offered1 \in Nat /\ offers1 \in SUBSET RootOffer BY DEF GraphType, RootOffer
<1> HIDE DEF offered1, offers1
<1>2. h \in GraphType BY <1>1 DEF GraphType
<1>3. SameUse(s, h) /\ h.pin = s.pin /\ h.applied = s.applied
  BY <1>1 DEF GraphType, SameUse, SameLink, SameFetch
<1> HIDE DEF h
<1>4. GraphRest(h) BY <1>3, UseKept
<1>5. RootKept(s, h) BY <1>3 DEF RootKept, GraphType
<1> QED BY <1>2, <1>4, <1>5 DEF h, offered1, offers1

LEMMA AppliedKeeps ==
    ASSUME NEW s \in GraphType, GraphRest(s), NEW o \in s.offers
    PROVE  LET g == [s EXCEPT !.offers = @ \ {o}]
               h == IF o.version <= s.applied THEN g ELSE [g EXCEPT !.applied = o.version, !.root = "ready"]
           IN h \in GraphType /\ GraphRest(h) /\ RootKept(s, h)
<1> DEFINE offers1 == s.offers \ {o}
           g == [s EXCEPT !.offers = offers1]
           h == [g EXCEPT !.applied = o.version, !.root = "ready"]
<1>1. offers1 \in SUBSET RootOffer /\ o.version \in Nat /\ s.applied \in Nat
  BY DEF GraphType, RootOffer
<1> HIDE DEF offers1
<1>2. g \in GraphType BY <1>1 DEF GraphType
<1>3. SameUse(s, g) /\ g.pin = s.pin /\ g.applied = s.applied
  BY <1>1 DEF GraphType, SameUse, SameLink, SameFetch
<1> HIDE DEF g
<1>4. GraphRest(g) /\ RootKept(s, g) BY <1>1, <1>3, UseKept DEF RootKept
<1>5. h \in GraphType BY <1>1, <1>2 DEF GraphType, ObjectState
<1>6. SameUse(g, h) /\ h.pin = g.pin /\ h.applied = o.version
  BY <1>1, <1>2 DEF GraphType, SameUse, SameLink, SameFetch
<1> HIDE DEF h
<1>7. GraphRest(h) BY <1>4, <1>6, UseKept
<1>8. ~(o.version <= s.applied) => RootKept(s, h) BY <1>1, <1>6 DEF RootKept
<1> QED BY <1>2, <1>4, <1>5, <1>7, <1>8 DEF h, g, offers1

LEMMA FlushKeeps ==
    ASSUME NEW s \in GraphType, GraphRest(s), NEW t,
           LET g == [s EXCEPT !.scheduled = FALSE]
           IN IF g.running = g.epoch \/ g.disposed THEN t = g ELSE t \in flushLoops([g EXCEPT !.running = g.epoch], g.epoch)
    PROVE  t \in GraphType /\ GraphRest(t) /\ SameShown(s, t)
<1> DEFINE g == [s EXCEPT !.scheduled = FALSE]
           l == [g EXCEPT !.running = g.epoch]
<1>1. g \in GraphType BY DEF GraphType
<1>2. /\ SameLink(s, g) /\ SameShown(s, g) /\ g.users = s.users /\ g.state = s.state /\ g.pin = s.pin
      /\ g.pending = s.pending /\ g.inFlight = s.inFlight /\ g.running = s.running /\ g.batch = s.batch
  BY DEF GraphType, SameLink, SameShown
<1>3. CASE g.running = g.epoch \/ g.disposed
  <2>1. t = g BY <1>3
  <2> HIDE DEF g
  <2>2. FlightInv(g) BY <1>2, FlightKept DEF GraphRest
  <2>3. DemandInv(g) BY <1>2 DEF GraphRest, DemandInv, SameLink
  <2>4. g.connected => g.batch[g.epoch] # {} BY <1>3, <2>2 DEF FlightInv
  <2>5. UnderWayInv(g) BY <1>2, <2>4 DEF GraphRest, UnderWayInv, SameLink
  <2> QED BY <1>1, <1>2, <2>1, <2>2, <2>3, <2>5 DEF GraphRest
<1>4. CASE ~(g.running = g.epoch \/ g.disposed)
  <2>1. t \in flushLoops(l, g.epoch) BY <1>4
  <2> HIDE DEF g
  <2>2. g.epoch \in Nat BY <1>1, Epochs DEF GraphType
  <2>3. l \in GraphType BY <1>1, <2>2 DEF GraphType
  <2>4. /\ SameLink(g, l) /\ SameShown(g, l) /\ l.users = g.users /\ l.state = g.state /\ l.pin = g.pin
        /\ l.pending = g.pending /\ l.inFlight = g.inFlight /\ l.running = g.epoch /\ l.batch = g.batch
    BY <1>1, <2>2 DEF GraphType, SameLink, SameShown
  <2> HIDE DEF l
  <2>5. s.batch[s.epoch] = {} /\ \A r \in GraphRef : s.inFlight[r] = 0
    BY <1>2, <1>4 DEF GraphRest, FlightInv, SameLink
  <2>6. DemandInv(l) BY <1>2, <2>4 DEF GraphRest, DemandInv, SameLink
  <2>7. \A r \in GraphRef :
          l.users[r] > 0 /\ l.connected /\ l.state[r] = "loading" =>
              l.pin[r] \in {"asking", "accepting"} \/ r \in l.pending
    BY <1>2, <2>4, <2>5 DEF GraphRest, UnderWayInv, SameLink
  <2>8. LoopReady(l) BY <1>2, <2>4, <2>5, <2>6, <2>7 DEF GraphRest, LoopReady, FlightInv, SameLink
  <2>9. t \in flushLoops(l, l.epoch) BY <2>1, <2>4 DEF SameLink
  <2>10. t \in GraphType /\ GraphRest(t) /\ SameShown(l, t) BY <2>3, <2>8, <2>9, LoopKeeps
  <2> QED BY <1>2, <2>4, <2>10 DEF SameShown
<1> QED BY <1>3, <1>4

\* Where the response to a batch leads.
Answered(s, got, leaves, missing, rest, again, choice) ==
    LET ready == [s EXCEPT !.state = [r \in GraphRef |-> IF r \in got THEN "ready" ELSE @[r]],
                           !.error = @ \ got, !.branch = (@ \ leaves) \cup (got \ leaves)]
        failed == entriesFailed(pinDisposed(ready, leaves), missing \cup (rest \ again))
        queued == [failed EXCEPT !.pending = @ \cup (again \cap inUse(s))]
    IN flushLoops(entriesEvicted(batchOver(queued, s.epoch), choice), s.epoch)

LEMMA AnswerKeeps ==
    ASSUME NEW s \in GraphType, GraphRest(s), NEW got, NEW leaves, NEW missing, NEW rest, NEW again, NEW choice, NEW t,
           s.batch[s.epoch] # {}, got \subseteq s.batch[s.epoch], missing \subseteq s.batch[s.epoch], leaves \subseteq got,
           rest = s.batch[s.epoch] \ (got \cup missing), again \subseteq rest,
           t \in Answered(s, got, leaves, missing, rest, again, choice)
    PROVE  t \in GraphType /\ GraphRest(t) /\ SameShown(s, t)
<1> DEFINE state1 == [r \in GraphRef |-> IF r \in got THEN "ready" ELSE s.state[r]]
           error1 == s.error \ got
           branch1 == (s.branch \ leaves) \cup (got \ leaves)
           ready == [s EXCEPT !.state = state1, !.error = error1, !.branch = branch1]
           p == pinDisposed(ready, leaves)
           bad == missing \cup (rest \ again)
           f == entriesFailed(p, bad)
           pending1 == f.pending \cup (again \cap inUse(s))
           q == [f EXCEPT !.pending = pending1]
<1>1. t \in flushLoops(entriesEvicted(batchOver(q, s.epoch), choice), s.epoch) BY DEF Answered
<1>2. s.batch[s.epoch] \subseteq GraphRef /\ s.connected BY DEF GraphType, GraphRest, FlightInv
<1>3. /\ state1 \in [GraphRef -> ObjectState] /\ error1 \in SUBSET GraphRef /\ branch1 \in SUBSET GraphRef
      /\ \A r \in GraphRef : state1[r] = IF r \in got THEN "ready" ELSE s.state[r]
  BY <1>2 DEF GraphType, ObjectState
<1> HIDE DEF state1, error1, branch1
<1>4. ready \in GraphType BY <1>3 DEF GraphType
<1>5. /\ SameLink(s, ready) /\ SameFetch(s, ready) /\ SameShown(s, ready)
      /\ ready.users = s.users /\ ready.pin = s.pin /\ ready.state = state1
  BY <1>3 DEF GraphType, SameLink, SameFetch, SameShown
<1> HIDE DEF ready
<1>6. /\ p \in GraphType /\ SameUse(ready, p) /\ SameShown(ready, p)
      /\ \A r \in GraphRef : p.pin[r] = IF r \in leaves THEN "none" ELSE ready.pin[r]
  BY <1>4, PinIsDisposed
<1> HIDE DEF p
<1>7. bad \in SUBSET GraphRef /\ \A r : r \in bad <=> r \in missing \/ (r \in rest /\ r \notin again)
  BY <1>2
<1> HIDE DEF bad
<1>8. /\ f \in GraphType /\ SameLink(p, f) /\ SameFetch(p, f) /\ SameShown(p, f)
      /\ f.users = p.users /\ f.pin = p.pin
      /\ \A r \in GraphRef : f.state[r] = IF r \in bad /\ p.state[r] # "ready" THEN "error" ELSE p.state[r]
  BY <1>6, <1>7, EntriesFail
<1> HIDE DEF f
<1>9. pending1 \in SUBSET GraphRef /\ \A r \in GraphRef : r \in pending1 <=> r \in f.pending \/ (r \in again /\ s.users[r] > 0)
  BY <1>8 DEF GraphType, inUse
<1> HIDE DEF pending1
<1>10. q \in GraphType BY <1>8, <1>9 DEF GraphType
<1>11. /\ SameLink(f, q) /\ SameShown(f, q) /\ q.users = f.users /\ q.pin = f.pin /\ q.state = f.state
       /\ q.pending = pending1 /\ q.inFlight = f.inFlight /\ q.running = f.running /\ q.batch = f.batch
  BY <1>8, <1>9 DEF GraphType, SameLink, SameShown
<1> HIDE DEF q
<1>12. SameLink(s, q) /\ SameShown(s, q) BY <1>5, <1>6, <1>8, <1>11 DEF SameUse, SameLink, SameShown
<1>13. /\ q.users = s.users /\ q.inFlight = s.inFlight /\ q.running = s.running /\ q.batch = s.batch
       /\ \A r \in GraphRef : q.pin[r] = IF r \in leaves THEN "none" ELSE s.pin[r]
       /\ \A r \in GraphRef : r \in q.pending <=> r \in s.pending \/ (r \in again /\ s.users[r] > 0)
  BY <1>5, <1>6, <1>8, <1>9, <1>11 DEF SameUse, SameFetch
<1>14. \A r \in GraphRef :
         /\ r \in got => q.state[r] # "loading"
         /\ r \in bad => q.state[r] # "loading"
         /\ r \notin got /\ r \notin bad => q.state[r] = s.state[r]
  BY <1>3, <1>5, <1>6, <1>8, <1>11 DEF SameUse
<1>15. FlightInv(q) BY <1>12, <1>13, FlightKept DEF GraphRest
<1>16. DemandInv(q) BY <1>2, <1>12, <1>13 DEF GraphRest, DemandInv, SameLink
<1>17. ASSUME NEW r \in GraphRef, q.users[r] > 0, q.state[r] = "loading"
       PROVE  q.pin[r] \in {"asking", "accepting"} \/ r \in q.pending
  <2>1. r \notin got /\ r \notin bad /\ s.state[r] = "loading" /\ s.users[r] > 0
    BY <1>13, <1>14, <1>17
  <2>2. CASE r \in s.batch[s.epoch]
    <3>1. r \in again BY <1>7, <2>1, <2>2
    <3> QED BY <1>13, <2>1, <3>1
  <2>3. CASE r \notin s.batch[s.epoch]
    <3>1. s.pin[r] \in {"asking", "accepting"} \/ r \in s.pending
      BY <1>2, <2>1, <2>3 DEF GraphRest, UnderWayInv
    <3> QED BY <1>13, <2>1, <3>1
  <2> QED BY <2>2, <2>3
<1>18. q.batch[q.epoch] # {} /\ t \in flushLoops(entriesEvicted(batchOver(q, q.epoch), choice), q.epoch)
  BY <1>1, <1>12, <1>13 DEF SameLink
<1>19. t \in GraphType /\ GraphRest(t) /\ SameShown(q, t)
  BY <1>10, <1>15, <1>16, <1>17, <1>18, BatchEnds
<1> QED BY <1>12, <1>19 DEF SameShown

\* Where its failure leads.
Failed(s, choice) ==
    flushLoops(entriesEvicted(batchOver(entriesFailed(s, s.batch[s.epoch]), s.epoch), choice), s.epoch)

LEMMA BatchFailKeeps ==
    ASSUME NEW s \in GraphType, GraphRest(s), s.batch[s.epoch] # {}, NEW choice, NEW t \in Failed(s, choice)
    PROVE  t \in GraphType /\ GraphRest(t) /\ SameShown(s, t)
<1> DEFINE q == entriesFailed(s, s.batch[s.epoch])
<1>1. s.batch[s.epoch] \in SUBSET GraphRef /\ s.connected BY DEF GraphType, GraphRest, FlightInv
<1>2. /\ q \in GraphType /\ SameLink(s, q) /\ SameFetch(s, q) /\ SameShown(s, q)
      /\ q.users = s.users /\ q.pin = s.pin
      /\ \A r \in GraphRef : q.state[r] = IF r \in s.batch[s.epoch] /\ s.state[r] # "ready" THEN "error" ELSE s.state[r]
  BY <1>1, EntriesFail
<1>3. t \in flushLoops(entriesEvicted(batchOver(q, q.epoch), choice), q.epoch)
  BY <1>2 DEF SameLink, Failed
<1> HIDE DEF q
<1>4. FlightInv(q) BY <1>2, FlightKept DEF GraphRest, SameFetch
<1>5. DemandInv(q) BY <1>2 DEF GraphRest, DemandInv, SameLink, SameFetch
<1>6. ASSUME NEW r \in GraphRef, q.users[r] > 0, q.state[r] = "loading"
      PROVE  q.pin[r] \in {"asking", "accepting"} \/ r \in q.pending
  <2>1. r \notin s.batch[s.epoch] /\ s.state[r] = "loading" /\ s.users[r] > 0 BY <1>2, <1>6
  <2>2. s.pin[r] \in {"asking", "accepting"} \/ r \in s.pending
    BY <1>1, <2>1 DEF GraphRest, UnderWayInv
  <2> QED BY <1>2, <2>2 DEF SameFetch
<1>7. q.batch[q.epoch] # {} BY <1>2 DEF SameLink, SameFetch
<1>8. t \in GraphType /\ GraphRest(t) /\ SameShown(q, t)
  BY <1>2, <1>3, <1>4, <1>5, <1>6, <1>7, BatchEnds
<1> QED BY <1>2, <1>8 DEF SameShown

LEMMA IgnoredKeeps ==
    ASSUME NEW s \in GraphType, GraphRest(s), NEW e \in Epoch, e # s.epoch, NEW choice,
           NEW t \in flushLoops(batchOver(s, e), e) \cup flushLoops(entriesEvicted(batchOver(s, e), choice), e)
    PROVE  t \in GraphType /\ GraphRest(t) /\ SameShown(s, t)
<1> DEFINE g == batchOver(s, e)
           v == entriesEvicted(g, choice)
<1>1. g = s
  <2> DEFINE flight1 == [r \in GraphRef |-> IF r \in s.batch[e] /\ s.inFlight[r] = e THEN 0 ELSE s.inFlight[r]]
  <2>1. g = [s EXCEPT !.inFlight = flight1] BY DEF batchOver
  <2>2. \A r \in GraphRef : s.inFlight[r] # e BY Epochs DEF GraphRest, FlightInv
  <2>3. flight1 = s.inFlight BY <2>2 DEF GraphType
  <2> HIDE DEF flight1, g
  <2> QED BY <2>1, <2>3 DEF GraphType
<1> HIDE DEF g
<1>2. /\ v \in GraphType /\ SameLink(s, v) /\ SameFetch(s, v) /\ SameShown(s, v)
      /\ v.users = s.users /\ v.pin = s.pin
      /\ \A r \in GraphRef : s.users[r] > 0 => v.state[r] = s.state[r]
  BY <1>1, EntriesGo
<1>3. t \in flushLoops(s, e) \/ t \in flushLoops(v, e) BY <1>1 DEF g
<1> HIDE DEF v
<1>4. GraphRest(v) /\ e # v.epoch
  <2>1. FlightInv(v) BY <1>2, FlightKept DEF GraphRest, SameFetch
  <2>2. DemandInv(v) BY <1>2 DEF GraphRest, DemandInv, SameLink, SameFetch
  <2>3. UnderWayInv(v) BY <1>2 DEF GraphRest, UnderWayInv, SameLink, SameFetch
  <2> QED BY <1>2, <2>1, <2>2, <2>3 DEF GraphRest, SameLink
<1>5. CASE t \in flushLoops(s, e) BY <1>5, FormerLoopKeeps
<1>6. CASE t \in flushLoops(v, e)
  <2>1. t \in GraphType /\ GraphRest(t) /\ SameShown(v, t) BY <1>2, <1>4, <1>6, FormerLoopKeeps
  <2> QED BY <1>2, <2>1 DEF SameShown
<1> QED BY <1>3, <1>5, <1>6

LEMMA GraphStep ==
    ASSUME GraphInv, [GraphNext]_graph
    PROVE  GraphInv' /\ RootKept(graph, graph')
<1> DEFINE Kept == graph' \in GraphType /\ GraphRest(graph') /\ SameShown(graph, graph')
           Good == graph' \in GraphType /\ GraphRest(graph') /\ RootKept(graph, graph')
<1>a. graph \in GraphType /\ GraphRest(graph) BY DEF GraphInv
<1>b. Kept => Good BY <1>a, ShownIsKept
<1>c. SUFFICES Good BY DEF GraphInv, GraphRest, FlightInv, DemandInv, UnderWayInv
<1>1. ASSUME NEW r \in GraphRef, Acquire(r) PROVE Kept
  BY <1>a, <1>1, AcquireKeeps DEF Acquire
<1>2. ASSUME NEW r \in GraphRef, RetryObject(r) PROVE Kept
  BY <1>a, <1>2, RetryKeeps DEF RetryObject
<1>3. ASSUME NEW r \in GraphRef, PinStep(r) PROVE Kept
  <2>1. CASE PinOffered(r) BY <1>a, <2>1, OfferedKeeps DEF PinOffered
  <2>2. CASE PinReady(r) BY <1>a, <2>2, ReadyKeeps DEF PinReady
  <2>3. CASE PinFails(r) BY <1>a, <2>3, FailKeeps DEF PinFails
  <2> QED BY <1>3, <2>1, <2>2, <2>3 DEF PinStep
<1>4. ASSUME NEW r \in GraphRef, NEW choice \in SUBSET graph.known, HandleDisposed(r, choice) PROVE Kept
  BY <1>a, <1>4, HandleKeeps DEF HandleDisposed
<1>5. CASE SetConnection BY <1>a, <1>5, ConnectKeeps DEF SetConnection
<1>6. CASE UnsetConnection
  <2>1. FlightInv(graph) BY <1>a DEF GraphRest
  <2>2. graph' \in GraphType /\ GraphRest(graph') /\ graph'.applied = 0 /\ graph'.offered = 0
    BY <1>a, <1>6, <2>1, GraphIsDetached DEF UnsetConnection
  <2> QED BY <2>2 DEF RootKept
<1>7. CASE RetryRoot
  <2>1. /\ graph' \in GraphType /\ SameUse(graph, graph') /\ graph'.pin = graph.pin
        /\ graph'.applied = 0 /\ graph'.offered = 0
    BY <1>a, <1>7, RootIsWatched DEF RetryRoot
  <2> QED BY <1>a, <2>1, UseKept DEF RootKept
<1>8. CASE GraphConnectionCloses
  <2>1. {r \in inUse(graph) : r \in graph.branch \/ graph.state[r] # "ready"} \in SUBSET GraphRef
    BY DEF inUse
  <2> QED BY <1>a, <1>8, <2>1, CloseKeeps DEF GraphConnectionCloses
<1>9. CASE RootWatchEnds
  <2> DEFINE root1 == IF graph.root = "ready" THEN graph.root ELSE "error"
  <2>1. graph' = [graph EXCEPT !.root = root1] BY <1>9 DEF RootWatchEnds
  <2>2. root1 \in ObjectState BY <1>a DEF GraphType, ObjectState
  <2> HIDE DEF root1
  <2>3. graph' \in GraphType BY <1>a, <2>1, <2>2 DEF GraphType
  <2>4. SameUse(graph, graph') /\ SameShown(graph, graph') /\ graph'.pin = graph.pin
    BY <1>a, <2>1, <2>2 DEF GraphType, SameUse, SameLink, SameFetch, SameShown
  <2> QED BY <1>a, <1>b, <2>3, <2>4, UseKept
<1>10. CASE GraphDispose BY <1>a, <1>10, DisposeKeeps DEF GraphDispose
<1>11. CASE RootOffered
  <2>1. {r \in inUse(graph) : graph.pin[r] \in {"asking", "accepting"}} \in SUBSET GraphRef
    BY DEF inUse
  <2> QED BY <1>a, <1>11, <2>1, RootOfferedKeeps DEF RootOffered
<1>12. ASSUME NEW o \in graph.offers, OfferApplied(o) PROVE Good
  BY <1>a, <1>12, AppliedKeeps DEF OfferApplied
<1>13. CASE Flush BY <1>a, <1>b, <1>13, FlushKeeps DEF Flush
<1>14. CASE BatchStep
  <2>1. PICK e \in Epoch, choice \in evictable :
          \/ \E got, missing \in SUBSET graph.batch[e], complete \in BOOLEAN :
                 \E leaves \in SUBSET got : BatchAnswered(e, got, leaves, missing, complete, choice)
          \/ BatchFails(e, choice)
    BY <1>14 DEF BatchStep
  <2>2. ASSUME NEW got \in SUBSET graph.batch[e], NEW missing \in SUBSET graph.batch[e], NEW complete \in BOOLEAN,
               NEW leaves \in SUBSET got, BatchAnswered(e, got, leaves, missing, complete, choice)
        PROVE  Kept
    <3> DEFINE rest == graph.batch[e] \ (got \cup missing)
               again == IF ~complete /\ got \cup missing # {} THEN rest ELSE {}
    <3>1. e = graph.epoch /\ graph.batch[e] # {} /\ again \subseteq rest BY <2>2 DEF BatchAnswered
    <3>2. graph' \in Answered(graph, got, leaves, missing, rest, again, choice)
      BY <2>2, <3>1 DEF BatchAnswered, Answered
    <3> HIDE DEF again, rest
    <3>3. rest = graph.batch[graph.epoch] \ (got \cup missing) BY <3>1 DEF rest
    <3> QED BY <1>a, <3>1, <3>2, <3>3, AnswerKeeps
  <2>3. CASE BatchFails(e, choice)
    <3>1. e = graph.epoch /\ graph.batch[graph.epoch] # {} BY <2>3 DEF BatchFails
    <3>2. graph' \in Failed(graph, choice) BY <2>3, <3>1 DEF BatchFails, Failed
    <3> QED BY <1>a, <1>b, <3>1, <3>2, BatchFailKeeps
  <2> QED BY <1>b, <2>1, <2>2, <2>3
<1>15. ASSUME NEW e \in Epoch, NEW choice \in evictable, BatchIgnored(e, choice) PROVE Kept
  BY <1>a, <1>15, IgnoredKeeps DEF BatchIgnored
<1>16. CASE UNCHANGED graph BY <1>a, <1>b, <1>16 DEF SameShown
<1> QED
  BY <1>b, <1>1, <1>2, <1>3, <1>4, <1>5, <1>6, <1>7, <1>8, <1>9, <1>10, <1>11, <1>12, <1>13, <1>14, <1>15, <1>16
  DEF GraphNext

LEMMA GraphDemanded == GraphInv => NoIdleDemand /\ LoadingIsUnderWay
BY DEF GraphInv, GraphRest, DemandInv, UnderWayInv, NoIdleDemand, LoadingIsUnderWay, inUse

-----------------------------------------------------------------------------
(* The bounded queue of traffic events (TrafficSubscription).              *)

TrafficType ==
    [made : Nat, queue : Seq(Nat), active : BOOLEAN, pump : {"idle", "scheduled", "event", "overflow"},
     sending : Nat, overflow : Nat, delivered : Nat, dropped : Nat, seen : Seq(Nat), told : Nat, lost : Nat,
     completed : Nat, result : Nat]

\* What the watcher knows of, when the next thing to send is still to be chosen.
knownTo(t) == Len(t.seen) + t.told

onItsWay(t) == IF t.pump = "event" THEN 1 ELSE IF t.pump = "overflow" THEN t.sending ELSE 0

\* The queue goes on after the first n events and the drops that are to be told, to the newest.
QueueFollows(t, n) ==
    t.active => /\ \A i \in 1..Len(t.queue) : t.queue[i] = n + t.overflow + i
                /\ t.made = n + t.overflow + Len(t.queue)

\* Every event was delivered or dropped, is lost, waits or is one of the n on their way.
Accounted(t, n) == t.made = t.delivered + t.dropped + t.lost + n + Len(t.queue)

TrafficOK(t) ==
    /\ t \in TrafficType
    /\ t.active /\ t.pump = "event" => t.sending = knownTo(t) + 1
    /\ QueueFollows(t, knownTo(t) + onItsWay(t))
    /\ Accounted(t, IF t.pump = "event" THEN 1 ELSE 0)
    /\ ~t.active => t.queue = << >> /\ t.overflow = 0
    /\ t.active \/ t.pump # "idle" => t.lost = 0 /\ t.completed = 0
    /\ ~t.active /\ t.pump = "idle" => t.completed = 1 /\ t.result = t.delivered + t.dropped

\* Between two sends nothing is on its way.
PumpReady(t) ==
    /\ t \in TrafficType /\ t.lost = 0 /\ t.completed = 0
    /\ QueueFollows(t, knownTo(t)) /\ Accounted(t, 0)
    /\ ~t.active => t.queue = << >> /\ t.overflow = 0

LEMMA TrafficFields ==
    ASSUME NEW t \in TrafficType
    PROVE  /\ t.made \in Nat /\ t.sending \in Nat /\ t.overflow \in Nat /\ t.delivered \in Nat /\ t.dropped \in Nat
           /\ t.told \in Nat /\ t.lost \in Nat /\ t.completed \in Nat /\ t.result \in Nat /\ t.active \in BOOLEAN
           /\ t.queue \in Seq(Nat) /\ t.seen \in Seq(Nat) /\ Len(t.queue) \in Nat /\ Len(t.seen) \in Nat
           /\ knownTo(t) \in Nat /\ onItsWay(t) \in Nat
<1>1. /\ t.made \in Nat /\ t.sending \in Nat /\ t.overflow \in Nat /\ t.delivered \in Nat /\ t.dropped \in Nat
      /\ t.told \in Nat /\ t.lost \in Nat /\ t.completed \in Nat /\ t.result \in Nat /\ t.active \in BOOLEAN
      /\ t.queue \in Seq(Nat) /\ t.seen \in Seq(Nat)
  BY DEF TrafficType
<1>2. Len(t.queue) \in Nat /\ Len(t.seen) \in Nat BY <1>1
<1> QED BY <1>1, <1>2 DEF knownTo, onItsWay

\* The pump goes on when its send is over, or there was none.
LEMMA PumpGoesOn ==
    ASSUME NEW t, PumpReady(t)
    PROVE  TrafficOK(pumped(t))
<1> DEFINE r == pumped(t)
<1>0. t \in TrafficType /\ t.lost = 0 /\ t.completed = 0 /\ (~t.active => t.queue = << >> /\ t.overflow = 0)
  BY DEF PumpReady
<1>t. /\ t.made \in Nat /\ t.overflow \in Nat /\ t.delivered \in Nat /\ t.dropped \in Nat /\ knownTo(t) \in Nat
      /\ Len(t.queue) \in Nat /\ t.queue \in Seq(Nat) /\ t.active \in BOOLEAN
  BY <1>0, TrafficFields
<1>q. /\ t.active => /\ \A i \in 1..Len(t.queue) : t.queue[i] = knownTo(t) + t.overflow + i
                     /\ t.made = knownTo(t) + t.overflow + Len(t.queue)
      /\ t.made = t.delivered + t.dropped + Len(t.queue)
  BY <1>0, <1>t DEF PumpReady, QueueFollows, Accounted
<1>1. CASE t.active /\ t.overflow > 0
  <2>1. r = [t EXCEPT !.pump = "overflow", !.sending = t.overflow, !.overflow = 0]
    BY <1>1 DEF pumped
  <2>2. /\ r.pump = "overflow" /\ r.sending = t.overflow /\ r.overflow = 0 /\ r.queue = t.queue /\ r.seen = t.seen
        /\ r.told = t.told /\ r.made = t.made /\ r.active = t.active /\ r.delivered = t.delivered
        /\ r.dropped = t.dropped /\ r.lost = t.lost /\ r.completed = t.completed
    BY <1>0, <2>1 DEF TrafficType
  <2>3. r \in TrafficType BY <1>0, <1>t, <2>1 DEF TrafficType
  <2> HIDE DEF r
  <2>4. knownTo(r) = knownTo(t) /\ onItsWay(r) = t.overflow BY <2>2 DEF knownTo, onItsWay
  <2>5. QueueFollows(r, knownTo(r) + onItsWay(r))
    BY <1>1, <1>t, <1>q, <2>2, <2>4, SMTT(30) DEF QueueFollows
  <2>6. Accounted(r, 0) BY <1>0, <1>t, <1>q, <2>2 DEF Accounted
  <2>7. TrafficOK(r) BY <1>0, <1>1, <2>2, <2>3, <2>5, <2>6 DEF TrafficOK
  <2> QED BY <2>7 DEF r
<1>2. CASE t.active /\ t.overflow = 0 /\ t.queue # << >>
  <2> DEFINE q == Tail(t.queue)
  <2>1. r = [t EXCEPT !.pump = "event", !.sending = Head(t.queue), !.queue = q] BY <1>2 DEF pumped
  <2>2. /\ q \in Seq(Nat) /\ Len(q) = Len(t.queue) - 1 /\ Len(t.queue) > 0 /\ Head(t.queue) = t.queue[1]
        /\ \A i \in 1..Len(q) : q[i] = t.queue[i + 1] /\ i + 1 \in 1..Len(t.queue)
    BY <1>t, <1>2
  <2>3. Head(t.queue) = knownTo(t) + 1 /\ Head(t.queue) \in Nat BY <1>2, <1>t, <1>q, <2>2
  <2>4. \A i \in 1..Len(q) : q[i] = knownTo(t) + 1 + i
    <3>1. \A i \in 1..Len(t.queue) : t.queue[i] = knownTo(t) + i BY <1>2, <1>t, <1>q
    <3> HIDE DEF q
    <3> QED BY <1>t, <2>2, <3>1
  <2> HIDE DEF q
  <2>5. /\ r.pump = "event" /\ r.sending = Head(t.queue) /\ r.overflow = t.overflow /\ r.queue = q /\ r.seen = t.seen
        /\ r.told = t.told /\ r.made = t.made /\ r.active = t.active /\ r.delivered = t.delivered
        /\ r.dropped = t.dropped /\ r.lost = t.lost /\ r.completed = t.completed
    BY <1>0, <2>1 DEF TrafficType
  <2>6. r \in TrafficType BY <1>0, <2>1, <2>2, <2>3 DEF TrafficType
  <2> HIDE DEF r
  <2>7. knownTo(r) = knownTo(t) /\ onItsWay(r) = 1 BY <2>5 DEF knownTo, onItsWay
  <2>l. t.made = knownTo(t) + 1 + Len(q) /\ t.made = t.delivered + t.dropped + 1 + Len(q) /\ Len(q) \in Nat
    <3>1. Len(t.queue) = 1 + Len(q) /\ Len(q) \in Nat
      <4>1. Len(q) \in Nat BY <2>2
      <4> HIDE DEF q
      <4> QED BY <1>t, <2>2, <4>1
    <3>2. t.made = knownTo(t) + Len(t.queue) /\ t.made = t.delivered + t.dropped + Len(t.queue)
      BY <1>2, <1>t, <1>q
    <3> QED BY <1>t, <3>1, <3>2
  <2>8. QueueFollows(r, knownTo(t) + 1)
    <3>1. \A i \in 1..Len(q) : q[i] = knownTo(t) + 1 + 0 + i BY <1>t, <2>4
    <3>2. t.made = knownTo(t) + 1 + 0 + Len(q) BY <1>t, <2>l
    <3>3. r.queue = q /\ r.made = t.made /\ r.overflow = 0 BY <1>2, <2>5
    <3> QED BY <3>1, <3>2, <3>3 DEF QueueFollows
  <2>9. Accounted(r, 1)
    <3>1. t.made = t.delivered + t.dropped + 0 + 1 + Len(q) BY <1>t, <2>l
    <3>2. r.queue = q /\ r.made = t.made /\ r.lost = 0 /\ r.delivered = t.delivered /\ r.dropped = t.dropped
      BY <1>0, <2>5
    <3> QED BY <3>1, <3>2 DEF Accounted
  <2>10. TrafficOK(r) BY <1>0, <1>2, <2>3, <2>5, <2>6, <2>7, <2>8, <2>9 DEF TrafficOK
  <2> QED BY <2>10 DEF r
<1>3. CASE t.active /\ t.overflow = 0 /\ t.queue = << >>
  <2>1. r = [t EXCEPT !.pump = "idle"] BY <1>3 DEF pumped, pumpEnds
  <2>2. /\ r.pump = "idle" /\ r.overflow = 0 /\ r.queue = t.queue /\ r.seen = t.seen
        /\ r.told = t.told /\ r.made = t.made /\ r.active = t.active /\ r.delivered = t.delivered
        /\ r.dropped = t.dropped /\ r.lost = t.lost /\ r.completed = t.completed
    BY <1>0, <1>3, <2>1 DEF TrafficType
  <2>3. r \in TrafficType BY <1>0, <2>1 DEF TrafficType
  <2> HIDE DEF r
  <2>4. knownTo(r) = knownTo(t) /\ onItsWay(r) = 0 BY <2>2 DEF knownTo, onItsWay
  <2>5. QueueFollows(r, knownTo(r) + onItsWay(r)) BY <1>3, <1>t, <1>q, <2>2, <2>4 DEF QueueFollows
  <2>6. Accounted(r, 0) BY <1>0, <1>t, <1>q, <2>2 DEF Accounted
  <2>7. TrafficOK(r) BY <1>0, <1>3, <2>2, <2>3, <2>5, <2>6 DEF TrafficOK
  <2> QED BY <2>7 DEF r
<1>4. CASE ~t.active
  <2>1. r = [[t EXCEPT !.pump = "idle"] EXCEPT !.completed = 1, !.result = t.delivered + t.dropped]
    <3> DEFINE u == [t EXCEPT !.pump = "idle"]
    <3>1. r = completed(u) BY <1>4 DEF pumped, pumpEnds
    <3>2. u.completed = 0 /\ u.delivered = t.delivered /\ u.dropped = t.dropped
      BY <1>0 DEF TrafficType
    <3> HIDE DEF u
    <3>3. completed(u) = [u EXCEPT !.completed = 0 + 1, !.result = t.delivered + t.dropped]
      BY <3>2 DEF completed
    <3>4. 0 + 1 = 1 OBVIOUS
    <3> QED BY <3>1, <3>3, <3>4 DEF u
  <2>2. /\ r.pump = "idle" /\ r.overflow = t.overflow /\ r.queue = t.queue /\ r.seen = t.seen
        /\ r.told = t.told /\ r.made = t.made /\ r.active = t.active /\ r.delivered = t.delivered
        /\ r.dropped = t.dropped /\ r.lost = t.lost /\ r.completed = 1 /\ r.result = t.delivered + t.dropped
    BY <1>0, <2>1 DEF TrafficType
  <2>3. r \in TrafficType
    <3> DEFINE u == [t EXCEPT !.pump = "idle"]
    <3>1. t.delivered + t.dropped \in Nat BY <1>t
    <3>2. u \in TrafficType BY <1>0 DEF TrafficType
    <3>3. r = [u EXCEPT !.completed = 1, !.result = t.delivered + t.dropped] BY <2>1
    <3> HIDE DEF u, r
    <3> QED BY <3>1, <3>2, <3>3 DEF TrafficType
  <2> HIDE DEF r
  <2>4. Accounted(r, 0) BY <1>0, <1>t, <1>q, <2>2 DEF Accounted
  <2>5. TrafficOK(r) BY <1>0, <1>4, <2>2, <2>3, <2>4 DEF TrafficOK, QueueFollows
  <2> QED BY <2>5 DEF r
<1> QED BY <1>t, <1>1, <1>2, <1>3, <1>4

LEMMA TrafficInitial == TrafficInit => TrafficOK(traffic)
<1> SUFFICES ASSUME TrafficInit PROVE TrafficOK(traffic)
  OBVIOUS
<1>1. << >> \in Seq(Nat) /\ Len(<< >>) = 0 OBVIOUS
<1>2. traffic \in TrafficType BY <1>1 DEF TrafficInit, TrafficType
<1> QED BY <1>1, <1>2 DEF TrafficInit, TrafficOK, Accounted, QueueFollows, knownTo, onItsWay

LEMMA TrafficHolds == TrafficOK(traffic) /\ [TrafficNext]_traffic => TrafficOK(traffic')
<1> SUFFICES ASSUME TrafficOK(traffic), [TrafficNext]_traffic PROVE TrafficOK(traffic')
  OBVIOUS
<1>0. /\ traffic \in TrafficType
      /\ ~traffic.active => traffic.queue = << >> /\ traffic.overflow = 0
      /\ traffic.active \/ traffic.pump # "idle" => traffic.lost = 0 /\ traffic.completed = 0
      /\ traffic.active /\ traffic.pump = "event" => traffic.sending = knownTo(traffic) + 1
  BY DEF TrafficOK
<1> DEFINE one == IF traffic.pump = "event" THEN 1 ELSE 0
           n == knownTo(traffic) + onItsWay(traffic)
<1>t. /\ traffic.made \in Nat /\ traffic.sending \in Nat /\ traffic.overflow \in Nat /\ traffic.delivered \in Nat
      /\ traffic.dropped \in Nat /\ traffic.told \in Nat /\ traffic.lost \in Nat /\ traffic.active \in BOOLEAN
      /\ traffic.queue \in Seq(Nat) /\ traffic.seen \in Seq(Nat) /\ Len(traffic.queue) \in Nat /\ Len(traffic.seen) \in Nat
      /\ knownTo(traffic) \in Nat /\ onItsWay(traffic) \in Nat /\ n \in Nat /\ one \in Nat
  BY <1>0, TrafficFields
<1>q. traffic.active => /\ \A i \in 1..Len(traffic.queue) : traffic.queue[i] = n + traffic.overflow + i
                        /\ traffic.made = n + traffic.overflow + Len(traffic.queue)
  BY DEF TrafficOK, QueueFollows
<1>a. traffic.made = traffic.delivered + traffic.dropped + traffic.lost + one + Len(traffic.queue)
  BY DEF TrafficOK, Accounted
<1>1. CASE Enqueues
  <2> DEFINE m == traffic.made + 1
             full == Len(traffic.queue) >= QueueLimit
             t == IF full THEN [traffic EXCEPT !.queue = Tail(@), !.dropped = @ + 1, !.overflow = @ + 1] ELSE traffic
             q == IF full THEN Tail(traffic.queue) ELSE traffic.queue
             c == IF full THEN 1 ELSE 0
             r == traffic'
  <2>1. traffic.active /\ r = [t EXCEPT !.made = m, !.queue = Append(@, m), !.pump = IF @ = "idle" THEN "scheduled" ELSE @]
    BY <1>1 DEF Enqueues
  <2>2. /\ q \in Seq(Nat) /\ Len(q) \in Nat /\ Len(q) = Len(traffic.queue) - c /\ c \in Nat
        /\ \A i \in 1..Len(q) : q[i] = traffic.queue[i + c] /\ i + c \in 1..Len(traffic.queue)
    <3>1. CASE ~full
      <4>1. q = traffic.queue /\ c = 0 BY <3>1
      <4>2. \A k \in Nat : k - 0 = k /\ k + 0 = k BY ONLY TRUE
      <4> HIDE DEF q, c, t, full, m
      <4> QED BY <1>t, <4>1, <4>2
    <3>2. CASE full
      <4>1. Len(traffic.queue) > 0 /\ traffic.queue # << >> BY <1>t, <3>2, TrafficAssumption
      <4>2. Tail(traffic.queue) \in Seq(Nat) /\ Len(Tail(traffic.queue)) = Len(traffic.queue) - 1
        BY <1>t, <4>1
      <4>3. \A i \in 1..Len(Tail(traffic.queue)) : Tail(traffic.queue)[i] = traffic.queue[i + 1] /\ i + 1 \in 1..Len(traffic.queue)
        BY <1>t, <4>1, <4>2, SMTT(30)
      <4> QED BY <1>t, <3>2, <4>1, <4>2, <4>3, SMTT(30)
    <3> QED BY <3>1, <3>2
  <2>3. /\ t \in TrafficType /\ t.queue = q /\ t.dropped = traffic.dropped + c /\ t.overflow = traffic.overflow + c
        /\ t.made = traffic.made /\ t.active = traffic.active /\ t.pump = traffic.pump /\ t.sending = traffic.sending
        /\ t.delivered = traffic.delivered /\ t.seen = traffic.seen /\ t.told = traffic.told /\ t.lost = traffic.lost
        /\ t.completed = traffic.completed
    <3>1. CASE ~full BY <1>0, <1>t, <3>1
    <3>2. CASE full
      <4>1. /\ traffic.dropped + 1 \in Nat /\ traffic.overflow + 1 \in Nat
            /\ q = Tail(traffic.queue) /\ q \in Seq(Nat) /\ c = 1
        <5>1. q = Tail(traffic.queue) /\ c = 1 BY <3>2
        <5>2. q \in Seq(Nat) BY <2>2
        <5> HIDE DEF t, q, c, full, n, one, m
        <5>3. traffic.dropped + 1 \in Nat /\ traffic.overflow + 1 \in Nat BY <1>t, SMTT(30)
        <5> QED BY <5>1, <5>2, <5>3
      <4>2. t = [traffic EXCEPT !.queue = q, !.dropped = traffic.dropped + 1, !.overflow = traffic.overflow + 1]
        BY <3>2
      <4> HIDE DEF t, q, c, full
      <4>3. t \in TrafficType BY <1>0, <4>1, <4>2 DEF TrafficType
      <4>4. /\ t.queue = q /\ t.dropped = traffic.dropped + c /\ t.overflow = traffic.overflow + c
            /\ t.made = traffic.made /\ t.active = traffic.active /\ t.pump = traffic.pump /\ t.sending = traffic.sending
            /\ t.delivered = traffic.delivered /\ t.seen = traffic.seen /\ t.told = traffic.told /\ t.lost = traffic.lost
            /\ t.completed = traffic.completed
        BY <1>0, <4>1, <4>2 DEF TrafficType
      <4> QED BY <4>3, <4>4
    <3> QED BY <3>1, <3>2
  <2>m. m \in Nat BY <1>t
  <2> HIDE DEF t, q, c, full
  <2>4. /\ r.queue = Append(q, m) /\ r.dropped = traffic.dropped + c /\ r.overflow = traffic.overflow + c /\ r.made = m
        /\ r.active /\ (r.pump = "event" <=> traffic.pump = "event") /\ (r.pump = "overflow" <=> traffic.pump = "overflow")
        /\ r.sending = traffic.sending /\ r.delivered = traffic.delivered
        /\ r.seen = traffic.seen /\ r.told = traffic.told /\ r.lost = 0 /\ r.completed = 0
    <3> HIDE DEF m
    <3> QED BY <1>0, <2>1, <2>3 DEF TrafficType
  <2>5. /\ Append(q, m) \in Seq(Nat) /\ Len(Append(q, m)) = Len(q) + 1
        /\ \A i \in 1..Len(q) : Append(q, m)[i] = q[i]
        /\ Append(q, m)[Len(q) + 1] = m
    BY <2>2, <2>m
  <2>6. r \in TrafficType
    <3> HIDE DEF m
    <3> QED BY <2>1, <2>3, <2>m, <2>5 DEF TrafficType
  <2> HIDE DEF r
  <2>7. knownTo(r) = knownTo(traffic) /\ onItsWay(r) = onItsWay(traffic)
    BY <2>4 DEF knownTo, onItsWay
  <2>k. /\ Len(traffic.queue) = Len(q) + c /\ Len(q) \in Nat /\ c \in Nat
        /\ traffic.made = n + traffic.overflow + Len(traffic.queue)
    BY <1>t, <1>q, <2>1, <2>2
  <2>n. n \in Nat /\ one \in Nat /\ traffic.overflow \in Nat /\ traffic.made \in Nat /\ traffic.delivered \in Nat /\ traffic.dropped \in Nat
    BY <1>t
  <2>e. m = n + (traffic.overflow + c) + (Len(q) + 1)
    <3>1. \A x, y, z, w \in Nat : (x + y + (z + w)) + 1 = x + (y + w) + (z + 1) OBVIOUS
    <3>2. (n + traffic.overflow + (Len(q) + c)) + 1 = n + (traffic.overflow + c) + (Len(q) + 1)
      <4> HIDE DEF n, one, m
      <4>1. n \in Nat /\ traffic.overflow \in Nat /\ Len(q) \in Nat /\ c \in Nat BY <2>k, <2>n
      <4> QED BY ONLY <4>1, <3>1, SMTT(30)
    <3> HIDE DEF n
    <3> QED BY <2>k, <3>2
  <2>8. r.made = n + r.overflow + Len(r.queue)
    <3> HIDE DEF n, m
    <3> QED BY <2>4, <2>5, <2>e
  <2>9. \A i \in 1..Len(r.queue) : r.queue[i] = n + r.overflow + i
    <3> HIDE DEF n
    <3>1. ASSUME NEW i \in 1..Len(q) PROVE q[i] = n + traffic.overflow + c + i
      <4>1. i + c \in 1..Len(traffic.queue) /\ q[i] = traffic.queue[i + c] BY <2>2
      <4>2. q[i] = n + traffic.overflow + (i + c) BY <1>q, <2>1, <4>1
      <4> QED BY <1>t, <2>2, <4>2
    <3>2. m = n + traffic.overflow + c + (Len(q) + 1)
      <4> HIDE DEF m
      <4> QED BY <2>e, <2>k, <2>n
    <3>3. ASSUME NEW i \in 1..(Len(q) + 1) PROVE Append(q, m)[i] = n + traffic.overflow + c + i
      <4>1. CASE i = Len(q) + 1
        <5> HIDE DEF m
        <5> QED BY <2>5, <3>2, <4>1
      <4>2. CASE i # Len(q) + 1
        <5>1. i \in 1..Len(q) BY <2>2, <4>2
        <5> QED BY <2>5, <3>1, <5>1
      <4> QED BY <4>1, <4>2
    <3>4. n + (traffic.overflow + c) = n + traffic.overflow + c BY <1>t, <2>2
    <3> HIDE DEF m
    <3> QED BY <2>4, <2>5, <3>3, <3>4
  <2>10. r.made = r.delivered + r.dropped + r.lost + one + Len(r.queue)
    <3> HIDE DEF one, n
    <3>1. traffic.made = traffic.delivered + traffic.dropped + 0 + one + (Len(q) + c)
      BY <1>0, <1>a, <2>1, <2>k
    <3>2. m = traffic.delivered + (traffic.dropped + c) + 0 + one + (Len(q) + 1)
      <4>1. \A x, y, z, w, v \in Nat : (x + y + 0 + v + (z + w)) + 1 = x + (y + w) + 0 + v + (z + 1)
        OBVIOUS
      <4> HIDE DEF m
      <4>2. (traffic.delivered + traffic.dropped + 0 + one + (Len(q) + c)) + 1
              = traffic.delivered + (traffic.dropped + c) + 0 + one + (Len(q) + 1)
        <5>1. traffic.delivered \in Nat /\ traffic.dropped \in Nat /\ one \in Nat /\ Len(q) \in Nat /\ c \in Nat
          BY <2>k, <2>n
        <5>3. \A x, y, z, w, v \in Nat : (x + y + v + (z + w)) + 1 = x + (y + w) + v + (z + 1)
          BY ONLY TRUE
        <5>4. (traffic.delivered + traffic.dropped + one + (Len(q) + c)) + 1
                = traffic.delivered + (traffic.dropped + c) + one + (Len(q) + 1)
          BY ONLY <5>1, <5>3, SMTT(30)
        <5>5. /\ traffic.delivered + traffic.dropped + 0 = traffic.delivered + traffic.dropped
              /\ traffic.delivered + (traffic.dropped + c) + 0 = traffic.delivered + (traffic.dropped + c)
          BY ONLY <5>1
        <5> QED BY ONLY <5>4, <5>5
      <4> QED BY <3>1, <4>2 DEF m
    <3> HIDE DEF m
    <3> QED BY <3>2, <2>4, <2>5
  <2>11. QueueFollows(r, knownTo(r) + onItsWay(r)) BY <2>7, <2>8, <2>9 DEF QueueFollows
  <2>12. Accounted(r, IF r.pump = "event" THEN 1 ELSE 0) BY <2>4, <2>10 DEF Accounted
  <2>13. TrafficOK(r)
    <3> HIDE DEF n, one, m
    <3> QED BY <1>0, <2>1, <2>4, <2>6, <2>7, <2>11, <2>12 DEF TrafficOK
  <2> QED BY <2>13 DEF r
<1>2. CASE PumpRuns
  <2>1. traffic.pump = "scheduled" /\ traffic' = pumped(traffic) BY <1>2 DEF PumpRuns
  <2>2. n = knownTo(traffic) /\ one = 0 /\ traffic.lost = 0 /\ traffic.completed = 0
    BY <1>0, <1>t, <2>1 DEF onItsWay
  <2>3. PumpReady(traffic)
    <3> HIDE DEF n, one
    <3> QED BY <1>0, <1>q, <1>a, <2>2 DEF PumpReady, QueueFollows, Accounted
  <2> QED BY <2>1, <2>3, PumpGoesOn
<1>3. CASE EventSent
  <2> DEFINE t == [traffic EXCEPT !.delivered = @ + 1, !.seen = Append(@, traffic.sending), !.sending = 0]
  <2>1. traffic.pump = "event" /\ traffic' = pumped(t) /\ one = 1 /\ onItsWay(traffic) = 1
    BY <1>3 DEF EventSent, onItsWay
  <2>2. /\ Append(traffic.seen, traffic.sending) \in Seq(Nat)
        /\ Len(Append(traffic.seen, traffic.sending)) = Len(traffic.seen) + 1
    BY <1>t
  <2>3. /\ t.made = traffic.made /\ t.queue = traffic.queue /\ t.overflow = traffic.overflow /\ t.active = traffic.active
        /\ t.delivered = traffic.delivered + 1 /\ t.dropped = traffic.dropped /\ t.lost = 0 /\ t.completed = 0
        /\ t.seen = Append(traffic.seen, traffic.sending) /\ t.told = traffic.told
    BY <1>0, <2>1 DEF TrafficType
  <2>4. t \in TrafficType
    <3> DEFINE seen == Append(traffic.seen, traffic.sending)
    <3>1. traffic.delivered + 1 \in Nat /\ seen \in Seq(Nat) BY <1>t, <2>2
    <3> HIDE DEF seen
    <3>2. [traffic EXCEPT !.delivered = traffic.delivered + 1, !.seen = seen, !.sending = 0] \in TrafficType
      BY <1>0, <3>1 DEF TrafficType
    <3> QED BY <3>2 DEF seen
  <2> HIDE DEF t
  <2>5. knownTo(t) = n BY <1>t, <2>1, <2>2, <2>3 DEF knownTo
  <2>6. t.made = t.delivered + t.dropped + t.lost + 0 + Len(t.queue)
    <3> HIDE DEF n
    <3> QED BY <1>0, <1>t, <1>a, <2>1, <2>3
  <2>7. PumpReady(t)
    <3> HIDE DEF n, one
    <3> QED BY <1>0, <1>q, <2>3, <2>4, <2>5, <2>6 DEF PumpReady, QueueFollows, Accounted
  <2> QED BY <2>1, <2>7, PumpGoesOn
<1>4. CASE OverflowSent
  <2> DEFINE t == [traffic EXCEPT !.told = @ + traffic.sending, !.sending = 0]
  <2>1. traffic.pump = "overflow" /\ traffic' = pumped(t) /\ one = 0 /\ onItsWay(traffic) = traffic.sending
    BY <1>4 DEF OverflowSent, onItsWay
  <2>2. traffic.told + traffic.sending \in Nat BY <1>t
  <2>3. /\ t.made = traffic.made /\ t.queue = traffic.queue /\ t.overflow = traffic.overflow /\ t.active = traffic.active
        /\ t.delivered = traffic.delivered /\ t.dropped = traffic.dropped /\ t.lost = 0 /\ t.completed = 0
        /\ t.seen = traffic.seen /\ t.told = traffic.told + traffic.sending
    BY <1>0, <2>1 DEF TrafficType
  <2>4. t \in TrafficType BY <1>0, <1>t, <2>2 DEF TrafficType
  <2> HIDE DEF t
  <2>5. knownTo(t) = n BY <1>t, <2>1, <2>3 DEF knownTo
  <2>6. t.made = t.delivered + t.dropped + t.lost + 0 + Len(t.queue)
    <3> HIDE DEF n
    <3> QED BY <1>0, <1>t, <1>a, <2>1, <2>3
  <2>7. PumpReady(t)
    <3> HIDE DEF n, one
    <3> QED BY <1>0, <1>q, <2>3, <2>4, <2>5, <2>6 DEF PumpReady, QueueFollows, Accounted
  <2> QED BY <2>1, <2>7, PumpGoesOn
<1> DEFINE d == IF traffic.active THEN traffic.dropped + Len(traffic.queue) ELSE traffic.dropped
           u == [traffic EXCEPT !.active = FALSE, !.dropped = d, !.queue = << >>, !.overflow = 0]
<1>d. d \in Nat /\ traffic.delivered + d \in Nat /\ traffic.made = traffic.delivered + d + traffic.lost + one
  <2>1. ~traffic.active => Len(traffic.queue) = 0 BY <1>0
  <2> HIDE DEF one, n
  <2>2. CASE traffic.active
    <3>1. \A x, y, z, w, v \in Nat : x + y + z + w + v = x + (y + v) + z + w OBVIOUS
    <3>2. d = traffic.dropped + Len(traffic.queue) BY <2>2
    <3> HIDE DEF d
    <3>3. /\ traffic.delivered \in Nat /\ traffic.dropped \in Nat /\ traffic.lost \in Nat /\ one \in Nat
          /\ Len(traffic.queue) \in Nat
      BY <1>t
    <3>4. traffic.delivered + traffic.dropped + traffic.lost + one + Len(traffic.queue)
            = traffic.delivered + (traffic.dropped + Len(traffic.queue)) + traffic.lost + one
      BY ONLY <3>1, <3>3
    <3>5. traffic.dropped + Len(traffic.queue) \in Nat BY ONLY <3>3
    <3>6. traffic.delivered + (traffic.dropped + Len(traffic.queue)) \in Nat BY ONLY <3>3, <3>5
    <3> QED BY ONLY <1>a, <3>2, <3>4, <3>5, <3>6
  <2>3. CASE ~traffic.active
    <3>1. traffic.made = traffic.delivered + traffic.dropped + traffic.lost + one + 0 /\ d = traffic.dropped
      BY <1>a, <2>1, <2>3
    <3> HIDE DEF d
    <3> QED BY <1>t, <3>1, SMTT(30)
  <2> QED BY <2>2, <2>3
<1>e. << >> \in Seq(Nat) /\ Len(<< >>) = 0 OBVIOUS
<1> HIDE DEF d, n, one
<1>5. CASE TrafficSendFails
  <2> DEFINE r == traffic'
             t == [traffic EXCEPT !.sending = 0, !.lost = one]
             v == [t EXCEPT !.active = FALSE, !.dropped = d, !.queue = << >>, !.overflow = 0]
  <2>1. traffic.pump \in {"event", "overflow"} /\ traffic.lost = 0 /\ traffic.completed = 0
    BY <1>0, <1>5 DEF TrafficSendFails
  <2>2. r = pumpEnds(IF t.active THEN trafficDisposed(t) ELSE t)
    BY <1>5, <2>1 DEF TrafficSendFails, one
  <2>3. t \in TrafficType /\ t.active = traffic.active /\ t.queue = traffic.queue /\ t.dropped = traffic.dropped
        /\ t.overflow = traffic.overflow
    BY <1>0, <1>t DEF TrafficType
  <2>4. (IF t.active THEN trafficDisposed(t) ELSE t) = v
    <3> HIDE DEF t
    <3>1. CASE traffic.active
      <4>1. d = t.dropped + Len(t.queue) BY <2>3, <3>1 DEF d
      <4> QED BY <2>3, <3>1, <4>1 DEF trafficDisposed
    <3>2. CASE ~traffic.active
      <4>1. d = t.dropped /\ t.queue = << >> /\ t.overflow = 0 /\ t.active = FALSE
        BY <1>0, <1>t, <2>3, <3>2 DEF d
      <4> QED BY <2>3, <3>2, <4>1 DEF TrafficType
    <3> QED BY <3>1, <3>2
  <2>5. /\ v.active = FALSE /\ v.completed = 0 /\ v.delivered = traffic.delivered /\ v.dropped = d /\ v.made = traffic.made
        /\ v.lost = one /\ v.queue = << >> /\ v.overflow = 0
    BY <1>0, <2>1 DEF TrafficType
  <2>6. v \in TrafficType
    <3> HIDE DEF t
    <3> QED BY <1>d, <1>e, <2>3 DEF TrafficType
  <2> HIDE DEF v, t, r
  <2>7. r = [v EXCEPT !.pump = "idle", !.completed = 1, !.result = traffic.delivered + d]
    <3> DEFINE w == [v EXCEPT !.pump = "idle"]
    <3>1. r = completed(w) BY <2>2, <2>4, <2>5 DEF pumpEnds
    <3>2. w.completed = 0 /\ w.delivered = traffic.delivered /\ w.dropped = d
      BY <2>5, <2>6 DEF TrafficType
    <3>3. w \in TrafficType BY <2>6 DEF TrafficType
    <3> HIDE DEF w
    <3>4. completed(w) = [w EXCEPT !.completed = 0 + 1, !.result = traffic.delivered + d]
      BY <3>2 DEF completed
    <3>5. 0 + 1 = 1 OBVIOUS
    <3> QED BY <2>6, <3>1, <3>4, <3>5 DEF w, TrafficType
  <2>8. /\ r.active = FALSE /\ r.completed = 1 /\ r.delivered = traffic.delivered /\ r.dropped = d /\ r.made = traffic.made
        /\ r.lost = one /\ r.queue = << >> /\ r.overflow = 0 /\ r.pump = "idle" /\ r.result = traffic.delivered + d
    BY <2>5, <2>6, <2>7 DEF TrafficType
  <2>9. r \in TrafficType BY <1>d, <2>6, <2>7 DEF TrafficType
  <2>10. Accounted(r, 0) BY <1>d, <1>e, <1>t, <2>1, <2>8 DEF Accounted
  <2>11. TrafficOK(r) BY <2>8, <2>9, <2>10 DEF TrafficOK, QueueFollows
  <2> QED BY <2>11 DEF r
<1>6. CASE TrafficDispose
  <2> DEFINE r == traffic'
  <2>1. traffic.active /\ trafficDisposed(traffic) = u /\ traffic.lost = 0 /\ traffic.completed = 0
    BY <1>0, <1>6 DEF TrafficDispose, trafficDisposed, d
  <2>2. u \in TrafficType BY <1>0, <1>d, <1>e DEF TrafficType
  <2>3. /\ u.active = FALSE /\ u.completed = 0 /\ u.delivered = traffic.delivered /\ u.dropped = d /\ u.made = traffic.made
        /\ u.lost = 0 /\ u.queue = << >> /\ u.overflow = 0 /\ u.pump = traffic.pump
    BY <1>0, <2>1 DEF TrafficType
  <2> HIDE DEF u
  <2>4. r = IF u.pump = "idle" THEN completed(u) ELSE u BY <1>6, <2>1 DEF TrafficDispose
  <2> HIDE DEF r
  <2>5. CASE traffic.pump = "idle"
    <3>1. r = [u EXCEPT !.completed = 0 + 1, !.result = traffic.delivered + d]
      BY <2>3, <2>4, <2>5 DEF completed
    <3>2. 0 + 1 = 1 OBVIOUS
    <3>3. r = [u EXCEPT !.completed = 1, !.result = traffic.delivered + d] BY <3>1, <3>2
    <3>4. /\ r.active = FALSE /\ r.completed = 1 /\ r.delivered = traffic.delivered /\ r.dropped = d /\ r.made = traffic.made
          /\ r.lost = 0 /\ r.queue = << >> /\ r.overflow = 0 /\ r.pump = "idle" /\ r.result = traffic.delivered + d
      BY <2>2, <2>3, <2>5, <3>3 DEF TrafficType
    <3>5. r \in TrafficType BY <1>d, <2>2, <3>3 DEF TrafficType
    <3>6. one = 0 BY <2>5 DEF one
    <3>7. Accounted(r, 0) BY <1>d, <1>e, <1>t, <2>1, <3>4, <3>6 DEF Accounted
    <3>8. TrafficOK(r) BY <3>4, <3>5, <3>7 DEF TrafficOK, QueueFollows
    <3> QED BY <3>8 DEF r
  <2>6. CASE traffic.pump # "idle"
    <3>1. r = u BY <2>3, <2>4, <2>6
    <3>2. Accounted(u, one) BY <1>d, <1>e, <1>t, <2>1, <2>3 DEF Accounted
    <3>3. TrafficOK(u) BY <2>2, <2>3, <2>6, <3>2 DEF TrafficOK, QueueFollows, one
    <3> QED BY <3>1, <3>3 DEF r
  <2> QED BY <2>5, <2>6
<1>7. CASE UNCHANGED traffic BY <1>7
<1> QED BY <1>1, <1>2, <1>3, <1>4, <1>5, <1>6, <1>7 DEF TrafficNext, TrafficPump

\* A watcher can tell exactly where events are missing, and the result of its watch accounts
\* for every event but the one whose send failed, however the queue overflows while a send is
\* under way and wherever the watch is disposed of (boundedTrafficSubscription.ts).
THEOREM TrafficAccounted == TrafficSpec => [](GapsReported /\ WatchResult)
<1>1. ASSUME TrafficOK(traffic) PROVE GapsReported /\ WatchResult
  <2>1. traffic \in TrafficType BY <1>1 DEF TrafficOK
  <2>t. /\ traffic.made \in Nat /\ traffic.delivered \in Nat /\ traffic.dropped \in Nat /\ traffic.lost \in Nat
        /\ traffic.active \in BOOLEAN /\ traffic.completed \in Nat
    BY <2>1, TrafficFields
  <2>2. GapsReported
    <3> SUFFICES ASSUME traffic.active PROVE GapsReported
      BY <2>t DEF GapsReported
    <3>1. /\ traffic.pump = "event" => traffic.sending = knownTo(traffic) + 1
          /\ \A i \in 1..Len(traffic.queue) : traffic.queue[i] = knownTo(traffic) + onItsWay(traffic) + traffic.overflow + i
      BY <1>1 DEF TrafficOK, QueueFollows
    <3>2. (CASE traffic.pump = "event" -> 1 [] traffic.pump = "overflow" -> traffic.sending [] OTHER -> 0) = onItsWay(traffic)
      BY DEF onItsWay
    <3> QED BY <3>1, <3>2 DEF GapsReported, knownTo
  <2>3. WatchResult
    <3>1. CASE traffic.completed = 0 BY <3>1 DEF WatchResult
    <3>2. CASE traffic.completed # 0
      <4>1. ~traffic.active /\ traffic.pump = "idle" BY <1>1, <3>2 DEF TrafficOK
      <4>2. traffic.completed = 1 /\ traffic.result = traffic.delivered + traffic.dropped /\ traffic.queue = << >>
            /\ Accounted(traffic, 0)
        BY <1>1, <4>1 DEF TrafficOK
      <4>3. traffic.made = traffic.delivered + traffic.dropped + traffic.lost + 0 + 0
        BY <4>2 DEF Accounted
      <4> QED BY <2>t, <4>2, <4>3 DEF WatchResult
    <3> QED BY <3>1, <3>2
  <2> QED BY <2>2, <2>3
<1> HIDE DEF TrafficOK
<1>2. TrafficOK(traffic) /\ [TrafficNext]_traffic => TrafficOK(traffic)' BY TrafficHolds
<1> QED BY <1>1, <1>2, TrafficInitial, PTL DEF TrafficSpec

=============================================================================
