-------------------------- MODULE RoutingHub_proofs --------------------------
(***************************************************************************)
(* The routing table and the hub that routes by it, for every set of       *)
(* links, ids and service ids and for every bound.                         *)
(*                                                                         *)
(* Every operation of the table keeps the reverse index in lock-step with  *)
(* the entries, and a lookup answers with the owner of the longest claimed *)
(* ancestor; the lemmas are about any table value, so that they hold of    *)
(* the hub's own table too.  The hub's invariant IInv is inductive: the    *)
(* steps that end requests share one lemma (SettleStep), the steps that    *)
(* start them another (ForwardStep), and the topology steps cite the       *)
(* lemmas about the table.                                                 *)
(***************************************************************************)
EXTENDS RoutingHub, SequenceTheorems, WellFoundedInduction, TLAPS

-----------------------------------------------------------------------------
(* The routing table (ForwardingTable).                                    *)

\* set: claims one prefix, leaves the others, and keeps the index in lock-step
\* (the previous owner included).
LEMMA SetEntryCorrect ==
    ASSUME NEW t \in TableType, InLockStep(t), NEW p \in ServiceId, NEW v \in Link
    PROVE  /\ setEntry(t, p, v) \in TableType
           /\ InLockStep(setEntry(t, p, v))
           /\ setEntry(t, p, v).entries = [t.entries EXCEPT ![p] = v]
<1> DEFINE new == setEntry(t, p, v)
<1>1. new \in TableType BY NoneAssumption DEF setEntry, dropFromIndex, TableType
<1>2. new.entries = [t.entries EXCEPT ![p] = v] BY DEF setEntry
<1>3. ASSUME NEW w \in Link
      PROVE  new.byValue[w] = {q \in ServiceId : new.entries[q] = w}
    <2>1. CASE w = v BY <2>1, NoneAssumption DEF setEntry, dropFromIndex, TableType, InLockStep
    <2>2. CASE w # v /\ t.entries[p] = w
      BY <2>2, NoneAssumption DEF setEntry, dropFromIndex, TableType, InLockStep
    <2>3. CASE w # v /\ t.entries[p] # w
      BY <2>3, NoneAssumption DEF setEntry, dropFromIndex, TableType, InLockStep
    <2> QED BY <2>1, <2>2, <2>3
<1> QED BY <1>1, <1>2, <1>3 DEF InLockStep

\* delete: frees one prefix, leaves the others, and keeps the lock-step.
LEMMA DeleteCorrect ==
    ASSUME NEW t \in TableType, InLockStep(t), NEW p \in ServiceId
    PROVE  /\ delete(t, p) \in TableType
           /\ InLockStep(delete(t, p))
           /\ delete(t, p).entries = [t.entries EXCEPT ![p] = None]
<1> DEFINE new == delete(t, p)
<1>1. CASE t.entries[p] = None
    <2>1. new = t BY <1>1 DEF delete
    <2>2. t.entries = [t.entries EXCEPT ![p] = None] BY <1>1 DEF TableType
    <2> QED BY <2>1, <2>2
<1>2. CASE t.entries[p] # None
    <2>1. new = [entries |-> [t.entries EXCEPT ![p] = None],
                 byValue |-> [t.byValue EXCEPT ![t.entries[p]] = @ \ {p}]]
      BY <1>2 DEF delete, dropFromIndex
    <2>2. new \in TableType BY <1>2, <2>1 DEF TableType
    <2>3. ASSUME NEW w \in Link
          PROVE  new.byValue[w] = {q \in ServiceId : new.entries[q] = w}
      BY <1>2, <2>1, NoneAssumption DEF TableType, InLockStep
    <2> QED BY <2>1, <2>2, <2>3 DEF InLockStep
<1> QED BY <1>1, <1>2

\* deleteByValue: no entry is left for the value, although the code only looks
\* at the index; the entries of the other owners are untouched.
LEMMA DeleteByValueCorrect ==
    ASSUME NEW t \in TableType, InLockStep(t), NEW v \in Link
    PROVE  /\ deleteByValue(t, v) \in TableType
           /\ InLockStep(deleteByValue(t, v))
           /\ \A p \in ServiceId :
                 /\ deleteByValue(t, v).entries[p] # v
                 /\ deleteByValue(t, v).entries[p] \in {t.entries[p], None}
<1> DEFINE new == deleteByValue(t, v)
<1>1. new \in TableType BY DEF deleteByValue, TableType
<1>2. ASSUME NEW p \in ServiceId
      PROVE  new.entries[p] = IF t.entries[p] = v THEN None ELSE t.entries[p]
  BY DEF deleteByValue, InLockStep
<1>3. ASSUME NEW w \in Link
      PROVE  new.byValue[w] = {q \in ServiceId : new.entries[q] = w}
    <2>1. CASE w = v BY <1>2, <2>1, NoneAssumption DEF deleteByValue, TableType
    <2>2. CASE w # v
        <3>1. new.byValue[w] = {q \in ServiceId : t.entries[q] = w}
          BY <2>2 DEF deleteByValue, TableType, InLockStep
        <3> QED BY <1>2, <2>2, <3>1, NoneAssumption
    <2> QED BY <2>1, <2>2
<1> QED BY <1>1, <1>2, <1>3, NoneAssumption DEF InLockStep

\* A lookup that finds an owner finds one that some claimed prefix is bound to.
LEMMA OwnerIsClaimed ==
    ASSUME NEW t \in TableType, NEW s \in ServiceId, OwnerOf(t, s) # None
    PROVE  /\ OwnerOf(t, s) \in Link
           /\ \E p \in ServiceId : t.entries[p] = OwnerOf(t, s)
<1> DEFINE k == CHOOSE k \in LongestClaimed(t, s) : TRUE
<1>1. LongestClaimed(t, s) # {} BY DEF OwnerOf
<1>2. OwnerOf(t, s) = t.entries[SubSeq(s, 1, k)] BY <1>1 DEF OwnerOf
<1>3. k \in LongestClaimed(t, s) BY <1>1
<1>4. SubSeq(s, 1, k) \in ServiceId BY <1>3, ServiceIdAssumption DEF LongestClaimed, ClaimedLengths
<1> QED BY <1>2, <1>4 DEF TableType

\* Whatever calls are made in whatever order, the reverse index that deleteByValue
\* trusts lists exactly the prefixes of each owner, for every set of ids and owners.
THEOREM TableLockStep == FTSpec => [](FTTypeOK /\ IndexInLockStep)
<1>1. FTInit => FTTypeOK /\ IndexInLockStep
  BY NoneAssumption DEF FTInit, FTTypeOK, IndexInLockStep, InLockStep, EmptyTable, TableType
<1>2. FTTypeOK /\ IndexInLockStep /\ [FTNext]_table => (FTTypeOK /\ IndexInLockStep)'
    <2> SUFFICES ASSUME FTTypeOK, IndexInLockStep, [FTNext]_table
                 PROVE  (FTTypeOK /\ IndexInLockStep)'
      OBVIOUS
    <2>1. ASSUME NEW p \in ServiceId, NEW v \in Link, SetEntry(p, v)
          PROVE  (FTTypeOK /\ IndexInLockStep)'
      BY <2>1, SetEntryCorrect DEF SetEntry, FTTypeOK, IndexInLockStep
    <2>2. ASSUME NEW p \in ServiceId, Delete(p)
          PROVE  (FTTypeOK /\ IndexInLockStep)'
      BY <2>2, DeleteCorrect DEF Delete, FTTypeOK, IndexInLockStep
    <2>3. ASSUME NEW v \in Link, DeleteByValue(v)
          PROVE  (FTTypeOK /\ IndexInLockStep)'
      BY <2>3, DeleteByValueCorrect DEF DeleteByValue, FTTypeOK, IndexInLockStep
    <2>4. CASE UNCHANGED table BY <2>4 DEF FTTypeOK, IndexInLockStep
    <2> QED BY <2>1, <2>2, <2>3, <2>4 DEF FTNext
<1> QED BY <1>1, <1>2, PTL DEF FTSpec
-----------------------------------------------------------------------------
(***************************************************************************)
(* The lookup.  Its loop is a recursive function; the function that picks  *)
(* the greatest claimed length satisfies the same equation, and by its     *)
(* least counterexample nothing else does.                                 *)
(***************************************************************************)

LEMMA Least ==
    ASSUME NEW T \in SUBSET Nat, T # {}
    PROVE  \E n \in T : \A m \in T : n <= m
<1> DEFINE Less == OpToRel(<, Nat)
<1>1. IsWellFoundedOn(Less, Nat) BY ONLY NatLessThanWellFounded
<1>2. \A x \in T, y \in T : <<y, x>> \notin Less => x <= y BY DEF OpToRel
<1> HIDE DEF Less
<1>3. \E x \in T : \A y \in T : ~ (<<y, x>> \in Less) BY <1>1, WFMin
<1> QED BY <1>2, <1>3

LEMMA Greatest ==
    ASSUME NEW n \in Nat, NEW T \in SUBSET (1..n), T # {}
    PROVE  \E k \in T : \A j \in T : j <= k
<1> DEFINE U == {i \in Nat : \E j \in T : i = n - j}
<1>1. \A j \in T : n - j \in U /\ j \in Int OBVIOUS
<1>2. U \in SUBSET Nat /\ U # {} BY <1>1
<1>3. \A i \in U : \E j \in T : i = n - j OBVIOUS
<1> HIDE DEF U
<1>4. PICK i \in U : \A m \in U : i <= m BY <1>2, Least
<1>5. PICK k \in T : i = n - k BY <1>3
<1>6. \A j \in T : n - k <= n - j BY <1>1, <1>4, <1>5
<1> QED BY <1>1, <1>6

Upto(t, s, k) == {j \in ClaimedLengths(t, s) : j <= k}

Hit(t, s, k) == [prefix |-> SubSeq(s, 1, k), value |-> t.entries[SubSeq(s, 1, k)]]

\* What the loop returns when it starts at length k.
Found(t, s, k) ==
    IF Upto(t, s, k) = {} THEN NoMatch
    ELSE Hit(t, s, CHOOSE j \in Upto(t, s, k) : \A i \in Upto(t, s, k) : i <= j)

LEMMA FoundIsGreatest ==
    ASSUME NEW t, NEW s \in ServiceId, NEW k \in 0..Len(s), NEW j \in Upto(t, s, k),
           \A i \in Upto(t, s, k) : i <= j
    PROVE  Found(t, s, k) = Hit(t, s, j)
<1> DEFINE g == CHOOSE i \in Upto(t, s, k) : \A l \in Upto(t, s, k) : l <= i
<1>1. g \in Upto(t, s, k) /\ \A l \in Upto(t, s, k) : l <= g
    <2> DEFINE best(i) == \A l \in Upto(t, s, k) : l <= i
    <2>1. \E i \in Upto(t, s, k) : best(i) OBVIOUS
    <2> HIDE DEF best
    <2>2. best(CHOOSE i \in Upto(t, s, k) : best(i)) /\ (CHOOSE i \in Upto(t, s, k) : best(i)) \in Upto(t, s, k)
      BY <2>1
    <2> QED BY <2>2 DEF best
<1>2. Found(t, s, k) = Hit(t, s, g) BY DEF Found
<1> HIDE DEF g
<1>3. g <= j /\ j <= g /\ g \in Int /\ j \in Int
  BY <1>1, ServiceIdAssumption DEF Upto, ClaimedLengths
<1>4. g = j BY <1>3
<1> QED BY <1>2, <1>4

\* The equation of the loop.
LEMMA FoundStep ==
    ASSUME NEW t, NEW s \in ServiceId, NEW k \in 0..Len(s)
    PROVE  Found(t, s, k) = IF k = 0 THEN NoMatch
                            ELSE IF t.entries[SubSeq(s, 1, k)] # None THEN Hit(t, s, k)
                            ELSE Found(t, s, k - 1)
<1>1. Len(s) \in Nat BY ServiceIdAssumption
<1>2. CASE k = 0
    <2>1. Upto(t, s, k) = {} BY <1>1, <1>2 DEF Upto, ClaimedLengths
    <2> QED BY <1>2, <2>1 DEF Found
<1>3. CASE k # 0 /\ t.entries[SubSeq(s, 1, k)] # None
    <2>1. k \in Upto(t, s, k) /\ \A i \in Upto(t, s, k) : i <= k
      BY <1>1, <1>3 DEF Upto, ClaimedLengths
    <2> QED BY <1>3, <2>1, FoundIsGreatest
<1>4. CASE k # 0 /\ t.entries[SubSeq(s, 1, k)] = None
    <2>1. Upto(t, s, k) = Upto(t, s, k - 1) BY <1>1, <1>4 DEF Upto, ClaimedLengths
    <2> QED BY <1>4, <2>1 DEF Found
<1> QED BY <1>2, <1>3, <1>4

LEMMA LookupFinds ==
    ASSUME NEW t, NEW s \in ServiceId
    PROVE  longestPrefixMatch(t, s) = Found(t, s, Len(s))
<1> DEFINE L == Len(s)
           eq(f) == f = [k \in 0..L |->
                           IF k = 0 THEN NoMatch
                           ELSE IF t.entries[SubSeq(s, 1, k)] # None
                                THEN [prefix |-> SubSeq(s, 1, k), value |-> t.entries[SubSeq(s, 1, k)]]
                                ELSE f[k - 1]]
           walk == CHOOSE f : eq(f)
           found == [k \in 0..L |-> Found(t, s, k)]
<1>1. longestPrefixMatch(t, s) = walk[L] BY DEF longestPrefixMatch
<1>2. L \in Nat BY ServiceIdAssumption
<1>3. eq(found)
    <2>1. \A k \in 0..L : found[k] = IF k = 0 THEN NoMatch
                                     ELSE IF t.entries[SubSeq(s, 1, k)] # None THEN Hit(t, s, k)
                                     ELSE found[k - 1]
        <3>1. \A k \in 0..L : k # 0 => k - 1 \in 0..L BY <1>2
        <3> QED BY <3>1, FoundStep
    <2> QED BY <2>1 DEF Hit
<1>4. eq(walk)
    <2> HIDE DEF eq
    <2> QED BY <1>3
<1>5. \A k \in 0..L : walk[k] = IF k = 0 THEN NoMatch
                                ELSE IF t.entries[SubSeq(s, 1, k)] # None THEN Hit(t, s, k)
                                ELSE walk[k - 1]
    <2> HIDE DEF walk
    <2> QED BY <1>4 DEF Hit
<1> HIDE DEF walk, eq, found
<1> DEFINE T == {k \in 0..L : walk[k] # Found(t, s, k)}
<1>6. T = {}
    <2> SUFFICES ASSUME T # {} PROVE FALSE
      OBVIOUS
    <2>1. T \in SUBSET Nat BY <1>2
    <2>2. PICK k \in T : \A j \in T : k <= j
        <3> HIDE DEF T
        <3> QED BY <2>1, Least
    <2>3. k \in 0..L /\ walk[k] # Found(t, s, k) OBVIOUS
    <2>4. k # 0 => k - 1 \in 0..L /\ ~(k <= k - 1) BY <1>2, <2>3
    <2>5. k # 0 => walk[k - 1] = Found(t, s, k - 1) BY <2>2, <2>4
    <2> QED BY <1>5, <2>3, <2>5, FoundStep
<1>7. L \in 0..L BY <1>2
<1> QED BY <1>1, <1>6, <1>7

\* longestPrefixMatch finds the owner of the longest claimed ancestor, in any table.
LEMMA LookupCorrect ==
    ASSUME NEW t, NEW s \in ServiceId
    PROVE  /\ longestPrefixMatch(t, s).value = OwnerOf(t, s)
           /\ longestPrefixMatch(t, s).value # None =>
                 /\ t.entries[longestPrefixMatch(t, s).prefix] = longestPrefixMatch(t, s).value
                 /\ \A k \in ClaimedLengths(t, s) : k <= Len(longestPrefixMatch(t, s).prefix)
<1> DEFINE m == longestPrefixMatch(t, s)
           L == Len(s)
<1>1. L \in Nat /\ ClaimedLengths(t, s) \in SUBSET (1..L) /\ s \in Seq({s[i] : i \in 1..L})
  BY ServiceIdAssumption DEF ClaimedLengths
<1>2. m = Found(t, s, L) BY LookupFinds
<1>3. Upto(t, s, L) = ClaimedLengths(t, s) BY <1>1 DEF Upto
<1> HIDE DEF m, L
<1>4. CASE ClaimedLengths(t, s) = {}
    <2>1. m = NoMatch /\ LongestClaimed(t, s) = {} BY <1>2, <1>3, <1>4 DEF Found, LongestClaimed
    <2> QED BY <2>1 DEF NoMatch, OwnerOf, m
<1>5. CASE ClaimedLengths(t, s) # {}
    <2>1. PICK k \in ClaimedLengths(t, s) : \A j \in ClaimedLengths(t, s) : j <= k
      BY <1>1, <1>5, Greatest
    <2>2. k \in 1..L BY <1>1
    <2>3. m = Hit(t, s, k)
        <3>1. L \in 0..L BY <1>1
        <3> QED BY <1>2, <1>3, <2>1, <3>1, FoundIsGreatest DEF L
    <2>4. LongestClaimed(t, s) = {k} BY <1>1, <2>1, <2>2 DEF LongestClaimed
    <2>5. OwnerOf(t, s) = t.entries[SubSeq(s, 1, k)] BY <2>4 DEF OwnerOf
    <2>6. Len(SubSeq(s, 1, k)) = k BY <1>1, <2>2, SubSeqProperties DEF L
    <2>7. m.prefix = SubSeq(s, 1, k) /\ m.value = t.entries[SubSeq(s, 1, k)] BY <2>3 DEF Hit
    <2>8. \A j \in ClaimedLengths(t, s) : j <= Len(m.prefix) BY <2>1, <2>6, <2>7
    <2>9. m.value = OwnerOf(t, s) /\ t.entries[m.prefix] = m.value BY <2>5, <2>7
    <2> QED BY <2>8, <2>9 DEF m
<1> QED BY <1>4, <1>5

\* The loop of longestPrefixMatch, which tries the id and then its ancestors one by one, returns the
\* owner of the longest claimed ancestor, whatever is in the table.
THEOREM LookupLongest == FTSpec => []LookupIsLongest
<1>1. LookupIsLongest BY LookupCorrect DEF LookupIsLongest
<1> QED BY <1>1, PTL

-----------------------------------------------------------------------------
(* The hub (RoutingHub).                                                   *)

\* Claiming unclaimed prefixes keeps the reverse index in lock-step.
LEMMA ClaimAllCorrect ==
    ASSUME NEW t \in TableType, InLockStep(t), NEW l \in Link,
           NEW ps \in SUBSET ServiceId, \A p \in ps : ~has(t, p)
    PROVE  /\ claimAll(t, ps, l) \in TableType
           /\ InLockStep(claimAll(t, ps, l))
           /\ \A p \in ServiceId :
                 claimAll(t, ps, l).entries[p] = IF p \in ps THEN l ELSE t.entries[p]
<1> DEFINE new == claimAll(t, ps, l)
<1>1. new \in TableType BY DEF claimAll, TableType
<1>2. \A p \in ServiceId : new.entries[p] = IF p \in ps THEN l ELSE t.entries[p] BY DEF claimAll
<1>3. ASSUME NEW w \in Link
      PROVE  new.byValue[w] = {q \in ServiceId : new.entries[q] = w}
    <2>1. CASE w = l BY <1>2, <2>1 DEF claimAll, TableType, InLockStep
    <2>2. CASE w # l
        <3>1. new.byValue[w] = {q \in ServiceId : t.entries[q] = w}
          BY <2>2 DEF claimAll, TableType, InLockStep
        <3>2. \A q \in ps : t.entries[q] # w BY NoneAssumption DEF has
        <3> QED BY <1>2, <2>2, <3>1, <3>2
    <2> QED BY <2>1, <2>2
<1> QED BY <1>1, <1>2, <1>3 DEF InLockStep

\* A message is only ever resolved to an attached link.
LEMMA ResolvedIsAttached ==
    ASSUME TypeOK, RoutesAttached, NEW a \in Address, NEW l, resolve(a, l) # None
    PROVE  resolve(a, l) \in links
<1>1. CASE a \in ServiceId
    <2>1. OwnerOf(table, a) # None => OwnerOf(table, a) \in links
      BY <1>1, OwnerIsClaimed DEF TypeOK, RoutesAttached
    <2> QED BY <1>1, <2>1 DEF resolve, RoutesAttached
<1>2. CASE a \notin ServiceId BY <1>2 DEF Address, resolve, RoutesAttached
<1> QED BY <1>1, <1>2

-----------------------------------------------------------------------------
\* The topology variables a step leaves alone when it only touches requests.
topology == <<links, table, uplink, loopback, gone>>

\* Ending a set of in-flight requests, each with one response.
LEMMA SettleStep ==
    ASSUME IInv, NEW done \in SUBSET pending, NEW by \in Caller, Settle(done, by),
           by # Self => \A p \in done : p.target = by,
           work' \in SUBSET work, work' \cap done \subseteq cut,
           failing' \in SUBSET failing,
           UNCHANGED <<topology, nextId, routed, cut, frames>>
    PROVE  IInv'
<1> USE DEF topology
<1>1. TypeOK'
    <2>1. \A p \in done : reply(p, by) \in ReplyType
      BY DEF IInv, TypeOK, PendingType, ReplyType, reply
    <2> QED BY <2>1 DEF IInv, TypeOK, Settle
<1>2. IndexInLockStep' /\ NoZombie' BY DEF IInv, IndexInLockStep, NoZombie
<1>3. RoutesAttached' BY DEF IInv, RoutesAttached, Settle
<1>4. HubIdsUnique' BY DEF IInv, HubIdsUnique, Settle
<1>5. CallsUnique' BY DEF IInv, CallsUnique, Settle
<1>6. NoLostCall' BY DEF IInv, NoLostCall, Settle
<1>7. FailedUndelivered' /\ NoOrphanedWork' BY DEF IInv, FailedUndelivered, NoOrphanedWork, Settle
<1>8. NoTimerLeak' BY DEF IInv, NoTimerLeak, Settle, hubIds
<1>9. OneReply'
    <2>1. \A p \in done : reply(p, by).fresh BY DEF IInv, CallsUnique, reply
    <2> QED BY <2>1 DEF IInv, OneReply, Settle
<1>10. OwnAnswer'
    <2>1. ASSUME NEW r \in replies', r.by # Self
          PROVE  \E p \in routed : call(p) = <<r.to, r.id>> /\ p.target = r.by /\ p.hubId = r.hubId
        <3>1. CASE r \in replies BY <2>1, <3>1 DEF IInv, OwnAnswer
        <3>2. CASE r \notin replies
            <4>1. PICK p \in done : r = reply(p, by) BY <3>2 DEF Settle
            <4>2. p \in routed /\ p.target = by BY <2>1, <4>1 DEF IInv, HubIdsUnique, reply
            <4> QED BY <4>1, <4>2 DEF reply, call
        <3> QED BY <3>1, <3>2
    <2> QED BY <2>1 DEF OwnAnswer, call
<1> QED BY <1>1, <1>2, <1>3, <1>4, <1>5, <1>6, <1>7, <1>8, <1>9, <1>10 DEF IInv

\* Starting a request of an unused call.
LEMMA ForwardStep ==
    ASSUME IInv, NEW origin \in Caller, NEW id \in Id \cup {nextId}, NEW target \in Link,
           NEW outcome, Forward(origin, id, target, outcome),
           <<origin, id>> \notin waiting,
           origin \notin Link => id = nextId,
           origin \in Link => {origin, target} \subseteq links
    PROVE  IInv'
<1> DEFINE p == [hubId |-> nextId, origin |-> origin, originalId |-> id, target |-> target]
<1>1. /\ nextId \in 1..MaxHubId
      /\ nextId' = nextId + 1
      /\ nextId' \in 1..(MaxHubId + 1)
  BY HubAssumption DEF IInv, TypeOK, Forward
<1>2. p \in PendingType BY <1>1 DEF PendingType
<1>3. /\ pending' = pending \cup {p}
      /\ routed' = routed \cup {p}
      /\ waiting' = waiting \cup {<<origin, id>>}
      /\ work' \in SUBSET (work \cup {p})
      /\ failing' \in SUBSET (failing \cup {p})
      /\ p \notin work' \/ p \notin failing'
    <2>1. p \notin work /\ p \notin failing
      BY DEF IInv, TypeOK, HubIdsUnique, NoOrphanedWork, FailedUndelivered
    <2> QED BY <2>1 DEF Forward
<1>4. UNCHANGED <<links, table, uplink, loopback, gone, replies, cut, stream, frames>> BY DEF Forward
<1>5. call(p) = <<origin, id>> BY DEF call
<1>6. TypeOK'
    <2>1. armed' \in SUBSET (1..MaxHubId) BY <1>1 DEF IInv, TypeOK, Forward, armIdle
    <2>2. waiting' \in SUBSET (Caller \X (Id \cup (1..MaxHubId))) BY <1>1, <1>3 DEF IInv, TypeOK
    <2> QED BY <1>1, <1>2, <1>3, <1>4, <2>1, <2>2 DEF IInv, TypeOK
<1>7. IndexInLockStep' /\ NoZombie' BY <1>4 DEF IInv, IndexInLockStep, NoZombie
<1>8. RoutesAttached' BY <1>3, <1>4 DEF IInv, RoutesAttached
<1>9. HubIdsUnique'
    <2>1. \A q \in routed : q.hubId < nextId /\ q.hubId \in Nat
      BY DEF IInv, HubIdsUnique, TypeOK, PendingType
    <2> QED BY <1>1, <1>3, <2>1 DEF IInv, HubIdsUnique
<1>10. CallsUnique' BY <1>3, <1>5 DEF IInv, CallsUnique
<1>11. NoLostCall' BY <1>3, <1>5 DEF IInv, NoLostCall
<1>12. FailedUndelivered' /\ NoOrphanedWork' BY <1>3, <1>4 DEF IInv, FailedUndelivered, NoOrphanedWork
<1>13. NoTimerLeak' BY <1>3 DEF IInv, NoTimerLeak, Forward, armIdle, hubIds
<1>14. OneReply' /\ OwnAnswer' BY <1>3, <1>4 DEF IInv, OneReply, OwnAnswer
<1> QED BY <1>6, <1>7, <1>8, <1>9, <1>10, <1>11, <1>12, <1>13, <1>14 DEF IInv

-----------------------------------------------------------------------------
\* Steps that attach an attachable link l and change routes only in its favour.
LEMMA TopologyStep ==
    ASSUME IInv, NEW ls \in SUBSET (Link \ gone), links' = links \cup ls,
           table' \in TableType, InLockStep(table'),
           \A p \in ServiceId : table'.entries[p] \in {table.entries[p], None} \cup links',
           uplink' \in {uplink, None} \cup links',
           loopback' \in {loopback, None} \cup links',
           UNCHANGED <<pending, armed, nextId, envVars>>
    PROVE  IInv'
<1> USE DEF envVars
<1>1. TypeOK' BY DEF IInv, TypeOK
<1>2. IndexInLockStep' /\ NoZombie' BY DEF IInv, TypeOK, IndexInLockStep, NoZombie
<1>3. RoutesAttached' BY DEF IInv, RoutesAttached
<1>4. HubIdsUnique' /\ CallsUnique' /\ NoLostCall'
  BY DEF IInv, HubIdsUnique, CallsUnique, NoLostCall
<1>5. FailedUndelivered' /\ NoOrphanedWork' /\ NoTimerLeak'
  BY DEF IInv, FailedUndelivered, NoOrphanedWork, NoTimerLeak, hubIds
<1>6. OneReply' /\ OwnAnswer' BY DEF IInv, OneReply, OwnAnswer
<1> QED BY <1>1, <1>2, <1>3, <1>4, <1>5, <1>6 DEF IInv

\* Detaching a link ends every request it takes part in and frees its routes.
LEMMA DetachStep ==
    ASSUME IInv, NEW l \in Link, Detach(l)
    PROVE  IInv'
<1> DEFINE orphaned == {p \in pending : p.origin = l}
           failed   == {p \in pending : p.origin # l /\ p.target = l}
<1>1. /\ links' = links \ {l}
      /\ gone' = gone \cup {l}
      /\ table' = deleteByValue(table, l)
      /\ uplink' = IF uplink = l THEN None ELSE uplink
      /\ loopback' = IF loopback = l THEN None ELSE loopback
      /\ pending' = pending \ (orphaned \cup failed)
      /\ armed' = armed \ hubIds(orphaned \cup failed)
      /\ replies' = replies \cup {reply(p, Self) : p \in failed}
      /\ waiting' = {w \in waiting : w[1] # l} \ {call(p) : p \in failed}
      /\ work' = {p \in work : p.target # l} \ orphaned
      /\ UNCHANGED <<nextId, routed, failing, cut, stream, frames>>
  BY DEF Detach, callsOf, cancelled
<1>2. /\ table' \in TableType
      /\ InLockStep(table')
      /\ \A p \in ServiceId : /\ table'.entries[p] # l
                              /\ table'.entries[p] \in {table.entries[p], None}
  BY <1>1, DeleteByValueCorrect DEF IInv, TypeOK, IndexInLockStep
<1>3. TypeOK'
    <2>1. \A p \in failed : reply(p, Self) \in ReplyType
      BY DEF IInv, TypeOK, PendingType, ReplyType, reply, Caller
    <2> QED BY <1>1, <1>2, <2>1 DEF IInv, TypeOK
<1>4. IndexInLockStep' /\ NoZombie' BY <1>1, <1>2 DEF IInv, IndexInLockStep, NoZombie
<1>5. RoutesAttached' BY <1>1, <1>2 DEF IInv, RoutesAttached
<1>6. HubIdsUnique' BY <1>1 DEF IInv, HubIdsUnique
<1>7. CallsUnique' BY <1>1 DEF IInv, CallsUnique, call
<1>8. NoLostCall'
    <2>1. ASSUME NEW w \in waiting'
          PROVE  \E p \in pending' : call(p) = w
        <3>1. w \in waiting /\ w[1] # l /\ w \notin {call(p) : p \in failed} BY <1>1
        <3>2. PICK p \in pending : call(p) = w BY <3>1 DEF IInv, NoLostCall
        <3>3. p \notin orphaned /\ p \notin failed BY <3>1, <3>2 DEF call
        <3> QED BY <1>1, <3>2, <3>3
    <2> QED BY <2>1 DEF NoLostCall, call
<1>9. FailedUndelivered' /\ NoOrphanedWork' BY <1>1 DEF IInv, FailedUndelivered, NoOrphanedWork
<1>10. NoTimerLeak' BY <1>1 DEF IInv, NoTimerLeak, hubIds
<1>11. OneReply'
    <2>1. \A p \in failed : reply(p, Self).fresh BY DEF IInv, CallsUnique, reply
    <2> QED BY <1>1, <2>1 DEF IInv, OneReply
<1>12. OwnAnswer' BY <1>1 DEF IInv, OwnAnswer, reply
<1> QED BY <1>3, <1>4, <1>5, <1>6, <1>7, <1>8, <1>9, <1>10, <1>11, <1>12 DEF IInv
-----------------------------------------------------------------------------
\* A step that forwards a stream frame restarts the timer of an in-flight request.
LEMMA FrameStep ==
    ASSUME IInv, NEW p \in pending, NEW from, NEW to, NEW requestId,
           ForwardFrame(from, to, requestId, p.hubId)
    PROVE  IInv'
<1> USE DEF ForwardFrame
<1>1. TypeOK'
    <2>1. frames' \in 0..MaxFrames BY HubAssumption DEF IInv, TypeOK
    <2>2. armed' \in SUBSET (1..MaxHubId) BY DEF IInv, TypeOK, armIdle, PendingType
    <2> QED BY <2>1, <2>2 DEF IInv, TypeOK
<1>2. IndexInLockStep' /\ NoZombie' /\ RoutesAttached'
  BY DEF IInv, IndexInLockStep, NoZombie, RoutesAttached
<1>3. HubIdsUnique' /\ CallsUnique' /\ NoLostCall'
  BY DEF IInv, HubIdsUnique, CallsUnique, NoLostCall
<1>4. FailedUndelivered' /\ NoOrphanedWork' BY DEF IInv, FailedUndelivered, NoOrphanedWork
<1>5. NoTimerLeak' BY DEF IInv, NoTimerLeak, armIdle, hubIds
<1>6. OneReply' /\ OwnAnswer' BY DEF IInv, OneReply, OwnAnswer
<1> QED BY <1>1, <1>2, <1>3, <1>4, <1>5, <1>6 DEF IInv

\* IInv holds initially: nothing is attached and nothing is in flight.
LEMMA InitEstablishes == Init => IInv
<1> SUFFICES ASSUME Init PROVE IInv
  OBVIOUS
<1> USE DEF Init
<1>1. table \in TableType /\ IndexInLockStep /\ \A p \in ServiceId : table.entries[p] = None
  BY NoneAssumption DEF EmptyTable, TableType, IndexInLockStep, InLockStep
<1>2. TypeOK BY <1>1, HubAssumption DEF TypeOK
<1>3. RoutesAttached /\ NoZombie BY <1>1 DEF RoutesAttached, NoZombie
<1>4. HubIdsUnique /\ CallsUnique /\ NoLostCall BY DEF HubIdsUnique, CallsUnique, NoLostCall
<1>5. FailedUndelivered /\ NoOrphanedWork /\ NoTimerLeak /\ OneReply /\ OwnAnswer
  BY DEF FailedUndelivered, NoOrphanedWork, NoTimerLeak, OneReply, OwnAnswer
<1> QED BY <1>1, <1>2, <1>3, <1>4, <1>5 DEF IInv

\* Every step preserves IInv.
LEMMA NextPreserves == IInv /\ [Next]_vars => IInv'
<1> SUFFICES ASSUME IInv, [Next]_vars PROVE IInv'
  OBVIOUS
<1>a. TypeOK /\ IndexInLockStep /\ RoutesAttached /\ NoZombie BY DEF IInv
<1>1. ASSUME NEW l \in Link, NEW ps \in SUBSET ServiceId, NEW rh \in BOOLEAN, Attach(l, ps, rh)
      PROVE  IInv'
    <2>1. /\ table' \in TableType
          /\ InLockStep(table')
          /\ \A p \in ServiceId : table'.entries[p] \in {table.entries[p], l}
      BY <1>a, <1>1, ClaimAllCorrect DEF Attach, claimable, TypeOK, IndexInLockStep
    <2> QED BY <1>1, <2>1, TopologyStep DEF Attach
<1>2. ASSUME NEW l \in Link \cup {None}, SetUplink(l)
      PROVE  IInv'
    <2>1. {l} \ {None} \in SUBSET (Link \ gone) BY <1>2 DEF SetUplink
    <2>2. uplink' \in {uplink, None} \cup links' BY <1>2 DEF SetUplink
    <2> QED BY <1>a, <1>2, <2>1, <2>2, TopologyStep DEF SetUplink, TypeOK, IndexInLockStep
<1>3. ASSUME ClearLoopback
      PROVE  IInv'
    <2>1. {} \in SUBSET (Link \ gone) /\ links' = links \cup {} BY <1>3 DEF ClearLoopback
    <2> QED BY <1>a, <1>3, <2>1, TopologyStep DEF ClearLoopback, TypeOK, IndexInLockStep
<1>4. ASSUME NEW p \in ServiceId, ReleasePrefix(p)
      PROVE  IInv'
    <2>1. /\ table' \in TableType
          /\ InLockStep(table')
          /\ table'.entries = [table.entries EXCEPT ![p] = None]
      BY <1>a, <1>4, DeleteCorrect DEF ReleasePrefix, TypeOK, IndexInLockStep
    <2>2. \A q \in ServiceId : table'.entries[q] \in {table.entries[q], None}
      BY <1>a, <2>1 DEF TypeOK, TableType
    <2>3. {} \in SUBSET (Link \ gone) /\ links' = links \cup {} BY <1>4 DEF ReleasePrefix
    <2> QED BY <1>4, <2>1, <2>2, <2>3, TopologyStep DEF ReleasePrefix
<1>5. ASSUME NEW l \in Link, Detach(l)
      PROVE  IInv'
  BY <1>5, DetachStep
<1>6. ASSUME NEW p \in pending, NEW prefix \in ServiceId, RegisterServiceId(p, prefix)
      PROVE  IInv'
    <2>1. p.origin \in links /\ p.origin \in Link /\ p.origin \notin gone
      BY <1>a, <1>6, HubAssumption DEF RegisterServiceId, RoutesAttached, NoZombie, TypeOK
    <2>2. /\ table' \in TableType
          /\ InLockStep(table')
          /\ table'.entries = [table.entries EXCEPT ![prefix] = p.origin]
      BY <1>a, <1>6, <2>1, SetEntryCorrect DEF RegisterServiceId, TypeOK, IndexInLockStep
    <2>3. \A q \in ServiceId : table'.entries[q] \in {table.entries[q], p.origin}
      BY <1>a, <2>2 DEF TypeOK, TableType
    <2> QED BY <1>6, <2>1, <2>2, <2>3, TopologyStep DEF RegisterServiceId
<1>7. ASSUME NEW l \in Link, NEW i \in Id, NEW a \in Address, AnswerDirectly(l, i, a)
      PROVE  IInv'
    <2> DEFINE r == [to |-> l, id |-> i, by |-> Self, hubId |-> 0, fresh |-> TRUE]
    <2>1. replies' = replies \cup {r} /\ UNCHANGED <<hubVars, gone, waiting, routed, work, failing, cut, stream, frames>>
      BY <1>7 DEF AnswerDirectly
    <2>2. r \in ReplyType BY HubAssumption DEF ReplyType, Caller
    <2>3. TypeOK' BY <1>a, <2>1, <2>2 DEF TypeOK, hubVars
    <2>4. IndexInLockStep' /\ RoutesAttached' /\ NoZombie'
      BY <1>a, <2>1 DEF IndexInLockStep, RoutesAttached, NoZombie, hubVars
    <2>5. HubIdsUnique' /\ CallsUnique' /\ NoLostCall'
      BY <2>1 DEF IInv, HubIdsUnique, CallsUnique, NoLostCall, hubVars
    <2>6. FailedUndelivered' /\ NoOrphanedWork' /\ NoTimerLeak'
      BY <2>1 DEF IInv, FailedUndelivered, NoOrphanedWork, NoTimerLeak, hubVars, hubIds
    <2>7. OneReply' /\ OwnAnswer' BY <2>1 DEF IInv, OneReply, OwnAnswer
    <2> QED BY <2>3, <2>4, <2>5, <2>6, <2>7 DEF IInv
<1>8. ASSUME NEW l \in Link, NEW i \in Id, NEW a \in Address, NEW o \in SendOutcome,
             RouteRequest(l, i, a, o)
      PROVE  IInv'
    <2>1. resolve(a, l) \in links /\ resolve(a, l) \in Link
      BY <1>a, <1>8, ResolvedIsAttached DEF RouteRequest, TypeOK
    <2>2. l \in Caller /\ {l, resolve(a, l)} \subseteq links
      BY <1>8, <2>1, HubAssumption DEF RouteRequest, Caller
    <2> QED BY <1>8, <2>1, <2>2, ForwardStep DEF RouteRequest, IdUnused
<1>b. ASSUME NEW c \in {Self, Watcher} PROVE <<c, nextId>> \notin waiting /\ c \in Caller \ Link
    <2>1. ASSUME NEW p \in pending, call(p) = <<c, nextId>>
          PROVE  FALSE
        <3>1. p.origin \notin Link BY <2>1, HubAssumption DEF call
        <3>2. p.hubId = nextId /\ p.hubId < nextId
          BY <2>1, <3>1 DEF IInv, CallsUnique, HubIdsUnique, call
        <3> QED BY <3>2 DEF IInv, TypeOK
    <2> QED BY <2>1, HubAssumption DEF IInv, NoLostCall, Caller
<1>9. ASSUME NEW l \in Link, NEW o \in SendOutcome, HubRequest(l, o)
      PROVE  IInv'
  BY <1>9, <1>b, ForwardStep DEF HubRequest
<1>9a. ASSUME NEW l \in Link, NEW o \in SendOutcome, HubWatch(l, o)
       PROVE  IInv'
  BY <1>9a, <1>b, ForwardStep DEF HubWatch
<1>9b. ASSUME NEW p \in pending, NEW o \in SendOutcome, WatchControl(p, o)
       PROVE  IInv'
    <2>1. /\ armed' = armIdle({p.hubId}) /\ isWatch(p) /\ p \in routed
          /\ failing' \in {failing, failing \cup {p}}
          /\ failing' \cap work \subseteq (failing \cap work) \cup cut'
          /\ cut' \in {cut, cut \cup ({p} \cap work)}
          /\ UNCHANGED <<links, table, uplink, loopback, pending, nextId,
                         gone, waiting, replies, routed, work, stream, frames>>
      BY <1>9b DEF WatchControl, IInv, HubIdsUnique
    <2>2. p \in PendingType BY <1>a DEF TypeOK
    <2>3. TypeOK' BY <1>a, <2>1, <2>2 DEF TypeOK, armIdle, PendingType
    <2>4. IndexInLockStep' /\ RoutesAttached' /\ NoZombie'
      BY <1>a, <2>1 DEF IndexInLockStep, RoutesAttached, NoZombie
    <2>5. HubIdsUnique' /\ CallsUnique' /\ NoLostCall'
      BY <2>1 DEF IInv, HubIdsUnique, CallsUnique, NoLostCall
    <2>6. FailedUndelivered' /\ NoOrphanedWork' BY <2>1 DEF IInv, FailedUndelivered, NoOrphanedWork
    <2>7. NoTimerLeak' BY <2>1 DEF IInv, NoTimerLeak, armIdle, hubIds
    <2>8. OneReply' /\ OwnAnswer' BY <2>1 DEF IInv, OneReply, OwnAnswer
    <2> QED BY <2>3, <2>4, <2>5, <2>6, <2>7, <2>8 DEF IInv
<1>10. ASSUME NEW p \in failing, SendError(p)
       PROVE  IInv'
    <2> DEFINE done == {p} \cap pending
    <2>1. done \in SUBSET pending /\ Self \in Caller /\ work \cap done \subseteq cut
      BY DEF IInv, FailedUndelivered, Caller
    <2> QED BY <1>10, <2>1, SettleStep DEF SendError, topology
<1>11. ASSUME NEW l \in Link, NEW h \in 1..MaxHubId, Respond(l, h)
       PROVE  IInv'
    <2> DEFINE done == {p \in pending : p.hubId = h /\ p.target = l}
    <2>1. done \in SUBSET pending /\ l \in Caller BY DEF Caller
    <2>2. Settle(done, l) /\ work' \in SUBSET work /\ work' \cap done = {} BY <1>11 DEF Respond
    <2> QED BY <1>11, <2>1, <2>2, SettleStep DEF Respond, topology
<1>12. ASSUME NEW h \in 1..MaxHubId, IdleTimeout(h)
       PROVE  IInv'
    <2> DEFINE done == {p \in pending : p.hubId = h}
    <2>1. done \in SUBSET pending /\ Self \in Caller BY DEF Caller
    <2>2. Settle(done, Self) /\ work' = work \ done BY <1>12 DEF IdleTimeout, cancelled
    <2> QED BY <1>12, <2>1, <2>2, SettleStep DEF IdleTimeout, topology
<1>13. ASSUME NEW p \in pending, Abandon(p)
       PROVE  IInv'
  BY <1>13, SettleStep DEF Abandon, topology, Caller, cancelled
<1>13a. ASSUME NEW p \in pending, DisposeWatch(p)
        PROVE  IInv'
    <2>1. /\ pending' = pending \ {p} /\ armed' = armed \ {p.hubId}
          /\ waiting' = waiting \ {call(p)} /\ work' = work \ {p}
          /\ UNCHANGED <<links, table, uplink, loopback, nextId, gone, replies, routed,
                         failing, cut, stream, frames>>
      BY <1>13a DEF DisposeWatch, cancelled
    <2>2. TypeOK' /\ IndexInLockStep' /\ RoutesAttached' /\ NoZombie'
      BY <1>a, <2>1 DEF TypeOK, IndexInLockStep, RoutesAttached, NoZombie
    <2>3. HubIdsUnique' /\ CallsUnique'
      BY <2>1 DEF IInv, HubIdsUnique, CallsUnique
    <2>4. NoLostCall' BY <2>1 DEF IInv, NoLostCall
    <2>5. FailedUndelivered' /\ NoOrphanedWork' BY <2>1 DEF IInv, FailedUndelivered, NoOrphanedWork
    <2>6. NoTimerLeak' BY <2>1 DEF IInv, NoTimerLeak, hubIds
    <2>7. OneReply' /\ OwnAnswer' BY <2>1 DEF IInv, OneReply, OwnAnswer
    <2> QED BY <2>2, <2>3, <2>4, <2>5, <2>6, <2>7 DEF IInv
<1>14. ASSUME NEW l \in Link, NEW h \in 1..MaxHubId, StreamToCaller(l, h)
       PROVE  IInv'
  BY <1>14, FrameStep DEF StreamToCaller
<1>15. ASSUME NEW l \in Link, NEW i \in Id, StreamToCallee(l, i)
       PROVE  IInv'
  BY <1>15, FrameStep DEF StreamToCallee
<1>16. CASE UNCHANGED vars
  BY <1>16 DEF vars, hubVars, envVars, IInv, TypeOK, IndexInLockStep, RoutesAttached, NoZombie,
               HubIdsUnique, CallsUnique, NoLostCall, FailedUndelivered, NoOrphanedWork,
               NoTimerLeak, OneReply, OwnAnswer, hubIds
<1> QED BY <1>1, <1>2, <1>3, <1>4, <1>5, <1>6, <1>7, <1>8, <1>9, <1>9a, <1>9b, <1>10, <1>11, <1>12,
           <1>13, <1>13a, <1>14, <1>15, <1>16 DEF Next

\* IInv is an invariant of the hub.
THEOREM Invariance == Spec => []IInv
BY InitEstablishes, NextPreserves, PTL DEF Spec

-----------------------------------------------------------------------------
\* The state of the hub stays within its types.
THEOREM TypeCorrect == Spec => []TypeOK
<1>1. IInv => TypeOK BY DEF IInv
<1> QED BY <1>1, Invariance, PTL

\* However answers, timeouts, failed writes, detaches and forged responses are
\* interleaved, no call gets a second response.
THEOREM CallsAnsweredOnce == Spec => []OneReply
<1>1. IInv => OneReply BY DEF IInv
<1> QED BY <1>1, Invariance, PTL

\* A response comes from the link the call was forwarded to: a link cannot answer,
\* by guessing hub ids, what was sent to another one.
THEOREM AnswersNotForged == Spec => []OwnAnswer
<1>1. IInv => OwnAnswer BY DEF IInv
<1> QED BY <1>1, Invariance, PTL

\* Every call without a response has its entry in _pending.
THEOREM CallsNotLost == Spec => []NoLostCall
<1>1. IInv => NoLostCall BY DEF IInv
<1> QED BY <1>1, Invariance, PTL

\* A detached link leaves no route, slot or forwarded request behind, and is not
\* attached again by a registration in progress.
THEOREM DetachIsFinal == Spec => []DetachIsClean
<1>1. IInv => DetachIsClean BY DEF IInv, DetachIsClean
<1> QED BY <1>1, Invariance, PTL

\* A callee is not left working for nobody, except that of a watch that a failed
\* control frame ended, and no timer outlives its request.
THEOREM NothingLeaks == Spec => []EndIsClean
<1>1. IInv => EndIsClean BY DEF IInv, EndIsClean
<1> QED BY <1>1, Invariance, PTL

\* A claimed prefix is not taken over by another link.
THEOREM PrefixesClaimedOnce == Spec => ClaimOnce
<1> DEFINE Kept == \A p \in ServiceId :
                      has(table, p) => table'.entries[p] \in {table.entries[p], None}
<1>1. IInv /\ [Next]_vars => [Kept]_vars
    <2> SUFFICES ASSUME IInv, Next PROVE Kept
      OBVIOUS
    <2>a. table \in TableType /\ InLockStep(table) BY DEF IInv, TypeOK, IndexInLockStep
    <2>1. ASSUME NEW l \in Link, NEW ps \in SUBSET ServiceId, NEW rh \in BOOLEAN, Attach(l, ps, rh)
          PROVE  Kept
      BY <2>1, <2>a, ClaimAllCorrect DEF Attach, claimable, has
    <2>2. ASSUME NEW p \in ServiceId, ReleasePrefix(p)
          PROVE  Kept
        <3>1. table'.entries = [table.entries EXCEPT ![p] = None]
          BY <2>2, <2>a, DeleteCorrect DEF ReleasePrefix
        <3> QED BY <3>1, <2>a DEF TableType
    <2>3. ASSUME NEW l \in Link, Detach(l)
          PROVE  Kept
      BY <2>3, <2>a, DeleteByValueCorrect DEF Detach
    <2>4. ASSUME NEW p \in pending, NEW prefix \in ServiceId, RegisterServiceId(p, prefix)
          PROVE  Kept
        <3>1. table'.entries = [table.entries EXCEPT ![prefix] = p.origin]
          BY <2>4, <2>a, SetEntryCorrect DEF RegisterServiceId
        <3>2. ~has(table, prefix) BY <2>4 DEF RegisterServiceId, claimable
        <3>3. DOMAIN table.entries = ServiceId BY <2>a DEF TableType
        <3> QED BY <3>1, <3>2, <3>3
    <2>5. CASE UNCHANGED table BY <2>5
    <2> QED BY <2>1, <2>2, <2>3, <2>4, <2>5
            DEF Next, SetUplink, ClearLoopback, AnswerDirectly, RouteRequest, HubRequest, HubWatch,
                WatchControl, DisposeWatch, Forward,
                SendError, Respond, IdleTimeout, Abandon, StreamToCaller, StreamToCallee,
                ForwardFrame, hubVars
<1>2. ClaimOnce <=> [][Kept]_vars BY DEF ClaimOnce
<1> QED BY <1>1, <1>2, Invariance, PTL DEF Spec

\* Stream frames travel only along the path of an open call.
THEOREM StreamsFollowCalls == Spec => StreamFollowsCall
<1> DEFINE OnPath ==
        frames' # frames =>
          \E p \in routed :
              /\ call(p) \in waiting
              /\ \/ stream' = [from |-> p.target, to |-> p.origin, requestId |-> p.originalId]
                 \/ stream' = [from |-> p.origin, to |-> p.target, requestId |-> p.hubId]
<1>1. IInv /\ [Next]_vars => [OnPath]_vars
    <2> SUFFICES ASSUME IInv, Next PROVE OnPath
      OBVIOUS
    <2>a. \A p \in pending : p \in routed /\ call(p) \in waiting
      BY DEF IInv, HubIdsUnique, CallsUnique
    <2>1. ASSUME NEW l \in Link, NEW h \in 1..MaxHubId, StreamToCaller(l, h)
          PROVE  OnPath
        <3>1. PICK p \in pending : p.target = l /\ ForwardFrame(l, p.origin, p.originalId, h)
          BY <2>1 DEF StreamToCaller
        <3> QED BY <3>1, <2>a DEF ForwardFrame
    <2>2. ASSUME NEW l \in Link, NEW i \in Id, StreamToCallee(l, i)
          PROVE  OnPath
        <3>1. PICK p \in pending : p.origin = l /\ ForwardFrame(l, p.target, p.hubId, p.hubId)
          BY <2>2 DEF StreamToCallee, call
        <3> QED BY <3>1, <2>a DEF ForwardFrame
    <2>3. CASE UNCHANGED frames BY <2>3
    <2> QED BY <2>1, <2>2, <2>3
            DEF Next, Attach, SetUplink, ClearLoopback, ReleasePrefix, Detach, RegisterServiceId,
                AnswerDirectly, RouteRequest, HubRequest, HubWatch, WatchControl, Forward, SendError,
                Respond, IdleTimeout, Abandon, DisposeWatch, envVars
<1>2. StreamFollowsCall <=> [][OnPath]_vars BY DEF StreamFollowsCall
<1> QED BY <1>1, <1>2, Invariance, PTL DEF Spec
=============================================================================
