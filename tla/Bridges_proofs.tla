--------------------------- MODULE Bridges_proofs ---------------------------
(***************************************************************************)
(* The live registry of the Rust implementation, the sessions of the MCP   *)
(* server, the peer of the JSON-RPC bridge and the message transports      *)
(* (RustRegistry, McpSessions, JsonRpcPeer, MessageTransports), for any    *)
(* keys, users, calls, messages and bounds.  Each has an inductive         *)
(* invariant of its own (LiveRegistryInv, SessionsInv, BridgeInv,          *)
(* TransportInv), and three lemmas about it: that it holds initially, that *)
(* every step keeps it, and what it shows.                                 *)
(***************************************************************************)
EXTENDS RustRegistry, McpSessions, JsonRpcPeer, MessageTransports, FiniteSetTheorems,
        WellFoundedInduction, TLAPS

-----------------------------------------------------------------------------
(* The live registry of the Rust implementation (RustRegistry).            *)

LiveEntry == [id : 1..MaxRegistration, key : RegKey]

\* The least element of a set of natural numbers.
LEMMA LeastOf ==
    ASSUME NEW T \in SUBSET Nat, T # {}
    PROVE  \E n \in T : \A m \in T : n <= m
<1> DEFINE Less == OpToRel(<, Nat)
<1>1. IsWellFoundedOn(Less, Nat) BY ONLY NatLessThanWellFounded
<1>2. \A x \in T, y \in T : <<y, x>> \notin Less => x <= y BY DEF OpToRel
<1> HIDE DEF Less
<1>3. \E x \in T : \A y \in T : ~ (<<y, x>> \in Less) BY <1>1, WFMin
<1> QED BY <1>2, <1>3

\* What is wrong somewhere in 0..n is wrong at 0, or at a number whose predecessor is right.
LEMMA FirstWrong ==
    ASSUME NEW n \in Nat, NEW T \in SUBSET (0..n), T # {}
    PROVE  0 \in T \/ \E k \in 1..n : k \in T /\ k - 1 \notin T
<1>1. PICK k \in T : \A m \in T : k <= m BY LeastOf
<1>2. k \in 0..n OBVIOUS
<1>3. k # 0 => k \in 1..n /\ ~(k <= k - 1) BY <1>2
<1> QED BY <1>1, <1>3

\* u[k] is what the filter makes of the first k entries.
Filtering(u, q) ==
    /\ u \in [0..Len(q) -> Seq(LiveEntry)] /\ u[0] = << >>
    /\ \A k \in 1..Len(q) : u[k] = IF q[k].key \in WatchedKey THEN Append(u[k - 1], q[k]) ELSE u[k - 1]

LEMMA FilteringExists ==
    ASSUME NEW q \in Seq(LiveEntry)
    PROVE  \E u : Filtering(u, q)
<1> DEFINE Up(u, n) ==
             /\ u \in [0..n -> Seq(LiveEntry)] /\ u[0] = << >>
             /\ \A k \in 1..n : u[k] = IF q[k].key \in WatchedKey THEN Append(u[k - 1], q[k]) ELSE u[k - 1]
           T == {n \in 0..Len(q) : ~ \E u : Up(u, n)}
<1>0. Len(q) \in Nat /\ \A k \in 1..Len(q) : q[k] \in LiveEntry OBVIOUS
<1>1. SUFFICES ASSUME T # {} PROVE FALSE
    <2>1. Len(q) \in 0..Len(q) BY <1>0
    <2>2. T = {} => \E u : Up(u, Len(q)) BY <2>1
    <2>3. \A u : Up(u, Len(q)) => Filtering(u, q) BY DEF Filtering
    <2> HIDE DEF T, Up
    <2> QED BY <2>2, <2>3
<1>2. 0 \notin T
    <2>1. Up([k \in 0..0 |-> << >>], 0) OBVIOUS
    <2> QED BY <2>1
<1>3. PICK n \in 1..Len(q) : n \in T /\ n - 1 \notin T
    <2>1. T \in SUBSET (0..Len(q)) OBVIOUS
    <2> HIDE DEF T
    <2> QED BY <1>0, <1>1, <1>2, <2>1, FirstWrong
<1>4. n - 1 \in 0..Len(q) /\ n \in Nat /\ n > 0 BY <1>0
<1>5. PICK u : Up(u, n - 1) BY <1>3, <1>4
<1> DEFINE last == IF q[n].key \in WatchedKey THEN Append(u[n - 1], q[n]) ELSE u[n - 1]
           v == [k \in 0..n |-> IF k = n THEN last ELSE u[k]]
<1>6. u[n - 1] \in Seq(LiveEntry) /\ n - 1 \in 0..(n - 1) BY <1>4, <1>5
<1>7. last \in Seq(LiveEntry) BY <1>0, <1>6
<1>8. v \in [0..n -> Seq(LiveEntry)]
    <2> HIDE DEF last
    <2>1. \A k \in 0..n : k # n => k \in 0..(n - 1) BY <1>4
    <2> QED BY <1>5, <1>7, <2>1
<1>9. v[0] = << >> /\ v[n] = last /\ \A k \in 0..(n - 1) : v[k] = u[k]
    <2> HIDE DEF last
    <2>1. 0 \in 0..n /\ n \in 0..n /\ 0 # n /\ \A k \in 0..(n - 1) : k \in 0..n /\ k # n BY <1>4
    <2> QED BY <1>5, <2>1
<1>10. \A k \in 1..n : v[k] = IF q[k].key \in WatchedKey THEN Append(v[k - 1], q[k]) ELSE v[k - 1]
    <2> HIDE DEF v
    <2> TAKE k \in 1..n
    <2>1. CASE k = n BY <1>6, <1>9, <2>1
    <2>2. CASE k # n
        <3>1. k \in 1..(n - 1) /\ k \in 0..(n - 1) /\ k - 1 \in 0..(n - 1) BY <1>4, <2>2
        <3> QED BY <1>5, <1>9, <3>1
    <2> QED BY <2>1, <2>2
<1>11. Up(v, n) BY <1>8, <1>9, <1>10
<1> QED BY <1>3, <1>11

LEMMA FilteredIs ==
    ASSUME NEW q \in Seq(LiveEntry), NEW u, Filtering(u, q)
    PROVE  filtered(q) = u[Len(q)]
<1> DEFINE L == Len(q)
           eq(f) == f = [i \in 0..L |->
                           IF i = 0 THEN << >>
                           ELSE IF q[i].key \in WatchedKey THEN Append(f[i - 1], q[i]) ELSE f[i - 1]]
           walk == CHOOSE f : eq(f)
<1>1. filtered(q) = walk[L] BY DEF filtered
<1>2. L \in Nat OBVIOUS
<1>3. eq(u)
    <2>1. \A i \in 0..L : i = 0 \/ i \in 1..L BY <1>2
    <2> QED BY <2>1 DEF Filtering
<1>4. eq(walk)
    <2> HIDE DEF eq
    <2> QED BY <1>3
<1>5. \A i \in 0..L : walk[i] = IF i = 0 THEN << >>
                                ELSE IF q[i].key \in WatchedKey THEN Append(walk[i - 1], q[i]) ELSE walk[i - 1]
    <2> HIDE DEF walk
    <2> QED BY <1>4
<1> HIDE DEF walk, eq
<1> DEFINE T == {k \in 0..L : walk[k] # u[k]}
<1>6. T = {}
    <2> SUFFICES ASSUME T # {} PROVE FALSE
      OBVIOUS
    <2>1. T \in SUBSET (0..L) OBVIOUS
    <2>2. 0 \notin T BY <1>2, <1>5 DEF Filtering
    <2>3. PICK k \in 1..L : k \in T /\ k - 1 \notin T
        <3> HIDE DEF T
        <3> QED BY <1>2, <2>1, <2>2, FirstWrong
    <2>4. k \in 0..L /\ k - 1 \in 0..L /\ k # 0 BY <1>2
    <2> QED BY <1>5, <2>3, <2>4 DEF Filtering
<1>7. L \in 0..L BY <1>2
<1> QED BY <1>1, <1>6, <1>7

\* The filter keeps what it is to keep, and no more.
LEMMA FilteredKeeps ==
    ASSUME NEW q \in Seq(LiveEntry)
    PROVE  /\ filtered(q) \in Seq(LiveEntry) /\ Len(filtered(q)) <= Len(q)
           /\ filtered(<< >>) = << >>
<1>1. PICK u : Filtering(u, q) BY FilteringExists
<1>2. filtered(q) = u[Len(q)] /\ Len(q) \in Nat BY <1>1, FilteredIs
<1> DEFINE T == {k \in 0..Len(q) : ~ (Len(u[k]) <= k)}
<1>3. T = {}
    <2> SUFFICES ASSUME T # {} PROVE FALSE
      OBVIOUS
    <2>0. u[0] = << >> /\ Len(<< >>) = 0 BY <1>1 DEF Filtering
    <2>1. T \in SUBSET (0..Len(q)) /\ 0 \notin T BY <2>0
    <2>2. PICK k \in 1..Len(q) : k \in T /\ k - 1 \notin T
        <3> HIDE DEF T
        <3> QED BY <1>2, <2>1, FirstWrong
    <2>3. k \in 0..Len(q) /\ k - 1 \in 0..Len(q) /\ q[k] \in LiveEntry BY <1>2
    <2>4. u[k - 1] \in Seq(LiveEntry) /\ Len(u[k - 1]) <= k - 1 BY <1>1, <2>2, <2>3 DEF Filtering
    <2>5. Len(u[k]) <= Len(u[k - 1]) + 1
        <3>1. u[k] = Append(u[k - 1], q[k]) \/ u[k] = u[k - 1] BY <1>1, <2>2 DEF Filtering
        <3>2. Len(Append(u[k - 1], q[k])) = Len(u[k - 1]) + 1 /\ Len(u[k - 1]) \in Nat BY <2>3, <2>4
        <3> QED BY <3>1, <3>2
    <2> QED BY <1>1, <2>2, <2>3, <2>4, <2>5 DEF Filtering
<1>4. Len(q) \in 0..Len(q) BY <1>2
<1>5. filtered(<< >>) = << >>
    <2> DEFINE e == [k \in 0..0 |-> << >>]
    <2>1. << >> \in Seq(LiveEntry) /\ Len(<< >>) = 0 /\ 0 \in 0..0 /\ 1..0 = {} OBVIOUS
    <2>2. e \in [0..0 -> Seq(LiveEntry)] /\ e[0] = << >> BY <2>1
    <2> HIDE DEF e
    <2>3. Filtering(e, << >>) BY <2>1, <2>2 DEF Filtering
    <2> QED BY <2>1, <2>2, <2>3, FilteredIs
<1> QED BY <1>1, <1>2, <1>3, <1>4, <1>5 DEF Filtering

\* An entry that does not match and is added at the end or taken out makes no difference.
LEMMA FilteredAppended ==
    ASSUME NEW q \in Seq(LiveEntry), NEW e \in LiveEntry, e.key \notin WatchedKey
    PROVE  filtered(Append(q, e)) = filtered(q)
<1>1. PICK u : Filtering(u, q) BY FilteringExists
<1> DEFINE n == Len(q)
           p == Append(q, e)
           v == [k \in 0..(n + 1) |-> IF k = n + 1 THEN u[n] ELSE u[k]]
<1>2. n \in Nat /\ p \in Seq(LiveEntry) /\ Len(p) = n + 1 /\ p[n + 1] = e /\ \A k \in 1..n : p[k] = q[k]
  OBVIOUS
<1>3. filtered(q) = u[n] BY <1>1, FilteredIs
<1>4. u \in [0..n -> Seq(LiveEntry)] /\ u[0] = << >> BY <1>1 DEF Filtering
<1>5. \A k \in 1..n : u[k] = IF q[k].key \in WatchedKey THEN Append(u[k - 1], q[k]) ELSE u[k - 1]
  BY <1>1 DEF Filtering
<1> HIDE DEF n, p
<1>6. v \in [0..(n + 1) -> Seq(LiveEntry)]
    <2>1. \A k \in 0..(n + 1) : k # n + 1 => k \in 0..n BY <1>2
    <2>2. n \in 0..n BY <1>2
    <2> QED BY <1>4, <2>1, <2>2
<1>7. v[0] = << >> /\ v[n + 1] = u[n] /\ \A k \in 0..n : v[k] = u[k]
    <2>1. 0 \in 0..(n + 1) /\ n + 1 \in 0..(n + 1) /\ 0 # n + 1 /\ \A k \in 0..n : k \in 0..(n + 1) /\ k # n + 1
      BY <1>2
    <2> QED BY <1>4, <2>1
<1> HIDE DEF v
<1>8. \A k \in 1..(n + 1) : v[k] = IF p[k].key \in WatchedKey THEN Append(v[k - 1], p[k]) ELSE v[k - 1]
    <2> TAKE k \in 1..(n + 1)
    <2>1. CASE k = n + 1
        <3>1. k - 1 = n /\ n \in 0..n BY <1>2, <2>1
        <3> QED BY <1>2, <1>7, <2>1, <3>1
    <2>2. CASE k # n + 1
        <3>1. k \in 1..n /\ k \in 0..n /\ k - 1 \in 0..n BY <1>2, <2>2
        <3> QED BY <1>2, <1>5, <1>7, <3>1
    <2> QED BY <2>1, <2>2
<1>9. Filtering(v, p) BY <1>2, <1>6, <1>7, <1>8 DEF Filtering
<1>10. filtered(p) = v[n + 1] BY <1>2, <1>9, FilteredIs
<1> QED BY <1>3, <1>7, <1>10 DEF p

LEMMA EntriesJoined ==
    ASSUME NEW S, NEW a \in Seq(S), NEW b \in Seq(S)
    PROVE  a \o b \in Seq(S) /\ Len(a \o b) = Len(a) + Len(b)
OBVIOUS

LEMMA LiveEntryRemoved ==
    ASSUME NEW q \in Seq(LiveEntry), NEW i \in 1..Len(q)
    PROVE  LET r == RemoveAt(q, i) IN
           /\ r \in Seq(LiveEntry) /\ Len(r) = Len(q) - 1
           /\ \A j \in 1..(Len(q) - 1) : r[j] = IF j < i THEN q[j] ELSE q[j + 1]
<1> DEFINE r == RemoveAt(q, i)
           a == SubSeq(q, 1, i - 1)
           b == SubSeq(q, i + 1, Len(q))
<1>1. a \in Seq(LiveEntry) /\ Len(a) = i - 1 /\ \A j \in 1..(i - 1) : a[j] = q[j] OBVIOUS
<1>2. b \in Seq(LiveEntry) /\ Len(b) = Len(q) - i /\ \A j \in 1..(Len(q) - i) : b[j] = q[i + j]
  OBVIOUS
<1>3. r = a \o b BY DEF RemoveAt
<1> HIDE DEF a, b, r
<1>4. r \in Seq(LiveEntry) /\ Len(r) = Len(a) + Len(b) BY <1>1, <1>2, <1>3, EntriesJoined
<1>5. Len(r) = Len(q) - 1 BY <1>1, <1>2, <1>4
<1>6. \A j \in 1..(Len(q) - 1) : r[j] = IF j < i THEN q[j] ELSE q[j + 1]
    <2> TAKE j \in 1..(Len(q) - 1)
    <2>1. CASE j < i BY <1>1, <1>2, <1>3, <2>1
    <2>2. CASE ~(j < i)
        <3>1. r[j] = b[j - (i - 1)] BY <1>1, <1>2, <1>3, <1>5, <2>2, SMTT(30)
        <3>2. j - (i - 1) \in 1..(Len(q) - i) /\ i + (j - (i - 1)) = j + 1 BY <2>2
        <3> QED BY <1>2, <2>2, <3>1, <3>2
    <2> QED BY <2>1, <2>2
<1> QED BY <1>4, <1>5, <1>6 DEF r

LEMMA FilteredRemoved ==
    ASSUME NEW q \in Seq(LiveEntry), NEW i \in 1..Len(q), q[i].key \notin WatchedKey
    PROVE  filtered(RemoveAt(q, i)) = filtered(q)
<1>1. PICK u : Filtering(u, q) BY FilteringExists
<1> DEFINE n == Len(q) - 1
           r == RemoveAt(q, i)
           v == [k \in 0..n |-> IF k < i THEN u[k] ELSE u[k + 1]]
<1>2. n \in Nat /\ r \in Seq(LiveEntry) /\ Len(r) = n /\ Len(q) = n + 1 /\ i \in 1..(n + 1)
      /\ \A j \in 1..n : r[j] = IF j < i THEN q[j] ELSE q[j + 1]
  <2>1. Len(q) \in Nat /\ Len(q) # 0 /\ i \in 1..Len(q) OBVIOUS
  <2>2. n \in Nat /\ Len(q) = n + 1 BY <2>1
  <2>3. r \in Seq(LiveEntry) /\ Len(r) = n /\ \A j \in 1..n : r[j] = IF j < i THEN q[j] ELSE q[j + 1]
    BY LiveEntryRemoved
  <2> HIDE DEF n, r
  <2> QED BY <2>1, <2>2, <2>3
<1>3. filtered(q) = u[n + 1] BY <1>1, <1>2, FilteredIs
<1>4. u \in [0..(n + 1) -> Seq(LiveEntry)] /\ u[0] = << >> BY <1>1, <1>2 DEF Filtering
<1>5. \A k \in 1..(n + 1) : u[k] = IF q[k].key \in WatchedKey THEN Append(u[k - 1], q[k]) ELSE u[k - 1]
  BY <1>1, <1>2 DEF Filtering
<1> HIDE DEF n, r
<1>6. u[i] = u[i - 1] BY <1>2, <1>5
<1>7. \A k \in 0..n : v[k] = IF k < i THEN u[k] ELSE u[k + 1] OBVIOUS
<1>8. v \in [0..n -> Seq(LiveEntry)]
    <2>1. \A k \in 0..n : k \in 0..(n + 1) /\ k + 1 \in 0..(n + 1) BY <1>2
    <2> QED BY <1>4, <2>1
<1> HIDE DEF v
<1>9. v[0] = << >> BY <1>2, <1>4, <1>7
<1>10. \A k \in 1..n : v[k] = IF r[k].key \in WatchedKey THEN Append(v[k - 1], r[k]) ELSE v[k - 1]
    <2> TAKE k \in 1..n
    <2>0. k \in 0..n /\ k - 1 \in 0..n /\ k \in 1..(n + 1) /\ k + 1 \in 1..(n + 1) /\ (k - 1) + 1 = k /\ (k + 1) - 1 = k
      BY <1>2
    <2>1. CASE k < i
        <3>1. k - 1 < i BY <1>2, <2>1
        <3> QED BY <1>2, <1>5, <1>7, <2>0, <2>1, <3>1
    <2>2. CASE k = i
        <3>1. v[k - 1] = u[k - 1] /\ v[k] = u[k + 1] /\ r[k] = q[k + 1] BY <1>2, <1>7, <2>0, <2>2
        <3>2. u[k] = u[k - 1] BY <1>6, <2>2
        <3> QED BY <1>5, <2>0, <3>1, <3>2
    <2>3. CASE k > i
        <3>1. ~(k < i) /\ ~(k - 1 < i) BY <1>2, <2>3
        <3>2. v[k - 1] = u[k] /\ v[k] = u[k + 1] /\ r[k] = q[k + 1] BY <1>2, <1>7, <2>0, <3>1
        <3> QED BY <1>5, <2>0, <3>2
    <2> QED BY <1>2, <2>1, <2>2, <2>3
<1>11. filtered(r) = v[n]
    <2>1. Filtering(v, r) BY <1>2, <1>8, <1>9, <1>10 DEF Filtering
    <2> QED BY <1>2, <2>1, FilteredIs
<1>12. v[n] = u[n + 1]
    <2>1. CASE n < i BY <1>2, <1>6, <1>7, <2>1
    <2>2. CASE ~(n < i) BY <1>2, <1>7, <2>2
    <2> QED BY <2>1, <2>2
<1> QED BY <1>3, <1>11, <1>12 DEF r

LiveBinding == [id : 1..MaxRegistration, prefix : RegPrefix]

LiveMade == [key : RegKey \cup {NoWork}, prefixes : SUBSET RegPrefix]

LiveType ==
    [entries : Seq(LiveEntry), bare : SUBSET LiveBinding, issued : 0..MaxRegistration,
     made : [1..MaxRegistration -> LiveMade], refused : SUBSET (1..MaxRegistration),
     gone : SUBSET (1..MaxRegistration), telling : [Registrar -> RegKey \cup {NoWork}],
     watch : {"none", "waiting", "sending", "over"}, watcher : BOOLEAN, slot : BOOLEAN,
     ticks : Nat, listing : {"none", "paging", "done"}, cursor : 0..MaxRegistration,
     view : SUBSET (1..MaxRegistration)]

\* Which registrations are in force, and that they are the entries.
InForce(s, id) == id \in 1..s.issued /\ id \notin s.refused /\ id \notin s.gone

EntriesInv(s) ==
    /\ Len(s.entries) <= s.issued
    /\ s.refused \subseteq 1..s.issued /\ s.gone \subseteq 1..s.issued
    /\ \A i \in 1..Len(s.entries) : InForce(s, s.entries[i].id) /\ s.entries[i].key = s.made[s.entries[i].id].key
    /\ \A id \in 1..s.issued : InForce(s, id) => \E i \in 1..Len(s.entries) : s.entries[i].id = id
    /\ \A i, j \in 1..Len(s.entries) :
        s.entries[i].id = s.entries[j].id \/ s.entries[i].key = s.entries[j].key => i = j

\* The bare bindings are those of the registrations in force, and no two have one prefix.
BareInv(s) ==
    /\ \A b \in s.bare : InForce(s, b.id) /\ b.prefix \in s.made[b.id].prefixes
    /\ \A id \in 1..s.issued : InForce(s, id) => \A p \in s.made[id].prefixes : [id |-> id, prefix |-> p] \in s.bare
    /\ \A b, c \in s.bare : b.prefix = c.prefix => b.id = c.id

\* A tick is on its way to the client, or will be.
TickIsDue(s) ==
    s.slot \/ s.watch = "sending" \/ s.ticks > 0 \/ \E t \in Registrar : s.telling[t] \in WatchedKey

\* As long as no tick is due, the pages that were read are the first of what there is.
FreshListInv(s) ==
    /\ s.watch \in {"waiting", "sending"} => s.watcher = TRUE
    /\ s.watch = "none" => s.listing = "none"
    /\ s.watch \in {"waiting", "sending"} /\ ~TickIsDue(s) =>
        LET all == filtered(s.entries)
        IN /\ s.listing = "paging" => s.cursor <= Len(all) /\ s.view = {all[i].id : i \in 1..s.cursor}
           /\ s.listing = "done" => s.view = {all[i].id : i \in 1..Len(all)}

LiveRegistryInv == live \in LiveType /\ EntriesInv(live) /\ BareInv(live) /\ FreshListInv(live)

LEMMA LiveInitial == LiveInit => LiveRegistryInv
<1> SUFFICES ASSUME LiveInit PROVE LiveRegistryInv
  OBVIOUS
<1>a. MaxRegistration \in Nat BY RustRegistryAssumption
<1>1. live \in LiveType BY <1>a DEF LiveInit, LiveType, LiveMade
<1>2. live.entries = << >> /\ live.bare = {} /\ live.issued = 0 /\ live.refused = {} /\ live.gone = {}
      /\ live.watch = "none" /\ live.listing = "none"
  BY DEF LiveInit
<1>3. EntriesInv(live) /\ BareInv(live) BY <1>1, <1>2 DEF EntriesInv, BareInv
<1>4. FreshListInv(live) BY <1>2 DEF FreshListInv
<1> QED BY <1>1, <1>3, <1>4 DEF LiveRegistryInv

LEMMA LiveStep ==
    ASSUME LiveRegistryInv, [LiveNext]_live
    PROVE  LiveRegistryInv'
<1>a. /\ PageLimit \in Nat \ {0} /\ MaxRegistration \in Nat
      /\ WatchedKey \subseteq RegKey /\ NoWork \notin RegKey
  BY RustRegistryAssumption
<1>b. live \in LiveType /\ EntriesInv(live) /\ BareInv(live) /\ FreshListInv(live)
  BY DEF LiveRegistryInv
<1>c. Len(live.entries) \in Nat /\ \A i \in 1..Len(live.entries) : live.entries[i] \in LiveEntry
  BY <1>b DEF LiveType
<1>d. /\ Len(live.entries) <= live.issued /\ live.issued \in Nat
      /\ live.refused \subseteq 1..live.issued /\ live.gone \subseteq 1..live.issued
  BY <1>b DEF EntriesInv, LiveType
<1>e. \A i \in 1..Len(live.entries) :
        /\ InForce(live, live.entries[i].id) /\ live.entries[i].id \in 1..live.issued
        /\ live.entries[i].key = live.made[live.entries[i].id].key
  BY <1>b DEF EntriesInv, InForce
<1>f. \A id \in 1..live.issued : InForce(live, id) => \E i \in 1..Len(live.entries) : live.entries[i].id = id
  BY <1>b DEF EntriesInv
<1>g. \A i, j \in 1..Len(live.entries) :
        live.entries[i].id = live.entries[j].id \/ live.entries[i].key = live.entries[j].key => i = j
  BY <1>b DEF EntriesInv
<1>h. \A b \in live.bare : InForce(live, b.id) /\ b.prefix \in live.made[b.id].prefixes /\ b.id \in 1..live.issued
  BY <1>b DEF BareInv, InForce
<1>i. \A id \in 1..live.issued : InForce(live, id) => \A p \in live.made[id].prefixes : [id |-> id, prefix |-> p] \in live.bare
  BY <1>b DEF BareInv
<1>s. SUFFICES live' \in LiveType /\ EntriesInv(live') /\ BareInv(live') /\ FreshListInv(live')
  BY DEF LiveRegistryInv
<1>1. CASE UNCHANGED live BY <1>1, <1>b
<1>2. ASSUME NEW t \in Registrar, NEW key \in RegKey, NEW prefixes \in SUBSET RegPrefix, RegisterImpl(t, key, prefixes)
      PROVE  live' \in LiveType /\ EntriesInv(live') /\ BareInv(live') /\ FreshListInv(live')
  <2> DEFINE id == live.issued + 1
             taken1 == (\E e \in Range(live.entries) : e.key = key) \/ (\E b \in live.bare : b.prefix \in prefixes)
  <2>1. id \in 1..MaxRegistration /\ id = live.issued + 1 /\ live.issued \in Nat /\ live.telling[t] = NoWork
    BY <1>2, <1>a, <1>b DEF RegisterImpl, LiveType
  <2>2. live' = IF taken1 THEN [made(live, id, key, prefixes) EXCEPT !.refused = @ \cup {id}]
                ELSE [made(live, id, key, prefixes) EXCEPT !.bare = @ \cup bindingsOf(id, prefixes),
                        !.entries = Append(@, [id |-> id, key |-> key]), !.telling[t] = key]
    BY <1>2, <1>b DEF RegisterImpl, interfaceRegistered, made, LiveType
  <2>3. /\ [key |-> key, prefixes |-> prefixes] \in LiveMade
        /\ [id |-> id, key |-> key] \in LiveEntry
        /\ \A b \in bindingsOf(id, prefixes) : b \in LiveBinding /\ b.id = id /\ b.prefix \in prefixes
        /\ \A p \in prefixes : [id |-> id, prefix |-> p] \in bindingsOf(id, prefixes)
    BY <2>1 DEF LiveMade, LiveEntry, LiveBinding, bindingsOf
  <2> HIDE DEF id
  <2>4. CASE taken1
    <3> DEFINE made1 == [live.made EXCEPT ![id] = [key |-> key, prefixes |-> prefixes]]
               refused1 == live.refused \cup {id}
    <3>1. live' = [live EXCEPT !.issued = id, !.made = made1, !.refused = refused1]
      BY <1>c, <2>1, <2>2, <2>3, <2>4, <1>b DEF made, LiveType
    <3>2. /\ id \in 0..MaxRegistration /\ made1 \in [1..MaxRegistration -> LiveMade]
          /\ refused1 \in SUBSET (1..MaxRegistration)
      BY <1>c, <2>1, <2>2, <2>3, <2>4, <1>a, <1>b DEF LiveType, made
    <3> HIDE DEF made1, refused1
    <3>3. live' \in LiveType BY <3>1, <3>2, <1>a, <1>b DEF LiveType
    <3>4. /\ live'.entries = live.entries /\ live'.bare = live.bare /\ live'.issued = id
          /\ live'.made = made1 /\ live'.refused = refused1 /\ live'.gone = live.gone
          /\ live'.telling = live.telling /\ live'.watch = live.watch
          /\ live'.watcher = live.watcher /\ live'.slot = live.slot /\ live'.ticks = live.ticks
          /\ live'.listing = live.listing /\ live'.cursor = live.cursor /\ live'.view = live.view
      BY <3>1, <3>2, <1>b DEF LiveType
    <3>5. made1[id] = [key |-> key, prefixes |-> prefixes] /\ \A k \in 1..live.issued : made1[k] = live.made[k] /\ k # id
      BY <1>c, <2>1, <2>3, <1>a, <1>b, <3>4, <3>2 DEF made1, LiveType
    <3>6. \A k \in 1..id : k = id \/ k \in 1..live.issued BY <2>1
    <3>7. \A k \in 1..id : InForce(live', k) <=> k # id /\ InForce(live, k)
      BY <1>c, <2>1, <2>3, <1>a, <1>b, <3>4, <3>2, <3>5, <3>6 DEF made1, refused1, made, InForce, EntriesInv
    <3>8. EntriesInv(live')
        <4>1. Len(live.entries) <= id /\ refused1 \subseteq 1..id /\ live.gone \subseteq 1..id
          BY <2>1, <1>d DEF refused1
        <4>2. \A i \in 1..Len(live.entries) : InForce(live', live.entries[i].id) /\ live.entries[i].key = made1[live.entries[i].id].key
          BY <1>e, <2>1, <3>5, <3>7
        <4>3. \A k \in 1..id : InForce(live', k) => \E i \in 1..Len(live.entries) : live.entries[i].id = k
          BY <1>f, <3>6, <3>7
        <4> QED BY <1>g, <3>4, <4>1, <4>2, <4>3 DEF EntriesInv
    <3>9. BareInv(live')
        <4>1. \A b \in live.bare : InForce(live', b.id) /\ b.prefix \in made1[b.id].prefixes
          BY <1>h, <2>1, <3>5, <3>7
        <4>2. \A k \in 1..id : InForce(live', k) => \A p \in made1[k].prefixes : [id |-> k, prefix |-> p] \in live.bare
          BY <1>i, <3>5, <3>6, <3>7
        <4> QED BY <1>b, <3>4, <4>1, <4>2 DEF BareInv
    <3>10. FreshListInv(live') BY <1>b, <3>4 DEF FreshListInv, TickIsDue
    <3> QED BY <3>3, <3>8, <3>9, <3>10
  <2>5. CASE ~taken1
    <3>0. /\ \A i \in 1..Len(live.entries) : live.entries[i].key # key
          /\ \A b \in live.bare : b.prefix \notin prefixes
      BY <2>5, <1>b DEF Range, LiveType
    <3> DEFINE made1 == [live.made EXCEPT ![id] = [key |-> key, prefixes |-> prefixes]]
               bare1 == live.bare \cup bindingsOf(id, prefixes)
               entries1 == Append(live.entries, [id |-> id, key |-> key])
               telling1 == [live.telling EXCEPT ![t] = key]
    <3>1. live' = [live EXCEPT !.issued = id, !.made = made1, !.bare = bare1, !.entries = entries1,
               !.telling = telling1]
      BY <1>c, <2>1, <2>2, <2>3, <2>5, <3>0, <1>b DEF made, LiveType
    <3>2. /\ id \in 0..MaxRegistration /\ made1 \in [1..MaxRegistration -> LiveMade]
          /\ bare1 \in SUBSET LiveBinding /\ entries1 \in Seq(LiveEntry)
          /\ telling1 \in [Registrar -> RegKey \cup {NoWork}]
      BY <1>c, <2>1, <2>2, <2>3, <2>5, <3>0, <1>a, <1>b DEF LiveType, made
    <3> HIDE DEF made1, bare1, entries1, telling1
    <3>3. live' \in LiveType BY <3>1, <3>2, <1>a, <1>b DEF LiveType
    <3>4. /\ live'.entries = entries1 /\ live'.bare = bare1 /\ live'.issued = id
          /\ live'.made = made1 /\ live'.refused = live.refused /\ live'.gone = live.gone
          /\ live'.telling = telling1 /\ live'.watch = live.watch /\ live'.watcher = live.watcher
          /\ live'.slot = live.slot /\ live'.ticks = live.ticks /\ live'.listing = live.listing
          /\ live'.cursor = live.cursor /\ live'.view = live.view
      BY <3>1, <3>2, <1>b DEF LiveType
    <3>5. made1[id] = [key |-> key, prefixes |-> prefixes] /\ \A k \in 1..live.issued : made1[k] = live.made[k] /\ k # id
      BY <1>c, <2>1, <2>3, <3>0, <1>a, <1>b, <3>4, <3>2 DEF made1, LiveType
    <3>6. \A k \in 1..id : k = id \/ k \in 1..live.issued BY <2>1
    <3>7. Len(entries1) = Len(live.entries) + 1 /\ entries1[Len(live.entries) + 1] = [id |-> id, key |-> key]
          /\ \A i \in 1..Len(live.entries) : entries1[i] = live.entries[i]
      BY <1>c, <2>1, <2>3, <3>0, <1>a, <1>b, <3>4, <3>2, <3>5, <3>6 DEF entries1, LiveType
    <3>8. \A k \in 1..id : InForce(live', k) <=> k = id \/ InForce(live, k)
      BY <1>c, <2>1, <2>3, <3>0, <1>a, <1>b, <3>4, <3>2, <3>5, <3>6, <3>7 DEF InForce, EntriesInv
    <3>9. \A i \in 1..Len(entries1) : i = Len(live.entries) + 1 \/ i \in 1..Len(live.entries)
      BY <1>c, <2>1, <2>3, <3>0, <1>a, <1>b, <3>4, <3>2, <3>5, <3>6, <3>7, <3>8
    <3>10. EntriesInv(live')
        <4>1. Len(entries1) <= live'.issued /\ live'.refused \subseteq 1..live'.issued /\ live'.gone \subseteq 1..live'.issued
          BY <1>c, <2>1, <2>3, <3>0, <1>a, <1>b, <3>4, <3>2, <3>5, <3>6, <3>7, <3>8, <3>9, <1>d
        <4>2. \A i \in 1..Len(entries1) : InForce(live', entries1[i].id) /\ entries1[i].key = made1[entries1[i].id].key
            <5>1. InForce(live', id) /\ id \in 1..id BY <2>1, <3>8
            <5>2. entries1[Len(live.entries) + 1].id = id /\ entries1[Len(live.entries) + 1].key = key /\ made1[id].key = key
              BY <3>5, <3>7
            <5>3. \A i \in 1..Len(live.entries) : InForce(live', live.entries[i].id) /\ live.entries[i].key = made1[live.entries[i].id].key
                <6>1. \A k \in 1..live.issued : k \in 1..id BY <2>1
                <6> QED BY <1>e, <3>5, <3>8, <6>1
            <5> QED BY <3>7, <3>9, <5>1, <5>2, <5>3
        <4>3. \A k \in 1..id : InForce(live', k) => \E i \in 1..Len(entries1) : entries1[i].id = k
            <5>1. Len(live.entries) + 1 \in 1..Len(entries1) /\ \A i \in 1..Len(live.entries) : i \in 1..Len(entries1)
              BY <1>c, <3>7
            <5> QED BY <1>f, <3>6, <3>7, <3>8, <5>1
        <4>4. \A i, j \in 1..Len(entries1) : entries1[i].id = entries1[j].id \/ entries1[i].key = entries1[j].key => i = j
            <5>1. entries1[Len(live.entries) + 1].id = id /\ entries1[Len(live.entries) + 1].key = key
              BY <3>7
            <5>2. \A i \in 1..Len(live.entries) : entries1[i].id # id /\ entries1[i].key # key
              BY <1>e, <2>1, <3>0, <3>7, SMTT(30)
            <5> QED BY <1>g, <3>7, <3>9, <5>1, <5>2
        <4> QED
          BY <1>c, <2>1, <2>3, <3>0, <1>a, <1>b, <3>4, <3>2, <3>5, <3>6, <3>7, <3>8, <3>9, <4>1, <4>2, <4>3, <4>4 DEF EntriesInv
    <3>11. BareInv(live')
        <4>1. \A b \in bare1 : b \in live.bare \/ b \in bindingsOf(id, prefixes) BY DEF bare1
        <4>2. \A b \in live.bare : InForce(live, b.id) /\ b.prefix \in live.made[b.id].prefixes /\ b.id \in 1..live.issued
          BY <1>h
        <4>3. \A b \in bare1 : InForce(live', b.id) /\ b.prefix \in made1[b.id].prefixes
          BY <2>1, <2>3, <3>5, <3>8, <4>1, <4>2
        <4>4. \A k \in 1..id : InForce(live', k) => \A p \in made1[k].prefixes : [id |-> k, prefix |-> p] \in bare1
          BY <1>i, <2>3, <3>5, <3>6, <3>8 DEF bare1
        <4>5. \A b, c \in bare1 : b.prefix = c.prefix => b.id = c.id
          BY <1>c, <2>1, <2>3, <3>0, <1>a, <1>b, <3>4, <3>2, <3>5, <3>6, <3>7, <3>8, <3>9, <4>1 DEF BareInv
        <4> QED
          BY <1>c, <2>1, <2>3, <3>0, <1>a, <1>b, <3>4, <3>2, <3>5, <3>6, <3>7, <3>8, <3>9, <4>3, <4>4, <4>5 DEF BareInv
    <3>12. FreshListInv(live')
        <4>1. telling1[t] = key /\ \A r \in Registrar : r # t => telling1[r] = live.telling[r]
          BY <1>c, <2>1, <2>3, <3>0, <1>a, <1>b, <3>4, <3>2, <3>5, <3>6, <3>7, <3>8, <3>9 DEF telling1, LiveType
        <4>2. TickIsDue(live) => TickIsDue(live')
          BY <1>c, <2>1, <2>3, <3>0, <1>a, <1>b, <3>4, <3>2, <3>5, <3>6, <3>7, <3>8, <3>9, <4>1 DEF TickIsDue
        <4>3. key \in WatchedKey => TickIsDue(live')
          BY <1>c, <2>1, <2>3, <3>0, <1>a, <1>b, <3>4, <3>2, <3>5, <3>6, <3>7, <3>8, <3>9, <4>1 DEF TickIsDue
        <4>4. key \notin WatchedKey => filtered(entries1) = filtered(live.entries)
          BY <1>c, <2>1, <2>3, <3>0, <1>a, <1>b, <3>4, <3>2, <3>5, <3>6, <3>7, <3>8, <3>9, FilteredAppended DEF entries1, LiveType
        <4> QED BY <1>b, <3>4, <4>2, <4>3, <4>4 DEF FreshListInv
    <3> QED BY <3>3, <3>10, <3>11, <3>12
  <2> QED BY <2>4, <2>5
<1>3. ASSUME NEW t \in Registrar, NEW id \in 1..MaxRegistration, UnregisterImpl(t, id)
      PROVE  live' \in LiveType /\ EntriesInv(live') /\ BareInv(live') /\ FreshListInv(live')
  <2>0. id \in 1..live.issued /\ id \notin live.refused /\ live.telling[t] = NoWork /\ live.issued \in Nat
    BY <1>3, <1>b DEF UnregisterImpl, LiveType
  <2>1. CASE \E e \in Range(live.entries) : ownEntry(e, id)
    <3> DEFINE p == ownPosition(id)
    <3>0. p \in 1..Len(live.entries) /\ live.entries[p].id = id
      <4>1. \E i \in DOMAIN live.entries : ownEntry(live.entries[i], id) BY <2>1 DEF Range
      <4>2. DOMAIN live.entries = 1..Len(live.entries) BY <1>b DEF LiveType
      <4> QED BY <4>1, <4>2 DEF ownPosition, ownEntry
    <3> HIDE DEF p
    <3>00. live.made[id].key \in RegKey /\ live.made[id].key = live.entries[p].key /\ InForce(live, id)
      BY <1>b, <1>c, <3>0 DEF EntriesInv, LiveEntry
    <3> DEFINE entries1 == RemoveAt(live.entries, p)
               bare1 == {b \in live.bare : b.id # id}
               gone1 == live.gone \cup {id}
               telling1 == [live.telling EXCEPT ![t] = live.made[id].key]
    <3>1. live' = [live EXCEPT !.entries = entries1, !.bare = bare1, !.gone = gone1, !.telling = telling1]
      BY <1>3, <2>1, <1>b DEF UnregisterImpl, LiveType, p
    <3>2. /\ entries1 \in Seq(LiveEntry) /\ bare1 \in SUBSET LiveBinding
          /\ gone1 \in SUBSET (1..MaxRegistration)
          /\ telling1 \in [Registrar -> RegKey \cup {NoWork}]
      BY <1>c, <2>0, <2>1, <3>0, <3>00, <1>a, <1>b, LiveEntryRemoved DEF LiveType, UnregisterImpl
    <3> HIDE DEF entries1, bare1, gone1, telling1
    <3>3. live' \in LiveType BY <3>1, <3>2, <1>a, <1>b DEF LiveType
    <3>4. /\ live'.entries = entries1 /\ live'.bare = bare1 /\ live'.issued = live.issued
          /\ live'.made = live.made /\ live'.refused = live.refused /\ live'.gone = gone1
          /\ live'.telling = telling1 /\ live'.watch = live.watch /\ live'.watcher = live.watcher
          /\ live'.slot = live.slot /\ live'.ticks = live.ticks /\ live'.listing = live.listing
          /\ live'.cursor = live.cursor /\ live'.view = live.view
      BY <3>1, <3>2, <1>b DEF LiveType
    <3>5. /\ Len(entries1) = Len(live.entries) - 1
          /\ \A j \in 1..Len(entries1) : entries1[j] = IF j < p THEN live.entries[j] ELSE live.entries[j + 1]
      BY <1>c, <2>0, <3>0, <3>00, <1>a, <1>b, <3>4, <3>2, LiveEntryRemoved DEF entries1, LiveType
    <3>6. \A j \in 1..Len(entries1) : j \in 1..Len(live.entries) /\ j + 1 \in 1..Len(live.entries)
      <4>1. Len(live.entries) \in Nat /\ Len(entries1) = Len(live.entries) - 1 BY <1>c, <3>5
      <4>2. \A m, n \in Int : n = m - 1 => \A j \in 1..n : j \in 1..m /\ j + 1 \in 1..m OBVIOUS
      <4>3. Len(live.entries) \in Int /\ Len(entries1) \in Int BY <4>1
      <4> QED BY <4>1, <4>2, <4>3, Zenon
    <3>7. \A i \in 1..Len(live.entries) : i # p => \E j \in 1..Len(entries1) : entries1[j] = live.entries[i]
        <4> TAKE i \in 1..Len(live.entries)
        <4>1. i < p => i \in 1..Len(entries1) /\ entries1[i] = live.entries[i]
          BY <1>c, <2>0, <3>0, <3>00, <1>a, <1>b, <3>4, <3>2, <3>5, <3>6
        <4>2. i > p => i - 1 \in 1..Len(entries1) /\ ~(i - 1 < p) /\ (i - 1) + 1 = i
          BY <1>c, <2>0, <3>0, <3>00, <1>a, <1>b, <3>4, <3>2, <3>5, <3>6
        <4>3. i > p => entries1[i - 1] = live.entries[i] BY <3>5, <4>2
        <4>4. i < p \/ i = p \/ i > p BY <3>0
        <4> QED BY <4>1, <4>2, <4>3, <4>4
    <3>8. \A k \in 1..live.issued : InForce(live', k) <=> k # id /\ InForce(live, k)
      BY <1>c, <2>0, <3>0, <3>00, <1>a, <1>b, <3>4, <3>2, <3>5, <3>6, <3>7 DEF gone1, InForce
    <3>9. EntriesInv(live')
        <4>1. Len(entries1) <= live.issued /\ live.refused \subseteq 1..live.issued /\ gone1 \subseteq 1..live.issued
          BY <1>c, <2>0, <3>0, <3>00, <1>a, <1>b, <3>4, <3>2, <3>5, <3>6, <3>7, <3>8, <1>d DEF gone1
        <4>2. \A i \in 1..Len(entries1) : \E j \in 1..Len(live.entries) : j # p /\ entries1[i] = live.entries[j] /\ j = (IF i < p THEN i ELSE i + 1)
          BY <1>c, <2>0, <3>0, <3>00, <1>a, <1>b, <3>4, <3>2, <3>5, <3>6, <3>7, <3>8
        <4>3. ASSUME NEW i \in 1..Len(entries1)
              PROVE  InForce(live', entries1[i].id) /\ entries1[i].key = live.made[entries1[i].id].key
            <5>1. PICK j \in 1..Len(live.entries) : j # p /\ entries1[i] = live.entries[j] BY <4>2
            <5>2. /\ live.entries[j].id \in 1..live.issued /\ InForce(live, live.entries[j].id)
                  /\ live.entries[j].key = live.made[live.entries[j].id].key
              BY <1>e
            <5>3. live.entries[j].id # id BY <1>g, <3>0, <5>1
            <5> QED BY <3>8, <5>1, <5>2, <5>3
        <4>4. \A k \in 1..live.issued : InForce(live', k) => \E i \in 1..Len(entries1) : entries1[i].id = k
          BY <1>f, <3>0, <3>7, <3>8
        <4>5. \A i, j \in 1..Len(entries1) : entries1[i].id = entries1[j].id \/ entries1[i].key = entries1[j].key => i = j
            <5> TAKE i, j \in 1..Len(entries1)
            <5>1. i \in Nat /\ j \in Nat /\ p \in Nat BY <3>0
            <5>2. (IF i < p THEN i ELSE i + 1) = (IF j < p THEN j ELSE j + 1) => i = j BY <5>1
            <5> QED BY <1>g, <4>2, <5>2
        <4> QED BY <3>4, <4>1, <4>3, <4>4, <4>5 DEF EntriesInv
    <3>10. BareInv(live')
        <4>1. \A b \in bare1 : InForce(live', b.id) /\ b.prefix \in live.made[b.id].prefixes
          BY <1>h, <3>8 DEF bare1
        <4>2. \A k \in 1..live.issued : InForce(live', k) => \A q \in live.made[k].prefixes : [id |-> k, prefix |-> q] \in bare1
          BY <1>i, <3>8 DEF bare1
        <4>3. \A b, c \in bare1 : b.prefix = c.prefix => b.id = c.id BY <1>b DEF bare1, BareInv
        <4> QED BY <3>4, <4>1, <4>2, <4>3 DEF BareInv
    <3>11. FreshListInv(live')
        <4>1. telling1[t] = live.entries[p].key /\ \A r \in Registrar : r # t => telling1[r] = live.telling[r]
          BY <1>c, <2>0, <3>0, <3>00, <1>a, <1>b, <3>4, <3>2, <3>5, <3>6, <3>7, <3>8 DEF telling1, LiveType
        <4>2. TickIsDue(live) => TickIsDue(live')
          BY <1>c, <2>0, <3>0, <3>00, <1>a, <1>b, <3>4, <3>2, <3>5, <3>6, <3>7, <3>8, <4>1 DEF TickIsDue
        <4>3. live.entries[p].key \in WatchedKey => TickIsDue(live')
          BY <1>c, <2>0, <3>0, <3>00, <1>a, <1>b, <3>4, <3>2, <3>5, <3>6, <3>7, <3>8, <4>1 DEF TickIsDue
        <4>4. live.entries[p].key \notin WatchedKey => filtered(entries1) = filtered(live.entries)
          BY <1>c, <2>0, <3>0, <3>00, <1>a, <1>b, <3>4, <3>2, <3>5, <3>6, <3>7, <3>8, FilteredRemoved DEF entries1, LiveType
        <4> QED BY <1>b, <3>4, <4>2, <4>3, <4>4 DEF FreshListInv
    <3> QED BY <3>3, <3>9, <3>10, <3>11
  <2>2. CASE ~ \E e \in Range(live.entries) : ownEntry(e, id)
    <3>0. id \in live.gone
      <4>1. \A i \in 1..Len(live.entries) : live.entries[i].id # id
        BY <2>2, <1>b DEF Range, ownEntry, LiveType
      <4> QED BY <4>1, <2>0, <1>b DEF EntriesInv, InForce
    <3>1. live.gone \cup {id} = live.gone BY <3>0
    <3>2. live' = live BY <1>3, <2>2, <3>1, <1>b DEF UnregisterImpl, LiveType
    <3> QED BY <3>2, <1>b
  <2> QED BY <2>1, <2>2
<1>4. ASSUME NEW t \in Registrar, NotifyDirectoryWatchers(t)
      PROVE  live' \in LiveType /\ EntriesInv(live') /\ BareInv(live') /\ FreshListInv(live')
  <2>1. CASE live.watcher = TRUE /\ live.telling[t] \in WatchedKey
    <3> DEFINE telling1 == [live.telling EXCEPT ![t] = NoWork]
    <3>1. live' = [live EXCEPT !.telling = telling1, !.slot = TRUE]
      BY <1>4, <2>1, <1>b DEF NotifyDirectoryWatchers, watcherTold, LiveType
    <3>2. telling1 \in [Registrar -> RegKey \cup {NoWork}]
      BY <1>4, <2>1, <1>a, <1>b DEF LiveType, NotifyDirectoryWatchers, watcherTold
    <3> HIDE DEF telling1
    <3>3. live' \in LiveType BY <3>1, <3>2, <1>a, <1>b DEF LiveType
    <3>4. /\ live'.entries = live.entries /\ live'.bare = live.bare /\ live'.issued = live.issued
          /\ live'.made = live.made /\ live'.refused = live.refused /\ live'.gone = live.gone
          /\ live'.telling = telling1 /\ live'.watch = live.watch /\ live'.watcher = live.watcher
          /\ live'.slot = TRUE /\ live'.ticks = live.ticks /\ live'.listing = live.listing
          /\ live'.cursor = live.cursor /\ live'.view = live.view
      BY <3>1, <3>2, <1>b DEF LiveType
    <3>5. EntriesInv(live')
        <4>1. \A k : InForce(live', k) <=> InForce(live, k) BY <3>4 DEF InForce
        <4> QED BY <1>b, <3>4, <4>1 DEF EntriesInv
    <3>6. BareInv(live') BY <1>b, <3>4 DEF BareInv, InForce
    <3>7. FreshListInv(live') BY <1>4, <2>1, <1>a, <1>b, <3>4, <3>2 DEF FreshListInv, TickIsDue
    <3> QED BY <3>3, <3>5, <3>6, <3>7
  <2>2. CASE ~(live.watcher = TRUE /\ live.telling[t] \in WatchedKey)
    <3> DEFINE telling1 == [live.telling EXCEPT ![t] = NoWork]
    <3>1. live' = [live EXCEPT !.telling = telling1]
        <4>1. live.watcher \in BOOLEAN BY <1>b DEF LiveType
        <4> QED BY <1>4, <2>2, <4>1, <1>b DEF NotifyDirectoryWatchers, watcherTold, LiveType
    <3>2. telling1 \in [Registrar -> RegKey \cup {NoWork}]
      BY <1>4, <2>2, <1>a, <1>b DEF LiveType, NotifyDirectoryWatchers, watcherTold
    <3> HIDE DEF telling1
    <3>3. live' \in LiveType BY <3>1, <3>2, <1>a, <1>b DEF LiveType
    <3>4. /\ live'.entries = live.entries /\ live'.bare = live.bare /\ live'.issued = live.issued
          /\ live'.made = live.made /\ live'.refused = live.refused /\ live'.gone = live.gone
          /\ live'.telling = telling1 /\ live'.watch = live.watch /\ live'.watcher = live.watcher
          /\ live'.slot = live.slot /\ live'.ticks = live.ticks /\ live'.listing = live.listing
          /\ live'.cursor = live.cursor /\ live'.view = live.view
      BY <3>1, <3>2, <1>b DEF LiveType
    <3>5. EntriesInv(live')
        <4>1. \A k : InForce(live', k) <=> InForce(live, k) BY <3>4 DEF InForce
        <4> QED BY <1>b, <3>4, <4>1 DEF EntriesInv
    <3>6. BareInv(live') BY <1>b, <3>4 DEF BareInv, InForce
    <3>7. FreshListInv(live')
        <4>1. telling1[t] = NoWork /\ \A r \in Registrar : r # t => telling1[r] = live.telling[r]
          BY <1>4, <2>2, <1>a, <1>b, <3>4, <3>2 DEF telling1, LiveType
        <4>2. live.watcher = TRUE /\ TickIsDue(live) => TickIsDue(live')
          BY <1>4, <2>2, <1>a, <1>b, <3>4, <3>2, <4>1 DEF TickIsDue
        <4> QED BY <1>4, <2>2, <1>a, <1>b, <3>4, <3>2, <4>2 DEF FreshListInv
    <3> QED BY <3>3, <3>5, <3>6, <3>7
  <2> QED BY <2>1, <2>2
<1>5. CASE WatchBegins
  <2>1. live' = [live EXCEPT !.watch = "waiting", !.watcher = TRUE]
    BY <1>5, <1>b DEF WatchBegins, LiveType
  <2>2. "waiting" \in {"none", "waiting", "sending", "over"}
    BY <1>5, <1>a, <1>b DEF LiveType, WatchBegins
  <2>3. live' \in LiveType BY <2>1, <2>2, <1>a, <1>b DEF LiveType
  <2>4. /\ live'.entries = live.entries /\ live'.bare = live.bare /\ live'.issued = live.issued
        /\ live'.made = live.made /\ live'.refused = live.refused /\ live'.gone = live.gone
        /\ live'.telling = live.telling /\ live'.watch = "waiting" /\ live'.watcher = TRUE
        /\ live'.slot = live.slot /\ live'.ticks = live.ticks /\ live'.listing = live.listing
        /\ live'.cursor = live.cursor /\ live'.view = live.view
    BY <2>1, <2>2, <1>b DEF LiveType
  <2>5. EntriesInv(live') BY <1>b, <2>4 DEF EntriesInv, InForce
  <2>6. BareInv(live') BY <1>b, <2>4 DEF BareInv, InForce
  <2>7. FreshListInv(live') BY <1>5, <1>a, <1>b, <2>4, <2>2 DEF FreshListInv, WatchBegins
  <2> QED BY <2>3, <2>5, <2>6, <2>7
<1>6. CASE WatchTakesTick
  <2>1. live' = [live EXCEPT !.watch = "sending", !.slot = FALSE]
    BY <1>6, <1>b DEF WatchTakesTick, LiveType
  <2>2. "sending" \in {"none", "waiting", "sending", "over"}
    BY <1>6, <1>a, <1>b DEF LiveType, WatchTakesTick
  <2>3. live' \in LiveType BY <2>1, <2>2, <1>a, <1>b DEF LiveType
  <2>4. /\ live'.entries = live.entries /\ live'.bare = live.bare /\ live'.issued = live.issued
        /\ live'.made = live.made /\ live'.refused = live.refused /\ live'.gone = live.gone
        /\ live'.telling = live.telling /\ live'.watch = "sending"
        /\ live'.watcher = live.watcher /\ live'.slot = FALSE /\ live'.ticks = live.ticks
        /\ live'.listing = live.listing /\ live'.cursor = live.cursor /\ live'.view = live.view
    BY <2>1, <2>2, <1>b DEF LiveType
  <2>5. EntriesInv(live') BY <1>b, <2>4 DEF EntriesInv, InForce
  <2>6. BareInv(live') BY <1>b, <2>4 DEF BareInv, InForce
  <2>7. FreshListInv(live')
    BY <1>6, <1>a, <1>b, <2>4, <2>2 DEF FreshListInv, TickIsDue, WatchTakesTick
  <2> QED BY <2>3, <2>5, <2>6, <2>7
<1>7. CASE WatchSendsTick
  <2> DEFINE ticks1 == live.ticks + 1
  <2>1. live' = [live EXCEPT !.watch = "waiting", !.ticks = ticks1]
    BY <1>7, <1>b DEF WatchSendsTick, LiveType
  <2>2. /\ "waiting" \in {"none", "waiting", "sending", "over"} /\ ticks1 \in Nat
    BY <1>7, <1>a, <1>b DEF LiveType, WatchSendsTick
  <2> HIDE DEF ticks1
  <2>3. live' \in LiveType BY <2>1, <2>2, <1>a, <1>b DEF LiveType
  <2>4. /\ live'.entries = live.entries /\ live'.bare = live.bare /\ live'.issued = live.issued
        /\ live'.made = live.made /\ live'.refused = live.refused /\ live'.gone = live.gone
        /\ live'.telling = live.telling /\ live'.watch = "waiting"
        /\ live'.watcher = live.watcher /\ live'.slot = live.slot /\ live'.ticks = ticks1
        /\ live'.listing = live.listing /\ live'.cursor = live.cursor /\ live'.view = live.view
    BY <2>1, <2>2, <1>b DEF LiveType
  <2>5. EntriesInv(live') BY <1>b, <2>4 DEF EntriesInv, InForce
  <2>6. BareInv(live') BY <1>b, <2>4 DEF BareInv, InForce
  <2>7. FreshListInv(live')
    BY <1>7, <1>a, <1>b, <2>4, <2>2 DEF FreshListInv, TickIsDue, WatchSendsTick, ticks1, LiveType
  <2> QED BY <2>3, <2>5, <2>6, <2>7
<1>8. CASE WatchEnds
  <2>1. live' = [live EXCEPT !.watch = "over", !.watcher = FALSE]
    BY <1>8, <1>b DEF WatchEnds, LiveType
  <2>2. "over" \in {"none", "waiting", "sending", "over"}
    BY <1>8, <1>a, <1>b DEF LiveType, WatchEnds
  <2>3. live' \in LiveType BY <2>1, <2>2, <1>a, <1>b DEF LiveType
  <2>4. /\ live'.entries = live.entries /\ live'.bare = live.bare /\ live'.issued = live.issued
        /\ live'.made = live.made /\ live'.refused = live.refused /\ live'.gone = live.gone
        /\ live'.telling = live.telling /\ live'.watch = "over" /\ live'.watcher = FALSE
        /\ live'.slot = live.slot /\ live'.ticks = live.ticks /\ live'.listing = live.listing
        /\ live'.cursor = live.cursor /\ live'.view = live.view
    BY <2>1, <2>2, <1>b DEF LiveType
  <2>5. EntriesInv(live') BY <1>b, <2>4 DEF EntriesInv, InForce
  <2>6. BareInv(live') BY <1>b, <2>4 DEF BareInv, InForce
  <2>7. FreshListInv(live') BY <1>8, <1>a, <1>b, <2>4, <2>2 DEF FreshListInv, WatchEnds
  <2> QED BY <2>3, <2>5, <2>6, <2>7
<1>9. CASE ListStarts
  <2> DEFINE ticks1 == IF live.listing = "none" THEN live.ticks ELSE live.ticks - 1
  <2>1. live' = [live EXCEPT !.ticks = ticks1, !.listing = "paging", !.cursor = 0, !.view = {}]
    BY <1>9, <1>b DEF ListStarts, LiveType
  <2>2. /\ ticks1 \in Nat /\ "paging" \in {"none", "paging", "done"}
        /\ 0 \in 0..MaxRegistration /\ {} \in SUBSET (1..MaxRegistration)
    BY <1>9, <1>a, <1>b DEF LiveType, ListStarts
  <2> HIDE DEF ticks1
  <2>3. live' \in LiveType BY <2>1, <2>2, <1>a, <1>b DEF LiveType
  <2>4. /\ live'.entries = live.entries /\ live'.bare = live.bare /\ live'.issued = live.issued
        /\ live'.made = live.made /\ live'.refused = live.refused /\ live'.gone = live.gone
        /\ live'.telling = live.telling /\ live'.watch = live.watch
        /\ live'.watcher = live.watcher /\ live'.slot = live.slot /\ live'.ticks = ticks1
        /\ live'.listing = "paging" /\ live'.cursor = 0 /\ live'.view = {}
    BY <2>1, <2>2, <1>b DEF LiveType
  <2>5. EntriesInv(live') BY <1>b, <2>4 DEF EntriesInv, InForce
  <2>6. BareInv(live') BY <1>b, <2>4 DEF BareInv, InForce
  <2>7. FreshListInv(live')
      <3>1. Len(filtered(live.entries)) \in Nat /\ 1..0 = {} BY <1>b, FilteredKeeps DEF LiveType
      <3> QED BY <1>9, <1>a, <1>b, <2>4, <2>2, <3>1 DEF FreshListInv, ListStarts
  <2> QED BY <2>3, <2>5, <2>6, <2>7
<1>10. CASE ListPage
  <2> DEFINE all == filtered(live.entries)
             start == IF live.cursor < Len(all) THEN live.cursor ELSE Len(all)
             end == IF start + PageLimit < Len(all) THEN start + PageLimit ELSE Len(all)
  <2>1. all \in Seq(LiveEntry) /\ Len(all) \in Nat /\ Len(all) <= MaxRegistration
    BY <1>a, <1>b, <1>c, FilteredKeeps DEF LiveType, EntriesInv
  <2>2. start \in 0..Len(all) /\ end \in 0..Len(all) /\ start <= end
    <3>1. live.cursor \in Nat BY <1>a, <1>b DEF LiveType
    <3>2. start \in 0..Len(all) BY <2>1, <3>1
    <3> HIDE DEF start, all
    <3> QED BY <1>a, <2>1, <3>2
  <2>3. \A i \in 1..Len(all) : all[i].id \in 1..MaxRegistration
    <3> HIDE DEF all
    <3>1. \A i \in 1..Len(all) : all[i] \in LiveEntry BY <2>1
    <3> QED BY <3>1 DEF LiveEntry
  <2>4. matching = all BY DEF matching
  <2>5. live.cursor <= Len(all) => start = live.cursor BY <1>b, <2>1 DEF LiveType
  <2>6. live.listing = "paging" BY <1>10 DEF ListPage
  <2>7. live' = [live EXCEPT !.view = live.view \cup {all[i].id : i \in start + 1..end}, !.cursor = end,
                             !.listing = IF end < Len(all) THEN "paging" ELSE "done"]
    BY <1>10, <2>4, <1>b DEF ListPage, listed, LiveType
  <2> HIDE DEF all, start, end
  <2> DEFINE view1 == live.view \cup {all[i].id : i \in start + 1..end}
             listing1 == IF end < Len(all) THEN "paging" ELSE "done"
  <2>11. live' = [live EXCEPT !.view = view1, !.cursor = end, !.listing = listing1] BY <2>7
  <2>12. /\ view1 \in SUBSET (1..MaxRegistration) /\ end \in 0..MaxRegistration
        /\ listing1 \in {"none", "paging", "done"}
    BY <2>1, <2>2, <2>3, <2>5, <2>6, <2>7, <1>a, <1>b DEF LiveType, ListPage
  <2> HIDE DEF view1, listing1
  <2>13. live' \in LiveType BY <2>11, <2>12, <1>a, <1>b DEF LiveType
  <2>14. /\ live'.entries = live.entries /\ live'.bare = live.bare /\ live'.issued = live.issued
        /\ live'.made = live.made /\ live'.refused = live.refused /\ live'.gone = live.gone
        /\ live'.telling = live.telling /\ live'.watch = live.watch
        /\ live'.watcher = live.watcher /\ live'.slot = live.slot /\ live'.ticks = live.ticks
        /\ live'.listing = listing1 /\ live'.cursor = end /\ live'.view = view1
    BY <2>11, <2>12, <1>b DEF LiveType
  <2>15. EntriesInv(live') BY <1>b, <2>14 DEF EntriesInv, InForce
  <2>16. BareInv(live') BY <1>b, <2>14 DEF BareInv, InForce
  <2>17. FreshListInv(live')
      <3>1. ~TickIsDue(live') => ~TickIsDue(live)
        BY <2>1, <2>2, <2>3, <2>5, <2>6, <2>7, <1>a, <1>b, <2>14, <2>12 DEF TickIsDue
      <3>2. live.cursor <= Len(all) /\ live.view = {all[i].id : i \in 1..live.cursor} => view1 = {all[i].id : i \in 1..end}
          <4>1. start = live.cursor => \A i \in Int : i \in 1..end <=> i \in 1..start \/ i \in start + 1..end
            BY <2>1, <2>2, <2>3, <2>5, <2>6, <2>7, <1>a, <1>b, <2>14, <2>12
          <4> QED BY <2>1, <2>2, <2>3, <2>5, <2>6, <2>7, <1>a, <1>b, <2>14, <2>12, <4>1 DEF view1
      <3>3. (listing1 = "paging" <=> end < Len(all)) /\ (listing1 = "done" => end = Len(all)) /\ end <= Len(all)
        BY <2>1, <2>2, <2>3, <2>5, <2>6, <2>7, <1>a, <1>b, <2>14, <2>12 DEF listing1
      <3> QED BY <2>1, <2>2, <2>3, <2>5, <2>6, <2>7, <1>a, <1>b, <2>14, <2>12, <3>1, <3>2, <3>3 DEF FreshListInv, all
  <2> QED BY <2>13, <2>15, <2>16, <2>17
<1> QED BY <1>1, <1>2, <1>3, <1>4, <1>5, <1>6, <1>7, <1>8, <1>9, <1>10 DEF LiveNext

\* Of the prefixes that fit one method there is a longest one.
LEMMA LongestFits ==
    ASSUME NEW B, NEW m, Len(m) \in Nat, B # {}, \A b \in B : IsPrefix(b.prefix, m) /\ Len(b.prefix) \in Nat
    PROVE  \E b \in B : \A c \in B : Len(c.prefix) <= Len(b.prefix)
<1> DEFINE short == {Len(m) - Len(b.prefix) : b \in B}
<1>1. \A b \in B : Len(b.prefix) <= Len(m) BY DEF IsPrefix
<1>2. short \in SUBSET Nat /\ short # {} BY <1>1
<1>3. PICK n \in short : \A k \in short : n <= k
    <2> HIDE DEF short
    <2> QED BY <1>2, LeastOf
<1>4. PICK b \in B : n = Len(m) - Len(b.prefix) BY <1>3
<1>5. ASSUME NEW c \in B
      PROVE  Len(c.prefix) <= Len(b.prefix)
  <2>1. Len(m) - Len(c.prefix) \in short BY DEF short
  <2>2. Len(m) - Len(b.prefix) <= Len(m) - Len(c.prefix) BY <1>3, <1>4, <2>1
  <2> QED BY <2>2
<1> QED BY <1>5

\* Two prefixes of one sequence that have one length are one.
LEMMA OnePrefix ==
    ASSUME NEW p, NEW q, NEW m, p \in Seq(Range(p)), q \in Seq(Range(q)), m \in Seq(Range(m)),
           IsPrefix(p, m), IsPrefix(q, m), Len(p) = Len(q)
    PROVE  p = q
<1> DEFINE P == Range(p)
           Q == Range(q)
<1>1. p \in Seq(P) /\ q \in Seq(Q) /\ Len(p) \in Nat /\ Len(q) \in Nat OBVIOUS
<1> HIDE DEF P, Q
<1>2. SubSeq(p, 1, Len(p)) = p /\ SubSeq(q, 1, Len(q)) = q BY <1>1
<1> QED BY <1>2 DEF IsPrefix

\* What the invariant says of a directory: the registry does what it is for.
LEMMA LiveShows == LiveRegistryInv => RustRegistryIsRight
<1> SUFFICES ASSUME LiveRegistryInv PROVE RustRegistryIsRight
  OBVIOUS
<1>a. /\ PageLimit \in Nat \ {0} /\ MaxRegistration \in Nat
      /\ \A p \in RegPrefix \cup BareMember : p \in Seq(Range(p))
  BY RustRegistryAssumption
<1>b. live \in LiveType /\ EntriesInv(live) /\ BareInv(live) /\ FreshListInv(live)
  BY DEF LiveRegistryInv
<1>c. live.entries \in Seq(LiveEntry) /\ Len(live.entries) \in Nat /\ DOMAIN live.entries = 1..Len(live.entries)
  BY <1>b DEF LiveType
<1>1. LiveTypeOK BY <1>b DEF LiveTypeOK, LiveType, LiveEntry, LiveBinding
<1>2. \A id : id \in entryIds <=> \E i \in 1..Len(live.entries) : live.entries[i].id = id
  BY <1>c DEF entryIds, Range
<1>3. \A id : id \in entryIds <=> id \in 1..live.issued /\ InForce(live, id)
  BY <1>2, <1>b DEF EntriesInv, InForce
<1>4. entryIds = 1..live.issued \ (live.refused \cup live.gone) BY <1>3 DEF InForce
<1>5. \A i, j \in DOMAIN live.entries : live.entries[i].key = live.entries[j].key => i = j
  BY <1>b, <1>c DEF EntriesInv
<1>6. ASSUME NEW m \in BareMember
      PROVE  LET bound == {[id |-> id, prefix |-> p] : id \in entryIds, p \in RegPrefix}
                 own == {b \in bound : b.prefix \in live.made[b.id].prefixes /\ IsPrefix(b.prefix, m)}
             IN /\ own # {} <=> routedBare(m) # {}
                /\ \A id \in routedBare(m) : \E b \in own : b.id = id /\ \A c \in own : Len(c.prefix) <= Len(b.prefix)
                /\ Cardinality(routedBare(m)) <= 1
  <2> DEFINE bound == {[id |-> id, prefix |-> p] : id \in entryIds, p \in RegPrefix}
             own == {b \in bound : b.prefix \in live.made[b.id].prefixes /\ IsPrefix(b.prefix, m)}
             longest == {b \in fitting(m) : \A c \in fitting(m) : Len(c.prefix) <= Len(b.prefix)}
  <2>1. \A b \in live.bare : b = [id |-> b.id, prefix |-> b.prefix] /\ b.prefix \in RegPrefix
    BY <1>b DEF LiveType, LiveBinding
  <2>2. \A b \in live.bare : b.id \in entryIds /\ b.prefix \in live.made[b.id].prefixes
    BY <1>3, <1>b DEF BareInv, InForce
  <2>3. \A b \in bound : b.prefix \in live.made[b.id].prefixes => b \in live.bare
    BY <1>3, <1>b DEF BareInv
  <2>4. own = fitting(m)
    <3>1. \A b \in live.bare : b \in bound BY <2>1, <2>2
    <3> HIDE DEF bound
    <3> QED BY <2>2, <2>3, <3>1 DEF fitting
  <2>5. m \in Seq(Range(m)) /\ Len(m) \in Nat
    <3>1. m \in Seq(Range(m)) BY <1>a
    <3> QED BY <3>1
  <2>6. \A b \in fitting(m) : /\ IsPrefix(b.prefix, m) /\ b.prefix \in Seq(Range(b.prefix)) /\ Len(b.prefix) \in Nat
                              /\ b.id \in entryIds /\ b \in live.bare
    <3> SUFFICES ASSUME NEW b \in fitting(m)
                 PROVE  /\ IsPrefix(b.prefix, m) /\ b.prefix \in Seq(Range(b.prefix)) /\ Len(b.prefix) \in Nat
                        /\ b.id \in entryIds /\ b \in live.bare
      OBVIOUS
    <3>1. b \in live.bare /\ IsPrefix(b.prefix, m) BY DEF fitting
    <3>2. b.prefix \in Seq(Range(b.prefix)) BY <1>a, <2>1, <3>1
    <3> QED BY <2>2, <3>1, <3>2
  <2>7. routedBare(m) = {b.id : b \in longest} BY <2>6 DEF routedBare
  <2>8. fitting(m) # {} => longest # {}
    <3>1. fitting(m) # {} => \E b \in fitting(m) : \A c \in fitting(m) : Len(c.prefix) <= Len(b.prefix)
      BY <2>5, <2>6, LongestFits
    <3> QED BY <3>1
  <2>9. \A b, c \in longest : b.id = c.id
    <3> SUFFICES ASSUME NEW b \in longest, NEW c \in longest PROVE b.id = c.id
      OBVIOUS
    <3>1. Len(b.prefix) = Len(c.prefix) /\ b \in fitting(m) /\ c \in fitting(m) BY <2>6
    <3>2. b.prefix = c.prefix BY <2>5, <2>6, <3>1, OnePrefix
    <3> QED BY <2>6, <3>1, <3>2, <1>b DEF BareInv
  <2>10. Cardinality(routedBare(m)) <= 1
    <3>1. CASE longest = {}
      <4>1. routedBare(m) = {} BY <2>7, <3>1
      <4> QED BY <4>1, FS_EmptySet
    <3>2. CASE longest # {}
      <4>1. PICK b \in longest : TRUE BY <3>2
      <4>2. routedBare(m) = {b.id} BY <2>7, <2>9, <4>1
      <4>3. Cardinality({b.id}) = 1 BY FS_Singleton
      <4> QED BY <4>2, <4>3
    <3> QED BY <3>1, <3>2
  <2>11. own # {} <=> routedBare(m) # {} BY <2>4, <2>7, <2>8
  <2>12. \A id \in routedBare(m) : \E b \in own : b.id = id /\ \A c \in own : Len(c.prefix) <= Len(b.prefix)
    BY <2>4, <2>7
  <2> QED BY <2>10, <2>11, <2>12
<1>7. RegistrationsAreOwned BY <1>4, <1>5, <1>6 DEF RegistrationsAreOwned
<1>8. RegistryWatchIsFresh
  <2> DEFINE all == filtered(live.entries)
  <2>1. all \in Seq(LiveEntry) BY <1>c, FilteredKeeps
  <2>2. {e.id : e \in Range(all)} = {all[i].id : i \in 1..Len(all)}
    <3> HIDE DEF all
    <3>1. DOMAIN all = 1..Len(all) BY <2>1
    <3> QED BY <3>1 DEF Range
  <2> QED BY <1>b, <2>2 DEF RegistryWatchIsFresh, FreshListInv, TickIsDue, matching
<1> QED BY <1>1, <1>7, <1>8 DEF RustRegistryIsRight

-----------------------------------------------------------------------------
(* The sessions of the MCP server (McpSessions).                           *)

SessionsType ==
    [entry : [SessionKey -> 0..MaxSession], made : 0..MaxSession, of : Seq(SessionKey),
     state : [Session -> {"none", "opening", "open", "failed", "closed"}], closing : SUBSET Session,
     active : [Session -> Nat], idle : SUBSET Session, lifetime : SUBSET Session,
     chain : Seq(SessionUser), evicting : 0..MaxSession,
     pc : [SessionUser -> {"idle", "chain", "created", "got", "using"}], key : [SessionUser -> SessionKey],
     its : [SessionUser -> 0..MaxSession], asks : [SessionUser -> {"use", "get"}],
     stray : SUBSET Session, disposed : BOOLEAN]

\* The map: an entry is a session that was created for its key.
MapInv(s) ==
    /\ Len(s.of) = s.made
    /\ \A k \in SessionKey : s.entry[k] # 0 => s.entry[k] \in 1..s.made /\ s.of[s.entry[k]] = k
    /\ s.stray \subseteq 1..s.made
    /\ \A e \in 1..s.made : s.state[e] \in {"opening", "open"} => e \in inMap(s) \/ e \in s.closing
    /\ s.disposed => \A k \in SessionKey : s.entry[k] = 0

\* The capacity, which an eviction makes room in for the head of the chain.
CapacityInv(s) ==
    /\ Cardinality(inMap(s)) <= MaxSessions
    /\ s.evicting # 0 => /\ Cardinality(inMap(s)) < MaxSessions
                         /\ s.chain # << >> /\ s.entry[s.key[s.chain[1]]] = 0

ChainInv(s) ==
    /\ \A i \in 1..Len(s.chain) : s.pc[s.chain[i]] = "chain"
    /\ \A i, j \in 1..Len(s.chain) : s.chain[i] = s.chain[j] => i = j

\* The users of a session, whom active counts.
usersOf(s, e) == {u \in SessionUser : s.pc[u] = "using" /\ s.its[u] = e}

UsersInv(s) ==
    /\ \A u \in SessionUser : s.pc[u] \in {"created", "got", "using"} => s.its[u] \in 1..s.made
    /\ \A e \in Session : IsFiniteSet(usersOf(s, e)) /\ s.active[e] = Cardinality(usersOf(s, e))

\* A user that is about to begin an operation on a session.
GoesToUse(s, u, e) == s.pc[u] = "got" /\ s.asks[u] = "use" /\ s.its[u] = e

\* A timer is that of a session in the map, of one that a user is about to use, or of one
\* that get() touched when it was gone.
TimerInv(s) ==
    /\ s.lifetime \subseteq inMap(s)
    /\ \A e \in s.idle : e \in inMap(s) \/ e \in s.stray \/ \E u \in SessionUser : GoesToUse(s, u, e)
    /\ \A e \in s.idle : s.active[e] = 0

\* What a step does to a session with an idle timer.
IdleKept(s, t, d) ==
    \/ t.active[d] = 0 /\ (d \in inMap(t) \/ d \in t.stray \/ \E u \in SessionUser : GoesToUse(t, u, d))
    \/ /\ d \in s.idle /\ t.active[d] = s.active[d] /\ (d \in inMap(s) => d \in inMap(t)) /\ (d \in s.stray => d \in t.stray)
       /\ \A v \in SessionUser : GoesToUse(s, v, d) => GoesToUse(t, v, d)

SessionsInv ==
    /\ sessions \in SessionsType /\ MapInv(sessions) /\ CapacityInv(sessions)
    /\ ChainInv(sessions) /\ UsersInv(sessions) /\ TimerInv(sessions)

\* The map is finite.
LEMMA MapIsFinite ==
    ASSUME NEW s \in SessionsType
    PROVE  IsFiniteSet(inMap(s)) /\ Cardinality(inMap(s)) \in Nat
<1>1. s.made \in Nat BY SessionsAssumption DEF SessionsType
<1>2. IsFiniteSet(1..s.made) BY <1>1, FS_Interval
<1>3. inMap(s) \subseteq 1..s.made BY DEF inMap
<1> QED BY <1>2, <1>3, FS_Subset, FS_CardinalityType

\* What closing an entry does to the map.
LEMMA EntryCloses ==
    ASSUME NEW s \in SessionsType, MapInv(s), NEW k \in SessionKey, s.entry[k] # 0, NEW t,
           t.entry = [s.entry EXCEPT ![k] = 0], t.made = s.made, t.of = s.of
    PROVE  /\ inMap(t) = inMap(s) \ {s.entry[k]} /\ s.entry[k] \in inMap(s)
           /\ Cardinality(inMap(t)) < Cardinality(inMap(s)) /\ Cardinality(inMap(t)) \in Nat
<1>1. s.entry[k] \in 1..s.made /\ s.of[s.entry[k]] = k /\ s.entry \in [SessionKey -> 0..MaxSession]
      /\ s.of \in Seq(SessionKey) /\ Len(s.of) = s.made
  BY DEF MapInv, SessionsType
<1>2. \A e \in 1..s.made : s.of[e] \in SessionKey BY <1>1
<1>3. s.entry[k] \in inMap(s) BY <1>1 DEF inMap
<1>4. \A e \in 1..s.made : t.entry[t.of[e]] = IF s.of[e] = k THEN 0 ELSE s.entry[s.of[e]]
  BY <1>1, <1>2
<1>5. \A e \in 1..s.made : e \in inMap(t) <=> e \in inMap(s) /\ e # s.entry[k]
  BY <1>1, <1>4 DEF inMap
<1>6. inMap(t) = inMap(s) \ {s.entry[k]} BY <1>5 DEF inMap
<1>7. IsFiniteSet(inMap(s)) /\ Cardinality(inMap(s)) \in Nat BY MapIsFinite
<1>8. /\ IsFiniteSet(inMap(s) \ {s.entry[k]})
      /\ Cardinality(inMap(s) \ {s.entry[k]}) = Cardinality(inMap(s)) - 1
  BY <1>3, <1>7, FS_RemoveElement
<1>9. Cardinality(inMap(s) \ {s.entry[k]}) \in Nat BY <1>8, FS_CardinalityType
<1> QED BY <1>3, <1>6, <1>7, <1>8, <1>9

\* What a creation does to it.
LEMMA SessionAdded ==
    ASSUME NEW s \in SessionsType, MapInv(s), NEW k \in SessionKey, s.entry[k] = 0, NEW t,
           t.entry = [s.entry EXCEPT ![k] = s.made + 1], t.made = s.made + 1, t.of = Append(s.of, k)
    PROVE  /\ inMap(t) = inMap(s) \cup {s.made + 1}
           /\ Cardinality(inMap(t)) <= Cardinality(inMap(s)) + 1 /\ Cardinality(inMap(t)) \in Nat
<1>1. /\ s.entry \in [SessionKey -> 0..MaxSession] /\ s.made \in Nat
      /\ s.of \in Seq(SessionKey) /\ Len(s.of) = s.made
  BY SessionsAssumption DEF MapInv, SessionsType
<1>2. \A e \in 1..s.made : s.of[e] \in SessionKey /\ t.of[e] = s.of[e] /\ e # s.made + 1 BY <1>1
<1>3. t.of[s.made + 1] = k BY <1>1
<1>4. \A e \in 1..s.made : t.entry[t.of[e]] = IF s.of[e] = k THEN s.made + 1 ELSE s.entry[s.of[e]]
  BY <1>1, <1>2
<1>5. \A e \in 1..s.made : e \in inMap(t) <=> e \in inMap(s) BY <1>1, <1>2, <1>4 DEF inMap
<1>6. s.made + 1 \in inMap(t) BY <1>1, <1>3 DEF inMap
<1>7. inMap(t) = inMap(s) \cup {s.made + 1} BY <1>1, <1>5, <1>6 DEF inMap
<1>8. IsFiniteSet(inMap(s)) /\ Cardinality(inMap(s)) \in Nat /\ s.made + 1 \notin inMap(s)
  BY <1>1, MapIsFinite, SMTT(30) DEF inMap
<1>9. Cardinality(inMap(s) \cup {s.made + 1}) = Cardinality(inMap(s)) + 1 BY <1>8, FS_AddElement
<1> QED BY <1>7, <1>8, <1>9

\* The users of the sessions, when one of them begins or ends.
LEMMA UserCounted ==
    ASSUME NEW s \in SessionsType, UsersInv(s), NEW u \in SessionUser, NEW e \in Session, NEW t,
           \A v \in SessionUser : v # u => t.pc[v] = s.pc[v] /\ t.its[v] = s.its[v],
           s.pc[u] # "using", t.pc[u] = "using", t.its[u] = e, t.active[e] = s.active[e] + 1,
           \A d \in Session : d # e => t.active[d] = s.active[d]
    PROVE  \A d \in Session : IsFiniteSet(usersOf(t, d)) /\ t.active[d] = Cardinality(usersOf(t, d))
<1>1. s.active \in [Session -> Nat] BY DEF SessionsType
<1>2. \A d \in Session : IsFiniteSet(usersOf(s, d)) /\ s.active[d] = Cardinality(usersOf(s, d))
  BY DEF UsersInv
<1>3. \A d \in Session : d # e => usersOf(t, d) = usersOf(s, d) BY DEF usersOf
<1>4. usersOf(t, e) = usersOf(s, e) \cup {u} /\ u \notin usersOf(s, e) BY DEF usersOf
<1>5. IsFiniteSet(usersOf(t, e)) /\ Cardinality(usersOf(t, e)) = Cardinality(usersOf(s, e)) + 1
  BY <1>2, <1>4, FS_AddElement
<1> QED BY <1>1, <1>2, <1>3, <1>5

LEMMA UserUncounted ==
    ASSUME NEW s \in SessionsType, UsersInv(s), NEW u \in SessionUser, NEW e \in Session, NEW t,
           \A v \in SessionUser : v # u => t.pc[v] = s.pc[v] /\ t.its[v] = s.its[v],
           s.pc[u] = "using", s.its[u] = e, t.pc[u] = "idle", t.active[e] = s.active[e] - 1,
           \A d \in Session : d # e => t.active[d] = s.active[d]
    PROVE  /\ \A d \in Session : IsFiniteSet(usersOf(t, d)) /\ t.active[d] = Cardinality(usersOf(t, d))
           /\ s.active[e] > 0
<1>1. s.active \in [Session -> Nat] BY DEF SessionsType
<1>2. \A d \in Session : IsFiniteSet(usersOf(s, d)) /\ s.active[d] = Cardinality(usersOf(s, d))
  BY DEF UsersInv
<1>3. \A d \in Session : d # e => usersOf(t, d) = usersOf(s, d) BY DEF usersOf
<1>4. usersOf(t, e) = usersOf(s, e) \ {u} /\ u \in usersOf(s, e) BY DEF usersOf
<1>5. IsFiniteSet(usersOf(t, e)) /\ Cardinality(usersOf(t, e)) = Cardinality(usersOf(s, e)) - 1
  BY <1>2, <1>4, FS_RemoveElement
<1>6. Cardinality(usersOf(t, e)) \in Nat BY <1>5, FS_CardinalityType
<1>7. s.active[e] > 0 BY <1>1, <1>2, <1>5, <1>6
<1> QED BY <1>1, <1>2, <1>3, <1>5, <1>7

\* ... and when a user does neither.
LEMMA UsersStay ==
    ASSUME NEW s, UsersInv(s), NEW u \in SessionUser, NEW t,
           \A v \in SessionUser : v # u => t.pc[v] = s.pc[v] /\ t.its[v] = s.its[v],
           s.pc[u] # "using", t.pc[u] # "using", t.active = s.active
    PROVE  \A d \in Session : IsFiniteSet(usersOf(t, d)) /\ t.active[d] = Cardinality(usersOf(t, d))
<1>1. \A d \in Session : usersOf(t, d) = usersOf(s, d) BY DEF usersOf
<1> QED BY <1>1 DEF UsersInv

\* The chain, as long as the users in it are left alone, and when its head leaves it.
LEMMA ChainKept ==
    ASSUME NEW s, NEW t, ChainInv(s), t.chain = s.chain,
           \A i \in 1..Len(s.chain) : t.pc[s.chain[i]] = s.pc[s.chain[i]]
    PROVE  ChainInv(t)
    BY DEF ChainInv

LEMMA ChainLeft ==
    ASSUME NEW s \in SessionsType, NEW t, ChainInv(s), s.chain # << >>, t.chain = Tail(s.chain),
           \A v \in SessionUser : v # s.chain[1] => t.pc[v] = s.pc[v]
    PROVE  ChainInv(t)
<1>1. s.chain \in Seq(SessionUser) /\ Len(s.chain) \in Nat /\ Len(s.chain) > 0 BY DEF SessionsType
<1>2. Len(t.chain) = Len(s.chain) - 1 /\ \A i \in 1..Len(t.chain) : t.chain[i] = s.chain[i + 1]
  BY <1>1
<1>3. \A i \in 1..Len(t.chain) : i + 1 \in 1..Len(s.chain) /\ 1 \in 1..Len(s.chain) /\ i + 1 # 1
  BY <1>1, <1>2
<1>4. \A i \in 1..Len(t.chain) : t.chain[i] # s.chain[1] /\ t.chain[i] \in SessionUser /\ s.pc[t.chain[i]] = "chain"
  BY <1>1, <1>2, <1>3 DEF ChainInv
<1>5. \A i, j \in 1..Len(t.chain) : t.chain[i] = t.chain[j] => i = j
  <2> TAKE i, j \in 1..Len(t.chain)
  <2>1. i + 1 = j + 1 => i = j BY <1>1, <1>2
  <2> QED BY <1>2, <1>3, <2>1 DEF ChainInv
<1> QED BY <1>4, <1>5 DEF ChainInv

LEMMA ChainJoined ==
    ASSUME NEW s \in SessionsType, NEW t, ChainInv(s), NEW u \in SessionUser, s.pc[u] = "idle", t.chain = Append(s.chain, u),
           t.pc[u] = "chain", \A v \in SessionUser : v # u => t.pc[v] = s.pc[v]
    PROVE  ChainInv(t)
<1>1. s.chain \in Seq(SessionUser) /\ Len(s.chain) \in Nat BY DEF SessionsType
<1>2. /\ Len(t.chain) = Len(s.chain) + 1 /\ t.chain[Len(s.chain) + 1] = u
      /\ \A i \in 1..Len(s.chain) : t.chain[i] = s.chain[i] /\ s.chain[i] \in SessionUser
  BY <1>1
<1>3. \A i \in 1..Len(t.chain) : i \in 1..Len(s.chain) \/ i = Len(s.chain) + 1 BY <1>1, <1>2
<1>4. \A i \in 1..Len(s.chain) : s.pc[s.chain[i]] = "chain" /\ s.chain[i] # u BY DEF ChainInv
<1>5. \A i \in 1..Len(t.chain) : t.pc[t.chain[i]] = "chain" BY <1>2, <1>3, <1>4
<1>6. \A i, j \in 1..Len(t.chain) : t.chain[i] = t.chain[j] => i = j
  BY <1>2, <1>3, <1>4 DEF ChainInv
<1> QED BY <1>5, <1>6 DEF ChainInv

\* The capacity, as long as the map does not grow and the head of the chain is left alone.
LEMMA CapacityKept ==
    ASSUME NEW s, NEW t, CapacityInv(s), Cardinality(inMap(s)) \in Nat, Cardinality(inMap(t)) \in Nat,
           Cardinality(inMap(t)) <= Cardinality(inMap(s)), t.evicting = s.evicting,
           s.chain # << >> => /\ t.chain # << >> /\ t.chain[1] = s.chain[1] /\ t.key[s.chain[1]] = s.key[s.chain[1]]
                              /\ s.entry[s.key[s.chain[1]]] = 0 => t.entry[s.key[s.chain[1]]] = 0
    PROVE  CapacityInv(t)
<1>1. MaxSessions \in Nat BY SessionsAssumption
<1> QED BY <1>1 DEF CapacityInv

\* The timers: those that were armed before, and those that are armed now.
LEMMA TimersKept ==
    ASSUME NEW s, NEW t, TimerInv(s), t.lifetime \subseteq inMap(t),
           \A d \in t.idle : IdleKept(s, t, d)
    PROVE  TimerInv(t)
<1>1. \A d \in t.idle : t.active[d] = 0 BY DEF TimerInv, IdleKept
<1>2. \A d \in t.idle : d \in inMap(t) \/ d \in t.stray \/ \E u \in SessionUser : GoesToUse(t, u, d)
  BY DEF TimerInv, IdleKept
<1> QED BY <1>1, <1>2 DEF TimerInv

\* A step that says nothing of the eviction leaves it.
LEMMA EvictionKept ==
    ASSUME NEW s \in SessionsType, NEW a, NEW b, NEW c, NEW d, NEW i
    PROVE  /\ [s EXCEPT !.entry = a, !.idle = b, !.lifetime = c, !.closing = d] =
                  [s EXCEPT !.entry = a, !.idle = b, !.lifetime = c, !.closing = d, !.evicting = s.evicting]
           /\ [[s EXCEPT !.idle = i] EXCEPT !.entry = a, !.idle = b, !.lifetime = c, !.closing = d] =
                  [s EXCEPT !.entry = a, !.idle = b, !.lifetime = c, !.closing = d, !.evicting = s.evicting]
    BY DEF SessionsType

LEMMA SessionsInitial == SessionsInit => SessionsInv
<1> SUFFICES ASSUME SessionsInit PROVE SessionsInv
  OBVIOUS
<1>a. MaxSession \in Nat /\ MaxSessions \in Nat /\ (CHOOSE k \in SessionKey : TRUE) \in SessionKey
  BY SessionsAssumption
<1>1. sessions \in SessionsType BY <1>a DEF SessionsInit, SessionsType, Session
<1>2. /\ sessions.entry = [k \in SessionKey |-> 0] /\ sessions.made = 0 /\ sessions.of = << >> /\ sessions.chain = << >>
      /\ sessions.evicting = 0 /\ sessions.pc = [u \in SessionUser |-> "idle"] /\ sessions.idle = {}
      /\ sessions.lifetime = {} /\ sessions.active = [e \in Session |-> 0] /\ sessions.stray = {}
  BY DEF SessionsInit
<1>3. inMap(sessions) = {} /\ Cardinality({}) = 0 /\ IsFiniteSet({}) /\ \A e : usersOf(sessions, e) = {}
  BY <1>2, FS_EmptySet DEF inMap, usersOf
<1>4. MapInv(sessions) /\ CapacityInv(sessions) BY <1>a, <1>2, <1>3 DEF MapInv, CapacityInv
<1>5. ChainInv(sessions) /\ UsersInv(sessions) /\ TimerInv(sessions)
  <2>1. Len(sessions.chain) = 0 /\ \A u \in SessionUser : sessions.pc[u] = "idle" BY <1>2
  <2>2. \A e \in Session : sessions.active[e] = 0 BY <1>2
  <2>3. ChainInv(sessions) BY <2>1 DEF ChainInv
  <2>4. UsersInv(sessions)
    <3>1. \A e \in Session : usersOf(sessions, e) = {} /\ sessions.active[e] = 0 BY <1>3, <2>2
    <3> QED BY <1>3, <2>1, <3>1 DEF UsersInv
  <2>5. TimerInv(sessions) BY <1>2 DEF TimerInv
  <2> QED BY <2>3, <2>4, <2>5
<1> QED BY <1>1, <1>4, <1>5 DEF SessionsInv

LEMMA SessionsStep ==
    ASSUME SessionsInv, [SessionsNext]_sessions
    PROVE  SessionsInv'
<1>a. MaxSession \in Nat /\ MaxSessions \in Nat BY SessionsAssumption
<1>i. Session = 1..MaxSession BY DEF Session
<1>b. /\ sessions \in SessionsType /\ MapInv(sessions) /\ CapacityInv(sessions)
      /\ ChainInv(sessions) /\ UsersInv(sessions) /\ TimerInv(sessions)
  BY DEF SessionsInv
<1>c. sessions.made \in Nat /\ Len(sessions.of) = sessions.made /\ sessions.of \in Seq(SessionKey)
  BY <1>a, <1>b DEF SessionsType, MapInv
<1>e. \A e \in 1..sessions.made : e \in Session /\ sessions.of[e] \in SessionKey
  BY <1>a, <1>b, <1>c, <1>i DEF SessionsType
<1>f. IsFiniteSet(inMap(sessions)) /\ Cardinality(inMap(sessions)) \in Nat BY <1>b, MapIsFinite
<1>g. /\ Len(sessions.chain) \in Nat /\ \A i \in 1..Len(sessions.chain) : sessions.chain[i] \in SessionUser
      /\ sessions.chain # << >> => /\ Head(sessions.chain) = sessions.chain[1] /\ sessions.chain[1] \in SessionUser /\ 1 \in 1..Len(sessions.chain)
                                  /\ sessions.key[sessions.chain[1]] \in SessionKey
  BY <1>b DEF SessionsType
<1>h. sessions.lifetime \subseteq inMap(sessions) BY <1>b DEF TimerInv
<1>d. /\ \A k \in SessionKey : sessions.entry[k] \in 0..MaxSession
      /\ \A k \in SessionKey : sessions.entry[k] # 0 => /\ sessions.entry[k] \in 1..sessions.made
                                                       /\ sessions.of[sessions.entry[k]] = k /\ sessions.entry[k] \in inMap(sessions)
      /\ \A e \in inMap(sessions) : e \in 1..sessions.made /\ e \in Session /\ sessions.entry[sessions.of[e]] = e
                                   /\ sessions.of[e] \in SessionKey
  BY <1>b, <1>e DEF SessionsType, MapInv, inMap
<1>s. SUFFICES sessions' \in SessionsType /\ MapInv(sessions') /\ CapacityInv(sessions') /\ ChainInv(sessions') /\ UsersInv(sessions') /\ TimerInv(sessions')
  BY DEF SessionsInv
<1>1. CASE UNCHANGED sessions BY <1>1, <1>b
<1>2. ASSUME NEW u \in SessionUser, NEW k \in SessionKey, NEW method \in {"use", "get"}, EntryAsked(u, k, method)
      PROVE  sessions' \in SessionsType /\ MapInv(sessions') /\ CapacityInv(sessions') /\ ChainInv(sessions') /\ UsersInv(sessions') /\ TimerInv(sessions')
  <2>0. sessions.pc[u] = "idle" /\ sessions.disposed = FALSE
    BY <1>2, <1>b DEF EntryAsked, SessionsType
  <2>00. \A i \in 1..Len(sessions.chain) : sessions.chain[i] # u BY <2>0, <1>b DEF ChainInv
  <2>1. CASE sessions.entry[k] # 0
    <3>0. sessions.entry[k] \in inMap(sessions) /\ sessions.entry[k] \in Session /\ sessions.entry[k] \in 1..sessions.made
      BY <2>1, <1>d, <1>e
    <3>00. ~(sessions.active[sessions.entry[k]] > 0) => sessions.active[sessions.entry[k]] = 0
      BY <3>0, <1>b DEF SessionsType
    <3> DEFINE key1 == [sessions.key EXCEPT ![u] = k]
               asks1 == [sessions.asks EXCEPT ![u] = method]
               its1 == [sessions.its EXCEPT ![u] = sessions.entry[k]]
               pc1 == [sessions.pc EXCEPT ![u] = "got"]
               idle1 == IF sessions.active[sessions.entry[k]] > 0 THEN sessions.idle ELSE sessions.idle \cup {sessions.entry[k]}
    <3>1. sessions' = [sessions EXCEPT !.key = key1, !.its = its1, !.asks = asks1, !.pc = pc1, !.idle = idle1]
      BY <1>2, <2>1, <1>b DEF EntryAsked, touched, SessionsType
    <3>2. /\ key1 \in [SessionUser -> SessionKey] /\ its1 \in [SessionUser -> 0..MaxSession]
          /\ asks1 \in [SessionUser -> {"use", "get"}]
          /\ pc1 \in [SessionUser -> {"idle", "chain", "created", "got", "using"}]
          /\ idle1 \in SUBSET Session
      BY <2>0, <2>00, <2>1, <3>0, <1>a, <1>b DEF SessionsType, EntryAsked
    <3> HIDE DEF key1, asks1, its1, pc1, idle1
    <3>3. sessions' \in SessionsType BY <3>1, <3>2, <1>a, <1>b DEF SessionsType
    <3>4. /\ sessions'.entry = sessions.entry /\ sessions'.made = sessions.made
          /\ sessions'.of = sessions.of /\ sessions'.state = sessions.state
          /\ sessions'.closing = sessions.closing /\ sessions'.active = sessions.active
          /\ sessions'.idle = idle1 /\ sessions'.lifetime = sessions.lifetime
          /\ sessions'.chain = sessions.chain /\ sessions'.evicting = sessions.evicting
          /\ sessions'.pc = pc1 /\ sessions'.key = key1 /\ sessions'.its = its1
          /\ sessions'.disposed = sessions.disposed
          /\ sessions'.asks = asks1 /\ sessions'.stray = sessions.stray
      BY <3>1, <3>2, <1>b DEF SessionsType
    <3>5. inMap(sessions') = inMap(sessions) BY <3>4 DEF inMap
    <3>6. pc1[u] = "got" /\ \A v \in SessionUser : v # u => pc1[v] = sessions.pc[v]
      BY <1>b, <2>0 DEF pc1, SessionsType
    <3>7. its1[u] = sessions.entry[k] /\ \A v \in SessionUser : v # u => its1[v] = sessions.its[v]
      BY <1>b, <2>0 DEF its1, SessionsType
    <3>8. \A v \in SessionUser : v # u => key1[v] = sessions.key[v] /\ asks1[v] = sessions.asks[v]
      BY <1>b DEF key1, asks1, SessionsType
    <3>9. MapInv(sessions') BY <1>b, <3>4, <3>5 DEF MapInv
    <3>10. CapacityInv(sessions') BY <1>b, <1>f, <1>g, <2>00, <3>4, <3>5, <3>8, CapacityKept
    <3>11. ChainInv(sessions') BY <1>b, <1>g, <2>00, <3>4, <3>6, ChainKept
    <3>12. UsersInv(sessions')
        <4>1. \A d \in Session : IsFiniteSet(usersOf(sessions', d)) /\ sessions'.active[d] = Cardinality(usersOf(sessions', d))
          BY <1>b, <2>0, <3>4, <3>6, <3>7, UsersStay
        <4> QED BY <1>b, <2>0, <3>4, <3>6, <3>7, <3>0, <4>1 DEF UsersInv
    <3>13. TimerInv(sessions')
        <4>1. \A d \in idle1 : d \in sessions.idle \/ (d = sessions.entry[k] /\ sessions.active[d] = 0)
          BY <3>00 DEF idle1
        <4>2. sessions'.lifetime \subseteq inMap(sessions') BY <1>h, <3>4, <3>5
        <4>3. \A d \in sessions'.idle : IdleKept(sessions, sessions', d)
          BY <2>0, <3>4, <3>5, <3>6, <3>7, <3>8, <3>0, <4>1 DEF IdleKept, GoesToUse
        <4> QED BY <1>b, <3>4, <4>2, <4>3, TimersKept
    <3> QED BY <3>3, <3>9, <3>10, <3>11, <3>12, <3>13
  <2>2. CASE sessions.entry[k] = 0
    <3> DEFINE key1 == [sessions.key EXCEPT ![u] = k]
               asks1 == [sessions.asks EXCEPT ![u] = method]
               its1 == [sessions.its EXCEPT ![u] = 0]
               pc1 == [sessions.pc EXCEPT ![u] = "chain"]
               chain1 == Append(sessions.chain, u)
    <3>1. sessions' = [sessions EXCEPT !.key = key1, !.its = its1, !.asks = asks1, !.pc = pc1, !.chain = chain1]
      BY <1>2, <2>2, <1>b DEF EntryAsked, SessionsType
    <3>2. /\ key1 \in [SessionUser -> SessionKey] /\ its1 \in [SessionUser -> 0..MaxSession]
          /\ asks1 \in [SessionUser -> {"use", "get"}]
          /\ pc1 \in [SessionUser -> {"idle", "chain", "created", "got", "using"}]
          /\ chain1 \in Seq(SessionUser)
      BY <2>0, <2>00, <2>2, <1>a, <1>b DEF SessionsType, EntryAsked
    <3> HIDE DEF key1, asks1, its1, pc1, chain1
    <3>3. sessions' \in SessionsType BY <3>1, <3>2, <1>a, <1>b DEF SessionsType
    <3>4. /\ sessions'.entry = sessions.entry /\ sessions'.made = sessions.made
          /\ sessions'.of = sessions.of /\ sessions'.state = sessions.state
          /\ sessions'.closing = sessions.closing /\ sessions'.active = sessions.active
          /\ sessions'.idle = sessions.idle /\ sessions'.lifetime = sessions.lifetime
          /\ sessions'.chain = chain1 /\ sessions'.evicting = sessions.evicting
          /\ sessions'.pc = pc1 /\ sessions'.key = key1 /\ sessions'.its = its1
          /\ sessions'.disposed = sessions.disposed
          /\ sessions'.asks = asks1 /\ sessions'.stray = sessions.stray
      BY <3>1, <3>2, <1>b DEF SessionsType
    <3>5. inMap(sessions') = inMap(sessions) BY <3>4 DEF inMap
    <3>6. pc1[u] = "chain" /\ \A v \in SessionUser : v # u => pc1[v] = sessions.pc[v]
      BY <1>b, <2>0 DEF pc1, SessionsType
    <3>7. its1[u] = 0 /\ \A v \in SessionUser : v # u => its1[v] = sessions.its[v]
      BY <1>b, <2>0 DEF its1, SessionsType
    <3>8. \A v \in SessionUser : v # u => key1[v] = sessions.key[v] /\ asks1[v] = sessions.asks[v]
      BY <1>b DEF key1, asks1, SessionsType
    <3>9. Len(chain1) = Len(sessions.chain) + 1 /\ \A i \in 1..Len(sessions.chain) : chain1[i] = sessions.chain[i]
      BY <1>b, <1>g DEF chain1, SessionsType
    <3>10. chain1 # << >> /\ (sessions.chain # << >> => chain1[1] = sessions.chain[1]) BY <1>g, <3>9
    <3>11. MapInv(sessions') BY <1>b, <3>4, <3>5 DEF MapInv
    <3>12. CapacityInv(sessions') BY <1>b, <1>f, <1>g, <2>00, <3>4, <3>5, <3>8, <3>10, CapacityKept
    <3>13. ChainInv(sessions') BY <1>b, <2>0, <3>4, <3>6, ChainJoined DEF chain1
    <3>14. UsersInv(sessions')
        <4>1. \A d \in Session : IsFiniteSet(usersOf(sessions', d)) /\ sessions'.active[d] = Cardinality(usersOf(sessions', d))
          BY <1>b, <2>0, <3>4, <3>6, <3>7, UsersStay
        <4> QED BY <1>b, <2>0, <3>4, <3>6, <3>7, <4>1 DEF UsersInv
    <3>15. TimerInv(sessions')
        <4>1. \A d \in sessions'.idle : d \in sessions.idle BY <3>4
        <4>2. sessions'.lifetime \subseteq inMap(sessions') BY <1>h, <3>4, <3>5
        <4>3. \A d \in sessions'.idle : IdleKept(sessions, sessions', d)
          BY <2>0, <3>4, <3>5, <3>6, <3>7, <3>8, <4>1 DEF IdleKept, GoesToUse
        <4> QED BY <1>b, <3>4, <4>2, <4>3, TimersKept
    <3> QED BY <3>3, <3>11, <3>12, <3>13, <3>14, <3>15
  <2> QED BY <2>1, <2>2
<1>3. ASSUME NEW u \in SessionUser, sessions.chain # << >>, u = Head(sessions.chain), sessions.made < MaxSession,
             sessions.entry[sessions.key[u]] = 0, Cardinality(inMap(sessions)) < MaxSessions,
             sessions' = createFor(sessions, u)
      PROVE  sessions' \in SessionsType /\ MapInv(sessions') /\ CapacityInv(sessions') /\ ChainInv(sessions') /\ UsersInv(sessions') /\ TimerInv(sessions')
  <2>0. /\ Len(sessions.chain) \in Nat /\ Len(sessions.chain) > 0 /\ u = sessions.chain[1] /\ sessions.pc[u] = "chain" /\ 1 \in 1..Len(sessions.chain)
        /\ sessions.key[u] \in SessionKey
    BY <1>3, <1>b DEF SessionsType, ChainInv
  <2>00. sessions.disposed \in BOOLEAN BY <1>b DEF SessionsType
  <2>1. CASE sessions.disposed = FALSE
    <3> DEFINE e == sessions.made + 1
               k == sessions.key[u]
    <3>0. e \in 1..MaxSession /\ e # 0 /\ e \in Session /\ k \in SessionKey /\ e = sessions.made + 1 /\ sessions.entry[k] = 0
      BY <1>3, <1>a, <1>c, <1>i, <2>0
    <3>00. sessions' = leavesChain(sessionCreated(sessions, k), u, e)
      BY <1>3, <2>1, <1>b DEF createFor, sessionCreated, SessionsType
    <3>000. sessions.idle \subseteq 1..sessions.made BY <1>d, <1>b DEF TimerInv, UsersInv, MapInv, GoesToUse
    <3> HIDE DEF e, k
    <3> DEFINE of1 == Append(sessions.of, k)
               entry1 == [sessions.entry EXCEPT ![k] = e]
               state1 == [sessions.state EXCEPT ![e] = "opening"]
               idle1 == sessions.idle \cup {e}
               lifetime1 == sessions.lifetime \cup {e}
               chain1 == Tail(sessions.chain)
               pc1 == [sessions.pc EXCEPT ![u] = "created"]
               its1 == [sessions.its EXCEPT ![u] = e]
    <3>1. sessions' = [sessions EXCEPT !.made = e, !.of = of1, !.entry = entry1, !.state = state1, !.idle = idle1,
               !.lifetime = lifetime1, !.chain = chain1, !.pc = pc1, !.its = its1, !.evicting = 0]
      BY <3>00, <3>0, <1>b DEF leavesChain, sessionCreated, SessionsType, e
    <3>2. /\ e \in 0..MaxSession /\ of1 \in Seq(SessionKey)
          /\ entry1 \in [SessionKey -> 0..MaxSession]
          /\ state1 \in [Session -> {"none", "opening", "open", "failed", "closed"}]
          /\ idle1 \in SUBSET Session /\ lifetime1 \in SUBSET Session
          /\ chain1 \in Seq(SessionUser)
          /\ pc1 \in [SessionUser -> {"idle", "chain", "created", "got", "using"}]
          /\ its1 \in [SessionUser -> 0..MaxSession] /\ 0 \in 0..MaxSession
      BY <1>3, <2>0, <2>1, <3>0, <3>00, <1>a, <1>b, SMTT(30) DEF SessionsType, leavesChain, sessionCreated
    <3> HIDE DEF of1, entry1, state1, idle1, lifetime1, chain1, pc1, its1
    <3>3. sessions' \in SessionsType BY <3>1, <3>2, <1>a, <1>b DEF SessionsType
    <3>4. /\ sessions'.entry = entry1 /\ sessions'.made = e /\ sessions'.of = of1
          /\ sessions'.state = state1 /\ sessions'.closing = sessions.closing
          /\ sessions'.active = sessions.active /\ sessions'.idle = idle1
          /\ sessions'.lifetime = lifetime1 /\ sessions'.chain = chain1 /\ sessions'.evicting = 0
          /\ sessions'.pc = pc1 /\ sessions'.key = sessions.key /\ sessions'.its = its1
          /\ sessions'.disposed = sessions.disposed
          /\ sessions'.asks = sessions.asks /\ sessions'.stray = sessions.stray
      BY <3>1, <3>2, <1>b DEF SessionsType
    <3>5. inMap(sessions') = inMap(sessions) \cup {e} /\ Cardinality(inMap(sessions')) <= Cardinality(inMap(sessions)) + 1
          /\ Cardinality(inMap(sessions')) \in Nat
        <4>1. sessions'.entry = [sessions.entry EXCEPT ![k] = sessions.made + 1] /\ sessions'.made = sessions.made + 1
              /\ sessions'.of = Append(sessions.of, k)
          BY <3>0, <3>4 DEF entry1, of1
        <4> QED BY <1>b, <3>0, <4>1, SessionAdded
    <3>6. pc1[u] = "created" /\ \A v \in SessionUser : v # u => pc1[v] = sessions.pc[v]
      BY <1>b, <2>0 DEF pc1, SessionsType
    <3>7. its1[u] = e /\ \A v \in SessionUser : v # u => its1[v] = sessions.its[v]
      BY <1>b, <2>0 DEF its1, SessionsType
    <3>8. Len(of1) = e /\ of1[e] = k /\ \A d \in 1..sessions.made : of1[d] = sessions.of[d] /\ d \in 1..e /\ d # e
      BY <1>c, <3>0 DEF of1
    <3>9. state1[e] = "opening" /\ \A d \in 1..sessions.made : state1[d] = sessions.state[d]
      BY <1>b, <1>e, <3>0, <3>8 DEF state1, SessionsType
    <3>10. e \in 1..e /\ \A d \in 1..e : d = e \/ d \in 1..sessions.made BY <1>c, <3>0
    <3>11. MapInv(sessions')
        <4>1. \A j \in SessionKey : entry1[j] # 0 => entry1[j] \in 1..e /\ of1[entry1[j]] = j
          BY <1>b, <1>d, <3>0, <3>8, <3>10 DEF entry1, SessionsType
        <4>2. \A d \in 1..e : state1[d] \in {"opening", "open"} => d \in inMap(sessions') \/ d \in sessions.closing
          BY <1>b, <3>5, <3>9, <3>10 DEF MapInv
        <4>3. sessions.stray \subseteq 1..e BY <1>b, <3>8 DEF MapInv
        <4> QED BY <2>1, <3>4, <3>8, <4>1, <4>2, <4>3 DEF MapInv
    <3>12. CapacityInv(sessions')
        <4>1. Cardinality(inMap(sessions')) <= MaxSessions BY <1>3, <1>a, <1>f, <3>5
        <4> QED BY <3>4, <4>1 DEF CapacityInv
    <3>13. ChainInv(sessions') BY <1>b, <1>g, <2>0, <3>4, <3>6, ChainLeft DEF chain1
    <3>14. UsersInv(sessions')
        <4>1. \A d \in Session : IsFiniteSet(usersOf(sessions', d)) /\ sessions'.active[d] = Cardinality(usersOf(sessions', d))
          BY <1>b, <2>0, <3>4, <3>6, <3>7, UsersStay
        <4> QED BY <1>b, <2>0, <3>4, <3>6, <3>7, <3>0, <3>8, <3>10, <4>1 DEF UsersInv
    <3>15. TimerInv(sessions')
        <4>1. sessions.active[e] = 0
            <5>1. usersOf(sessions, e) = {} BY <1>b, <3>0, <3>8 DEF UsersInv, usersOf
            <5> QED BY <5>1, <3>0, <1>b, FS_EmptySet DEF UsersInv
        <4>2. \A d \in idle1 : d = e \/ d \in sessions.idle BY DEF idle1
        <4>3. lifetime1 \subseteq inMap(sessions') BY <1>h, <3>5 DEF lifetime1
        <4>4. \A d \in idle1 : sessions.active[d] = 0 BY <1>b, <4>1, <4>2 DEF TimerInv
        <4>5. \A d \in idle1 : d \in inMap(sessions') \/ d \in sessions'.stray \/ \E v \in SessionUser : GoesToUse(sessions', v, d)
          BY <1>b, <2>0, <3>4, <3>5, <3>6, <3>7, <4>2 DEF TimerInv, GoesToUse
        <4> QED BY <3>4, <4>3, <4>4, <4>5 DEF TimerInv
    <3> QED BY <3>3, <3>11, <3>12, <3>13, <3>14, <3>15
  <2>2. CASE sessions.disposed = TRUE
    <3> DEFINE chain1 == Tail(sessions.chain)
               pc1 == [sessions.pc EXCEPT ![u] = "idle"]
               its1 == [sessions.its EXCEPT ![u] = 0]
    <3>1. sessions' = [sessions EXCEPT !.chain = chain1, !.pc = pc1, !.its = its1, !.evicting = 0]
      BY <1>3, <2>2, <1>b DEF createFor, leavesChain, SessionsType
    <3>2. /\ chain1 \in Seq(SessionUser)
          /\ pc1 \in [SessionUser -> {"idle", "chain", "created", "got", "using"}]
          /\ its1 \in [SessionUser -> 0..MaxSession] /\ 0 \in 0..MaxSession
      BY <2>0, <2>2, <1>a, <1>b DEF SessionsType, leavesChain
    <3> HIDE DEF chain1, pc1, its1
    <3>3. sessions' \in SessionsType BY <3>1, <3>2, <1>a, <1>b DEF SessionsType
    <3>4. /\ sessions'.entry = sessions.entry /\ sessions'.made = sessions.made
          /\ sessions'.of = sessions.of /\ sessions'.state = sessions.state
          /\ sessions'.closing = sessions.closing /\ sessions'.active = sessions.active
          /\ sessions'.idle = sessions.idle /\ sessions'.lifetime = sessions.lifetime
          /\ sessions'.chain = chain1 /\ sessions'.evicting = 0 /\ sessions'.pc = pc1
          /\ sessions'.key = sessions.key /\ sessions'.its = its1
          /\ sessions'.disposed = sessions.disposed
          /\ sessions'.asks = sessions.asks /\ sessions'.stray = sessions.stray
      BY <3>1, <3>2, <1>b DEF SessionsType
    <3>5. inMap(sessions') = inMap(sessions) BY <3>4 DEF inMap
    <3>6. pc1[u] = "idle" /\ \A v \in SessionUser : v # u => pc1[v] = sessions.pc[v]
      BY <1>b, <2>0 DEF pc1, SessionsType
    <3>7. its1[u] = 0 /\ \A v \in SessionUser : v # u => its1[v] = sessions.its[v]
      BY <1>b, <2>0 DEF its1, SessionsType
    <3>8. MapInv(sessions') BY <1>b, <3>4, <3>5 DEF MapInv
    <3>9. CapacityInv(sessions') BY <1>b, <3>4, <3>5 DEF CapacityInv
    <3>10. ChainInv(sessions') BY <1>b, <1>g, <2>0, <3>4, <3>6, ChainLeft DEF chain1
    <3>11. UsersInv(sessions')
        <4>1. \A d \in Session : IsFiniteSet(usersOf(sessions', d)) /\ sessions'.active[d] = Cardinality(usersOf(sessions', d))
          BY <1>b, <2>0, <3>4, <3>6, <3>7, UsersStay
        <4> QED BY <1>b, <2>0, <3>4, <3>6, <3>7, <2>2, <4>1 DEF UsersInv
    <3>12. TimerInv(sessions')
        <4>1. \A d \in sessions'.idle : d \in sessions.idle BY <3>4
        <4>2. sessions'.lifetime \subseteq inMap(sessions') BY <1>h, <3>4, <3>5
        <4>3. \A d \in sessions'.idle : IdleKept(sessions, sessions', d)
          BY <2>0, <3>4, <3>5, <3>6, <3>7, <4>1 DEF IdleKept, GoesToUse
        <4> QED BY <1>b, <3>4, <4>2, <4>3, TimersKept
    <3> QED BY <3>3, <3>8, <3>9, <3>10, <3>11, <3>12
  <2> QED BY <2>00, <2>1, <2>2
<1>4. ASSUME NEW k \in SessionKey, sessions.entry[k] # 0, NEW n \in 0..MaxSession,
             n # 0 => sessions.chain # << >> /\ sessions.entry[sessions.key[sessions.chain[1]]] = 0,
             NEW x \in SUBSET Session,
             sessions' = [sessions EXCEPT !.entry = [sessions.entry EXCEPT ![k] = 0], !.idle = (sessions.idle \ {sessions.entry[k]}) \ x,
                              !.lifetime = sessions.lifetime \ {sessions.entry[k]}, !.closing = sessions.closing \cup {sessions.entry[k]},
                              !.evicting = n]
      PROVE  sessions' \in SessionsType /\ MapInv(sessions') /\ CapacityInv(sessions') /\ ChainInv(sessions') /\ UsersInv(sessions') /\ TimerInv(sessions')
  <2> DEFINE e == sessions.entry[k]
  <2>0. e \in 1..sessions.made /\ e \in Session /\ e \in inMap(sessions) /\ e = sessions.entry[k] /\ sessions.of[e] = k
    BY <1>4, <1>d, <1>e
  <2>00. sessions.chain # << >> => sessions.key[sessions.chain[1]] \in SessionKey
    BY <1>b DEF SessionsType
  <2>000. n = 0 \/ n # 0 OBVIOUS
  <2> HIDE DEF e
  <2> DEFINE entry1 == [sessions.entry EXCEPT ![k] = 0]
             idle1 == (sessions.idle \ {e}) \ x
             lifetime1 == sessions.lifetime \ {e}
             closing1 == sessions.closing \cup {e}
  <2>1. sessions' = [sessions EXCEPT !.entry = entry1, !.idle = idle1, !.lifetime = lifetime1, !.closing = closing1,
             !.evicting = n]
    BY <1>4, <1>b DEF e
  <2>2. /\ entry1 \in [SessionKey -> 0..MaxSession] /\ idle1 \in SUBSET Session
        /\ lifetime1 \in SUBSET Session /\ closing1 \in SUBSET Session
        /\ n \in 0..MaxSession
    BY <1>4, <2>0, <2>00, <1>a, <1>b DEF SessionsType, closeEntry
  <2> HIDE DEF entry1, idle1, lifetime1, closing1
  <2>3. sessions' \in SessionsType BY <2>1, <2>2, <1>a, <1>b DEF SessionsType
  <2>4. /\ sessions'.entry = entry1 /\ sessions'.made = sessions.made
        /\ sessions'.of = sessions.of /\ sessions'.state = sessions.state
        /\ sessions'.closing = closing1 /\ sessions'.active = sessions.active
        /\ sessions'.idle = idle1 /\ sessions'.lifetime = lifetime1
        /\ sessions'.chain = sessions.chain /\ sessions'.evicting = n
        /\ sessions'.pc = sessions.pc /\ sessions'.key = sessions.key
        /\ sessions'.its = sessions.its /\ sessions'.disposed = sessions.disposed
        /\ sessions'.asks = sessions.asks /\ sessions'.stray = sessions.stray
    BY <2>1, <2>2, <1>b DEF SessionsType
  <2>5. inMap(sessions') = inMap(sessions) \ {e} /\ Cardinality(inMap(sessions')) < Cardinality(inMap(sessions)) /\ Cardinality(inMap(sessions')) \in Nat
    BY <1>b, <1>4, <2>0, <2>4, EntryCloses, ZenonT(60) DEF entry1
  <2>6. entry1[k] = 0 /\ \A j \in SessionKey : j # k => entry1[j] = sessions.entry[j]
    BY <1>b DEF entry1, SessionsType
  <2>7. MapInv(sessions')
      <3>1. \A j \in SessionKey : entry1[j] # 0 => entry1[j] \in 1..sessions.made /\ sessions.of[entry1[j]] = j
        BY <1>d, <2>6
      <3>2. \A d \in 1..sessions.made : sessions.state[d] \in {"opening", "open"} => d \in inMap(sessions') \/ d \in closing1
        BY <1>b, <2>5 DEF MapInv, closing1
      <3> QED BY <1>b, <2>4, <2>6, <3>1, <3>2 DEF MapInv
  <2>8. CapacityInv(sessions')
      <3>1. Cardinality(inMap(sessions')) < MaxSessions BY <1>a, <1>b, <1>f, <2>5 DEF CapacityInv
      <3> QED BY <1>4, <1>a, <1>g, <2>4, <2>5, <2>6, <3>1, SMTT(30) DEF CapacityInv
  <2>9. ChainInv(sessions') BY <1>b, <2>4 DEF ChainInv
  <2>10. UsersInv(sessions') BY <1>b, <2>4 DEF UsersInv, usersOf
  <2>11. TimerInv(sessions')
      <3>1. \A d \in idle1 : d \in sessions.idle /\ (d \in inMap(sessions) => d \in inMap(sessions'))
        BY <2>5 DEF idle1
      <3>2. lifetime1 \subseteq inMap(sessions') BY <1>h, <2>5 DEF lifetime1
      <3>3. \A d \in sessions'.idle : IdleKept(sessions, sessions', d)
          BY <2>0, <2>4, <2>5, <3>1 DEF IdleKept, GoesToUse
      <3> QED BY <1>b, <2>4, <3>2, <3>3, TimersKept
  <2> QED BY <2>3, <2>7, <2>8, <2>9, <2>10, <2>11
<1>5. ASSUME NEW k \in SessionKey, sessions.entry[k] # 0, sessions' = closeEntry(sessions, k)
      PROVE  sessions' \in SessionsType /\ MapInv(sessions') /\ CapacityInv(sessions') /\ ChainInv(sessions') /\ UsersInv(sessions') /\ TimerInv(sessions')
  <2> DEFINE e == sessions.entry[k]
  <2>0. sessions' = [sessions EXCEPT !.entry = [sessions.entry EXCEPT ![k] = 0], !.idle = sessions.idle \ {e},
                                     !.lifetime = sessions.lifetime \ {e}, !.closing = sessions.closing \cup {e}]
    BY <1>5, <1>b DEF closeEntry, SessionsType
  <2>1. /\ sessions.evicting \in 0..MaxSession
        /\ sessions' = [sessions EXCEPT !.entry = [sessions.entry EXCEPT ![k] = 0], !.idle = (sessions.idle \ {e}) \ {},
                                        !.lifetime = sessions.lifetime \ {e}, !.closing = sessions.closing \cup {e},
                                        !.evicting = sessions.evicting]
    <3>1. (sessions.idle \ {e}) \ {} = sessions.idle \ {e} OBVIOUS
    <3>2. sessions.evicting \in 0..MaxSession BY <1>b DEF SessionsType
    <3> DEFINE a == [sessions.entry EXCEPT ![k] = 0]
               b == sessions.idle \ {e}
               c == sessions.lifetime \ {e}
               d == sessions.closing \cup {e}
    <3>3. sessions' = [sessions EXCEPT !.entry = a, !.idle = b, !.lifetime = c, !.closing = d] BY <2>0
    <3> HIDE DEF a, b, c, d
    <3>4. sessions' = [sessions EXCEPT !.entry = a, !.idle = b, !.lifetime = c, !.closing = d, !.evicting = sessions.evicting]
      BY <3>3, <1>b, EvictionKept
    <3> QED BY <3>1, <3>2, <3>4 DEF a, b, c, d
  <2>2. sessions.evicting # 0 => sessions.chain # << >> /\ sessions.entry[sessions.key[sessions.chain[1]]] = 0
    BY <1>b DEF CapacityInv
  <2>3. {} \in SUBSET Session OBVIOUS
  <2> QED BY <1>4, <1>5, <2>1, <2>2, <2>3
<1>6. CASE CreationStarts
  <2> DEFINE u == Head(sessions.chain)
             e == sessions.entry[sessions.key[u]]
  <2>0. /\ sessions.chain # << >> /\ sessions.evicting = 0 /\ sessions.made < MaxSession
        /\ u = sessions.chain[1] /\ u \in SessionUser /\ sessions.pc[u] = "chain" /\ sessions.key[u] \in SessionKey
        /\ Len(sessions.chain) > 0 /\ 1 \in 1..Len(sessions.chain)
    BY <1>6, <1>b, <1>g DEF CreationStarts, SessionsType, ChainInv
  <2>1. CASE e # 0
    <3>0. sessions' = leavesChain(sessions, u, e) /\ e = sessions.entry[sessions.key[u]] /\ e \in 1..sessions.made /\ e \in 0..MaxSession /\ e # 0
      BY <1>6, <2>0, <2>1, <1>d DEF CreationStarts
    <3> HIDE DEF u, e
    <3> DEFINE chain1 == Tail(sessions.chain)
               pc1 == [sessions.pc EXCEPT ![u] = "created"]
               its1 == [sessions.its EXCEPT ![u] = e]
    <3>1. sessions' = [sessions EXCEPT !.chain = chain1, !.pc = pc1, !.its = its1, !.evicting = 0]
      BY <3>0, <1>b DEF leavesChain, SessionsType
    <3>2. /\ chain1 \in Seq(SessionUser)
          /\ pc1 \in [SessionUser -> {"idle", "chain", "created", "got", "using"}]
          /\ its1 \in [SessionUser -> 0..MaxSession] /\ 0 \in 0..MaxSession
      BY <2>0, <3>0, <1>a, <1>b, SMTT(30) DEF SessionsType, leavesChain
    <3> HIDE DEF chain1, pc1, its1
    <3>3. sessions' \in SessionsType BY <3>1, <3>2, <1>a, <1>b DEF SessionsType
    <3>4. /\ sessions'.entry = sessions.entry /\ sessions'.made = sessions.made
          /\ sessions'.of = sessions.of /\ sessions'.state = sessions.state
          /\ sessions'.closing = sessions.closing /\ sessions'.active = sessions.active
          /\ sessions'.idle = sessions.idle /\ sessions'.lifetime = sessions.lifetime
          /\ sessions'.chain = chain1 /\ sessions'.evicting = 0 /\ sessions'.pc = pc1
          /\ sessions'.key = sessions.key /\ sessions'.its = its1
          /\ sessions'.disposed = sessions.disposed
          /\ sessions'.asks = sessions.asks /\ sessions'.stray = sessions.stray
      BY <3>1, <3>2, <1>b DEF SessionsType
    <3>5. inMap(sessions') = inMap(sessions) BY <3>4 DEF inMap
    <3>6. pc1[u] = "created" /\ \A v \in SessionUser : v # u => pc1[v] = sessions.pc[v]
      BY <1>b, <2>0 DEF pc1, SessionsType
    <3>7. its1[u] = e /\ \A v \in SessionUser : v # u => its1[v] = sessions.its[v]
      BY <1>b, <2>0 DEF its1, SessionsType
    <3>8. MapInv(sessions') BY <1>b, <3>4, <3>5 DEF MapInv
    <3>9. CapacityInv(sessions') BY <1>b, <3>4, <3>5 DEF CapacityInv
    <3>10. ChainInv(sessions') BY <1>b, <1>g, <2>0, <3>4, <3>6, ChainLeft DEF chain1
    <3>11. UsersInv(sessions')
        <4>1. \A d \in Session : IsFiniteSet(usersOf(sessions', d)) /\ sessions'.active[d] = Cardinality(usersOf(sessions', d))
          BY <1>b, <2>0, <3>4, <3>6, <3>7, UsersStay
        <4> QED BY <1>b, <2>0, <3>4, <3>6, <3>7, <3>0, <4>1 DEF UsersInv
    <3>12. TimerInv(sessions')
        <4>1. \A d \in sessions'.idle : d \in sessions.idle BY <3>4
        <4>2. sessions'.lifetime \subseteq inMap(sessions') BY <1>h, <3>4, <3>5
        <4>3. \A d \in sessions'.idle : IdleKept(sessions, sessions', d)
          BY <2>0, <3>4, <3>5, <3>6, <3>7, <4>1 DEF IdleKept, GoesToUse
        <4> QED BY <1>b, <3>4, <4>2, <4>3, TimersKept
    <3> QED BY <3>3, <3>8, <3>9, <3>10, <3>11, <3>12
  <2>2. CASE e = 0 /\ Cardinality(inMap(sessions)) < MaxSessions
    <3>1. sessions' = createFor(sessions, u) BY <1>6, <2>2 DEF CreationStarts
    <3> QED BY <1>3, <2>0, <2>2, <3>1
  <2>3. CASE e = 0 /\ ~(Cardinality(inMap(sessions)) < MaxSessions)
    <3>1. PICK old \in inMap(sessions) : sessions' = [closeEntry(sessions, sessions.of[old]) EXCEPT !.evicting = old]
      BY <1>6, <2>3 DEF CreationStarts
    <3>2. sessions.of[old] \in SessionKey /\ sessions.entry[sessions.of[old]] = old /\ old # 0 /\ old \in 0..MaxSession
      BY <1>a, <1>d, <1>i
    <3> DEFINE k == sessions.of[old]
    <3>3. sessions' = [sessions EXCEPT !.entry = [sessions.entry EXCEPT ![k] = 0], !.idle = (sessions.idle \ {old}) \ {},
                                       !.lifetime = sessions.lifetime \ {old}, !.closing = sessions.closing \cup {old},
                                       !.evicting = old]
      <4>1. (sessions.idle \ {old}) \ {} = sessions.idle \ {old} OBVIOUS
      <4> QED BY <3>1, <3>2, <4>1, <1>b DEF closeEntry, SessionsType
    <3>4. {} \in SUBSET Session /\ k \in SessionKey /\ old = sessions.entry[k] BY <3>2
    <3>5. sessions.entry[sessions.key[sessions.chain[1]]] = 0 BY <2>0, <2>3
    <3> HIDE DEF k
    <3> QED BY <1>4, <2>0, <3>2, <3>3, <3>4, <3>5
  <2> QED BY <2>1, <2>2, <2>3
<1>7. CASE CreationResumes
  <2>1. sessions.chain # << >> /\ sessions.entry[sessions.key[sessions.chain[1]]] = 0 /\ Cardinality(inMap(sessions)) < MaxSessions
    BY <1>7, <1>b DEF CreationResumes, CapacityInv
  <2>2. Head(sessions.chain) = sessions.chain[1] /\ Head(sessions.chain) \in SessionUser
    BY <2>1, <1>b DEF SessionsType
  <2>3. sessions.made < MaxSession /\ sessions' = createFor(sessions, Head(sessions.chain))
    BY <1>7 DEF CreationResumes
  <2> QED BY <1>3, <2>1, <2>2, <2>3
<1>8. ASSUME NEW u \in SessionUser, EntryTouched(u)
      PROVE  sessions' \in SessionsType /\ MapInv(sessions') /\ CapacityInv(sessions') /\ ChainInv(sessions') /\ UsersInv(sessions') /\ TimerInv(sessions')
  <2> DEFINE e == sessions.its[u]
  <2>0. sessions.pc[u] = "created" /\ e = sessions.its[u] /\ e \in 1..sessions.made /\ e \in Session /\ sessions.active[e] \in Nat
    BY <1>8, <1>b, <1>e DEF EntryTouched, UsersInv, SessionsType
  <2>00. \A i \in 1..Len(sessions.chain) : sessions.chain[i] # u BY <2>0, <1>b DEF ChainInv
  <2> HIDE DEF e
  <2> DEFINE pc1 == [sessions.pc EXCEPT ![u] = "got"]
             idle1 == IF sessions.active[e] > 0 THEN sessions.idle ELSE sessions.idle \cup {e}
             stray1 == IF sessions.asks[u] = "get" /\ e \notin inMap(sessions) THEN sessions.stray \cup {e} ELSE sessions.stray
  <2>1. sessions' = [sessions EXCEPT !.pc = pc1, !.idle = idle1, !.stray = stray1]
    BY <1>8, <1>b DEF EntryTouched, touched, SessionsType, e
  <2>2. /\ pc1 \in [SessionUser -> {"idle", "chain", "created", "got", "using"}]
        /\ idle1 \in SUBSET Session /\ stray1 \in SUBSET Session
    BY <2>0, <2>00, <1>a, <1>b DEF SessionsType, EntryTouched
  <2> HIDE DEF pc1, idle1, stray1
  <2>3. sessions' \in SessionsType BY <2>1, <2>2, <1>a, <1>b DEF SessionsType
  <2>4. /\ sessions'.entry = sessions.entry /\ sessions'.made = sessions.made
        /\ sessions'.of = sessions.of /\ sessions'.state = sessions.state
        /\ sessions'.closing = sessions.closing /\ sessions'.active = sessions.active
        /\ sessions'.idle = idle1 /\ sessions'.lifetime = sessions.lifetime
        /\ sessions'.chain = sessions.chain /\ sessions'.evicting = sessions.evicting
        /\ sessions'.pc = pc1 /\ sessions'.key = sessions.key /\ sessions'.its = sessions.its
        /\ sessions'.disposed = sessions.disposed
        /\ sessions'.asks = sessions.asks /\ sessions'.stray = stray1
    BY <2>1, <2>2, <1>b DEF SessionsType
  <2>5. inMap(sessions') = inMap(sessions) BY <2>4 DEF inMap
  <2>6. pc1[u] = "got" /\ \A v \in SessionUser : v # u => pc1[v] = sessions.pc[v]
    BY <1>b, <2>0 DEF pc1, SessionsType
  <2>7. MapInv(sessions') BY <1>b, <2>0, <2>4, <2>5 DEF MapInv, stray1
  <2>8. CapacityInv(sessions') BY <1>b, <1>f, <1>g, <2>4, <2>5, CapacityKept
  <2>9. ChainInv(sessions') BY <1>b, <1>g, <2>00, <2>4, <2>6, ChainKept
  <2>10. UsersInv(sessions')
      <3>1. \A d \in Session : IsFiniteSet(usersOf(sessions', d)) /\ sessions'.active[d] = Cardinality(usersOf(sessions', d))
        BY <1>b, <2>0, <2>4, <2>6, UsersStay
      <3> QED BY <1>b, <2>0, <2>4, <2>6, <3>1 DEF UsersInv
  <2>11. TimerInv(sessions')
      <3>1. \A d \in idle1 : d \in sessions.idle \/ (d = e /\ sessions.active[d] = 0)
        BY <2>0 DEF idle1
      <3>4. /\ sessions.stray \subseteq stray1 /\ (e \in inMap(sessions) \/ e \in stray1 \/ sessions.asks[u] = "use")
        BY <1>b DEF stray1, SessionsType
      <3>2. sessions'.lifetime \subseteq inMap(sessions') BY <1>h, <2>4, <2>5
      <3>3. \A d \in sessions'.idle : IdleKept(sessions, sessions', d)
          BY <2>0, <2>4, <2>5, <2>6, <3>1, <3>4 DEF IdleKept, GoesToUse
      <3> QED BY <1>b, <2>4, <3>2, <3>3, TimersKept
  <2> QED BY <2>3, <2>7, <2>8, <2>9, <2>10, <2>11
<1>9. ASSUME NEW u \in SessionUser, OperationBegins(u)
      PROVE  sessions' \in SessionsType /\ MapInv(sessions') /\ CapacityInv(sessions') /\ ChainInv(sessions') /\ UsersInv(sessions') /\ TimerInv(sessions')
  <2> DEFINE e == sessions.its[u]
  <2>0. sessions.pc[u] = "got" /\ e = sessions.its[u] /\ e \in 1..sessions.made /\ e \in Session /\ sessions.active[e] \in Nat
    BY <1>9, <1>b, <1>e DEF OperationBegins, UsersInv, SessionsType
  <2>00. \A i \in 1..Len(sessions.chain) : sessions.chain[i] # u BY <2>0, <1>b DEF ChainInv
  <2> HIDE DEF e
  <2> DEFINE pc1 == [sessions.pc EXCEPT ![u] = "using"]
             active1 == [sessions.active EXCEPT ![e] = sessions.active[e] + 1]
             idle1 == sessions.idle \ {e}
  <2>1. sessions' = [sessions EXCEPT !.pc = pc1, !.active = active1, !.idle = idle1]
    BY <1>9, <1>b DEF OperationBegins, SessionsType, e
  <2>2. /\ pc1 \in [SessionUser -> {"idle", "chain", "created", "got", "using"}]
        /\ active1 \in [Session -> Nat] /\ idle1 \in SUBSET Session
    BY <2>0, <2>00, <1>a, <1>b DEF SessionsType, OperationBegins
  <2> HIDE DEF pc1, active1, idle1
  <2>3. sessions' \in SessionsType BY <2>1, <2>2, <1>a, <1>b DEF SessionsType
  <2>4. /\ sessions'.entry = sessions.entry /\ sessions'.made = sessions.made
        /\ sessions'.of = sessions.of /\ sessions'.state = sessions.state
        /\ sessions'.closing = sessions.closing /\ sessions'.active = active1
        /\ sessions'.idle = idle1 /\ sessions'.lifetime = sessions.lifetime
        /\ sessions'.chain = sessions.chain /\ sessions'.evicting = sessions.evicting
        /\ sessions'.pc = pc1 /\ sessions'.key = sessions.key /\ sessions'.its = sessions.its
        /\ sessions'.disposed = sessions.disposed
        /\ sessions'.asks = sessions.asks /\ sessions'.stray = sessions.stray
    BY <2>1, <2>2, <1>b DEF SessionsType
  <2>5. inMap(sessions') = inMap(sessions) BY <2>4 DEF inMap
  <2>6. pc1[u] = "using" /\ \A v \in SessionUser : v # u => pc1[v] = sessions.pc[v]
    BY <1>b, <2>0 DEF pc1, SessionsType
  <2>7. active1[e] = sessions.active[e] + 1 /\ \A d \in Session : d # e => active1[d] = sessions.active[d]
    BY <1>b, <2>0 DEF active1, SessionsType
  <2>8. MapInv(sessions') BY <1>b, <2>4, <2>5 DEF MapInv
  <2>9. CapacityInv(sessions') BY <1>b, <1>f, <1>g, <2>4, <2>5, CapacityKept
  <2>10. ChainInv(sessions') BY <1>b, <1>g, <2>00, <2>4, <2>6, ChainKept
  <2>11. UsersInv(sessions')
      <3>1. \A d \in Session : IsFiniteSet(usersOf(sessions', d)) /\ sessions'.active[d] = Cardinality(usersOf(sessions', d))
              <4>1. /\ \A v \in SessionUser : v # u => sessions'.pc[v] = sessions.pc[v] /\ sessions'.its[v] = sessions.its[v]
                /\ sessions'.pc[u] = "using" /\ sessions'.its[u] = e /\ sessions'.active[e] = sessions.active[e] + 1
                /\ \A d \in Session : d # e => sessions'.active[d] = sessions.active[d]
              BY <2>0, <2>4, <2>6, <2>7
          <4>2. sessions.pc[u] # "using" BY <2>0
          <4> QED BY <1>b, <2>0, <4>1, <4>2, UserCounted
      <3> QED BY <1>b, <2>0, <2>4, <2>6, <3>1 DEF UsersInv
  <2>12. TimerInv(sessions')
      <3>1. \A d \in idle1 : d \in sessions.idle /\ d # e /\ d \in Session
        BY <1>b DEF idle1, SessionsType
      <3>2. sessions'.lifetime \subseteq inMap(sessions') BY <1>h, <2>4, <2>5
      <3>3. \A d \in sessions'.idle : IdleKept(sessions, sessions', d)
          BY <2>0, <2>4, <2>5, <2>6, <2>7, <3>1 DEF IdleKept, GoesToUse
      <3> QED BY <1>b, <2>4, <3>2, <3>3, TimersKept
  <2> QED BY <2>3, <2>8, <2>9, <2>10, <2>11, <2>12
<1>10. ASSUME NEW u \in SessionUser, OperationEnds(u)
      PROVE  sessions' \in SessionsType /\ MapInv(sessions') /\ CapacityInv(sessions') /\ ChainInv(sessions') /\ UsersInv(sessions') /\ TimerInv(sessions')
  <2> DEFINE e == sessions.its[u]
  <2>0. sessions.pc[u] = "using" /\ e = sessions.its[u] /\ e \in 1..sessions.made /\ e \in Session /\ sessions.active[e] \in Nat
    BY <1>10, <1>b, <1>e DEF OperationEnds, UsersInv, SessionsType
  <2>00. \A i \in 1..Len(sessions.chain) : sessions.chain[i] # u BY <2>0, <1>b DEF ChainInv
  <2>000. /\ sessions.active[e] > 0
          /\ sessions' = [sessions EXCEPT !.pc = [sessions.pc EXCEPT ![u] = "idle"],
                                          !.active = [sessions.active EXCEPT ![e] = sessions.active[e] - 1], !.its = [sessions.its EXCEPT ![u] = 0],
                                          !.idle = IF e \in inMap(sessions) /\ ~(sessions.active[e] - 1 > 0) THEN sessions.idle \cup {e} ELSE sessions.idle]
    <3> DEFINE s == [sessions EXCEPT !.pc[u] = "idle", !.active[e] = @ - 1, !.its[u] = 0]
    <3>1. sessions.active[e] = Cardinality(usersOf(sessions, e)) /\ IsFiniteSet(usersOf(sessions, e)) /\ u \in usersOf(sessions, e)
      BY <2>0, <1>b DEF UsersInv, usersOf
    <3>2. Cardinality(usersOf(sessions, e)) # 0 BY <3>1, FS_EmptySet
    <3>3. s.made = sessions.made /\ s.entry = sessions.entry /\ s.of = sessions.of /\ s.idle = sessions.idle /\ s.active[e] = sessions.active[e] - 1
      BY <2>0, <1>b DEF SessionsType
    <3>4. inMap(s) = inMap(sessions) BY <3>3 DEF inMap
    <3>5. sessions' = IF e \in inMap(s) THEN touched(s, e) ELSE s BY <1>10 DEF OperationEnds
    <3>6. s = [sessions EXCEPT !.pc = [sessions.pc EXCEPT ![u] = "idle"],
                               !.active = [sessions.active EXCEPT ![e] = sessions.active[e] - 1], !.its = [sessions.its EXCEPT ![u] = 0]]
      BY <1>b DEF SessionsType
    <3>7. touched(s, e) = IF sessions.active[e] - 1 > 0 THEN s ELSE [s EXCEPT !.idle = sessions.idle \cup {e}]
      BY <3>3 DEF touched
    <3> HIDE DEF e
    <3>8. [s EXCEPT !.idle = sessions.idle] = s BY <3>3, <3>6
    <3>9. sessions.active[e] > 0 BY <2>0, <3>1, <3>2
    <3> HIDE DEF s
    <3>10. sessions' = [s EXCEPT !.idle = IF e \in inMap(sessions) /\ ~(sessions.active[e] - 1 > 0) THEN sessions.idle \cup {e} ELSE sessions.idle]
      BY <3>4, <3>5, <3>7, <3>8
    <3> QED BY <3>6, <3>9, <3>10
  <2> HIDE DEF e
  <2> DEFINE pc1 == [sessions.pc EXCEPT ![u] = "idle"]
             active1 == [sessions.active EXCEPT ![e] = sessions.active[e] - 1]
             its1 == [sessions.its EXCEPT ![u] = 0]
             idle1 == IF e \in inMap(sessions) /\ ~(sessions.active[e] - 1 > 0) THEN sessions.idle \cup {e} ELSE sessions.idle
  <2>1. sessions' = [sessions EXCEPT !.pc = pc1, !.active = active1, !.its = its1, !.idle = idle1]
    BY <2>0, <2>000
  <2>2. /\ pc1 \in [SessionUser -> {"idle", "chain", "created", "got", "using"}]
        /\ active1 \in [Session -> Nat] /\ its1 \in [SessionUser -> 0..MaxSession]
        /\ idle1 \in SUBSET Session
    BY <2>0, <2>00, <2>000, <1>a, <1>b DEF SessionsType, OperationEnds
  <2> HIDE DEF pc1, active1, its1, idle1
  <2>3. sessions' \in SessionsType BY <2>1, <2>2, <1>a, <1>b DEF SessionsType
  <2>4. /\ sessions'.entry = sessions.entry /\ sessions'.made = sessions.made
        /\ sessions'.of = sessions.of /\ sessions'.state = sessions.state
        /\ sessions'.closing = sessions.closing /\ sessions'.active = active1
        /\ sessions'.idle = idle1 /\ sessions'.lifetime = sessions.lifetime
        /\ sessions'.chain = sessions.chain /\ sessions'.evicting = sessions.evicting
        /\ sessions'.pc = pc1 /\ sessions'.key = sessions.key /\ sessions'.its = its1
        /\ sessions'.disposed = sessions.disposed
        /\ sessions'.asks = sessions.asks /\ sessions'.stray = sessions.stray
    BY <2>1, <2>2, <1>b DEF SessionsType
  <2>5. inMap(sessions') = inMap(sessions) BY <2>4 DEF inMap
  <2>6. pc1[u] = "idle" /\ \A v \in SessionUser : v # u => pc1[v] = sessions.pc[v]
    BY <1>b, <2>0 DEF pc1, SessionsType
  <2>7. its1[u] = 0 /\ \A v \in SessionUser : v # u => its1[v] = sessions.its[v]
    BY <1>b, <2>0 DEF its1, SessionsType
  <2>8. active1[e] = sessions.active[e] - 1 /\ \A d \in Session : d # e => active1[d] = sessions.active[d]
    BY <1>b, <2>0 DEF active1, SessionsType
  <2>9. MapInv(sessions') BY <1>b, <2>4, <2>5 DEF MapInv
  <2>10. CapacityInv(sessions') BY <1>b, <1>f, <1>g, <2>4, <2>5, CapacityKept
  <2>11. ChainInv(sessions') BY <1>b, <1>g, <2>00, <2>4, <2>6, ChainKept
  <2>12. UsersInv(sessions')
      <3>1. \A d \in Session : IsFiniteSet(usersOf(sessions', d)) /\ sessions'.active[d] = Cardinality(usersOf(sessions', d))
              <4>1. /\ \A v \in SessionUser : v # u => sessions'.pc[v] = sessions.pc[v] /\ sessions'.its[v] = sessions.its[v]
                /\ sessions'.pc[u] = "idle" /\ sessions'.active[e] = sessions.active[e] - 1
                /\ \A d \in Session : d # e => sessions'.active[d] = sessions.active[d]
              BY <2>0, <2>4, <2>6, <2>7, <2>8
          <4> QED BY <1>b, <2>0, <4>1, UserUncounted
      <3> QED BY <1>b, <2>0, <2>4, <2>6, <2>7, <3>1 DEF UsersInv
  <2>13. TimerInv(sessions')
      <3>1. \A d \in idle1 : (d \in sessions.idle /\ d # e /\ d \in Session) \/ (d \in inMap(sessions) /\ active1[d] = 0)
          <4>1. e \notin sessions.idle BY <1>b, <2>0, <2>000 DEF TimerInv
          <4>2. ~(sessions.active[e] - 1 > 0) => active1[e] = 0 BY <2>0, <2>000, <2>8
          <4> QED BY <1>b, <4>1, <4>2 DEF idle1, SessionsType
      <3>2. sessions'.lifetime \subseteq inMap(sessions') BY <1>h, <2>4, <2>5
      <3>3. \A d \in sessions'.idle : IdleKept(sessions, sessions', d)
          BY <2>0, <2>4, <2>5, <2>6, <2>7, <2>8, <3>1 DEF IdleKept, GoesToUse
      <3> QED BY <1>b, <2>4, <3>2, <3>3, TimersKept
  <2> QED BY <2>3, <2>9, <2>10, <2>11, <2>12, <2>13
<1>11. ASSUME NEW e \in Session, SessionOpens(e)
      PROVE  sessions' \in SessionsType /\ MapInv(sessions') /\ CapacityInv(sessions') /\ ChainInv(sessions') /\ UsersInv(sessions') /\ TimerInv(sessions')
  <2> DEFINE state1 == [sessions.state EXCEPT ![e] = "open"]
  <2>1. sessions' = [sessions EXCEPT !.state = state1] BY <1>11, <1>b DEF SessionOpens, SessionsType
  <2>2. state1 \in [Session -> {"none", "opening", "open", "failed", "closed"}]
    BY <1>11, <1>a, <1>b DEF SessionsType, SessionOpens
  <2> HIDE DEF state1
  <2>3. sessions' \in SessionsType BY <2>1, <2>2, <1>a, <1>b DEF SessionsType
  <2>4. /\ sessions'.entry = sessions.entry /\ sessions'.made = sessions.made
        /\ sessions'.of = sessions.of /\ sessions'.state = state1
        /\ sessions'.closing = sessions.closing /\ sessions'.active = sessions.active
        /\ sessions'.idle = sessions.idle /\ sessions'.lifetime = sessions.lifetime
        /\ sessions'.chain = sessions.chain /\ sessions'.evicting = sessions.evicting
        /\ sessions'.pc = sessions.pc /\ sessions'.key = sessions.key
        /\ sessions'.its = sessions.its /\ sessions'.disposed = sessions.disposed
        /\ sessions'.asks = sessions.asks /\ sessions'.stray = sessions.stray
    BY <2>1, <2>2, <1>b DEF SessionsType
  <2>5. inMap(sessions') = inMap(sessions) BY <2>4 DEF inMap
  <2>6. state1[e] = "open" /\ \A d \in Session : d # e => state1[d] = sessions.state[d]
    BY <1>b DEF state1, SessionsType
  <2>7. MapInv(sessions') BY <1>b, <1>e, <1>11, <2>4, <2>5, <2>6 DEF MapInv, SessionOpens
  <2>8. CapacityInv(sessions') BY <1>b, <2>4 DEF CapacityInv, inMap
  <2>9. ChainInv(sessions') BY <1>b, <2>4 DEF ChainInv
  <2>10. UsersInv(sessions') BY <1>b, <2>4 DEF UsersInv, usersOf
  <2>11. TimerInv(sessions') BY <1>b, <2>4 DEF TimerInv, inMap, GoesToUse
  <2> QED BY <2>3, <2>7, <2>8, <2>9, <2>10, <2>11
<1>12. ASSUME NEW e \in Session, OpeningFails(e)
      PROVE  sessions' \in SessionsType /\ MapInv(sessions') /\ CapacityInv(sessions') /\ ChainInv(sessions') /\ UsersInv(sessions') /\ TimerInv(sessions')
  <2> DEFINE s == [sessions EXCEPT !.state[e] = "failed"]
  <2>0. s.made = sessions.made /\ s.entry = sessions.entry /\ s.of = sessions.of /\ s.idle = sessions.idle /\ s.lifetime = sessions.lifetime
    BY <1>b DEF SessionsType
  <2>00. inMap(s) = inMap(sessions) /\ sessions.state[e] = "opening"
    BY <2>0, <1>12 DEF inMap, OpeningFails
  <2>1. CASE e \in inMap(sessions)
    <3> DEFINE k == sessions.of[e]
    <3>0. k \in SessionKey /\ sessions.entry[k] = e /\ sessions.entry[k] # 0 /\ e \in 1..sessions.made
      BY <1>d, <2>1
    <3> HIDE DEF k
    <3> DEFINE state1 == [sessions.state EXCEPT ![e] = "failed"]
               entry1 == [sessions.entry EXCEPT ![k] = 0]
               idle1 == sessions.idle \ {e}
               lifetime1 == sessions.lifetime \ {e}
    <3>1. sessions' = [sessions EXCEPT !.state = state1, !.entry = entry1, !.idle = idle1, !.lifetime = lifetime1]
      BY <1>12, <2>0, <2>00, <2>1, <1>b DEF OpeningFails, SessionsType, k
    <3>2. /\ state1 \in [Session -> {"none", "opening", "open", "failed", "closed"}]
          /\ entry1 \in [SessionKey -> 0..MaxSession] /\ idle1 \in SUBSET Session
          /\ lifetime1 \in SUBSET Session
      BY <2>0, <2>00, <2>1, <3>0, <1>a, <1>b DEF SessionsType, OpeningFails
    <3> HIDE DEF state1, entry1, idle1, lifetime1
    <3>3. sessions' \in SessionsType BY <3>1, <3>2, <1>a, <1>b DEF SessionsType
    <3>4. /\ sessions'.entry = entry1 /\ sessions'.made = sessions.made
          /\ sessions'.of = sessions.of /\ sessions'.state = state1
          /\ sessions'.closing = sessions.closing /\ sessions'.active = sessions.active
          /\ sessions'.idle = idle1 /\ sessions'.lifetime = lifetime1
          /\ sessions'.chain = sessions.chain /\ sessions'.evicting = sessions.evicting
          /\ sessions'.pc = sessions.pc /\ sessions'.key = sessions.key
          /\ sessions'.its = sessions.its /\ sessions'.disposed = sessions.disposed
          /\ sessions'.asks = sessions.asks /\ sessions'.stray = sessions.stray
      BY <3>1, <3>2, <1>b DEF SessionsType
    <3>5. inMap(sessions') = inMap(sessions) \ {e} /\ Cardinality(inMap(sessions')) < Cardinality(inMap(sessions)) /\ Cardinality(inMap(sessions')) \in Nat
      BY <1>b, <3>0, <3>4, EntryCloses DEF entry1
    <3>6. /\ entry1[k] = 0 /\ \A j \in SessionKey : j # k => entry1[j] = sessions.entry[j]
          /\ \A j \in SessionKey : sessions.entry[j] = 0 => entry1[j] = 0
      BY <1>b, <3>0 DEF entry1, SessionsType
    <3>7. state1[e] = "failed" /\ \A d \in Session : d # e => state1[d] = sessions.state[d]
      BY <1>b DEF state1, SessionsType
    <3>8. MapInv(sessions')
        <4>1. \A j \in SessionKey : entry1[j] # 0 => entry1[j] \in 1..sessions.made /\ sessions.of[entry1[j]] = j
          BY <1>d, <3>6
        <4>2. \A d \in 1..sessions.made : state1[d] \in {"opening", "open"} => d \in inMap(sessions') \/ d \in sessions.closing
          BY <1>b, <1>e, <3>5, <3>7 DEF MapInv
        <4> QED BY <1>b, <3>4, <3>6, <4>1, <4>2 DEF MapInv
    <3>9. CapacityInv(sessions')
        <4>1. sessions.chain # << >> /\ sessions.entry[sessions.key[sessions.chain[1]]] = 0 => sessions'.entry[sessions.key[sessions.chain[1]]] = 0
          BY <1>g, <3>4, <3>6
        <4>2. Cardinality(inMap(sessions')) <= Cardinality(inMap(sessions)) BY <1>f, <3>5
        <4> QED BY <1>b, <1>f, <3>4, <3>5, <4>1, <4>2, CapacityKept
    <3>10. ChainInv(sessions') BY <1>b, <3>4 DEF ChainInv
    <3>11. UsersInv(sessions') BY <1>b, <3>4 DEF UsersInv, usersOf
    <3>12. TimerInv(sessions')
        <4>1. \A d \in idle1 : d \in sessions.idle /\ (d \in inMap(sessions) => d \in inMap(sessions'))
          BY <3>5 DEF idle1
        <4>2. lifetime1 \subseteq inMap(sessions') BY <1>h, <3>5 DEF lifetime1
        <4>3. \A d \in sessions'.idle : IdleKept(sessions, sessions', d)
          BY <2>0, <3>4, <3>5, <4>1 DEF IdleKept, GoesToUse
        <4> QED BY <1>b, <3>4, <4>2, <4>3, TimersKept
    <3> QED BY <3>3, <3>8, <3>9, <3>10, <3>11, <3>12
  <2>2. CASE e \notin inMap(sessions)
    <3> DEFINE state1 == [sessions.state EXCEPT ![e] = "failed"]
    <3>1. sessions' = [sessions EXCEPT !.state = state1]
      BY <1>12, <2>0, <2>00, <2>2, <1>b DEF OpeningFails, SessionsType
    <3>2. state1 \in [Session -> {"none", "opening", "open", "failed", "closed"}]
      BY <2>0, <2>00, <2>2, <1>a, <1>b DEF SessionsType, OpeningFails
    <3> HIDE DEF state1
    <3>3. sessions' \in SessionsType BY <3>1, <3>2, <1>a, <1>b DEF SessionsType
    <3>4. /\ sessions'.entry = sessions.entry /\ sessions'.made = sessions.made
          /\ sessions'.of = sessions.of /\ sessions'.state = state1
          /\ sessions'.closing = sessions.closing /\ sessions'.active = sessions.active
          /\ sessions'.idle = sessions.idle /\ sessions'.lifetime = sessions.lifetime
          /\ sessions'.chain = sessions.chain /\ sessions'.evicting = sessions.evicting
          /\ sessions'.pc = sessions.pc /\ sessions'.key = sessions.key
          /\ sessions'.its = sessions.its /\ sessions'.disposed = sessions.disposed
          /\ sessions'.asks = sessions.asks /\ sessions'.stray = sessions.stray
      BY <3>1, <3>2, <1>b DEF SessionsType
    <3>5. inMap(sessions') = inMap(sessions) BY <3>4 DEF inMap
    <3>6. state1[e] = "failed" /\ \A d \in Session : d # e => state1[d] = sessions.state[d]
      BY <1>b DEF state1, SessionsType
    <3>7. MapInv(sessions') BY <1>b, <1>e, <3>4, <3>5, <3>6 DEF MapInv
    <3>8. CapacityInv(sessions') BY <1>b, <3>4 DEF CapacityInv, inMap
    <3>9. ChainInv(sessions') BY <1>b, <3>4 DEF ChainInv
    <3>10. UsersInv(sessions') BY <1>b, <3>4 DEF UsersInv, usersOf
    <3>11. TimerInv(sessions') BY <1>b, <3>4 DEF TimerInv, inMap, GoesToUse
    <3> QED BY <3>3, <3>7, <3>8, <3>9, <3>10, <3>11
  <2> QED BY <2>1, <2>2
<1>13. ASSUME NEW e \in Session, SessionClosed(e)
      PROVE  sessions' \in SessionsType /\ MapInv(sessions') /\ CapacityInv(sessions') /\ ChainInv(sessions') /\ UsersInv(sessions') /\ TimerInv(sessions')
  <2> DEFINE closing1 == sessions.closing \ {e}
             state1 == [sessions.state EXCEPT ![e] = IF sessions.state[e] = "open" THEN "closed" ELSE sessions.state[e]]
  <2>1. sessions' = [sessions EXCEPT !.closing = closing1, !.state = state1]
    BY <1>13, <1>b DEF SessionClosed, SessionsType
  <2>2. /\ closing1 \in SUBSET Session
        /\ state1 \in [Session -> {"none", "opening", "open", "failed", "closed"}]
    BY <1>13, <1>a, <1>b DEF SessionsType, SessionClosed
  <2> HIDE DEF closing1, state1
  <2>3. sessions' \in SessionsType BY <2>1, <2>2, <1>a, <1>b DEF SessionsType
  <2>4. /\ sessions'.entry = sessions.entry /\ sessions'.made = sessions.made
        /\ sessions'.of = sessions.of /\ sessions'.state = state1 /\ sessions'.closing = closing1
        /\ sessions'.active = sessions.active /\ sessions'.idle = sessions.idle
        /\ sessions'.lifetime = sessions.lifetime /\ sessions'.chain = sessions.chain
        /\ sessions'.evicting = sessions.evicting /\ sessions'.pc = sessions.pc
        /\ sessions'.key = sessions.key /\ sessions'.its = sessions.its
        /\ sessions'.disposed = sessions.disposed
        /\ sessions'.asks = sessions.asks /\ sessions'.stray = sessions.stray
    BY <2>1, <2>2, <1>b DEF SessionsType
  <2>5. inMap(sessions') = inMap(sessions) BY <2>4 DEF inMap
  <2>6. state1[e] \notin {"opening", "open"} /\ \A d \in Session : d # e => state1[d] = sessions.state[d]
    BY <1>b, <1>13 DEF state1, SessionsType, SessionClosed
  <2>7. MapInv(sessions') BY <1>b, <1>e, <2>4, <2>5, <2>6 DEF MapInv, closing1
  <2>8. CapacityInv(sessions') BY <1>b, <2>4 DEF CapacityInv, inMap
  <2>9. ChainInv(sessions') BY <1>b, <2>4 DEF ChainInv
  <2>10. UsersInv(sessions') BY <1>b, <2>4 DEF UsersInv, usersOf
  <2>11. TimerInv(sessions') BY <1>b, <2>4 DEF TimerInv, inMap, GoesToUse
  <2> QED BY <2>3, <2>7, <2>8, <2>9, <2>10, <2>11
<1>14. ASSUME NEW e \in Session, IdleTimerFires(e)
      PROVE  sessions' \in SessionsType /\ MapInv(sessions') /\ CapacityInv(sessions') /\ ChainInv(sessions') /\ UsersInv(sessions') /\ TimerInv(sessions')
  <2> DEFINE s == [sessions EXCEPT !.idle = @ \ {e}]
             k == sessions.of[e]
  <2>1. sessions' = closeEntry(s, k) /\ e \in sessions.idle BY <1>14 DEF IdleTimerFires
  <2>2. k \in SessionKey
    <3>1. e \in 1..sessions.made
      <4>1. e \in inMap(sessions) \/ e \in sessions.stray
        BY <1>14, <1>b DEF IdleTimerFires, usersAtRest, TimerInv, GoesToUse
      <4> QED BY <4>1, <1>b, <1>d DEF MapInv
    <3> QED BY <3>1, <1>e
  <2>3. s.entry = sessions.entry /\ s.idle = sessions.idle \ {e} /\ s.lifetime = sessions.lifetime /\ s.closing = sessions.closing
    BY <1>b DEF SessionsType
  <2>4. CASE sessions.entry[k] # 0
    <3> DEFINE d == sessions.entry[k]
    <3>1. sessions' = [s EXCEPT !.entry = [sessions.entry EXCEPT ![k] = 0], !.idle = (sessions.idle \ {e}) \ {d},
                                !.lifetime = sessions.lifetime \ {d}, !.closing = sessions.closing \cup {d}]
      <4> HIDE DEF s, k
      <4> QED BY <2>1, <2>2, <2>3, <2>4 DEF closeEntry, SessionsType
    <3>2. /\ sessions.evicting \in 0..MaxSession
          /\ sessions' = [sessions EXCEPT !.entry = [sessions.entry EXCEPT ![k] = 0], !.idle = (sessions.idle \ {d}) \ {e},
                                          !.lifetime = sessions.lifetime \ {d}, !.closing = sessions.closing \cup {d},
                                          !.evicting = sessions.evicting]
      <4>1. (sessions.idle \ {e}) \ {d} = (sessions.idle \ {d}) \ {e} OBVIOUS
      <4>2. sessions.evicting \in 0..MaxSession BY <1>b DEF SessionsType
      <4> DEFINE a == [sessions.entry EXCEPT ![k] = 0]
                 b == (sessions.idle \ {e}) \ {d}
                 c == sessions.lifetime \ {d}
                 x == sessions.closing \cup {d}
                 i == sessions.idle \ {e}
      <4>3. sessions' = [[sessions EXCEPT !.idle = i] EXCEPT !.entry = a, !.idle = b, !.lifetime = c, !.closing = x] BY <3>1
      <4> HIDE DEF a, b, c, x, i
      <4>4. sessions' = [sessions EXCEPT !.entry = a, !.idle = b, !.lifetime = c, !.closing = x, !.evicting = sessions.evicting]
        BY <4>3, <1>b, EvictionKept
      <4> QED BY <4>1, <4>2, <4>4 DEF a, b, c, x
    <3>3. sessions.evicting # 0 => sessions.chain # << >> /\ sessions.entry[sessions.key[sessions.chain[1]]] = 0
      BY <1>b DEF CapacityInv
    <3>4. {e} \in SUBSET Session BY <1>14
    <3> HIDE DEF k
    <3> QED BY <1>4, <2>2, <2>4, <3>2, <3>3, <3>4
  <2>5. CASE sessions.entry[k] = 0
    <3> DEFINE idle1 == sessions.idle \ {e}
    <3>1. sessions' = [sessions EXCEPT !.idle = idle1] BY <2>1, <2>3, <2>5 DEF closeEntry
    <3>2. idle1 \in SUBSET Session BY <1>b DEF SessionsType
    <3> HIDE DEF idle1
    <3>3. sessions' \in SessionsType BY <3>1, <3>2, <1>b DEF SessionsType
    <3>4. /\ sessions'.entry = sessions.entry /\ sessions'.made = sessions.made
          /\ sessions'.of = sessions.of /\ sessions'.state = sessions.state
          /\ sessions'.closing = sessions.closing /\ sessions'.active = sessions.active
          /\ sessions'.idle = idle1 /\ sessions'.lifetime = sessions.lifetime
          /\ sessions'.chain = sessions.chain /\ sessions'.evicting = sessions.evicting
          /\ sessions'.pc = sessions.pc /\ sessions'.key = sessions.key
          /\ sessions'.its = sessions.its /\ sessions'.disposed = sessions.disposed
          /\ sessions'.asks = sessions.asks /\ sessions'.stray = sessions.stray
      BY <3>1, <3>2, <1>b DEF SessionsType
    <3>5. inMap(sessions') = inMap(sessions) BY <3>4 DEF inMap
    <3>6. MapInv(sessions') /\ ChainInv(sessions') BY <1>b, <3>4, <3>5 DEF MapInv, ChainInv
    <3>7. CapacityInv(sessions') BY <1>b, <3>4, <3>5 DEF CapacityInv
    <3>8. UsersInv(sessions') BY <1>b, <3>4 DEF UsersInv, usersOf
    <3>9. TimerInv(sessions') BY <1>b, <3>4, <3>5 DEF TimerInv, GoesToUse, idle1
    <3> QED BY <3>3, <3>6, <3>7, <3>8, <3>9
  <2> QED BY <2>4, <2>5
<1>15. ASSUME NEW e \in Session, LifetimeTimerFires(e)
      PROVE  sessions' \in SessionsType /\ MapInv(sessions') /\ CapacityInv(sessions') /\ ChainInv(sessions') /\ UsersInv(sessions') /\ TimerInv(sessions')
  <2>1. e \in inMap(sessions) BY <1>15, <1>h DEF LifetimeTimerFires
  <2>2. sessions.of[e] \in SessionKey /\ sessions.entry[sessions.of[e]] = e /\ e # 0
    BY <1>a, <1>d, <1>i, <2>1
  <2> DEFINE s == [sessions EXCEPT !.lifetime = @ \ {e}]
             k == sessions.of[e]
  <2>3. s \in SessionsType /\ s.entry[k] = e /\ s.lifetime \ {e} = sessions.lifetime \ {e} /\ s.idle = sessions.idle
        /\ s.entry = sessions.entry /\ s.closing = sessions.closing
    BY <1>b, <2>2 DEF SessionsType
  <2>4. sessions' = closeEntry(s, k) BY <1>15 DEF LifetimeTimerFires
  <2>5. sessions' = [s EXCEPT !.entry = [sessions.entry EXCEPT ![k] = 0], !.idle = s.idle \ {e}, !.lifetime = s.lifetime \ {e},
                              !.closing = sessions.closing \cup {e}]
    <3> HIDE DEF s, k
    <3> QED BY <2>2, <2>3, <2>4 DEF closeEntry, SessionsType
  <2>6. sessions' = [sessions EXCEPT !.entry = [sessions.entry EXCEPT ![k] = 0], !.idle = sessions.idle \ {e}, !.lifetime = sessions.lifetime \ {e},
                                     !.closing = sessions.closing \cup {e}]
    BY <2>3, <2>5, <1>b DEF SessionsType
  <2>7. sessions' = closeEntry(sessions, k) BY <2>2, <2>6, <1>b DEF closeEntry, SessionsType
  <2> QED BY <1>5, <2>2, <2>7
<1>16. ASSUME NEW k \in SessionKey, SessionCloseCalled(k)
      PROVE  sessions' \in SessionsType /\ MapInv(sessions') /\ CapacityInv(sessions') /\ ChainInv(sessions') /\ UsersInv(sessions') /\ TimerInv(sessions')
  BY <1>5, <1>16 DEF SessionCloseCalled
<1>17. CASE SessionsDispose
  <2> DEFINE entry1 == [k \in SessionKey |-> 0]
             closing1 == sessions.closing \cup inMap(sessions)
             idle1 == sessions.idle \ inMap(sessions)
             lifetime1 == sessions.lifetime \ inMap(sessions)
  <2>1. sessions' = [sessions EXCEPT !.disposed = TRUE, !.entry = entry1, !.closing = closing1, !.idle = idle1,
             !.lifetime = lifetime1]
    BY <1>17, <1>d, <1>b DEF SessionsDispose, SessionsType
  <2>2. /\ entry1 \in [SessionKey -> 0..MaxSession] /\ closing1 \in SUBSET Session
        /\ idle1 \in SUBSET Session /\ lifetime1 \in SUBSET Session
    BY <1>17, <1>d, <1>a, <1>b DEF SessionsType, SessionsDispose
  <2> HIDE DEF entry1, closing1, idle1, lifetime1
  <2>3. sessions' \in SessionsType BY <2>1, <2>2, <1>a, <1>b DEF SessionsType
  <2>4. /\ sessions'.entry = entry1 /\ sessions'.made = sessions.made
        /\ sessions'.of = sessions.of /\ sessions'.state = sessions.state
        /\ sessions'.closing = closing1 /\ sessions'.active = sessions.active
        /\ sessions'.idle = idle1 /\ sessions'.lifetime = lifetime1
        /\ sessions'.chain = sessions.chain /\ sessions'.evicting = sessions.evicting
        /\ sessions'.pc = sessions.pc /\ sessions'.key = sessions.key
        /\ sessions'.its = sessions.its /\ sessions'.disposed = TRUE
        /\ sessions'.asks = sessions.asks /\ sessions'.stray = sessions.stray
    BY <2>1, <2>2, <1>b DEF SessionsType
  <2>5. \A k \in SessionKey : entry1[k] = 0 BY DEF entry1
  <2>6. inMap(sessions') = {} /\ Cardinality({}) = 0 BY <1>e, <2>4, <2>5, FS_EmptySet DEF inMap
  <2>7. \A d \in idle1 : d \in sessions.idle /\ d \notin inMap(sessions) BY DEF idle1
  <2>8. MapInv(sessions') BY <1>b, <2>4, <2>5 DEF MapInv, closing1
  <2>9. CapacityInv(sessions')
      <3>1. Cardinality(inMap(sessions')) = 0 BY <2>6
      <3>2. sessions.chain # << >> => sessions'.entry[sessions.key[sessions.chain[1]]] = 0
        BY <1>g, <2>4, <2>5
      <3> QED BY <1>b, <1>f, <2>4, <3>1, <3>2, CapacityKept
  <2>10. ChainInv(sessions') BY <1>b, <2>4 DEF ChainInv
  <2>11. UsersInv(sessions') BY <1>b, <2>4 DEF UsersInv, usersOf
  <2>12. TimerInv(sessions')
      <3>1. lifetime1 \subseteq inMap(sessions') BY <1>h DEF lifetime1
      <3>2. \A d \in sessions'.idle : IdleKept(sessions, sessions', d) BY <2>4, <2>6, <2>7 DEF IdleKept, GoesToUse
      <3> QED BY <1>b, <2>4, <3>1, <3>2, TimersKept
  <2> QED BY <2>3, <2>8, <2>9, <2>10, <2>11, <2>12
<1>18. ASSUME NEW u \in SessionUser, GetReturns(u)
      PROVE  sessions' \in SessionsType /\ MapInv(sessions') /\ CapacityInv(sessions') /\ ChainInv(sessions') /\ UsersInv(sessions') /\ TimerInv(sessions')
  <2>0. sessions.pc[u] = "got" /\ sessions.asks[u] = "get" BY <1>18 DEF GetReturns
  <2>00. \A i \in 1..Len(sessions.chain) : sessions.chain[i] # u BY <2>0, <1>b DEF ChainInv
  <2> DEFINE pc1 == [sessions.pc EXCEPT ![u] = "idle"]
             its1 == [sessions.its EXCEPT ![u] = 0]
  <2>1. sessions' = [sessions EXCEPT !.pc = pc1, !.its = its1]
    BY <1>18, <1>b DEF GetReturns, SessionsType
  <2>2. /\ pc1 \in [SessionUser -> {"idle", "chain", "created", "got", "using"}]
        /\ its1 \in [SessionUser -> 0..MaxSession]
    BY <1>a, <1>b DEF SessionsType
  <2> HIDE DEF pc1, its1
  <2>3. sessions' \in SessionsType BY <2>1, <2>2, <1>a, <1>b DEF SessionsType
  <2>4. /\ sessions'.entry = sessions.entry /\ sessions'.made = sessions.made
        /\ sessions'.of = sessions.of /\ sessions'.state = sessions.state
        /\ sessions'.closing = sessions.closing /\ sessions'.active = sessions.active
        /\ sessions'.idle = sessions.idle /\ sessions'.lifetime = sessions.lifetime
        /\ sessions'.chain = sessions.chain /\ sessions'.evicting = sessions.evicting
        /\ sessions'.pc = pc1 /\ sessions'.key = sessions.key /\ sessions'.its = its1
        /\ sessions'.disposed = sessions.disposed
        /\ sessions'.asks = sessions.asks /\ sessions'.stray = sessions.stray
    BY <2>1, <2>2, <1>b DEF SessionsType
  <2>5. inMap(sessions') = inMap(sessions) BY <2>4 DEF inMap
  <2>6. pc1[u] = "idle" /\ \A v \in SessionUser : v # u => pc1[v] = sessions.pc[v] /\ its1[v] = sessions.its[v]
    BY <1>b, <2>0 DEF pc1, its1, SessionsType
  <2>7. MapInv(sessions') BY <1>b, <2>4, <2>5 DEF MapInv
  <2>8. CapacityInv(sessions') BY <1>b, <2>4, <2>5 DEF CapacityInv
  <2>9. ChainInv(sessions') BY <1>b, <1>g, <2>00, <2>4, <2>6, ChainKept
  <2>10. UsersInv(sessions')
      <3>1. \A d \in Session : IsFiniteSet(usersOf(sessions', d)) /\ sessions'.active[d] = Cardinality(usersOf(sessions', d))
        BY <1>b, <2>0, <2>4, <2>6, UsersStay
      <3> QED BY <1>b, <2>0, <2>4, <2>6, <3>1 DEF UsersInv
  <2>11. TimerInv(sessions')
      <3>1. sessions'.lifetime \subseteq inMap(sessions') BY <1>h, <2>4, <2>5
      <3>2. \A d \in sessions'.idle : IdleKept(sessions, sessions', d)
        BY <2>0, <2>4, <2>5, <2>6 DEF IdleKept, GoesToUse
      <3> QED BY <1>b, <2>4, <3>1, <3>2, TimersKept
  <2> QED BY <2>3, <2>7, <2>8, <2>9, <2>10, <2>11
<1> QED BY <1>1, <1>2, <1>6, <1>7, <1>8, <1>9, <1>10, <1>11, <1>12, <1>13, <1>14, <1>15, <1>16, <1>17, <1>18 DEF SessionsNext

\* What the invariant says of the sessions.
LEMMA SessionsShow == SessionsInv => SessionsAreContained
<1> SUFFICES ASSUME SessionsInv PROVE SessionsAreContained
  OBVIOUS
<1>b. /\ sessions \in SessionsType /\ MapInv(sessions) /\ CapacityInv(sessions)
      /\ ChainInv(sessions) /\ UsersInv(sessions) /\ TimerInv(sessions)
  BY DEF SessionsInv
<1>1. NoSessionLeak BY <1>b DEF NoSessionLeak, MapInv
<1>2. sessions.disposed => inMap(sessions) = {}
  <2>1. \A e \in 1..sessions.made : sessions.of[e] \in SessionKey /\ e # 0
    BY <1>b DEF SessionsType, MapInv
  <2> QED BY <1>b, <2>1 DEF MapInv, inMap
<1>3. SessionBounds BY <1>b, <1>2 DEF SessionBounds, CapacityInv
<1>4. TimersOfSessions BY <1>b DEF TimersOfSessions, TimerInv, GoesToUse, usersAtRest
<1> QED BY <1>1, <1>3, <1>4 DEF SessionsAreContained

-----------------------------------------------------------------------------
(* The peer of the JSON-RPC bridge (JsonRpcPeer).                          *)

BridgeEvent == [sequence : 1..MaxBridgeEvents, about : ReverseRequest \cup {Notified}]

BridgeType ==
    [policy : {"queue", "reject"}, link : {"open", "closing", "closed"}, closed : BOOLEAN,
     events : Seq(BridgeEvent), sequence : 1..MaxBridgeEvents + 1,
     arrived : SUBSET ReverseRequest, pendingReverse : SUBSET ReverseRequest, timers : SUBSET ReverseRequest,
     writing : SUBSET ReverseRequest, answers : [ReverseRequest -> Nat], pending : SUBSET BridgeCall,
     outcome : [BridgeCall -> {"none", "waiting", "settled"}], waiting : SUBSET BridgeReader,
     after : [BridgeReader -> 0..MaxBridgeEvents], misreported : [BridgeReader -> SUBSET (1..MaxBridgeEvents)]]

\* The ring holds the newest events, one after the other.
RingInv(s) ==
    /\ Len(s.events) < s.sequence
    /\ \A i \in 1..Len(s.events) : s.events[i].sequence = (s.sequence - Len(s.events)) + (i - 1)

\* No reader is ahead of the ring, and what it was told is right.
CursorInv(s) == \A k \in BridgeReader : s.after[k] < s.sequence /\ s.misreported[k] = {}

WaitInv(s) ==
    \A k \in s.waiting : s.closed = FALSE /\ \A i \in 1..Len(s.events) : s.events[i].sequence <= s.after[k]

\* A request of the server is either kept, in the ring and with a timer, or was answered.
ReverseInv(s) ==
    /\ s.timers = s.pendingReverse
    /\ \A r \in s.pendingReverse : r \in s.arrived /\ s.answers[r] = 0 /\ \E i \in 1..Len(s.events) : s.events[i].about = r
    /\ \A r \in ReverseRequest : s.answers[r] = 0 \/ (s.answers[r] = 1 /\ r \in s.arrived)
    /\ s.closed => s.pendingReverse = {}
    /\ ~s.closed => \A r \in s.arrived : r \in s.pendingReverse \/ s.answers[r] = 1

CallInv(s) ==
    /\ s.pending = {c \in BridgeCall : s.outcome[c] = "waiting"}
    /\ s.closed => s.pending = {}

BridgeInv ==
    bridge \in BridgeType /\ RingInv(bridge) /\ CursorInv(bridge) /\ WaitInv(bridge) /\ ReverseInv(bridge) /\ CallInv(bridge)

\* All of it but what a reader waits for, which holds again when the waiters are settled.
BridgeBase(s) == s \in BridgeType /\ RingInv(s) /\ CursorInv(s) /\ ReverseInv(s) /\ CallInv(s)

\* What a reader gets is right, and it gets something if there is something.
LEMMA ReaderReads ==
    ASSUME NEW s \in BridgeType, RingInv(s), CursorInv(s), NEW k \in BridgeReader
    PROVE  /\ readBy(s, k).after[k] \in 0..MaxBridgeEvents /\ readBy(s, k).after[k] < s.sequence
           /\ readBy(s, k).misreported[k] = {}
           /\ readBy(s, k) = [s EXCEPT !.waiting = s.waiting \ {k}, !.after = [s.after EXCEPT ![k] = readBy(s, k).after[k]]]
           /\ readBy(s, k).after[k] = s.after[k] => \A i \in 1..Len(s.events) : s.events[i].sequence <= s.after[k]
<1> DEFINE n == Len(s.events)
           base == s.sequence - Len(s.events)
           batch == {e.sequence : e \in {e \in Range(s.events) : e.sequence > s.after[k]}}
           next == IF batch = {} THEN s.after[k] ELSE Last(s.events).sequence
           passed == s.after[k] + 1..next
<1>a. MaxBridgeEvents \in Nat BY BridgeAssumption
<1>1. n \in Nat /\ base \in Nat \ {0} /\ s.sequence \in Nat /\ s.sequence = base + n /\ s.sequence <= MaxBridgeEvents + 1 /\ base = s.sequence - n
  BY <1>a DEF BridgeType, RingInv
<1>2. \A i \in 1..n : s.events[i].sequence = base + (i - 1) BY DEF RingInv
<1>3. s.after[k] \in Nat /\ s.after[k] < s.sequence /\ s.misreported[k] = {} /\ s.after[k] \in 0..MaxBridgeEvents
  BY <1>a DEF BridgeType, CursorInv
<1>4. DOMAIN s.events = 1..n /\ s.events \in Seq(BridgeEvent) BY DEF BridgeType
<1>5. \A q : q \in batch <=> \E i \in 1..n : q = s.events[i].sequence /\ q > s.after[k]
  BY <1>4 DEF Range
<1>6. n > 0 => Last(s.events).sequence = s.sequence - 1 /\ Head(s.events).sequence = base /\ s.events # << >>
  <2>1. n > 0 => Last(s.events) = s.events[n] /\ Head(s.events) = s.events[1] /\ 1 \in 1..n /\ n \in 1..n /\ s.events # << >>
    BY <1>1, <1>4 DEF Last
  <2> HIDE DEF base, n
  <2> QED BY <1>1, <1>2, <2>1
<1> HIDE DEF n, base, batch
<1>7. batch # {} => n > 0 /\ s.after[k] < s.sequence - 1 BY <1>1, <1>2, <1>3, <1>5
<1>8. next \in Nat /\ next < s.sequence /\ next \in 0..MaxBridgeEvents /\ (next = s.after[k] => batch = {})
  BY <1>a, <1>1, <1>3, <1>6, <1>7
<1>9. droppedBefore(s) = IF n > 0 THEN base ELSE s.sequence BY <1>1, <1>4, <1>6 DEF droppedBefore, n
<1>10. \A q \in passed : q >= droppedBefore(s) => q \in batch
  <2> SUFFICES ASSUME NEW q \in passed, q >= droppedBefore(s) PROVE q \in batch
    OBVIOUS
  <2>1. batch # {} BY <1>3, <1>8
  <2>2. next = s.sequence - 1 /\ n > 0 BY <1>6, <1>7, <2>1
  <2>3. q \in Nat /\ q > s.after[k] /\ q <= s.sequence - 1 /\ q >= base BY <1>1, <1>3, <1>9, <2>2
  <2>4. (q - base) + 1 \in 1..n /\ q = base + (((q - base) + 1) - 1) BY <1>1, <2>3
  <2>5. s.events[(q - base) + 1].sequence = q BY <1>2, <2>4
  <2> QED BY <1>5, <2>3, <2>4, <2>5
<1>11. \A q \in batch : ~(q < droppedBefore(s))
  <2>1. batch # {} => droppedBefore(s) = base BY <1>7, <1>9
  <2>2. \A q \in batch : q >= base /\ q \in Nat BY <1>1, <1>2, <1>5
  <2> QED BY <1>1, <2>1, <2>2
<1>12. {q \in passed \ batch : q >= droppedBefore(s)} = {} /\ {q \in batch : q < droppedBefore(s)} = {}
  BY <1>10, <1>11
<1> HIDE DEF next, passed
<1>13. readBy(s, k) = [s EXCEPT !.waiting = @ \ {k}, !.after[k] = next, !.misreported[k] = @ \cup {} \cup {}]
  BY <1>12 DEF readBy, batch, next, passed
<1>14. readBy(s, k) = [s EXCEPT !.waiting = s.waiting \ {k}, !.after = [s.after EXCEPT ![k] = next]]
  <2>1. [s.misreported EXCEPT ![k] = @ \cup {} \cup {}] = s.misreported BY DEF BridgeType
  <2> QED BY <1>13, <2>1 DEF BridgeType
<1>15. readBy(s, k).after[k] = next /\ readBy(s, k).misreported[k] = s.misreported[k]
  BY <1>14 DEF BridgeType
<1>16. batch = {} => \A i \in 1..n : s.events[i].sequence <= s.after[k] BY <1>1, <1>2, <1>3, <1>5
<1> QED BY <1>3, <1>8, <1>14, <1>15, <1>16 DEF n

\* Several waiters are settled, each with what it reads.
LEMMA WaitersSettle ==
    ASSUME NEW s \in BridgeType, RingInv(s), CursorInv(s), NEW ks \in SUBSET BridgeReader
    PROVE  \E after \in [BridgeReader -> 0..MaxBridgeEvents] :
              /\ settledWaiters(s, ks) = [s EXCEPT !.waiting = s.waiting \ ks, !.after = after]
              /\ \A k \in BridgeReader : after[k] < s.sequence /\ (k \notin ks => after[k] = s.after[k])
<1> DEFINE after == [k \in BridgeReader |-> IF k \in ks THEN readBy(s, k).after[k] ELSE s.after[k]]
           told == [k \in BridgeReader |-> IF k \in ks THEN readBy(s, k).misreported[k] ELSE s.misreported[k]]
<1>1. s.after \in [BridgeReader -> 0..MaxBridgeEvents] /\ s.misreported \in [BridgeReader -> SUBSET (1..MaxBridgeEvents)]
  BY DEF BridgeType
<1>2. \A k \in BridgeReader : s.after[k] < s.sequence /\ s.misreported[k] = {} BY DEF CursorInv
<1>3. \A k \in BridgeReader : /\ readBy(s, k).after[k] \in 0..MaxBridgeEvents /\ readBy(s, k).after[k] < s.sequence
                             /\ readBy(s, k).misreported[k] = {}
  BY ReaderReads
<1>4. after \in [BridgeReader -> 0..MaxBridgeEvents] /\ \A k \in BridgeReader : after[k] < s.sequence /\ (k \notin ks => after[k] = s.after[k])
  BY <1>1, <1>2, <1>3
<1>5. told = s.misreported BY <1>1, <1>2, <1>3
<1>6. settledWaiters(s, ks) = [s EXCEPT !.waiting = s.waiting \ ks, !.after = after, !.misreported = told]
  BY DEF settledWaiters
<1>7. [s EXCEPT !.waiting = s.waiting \ ks, !.after = after, !.misreported = told] = [s EXCEPT !.waiting = s.waiting \ ks, !.after = after]
    <2> HIDE DEF after, told
    <2> QED BY <1>5 DEF BridgeType
<1> HIDE DEF after, told
<1> QED BY <1>4, <1>6, <1>7

LEMMA SettledHolds ==
    ASSUME NEW s, BridgeBase(s), NEW ks \in SUBSET BridgeReader, NEW t, t = settledWaiters(s, ks),
           \A k \in s.waiting : k \notin ks => s.closed = FALSE /\ \A i \in 1..Len(s.events) : s.events[i].sequence <= s.after[k]
    PROVE  t \in BridgeType /\ RingInv(t) /\ CursorInv(t) /\ WaitInv(t) /\ ReverseInv(t) /\ CallInv(t)
<1>a. MaxBridgeEvents \in Nat BY BridgeAssumption
<1>b. s \in BridgeType /\ RingInv(s) /\ CursorInv(s) /\ ReverseInv(s) /\ CallInv(s)
  BY DEF BridgeBase
<1>0. \E after \in [BridgeReader -> 0..MaxBridgeEvents] :
        /\ settledWaiters(s, ks) = [s EXCEPT !.waiting = s.waiting \ ks, !.after = after]
        /\ \A k \in BridgeReader : after[k] < s.sequence /\ (k \notin ks => after[k] = s.after[k])
  BY <1>b, WaitersSettle, Zenon
<1>1. PICK after1 \in [BridgeReader -> 0..MaxBridgeEvents] :
        /\ t = [s EXCEPT !.waiting = s.waiting \ ks, !.after = after1]
        /\ \A k \in BridgeReader : after1[k] < s.sequence /\ (k \notin ks => after1[k] = s.after[k])
  BY <1>0
<1>2. t \in BridgeType BY <1>1, <1>b DEF BridgeType
<1>3. /\ t.policy = s.policy /\ t.link = s.link /\ t.closed = s.closed /\ t.events = s.events
      /\ t.sequence = s.sequence /\ t.arrived = s.arrived
      /\ t.pendingReverse = s.pendingReverse /\ t.timers = s.timers /\ t.writing = s.writing
      /\ t.answers = s.answers /\ t.pending = s.pending /\ t.outcome = s.outcome
      /\ t.waiting = s.waiting \ ks /\ t.after = after1 /\ t.misreported = s.misreported
  BY <1>1, <1>b DEF BridgeType
<1>4. RingInv(t) /\ CallInv(t) BY <1>3, <1>b DEF RingInv, CallInv
<1>5. ReverseInv(t) BY <1>3, <1>b DEF ReverseInv
<1>6. CursorInv(t) BY <1>1, <1>3, <1>b DEF CursorInv
<1>7. WaitInv(t) BY <1>1, <1>3, <1>b DEF WaitInv, BridgeType
<1> QED BY <1>2, <1>4, <1>5, <1>6, <1>7

\* The end of the peer.
LEMMA FinishHolds ==
    ASSUME NEW s, BridgeBase(s), WaitInv(s), NEW t, t = finishedPeer(s)
    PROVE  /\ t \in BridgeType /\ RingInv(t) /\ CursorInv(t) /\ WaitInv(t) /\ ReverseInv(t) /\ CallInv(t)
           /\ t.closed = TRUE /\ t.answers = s.answers /\ t.arrived = s.arrived
<1>a. MaxBridgeEvents \in Nat BY BridgeAssumption
<1>b. s \in BridgeType /\ RingInv(s) /\ CursorInv(s) /\ ReverseInv(s) /\ CallInv(s) /\ s.closed \in BOOLEAN
  BY DEF BridgeBase, BridgeType
<1>1. CASE s.closed = TRUE BY <1>1, <1>b DEF finishedPeer
<1>2. CASE s.closed = FALSE
  <2> DEFINE outcome1 == [c \in BridgeCall |-> IF c \in s.pending THEN "settled" ELSE s.outcome[c]]
             u == [s EXCEPT !.closed = TRUE, !.pendingReverse = {}, !.timers = {}, !.pending = {}, !.outcome = outcome1]
  <2>1. t = settledWaiters(u, s.waiting) BY <1>2 DEF finishedPeer
  <2>2. outcome1 \in [BridgeCall -> {"none", "waiting", "settled"}] /\ \A c \in BridgeCall : outcome1[c] # "waiting"
    BY <1>b DEF BridgeType, CallInv
  <2> HIDE DEF outcome1
  <2>3. u \in BridgeType BY <1>b, <2>2 DEF BridgeType
  <2>4. /\ u.policy = s.policy /\ u.link = s.link /\ u.closed = TRUE /\ u.events = s.events
        /\ u.sequence = s.sequence /\ u.arrived = s.arrived /\ u.pendingReverse = {}
        /\ u.timers = {} /\ u.writing = s.writing /\ u.answers = s.answers /\ u.pending = {}
        /\ u.outcome = outcome1 /\ u.waiting = s.waiting /\ u.after = s.after
        /\ u.misreported = s.misreported
    BY <1>b DEF BridgeType
  <2> HIDE DEF u
  <2>5. RingInv(u) /\ CursorInv(u) BY <1>b, <2>4 DEF RingInv, CursorInv
  <2>6. ReverseInv(u) BY <1>b, <2>4 DEF ReverseInv
  <2>7. CallInv(u) BY <2>2, <2>4 DEF CallInv
  <2>8. BridgeBase(u) /\ s.waiting \in SUBSET BridgeReader
    BY <1>b, <2>3, <2>5, <2>6, <2>7 DEF BridgeBase, BridgeType
  <2>9. t \in BridgeType /\ RingInv(t) /\ CursorInv(t) /\ WaitInv(t) /\ ReverseInv(t) /\ CallInv(t)
    BY <2>1, <2>4, <2>8, SettledHolds
  <2>10. t.closed = TRUE /\ t.answers = s.answers /\ t.arrived = s.arrived
    <3>0. \E after \in [BridgeReader -> 0..MaxBridgeEvents] :
            /\ settledWaiters(u, s.waiting) = [u EXCEPT !.waiting = u.waiting \ s.waiting, !.after = after]
            /\ \A k \in BridgeReader : after[k] < u.sequence /\ (k \notin s.waiting => after[k] = u.after[k])
      BY <2>3, <2>5, <2>8, WaitersSettle, Zenon
    <3>1. PICK after1 \in [BridgeReader -> 0..MaxBridgeEvents] : t = [u EXCEPT !.waiting = u.waiting \ s.waiting, !.after = after1]
      BY <2>1, <3>0
    <3> QED BY <2>3, <2>4, <3>1 DEF BridgeType
  <2> QED BY <2>9, <2>10
<1> QED BY <1>b, <1>1, <1>2

\* A request is answered.
LEMMA RequestAnswered ==
    ASSUME NEW s \in BridgeType, ReverseInv(s), NEW r \in ReverseRequest, s.answers[r] = 0, NEW t,
           t.timers = s.timers \ {r}, t.pendingReverse = s.pendingReverse \ {r}, t.arrived = s.arrived \cup {r},
           t.answers = [s.answers EXCEPT ![r] = s.answers[r] + 1], t.events = s.events, t.closed = s.closed
    PROVE  ReverseInv(t)
<1>1. t.answers[r] = 1 /\ \A q \in ReverseRequest : q # r => t.answers[q] = s.answers[q]
  BY DEF BridgeType
<1>2. \A q \in s.pendingReverse : q \in ReverseRequest BY DEF BridgeType
<1>3. \A q \in t.pendingReverse : q \in t.arrived /\ t.answers[q] = 0 /\ \E i \in 1..Len(t.events) : t.events[i].about = q
  BY <1>1, <1>2 DEF ReverseInv
<1>4. \A q \in ReverseRequest : t.answers[q] = 0 \/ (t.answers[q] = 1 /\ q \in t.arrived)
  BY <1>1 DEF ReverseInv
<1>5. ~t.closed => \A q \in t.arrived : q \in t.pendingReverse \/ t.answers[q] = 1
    <2>1. \A q \in s.arrived : q \in ReverseRequest BY DEF BridgeType
    <2> QED BY <1>1, <2>1 DEF ReverseInv
<1> QED BY <1>3, <1>4, <1>5 DEF ReverseInv

\* The oldest event is dropped, and the request it was about answered.
LEMMA RingDrops ==
    ASSUME NEW s, BridgeBase(s), s.closed = FALSE, NEW t, t = overflowed(s)
    PROVE  BridgeBase(t) /\ t.closed = FALSE /\ t.waiting = s.waiting
<1>a. MaxBridgeEvents \in Nat /\ EventLimit \in Nat BY BridgeAssumption
<1>b. s \in BridgeType /\ RingInv(s) /\ CursorInv(s) /\ ReverseInv(s) /\ CallInv(s)
  BY DEF BridgeBase
<1>1. CASE Len(s.events) <= EventLimit BY <1>1 DEF overflowed
<1>2. CASE ~(Len(s.events) <= EventLimit)
  <2> DEFINE r == Head(s.events).about
             events1 == Tail(s.events)
  <2>1. s.events \in Seq(BridgeEvent) /\ Len(s.events) \in Nat /\ Len(s.events) > 0 /\ s.events # << >>
    <3>1. s.events \in Seq(BridgeEvent) BY <1>b DEF BridgeType
    <3>2. Len(s.events) \in Nat /\ (Len(s.events) > 0 => s.events # << >>) BY <3>1
    <3> QED BY <1>a, <1>2, <3>1, <3>2
  <2>2. /\ events1 \in Seq(BridgeEvent) /\ Len(events1) = Len(s.events) - 1
        /\ r = s.events[1].about /\ \A i \in 1..Len(events1) : events1[i] = s.events[i + 1]
    BY <2>1
  <2> HIDE DEF events1, r
  <2>3. Len(events1) \in Nat /\ \A i \in 1..Len(s.events) : i # 1 => i - 1 \in 1..Len(events1) /\ events1[i - 1] = s.events[i]
    <3>1. Len(events1) \in Nat BY <2>1, <2>2
    <3>2. \A i \in 1..Len(s.events) : i # 1 => i - 1 \in 1..Len(events1) /\ (i - 1) + 1 = i
      BY <2>1, <2>2
    <3> QED BY <2>2, <3>1, <3>2
  <2>4. Len(events1) < s.sequence /\ \A i \in 1..Len(events1) : events1[i].sequence = (s.sequence - Len(events1)) + (i - 1)
    <3>1. s.sequence \in Nat /\ Len(s.events) < s.sequence BY <1>a, <1>b DEF BridgeType, RingInv
    <3>2. \A i \in 1..Len(events1) : i + 1 \in 1..Len(s.events) /\ i \in Nat BY <2>1, <2>2
    <3>3. \A i \in 1..Len(events1) : events1[i].sequence = (s.sequence - Len(s.events)) + ((i + 1) - 1)
      BY <1>b, <2>2, <3>2 DEF RingInv
    <3> QED BY <2>1, <2>2, <3>1, <3>2, <3>3
  <2>5. \A q \in s.pendingReverse : q # r => \E i \in 1..Len(events1) : events1[i].about = q
    <3> SUFFICES ASSUME NEW q \in s.pendingReverse, q # r PROVE \E i \in 1..Len(events1) : events1[i].about = q
      OBVIOUS
    <3>1. PICK i \in 1..Len(s.events) : s.events[i].about = q BY <1>b DEF ReverseInv
    <3>2. i # 1 BY <2>2, <3>1
    <3> QED BY <2>3, <3>1, <3>2
  <2>6. CASE r \in s.pendingReverse
    <3> DEFINE pendingReverse1 == s.pendingReverse \ {r}
               timers1 == s.timers \ {r}
               answers1 == [s.answers EXCEPT ![r] = s.answers[r] + 1]
               writing1 == s.writing \cup {r}
    <3>1. t = [s EXCEPT !.events = events1, !.pendingReverse = pendingReverse1, !.timers = timers1,
               !.answers = answers1, !.writing = writing1]
      BY <1>2, <1>b, <2>6 DEF overflowed, refusedReverse, BridgeType, events1, r
    <3>2. /\ events1 \in Seq(BridgeEvent) /\ pendingReverse1 \in SUBSET ReverseRequest
          /\ timers1 \in SUBSET ReverseRequest /\ answers1 \in [ReverseRequest -> Nat]
          /\ writing1 \in SUBSET ReverseRequest
      BY <2>2, <2>6, <1>a, <1>b DEF BridgeType, overflowed, refusedReverse
    <3> HIDE DEF pendingReverse1, timers1, answers1, writing1
    <3>3. t \in BridgeType BY <3>1, <3>2, <1>a, <1>b, ZenonT(60) DEF BridgeType
    <3>4. /\ t.policy = s.policy /\ t.link = s.link /\ t.closed = s.closed
          /\ t.events = events1 /\ t.sequence = s.sequence /\ t.arrived = s.arrived
          /\ t.pendingReverse = pendingReverse1 /\ t.timers = timers1 /\ t.writing = writing1
          /\ t.answers = answers1 /\ t.pending = s.pending /\ t.outcome = s.outcome
          /\ t.waiting = s.waiting /\ t.after = s.after /\ t.misreported = s.misreported
      BY <3>1, <3>2, <1>b DEF BridgeType
    <3>5. r \in ReverseRequest /\ s.answers[r] = 0 /\ r \in s.arrived
      BY <1>b, <2>6 DEF BridgeType, ReverseInv
    <3>6. answers1[r] = 1 /\ \A q \in ReverseRequest : q # r => answers1[q] = s.answers[q]
      BY <1>b, <3>5 DEF answers1, BridgeType
    <3>7. \A q \in s.arrived : q \in ReverseRequest BY <1>b DEF BridgeType
    <3>8. RingInv(t) BY <2>4, <3>4 DEF RingInv
    <3>9. CursorInv(t) BY <1>b, <3>4 DEF CursorInv
    <3>10. ReverseInv(t)
        <4>1. \A q \in pendingReverse1 : q \in s.arrived /\ answers1[q] = 0 /\ \E i \in 1..Len(events1) : events1[i].about = q
          BY <1>b, <2>5, <3>6 DEF pendingReverse1, ReverseInv, BridgeType
        <4>2. \A q \in ReverseRequest : answers1[q] = 0 \/ (answers1[q] = 1 /\ q \in s.arrived)
          BY <1>b, <3>5, <3>6 DEF ReverseInv
        <4>3. \A q \in s.arrived : q \in pendingReverse1 \/ answers1[q] = 1
          BY <1>b, <3>6, <3>7 DEF ReverseInv, pendingReverse1
        <4>4. timers1 = pendingReverse1 BY <1>b DEF ReverseInv, timers1, pendingReverse1
        <4> QED BY <3>4, <4>1, <4>2, <4>3, <4>4 DEF ReverseInv
    <3>11. CallInv(t) BY <1>b, <3>4 DEF CallInv
    <3> QED BY <3>3, <3>8, <3>9, <3>10, <3>11, <3>4 DEF BridgeBase
  <2>7. CASE r \notin s.pendingReverse
    <3>1. t = [s EXCEPT !.events = events1]
      BY <1>2, <1>b, <2>7 DEF overflowed, BridgeType, events1, r
    <3>2. events1 \in Seq(BridgeEvent) BY <2>2, <2>7, <1>a, <1>b DEF BridgeType, overflowed
    <3>3. t \in BridgeType BY <3>1, <3>2, <1>a, <1>b DEF BridgeType
    <3>4. /\ t.policy = s.policy /\ t.link = s.link /\ t.closed = s.closed
          /\ t.events = events1 /\ t.sequence = s.sequence /\ t.arrived = s.arrived
          /\ t.pendingReverse = s.pendingReverse /\ t.timers = s.timers /\ t.writing = s.writing
          /\ t.answers = s.answers /\ t.pending = s.pending /\ t.outcome = s.outcome
          /\ t.waiting = s.waiting /\ t.after = s.after /\ t.misreported = s.misreported
      BY <3>1, <3>2, <1>b DEF BridgeType
    <3>5. RingInv(t) BY <2>4, <3>4 DEF RingInv
    <3>6. CursorInv(t) BY <1>b, <3>4 DEF CursorInv
    <3>7. ReverseInv(t)
        <4>1. \A q \in s.pendingReverse : \E i \in 1..Len(events1) : events1[i].about = q
          BY <2>5, <2>7
        <4> QED BY <1>b, <3>4, <4>1 DEF ReverseInv
    <3>8. CallInv(t) BY <1>b, <3>4 DEF CallInv
    <3> QED BY <3>3, <3>5, <3>6, <3>7, <3>8, <3>4 DEF BridgeBase
  <2> QED BY <2>6, <2>7
<1> QED BY <1>1, <1>2

\* An event comes; the request it is about may have been kept just now.
LEMMA EventAppended ==
    ASSUME NEW s \in BridgeType, RingInv(s), CursorInv(s), CallInv(s), s.closed = FALSE, s.sequence <= MaxBridgeEvents,
           NEW about \in ReverseRequest \cup {Notified}, s.timers = s.pendingReverse,
           \A r \in s.pendingReverse : /\ r \in s.arrived /\ s.answers[r] = 0
                                       /\ (r = about \/ \E i \in 1..Len(s.events) : s.events[i].about = r),
           \A r \in ReverseRequest : s.answers[r] = 0 \/ (s.answers[r] = 1 /\ r \in s.arrived),
           \A r \in s.arrived : r \in s.pendingReverse \/ s.answers[r] = 1,
           NEW t, t = appended(s, about)
    PROVE  t \in BridgeType /\ RingInv(t) /\ CursorInv(t) /\ WaitInv(t) /\ ReverseInv(t) /\ CallInv(t)
<1>a. MaxBridgeEvents \in Nat BY BridgeAssumption
<1> DEFINE events1 == Append(s.events, [sequence |-> s.sequence, about |-> about])
           sequence1 == s.sequence + 1
           u == [s EXCEPT !.events = events1, !.sequence = sequence1]
           v == overflowed(u)
           ks == {k \in s.waiting : s.sequence > s.after[k]}
<1>1. s.events \in Seq(BridgeEvent) /\ Len(s.events) \in Nat /\ s.sequence \in Nat \ {0} /\ [sequence |-> s.sequence, about |-> about] \in BridgeEvent
  BY <1>a DEF BridgeType, BridgeEvent
<1>2. /\ events1 \in Seq(BridgeEvent) /\ Len(events1) = Len(s.events) + 1 /\ sequence1 \in 1..MaxBridgeEvents + 1 /\ sequence1 = s.sequence + 1
      /\ events1[Len(s.events) + 1] = [sequence |-> s.sequence, about |-> about]
      /\ \A i \in 1..Len(s.events) : events1[i] = s.events[i]
  BY <1>a, <1>1
<1>3. t = settledWaiters(v, ks) BY DEF appended
<1> HIDE DEF events1, sequence1
<1>4. u \in BridgeType BY <1>2 DEF BridgeType
<1>5. /\ u.policy = s.policy /\ u.link = s.link /\ u.closed = s.closed /\ u.events = events1
      /\ u.sequence = sequence1 /\ u.arrived = s.arrived /\ u.pendingReverse = s.pendingReverse
      /\ u.timers = s.timers /\ u.writing = s.writing /\ u.answers = s.answers
      /\ u.pending = s.pending /\ u.outcome = s.outcome /\ u.waiting = s.waiting
      /\ u.after = s.after /\ u.misreported = s.misreported
  BY DEF BridgeType
<1> HIDE DEF u
<1>6. \A i \in 1..Len(events1) : i = Len(s.events) + 1 \/ i \in 1..Len(s.events) BY <1>1, <1>2
<1>7. RingInv(u)
  <2>1. Len(events1) < sequence1 /\ sequence1 - Len(events1) = s.sequence - Len(s.events)
    BY <1>1, <1>2 DEF RingInv
  <2>2. events1[Len(s.events) + 1].sequence = (s.sequence - Len(s.events)) + ((Len(s.events) + 1) - 1)
    BY <1>1, <1>2
  <2>3. \A i \in 1..Len(s.events) : events1[i].sequence = (s.sequence - Len(s.events)) + (i - 1)
    BY <1>2 DEF RingInv
  <2> QED BY <1>5, <1>6, <2>1, <2>2, <2>3 DEF RingInv
<1>8. CursorInv(u)
  <2>1. \A k \in BridgeReader : s.after[k] < sequence1 BY <1>a, <1>1, <1>2 DEF CursorInv, BridgeType
  <2> QED BY <1>5, <2>1 DEF CursorInv
<1>9. CallInv(u) BY <1>5 DEF CallInv
<1>10. ReverseInv(u)
  <2>1. Len(s.events) + 1 \in 1..Len(events1) /\ events1[Len(s.events) + 1].about = about /\ \A i \in 1..Len(s.events) : i \in 1..Len(events1)
    BY <1>1, <1>2
  <2>2. \A r \in s.pendingReverse : \E i \in 1..Len(events1) : events1[i].about = r BY <1>2, <2>1
  <2>3. \A r \in s.pendingReverse : r \in s.arrived /\ s.answers[r] = 0 OBVIOUS
  <2> QED BY <1>5, <2>2, <2>3 DEF ReverseInv
<1>11. BridgeBase(u) /\ u.closed = FALSE BY <1>4, <1>5, <1>7, <1>8, <1>9, <1>10 DEF BridgeBase
<1>12. BridgeBase(v) /\ v.waiting = s.waiting
  <2>1. BridgeBase(v) /\ v.closed = FALSE /\ v.waiting = u.waiting BY <1>11, RingDrops
  <2> QED BY <1>5, <2>1
<1>13. ks = s.waiting /\ ks \in SUBSET BridgeReader
  <2>1. \A k \in s.waiting : k \in BridgeReader /\ s.after[k] \in Nat BY <1>a DEF BridgeType
  <2> QED BY <1>1, <2>1 DEF CursorInv
<1> HIDE DEF v, ks
<1> QED BY <1>3, <1>12, <1>13, SettledHolds

LEMMA BridgeInitial == BridgeInit => BridgeInv
<1> SUFFICES ASSUME BridgeInit PROVE BridgeInv
  OBVIOUS
<1>a. MaxBridgeEvents \in Nat BY BridgeAssumption
<1>1. bridge \in BridgeType BY <1>a DEF BridgeInit, BridgeType
<1>2. /\ bridge.events = << >> /\ bridge.sequence = 1 /\ bridge.arrived = {} /\ bridge.pendingReverse = {} /\ bridge.timers = {}
      /\ bridge.pending = {} /\ bridge.waiting = {} /\ bridge.answers = [r \in ReverseRequest |-> 0]
      /\ bridge.outcome = [c \in BridgeCall |-> "none"] /\ bridge.after = [k \in BridgeReader |-> 0]
      /\ bridge.misreported = [k \in BridgeReader |-> {}]
  BY DEF BridgeInit
<1>3. RingInv(bridge) /\ WaitInv(bridge) BY <1>2 DEF RingInv, WaitInv
<1>4. CursorInv(bridge) BY <1>2 DEF CursorInv
<1>5. ReverseInv(bridge) BY <1>2 DEF ReverseInv
<1>6. CallInv(bridge) BY <1>2 DEF CallInv
<1> QED BY <1>1, <1>3, <1>4, <1>5, <1>6 DEF BridgeInv

LEMMA BridgeStep ==
    ASSUME BridgeInv, [BridgeNext]_bridge
    PROVE  BridgeInv'
<1>a. MaxBridgeEvents \in Nat BY BridgeAssumption
<1>b. /\ bridge \in BridgeType /\ RingInv(bridge) /\ CursorInv(bridge) /\ WaitInv(bridge) /\ ReverseInv(bridge) /\ CallInv(bridge)
  BY DEF BridgeInv
<1>c. bridge.closed \in BOOLEAN /\ BridgeBase(bridge) BY <1>b DEF BridgeType, BridgeBase
<1>s. SUFFICES bridge' \in BridgeType /\ RingInv(bridge') /\ CursorInv(bridge') /\ WaitInv(bridge') /\ ReverseInv(bridge') /\ CallInv(bridge')
  BY DEF BridgeInv
<1>1. CASE UNCHANGED bridge BY <1>1, <1>b
<1>2. ASSUME NEW k \in BridgeReader, ReadEvents(k)
      PROVE  bridge' \in BridgeType /\ RingInv(bridge') /\ CursorInv(bridge') /\ WaitInv(bridge') /\ ReverseInv(bridge') /\ CallInv(bridge')
  <2> DEFINE s == readBy(bridge, k)
             next == s.after[k]
  <2>1. /\ next \in 0..MaxBridgeEvents /\ next < bridge.sequence /\ next = s.after[k]
        /\ s = [bridge EXCEPT !.waiting = bridge.waiting \ {k}, !.after = [bridge.after EXCEPT ![k] = next]]
        /\ next = bridge.after[k] => \A i \in 1..Len(bridge.events) : bridge.events[i].sequence <= bridge.after[k]
    BY <1>b, ReaderReads
  <2>2. k \notin bridge.waiting /\ bridge' = IF next # bridge.after[k] \/ bridge.closed THEN s ELSE [bridge EXCEPT !.waiting = bridge.waiting \cup {k}]
    BY <1>2 DEF ReadEvents
  <2> HIDE DEF s, next
  <2>3. CASE next # bridge.after[k] \/ bridge.closed
    <3> DEFINE waiting1 == bridge.waiting \ {k}
               after1 == [bridge.after EXCEPT ![k] = next]
    <3>1. bridge' = [bridge EXCEPT !.waiting = waiting1, !.after = after1] BY <2>1, <2>2, <2>3
    <3>2. /\ waiting1 \in SUBSET BridgeReader
          /\ after1 \in [BridgeReader -> 0..MaxBridgeEvents]
      BY <2>1, <1>a, <1>b DEF BridgeType, ReadEvents
    <3> HIDE DEF waiting1, after1
    <3>3. bridge' \in BridgeType BY <3>1, <3>2, <1>a, <1>b DEF BridgeType
    <3>4. /\ bridge'.policy = bridge.policy /\ bridge'.link = bridge.link
          /\ bridge'.closed = bridge.closed /\ bridge'.events = bridge.events
          /\ bridge'.sequence = bridge.sequence /\ bridge'.arrived = bridge.arrived
          /\ bridge'.pendingReverse = bridge.pendingReverse /\ bridge'.timers = bridge.timers
          /\ bridge'.writing = bridge.writing /\ bridge'.answers = bridge.answers
          /\ bridge'.pending = bridge.pending /\ bridge'.outcome = bridge.outcome
          /\ bridge'.waiting = waiting1 /\ bridge'.after = after1
          /\ bridge'.misreported = bridge.misreported
      BY <3>1, <3>2, <1>b DEF BridgeType
    <3>5. after1[k] = next /\ \A j \in BridgeReader : j # k => after1[j] = bridge.after[j]
      BY <1>b DEF after1, BridgeType
    <3>6. RingInv(bridge') BY <1>b, <3>4 DEF RingInv
    <3>7. CursorInv(bridge') BY <1>b, <2>1, <3>4, <3>5 DEF CursorInv
    <3>8. WaitInv(bridge') BY <1>b, <3>4, <3>5 DEF WaitInv, waiting1, BridgeType
    <3>9. ReverseInv(bridge') BY <1>b, <3>4 DEF ReverseInv
    <3>10. CallInv(bridge') BY <1>b, <3>4 DEF CallInv
    <3> QED BY <3>3, <3>6, <3>7, <3>8, <3>9, <3>10
  <2>4. CASE ~(next # bridge.after[k] \/ bridge.closed)
    <3> DEFINE waiting1 == bridge.waiting \cup {k}
    <3>1. bridge' = [bridge EXCEPT !.waiting = waiting1] BY <2>2, <2>4
    <3>2. waiting1 \in SUBSET BridgeReader BY <2>4, <1>a, <1>b DEF BridgeType, ReadEvents
    <3> HIDE DEF waiting1
    <3>3. bridge' \in BridgeType BY <3>1, <3>2, <1>a, <1>b DEF BridgeType
    <3>4. /\ bridge'.policy = bridge.policy /\ bridge'.link = bridge.link
          /\ bridge'.closed = bridge.closed /\ bridge'.events = bridge.events
          /\ bridge'.sequence = bridge.sequence /\ bridge'.arrived = bridge.arrived
          /\ bridge'.pendingReverse = bridge.pendingReverse /\ bridge'.timers = bridge.timers
          /\ bridge'.writing = bridge.writing /\ bridge'.answers = bridge.answers
          /\ bridge'.pending = bridge.pending /\ bridge'.outcome = bridge.outcome
          /\ bridge'.waiting = waiting1 /\ bridge'.after = bridge.after
          /\ bridge'.misreported = bridge.misreported
      BY <3>1, <3>2, <1>b DEF BridgeType
    <3>5. RingInv(bridge') BY <1>b, <3>4 DEF RingInv
    <3>6. CursorInv(bridge') BY <1>b, <3>4 DEF CursorInv
    <3>7. WaitInv(bridge')
        <4>1. bridge.closed = FALSE /\ \A i \in 1..Len(bridge.events) : bridge.events[i].sequence <= bridge.after[k]
          BY <1>c, <2>1, <2>4
        <4> QED BY <1>b, <3>4, <4>1 DEF WaitInv, waiting1
    <3>8. ReverseInv(bridge') BY <1>b, <3>4 DEF ReverseInv
    <3>9. CallInv(bridge') BY <1>b, <3>4 DEF CallInv
    <3> QED BY <3>3, <3>5, <3>6, <3>7, <3>8, <3>9
  <2> QED BY <2>3, <2>4
<1>3. ASSUME NEW k \in BridgeReader, WaitOver(k)
      PROVE  bridge' \in BridgeType /\ RingInv(bridge') /\ CursorInv(bridge') /\ WaitInv(bridge') /\ ReverseInv(bridge') /\ CallInv(bridge')
  <2>1. bridge' = settledWaiters(bridge, {k}) /\ {k} \in SUBSET BridgeReader BY <1>3 DEF WaitOver
  <2> QED BY <1>b, <1>c, <2>1, SettledHolds DEF WaitInv
<1>4. ASSUME NEW r \in ReverseRequest, AnswerWritten(r)
      PROVE  bridge' \in BridgeType /\ RingInv(bridge') /\ CursorInv(bridge') /\ WaitInv(bridge') /\ ReverseInv(bridge') /\ CallInv(bridge')
  <2> DEFINE writing1 == bridge.writing \ {r}
  <2>1. bridge' = [bridge EXCEPT !.writing = writing1] BY <1>4, <1>b DEF AnswerWritten, BridgeType
  <2>2. writing1 \in SUBSET ReverseRequest BY <1>4, <1>a, <1>b DEF BridgeType, AnswerWritten
  <2> HIDE DEF writing1
  <2>3. bridge' \in BridgeType BY <2>1, <2>2, <1>a, <1>b DEF BridgeType
  <2>4. /\ bridge'.policy = bridge.policy /\ bridge'.link = bridge.link
        /\ bridge'.closed = bridge.closed /\ bridge'.events = bridge.events
        /\ bridge'.sequence = bridge.sequence /\ bridge'.arrived = bridge.arrived
        /\ bridge'.pendingReverse = bridge.pendingReverse /\ bridge'.timers = bridge.timers
        /\ bridge'.writing = writing1 /\ bridge'.answers = bridge.answers
        /\ bridge'.pending = bridge.pending /\ bridge'.outcome = bridge.outcome
        /\ bridge'.waiting = bridge.waiting /\ bridge'.after = bridge.after
        /\ bridge'.misreported = bridge.misreported
    BY <2>1, <2>2, <1>b DEF BridgeType
  <2>5. RingInv(bridge') BY <1>b, <2>4 DEF RingInv
  <2>6. CursorInv(bridge') BY <1>b, <2>4 DEF CursorInv
  <2>7. WaitInv(bridge') BY <1>b, <2>4 DEF WaitInv
  <2>8. ReverseInv(bridge') BY <1>b, <2>4 DEF ReverseInv
  <2>9. CallInv(bridge') BY <1>b, <2>4 DEF CallInv
  <2> QED BY <2>3, <2>5, <2>6, <2>7, <2>8, <2>9
<1>5. ASSUME NEW r \in ReverseRequest, AnswerFails(r)
      PROVE  bridge' \in BridgeType /\ RingInv(bridge') /\ CursorInv(bridge') /\ WaitInv(bridge') /\ ReverseInv(bridge') /\ CallInv(bridge')
  <2> DEFINE s == [bridge EXCEPT !.writing = @ \ {r}]
  <2>1. s \in BridgeType /\ s.policy = bridge.policy /\ s.link = bridge.link
           /\ s.closed = bridge.closed /\ s.events = bridge.events
           /\ s.sequence = bridge.sequence /\ s.arrived = bridge.arrived
           /\ s.pendingReverse = bridge.pendingReverse /\ s.timers = bridge.timers
           /\ s.writing = bridge.writing \ {r} /\ s.answers = bridge.answers
           /\ s.pending = bridge.pending /\ s.outcome = bridge.outcome
           /\ s.waiting = bridge.waiting /\ s.after = bridge.after
           /\ s.misreported = bridge.misreported
    BY <1>b DEF BridgeType
  <2>2. bridge' = finishedPeer(s) BY <1>5 DEF AnswerFails
  <2> HIDE DEF s
  <2>3. RingInv(s) /\ CursorInv(s) /\ CallInv(s) BY <1>b, <2>1 DEF RingInv, CursorInv, CallInv
  <2>4. ReverseInv(s) /\ WaitInv(s) BY <1>b, <2>1 DEF ReverseInv, WaitInv
  <2>5. BridgeBase(s) BY <2>1, <2>3, <2>4 DEF BridgeBase
  <2> QED BY <2>2, <2>4, <2>5, FinishHolds
<1>6. CASE LinkFails
  <2>1. bridge' = [bridge EXCEPT !.link = "closed"] BY <1>6, <1>b DEF LinkFails, BridgeType
  <2>2. "closed" \in {"open", "closing", "closed"} BY <1>6, <1>a, <1>b DEF BridgeType, LinkFails
  <2>3. bridge' \in BridgeType BY <2>1, <2>2, <1>a, <1>b DEF BridgeType
  <2>4. /\ bridge'.policy = bridge.policy /\ bridge'.link = "closed"
        /\ bridge'.closed = bridge.closed /\ bridge'.events = bridge.events
        /\ bridge'.sequence = bridge.sequence /\ bridge'.arrived = bridge.arrived
        /\ bridge'.pendingReverse = bridge.pendingReverse /\ bridge'.timers = bridge.timers
        /\ bridge'.writing = bridge.writing /\ bridge'.answers = bridge.answers
        /\ bridge'.pending = bridge.pending /\ bridge'.outcome = bridge.outcome
        /\ bridge'.waiting = bridge.waiting /\ bridge'.after = bridge.after
        /\ bridge'.misreported = bridge.misreported
    BY <2>1, <2>2, <1>b DEF BridgeType
  <2>5. RingInv(bridge') BY <1>b, <2>4 DEF RingInv
  <2>6. CursorInv(bridge') BY <1>b, <2>4 DEF CursorInv
  <2>7. WaitInv(bridge') BY <1>b, <2>4 DEF WaitInv
  <2>8. ReverseInv(bridge') BY <1>b, <2>4 DEF ReverseInv
  <2>9. CallInv(bridge') BY <1>b, <2>4 DEF CallInv
  <2> QED BY <2>3, <2>5, <2>6, <2>7, <2>8, <2>9
<1>7. CASE LinkCloseReported
  <2>1. bridge' = finishedPeer(bridge) BY <1>7 DEF LinkCloseReported
  <2> QED BY <1>b, <1>c, <2>1, FinishHolds
<1>8. CASE ClosePeer
  <2> DEFINE s == finishedPeer(bridge)
             kept == bridge.pendingReverse
             link1 == IF s.link = "open" THEN "closing" ELSE s.link
             answers1 == [r \in ReverseRequest |-> IF r \in kept THEN bridge.answers[r] + 1 ELSE bridge.answers[r]]
  <2>1. /\ s \in BridgeType /\ RingInv(s) /\ CursorInv(s) /\ WaitInv(s) /\ ReverseInv(s) /\ CallInv(s)
        /\ s.closed = TRUE /\ s.answers = bridge.answers /\ s.arrived = bridge.arrived
    BY <1>b, <1>c, FinishHolds
  <2>2. bridge' = [s EXCEPT !.link = link1, !.answers = answers1] BY <1>8, <2>1 DEF ClosePeer
  <2>3. link1 \in {"open", "closing", "closed"} /\ answers1 \in [ReverseRequest -> Nat]
    BY <1>b, <2>1 DEF BridgeType
  <2>4. \A r \in ReverseRequest : answers1[r] = 0 \/ (answers1[r] = 1 /\ r \in bridge.arrived)
    BY <1>b DEF ReverseInv
  <2> HIDE DEF s, link1, answers1
  <2>5. bridge' \in BridgeType BY <2>1, <2>2, <2>3 DEF BridgeType
  <2>6. /\ bridge'.policy = s.policy /\ bridge'.link = link1 /\ bridge'.closed = s.closed
        /\ bridge'.events = s.events /\ bridge'.sequence = s.sequence
        /\ bridge'.arrived = s.arrived /\ bridge'.pendingReverse = s.pendingReverse
        /\ bridge'.timers = s.timers /\ bridge'.writing = s.writing /\ bridge'.answers = answers1
        /\ bridge'.pending = s.pending /\ bridge'.outcome = s.outcome
        /\ bridge'.waiting = s.waiting /\ bridge'.after = s.after
        /\ bridge'.misreported = s.misreported
    BY <2>1, <2>2 DEF BridgeType
  <2>7. RingInv(bridge') /\ CursorInv(bridge') /\ CallInv(bridge')
    BY <2>1, <2>6 DEF RingInv, CursorInv, CallInv
  <2>8. WaitInv(bridge') BY <2>1, <2>6 DEF WaitInv
  <2>9. ReverseInv(bridge') BY <2>1, <2>4, <2>6 DEF ReverseInv
  <2> QED BY <2>5, <2>7, <2>8, <2>9
<1>9. CASE ClosePeerEnds
  <2>1. bridge' = [bridge EXCEPT !.link = "closed"] BY <1>9, <1>b DEF ClosePeerEnds, BridgeType
  <2>2. "closed" \in {"open", "closing", "closed"} BY <1>9, <1>a, <1>b DEF BridgeType, ClosePeerEnds
  <2>3. bridge' \in BridgeType BY <2>1, <2>2, <1>a, <1>b DEF BridgeType
  <2>4. /\ bridge'.policy = bridge.policy /\ bridge'.link = "closed"
        /\ bridge'.closed = bridge.closed /\ bridge'.events = bridge.events
        /\ bridge'.sequence = bridge.sequence /\ bridge'.arrived = bridge.arrived
        /\ bridge'.pendingReverse = bridge.pendingReverse /\ bridge'.timers = bridge.timers
        /\ bridge'.writing = bridge.writing /\ bridge'.answers = bridge.answers
        /\ bridge'.pending = bridge.pending /\ bridge'.outcome = bridge.outcome
        /\ bridge'.waiting = bridge.waiting /\ bridge'.after = bridge.after
        /\ bridge'.misreported = bridge.misreported
    BY <2>1, <2>2, <1>b DEF BridgeType
  <2>5. RingInv(bridge') BY <1>b, <2>4 DEF RingInv
  <2>6. CursorInv(bridge') BY <1>b, <2>4 DEF CursorInv
  <2>7. WaitInv(bridge') BY <1>b, <2>4 DEF WaitInv
  <2>8. ReverseInv(bridge') BY <1>b, <2>4 DEF ReverseInv
  <2>9. CallInv(bridge') BY <1>b, <2>4 DEF CallInv
  <2> QED BY <2>3, <2>5, <2>6, <2>7, <2>8, <2>9
<1>10. CASE NotificationArrives
  <2>1. bridge' = appended(bridge, Notified) /\ bridge.closed = FALSE /\ bridge.sequence <= MaxBridgeEvents
    BY <1>10, <1>c DEF NotificationArrives, listens
  <2>2. /\ bridge.timers = bridge.pendingReverse
        /\ \A r \in bridge.pendingReverse : /\ r \in bridge.arrived /\ bridge.answers[r] = 0
                                            /\ (r = Notified \/ \E i \in 1..Len(bridge.events) : bridge.events[i].about = r)
        /\ \A r \in ReverseRequest : bridge.answers[r] = 0 \/ (bridge.answers[r] = 1 /\ r \in bridge.arrived)
        /\ \A r \in bridge.arrived : r \in bridge.pendingReverse \/ bridge.answers[r] = 1
    BY <1>b, <2>1 DEF ReverseInv
  <2> QED BY <1>b, <2>1, <2>2, EventAppended
<1>11. ASSUME NEW r \in ReverseRequest, ReverseArrives(r)
      PROVE  bridge' \in BridgeType /\ RingInv(bridge') /\ CursorInv(bridge') /\ WaitInv(bridge') /\ ReverseInv(bridge') /\ CallInv(bridge')
  <2>0. bridge.closed = FALSE /\ r \notin bridge.arrived /\ bridge.sequence <= MaxBridgeEvents
    BY <1>11, <1>c DEF ReverseArrives, listens
  <2>00. bridge.answers[r] = 0 /\ r \notin bridge.pendingReverse BY <1>b, <2>0 DEF ReverseInv
  <2>1. CASE bridge.policy = "reject"
    <3> DEFINE arrived1 == bridge.arrived \cup {r}
               answers1 == [bridge.answers EXCEPT ![r] = bridge.answers[r] + 1]
               writing1 == bridge.writing \cup {r}
    <3>1. bridge' = [bridge EXCEPT !.arrived = arrived1, !.answers = answers1, !.writing = writing1]
      BY <1>11, <2>1, <1>b DEF ReverseArrives, refusedReverse, BridgeType
    <3>2. /\ arrived1 \in SUBSET ReverseRequest /\ answers1 \in [ReverseRequest -> Nat]
          /\ writing1 \in SUBSET ReverseRequest
      BY <2>1, <1>a, <1>b DEF BridgeType, ReverseArrives, refusedReverse
    <3> HIDE DEF arrived1, answers1, writing1
    <3>3. bridge' \in BridgeType BY <3>1, <3>2, <1>a, <1>b DEF BridgeType
    <3>4. /\ bridge'.policy = bridge.policy /\ bridge'.link = bridge.link
          /\ bridge'.closed = bridge.closed /\ bridge'.events = bridge.events
          /\ bridge'.sequence = bridge.sequence /\ bridge'.arrived = arrived1
          /\ bridge'.pendingReverse = bridge.pendingReverse /\ bridge'.timers = bridge.timers
          /\ bridge'.writing = writing1 /\ bridge'.answers = answers1
          /\ bridge'.pending = bridge.pending /\ bridge'.outcome = bridge.outcome
          /\ bridge'.waiting = bridge.waiting /\ bridge'.after = bridge.after
          /\ bridge'.misreported = bridge.misreported
      BY <3>1, <3>2, <1>b DEF BridgeType
    <3>5. bridge.timers \ {r} = bridge.timers /\ bridge.pendingReverse \ {r} = bridge.pendingReverse
      BY <1>b, <2>00 DEF ReverseInv
    <3>6. RingInv(bridge') BY <1>b, <3>4 DEF RingInv
    <3>7. CursorInv(bridge') BY <1>b, <3>4 DEF CursorInv
    <3>8. WaitInv(bridge') BY <1>b, <3>4 DEF WaitInv
    <3>9. ReverseInv(bridge') BY <1>b, <2>00, <3>4, <3>5, RequestAnswered DEF answers1, arrived1
    <3>10. CallInv(bridge') BY <1>b, <3>4 DEF CallInv
    <3> QED BY <3>3, <3>6, <3>7, <3>8, <3>9, <3>10
  <2>2. CASE bridge.policy # "reject"
    <3> DEFINE s == [bridge EXCEPT !.arrived = bridge.arrived \cup {r}, !.pendingReverse = bridge.pendingReverse \cup {r}, !.timers = bridge.timers \cup {r}]
    <3>1. s \in BridgeType /\ s.policy = bridge.policy /\ s.link = bridge.link
           /\ s.closed = bridge.closed /\ s.events = bridge.events
           /\ s.sequence = bridge.sequence /\ s.arrived = bridge.arrived \cup {r}
           /\ s.pendingReverse = bridge.pendingReverse \cup {r}
           /\ s.timers = bridge.timers \cup {r} /\ s.writing = bridge.writing
           /\ s.answers = bridge.answers /\ s.pending = bridge.pending
           /\ s.outcome = bridge.outcome /\ s.waiting = bridge.waiting
           /\ s.after = bridge.after /\ s.misreported = bridge.misreported
      BY <1>b DEF BridgeType
    <3>2. bridge' = appended(s, r) BY <1>11, <2>2, <1>b DEF ReverseArrives, BridgeType
    <3> HIDE DEF s
    <3>3. RingInv(s) /\ CursorInv(s) /\ CallInv(s) BY <1>b, <3>1 DEF RingInv, CursorInv, CallInv
    <3>4. /\ s.timers = s.pendingReverse /\ s.closed = FALSE /\ s.sequence <= MaxBridgeEvents
          /\ \A q \in s.pendingReverse : /\ q \in s.arrived /\ s.answers[q] = 0
                                         /\ (q = r \/ \E i \in 1..Len(s.events) : s.events[i].about = q)
          /\ \A q \in ReverseRequest : s.answers[q] = 0 \/ (s.answers[q] = 1 /\ q \in s.arrived)
          /\ \A q \in s.arrived : q \in s.pendingReverse \/ s.answers[q] = 1
      BY <1>b, <2>0, <2>00, <3>1 DEF ReverseInv
    <3> QED BY <3>1, <3>2, <3>3, <3>4, EventAppended
  <2> QED BY <2>1, <2>2
<1>12. ASSUME NEW r \in ReverseRequest, ReverseTimesOut(r)
      PROVE  bridge' \in BridgeType /\ RingInv(bridge') /\ CursorInv(bridge') /\ WaitInv(bridge') /\ ReverseInv(bridge') /\ CallInv(bridge')
  <2>0. r \in bridge.pendingReverse /\ bridge.answers[r] = 0 /\ r \in bridge.arrived
    BY <1>12, <1>b DEF ReverseTimesOut, ReverseInv
  <2> DEFINE timers1 == bridge.timers \ {r}
             pendingReverse1 == bridge.pendingReverse \ {r}
             answers1 == [bridge.answers EXCEPT ![r] = bridge.answers[r] + 1]
             writing1 == bridge.writing \cup {r}
  <2>1. bridge' = [bridge EXCEPT !.timers = timers1, !.pendingReverse = pendingReverse1, !.answers = answers1,
             !.writing = writing1]
    BY <1>12, <2>0, <1>b DEF ReverseTimesOut, refusedReverse, BridgeType
  <2>2. /\ timers1 \in SUBSET ReverseRequest /\ pendingReverse1 \in SUBSET ReverseRequest
        /\ answers1 \in [ReverseRequest -> Nat] /\ writing1 \in SUBSET ReverseRequest
    BY <2>0, <1>a, <1>b DEF BridgeType, ReverseTimesOut, refusedReverse
  <2> HIDE DEF timers1, pendingReverse1, answers1, writing1
  <2>3. bridge' \in BridgeType BY <2>1, <2>2, <1>a, <1>b DEF BridgeType
  <2>4. /\ bridge'.policy = bridge.policy /\ bridge'.link = bridge.link
        /\ bridge'.closed = bridge.closed /\ bridge'.events = bridge.events
        /\ bridge'.sequence = bridge.sequence /\ bridge'.arrived = bridge.arrived
        /\ bridge'.pendingReverse = pendingReverse1 /\ bridge'.timers = timers1
        /\ bridge'.writing = writing1 /\ bridge'.answers = answers1
        /\ bridge'.pending = bridge.pending /\ bridge'.outcome = bridge.outcome
        /\ bridge'.waiting = bridge.waiting /\ bridge'.after = bridge.after
        /\ bridge'.misreported = bridge.misreported
    BY <2>1, <2>2, <1>b DEF BridgeType
  <2>5. bridge.arrived \cup {r} = bridge.arrived BY <2>0
  <2>6. RingInv(bridge') BY <1>b, <2>4 DEF RingInv
  <2>7. CursorInv(bridge') BY <1>b, <2>4 DEF CursorInv
  <2>8. WaitInv(bridge') BY <1>b, <2>4 DEF WaitInv
  <2>9. ReverseInv(bridge')
    BY <1>b, <2>0, <2>4, <2>5, RequestAnswered DEF answers1, timers1, pendingReverse1
  <2>10. CallInv(bridge') BY <1>b, <2>4 DEF CallInv
  <2> QED BY <2>3, <2>6, <2>7, <2>8, <2>9, <2>10
<1>13. ASSUME NEW r \in ReverseRequest, RespondReverse(r)
      PROVE  bridge' \in BridgeType /\ RingInv(bridge') /\ CursorInv(bridge') /\ WaitInv(bridge') /\ ReverseInv(bridge') /\ CallInv(bridge')
  <2>0. r \in bridge.pendingReverse /\ bridge.answers[r] = 0 /\ r \in bridge.arrived
    BY <1>13, <1>b DEF RespondReverse, ReverseInv
  <2> DEFINE timers1 == bridge.timers \ {r}
             pendingReverse1 == bridge.pendingReverse \ {r}
             answers1 == [bridge.answers EXCEPT ![r] = bridge.answers[r] + 1]
  <2>1. bridge' = [bridge EXCEPT !.timers = timers1, !.pendingReverse = pendingReverse1, !.answers = answers1]
    BY <1>13, <1>b DEF RespondReverse, BridgeType
  <2>2. /\ timers1 \in SUBSET ReverseRequest /\ pendingReverse1 \in SUBSET ReverseRequest
        /\ answers1 \in [ReverseRequest -> Nat]
    BY <2>0, <1>a, <1>b DEF BridgeType, RespondReverse
  <2> HIDE DEF timers1, pendingReverse1, answers1
  <2>3. bridge' \in BridgeType BY <2>1, <2>2, <1>a, <1>b DEF BridgeType
  <2>4. /\ bridge'.policy = bridge.policy /\ bridge'.link = bridge.link
        /\ bridge'.closed = bridge.closed /\ bridge'.events = bridge.events
        /\ bridge'.sequence = bridge.sequence /\ bridge'.arrived = bridge.arrived
        /\ bridge'.pendingReverse = pendingReverse1 /\ bridge'.timers = timers1
        /\ bridge'.writing = bridge.writing /\ bridge'.answers = answers1
        /\ bridge'.pending = bridge.pending /\ bridge'.outcome = bridge.outcome
        /\ bridge'.waiting = bridge.waiting /\ bridge'.after = bridge.after
        /\ bridge'.misreported = bridge.misreported
    BY <2>1, <2>2, <1>b DEF BridgeType
  <2>5. bridge.arrived \cup {r} = bridge.arrived BY <2>0
  <2>6. RingInv(bridge') BY <1>b, <2>4 DEF RingInv
  <2>7. CursorInv(bridge') BY <1>b, <2>4 DEF CursorInv
  <2>8. WaitInv(bridge') BY <1>b, <2>4 DEF WaitInv
  <2>9. ReverseInv(bridge')
    BY <1>b, <2>0, <2>4, <2>5, RequestAnswered DEF answers1, timers1, pendingReverse1
  <2>10. CallInv(bridge') BY <1>b, <2>4 DEF CallInv
  <2> QED BY <2>3, <2>6, <2>7, <2>8, <2>9, <2>10
<1>14. ASSUME NEW c \in BridgeCall, BridgeCalls(c)
      PROVE  bridge' \in BridgeType /\ RingInv(bridge') /\ CursorInv(bridge') /\ WaitInv(bridge') /\ ReverseInv(bridge') /\ CallInv(bridge')
  <2> DEFINE pending1 == bridge.pending \cup {c}
             outcome1 == [bridge.outcome EXCEPT ![c] = "waiting"]
  <2>1. bridge' = [bridge EXCEPT !.pending = pending1, !.outcome = outcome1]
    BY <1>14, <1>b DEF BridgeCalls, BridgeType
  <2>2. /\ pending1 \in SUBSET BridgeCall
        /\ outcome1 \in [BridgeCall -> {"none", "waiting", "settled"}]
    BY <1>14, <1>a, <1>b DEF BridgeType, BridgeCalls
  <2> HIDE DEF pending1, outcome1
  <2>3. bridge' \in BridgeType BY <2>1, <2>2, <1>a, <1>b DEF BridgeType
  <2>4. /\ bridge'.policy = bridge.policy /\ bridge'.link = bridge.link
        /\ bridge'.closed = bridge.closed /\ bridge'.events = bridge.events
        /\ bridge'.sequence = bridge.sequence /\ bridge'.arrived = bridge.arrived
        /\ bridge'.pendingReverse = bridge.pendingReverse /\ bridge'.timers = bridge.timers
        /\ bridge'.writing = bridge.writing /\ bridge'.answers = bridge.answers
        /\ bridge'.pending = pending1 /\ bridge'.outcome = outcome1
        /\ bridge'.waiting = bridge.waiting /\ bridge'.after = bridge.after
        /\ bridge'.misreported = bridge.misreported
    BY <2>1, <2>2, <1>b DEF BridgeType
  <2>5. outcome1[c] = "waiting" /\ \A d \in BridgeCall : d # c => outcome1[d] = bridge.outcome[d]
    BY <1>b DEF outcome1, BridgeType
  <2>6. bridge.closed = FALSE BY <1>14, <1>c DEF BridgeCalls
  <2>7. \A d \in BridgeCall : d \in pending1 <=> outcome1[d] = "waiting"
    BY <1>b, <2>5 DEF pending1, CallInv
  <2>8. RingInv(bridge') BY <1>b, <2>4 DEF RingInv
  <2>9. CursorInv(bridge') BY <1>b, <2>4 DEF CursorInv
  <2>10. WaitInv(bridge') BY <1>b, <2>4 DEF WaitInv
  <2>11. ReverseInv(bridge') BY <1>b, <2>4 DEF ReverseInv
  <2>12. CallInv(bridge')
      <3>1. pending1 = {d \in BridgeCall : outcome1[d] = "waiting"} BY <2>2, <2>7
      <3>2. bridge.closed => pending1 = {} BY <1>b, <2>6 DEF CallInv, pending1
      <3> QED BY <2>4, <3>1, <3>2 DEF CallInv
  <2> QED BY <2>3, <2>8, <2>9, <2>10, <2>11, <2>12
<1>15. ASSUME NEW c \in BridgeCall, BridgeCallSettles(c)
      PROVE  bridge' \in BridgeType /\ RingInv(bridge') /\ CursorInv(bridge') /\ WaitInv(bridge') /\ ReverseInv(bridge') /\ CallInv(bridge')
  <2> DEFINE pending1 == bridge.pending \ {c}
             outcome1 == [bridge.outcome EXCEPT ![c] = "settled"]
  <2>1. bridge' = [bridge EXCEPT !.pending = pending1, !.outcome = outcome1]
    BY <1>15, <1>b DEF BridgeCallSettles, BridgeType
  <2>2. /\ pending1 \in SUBSET BridgeCall
        /\ outcome1 \in [BridgeCall -> {"none", "waiting", "settled"}]
    BY <1>15, <1>a, <1>b DEF BridgeType, BridgeCallSettles
  <2> HIDE DEF pending1, outcome1
  <2>3. bridge' \in BridgeType BY <2>1, <2>2, <1>a, <1>b DEF BridgeType
  <2>4. /\ bridge'.policy = bridge.policy /\ bridge'.link = bridge.link
        /\ bridge'.closed = bridge.closed /\ bridge'.events = bridge.events
        /\ bridge'.sequence = bridge.sequence /\ bridge'.arrived = bridge.arrived
        /\ bridge'.pendingReverse = bridge.pendingReverse /\ bridge'.timers = bridge.timers
        /\ bridge'.writing = bridge.writing /\ bridge'.answers = bridge.answers
        /\ bridge'.pending = pending1 /\ bridge'.outcome = outcome1
        /\ bridge'.waiting = bridge.waiting /\ bridge'.after = bridge.after
        /\ bridge'.misreported = bridge.misreported
    BY <2>1, <2>2, <1>b DEF BridgeType
  <2>5. outcome1[c] = "settled" /\ \A d \in BridgeCall : d # c => outcome1[d] = bridge.outcome[d]
    BY <1>b DEF outcome1, BridgeType
  <2>6. c \in bridge.pending BY <1>15, <1>c DEF BridgeCallSettles
  <2>7. \A d \in BridgeCall : d \in pending1 <=> outcome1[d] = "waiting"
    BY <1>b, <2>5 DEF pending1, CallInv
  <2>8. RingInv(bridge') BY <1>b, <2>4 DEF RingInv
  <2>9. CursorInv(bridge') BY <1>b, <2>4 DEF CursorInv
  <2>10. WaitInv(bridge') BY <1>b, <2>4 DEF WaitInv
  <2>11. ReverseInv(bridge') BY <1>b, <2>4 DEF ReverseInv
  <2>12. CallInv(bridge')
      <3>1. pending1 = {d \in BridgeCall : outcome1[d] = "waiting"} BY <2>2, <2>7
      <3>2. bridge.closed => pending1 = {} BY <1>b, <2>6 DEF CallInv, pending1
      <3> QED BY <2>4, <3>1, <3>2 DEF CallInv
  <2> QED BY <2>3, <2>8, <2>9, <2>10, <2>11, <2>12
<1> QED
  BY <1>1, <1>2, <1>3, <1>4, <1>5, <1>6, <1>7, <1>8, <1>9, <1>10, <1>11, <1>12, <1>13, <1>14, <1>15 DEF BridgeNext

\* What the invariant says of the bridge.
LEMMA BridgeShows == BridgeInv => BridgeIsSettled
<1> SUFFICES ASSUME BridgeInv PROVE BridgeIsSettled
  OBVIOUS
<1>b. /\ bridge \in BridgeType /\ RingInv(bridge) /\ CursorInv(bridge) /\ WaitInv(bridge) /\ ReverseInv(bridge) /\ CallInv(bridge)
  BY DEF BridgeInv
<1>c. DOMAIN bridge.events = 1..Len(bridge.events) /\ bridge.closed \in BOOLEAN
  BY <1>b DEF BridgeType
<1>1. BridgeTypeOK BY <1>b DEF BridgeTypeOK, BridgeType, BridgeEvent
<1>2. ReverseAnsweredOnce
  <2>1. \A r \in ReverseRequest : bridge.answers[r] <= 1 BY <1>b DEF ReverseInv
  <2>2. \A r \in bridge.pendingReverse : \E e \in Range(bridge.events) : e.about = r
    BY <1>b, <1>c DEF ReverseInv, Range
  <2>3. ~bridge.closed => bridge.arrived = bridge.pendingReverse \cup {r \in ReverseRequest : bridge.answers[r] = 1}
    <3>1. bridge.arrived \subseteq ReverseRequest BY <1>b DEF BridgeType
    <3> QED BY <1>b, <3>1 DEF ReverseInv
  <2> QED BY <1>b, <2>1, <2>2, <2>3 DEF ReverseAnsweredOnce, ReverseInv
<1>3. ReadersAreServed
  <2>1. \A e \in Range(bridge.events) : \E i \in 1..Len(bridge.events) : e = bridge.events[i]
    BY <1>c DEF Range
  <2> QED BY <1>b, <2>1 DEF ReadersAreServed, CursorInv, WaitInv
<1>4. CallsAreSettled BY <1>b DEF CallsAreSettled, CallInv
<1> QED BY <1>1, <1>2, <1>3, <1>4 DEF BridgeIsSettled

-----------------------------------------------------------------------------
(* The message transports (MessageTransports).                             *)

Activation == {"event", "listener", "drain"}

TransportType ==
    [kind : TransportKind, listener : BOOLEAN, closed : BOOLEAN, closes : Nat, buffer : Seq(Nat),
     wire : Seq(Nat), delivered : Seq(Nat), frames : Seq(Activation), received : Nat]

\* Events do not come in the middle of anything, what has come is in the loop of its event, and
\* a buffer that its listener has not emptied is being drained.
StackInv(t) ==
    /\ \A i \in 1..Len(t.frames) : t.frames[i] = "event" => i = Len(t.frames)
    /\ t.wire # << >> => t.frames # << >> /\ t.frames[Len(t.frames)] = "event"
    /\ t.listener /\ t.buffer # << >> => \E i \in 1..Len(t.frames) : t.frames[i] = "drain"

AllBefore(s, t) == \A i \in 1..Len(s), j \in 1..Len(t) : s[i] < t[j]

AllUpTo(s, n) == \A i \in 1..Len(s) : s[i] <= n

\* What was delivered came before what is buffered, and that before the rest of the event.
OrderInv(t) ==
    t.kind # "memory" =>
        /\ isAscending(t.delivered) /\ isAscending(t.buffer) /\ isAscending(t.wire)
        /\ AllBefore(t.delivered, t.buffer) /\ AllBefore(t.delivered, t.wire) /\ AllBefore(t.buffer, t.wire)
        /\ AllUpTo(t.delivered, t.received) /\ AllUpTo(t.buffer, t.received) /\ AllUpTo(t.wire, t.received)

Holds(s, m) == \E i \in 1..Len(s) : s[i] = m

\* Nothing is lost or doubled until the transport closes.
KeptInv(t) ==
    ~t.closed =>
        /\ \A m \in 1..t.received : Holds(t.delivered, m) \/ Holds(t.buffer, m) \/ Holds(t.wire, m)
        /\ Len(t.delivered) + Len(t.buffer) + Len(t.wire) = t.received

\* What a close leaves behind.
ClosedInv(t) ==
    /\ t.kind \in {"ndjson", "websocket", "header"} => t.closes = IF t.closed THEN 1 ELSE 0
    /\ t.kind = "ndjson" /\ t.closed => t.buffer = << >> /\ t.wire = << >>

TransportOK(t) == t \in TransportType /\ StackInv(t) /\ OrderInv(t) /\ KeptInv(t) /\ ClosedInv(t)

TransportInv == TransportOK(transport)

\* The first message of a sequence moves to the end of another.
LEMMA MessageMoves ==
    ASSUME NEW s \in Seq(Nat), NEW t \in Seq(Nat), s # << >>
    PROVE  /\ Head(s) \in Nat /\ Tail(s) \in Seq(Nat) /\ Append(t, Head(s)) \in Seq(Nat)
           /\ Len(Tail(s)) = Len(s) - 1 /\ Len(Append(t, Head(s))) = Len(t) + 1
           /\ Len(s) \in Nat \ {0} /\ Len(t) \in Nat /\ Head(s) = s[1]
           /\ \A i \in 1..(Len(s) - 1) : Tail(s)[i] = s[i + 1]
           /\ \A i \in 1..Len(t) : Append(t, Head(s))[i] = t[i]
           /\ Append(t, Head(s))[Len(t) + 1] = s[1]
           /\ \A i \in 1..Len(Tail(s)) : i + 1 \in 1..Len(s) /\ Tail(s)[i] = s[i + 1]
           /\ \A i \in 1..Len(Append(t, Head(s))) :
                 \/ i \in 1..Len(t) /\ Append(t, Head(s))[i] = t[i]
                 \/ i = Len(t) + 1 /\ 1 \in 1..Len(s) /\ Append(t, Head(s))[i] = s[1]
           /\ \A i \in 1..Len(s) : s[i] \in Nat
           /\ \A i \in 1..Len(t) : t[i] \in Nat
OBVIOUS

LEMMA HoldsMoves ==
    ASSUME NEW s \in Seq(Nat), NEW t \in Seq(Nat), s # << >>, NEW m
    PROVE  /\ Holds(s, m) => Holds(Tail(s), m) \/ Holds(Append(t, Head(s)), m)
           /\ Holds(t, m) => Holds(Append(t, Head(s)), m)
<1> DEFINE u == Append(t, Head(s))
           r == Tail(s)
<1>1. /\ Len(r) = Len(s) - 1 /\ Len(u) = Len(t) + 1 /\ Len(s) \in Nat \ {0} /\ Len(t) \in Nat
      /\ \A i \in 1..(Len(s) - 1) : r[i] = s[i + 1]
      /\ \A i \in 1..Len(t) : u[i] = t[i]
      /\ u[Len(t) + 1] = s[1]
  BY MessageMoves
<1> HIDE DEF u, r
<1>2. ASSUME Holds(s, m) PROVE Holds(r, m) \/ Holds(u, m)
  <2>1. PICK i \in 1..Len(s) : s[i] = m BY <1>2 DEF Holds
  <2>2. CASE i = 1
    <3>1. Len(t) + 1 \in 1..Len(u) /\ u[Len(t) + 1] = m BY <1>1, <2>1, <2>2
    <3> QED BY <3>1 DEF Holds
  <2>3. CASE i # 1
    <3>1. i - 1 \in 1..(Len(s) - 1) /\ r[i - 1] = s[(i - 1) + 1] /\ (i - 1) + 1 = i
      BY <1>1, <2>1, <2>3
    <3> QED BY <1>1, <2>1, <3>1 DEF Holds
  <2> QED BY <2>2, <2>3
<1>3. Holds(t, m) => Holds(u, m) BY <1>1 DEF Holds
<1> QED BY <1>2, <1>3 DEF u, r

LEMMA AscendingMoves ==
    ASSUME NEW s \in Seq(Nat), NEW t \in Seq(Nat), s # << >>,
           isAscending(s), isAscending(t), AllBefore(t, s)
    PROVE  /\ isAscending(Tail(s)) /\ isAscending(Append(t, Head(s)))
           /\ AllBefore(Append(t, Head(s)), Tail(s))
<1> DEFINE u == Append(t, Head(s))
           r == Tail(s)
<1>1. /\ Len(r) \in Nat /\ Len(u) \in Nat /\ Len(s) \in Nat /\ Len(t) \in Nat /\ 1 \in 1..Len(s)
      /\ \A i \in 1..Len(r) : i + 1 \in 1..Len(s) /\ i + 1 > 1 /\ r[i] = s[i + 1]
      /\ \A i \in 1..Len(u) : (i \in 1..Len(t) /\ u[i] = t[i]) \/ (i = Len(t) + 1 /\ u[i] = s[1])
      /\ \A i \in 1..Len(s) : s[i] \in Nat
      /\ \A i \in 1..Len(t) : t[i] \in Nat
  BY MessageMoves
<1> HIDE DEF u, r
<1>2. isAscending(r) BY <1>1 DEF isAscending
<1>3. isAscending(u) BY <1>1 DEF isAscending, AllBefore
<1>4. AllBefore(u, r) BY <1>1 DEF isAscending, AllBefore
<1> QED BY <1>2, <1>3, <1>4 DEF u, r

\* What stays on either side of a message that moves.
LEMMA OthersStay ==
    ASSUME NEW s \in Seq(Nat), NEW t \in Seq(Nat), s # << >>, NEW o \in Seq(Nat), NEW n \in Nat
    PROVE  /\ AllBefore(o, s) => AllBefore(o, Tail(s))
           /\ AllBefore(s, o) => AllBefore(Tail(s), o)
           /\ AllBefore(o, s) /\ AllBefore(o, t) => AllBefore(o, Append(t, Head(s)))
           /\ AllBefore(s, o) /\ AllBefore(t, o) => AllBefore(Append(t, Head(s)), o)
           /\ AllUpTo(s, n) => AllUpTo(Tail(s), n)
           /\ AllUpTo(s, n) /\ AllUpTo(t, n) => AllUpTo(Append(t, Head(s)), n)
<1> DEFINE u == Append(t, Head(s))
           r == Tail(s)
<1>1. /\ Len(r) \in Nat /\ Len(u) \in Nat /\ Len(s) \in Nat /\ Len(t) \in Nat /\ 1 \in 1..Len(s)
      /\ \A i \in 1..Len(r) : i + 1 \in 1..Len(s) /\ i + 1 > 1 /\ r[i] = s[i + 1]
      /\ \A i \in 1..Len(u) : (i \in 1..Len(t) /\ u[i] = t[i]) \/ (i = Len(t) + 1 /\ u[i] = s[1])
      /\ \A i \in 1..Len(s) : s[i] \in Nat
      /\ \A i \in 1..Len(t) : t[i] \in Nat
  BY MessageMoves
<1>o. Len(o) \in Nat /\ \A i \in 1..Len(o) : o[i] \in Nat OBVIOUS
<1> HIDE DEF u, r
<1>2. AllBefore(o, s) => AllBefore(o, r) BY <1>1, <1>o DEF AllBefore
<1>3. AllBefore(s, o) => AllBefore(r, o) BY <1>1, <1>o DEF AllBefore
<1>4. AllBefore(o, s) /\ AllBefore(o, t) => AllBefore(o, u) BY <1>1, <1>o DEF AllBefore
<1>5. AllBefore(s, o) /\ AllBefore(t, o) => AllBefore(u, o) BY <1>1, <1>o DEF AllBefore
<1>6. AllUpTo(s, n) => AllUpTo(r, n) BY <1>1, <1>o DEF AllUpTo
<1>7. AllUpTo(s, n) /\ AllUpTo(t, n) => AllUpTo(u, n) BY <1>1, <1>o DEF AllUpTo
<1> QED BY <1>2, <1>3, <1>4, <1>5, <1>6, <1>7 DEF u, r

\* A message that moves is not counted twice, and not forgotten.
LEMMA CountStays ==
    ASSUME NEW s \in Seq(Nat), NEW t \in Seq(Nat), s # << >>, NEW o \in Seq(Nat), NEW n \in Nat
    PROVE  /\ Len(t) + Len(o) + Len(s) = n => Len(Append(t, Head(s))) + Len(o) + Len(Tail(s)) = n
           /\ Len(o) + Len(t) + Len(s) = n => Len(o) + Len(Append(t, Head(s))) + Len(Tail(s)) = n
<1>1. /\ Len(Tail(s)) = Len(s) - 1 /\ Len(Append(t, Head(s))) = Len(t) + 1
      /\ Len(s) \in Nat /\ Len(t) \in Nat /\ Len(o) \in Nat
  BY MessageMoves
<1>2. PICK a \in Nat : a = Len(t) BY <1>1, Zenon
<1>3. PICK b \in Nat : b = Len(o) BY <1>1, Zenon
<1>4. PICK c \in Nat : c = Len(s) BY <1>1, Zenon
<1>5. /\ a + b + c = n => (a + 1) + b + (c - 1) = n
      /\ b + a + c = n => b + (a + 1) + (c - 1) = n
  BY ONLY a \in Nat, b \in Nat, c \in Nat, n \in Nat, SMT
<1> QED BY <1>1, <1>2, <1>3, <1>4, <1>5, Zenon

LEMMA CountMoves ==
    ASSUME NEW s \in Seq(Nat), NEW t \in Seq(Nat), s # << >>, NEW o \in Seq(Nat), NEW n \in Nat
    PROVE  Len(t) + Len(s) + Len(o) = n => Len(Append(t, Head(s))) + Len(Tail(s)) + Len(o) = n
<1>1. /\ Len(Tail(s)) = Len(s) - 1 /\ Len(Append(t, Head(s))) = Len(t) + 1
      /\ Len(s) \in Nat /\ Len(t) \in Nat /\ Len(o) \in Nat
  BY MessageMoves
<1>2. PICK a \in Nat : a = Len(t) BY <1>1, Zenon
<1>3. PICK b \in Nat : b = Len(o) BY <1>1, Zenon
<1>4. PICK c \in Nat : c = Len(s) BY <1>1, Zenon
<1>5. a + c + b = n => (a + 1) + (c - 1) + b = n
  BY ONLY a \in Nat, b \in Nat, c \in Nat, n \in Nat, SMT
<1> QED BY <1>1, <1>2, <1>3, <1>4, <1>5, Zenon

\* Sequences, one after the other.
LEMMA AscendingJoined ==
    ASSUME NEW s \in Seq(Nat), NEW t \in Seq(Nat), isAscending(s), isAscending(t), AllBefore(s, t)
    PROVE  isAscending(s \o t)
<1> DEFINE u == s \o t
<1>1. /\ Len(u) = Len(s) + Len(t) /\ Len(s) \in Nat /\ Len(t) \in Nat
      /\ \A i \in 1..(Len(s) + Len(t)) : u[i] = IF i <= Len(s) THEN s[i] ELSE t[i - Len(s)]
  OBVIOUS
<1>2. \A i \in 1..Len(u) : \/ i \in 1..Len(s) /\ u[i] = s[i]
                           \/ i > Len(s) /\ i - Len(s) \in 1..Len(t) /\ u[i] = t[i - Len(s)]
  BY <1>1
<1> HIDE DEF u
<1>3. ASSUME NEW i \in 1..Len(u), NEW j \in 1..Len(u), i < j PROVE u[i] < u[j]
  <2>1. CASE i \in 1..Len(s) /\ j \in 1..Len(s) BY <1>1, <1>2, <1>3, <2>1 DEF isAscending
  <2>2. CASE i \in 1..Len(s) /\ j > Len(s)
    <3>1. j - Len(s) \in 1..Len(t) /\ u[j] = t[j - Len(s)] /\ u[i] = s[i] BY <1>1, <1>2, <1>3, <2>2
    <3> QED BY <2>2, <3>1 DEF AllBefore
  <2>3. CASE i > Len(s)
    <3>1. /\ i - Len(s) \in 1..Len(t) /\ j - Len(s) \in 1..Len(t) /\ i - Len(s) < j - Len(s)
          /\ u[i] = t[i - Len(s)] /\ u[j] = t[j - Len(s)]
      BY <1>1, <1>2, <1>3, <2>3
    <3> QED BY <3>1 DEF isAscending
  <2> QED BY <1>1, <1>2, <1>3, <2>1, <2>2, <2>3
<1> QED BY <1>3 DEF isAscending, u

LEMMA HoldsEither ==
    ASSUME NEW s \in Seq(Nat), NEW t \in Seq(Nat)
    PROVE  /\ s \o t \in Seq(Nat) /\ Len(s \o t) = Len(s) + Len(t)
           /\ \A m : Holds(s, m) \/ Holds(t, m) => Holds(s \o t, m)
<1> DEFINE u == s \o t
<1>1. /\ u \in Seq(Nat) /\ Len(u) = Len(s) + Len(t) /\ Len(s) \in Nat /\ Len(t) \in Nat
      /\ \A i \in 1..(Len(s) + Len(t)) : u[i] = IF i <= Len(s) THEN s[i] ELSE t[i - Len(s)]
  OBVIOUS
<1> HIDE DEF u
<1>2. ASSUME NEW i \in 1..Len(s) PROVE i \in 1..Len(u) /\ u[i] = s[i]
  BY <1>1
<1>3. ASSUME NEW i \in 1..Len(t) PROVE i + Len(s) \in 1..Len(u) /\ u[i + Len(s)] = t[i]
  <2>1. i + Len(s) \in 1..(Len(s) + Len(t)) /\ ~(i + Len(s) <= Len(s)) /\ (i + Len(s)) - Len(s) = i
    BY <1>1
  <2> QED BY <1>1, <2>1
<1>4. ASSUME NEW m, Holds(s, m) \/ Holds(t, m) PROVE Holds(u, m)
  BY <1>2, <1>3, <1>4 DEF Holds
<1> QED BY <1>1, <1>4 DEF u

LEMMA HoldsJoined ==
    ASSUME NEW s \in Seq(Nat), NEW t \in Seq(Nat), NEW r \in Seq(Nat)
    PROVE  /\ Len(s \o t \o r) = Len(s) + Len(t) + Len(r)
           /\ \A m : Holds(s, m) \/ Holds(t, m) \/ Holds(r, m) => Holds(s \o t \o r, m)
<1> DEFINE u == s \o t
<1>1. u \in Seq(Nat) /\ Len(u) = Len(s) + Len(t) /\ \A m : Holds(s, m) \/ Holds(t, m) => Holds(u, m)
  BY HoldsEither
<1> HIDE DEF u
<1>2. Len(u \o r) = Len(u) + Len(r) /\ \A m : Holds(u, m) \/ Holds(r, m) => Holds(u \o r, m)
  BY <1>1, HoldsEither
<1>3. /\ Len(u \o r) = Len(s) + Len(t) + Len(r)
      /\ \A m : Holds(s, m) \/ Holds(t, m) \/ Holds(r, m) => Holds(u \o r, m)
  BY <1>1, <1>2, Zenon
<1> QED BY <1>3 DEF u

\* What is new comes after what there was, and is counted.
LEMMA EventIsLater ==
    ASSUME NEW d \in Seq(Nat), NEW r \in Nat, NEW k \in Nat, AllUpTo(d, r)
    PROVE  /\ AllUpTo(d, r + k)
           /\ AllBefore(d, [i \in 1..k |-> r + i])
<1>1. \A i \in 1..Len(d) : d[i] \in Nat /\ d[i] <= r BY DEF AllUpTo
<1> DEFINE w == [i \in 1..k |-> r + i]
<1>2. Len(w) = k /\ \A i \in 1..k : w[i] = r + i OBVIOUS
<1> HIDE DEF w
<1>3. ASSUME NEW i \in 1..Len(d) PROVE d[i] <= r + k
  BY <1>1
<1>4. ASSUME NEW i \in 1..Len(d), NEW j \in 1..k PROVE d[i] < r + j
  BY <1>1
<1>5. AllBefore(d, w) BY <1>2, <1>4 DEF AllBefore
<1> QED BY <1>3, <1>5 DEF w, AllUpTo

LEMMA CountGrows ==
    ASSUME NEW d \in Seq(Nat), NEW b \in Seq(Nat), NEW w \in Seq(Nat), NEW r \in Nat, NEW x \in Nat,
           Len(d) + Len(b) + Len(w) = r
    PROVE  /\ Len(Append(d, x)) + Len(b) + Len(w) = r + 1
           /\ Len(d) + Len(Append(b, x)) + Len(w) = r + 1
<1>1. /\ Len(Append(d, x)) = Len(d) + 1 /\ Len(Append(b, x)) = Len(b) + 1
      /\ Len(d) \in Nat /\ Len(b) \in Nat /\ Len(w) \in Nat
  OBVIOUS
<1>2. PICK a \in Nat : a = Len(d) BY <1>1, Zenon
<1>3. PICK c \in Nat : c = Len(b) BY <1>1, Zenon
<1>4. PICK e \in Nat : e = Len(w) BY <1>1, Zenon
<1>5. a + c + e = r BY <1>2, <1>3, <1>4, Zenon
<1>6. (a + 1) + c + e = r + 1 /\ a + (c + 1) + e = r + 1
  BY ONLY <1>5, a \in Nat, c \in Nat, e \in Nat, r \in Nat, SMT
<1> QED BY <1>1, <1>2, <1>3, <1>4, <1>6, Zenon

\* The activations, when one begins or ends.
LEMMA FramePushed ==
    ASSUME NEW f \in Seq(Activation), NEW a \in Activation
    PROVE  /\ <<a>> \o f \in Seq(Activation) /\ <<a>> \o f # << >>
           /\ Len(<<a>> \o f) = Len(f) + 1 /\ Len(f) \in Nat
           /\ (<<a>> \o f)[1] = a
           /\ \A i \in 1..Len(f) : i + 1 \in 1..Len(<<a>> \o f) /\ (<<a>> \o f)[i + 1] = f[i]
           /\ \A i \in 1..Len(<<a>> \o f) : i = 1 \/ (i - 1 \in 1..Len(f) /\ (<<a>> \o f)[i] = f[i - 1])
<1>1. <<a>> \in Seq(Activation) /\ Len(<<a>>) = 1 /\ <<a>>[1] = a /\ Len(f) \in Nat OBVIOUS
<1>2. <<a>> \o f \in Seq(Activation) /\ Len(<<a>> \o f) = Len(f) + 1 BY <1>1
<1>3. \A i \in 1..(Len(f) + 1) : (<<a>> \o f)[i] = IF i <= 1 THEN <<a>>[i] ELSE f[i - 1] BY <1>1
<1>4. <<a>> \o f # << >> BY <1>2
<1> QED BY <1>1, <1>2, <1>3, <1>4

LEMMA FramePopped ==
    ASSUME NEW f \in Seq(Activation), f # << >>
    PROVE  /\ Tail(f) \in Seq(Activation) /\ Len(Tail(f)) = Len(f) - 1 /\ Len(f) \in Nat \ {0}
           /\ Head(f) = f[1]
           /\ \A i \in 1..Len(Tail(f)) : i + 1 \in 1..Len(f) /\ Tail(f)[i] = f[i + 1]
           /\ Tail(f) = << >> <=> Len(f) = 1
<1>1. Len(f) \in Nat /\ Len(f) # 0 /\ Head(f) = f[1] OBVIOUS
<1>2. Tail(f) \in Seq(Activation) /\ Len(Tail(f)) = Len(f) - 1 BY <1>1
<1>3. \A i \in 1..(Len(f) - 1) : Tail(f)[i] = f[i + 1] BY <1>1
<1>4. \A q \in Seq(Activation) : q = << >> <=> Len(q) = 0 OBVIOUS
<1>5. \A i \in 1..(Len(f) - 1) : i + 1 \in 1..Len(f) BY <1>1
<1> DEFINE g == Tail(f)
<1>6. /\ g \in Seq(Activation) /\ Len(g) = Len(f) - 1
      /\ \A i \in 1..(Len(f) - 1) : i + 1 \in 1..Len(f) /\ g[i] = f[i + 1]
      /\ g = << >> <=> Len(g) = 0
  BY <1>2, <1>3, <1>4, <1>5
<1> HIDE DEF g
<1>7. /\ \A i \in 1..Len(g) : i + 1 \in 1..Len(f) /\ g[i] = f[i + 1]
      /\ g = << >> <=> Len(f) = 1
  BY <1>1, <1>6
<1> QED BY <1>1, <1>6, <1>7 DEF g

\* Something begins on top of what runs.
LEMMA StackPushed ==
    ASSUME NEW t \in TransportType, StackInv(t), NEW a \in Activation, a = "event" => t.frames = << >>
    PROVE  LET u == [t EXCEPT !.frames = <<a>> \o @]
           IN  u \in TransportType /\ StackInv(u)
<1> DEFINE f == t.frames
           g == <<a>> \o f
           u == [t EXCEPT !.frames = g]
<1>1. f \in Seq(Activation) BY DEF TransportType
<1>2. /\ g \in Seq(Activation) /\ g # << >> /\ Len(g) = Len(f) + 1 /\ Len(f) \in Nat /\ g[1] = a
      /\ \A i \in 1..Len(f) : i + 1 \in 1..Len(g) /\ g[i + 1] = f[i]
      /\ \A i \in 1..Len(g) : i = 1 \/ (i - 1 \in 1..Len(f) /\ g[i] = f[i - 1])
  BY <1>1, FramePushed
<1> HIDE DEF g
<1>3. /\ u \in TransportType /\ u.frames = g /\ u.wire = t.wire /\ u.listener = t.listener /\ u.buffer = t.buffer
  BY <1>2 DEF TransportType
<1>4. f = << >> => Len(f) = 0 OBVIOUS
<1>4a. f # << >> => Len(f) > 0 BY <1>1
<1>5. ASSUME NEW i \in 1..Len(g), g[i] = "event" PROVE i = Len(g)
  <2>1. CASE i = 1 BY <1>2, <1>4, <1>5, <2>1
  <2>2. CASE i # 1
    <3>1. i - 1 \in 1..Len(f) /\ f[i - 1] = "event" BY <1>2, <1>5, <2>2
    <3>2. i - 1 = Len(f) BY <3>1 DEF StackInv
    <3> QED BY <1>2, <3>2
  <2> QED BY <2>1, <2>2
<1>6. ASSUME t.wire # << >> PROVE g[Len(g)] = "event"
  <2>1. f # << >> /\ f[Len(f)] = "event" BY <1>6 DEF StackInv
  <2>2. Len(f) \in 1..Len(f) BY <1>2, <1>4a, <2>1
  <2> QED BY <1>2, <2>1, <2>2
<1>7. ASSUME t.listener, t.buffer # << >> PROVE \E i \in 1..Len(g) : g[i] = "drain"
  <2>1. PICK i \in 1..Len(f) : f[i] = "drain" BY <1>7 DEF StackInv
  <2> QED BY <1>2, <2>1
<1>8. StackInv(u) BY <1>2, <1>3, <1>5, <1>6, <1>7 DEF StackInv
<1> QED BY <1>3, <1>8 DEF g

\* What is on top ends: its loop has nothing left to do.
LEMMA StackPopped ==
    ASSUME NEW t \in TransportType, StackInv(t), t.frames # << >>,
           t.frames[1] = "event" => t.wire = << >>,
           t.frames[1] = "drain" => t.buffer = << >> \/ ~t.listener
    PROVE  LET u == [t EXCEPT !.frames = Tail(@)]
           IN  u \in TransportType /\ StackInv(u)
<1> DEFINE f == t.frames
           g == Tail(f)
           u == [t EXCEPT !.frames = g]
<1>1. f \in Seq(Activation) BY DEF TransportType
<1>2. /\ g \in Seq(Activation) /\ Len(g) = Len(f) - 1 /\ Len(f) \in Nat \ {0} /\ Len(g) \in Nat
      /\ \A i \in 1..Len(g) : i + 1 \in 1..Len(f) /\ g[i] = f[i + 1]
      /\ g = << >> <=> Len(f) = 1
  BY <1>1, FramePopped
<1> HIDE DEF g
<1>3. /\ u \in TransportType /\ u.frames = g /\ u.wire = t.wire /\ u.listener = t.listener /\ u.buffer = t.buffer
  BY <1>2 DEF TransportType
<1>5. ASSUME NEW i \in 1..Len(g), g[i] = "event" PROVE i = Len(g)
  <2>1. i + 1 \in 1..Len(f) /\ f[i + 1] = "event" BY <1>2, <1>5
  <2>2. i + 1 = Len(f) BY <2>1 DEF StackInv
  <2> QED BY <1>2, <2>2
<1>6. ASSUME t.wire # << >> PROVE g # << >> /\ g[Len(g)] = "event"
  <2>1. f[Len(f)] = "event" BY <1>6 DEF StackInv
  <2>2. Len(f) # 1 BY <1>6, <2>1
  <2>3. Len(g) \in 1..Len(g) /\ Len(g) + 1 = Len(f) BY <1>2, <2>2
  <2> QED BY <1>2, <2>1, <2>2, <2>3
<1>7. ASSUME t.listener, t.buffer # << >> PROVE \E i \in 1..Len(g) : g[i] = "drain"
  <2>1. PICK i \in 1..Len(f) : f[i] = "drain" BY <1>7 DEF StackInv
  <2>2. i # 1 BY <1>7, <2>1
  <2>3. i - 1 \in 1..Len(g) /\ (i - 1) + 1 = i BY <1>2, <2>2
  <2> QED BY <1>2, <2>1, <2>3
<1>8. StackInv(u) BY <1>2, <1>3, <1>5, <1>6, <1>7 DEF StackInv
<1> QED BY <1>3, <1>8 DEF g

\* dispose() leaves the order and the stack as they are, or clears what is in them.
LEMMA TransportEnds ==
    ASSUME NEW t \in TransportType, StackInv(t), OrderInv(t), ClosedInv(t)
    PROVE  /\ TransportOK(transportDisposed(t))
           /\ transportDisposed(t).closed /\ transportDisposed(t).kind = t.kind
           /\ transportDisposed(t).delivered = t.delivered
           /\ transportDisposed(t).frames = t.frames
<1> DEFINE u == transportDisposed(t)
<1>1. /\ t.kind \in {"memory", "ndjson", "websocket", "header", "mux", "window"}
      /\ t.closed \in BOOLEAN /\ t.closes \in Nat /\ t.closes + 1 \in Nat /\ << >> \in Seq(Nat)
  <2>1. t.kind \in TransportKind /\ t.closed \in BOOLEAN /\ t.closes \in Nat BY DEF TransportType
  <2>2. << >> \in Seq(Nat) /\ t.closes + 1 \in Nat BY <2>1
  <2> QED BY <2>1, <2>2, TransportAssumption
<1>2. CASE t.closed
  <2>1. u = t BY <1>2 DEF transportDisposed
  <2> QED BY <1>2, <2>1 DEF TransportOK, KeptInv
<1>3. CASE ~t.closed /\ t.kind = "ndjson"
  <2>1. u = [t EXCEPT !.closed = TRUE, !.listener = FALSE, !.buffer = << >>, !.wire = << >>, !.closes = @ + 1]
    BY <1>3 DEF transportDisposed
  <2>2. /\ u \in TransportType /\ u.kind = t.kind /\ u.closed /\ ~u.listener /\ u.buffer = << >> /\ u.wire = << >>
        /\ u.closes = t.closes + 1 /\ u.delivered = t.delivered /\ u.frames = t.frames /\ u.received = t.received
    BY <1>1, <2>1 DEF TransportType
  <2> HIDE DEF u
  <2>3. OrderInv(u) BY <2>2 DEF OrderInv, isAscending, AllBefore, AllUpTo
  <2>4. TransportOK(u) BY <1>1, <1>3, <2>2, <2>3 DEF TransportOK, StackInv, KeptInv, ClosedInv
  <2> QED BY <2>2, <2>4 DEF u
<1>4. CASE ~t.closed /\ t.kind \in {"websocket", "header"}
  <2>1. u = [t EXCEPT !.closed = TRUE, !.closes = @ + 1] BY <1>4 DEF transportDisposed
  <2>2. /\ u \in TransportType /\ u.kind = t.kind /\ u.closed /\ u.listener = t.listener /\ u.buffer = t.buffer /\ u.wire = t.wire
        /\ u.closes = t.closes + 1 /\ u.delivered = t.delivered /\ u.frames = t.frames /\ u.received = t.received
    BY <1>1, <2>1 DEF TransportType
  <2> HIDE DEF u
  <2>3. TransportOK(u) BY <1>1, <1>4, <2>2 DEF TransportOK, StackInv, KeptInv, ClosedInv, OrderInv
  <2> QED BY <2>2, <2>3 DEF u
<1>5. CASE ~t.closed /\ t.kind = "mux"
  <2>1. u = [t EXCEPT !.closed = TRUE, !.listener = FALSE, !.buffer = << >>]
    BY <1>5 DEF transportDisposed
  <2>2. /\ u \in TransportType /\ u.kind = t.kind /\ u.closed /\ ~u.listener /\ u.buffer = << >> /\ u.wire = t.wire
        /\ u.closes = t.closes /\ u.delivered = t.delivered /\ u.frames = t.frames /\ u.received = t.received
    BY <1>1, <2>1 DEF TransportType
  <2> HIDE DEF u
  <2>3. OrderInv(u) BY <2>2 DEF OrderInv, isAscending, AllBefore, AllUpTo
  <2>4. TransportOK(u) BY <1>1, <1>5, <2>2, <2>3 DEF TransportOK, StackInv, KeptInv, ClosedInv
  <2> QED BY <2>2, <2>4 DEF u
<1>6. CASE ~t.closed /\ t.kind \in {"memory", "window"}
  <2>1. u = [t EXCEPT !.closed = TRUE] BY <1>6 DEF transportDisposed
  <2>2. /\ u \in TransportType /\ u.kind = t.kind /\ u.closed /\ u.listener = t.listener /\ u.buffer = t.buffer /\ u.wire = t.wire
        /\ u.closes = t.closes /\ u.delivered = t.delivered /\ u.frames = t.frames /\ u.received = t.received
    BY <1>1, <2>1 DEF TransportType
  <2> HIDE DEF u
  <2>3. TransportOK(u) BY <1>1, <1>6, <2>2 DEF TransportOK, StackInv, KeptInv, ClosedInv, OrderInv
  <2> QED BY <2>2, <2>3 DEF u
<1> QED BY <1>1, <1>2, <1>3, <1>4, <1>5, <1>6

\* _deliver: dropped by a channel that is closed, given to the listener, too much for the
\* buffer, or buffered.
LEMMA MessageDelivered ==
    ASSUME NEW t \in TransportType, NEW m \in Nat
    PROVE  LET u == deliverMessage(t, m) IN
           \/ t.kind = "mux" /\ t.closed /\ u = t
           \/ /\ ~(t.kind = "mux" /\ t.closed) /\ t.listener
              /\ u = [[t EXCEPT !.delivered = Append(@, m)] EXCEPT !.frames = <<"listener">> \o @]
           \/ ~t.listener /\ t.kind = "header" /\ u = transportDisposed(t)
           \/ ~(t.kind = "mux" /\ t.closed) /\ ~t.listener /\ u = [t EXCEPT !.buffer = Append(@, m)]
BY DEF deliverMessage, pushFrame

\* The next message of the event goes to the listener, or to the end of the buffer.
LEMMA EventStep ==
    ASSUME TransportInv, EventLoop
    PROVE  TransportInv' /\ (transport.kind \in {"ndjson", "mux"} /\ transport.closed => transport'.delivered = transport.delivered)
<1> DEFINE s == transport
           m == Head(s.wire)
           rest == Tail(s.wire)
           t == [s EXCEPT !.wire = rest]
<1>1. /\ s \in TransportType /\ StackInv(s) /\ OrderInv(s) /\ KeptInv(s) /\ ClosedInv(s)
  BY DEF TransportInv, TransportOK
<1>2. /\ s.wire \in Seq(Nat) /\ s.buffer \in Seq(Nat) /\ s.delivered \in Seq(Nat) /\ s.frames \in Seq(Activation)
      /\ s.received \in Nat /\ s.kind \in TransportKind /\ s.listener \in BOOLEAN /\ s.closed \in BOOLEAN
  BY <1>1 DEF TransportType
<1>3. s.frames # << >> /\ s.frames[1] = "event" /\ Len(s.frames) = 1
  <2>1. s.frames # << >> /\ Head(s.frames) = "event" BY DEF EventLoop, topFrame
  <2>2. 1 \in 1..Len(s.frames) /\ s.frames[1] = "event" BY <1>2, <2>1, FramePopped
  <2> QED BY <1>1, <2>1, <2>2 DEF StackInv
<1>4. ~(s.listener /\ s.buffer # << >>) BY <1>1, <1>3 DEF StackInv
<1>5. CASE s.wire = << >> \/ (s.kind = "header" /\ s.closed)
  <2> DEFINE e == [s EXCEPT !.wire = << >>]
  <2>1. transport' = [e EXCEPT !.frames = Tail(@)] BY <1>5 DEF EventLoop, popFrame, transportIs
  <2>2. /\ e \in TransportType /\ e.wire = << >> /\ e.frames = s.frames /\ e.buffer = s.buffer /\ e.listener = s.listener
    <3>1. << >> \in Seq(Nat) OBVIOUS
    <3> QED BY <1>1, <3>1 DEF TransportType
  <2>3. StackInv(e) BY <1>1, <2>2 DEF StackInv
  <2>4. transport' \in TransportType /\ StackInv(transport') BY <1>3, <2>1, <2>2, <2>3, StackPopped
  <2>5. /\ transport'.kind = s.kind /\ transport'.closed = s.closed /\ transport'.closes = s.closes
        /\ transport'.buffer = s.buffer /\ transport'.wire = << >> /\ transport'.delivered = s.delivered
        /\ transport'.received = s.received
    BY <1>1, <2>1 DEF TransportType
  <2>6. OrderInv(transport')
    <3>1. isAscending(<< >>) /\ AllUpTo(<< >>, s.received) /\ \A q : AllBefore(q, << >>)
      BY DEF isAscending, AllBefore, AllUpTo
    <3> QED BY <1>1, <2>5, <3>1 DEF OrderInv
  <2>7. KeptInv(transport') BY <1>1, <1>5, <2>5 DEF KeptInv
  <2>8. ClosedInv(transport') BY <1>1, <2>5 DEF ClosedInv
  <2> QED BY <2>4, <2>5, <2>6, <2>7, <2>8 DEF TransportInv, TransportOK
<1>6. CASE s.wire # << >> /\ ~(s.kind = "header" /\ s.closed)
  <2>1. transport' = deliverMessage(t, m) BY <1>6 DEF EventLoop, transportIs
  <2>2. /\ m \in Nat /\ rest \in Seq(Nat) /\ Len(rest) = Len(s.wire) - 1
        /\ Len(s.wire) \in Nat /\ Len(s.buffer) \in Nat /\ Len(s.delivered) \in Nat
        /\ Append(s.buffer, m) \in Seq(Nat) /\ Len(Append(s.buffer, m)) = Len(s.buffer) + 1
        /\ Append(s.delivered, m) \in Seq(Nat) /\ Len(Append(s.delivered, m)) = Len(s.delivered) + 1
    BY <1>2, <1>6, MessageMoves
  <2>3. s.kind # "memory" =>
            /\ isAscending(rest) /\ AllUpTo(rest, s.received)
            /\ AllBefore(s.delivered, rest) /\ AllBefore(s.buffer, rest)
            /\ isAscending(Append(s.buffer, m)) /\ AllBefore(Append(s.buffer, m), rest)
            /\ AllBefore(s.delivered, Append(s.buffer, m)) /\ AllUpTo(Append(s.buffer, m), s.received)
            /\ isAscending(Append(s.delivered, m)) /\ AllBefore(Append(s.delivered, m), rest)
            /\ AllUpTo(Append(s.delivered, m), s.received)
    <3>1. SUFFICES ASSUME s.kind # "memory"
                   PROVE  /\ isAscending(rest) /\ AllUpTo(rest, s.received)
                          /\ AllBefore(s.delivered, rest) /\ AllBefore(s.buffer, rest)
                          /\ isAscending(Append(s.buffer, m)) /\ AllBefore(Append(s.buffer, m), rest)
                          /\ AllBefore(s.delivered, Append(s.buffer, m)) /\ AllUpTo(Append(s.buffer, m), s.received)
                          /\ isAscending(Append(s.delivered, m)) /\ AllBefore(Append(s.delivered, m), rest)
                          /\ AllUpTo(Append(s.delivered, m), s.received)
      OBVIOUS
    <3>2. /\ isAscending(s.delivered) /\ isAscending(s.buffer) /\ isAscending(s.wire)
          /\ AllBefore(s.delivered, s.buffer) /\ AllBefore(s.delivered, s.wire) /\ AllBefore(s.buffer, s.wire)
          /\ AllUpTo(s.delivered, s.received) /\ AllUpTo(s.buffer, s.received) /\ AllUpTo(s.wire, s.received)
      BY <1>1, <3>1 DEF OrderInv
    <3>3. /\ isAscending(rest) /\ isAscending(Append(s.buffer, m)) /\ AllBefore(Append(s.buffer, m), rest)
          /\ isAscending(Append(s.delivered, m)) /\ AllBefore(Append(s.delivered, m), rest)
      BY <1>2, <1>6, <3>2, AscendingMoves
    <3>4. /\ AllUpTo(rest, s.received) /\ AllBefore(s.delivered, rest) /\ AllBefore(s.buffer, rest)
          /\ AllBefore(s.delivered, Append(s.buffer, m)) /\ AllUpTo(Append(s.buffer, m), s.received)
          /\ AllUpTo(Append(s.delivered, m), s.received)
      BY <1>2, <1>6, <3>2, OthersStay
    <3> QED BY <3>3, <3>4
  <2>4. \A n : /\ Holds(s.wire, n) => /\ Holds(rest, n) \/ Holds(Append(s.buffer, m), n)
                                      /\ Holds(rest, n) \/ Holds(Append(s.delivered, m), n)
               /\ Holds(s.buffer, n) => Holds(Append(s.buffer, m), n)
               /\ Holds(s.delivered, n) => Holds(Append(s.delivered, m), n)
    BY <1>2, <1>6, HoldsMoves
  <2>s. Len(s.delivered) + Len(s.buffer) + Len(s.wire) = s.received
          => /\ Len(Append(s.delivered, m)) + Len(s.buffer) + Len(rest) = s.received
             /\ Len(s.delivered) + Len(Append(s.buffer, m)) + Len(rest) = s.received
    <3> DEFINE w == s.wire
               b == s.buffer
               d == s.delivered
               r == s.received
    <3>1. w \in Seq(Nat) /\ b \in Seq(Nat) /\ d \in Seq(Nat) /\ w # << >> /\ r \in Nat BY <1>2, <1>6
    <3> HIDE DEF w, b, d, r
    <3>2. Len(d) + Len(b) + Len(w) = r => Len(Append(d, Head(w))) + Len(b) + Len(Tail(w)) = r
      BY <3>1, CountStays
    <3>3. Len(d) + Len(b) + Len(w) = r => Len(d) + Len(Append(b, Head(w))) + Len(Tail(w)) = r
      BY <3>1, CountStays
    <3> QED BY <3>2, <3>3, Zenon DEF w, b, d, r
  <2>5. /\ t \in TransportType /\ t.kind = s.kind /\ t.listener = s.listener /\ t.closed = s.closed /\ t.closes = s.closes
        /\ t.buffer = s.buffer /\ t.wire = rest /\ t.delivered = s.delivered /\ t.frames = s.frames
        /\ t.received = s.received
    BY <1>1, <2>2 DEF TransportType
  <2> HIDE DEF m, rest, t
  <2>6. StackInv(t) BY <1>1, <1>3, <1>4, <2>5 DEF StackInv
  <2>7. OrderInv(t) BY <1>1, <2>3, <2>5 DEF OrderInv
  <2>8. ClosedInv(t) BY <1>1, <1>6, <2>5 DEF ClosedInv
  <2>9. CASE t.kind = "mux" /\ t.closed /\ transport' = t
    BY <2>5, <2>6, <2>7, <2>8, <2>9 DEF TransportInv, TransportOK, KeptInv
  <2>10. CASE /\ ~(t.kind = "mux" /\ t.closed) /\ t.listener
              /\ transport' = [[t EXCEPT !.delivered = Append(@, m)] EXCEPT !.frames = <<"listener">> \o @]
    <3> DEFINE d == [t EXCEPT !.delivered = Append(@, m)]
    <3>1. /\ d \in TransportType /\ d.wire = t.wire /\ d.frames = t.frames /\ d.buffer = t.buffer /\ d.listener = t.listener
      BY <2>2, <2>5 DEF TransportType
    <3>2. StackInv(d) BY <2>6, <3>1 DEF StackInv
    <3>3. transport' \in TransportType /\ StackInv(transport')
      BY <2>10, <3>1, <3>2, StackPushed DEF Activation
    <3>4. /\ transport'.kind = s.kind /\ transport'.closed = s.closed /\ transport'.closes = s.closes
          /\ transport'.buffer = s.buffer /\ transport'.wire = rest /\ transport'.delivered = Append(s.delivered, m)
          /\ transport'.received = s.received
      BY <2>5, <2>10 DEF TransportType
    <3>5. s.buffer = << >> BY <1>4, <2>5, <2>10
    <3>6. OrderInv(transport') BY <2>3, <3>4, <3>5 DEF OrderInv, isAscending, AllBefore, AllUpTo
    <3>7. KeptInv(transport')
      <4>1. SUFFICES ASSUME ~s.closed
                     PROVE  /\ \A n \in 1..s.received : Holds(Append(s.delivered, m), n) \/ Holds(s.buffer, n) \/ Holds(rest, n)
                            /\ Len(Append(s.delivered, m)) + Len(s.buffer) + Len(rest) = s.received
        BY <3>4 DEF KeptInv
      <4>2. /\ \A n \in 1..s.received : Holds(s.delivered, n) \/ Holds(s.buffer, n) \/ Holds(s.wire, n)
            /\ Len(s.delivered) + Len(s.buffer) + Len(s.wire) = s.received
        BY <1>1, <4>1 DEF KeptInv
      <4>3. \A n \in 1..s.received : Holds(Append(s.delivered, m), n) \/ Holds(s.buffer, n) \/ Holds(rest, n)
        BY <2>4, <4>2
      <4>4. Len(Append(s.delivered, m)) + Len(s.buffer) + Len(rest) = s.received BY <2>s, <4>2
      <4> QED BY ONLY <4>3, <4>4
    <3>8. ClosedInv(transport') BY <2>5, <2>8, <3>4 DEF ClosedInv
    <3>9. ~(s.kind \in {"ndjson", "mux"} /\ s.closed) BY <1>1, <1>6, <2>5, <2>10 DEF ClosedInv
    <3> QED BY <3>3, <3>6, <3>7, <3>8, <3>9 DEF TransportInv, TransportOK
  <2>11. CASE ~t.listener /\ t.kind = "header" /\ transport' = transportDisposed(t)
    BY <2>5, <2>6, <2>7, <2>8, <2>11, TransportEnds DEF TransportInv
  <2>12. CASE ~(t.kind = "mux" /\ t.closed) /\ ~t.listener /\ transport' = [t EXCEPT !.buffer = Append(@, m)]
    <3>1. /\ transport' \in TransportType /\ transport'.kind = s.kind /\ transport'.closed = s.closed
          /\ transport'.closes = s.closes /\ transport'.buffer = Append(s.buffer, m) /\ transport'.wire = rest
          /\ transport'.delivered = s.delivered /\ transport'.received = s.received
          /\ transport'.frames = s.frames /\ ~transport'.listener
      BY <2>2, <2>5, <2>12 DEF TransportType
    <3>2. StackInv(transport') BY <2>5, <2>6, <3>1 DEF StackInv
    <3>3. OrderInv(transport') BY <1>1, <2>3, <3>1 DEF OrderInv
    <3>4. KeptInv(transport')
      <4>1. SUFFICES ASSUME ~s.closed
                     PROVE  /\ \A n \in 1..s.received : Holds(s.delivered, n) \/ Holds(Append(s.buffer, m), n) \/ Holds(rest, n)
                            /\ Len(s.delivered) + Len(Append(s.buffer, m)) + Len(rest) = s.received
        BY <3>1 DEF KeptInv
      <4>2. /\ \A n \in 1..s.received : Holds(s.delivered, n) \/ Holds(s.buffer, n) \/ Holds(s.wire, n)
            /\ Len(s.delivered) + Len(s.buffer) + Len(s.wire) = s.received
        BY <1>1, <4>1 DEF KeptInv
      <4>3. \A n \in 1..s.received : Holds(s.delivered, n) \/ Holds(Append(s.buffer, m), n) \/ Holds(rest, n)
        BY <2>4, <4>2
      <4>4. Len(s.delivered) + Len(Append(s.buffer, m)) + Len(rest) = s.received BY <2>s, <4>2
      <4> QED BY ONLY <4>3, <4>4
    <3>5. ~(s.kind = "ndjson" /\ s.closed) BY <1>1, <1>6 DEF ClosedInv
    <3>6. ClosedInv(transport') BY <1>1, <3>1, <3>5 DEF ClosedInv
    <3> QED BY <3>1, <3>2, <3>3, <3>4, <3>6 DEF TransportInv, TransportOK
  <2> QED BY <2>1, <2>2, <2>5, <2>9, <2>10, <2>11, <2>12, MessageDelivered
<1> QED BY <1>5, <1>6

\* Only the activations differ.
LEMMA OnlyFrames ==
    ASSUME NEW s, NEW u, TransportOK(s), u \in TransportType, StackInv(u),
           u.kind = s.kind, u.closed = s.closed, u.closes = s.closes, u.buffer = s.buffer, u.wire = s.wire,
           u.delivered = s.delivered, u.received = s.received
    PROVE  TransportOK(u)
<1>1. OrderInv(u) BY DEF TransportOK, OrderInv
<1>2. KeptInv(u) BY DEF TransportOK, KeptInv
<1>3. ClosedInv(u) BY DEF TransportOK, ClosedInv
<1> QED BY <1>1, <1>2, <1>3 DEF TransportOK

\* The drain gives the first message of the buffer to the listener, or ends.
LEMMA DrainStep ==
    ASSUME TransportInv, DrainLoop
    PROVE  TransportInv' /\ (transport.kind \in {"ndjson", "mux"} /\ transport.closed => transport'.delivered = transport.delivered)
<1> DEFINE s == transport
           m == Head(s.buffer)
           rest == Tail(s.buffer)
           t == [s EXCEPT !.buffer = rest]
<1>1. /\ s \in TransportType /\ StackInv(s) /\ OrderInv(s) /\ KeptInv(s) /\ ClosedInv(s) /\ TransportOK(s)
  BY DEF TransportInv, TransportOK
<1>2. /\ s.wire \in Seq(Nat) /\ s.buffer \in Seq(Nat) /\ s.delivered \in Seq(Nat) /\ s.frames \in Seq(Activation)
      /\ s.received \in Nat /\ s.kind \in TransportKind /\ s.listener \in BOOLEAN /\ s.closed \in BOOLEAN
  BY <1>1 DEF TransportType
<1>3. s.frames # << >> /\ s.frames[1] = "drain" /\ 1 \in 1..Len(s.frames)
  <2>1. s.frames # << >> /\ Head(s.frames) = "drain" BY DEF DrainLoop, topFrame
  <2> QED BY <1>2, <2>1, FramePopped
<1>4. CASE s.buffer = << >> \/ ~s.listener
  <2>1. transport' = [s EXCEPT !.frames = Tail(@)] BY <1>4 DEF DrainLoop, popFrame
  <2>2. transport' \in TransportType /\ StackInv(transport') BY <1>1, <1>3, <1>4, <2>1, StackPopped
  <2>3. /\ transport'.kind = s.kind /\ transport'.closed = s.closed /\ transport'.closes = s.closes
        /\ transport'.buffer = s.buffer /\ transport'.wire = s.wire /\ transport'.delivered = s.delivered
        /\ transport'.received = s.received
    BY <1>1, <2>1 DEF TransportType
  <2> QED BY <1>1, <2>2, <2>3, OnlyFrames DEF TransportInv
<1>5. CASE s.buffer # << >> /\ s.listener
  <2>1. transport' = deliverMessage(t, m) BY <1>5 DEF DrainLoop
  <2>2. /\ m \in Nat /\ rest \in Seq(Nat) /\ Append(s.delivered, m) \in Seq(Nat)
    BY <1>2, <1>5, MessageMoves
  <2>3. s.kind # "memory" =>
            /\ isAscending(rest) /\ AllUpTo(rest, s.received) /\ AllBefore(rest, s.wire)
            /\ isAscending(Append(s.delivered, m)) /\ AllBefore(Append(s.delivered, m), rest)
            /\ AllBefore(Append(s.delivered, m), s.wire) /\ AllUpTo(Append(s.delivered, m), s.received)
            /\ AllBefore(s.delivered, rest)
    <3>1. SUFFICES ASSUME s.kind # "memory"
                   PROVE  /\ isAscending(rest) /\ AllUpTo(rest, s.received) /\ AllBefore(rest, s.wire)
                          /\ isAscending(Append(s.delivered, m)) /\ AllBefore(Append(s.delivered, m), rest)
                          /\ AllBefore(Append(s.delivered, m), s.wire) /\ AllUpTo(Append(s.delivered, m), s.received)
                          /\ AllBefore(s.delivered, rest)
      OBVIOUS
    <3>2. /\ isAscending(s.delivered) /\ isAscending(s.buffer)
          /\ AllBefore(s.delivered, s.buffer) /\ AllBefore(s.delivered, s.wire) /\ AllBefore(s.buffer, s.wire)
          /\ AllUpTo(s.delivered, s.received) /\ AllUpTo(s.buffer, s.received)
      BY <1>1, <3>1 DEF OrderInv
    <3>3. /\ isAscending(rest) /\ isAscending(Append(s.delivered, m)) /\ AllBefore(Append(s.delivered, m), rest)
      BY <1>2, <1>5, <3>2, AscendingMoves
    <3>4. /\ AllUpTo(rest, s.received) /\ AllBefore(rest, s.wire) /\ AllBefore(s.delivered, rest)
          /\ AllBefore(Append(s.delivered, m), s.wire) /\ AllUpTo(Append(s.delivered, m), s.received)
      BY <1>2, <1>5, <3>2, OthersStay
    <3> QED BY <3>3, <3>4
  <2>4. \A n : /\ Holds(s.buffer, n) => Holds(rest, n) \/ Holds(Append(s.delivered, m), n)
               /\ Holds(s.delivered, n) => Holds(Append(s.delivered, m), n)
    BY <1>2, <1>5, HoldsMoves
  <2>s. Len(s.delivered) + Len(s.buffer) + Len(s.wire) = s.received
          => Len(Append(s.delivered, m)) + Len(rest) + Len(s.wire) = s.received
    <3> DEFINE w == s.wire
               b == s.buffer
               d == s.delivered
               r == s.received
    <3>1. w \in Seq(Nat) /\ b \in Seq(Nat) /\ d \in Seq(Nat) /\ b # << >> /\ r \in Nat BY <1>2, <1>5
    <3> HIDE DEF w, b, d, r
    <3>2. Len(d) + Len(b) + Len(w) = r => Len(Append(d, Head(b))) + Len(Tail(b)) + Len(w) = r
      BY <3>1, CountMoves
    <3> QED BY <3>2, Zenon DEF w, b, d, r
  <2>5. /\ t \in TransportType /\ t.kind = s.kind /\ t.listener = s.listener /\ t.closed = s.closed /\ t.closes = s.closes
        /\ t.buffer = rest /\ t.wire = s.wire /\ t.delivered = s.delivered /\ t.frames = s.frames
        /\ t.received = s.received
    BY <1>1, <2>2 DEF TransportType
  <2> HIDE DEF m, rest, t
  <2>6. StackInv(t) BY <1>1, <1>3, <2>5 DEF StackInv
  <2>7. OrderInv(t) BY <1>1, <2>3, <2>5 DEF OrderInv
  <2>8. ~(s.kind = "ndjson" /\ s.closed) BY <1>1, <1>5 DEF ClosedInv
  <2>9. ClosedInv(t) BY <1>1, <2>5, <2>8 DEF ClosedInv
  <2>10. CASE t.kind = "mux" /\ t.closed /\ transport' = t
    BY <2>5, <2>6, <2>7, <2>9, <2>10 DEF TransportInv, TransportOK, KeptInv
  <2>11. CASE /\ ~(t.kind = "mux" /\ t.closed)
              /\ transport' = [[t EXCEPT !.delivered = Append(@, m)] EXCEPT !.frames = <<"listener">> \o @]
    <3> DEFINE d == [t EXCEPT !.delivered = Append(@, m)]
    <3>1. /\ d \in TransportType /\ d.wire = t.wire /\ d.frames = t.frames /\ d.buffer = t.buffer /\ d.listener = t.listener
      BY <2>2, <2>5 DEF TransportType
    <3>2. StackInv(d) BY <2>6, <3>1 DEF StackInv
    <3>3. transport' \in TransportType /\ StackInv(transport')
      BY <2>11, <3>1, <3>2, StackPushed DEF Activation
    <3>4. /\ transport'.kind = s.kind /\ transport'.closed = s.closed /\ transport'.closes = s.closes
          /\ transport'.buffer = rest /\ transport'.wire = s.wire /\ transport'.delivered = Append(s.delivered, m)
          /\ transport'.received = s.received
      BY <2>5, <2>11 DEF TransportType
    <3>5. OrderInv(transport') BY <1>1, <2>3, <3>4 DEF OrderInv
    <3>6. KeptInv(transport')
      <4>1. SUFFICES ASSUME ~s.closed
                     PROVE  /\ \A n \in 1..s.received : Holds(Append(s.delivered, m), n) \/ Holds(rest, n) \/ Holds(s.wire, n)
                            /\ Len(Append(s.delivered, m)) + Len(rest) + Len(s.wire) = s.received
        BY <3>4 DEF KeptInv
      <4>2. /\ \A n \in 1..s.received : Holds(s.delivered, n) \/ Holds(s.buffer, n) \/ Holds(s.wire, n)
            /\ Len(s.delivered) + Len(s.buffer) + Len(s.wire) = s.received
        BY <1>1, <4>1 DEF KeptInv
      <4>3. \A n \in 1..s.received : Holds(Append(s.delivered, m), n) \/ Holds(rest, n) \/ Holds(s.wire, n)
        BY <2>4, <4>2
      <4>4. Len(Append(s.delivered, m)) + Len(rest) + Len(s.wire) = s.received BY <2>s, <4>2
      <4> QED BY ONLY <4>3, <4>4
    <3>7. ClosedInv(transport') BY <2>5, <2>9, <3>4 DEF ClosedInv
    <3>8. ~(s.kind \in {"ndjson", "mux"} /\ s.closed) BY <2>5, <2>8, <2>11
    <3> QED BY <3>3, <3>5, <3>6, <3>7, <3>8 DEF TransportInv, TransportOK
  <2> QED BY <1>5, <2>1, <2>2, <2>5, <2>10, <2>11, MessageDelivered
<1> QED BY <1>2, <1>4, <1>5

\* A number is appended, and an event of consecutive numbers.
LEMMA NextAppended ==
    ASSUME NEW t \in Seq(Nat), NEW x \in Nat
    PROVE  /\ Append(t, x) \in Seq(Nat) /\ Holds(Append(t, x), x)
           /\ \A m : Holds(t, m) => Holds(Append(t, x), m)
<1> DEFINE u == Append(t, x)
<1>1. /\ u \in Seq(Nat) /\ Len(u) = Len(t) + 1 /\ Len(t) \in Nat /\ u[Len(t) + 1] = x
      /\ \A i \in 1..Len(t) : u[i] = t[i]
  OBVIOUS
<1> HIDE DEF u
<1>2. Len(u) \in 1..Len(u) /\ u[Len(u)] = x BY <1>1
<1>3. \A i \in 1..Len(t) : i \in 1..Len(u) BY <1>1
<1>4. Holds(u, x) /\ \A m : Holds(t, m) => Holds(u, m) BY <1>1, <1>2, <1>3 DEF Holds
<1> QED BY <1>1, <1>4 DEF u

LEMMA MemoryStep ==
    ASSUME TransportInv, MemorySends
    PROVE  TransportInv' /\ (transport.kind \in {"ndjson", "mux"} /\ transport.closed => transport'.delivered = transport.delivered)
<1> DEFINE s == transport
           n == s.received + 1
           t == [s EXCEPT !.received = n]
<1>1. /\ s \in TransportType /\ StackInv(s) /\ KeptInv(s) BY DEF TransportInv, TransportOK
<1>2. /\ s.wire \in Seq(Nat) /\ s.buffer \in Seq(Nat) /\ s.delivered \in Seq(Nat)
      /\ s.received \in Nat /\ n \in Nat
  BY <1>1 DEF TransportType
<1>3. s.kind = "memory" /\ ~s.closed /\ transport' = deliverMessage(t, n)
  BY DEF MemorySends, transportIs
<1>4. /\ Append(s.buffer, n) \in Seq(Nat) /\ Append(s.delivered, n) \in Seq(Nat)
      /\ Holds(Append(s.buffer, n), n) /\ \A m : Holds(s.buffer, m) => Holds(Append(s.buffer, n), m)
      /\ Holds(Append(s.delivered, n), n) /\ \A m : Holds(s.delivered, m) => Holds(Append(s.delivered, n), m)
  BY <1>2, NextAppended
<1>5. /\ \A m \in 1..s.received : Holds(s.delivered, m) \/ Holds(s.buffer, m) \/ Holds(s.wire, m)
      /\ Len(s.delivered) + Len(s.buffer) + Len(s.wire) = s.received
  BY <1>1, <1>3 DEF KeptInv
<1>6. \A m \in 1..n : m \in 1..s.received \/ m = n BY <1>2
<1>7. /\ Len(Append(s.delivered, n)) + Len(s.buffer) + Len(s.wire) = n
      /\ Len(s.delivered) + Len(Append(s.buffer, n)) + Len(s.wire) = n
  <2> DEFINE d == s.delivered
             b == s.buffer
             w == s.wire
             r == s.received
  <2>1. d \in Seq(Nat) /\ b \in Seq(Nat) /\ w \in Seq(Nat) /\ r \in Nat /\ r + 1 \in Nat /\ Len(d) + Len(b) + Len(w) = r
    BY <1>2, <1>5
  <2> HIDE DEF d, b, w, r
  <2>2. /\ Len(Append(d, r + 1)) + Len(b) + Len(w) = r + 1
        /\ Len(d) + Len(Append(b, r + 1)) + Len(w) = r + 1
    BY <2>1, CountGrows
  <2> QED BY <2>2, Zenon DEF d, b, w, r
<1>8. /\ t \in TransportType /\ t.kind = s.kind /\ t.listener = s.listener /\ t.closed = s.closed /\ t.closes = s.closes
      /\ t.buffer = s.buffer /\ t.wire = s.wire /\ t.delivered = s.delivered /\ t.frames = s.frames
      /\ t.received = n
  BY <1>1, <1>2 DEF TransportType
<1> HIDE DEF n, t
<1>9. CASE t.listener /\ transport' = [[t EXCEPT !.delivered = Append(@, n)] EXCEPT !.frames = <<"listener">> \o @]
  <2> DEFINE d == [t EXCEPT !.delivered = Append(@, n)]
  <2>1. /\ d \in TransportType /\ d.wire = t.wire /\ d.frames = t.frames /\ d.buffer = t.buffer /\ d.listener = t.listener
    BY <1>4, <1>8 DEF TransportType
  <2>2. StackInv(d) BY <1>1, <1>8, <2>1 DEF StackInv
  <2>3. transport' \in TransportType /\ StackInv(transport')
    BY <1>9, <2>1, <2>2, StackPushed DEF Activation
  <2>4. /\ transport'.kind = s.kind /\ transport'.closed = s.closed /\ transport'.closes = s.closes
        /\ transport'.buffer = s.buffer /\ transport'.wire = s.wire /\ transport'.delivered = Append(s.delivered, n)
        /\ transport'.received = n
    BY <1>8, <1>9 DEF TransportType
  <2>5. \A m \in 1..n : Holds(Append(s.delivered, n), m) \/ Holds(s.buffer, m) \/ Holds(s.wire, m)
    BY <1>4, <1>5, <1>6
  <2>6. KeptInv(transport') BY <1>7, <2>4, <2>5 DEF KeptInv
  <2> QED BY <1>3, <2>3, <2>4, <2>6 DEF TransportInv, TransportOK, OrderInv, ClosedInv
<1>10. CASE ~t.listener /\ transport' = [t EXCEPT !.buffer = Append(@, n)]
  <2>1. /\ transport' \in TransportType /\ transport'.kind = s.kind /\ transport'.closed = s.closed
        /\ transport'.closes = s.closes /\ transport'.buffer = Append(s.buffer, n) /\ transport'.wire = s.wire
        /\ transport'.delivered = s.delivered /\ transport'.received = n /\ transport'.frames = s.frames
        /\ ~transport'.listener
    BY <1>4, <1>8, <1>10 DEF TransportType
  <2>2. StackInv(transport') BY <1>1, <2>1 DEF StackInv
  <2>3. \A m \in 1..n : Holds(s.delivered, m) \/ Holds(Append(s.buffer, n), m) \/ Holds(s.wire, m)
    BY <1>4, <1>5, <1>6
  <2>4. KeptInv(transport') BY <1>7, <2>1, <2>3 DEF KeptInv
  <2> QED BY <1>3, <2>1, <2>2, <2>4 DEF TransportInv, TransportOK, OrderInv, ClosedInv
<1> QED BY <1>2, <1>3, <1>8, <1>9, <1>10, MessageDelivered DEF n

\* An event comes when nothing runs, so that all that came before is delivered or buffered.
LEMMA ArrivalStep ==
    ASSUME TransportInv, NEW k \in 1..MaxChunk, EventArrives(k)
    PROVE  TransportInv' /\ transport'.delivered = transport.delivered
<1> DEFINE s == transport
           w == [i \in 1..k |-> s.received + i]
           n == s.received + k
           f == <<"event">> \o s.frames
<1>1. /\ s \in TransportType /\ StackInv(s) /\ OrderInv(s) /\ KeptInv(s) /\ ClosedInv(s)
  BY DEF TransportInv, TransportOK
<1>2. /\ s.wire \in Seq(Nat) /\ s.buffer \in Seq(Nat) /\ s.delivered \in Seq(Nat) /\ s.frames \in Seq(Activation)
      /\ s.received \in Nat /\ k \in Nat
  BY <1>1, TransportAssumption DEF TransportType
<1>3. n \in Nat /\ w \in Seq(Nat) /\ Len(w) = k /\ \A i \in 1..k : w[i] = s.received + i BY <1>2
<1>4. s.frames = << >>
  <2>1. ASSUME s.frames # << >> PROVE FALSE
    <3>1. Head(s.frames) = s.frames[1] /\ 1 \in 1..Len(s.frames) BY <1>2, <2>1, FramePopped
    <3>2. s.frames[1] \in Activation BY <1>2, <3>1
    <3>3. Head(s.frames) = "none" BY <2>1 DEF EventArrives, topFrame
    <3> QED BY <3>1, <3>2, <3>3 DEF Activation
  <2> QED BY <2>1
<1>5. s.wire = << >> BY <1>1, <1>4 DEF StackInv
<1>6. /\ f \in Seq(Activation) /\ f # << >> /\ Len(f) = 1 /\ f[1] = "event"
  BY <1>2, <1>4, FramePushed DEF Activation
<1>7. transport' = [[s EXCEPT !.wire = w, !.received = n] EXCEPT !.frames = f]
  BY DEF EventArrives, pushFrame
<1> HIDE DEF w, n, f
<1>8. /\ transport' \in TransportType /\ transport'.kind = s.kind /\ transport'.closed = s.closed
      /\ transport'.closes = s.closes /\ transport'.buffer = s.buffer /\ transport'.wire = w
      /\ transport'.delivered = s.delivered /\ transport'.received = n /\ transport'.frames = f
      /\ transport'.listener = s.listener
  BY <1>1, <1>3, <1>6, <1>7 DEF TransportType
<1>9. ~(s.listener /\ s.buffer # << >>) BY <1>1, <1>4 DEF StackInv
<1>10. StackInv(transport')
  <2>1. \A i \in 1..Len(f) : i = Len(f) BY <1>6
  <2>2. f # << >> /\ f[Len(f)] = "event" BY <1>6
  <2> QED BY <1>8, <1>9, <2>1, <2>2 DEF StackInv
<1>11. OrderInv(transport')
  <2>1. SUFFICES ASSUME s.kind # "memory"
                 PROVE  /\ isAscending(s.delivered) /\ isAscending(s.buffer) /\ isAscending(w)
                        /\ AllBefore(s.delivered, s.buffer) /\ AllBefore(s.delivered, w) /\ AllBefore(s.buffer, w)
                        /\ AllUpTo(s.delivered, n) /\ AllUpTo(s.buffer, n) /\ AllUpTo(w, n)
    BY <1>8 DEF OrderInv
  <2>2. /\ isAscending(s.delivered) /\ isAscending(s.buffer) /\ AllBefore(s.delivered, s.buffer)
        /\ AllUpTo(s.delivered, s.received) /\ AllUpTo(s.buffer, s.received)
    BY <1>1, <2>1 DEF OrderInv
  <2>5. isAscending(w) BY <1>2, <1>3 DEF isAscending
  <2>6. /\ AllBefore(s.delivered, w) /\ AllBefore(s.buffer, w)
        /\ AllUpTo(s.delivered, n) /\ AllUpTo(s.buffer, n)
    BY <1>2, <2>2, EventIsLater DEF w, n
  <2>7. AllUpTo(w, n) BY <1>2, <1>3 DEF AllUpTo, n
  <2> QED BY <2>2, <2>5, <2>6, <2>7
<1>12. KeptInv(transport')
  <2>1. SUFFICES ASSUME ~s.closed
                 PROVE  /\ \A m \in 1..n : Holds(s.delivered, m) \/ Holds(s.buffer, m) \/ Holds(w, m)
                        /\ Len(s.delivered) + Len(s.buffer) + Len(w) = n
    BY <1>8 DEF KeptInv
  <2>2. /\ \A m \in 1..s.received : Holds(s.delivered, m) \/ Holds(s.buffer, m) \/ Holds(s.wire, m)
        /\ Len(s.delivered) + Len(s.buffer) + Len(s.wire) = s.received
    BY <1>1, <2>1 DEF KeptInv
  <2>3. Len(s.wire) = 0 /\ \A m : ~Holds(s.wire, m) BY <1>5 DEF Holds
  <2>4. Len(s.delivered) + Len(s.buffer) + Len(w) = n
    <3> DEFINE d == s.delivered
               b == s.buffer
               x == s.wire
               r == s.received
    <3>1. /\ d \in Seq(Nat) /\ b \in Seq(Nat) /\ x \in Seq(Nat) /\ r \in Nat /\ Len(d) + Len(b) + Len(x) = r
          /\ Len(x) = 0
      BY <1>2, <2>2, <2>3
    <3> HIDE DEF d, b, x, r
    <3>2. Len(d) + Len(b) + Len(w) = r + Len(w)
      <4>1. w \in Seq(Nat) BY <1>3
      <4>2. Len(d) \in Nat /\ Len(b) \in Nat /\ Len(w) \in Nat BY <3>1, <4>1
      <4>3. PICK a \in Nat : a = Len(d) BY <4>2, Zenon
      <4>4. PICK c \in Nat : c = Len(b) BY <4>2, Zenon
      <4>5. PICK g \in Nat : g = Len(w) BY <4>2, Zenon
      <4>6. a + c + 0 = r BY <3>1, <4>3, <4>4, Zenon
      <4>7. a + c + g = r + g BY ONLY <3>1, <4>6, a \in Nat, c \in Nat, g \in Nat, SMT
      <4> QED BY <4>3, <4>4, <4>5, <4>7, Zenon
    <3> QED BY <1>3, <3>2, Zenon DEF d, b, r, n
  <2>5. ASSUME NEW m \in 1..n PROVE Holds(s.delivered, m) \/ Holds(s.buffer, m) \/ Holds(w, m)
    <3>1. CASE m \in 1..s.received BY <2>2, <2>3, <3>1
    <3>2. CASE m \notin 1..s.received
      <4>1. m - s.received \in 1..k /\ s.received + (m - s.received) = m BY <1>2, <3>2 DEF n
      <4> QED BY <1>3, <4>1 DEF Holds
    <3> QED BY <3>1, <3>2
  <2> QED BY <2>4, <2>5
<1>13. s.closed => s.kind \in {"websocket", "mux"} BY DEF EventArrives, transportIs
<1>14. ClosedInv(transport') BY <1>1, <1>8, <1>13 DEF ClosedInv
<1> QED BY <1>8, <1>10, <1>11, <1>12, <1>14 DEF TransportInv, TransportOK

LEMMA ListenerStep ==
    ASSUME TransportInv, NEW listener \in BOOLEAN, SetListener(listener)
    PROVE  TransportInv' /\ transport'.delivered = transport.delivered
<1> DEFINE s == transport
           u == [s EXCEPT !.frames = <<"drain">> \o @]
<1>1. /\ s \in TransportType /\ StackInv(s) /\ OrderInv(s) /\ KeptInv(s) /\ ClosedInv(s)
  BY DEF TransportInv, TransportOK
<1>2. CASE ~listener
  <2>1. transport' = [s EXCEPT !.listener = FALSE] BY <1>2 DEF SetListener
  <2>2. /\ transport' \in TransportType /\ transport'.kind = s.kind /\ transport'.closed = s.closed
        /\ transport'.closes = s.closes /\ transport'.buffer = s.buffer /\ transport'.wire = s.wire
        /\ transport'.delivered = s.delivered /\ transport'.received = s.received /\ transport'.frames = s.frames
        /\ ~transport'.listener
    BY <1>1, <2>1 DEF TransportType
  <2> QED BY <1>1, <2>2 DEF TransportInv, TransportOK, StackInv, OrderInv, KeptInv, ClosedInv
<1>3. CASE listener
  <2>1. transport' = [[s EXCEPT !.listener = TRUE] EXCEPT !.frames = <<"drain">> \o @]
    BY <1>3 DEF SetListener, pushFrame
  <2>2. u \in TransportType /\ StackInv(u) BY <1>1, StackPushed DEF Activation
  <2>3. transport' = [u EXCEPT !.listener = TRUE] BY <1>1, <2>1 DEF TransportType
  <2>4. s.frames \in Seq(Activation) BY <1>1 DEF TransportType
  <2>5. u.frames[1] = "drain" /\ 1 \in 1..Len(u.frames)
    <3> DEFINE f == s.frames
    <3>1. u.frames = <<"drain">> \o f BY <1>1 DEF TransportType
    <3>2. (<<"drain">> \o f)[1] = "drain" /\ 1 \in 1..Len(<<"drain">> \o f)
      BY <2>4, FramePushed DEF Activation
    <3> QED BY <3>1, <3>2
  <2>6. /\ u.kind = s.kind /\ u.closed = s.closed /\ u.closes = s.closes /\ u.buffer = s.buffer /\ u.wire = s.wire
        /\ u.delivered = s.delivered /\ u.received = s.received
    BY <1>1 DEF TransportType
  <2> HIDE DEF u
  <2>7. /\ transport' \in TransportType /\ transport'.kind = u.kind /\ transport'.closed = u.closed
        /\ transport'.closes = u.closes /\ transport'.buffer = u.buffer /\ transport'.wire = u.wire
        /\ transport'.delivered = u.delivered /\ transport'.received = u.received /\ transport'.frames = u.frames
    BY <2>2, <2>3 DEF TransportType
  <2>8. StackInv(transport') BY <2>2, <2>5, <2>7 DEF StackInv
  <2>9. TransportOK(s) BY <1>1 DEF TransportOK
  <2>10. TransportOK(transport') BY <2>6, <2>7, <2>8, <2>9, OnlyFrames
  <2> QED BY <2>6, <2>7, <2>10 DEF TransportInv
<1> QED BY <1>2, <1>3

LEMMA ReturnStep ==
    ASSUME TransportInv, ListenerReturns
    PROVE  TransportInv' /\ transport'.delivered = transport.delivered
<1> DEFINE s == transport
<1>1. /\ s \in TransportType /\ StackInv(s) /\ TransportOK(s) /\ s.frames \in Seq(Activation)
  BY DEF TransportInv, TransportOK, TransportType
<1>2. s.frames # << >> /\ s.frames[1] = "listener"
  <2>1. s.frames # << >> /\ Head(s.frames) = "listener" BY DEF ListenerReturns, topFrame
  <2> QED BY <1>1, <2>1, FramePopped
<1>3. transport' = [s EXCEPT !.frames = Tail(@)] BY DEF ListenerReturns, popFrame
<1>4. transport' \in TransportType /\ StackInv(transport') BY <1>1, <1>2, <1>3, StackPopped
<1>5. /\ transport'.kind = s.kind /\ transport'.closed = s.closed /\ transport'.closes = s.closes
      /\ transport'.buffer = s.buffer /\ transport'.wire = s.wire /\ transport'.delivered = s.delivered
      /\ transport'.received = s.received
  BY <1>1, <1>3 DEF TransportType
<1> QED BY <1>1, <1>4, <1>5, OnlyFrames DEF TransportInv

LEMMA TransportInitial == TransportInit => TransportInv
<1> SUFFICES ASSUME TransportInit PROVE TransportInv
  OBVIOUS
<1>1. PICK kind \in TransportKind :
          transport = [kind |-> kind, listener |-> FALSE, closed |-> FALSE, closes |-> 0,
                       buffer |-> << >>, wire |-> << >>, delivered |-> << >>, frames |-> << >>, received |-> 0]
  BY DEF TransportInit
<1>2. << >> \in Seq(Nat) /\ << >> \in Seq(Activation) /\ Len(<< >>) = 0 OBVIOUS
<1>3. /\ transport \in TransportType /\ ~transport.closed /\ transport.closes = 0 /\ transport.buffer = << >>
      /\ transport.wire = << >> /\ transport.delivered = << >> /\ transport.frames = << >> /\ transport.received = 0
      /\ ~transport.listener
  BY <1>1, <1>2 DEF TransportType
<1>4. StackInv(transport) /\ ClosedInv(transport) BY <1>3 DEF StackInv, ClosedInv
<1>5. OrderInv(transport) BY <1>3 DEF OrderInv, isAscending, AllBefore, AllUpTo
<1>6. KeptInv(transport) BY <1>3 DEF KeptInv
<1> QED BY <1>3, <1>4, <1>5, <1>6 DEF TransportInv, TransportOK

LEMMA TransportStep ==
    ASSUME TransportInv, [TransportNext]_transport
    PROVE  /\ TransportInv'
           /\ transport.kind \in {"ndjson", "mux"} /\ transport.closed => transport'.delivered = transport.delivered
<1>1. CASE UNCHANGED transport BY <1>1 DEF TransportInv
<1>2. CASE TransportDispose
  <2>1. transport' = transportDisposed(transport) BY <1>2 DEF TransportDispose
  <2> QED BY <2>1, TransportEnds DEF TransportInv, TransportOK
<1> QED BY <1>1, <1>2, MemoryStep, ArrivalStep, EventStep, ListenerStep, DrainStep, ReturnStep DEF TransportNext

LEMMA TransportShows ==
    ASSUME TransportInv
    PROVE  NothingSwallowed /\ DeliveredInOrder /\ ClosesOnce
<1> DEFINE s == transport
           d == s.delivered
           b == s.buffer
           w == s.wire
<1>1. /\ s \in TransportType /\ StackInv(s) /\ OrderInv(s) /\ KeptInv(s) /\ ClosedInv(s)
  BY DEF TransportInv, TransportOK
<1>2. /\ d \in Seq(Nat) /\ b \in Seq(Nat) /\ w \in Seq(Nat) /\ s.frames \in Seq(Activation)
      /\ s.listener \in BOOLEAN /\ s.received \in Nat
  BY <1>1 DEF TransportType
<1>3. DeliveredInOrder
  <2>1. SUFFICES ASSUME s.kind # "memory" PROVE isAscending(d \o b)
    BY DEF DeliveredInOrder, transportIs
  <2>2. isAscending(d) /\ isAscending(b) /\ AllBefore(d, b) BY <1>1, <2>1 DEF OrderInv
  <2> QED BY <1>2, <2>2, AscendingJoined
<1>4. ClosesOnce BY <1>1 DEF ClosesOnce, ClosedInv, transportIs
<1>5. NothingSwallowed
  <2> DEFINE kept == d \o b \o w
  <2>1. SUFFICES ASSUME ~s.closed
                 PROVE  /\ \A m \in 1..s.received : \E i \in 1..Len(kept) : kept[i] = m
                        /\ Len(kept) = s.received
                        /\ topFrame = "none" /\ s.listener => s.buffer = << >>
    BY DEF NothingSwallowed
  <2>2. /\ \A m \in 1..s.received : Holds(d, m) \/ Holds(b, m) \/ Holds(w, m)
        /\ Len(d) + Len(b) + Len(w) = s.received
    BY <1>1, <2>1 DEF KeptInv
  <2>3. /\ Len(kept) = Len(d) + Len(b) + Len(w)
        /\ \A m : Holds(d, m) \/ Holds(b, m) \/ Holds(w, m) => Holds(kept, m)
    BY <1>2, HoldsJoined
  <2>4. topFrame = "none" /\ s.listener => s.buffer = << >>
    <3>1. ASSUME s.frames # << >>, topFrame = "none" PROVE FALSE
      <4>1. Head(s.frames) = s.frames[1] /\ 1 \in 1..Len(s.frames) BY <1>2, <3>1, FramePopped
      <4>2. s.frames[1] \in Activation BY <1>2, <4>1
      <4> QED BY <3>1, <4>1, <4>2 DEF Activation, topFrame
    <3> QED BY <1>1, <3>1 DEF StackInv
  <2> HIDE DEF kept
  <2>5. \A m \in 1..s.received : \E i \in 1..Len(kept) : kept[i] = m BY <2>2, <2>3 DEF Holds
  <2> QED BY <2>2, <2>3, <2>4, <2>5
<1> QED BY <1>3, <1>4, <1>5
=============================================================================
