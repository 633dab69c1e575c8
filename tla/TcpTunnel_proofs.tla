-------------------------- MODULE TcpTunnel_proofs --------------------------
(***************************************************************************)
(* The tunnel for TCP connections, for any connections, window and limits: *)
(* what either end may send, what is on its way and what the other has not *)
(* given back yet add up, slots are counted, and both ends agree.          *)
(*                                                                         *)
(* The invariant (Orderly) speaks of the slots, of the room at the node,   *)
(* and of each connection by itself (ConnInv, Owed).  Every change is a    *)
(* lemma about any state that is in order but for n bytes of credit which  *)
(* the client still owes for connection d (TunnelOK), so that handlers     *)
(* made of several changes follow from the changes they are made of.       *)
(***************************************************************************)
EXTENDS TcpTunnel, FiniteSetTheorems, WellFoundedInduction, TLAPS

\* The least element of a set of natural numbers.
LEMMA LeastIndex ==
    ASSUME NEW T \in SUBSET Nat, T # {}
    PROVE  \E n \in T : \A m \in T : n <= m
<1> DEFINE Less == OpToRel(<, Nat)
<1>1. IsWellFoundedOn(Less, Nat) BY ONLY NatLessThanWellFounded
<1>2. \A x \in T, y \in T : <<y, x>> \notin Less => x <= y BY DEF OpToRel
<1> HIDE DEF Less
<1>3. \E x \in T : \A y \in T : ~ (<<y, x>> \in Less) BY <1>1, WFMin
<1> QED BY <1>2, <1>3

\* What is wrong somewhere in 0..n is wrong at 0, or at a number whose predecessor is right.
LEMMA FirstWrongIndex ==
    ASSUME NEW n \in Nat, NEW T \in SUBSET (0..n), T # {}
    PROVE  0 \in T \/ \E k \in 1..n : k \in T /\ k - 1 \notin T
<1>1. PICK k \in T : \A m \in T : k <= m BY LeastIndex
<1>2. k \in 0..n OBVIOUS
<1>3. k # 0 => k \in 1..n /\ ~(k <= k - 1) BY <1>2
<1> QED BY <1>1, <1>3

\* m[k] is the sum of the first k numbers.
Sums(m, b) ==
    m \in [0..Len(b) -> Nat] /\ m[0] = 0 /\ \A k \in 1..Len(b) : m[k] = m[k - 1] + b[k]

LEMMA SumsExist ==
    ASSUME NEW b \in Seq(Nat)
    PROVE  \E m : Sums(m, b)
<1> DEFINE Up(m, n) == m \in [0..n -> Nat] /\ m[0] = 0 /\ \A k \in 1..n : m[k] = m[k - 1] + b[k]
           T == {n \in 0..Len(b) : ~ \E m : Up(m, n)}
<1>0. Len(b) \in Nat /\ \A k \in 1..Len(b) : b[k] \in Nat OBVIOUS
<1>1. SUFFICES ASSUME T # {} PROVE FALSE
    <2>1. Len(b) \in 0..Len(b) BY <1>0
    <2>2. T = {} => \E m : Up(m, Len(b)) BY <2>1
    <2>3. \A m : Up(m, Len(b)) => Sums(m, b) BY DEF Sums
    <2> HIDE DEF T, Up
    <2> QED BY <2>2, <2>3
<1>2. 0 \notin T
    <2>1. Up([k \in 0..0 |-> 0], 0) OBVIOUS
    <2> QED BY <2>1
<1>3. PICK n \in 1..Len(b) : n \in T /\ n - 1 \notin T
    <2>1. T \in SUBSET (0..Len(b)) OBVIOUS
    <2> HIDE DEF T
    <2> QED BY <1>0, <1>1, <1>2, <2>1, FirstWrongIndex
<1>4. n - 1 \in 0..Len(b) /\ n \in Nat /\ n > 0 /\ b[n] \in Nat BY <1>0
<1>5. PICK m : Up(m, n - 1) BY <1>3, <1>4
<1> DEFINE last == m[n - 1] + b[n]
           v == [k \in 0..n |-> IF k = n THEN last ELSE m[k]]
<1>6. m[n - 1] \in Nat /\ n - 1 \in 0..(n - 1) BY <1>4, <1>5
<1>7. last \in Nat BY <1>4, <1>6
<1>8. v \in [0..n -> Nat]
    <2> HIDE DEF last
    <2>1. \A k \in 0..n : k # n => k \in 0..(n - 1) BY <1>4
    <2> QED BY <1>5, <1>7, <2>1
<1>9. v[0] = 0 /\ v[n] = last /\ \A k \in 0..(n - 1) : v[k] = m[k]
    <2> HIDE DEF last
    <2>1. 0 \in 0..n /\ n \in 0..n /\ 0 # n /\ \A k \in 0..(n - 1) : k \in 0..n /\ k # n BY <1>4
    <2> QED BY <1>5, <2>1
<1>10. \A k \in 1..n : v[k] = v[k - 1] + b[k]
    <2> HIDE DEF v
    <2> TAKE k \in 1..n
    <2>1. CASE k = n BY <1>6, <1>9, <2>1
    <2>2. CASE k # n
        <3>1. k \in 1..(n - 1) /\ k \in 0..(n - 1) /\ k - 1 \in 0..(n - 1) BY <1>4, <2>2
        <3> QED BY <1>5, <1>9, <3>1
    <2> QED BY <2>1, <2>2
<1>11. Up(v, n) BY <1>8, <1>9, <1>10
<1> QED BY <1>3, <1>11

LEMMA TotalIs ==
    ASSUME NEW b \in Seq(Nat), NEW m, Sums(m, b)
    PROVE  total(b) = m[Len(b)] /\ total(b) \in Nat
<1> DEFINE L == Len(b)
           eq(f) == f = [i \in 0..L |-> IF i = 0 THEN 0 ELSE f[i - 1] + b[i]]
           walk == CHOOSE f : eq(f)
<1>1. total(b) = walk[L] BY DEF total
<1>2. L \in Nat OBVIOUS
<1>3. eq(m)
    <2>1. \A i \in 0..L : i = 0 \/ i \in 1..L BY <1>2
    <2> QED BY <2>1 DEF Sums
<1>4. eq(walk)
    <2> HIDE DEF eq
    <2> QED BY <1>3
<1>5. \A i \in 0..L : walk[i] = IF i = 0 THEN 0 ELSE walk[i - 1] + b[i]
    <2> HIDE DEF walk
    <2> QED BY <1>4
<1> HIDE DEF walk, eq
<1> DEFINE T == {k \in 0..L : walk[k] # m[k]}
<1>6. T = {}
    <2> SUFFICES ASSUME T # {} PROVE FALSE
      OBVIOUS
    <2>1. T \in SUBSET (0..L) OBVIOUS
    <2>2. 0 \notin T BY <1>2, <1>5 DEF Sums
    <2>3. PICK k \in 1..L : k \in T /\ k - 1 \notin T
        <3> HIDE DEF T
        <3> QED BY <1>2, <2>1, <2>2, FirstWrongIndex
    <2>4. k \in 0..L /\ k - 1 \in 0..L /\ k # 0 BY <1>2
    <2> QED BY <1>5, <2>3, <2>4 DEF Sums
<1>7. L \in 0..L BY <1>2
<1> QED BY <1>1, <1>6, <1>7 DEF Sums

\* The sum of a sequence that grows at its end or shrinks at its head.
LEMMA TotalOf ==
    ASSUME NEW b \in Seq(Nat)
    PROVE  /\ total(b) \in Nat
           /\ \A n \in Nat : total(Append(b, n)) = total(b) + n
           /\ b # << >> => total(b) = Head(b) + total(Tail(b)) /\ total(Tail(b)) \in Nat
           /\ (\A k \in 1..Len(b) : b[k] = 0) => total(b) = 0
           /\ total(<< >>) = 0
<1>0. Len(b) \in Nat /\ \A k \in 1..Len(b) : b[k] \in Nat OBVIOUS
<1>1. PICK m : Sums(m, b) BY SumsExist
<1>2. total(b) = m[Len(b)] /\ total(b) \in Nat BY <1>1, TotalIs
<1>3. ASSUME NEW n \in Nat PROVE total(Append(b, n)) = total(b) + n
  <2> DEFINE L == Len(b)
             a == Append(b, n)
             v == [k \in 0..L + 1 |-> IF k = L + 1 THEN m[L] + n ELSE m[k]]
  <2>1. a \in Seq(Nat) /\ Len(a) = L + 1 /\ a[L + 1] = n /\ \A k \in 1..L : a[k] = b[k] OBVIOUS
  <2>2. L \in Nat /\ m[L] \in Nat /\ m \in [0..L -> Nat] /\ m[0] = 0 /\ \A k \in 1..L : m[k] = m[k - 1] + b[k]
    BY <1>0, <1>1 DEF Sums
  <2> HIDE DEF a, L
  <2>3. \A k \in 0..L + 1 : k = L + 1 \/ k \in 0..L BY <2>2
  <2>4. v \in [0..L + 1 -> Nat] /\ v[L + 1] = m[L] + n /\ \A k \in 0..L : v[k] = m[k]
    <3>1. L + 1 \in 0..L + 1 /\ \A k \in 0..L : k \in 0..L + 1 /\ k # L + 1 BY <2>2
    <3> QED BY <2>2, <2>3, <3>1
  <2> HIDE DEF v
  <2>5. \A k \in 1..L + 1 : v[k] = v[k - 1] + a[k]
    <3> TAKE k \in 1..L + 1
    <3>1. CASE k = L + 1
      <4>1. k - 1 = L /\ L \in 0..L BY <2>2, <3>1
      <4> QED BY <2>1, <2>4, <3>1, <4>1
    <3>2. CASE k # L + 1
      <4>1. k \in 1..L /\ k \in 0..L /\ k - 1 \in 0..L BY <2>2, <3>2
      <4> QED BY <2>1, <2>2, <2>4, <4>1
    <3> QED BY <3>1, <3>2
  <2>6. Sums(v, a)
    <3>1. 0 \in 0..L BY <2>2
    <3> QED BY <2>1, <2>2, <2>4, <2>5, <3>1 DEF Sums
  <2>7. total(a) = v[L + 1] BY <2>1, <2>6, TotalIs
  <2> QED BY <1>2, <2>4, <2>7 DEF a, L
<1>4. b # << >> => total(b) = Head(b) + total(Tail(b)) /\ total(Tail(b)) \in Nat
  <2> SUFFICES ASSUME b # << >> PROVE total(b) = Head(b) + total(Tail(b)) /\ total(Tail(b)) \in Nat
    OBVIOUS
  <2> DEFINE L == Len(b)
             a == Tail(b)
             h == Head(b)
  <2>1. a \in Seq(Nat) /\ Len(a) = L - 1 /\ h = b[1] /\ L \in Nat \ {0} /\ h \in Nat /\ \A k \in 1..L - 1 : a[k] = b[k + 1]
    OBVIOUS
  <2> HIDE DEF a, h, L
  <2>2. PICK w : Sums(w, a) BY <2>1, SumsExist
  <2>3. total(a) = w[L - 1] /\ total(a) \in Nat BY <2>1, <2>2, TotalIs
  <2>4. w \in [0..L - 1 -> Nat] /\ w[0] = 0 /\ \A k \in 1..L - 1 : w[k] = w[k - 1] + b[k + 1]
    BY <2>1, <2>2 DEF Sums
  <2> DEFINE v == [k \in 0..L |-> IF k = 0 THEN 0 ELSE h + w[k - 1]]
  <2>5. \A k \in 1..L : k \in 0..L /\ k # 0 /\ k - 1 \in 0..L - 1 /\ (k # 1 => k - 1 \in 1..L - 1 /\ (k - 1) - 1 \in 0..L - 1 /\ (k - 1) + 1 = k)
    BY <2>1
  <2>6. v[0] = 0 /\ \A k \in 1..L : v[k] = h + w[k - 1]
    <3>1. 0 \in 0..L BY <2>1
    <3> QED BY <2>5, <3>1
  <2>7. v \in [0..L -> Nat]
    <3>1. \A k \in 0..L : k = 0 \/ k \in 1..L BY <2>1
    <3> QED BY <2>1, <2>4, <2>5, <3>1
  <2> HIDE DEF v
  <2>8. \A k \in 1..L : v[k] = v[k - 1] + b[k]
    <3> TAKE k \in 1..L
    <3>1. CASE k = 1
      <4>1. k - 1 = 0 /\ b[k] = h BY <2>1, <3>1
      <4> QED BY <2>1, <2>4, <2>6, <4>1
    <3>2. CASE k # 1
      <4>1. k - 1 \in 1..L - 1 /\ k - 1 \in 1..L /\ (k - 1) - 1 \in 0..L - 1 /\ (k - 1) + 1 = k /\ w[(k - 1) - 1] \in Nat
        <5>1. k - 1 \in 1..L BY <2>1, <3>2
        <5>2. (k - 1) - 1 \in 0..L - 1 /\ k - 1 \in 1..L - 1 /\ (k - 1) + 1 = k BY <2>5, <3>2
        <5> QED BY <2>4, <5>1, <5>2
      <4>2. w[k - 1] = w[(k - 1) - 1] + b[k] BY <2>4, <4>1
      <4>3. v[k] = h + w[k - 1] /\ v[k - 1] = h + w[(k - 1) - 1] BY <2>6, <4>1
      <4>4. b[k] \in Nat BY <1>0 DEF L
      <4>5. h + (w[(k - 1) - 1] + b[k]) = (h + w[(k - 1) - 1]) + b[k]
        <5>1. \A x, y, z \in Nat : x + (y + z) = (x + y) + z OBVIOUS
        <5>2. h \in Nat /\ w[(k - 1) - 1] \in Nat /\ b[k] \in Nat BY <2>1, <4>1, <4>4
        <5> QED BY <5>1, <5>2, Zenon
      <4> QED BY <4>2, <4>3, <4>5
    <3> QED BY <3>1, <3>2
  <2>9. Sums(v, b) BY <2>6, <2>7, <2>8 DEF Sums, L
  <2>10. total(b) = v[L] /\ L \in 1..L BY <2>1, <2>9, TotalIs DEF L
  <2> QED BY <2>3, <2>6, <2>10 DEF a, h
<1>5. ASSUME NEW z \in Seq(Nat), \A k \in 1..Len(z) : z[k] = 0 PROVE total(z) = 0
  <2> DEFINE v == [k \in 0..Len(z) |-> 0]
  <2>1. Len(z) \in Nat /\ \A k \in 1..Len(z) : k \in 0..Len(z) /\ k - 1 \in 0..Len(z) OBVIOUS
  <2>2. Sums(v, z) BY <1>5, <2>1 DEF Sums
  <2>3. total(z) = v[Len(z)] BY <2>2, TotalIs
  <2> QED BY <2>1, <2>3
<1>6. total(<< >>) = 0
  <2>1. << >> \in Seq(Nat) /\ \A k \in 1..Len(<< >>) : FALSE OBVIOUS
  <2> QED BY <1>5, <2>1
<1> QED BY <1>2, <1>3, <1>4, <1>5, <1>6

-----------------------------------------------------------------------------
(* The invariant.                                                          *)

UpFrame == {f \in TunnelFrame : f.type \in {"open", "data", "credit", "end", "close"} /\ (f.type = "data" => f.bytes \in 1..FrameLimit)}

DownFrame == {f \in TunnelFrame : f.type \in {"opened", "data", "credit", "end", "closed"} /\ (f.type = "data" => f.bytes \in 1..FrameLimit)}

OpenerState == {"none", "waiting", "granted", "opening", "done", "failed"}

TunnelType ==
    [up : Seq(UpFrame), down : Seq(DownFrame), ready : BOOLEAN, over : BOOLEAN, aborted : BOOLEAN, late : BOOLEAN,
     opener : [TunnelConn -> OpenerState], waiters : Seq(TunnelConn), slots : 0..MaxConnections,
     sockets : SUBSET TunnelConn, destroyed : SUBSET TunnelConn, remoteClosed : SUBSET TunnelConn,
     acking : SUBSET TunnelConn, ended : SUBSET TunnelConn, remoteEnded : SUBSET TunnelConn,
     backpressured : SUBSET TunnelConn,
     sendCredit : [TunnelConn -> 0..TunnelWindow], recvCredit : [TunnelConn -> 0..TunnelWindow],
     withheld : [TunnelConn -> 0..TunnelWindow],
     pending : [TunnelConn -> Seq(1..FrameLimit)], buffer : [TunnelConn -> Nat], writing : [TunnelConn -> 0..MaxTunnelBytes],
     unwritten : [TunnelConn -> 0..MaxTunnelBytes], unread : [TunnelConn -> 0..MaxTunnelBytes],
     conns : SUBSET TunnelConn, connected : SUBSET TunnelConn, nodeDestroyed : SUBSET TunnelConn,
     outCredit : [TunnelConn -> 0..TunnelWindow], inCredit : [TunnelConn -> 0..TunnelWindow],
     input : [TunnelConn -> Seq(0..FrameLimit)], chunk : [TunnelConn -> 0..MaxTunnelBytes],
     accused : SUBSET TunnelConn, refused : SUBSET TunnelConn]

mentions(wire, c) == \E i \in DOMAIN wire : wire[i].conn = c

\* At most one frame of the connection, or at most one of a type.
single(wire, c) == \A i, j \in DOMAIN wire : wire[i].conn = c /\ wire[j].conn = c => i = j

once(wire, type, c) ==
    \A i, j \in DOMAIN wire : wire[i].type = type /\ wire[i].conn = c /\ wire[j].type = type /\ wire[j].conn = c => i = j

\* Nothing has happened to a connection but that it may have been asked for.
Still(s, c) ==
    /\ c \notin s.conns /\ c \notin s.connected /\ c \notin s.nodeDestroyed /\ c \notin s.remoteEnded
    /\ s.outCredit[c] = 0 /\ s.inCredit[c] = 0 /\ s.chunk[c] = 0 /\ s.input[c] = << >>
    /\ s.sendCredit[c] = 0 /\ s.writing[c] = 0 /\ s.pending[c] = << >> /\ s.withheld[c] = 0 /\ s.buffer[c] = 0
    /\ ~mentions(s.down, c)

\* `open` is the first frame of a connection, and it is sent once.
Fresh(s, c) ==
    /\ s.opener[c] \in {"none", "waiting", "granted"} =>
        Still(s, c) /\ ~mentions(s.up, c) /\ c \notin s.sockets /\ c \notin s.destroyed /\ c \notin s.remoteClosed
    /\ onWire(s.up, "open", c) =>
        /\ Still(s, c) /\ single(s.up, c) /\ s.recvCredit[c] = TunnelWindow
        /\ s.over \/ (c \in s.sockets /\ c \notin s.destroyed)

\* Before `opened` has arrived the client sends no data.
Heard(s, c) ==
    /\ c \notin s.connected \/ onWire(s.down, "opened", c) =>
        /\ s.opener[c] # "done" /\ s.sendCredit[c] = 0 /\ s.writing[c] = 0 /\ s.input[c] = << >>
        /\ ~onWire(s.up, "data", c) /\ ~onWire(s.up, "end", c) /\ ~onWire(s.down, "credit", c)
        /\ c \in s.conns \/ onWire(s.down, "opened", c) => s.inCredit[c] = TunnelWindow
    /\ onWire(s.down, "opened", c) => c \in s.connected
    /\ once(s.down, "opened", c)

Live(s, c) ==
    ~s.over /\ ~s.aborted /\ c \in s.sockets /\ c \in s.conns /\ c \notin s.destroyed /\ c \notin s.nodeDestroyed

\* What either end may still send, with what is on its way.
fromNode(s, c) == s.outCredit[c] + inFrames(s.down, "data", c) + inFrames(s.up, "credit", c)

fromClient(s, c) == s.sendCredit[c] + inFrames(s.up, "data", c) + inFrames(s.down, "credit", c)

\* It is covered by what the other end expects.
Credit(s, c) ==
    /\ fromNode(s, c) <= s.recvCredit[c] /\ fromClient(s, c) <= s.inCredit[c]
    /\ c \in s.conns => s.inCredit[c] + total(s.input[c]) = TunnelWindow
    /\ Live(s, c) => fromNode(s, c) = s.recvCredit[c] /\ (s.opener[c] = "done" => fromClient(s, c) = s.inCredit[c])

\* The client still owes credit for what is pending, withheld, and in its hands.
Owed(s, c, n) == c \in s.sockets => s.recvCredit[c] + total(s.pending[c]) + s.withheld[c] + n = TunnelWindow

Agree(s, c) ==
    /\ c \in s.remoteEnded \/ onWire(s.down, "end", c) => c \in s.nodeDestroyed
    /\ onWire(s.down, "closed", c) => c \notin s.conns /\ ~onWire(s.up, "open", c)
    /\ c \in s.conns => ~s.aborted
    /\ ~s.over /\ c \in s.conns =>
        /\ c \in s.destroyed => c \in s.nodeDestroyed \/ onWire(s.up, "close", c)
        /\ c \notin s.sockets => c \in s.destroyed
    /\ ~s.over /\ ~s.aborted /\ c \in s.sockets /\ c \notin s.conns => onWire(s.up, "open", c) \/ onWire(s.down, "closed", c)
    /\ c \in s.acking => c \in s.sockets /\ c \in s.destroyed
    /\ c \in s.remoteClosed => c \notin s.sockets

ConnInv(s, c) == Fresh(s, c) /\ Heard(s, c) /\ Credit(s, c) /\ Agree(s, c)

grantedOf(s) == {c \in TunnelConn : s.opener[c] = "granted"}

TunnelSlotInv(s) ==
    /\ IsFiniteSet(s.sockets) /\ IsFiniteSet(grantedOf(s))
    /\ s.slots = Cardinality(s.sockets) + Cardinality(grantedOf(s))
    /\ s.waiters # << >> => s.slots = MaxConnections
    /\ \A i \in 1..Len(s.waiters) : s.opener[s.waiters[i]] = "waiting"
    /\ \A c \in TunnelConn : s.opener[c] = "waiting" => \E i \in 1..Len(s.waiters) : s.waiters[i] = c
    /\ \A i, j \in 1..Len(s.waiters) : s.waiters[i] = s.waiters[j] => i = j
    /\ \A c \in s.sockets : s.opener[c] \in {"opening", "done"}
    /\ s.over => s.sockets = {} /\ \A c \in TunnelConn : s.opener[c] \notin {"waiting", "opening"}

\* What the node has or is about to have room for.
roomFor(s) == s.conns \cup {c \in TunnelConn : onWire(s.up, "open", c)}

RoomInv(s) ==
    /\ s.refused = {} \/ s.late
    /\ ~s.late => /\ IsFiniteSet(roomFor(s)) /\ Cardinality(roomFor(s)) <= MaxConnections
                  /\ s.over \/ roomFor(s) \subseteq s.sockets

\* A wire is the same as far as a connection is concerned.
SameWire(w, v, c) ==
    /\ \A ty : (onWire(w, ty, c) <=> onWire(v, ty, c)) /\ inFrames(w, ty, c) = inFrames(v, ty, c)
    /\ \A ty : once(w, ty, c) <=> once(v, ty, c)
    /\ mentions(w, c) <=> mentions(v, c)
    /\ single(w, c) <=> single(v, c)

weights(w, ty, c) == [i \in 1..Len(w) |-> IF w[i].type = ty /\ w[i].conn = c THEN w[i].bytes ELSE 0]

LEMMA WeightsOf ==
    ASSUME NEW w \in Seq(TunnelFrame), NEW ty, NEW c
    PROVE  weights(w, ty, c) \in Seq(Nat) /\ inFrames(w, ty, c) = total(weights(w, ty, c)) /\ Len(weights(w, ty, c)) = Len(w)
<1>1. Len(w) \in Nat /\ \A i \in 1..Len(w) : w[i] \in TunnelFrame OBVIOUS
<1>2. \A i \in 1..Len(w) : w[i].bytes \in Nat BY <1>1, TunnelAssumption DEF TunnelFrame
<1>3. weights(w, ty, c) \in [1..Len(w) -> Nat] BY <1>2 DEF weights
<1>4. weights(w, ty, c) \in Seq(Nat) /\ Len(weights(w, ty, c)) = Len(w) BY <1>1, <1>3
<1> QED BY <1>4 DEF inFrames, weights

LEMMA WireCounts ==
    ASSUME NEW w \in Seq(TunnelFrame), NEW c
    PROVE  /\ \A ty : inFrames(w, ty, c) \in Nat /\ (~onWire(w, ty, c) => inFrames(w, ty, c) = 0)
           /\ \A ty : onWire(w, ty, c) => mentions(w, c)
<1>1. ASSUME NEW ty
      PROVE  inFrames(w, ty, c) \in Nat /\ (~onWire(w, ty, c) => inFrames(w, ty, c) = 0)
  <2>1. /\ weights(w, ty, c) \in Seq(Nat) /\ inFrames(w, ty, c) = total(weights(w, ty, c))
        /\ Len(weights(w, ty, c)) = Len(w) /\ DOMAIN w = 1..Len(w)
    BY WeightsOf
  <2>2. ~onWire(w, ty, c) => \A i \in 1..Len(w) : weights(w, ty, c)[i] = 0
    BY <2>1 DEF onWire, weights
  <2> QED BY <2>1, <2>2, TotalOf
<1>2. \A ty : onWire(w, ty, c) => mentions(w, c) BY DEF onWire, mentions
<1> QED BY <1>1, <1>2

\* A frame is sent.
LEMMA FrameSent ==
    ASSUME NEW w \in Seq(TunnelFrame), NEW f \in TunnelFrame, NEW v, v = Append(w, f)
    PROVE  /\ \A c : c # f.conn => SameWire(w, v, c)
           /\ \A ty : onWire(v, ty, f.conn) <=> onWire(w, ty, f.conn) \/ ty = f.type
           /\ \A ty : inFrames(v, ty, f.conn) = inFrames(w, ty, f.conn) + (IF ty = f.type THEN f.bytes ELSE 0)
           /\ \A ty : once(w, ty, f.conn) /\ (ty # f.type \/ ~onWire(w, ty, f.conn)) => once(v, ty, f.conn)
           /\ mentions(v, f.conn)
           /\ ~mentions(w, f.conn) => single(v, f.conn)
<1> DEFINE L == Len(w)
<1>1. v \in Seq(TunnelFrame) /\ Len(v) = L + 1 /\ L \in Nat /\ v[L + 1] = f /\ \A i \in 1..L : v[i] = w[i]
  OBVIOUS
<1>2. DOMAIN v = 1..L + 1 /\ DOMAIN w = 1..L BY <1>1
<1>3. \A i \in 1..L + 1 : i = L + 1 \/ i \in 1..L BY <1>1
<1>4. L + 1 \in 1..L + 1 /\ \A i \in 1..L : i \in 1..L + 1 /\ i # L + 1 BY <1>1
<1>5. f.bytes \in Nat BY TunnelAssumption DEF TunnelFrame
<1> HIDE DEF L
<1>6. ASSUME NEW ty, NEW c
      PROVE  inFrames(v, ty, c) = inFrames(w, ty, c) + (IF ty = f.type /\ c = f.conn THEN f.bytes ELSE 0)
  <2> DEFINE n == IF ty = f.type /\ c = f.conn THEN f.bytes ELSE 0
  <2>1. /\ weights(w, ty, c) \in Seq(Nat) /\ inFrames(w, ty, c) = total(weights(w, ty, c)) /\ Len(weights(w, ty, c)) = L
        /\ weights(v, ty, c) \in Seq(Nat) /\ inFrames(v, ty, c) = total(weights(v, ty, c)) /\ Len(weights(v, ty, c)) = L + 1
    BY <1>1, WeightsOf DEF L
  <2>2. n \in Nat BY <1>5
  <2>3. \A i \in 1..L : weights(v, ty, c)[i] = weights(w, ty, c)[i] BY <1>1, <1>4 DEF weights, L
  <2>4. weights(v, ty, c)[L + 1] = n BY <1>1, <1>4 DEF weights
  <2> HIDE DEF n
  <2>5. weights(v, ty, c) = Append(weights(w, ty, c), n)
    <3> DEFINE a == Append(weights(w, ty, c), n)
    <3>1. a \in Seq(Nat) /\ Len(a) = L + 1 /\ a[L + 1] = n /\ \A i \in 1..L : a[i] = weights(w, ty, c)[i]
      BY <2>1, <2>2
    <3> HIDE DEF a
    <3>2. \A i \in 1..L + 1 : weights(v, ty, c)[i] = a[i] BY <1>3, <2>3, <2>4, <3>1
    <3>3. weights(v, ty, c) = a BY <2>1, <3>1, <3>2
    <3> QED BY <3>3 DEF a
  <2> QED BY <2>1, <2>2, <2>5, TotalOf, SMTT(30) DEF n
<1>7. \A ty, c : onWire(v, ty, c) <=> onWire(w, ty, c) \/ (ty = f.type /\ c = f.conn)
  BY <1>1, <1>2, <1>3, <1>4 DEF onWire
<1>8. \A c : mentions(v, c) <=> mentions(w, c) \/ c = f.conn BY <1>1, <1>2, <1>3, <1>4 DEF mentions
<1>9. \A ty, c : (ty # f.type \/ c # f.conn) => (once(w, ty, c) <=> once(v, ty, c))
  BY <1>1, <1>2, <1>3, <1>4 DEF once
<1>10. \A ty, c : ~onWire(w, ty, c) => once(v, ty, c) BY <1>1, <1>2, <1>3, <1>4 DEF once, onWire
<1>11. \A c : c # f.conn => (single(w, c) <=> single(v, c)) BY <1>1, <1>2, <1>3, <1>4 DEF single
<1>12. \A c : ~mentions(w, c) => single(v, c) BY <1>1, <1>2, <1>3, <1>4 DEF single, mentions
<1>13. ASSUME NEW c, c # f.conn PROVE SameWire(w, v, c)
  <2>1. \A ty : inFrames(w, ty, c) \in Nat BY WireCounts
  <2>2. \A ty : inFrames(v, ty, c) = inFrames(w, ty, c) BY <1>6, <1>13, <2>1
  <2> QED BY <1>7, <1>8, <1>9, <1>11, <1>13, <2>2 DEF SameWire
<1> QED BY <1>6, <1>7, <1>8, <1>9, <1>10, <1>12, <1>13

Peeled(w, v, f) ==
    \E L \in Nat \ {0} : DOMAIN w = 1..L /\ DOMAIN v = 1..L - 1 /\ w[1] = f /\ \A i \in 1..L - 1 : v[i] = w[i + 1]

LEMMA HeadOff ==
    ASSUME NEW w, NEW v, NEW f, Peeled(w, v, f)
    PROVE  /\ \A ty, c : onWire(w, ty, c) <=> onWire(v, ty, c) \/ (ty = f.type /\ c = f.conn)
           /\ \A c : mentions(w, c) <=> mentions(v, c) \/ c = f.conn
           /\ \A ty, c : once(w, ty, c) => once(v, ty, c)
           /\ \A ty, c : (ty # f.type \/ c # f.conn) /\ once(v, ty, c) => once(w, ty, c)
           /\ once(w, f.type, f.conn) => ~onWire(v, f.type, f.conn)
           /\ \A c : single(w, c) => single(v, c)
           /\ \A c : c # f.conn /\ single(v, c) => single(w, c)
           /\ single(w, f.conn) => ~mentions(v, f.conn)
<1>1. PICK L \in Nat \ {0} : DOMAIN w = 1..L /\ DOMAIN v = 1..L - 1 /\ w[1] = f /\ \A i \in 1..L - 1 : v[i] = w[i + 1]
  BY DEF Peeled
<1>2. DOMAIN v = 1..L - 1 /\ DOMAIN w = 1..L BY <1>1
<1>3. 1 \in 1..L /\ \A i \in 1..L - 1 : i + 1 \in 1..L /\ i + 1 # 1 OBVIOUS
<1>4. \A i \in 1..L : i # 1 => i - 1 \in 1..L - 1 /\ v[i - 1] = w[i] /\ (\A j \in 1..L : i - 1 = j - 1 => i = j)
  <2>1. \A i \in 1..L : i # 1 => i - 1 \in 1..L - 1 /\ (i - 1) + 1 = i OBVIOUS
  <2>2. \A i, j \in 1..L : i - 1 = j - 1 => i = j OBVIOUS
  <2> QED BY <1>1, <2>1, <2>2
<1>5a. \A i, j \in 1..L - 1 : i + 1 = j + 1 => i = j OBVIOUS
<1>7a. \A i \in 1..L : i = 1 \/ \E k \in 1..L - 1 : v[k] = w[i] BY <1>4
<1>7b. \A k \in 1..L - 1 : \E i \in 1..L : v[k] = w[i] BY <1>1, <1>3
<1>7. ASSUME NEW ty, NEW c PROVE onWire(w, ty, c) <=> onWire(v, ty, c) \/ (ty = f.type /\ c = f.conn)
  <2>1. ASSUME onWire(w, ty, c) PROVE onWire(v, ty, c) \/ (ty = f.type /\ c = f.conn)
    <3>1. PICK i \in 1..L : w[i].type = ty /\ w[i].conn = c BY <1>2, <2>1 DEF onWire
    <3>2. CASE i = 1 BY <1>1, <3>1, <3>2
    <3>3. CASE i # 1
      <4>1. PICK k \in 1..L - 1 : v[k] = w[i] BY <1>7a, <3>3
      <4>2. v[k].type = ty /\ v[k].conn = c BY <3>1, <4>1
      <4> QED BY <1>2, <4>2 DEF onWire
    <3> QED BY <3>2, <3>3
  <2>2. ASSUME onWire(v, ty, c) PROVE onWire(w, ty, c)
    <3>1. PICK k \in 1..L - 1 : v[k].type = ty /\ v[k].conn = c BY <1>2, <2>2 DEF onWire
    <3>2. PICK i \in 1..L : v[k] = w[i] BY <1>7b
    <3>3. w[i].type = ty /\ w[i].conn = c BY <1>1, <3>1, <3>2
    <3> QED BY <1>2, <3>3 DEF onWire
  <2>3. ty = f.type /\ c = f.conn => onWire(w, ty, c) BY <1>1, <1>2, <1>3 DEF onWire
  <2> QED BY <2>1, <2>2, <2>3
<1>8. ASSUME NEW c PROVE mentions(w, c) <=> mentions(v, c) \/ c = f.conn
  <2>1. ASSUME mentions(w, c) PROVE mentions(v, c) \/ c = f.conn
    <3>1. PICK i \in 1..L : w[i].conn = c BY <1>2, <2>1 DEF mentions
    <3>2. CASE i = 1 BY <1>1, <3>1, <3>2
    <3>3. CASE i # 1
      <4>1. PICK k \in 1..L - 1 : v[k] = w[i] BY <1>7a, <3>3
      <4>2. v[k].conn = c BY <3>1, <4>1
      <4> QED BY <1>2, <4>2 DEF mentions
    <3> QED BY <3>2, <3>3
  <2>2. ASSUME mentions(v, c) PROVE mentions(w, c)
    <3>1. PICK k \in 1..L - 1 : v[k].conn = c BY <1>2, <2>2 DEF mentions
    <3>2. PICK i \in 1..L : v[k] = w[i] BY <1>7b
    <3>3. w[i].conn = c BY <1>1, <3>1, <3>2
    <3> QED BY <1>2, <3>3 DEF mentions
  <2>3. c = f.conn => mentions(w, c) BY <1>1, <1>2, <1>3 DEF mentions
  <2> QED BY <2>1, <2>2, <2>3
<1>9. \A ty, c : once(w, ty, c) => once(v, ty, c) BY <1>1, <1>2, <1>3, <1>5a, SMTT(30) DEF once
<1>9a. ASSUME NEW i \in 1..L, NEW j \in 1..L, i # 1, j # 1
       PROVE  /\ i - 1 \in 1..L - 1 /\ j - 1 \in 1..L - 1 /\ v[i - 1] = w[i] /\ v[j - 1] = w[j]
              /\ i - 1 = j - 1 => i = j
  BY <1>4, <1>9a
<1>10. ASSUME NEW ty, NEW c, ty # f.type \/ c # f.conn, once(v, ty, c) PROVE once(w, ty, c)
  <2>1. ASSUME NEW i \in 1..L, NEW j \in 1..L, w[i].type = ty /\ w[i].conn = c /\ w[j].type = ty /\ w[j].conn = c
        PROVE  i = j
    <3>1. i # 1 /\ j # 1 BY <1>1, <1>10, <2>1
    <3>2. i - 1 \in 1..L - 1 /\ j - 1 \in 1..L - 1 /\ v[i - 1] = w[i] /\ v[j - 1] = w[j] /\ (i - 1 = j - 1 => i = j)
      BY <1>9a, <3>1
    <3>3. v[i - 1].type = ty /\ v[i - 1].conn = c /\ v[j - 1].type = ty /\ v[j - 1].conn = c
      BY <2>1, <3>2
    <3>4. i - 1 = j - 1 BY <1>2, <1>10, <3>2, <3>3 DEF once
    <3> QED BY <3>2, <3>4
  <2> QED BY <1>2, <2>1 DEF once
<1>11. once(w, f.type, f.conn) => ~onWire(v, f.type, f.conn) BY <1>1, <1>2, <1>3 DEF once, onWire
<1>12. \A c : single(w, c) => single(v, c) BY <1>1, <1>2, <1>3, <1>5a DEF single
<1>13. ASSUME NEW c, c # f.conn, single(v, c) PROVE single(w, c)
  <2>1. ASSUME NEW i \in 1..L, NEW j \in 1..L, w[i].conn = c /\ w[j].conn = c
        PROVE  i = j
    <3>1. i # 1 /\ j # 1 BY <1>1, <1>13, <2>1
    <3>2. i - 1 \in 1..L - 1 /\ j - 1 \in 1..L - 1 /\ v[i - 1] = w[i] /\ v[j - 1] = w[j] /\ (i - 1 = j - 1 => i = j)
      BY <1>9a, <3>1
    <3>3. v[i - 1].conn = c /\ v[j - 1].conn = c BY <2>1, <3>2
    <3>4. i - 1 = j - 1 BY <1>2, <1>13, <3>2, <3>3 DEF single
    <3> QED BY <3>2, <3>4
  <2> QED BY <1>2, <2>1 DEF single
<1>14. single(w, f.conn) => ~mentions(v, f.conn) BY <1>1, <1>2, <1>3 DEF single, mentions
<1> QED BY <1>7, <1>8, <1>9, <1>10, <1>11, <1>12, <1>13, <1>14

\* The oldest frame arrives.
LEMMA FrameTaken ==
    ASSUME NEW w \in Seq(TunnelFrame), w # << >>, NEW v, v = Tail(w), NEW f, f = Head(w)
    PROVE  /\ \A c : c # f.conn => SameWire(w, v, c)
           /\ onWire(w, f.type, f.conn) /\ mentions(w, f.conn)
           /\ \A ty : (onWire(v, ty, f.conn) => onWire(w, ty, f.conn)) /\ (ty # f.type /\ onWire(w, ty, f.conn) => onWire(v, ty, f.conn))
           /\ \A ty : inFrames(w, ty, f.conn) = inFrames(v, ty, f.conn) + (IF ty = f.type THEN f.bytes ELSE 0) /\ inFrames(v, ty, f.conn) \in Nat
           /\ \A ty : once(w, ty, f.conn) => once(v, ty, f.conn) /\ (ty = f.type => ~onWire(v, ty, f.conn))
           /\ single(w, f.conn) => ~mentions(v, f.conn) /\ single(v, f.conn)
           /\ f \in TunnelFrame
           /\ mentions(v, f.conn) => mentions(w, f.conn)
<1> DEFINE L == Len(w)
<1>1. v \in Seq(TunnelFrame) /\ Len(v) = L - 1 /\ L \in Nat \ {0} /\ w[1] = f /\ f \in TunnelFrame /\ \A i \in 1..L - 1 : v[i] = w[i + 1]
  OBVIOUS
<1>2. DOMAIN v = 1..L - 1 /\ DOMAIN w = 1..L BY <1>1
<1>3. 1 \in 1..L /\ \A i \in 1..L - 1 : i + 1 \in 1..L /\ i + 1 # 1 BY <1>1
<1>4. \A i \in 1..L : i # 1 => i - 1 \in 1..L - 1 /\ (i - 1) + 1 = i /\ v[i - 1] = w[i]
  <2>1. \A i \in 1..L : i # 1 => i - 1 \in 1..L - 1 /\ (i - 1) + 1 = i BY <1>1
  <2> QED BY <1>1, <2>1
<1>5. f.bytes \in Nat BY <1>1, TunnelAssumption DEF TunnelFrame
<1>5a. \A i, j \in 1..L - 1 : i + 1 = j + 1 => i = j BY <1>1
<1> HIDE DEF L
<1>6. ASSUME NEW ty, NEW c
      PROVE  /\ inFrames(w, ty, c) = inFrames(v, ty, c) + (IF ty = f.type /\ c = f.conn THEN f.bytes ELSE 0)
             /\ inFrames(v, ty, c) \in Nat
  <2> DEFINE n == IF ty = f.type /\ c = f.conn THEN f.bytes ELSE 0
             a == weights(w, ty, c)
             b == weights(v, ty, c)
  <2>1. /\ a \in Seq(Nat) /\ inFrames(w, ty, c) = total(a) /\ Len(a) = L
        /\ b \in Seq(Nat) /\ inFrames(v, ty, c) = total(b) /\ Len(b) = L - 1
    BY <1>1, WeightsOf DEF L
  <2>2. n \in Nat BY <1>5
  <2>3. \A i \in 1..L - 1 : b[i] = a[i + 1] BY <1>1, <1>3 DEF weights, L
  <2>4. a[1] = n BY <1>1, <1>3 DEF weights, L
  <2> HIDE DEF n, a, b
  <2>5. a # << >> /\ Head(a) = n /\ Tail(a) = b
    <3>1. a # << >> /\ Head(a) = a[1] /\ Tail(a) \in Seq(Nat) /\ Len(Tail(a)) = L - 1 /\ \A i \in 1..L - 1 : Tail(a)[i] = a[i + 1]
      BY <1>1, <2>1
    <3>2. Tail(a) = b BY <2>1, <2>3, <3>1, SMTT(30)
    <3> QED BY <2>4, <3>1, <3>2
  <2>6. total(b) \in Nat /\ total(a) = n + total(b) BY <2>1, <2>5, TotalOf
  <2>7. total(a) = total(b) + n BY <2>2, <2>6
  <2> QED BY <2>1, <2>6, <2>7 DEF n
<1>7. /\ \A ty, c : onWire(w, ty, c) <=> onWire(v, ty, c) \/ (ty = f.type /\ c = f.conn)
      /\ \A c : mentions(w, c) <=> mentions(v, c) \/ c = f.conn
      /\ \A ty, c : once(w, ty, c) => once(v, ty, c)
      /\ \A ty, c : (ty # f.type \/ c # f.conn) /\ once(v, ty, c) => once(w, ty, c)
      /\ once(w, f.type, f.conn) => ~onWire(v, f.type, f.conn)
      /\ \A c : single(w, c) => single(v, c)
      /\ \A c : c # f.conn /\ single(v, c) => single(w, c)
      /\ single(w, f.conn) => ~mentions(v, f.conn)
  <2>1. Peeled(w, v, f) BY <1>1, <1>2 DEF Peeled
  <2> QED BY <2>1, HeadOff
<1>15. ASSUME NEW c, c # f.conn PROVE SameWire(w, v, c)
  <2>1. \A ty : inFrames(w, ty, c) = inFrames(v, ty, c) BY <1>6, <1>15
  <2> QED BY <1>7, <1>15, <2>1 DEF SameWire
<1> QED BY <1>1, <1>6, <1>7, <1>15

\* Nothing changes for a connection, but that it may be given a slot, or fail to be opened.
Same(s, t, c) ==
    /\ SameWire(s.up, t.up, c) /\ SameWire(s.down, t.down, c) /\ s.over = t.over /\ s.aborted = t.aborted
    /\ (c \in s.sockets <=> c \in t.sockets) /\ (c \in s.destroyed <=> c \in t.destroyed)
    /\ (c \in s.remoteClosed <=> c \in t.remoteClosed) /\ (c \in s.acking <=> c \in t.acking)
    /\ (c \in s.remoteEnded <=> c \in t.remoteEnded) /\ (c \in s.conns <=> c \in t.conns)
    /\ (c \in s.connected <=> c \in t.connected) /\ (c \in s.nodeDestroyed <=> c \in t.nodeDestroyed)
    /\ s.sendCredit[c] = t.sendCredit[c] /\ s.recvCredit[c] = t.recvCredit[c] /\ s.withheld[c] = t.withheld[c]
    /\ s.pending[c] = t.pending[c] /\ s.buffer[c] = t.buffer[c] /\ s.writing[c] = t.writing[c]
    /\ s.outCredit[c] = t.outCredit[c] /\ s.inCredit[c] = t.inCredit[c] /\ s.input[c] = t.input[c] /\ s.chunk[c] = t.chunk[c]
    /\ t.opener[c] \in {"none", "waiting", "granted"} => s.opener[c] \in {"none", "waiting", "granted"}
    /\ t.opener[c] = "done" <=> s.opener[c] = "done"

LEMMA SameKeeps ==
    ASSUME NEW s, NEW t, NEW c, Same(s, t, c), ConnInv(s, c)
    PROVE  ConnInv(t, c) /\ \A n : Owed(s, c, n) => Owed(t, c, n)
<1>1. /\ onWire(s.up, "open", c) <=> onWire(t.up, "open", c)
      /\ onWire(s.up, "data", c) <=> onWire(t.up, "data", c)
      /\ onWire(s.up, "end", c) <=> onWire(t.up, "end", c)
      /\ onWire(s.up, "close", c) <=> onWire(t.up, "close", c)
      /\ onWire(s.down, "opened", c) <=> onWire(t.down, "opened", c)
      /\ onWire(s.down, "credit", c) <=> onWire(t.down, "credit", c)
      /\ onWire(s.down, "end", c) <=> onWire(t.down, "end", c)
      /\ onWire(s.down, "closed", c) <=> onWire(t.down, "closed", c)
      /\ mentions(s.up, c) <=> mentions(t.up, c)
      /\ mentions(s.down, c) <=> mentions(t.down, c)
      /\ single(s.up, c) <=> single(t.up, c)
      /\ once(s.down, "opened", c) <=> once(t.down, "opened", c)
  BY DEF Same, SameWire
<1>2. /\ inFrames(s.up, "data", c) = inFrames(t.up, "data", c) /\ inFrames(s.up, "credit", c) = inFrames(t.up, "credit", c)
      /\ inFrames(s.down, "data", c) = inFrames(t.down, "data", c) /\ inFrames(s.down, "credit", c) = inFrames(t.down, "credit", c)
  BY DEF Same, SameWire
<1>3. Still(s, c) => Still(t, c) BY <1>1 DEF Same, Still
<1>4. Fresh(t, c) BY <1>1, <1>3 DEF Same, ConnInv, Fresh
<1>5. Heard(t, c) BY <1>1 DEF Same, ConnInv, Heard
<1>6. Credit(t, c)
  <2>1. Live(t, c) => Live(s, c) BY DEF Same, Live
  <2> QED BY <1>2, <2>1 DEF Same, ConnInv, Credit, fromNode, fromClient
<1>7. Agree(t, c) BY <1>1 DEF Same, ConnInv, Agree
<1>8. ASSUME NEW n, Owed(s, c, n) PROVE Owed(t, c, n)
  BY <1>8 DEF Same, Owed
<1> QED BY <1>4, <1>5, <1>6, <1>7, <1>8 DEF ConnInv

\* Everything, with n bytes of connection d in the hands of the client.
TunnelOK(s, d, n) ==
    /\ s \in TunnelType /\ s.accused = {} /\ TunnelSlotInv(s) /\ RoomInv(s)
    /\ \A c \in TunnelConn : ConnInv(s, c) /\ Owed(s, c, IF c = d THEN n ELSE 0)

LEMMA Wires ==
    ASSUME NEW s \in TunnelType
    PROVE  s.up \in Seq(TunnelFrame) /\ s.down \in Seq(TunnelFrame)
<1>1. s.up \in Seq(UpFrame) /\ s.down \in Seq(DownFrame) /\ UpFrame \subseteq TunnelFrame /\ DownFrame \subseteq TunnelFrame
  BY DEF TunnelType, UpFrame, DownFrame
<1> QED BY <1>1

LEMMA ConnNumbers ==
    ASSUME NEW s \in TunnelType, NEW c \in TunnelConn
    PROVE  /\ s.sendCredit[c] \in Nat /\ s.recvCredit[c] \in Nat /\ s.withheld[c] \in Nat /\ s.outCredit[c] \in Nat /\ s.inCredit[c] \in Nat
           /\ s.sendCredit[c] <= TunnelWindow /\ s.recvCredit[c] <= TunnelWindow /\ s.withheld[c] <= TunnelWindow
           /\ s.outCredit[c] <= TunnelWindow /\ s.inCredit[c] <= TunnelWindow
           /\ s.pending[c] \in Seq(Nat) /\ s.input[c] \in Seq(Nat) /\ total(s.pending[c]) \in Nat /\ total(s.input[c]) \in Nat
           /\ s.buffer[c] \in Nat /\ s.writing[c] \in Nat /\ s.chunk[c] \in Nat
           /\ inFrames(s.up, "data", c) \in Nat /\ inFrames(s.up, "credit", c) \in Nat
           /\ inFrames(s.down, "data", c) \in Nat /\ inFrames(s.down, "credit", c) \in Nat
<1>0. TunnelWindow \in Nat /\ FrameLimit \in Nat /\ MaxTunnelBytes \in Nat BY TunnelAssumption
<1>1. /\ s.sendCredit[c] \in 0..TunnelWindow /\ s.recvCredit[c] \in 0..TunnelWindow /\ s.withheld[c] \in 0..TunnelWindow
      /\ s.outCredit[c] \in 0..TunnelWindow /\ s.inCredit[c] \in 0..TunnelWindow
      /\ s.buffer[c] \in Nat /\ s.writing[c] \in 0..MaxTunnelBytes /\ s.chunk[c] \in 0..MaxTunnelBytes
  BY DEF TunnelType
<1>a. s.pending[c] \in Seq(1..FrameLimit) /\ s.input[c] \in Seq(0..FrameLimit) BY DEF TunnelType
<1>2. s.pending[c] \in Seq(Nat) BY <1>0, <1>a
<1>3. s.input[c] \in Seq(Nat) BY <1>0, <1>a
<1>4. total(s.pending[c]) \in Nat /\ total(s.input[c]) \in Nat BY <1>2, <1>3, TotalOf
<1>5. /\ inFrames(s.up, "data", c) \in Nat /\ inFrames(s.up, "credit", c) \in Nat
      /\ inFrames(s.down, "data", c) \in Nat /\ inFrames(s.down, "credit", c) \in Nat
  BY Wires, WireCounts
<1>6. /\ s.sendCredit[c] \in Nat /\ s.recvCredit[c] \in Nat /\ s.withheld[c] \in Nat /\ s.outCredit[c] \in Nat /\ s.inCredit[c] \in Nat
      /\ s.sendCredit[c] <= TunnelWindow /\ s.recvCredit[c] <= TunnelWindow /\ s.withheld[c] <= TunnelWindow
      /\ s.outCredit[c] <= TunnelWindow /\ s.inCredit[c] <= TunnelWindow
      /\ s.buffer[c] \in Nat /\ s.writing[c] \in Nat /\ s.chunk[c] \in Nat
  BY <1>0, <1>1
<1> QED BY <1>2, <1>3, <1>4, <1>5, <1>6

\* A frame carries no more than there is to send, than it may carry, and than there is credit for.
LEMMA TakenFits ==
    ASSUME NEW rest \in Nat \ {0}, NEW credit \in Nat \ {0}
    PROVE  /\ taken(rest, credit) \in 1..FrameLimit /\ taken(rest, credit) \in Nat \ {0}
           /\ taken(rest, credit) <= rest /\ taken(rest, credit) <= credit
<1> DEFINE S == {FrameLimit, rest, credit}
<1>0. FrameLimit \in Nat \ {0} BY TunnelAssumption
<1>1. \E x \in S : \A y \in S : x <= y BY <1>0
<1>2. taken(rest, credit) = CHOOSE x \in S : \A y \in S : x <= y BY DEF taken, Min
<1> HIDE DEF S
<1>3. taken(rest, credit) \in S /\ \A y \in S : taken(rest, credit) <= y BY <1>1, <1>2
<1> QED BY <1>0, <1>3 DEF S

LEMMA Frames ==
    ASSUME NEW c \in TunnelConn
    PROVE  /\ frame("open", c, 0) \in UpFrame /\ frame("end", c, 0) \in UpFrame /\ frame("close", c, 0) \in UpFrame
           /\ frame("opened", c, 0) \in DownFrame /\ frame("end", c, 0) \in DownFrame /\ frame("closed", c, 0) \in DownFrame
           /\ \A n \in 0..TunnelWindow : frame("credit", c, n) \in UpFrame /\ frame("credit", c, n) \in DownFrame
           /\ \A n \in 1..FrameLimit : n <= TunnelWindow => frame("data", c, n) \in UpFrame /\ frame("data", c, n) \in DownFrame
<1>0. TunnelWindow \in Nat /\ 0 \in 0..TunnelWindow /\ FrameLimit \in Nat BY TunnelAssumption
<1>1. \A ty \in {"open", "opened", "data", "credit", "end", "close", "closed"}, n \in 0..TunnelWindow :
         /\ frame(ty, c, n) \in TunnelFrame /\ frame(ty, c, n).type = ty /\ frame(ty, c, n).bytes = n
  BY DEF frame, TunnelFrame
<1>2. \A n \in 1..FrameLimit : n <= TunnelWindow => n \in 0..TunnelWindow BY <1>0
<1> HIDE DEF frame
<1> QED BY <1>0, <1>1, <1>2 DEF UpFrame, DownFrame

\* Slots when nobody's place in the queue changes, and no slot is taken or given back.
LEMMA SlotsSame ==
    ASSUME NEW s \in TunnelType, TunnelSlotInv(s), NEW t,
           t.sockets = s.sockets, t.slots = s.slots, t.waiters = s.waiters, t.over = s.over,
           t.opener \in [TunnelConn -> OpenerState],
           \A c \in TunnelConn : /\ t.opener[c] = "granted" <=> s.opener[c] = "granted"
                                 /\ t.opener[c] = "waiting" <=> s.opener[c] = "waiting"
                                 /\ t.opener[c] = "opening" => s.opener[c] = "opening"
                                 /\ s.opener[c] \in {"opening", "done"} => t.opener[c] \in {"opening", "done"}
    PROVE  TunnelSlotInv(t)
<1>1. grantedOf(t) = grantedOf(s) BY DEF grantedOf
<1>2. \A i \in 1..Len(s.waiters) : s.waiters[i] \in TunnelConn BY DEF TunnelType
<1>3. s.sockets \subseteq TunnelConn BY DEF TunnelType
<1>4. \A c \in s.sockets : t.opener[c] \in {"opening", "done"} BY <1>3 DEF TunnelSlotInv
<1>5. t.over => t.sockets = {} /\ \A c \in TunnelConn : t.opener[c] \notin {"waiting", "opening"}
  BY DEF TunnelSlotInv
<1>6. \A i \in 1..Len(s.waiters) : t.opener[s.waiters[i]] = "waiting" BY <1>2 DEF TunnelSlotInv
<1>7. \A c \in TunnelConn : t.opener[c] = "waiting" => \E i \in 1..Len(s.waiters) : s.waiters[i] = c
  BY DEF TunnelSlotInv
<1> QED BY <1>1, <1>4, <1>5, <1>6, <1>7 DEF TunnelSlotInv

\* A caller of openSocket gets a slot, or waits for one.
LEMMA SlotTaken ==
    ASSUME NEW s \in TunnelType, TunnelSlotInv(s), NEW t, NEW d \in TunnelConn, s.opener[d] = "none", s.over = FALSE, t.over = FALSE,
           s.slots < MaxConnections, t.sockets = s.sockets, t.slots = s.slots + 1, t.waiters = s.waiters,
           t.opener = [s.opener EXCEPT ![d] = "granted"]
    PROVE  TunnelSlotInv(t)
<1>0. MaxConnections \in Nat /\ s.slots \in Nat BY TunnelAssumption DEF TunnelType
<1>1. t.opener[d] = "granted" /\ \A c \in TunnelConn : c # d => t.opener[c] = s.opener[c]
  BY DEF TunnelType
<1>2. grantedOf(t) = grantedOf(s) \cup {d} /\ d \notin grantedOf(s) BY <1>1 DEF grantedOf
<1>3. IsFiniteSet(grantedOf(s)) /\ IsFiniteSet(s.sockets) BY DEF TunnelSlotInv
<1>4. IsFiniteSet(grantedOf(t)) /\ Cardinality(grantedOf(t)) = Cardinality(grantedOf(s)) + 1
  BY <1>2, <1>3, FS_AddElement
<1>5. Cardinality(s.sockets) \in Nat /\ Cardinality(grantedOf(s)) \in Nat
  BY <1>3, FS_CardinalityType
<1>6. s.waiters = << >> /\ Len(s.waiters) = 0
  <2>1. s.waiters = << >> BY <1>0 DEF TunnelSlotInv
  <2> QED BY <2>1
<1>7. \A c \in TunnelConn : t.opener[c] # "waiting" BY <1>1, <1>6 DEF TunnelSlotInv
<1>8. \A c \in s.sockets : t.opener[c] \in {"opening", "done"} BY <1>1 DEF TunnelSlotInv, TunnelType
<1>9. t.slots = Cardinality(t.sockets) + Cardinality(grantedOf(t))
  BY <1>0, <1>4, <1>5 DEF TunnelSlotInv
<1> QED BY <1>3, <1>4, <1>6, <1>7, <1>8, <1>9 DEF TunnelSlotInv

LEMMA SlotAwaited ==
    ASSUME NEW s \in TunnelType, TunnelSlotInv(s), NEW t, NEW d \in TunnelConn, s.opener[d] = "none", s.over = FALSE, t.over = FALSE,
           ~(s.slots < MaxConnections), t.sockets = s.sockets, t.slots = s.slots, t.waiters = Append(s.waiters, d),
           t.opener = [s.opener EXCEPT ![d] = "waiting"]
    PROVE  TunnelSlotInv(t)
<1>0. MaxConnections \in Nat /\ s.slots \in 0..MaxConnections /\ s.waiters \in Seq(TunnelConn)
  BY TunnelAssumption DEF TunnelType
<1>1. t.opener[d] = "waiting" /\ \A c \in TunnelConn : c # d => t.opener[c] = s.opener[c]
  BY DEF TunnelType
<1>2. grantedOf(t) = grantedOf(s) BY <1>1 DEF grantedOf
<1>3. s.slots = MaxConnections BY <1>0
<1> DEFINE L == Len(s.waiters)
<1>4. L \in Nat /\ Len(t.waiters) = L + 1 /\ t.waiters[L + 1] = d /\ \A i \in 1..L : t.waiters[i] = s.waiters[i] /\ s.waiters[i] \in TunnelConn
  BY <1>0
<1> HIDE DEF L
<1>5. \A i \in 1..L + 1 : i = L + 1 \/ i \in 1..L BY <1>4
<1>6. L + 1 \in 1..L + 1 /\ \A i \in 1..L : i \in 1..L + 1 BY <1>4
<1>7. \A i \in 1..L : s.opener[s.waiters[i]] = "waiting" /\ s.waiters[i] # d BY DEF TunnelSlotInv, L
<1>8. \A i \in 1..L + 1 : t.opener[t.waiters[i]] = "waiting" BY <1>1, <1>4, <1>5, <1>7
<1>9. ASSUME NEW c \in TunnelConn, t.opener[c] = "waiting" PROVE \E i \in 1..L + 1 : t.waiters[i] = c
  <2>1. CASE c = d BY <1>4, <1>6, <2>1
  <2>2. CASE c # d
    <3>1. PICK i \in 1..L : s.waiters[i] = c BY <1>1, <1>9, <2>2 DEF TunnelSlotInv, L
    <3> QED BY <1>4, <1>6, <3>1
  <2> QED BY <2>1, <2>2
<1>10. \A i, j \in 1..L + 1 : t.waiters[i] = t.waiters[j] => i = j
  <2>1. \A i, j \in 1..L : s.waiters[i] = s.waiters[j] => i = j BY DEF TunnelSlotInv, L
  <2> QED BY <1>4, <1>5, <1>7, <2>1
<1>11. \A c \in s.sockets : t.opener[c] \in {"opening", "done"}
  BY <1>1 DEF TunnelSlotInv, TunnelType
<1>12. IsFiniteSet(t.sockets) /\ IsFiniteSet(grantedOf(t)) /\ t.slots = Cardinality(t.sockets) + Cardinality(grantedOf(t))
  BY <1>2 DEF TunnelSlotInv
<1> QED BY <1>3, <1>4, <1>8, <1>9, <1>10, <1>11, <1>12 DEF TunnelSlotInv

\* The socket is made, or is not because the session is over.
LEMMA SlotUsed ==
    ASSUME NEW s \in TunnelType, TunnelSlotInv(s), NEW t, NEW d \in TunnelConn, s.opener[d] = "granted", s.over = FALSE, t.over = FALSE,
           t.sockets = s.sockets \cup {d}, t.slots = s.slots, t.waiters = s.waiters, t.opener = [s.opener EXCEPT ![d] = "opening"]
    PROVE  TunnelSlotInv(t)
<1>1. t.opener[d] = "opening" /\ \A c \in TunnelConn : c # d => t.opener[c] = s.opener[c]
  BY DEF TunnelType
<1>2. grantedOf(t) = grantedOf(s) \ {d} /\ d \in grantedOf(s) BY <1>1 DEF grantedOf
<1>3. IsFiniteSet(grantedOf(s)) /\ IsFiniteSet(s.sockets) /\ d \notin s.sockets BY DEF TunnelSlotInv
<1>4. IsFiniteSet(grantedOf(t)) /\ Cardinality(grantedOf(t)) = Cardinality(grantedOf(s)) - 1
  BY <1>2, <1>3, FS_RemoveElement
<1>5. IsFiniteSet(t.sockets) /\ Cardinality(t.sockets) = Cardinality(s.sockets) + 1
  BY <1>3, FS_AddElement, SMTT(30)
<1>6. Cardinality(s.sockets) \in Nat /\ Cardinality(grantedOf(s)) \in Nat
  BY <1>3, FS_CardinalityType
<1>7. t.slots = Cardinality(t.sockets) + Cardinality(grantedOf(t))
  BY <1>4, <1>5, <1>6 DEF TunnelSlotInv
<1>8. \A i \in 1..Len(s.waiters) : s.waiters[i] \in TunnelConn /\ t.opener[s.waiters[i]] = "waiting"
  <2>1. \A i \in 1..Len(s.waiters) : s.waiters[i] \in TunnelConn BY SMTT(30) DEF TunnelType
  <2> QED BY <1>1, <2>1 DEF TunnelSlotInv
<1>9. \A c \in TunnelConn : t.opener[c] = "waiting" => \E i \in 1..Len(s.waiters) : s.waiters[i] = c
  BY <1>1 DEF TunnelSlotInv
<1>10. \A c \in t.sockets : t.opener[c] \in {"opening", "done"}
  BY <1>1 DEF TunnelSlotInv, TunnelType
<1> QED BY <1>4, <1>5, <1>7, <1>8, <1>9, <1>10 DEF TunnelSlotInv

LEMMA SlotUnused ==
    ASSUME NEW s \in TunnelType, TunnelSlotInv(s), NEW t, NEW d \in TunnelConn, s.opener[d] = "granted", s.over = TRUE, t.over = TRUE,
           t.sockets = s.sockets, t.slots = s.slots - 1, t.waiters = s.waiters, t.opener = [s.opener EXCEPT ![d] = "failed"]
    PROVE  TunnelSlotInv(t) /\ s.waiters = << >> /\ s.slots > 0
<1>1. t.opener[d] = "failed" /\ \A c \in TunnelConn : c # d => t.opener[c] = s.opener[c]
  BY DEF TunnelType
<1>2. grantedOf(t) = grantedOf(s) \ {d} /\ d \in grantedOf(s) BY <1>1 DEF grantedOf
<1>3. IsFiniteSet(grantedOf(s)) /\ IsFiniteSet(s.sockets) /\ s.sockets = {} /\ \A c \in TunnelConn : s.opener[c] \notin {"waiting", "opening"}
  BY DEF TunnelSlotInv
<1>4. IsFiniteSet(grantedOf(t)) /\ Cardinality(grantedOf(t)) = Cardinality(grantedOf(s)) - 1
  BY <1>2, <1>3, FS_RemoveElement
<1>5. Cardinality(s.sockets) \in Nat /\ Cardinality(grantedOf(s)) \in Nat /\ Cardinality(grantedOf(t)) \in Nat
  BY <1>3, <1>4, FS_CardinalityType
<1>6. s.waiters = << >> /\ Len(s.waiters) = 0
  <2>1. s.waiters \in Seq(TunnelConn) /\ Len(s.waiters) \in Nat BY DEF TunnelType
  <2>2. ~(1 \in 1..Len(s.waiters)) BY <1>3, <2>1 DEF TunnelSlotInv
  <2> QED BY <2>1, <2>2
<1>7. t.slots = Cardinality(t.sockets) + Cardinality(grantedOf(t)) /\ s.slots > 0
  BY <1>4, <1>5 DEF TunnelSlotInv
<1> QED BY <1>1, <1>3, <1>4, <1>6, <1>7 DEF TunnelSlotInv

\* A socket is detached: its slot is free, or goes to the first who waits.
LEMMA SlotFreed ==
    ASSUME NEW s \in TunnelType, TunnelSlotInv(s), NEW t, NEW d \in TunnelConn, d \in s.sockets, t.over = s.over,
           s.waiters = << >>, t.sockets = s.sockets \ {d}, t.slots = s.slots - 1, t.waiters = s.waiters,
           t.opener \in [TunnelConn -> OpenerState], \A c \in TunnelConn : c # d => t.opener[c] = s.opener[c],
           t.opener[d] \in {"failed", "done", "opening"}
    PROVE  TunnelSlotInv(t) /\ s.slots > 0
<1>1. s.over = FALSE /\ s.opener[d] \in {"opening", "done"} BY DEF TunnelSlotInv, TunnelType
<1>2. grantedOf(t) = grantedOf(s) BY <1>1 DEF grantedOf
<1>3. IsFiniteSet(grantedOf(s)) /\ IsFiniteSet(s.sockets) BY DEF TunnelSlotInv
<1>4. IsFiniteSet(t.sockets) /\ Cardinality(t.sockets) = Cardinality(s.sockets) - 1
  BY <1>3, FS_RemoveElement
<1>5. Cardinality(s.sockets) \in Nat /\ Cardinality(grantedOf(s)) \in Nat /\ Cardinality(t.sockets) \in Nat
  BY <1>3, <1>4, FS_CardinalityType
<1>6. t.slots = Cardinality(t.sockets) + Cardinality(grantedOf(t)) /\ s.slots > 0
  BY <1>2, <1>4, <1>5 DEF TunnelSlotInv
<1>7. \A c \in TunnelConn : t.opener[c] # "waiting" BY <1>1 DEF TunnelSlotInv
<1>8. \A c \in t.sockets : t.opener[c] \in {"opening", "done"} BY DEF TunnelSlotInv, TunnelType
<1> QED BY <1>1, <1>2, <1>3, <1>4, <1>6, <1>7, <1>8 DEF TunnelSlotInv

LEMMA SlotPassed ==
    ASSUME NEW s \in TunnelType, TunnelSlotInv(s), NEW t, NEW d \in TunnelConn, d \in s.sockets, t.over = s.over,
           s.waiters # << >>, t.sockets = s.sockets \ {d}, t.slots = s.slots, t.waiters = Tail(s.waiters),
           NEW e, e = Head(s.waiters), t.opener \in [TunnelConn -> OpenerState],
           \A c \in TunnelConn : c # d /\ c # e => t.opener[c] = s.opener[c],
           t.opener[e] = "granted", t.opener[d] \in {"failed", "done", "opening"}
    PROVE  TunnelSlotInv(t)
<1> DEFINE L == Len(s.waiters)
<1>0. s.waiters \in Seq(TunnelConn) BY DEF TunnelType
<1>1. /\ L \in Nat \ {0} /\ e = s.waiters[1] /\ e \in TunnelConn /\ Len(t.waiters) = L - 1
      /\ \A i \in 1..L - 1 : t.waiters[i] = s.waiters[i + 1]
  BY <1>0
<1>1a. \A i \in 1..L : s.waiters[i] \in TunnelConn BY <1>0
<1> HIDE DEF L
<1>2. 1 \in 1..L /\ \A i \in 1..L - 1 : i + 1 \in 1..L /\ i + 1 # 1 BY <1>1
<1>3. \A i \in 1..L : i # 1 => i - 1 \in 1..L - 1 /\ (i - 1) + 1 = i BY <1>1
<1>4. s.over = FALSE /\ s.opener[d] \in {"opening", "done"} /\ s.opener[e] = "waiting" /\ e # d
  <2>1. \A i \in 1..L : s.opener[s.waiters[i]] = "waiting" BY DEF TunnelSlotInv, L
  <2>2. s.opener[s.waiters[1]] = "waiting" BY <1>2, <2>1
  <2>3. s.opener[d] \in {"opening", "done"} /\ s.sockets # {} /\ s.over \in BOOLEAN
    BY DEF TunnelSlotInv, TunnelType
  <2>4. s.over = FALSE BY <2>3 DEF TunnelSlotInv
  <2> QED BY <1>1, <2>2, <2>3, <2>4
<1>5. grantedOf(t) = grantedOf(s) \cup {e} /\ e \notin grantedOf(s) BY <1>1, <1>4 DEF grantedOf
<1>6. IsFiniteSet(grantedOf(s)) /\ IsFiniteSet(s.sockets) BY DEF TunnelSlotInv
<1>7. IsFiniteSet(t.sockets) /\ Cardinality(t.sockets) = Cardinality(s.sockets) - 1
  BY <1>6, FS_RemoveElement
<1>8. IsFiniteSet(grantedOf(t)) /\ Cardinality(grantedOf(t)) = Cardinality(grantedOf(s)) + 1
  <2>1. IsFiniteSet(grantedOf(s) \cup {e}) /\ Cardinality(grantedOf(s) \cup {e}) = Cardinality(grantedOf(s)) + 1
    BY <1>5, <1>6, FS_AddElement
  <2> QED BY <1>5, <2>1
<1>9. Cardinality(s.sockets) \in Nat /\ Cardinality(grantedOf(s)) \in Nat
  BY <1>6, FS_CardinalityType
<1>10. t.slots = Cardinality(t.sockets) + Cardinality(grantedOf(t)) /\ t.slots = MaxConnections
  BY <1>7, <1>8, <1>9 DEF TunnelSlotInv
<1>11. \A i, j \in 1..L : s.waiters[i] = s.waiters[j] => i = j BY DEF TunnelSlotInv, L
<1>12. \A i \in 1..L - 1 : t.waiters[i] \in TunnelConn /\ t.waiters[i] # e /\ s.opener[t.waiters[i]] = "waiting"
  <2>1. \A i \in 1..L : s.opener[s.waiters[i]] = "waiting" BY DEF TunnelSlotInv, L
  <2> QED BY <1>1, <1>1a, <1>2, <1>11, <2>1
<1>13. \A i \in 1..L - 1 : t.opener[t.waiters[i]] = "waiting" BY <1>4, <1>12
<1>14. ASSUME NEW c \in TunnelConn, t.opener[c] = "waiting" PROVE \E i \in 1..L - 1 : t.waiters[i] = c
  <2>1. c # e /\ c # d BY <1>14
  <2>2. PICK i \in 1..L : s.waiters[i] = c BY <1>14, <2>1 DEF TunnelSlotInv, L
  <2>3. i # 1 BY <1>1, <2>1, <2>2
  <2> QED BY <1>1, <1>3, <2>2, <2>3
<1>15. \A i, j \in 1..L - 1 : t.waiters[i] = t.waiters[j] => i = j
  <2>1. \A i, j \in 1..L - 1 : i + 1 = j + 1 => i = j BY <1>1
  <2> QED BY <1>1, <1>2, <1>11, <2>1
<1>16. \A c \in t.sockets : t.opener[c] \in {"opening", "done"}
  <2>1. \A c \in s.sockets : c \in TunnelConn /\ s.opener[c] \in {"opening", "done"}
    BY DEF TunnelSlotInv, TunnelType
  <2> QED BY <1>4, <2>1
<1> QED BY <1>1, <1>4, <1>7, <1>8, <1>10, <1>13, <1>14, <1>15, <1>16 DEF TunnelSlotInv

\* The session ends.
LEMMA SlotsFinished ==
    ASSUME NEW s \in TunnelType, TunnelSlotInv(s), NEW t, t.over = TRUE,
           t.sockets = {}, t.slots = s.slots - Cardinality(s.sockets), t.waiters = << >>,
           t.opener = [c \in TunnelConn |-> IF s.opener[c] \in {"waiting", "opening"} THEN "failed" ELSE s.opener[c]]
    PROVE  TunnelSlotInv(t) /\ t.slots \in 0..MaxConnections
<1>0. MaxConnections \in Nat /\ s.slots \in 0..MaxConnections BY TunnelAssumption DEF TunnelType
<1>1. \A c \in TunnelConn : t.opener[c] = IF s.opener[c] \in {"waiting", "opening"} THEN "failed" ELSE s.opener[c]
  OBVIOUS
<1>2. grantedOf(t) = grantedOf(s) BY <1>1 DEF grantedOf
<1>3. IsFiniteSet(grantedOf(s)) /\ IsFiniteSet(s.sockets) BY DEF TunnelSlotInv
<1>4. Cardinality(s.sockets) \in Nat /\ Cardinality(grantedOf(s)) \in Nat
  BY <1>3, FS_CardinalityType
<1>5. IsFiniteSet(t.sockets) /\ Cardinality(t.sockets) = 0 BY FS_EmptySet
<1>6. t.slots = Cardinality(t.sockets) + Cardinality(grantedOf(t)) /\ t.slots \in 0..MaxConnections
  BY <1>0, <1>2, <1>4, <1>5 DEF TunnelSlotInv
<1>7. Len(t.waiters) = 0 OBVIOUS
<1> QED BY <1>1, <1>2, <1>3, <1>5, <1>6, <1>7 DEF TunnelSlotInv

\* The node needs no more room than before.
LEMMA RoomKept ==
    ASSUME NEW s, RoomInv(s), NEW t, s.late => t.late, t.refused = s.refused, t.over \in BOOLEAN, s.late \in BOOLEAN, t.late \in BOOLEAN,
           roomFor(t) \subseteq roomFor(s), t.late \/ t.over \/ (~s.over /\ roomFor(t) \subseteq t.sockets)
    PROVE  RoomInv(t)
<1>1. CASE t.late BY <1>1 DEF RoomInv
<1>2. CASE ~t.late
  <2>1. IsFiniteSet(roomFor(s)) /\ Cardinality(roomFor(s)) <= MaxConnections BY <1>2 DEF RoomInv
  <2>2. IsFiniteSet(roomFor(t)) /\ Cardinality(roomFor(t)) <= Cardinality(roomFor(s))
    BY <2>1, FS_Subset
  <2>3. Cardinality(roomFor(s)) \in Nat /\ Cardinality(roomFor(t)) \in Nat /\ MaxConnections \in Nat
    BY <2>1, <2>2, FS_CardinalityType, TunnelAssumption
  <2>4. Cardinality(roomFor(t)) <= MaxConnections BY <2>1, <2>2, <2>3
  <2> QED BY <1>2, <2>2, <2>4 DEF RoomInv
<1> QED BY <1>1, <1>2

\* There is room for as many as there are slots.
LEMMA RoomForSockets ==
    ASSUME NEW s, RoomInv(s), NEW t, t \in TunnelType, TunnelSlotInv(t), t.refused = s.refused, t.late = s.late,
           t.late \/ roomFor(t) \subseteq t.sockets
    PROVE  RoomInv(t)
<1>1. CASE t.late BY <1>1 DEF RoomInv
<1>2. CASE ~t.late
  <2>1. IsFiniteSet(t.sockets) /\ IsFiniteSet(grantedOf(t)) /\ t.slots = Cardinality(t.sockets) + Cardinality(grantedOf(t))
    BY DEF TunnelSlotInv
  <2>2. IsFiniteSet(roomFor(t)) /\ Cardinality(roomFor(t)) <= Cardinality(t.sockets)
    BY <1>2, <2>1, FS_Subset
  <2>3. Cardinality(t.sockets) \in Nat /\ Cardinality(grantedOf(t)) \in Nat /\ Cardinality(roomFor(t)) \in Nat
    BY <2>1, <2>2, FS_CardinalityType
  <2>4. t.slots <= MaxConnections /\ MaxConnections \in Nat BY TunnelAssumption DEF TunnelType
  <2>5. Cardinality(roomFor(t)) <= MaxConnections BY <2>1, <2>2, <2>3, <2>4
  <2> QED BY <1>2, <2>2, <2>5 DEF RoomInv
<1> QED BY <1>1, <1>2

\* What is known of the numbers and of the frames of a connection.
Known(s, d) ==
    /\ TunnelWindow \in Nat \ {0} /\ FrameLimit \in Nat \ {0} /\ HighWater \in Nat \ {0} /\ MaxConnections \in Nat \ {0}
    /\ MaxTunnelBytes \in Nat
    /\ s.sendCredit[d] \in Nat /\ s.recvCredit[d] \in Nat /\ s.withheld[d] \in Nat /\ s.outCredit[d] \in Nat /\ s.inCredit[d] \in Nat
    /\ s.sendCredit[d] <= TunnelWindow /\ s.recvCredit[d] <= TunnelWindow /\ s.withheld[d] <= TunnelWindow
    /\ s.outCredit[d] <= TunnelWindow /\ s.inCredit[d] <= TunnelWindow
    /\ total(s.pending[d]) \in Nat /\ total(s.input[d]) \in Nat
    /\ s.buffer[d] \in Nat /\ s.writing[d] \in Nat /\ s.chunk[d] \in Nat
    /\ s.writing[d] <= MaxTunnelBytes /\ s.chunk[d] <= MaxTunnelBytes
    /\ s.unread[d] \in 0..MaxTunnelBytes /\ s.unwritten[d] \in 0..MaxTunnelBytes
    /\ inFrames(s.up, "data", d) \in Nat /\ (~onWire(s.up, "data", d) => inFrames(s.up, "data", d) = 0)
    /\ inFrames(s.up, "credit", d) \in Nat /\ (~onWire(s.up, "credit", d) => inFrames(s.up, "credit", d) = 0)
    /\ (onWire(s.up, "open", d) => mentions(s.up, d)) /\ (onWire(s.up, "data", d) => mentions(s.up, d)) /\ (onWire(s.up, "credit", d) => mentions(s.up, d))
    /\ (onWire(s.up, "end", d) => mentions(s.up, d)) /\ (onWire(s.up, "close", d) => mentions(s.up, d))
    /\ inFrames(s.down, "data", d) \in Nat /\ (~onWire(s.down, "data", d) => inFrames(s.down, "data", d) = 0)
    /\ inFrames(s.down, "credit", d) \in Nat /\ (~onWire(s.down, "credit", d) => inFrames(s.down, "credit", d) = 0)
    /\ (onWire(s.down, "opened", d) => mentions(s.down, d)) /\ (onWire(s.down, "data", d) => mentions(s.down, d)) /\ (onWire(s.down, "credit", d) => mentions(s.down, d))
    /\ (onWire(s.down, "end", d) => mentions(s.down, d)) /\ (onWire(s.down, "closed", d) => mentions(s.down, d))

LEMMA WhatIsKnown ==
    ASSUME NEW s \in TunnelType, NEW d \in TunnelConn
    PROVE  Known(s, d)
<1>1. /\ s.writing[d] \in 0..MaxTunnelBytes /\ s.chunk[d] \in 0..MaxTunnelBytes
      /\ s.unread[d] \in 0..MaxTunnelBytes /\ s.unwritten[d] \in 0..MaxTunnelBytes
  BY DEF TunnelType
<1>1a. s.writing[d] <= MaxTunnelBytes /\ s.chunk[d] <= MaxTunnelBytes BY <1>1, TunnelAssumption
<1>2. /\ s.sendCredit[d] \in Nat /\ s.recvCredit[d] \in Nat /\ s.withheld[d] \in Nat /\ s.outCredit[d] \in Nat /\ s.inCredit[d] \in Nat
      /\ s.sendCredit[d] <= TunnelWindow /\ s.recvCredit[d] <= TunnelWindow /\ s.withheld[d] <= TunnelWindow
      /\ s.outCredit[d] <= TunnelWindow /\ s.inCredit[d] <= TunnelWindow
      /\ s.buffer[d] \in Nat /\ s.writing[d] \in Nat /\ s.chunk[d] \in Nat
      /\ total(s.pending[d]) \in Nat /\ total(s.input[d]) \in Nat
      /\ s.pending[d] \in Seq(Nat) /\ s.input[d] \in Seq(Nat)
  BY ConnNumbers
<1>4. s.up \in Seq(TunnelFrame) /\ s.down \in Seq(TunnelFrame) BY Wires
<1>5. /\ \A ty : inFrames(s.up, ty, d) \in Nat /\ (~onWire(s.up, ty, d) => inFrames(s.up, ty, d) = 0)
      /\ \A ty : inFrames(s.down, ty, d) \in Nat /\ (~onWire(s.down, ty, d) => inFrames(s.down, ty, d) = 0)
      /\ \A ty : (onWire(s.up, ty, d) => mentions(s.up, d)) /\ (onWire(s.down, ty, d) => mentions(s.down, d))
  BY <1>4, WireCounts
<1> QED BY <1>1, <1>1a, <1>2, <1>5, TunnelAssumption DEF Known

LEMMA EmptyTotals ==
    ASSUME NEW s \in TunnelType, NEW d \in TunnelConn
    PROVE  (s.pending[d] = << >> => total(s.pending[d]) = 0) /\ (s.input[d] = << >> => total(s.input[d]) = 0)
<1>1. s.pending[d] \in Seq(Nat) /\ s.input[d] \in Seq(Nat) BY ConnNumbers
<1> QED BY <1>1, TotalOf

\* What it means that a frame is sent to the node, and that one is taken.
SentUp(w, v, ty, d, n) ==
    /\ \A c : c # d => SameWire(w, v, c)
    /\ onWire(v, "open", d) <=> onWire(w, "open", d) \/ ty = "open"
    /\ onWire(v, "data", d) <=> onWire(w, "data", d) \/ ty = "data"
    /\ onWire(v, "credit", d) <=> onWire(w, "credit", d) \/ ty = "credit"
    /\ onWire(v, "end", d) <=> onWire(w, "end", d) \/ ty = "end"
    /\ onWire(v, "close", d) <=> onWire(w, "close", d) \/ ty = "close"
    /\ inFrames(v, "data", d) = inFrames(w, "data", d) + (IF ty = "data" THEN n ELSE 0)
    /\ inFrames(v, "credit", d) = inFrames(w, "credit", d) + (IF ty = "credit" THEN n ELSE 0)
    /\ mentions(v, d)
    /\ ~mentions(w, d) => single(v, d)

LEMMA UpSent ==
    ASSUME NEW w \in Seq(UpFrame), NEW ty, NEW d, NEW n, frame(ty, d, n) \in UpFrame, NEW v, v = Append(w, frame(ty, d, n))
    PROVE  SentUp(w, v, ty, d, n)
<1> DEFINE f == frame(ty, d, n)
<1>1. f.type = ty /\ f.conn = d /\ f.bytes = n BY DEF frame
<1>2. UpFrame \subseteq TunnelFrame BY DEF UpFrame
<1>3. f \in TunnelFrame /\ v = Append(w, f) /\ w \in Seq(TunnelFrame) BY <1>2
<1> HIDE DEF f
<1>4. /\ \A c : c # f.conn => SameWire(w, v, c)
      /\ \A x : onWire(v, x, f.conn) <=> onWire(w, x, f.conn) \/ x = f.type
      /\ \A x : inFrames(v, x, f.conn) = inFrames(w, x, f.conn) + (IF x = f.type THEN f.bytes ELSE 0)
      /\ \A x : once(w, x, f.conn) /\ (x # f.type \/ ~onWire(w, x, f.conn)) => once(v, x, f.conn)
      /\ mentions(v, f.conn)
      /\ ~mentions(w, f.conn) => single(v, f.conn)
  BY <1>3, FrameSent, Zenon
<1> QED BY <1>1, <1>4 DEF SentUp

TakenUp(w, v, f, d) ==
    /\ \A c : c # d => SameWire(w, v, c)
    /\ mentions(w, d) /\ f.bytes \in Nat /\ f.bytes <= TunnelWindow /\ f.type \in {"open", "data", "credit", "end", "close"}
    /\ f.type = "data" => f.bytes \in 1..FrameLimit
    /\ (f.type = "open" => onWire(w, "open", d)) /\ (onWire(v, "open", d) => onWire(w, "open", d) /\ mentions(v, d))
    /\ onWire(w, "open", d) => onWire(v, "open", d) \/ f.type = "open"
    /\ (f.type = "data" => onWire(w, "data", d)) /\ (onWire(v, "data", d) => onWire(w, "data", d) /\ mentions(v, d))
    /\ onWire(w, "data", d) => onWire(v, "data", d) \/ f.type = "data"
    /\ (f.type = "credit" => onWire(w, "credit", d)) /\ (onWire(v, "credit", d) => onWire(w, "credit", d) /\ mentions(v, d))
    /\ onWire(w, "credit", d) => onWire(v, "credit", d) \/ f.type = "credit"
    /\ (f.type = "end" => onWire(w, "end", d)) /\ (onWire(v, "end", d) => onWire(w, "end", d) /\ mentions(v, d))
    /\ onWire(w, "end", d) => onWire(v, "end", d) \/ f.type = "end"
    /\ (f.type = "close" => onWire(w, "close", d)) /\ (onWire(v, "close", d) => onWire(w, "close", d) /\ mentions(v, d))
    /\ onWire(w, "close", d) => onWire(v, "close", d) \/ f.type = "close"
    /\ inFrames(v, "data", d) \in Nat /\ inFrames(w, "data", d) = inFrames(v, "data", d) + (IF f.type = "data" THEN f.bytes ELSE 0)
    /\ ~onWire(v, "data", d) => inFrames(v, "data", d) = 0
    /\ inFrames(v, "credit", d) \in Nat /\ inFrames(w, "credit", d) = inFrames(v, "credit", d) + (IF f.type = "credit" THEN f.bytes ELSE 0)
    /\ ~onWire(v, "credit", d) => inFrames(v, "credit", d) = 0
    /\ single(w, d) => ~mentions(v, d)

LEMMA UpTaken ==
    ASSUME NEW w \in Seq(UpFrame), w # << >>, NEW v, v = Tail(w), NEW f, f = Head(w), NEW d, d = f.conn
    PROVE  TakenUp(w, v, f, d)
<1>1. f \in UpFrame OBVIOUS
<1>2. UpFrame \subseteq TunnelFrame BY DEF UpFrame
<1>3. w \in Seq(TunnelFrame) /\ v \in Seq(TunnelFrame) BY <1>2
<1>4. /\ \A c : c # f.conn => SameWire(w, v, c)
      /\ onWire(w, f.type, f.conn) /\ mentions(w, f.conn)
      /\ \A x : (onWire(v, x, f.conn) => onWire(w, x, f.conn)) /\ (x # f.type /\ onWire(w, x, f.conn) => onWire(v, x, f.conn))
      /\ \A x : inFrames(w, x, f.conn) = inFrames(v, x, f.conn) + (IF x = f.type THEN f.bytes ELSE 0) /\ inFrames(v, x, f.conn) \in Nat
      /\ \A x : once(w, x, f.conn) => once(v, x, f.conn) /\ (x = f.type => ~onWire(v, x, f.conn))
      /\ single(w, f.conn) => ~mentions(v, f.conn) /\ single(v, f.conn)
      /\ f \in TunnelFrame
      /\ mentions(v, f.conn) => mentions(w, f.conn)
  BY <1>3, FrameTaken, ZenonT(60)
<1>5. \A x : (onWire(v, x, d) => mentions(v, d)) /\ (~onWire(v, x, d) => inFrames(v, x, d) = 0)
  BY <1>3, WireCounts
<1>6. /\ f.bytes \in 0..TunnelWindow /\ f.type \in {"open", "data", "credit", "end", "close"}
      /\ f.type = "data" => f.bytes \in 1..FrameLimit
  BY <1>1 DEF UpFrame, TunnelFrame
<1>7. f.bytes \in Nat /\ f.bytes <= TunnelWindow BY <1>6, TunnelAssumption
<1> QED BY <1>4, <1>5, <1>6, <1>7 DEF TakenUp

\* What it means that a frame is sent to the client, and that one is taken.
SentDown(w, v, ty, d, n) ==
    /\ \A c : c # d => SameWire(w, v, c)
    /\ onWire(v, "opened", d) <=> onWire(w, "opened", d) \/ ty = "opened"
    /\ onWire(v, "data", d) <=> onWire(w, "data", d) \/ ty = "data"
    /\ onWire(v, "credit", d) <=> onWire(w, "credit", d) \/ ty = "credit"
    /\ onWire(v, "end", d) <=> onWire(w, "end", d) \/ ty = "end"
    /\ onWire(v, "closed", d) <=> onWire(w, "closed", d) \/ ty = "closed"
    /\ inFrames(v, "data", d) = inFrames(w, "data", d) + (IF ty = "data" THEN n ELSE 0)
    /\ inFrames(v, "credit", d) = inFrames(w, "credit", d) + (IF ty = "credit" THEN n ELSE 0)
    /\ mentions(v, d)
    /\ once(w, "opened", d) /\ (ty # "opened" \/ ~onWire(w, "opened", d)) => once(v, "opened", d)

LEMMA DownSent ==
    ASSUME NEW w \in Seq(DownFrame), NEW ty, NEW d, NEW n, frame(ty, d, n) \in DownFrame, NEW v, v = Append(w, frame(ty, d, n))
    PROVE  SentDown(w, v, ty, d, n)
<1> DEFINE f == frame(ty, d, n)
<1>1. f.type = ty /\ f.conn = d /\ f.bytes = n BY DEF frame
<1>2. DownFrame \subseteq TunnelFrame BY DEF DownFrame
<1>3. f \in TunnelFrame /\ v = Append(w, f) /\ w \in Seq(TunnelFrame) BY <1>2
<1> HIDE DEF f
<1>4. /\ \A c : c # f.conn => SameWire(w, v, c)
      /\ \A x : onWire(v, x, f.conn) <=> onWire(w, x, f.conn) \/ x = f.type
      /\ \A x : inFrames(v, x, f.conn) = inFrames(w, x, f.conn) + (IF x = f.type THEN f.bytes ELSE 0)
      /\ \A x : once(w, x, f.conn) /\ (x # f.type \/ ~onWire(w, x, f.conn)) => once(v, x, f.conn)
      /\ mentions(v, f.conn)
      /\ ~mentions(w, f.conn) => single(v, f.conn)
  BY <1>3, FrameSent, Zenon
<1> QED BY <1>1, <1>4 DEF SentDown

TakenDown(w, v, f, d) ==
    /\ \A c : c # d => SameWire(w, v, c)
    /\ mentions(w, d) /\ f.bytes \in Nat /\ f.bytes <= TunnelWindow /\ f.type \in {"opened", "data", "credit", "end", "closed"}
    /\ f.type = "data" => f.bytes \in 1..FrameLimit
    /\ (f.type = "opened" => onWire(w, "opened", d)) /\ (onWire(v, "opened", d) => onWire(w, "opened", d) /\ mentions(v, d))
    /\ onWire(w, "opened", d) => onWire(v, "opened", d) \/ f.type = "opened"
    /\ (f.type = "data" => onWire(w, "data", d)) /\ (onWire(v, "data", d) => onWire(w, "data", d) /\ mentions(v, d))
    /\ onWire(w, "data", d) => onWire(v, "data", d) \/ f.type = "data"
    /\ (f.type = "credit" => onWire(w, "credit", d)) /\ (onWire(v, "credit", d) => onWire(w, "credit", d) /\ mentions(v, d))
    /\ onWire(w, "credit", d) => onWire(v, "credit", d) \/ f.type = "credit"
    /\ (f.type = "end" => onWire(w, "end", d)) /\ (onWire(v, "end", d) => onWire(w, "end", d) /\ mentions(v, d))
    /\ onWire(w, "end", d) => onWire(v, "end", d) \/ f.type = "end"
    /\ (f.type = "closed" => onWire(w, "closed", d)) /\ (onWire(v, "closed", d) => onWire(w, "closed", d) /\ mentions(v, d))
    /\ onWire(w, "closed", d) => onWire(v, "closed", d) \/ f.type = "closed"
    /\ inFrames(v, "data", d) \in Nat /\ inFrames(w, "data", d) = inFrames(v, "data", d) + (IF f.type = "data" THEN f.bytes ELSE 0)
    /\ ~onWire(v, "data", d) => inFrames(v, "data", d) = 0
    /\ inFrames(v, "credit", d) \in Nat /\ inFrames(w, "credit", d) = inFrames(v, "credit", d) + (IF f.type = "credit" THEN f.bytes ELSE 0)
    /\ ~onWire(v, "credit", d) => inFrames(v, "credit", d) = 0
    /\ once(w, "opened", d) => once(v, "opened", d) /\ (f.type = "opened" => ~onWire(v, "opened", d))

LEMMA DownTaken ==
    ASSUME NEW w \in Seq(DownFrame), w # << >>, NEW v, v = Tail(w), NEW f, f = Head(w), NEW d, d = f.conn
    PROVE  TakenDown(w, v, f, d)
<1>1. f \in DownFrame OBVIOUS
<1>2. DownFrame \subseteq TunnelFrame BY DEF DownFrame
<1>3. w \in Seq(TunnelFrame) /\ v \in Seq(TunnelFrame) BY <1>2
<1>4. /\ \A c : c # f.conn => SameWire(w, v, c)
      /\ onWire(w, f.type, f.conn) /\ mentions(w, f.conn)
      /\ \A x : (onWire(v, x, f.conn) => onWire(w, x, f.conn)) /\ (x # f.type /\ onWire(w, x, f.conn) => onWire(v, x, f.conn))
      /\ \A x : inFrames(w, x, f.conn) = inFrames(v, x, f.conn) + (IF x = f.type THEN f.bytes ELSE 0) /\ inFrames(v, x, f.conn) \in Nat
      /\ \A x : once(w, x, f.conn) => once(v, x, f.conn) /\ (x = f.type => ~onWire(v, x, f.conn))
      /\ single(w, f.conn) => ~mentions(v, f.conn) /\ single(v, f.conn)
      /\ f \in TunnelFrame
      /\ mentions(v, f.conn) => mentions(w, f.conn)
  BY <1>3, FrameTaken, ZenonT(60)
<1>5. \A x : (onWire(v, x, d) => mentions(v, d)) /\ (~onWire(v, x, d) => inFrames(v, x, d) = 0)
  BY <1>3, WireCounts
<1>6. /\ f.bytes \in 0..TunnelWindow /\ f.type \in {"opened", "data", "credit", "end", "closed"}
      /\ f.type = "data" => f.bytes \in 1..FrameLimit
  BY <1>1 DEF DownFrame, TunnelFrame
<1>7. f.bytes \in Nat /\ f.bytes <= TunnelWindow BY <1>6, TunnelAssumption
<1> QED BY <1>4, <1>5, <1>6, <1>7 DEF TakenDown

\* What the node is to write to a target.
InputQueue == Seq(0..FrameLimit)

\* What is on its way.
UpWires == Seq(UpFrame)

DownWires == Seq(DownFrame)

\* A step that is about connection d.
LEMMA TunnelKept ==
    ASSUME NEW s, NEW d \in TunnelConn, NEW t \in TunnelType, t.accused = {}, NEW m, NEW n,
           \A c \in TunnelConn : ConnInv(s, c) /\ Owed(s, c, IF c = d THEN m ELSE 0),
           \A c \in TunnelConn : c # d => Same(s, t, c),
           Fresh(t, d), Heard(t, d), Credit(t, d), Agree(t, d), Owed(t, d, n), TunnelSlotInv(t), RoomInv(t)
    PROVE  TunnelOK(t, d, n)
<1>1. ASSUME NEW c \in TunnelConn PROVE ConnInv(t, c) /\ Owed(t, c, IF c = d THEN n ELSE 0)
  <2>1. CASE c = d BY <2>1 DEF ConnInv
  <2>2. CASE c # d
    <3>1. Same(s, t, c) /\ ConnInv(s, c) /\ Owed(s, c, 0) BY <2>2
    <3> QED BY <2>2, <3>1, SameKeeps
  <2> QED BY <2>1, <2>2
<1> QED BY <1>1 DEF TunnelOK

\* Nothing new is to have room, and no socket goes.
LEMMA RoomFewer ==
    ASSUME NEW s, RoomInv(s), NEW t, t.late = s.late, t.refused = s.refused, t.over = s.over, s.over \in BOOLEAN, s.late \in BOOLEAN,
           roomFor(t) \subseteq roomFor(s), t.sockets = s.sockets
    PROVE  RoomInv(t)
<1>1. s.late \/ s.over \/ roomFor(s) \subseteq s.sockets BY DEF RoomInv
<1>2. t.late \/ t.over \/ (~s.over /\ roomFor(t) \subseteq t.sockets) BY <1>1
<1> QED BY <1>2, RoomKept

\* Someone has a slot.
LEMMA SlotsInUse ==
    ASSUME NEW s \in TunnelType, TunnelSlotInv(s), NEW d \in TunnelConn, s.opener[d] = "granted" \/ d \in s.sockets
    PROVE  s.slots - 1 \in 0..MaxConnections
<1>1. IsFiniteSet(s.sockets) /\ IsFiniteSet(grantedOf(s)) /\ s.slots = Cardinality(s.sockets) + Cardinality(grantedOf(s))
  BY DEF TunnelSlotInv
<1>2. d \in grantedOf(s) \/ d \in s.sockets BY DEF grantedOf
<1>3. Cardinality(s.sockets) \in Nat /\ Cardinality(grantedOf(s)) \in Nat
  BY <1>1, FS_CardinalityType
<1>4. (Cardinality(s.sockets) = 0 <=> s.sockets = {}) /\ (Cardinality(grantedOf(s)) = 0 <=> grantedOf(s) = {})
  BY <1>1, FS_EmptySet
<1>5. Cardinality(s.sockets) # 0 \/ Cardinality(grantedOf(s)) # 0 BY <1>2, <1>4
<1>6. s.slots \in 0..MaxConnections /\ MaxConnections \in Nat BY TunnelAssumption DEF TunnelType
<1> HIDE <1>2, <1>4
<1> QED BY <1>1, <1>3, <1>5, <1>6

LEMMA NobodyWaits ==
    ASSUME NEW s \in TunnelType, TunnelSlotInv(s), s.over = TRUE
    PROVE  s.waiters = << >>
<1>1. s.waiters \in Seq(TunnelConn) /\ Len(s.waiters) \in Nat BY DEF TunnelType
<1>2. \A i \in 1..Len(s.waiters) : s.waiters[i] \in TunnelConn /\ s.opener[s.waiters[i]] = "waiting"
  BY <1>1 DEF TunnelSlotInv
<1>3. \A c \in TunnelConn : s.opener[c] # "waiting" BY DEF TunnelSlotInv
<1>4. ~(1 \in 1..Len(s.waiters)) BY <1>2, <1>3
<1> QED BY <1>1, <1>4

\* Those who wait for a slot.
WaitQueue == Seq(TunnelConn)

\* The slot of d is given back: it is free, or goes to the first who waits.
Released(s, d, o, q, k) ==
    /\ d \in s.sockets /\ o \in [TunnelConn -> OpenerState] /\ o[d] \in {"failed", "done", "opening"}
    /\ \/ /\ s.waiters = << >> /\ q = s.waiters /\ k = s.slots - 1
          /\ \A c \in TunnelConn : c # d => o[c] = s.opener[c]
       \/ /\ s.waiters # << >> /\ q = Tail(s.waiters) /\ k = s.slots /\ o[Head(s.waiters)] = "granted"
          /\ \A c \in TunnelConn : c # d /\ c # Head(s.waiters) => o[c] = s.opener[c]

LEMMA SlotGone ==
    ASSUME NEW s \in TunnelType, TunnelSlotInv(s), NEW d \in TunnelConn, NEW o, NEW q, NEW k, Released(s, d, o, q, k)
    PROVE  /\ k \in 0..MaxConnections /\ q \in WaitQueue
           /\ \A c \in TunnelConn : c # d => /\ o[c] \in {"none", "waiting", "granted"} => s.opener[c] \in {"none", "waiting", "granted"}
                                             /\ o[c] = "done" <=> s.opener[c] = "done"
           /\ \A t : /\ t.over = s.over /\ t.sockets = s.sockets \ {d} /\ t.slots = k /\ t.waiters = q /\ t.opener = o
                     => TunnelSlotInv(t)
<1>0. d \in s.sockets /\ o \in [TunnelConn -> OpenerState] /\ o[d] \in {"failed", "done", "opening"}
  BY DEF Released
<1>1. CASE s.waiters = << >>
  <2>1. q = s.waiters /\ k = s.slots - 1 /\ \A c \in TunnelConn : c # d => o[c] = s.opener[c]
    BY <1>1 DEF Released
  <2>2. k \in 0..MaxConnections BY <1>0, <2>1, SlotsInUse
  <2>3. q \in WaitQueue BY <2>1 DEF WaitQueue, TunnelType
  <2>4. ASSUME NEW t, t.over = s.over /\ t.sockets = s.sockets \ {d} /\ t.slots = k /\ t.waiters = q /\ t.opener = o
        PROVE  TunnelSlotInv(t)
    BY <1>0, <1>1, <2>1, <2>4, SlotFreed
  <2> QED BY <2>1, <2>2, <2>3, <2>4
<1>2. CASE s.waiters # << >>
  <2> DEFINE e == Head(s.waiters)
  <2>0. s.waiters \in Seq(TunnelConn) BY DEF TunnelType
  <2>1. q = Tail(s.waiters) /\ k = s.slots /\ o[e] = "granted" /\ \A c \in TunnelConn : c # d /\ c # e => o[c] = s.opener[c]
    BY <1>2 DEF Released
  <2>2. k \in 0..MaxConnections BY <2>1 DEF TunnelType
  <2>3. q \in WaitQueue BY <1>2, <2>0, <2>1 DEF WaitQueue
  <2>4. e \in TunnelConn /\ 1 \in 1..Len(s.waiters) /\ e = s.waiters[1] BY <1>2, <2>0
  <2>5. s.opener[e] = "waiting" BY <2>4 DEF TunnelSlotInv
  <2> HIDE DEF e
  <2>6. ASSUME NEW t, t.over = s.over /\ t.sockets = s.sockets \ {d} /\ t.slots = k /\ t.waiters = q /\ t.opener = o
        PROVE  TunnelSlotInv(t)
    BY <1>0, <1>2, <2>1, <2>6, SlotPassed DEF e
  <2> QED BY <2>1, <2>2, <2>3, <2>5, <2>6
<1> QED BY <1>1, <1>2

\* The client's data that the consumer has not taken.
PendingQueue == Seq(1..FrameLimit)

LEMMA ReadMoreType ==
    ASSUME NEW s \in TunnelType, NEW a \in SUBSET TunnelConn, NEW w \in [TunnelConn -> 0..TunnelWindow],
           NEW p \in [TunnelConn -> Seq(1..FrameLimit)], NEW b \in [TunnelConn -> Nat],
           NEW t, t = [s EXCEPT !.backpressured = a, !.withheld = w, !.pending = p, !.buffer = b]
    PROVE  t \in TunnelType
BY ZenonT(60) DEF TunnelType

\* The client: data is written, sent as far as there is credit, and ended.
LEMMA ClientWritesHolds ==
    ASSUME NEW s, NEW d \in TunnelConn, TunnelOK(s, d, 0),
           s.opener[d] = "done"
    PROVE  \A t : t = [s EXCEPT !.writing = [s.writing EXCEPT ![d] = s.unwritten[d]],
                           !.unwritten = [s.unwritten EXCEPT ![d] = 0]] => TunnelOK(t, d, 0)
<1>b. s \in TunnelType /\ s.accused = {} /\ TunnelSlotInv(s) /\ RoomInv(s) /\ \A c \in TunnelConn : ConnInv(s, c) /\ Owed(s, c, IF c = d THEN 0 ELSE 0)
  BY DEF TunnelOK
<1>c. Fresh(s, d) /\ Heard(s, d) /\ Credit(s, d) /\ Agree(s, d) /\ Owed(s, d, 0) BY <1>b DEF ConnInv
<1>d. Known(s, d) BY <1>b, WhatIsKnown
<1>w. s.up \in Seq(UpFrame) /\ s.down \in Seq(DownFrame) BY <1>b DEF TunnelType
<1>e. s.over \in BOOLEAN /\ s.late \in BOOLEAN BY <1>b DEF TunnelType
<1>s. ASSUME NEW t, t = [s EXCEPT !.writing = [s.writing EXCEPT ![d] = s.unwritten[d]],
                             !.unwritten = [s.unwritten EXCEPT ![d] = 0]]
      PROVE  TunnelOK(t, d, 0)
  <2> DEFINE writing1 == [s.writing EXCEPT ![d] = s.unwritten[d]]
             unwritten1 == [s.unwritten EXCEPT ![d] = 0]
  <2>1. /\ writing1 \in [TunnelConn -> 0..MaxTunnelBytes]
        /\ unwritten1 \in [TunnelConn -> 0..MaxTunnelBytes]
    <3>1. writing1 \in [TunnelConn -> 0..MaxTunnelBytes]
      <4>1. s.writing \in [TunnelConn -> 0..MaxTunnelBytes] /\ s.writing[d] \in 0..MaxTunnelBytes
        BY <1>b DEF TunnelType
      <4>2. s.unwritten[d] \in 0..MaxTunnelBytes BY <1>d DEF Known
      <4> QED BY <4>1, <4>2
    <3>2. unwritten1 \in [TunnelConn -> 0..MaxTunnelBytes] BY <1>b, <1>d DEF TunnelType, Known
    <3> QED BY <3>1, <3>2
  <2>2. t = [s EXCEPT !.writing = writing1, !.unwritten = unwritten1] BY <1>s
  <2> HIDE DEF writing1, unwritten1
  <2>3. t \in TunnelType BY <2>2, <2>1, <1>b, ZenonT(60) DEF TunnelType
  <2>4. /\ t.up = s.up /\ t.down = s.down /\ t.ready = s.ready /\ t.over = s.over /\ t.aborted = s.aborted
        /\ t.late = s.late /\ t.opener = s.opener /\ t.waiters = s.waiters /\ t.slots = s.slots
        /\ t.sockets = s.sockets /\ t.destroyed = s.destroyed /\ t.remoteClosed = s.remoteClosed
        /\ t.acking = s.acking /\ t.ended = s.ended /\ t.remoteEnded = s.remoteEnded
        /\ t.backpressured = s.backpressured /\ t.sendCredit = s.sendCredit /\ t.recvCredit = s.recvCredit
        /\ t.withheld = s.withheld /\ t.pending = s.pending /\ t.buffer = s.buffer /\ t.writing = writing1
        /\ t.unwritten = unwritten1 /\ t.unread = s.unread /\ t.conns = s.conns
        /\ t.connected = s.connected /\ t.nodeDestroyed = s.nodeDestroyed /\ t.outCredit = s.outCredit
        /\ t.inCredit = s.inCredit /\ t.input = s.input /\ t.chunk = s.chunk /\ t.accused = s.accused
        /\ t.refused = s.refused
    BY <2>2, <1>b DEF TunnelType
  <2>5. writing1[d] = s.unwritten[d] /\ \A c \in TunnelConn : c # d => writing1[c] = s.writing[c]
    BY <1>b DEF writing1, TunnelType
  <2>6. unwritten1[d] = 0 /\ \A c \in TunnelConn : c # d => unwritten1[c] = s.unwritten[c]
    BY <1>b DEF unwritten1, TunnelType
  <2>7. ASSUME NEW c \in TunnelConn, c # d PROVE Same(s, t, c)
    <3>1. SameWire(s.up, t.up, c) /\ SameWire(s.down, t.down, c)
      BY <2>7, <2>4, <2>5, <2>6 DEF SameWire
    <3> QED BY <2>7, <3>1, <2>4, <2>5, <2>6 DEF Same
  <2>8. Fresh(t, d) BY <1>c, <1>d, <2>4, <2>5, <2>6 DEF Known, Fresh, Still, Heard, Agree
  <2>9. Heard(t, d) BY <1>c, <1>d, <2>4, <2>5, <2>6 DEF Known, Heard, Fresh, Still, Agree
  <2>10. Credit(t, d)
    <3>1. fromNode(t, d) = fromNode(s, d) /\ fromNode(s, d) \in Nat
      BY <1>d, <2>4, <2>5, <2>6 DEF Known, fromNode
    <3>2. fromClient(t, d) = fromClient(s, d) /\ fromClient(s, d) \in Nat
      BY <1>d, <2>4, <2>5, <2>6 DEF Known, fromClient
    <3>3. Live(t, d) => Live(s, d) /\ (t.opener[d] = "done" => s.opener[d] = "done")
      BY <1>c, <1>d, <2>4, <2>5, <2>6 DEF Live, Known, Fresh, Still, Heard, Agree
    <3> QED BY <1>c, <1>d, <2>4, <2>5, <2>6, <3>1, <3>2, <3>3 DEF Known, Credit
  <2>11. Agree(t, d) BY <1>c, <1>d, <2>4, <2>5, <2>6 DEF Known, Agree, Fresh, Still, Heard
  <2>12. Owed(t, d, 0) BY <1>c, <1>d, <2>4, <2>5, <2>6 DEF Known, Owed
  <2>13. TunnelSlotInv(t) BY <1>b, <2>4 DEF TunnelSlotInv, grantedOf
  <2>14. RoomInv(t) BY <1>b, <2>4 DEF RoomInv, roomFor
  <2> QED BY <1>b, <2>3, <2>4, <2>7, <2>8, <2>9, <2>10, <2>11, <2>12, <2>13, <2>14, TunnelKept
<1> QED BY <1>s

LEMMA ClientSendsHolds ==
    ASSUME NEW s, NEW d \in TunnelConn, TunnelOK(s, d, 0),
           s.over = FALSE, NEW n \in 1..FrameLimit, n <= s.writing[d], n <= s.sendCredit[d]
    PROVE  \A t : t = [s EXCEPT !.up = Append(s.up, frame("data", d, n)),
                           !.writing = [s.writing EXCEPT ![d] = s.writing[d] - n],
                           !.sendCredit = [s.sendCredit EXCEPT ![d] = s.sendCredit[d] - n]] => TunnelOK(t, d, 0)
<1>b. s \in TunnelType /\ s.accused = {} /\ TunnelSlotInv(s) /\ RoomInv(s) /\ \A c \in TunnelConn : ConnInv(s, c) /\ Owed(s, c, IF c = d THEN 0 ELSE 0)
  BY DEF TunnelOK
<1>c. Fresh(s, d) /\ Heard(s, d) /\ Credit(s, d) /\ Agree(s, d) /\ Owed(s, d, 0) BY <1>b DEF ConnInv
<1>d. Known(s, d) BY <1>b, WhatIsKnown
<1>w. s.up \in Seq(UpFrame) /\ s.down \in Seq(DownFrame) BY <1>b DEF TunnelType
<1>e. s.over \in BOOLEAN /\ s.late \in BOOLEAN BY <1>b DEF TunnelType
<1>1. n \in Nat /\ n <= TunnelWindow /\ n > 0 BY <1>c, <1>d DEF Known
<1>s. ASSUME NEW t, t = [s EXCEPT !.up = Append(s.up, frame("data", d, n)),
                             !.writing = [s.writing EXCEPT ![d] = s.writing[d] - n],
                             !.sendCredit = [s.sendCredit EXCEPT ![d] = s.sendCredit[d] - n]]
      PROVE  TunnelOK(t, d, 0)
  <2> DEFINE up1 == Append(s.up, frame("data", d, n))
             writing1 == [s.writing EXCEPT ![d] = s.writing[d] - n]
             sendCredit1 == [s.sendCredit EXCEPT ![d] = s.sendCredit[d] - n]
  <2>1. /\ up1 \in Seq(UpFrame) /\ writing1 \in [TunnelConn -> 0..MaxTunnelBytes]
        /\ sendCredit1 \in [TunnelConn -> 0..TunnelWindow]
    <3>1. up1 \in Seq(UpFrame)
      <4>1. frame("data", d, n) \in UpFrame BY <1>d, <1>1, Frames DEF Known
      <4> QED BY <1>w, <4>1
    <3>2. writing1 \in [TunnelConn -> 0..MaxTunnelBytes]
      <4>1. s.writing \in [TunnelConn -> 0..MaxTunnelBytes] /\ s.writing[d] \in 0..MaxTunnelBytes
        BY <1>b DEF TunnelType
      <4>2. s.writing[d] - n \in 0..MaxTunnelBytes BY <1>d, <1>1 DEF Known
      <4> QED BY <4>1, <4>2
    <3>3. sendCredit1 \in [TunnelConn -> 0..TunnelWindow]
      <4>1. s.sendCredit \in [TunnelConn -> 0..TunnelWindow] /\ s.sendCredit[d] \in 0..TunnelWindow
        BY <1>b DEF TunnelType
      <4>2. s.sendCredit[d] - n \in 0..TunnelWindow BY <1>d, <1>1 DEF Known
      <4> QED BY <4>1, <4>2
    <3> QED BY <3>1, <3>2, <3>3
  <2>2. t = [s EXCEPT !.up = up1, !.writing = writing1, !.sendCredit = sendCredit1] BY <1>s
  <2> HIDE DEF up1, writing1, sendCredit1
  <2>3. t \in TunnelType BY <2>2, <2>1, <1>b, ZenonT(60) DEF TunnelType
  <2>4. /\ t.up = up1 /\ t.down = s.down /\ t.ready = s.ready /\ t.over = s.over /\ t.aborted = s.aborted
        /\ t.late = s.late /\ t.opener = s.opener /\ t.waiters = s.waiters /\ t.slots = s.slots
        /\ t.sockets = s.sockets /\ t.destroyed = s.destroyed /\ t.remoteClosed = s.remoteClosed
        /\ t.acking = s.acking /\ t.ended = s.ended /\ t.remoteEnded = s.remoteEnded
        /\ t.backpressured = s.backpressured /\ t.sendCredit = sendCredit1 /\ t.recvCredit = s.recvCredit
        /\ t.withheld = s.withheld /\ t.pending = s.pending /\ t.buffer = s.buffer /\ t.writing = writing1
        /\ t.unwritten = s.unwritten /\ t.unread = s.unread /\ t.conns = s.conns
        /\ t.connected = s.connected /\ t.nodeDestroyed = s.nodeDestroyed /\ t.outCredit = s.outCredit
        /\ t.inCredit = s.inCredit /\ t.input = s.input /\ t.chunk = s.chunk /\ t.accused = s.accused
        /\ t.refused = s.refused
    BY <2>2, <1>b DEF TunnelType
  <2>5. writing1[d] = s.writing[d] - n /\ \A c \in TunnelConn : c # d => writing1[c] = s.writing[c]
    BY <1>b DEF writing1, TunnelType
  <2>6. sendCredit1[d] = s.sendCredit[d] - n /\ \A c \in TunnelConn : c # d => sendCredit1[c] = s.sendCredit[c]
    BY <1>b DEF sendCredit1, TunnelType
  <2>7. SentUp(s.up, up1, "data", d, n)
    <3>1. frame("data", d, n) \in UpFrame BY <1>d, <1>1, Frames DEF Known
    <3> QED BY <1>w, <3>1, UpSent DEF up1
  <2>8. ASSUME NEW c \in TunnelConn, c # d PROVE Same(s, t, c)
    <3>1. SameWire(s.up, t.up, c) /\ SameWire(s.down, t.down, c)
      BY <2>8, <2>4, <2>5, <2>6, <2>7 DEF SameWire, SentUp
    <3> QED BY <2>8, <3>1, <2>4, <2>5, <2>6, <2>7 DEF Same
  <2>9. Fresh(t, d)
    BY <1>c, <1>d, <1>1, <2>4, <2>5, <2>6, <2>7 DEF Known, SentUp, Fresh, Still, Heard, Agree
  <2>10. Heard(t, d)
    BY <1>c, <1>d, <1>1, <2>4, <2>5, <2>6, <2>7 DEF Known, SentUp, Heard, Fresh, Still, Agree
  <2>11. Credit(t, d)
    <3>1. fromNode(t, d) = fromNode(s, d) /\ fromNode(s, d) \in Nat
      BY <1>d, <1>1, <2>4, <2>5, <2>6, <2>7 DEF Known, SentUp, fromNode
    <3>2. fromClient(t, d) = fromClient(s, d) /\ fromClient(s, d) \in Nat
      BY <1>d, <1>1, <2>4, <2>5, <2>6, <2>7 DEF Known, SentUp, fromClient
    <3>3. Live(t, d) => Live(s, d) /\ (t.opener[d] = "done" => s.opener[d] = "done")
      BY <1>c, <1>d, <1>1, <2>4, <2>5, <2>6, <2>7 DEF Live, Known, SentUp, Fresh, Still, Heard, Agree
    <3> QED BY <1>c, <1>d, <1>1, <2>4, <2>5, <2>6, <2>7, <3>1, <3>2, <3>3 DEF Known, Credit
  <2>12. Agree(t, d)
    BY <1>c, <1>d, <1>1, <2>4, <2>5, <2>6, <2>7 DEF Known, SentUp, Agree, Fresh, Still, Heard
  <2>13. Owed(t, d, 0) BY <1>c, <1>d, <1>1, <2>4, <2>5, <2>6, <2>7 DEF Known, SentUp, Owed
  <2>14. TunnelSlotInv(t) BY <1>b, <2>4 DEF TunnelSlotInv, grantedOf
  <2>15. RoomInv(t)
    <3>1. \A c \in TunnelConn : (onWire(t.up, "open", c) => onWire(s.up, "open", c)) /\ (c \in t.conns => c \in s.conns)
      BY <1>c, <1>d, <2>4, <2>5, <2>6, <2>7, <1>1 DEF SameWire, Fresh, Still, Heard, Known, SentUp
    <3>2. s.conns \subseteq TunnelConn /\ t.conns \subseteq TunnelConn BY <1>b, <2>3 DEF TunnelType
    <3>3. roomFor(t) \subseteq roomFor(s) BY <3>1, <3>2 DEF roomFor
    <3> QED BY <1>b, <1>e, <3>3, <2>4, RoomFewer
  <2> QED BY <1>b, <2>3, <2>4, <2>8, <2>9, <2>10, <2>11, <2>12, <2>13, <2>14, <2>15, TunnelKept
<1> QED BY <1>s

LEMMA ClientEndsHolds ==
    ASSUME NEW s, NEW d \in TunnelConn, TunnelOK(s, d, 0),
           s.over = FALSE, s.opener[d] = "done"
    PROVE  \A t : t = [s EXCEPT !.up = Append(s.up, frame("end", d, 0)), !.ended = s.ended \cup {d}] => TunnelOK(t, d, 0)
<1>b. s \in TunnelType /\ s.accused = {} /\ TunnelSlotInv(s) /\ RoomInv(s) /\ \A c \in TunnelConn : ConnInv(s, c) /\ Owed(s, c, IF c = d THEN 0 ELSE 0)
  BY DEF TunnelOK
<1>c. Fresh(s, d) /\ Heard(s, d) /\ Credit(s, d) /\ Agree(s, d) /\ Owed(s, d, 0) BY <1>b DEF ConnInv
<1>d. Known(s, d) BY <1>b, WhatIsKnown
<1>w. s.up \in Seq(UpFrame) /\ s.down \in Seq(DownFrame) BY <1>b DEF TunnelType
<1>e. s.over \in BOOLEAN /\ s.late \in BOOLEAN BY <1>b DEF TunnelType
<1>s. ASSUME NEW t, t = [s EXCEPT !.up = Append(s.up, frame("end", d, 0)), !.ended = s.ended \cup {d}]
      PROVE  TunnelOK(t, d, 0)
  <2> DEFINE up1 == Append(s.up, frame("end", d, 0))
             ended1 == s.ended \cup {d}
  <2>1. /\ up1 \in Seq(UpFrame) /\ ended1 \in SUBSET TunnelConn
    <3>1. up1 \in Seq(UpFrame)
      <4>1. frame("end", d, 0) \in UpFrame BY <1>d, Frames DEF Known
      <4> QED BY <1>w, <4>1
    <3>2. ended1 \in SUBSET TunnelConn BY <1>b, <1>d DEF TunnelType, Known
    <3> QED BY <3>1, <3>2
  <2>2. t = [s EXCEPT !.up = up1, !.ended = ended1] BY <1>s
  <2> HIDE DEF up1, ended1
  <2>3. t \in TunnelType BY <2>2, <2>1, <1>b, ZenonT(60) DEF TunnelType
  <2>4. /\ t.up = up1 /\ t.down = s.down /\ t.ready = s.ready /\ t.over = s.over /\ t.aborted = s.aborted
        /\ t.late = s.late /\ t.opener = s.opener /\ t.waiters = s.waiters /\ t.slots = s.slots
        /\ t.sockets = s.sockets /\ t.destroyed = s.destroyed /\ t.remoteClosed = s.remoteClosed
        /\ t.acking = s.acking /\ t.ended = ended1 /\ t.remoteEnded = s.remoteEnded
        /\ t.backpressured = s.backpressured /\ t.sendCredit = s.sendCredit /\ t.recvCredit = s.recvCredit
        /\ t.withheld = s.withheld /\ t.pending = s.pending /\ t.buffer = s.buffer /\ t.writing = s.writing
        /\ t.unwritten = s.unwritten /\ t.unread = s.unread /\ t.conns = s.conns
        /\ t.connected = s.connected /\ t.nodeDestroyed = s.nodeDestroyed /\ t.outCredit = s.outCredit
        /\ t.inCredit = s.inCredit /\ t.input = s.input /\ t.chunk = s.chunk /\ t.accused = s.accused
        /\ t.refused = s.refused
    BY <2>2, <1>b DEF TunnelType
  <2>5. d \in ended1 /\ \A c : c # d => (c \in ended1 <=> c \in s.ended) BY DEF ended1
  <2>6. SentUp(s.up, up1, "end", d, 0)
    <3>1. frame("end", d, 0) \in UpFrame BY <1>d, Frames DEF Known
    <3> QED BY <1>w, <3>1, UpSent DEF up1
  <2>7. ASSUME NEW c \in TunnelConn, c # d PROVE Same(s, t, c)
    <3>1. SameWire(s.up, t.up, c) /\ SameWire(s.down, t.down, c)
      BY <2>7, <2>4, <2>5, <2>6 DEF SameWire, SentUp
    <3> QED BY <2>7, <3>1, <2>4, <2>5, <2>6 DEF Same
  <2>8. Fresh(t, d) BY <1>c, <1>d, <2>4, <2>5, <2>6 DEF Known, SentUp, Fresh, Still, Heard, Agree
  <2>9. Heard(t, d) BY <1>c, <1>d, <2>4, <2>5, <2>6 DEF Known, SentUp, Heard, Fresh, Still, Agree
  <2>10. Credit(t, d)
    <3>1. fromNode(t, d) = fromNode(s, d) /\ fromNode(s, d) \in Nat
      BY <1>d, <2>4, <2>5, <2>6 DEF Known, SentUp, fromNode
    <3>2. fromClient(t, d) = fromClient(s, d) /\ fromClient(s, d) \in Nat
      BY <1>d, <2>4, <2>5, <2>6 DEF Known, SentUp, fromClient
    <3>3. Live(t, d) => Live(s, d) /\ (t.opener[d] = "done" => s.opener[d] = "done")
      BY <1>c, <1>d, <2>4, <2>5, <2>6 DEF Live, Known, SentUp, Fresh, Still, Heard, Agree
    <3> QED BY <1>c, <1>d, <2>4, <2>5, <2>6, <3>1, <3>2, <3>3 DEF Known, Credit
  <2>11. Agree(t, d) BY <1>c, <1>d, <2>4, <2>5, <2>6 DEF Known, SentUp, Agree, Fresh, Still, Heard
  <2>12. Owed(t, d, 0) BY <1>c, <1>d, <2>4, <2>5, <2>6 DEF Known, SentUp, Owed
  <2>13. TunnelSlotInv(t) BY <1>b, <2>4 DEF TunnelSlotInv, grantedOf
  <2>14. RoomInv(t)
    <3>1. \A c \in TunnelConn : (onWire(t.up, "open", c) => onWire(s.up, "open", c)) /\ (c \in t.conns => c \in s.conns)
      BY <1>c, <1>d, <2>4, <2>5, <2>6 DEF SameWire, Fresh, Still, Heard, Known, SentUp
    <3>2. s.conns \subseteq TunnelConn /\ t.conns \subseteq TunnelConn BY <1>b, <2>3 DEF TunnelType
    <3>3. roomFor(t) \subseteq roomFor(s) BY <3>1, <3>2 DEF roomFor
    <3> QED BY <1>b, <1>e, <3>3, <2>4, RoomFewer
  <2> QED BY <1>b, <2>3, <2>4, <2>7, <2>8, <2>9, <2>10, <2>11, <2>12, <2>13, <2>14, TunnelKept
<1> QED BY <1>s

\* The node: the target accepts, what has come in is written to it.
LEMMA NodeConnectsHolds ==
    ASSUME NEW s, NEW d \in TunnelConn, TunnelOK(s, d, 0),
           d \in s.conns, d \notin s.nodeDestroyed, d \notin s.connected
    PROVE  \A t : t = [s EXCEPT !.down = Append(s.down, frame("opened", d, 0)), !.connected = s.connected \cup {d}] => TunnelOK(t, d, 0)
<1>b. s \in TunnelType /\ s.accused = {} /\ TunnelSlotInv(s) /\ RoomInv(s) /\ \A c \in TunnelConn : ConnInv(s, c) /\ Owed(s, c, IF c = d THEN 0 ELSE 0)
  BY DEF TunnelOK
<1>c. Fresh(s, d) /\ Heard(s, d) /\ Credit(s, d) /\ Agree(s, d) /\ Owed(s, d, 0) BY <1>b DEF ConnInv
<1>d. Known(s, d) BY <1>b, WhatIsKnown
<1>w. s.up \in Seq(UpFrame) /\ s.down \in Seq(DownFrame) BY <1>b DEF TunnelType
<1>e. s.over \in BOOLEAN /\ s.late \in BOOLEAN BY <1>b DEF TunnelType
<1>s. ASSUME NEW t, t = [s EXCEPT !.down = Append(s.down, frame("opened", d, 0)), !.connected = s.connected \cup {d}]
      PROVE  TunnelOK(t, d, 0)
  <2> DEFINE down1 == Append(s.down, frame("opened", d, 0))
             connected1 == s.connected \cup {d}
  <2>1. /\ down1 \in Seq(DownFrame) /\ connected1 \in SUBSET TunnelConn
    <3>1. down1 \in Seq(DownFrame)
      <4>1. frame("opened", d, 0) \in DownFrame BY <1>d, Frames DEF Known
      <4> QED BY <1>w, <4>1
    <3>2. connected1 \in SUBSET TunnelConn BY <1>b, <1>d DEF TunnelType, Known
    <3> QED BY <3>1, <3>2
  <2>2. t = [s EXCEPT !.down = down1, !.connected = connected1] BY <1>s
  <2> HIDE DEF down1, connected1
  <2>3. t \in TunnelType BY <2>2, <2>1, <1>b, ZenonT(60) DEF TunnelType
  <2>4. /\ t.up = s.up /\ t.down = down1 /\ t.ready = s.ready /\ t.over = s.over /\ t.aborted = s.aborted
        /\ t.late = s.late /\ t.opener = s.opener /\ t.waiters = s.waiters /\ t.slots = s.slots
        /\ t.sockets = s.sockets /\ t.destroyed = s.destroyed /\ t.remoteClosed = s.remoteClosed
        /\ t.acking = s.acking /\ t.ended = s.ended /\ t.remoteEnded = s.remoteEnded
        /\ t.backpressured = s.backpressured /\ t.sendCredit = s.sendCredit /\ t.recvCredit = s.recvCredit
        /\ t.withheld = s.withheld /\ t.pending = s.pending /\ t.buffer = s.buffer /\ t.writing = s.writing
        /\ t.unwritten = s.unwritten /\ t.unread = s.unread /\ t.conns = s.conns
        /\ t.connected = connected1 /\ t.nodeDestroyed = s.nodeDestroyed /\ t.outCredit = s.outCredit
        /\ t.inCredit = s.inCredit /\ t.input = s.input /\ t.chunk = s.chunk /\ t.accused = s.accused
        /\ t.refused = s.refused
    BY <2>2, <1>b DEF TunnelType
  <2>5. d \in connected1 /\ \A c : c # d => (c \in connected1 <=> c \in s.connected)
    BY DEF connected1
  <2>6. SentDown(s.down, down1, "opened", d, 0)
    <3>1. frame("opened", d, 0) \in DownFrame BY <1>d, Frames DEF Known
    <3> QED BY <1>w, <3>1, DownSent DEF down1
  <2>7. ASSUME NEW c \in TunnelConn, c # d PROVE Same(s, t, c)
    <3>1. SameWire(s.up, t.up, c) /\ SameWire(s.down, t.down, c)
      BY <2>7, <2>4, <2>5, <2>6 DEF SameWire, SentDown
    <3> QED BY <2>7, <3>1, <2>4, <2>5, <2>6 DEF Same
  <2>8. Fresh(t, d) BY <1>c, <1>d, <2>4, <2>5, <2>6 DEF Known, SentDown, Fresh, Still, Heard, Agree
  <2>9. Heard(t, d) BY <1>c, <1>d, <2>4, <2>5, <2>6 DEF Known, SentDown, Heard, Fresh, Still, Agree
  <2>10. Credit(t, d)
    <3>1. fromNode(t, d) = fromNode(s, d) /\ fromNode(s, d) \in Nat
      BY <1>d, <2>4, <2>5, <2>6 DEF Known, SentDown, fromNode
    <3>2. fromClient(t, d) = fromClient(s, d) /\ fromClient(s, d) \in Nat
      BY <1>d, <2>4, <2>5, <2>6 DEF Known, SentDown, fromClient
    <3>3. Live(t, d) => Live(s, d) /\ (t.opener[d] = "done" => s.opener[d] = "done")
      BY <1>c, <1>d, <2>4, <2>5, <2>6 DEF Live, Known, SentDown, Fresh, Still, Heard, Agree
    <3> QED BY <1>c, <1>d, <2>4, <2>5, <2>6, <3>1, <3>2, <3>3 DEF Known, Credit
  <2>11. Agree(t, d) BY <1>c, <1>d, <2>4, <2>5, <2>6 DEF Known, SentDown, Agree, Fresh, Still, Heard
  <2>12. Owed(t, d, 0) BY <1>c, <1>d, <2>4, <2>5, <2>6 DEF Known, SentDown, Owed
  <2>13. TunnelSlotInv(t) BY <1>b, <2>4 DEF TunnelSlotInv, grantedOf
  <2>14. RoomInv(t) BY <1>b, <2>4 DEF RoomInv, roomFor
  <2> QED BY <1>b, <2>3, <2>4, <2>7, <2>8, <2>9, <2>10, <2>11, <2>12, <2>13, <2>14, TunnelKept
<1> QED BY <1>s

LEMMA NodeWritesEndHolds ==
    ASSUME NEW s, NEW d \in TunnelConn, TunnelOK(s, d, 0),
           d \in s.conns, d \in s.connected, ~onWire(s.down, "opened", d), NEW n \in Nat, NEW rest \in InputQueue,
           total(rest) \in Nat, total(s.input[d]) = n + total(rest), n = 0
    PROVE  \A t : t = [s EXCEPT !.input = [s.input EXCEPT ![d] = rest]] => TunnelOK(t, d, 0)
<1>b. s \in TunnelType /\ s.accused = {} /\ TunnelSlotInv(s) /\ RoomInv(s) /\ \A c \in TunnelConn : ConnInv(s, c) /\ Owed(s, c, IF c = d THEN 0 ELSE 0)
  BY DEF TunnelOK
<1>c. Fresh(s, d) /\ Heard(s, d) /\ Credit(s, d) /\ Agree(s, d) /\ Owed(s, d, 0) BY <1>b DEF ConnInv
<1>d. Known(s, d) BY <1>b, WhatIsKnown
<1>w. s.up \in Seq(UpFrame) /\ s.down \in Seq(DownFrame) BY <1>b DEF TunnelType
<1>e. s.over \in BOOLEAN /\ s.late \in BOOLEAN BY <1>b DEF TunnelType
<1>1. n <= TunnelWindow /\ s.inCredit[d] + n <= TunnelWindow BY <1>c, <1>d DEF Known, Credit
<1>s. ASSUME NEW t, t = [s EXCEPT !.input = [s.input EXCEPT ![d] = rest]]
      PROVE  TunnelOK(t, d, 0)
  <2> DEFINE input1 == [s.input EXCEPT ![d] = rest]
  <2>1. input1 \in [TunnelConn -> Seq(0..FrameLimit)]
    BY <1>b, <1>d, <1>1 DEF TunnelType, Known, InputQueue
  <2>2. t = [s EXCEPT !.input = input1] BY <1>s
  <2> HIDE DEF input1
  <2>3. t \in TunnelType BY <2>2, <2>1, <1>b, ZenonT(60) DEF TunnelType
  <2>4. /\ t.up = s.up /\ t.down = s.down /\ t.ready = s.ready /\ t.over = s.over /\ t.aborted = s.aborted
        /\ t.late = s.late /\ t.opener = s.opener /\ t.waiters = s.waiters /\ t.slots = s.slots
        /\ t.sockets = s.sockets /\ t.destroyed = s.destroyed /\ t.remoteClosed = s.remoteClosed
        /\ t.acking = s.acking /\ t.ended = s.ended /\ t.remoteEnded = s.remoteEnded
        /\ t.backpressured = s.backpressured /\ t.sendCredit = s.sendCredit /\ t.recvCredit = s.recvCredit
        /\ t.withheld = s.withheld /\ t.pending = s.pending /\ t.buffer = s.buffer /\ t.writing = s.writing
        /\ t.unwritten = s.unwritten /\ t.unread = s.unread /\ t.conns = s.conns
        /\ t.connected = s.connected /\ t.nodeDestroyed = s.nodeDestroyed /\ t.outCredit = s.outCredit
        /\ t.inCredit = s.inCredit /\ t.input = input1 /\ t.chunk = s.chunk /\ t.accused = s.accused
        /\ t.refused = s.refused
    BY <2>2, <1>b DEF TunnelType
  <2>5. input1[d] = rest /\ \A c \in TunnelConn : c # d => input1[c] = s.input[c]
    BY <1>b DEF input1, TunnelType
  <2>6. ASSUME NEW c \in TunnelConn, c # d PROVE Same(s, t, c)
    <3>1. SameWire(s.up, t.up, c) /\ SameWire(s.down, t.down, c) BY <2>6, <2>4, <2>5 DEF SameWire
    <3> QED BY <2>6, <3>1, <2>4, <2>5 DEF Same
  <2>7. Fresh(t, d) BY <1>c, <1>d, <1>1, <2>4, <2>5 DEF Known, Fresh, Still, Heard, Agree
  <2>8. Heard(t, d) BY <1>c, <1>d, <1>1, <2>4, <2>5 DEF Known, Heard, Fresh, Still, Agree
  <2>9. Credit(t, d)
    <3>1. fromNode(t, d) = fromNode(s, d) /\ fromNode(s, d) \in Nat
      BY <1>d, <1>1, <2>4, <2>5 DEF Known, fromNode
    <3>2. fromClient(t, d) = fromClient(s, d) /\ fromClient(s, d) \in Nat
      BY <1>d, <1>1, <2>4, <2>5 DEF Known, fromClient
    <3>3. Live(t, d) => Live(s, d) /\ (t.opener[d] = "done" => s.opener[d] = "done")
      BY <1>c, <1>d, <1>1, <2>4, <2>5 DEF Live, Known, Fresh, Still, Heard, Agree
    <3> QED BY <1>c, <1>d, <1>1, <2>4, <2>5, <3>1, <3>2, <3>3 DEF Known, Credit
  <2>10. Agree(t, d) BY <1>c, <1>d, <1>1, <2>4, <2>5 DEF Known, Agree, Fresh, Still, Heard
  <2>11. Owed(t, d, 0) BY <1>c, <1>d, <1>1, <2>4, <2>5 DEF Known, Owed
  <2>12. TunnelSlotInv(t) BY <1>b, <2>4 DEF TunnelSlotInv, grantedOf
  <2>13. RoomInv(t) BY <1>b, <2>4 DEF RoomInv, roomFor
  <2> QED BY <1>b, <2>3, <2>4, <2>6, <2>7, <2>8, <2>9, <2>10, <2>11, <2>12, <2>13, TunnelKept
<1> QED BY <1>s

LEMMA NodeWritesHolds ==
    ASSUME NEW s, NEW d \in TunnelConn, TunnelOK(s, d, 0),
           d \in s.conns, d \in s.connected, ~onWire(s.down, "opened", d), NEW n \in Nat, NEW rest \in InputQueue,
           total(rest) \in Nat, total(s.input[d]) = n + total(rest), n # 0, s.aborted = FALSE
    PROVE  \A t : t = [s EXCEPT !.down = Append(s.down, frame("credit", d, n)), !.input = [s.input EXCEPT ![d] = rest],
                           !.inCredit = [s.inCredit EXCEPT ![d] = s.inCredit[d] + n]] => TunnelOK(t, d, 0)
<1>b. s \in TunnelType /\ s.accused = {} /\ TunnelSlotInv(s) /\ RoomInv(s) /\ \A c \in TunnelConn : ConnInv(s, c) /\ Owed(s, c, IF c = d THEN 0 ELSE 0)
  BY DEF TunnelOK
<1>c. Fresh(s, d) /\ Heard(s, d) /\ Credit(s, d) /\ Agree(s, d) /\ Owed(s, d, 0) BY <1>b DEF ConnInv
<1>d. Known(s, d) BY <1>b, WhatIsKnown
<1>w. s.up \in Seq(UpFrame) /\ s.down \in Seq(DownFrame) BY <1>b DEF TunnelType
<1>e. s.over \in BOOLEAN /\ s.late \in BOOLEAN BY <1>b DEF TunnelType
<1>1. n <= TunnelWindow /\ s.inCredit[d] + n <= TunnelWindow BY <1>c, <1>d DEF Known, Credit
<1>s. ASSUME NEW t, t = [s EXCEPT !.down = Append(s.down, frame("credit", d, n)), !.input = [s.input EXCEPT ![d] = rest],
                             !.inCredit = [s.inCredit EXCEPT ![d] = s.inCredit[d] + n]]
      PROVE  TunnelOK(t, d, 0)
  <2> DEFINE down1 == Append(s.down, frame("credit", d, n))
             input1 == [s.input EXCEPT ![d] = rest]
             inCredit1 == [s.inCredit EXCEPT ![d] = s.inCredit[d] + n]
  <2>1. /\ down1 \in Seq(DownFrame) /\ input1 \in [TunnelConn -> Seq(0..FrameLimit)]
        /\ inCredit1 \in [TunnelConn -> 0..TunnelWindow]
    <3>1. down1 \in Seq(DownFrame)
      <4>1. frame("credit", d, n) \in DownFrame BY <1>d, <1>1, Frames DEF Known
      <4> QED BY <1>w, <4>1
    <3>2. input1 \in [TunnelConn -> Seq(0..FrameLimit)]
      BY <1>b, <1>d, <1>1 DEF TunnelType, Known, InputQueue
    <3>3. inCredit1 \in [TunnelConn -> 0..TunnelWindow]
      <4>1. s.inCredit \in [TunnelConn -> 0..TunnelWindow] /\ s.inCredit[d] \in 0..TunnelWindow
        BY <1>b DEF TunnelType
      <4>2. s.inCredit[d] + n \in 0..TunnelWindow BY <1>d, <1>1 DEF Known
      <4> QED BY <4>1, <4>2
    <3> QED BY <3>1, <3>2, <3>3
  <2>2. t = [s EXCEPT !.down = down1, !.input = input1, !.inCredit = inCredit1] BY <1>s
  <2> HIDE DEF down1, input1, inCredit1
  <2>3. t \in TunnelType BY <2>2, <2>1, <1>b, ZenonT(60) DEF TunnelType
  <2>4. /\ t.up = s.up /\ t.down = down1 /\ t.ready = s.ready /\ t.over = s.over /\ t.aborted = s.aborted
        /\ t.late = s.late /\ t.opener = s.opener /\ t.waiters = s.waiters /\ t.slots = s.slots
        /\ t.sockets = s.sockets /\ t.destroyed = s.destroyed /\ t.remoteClosed = s.remoteClosed
        /\ t.acking = s.acking /\ t.ended = s.ended /\ t.remoteEnded = s.remoteEnded
        /\ t.backpressured = s.backpressured /\ t.sendCredit = s.sendCredit /\ t.recvCredit = s.recvCredit
        /\ t.withheld = s.withheld /\ t.pending = s.pending /\ t.buffer = s.buffer /\ t.writing = s.writing
        /\ t.unwritten = s.unwritten /\ t.unread = s.unread /\ t.conns = s.conns
        /\ t.connected = s.connected /\ t.nodeDestroyed = s.nodeDestroyed /\ t.outCredit = s.outCredit
        /\ t.inCredit = inCredit1 /\ t.input = input1 /\ t.chunk = s.chunk /\ t.accused = s.accused
        /\ t.refused = s.refused
    BY <2>2, <1>b DEF TunnelType
  <2>5. input1[d] = rest /\ \A c \in TunnelConn : c # d => input1[c] = s.input[c]
    BY <1>b DEF input1, TunnelType
  <2>6. inCredit1[d] = s.inCredit[d] + n /\ \A c \in TunnelConn : c # d => inCredit1[c] = s.inCredit[c]
    BY <1>b DEF inCredit1, TunnelType
  <2>7. SentDown(s.down, down1, "credit", d, n)
    <3>1. frame("credit", d, n) \in DownFrame BY <1>d, <1>1, Frames DEF Known
    <3> QED BY <1>w, <3>1, DownSent DEF down1
  <2>8. ASSUME NEW c \in TunnelConn, c # d PROVE Same(s, t, c)
    <3>1. SameWire(s.up, t.up, c) /\ SameWire(s.down, t.down, c)
      BY <2>8, <2>4, <2>5, <2>6, <2>7 DEF SameWire, SentDown
    <3> QED BY <2>8, <3>1, <2>4, <2>5, <2>6, <2>7 DEF Same
  <2>9. Fresh(t, d)
    BY <1>c, <1>d, <1>1, <2>4, <2>5, <2>6, <2>7 DEF Known, SentDown, Fresh, Still, Heard, Agree
  <2>10. Heard(t, d)
    BY <1>c, <1>d, <1>1, <2>4, <2>5, <2>6, <2>7 DEF Known, SentDown, Heard, Fresh, Still, Agree
  <2>11. Credit(t, d)
    <3>1. fromNode(t, d) = fromNode(s, d) /\ fromNode(s, d) \in Nat
      BY <1>d, <1>1, <2>4, <2>5, <2>6, <2>7 DEF Known, SentDown, fromNode
    <3>2. fromClient(t, d) = fromClient(s, d) + n /\ fromClient(s, d) \in Nat
      BY <1>d, <1>1, <2>4, <2>5, <2>6, <2>7 DEF Known, SentDown, fromClient
    <3>3. Live(t, d) => Live(s, d) /\ (t.opener[d] = "done" => s.opener[d] = "done")
      BY <1>c, <1>d, <1>1, <2>4, <2>5, <2>6, <2>7 DEF Live, Known, SentDown, Fresh, Still, Heard, Agree
    <3> QED BY <1>c, <1>d, <1>1, <2>4, <2>5, <2>6, <2>7, <3>1, <3>2, <3>3 DEF Known, Credit
  <2>12. Agree(t, d)
    BY <1>c, <1>d, <1>1, <2>4, <2>5, <2>6, <2>7 DEF Known, SentDown, Agree, Fresh, Still, Heard
  <2>13. Owed(t, d, 0) BY <1>c, <1>d, <1>1, <2>4, <2>5, <2>6, <2>7 DEF Known, SentDown, Owed
  <2>14. TunnelSlotInv(t) BY <1>b, <2>4 DEF TunnelSlotInv, grantedOf
  <2>15. RoomInv(t) BY <1>b, <2>4 DEF RoomInv, roomFor
  <2> QED BY <1>b, <2>3, <2>4, <2>8, <2>9, <2>10, <2>11, <2>12, <2>13, <2>14, <2>15, TunnelKept
<1> QED BY <1>s

\* The node reads from the target, sends as far as there is credit, and reaches the end.
LEMMA NodeReadsHolds ==
    ASSUME NEW s, NEW d \in TunnelConn, TunnelOK(s, d, 0),
           d \in s.conns
    PROVE  \A t : t = [s EXCEPT !.chunk = [s.chunk EXCEPT ![d] = s.unread[d]], !.unread = [s.unread EXCEPT ![d] = 0]] => TunnelOK(t, d, 0)
<1>b. s \in TunnelType /\ s.accused = {} /\ TunnelSlotInv(s) /\ RoomInv(s) /\ \A c \in TunnelConn : ConnInv(s, c) /\ Owed(s, c, IF c = d THEN 0 ELSE 0)
  BY DEF TunnelOK
<1>c. Fresh(s, d) /\ Heard(s, d) /\ Credit(s, d) /\ Agree(s, d) /\ Owed(s, d, 0) BY <1>b DEF ConnInv
<1>d. Known(s, d) BY <1>b, WhatIsKnown
<1>w. s.up \in Seq(UpFrame) /\ s.down \in Seq(DownFrame) BY <1>b DEF TunnelType
<1>e. s.over \in BOOLEAN /\ s.late \in BOOLEAN BY <1>b DEF TunnelType
<1>s. ASSUME NEW t, t = [s EXCEPT !.chunk = [s.chunk EXCEPT ![d] = s.unread[d]], !.unread = [s.unread EXCEPT ![d] = 0]]
      PROVE  TunnelOK(t, d, 0)
  <2> DEFINE chunk1 == [s.chunk EXCEPT ![d] = s.unread[d]]
             unread1 == [s.unread EXCEPT ![d] = 0]
  <2>1. /\ chunk1 \in [TunnelConn -> 0..MaxTunnelBytes] /\ unread1 \in [TunnelConn -> 0..MaxTunnelBytes]
    <3>1. chunk1 \in [TunnelConn -> 0..MaxTunnelBytes]
      <4>1. s.chunk \in [TunnelConn -> 0..MaxTunnelBytes] /\ s.chunk[d] \in 0..MaxTunnelBytes
        BY <1>b DEF TunnelType
      <4>2. s.unread[d] \in 0..MaxTunnelBytes BY <1>d DEF Known
      <4> QED BY <4>1, <4>2
    <3>2. unread1 \in [TunnelConn -> 0..MaxTunnelBytes] BY <1>b, <1>d DEF TunnelType, Known
    <3> QED BY <3>1, <3>2
  <2>2. t = [s EXCEPT !.chunk = chunk1, !.unread = unread1] BY <1>s
  <2> HIDE DEF chunk1, unread1
  <2>3. t \in TunnelType BY <2>2, <2>1, <1>b, ZenonT(60) DEF TunnelType
  <2>4. /\ t.up = s.up /\ t.down = s.down /\ t.ready = s.ready /\ t.over = s.over /\ t.aborted = s.aborted
        /\ t.late = s.late /\ t.opener = s.opener /\ t.waiters = s.waiters /\ t.slots = s.slots
        /\ t.sockets = s.sockets /\ t.destroyed = s.destroyed /\ t.remoteClosed = s.remoteClosed
        /\ t.acking = s.acking /\ t.ended = s.ended /\ t.remoteEnded = s.remoteEnded
        /\ t.backpressured = s.backpressured /\ t.sendCredit = s.sendCredit /\ t.recvCredit = s.recvCredit
        /\ t.withheld = s.withheld /\ t.pending = s.pending /\ t.buffer = s.buffer /\ t.writing = s.writing
        /\ t.unwritten = s.unwritten /\ t.unread = unread1 /\ t.conns = s.conns
        /\ t.connected = s.connected /\ t.nodeDestroyed = s.nodeDestroyed /\ t.outCredit = s.outCredit
        /\ t.inCredit = s.inCredit /\ t.input = s.input /\ t.chunk = chunk1 /\ t.accused = s.accused
        /\ t.refused = s.refused
    BY <2>2, <1>b DEF TunnelType
  <2>5. chunk1[d] = s.unread[d] /\ \A c \in TunnelConn : c # d => chunk1[c] = s.chunk[c]
    BY <1>b DEF chunk1, TunnelType
  <2>6. unread1[d] = 0 /\ \A c \in TunnelConn : c # d => unread1[c] = s.unread[c]
    BY <1>b DEF unread1, TunnelType
  <2>7. ASSUME NEW c \in TunnelConn, c # d PROVE Same(s, t, c)
    <3>1. SameWire(s.up, t.up, c) /\ SameWire(s.down, t.down, c)
      BY <2>7, <2>4, <2>5, <2>6 DEF SameWire
    <3> QED BY <2>7, <3>1, <2>4, <2>5, <2>6 DEF Same
  <2>8. Fresh(t, d) BY <1>c, <1>d, <2>4, <2>5, <2>6 DEF Known, Fresh, Still, Heard, Agree
  <2>9. Heard(t, d) BY <1>c, <1>d, <2>4, <2>5, <2>6 DEF Known, Heard, Fresh, Still, Agree
  <2>10. Credit(t, d)
    <3>1. fromNode(t, d) = fromNode(s, d) /\ fromNode(s, d) \in Nat
      BY <1>d, <2>4, <2>5, <2>6 DEF Known, fromNode
    <3>2. fromClient(t, d) = fromClient(s, d) /\ fromClient(s, d) \in Nat
      BY <1>d, <2>4, <2>5, <2>6 DEF Known, fromClient
    <3>3. Live(t, d) => Live(s, d) /\ (t.opener[d] = "done" => s.opener[d] = "done")
      BY <1>c, <1>d, <2>4, <2>5, <2>6 DEF Live, Known, Fresh, Still, Heard, Agree
    <3> QED BY <1>c, <1>d, <2>4, <2>5, <2>6, <3>1, <3>2, <3>3 DEF Known, Credit
  <2>11. Agree(t, d) BY <1>c, <1>d, <2>4, <2>5, <2>6 DEF Known, Agree, Fresh, Still, Heard
  <2>12. Owed(t, d, 0) BY <1>c, <1>d, <2>4, <2>5, <2>6 DEF Known, Owed
  <2>13. TunnelSlotInv(t) BY <1>b, <2>4 DEF TunnelSlotInv, grantedOf
  <2>14. RoomInv(t) BY <1>b, <2>4 DEF RoomInv, roomFor
  <2> QED BY <1>b, <2>3, <2>4, <2>7, <2>8, <2>9, <2>10, <2>11, <2>12, <2>13, <2>14, TunnelKept
<1> QED BY <1>s

LEMMA NodeSendsHolds ==
    ASSUME NEW s, NEW d \in TunnelConn, TunnelOK(s, d, 0),
           s.aborted = FALSE, NEW n \in 1..FrameLimit, n <= s.chunk[d], n <= s.outCredit[d]
    PROVE  \A t : t = [s EXCEPT !.down = Append(s.down, frame("data", d, n)),
                           !.chunk = [s.chunk EXCEPT ![d] = s.chunk[d] - n],
                           !.outCredit = [s.outCredit EXCEPT ![d] = s.outCredit[d] - n]] => TunnelOK(t, d, 0)
<1>b. s \in TunnelType /\ s.accused = {} /\ TunnelSlotInv(s) /\ RoomInv(s) /\ \A c \in TunnelConn : ConnInv(s, c) /\ Owed(s, c, IF c = d THEN 0 ELSE 0)
  BY DEF TunnelOK
<1>c. Fresh(s, d) /\ Heard(s, d) /\ Credit(s, d) /\ Agree(s, d) /\ Owed(s, d, 0) BY <1>b DEF ConnInv
<1>d. Known(s, d) BY <1>b, WhatIsKnown
<1>w. s.up \in Seq(UpFrame) /\ s.down \in Seq(DownFrame) BY <1>b DEF TunnelType
<1>e. s.over \in BOOLEAN /\ s.late \in BOOLEAN BY <1>b DEF TunnelType
<1>1. n \in Nat /\ n <= TunnelWindow /\ n > 0 BY <1>c, <1>d DEF Known
<1>s. ASSUME NEW t, t = [s EXCEPT !.down = Append(s.down, frame("data", d, n)),
                             !.chunk = [s.chunk EXCEPT ![d] = s.chunk[d] - n],
                             !.outCredit = [s.outCredit EXCEPT ![d] = s.outCredit[d] - n]]
      PROVE  TunnelOK(t, d, 0)
  <2> DEFINE down1 == Append(s.down, frame("data", d, n))
             chunk1 == [s.chunk EXCEPT ![d] = s.chunk[d] - n]
             outCredit1 == [s.outCredit EXCEPT ![d] = s.outCredit[d] - n]
  <2>1. /\ down1 \in Seq(DownFrame) /\ chunk1 \in [TunnelConn -> 0..MaxTunnelBytes]
        /\ outCredit1 \in [TunnelConn -> 0..TunnelWindow]
    <3>1. down1 \in Seq(DownFrame)
      <4>1. frame("data", d, n) \in DownFrame BY <1>d, <1>1, Frames DEF Known
      <4> QED BY <1>w, <4>1
    <3>2. chunk1 \in [TunnelConn -> 0..MaxTunnelBytes]
      <4>1. s.chunk \in [TunnelConn -> 0..MaxTunnelBytes] /\ s.chunk[d] \in 0..MaxTunnelBytes
        BY <1>b DEF TunnelType
      <4>2. s.chunk[d] - n \in 0..MaxTunnelBytes BY <1>d, <1>1 DEF Known
      <4> QED BY <4>1, <4>2
    <3>3. outCredit1 \in [TunnelConn -> 0..TunnelWindow]
      <4>1. s.outCredit \in [TunnelConn -> 0..TunnelWindow] /\ s.outCredit[d] \in 0..TunnelWindow
        BY <1>b DEF TunnelType
      <4>2. s.outCredit[d] - n \in 0..TunnelWindow BY <1>d, <1>1 DEF Known
      <4> QED BY <4>1, <4>2
    <3> QED BY <3>1, <3>2, <3>3
  <2>2. t = [s EXCEPT !.down = down1, !.chunk = chunk1, !.outCredit = outCredit1] BY <1>s
  <2> HIDE DEF down1, chunk1, outCredit1
  <2>3. t \in TunnelType BY <2>2, <2>1, <1>b, ZenonT(60) DEF TunnelType
  <2>4. /\ t.up = s.up /\ t.down = down1 /\ t.ready = s.ready /\ t.over = s.over /\ t.aborted = s.aborted
        /\ t.late = s.late /\ t.opener = s.opener /\ t.waiters = s.waiters /\ t.slots = s.slots
        /\ t.sockets = s.sockets /\ t.destroyed = s.destroyed /\ t.remoteClosed = s.remoteClosed
        /\ t.acking = s.acking /\ t.ended = s.ended /\ t.remoteEnded = s.remoteEnded
        /\ t.backpressured = s.backpressured /\ t.sendCredit = s.sendCredit /\ t.recvCredit = s.recvCredit
        /\ t.withheld = s.withheld /\ t.pending = s.pending /\ t.buffer = s.buffer /\ t.writing = s.writing
        /\ t.unwritten = s.unwritten /\ t.unread = s.unread /\ t.conns = s.conns
        /\ t.connected = s.connected /\ t.nodeDestroyed = s.nodeDestroyed /\ t.outCredit = outCredit1
        /\ t.inCredit = s.inCredit /\ t.input = s.input /\ t.chunk = chunk1 /\ t.accused = s.accused
        /\ t.refused = s.refused
    BY <2>2, <1>b DEF TunnelType
  <2>5. chunk1[d] = s.chunk[d] - n /\ \A c \in TunnelConn : c # d => chunk1[c] = s.chunk[c]
    BY <1>b DEF chunk1, TunnelType
  <2>6. outCredit1[d] = s.outCredit[d] - n /\ \A c \in TunnelConn : c # d => outCredit1[c] = s.outCredit[c]
    BY <1>b DEF outCredit1, TunnelType
  <2>7. SentDown(s.down, down1, "data", d, n)
    <3>1. frame("data", d, n) \in DownFrame BY <1>d, <1>1, Frames DEF Known
    <3> QED BY <1>w, <3>1, DownSent DEF down1
  <2>8. ASSUME NEW c \in TunnelConn, c # d PROVE Same(s, t, c)
    <3>1. SameWire(s.up, t.up, c) /\ SameWire(s.down, t.down, c)
      BY <2>8, <2>4, <2>5, <2>6, <2>7 DEF SameWire, SentDown
    <3> QED BY <2>8, <3>1, <2>4, <2>5, <2>6, <2>7 DEF Same
  <2>9. Fresh(t, d)
    BY <1>c, <1>d, <1>1, <2>4, <2>5, <2>6, <2>7 DEF Known, SentDown, Fresh, Still, Heard, Agree
  <2>10. Heard(t, d)
    BY <1>c, <1>d, <1>1, <2>4, <2>5, <2>6, <2>7 DEF Known, SentDown, Heard, Fresh, Still, Agree
  <2>11. Credit(t, d)
    <3>1. fromNode(t, d) = fromNode(s, d) /\ fromNode(s, d) \in Nat
      BY <1>d, <1>1, <2>4, <2>5, <2>6, <2>7 DEF Known, SentDown, fromNode
    <3>2. fromClient(t, d) = fromClient(s, d) /\ fromClient(s, d) \in Nat
      BY <1>d, <1>1, <2>4, <2>5, <2>6, <2>7 DEF Known, SentDown, fromClient
    <3>3. Live(t, d) => Live(s, d) /\ (t.opener[d] = "done" => s.opener[d] = "done")
      BY <1>c, <1>d, <1>1, <2>4, <2>5, <2>6, <2>7 DEF Live, Known, SentDown, Fresh, Still, Heard, Agree
    <3> QED BY <1>c, <1>d, <1>1, <2>4, <2>5, <2>6, <2>7, <3>1, <3>2, <3>3 DEF Known, Credit
  <2>12. Agree(t, d)
    BY <1>c, <1>d, <1>1, <2>4, <2>5, <2>6, <2>7 DEF Known, SentDown, Agree, Fresh, Still, Heard
  <2>13. Owed(t, d, 0) BY <1>c, <1>d, <1>1, <2>4, <2>5, <2>6, <2>7 DEF Known, SentDown, Owed
  <2>14. TunnelSlotInv(t) BY <1>b, <2>4 DEF TunnelSlotInv, grantedOf
  <2>15. RoomInv(t) BY <1>b, <2>4 DEF RoomInv, roomFor
  <2> QED BY <1>b, <2>3, <2>4, <2>8, <2>9, <2>10, <2>11, <2>12, <2>13, <2>14, <2>15, TunnelKept
<1> QED BY <1>s

LEMMA NodeReadsEndHolds ==
    ASSUME NEW s, NEW d \in TunnelConn, TunnelOK(s, d, 0),
           s.aborted = FALSE, d \in s.conns
    PROVE  \A t : t = [s EXCEPT !.down = Append(s.down, frame("end", d, 0)), !.nodeDestroyed = s.nodeDestroyed \cup {d}] => TunnelOK(t, d, 0)
<1>b. s \in TunnelType /\ s.accused = {} /\ TunnelSlotInv(s) /\ RoomInv(s) /\ \A c \in TunnelConn : ConnInv(s, c) /\ Owed(s, c, IF c = d THEN 0 ELSE 0)
  BY DEF TunnelOK
<1>c. Fresh(s, d) /\ Heard(s, d) /\ Credit(s, d) /\ Agree(s, d) /\ Owed(s, d, 0) BY <1>b DEF ConnInv
<1>d. Known(s, d) BY <1>b, WhatIsKnown
<1>w. s.up \in Seq(UpFrame) /\ s.down \in Seq(DownFrame) BY <1>b DEF TunnelType
<1>e. s.over \in BOOLEAN /\ s.late \in BOOLEAN BY <1>b DEF TunnelType
<1>s. ASSUME NEW t, t = [s EXCEPT !.down = Append(s.down, frame("end", d, 0)), !.nodeDestroyed = s.nodeDestroyed \cup {d}]
      PROVE  TunnelOK(t, d, 0)
  <2> DEFINE down1 == Append(s.down, frame("end", d, 0))
             nodeDestroyed1 == s.nodeDestroyed \cup {d}
  <2>1. /\ down1 \in Seq(DownFrame) /\ nodeDestroyed1 \in SUBSET TunnelConn
    <3>1. down1 \in Seq(DownFrame)
      <4>1. frame("end", d, 0) \in DownFrame BY <1>d, Frames DEF Known
      <4> QED BY <1>w, <4>1
    <3>2. nodeDestroyed1 \in SUBSET TunnelConn BY <1>b, <1>d DEF TunnelType, Known
    <3> QED BY <3>1, <3>2
  <2>2. t = [s EXCEPT !.down = down1, !.nodeDestroyed = nodeDestroyed1] BY <1>s
  <2> HIDE DEF down1, nodeDestroyed1
  <2>3. t \in TunnelType BY <2>2, <2>1, <1>b, ZenonT(60) DEF TunnelType
  <2>4. /\ t.up = s.up /\ t.down = down1 /\ t.ready = s.ready /\ t.over = s.over /\ t.aborted = s.aborted
        /\ t.late = s.late /\ t.opener = s.opener /\ t.waiters = s.waiters /\ t.slots = s.slots
        /\ t.sockets = s.sockets /\ t.destroyed = s.destroyed /\ t.remoteClosed = s.remoteClosed
        /\ t.acking = s.acking /\ t.ended = s.ended /\ t.remoteEnded = s.remoteEnded
        /\ t.backpressured = s.backpressured /\ t.sendCredit = s.sendCredit /\ t.recvCredit = s.recvCredit
        /\ t.withheld = s.withheld /\ t.pending = s.pending /\ t.buffer = s.buffer /\ t.writing = s.writing
        /\ t.unwritten = s.unwritten /\ t.unread = s.unread /\ t.conns = s.conns
        /\ t.connected = s.connected /\ t.nodeDestroyed = nodeDestroyed1 /\ t.outCredit = s.outCredit
        /\ t.inCredit = s.inCredit /\ t.input = s.input /\ t.chunk = s.chunk /\ t.accused = s.accused
        /\ t.refused = s.refused
    BY <2>2, <1>b DEF TunnelType
  <2>5. d \in nodeDestroyed1 /\ \A c : c # d => (c \in nodeDestroyed1 <=> c \in s.nodeDestroyed)
    BY DEF nodeDestroyed1
  <2>6. SentDown(s.down, down1, "end", d, 0)
    <3>1. frame("end", d, 0) \in DownFrame BY <1>d, Frames DEF Known
    <3> QED BY <1>w, <3>1, DownSent DEF down1
  <2>7. ASSUME NEW c \in TunnelConn, c # d PROVE Same(s, t, c)
    <3>1. SameWire(s.up, t.up, c) /\ SameWire(s.down, t.down, c)
      BY <2>7, <2>4, <2>5, <2>6 DEF SameWire, SentDown
    <3> QED BY <2>7, <3>1, <2>4, <2>5, <2>6 DEF Same
  <2>8. Fresh(t, d) BY <1>c, <1>d, <2>4, <2>5, <2>6 DEF Known, SentDown, Fresh, Still, Heard, Agree
  <2>9. Heard(t, d) BY <1>c, <1>d, <2>4, <2>5, <2>6 DEF Known, SentDown, Heard, Fresh, Still, Agree
  <2>10. Credit(t, d)
    <3>1. fromNode(t, d) = fromNode(s, d) /\ fromNode(s, d) \in Nat
      BY <1>d, <2>4, <2>5, <2>6 DEF Known, SentDown, fromNode
    <3>2. fromClient(t, d) = fromClient(s, d) /\ fromClient(s, d) \in Nat
      BY <1>d, <2>4, <2>5, <2>6 DEF Known, SentDown, fromClient
    <3>3. Live(t, d) => Live(s, d) /\ (t.opener[d] = "done" => s.opener[d] = "done")
      BY <1>c, <1>d, <2>4, <2>5, <2>6 DEF Live, Known, SentDown, Fresh, Still, Heard, Agree
    <3> QED BY <1>c, <1>d, <2>4, <2>5, <2>6, <3>1, <3>2, <3>3 DEF Known, Credit
  <2>11. Agree(t, d) BY <1>c, <1>d, <2>4, <2>5, <2>6 DEF Known, SentDown, Agree, Fresh, Still, Heard
  <2>12. Owed(t, d, 0) BY <1>c, <1>d, <2>4, <2>5, <2>6 DEF Known, SentDown, Owed
  <2>13. TunnelSlotInv(t) BY <1>b, <2>4 DEF TunnelSlotInv, grantedOf
  <2>14. RoomInv(t) BY <1>b, <2>4 DEF RoomInv, roomFor
  <2> QED BY <1>b, <2>3, <2>4, <2>7, <2>8, <2>9, <2>10, <2>11, <2>12, <2>13, <2>14, TunnelKept
<1> QED BY <1>s

\* The connection to the target fails, and is closed.
LEMMA NodeFailsHolds ==
    ASSUME NEW s, NEW d \in TunnelConn, TunnelOK(s, d, 0),
           d \in s.conns
    PROVE  \A t : t = [s EXCEPT !.nodeDestroyed = s.nodeDestroyed \cup {d}] => TunnelOK(t, d, 0)
<1>b. s \in TunnelType /\ s.accused = {} /\ TunnelSlotInv(s) /\ RoomInv(s) /\ \A c \in TunnelConn : ConnInv(s, c) /\ Owed(s, c, IF c = d THEN 0 ELSE 0)
  BY DEF TunnelOK
<1>c. Fresh(s, d) /\ Heard(s, d) /\ Credit(s, d) /\ Agree(s, d) /\ Owed(s, d, 0) BY <1>b DEF ConnInv
<1>d. Known(s, d) BY <1>b, WhatIsKnown
<1>w. s.up \in Seq(UpFrame) /\ s.down \in Seq(DownFrame) BY <1>b DEF TunnelType
<1>e. s.over \in BOOLEAN /\ s.late \in BOOLEAN BY <1>b DEF TunnelType
<1>s. ASSUME NEW t, t = [s EXCEPT !.nodeDestroyed = s.nodeDestroyed \cup {d}]
      PROVE  TunnelOK(t, d, 0)
  <2> DEFINE nodeDestroyed1 == s.nodeDestroyed \cup {d}
  <2>1. nodeDestroyed1 \in SUBSET TunnelConn BY <1>b, <1>d DEF TunnelType, Known
  <2>2. t = [s EXCEPT !.nodeDestroyed = nodeDestroyed1] BY <1>s
  <2> HIDE DEF nodeDestroyed1
  <2>3. t \in TunnelType BY <2>2, <2>1, <1>b, ZenonT(60) DEF TunnelType
  <2>4. /\ t.up = s.up /\ t.down = s.down /\ t.ready = s.ready /\ t.over = s.over /\ t.aborted = s.aborted
        /\ t.late = s.late /\ t.opener = s.opener /\ t.waiters = s.waiters /\ t.slots = s.slots
        /\ t.sockets = s.sockets /\ t.destroyed = s.destroyed /\ t.remoteClosed = s.remoteClosed
        /\ t.acking = s.acking /\ t.ended = s.ended /\ t.remoteEnded = s.remoteEnded
        /\ t.backpressured = s.backpressured /\ t.sendCredit = s.sendCredit /\ t.recvCredit = s.recvCredit
        /\ t.withheld = s.withheld /\ t.pending = s.pending /\ t.buffer = s.buffer /\ t.writing = s.writing
        /\ t.unwritten = s.unwritten /\ t.unread = s.unread /\ t.conns = s.conns
        /\ t.connected = s.connected /\ t.nodeDestroyed = nodeDestroyed1 /\ t.outCredit = s.outCredit
        /\ t.inCredit = s.inCredit /\ t.input = s.input /\ t.chunk = s.chunk /\ t.accused = s.accused
        /\ t.refused = s.refused
    BY <2>2, <1>b DEF TunnelType
  <2>5. d \in nodeDestroyed1 /\ \A c : c # d => (c \in nodeDestroyed1 <=> c \in s.nodeDestroyed)
    BY DEF nodeDestroyed1
  <2>6. ASSUME NEW c \in TunnelConn, c # d PROVE Same(s, t, c)
    <3>1. SameWire(s.up, t.up, c) /\ SameWire(s.down, t.down, c) BY <2>6, <2>4, <2>5 DEF SameWire
    <3> QED BY <2>6, <3>1, <2>4, <2>5 DEF Same
  <2>7. Fresh(t, d) BY <1>c, <1>d, <2>4, <2>5 DEF Known, Fresh, Still, Heard, Agree
  <2>8. Heard(t, d) BY <1>c, <1>d, <2>4, <2>5 DEF Known, Heard, Fresh, Still, Agree
  <2>9. Credit(t, d)
    <3>1. fromNode(t, d) = fromNode(s, d) /\ fromNode(s, d) \in Nat
      BY <1>d, <2>4, <2>5 DEF Known, fromNode
    <3>2. fromClient(t, d) = fromClient(s, d) /\ fromClient(s, d) \in Nat
      BY <1>d, <2>4, <2>5 DEF Known, fromClient
    <3>3. Live(t, d) => Live(s, d) /\ (t.opener[d] = "done" => s.opener[d] = "done")
      BY <1>c, <1>d, <2>4, <2>5 DEF Live, Known, Fresh, Still, Heard, Agree
    <3> QED BY <1>c, <1>d, <2>4, <2>5, <3>1, <3>2, <3>3 DEF Known, Credit
  <2>10. Agree(t, d) BY <1>c, <1>d, <2>4, <2>5 DEF Known, Agree, Fresh, Still, Heard
  <2>11. Owed(t, d, 0) BY <1>c, <1>d, <2>4, <2>5 DEF Known, Owed
  <2>12. TunnelSlotInv(t) BY <1>b, <2>4 DEF TunnelSlotInv, grantedOf
  <2>13. RoomInv(t) BY <1>b, <2>4 DEF RoomInv, roomFor
  <2> QED BY <1>b, <2>3, <2>4, <2>6, <2>7, <2>8, <2>9, <2>10, <2>11, <2>12, <2>13, TunnelKept
<1> QED BY <1>s

LEMMA NodeClosedHolds ==
    ASSUME NEW s, NEW d \in TunnelConn, TunnelOK(s, d, 0),
           d \in s.conns, d \in s.nodeDestroyed
    PROVE  \A t : t = [s EXCEPT !.down = Append(s.down, frame("closed", d, 0)), !.conns = s.conns \ {d}] => TunnelOK(t, d, 0)
<1>b. s \in TunnelType /\ s.accused = {} /\ TunnelSlotInv(s) /\ RoomInv(s) /\ \A c \in TunnelConn : ConnInv(s, c) /\ Owed(s, c, IF c = d THEN 0 ELSE 0)
  BY DEF TunnelOK
<1>c. Fresh(s, d) /\ Heard(s, d) /\ Credit(s, d) /\ Agree(s, d) /\ Owed(s, d, 0) BY <1>b DEF ConnInv
<1>d. Known(s, d) BY <1>b, WhatIsKnown
<1>w. s.up \in Seq(UpFrame) /\ s.down \in Seq(DownFrame) BY <1>b DEF TunnelType
<1>e. s.over \in BOOLEAN /\ s.late \in BOOLEAN BY <1>b DEF TunnelType
<1>s. ASSUME NEW t, t = [s EXCEPT !.down = Append(s.down, frame("closed", d, 0)), !.conns = s.conns \ {d}]
      PROVE  TunnelOK(t, d, 0)
  <2> DEFINE down1 == Append(s.down, frame("closed", d, 0))
             conns1 == s.conns \ {d}
  <2>1. /\ down1 \in Seq(DownFrame) /\ conns1 \in SUBSET TunnelConn
    <3>1. down1 \in Seq(DownFrame)
      <4>1. frame("closed", d, 0) \in DownFrame BY <1>d, Frames DEF Known
      <4> QED BY <1>w, <4>1
    <3>2. conns1 \in SUBSET TunnelConn BY <1>b, <1>d DEF TunnelType, Known
    <3> QED BY <3>1, <3>2
  <2>2. t = [s EXCEPT !.down = down1, !.conns = conns1] BY <1>s
  <2> HIDE DEF down1, conns1
  <2>3. t \in TunnelType BY <2>2, <2>1, <1>b, ZenonT(60) DEF TunnelType
  <2>4. /\ t.up = s.up /\ t.down = down1 /\ t.ready = s.ready /\ t.over = s.over /\ t.aborted = s.aborted
        /\ t.late = s.late /\ t.opener = s.opener /\ t.waiters = s.waiters /\ t.slots = s.slots
        /\ t.sockets = s.sockets /\ t.destroyed = s.destroyed /\ t.remoteClosed = s.remoteClosed
        /\ t.acking = s.acking /\ t.ended = s.ended /\ t.remoteEnded = s.remoteEnded
        /\ t.backpressured = s.backpressured /\ t.sendCredit = s.sendCredit /\ t.recvCredit = s.recvCredit
        /\ t.withheld = s.withheld /\ t.pending = s.pending /\ t.buffer = s.buffer /\ t.writing = s.writing
        /\ t.unwritten = s.unwritten /\ t.unread = s.unread /\ t.conns = conns1
        /\ t.connected = s.connected /\ t.nodeDestroyed = s.nodeDestroyed /\ t.outCredit = s.outCredit
        /\ t.inCredit = s.inCredit /\ t.input = s.input /\ t.chunk = s.chunk /\ t.accused = s.accused
        /\ t.refused = s.refused
    BY <2>2, <1>b DEF TunnelType
  <2>5. d \notin conns1 /\ \A c : c # d => (c \in conns1 <=> c \in s.conns) BY DEF conns1
  <2>6. SentDown(s.down, down1, "closed", d, 0)
    <3>1. frame("closed", d, 0) \in DownFrame BY <1>d, Frames DEF Known
    <3> QED BY <1>w, <3>1, DownSent DEF down1
  <2>7. ASSUME NEW c \in TunnelConn, c # d PROVE Same(s, t, c)
    <3>1. SameWire(s.up, t.up, c) /\ SameWire(s.down, t.down, c)
      BY <2>7, <2>4, <2>5, <2>6 DEF SameWire, SentDown
    <3> QED BY <2>7, <3>1, <2>4, <2>5, <2>6 DEF Same
  <2>8. Fresh(t, d) BY <1>c, <1>d, <2>4, <2>5, <2>6 DEF Known, SentDown, Fresh, Still, Heard, Agree
  <2>9. Heard(t, d) BY <1>c, <1>d, <2>4, <2>5, <2>6 DEF Known, SentDown, Heard, Fresh, Still, Agree
  <2>10. Credit(t, d)
    <3>1. fromNode(t, d) = fromNode(s, d) /\ fromNode(s, d) \in Nat
      BY <1>d, <2>4, <2>5, <2>6 DEF Known, SentDown, fromNode
    <3>2. fromClient(t, d) = fromClient(s, d) /\ fromClient(s, d) \in Nat
      BY <1>d, <2>4, <2>5, <2>6 DEF Known, SentDown, fromClient
    <3>3. Live(t, d) => Live(s, d) /\ (t.opener[d] = "done" => s.opener[d] = "done")
      BY <1>c, <1>d, <2>4, <2>5, <2>6 DEF Live, Known, SentDown, Fresh, Still, Heard, Agree
    <3> QED BY <1>c, <1>d, <2>4, <2>5, <2>6, <3>1, <3>2, <3>3 DEF Known, Credit
  <2>11. Agree(t, d) BY <1>c, <1>d, <2>4, <2>5, <2>6 DEF Known, SentDown, Agree, Fresh, Still, Heard
  <2>12. Owed(t, d, 0) BY <1>c, <1>d, <2>4, <2>5, <2>6 DEF Known, SentDown, Owed
  <2>13. TunnelSlotInv(t) BY <1>b, <2>4 DEF TunnelSlotInv, grantedOf
  <2>14. RoomInv(t)
    <3>1. \A c \in TunnelConn : (onWire(t.up, "open", c) => onWire(s.up, "open", c)) /\ (c \in t.conns => c \in s.conns)
      BY <1>c, <1>d, <2>4, <2>5, <2>6 DEF SameWire, Fresh, Still, Heard, Known, SentDown
    <3>2. s.conns \subseteq TunnelConn /\ t.conns \subseteq TunnelConn BY <1>b, <2>3 DEF TunnelType
    <3>3. roomFor(t) \subseteq roomFor(s) BY <3>1, <3>2 DEF roomFor
    <3> QED BY <1>b, <1>e, <3>3, <2>4, RoomFewer
  <2> QED BY <1>b, <2>3, <2>4, <2>7, <2>8, <2>9, <2>10, <2>11, <2>12, <2>13, <2>14, TunnelKept
<1> QED BY <1>s

LEMMA ReadyHolds ==
    ASSUME NEW s, NEW d \in TunnelConn, TunnelOK(s, d, 0),
           s.ready = FALSE
    PROVE  \A t : t = [s EXCEPT !.ready = TRUE] => TunnelOK(t, d, 0)
<1>b. s \in TunnelType /\ s.accused = {} /\ TunnelSlotInv(s) /\ RoomInv(s) /\ \A c \in TunnelConn : ConnInv(s, c) /\ Owed(s, c, IF c = d THEN 0 ELSE 0)
  BY DEF TunnelOK
<1>c. Fresh(s, d) /\ Heard(s, d) /\ Credit(s, d) /\ Agree(s, d) /\ Owed(s, d, 0) BY <1>b DEF ConnInv
<1>d. Known(s, d) BY <1>b, WhatIsKnown
<1>w. s.up \in Seq(UpFrame) /\ s.down \in Seq(DownFrame) BY <1>b DEF TunnelType
<1>e. s.over \in BOOLEAN /\ s.late \in BOOLEAN BY <1>b DEF TunnelType
<1>s. ASSUME NEW t, t = [s EXCEPT !.ready = TRUE]
      PROVE  TunnelOK(t, d, 0)
  <2>1. t = [s EXCEPT !.ready = TRUE] BY <1>s
  <2>2. t \in TunnelType BY <2>1, <1>b, ZenonT(60) DEF TunnelType
  <2>3. /\ t.up = s.up /\ t.down = s.down /\ t.ready = TRUE /\ t.over = s.over /\ t.aborted = s.aborted
        /\ t.late = s.late /\ t.opener = s.opener /\ t.waiters = s.waiters /\ t.slots = s.slots
        /\ t.sockets = s.sockets /\ t.destroyed = s.destroyed /\ t.remoteClosed = s.remoteClosed
        /\ t.acking = s.acking /\ t.ended = s.ended /\ t.remoteEnded = s.remoteEnded
        /\ t.backpressured = s.backpressured /\ t.sendCredit = s.sendCredit /\ t.recvCredit = s.recvCredit
        /\ t.withheld = s.withheld /\ t.pending = s.pending /\ t.buffer = s.buffer /\ t.writing = s.writing
        /\ t.unwritten = s.unwritten /\ t.unread = s.unread /\ t.conns = s.conns
        /\ t.connected = s.connected /\ t.nodeDestroyed = s.nodeDestroyed /\ t.outCredit = s.outCredit
        /\ t.inCredit = s.inCredit /\ t.input = s.input /\ t.chunk = s.chunk /\ t.accused = s.accused
        /\ t.refused = s.refused
    BY <2>1, <1>b DEF TunnelType
  <2>4. ASSUME NEW c \in TunnelConn, c # d PROVE Same(s, t, c)
    <3>1. SameWire(s.up, t.up, c) /\ SameWire(s.down, t.down, c) BY <2>4, <2>3 DEF SameWire
    <3> QED BY <2>4, <3>1, <2>3 DEF Same
  <2>5. Fresh(t, d) BY <1>c, <1>d, <2>3 DEF Known, Fresh, Still, Heard, Agree
  <2>6. Heard(t, d) BY <1>c, <1>d, <2>3 DEF Known, Heard, Fresh, Still, Agree
  <2>7. Credit(t, d)
    <3>1. fromNode(t, d) = fromNode(s, d) /\ fromNode(s, d) \in Nat
      BY <1>d, <2>3 DEF Known, fromNode
    <3>2. fromClient(t, d) = fromClient(s, d) /\ fromClient(s, d) \in Nat
      BY <1>d, <2>3 DEF Known, fromClient
    <3>3. Live(t, d) => Live(s, d) /\ (t.opener[d] = "done" => s.opener[d] = "done")
      BY <1>c, <1>d, <2>3 DEF Live, Known, Fresh, Still, Heard, Agree
    <3> QED BY <1>c, <1>d, <2>3, <3>1, <3>2, <3>3 DEF Known, Credit
  <2>8. Agree(t, d) BY <1>c, <1>d, <2>3 DEF Known, Agree, Fresh, Still, Heard
  <2>9. Owed(t, d, 0) BY <1>c, <1>d, <2>3 DEF Known, Owed
  <2>10. TunnelSlotInv(t) BY <1>b, <2>3 DEF TunnelSlotInv, grantedOf
  <2>11. RoomInv(t) BY <1>b, <2>3 DEF RoomInv, roomFor
  <2> QED BY <1>b, <2>2, <2>3, <2>4, <2>5, <2>6, <2>7, <2>8, <2>9, <2>10, <2>11, TunnelKept
<1> QED BY <1>s

\* A frame arrives at the node: after the call was cancelled, or for a connection it does not know.
LEMMA AbortedDrops ==
    ASSUME NEW s, NEW d \in TunnelConn, TunnelOK(s, d, 0),
           NEW f, NEW rest \in UpWires, TakenUp(s.up, rest, f, d), s.aborted = TRUE
    PROVE  \A t : t = [s EXCEPT !.up = rest] => TunnelOK(t, d, 0)
<1>b. s \in TunnelType /\ s.accused = {} /\ TunnelSlotInv(s) /\ RoomInv(s) /\ \A c \in TunnelConn : ConnInv(s, c) /\ Owed(s, c, IF c = d THEN 0 ELSE 0)
  BY DEF TunnelOK
<1>c. Fresh(s, d) /\ Heard(s, d) /\ Credit(s, d) /\ Agree(s, d) /\ Owed(s, d, 0) BY <1>b DEF ConnInv
<1>d. Known(s, d) BY <1>b, WhatIsKnown
<1>w. s.up \in Seq(UpFrame) /\ s.down \in Seq(DownFrame) BY <1>b DEF TunnelType
<1>e. s.over \in BOOLEAN /\ s.late \in BOOLEAN BY <1>b DEF TunnelType
<1>s. ASSUME NEW t, t = [s EXCEPT !.up = rest]
      PROVE  TunnelOK(t, d, 0)
  <2>1. rest \in Seq(UpFrame) BY DEF UpWires
  <2>2. t = [s EXCEPT !.up = rest] BY <1>s
  <2>3. t \in TunnelType BY <2>2, <2>1, <1>b DEF TunnelType
  <2>4. /\ t.up = rest /\ t.down = s.down /\ t.ready = s.ready /\ t.over = s.over /\ t.aborted = s.aborted
        /\ t.late = s.late /\ t.opener = s.opener /\ t.waiters = s.waiters /\ t.slots = s.slots
        /\ t.sockets = s.sockets /\ t.destroyed = s.destroyed /\ t.remoteClosed = s.remoteClosed
        /\ t.acking = s.acking /\ t.ended = s.ended /\ t.remoteEnded = s.remoteEnded
        /\ t.backpressured = s.backpressured /\ t.sendCredit = s.sendCredit /\ t.recvCredit = s.recvCredit
        /\ t.withheld = s.withheld /\ t.pending = s.pending /\ t.buffer = s.buffer /\ t.writing = s.writing
        /\ t.unwritten = s.unwritten /\ t.unread = s.unread /\ t.conns = s.conns
        /\ t.connected = s.connected /\ t.nodeDestroyed = s.nodeDestroyed /\ t.outCredit = s.outCredit
        /\ t.inCredit = s.inCredit /\ t.input = s.input /\ t.chunk = s.chunk /\ t.accused = s.accused
        /\ t.refused = s.refused
    BY <2>2, <1>b DEF TunnelType
  <2>5. ASSUME NEW c \in TunnelConn, c # d PROVE Same(s, t, c)
    <3>1. SameWire(s.up, t.up, c) /\ SameWire(s.down, t.down, c) BY <2>5, <2>4 DEF SameWire, TakenUp
    <3> QED BY <2>5, <3>1, <2>4 DEF Same
  <2>6. Fresh(t, d) BY <1>c, <1>d, <2>4 DEF Known, TakenUp, Fresh, Still, Heard, Agree
  <2>7. Heard(t, d) BY <1>c, <1>d, <2>4 DEF Known, TakenUp, Heard, Fresh, Still, Agree
  <2>8. Credit(t, d)
    <3>1. fromNode(t, d) = fromNode(s, d) - (IF f.type = "credit" THEN f.bytes ELSE 0) /\ fromNode(s, d) \in Nat
      BY <1>d, <2>4 DEF Known, TakenUp, fromNode
    <3>2. fromClient(t, d) = fromClient(s, d) - (IF f.type = "data" THEN f.bytes ELSE 0) /\ fromClient(s, d) \in Nat
      BY <1>d, <2>4 DEF Known, TakenUp, fromClient
    <3>3. ~Live(t, d) BY <1>c, <1>d, <2>4 DEF Live, Known, TakenUp, Fresh, Still, Heard, Agree
    <3> QED BY <1>c, <1>d, <2>4, <3>1, <3>2, <3>3 DEF Known, TakenUp, Credit
  <2>9. Agree(t, d) BY <1>c, <1>d, <2>4 DEF Known, TakenUp, Agree, Fresh, Still, Heard
  <2>10. Owed(t, d, 0) BY <1>c, <1>d, <2>4 DEF Known, TakenUp, Owed
  <2>11. TunnelSlotInv(t) BY <1>b, <2>4 DEF TunnelSlotInv, grantedOf
  <2>12. RoomInv(t)
    <3>1. \A c \in TunnelConn : (onWire(t.up, "open", c) => onWire(s.up, "open", c)) /\ (c \in t.conns => c \in s.conns)
      BY <1>c, <1>d, <2>4 DEF SameWire, Fresh, Still, Heard, Known, TakenUp
    <3>2. s.conns \subseteq TunnelConn /\ t.conns \subseteq TunnelConn BY <1>b, <2>3 DEF TunnelType
    <3>3. roomFor(t) \subseteq roomFor(s) BY <3>1, <3>2 DEF roomFor
    <3> QED BY <1>b, <1>e, <3>3, <2>4, RoomFewer
  <2> QED BY <1>b, <2>3, <2>4, <2>5, <2>6, <2>7, <2>8, <2>9, <2>10, <2>11, <2>12, TunnelKept
<1> QED BY <1>s

LEMMA CloseDropped ==
    ASSUME NEW s, NEW d \in TunnelConn, TunnelOK(s, d, 0),
           NEW f, NEW rest \in UpWires, TakenUp(s.up, rest, f, d), f.type = "close", d \notin s.conns
    PROVE  \A t : t = [s EXCEPT !.up = rest] => TunnelOK(t, d, 0)
<1>b. s \in TunnelType /\ s.accused = {} /\ TunnelSlotInv(s) /\ RoomInv(s) /\ \A c \in TunnelConn : ConnInv(s, c) /\ Owed(s, c, IF c = d THEN 0 ELSE 0)
  BY DEF TunnelOK
<1>c. Fresh(s, d) /\ Heard(s, d) /\ Credit(s, d) /\ Agree(s, d) /\ Owed(s, d, 0) BY <1>b DEF ConnInv
<1>d. Known(s, d) BY <1>b, WhatIsKnown
<1>w. s.up \in Seq(UpFrame) /\ s.down \in Seq(DownFrame) BY <1>b DEF TunnelType
<1>e. s.over \in BOOLEAN /\ s.late \in BOOLEAN BY <1>b DEF TunnelType
<1>s. ASSUME NEW t, t = [s EXCEPT !.up = rest]
      PROVE  TunnelOK(t, d, 0)
  <2>1. rest \in Seq(UpFrame) BY DEF UpWires
  <2>2. t = [s EXCEPT !.up = rest] BY <1>s
  <2>3. t \in TunnelType BY <2>2, <2>1, <1>b DEF TunnelType
  <2>4. /\ t.up = rest /\ t.down = s.down /\ t.ready = s.ready /\ t.over = s.over /\ t.aborted = s.aborted
        /\ t.late = s.late /\ t.opener = s.opener /\ t.waiters = s.waiters /\ t.slots = s.slots
        /\ t.sockets = s.sockets /\ t.destroyed = s.destroyed /\ t.remoteClosed = s.remoteClosed
        /\ t.acking = s.acking /\ t.ended = s.ended /\ t.remoteEnded = s.remoteEnded
        /\ t.backpressured = s.backpressured /\ t.sendCredit = s.sendCredit /\ t.recvCredit = s.recvCredit
        /\ t.withheld = s.withheld /\ t.pending = s.pending /\ t.buffer = s.buffer /\ t.writing = s.writing
        /\ t.unwritten = s.unwritten /\ t.unread = s.unread /\ t.conns = s.conns
        /\ t.connected = s.connected /\ t.nodeDestroyed = s.nodeDestroyed /\ t.outCredit = s.outCredit
        /\ t.inCredit = s.inCredit /\ t.input = s.input /\ t.chunk = s.chunk /\ t.accused = s.accused
        /\ t.refused = s.refused
    BY <2>2, <1>b DEF TunnelType
  <2>5. ASSUME NEW c \in TunnelConn, c # d PROVE Same(s, t, c)
    <3>1. SameWire(s.up, t.up, c) /\ SameWire(s.down, t.down, c) BY <2>5, <2>4 DEF SameWire, TakenUp
    <3> QED BY <2>5, <3>1, <2>4 DEF Same
  <2>6. Fresh(t, d) BY <1>c, <1>d, <2>4 DEF Known, TakenUp, Fresh, Still, Heard, Agree
  <2>7. Heard(t, d) BY <1>c, <1>d, <2>4 DEF Known, TakenUp, Heard, Fresh, Still, Agree
  <2>8. Credit(t, d)
    <3>1. fromNode(t, d) = fromNode(s, d) /\ fromNode(s, d) \in Nat
      BY <1>d, <2>4 DEF Known, TakenUp, fromNode
    <3>2. fromClient(t, d) = fromClient(s, d) /\ fromClient(s, d) \in Nat
      BY <1>d, <2>4 DEF Known, TakenUp, fromClient
    <3>3. Live(t, d) => Live(s, d) /\ (t.opener[d] = "done" => s.opener[d] = "done")
      BY <1>c, <1>d, <2>4 DEF Live, Known, TakenUp, Fresh, Still, Heard, Agree
    <3> QED BY <1>c, <1>d, <2>4, <3>1, <3>2, <3>3 DEF Known, TakenUp, Credit
  <2>9. Agree(t, d) BY <1>c, <1>d, <2>4 DEF Known, TakenUp, Agree, Fresh, Still, Heard
  <2>10. Owed(t, d, 0) BY <1>c, <1>d, <2>4 DEF Known, TakenUp, Owed
  <2>11. TunnelSlotInv(t) BY <1>b, <2>4 DEF TunnelSlotInv, grantedOf
  <2>12. RoomInv(t)
    <3>1. \A c \in TunnelConn : (onWire(t.up, "open", c) => onWire(s.up, "open", c)) /\ (c \in t.conns => c \in s.conns)
      BY <1>c, <1>d, <2>4 DEF SameWire, Fresh, Still, Heard, Known, TakenUp
    <3>2. s.conns \subseteq TunnelConn /\ t.conns \subseteq TunnelConn BY <1>b, <2>3 DEF TunnelType
    <3>3. roomFor(t) \subseteq roomFor(s) BY <3>1, <3>2 DEF roomFor
    <3> QED BY <1>b, <1>e, <3>3, <2>4, RoomFewer
  <2> QED BY <1>b, <2>3, <2>4, <2>5, <2>6, <2>7, <2>8, <2>9, <2>10, <2>11, <2>12, TunnelKept
<1> QED BY <1>s

LEMMA FrameAnswered ==
    ASSUME NEW s, NEW d \in TunnelConn, TunnelOK(s, d, 0),
           NEW f, NEW rest \in UpWires, TakenUp(s.up, rest, f, d), f.type \in {"data", "credit", "end"},
           d \notin s.conns, s.aborted = FALSE
    PROVE  \A t : t = [s EXCEPT !.up = rest, !.down = Append(s.down, frame("closed", d, 0))] => TunnelOK(t, d, 0)
<1>b. s \in TunnelType /\ s.accused = {} /\ TunnelSlotInv(s) /\ RoomInv(s) /\ \A c \in TunnelConn : ConnInv(s, c) /\ Owed(s, c, IF c = d THEN 0 ELSE 0)
  BY DEF TunnelOK
<1>c. Fresh(s, d) /\ Heard(s, d) /\ Credit(s, d) /\ Agree(s, d) /\ Owed(s, d, 0) BY <1>b DEF ConnInv
<1>d. Known(s, d) BY <1>b, WhatIsKnown
<1>w. s.up \in Seq(UpFrame) /\ s.down \in Seq(DownFrame) BY <1>b DEF TunnelType
<1>e. s.over \in BOOLEAN /\ s.late \in BOOLEAN BY <1>b DEF TunnelType
<1>s. ASSUME NEW t, t = [s EXCEPT !.up = rest, !.down = Append(s.down, frame("closed", d, 0))]
      PROVE  TunnelOK(t, d, 0)
  <2> DEFINE down1 == Append(s.down, frame("closed", d, 0))
  <2>1. /\ rest \in Seq(UpFrame) /\ down1 \in Seq(DownFrame)
    <3>1. rest \in Seq(UpFrame) BY DEF UpWires
    <3>2. down1 \in Seq(DownFrame)
      <4>1. frame("closed", d, 0) \in DownFrame BY <1>d, Frames DEF Known, TakenUp
      <4> QED BY <1>w, <4>1
    <3> QED BY <3>1, <3>2
  <2>2. t = [s EXCEPT !.up = rest, !.down = down1] BY <1>s
  <2> HIDE DEF down1
  <2>3. t \in TunnelType BY <2>2, <2>1, <1>b, ZenonT(60) DEF TunnelType
  <2>4. /\ t.up = rest /\ t.down = down1 /\ t.ready = s.ready /\ t.over = s.over /\ t.aborted = s.aborted
        /\ t.late = s.late /\ t.opener = s.opener /\ t.waiters = s.waiters /\ t.slots = s.slots
        /\ t.sockets = s.sockets /\ t.destroyed = s.destroyed /\ t.remoteClosed = s.remoteClosed
        /\ t.acking = s.acking /\ t.ended = s.ended /\ t.remoteEnded = s.remoteEnded
        /\ t.backpressured = s.backpressured /\ t.sendCredit = s.sendCredit /\ t.recvCredit = s.recvCredit
        /\ t.withheld = s.withheld /\ t.pending = s.pending /\ t.buffer = s.buffer /\ t.writing = s.writing
        /\ t.unwritten = s.unwritten /\ t.unread = s.unread /\ t.conns = s.conns
        /\ t.connected = s.connected /\ t.nodeDestroyed = s.nodeDestroyed /\ t.outCredit = s.outCredit
        /\ t.inCredit = s.inCredit /\ t.input = s.input /\ t.chunk = s.chunk /\ t.accused = s.accused
        /\ t.refused = s.refused
    BY <2>2, <1>b DEF TunnelType
  <2>5. SentDown(s.down, down1, "closed", d, 0)
    <3>1. frame("closed", d, 0) \in DownFrame BY <1>d, Frames DEF Known, TakenUp
    <3> QED BY <1>w, <3>1, DownSent DEF down1
  <2>6. ASSUME NEW c \in TunnelConn, c # d PROVE Same(s, t, c)
    <3>1. SameWire(s.up, t.up, c) /\ SameWire(s.down, t.down, c)
      BY <2>6, <2>4, <2>5 DEF SameWire, TakenUp, SentDown
    <3> QED BY <2>6, <3>1, <2>4, <2>5 DEF Same
  <2>7. Fresh(t, d)
    BY <1>c, <1>d, <2>4, <2>5 DEF Known, TakenUp, SentDown, Fresh, Still, Heard, Agree
  <2>8. Heard(t, d)
    BY <1>c, <1>d, <2>4, <2>5 DEF Known, TakenUp, SentDown, Heard, Fresh, Still, Agree
  <2>9. Credit(t, d)
    <3>1. fromNode(t, d) = fromNode(s, d) - (IF f.type = "credit" THEN f.bytes ELSE 0) /\ fromNode(s, d) \in Nat
      BY <1>d, <2>4, <2>5 DEF Known, TakenUp, SentDown, fromNode
    <3>2. fromClient(t, d) = fromClient(s, d) - (IF f.type = "data" THEN f.bytes ELSE 0) /\ fromClient(s, d) \in Nat
      BY <1>d, <2>4, <2>5 DEF Known, TakenUp, SentDown, fromClient
    <3>3. ~Live(t, d)
      BY <1>c, <1>d, <2>4, <2>5 DEF Live, Known, TakenUp, SentDown, Fresh, Still, Heard, Agree
    <3> QED BY <1>c, <1>d, <2>4, <2>5, <3>1, <3>2, <3>3 DEF Known, TakenUp, Credit
  <2>10. Agree(t, d)
    BY <1>c, <1>d, <2>4, <2>5 DEF Known, TakenUp, SentDown, Agree, Fresh, Still, Heard
  <2>11. Owed(t, d, 0) BY <1>c, <1>d, <2>4, <2>5 DEF Known, TakenUp, SentDown, Owed
  <2>12. TunnelSlotInv(t) BY <1>b, <2>4 DEF TunnelSlotInv, grantedOf
  <2>13. RoomInv(t)
    <3>1. \A c \in TunnelConn : (onWire(t.up, "open", c) => onWire(s.up, "open", c)) /\ (c \in t.conns => c \in s.conns)
      BY <1>c, <1>d, <2>4, <2>5 DEF SameWire, Fresh, Still, Heard, Known, TakenUp, SentDown
    <3>2. s.conns \subseteq TunnelConn /\ t.conns \subseteq TunnelConn BY <1>b, <2>3 DEF TunnelType
    <3>3. roomFor(t) \subseteq roomFor(s) BY <3>1, <3>2 DEF roomFor
    <3> QED BY <1>b, <1>e, <3>3, <2>4, RoomFewer
  <2> QED BY <1>b, <2>3, <2>4, <2>6, <2>7, <2>8, <2>9, <2>10, <2>11, <2>12, <2>13, TunnelKept
<1> QED BY <1>s

LEMMA OpenRefusedHolds ==
    ASSUME NEW s, NEW d \in TunnelConn, TunnelOK(s, d, 0),
           NEW f, NEW rest \in UpWires, TakenUp(s.up, rest, f, d), f.type = "open", d \notin s.conns,
           s.aborted = FALSE, Cardinality(s.conns) >= MaxConnections
    PROVE  \A t : t = [s EXCEPT !.up = rest, !.down = Append(s.down, frame("closed", d, 0)),
                           !.refused = s.refused \cup {d}] => TunnelOK(t, d, 0)
<1>b. s \in TunnelType /\ s.accused = {} /\ TunnelSlotInv(s) /\ RoomInv(s) /\ \A c \in TunnelConn : ConnInv(s, c) /\ Owed(s, c, IF c = d THEN 0 ELSE 0)
  BY DEF TunnelOK
<1>c. Fresh(s, d) /\ Heard(s, d) /\ Credit(s, d) /\ Agree(s, d) /\ Owed(s, d, 0) BY <1>b DEF ConnInv
<1>d. Known(s, d) BY <1>b, WhatIsKnown
<1>w. s.up \in Seq(UpFrame) /\ s.down \in Seq(DownFrame) BY <1>b DEF TunnelType
<1>e. s.over \in BOOLEAN /\ s.late \in BOOLEAN BY <1>b DEF TunnelType
<1>s. ASSUME NEW t, t = [s EXCEPT !.up = rest, !.down = Append(s.down, frame("closed", d, 0)),
                             !.refused = s.refused \cup {d}]
      PROVE  TunnelOK(t, d, 0)
  <2> DEFINE down1 == Append(s.down, frame("closed", d, 0))
             refused1 == s.refused \cup {d}
  <2>1. /\ rest \in Seq(UpFrame) /\ down1 \in Seq(DownFrame) /\ refused1 \in SUBSET TunnelConn
    <3>1. rest \in Seq(UpFrame) BY DEF UpWires
    <3>2. down1 \in Seq(DownFrame)
      <4>1. frame("closed", d, 0) \in DownFrame BY <1>d, Frames DEF Known, TakenUp
      <4> QED BY <1>w, <4>1
    <3>3. refused1 \in SUBSET TunnelConn BY <1>b, <1>d DEF TunnelType, Known, TakenUp
    <3> QED BY <3>1, <3>2, <3>3
  <2>2. t = [s EXCEPT !.up = rest, !.down = down1, !.refused = refused1] BY <1>s
  <2> HIDE DEF down1, refused1
  <2>3. t \in TunnelType BY <2>2, <2>1, <1>b, ZenonT(60) DEF TunnelType
  <2>4. /\ t.up = rest /\ t.down = down1 /\ t.ready = s.ready /\ t.over = s.over /\ t.aborted = s.aborted
        /\ t.late = s.late /\ t.opener = s.opener /\ t.waiters = s.waiters /\ t.slots = s.slots
        /\ t.sockets = s.sockets /\ t.destroyed = s.destroyed /\ t.remoteClosed = s.remoteClosed
        /\ t.acking = s.acking /\ t.ended = s.ended /\ t.remoteEnded = s.remoteEnded
        /\ t.backpressured = s.backpressured /\ t.sendCredit = s.sendCredit /\ t.recvCredit = s.recvCredit
        /\ t.withheld = s.withheld /\ t.pending = s.pending /\ t.buffer = s.buffer /\ t.writing = s.writing
        /\ t.unwritten = s.unwritten /\ t.unread = s.unread /\ t.conns = s.conns
        /\ t.connected = s.connected /\ t.nodeDestroyed = s.nodeDestroyed /\ t.outCredit = s.outCredit
        /\ t.inCredit = s.inCredit /\ t.input = s.input /\ t.chunk = s.chunk /\ t.accused = s.accused
        /\ t.refused = refused1
    BY <2>2, <1>b DEF TunnelType
  <2>5. d \in refused1 /\ \A c : c # d => (c \in refused1 <=> c \in s.refused) BY DEF refused1
  <2>6. SentDown(s.down, down1, "closed", d, 0)
    <3>1. frame("closed", d, 0) \in DownFrame BY <1>d, Frames DEF Known, TakenUp
    <3> QED BY <1>w, <3>1, DownSent DEF down1
  <2>7. ASSUME NEW c \in TunnelConn, c # d PROVE Same(s, t, c)
    <3>1. SameWire(s.up, t.up, c) /\ SameWire(s.down, t.down, c)
      BY <2>7, <2>4, <2>5, <2>6 DEF SameWire, TakenUp, SentDown
    <3> QED BY <2>7, <3>1, <2>4, <2>5, <2>6 DEF Same
  <2>8. Fresh(t, d)
    BY <1>c, <1>d, <2>4, <2>5, <2>6 DEF Known, TakenUp, SentDown, Fresh, Still, Heard, Agree
  <2>9. Heard(t, d)
    BY <1>c, <1>d, <2>4, <2>5, <2>6 DEF Known, TakenUp, SentDown, Heard, Fresh, Still, Agree
  <2>10. Credit(t, d)
    <3>1. fromNode(t, d) = fromNode(s, d) /\ fromNode(s, d) \in Nat
      BY <1>d, <2>4, <2>5, <2>6 DEF Known, TakenUp, SentDown, fromNode
    <3>2. fromClient(t, d) = fromClient(s, d) /\ fromClient(s, d) \in Nat
      BY <1>d, <2>4, <2>5, <2>6 DEF Known, TakenUp, SentDown, fromClient
    <3>3. ~Live(t, d)
      BY <1>c, <1>d, <2>4, <2>5, <2>6 DEF Live, Known, TakenUp, SentDown, Fresh, Still, Heard, Agree
    <3> QED BY <1>c, <1>d, <2>4, <2>5, <2>6, <3>1, <3>2, <3>3 DEF Known, TakenUp, Credit
  <2>11. Agree(t, d)
    BY <1>c, <1>d, <2>4, <2>5, <2>6 DEF Known, TakenUp, SentDown, Agree, Fresh, Still, Heard
  <2>12. Owed(t, d, 0) BY <1>c, <1>d, <2>4, <2>5, <2>6 DEF Known, TakenUp, SentDown, Owed
  <2>13. TunnelSlotInv(t) BY <1>b, <2>4 DEF TunnelSlotInv, grantedOf
  <2>14. RoomInv(t)
    <3>1. s.conns \subseteq roomFor(s) /\ d \in roomFor(s) BY <1>d DEF Known, TakenUp, roomFor
    <3>2. ASSUME ~s.late PROVE FALSE
      <4>1. IsFiniteSet(roomFor(s)) /\ Cardinality(roomFor(s)) <= MaxConnections
        BY <1>b, <3>2 DEF RoomInv
      <4>2. IsFiniteSet(s.conns) /\ IsFiniteSet(s.conns \cup {d}) /\ Cardinality(s.conns \cup {d}) = Cardinality(s.conns) + 1
        <5>1. IsFiniteSet(s.conns) BY <3>1, <4>1, FS_Subset
        <5> QED BY <5>1, FS_AddElement
      <4>3. Cardinality(s.conns \cup {d}) <= Cardinality(roomFor(s))
        <5>1. s.conns \cup {d} \subseteq roomFor(s) BY <3>1
        <5> QED BY <4>1, <5>1, FS_Subset
      <4>4. Cardinality(s.conns) \in Nat /\ Cardinality(roomFor(s)) \in Nat /\ MaxConnections \in Nat
        BY <4>1, <4>2, FS_CardinalityType, TunnelAssumption
      <4> QED BY <4>1, <4>2, <4>3, <4>4
    <3> QED BY <1>e, <3>2, <2>4 DEF RoomInv
  <2> QED BY <1>b, <2>3, <2>4, <2>7, <2>8, <2>9, <2>10, <2>11, <2>12, <2>13, <2>14, TunnelKept
<1> QED BY <1>s

\* A connection is opened.
LEMMA OpenAcceptedHolds ==
    ASSUME NEW s, NEW d \in TunnelConn, TunnelOK(s, d, 0),
           NEW f, NEW rest \in UpWires, TakenUp(s.up, rest, f, d), f.type = "open", s.aborted = FALSE
    PROVE  \A t : t = [s EXCEPT !.up = rest, !.conns = s.conns \cup {d},
                           !.outCredit = [s.outCredit EXCEPT ![d] = TunnelWindow],
                           !.inCredit = [s.inCredit EXCEPT ![d] = TunnelWindow]] => TunnelOK(t, d, 0)
<1>b. s \in TunnelType /\ s.accused = {} /\ TunnelSlotInv(s) /\ RoomInv(s) /\ \A c \in TunnelConn : ConnInv(s, c) /\ Owed(s, c, IF c = d THEN 0 ELSE 0)
  BY DEF TunnelOK
<1>c. Fresh(s, d) /\ Heard(s, d) /\ Credit(s, d) /\ Agree(s, d) /\ Owed(s, d, 0) BY <1>b DEF ConnInv
<1>d. Known(s, d) BY <1>b, WhatIsKnown
<1>w. s.up \in Seq(UpFrame) /\ s.down \in Seq(DownFrame) BY <1>b DEF TunnelType
<1>e. s.over \in BOOLEAN /\ s.late \in BOOLEAN BY <1>b DEF TunnelType
<1>1. Still(s, d) /\ single(s.up, d) /\ s.recvCredit[d] = TunnelWindow
  BY <1>c, <1>d DEF Known, TakenUp, Fresh
<1>2. ~mentions(rest, d) /\ ~mentions(s.down, d) /\ s.sendCredit[d] = 0 BY <1>1 DEF TakenUp, Still
<1>3. inFrames(rest, "data", d) = 0 /\ inFrames(rest, "credit", d) = 0 /\ inFrames(s.down, "data", d) = 0 /\ inFrames(s.down, "credit", d) = 0
  BY <1>2, <1>d DEF Known, TakenUp
<1>4. total(s.input[d]) = 0 BY <1>1, <1>b, EmptyTotals DEF Still
<1>5. d \notin s.connected /\ s.opener[d] # "done" BY <1>c, <1>1 DEF Still, Heard
<1>s. ASSUME NEW t, t = [s EXCEPT !.up = rest, !.conns = s.conns \cup {d},
                             !.outCredit = [s.outCredit EXCEPT ![d] = TunnelWindow],
                             !.inCredit = [s.inCredit EXCEPT ![d] = TunnelWindow]]
      PROVE  TunnelOK(t, d, 0)
  <2> DEFINE conns1 == s.conns \cup {d}
             outCredit1 == [s.outCredit EXCEPT ![d] = TunnelWindow]
             inCredit1 == [s.inCredit EXCEPT ![d] = TunnelWindow]
  <2>1. /\ rest \in Seq(UpFrame) /\ conns1 \in SUBSET TunnelConn
        /\ outCredit1 \in [TunnelConn -> 0..TunnelWindow] /\ inCredit1 \in [TunnelConn -> 0..TunnelWindow]
    <3>1. rest \in Seq(UpFrame) BY DEF UpWires
    <3>2. conns1 \in SUBSET TunnelConn
      BY <1>b, <1>d, <1>1, <1>2, <1>3, <1>4, <1>5 DEF TunnelType, Known, TakenUp
    <3>3. outCredit1 \in [TunnelConn -> 0..TunnelWindow]
      BY <1>b, <1>d, <1>1, <1>2, <1>3, <1>4, <1>5 DEF TunnelType, Known, TakenUp
    <3>4. inCredit1 \in [TunnelConn -> 0..TunnelWindow]
      BY <1>b, <1>d, <1>1, <1>2, <1>3, <1>4, <1>5 DEF TunnelType, Known, TakenUp
    <3> QED BY <3>1, <3>2, <3>3, <3>4
  <2>2. t = [s EXCEPT !.up = rest, !.conns = conns1, !.outCredit = outCredit1, !.inCredit = inCredit1]
    BY <1>s
  <2> HIDE DEF conns1, outCredit1, inCredit1
  <2>3. t \in TunnelType BY <2>2, <2>1, <1>b, ZenonT(60) DEF TunnelType
  <2>4. /\ t.up = rest /\ t.down = s.down /\ t.ready = s.ready /\ t.over = s.over /\ t.aborted = s.aborted
        /\ t.late = s.late /\ t.opener = s.opener /\ t.waiters = s.waiters /\ t.slots = s.slots
        /\ t.sockets = s.sockets /\ t.destroyed = s.destroyed /\ t.remoteClosed = s.remoteClosed
        /\ t.acking = s.acking /\ t.ended = s.ended /\ t.remoteEnded = s.remoteEnded
        /\ t.backpressured = s.backpressured /\ t.sendCredit = s.sendCredit /\ t.recvCredit = s.recvCredit
        /\ t.withheld = s.withheld /\ t.pending = s.pending /\ t.buffer = s.buffer /\ t.writing = s.writing
        /\ t.unwritten = s.unwritten /\ t.unread = s.unread /\ t.conns = conns1
        /\ t.connected = s.connected /\ t.nodeDestroyed = s.nodeDestroyed /\ t.outCredit = outCredit1
        /\ t.inCredit = inCredit1 /\ t.input = s.input /\ t.chunk = s.chunk /\ t.accused = s.accused
        /\ t.refused = s.refused
    BY <2>2, <1>b DEF TunnelType
  <2>5. d \in conns1 /\ \A c : c # d => (c \in conns1 <=> c \in s.conns) BY DEF conns1
  <2>6. outCredit1[d] = TunnelWindow /\ \A c \in TunnelConn : c # d => outCredit1[c] = s.outCredit[c]
    BY <1>b DEF outCredit1, TunnelType
  <2>7. inCredit1[d] = TunnelWindow /\ \A c \in TunnelConn : c # d => inCredit1[c] = s.inCredit[c]
    BY <1>b DEF inCredit1, TunnelType
  <2>8. ASSUME NEW c \in TunnelConn, c # d PROVE Same(s, t, c)
    <3>1. SameWire(s.up, t.up, c) /\ SameWire(s.down, t.down, c)
      BY <2>8, <2>4, <2>5, <2>6, <2>7 DEF SameWire, TakenUp
    <3> QED BY <2>8, <3>1, <2>4, <2>5, <2>6, <2>7 DEF Same
  <2>9. Fresh(t, d)
    BY <1>c, <1>d, <1>1, <1>2, <1>3, <1>4, <1>5, <2>4, <2>5, <2>6, <2>7 DEF Known, TakenUp, Fresh, Still, Heard, Agree
  <2>10. Heard(t, d)
    BY <1>c, <1>d, <1>1, <1>2, <1>3, <1>4, <1>5, <2>4, <2>5, <2>6, <2>7 DEF Known, TakenUp, Heard, Fresh, Still, Agree
  <2>11. Credit(t, d)
    <3>1. fromNode(t, d) = TunnelWindow /\ fromNode(s, d) \in Nat
      BY <1>d, <1>1, <1>2, <1>3, <1>4, <1>5, <2>4, <2>5, <2>6, <2>7 DEF Known, TakenUp, fromNode
    <3>2. fromClient(t, d) = 0 /\ fromClient(s, d) \in Nat
      BY <1>d, <1>1, <1>2, <1>3, <1>4, <1>5, <2>4, <2>5, <2>6, <2>7 DEF Known, TakenUp, fromClient
    <3>3. t.opener[d] # "done" BY <1>5, <2>4
    <3> QED BY <1>c, <1>d, <1>1, <1>2, <1>3, <1>4, <1>5, <2>4, <2>5, <2>6, <2>7, <3>1, <3>2, <3>3 DEF Known, TakenUp, Credit
  <2>12. Agree(t, d)
    BY <1>c, <1>d, <1>1, <1>2, <1>3, <1>4, <1>5, <2>4, <2>5, <2>6, <2>7 DEF Known, TakenUp, Agree, Fresh, Still, Heard
  <2>13. Owed(t, d, 0)
    BY <1>c, <1>d, <1>1, <1>2, <1>3, <1>4, <1>5, <2>4, <2>5, <2>6, <2>7 DEF Known, TakenUp, Owed
  <2>14. TunnelSlotInv(t) BY <1>b, <2>4 DEF TunnelSlotInv, grantedOf
  <2>15. RoomInv(t)
    <3>1. onWire(s.up, "open", d) /\ \A c \in TunnelConn : (onWire(t.up, "open", c) => onWire(s.up, "open", c)) /\ (c \in t.conns => c \in s.conns \/ c = d)
      <4>1. onWire(s.up, "open", d) /\ (onWire(rest, "open", d) => onWire(s.up, "open", d))
        BY DEF TakenUp
      <4>2. \A c \in TunnelConn : c # d /\ onWire(rest, "open", c) => onWire(s.up, "open", c)
        BY DEF TakenUp, SameWire
      <4> QED BY <4>1, <4>2, <2>4, <2>5, <2>6, <2>7
    <3>2. s.conns \subseteq TunnelConn /\ t.conns \subseteq TunnelConn BY <1>b, <2>3 DEF TunnelType
    <3>3. roomFor(t) \subseteq roomFor(s) BY <3>1, <3>2 DEF roomFor
    <3> QED BY <1>b, <1>e, <3>3, <2>4, RoomFewer
  <2> QED BY <1>b, <2>3, <2>4, <2>8, <2>9, <2>10, <2>11, <2>12, <2>13, <2>14, <2>15, TunnelKept
<1> QED BY <1>s

\* Credit, data, the end, and `close`.
LEMMA NodeCreditHolds ==
    ASSUME NEW s, NEW d \in TunnelConn, TunnelOK(s, d, 0),
           NEW f, NEW rest \in UpWires, TakenUp(s.up, rest, f, d), f.type = "credit", d \in s.conns
    PROVE  \A t : t = [s EXCEPT !.up = rest, !.outCredit = [s.outCredit EXCEPT ![d] = s.outCredit[d] + f.bytes]] => TunnelOK(t, d, 0)
<1>b. s \in TunnelType /\ s.accused = {} /\ TunnelSlotInv(s) /\ RoomInv(s) /\ \A c \in TunnelConn : ConnInv(s, c) /\ Owed(s, c, IF c = d THEN 0 ELSE 0)
  BY DEF TunnelOK
<1>c. Fresh(s, d) /\ Heard(s, d) /\ Credit(s, d) /\ Agree(s, d) /\ Owed(s, d, 0) BY <1>b DEF ConnInv
<1>d. Known(s, d) BY <1>b, WhatIsKnown
<1>w. s.up \in Seq(UpFrame) /\ s.down \in Seq(DownFrame) BY <1>b DEF TunnelType
<1>e. s.over \in BOOLEAN /\ s.late \in BOOLEAN BY <1>b DEF TunnelType
<1>1. s.outCredit[d] + f.bytes <= TunnelWindow BY <1>c, <1>d DEF Known, TakenUp, Credit, fromNode
<1>s. ASSUME NEW t, t = [s EXCEPT !.up = rest, !.outCredit = [s.outCredit EXCEPT ![d] = s.outCredit[d] + f.bytes]]
      PROVE  TunnelOK(t, d, 0)
  <2> DEFINE outCredit1 == [s.outCredit EXCEPT ![d] = s.outCredit[d] + f.bytes]
  <2>1. /\ rest \in Seq(UpFrame) /\ outCredit1 \in [TunnelConn -> 0..TunnelWindow]
    <3>1. rest \in Seq(UpFrame) BY DEF UpWires
    <3>2. outCredit1 \in [TunnelConn -> 0..TunnelWindow]
      <4>1. s.outCredit \in [TunnelConn -> 0..TunnelWindow] /\ s.outCredit[d] \in 0..TunnelWindow
        BY <1>b DEF TunnelType
      <4>2. s.outCredit[d] + f.bytes \in 0..TunnelWindow BY <1>d, <1>1 DEF Known, TakenUp
      <4> QED BY <4>1, <4>2
    <3> QED BY <3>1, <3>2
  <2>2. t = [s EXCEPT !.up = rest, !.outCredit = outCredit1] BY <1>s
  <2> HIDE DEF outCredit1
  <2>3. t \in TunnelType BY <2>2, <2>1, <1>b, ZenonT(60) DEF TunnelType
  <2>4. /\ t.up = rest /\ t.down = s.down /\ t.ready = s.ready /\ t.over = s.over /\ t.aborted = s.aborted
        /\ t.late = s.late /\ t.opener = s.opener /\ t.waiters = s.waiters /\ t.slots = s.slots
        /\ t.sockets = s.sockets /\ t.destroyed = s.destroyed /\ t.remoteClosed = s.remoteClosed
        /\ t.acking = s.acking /\ t.ended = s.ended /\ t.remoteEnded = s.remoteEnded
        /\ t.backpressured = s.backpressured /\ t.sendCredit = s.sendCredit /\ t.recvCredit = s.recvCredit
        /\ t.withheld = s.withheld /\ t.pending = s.pending /\ t.buffer = s.buffer /\ t.writing = s.writing
        /\ t.unwritten = s.unwritten /\ t.unread = s.unread /\ t.conns = s.conns
        /\ t.connected = s.connected /\ t.nodeDestroyed = s.nodeDestroyed /\ t.outCredit = outCredit1
        /\ t.inCredit = s.inCredit /\ t.input = s.input /\ t.chunk = s.chunk /\ t.accused = s.accused
        /\ t.refused = s.refused
    BY <2>2, <1>b DEF TunnelType
  <2>5. outCredit1[d] = s.outCredit[d] + f.bytes /\ \A c \in TunnelConn : c # d => outCredit1[c] = s.outCredit[c]
    BY <1>b DEF outCredit1, TunnelType
  <2>6. ASSUME NEW c \in TunnelConn, c # d PROVE Same(s, t, c)
    <3>1. SameWire(s.up, t.up, c) /\ SameWire(s.down, t.down, c)
      BY <2>6, <2>4, <2>5 DEF SameWire, TakenUp
    <3> QED BY <2>6, <3>1, <2>4, <2>5 DEF Same
  <2>7. Fresh(t, d) BY <1>c, <1>d, <1>1, <2>4, <2>5 DEF Known, TakenUp, Fresh, Still, Heard, Agree
  <2>8. Heard(t, d) BY <1>c, <1>d, <1>1, <2>4, <2>5 DEF Known, TakenUp, Heard, Fresh, Still, Agree
  <2>9. Credit(t, d)
    <3>1. fromNode(t, d) = fromNode(s, d) /\ fromNode(s, d) \in Nat
      BY <1>d, <1>1, <2>4, <2>5 DEF Known, TakenUp, fromNode
    <3>2. fromClient(t, d) = fromClient(s, d) /\ fromClient(s, d) \in Nat
      BY <1>d, <1>1, <2>4, <2>5 DEF Known, TakenUp, fromClient
    <3>3. Live(t, d) => Live(s, d) /\ (t.opener[d] = "done" => s.opener[d] = "done")
      BY <1>c, <1>d, <1>1, <2>4, <2>5 DEF Live, Known, TakenUp, Fresh, Still, Heard, Agree
    <3> QED BY <1>c, <1>d, <1>1, <2>4, <2>5, <3>1, <3>2, <3>3 DEF Known, TakenUp, Credit
  <2>10. Agree(t, d) BY <1>c, <1>d, <1>1, <2>4, <2>5 DEF Known, TakenUp, Agree, Fresh, Still, Heard
  <2>11. Owed(t, d, 0) BY <1>c, <1>d, <1>1, <2>4, <2>5 DEF Known, TakenUp, Owed
  <2>12. TunnelSlotInv(t) BY <1>b, <2>4 DEF TunnelSlotInv, grantedOf
  <2>13. RoomInv(t)
    <3>1. \A c \in TunnelConn : (onWire(t.up, "open", c) => onWire(s.up, "open", c)) /\ (c \in t.conns => c \in s.conns)
      BY <1>c, <1>d, <2>4, <2>5, <1>1 DEF SameWire, Fresh, Still, Heard, Known, TakenUp
    <3>2. s.conns \subseteq TunnelConn /\ t.conns \subseteq TunnelConn BY <1>b, <2>3 DEF TunnelType
    <3>3. roomFor(t) \subseteq roomFor(s) BY <3>1, <3>2 DEF roomFor
    <3> QED BY <1>b, <1>e, <3>3, <2>4, RoomFewer
  <2> QED BY <1>b, <2>3, <2>4, <2>6, <2>7, <2>8, <2>9, <2>10, <2>11, <2>12, <2>13, TunnelKept
<1> QED BY <1>s

LEMMA NodeCloseHolds ==
    ASSUME NEW s, NEW d \in TunnelConn, TunnelOK(s, d, 0),
           NEW f, NEW rest \in UpWires, TakenUp(s.up, rest, f, d), f.type = "close", d \in s.conns
    PROVE  \A t : t = [s EXCEPT !.up = rest, !.nodeDestroyed = s.nodeDestroyed \cup {d}] => TunnelOK(t, d, 0)
<1>b. s \in TunnelType /\ s.accused = {} /\ TunnelSlotInv(s) /\ RoomInv(s) /\ \A c \in TunnelConn : ConnInv(s, c) /\ Owed(s, c, IF c = d THEN 0 ELSE 0)
  BY DEF TunnelOK
<1>c. Fresh(s, d) /\ Heard(s, d) /\ Credit(s, d) /\ Agree(s, d) /\ Owed(s, d, 0) BY <1>b DEF ConnInv
<1>d. Known(s, d) BY <1>b, WhatIsKnown
<1>w. s.up \in Seq(UpFrame) /\ s.down \in Seq(DownFrame) BY <1>b DEF TunnelType
<1>e. s.over \in BOOLEAN /\ s.late \in BOOLEAN BY <1>b DEF TunnelType
<1>s. ASSUME NEW t, t = [s EXCEPT !.up = rest, !.nodeDestroyed = s.nodeDestroyed \cup {d}]
      PROVE  TunnelOK(t, d, 0)
  <2> DEFINE nodeDestroyed1 == s.nodeDestroyed \cup {d}
  <2>1. /\ rest \in Seq(UpFrame) /\ nodeDestroyed1 \in SUBSET TunnelConn
    <3>1. rest \in Seq(UpFrame) BY DEF UpWires
    <3>2. nodeDestroyed1 \in SUBSET TunnelConn BY <1>b, <1>d DEF TunnelType, Known, TakenUp
    <3> QED BY <3>1, <3>2
  <2>2. t = [s EXCEPT !.up = rest, !.nodeDestroyed = nodeDestroyed1] BY <1>s
  <2> HIDE DEF nodeDestroyed1
  <2>3. t \in TunnelType BY <2>2, <2>1, <1>b, ZenonT(60) DEF TunnelType
  <2>4. /\ t.up = rest /\ t.down = s.down /\ t.ready = s.ready /\ t.over = s.over /\ t.aborted = s.aborted
        /\ t.late = s.late /\ t.opener = s.opener /\ t.waiters = s.waiters /\ t.slots = s.slots
        /\ t.sockets = s.sockets /\ t.destroyed = s.destroyed /\ t.remoteClosed = s.remoteClosed
        /\ t.acking = s.acking /\ t.ended = s.ended /\ t.remoteEnded = s.remoteEnded
        /\ t.backpressured = s.backpressured /\ t.sendCredit = s.sendCredit /\ t.recvCredit = s.recvCredit
        /\ t.withheld = s.withheld /\ t.pending = s.pending /\ t.buffer = s.buffer /\ t.writing = s.writing
        /\ t.unwritten = s.unwritten /\ t.unread = s.unread /\ t.conns = s.conns
        /\ t.connected = s.connected /\ t.nodeDestroyed = nodeDestroyed1 /\ t.outCredit = s.outCredit
        /\ t.inCredit = s.inCredit /\ t.input = s.input /\ t.chunk = s.chunk /\ t.accused = s.accused
        /\ t.refused = s.refused
    BY <2>2, <1>b DEF TunnelType
  <2>5. d \in nodeDestroyed1 /\ \A c : c # d => (c \in nodeDestroyed1 <=> c \in s.nodeDestroyed)
    BY DEF nodeDestroyed1
  <2>6. ASSUME NEW c \in TunnelConn, c # d PROVE Same(s, t, c)
    <3>1. SameWire(s.up, t.up, c) /\ SameWire(s.down, t.down, c)
      BY <2>6, <2>4, <2>5 DEF SameWire, TakenUp
    <3> QED BY <2>6, <3>1, <2>4, <2>5 DEF Same
  <2>7. Fresh(t, d) BY <1>c, <1>d, <2>4, <2>5 DEF Known, TakenUp, Fresh, Still, Heard, Agree
  <2>8. Heard(t, d) BY <1>c, <1>d, <2>4, <2>5 DEF Known, TakenUp, Heard, Fresh, Still, Agree
  <2>9. Credit(t, d)
    <3>1. fromNode(t, d) = fromNode(s, d) /\ fromNode(s, d) \in Nat
      BY <1>d, <2>4, <2>5 DEF Known, TakenUp, fromNode
    <3>2. fromClient(t, d) = fromClient(s, d) /\ fromClient(s, d) \in Nat
      BY <1>d, <2>4, <2>5 DEF Known, TakenUp, fromClient
    <3>3. Live(t, d) => Live(s, d) /\ (t.opener[d] = "done" => s.opener[d] = "done")
      BY <1>c, <1>d, <2>4, <2>5 DEF Live, Known, TakenUp, Fresh, Still, Heard, Agree
    <3> QED BY <1>c, <1>d, <2>4, <2>5, <3>1, <3>2, <3>3 DEF Known, TakenUp, Credit
  <2>10. Agree(t, d) BY <1>c, <1>d, <2>4, <2>5 DEF Known, TakenUp, Agree, Fresh, Still, Heard
  <2>11. Owed(t, d, 0) BY <1>c, <1>d, <2>4, <2>5 DEF Known, TakenUp, Owed
  <2>12. TunnelSlotInv(t) BY <1>b, <2>4 DEF TunnelSlotInv, grantedOf
  <2>13. RoomInv(t)
    <3>1. \A c \in TunnelConn : (onWire(t.up, "open", c) => onWire(s.up, "open", c)) /\ (c \in t.conns => c \in s.conns)
      BY <1>c, <1>d, <2>4, <2>5 DEF SameWire, Fresh, Still, Heard, Known, TakenUp
    <3>2. s.conns \subseteq TunnelConn /\ t.conns \subseteq TunnelConn BY <1>b, <2>3 DEF TunnelType
    <3>3. roomFor(t) \subseteq roomFor(s) BY <3>1, <3>2 DEF roomFor
    <3> QED BY <1>b, <1>e, <3>3, <2>4, RoomFewer
  <2> QED BY <1>b, <2>3, <2>4, <2>6, <2>7, <2>8, <2>9, <2>10, <2>11, <2>12, <2>13, TunnelKept
<1> QED BY <1>s

LEMMA NodeEndHolds ==
    ASSUME NEW s, NEW d \in TunnelConn, TunnelOK(s, d, 0),
           NEW f, NEW rest \in UpWires, TakenUp(s.up, rest, f, d), f.type = "end", d \in s.conns,
           NEW queue \in InputQueue, total(queue) = total(s.input[d])
    PROVE  \A t : t = [s EXCEPT !.up = rest, !.input = [s.input EXCEPT ![d] = queue]] => TunnelOK(t, d, 0)
<1>b. s \in TunnelType /\ s.accused = {} /\ TunnelSlotInv(s) /\ RoomInv(s) /\ \A c \in TunnelConn : ConnInv(s, c) /\ Owed(s, c, IF c = d THEN 0 ELSE 0)
  BY DEF TunnelOK
<1>c. Fresh(s, d) /\ Heard(s, d) /\ Credit(s, d) /\ Agree(s, d) /\ Owed(s, d, 0) BY <1>b DEF ConnInv
<1>d. Known(s, d) BY <1>b, WhatIsKnown
<1>w. s.up \in Seq(UpFrame) /\ s.down \in Seq(DownFrame) BY <1>b DEF TunnelType
<1>e. s.over \in BOOLEAN /\ s.late \in BOOLEAN BY <1>b DEF TunnelType
<1>s. ASSUME NEW t, t = [s EXCEPT !.up = rest, !.input = [s.input EXCEPT ![d] = queue]]
      PROVE  TunnelOK(t, d, 0)
  <2> DEFINE input1 == [s.input EXCEPT ![d] = queue]
  <2>1. /\ rest \in Seq(UpFrame) /\ input1 \in [TunnelConn -> Seq(0..FrameLimit)]
    <3>1. rest \in Seq(UpFrame) BY DEF UpWires
    <3>2. input1 \in [TunnelConn -> Seq(0..FrameLimit)]
      BY <1>b, <1>d DEF TunnelType, Known, TakenUp, InputQueue
    <3> QED BY <3>1, <3>2
  <2>2. t = [s EXCEPT !.up = rest, !.input = input1] BY <1>s
  <2> HIDE DEF input1
  <2>3. t \in TunnelType BY <2>2, <2>1, <1>b, ZenonT(60) DEF TunnelType
  <2>4. /\ t.up = rest /\ t.down = s.down /\ t.ready = s.ready /\ t.over = s.over /\ t.aborted = s.aborted
        /\ t.late = s.late /\ t.opener = s.opener /\ t.waiters = s.waiters /\ t.slots = s.slots
        /\ t.sockets = s.sockets /\ t.destroyed = s.destroyed /\ t.remoteClosed = s.remoteClosed
        /\ t.acking = s.acking /\ t.ended = s.ended /\ t.remoteEnded = s.remoteEnded
        /\ t.backpressured = s.backpressured /\ t.sendCredit = s.sendCredit /\ t.recvCredit = s.recvCredit
        /\ t.withheld = s.withheld /\ t.pending = s.pending /\ t.buffer = s.buffer /\ t.writing = s.writing
        /\ t.unwritten = s.unwritten /\ t.unread = s.unread /\ t.conns = s.conns
        /\ t.connected = s.connected /\ t.nodeDestroyed = s.nodeDestroyed /\ t.outCredit = s.outCredit
        /\ t.inCredit = s.inCredit /\ t.input = input1 /\ t.chunk = s.chunk /\ t.accused = s.accused
        /\ t.refused = s.refused
    BY <2>2, <1>b DEF TunnelType
  <2>5. input1[d] = queue /\ \A c \in TunnelConn : c # d => input1[c] = s.input[c]
    BY <1>b DEF input1, TunnelType
  <2>6. ASSUME NEW c \in TunnelConn, c # d PROVE Same(s, t, c)
    <3>1. SameWire(s.up, t.up, c) /\ SameWire(s.down, t.down, c)
      BY <2>6, <2>4, <2>5 DEF SameWire, TakenUp
    <3> QED BY <2>6, <3>1, <2>4, <2>5 DEF Same
  <2>7. Fresh(t, d) BY <1>c, <1>d, <2>4, <2>5 DEF Known, TakenUp, Fresh, Still, Heard, Agree
  <2>8. Heard(t, d) BY <1>c, <1>d, <2>4, <2>5 DEF Known, TakenUp, Heard, Fresh, Still, Agree
  <2>9. Credit(t, d)
    <3>1. fromNode(t, d) = fromNode(s, d) /\ fromNode(s, d) \in Nat
      BY <1>d, <2>4, <2>5 DEF Known, TakenUp, fromNode
    <3>2. fromClient(t, d) = fromClient(s, d) /\ fromClient(s, d) \in Nat
      BY <1>d, <2>4, <2>5 DEF Known, TakenUp, fromClient
    <3>3. Live(t, d) => Live(s, d) /\ (t.opener[d] = "done" => s.opener[d] = "done")
      BY <1>c, <1>d, <2>4, <2>5 DEF Live, Known, TakenUp, Fresh, Still, Heard, Agree
    <3> QED BY <1>c, <1>d, <2>4, <2>5, <3>1, <3>2, <3>3 DEF Known, TakenUp, Credit
  <2>10. Agree(t, d) BY <1>c, <1>d, <2>4, <2>5 DEF Known, TakenUp, Agree, Fresh, Still, Heard
  <2>11. Owed(t, d, 0) BY <1>c, <1>d, <2>4, <2>5 DEF Known, TakenUp, Owed
  <2>12. TunnelSlotInv(t) BY <1>b, <2>4 DEF TunnelSlotInv, grantedOf
  <2>13. RoomInv(t)
    <3>1. \A c \in TunnelConn : (onWire(t.up, "open", c) => onWire(s.up, "open", c)) /\ (c \in t.conns => c \in s.conns)
      BY <1>c, <1>d, <2>4, <2>5 DEF SameWire, Fresh, Still, Heard, Known, TakenUp
    <3>2. s.conns \subseteq TunnelConn /\ t.conns \subseteq TunnelConn BY <1>b, <2>3 DEF TunnelType
    <3>3. roomFor(t) \subseteq roomFor(s) BY <3>1, <3>2 DEF roomFor
    <3> QED BY <1>b, <1>e, <3>3, <2>4, RoomFewer
  <2> QED BY <1>b, <2>3, <2>4, <2>6, <2>7, <2>8, <2>9, <2>10, <2>11, <2>12, <2>13, TunnelKept
<1> QED BY <1>s

LEMMA NodeDataHolds ==
    ASSUME NEW s, NEW d \in TunnelConn, TunnelOK(s, d, 0),
           NEW f, NEW rest \in UpWires, TakenUp(s.up, rest, f, d), f.type = "data", d \in s.conns,
           NEW queue \in InputQueue, total(queue) = total(s.input[d]) + f.bytes
    PROVE  \A t : t = [s EXCEPT !.up = rest, !.inCredit = [s.inCredit EXCEPT ![d] = s.inCredit[d] - f.bytes],
                           !.input = [s.input EXCEPT ![d] = queue]] => TunnelOK(t, d, 0)
<1>b. s \in TunnelType /\ s.accused = {} /\ TunnelSlotInv(s) /\ RoomInv(s) /\ \A c \in TunnelConn : ConnInv(s, c) /\ Owed(s, c, IF c = d THEN 0 ELSE 0)
  BY DEF TunnelOK
<1>c. Fresh(s, d) /\ Heard(s, d) /\ Credit(s, d) /\ Agree(s, d) /\ Owed(s, d, 0) BY <1>b DEF ConnInv
<1>d. Known(s, d) BY <1>b, WhatIsKnown
<1>w. s.up \in Seq(UpFrame) /\ s.down \in Seq(DownFrame) BY <1>b DEF TunnelType
<1>e. s.over \in BOOLEAN /\ s.late \in BOOLEAN BY <1>b DEF TunnelType
<1>1. f.bytes <= s.inCredit[d] BY <1>c, <1>d DEF Known, TakenUp, Credit, fromClient
<1>s. ASSUME NEW t, t = [s EXCEPT !.up = rest, !.inCredit = [s.inCredit EXCEPT ![d] = s.inCredit[d] - f.bytes],
                             !.input = [s.input EXCEPT ![d] = queue]]
      PROVE  TunnelOK(t, d, 0)
  <2> DEFINE inCredit1 == [s.inCredit EXCEPT ![d] = s.inCredit[d] - f.bytes]
             input1 == [s.input EXCEPT ![d] = queue]
  <2>1. /\ rest \in Seq(UpFrame) /\ inCredit1 \in [TunnelConn -> 0..TunnelWindow]
        /\ input1 \in [TunnelConn -> Seq(0..FrameLimit)]
    <3>1. rest \in Seq(UpFrame) BY DEF UpWires
    <3>2. inCredit1 \in [TunnelConn -> 0..TunnelWindow]
      <4>1. s.inCredit \in [TunnelConn -> 0..TunnelWindow] /\ s.inCredit[d] \in 0..TunnelWindow
        BY <1>b DEF TunnelType
      <4>2. s.inCredit[d] - f.bytes \in 0..TunnelWindow BY <1>d, <1>1 DEF Known, TakenUp
      <4> QED BY <4>1, <4>2
    <3>3. input1 \in [TunnelConn -> Seq(0..FrameLimit)]
      BY <1>b, <1>d, <1>1 DEF TunnelType, Known, TakenUp, InputQueue
    <3> QED BY <3>1, <3>2, <3>3
  <2>2. t = [s EXCEPT !.up = rest, !.inCredit = inCredit1, !.input = input1] BY <1>s
  <2> HIDE DEF inCredit1, input1
  <2>3. t \in TunnelType BY <2>2, <2>1, <1>b, ZenonT(60) DEF TunnelType
  <2>4. /\ t.up = rest /\ t.down = s.down /\ t.ready = s.ready /\ t.over = s.over /\ t.aborted = s.aborted
        /\ t.late = s.late /\ t.opener = s.opener /\ t.waiters = s.waiters /\ t.slots = s.slots
        /\ t.sockets = s.sockets /\ t.destroyed = s.destroyed /\ t.remoteClosed = s.remoteClosed
        /\ t.acking = s.acking /\ t.ended = s.ended /\ t.remoteEnded = s.remoteEnded
        /\ t.backpressured = s.backpressured /\ t.sendCredit = s.sendCredit /\ t.recvCredit = s.recvCredit
        /\ t.withheld = s.withheld /\ t.pending = s.pending /\ t.buffer = s.buffer /\ t.writing = s.writing
        /\ t.unwritten = s.unwritten /\ t.unread = s.unread /\ t.conns = s.conns
        /\ t.connected = s.connected /\ t.nodeDestroyed = s.nodeDestroyed /\ t.outCredit = s.outCredit
        /\ t.inCredit = inCredit1 /\ t.input = input1 /\ t.chunk = s.chunk /\ t.accused = s.accused
        /\ t.refused = s.refused
    BY <2>2, <1>b DEF TunnelType
  <2>5. inCredit1[d] = s.inCredit[d] - f.bytes /\ \A c \in TunnelConn : c # d => inCredit1[c] = s.inCredit[c]
    BY <1>b DEF inCredit1, TunnelType
  <2>6. input1[d] = queue /\ \A c \in TunnelConn : c # d => input1[c] = s.input[c]
    BY <1>b DEF input1, TunnelType
  <2>7. ASSUME NEW c \in TunnelConn, c # d PROVE Same(s, t, c)
    <3>1. SameWire(s.up, t.up, c) /\ SameWire(s.down, t.down, c)
      BY <2>7, <2>4, <2>5, <2>6 DEF SameWire, TakenUp
    <3> QED BY <2>7, <3>1, <2>4, <2>5, <2>6 DEF Same
  <2>8. Fresh(t, d)
    BY <1>c, <1>d, <1>1, <2>4, <2>5, <2>6 DEF Known, TakenUp, Fresh, Still, Heard, Agree
  <2>9. Heard(t, d)
    BY <1>c, <1>d, <1>1, <2>4, <2>5, <2>6 DEF Known, TakenUp, Heard, Fresh, Still, Agree
  <2>10. Credit(t, d)
    <3>1. fromNode(t, d) = fromNode(s, d) /\ fromNode(s, d) \in Nat
      BY <1>d, <1>1, <2>4, <2>5, <2>6 DEF Known, TakenUp, fromNode
    <3>2. fromClient(t, d) = fromClient(s, d) - f.bytes /\ fromClient(s, d) \in Nat
      BY <1>d, <1>1, <2>4, <2>5, <2>6 DEF Known, TakenUp, fromClient
    <3>3. Live(t, d) => Live(s, d) /\ (t.opener[d] = "done" => s.opener[d] = "done")
      BY <1>c, <1>d, <1>1, <2>4, <2>5, <2>6 DEF Live, Known, TakenUp, Fresh, Still, Heard, Agree
    <3> QED BY <1>c, <1>d, <1>1, <2>4, <2>5, <2>6, <3>1, <3>2, <3>3 DEF Known, TakenUp, Credit
  <2>11. Agree(t, d)
    BY <1>c, <1>d, <1>1, <2>4, <2>5, <2>6 DEF Known, TakenUp, Agree, Fresh, Still, Heard
  <2>12. Owed(t, d, 0) BY <1>c, <1>d, <1>1, <2>4, <2>5, <2>6 DEF Known, TakenUp, Owed
  <2>13. TunnelSlotInv(t) BY <1>b, <2>4 DEF TunnelSlotInv, grantedOf
  <2>14. RoomInv(t)
    <3>1. \A c \in TunnelConn : (onWire(t.up, "open", c) => onWire(s.up, "open", c)) /\ (c \in t.conns => c \in s.conns)
      BY <1>c, <1>d, <2>4, <2>5, <2>6, <1>1 DEF SameWire, Fresh, Still, Heard, Known, TakenUp
    <3>2. s.conns \subseteq TunnelConn /\ t.conns \subseteq TunnelConn BY <1>b, <2>3 DEF TunnelType
    <3>3. roomFor(t) \subseteq roomFor(s) BY <3>1, <3>2 DEF roomFor
    <3> QED BY <1>b, <1>e, <3>3, <2>4, RoomFewer
  <2> QED BY <1>b, <2>3, <2>4, <2>7, <2>8, <2>9, <2>10, <2>11, <2>12, <2>13, <2>14, TunnelKept
<1> QED BY <1>s

\* The client: a caller of openSocket is refused, gets a slot, or waits for one.
LEMMA OpenFailsHolds ==
    ASSUME NEW s, NEW d \in TunnelConn, TunnelOK(s, d, 0),
           s.over = TRUE, s.opener[d] = "none"
    PROVE  \A t : t = [s EXCEPT !.opener = [s.opener EXCEPT ![d] = "failed"]] => TunnelOK(t, d, 0)
<1>b. s \in TunnelType /\ s.accused = {} /\ TunnelSlotInv(s) /\ RoomInv(s) /\ \A c \in TunnelConn : ConnInv(s, c) /\ Owed(s, c, IF c = d THEN 0 ELSE 0)
  BY DEF TunnelOK
<1>c. Fresh(s, d) /\ Heard(s, d) /\ Credit(s, d) /\ Agree(s, d) /\ Owed(s, d, 0) BY <1>b DEF ConnInv
<1>d. Known(s, d) BY <1>b, WhatIsKnown
<1>w. s.up \in Seq(UpFrame) /\ s.down \in Seq(DownFrame) BY <1>b DEF TunnelType
<1>e. s.over \in BOOLEAN /\ s.late \in BOOLEAN BY <1>b DEF TunnelType
<1>s. ASSUME NEW t, t = [s EXCEPT !.opener = [s.opener EXCEPT ![d] = "failed"]]
      PROVE  TunnelOK(t, d, 0)
  <2> DEFINE opener1 == [s.opener EXCEPT ![d] = "failed"]
  <2>1. opener1 \in [TunnelConn -> OpenerState] BY <1>b, <1>d DEF TunnelType, Known, OpenerState
  <2>2. t = [s EXCEPT !.opener = opener1] BY <1>s
  <2> HIDE DEF opener1
  <2>3. t \in TunnelType BY <2>2, <2>1, <1>b, ZenonT(60) DEF TunnelType
  <2>4. /\ t.up = s.up /\ t.down = s.down /\ t.ready = s.ready /\ t.over = s.over /\ t.aborted = s.aborted
        /\ t.late = s.late /\ t.opener = opener1 /\ t.waiters = s.waiters /\ t.slots = s.slots
        /\ t.sockets = s.sockets /\ t.destroyed = s.destroyed /\ t.remoteClosed = s.remoteClosed
        /\ t.acking = s.acking /\ t.ended = s.ended /\ t.remoteEnded = s.remoteEnded
        /\ t.backpressured = s.backpressured /\ t.sendCredit = s.sendCredit /\ t.recvCredit = s.recvCredit
        /\ t.withheld = s.withheld /\ t.pending = s.pending /\ t.buffer = s.buffer /\ t.writing = s.writing
        /\ t.unwritten = s.unwritten /\ t.unread = s.unread /\ t.conns = s.conns
        /\ t.connected = s.connected /\ t.nodeDestroyed = s.nodeDestroyed /\ t.outCredit = s.outCredit
        /\ t.inCredit = s.inCredit /\ t.input = s.input /\ t.chunk = s.chunk /\ t.accused = s.accused
        /\ t.refused = s.refused
    BY <2>2, <1>b DEF TunnelType
  <2>5. opener1[d] = "failed" /\ \A c \in TunnelConn : c # d => opener1[c] = s.opener[c]
    BY <1>b DEF opener1, TunnelType
  <2>6. ASSUME NEW c \in TunnelConn, c # d PROVE Same(s, t, c)
    <3>1. SameWire(s.up, t.up, c) /\ SameWire(s.down, t.down, c) BY <2>6, <2>4, <2>5 DEF SameWire
    <3> QED BY <2>6, <3>1, <2>4, <2>5 DEF Same
  <2>7. Fresh(t, d) BY <1>c, <1>d, <2>4, <2>5 DEF Known, Fresh, Still, Heard, Agree
  <2>8. Heard(t, d) BY <1>c, <1>d, <2>4, <2>5 DEF Known, Heard, Fresh, Still, Agree
  <2>9. Credit(t, d)
    <3>1. fromNode(t, d) = fromNode(s, d) /\ fromNode(s, d) \in Nat
      BY <1>d, <2>4, <2>5 DEF Known, fromNode
    <3>2. fromClient(t, d) = fromClient(s, d) /\ fromClient(s, d) \in Nat
      BY <1>d, <2>4, <2>5 DEF Known, fromClient
    <3>3. Live(t, d) => Live(s, d) /\ (t.opener[d] = "done" => s.opener[d] = "done")
      BY <1>c, <1>d, <2>4, <2>5 DEF Live, Known, Fresh, Still, Heard, Agree
    <3> QED BY <1>c, <1>d, <2>4, <2>5, <3>1, <3>2, <3>3 DEF Known, Credit
  <2>10. Agree(t, d) BY <1>c, <1>d, <2>4, <2>5 DEF Known, Agree, Fresh, Still, Heard
  <2>11. Owed(t, d, 0) BY <1>c, <1>d, <2>4, <2>5 DEF Known, Owed
  <2>12. TunnelSlotInv(t)
    <3>1. t.opener \in [TunnelConn -> OpenerState] BY <2>3 DEF TunnelType
    <3> QED BY <1>b, <3>1, <2>4, <2>5, SlotsSame
  <2>13. RoomInv(t) BY <1>b, <2>4 DEF RoomInv, roomFor
  <2> QED BY <1>b, <2>3, <2>4, <2>6, <2>7, <2>8, <2>9, <2>10, <2>11, <2>12, <2>13, TunnelKept
<1> QED BY <1>s

LEMMA OpenGetsSlot ==
    ASSUME NEW s, NEW d \in TunnelConn, TunnelOK(s, d, 0),
           s.over = FALSE, s.opener[d] = "none", s.slots < MaxConnections
    PROVE  \A t : t = [s EXCEPT !.opener = [s.opener EXCEPT ![d] = "granted"], !.slots = s.slots + 1] => TunnelOK(t, d, 0)
<1>b. s \in TunnelType /\ s.accused = {} /\ TunnelSlotInv(s) /\ RoomInv(s) /\ \A c \in TunnelConn : ConnInv(s, c) /\ Owed(s, c, IF c = d THEN 0 ELSE 0)
  BY DEF TunnelOK
<1>c. Fresh(s, d) /\ Heard(s, d) /\ Credit(s, d) /\ Agree(s, d) /\ Owed(s, d, 0) BY <1>b DEF ConnInv
<1>d. Known(s, d) BY <1>b, WhatIsKnown
<1>w. s.up \in Seq(UpFrame) /\ s.down \in Seq(DownFrame) BY <1>b DEF TunnelType
<1>e. s.over \in BOOLEAN /\ s.late \in BOOLEAN BY <1>b DEF TunnelType
<1>1. s.slots \in 0..MaxConnections /\ MaxConnections \in Nat
  BY <1>b, TunnelAssumption DEF TunnelType
<1>2. s.slots + 1 \in 0..MaxConnections BY <1>1
<1>s. ASSUME NEW t, t = [s EXCEPT !.opener = [s.opener EXCEPT ![d] = "granted"], !.slots = s.slots + 1]
      PROVE  TunnelOK(t, d, 0)
  <2> DEFINE opener1 == [s.opener EXCEPT ![d] = "granted"]
             slots1 == s.slots + 1
  <2>1. /\ opener1 \in [TunnelConn -> OpenerState] /\ slots1 \in 0..MaxConnections
    <3>1. opener1 \in [TunnelConn -> OpenerState]
      BY <1>b, <1>d, <1>1, <1>2 DEF TunnelType, Known, OpenerState
    <3>2. slots1 \in 0..MaxConnections BY <1>b, <1>d, <1>1, <1>2 DEF TunnelType, Known
    <3> QED BY <3>1, <3>2
  <2>2. t = [s EXCEPT !.opener = opener1, !.slots = slots1] BY <1>s
  <2> HIDE DEF opener1, slots1
  <2>3. t \in TunnelType BY <2>2, <2>1, <1>b, ZenonT(60) DEF TunnelType
  <2>4. /\ t.up = s.up /\ t.down = s.down /\ t.ready = s.ready /\ t.over = s.over /\ t.aborted = s.aborted
        /\ t.late = s.late /\ t.opener = opener1 /\ t.waiters = s.waiters /\ t.slots = slots1
        /\ t.sockets = s.sockets /\ t.destroyed = s.destroyed /\ t.remoteClosed = s.remoteClosed
        /\ t.acking = s.acking /\ t.ended = s.ended /\ t.remoteEnded = s.remoteEnded
        /\ t.backpressured = s.backpressured /\ t.sendCredit = s.sendCredit /\ t.recvCredit = s.recvCredit
        /\ t.withheld = s.withheld /\ t.pending = s.pending /\ t.buffer = s.buffer /\ t.writing = s.writing
        /\ t.unwritten = s.unwritten /\ t.unread = s.unread /\ t.conns = s.conns
        /\ t.connected = s.connected /\ t.nodeDestroyed = s.nodeDestroyed /\ t.outCredit = s.outCredit
        /\ t.inCredit = s.inCredit /\ t.input = s.input /\ t.chunk = s.chunk /\ t.accused = s.accused
        /\ t.refused = s.refused
    BY <2>2, <1>b DEF TunnelType
  <2>5. opener1[d] = "granted" /\ \A c \in TunnelConn : c # d => opener1[c] = s.opener[c]
    BY <1>b DEF opener1, TunnelType
  <2>6. ASSUME NEW c \in TunnelConn, c # d PROVE Same(s, t, c)
    <3>1. SameWire(s.up, t.up, c) /\ SameWire(s.down, t.down, c) BY <2>6, <2>4, <2>5 DEF SameWire
    <3> QED BY <2>6, <3>1, <2>4, <2>5 DEF Same
  <2>7. Fresh(t, d) BY <1>c, <1>d, <1>1, <1>2, <2>4, <2>5 DEF Known, Fresh, Still, Heard, Agree
  <2>8. Heard(t, d) BY <1>c, <1>d, <1>1, <1>2, <2>4, <2>5 DEF Known, Heard, Fresh, Still, Agree
  <2>9. Credit(t, d)
    <3>1. fromNode(t, d) = fromNode(s, d) /\ fromNode(s, d) \in Nat
      BY <1>d, <1>1, <1>2, <2>4, <2>5 DEF Known, fromNode
    <3>2. fromClient(t, d) = fromClient(s, d) /\ fromClient(s, d) \in Nat
      BY <1>d, <1>1, <1>2, <2>4, <2>5 DEF Known, fromClient
    <3>3. Live(t, d) => Live(s, d) /\ (t.opener[d] = "done" => s.opener[d] = "done")
      BY <1>c, <1>d, <1>1, <1>2, <2>4, <2>5 DEF Live, Known, Fresh, Still, Heard, Agree
    <3> QED BY <1>c, <1>d, <1>1, <1>2, <2>4, <2>5, <3>1, <3>2, <3>3 DEF Known, Credit
  <2>10. Agree(t, d) BY <1>c, <1>d, <1>1, <1>2, <2>4, <2>5 DEF Known, Agree, Fresh, Still, Heard
  <2>11. Owed(t, d, 0) BY <1>c, <1>d, <1>1, <1>2, <2>4, <2>5 DEF Known, Owed
  <2>12. TunnelSlotInv(t) BY <1>b, <2>4, SlotTaken DEF opener1, slots1
  <2>13. RoomInv(t) BY <1>b, <2>4 DEF RoomInv, roomFor
  <2> QED BY <1>b, <2>3, <2>4, <2>6, <2>7, <2>8, <2>9, <2>10, <2>11, <2>12, <2>13, TunnelKept
<1> QED BY <1>s

LEMMA OpenHasToWait ==
    ASSUME NEW s, NEW d \in TunnelConn, TunnelOK(s, d, 0),
           s.over = FALSE, s.opener[d] = "none", ~(s.slots < MaxConnections)
    PROVE  \A t : t = [s EXCEPT !.opener = [s.opener EXCEPT ![d] = "waiting"], !.waiters = Append(s.waiters, d)] => TunnelOK(t, d, 0)
<1>b. s \in TunnelType /\ s.accused = {} /\ TunnelSlotInv(s) /\ RoomInv(s) /\ \A c \in TunnelConn : ConnInv(s, c) /\ Owed(s, c, IF c = d THEN 0 ELSE 0)
  BY DEF TunnelOK
<1>c. Fresh(s, d) /\ Heard(s, d) /\ Credit(s, d) /\ Agree(s, d) /\ Owed(s, d, 0) BY <1>b DEF ConnInv
<1>d. Known(s, d) BY <1>b, WhatIsKnown
<1>w. s.up \in Seq(UpFrame) /\ s.down \in Seq(DownFrame) BY <1>b DEF TunnelType
<1>e. s.over \in BOOLEAN /\ s.late \in BOOLEAN BY <1>b DEF TunnelType
<1>s. ASSUME NEW t, t = [s EXCEPT !.opener = [s.opener EXCEPT ![d] = "waiting"], !.waiters = Append(s.waiters, d)]
      PROVE  TunnelOK(t, d, 0)
  <2> DEFINE opener1 == [s.opener EXCEPT ![d] = "waiting"]
             waiters1 == Append(s.waiters, d)
  <2>1. /\ opener1 \in [TunnelConn -> OpenerState] /\ waiters1 \in Seq(TunnelConn)
    <3>1. opener1 \in [TunnelConn -> OpenerState] BY <1>b, <1>d DEF TunnelType, Known, OpenerState
    <3>2. waiters1 \in Seq(TunnelConn) BY <1>b, <1>d DEF TunnelType, Known
    <3> QED BY <3>1, <3>2
  <2>2. t = [s EXCEPT !.opener = opener1, !.waiters = waiters1] BY <1>s
  <2> HIDE DEF opener1, waiters1
  <2>3. t \in TunnelType BY <2>2, <2>1, <1>b, ZenonT(60) DEF TunnelType
  <2>4. /\ t.up = s.up /\ t.down = s.down /\ t.ready = s.ready /\ t.over = s.over /\ t.aborted = s.aborted
        /\ t.late = s.late /\ t.opener = opener1 /\ t.waiters = waiters1 /\ t.slots = s.slots
        /\ t.sockets = s.sockets /\ t.destroyed = s.destroyed /\ t.remoteClosed = s.remoteClosed
        /\ t.acking = s.acking /\ t.ended = s.ended /\ t.remoteEnded = s.remoteEnded
        /\ t.backpressured = s.backpressured /\ t.sendCredit = s.sendCredit /\ t.recvCredit = s.recvCredit
        /\ t.withheld = s.withheld /\ t.pending = s.pending /\ t.buffer = s.buffer /\ t.writing = s.writing
        /\ t.unwritten = s.unwritten /\ t.unread = s.unread /\ t.conns = s.conns
        /\ t.connected = s.connected /\ t.nodeDestroyed = s.nodeDestroyed /\ t.outCredit = s.outCredit
        /\ t.inCredit = s.inCredit /\ t.input = s.input /\ t.chunk = s.chunk /\ t.accused = s.accused
        /\ t.refused = s.refused
    BY <2>2, <1>b DEF TunnelType
  <2>5. opener1[d] = "waiting" /\ \A c \in TunnelConn : c # d => opener1[c] = s.opener[c]
    BY <1>b DEF opener1, TunnelType
  <2>6. ASSUME NEW c \in TunnelConn, c # d PROVE Same(s, t, c)
    <3>1. SameWire(s.up, t.up, c) /\ SameWire(s.down, t.down, c) BY <2>6, <2>4, <2>5 DEF SameWire
    <3> QED BY <2>6, <3>1, <2>4, <2>5 DEF Same
  <2>7. Fresh(t, d) BY <1>c, <1>d, <2>4, <2>5 DEF Known, Fresh, Still, Heard, Agree
  <2>8. Heard(t, d) BY <1>c, <1>d, <2>4, <2>5 DEF Known, Heard, Fresh, Still, Agree
  <2>9. Credit(t, d)
    <3>1. fromNode(t, d) = fromNode(s, d) /\ fromNode(s, d) \in Nat
      BY <1>d, <2>4, <2>5 DEF Known, fromNode
    <3>2. fromClient(t, d) = fromClient(s, d) /\ fromClient(s, d) \in Nat
      BY <1>d, <2>4, <2>5 DEF Known, fromClient
    <3>3. Live(t, d) => Live(s, d) /\ (t.opener[d] = "done" => s.opener[d] = "done")
      BY <1>c, <1>d, <2>4, <2>5 DEF Live, Known, Fresh, Still, Heard, Agree
    <3> QED BY <1>c, <1>d, <2>4, <2>5, <3>1, <3>2, <3>3 DEF Known, Credit
  <2>10. Agree(t, d) BY <1>c, <1>d, <2>4, <2>5 DEF Known, Agree, Fresh, Still, Heard
  <2>11. Owed(t, d, 0) BY <1>c, <1>d, <2>4, <2>5 DEF Known, Owed
  <2>12. TunnelSlotInv(t) BY <1>b, <2>4, SlotAwaited DEF opener1, waiters1
  <2>13. RoomInv(t) BY <1>b, <2>4 DEF RoomInv, roomFor
  <2> QED BY <1>b, <2>3, <2>4, <2>6, <2>7, <2>8, <2>9, <2>10, <2>11, <2>12, <2>13, TunnelKept
<1> QED BY <1>s

\* With a slot, the socket is made.
LEMMA MadeTooLate ==
    ASSUME NEW s, NEW d \in TunnelConn, TunnelOK(s, d, 0),
           s.over = TRUE, s.opener[d] = "granted"
    PROVE  \A t : t = [s EXCEPT !.opener = [s.opener EXCEPT ![d] = "failed"], !.slots = s.slots - 1] => TunnelOK(t, d, 0)
<1>b. s \in TunnelType /\ s.accused = {} /\ TunnelSlotInv(s) /\ RoomInv(s) /\ \A c \in TunnelConn : ConnInv(s, c) /\ Owed(s, c, IF c = d THEN 0 ELSE 0)
  BY DEF TunnelOK
<1>c. Fresh(s, d) /\ Heard(s, d) /\ Credit(s, d) /\ Agree(s, d) /\ Owed(s, d, 0) BY <1>b DEF ConnInv
<1>d. Known(s, d) BY <1>b, WhatIsKnown
<1>w. s.up \in Seq(UpFrame) /\ s.down \in Seq(DownFrame) BY <1>b DEF TunnelType
<1>e. s.over \in BOOLEAN /\ s.late \in BOOLEAN BY <1>b DEF TunnelType
<1>s. ASSUME NEW t, t = [s EXCEPT !.opener = [s.opener EXCEPT ![d] = "failed"], !.slots = s.slots - 1]
      PROVE  TunnelOK(t, d, 0)
  <2> DEFINE opener1 == [s.opener EXCEPT ![d] = "failed"]
             slots1 == s.slots - 1
  <2>1. /\ opener1 \in [TunnelConn -> OpenerState] /\ slots1 \in 0..MaxConnections
    <3>1. opener1 \in [TunnelConn -> OpenerState] BY <1>b, <1>d DEF TunnelType, Known, OpenerState
    <3>2. slots1 \in 0..MaxConnections BY <1>b, <1>d, SlotsInUse DEF TunnelType, Known
    <3> QED BY <3>1, <3>2
  <2>2. t = [s EXCEPT !.opener = opener1, !.slots = slots1] BY <1>s
  <2> HIDE DEF opener1, slots1
  <2>3. t \in TunnelType BY <2>2, <2>1, <1>b, ZenonT(60) DEF TunnelType
  <2>4. /\ t.up = s.up /\ t.down = s.down /\ t.ready = s.ready /\ t.over = s.over /\ t.aborted = s.aborted
        /\ t.late = s.late /\ t.opener = opener1 /\ t.waiters = s.waiters /\ t.slots = slots1
        /\ t.sockets = s.sockets /\ t.destroyed = s.destroyed /\ t.remoteClosed = s.remoteClosed
        /\ t.acking = s.acking /\ t.ended = s.ended /\ t.remoteEnded = s.remoteEnded
        /\ t.backpressured = s.backpressured /\ t.sendCredit = s.sendCredit /\ t.recvCredit = s.recvCredit
        /\ t.withheld = s.withheld /\ t.pending = s.pending /\ t.buffer = s.buffer /\ t.writing = s.writing
        /\ t.unwritten = s.unwritten /\ t.unread = s.unread /\ t.conns = s.conns
        /\ t.connected = s.connected /\ t.nodeDestroyed = s.nodeDestroyed /\ t.outCredit = s.outCredit
        /\ t.inCredit = s.inCredit /\ t.input = s.input /\ t.chunk = s.chunk /\ t.accused = s.accused
        /\ t.refused = s.refused
    BY <2>2, <1>b DEF TunnelType
  <2>5. opener1[d] = "failed" /\ \A c \in TunnelConn : c # d => opener1[c] = s.opener[c]
    BY <1>b DEF opener1, TunnelType
  <2>6. ASSUME NEW c \in TunnelConn, c # d PROVE Same(s, t, c)
    <3>1. SameWire(s.up, t.up, c) /\ SameWire(s.down, t.down, c) BY <2>6, <2>4, <2>5 DEF SameWire
    <3> QED BY <2>6, <3>1, <2>4, <2>5 DEF Same
  <2>7. Fresh(t, d) BY <1>c, <1>d, <2>4, <2>5 DEF Known, Fresh, Still, Heard, Agree
  <2>8. Heard(t, d) BY <1>c, <1>d, <2>4, <2>5 DEF Known, Heard, Fresh, Still, Agree
  <2>9. Credit(t, d)
    <3>1. fromNode(t, d) = fromNode(s, d) /\ fromNode(s, d) \in Nat
      BY <1>d, <2>4, <2>5 DEF Known, fromNode
    <3>2. fromClient(t, d) = fromClient(s, d) /\ fromClient(s, d) \in Nat
      BY <1>d, <2>4, <2>5 DEF Known, fromClient
    <3>3. Live(t, d) => Live(s, d) /\ (t.opener[d] = "done" => s.opener[d] = "done")
      BY <1>c, <1>d, <2>4, <2>5 DEF Live, Known, Fresh, Still, Heard, Agree
    <3> QED BY <1>c, <1>d, <2>4, <2>5, <3>1, <3>2, <3>3 DEF Known, Credit
  <2>10. Agree(t, d) BY <1>c, <1>d, <2>4, <2>5 DEF Known, Agree, Fresh, Still, Heard
  <2>11. Owed(t, d, 0) BY <1>c, <1>d, <2>4, <2>5 DEF Known, Owed
  <2>12. TunnelSlotInv(t) BY <1>b, <2>4, SlotUnused DEF opener1, slots1
  <2>13. RoomInv(t) BY <1>b, <2>4 DEF RoomInv, roomFor
  <2> QED BY <1>b, <2>3, <2>4, <2>6, <2>7, <2>8, <2>9, <2>10, <2>11, <2>12, <2>13, TunnelKept
<1> QED BY <1>s

LEMMA SocketMadeHolds ==
    ASSUME NEW s, NEW d \in TunnelConn, TunnelOK(s, d, 0),
           s.over = FALSE, s.opener[d] = "granted"
    PROVE  \A t : t = [s EXCEPT !.up = Append(s.up, frame("open", d, 0)), !.sockets = s.sockets \cup {d},
                           !.opener = [s.opener EXCEPT ![d] = "opening"],
                           !.recvCredit = [s.recvCredit EXCEPT ![d] = TunnelWindow]] => TunnelOK(t, d, 0)
<1>b. s \in TunnelType /\ s.accused = {} /\ TunnelSlotInv(s) /\ RoomInv(s) /\ \A c \in TunnelConn : ConnInv(s, c) /\ Owed(s, c, IF c = d THEN 0 ELSE 0)
  BY DEF TunnelOK
<1>c. Fresh(s, d) /\ Heard(s, d) /\ Credit(s, d) /\ Agree(s, d) /\ Owed(s, d, 0) BY <1>b DEF ConnInv
<1>d. Known(s, d) BY <1>b, WhatIsKnown
<1>w. s.up \in Seq(UpFrame) /\ s.down \in Seq(DownFrame) BY <1>b DEF TunnelType
<1>e. s.over \in BOOLEAN /\ s.late \in BOOLEAN BY <1>b DEF TunnelType
<1>1. Still(s, d) /\ ~mentions(s.up, d) /\ d \notin s.destroyed /\ d \notin s.remoteClosed
  BY <1>c DEF Fresh
<1>2. d \notin s.conns /\ ~mentions(s.down, d) /\ s.outCredit[d] = 0 /\ s.sendCredit[d] = 0 /\ s.withheld[d] = 0
  BY <1>1 DEF Still
<1>3. total(s.pending[d]) = 0 BY <1>1, <1>b, EmptyTotals DEF Still
<1>4. inFrames(s.up, "data", d) = 0 /\ inFrames(s.up, "credit", d) = 0 /\ inFrames(s.down, "data", d) = 0 /\ inFrames(s.down, "credit", d) = 0
  BY <1>1, <1>2, <1>d DEF Known
<1>s. ASSUME NEW t, t = [s EXCEPT !.up = Append(s.up, frame("open", d, 0)), !.sockets = s.sockets \cup {d},
                             !.opener = [s.opener EXCEPT ![d] = "opening"],
                             !.recvCredit = [s.recvCredit EXCEPT ![d] = TunnelWindow]]
      PROVE  TunnelOK(t, d, 0)
  <2> DEFINE up1 == Append(s.up, frame("open", d, 0))
             sockets1 == s.sockets \cup {d}
             opener1 == [s.opener EXCEPT ![d] = "opening"]
             recvCredit1 == [s.recvCredit EXCEPT ![d] = TunnelWindow]
  <2>1. /\ up1 \in Seq(UpFrame) /\ sockets1 \in SUBSET TunnelConn
        /\ opener1 \in [TunnelConn -> OpenerState] /\ recvCredit1 \in [TunnelConn -> 0..TunnelWindow]
    <3>1. up1 \in Seq(UpFrame)
      <4>1. frame("open", d, 0) \in UpFrame BY <1>d, <1>1, <1>2, <1>3, <1>4, Frames DEF Known
      <4> QED BY <1>w, <4>1
    <3>2. sockets1 \in SUBSET TunnelConn BY <1>b, <1>d, <1>1, <1>2, <1>3, <1>4 DEF TunnelType, Known
    <3>3. opener1 \in [TunnelConn -> OpenerState]
      BY <1>b, <1>d, <1>1, <1>2, <1>3, <1>4 DEF TunnelType, Known, OpenerState
    <3>4. recvCredit1 \in [TunnelConn -> 0..TunnelWindow]
      BY <1>b, <1>d, <1>1, <1>2, <1>3, <1>4 DEF TunnelType, Known
    <3> QED BY <3>1, <3>2, <3>3, <3>4
  <2>2. t = [s EXCEPT !.up = up1, !.sockets = sockets1, !.opener = opener1, !.recvCredit = recvCredit1]
    BY <1>s
  <2> HIDE DEF up1, sockets1, opener1, recvCredit1
  <2>3. t \in TunnelType BY <2>2, <2>1, <1>b, ZenonT(60) DEF TunnelType
  <2>4. /\ t.up = up1 /\ t.down = s.down /\ t.ready = s.ready /\ t.over = s.over /\ t.aborted = s.aborted
        /\ t.late = s.late /\ t.opener = opener1 /\ t.waiters = s.waiters /\ t.slots = s.slots
        /\ t.sockets = sockets1 /\ t.destroyed = s.destroyed /\ t.remoteClosed = s.remoteClosed
        /\ t.acking = s.acking /\ t.ended = s.ended /\ t.remoteEnded = s.remoteEnded
        /\ t.backpressured = s.backpressured /\ t.sendCredit = s.sendCredit /\ t.recvCredit = recvCredit1
        /\ t.withheld = s.withheld /\ t.pending = s.pending /\ t.buffer = s.buffer /\ t.writing = s.writing
        /\ t.unwritten = s.unwritten /\ t.unread = s.unread /\ t.conns = s.conns
        /\ t.connected = s.connected /\ t.nodeDestroyed = s.nodeDestroyed /\ t.outCredit = s.outCredit
        /\ t.inCredit = s.inCredit /\ t.input = s.input /\ t.chunk = s.chunk /\ t.accused = s.accused
        /\ t.refused = s.refused
    BY <2>2, <1>b DEF TunnelType
  <2>5. d \in sockets1 /\ \A c : c # d => (c \in sockets1 <=> c \in s.sockets) BY DEF sockets1
  <2>6. opener1[d] = "opening" /\ \A c \in TunnelConn : c # d => opener1[c] = s.opener[c]
    BY <1>b DEF opener1, TunnelType
  <2>7. recvCredit1[d] = TunnelWindow /\ \A c \in TunnelConn : c # d => recvCredit1[c] = s.recvCredit[c]
    BY <1>b DEF recvCredit1, TunnelType
  <2>8. SentUp(s.up, up1, "open", d, 0)
    <3>1. frame("open", d, 0) \in UpFrame BY <1>d, <1>1, <1>2, <1>3, <1>4, Frames DEF Known
    <3> QED BY <1>w, <3>1, UpSent DEF up1
  <2>9. ASSUME NEW c \in TunnelConn, c # d PROVE Same(s, t, c)
    <3>1. SameWire(s.up, t.up, c) /\ SameWire(s.down, t.down, c)
      BY <2>9, <2>4, <2>5, <2>6, <2>7, <2>8 DEF SameWire, SentUp
    <3> QED BY <2>9, <3>1, <2>4, <2>5, <2>6, <2>7, <2>8 DEF Same
  <2>10. Fresh(t, d)
    BY <1>c, <1>d, <1>1, <1>2, <1>3, <1>4, <2>4, <2>5, <2>6, <2>7, <2>8 DEF Known, SentUp, Fresh, Still, Heard, Agree
  <2>11. Heard(t, d)
    BY <1>c, <1>d, <1>1, <1>2, <1>3, <1>4, <2>4, <2>5, <2>6, <2>7, <2>8 DEF Known, SentUp, Heard, Fresh, Still, Agree
  <2>12. Credit(t, d)
    <3>1. fromNode(t, d) = 0 /\ fromNode(s, d) \in Nat
      BY <1>d, <1>1, <1>2, <1>3, <1>4, <2>4, <2>5, <2>6, <2>7, <2>8 DEF Known, SentUp, fromNode
    <3>2. fromClient(t, d) = fromClient(s, d) /\ fromClient(s, d) \in Nat
      BY <1>d, <1>1, <1>2, <1>3, <1>4, <2>4, <2>5, <2>6, <2>7, <2>8 DEF Known, SentUp, fromClient
    <3>3. ~Live(t, d)
      BY <1>c, <1>d, <1>1, <1>2, <1>3, <1>4, <2>4, <2>5, <2>6, <2>7, <2>8 DEF Live, Known, SentUp, Fresh, Still, Heard, Agree
    <3> QED BY <1>c, <1>d, <1>1, <1>2, <1>3, <1>4, <2>4, <2>5, <2>6, <2>7, <2>8, <3>1, <3>2, <3>3 DEF Known, Credit
  <2>13. Agree(t, d)
    BY <1>c, <1>d, <1>1, <1>2, <1>3, <1>4, <2>4, <2>5, <2>6, <2>7, <2>8 DEF Known, SentUp, Agree, Fresh, Still, Heard
  <2>14. Owed(t, d, 0)
    BY <1>c, <1>d, <1>1, <1>2, <1>3, <1>4, <2>4, <2>5, <2>6, <2>7, <2>8 DEF Known, SentUp, Owed
  <2>15. TunnelSlotInv(t) BY <1>b, <2>4, SlotUsed DEF opener1, sockets1
  <2>16. RoomInv(t)
    <3>1. t.late \/ roomFor(s) \subseteq s.sockets BY <1>b, <1>e, <2>4 DEF RoomInv
    <3>2. \A c \in TunnelConn : c # d /\ onWire(t.up, "open", c) => onWire(s.up, "open", c)
      BY <2>4, <2>5, <2>6, <2>7, <2>8 DEF SentUp, SameWire
    <3>3. t.late \/ roomFor(t) \subseteq t.sockets
      BY <3>1, <3>2, <2>4, <2>5, <2>6, <2>7, <2>8 DEF roomFor
    <3> QED BY <1>b, <3>3, <2>4, <2>3, <2>15, RoomForSockets
  <2> QED BY <1>b, <2>3, <2>4, <2>9, <2>10, <2>11, <2>12, <2>13, <2>14, <2>15, <2>16, TunnelKept
<1> QED BY <1>s

\* A socket is detached when the timer fires, or when the node has confirmed.
LEMMA AckTimerHolds ==
    ASSUME NEW s, NEW d \in TunnelConn, TunnelOK(s, d, 0),
           d \in s.acking, NEW o, NEW q, NEW k, Released(s, d, o, q, k), o[d] = "done" => s.opener[d] = "done"
    PROVE  \A t : t = [s EXCEPT !.sockets = s.sockets \ {d}, !.slots = k, !.waiters = q, !.opener = o,
                           !.acking = s.acking \ {d}, !.late = TRUE] => TunnelOK(t, d, 0)
<1>b. s \in TunnelType /\ s.accused = {} /\ TunnelSlotInv(s) /\ RoomInv(s) /\ \A c \in TunnelConn : ConnInv(s, c) /\ Owed(s, c, IF c = d THEN 0 ELSE 0)
  BY DEF TunnelOK
<1>c. Fresh(s, d) /\ Heard(s, d) /\ Credit(s, d) /\ Agree(s, d) /\ Owed(s, d, 0) BY <1>b DEF ConnInv
<1>d. Known(s, d) BY <1>b, WhatIsKnown
<1>w. s.up \in Seq(UpFrame) /\ s.down \in Seq(DownFrame) BY <1>b DEF TunnelType
<1>e. s.over \in BOOLEAN /\ s.late \in BOOLEAN BY <1>b DEF TunnelType
<1>1. k \in 0..MaxConnections /\ q \in WaitQueue /\ d \in s.sockets /\ o \in [TunnelConn -> OpenerState] /\ o[d] \in {"failed", "done", "opening"}
  BY <1>b, SlotGone DEF Released
<1>2. \A c \in TunnelConn : c # d => (o[c] \in {"none", "waiting", "granted"} => s.opener[c] \in {"none", "waiting", "granted"})
  BY <1>b, SlotGone
<1>3. \A c \in TunnelConn : c # d => (o[c] = "done" <=> s.opener[c] = "done") BY <1>b, SlotGone
<1>4. s.over = FALSE BY <1>b, <1>1, <1>e DEF TunnelSlotInv
<1>s. ASSUME NEW t, t = [s EXCEPT !.sockets = s.sockets \ {d}, !.slots = k, !.waiters = q, !.opener = o,
                             !.acking = s.acking \ {d}, !.late = TRUE]
      PROVE  TunnelOK(t, d, 0)
  <2> DEFINE sockets1 == s.sockets \ {d}
             acking1 == s.acking \ {d}
  <2>1. /\ sockets1 \in SUBSET TunnelConn /\ k \in 0..MaxConnections /\ q \in Seq(TunnelConn)
        /\ o \in [TunnelConn -> OpenerState] /\ acking1 \in SUBSET TunnelConn
    <3>1. sockets1 \in SUBSET TunnelConn BY <1>b, <1>d, <1>1, <1>2, <1>3, <1>4 DEF TunnelType, Known
    <3>2. k \in 0..MaxConnections BY <1>b, <1>d, <1>1, <1>2, <1>3, <1>4 DEF TunnelType, Known
    <3>3. q \in Seq(TunnelConn)
      BY <1>b, <1>d, <1>1, <1>2, <1>3, <1>4 DEF TunnelType, Known, WaitQueue
    <3>4. o \in [TunnelConn -> OpenerState]
      BY <1>b, <1>d, <1>1, <1>2, <1>3, <1>4 DEF TunnelType, Known, OpenerState
    <3>5. acking1 \in SUBSET TunnelConn BY <1>b, <1>d, <1>1, <1>2, <1>3, <1>4 DEF TunnelType, Known
    <3> QED BY <3>1, <3>2, <3>3, <3>4, <3>5
  <2>2. t = [s EXCEPT !.sockets = sockets1, !.slots = k, !.waiters = q, !.opener = o, !.acking = acking1,
                   !.late = TRUE]
    BY <1>s
  <2> HIDE DEF sockets1, acking1
  <2>3. t \in TunnelType BY <2>2, <2>1, <1>b, ZenonT(60) DEF TunnelType
  <2>4. /\ t.up = s.up /\ t.down = s.down /\ t.ready = s.ready /\ t.over = s.over /\ t.aborted = s.aborted
        /\ t.late = TRUE /\ t.opener = o /\ t.waiters = q /\ t.slots = k /\ t.sockets = sockets1
        /\ t.destroyed = s.destroyed /\ t.remoteClosed = s.remoteClosed /\ t.acking = acking1
        /\ t.ended = s.ended /\ t.remoteEnded = s.remoteEnded /\ t.backpressured = s.backpressured
        /\ t.sendCredit = s.sendCredit /\ t.recvCredit = s.recvCredit /\ t.withheld = s.withheld
        /\ t.pending = s.pending /\ t.buffer = s.buffer /\ t.writing = s.writing
        /\ t.unwritten = s.unwritten /\ t.unread = s.unread /\ t.conns = s.conns
        /\ t.connected = s.connected /\ t.nodeDestroyed = s.nodeDestroyed /\ t.outCredit = s.outCredit
        /\ t.inCredit = s.inCredit /\ t.input = s.input /\ t.chunk = s.chunk /\ t.accused = s.accused
        /\ t.refused = s.refused
    BY <2>2, <1>b DEF TunnelType
  <2>5. d \notin sockets1 /\ \A c : c # d => (c \in sockets1 <=> c \in s.sockets) BY DEF sockets1
  <2>6. d \notin acking1 /\ \A c : c # d => (c \in acking1 <=> c \in s.acking) BY DEF acking1
  <2>7. ASSUME NEW c \in TunnelConn, c # d PROVE Same(s, t, c)
    <3>1. SameWire(s.up, t.up, c) /\ SameWire(s.down, t.down, c)
      BY <2>7, <2>4, <2>5, <2>6 DEF SameWire
    <3> QED BY <2>7, <3>1, <2>4, <2>5, <2>6, <1>2, <1>3 DEF Same
  <2>8. Fresh(t, d)
    BY <1>c, <1>d, <1>1, <1>2, <1>3, <1>4, <2>4, <2>5, <2>6 DEF Known, Fresh, Still, Heard, Agree
  <2>9. Heard(t, d)
    BY <1>c, <1>d, <1>1, <1>2, <1>3, <1>4, <2>4, <2>5, <2>6 DEF Known, Heard, Fresh, Still, Agree
  <2>10. Credit(t, d)
    <3>1. fromNode(t, d) = fromNode(s, d) /\ fromNode(s, d) \in Nat
      BY <1>d, <1>1, <1>2, <1>3, <1>4, <2>4, <2>5, <2>6 DEF Known, fromNode
    <3>2. fromClient(t, d) = fromClient(s, d) /\ fromClient(s, d) \in Nat
      BY <1>d, <1>1, <1>2, <1>3, <1>4, <2>4, <2>5, <2>6 DEF Known, fromClient
    <3>3. ~Live(t, d)
      BY <1>c, <1>d, <1>1, <1>2, <1>3, <1>4, <2>4, <2>5, <2>6 DEF Live, Known, Fresh, Still, Heard, Agree
    <3> QED BY <1>c, <1>d, <1>1, <1>2, <1>3, <1>4, <2>4, <2>5, <2>6, <3>1, <3>2, <3>3 DEF Known, Credit
  <2>11. Agree(t, d)
    BY <1>c, <1>d, <1>1, <1>2, <1>3, <1>4, <2>4, <2>5, <2>6 DEF Known, Agree, Fresh, Still, Heard
  <2>12. Owed(t, d, 0) BY <1>c, <1>d, <1>1, <1>2, <1>3, <1>4, <2>4, <2>5, <2>6 DEF Known, Owed
  <2>13. TunnelSlotInv(t) BY <1>b, <2>4, SlotGone DEF sockets1
  <2>14. RoomInv(t)
    <3>1. \A c \in TunnelConn : (onWire(t.up, "open", c) => onWire(s.up, "open", c)) /\ (c \in t.conns => c \in s.conns)
      BY <2>4
    <3>2. s.conns \subseteq TunnelConn /\ t.conns \subseteq TunnelConn /\ t.late \in BOOLEAN /\ t.over \in BOOLEAN
      BY <1>b, <2>3 DEF TunnelType
    <3>3. roomFor(t) \subseteq roomFor(s) BY <3>1, <3>2 DEF roomFor
    <3> QED BY <1>b, <1>e, <3>2, <3>3, <2>4, RoomKept
  <2> QED BY <1>b, <2>3, <2>4, <2>7, <2>8, <2>9, <2>10, <2>11, <2>12, <2>13, <2>14, TunnelKept
<1> QED BY <1>s

LEMMA ClosedArrives ==
    ASSUME NEW s, NEW d \in TunnelConn, TunnelOK(s, d, 0),
           NEW f, NEW rest \in DownWires, TakenDown(s.down, rest, f, d), f.type = "closed", NEW o, NEW q, NEW k,
           Released(s, d, o, q, k), o[d] = "done" => s.opener[d] = "done"
    PROVE  \A t : t = [s EXCEPT !.down = rest, !.sockets = s.sockets \ {d}, !.slots = k, !.waiters = q, !.opener = o,
                           !.acking = s.acking \ {d}, !.remoteClosed = s.remoteClosed \cup {d},
                           !.destroyed = s.destroyed \cup {d}] => TunnelOK(t, d, 0)
<1>b. s \in TunnelType /\ s.accused = {} /\ TunnelSlotInv(s) /\ RoomInv(s) /\ \A c \in TunnelConn : ConnInv(s, c) /\ Owed(s, c, IF c = d THEN 0 ELSE 0)
  BY DEF TunnelOK
<1>c. Fresh(s, d) /\ Heard(s, d) /\ Credit(s, d) /\ Agree(s, d) /\ Owed(s, d, 0) BY <1>b DEF ConnInv
<1>d. Known(s, d) BY <1>b, WhatIsKnown
<1>w. s.up \in Seq(UpFrame) /\ s.down \in Seq(DownFrame) BY <1>b DEF TunnelType
<1>e. s.over \in BOOLEAN /\ s.late \in BOOLEAN BY <1>b DEF TunnelType
<1>1. k \in 0..MaxConnections /\ q \in WaitQueue /\ d \in s.sockets /\ o \in [TunnelConn -> OpenerState] /\ o[d] \in {"failed", "done", "opening"}
  BY <1>b, SlotGone DEF Released
<1>2. \A c \in TunnelConn : c # d => (o[c] \in {"none", "waiting", "granted"} => s.opener[c] \in {"none", "waiting", "granted"})
  BY <1>b, SlotGone
<1>3. \A c \in TunnelConn : c # d => (o[c] = "done" <=> s.opener[c] = "done") BY <1>b, SlotGone
<1>4. s.over = FALSE BY <1>b, <1>1, <1>e DEF TunnelSlotInv
<1>s. ASSUME NEW t, t = [s EXCEPT !.down = rest, !.sockets = s.sockets \ {d}, !.slots = k, !.waiters = q, !.opener = o,
                             !.acking = s.acking \ {d}, !.remoteClosed = s.remoteClosed \cup {d},
                             !.destroyed = s.destroyed \cup {d}]
      PROVE  TunnelOK(t, d, 0)
  <2> DEFINE sockets1 == s.sockets \ {d}
             acking1 == s.acking \ {d}
             remoteClosed1 == s.remoteClosed \cup {d}
             destroyed1 == s.destroyed \cup {d}
  <2>1. /\ rest \in Seq(DownFrame) /\ sockets1 \in SUBSET TunnelConn /\ k \in 0..MaxConnections
        /\ q \in Seq(TunnelConn) /\ o \in [TunnelConn -> OpenerState] /\ acking1 \in SUBSET TunnelConn
        /\ remoteClosed1 \in SUBSET TunnelConn /\ destroyed1 \in SUBSET TunnelConn
    <3>1. rest \in Seq(DownFrame) BY DEF DownWires
    <3>2. sockets1 \in SUBSET TunnelConn
      BY <1>b, <1>d, <1>1, <1>2, <1>3, <1>4 DEF TunnelType, Known, TakenDown
    <3>3. k \in 0..MaxConnections
      BY <1>b, <1>d, <1>1, <1>2, <1>3, <1>4 DEF TunnelType, Known, TakenDown
    <3>4. q \in Seq(TunnelConn)
      BY <1>b, <1>d, <1>1, <1>2, <1>3, <1>4 DEF TunnelType, Known, TakenDown, WaitQueue
    <3>5. o \in [TunnelConn -> OpenerState]
      BY <1>b, <1>d, <1>1, <1>2, <1>3, <1>4 DEF TunnelType, Known, TakenDown, OpenerState
    <3>6. acking1 \in SUBSET TunnelConn
      BY <1>b, <1>d, <1>1, <1>2, <1>3, <1>4 DEF TunnelType, Known, TakenDown
    <3>7. remoteClosed1 \in SUBSET TunnelConn
      BY <1>b, <1>d, <1>1, <1>2, <1>3, <1>4 DEF TunnelType, Known, TakenDown
    <3>8. destroyed1 \in SUBSET TunnelConn
      BY <1>b, <1>d, <1>1, <1>2, <1>3, <1>4 DEF TunnelType, Known, TakenDown
    <3> QED BY <3>1, <3>2, <3>3, <3>4, <3>5, <3>6, <3>7, <3>8
  <2>2. t = [s EXCEPT !.down = rest, !.sockets = sockets1, !.slots = k, !.waiters = q, !.opener = o,
                   !.acking = acking1, !.remoteClosed = remoteClosed1, !.destroyed = destroyed1]
    BY <1>s
  <2> HIDE DEF sockets1, acking1, remoteClosed1, destroyed1
  <2>3. t \in TunnelType BY <2>2, <2>1, <1>b, ZenonT(60) DEF TunnelType
  <2>4. /\ t.up = s.up /\ t.down = rest /\ t.ready = s.ready /\ t.over = s.over /\ t.aborted = s.aborted
        /\ t.late = s.late /\ t.opener = o /\ t.waiters = q /\ t.slots = k /\ t.sockets = sockets1
        /\ t.destroyed = destroyed1 /\ t.remoteClosed = remoteClosed1 /\ t.acking = acking1
        /\ t.ended = s.ended /\ t.remoteEnded = s.remoteEnded /\ t.backpressured = s.backpressured
        /\ t.sendCredit = s.sendCredit /\ t.recvCredit = s.recvCredit /\ t.withheld = s.withheld
        /\ t.pending = s.pending /\ t.buffer = s.buffer /\ t.writing = s.writing
        /\ t.unwritten = s.unwritten /\ t.unread = s.unread /\ t.conns = s.conns
        /\ t.connected = s.connected /\ t.nodeDestroyed = s.nodeDestroyed /\ t.outCredit = s.outCredit
        /\ t.inCredit = s.inCredit /\ t.input = s.input /\ t.chunk = s.chunk /\ t.accused = s.accused
        /\ t.refused = s.refused
    BY <2>2, <1>b DEF TunnelType
  <2>5. d \notin sockets1 /\ \A c : c # d => (c \in sockets1 <=> c \in s.sockets) BY DEF sockets1
  <2>6. d \notin acking1 /\ \A c : c # d => (c \in acking1 <=> c \in s.acking) BY DEF acking1
  <2>7. d \in remoteClosed1 /\ \A c : c # d => (c \in remoteClosed1 <=> c \in s.remoteClosed)
    BY DEF remoteClosed1
  <2>8. d \in destroyed1 /\ \A c : c # d => (c \in destroyed1 <=> c \in s.destroyed)
    BY DEF destroyed1
  <2>9. ASSUME NEW c \in TunnelConn, c # d PROVE Same(s, t, c)
    <3>1. SameWire(s.up, t.up, c) /\ SameWire(s.down, t.down, c)
      BY <2>9, <2>4, <2>5, <2>6, <2>7, <2>8 DEF SameWire, TakenDown
    <3> QED BY <2>9, <3>1, <2>4, <2>5, <2>6, <2>7, <2>8, <1>2, <1>3 DEF Same
  <2>10. Fresh(t, d)
    BY <1>c, <1>d, <1>1, <1>2, <1>3, <1>4, <2>4, <2>5, <2>6, <2>7, <2>8 DEF Known, TakenDown, Fresh, Still, Heard, Agree
  <2>11. Heard(t, d)
    BY <1>c, <1>d, <1>1, <1>2, <1>3, <1>4, <2>4, <2>5, <2>6, <2>7, <2>8 DEF Known, TakenDown, Heard, Fresh, Still, Agree
  <2>12. Credit(t, d)
    <3>1. fromNode(t, d) = fromNode(s, d) /\ fromNode(s, d) \in Nat
      BY <1>d, <1>1, <1>2, <1>3, <1>4, <2>4, <2>5, <2>6, <2>7, <2>8 DEF Known, TakenDown, fromNode
    <3>2. fromClient(t, d) = fromClient(s, d) /\ fromClient(s, d) \in Nat
      BY <1>d, <1>1, <1>2, <1>3, <1>4, <2>4, <2>5, <2>6, <2>7, <2>8 DEF Known, TakenDown, fromClient
    <3>3. ~Live(t, d)
      BY <1>c, <1>d, <1>1, <1>2, <1>3, <1>4, <2>4, <2>5, <2>6, <2>7, <2>8 DEF Live, Known, TakenDown, Fresh, Still, Heard, Agree
    <3> QED BY <1>c, <1>d, <1>1, <1>2, <1>3, <1>4, <2>4, <2>5, <2>6, <2>7, <2>8, <3>1, <3>2, <3>3 DEF Known, TakenDown, Credit
  <2>13. Agree(t, d)
    BY <1>c, <1>d, <1>1, <1>2, <1>3, <1>4, <2>4, <2>5, <2>6, <2>7, <2>8 DEF Known, TakenDown, Agree, Fresh, Still, Heard
  <2>14. Owed(t, d, 0)
    BY <1>c, <1>d, <1>1, <1>2, <1>3, <1>4, <2>4, <2>5, <2>6, <2>7, <2>8 DEF Known, TakenDown, Owed
  <2>15. TunnelSlotInv(t) BY <1>b, <2>4, SlotGone DEF sockets1
  <2>16. RoomInv(t)
    <3>1. \A c \in TunnelConn : (onWire(t.up, "open", c) => onWire(s.up, "open", c)) /\ (c \in t.conns => c \in s.conns)
      BY <2>4
    <3>2. s.conns \subseteq TunnelConn /\ t.conns \subseteq TunnelConn /\ t.late \in BOOLEAN /\ t.over \in BOOLEAN
      BY <1>b, <2>3 DEF TunnelType
    <3>3. roomFor(t) \subseteq roomFor(s) BY <3>1, <3>2 DEF roomFor
    <3>4. d \notin roomFor(t) BY <1>c, <2>4 DEF roomFor, Agree, TakenDown
    <3>5. t.late \/ (~s.over /\ roomFor(t) \subseteq t.sockets)
      BY <1>b, <1>e, <1>4, <3>3, <3>4, <2>4, <2>5, <2>6, <2>7, <2>8 DEF RoomInv
    <3> QED BY <1>b, <1>e, <3>2, <3>3, <3>5, <2>4, RoomKept
  <2> QED BY <1>b, <2>3, <2>4, <2>9, <2>10, <2>11, <2>12, <2>13, <2>14, <2>15, <2>16, TunnelKept
<1> QED BY <1>s

\* The user of a socket destroys it.
LEMMA AbandonedHolds ==
    ASSUME NEW s, NEW d \in TunnelConn, TunnelOK(s, d, 0),
           s.over = FALSE, d \in s.sockets, s.opener[d] = "done", d \notin s.destroyed
    PROVE  \A t : t = [s EXCEPT !.up = Append(s.up, frame("close", d, 0)), !.destroyed = s.destroyed \cup {d},
                           !.acking = s.acking \cup {d}] => TunnelOK(t, d, 0)
<1>b. s \in TunnelType /\ s.accused = {} /\ TunnelSlotInv(s) /\ RoomInv(s) /\ \A c \in TunnelConn : ConnInv(s, c) /\ Owed(s, c, IF c = d THEN 0 ELSE 0)
  BY DEF TunnelOK
<1>c. Fresh(s, d) /\ Heard(s, d) /\ Credit(s, d) /\ Agree(s, d) /\ Owed(s, d, 0) BY <1>b DEF ConnInv
<1>d. Known(s, d) BY <1>b, WhatIsKnown
<1>w. s.up \in Seq(UpFrame) /\ s.down \in Seq(DownFrame) BY <1>b DEF TunnelType
<1>e. s.over \in BOOLEAN /\ s.late \in BOOLEAN BY <1>b DEF TunnelType
<1>s. ASSUME NEW t, t = [s EXCEPT !.up = Append(s.up, frame("close", d, 0)), !.destroyed = s.destroyed \cup {d},
                             !.acking = s.acking \cup {d}]
      PROVE  TunnelOK(t, d, 0)
  <2> DEFINE up1 == Append(s.up, frame("close", d, 0))
             destroyed1 == s.destroyed \cup {d}
             acking1 == s.acking \cup {d}
  <2>1. /\ up1 \in Seq(UpFrame) /\ destroyed1 \in SUBSET TunnelConn /\ acking1 \in SUBSET TunnelConn
    <3>1. up1 \in Seq(UpFrame)
      <4>1. frame("close", d, 0) \in UpFrame BY <1>d, Frames DEF Known
      <4> QED BY <1>w, <4>1
    <3>2. destroyed1 \in SUBSET TunnelConn BY <1>b, <1>d DEF TunnelType, Known
    <3>3. acking1 \in SUBSET TunnelConn BY <1>b, <1>d DEF TunnelType, Known
    <3> QED BY <3>1, <3>2, <3>3
  <2>2. t = [s EXCEPT !.up = up1, !.destroyed = destroyed1, !.acking = acking1] BY <1>s
  <2> HIDE DEF up1, destroyed1, acking1
  <2>3. t \in TunnelType BY <2>2, <2>1, <1>b, ZenonT(60) DEF TunnelType
  <2>4. /\ t.up = up1 /\ t.down = s.down /\ t.ready = s.ready /\ t.over = s.over /\ t.aborted = s.aborted
        /\ t.late = s.late /\ t.opener = s.opener /\ t.waiters = s.waiters /\ t.slots = s.slots
        /\ t.sockets = s.sockets /\ t.destroyed = destroyed1 /\ t.remoteClosed = s.remoteClosed
        /\ t.acking = acking1 /\ t.ended = s.ended /\ t.remoteEnded = s.remoteEnded
        /\ t.backpressured = s.backpressured /\ t.sendCredit = s.sendCredit /\ t.recvCredit = s.recvCredit
        /\ t.withheld = s.withheld /\ t.pending = s.pending /\ t.buffer = s.buffer /\ t.writing = s.writing
        /\ t.unwritten = s.unwritten /\ t.unread = s.unread /\ t.conns = s.conns
        /\ t.connected = s.connected /\ t.nodeDestroyed = s.nodeDestroyed /\ t.outCredit = s.outCredit
        /\ t.inCredit = s.inCredit /\ t.input = s.input /\ t.chunk = s.chunk /\ t.accused = s.accused
        /\ t.refused = s.refused
    BY <2>2, <1>b DEF TunnelType
  <2>5. d \in destroyed1 /\ \A c : c # d => (c \in destroyed1 <=> c \in s.destroyed)
    BY DEF destroyed1
  <2>6. d \in acking1 /\ \A c : c # d => (c \in acking1 <=> c \in s.acking) BY DEF acking1
  <2>7. SentUp(s.up, up1, "close", d, 0)
    <3>1. frame("close", d, 0) \in UpFrame BY <1>d, Frames DEF Known
    <3> QED BY <1>w, <3>1, UpSent DEF up1
  <2>8. ASSUME NEW c \in TunnelConn, c # d PROVE Same(s, t, c)
    <3>1. SameWire(s.up, t.up, c) /\ SameWire(s.down, t.down, c)
      BY <2>8, <2>4, <2>5, <2>6, <2>7 DEF SameWire, SentUp
    <3> QED BY <2>8, <3>1, <2>4, <2>5, <2>6, <2>7 DEF Same
  <2>9. Fresh(t, d)
    BY <1>c, <1>d, <2>4, <2>5, <2>6, <2>7 DEF Known, SentUp, Fresh, Still, Heard, Agree
  <2>10. Heard(t, d)
    BY <1>c, <1>d, <2>4, <2>5, <2>6, <2>7 DEF Known, SentUp, Heard, Fresh, Still, Agree
  <2>11. Credit(t, d)
    <3>1. fromNode(t, d) = fromNode(s, d) /\ fromNode(s, d) \in Nat
      BY <1>d, <2>4, <2>5, <2>6, <2>7 DEF Known, SentUp, fromNode
    <3>2. fromClient(t, d) = fromClient(s, d) /\ fromClient(s, d) \in Nat
      BY <1>d, <2>4, <2>5, <2>6, <2>7 DEF Known, SentUp, fromClient
    <3>3. ~Live(t, d)
      BY <1>c, <1>d, <2>4, <2>5, <2>6, <2>7 DEF Live, Known, SentUp, Fresh, Still, Heard, Agree
    <3> QED BY <1>c, <1>d, <2>4, <2>5, <2>6, <2>7, <3>1, <3>2, <3>3 DEF Known, Credit
  <2>12. Agree(t, d)
    BY <1>c, <1>d, <2>4, <2>5, <2>6, <2>7 DEF Known, SentUp, Agree, Fresh, Still, Heard
  <2>13. Owed(t, d, 0) BY <1>c, <1>d, <2>4, <2>5, <2>6, <2>7 DEF Known, SentUp, Owed
  <2>14. TunnelSlotInv(t) BY <1>b, <2>4 DEF TunnelSlotInv, grantedOf
  <2>15. RoomInv(t)
    <3>1. \A c \in TunnelConn : (onWire(t.up, "open", c) => onWire(s.up, "open", c)) /\ (c \in t.conns => c \in s.conns)
      BY <1>c, <1>d, <2>4, <2>5, <2>6, <2>7 DEF SameWire, Fresh, Still, Heard, Known, SentUp
    <3>2. s.conns \subseteq TunnelConn /\ t.conns \subseteq TunnelConn BY <1>b, <2>3 DEF TunnelType
    <3>3. roomFor(t) \subseteq roomFor(s) BY <3>1, <3>2 DEF roomFor
    <3> QED BY <1>b, <1>e, <3>3, <2>4, RoomFewer
  <2> QED BY <1>b, <2>3, <2>4, <2>8, <2>9, <2>10, <2>11, <2>12, <2>13, <2>14, <2>15, TunnelKept
<1> QED BY <1>s

\* Of what the client holds it grants n bytes, withholds them, or keeps them pending.
LEMMA GrantedHolds ==
    ASSUME NEW s, NEW d \in TunnelConn, NEW g \in Nat, NEW n \in Nat \ {0}, TunnelOK(s, d, g + n),
           d \in s.sockets, s.over = FALSE, NEW b \in [TunnelConn -> Nat],
           \A c \in TunnelConn : c # d => b[c] = s.buffer[c]
    PROVE  \A t : t = [s EXCEPT !.up = Append(s.up, frame("credit", d, n)),
                           !.recvCredit = [s.recvCredit EXCEPT ![d] = s.recvCredit[d] + n], !.buffer = b] => TunnelOK(t, d, g)
<1>b. s \in TunnelType /\ s.accused = {} /\ TunnelSlotInv(s) /\ RoomInv(s) /\ \A c \in TunnelConn : ConnInv(s, c) /\ Owed(s, c, IF c = d THEN g + n ELSE 0)
  BY DEF TunnelOK
<1>c. Fresh(s, d) /\ Heard(s, d) /\ Credit(s, d) /\ Agree(s, d) /\ Owed(s, d, g + n)
  BY <1>b DEF ConnInv
<1>d. Known(s, d) BY <1>b, WhatIsKnown
<1>w. s.up \in Seq(UpFrame) /\ s.down \in Seq(DownFrame) BY <1>b DEF TunnelType
<1>e. s.over \in BOOLEAN /\ s.late \in BOOLEAN BY <1>b DEF TunnelType
<1>1. n <= TunnelWindow /\ s.recvCredit[d] + n <= TunnelWindow /\ s.withheld[d] + n <= TunnelWindow /\ s.recvCredit[d] # TunnelWindow
  BY <1>c, <1>d DEF Known, Owed
<1>2. ~onWire(s.up, "open", d) /\ s.opener[d] \notin {"none", "waiting", "granted"}
  BY <1>c, <1>1 DEF Fresh
<1>s. ASSUME NEW t, t = [s EXCEPT !.up = Append(s.up, frame("credit", d, n)),
                             !.recvCredit = [s.recvCredit EXCEPT ![d] = s.recvCredit[d] + n], !.buffer = b]
      PROVE  TunnelOK(t, d, g)
  <2> DEFINE up1 == Append(s.up, frame("credit", d, n))
             recvCredit1 == [s.recvCredit EXCEPT ![d] = s.recvCredit[d] + n]
  <2>1. /\ up1 \in Seq(UpFrame) /\ recvCredit1 \in [TunnelConn -> 0..TunnelWindow]
        /\ b \in [TunnelConn -> Nat]
    <3>1. up1 \in Seq(UpFrame)
      <4>1. frame("credit", d, n) \in UpFrame BY <1>d, <1>1, <1>2, Frames DEF Known
      <4> QED BY <1>w, <4>1
    <3>2. recvCredit1 \in [TunnelConn -> 0..TunnelWindow]
      <4>1. s.recvCredit \in [TunnelConn -> 0..TunnelWindow] /\ s.recvCredit[d] \in 0..TunnelWindow
        BY <1>b DEF TunnelType
      <4>2. s.recvCredit[d] + n \in 0..TunnelWindow BY <1>d, <1>1, <1>2 DEF Known
      <4> QED BY <4>1, <4>2
    <3>3. b \in [TunnelConn -> Nat] BY <1>b, <1>d, <1>1, <1>2 DEF TunnelType, Known
    <3> QED BY <3>1, <3>2, <3>3
  <2>2. t = [s EXCEPT !.up = up1, !.recvCredit = recvCredit1, !.buffer = b] BY <1>s
  <2> HIDE DEF up1, recvCredit1
  <2>3. t \in TunnelType BY <2>2, <2>1, <1>b, ZenonT(60) DEF TunnelType
  <2>4. /\ t.up = up1 /\ t.down = s.down /\ t.ready = s.ready /\ t.over = s.over /\ t.aborted = s.aborted
        /\ t.late = s.late /\ t.opener = s.opener /\ t.waiters = s.waiters /\ t.slots = s.slots
        /\ t.sockets = s.sockets /\ t.destroyed = s.destroyed /\ t.remoteClosed = s.remoteClosed
        /\ t.acking = s.acking /\ t.ended = s.ended /\ t.remoteEnded = s.remoteEnded
        /\ t.backpressured = s.backpressured /\ t.sendCredit = s.sendCredit /\ t.recvCredit = recvCredit1
        /\ t.withheld = s.withheld /\ t.pending = s.pending /\ t.buffer = b /\ t.writing = s.writing
        /\ t.unwritten = s.unwritten /\ t.unread = s.unread /\ t.conns = s.conns
        /\ t.connected = s.connected /\ t.nodeDestroyed = s.nodeDestroyed /\ t.outCredit = s.outCredit
        /\ t.inCredit = s.inCredit /\ t.input = s.input /\ t.chunk = s.chunk /\ t.accused = s.accused
        /\ t.refused = s.refused
    BY <2>2, <1>b DEF TunnelType
  <2>5. recvCredit1[d] = s.recvCredit[d] + n /\ \A c \in TunnelConn : c # d => recvCredit1[c] = s.recvCredit[c]
    BY <1>b DEF recvCredit1, TunnelType
  <2>6. SentUp(s.up, up1, "credit", d, n)
    <3>1. frame("credit", d, n) \in UpFrame BY <1>d, <1>1, <1>2, Frames DEF Known
    <3> QED BY <1>w, <3>1, UpSent DEF up1
  <2>7. ASSUME NEW c \in TunnelConn, c # d PROVE Same(s, t, c)
    <3>1. SameWire(s.up, t.up, c) /\ SameWire(s.down, t.down, c)
      BY <2>7, <2>4, <2>5, <2>6 DEF SameWire, SentUp
    <3> QED BY <2>7, <3>1, <2>4, <2>5, <2>6 DEF Same
  <2>8. Fresh(t, d)
    BY <1>c, <1>d, <1>1, <1>2, <2>4, <2>5, <2>6 DEF Known, SentUp, Fresh, Still, Heard, Agree
  <2>9. Heard(t, d)
    BY <1>c, <1>d, <1>1, <1>2, <2>4, <2>5, <2>6 DEF Known, SentUp, Heard, Fresh, Still, Agree
  <2>10. Credit(t, d)
    <3>1. fromNode(t, d) = fromNode(s, d) + n /\ fromNode(s, d) \in Nat
      BY <1>d, <1>1, <1>2, <2>4, <2>5, <2>6 DEF Known, SentUp, fromNode
    <3>2. fromClient(t, d) = fromClient(s, d) /\ fromClient(s, d) \in Nat
      BY <1>d, <1>1, <1>2, <2>4, <2>5, <2>6 DEF Known, SentUp, fromClient
    <3>3. Live(t, d) => Live(s, d) /\ (t.opener[d] = "done" => s.opener[d] = "done")
      BY <1>c, <1>d, <1>1, <1>2, <2>4, <2>5, <2>6 DEF Live, Known, SentUp, Fresh, Still, Heard, Agree
    <3> QED BY <1>c, <1>d, <1>1, <1>2, <2>4, <2>5, <2>6, <3>1, <3>2, <3>3 DEF Known, Credit
  <2>11. Agree(t, d)
    BY <1>c, <1>d, <1>1, <1>2, <2>4, <2>5, <2>6 DEF Known, SentUp, Agree, Fresh, Still, Heard
  <2>12. Owed(t, d, g) BY <1>c, <1>d, <1>1, <1>2, <2>4, <2>5, <2>6 DEF Known, SentUp, Owed
  <2>13. TunnelSlotInv(t) BY <1>b, <2>4 DEF TunnelSlotInv, grantedOf
  <2>14. RoomInv(t)
    <3>1. \A c \in TunnelConn : (onWire(t.up, "open", c) => onWire(s.up, "open", c)) /\ (c \in t.conns => c \in s.conns)
      BY <1>c, <1>d, <2>4, <2>5, <2>6, <1>1, <1>2 DEF SameWire, Fresh, Still, Heard, Known, SentUp
    <3>2. s.conns \subseteq TunnelConn /\ t.conns \subseteq TunnelConn BY <1>b, <2>3 DEF TunnelType
    <3>3. roomFor(t) \subseteq roomFor(s) BY <3>1, <3>2 DEF roomFor
    <3> QED BY <1>b, <1>e, <3>3, <2>4, RoomFewer
  <2> QED BY <1>b, <2>3, <2>4, <2>7, <2>8, <2>9, <2>10, <2>11, <2>12, <2>13, <2>14, TunnelKept
<1> QED BY <1>s

LEMMA WithheldHolds ==
    ASSUME NEW s, NEW d \in TunnelConn, NEW g \in Nat, NEW n \in Nat \ {0}, TunnelOK(s, d, g + n),
           d \in s.sockets, s.over = FALSE, NEW b \in [TunnelConn -> Nat],
           \A c \in TunnelConn : c # d => b[c] = s.buffer[c]
    PROVE  \A t : t = [s EXCEPT !.backpressured = s.backpressured \cup {d},
                           !.withheld = [s.withheld EXCEPT ![d] = s.withheld[d] + n], !.buffer = b] => TunnelOK(t, d, g)
<1>b. s \in TunnelType /\ s.accused = {} /\ TunnelSlotInv(s) /\ RoomInv(s) /\ \A c \in TunnelConn : ConnInv(s, c) /\ Owed(s, c, IF c = d THEN g + n ELSE 0)
  BY DEF TunnelOK
<1>c. Fresh(s, d) /\ Heard(s, d) /\ Credit(s, d) /\ Agree(s, d) /\ Owed(s, d, g + n)
  BY <1>b DEF ConnInv
<1>d. Known(s, d) BY <1>b, WhatIsKnown
<1>w. s.up \in Seq(UpFrame) /\ s.down \in Seq(DownFrame) BY <1>b DEF TunnelType
<1>e. s.over \in BOOLEAN /\ s.late \in BOOLEAN BY <1>b DEF TunnelType
<1>1. n <= TunnelWindow /\ s.recvCredit[d] + n <= TunnelWindow /\ s.withheld[d] + n <= TunnelWindow /\ s.recvCredit[d] # TunnelWindow
  BY <1>c, <1>d DEF Known, Owed
<1>2. ~onWire(s.up, "open", d) /\ s.opener[d] \notin {"none", "waiting", "granted"}
  BY <1>c, <1>1 DEF Fresh
<1>s. ASSUME NEW t, t = [s EXCEPT !.backpressured = s.backpressured \cup {d},
                             !.withheld = [s.withheld EXCEPT ![d] = s.withheld[d] + n], !.buffer = b]
      PROVE  TunnelOK(t, d, g)
  <2> DEFINE backpressured1 == s.backpressured \cup {d}
             withheld1 == [s.withheld EXCEPT ![d] = s.withheld[d] + n]
  <2>1. /\ backpressured1 \in SUBSET TunnelConn /\ withheld1 \in [TunnelConn -> 0..TunnelWindow]
        /\ b \in [TunnelConn -> Nat]
    <3>1. backpressured1 \in SUBSET TunnelConn BY <1>b, <1>d, <1>1, <1>2 DEF TunnelType, Known
    <3>2. withheld1 \in [TunnelConn -> 0..TunnelWindow]
      <4>1. s.withheld \in [TunnelConn -> 0..TunnelWindow] /\ s.withheld[d] \in 0..TunnelWindow
        BY <1>b DEF TunnelType
      <4>2. s.withheld[d] + n \in 0..TunnelWindow BY <1>d, <1>1, <1>2 DEF Known
      <4> QED BY <4>1, <4>2
    <3>3. b \in [TunnelConn -> Nat] BY <1>b, <1>d, <1>1, <1>2 DEF TunnelType, Known
    <3> QED BY <3>1, <3>2, <3>3
  <2>2. t = [s EXCEPT !.backpressured = backpressured1, !.withheld = withheld1, !.buffer = b]
    BY <1>s
  <2> HIDE DEF backpressured1, withheld1
  <2>3. t \in TunnelType BY <2>2, <2>1, <1>b, ZenonT(60) DEF TunnelType
  <2>4. /\ t.up = s.up /\ t.down = s.down /\ t.ready = s.ready /\ t.over = s.over /\ t.aborted = s.aborted
        /\ t.late = s.late /\ t.opener = s.opener /\ t.waiters = s.waiters /\ t.slots = s.slots
        /\ t.sockets = s.sockets /\ t.destroyed = s.destroyed /\ t.remoteClosed = s.remoteClosed
        /\ t.acking = s.acking /\ t.ended = s.ended /\ t.remoteEnded = s.remoteEnded
        /\ t.backpressured = backpressured1 /\ t.sendCredit = s.sendCredit /\ t.recvCredit = s.recvCredit
        /\ t.withheld = withheld1 /\ t.pending = s.pending /\ t.buffer = b /\ t.writing = s.writing
        /\ t.unwritten = s.unwritten /\ t.unread = s.unread /\ t.conns = s.conns
        /\ t.connected = s.connected /\ t.nodeDestroyed = s.nodeDestroyed /\ t.outCredit = s.outCredit
        /\ t.inCredit = s.inCredit /\ t.input = s.input /\ t.chunk = s.chunk /\ t.accused = s.accused
        /\ t.refused = s.refused
    BY <2>2, <1>b DEF TunnelType
  <2>5. d \in backpressured1 /\ \A c : c # d => (c \in backpressured1 <=> c \in s.backpressured)
    BY DEF backpressured1
  <2>6. withheld1[d] = s.withheld[d] + n /\ \A c \in TunnelConn : c # d => withheld1[c] = s.withheld[c]
    BY <1>b DEF withheld1, TunnelType
  <2>7. ASSUME NEW c \in TunnelConn, c # d PROVE Same(s, t, c)
    <3>1. SameWire(s.up, t.up, c) /\ SameWire(s.down, t.down, c)
      BY <2>7, <2>4, <2>5, <2>6 DEF SameWire
    <3> QED BY <2>7, <3>1, <2>4, <2>5, <2>6 DEF Same
  <2>8. Fresh(t, d)
    BY <1>c, <1>d, <1>1, <1>2, <2>4, <2>5, <2>6 DEF Known, Fresh, Still, Heard, Agree
  <2>9. Heard(t, d)
    BY <1>c, <1>d, <1>1, <1>2, <2>4, <2>5, <2>6 DEF Known, Heard, Fresh, Still, Agree
  <2>10. Credit(t, d)
    <3>1. fromNode(t, d) = fromNode(s, d) /\ fromNode(s, d) \in Nat
      BY <1>d, <1>1, <1>2, <2>4, <2>5, <2>6 DEF Known, fromNode
    <3>2. fromClient(t, d) = fromClient(s, d) /\ fromClient(s, d) \in Nat
      BY <1>d, <1>1, <1>2, <2>4, <2>5, <2>6 DEF Known, fromClient
    <3>3. Live(t, d) => Live(s, d) /\ (t.opener[d] = "done" => s.opener[d] = "done")
      BY <1>c, <1>d, <1>1, <1>2, <2>4, <2>5, <2>6 DEF Live, Known, Fresh, Still, Heard, Agree
    <3> QED BY <1>c, <1>d, <1>1, <1>2, <2>4, <2>5, <2>6, <3>1, <3>2, <3>3 DEF Known, Credit
  <2>11. Agree(t, d)
    BY <1>c, <1>d, <1>1, <1>2, <2>4, <2>5, <2>6 DEF Known, Agree, Fresh, Still, Heard
  <2>12. Owed(t, d, g) BY <1>c, <1>d, <1>1, <1>2, <2>4, <2>5, <2>6 DEF Known, Owed
  <2>13. TunnelSlotInv(t) BY <1>b, <2>4 DEF TunnelSlotInv, grantedOf
  <2>14. RoomInv(t) BY <1>b, <2>4 DEF RoomInv, roomFor
  <2> QED BY <1>b, <2>3, <2>4, <2>7, <2>8, <2>9, <2>10, <2>11, <2>12, <2>13, <2>14, TunnelKept
<1> QED BY <1>s

LEMMA PendingHolds ==
    ASSUME NEW s, NEW d \in TunnelConn, NEW g \in Nat, NEW n \in Nat \ {0}, TunnelOK(s, d, g + n),
           d \in s.sockets, s.over = FALSE, NEW queue \in PendingQueue, total(queue) = total(s.pending[d]) + n
    PROVE  \A t : t = [s EXCEPT !.pending = [s.pending EXCEPT ![d] = queue]] => TunnelOK(t, d, g)
<1>b. s \in TunnelType /\ s.accused = {} /\ TunnelSlotInv(s) /\ RoomInv(s) /\ \A c \in TunnelConn : ConnInv(s, c) /\ Owed(s, c, IF c = d THEN g + n ELSE 0)
  BY DEF TunnelOK
<1>c. Fresh(s, d) /\ Heard(s, d) /\ Credit(s, d) /\ Agree(s, d) /\ Owed(s, d, g + n)
  BY <1>b DEF ConnInv
<1>d. Known(s, d) BY <1>b, WhatIsKnown
<1>w. s.up \in Seq(UpFrame) /\ s.down \in Seq(DownFrame) BY <1>b DEF TunnelType
<1>e. s.over \in BOOLEAN /\ s.late \in BOOLEAN BY <1>b DEF TunnelType
<1>1. n <= TunnelWindow /\ s.recvCredit[d] + n <= TunnelWindow /\ s.withheld[d] + n <= TunnelWindow /\ s.recvCredit[d] # TunnelWindow
  BY <1>c, <1>d DEF Known, Owed
<1>2. ~onWire(s.up, "open", d) /\ s.opener[d] \notin {"none", "waiting", "granted"}
  BY <1>c, <1>1 DEF Fresh
<1>s. ASSUME NEW t, t = [s EXCEPT !.pending = [s.pending EXCEPT ![d] = queue]]
      PROVE  TunnelOK(t, d, g)
  <2> DEFINE pending1 == [s.pending EXCEPT ![d] = queue]
  <2>1. pending1 \in [TunnelConn -> Seq(1..FrameLimit)]
    BY <1>b, <1>d, <1>1, <1>2 DEF TunnelType, Known, PendingQueue
  <2>2. t = [s EXCEPT !.pending = pending1] BY <1>s
  <2> HIDE DEF pending1
  <2>3. t \in TunnelType BY <2>2, <2>1, <1>b, ZenonT(60) DEF TunnelType
  <2>4. /\ t.up = s.up /\ t.down = s.down /\ t.ready = s.ready /\ t.over = s.over /\ t.aborted = s.aborted
        /\ t.late = s.late /\ t.opener = s.opener /\ t.waiters = s.waiters /\ t.slots = s.slots
        /\ t.sockets = s.sockets /\ t.destroyed = s.destroyed /\ t.remoteClosed = s.remoteClosed
        /\ t.acking = s.acking /\ t.ended = s.ended /\ t.remoteEnded = s.remoteEnded
        /\ t.backpressured = s.backpressured /\ t.sendCredit = s.sendCredit /\ t.recvCredit = s.recvCredit
        /\ t.withheld = s.withheld /\ t.pending = pending1 /\ t.buffer = s.buffer /\ t.writing = s.writing
        /\ t.unwritten = s.unwritten /\ t.unread = s.unread /\ t.conns = s.conns
        /\ t.connected = s.connected /\ t.nodeDestroyed = s.nodeDestroyed /\ t.outCredit = s.outCredit
        /\ t.inCredit = s.inCredit /\ t.input = s.input /\ t.chunk = s.chunk /\ t.accused = s.accused
        /\ t.refused = s.refused
    BY <2>2, <1>b DEF TunnelType
  <2>5. pending1[d] = queue /\ \A c \in TunnelConn : c # d => pending1[c] = s.pending[c]
    BY <1>b DEF pending1, TunnelType
  <2>6. ASSUME NEW c \in TunnelConn, c # d PROVE Same(s, t, c)
    <3>1. SameWire(s.up, t.up, c) /\ SameWire(s.down, t.down, c) BY <2>6, <2>4, <2>5 DEF SameWire
    <3> QED BY <2>6, <3>1, <2>4, <2>5 DEF Same
  <2>7. Fresh(t, d) BY <1>c, <1>d, <1>1, <1>2, <2>4, <2>5 DEF Known, Fresh, Still, Heard, Agree
  <2>8. Heard(t, d) BY <1>c, <1>d, <1>1, <1>2, <2>4, <2>5 DEF Known, Heard, Fresh, Still, Agree
  <2>9. Credit(t, d)
    <3>1. fromNode(t, d) = fromNode(s, d) /\ fromNode(s, d) \in Nat
      BY <1>d, <1>1, <1>2, <2>4, <2>5 DEF Known, fromNode
    <3>2. fromClient(t, d) = fromClient(s, d) /\ fromClient(s, d) \in Nat
      BY <1>d, <1>1, <1>2, <2>4, <2>5 DEF Known, fromClient
    <3>3. Live(t, d) => Live(s, d) /\ (t.opener[d] = "done" => s.opener[d] = "done")
      BY <1>c, <1>d, <1>1, <1>2, <2>4, <2>5 DEF Live, Known, Fresh, Still, Heard, Agree
    <3> QED BY <1>c, <1>d, <1>1, <1>2, <2>4, <2>5, <3>1, <3>2, <3>3 DEF Known, Credit
  <2>10. Agree(t, d) BY <1>c, <1>d, <1>1, <1>2, <2>4, <2>5 DEF Known, Agree, Fresh, Still, Heard
  <2>11. Owed(t, d, g) BY <1>c, <1>d, <1>1, <1>2, <2>4, <2>5 DEF Known, Owed
  <2>12. TunnelSlotInv(t) BY <1>b, <2>4 DEF TunnelSlotInv, grantedOf
  <2>13. RoomInv(t) BY <1>b, <2>4 DEF RoomInv, roomFor
  <2> QED BY <1>b, <2>3, <2>4, <2>6, <2>7, <2>8, <2>9, <2>10, <2>11, <2>12, <2>13, TunnelKept
<1> QED BY <1>s

\* The consumer reads: what was withheld and pending is in the hands of the client.
LEMMA ReadMoreHolds ==
    ASSUME NEW s, NEW d \in TunnelConn, TunnelOK(s, d, 0),
           d \in s.sockets, s.over = FALSE, s.buffer[d] # 0, NEW queue \in PendingQueue, total(queue) = 0
    PROVE  \A t : t = [s EXCEPT !.backpressured = s.backpressured \ {d}, !.withheld = [s.withheld EXCEPT ![d] = 0],
                           !.pending = [s.pending EXCEPT ![d] = queue], !.buffer = [s.buffer EXCEPT ![d] = 0]] => TunnelOK(t, d, s.withheld[d] + total(s.pending[d]))
<1>b. s \in TunnelType /\ s.accused = {} /\ TunnelSlotInv(s) /\ RoomInv(s) /\ \A c \in TunnelConn : ConnInv(s, c) /\ Owed(s, c, IF c = d THEN 0 ELSE 0)
  BY DEF TunnelOK
<1>c. Fresh(s, d) /\ Heard(s, d) /\ Credit(s, d) /\ Agree(s, d) /\ Owed(s, d, 0) BY <1>b DEF ConnInv
<1>d. Known(s, d) BY <1>b, WhatIsKnown
<1>w. s.up \in Seq(UpFrame) /\ s.down \in Seq(DownFrame) BY <1>b DEF TunnelType
<1>e. s.over \in BOOLEAN /\ s.late \in BOOLEAN BY <1>b DEF TunnelType
<1>1. ~onWire(s.up, "open", d) /\ s.opener[d] \notin {"none", "waiting", "granted"}
  BY <1>c DEF Fresh, Still
<1>s. ASSUME NEW t, t = [s EXCEPT !.backpressured = s.backpressured \ {d}, !.withheld = [s.withheld EXCEPT ![d] = 0],
                             !.pending = [s.pending EXCEPT ![d] = queue], !.buffer = [s.buffer EXCEPT ![d] = 0]]
      PROVE  TunnelOK(t, d, s.withheld[d] + total(s.pending[d]))
  <2> DEFINE backpressured1 == s.backpressured \ {d}
             withheld1 == [s.withheld EXCEPT ![d] = 0]
             pending1 == [s.pending EXCEPT ![d] = queue]
             buffer1 == [s.buffer EXCEPT ![d] = 0]
  <2>1. /\ backpressured1 \in SUBSET TunnelConn /\ withheld1 \in [TunnelConn -> 0..TunnelWindow]
        /\ pending1 \in [TunnelConn -> Seq(1..FrameLimit)] /\ buffer1 \in [TunnelConn -> Nat]
    <3>1. backpressured1 \in SUBSET TunnelConn BY <1>b, <1>d, <1>1 DEF TunnelType, Known
    <3>2. withheld1 \in [TunnelConn -> 0..TunnelWindow] BY <1>b, <1>d, <1>1 DEF TunnelType, Known
    <3>3. pending1 \in [TunnelConn -> Seq(1..FrameLimit)]
      BY <1>b, <1>d, <1>1 DEF TunnelType, Known, PendingQueue
    <3>4. buffer1 \in [TunnelConn -> Nat] BY <1>b, <1>d, <1>1 DEF TunnelType, Known
    <3> QED BY <3>1, <3>2, <3>3, <3>4
  <2>2. t = [s EXCEPT !.backpressured = backpressured1, !.withheld = withheld1, !.pending = pending1,
                   !.buffer = buffer1]
    BY <1>s
  <2> HIDE DEF backpressured1, withheld1, pending1, buffer1
  <2>3. t \in TunnelType BY <2>2, <2>1, <1>b, ReadMoreType
  <2>4. /\ t.up = s.up /\ t.down = s.down /\ t.ready = s.ready /\ t.over = s.over /\ t.aborted = s.aborted
        /\ t.late = s.late /\ t.opener = s.opener /\ t.waiters = s.waiters /\ t.slots = s.slots
        /\ t.sockets = s.sockets /\ t.destroyed = s.destroyed /\ t.remoteClosed = s.remoteClosed
        /\ t.acking = s.acking /\ t.ended = s.ended /\ t.remoteEnded = s.remoteEnded
        /\ t.backpressured = backpressured1 /\ t.sendCredit = s.sendCredit /\ t.recvCredit = s.recvCredit
        /\ t.withheld = withheld1 /\ t.pending = pending1 /\ t.buffer = buffer1 /\ t.writing = s.writing
        /\ t.unwritten = s.unwritten /\ t.unread = s.unread /\ t.conns = s.conns
        /\ t.connected = s.connected /\ t.nodeDestroyed = s.nodeDestroyed /\ t.outCredit = s.outCredit
        /\ t.inCredit = s.inCredit /\ t.input = s.input /\ t.chunk = s.chunk /\ t.accused = s.accused
        /\ t.refused = s.refused
    BY <2>2, <1>b DEF TunnelType
  <2>5. d \notin backpressured1 /\ \A c : c # d => (c \in backpressured1 <=> c \in s.backpressured)
    BY DEF backpressured1
  <2>6. withheld1[d] = 0 /\ \A c \in TunnelConn : c # d => withheld1[c] = s.withheld[c]
    BY <1>b DEF withheld1, TunnelType
  <2>7. pending1[d] = queue /\ \A c \in TunnelConn : c # d => pending1[c] = s.pending[c]
    BY <1>b DEF pending1, TunnelType
  <2>8. buffer1[d] = 0 /\ \A c \in TunnelConn : c # d => buffer1[c] = s.buffer[c]
    BY <1>b DEF buffer1, TunnelType
  <2>9. ASSUME NEW c \in TunnelConn, c # d PROVE Same(s, t, c)
    <3>1. SameWire(s.up, t.up, c) /\ SameWire(s.down, t.down, c)
      BY <2>9, <2>4, <2>5, <2>6, <2>7, <2>8 DEF SameWire
    <3> QED BY <2>9, <3>1, <2>4, <2>5, <2>6, <2>7, <2>8 DEF Same
  <2>10. Fresh(t, d)
    BY <1>c, <1>d, <1>1, <2>4, <2>5, <2>6, <2>7, <2>8 DEF Known, Fresh, Still, Heard, Agree
  <2>11. Heard(t, d)
    BY <1>c, <1>d, <1>1, <2>4, <2>5, <2>6, <2>7, <2>8 DEF Known, Heard, Fresh, Still, Agree
  <2>12. Credit(t, d)
    <3>1. fromNode(t, d) = fromNode(s, d) /\ fromNode(s, d) \in Nat
      BY <1>d, <1>1, <2>4, <2>5, <2>6, <2>7, <2>8 DEF Known, fromNode
    <3>2. fromClient(t, d) = fromClient(s, d) /\ fromClient(s, d) \in Nat
      BY <1>d, <1>1, <2>4, <2>5, <2>6, <2>7, <2>8 DEF Known, fromClient
    <3>3. Live(t, d) => Live(s, d) /\ (t.opener[d] = "done" => s.opener[d] = "done")
      BY <1>c, <1>d, <1>1, <2>4, <2>5, <2>6, <2>7, <2>8 DEF Live, Known, Fresh, Still, Heard, Agree
    <3> QED BY <1>c, <1>d, <1>1, <2>4, <2>5, <2>6, <2>7, <2>8, <3>1, <3>2, <3>3 DEF Known, Credit
  <2>13. Agree(t, d)
    BY <1>c, <1>d, <1>1, <2>4, <2>5, <2>6, <2>7, <2>8 DEF Known, Agree, Fresh, Still, Heard
  <2>14. Owed(t, d, s.withheld[d] + total(s.pending[d]))
    BY <1>c, <1>d, <1>1, <2>4, <2>5, <2>6, <2>7, <2>8 DEF Known, Owed
  <2>15. TunnelSlotInv(t) BY <1>b, <2>4 DEF TunnelSlotInv, grantedOf
  <2>16. RoomInv(t) BY <1>b, <2>4 DEF RoomInv, roomFor
  <2> QED BY <1>b, <2>3, <2>4, <2>9, <2>10, <2>11, <2>12, <2>13, <2>14, <2>15, <2>16, TunnelKept
<1> QED BY <1>s

\* A frame arrives at the client: one it has no use for, `opened`, data, credit, and the end.
LEMMA ClientDrops ==
    ASSUME NEW s, NEW d \in TunnelConn, TunnelOK(s, d, 0),
           NEW f, NEW rest \in DownWires, TakenDown(s.down, rest, f, d),
           s.over = TRUE \/ d \notin s.sockets \/ d \in s.destroyed \/ d \in s.remoteEnded,
           f.type # "closed" \/ s.over = TRUE \/ d \notin s.sockets
    PROVE  \A t : t = [s EXCEPT !.down = rest] => TunnelOK(t, d, 0)
<1>b. s \in TunnelType /\ s.accused = {} /\ TunnelSlotInv(s) /\ RoomInv(s) /\ \A c \in TunnelConn : ConnInv(s, c) /\ Owed(s, c, IF c = d THEN 0 ELSE 0)
  BY DEF TunnelOK
<1>c. Fresh(s, d) /\ Heard(s, d) /\ Credit(s, d) /\ Agree(s, d) /\ Owed(s, d, 0) BY <1>b DEF ConnInv
<1>d. Known(s, d) BY <1>b, WhatIsKnown
<1>w. s.up \in Seq(UpFrame) /\ s.down \in Seq(DownFrame) BY <1>b DEF TunnelType
<1>e. s.over \in BOOLEAN /\ s.late \in BOOLEAN BY <1>b DEF TunnelType
<1>s. ASSUME NEW t, t = [s EXCEPT !.down = rest]
      PROVE  TunnelOK(t, d, 0)
  <2>1. rest \in Seq(DownFrame) BY DEF DownWires
  <2>2. t = [s EXCEPT !.down = rest] BY <1>s
  <2>3. t \in TunnelType BY <2>2, <2>1, <1>b, ZenonT(60) DEF TunnelType
  <2>4. /\ t.up = s.up /\ t.down = rest /\ t.ready = s.ready /\ t.over = s.over /\ t.aborted = s.aborted
        /\ t.late = s.late /\ t.opener = s.opener /\ t.waiters = s.waiters /\ t.slots = s.slots
        /\ t.sockets = s.sockets /\ t.destroyed = s.destroyed /\ t.remoteClosed = s.remoteClosed
        /\ t.acking = s.acking /\ t.ended = s.ended /\ t.remoteEnded = s.remoteEnded
        /\ t.backpressured = s.backpressured /\ t.sendCredit = s.sendCredit /\ t.recvCredit = s.recvCredit
        /\ t.withheld = s.withheld /\ t.pending = s.pending /\ t.buffer = s.buffer /\ t.writing = s.writing
        /\ t.unwritten = s.unwritten /\ t.unread = s.unread /\ t.conns = s.conns
        /\ t.connected = s.connected /\ t.nodeDestroyed = s.nodeDestroyed /\ t.outCredit = s.outCredit
        /\ t.inCredit = s.inCredit /\ t.input = s.input /\ t.chunk = s.chunk /\ t.accused = s.accused
        /\ t.refused = s.refused
    BY <2>2, <1>b DEF TunnelType
  <2>5. ASSUME NEW c \in TunnelConn, c # d PROVE Same(s, t, c)
    <3>1. SameWire(s.up, t.up, c) /\ SameWire(s.down, t.down, c)
      BY <2>5, <2>4 DEF SameWire, TakenDown
    <3> QED BY <2>5, <3>1, <2>4 DEF Same
  <2>6. Fresh(t, d) BY <1>c, <1>d, <2>4 DEF Known, TakenDown, Fresh, Still, Heard, Agree
  <2>7. Heard(t, d) BY <1>c, <1>d, <2>4 DEF Known, TakenDown, Heard, Fresh, Still, Agree
  <2>8. Credit(t, d)
    <3>1. fromNode(t, d) = fromNode(s, d) - (IF f.type = "data" THEN f.bytes ELSE 0) /\ fromNode(s, d) \in Nat
      BY <1>d, <2>4 DEF Known, TakenDown, fromNode
    <3>2. fromClient(t, d) = fromClient(s, d) - (IF f.type = "credit" THEN f.bytes ELSE 0) /\ fromClient(s, d) \in Nat
      BY <1>d, <2>4 DEF Known, TakenDown, fromClient
    <3>3. ~Live(t, d) BY <1>c, <1>d, <2>4 DEF Live, Known, TakenDown, Fresh, Still, Heard, Agree
    <3> QED BY <1>c, <1>d, <2>4, <3>1, <3>2, <3>3 DEF Known, TakenDown, Credit
  <2>9. Agree(t, d) BY <1>c, <1>d, <2>4 DEF Known, TakenDown, Agree, Fresh, Still, Heard
  <2>10. Owed(t, d, 0) BY <1>c, <1>d, <2>4 DEF Known, TakenDown, Owed
  <2>11. TunnelSlotInv(t) BY <1>b, <2>4 DEF TunnelSlotInv, grantedOf
  <2>12. RoomInv(t) BY <1>b, <2>4 DEF RoomInv, roomFor
  <2> QED BY <1>b, <2>3, <2>4, <2>5, <2>6, <2>7, <2>8, <2>9, <2>10, <2>11, <2>12, TunnelKept
<1> QED BY <1>s

LEMMA OpenedArrives ==
    ASSUME NEW s, NEW d \in TunnelConn, TunnelOK(s, d, 0),
           NEW f, NEW rest \in DownWires, TakenDown(s.down, rest, f, d), f.type = "opened", d \in s.sockets,
           d \notin s.destroyed
    PROVE  \A t : t = [s EXCEPT !.down = rest, !.opener = [s.opener EXCEPT ![d] = "done"],
                           !.sendCredit = [s.sendCredit EXCEPT ![d] = TunnelWindow]] => TunnelOK(t, d, 0)
<1>b. s \in TunnelType /\ s.accused = {} /\ TunnelSlotInv(s) /\ RoomInv(s) /\ \A c \in TunnelConn : ConnInv(s, c) /\ Owed(s, c, IF c = d THEN 0 ELSE 0)
  BY DEF TunnelOK
<1>c. Fresh(s, d) /\ Heard(s, d) /\ Credit(s, d) /\ Agree(s, d) /\ Owed(s, d, 0) BY <1>b DEF ConnInv
<1>d. Known(s, d) BY <1>b, WhatIsKnown
<1>w. s.up \in Seq(UpFrame) /\ s.down \in Seq(DownFrame) BY <1>b DEF TunnelType
<1>e. s.over \in BOOLEAN /\ s.late \in BOOLEAN BY <1>b DEF TunnelType
<1>1. onWire(s.down, "opened", d) /\ mentions(s.down, d) BY DEF TakenDown
<1>2. s.sendCredit[d] = 0 /\ ~onWire(s.up, "data", d) /\ ~onWire(s.down, "credit", d) /\ s.inCredit[d] = TunnelWindow /\ d \in s.connected
  BY <1>c, <1>1 DEF Heard
<1>3. inFrames(s.up, "data", d) = 0 /\ inFrames(s.down, "credit", d) = 0 /\ inFrames(rest, "credit", d) = 0
  BY <1>2, <1>d DEF Known, TakenDown
<1>4. ~onWire(rest, "opened", d) /\ ~onWire(s.up, "open", d)
  BY <1>c, <1>1 DEF Heard, Fresh, Still, TakenDown
<1>5. s.opener[d] \in {"opening", "done"} BY <1>b DEF TunnelSlotInv
<1>s. ASSUME NEW t, t = [s EXCEPT !.down = rest, !.opener = [s.opener EXCEPT ![d] = "done"],
                             !.sendCredit = [s.sendCredit EXCEPT ![d] = TunnelWindow]]
      PROVE  TunnelOK(t, d, 0)
  <2> DEFINE opener1 == [s.opener EXCEPT ![d] = "done"]
             sendCredit1 == [s.sendCredit EXCEPT ![d] = TunnelWindow]
  <2>1. /\ rest \in Seq(DownFrame) /\ opener1 \in [TunnelConn -> OpenerState]
        /\ sendCredit1 \in [TunnelConn -> 0..TunnelWindow]
    <3>1. rest \in Seq(DownFrame) BY DEF DownWires
    <3>2. opener1 \in [TunnelConn -> OpenerState]
      BY <1>b, <1>d, <1>1, <1>2, <1>3, <1>4, <1>5 DEF TunnelType, Known, TakenDown, OpenerState
    <3>3. sendCredit1 \in [TunnelConn -> 0..TunnelWindow]
      BY <1>b, <1>d, <1>1, <1>2, <1>3, <1>4, <1>5 DEF TunnelType, Known, TakenDown
    <3> QED BY <3>1, <3>2, <3>3
  <2>2. t = [s EXCEPT !.down = rest, !.opener = opener1, !.sendCredit = sendCredit1] BY <1>s
  <2> HIDE DEF opener1, sendCredit1
  <2>3. t \in TunnelType BY <2>2, <2>1, <1>b, ZenonT(60) DEF TunnelType
  <2>4. /\ t.up = s.up /\ t.down = rest /\ t.ready = s.ready /\ t.over = s.over /\ t.aborted = s.aborted
        /\ t.late = s.late /\ t.opener = opener1 /\ t.waiters = s.waiters /\ t.slots = s.slots
        /\ t.sockets = s.sockets /\ t.destroyed = s.destroyed /\ t.remoteClosed = s.remoteClosed
        /\ t.acking = s.acking /\ t.ended = s.ended /\ t.remoteEnded = s.remoteEnded
        /\ t.backpressured = s.backpressured /\ t.sendCredit = sendCredit1 /\ t.recvCredit = s.recvCredit
        /\ t.withheld = s.withheld /\ t.pending = s.pending /\ t.buffer = s.buffer /\ t.writing = s.writing
        /\ t.unwritten = s.unwritten /\ t.unread = s.unread /\ t.conns = s.conns
        /\ t.connected = s.connected /\ t.nodeDestroyed = s.nodeDestroyed /\ t.outCredit = s.outCredit
        /\ t.inCredit = s.inCredit /\ t.input = s.input /\ t.chunk = s.chunk /\ t.accused = s.accused
        /\ t.refused = s.refused
    BY <2>2, <1>b DEF TunnelType
  <2>5. opener1[d] = "done" /\ \A c \in TunnelConn : c # d => opener1[c] = s.opener[c]
    BY <1>b DEF opener1, TunnelType
  <2>6. sendCredit1[d] = TunnelWindow /\ \A c \in TunnelConn : c # d => sendCredit1[c] = s.sendCredit[c]
    BY <1>b DEF sendCredit1, TunnelType
  <2>7. ASSUME NEW c \in TunnelConn, c # d PROVE Same(s, t, c)
    <3>1. SameWire(s.up, t.up, c) /\ SameWire(s.down, t.down, c)
      BY <2>7, <2>4, <2>5, <2>6 DEF SameWire, TakenDown
    <3> QED BY <2>7, <3>1, <2>4, <2>5, <2>6 DEF Same
  <2>8. Fresh(t, d)
    BY <1>c, <1>d, <1>1, <1>2, <1>3, <1>4, <1>5, <2>4, <2>5, <2>6 DEF Known, TakenDown, Fresh, Still, Heard, Agree
  <2>9. Heard(t, d)
    BY <1>c, <1>d, <1>1, <1>2, <1>3, <1>4, <1>5, <2>4, <2>5, <2>6 DEF Known, TakenDown, Heard, Fresh, Still, Agree
  <2>10. Credit(t, d)
    <3>1. fromNode(t, d) = fromNode(s, d) /\ fromNode(s, d) \in Nat
      BY <1>d, <1>1, <1>2, <1>3, <1>4, <1>5, <2>4, <2>5, <2>6 DEF Known, TakenDown, fromNode
    <3>2. fromClient(t, d) = TunnelWindow /\ fromClient(s, d) \in Nat
      BY <1>d, <1>1, <1>2, <1>3, <1>4, <1>5, <2>4, <2>5, <2>6 DEF Known, TakenDown, fromClient
    <3>3. Live(t, d) => Live(s, d)
      BY <1>c, <1>d, <1>1, <1>2, <1>3, <1>4, <1>5, <2>4, <2>5, <2>6 DEF Live, Known, TakenDown, Fresh, Still, Heard, Agree
    <3> QED BY <1>c, <1>d, <1>1, <1>2, <1>3, <1>4, <1>5, <2>4, <2>5, <2>6, <3>1, <3>2, <3>3 DEF Known, TakenDown, Credit
  <2>11. Agree(t, d)
    BY <1>c, <1>d, <1>1, <1>2, <1>3, <1>4, <1>5, <2>4, <2>5, <2>6 DEF Known, TakenDown, Agree, Fresh, Still, Heard
  <2>12. Owed(t, d, 0)
    BY <1>c, <1>d, <1>1, <1>2, <1>3, <1>4, <1>5, <2>4, <2>5, <2>6 DEF Known, TakenDown, Owed
  <2>13. TunnelSlotInv(t)
    <3>1. t.opener \in [TunnelConn -> OpenerState] BY <2>3 DEF TunnelType
    <3> QED BY <1>b, <3>1, <2>4, <2>5, <2>6, <1>1, <1>2, <1>3, <1>4, <1>5, SlotsSame
  <2>14. RoomInv(t) BY <1>b, <2>4 DEF RoomInv, roomFor
  <2> QED BY <1>b, <2>3, <2>4, <2>7, <2>8, <2>9, <2>10, <2>11, <2>12, <2>13, <2>14, TunnelKept
<1> QED BY <1>s

LEMMA DataArrives ==
    ASSUME NEW s, NEW d \in TunnelConn, TunnelOK(s, d, 0),
           NEW f, NEW rest \in DownWires, TakenDown(s.down, rest, f, d), f.type = "data", d \in s.sockets
    PROVE  \A t : t = [s EXCEPT !.down = rest, !.recvCredit = [s.recvCredit EXCEPT ![d] = s.recvCredit[d] - f.bytes]] => TunnelOK(t, d, f.bytes)
<1>b. s \in TunnelType /\ s.accused = {} /\ TunnelSlotInv(s) /\ RoomInv(s) /\ \A c \in TunnelConn : ConnInv(s, c) /\ Owed(s, c, IF c = d THEN 0 ELSE 0)
  BY DEF TunnelOK
<1>c. Fresh(s, d) /\ Heard(s, d) /\ Credit(s, d) /\ Agree(s, d) /\ Owed(s, d, 0) BY <1>b DEF ConnInv
<1>d. Known(s, d) BY <1>b, WhatIsKnown
<1>w. s.up \in Seq(UpFrame) /\ s.down \in Seq(DownFrame) BY <1>b DEF TunnelType
<1>e. s.over \in BOOLEAN /\ s.late \in BOOLEAN BY <1>b DEF TunnelType
<1>1. f.bytes <= s.recvCredit[d] BY <1>c, <1>d DEF Known, TakenDown, Credit, fromNode
<1>2. ~onWire(s.up, "open", d) /\ s.opener[d] \notin {"none", "waiting", "granted"}
  BY <1>c DEF Fresh, Still, TakenDown
<1>s. ASSUME NEW t, t = [s EXCEPT !.down = rest, !.recvCredit = [s.recvCredit EXCEPT ![d] = s.recvCredit[d] - f.bytes]]
      PROVE  TunnelOK(t, d, f.bytes)
  <2> DEFINE recvCredit1 == [s.recvCredit EXCEPT ![d] = s.recvCredit[d] - f.bytes]
  <2>1. /\ rest \in Seq(DownFrame) /\ recvCredit1 \in [TunnelConn -> 0..TunnelWindow]
    <3>1. rest \in Seq(DownFrame) BY DEF DownWires
    <3>2. recvCredit1 \in [TunnelConn -> 0..TunnelWindow]
      <4>1. s.recvCredit \in [TunnelConn -> 0..TunnelWindow] /\ s.recvCredit[d] \in 0..TunnelWindow
        BY <1>b DEF TunnelType
      <4>2. s.recvCredit[d] - f.bytes \in 0..TunnelWindow BY <1>d, <1>1, <1>2 DEF Known, TakenDown
      <4> QED BY <4>1, <4>2
    <3> QED BY <3>1, <3>2
  <2>2. t = [s EXCEPT !.down = rest, !.recvCredit = recvCredit1] BY <1>s
  <2> HIDE DEF recvCredit1
  <2>3. t \in TunnelType BY <2>2, <2>1, <1>b, ZenonT(60) DEF TunnelType
  <2>4. /\ t.up = s.up /\ t.down = rest /\ t.ready = s.ready /\ t.over = s.over /\ t.aborted = s.aborted
        /\ t.late = s.late /\ t.opener = s.opener /\ t.waiters = s.waiters /\ t.slots = s.slots
        /\ t.sockets = s.sockets /\ t.destroyed = s.destroyed /\ t.remoteClosed = s.remoteClosed
        /\ t.acking = s.acking /\ t.ended = s.ended /\ t.remoteEnded = s.remoteEnded
        /\ t.backpressured = s.backpressured /\ t.sendCredit = s.sendCredit /\ t.recvCredit = recvCredit1
        /\ t.withheld = s.withheld /\ t.pending = s.pending /\ t.buffer = s.buffer /\ t.writing = s.writing
        /\ t.unwritten = s.unwritten /\ t.unread = s.unread /\ t.conns = s.conns
        /\ t.connected = s.connected /\ t.nodeDestroyed = s.nodeDestroyed /\ t.outCredit = s.outCredit
        /\ t.inCredit = s.inCredit /\ t.input = s.input /\ t.chunk = s.chunk /\ t.accused = s.accused
        /\ t.refused = s.refused
    BY <2>2, <1>b DEF TunnelType
  <2>5. recvCredit1[d] = s.recvCredit[d] - f.bytes /\ \A c \in TunnelConn : c # d => recvCredit1[c] = s.recvCredit[c]
    BY <1>b DEF recvCredit1, TunnelType
  <2>6. ASSUME NEW c \in TunnelConn, c # d PROVE Same(s, t, c)
    <3>1. SameWire(s.up, t.up, c) /\ SameWire(s.down, t.down, c)
      BY <2>6, <2>4, <2>5 DEF SameWire, TakenDown
    <3> QED BY <2>6, <3>1, <2>4, <2>5 DEF Same
  <2>7. Fresh(t, d)
    BY <1>c, <1>d, <1>1, <1>2, <2>4, <2>5 DEF Known, TakenDown, Fresh, Still, Heard, Agree
  <2>8. Heard(t, d)
    BY <1>c, <1>d, <1>1, <1>2, <2>4, <2>5 DEF Known, TakenDown, Heard, Fresh, Still, Agree
  <2>9. Credit(t, d)
    <3>1. fromNode(t, d) = fromNode(s, d) - f.bytes /\ fromNode(s, d) \in Nat
      BY <1>d, <1>1, <1>2, <2>4, <2>5 DEF Known, TakenDown, fromNode
    <3>2. fromClient(t, d) = fromClient(s, d) /\ fromClient(s, d) \in Nat
      BY <1>d, <1>1, <1>2, <2>4, <2>5 DEF Known, TakenDown, fromClient
    <3>3. Live(t, d) => Live(s, d) /\ (t.opener[d] = "done" => s.opener[d] = "done")
      BY <1>c, <1>d, <1>1, <1>2, <2>4, <2>5 DEF Live, Known, TakenDown, Fresh, Still, Heard, Agree
    <3> QED BY <1>c, <1>d, <1>1, <1>2, <2>4, <2>5, <3>1, <3>2, <3>3 DEF Known, TakenDown, Credit
  <2>10. Agree(t, d)
    BY <1>c, <1>d, <1>1, <1>2, <2>4, <2>5 DEF Known, TakenDown, Agree, Fresh, Still, Heard
  <2>11. Owed(t, d, f.bytes) BY <1>c, <1>d, <1>1, <1>2, <2>4, <2>5 DEF Known, TakenDown, Owed
  <2>12. TunnelSlotInv(t) BY <1>b, <2>4 DEF TunnelSlotInv, grantedOf
  <2>13. RoomInv(t) BY <1>b, <2>4 DEF RoomInv, roomFor
  <2> QED BY <1>b, <2>3, <2>4, <2>6, <2>7, <2>8, <2>9, <2>10, <2>11, <2>12, <2>13, TunnelKept
<1> QED BY <1>s

LEMMA CreditArrives ==
    ASSUME NEW s, NEW d \in TunnelConn, TunnelOK(s, d, 0),
           NEW f, NEW rest \in DownWires, TakenDown(s.down, rest, f, d), f.type = "credit"
    PROVE  \A t : t = [s EXCEPT !.down = rest, !.sendCredit = [s.sendCredit EXCEPT ![d] = s.sendCredit[d] + f.bytes]] => TunnelOK(t, d, 0)
<1>b. s \in TunnelType /\ s.accused = {} /\ TunnelSlotInv(s) /\ RoomInv(s) /\ \A c \in TunnelConn : ConnInv(s, c) /\ Owed(s, c, IF c = d THEN 0 ELSE 0)
  BY DEF TunnelOK
<1>c. Fresh(s, d) /\ Heard(s, d) /\ Credit(s, d) /\ Agree(s, d) /\ Owed(s, d, 0) BY <1>b DEF ConnInv
<1>d. Known(s, d) BY <1>b, WhatIsKnown
<1>w. s.up \in Seq(UpFrame) /\ s.down \in Seq(DownFrame) BY <1>b DEF TunnelType
<1>e. s.over \in BOOLEAN /\ s.late \in BOOLEAN BY <1>b DEF TunnelType
<1>1. s.sendCredit[d] + f.bytes <= TunnelWindow
  BY <1>c, <1>d DEF Known, TakenDown, Credit, fromClient
<1>2. d \in s.connected /\ ~onWire(s.down, "opened", d) /\ ~onWire(s.up, "open", d) /\ s.opener[d] \notin {"none", "waiting", "granted"}
  BY <1>c, <1>d DEF Heard, Fresh, Still, TakenDown
<1>s. ASSUME NEW t, t = [s EXCEPT !.down = rest, !.sendCredit = [s.sendCredit EXCEPT ![d] = s.sendCredit[d] + f.bytes]]
      PROVE  TunnelOK(t, d, 0)
  <2> DEFINE sendCredit1 == [s.sendCredit EXCEPT ![d] = s.sendCredit[d] + f.bytes]
  <2>1. /\ rest \in Seq(DownFrame) /\ sendCredit1 \in [TunnelConn -> 0..TunnelWindow]
    <3>1. rest \in Seq(DownFrame) BY DEF DownWires
    <3>2. sendCredit1 \in [TunnelConn -> 0..TunnelWindow]
      <4>1. s.sendCredit \in [TunnelConn -> 0..TunnelWindow] /\ s.sendCredit[d] \in 0..TunnelWindow
        BY <1>b DEF TunnelType
      <4>2. s.sendCredit[d] + f.bytes \in 0..TunnelWindow BY <1>d, <1>1, <1>2 DEF Known, TakenDown
      <4> QED BY <4>1, <4>2
    <3> QED BY <3>1, <3>2
  <2>2. t = [s EXCEPT !.down = rest, !.sendCredit = sendCredit1] BY <1>s
  <2> HIDE DEF sendCredit1
  <2>3. t \in TunnelType BY <2>2, <2>1, <1>b, ZenonT(60) DEF TunnelType
  <2>4. /\ t.up = s.up /\ t.down = rest /\ t.ready = s.ready /\ t.over = s.over /\ t.aborted = s.aborted
        /\ t.late = s.late /\ t.opener = s.opener /\ t.waiters = s.waiters /\ t.slots = s.slots
        /\ t.sockets = s.sockets /\ t.destroyed = s.destroyed /\ t.remoteClosed = s.remoteClosed
        /\ t.acking = s.acking /\ t.ended = s.ended /\ t.remoteEnded = s.remoteEnded
        /\ t.backpressured = s.backpressured /\ t.sendCredit = sendCredit1 /\ t.recvCredit = s.recvCredit
        /\ t.withheld = s.withheld /\ t.pending = s.pending /\ t.buffer = s.buffer /\ t.writing = s.writing
        /\ t.unwritten = s.unwritten /\ t.unread = s.unread /\ t.conns = s.conns
        /\ t.connected = s.connected /\ t.nodeDestroyed = s.nodeDestroyed /\ t.outCredit = s.outCredit
        /\ t.inCredit = s.inCredit /\ t.input = s.input /\ t.chunk = s.chunk /\ t.accused = s.accused
        /\ t.refused = s.refused
    BY <2>2, <1>b DEF TunnelType
  <2>5. sendCredit1[d] = s.sendCredit[d] + f.bytes /\ \A c \in TunnelConn : c # d => sendCredit1[c] = s.sendCredit[c]
    BY <1>b DEF sendCredit1, TunnelType
  <2>6. ASSUME NEW c \in TunnelConn, c # d PROVE Same(s, t, c)
    <3>1. SameWire(s.up, t.up, c) /\ SameWire(s.down, t.down, c)
      BY <2>6, <2>4, <2>5 DEF SameWire, TakenDown
    <3> QED BY <2>6, <3>1, <2>4, <2>5 DEF Same
  <2>7. Fresh(t, d)
    BY <1>c, <1>d, <1>1, <1>2, <2>4, <2>5 DEF Known, TakenDown, Fresh, Still, Heard, Agree
  <2>8. Heard(t, d)
    BY <1>c, <1>d, <1>1, <1>2, <2>4, <2>5 DEF Known, TakenDown, Heard, Fresh, Still, Agree
  <2>9. Credit(t, d)
    <3>1. fromNode(t, d) = fromNode(s, d) /\ fromNode(s, d) \in Nat
      BY <1>d, <1>1, <1>2, <2>4, <2>5 DEF Known, TakenDown, fromNode
    <3>2. fromClient(t, d) = fromClient(s, d) /\ fromClient(s, d) \in Nat
      BY <1>d, <1>1, <1>2, <2>4, <2>5 DEF Known, TakenDown, fromClient
    <3>3. Live(t, d) => Live(s, d) /\ (t.opener[d] = "done" => s.opener[d] = "done")
      BY <1>c, <1>d, <1>1, <1>2, <2>4, <2>5 DEF Live, Known, TakenDown, Fresh, Still, Heard, Agree
    <3> QED BY <1>c, <1>d, <1>1, <1>2, <2>4, <2>5, <3>1, <3>2, <3>3 DEF Known, TakenDown, Credit
  <2>10. Agree(t, d)
    BY <1>c, <1>d, <1>1, <1>2, <2>4, <2>5 DEF Known, TakenDown, Agree, Fresh, Still, Heard
  <2>11. Owed(t, d, 0) BY <1>c, <1>d, <1>1, <1>2, <2>4, <2>5 DEF Known, TakenDown, Owed
  <2>12. TunnelSlotInv(t) BY <1>b, <2>4 DEF TunnelSlotInv, grantedOf
  <2>13. RoomInv(t) BY <1>b, <2>4 DEF RoomInv, roomFor
  <2> QED BY <1>b, <2>3, <2>4, <2>6, <2>7, <2>8, <2>9, <2>10, <2>11, <2>12, <2>13, TunnelKept
<1> QED BY <1>s

LEMMA EndArrives ==
    ASSUME NEW s, NEW d \in TunnelConn, TunnelOK(s, d, 0),
           NEW f, NEW rest \in DownWires, TakenDown(s.down, rest, f, d), f.type = "end", d \in s.sockets
    PROVE  \A t : t = [s EXCEPT !.down = rest, !.remoteEnded = s.remoteEnded \cup {d}] => TunnelOK(t, d, 0)
<1>b. s \in TunnelType /\ s.accused = {} /\ TunnelSlotInv(s) /\ RoomInv(s) /\ \A c \in TunnelConn : ConnInv(s, c) /\ Owed(s, c, IF c = d THEN 0 ELSE 0)
  BY DEF TunnelOK
<1>c. Fresh(s, d) /\ Heard(s, d) /\ Credit(s, d) /\ Agree(s, d) /\ Owed(s, d, 0) BY <1>b DEF ConnInv
<1>d. Known(s, d) BY <1>b, WhatIsKnown
<1>w. s.up \in Seq(UpFrame) /\ s.down \in Seq(DownFrame) BY <1>b DEF TunnelType
<1>e. s.over \in BOOLEAN /\ s.late \in BOOLEAN BY <1>b DEF TunnelType
<1>s. ASSUME NEW t, t = [s EXCEPT !.down = rest, !.remoteEnded = s.remoteEnded \cup {d}]
      PROVE  TunnelOK(t, d, 0)
  <2> DEFINE remoteEnded1 == s.remoteEnded \cup {d}
  <2>1. /\ rest \in Seq(DownFrame) /\ remoteEnded1 \in SUBSET TunnelConn
    <3>1. rest \in Seq(DownFrame) BY DEF DownWires
    <3>2. remoteEnded1 \in SUBSET TunnelConn BY <1>b, <1>d DEF TunnelType, Known, TakenDown
    <3> QED BY <3>1, <3>2
  <2>2. t = [s EXCEPT !.down = rest, !.remoteEnded = remoteEnded1] BY <1>s
  <2> HIDE DEF remoteEnded1
  <2>3. t \in TunnelType BY <2>2, <2>1, <1>b DEF TunnelType
  <2>4. /\ t.up = s.up /\ t.down = rest /\ t.ready = s.ready /\ t.over = s.over /\ t.aborted = s.aborted
        /\ t.late = s.late /\ t.opener = s.opener /\ t.waiters = s.waiters /\ t.slots = s.slots
        /\ t.sockets = s.sockets /\ t.destroyed = s.destroyed /\ t.remoteClosed = s.remoteClosed
        /\ t.acking = s.acking /\ t.ended = s.ended /\ t.remoteEnded = remoteEnded1
        /\ t.backpressured = s.backpressured /\ t.sendCredit = s.sendCredit /\ t.recvCredit = s.recvCredit
        /\ t.withheld = s.withheld /\ t.pending = s.pending /\ t.buffer = s.buffer /\ t.writing = s.writing
        /\ t.unwritten = s.unwritten /\ t.unread = s.unread /\ t.conns = s.conns
        /\ t.connected = s.connected /\ t.nodeDestroyed = s.nodeDestroyed /\ t.outCredit = s.outCredit
        /\ t.inCredit = s.inCredit /\ t.input = s.input /\ t.chunk = s.chunk /\ t.accused = s.accused
        /\ t.refused = s.refused
    BY <2>2, <1>b DEF TunnelType
  <2>5. d \in remoteEnded1 /\ \A c : c # d => (c \in remoteEnded1 <=> c \in s.remoteEnded)
    BY DEF remoteEnded1
  <2>6. ASSUME NEW c \in TunnelConn, c # d PROVE Same(s, t, c)
    <3>1. SameWire(s.up, t.up, c) /\ SameWire(s.down, t.down, c)
      BY <2>6, <2>4, <2>5 DEF SameWire, TakenDown
    <3> QED BY <2>6, <3>1, <2>4, <2>5 DEF Same
  <2>7. Fresh(t, d) BY <1>c, <1>d, <2>4, <2>5 DEF Known, TakenDown, Fresh, Still, Heard, Agree
  <2>8. Heard(t, d) BY <1>c, <1>d, <2>4, <2>5 DEF Known, TakenDown, Heard, Fresh, Still, Agree
  <2>9. Credit(t, d)
    <3>1. fromNode(t, d) = fromNode(s, d) /\ fromNode(s, d) \in Nat
      BY <1>d, <2>4, <2>5 DEF Known, TakenDown, fromNode
    <3>2. fromClient(t, d) = fromClient(s, d) /\ fromClient(s, d) \in Nat
      BY <1>d, <2>4, <2>5 DEF Known, TakenDown, fromClient
    <3>3. Live(t, d) => Live(s, d) /\ (t.opener[d] = "done" => s.opener[d] = "done")
      BY <1>c, <1>d, <2>4, <2>5 DEF Live, Known, TakenDown, Fresh, Still, Heard, Agree
    <3> QED BY <1>c, <1>d, <2>4, <2>5, <3>1, <3>2, <3>3 DEF Known, TakenDown, Credit
  <2>10. Agree(t, d) BY <1>c, <1>d, <2>4, <2>5 DEF Known, TakenDown, Agree, Fresh, Still, Heard
  <2>11. Owed(t, d, 0) BY <1>c, <1>d, <2>4, <2>5 DEF Known, TakenDown, Owed
  <2>12. TunnelSlotInv(t) BY <1>b, <2>4 DEF TunnelSlotInv, grantedOf
  <2>13. RoomInv(t) BY <1>b, <2>4 DEF RoomInv, roomFor
  <2> QED BY <1>b, <2>3, <2>4, <2>6, <2>7, <2>8, <2>9, <2>10, <2>11, <2>12, <2>13, TunnelKept
<1> QED BY <1>s

\* What holds of the whole tunnel, and as seen from one of its connections.
Orderly(s) ==
    /\ s \in TunnelType /\ s.accused = {} /\ TunnelSlotInv(s) /\ RoomInv(s)
    /\ \A c \in TunnelConn : ConnInv(s, c) /\ Owed(s, c, 0)

LEMMA OrderlyAt ==
    ASSUME NEW s, NEW d \in TunnelConn
    PROVE  Orderly(s) <=> TunnelOK(s, d, 0)
<1>1. \A c \in TunnelConn : (IF c = d THEN 0 ELSE 0) = 0 OBVIOUS
<1> QED BY <1>1 DEF Orderly, TunnelOK

\* The end of the session finishes every socket, and all who wait for one.
LEMMA FinishedHolds ==
    ASSUME NEW s, Orderly(s), s.over = FALSE
    PROVE  Orderly(sessionFinished(s))
<1>1. s \in TunnelType /\ s.accused = {} /\ TunnelSlotInv(s) /\ RoomInv(s) /\ \A c \in TunnelConn : ConnInv(s, c)
  BY DEF Orderly
<1> DEFINE t == sessionFinished(s)
           o == [c \in TunnelConn |-> IF s.opener[c] \in {"waiting", "opening"} THEN "failed" ELSE s.opener[c]]
           k == s.slots - Cardinality(s.sockets)
<1>2. /\ t.up = s.up /\ t.down = s.down /\ t.over = TRUE /\ t.aborted = s.aborted /\ t.late = s.late
      /\ t.opener = o /\ t.waiters = << >> /\ t.slots = k /\ t.sockets = {} /\ t.acking = {}
      /\ t.remoteClosed = s.remoteClosed \cup s.sockets /\ t.destroyed = s.destroyed \cup s.sockets
      /\ t.remoteEnded = s.remoteEnded /\ t.sendCredit = s.sendCredit /\ t.recvCredit = s.recvCredit
      /\ t.withheld = s.withheld /\ t.pending = s.pending /\ t.buffer = s.buffer /\ t.writing = s.writing
      /\ t.conns = s.conns /\ t.connected = s.connected /\ t.nodeDestroyed = s.nodeDestroyed
      /\ t.outCredit = s.outCredit /\ t.inCredit = s.inCredit /\ t.input = s.input /\ t.chunk = s.chunk
      /\ t.accused = s.accused /\ t.refused = s.refused
  BY <1>1 DEF sessionFinished, TunnelType
<1>3. /\ o \in [TunnelConn -> OpenerState]
      /\ \A c \in TunnelConn : (o[c] \in {"none", "waiting", "granted"} => s.opener[c] \in {"none", "granted"}) /\ (o[c] = "done" <=> s.opener[c] = "done")
  BY <1>1 DEF TunnelType, OpenerState
<1>4. TunnelSlotInv(t) /\ k \in 0..MaxConnections
  <2> HIDE DEF t, k
  <2> QED BY <1>1, <1>2, SlotsFinished, ZenonT(60) DEF k
<1>5. t \in TunnelType
  <2>1. t = [s EXCEPT !.over = TRUE, !.waiters = << >>, !.slots = k, !.sockets = {}, !.acking = {},
                      !.remoteClosed = s.remoteClosed \cup s.sockets, !.destroyed = s.destroyed \cup s.sockets, !.opener = o]
    BY <1>1 DEF sessionFinished, TunnelType
  <2>2. /\ s \in TunnelType /\ o \in [TunnelConn -> OpenerState] /\ k \in 0..MaxConnections /\ << >> \in Seq(TunnelConn)
        /\ s.remoteClosed \cup s.sockets \in SUBSET TunnelConn /\ s.destroyed \cup s.sockets \in SUBSET TunnelConn
    BY <1>1, <1>3, <1>4, SMTT(30) DEF TunnelType
  <2> HIDE DEF t, o, k
  <2> QED BY <2>1, <2>2, ZenonT(60) DEF TunnelType
<1> HIDE DEF t, o, k
<1>6. ASSUME NEW c \in TunnelConn PROVE ConnInv(t, c) /\ Owed(t, c, 0)
  <2>1. Fresh(s, c) /\ Heard(s, c) /\ Credit(s, c) /\ Agree(s, c) BY <1>1 DEF ConnInv
  <2>2. Fresh(t, c)
    <3>1. Still(s, c) => Still(t, c)
      <4>1. /\ t.down = s.down /\ t.conns = s.conns /\ t.connected = s.connected /\ t.nodeDestroyed = s.nodeDestroyed
            /\ t.remoteEnded = s.remoteEnded /\ t.outCredit = s.outCredit /\ t.inCredit = s.inCredit /\ t.chunk = s.chunk
            /\ t.input = s.input /\ t.sendCredit = s.sendCredit /\ t.writing = s.writing /\ t.pending = s.pending
            /\ t.withheld = s.withheld /\ t.buffer = s.buffer
        BY <1>2
      <4> QED BY <4>1 DEF Still
    <3>2. t.opener[c] \in {"none", "waiting", "granted"} => s.opener[c] \in {"none", "waiting", "granted"}
      BY <1>2, <1>3
    <3>3. t.up = s.up /\ t.over = TRUE /\ t.recvCredit = s.recvCredit /\ c \notin t.sockets BY <1>2
    <3>4. c \notin s.sockets /\ c \notin s.destroyed => c \notin t.destroyed BY <1>2
    <3>5. c \notin s.sockets /\ c \notin s.remoteClosed => c \notin t.remoteClosed BY <1>2
    <3> QED BY <2>1, <3>1, <3>2, <3>3, <3>4, <3>5 DEF Fresh
  <2>3. Heard(t, c) BY <1>2, <1>3, <2>1 DEF Heard
  <2>4. Credit(t, c) BY <1>2, <2>1 DEF Credit, Live, fromNode, fromClient
  <2>5. Agree(t, c) BY <1>2, <2>1 DEF Agree
  <2> QED BY <1>2, <2>2, <2>3, <2>4, <2>5 DEF ConnInv, Owed
<1>7. RoomInv(t) BY <1>1, <1>2 DEF RoomInv, roomFor
<1> QED BY <1>1, <1>2, <1>4, <1>5, <1>6, <1>7 DEF Orderly, t

\* The node disposes of its connections when the call is gone.
LEMMA AbortHolds ==
    ASSUME NEW s, Orderly(s), s.aborted = FALSE
    PROVE  Orderly([s EXCEPT !.aborted = TRUE, !.nodeDestroyed = s.nodeDestroyed \cup s.conns, !.conns = {}])
<1>1. s \in TunnelType /\ s.accused = {} /\ TunnelSlotInv(s) /\ RoomInv(s) /\ \A c \in TunnelConn : ConnInv(s, c) /\ Owed(s, c, 0)
  BY DEF Orderly
<1> DEFINE t == [s EXCEPT !.aborted = TRUE, !.nodeDestroyed = s.nodeDestroyed \cup s.conns, !.conns = {}]
<1>2. /\ t.up = s.up /\ t.down = s.down /\ t.over = s.over /\ t.aborted = TRUE /\ t.late = s.late
      /\ t.opener = s.opener /\ t.waiters = s.waiters /\ t.slots = s.slots /\ t.sockets = s.sockets /\ t.acking = s.acking
      /\ t.remoteClosed = s.remoteClosed /\ t.destroyed = s.destroyed
      /\ t.remoteEnded = s.remoteEnded /\ t.sendCredit = s.sendCredit /\ t.recvCredit = s.recvCredit
      /\ t.withheld = s.withheld /\ t.pending = s.pending /\ t.buffer = s.buffer /\ t.writing = s.writing
      /\ t.conns = {} /\ t.connected = s.connected /\ t.nodeDestroyed = s.nodeDestroyed \cup s.conns
      /\ t.outCredit = s.outCredit /\ t.inCredit = s.inCredit /\ t.input = s.input /\ t.chunk = s.chunk
      /\ t.accused = s.accused /\ t.refused = s.refused
  BY <1>1 DEF TunnelType
<1>3. t \in TunnelType BY <1>1 DEF TunnelType
<1>4. s.over \in BOOLEAN /\ s.late \in BOOLEAN BY <1>1 DEF TunnelType
<1> HIDE DEF t
<1>5. TunnelSlotInv(t) BY <1>1, <1>2 DEF TunnelSlotInv, grantedOf
<1>6. RoomInv(t)
  <2>1. roomFor(t) \subseteq roomFor(s) BY <1>2 DEF roomFor
  <2> QED BY <1>1, <1>2, <1>4, <2>1, RoomFewer
<1>7. ASSUME NEW c \in TunnelConn PROVE ConnInv(t, c) /\ Owed(t, c, 0)
  <2>1. Fresh(s, c) /\ Heard(s, c) /\ Credit(s, c) /\ Agree(s, c) /\ Owed(s, c, 0)
    BY <1>1 DEF ConnInv
  <2>2. Fresh(t, c) BY <1>2, <2>1 DEF Fresh, Still
  <2>3. Heard(t, c) BY <1>2, <2>1 DEF Heard
  <2>4. Credit(t, c) BY <1>2, <2>1 DEF Credit, Live, fromNode, fromClient
  <2>5. Agree(t, c) BY <1>2, <2>1 DEF Agree
  <2>6. Owed(t, c, 0) BY <1>2, <2>1 DEF Owed
  <2> QED BY <2>2, <2>3, <2>4, <2>5, <2>6 DEF ConnInv
<1> QED BY <1>1, <1>2, <1>3, <1>5, <1>6, <1>7 DEF Orderly, t

\* What is received goes to the buffer, or waits behind what is pending.
LEMMA ReceivedHolds ==
    ASSUME NEW s, NEW d \in TunnelConn, NEW g \in Nat, NEW n \in 1..FrameLimit, TunnelOK(s, d, g + n), d \in s.sockets, s.over = FALSE
    PROVE  TunnelOK(received(s, d, n), d, g) /\ d \in received(s, d, n).sockets /\ received(s, d, n).over = FALSE
<1>1. s \in TunnelType BY DEF TunnelOK
<1>2. n \in Nat \ {0} /\ n \in Nat BY TunnelAssumption
<1>3. s.pending[d] \in PendingQueue /\ s.pending[d] \in Seq(Nat)
  BY <1>1, ConnNumbers DEF TunnelType, PendingQueue
<1> DEFINE b == [s.buffer EXCEPT ![d] = s.buffer[d] + n]
           q == Append(s.pending[d], n)
           u == [s EXCEPT !.up = Append(s.up, frame("credit", d, n)),
                          !.recvCredit = [s.recvCredit EXCEPT ![d] = s.recvCredit[d] + n], !.buffer = b]
           w == [s EXCEPT !.backpressured = s.backpressured \cup {d},
                          !.withheld = [s.withheld EXCEPT ![d] = s.withheld[d] + n], !.buffer = b]
           p == [s EXCEPT !.pending = [s.pending EXCEPT ![d] = q]]
           r == received(s, d, n)
<1>4. r = u \/ r = w \/ r = p
  <2>1. CASE d \notin s.backpressured /\ s.pending[d] = << >>
    <3> DEFINE v == [s EXCEPT !.buffer = b]
    <3>1. r = pushed(s, d, n) BY <2>1 DEF received
    <3>2. v.over = FALSE /\ v.up = s.up /\ v.recvCredit = s.recvCredit /\ v.buffer = b /\ v.withheld = s.withheld
          /\ v.backpressured = s.backpressured
      BY <1>1 DEF TunnelType
    <3>3. granted(v, d, n) = u BY <1>1 DEF granted, toNode, TunnelType
    <3>4. [v EXCEPT !.backpressured = v.backpressured \cup {d}, !.withheld[d] = @ + n] = w
      BY <1>1 DEF TunnelType
    <3> HIDE DEF u, w
    <3>5. pushed(s, d, n) = u \/ pushed(s, d, n) = w BY <3>3, <3>4 DEF pushed
    <3> QED BY <3>1, <3>5
  <2>2. CASE ~(d \notin s.backpressured /\ s.pending[d] = << >>) BY <2>2 DEF received
  <2> QED BY <2>1, <2>2
<1>5. b \in [TunnelConn -> Nat] /\ \A c \in TunnelConn : c # d => b[c] = s.buffer[c]
  BY <1>1, <1>2, SMTT(30) DEF TunnelType
<1>6. q \in PendingQueue /\ total(q) = total(s.pending[d]) + n
  <2>1. total(q) = total(s.pending[d]) + n BY <1>2, <1>3, TotalOf
  <2>2. s.pending[d] \in Seq(1..FrameLimit) BY <1>3 DEF PendingQueue
  <2>3. q \in Seq(1..FrameLimit) BY <2>2
  <2> QED BY <2>1, <2>3 DEF PendingQueue
<1>7. /\ u.sockets = s.sockets /\ u.over = s.over /\ w.sockets = s.sockets /\ w.over = s.over
      /\ p.sockets = s.sockets /\ p.over = s.over
  BY <1>1 DEF TunnelType
<1> HIDE DEF b, q
<1>8. TunnelOK(u, d, g)
  <2>1. \A t : t = u => TunnelOK(t, d, g) BY <1>2, <1>5, GrantedHolds
  <2> HIDE DEF u
  <2> QED BY <2>1
<1>9. TunnelOK(w, d, g)
  <2>1. \A t : t = w => TunnelOK(t, d, g) BY <1>2, <1>5, WithheldHolds
  <2> HIDE DEF w
  <2> QED BY <2>1
<1>10. TunnelOK(p, d, g)
  <2>1. \A t : t = p => TunnelOK(t, d, g) BY <1>2, <1>6, PendingHolds
  <2> HIDE DEF p
  <2> QED BY <2>1
<1> HIDE DEF u, w, p, r
<1>11. TunnelOK(r, d, g) /\ d \in r.sockets /\ r.over = FALSE BY <1>4, <1>7, <1>8, <1>9, <1>10
<1> QED BY <1>11 DEF r

\* One chunk after the other.
LEMMA AllReceivedHolds ==
    ASSUME NEW s, NEW d \in TunnelConn, NEW chunks \in PendingQueue, TunnelOK(s, d, total(chunks)), d \in s.sockets, s.over = FALSE
    PROVE  TunnelOK(allReceived(s, d, chunks), d, 0)
<1> DEFINE L == Len(chunks)
           R(x, i) == received(x, d, chunks[i])
<1>1. L \in Nat /\ chunks \in Seq(Nat) /\ \A i \in 1..L : chunks[i] \in 1..FrameLimit /\ chunks[i] \in Nat
  BY TunnelAssumption DEF PendingQueue
<1>2. PICK m : Sums(m, chunks) BY <1>1, SumsExist
<1>3. m \in [0..L -> Nat] /\ m[0] = 0 /\ \A k \in 1..L : m[k] = m[k - 1] + chunks[k]
  BY <1>2 DEF Sums
<1>4. total(chunks) = m[L] BY <1>1, <1>2, TotalIs
<1> HIDE DEF L
<1>5. ASSUME NEW k \in 0..L PROVE m[k] <= m[L]
  <2> DEFINE T == {i \in 0..L : ~(m[L - i] <= m[L])}
  <2>1. T \in SUBSET (0..L) /\ 0 \notin T BY <1>1, <1>3
  <2>2. ASSUME NEW i \in 1..L, i \in T, i - 1 \notin T PROVE FALSE
    <3>1. i - 1 \in 0..L /\ L - i \in 0..L /\ (L - i) + 1 \in 1..L /\ L - (i - 1) = (L - i) + 1 /\ ((L - i) + 1) - 1 = L - i
      BY <1>1
    <3>2. m[(L - i) + 1] = m[L - i] + chunks[(L - i) + 1] /\ chunks[(L - i) + 1] \in Nat
      BY <1>1, <1>3, <3>1
    <3>3. m[(L - i) + 1] <= m[L] BY <2>2, <3>1
    <3>4. m[L - i] \in Nat /\ m[L] \in Nat BY <1>1, <1>3, <3>1
    <3>5. m[L - i] <= m[L] BY <3>2, <3>3, <3>4
    <3> QED BY <2>2, <3>5
  <2>3. T = {}
    <3> HIDE DEF T
    <3> QED BY <1>1, <2>1, <2>2, FirstWrongIndex
  <2>4. L - k \in 0..L /\ L - (L - k) = k BY <1>1
  <2> QED BY <2>3, <2>4
<1> DEFINE due(k) == m[L] - m[k]
           At(x, k) == TunnelOK(x, d, due(k)) /\ d \in x.sockets /\ x.over = FALSE
<1>6. /\ due(0) = total(chunks) /\ due(L) = 0
      /\ \A k \in 1..L : due(k) \in Nat /\ due(k - 1) = due(k) + chunks[k]
  <2>1. 0 \in 0..L /\ L \in 0..L BY <1>1
  <2>2. m[L] \in Nat /\ m[0] = 0 BY <1>3, <2>1
  <2>3. ASSUME NEW k \in 1..L PROVE due(k) \in Nat /\ due(k - 1) = due(k) + chunks[k]
    <3>1. k \in 0..L /\ k - 1 \in 0..L BY <1>1
    <3>2. m[k] \in Nat /\ m[k - 1] \in Nat /\ m[k] = m[k - 1] + chunks[k] /\ m[k] <= m[L] /\ chunks[k] \in Nat
      BY <1>1, <1>3, <1>5, <3>1
    <3> QED BY <2>2, <3>2
  <2> QED BY <1>4, <2>2, <2>3
<1>7. At(s, 0) BY <1>6
<1> HIDE DEF due
<1>8. ASSUME NEW k \in 1..L, NEW x, At(x, k - 1) PROVE At(R(x, k), k)
  <2>1. due(k) \in Nat /\ chunks[k] \in 1..FrameLimit /\ TunnelOK(x, d, due(k) + chunks[k]) /\ d \in x.sockets /\ x.over = FALSE
    BY <1>1, <1>6, <1>8
  <2> QED BY <2>1, ReceivedHolds
<1> HIDE DEF R
<1> DEFINE Up(f, n) == f = [i \in 0..n |-> IF i = 0 THEN s ELSE R(f[i - 1], i)]
<1>9. \E f : Up(f, L)
  <2> DEFINE T == {n \in 0..L : ~ \E f : Up(f, n)}
  <2>1. T \in SUBSET (0..L) OBVIOUS
  <2>2. 0 \notin T
    <3>1. Up([i \in 0..0 |-> s], 0) OBVIOUS
    <3> HIDE DEF Up
    <3> QED BY <3>1
  <2>3. ASSUME NEW n \in 1..L, n \in T, n - 1 \notin T PROVE FALSE
    <3>1. n - 1 \in 0..L /\ n \in Nat /\ n > 0 BY <1>1
    <3>2. PICK f : Up(f, n - 1)
      <4> HIDE DEF Up
      <4> QED BY <2>3, <3>1
    <3> DEFINE last == R(f[n - 1], n)
               v == [i \in 0..n |-> IF i = n THEN last ELSE f[i]]
    <3>3. 0 \in 0..(n - 1) /\ n - 1 \in 0..(n - 1) /\ n \in 0..n /\ \A i \in 0..n : i # n => i \in 0..(n - 1) /\ (i # 0 => i - 1 \in 0..(n - 1))
      BY <3>1
    <3>4. \A i \in 0..(n - 1) : f[i] = IF i = 0 THEN s ELSE R(f[i - 1], i) BY <3>2
    <3>5. \A i \in 0..(n - 1) : i \in 0..n /\ i # n BY <3>1
    <3>6. v[n] = last /\ \A i \in 0..(n - 1) : v[i] = f[i]
      <4> HIDE DEF last
      <4> QED BY <3>3, <3>5
    <3>7. ASSUME NEW i \in 0..n PROVE v[i] = IF i = 0 THEN s ELSE R(v[i - 1], i)
      <4> HIDE DEF v
      <4>1. CASE i = n BY <3>1, <3>3, <3>6, <4>1
      <4>2. CASE i # n
        <5>1. i \in 0..(n - 1) /\ (i # 0 => i - 1 \in 0..(n - 1)) BY <3>3, <4>2
        <5> QED BY <3>4, <3>6, <5>1
      <4> QED BY <4>1, <4>2
    <3>8. v = [i \in 0..n |-> v[i]]
      <4> HIDE DEF last
      <4> QED OBVIOUS
    <3>9. Up(v, n)
      <4> HIDE DEF v
      <4> QED BY <3>7, <3>8
    <3> HIDE DEF v, Up
    <3> QED BY <2>3, <3>9
  <2>4. T = {}
    <3> HIDE DEF T
    <3> QED BY <1>1, <2>1, <2>2, <2>3, FirstWrongIndex
  <2>5. L \in 0..L BY <1>1
  <2> HIDE DEF Up
  <2> QED BY <2>4, <2>5
<1> DEFINE walk == CHOOSE f : Up(f, L)
<1>10. allReceived(s, d, chunks) = walk[L] BY DEF allReceived, R, L
<1>11. Up(walk, L)
  <2> HIDE DEF Up
  <2> QED BY <1>9
<1> HIDE DEF walk
<1>12. \A i \in 0..L : walk[i] = IF i = 0 THEN s ELSE R(walk[i - 1], i) BY <1>11
<1> HIDE DEF At, Up
<1>13. At(walk[L], L)
  <2> DEFINE T == {i \in 0..L : ~At(walk[i], i)}
  <2>1. T \in SUBSET (0..L) OBVIOUS
  <2>2. 0 \notin T BY <1>1, <1>7, <1>12
  <2>3. ASSUME NEW i \in 1..L, i \in T, i - 1 \notin T PROVE FALSE
    <3>1. i \in 0..L /\ i - 1 \in 0..L /\ i # 0 BY <1>1
    <3>2. At(walk[i - 1], i - 1) BY <2>3, <3>1
    <3>3. At(R(walk[i - 1], i), i) BY <1>8, <3>2
    <3> QED BY <1>12, <2>3, <3>1, <3>3
  <2>4. T = {}
    <3> HIDE DEF T
    <3> QED BY <1>1, <2>1, <2>2, <2>3, FirstWrongIndex
  <2>5. L \in 0..L BY <1>1
  <2> QED BY <2>4, <2>5
<1> QED BY <1>6, <1>10, <1>13 DEF At

\* A socket is there only while the session is.
LEMMA SocketsMeanOpen ==
    ASSUME NEW s, NEW d \in TunnelConn, TunnelOK(s, d, 0)
    PROVE  s \in TunnelType /\ TunnelSlotInv(s) /\ s.over \in BOOLEAN /\ s.aborted \in BOOLEAN /\ s.accused = {}
           /\ (s.sockets # {} => s.over = FALSE) /\ (d \in s.conns => s.aborted = FALSE) /\ Fresh(s, d) /\ Heard(s, d) /\ Credit(s, d) /\ Agree(s, d)
<1>1. s \in TunnelType /\ TunnelSlotInv(s) /\ s.accused = {} /\ Fresh(s, d) /\ Heard(s, d) /\ Credit(s, d) /\ Agree(s, d)
  BY DEF TunnelOK, ConnInv
<1>2. s.over \in BOOLEAN /\ s.aborted \in BOOLEAN BY <1>1 DEF TunnelType
<1> QED BY <1>1, <1>2 DEF TunnelSlotInv, Agree

\* Credit is given for what was owed.
LEMMA CreditGiven ==
    ASSUME NEW s, NEW d \in TunnelConn, NEW g \in Nat, NEW n \in Nat \ {0}, TunnelOK(s, d, g + n), d \in s.sockets, s.over = FALSE
    PROVE  TunnelOK(granted(s, d, n), d, g) /\ d \in granted(s, d, n).sockets /\ granted(s, d, n).over = FALSE
<1>1. s \in TunnelType BY DEF TunnelOK
<1>2. s.buffer \in [TunnelConn -> Nat] BY <1>1 DEF TunnelType
<1> DEFINE u == [s EXCEPT !.up = Append(s.up, frame("credit", d, n)),
                          !.recvCredit = [s.recvCredit EXCEPT ![d] = s.recvCredit[d] + n], !.buffer = s.buffer]
<1>3. granted(s, d, n) = u /\ u.sockets = s.sockets /\ u.over = s.over
  BY <1>1 DEF granted, toNode, TunnelType
<1>4. \A t : t = u => TunnelOK(t, d, g) BY <1>2, GrantedHolds
<1> HIDE DEF u
<1> QED BY <1>3, <1>4

\* What a reader that reads on gets: what is withheld, and what is pending.
LEMMA ReadsOn ==
    ASSUME NEW s, NEW d \in TunnelConn, TunnelOK(s, d, 0), d \in s.sockets, s.buffer[d] # 0
    PROVE  TunnelOK(readMore([s EXCEPT !.buffer[d] = 0], d), d, 0)
<1>1. s \in TunnelType /\ s.over = FALSE BY SocketsMeanOpen
<1>2. << >> \in PendingQueue /\ total(<< >>) = 0 /\ << >> \in Seq(Nat)
  <2>1. << >> \in Seq(Nat) /\ << >> \in Seq(1..FrameLimit) OBVIOUS
  <2> QED BY <2>1, TotalOf DEF PendingQueue
<1>3. s.pending[d] \in PendingQueue /\ total(s.pending[d]) \in Nat /\ s.withheld[d] \in Nat
  BY <1>1, ConnNumbers DEF TunnelType, PendingQueue
<1> DEFINE n == s.withheld[d]
           g == total(s.pending[d])
           x == [s EXCEPT !.buffer[d] = 0]
           t == [x EXCEPT !.backpressured = @ \ {d}, !.withheld[d] = 0, !.pending[d] = << >>]
           flat == [s EXCEPT !.backpressured = s.backpressured \ {d}, !.withheld = [s.withheld EXCEPT ![d] = 0],
                             !.pending = [s.pending EXCEPT ![d] = << >>], !.buffer = [s.buffer EXCEPT ![d] = 0]]
<1>4. t = flat /\ x.withheld = s.withheld /\ x.pending = s.pending BY <1>1 DEF TunnelType
<1>5. flat.sockets = s.sockets /\ flat.over = FALSE BY <1>1 DEF TunnelType
<1>6. TunnelOK(flat, d, n + g)
  <2>1. \A y : y = flat => TunnelOK(y, d, s.withheld[d] + total(s.pending[d]))
    BY <1>1, <1>2, ReadMoreHolds
  <2> HIDE DEF flat
  <2> QED BY <2>1
<1>7. readMore(x, d) = allReceived(IF s.withheld[d] > 0 THEN granted(flat, d, n) ELSE flat, d, s.pending[d])
  <2> HIDE DEF flat, x
  <2> QED BY <1>4 DEF readMore
<1> HIDE DEF flat, x
<1>8. CASE n = 0
  <2>1. readMore(x, d) = allReceived(flat, d, s.pending[d]) BY <1>7, <1>8
  <2>2. TunnelOK(flat, d, g) BY <1>3, <1>6, <1>8
  <2>3. TunnelOK(allReceived(flat, d, s.pending[d]), d, 0) BY <1>3, <1>5, <2>2, AllReceivedHolds
  <2> QED BY <2>1, <2>3 DEF x
<1>9. CASE n # 0
  <2>1. readMore(x, d) = allReceived(granted(flat, d, n), d, s.pending[d]) BY <1>3, <1>7, <1>9
  <2>2. g + n = n + g /\ n \in Nat \ {0} /\ g \in Nat BY <1>3, <1>9
  <2>3. TunnelOK(flat, d, g + n) BY <1>6, <2>2
  <2>4. TunnelOK(granted(flat, d, n), d, g) /\ d \in granted(flat, d, n).sockets /\ granted(flat, d, n).over = FALSE
    <3> HIDE DEF n, g
    <3> QED BY <1>5, <2>2, <2>3, CreditGiven
  <2>5. TunnelOK(allReceived(granted(flat, d, n), d, s.pending[d]), d, 0)
    BY <1>3, <2>4, AllReceivedHolds
  <2> QED BY <2>1, <2>5 DEF x
<1> QED BY <1>8, <1>9

\* What becomes of the slots when a socket is detached, whatever is left on the wire.
DetachedTo(s, d, r, o, q, k) ==
    /\ Released(s, d, o, q, k) /\ o[d] = s.opener[d]
    /\ detached([s EXCEPT !.down = r], d)
        = [s EXCEPT !.down = r, !.sockets = s.sockets \ {d}, !.slots = k, !.waiters = q, !.opener = o]

LEMMA DetachedIs ==
    ASSUME NEW s \in TunnelType, TunnelSlotInv(s), NEW d \in s.sockets, NEW r
    PROVE  \E o, q, k : DetachedTo(s, d, r, o, q, k)
<1>1. d \in TunnelConn /\ s.opener \in [TunnelConn -> OpenerState] /\ s.waiters \in Seq(TunnelConn) /\ s.opener[d] \in {"opening", "done"}
  BY DEF TunnelType, TunnelSlotInv
<1> DEFINE v == [s EXCEPT !.down = r]
           w == [s EXCEPT !.down = r, !.sockets = s.sockets \ {d}]
           e == Head(s.waiters)
           o == [s.opener EXCEPT ![e] = "granted"]
<1>2. /\ v.sockets = s.sockets /\ [v EXCEPT !.sockets = @ \ {d}] = w
      /\ w.waiters = s.waiters /\ w.slots = s.slots /\ w.opener = s.opener
  BY DEF TunnelType
<1>3. detached(v, d) = slotReleased(w)
  <2> HIDE DEF v, w
  <2> QED BY <1>2 DEF detached
<1>4. CASE s.waiters = << >>
  <2>1. Released(s, d, s.opener, s.waiters, s.slots - 1) BY <1>1, <1>4 DEF Released
  <2>2. slotReleased(w) = [s EXCEPT !.down = r, !.sockets = s.sockets \ {d}, !.slots = s.slots - 1, !.waiters = s.waiters, !.opener = s.opener]
    BY <1>2, <1>4 DEF slotReleased, TunnelType
  <2> HIDE DEF w
  <2> QED BY <1>3, <2>1, <2>2 DEF DetachedTo
<1>5. CASE s.waiters # << >>
  <2>1. e \in TunnelConn /\ e # d
    <3>1. 1 \in 1..Len(s.waiters) /\ e = s.waiters[1] /\ e \in TunnelConn BY <1>1, <1>5
    <3>2. s.opener[e] = "waiting" BY <3>1 DEF TunnelSlotInv
    <3> QED BY <1>1, <3>1, <3>2
  <2>2. o \in [TunnelConn -> OpenerState] /\ o[e] = "granted" /\ \A c \in TunnelConn : c # e => o[c] = s.opener[c]
    BY <1>1, <2>1 DEF OpenerState
  <2> HIDE DEF o
  <2>3. Released(s, d, o, Tail(s.waiters), s.slots) BY <1>1, <1>5, <2>1, <2>2 DEF Released
  <2>4. o[d] = s.opener[d] BY <1>1, <2>1, <2>2
  <2>5. slotReleased(w) = [s EXCEPT !.down = r, !.sockets = s.sockets \ {d}, !.slots = s.slots, !.waiters = Tail(s.waiters), !.opener = o]
    BY <1>2, <1>5 DEF slotReleased, TunnelType, o
  <2> HIDE DEF w
  <2> QED BY <1>3, <2>3, <2>4, <2>5 DEF DetachedTo
<1> QED BY <1>4, <1>5

LEMMA WritesOrderly ==
    ASSUME NEW d \in TunnelConn, Orderly(tunnel), ClientWrites(d)
    PROVE  Orderly(tunnel')
<1>1. TunnelOK(tunnel, d, 0) BY OrderlyAt
<1>2. /\ tunnel \in TunnelType /\ TunnelSlotInv(tunnel) /\ tunnel.over \in BOOLEAN /\ tunnel.aborted \in BOOLEAN
      /\ (tunnel.sockets # {} => tunnel.over = FALSE) /\ (d \in tunnel.conns => tunnel.aborted = FALSE)
      /\ Fresh(tunnel, d) /\ Heard(tunnel, d) /\ Agree(tunnel, d)
  BY <1>1, SocketsMeanOpen
<1>3. tunnel.opener[d] = "done" BY <1>2 DEF ClientWrites
<1>4. tunnel' = [tunnel EXCEPT !.writing = [tunnel.writing EXCEPT ![d] = tunnel.unwritten[d]],
                             !.unwritten = [tunnel.unwritten EXCEPT ![d] = 0]]
  BY <1>2, <1>3 DEF ClientWrites, toNode, toClient, TunnelType
<1>9. TunnelOK(tunnel', d, 0) BY <1>1, <1>3, <1>4, ClientWritesHolds
<1> QED BY <1>9, OrderlyAt

LEMMA SendsOrderly ==
    ASSUME NEW d \in TunnelConn, Orderly(tunnel), ClientSendsData(d)
    PROVE  Orderly(tunnel')
<1>1. TunnelOK(tunnel, d, 0) BY OrderlyAt
<1>2. /\ tunnel \in TunnelType /\ TunnelSlotInv(tunnel) /\ tunnel.over \in BOOLEAN /\ tunnel.aborted \in BOOLEAN
      /\ (tunnel.sockets # {} => tunnel.over = FALSE) /\ (d \in tunnel.conns => tunnel.aborted = FALSE)
      /\ Fresh(tunnel, d) /\ Heard(tunnel, d) /\ Agree(tunnel, d)
  BY <1>1, SocketsMeanOpen
<1>3. tunnel.over = FALSE /\ tunnel.writing[d] \in Nat \ {0} /\ tunnel.sendCredit[d] \in Nat \ {0}
  BY <1>2, ConnNumbers DEF ClientSendsData
<1> DEFINE n == taken(tunnel.writing[d], tunnel.sendCredit[d])
<1>4. n \in 1..FrameLimit /\ n <= tunnel.writing[d] /\ n <= tunnel.sendCredit[d] /\ ~(n > tunnel.sendCredit[d])
  <2>1. n \in 1..FrameLimit /\ n \in Nat /\ n <= tunnel.writing[d] /\ n <= tunnel.sendCredit[d]
    BY <1>3, TakenFits
  <2> HIDE DEF n
  <2> QED BY <1>3, <2>1
<1>5. tunnel' = [tunnel EXCEPT !.up = Append(tunnel.up, frame("data", d, n)),
                             !.writing = [tunnel.writing EXCEPT ![d] = tunnel.writing[d] - n],
                             !.sendCredit = [tunnel.sendCredit EXCEPT ![d] = tunnel.sendCredit[d] - n]]
  <2>1. tunnel' = toNode([tunnel EXCEPT !.writing[d] = @ - n, !.sendCredit[d] = IF n > @ THEN 0 ELSE @ - n], frame("data", d, n))
    BY DEF ClientSendsData
  <2> HIDE DEF n
  <2> QED BY <1>2, <1>3, <1>4, <2>1 DEF toNode, TunnelType
<1> HIDE DEF n
<1>9. TunnelOK(tunnel', d, 0) BY <1>1, <1>3, <1>4, <1>5, ClientSendsHolds
<1> QED BY <1>9, OrderlyAt

LEMMA EndsOrderly ==
    ASSUME NEW d \in TunnelConn, Orderly(tunnel), ClientEndsSocket(d)
    PROVE  Orderly(tunnel')
<1>1. TunnelOK(tunnel, d, 0) BY OrderlyAt
<1>2. /\ tunnel \in TunnelType /\ TunnelSlotInv(tunnel) /\ tunnel.over \in BOOLEAN /\ tunnel.aborted \in BOOLEAN
      /\ (tunnel.sockets # {} => tunnel.over = FALSE) /\ (d \in tunnel.conns => tunnel.aborted = FALSE)
      /\ Fresh(tunnel, d) /\ Heard(tunnel, d) /\ Agree(tunnel, d)
  BY <1>1, SocketsMeanOpen
<1>3. tunnel.over = FALSE /\ tunnel.opener[d] = "done" BY <1>2 DEF ClientEndsSocket
<1>4. tunnel' = [tunnel EXCEPT !.up = Append(tunnel.up, frame("end", d, 0)), !.ended = tunnel.ended \cup {d}]
  BY <1>2, <1>3 DEF ClientEndsSocket, toNode, toClient, TunnelType
<1>9. TunnelOK(tunnel', d, 0) BY <1>1, <1>3, <1>4, ClientEndsHolds
<1> QED BY <1>9, OrderlyAt

LEMMA ConnectsOrderly ==
    ASSUME NEW d \in TunnelConn, Orderly(tunnel), NodeConnects(d)
    PROVE  Orderly(tunnel')
<1>1. TunnelOK(tunnel, d, 0) BY OrderlyAt
<1>2. /\ tunnel \in TunnelType /\ TunnelSlotInv(tunnel) /\ tunnel.over \in BOOLEAN /\ tunnel.aborted \in BOOLEAN
      /\ (tunnel.sockets # {} => tunnel.over = FALSE) /\ (d \in tunnel.conns => tunnel.aborted = FALSE)
      /\ Fresh(tunnel, d) /\ Heard(tunnel, d) /\ Agree(tunnel, d)
  BY <1>1, SocketsMeanOpen
<1>3. tunnel.aborted = FALSE /\ d \in tunnel.conns /\ d \notin tunnel.nodeDestroyed /\ d \notin tunnel.connected
  BY <1>2 DEF NodeConnects, nodeSocket
<1>4. tunnel' = [tunnel EXCEPT !.down = Append(tunnel.down, frame("opened", d, 0)), !.connected = tunnel.connected \cup {d}]
  BY <1>2, <1>3 DEF NodeConnects, toNode, toClient, TunnelType
<1>9. TunnelOK(tunnel', d, 0) BY <1>1, <1>3, <1>4, NodeConnectsHolds
<1> QED BY <1>9, OrderlyAt

LEMMA ReadsOrderly ==
    ASSUME NEW d \in TunnelConn, Orderly(tunnel), NodeReads(d)
    PROVE  Orderly(tunnel')
<1>1. TunnelOK(tunnel, d, 0) BY OrderlyAt
<1>2. /\ tunnel \in TunnelType /\ TunnelSlotInv(tunnel) /\ tunnel.over \in BOOLEAN /\ tunnel.aborted \in BOOLEAN
      /\ (tunnel.sockets # {} => tunnel.over = FALSE) /\ (d \in tunnel.conns => tunnel.aborted = FALSE)
      /\ Fresh(tunnel, d) /\ Heard(tunnel, d) /\ Agree(tunnel, d)
  BY <1>1, SocketsMeanOpen
<1>3. d \in tunnel.conns BY <1>2 DEF NodeReads, nodeSocket
<1>4. tunnel' = [tunnel EXCEPT !.chunk = [tunnel.chunk EXCEPT ![d] = tunnel.unread[d]], !.unread = [tunnel.unread EXCEPT ![d] = 0]]
  BY <1>2, <1>3 DEF NodeReads, toNode, toClient, TunnelType
<1>9. TunnelOK(tunnel', d, 0) BY <1>1, <1>3, <1>4, NodeReadsHolds
<1> QED BY <1>9, OrderlyAt

LEMMA NodeSendsOrderly ==
    ASSUME NEW d \in TunnelConn, Orderly(tunnel), NodeSendsData(d)
    PROVE  Orderly(tunnel')
<1>1. TunnelOK(tunnel, d, 0) BY OrderlyAt
<1>2. /\ tunnel \in TunnelType /\ TunnelSlotInv(tunnel) /\ tunnel.over \in BOOLEAN /\ tunnel.aborted \in BOOLEAN
      /\ (tunnel.sockets # {} => tunnel.over = FALSE) /\ (d \in tunnel.conns => tunnel.aborted = FALSE)
      /\ Fresh(tunnel, d) /\ Heard(tunnel, d) /\ Agree(tunnel, d)
  BY <1>1, SocketsMeanOpen
<1>3. tunnel.aborted = FALSE /\ tunnel.chunk[d] \in Nat \ {0} /\ tunnel.outCredit[d] \in Nat \ {0}
  BY <1>2, ConnNumbers DEF NodeSendsData
<1> DEFINE n == taken(tunnel.chunk[d], tunnel.outCredit[d])
<1>4. n \in 1..FrameLimit /\ n <= tunnel.chunk[d] /\ n <= tunnel.outCredit[d] /\ ~(n > tunnel.outCredit[d])
  <2>1. n \in 1..FrameLimit /\ n \in Nat /\ n <= tunnel.chunk[d] /\ n <= tunnel.outCredit[d]
    BY <1>3, TakenFits
  <2> HIDE DEF n
  <2> QED BY <1>3, <2>1
<1>5. tunnel' = [tunnel EXCEPT !.down = Append(tunnel.down, frame("data", d, n)),
                             !.chunk = [tunnel.chunk EXCEPT ![d] = tunnel.chunk[d] - n],
                             !.outCredit = [tunnel.outCredit EXCEPT ![d] = tunnel.outCredit[d] - n]]
  <2>1. tunnel' = toClient([tunnel EXCEPT !.chunk[d] = @ - n, !.outCredit[d] = IF n > @ THEN 0 ELSE @ - n], frame("data", d, n))
    BY DEF NodeSendsData
  <2> HIDE DEF n
  <2> QED BY <1>2, <1>3, <1>4, <2>1 DEF toClient, TunnelType
<1> HIDE DEF n
<1>9. TunnelOK(tunnel', d, 0) BY <1>1, <1>3, <1>4, <1>5, NodeSendsHolds
<1> QED BY <1>9, OrderlyAt

LEMMA ReadsEndOrderly ==
    ASSUME NEW d \in TunnelConn, Orderly(tunnel), NodeReadsEnd(d)
    PROVE  Orderly(tunnel')
<1>1. TunnelOK(tunnel, d, 0) BY OrderlyAt
<1>2. /\ tunnel \in TunnelType /\ TunnelSlotInv(tunnel) /\ tunnel.over \in BOOLEAN /\ tunnel.aborted \in BOOLEAN
      /\ (tunnel.sockets # {} => tunnel.over = FALSE) /\ (d \in tunnel.conns => tunnel.aborted = FALSE)
      /\ Fresh(tunnel, d) /\ Heard(tunnel, d) /\ Agree(tunnel, d)
  BY <1>1, SocketsMeanOpen
<1>3. tunnel.aborted = FALSE /\ d \in tunnel.conns BY <1>2 DEF NodeReadsEnd, nodeSocket
<1>4. tunnel' = [tunnel EXCEPT !.down = Append(tunnel.down, frame("end", d, 0)), !.nodeDestroyed = tunnel.nodeDestroyed \cup {d}]
  BY <1>2, <1>3 DEF NodeReadsEnd, toNode, toClient, TunnelType
<1>9. TunnelOK(tunnel', d, 0) BY <1>1, <1>3, <1>4, NodeReadsEndHolds
<1> QED BY <1>9, OrderlyAt

LEMMA FailsOrderly ==
    ASSUME NEW d \in TunnelConn, Orderly(tunnel), NodeSocketFails(d)
    PROVE  Orderly(tunnel')
<1>1. TunnelOK(tunnel, d, 0) BY OrderlyAt
<1>2. /\ tunnel \in TunnelType /\ TunnelSlotInv(tunnel) /\ tunnel.over \in BOOLEAN /\ tunnel.aborted \in BOOLEAN
      /\ (tunnel.sockets # {} => tunnel.over = FALSE) /\ (d \in tunnel.conns => tunnel.aborted = FALSE)
      /\ Fresh(tunnel, d) /\ Heard(tunnel, d) /\ Agree(tunnel, d)
  BY <1>1, SocketsMeanOpen
<1>3. d \in tunnel.conns BY <1>2 DEF NodeSocketFails, nodeSocket
<1>4. tunnel' = [tunnel EXCEPT !.nodeDestroyed = tunnel.nodeDestroyed \cup {d}]
  BY <1>2, <1>3 DEF NodeSocketFails, toNode, toClient, TunnelType
<1>9. TunnelOK(tunnel', d, 0) BY <1>1, <1>3, <1>4, NodeFailsHolds
<1> QED BY <1>9, OrderlyAt

LEMMA ClosedOrderly ==
    ASSUME NEW d \in TunnelConn, Orderly(tunnel), NodeSocketClosed(d)
    PROVE  Orderly(tunnel')
<1>1. TunnelOK(tunnel, d, 0) BY OrderlyAt
<1>2. /\ tunnel \in TunnelType /\ TunnelSlotInv(tunnel) /\ tunnel.over \in BOOLEAN /\ tunnel.aborted \in BOOLEAN
      /\ (tunnel.sockets # {} => tunnel.over = FALSE) /\ (d \in tunnel.conns => tunnel.aborted = FALSE)
      /\ Fresh(tunnel, d) /\ Heard(tunnel, d) /\ Agree(tunnel, d)
  BY <1>1, SocketsMeanOpen
<1>3. tunnel.aborted = FALSE /\ d \in tunnel.conns /\ d \in tunnel.nodeDestroyed
  BY <1>2 DEF NodeSocketClosed
<1>4. tunnel' = [tunnel EXCEPT !.down = Append(tunnel.down, frame("closed", d, 0)), !.conns = tunnel.conns \ {d}]
  BY <1>2, <1>3 DEF NodeSocketClosed, toNode, toClient, TunnelType
<1>9. TunnelOK(tunnel', d, 0) BY <1>1, <1>3, <1>4, NodeClosedHolds
<1> QED BY <1>9, OrderlyAt

LEMMA NodeWritesOrderly ==
    ASSUME NEW d \in TunnelConn, Orderly(tunnel), NodeWrites(d)
    PROVE  Orderly(tunnel')
<1>1. TunnelOK(tunnel, d, 0) BY OrderlyAt
<1>2. /\ tunnel \in TunnelType /\ TunnelSlotInv(tunnel) /\ tunnel.over \in BOOLEAN /\ tunnel.aborted \in BOOLEAN
      /\ (tunnel.sockets # {} => tunnel.over = FALSE) /\ (d \in tunnel.conns => tunnel.aborted = FALSE)
      /\ Fresh(tunnel, d) /\ Heard(tunnel, d) /\ Agree(tunnel, d)
  BY <1>1, SocketsMeanOpen
<1> SUFFICES TunnelOK(tunnel', d, 0)
  BY OrderlyAt
<1>3. d \in tunnel.conns /\ d \in tunnel.connected /\ tunnel.input[d] # << >> /\ tunnel.aborted = FALSE
  BY <1>2 DEF NodeWrites, nodeSocket
<1> DEFINE n == Head(tunnel.input[d])
           rest == Tail(tunnel.input[d])
<1>4. rest \in InputQueue /\ n \in Nat /\ total(rest) \in Nat /\ total(tunnel.input[d]) = n + total(rest)
  <2>1. tunnel.input[d] \in Seq(0..FrameLimit) /\ tunnel.input[d] \in Seq(Nat)
    BY <1>2, ConnNumbers DEF TunnelType
  <2>2. rest \in Seq(0..FrameLimit) /\ n \in Nat
    <3>1. tunnel.input[d] # << >> BY <1>3
    <3>2. \A S : \A q \in Seq(S) : q # << >> => Tail(q) \in Seq(S) /\ Head(q) \in S OBVIOUS
    <3> HIDE DEF n, rest
    <3> QED BY <2>1, <3>1, <3>2, Zenon DEF n, rest
  <2> QED BY <1>3, <2>1, <2>2, TotalOf DEF InputQueue
<1>5. ~onWire(tunnel.down, "opened", d)
  <2>1. CASE onWire(tunnel.down, "opened", d)
    <3>1. tunnel.input[d] = << >> BY <1>2, <2>1 DEF Heard
    <3> QED BY <1>3, <3>1
  <2> QED BY <2>1
<1>6. CASE n = 0
  <2>1. tunnel' = [tunnel EXCEPT !.input = [tunnel.input EXCEPT ![d] = rest]]
    <3>1. tunnel.inCredit[d] + 0 = tunnel.inCredit[d] /\ [tunnel.inCredit EXCEPT ![d] = tunnel.inCredit[d]] = tunnel.inCredit
      <4>1. tunnel.inCredit \in [TunnelConn -> 0..TunnelWindow] /\ tunnel.inCredit[d] \in Nat
        BY <1>2, ConnNumbers DEF TunnelType
      <4> QED BY <4>1
    <3>2. tunnel' = [tunnel EXCEPT !.input[d] = rest, !.inCredit[d] = @ + n] BY <1>6 DEF NodeWrites
    <3> HIDE DEF n, rest
    <3> QED BY <1>2, <1>6, <3>1, <3>2 DEF TunnelType
  <2> HIDE DEF n, rest
  <2> QED BY <1>1, <1>3, <1>4, <1>5, <1>6, <2>1, NodeWritesEndHolds
<1>7. CASE n # 0
  <2>1. tunnel' = [tunnel EXCEPT !.down = Append(tunnel.down, frame("credit", d, n)), !.input = [tunnel.input EXCEPT ![d] = rest],
                           !.inCredit = [tunnel.inCredit EXCEPT ![d] = tunnel.inCredit[d] + n]]
    <3>1. tunnel' = toClient([tunnel EXCEPT !.input[d] = rest, !.inCredit[d] = @ + n], frame("credit", d, n))
      BY <1>7 DEF NodeWrites
    <3> HIDE DEF n, rest
    <3> QED BY <1>2, <1>3, <3>1 DEF toClient, TunnelType
  <2> HIDE DEF n, rest
  <2> QED BY <1>1, <1>3, <1>4, <1>5, <1>7, <2>1, NodeWritesHolds
<1> QED BY <1>6, <1>7

LEMMA OpenOrderly ==
    ASSUME NEW d \in TunnelConn, Orderly(tunnel), OpenSocket(d)
    PROVE  Orderly(tunnel')
<1>1. TunnelOK(tunnel, d, 0) BY OrderlyAt
<1>2. /\ tunnel \in TunnelType /\ TunnelSlotInv(tunnel) /\ tunnel.over \in BOOLEAN /\ tunnel.aborted \in BOOLEAN
      /\ (tunnel.sockets # {} => tunnel.over = FALSE) /\ (d \in tunnel.conns => tunnel.aborted = FALSE)
      /\ Fresh(tunnel, d) /\ Heard(tunnel, d) /\ Agree(tunnel, d)
  BY <1>1, SocketsMeanOpen
<1> SUFFICES TunnelOK(tunnel', d, 0)
  BY OrderlyAt
<1>3. CASE tunnel.over
  <2>1. tunnel' = [tunnel EXCEPT !.opener = [tunnel.opener EXCEPT ![d] = "failed"]] /\ tunnel.opener[d] = "none"
    BY <1>2, <1>3 DEF OpenSocket, TunnelType
  <2> QED BY <1>1, <1>2, <1>3, <2>1, OpenFailsHolds
<1>4. CASE ~tunnel.over /\ tunnel.slots < MaxConnections
  <2>1. /\ tunnel' = [tunnel EXCEPT !.opener = [tunnel.opener EXCEPT ![d] = "granted"], !.slots = tunnel.slots + 1]
        /\ tunnel.opener[d] = "none" /\ tunnel.over = FALSE
    BY <1>2, <1>4 DEF OpenSocket, TunnelType
  <2> QED BY <1>1, <1>4, <2>1, OpenGetsSlot
<1>5. CASE ~tunnel.over /\ ~(tunnel.slots < MaxConnections)
  <2>1. /\ tunnel' = [tunnel EXCEPT !.opener = [tunnel.opener EXCEPT ![d] = "waiting"], !.waiters = Append(tunnel.waiters, d)]
        /\ tunnel.opener[d] = "none" /\ tunnel.over = FALSE
    BY <1>2, <1>5 DEF OpenSocket, TunnelType
  <2> QED BY <1>1, <1>5, <2>1, OpenHasToWait
<1> QED BY <1>3, <1>4, <1>5

LEMMA MadeOrderly ==
    ASSUME NEW d \in TunnelConn, Orderly(tunnel), SocketMade(d)
    PROVE  Orderly(tunnel')
<1>1. TunnelOK(tunnel, d, 0) BY OrderlyAt
<1>2. /\ tunnel \in TunnelType /\ TunnelSlotInv(tunnel) /\ tunnel.over \in BOOLEAN /\ tunnel.aborted \in BOOLEAN
      /\ (tunnel.sockets # {} => tunnel.over = FALSE) /\ (d \in tunnel.conns => tunnel.aborted = FALSE)
      /\ Fresh(tunnel, d) /\ Heard(tunnel, d) /\ Agree(tunnel, d)
  BY <1>1, SocketsMeanOpen
<1> SUFFICES TunnelOK(tunnel', d, 0)
  BY OrderlyAt
<1>3. CASE tunnel.over
  <2>1. tunnel.over = TRUE /\ tunnel.opener[d] = "granted" BY <1>2, <1>3 DEF SocketMade
  <2>2. tunnel.waiters = << >> BY <1>2, <2>1, NobodyWaits
  <2>3. tunnel' = [tunnel EXCEPT !.opener = [tunnel.opener EXCEPT ![d] = "failed"], !.slots = tunnel.slots - 1]
    BY <1>2, <2>1, <2>2 DEF SocketMade, slotReleased, TunnelType
  <2> QED BY <1>1, <2>1, <2>3, MadeTooLate
<1>4. CASE ~tunnel.over
  <2>1. tunnel.over = FALSE /\ tunnel.opener[d] = "granted" BY <1>2, <1>4 DEF SocketMade
  <2>2. tunnel' = [tunnel EXCEPT !.up = Append(tunnel.up, frame("open", d, 0)), !.sockets = tunnel.sockets \cup {d},
                           !.opener = [tunnel.opener EXCEPT ![d] = "opening"],
                           !.recvCredit = [tunnel.recvCredit EXCEPT ![d] = TunnelWindow]]
    BY <1>2, <2>1 DEF SocketMade, toNode, TunnelType
  <2> QED BY <1>1, <2>1, <2>2, SocketMadeHolds
<1> QED BY <1>3, <1>4

LEMMA TimerOrderly ==
    ASSUME NEW d \in TunnelConn, Orderly(tunnel), AckTimerFires(d)
    PROVE  Orderly(tunnel')
<1>1. TunnelOK(tunnel, d, 0) BY OrderlyAt
<1>2. /\ tunnel \in TunnelType /\ TunnelSlotInv(tunnel) /\ tunnel.over \in BOOLEAN /\ tunnel.aborted \in BOOLEAN
      /\ (tunnel.sockets # {} => tunnel.over = FALSE) /\ (d \in tunnel.conns => tunnel.aborted = FALSE)
      /\ Fresh(tunnel, d) /\ Heard(tunnel, d) /\ Agree(tunnel, d)
  BY <1>1, SocketsMeanOpen
<1>3. d \in tunnel.acking /\ d \in tunnel.sockets BY <1>2 DEF AckTimerFires, Agree
<1>4. PICK o, q, k : DetachedTo(tunnel, d, tunnel.down, o, q, k) BY <1>2, <1>3, DetachedIs
<1>5. tunnel' = [tunnel EXCEPT !.sockets = tunnel.sockets \ {d}, !.slots = k, !.waiters = q, !.opener = o,
                           !.acking = tunnel.acking \ {d}, !.late = TRUE]
  <2>1. [tunnel EXCEPT !.down = tunnel.down] = tunnel BY <1>2 DEF TunnelType
  <2>2. tunnel' = [detached(tunnel, d) EXCEPT !.acking = @ \ {d}, !.late = TRUE]
    BY DEF AckTimerFires
  <2>3. detached(tunnel, d) = [tunnel EXCEPT !.down = tunnel.down, !.sockets = tunnel.sockets \ {d}, !.slots = k, !.waiters = q, !.opener = o]
    BY <1>4, <2>1 DEF DetachedTo
  <2> QED BY <1>2, <2>2, <2>3 DEF TunnelType
<1>9. TunnelOK(tunnel', d, 0) BY <1>1, <1>3, <1>4, <1>5, AckTimerHolds DEF DetachedTo
<1> QED BY <1>9, OrderlyAt

LEMMA AbandonedOrderly ==
    ASSUME NEW d \in TunnelConn, Orderly(tunnel), SocketAbandoned(d)
    PROVE  Orderly(tunnel')
<1>1. TunnelOK(tunnel, d, 0) BY OrderlyAt
<1>2. /\ tunnel \in TunnelType /\ TunnelSlotInv(tunnel) /\ tunnel.over \in BOOLEAN /\ tunnel.aborted \in BOOLEAN
      /\ (tunnel.sockets # {} => tunnel.over = FALSE) /\ (d \in tunnel.conns => tunnel.aborted = FALSE)
      /\ Fresh(tunnel, d) /\ Heard(tunnel, d) /\ Agree(tunnel, d)
  BY <1>1, SocketsMeanOpen
<1>3. tunnel.over = FALSE /\ d \in tunnel.sockets /\ tunnel.opener[d] = "done" /\ d \notin tunnel.destroyed
  BY <1>2 DEF SocketAbandoned
<1>4. d \notin tunnel.remoteClosed BY <1>2, <1>3 DEF Agree
<1>5. tunnel' = [tunnel EXCEPT !.up = Append(tunnel.up, frame("close", d, 0)), !.destroyed = tunnel.destroyed \cup {d},
                           !.acking = tunnel.acking \cup {d}]
  BY <1>2, <1>3, <1>4 DEF SocketAbandoned, socketDestroyed, toNode, TunnelType
<1>9. TunnelOK(tunnel', d, 0) BY <1>1, <1>3, <1>5, AbandonedHolds
<1> QED BY <1>9, OrderlyAt

LEMMA ReadsOnOrderly ==
    ASSUME NEW d \in TunnelConn, Orderly(tunnel), ConsumerReads(d)
    PROVE  Orderly(tunnel')
<1>1. TunnelOK(tunnel, d, 0) BY OrderlyAt
<1>2. /\ tunnel \in TunnelType /\ TunnelSlotInv(tunnel) /\ tunnel.over \in BOOLEAN /\ tunnel.aborted \in BOOLEAN
      /\ (tunnel.sockets # {} => tunnel.over = FALSE) /\ (d \in tunnel.conns => tunnel.aborted = FALSE)
      /\ Fresh(tunnel, d) /\ Heard(tunnel, d) /\ Agree(tunnel, d)
  BY <1>1, SocketsMeanOpen
<1>3. d \in tunnel.sockets /\ tunnel.buffer[d] # 0 /\ tunnel' = readMore([tunnel EXCEPT !.buffer[d] = 0], d)
  <2>1. d \in tunnel.sockets /\ tunnel.buffer[d] > 0 /\ tunnel' = readMore([tunnel EXCEPT !.buffer[d] = 0], d)
    BY DEF ConsumerReads
  <2>2. tunnel.buffer[d] \in Nat BY <1>2 DEF TunnelType
  <2>3. tunnel.buffer[d] # 0 BY <2>1, <2>2
  <2> QED BY <2>1, <2>3
<1>9. TunnelOK(tunnel', d, 0) BY <1>1, <1>3, ReadsOn
<1> QED BY <1>9, OrderlyAt

\* What the node receives never exceeds what it expects, and comes for a connection it may have.
LEMMA NodeReceivesOrderly ==
    ASSUME Orderly(tunnel), NodeReceives
    PROVE  Orderly(tunnel')
<1> DEFINE f == Head(tunnel.up)
           d == f.conn
           rest == Tail(tunnel.up)
           s == [tunnel EXCEPT !.up = rest]
<1>1. tunnel \in TunnelType /\ tunnel.up # << >> /\ tunnel.up \in Seq(UpFrame)
  BY DEF Orderly, NodeReceives, TunnelType
<1>2. f \in UpFrame /\ rest \in Seq(UpFrame)
  <2>1. tunnel.up # << >> /\ tunnel.up \in Seq(UpFrame) BY <1>1
  <2> QED BY <2>1
<1>3. d \in TunnelConn BY <1>2 DEF UpFrame, TunnelFrame
<1>4. rest \in UpWires /\ TakenUp(tunnel.up, rest, f, d)
  <2> HIDE DEF f, rest
  <2> QED BY <1>1, <1>2, UpTaken DEF UpWires, f, rest
<1>5. /\ s.up = rest /\ s.down = tunnel.down /\ s.conns = tunnel.conns /\ s.aborted = tunnel.aborted /\ s.refused = tunnel.refused
      /\ s.outCredit = tunnel.outCredit /\ s.inCredit = tunnel.inCredit /\ s.nodeDestroyed = tunnel.nodeDestroyed /\ s.input = tunnel.input
  BY <1>1 DEF TunnelType
<1>6. tunnel' = IF tunnel.aborted THEN s
                ELSE IF f.type = "open" THEN connectionOpened(s, d)
                ELSE IF d \notin tunnel.conns
                THEN IF f.type = "close" THEN s ELSE toClient(s, frame("closed", d, 0))
                ELSE CASE f.type = "credit" ->
                            IF tunnel.outCredit[d] + f.bytes > TunnelWindow THEN nodeAccuses(s, d)
                            ELSE [s EXCEPT !.outCredit[d] = @ + f.bytes]
                       [] f.type = "close" -> [s EXCEPT !.nodeDestroyed = @ \cup {d}]
                       [] f.type = "end" -> [s EXCEPT !.input[d] = Append(@, 0)]
                       [] f.type = "data" ->
                            IF f.bytes > tunnel.inCredit[d] THEN nodeAccuses(s, d)
                            ELSE [s EXCEPT !.inCredit[d] = @ - f.bytes, !.input[d] = Append(@, f.bytes)]
  BY DEF NodeReceives
<1>7. /\ f.type \in {"open", "data", "credit", "end", "close"} /\ f.bytes \in Nat /\ f.bytes <= TunnelWindow
      /\ f.type = "data" => f.bytes \in 1..FrameLimit
  BY <1>4 DEF TakenUp
<1> HIDE DEF f, d, rest
<1>8. TunnelOK(tunnel, d, 0) BY <1>3, OrderlyAt
<1>9. /\ tunnel.aborted \in BOOLEAN /\ Fresh(tunnel, d) /\ Credit(tunnel, d)
  BY <1>3, <1>8, SocketsMeanOpen
<1>10. Known(tunnel, d) BY <1>1, <1>3, WhatIsKnown
<1> SUFFICES TunnelOK(tunnel', d, 0)
  BY <1>3, OrderlyAt
<1>11. CASE tunnel.aborted
  <2>1. tunnel' = s /\ tunnel.aborted = TRUE BY <1>6, <1>9, <1>11
  <2> QED BY <1>3, <1>4, <1>8, <2>1, AbortedDrops
<1>12. CASE ~tunnel.aborted /\ f.type = "open"
  <2>1. tunnel' = connectionOpened(s, d) /\ tunnel.aborted = FALSE BY <1>6, <1>9, <1>12
  <2>2. d \notin tunnel.conns BY <1>4, <1>9, <1>12 DEF TakenUp, Fresh, Still
  <2>3. CASE Cardinality(tunnel.conns) >= MaxConnections
    <3>1. tunnel' = [tunnel EXCEPT !.up = rest, !.down = Append(tunnel.down, frame("closed", d, 0)), !.refused = tunnel.refused \cup {d}]
      BY <1>1, <1>5, <2>1, <2>2, <2>3 DEF connectionOpened, toClient, TunnelType
    <3> QED BY <1>3, <1>4, <1>8, <1>12, <2>1, <2>2, <2>3, <3>1, OpenRefusedHolds
  <2>4. CASE ~(Cardinality(tunnel.conns) >= MaxConnections)
    <3>1. tunnel' = [tunnel EXCEPT !.up = rest, !.conns = tunnel.conns \cup {d},
                           !.outCredit = [tunnel.outCredit EXCEPT ![d] = TunnelWindow],
                           !.inCredit = [tunnel.inCredit EXCEPT ![d] = TunnelWindow]]
      BY <1>1, <1>5, <2>1, <2>2, <2>4 DEF connectionOpened, TunnelType
    <3> QED BY <1>3, <1>4, <1>8, <1>12, <2>1, <3>1, OpenAcceptedHolds
  <2> QED BY <2>3, <2>4
<1>13. CASE ~tunnel.aborted /\ f.type # "open" /\ d \notin tunnel.conns
  <2>1. CASE f.type = "close"
    <3>1. tunnel' = s BY <1>6, <1>13, <2>1
    <3> QED BY <1>3, <1>4, <1>8, <1>13, <2>1, <3>1, CloseDropped
  <2>2. CASE f.type # "close"
    <3>1. tunnel' = toClient(s, frame("closed", d, 0)) /\ tunnel.aborted = FALSE /\ f.type \in {"data", "credit", "end"}
      BY <1>6, <1>7, <1>9, <1>13, <2>2
    <3>2. tunnel' = [tunnel EXCEPT !.up = rest, !.down = Append(tunnel.down, frame("closed", d, 0))]
      BY <1>1, <1>5, <3>1 DEF toClient, TunnelType
    <3> QED BY <1>3, <1>4, <1>8, <1>13, <3>1, <3>2, FrameAnswered
  <2> QED BY <2>1, <2>2
<1>14. CASE ~tunnel.aborted /\ d \in tunnel.conns /\ f.type = "credit"
  <2>1. ~(tunnel.outCredit[d] + f.bytes > TunnelWindow)
    <3>1. inFrames(tunnel.up, "credit", d) = inFrames(rest, "credit", d) + f.bytes /\ inFrames(rest, "credit", d) \in Nat
      BY <1>4, <1>14 DEF TakenUp
    <3> QED BY <1>7, <1>9, <1>10, <3>1 DEF Credit, Known, fromNode
  <2>2. tunnel' = [s EXCEPT !.outCredit[d] = @ + f.bytes] BY <1>6, <1>14, <2>1
  <2>3. tunnel' = [tunnel EXCEPT !.up = rest, !.outCredit = [tunnel.outCredit EXCEPT ![d] = tunnel.outCredit[d] + f.bytes]]
    BY <1>1, <2>2 DEF TunnelType
  <2> QED BY <1>3, <1>4, <1>8, <1>14, <2>3, NodeCreditHolds
<1>15. CASE ~tunnel.aborted /\ d \in tunnel.conns /\ f.type = "close"
  <2>1. tunnel' = [s EXCEPT !.nodeDestroyed = @ \cup {d}] BY <1>6, <1>15
  <2>2. tunnel' = [tunnel EXCEPT !.up = rest, !.nodeDestroyed = tunnel.nodeDestroyed \cup {d}]
    BY <1>1, <2>1 DEF TunnelType
  <2> QED BY <1>3, <1>4, <1>8, <1>15, <2>2, NodeCloseHolds
<1>16. tunnel.input[d] \in Seq(0..FrameLimit) /\ tunnel.input[d] \in Seq(Nat)
  BY <1>1, <1>3, ConnNumbers DEF TunnelType
<1>17. CASE ~tunnel.aborted /\ d \in tunnel.conns /\ f.type = "end"
  <2> DEFINE queue == Append(tunnel.input[d], 0)
  <2>1. tunnel' = [s EXCEPT !.input[d] = Append(@, 0)] BY <1>6, <1>17
  <2>2. tunnel' = [tunnel EXCEPT !.up = rest, !.input = [tunnel.input EXCEPT ![d] = queue]]
    BY <1>1, <2>1 DEF TunnelType
  <2>3. queue \in Seq(0..FrameLimit)
    <3>1. 0 \in 0..FrameLimit BY TunnelAssumption
    <3> QED BY <1>16, <3>1
  <2>4. total(queue) = total(tunnel.input[d])
    <3>1. total(queue) = total(tunnel.input[d]) + 0 /\ total(tunnel.input[d]) \in Nat
      BY <1>16, TotalOf
    <3> QED BY <3>1
  <2> HIDE DEF queue
  <2> QED BY <1>3, <1>4, <1>8, <1>17, <2>2, <2>3, <2>4, NodeEndHolds DEF InputQueue
<1>18. CASE ~tunnel.aborted /\ d \in tunnel.conns /\ f.type = "data"
  <2> DEFINE queue == Append(tunnel.input[d], f.bytes)
  <2>1. ~(f.bytes > tunnel.inCredit[d])
    <3>1. inFrames(tunnel.up, "data", d) = inFrames(rest, "data", d) + f.bytes /\ inFrames(rest, "data", d) \in Nat
      BY <1>4, <1>18 DEF TakenUp
    <3> QED BY <1>7, <1>9, <1>10, <3>1 DEF Credit, Known, fromClient
  <2>2. tunnel' = [s EXCEPT !.inCredit[d] = @ - f.bytes, !.input[d] = Append(@, f.bytes)]
    BY <1>6, <1>18, <2>1
  <2>3. tunnel' = [tunnel EXCEPT !.up = rest, !.inCredit = [tunnel.inCredit EXCEPT ![d] = tunnel.inCredit[d] - f.bytes],
                           !.input = [tunnel.input EXCEPT ![d] = queue]]
    BY <1>1, <2>2 DEF TunnelType
  <2>4. queue \in Seq(0..FrameLimit)
    <3>1. f.bytes \in 0..FrameLimit BY <1>7, <1>18, TunnelAssumption
    <3> QED BY <1>16, <3>1
  <2>5. total(queue) = total(tunnel.input[d]) + f.bytes BY <1>7, <1>16, TotalOf
  <2> HIDE DEF queue
  <2> QED BY <1>3, <1>4, <1>8, <1>18, <2>3, <2>4, <2>5, NodeDataHolds DEF InputQueue
<1> QED BY <1>7, <1>11, <1>12, <1>13, <1>14, <1>15, <1>17, <1>18

\* `closed` detaches the socket, and the destroy() it ends with does so no second time.
ClosedTo(s, d, r, o, q, k) ==
    /\ Released(s, d, o, q, k) /\ (o[d] = "done" => s.opener[d] = "done")
    /\ remotelyClosed([s EXCEPT !.down = r], d)
        = [s EXCEPT !.down = r, !.sockets = s.sockets \ {d}, !.slots = k, !.waiters = q, !.opener = o,
                    !.acking = s.acking \ {d}, !.remoteClosed = s.remoteClosed \cup {d}, !.destroyed = s.destroyed \cup {d}]

LEMMA RemotelyClosedIs ==
    ASSUME NEW s \in TunnelType, TunnelSlotInv(s), NEW d \in s.sockets, NEW r \in Seq(DownFrame)
    PROVE  \E o, q, k : ClosedTo(s, d, r, o, q, k)
<1>1. PICK o, q, k : DetachedTo(s, d, r, o, q, k) BY DetachedIs
<1>2. d \in TunnelConn /\ o \in [TunnelConn -> OpenerState] /\ o[d] = s.opener[d] /\ Released(s, d, o, q, k)
  BY <1>1 DEF DetachedTo, Released, TunnelType
<1> DEFINE p == [o EXCEPT ![d] = IF @ = "opening" THEN "failed" ELSE @]
           v == [s EXCEPT !.down = r, !.sockets = s.sockets \ {d}, !.slots = k, !.waiters = q, !.opener = p,
                          !.acking = s.acking \ {d}, !.remoteClosed = s.remoteClosed \cup {d}]
           w == [s EXCEPT !.down = r, !.sockets = s.sockets \ {d}, !.slots = k, !.waiters = q, !.opener = p,
                          !.acking = s.acking \ {d}, !.remoteClosed = s.remoteClosed \cup {d},
                          !.destroyed = s.destroyed \cup {d}]
           x == [s EXCEPT !.down = r]
<1>3. p \in [TunnelConn -> OpenerState] /\ (p[d] = "done" <=> o[d] = "done") /\ (\A c \in TunnelConn : c # d => p[c] = o[c])
      /\ p[d] \in {"failed", "done", "opening"}
  BY <1>2 DEF OpenerState, Released
<1>4. Released(s, d, p, q, k)
  <2>1. CASE s.waiters = << >>
    <3>1. q = s.waiters /\ k = s.slots - 1 /\ d \in s.sockets /\ \A c \in TunnelConn : c # d => o[c] = s.opener[c]
      BY <1>2, <2>1 DEF Released
    <3> HIDE DEF p
    <3> QED BY <1>3, <2>1, <3>1 DEF Released
  <2>2. CASE s.waiters # << >>
    <3> DEFINE e == Head(s.waiters)
    <3>1. /\ q = Tail(s.waiters) /\ k = s.slots /\ d \in s.sockets /\ o[e] = "granted" /\ o[d] \in {"failed", "done", "opening"}
          /\ \A c \in TunnelConn : c # d /\ c # e => o[c] = s.opener[c]
      BY <1>2, <2>2 DEF Released
    <3>2. e \in TunnelConn BY <2>2, SMTT(30) DEF TunnelType
    <3>3. e # d BY <3>1
    <3> HIDE DEF p
    <3>4. p[e] = "granted" /\ \A c \in TunnelConn : c # d /\ c # e => p[c] = s.opener[c]
      BY <1>3, <3>1, <3>2, <3>3
    <3> QED BY <1>3, <2>2, <3>1, <3>4 DEF Released
  <2> QED BY <2>1, <2>2
<1> HIDE DEF p
<1>5. [detached(x, d) EXCEPT !.remoteClosed = @ \cup {d}, !.acking = @ \ {d}, !.opener[d] = IF @ = "opening" THEN "failed" ELSE @] = v
  <2>1. detached(x, d) = [s EXCEPT !.down = r, !.sockets = s.sockets \ {d}, !.slots = k, !.waiters = q, !.opener = o]
    BY <1>1 DEF DetachedTo
  <2> HIDE DEF x
  <2> QED BY <2>1 DEF TunnelType, p
<1>6. remotelyClosed(x, d) = socketDestroyed(v, d)
  <2> HIDE DEF v, x
  <2> QED BY <1>5 DEF remotelyClosed
<1>7. /\ v.sockets = s.sockets \ {d} /\ v.destroyed = s.destroyed /\ v.remoteClosed = s.remoteClosed \cup {d}
      /\ [v EXCEPT !.destroyed = @ \cup {d}] = w /\ w.sockets = s.sockets \ {d}
  BY DEF TunnelType
<1>8. remotelyClosed(x, d) = w
  <2>1. CASE d \in s.destroyed
    <3>1. s.destroyed \cup {d} = s.destroyed BY <2>1
    <3>2. w = v BY <3>1 DEF TunnelType
    <3> HIDE DEF v, w, x
    <3> QED BY <1>6, <1>7, <2>1, <3>2 DEF socketDestroyed
  <2>2. CASE d \notin s.destroyed
    <3>1. socketDestroyed(v, d) = detached([v EXCEPT !.destroyed = @ \cup {d}], d)
      <4> HIDE DEF v, w
      <4> QED BY <1>7, <2>2 DEF socketDestroyed
    <3>2. detached(w, d) = w
      <4> HIDE DEF v, w
      <4> QED BY <1>7 DEF detached
    <3> HIDE DEF v, w, x
    <3> QED BY <1>6, <1>7, <3>1, <3>2
  <2> QED BY <2>1, <2>2
<1>9. ClosedTo(s, d, r, p, q, k) BY <1>2, <1>3, <1>4, <1>8 DEF ClosedTo
<1> QED BY <1>9

\* What the client receives never exceeds what it expects.
LEMMA ClientReceivesOrderly ==
    ASSUME Orderly(tunnel), ClientReceives
    PROVE  Orderly(tunnel')
<1> DEFINE f == Head(tunnel.down)
           d == f.conn
           rest == Tail(tunnel.down)
           s == [tunnel EXCEPT !.down = rest]
<1>1. tunnel \in TunnelType /\ tunnel.down # << >> /\ tunnel.down \in Seq(DownFrame)
  BY DEF Orderly, ClientReceives, TunnelType
<1>2. f \in DownFrame /\ rest \in Seq(DownFrame)
  <2>1. tunnel.down # << >> /\ tunnel.down \in Seq(DownFrame) BY <1>1
  <2> QED BY <2>1
<1>3. d \in TunnelConn BY <1>2 DEF DownFrame, TunnelFrame
<1>4. rest \in DownWires /\ TakenDown(tunnel.down, rest, f, d)
  <2> HIDE DEF f, rest
  <2> QED BY <1>1, <1>2, DownTaken DEF DownWires, f, rest
<1>5. tunnel' = IF tunnel.over \/ d \notin tunnel.sockets THEN s
                ELSE CASE f.type = "opened" ->
                            IF d \in tunnel.destroyed THEN s
                            ELSE [s EXCEPT !.opener[d] = "done", !.sendCredit[d] = TunnelWindow]
                       [] f.type = "data" ->
                            IF d \in tunnel.destroyed \cup tunnel.remoteEnded THEN s
                            ELSE IF f.bytes > tunnel.recvCredit[d] THEN accused(s, d)
                            ELSE received([s EXCEPT !.recvCredit[d] = @ - f.bytes], d, f.bytes)
                       [] f.type = "credit" ->
                            IF d \in tunnel.destroyed THEN s
                            ELSE IF tunnel.sendCredit[d] + f.bytes > TunnelWindow THEN accused(s, d)
                            ELSE [s EXCEPT !.sendCredit[d] = @ + f.bytes]
                       [] f.type = "end" -> [s EXCEPT !.remoteEnded = @ \cup {d}]
                       [] f.type = "closed" -> remotelyClosed(s, d)
  BY DEF ClientReceives
<1>6. /\ f.type \in {"opened", "data", "credit", "end", "closed"} /\ f.bytes \in Nat /\ f.bytes <= TunnelWindow
      /\ f.type = "data" => f.bytes \in 1..FrameLimit
  BY <1>4 DEF TakenDown
<1> HIDE DEF f, d, rest
<1>7. TunnelOK(tunnel, d, 0) BY <1>3, OrderlyAt
<1>8. /\ tunnel.over \in BOOLEAN /\ TunnelSlotInv(tunnel) /\ (tunnel.sockets # {} => tunnel.over = FALSE) /\ Credit(tunnel, d)
  BY <1>3, <1>7, SocketsMeanOpen
<1>9. Known(tunnel, d) BY <1>1, <1>3, WhatIsKnown
<1> SUFFICES TunnelOK(tunnel', d, 0)
  BY <1>3, OrderlyAt
<1> DEFINE here == ~tunnel.over /\ d \in tunnel.sockets
           dropped == f.type # "closed" /\ (d \in tunnel.destroyed \/ (f.type = "data" /\ d \in tunnel.remoteEnded))
<1>10. ASSUME tunnel' = s, ~here \/ dropped PROVE TunnelOK(tunnel', d, 0)
  <2>1. /\ tunnel.over = TRUE \/ d \notin tunnel.sockets \/ d \in tunnel.destroyed \/ d \in tunnel.remoteEnded
        /\ f.type # "closed" \/ tunnel.over = TRUE \/ d \notin tunnel.sockets
    BY <1>8, <1>10
  <2> QED BY <1>3, <1>4, <1>7, <1>10, <2>1, ClientDrops
<1>11. CASE ~here BY <1>5, <1>10, <1>11
<1>12. CASE here /\ f.type = "opened"
  <2>1. CASE d \in tunnel.destroyed
    <3>1. tunnel' = s BY <1>5, <1>12, <2>1
    <3>2. dropped BY <1>12, <2>1
    <3> QED BY <1>10, <3>1, <3>2
  <2>2. CASE d \notin tunnel.destroyed
    <3>1. tunnel' = [s EXCEPT !.opener[d] = "done", !.sendCredit[d] = TunnelWindow]
      BY <1>5, <1>12, <2>2
    <3>2. tunnel' = [tunnel EXCEPT !.down = rest, !.opener = [tunnel.opener EXCEPT ![d] = "done"],
                           !.sendCredit = [tunnel.sendCredit EXCEPT ![d] = TunnelWindow]]
      BY <1>1, <3>1 DEF TunnelType
    <3> QED BY <1>3, <1>4, <1>7, <1>12, <2>2, <3>2, OpenedArrives
  <2> QED BY <2>1, <2>2
<1>13. CASE here /\ f.type = "data"
  <2>1. CASE d \in tunnel.destroyed \cup tunnel.remoteEnded
    <3>1. tunnel' = s BY <1>5, <1>13, <2>1
    <3>2. dropped BY <1>13, <2>1
    <3> QED BY <1>10, <3>1, <3>2
  <2>2. CASE d \notin tunnel.destroyed \cup tunnel.remoteEnded
    <3> DEFINE x == [tunnel EXCEPT !.down = rest, !.recvCredit = [tunnel.recvCredit EXCEPT ![d] = tunnel.recvCredit[d] - f.bytes]]
    <3>1. ~(f.bytes > tunnel.recvCredit[d])
      <4>1. inFrames(tunnel.down, "data", d) = inFrames(rest, "data", d) + f.bytes /\ inFrames(rest, "data", d) \in Nat
        BY <1>4, <1>13 DEF TakenDown
      <4> QED BY <1>6, <1>8, <1>9, <4>1 DEF Credit, Known, fromNode
    <3>2. tunnel' = received([s EXCEPT !.recvCredit[d] = @ - f.bytes], d, f.bytes)
      BY <1>5, <1>13, <2>2, <3>1
    <3>3. [s EXCEPT !.recvCredit[d] = @ - f.bytes] = x /\ x.sockets = tunnel.sockets /\ x.over = tunnel.over
      BY <1>1 DEF TunnelType
    <3>4. TunnelOK(x, d, f.bytes)
      <4>1. \A t : t = x => TunnelOK(t, d, f.bytes) BY <1>3, <1>4, <1>7, <1>13, DataArrives
      <4> HIDE DEF x
      <4> QED BY <4>1
    <3> HIDE DEF x
    <3>5. tunnel' = received(x, d, f.bytes) BY <3>2, <3>3
    <3>6. 0 \in Nat /\ 0 + f.bytes = f.bytes /\ f.bytes \in 1..FrameLimit BY <1>6, <1>13
    <3>7. TunnelOK(x, d, 0 + f.bytes) /\ d \in x.sockets /\ x.over = FALSE
      BY <1>8, <1>13, <3>3, <3>4, <3>6
    <3>8. TunnelOK(received(x, d, f.bytes), d, 0) BY <1>3, <3>6, <3>7, ReceivedHolds
    <3> QED BY <3>5, <3>8
  <2> QED BY <2>1, <2>2
<1>14. CASE here /\ f.type = "credit"
  <2>1. CASE d \in tunnel.destroyed
    <3>1. tunnel' = s BY <1>5, <1>14, <2>1
    <3>2. dropped BY <1>14, <2>1
    <3> QED BY <1>10, <3>1, <3>2
  <2>2. CASE d \notin tunnel.destroyed
    <3>1. ~(tunnel.sendCredit[d] + f.bytes > TunnelWindow)
      <4>1. inFrames(tunnel.down, "credit", d) = inFrames(rest, "credit", d) + f.bytes /\ inFrames(rest, "credit", d) \in Nat
        BY <1>4, <1>14 DEF TakenDown
      <4> QED BY <1>6, <1>8, <1>9, <4>1 DEF Credit, Known, fromClient
    <3>2. tunnel' = [s EXCEPT !.sendCredit[d] = @ + f.bytes] BY <1>5, <1>14, <2>2, <3>1
    <3>3. tunnel' = [tunnel EXCEPT !.down = rest, !.sendCredit = [tunnel.sendCredit EXCEPT ![d] = tunnel.sendCredit[d] + f.bytes]]
      BY <1>1, <3>2 DEF TunnelType
    <3> QED BY <1>3, <1>4, <1>7, <1>14, <3>3, CreditArrives
  <2> QED BY <2>1, <2>2
<1>15. CASE here /\ f.type = "end"
  <2>1. tunnel' = [s EXCEPT !.remoteEnded = @ \cup {d}] BY <1>5, <1>15
  <2>2. tunnel' = [tunnel EXCEPT !.down = rest, !.remoteEnded = tunnel.remoteEnded \cup {d}]
    BY <1>1, <2>1 DEF TunnelType
  <2> QED BY <1>3, <1>4, <1>7, <1>15, <2>2, EndArrives
<1>16. CASE here /\ f.type = "closed"
  <2>1. tunnel' = remotelyClosed(s, d) BY <1>5, <1>16
  <2>2. rest \in Seq(DownFrame) /\ d \in tunnel.sockets BY <1>2, <1>16
  <2>3. PICK o, q, k : ClosedTo(tunnel, d, rest, o, q, k) BY <1>1, <1>8, <2>2, RemotelyClosedIs
  <2>4. \A t : t = [tunnel EXCEPT !.down = rest, !.sockets = tunnel.sockets \ {d}, !.slots = k, !.waiters = q, !.opener = o,
                                        !.acking = tunnel.acking \ {d}, !.remoteClosed = tunnel.remoteClosed \cup {d},
                                        !.destroyed = tunnel.destroyed \cup {d}] => TunnelOK(t, d, 0)
    <3>1. Released(tunnel, d, o, q, k) /\ (o[d] = "done" => tunnel.opener[d] = "done") /\ f.type = "closed"
      BY <1>16, <2>3 DEF ClosedTo
    <3>2. d \in TunnelConn /\ TunnelOK(tunnel, d, 0) /\ rest \in DownWires /\ TakenDown(tunnel.down, rest, f, d)
      BY <1>3, <1>4, <1>7
    <3> TAKE t
    <3> HAVE t = [tunnel EXCEPT !.down = rest, !.sockets = tunnel.sockets \ {d}, !.slots = k, !.waiters = q, !.opener = o,
                                        !.acking = tunnel.acking \ {d}, !.remoteClosed = tunnel.remoteClosed \cup {d},
                                        !.destroyed = tunnel.destroyed \cup {d}]
    <3> QED BY <3>1, <3>2, ClosedArrives, Zenon
  <2> QED BY <2>1, <2>3, <2>4 DEF ClosedTo
<1> QED BY <1>6, <1>11, <1>12, <1>13, <1>14, <1>15, <1>16

LEMMA TunnelStep ==
    ASSUME Orderly(tunnel), [TunnelNext]_tunnel
    PROVE  Orderly(tunnel')
<1>1. ASSUME NEW d \in TunnelConn,
             \/ OpenSocket(d) \/ SocketMade(d) \/ AckTimerFires(d) \/ SocketAbandoned(d) \/ ConsumerReads(d)
             \/ ClientWrites(d) \/ ClientSendsData(d) \/ ClientEndsSocket(d)
             \/ NodeConnects(d) \/ NodeWrites(d) \/ NodeReads(d) \/ NodeSendsData(d) \/ NodeReadsEnd(d)
             \/ NodeSocketFails(d) \/ NodeSocketClosed(d)
      PROVE  Orderly(tunnel')
  <2>1. CASE OpenSocket(d) \/ SocketMade(d) \/ AckTimerFires(d) \/ SocketAbandoned(d) \/ ConsumerReads(d)
    BY <2>1, OpenOrderly, MadeOrderly, TimerOrderly, AbandonedOrderly, ReadsOnOrderly
  <2>2. CASE ClientWrites(d) \/ ClientSendsData(d) \/ ClientEndsSocket(d)
    BY <2>2, WritesOrderly, SendsOrderly, EndsOrderly
  <2>3. CASE NodeConnects(d) \/ NodeWrites(d) \/ NodeReads(d) \/ NodeSendsData(d)
    BY <2>3, ConnectsOrderly, NodeWritesOrderly, ReadsOrderly, NodeSendsOrderly
  <2>4. CASE NodeReadsEnd(d) \/ NodeSocketFails(d) \/ NodeSocketClosed(d)
    BY <2>4, ReadsEndOrderly, FailsOrderly, ClosedOrderly
  <2> QED BY <1>1, <2>1, <2>2, <2>3, <2>4
<1>2. tunnel \in TunnelType BY DEF Orderly
<1>3. CASE ReadyArrives
  <2>1. tunnel' = [tunnel EXCEPT !.ready = TRUE] /\ tunnel.ready = FALSE
    BY <1>2, <1>3 DEF ReadyArrives, TunnelType
  <2>2. ASSUME NEW d \in TunnelConn PROVE Orderly(tunnel')
    <3>1. TunnelOK(tunnel, d, 0) BY OrderlyAt
    <3>2. TunnelOK(tunnel', d, 0) BY <2>1, <3>1, ReadyHolds
    <3> QED BY <3>2, OrderlyAt
  <2>3. CASE TunnelConn = {}
    <3>1. /\ tunnel'.over = tunnel.over /\ tunnel'.sockets = tunnel.sockets /\ tunnel'.slots = tunnel.slots
          /\ tunnel'.waiters = tunnel.waiters /\ tunnel'.opener = tunnel.opener /\ tunnel'.late = tunnel.late
          /\ tunnel'.refused = tunnel.refused /\ tunnel'.conns = tunnel.conns /\ tunnel'.up = tunnel.up /\ tunnel'.accused = tunnel.accused
      BY <1>2, <2>1 DEF TunnelType
    <3>2. TunnelSlotInv(tunnel') /\ RoomInv(tunnel')
      BY <3>1 DEF Orderly, TunnelSlotInv, RoomInv, grantedOf, roomFor
    <3>3. tunnel' \in TunnelType BY <1>2, <2>1, ZenonT(60) DEF TunnelType
    <3> QED BY <2>3, <3>1, <3>2, <3>3 DEF Orderly
  <2> QED BY <2>2, <2>3
<1>4. CASE SessionEnds
  <2>1. tunnel.over = FALSE /\ tunnel' = sessionFinished(tunnel)
    BY <1>2, <1>4 DEF SessionEnds, TunnelType
  <2> QED BY <2>1, FinishedHolds
<1>5. CASE NodeAborted
  <2>1. tunnel.aborted = FALSE BY <1>2, <1>5 DEF NodeAborted, TunnelType
  <2>2. tunnel' = [tunnel EXCEPT !.aborted = TRUE, !.nodeDestroyed = tunnel.nodeDestroyed \cup tunnel.conns, !.conns = {}]
    BY <1>5 DEF NodeAborted
  <2> QED BY <2>1, <2>2, AbortHolds
<1>6. CASE UNCHANGED tunnel BY <1>6
<1> QED BY <1>1, <1>3, <1>4, <1>5, <1>6, ClientReceivesOrderly, NodeReceivesOrderly DEF TunnelNext

LEMMA TunnelInitial ==
    ASSUME TunnelInit
    PROVE  Orderly(tunnel)
<1> DEFINE none == [c \in TunnelConn |-> 0]
           empty == [c \in TunnelConn |-> << >>]
<1>0. PICK bytesUp \in {0, MaxTunnelBytes}, bytesDown \in {0, MaxTunnelBytes} :
        tunnel = [up |-> << >>, down |-> << >>, ready |-> FALSE, over |-> FALSE, aborted |-> FALSE, late |-> FALSE,
                  opener |-> [c \in TunnelConn |-> "none"], waiters |-> << >>, slots |-> 0, sockets |-> {},
                  destroyed |-> {}, remoteClosed |-> {}, acking |-> {}, ended |-> {}, remoteEnded |-> {},
                  backpressured |-> {}, sendCredit |-> none, recvCredit |-> none, withheld |-> none,
                  pending |-> empty, buffer |-> none, writing |-> none,
                  unwritten |-> [c \in TunnelConn |-> bytesUp], unread |-> [c \in TunnelConn |-> bytesDown],
                  conns |-> {}, connected |-> {}, nodeDestroyed |-> {}, outCredit |-> none, inCredit |-> none,
                  input |-> empty, chunk |-> none, accused |-> {}, refused |-> {}]
  BY DEF TunnelInit
<1>1. /\ 0 \in 0..TunnelWindow /\ 0 \in 0..MaxTunnelBytes /\ MaxTunnelBytes \in 0..MaxTunnelBytes /\ 0 \in 0..MaxConnections /\ 0 \in Nat
      /\ bytesUp \in 0..MaxTunnelBytes /\ bytesDown \in 0..MaxTunnelBytes
  BY <1>0, TunnelAssumption
<1>2. << >> \in Seq(UpFrame) /\ << >> \in Seq(DownFrame) /\ << >> \in Seq(TunnelConn) /\ << >> \in Seq(1..FrameLimit) /\ << >> \in Seq(0..FrameLimit)
      /\ << >> \in Seq(TunnelFrame) /\ << >> \in Seq(Nat)
  OBVIOUS
<1>3. /\ none \in [TunnelConn -> 0..TunnelWindow] /\ none \in [TunnelConn -> 0..MaxTunnelBytes] /\ none \in [TunnelConn -> Nat]
      /\ empty \in [TunnelConn -> Seq(1..FrameLimit)] /\ empty \in [TunnelConn -> Seq(0..FrameLimit)]
      /\ [c \in TunnelConn |-> bytesUp] \in [TunnelConn -> 0..MaxTunnelBytes] /\ [c \in TunnelConn |-> bytesDown] \in [TunnelConn -> 0..MaxTunnelBytes]
      /\ [c \in TunnelConn |-> "none"] \in [TunnelConn -> OpenerState]
  BY <1>1, <1>2 DEF OpenerState
<1>4. \A c \in TunnelConn : none[c] = 0 /\ empty[c] = << >> OBVIOUS
<1> HIDE DEF none, empty
<1>5. tunnel \in TunnelType BY <1>0, <1>1, <1>2, <1>3 DEF TunnelType
<1>6. /\ tunnel.up = << >> /\ tunnel.down = << >> /\ tunnel.over = FALSE /\ tunnel.aborted = FALSE /\ tunnel.late = FALSE
      /\ (\A c \in TunnelConn : tunnel.opener[c] = "none") /\ tunnel.waiters = << >> /\ tunnel.slots = 0 /\ tunnel.sockets = {}
      /\ tunnel.destroyed = {} /\ tunnel.remoteClosed = {} /\ tunnel.acking = {} /\ tunnel.remoteEnded = {}
      /\ tunnel.sendCredit = none /\ tunnel.recvCredit = none /\ tunnel.withheld = none /\ tunnel.pending = empty
      /\ tunnel.buffer = none /\ tunnel.writing = none /\ tunnel.conns = {} /\ tunnel.connected = {} /\ tunnel.nodeDestroyed = {}
      /\ tunnel.outCredit = none /\ tunnel.inCredit = none /\ tunnel.input = empty /\ tunnel.chunk = none
      /\ tunnel.accused = {} /\ tunnel.refused = {}
  BY <1>0
<1>7. /\ \A ty, c : ~onWire(<< >>, ty, c) /\ once(<< >>, ty, c)
      /\ \A c : ~mentions(<< >>, c) /\ single(<< >>, c)
  BY DEF onWire, once, mentions, single
<1>8. total(<< >>) = 0 /\ \A ty, c : inFrames(<< >>, ty, c) = 0 BY <1>2, <1>7, TotalOf, WireCounts
<1>9. TunnelSlotInv(tunnel)
  <2>1. grantedOf(tunnel) = {} BY <1>6 DEF grantedOf
  <2> QED BY <1>6, <2>1, FS_EmptySet DEF TunnelSlotInv
<1>10. RoomInv(tunnel)
  <2>1. roomFor(tunnel) = {} BY <1>6, <1>7 DEF roomFor
  <2> QED BY <1>6, <2>1, FS_EmptySet, TunnelAssumption DEF RoomInv
<1>11. ASSUME NEW c \in TunnelConn PROVE ConnInv(tunnel, c) /\ Owed(tunnel, c, 0)
  <2>1. Still(tunnel, c) BY <1>4, <1>6, <1>7 DEF Still
  <2>2. Fresh(tunnel, c) BY <1>6, <1>7, <2>1 DEF Fresh
  <2>3. Heard(tunnel, c) BY <1>4, <1>6, <1>7 DEF Heard
  <2>4. Credit(tunnel, c)
    <3>1. /\ tunnel.outCredit[c] = 0 /\ tunnel.sendCredit[c] = 0 /\ tunnel.recvCredit[c] = 0 /\ tunnel.inCredit[c] = 0
          /\ inFrames(tunnel.up, "data", c) = 0 /\ inFrames(tunnel.up, "credit", c) = 0
          /\ inFrames(tunnel.down, "data", c) = 0 /\ inFrames(tunnel.down, "credit", c) = 0
      BY <1>4, <1>6, <1>8
    <3>2. c \notin tunnel.conns BY <1>6
    <3>3. fromNode(tunnel, c) = 0 /\ fromClient(tunnel, c) = 0 BY <3>1 DEF fromNode, fromClient
    <3> QED BY <3>1, <3>2, <3>3 DEF Credit, Live
  <2>5. Agree(tunnel, c) BY <1>6, <1>7 DEF Agree
  <2>6. Owed(tunnel, c, 0) BY <1>6 DEF Owed
  <2> QED BY <2>2, <2>3, <2>4, <2>5, <2>6 DEF ConnInv
<1> QED BY <1>5, <1>6, <1>9, <1>10, <1>11 DEF Orderly

LEMMA TunnelShows ==
    ASSUME Orderly(tunnel)
    PROVE  TunnelIsFair
<1>1. tunnel \in TunnelType /\ tunnel.accused = {} /\ TunnelSlotInv(tunnel) /\ RoomInv(tunnel) /\ \A c \in TunnelConn : ConnInv(tunnel, c) /\ Owed(tunnel, c, 0)
  BY DEF Orderly
<1>2. TunnelTypeOK
  <2>1. tunnel.up \in Seq(TunnelFrame) /\ tunnel.down \in Seq(TunnelFrame) BY <1>1, Wires
  <2>2. \A f \in {"ready", "over", "aborted", "late"} : tunnel[f] \in BOOLEAN BY <1>1 DEF TunnelType
  <2>3. tunnel.opener \in [TunnelConn -> OpenerState] /\ tunnel.waiters \in Seq(TunnelConn) /\ tunnel.slots \in 0..MaxConnections
    BY <1>1 DEF TunnelType
  <2>4. \A f \in {"sockets", "destroyed", "remoteClosed", "acking", "ended", "remoteEnded", "backpressured",
                  "conns", "connected", "nodeDestroyed", "accused", "refused"} : tunnel[f] \subseteq TunnelConn
    BY <1>1 DEF TunnelType
  <2>5. \A f \in {"sendCredit", "recvCredit", "withheld", "outCredit", "inCredit"} : tunnel[f] \in [TunnelConn -> 0..TunnelWindow]
    BY <1>1 DEF TunnelType
  <2>6. \A f \in {"writing", "unwritten", "chunk", "unread"} : tunnel[f] \in [TunnelConn -> 0..MaxTunnelBytes]
    BY <1>1 DEF TunnelType
  <2>7. \A c \in TunnelConn : tunnel.pending[c] \in Seq(1..FrameLimit) /\ tunnel.input[c] \in Seq(0..FrameLimit) /\ tunnel.buffer[c] \in Nat
    BY <1>1 DEF TunnelType
  <2> QED BY <2>1, <2>2, <2>3, <2>4, <2>5, <2>6, <2>7 DEF TunnelTypeOK, OpenerState
<1>3. CreditIsConserved
  <2> SUFFICES ASSUME ~tunnel.over, ~tunnel.aborted, NEW c \in TunnelConn, c \in tunnel.sockets, c \in tunnel.conns,
                      c \notin tunnel.destroyed, c \notin tunnel.nodeDestroyed
               PROVE  /\ tunnel.outCredit[c] + inFrames(tunnel.down, "data", c) + total(tunnel.pending[c])
                         + tunnel.withheld[c] + inFrames(tunnel.up, "credit", c) = TunnelWindow
                      /\ tunnel.opener[c] = "done" =>
                         tunnel.sendCredit[c] + inFrames(tunnel.up, "data", c) + total(tunnel.input[c])
                         + inFrames(tunnel.down, "credit", c) = TunnelWindow
    <3>1. tunnel.sockets \subseteq TunnelConn BY <1>1 DEF TunnelType
    <3> QED BY <1>1, <3>1 DEF CreditIsConserved
  <2>1. Live(tunnel, c) BY DEF Live
  <2>2. Credit(tunnel, c) /\ Owed(tunnel, c, 0) BY <1>1 DEF ConnInv
  <2>3. Known(tunnel, c) BY <1>1, WhatIsKnown
  <2>4. /\ tunnel.outCredit[c] + inFrames(tunnel.down, "data", c) + inFrames(tunnel.up, "credit", c) = tunnel.recvCredit[c]
        /\ tunnel.recvCredit[c] + total(tunnel.pending[c]) + tunnel.withheld[c] + 0 = TunnelWindow
        /\ tunnel.inCredit[c] + total(tunnel.input[c]) = TunnelWindow
        /\ tunnel.opener[c] = "done" =>
            tunnel.sendCredit[c] + inFrames(tunnel.up, "data", c) + inFrames(tunnel.down, "credit", c) = tunnel.inCredit[c]
    BY <2>1, <2>2 DEF Credit, Owed, fromNode, fromClient
  <2> QED BY <2>3, <2>4 DEF Known
<1>4. SlotsAreReturned
  <2>1. Range(tunnel.waiters) = {c \in TunnelConn : tunnel.opener[c] = "waiting"}
    <3>1. tunnel.waiters \in Seq(TunnelConn) BY <1>1 DEF TunnelType
    <3>2. \A i \in 1..Len(tunnel.waiters) : tunnel.waiters[i] \in TunnelConn BY <3>1
    <3>3. DOMAIN tunnel.waiters = 1..Len(tunnel.waiters) BY <3>1
    <3>4. /\ \A i \in 1..Len(tunnel.waiters) : tunnel.opener[tunnel.waiters[i]] = "waiting"
          /\ \A c \in TunnelConn : tunnel.opener[c] = "waiting" => \E i \in 1..Len(tunnel.waiters) : tunnel.waiters[i] = c
      BY <1>1 DEF TunnelSlotInv
    <3> QED BY <3>2, <3>3, <3>4 DEF Range
  <2> QED BY <1>1, <2>1 DEF SlotsAreReturned, TunnelSlotInv, grantedOf
<1>5. EndsAgree
  <2>1. ASSUME ~tunnel.over, ~tunnel.aborted, NEW c \in TunnelConn
        PROVE  /\ c \in tunnel.conns /\ c \notin tunnel.sockets => c \in tunnel.nodeDestroyed \/ onWire(tunnel.up, "close", c)
               /\ c \in tunnel.sockets /\ c \notin tunnel.conns => onWire(tunnel.up, "open", c) \/ onWire(tunnel.down, "closed", c)
    <3>1. Agree(tunnel, c) BY <1>1 DEF ConnInv
    <3> QED BY <2>1, <3>1 DEF Agree
  <2>2. tunnel.conns \subseteq TunnelConn /\ tunnel.sockets \subseteq TunnelConn
    BY <1>1 DEF TunnelType
  <2> QED BY <1>1, <2>1, <2>2 DEF EndsAgree, RoomInv
<1> QED BY <1>2, <1>3, <1>4, <1>5 DEF TunnelIsFair
=============================================================================
