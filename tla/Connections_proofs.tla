------------------------- MODULE Connections_proofs -------------------------
(***************************************************************************)
(* How a participant stays connected and with what authority it calls, for *)
(* every value of the constants: the connector of its channel keeps within *)
(* its backoff and implements the connection loop; the overlay splitter    *)
(* keeps the messages of its ports apart, whatever ids are on either side; *)
(* what a connection serves, shows and tells stays consistent, since its   *)
(* operations are made of changes that each tell the watcher what it sees  *)
(* of them (Tells); and what a permission covers it also permits, authority*)
(* only narrows along a chain, and what is issued is of use until the      *)
(* expiry that was shown, for chains of every length.                      *)
(* Then the loops that keep things going: the hub reconnect loop, the      *)
(* configured participants, the search for a peer, the acceptor of         *)
(* connections, and the supervisor of a managed service; what a console    *)
(* host replays to who attaches, and the consent rendezvous of the hub.    *)
(***************************************************************************)
EXTENDS ChannelConnector, OverlaySplitter, ConnectionRegistry, CapabilityIssuance, HubReconnect,
        ConfiguredParticipants, PeerDiscovery, ConnectionAcceptor, ServiceSupervisor, ConsoleHost,
        ConsentRendezvous, Integers, FiniteSetTheorems, WellFoundedInduction, TLAPS

-----------------------------------------------------------------------------
(* The connector (ChannelConnector).                                       *)

\* Doubling stays within the bounds.
LEMMA BackoffBounded ==
    ASSUME backoff \in InitialBackoff..MaxBackoff
    PROVE  /\ InitialBackoff \in InitialBackoff..MaxBackoff
           /\ (IF 2 * backoff < MaxBackoff THEN 2 * backoff ELSE MaxBackoff)
                 \in InitialBackoff..MaxBackoff
BY BackoffAssumption

LEMMA InitIInv == Init => IInv
<1> SUFFICES ASSUME Init PROVE IInv
  OBVIOUS
<1>1. InitialBackoff \in InitialBackoff..MaxBackoff BY BackoffAssumption
<1>2. TypeOK BY <1>1 DEF Init, TypeOK, Place
<1>3. NoLeak /\ CloseObserved BY DEF Init, NoLeak, CloseObserved, listening
<1> QED BY <1>2, <1>3 DEF IInv

LEMMA NextIInv == IInv /\ [Next]_vars => IInv'
<1> SUFFICES ASSUME IInv, [Next]_vars PROVE IInv'
  OBVIOUS
<1> USE DEF IInv, TypeOK, Place, NoLeak, CloseObserved, listening, finish, leaveOr
<1>1. CASE Dial \/ LoopExit \/ OpenFails \/ OpenResolves
  BY <1>1 DEF Dial, LoopExit, OpenFails, OpenResolves
<1>2. CASE Adopt BY <1>2 DEF Adopt
<1>3. CASE OnConnectSucceeds BY <1>3, BackoffBounded DEF OnConnectSucceeds
<1>4. CASE OnConnectFails BY <1>4 DEF OnConnectFails
<1>5. CASE ClosedSeen BY <1>5 DEF ClosedSeen
<1>6. CASE DelayOver BY <1>6, BackoffBounded DEF DelayOver
<1>7. CASE PeerCloses BY <1>7 DEF PeerCloses
<1>8. CASE Stop BY <1>8 DEF Stop
<1>9. CASE UNCHANGED vars BY <1>9 DEF vars
<1> QED BY <1>1, <1>2, <1>3, <1>4, <1>5, <1>6, <1>7, <1>8, <1>9 DEF Next, LoopStep

\* The inductive invariant holds in every reachable state.
THEOREM Invariance == Spec => []IInv
BY InitIInv, NextIInv, PTL DEF Spec

\* No channel is leaked, however the attempts end.
THEOREM ChannelsClosed == Spec => []NoLeak
<1>1. IInv => NoLeak BY DEF IInv
<1> QED BY <1>1, Invariance, PTL

\* Every step of the connector is a step of the abstract loop or invisible to it.
LEMMA NextRefines == IInv /\ [Next]_vars => [Loop!LoopNext]_(Loop!loopVars)
<1> SUFFICES ASSUME IInv, [Next]_vars PROVE [Loop!LoopNext]_(Loop!loopVars)
  OBVIOUS
<1> USE DEF IInv, TypeOK, Place, NoLeak, CloseObserved, listening, finish, leaveOr, phase,
            Loop!LoopNext, Loop!loopVars
<1>1. CASE Dial \/ LoopExit \/ OpenFails \/ OpenResolves
  BY <1>1 DEF Dial, LoopExit, OpenFails, OpenResolves, Loop!End
<1>2. CASE Adopt BY <1>2 DEF Adopt, Loop!End, Loop!Connect
<1>3. CASE OnConnectSucceeds \/ DelayOver BY <1>3 DEF OnConnectSucceeds, DelayOver
<1>4. CASE OnConnectFails BY <1>4 DEF OnConnectFails, Loop!End
<1>5. CASE ClosedSeen BY <1>5 DEF ClosedSeen, Loop!End
<1>6. CASE PeerCloses BY <1>6 DEF PeerCloses, Loop!Lose
<1>7. CASE Stop BY <1>7 DEF Stop, Loop!LoopStop
<1>8. CASE UNCHANGED vars BY <1>8 DEF vars
<1> QED BY <1>1, <1>2, <1>3, <1>4, <1>5, <1>6, <1>7, <1>8 DEF Next, LoopStep

\* The connector implements the abstract loop: it never connects after stop(), and
\* nothing is connected once it has ended.
THEOREM Refinement == Spec => ImplementsSafeLoop
<1>1. Init => Loop!LoopInit BY DEF Init, Loop!LoopInit, phase, listening
<1> QED BY <1>1, Invariance, NextRefines, PTL DEF Spec, ImplementsSafeLoop, Loop!LoopSafe

-----------------------------------------------------------------------------
(* The overlay splitter (OverlaySplitter).                                 *)

\* The inductive invariant.

CallType == [id : OwnId, target : Origin]

MessageType ==
    [kind : {"request", "toCallee"}, id : OwnId, to : Origin]
    \cup [kind : {"response", "toCaller"}, id : [type : {"tag"}, origin : Origin, id : UpstreamId],
          to : Origin, meantId : UpstreamId]

OverlayType ==
    overlay \in [used : SUBSET OwnId, calls : SUBSET CallType, pInitiated : SUBSET CallType,
                 served : SUBSET [origin : Origin, id : UpstreamId,
                                  seen : [type : {"tag"}, origin : Origin, id : UpstreamId]],
                 fromP : Seq(MessageType), sent : Nat, disposed : BOOLEAN, arrived : {overlay.arrived}]

\* P answers under the id it was given, which names the port and the id used there.
AnswersAreTagged ==
    /\ \A r \in overlay.served : r.seen = encodeId(r.origin, r.id)
    /\ \A i \in DOMAIN overlay.fromP : overlay.fromP[i].kind \in {"response", "toCaller"} =>
          overlay.fromP[i].id = encodeId(overlay.fromP[i].to, overlay.fromP[i].meantId)

\* No id of P is open at both ports.
IdsOpenOnce ==
    /\ \A c, d \in overlay.calls : c.id = d.id => c = d
    /\ \A c \in overlay.calls : c.id \in overlay.used

\* A request on its way is one of the open calls, is there once, and has no entry yet.
RequestsAreOpen ==
    \A i \in DOMAIN overlay.fromP : overlay.fromP[i].kind = "request" =>
        /\ [id |-> overlay.fromP[i].id, target |-> overlay.fromP[i].to] \in overlay.calls
        /\ \A c \in overlay.pInitiated : c.id # overlay.fromP[i].id
        /\ \A j \in DOMAIN overlay.fromP :
              overlay.fromP[j].kind = "request" /\ overlay.fromP[j].id = overlay.fromP[i].id => i = j

\* A frame for a callee is behind its request, until that has left its entry; once the call is
\* answered the id is not open again.
FramesFollow ==
    \A i \in DOMAIN overlay.fromP : overlay.fromP[i].kind = "toCallee" =>
        LET c == [id |-> overlay.fromP[i].id, target |-> overlay.fromP[i].to]
        IN /\ c.id \in overlay.used
           /\ \A d \in overlay.calls : d.id = c.id => d = c
           /\ c \in overlay.calls =>
                \/ overlay.disposed \/ c \in overlay.pInitiated
                \/ \E j \in DOMAIN overlay.fromP :
                      j < i /\ overlay.fromP[j].kind = "request" /\ overlay.fromP[j].id = c.id

OverlayInv ==
    /\ OverlayType /\ AnswersAreTagged /\ IdsOpenOnce /\ RequestsAreOpen /\ FramesFollow
    /\ InitiatedIsOpen /\ RoutedToItsCall

\* The steps.

LEMMA OverlayInvInit == OverlayInit => OverlayInv
BY DEF OverlayInit, OverlayInv, OverlayType, AnswersAreTagged, IdsOpenOnce, RequestsAreOpen,
       FramesFollow, InitiatedIsOpen, RoutedToItsCall

\* What is on its way, with one more message behind it.
LEMMA AppendShape ==
    ASSUME NEW S, NEW q \in Seq(S), NEW m \in S
    PROVE  /\ Append(q, m) \in Seq(S)
           /\ DOMAIN q = 1..Len(q) /\ Len(q) \in Nat
           /\ DOMAIN Append(q, m) = 1..(Len(q) + 1) /\ Len(Append(q, m)) = Len(q) + 1
           /\ \A i \in DOMAIN q : Append(q, m)[i] = q[i]
           /\ Append(q, m)[Len(q) + 1] = m
OBVIOUS

\* What is on its way, without the first message.
LEMMA TailShape ==
    ASSUME NEW S, NEW q \in Seq(S), q # << >>
    PROVE  /\ Tail(q) \in Seq(S)
           /\ DOMAIN q = 1..Len(q) /\ Len(q) \in Nat \ {0}
           /\ Head(q) = q[1] /\ q[1] \in S
           /\ DOMAIN Tail(q) = 1..(Len(q) - 1) /\ Len(Tail(q)) = Len(q) - 1
           /\ \A i \in DOMAIN Tail(q) : Tail(q)[i] = q[i + 1]
OBVIOUS

\* P calls: a fresh id, its request behind what is on its way.
LEMMA PRequestsKeeps ==
    ASSUME OverlayInv, NEW id \in OwnId, NEW target \in Origin, PRequests(id, target)
    PROVE  OverlayInv'
<1> DEFINE m == [kind |-> "request", id |-> id, to |-> target]
           c == [id |-> id, target |-> target]
           q == overlay.fromP
           n == Len(q) + 1
<1> USE DEF OverlayInv
<1>1. /\ q \in Seq(MessageType) /\ m \in MessageType /\ c \in CallType /\ id \notin overlay.used
      /\ m.kind = "request" /\ m.id = id /\ m.to = target /\ c.id = id /\ c.target = target
  BY DEF OverlayType, MessageType, CallType, PRequests
<1>2. overlay' = [overlay EXCEPT !.used = @ \cup {id}, !.calls = @ \cup {c}, !.sent = @ + 1, !.fromP = Append(@, m)]
  BY DEF PRequests
<1> HIDE DEF m, c
<1>3. /\ overlay'.used = overlay.used \cup {id} /\ overlay'.calls = overlay.calls \cup {c}
      /\ overlay'.pInitiated = overlay.pInitiated /\ overlay'.served = overlay.served
      /\ overlay'.fromP = Append(q, m) /\ overlay'.disposed = overlay.disposed
      /\ overlay'.arrived = overlay.arrived
  BY <1>2 DEF OverlayType
<1>4. /\ Append(q, m) \in Seq(MessageType) /\ DOMAIN q = 1..Len(q) /\ Len(q) \in Nat
      /\ DOMAIN overlay'.fromP = 1..n /\ Len(overlay'.fromP) = n
      /\ \A i \in DOMAIN q : overlay'.fromP[i] = q[i]
      /\ overlay'.fromP[n] = m
  BY <1>1, <1>3, AppendShape
<1>5. OverlayType'
    <2>1. /\ overlay.used \cup {id} \in SUBSET OwnId /\ overlay.calls \cup {c} \in SUBSET CallType
          /\ overlay.sent + 1 \in Nat
      BY <1>1 DEF OverlayType
    <2> QED BY <1>2, <1>4, <2>1 DEF OverlayType
<1>6. AnswersAreTagged' BY <1>1, <1>3, <1>4 DEF AnswersAreTagged
<1>7. IdsOpenOnce' BY <1>1, <1>3 DEF IdsOpenOnce
<1>8. RequestsAreOpen'
    <2>1. \A d \in overlay.pInitiated : d.id # id BY <1>1 DEF InitiatedIsOpen, IdsOpenOnce
    <2>2. ASSUME NEW i \in DOMAIN q, q[i].kind = "request" PROVE q[i].id # id
        <3>1. [id |-> q[i].id, target |-> q[i].to] \in overlay.calls BY <2>2 DEF RequestsAreOpen
        <3>2. [id |-> q[i].id, target |-> q[i].to].id \in overlay.used BY <3>1 DEF IdsOpenOnce
        <3> QED BY <1>1, <3>2
    <2>3. [id |-> m.id, target |-> m.to] = c BY <1>1 DEF c
    <2>4. ASSUME NEW i \in DOMAIN overlay'.fromP, overlay'.fromP[i].kind = "request"
          PROVE  /\ [id |-> overlay'.fromP[i].id, target |-> overlay'.fromP[i].to] \in overlay'.calls
                 /\ \A d \in overlay'.pInitiated : d.id # overlay'.fromP[i].id
                 /\ \A j \in DOMAIN overlay'.fromP :
                      overlay'.fromP[j].kind = "request" /\ overlay'.fromP[j].id = overlay'.fromP[i].id => i = j
        <3>1. CASE i = n BY <1>1, <1>3, <1>4, <2>1, <2>2, <2>3, <3>1
        <3>2. CASE i # n
            <4>1. i \in DOMAIN q /\ overlay'.fromP[i] = q[i] /\ q[i].kind = "request"
              BY <1>4, <2>4, <3>2
            <4>2. [id |-> q[i].id, target |-> q[i].to] \in overlay'.calls
              BY <1>3, <4>1 DEF RequestsAreOpen
            <4>3. \A j \in DOMAIN q : q[j].kind = "request" /\ q[j].id = q[i].id => i = j
              BY <4>1 DEF RequestsAreOpen
            <4>4. \A d \in overlay'.pInitiated : d.id # q[i].id BY <1>3, <4>1 DEF RequestsAreOpen
            <4> QED BY <1>1, <1>4, <2>2, <4>1, <4>2, <4>3, <4>4
        <3> QED BY <3>1, <3>2
    <2> QED BY <2>4 DEF RequestsAreOpen
<1>9. FramesFollow'
    <2>1. ASSUME NEW i \in DOMAIN q, q[i].kind = "toCallee"
          PROVE  LET k == [id |-> q[i].id, target |-> q[i].to]
                 IN /\ k.id \in overlay'.used
                    /\ \A d \in overlay'.calls : d.id = k.id => d = k
                    /\ k \in overlay'.calls =>
                        \/ overlay'.disposed \/ k \in overlay'.pInitiated
                        \/ \E j \in DOMAIN overlay'.fromP :
                              j < i /\ overlay'.fromP[j].kind = "request" /\ overlay'.fromP[j].id = k.id
        <3> DEFINE k == [id |-> q[i].id, target |-> q[i].to]
        <3>1. k.id \in overlay.used /\ k.id # id BY <1>1, <2>1 DEF FramesFollow
        <3>2. \A d \in overlay.calls : d.id = k.id => d = k BY <2>1 DEF FramesFollow
        <3>3. k \in overlay.calls =>
                \/ overlay.disposed \/ k \in overlay.pInitiated
                \/ \E j \in DOMAIN q : j < i /\ q[j].kind = "request" /\ q[j].id = k.id
          BY <2>1 DEF FramesFollow
        <3> HIDE DEF k
        <3>4. /\ k.id \in overlay'.used
              /\ \A d \in overlay'.calls : d.id = k.id => d = k
              /\ k \in overlay'.calls => k \in overlay.calls
          BY <1>1, <1>3, <3>1, <3>2
        <3>5. DOMAIN q \subseteq DOMAIN overlay'.fromP BY <1>4
        <3>6. k \in overlay'.calls =>
                \/ overlay'.disposed \/ k \in overlay'.pInitiated
                \/ \E j \in DOMAIN overlay'.fromP :
                      j < i /\ overlay'.fromP[j].kind = "request" /\ overlay'.fromP[j].id = k.id
          BY <1>3, <1>4, <3>3, <3>4, <3>5
        <3> QED BY <3>4, <3>6 DEF k
    <2>2. \A i \in DOMAIN overlay'.fromP : overlay'.fromP[i].kind = "toCallee" =>
            i \in DOMAIN q /\ overlay'.fromP[i] = q[i] /\ q[i].kind = "toCallee"
      BY <1>1, <1>4
    <2> QED BY <2>1, <2>2 DEF FramesFollow
<1>10. InitiatedIsOpen'
    <2>1. \A i \in DOMAIN q : i \in 1..Len(overlay'.fromP) BY <1>4
    <2>2. n \in 1..Len(overlay'.fromP) BY <1>4
    <2> QED BY <1>1, <1>3, <1>4, <2>1, <2>2 DEF InitiatedIsOpen
<1>11. RoutedToItsCall' BY <1>3 DEF RoutedToItsCall
<1> QED BY <1>5, <1>6, <1>7, <1>8, <1>9, <1>10, <1>11

\* P sends anything but a request: behind the request it belongs to, if that is on its way.
LEMMA PSendsKeeps ==
    ASSUME OverlayInv, NEW m \in MessageType, m.kind # "request",
           m.kind = "toCallee" => [id |-> m.id, target |-> m.to] \in overlay.calls,
           m.kind \in {"response", "toCaller"} => m.id = encodeId(m.to, m.meantId),
           NEW served \in SUBSET overlay.served,
           overlay' = [overlay EXCEPT !.sent = @ + 1, !.served = served, !.fromP = Append(@, m)]
    PROVE  OverlayInv'
<1> DEFINE q == overlay.fromP
           n == Len(q) + 1
<1> USE DEF OverlayInv
<1>1. q \in Seq(MessageType) BY DEF OverlayType
<1>2. /\ overlay'.used = overlay.used /\ overlay'.calls = overlay.calls
      /\ overlay'.pInitiated = overlay.pInitiated /\ overlay'.served = served
      /\ overlay'.fromP = Append(q, m) /\ overlay'.disposed = overlay.disposed
      /\ overlay'.arrived = overlay.arrived
  BY DEF OverlayType
<1>3. /\ Append(q, m) \in Seq(MessageType) /\ DOMAIN q = 1..Len(q) /\ Len(q) \in Nat
      /\ DOMAIN overlay'.fromP = 1..n /\ Len(overlay'.fromP) = n
      /\ \A i \in DOMAIN q : overlay'.fromP[i] = q[i]
      /\ overlay'.fromP[n] = m
  BY <1>1, <1>2, AppendShape
<1>4. OverlayType'
    <2>1. overlay.sent + 1 \in Nat BY DEF OverlayType
    <2> QED BY <1>3, <2>1 DEF OverlayType
<1>5. AnswersAreTagged' BY <1>2, <1>3 DEF AnswersAreTagged
<1>6. IdsOpenOnce' BY <1>2 DEF IdsOpenOnce
<1>7. \A i \in DOMAIN overlay'.fromP : overlay'.fromP[i].kind = "request" =>
        i \in DOMAIN q /\ overlay'.fromP[i] = q[i] /\ q[i].kind = "request"
  BY <1>3
<1>8. RequestsAreOpen' BY <1>2, <1>7 DEF RequestsAreOpen
<1>9. FramesFollow'
    <2>1. ASSUME NEW i \in DOMAIN overlay'.fromP, overlay'.fromP[i].kind = "toCallee",
                 NEW k, k = [id |-> overlay'.fromP[i].id, target |-> overlay'.fromP[i].to]
          PROVE  /\ k.id \in overlay.used
                 /\ \A d \in overlay.calls : d.id = k.id => d = k
                 /\ k \in overlay.calls =>
                        \/ overlay.disposed \/ k \in overlay.pInitiated
                        \/ \E j \in DOMAIN q : j < i /\ q[j].kind = "request" /\ q[j].id = k.id
        <3>1. CASE i = n
            <4>1. k \in overlay.calls BY <1>3, <2>1, <3>1
            <4>2. \/ overlay.disposed \/ k \in overlay.pInitiated
                  \/ \E j \in DOMAIN q : q[j].kind = "request" /\ q[j].id = k.id
              BY <1>3, <4>1 DEF InitiatedIsOpen
            <4>3. \A j \in DOMAIN q : j < i BY <1>3, <3>1
            <4> QED BY <4>1, <4>2, <4>3 DEF IdsOpenOnce
        <3>2. CASE i # n
            <4>1. i \in DOMAIN q /\ overlay'.fromP[i] = q[i] /\ q[i].kind = "toCallee"
              BY <1>3, <2>1, <3>2
            <4> QED BY <2>1, <4>1 DEF FramesFollow
        <3> QED BY <3>1, <3>2
    <2>2. ASSUME NEW i \in DOMAIN overlay'.fromP, overlay'.fromP[i].kind = "toCallee",
                 NEW k, k = [id |-> overlay'.fromP[i].id, target |-> overlay'.fromP[i].to]
          PROVE  /\ k.id \in overlay'.used
                 /\ \A d \in overlay'.calls : d.id = k.id => d = k
                 /\ k \in overlay'.calls =>
                        \/ overlay'.disposed \/ k \in overlay'.pInitiated
                        \/ \E j \in DOMAIN overlay'.fromP :
                              j < i /\ overlay'.fromP[j].kind = "request" /\ overlay'.fromP[j].id = k.id
        <3>1. DOMAIN q \subseteq DOMAIN overlay'.fromP BY <1>3
        <3> QED BY <1>2, <1>3, <2>1, <2>2, <3>1
    <2> QED BY <2>2 DEF FramesFollow
<1>10. InitiatedIsOpen'
    <2>1. \A i \in 1..Len(q) : i \in 1..Len(overlay'.fromP) /\ overlay'.fromP[i] = q[i] BY <1>3
    <2> QED BY <1>2, <2>1 DEF InitiatedIsOpen
<1>11. RoutedToItsCall' BY <1>2 DEF RoutedToItsCall
<1> QED BY <1>4, <1>5, <1>6, <1>8, <1>9, <1>10, <1>11

\* The splitter takes the first message: a request leaves its entry, the others leave the entries alone.
LEMMA TakenKeeps ==
    ASSUME OverlayInv, overlay.fromP # << >>, ~overlay.disposed,
           NEW m, m = Head(overlay.fromP),
           NEW c, c = [id |-> m.id, target |-> m.to],
           NEW entries, entries = IF m.kind = "request"
                                  THEN {i \in overlay.pInitiated : i.id # m.id} \cup {c} ELSE overlay.pInitiated,
           NEW arrived,
           overlay' = [overlay EXCEPT !.fromP = Tail(@), !.pInitiated = entries, !.arrived = arrived],
           RoutedToItsCall'
    PROVE  OverlayInv'
<1> DEFINE q == overlay.fromP
           r == overlay'.fromP
<1> USE DEF OverlayInv
<1>1. q \in Seq(MessageType) BY DEF OverlayType
<1>2. /\ overlay'.used = overlay.used /\ overlay'.calls = overlay.calls
      /\ overlay'.pInitiated = entries /\ overlay'.served = overlay.served
      /\ r = Tail(q) /\ overlay'.disposed = overlay.disposed
  BY DEF OverlayType
<1>3. /\ r \in Seq(MessageType) /\ DOMAIN q = 1..Len(q) /\ Len(q) \in Nat \ {0}
      /\ m = q[1] /\ m \in MessageType
      /\ DOMAIN r = 1..(Len(q) - 1) /\ Len(r) = Len(q) - 1
      /\ \A i \in DOMAIN r : r[i] = q[i + 1]
  BY <1>1, <1>2, TailShape
<1>4. \A i \in DOMAIN r : i + 1 \in DOMAIN q /\ r[i] = q[i + 1] /\ i + 1 # 1 /\ i \in Nat BY <1>3
<1>5. 1 \in DOMAIN q BY <1>3
<1>6. m.kind = "request" => c \in overlay.calls /\ c.id = m.id /\ \A d \in overlay.pInitiated : d.id # m.id
  BY <1>3, <1>5 DEF RequestsAreOpen
<1>7. /\ m.kind = "request" => entries = overlay.pInitiated \cup {c}
      /\ m.kind # "request" => entries = overlay.pInitiated
  BY <1>6
<1>8. entries \subseteq overlay.calls /\ overlay.pInitiated \subseteq entries
  BY <1>6, <1>7 DEF InitiatedIsOpen
<1>9. OverlayType'
    <2>1. entries \in SUBSET CallType BY <1>8 DEF OverlayType
    <2>2. Tail(overlay.fromP) \in Seq(MessageType) BY <1>2, <1>3
    <2> QED BY <2>1, <2>2 DEF OverlayType
<1>10. AnswersAreTagged'
    <2>1. \A i \in DOMAIN r : r[i].kind \in {"response", "toCaller"} => r[i].id = encodeId(r[i].to, r[i].meantId)
      BY <1>4 DEF AnswersAreTagged
    <2> QED BY <1>2, <2>1 DEF AnswersAreTagged
<1>11. IdsOpenOnce' BY <1>2 DEF IdsOpenOnce
<1>12. RequestsAreOpen'
    <2>1. ASSUME NEW i \in DOMAIN r, r[i].kind = "request"
          PROVE  /\ [id |-> r[i].id, target |-> r[i].to] \in overlay.calls
                 /\ \A d \in entries : d.id # r[i].id
                 /\ \A j \in DOMAIN r : r[j].kind = "request" /\ r[j].id = r[i].id => i = j
        <3>1. i + 1 \in DOMAIN q /\ r[i] = q[i + 1] /\ q[i + 1].kind = "request" /\ i + 1 # 1 /\ i \in Nat
          BY <1>4, <2>1
        <3>2. /\ [id |-> r[i].id, target |-> r[i].to] \in overlay.calls
              /\ \A d \in overlay.pInitiated : d.id # r[i].id
              /\ \A j \in DOMAIN q : q[j].kind = "request" /\ q[j].id = r[i].id => i + 1 = j
          BY <3>1 DEF RequestsAreOpen
        <3>3. m.kind = "request" => m.id # r[i].id BY <1>3, <1>5, <3>1, <3>2
        <3>4. \A d \in entries : d.id # r[i].id BY <1>6, <1>7, <3>2, <3>3
        <3>5. \A j \in DOMAIN r : r[j].kind = "request" /\ r[j].id = r[i].id => i = j
          BY <1>4, <3>1, <3>2
        <3> QED BY <3>2, <3>4, <3>5
    <2> QED BY <1>2, <2>1 DEF RequestsAreOpen
<1>13. FramesFollow'
    <2>1. ASSUME NEW i \in DOMAIN r, r[i].kind = "toCallee",
                 NEW k, k = [id |-> r[i].id, target |-> r[i].to]
          PROVE  /\ k.id \in overlay.used
                 /\ \A d \in overlay.calls : d.id = k.id => d = k
                 /\ k \in overlay.calls =>
                        \/ k \in entries
                        \/ \E j \in DOMAIN r : j < i /\ r[j].kind = "request" /\ r[j].id = k.id
        <3>1. i + 1 \in DOMAIN q /\ r[i] = q[i + 1] /\ q[i + 1].kind = "toCallee" /\ i \in Nat
          BY <1>4, <2>1
        <3>2. /\ k.id \in overlay.used
              /\ \A d \in overlay.calls : d.id = k.id => d = k
              /\ k \in overlay.calls =>
                    \/ k \in overlay.pInitiated
                    \/ \E j \in DOMAIN q : j < i + 1 /\ q[j].kind = "request" /\ q[j].id = k.id
          BY <2>1, <3>1 DEF FramesFollow
        <3>3. ASSUME k \in overlay.calls,
                     NEW j \in DOMAIN q, j < i + 1, q[j].kind = "request", q[j].id = k.id
              PROVE  \/ k \in entries
                     \/ \E h \in DOMAIN r : h < i /\ r[h].kind = "request" /\ r[h].id = k.id
            <4>1. CASE j = 1 BY <1>3, <1>6, <1>7, <3>2, <3>3, <4>1
            <4>2. CASE j # 1
                <5>1. j - 1 \in DOMAIN r /\ j - 1 < i /\ r[j - 1] = q[j] BY <1>3, <3>1, <3>3, <4>2
                <5> QED BY <3>3, <5>1
            <4> QED BY <4>1, <4>2
        <3> QED BY <1>8, <3>2, <3>3
    <2> QED BY <1>2, <2>1 DEF FramesFollow
<1>14. InitiatedIsOpen'
    <2>1. ASSUME NEW d \in overlay.calls \ entries
          PROVE  \E i \in 1..Len(r) : r[i].kind = "request" /\ r[i].id = d.id
        <3>1. PICK j \in 1..Len(q) : q[j].kind = "request" /\ q[j].id = d.id
          BY <1>8 DEF InitiatedIsOpen
        <3>2. j # 1 BY <1>3, <1>6, <1>7, <2>1, <3>1 DEF IdsOpenOnce
        <3>3. j - 1 \in DOMAIN r /\ (j - 1) + 1 = j /\ DOMAIN r = 1..Len(r) BY <1>3, <3>2
        <3>4. r[j - 1] = q[j] BY <1>3, <3>3
        <3> QED BY <3>1, <3>3, <3>4
    <2> QED BY <1>2, <1>8, <2>1 DEF InitiatedIsOpen
<1> QED BY <1>9, <1>10, <1>11, <1>12, <1>13, <1>14

\* _onFromParticipant: where the first message comes out.
LEMMA FromParticipantKeeps ==
    ASSUME OverlayInv, FromParticipant
    PROVE  OverlayInv'
<1> DEFINE q == overlay.fromP
           m == Head(q)
           c == [id |-> m.id, target |-> m.to]
<1> USE DEF OverlayInv
<1>1. q # << >> /\ ~overlay.disposed BY DEF FromParticipant
<1>2. m = q[1] /\ m \in MessageType /\ 1 \in DOMAIN q /\ DOMAIN q = 1..Len(q) /\ Len(q) \in Nat
  BY <1>1, TailShape DEF OverlayType
<1>3. ASSUME NEW entries, NEW arrived,
             overlay' = [overlay EXCEPT !.fromP = Tail(@), !.pInitiated = entries, !.arrived = arrived]
      PROVE  overlay'.arrived = arrived
  BY <1>3 DEF OverlayType
<1>4. CASE m.kind = "request"
    <2> DEFINE entries == {i \in overlay.pInitiated : i.id # m.id} \cup {c}
               arrived == overlayOut("request", m.to, m.id, m.to, m.id, TRUE)
    <2>1. overlay' = [overlay EXCEPT !.fromP = Tail(@), !.pInitiated = entries, !.arrived = arrived]
      BY <1>4 DEF FromParticipant, OverlayType
    <2>2. RoutedToItsCall'
        <3>1. overlay'.arrived = arrived BY <1>3, <2>1
        <3> QED BY <3>1 DEF RoutedToItsCall, overlayOut
    <2> HIDE DEF arrived
    <2> QED BY <1>1, <1>4, <2>1, <2>2, TakenKeeps
<1>5. CASE m.kind = "toCallee"
    <2> DEFINE arrived == overlayOut("toCallee", streamTarget(m), m.id, m.to, m.id, c \in overlay.calls)
    <2>1. overlay' = [overlay EXCEPT !.fromP = Tail(@), !.pInitiated = overlay.pInitiated, !.arrived = arrived]
      BY <1>5 DEF FromParticipant, OverlayType
    <2>2. m.to \in Origin /\ c.id = m.id /\ c.target = m.to BY <1>2, <1>5 DEF MessageType
    <2>3. /\ \A d \in overlay.calls : d.id = c.id => d = c
          /\ c \in overlay.calls => c \in overlay.pInitiated
      BY <1>1, <1>2, <1>5 DEF FramesFollow
    <2>4. overlay.pInitiated \subseteq overlay.calls BY DEF InitiatedIsOpen
    <2>5. c \in overlay.calls => streamTarget(m) = m.to
        <3>1. SUFFICES ASSUME c \in overlay.calls PROVE streamTarget(m) = m.to
          OBVIOUS
        <3>2. c \in overlay.pInitiated BY <2>3, <3>1
        <3>3. CASE m.to = "C" BY <3>2, <3>3 DEF streamTarget, initiatedAt, Origin
        <3>4. CASE m.to = "H"
            <4>1. [id |-> m.id, target |-> "C"] \notin overlay.pInitiated BY <2>2, <2>3, <2>4, <3>4
            <4> QED BY <3>4, <4>1 DEF streamTarget, initiatedAt, Origin
        <3> QED BY <2>2, <3>3, <3>4 DEF Origin
    <2>6. c \notin overlay.calls => streamTarget(m) = "H"
        <3>1. SUFFICES ASSUME c \notin overlay.calls PROVE streamTarget(m) = "H"
          OBVIOUS
        <3>2. [id |-> m.id, target |-> "C"] \notin overlay.pInitiated BY <2>2, <2>3, <2>4, <3>1
        <3> QED BY <3>2 DEF streamTarget, initiatedAt, Origin
    <2>7. RoutedToItsCall'
        <3>1. overlay'.arrived = arrived BY <1>3, <2>1
        <3>2. /\ arrived.id = m.id /\ arrived.meantId = m.id
              /\ arrived.port = streamTarget(m) /\ arrived.to = m.to
          BY DEF overlayOut
        <3>3. arrived.live <=> c \in overlay.calls
            <4>1. arrived.live = (c \in overlay.calls) BY DEF overlayOut
            <4> QED BY <4>1, Zenon
        <3> HIDE DEF arrived
        <3> QED BY <2>5, <2>6, <3>1, <3>2, <3>3 DEF RoutedToItsCall
    <2> HIDE DEF arrived
    <2> QED BY <1>1, <1>5, <2>1, <2>7, TakenKeeps
<1>6. CASE m.kind \in {"response", "toCaller"}
    <2> DEFINE arrived == overlayOut(m.kind, m.id.origin, m.id.id, m.to, m.meantId, TRUE)
    <2>1. overlay' = [overlay EXCEPT !.fromP = Tail(@), !.pInitiated = overlay.pInitiated, !.arrived = arrived]
      BY <1>6 DEF FromParticipant, OverlayType
    <2>2. m.id = encodeId(m.to, m.meantId) BY <1>2, <1>6 DEF AnswersAreTagged
    <2>3. RoutedToItsCall'
        <3>1. overlay'.arrived = arrived BY <1>3, <2>1
        <3> QED BY <2>2, <3>1 DEF RoutedToItsCall, overlayOut, encodeId
    <2> HIDE DEF arrived
    <2> QED BY <1>1, <1>6, <2>1, <2>3, TakenKeeps
<1> QED BY <1>4, <1>5, <1>6 DEF FromParticipant

\* The steps that leave what is on its way and the calls alone; the entries stay, or are dropped
\* for good.
LEMMA OthersKeep ==
    ASSUME OverlayInv, OverlayType', AnswersAreTagged', RoutedToItsCall',
           overlay'.used = overlay.used, overlay'.calls = overlay.calls, overlay'.fromP = overlay.fromP,
           \/ overlay'.pInitiated = overlay.pInitiated /\ overlay'.disposed = overlay.disposed
           \/ overlay'.pInitiated = {} /\ overlay'.disposed = TRUE
    PROVE  OverlayInv'
<1>1. IdsOpenOnce' BY DEF OverlayInv, IdsOpenOnce
<1>2. RequestsAreOpen' BY DEF OverlayInv, RequestsAreOpen
<1>3. FramesFollow' BY DEF OverlayInv, FramesFollow
<1>4. InitiatedIsOpen' BY DEF OverlayInv, InitiatedIsOpen
<1> QED BY <1>1, <1>2, <1>3, <1>4 DEF OverlayInv

\* _onFromUpstream: a request gets the tag of its port.
LEMMA UpstreamRequestsKeeps ==
    ASSUME OverlayInv, NEW origin \in Origin, NEW id \in UpstreamId, UpstreamRequests(origin, id)
    PROVE  OverlayInv'
<1> DEFINE r == [origin |-> origin, id |-> id, seen |-> encodeId(origin, id)]
<1>1. /\ r \in [origin : Origin, id : UpstreamId, seen : [type : {"tag"}, origin : Origin, id : UpstreamId]]
      /\ r.seen = encodeId(r.origin, r.id)
  BY DEF encodeId
<1>2. overlay' = [overlay EXCEPT !.sent = @ + 1, !.served = @ \cup {r}, !.arrived = [kind |-> "none"]]
  BY DEF UpstreamRequests
<1> HIDE DEF r
<1>3. OverlayType /\ overlay.sent + 1 \in Nat BY DEF OverlayInv, OverlayType
<1>4. OverlayType' BY <1>1, <1>2, <1>3 DEF OverlayType
<1>5. /\ overlay'.used = overlay.used /\ overlay'.calls = overlay.calls /\ overlay'.fromP = overlay.fromP
      /\ overlay'.pInitiated = overlay.pInitiated /\ overlay'.disposed = overlay.disposed
      /\ overlay'.served = overlay.served \cup {r} /\ overlay'.arrived = [kind |-> "none"]
  BY <1>2, <1>3 DEF OverlayType
<1>6. AnswersAreTagged' /\ RoutedToItsCall'
  BY <1>1, <1>5 DEF OverlayInv, AnswersAreTagged, RoutedToItsCall
<1> QED BY <1>4, <1>5, <1>6, OthersKeep

\* A frame that goes down, under the id P knows.
LEMMA StreamsDownKeeps ==
    ASSUME OverlayInv, NEW id,
           overlay' = [overlay EXCEPT !.sent = @ + 1, !.arrived = overlayOut("streamed", "P", id, "P", id, TRUE)]
    PROVE  OverlayInv'
<1>1. OverlayType /\ overlay.sent + 1 \in Nat BY DEF OverlayInv, OverlayType
<1>2. OverlayType' BY <1>1 DEF OverlayType
<1>3. /\ overlay'.used = overlay.used /\ overlay'.calls = overlay.calls /\ overlay'.fromP = overlay.fromP
      /\ overlay'.pInitiated = overlay.pInitiated /\ overlay'.disposed = overlay.disposed
      /\ overlay'.served = overlay.served /\ overlay'.arrived = overlayOut("streamed", "P", id, "P", id, TRUE)
  BY <1>1 DEF OverlayType
<1>4. AnswersAreTagged' /\ RoutedToItsCall'
  BY <1>3 DEF OverlayInv, AnswersAreTagged, RoutedToItsCall, overlayOut
<1> QED BY <1>2, <1>3, <1>4, OthersKeep

LEMMA DisposeKeeps ==
    ASSUME OverlayInv, OverlayDispose
    PROVE  OverlayInv'
<1>1. OverlayType BY DEF OverlayInv
<1>2. OverlayType' BY <1>1 DEF OverlayDispose, OverlayType
<1>3. /\ overlay'.used = overlay.used /\ overlay'.calls = overlay.calls /\ overlay'.fromP = overlay.fromP
      /\ overlay'.pInitiated = {} /\ overlay'.disposed = TRUE
      /\ overlay'.served = overlay.served /\ overlay'.arrived = [kind |-> "none"]
  BY <1>1 DEF OverlayDispose, OverlayType
<1>4. AnswersAreTagged' /\ RoutedToItsCall'
  BY <1>3 DEF OverlayInv, AnswersAreTagged, RoutedToItsCall
<1> QED BY <1>2, <1>3, <1>4, OthersKeep

\* A response for P ends its call and the entry together.
LEMMA UpstreamRespondsKeeps ==
    ASSUME OverlayInv, NEW c \in overlay.calls, UpstreamResponds(c)
    PROVE  OverlayInv'
<1> USE DEF OverlayInv
<1>1. /\ overlay'.used = overlay.used /\ overlay'.calls = overlay.calls \ {c} /\ overlay'.fromP = overlay.fromP
      /\ overlay'.pInitiated = {i \in overlay.pInitiated : i.id # c.id} /\ overlay'.disposed = overlay.disposed
      /\ overlay'.served = overlay.served /\ overlay'.arrived = [kind |-> "none"]
      /\ OverlayType' /\ c \in overlay.pInitiated
  BY DEF UpstreamResponds, OverlayType
<1>2. \A d \in overlay.calls : d # c => d.id # c.id BY DEF IdsOpenOnce
<1>3. overlay'.pInitiated = overlay.pInitiated \ {c} BY <1>1, <1>2 DEF InitiatedIsOpen
<1>4. RequestsAreOpen' BY <1>1, <1>3 DEF RequestsAreOpen
<1>5. FramesFollow' BY <1>1, <1>3 DEF FramesFollow
<1>6. InitiatedIsOpen' BY <1>1, <1>3 DEF InitiatedIsOpen
<1>7. IdsOpenOnce' /\ AnswersAreTagged' /\ RoutedToItsCall'
  BY <1>1 DEF IdsOpenOnce, AnswersAreTagged, RoutedToItsCall
<1> QED BY <1>1, <1>4, <1>5, <1>6, <1>7

LEMMA OverlayInvStep == OverlayInv /\ [OverlayNext]_overlay => OverlayInv'
<1> SUFFICES ASSUME OverlayInv, [OverlayNext]_overlay PROVE OverlayInv'
  OBVIOUS
<1>1. ASSUME NEW id \in OwnId, NEW target \in Origin, PRequests(id, target) PROVE OverlayInv'
  BY <1>1, PRequestsKeeps
<1>2. ASSUME NEW c \in overlay.calls, PStreamsToCallee(c) PROVE OverlayInv'
    <2> DEFINE m == [kind |-> "toCallee", id |-> c.id, to |-> c.target]
    <2>1. c \in CallType /\ c = [id |-> m.id, target |-> m.to] /\ m \in MessageType /\ m.kind = "toCallee"
      BY DEF OverlayInv, OverlayType, CallType, MessageType
    <2>2. overlay' = [overlay EXCEPT !.sent = @ + 1, !.served = overlay.served, !.fromP = Append(@, m)]
      BY <1>2 DEF PStreamsToCallee, OverlayInv, OverlayType
    <2> HIDE DEF m
    <2> QED BY <2>1, <2>2, PSendsKeeps
<1>3. ASSUME NEW r \in overlay.served, NEW kind \in {"response", "toCaller"}, PAnswers(r, kind)
      PROVE  OverlayInv'
    <2> DEFINE m == [kind |-> kind, id |-> r.seen, to |-> r.origin, meantId |-> r.id]
               served == IF kind = "response" THEN overlay.served \ {r} ELSE overlay.served
    <2>1. m \in MessageType /\ m.kind \in {"response", "toCaller"}
      BY DEF OverlayInv, OverlayType, MessageType
    <2>2. m.id = encodeId(m.to, m.meantId) BY DEF OverlayInv, AnswersAreTagged
    <2>3. overlay' = [overlay EXCEPT !.sent = @ + 1, !.served = served, !.fromP = Append(@, m)]
      BY <1>3 DEF PAnswers, OverlayInv, OverlayType
    <2>4. served \in SUBSET overlay.served OBVIOUS
    <2> HIDE DEF m, served
    <2> QED BY <2>1, <2>2, <2>3, <2>4, PSendsKeeps
<1>4. CASE FromParticipant BY <1>4, FromParticipantKeeps
<1>5. ASSUME NEW c \in overlay.calls, UpstreamResponds(c) PROVE OverlayInv'
  BY <1>5, UpstreamRespondsKeeps
<1>6. ASSUME NEW origin \in Origin, NEW id \in UpstreamId, UpstreamRequests(origin, id) PROVE OverlayInv'
  BY <1>6, UpstreamRequestsKeeps
<1>7. ASSUME NEW r \in overlay.served, UpstreamStreams(r) PROVE OverlayInv'
    <2>1. r.seen = encodeId(r.origin, r.id) BY DEF OverlayInv, AnswersAreTagged
    <2> QED BY <1>7, <2>1, StreamsDownKeeps DEF UpstreamStreams
<1>8. ASSUME NEW c \in overlay.calls, UpstreamStreamsToCaller(c) PROVE OverlayInv'
  BY <1>8, StreamsDownKeeps DEF UpstreamStreamsToCaller
<1>9. CASE OverlayDispose BY <1>9, DisposeKeeps
<1>10. CASE UNCHANGED overlay
  BY <1>10 DEF OverlayInv, OverlayType, AnswersAreTagged, IdsOpenOnce, RequestsAreOpen, FramesFollow,
              InitiatedIsOpen, RoutedToItsCall
<1> QED BY <1>1, <1>2, <1>3, <1>4, <1>5, <1>6, <1>7, <1>8, <1>9, <1>10 DEF OverlayNext

\* Every response and frame of P comes out at the port of its request, under the id that port used,
\* and the splitter remembers open calls only: PortsKeptApart, for every set of ids on either side,
\* tagged or not, and for every number of messages.
THEOREM OverlayPortsKeptApart == OverlaySpec => []PortsKeptApart
<1>1. OverlayInv => PortsKeptApart BY DEF OverlayInv, PortsKeptApart
<1> QED BY OverlayInvInit, OverlayInvStep, <1>1, PTL DEF OverlaySpec

-----------------------------------------------------------------------------
(* The registry of a connection (ConnectionRegistry).                      *)

Listed == [entry : Entry, description : Description \cup {Nothing}]

RegistryType ==
    [entries : SUBSET Entry, described : [Service -> Description \cup {Nothing}],
     bare : [BarePrefix -> Entry \cup {Nothing}], inspected : BOOLEAN, installed : SUBSET Service,
     watching : BOOLEAN, service : Service \cup {Nothing}, iface : Interface \cup {Nothing},
     pending : BOOLEAN, listed : SUBSET Listed, closed : BOOLEAN]

Follows(g) == g.installed = IF g.inspected THEN servedServices(g) ELSE {}

\* Bare prefixes lead to business interfaces, so that inspection may come and go.
Owned(g) ==
    /\ \A s \in Service : g.described[s] # Nothing => business(g, s) # {}
    /\ \A p \in BarePrefix : g.bare[p] # Nothing => g.bare[p] \in g.entries /\ g.bare[p].iface \in Business

Fresh(g) == g.watching /\ ~g.pending => known(g, g.listed) = listing(g)

\* Who knew the directory in g knows it in h.
Still(g, h) == \A rows : known(g, rows) = listing(g) => known(h, rows) = listing(h)

\* From g to h a watcher that is not told anything has nothing to be told of.
Tells(g, h) ==
    /\ h.service = g.service /\ h.iface = g.iface /\ h.listed = g.listed
    /\ h.watching <=> g.watching
    /\ g.pending => h.pending
    /\ g.watching /\ ~h.pending => Still(g, h)

RegistryInv == registry \in RegistryType /\ Follows(registry) /\ Owned(registry) /\ Fresh(registry)

LEMMA TellsChain ==
    ASSUME NEW g, NEW h, NEW k, Tells(g, h), Tells(h, k)
    PROVE  Tells(g, k)
BY DEF Tells, Still

LEMMA FreshKept ==
    ASSUME NEW g, NEW h, Fresh(g), Tells(g, h)
    PROVE  Fresh(h)
BY DEF Fresh, Tells, Still

\* An entry that is seenAs as before, or whose description is forgotten.
Shown(g, h, e) == forgotten(h, e) \/ (~forgotten(g, e) /\ g.described[e.service] = h.described[e.service])

\* What the watcher sees: the entries that match, and the descriptions of their services.
LEMMA SameListing ==
    ASSUME NEW g, NEW h, h.service = g.service, h.iface = g.iface,
           \A e : watcherMatches(g, e) => (e \in g.entries <=> e \in h.entries),
           \A e \in g.entries : watcherMatches(g, e) /\ e.service \in Service => Shown(g, h, e)
    PROVE  Still(g, h)
<1>1. \A e : watcherMatches(h, e) <=> watcherMatches(g, e) BY DEF watcherMatches
<1> DEFINE E == {e \in g.entries : watcherMatches(g, e)}
           text(k, e) == IF e.service \in Service THEN k.described[e.service] ELSE Nothing
           line(k, e) == [entry |-> e, description |-> text(k, e)]
           kept(k, x) == IF forgotten(k, x.entry) THEN Nothing ELSE x.description
           seenAs(k, x) == [entry |-> x.entry, description |-> kept(k, x)]
<1>2. {e \in h.entries : watcherMatches(h, e)} = E BY <1>1
<1>3. listing(g) = {line(g, e) : e \in E} /\ listing(h) = {line(h, e) : e \in E} BY <1>2 DEF listing
<1>4. \A e \in E : IF e.service \in Service THEN Shown(g, h, e) ELSE ~forgotten(g, e) /\ ~forgotten(h, e)
  BY DEF forgotten
<1>5. \A e \in E : forgotten(h, e) => text(h, e) = Nothing BY DEF forgotten
<1>6. \A e \in E : ~forgotten(h, e) => ~forgotten(g, e) /\ text(g, e) = text(h, e) BY <1>4 DEF Shown
<1> SUFFICES ASSUME NEW rows, {seenAs(g, x) : x \in rows} = {line(g, e) : e \in E}
             PROVE  {seenAs(h, x) : x \in rows} = {line(h, e) : e \in E}
  BY <1>3 DEF Still, known
<1> HIDE DEF E, text, kept
<1>7. \A x \in rows : x.entry \in E /\ kept(g, x) = text(g, x.entry)
    <2>1. \A x \in rows : \E e \in E : seenAs(g, x) = line(g, e) OBVIOUS
    <2> QED BY <2>1
<1>8. \A e \in E : \E x \in rows : x.entry = e
    <2>1. \A e \in E : \E x \in rows : seenAs(g, x) = line(g, e) OBVIOUS
    <2> QED BY <2>1
<1>9. \A x \in rows : kept(h, x) = text(h, x.entry) BY <1>5, <1>6, <1>7 DEF kept
<1>10. \A x \in rows : seenAs(h, x) = line(h, x.entry) BY <1>9
<1> HIDE DEF seenAs, line
<1> QED BY <1>7, <1>8, <1>10

LEMMA Notified ==
    ASSUME NEW g \in RegistryType, NEW e, NEW b \in BOOLEAN
    PROVE  LET h == watchersNotified(g, e, b)
           IN  /\ h \in RegistryType
               /\ h.entries = g.entries /\ h.described = g.described /\ h.bare = g.bare
               /\ h.inspected = g.inspected /\ h.installed = g.installed /\ h.watching = g.watching
               /\ h.service = g.service /\ h.iface = g.iface /\ h.listed = g.listed /\ h.closed = g.closed
               /\ h.pending <=> g.pending \/ (g.watching /\
                     (watcherMatches(g, e) \/ (b /\ \E f \in g.entries : f.service = e.service /\ watcherMatches(g, f))))
<1> DEFINE now == g.pending \/ (g.watching /\
                     (watcherMatches(g, e) \/ (b /\ \E f \in g.entries : f.service = e.service /\ watcherMatches(g, f))))
           h == watchersNotified(g, e, b)
<1>1. h = [g EXCEPT !.pending = now] BY DEF watchersNotified
<1>2. now \in BOOLEAN OBVIOUS
<1> HIDE DEF now, h
<1>3. h \in RegistryType BY <1>1, <1>2 DEF RegistryType
<1>4. /\ h.entries = g.entries /\ h.described = g.described /\ h.bare = g.bare
      /\ h.inspected = g.inspected /\ h.installed = g.installed /\ h.watching = g.watching
      /\ h.service = g.service /\ h.iface = g.iface /\ h.listed = g.listed /\ h.closed = g.closed
      /\ h.pending = now
  BY <1>1 DEF RegistryType
<1> QED BY <1>3, <1>4 DEF now, h
\* A change of one entry, and of descriptions that the watcher does not see or is told of.
LEMMA ChangeTold ==
    ASSUME NEW g \in RegistryType, NEW k \in RegistryType, NEW e, NEW b \in BOOLEAN,
           k.service = g.service, k.iface = g.iface, k.listed = g.listed,
           k.watching = g.watching, k.pending = g.pending,
           \A f : f # e => (f \in g.entries <=> f \in k.entries),
           \A f \in g.entries : f # e /\ f.service \in Service =>
               \/ Shown(g, k, f)
               \/ b /\ f.service = e.service
    PROVE  Tells(g, watchersNotified(k, e, b))
<1> DEFINE h == watchersNotified(k, e, b)
<1>1. /\ h.entries = k.entries /\ h.described = k.described
      /\ h.service = g.service /\ h.iface = g.iface /\ h.listed = g.listed /\ h.watching = g.watching
      /\ h.installed = k.installed
      /\ h.pending <=> g.pending \/ (g.watching /\
            (watcherMatches(k, e) \/ (b /\ \E f \in k.entries : f.service = e.service /\ watcherMatches(k, f))))
  BY Notified
<1> HIDE DEF h
<1>2. \A f : watcherMatches(k, f) <=> watcherMatches(g, f) BY DEF watcherMatches
<1>3. ASSUME g.watching, ~h.pending PROVE Still(g, h)
    <2>1. ~watcherMatches(g, e) /\ (b => \A f \in k.entries : f.service = e.service => ~watcherMatches(g, f))
      BY <1>1, <1>2, <1>3
    <2>2. \A f : watcherMatches(g, f) => f # e BY <2>1
    <2>3. \A f : watcherMatches(g, f) => (f \in g.entries <=> f \in h.entries) BY <1>1, <2>2
    <2>4. \A f : Shown(g, k, f) => Shown(g, h, f) BY <1>1 DEF Shown, forgotten
    <2>5. \A f \in g.entries : watcherMatches(g, f) /\ f.service \in Service => Shown(g, h, f)
      BY <1>1, <2>1, <2>2, <2>3, <2>4
    <2> QED BY <1>1, <2>3, <2>5, SameListing
<1> QED BY <1>1, <1>3 DEF Tells, h

\* The own host's registration for a service that has an interface.
LEMMA InspectionAdded ==
    ASSUME NEW g \in RegistryType, NEW s \in Service
    PROVE  LET h == inspectionAdded(g, s)
           IN  /\ h \in RegistryType /\ Tells(g, h)
               /\ h.entries = g.entries \cup {ServiceEntry(s, "inspection")} /\ h.installed = g.installed \cup {s}
               /\ h.described = g.described /\ h.bare = g.bare /\ h.inspected = g.inspected
<1> DEFINE e == ServiceEntry(s, "inspection")
           k == [g EXCEPT !.entries = @ \cup {e}, !.installed = @ \cup {s}]
           h == inspectionAdded(g, s)
<1>1. e \in Entry BY DEF ServiceEntry, Entry, Interface
<1>2. h = watchersNotified(k, e, FALSE) BY DEF inspectionAdded
<1>2a. \A f \in g.entries : f.iface = "inspection" /\ f.service = s => f = e
  BY DEF ServiceEntry, RegistryType, Entry
<1> HIDE DEF e
<1>3. /\ k.entries = g.entries \cup {e} /\ k.installed = g.installed \cup {s}
      /\ k.described = g.described /\ k.bare = g.bare /\ k.inspected = g.inspected
      /\ k.service = g.service /\ k.iface = g.iface /\ k.listed = g.listed
      /\ k.watching = g.watching /\ k.pending = g.pending
  BY DEF RegistryType
<1>4. k \in RegistryType BY <1>1 DEF RegistryType
<1> HIDE DEF k, h
<1>5. Tells(g, watchersNotified(k, e, FALSE))
    <2>1. \A f : f # e => (f \in g.entries <=> f \in k.entries) BY <1>3
    <2>2. \A f \in g.entries : f # e => Shown(g, k, f) BY <1>2a, <1>3 DEF Shown, forgotten
    <2> QED BY <1>3, <1>4, <2>1, <2>2, ChangeTold
<1>6. /\ h \in RegistryType /\ h.entries = k.entries /\ h.installed = k.installed
      /\ h.described = k.described /\ h.bare = k.bare /\ h.inspected = k.inspected
  BY <1>2, <1>4, Notified
<1> QED BY <1>2, <1>3, <1>5, <1>6 DEF h, e

LEMMA InspectionRemoved ==
    ASSUME NEW g \in RegistryType, NEW s \in Service
    PROVE  LET h == inspectionRemoved(g, s)
           IN  /\ h \in RegistryType /\ Tells(g, h)
               /\ \A f : f.iface \in Business => (f \in h.entries <=> f \in g.entries)
               /\ h.installed = g.installed \ {s}
               /\ h.described = g.described /\ h.bare = g.bare /\ h.inspected = g.inspected
<1> DEFINE e == ServiceEntry(s, "inspection")
           k == [g EXCEPT !.entries = @ \ {e}, !.installed = @ \ {s}]
           h == inspectionRemoved(g, s)
<1>1. /\ e.iface \notin Business
      /\ \A f \in g.entries : f.iface = "inspection" /\ f.service = s => f = e
  BY RegistryAssumption DEF ServiceEntry, RegistryType, Entry
<1>2. CASE s \notin g.installed
    <2>1. h = g BY <1>2 DEF inspectionRemoved
    <2>2. Tells(g, g) BY DEF Tells, Still
    <2>3. g.installed \ {s} = g.installed BY <1>2
    <2> QED BY <2>1, <2>2, <2>3
<1>3. CASE s \in g.installed
    <2>1. h = watchersNotified(k, e, FALSE) BY <1>3 DEF inspectionRemoved
    <2> HIDE DEF e
    <2>2. /\ k.entries = g.entries \ {e} /\ k.installed = g.installed \ {s}
          /\ k.described = g.described /\ k.bare = g.bare /\ k.inspected = g.inspected
          /\ k.service = g.service /\ k.iface = g.iface /\ k.listed = g.listed
          /\ k.watching = g.watching /\ k.pending = g.pending
      BY DEF RegistryType
    <2>3. k \in RegistryType BY DEF RegistryType
    <2> HIDE DEF k, h
    <2>4. Tells(g, watchersNotified(k, e, FALSE))
        <3>1. \A f : f # e => (f \in g.entries <=> f \in k.entries) BY <2>2
        <3>2. \A f \in g.entries : f # e => Shown(g, k, f) BY <1>1, <2>2 DEF Shown, forgotten
        <3> QED BY <2>2, <2>3, <3>1, <3>2, ChangeTold
    <2>5. /\ h \in RegistryType /\ h.entries = k.entries /\ h.installed = k.installed
          /\ h.described = k.described /\ h.bare = k.bare /\ h.inspected = k.inspected
      BY <2>1, <2>3, Notified
    <2>6. \A f : f.iface \in Business => (f \in h.entries <=> f \in g.entries) BY <1>1, <2>2, <2>5
    <2> QED BY <2>1, <2>2, <2>4, <2>5, <2>6 DEF h
<1> QED BY <1>2, <1>3

LEMMA SameBusiness ==
    ASSUME NEW g, NEW h, \A f : f.iface \in Business => (f \in h.entries <=> f \in g.entries)
    PROVE  /\ \A s : business(h, s) = business(g, s)
           /\ servedServices(h) = servedServices(g)
<1>1. \A s : business(h, s) = business(g, s) BY DEF business
<1> QED BY <1>1 DEF servedServices

\* Changes of inspection interfaces leave what is owned.
LEMMA OwnedKept ==
    ASSUME NEW g, NEW h, Owned(g), h.described = g.described, h.bare = g.bare,
           \A f : f.iface \in Business => (f \in h.entries <=> f \in g.entries)
    PROVE  Owned(h)
BY SameBusiness DEF Owned

\* dispose() of a registration takes what hangs on it along.
LEMMA DisposedCorrect ==
    ASSUME NEW g \in RegistryType, Follows(g), Owned(g), NEW e \in g.entries
    PROVE  LET h == entryDisposed(g, e)
           IN  h \in RegistryType /\ Follows(h) /\ Owned(h) /\ Tells(g, h)
<1> DEFINE free == [p \in BarePrefix |-> IF g.bare[p] = e THEN Nothing ELSE g.bare[p]]
           k == [g EXCEPT !.entries = @ \ {e}, !.bare = free]
           h == watchersNotified(k, e, FALSE)
           s == e.service
           r == inspectionRemoved(h, s)
           q == [r EXCEPT !.described[s] = Nothing]
           x == entryDisposed(g, e)
<1>1. x = IF s = Unnamed \/ business(h, s) # {} THEN h ELSE q BY DEF entryDisposed
<1>2. e \in Entry /\ s \in Service \cup {Unnamed} /\ e.iface \in Interface
  BY DEF RegistryType, Entry
<1>3. free \in [BarePrefix -> Entry \cup {Nothing}] BY DEF RegistryType
<1>4. \A p \in BarePrefix : free[p] # Nothing => free[p] = g.bare[p] /\ g.bare[p] # e OBVIOUS
<1> HIDE DEF free
<1>5. /\ k.entries = g.entries \ {e} /\ k.installed = g.installed
      /\ k.described = g.described /\ k.bare = free /\ k.inspected = g.inspected
      /\ k.service = g.service /\ k.iface = g.iface /\ k.listed = g.listed
      /\ k.watching = g.watching /\ k.pending = g.pending
  BY DEF RegistryType
<1>6. k \in RegistryType BY <1>3 DEF RegistryType
<1> HIDE DEF k
<1>7. /\ h \in RegistryType /\ h.entries = g.entries \ {e} /\ h.installed = g.installed
      /\ h.described = g.described /\ h.bare = free /\ h.inspected = g.inspected
  BY <1>5, <1>6, Notified
<1>8. Tells(g, h)
    <2>1. \A f : f # e => (f \in g.entries <=> f \in k.entries) BY <1>5
    <2>2. \A f \in g.entries : f # e => Shown(g, k, f) BY <1>5 DEF Shown, forgotten
    <2> QED BY <1>5, <1>6, <2>1, <2>2, ChangeTold
<1> HIDE DEF h
<1>9. \A t : business(h, t) = business(g, t) \ {e} BY <1>7 DEF business
<1>10. \A t : t # s => business(h, t) = business(g, t) BY <1>9 DEF business
<1>11. ASSUME NEW p \in BarePrefix, h.bare[p] # Nothing
       PROVE  h.bare[p] \in h.entries /\ h.bare[p].iface \in Business
  BY <1>4, <1>7, <1>11 DEF Owned
<1>12. CASE s = Unnamed \/ business(h, s) # {}
    <2>1. servedServices(h) = servedServices(g)
        <3>1. \A t \in Service : business(h, t) # {} <=> business(g, t) # {}
            <4> SUFFICES ASSUME NEW t \in Service PROVE business(h, t) # {} <=> business(g, t) # {}
              OBVIOUS
            <4>1. CASE t # s BY <1>10, <4>1
            <4>2. CASE t = s
                <5>1. business(h, s) # {} BY <1>12, <4>2, RegistryAssumption
                <5> QED BY <1>9, <4>2, <5>1
            <4> QED BY <4>1, <4>2
        <3> QED BY <3>1 DEF servedServices
    <2>2. Follows(h) BY <1>7, <2>1 DEF Follows
    <2>3. \A t \in Service : h.described[t] # Nothing => business(h, t) # {}
        <3> SUFFICES ASSUME NEW t \in Service, h.described[t] # Nothing PROVE business(h, t) # {}
          OBVIOUS
        <3>1. business(g, t) # {} BY <1>7 DEF Owned
        <3>2. t \in servedServices(h) BY <2>1, <3>1 DEF servedServices
        <3> QED BY <3>2 DEF servedServices
    <2>4. Owned(h) BY <1>11, <2>3 DEF Owned
    <2> QED BY <1>1, <1>7, <1>8, <1>12, <2>2, <2>4
<1>13. CASE s \in Service /\ business(h, s) = {}
    <2>1. /\ r \in RegistryType /\ Tells(h, r)
          /\ \A f : f.iface \in Business => (f \in r.entries <=> f \in h.entries)
          /\ r.installed = h.installed \ {s}
          /\ r.described = h.described /\ r.bare = h.bare /\ r.inspected = h.inspected
      BY <1>7, <1>13, InspectionRemoved
    <2> HIDE DEF r
    <2>2. /\ q.entries = r.entries /\ q.installed = r.installed /\ q.bare = r.bare /\ q.inspected = r.inspected
          /\ q.service = r.service /\ q.iface = r.iface /\ q.listed = r.listed
          /\ q.watching = r.watching /\ q.pending = r.pending
          /\ q.described = [r.described EXCEPT ![s] = Nothing]
      BY <2>1 DEF RegistryType
    <2>3. q \in RegistryType BY <2>1 DEF RegistryType
    <2> HIDE DEF q
    <2>4. (\A t : business(q, t) = business(h, t)) /\ servedServices(q) = servedServices(h)
        <3>1. \A f : f.iface \in Business => (f \in q.entries <=> f \in h.entries) BY <2>1, <2>2
        <3> QED BY <3>1, SameBusiness
    <2>5. q.described[s] = Nothing /\ \A t \in Service : t # s => q.described[t] = r.described[t]
        <3>1. r.described \in [Service -> Description \cup {Nothing}] BY <2>1 DEF RegistryType
        <3> QED BY <1>13, <2>2, <3>1
    <2>6. Still(r, q)
        <3>1. \A f \in r.entries : f.service = s => f.iface = "inspection"
            <4>1. \A f \in r.entries : f.iface \in Business => f.service # s BY <1>13, <2>1 DEF business
            <4> QED BY <2>1, <4>1 DEF RegistryType, Entry, Interface
        <3>2. \A f \in r.entries : f.service = s => Shown(r, q, f)
          BY <1>13, <2>1, <2>2, <2>5, <3>1 DEF Shown, forgotten
        <3>3. \A f \in r.entries : f.service # s /\ f.service \in Service => Shown(r, q, f)
          BY <2>2, <2>5 DEF Shown, forgotten
        <3> QED BY <2>2, <3>2, <3>3, SameListing
    <2>7. Tells(r, q) BY <2>2, <2>6 DEF Tells
    <2>8. servedServices(q) = servedServices(g) \ {s}
        <3>1. \A t \in Service : business(q, t) # {} <=> business(g, t) # {} /\ t # s
          BY <1>10, <1>13, <2>4
        <3> QED BY <3>1 DEF servedServices
    <2>9. Follows(q)
        <3>1. q.installed = g.installed \ {s} /\ q.inspected = g.inspected BY <1>7, <2>1, <2>2
        <3>2. CASE g.inspected BY <2>8, <3>1, <3>2 DEF Follows
        <3>3. CASE ~g.inspected
            <4>1. g.installed = {} BY <3>3 DEF Follows
            <4> QED BY <3>1, <3>3, <4>1 DEF Follows
        <3> QED BY <3>2, <3>3
    <2>10. \A t \in Service : q.described[t] # Nothing => business(q, t) # {}
      BY <1>7, <1>10, <2>1, <2>4, <2>5 DEF Owned
    <2>11. \A p \in BarePrefix : q.bare[p] # Nothing => q.bare[p] \in q.entries /\ q.bare[p].iface \in Business
      BY <1>11, <2>1, <2>2
    <2>12. Owned(q) BY <2>10, <2>11 DEF Owned
    <2>13. Tells(g, q) BY <1>8, <2>1, <2>7, TellsChain
    <2>14. x = q BY <1>1, <1>13, RegistryAssumption
    <2> QED BY <2>3, <2>9, <2>12, <2>13, <2>14
<1> QED BY <1>2, <1>12, <1>13

\* register, with the inspection that goes along, and its rollback.
LEMMA RegisterStep ==
    ASSUME RegistryInv, NEW e \in Entry, NEW p \in BarePrefix \cup {Nothing},
           NEW description \in Description \cup {Nothing}, Register(e, p, description)
    PROVE  RegistryInv'
<1> DEFINE s == e.service
           o == registry
           added == description # Nothing /\ o.described[s] = Nothing
           bound == [q \in BarePrefix |-> IF q = p THEN e ELSE o.bare[q]]
           told == [t \in Service |-> IF added /\ t = s THEN description ELSE o.described[t]]
           k == [o EXCEPT !.entries = @ \cup {e}, !.bare = bound, !.described = told]
           g == watchersNotified(k, e, added)
<1>1. /\ e \notin o.entries /\ e.iface \in Business
      /\ description # Nothing => s \in Service
      /\ registry' = IF s = Unnamed \/ ~g.inspected \/ s \in g.installed THEN g
                     ELSE IF ServiceEntry(s, "inspection") \in g.entries THEN registerUndone(g, e, p, ~added)
                     ELSE inspectionAdded(g, s)
  BY DEF Register
<1>2. o \in RegistryType /\ Follows(o) /\ Owned(o) /\ Fresh(o) BY DEF RegistryInv
<1>3. s \in Service \cup {Unnamed} /\ added \in BOOLEAN BY DEF Entry
<1>4. /\ bound \in [BarePrefix -> Entry \cup {Nothing}]
      /\ \A q \in BarePrefix : bound[q] = e \/ bound[q] = o.bare[q]
      /\ \A q \in BarePrefix : q # p => bound[q] = o.bare[q]
  BY <1>2 DEF RegistryType
<1>5. /\ told \in [Service -> Description \cup {Nothing}]
      /\ \A t \in Service : t # s \/ ~added => told[t] = o.described[t]
  BY <1>2 DEF RegistryType
<1>6. added => o.described[s] = Nothing /\ s \in Service BY <1>1
<1> HIDE DEF added, bound, told
<1>7. /\ k.entries = o.entries \cup {e} /\ k.installed = o.installed
      /\ k.described = told /\ k.bare = bound /\ k.inspected = o.inspected
      /\ k.service = o.service /\ k.iface = o.iface /\ k.listed = o.listed
      /\ k.watching = o.watching /\ k.pending = o.pending
  BY <1>2 DEF RegistryType
<1>8. k \in RegistryType BY <1>2, <1>4, <1>5 DEF RegistryType
<1> HIDE DEF k, o
<1>9. /\ g \in RegistryType /\ g.entries = o.entries \cup {e} /\ g.installed = o.installed
      /\ g.described = told /\ g.bare = bound /\ g.inspected = o.inspected
      /\ g.service = o.service /\ g.iface = o.iface /\ g.listed = o.listed /\ g.watching = o.watching
  BY <1>3, <1>7, <1>8, Notified
<1>10. Tells(o, g)
    <2>1. \A f : f # e => (f \in o.entries <=> f \in k.entries) BY <1>7
    <2>2. \A f \in o.entries : f # e /\ f.service \in Service =>
             \/ Shown(o, k, f)
             \/ added /\ f.service = s
      BY <1>5, <1>7 DEF Shown, forgotten
    <2> QED BY <1>2, <1>3, <1>7, <1>8, <2>1, <2>2, ChangeTold
<1> HIDE DEF g
<1>11. /\ \A t : t # s => business(g, t) = business(o, t)
       /\ e \in business(g, s)
       /\ \A t : business(o, t) \subseteq business(g, t)
  BY <1>1, <1>9 DEF business
<1>12. servedServices(g) = IF s \in Service THEN servedServices(o) \cup {s} ELSE servedServices(o)
    <2>1. \A t \in Service : business(g, t) # {} <=> business(o, t) # {} \/ t = s BY <1>11
    <2> QED BY <2>1 DEF servedServices
<1>13. Owned(g)
    <2>1. \A t \in Service : g.described[t] # Nothing => business(g, t) # {}
        <3> SUFFICES ASSUME NEW t \in Service, g.described[t] # Nothing PROVE business(g, t) # {}
          OBVIOUS
        <3>1. CASE t = s BY <1>11, <3>1
        <3>2. CASE t # s BY <1>2, <1>5, <1>9, <1>11, <3>2 DEF Owned
        <3> QED BY <3>1, <3>2
    <2>2. \A q \in BarePrefix : g.bare[q] # Nothing => g.bare[q] \in g.entries /\ g.bare[q].iface \in Business
      BY <1>1, <1>2, <1>4, <1>9 DEF Owned
    <2> QED BY <2>1, <2>2 DEF Owned
<1>14. CASE s = Unnamed \/ ~g.inspected \/ s \in g.installed
    <2>1. registry' = g BY <1>1, <1>14
    <2>2. Follows(g)
        <3>1. CASE ~g.inspected BY <1>2, <1>9, <3>1 DEF Follows
        <3>2. CASE g.inspected /\ s = Unnamed
          BY <1>2, <1>9, <1>12, <3>2, RegistryAssumption DEF Follows
        <3>3. CASE g.inspected /\ s \in g.installed
            <4>1. s \in servedServices(o) BY <1>2, <1>9, <3>3 DEF Follows
            <4> QED BY <1>2, <1>9, <1>12, <3>3, <4>1 DEF Follows
        <3> QED BY <1>14, <3>1, <3>2, <3>3
    <2> QED BY <1>2, <1>9, <1>10, <1>13, <2>1, <2>2, FreshKept DEF RegistryInv
<1>15. CASE ~(s = Unnamed \/ ~g.inspected \/ s \in g.installed) /\ ServiceEntry(s, "inspection") \in g.entries
    <2> DEFINE was == ~added
               unbound == [q \in BarePrefix |-> IF q = p THEN Nothing ELSE g.bare[q]]
               untold == [t \in Service |-> IF t = s /\ ~was THEN Nothing ELSE g.described[t]]
               u == [g EXCEPT !.entries = @ \ {e}, !.bare = unbound, !.described = untold]
               h == watchersNotified(u, e, FALSE)
    <2>1. registry' = h
        <3>1. registry' = registerUndone(g, e, p, was) BY <1>1, <1>15
        <3> QED BY <3>1 DEF registerUndone
    <2>2. /\ unbound \in [BarePrefix -> Entry \cup {Nothing}]
          /\ \A q \in BarePrefix : unbound[q] # Nothing => unbound[q] = o.bare[q]
      BY <1>4, <1>9
    <2>3. untold \in [Service -> Description \cup {Nothing}] BY <1>5, <1>9
    <2>4. \A t \in Service : untold[t] = o.described[t] BY <1>5, <1>6, <1>9
    <2> HIDE DEF unbound, untold
    <2>5. /\ u.entries = g.entries \ {e} /\ u.installed = g.installed
          /\ u.described = untold /\ u.bare = unbound /\ u.inspected = g.inspected
          /\ u.service = g.service /\ u.iface = g.iface /\ u.listed = g.listed
          /\ u.watching = g.watching /\ u.pending = g.pending
      BY <1>9 DEF RegistryType
    <2>6. u \in RegistryType BY <1>9, <2>2, <2>3 DEF RegistryType
    <2> HIDE DEF u
    <2>7. u.entries = o.entries BY <1>1, <1>9, <2>5
    <2>8. /\ h \in RegistryType /\ h.entries = o.entries /\ h.installed = o.installed
          /\ h.described = untold /\ h.bare = unbound /\ h.inspected = o.inspected
          /\ h.service = o.service /\ h.iface = o.iface /\ h.listed = o.listed /\ h.watching = o.watching
          /\ g.pending => h.pending
        <3>1. /\ h \in RegistryType /\ h.entries = u.entries /\ h.installed = u.installed
              /\ h.described = u.described /\ h.bare = u.bare /\ h.inspected = u.inspected
              /\ h.service = u.service /\ h.iface = u.iface /\ h.listed = u.listed /\ h.watching = u.watching
              /\ u.pending => h.pending
          BY <2>6, Notified
        <3> HIDE DEF h
        <3> QED BY <1>9, <2>5, <2>7, <3>1
    <2> HIDE DEF h
    <2>9. Still(o, h)
        <3>1. \A f \in o.entries : f.service \in Service => Shown(o, h, f)
          BY <2>4, <2>8 DEF Shown, forgotten
        <3> QED BY <2>8, <3>1, SameListing
    <2>10. Tells(o, h) BY <1>10, <2>8, <2>9 DEF Tells
    <2>11. (\A t : business(h, t) = business(o, t)) /\ servedServices(h) = servedServices(o)
      BY <2>8, SameBusiness
    <2>12. Follows(h) BY <1>2, <2>8, <2>11 DEF Follows
    <2>13. Owned(h) BY <1>2, <2>2, <2>4, <2>8, <2>11 DEF Owned
    <2> QED BY <1>2, <2>1, <2>8, <2>10, <2>12, <2>13, FreshKept DEF RegistryInv
<1>16. CASE ~(s = Unnamed \/ ~g.inspected \/ s \in g.installed) /\ ServiceEntry(s, "inspection") \notin g.entries
    <2> DEFINE h == inspectionAdded(g, s)
    <2>1. registry' = h BY <1>1, <1>16
    <2>2. /\ h \in RegistryType /\ Tells(g, h)
          /\ h.entries = g.entries \cup {ServiceEntry(s, "inspection")} /\ h.installed = g.installed \cup {s}
          /\ h.described = g.described /\ h.bare = g.bare /\ h.inspected = g.inspected
      BY <1>3, <1>9, <1>16, InspectionAdded
    <2> HIDE DEF h
    <2>3. \A f : f.iface \in Business => (f \in h.entries <=> f \in g.entries)
      BY <2>2, RegistryAssumption DEF ServiceEntry
    <2>4. servedServices(h) = servedServices(o) \cup {s} BY <1>3, <1>12, <1>16, <2>3, SameBusiness
    <2>5. Follows(h) BY <1>2, <1>9, <1>16, <2>2, <2>4 DEF Follows
    <2>6. Owned(h) BY <1>13, <2>2, <2>3, OwnedKept
    <2>7. Tells(o, h) BY <1>10, <2>2, TellsChain
    <2> QED BY <1>2, <2>1, <2>2, <2>5, <2>6, <2>7, FreshKept DEF RegistryInv
<1> QED BY <1>14, <1>15, <1>16

\* A foreign host exposes a service.
LEMMA ForeignStep ==
    ASSUME RegistryInv, NEW s \in Service, ForeignExposes(s)
    PROVE  RegistryInv'
<1> DEFINE o == registry
           e == ServiceEntry(s, "inspection")
           k == [o EXCEPT !.entries = @ \cup {e}]
           h == watchersNotified(k, e, FALSE)
<1>1. o \in RegistryType /\ Follows(o) /\ Owned(o) /\ Fresh(o) /\ registry' = h
  BY DEF RegistryInv, ForeignExposes
<1>2. e \in Entry /\ e.iface \notin Business
  BY RegistryAssumption DEF ServiceEntry, Entry, Interface
<1> HIDE DEF e
<1>3. /\ k.entries = o.entries \cup {e} /\ k.installed = o.installed
      /\ k.described = o.described /\ k.bare = o.bare /\ k.inspected = o.inspected
      /\ k.service = o.service /\ k.iface = o.iface /\ k.listed = o.listed
      /\ k.watching = o.watching /\ k.pending = o.pending
  BY <1>1 DEF RegistryType
<1>4. k \in RegistryType BY <1>1, <1>2 DEF RegistryType
<1> HIDE DEF k, o
<1>5. /\ h \in RegistryType /\ h.entries = k.entries /\ h.installed = o.installed
      /\ h.described = o.described /\ h.bare = o.bare /\ h.inspected = o.inspected
  BY <1>3, <1>4, Notified
<1>6. Tells(o, h)
    <2>1. \A f : f # e => (f \in o.entries <=> f \in k.entries) BY <1>3
    <2>2. \A f \in o.entries : Shown(o, k, f) BY <1>3 DEF Shown, forgotten
    <2> QED BY <1>1, <1>3, <1>4, <2>1, <2>2, ChangeTold
<1> HIDE DEF h
<1>7. \A f : f.iface \in Business => (f \in h.entries <=> f \in o.entries) BY <1>2, <1>3, <1>5
<1>8. Follows(h) BY <1>1, <1>5, <1>7, SameBusiness DEF Follows
<1>9. Owned(h) BY <1>1, <1>5, <1>7, OwnedKept
<1> QED BY <1>1, <1>5, <1>6, <1>8, <1>9, FreshKept DEF RegistryInv

LEMMA DisposeStep ==
    ASSUME RegistryInv, \/ \E e \in Entry : Unregister(e)
                        \/ \E s \in Service : ForeignDisposed(s)
    PROVE  RegistryInv'
<1>1. PICK e \in registry.entries : registry' = entryDisposed(registry, e)
  BY DEF Unregister, ForeignDisposed
<1> QED BY <1>1, DisposedCorrect, FreshKept DEF RegistryInv

\* The own host installs and removes its interfaces together.

LEMMA OwnInspection ==
    ASSUME NEW services \in SUBSET Service
    PROVE  \A e \in ownInspection(services) : e \in Entry /\ e.iface \notin Business
BY RegistryAssumption DEF ownInspection, ServiceEntry, Entry, Interface

LEMMA InstalledAll ==
    ASSUME NEW g \in RegistryType, NEW services \in SUBSET Service
    PROVE  LET h == installedAll(g, services)
           IN  /\ h \in RegistryType /\ Tells(g, h)
               /\ \A f : f.iface \in Business => (f \in h.entries <=> f \in g.entries)
               /\ h.installed = g.installed \cup services
               /\ h.described = g.described /\ h.bare = g.bare /\ h.inspected = g.inspected
<1> DEFINE own == ownInspection(services)
           now == g.pending \/ (g.watching /\ \E e \in own : watcherMatches(g, e))
           h == installedAll(g, services)
<1>1. h = [g EXCEPT !.entries = @ \cup own, !.installed = @ \cup services, !.pending = now]
  BY DEF installedAll
<1>2. own \in SUBSET Entry /\ (\A e \in own : e.iface \notin Business) /\ now \in BOOLEAN
  BY OwnInspection
<1>2a. \A e \in Entry : e.iface = "inspection" /\ e.service \in services => e \in own
  BY DEF ownInspection, ServiceEntry, Entry
<1> HIDE DEF own
<1>3. now <=> g.pending \/ (g.watching /\ \E e \in own : watcherMatches(g, e)) OBVIOUS
<1> HIDE DEF now, h
<1>4. /\ h.entries = g.entries \cup own /\ h.installed = g.installed \cup services
      /\ h.described = g.described /\ h.bare = g.bare /\ h.inspected = g.inspected
      /\ h.service = g.service /\ h.iface = g.iface /\ h.listed = g.listed
      /\ h.watching = g.watching /\ h.pending = now
  BY <1>1 DEF RegistryType
<1>5. h \in RegistryType BY <1>1, <1>2 DEF RegistryType
<1>6. ASSUME g.watching, ~h.pending PROVE Still(g, h)
    <2>1. \A e : watcherMatches(g, e) => (e \in g.entries <=> e \in h.entries) BY <1>3, <1>4, <1>6
    <2>2. \A e \in g.entries : watcherMatches(g, e) => e \in Entry /\ ~(e.iface = "inspection" /\ e.service \in services)
      BY <1>2a, <1>3, <1>4, <1>6 DEF RegistryType
    <2>3. \A e \in g.entries : watcherMatches(g, e) => Shown(g, h, e) BY <1>4, <2>2 DEF Shown, forgotten
    <2> QED BY <1>4, <2>1, <2>3, SameListing
<1>7. Tells(g, h) BY <1>3, <1>4, <1>6 DEF Tells
<1> QED BY <1>2, <1>4, <1>5, <1>7 DEF h

LEMMA RemovedAll ==
    ASSUME NEW g \in RegistryType
    PROVE  LET h == removedAll(g)
           IN  /\ h \in RegistryType /\ Tells(g, h)
               /\ \A f : f.iface \in Business => (f \in h.entries <=> f \in g.entries)
               /\ h.installed = {}
               /\ h.described = g.described /\ h.bare = g.bare /\ h.inspected = g.inspected
<1> DEFINE gone == g.entries \cap ownInspection(g.installed)
           now == g.pending \/ (g.watching /\ \E e \in gone : watcherMatches(g, e))
           h == removedAll(g)
<1>1. h = [g EXCEPT !.entries = @ \ gone, !.installed = {}, !.pending = now] BY DEF removedAll
<1>2. (\A e \in gone : e.iface \notin Business) /\ now \in BOOLEAN
    <2>1. g.installed \in SUBSET Service BY DEF RegistryType
    <2> QED BY <2>1, OwnInspection
<1> HIDE DEF gone
<1>3. now <=> g.pending \/ (g.watching /\ \E e \in gone : watcherMatches(g, e)) OBVIOUS
<1> HIDE DEF now, h
<1>4. /\ h.entries = g.entries \ gone /\ h.installed = {}
      /\ h.described = g.described /\ h.bare = g.bare /\ h.inspected = g.inspected
      /\ h.service = g.service /\ h.iface = g.iface /\ h.listed = g.listed
      /\ h.watching = g.watching /\ h.pending = now
  BY <1>1 DEF RegistryType
<1>5. h \in RegistryType BY <1>1, <1>2 DEF RegistryType
<1>6. ASSUME g.watching, ~h.pending PROVE Still(g, h)
    <2>1. \A e : watcherMatches(g, e) => (e \in g.entries <=> e \in h.entries) BY <1>3, <1>4, <1>6
    <2>2. \A e \in g.entries : e.service \in Service => Shown(g, h, e) BY <1>4 DEF Shown, forgotten
    <2> QED BY <1>4, <2>1, <2>2, SameListing
<1>7. Tells(g, h) BY <1>3, <1>4, <1>6 DEF Tells
<1> QED BY <1>2, <1>4, <1>5, <1>7 DEF h

\* Only the flag changes.
LEMMA InspectedSet ==
    ASSUME NEW g \in RegistryType, NEW b \in BOOLEAN
    PROVE  LET h == [g EXCEPT !.inspected = b]
           IN  /\ h \in RegistryType /\ Tells(g, h)
               /\ h.entries = g.entries /\ h.installed = g.installed
               /\ h.described = g.described /\ h.bare = g.bare /\ (h.inspected <=> b)
<1> DEFINE h == [g EXCEPT !.inspected = b]
<1>1. /\ h.entries = g.entries /\ h.installed = g.installed
      /\ h.described = g.described /\ h.bare = g.bare
      /\ h.service = g.service /\ h.iface = g.iface /\ h.listed = g.listed
      /\ h.watching = g.watching /\ h.pending = g.pending /\ (h.inspected <=> b)
  BY DEF RegistryType
<1>2. h \in RegistryType BY DEF RegistryType
<1> HIDE DEF h
<1>3. Still(g, h)
    <2>1. \A e \in g.entries : Shown(g, h, e) BY <1>1 DEF Shown, forgotten
    <2> QED BY <1>1, <2>1, SameListing
<1> QED BY <1>1, <1>2, <1>3 DEF Tells, h

LEMMA EnableStep ==
    ASSUME RegistryInv, EnableInspection
    PROVE  RegistryInv'
<1> DEFINE o == registry
           served == servedServices(o)
           taken == {s \in served : ServiceEntry(s, "inspection") \in o.entries}
<1>1. o \in RegistryType /\ Follows(o) /\ Owned(o) /\ Fresh(o) /\ ~o.inspected
  BY DEF RegistryInv, EnableInspection
<1>2. o.installed = {} /\ served \in SUBSET Service BY <1>1 DEF Follows, servedServices
<1>3. \E first \in SUBSET (served \ taken) :
         registry' = IF taken = {} THEN [installedAll(o, served) EXCEPT !.inspected = TRUE]
                     ELSE removedAll(installedAll(o, first))
  BY DEF EnableInspection
<1> HIDE DEF taken
<1>4. ASSUME registry' = [installedAll(o, served) EXCEPT !.inspected = TRUE] PROVE RegistryInv'
    <2> DEFINE g == installedAll(o, served)
               h == [g EXCEPT !.inspected = TRUE]
    <2> HIDE DEF o, served
    <2>1. /\ g \in RegistryType /\ Tells(o, g)
          /\ \A f : f.iface \in Business => (f \in g.entries <=> f \in o.entries)
          /\ g.installed = served
          /\ g.described = o.described /\ g.bare = o.bare
        <3>1. o.installed \cup served = served BY <1>2
        <3> QED BY <1>1, <1>2, <3>1, InstalledAll
    <2> HIDE DEF g
    <2>2. /\ h \in RegistryType /\ Tells(g, h)
          /\ h.entries = g.entries /\ h.installed = served
          /\ h.described = g.described /\ h.bare = g.bare /\ h.inspected
      BY <2>1, InspectedSet
    <2>3. registry' = h BY <1>4 DEF g
    <2> HIDE DEF h
    <2>4. Follows(h) BY <2>1, <2>2, SameBusiness DEF Follows, served
    <2>5. Owned(h) BY <1>1, <2>1, <2>2, OwnedKept
    <2>6. Fresh(h) BY <1>1, <2>1, <2>2, TellsChain, FreshKept
    <2> QED BY <2>2, <2>3, <2>4, <2>5, <2>6 DEF RegistryInv
<1>5. ASSUME NEW first \in SUBSET served, registry' = removedAll(installedAll(o, first)) PROVE RegistryInv'
    <2> DEFINE g == installedAll(o, first)
               h == removedAll(g)
    <2>1. first \in SUBSET Service BY <1>2
    <2> HIDE DEF o, served
    <2>2. /\ g \in RegistryType /\ Tells(o, g)
          /\ \A f : f.iface \in Business => (f \in g.entries <=> f \in o.entries)
          /\ g.described = o.described /\ g.bare = o.bare /\ g.inspected = o.inspected
      BY <1>1, <2>1, InstalledAll
    <2> HIDE DEF g
    <2>3. /\ h \in RegistryType /\ Tells(g, h)
          /\ \A f : f.iface \in Business => (f \in h.entries <=> f \in g.entries)
          /\ h.installed = {}
          /\ h.described = g.described /\ h.bare = g.bare /\ h.inspected = g.inspected
      BY <2>2, RemovedAll
    <2>4. registry' = h BY <1>5 DEF g
    <2> HIDE DEF h
    <2>5. Follows(h) BY <1>1, <2>2, <2>3 DEF Follows
    <2>6. Owned(h) BY <1>1, <2>2, <2>3, OwnedKept
    <2>7. Fresh(h) BY <1>1, <2>2, <2>3, TellsChain, FreshKept
    <2> QED BY <2>3, <2>4, <2>5, <2>6, <2>7 DEF RegistryInv
<1> QED BY <1>3, <1>4, <1>5

LEMMA DisableStep ==
    ASSUME RegistryInv, DisposeInspection
    PROVE  RegistryInv'
<1> DEFINE o == registry
           g == removedAll(o)
           h == [g EXCEPT !.inspected = FALSE]
<1>1. o \in RegistryType /\ Follows(o) /\ Owned(o) /\ Fresh(o) /\ registry' = h
  BY DEF RegistryInv, DisposeInspection
<1> HIDE DEF o
<1>2. /\ g \in RegistryType /\ Tells(o, g)
      /\ \A f : f.iface \in Business => (f \in g.entries <=> f \in o.entries)
      /\ g.installed = {} /\ g.described = o.described /\ g.bare = o.bare
  BY <1>1, RemovedAll
<1> HIDE DEF g
<1>3. /\ h \in RegistryType /\ Tells(g, h)
      /\ h.entries = g.entries /\ h.installed = {}
      /\ h.described = g.described /\ h.bare = g.bare /\ ~h.inspected
  BY <1>2, InspectedSet
<1> HIDE DEF h
<1>4. Follows(h) BY <1>3 DEF Follows
<1>5. Owned(h) BY <1>1, <1>2, <1>3, OwnedKept
<1>6. Fresh(h) BY <1>1, <1>2, <1>3, TellsChain, FreshKept
<1> QED BY <1>1, <1>3, <1>4, <1>5, <1>6 DEF RegistryInv

LEMMA CloseRegistryStep ==
    ASSUME RegistryInv, CloseRegistry
    PROVE  RegistryInv'
<1> DEFINE o == registry
           foreign == {ServiceEntry(s, "inspection") : s \in Service \ o.installed}
           c == [o EXCEPT !.entries = @ \ foreign]
           g == removedAll(c)
           h == [g EXCEPT !.inspected = FALSE, !.closed = TRUE, !.watching = FALSE, !.pending = FALSE, !.listed = {}]
<1>1. o \in RegistryType /\ Owned(o) /\ registry' = h BY DEF RegistryInv, CloseRegistry
<1>2. \A e \in foreign : e.iface \notin Business BY RegistryAssumption DEF ServiceEntry
<1> HIDE DEF foreign
<1>3. c \in RegistryType /\ c.entries = o.entries \ foreign /\ c.described = o.described /\ c.bare = o.bare
  BY <1>1 DEF RegistryType
<1> HIDE DEF o, c
<1>4. /\ g \in RegistryType
      /\ \A f : f.iface \in Business => (f \in g.entries <=> f \in c.entries)
      /\ g.installed = {} /\ g.described = c.described /\ g.bare = c.bare
  BY <1>3, RemovedAll
<1> HIDE DEF g
<1>5. /\ h.entries = g.entries /\ h.installed = {} /\ h.described = g.described /\ h.bare = g.bare
      /\ ~h.inspected /\ ~h.watching
  BY <1>4 DEF RegistryType
<1>6. h \in RegistryType BY <1>4 DEF RegistryType
<1> HIDE DEF h
<1>7. \A f : f.iface \in Business => (f \in h.entries <=> f \in o.entries) BY <1>2, <1>3, <1>4, <1>5
<1>8. Owned(h) BY <1>1, <1>3, <1>4, <1>5, <1>7, OwnedKept
<1>9. Follows(h) /\ Fresh(h) BY <1>5 DEF Follows, Fresh
<1> QED BY <1>1, <1>6, <1>8, <1>9 DEF RegistryInv

-----------------------------------------------------------------------------
\* What is listed is well-typed.
LEMMA ListingTyped ==
    ASSUME NEW g \in RegistryType
    PROVE  listing(g) \in SUBSET Listed
<1>1. \A e \in g.entries : e \in Entry /\ (e.service \in Service => g.described[e.service] \in Description \cup {Nothing})
  BY DEF RegistryType
<1> QED BY <1>1 DEF listing, Listed

\* A fresh listing is known, also after a change that leaves what is listed.
LEMMA ListingKnown ==
    ASSUME NEW g, NEW h, h.service = g.service, h.iface = g.iface, h.entries = g.entries,
           h.described = g.described, h.installed = g.installed
    PROVE  known(h, listing(g)) = listing(h)
<1>1. \A e \in g.entries : Shown(g, h, e) BY DEF Shown, forgotten
<1>2. known(g, listing(g)) = listing(g)
    <2> DEFINE E == {e \in g.entries : watcherMatches(g, e)}
               text(e) == IF e.service \in Service THEN g.described[e.service] ELSE Nothing
               line(e) == [entry |-> e, description |-> text(e)]
               seenAs(x) == [entry |-> x.entry, description |-> IF forgotten(g, x.entry) THEN Nothing ELSE x.description]
    <2>1. listing(g) = {line(e) : e \in E} BY DEF listing
    <2>2. \A e \in E : forgotten(g, e) => text(e) = Nothing BY DEF forgotten
    <2>3. \A e \in E : seenAs(line(e)) = line(e) BY <2>2
    <2>4. known(g, listing(g)) = {seenAs(x) : x \in listing(g)} BY DEF known
    <2> HIDE DEF E, text, line, seenAs
    <2> QED BY <2>1, <2>3, <2>4
<1> QED BY <1>1, <1>2, SameListing DEF Still

LEMMA WatchStep ==
    ASSUME RegistryInv, \/ \E s \in Service \cup {Nothing}, i \in Interface \cup {Nothing} : WatchDirectory(s, i)
                        \/ WatcherTold
                        \/ WatchAborted
    PROVE  RegistryInv'
<1> DEFINE o == registry
           h == registry'
<1>1. o \in RegistryType /\ Follows(o) /\ Owned(o) /\ Fresh(o) BY DEF RegistryInv
<1> DEFINE Same == /\ h.entries = o.entries /\ h.installed = o.installed /\ h.inspected = o.inspected
                  /\ h.described = o.described /\ h.bare = o.bare /\ h \in RegistryType /\ Fresh(h)
<1>2. ASSUME NEW s \in Service \cup {Nothing}, NEW i \in Interface \cup {Nothing}, WatchDirectory(s, i)
      PROVE  Same
    <2> DEFINE g == [o EXCEPT !.watching = TRUE, !.service = s, !.iface = i]
    <2>1. h = [g EXCEPT !.listed = listing(g)] BY <1>2 DEF WatchDirectory
    <2>2. /\ g.entries = o.entries /\ g.installed = o.installed /\ g.inspected = o.inspected
          /\ g.described = o.described /\ g.bare = o.bare
      BY <1>1 DEF RegistryType
    <2>3. g \in RegistryType BY <1>1 DEF RegistryType
    <2> HIDE DEF g, o
    <2>4. listing(g) \in SUBSET Listed BY <2>3, ListingTyped
    <2>5. h \in RegistryType BY <2>1, <2>3, <2>4 DEF RegistryType
    <2>6. /\ h.entries = g.entries /\ h.installed = g.installed /\ h.inspected = g.inspected
          /\ h.described = g.described /\ h.bare = g.bare /\ h.service = g.service /\ h.iface = g.iface
          /\ h.listed = listing(g)
      BY <2>1, <2>3 DEF RegistryType
    <2> HIDE DEF h
    <2>7. known(h, listing(g)) = listing(h) BY <2>6, ListingKnown
    <2> QED BY <2>2, <2>5, <2>6, <2>7 DEF Fresh
<1>3. ASSUME WatcherTold PROVE Same
    <2> DEFINE seen == IF o.watching THEN listing(o) ELSE o.listed
    <2>1. h = [o EXCEPT !.pending = FALSE, !.listed = seen] BY <1>3 DEF WatcherTold
    <2>2. seen \in SUBSET Listed /\ (o.watching => seen = listing(o))
      BY <1>1, ListingTyped DEF RegistryType
    <2> HIDE DEF seen, o
    <2>3. h \in RegistryType BY <1>1, <2>1, <2>2 DEF RegistryType
    <2>4. /\ h.entries = o.entries /\ h.installed = o.installed /\ h.inspected = o.inspected
          /\ h.described = o.described /\ h.bare = o.bare /\ h.service = o.service /\ h.iface = o.iface
          /\ h.watching = o.watching /\ h.listed = seen
      BY <1>1, <2>1 DEF RegistryType
    <2> HIDE DEF h
    <2>5. known(h, listing(o)) = listing(h) BY <2>4, ListingKnown
    <2> QED BY <2>2, <2>3, <2>4, <2>5 DEF Fresh
<1>4. ASSUME WatchAborted PROVE Same
    <2>1. h = [o EXCEPT !.watching = FALSE, !.pending = FALSE, !.listed = {},
                        !.service = Nothing, !.iface = Nothing]
      BY <1>4 DEF WatchAborted
    <2> HIDE DEF o
    <2>2. h \in RegistryType BY <1>1, <2>1 DEF RegistryType
    <2>3. /\ h.entries = o.entries /\ h.installed = o.installed /\ h.inspected = o.inspected
          /\ h.described = o.described /\ h.bare = o.bare /\ ~h.watching
      BY <1>1, <2>1 DEF RegistryType
    <2> QED BY <2>2, <2>3 DEF Fresh
<1>5. Same BY <1>2, <1>3, <1>4
<1> HIDE DEF h, o
<1>6. Follows(h) /\ Owned(h) BY <1>1, <1>5, SameBusiness DEF Follows, Owned
<1> QED BY <1>5, <1>6 DEF RegistryInv, h

-----------------------------------------------------------------------------
LEMMA RegistryInvInit == RegistryInit => RegistryInv
<1> SUFFICES ASSUME RegistryInit PROVE RegistryInv
  OBVIOUS
<1>1. registry \in RegistryType BY DEF RegistryInit, RegistryType
<1>2. /\ registry.installed = {} /\ ~registry.inspected /\ ~registry.watching
      /\ \A s \in Service : registry.described[s] = Nothing
      /\ \A p \in BarePrefix : registry.bare[p] = Nothing
  BY DEF RegistryInit
<1> QED BY <1>1, <1>2 DEF RegistryInv, Follows, Owned, Fresh

\* Whatever is registered, described, bound, exposed, inspected, watched and disposed, in whatever
\* order and with whatever failures, the watcher knows the directory or will be told, exactly the
\* services in use are inspected, and nothing is left of what is gone.
THEOREM RegistryConsistent == RegistrySpec => []RegistryIsConsistent
<1>1. RegistryInv /\ [RegistryNext]_registry => RegistryInv'
    <2> SUFFICES ASSUME RegistryInv, [RegistryNext]_registry PROVE RegistryInv'
      OBVIOUS
    <2>1. CASE UNCHANGED registry BY <2>1 DEF RegistryInv
    <2>2. CASE RegistryNext
      BY <2>2, RegisterStep, DisposeStep, ForeignStep, EnableStep, DisableStep, CloseRegistryStep, WatchStep
         DEF RegistryNext
    <2> QED BY <2>1, <2>2
<1>2. RegistryInv => RegistryIsConsistent
  BY DEF RegistryInv, RegistryIsConsistent, WatcherIsFresh, InspectionFollowsServices, NothingOrphaned,
         Fresh, Follows, Owned
<1> QED BY <1>1, <1>2, RegistryInvInit, PTL DEF RegistrySpec

-----------------------------------------------------------------------------
(* Capabilities (CapabilityIssuance): a chain is walked by taking the least link from     *)
(* which something holds.                                                                *)

\* The least element of a set of natural numbers.
LEMMA LeastNat ==
    ASSUME NEW T \in SUBSET Nat, T # {}
    PROVE  \E n \in T : \A m \in T : n <= m
<1> DEFINE Less == OpToRel(<, Nat)
<1>1. IsWellFoundedOn(Less, Nat) BY ONLY NatLessThanWellFounded
<1>2. \A x \in T, y \in T : <<y, x>> \notin Less => x <= y BY DEF OpToRel
<1> HIDE DEF Less
<1>3. \E x \in T : \A y \in T : ~ (<<y, x>> \in Less) BY <1>1, WFMin
<1> QED BY <1>2, <1>3

LEMMA MinIsLeast ==
    ASSUME NEW T \in SUBSET Nat, T # {}
    PROVE  Min(T) \in T /\ \A m \in T : Min(T) <= m
BY LeastNat DEF Min

-----------------------------------------------------------------------------
(* Coverage.                                                               *)

LEMMA PrefixTransitive ==
    ASSUME NEW a \in Seq(Symbol), NEW b \in Seq(Symbol), NEW c \in Seq(Symbol),
           IsPrefix(a, b), IsPrefix(b, c)
    PROVE  IsPrefix(a, c)
<1>1. Len(a) <= Len(b) /\ Len(b) <= Len(c) BY DEF IsPrefix
<1>2. \A i \in 1..Len(a) : a[i] = b[i] BY <1>1 DEF IsPrefix
<1>3. \A i \in 1..Len(b) : b[i] = c[i] BY <1>1 DEF IsPrefix
<1>4. SubSeq(a, 1, Len(a)) = SubSeq(c, 1, Len(a)) BY <1>1, <1>2, <1>3
<1> QED BY <1>1, <1>4 DEF IsPrefix

\* patternCovers and _patternMatches agree: what a covered pattern matches,
\* the covering one matches.
LEMMA PatternCoverage ==
    ASSUME NEW granted \in Pattern, NEW requested \in Pattern, NEW value \in Seq(Symbol),
           patternCovers(granted, requested), patternMatches(value, requested)
    PROVE  patternMatches(value, granted)
<1>1. CASE granted.kind = "exact" BY <1>1 DEF patternCovers
<1>2. CASE granted.kind # "exact" /\ requested.kind = "exact"
  BY <1>2 DEF patternCovers, patternMatches
<1>3. CASE granted.kind # "exact" /\ requested.kind # "exact"
  BY <1>3, PrefixTransitive DEF patternCovers, patternMatches, Pattern
<1> QED BY <1>1, <1>2, <1>3

\* paramCovers and _matchParamValue agree.
LEMMA MatcherCoverage ==
    ASSUME NEW granted, NEW requested, NEW value,
           granted.kind = "prefix" => granted.text \in Seq(Symbol),
           requested.kind = "prefix" => requested.text \in Seq(Symbol),
           value.kind = "string" => value.text \in Seq(Symbol),
           paramCovers(granted, requested), valueMatches(requested, value)
    PROVE  valueMatches(granted, value)
<1>1. CASE granted.kind = "any" BY <1>1 DEF valueMatches
<1>2. CASE requested.kind = "exact" /\ valueMatches(granted, requested.value)
    <2>1. value = requested.value BY <1>2 DEF valueMatches
    <2> QED BY <1>2, <2>1
<1>3. CASE requested.kind = "enum" /\ \A v \in requested.values : valueMatches(granted, v)
    <2>1. value \in requested.values BY <1>3 DEF valueMatches
    <2> QED BY <1>3, <2>1
<1>4. CASE requested.kind = "prefix" /\ granted.kind = "prefix" /\ IsPrefix(granted.text, requested.text)
    <2>1. value.kind = "string" /\ IsPrefix(requested.text, value.text) BY <1>4 DEF valueMatches
    <2>2. IsPrefix(granted.text, value.text) BY <1>4, <2>1, PrefixTransitive
    <2> QED BY <1>4, <2>1, <2>2 DEF valueMatches
<1>5. CASE requested.kind = "subsetOf" /\ granted.kind = "subsetOf" /\ requested.items \subseteq granted.items
    <2>1. value.kind = "list" /\ value.items \subseteq requested.items BY <1>5 DEF valueMatches
    <2> QED BY <1>5, <2>1 DEF valueMatches
<1> QED BY <1>1, <1>2, <1>3, <1>4, <1>5 DEF paramCovers

\* permissionScopeCovers and permissionPermits agree, for whatever the grant
\* may be used: the lemma behind both directions of delegation.  It is enough
\* that the member by which the request admits the call is covered.
LEMMA ScopeCoverage ==
    ASSUME NEW granted, IsPermission(granted), NEW requested, IsPermission(requested),
           NEW call, IsCall(call), NEW m \in requested.members, patternMatches(call.member, m),
           permissionScopeCovers(granted, [requested EXCEPT !.members = {m}]),
           permissionPermits(call, requested, "invoke"),
           NEW ability \in granted.can
    PROVE  permissionPermits(call, granted, ability)
<1> DEFINE single == [requested EXCEPT !.members = {m}]
<1>1. /\ single.members = {m} /\ single.service = requested.service /\ single.hash = requested.hash
      /\ single.params = requested.params /\ single.bind = requested.bind
  BY DEF IsPermission
<1>2. /\ granted.service \in Pattern /\ granted.members \subseteq Pattern
      /\ requested.service \in Pattern /\ requested.members \subseteq Pattern
  BY DEF IsPermission
<1>3. patternMatches(call.service, granted.service)
  BY <1>1, <1>2, PatternCoverage DEF permissionScopeCovers, permissionPermits, targetMatches, IsCall
<1>4. granted.hash \in {Free, call.hash}
  BY <1>1 DEF permissionScopeCovers, permissionPermits, targetMatches
<1>5. \E a \in granted.members : patternMatches(call.member, a)
    <2>1. PICK a \in granted.members : patternCovers(a, m) BY <1>1 DEF permissionScopeCovers
    <2> QED BY <1>2, <2>1, PatternCoverage DEF IsCall
<1>6. granted.bind \in {Free, call.payload} BY <1>1 DEF permissionScopeCovers, permissionPermits
<1>7. granted.params = Free \/ matchParams(granted.params, call.params)
    <2>1. SUFFICES ASSUME granted.params # Free
                   PROVE  matchParams(granted.params, call.params)
      OBVIOUS
    <2>2. /\ requested.params # Free
          /\ DOMAIN granted.params = DOMAIN requested.params
          /\ \A k \in DOMAIN granted.params : paramCovers(granted.params[k], requested.params[k])
      BY <1>1, <2>1 DEF permissionScopeCovers
    <2>3. /\ DOMAIN requested.params = DOMAIN call.params
          /\ \A k \in DOMAIN requested.params : valueMatches(requested.params[k], call.params[k])
      BY <2>2 DEF permissionPermits, matchParams
    <2>4. ASSUME NEW k \in DOMAIN granted.params
          PROVE  valueMatches(granted.params[k], call.params[k])
        <3>1. granted.params[k].kind = "prefix" => granted.params[k].text \in Seq(Symbol)
          BY <2>1 DEF IsPermission
        <3>2. requested.params[k].kind = "prefix" => requested.params[k].text \in Seq(Symbol)
          BY <2>2 DEF IsPermission
        <3>3. call.params[k].kind = "string" => call.params[k].text \in Seq(Symbol)
          BY <2>2, <2>3 DEF IsCall
        <3> QED BY <2>2, <2>3, <3>1, <3>2, <3>3, MatcherCoverage
    <2> QED BY <2>2, <2>3, <2>4 DEF matchParams
<1> QED BY <1>3, <1>4, <1>5, <1>6, <1>7 DEF permissionPermits, targetMatches

-----------------------------------------------------------------------------
(* The inductive invariant.                                                *)

IssuanceShape ==
    issuance \in [now : Nat, signed : {issuance.signed}, direct : {issuance.direct}, plans : {issuance.plans},
                  plan : {issuance.plan}, results : {issuance.results}, compared : Scope \cup {Unset}]

\* A signed capability comes with signed ancestors.
SignedShape ==
    \A c \in issuance.signed : IsCapability(c) /\ c.ancestors \in Seq(issuance.signed)

\* Whatever is in a grant is delegated by all the ancestors, in unbroken succession from the root
\* to the issuer, and they all outlive it.
GrantIsBacked(plan, g) ==
    /\ g.expires \in Nat /\ g.expires <= plan.expires
    /\ \A p \in g.permissions : IsPermission(p)
    /\ g.ancestors \in Seq(issuance.signed) /\ Len(g.ancestors) <= IssueDepth
    /\ accepts(plan.accepted, g.root)
    /\ g.root = IF g.ancestors = << >> THEN plan.issuer ELSE Last(g.ancestors).issuer
    /\ \A i \in DOMAIN g.ancestors :
        /\ g.ancestors[i].audience = (IF i = 1 THEN plan.issuer ELSE g.ancestors[i - 1].issuer)
        /\ g.ancestors[i].genuine
        /\ g.expires <= g.ancestors[i].expires
        /\ \A p \in g.permissions : \A m \in p.members :
            \E q \in g.ancestors[i].permissions :
                "delegate" \in q.can /\ permissionScopeCovers(q, [p EXCEPT !.members = {m}])

PlanIsBacked(plan) ==
    /\ plan \in [issuer : {plan.issuer}, audience : {plan.audience}, accepted : {plan.accepted},
                 expires : Nat, step : {plan.step}, grants : {plan.grants}]
    /\ \A g \in plan.grants : GrantIsBacked(plan, g)

ResultIsBacked(r) ==
    /\ PlanIsBacked(r.plan)
    /\ r.caps = chainsOf(r.plan)
    /\ \A g \in r.plan.grants : r.at < g.expires

IssuanceInv ==
    /\ IssuanceShape
    /\ SignedShape
    /\ issuance.plan # Unset => PlanIsBacked(issuance.plan)
    /\ \A r \in issuance.results : ResultIsBacked(r)

-----------------------------------------------------------------------------
(* Chains and what is issued from them.                                    *)

LEMMA SeqMonotone ==
    ASSUME NEW S, NEW T, S \subseteq T, NEW s \in Seq(S)
    PROVE  s \in Seq(T)
OBVIOUS

\* A capability and its ancestors, in order.
LEMMA ChainShape ==
    ASSUME NEW S, NEW c \in S, c.ancestors \in Seq(S)
    PROVE  /\ chainOf(c) \in Seq(S)
           /\ Len(chainOf(c)) = Len(c.ancestors) + 1
           /\ chainOf(c)[1] = c
           /\ \A i \in DOMAIN c.ancestors : chainOf(c)[i + 1] = c.ancestors[i]
           /\ \A i \in DOMAIN chainOf(c) : i # 1 => i - 1 \in DOMAIN c.ancestors
BY DEF chainOf

\* What a verified chain is.
LEMMA VerifiedChain ==
    ASSUME NEW link, NEW audience, NEW now, NEW depth, NEW leaves, NEW parents,
           verifiedLink(link, audience, now, depth, leaves, parents),
           NEW i \in DOMAIN chainOf(link)
    PROVE  /\ Len(chainOf(link)) <= depth
           /\ chainOf(link)[i].audience = (IF i = 1 THEN audience ELSE chainOf(link)[i - 1].issuer)
           /\ ~(chainOf(link)[i].expires < now)
           /\ chainOf(link)[i] \in (IF i = 1 THEN leaves ELSE parents)
           /\ chainOf(link)[i].genuine
BY DEF verifiedLink

\* The lifetime of what is issued: within the request's and all ancestors'.
LEMMA EarliestBounds ==
    ASSUME NEW expires \in Nat, NEW chain, \A i \in DOMAIN chain : chain[i].expires \in Nat
    PROVE  /\ earliest(expires, chain) \in Nat
           /\ earliest(expires, chain) <= expires
           /\ \A i \in DOMAIN chain : earliest(expires, chain) <= chain[i].expires
<1> DEFINE T == {expires} \cup {chain[i].expires : i \in DOMAIN chain}
<1>1. T \in SUBSET Nat /\ T # {} /\ expires \in T /\ \A i \in DOMAIN chain : chain[i].expires \in T
  OBVIOUS
<1>2. earliest(expires, chain) = Min(T) BY DEF earliest
<1> HIDE DEF T
<1>3. Min(T) \in T /\ \A m \in T : Min(T) <= m BY <1>1, MinIsLeast
<1> QED BY <1>1, <1>2, <1>3

\* prepareCapabilityIssuance selects only chains that delegate the permission.
LEMMA GrantsForAreBacked ==
    ASSUME IssuanceInv, NEW option \in IssueOption, NEW p \in option.permissions,
           NEW g \in grantsFor(option, p),
           NEW plan, plan.issuer = option.issuer, plan.expires = option.expires, plan.accepted = option.accepted
    PROVE  GrantIsBacked(plan, g)
<1> DEFINE cands == candidates(option.issuer, p, issuance.signed, issuance.now)
           usable == {c \in cands : accepts(option.accepted, rootIssuer(c))}
           cov == covering(issuance.signed, {p}, issuance.now)
<1>1. IsPermission(p) /\ option.expires \in Nat BY IssueOptionAssumption
<1>2. CASE usable # {}
    <2>1. PICK c \in usable :
            g = grantOf({p}, rootIssuer(c), earliest(option.expires, chainOf(c)), chainOf(c))
      BY <1>2 DEF grantsFor
    <2>2. /\ c \in cov /\ verifiedLink(c, option.issuer, issuance.now, IssueDepth, cov, cov)
          /\ accepts(option.accepted, rootIssuer(c))
      BY DEF candidates
    <2>3. cov \subseteq issuance.signed BY DEF covering
    <2>4. c \in issuance.signed /\ c.ancestors \in Seq(issuance.signed)
      BY <2>2, <2>3 DEF IssuanceInv, SignedShape
    <2> DEFINE chain == chainOf(c)
    <2>5. chain \in Seq(issuance.signed) /\ Len(chain) \in Nat /\ chain # << >> /\ 1 \in DOMAIN chain
        <3>1. chain \in Seq(issuance.signed) /\ Len(chain) = Len(c.ancestors) + 1
          BY <2>4, ChainShape
        <3> HIDE DEF chain
        <3> QED BY <2>4, <3>1
    <2>6. \A i \in DOMAIN chain :
            /\ Len(chain) <= IssueDepth
            /\ chain[i].audience = (IF i = 1 THEN option.issuer ELSE chain[i - 1].issuer)
            /\ chain[i] \in cov
            /\ chain[i].genuine
      BY <2>2, VerifiedChain
    <2>7. \A i \in DOMAIN chain : chain[i].expires \in Nat
      BY <2>3, <2>6 DEF IssuanceInv, SignedShape, IsCapability
    <2>8. /\ g.permissions = {p} /\ g.root = Last(chain).issuer /\ g.ancestors = chain
          /\ g.expires = earliest(option.expires, chain)
      BY <2>1 DEF grantOf, rootIssuer
    <2> HIDE DEF chain
    <2>9. /\ g.expires \in Nat /\ g.expires <= option.expires
          /\ \A i \in DOMAIN chain : g.expires <= chain[i].expires
      BY <1>1, <2>7, <2>8, EarliestBounds
    <2>10. \A i \in DOMAIN chain : \A m \in p.members :
            \E q \in chain[i].permissions :
                "delegate" \in q.can /\ permissionScopeCovers(q, [p EXCEPT !.members = {m}])
      BY <2>6 DEF covering, delegationCovers
    <2>11. accepts(plan.accepted, g.root) BY <2>2, <2>8 DEF rootIssuer, chain
    <2> QED BY <1>1, <2>5, <2>6, <2>8, <2>9, <2>10, <2>11 DEF GrantIsBacked
<1>3. CASE usable = {}
    <2>1. option.accepted = Unset /\ g = grantOf({p}, option.issuer, option.expires, << >>)
      BY <1>3 DEF grantsFor
    <2> QED BY <1>1, <2>1, DepthAssumption DEF GrantIsBacked, grantOf, accepts
<1> QED BY <1>2, <1>3

\* What is planned or returned stays backed while more gets signed.
LEMMA BackedIsStable ==
    ASSUME issuance.signed \subseteq issuance'.signed, NEW plan, PlanIsBacked(plan)
    PROVE  PlanIsBacked(plan)'
<1>1. ASSUME NEW g \in plan.grants PROVE GrantIsBacked(plan, g)'
    <2>1. GrantIsBacked(plan, g) BY DEF PlanIsBacked
    <2>2. g.ancestors \in Seq(issuance'.signed) BY <2>1, SeqMonotone DEF GrantIsBacked
    <2> QED BY <2>1, <2>2 DEF GrantIsBacked
<1> QED BY <1>1 DEF PlanIsBacked

LEMMA IssuanceInvInit == IssuanceInit => IssuanceInv
BY DEF IssuanceInit, IssuanceInv, IssuanceShape, SignedShape

\* Signing without a plan: the ancestors that are named have been signed.
LEMMA SignsDirectlyKeeps ==
    ASSUME IssuanceInv, NEW cap \in Signable, NEW ancestors \in {<< >>} \cup {chainOf(c) : c \in issuance.signed},
           SignsDirectly(cap, ancestors)
    PROVE  IssuanceInv'
<1> DEFINE new == [cap EXCEPT !.ancestors = ancestors]
<1>1. /\ issuance'.signed = issuance.signed \cup {new} /\ issuance'.now = issuance.now
      /\ issuance'.plan = issuance.plan /\ issuance'.results = issuance.results
      /\ IssuanceShape'
  BY DEF SignsDirectly, IssuanceInv, IssuanceShape
<1>2. ancestors \in Seq(issuance.signed)
    <2>1. CASE ancestors = << >> BY <2>1
    <2>2. ASSUME NEW c \in issuance.signed, ancestors = chainOf(c) PROVE ancestors \in Seq(issuance.signed)
      BY <2>2, ChainShape DEF IssuanceInv, SignedShape
    <2> QED BY <2>1, <2>2
<1>3. IsCapability(new) /\ new.ancestors = ancestors BY SignableAssumption DEF IsCapability
<1>4. SignedShape' BY <1>1, <1>2, <1>3, SeqMonotone DEF IssuanceInv, SignedShape
<1>5. issuance'.plan # Unset => PlanIsBacked(issuance.plan)' BY <1>1, BackedIsStable DEF IssuanceInv
<1>6. \A r \in issuance'.results : ResultIsBacked(r)'
  BY <1>1, BackedIsStable DEF IssuanceInv, ResultIsBacked
<1> QED BY <1>1, <1>4, <1>5, <1>6 DEF IssuanceInv

\* Preparing: what is planned is backed.
LEMMA PreparesKeeps ==
    ASSUME IssuanceInv, NEW option \in IssueOption, Prepares(option)
    PROVE  IssuanceInv'
<1> DEFINE own == grantOf(option.permissions, option.issuer, option.expires, << >>)
           planned(grants) ==
                [issuer |-> option.issuer, audience |-> option.audience, accepted |-> option.accepted,
                 expires |-> option.expires, step |-> "prepared", grants |-> grants]
           choices == {g \in [option.permissions -> UNION {grantsFor(option, p) : p \in option.permissions}] :
                        \A p \in option.permissions : g[p] \in grantsFor(option, p)}
<1>1. option.expires \in Nat /\ \A p \in option.permissions : IsPermission(p)
  BY IssueOptionAssumption
<1>2. PICK grants \in IF option.accepted # Unset /\ option.issuer \in option.accepted
                      THEN {{own}} ELSE {Range(f) : f \in choices} :
            issuance' = [issuance EXCEPT !.plans = @ + 1, !.plan = planned(grants)]
  BY DEF Prepares
<1>3. /\ issuance'.signed = issuance.signed /\ issuance'.now = issuance.now
      /\ issuance'.plan = planned(grants) /\ issuance'.results = issuance.results
      /\ IssuanceShape'
  BY <1>2 DEF IssuanceInv, IssuanceShape
<1>4. ASSUME NEW g \in grants PROVE GrantIsBacked(planned(grants), g)
    <2>1. CASE option.accepted # Unset /\ option.issuer \in option.accepted
        <3>1. g = own BY <1>2, <2>1
        <3> QED BY <1>1, <2>1, <3>1, DepthAssumption DEF GrantIsBacked, grantOf, accepts
    <2>2. CASE ~(option.accepted # Unset /\ option.issuer \in option.accepted)
        <3>1. PICK p \in option.permissions : g \in grantsFor(option, p) BY <1>2, <2>2 DEF Range
        <3> QED BY <3>1, GrantsForAreBacked
    <2> QED BY <2>1, <2>2
<1>5. PlanIsBacked(planned(grants)) BY <1>1, <1>4 DEF PlanIsBacked
<1>6. PlanIsBacked(planned(grants))' BY <1>3, <1>5, BackedIsStable
<1>7. \A r \in issuance'.results : ResultIsBacked(r)'
  BY <1>3, BackedIsStable DEF IssuanceInv, ResultIsBacked
<1>8. SignedShape' BY <1>3 DEF IssuanceInv, SignedShape
<1> QED BY <1>3, <1>6, <1>7, <1>8 DEF IssuanceInv

\* The steps that only look at the plan or at the clock.
LEMMA PlanStepsKeep ==
    ASSUME IssuanceInv, Issues \/ PlanDropped \/ ClockTicks
    PROVE  IssuanceInv'
<1>1. /\ issuance'.signed = issuance.signed /\ issuance'.results = issuance.results
      /\ IssuanceShape'
  BY DEF Issues, PlanDropped, ClockTicks, IssuanceInv, IssuanceShape
<1>2. issuance'.plan # Unset => PlanIsBacked(issuance'.plan)
    <2>1. CASE Issues /\ issuance' = [issuance EXCEPT !.plan.step = "signing"]
        <3>1. PlanIsBacked(issuance.plan) BY <2>1 DEF Issues, IssuanceInv
        <3>2. issuance'.plan = [issuance.plan EXCEPT !.step = "signing"]
          BY <2>1 DEF IssuanceInv, IssuanceShape
        <3>3. /\ issuance'.plan.issuer = issuance.plan.issuer /\ issuance'.plan.accepted = issuance.plan.accepted
              /\ issuance'.plan.expires = issuance.plan.expires /\ issuance'.plan.grants = issuance.plan.grants
              /\ issuance'.plan.audience = issuance.plan.audience
          BY <3>1, <3>2 DEF PlanIsBacked
        <3>4. issuance'.plan \in [issuer : {issuance'.plan.issuer}, audience : {issuance'.plan.audience},
                    accepted : {issuance'.plan.accepted}, expires : Nat, step : {issuance'.plan.step},
                    grants : {issuance'.plan.grants}]
          BY <3>1, <3>2 DEF PlanIsBacked
        <3>5. ASSUME NEW g \in issuance'.plan.grants
              PROVE  GrantIsBacked(issuance'.plan, g)
            <4>1. GrantIsBacked(issuance.plan, g) BY <3>1, <3>3 DEF PlanIsBacked
            <4> QED BY <3>3, <4>1 DEF GrantIsBacked
        <3> QED BY <3>4, <3>5 DEF PlanIsBacked
    <2>2. CASE issuance'.plan \in {Unset, issuance.plan} BY <2>2 DEF IssuanceInv
    <2> QED BY <2>1, <2>2 DEF Issues, PlanDropped, ClockTicks, IssuanceInv, IssuanceShape
<1>3. issuance'.plan # Unset => PlanIsBacked(issuance.plan)'
  BY <1>1, <1>2 DEF PlanIsBacked, GrantIsBacked
<1>4. \A r \in issuance'.results : ResultIsBacked(r)'
  BY <1>1, BackedIsStable DEF IssuanceInv, ResultIsBacked
<1>5. SignedShape' BY <1>1 DEF IssuanceInv, SignedShape
<1> QED BY <1>1, <1>3, <1>4, <1>5 DEF IssuanceInv

\* issue() returns: the new leaves and all their ancestors.
LEMMA IssueReturnsKeeps ==
    ASSUME IssuanceInv, IssueReturns
    PROVE  IssuanceInv'
<1> DEFINE plan == issuance.plan
<1>1. PlanIsBacked(plan) BY DEF IssueReturns, IssuanceInv
<1>2. CASE \E g \in plan.grants : g.expires <= issuance.now
    <2>1. /\ issuance'.signed = issuance.signed /\ issuance'.results = issuance.results
          /\ issuance'.plan = Unset /\ IssuanceShape'
      BY <1>2 DEF IssueReturns, IssuanceInv, IssuanceShape
    <2>2. \A r \in issuance'.results : ResultIsBacked(r)'
      BY <2>1, BackedIsStable DEF IssuanceInv, ResultIsBacked
    <2> QED BY <2>1, <2>2 DEF IssuanceInv, SignedShape
<1>3. CASE ~\E g \in plan.grants : g.expires <= issuance.now
    <2>1. /\ issuance'.signed = issuance.signed \cup chainsOf(plan)
          /\ issuance'.results = issuance.results \cup {issued(plan)}
          /\ issuance'.plan = Unset /\ issuance'.now = issuance.now /\ IssuanceShape'
      BY <1>3 DEF IssueReturns, IssuanceInv, IssuanceShape
    <2>2. ASSUME NEW c \in chainsOf(plan)
          PROVE  IsCapability(c) /\ c.ancestors \in Seq(issuance.signed)
        <3>1. PICK g \in plan.grants : c = leafOf(plan, g) \/ c \in Range(g.ancestors)
          BY <2>2 DEF chainsOf
        <3>2. GrantIsBacked(plan, g) BY <1>1 DEF PlanIsBacked
        <3>3. CASE c = leafOf(plan, g) BY <3>2, <3>3 DEF leafOf, GrantIsBacked, IsCapability
        <3>4. CASE c \in Range(g.ancestors)
            <4>1. c \in issuance.signed BY <3>2, <3>4 DEF GrantIsBacked, Range
            <4> QED BY <4>1 DEF IssuanceInv, SignedShape
        <3> QED BY <3>1, <3>3, <3>4
    <2>3. SignedShape' BY <2>1, <2>2, SeqMonotone DEF IssuanceInv, SignedShape
    <2>4. ASSUME NEW r \in issuance.results PROVE ResultIsBacked(r)'
      BY <2>1, BackedIsStable DEF IssuanceInv, ResultIsBacked
    <2>5. ResultIsBacked(issued(plan))
        <3>1. \A g \in plan.grants : issuance.now < g.expires
          BY <1>1, <1>3 DEF PlanIsBacked, GrantIsBacked, IssuanceInv, IssuanceShape
        <3> QED BY <1>1, <3>1 DEF ResultIsBacked, issued
    <2>6. \A r \in {issued(plan)} : ResultIsBacked(r)'
      BY <2>1, <2>5, BackedIsStable DEF ResultIsBacked
    <2> QED BY <2>1, <2>3, <2>4, <2>6 DEF IssuanceInv
<1> QED BY <1>2, <1>3

LEMMA IssuanceInvStep == IssuanceInv /\ [IssuanceNext]_issuance => IssuanceInv'
<1> SUFFICES ASSUME IssuanceInv, [IssuanceNext]_issuance PROVE IssuanceInv'
  OBVIOUS
<1>1. ASSUME NEW cap \in Signable, NEW ancestors \in {<< >>} \cup {chainOf(c) : c \in issuance.signed},
             SignsDirectly(cap, ancestors)
      PROVE  IssuanceInv'
  BY <1>1, SignsDirectlyKeeps
<1>2. ASSUME NEW option \in IssueOption, Prepares(option) PROVE IssuanceInv'
  BY <1>2, PreparesKeeps
<1>3. CASE Issues \/ PlanDropped \/ ClockTicks BY <1>3, PlanStepsKeep
<1>4. CASE IssueReturns BY <1>4, IssueReturnsKeeps
<1>5. CASE UNCHANGED issuance
    <2>1. IssuanceShape' /\ SignedShape' BY <1>5 DEF IssuanceInv, IssuanceShape, SignedShape
    <2>2. issuance'.plan # Unset => PlanIsBacked(issuance.plan)'
      BY <1>5, BackedIsStable DEF IssuanceInv
    <2>3. \A r \in issuance'.results : ResultIsBacked(r)'
      BY <1>5, BackedIsStable DEF IssuanceInv, ResultIsBacked
    <2> QED BY <2>1, <2>2, <2>3 DEF IssuanceInv
<1> QED BY <1>1, <1>2, <1>3, <1>4, <1>5 DEF IssuanceNext

-----------------------------------------------------------------------------
(* The properties.                                                         *)

\* permissionScopeCovers never covers more than permissionPermits lets through.
LEMMA CoverageHolds == IssuanceInv => CoverageIsSound
<1> SUFFICES ASSUME IssuanceInv, issuance.compared # Unset, NEW granted \in Scope,
                    permissionScopeCovers(granted, issuance.compared),
                    NEW call \in ScopeCall, permissionPermits(call, issuance.compared, "invoke"),
                    NEW ability \in granted.can
             PROVE  permissionPermits(call, granted, ability)
  BY DEF CoverageIsSound
<1> DEFINE requested == issuance.compared
<1>1. IsPermission(granted) /\ IsPermission(requested) /\ IsCall(call)
  BY ScopeAssumption, CallAssumption DEF IssuanceInv, IssuanceShape
<1>2. PICK m \in requested.members : patternMatches(call.member, m)
  BY DEF permissionPermits, targetMatches
<1>3. permissionScopeCovers(granted, [requested EXCEPT !.members = {m}])
  BY <1>1 DEF permissionScopeCovers, IsPermission
<1> QED BY <1>1, <1>2, <1>3, ScopeCoverage

\* Walking the verified chain from its root: the root's issuer is a delegate, and each link
\* makes the issuer of the link below a delegate.
LEMMA AuthorityHolds == IssuanceInv => AuthorityOnlyNarrows
<1> DEFINE inForce == {c \in issuance.signed : c.genuine /\ c.expires >= issuance.now}
           principals == {Authority} \cup {c.issuer : c \in inForce} \cup {c.audience : c \in inForce}
<1> SUFFICES ASSUME IssuanceInv, NEW call \in CapCall,
                    permits(call, issuance.signed, {Authority}, issuance.now),
                    NEW delegates \in SUBSET principals, Authority \in delegates,
                    \A c \in permitting(call, inForce, "delegate") :
                        c.issuer \in delegates => c.audience \in delegates
             PROVE  \E c \in permitting(call, inForce, "invoke") :
                        c.issuer \in delegates /\ c.audience = call.signer
  BY DEF AuthorityOnlyNarrows
<1> DEFINE leaves == permitting(call, issuance.signed, "invoke")
           parents == permitting(call, issuance.signed, "delegate")
<1>1. PICK leaf \in leaves :
            /\ verifiedLink(leaf, call.signer, issuance.now, VerifyDepth, leaves, parents)
            /\ rootIssuer(leaf) \in {Authority}
  BY DEF permits, verifyChain
<1> DEFINE chain == chainOf(leaf)
<1>2. leaf \in issuance.signed /\ leaf.ancestors \in Seq(issuance.signed)
  BY DEF permitting, IssuanceInv, SignedShape
<1>3. /\ chain \in Seq(issuance.signed) /\ Len(chain) \in Nat \ {0} /\ DOMAIN chain = 1..Len(chain)
      /\ chain[1] = leaf /\ chain[Len(chain)].issuer = Authority
    <2>1. chain \in Seq(issuance.signed) /\ Len(chain) = Len(leaf.ancestors) + 1 /\ chain[1] = leaf
      BY <1>2, ChainShape
    <2>2. chain[Len(chain)].issuer = Authority BY <1>1 DEF rootIssuer, Last
    <2> HIDE DEF chain
    <2> QED BY <1>2, <2>1, <2>2
<1>4. \A i \in DOMAIN chain :
        /\ chain[i].audience = (IF i = 1 THEN call.signer ELSE chain[i - 1].issuer)
        /\ ~(chain[i].expires < issuance.now)
        /\ chain[i] \in (IF i = 1 THEN leaves ELSE parents)
        /\ chain[i].genuine
  BY <1>1, VerifiedChain
<1> HIDE DEF chain
<1>5. \A i \in DOMAIN chain : chain[i] \in inForce
    <2>1. issuance.now \in Nat /\ \A i \in DOMAIN chain : chain[i] \in issuance.signed /\ chain[i].expires \in Nat
      BY <1>3 DEF IssuanceInv, IssuanceShape, SignedShape, IsCapability
    <2> QED BY <1>4, <2>1
<1> DEFINE T == {i \in DOMAIN chain : chain[i].issuer \in delegates}
<1>6. T \in SUBSET Nat /\ T # {} BY <1>3
<1>7. PICK n \in T : \A k \in T : n <= k
    <2> HIDE DEF T
    <2> QED BY <1>6, LeastNat
<1>8. n = 1
    <2>1. SUFFICES ASSUME n # 1 PROVE FALSE
      OBVIOUS
    <2>2. n \in DOMAIN chain /\ n - 1 \in DOMAIN chain /\ n - 1 < n /\ chain[n].issuer \in delegates
      BY <1>3, <2>1
    <2>3. chain[n] \in permitting(call, inForce, "delegate") /\ chain[n].audience = chain[n - 1].issuer
      BY <1>4, <1>5, <2>1, <2>2 DEF permitting
    <2>4. n - 1 \in T BY <2>2, <2>3
    <2> QED BY <1>3, <1>7, <2>2, <2>4
<1>9. leaf \in permitting(call, inForce, "invoke") /\ leaf.audience = call.signer /\ leaf.issuer \in delegates
  BY <1>3, <1>4, <1>5, <1>7, <1>8 DEF permitting
<1> QED BY <1>9

\* A new leaf on top of its ancestors is a chain that permits() verifies.
LEMMA IssuedHolds == IssuanceInv => IssuedIsPermitted
<1> SUFFICES ASSUME IssuanceInv, NEW r \in issuance.results, NEW g \in r.plan.grants
             PROVE  /\ accepts(r.plan.accepted, g.root)
                    /\ issuance.now <= g.expires =>
                        \A call \in CapCall :
                            /\ call.signer = r.plan.audience
                            /\ \E p \in g.permissions : permissionPermits(call, p, "invoke")
                            => permits(call, r.caps, {g.root}, issuance.now)
  BY DEF IssuedIsPermitted
<1> DEFINE plan == r.plan
           leaf == leafOf(plan, g)
           chain == chainOf(leaf)
<1>1. GrantIsBacked(plan, g) /\ r.caps = chainsOf(plan)
  BY DEF IssuanceInv, ResultIsBacked, PlanIsBacked
<1>2. SUFFICES ASSUME issuance.now <= g.expires, NEW call \in CapCall, call.signer = plan.audience,
                      NEW p \in g.permissions, permissionPermits(call, p, "invoke")
               PROVE  permits(call, r.caps, {g.root}, issuance.now)
  BY <1>1 DEF GrantIsBacked
<1> DEFINE leaves == permitting(call, r.caps, "invoke")
           parents == permitting(call, r.caps, "delegate")
<1>3. /\ leaf.issuer = plan.issuer /\ leaf.audience = plan.audience /\ leaf.permissions = g.permissions
      /\ leaf.expires = g.expires /\ leaf.genuine /\ leaf.ancestors = g.ancestors
  BY DEF leafOf
<1>4. leaf \in r.caps /\ Range(g.ancestors) \subseteq r.caps BY <1>1 DEF chainsOf
<1>5. leaf \in leaves BY <1>2, <1>3, <1>4 DEF permitting, capabilityPermits
<1> DEFINE S == issuance.signed \cup {leaf}
<1>6. /\ chain \in Seq(S) /\ Len(chain) = Len(g.ancestors) + 1 /\ chain[1] = leaf
      /\ \A i \in DOMAIN g.ancestors : chain[i + 1] = g.ancestors[i]
      /\ \A i \in DOMAIN chain : i # 1 => i - 1 \in DOMAIN g.ancestors
    <2>1. leaf \in S /\ leaf.ancestors \in Seq(S) BY <1>1, <1>3, SeqMonotone DEF GrantIsBacked
    <2> HIDE DEF S, leaf
    <2> QED BY <1>3, <2>1, ChainShape
<1>7. ASSUME NEW i \in DOMAIN g.ancestors
      PROVE  /\ g.ancestors[i] \in parents /\ g.ancestors[i].genuine
             /\ ~(g.ancestors[i].expires < issuance.now)
             /\ g.ancestors[i].audience = (IF i = 1 THEN plan.issuer ELSE g.ancestors[i - 1].issuer)
    <2> DEFINE a == g.ancestors[i]
    <2>1. a \in issuance.signed /\ a \in r.caps BY <1>1, <1>4 DEF GrantIsBacked, Range
    <2>2. IsPermission(p) /\ IsCall(call) /\ IsCapability(a)
      BY <1>1, <2>1, CallAssumption DEF GrantIsBacked, IssuanceInv, SignedShape
    <2>3. PICK m \in p.members : patternMatches(call.member, m)
      BY <1>2 DEF permissionPermits, targetMatches
    <2>4. PICK q \in a.permissions :
                "delegate" \in q.can /\ permissionScopeCovers(q, [p EXCEPT !.members = {m}])
      BY <1>1, <2>3 DEF GrantIsBacked
    <2>5. permissionPermits(call, q, "delegate")
        <3>1. IsPermission(q) BY <2>2, <2>4 DEF IsCapability
        <3> QED BY <1>2, <2>2, <2>3, <2>4, <3>1, ScopeCoverage
    <2>6. a \in parents BY <2>1, <2>4, <2>5 DEF permitting, capabilityPermits
    <2>7. ~(a.expires < issuance.now)
      BY <1>1, <1>2, <2>2 DEF GrantIsBacked, IsCapability, IssuanceInv, IssuanceShape
    <2> QED BY <1>1, <2>6, <2>7 DEF GrantIsBacked
<1>8. verifiedLink(leaf, call.signer, issuance.now, VerifyDepth, leaves, parents)
    <2>1. Len(chain) <= VerifyDepth BY <1>1, <1>6, DepthAssumption DEF GrantIsBacked
    <2>2. ASSUME NEW i \in DOMAIN chain
          PROVE  /\ chain[i].audience = (IF i = 1 THEN call.signer ELSE chain[i - 1].issuer)
                 /\ ~(chain[i].expires < issuance.now)
                 /\ chain[i] \in (IF i = 1 THEN leaves ELSE parents)
                 /\ chain[i].genuine
        <3>1. CASE i = 1
            <4> HIDE DEF leaf, chain, leaves, parents
            <4> QED BY <1>1, <1>2, <1>3, <1>5, <1>6, <3>1 DEF GrantIsBacked, IssuanceInv, IssuanceShape
        <3>2. CASE i # 1
            <4>1. i \in Nat /\ i - 1 \in DOMAIN g.ancestors /\ DOMAIN g.ancestors = 1..Len(g.ancestors)
              BY <1>1, <1>6, <3>2 DEF GrantIsBacked
            <4>2. chain[i] = g.ancestors[i - 1] BY <1>6, <4>1
            <4>3. i = 2 => chain[i - 1] = leaf BY <1>6
            <4>4. ASSUME i # 2
                  PROVE  chain[i - 1] = g.ancestors[i - 2]
                <5>1. i - 1 \in 1..(Len(g.ancestors) + 1) /\ i - 1 # 1 /\ (i - 1) - 1 = i - 2
                  BY <3>2, <4>1, <4>4
                <5> QED BY <1>6, <5>1
            <4> HIDE DEF leaf, chain, leaves, parents
            <4> QED BY <1>3, <1>7, <3>2, <4>1, <4>2, <4>3, <4>4
        <3> QED BY <3>1, <3>2
    <2> QED BY <2>1, <2>2 DEF verifiedLink
<1>9. rootIssuer(leaf) \in {g.root}
    <2>1. rootIssuer(leaf) = chain[Len(g.ancestors) + 1].issuer BY <1>6 DEF rootIssuer, Last
    <2> HIDE DEF leaf, chain
    <2>2. CASE g.ancestors = << >> BY <1>1, <1>3, <1>6, <2>1, <2>2 DEF GrantIsBacked
    <2>3. CASE g.ancestors # << >> BY <1>1, <1>6, <2>1, <2>3 DEF GrantIsBacked, Last
    <2> QED BY <2>2, <2>3
<1> QED BY <1>4, <1>5, <1>8, <1>9 DEF permits, verifyChain

LEMMA LifetimesHold == IssuanceInv => LifetimesNest
BY DEF IssuanceInv, ResultIsBacked, PlanIsBacked, GrantIsBacked, LifetimesNest

\* A link that delegates a permission with members delegates something, so the chains from
\* which issuance selects are among those getDelegationRootIds looks at.
LEMMA RootsHold == IssuanceInv => RootsAreOffered
<1> SUFFICES ASSUME IssuanceInv, NEW o \in IssueOption, NEW p \in o.permissions,
                    NEW c \in candidates(o.issuer, p, issuance.signed, issuance.now)
             PROVE  rootIssuer(c) \in delegationRootIds(o.issuer, issuance.signed, issuance.now)
  BY DEF RootsAreOffered
<1> DEFINE cov == covering(issuance.signed, {p}, issuance.now)
           delegable == {d \in issuance.signed : capabilityFreshAt(d, issuance.now)
                            /\ \E q \in d.permissions : "delegate" \in q.can /\ q.members # {}}
<1>1. IsPermission(p) /\ p.members # {} BY IssueOptionAssumption
<1>2. cov \subseteq delegable
    <2>1. SUFFICES ASSUME NEW d \in cov PROVE d \in delegable
      OBVIOUS
    <2>2. d \in issuance.signed /\ delegationCovers(d, p, issuance.now) BY DEF covering
    <2>3. PICK m \in p.members, q \in d.permissions :
                "delegate" \in q.can /\ permissionScopeCovers(q, [p EXCEPT !.members = {m}])
      BY <1>1, <2>2 DEF delegationCovers
    <2>4. q.members # {} BY <1>1, <2>3 DEF permissionScopeCovers, IsPermission
    <2> QED BY <2>2, <2>3, <2>4 DEF delegationCovers
<1>3. c \in cov /\ verifiedLink(c, o.issuer, issuance.now, IssueDepth, cov, cov) BY DEF candidates
<1>4. verifiedLink(c, o.issuer, issuance.now, IssueDepth, delegable, delegable)
    <2> HIDE DEF cov, delegable
    <2> QED BY <1>2, <1>3 DEF verifiedLink
<1> QED BY <1>2, <1>3, <1>4 DEF delegationRootIds

\* Capabilities only ever pass on authority, and what is issued is of use: all of IssuanceIsSound
\* (coverage against permission, narrowing along chains, usable results, nested lifetimes and
\* offered roots), for every number of principals, permissions, calls and capabilities.
THEOREM IssuanceSoundness == IssuanceSpec => []IssuanceIsSound
<1>1. IssuanceInv => IssuanceIsSound
  BY CoverageHolds, AuthorityHolds, IssuedHolds, LifetimesHold, RootsHold DEF IssuanceIsSound
<1> QED BY IssuanceInvInit, IssuanceInvStep, <1>1, PTL DEF IssuanceSpec
-----------------------------------------------------------------------------
(* The reconnect loop of a participant (HubReconnect).                     *)

\* An open handle is one that the loop can close; a capability that is cached or about to be
\* used is on disk.
ReconnectInv ==
    /\ ReconnectTypeOK /\ OneHandle /\ CapSurvives
    /\ reconnect.handle = "open" => reconnect.current
    /\ reconnect.cachedCap \/ loopAt("reregister") => reconnect.disk

LEMMA ReconnectInitial == ReconnectInit => ReconnectInv
<1> SUFFICES ASSUME ReconnectInit PROVE ReconnectInv
  OBVIOUS
<1>1. InitialRetry \in InitialRetry..MaxRetry BY RetryAssumption
<1> QED
  BY <1>1 DEF ReconnectInit, ReconnectInv, ReconnectTypeOK, ReconnectType, Trying, OneHandle, CapSurvives, loopAt

LEMMA ReconnectHolds == ReconnectInv /\ [ReconnectNext]_reconnect => ReconnectInv'
<1> SUFFICES ASSUME ReconnectInv, [ReconnectNext]_reconnect PROVE ReconnectInv'
  OBVIOUS
<1>0. /\ InitialRetry \in InitialRetry..MaxRetry
      /\ (IF 2 * reconnect.backoff < MaxRetry THEN 2 * reconnect.backoff ELSE MaxRetry) \in InitialRetry..MaxRetry
  <2>1. reconnect.backoff \in InitialRetry..MaxRetry
    BY DEF ReconnectInv, ReconnectTypeOK, ReconnectType
  <2> QED BY <2>1, RetryAssumption
<1> USE DEF ReconnectInv, ReconnectTypeOK, ReconnectType, Trying, OneHandle, CapSurvives, loopAt, answeredAt, handleClosed
<1>1. CASE ReconnectDials BY <1>1 DEF ReconnectDials
<1>2. CASE HubConnected BY <1>2 DEF HubConnected
<1>3. CASE ReconnectCaught BY <1>3 DEF ReconnectCaught
<1>4. CASE SetupDone BY <1>0, <1>4 DEF SetupDone
<1>5. CASE HandleClosedSeen BY <1>5 DEF HandleClosedSeen
<1>6. CASE ReconnectDelayOver BY <1>0, <1>6 DEF ReconnectDelayOver
<1>7. CASE PrefixRegistered \/ PermissionRequired BY <1>7 DEF PrefixRegistered, PermissionRequired
<1>8. CASE CapabilityIssued \/ CapabilityPersisted \/ Reregistered
  BY <1>8 DEF CapabilityIssued, CapabilityPersisted, Reregistered
<1>9. CASE HandleCloses BY <1>9 DEF HandleCloses
<1>10. CASE ReconnectStop BY <1>10 DEF ReconnectStop
<1>11. CASE UNCHANGED reconnect BY <1>11
<1> QED BY <1>1, <1>2, <1>3, <1>4, <1>5, <1>6, <1>7, <1>8, <1>9, <1>10, <1>11 DEF ReconnectNext, ReconnectLoop

\* However attempts fail and wherever stop() falls, a redial leaves no handle open behind it,
\* and a capability that admitted the participant is cached and on disk (node/hubReconnect.ts).
THEOREM ReconnectTidy == ReconnectSpec => [](OneHandle /\ CapSurvives)
<1>1. ReconnectInv => OneHandle /\ CapSurvives BY DEF ReconnectInv
<1> QED BY <1>1, ReconnectInitial, ReconnectHolds, PTL DEF ReconnectSpec

-----------------------------------------------------------------------------
(* A configured participant (ConfiguredParticipants).                      *)

\* What the loop has published is what dispose() can reach: the attachment while it is being
\* registered, the connection while it is served.  Only a stopped participant has an
\* attachment that routes although it was disposed (the end of an attempt that dispose() fell
\* into).
ParticipantInv ==
    /\ ParticipantTypeOK /\ AttemptCleanedUp /\ DisposedClosesTransport
    /\ participantAt("opened") => ~participant.linked /\ ~participant.routed
    /\ participant.pc \in {"registering", "registered"} =>
        /\ participant.linked \/ participant.routed => ~participant.disposed
        /\ participant.disposed => participant.stopped
    /\ participant.pc \in {"claimed", "serving"} => (participant.linked \/ participant.routed => ~participant.disposed \/ participant.stopped)
    /\ participantAt("serving") /\ ~participant.stopped => participant.current

LEMMA ParticipantInitial == ParticipantInit => ParticipantInv
<1> SUFFICES ASSUME ParticipantInit PROVE ParticipantInv
  OBVIOUS
<1>1. InitialDelay \in InitialDelay..MaxDelay /\ 0 \in 0..MaxDelay BY DelayAssumption
<1> QED
  BY <1>1 DEF ParticipantInit, ParticipantInv, ParticipantTypeOK, ParticipantType, ParticipantPlace, AttemptCleanedUp,
              DisposedClosesTransport, participantAt

LEMMA ParticipantHolds == ParticipantInv /\ [ParticipantNext]_participant => ParticipantInv'
<1> SUFFICES ASSUME ParticipantInv, [ParticipantNext]_participant PROVE ParticipantInv'
  OBVIOUS
<1>0. /\ InitialDelay \in InitialDelay..MaxDelay /\ InitialDelay \in 0..MaxDelay
      /\ participant.backoff \in 0..MaxDelay
      /\ (IF 2 * participant.backoff < MaxDelay THEN 2 * participant.backoff ELSE MaxDelay) \in InitialDelay..MaxDelay
  <2>1. participant.backoff \in InitialDelay..MaxDelay
    BY DEF ParticipantInv, ParticipantTypeOK, ParticipantType
  <2> QED BY <2>1, DelayAssumption
<1> USE DEF ParticipantInv, ParticipantTypeOK, ParticipantType, ParticipantPlace, AttemptCleanedUp, DisposedClosesTransport, participantAt,
            linkDetached, participantReleased, attemptFailed
<1>1. CASE ParticipantDials \/ ParticipantDelayOver
  BY <1>1 DEF ParticipantDials, ParticipantDelayOver
<1>2. CASE ParticipantOpenFails BY <1>0, <1>2 DEF ParticipantOpenFails
<1>3. CASE ParticipantOpens BY <1>3 DEF ParticipantOpens
<1>4. CASE ParticipantAttaches
  <2>1. CASE participant.stopped BY <1>0, <1>4, <2>1 DEF ParticipantAttaches
  <2>2. CASE ~participant.stopped /\ participant.registers BY <1>4, <2>2 DEF ParticipantAttaches
  <2>3. CASE ~participant.stopped /\ ~participant.registers BY <1>4, <2>3 DEF ParticipantAttaches
  <2> QED BY <2>1, <2>2, <2>3
<1>5. CASE ParticipantRegistered BY <1>5 DEF ParticipantRegistered
<1>6. CASE ParticipantAttemptFails BY <1>0, <1>6 DEF ParticipantAttemptFails
<1>7. CASE ParticipantClaims BY <1>7 DEF ParticipantClaims
<1>8. CASE ParticipantConnected BY <1>0, <1>8 DEF ParticipantConnected
<1>9. CASE ParticipantDisconnected
  <2>1. CASE participant.stopped BY <1>0, <1>9, <2>1 DEF ParticipantDisconnected
  <2>2. CASE ~participant.stopped
    <3>1. (participant.linked /\ participant.disposed) = FALSE /\ (participant.routed /\ participant.disposed) = FALSE
      BY <1>9, <2>2 DEF ParticipantDisconnected
    <3>2. participant' = [participant EXCEPT !.linked = FALSE, !.routed = FALSE, !.disposed = TRUE, !.transport = "closed",
                             !.current = FALSE, !.delay = InitialDelay, !.pc = "loop"]
      BY <1>9, <2>2, <3>1 DEF ParticipantDisconnected
    <3> QED BY <1>0, <2>2, <3>2
  <2> QED BY <2>1, <2>2
<1>10. CASE ParticipantTransportCloses BY <1>10 DEF ParticipantTransportCloses
<1>11. CASE ParticipantDispose
  <2>1. CASE participant.connecting \/ participant.current
    BY <1>11, <2>1, ZenonT(60) DEF ParticipantDispose
  <2>2. CASE ~(participant.connecting \/ participant.current) BY <1>11, <2>2 DEF ParticipantDispose
  <2> QED BY <2>1, <2>2
<1>12. CASE UNCHANGED participant BY <1>12
<1> QED
  BY <1>1, <1>2, <1>3, <1>4, <1>5, <1>6, <1>7, <1>8, <1>9, <1>10, <1>11, <1>12 DEF ParticipantNext, ParticipantLoop

\* Every step of the participant is a step of the abstract loop or invisible to it.
LEMMA ParticipantRefines ==
    ParticipantInv /\ [ParticipantNext]_participant => [ParticipantLoopView!LoopNext]_(ParticipantLoopView!loopVars)
<1> SUFFICES ASSUME ParticipantInv, [ParticipantNext]_participant
             PROVE  [ParticipantLoopView!LoopNext]_(ParticipantLoopView!loopVars)
  OBVIOUS
<1> USE DEF ParticipantInv, ParticipantTypeOK, ParticipantType, ParticipantPlace, AttemptCleanedUp, participantAt,
            linkDetached, participantReleased, attemptFailed, ParticipantLoopView!LoopNext, ParticipantLoopView!loopVars
<1>1. CASE ParticipantDials \/ ParticipantDelayOver \/ ParticipantOpenFails \/ ParticipantOpens
  BY <1>1 DEF ParticipantDials, ParticipantDelayOver, ParticipantOpenFails, ParticipantOpens, ParticipantLoopView!End
<1>2. CASE ParticipantAttaches \/ ParticipantRegistered
  BY <1>2 DEF ParticipantAttaches, ParticipantRegistered, ParticipantLoopView!End
<1>3. CASE ParticipantAttemptFails \/ ParticipantClaims
  BY <1>3 DEF ParticipantAttemptFails, ParticipantClaims, ParticipantLoopView!End
<1>4. CASE ParticipantConnected
  BY <1>4 DEF ParticipantConnected, ParticipantLoopView!Connect, ParticipantLoopView!End
<1>5. CASE ParticipantDisconnected BY <1>5 DEF ParticipantDisconnected, ParticipantLoopView!End
<1>6. CASE ParticipantTransportCloses
  BY <1>6 DEF ParticipantTransportCloses, ParticipantLoopView!Lose
<1>7. CASE ParticipantDispose BY <1>7 DEF ParticipantDispose, ParticipantLoopView!LoopStop
<1>8. CASE UNCHANGED participant BY <1>8
<1> QED BY <1>1, <1>2, <1>3, <1>4, <1>5, <1>6, <1>7, <1>8 DEF ParticipantNext, ParticipantLoop

\* An attempt leaves nothing behind, a disposed participant holds no transport, and, seen as
\* a connection loop, a participant never connects once it is disposed, wherever between its
\* awaits dispose() falls (configuredParticipants.ts).
THEOREM ParticipantRefinement ==
    ParticipantSpec => [](AttemptCleanedUp /\ DisposedClosesTransport) /\ ParticipantLoopView!LoopSafe
<1>1. ParticipantInit => ParticipantLoopView!LoopInit
  BY DEF ParticipantInit, ParticipantLoopView!LoopInit, participantAt
<1>2. ParticipantInv => AttemptCleanedUp /\ DisposedClosesTransport BY DEF ParticipantInv
<1> QED
  BY <1>1, <1>2, ParticipantInitial, ParticipantHolds, ParticipantRefines, PTL DEF ParticipantSpec, ParticipantLoopView!LoopSafe

-----------------------------------------------------------------------------
(* The search for a peer (PeerDiscovery).                                  *)

\* An attempt belongs to an attachment there was, and one that is settled has found the
\* peer or left a timer.
PeerInv ==
    /\ PeerTypeOK /\ SearchGoesOn /\ FormerPeerIsSilent
    /\ peer.now <= peer.made
    /\ \A s \in PeerState : peer.attempt[s] # "none" => s <= peer.made
    /\ \A s \in PeerState : peer.attempt[s] = "settled" /\ peer.now = s => peer.info[s] \/ peer.timer[s]

LEMMA PeerInitial == PeerInit => PeerInv
<1> SUFFICES ASSUME PeerInit PROVE PeerInv
  OBVIOUS
<1>1. PeerDelayMin \in PeerDelayMin..PeerDelayMax BY PeerAssumption
<1> QED BY <1>1 DEF PeerInit, PeerInv, PeerTypeOK, PeerType, SearchGoesOn, FormerPeerIsSilent

LEMMA PeerHolds == PeerInv /\ [PeerNext]_peer => PeerInv'
<1> SUFFICES ASSUME PeerInv, [PeerNext]_peer PROVE PeerInv'
  OBVIOUS
<1> USE PeerAssumption DEF PeerInv, PeerTypeOK, PeerType, SearchGoesOn, FormerPeerIsSilent, peerQuiet, PeerState
<1>1. CASE PeerAttach
  <2> DEFINE n == peer.made + 1
  <2>1. n \in PeerState /\ peer.now = 0 /\ peer.made \in Nat BY <1>1 DEF PeerAttach
  <2>2. peer.attempt[n] = "none" /\ \A s \in PeerState : ~peer.timer[s] BY <2>1
  <2>3. peer' = [peer EXCEPT !.notice = 0, !.now = n, !.made = n, !.timer = [peer.timer EXCEPT ![n] = TRUE]]
    BY <1>1 DEF PeerAttach
  <2>4. [peer.timer EXCEPT ![n] = TRUE] \in [PeerState -> BOOLEAN] OBVIOUS
  <2> HIDE DEF n
  <2>5. /\ peer'.now = n /\ peer'.made = n /\ peer'.notice = 0 /\ peer'.timer = [peer.timer EXCEPT ![n] = TRUE]
        /\ peer'.attempt = peer.attempt /\ peer'.info = peer.info
    BY <2>3
  <2>6. PeerTypeOK' BY <2>1, <2>3, <2>4
  <2>7. SearchGoesOn' /\ FormerPeerIsSilent' BY <2>1, <2>2, <2>5
  <2>8. \A s \in PeerState : s <= peer.made => s <= n BY <2>1 DEF n
  <2> QED BY <2>1, <2>2, <2>5, <2>6, <2>7, <2>8
<1>2. CASE PeerDetach
  <2> DEFINE t == [peer.timer EXCEPT ![peer.now] = FALSE]
  <2>1. peer.now \in PeerState /\ peer' = [peer EXCEPT !.notice = 0, !.now = 0, !.timer = t]
    BY <1>2 DEF PeerDetach
  <2>2. t \in [PeerState -> BOOLEAN] /\ \A s \in PeerState : ~t[s] BY <2>1
  <2> HIDE DEF t
  <2>3. /\ peer'.now = 0 /\ peer'.made = peer.made /\ peer'.notice = 0 /\ peer'.timer = t
        /\ peer'.attempt = peer.attempt /\ peer'.info = peer.info
    BY <2>1
  <2>4. PeerTypeOK' BY <2>1, <2>2
  <2>5. SearchGoesOn' /\ FormerPeerIsSilent' BY <2>2, <2>3
  <2>6. 0 <= peer.made /\ \A s \in PeerState : s # 0 OBVIOUS
  <2> QED BY <2>3, <2>4, <2>5, <2>6
<1>3. CASE Identify BY <1>3 DEF Identify, identifyBegun
<1>4. ASSUME NEW s \in PeerState, PeerTimerFires(s), peerReacted PROVE PeerInv'
  <2> DEFINE t == [peer.timer EXCEPT ![s] = FALSE]
             a == [peer.attempt EXCEPT ![s] = "queued"]
  <2>1. peer.now = s BY <1>4 DEF PeerTimerFires
  <2>2. t \in [PeerState -> BOOLEAN] /\ (\A q \in PeerState : ~t[q]) /\ [t EXCEPT ![s] = FALSE] = t
    BY <2>1
  <2>3. CASE peer.info[s] \/ peer.attempt[s] # "none"
    <3>1. peer' = [peer EXCEPT !.notice = 0, !.timer = t]
      BY <1>4, <2>1, <2>3 DEF PeerTimerFires, identifyBegun
    <3> HIDE DEF t
    <3>2. /\ peer'.now = peer.now /\ peer'.made = peer.made /\ peer'.notice = 0 /\ peer'.timer = t
          /\ peer'.attempt = peer.attempt /\ peer'.info = peer.info
      BY <3>1
    <3>3. PeerTypeOK' BY <2>2, <3>1
    <3>4. \A q \in PeerState : peer.attempt[q] # "settled" BY <1>4 DEF peerReacted
    <3>5. SearchGoesOn' /\ FormerPeerIsSilent' BY <2>1, <2>2, <2>3, <3>2
    <3>6. peer'.now <= peer'.made /\ \A q \in PeerState : peer'.attempt[q] # "none" => q <= peer'.made
      BY <3>2
    <3>7. \A q \in PeerState : peer'.attempt[q] # "settled" BY <3>2, <3>4
    <3> HIDE DEF PeerTypeOK, SearchGoesOn, FormerPeerIsSilent
    <3> QED BY <3>3, <3>5, <3>6, <3>7, Zenon
  <2>4. CASE ~peer.info[s] /\ peer.attempt[s] = "none"
    <3>1. peer' = [peer EXCEPT !.notice = 0, !.timer = t, !.attempt = a]
      <4> DEFINE p == [peer EXCEPT !.notice = 0, !.timer = t]
      <4>1. p.info = peer.info /\ p.attempt = peer.attempt /\ p.timer = t OBVIOUS
      <4>2. peer' = identifyBegun(p, s) BY <1>4, <2>1 DEF PeerTimerFires
      <4>3. identifyBegun(p, s) = [p EXCEPT !.attempt = a, !.timer = [t EXCEPT ![s] = FALSE]]
        <5> HIDE DEF p, t
        <5> QED BY <2>4, <4>1 DEF identifyBegun
      <4>4. identifyBegun(p, s) = [p EXCEPT !.attempt = a, !.timer = t] BY <2>2, <4>3
      <4> HIDE DEF t, a
      <4> QED BY <4>2, <4>4
    <3>2. a \in [PeerState -> {"none", "queued", "asking", "failing", "settled"}] /\ a[s] = "queued"
          /\ \A q \in PeerState : q # s => a[q] = peer.attempt[q]
      OBVIOUS
    <3> HIDE DEF t, a
    <3> QED BY <2>1, <2>2, <3>1, <3>2
  <2> QED BY <2>3, <2>4
<1>5. ASSUME NEW s \in PeerState, AttemptDispatched(s) PROVE PeerInv'
  BY <1>5 DEF AttemptDispatched
<1>6. ASSUME NEW s \in PeerState, AttemptAnswered(s) PROVE PeerInv'
  BY <1>6 DEF AttemptAnswered
<1>7. ASSUME NEW s \in PeerState, NEW absent \in BOOLEAN, AttemptRefused(s, absent) PROVE PeerInv'
  BY <1>7 DEF AttemptRefused
<1>8. ASSUME NEW s \in PeerState, AttemptFailed(s) PROVE PeerInv'
  <2>1. (IF 2 * peer.delay[s] < PeerDelayMax THEN 2 * peer.delay[s] ELSE PeerDelayMax) \in PeerDelayMin..PeerDelayMax
    <3>1. peer.delay[s] \in PeerDelayMin..PeerDelayMax OBVIOUS
    <3> QED BY <3>1
  <2> QED BY <1>8, <2>1 DEF AttemptFailed
<1>9. ASSUME NEW s \in PeerState, AttemptOver(s) PROVE PeerInv'
  BY <1>9 DEF AttemptOver
<1>10. CASE UNCHANGED peer BY <1>10
<1> QED
  BY <1>1, <1>2, <1>3, <1>4, <1>5, <1>6, <1>7, <1>8, <1>9, <1>10, ZenonT(60) DEF PeerNext, PeerReactions, PeerEvents, PeerTimer

\* The search for the peer of an attached link goes on until the peer is known, and what a
\* former attachment left behind, a timer or a late answer, stays without effect
\* (routing/peerDiscovery.ts).
THEOREM PeerSearchKept == PeerSpec => [](SearchGoesOn /\ FormerPeerIsSilent)
<1>1. PeerInv => SearchGoesOn /\ FormerPeerIsSilent BY DEF PeerInv
<1> QED BY <1>1, PeerInitial, PeerHolds, PTL DEF PeerSpec

-----------------------------------------------------------------------------
(* The acceptor (ConnectionAcceptor).                                      *)

AcceptorType ==
    [server : {"socket", "websocket"}, token : {"live", "expired", "redeemed"}, disposed : BOOLEAN,
     pc : [Conn -> {"new", "greeting", "checking", "attesting", "accepted", "dropped"}],
     open : SUBSET Conn, live : SUBSET Conn, hears : SUBSET Conn, linked : SUBSET Conn, bound : SUBSET Conn]

\* A live token has bound nobody, and every link will hear of its close.
AcceptorInv ==
    /\ acceptor \in AcceptorType
    /\ acceptor.token = "live" => acceptor.bound = {}
    /\ \A c, d \in acceptor.bound : c = d
    /\ acceptor.linked \subseteq acceptor.hears
    /\ DisposedUnlinks

LEMMA AcceptorInitial == AcceptorInit => AcceptorInv
BY DEF AcceptorInit, AcceptorInv, AcceptorType, DisposedUnlinks

LEMMA AcceptorHolds == AcceptorInv /\ [AcceptorNext]_acceptor => AcceptorInv'
<1> SUFFICES ASSUME AcceptorInv, [AcceptorNext]_acceptor PROVE AcceptorInv'
  OBVIOUS
<1> USE DEF AcceptorInv, AcceptorType, DisposedUnlinks, connDropped, tokenRedeemed, listensForClose
<1>1. ASSUME NEW c \in Conn, Connects(c) PROVE AcceptorInv'
  BY <1>1 DEF Connects
<1>2. ASSUME NEW c \in Conn, Greets(c) PROVE AcceptorInv'
  BY <1>2 DEF Greets
<1>3. ASSUME NEW c \in Conn, SocketCloses(c) PROVE AcceptorInv'
  BY <1>3 DEF SocketCloses
<1>4. ASSUME NEW c \in Conn, AcceptFails(c) PROVE AcceptorInv'
  <2>1. CASE acceptor' = connDropped(acceptor, c) BY <2>1
  <2>2. CASE acceptor.token = "live" /\ acceptor' = connDropped(tokenRedeemed(acceptor), c) BY <2>2
  <2> QED BY <1>4, <2>1, <2>2 DEF AcceptFails
<1>5. ASSUME NEW c \in Conn, HandshakeFails(c) PROVE AcceptorInv'
  BY <1>5 DEF HandshakeFails
<1>6. ASSUME NEW c \in Conn, TokenChecked(c) PROVE AcceptorInv'
  BY <1>6 DEF TokenChecked
<1>7. ASSUME NEW c \in Conn, Accepts(c) PROVE AcceptorInv'
  <2>1. CASE acceptor' = connDropped(acceptor, c) BY <2>1
  <2>2. CASE ~acceptor.disposed /\ acceptor.token = "live"
    <3>1. acceptor' = [acceptor EXCEPT !.token = "redeemed", !.pc = [acceptor.pc EXCEPT ![c] = "accepted"],
                          !.linked = @ \cup {c}, !.bound = {c}, !.hears = @ \cup {c}]
      BY <1>7, <2>2 DEF Accepts
    <3> QED BY <2>2, <3>1
  <2> QED BY <1>7, <2>1, <2>2 DEF Accepts
<1>8. ASSUME NEW c \in Conn, CloseSeen(c) PROVE AcceptorInv'
  BY <1>8 DEF CloseSeen
<1>9. CASE AcceptorDispose \/ TokenExpires BY <1>9, ZenonT(60) DEF AcceptorDispose, TokenExpires
<1>10. CASE UNCHANGED acceptor BY <1>10
<1> QED BY <1>1, <1>2, <1>3, <1>4, <1>5, <1>6, <1>7, <1>8, <1>9, <1>10 DEF AcceptorNext, AcceptorStep

\* A single-use token binds one connection although several are past the check of the
\* handshake with it; a link whose socket closed, also while it was attested, is about to be
\* taken out; and a disposed acceptor has none (hubConnectionAcceptor.ts, tokenIdentityStore.ts).
THEOREM AcceptorTracked == AcceptorSpec => [](TokenBindsOnce /\ ClosedIsUnlinked /\ DisposedUnlinks)
<1>1. ASSUME AcceptorInv PROVE TokenBindsOnce
  <2>1. CASE acceptor.bound = {} BY <2>1, FS_EmptySet DEF TokenBindsOnce
  <2>2. ASSUME NEW c \in acceptor.bound PROVE TokenBindsOnce
    <3>1. acceptor.bound = {c} BY <1>1 DEF AcceptorInv
    <3> QED BY <3>1, FS_Singleton DEF TokenBindsOnce
  <2> QED BY <2>1, <2>2
<1>2. AcceptorInv => ClosedIsUnlinked /\ DisposedUnlinks BY DEF AcceptorInv, ClosedIsUnlinked
<1> QED BY <1>1, <1>2, AcceptorInitial, AcceptorHolds, PTL DEF AcceptorSpec

-----------------------------------------------------------------------------
(* The supervisor of a managed service process (ServiceSupervisor).        *)

ServiceRequest == {"sync", "restart", "dispose", "respawn"} \X Nat

ServiceType ==
    [enabled : BOOLEAN, policy : {"always", "on-failure", "never"}, readiness : {"connected", "spawned"},
     disposed : BOOLEAN, state : {"stopped", "stopping", "disabled", "failed", "starting", "running", "backoff"},
     process : Nat, made : Nat, alive : SUBSET (Nat \ {0}), killed : SUBSET Nat, abandoned : SUBSET Nat,
     socket : BOOLEAN, connected : BOOLEAN, backoff : Nat, ticking : BOOLEAN, stopping : BOOLEAN,
     queue : Seq(ServiceRequest), awaiting : {"nothing", "socket", "spawn", "exit", "kill"}, running : Nat, requests : Nat]

\* An operation of one of these kinds is in the queue, from the n-th on.
Waiting(q, kinds, n) == \E i \in n..Len(q) : q[i][1] \in kinds

RespawnDue(q, timer) == \E i \in 1..Len(q) : q[i] = <<"respawn", timer>>

\* The operation at the head of the queue.
AtHead(s, kinds) == s.queue # << >> /\ s.queue[1][1] \in kinds

heldOf(s) == s.alive \ s.abandoned

\* Nothing runs and nothing is on its way to.
AtRest(s) == s.awaiting = "nothing" /\ s.process = 0 /\ ~s.socket /\ s.backoff = 0

\* The operation at the head ends with a process, unless it fails.
Starts(s) ==
    \/ AtHead(s, {"sync"}) /\ s.awaiting \in {"nothing", "socket", "spawn"}
    \/ AtHead(s, {"restart"})
    \/ AtHead(s, {"respawn"}) /\ s.awaiting \in {"socket", "spawn"}

\* What an operation is doing, and which process there is then.
ProcessInv(s) ==
    /\ s.awaiting # "nothing" => s.queue # << >>
    /\ s.stopping <=> s.awaiting \in {"exit", "kill"}
    /\ s.stopping => /\ heldOf(s) \subseteq {s.running} /\ s.process \in {0, s.running} /\ s.backoff = 0
                     /\ AtHead(s, {"sync", "restart", "dispose"})
    /\ ~s.stopping => heldOf(s) \subseteq {s.process}
    /\ s.awaiting \in {"socket", "spawn"} => s.process = 0 /\ s.backoff = 0 /\ AtHead(s, {"sync", "restart", "respawn"})
    /\ s.ticking => s.backoff # 0
    /\ s.backoff # 0 => s.process = 0
    /\ \A i \in 1..Len(s.queue) : /\ s.queue[i][1] = "respawn" => s.queue[i][2] # 0
                                  /\ s.queue[i][1] = "dispose" => s.disposed

\* Whatever the service is not yet, an operation or a timer is there to make it.
DesiredInv(s) ==
    /\ s.disposed => Waiting(s.queue, {"dispose"}, 1) \/ AtRest(s)
    /\ ~s.disposed /\ ~s.enabled =>
         \/ Waiting(s.queue, {"sync"}, 2)
         \/ AtHead(s, {"sync"}) /\ s.awaiting \notin {"socket", "spawn"}
         \/ AtRest(s)
    /\ ~s.disposed /\ s.backoff # 0 => s.ticking \/ RespawnDue(s.queue, s.backoff)
    /\ ~s.disposed /\ s.enabled /\ AtHead(s, {"sync"}) /\ s.stopping => Waiting(s.queue, {"sync"}, 2)
    /\ ~s.disposed /\ s.enabled /\ s.policy = "always" =>
         s.state = "failed" \/ s.process # 0 \/ s.backoff # 0 \/ Waiting(s.queue, {"sync", "restart"}, 2) \/ Starts(s)

ServiceOK(s) == s \in ServiceType /\ ProcessInv(s) /\ DesiredInv(s)

\* A timer is named by a process that has exited; one whose operation waits has fired.
TimersOK(s) ==
    /\ s.alive \subseteq 1..s.made
    /\ s.backoff # 0 => s.backoff \notin s.alive /\ s.backoff <= s.made
    /\ \A i \in 1..Len(s.queue) : s.queue[i][1] = "respawn" =>
         /\ s.queue[i][2] # 0 /\ s.queue[i][2] <= s.made /\ s.queue[i][2] \notin s.alive
         /\ ~(s.ticking /\ s.backoff = s.queue[i][2])

\* The queue without its head, and with one more operation.
LEMMA QueueMoves ==
    ASSUME NEW q \in Seq(ServiceRequest)
    PROVE  /\ Len(q) \in Nat /\ (q # << >> <=> Len(q) > 0)
           /\ q # << >> =>
                /\ Tail(q) \in Seq(ServiceRequest) /\ Head(q) = q[1] /\ q[1] \in ServiceRequest
                /\ \A kinds : Waiting(Tail(q), kinds, 1) <=> Waiting(q, kinds, 2)
                /\ \A kinds : Waiting(q, kinds, 1) <=> q[1][1] \in kinds \/ Waiting(q, kinds, 2)
                /\ \A timer : RespawnDue(q, timer) <=> q[1] = <<"respawn", timer>> \/ RespawnDue(Tail(q), timer)
                /\ Tail(q) # << >> => \A kinds : Tail(q)[1][1] \in kinds => Waiting(q, kinds, 2)
                /\ \A kinds : Waiting(q, kinds, 2) => Tail(q) # << >> /\ (Tail(q)[1][1] \in kinds \/ Waiting(Tail(q), kinds, 2))
                /\ \A i \in 1..Len(Tail(q)) : \E j \in 1..Len(q) : Tail(q)[i] = q[j]
           /\ q = << >> => \A kinds : ~Waiting(q, kinds, 1) /\ ~Waiting(q, kinds, 2)
<1>1. Len(q) \in Nat /\ (q # << >> <=> Len(q) > 0) /\ \A i \in 1..Len(q) : q[i] \in ServiceRequest
  OBVIOUS
<1>2. CASE q = << >> BY <1>1, <1>2 DEF Waiting
<1>3. CASE q # << >>
  <2>1. /\ Tail(q) \in Seq(ServiceRequest) /\ Head(q) = q[1] /\ Len(Tail(q)) = Len(q) - 1 /\ Len(Tail(q)) \in Nat
        /\ \A i \in 1..Len(Tail(q)) : Tail(q)[i] = q[i + 1]
    BY <1>3
  <2>2. \A i \in 1..Len(Tail(q)) : i + 1 \in 2..Len(q) /\ Tail(q)[i] = q[i + 1] BY <1>1, <2>1
  <2>3. \A j \in 2..Len(q) : j - 1 \in 1..Len(Tail(q)) /\ Tail(q)[j - 1] = q[j]
    <3>1. ASSUME NEW j \in 2..Len(q) PROVE j - 1 \in 1..Len(Tail(q)) /\ (j - 1) + 1 = j
      BY <1>1, <2>1
    <3> QED BY <2>1, <3>1
  <2>4. \A j \in 1..Len(q) : j = 1 \/ j \in 2..Len(q) BY <1>1
  <2>5. 1 \in 1..Len(q) /\ q[1] \in ServiceRequest /\ \A j \in 2..Len(q) : j \in 1..Len(q)
    BY <1>1, <1>3
  <2>6. \A kinds : Waiting(Tail(q), kinds, 1) <=> Waiting(q, kinds, 2) BY <2>2, <2>3 DEF Waiting
  <2>7. \A kinds : Waiting(q, kinds, 1) <=> q[1][1] \in kinds \/ Waiting(q, kinds, 2)
    BY <2>4, <2>5 DEF Waiting
  <2>8. \A timer : RespawnDue(q, timer) <=> q[1] = <<"respawn", timer>> \/ RespawnDue(Tail(q), timer)
    BY <2>2, <2>3, <2>4, <2>5 DEF RespawnDue
  <2>9. Tail(q) # << >> => 1 \in 1..Len(Tail(q)) BY <2>1
  <2>10. Tail(q) # << >> => \A kinds : Tail(q)[1][1] \in kinds => Waiting(q, kinds, 2)
    BY <2>6, <2>9 DEF Waiting
  <2>11. \A i \in 1..Len(Tail(q)) : Tail(q) # << >> /\ (i = 1 \/ i \in 2..Len(Tail(q)))
    <3> DEFINE t == Tail(q)
    <3>0. Len(<< >>) = 0 OBVIOUS
    <3>2. Len(t) \in Nat BY <2>1
    <3> HIDE DEF t
    <3>3. \A i \in 1..Len(t) : t # << >> /\ (i = 1 \/ i \in 2..Len(t)) BY <3>0, <3>2
    <3> QED BY <3>3 DEF t
  <2>12. \A kinds : Waiting(q, kinds, 2) => Tail(q) # << >> /\ (Tail(q)[1][1] \in kinds \/ Waiting(Tail(q), kinds, 2))
    <3>1. ASSUME NEW kinds, Waiting(Tail(q), kinds, 1)
          PROVE  Tail(q) # << >> /\ (Tail(q)[1][1] \in kinds \/ Waiting(Tail(q), kinds, 2))
      BY <2>11, <3>1 DEF Waiting
    <3> QED BY <2>6, <3>1
  <2>13. \A i \in 1..Len(Tail(q)) : \E j \in 1..Len(q) : Tail(q)[i] = q[j] BY <2>2, <2>5
  <2> QED BY <1>1, <1>3, <2>1, <2>5, <2>6, <2>7, <2>8, <2>10, <2>12, <2>13
<1> QED BY <1>2, <1>3

LEMMA QueueGrows ==
    ASSUME NEW q \in Seq(ServiceRequest), NEW o \in ServiceRequest
    PROVE  /\ Append(q, o) \in Seq(ServiceRequest) /\ Append(q, o) # << >>
           /\ q # << >> => Append(q, o)[1] = q[1]
           /\ q = << >> => Append(q, o)[1] = o
           /\ \A i \in 1..Len(Append(q, o)) : Append(q, o)[i] = o \/ \E j \in 1..Len(q) : Append(q, o)[i] = q[j]
           /\ \A kinds : \A n \in {1, 2} : Waiting(q, kinds, n) => Waiting(Append(q, o), kinds, n)
           /\ \A kinds : o[1] \in kinds => Waiting(Append(q, o), kinds, 1)
           /\ \A kinds : o[1] \in kinds /\ q # << >> => Waiting(Append(q, o), kinds, 2)
           /\ \A timer : RespawnDue(q, timer) => RespawnDue(Append(q, o), timer)
           /\ RespawnDue(Append(q, o), o[2]) \/ o[1] # "respawn"
<1> DEFINE r == Append(q, o)
<1>1. /\ r \in Seq(ServiceRequest) /\ Len(q) \in Nat /\ Len(r) = Len(q) + 1
      /\ \A i \in 1..Len(q) : r[i] = q[i]
      /\ r[Len(q) + 1] = o
  OBVIOUS
<1>2. r # << >> BY <1>1
<1> HIDE DEF r
<1>3. /\ \A i \in 1..Len(r) : i \in 1..Len(q) \/ i = Len(q) + 1
      /\ \A n \in Nat : \A i \in n..Len(q) : i \in n..Len(r)
      /\ \A i \in 1..Len(q) : i \in 1..Len(r)
      /\ Len(q) + 1 \in 1..Len(r)
      /\ q # << >> => 1 \in 1..Len(q) /\ Len(q) + 1 \in 2..Len(r)
  BY <1>1
<1>4. /\ q # << >> => r[1] = q[1]
      /\ \A i \in 1..Len(r) : r[i] = o \/ \E j \in 1..Len(q) : r[i] = q[j]
  BY <1>1, <1>3
<1>5. q = << >> => r[1] = o
  <2> SUFFICES ASSUME q = << >> PROVE r[1] = o
    OBVIOUS
  <2>1. Len(q) + 1 = 1 OBVIOUS
  <2> QED BY <1>1, <2>1
<1>6. ASSUME NEW kinds, NEW n \in {1, 2}, Waiting(q, kinds, n) PROVE Waiting(r, kinds, n)
  <2>1. PICK i \in n..Len(q) : q[i][1] \in kinds BY <1>6 DEF Waiting
  <2>2. i \in 1..Len(q) /\ i \in n..Len(r) BY <1>1, <1>3
  <2> QED BY <1>1, <2>1, <2>2 DEF Waiting
<1>7. \A kinds : /\ o[1] \in kinds => Waiting(r, kinds, 1)
                 /\ o[1] \in kinds /\ q # << >> => Waiting(r, kinds, 2)
  BY <1>1, <1>3 DEF Waiting
<1>8. \A timer : RespawnDue(q, timer) => RespawnDue(r, timer) BY <1>1, <1>3 DEF RespawnDue
<1>9. o[1] = "respawn" => o = <<"respawn", o[2]>> BY DEF ServiceRequest
<1>10. RespawnDue(r, o[2]) \/ o[1] # "respawn" BY <1>1, <1>3, <1>9 DEF RespawnDue
<1> QED BY <1>1, <1>2, <1>4, <1>5, <1>6, <1>7, <1>8, <1>10 DEF r
RequestsOK(s) ==
    \A i \in 1..Len(s.queue) : /\ s.queue[i][1] = "respawn" => s.queue[i][2] # 0
                               /\ s.queue[i][1] = "dispose" => s.disposed

\* What must hold when the operation at the head is over.
OverReady(s) ==
    /\ s.queue # << >> /\ ~s.stopping /\ heldOf(s) \subseteq {s.process} /\ RequestsOK(s)
    /\ s.ticking => s.backoff # 0
    /\ s.backoff # 0 => s.process = 0
    /\ s.disposed => Waiting(s.queue, {"dispose"}, 2) \/ (s.process = 0 /\ ~s.socket /\ s.backoff = 0)
    /\ ~s.disposed /\ ~s.enabled => Waiting(s.queue, {"sync"}, 2) \/ (s.process = 0 /\ ~s.socket /\ s.backoff = 0)
    /\ ~s.disposed /\ s.backoff # 0 => s.ticking \/ RespawnDue(Tail(s.queue), s.backoff)
    /\ ~s.disposed /\ s.enabled /\ s.policy = "always" =>
         s.state = "failed" \/ s.process # 0 \/ s.backoff # 0 \/ Waiting(s.queue, {"sync", "restart"}, 2)

LEMMA OperationIsOver ==
    ASSUME NEW s \in ServiceType, OverReady(s)
    PROVE  ServiceOK(operationOver(s))
<1> DEFINE u == operationOver(s)
           q == s.queue
<1>1. q \in Seq(ServiceRequest) /\ q # << >> BY DEF ServiceType, OverReady
<1>2. /\ u.queue = Tail(q) /\ u.awaiting = "nothing" /\ u.running = 0 /\ u.stopping = s.stopping /\ u.process = s.process
      /\ u.alive = s.alive /\ u.abandoned = s.abandoned /\ u.backoff = s.backoff /\ u.ticking = s.ticking
      /\ u.disposed = s.disposed /\ u.enabled = s.enabled /\ u.policy = s.policy /\ u.state = s.state /\ u.socket = s.socket
  BY DEF operationOver, ServiceType
<1>3. Tail(q) \in Seq(ServiceRequest) BY <1>1, QueueMoves
<1>4. u \in ServiceType BY <1>3 DEF operationOver, ServiceType
<1> HIDE DEF u, q
<1>5. /\ \A kinds : Waiting(q, kinds, 2) => Tail(q) # << >> /\ (Tail(q)[1][1] \in kinds \/ Waiting(Tail(q), kinds, 2))
      /\ \A kinds : Waiting(Tail(q), kinds, 1) <=> Waiting(q, kinds, 2)
      /\ \A i \in 1..Len(Tail(q)) : \E j \in 1..Len(q) : Tail(q)[i] = q[j]
  BY <1>1, QueueMoves
<1>6. s.queue = q BY DEF q
<1>7. ProcessInv(u)
  <2>1. \A i \in 1..Len(u.queue) : /\ u.queue[i][1] = "respawn" => u.queue[i][2] # 0
                                   /\ u.queue[i][1] = "dispose" => u.disposed
    BY <1>2, <1>5, <1>6 DEF OverReady, RequestsOK
  <2> QED BY <1>2, <2>1 DEF OverReady, ProcessInv, heldOf
<1>8. DesiredInv(u)
  <2>1. u.disposed => Waiting(u.queue, {"dispose"}, 1) \/ AtRest(u)
    BY <1>2, <1>5, <1>6 DEF OverReady, AtRest
  <2>2. ~u.disposed /\ ~u.enabled => Waiting(u.queue, {"sync"}, 2) \/ (AtHead(u, {"sync"}) /\ u.awaiting \notin {"socket", "spawn"}) \/ AtRest(u)
    BY <1>2, <1>5, <1>6 DEF OverReady, AtRest, AtHead
  <2>3. ~u.disposed /\ u.backoff # 0 => u.ticking \/ RespawnDue(u.queue, u.backoff)
    BY <1>2, <1>6 DEF OverReady
  <2>4. ~u.disposed /\ u.enabled /\ u.policy = "always" =>
            u.state = "failed" \/ u.process # 0 \/ u.backoff # 0 \/ Waiting(u.queue, {"sync", "restart"}, 2) \/ Starts(u)
    <3>1. Waiting(q, {"sync", "restart"}, 2) => Waiting(u.queue, {"sync", "restart"}, 2) \/ Starts(u)
      BY <1>2, <1>5 DEF Starts, AtHead
    <3> QED BY <1>2, <1>6, <3>1 DEF OverReady
  <2> QED BY <1>2, <2>1, <2>2, <2>3, <2>4 DEF DesiredInv, OverReady
<1> QED BY <1>4, <1>7, <1>8 DEF ServiceOK, u

\* What must hold when the operation at the head goes on to make a process.
SpawnReady(s) ==
    /\ AtHead(s, {"sync", "restart", "respawn"}) /\ ~s.stopping /\ heldOf(s) = {} /\ RequestsOK(s)
    /\ s.process = 0 /\ s.backoff = 0 /\ ~s.ticking
    /\ s.disposed => Waiting(s.queue, {"dispose"}, 1)
    /\ ~s.disposed /\ ~s.enabled => Waiting(s.queue, {"sync"}, 2)

LEMMA SpawnGoesOn ==
    ASSUME NEW s \in ServiceType, SpawnReady(s), NEW what \in {"socket", "spawn"}, NEW socket \in BOOLEAN,
           NEW u, u = [s EXCEPT !.awaiting = what, !.socket = socket]
    PROVE  ServiceOK(u)
<1>1. u \in ServiceType BY DEF ServiceType
<1>2. /\ u.queue = s.queue /\ u.awaiting = what /\ u.stopping = s.stopping /\ u.process = s.process
      /\ u.alive = s.alive /\ u.abandoned = s.abandoned /\ u.backoff = s.backoff /\ u.ticking = s.ticking
      /\ u.disposed = s.disposed /\ u.enabled = s.enabled /\ u.policy = s.policy
  BY DEF ServiceType
<1>3. s.queue # << >> /\ u.stopping = FALSE /\ u.ticking = FALSE
  BY <1>2 DEF SpawnReady, AtHead, ServiceType
<1>4. ProcessInv(u) BY <1>2, <1>3 DEF SpawnReady, RequestsOK, ProcessInv, heldOf, AtHead
<1>5. Starts(u) BY <1>2 DEF SpawnReady, Starts, AtHead
<1>6. DesiredInv(u) BY <1>2, <1>3, <1>5 DEF SpawnReady, DesiredInv, AtHead
<1> QED BY <1>1, <1>4, <1>6 DEF ServiceOK

LEMMA ServiceSpawns ==
    ASSUME NEW s \in ServiceType, SpawnReady(s)
    PROVE  ServiceOK(serviceSpawn(s))
<1>1. s.socket \in BOOLEAN /\ s = [s EXCEPT !.socket = s.socket] BY DEF ServiceType
<1>2. PICK what \in {"socket", "spawn"} : serviceSpawn(s) = [s EXCEPT !.awaiting = what]
  BY DEF serviceSpawn
<1>3. serviceSpawn(s) = [s EXCEPT !.awaiting = what, !.socket = s.socket]
  BY <1>1, <1>2 DEF ServiceType
<1> QED BY <1>1, <1>3, SpawnGoesOn

\* What must hold when a process was stopped, or there was none.
StopReady(s) ==
    /\ AtHead(s, {"sync", "restart", "dispose"}) /\ heldOf(s) = {} /\ RequestsOK(s)
    /\ s.backoff = 0 /\ ~s.ticking
    /\ s.disposed => Waiting(s.queue, {"dispose"}, 1)
    /\ ~s.disposed /\ s.enabled /\ AtHead(s, {"sync"}) => Waiting(s.queue, {"sync"}, 2)

LEMMA ServiceStops ==
    ASSUME NEW s \in ServiceType, StopReady(s), s.queue = service.queue
    PROVE  ServiceOK(serviceStopped(s))
<1> DEFINE state == IF serviceOperation[1] = "sync" THEN "disabled" ELSE "stopped"
           t == [releaseSocket(s) EXCEPT !.stopping = FALSE, !.process = 0, !.state = state]
<1>1. s.queue \in Seq(ServiceRequest) /\ s.queue # << >> /\ serviceOperation = s.queue[1] /\ state \in {"disabled", "stopped"}
  BY QueueMoves DEF ServiceType, StopReady, AtHead, serviceOperation
<1>2. t \in ServiceType
  <2> DEFINE v == releaseSocket(s)
  <2>1. v \in ServiceType BY DEF releaseSocket, ServiceType
  <2> HIDE DEF v, state
  <2>2. [v EXCEPT !.stopping = FALSE, !.process = 0, !.state = state] \in ServiceType
    BY <1>1, <2>1 DEF ServiceType
  <2> QED BY <2>2 DEF v
<1>3. /\ t.queue = s.queue /\ t.stopping = FALSE /\ t.process = 0 /\ t.socket = FALSE
      /\ t.alive = s.alive /\ t.abandoned = s.abandoned /\ t.backoff = s.backoff /\ t.ticking = s.ticking
      /\ t.disposed = s.disposed /\ t.enabled = s.enabled /\ t.policy = s.policy
  BY DEF ServiceType, releaseSocket
<1>4. serviceStopped(s) = IF serviceOperation[1] = "restart" THEN serviceLaunch(t) ELSE operationOver(t)
  BY DEF serviceStopped
<1> HIDE DEF t, state
<1>q. /\ \A kinds : Waiting(s.queue, kinds, 1) <=> s.queue[1][1] \in kinds \/ Waiting(s.queue, kinds, 2)
  BY <1>1, QueueMoves
<1>d. s.queue[1][1] = "dispose" => s.disposed
  <2>1. 1 \in 1..Len(s.queue) BY <1>1, QueueMoves
  <2> QED BY <2>1 DEF StopReady, RequestsOK
<1>5. ASSUME ~(serviceOperation[1] = "restart" /\ ~t.disposed /\ t.enabled)
      PROVE  OverReady(t)
  <2>1. ~s.disposed /\ s.enabled => Waiting(s.queue, {"sync"}, 2)
    BY <1>1, <1>3, <1>5, <1>d DEF StopReady, AtHead
  <2>2. ~s.disposed /\ s.enabled => Waiting(s.queue, {"sync", "restart"}, 2) BY <2>1 DEF Waiting
  <2> QED BY <1>1, <1>3, <2>2 DEF OverReady, StopReady, RequestsOK, heldOf
<1>6. ASSUME serviceOperation[1] = "restart", ~t.disposed, t.enabled
      PROVE  SpawnReady(t)
  BY <1>1, <1>3, <1>6 DEF SpawnReady, StopReady, RequestsOK, heldOf, AtHead
<1>7. CASE serviceOperation[1] = "restart"
  <2>1. CASE t.disposed \/ ~t.enabled
    <3>1. serviceLaunch(t) = operationOver(t) BY <2>1 DEF serviceLaunch
    <3> QED BY <1>2, <1>4, <1>5, <1>7, <2>1, <3>1, OperationIsOver
  <2>2. CASE ~t.disposed /\ t.enabled
    <3>1. serviceLaunch(t) = serviceSpawn(t) BY <1>3, <2>2 DEF serviceLaunch, StopReady
    <3> QED BY <1>2, <1>4, <1>6, <1>7, <2>2, <3>1, ServiceSpawns
  <2> QED BY <2>1, <2>2
<1>8. CASE serviceOperation[1] # "restart" BY <1>2, <1>4, <1>5, <1>8, OperationIsOver
<1> QED BY <1>7, <1>8


\* The operation at the head of the queue is one that stops the process.
StopEnters(s) ==
    /\ s.awaiting = "nothing" /\ AtHead(s, {"sync", "restart", "dispose"})
    /\ s.disposed <=> AtHead(s, {"dispose"})
    /\ AtHead(s, {"sync"}) => ~s.enabled
    /\ AtHead(s, {"restart"}) => s.enabled

LEMMA ServiceGoesDown ==
    ASSUME NEW s \in ServiceType, ServiceOK(s), StopEnters(s), s.queue = service.queue
    PROVE  ServiceOK(serviceStop(s))
<1> DEFINE t == [s EXCEPT !.backoff = 0, !.ticking = FALSE]
           u == [releaseSocket(t) EXCEPT !.stopping = TRUE, !.state = "stopping", !.awaiting = "exit", !.running = s.process]
<1>1. /\ t \in ServiceType
      /\ t.queue = s.queue /\ t.stopping = s.stopping /\ t.process = s.process /\ t.backoff = 0 /\ t.ticking = FALSE
      /\ t.alive = s.alive /\ t.abandoned = s.abandoned
      /\ t.disposed = s.disposed /\ t.enabled = s.enabled /\ t.policy = s.policy
  BY DEF ServiceType
<1>2. serviceStop(s) = IF t.process = 0 THEN serviceStopped(t) ELSE u BY DEF serviceStop
<1> HIDE DEF t
<1>3. /\ u.queue = t.queue /\ u.stopping = TRUE /\ u.process = t.process /\ u.backoff = t.backoff /\ u.ticking = t.ticking
      /\ u.alive = t.alive /\ u.abandoned = t.abandoned /\ u.awaiting = "exit" /\ u.running = s.process
      /\ u.disposed = t.disposed /\ u.enabled = t.enabled /\ u.policy = t.policy
  BY <1>1 DEF ServiceType, releaseSocket
<1>4. u \in ServiceType
  <2> DEFINE v == releaseSocket(t)
  <2>1. v \in ServiceType BY <1>1 DEF releaseSocket, ServiceType
  <2> HIDE DEF v
  <2>2. [v EXCEPT !.stopping = TRUE, !.state = "stopping", !.awaiting = "exit", !.running = s.process] \in ServiceType
    BY <2>1 DEF ServiceType
  <2> QED BY <2>2 DEF v
<1> HIDE DEF u
<1>5. s.queue \in Seq(ServiceRequest) /\ s.queue # << >> /\ heldOf(s) \subseteq {s.process} /\ 0 \notin heldOf(s) /\ s.stopping = FALSE
  <2>1. s.stopping = FALSE BY DEF ServiceOK, ProcessInv, StopEnters, ServiceType
  <2> QED BY <2>1 DEF ServiceOK, ProcessInv, StopEnters, AtHead, ServiceType, heldOf
<1>6. \A kinds : Waiting(s.queue, kinds, 1) <=> s.queue[1][1] \in kinds \/ Waiting(s.queue, kinds, 2)
  BY <1>5, QueueMoves
<1>7. RequestsOK(s) BY DEF ServiceOK, ProcessInv, RequestsOK
<1>8. CASE s.process = 0
  <2>1. StopReady(t)
    <3>1. heldOf(t) = {} BY <1>1, <1>5, <1>8 DEF heldOf
    <3> QED BY <1>1, <1>6, <1>7, <3>1 DEF StopReady, StopEnters, AtHead, RequestsOK
  <2> QED BY <1>1, <1>2, <1>8, <2>1, ServiceStops
<1>9. CASE s.process # 0
  <2>1. ProcessInv(u)
    <3>1. heldOf(u) \subseteq {u.running} /\ u.process \in {0, u.running} /\ AtHead(u, {"sync", "restart", "dispose"}) /\ u.queue # << >>
      BY <1>1, <1>3, <1>5 DEF heldOf, StopEnters, AtHead
    <3>2. \A i \in 1..Len(u.queue) : /\ u.queue[i][1] = "respawn" => u.queue[i][2] # 0
                                     /\ u.queue[i][1] = "dispose" => u.disposed
      BY <1>1, <1>3, <1>7 DEF RequestsOK
    <3> QED BY <1>1, <1>3, <3>1, <3>2 DEF ProcessInv
  <2>2. DesiredInv(u) BY <1>1, <1>3, <1>6, <1>9 DEF DesiredInv, StopEnters, AtHead
  <2> QED BY <1>1, <1>2, <1>4, <1>9, <2>1, <2>2 DEF ServiceOK
<1> QED BY <1>8, <1>9 DEF ServiceType

\* A step of an operation keeps the timers: it sets none and spawns nothing.
LEMMA TimersStay ==
    ASSUME NEW s \in ServiceType, NEW u \in ServiceType, TimersOK(s),
           u.queue = s.queue \/ (s.queue # << >> /\ u.queue = Tail(s.queue)),
           u.made = s.made, u.alive \subseteq s.alive,
           (u.backoff = s.backoff /\ (u.ticking => s.ticking)) \/ u.backoff = 0
    PROVE  TimersOK(u)
<1>1. \A i \in 1..Len(u.queue) : \E j \in 1..Len(s.queue) : u.queue[i] = s.queue[j]
  <2>1. s.queue \in Seq(ServiceRequest) BY DEF ServiceType
  <2>2. CASE u.queue = s.queue BY <2>2
  <2>3. CASE s.queue # << >> /\ u.queue = Tail(s.queue) BY <2>1, <2>3, QueueMoves
  <2> QED BY <2>2, <2>3
<1>2. \A i \in 1..Len(u.queue) : u.queue[i][1] = "respawn" =>
         /\ u.queue[i][2] # 0 /\ u.queue[i][2] <= u.made /\ u.queue[i][2] \notin u.alive
         /\ ~(u.ticking /\ u.backoff = u.queue[i][2])
  BY <1>1 DEF TimersOK
<1>3. u.alive \subseteq 1..u.made /\ (u.backoff # 0 => u.backoff \notin u.alive /\ u.backoff <= u.made)
  BY DEF TimersOK
<1> QED BY <1>2, <1>3 DEF TimersOK

\* An operation that stops the process leaves the timers alone, or takes them down.
LEMMA StopKeepsTimers ==
    ASSUME NEW s \in ServiceType, s.queue # << >>
    PROVE  /\ serviceStopped(s).queue \in {s.queue, Tail(s.queue)} /\ serviceStopped(s).made = s.made
           /\ serviceStopped(s).alive = s.alive /\ serviceStopped(s).backoff = s.backoff /\ serviceStopped(s).ticking = s.ticking
<1> DEFINE state == IF serviceOperation[1] = "sync" THEN "disabled" ELSE "stopped"
           t == [releaseSocket(s) EXCEPT !.stopping = FALSE, !.process = 0, !.state = state]
<1>1. t.queue = s.queue /\ t.made = s.made /\ t.alive = s.alive /\ t.backoff = s.backoff /\ t.ticking = s.ticking
  BY DEF releaseSocket, ServiceType
<1>2. t = [releaseSocket(s) EXCEPT !.stopping = FALSE, !.process = 0, !.state = state] OBVIOUS
<1>3. serviceStopped(s) \in {operationOver(t), serviceSpawn(t)} BY DEF serviceStopped, serviceLaunch
<1>4. DOMAIN t = DOMAIN s BY DEF releaseSocket
<1>5. {"queue", "awaiting", "running", "made", "alive", "backoff", "ticking"} \subseteq DOMAIN s
  BY DEF ServiceType
<1> HIDE DEF t
<1>6. /\ operationOver(t).queue = Tail(t.queue) /\ operationOver(t).made = t.made /\ operationOver(t).alive = t.alive
      /\ operationOver(t).backoff = t.backoff /\ operationOver(t).ticking = t.ticking
  BY <1>4, <1>5 DEF operationOver
<1>7. /\ serviceSpawn(t).queue = t.queue /\ serviceSpawn(t).made = t.made /\ serviceSpawn(t).alive = t.alive
      /\ serviceSpawn(t).backoff = t.backoff /\ serviceSpawn(t).ticking = t.ticking
  BY <1>4, <1>5 DEF serviceSpawn
<1> QED BY <1>1, <1>3, <1>6, <1>7

SupervisorInv(s) == ServiceOK(s) /\ TimersOK(s)

LEMMA ServiceInitial == ASSUME ServiceInit PROVE SupervisorInv(service)
<1>1. PICK policy \in {"always", "on-failure", "never"}, readiness \in {"connected", "spawned"} :
        service = [enabled |-> TRUE, policy |-> policy, readiness |-> readiness,
                   disposed |-> FALSE, state |-> "stopped", process |-> 0, made |-> 0,
                   alive |-> {}, killed |-> {}, abandoned |-> {}, socket |-> FALSE,
                   connected |-> FALSE, backoff |-> 0, ticking |-> FALSE, stopping |-> FALSE,
                   queue |-> <<<<"sync", 0>>>>, awaiting |-> "nothing", running |-> 0, requests |-> 0]
  BY DEF ServiceInit
<1>2. <<"sync", 0>> \in ServiceRequest BY DEF ServiceRequest
<1>3. service \in ServiceType BY <1>1, <1>2 DEF ServiceType
<1>4. /\ service.queue # << >> /\ \A i \in 1..Len(service.queue) : service.queue[i] = <<"sync", 0>>
      /\ service.queue[1] = <<"sync", 0>>
  BY <1>1
<1>5. ProcessInv(service) BY <1>1, <1>4 DEF ProcessInv, heldOf
<1>6. Starts(service) BY <1>1, <1>4 DEF Starts, AtHead
<1>7. DesiredInv(service) BY <1>1, <1>4, <1>6 DEF DesiredInv, AtHead
<1>8. TimersOK(service) BY <1>1, <1>4 DEF TimersOK
<1> QED BY <1>3, <1>5, <1>7, <1>8 DEF SupervisorInv, ServiceOK

\* An operation starts.
LEMMA OperationStarted ==
    ASSUME SupervisorInv(service), OperationStarts
    PROVE  SupervisorInv(service')
<1> DEFINE s == service
           q == service.queue
           kind == q[1][1]
<1>1. /\ s \in ServiceType /\ q \in Seq(ServiceRequest) /\ q # << >> /\ s.awaiting = "nothing" /\ s.stopping = FALSE
      /\ serviceOperation = q[1] /\ q[1] \in ServiceRequest /\ kind \in {"sync", "restart", "dispose", "respawn"}
  <2>1. s \in ServiceType /\ q \in Seq(ServiceRequest) /\ q # << >> /\ s.awaiting = "nothing"
    BY DEF SupervisorInv, ServiceOK, ServiceType, OperationStarts
  <2>2. s.stopping = FALSE BY <2>1 DEF SupervisorInv, ServiceOK, ProcessInv, ServiceType
  <2>3. Head(q) = q[1] /\ q[1] \in ServiceRequest BY <2>1, QueueMoves
  <2> QED BY <2>1, <2>2, <2>3 DEF serviceOperation, ServiceRequest
<1>2. /\ \A kinds : Waiting(q, kinds, 1) <=> kind \in kinds \/ Waiting(q, kinds, 2)
      /\ \A timer : RespawnDue(q, timer) <=> q[1] = <<"respawn", timer>> \/ RespawnDue(Tail(q), timer)
      /\ 1 \in 1..Len(q)
  BY <1>1, QueueMoves
<1>3. /\ RequestsOK(s) /\ ProcessInv(s) /\ DesiredInv(s) /\ heldOf(s) \subseteq {s.process}
      /\ (s.ticking => s.backoff # 0) /\ (s.backoff # 0 => s.process = 0) /\ 0 \notin heldOf(s)
      /\ kind = "dispose" => s.disposed
  BY <1>1, <1>2 DEF SupervisorInv, ServiceOK, ProcessInv, RequestsOK, heldOf, ServiceType
<1>4. Waiting(q, {"sync"}, 2) => Waiting(q, {"sync", "restart"}, 2) BY DEF Waiting
<1>5. DEFINE over == operationOver(s)
<1>6. over.queue = Tail(q) /\ over.made = s.made /\ over.alive = s.alive /\ over.backoff = s.backoff /\ over.ticking = s.ticking
  BY <1>1 DEF operationOver, ServiceType
<1> HIDE DEF over
<1>7. ASSUME OverReady(s) PROVE SupervisorInv(over)
  <2>1. ServiceOK(over) BY <1>1, <1>7, OperationIsOver DEF over
  <2>2. TimersOK(over) BY <1>1, <1>6, <2>1, TimersStay DEF SupervisorInv, ServiceOK
  <2> QED BY <2>1, <2>2 DEF SupervisorInv
<1>8. CASE operationSkipped(kind)
  <2>1. service' = over BY <1>1, <1>8 DEF OperationStarts, over
  <2>2. OverReady(s) BY <1>1, <1>2, <1>3, <1>8 DEF OverReady, operationSkipped, DesiredInv, AtRest
  <2> QED BY <1>7, <2>1, <2>2
<1>9. CASE StopEnters(s) /\ service' = serviceStop(s)
  <2>1. ServiceOK(serviceStop(s)) BY <1>1, <1>9, ServiceGoesDown DEF SupervisorInv
  <2> DEFINE t == [s EXCEPT !.backoff = 0, !.ticking = FALSE]
             u == [releaseSocket(t) EXCEPT !.stopping = TRUE, !.state = "stopping", !.awaiting = "exit", !.running = s.process]
  <2>2. t \in ServiceType /\ t.queue = q /\ t.made = s.made /\ t.alive = s.alive /\ t.backoff = 0
    BY <1>1 DEF ServiceType
  <2>3. u.queue = q /\ u.made = s.made /\ u.alive = s.alive /\ u.backoff = 0
    BY <1>1 DEF releaseSocket, ServiceType
  <2>4. serviceStop(s) \in {serviceStopped(t), u} BY DEF serviceStop
  <2> HIDE DEF t, u
  <2>5. /\ serviceStop(s).queue \in {q, Tail(q)} /\ serviceStop(s).made = s.made /\ serviceStop(s).alive = s.alive
        /\ serviceStop(s).backoff = 0
    <3>1. /\ serviceStopped(t).queue \in {t.queue, Tail(t.queue)} /\ serviceStopped(t).made = t.made
          /\ serviceStopped(t).alive = t.alive /\ serviceStopped(t).backoff = t.backoff
      BY <1>1, <2>2, StopKeepsTimers
    <3> QED BY <2>2, <2>3, <2>4, <3>1
  <2>6. serviceStop(s) \in ServiceType BY <2>1 DEF ServiceOK
  <2>7. TimersOK(serviceStop(s)) BY <1>1, <2>5, <2>6, TimersStay DEF SupervisorInv
  <2> QED BY <1>9, <2>1, <2>7 DEF SupervisorInv
<1>10. ASSUME NEW t \in ServiceType, SpawnReady(t), t.queue = q, t.made = s.made, t.alive = s.alive,
              (t.backoff = s.backoff /\ (t.ticking => s.ticking)) \/ t.backoff = 0
       PROVE  SupervisorInv(serviceSpawn(t))
  <2>1. ServiceOK(serviceSpawn(t)) BY <1>10, ServiceSpawns
  <2>2. /\ serviceSpawn(t).queue = t.queue /\ serviceSpawn(t).made = t.made /\ serviceSpawn(t).alive = t.alive
        /\ serviceSpawn(t).backoff = t.backoff /\ serviceSpawn(t).ticking = t.ticking
    BY <1>10 DEF serviceSpawn, ServiceType
  <2>3. serviceSpawn(t) \in ServiceType BY <2>1 DEF ServiceOK
  <2>4. TimersOK(serviceSpawn(t)) BY <1>1, <1>10, <2>2, <2>3, TimersStay DEF SupervisorInv
  <2> QED BY <2>1, <2>4 DEF SupervisorInv
<1>11. CASE ~operationSkipped(kind) /\ kind = "dispose"
  <2>1. StopEnters(s) BY <1>1, <1>3, <1>11 DEF StopEnters, AtHead
  <2>2. service' = serviceStop(s) BY <1>1, <1>11 DEF OperationStarts
  <2> QED BY <1>9, <2>1, <2>2
<1>12. CASE ~operationSkipped(kind) /\ kind = "sync"
  <2>1. ~s.disposed BY <1>12 DEF operationSkipped
  <2>2. service' = IF s.enabled THEN serviceLaunch(s) ELSE serviceStop(s)
    BY <1>1, <1>12 DEF OperationStarts
  <2>3. CASE ~s.enabled
    <3>1. StopEnters(s) BY <1>1, <1>3, <1>12, <2>1, <2>3 DEF StopEnters, AtHead
    <3> QED BY <1>9, <2>2, <2>3, <3>1
  <2>4. CASE s.enabled /\ (s.process # 0 \/ s.backoff # 0)
    <3>1. service' = over BY <2>2, <2>4 DEF serviceLaunch, over
    <3>2. OverReady(s) BY <1>1, <1>2, <1>3, <1>12, <2>1, <2>4 DEF OverReady, DesiredInv
    <3> QED BY <1>7, <3>1, <3>2
  <2>5. CASE s.enabled /\ ~(s.process # 0 \/ s.backoff # 0)
    <3>1. service' = serviceSpawn(s) BY <2>1, <2>2, <2>5 DEF serviceLaunch
    <3>2. SpawnReady(s) BY <1>1, <1>3, <1>12, <2>1, <2>5 DEF SpawnReady, AtHead
    <3> QED BY <1>1, <1>10, <3>1, <3>2
  <2> QED BY <2>3, <2>4, <2>5
<1>13. CASE ~operationSkipped(kind) /\ kind = "restart"
  <2>1. ~s.disposed BY <1>13 DEF operationSkipped
  <2>2. service' = IF s.enabled THEN serviceStop(s) ELSE over
    BY <1>1, <1>13 DEF OperationStarts, over
  <2>3. CASE s.enabled
    <3>1. StopEnters(s) BY <1>1, <1>3, <1>13, <2>1, <2>3 DEF StopEnters, AtHead
    <3> QED BY <1>9, <2>2, <2>3, <3>1
  <2>4. CASE ~s.enabled
    <3>1. OverReady(s)
      BY <1>1, <1>2, <1>3, <1>13, <2>1, <2>4 DEF OverReady, DesiredInv, AtHead, AtRest
    <3> QED BY <1>7, <2>2, <2>4, <3>1
  <2> QED BY <2>3, <2>4
<1>14. CASE ~operationSkipped(kind) /\ kind = "respawn"
  <2>1. ~s.disposed BY <1>14 DEF operationSkipped
  <2> DEFINE timer == q[1][2]
  <2>2. service' = serviceRespawn(s, timer) /\ q[1] = <<"respawn", timer>>
    BY <1>1, <1>14 DEF OperationStarts, ServiceRequest
  <2>3. timer # 0 /\ ~(s.ticking /\ s.backoff = timer) BY <1>2, <1>14 DEF SupervisorInv, TimersOK
  <2>4. ~s.enabled => Waiting(q, {"sync"}, 2) \/ AtRest(s)
    BY <1>3, <1>14, <2>1 DEF DesiredInv, AtHead
  <2> HIDE DEF timer
  <2>5. CASE s.backoff # timer
    <3>1. service' = over BY <2>2, <2>5 DEF serviceRespawn, over
    <3>2. s.backoff # 0 => s.ticking \/ RespawnDue(Tail(q), s.backoff)
      BY <1>2, <1>3, <2>1, <2>2, <2>5 DEF DesiredInv
    <3>3. s.enabled /\ s.policy = "always" =>
              s.state = "failed" \/ s.process # 0 \/ s.backoff # 0 \/ Waiting(q, {"sync", "restart"}, 2)
      BY <1>1, <1>3, <1>14, <2>1 DEF DesiredInv, Starts, AtHead
    <3>4. OverReady(s) BY <1>1, <1>3, <2>1, <2>4, <3>2, <3>3 DEF OverReady, AtRest
    <3> QED BY <1>7, <3>1, <3>4
  <2>6. CASE s.backoff = timer
    <3> DEFINE t == [s EXCEPT !.backoff = 0]
    <3>1. service' = serviceSpawn(t) BY <2>2, <2>6 DEF serviceRespawn
    <3>2. /\ t \in ServiceType /\ t.queue = q /\ t.made = s.made /\ t.alive = s.alive /\ t.backoff = 0
          /\ t.ticking = s.ticking /\ t.stopping = s.stopping /\ t.process = s.process /\ t.abandoned = s.abandoned
          /\ t.disposed = s.disposed /\ t.enabled = s.enabled
      BY <1>1 DEF ServiceType
    <3> HIDE DEF t
    <3>3. SpawnReady(t)
      <4>1. AtHead(t, {"sync", "restart", "respawn"}) BY <1>1, <1>14, <3>2 DEF AtHead
      <4>2. heldOf(t) = {} /\ t.process = 0 /\ ~t.ticking BY <1>3, <2>3, <2>6, <3>2 DEF heldOf
      <4>3. ~t.enabled => Waiting(t.queue, {"sync"}, 2) BY <2>3, <2>4, <2>6, <3>2 DEF AtRest
      <4>4. RequestsOK(t) BY <1>3, <3>2 DEF RequestsOK
      <4> QED BY <1>1, <2>1, <3>2, <4>1, <4>2, <4>3, <4>4 DEF SpawnReady
    <3> QED BY <1>10, <3>1, <3>2, <3>3
  <2> QED BY <2>5, <2>6
<1> QED BY <1>1, <1>8, <1>11, <1>12, <1>13, <1>14

\* What the awaits of a start find out: the operation is still at the head, nothing was made meanwhile.
LEMMA StartIsReady ==
    ASSUME SupervisorInv(service), service.awaiting \in {"socket", "spawn"}
    PROVE  /\ SpawnReady(service) /\ service \in ServiceType
           /\ service.disposed => Waiting(service.queue, {"dispose"}, 2)
<1>1. /\ service \in ServiceType /\ ProcessInv(service) /\ DesiredInv(service)
      /\ service.queue \in Seq(ServiceRequest) /\ service.queue # << >>
  BY DEF SupervisorInv, ServiceOK, ProcessInv, ServiceType
<1>2. Waiting(service.queue, {"dispose"}, 1) <=> service.queue[1][1] = "dispose" \/ Waiting(service.queue, {"dispose"}, 2)
  BY <1>1, QueueMoves
<1>3. SpawnReady(service)
  BY <1>1 DEF SpawnReady, ProcessInv, DesiredInv, AtRest, RequestsOK, heldOf, ServiceType
<1> QED BY <1>1, <1>2, <1>3 DEF SpawnReady, AtHead

LEMMA StartGoesOn ==
    ASSUME SupervisorInv(service), SocketOpened
    PROVE  SupervisorInv(service')
<1>1. SpawnReady(service) /\ service \in ServiceType BY StartIsReady DEF SocketOpened, serviceAwaits
<1>2. service' = [service EXCEPT !.awaiting = "spawn", !.socket = TRUE]
  BY <1>1 DEF SocketOpened, ServiceType
<1>3. ServiceOK(service') BY <1>1, <1>2, SpawnGoesOn
<1>4. /\ service'.queue = service.queue /\ service'.made = service.made /\ service'.alive = service.alive
      /\ service'.backoff = service.backoff /\ service'.ticking = service.ticking
  BY <1>1, <1>2 DEF ServiceType
<1>5. service' \in ServiceType BY <1>3 DEF ServiceOK
<1>6. TimersOK(service') BY <1>1, <1>4, <1>5, TimersStay DEF SupervisorInv
<1> QED BY <1>3, <1>6 DEF SupervisorInv

\* A start is over: it failed, or there is a process now.
LEMMA StartIsOver ==
    ASSUME SupervisorInv(service), SocketFails \/ SpawnFails \/ ServiceSpawned
    PROVE  SupervisorInv(service')
<1>1. /\ SpawnReady(service) /\ service \in ServiceType /\ service.queue # << >> /\ 0 \notin heldOf(service)
      /\ service.disposed => Waiting(service.queue, {"dispose"}, 2)
  BY StartIsReady DEF SocketFails, SpawnFails, ServiceSpawned, serviceAwaits, heldOf, ServiceType
<1>2. CASE SocketFails \/ SpawnFails
  <2>1. PICK t \in ServiceType :
          /\ service' = operationOver(t) /\ t.queue = service.queue /\ t.state = "failed"
          /\ t.made = service.made /\ t.alive = service.alive /\ t.abandoned = service.abandoned
          /\ t.backoff = service.backoff /\ t.ticking = service.ticking /\ t.stopping = service.stopping
          /\ t.process = service.process /\ t.disposed = service.disposed /\ t.enabled = service.enabled
    <3>1. CASE SocketFails
      <4> DEFINE t == [service EXCEPT !.state = "failed"]
      <4>1. t \in ServiceType BY <1>1 DEF ServiceType
      <4>2. service' = operationOver(t) BY <1>1, <3>1 DEF SocketFails, operationOver, ServiceType
      <4> QED BY <1>1, <4>1, <4>2 DEF ServiceType
    <3>2. CASE SpawnFails
      <4> DEFINE t == [service EXCEPT !.state = "failed", !.socket = FALSE, !.connected = FALSE]
      <4>1. t \in ServiceType BY <1>1 DEF ServiceType
      <4>2. service' = operationOver(t)
        BY <1>1, <3>2 DEF SpawnFails, operationOver, releaseSocket, ServiceType
      <4> QED BY <1>1, <4>1, <4>2 DEF ServiceType
    <3> QED BY <1>2, <3>1, <3>2
  <2>2. OverReady(t) BY <1>1, <2>1 DEF OverReady, SpawnReady, RequestsOK, heldOf
  <2>3. ServiceOK(service') BY <2>1, <2>2, OperationIsOver
  <2>4. /\ service'.queue = Tail(service.queue) /\ service'.made = service.made /\ service'.alive = service.alive
        /\ service'.backoff = service.backoff /\ service'.ticking = service.ticking
    BY <2>1 DEF operationOver, ServiceType
  <2>5. service' \in ServiceType BY <2>3 DEF ServiceOK
  <2>6. TimersOK(service') BY <1>1, <2>4, <2>5, TimersStay DEF SupervisorInv
  <2> QED BY <2>3, <2>6 DEF SupervisorInv
<1>3. CASE ServiceSpawned
  <2> DEFINE p == service.made + 1
             t == [service EXCEPT !.made = p, !.process = p, !.alive = @ \cup {p}, !.state = "starting"]
  <2>1. p \in Nat \ {0} /\ service.made \in Nat BY <1>1 DEF ServiceType
  <2> HIDE DEF p
  <2>2. t \in ServiceType BY <1>1, <2>1 DEF ServiceType
  <2>3. service' = operationOver(t) BY <1>1, <1>3 DEF ServiceSpawned, operationOver, ServiceType, p
  <2>4. /\ t.queue = service.queue /\ t.made = p /\ t.process = p /\ t.alive = service.alive \cup {p}
        /\ t.abandoned = service.abandoned /\ t.state = "starting"
        /\ t.backoff = service.backoff /\ t.ticking = service.ticking /\ t.stopping = service.stopping
        /\ t.disposed = service.disposed /\ t.enabled = service.enabled
    BY <1>1 DEF ServiceType
  <2> HIDE DEF t
  <2>5. heldOf(t) \subseteq {p} BY <1>1, <2>4 DEF SpawnReady, heldOf
  <2>6. OverReady(t) BY <1>1, <2>1, <2>4, <2>5 DEF OverReady, SpawnReady, RequestsOK
  <2>7. ServiceOK(service') BY <2>2, <2>3, <2>6, OperationIsOver
  <2>8. /\ service'.queue = Tail(service.queue) /\ service'.made = p /\ service'.alive = service.alive \cup {p}
        /\ service'.backoff = 0 /\ service.alive \subseteq 1..service.made
    BY <1>1, <2>2, <2>3, <2>4 DEF operationOver, ServiceType, SpawnReady, SupervisorInv, TimersOK
  <2>9. \A n \in Nat : n <= service.made => n <= p /\ n # p BY <2>1 DEF p
  <2>10. 1..service.made \subseteq 1..p /\ p \in 1..p BY <2>1 DEF p
  <2>11. \A i \in 1..Len(service'.queue) : service'.queue[i][1] = "respawn" =>
           service'.queue[i][2] # 0 /\ service'.queue[i][2] <= p /\ service'.queue[i][2] \notin service'.alive
    <3>1. TAKE i \in 1..Len(service'.queue)
    <3>2. service.queue \in Seq(ServiceRequest) BY <1>1 DEF ServiceType
    <3>3. PICK j \in 1..Len(service.queue) : service'.queue[i] = service.queue[j]
      BY <1>1, <2>8, <3>2, QueueMoves
    <3>4. service.queue[j][2] \in Nat BY <3>2, <3>3 DEF ServiceRequest
    <3>5. service.queue[j][1] = "respawn" =>
            service.queue[j][2] # 0 /\ service.queue[j][2] <= service.made /\ service.queue[j][2] \notin service.alive
      BY DEF SupervisorInv, TimersOK
    <3> QED BY <2>8, <2>9, <3>3, <3>4, <3>5
  <2>12. TimersOK(service') BY <2>8, <2>10, <2>11 DEF TimersOK
  <2> QED BY <2>7, <2>12 DEF SupervisorInv
<1> QED BY <1>2, <1>3

\* The process that was to be stopped is gone, or is given up.
LEMMA StopIsOver ==
    ASSUME SupervisorInv(service), ExitSeen \/ KillTimesOut
    PROVE  SupervisorInv(service')
<1>1. PICK t \in ServiceType :
        /\ service' = serviceStopped(t) /\ t.queue = service.queue /\ t.made = service.made /\ t.alive = service.alive
        /\ service.abandoned \subseteq t.abandoned /\ t.backoff = service.backoff /\ t.ticking = service.ticking
        /\ service.running \notin t.alive \ t.abandoned
        /\ t.disposed = service.disposed /\ t.enabled = service.enabled
  <2>1. CASE ExitSeen BY <2>1 DEF ExitSeen, SupervisorInv, ServiceOK
  <2>2. CASE KillTimesOut
    <3> DEFINE t == [service EXCEPT !.abandoned = @ \cup {service.running}]
    <3>1. service \in ServiceType BY DEF SupervisorInv, ServiceOK
    <3>2. t \in ServiceType BY <3>1 DEF ServiceType
    <3>3. service' = serviceStopped(t) BY <2>2 DEF KillTimesOut
    <3> QED BY <3>1, <3>2, <3>3 DEF ServiceType
  <2> QED BY <2>1, <2>2
<1>2. /\ service \in ServiceType /\ ProcessInv(service) /\ DesiredInv(service) /\ service.stopping /\ service.queue # << >>
      /\ service.awaiting \in {"exit", "kill"}
  BY DEF SupervisorInv, ServiceOK, ProcessInv, ExitSeen, KillTimesOut, serviceAwaits
<1>3. heldOf(t) = {} BY <1>1, <1>2 DEF ProcessInv, heldOf
<1>4. AtHead(t, {"sync"}) => AtHead(service, {"sync"}) BY <1>1 DEF AtHead
<1>5. StopReady(t)
  BY <1>1, <1>2, <1>3, <1>4 DEF StopReady, ProcessInv, DesiredInv, RequestsOK, AtHead, AtRest
<1>6. ServiceOK(service') BY <1>1, <1>5, ServiceStops
<1>7. /\ service'.queue \in {service.queue, Tail(service.queue)} /\ service'.made = service.made
      /\ service'.alive = service.alive /\ service'.backoff = service.backoff /\ service'.ticking = service.ticking
  BY <1>1, <1>2, StopKeepsTimers
<1>8. service' \in ServiceType BY <1>6 DEF ServiceOK
<1>9. TimersOK(service') BY <1>2, <1>7, <1>8, TimersStay DEF SupervisorInv
<1> QED BY <1>6, <1>9 DEF SupervisorInv

\* A step that leaves operations, processes, timers and configuration alone.
LEMMA ServiceFrame ==
    ASSUME NEW s \in ServiceType, NEW u \in ServiceType, SupervisorInv(s),
           u.queue = s.queue, u.stopping = s.stopping, u.process = s.process, u.made = s.made, u.alive = s.alive,
           u.abandoned = s.abandoned, u.running = s.running, u.backoff = s.backoff, u.ticking = s.ticking,
           u.disposed = s.disposed, u.enabled = s.enabled, u.policy = s.policy, u.socket = s.socket,
           u.awaiting = s.awaiting \/ (s.awaiting = "exit" /\ u.awaiting = "kill"),
           s.state = "failed" => u.state = "failed" \/ u.process # 0
    PROVE  SupervisorInv(u)
<1>1. ProcessInv(u) BY DEF SupervisorInv, ServiceOK, ProcessInv, heldOf, AtHead
<1>2. DesiredInv(u) BY DEF SupervisorInv, ServiceOK, DesiredInv, AtHead, Starts, AtRest
<1>3. TimersOK(u) BY DEF SupervisorInv, TimersOK
<1> QED BY <1>1, <1>2, <1>3 DEF SupervisorInv, ServiceOK

LEMMA ServiceReports ==
    ASSUME SupervisorInv(service), StopTimesOut \/ StartTimesOut \/ ServiceReady \/ ServiceConnects \/ ServiceDisconnects
    PROVE  SupervisorInv(service')
<1>1. service \in ServiceType BY DEF SupervisorInv, ServiceOK
<1>t. /\ service.awaiting \in {"nothing", "socket", "spawn", "exit", "kill"} /\ service.connected \in BOOLEAN
      /\ service.killed \in SUBSET Nat /\ service.process \in Nat /\ service.running \in Nat
      /\ service.state \in {"stopped", "stopping", "disabled", "failed", "starting", "running", "backoff"}
  BY <1>1 DEF ServiceType
<1>2. ASSUME NEW awaiting \in {"nothing", "socket", "spawn", "exit", "kill"}, NEW connected \in BOOLEAN, NEW killed \in SUBSET Nat,
             NEW state \in {"stopped", "stopping", "disabled", "failed", "starting", "running", "backoff"},
             awaiting = service.awaiting \/ (service.awaiting = "exit" /\ awaiting = "kill"),
             state = service.state \/ service.process # 0
      PROVE  SupervisorInv([service EXCEPT !.awaiting = awaiting, !.connected = connected, !.killed = killed, !.state = state])
  <2> DEFINE u == [service EXCEPT !.awaiting = awaiting, !.connected = connected, !.killed = killed, !.state = state]
  <2>1. u \in ServiceType BY <1>1 DEF ServiceType
  <2>2. /\ u.queue = service.queue /\ u.stopping = service.stopping /\ u.process = service.process
        /\ u.made = service.made /\ u.alive = service.alive /\ u.abandoned = service.abandoned
        /\ u.running = service.running /\ u.backoff = service.backoff /\ u.ticking = service.ticking
        /\ u.disposed = service.disposed /\ u.enabled = service.enabled /\ u.policy = service.policy
        /\ u.socket = service.socket /\ u.awaiting = awaiting /\ u.state = state
    BY <1>1 DEF ServiceType
  <2> HIDE DEF u
  <2>3. u.awaiting = service.awaiting \/ (service.awaiting = "exit" /\ u.awaiting = "kill")
    BY <1>2, <2>2
  <2>4. service.state = "failed" => u.state = "failed" \/ u.process # 0 BY <1>2, <2>2
  <2>5. SupervisorInv(u) BY <1>1, <2>1, <2>2, <2>3, <2>4, ServiceFrame
  <2> QED BY <2>5 DEF u
<1>3. CASE StopTimesOut
  <2>1. service.killed \cup {service.running} \in SUBSET Nat BY <1>t
  <2>2. service' = [service EXCEPT !.awaiting = "kill", !.connected = service.connected,
                                   !.killed = service.killed \cup {service.running}, !.state = service.state]
    BY <1>1, <1>3 DEF StopTimesOut, ServiceType
  <2>3. service.awaiting = "exit" BY <1>3 DEF StopTimesOut, serviceAwaits
  <2> QED BY <1>t, <1>2, <2>1, <2>2, <2>3
<1>4. CASE StartTimesOut
  <2>1. service.killed \cup {service.process} \in SUBSET Nat BY <1>t
  <2>2. service' = [service EXCEPT !.awaiting = service.awaiting, !.connected = service.connected,
                                   !.killed = service.killed \cup {service.process}, !.state = service.state]
    BY <1>1, <1>4 DEF StartTimesOut, ServiceType
  <2> DEFINE killed == service.killed \cup {service.process}
  <2> HIDE DEF killed
  <2>3. killed \in SUBSET Nat BY <2>1 DEF killed
  <2>4. SupervisorInv([service EXCEPT !.awaiting = service.awaiting, !.connected = service.connected,
                                      !.killed = killed, !.state = service.state])
    BY <1>t, <1>2, <2>3
  <2> QED BY <2>2, <2>4 DEF killed
<1>5. CASE ServiceReady
  <2>1. service' = [service EXCEPT !.awaiting = service.awaiting, !.connected = service.connected,
                                   !.killed = service.killed, !.state = "running"]
    BY <1>1, <1>5 DEF ServiceReady, ServiceType
  <2>2. service.process # 0 BY <1>5 DEF ServiceReady
  <2> QED BY <1>t, <1>2, <2>1, <2>2
<1>6. CASE ServiceConnects
  <2> DEFINE state == IF service.state = "starting" /\ service.readiness = "connected" THEN "running" ELSE service.state
  <2>1. service' = [service EXCEPT !.awaiting = service.awaiting, !.connected = TRUE,
                                   !.killed = service.killed, !.state = state]
    BY <1>1, <1>6 DEF ServiceConnects, ServiceType
  <2>2. service.process # 0 /\ state \in {"stopped", "stopping", "disabled", "failed", "starting", "running", "backoff"}
    BY <1>t, <1>6 DEF ServiceConnects
  <2> HIDE DEF state
  <2>3. state = service.state \/ service.process # 0 BY <2>2
  <2>4. SupervisorInv([service EXCEPT !.awaiting = service.awaiting, !.connected = TRUE,
                                      !.killed = service.killed, !.state = state])
    BY <1>t, <1>2, <2>2, <2>3
  <2> QED BY <2>1, <2>4
<1>7. CASE ServiceDisconnects
  <2>1. service' = [service EXCEPT !.awaiting = service.awaiting, !.connected = FALSE,
                                   !.killed = service.killed, !.state = service.state]
    BY <1>1, <1>7 DEF ServiceDisconnects, ServiceType
  <2> QED BY <1>t, <1>2, <2>1
<1> QED BY <1>3, <1>4, <1>5, <1>6, <1>7

\* A process exits.
LEMMA ServiceExits ==
    ASSUME SupervisorInv(service), NEW p, NEW failed, ProcessExits(p, failed)
    PROVE  SupervisorInv(service')
<1> DEFINE s == [service EXCEPT !.alive = @ \ {p}]
<1>1. /\ service \in ServiceType /\ ProcessInv(service) /\ DesiredInv(service) /\ TimersOK(service)
      /\ p \in service.alive /\ p \in Nat \ {0} /\ service.alive \subseteq Nat \ {0}
  BY DEF SupervisorInv, ServiceOK, ServiceType, ProcessExits
<1>2. /\ s \in ServiceType /\ s.alive = service.alive \ {p}
      /\ s.queue = service.queue /\ s.stopping = service.stopping /\ s.process = service.process /\ s.made = service.made
      /\ s.abandoned = service.abandoned /\ s.running = service.running /\ s.backoff = service.backoff
      /\ s.ticking = service.ticking /\ s.disposed = service.disposed /\ s.enabled = service.enabled
      /\ s.policy = service.policy /\ s.socket = service.socket /\ s.awaiting = service.awaiting /\ s.state = service.state
  BY <1>1 DEF ServiceType
<1>3. heldOf(s) = heldOf(service) \ {p} BY <1>2 DEF heldOf
<1>4. CASE service' = s
  <2>1. ProcessInv(s) BY <1>1, <1>2, <1>3 DEF ProcessInv, AtHead
  <2>2. DesiredInv(s) BY <1>1, <1>2 DEF DesiredInv, AtHead, Starts, AtRest
  <2>3. TimersOK(s) BY <1>1, <1>2 DEF TimersOK
  <2> HIDE DEF s
  <2> QED BY <1>2, <1>4, <2>1, <2>2, <2>3 DEF SupervisorInv, ServiceOK
<1>5. CASE service.process = p /\ service.stopping
  <2> DEFINE u == [s EXCEPT !.process = 0]
  <2>1. service' = u BY <1>5 DEF ProcessExits
  <2> HIDE DEF s
  <2>2. /\ u \in ServiceType /\ u.process = 0 /\ u.alive = s.alive /\ u.queue = s.queue /\ u.stopping = s.stopping
        /\ u.made = s.made /\ u.abandoned = s.abandoned /\ u.running = s.running /\ u.backoff = s.backoff
        /\ u.ticking = s.ticking /\ u.disposed = s.disposed /\ u.enabled = s.enabled /\ u.policy = s.policy
        /\ u.socket = s.socket /\ u.awaiting = s.awaiting /\ u.state = s.state
    BY <1>2 DEF ServiceType
  <2> HIDE DEF u
  <2>3. heldOf(u) = heldOf(s) BY <2>2 DEF heldOf
  <2>4. ProcessInv(u) BY <1>1, <1>2, <1>3, <1>5, <2>2, <2>3 DEF ProcessInv, AtHead
  <2>5. DesiredInv(u)
    <3>1. u.stopping /\ u.awaiting # "nothing" /\ u.awaiting \notin {"socket", "spawn"} /\ u.backoff = 0
      BY <1>1, <1>2, <1>5, <2>2 DEF ProcessInv
    <3>2. service.queue \in Seq(ServiceRequest) /\ service.queue # << >> /\ 1 \in 1..Len(service.queue)
      BY <1>1, <1>5, QueueMoves DEF ProcessInv, ServiceType
    <3>3. service.queue[1][1] = "dispose" => service.disposed BY <1>1, <3>2 DEF ProcessInv
    <3>4. ~u.disposed => AtHead(service, {"sync"}) \/ AtHead(service, {"restart"})
      BY <1>1, <1>2, <1>5, <2>2, <3>3 DEF ProcessInv, AtHead
    <3>5. Waiting(u.queue, {"sync"}, 2) => Waiting(u.queue, {"sync", "restart"}, 2) BY DEF Waiting
    <3>6. u.queue = service.queue /\ u.disposed = service.disposed /\ u.enabled = service.enabled /\ u.awaiting = service.awaiting
      BY <1>2, <2>2
    <3>7. u.disposed => Waiting(u.queue, {"dispose"}, 1) BY <1>1, <3>1, <3>6 DEF DesiredInv, AtRest
    <3>8. ~u.disposed /\ ~u.enabled => Waiting(u.queue, {"sync"}, 2) \/ AtHead(u, {"sync"})
      BY <1>1, <3>1, <3>6 DEF DesiredInv, AtRest, AtHead
    <3>9. ~u.disposed /\ u.enabled /\ AtHead(u, {"sync"}) => Waiting(u.queue, {"sync"}, 2)
      BY <1>1, <1>5, <3>6 DEF DesiredInv, AtHead
    <3>10. ~u.disposed /\ u.enabled => Waiting(u.queue, {"sync", "restart"}, 2) \/ Starts(u)
      BY <3>4, <3>5, <3>6, <3>9 DEF Starts, AtHead
    <3> QED BY <3>1, <3>7, <3>8, <3>9, <3>10 DEF DesiredInv
  <2>6. TimersOK(u) BY <1>1, <1>2, <2>2 DEF TimersOK
  <2> QED BY <2>1, <2>2, <2>4, <2>5, <2>6 DEF SupervisorInv, ServiceOK
<1>6. ASSUME service.process = p, ~service.stopping
      PROVE  /\ heldOf(s) = {} /\ service.awaiting = "nothing" /\ service.backoff = 0 /\ ~service.ticking
             /\ service.disposed => Waiting(service.queue, {"dispose"}, 1)
             /\ ~service.disposed /\ ~service.enabled => Waiting(service.queue, {"sync"}, 2) \/ AtHead(service, {"sync"})
  <2>1. heldOf(s) = {} /\ service.awaiting = "nothing" /\ service.backoff = 0 /\ ~service.ticking
    BY <1>1, <1>3, <1>6 DEF ProcessInv, ServiceType
  <2>2. ~AtRest(service) BY <1>1, <1>6 DEF AtRest
  <2> QED BY <1>1, <2>1, <2>2 DEF DesiredInv
<1>7. CASE service.process = p /\ ~service.stopping /\ restartsAfter(failed)
  <2> DEFINE u == [s EXCEPT !.process = 0, !.backoff = p, !.ticking = TRUE, !.state = "backoff"]
  <2>1. service' = u BY <1>7 DEF ProcessExits
  <2> HIDE DEF s
  <2>2. /\ u \in ServiceType /\ u.process = 0 /\ u.alive = s.alive /\ u.queue = s.queue /\ u.stopping = s.stopping
        /\ u.made = s.made /\ u.abandoned = s.abandoned /\ u.running = s.running /\ u.backoff = p
        /\ u.ticking = TRUE /\ u.disposed = s.disposed /\ u.enabled = s.enabled /\ u.policy = s.policy
        /\ u.awaiting = s.awaiting
    BY <1>1, <1>2 DEF ServiceType
  <2> HIDE DEF u
  <2>3. heldOf(u) = {} BY <1>6, <1>7, <2>2 DEF heldOf
  <2>4. ProcessInv(u) BY <1>1, <1>2, <1>6, <1>7, <2>2, <2>3 DEF ProcessInv
  <2>5. DesiredInv(u) BY <1>1, <1>2, <1>6, <1>7, <2>2 DEF DesiredInv, restartsAfter, AtHead
  <2>6. TimersOK(u)
    <3>1. u.alive \subseteq 1..u.made /\ p \notin u.alive /\ p <= u.made
      BY <1>1, <1>2, <2>2 DEF TimersOK, ServiceType
    <3> QED BY <1>1, <1>2, <2>2, <3>1 DEF TimersOK
  <2> QED BY <2>1, <2>2, <2>4, <2>5, <2>6 DEF SupervisorInv, ServiceOK
<1>8. CASE service.process = p /\ ~service.stopping /\ ~restartsAfter(failed)
  <2> DEFINE state == IF failed THEN "failed" ELSE "stopped"
             u == [releaseSocket(s) EXCEPT !.process = 0, !.state = state]
  <2>1. service' = u BY <1>8 DEF ProcessExits
  <2> HIDE DEF s
  <2>s. state \in {"failed", "stopped"} OBVIOUS
  <2> HIDE DEF state
  <2> DEFINE v == releaseSocket(s)
  <2>v. /\ v \in ServiceType /\ v.process = s.process /\ v.alive = s.alive /\ v.queue = s.queue /\ v.stopping = s.stopping
        /\ v.made = s.made /\ v.abandoned = s.abandoned /\ v.running = s.running /\ v.backoff = s.backoff
        /\ v.ticking = s.ticking /\ v.disposed = s.disposed /\ v.enabled = s.enabled /\ v.policy = s.policy
        /\ v.awaiting = s.awaiting
    BY <1>2 DEF ServiceType, releaseSocket
  <2> HIDE DEF v
  <2>w. u = [v EXCEPT !.process = 0, !.state = state] BY DEF v
  <2>2. /\ u \in ServiceType /\ u.process = 0 /\ u.alive = s.alive /\ u.queue = s.queue /\ u.stopping = s.stopping
        /\ u.made = s.made /\ u.abandoned = s.abandoned /\ u.running = s.running /\ u.backoff = s.backoff
        /\ u.ticking = s.ticking /\ u.disposed = s.disposed /\ u.enabled = s.enabled /\ u.policy = s.policy
        /\ u.awaiting = s.awaiting /\ u.state = state
    <3> HIDE DEF u
    <3> QED BY <2>s, <2>v, <2>w DEF ServiceType
  <2> HIDE DEF u
  <2>3. heldOf(u) = {} BY <1>6, <1>8, <2>2 DEF heldOf
  <2>4. ProcessInv(u) BY <1>1, <1>2, <1>6, <1>8, <2>2, <2>3 DEF ProcessInv
  <2>5. DesiredInv(u) BY <1>1, <1>2, <1>6, <1>8, <2>2 DEF DesiredInv, restartsAfter, AtHead
  <2>6. TimersOK(u) BY <1>1, <1>2, <2>2 DEF TimersOK
  <2> QED BY <2>1, <2>2, <2>4, <2>5, <2>6 DEF SupervisorInv, ServiceOK
<1>9. service' = s \/ service.process = p BY DEF ProcessExits
<1> QED BY <1>4, <1>5, <1>7, <1>8, <1>9

\* A backoff is over: its operation joins the queue.
LEMMA TimerFires ==
    ASSUME SupervisorInv(service), BackoffOver
    PROVE  SupervisorInv(service')
<1> DEFINE s == service
           o == <<"respawn", s.backoff>>
           q == s.queue
           r == Append(q, o)
<1>1. /\ s \in ServiceType /\ ProcessInv(s) /\ DesiredInv(s) /\ TimersOK(s)
      /\ q \in Seq(ServiceRequest) /\ o \in ServiceRequest /\ s.backoff # 0
  BY DEF SupervisorInv, ServiceOK, ServiceType, ServiceRequest, ProcessInv, BackoffOver
<1>2. /\ r \in Seq(ServiceRequest) /\ r # << >>
      /\ q # << >> => r[1] = q[1]
      /\ q = << >> => r[1] = o
      /\ \A i \in 1..Len(r) : r[i] = o \/ \E j \in 1..Len(q) : r[i] = q[j]
      /\ \A kinds : Waiting(q, kinds, 1) => Waiting(r, kinds, 1)
      /\ \A kinds : Waiting(q, kinds, 2) => Waiting(r, kinds, 2)
      /\ RespawnDue(r, s.backoff)
  <2>1. o[1] = "respawn" /\ o[2] = s.backoff OBVIOUS
  <2> HIDE DEF o, q
  <2> QED BY <1>1, <2>1, QueueGrows
<1>3. /\ service'.queue = r /\ service'.ticking = FALSE /\ service'.stopping = s.stopping /\ service'.process = s.process
      /\ service'.made = s.made /\ service'.alive = s.alive /\ service'.abandoned = s.abandoned
      /\ service'.running = s.running /\ service'.backoff = s.backoff /\ service'.disposed = s.disposed
      /\ service'.enabled = s.enabled /\ service'.policy = s.policy /\ service'.socket = s.socket
      /\ service'.awaiting = s.awaiting /\ service'.state = s.state
  BY <1>1 DEF BackoffOver, ServiceType
<1>4. service' \in ServiceType BY <1>1, <1>2 DEF BackoffOver, ServiceType
<1>5. o[1] = "respawn" /\ o[2] = s.backoff OBVIOUS
<1> HIDE DEF r, o
<1>6. /\ \A kinds : q # << >> => (AtHead(service', kinds) <=> AtHead(s, kinds))
      /\ s.awaiting # "nothing" => q # << >>
      /\ q = << >> => service'.queue[1][1] = "respawn"
  BY <1>1, <1>2, <1>3, <1>5 DEF AtHead, ProcessInv
<1>7. ProcessInv(service')
  <2>1. \A i \in 1..Len(service'.queue) : /\ service'.queue[i][1] = "respawn" => service'.queue[i][2] # 0
                                          /\ service'.queue[i][1] = "dispose" => service'.disposed
    BY <1>1, <1>2, <1>3, <1>5 DEF ProcessInv
  <2>2. heldOf(service') = heldOf(s) BY <1>3 DEF heldOf
  <2>3. service'.stopping => AtHead(service', {"sync", "restart", "dispose"})
    BY <1>1, <1>3, <1>6 DEF ProcessInv
  <2>4. service'.awaiting \in {"socket", "spawn"} => AtHead(service', {"sync", "restart", "respawn"})
    BY <1>1, <1>3, <1>6 DEF ProcessInv
  <2> QED BY <1>1, <1>2, <1>3, <2>1, <2>2, <2>3, <2>4 DEF ProcessInv
<1>8. DesiredInv(service')
  <2>1. AtHead(s, {"sync"}) => AtHead(service', {"sync"}) BY <1>6 DEF AtHead
  <2>2. AtHead(service', {"sync"}) => AtHead(s, {"sync"}) BY <1>6 DEF AtHead
  <2>3. Starts(s) => Starts(service') BY <1>3, <1>6 DEF Starts, AtHead
  <2>4. AtRest(s) => s.backoff = 0 BY DEF AtRest
  <2> QED BY <1>1, <1>2, <1>3, <2>1, <2>2, <2>3, <2>4 DEF DesiredInv
<1>9. TimersOK(service') BY <1>1, <1>2, <1>3, <1>5 DEF TimersOK
<1> QED BY <1>4, <1>7, <1>8, <1>9 DEF SupervisorInv, ServiceOK

\* A request joins the queue.
LEMMA ServiceRequested ==
    ASSUME SupervisorInv(service), SyncRequested \/ RestartRequested \/ EnabledChanges \/ DisposeRequested
    PROVE  SupervisorInv(service')
<1> DEFINE s == service
           q == s.queue
<1>1. /\ s \in ServiceType /\ ProcessInv(s) /\ DesiredInv(s) /\ TimersOK(s) /\ q \in Seq(ServiceRequest)
  BY DEF SupervisorInv, ServiceOK, ServiceType
<1>2. PICK kind \in {"sync", "restart", "dispose"}, enabled \in BOOLEAN, disposed \in BOOLEAN :
        /\ service' = [s EXCEPT !.enabled = enabled, !.disposed = disposed, !.queue = Append(@, <<kind, 0>>), !.requests = @ + 1]
        /\ disposed <=> s.disposed \/ kind = "dispose"
        /\ enabled = s.enabled \/ kind = "sync"
        /\ kind = "dispose" => enabled = s.enabled
  <2>1. ASSUME NEW kind \in {"sync", "restart"}, Requested(kind, s)
        PROVE  service' = [s EXCEPT !.enabled = s.enabled, !.disposed = s.disposed, !.queue = Append(@, <<kind, 0>>), !.requests = @ + 1]
    BY <1>1, <2>1 DEF Requested, ServiceType
  <2>2. CASE SyncRequested BY <1>1, <2>1, <2>2 DEF SyncRequested, ServiceType
  <2>3. CASE RestartRequested BY <1>1, <2>1, <2>3 DEF RestartRequested, ServiceType
  <2>4. CASE EnabledChanges
    <3> DEFINE enabled == ~s.enabled
    <3>1. enabled \in BOOLEAN /\ s.disposed \in BOOLEAN BY <1>1 DEF ServiceType
    <3>2. Requested("sync", [s EXCEPT !.enabled = enabled]) BY <2>4 DEF EnabledChanges
    <3> HIDE DEF enabled
    <3>3. service' = [s EXCEPT !.enabled = enabled, !.disposed = s.disposed, !.queue = Append(@, <<"sync", 0>>), !.requests = @ + 1]
      BY <1>1, <3>2 DEF Requested, ServiceType
    <3> QED BY <3>1, <3>3
  <2>5. CASE DisposeRequested
    <3>1. service' = [s EXCEPT !.enabled = s.enabled, !.disposed = TRUE, !.queue = Append(@, <<"dispose", 0>>), !.requests = @ + 1]
      BY <1>1, <2>5 DEF DisposeRequested, Requested, ServiceType
    <3>2. s.enabled \in BOOLEAN BY <1>1 DEF ServiceType
    <3> QED BY <3>1, <3>2
  <2> QED BY <2>2, <2>3, <2>4, <2>5
<1> DEFINE o == <<kind, 0>>
           r == Append(q, o)
<1>3. o \in ServiceRequest /\ o[1] = kind BY DEF ServiceRequest
<1>4. /\ r \in Seq(ServiceRequest) /\ r # << >>
      /\ q # << >> => r[1] = q[1]
      /\ q = << >> => r[1] = o
      /\ \A i \in 1..Len(r) : r[i] = o \/ \E j \in 1..Len(q) : r[i] = q[j]
      /\ \A kinds : Waiting(q, kinds, 1) => Waiting(r, kinds, 1)
      /\ \A kinds : Waiting(q, kinds, 2) => Waiting(r, kinds, 2)
      /\ \A kinds : kind \in kinds => Waiting(r, kinds, 1)
      /\ \A kinds : kind \in kinds /\ q # << >> => Waiting(r, kinds, 2)
      /\ \A timer : RespawnDue(q, timer) => RespawnDue(r, timer)
  <2> HIDE DEF o, q
  <2> QED BY <1>1, <1>3, QueueGrows
<1>5. service' \in ServiceType
  <2>1. s.requests + 1 \in Nat BY <1>1 DEF ServiceType
  <2> DEFINE n == s.requests + 1
  <2>2. service' = [s EXCEPT !.enabled = enabled, !.disposed = disposed, !.queue = r, !.requests = n]
    BY <1>1, <1>2 DEF ServiceType
  <2> HIDE DEF n, r
  <2>3. n \in Nat /\ r \in Seq(ServiceRequest) BY <1>4, <2>1 DEF n
  <2> QED BY <1>1, <2>2, <2>3 DEF ServiceType
<1>6. /\ service'.queue = r /\ service'.ticking = s.ticking /\ service'.stopping = s.stopping /\ service'.process = s.process
      /\ service'.made = s.made /\ service'.alive = s.alive /\ service'.abandoned = s.abandoned
      /\ service'.running = s.running /\ service'.backoff = s.backoff /\ service'.disposed = disposed
      /\ service'.enabled = enabled /\ service'.policy = s.policy /\ service'.socket = s.socket
      /\ service'.awaiting = s.awaiting /\ service'.state = s.state
  BY <1>1, <1>2 DEF ServiceType
<1> HIDE DEF r, o
<1>7. /\ \A kinds : q # << >> => (AtHead(service', kinds) <=> AtHead(s, kinds))
      /\ s.awaiting # "nothing" => q # << >>
      /\ q = << >> => (\A kinds : AtHead(service', kinds) <=> kind \in kinds) /\ s.awaiting = "nothing"
  BY <1>1, <1>3, <1>4, <1>6 DEF AtHead, ProcessInv
<1>8. ProcessInv(service')
  <2>1. \A i \in 1..Len(service'.queue) : /\ service'.queue[i][1] = "respawn" => service'.queue[i][2] # 0
                                          /\ service'.queue[i][1] = "dispose" => service'.disposed
    BY <1>1, <1>2, <1>3, <1>4, <1>6 DEF ProcessInv
  <2>2. heldOf(service') = heldOf(s) BY <1>6 DEF heldOf
  <2>3. service'.stopping => AtHead(service', {"sync", "restart", "dispose"})
    BY <1>1, <1>6, <1>7 DEF ProcessInv
  <2>4. service'.awaiting \in {"socket", "spawn"} => AtHead(service', {"sync", "restart", "respawn"})
    BY <1>1, <1>6, <1>7 DEF ProcessInv
  <2> QED BY <1>1, <1>4, <1>6, <2>1, <2>2, <2>3, <2>4 DEF ProcessInv
<1>9. DesiredInv(service')
  <2> DEFINE u == service'
  <2>1. u.disposed => Waiting(u.queue, {"dispose"}, 1) \/ AtRest(u)
    <3>1. AtRest(s) => AtRest(u) BY <1>6 DEF AtRest
    <3> QED BY <1>1, <1>2, <1>4, <1>6, <3>1 DEF DesiredInv
  <2>2. ~u.disposed => ~s.disposed BY <1>2, <1>6
  <2>3. ~u.disposed /\ ~u.enabled =>
         \/ Waiting(u.queue, {"sync"}, 2)
         \/ AtHead(u, {"sync"}) /\ u.awaiting \notin {"socket", "spawn"}
         \/ AtRest(u)
    <3>1. CASE kind = "sync" BY <1>4, <1>6, <1>7, <3>1
    <3>2. CASE kind # "sync"
      <4>1. q # << >> => (AtHead(u, {"sync"}) <=> AtHead(s, {"sync"})) BY <1>7
      <4>2. AtHead(s, {"sync"}) => q # << >> BY DEF AtHead
      <4>3. AtRest(s) => AtRest(u) BY <1>6 DEF AtRest
      <4> QED BY <1>1, <1>2, <1>4, <1>6, <2>2, <3>2, <4>1, <4>2, <4>3 DEF DesiredInv
    <3> QED BY <3>1, <3>2
  <2>4. ~u.disposed /\ u.backoff # 0 => u.ticking \/ RespawnDue(u.queue, u.backoff)
    BY <1>1, <1>4, <1>6, <2>2 DEF DesiredInv
  <2>5. ~u.disposed /\ u.enabled /\ AtHead(u, {"sync"}) /\ u.stopping => Waiting(u.queue, {"sync"}, 2)
    <3>1. u.stopping => q # << >> BY <1>1, <1>6, <1>7 DEF ProcessInv
    <3>2. CASE kind = "sync" BY <1>4, <1>6, <3>1, <3>2
    <3>3. CASE kind # "sync" BY <1>1, <1>2, <1>4, <1>6, <1>7, <2>2, <3>1, <3>3 DEF DesiredInv
    <3> QED BY <3>2, <3>3
  <2>6. ~u.disposed /\ u.enabled /\ u.policy = "always" =>
         u.state = "failed" \/ u.process # 0 \/ u.backoff # 0 \/ Waiting(u.queue, {"sync", "restart"}, 2) \/ Starts(u)
    <3>1. CASE kind = "sync" \/ kind = "restart"
      <4>1. q = << >> => Starts(u)
        <5>1. q = << >> => AtHead(u, {"sync"}) \/ AtHead(u, {"restart"}) BY <1>7, <3>1
        <5> QED BY <1>6, <1>7, <5>1 DEF Starts
      <4> QED BY <1>4, <1>6, <3>1, <4>1
    <3>2. CASE kind = "dispose" BY <1>2, <1>6, <3>2
    <3> QED BY <3>1, <3>2
  <2> QED BY <2>1, <2>3, <2>4, <2>5, <2>6 DEF DesiredInv
<1>10. TimersOK(service') BY <1>1, <1>2, <1>3, <1>4, <1>6 DEF TimersOK
<1> QED BY <1>5, <1>8, <1>9, <1>10 DEF SupervisorInv, ServiceOK

LEMMA ServiceHolds == ASSUME SupervisorInv(service), [ServiceNext]_service PROVE SupervisorInv(service')
<1>1. CASE SupervisorSteps
  BY <1>1, OperationStarted, StartGoesOn, StartIsOver, StopIsOver, ServiceReports, TimerFires DEF SupervisorSteps
<1>2. CASE \E p \in ServiceProcess, failed \in BOOLEAN : ProcessExits(p, failed)
  BY <1>2, ServiceExits
<1>3. CASE StartTimesOut \/ ServiceReady \/ ServiceConnects \/ ServiceDisconnects
  BY <1>3, ServiceReports
<1>4. CASE SyncRequested \/ RestartRequested \/ EnabledChanges \/ DisposeRequested
  BY <1>4, ServiceRequested
<1>5. CASE UNCHANGED service BY <1>5
<1> QED BY <1>1, <1>2, <1>3, <1>4, <1>5 DEF ServiceNext

\* The supervisor of a managed service never has two processes, and when no operation is left
\* the service is as its configuration wants it: stopped, or running, or about to be restarted.
THEOREM ServiceControlled == ServiceSpec => [](OneServiceProcess /\ DesiredState)
<1>1. ServiceInit => SupervisorInv(service) BY ServiceInitial
<1>2. SupervisorInv(service) /\ [ServiceNext]_service => SupervisorInv(service)' BY ServiceHolds
<1>3. SupervisorInv(service) => OneServiceProcess /\ DesiredState
  <2> SUFFICES ASSUME SupervisorInv(service) PROVE OneServiceProcess /\ DesiredState
    OBVIOUS
  <2>1. service \in ServiceType /\ ProcessInv(service) /\ DesiredInv(service) /\ heldProcesses = heldOf(service)
    BY DEF SupervisorInv, ServiceOK, heldOf, heldProcesses
  <2>2. \E p : heldProcesses \subseteq {p} /\ p \in {service.process, service.running}
    BY <2>1 DEF ProcessInv
  <2>3. \A p : IsFiniteSet({p}) /\ Cardinality({p}) = 1 BY FS_Singleton
  <2>4. Cardinality(heldProcesses) <= 1
    <3>1. PICK p : heldProcesses \subseteq {p} BY <2>2
    <3>2. CASE heldProcesses = {} BY <3>2, FS_EmptySet
    <3>3. CASE heldProcesses = {p} BY <2>3, <3>3
    <3> QED BY <3>1, <3>2, <3>3
  <2>5. OneServiceProcess BY <2>2, <2>4 DEF OneServiceProcess
  <2>6. ASSUME service.queue = << >> PROVE DesiredState
    <3>1. service.queue \in Seq(ServiceRequest) BY <2>1 DEF ServiceType
    <3>2. \A kinds : ~Waiting(service.queue, kinds, 1) /\ ~Waiting(service.queue, kinds, 2) /\ ~AtHead(service, kinds)
      BY <2>6, <3>1, QueueMoves DEF AtHead
    <3>3. \A timer : ~RespawnDue(service.queue, timer)
      <4>1. Len(<< >>) = 0 OBVIOUS
      <4> QED BY <2>6, <4>1 DEF RespawnDue
    <3>4. heldProcesses \subseteq {service.process} /\ 0 \notin heldProcesses
      BY <2>1, <2>6 DEF ProcessInv, ServiceType, heldOf
    <3> QED BY <2>1, <3>2, <3>3, <3>4 DEF DesiredState, DesiredInv, AtRest, Starts
  <2> QED BY <2>5, <2>6 DEF DesiredState
<1> QED BY <1>1, <1>2, <1>3, PTL DEF ServiceSpec

-----------------------------------------------------------------------------
(* The console of a process (ConsoleHost).                                 *)

ConsoleType ==
    [made : Nat, history : Seq(Nat), runs : Nat, running : BOOLEAN, finished : BOOLEAN, closed : BOOLEAN,
     pc : [Attachment -> {"none", "snapshot", "live", "flush", "over"}],
     attached : SUBSET Attachment, ended : SUBSET Attachment, aborted : SUBSET Attachment,
     snapshot : [Attachment -> Seq(Nat)], pending : [Attachment -> Seq(Nat)],
     chain : [Attachment -> Seq(Nat)], due : [Attachment -> Nat], sent : [Attachment -> Seq(Nat)]]

\* Consecutive outputs, the last of which is m.
RunTo(s, m) == \A n \in 1..Len(s) : s[n] + Len(s) = m + n

\* What an attachment was sent and will be: nothing before it attaches, a run to the newest
\* output as long as it is attached, and a run that goes no further once it is over.
AttachmentOK(c, a) ==
    /\ c.pc[a] \in {"none", "snapshot"} => c.sent[a] = << >> /\ c.chain[a] = << >>
    /\ c.pc[a] = "none" => c.pending[a] = << >>
    /\ c.pc[a] = "over" => c.chain[a] = << >> /\ \E m \in Int : RunTo(c.sent[a], m)
    /\ a \in c.attached <=> c.pc[a] \in {"snapshot", "live", "flush"}
    /\ c.pc[a] = "snapshot" => RunTo(c.snapshot[a] \o c.pending[a], c.made)
    /\ c.pc[a] \in {"live", "flush"} => RunTo(c.sent[a] \o c.chain[a], c.made)

ConsoleOK(c) ==
    /\ c \in ConsoleType
    /\ RunTo(c.history, c.made)
    /\ \A a \in Attachment : AttachmentOK(c, a)

\* Runs of consecutive outputs: longer by the next one, without their first, and up to a point.
LEMMA RunGrows ==
    ASSUME NEW s \in Seq(Nat), NEW m \in Nat, RunTo(s, m)
    PROVE  Append(s, m + 1) \in Seq(Nat) /\ RunTo(Append(s, m + 1), m + 1)
<1> DEFINE t == Append(s, m + 1)
<1>1. t \in Seq(Nat) /\ Len(s) \in Nat /\ Len(t) = Len(s) + 1 /\ t[Len(s) + 1] = m + 1 /\ \A n \in 1..Len(s) : t[n] = s[n]
  OBVIOUS
<1>2. \A n \in 1..Len(s) : s[n] \in Nat OBVIOUS
<1> HIDE DEF t
<1>3. ASSUME NEW n \in 1..Len(t) PROVE t[n] + Len(t) = (m + 1) + n
  <2>1. CASE n = Len(s) + 1 BY <1>1, <2>1
  <2>2. CASE n # Len(s) + 1
    <3>1. n \in 1..Len(s) BY <1>1, <2>2
    <3>2. s[n] + Len(s) = m + n /\ s[n] \in Nat /\ t[n] = s[n] BY <1>1, <1>2, <3>1 DEF RunTo
    <3>3. n \in Nat /\ \A x, l, k, j \in Nat : x + l = k + j => x + (l + 1) = (k + 1) + j
      BY <1>1, <3>1
    <3> QED BY <1>1, <3>2, <3>3
  <2> QED BY <2>1, <2>2
<1> QED BY <1>1, <1>3 DEF RunTo, t

LEMMA RunTail ==
    ASSUME NEW s \in Seq(Nat), s # << >>, NEW m \in Nat, RunTo(s, m)
    PROVE  Tail(s) \in Seq(Nat) /\ RunTo(Tail(s), m)
<1> DEFINE t == Tail(s)
<1>1. t \in Seq(Nat) /\ Len(s) \in Nat /\ Len(t) = Len(s) - 1 /\ \A n \in 1..Len(t) : t[n] = s[n + 1] /\ n + 1 \in 1..Len(s)
  OBVIOUS
<1>2. \A n \in 1..Len(s) : s[n] \in Nat OBVIOUS
<1> HIDE DEF t
<1>3. ASSUME NEW n \in 1..Len(t) PROVE t[n] + Len(t) = m + n
  <2>1. s[n + 1] + Len(s) = m + (n + 1) /\ s[n + 1] \in Nat /\ t[n] = s[n + 1]
    BY <1>1, <1>2 DEF RunTo
  <2> DEFINE x == t[n]
             l == Len(s)
  <2>2. x \in Nat /\ l \in Nat /\ m \in Nat /\ n \in Nat /\ x + l = m + (n + 1) BY <1>1, <2>1
  <2> HIDE DEF x, l
  <2>3. x + (l - 1) = m + n BY ONLY <2>2
  <2> QED BY <1>1, <2>3 DEF x, l
<1> QED BY <1>1, <1>3 DEF RunTo, t

LEMMA RunPrefix ==
    ASSUME NEW s \in Seq(Nat), NEW t \in Seq(Nat), NEW m \in Nat, RunTo(s \o t, m)
    PROVE  \E k \in Int : RunTo(s, k)
<1>1. /\ Len(s \o t) = Len(s) + Len(t) /\ Len(s) \in Nat /\ Len(t) \in Nat
      /\ \A n \in 1..Len(s) : (s \o t)[n] = s[n] /\ n \in 1..(Len(s) + Len(t)) /\ s[n] \in Nat
  OBVIOUS
<1>2. \A n \in 1..Len(s) : s[n] + Len(s) = (m - Len(t)) + n
  <2>1. TAKE n \in 1..Len(s)
  <2>2. s[n] + (Len(s) + Len(t)) = m + n /\ s[n] \in Nat BY <1>1 DEF RunTo
  <2> DEFINE x == s[n]
             l == Len(s)
             r == Len(t)
  <2>3. x \in Nat /\ l \in Nat /\ r \in Nat /\ m \in Nat /\ n \in Nat /\ x + (l + r) = m + n
    BY <1>1, <2>2
  <2> HIDE DEF x, l, r
  <2>4. x + l = (m - r) + n BY ONLY <2>3
  <2> QED BY <2>4 DEF x, l, r
<1>3. m - Len(t) \in Int BY <1>1
<1> QED BY <1>2, <1>3 DEF RunTo

\* Sequences that are put together.
LEMMA Joined ==
    ASSUME NEW s \in Seq(Nat), NEW t \in Seq(Nat), NEW m \in Nat
    PROVE  /\ s \o t \in Seq(Nat) /\ s \o Append(t, m) = Append(s \o t, m)
           /\ s \o << >> = s /\ << >> \o s = s
           /\ t # << >> => Append(s, Head(t)) \o Tail(t) = s \o t /\ Head(t) \in Nat /\ Tail(t) \in Seq(Nat)
<1>1. s \o t \in Seq(Nat) /\ s \o << >> = s /\ << >> \o s = s OBVIOUS
<1>2. s \o Append(t, m) = Append(s \o t, m) OBVIOUS
<1>3. ASSUME t # << >> PROVE Append(s, Head(t)) \o Tail(t) = s \o t /\ Head(t) \in Nat /\ Tail(t) \in Seq(Nat)
  BY <1>3
<1> QED BY <1>1, <1>2, <1>3

\* A step that changes one attachment leaves what holds of the others.
LEMMA OtherAttachments ==
    ASSUME NEW c, NEW d, NEW a \in Attachment, AttachmentOK(c, a), d.made = c.made,
           d.pc[a] = c.pc[a], d.sent[a] = c.sent[a], d.chain[a] = c.chain[a], d.pending[a] = c.pending[a],
           d.snapshot[a] = c.snapshot[a], a \in d.attached <=> a \in c.attached
    PROVE  AttachmentOK(d, a)
BY DEF AttachmentOK

LEMMA ConsoleInitial == ASSUME ConsoleAssumption, ConsoleInit PROVE ConsoleOK(console)
<1>1. << >> \in Seq(Nat) /\ Len(<< >>) = 0 OBVIOUS
<1>2. console \in ConsoleType BY <1>1 DEF ConsoleInit, ConsoleType
<1>3. RunTo(console.history, console.made) BY <1>1 DEF ConsoleInit, RunTo
<1>4. \A a \in Attachment : AttachmentOK(console, a) BY DEF ConsoleInit, AttachmentOK
<1> QED BY <1>2, <1>3, <1>4 DEF ConsoleOK

\* The process outputs something.
LEMMA OutputKeeps == ASSUME ConsoleAssumption, ConsoleOK(console), ConsoleOutput PROVE ConsoleOK(console')
<1> DEFINE m == console.made + 1
           h == trimmed(Append(console.history, m))
           pending == [a \in Attachment |-> IF a \in console.attached /\ console.pc[a] = "snapshot"
                                            THEN Append(console.pending[a], m) ELSE console.pending[a]]
           chain == [a \in Attachment |-> IF a \in console.attached /\ console.pc[a] # "snapshot"
                                          THEN Append(console.chain[a], m) ELSE console.chain[a]]
<1>1. console \in ConsoleType /\ m \in Nat /\ console.made \in Nat BY DEF ConsoleOK, ConsoleType
<1>2. console' = [console EXCEPT !.made = m, !.history = h, !.pending = pending, !.chain = chain]
  BY <1>1 DEF ConsoleOutput, broadcast, ConsoleType
<1>3. h \in Seq(Nat) /\ RunTo(h, m)
  <2>1. console.history \in Seq(Nat) /\ RunTo(console.history, console.made)
    BY <1>1 DEF ConsoleOK, ConsoleType
  <2>2. Append(console.history, m) \in Seq(Nat) /\ RunTo(Append(console.history, m), m)
    BY <1>1, <2>1, RunGrows
  <2>3. Append(console.history, m) # << >> BY <2>1
  <2>4. Tail(Append(console.history, m)) \in Seq(Nat) /\ RunTo(Tail(Append(console.history, m)), m)
    BY <1>1, <2>2, <2>3, RunTail
  <2> QED BY <2>2, <2>4 DEF trimmed
<1>4. \A a \in Attachment : console.pending[a] \in Seq(Nat) /\ console.chain[a] \in Seq(Nat) /\ console.snapshot[a] \in Seq(Nat)
                            /\ console.sent[a] \in Seq(Nat)
  BY <1>1 DEF ConsoleType
<1>5. pending \in [Attachment -> Seq(Nat)] /\ chain \in [Attachment -> Seq(Nat)] BY <1>1, <1>4
<1>6. \A a \in Attachment : AttachmentOK(console, a) BY DEF ConsoleOK
<1>7. \A a \in Attachment : /\ pending[a] = IF a \in console.attached /\ console.pc[a] = "snapshot"
                                            THEN Append(console.pending[a], m) ELSE console.pending[a]
                            /\ chain[a] = IF a \in console.attached /\ console.pc[a] # "snapshot"
                                          THEN Append(console.chain[a], m) ELSE console.chain[a]
  OBVIOUS
<1> HIDE DEF h, pending, chain
<1>j. \A s, t \in Seq(Nat) : s \o Append(t, m) = Append(s \o t, m)
  <2> HIDE DEF m
  <2> QED BY <1>1, Joined
<1>8. /\ console'.made = m /\ console'.history = h /\ console'.pending = pending /\ console'.chain = chain
      /\ console'.pc = console.pc /\ console'.attached = console.attached /\ console'.sent = console.sent
      /\ console'.snapshot = console.snapshot
  BY <1>1, <1>2 DEF ConsoleType
<1>9. console' \in ConsoleType
  <2> HIDE DEF m
  <2> QED BY <1>1, <1>2, <1>3, <1>5 DEF ConsoleType
<1>10. ASSUME NEW a \in Attachment PROVE AttachmentOK(console', a)
  <2>1. AttachmentOK(console, a) BY <1>6
  <2>2. CASE console.pc[a] \in {"none", "over"} BY <1>7, <1>8, <2>1, <2>2 DEF AttachmentOK
  <2>3. CASE console.pc[a] = "snapshot"
    <3>1. pending[a] = Append(console.pending[a], m) /\ chain[a] = console.chain[a]
      BY <1>7, <2>1, <2>3 DEF AttachmentOK
    <3>2. console.snapshot[a] \o pending[a] = Append(console.snapshot[a] \o console.pending[a], m)
      <4>1. console.snapshot[a] \o Append(console.pending[a], m) = Append(console.snapshot[a] \o console.pending[a], m)
        BY <1>4, <1>j
      <4> QED BY <3>1, <4>1, Zenon
    <3>3. RunTo(Append(console.snapshot[a] \o console.pending[a], m), m)
      <4>1. console.snapshot[a] \o console.pending[a] \in Seq(Nat) /\ RunTo(console.snapshot[a] \o console.pending[a], console.made)
        BY <1>4, <2>1, <2>3, Joined DEF AttachmentOK
      <4> QED BY <1>1, <4>1, RunGrows
    <3> QED BY <1>8, <2>1, <2>3, <3>1, <3>2, <3>3 DEF AttachmentOK
  <2>4. CASE console.pc[a] \in {"live", "flush"}
    <3>1. pending[a] = console.pending[a] /\ chain[a] = Append(console.chain[a], m)
      BY <1>7, <2>1, <2>4 DEF AttachmentOK
    <3>2. console.sent[a] \o chain[a] = Append(console.sent[a] \o console.chain[a], m)
      <4>1. console.sent[a] \o Append(console.chain[a], m) = Append(console.sent[a] \o console.chain[a], m)
        BY <1>4, <1>j
      <4> QED BY <3>1, <4>1, Zenon
    <3>3. RunTo(Append(console.sent[a] \o console.chain[a], m), m)
      <4>1. console.sent[a] \o console.chain[a] \in Seq(Nat) /\ RunTo(console.sent[a] \o console.chain[a], console.made)
        BY <1>4, <2>1, <2>4, Joined DEF AttachmentOK
      <4> QED BY <1>1, <4>1, RunGrows
    <3> QED BY <1>8, <2>1, <2>4, <3>1, <3>2, <3>3 DEF AttachmentOK
  <2> QED BY <1>1, <2>2, <2>3, <2>4 DEF ConsoleType
<1> QED BY <1>3, <1>8, <1>9, <1>10 DEF ConsoleOK

\* The process starts, ends, is finished or closed; a caller cancels.
LEMMA ProcessKeeps ==
    ASSUME ConsoleOK(console),
           ConsoleStarted \/ ConsoleExited \/ ConsoleFinish \/ ConsoleClose \/ \E a \in Attachment : AttachmentAborts(a)
    PROVE  ConsoleOK(console')
<1>1. console \in ConsoleType BY DEF ConsoleOK
<1>2. PICK running \in BOOLEAN, isDone \in BOOLEAN, closed \in BOOLEAN, runs \in Nat,
           ended \in SUBSET Attachment, aborted \in SUBSET Attachment :
        console' = [console EXCEPT !.running = running, !.finished = isDone, !.closed = closed, !.runs = runs,
                                   !.ended = ended, !.aborted = aborted]
  <2> DEFINE changed(running, isDone, closed, runs, ended, aborted) ==
               [console EXCEPT !.running = running, !.finished = isDone, !.closed = closed, !.runs = runs,
                               !.ended = ended, !.aborted = aborted]
  <2>1. /\ console.running \in BOOLEAN /\ console.finished \in BOOLEAN /\ console.closed \in BOOLEAN
        /\ console.runs \in Nat /\ console.runs + 1 \in Nat
        /\ console.ended \in SUBSET Attachment /\ console.ended \cup console.attached \in SUBSET Attachment
        /\ console.aborted \in SUBSET Attachment
    BY <1>1 DEF ConsoleType
  <2>2. CASE ConsoleStarted
    <3>1. console' = changed(TRUE, FALSE, console.closed, console.runs + 1, console.ended, console.aborted)
      BY <1>1, <2>2 DEF ConsoleStarted, ConsoleType
    <3> QED BY <2>1, <3>1
  <2>3. CASE ConsoleExited
    <3>1. console' = changed(FALSE, console.finished, console.closed, console.runs, console.ended, console.aborted)
      BY <1>1, <2>3 DEF ConsoleExited, ConsoleType
    <3> QED BY <2>1, <3>1
  <2>4. CASE ConsoleFinish
    <3>1. console' = changed(console.running, TRUE, console.closed, console.runs, console.ended \cup console.attached, console.aborted)
      BY <1>1, <2>4 DEF ConsoleFinish, consoleFinished, ConsoleType
    <3> QED BY <2>1, <3>1
  <2>5. CASE ConsoleClose
    <3>1. console' = changed(console.running, TRUE, TRUE, console.runs, console.ended \cup console.attached, console.aborted)
      BY <1>1, <2>5 DEF ConsoleClose, consoleFinished, ConsoleType
    <3> QED BY <2>1, <3>1
  <2>6. ASSUME NEW a \in Attachment, AttachmentAborts(a)
        PROVE  /\ console.aborted \cup {a} \in SUBSET Attachment
               /\ console' = changed(console.running, console.finished, console.closed, console.runs, console.ended, console.aborted \cup {a})
    BY <1>1, <2>6 DEF AttachmentAborts, ConsoleType
  <2> HIDE DEF changed
  <2>7. CASE \E a \in Attachment : AttachmentAborts(a)
    <3>1. PICK a \in Attachment : AttachmentAborts(a) BY <2>7
    <3> DEFINE aborted == console.aborted \cup {a}
    <3>2. console' = changed(console.running, console.finished, console.closed, console.runs, console.ended, aborted)
      BY <2>6, <3>1
    <3>3. aborted \in SUBSET Attachment BY <2>6, <3>1
    <3> HIDE DEF aborted
    <3> QED BY <2>1, <3>2, <3>3 DEF changed
  <2> QED BY <2>2, <2>3, <2>4, <2>5, <2>7
<1>t. console' \in ConsoleType BY <1>1, <1>2 DEF ConsoleType
<1>3. /\ console'.made = console.made /\ console'.history = console.history /\ console'.pending = console.pending
      /\ console'.chain = console.chain /\ console'.pc = console.pc /\ console'.attached = console.attached
      /\ console'.sent = console.sent /\ console'.snapshot = console.snapshot
  BY <1>1, <1>2 DEF ConsoleType
<1>4. \A a \in Attachment : AttachmentOK(console', a) BY <1>3 DEF ConsoleOK, AttachmentOK
<1> QED BY <1>t, <1>3, <1>4 DEF ConsoleOK

\* An attachment is made, replays, sends, ends and returns.
LEMMA AttachmentKeeps ==
    ASSUME ConsoleOK(console), NEW a \in Attachment, Attaches(a) \/ ConsoleStep(a)
    PROVE  ConsoleOK(console')
<1>1. /\ console \in ConsoleType /\ RunTo(console.history, console.made) /\ AttachmentOK(console, a)
      /\ console.made \in Nat /\ console.history \in Seq(Nat)
      /\ console.pending[a] \in Seq(Nat) /\ console.chain[a] \in Seq(Nat) /\ console.snapshot[a] \in Seq(Nat)
      /\ console.sent[a] \in Seq(Nat) /\ console.due[a] \in Nat
  BY DEF ConsoleOK, ConsoleType
<1>2. ASSUME console' \in ConsoleType, console'.made = console.made, console'.history = console.history,
             \A b \in Attachment \ {a} : /\ console'.pc[b] = console.pc[b] /\ console'.sent[b] = console.sent[b]
                                         /\ console'.chain[b] = console.chain[b] /\ console'.pending[b] = console.pending[b]
                                         /\ console'.snapshot[b] = console.snapshot[b]
                                         /\ b \in console'.attached <=> b \in console.attached,
             AttachmentOK(console', a)
      PROVE  ConsoleOK(console')
  <2>1. ASSUME NEW b \in Attachment, b # a PROVE AttachmentOK(console', b)
    <3>1. AttachmentOK(console, b) BY DEF ConsoleOK
    <3> QED BY <1>2, <2>1, <3>1, OtherAttachments
  <2> QED BY <1>1, <1>2, <2>1 DEF ConsoleOK
<1>t. << >> \in Seq(Nat) /\ Len(<< >>) = 0 OBVIOUS
<1>3. CASE Attaches(a)
  <2>1. console.pc[a] = "none" /\ console.sent[a] = << >> /\ console.chain[a] = << >> /\ console.pending[a] = << >> /\ a \notin console.attached
    BY <1>1, <1>3 DEF Attaches, AttachmentOK
  <2>2. CASE console.closed
    <3>1. console' = [console EXCEPT !.pc[a] = "over"] BY <1>3, <2>2 DEF Attaches
    <3>2. RunTo(<< >>, 0) /\ 0 \in Int BY <1>t DEF RunTo
    <3>3. console' \in ConsoleType BY <1>1, <3>1 DEF ConsoleType
    <3>4. AttachmentOK(console', a) BY <1>1, <2>1, <3>1, <3>2 DEF ConsoleType, AttachmentOK
    <3> QED BY <1>1, <1>2, <3>1, <3>3, <3>4 DEF ConsoleType
  <2>3. CASE ~console.closed
    <3>1. console' = [console EXCEPT !.pc[a] = "snapshot", !.attached = @ \cup {a}, !.snapshot[a] = console.history]
      BY <1>3, <2>3 DEF Attaches
    <3>2. RunTo(console.history \o << >>, console.made) BY <1>1, Joined
    <3>3. console' \in ConsoleType BY <1>1, <3>1 DEF ConsoleType
    <3>4. AttachmentOK(console', a) BY <1>1, <2>1, <3>1, <3>2 DEF ConsoleType, AttachmentOK
    <3>5. /\ console'.made = console.made /\ console'.history = console.history /\ console'.sent = console.sent
          /\ console'.chain = console.chain /\ console'.pending = console.pending
          /\ console'.attached = console.attached \cup {a}
          /\ \A b \in Attachment \ {a} : console'.pc[b] = console.pc[b] /\ console'.snapshot[b] = console.snapshot[b]
      BY <1>1, <3>1 DEF ConsoleType
    <3> QED BY <1>2, <3>3, <3>4, <3>5
  <2> QED BY <2>2, <2>3
<1>4. CASE GoesLive(a)
  <2> DEFINE chain == console.snapshot[a] \o console.pending[a]
             c == [console EXCEPT !.chain[a] = chain, !.pending[a] = << >>]
  <2>1. /\ console.pc[a] = "snapshot" /\ console.sent[a] = << >> /\ a \in console.attached
        /\ RunTo(<< >> \o chain, console.made) /\ chain \in Seq(Nat)
    <3>1. chain \in Seq(Nat) BY <1>1, Joined
    <3>2. << >> \o chain = chain BY <3>1
    <3> QED BY <1>1, <1>4, <3>1, <3>2 DEF GoesLive, AttachmentOK
  <2>2. console' = IF console.finished THEN flushing(c, a) ELSE [c EXCEPT !.pc[a] = "live"]
    BY <1>4 DEF GoesLive
  <2> HIDE DEF chain
  <2>3. /\ c \in ConsoleType /\ c.made = console.made /\ c.history = console.history /\ c.attached = console.attached
        /\ c.snapshot = console.snapshot /\ c.sent = console.sent /\ c.pc = console.pc
        /\ \A b \in Attachment \ {a} : c.chain[b] = console.chain[b] /\ c.pending[b] = console.pending[b]
        /\ c.chain[a] = chain
    BY <1>1, <1>t, <2>1 DEF ConsoleType
  <2> HIDE DEF c
  <2>4. PICK due \in Nat, stage \in {"live", "flush"} : console' = [c EXCEPT !.pc[a] = stage, !.due[a] = due]
    <3>1. Len(c.chain[a]) \in Nat /\ c.due[a] \in Nat BY <2>1, <2>3 DEF ConsoleType
    <3>2. CASE console.finished
      <4>1. console' = [c EXCEPT !.pc[a] = "flush", !.due[a] = Len(c.chain[a])]
        BY <2>2, <3>2 DEF flushing
      <4> QED BY <3>1, <4>1
    <3>3. CASE ~console.finished
      <4>1. console' = [c EXCEPT !.pc[a] = "live", !.due[a] = c.due[a]]
        BY <2>2, <2>3, <3>3 DEF ConsoleType
      <4> QED BY <3>1, <4>1
    <3> QED BY <3>2, <3>3
  <2>5. console' \in ConsoleType BY <2>3, <2>4 DEF ConsoleType
  <2>6. /\ console'.made = console.made /\ console'.history = console.history /\ console'.attached = console.attached
        /\ console'.snapshot = console.snapshot /\ console'.sent = console.sent
        /\ console'.chain = c.chain /\ console'.pending = c.pending
        /\ console'.pc[a] = stage /\ \A b \in Attachment \ {a} : console'.pc[b] = console.pc[b]
    BY <1>1, <2>3, <2>4 DEF ConsoleType
  <2>7. AttachmentOK(console', a) BY <2>1, <2>3, <2>6 DEF AttachmentOK
  <2> QED BY <1>2, <2>3, <2>5, <2>6, <2>7
<1>5. CASE AttachmentEnds(a)
  <2>1. console.pc[a] = "live" /\ RunTo(console.sent[a] \o console.chain[a], console.made) /\ a \in console.attached
    BY <1>1, <1>5 DEF AttachmentEnds, AttachmentOK
  <2> DEFINE due == Len(console.chain[a])
  <2>2. console' = [console EXCEPT !.pc[a] = "flush", !.due[a] = due] /\ due \in Nat
    BY <1>1, <1>5 DEF AttachmentEnds, flushing
  <2> HIDE DEF due
  <2>3. console' \in ConsoleType BY <1>1, <2>2 DEF ConsoleType
  <2>4. AttachmentOK(console', a) BY <1>1, <2>1, <2>2 DEF ConsoleType, AttachmentOK
  <2>5. /\ console'.made = console.made /\ console'.history = console.history /\ console'.sent = console.sent
        /\ console'.snapshot = console.snapshot /\ console'.pending = console.pending
        /\ console'.attached = console.attached /\ console'.chain = console.chain
        /\ \A b \in Attachment \ {a} : console'.pc[b] = console.pc[b]
    BY <1>1, <2>2 DEF ConsoleType
  <2> QED BY <1>2, <2>3, <2>4, <2>5
<1>6. CASE AttachmentSends(a)
  <2> DEFINE due == IF console.due[a] > 0 THEN console.due[a] - 1 ELSE 0
             chain == Tail(console.chain[a])
             sent == Append(console.sent[a], Head(console.chain[a]))
  <2>1. console.pc[a] \in {"live", "flush"} /\ RunTo(console.sent[a] \o console.chain[a], console.made) /\ a \in console.attached
    <3>1. console.pc[a] \in {"live", "flush"}
      BY <1>1, <1>6 DEF AttachmentSends, AttachmentOK, ConsoleType
    <3> QED BY <1>1, <3>1 DEF AttachmentOK
  <2>2. due \in Nat BY <1>1
  <2>3. chain \in Seq(Nat) /\ sent \in Seq(Nat) /\ sent \o chain = console.sent[a] \o console.chain[a]
    <3>1. Head(console.chain[a]) \in Nat /\ chain \in Seq(Nat) /\ sent \o chain = console.sent[a] \o console.chain[a]
      BY <1>1, <1>6, Joined DEF AttachmentSends
    <3>2. sent \in Seq(Nat) BY <1>1, <3>1
    <3> QED BY <3>1, <3>2
  <2>4. console' = [console EXCEPT !.chain[a] = chain, !.sent[a] = sent, !.due[a] = due]
    BY <1>1, <1>6 DEF AttachmentSends, ConsoleType
  <2> HIDE DEF due, chain, sent
  <2>5. console' \in ConsoleType BY <1>1, <2>2, <2>3, <2>4 DEF ConsoleType
  <2>6. /\ console'.made = console.made /\ console'.history = console.history /\ console'.attached = console.attached
        /\ console'.snapshot = console.snapshot /\ console'.pending = console.pending /\ console'.pc = console.pc
        /\ console'.chain[a] = chain /\ console'.sent[a] = sent
        /\ \A b \in Attachment \ {a} : console'.chain[b] = console.chain[b] /\ console'.sent[b] = console.sent[b]
    BY <1>1, <2>4 DEF ConsoleType
  <2>7. RunTo(sent \o chain, console'.made) BY <2>1, <2>3, <2>6, Zenon
  <2>8. AttachmentOK(console', a) BY <1>1, <2>1, <2>6, <2>7 DEF AttachmentOK
  <2> QED BY <1>2, <2>5, <2>6, <2>8
<1>7. CASE AttachReturns(a)
  <2>1. console.pc[a] = "flush" /\ \E m \in Int : RunTo(console.sent[a], m)
    <3>1. console.pc[a] = "flush" /\ RunTo(console.sent[a] \o console.chain[a], console.made)
      BY <1>1, <1>7 DEF AttachReturns, AttachmentOK
    <3> QED BY <1>1, <3>1, RunPrefix
  <2>2. console' = [console EXCEPT !.pc[a] = "over", !.attached = @ \ {a}, !.chain[a] = << >>, !.due[a] = 0]
    BY <1>7 DEF AttachReturns
  <2>3. console' \in ConsoleType BY <1>1, <1>t, <2>2 DEF ConsoleType
  <2>4. AttachmentOK(console', a) BY <1>1, <2>1, <2>2 DEF ConsoleType, AttachmentOK
  <2>5. /\ console'.made = console.made /\ console'.history = console.history /\ console'.sent = console.sent
        /\ console'.snapshot = console.snapshot /\ console'.pending = console.pending
        /\ console'.attached = console.attached \ {a}
        /\ \A b \in Attachment \ {a} : console'.pc[b] = console.pc[b] /\ console'.chain[b] = console.chain[b]
    BY <1>1, <2>2 DEF ConsoleType
  <2> QED BY <1>2, <2>3, <2>4, <2>5
<1> QED BY <1>3, <1>4, <1>5, <1>6, <1>7 DEF ConsoleStep

\* Whoever attaches to a console is sent a run of consecutive outputs, in order, to the newest
\* one as long as it is attached: none is missed and none comes twice at the end of the replay.
THEOREM ConsoleReplays == ConsoleSpec => []NoReplayGap
<1>1. ConsoleInit => ConsoleOK(console) BY ConsoleInitial, ConsoleAssumption
<1>2. ConsoleOK(console) /\ [ConsoleNext]_console => ConsoleOK(console)'
  <2> SUFFICES ASSUME ConsoleOK(console), [ConsoleNext]_console PROVE ConsoleOK(console')
    OBVIOUS
  <2>1. CASE UNCHANGED console BY <2>1
  <2> QED BY <2>1, OutputKeeps, ProcessKeeps, AttachmentKeeps, ConsoleAssumption DEF ConsoleNext
<1>3. ConsoleOK(console) => NoReplayGap
  <2> SUFFICES ASSUME ConsoleOK(console), NEW a \in Attachment
               PROVE  LET s == console.sent[a] \o console.chain[a] \o
                               (IF console.pc[a] = "snapshot" THEN console.snapshot[a] \o console.pending[a] ELSE << >>)
                      IN  /\ \A n \in 1..Len(s) : s[n] = s[1] + n - 1
                          /\ a \in console.attached /\ s # << >> => s[Len(s)] = console.made
    BY DEF NoReplayGap
  <2> DEFINE s == console.sent[a] \o console.chain[a] \o
                  (IF console.pc[a] = "snapshot" THEN console.snapshot[a] \o console.pending[a] ELSE << >>)
  <2>1. /\ AttachmentOK(console, a) /\ console.made \in Nat /\ console.pc[a] \in {"none", "snapshot", "live", "flush", "over"}
        /\ console.pending[a] \in Seq(Nat) /\ console.chain[a] \in Seq(Nat) /\ console.snapshot[a] \in Seq(Nat)
        /\ console.sent[a] \in Seq(Nat)
    BY DEF ConsoleOK, ConsoleType
  <2>2. s \in Seq(Nat) /\ (\E m \in Int : RunTo(s, m)) /\ (a \in console.attached => RunTo(s, console.made))
    <3>1. CASE console.pc[a] = "snapshot"
      <4> DEFINE t == console.snapshot[a] \o console.pending[a]
      <4>1. t \in Seq(Nat) /\ RunTo(t, console.made) /\ console.sent[a] = << >> /\ console.chain[a] = << >>
        BY <2>1, <3>1, Joined DEF AttachmentOK
      <4>2. s = << >> \o << >> \o t BY <3>1, <4>1
      <4> HIDE DEF t, s
      <4>3. << >> \o << >> \o t = t BY <4>1
      <4> QED BY <2>1, <4>1, <4>2, <4>3
    <3>2. CASE console.pc[a] # "snapshot"
      <4> DEFINE t == console.sent[a] \o console.chain[a]
      <4>1. t \in Seq(Nat) /\ s = t \o << >> BY <2>1, <3>2, Joined
      <4> HIDE DEF t, s
      <4>2. s = t BY <4>1
      <4> USE DEF t
      <4>3. (\E m \in Int : RunTo(t, m)) /\ (a \in console.attached => RunTo(t, console.made))
        <5>1. CASE console.pc[a] \in {"live", "flush"} BY <2>1, <5>1 DEF AttachmentOK
        <5>2. CASE console.pc[a] \in {"none", "over"}
          <6>1. a \notin console.attached /\ t = console.sent[a]
            BY <2>1, <5>2, Joined DEF AttachmentOK
          <6>2. RunTo(<< >>, 0) /\ 0 \in Int BY DEF RunTo
          <6> QED BY <2>1, <5>2, <6>1, <6>2 DEF AttachmentOK
        <5> QED BY <2>1, <3>2, <5>1, <5>2
      <4> QED BY <4>1, <4>2, <4>3
    <3> QED BY <3>1, <3>2
  <2> HIDE DEF s
  <2>3. Len(s) \in Nat /\ (\A n \in 1..Len(s) : s[n] \in Nat) /\ (s # << >> => Len(s) \in 1..Len(s))
    BY <2>2
  <2>4. ASSUME NEW n \in 1..Len(s) PROVE s[n] = s[1] + n - 1
    <3>1. PICK m \in Int : RunTo(s, m) BY <2>2
    <3>2. 1 \in 1..Len(s) BY <2>3
    <3>3. s[1] + Len(s) = m + 1 /\ s[n] + Len(s) = m + n /\ s[1] \in Nat /\ s[n] \in Nat /\ n \in Nat /\ Len(s) \in Nat
      BY <2>3, <3>1, <3>2 DEF RunTo
    <3> DEFINE x == s[1]
               y == s[n]
               l == Len(s)
    <3>4. x + l = m + 1 /\ y + l = m + n /\ x \in Nat /\ y \in Nat /\ n \in Nat /\ l \in Nat /\ m \in Int
      BY <3>3
    <3> HIDE DEF x, y, l
    <3>5. y = x + n - 1 BY ONLY <3>4
    <3> QED BY <3>5 DEF x, y
  <2>5. ASSUME a \in console.attached, s # << >> PROVE s[Len(s)] = console.made
    <3>1. s[Len(s)] + Len(s) = console.made + Len(s) /\ s[Len(s)] \in Nat /\ Len(s) \in Nat
      BY <2>2, <2>3, <2>5 DEF RunTo
    <3>2. \A x, l, k \in Nat : x + l = k + l => x = k OBVIOUS
    <3> QED BY ONLY <2>1, <3>1, <3>2
  <2> QED BY <2>4, <2>5 DEF s
<1> QED BY <1>1, <1>2, <1>3, PTL DEF ConsoleSpec

-----------------------------------------------------------------------------
(* The consent rendezvous of the hub (ConsentRendezvous).                  *)

InLine(q, e) == \E i \in 1..Len(q) : q[i] = e

Distinct(q) == \A i, j \in 1..Len(q) : q[i] = q[j] => i = j

ConsentType ==
    [slots : [ConsentCall -> 0..MaxSlots], pending : SUBSET ParkedEntry,
     told : [ParkedEntry -> Decision \cup {"none", "aborted"}],
     tick : BOOLEAN, watch : {"down", "opening", "up"}, retry : BOOLEAN, refreshPending : BOOLEAN,
     drain : {"idle", "asking", "answered", "leaving"}, behind : BOOLEAN, snap : SUBSET ParkedEntry,
     view : SUBSET ParkedEntry, disposed : BOOLEAN, queue : Seq(ParkedEntry), inFlight : SUBSET ParkedEntry,
     aborted : SUBSET ParkedEntry, tried : SUBSET ParkedEntry, failed : SUBSET ParkedEntry,
     step : {"idle", "resolving", "prompting", "minting", "writing", "accepted", "refused", "refreshing"},
     verdict : Decision, acked : [ParkedEntry -> Decision \cup {"none"}], late : SUBSET (ParkedEntry \X Decision),
     faults : 0..MaxFaults]

\* What the host keeps of a parked entry: it is pending from the call that parks it until its
\* consumer is told, and what was acknowledged is what the consumer was told.
HostInv(s) ==
    /\ \A e \in ParkedEntry :
        /\ e \in s.pending <=> e[2] <= s.slots[e[1]] /\ s.told[e] = "none"
        /\ s.told[e] # "none" => e[2] <= s.slots[e[1]]
        /\ s.acked[e] # "none" => s.told[e] = s.acked[e]
    /\ IsFiniteSet(s.pending) /\ IsFiniteSet(s.snap) /\ IsFiniteSet(s.view)

\* A decision that was accepted, but not acknowledged yet, is one the consumer was told.
AcceptedInv(s) == s.step = "accepted" => s.told[s.queue[1]] = s.verdict

\* A watch that is down will be opened again; one that is being opened is read after, or once more.
DownInv(s) == ~s.disposed /\ s.watch = "down" => s.retry

WatchInv(s) ==
    /\ DownInv(s)
    /\ ~s.disposed /\ s.watch = "opening" => s.retry \/ s.refreshPending \/ (s.drain = "asking" /\ s.behind)

FreshInv(s) ==
    ~s.disposed /\ s.drain # "asking" /\ (IF s.drain = "answered" THEN s.snap ELSE s.view) # s.pending
        => s.tick \/ s.refreshPending \/ s.retry

\* The queue holds what is in flight, each entry once; its head is the one that is dealt with.
QueueInv(s) ==
    /\ Distinct(s.queue)
    /\ \A e : e \in s.inFlight <=> InLine(s.queue, e)
    /\ s.step # "idle" => s.queue # << >>

SeenInv(s) == s.disposed \/ s.view \subseteq s.inFlight \cup s.tried

ConsentBase(s) == s \in ConsentType /\ HostInv(s) /\ AcceptedInv(s) /\ QueueInv(s) /\ SeenInv(s)

ConsentOK(s) == ConsentBase(s) /\ WatchInv(s) /\ FreshInv(s)

\* A finite set as a sequence has each of its elements once.
LEMMA SetListed ==
    ASSUME NEW E, NEW S \in SUBSET E, IsFiniteSet(S)
    PROVE  SetToSeq(S) \in Seq(E) /\ Distinct(SetToSeq(S)) /\ \A e : InLine(SetToSeq(S), e) <=> e \in S
<1> DEFINE n == Cardinality(S)
           q == SetToSeq(S)
<1>1. n \in Nat /\ ExistsBijection(1..n, S) BY FS_CardinalityType
<1>2. PICK f : f \in Bijection(1..n, S) BY <1>1 DEF ExistsBijection
<1>3. f \in [1..n -> S] /\ IsInjective(f) BY <1>2 DEF Bijection, Injection
<1>4. q \in [1..n -> S] /\ IsInjective(q)
  <2>1. q = CHOOSE g \in [1..n -> S] : IsInjective(g) BY DEF SetToSeq
  <2> HIDE DEF q, n
  <2> QED BY <1>3, <2>1
<1>5. q \in Surjection(1..n, S)
  <2>1. q \in Injection(1..n, S) BY <1>4 DEF Injection
  <2>2. IsFiniteSet(1..n) /\ Cardinality(1..n) = n
    <3>1. \A m \in Nat : m = IF 1 > m THEN 0 ELSE m - 1 + 1 OBVIOUS
    <3> QED BY <1>1, <3>1, FS_Interval
  <2> HIDE DEF q
  <2> QED BY <2>1, <2>2, FS_Injection
<1> HIDE DEF q, n
<1>6. q \in Seq(E) /\ Len(q) = n /\ DOMAIN q = 1..n BY <1>1, <1>4
<1>7. \A e \in S : \E i \in 1..n : q[i] = e BY <1>5 DEF Surjection
<1>8. Distinct(q) BY <1>4, <1>6 DEF IsInjective, Distinct
<1>9. \A e : InLine(q, e) <=> e \in S BY <1>4, <1>6, <1>7 DEF InLine
<1> QED BY <1>6, <1>8, <1>9 DEF q

\* What is listed when two lists are put one after the other, and without the head.
LEMMA ListsJoined ==
    ASSUME NEW E, NEW q \in Seq(E), NEW r \in Seq(E), Distinct(q), Distinct(r), \A e : ~(InLine(q, e) /\ InLine(r, e))
    PROVE  /\ q \o r \in Seq(E) /\ Distinct(q \o r) /\ \A e : InLine(q \o r, e) <=> InLine(q, e) \/ InLine(r, e)
           /\ q # << >> => q \o r # << >> /\ (q \o r)[1] = q[1]
<1> DEFINE t == q \o r
           n == Len(q)
           m == Len(r)
<1>1. /\ t \in Seq(E) /\ n \in Nat /\ m \in Nat /\ Len(t) = n + m
      /\ \A i \in 1..n : t[i] = q[i]
      /\ \A i \in 1..m : t[n + i] = r[i]
      /\ q # << >> <=> n > 0
  OBVIOUS
<1>2. (q # << >>) => t # << >> BY <1>1
<1> HIDE DEF t
<1>3. /\ \A i \in 1..(n + m) : i \in 1..n \/ (i - n \in 1..m /\ n + (i - n) = i)
      /\ \A i \in 1..n : i \in 1..(n + m)
      /\ \A i \in 1..m : n + i \in 1..(n + m)
      /\ n > 0 => 1 \in 1..n
      /\ \A i, j \in Int : i - n = j - n => i = j
  <2> HIDE DEF n, m
  <2> QED BY <1>1
<1>4. \A e : InLine(t, e) <=> InLine(q, e) \/ InLine(r, e)
  <2>1. ASSUME NEW e, InLine(t, e) PROVE InLine(q, e) \/ InLine(r, e)
    <3>1. PICK i \in 1..(n + m) : t[i] = e BY <1>1, <2>1 DEF InLine
    <3>2. CASE i \in 1..n BY <1>1, <3>1, <3>2 DEF InLine
    <3>3. CASE i - n \in 1..m /\ n + (i - n) = i
      <4>1. r[i - n] = e BY <1>1, <3>1, <3>3
      <4> QED BY <3>3, <4>1 DEF InLine
    <3> QED BY <1>3, <3>2, <3>3
  <2>2. ASSUME NEW e, InLine(q, e) PROVE InLine(t, e)
    <3>1. PICK i \in 1..n : q[i] = e BY <2>2 DEF InLine
    <3> QED BY <1>1, <1>3, <3>1 DEF InLine
  <2>3. ASSUME NEW e, InLine(r, e) PROVE InLine(t, e)
    <3>1. PICK i \in 1..m : r[i] = e BY <2>3 DEF InLine
    <3>2. n + i \in 1..Len(t) /\ t[n + i] = e BY <1>1, <1>3, <3>1
    <3> QED BY <3>2 DEF InLine
  <2> QED BY <2>1, <2>2, <2>3
<1>5. ASSUME NEW i \in 1..(n + m), NEW j \in 1..(n + m), t[i] = t[j] PROVE i = j
  <2>1. CASE i \in 1..n /\ j \in 1..n BY <1>1, <1>5, <2>1 DEF Distinct
  <2>2. ASSUME NEW x \in 1..(n + m), NEW y \in 1..(n + m), t[x] = t[y], x \in 1..n,
               y - n \in 1..m, n + (y - n) = y
        PROVE FALSE
    <3>1. r[y - n] = q[x] BY <1>1, <2>2
    <3>2. InLine(q, q[x]) /\ InLine(r, q[x]) BY <2>2, <3>1 DEF InLine
    <3> QED BY <3>2
  <2>3. CASE (i - n \in 1..m /\ n + (i - n) = i) /\ (j - n \in 1..m /\ n + (j - n) = j)
    <3>1. r[i - n] = r[j - n] BY <1>1, <1>5, <2>3
    <3>2. i - n = j - n BY <2>3, <3>1 DEF Distinct
    <3> QED BY <2>3, <3>2
  <2> QED BY <1>3, <1>5, <2>1, <2>2, <2>3
<1>6. Distinct(t) BY <1>1, <1>5 DEF Distinct
<1>7. q # << >> => t[1] = q[1] BY <1>1, <1>3
<1> QED BY <1>1, <1>2, <1>4, <1>6, <1>7 DEF t

LEMMA ListTail ==
    ASSUME NEW E, NEW q \in Seq(E), q # << >>, Distinct(q)
    PROVE  /\ Tail(q) \in Seq(E) /\ Distinct(Tail(q)) /\ Head(q) = q[1] /\ q[1] \in E /\ InLine(q, q[1])
           /\ \A e : InLine(Tail(q), e) <=> InLine(q, e) /\ e # q[1]
<1> DEFINE t == Tail(q)
           n == Len(q)
<1>1. /\ t \in Seq(E) /\ Head(q) = q[1] /\ n \in Nat /\ Len(t) = n - 1 /\ n > 0 /\ q[1] \in E
      /\ \A i \in 1..(n - 1) : t[i] = q[i + 1]
  OBVIOUS
<1> HIDE DEF t
<1>2. /\ \A i \in 1..(n - 1) : i + 1 \in 1..n /\ i + 1 # 1
      /\ 1 \in 1..n
      /\ \A i \in 1..n : i = 1 \/ (i - 1 \in 1..(n - 1) /\ (i - 1) + 1 = i)
      /\ \A i, j \in Int : i + 1 = j + 1 => i = j
  <2> HIDE DEF n
  <2> QED BY <1>1
<1>3. Distinct(t)
  <2>1. ASSUME NEW i \in 1..(n - 1), NEW j \in 1..(n - 1), t[i] = t[j] PROVE i = j
    <3>1. i + 1 = j + 1 BY <1>1, <1>2, <2>1 DEF Distinct
    <3> QED BY <1>2, <3>1
  <2> QED BY <1>1, <2>1 DEF Distinct
<1>4. ASSUME NEW e, InLine(t, e) PROVE InLine(q, e) /\ e # q[1]
  <2>1. PICK i \in 1..(n - 1) : t[i] = e BY <1>1, <1>4 DEF InLine
  <2>2. q[i + 1] = e /\ i + 1 \in 1..n /\ i + 1 # 1 BY <1>1, <1>2, <2>1
  <2> QED BY <1>2, <2>2 DEF InLine, Distinct
<1>5. ASSUME NEW e, InLine(q, e), e # q[1] PROVE InLine(t, e)
  <2>1. PICK i \in 1..n : q[i] = e BY <1>5 DEF InLine
  <2>2. i - 1 \in 1..(n - 1) /\ (i - 1) + 1 = i BY <1>2, <1>5, <2>1
  <2>3. t[i - 1] = e BY <1>1, <2>1, <2>2
  <2> QED BY <1>1, <2>2, <2>3 DEF InLine
<1> QED BY <1>1, <1>2, <1>3, <1>4, <1>5 DEF t, InLine

\* A step that leaves what the host keeps, the queue and what was shown alone.
LEMMA ConsentFrame ==
    ASSUME NEW s, NEW u, ConsentBase(s), u \in ConsentType,
           u.slots = s.slots, u.pending = s.pending, u.told = s.told, u.acked = s.acked,
           IsFiniteSet(u.snap), u.view = s.view, u.inFlight = s.inFlight, s.tried \subseteq u.tried, u.queue = s.queue,
           s.disposed => u.disposed,
           u.step # "idle" => s.queue # << >>,
           u.step = "accepted" => s.step = "accepted" /\ u.verdict = s.verdict
    PROVE  ConsentBase(u)
<1>1. HostInv(u) BY DEF ConsentBase, HostInv
<1>2. AcceptedInv(u) BY DEF ConsentBase, AcceptedInv
<1>3. QueueInv(u) /\ SeenInv(u) BY DEF ConsentBase, QueueInv, SeenInv
<1> QED BY <1>1, <1>2, <1>3 DEF ConsentBase

\* The host ticks.
LEMMA ConsentBumped ==
    ASSUME NEW s, ConsentBase(s), WatchInv(s)
    PROVE  /\ ConsentOK(bumped(s))
           /\ \A f \in {"told", "queue", "step", "verdict"} : bumped(s)[f] = s[f]
<1> DEFINE u == bumped(s)
           tick == s.tick \/ s.watch = "up"
<1>1. s \in ConsentType /\ tick \in BOOLEAN BY DEF ConsentBase, ConsentType
<1>2. u = [s EXCEPT !.tick = tick] BY DEF bumped
<1> HIDE DEF tick, u
<1>3. u \in ConsentType BY <1>1, <1>2 DEF ConsentType
<1>4. /\ u.slots = s.slots /\ u.pending = s.pending /\ u.told = s.told /\ u.acked = s.acked /\ u.snap = s.snap
      /\ u.view = s.view /\ u.inFlight = s.inFlight /\ u.tried = s.tried /\ u.queue = s.queue /\ u.disposed = s.disposed
      /\ u.step = s.step /\ u.verdict = s.verdict /\ u.watch = s.watch /\ u.retry = s.retry
      /\ u.refreshPending = s.refreshPending /\ u.drain = s.drain /\ u.behind = s.behind /\ u.tick = tick
  BY <1>1, <1>2 DEF ConsentType
<1>5. IsFiniteSet(u.snap) /\ (u.step # "idle" => s.queue # << >>)
  BY <1>4 DEF ConsentBase, HostInv, QueueInv
<1>6. ConsentBase(u) BY <1>3, <1>4, <1>5, ConsentFrame
<1>7. WatchInv(u) BY <1>4 DEF WatchInv, DownInv
<1>8. FreshInv(u) BY <1>1, <1>4 DEF WatchInv, DownInv, FreshInv, ConsentType, tick
<1> QED BY <1>4, <1>6, <1>7, <1>8 DEF ConsentOK, u

\* Entries are settled at the host.
LEMMA ConsentUnparked ==
    ASSUME NEW s, ConsentBase(s), NEW es \in SUBSET s.pending, NEW how \in Decision \cup {"aborted"}
    PROVE  /\ ConsentBase(unparked(s, es, how)) /\ (WatchInv(s) => WatchInv(unparked(s, es, how)))
           /\ \A e \in es : unparked(s, es, how).told[e] = how
           /\ \A f \in {"queue", "step", "verdict", "view", "disposed", "watch", "retry"} : unparked(s, es, how)[f] = s[f]
<1> DEFINE u == unparked(s, es, how)
           told == [e \in ParkedEntry |-> IF e \in es THEN how ELSE s.told[e]]
           pending == s.pending \ es
<1>1. s \in ConsentType /\ es \subseteq ParkedEntry /\ how # "none"
  BY DEF ConsentBase, ConsentType, Decision
<1>2. u = [s EXCEPT !.pending = pending, !.told = told] BY <1>1 DEF unparked, ConsentType
<1>3. told \in [ParkedEntry -> Decision \cup {"none", "aborted"}] /\ pending \subseteq ParkedEntry /\ IsFiniteSet(pending)
  <2>1. IsFiniteSet(pending) BY FS_Difference DEF ConsentBase, HostInv
  <2> QED BY <1>1, <2>1 DEF ConsentType
<1>4. /\ \A e \in ParkedEntry : told[e] = IF e \in es THEN how ELSE s.told[e]
      /\ \A e : e \in pending <=> e \in s.pending /\ e \notin es
  OBVIOUS
<1> HIDE DEF u, told, pending
<1>5. u \in ConsentType BY <1>1, <1>2, <1>3 DEF ConsentType
<1>6. /\ u.slots = s.slots /\ u.pending = pending /\ u.told = told /\ u.acked = s.acked /\ u.snap = s.snap
      /\ u.view = s.view /\ u.inFlight = s.inFlight /\ u.tried = s.tried /\ u.queue = s.queue /\ u.disposed = s.disposed
      /\ u.step = s.step /\ u.verdict = s.verdict /\ u.watch = s.watch /\ u.retry = s.retry
      /\ u.refreshPending = s.refreshPending /\ u.drain = s.drain /\ u.behind = s.behind
  BY <1>1, <1>2 DEF ConsentType
<1>7. HostInv(u)
  <2>1. ASSUME NEW e \in ParkedEntry
        PROVE  /\ e \in pending <=> e[2] <= s.slots[e[1]] /\ told[e] = "none"
               /\ told[e] # "none" => e[2] <= s.slots[e[1]]
               /\ s.acked[e] # "none" => told[e] = s.acked[e]
    <3>1. /\ e \in s.pending <=> e[2] <= s.slots[e[1]] /\ s.told[e] = "none"
          /\ s.told[e] # "none" => e[2] <= s.slots[e[1]]
          /\ s.acked[e] # "none" => s.told[e] = s.acked[e]
      BY DEF ConsentBase, HostInv
    <3> QED BY <1>1, <1>4, <3>1
  <2> QED BY <1>3, <1>6, <2>1 DEF ConsentBase, HostInv
<1>8. AcceptedInv(u)
  <2>1. ASSUME s.step = "accepted" PROVE told[s.queue[1]] = s.verdict
    <3>1. s.queue \in Seq(ParkedEntry) /\ s.queue # << >> /\ s.told[s.queue[1]] = s.verdict
      BY <1>1, <2>1 DEF ConsentBase, AcceptedInv, QueueInv, ConsentType
    <3>2. s.queue[1] \in ParkedEntry BY <3>1
    <3>3. s.queue[1] \notin s.pending
      BY <1>1, <3>1, <3>2 DEF ConsentBase, HostInv, ConsentType, Decision
    <3> QED BY <1>4, <3>1, <3>2, <3>3
  <2> QED BY <1>6, <2>1 DEF AcceptedInv
<1>9. QueueInv(u) /\ SeenInv(u) BY <1>6 DEF ConsentBase, QueueInv, SeenInv
<1>10. WatchInv(s) => WatchInv(u) BY <1>6 DEF WatchInv, DownInv
<1>11. \A e \in es : u.told[e] = how BY <1>1, <1>4, <1>6
<1> QED BY <1>5, <1>6, <1>7, <1>8, <1>9, <1>10, <1>11 DEF ConsentBase, u

\* The client asks the host.
LEMMA ConsentRefreshed ==
    ASSUME NEW s, ConsentBase(s), DownInv(s)
    PROVE  /\ ~s.disposed => ConsentOK(asks(s))
           /\ ConsentOK(refreshed(s))
<1>1. s \in ConsentType BY DEF ConsentBase
<1>2. ASSUME ~s.disposed PROVE ConsentOK(asks(s))
  <2> DEFINE u == asks(s)
             behind == s.watch = "opening"
  <2>1. behind \in BOOLEAN /\ u = [s EXCEPT !.drain = "asking", !.refreshPending = FALSE, !.snap = {}, !.behind = behind]
    BY DEF asks
  <2> HIDE DEF behind, u
  <2>2. u \in ConsentType BY <1>1, <2>1 DEF ConsentType
  <2>3. /\ u.slots = s.slots /\ u.pending = s.pending /\ u.told = s.told /\ u.acked = s.acked /\ u.snap = {}
        /\ u.view = s.view /\ u.inFlight = s.inFlight /\ u.tried = s.tried /\ u.queue = s.queue /\ u.disposed = s.disposed
        /\ u.step = s.step /\ u.verdict = s.verdict /\ u.watch = s.watch /\ u.retry = s.retry
        /\ u.drain = "asking" /\ u.behind = behind
    BY <1>1, <2>1 DEF ConsentType
  <2>4. IsFiniteSet(u.snap) /\ (u.step # "idle" => s.queue # << >>)
    BY <2>3, FS_EmptySet DEF ConsentBase, QueueInv
  <2>5. ConsentBase(u) BY <2>2, <2>3, <2>4, ConsentFrame
  <2>6. WatchInv(u) /\ FreshInv(u) BY <2>3 DEF WatchInv, DownInv, FreshInv, behind
  <2> QED BY <2>5, <2>6 DEF ConsentOK, u
<1>3. CASE s.disposed
  <2>1. refreshed(s) = s BY <1>3 DEF refreshed
  <2>2. ConsentOK(s) BY <1>3 DEF ConsentOK, WatchInv, DownInv, FreshInv
  <2> QED BY <1>3, <2>1, <2>2
<1>4. CASE ~s.disposed /\ s.drain = "idle"
  <2>1. refreshed(s) = asks(s) BY <1>4 DEF refreshed
  <2> QED BY <1>2, <1>4, <2>1
<1>5. CASE ~s.disposed /\ s.drain # "idle"
  <2> DEFINE u == [s EXCEPT !.refreshPending = TRUE]
  <2>1. refreshed(s) = u BY <1>5 DEF refreshed
  <2>2. u \in ConsentType BY <1>1 DEF ConsentType
  <2>3. /\ u.slots = s.slots /\ u.pending = s.pending /\ u.told = s.told /\ u.acked = s.acked /\ u.snap = s.snap
        /\ u.view = s.view /\ u.inFlight = s.inFlight /\ u.tried = s.tried /\ u.queue = s.queue /\ u.disposed = s.disposed
        /\ u.step = s.step /\ u.verdict = s.verdict /\ u.watch = s.watch /\ u.retry = s.retry
        /\ u.refreshPending = TRUE
    BY <1>1 DEF ConsentType
  <2> HIDE DEF u
  <2>4. IsFiniteSet(u.snap) /\ (u.step # "idle" => s.queue # << >>)
    BY <2>3 DEF ConsentBase, HostInv, QueueInv
  <2>5. ConsentBase(u) BY <2>2, <2>3, <2>4, ConsentFrame
  <2>6. WatchInv(u) /\ FreshInv(u) BY <2>3 DEF WatchInv, DownInv, FreshInv
  <2> QED BY <1>2, <1>5, <2>1, <2>5, <2>6 DEF ConsentOK
<1> QED BY <1>2, <1>3, <1>4, <1>5

\* The loop of the client goes round, or is left.
LEMMA ConsentLooped ==
    ASSUME NEW s, ConsentBase(s), ~s.disposed, DownInv(s),
           s.watch = "opening" => s.retry \/ s.refreshPending,
           s.view # s.pending => s.tick \/ s.refreshPending \/ s.retry
    PROVE  ConsentOK(looped(s))
<1>1. s \in ConsentType BY DEF ConsentBase
<1>2. CASE s.refreshPending
  <2>1. looped(s) = asks(s) BY <1>2 DEF looped
  <2> QED BY <2>1, ConsentRefreshed
<1>3. CASE ~s.refreshPending
  <2> DEFINE u == [s EXCEPT !.drain = "leaving", !.snap = {}]
  <2>1. looped(s) = u BY <1>3 DEF looped
  <2>2. u \in ConsentType BY <1>1 DEF ConsentType
  <2>3. /\ u.slots = s.slots /\ u.pending = s.pending /\ u.told = s.told /\ u.acked = s.acked /\ u.snap = {}
        /\ u.view = s.view /\ u.inFlight = s.inFlight /\ u.tried = s.tried /\ u.queue = s.queue /\ u.disposed = s.disposed
        /\ u.step = s.step /\ u.verdict = s.verdict /\ u.watch = s.watch /\ u.retry = s.retry /\ u.tick = s.tick
        /\ u.refreshPending = s.refreshPending /\ u.drain = "leaving"
    BY <1>1 DEF ConsentType
  <2> HIDE DEF u
  <2>4. IsFiniteSet(u.snap) /\ (u.step # "idle" => s.queue # << >>)
    BY <2>3, FS_EmptySet DEF ConsentBase, QueueInv
  <2>5. ConsentBase(u) BY <2>2, <2>3, <2>4, ConsentFrame
  <2>6. WatchInv(u) /\ FreshInv(u) BY <1>3, <2>3 DEF WatchInv, DownInv, FreshInv
  <2> QED BY <2>1, <2>5, <2>6 DEF ConsentOK
<1> QED BY <1>2, <1>3

\* A disposed client leaves its loop.
LEMMA ConsentLeft ==
    ASSUME NEW s, ConsentBase(s), s.disposed
    PROVE  ConsentOK([s EXCEPT !.drain = "leaving", !.snap = {}])
<1> DEFINE u == [s EXCEPT !.drain = "leaving", !.snap = {}]
<1>1. s \in ConsentType BY DEF ConsentBase
<1>2. u \in ConsentType BY <1>1 DEF ConsentType
<1>3. /\ u.slots = s.slots /\ u.pending = s.pending /\ u.told = s.told /\ u.acked = s.acked /\ u.snap = {}
      /\ u.view = s.view /\ u.inFlight = s.inFlight /\ u.tried = s.tried /\ u.queue = s.queue /\ u.disposed = s.disposed
      /\ u.step = s.step /\ u.verdict = s.verdict
  BY <1>1 DEF ConsentType
<1> HIDE DEF u
<1>4. IsFiniteSet(u.snap) /\ (u.step # "idle" => s.queue # << >>)
  BY <1>3, FS_EmptySet DEF ConsentBase, QueueInv
<1>5. ConsentBase(u) BY <1>2, <1>3, <1>4, ConsentFrame
<1>6. WatchInv(u) /\ FreshInv(u) BY <1>3 DEF WatchInv, DownInv, FreshInv
<1> QED BY <1>5, <1>6 DEF ConsentOK, u

\* A snapshot is shown: what is new in it joins the queue.
LEMMA ConsentShown ==
    ASSUME NEW s, s \in ConsentType, HostInv(s), AcceptedInv(s), QueueInv(s)
    PROVE  /\ ConsentBase(shown(s))
           /\ \A f \in {"disposed", "watch", "retry", "refreshPending", "tick", "view", "pending", "drain"} : shown(s)[f] = s[f]
<1> DEFINE new == s.view \ s.inFlight
           list == SetToSeq(new)
           aborted == (s.aborted \cup (s.inFlight \ s.view)) \ new
           inFlight == s.inFlight \cup new
           queue == s.queue \o list
           failed == s.failed \ new
           u == shown(s)
<1>1. new \subseteq ParkedEntry /\ IsFiniteSet(new) /\ s.queue \in Seq(ParkedEntry)
  <2>1. IsFiniteSet(new) BY FS_Difference DEF HostInv
  <2> QED BY <2>1 DEF ConsentType
<1>2. u = [s EXCEPT !.aborted = aborted, !.inFlight = inFlight, !.queue = queue, !.failed = failed]
  BY DEF shown
<1>3. aborted \subseteq ParkedEntry /\ inFlight \subseteq ParkedEntry /\ failed \subseteq ParkedEntry
  BY <1>1 DEF ConsentType
<1> HIDE DEF list
<1>4. list \in Seq(ParkedEntry) /\ Distinct(list) /\ \A e : InLine(list, e) <=> e \in new
  BY <1>1, SetListed DEF list
<1>5. Distinct(s.queue) /\ \A e : InLine(s.queue, e) <=> e \in s.inFlight BY DEF QueueInv
<1>6. \A e : ~(InLine(s.queue, e) /\ InLine(list, e)) BY <1>4, <1>5
<1>7. /\ queue \in Seq(ParkedEntry) /\ Distinct(queue) /\ \A e : InLine(queue, e) <=> InLine(s.queue, e) \/ InLine(list, e)
      /\ s.queue # << >> => queue # << >> /\ queue[1] = s.queue[1]
  BY <1>1, <1>4, <1>5, <1>6, ListsJoined
<1>8. (\A e : e \in inFlight <=> e \in s.inFlight \/ e \in new) /\ s.view \subseteq inFlight OBVIOUS
<1> HIDE DEF new, aborted, inFlight, queue, failed, u
<1>9. u \in ConsentType BY <1>2, <1>3, <1>7 DEF ConsentType
<1>10. /\ u.slots = s.slots /\ u.pending = s.pending /\ u.told = s.told /\ u.acked = s.acked /\ u.snap = s.snap
       /\ u.view = s.view /\ u.inFlight = inFlight /\ u.tried = s.tried /\ u.queue = queue /\ u.disposed = s.disposed
       /\ u.step = s.step /\ u.verdict = s.verdict /\ u.watch = s.watch /\ u.retry = s.retry /\ u.tick = s.tick
       /\ u.refreshPending = s.refreshPending /\ u.drain = s.drain
  BY <1>2 DEF ConsentType
<1>11. HostInv(u) BY <1>10 DEF HostInv
<1>12. AcceptedInv(u) BY <1>7, <1>10 DEF AcceptedInv, QueueInv
<1>13. QueueInv(u) BY <1>4, <1>5, <1>7, <1>8, <1>10 DEF QueueInv
<1>14. SeenInv(u) BY <1>8, <1>10 DEF SeenInv
<1> QED BY <1>9, <1>10, <1>11, <1>12, <1>13, <1>14 DEF ConsentBase, u

\* The approver is through with an entry.
LEMMA ConsentFinished ==
    ASSUME NEW s, ConsentOK(s), s.queue # << >>, s.queue = consent.queue
    PROVE  ConsentOK(finished(s))
<1> DEFINE e0 == s.queue[1]
           queue == Tail(s.queue)
           inFlight == s.inFlight \ {e0}
           aborted == s.aborted \ {e0}
           tried == s.tried \cup {e0}
           u == finished(s)
<1>1. /\ s \in ConsentType /\ s.queue \in Seq(ParkedEntry) /\ Distinct(s.queue)
      /\ \A e : InLine(s.queue, e) <=> e \in s.inFlight
  BY DEF ConsentOK, ConsentBase, QueueInv, ConsentType
<1>2. /\ queue \in Seq(ParkedEntry) /\ Distinct(queue) /\ Head(s.queue) = e0 /\ e0 \in ParkedEntry
      /\ \A e : InLine(queue, e) <=> InLine(s.queue, e) /\ e # e0
  BY <1>1, ListTail
<1>3. u = [s EXCEPT !.step = "idle", !.verdict = "denied", !.queue = queue, !.inFlight = inFlight, !.aborted = aborted,
                    !.tried = tried]
  BY <1>1, <1>2 DEF finished, currentEntry, ConsentType
<1>4. inFlight \subseteq ParkedEntry /\ aborted \subseteq ParkedEntry /\ tried \subseteq ParkedEntry
  BY <1>1, <1>2 DEF ConsentType
<1>5. /\ \A e : e \in inFlight <=> e \in s.inFlight /\ e # e0
      /\ s.inFlight \cup s.tried \subseteq inFlight \cup tried
  OBVIOUS
<1>6. "denied" \in Decision BY DEF Decision
<1> HIDE DEF e0, queue, inFlight, aborted, tried, u
<1>7. u \in ConsentType BY <1>1, <1>2, <1>3, <1>4, <1>6 DEF ConsentType
<1>8. /\ u.slots = s.slots /\ u.pending = s.pending /\ u.told = s.told /\ u.acked = s.acked /\ u.snap = s.snap
      /\ u.view = s.view /\ u.inFlight = inFlight /\ u.tried = tried /\ u.queue = queue /\ u.disposed = s.disposed
      /\ u.step = "idle" /\ u.watch = s.watch /\ u.retry = s.retry /\ u.tick = s.tick
      /\ u.refreshPending = s.refreshPending /\ u.drain = s.drain /\ u.behind = s.behind
  BY <1>1, <1>3 DEF ConsentType
<1>9. HostInv(u) BY <1>8 DEF ConsentOK, ConsentBase, HostInv
<1>10. QueueInv(u) BY <1>1, <1>2, <1>5, <1>8 DEF QueueInv
<1>11. AcceptedInv(u) /\ SeenInv(u) BY <1>5, <1>8 DEF AcceptedInv, SeenInv, ConsentOK, ConsentBase
<1>12. WatchInv(u) /\ FreshInv(u) BY <1>8 DEF ConsentOK, WatchInv, DownInv, FreshInv
<1> QED BY <1>7, <1>9, <1>10, <1>11, <1>12 DEF ConsentOK, ConsentBase, u

\* A step that leaves the client and the host as they are.
LEMMA ConsentQuiet ==
    ASSUME NEW s, NEW u, ConsentOK(s), u \in ConsentType,
           u.slots = s.slots, u.pending = s.pending, u.told = s.told, u.acked = s.acked, u.snap = s.snap,
           u.view = s.view, u.inFlight = s.inFlight, u.queue = s.queue, u.disposed = s.disposed, u.tick = s.tick,
           u.watch = s.watch, u.retry = s.retry, u.refreshPending = s.refreshPending, u.drain = s.drain,
           u.behind = s.behind, s.tried \subseteq u.tried,
           u.step # "idle" => s.queue # << >>,
           u.step = "accepted" => s.step = "accepted" /\ u.verdict = s.verdict
    PROVE  ConsentOK(u)
<1>1. ConsentBase(s) /\ IsFiniteSet(u.snap) BY DEF ConsentOK, ConsentBase, HostInv
<1>2. ConsentBase(u) BY <1>1, ConsentFrame
<1>3. WatchInv(u) /\ FreshInv(u) BY DEF ConsentOK, WatchInv, DownInv, FreshInv
<1> QED BY <1>2, <1>3 DEF ConsentOK

\* The approver decides.
LEMMA ConsentDecided ==
    ASSUME ConsentOK(consent), consent.queue # << >>, NEW how \in Decision
    PROVE  ConsentOK(decided(consent, how))
<1> DEFINE u == [consent EXCEPT !.step = "writing", !.verdict = how]
<1>1. consent \in ConsentType BY DEF ConsentOK, ConsentBase
<1>2. u \in ConsentType BY <1>1 DEF ConsentType
<1>3. /\ u.slots = consent.slots /\ u.pending = consent.pending /\ u.told = consent.told /\ u.acked = consent.acked
      /\ u.snap = consent.snap /\ u.view = consent.view /\ u.inFlight = consent.inFlight /\ u.queue = consent.queue
      /\ u.disposed = consent.disposed /\ u.tick = consent.tick /\ u.watch = consent.watch /\ u.retry = consent.retry
      /\ u.refreshPending = consent.refreshPending /\ u.drain = consent.drain /\ u.behind = consent.behind
      /\ u.tried = consent.tried /\ u.step = "writing"
  BY <1>1 DEF ConsentType
<1> HIDE DEF u
<1>4. u.step # "accepted" /\ consent.tried \subseteq u.tried BY <1>3
<1>5. ConsentOK(u) BY <1>2, <1>3, <1>4, ConsentQuiet
<1>6. ConsentOK(finished(consent)) BY ConsentFinished
<1> QED BY <1>5, <1>6 DEF decided, u

LEMMA ConsentInitial == ConsentInit => ConsentOK(consent)
<1> SUFFICES ASSUME ConsentInit PROVE ConsentOK(consent)
  OBVIOUS
<1> DEFINE none == [e \in ParkedEntry |-> "none"]
           zero == [c \in ConsentCall |-> 0]
<1>1. /\ none \in [ParkedEntry -> Decision \cup {"none", "aborted"}] /\ none \in [ParkedEntry -> Decision \cup {"none"}]
      /\ \A e \in ParkedEntry : none[e] = "none"
  OBVIOUS
<1>2. zero \in [ConsentCall -> 0..MaxSlots] /\ 0 \in 0..MaxFaults /\ \A c \in ConsentCall : zero[c] = 0
  BY ConsentAssumption DEF ConsentAssumption
<1>3. "denied" \in Decision BY DEF Decision
<1>4. consent = [slots |-> zero, pending |-> {}, told |-> none,
               tick |-> FALSE, watch |-> "opening", retry |-> FALSE, refreshPending |-> FALSE,
               drain |-> "asking", behind |-> TRUE, snap |-> {}, view |-> {},
               disposed |-> FALSE, queue |-> << >>, inFlight |-> {}, aborted |-> {}, tried |-> {}, failed |-> {},
               step |-> "idle", verdict |-> "denied", acked |-> none, late |-> {}, faults |-> 0]
  BY DEF ConsentInit
<1> HIDE DEF none, zero
<1>5. consent \in ConsentType BY <1>1, <1>2, <1>3, <1>4 DEF ConsentType
<1>6. /\ consent.slots = zero /\ consent.pending = {} /\ consent.told = none /\ consent.acked = none
      /\ consent.snap = {} /\ consent.view = {} /\ consent.drain = "asking" /\ consent.behind
      /\ consent.watch = "opening" /\ consent.queue = << >> /\ consent.inFlight = {} /\ consent.step = "idle"
  BY <1>4
<1>7. HostInv(consent)
  <2>1. ASSUME NEW e \in ParkedEntry PROVE ~(e[2] <= zero[e[1]])
    <3>1. e[1] \in ConsentCall /\ e[2] \in 1..MaxSlots BY DEF ParkedEntry
    <3>2. zero[e[1]] = 0 BY <1>2, <3>1
    <3> QED BY <3>1, <3>2
  <2> QED BY <1>1, <1>6, <2>1, FS_EmptySet DEF HostInv
<1>8. AcceptedInv(consent) /\ QueueInv(consent) /\ SeenInv(consent)
  <2>1. \A e : ~InLine(<< >>, e) BY DEF InLine
  <2>2. Distinct(<< >>) BY DEF Distinct
  <2> QED BY <1>6, <2>1, <2>2 DEF AcceptedInv, QueueInv, SeenInv
<1>9. WatchInv(consent) /\ FreshInv(consent) BY <1>6 DEF WatchInv, DownInv, FreshInv
<1> QED BY <1>5, <1>7, <1>8, <1>9 DEF ConsentOK, ConsentBase

\* What the host does, or is told by others.
LEMMA ConsentHostSteps ==
    ASSUME ConsentOK(consent)
    PROVE  /\ \A c \in ConsentCall, n \in 1..MaxSlots : CallParked(c, n) => ConsentOK(consent')
           /\ \A c \in ConsentCall : CallAborted(c) => ConsentOK(consent')
           /\ \A e \in ParkedEntry, how \in Decision : OtherDecides(e, how) \/ LateWriteArrives(e, how) => ConsentOK(consent')
<1>1. /\ consent \in ConsentType /\ ConsentBase(consent) /\ WatchInv(consent) /\ FreshInv(consent) /\ HostInv(consent)
  BY DEF ConsentOK, ConsentBase
<1>2. ASSUME NEW c \in ConsentCall, NEW n \in 1..MaxSlots, CallParked(c, n) PROVE ConsentOK(consent')
  <2> DEFINE es == {c} \X (1..n)
             slots == [consent.slots EXCEPT ![c] = n]
             pending == consent.pending \cup es
             u == [consent EXCEPT !.slots = slots, !.pending = pending]
  <2>1. consent.slots[c] = 0 /\ consent' = bumped(u) BY <1>2 DEF CallParked
  <2>2. /\ n \in Nat /\ n \in 0..MaxSlots
        /\ \A e : e \in es <=> e \in ParkedEntry /\ e[1] = c /\ e[2] <= n
    <3>1. n \in 0..MaxSlots /\ n \in Nat /\ \A k : k \in 1..n <=> k \in 1..MaxSlots /\ k <= n
      BY ConsentAssumption DEF ConsentAssumption
    <3>2. \A e : e \in es => e \in ParkedEntry /\ e[1] = c /\ e[2] <= n BY <3>1 DEF ParkedEntry
    <3>3. \A e \in ParkedEntry : e[1] = c /\ e[2] <= n => e \in es BY <3>1 DEF ParkedEntry
    <3> QED BY <3>1, <3>2, <3>3
  <2>3. IsFiniteSet(pending)
    <3>1. IsFiniteSet({c}) /\ IsFiniteSet(1..n)
      <4>1. 1 \in Int /\ n \in Int BY <2>2
      <4>2. IsFiniteSet({c}) BY FS_Singleton
      <4>3. IsFiniteSet(1..n) BY <4>1, FS_Interval
      <4> QED BY <4>2, <4>3
    <3>2. IsFiniteSet(es) BY <3>1, FS_Product
    <3> QED BY <1>1, <3>2, FS_Union DEF HostInv
  <2>4. /\ slots \in [ConsentCall -> 0..MaxSlots] /\ slots[c] = n
        /\ \A d \in ConsentCall : d # c => slots[d] = consent.slots[d]
    BY <1>1, <2>2 DEF ConsentType
  <2>5. \A e : e \in pending <=> e \in consent.pending \/ e \in es OBVIOUS
  <2>6. pending \subseteq ParkedEntry BY <1>1, <2>2 DEF ConsentType
  <2> HIDE DEF es, slots, pending
  <2>7. u \in ConsentType BY <1>1, <2>4, <2>6 DEF ConsentType
  <2>8. /\ u.slots = slots /\ u.pending = pending /\ u.told = consent.told /\ u.acked = consent.acked
        /\ u.snap = consent.snap /\ u.view = consent.view /\ u.inFlight = consent.inFlight /\ u.queue = consent.queue
        /\ u.disposed = consent.disposed /\ u.tick = consent.tick /\ u.watch = consent.watch /\ u.retry = consent.retry
        /\ u.refreshPending = consent.refreshPending /\ u.drain = consent.drain /\ u.behind = consent.behind
        /\ u.tried = consent.tried /\ u.step = consent.step /\ u.verdict = consent.verdict
    BY <1>1 DEF ConsentType
  <2> HIDE DEF u
  <2>9. HostInv(u)
    <3>1. ASSUME NEW e \in ParkedEntry
          PROVE  /\ e \in pending <=> e[2] <= slots[e[1]] /\ consent.told[e] = "none"
                 /\ consent.told[e] # "none" => e[2] <= slots[e[1]]
      <4>1. e[1] \in ConsentCall /\ e[2] \in 1..MaxSlots BY DEF ParkedEntry
      <4>2. /\ e \in consent.pending <=> e[2] <= consent.slots[e[1]] /\ consent.told[e] = "none"
            /\ consent.told[e] # "none" => e[2] <= consent.slots[e[1]]
        BY <1>1 DEF HostInv
      <4>3. CASE e[1] = c
        <5>1. ~(e[2] <= consent.slots[e[1]]) BY <2>1, <4>1, <4>3
        <5> QED BY <2>2, <2>4, <2>5, <4>2, <4>3, <5>1
      <4>4. CASE e[1] # c BY <2>2, <2>4, <2>5, <4>1, <4>2, <4>4
      <4> QED BY <4>3, <4>4
    <3> QED BY <1>1, <2>3, <2>8, <3>1 DEF HostInv
  <2>10. ConsentBase(u) BY <1>1, <2>7, <2>8, <2>9 DEF ConsentBase, AcceptedInv, QueueInv, SeenInv
  <2>11. WatchInv(u) BY <1>1, <2>8 DEF WatchInv, DownInv
  <2> QED BY <2>1, <2>10, <2>11, ConsentBumped
<1>3. ASSUME NEW c \in ConsentCall, CallAborted(c) PROVE ConsentOK(consent')
  <2> DEFINE es == entriesOf(c) \cap consent.pending
  <2>1. es \in SUBSET consent.pending /\ consent' = bumped(unparked(consent, es, "aborted"))
    BY <1>3 DEF CallAborted
  <2> HIDE DEF es
  <2>2. ConsentBase(unparked(consent, es, "aborted")) /\ WatchInv(unparked(consent, es, "aborted"))
    BY <1>1, <2>1, ConsentUnparked
  <2> QED BY <2>1, <2>2, ConsentBumped
<1>4. ASSUME NEW e \in ParkedEntry, NEW how \in Decision, OtherDecides(e, how) PROVE ConsentOK(consent')
  <2>1. {e} \in SUBSET consent.pending /\ consent' = bumped(unparked(consent, {e}, how))
    BY <1>4 DEF OtherDecides
  <2>2. ConsentBase(unparked(consent, {e}, how)) /\ WatchInv(unparked(consent, {e}, how))
    BY <1>1, <2>1, ConsentUnparked
  <2> QED BY <2>1, <2>2, ConsentBumped
<1>5. ASSUME NEW e \in ParkedEntry, NEW how \in Decision, LateWriteArrives(e, how) PROVE ConsentOK(consent')
  <2> DEFINE late == consent.late \ {<<e, how>>}
             u == [consent EXCEPT !.late = late]
  <2>1. consent' = IF e \in consent.pending THEN bumped(unparked(u, {e}, how)) ELSE u
    BY <1>5 DEF LateWriteArrives
  <2>2. late \subseteq ParkedEntry \X Decision BY <1>1 DEF ConsentType
  <2> HIDE DEF late
  <2>3. u \in ConsentType BY <1>1, <2>2 DEF ConsentType
  <2>4. /\ u.slots = consent.slots /\ u.pending = consent.pending /\ u.told = consent.told /\ u.acked = consent.acked
        /\ u.snap = consent.snap /\ u.view = consent.view /\ u.inFlight = consent.inFlight /\ u.queue = consent.queue
        /\ u.disposed = consent.disposed /\ u.tick = consent.tick /\ u.watch = consent.watch /\ u.retry = consent.retry
        /\ u.refreshPending = consent.refreshPending /\ u.drain = consent.drain /\ u.behind = consent.behind
        /\ u.tried = consent.tried /\ u.step = consent.step /\ u.verdict = consent.verdict
    BY <1>1 DEF ConsentType
  <2> HIDE DEF u
  <2>5. consent.tried \subseteq u.tried /\ (u.step # "idle" => consent.queue # << >>)
    BY <1>1, <2>4 DEF ConsentBase, QueueInv
  <2>6. ConsentOK(u) BY <2>3, <2>4, <2>5, ConsentQuiet
  <2>7. ConsentBase(u) /\ WatchInv(u) BY <2>6 DEF ConsentOK
  <2>8. CASE e \in consent.pending
    <3>1. {e} \in SUBSET u.pending BY <2>4, <2>8
    <3>2. ConsentBase(unparked(u, {e}, how)) /\ WatchInv(unparked(u, {e}, how))
      BY <2>7, <3>1, ConsentUnparked
    <3> QED BY <2>1, <2>8, <3>2, ConsentBumped
  <2> QED BY <2>1, <2>6, <2>8
<1> QED BY <1>2, <1>3, <1>4, <1>5

\* What the client of the approver does.
LEMMA ConsentClientSteps ==
    ASSUME ConsentOK(consent), ClientSteps \/ ReadFails \/ WatchEndsEarly \/ ApproverDisposed
    PROVE  ConsentOK(consent')
<1>1. /\ consent \in ConsentType /\ ConsentBase(consent) /\ WatchInv(consent) /\ DownInv(consent) /\ FreshInv(consent)
      /\ HostInv(consent) /\ AcceptedInv(consent) /\ QueueInv(consent)
      /\ (consent.step # "idle" => consent.queue # << >>)
      /\ IsFiniteSet(consent.snap) /\ IsFiniteSet(consent.pending)
  BY DEF ConsentOK, ConsentBase, WatchInv, HostInv, QueueInv
<1>2. CASE HostSubscribes
  <2> DEFINE u == [consent EXCEPT !.watch = "up"]
  <2>1. consent' = u BY <1>2 DEF HostSubscribes
  <2>2. u \in ConsentType BY <1>1, <2>1 DEF ConsentType
  <2>3. /\ u.slots = consent.slots /\ u.pending = consent.pending /\ u.told = consent.told
        /\ u.acked = consent.acked /\ u.snap = consent.snap /\ u.view = consent.view
        /\ u.inFlight = consent.inFlight /\ u.queue = consent.queue /\ u.disposed = consent.disposed
        /\ u.tick = consent.tick /\ u.watch = "up" /\ u.retry = consent.retry
        /\ u.refreshPending = consent.refreshPending /\ u.drain = consent.drain /\ u.behind = consent.behind
        /\ u.tried = consent.tried /\ u.step = consent.step /\ u.verdict = consent.verdict
    BY <1>1 DEF ConsentType
  <2> HIDE DEF u
  <2>4. ConsentBase(u)
    <3>1. u.step # "idle" => consent.queue # << >> BY <1>1, <2>3
    <3>2. IsFiniteSet(u.snap) /\ consent.tried \subseteq u.tried BY <1>1, <2>3, FS_EmptySet
    <3> QED BY <1>1, <2>2, <2>3, <3>1, <3>2, ConsentFrame
  <2>5. WatchInv(u) /\ FreshInv(u) BY <1>1, <2>3 DEF WatchInv, DownInv, FreshInv
  <2> QED BY <2>1, <2>4, <2>5 DEF ConsentOK
<1>3. CASE TickArrives
  <2> DEFINE u == [consent EXCEPT !.tick = FALSE]
  <2>1. consent' = refreshed(u) BY <1>3 DEF TickArrives
  <2>2. u \in ConsentType BY <1>1, <2>1 DEF ConsentType
  <2>3. /\ u.slots = consent.slots /\ u.pending = consent.pending /\ u.told = consent.told
        /\ u.acked = consent.acked /\ u.snap = consent.snap /\ u.view = consent.view
        /\ u.inFlight = consent.inFlight /\ u.queue = consent.queue /\ u.disposed = consent.disposed
        /\ u.tick = FALSE /\ u.watch = consent.watch /\ u.retry = consent.retry
        /\ u.refreshPending = consent.refreshPending /\ u.drain = consent.drain /\ u.behind = consent.behind
        /\ u.tried = consent.tried /\ u.step = consent.step /\ u.verdict = consent.verdict
    BY <1>1 DEF ConsentType
  <2> HIDE DEF u
  <2>4. ConsentBase(u)
    <3>1. u.step # "idle" => consent.queue # << >> BY <1>1, <2>3
    <3>2. IsFiniteSet(u.snap) /\ consent.tried \subseteq u.tried BY <1>1, <2>3, FS_EmptySet
    <3> QED BY <1>1, <2>2, <2>3, <3>1, <3>2, ConsentFrame
  <2>5. DownInv(u) BY <1>1, <2>3 DEF DownInv
  <2> QED BY <2>1, <2>4, <2>5, ConsentRefreshed
<1>4. CASE HostAnswers
  <2> DEFINE u == [consent EXCEPT !.drain = "answered", !.behind = FALSE, !.snap = consent.pending]
  <2>1. consent' = u /\ (consent.behind => consent.watch # "opening") BY <1>4 DEF HostAnswers
  <2>2. u \in ConsentType BY <1>1, <2>1 DEF ConsentType
  <2>3. /\ u.slots = consent.slots /\ u.pending = consent.pending /\ u.told = consent.told
        /\ u.acked = consent.acked /\ u.snap = consent.pending /\ u.view = consent.view
        /\ u.inFlight = consent.inFlight /\ u.queue = consent.queue /\ u.disposed = consent.disposed
        /\ u.tick = consent.tick /\ u.watch = consent.watch /\ u.retry = consent.retry
        /\ u.refreshPending = consent.refreshPending /\ u.drain = "answered" /\ u.behind = FALSE
        /\ u.tried = consent.tried /\ u.step = consent.step /\ u.verdict = consent.verdict
    BY <1>1 DEF ConsentType
  <2> HIDE DEF u
  <2>4. ConsentBase(u)
    <3>1. u.step # "idle" => consent.queue # << >> BY <1>1, <2>3
    <3>2. IsFiniteSet(u.snap) /\ consent.tried \subseteq u.tried BY <1>1, <2>3, FS_EmptySet
    <3> QED BY <1>1, <2>2, <2>3, <3>1, <3>2, ConsentFrame
  <2>5. WatchInv(u) /\ FreshInv(u) BY <1>1, <2>1, <2>3 DEF WatchInv, DownInv, FreshInv
  <2> QED BY <2>1, <2>4, <2>5 DEF ConsentOK
<1>5. CASE ReadArrives
  <2>1. /\ consent.drain = "answered"
        /\ consent.disposed => consent' = [consent EXCEPT !.drain = "leaving", !.snap = {}]
        /\ ~consent.disposed => consent' = looped(shown([consent EXCEPT !.view = consent.snap]))
    BY <1>5 DEF ReadArrives
  <2>2. CASE consent.disposed BY <1>1, <2>1, <2>2, ConsentLeft
  <2>3. CASE ~consent.disposed
    <3> DEFINE u == [consent EXCEPT !.view = consent.snap]
               v == shown(u)
    <3>1. u \in ConsentType BY <1>1 DEF ConsentType
    <3>2. /\ u.slots = consent.slots /\ u.pending = consent.pending /\ u.told = consent.told
          /\ u.acked = consent.acked /\ u.snap = consent.snap /\ u.view = consent.snap
          /\ u.inFlight = consent.inFlight /\ u.queue = consent.queue /\ u.disposed = consent.disposed
          /\ u.tick = consent.tick /\ u.watch = consent.watch /\ u.retry = consent.retry
          /\ u.refreshPending = consent.refreshPending /\ u.drain = consent.drain /\ u.behind = consent.behind
          /\ u.tried = consent.tried /\ u.step = consent.step /\ u.verdict = consent.verdict
      BY <1>1 DEF ConsentType
    <3> HIDE DEF u
    <3>3. HostInv(u) /\ AcceptedInv(u) /\ QueueInv(u)
      BY <1>1, <3>2 DEF HostInv, AcceptedInv, QueueInv
    <3>4. /\ ConsentBase(v)
          /\ \A f \in {"disposed", "watch", "retry", "refreshPending", "tick", "view", "pending", "drain"} : v[f] = u[f]
      BY <3>1, <3>3, ConsentShown
    <3> HIDE DEF v
    <3>5. /\ v.disposed = u.disposed /\ v.watch = u.watch /\ v.retry = u.retry /\ v.refreshPending = u.refreshPending
          /\ v.tick = u.tick /\ v.view = u.view /\ v.pending = u.pending
      BY <3>4
    <3>6. ~v.disposed /\ DownInv(v) BY <1>1, <2>3, <3>2, <3>5 DEF DownInv
    <3>7. v.watch = "opening" => v.retry \/ v.refreshPending
      BY <1>1, <2>1, <2>3, <3>2, <3>5 DEF WatchInv
    <3>8. v.view # v.pending => v.tick \/ v.refreshPending \/ v.retry
      BY <1>1, <2>1, <2>3, <3>2, <3>5 DEF FreshInv
    <3>9. ConsentOK(looped(v)) BY <3>4, <3>6, <3>7, <3>8, ConsentLooped
    <3> QED BY <2>1, <2>3, <3>9 DEF u, v
  <2> QED BY <2>2, <2>3
<1>6. CASE ReadFails
  <2> DEFINE u == [consent EXCEPT !.faults = @ + 1]
             v == [u EXCEPT !.retry = TRUE]
  <2>1. /\ consent.faults + 1 \in 0..MaxFaults
        /\ consent.disposed => consent' = [u EXCEPT !.drain = "leaving", !.snap = {}]
        /\ ~consent.disposed => consent' = looped(v)
    BY <1>1, <1>6, ConsentAssumption DEF ReadFails, ConsentType, ConsentAssumption
  <2>2. u \in ConsentType BY <1>1, <2>1 DEF ConsentType
  <2>3. /\ u.slots = consent.slots /\ u.pending = consent.pending /\ u.told = consent.told
        /\ u.acked = consent.acked /\ u.snap = consent.snap /\ u.view = consent.view
        /\ u.inFlight = consent.inFlight /\ u.queue = consent.queue /\ u.disposed = consent.disposed
        /\ u.tick = consent.tick /\ u.watch = consent.watch /\ u.retry = consent.retry
        /\ u.refreshPending = consent.refreshPending /\ u.drain = consent.drain /\ u.behind = consent.behind
        /\ u.tried = consent.tried /\ u.step = consent.step /\ u.verdict = consent.verdict
    BY <1>1 DEF ConsentType
  <2> HIDE DEF u
  <2>4. ConsentOK(u) BY <1>1, <2>2, <2>3, ConsentQuiet
  <2>5. CASE consent.disposed BY <2>1, <2>3, <2>4, <2>5, ConsentLeft DEF ConsentOK
  <2>6. CASE ~consent.disposed
    <3>1. v \in ConsentType BY <2>2 DEF ConsentType
    <3>2. /\ v.slots = u.slots /\ v.pending = u.pending /\ v.told = u.told /\ v.acked = u.acked
          /\ v.snap = u.snap /\ v.view = u.view /\ v.inFlight = u.inFlight /\ v.queue = u.queue
          /\ v.disposed = u.disposed /\ v.tick = u.tick /\ v.watch = u.watch /\ v.retry = TRUE
          /\ v.refreshPending = u.refreshPending /\ v.drain = u.drain /\ v.behind = u.behind
          /\ v.tried = u.tried /\ v.step = u.step /\ v.verdict = u.verdict
      BY <2>2 DEF ConsentType
    <3> HIDE DEF v
    <3>3. ConsentBase(u) BY <2>4 DEF ConsentOK
    <3>4. IsFiniteSet(v.snap) /\ (v.step # "idle" => u.queue # << >>) /\ u.tried \subseteq v.tried
      BY <1>1, <2>3, <3>2
    <3>5. ConsentBase(v) BY <3>1, <3>2, <3>3, <3>4, ConsentFrame
    <3>6. ~v.disposed /\ v.retry /\ DownInv(v) BY <2>3, <2>6, <3>2 DEF DownInv
    <3>7. ConsentOK(looped(v)) BY <3>5, <3>6, ConsentLooped
    <3> QED BY <2>1, <2>6, <3>7
  <2> QED BY <2>5, <2>6
<1>7. CASE DrainLeft
  <2> DEFINE u == [consent EXCEPT !.drain = "idle"]
  <2>1. consent.drain = "leaving" /\ consent' = IF consent.refreshPending THEN refreshed(u) ELSE u
    BY <1>7 DEF DrainLeft
  <2>2. u \in ConsentType BY <1>1, <2>1 DEF ConsentType
  <2>3. /\ u.slots = consent.slots /\ u.pending = consent.pending /\ u.told = consent.told
        /\ u.acked = consent.acked /\ u.snap = consent.snap /\ u.view = consent.view
        /\ u.inFlight = consent.inFlight /\ u.queue = consent.queue /\ u.disposed = consent.disposed
        /\ u.tick = consent.tick /\ u.watch = consent.watch /\ u.retry = consent.retry
        /\ u.refreshPending = consent.refreshPending /\ u.drain = "idle" /\ u.behind = consent.behind
        /\ u.tried = consent.tried /\ u.step = consent.step /\ u.verdict = consent.verdict
    BY <1>1 DEF ConsentType
  <2> HIDE DEF u
  <2>4. ConsentBase(u)
    <3>1. u.step # "idle" => consent.queue # << >> BY <1>1, <2>3
    <3>2. IsFiniteSet(u.snap) /\ consent.tried \subseteq u.tried BY <1>1, <2>3, FS_EmptySet
    <3> QED BY <1>1, <2>2, <2>3, <3>1, <3>2, ConsentFrame
  <2>5. DownInv(u) BY <1>1, <2>3 DEF DownInv
  <2>6. ASSUME ~consent.refreshPending PROVE ConsentOK(u)
    <3>1. WatchInv(u) /\ FreshInv(u) BY <1>1, <2>1, <2>3 DEF WatchInv, DownInv, FreshInv
    <3> QED BY <2>4, <3>1 DEF ConsentOK
  <2>7. ConsentOK(refreshed(u)) BY <2>4, <2>5, ConsentRefreshed
  <2> QED BY <2>1, <2>6, <2>7
<1>8. CASE ReconnectFires
  <2> DEFINE watch == IF consent.watch = "down" THEN "opening" ELSE consent.watch
             u == [consent EXCEPT !.retry = FALSE, !.watch = watch]
  <2>1. consent' = refreshed(u) /\ watch # "down" /\ watch \in {"down", "opening", "up"}
    BY <1>1, <1>8 DEF ReconnectFires, ConsentType
  <2> HIDE DEF watch
  <2>2. u \in ConsentType BY <1>1, <2>1 DEF ConsentType
  <2>3. /\ u.slots = consent.slots /\ u.pending = consent.pending /\ u.told = consent.told
        /\ u.acked = consent.acked /\ u.snap = consent.snap /\ u.view = consent.view
        /\ u.inFlight = consent.inFlight /\ u.queue = consent.queue /\ u.disposed = consent.disposed
        /\ u.tick = consent.tick /\ u.watch = watch /\ u.retry = FALSE
        /\ u.refreshPending = consent.refreshPending /\ u.drain = consent.drain /\ u.behind = consent.behind
        /\ u.tried = consent.tried /\ u.step = consent.step /\ u.verdict = consent.verdict
    BY <1>1 DEF ConsentType
  <2> HIDE DEF u
  <2>4. ConsentBase(u)
    <3>1. u.step # "idle" => consent.queue # << >> BY <1>1, <2>3
    <3>2. IsFiniteSet(u.snap) /\ consent.tried \subseteq u.tried BY <1>1, <2>3, FS_EmptySet
    <3> QED BY <1>1, <2>2, <2>3, <3>1, <3>2, ConsentFrame
  <2>5. DownInv(u) BY <2>1, <2>3 DEF DownInv
  <2> QED BY <2>1, <2>4, <2>5, ConsentRefreshed
<1>9. CASE WatchEndsEarly
  <2> DEFINE u == [consent EXCEPT !.faults = @ + 1, !.watch = "down", !.tick = FALSE, !.retry = TRUE]
  <2>1. consent' = u /\ consent.faults + 1 \in 0..MaxFaults
    BY <1>1, <1>9, ConsentAssumption DEF WatchEndsEarly, watchLost, ConsentType, ConsentAssumption
  <2>2. u \in ConsentType BY <1>1, <2>1 DEF ConsentType
  <2>3. /\ u.slots = consent.slots /\ u.pending = consent.pending /\ u.told = consent.told
        /\ u.acked = consent.acked /\ u.snap = consent.snap /\ u.view = consent.view
        /\ u.inFlight = consent.inFlight /\ u.queue = consent.queue /\ u.disposed = consent.disposed
        /\ u.tick = FALSE /\ u.watch = "down" /\ u.retry = TRUE /\ u.refreshPending = consent.refreshPending
        /\ u.drain = consent.drain /\ u.behind = consent.behind /\ u.tried = consent.tried
        /\ u.step = consent.step /\ u.verdict = consent.verdict
    BY <1>1 DEF ConsentType
  <2> HIDE DEF u
  <2>4. ConsentBase(u)
    <3>1. u.step # "idle" => consent.queue # << >> BY <1>1, <2>3
    <3>2. IsFiniteSet(u.snap) /\ consent.tried \subseteq u.tried BY <1>1, <2>3, FS_EmptySet
    <3> QED BY <1>1, <2>2, <2>3, <3>1, <3>2, ConsentFrame
  <2>5. WatchInv(u) /\ FreshInv(u) BY <2>3 DEF WatchInv, DownInv, FreshInv
  <2> QED BY <2>1, <2>4, <2>5 DEF ConsentOK
<1>10. CASE ApproverDisposed
  <2> DEFINE u == [consent EXCEPT !.disposed = TRUE, !.aborted = @ \cup consent.inFlight, !.watch = "down", !.tick = FALSE,
                              !.retry = FALSE]
  <2>1. consent' = u BY <1>10 DEF ApproverDisposed
  <2>2. u \in ConsentType BY <1>1, <2>1 DEF ConsentType
  <2>3. /\ u.slots = consent.slots /\ u.pending = consent.pending /\ u.told = consent.told
        /\ u.acked = consent.acked /\ u.snap = consent.snap /\ u.view = consent.view
        /\ u.inFlight = consent.inFlight /\ u.queue = consent.queue /\ u.disposed = TRUE /\ u.tick = FALSE
        /\ u.watch = "down" /\ u.retry = FALSE /\ u.refreshPending = consent.refreshPending
        /\ u.drain = consent.drain /\ u.behind = consent.behind /\ u.tried = consent.tried
        /\ u.step = consent.step /\ u.verdict = consent.verdict
    BY <1>1 DEF ConsentType
  <2> HIDE DEF u
  <2>4. ConsentBase(u)
    <3>1. u.step # "idle" => consent.queue # << >> BY <1>1, <2>3
    <3>2. IsFiniteSet(u.snap) /\ consent.tried \subseteq u.tried BY <1>1, <2>3, FS_EmptySet
    <3> QED BY <1>1, <2>2, <2>3, <3>1, <3>2, ConsentFrame
  <2>5. WatchInv(u) /\ FreshInv(u) BY <2>3 DEF WatchInv, DownInv, FreshInv
  <2> QED BY <2>1, <2>4, <2>5 DEF ConsentOK
<1> QED BY <1>2, <1>3, <1>4, <1>5, <1>6, <1>7, <1>8, <1>9, <1>10 DEF ClientSteps

\* What the approver does with the entry at the head of its queue.
LEMMA ConsentApproverSteps ==
    ASSUME ConsentOK(consent), ApproverSteps \/ EntryFails \/ WriteTimesOut
    PROVE  ConsentOK(consent')
<1> DEFINE e0 == consent.queue[1]
<1>1. /\ consent \in ConsentType /\ ConsentBase(consent) /\ WatchInv(consent) /\ DownInv(consent) /\ FreshInv(consent)
      /\ HostInv(consent) /\ AcceptedInv(consent) /\ QueueInv(consent)
      /\ (consent.step # "idle" => consent.queue # << >>)
      /\ consent.queue \in Seq(ParkedEntry) /\ consent.verdict \in Decision
  BY DEF ConsentOK, ConsentBase, WatchInv, HostInv, QueueInv, ConsentType
<1>2. consent.queue # << >> => currentEntry = e0 /\ e0 \in ParkedEntry BY <1>1 DEF currentEntry
<1>3. consent.queue # << >> => ConsentOK(finished(consent)) BY ConsentFinished
<1>4. consent.queue # << >> => ConsentOK(decided(consent, "granted")) /\ ConsentOK(decided(consent, "denied"))
  BY ConsentDecided DEF Decision
<1> HIDE DEF e0
<1>5. ASSUME NEW p \in {"resolving", "prompting", "minting", "refused"}, consent.queue # << >>
      PROVE  ConsentOK([consent EXCEPT !.step = p])
  <2> DEFINE u == [consent EXCEPT !.step = p]
  <2>1. u \in ConsentType BY <1>1 DEF ConsentType
  <2>2. /\ u.slots = consent.slots /\ u.pending = consent.pending /\ u.told = consent.told
        /\ u.acked = consent.acked /\ u.snap = consent.snap /\ u.view = consent.view
        /\ u.inFlight = consent.inFlight /\ u.queue = consent.queue /\ u.disposed = consent.disposed
        /\ u.tick = consent.tick /\ u.watch = consent.watch /\ u.retry = consent.retry
        /\ u.refreshPending = consent.refreshPending /\ u.drain = consent.drain /\ u.behind = consent.behind
        /\ u.tried = consent.tried /\ u.step = p /\ u.verdict = consent.verdict
    BY <1>1 DEF ConsentType
  <2> HIDE DEF u
  <2>3. u.step # "accepted" /\ consent.tried \subseteq u.tried BY <2>2
  <2>4. ConsentOK(u) BY <1>5, <2>1, <2>2, <2>3, ConsentQuiet
  <2> QED BY <2>4 DEF u
<1>6. ASSUME NEW m \in 0..MaxFaults, NEW late \in SUBSET (ParkedEntry \X Decision), NEW failed \in SUBSET ParkedEntry,
             consent.queue # << >>
      PROVE  ConsentOK(finished([consent EXCEPT !.faults = m, !.failed = failed, !.late = late]))
  <2> DEFINE u == [consent EXCEPT !.faults = m, !.failed = failed, !.late = late]
  <2>1. u \in ConsentType BY <1>1 DEF ConsentType
  <2>2. /\ u.slots = consent.slots /\ u.pending = consent.pending /\ u.told = consent.told
        /\ u.acked = consent.acked /\ u.snap = consent.snap /\ u.view = consent.view
        /\ u.inFlight = consent.inFlight /\ u.queue = consent.queue /\ u.disposed = consent.disposed
        /\ u.tick = consent.tick /\ u.watch = consent.watch /\ u.retry = consent.retry
        /\ u.refreshPending = consent.refreshPending /\ u.drain = consent.drain /\ u.behind = consent.behind
        /\ u.tried = consent.tried /\ u.step = consent.step /\ u.verdict = consent.verdict
    BY <1>1 DEF ConsentType
  <2> HIDE DEF u
  <2>3. ConsentOK(u) BY <1>1, <2>1, <2>2, ConsentQuiet
  <2>4. ConsentOK(finished(u)) BY <1>6, <2>2, <2>3, ConsentFinished
  <2> QED BY <2>4 DEF u
<1>7. CASE EntryTaken BY <1>3, <1>5, <1>7 DEF EntryTaken
<1>8. CASE NoCandidate BY <1>1, <1>4, <1>8 DEF NoCandidate
<1>9. CASE Prompts BY <1>1, <1>3, <1>5, <1>9 DEF Prompts
<1>10. ASSUME NEW how \in Decision, PromptAnswered(how) PROVE ConsentOK(consent')
  BY <1>1, <1>3, <1>4, <1>5, <1>10 DEF PromptAnswered
<1>11. CASE Minted BY <1>1, <1>4, <1>11 DEF Minted
<1>12. CASE WriteArrives
  <2>1. consent.queue # << >> /\ consent.step = "writing" BY <1>1, <1>12 DEF WriteArrives
  <2>2. CASE e0 \notin consent.pending
    <3>1. consent' = [consent EXCEPT !.step = "refused"] BY <1>2, <1>12, <2>1, <2>2 DEF WriteArrives
    <3> QED BY <1>5, <2>1, <3>1
  <2>3. CASE e0 \in consent.pending
    <3> DEFINE v == unparked(consent, {e0}, consent.verdict)
               s == bumped(v)
               u == [s EXCEPT !.step = "accepted"]
    <3>1. consent' = u BY <1>2, <1>12, <2>1, <2>3 DEF WriteArrives
    <3>2. {e0} \in SUBSET consent.pending BY <2>3
    <3>3. /\ ConsentBase(v) /\ WatchInv(v) /\ v.told[e0] = consent.verdict
          /\ \A f \in {"queue", "step", "verdict", "view", "disposed", "watch", "retry"} : v[f] = consent[f]
      BY <1>1, <3>2, ConsentUnparked
    <3> HIDE DEF v
    <3>4. ConsentOK(s) /\ \A f \in {"told", "queue", "step", "verdict"} : s[f] = v[f]
      BY <3>3, ConsentBumped
    <3> HIDE DEF s
    <3>5. /\ s \in ConsentType /\ ConsentBase(s) /\ WatchInv(s) /\ FreshInv(s) /\ s.queue = consent.queue
          /\ s.told[e0] = s.verdict
      BY <3>3, <3>4 DEF ConsentOK, ConsentBase
    <3>6. u \in ConsentType BY <3>5 DEF ConsentType
    <3>7. /\ u.slots = s.slots /\ u.pending = s.pending /\ u.told = s.told /\ u.acked = s.acked
          /\ u.snap = s.snap /\ u.view = s.view /\ u.inFlight = s.inFlight /\ u.queue = s.queue
          /\ u.disposed = s.disposed /\ u.tick = s.tick /\ u.watch = s.watch /\ u.retry = s.retry
          /\ u.refreshPending = s.refreshPending /\ u.drain = s.drain /\ u.behind = s.behind
          /\ u.tried = s.tried /\ u.step = "accepted" /\ u.verdict = s.verdict
      BY <3>5 DEF ConsentType
    <3> HIDE DEF u
    <3>8. HostInv(u) /\ SeenInv(u) BY <3>5, <3>7 DEF ConsentBase, HostInv, SeenInv
    <3>9. AcceptedInv(u) BY <3>5, <3>7 DEF AcceptedInv, e0
    <3>10. QueueInv(u) BY <2>1, <3>5, <3>7 DEF ConsentBase, QueueInv
    <3>11. WatchInv(u) /\ FreshInv(u) BY <3>5, <3>7 DEF WatchInv, DownInv, FreshInv
    <3> QED BY <3>1, <3>6, <3>8, <3>9, <3>10, <3>11 DEF ConsentOK, ConsentBase
  <2> QED BY <2>2, <2>3
<1>13. CASE WriteAnswered
  <2>1. CASE consent.step = "refused" BY <1>1, <1>3, <1>13, <2>1 DEF WriteAnswered
  <2>2. CASE consent.step = "accepted"
    <3> DEFINE acked == [consent.acked EXCEPT ![e0] = consent.verdict]
               u == [consent EXCEPT !.step = "refreshing", !.acked = acked]
    <3>1. consent.queue # << >> /\ consent' = refreshed(u) /\ e0 \in ParkedEntry
      BY <1>1, <1>2, <1>13, <2>2 DEF WriteAnswered
    <3>2. acked \in [ParkedEntry -> Decision \cup {"none"}] BY <1>1 DEF ConsentType
    <3>3. \A e \in ParkedEntry : acked[e] = IF e = e0 THEN consent.verdict ELSE consent.acked[e]
      BY <1>1 DEF ConsentType
    <3>4. consent.told[e0] = consent.verdict BY <1>1, <2>2 DEF AcceptedInv, e0
    <3> HIDE DEF acked
    <3>5. u \in ConsentType BY <1>1, <3>2 DEF ConsentType
    <3>6. /\ u.slots = consent.slots /\ u.pending = consent.pending /\ u.told = consent.told /\ u.acked = acked
          /\ u.snap = consent.snap /\ u.view = consent.view /\ u.inFlight = consent.inFlight
          /\ u.queue = consent.queue /\ u.disposed = consent.disposed /\ u.tick = consent.tick
          /\ u.watch = consent.watch /\ u.retry = consent.retry /\ u.refreshPending = consent.refreshPending
          /\ u.drain = consent.drain /\ u.behind = consent.behind /\ u.tried = consent.tried
          /\ u.step = "refreshing" /\ u.verdict = consent.verdict
      BY <1>1 DEF ConsentType
    <3> HIDE DEF u
    <3>7. HostInv(u) BY <1>1, <3>3, <3>4, <3>6 DEF HostInv
    <3>8. AcceptedInv(u) /\ QueueInv(u) /\ SeenInv(u) /\ DownInv(u)
      BY <1>1, <3>1, <3>6 DEF ConsentBase, AcceptedInv, QueueInv, SeenInv, DownInv
    <3>9. ConsentBase(u) BY <3>5, <3>7, <3>8 DEF ConsentBase
    <3> QED BY <3>1, <3>8, <3>9, ConsentRefreshed
  <2> QED BY <1>13, <2>1, <2>2 DEF WriteAnswered
<1>14. CASE DecideReturns BY <1>1, <1>3, <1>14 DEF DecideReturns
<1>15. CASE EntryFails
  <2> DEFINE failed == consent.failed \cup {e0}
  <2>1. consent.queue # << >> /\ consent.faults + 1 \in 0..MaxFaults
    BY <1>1, <1>15, ConsentAssumption DEF EntryFails, ConsentType, ConsentAssumption
  <2>2. consent' = finished([consent EXCEPT !.faults = consent.faults + 1, !.failed = failed, !.late = consent.late])
    <3>1. [consent EXCEPT !.faults = @ + 1, !.failed = @ \cup {e0}]
            = [consent EXCEPT !.faults = consent.faults + 1, !.failed = failed, !.late = consent.late]
      BY <1>1 DEF ConsentType
    <3> QED BY <1>2, <1>15, <2>1, <3>1 DEF EntryFails
  <2>3. consent.late \in SUBSET (ParkedEntry \X Decision) /\ failed \in SUBSET ParkedEntry
    BY <1>1, <1>2, <2>1 DEF ConsentType
  <2> HIDE DEF failed
  <2> QED BY <1>6, <2>1, <2>2, <2>3
<1>16. CASE WriteTimesOut
  <2> DEFINE late == consent.late \cup (IF consent.step = "writing" THEN {<<e0, consent.verdict>>} ELSE {})
             failed == consent.failed \cup {e0}
  <2>1. consent.queue # << >> /\ consent.faults + 1 \in 0..MaxFaults
    BY <1>1, <1>16, ConsentAssumption DEF WriteTimesOut, ConsentType, ConsentAssumption
  <2>2. consent' = finished([consent EXCEPT !.faults = consent.faults + 1, !.failed = failed, !.late = late])
    BY <1>2, <1>16, <2>1 DEF WriteTimesOut
  <2>3. late \in SUBSET (ParkedEntry \X Decision) /\ failed \in SUBSET ParkedEntry
    BY <1>1, <1>2, <2>1 DEF ConsentType
  <2> HIDE DEF late, failed
  <2> QED BY <1>6, <2>1, <2>2, <2>3
<1> QED BY <1>7, <1>8, <1>9, <1>10, <1>11, <1>12, <1>13, <1>14, <1>15, <1>16 DEF ApproverSteps

LEMMA ConsentImplies == ConsentOK(consent) => ConsentTypeOK /\ DecisionIsExclusive /\ SnapshotIsFresh /\ QueuedOnce
<1> SUFFICES ASSUME ConsentOK(consent) PROVE ConsentTypeOK /\ DecisionIsExclusive /\ SnapshotIsFresh /\ QueuedOnce
  OBVIOUS
<1>1. /\ consent \in ConsentType /\ HostInv(consent) /\ FreshInv(consent) /\ QueueInv(consent) /\ SeenInv(consent)
  BY DEF ConsentOK, ConsentBase
<1>2. ConsentTypeOK BY <1>1 DEF ConsentTypeOK, ConsentType
<1>3. DecisionIsExclusive
  <2>1. \A e : e \in UNION {entriesOf(c) : c \in ConsentCall} <=> e \in ParkedEntry /\ e[2] <= consent.slots[e[1]]
    <3>1. ASSUME NEW e, e \in UNION {entriesOf(c) : c \in ConsentCall}
          PROVE  e \in ParkedEntry /\ e[2] <= consent.slots[e[1]]
      <4>1. PICK c \in ConsentCall : e \in {c} \X (1..consent.slots[c]) BY <3>1 DEF entriesOf
      <4>2. consent.slots[c] \in 0..MaxSlots BY <1>1 DEF ConsentType
      <4>3. e = <<e[1], e[2]>> /\ e[1] = c /\ e[2] \in 1..consent.slots[c] BY <4>1
      <4>4. e[2] \in 1..MaxSlots /\ e[2] <= consent.slots[c]
        BY <4>2, <4>3, ConsentAssumption DEF ConsentAssumption
      <4> QED BY <4>3, <4>4 DEF ParkedEntry
    <3>2. ASSUME NEW e \in ParkedEntry, e[2] <= consent.slots[e[1]]
          PROVE  e \in UNION {entriesOf(c) : c \in ConsentCall}
      <4>1. e = <<e[1], e[2]>> /\ e[1] \in ConsentCall /\ e[2] \in 1..MaxSlots BY DEF ParkedEntry
      <4>2. consent.slots[e[1]] \in 0..MaxSlots BY <1>1, <4>1 DEF ConsentType
      <4>3. e[2] \in 1..consent.slots[e[1]]
        BY <3>2, <4>1, <4>2, ConsentAssumption DEF ConsentAssumption
      <4>4. e \in entriesOf(e[1]) BY <4>1, <4>3 DEF entriesOf
      <4> QED BY <4>1, <4>4
    <3> QED BY <3>1, <3>2
  <2>2. consent.pending \subseteq ParkedEntry BY <1>1 DEF ConsentType
  <2>3. \A e : e \in consent.pending <=> e \in ParkedEntry /\ e[2] <= consent.slots[e[1]] /\ consent.told[e] = "none"
    BY <1>1, <2>2 DEF HostInv
  <2>4. consent.pending = {e \in UNION {entriesOf(c) : c \in ConsentCall} : consent.told[e] = "none"}
    BY <2>1, <2>3
  <2> QED BY <1>1, <2>4 DEF DecisionIsExclusive, HostInv
<1>4. SnapshotIsFresh BY <1>1 DEF SnapshotIsFresh, FreshInv
<1>5. QueuedOnce
  <2> DEFINE q == consent.queue
  <2>1. q \in Seq(ParkedEntry) /\ DOMAIN q = 1..Len(q) BY <1>1 DEF ConsentType
  <2>2. \A e : e \in Range(q) <=> InLine(q, e) BY <2>1 DEF Range, InLine
  <2> QED BY <1>1, <2>1, <2>2 DEF QueuedOnce, QueueInv, SeenInv, Distinct
<1> QED BY <1>2, <1>3, <1>4, <1>5

\* The consent rendezvous (hubAccessManifest, approveClient, manifestApprover): whoever decides a parked
\* request first decides it, and it is shown exactly as long as its consumer waits; a snapshot that is
\* out of date is about to be replaced; and the operator is asked for what is shown, for each entry once.
THEOREM ConsentKept ==
    ConsentSpec => [](ConsentTypeOK /\ DecisionIsExclusive /\ SnapshotIsFresh /\ QueuedOnce)
<1>1. ConsentInit => ConsentOK(consent) BY ConsentInitial
<1>2. ConsentOK(consent) /\ [ConsentNext]_consent => ConsentOK(consent)'
  <2> SUFFICES ASSUME ConsentOK(consent), [ConsentNext]_consent PROVE ConsentOK(consent)'
    OBVIOUS
  <2>1. CASE UNCHANGED consent BY <2>1
  <2>2. ASSUME NEW c \in ConsentCall, CallAborted(c) \/ \E n \in 1..MaxSlots : CallParked(c, n) PROVE ConsentOK(consent')
    BY <2>2, ConsentHostSteps
  <2>3. ASSUME NEW e \in ParkedEntry, NEW how \in Decision, OtherDecides(e, how) \/ LateWriteArrives(e, how)
        PROVE  ConsentOK(consent')
    BY <2>3, ConsentHostSteps
  <2>4. CASE ClientSteps \/ ReadFails \/ WatchEndsEarly \/ ApproverDisposed
    BY <2>4, ConsentClientSteps
  <2>5. CASE ApproverSteps \/ EntryFails \/ WriteTimesOut BY <2>5, ConsentApproverSteps
  <2> QED BY <2>1, <2>2, <2>3, <2>4, <2>5 DEF ConsentNext
<1>3. ConsentOK(consent) => ConsentTypeOK /\ DecisionIsExclusive /\ SnapshotIsFresh /\ QueuedOnce
  BY ConsentImplies
<1> QED BY <1>1, <1>2, <1>3, PTL DEF ConsentSpec
=============================================================================
