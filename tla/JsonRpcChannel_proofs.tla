------------------------ MODULE JsonRpcChannel_proofs ------------------------
(***************************************************************************)
(* Safety of a pair of channels for any number of calls and frames, with   *)
(* either or both of them calling and deferring (JsonRpcChannel), and of   *)
(* the channel of the Rust implementation, which several threads share     *)
(* (RustChannel).                                                          *)
(***************************************************************************)
EXTENDS JsonRpcChannel, RustChannel, SequenceTheorems, TLAPS

-----------------------------------------------------------------------------
(* A pair of channels (JsonRpcChannel).                                    *)

LEMMA OtherPeer == \A e \in Peer : Other(e) \in Peer /\ Other(e) # e
BY ChannelAssumption DEF Other

LEMMA Bounds == MaxCalls \in Nat /\ MaxFrames \in Nat
BY ChannelAssumption

\* Writing a message keeps the wires well-typed and those to closed channels empty.
LEMMA PostCorrect ==
    ASSUME NEW w \in [Peer -> Seq(Message)], NEW e \in Peer, NEW m \in Message,
           closed \in [Peer -> BOOLEAN],
           \A f \in Peer : closed[f] => w[f] = << >>
    PROVE  /\ post(w, e, m) \in [Peer -> Seq(Message)]
           /\ \A f \in Peer : closed[f] => post(w, e, m)[f] = << >>
<1>1. CASE closed[e] \/ closed[Other(e)] BY <1>1 DEF post
<1>2. CASE ~(closed[e] \/ closed[Other(e)])
    <2>1. post(w, e, m) = [w EXCEPT ![Other(e)] = Append(@, m)] BY <1>2 DEF post
    <2>2. Append(w[Other(e)], m) \in Seq(Message) BY OtherPeer
    <2> QED BY <1>2, <2>1, <2>2, OtherPeer
<1> QED BY <1>1, <1>2

\* The messages the channels write.
LEMMA MessagesTyped ==
    ASSUME NEW id \in RequestId
    PROVE  /\ \A k \in RequestKind : request(id, k) \in Message
           /\ response(id) \in Message
           /\ \A k \in FrameKind, dir \in {"toCaller", "toCallee"} : frame(id, dir, k) \in Message
BY DEF request, response, frame, Message, RequestKind

\* Taking one message out of a queue leaves a queue.
LEMMA RemoveAtTyped ==
    ASSUME NEW s \in Seq(Message), NEW k \in DOMAIN s
    PROVE  removeAt(s, k) \in Seq(Message) /\ s[k] \in Message
<1>1. k \in 1..Len(s) /\ s[k] \in Message /\ Len(s) \in Nat OBVIOUS
<1>2. SubSeq(s, 1, k - 1) \in Seq(Message) BY <1>1, SubSeqProperties
<1>3. SubSeq(s, k + 1, Len(s)) \in Seq(Message) BY <1>1, SubSeqProperties
<1> QED BY <1>1, <1>2, <1>3, ConcatProperties DEF removeAt
CallType == [Peer -> [RequestId -> {"none", "open", "settled"}]]
EntryType == [Peer -> [RequestId -> Entry]]
ProbeType == [Peer -> SUBSET ({"out", "in"} \X RequestId)]

\* What settling promises does, id by id.
LEMMA SettleFacts ==
    ASSUME TypeOK, NEW e \in Peer, NEW ids \in SUBSET RequestId
    PROVE  /\ settled(e, ids) \in CallType
           /\ stopQueued(e, ids) \in [Peer -> SUBSET RequestId]
           /\ \A f \in Peer, i \in RequestId :
                 /\ settled(e, ids)[f][i] = IF f = e /\ i \in ids THEN "settled" ELSE call[f][i]
                 /\ i \in stopQueued(e, ids)[f] <=>
                       i \in stopping[f] \/ (f = e /\ i \in ids /\ mode[f][i] = "stream")
<1>1. settled(e, ids) \in CallType BY DEF settled, CallType, TypeOK
<1>2. stopQueued(e, ids) \in [Peer -> SUBSET RequestId] BY DEF stopQueued, TypeOK
<1>3. \A f \in Peer, i \in RequestId :
          settled(e, ids)[f][i] = IF f = e /\ i \in ids THEN "settled" ELSE call[f][i]
  BY DEF settled, TypeOK
<1>4. \A f \in Peer, i \in RequestId :
          i \in stopQueued(e, ids)[f] <=>
              i \in stopping[f] \/ (f = e /\ i \in ids /\ mode[f][i] = "stream")
  BY DEF stopQueued, TypeOK
<1> QED BY <1>1, <1>2, <1>3, <1>4

\* What dropping a callback does.
LEMMA DropFacts ==
    ASSUME NEW g \in EntryType, NEW e \in Peer, NEW id \in RequestId
    PROVE  /\ dropEntry(g, e, id) \in EntryType
           /\ \A f \in Peer, i \in RequestId :
                 dropEntry(g, e, id)[f][i] = IF f = e /\ i = id THEN "none" ELSE g[f][i]
BY DEF dropEntry, EntryType, Entry

\* What rejecting probes does.
LEMMA ProbeFacts ==
    ASSUME TypeOK, NEW e \in Peer, NEW role \in {"out", "in"}, NEW id \in RequestId
    PROVE  /\ withoutProbes(e, role, {id}) \in ProbeType
           /\ \A f \in Peer : withoutProbes(e, role, {id})[f] \subseteq probes[f]
           /\ <<role, id>> \notin withoutProbes(e, role, {id})[e]
BY DEF withoutProbes, TypeOK, ProbeType

\* Settling the promises of ids and dropping their callbacks keeps the parts of
\* the invariant about calls, however the ids were chosen: by a response, a failed
\* write, dispose or close.
LEMMA SettleStep ==
    ASSUME IInv, NEW e \in Peer, NEW ids \in SUBSET pending[e],
           call' = settled(e, ids), stopping' = stopQueued(e, ids),
           \A f \in Peer, i \in RequestId :
              /\ i \in pending'[f] <=> i \in pending[f] /\ ~(f = e /\ i \in ids)
              /\ listener'[f][i] \in {listener[f][i], "none"}
              /\ f = e /\ i \in ids => listener'[f][i] # "out"
              /\ control'[f][i] \in {control[f][i], "none"}
              /\ <<"out", i>> \in probes'[f] => <<"out", i>> \in probes[f]
              /\ <<"in", i>> \in probes'[f] => <<"in", i>> \in probes[f]
              /\ active(f, i) => active(f, i)',
           UNCHANGED <<nextId, mode>>
    PROVE  CallTracked' /\ EntryScope' /\ (LatePing \/ ProbeScope)' /\ CallsKnown'
<1> SUFFICES ASSUME NEW f \in Peer, NEW i \in RequestId
             PROVE  /\ call'[f][i] = "open" <=> i \in pending'[f]
                    /\ listener'[f][i] = "out" => call'[f][i] = "open"
                    /\ control'[f][i] = "out" => call'[f][i] = "open" \/ i \in stopping'[f]
                    /\ "in" \in {listener'[f][i], control'[f][i]} => active(f, i)'
                    /\ LatePing \/ (<<"out", i>> \in probes'[f] => call'[f][i] = "open" \/ i \in stopping'[f])
                    /\ LatePing \/ (<<"in", i>> \in probes'[f] => active(f, i)')
                    /\ call'[f][i] # "none" => i < nextId[f]
                    /\ i \in stopping'[f] => call'[f][i] # "none"
                    /\ "out" \in {listener'[f][i], control'[f][i]} \/ <<"out", i>> \in probes'[f] =>
                          mode[f][i] = "stream" /\ call'[f][i] # "none"
  BY DEF CallTracked, EntryScope, ProbeScope, CallsKnown
<1>1. /\ call[f][i] = "open" <=> i \in pending[f]
      /\ listener[f][i] = "out" => call[f][i] = "open"
      /\ control[f][i] = "out" => call[f][i] = "open" \/ i \in stopping[f]
      /\ "in" \in {listener[f][i], control[f][i]} => active(f, i)
      /\ LatePing \/ (<<"out", i>> \in probes[f] => call[f][i] = "open" \/ i \in stopping[f])
      /\ LatePing \/ (<<"in", i>> \in probes[f] => active(f, i))
      /\ call[f][i] # "none" => i < nextId[f]
      /\ i \in stopping[f] => call[f][i] # "none"
      /\ "out" \in {listener[f][i], control[f][i]} \/ <<"out", i>> \in probes[f] =>
            mode[f][i] = "stream" /\ call[f][i] # "none"
  BY DEF IInv, CallTracked, EntryScope, ProbeScope, CallsKnown
<1>2. /\ call'[f][i] = IF f = e /\ i \in ids THEN "settled" ELSE call[f][i]
      /\ i \in stopping'[f] <=> i \in stopping[f] \/ (f = e /\ i \in ids /\ mode[f][i] = "stream")
    <2>1. TypeOK /\ ids \in SUBSET RequestId BY DEF IInv, TypeOK
    <2> QED BY <2>1, SettleFacts
<1>3. /\ i \in pending'[f] <=> i \in pending[f] /\ ~(f = e /\ i \in ids)
      /\ listener'[f][i] \in {listener[f][i], "none"}
      /\ f = e /\ i \in ids => listener'[f][i] # "out"
      /\ control'[f][i] \in {control[f][i], "none"}
      /\ <<"out", i>> \in probes'[f] => <<"out", i>> \in probes[f]
      /\ <<"in", i>> \in probes'[f] => <<"in", i>> \in probes[f]
      /\ active(f, i) => active(f, i)'
  OBVIOUS
<1> QED BY <1>1, <1>2, <1>3

-----------------------------------------------------------------------------
\* A dispatched message, from the wire or from the deferred queue, keeps the
\* invariant.
LEMMA DispatchStep ==
    ASSUME IInv, NEW e \in Peer, NEW m \in Message, ~closed[e],
           NEW w \in [Peer -> Seq(Message)], NEW d \in [Peer -> Seq(Message)],
           \A f \in Peer : closed[f] => w[f] = << >> /\ d[f] = << >>,
           Dispatch(e, m, w, d), UNCHANGED <<deferring, resumed, draining>>
    PROVE  IInv'
<1> USE DEF IInv
<1>un. UNCHANGED <<nextId, closed, mode, failing>> BY DEF Dispatch
<1>id. m.id \in RequestId /\ m.kind \in RequestKind \cup {"response"} \cup FrameKind BY DEF Message
<1>pre. prematureAfter(e, m, w, d) \in [Peer -> SUBSET RequestId]
  BY <1>id DEF prematureAfter, TypeOK
<1>1. CASE DispatchResponse(e, m, w, d)
    <2> DEFINE open == pending[e] \cap {m.id}
    <2>1. /\ call' = settled(e, open)
          /\ stopping' = stopQueued(e, open)
          /\ pending' = [pending EXCEPT ![e] = @ \ {m.id}]
          /\ listener' = IF open = {} THEN listener ELSE dropEntry(listener, e, m.id)
          /\ wire' = w
          /\ deferred' = d
          /\ UNCHANGED <<control, aborts, handler, probes, premature, frames>>
      BY <1>1 DEF DispatchResponse
    <2>2. open \in SUBSET RequestId /\ open \in SUBSET pending[e] BY <1>id
    <2>3. call' \in CallType /\ stopping' \in [Peer -> SUBSET RequestId]
        <3> HIDE DEF open
        <3> QED BY <2>1, <2>2, SettleFacts
    <2>4. /\ listener' \in EntryType
          /\ \A f \in Peer, i \in RequestId :
                /\ listener'[f][i] \in {listener[f][i], "none"}
                /\ f = e /\ i \in open => listener'[f][i] # "out"
        <3>1. listener \in EntryType BY DEF TypeOK, EntryType
        <3>2. CASE open = {} BY <2>1, <3>1, <3>2
        <3>3. CASE open # {}
            <4>1. listener' = dropEntry(listener, e, m.id) /\ \A i \in open : i = m.id BY <2>1, <3>3
            <4> HIDE DEF open
            <4> QED BY <1>id, <3>1, <4>1, DropFacts
        <3> QED BY <3>2, <3>3
    <2>5. TypeOK'
        <3> HIDE DEF open
        <3> QED BY <1>un, <1>id, <2>1, <2>3, <2>4 DEF TypeOK, CallType, EntryType
    <2>6. \A f \in Peer, i \in RequestId :
             /\ i \in pending'[f] <=> i \in pending[f] /\ ~(f = e /\ i \in open)
             /\ active(f, i) => active(f, i)'
      BY <2>1 DEF TypeOK, active
    <2>7. CallTracked' /\ EntryScope' /\ (LatePing \/ ProbeScope)' /\ CallsKnown'
        <3> HIDE DEF open, IInv
        <3> QED BY <1>un, <2>1, <2>2, <2>4, <2>6, SettleStep
    <2>8. HandlersAbortable' /\ ClosedQuiet'
      BY <1>un, <2>1 DEF TypeOK, HandlersAbortable, ClosedQuiet
    <2> QED BY <2>5, <2>7, <2>8
<1>2. CASE DispatchRequest(e, m, w, d)
    <2> USE <1>2, <1>id, <1>un DEF DispatchRequest
    <2>1. TypeOK' BY DEF TypeOK, Entry
    <2>2. CallTracked' BY DEF TypeOK, CallTracked
    <2>3. EntryScope' BY DEF TypeOK, EntryScope, active
    <2>4. (LatePing \/ ProbeScope)' BY DEF TypeOK, ProbeScope, active
    <2>5. CallsKnown' BY DEF TypeOK, CallsKnown
    <2>6. HandlersAbortable' BY DEF TypeOK, HandlersAbortable
    <2>7. ClosedQuiet' BY DEF TypeOK, ClosedQuiet
    <2> QED BY <2>1, <2>2, <2>3, <2>4, <2>5, <2>6, <2>7
<1>3. CASE DispatchPayload(e, m, w, d)
    <2> USE <1>3, <1>id, <1>pre, <1>un DEF DispatchPayload
    <2>1. TypeOK' BY DEF TypeOK
    <2> QED BY <2>1 DEF CallTracked, EntryScope, ProbeScope, CallsKnown, HandlersAbortable,
                        ClosedQuiet, active
<1>4. CASE DispatchControl(e, m, w, d)
    <2> USE <1>4, <1>id, <1>pre, <1>un
    <2>1. /\ wire' \in [Peer -> Seq(Message)]
          /\ \A f \in Peer : closed[f] => wire'[f] = << >>
          /\ frames' \in 0..MaxFrames
        <3>1. CASE wire' = w /\ frames' = frames BY <3>1 DEF TypeOK
        <3>2. CASE \E dir \in {"toCaller", "toCallee"} :
                      wire' = post(w, e, frame(m.id, dir, "pong")) /\ frames' = frames + 1 /\ frames < MaxFrames
            <4>1. PICK dir \in {"toCaller", "toCallee"} :
                      wire' = post(w, e, frame(m.id, dir, "pong")) /\ frames' = frames + 1 /\ frames < MaxFrames
              BY <3>2
            <4>2. frame(m.id, dir, "pong") \in Message BY MessagesTyped DEF FrameKind
            <4>3. wire' \in [Peer -> Seq(Message)] /\ \A f \in Peer : closed[f] => wire'[f] = << >>
              BY <4>1, <4>2, PostCorrect DEF TypeOK
            <4>4. frames' \in 0..MaxFrames BY <4>1, ChannelAssumption DEF TypeOK
            <4> QED BY <4>3, <4>4
        <3> QED BY <3>1, <3>2 DEF DispatchControl
    <2>2. /\ probes' \in [Peer -> SUBSET ({"out", "in"} \X RequestId)]
          /\ \A f \in Peer : probes'[f] \subseteq probes[f]
      BY DEF DispatchControl, withoutProbes, TypeOK
    <2>3. /\ handler' \in [Peer -> [RequestId -> {"none", "running", "aborted", "done"}]]
          /\ \A f \in Peer, i \in RequestId :
                /\ active(f, i) => active(f, i)'
                /\ handler'[f][i] = "running" => handler[f][i] = "running"
      BY DEF DispatchControl, TypeOK, active
    <2>4. /\ UNCHANGED <<pending, listener, control, aborts, call, stopping, nextId, closed, mode, failing>>
          /\ deferred' = d
          /\ premature' = prematureAfter(e, m, w, d)
      BY DEF DispatchControl
    <2>5. TypeOK' BY <2>1, <2>2, <2>3, <2>4 DEF TypeOK
    <2>6. CallTracked' /\ HandlersAbortable' /\ ClosedQuiet'
      BY <2>1, <2>3, <2>4 DEF CallTracked, HandlersAbortable, ClosedQuiet
    <2>7. EntryScope' BY <2>3, <2>4 DEF EntryScope
    <2>8. (LatePing \/ ProbeScope)' /\ CallsKnown' BY <2>2, <2>3, <2>4 DEF ProbeScope, CallsKnown
    <2> QED BY <2>5, <2>6, <2>7, <2>8
<1> QED BY <1>1, <1>2, <1>3, <1>4 DEF Dispatch

-----------------------------------------------------------------------------
LEMMA InitIInv == Init => IInv
<1> SUFFICES ASSUME Init PROVE IInv
  OBVIOUS
<1>1. TypeOK
    <2>1. 1 \in 1..(MaxCalls + 1) /\ 0 \in 0..MaxFrames BY Bounds
    <2>2. << >> \in Seq(Message) OBVIOUS
    <2> QED BY <2>1, <2>2 DEF Init, TypeOK, Entry
<1>2. CallTracked /\ EntryScope /\ ProbeScope BY DEF Init, CallTracked, EntryScope, ProbeScope
<1>3. CallsKnown /\ HandlersAbortable /\ ClosedQuiet
  BY DEF Init, CallsKnown, HandlersAbortable, ClosedQuiet
<1> QED BY <1>1, <1>2, <1>3 DEF IInv

LEMMA SendRequestStep ==
    ASSUME IInv, NEW e \in Peer, NEW md \in {"plain", "stream"}, NEW kind \in RequestKind,
           NEW fails \in BOOLEAN, SendRequest(e, md, kind, fails)
    PROVE  IInv'
<1> DEFINE id == nextId[e]
<1> USE DEF IInv
<1>1. id \in RequestId /\ id + 1 \in 1..(MaxCalls + 1) /\ ~closed[e]
  BY ChannelAssumption DEF SendRequest, TypeOK, RequestId
<1>2. \A i \in RequestId : i < id => i # id /\ i < id + 1 BY <1>1 DEF RequestId
<1>3. call[e][id] = "none" /\ id \notin stopping[e] BY <1>1, <1>2 DEF CallsKnown
<1>4. wire' \in [Peer -> Seq(Message)] /\ \A f \in Peer : closed[f] => wire'[f] = << >>
    <2>1. request(id, kind) \in Message BY <1>1, MessagesTyped
    <2>2. wire' = wire \/ wire' = post(wire, e, request(id, kind)) BY DEF SendRequest
    <2>3. /\ wire \in [Peer -> Seq(Message)]
          /\ closed \in [Peer -> BOOLEAN]
          /\ \A f \in Peer : closed[f] => wire[f] = << >>
      BY DEF TypeOK, ClosedQuiet
    <2> HIDE DEF id, IInv
    <2>4. /\ post(wire, e, request(id, kind)) \in [Peer -> Seq(Message)]
          /\ \A f \in Peer : closed[f] => post(wire, e, request(id, kind))[f] = << >>
      BY <2>1, <2>3, PostCorrect, Zenon
    <2>5. CASE wire' = wire BY <2>3, <2>5
    <2>6. CASE wire' = post(wire, e, request(id, kind)) BY <2>4, <2>6, Zenon
    <2> QED BY <2>2, <2>5, <2>6
<1>5. /\ nextId' = [nextId EXCEPT ![e] = id + 1]
      /\ pending' = [pending EXCEPT ![e] = @ \cup {id}]
      /\ call' = [call EXCEPT ![e][id] = "open"]
      /\ mode' = [mode EXCEPT ![e][id] = md]
      /\ listener' = IF md = "stream" THEN [listener EXCEPT ![e][id] = "out"] ELSE listener
      /\ control' = IF md = "stream" THEN [control EXCEPT ![e][id] = "out"] ELSE control
      /\ failing' = [failing EXCEPT ![e] = @ \cup {id}] \/ failing' = failing
      /\ UNCHANGED <<aborts, deferred, deferring, resumed, draining, closed,
                     handler, stopping, probes, premature, frames>>
  BY DEF SendRequest
<1> HIDE DEF id
<1>6. TypeOK'
    <2>1. nextId' \in [Peer -> 1..(MaxCalls + 1)] BY <1>1, <1>5 DEF TypeOK
    <2>2. /\ pending' \in [Peer -> SUBSET RequestId]
          /\ failing' \in [Peer -> SUBSET RequestId]
        <3>1. pending \in [Peer -> SUBSET RequestId] /\ failing \in [Peer -> SUBSET RequestId]
          BY DEF TypeOK
        <3>2. pending' \in [Peer -> SUBSET RequestId] BY <1>1, <1>5, <3>1
        <3>3. failing' \in [Peer -> SUBSET RequestId] BY <1>1, <1>5, <3>1
        <3> QED BY <3>2, <3>3
    <2>3. /\ call' \in [Peer -> [RequestId -> {"none", "open", "settled"}]]
          /\ mode' \in [Peer -> [RequestId -> {"plain", "stream"}]]
      BY <1>1, <1>5 DEF TypeOK
    <2>4. listener' \in [Peer -> [RequestId -> Entry]] BY <1>1, <1>5 DEF TypeOK, Entry
    <2>5. control' \in [Peer -> [RequestId -> Entry]] BY <1>1, <1>5 DEF TypeOK, Entry
    <2> QED BY <1>4, <1>5, <2>1, <2>2, <2>3, <2>4, <2>5 DEF TypeOK
<1>7. CallTracked' BY <1>1, <1>5 DEF TypeOK, CallTracked
<1>8. EntryScope' BY <1>1, <1>3, <1>5 DEF TypeOK, EntryScope, active
<1>9. (LatePing \/ ProbeScope)' BY <1>1, <1>5 DEF TypeOK, ProbeScope, active
<1>10. CallsKnown'
    <2> SUFFICES ASSUME NEW f \in Peer, NEW i \in RequestId
                 PROVE  /\ call'[f][i] # "none" => i < nextId'[f]
                        /\ i \in stopping'[f] => call'[f][i] # "none"
                        /\ \/ "out" \in {listener'[f][i], control'[f][i]}
                           \/ <<"out", i>> \in probes'[f]
                           => mode'[f][i] = "stream" /\ call'[f][i] # "none"
      BY DEF CallsKnown
    <2>1. CASE f # e BY <1>5, <2>1 DEF TypeOK, CallsKnown
    <2>2. CASE f = e /\ i # id
        <3>1. call'[f][i] = call[f][i] /\ mode'[f][i] = mode[f][i] BY <1>5, <2>2 DEF TypeOK
        <3>2. listener'[f][i] = listener[f][i] /\ control'[f][i] = control[f][i]
          BY <1>5, <2>2 DEF TypeOK
        <3>3. call[f][i] # "none" => i < nextId'[f]
          BY <1>1, <1>2, <1>5, <2>2 DEF TypeOK, CallsKnown, id
        <3> QED BY <1>5, <3>1, <3>2, <3>3 DEF CallsKnown
    <2>3. CASE f = e /\ i = id
        <3>0. nextId'[f] = id + 1 BY <1>5, <2>3 DEF TypeOK
        <3>1. call'[f][i] = "open" /\ mode'[f][i] = md BY <1>1, <1>5, <2>3 DEF TypeOK
        <3>2. md # "stream" => listener' = listener /\ control' = control BY <1>5
        <3>3. i < nextId'[f] BY <1>1, <2>3, <3>0 DEF RequestId
        <3> QED BY <1>3, <1>5, <2>3, <3>1, <3>2, <3>3 DEF CallsKnown
    <2> QED BY <2>1, <2>2, <2>3
<1>11. HandlersAbortable' /\ ClosedQuiet'
  BY <1>1, <1>4, <1>5 DEF TypeOK, HandlersAbortable, ClosedQuiet
<1> QED BY <1>6, <1>7, <1>8, <1>9, <1>10, <1>11

LEMMA StopPingStep ==
    ASSUME IInv, NEW e \in Peer, NEW id \in RequestId, StopPing(e, id)
    PROVE  IInv'
<1> USE DEF IInv
<1>1. /\ stopping' = [stopping EXCEPT ![e] = @ \ {id}]
      /\ control' = dropEntry(control, e, id)
      /\ probes' = withoutProbes(e, "out", {id})
      /\ UNCHANGED <<nextId, pending, listener, aborts, deferred, deferring, resumed, draining,
                     closed, wire, call, mode, handler, failing, premature, frames>>
  BY DEF StopPing
<1>2. /\ control' \in EntryType
      /\ \A f \in Peer, i \in RequestId :
            control'[f][i] = IF f = e /\ i = id THEN "none" ELSE control[f][i]
    <2>1. control \in EntryType BY DEF TypeOK, EntryType
    <2> QED BY <1>1, <2>1, DropFacts
<1>3. /\ probes' \in ProbeType
      /\ \A f \in Peer : probes'[f] \subseteq probes[f]
      /\ <<"out", id>> \notin probes'[e]
  BY <1>1, ProbeFacts
<1>4. /\ stopping' \in [Peer -> SUBSET RequestId]
      /\ \A f \in Peer, i \in RequestId : i \in stopping'[f] <=> i \in stopping[f] /\ ~(f = e /\ i = id)
  BY <1>1 DEF TypeOK
<1>5. TypeOK' BY <1>1, <1>2, <1>3, <1>4 DEF TypeOK, EntryType, ProbeType
<1>6. CallTracked' /\ HandlersAbortable' /\ ClosedQuiet'
  BY <1>1 DEF CallTracked, HandlersAbortable, ClosedQuiet
<1>7. EntryScope' BY <1>1, <1>2, <1>4 DEF EntryScope, active
<1>8. (LatePing \/ ProbeScope)' BY <1>1, <1>3, <1>4 DEF ProbeScope, active
<1>9. CallsKnown'
    <2>1. \A f \in Peer, i \in RequestId :
             /\ i \in stopping'[f] => i \in stopping[f]
             /\ "out" \in {listener'[f][i], control'[f][i]} => "out" \in {listener[f][i], control[f][i]}
             /\ <<"out", i>> \in probes'[f] => <<"out", i>> \in probes[f]
        <3>1. \A f \in Peer, i \in RequestId : i \in stopping'[f] => i \in stopping[f]
          BY <1>4, Zenon
        <3>2. \A f \in Peer, i \in RequestId : <<"out", i>> \in probes'[f] => <<"out", i>> \in probes[f]
          BY <1>3, Zenon
        <3>3. listener' = listener BY <1>1
        <3>4. ASSUME NEW f \in Peer, NEW i \in RequestId, "out" \in {listener'[f][i], control'[f][i]}
              PROVE  "out" \in {listener[f][i], control[f][i]}
          BY <1>2, <3>3, <3>4
        <3> QED BY <3>1, <3>2, <3>4
    <2>2. UNCHANGED <<call, nextId, mode>> BY <1>1
    <2> QED BY <2>1, <2>2 DEF CallsKnown
<1> QED BY <1>5, <1>6, <1>7, <1>8, <1>9

\* A streaming request whose callbacks, probes and promise go at once.
LEMMA ForgetStep ==
    ASSUME IInv, NEW e \in Peer, NEW id \in RequestId, SendFailure(e, id) \/ Dispose(e, id)
    PROVE  IInv'
<1> DEFINE open == pending[e] \cap {id}
<1> USE DEF IInv
<1>1. /\ call' = settled(e, open)
      /\ stopping' = stopQueued(e, open)
      /\ pending' = [pending EXCEPT ![e] = @ \ {id}]
      /\ failing' = [failing EXCEPT ![e] = @ \ {id}] \/ failing' = failing
      /\ UNCHANGED <<nextId, aborts, deferred, deferring, resumed, draining, closed,
                     wire, mode, handler, premature, frames>>
    <2>1. CASE SendFailure(e, id) BY <2>1 DEF SendFailure
    <2>2. CASE Dispose(e, id)
        <3>1. open = {id} BY <2>2 DEF Dispose
        <3> QED BY <2>2, <3>1 DEF Dispose
    <2> QED BY <2>1, <2>2
<1>2. open \in SUBSET RequestId /\ open \in SUBSET pending[e] /\ \A i \in open : i = id OBVIOUS
<1>3. \/ /\ listener' = dropEntry(listener, e, id)
         /\ control' = dropEntry(control, e, id)
         /\ probes' = withoutProbes(e, "out", {id})
      \/ /\ mode[e][id] # "stream"
         /\ UNCHANGED <<listener, control, probes>>
  BY DEF SendFailure, Dispose
<1> HIDE DEF open
<1>4. /\ listener' \in EntryType
      /\ control' \in EntryType
      /\ \A f \in Peer, i \in RequestId :
            /\ listener'[f][i] \in {listener[f][i], "none"}
            /\ f = e /\ i \in open => listener'[f][i] # "out"
            /\ control'[f][i] \in {control[f][i], "none"}
    <2>1. listener \in EntryType /\ control \in EntryType BY DEF TypeOK, EntryType
    <2>2. CASE listener' = dropEntry(listener, e, id) /\ control' = dropEntry(control, e, id)
      BY <1>2, <2>1, <2>2, DropFacts
    <2>3. CASE mode[e][id] # "stream" /\ UNCHANGED <<listener, control, probes>>
      BY <1>2, <2>1, <2>3 DEF CallsKnown
    <2> QED BY <1>3, <2>2, <2>3
<1>5. probes' \in ProbeType /\ \A f \in Peer : probes'[f] \subseteq probes[f]
  BY <1>3, ProbeFacts DEF TypeOK, ProbeType
<1>6. call' \in CallType /\ stopping' \in [Peer -> SUBSET RequestId] BY <1>1, <1>2, SettleFacts
<1>7. TypeOK'
    <2>1. pending' \in [Peer -> SUBSET RequestId] /\ failing' \in [Peer -> SUBSET RequestId]
        <3>1. pending \in [Peer -> SUBSET RequestId] /\ failing \in [Peer -> SUBSET RequestId]
          BY DEF TypeOK
        <3>2. pending' \in [Peer -> SUBSET RequestId] BY <1>1, <3>1
        <3>3. failing' \in [Peer -> SUBSET RequestId] BY <1>1, <3>1
        <3> QED BY <3>2, <3>3
    <2> QED BY <1>1, <1>4, <1>5, <1>6, <2>1 DEF TypeOK, CallType, EntryType, ProbeType
<1>8. \A f \in Peer, i \in RequestId :
         /\ i \in pending'[f] <=> i \in pending[f] /\ ~(f = e /\ i \in open)
         /\ active(f, i) => active(f, i)'
  BY <1>1 DEF TypeOK, active, open
<1>9. CallTracked' /\ EntryScope' /\ (LatePing \/ ProbeScope)' /\ CallsKnown'
    <2> HIDE DEF IInv
    <2> QED BY <1>1, <1>2, <1>4, <1>5, <1>8, SettleStep
<1>10. HandlersAbortable' /\ ClosedQuiet' BY <1>1 DEF TypeOK, HandlersAbortable, ClosedQuiet
<1> QED BY <1>7, <1>9, <1>10

\* One more frame on the wire, as CallerSends, HandlerSends and Ping write it.
LEMMA FrameStep ==
    ASSUME IInv, NEW e \in Peer, NEW id \in RequestId, NEW m \in Message,
           wire' = post(wire, e, m), frames < MaxFrames, frames' = frames + 1
    PROVE  /\ wire' \in [Peer -> Seq(Message)]
           /\ \A f \in Peer : closed[f] => wire'[f] = << >>
           /\ frames' \in 0..MaxFrames
<1>1. wire \in [Peer -> Seq(Message)] /\ closed \in [Peer -> BOOLEAN] /\ frames \in 0..MaxFrames
  BY DEF IInv, TypeOK
<1>2. \A f \in Peer : closed[f] => wire[f] = << >> BY DEF IInv, ClosedQuiet
<1>3. frames' \in 0..MaxFrames BY <1>1, Bounds
<1> QED BY <1>1, <1>2, <1>3, PostCorrect

LEMMA SendsStep ==
    ASSUME IInv, NEW e \in Peer, NEW id \in RequestId,
           (\E kind \in {"payload", "cancel"} : CallerSends(e, id, kind)) \/ HandlerSends(e, id)
    PROVE  IInv'
<1>1. /\ frames < MaxFrames
      /\ frames' = frames + 1
      /\ \E dir \in {"toCaller", "toCallee"}, k \in FrameKind : wire' = post(wire, e, frame(id, dir, k))
      /\ UNCHANGED <<chanVars, call, mode, handler, stopping, failing, probes, premature>>
  BY DEF CallerSends, HandlerSends, FrameKind
<1>2. /\ wire' \in [Peer -> Seq(Message)]
      /\ \A f \in Peer : closed[f] => wire'[f] = << >>
      /\ frames' \in 0..MaxFrames
  BY <1>1, FrameStep, MessagesTyped
<1>3. TypeOK' BY <1>1, <1>2 DEF IInv, TypeOK, chanVars
<1>4. CallTracked' /\ EntryScope' /\ (LatePing \/ ProbeScope)' /\ CallsKnown' /\ HandlersAbortable'
  BY <1>1 DEF IInv, CallTracked, EntryScope, ProbeScope, CallsKnown, HandlersAbortable, active,
              chanVars
<1>5. ClosedQuiet' BY <1>1, <1>2 DEF IInv, ClosedQuiet, chanVars
<1> QED BY <1>3, <1>4, <1>5 DEF IInv

LEMMA PingStep ==
    ASSUME IInv, NEW e \in Peer, NEW role \in {"out", "in"}, NEW id \in RequestId, Ping(e, role, id)
    PROVE  IInv'
<1>1. /\ frames < MaxFrames
      /\ frames' = frames + 1
      /\ \E dir \in {"toCaller", "toCallee"}, k \in FrameKind : wire' = post(wire, e, frame(id, dir, k))
      /\ probes' = [probes EXCEPT ![e] = @ \cup {<<role, id>>}]
      /\ UNCHANGED <<chanVars, call, mode, handler, stopping, failing, premature>>
  BY DEF Ping, FrameKind
<1>2. /\ wire' \in [Peer -> Seq(Message)]
      /\ \A f \in Peer : closed[f] => wire'[f] = << >>
      /\ frames' \in 0..MaxFrames
  BY <1>1, FrameStep, MessagesTyped
<1>3. /\ probes' \in ProbeType
      /\ \A f \in Peer, i \in RequestId, r \in {"out", "in"} :
            <<r, i>> \in probes'[f] => <<r, i>> \in probes[f] \/ (f = e /\ r = role /\ i = id)
    <2>1. probes \in ProbeType BY DEF IInv, TypeOK, ProbeType
    <2> QED BY <1>1, <2>1 DEF ProbeType
<1>4. TypeOK' BY <1>1, <1>2, <1>3 DEF IInv, TypeOK, chanVars, ProbeType
<1>5. CallTracked' /\ EntryScope' /\ HandlersAbortable'
  BY <1>1 DEF IInv, CallTracked, EntryScope, HandlersAbortable, active, chanVars
<1>6. (LatePing \/ ProbeScope)'
    <2>1. LatePing \/ ((role = "out" => call[e][id] = "open") /\ (role = "in" => active(e, id)))
      BY DEF Ping, active
    <2> QED BY <1>1, <1>3, <2>1 DEF IInv, ProbeScope, active, chanVars
<1>7. CallsKnown'
    <2>1. role = "out" => mode[e][id] = "stream" /\ call[e][id] # "none" BY DEF Ping
    <2> QED BY <1>1, <1>3, <2>1 DEF IInv, CallsKnown, chanVars
<1>8. ClosedQuiet' BY <1>1, <1>2 DEF IInv, ClosedQuiet, chanVars
<1> QED BY <1>4, <1>5, <1>6, <1>7, <1>8 DEF IInv

\* The first message of a queue.
LEMMA HeadTyped ==
    ASSUME NEW q \in [Peer -> Seq(Message)], NEW e \in Peer, q[e] # << >>
    PROVE  /\ Head(q[e]) \in Message
           /\ [q EXCEPT ![e] = Tail(@)] \in [Peer -> Seq(Message)]
           /\ \A f \in Peer : q[f] = << >> => [q EXCEPT ![e] = Tail(@)][f] = << >>
<1>1. Head(q[e]) \in Message /\ Tail(q[e]) \in Seq(Message) OBVIOUS
<1> QED BY <1>1

LEMMA DeferStep ==
    ASSUME IInv, NEW e \in Peer, Defer(e)
    PROVE  IInv'
<1>1. /\ wire[e] # << >>
      /\ deferred' = [deferred EXCEPT ![e] = Append(@, Head(wire[e]))]
      /\ wire' = [wire EXCEPT ![e] = Tail(@)]
      /\ UNCHANGED <<nextId, pending, listener, control, aborts, deferring, resumed, draining, closed,
                     call, mode, handler, stopping, failing, probes, premature, frames>>
  BY DEF Defer, taken
<1>2. wire \in [Peer -> Seq(Message)] /\ deferred \in [Peer -> Seq(Message)] BY DEF IInv, TypeOK
<1>3. ~closed[e] BY <1>1 DEF IInv, ClosedQuiet
<1>4. Append(deferred[e], Head(wire[e])) \in Seq(Message) BY <1>1, <1>2, HeadTyped
<1>5. deferred' \in [Peer -> Seq(Message)] /\ wire' \in [Peer -> Seq(Message)]
  BY <1>1, <1>2, <1>4, HeadTyped
<1>6. TypeOK' BY <1>1, <1>5 DEF IInv, TypeOK
<1>7. ClosedQuiet'
    <2>1. \A f \in Peer : f # e => wire'[f] = wire[f] /\ deferred'[f] = deferred[f] BY <1>1, <1>2
    <2> QED BY <1>1, <1>3, <2>1 DEF IInv, ClosedQuiet
<1> QED BY <1>1, <1>6, <1>7 DEF IInv, CallTracked, EntryScope, ProbeScope, CallsKnown,
                                HandlersAbortable, active

\* Receive, Drain and DrainMethod dispatch a message from where it was queued.
LEMMA ReceiveStep ==
    ASSUME IInv, NEW e \in Peer, Receive(e) \/ Drain(e) \/ DrainMethod(e)
    PROVE  IInv'
<1>1. /\ wire \in [Peer -> Seq(Message)]
      /\ deferred \in [Peer -> Seq(Message)]
      /\ \A f \in Peer : closed[f] => wire[f] = << >> /\ deferred[f] = << >>
  BY DEF IInv, TypeOK, ClosedQuiet
<1>2. UNCHANGED <<deferring, resumed, draining>> BY DEF Receive, Drain, DrainMethod
<1>3. CASE Receive(e)
    <2>1. wire[e] # << >> /\ Dispatch(e, Head(wire[e]), [wire EXCEPT ![e] = Tail(@)], deferred)
      BY <1>3 DEF Receive, taken
    <2>2. /\ Head(wire[e]) \in Message
          /\ [wire EXCEPT ![e] = Tail(@)] \in [Peer -> Seq(Message)]
          /\ \A f \in Peer : wire[f] = << >> => [wire EXCEPT ![e] = Tail(@)][f] = << >>
      BY <1>1, <2>1, HeadTyped
    <2> QED BY <1>1, <1>2, <2>1, <2>2, DispatchStep
<1>4. CASE Drain(e)
    <2>1. deferred[e] # << >> /\ Dispatch(e, Head(deferred[e]), wire, [deferred EXCEPT ![e] = Tail(@)])
      BY <1>4 DEF Drain
    <2>2. /\ Head(deferred[e]) \in Message
          /\ [deferred EXCEPT ![e] = Tail(@)] \in [Peer -> Seq(Message)]
          /\ \A f \in Peer : deferred[f] = << >> => [deferred EXCEPT ![e] = Tail(@)][f] = << >>
      BY <1>1, <2>1, HeadTyped
    <2> DEFINE d == [deferred EXCEPT ![e] = Tail(@)]
    <2>3. /\ Dispatch(e, Head(deferred[e]), wire, d)
          /\ d \in [Peer -> Seq(Message)]
          /\ \A f \in Peer : deferred[f] = << >> => d[f] = << >>
      BY <2>1, <2>2
    <2> HIDE DEF d
    <2>4. ~closed[e] /\ \A f \in Peer : closed[f] => wire[f] = << >> /\ d[f] = << >>
      BY <1>1, <2>1, <2>3
    <2> QED BY <1>1, <1>2, <2>2, <2>3, <2>4, DispatchStep
<1>5. CASE DrainMethod(e)
    <2>1. PICK k \in DOMAIN deferred[e] :
              Dispatch(e, deferred[e][k], wire, [deferred EXCEPT ![e] = removeAt(@, k)])
      BY <1>5 DEF DrainMethod, setupPositions
    <2>2. deferred[e][k] \in Message /\ removeAt(deferred[e], k) \in Seq(Message)
      BY <1>1, RemoveAtTyped
    <2>3. deferred[e] # << >> BY <1>1, <2>1
    <2> DEFINE d == [deferred EXCEPT ![e] = removeAt(@, k)]
    <2>4. d \in [Peer -> Seq(Message)] /\ \A f \in Peer : f # e => d[f] = deferred[f] BY <1>1, <2>2
    <2>5. Dispatch(e, deferred[e][k], wire, d) BY <2>1
    <2> HIDE DEF d
    <2>6. ~closed[e] /\ \A f \in Peer : closed[f] => wire[f] = << >> /\ d[f] = << >>
      BY <1>1, <2>3, <2>4
    <2> QED BY <1>1, <1>2, <2>2, <2>4, <2>5, <2>6, DispatchStep
<1> QED BY <1>3, <1>4, <1>5

\* Starting and ending the loops of resumeRequests.
LEMMA ResumeStep ==
    ASSUME IInv, NEW e \in Peer, Resume(e) \/ Drained(e) \/ ResumeMethod(e) \/ DrainedMethod(e)
    PROVE  IInv'
<1>1. /\ UNCHANGED <<nextId, pending, listener, control, aborts, deferred, closed, envVars>>
      /\ \E v \in {"no", "all", "setup"} : draining' = [draining EXCEPT ![e] = v]
      /\ deferring' = deferring \/ deferring' = [deferring EXCEPT ![e] = FALSE]
      /\ resumed' = resumed \/ resumed' = [resumed EXCEPT ![e] = TRUE]
  BY DEF Resume, Drained, ResumeMethod, DrainedMethod
<1>2. /\ draining' \in [Peer -> {"no", "all", "setup"}]
      /\ deferring' \in [Peer -> BOOLEAN]
      /\ resumed' \in [Peer -> BOOLEAN]
    <2>1. draining' \in [Peer -> {"no", "all", "setup"}] BY <1>1 DEF IInv, TypeOK
    <2>2. deferring' \in [Peer -> BOOLEAN] BY <1>1, Zenon DEF IInv, TypeOK
    <2>3. resumed' \in [Peer -> BOOLEAN] BY <1>1, Zenon DEF IInv, TypeOK
    <2> QED BY <2>1, <2>2, <2>3
<1>3. TypeOK' BY <1>1, <1>2 DEF IInv, TypeOK, envVars
<1> QED BY <1>1, <1>3 DEF IInv, CallTracked, EntryScope, ProbeScope, CallsKnown, HandlersAbortable,
                          ClosedQuiet, active, envVars

LEMMA OnMessageStep ==
    ASSUME IInv, NEW e \in Peer, NEW id \in RequestId, OnMessage(e, id)
    PROVE  IInv'
<1>1. /\ active(e, id)
      /\ listener' = [listener EXCEPT ![e][id] = "in"]
      /\ UNCHANGED <<nextId, pending, control, aborts, deferred, deferring, resumed, draining, closed,
                     envVars>>
  BY DEF OnMessage, active
<1>2. /\ listener' \in EntryType
      /\ \A f \in Peer, i \in RequestId :
            listener'[f][i] = IF f = e /\ i = id THEN "in" ELSE listener[f][i]
    <2>1. listener \in EntryType BY DEF IInv, TypeOK, EntryType
    <2> QED BY <1>1, <2>1 DEF EntryType, Entry
<1>3. TypeOK' BY <1>1, <1>2 DEF IInv, TypeOK, EntryType, envVars
<1>4. EntryScope' BY <1>1, <1>2 DEF IInv, EntryScope, active, envVars
<1>5. CallsKnown'
    <2>1. \A f \in Peer, i \in RequestId :
             "out" \in {listener'[f][i], control'[f][i]} => "out" \in {listener[f][i], control[f][i]}
      BY <1>1, <1>2
    <2>2. UNCHANGED <<call, nextId, mode, stopping, probes>> BY <1>1 DEF envVars
    <2> QED BY <2>1, <2>2 DEF IInv, CallsKnown
<1> QED BY <1>1, <1>3, <1>4, <1>5 DEF IInv, CallTracked, ProbeScope, HandlersAbortable, ClosedQuiet,
                                      active, envVars

LEMMA FinishStep ==
    ASSUME IInv, NEW e \in Peer, NEW id \in RequestId, Finish(e, id)
    PROVE  IInv'
<1>1. /\ handler' = [handler EXCEPT ![e][id] = "done"]
      /\ listener' = dropEntry(listener, e, id)
      /\ control' = dropEntry(control, e, id)
      /\ aborts' = [aborts EXCEPT ![e] = @ \ {id}]
      /\ probes' = withoutProbes(e, "in", {id})
      /\ wire' = post(wire, e, response(id))
      /\ UNCHANGED <<nextId, pending, deferred, deferring, resumed, draining, closed,
                     call, mode, stopping, failing, premature, frames>>
  BY DEF Finish
<1>t. TypeOK BY DEF IInv
<1>2. /\ listener' \in EntryType
      /\ control' \in EntryType
      /\ \A f \in Peer, i \in RequestId :
            /\ listener'[f][i] = IF f = e /\ i = id THEN "none" ELSE listener[f][i]
            /\ control'[f][i] = IF f = e /\ i = id THEN "none" ELSE control[f][i]
    <2>1. listener \in EntryType /\ control \in EntryType BY DEF IInv, TypeOK, EntryType
    <2> QED BY <1>1, <2>1, DropFacts
<1>3. /\ probes' \in ProbeType
      /\ \A f \in Peer : probes'[f] \subseteq probes[f]
      /\ <<"in", id>> \notin probes'[e]
  BY <1>1, <1>t, ProbeFacts
<1>4. wire' \in [Peer -> Seq(Message)] /\ \A f \in Peer : closed[f] => wire'[f] = << >>
    <2>1. /\ wire \in [Peer -> Seq(Message)]
          /\ closed \in [Peer -> BOOLEAN]
          /\ \A f \in Peer : closed[f] => wire[f] = << >>
      BY DEF IInv, TypeOK, ClosedQuiet
    <2> QED BY <1>1, <2>1, PostCorrect, MessagesTyped
<1>5. /\ handler' \in [Peer -> [RequestId -> {"none", "running", "aborted", "done"}]]
      /\ \A f \in Peer, i \in RequestId :
            handler'[f][i] = IF f = e /\ i = id THEN "done" ELSE handler[f][i]
  BY <1>1, <1>t DEF TypeOK
<1>6. /\ aborts' \in [Peer -> SUBSET RequestId]
      /\ \A f \in Peer, i \in RequestId : i \in aborts'[f] <=> i \in aborts[f] /\ ~(f = e /\ i = id)
  BY <1>1, <1>t DEF TypeOK
<1>7. TypeOK' BY <1>1, <1>t, <1>2, <1>3, <1>4, <1>5, <1>6 DEF TypeOK, EntryType, ProbeType
<1>8. CallTracked' /\ ClosedQuiet' BY <1>1, <1>4 DEF IInv, CallTracked, ClosedQuiet
<1>9. EntryScope' BY <1>1, <1>2, <1>5 DEF IInv, EntryScope, active
<1>10. (LatePing \/ ProbeScope)' BY <1>1, <1>3, <1>5 DEF IInv, ProbeScope, active
<1>11. CallsKnown'
    <2>1. \A f \in Peer, i \in RequestId :
             /\ "out" \in {listener'[f][i], control'[f][i]} => "out" \in {listener[f][i], control[f][i]}
             /\ <<"out", i>> \in probes'[f] => <<"out", i>> \in probes[f]
      BY <1>2, <1>3
    <2> QED BY <1>1, <2>1 DEF IInv, CallsKnown
<1>12. HandlersAbortable' BY <1>1, <1>5, <1>6 DEF IInv, HandlersAbortable
<1> QED BY <1>7, <1>8, <1>9, <1>10, <1>11, <1>12 DEF IInv

LEMMA CloseStep ==
    ASSUME IInv, NEW e \in Peer, Close(e)
    PROVE  IInv'
<1>t. TypeOK BY DEF IInv
<1>1. /\ closed' = [closed EXCEPT ![e] = TRUE]
      /\ deferred' = [deferred EXCEPT ![e] = << >>]
      /\ aborts' = [aborts EXCEPT ![e] = {}]
      /\ call' = settled(e, pending[e])
      /\ stopping' = stopQueued(e, pending[e])
      /\ pending' = [pending EXCEPT ![e] = {}]
      /\ listener' = [listener EXCEPT ![e] = [i \in RequestId |-> "none"]]
      /\ control' = [control EXCEPT ![e] = [i \in RequestId |-> "none"]]
      /\ wire' = [wire EXCEPT ![e] = << >>]
      /\ UNCHANGED <<nextId, deferring, resumed, draining, mode, failing, probes, premature, frames>>
  BY DEF Close
<1>2. /\ handler' \in [Peer -> [RequestId -> {"none", "running", "aborted", "done"}]]
      /\ \A f \in Peer, i \in RequestId :
            handler'[f][i] = IF f = e /\ handler[f][i] = "running" /\ i \in aborts[e]
                             THEN "aborted" ELSE handler[f][i]
  BY <1>t DEF Close, TypeOK
<1>3. pending[e] \in SUBSET RequestId BY <1>t DEF TypeOK
<1>4. call' \in CallType /\ stopping' \in [Peer -> SUBSET RequestId]
  BY <1>1, <1>t, <1>3, SettleFacts
<1>5. /\ listener' \in EntryType
      /\ control' \in EntryType
      /\ \A f \in Peer, i \in RequestId :
            /\ listener'[f][i] = IF f = e THEN "none" ELSE listener[f][i]
            /\ control'[f][i] = IF f = e THEN "none" ELSE control[f][i]
  BY <1>1, <1>t DEF TypeOK, EntryType, Entry
<1>6. /\ pending' \in [Peer -> SUBSET RequestId]
      /\ aborts' \in [Peer -> SUBSET RequestId]
      /\ \A f \in Peer : pending'[f] = IF f = e THEN {} ELSE pending[f]
      /\ \A f \in Peer : aborts'[f] = IF f = e THEN {} ELSE aborts[f]
  BY <1>1, <1>t DEF TypeOK
<1>7. /\ wire' \in [Peer -> Seq(Message)]
      /\ deferred' \in [Peer -> Seq(Message)]
      /\ \A f \in Peer : wire'[f] = IF f = e THEN << >> ELSE wire[f]
      /\ \A f \in Peer : deferred'[f] = IF f = e THEN << >> ELSE deferred[f]
    <2>1. << >> \in Seq(Message) OBVIOUS
    <2> QED BY <1>1, <1>t, <2>1 DEF TypeOK
<1>8. /\ closed' \in [Peer -> BOOLEAN]
      /\ \A f \in Peer : f # e => closed'[f] = closed[f]
  BY <1>1, <1>t DEF TypeOK
<1>9. TypeOK' BY <1>1, <1>t, <1>2, <1>4, <1>5, <1>6, <1>7, <1>8 DEF TypeOK, CallType, EntryType
<1>10. CallTracked' /\ EntryScope' /\ (LatePing \/ ProbeScope)' /\ CallsKnown'
    <2>1. \A f \in Peer, i \in RequestId :
             /\ i \in pending'[f] <=> i \in pending[f] /\ ~(f = e /\ i \in pending[e])
             /\ listener'[f][i] \in {listener[f][i], "none"}
             /\ f = e /\ i \in pending[e] => listener'[f][i] # "out"
             /\ control'[f][i] \in {control[f][i], "none"}
      BY <1>5, <1>6
    <2>2. \A f \in Peer, i \in RequestId : active(f, i) => active(f, i)' BY <1>2 DEF active
    <2> QED BY <1>1, <2>1, <2>2, SettleStep
<1>11. HandlersAbortable' BY <1>2, <1>6, <1>8 DEF IInv, HandlersAbortable
<1>12. ClosedQuiet' BY <1>6, <1>7, <1>8 DEF IInv, ClosedQuiet
<1> QED BY <1>9, <1>10, <1>11, <1>12 DEF IInv

-----------------------------------------------------------------------------
LEMMA NextIInv == IInv /\ [Next]_vars => IInv'
<1> SUFFICES ASSUME IInv, [Next]_vars PROVE IInv'
  OBVIOUS
<1>1. CASE UNCHANGED vars
  BY <1>1 DEF IInv, TypeOK, CallTracked, EntryScope, ProbeScope, CallsKnown, HandlersAbortable,
              ClosedQuiet, active, vars, chanVars, envVars
<1>2. CASE Next
    <2>1. PICK e \in Peer :
             \/ \E md \in {"plain", "stream"}, kind \in RequestKind, fails \in BOOLEAN :
                   SendRequest(e, md, kind, fails)
             \/ \E id \in RequestId :
                   \/ StopPing(e, id)
                   \/ SendFailure(e, id) \/ Dispose(e, id)
                   \/ (\E kind \in {"payload", "cancel"} : CallerSends(e, id, kind)) \/ HandlerSends(e, id)
                   \/ \E role \in {"out", "in"} : Ping(e, role, id)
                   \/ OnMessage(e, id)
                   \/ Finish(e, id)
             \/ Defer(e)
             \/ Receive(e) \/ Drain(e) \/ DrainMethod(e)
             \/ Resume(e) \/ Drained(e) \/ ResumeMethod(e) \/ DrainedMethod(e)
             \/ Close(e)
      BY <1>2 DEF Next
    <2>2. CASE \E md \in {"plain", "stream"}, kind \in RequestKind, fails \in BOOLEAN :
                   SendRequest(e, md, kind, fails)
      BY <2>2, SendRequestStep
    <2>3. ASSUME NEW id \in RequestId,
                 \/ StopPing(e, id)
                 \/ SendFailure(e, id) \/ Dispose(e, id)
                 \/ (\E kind \in {"payload", "cancel"} : CallerSends(e, id, kind)) \/ HandlerSends(e, id)
                 \/ \E role \in {"out", "in"} : Ping(e, role, id)
                 \/ OnMessage(e, id)
                 \/ Finish(e, id)
          PROVE  IInv'
      BY <2>3, StopPingStep, ForgetStep, SendsStep, PingStep, OnMessageStep, FinishStep
    <2> QED BY <2>1, <2>2, <2>3, DeferStep, ReceiveStep, ResumeStep, CloseStep
<1> QED BY <1>1, <1>2

\* The inductive invariant holds in every reachable state.
THEOREM Invariance == Spec => []IInv
BY InitIInv, NextIInv, PTL DEF Spec

\* The channels' maps, queues and promises keep their types.
THEOREM TypeCorrect == Spec => []TypeOK
<1>1. IInv => TypeOK BY DEF IInv
<1> QED BY <1>1, Invariance, PTL

\* No promise of a request is ever forgotten: while it is unsettled, _pending holds
\* its id.
THEOREM CallsTracked == Spec => []CallTracked
<1>1. IInv => CallTracked BY DEF IInv
<1> QED BY <1>1, Invariance, PTL

\* No stream callback outlives its request, although both directions share the maps.
THEOREM EntriesScoped == Spec => []EntryScope
<1>1. IInv => EntryScope BY DEF IInv
<1> QED BY <1>1, Invariance, PTL

\* A closed channel holds no call and no queued message, and its handlers know.
THEOREM ClosedForGood == Spec => []CloseIsFinal
<1>1. IInv => CloseIsFinal BY DEF IInv, CloseIsFinal, ClosedQuiet, HandlersAbortable
<1> QED BY <1>1, Invariance, PTL

\* When nobody pings a request that has settled, no probe outlives its request.
THEOREM ProbesScoped == ASSUME ~LatePing PROVE Spec => []ProbeScope
<1>1. IInv => ProbeScope BY DEF IInv
<1> QED BY <1>1, Invariance, PTL

-----------------------------------------------------------------------------
(***************************************************************************)
(* Streams: input frames stay behind their request, in the wire and in the *)
(* deferred queue, for any pair of channels; and with one caller, whose    *)
(* ids meet no others, each request keeps its callbacks while it lasts.    *)
(***************************************************************************)

\* What may be on its way to a channel while the other one has used the ids below n.
Known(n, m) ==
    /\ m.kind \in RequestKind \cup {"response"} <=> m.dir = "none"
    /\ m.kind \in RequestKind \/ m.dir = "toCallee" => m.id < n

\* a may arrive before b: it is not an input frame of the request b.
InOrder(a, b) == ~(a.dir = "toCallee" /\ b.kind \in RequestKind /\ a.id = b.id)

\* The deferred messages d are ahead of those on the wire w.
QueueOrdered(n, w, d) ==
    /\ \A i \in DOMAIN w : Known(n, w[i])
    /\ \A i \in DOMAIN d : Known(n, d[i])
    /\ \A i, j \in DOMAIN w : i < j => InOrder(w[i], w[j])
    /\ \A i, j \in DOMAIN d : i < j => InOrder(d[i], d[j])
    /\ \A i \in DOMAIN d, j \in DOMAIN w : InOrder(d[i], w[j])

QueuesOrdered == \A e \in Peer : QueueOrdered(nextId[Other(e)], wire[e], deferred[e])

\* Deferral ends only with an empty queue, so that nothing overtakes what is left in it.
DeferredInTurn == \A e \in Peer : deferring[e] \/ deferred[e] = << >>

QInv == QueuesOrdered /\ DeferredInTurn /\ InputAfterRequest

\* With one caller: the other channel has no calls and the caller no handlers; stopPing is queued
\* and a write fails only for calls that were made, and stopPing only once they have settled.
SidesKeptApart ==
    \A e \in Peer, id \in RequestId :
        /\ e \notin Caller => nextId[e] = 1
        /\ e \in Caller => handler[e][id] = "none"
        /\ id \in stopping[e] => call[e][id] = "settled"
        /\ id \in failing[e] => call[e][id] # "none"

KInv == SidesKeptApart /\ EntryKept

-----------------------------------------------------------------------------
(* Lemmas about queues.                                                    *)

LEMMA OtherOther == \A e, f \in Peer : (f = e \/ f = Other(e)) /\ Other(Other(e)) = e
<1> SUFFICES ASSUME NEW e \in Peer, NEW f \in Peer PROVE (f = e \/ f = Other(e)) /\ Other(Other(e)) = e
  OBVIOUS
<1>1. PICK g \in Peer : Peer = {e, g} /\ e # g BY ChannelAssumption, Zenon
<1>2. Other(e) = g BY <1>1, OtherPeer
<1>3. Other(g) = e BY <1>1, OtherPeer
<1> QED BY <1>1, <1>2, <1>3

LEMMA MessageFacts ==
    ASSUME NEW m \in Message
    PROVE  /\ m.id \in RequestId /\ m.id \in Nat /\ 1 <= m.id
           /\ m.kind \in RequestKind \cup {"response"} \cup FrameKind
           /\ m.dir \in {"none", "toCaller", "toCallee"}
<1>1. \A i \in RequestId : i \in Nat /\ 1 <= i BY Bounds DEF RequestId
<1> QED BY <1>1 DEF Message

LEMMA QueueAppend ==
    ASSUME NEW n \in Nat, NEW w \in Seq(Message), NEW d \in Seq(Message), QueueOrdered(n, w, d),
           NEW k \in Nat, n <= k, NEW m \in Message, Known(k, m), m.kind \in RequestKind => n <= m.id
    PROVE  QueueOrdered(k, Append(w, m), d)
<1> DEFINE x == Append(w, m)
           l == Len(w) + 1
<1>1. /\ DOMAIN w = 1..Len(w) /\ Len(w) \in Nat
      /\ DOMAIN x = 1..l /\ x[l] = m /\ \A i \in DOMAIN w : x[i] = w[i]
  OBVIOUS
<1> HIDE DEF x
<1>2. \A i \in DOMAIN x : (i \in DOMAIN w /\ x[i] = w[i]) \/ (i = l /\ x[i] = m)
    <2>1. \A i \in 1..l : i \in 1..Len(w) \/ i = l BY <1>1
    <2> HIDE DEF l
    <2> QED BY <1>1, <2>1
<1>3. ASSUME NEW a, Known(n, a), a.id \in Nat PROVE Known(k, a) /\ InOrder(a, m)
    <2>1. m.id \in Nat BY MessageFacts
    <2>2. Known(k, a) BY <1>3 DEF Known
    <2>3. InOrder(a, m) BY <1>3, <2>1 DEF Known, InOrder
    <2> QED BY <2>2, <2>3
<1>4. \A i \in DOMAIN w : Known(n, w[i]) /\ w[i].id \in Nat
    <2>1. \A i \in DOMAIN w : w[i] \in Message OBVIOUS
    <2> QED BY <2>1, MessageFacts DEF QueueOrdered
<1>5. \A i \in DOMAIN d : Known(n, d[i]) /\ d[i].id \in Nat
    <2>1. \A i \in DOMAIN d : d[i] \in Message OBVIOUS
    <2> QED BY <2>1, MessageFacts DEF QueueOrdered
<1>6. \A i \in DOMAIN x : Known(k, x[i]) BY <1>2, <1>3, <1>4
<1>7. \A i, j \in DOMAIN x : i < j => InOrder(x[i], x[j])
    <2> SUFFICES ASSUME NEW i \in DOMAIN x, NEW j \in DOMAIN x, i < j PROVE InOrder(x[i], x[j])
      OBVIOUS
    <2>1. i \in DOMAIN w /\ x[i] = w[i] BY <1>1, <1>2
    <2>2. CASE j \in DOMAIN w /\ x[j] = w[j] BY <2>1, <2>2 DEF QueueOrdered
    <2>3. CASE x[j] = m BY <1>3, <1>4, <2>1, <2>3
    <2> QED BY <1>2, <2>2, <2>3
<1>8. \A i \in DOMAIN d : Known(k, d[i]) BY <1>3, <1>5
<1>9. \A i \in DOMAIN d, j \in DOMAIN x : InOrder(d[i], x[j]) BY <1>2, <1>3, <1>5 DEF QueueOrdered
<1>10. \A i, j \in DOMAIN d : i < j => InOrder(d[i], d[j]) BY DEF QueueOrdered
<1> QED BY <1>6, <1>7, <1>8, <1>9, <1>10 DEF QueueOrdered, x

\* More ids have been used.
LEMMA QueueLater ==
    ASSUME NEW n \in Nat, NEW w \in Seq(Message), NEW d \in Seq(Message), QueueOrdered(n, w, d),
           NEW k \in Nat, n <= k
    PROVE  QueueOrdered(k, w, d)
<1>1. ASSUME NEW a \in Message, Known(n, a) PROVE Known(k, a)
  BY <1>1, MessageFacts DEF Known
<1>2. /\ \A i \in DOMAIN w : w[i] \in Message
      /\ \A i \in DOMAIN d : d[i] \in Message
  OBVIOUS
<1> QED BY <1>1, <1>2 DEF QueueOrdered

LEMMA TailFacts ==
    ASSUME NEW s \in Seq(Message), s # << >>
    PROVE  /\ Tail(s) \in Seq(Message) /\ Head(s) = s[1] /\ 1 \in DOMAIN s
           /\ \A i \in DOMAIN Tail(s) : i + 1 \in DOMAIN s /\ Tail(s)[i] = s[i + 1] /\ 1 < i + 1 /\ i \in Nat
OBVIOUS

LEMMA QueueTail ==
    ASSUME NEW n, NEW w \in Seq(Message), NEW d \in Seq(Message), QueueOrdered(n, w, d), w # << >>
    PROVE  QueueOrdered(n, Tail(w), d)
<1> DEFINE t == Tail(w)
<1>1. \A i \in DOMAIN t : i + 1 \in DOMAIN w /\ t[i] = w[i + 1] /\ i \in Nat BY TailFacts
<1> HIDE DEF t
<1>2. \A i, j \in DOMAIN t : i < j => i + 1 < j + 1 BY <1>1
<1> QED BY <1>1, <1>2 DEF QueueOrdered, t

LEMMA DeferredTail ==
    ASSUME NEW n, NEW w \in Seq(Message), NEW d \in Seq(Message), QueueOrdered(n, w, d), d # << >>
    PROVE  QueueOrdered(n, w, Tail(d))
<1> DEFINE t == Tail(d)
<1>1. \A i \in DOMAIN t : i + 1 \in DOMAIN d /\ t[i] = d[i + 1] /\ i \in Nat BY TailFacts
<1> HIDE DEF t
<1>2. \A i, j \in DOMAIN t : i < j => i + 1 < j + 1 BY <1>1
<1> QED BY <1>1, <1>2 DEF QueueOrdered, t

\* removeAt keeps the order of the others.
LEMMA RemoveAtFacts ==
    ASSUME NEW s \in Seq(Message), NEW k \in DOMAIN s
    PROVE  \A i \in DOMAIN removeAt(s, k) :
              /\ i \in Nat
              /\ i < k => i \in DOMAIN s /\ removeAt(s, k)[i] = s[i]
              /\ ~(i < k) => i + 1 \in DOMAIN s /\ removeAt(s, k)[i] = s[i + 1]
<1>1. k \in 1..Len(s) /\ Len(s) \in Nat /\ DOMAIN s = 1..Len(s) OBVIOUS
<1> DEFINE a == SubSeq(s, 1, k - 1)
           b == SubSeq(s, k + 1, Len(s))
<1>2. a \in Seq(Message) /\ Len(a) = k - 1 /\ \A i \in 1..(k - 1) : a[i] = s[i]
  BY <1>1, SubSeqProperties
<1>3. b \in Seq(Message) /\ Len(b) = Len(s) - k /\ \A i \in 1..(Len(s) - k) : b[i] = s[k + i]
  BY <1>1, SubSeqProperties
<1> HIDE DEF a, b
<1> DEFINE c == a \o b
<1>4. /\ c \in Seq(Message) /\ Len(c) = Len(a) + Len(b)
      /\ \A i \in 1..(Len(a) + Len(b)) : c[i] = IF i <= Len(a) THEN a[i] ELSE b[i - Len(a)]
  BY <1>2, <1>3, ConcatProperties
<1>5. removeAt(s, k) = c BY DEF removeAt, a, b
<1> HIDE DEF c
<1>6. Len(a) + Len(b) = Len(s) - 1 BY <1>1, <1>2, <1>3
<1>7. DOMAIN c = 1..(Len(s) - 1) BY <1>4, <1>6
<1> SUFFICES ASSUME NEW i \in 1..(Len(s) - 1)
             PROVE  /\ i \in Nat
                    /\ i < k => i \in DOMAIN s /\ c[i] = s[i]
                    /\ ~(i < k) => i + 1 \in DOMAIN s /\ c[i] = s[i + 1]
  BY <1>5, <1>7
<1>8. c[i] = IF i <= k - 1 THEN a[i] ELSE b[i - (k - 1)] BY <1>2, <1>4, <1>6
<1>9. i \in Nat /\ k \in Nat /\ i \in DOMAIN s /\ i + 1 \in DOMAIN s BY <1>1
<1>10. CASE i < k
    <2>1. i \in 1..(k - 1) /\ i <= k - 1 BY <1>1, <1>10
    <2> QED BY <1>2, <1>8, <1>9, <1>10, <2>1
<1>11. CASE ~(i < k)
    <2>1. i - (k - 1) \in 1..(Len(s) - k) /\ k + (i - (k - 1)) = i + 1 /\ ~(i <= k - 1)
      BY <1>1, <1>11
    <2>2. b[i - (k - 1)] = s[i + 1] BY <1>3, <2>1
    <2> QED BY <1>8, <1>9, <1>11, <2>1, <2>2
<1> QED BY <1>10, <1>11

LEMMA DeferredRemove ==
    ASSUME NEW n, NEW w \in Seq(Message), NEW d \in Seq(Message), QueueOrdered(n, w, d), NEW k \in DOMAIN d
    PROVE  QueueOrdered(n, w, removeAt(d, k))
<1> DEFINE t == removeAt(d, k)
           at(i) == IF i < k THEN i ELSE i + 1
<1>1. \A i \in DOMAIN t : at(i) \in DOMAIN d /\ t[i] = d[at(i)] /\ i \in Nat BY RemoveAtFacts
<1> HIDE DEF t
<1>2. \A i, j \in DOMAIN t : i < j => at(i) < at(j) BY <1>1
<1> HIDE DEF at
<1> QED BY <1>1, <1>2 DEF QueueOrdered, t

\* The first message on the wire is queued behind those that are deferred.
LEMMA QueueDefer ==
    ASSUME NEW n, NEW w \in Seq(Message), NEW d \in Seq(Message), QueueOrdered(n, w, d), w # << >>
    PROVE  QueueOrdered(n, Tail(w), Append(d, Head(w)))
<1> DEFINE t == Tail(w)
           m == Head(w)
           x == Append(d, m)
           l == Len(d) + 1
<1>1. m = w[1] /\ 1 \in DOMAIN w /\ \A i \in DOMAIN t : i + 1 \in DOMAIN w /\ t[i] = w[i + 1] /\ 1 < i + 1
  BY TailFacts
<1>2. QueueOrdered(n, t, d) BY QueueTail
<1>3. m \in Message BY <1>1
<1> HIDE DEF m, t
<1>4. /\ DOMAIN d = 1..Len(d) /\ Len(d) \in Nat /\ DOMAIN x = 1..l /\ x[l] = m /\ \A i \in DOMAIN d : x[i] = d[i]
  BY <1>3
<1> HIDE DEF x
<1>5. \A i \in DOMAIN x : (i \in DOMAIN d /\ x[i] = d[i]) \/ (i = l /\ x[i] = m)
    <2>1. \A i \in 1..l : i \in 1..Len(d) \/ i = l BY <1>4
    <2> HIDE DEF l
    <2> QED BY <1>4, <2>1
<1>6. \A i \in DOMAIN x : Known(n, x[i]) BY <1>1, <1>5 DEF QueueOrdered
<1>7. \A i, j \in DOMAIN x : i < j => InOrder(x[i], x[j])
    <2> SUFFICES ASSUME NEW i \in DOMAIN x, NEW j \in DOMAIN x, i < j PROVE InOrder(x[i], x[j])
      OBVIOUS
    <2>1. i \in DOMAIN d /\ x[i] = d[i] BY <1>4, <1>5
    <2>2. CASE j \in DOMAIN d /\ x[j] = d[j] BY <2>1, <2>2 DEF QueueOrdered
    <2>3. CASE x[j] = m BY <1>1, <2>1, <2>3 DEF QueueOrdered
    <2> QED BY <1>5, <2>2, <2>3
<1>8. \A i \in DOMAIN x, j \in DOMAIN t : InOrder(x[i], t[j])
    <2> SUFFICES ASSUME NEW i \in DOMAIN x, NEW j \in DOMAIN t PROVE InOrder(x[i], t[j])
      OBVIOUS
    <2>1. CASE i \in DOMAIN d /\ x[i] = d[i] BY <1>2, <2>1 DEF QueueOrdered
    <2>2. CASE x[i] = m BY <1>1, <2>2 DEF QueueOrdered
    <2> QED BY <1>5, <2>1, <2>2
<1> QED BY <1>2, <1>6, <1>7, <1>8 DEF QueueOrdered, x, t, m
-----------------------------------------------------------------------------
(* Each step keeps the queues in order.                                    *)

Ordered(w, d) == \A f \in Peer : QueueOrdered(nextId[Other(f)], w[f], d[f])

Queues == [Peer -> Seq(Message)]

LEMMA IdsTyped ==
    ASSUME TypeOK
    PROVE  /\ \A e \in Peer : nextId[e] \in Nat /\ nextId[Other(e)] \in Nat
           /\ wire \in Queues /\ deferred \in Queues
<1>1. \A i \in 1..(MaxCalls + 1) : i \in Nat BY Bounds
<1> QED BY <1>1, OtherPeer DEF TypeOK, Queues

LEMMA PostQueue ==
    ASSUME NEW w \in Queues, NEW e \in Peer, NEW m \in Message, NEW f \in Peer
    PROVE  \/ post(w, e, m)[f] = w[f]
           \/ f = Other(e) /\ post(w, e, m)[f] = Append(w[f], m)
<1>1. Other(e) \in Peer BY OtherPeer
<1>2. CASE closed[e] \/ closed[Other(e)] BY <1>2 DEF post
<1>3. CASE ~(closed[e] \/ closed[Other(e)])
    <2>1. post(w, e, m) = [w EXCEPT ![Other(e)] = Append(@, m)] BY <1>3 DEF post
    <2> HIDE DEF post
    <2> QED BY <1>1, <2>1 DEF Queues
<1> QED BY <1>2, <1>3

\* A frame or a response can be added to the wire at any time.
LEMMA OrderedPost ==
    ASSUME TypeOK, NEW w \in Queues, NEW d \in Queues, Ordered(w, d),
           NEW e \in Peer, NEW m \in Message, m.kind \notin RequestKind, Known(nextId[e], m)
    PROVE  Ordered(post(w, e, m), d)
<1> SUFFICES ASSUME NEW f \in Peer PROVE QueueOrdered(nextId[Other(f)], post(w, e, m)[f], d[f])
  BY DEF Ordered
<1>1. QueueOrdered(nextId[Other(f)], w[f], d[f]) BY DEF Ordered
<1>2. w[f] \in Seq(Message) /\ d[f] \in Seq(Message) BY DEF Queues
<1>3. CASE post(w, e, m)[f] = w[f] BY <1>1, <1>3
<1>4. CASE f = Other(e) /\ post(w, e, m)[f] = Append(w[f], m)
    <2> DEFINE n == nextId[e]
    <2>1. Other(f) = e /\ n \in Nat BY <1>4, OtherOther, IdsTyped
    <2>2. QueueOrdered(n, w[f], d[f]) BY <1>1, <2>1
    <2> HIDE DEF n
    <2>3. Known(n, m) /\ n <= n BY <2>1 DEF n
    <2>4. QueueOrdered(n, Append(w[f], m), d[f]) BY <1>2, <2>1, <2>2, <2>3, QueueAppend
    <2> QED BY <1>4, <2>1, <2>4 DEF n
<1> QED BY <1>3, <1>4, PostQueue

\* A request takes the next id, behind everything the channel has written.
LEMMA OrderedRequest ==
    ASSUME IInv, QInv, NEW e \in Peer, NEW md \in {"plain", "stream"}, NEW kind \in RequestKind,
           NEW fails \in BOOLEAN, SendRequest(e, md, kind, fails)
    PROVE  QInv'
<1> DEFINE id == nextId[e]
           m == request(id, kind)
<1>1. /\ id <= MaxCalls
      /\ nextId' = [nextId EXCEPT ![e] = id + 1]
      /\ wire' = wire \/ wire' = post(wire, e, m)
      /\ UNCHANGED <<deferred, deferring, premature>>
  BY DEF SendRequest
<1>2. TypeOK /\ nextId \in [Peer -> 1..(MaxCalls + 1)] BY DEF IInv, TypeOK
<1>3. id \in RequestId /\ id \in Nat /\ id < id + 1 /\ id + 1 \in Nat /\ id <= id + 1 /\ id <= id
  BY <1>1, <1>2, Bounds DEF RequestId
<1>4. m \in Message BY <1>3, MessagesTyped
<1>5. m.kind \in RequestKind /\ m.id = id /\ Known(id + 1, m)
  BY <1>3 DEF Known, request, RequestKind
<1> HIDE DEF m
<1>6. ASSUME NEW f \in Peer PROVE QueueOrdered(nextId'[Other(f)], wire'[f], deferred'[f])
    <2>1. QueueOrdered(nextId[Other(f)], wire[f], deferred[f]) BY DEF QInv, QueuesOrdered
    <2>2. wire[f] \in Seq(Message) /\ deferred[f] \in Seq(Message) /\ wire \in Queues
      BY <1>2, IdsTyped DEF Queues
    <2>3. CASE f = e
        <3>1. Other(f) \in Peer /\ Other(f) # e BY <2>3, OtherPeer
        <3>2. nextId'[Other(f)] = nextId[Other(f)] BY <1>1, <1>2, <3>1
        <3>3. wire'[f] = wire[f] BY <1>1, <1>4, <2>2, <2>3, <3>1, PostQueue, OtherPeer
        <3> QED BY <1>1, <2>1, <3>2, <3>3
    <2>4. CASE f = Other(e)
        <3>1. Other(f) = e BY <2>4, OtherOther
        <3>2. nextId'[Other(f)] = id + 1 /\ nextId[Other(f)] = id BY <1>1, <1>2, <3>1
        <3>3. QueueOrdered(id, wire[f], deferred[f]) BY <2>1, <3>2
        <3> HIDE DEF id
        <3>4. QueueOrdered(id + 1, wire[f], deferred[f]) BY <1>3, <2>2, <3>3, QueueLater
        <3>5. QueueOrdered(id + 1, Append(wire[f], m), deferred[f])
          BY <1>3, <1>4, <1>5, <2>2, <3>3, QueueAppend
        <3>6. wire'[f] = wire[f] \/ wire'[f] = Append(wire[f], m) BY <1>1, <1>4, <2>2, PostQueue
        <3> QED BY <1>1, <3>2, <3>4, <3>5, <3>6
    <2> QED BY <2>3, <2>4, OtherOther
<1>7. QueuesOrdered' BY <1>6 DEF QueuesOrdered
<1> QED BY <1>1, <1>7 DEF QInv, DeferredInTurn, InputAfterRequest

\* Dispatching a message that is not ahead of its request.
LEMMA OrderedDispatch ==
    ASSUME IInv, QInv, NEW e \in Peer, NEW m \in Message, NEW w \in Queues, NEW d \in Queues,
           Dispatch(e, m, w, d), Ordered(w, d),
           m.dir = "toCallee" => ~requestIn(w[e], m.id) /\ ~requestIn(d[e], m.id)
    PROVE  QueuesOrdered' /\ InputAfterRequest' /\ deferred' = d
<1>1. nextId' = nextId /\ deferred' = d
  BY DEF Dispatch, DispatchResponse, DispatchRequest, DispatchPayload, DispatchControl
<1>2. premature' = premature
    <2>1. prematureAfter(e, m, w, d) = premature BY DEF prematureAfter
    <2> QED BY <2>1 DEF Dispatch, DispatchResponse, DispatchRequest, DispatchPayload, DispatchControl
<1>3. Ordered(wire', d)
    <2> DEFINE owner == control[e][m.id]
               back == IF owner = "out" THEN "toCallee" ELSE "toCaller"
               pong == frame(m.id, back, "pong")
    <2>1. wire' = w \/ (owner # "none" /\ wire' = post(w, e, pong))
      BY DEF Dispatch, DispatchResponse, DispatchRequest, DispatchPayload, DispatchControl
    <2>2. ASSUME owner # "none" PROVE Ordered(post(w, e, pong), d)
        <3>1. m.id \in RequestId BY MessageFacts
        <3>2. owner = "out" => m.id < nextId[e] BY <3>1 DEF IInv, CallsKnown
        <3>3. pong \in Message BY <3>1, MessagesTyped DEF FrameKind
        <3>4. pong.kind \notin RequestKind /\ Known(nextId[e], pong)
            <4>1. pong.kind = "pong" /\ pong.id = m.id /\ pong.dir = back BY DEF frame
            <4>2. back # "none" /\ (back = "toCallee" => owner = "out") OBVIOUS
            <4> HIDE DEF pong, back, owner
            <4> QED BY <3>2, <4>1, <4>2 DEF Known, RequestKind
        <3>5. TypeOK BY DEF IInv
        <3> HIDE DEF pong
        <3> QED BY <3>3, <3>4, <3>5, OrderedPost
    <2> HIDE DEF owner, pong
    <2> QED BY <2>1, <2>2
<1>4. QueuesOrdered' BY <1>1, <1>3 DEF QueuesOrdered, Ordered
<1> QED BY <1>1, <1>2, <1>4 DEF QInv, InputAfterRequest

\* A message is taken from the wire, or from the deferred queue.
LEMMA OrderedReceive ==
    ASSUME IInv, QInv, NEW e \in Peer, Receive(e) \/ Drain(e) \/ DrainMethod(e)
    PROVE  QInv'
<1>1. /\ TypeOK /\ wire \in Queues /\ deferred \in Queues
      /\ wire[e] \in Seq(Message) /\ deferred[e] \in Seq(Message)
  BY IdsTyped DEF IInv, Queues
<1>2. /\ Ordered(wire, deferred)
      /\ QueueOrdered(nextId[Other(e)], wire[e], deferred[e])
      /\ DeferredInTurn
  BY DEF QInv, QueuesOrdered, Ordered
<1>3. deferring' = deferring BY DEF Receive, Drain, DrainMethod
<1>4. CASE Receive(e)
    <2> DEFINE m == Head(wire[e])
    <2>1. wire[e] # << >> /\ ~mustDefer(e, m) /\ Dispatch(e, m, taken(e), deferred)
      BY <1>4 DEF Receive
    <2>2. /\ m \in Message /\ m = wire[e][1] /\ 1 \in DOMAIN wire[e]
          /\ \A i \in DOMAIN Tail(wire[e]) :
                i + 1 \in DOMAIN wire[e] /\ Tail(wire[e])[i] = wire[e][i + 1] /\ 1 < i + 1
      BY <1>1, <2>1, TailFacts
    <2>3. /\ taken(e) \in Queues /\ taken(e)[e] = Tail(wire[e])
          /\ \A f \in Peer : f # e => taken(e)[f] = wire[f]
        <3>1. Tail(wire[e]) \in Seq(Message) BY <1>1, <2>1, TailFacts
        <3> QED BY <1>1, <3>1 DEF taken, Queues
    <2>4. Ordered(taken(e), deferred)
        <3>1. QueueOrdered(nextId[Other(e)], Tail(wire[e]), deferred[e])
          BY <1>1, <1>2, <2>1, QueueTail
        <3> QED BY <1>2, <2>3, <3>1 DEF Ordered
    <2> HIDE DEF m
    <2>5. ASSUME m.dir = "toCallee" PROVE ~requestIn(taken(e)[e], m.id) /\ ~requestIn(deferred[e], m.id)
        <3>1. Known(nextId[Other(e)], m) BY <1>2, <2>2 DEF QueueOrdered
        <3>2. ~deferring[e] BY <2>1, <2>5, <3>1 DEF mustDefer, Known, RequestKind
        <3>3. deferred[e] = << >> BY <1>2, <3>2 DEF DeferredInTurn
        <3>4. \A i \in DOMAIN Tail(wire[e]) : InOrder(m, Tail(wire[e])[i])
          BY <1>2, <2>2 DEF QueueOrdered
        <3>5. ~requestIn(Tail(wire[e]), m.id) BY <2>5, <3>4 DEF requestIn, InOrder
        <3>6. ~requestIn(<< >>, m.id) BY DEF requestIn
        <3> QED BY <2>3, <3>3, <3>5, <3>6
    <2>6. QueuesOrdered' /\ InputAfterRequest' /\ deferred' = deferred
      BY <1>1, <2>1, <2>2, <2>3, <2>4, <2>5, OrderedDispatch
    <2> QED BY <1>2, <1>3, <2>6 DEF QInv, DeferredInTurn
<1>5. CASE Drain(e)
    <2> DEFINE m == Head(deferred[e])
               d == [deferred EXCEPT ![e] = Tail(@)]
    <2>1. deferred[e] # << >> /\ Dispatch(e, m, wire, d) BY <1>5 DEF Drain
    <2>2. /\ m \in Message /\ m = deferred[e][1] /\ 1 \in DOMAIN deferred[e]
          /\ \A i \in DOMAIN Tail(deferred[e]) :
                i + 1 \in DOMAIN deferred[e] /\ Tail(deferred[e])[i] = deferred[e][i + 1] /\ 1 < i + 1
      BY <1>1, <2>1, TailFacts
    <2>3. /\ d \in Queues /\ d[e] = Tail(deferred[e])
          /\ \A f \in Peer : f # e => d[f] = deferred[f]
        <3>1. Tail(deferred[e]) \in Seq(Message) BY <1>1, <2>1, TailFacts
        <3> QED BY <1>1, <3>1 DEF Queues
    <2> HIDE DEF m, d
    <2>4. Ordered(wire, d)
        <3>1. QueueOrdered(nextId[Other(e)], wire[e], Tail(deferred[e]))
          BY <1>1, <1>2, <2>1, DeferredTail
        <3> QED BY <1>2, <2>3, <3>1 DEF Ordered
    <2>5. ASSUME m.dir = "toCallee" PROVE ~requestIn(wire[e], m.id) /\ ~requestIn(d[e], m.id)
        <3>1. \A i \in DOMAIN Tail(deferred[e]) : InOrder(m, Tail(deferred[e])[i])
          BY <1>2, <2>2 DEF QueueOrdered
        <3>2. \A i \in DOMAIN wire[e] : InOrder(m, wire[e][i]) BY <1>2, <2>2 DEF QueueOrdered
        <3>3. ~requestIn(Tail(deferred[e]), m.id) BY <2>5, <3>1 DEF requestIn, InOrder
        <3>4. ~requestIn(wire[e], m.id) BY <2>5, <3>2 DEF requestIn, InOrder
        <3> QED BY <2>3, <3>3, <3>4
    <2>6. QueuesOrdered' /\ InputAfterRequest' /\ deferred' = d
      BY <1>1, <2>1, <2>2, <2>3, <2>4, <2>5, OrderedDispatch
    <2>7. DeferredInTurn' BY <1>2, <1>3, <2>1, <2>3, <2>6 DEF DeferredInTurn
    <2> QED BY <2>6, <2>7 DEF QInv
<1>6. CASE DrainMethod(e)
    <2>1. PICK k \in setupPositions(e) :
             Dispatch(e, deferred[e][k], wire, [deferred EXCEPT ![e] = removeAt(@, k)])
      BY <1>6 DEF DrainMethod
    <2> DEFINE m == deferred[e][k]
               d == [deferred EXCEPT ![e] = removeAt(@, k)]
    <2>2. k \in DOMAIN deferred[e] /\ m.kind = "setup" /\ m \in Message /\ deferred[e] # << >>
        <3>1. k \in DOMAIN deferred[e] /\ m.kind = "setup" BY <2>1 DEF setupPositions
        <3> QED BY <1>1, <3>1
    <2>3. /\ d \in Queues /\ d[e] = removeAt(deferred[e], k)
          /\ \A f \in Peer : f # e => d[f] = deferred[f]
        <3>1. removeAt(deferred[e], k) \in Seq(Message) BY <1>1, <2>2, RemoveAtTyped
        <3> QED BY <1>1, <3>1 DEF Queues
    <2>4. Known(nextId[Other(e)], m) /\ Dispatch(e, m, wire, d) BY <1>2, <2>1, <2>2 DEF QueueOrdered
    <2> HIDE DEF m, d
    <2>5. Ordered(wire, d)
        <3>1. QueueOrdered(nextId[Other(e)], wire[e], removeAt(deferred[e], k))
          BY <1>1, <1>2, <2>2, DeferredRemove
        <3> QED BY <1>2, <2>3, <3>1 DEF Ordered
    <2>6. m.dir # "toCallee" BY <2>2, <2>4 DEF Known, RequestKind
    <2>7. QueuesOrdered' /\ InputAfterRequest' /\ deferred' = d
      BY <1>1, <2>2, <2>3, <2>4, <2>5, <2>6, OrderedDispatch
    <2>8. DeferredInTurn' BY <1>2, <1>3, <2>2, <2>3, <2>7 DEF DeferredInTurn
    <2> QED BY <2>7, <2>8 DEF QInv
<1> QED BY <1>4, <1>5, <1>6

LEMMA OrderedDefer ==
    ASSUME IInv, QInv, NEW e \in Peer, Defer(e)
    PROVE  QInv'
<1> DEFINE t == Tail(wire[e])
           x == Append(deferred[e], Head(wire[e]))
<1>1. /\ TypeOK /\ wire \in Queues /\ deferred \in Queues
      /\ wire[e] \in Seq(Message) /\ deferred[e] \in Seq(Message)
  BY IdsTyped DEF IInv, Queues
<1>2. /\ wire[e] # << >> /\ deferring[e]
      /\ wire' = [wire EXCEPT ![e] = t]
      /\ deferred' = [deferred EXCEPT ![e] = x]
      /\ UNCHANGED <<nextId, deferring, premature>>
  BY DEF Defer, taken, mustDefer
<1>3. QueueOrdered(nextId[Other(e)], t, x)
    <2>1. QueueOrdered(nextId[Other(e)], wire[e], deferred[e]) BY DEF QInv, QueuesOrdered
    <2> QED BY <1>1, <1>2, <2>1, QueueDefer
<1> HIDE DEF t, x
<1>4. /\ wire'[e] = t /\ deferred'[e] = x
      /\ \A f \in Peer : f # e => wire'[f] = wire[f] /\ deferred'[f] = deferred[f]
  BY <1>1, <1>2 DEF Queues
<1>5. QueuesOrdered' BY <1>2, <1>3, <1>4 DEF QInv, QueuesOrdered
<1>6. DeferredInTurn' BY <1>2, <1>4 DEF QInv, DeferredInTurn
<1> QED BY <1>2, <1>5, <1>6 DEF QInv, InputAfterRequest

\* A frame or a response is written.
LEMMA OrderedWrite ==
    ASSUME IInv, QInv, NEW e \in Peer, NEW m \in Message, m.kind \notin RequestKind, Known(nextId[e], m),
           wire' = post(wire, e, m), UNCHANGED <<nextId, deferred, deferring, premature>>
    PROVE  QInv'
<1>1. TypeOK /\ wire \in Queues /\ deferred \in Queues /\ Ordered(wire, deferred)
  BY IdsTyped DEF IInv, QInv, QueuesOrdered, Ordered
<1>2. Ordered(wire', deferred) BY <1>1, OrderedPost
<1> QED BY <1>2 DEF QInv, QueuesOrdered, Ordered, DeferredInTurn, InputAfterRequest

LEMMA OrderedSends ==
    ASSUME IInv, QInv, NEW e \in Peer, NEW id \in RequestId,
           \/ \E kind \in {"payload", "cancel"} : CallerSends(e, id, kind)
           \/ HandlerSends(e, id)
           \/ \E role \in {"out", "in"} : Ping(e, role, id)
           \/ Finish(e, id)
    PROVE  QInv'
<1>1. call[e][id] # "none" => id < nextId[e] BY DEF IInv, CallsKnown
<1>2. \/ \E dir \in {"toCaller", "toCallee"}, kind \in {"payload", "cancel", "ping"} :
            (dir = "toCallee" => call[e][id] # "none") /\ wire' = post(wire, e, frame(id, dir, kind))
      \/ wire' = post(wire, e, response(id))
  BY DEF CallerSends, HandlerSends, Ping, Finish
<1>3. UNCHANGED <<nextId, deferred, deferring, premature>>
  BY DEF CallerSends, HandlerSends, Ping, Finish, chanVars
<1>4. ASSUME NEW dir \in {"toCaller", "toCallee"}, NEW kind \in {"payload", "cancel", "ping"},
             dir = "toCallee" => call[e][id] # "none", wire' = post(wire, e, frame(id, dir, kind))
      PROVE  QInv'
    <2> DEFINE m == frame(id, dir, kind)
    <2>1. m \in Message BY MessagesTyped DEF FrameKind
    <2>2. m.kind \notin RequestKind /\ Known(nextId[e], m)
      BY <1>1, <1>4 DEF frame, Known, RequestKind
    <2> HIDE DEF m
    <2>3. wire' = post(wire, e, m) BY <1>4 DEF m
    <2> QED BY <1>3, <2>1, <2>2, <2>3, OrderedWrite
<1>5. ASSUME wire' = post(wire, e, response(id)) PROVE QInv'
    <2>1. response(id) \in Message BY MessagesTyped
    <2>2. response(id).kind \notin RequestKind /\ Known(nextId[e], response(id))
      BY DEF response, Known, RequestKind
    <2> QED BY <1>3, <1>5, <2>1, <2>2, OrderedWrite
<1> QED BY <1>2, <1>4, <1>5

LEMMA OrderedClose ==
    ASSUME IInv, QInv, NEW e \in Peer, Close(e)
    PROVE  QInv'
<1>1. /\ wire' = [wire EXCEPT ![e] = << >>]
      /\ deferred' = [deferred EXCEPT ![e] = << >>]
      /\ UNCHANGED <<nextId, deferring, premature>>
  BY DEF Close
<1>2. wire \in Queues /\ deferred \in Queues BY IdsTyped DEF IInv
<1>3. \A f \in Peer : /\ f = e => wire'[f] = << >> /\ deferred'[f] = << >>
                      /\ f # e => wire'[f] = wire[f] /\ deferred'[f] = deferred[f]
  BY <1>1, <1>2 DEF Queues
<1>4. \A n : QueueOrdered(n, << >>, << >>) BY DEF QueueOrdered
<1>5. QueuesOrdered' BY <1>1, <1>3, <1>4 DEF QInv, QueuesOrdered
<1>6. DeferredInTurn' BY <1>1, <1>3 DEF QInv, DeferredInTurn
<1> QED BY <1>1, <1>5, <1>6 DEF QInv, InputAfterRequest

\* The other steps leave the queues alone; deferring ends with an empty one.
LEMMA OrderedRest ==
    ASSUME IInv, QInv, NEW e \in Peer,
           \/ \E id \in RequestId : StopPing(e, id) \/ SendFailure(e, id) \/ Dispose(e, id) \/ OnMessage(e, id)
           \/ Resume(e) \/ Drained(e) \/ ResumeMethod(e) \/ DrainedMethod(e)
    PROVE  QInv'
<1>1. UNCHANGED <<nextId, wire, deferred, premature>>
  BY DEF StopPing, SendFailure, Dispose, OnMessage, Resume, Drained, ResumeMethod, DrainedMethod,
         chanVars, envVars
<1>2. \/ deferring' = deferring
      \/ deferred[e] = << >> /\ deferring' = [deferring EXCEPT ![e] = FALSE]
  BY DEF StopPing, SendFailure, Dispose, OnMessage, Resume, Drained, ResumeMethod, DrainedMethod,
         chanVars, envVars
<1>3. deferring \in [Peer -> BOOLEAN] BY DEF IInv, TypeOK
<1>4. DeferredInTurn'
    <2> SUFFICES ASSUME NEW f \in Peer PROVE deferring'[f] \/ deferred[f] = << >>
      BY <1>1 DEF DeferredInTurn
    <2>1. deferring[f] \/ deferred[f] = << >> BY DEF QInv, DeferredInTurn
    <2>2. CASE f = e /\ deferred[e] = << >> BY <2>2
    <2>3. CASE deferring'[f] = deferring[f] BY <2>1, <2>3
    <2> QED BY <1>2, <1>3, <2>2, <2>3
<1> QED BY <1>1, <1>4 DEF QInv, QueuesOrdered, InputAfterRequest

LEMMA InitQInv == Init => QInv
<1> SUFFICES ASSUME Init PROVE QInv
  OBVIOUS
<1>1. \A e \in Peer : wire[e] = << >> /\ deferred[e] = << >> /\ premature[e] = {} BY DEF Init
<1>2. \A n : QueueOrdered(n, << >>, << >>) BY DEF QueueOrdered
<1> QED BY <1>1, <1>2 DEF QInv, QueuesOrdered, DeferredInTurn, InputAfterRequest

LEMMA NextQInv == IInv /\ QInv /\ [Next]_vars => QInv'
<1> SUFFICES ASSUME IInv, QInv, [Next]_vars PROVE QInv'
  OBVIOUS
<1>1. CASE UNCHANGED vars
  BY <1>1 DEF QInv, QueuesOrdered, DeferredInTurn, InputAfterRequest, vars, chanVars, envVars
<1>2. CASE Next
    <2>1. PICK e \in Peer :
             \/ \E md \in {"plain", "stream"}, kind \in RequestKind, fails \in BOOLEAN :
                   SendRequest(e, md, kind, fails)
             \/ \E id \in RequestId :
                   \/ StopPing(e, id) \/ SendFailure(e, id) \/ Dispose(e, id) \/ OnMessage(e, id)
                   \/ \/ \E kind \in {"payload", "cancel"} : CallerSends(e, id, kind)
                      \/ HandlerSends(e, id)
                      \/ \E role \in {"out", "in"} : Ping(e, role, id)
                      \/ Finish(e, id)
             \/ Defer(e)
             \/ Receive(e) \/ Drain(e) \/ DrainMethod(e)
             \/ Resume(e) \/ Drained(e) \/ ResumeMethod(e) \/ DrainedMethod(e)
             \/ Close(e)
      BY <1>2 DEF Next
    <2>2. CASE \E md \in {"plain", "stream"}, kind \in RequestKind, fails \in BOOLEAN :
                   SendRequest(e, md, kind, fails)
      BY <2>2, OrderedRequest
    <2>3. CASE \E id \in RequestId :
                   \/ \E kind \in {"payload", "cancel"} : CallerSends(e, id, kind)
                   \/ HandlerSends(e, id)
                   \/ \E role \in {"out", "in"} : Ping(e, role, id)
                   \/ Finish(e, id)
      BY <2>3, OrderedSends
    <2>4. CASE \E id \in RequestId : StopPing(e, id) \/ SendFailure(e, id) \/ Dispose(e, id) \/ OnMessage(e, id)
      BY <2>4, OrderedRest
    <2> QED BY <2>1, <2>2, <2>3, <2>4, OrderedDefer, OrderedReceive, OrderedRest, OrderedClose
<1> QED BY <1>1, <1>2

\* An input frame of a stream, a cancel among them, is never dispatched ahead of the request it
\* belongs to, however deferral, its two ways of resuming and arriving messages interleave.
THEOREM InputInOrder == Spec => []InputAfterRequest
<1>1. QInv => InputAfterRequest BY DEF QInv
<1>2. Spec => []QInv BY InitQInv, NextQInv, Invariance, PTL DEF Spec
<1> QED BY <1>1, <1>2, PTL

-----------------------------------------------------------------------------
(* With one caller, streams keep their callbacks.                          *)

SingleCaller == \A e, f \in Caller : e = f

\* A channel does not handle the requests it made.
LEMMA MadeNotHandled ==
    ASSUME IInv, KInv, NEW e \in Peer, NEW id \in RequestId, call[e][id] # "none"
    PROVE  handler[e][id] = "none"
<1>1. id < nextId[e] BY DEF IInv, CallsKnown
<1>2. nextId[e] # 1 BY <1>1, Bounds DEF RequestId
<1> QED BY <1>2 DEF KInv, SidesKeptApart

\* Steps that start no call and no handler: callbacks go only with what they belong to.
LEMMA KeepStep ==
    ASSUME KInv, UNCHANGED <<nextId, mode>>,
           \A f \in Peer, i \in RequestId :
              /\ call'[f][i] = call[f][i] \/ (call'[f][i] = "settled" /\ call[f][i] # "none")
              /\ i \in stopping'[f] => i \in stopping[f] \/ call'[f][i] = "settled"
              /\ i \in failing'[f] => i \in failing[f]
              /\ handler[f][i] = "none" => handler'[f][i] = "none"
              /\ call'[f][i] = "open" => listener'[f][i] = listener[f][i] /\ control'[f][i] = control[f][i]
              /\ active(f, i)' /\ ~closed'[f] =>
                    /\ active(f, i) /\ ~closed[f] /\ control'[f][i] = control[f][i]
                    /\ i \in aborts[f] => i \in aborts'[f]
    PROVE  KInv'
<1>1. SidesKeptApart' BY DEF KInv, SidesKeptApart
<1>2. ListenerKept' BY DEF KInv, EntryKept, ListenerKept
<1>3. \A f \in Peer, i \in RequestId :
         /\ call'[f][i] = "open" /\ mode'[f][i] = "stream" => control'[f][i] = "out"
         /\ active(f, i)' /\ ~closed'[f] => control'[f][i] = "in" /\ i \in aborts'[f]
  BY DEF KInv, EntryKept
<1>4. EntryKept' BY <1>2, <1>3 DEF EntryKept
<1> QED BY <1>1, <1>4 DEF KInv

LEMMA KeptSendRequest ==
    ASSUME IInv, KInv, NEW e \in Peer, NEW md \in {"plain", "stream"}, NEW kind \in RequestKind,
           NEW fails \in BOOLEAN, SendRequest(e, md, kind, fails)
    PROVE  KInv'
<1> DEFINE id == nextId[e]
<1>t. TypeOK BY DEF IInv
<1>1. e \in Caller /\ id \in RequestId /\ id \in Nat
  BY <1>t, Bounds DEF SendRequest, TypeOK, RequestId
<1>2. call[e][id] = "none"
    <2>1. call[e][id] # "none" => id < nextId[e] BY <1>1 DEF IInv, CallsKnown
    <2> QED BY <1>1, <2>1
<1>3. id \notin stopping[e] /\ handler[e][id] = "none" BY <1>1, <1>2 DEF KInv, SidesKeptApart
<1>4. /\ \A f \in Peer : f # e => nextId'[f] = nextId[f]
      /\ \A f \in Peer, i \in RequestId :
            /\ call'[f][i] = IF f = e /\ i = id THEN "open" ELSE call[f][i]
            /\ mode'[f][i] = IF f = e /\ i = id THEN md ELSE mode[f][i]
            /\ f = e /\ i = id /\ md = "stream" => listener'[f][i] = "out" /\ control'[f][i] = "out"
            /\ ~(f = e /\ i = id) => listener'[f][i] = listener[f][i] /\ control'[f][i] = control[f][i]
            /\ i \in failing'[f] => i \in failing[f] \/ (f = e /\ i = id)
      /\ UNCHANGED <<aborts, closed, handler, stopping>>
    <2>1. \A f \in Peer : f # e => nextId'[f] = nextId[f] BY <1>t DEF SendRequest, TypeOK
    <2>2. ASSUME NEW f \in Peer, NEW i \in RequestId
          PROVE  /\ call'[f][i] = IF f = e /\ i = id THEN "open" ELSE call[f][i]
                 /\ mode'[f][i] = IF f = e /\ i = id THEN md ELSE mode[f][i]
      BY <1>1, <1>t DEF SendRequest, TypeOK
    <2>3. ASSUME NEW f \in Peer, NEW i \in RequestId
          PROVE  /\ f = e /\ i = id /\ md = "stream" => listener'[f][i] = "out" /\ control'[f][i] = "out"
                 /\ ~(f = e /\ i = id) => listener'[f][i] = listener[f][i] /\ control'[f][i] = control[f][i]
      BY <1>1, <1>t DEF SendRequest, TypeOK
    <2>4. ASSUME NEW f \in Peer, NEW i \in RequestId
          PROVE  i \in failing'[f] => i \in failing[f] \/ (f = e /\ i = id)
      BY <1>1, <1>t DEF SendRequest, TypeOK
    <2>5. UNCHANGED <<aborts, closed, handler, stopping>> BY DEF SendRequest
    <2> QED BY <2>1, <2>2, <2>3, <2>4, <2>5
<1> HIDE DEF id
<1>5. SidesKeptApart'
    <2> SUFFICES ASSUME NEW f \in Peer, NEW i \in RequestId
                 PROVE  /\ f \notin Caller => nextId'[f] = 1
                        /\ f \in Caller => handler[f][i] = "none"
                        /\ i \in stopping[f] => call'[f][i] = "settled"
                        /\ i \in failing'[f] => call'[f][i] # "none"
      BY <1>4 DEF SidesKeptApart
    <2>1. /\ f \notin Caller => nextId[f] = 1
          /\ f \in Caller => handler[f][i] = "none"
          /\ i \in stopping[f] => call[f][i] = "settled"
          /\ i \in failing[f] => call[f][i] # "none"
      BY DEF KInv, SidesKeptApart
    <2> QED BY <1>1, <1>3, <1>4, <2>1
<1>6. ASSUME NEW f \in Peer, NEW i \in RequestId
      PROVE  /\ call'[f][i] = "open" /\ mode'[f][i] = "stream" => listener'[f][i] = "out" /\ control'[f][i] = "out"
             /\ active(f, i)' /\ ~closed'[f] => control'[f][i] = "in" /\ i \in aborts'[f]
    <2>1. /\ call[f][i] = "open" /\ mode[f][i] = "stream" => listener[f][i] = "out" /\ control[f][i] = "out"
          /\ active(f, i) /\ ~closed[f] => control[f][i] = "in" /\ i \in aborts[f]
      BY DEF KInv, EntryKept, ListenerKept
    <2>2. CASE f = e /\ i = id BY <1>3, <1>4, <2>2 DEF active
    <2>3. CASE ~(f = e /\ i = id) BY <1>4, <2>1, <2>3 DEF active
    <2> QED BY <2>2, <2>3
<1> QED BY <1>5, <1>6 DEF KInv, EntryKept, ListenerKept

\* A promise is settled by a failed write or by dispose.
LEMMA KeptForget ==
    ASSUME IInv, KInv, NEW e \in Peer, NEW id \in RequestId,
           SendFailure(e, id) \/ Dispose(e, id) \/ StopPing(e, id)
    PROVE  KInv'
<1>t. TypeOK BY DEF IInv
<1>1. call[e][id] # "none"
    <2>1. id \in failing[e] \/ id \in pending[e] \/ id \in stopping[e]
      BY DEF SendFailure, Dispose, StopPing
    <2>2. id \in pending[e] => call[e][id] = "open" BY DEF IInv, CallTracked
    <2> QED BY <2>1, <2>2 DEF KInv, SidesKeptApart
<1>2. handler[e][id] = "none" BY <1>1, MadeNotHandled
<1>3. \A f \in Peer, i \in RequestId :
         /\ listener'[f][i] = listener[f][i] \/ (f = e /\ i = id)
         /\ control'[f][i] = control[f][i] \/ (f = e /\ i = id)
    <2>1. /\ listener' = listener \/ listener' = dropEntry(listener, e, id)
          /\ control' = control \/ control' = dropEntry(control, e, id)
      BY DEF SendFailure, Dispose, StopPing
    <2>2. listener \in EntryType /\ control \in EntryType BY <1>t DEF TypeOK, EntryType
    <2> QED BY <2>1, <2>2, DropFacts
<1>4. UNCHANGED <<nextId, mode, handler, aborts, closed>> BY DEF SendFailure, Dispose, StopPing
<1>5. \A f \in Peer, i \in RequestId : i \in failing'[f] => i \in failing[f]
    <2>1. failing \in [Peer -> SUBSET RequestId] BY <1>t DEF TypeOK
    <2>2. failing' = failing \/ failing' = [failing EXCEPT ![e] = @ \ {id}]
      BY DEF SendFailure, Dispose, StopPing
    <2> QED BY <2>1, <2>2
<1>6. ASSUME NEW f \in Peer, NEW i \in RequestId
      PROVE  /\ call'[f][i] = call[f][i] \/ (call'[f][i] = "settled" /\ call[f][i] # "none")
             /\ i \in stopping'[f] => i \in stopping[f] \/ call'[f][i] = "settled"
             /\ f = e /\ i = id => call'[f][i] # "open"
    <2>1. CASE StopPing(e, id)
        <3>1. call' = call /\ id \in stopping[e] /\ stopping' = [stopping EXCEPT ![e] = @ \ {id}]
          BY <2>1 DEF StopPing
        <3>2. call[e][id] = "settled" BY <3>1 DEF KInv, SidesKeptApart
        <3>3. i \in stopping'[f] => i \in stopping[f] BY <1>t, <3>1 DEF TypeOK
        <3> QED BY <3>1, <3>2, <3>3
    <2>2. CASE SendFailure(e, id) \/ Dispose(e, id)
        <3> DEFINE open == pending[e] \cap {id}
        <3>1. call' = settled(e, open) /\ stopping' = stopQueued(e, open)
            <4>1. CASE SendFailure(e, id) BY <4>1 DEF SendFailure
            <4>2. CASE Dispose(e, id)
                <5>1. open = {id} BY <4>2 DEF Dispose
                <5> QED BY <4>2, <5>1 DEF Dispose
            <4> QED BY <2>2, <4>1, <4>2
        <3>2. open \in SUBSET RequestId /\ (\A k \in open : k = id) /\ (id \in open <=> id \in pending[e])
          OBVIOUS
        <3> HIDE DEF open
        <3>3. /\ call'[f][i] = IF f = e /\ i \in open THEN "settled" ELSE call[f][i]
              /\ i \in stopping'[f] <=> i \in stopping[f] \/ (f = e /\ i \in open /\ mode[f][i] = "stream")
          BY <1>t, <3>1, <3>2, SettleFacts
        <3>4. call[e][id] = "open" <=> id \in pending[e] BY DEF IInv, CallTracked
        <3> QED BY <1>1, <3>2, <3>3, <3>4
    <2> QED BY <2>1, <2>2
<1>7. \A f \in Peer, i \in RequestId :
         /\ call'[f][i] = "open" => listener'[f][i] = listener[f][i] /\ control'[f][i] = control[f][i]
         /\ active(f, i)' /\ ~closed'[f] =>
               /\ active(f, i) /\ ~closed[f] /\ control'[f][i] = control[f][i]
               /\ i \in aborts[f] => i \in aborts'[f]
  BY <1>2, <1>3, <1>4, <1>6 DEF active
<1> QED BY <1>4, <1>5, <1>6, <1>7, KeepStep

LEMMA KeptClose ==
    ASSUME IInv, KInv, NEW e \in Peer, Close(e)
    PROVE  KInv'
<1>t. TypeOK BY DEF IInv
<1>1. pending[e] \in SUBSET RequestId BY <1>t DEF TypeOK
<1>2. UNCHANGED <<nextId, mode, failing>> BY DEF Close
<1>3. ASSUME NEW f \in Peer, NEW i \in RequestId
      PROVE  /\ call'[f][i] = IF f = e /\ i \in pending[e] THEN "settled" ELSE call[f][i]
             /\ i \in stopping'[f] => i \in stopping[f] \/ (f = e /\ i \in pending[e])
  BY <1>t, <1>1, SettleFacts DEF Close
<1>4. \A f \in Peer, i \in RequestId : call[f][i] = "open" <=> i \in pending[f]
  BY DEF IInv, CallTracked
<1>5. \A f \in Peer, i \in RequestId :
         /\ handler[f][i] = "none" => handler'[f][i] = "none"
         /\ f # e => /\ handler'[f][i] = handler[f][i]
                     /\ listener'[f][i] = listener[f][i] /\ control'[f][i] = control[f][i]
                     /\ aborts'[f] = aborts[f]
  BY <1>t DEF Close, TypeOK
<1>6. closed'[e] /\ \A f \in Peer : f # e => closed'[f] = closed[f] BY <1>t DEF Close, TypeOK
<1>7. ASSUME NEW f \in Peer, NEW i \in RequestId
      PROVE  /\ call'[f][i] = call[f][i] \/ (call'[f][i] = "settled" /\ call[f][i] # "none")
             /\ i \in stopping'[f] => i \in stopping[f] \/ call'[f][i] = "settled"
             /\ call'[f][i] = "open" => listener'[f][i] = listener[f][i] /\ control'[f][i] = control[f][i]
             /\ active(f, i)' /\ ~closed'[f] =>
                   /\ active(f, i) /\ ~closed[f] /\ control'[f][i] = control[f][i]
                   /\ i \in aborts[f] => i \in aborts'[f]
  BY <1>3, <1>4, <1>5, <1>6 DEF active
<1> QED BY <1>2, <1>5, <1>7, KeepStep

\* A handler registers a listener, or is done.
LEMMA KeptHandler ==
    ASSUME IInv, KInv, NEW e \in Peer, NEW id \in RequestId, OnMessage(e, id) \/ Finish(e, id)
    PROVE  KInv'
<1>t. TypeOK BY DEF IInv
<1>1. active(e, id) /\ UNCHANGED <<nextId, mode, call, stopping, failing, closed>>
  BY DEF OnMessage, Finish, active, envVars
<1>2. call[e][id] # "open" BY <1>1, MadeNotHandled DEF active
<1>3. \A f \in Peer, i \in RequestId :
         ~(f = e /\ i = id) => /\ listener'[f][i] = listener[f][i] /\ control'[f][i] = control[f][i]
                               /\ handler'[f][i] = handler[f][i]
                               /\ i \in aborts'[f] <=> i \in aborts[f]
    <2>1. CASE OnMessage(e, id) BY <1>t, <2>1 DEF OnMessage, TypeOK, envVars
    <2>2. CASE Finish(e, id)
        <3>1. listener \in EntryType /\ control \in EntryType BY <1>t DEF TypeOK, EntryType
        <3>2. listener' = dropEntry(listener, e, id) /\ control' = dropEntry(control, e, id)
          BY <2>2 DEF Finish
        <3>3. \A f \in Peer, i \in RequestId :
                 ~(f = e /\ i = id) => listener'[f][i] = listener[f][i] /\ control'[f][i] = control[f][i]
          BY <3>1, <3>2, DropFacts
        <3>4. \A f \in Peer, i \in RequestId :
                 ~(f = e /\ i = id) => handler'[f][i] = handler[f][i] /\ (i \in aborts'[f] <=> i \in aborts[f])
          BY <1>t, <2>2 DEF Finish, TypeOK
        <3> QED BY <3>3, <3>4
    <2> QED BY <2>1, <2>2
<1>4. \/ UNCHANGED <<handler, control, aborts>>
      \/ handler'[e][id] = "done"
  BY <1>t DEF OnMessage, Finish, TypeOK, envVars
<1>5. ASSUME NEW f \in Peer, NEW i \in RequestId
      PROVE  /\ handler[f][i] = "none" => handler'[f][i] = "none"
             /\ call'[f][i] = "open" => listener'[f][i] = listener[f][i] /\ control'[f][i] = control[f][i]
             /\ active(f, i)' /\ ~closed'[f] =>
                   /\ active(f, i) /\ ~closed[f] /\ control'[f][i] = control[f][i]
                   /\ i \in aborts[f] => i \in aborts'[f]
    <2>1. CASE f = e /\ i = id BY <1>1, <1>2, <1>4, <2>1 DEF active
    <2>2. CASE ~(f = e /\ i = id) BY <1>1, <1>3, <2>2 DEF active
    <2> QED BY <2>1, <2>2
<1> QED BY <1>1, <1>5, KeepStep

\* A dispatched message: a response settles its call, a request starts a handler at the channel
\* that makes none, and a cancel leaves the handler's entry in place.
LEMMA KeptDispatch ==
    ASSUME IInv, KInv, SingleCaller, NEW e \in Peer, NEW m \in Message, Known(nextId[Other(e)], m),
           NEW w, NEW d, Dispatch(e, m, w, d)
    PROVE  KInv'
<1>t. TypeOK BY DEF IInv
<1>un. UNCHANGED <<nextId, closed, mode, failing>> BY DEF Dispatch
<1>id. m.id \in RequestId /\ m.id \in Nat /\ 1 <= m.id BY MessageFacts
<1>1. CASE DispatchResponse(e, m, w, d)
    <2> DEFINE open == pending[e] \cap {m.id}
    <2>1. /\ call' = settled(e, open) /\ stopping' = stopQueued(e, open)
          /\ listener' = IF open = {} THEN listener ELSE dropEntry(listener, e, m.id)
          /\ UNCHANGED <<control, aborts, handler>>
      BY <1>1 DEF DispatchResponse
    <2>2. open \in SUBSET RequestId /\ (\A k \in open : k = m.id) /\ (\A k \in open : k \in pending[e])
      BY <1>id
    <2> HIDE DEF open
    <2>3. \A f \in Peer, i \in RequestId : listener'[f][i] = listener[f][i] \/ (f = e /\ i \in open)
        <3>1. listener \in EntryType BY <1>t DEF TypeOK, EntryType
        <3>2. CASE open = {} BY <2>1, <3>2
        <3>3. CASE open # {}
            <4>1. listener' = dropEntry(listener, e, m.id) /\ m.id \in open BY <2>1, <2>2, <3>3
            <4> QED BY <1>id, <3>1, <4>1, DropFacts
        <3> QED BY <3>2, <3>3
    <2>4. ASSUME NEW f \in Peer, NEW i \in RequestId
          PROVE  /\ call'[f][i] = IF f = e /\ i \in open THEN "settled" ELSE call[f][i]
                 /\ i \in stopping'[f] => i \in stopping[f] \/ (f = e /\ i \in open)
      BY <1>t, <2>1, <2>2, SettleFacts
    <2>5. \A f \in Peer, i \in RequestId : call[f][i] = "open" <=> i \in pending[f]
      BY DEF IInv, CallTracked
    <2>6. ASSUME NEW f \in Peer, NEW i \in RequestId
          PROVE  /\ call'[f][i] = call[f][i] \/ (call'[f][i] = "settled" /\ call[f][i] # "none")
                 /\ i \in stopping'[f] => i \in stopping[f] \/ call'[f][i] = "settled"
                 /\ call'[f][i] = "open" => listener'[f][i] = listener[f][i]
      BY <2>2, <2>3, <2>4, <2>5
    <2> QED BY <1>un, <2>1, <2>6, KeepStep DEF active
<1>2. CASE DispatchRequest(e, m, w, d)
    <2>1. m.kind \in RequestKind /\ UNCHANGED <<listener, call, stopping>>
      BY <1>2 DEF DispatchRequest
    <2>2. m.id < nextId[Other(e)] BY <2>1 DEF Known
    <2>3. Other(e) \in Caller
        <3>1. Other(e) \in Peer /\ nextId[Other(e)] # 1 BY <1>id, <2>2, OtherPeer
        <3> QED BY <1>id, <3>1 DEF KInv, SidesKeptApart
    <2>4. e \notin Caller BY <2>3, OtherPeer DEF SingleCaller
    <2>5. call[e][m.id] = "none"
        <3>1. nextId[e] = 1 BY <1>id, <2>4 DEF KInv, SidesKeptApart
        <3>2. call[e][m.id] # "none" => m.id < nextId[e] BY <1>id DEF IInv, CallsKnown
        <3> QED BY <1>id, <3>1, <3>2
    <2>6. \A f \in Peer, i \in RequestId :
             /\ handler'[f][i] = IF f = e /\ i = m.id THEN "running" ELSE handler[f][i]
             /\ control'[f][i] = IF f = e /\ i = m.id THEN "in" ELSE control[f][i]
      BY <1>2, <1>t, <1>id DEF DispatchRequest, TypeOK
    <2>7. m.id \in aborts'[e] /\ \A f \in Peer, i \in RequestId : i \in aborts[f] => i \in aborts'[f]
      BY <1>2, <1>t, <1>id DEF DispatchRequest, TypeOK
    <2>8. SidesKeptApart' BY <1>un, <2>1, <2>4, <2>6 DEF KInv, SidesKeptApart
    <2>9. ASSUME NEW f \in Peer, NEW i \in RequestId
          PROVE  /\ call'[f][i] = "open" /\ mode'[f][i] = "stream" => listener'[f][i] = "out" /\ control'[f][i] = "out"
                 /\ active(f, i)' /\ ~closed'[f] => control'[f][i] = "in" /\ i \in aborts'[f]
        <3>1. /\ call[f][i] = "open" /\ mode[f][i] = "stream" => listener[f][i] = "out" /\ control[f][i] = "out"
              /\ active(f, i) /\ ~closed[f] => control[f][i] = "in" /\ i \in aborts[f]
          BY DEF KInv, EntryKept, ListenerKept
        <3>2. CASE f = e /\ i = m.id BY <2>1, <2>5, <2>6, <2>7, <3>2
        <3>3. CASE ~(f = e /\ i = m.id) BY <1>un, <2>1, <2>6, <2>7, <3>1, <3>3 DEF active
        <3> QED BY <3>2, <3>3
    <2> QED BY <2>8, <2>9 DEF KInv, EntryKept, ListenerKept
<1>3. CASE DispatchPayload(e, m, w, d)
    <2>1. UNCHANGED <<listener, control, aborts, call, handler, stopping>>
      BY <1>3 DEF DispatchPayload
    <2> QED BY <1>un, <2>1, KeepStep DEF active
<1>4. CASE DispatchControl(e, m, w, d)
    <2>1. UNCHANGED <<listener, control, aborts, call, stopping>> BY <1>4 DEF DispatchControl
    <2>2. \/ handler' = handler
          \/ handler[e][m.id] = "running" /\ handler' = [handler EXCEPT ![e][m.id] = "aborted"]
      BY <1>4 DEF DispatchControl
    <2>3. \A f \in Peer, i \in RequestId :
             /\ handler[f][i] = "none" => handler'[f][i] = "none"
             /\ active(f, i)' => active(f, i)
        <3>1. handler \in [Peer -> [RequestId -> {"none", "running", "aborted", "done"}]]
          BY <1>t DEF TypeOK
        <3>2. CASE handler' = handler BY <3>2 DEF active
        <3>3. CASE handler[e][m.id] = "running" /\ handler' = [handler EXCEPT ![e][m.id] = "aborted"]
            <4>1. \A f \in Peer, i \in RequestId :
                     handler'[f][i] = IF f = e /\ i = m.id THEN "aborted" ELSE handler[f][i]
              BY <1>id, <3>1, <3>3
            <4> QED BY <3>3, <4>1 DEF active
        <3> QED BY <2>2, <3>2, <3>3
    <2> QED BY <1>un, <2>1, <2>3, KeepStep
<1> QED BY <1>1, <1>2, <1>3, <1>4 DEF Dispatch

LEMMA KeptReceive ==
    ASSUME IInv, QInv, KInv, SingleCaller, NEW e \in Peer, Receive(e) \/ Drain(e) \/ DrainMethod(e)
    PROVE  KInv'
<1>1. /\ wire[e] \in Seq(Message) /\ deferred[e] \in Seq(Message)
      /\ QueueOrdered(nextId[Other(e)], wire[e], deferred[e])
  BY IdsTyped DEF IInv, QInv, QueuesOrdered, Queues
<1>2. \/ wire[e] # << >> /\ Dispatch(e, Head(wire[e]), taken(e), deferred)
      \/ deferred[e] # << >> /\ Dispatch(e, Head(deferred[e]), wire, [deferred EXCEPT ![e] = Tail(@)])
      \/ \E k \in DOMAIN deferred[e] :
            Dispatch(e, deferred[e][k], wire, [deferred EXCEPT ![e] = removeAt(@, k)])
  BY DEF Receive, Drain, DrainMethod, setupPositions
<1>3. /\ \A k \in DOMAIN wire[e] : wire[e][k] \in Message /\ Known(nextId[Other(e)], wire[e][k])
      /\ \A k \in DOMAIN deferred[e] : deferred[e][k] \in Message /\ Known(nextId[Other(e)], deferred[e][k])
    <2>1. /\ \A k \in DOMAIN wire[e] : wire[e][k] \in Message
          /\ \A k \in DOMAIN deferred[e] : deferred[e][k] \in Message
      BY <1>1
    <2> QED BY <1>1, <2>1 DEF QueueOrdered
<1>4. /\ wire[e] # << >> => 1 \in DOMAIN wire[e] /\ Head(wire[e]) = wire[e][1]
      /\ deferred[e] # << >> => 1 \in DOMAIN deferred[e] /\ Head(deferred[e]) = deferred[e][1]
  BY <1>1, TailFacts
<1>5. PICK m \in Message : Known(nextId[Other(e)], m) /\ \E w, d : Dispatch(e, m, w, d)
  BY <1>2, <1>3, <1>4
<1> QED BY <1>5, KeptDispatch

\* Everything else leaves calls, handlers and callbacks alone.
LEMMA KeptRest ==
    ASSUME KInv, UNCHANGED <<nextId, mode, call, stopping, failing, handler, listener, control, aborts, closed>>
    PROVE  KInv'
BY DEF KInv, SidesKeptApart, EntryKept, ListenerKept, active

LEMMA InitKInv == Init => KInv
<1> SUFFICES ASSUME Init, NEW e \in Peer, NEW id \in RequestId
             PROVE  nextId[e] = 1 /\ handler[e][id] = "none" /\ stopping[e] = {} /\ failing[e] = {} /\ call[e][id] = "none"
  BY DEF KInv, SidesKeptApart, EntryKept, ListenerKept, active
<1> QED BY DEF Init

LEMMA NextKInv == SingleCaller /\ IInv /\ QInv /\ KInv /\ [Next]_vars => KInv'
<1> SUFFICES ASSUME SingleCaller, IInv, QInv, KInv, [Next]_vars PROVE KInv'
  OBVIOUS
<1>1. CASE UNCHANGED vars BY <1>1, KeptRest DEF vars, chanVars, envVars
<1>2. CASE Next
    <2>1. PICK e \in Peer :
             \/ \E md \in {"plain", "stream"}, kind \in RequestKind, fails \in BOOLEAN :
                   SendRequest(e, md, kind, fails)
             \/ \E id \in RequestId : SendFailure(e, id) \/ Dispose(e, id) \/ StopPing(e, id)
             \/ \E id \in RequestId : OnMessage(e, id) \/ Finish(e, id)
             \/ \E id \in RequestId :
                   \/ \E kind \in {"payload", "cancel"} : CallerSends(e, id, kind)
                   \/ HandlerSends(e, id)
                   \/ \E role \in {"out", "in"} : Ping(e, role, id)
             \/ Receive(e) \/ Drain(e) \/ DrainMethod(e)
             \/ Defer(e) \/ Resume(e) \/ Drained(e) \/ ResumeMethod(e) \/ DrainedMethod(e)
             \/ Close(e)
      BY <1>2 DEF Next
    <2>2. CASE \E md \in {"plain", "stream"}, kind \in RequestKind, fails \in BOOLEAN :
                   SendRequest(e, md, kind, fails)
      BY <2>2, KeptSendRequest
    <2>3. CASE \E id \in RequestId : SendFailure(e, id) \/ Dispose(e, id) \/ StopPing(e, id)
      BY <2>3, KeptForget
    <2>4. CASE \E id \in RequestId : OnMessage(e, id) \/ Finish(e, id) BY <2>4, KeptHandler
    <2>5. CASE \E id \in RequestId :
                   \/ \E kind \in {"payload", "cancel"} : CallerSends(e, id, kind)
                   \/ HandlerSends(e, id)
                   \/ \E role \in {"out", "in"} : Ping(e, role, id)
        <3>1. UNCHANGED <<nextId, mode, call, stopping, failing, handler, listener, control, aborts, closed>>
          BY <2>5 DEF CallerSends, HandlerSends, Ping, chanVars
        <3> QED BY <3>1, KeptRest
    <2>6. CASE Receive(e) \/ Drain(e) \/ DrainMethod(e) BY <2>6, KeptReceive
    <2>7. CASE Defer(e) \/ Resume(e) \/ Drained(e) \/ ResumeMethod(e) \/ DrainedMethod(e)
        <3>1. UNCHANGED <<nextId, mode, call, stopping, failing, handler, listener, control, aborts, closed>>
          BY <2>7 DEF Defer, Resume, Drained, ResumeMethod, DrainedMethod, envVars
        <3> QED BY <3>1, KeptRest
    <2> QED BY <2>1, <2>2, <2>3, <2>4, <2>5, <2>6, <2>7, KeptClose
<1> QED BY <1>1, <1>2

\* When one of the two channels makes the requests, a streaming call and its handler keep their
\* callbacks from the request to the response, through deferral, failures, dispose and close, and no
\* input frame is taken before its request.  (When both make requests the ids of the two directions
\* meet in the callback maps, and an entry may be lost.)
THEOREM StreamsKeepEntries == ASSUME SingleCaller PROVE Spec => []StreamHasItsEntry
<1>1. QInv /\ KInv => StreamHasItsEntry BY DEF QInv, KInv, StreamHasItsEntry
<1>2. Spec => []QInv BY InitQInv, NextQInv, Invariance, PTL DEF Spec
<1>3. IInv /\ QInv /\ KInv /\ [Next]_vars => KInv' BY NextKInv
<1>4. Spec => []KInv BY <1>2, <1>3, InitKInv, Invariance, PTL DEF Spec
<1> QED BY <1>1, <1>2, <1>4, PTL

-----------------------------------------------------------------------------
(* The channel of the Rust implementation (RustChannel).                   *)

RustType ==
    [loop : {"running", "failing", "ended"}, open : BOOLEAN, halfOpen : BOOLEAN, inbound : SUBSET InRequest,
     handler : [InRequest -> {"none", "running", "returned", "over"}],
     terminal : [InRequest -> {"none", "queued", "over"}],
     gate : [InRequest -> {"free", "response", "terminal", "frame"}],
     inSettled : SUBSET InRequest, claimed : SUBSET InRequest, failed : SUBSET InRequest,
     cancelled : SUBSET InRequest, waiting : SUBSET InRequest,
     buffered : [InRequest \cup StreamCall -> 0..StreamBuffer],
     sent : [InRequest -> Seq({"frame", "result", "error"})],
     call : [RustCall -> {"none", "sending", "written", "open", "over"}],
     outbound : SUBSET RustCall, asked : SUBSET RustCall, doomed : SUBSET StreamCall, pinging : SUBSET StreamCall,
     result : [RustCall -> {"waiting", "remote", "local", "closed"}]]

Unanswered(q) == \A i \in 1..Len(q) : q[i] = "frame"

\* The answer is the last thing sent, and an error if it must be.
AnsweredLast(q, error) == \A i \in 1..Len(q) : q[i] # "frame" => i = Len(q) /\ (error => q[i] = "error")

\* An answer is claimed under the gate, by a request that is settled with it; whoever is
\* about to send a frame has the gate of an unclaimed one.
RequestInv(s, r) ==
    /\ r \notin s.claimed \/ s.gate[r] \in {"response", "terminal"} => Unanswered(s.sent[r])
    /\ s.gate[r] \in {"response", "terminal"} => r \in s.claimed
    /\ s.gate[r] = "frame" => r \notin s.claimed
    /\ r \in s.claimed => r \in s.inSettled
    /\ r \in s.inbound => r \notin s.inSettled
    /\ s.handler[r] = "none" => r \notin s.inSettled \cup s.inbound /\ s.terminal[r] # "queued" /\ s.gate[r] = "free"
    /\ r \in s.waiting => r \notin s.cancelled \cup s.inSettled
    /\ AnsweredLast(s.sent[r], r \in s.failed)

CallInv(s, c) ==
    /\ s.call[c] = "none" => s.result[c] = "waiting"
    /\ c \in s.doomed => s.call[c] # "none"
    /\ c \in s.pinging => s.result[c] = "waiting"
    /\ c \in s.outbound => s.result[c] = "waiting" /\ s.call[c] # "none" /\ (c \in StreamCall => s.call[c] # "over")

RustOK(s) ==
    /\ s \in RustType
    /\ \A r \in InRequest : RequestInv(s, r)
    /\ \A c \in RustCall : CallInv(s, c)

LEMMA RustInitial == RustInit => RustOK(rust)
<1> SUFFICES ASSUME RustInit PROVE RustOK(rust)
  OBVIOUS
<1>1. 0 \in 0..StreamBuffer /\ << >> \in Seq({"frame", "result", "error"}) /\ Len(<< >>) = 0
  BY RustAssumption
<1>2. rust \in RustType BY <1>1 DEF RustInit, RustType
<1>3. \A r \in InRequest : RequestInv(rust, r)
  BY <1>1 DEF RustInit, RequestInv, Unanswered, AnsweredLast
<1>4. \A c \in RustCall : CallInv(rust, c) BY DEF RustInit, CallInv
<1> QED BY <1>2, <1>3, <1>4 DEF RustOK

\* One more message for a request that has no answer yet.
LEMMA MessageWritten ==
    ASSUME NEW q \in Seq({"frame", "result", "error"}), Unanswered(q), NEW m \in {"frame", "result", "error"}
    PROVE  /\ Append(q, m) \in Seq({"frame", "result", "error"})
           /\ m = "frame" => Unanswered(Append(q, m))
           /\ \A error \in BOOLEAN : (error /\ m # "frame" => m = "error") => AnsweredLast(Append(q, m), error)
           /\ \A error \in BOOLEAN : AnsweredLast(q, error)
<1>1. /\ Len(q) \in Nat /\ Len(Append(q, m)) = Len(q) + 1 /\ Append(q, m) \in Seq({"frame", "result", "error"})
      /\ \A i \in 1..(Len(q) + 1) : Append(q, m)[i] = IF i = Len(q) + 1 THEN m ELSE q[i]
  OBVIOUS
<1>2. \A i \in 1..(Len(q) + 1) : i = Len(q) + 1 \/ i \in 1..Len(q) BY <1>1
<1> QED BY <1>1, <1>2 DEF Unanswered, AnsweredLast

\* Settling requests of the peer leaves what was sent for them alone.
LEMMA InSettled ==
    ASSUME NEW s \in RustType, NEW rs \in SUBSET InRequest,
           \A r \in InRequest : RequestInv(s, r), \A r \in rs : s.handler[r] # "none"
    PROVE  /\ inSettledBy(s, rs) \in RustType
           /\ \A r \in InRequest : RequestInv(inSettledBy(s, rs), r)
           /\ \A c \in RustCall : CallInv(s, c) <=> CallInv(inSettledBy(s, rs), c)
<1> DEFINE u == inSettledBy(s, rs)
<1>1. /\ u.inSettled = s.inSettled \cup rs /\ u.inbound = s.inbound \ rs /\ u.waiting = s.waiting \ rs
      /\ u.claimed = s.claimed /\ u.gate = s.gate /\ u.sent = s.sent /\ u.handler = s.handler
      /\ u.cancelled = s.cancelled /\ u.failed = s.failed /\ u.call = s.call /\ u.result = s.result
      /\ u.pinging = s.pinging /\ u.outbound = s.outbound /\ u.terminal = s.terminal /\ u.doomed = s.doomed
  BY DEF inSettledBy, RustType
<1>2. u \in RustType BY DEF inSettledBy, RustType
<1> HIDE DEF u
<1>3. \A r \in InRequest : RequestInv(u, r) BY <1>1 DEF RequestInv
<1>4. \A c \in RustCall : CallInv(s, c) <=> CallInv(u, c) BY <1>1 DEF CallInv
<1> QED BY <1>2, <1>3, <1>4 DEF u

\* Ending calls tells them, and leaves the requests of the peer alone.
LEMMA OutSettled ==
    ASSUME NEW s \in RustType, NEW cs \in SUBSET RustCall, NEW why \in {"remote", "local", "closed"},
           \A c \in RustCall : CallInv(s, c), \A c \in cs : s.call[c] # "none"
    PROVE  /\ outSettledBy(s, cs, why) \in RustType
           /\ \A c \in RustCall : CallInv(outSettledBy(s, cs, why), c)
           /\ \A r \in InRequest : RequestInv(s, r) <=> RequestInv(outSettledBy(s, cs, why), r)
           /\ outSettledBy(s, cs, why).outbound = s.outbound \ cs
           /\ outSettledBy(s, cs, why).pinging = s.pinging \ cs
           /\ \A f \in {"call", "asked", "inbound", "handler", "cancelled", "loop", "doomed"} :
                outSettledBy(s, cs, why)[f] = s[f]
<1> DEFINE u == outSettledBy(s, cs, why)
           result == [c \in RustCall |-> IF c \in cs /\ s.result[c] = "waiting" THEN why ELSE s.result[c]]
<1>0. /\ u = [s EXCEPT !.outbound = s.outbound \ cs, !.pinging = s.pinging \ cs, !.result = result]
      /\ result \in [RustCall -> {"waiting", "remote", "local", "closed"}]
  BY DEF outSettledBy, RustType
<1>r. \A c \in RustCall : result[c] = IF c \in cs /\ s.result[c] = "waiting" THEN why ELSE s.result[c]
  OBVIOUS
<1> HIDE DEF result
<1>1. /\ u.inSettled = s.inSettled /\ u.inbound = s.inbound /\ u.waiting = s.waiting
      /\ u.claimed = s.claimed /\ u.gate = s.gate /\ u.sent = s.sent /\ u.handler = s.handler
      /\ u.cancelled = s.cancelled /\ u.failed = s.failed /\ u.call = s.call /\ u.result = result
      /\ u.pinging = s.pinging \ cs /\ u.outbound = s.outbound \ cs /\ u.terminal = s.terminal
      /\ u.doomed = s.doomed
  BY <1>0 DEF RustType
<1>2. u \in RustType
  <2>1. s.outbound \ cs \in SUBSET RustCall /\ s.pinging \ cs \in SUBSET StreamCall BY DEF RustType
  <2>2. s \in RustType /\ result \in [RustCall -> {"waiting", "remote", "local", "closed"}] BY <1>0
  <2> DEFINE v == [s EXCEPT !.outbound = s.outbound \ cs, !.pinging = s.pinging \ cs]
  <2>3. v \in RustType BY <2>1 DEF RustType
  <2>4. u = [v EXCEPT !.result = result] BY <1>0
  <2> HIDE DEF u, v
  <2> QED BY <2>2, <2>3, <2>4 DEF RustType
<1>5. \A f \in {"call", "asked", "inbound", "handler", "cancelled", "loop", "doomed"} : u[f] = s[f]
  BY <1>0 DEF RustType
<1> HIDE DEF u
<1>3. \A r \in InRequest : RequestInv(s, r) <=> RequestInv(u, r) BY <1>1 DEF RequestInv
<1>4. \A c \in RustCall : CallInv(u, c) BY <1>1, <1>r DEF CallInv
<1> QED BY <1>1, <1>2, <1>3, <1>4, <1>5 DEF u

LEMMA RustHolds == RustOK(rust) /\ [RustNext]_rust => RustOK(rust')
<1> SUFFICES ASSUME RustOK(rust), [RustNext]_rust PROVE RustOK(rust')
  OBVIOUS
<1>t. rust \in RustType BY DEF RustOK
<1>q. \A r \in InRequest : RequestInv(rust, r) /\ (r \notin rust.claimed \/ rust.gate[r] \in {"response", "terminal"} => Unanswered(rust.sent[r]))
  BY DEF RustOK, RequestInv
<1>c. \A c \in RustCall : CallInv(rust, c) BY DEF RustOK
<1>1. ASSUME NEW r \in InRequest,
             AcceptRequest(r) \/ AwaitsCancellation(r) \/ HandlerReads(r) \/ HandlerReturns(r) \/ CancelArrives(r) \/ FrameGate(r)
      PROVE  RustOK(rust')
  <2>1. rust' \in RustType
    <3>1. CASE AcceptRequest(r) BY <1>t, <3>1, ZenonT(60) DEF AcceptRequest, RustType
    <3>2. CASE AwaitsCancellation(r) BY <1>t, <3>2, ZenonT(60) DEF AwaitsCancellation, RustType
    <3>3. CASE HandlerReads(r)
      <4>1. rust.buffered[r] - 1 \in 0..StreamBuffer
        BY <1>t, <3>3, RustAssumption DEF HandlerReads, RustType
      <4> QED BY <1>t, <3>3, <4>1 DEF HandlerReads, RustType
    <3>4. CASE HandlerReturns(r) BY <1>t, <3>4 DEF HandlerReturns, RustType
    <3>5. CASE CancelArrives(r) BY <1>t, <3>5, ZenonT(60) DEF CancelArrives, RustType
    <3>6. CASE FrameGate(r) BY <1>t, <3>6 DEF FrameGate, RustType
    <3> QED BY <1>1, <3>1, <3>2, <3>3, <3>4, <3>5, <3>6
  <2>2. \A x \in InRequest : RequestInv(rust', x)
    <3>1. CASE AcceptRequest(r) BY <1>t, <1>q, <3>1 DEF AcceptRequest, RustType, RequestInv
    <3>2. CASE AwaitsCancellation(r)
      BY <1>t, <1>q, <3>2 DEF AwaitsCancellation, RustType, RequestInv
    <3>3. CASE HandlerReads(r) BY <1>t, <1>q, <3>3 DEF HandlerReads, RustType, RequestInv
    <3>4. CASE HandlerReturns(r) BY <1>t, <1>q, <3>4 DEF HandlerReturns, RustType, RequestInv
    <3>5. CASE CancelArrives(r) BY <1>t, <1>q, <3>5 DEF CancelArrives, RustType, RequestInv
    <3>6. CASE FrameGate(r) BY <1>t, <1>q, <3>6 DEF FrameGate, RustType, RequestInv
    <3> QED BY <1>1, <3>1, <3>2, <3>3, <3>4, <3>5, <3>6
  <2>3. \A c \in RustCall : CallInv(rust', c)
    <3>1. rust'.call = rust.call /\ rust'.result = rust.result /\ rust'.pinging = rust.pinging /\ rust'.outbound = rust.outbound
          /\ rust'.doomed = rust.doomed
      <4>1. CASE AcceptRequest(r) \/ AwaitsCancellation(r)
        BY <1>t, <4>1, ZenonT(60) DEF AcceptRequest, AwaitsCancellation, RustType
      <4>2. CASE HandlerReads(r) \/ HandlerReturns(r)
        BY <1>t, <4>2 DEF HandlerReads, HandlerReturns, RustType
      <4>3. CASE CancelArrives(r) \/ FrameGate(r)
        BY <1>t, <4>3, ZenonT(60) DEF CancelArrives, FrameGate, RustType
      <4> QED BY <1>1, <4>1, <4>2, <4>3
    <3> QED BY <1>c, <3>1 DEF CallInv
  <2> QED BY <2>1, <2>2, <2>3 DEF RustOK
<1>2. ASSUME NEW r \in InRequest, NEW who \in {"response", "terminal"}, rust.handler[r] # "none", rust.gate[r] = "free",
             r \notin rust.claimed, rust' = answersInbound(rust, r, who)
      PROVE  RustOK(rust')
  <2> DEFINE u == inSettledBy(rust, {r})
  <2>1. u \in RustType /\ (\A x \in InRequest : RequestInv(u, x)) /\ (\A c \in RustCall : CallInv(u, c))
    BY <1>t, <1>q, <1>c, <1>2, InSettled
  <2>2. r \in u.inSettled /\ u.claimed = rust.claimed /\ u.sent = rust.sent
    BY <1>t DEF inSettledBy, RustType
  <2>3. rust' = [u EXCEPT !.gate[r] = who, !.claimed = @ \cup {r}] BY <1>2 DEF answersInbound
  <2> HIDE DEF u
  <2>4. rust' \in RustType BY <2>1, <2>3, ZenonT(60) DEF RustType
  <2>5. \A x \in InRequest : RequestInv(rust', x)
    BY <1>2, <1>q, <2>1, <2>2, <2>3 DEF RustType, RequestInv
  <2>6. \A c \in RustCall : CallInv(rust', c) BY <2>1, <2>3 DEF RustType, CallInv
  <2> QED BY <2>4, <2>5, <2>6 DEF RustOK
<1>3. ASSUME NEW r \in InRequest, ResponseGate(r) \/ TerminalGate(r)
      PROVE  RustOK(rust')
  <2>h. rust.handler[r] # "none" /\ rust.gate[r] = "free"
    BY <1>q, <1>3 DEF ResponseGate, TerminalGate, RequestInv
  <2>1. CASE r \notin rust.claimed
    <3>1. rust' = answersInbound(rust, r, "response") \/ rust' = answersInbound(rust, r, "terminal")
      BY <1>3, <2>1 DEF ResponseGate, TerminalGate
    <3> QED BY <1>2, <2>h, <2>1, <3>1
  <2>2. CASE r \in rust.claimed
    <3>1. CASE rust' = [rust EXCEPT !.handler[r] = "over"]
      <4>1. rust' \in RustType BY <1>t, <3>1 DEF RustType
      <4>2. \A x \in InRequest : RequestInv(rust', x) BY <1>t, <1>q, <3>1 DEF RustType, RequestInv
      <4>3. \A c \in RustCall : CallInv(rust', c) BY <1>t, <1>c, <3>1 DEF RustType, CallInv
      <4> QED BY <4>1, <4>2, <4>3 DEF RustOK
    <3>2. CASE rust' = [rust EXCEPT !.terminal[r] = "over"]
      <4>1. rust' \in RustType BY <1>t, <3>2 DEF RustType
      <4>2. \A x \in InRequest : RequestInv(rust', x) BY <1>t, <1>q, <3>2 DEF RustType, RequestInv
      <4>3. \A c \in RustCall : CallInv(rust', c) BY <1>t, <1>c, <3>2 DEF RustType, CallInv
      <4> QED BY <4>1, <4>2, <4>3 DEF RustOK
    <3> QED BY <1>3, <2>2, <3>1, <3>2 DEF ResponseGate, TerminalGate
  <2> QED BY <2>1, <2>2
<1>4. ASSUME NEW r \in InRequest, NEW m \in {"frame", "result", "error"}, NEW u,
             rust.gate[r] \in {"response", "terminal", "frame"}, m = "frame" <=> rust.gate[r] = "frame",
             r \in rust.failed /\ m # "frame" => m = "error",
             u = written(rust, r, m)
      PROVE  /\ u \in RustType
             /\ \A x \in InRequest : RequestInv(u, x)
             /\ \A c \in RustCall : CallInv(u, c)
             /\ u.terminal = rust.terminal /\ u.handler = rust.handler
  <2> DEFINE q == IF rust.open THEN Append(rust.sent[r], m) ELSE rust.sent[r]
  <2>1. u = [rust EXCEPT !.gate[r] = "free", !.sent[r] = q] BY <1>4 DEF written
  <2>2. Unanswered(rust.sent[r]) /\ rust.sent[r] \in Seq({"frame", "result", "error"})
    BY <1>t, <1>q, <1>4 DEF RequestInv, RustType
  <2>3. /\ m = "frame" => Unanswered(q)
        /\ AnsweredLast(q, r \in rust.failed)
    <3>1. (r \in rust.failed) \in BOOLEAN OBVIOUS
    <3>2. CASE rust.open BY <1>4, <2>2, <3>1, <3>2, MessageWritten
    <3>3. CASE ~rust.open BY <1>4, <2>2, <3>1, <3>3, MessageWritten
    <3> QED BY <3>2, <3>3
  <2> HIDE DEF q
  <2>t. u \in RustType
    <3>1. q \in Seq({"frame", "result", "error"}) BY <2>2, MessageWritten DEF q
    <3> QED BY <1>t, <2>1, <3>1 DEF RustType
  <2>4. /\ u.gate = [rust.gate EXCEPT ![r] = "free"] /\ u.sent = [rust.sent EXCEPT ![r] = q]
        /\ u.claimed = rust.claimed /\ u.inSettled = rust.inSettled /\ u.inbound = rust.inbound /\ u.waiting = rust.waiting
        /\ u.cancelled = rust.cancelled /\ u.failed = rust.failed /\ u.handler = rust.handler /\ u.terminal = rust.terminal
        /\ u.call = rust.call /\ u.result = rust.result /\ u.pinging = rust.pinging /\ u.outbound = rust.outbound
        /\ u.doomed = rust.doomed
    BY <1>t, <2>1 DEF RustType
  <2>5. rust.gate \in [InRequest -> {"free", "response", "terminal", "frame"}] /\ DOMAIN rust.sent = InRequest
    BY <1>t DEF RustType
  <2>6. \A x \in InRequest : RequestInv(u, x) BY <1>q, <1>4, <2>3, <2>4, <2>5 DEF RequestInv
  <2>7. \A c \in RustCall : CallInv(u, c) BY <1>c, <2>4 DEF CallInv
  <2> QED BY <2>t, <2>4, <2>6, <2>7
<1>5. ASSUME NEW r \in InRequest, ResponseSent(r) \/ TerminalSent(r)
      PROVE  RustOK(rust')
  <2>1. ASSUME NEW m \in {"result", "error"}, NEW u, rust.gate[r] \in {"response", "terminal"}, u = written(rust, r, m),
               r \in rust.failed => m = "error"
        PROVE  /\ u \in RustType /\ u.handler = rust.handler /\ u.terminal = rust.terminal
               /\ \A x \in InRequest : RequestInv(u, x)
               /\ \A c \in RustCall : CallInv(u, c)
    <3>1. r \in rust.failed /\ m # "frame" => m = "error" BY <2>1
    <3>2. m \in {"frame", "result", "error"} /\ (m = "frame" <=> rust.gate[r] = "frame") BY <2>1
    <3> QED BY <1>4, <2>1, <3>1, <3>2
  <2>2. CASE ResponseSent(r)
    <3> DEFINE u == written(rust, r, IF r \in rust.failed THEN "error" ELSE "result")
    <3>1. rust' = [u EXCEPT !.handler[r] = "over"] /\ rust.gate[r] = "response"
      BY <2>2 DEF ResponseSent
    <3>2. /\ u \in RustType /\ u.handler = rust.handler /\ u.terminal = rust.terminal
          /\ \A x \in InRequest : RequestInv(u, x)
          /\ \A c \in RustCall : CallInv(u, c)
      BY <2>1, <3>1
    <3> HIDE DEF u
    <3>3. rust' \in RustType BY <3>1, <3>2 DEF RustType
    <3>4. \A x \in InRequest : RequestInv(rust', x) BY <3>1, <3>2 DEF RustType, RequestInv
    <3>5. \A c \in RustCall : CallInv(rust', c) BY <3>1, <3>2 DEF RustType, CallInv
    <3> QED BY <3>3, <3>4, <3>5 DEF RustOK
  <2>3. CASE TerminalSent(r)
    <3> DEFINE u == written(rust, r, "error")
    <3>1. rust' = [u EXCEPT !.terminal[r] = "over"] /\ rust.gate[r] = "terminal"
      BY <2>3 DEF TerminalSent
    <3>2. /\ u \in RustType /\ u.handler = rust.handler /\ u.terminal = rust.terminal
          /\ \A x \in InRequest : RequestInv(u, x)
          /\ \A c \in RustCall : CallInv(u, c)
      BY <2>1, <3>1
    <3> HIDE DEF u
    <3>3. rust' \in RustType BY <3>1, <3>2 DEF RustType
    <3>4. \A x \in InRequest : RequestInv(rust', x) BY <3>1, <3>2 DEF RustType, RequestInv
    <3>5. \A c \in RustCall : CallInv(rust', c) BY <3>1, <3>2 DEF RustType, CallInv
    <3> QED BY <3>3, <3>4, <3>5 DEF RustOK
  <2> QED BY <1>5, <2>2, <2>3
<1>6. ASSUME NEW r \in InRequest, FrameSent(r)
      PROVE  RustOK(rust')
  <2>1. rust.gate[r] = "frame" /\ rust.handler[r] # "none" /\ r \notin rust.claimed
    BY <1>6, <1>q DEF FrameSent, RequestInv
  <2>2. CASE rust.open
    <3>1. rust' = written(rust, r, "frame") BY <1>6, <2>2 DEF FrameSent
    <3> QED BY <1>4, <2>1, <3>1 DEF RustOK
  <2>3. CASE ~rust.open
    <3> DEFINE u == inSettledBy(rust, {r})
    <3>1. rust' = [u EXCEPT !.gate[r] = "free"] BY <1>6, <2>3 DEF FrameSent
    <3>2. u \in RustType /\ (\A x \in InRequest : RequestInv(u, x)) /\ (\A c \in RustCall : CallInv(u, c))
      BY <1>t, <1>q, <1>c, <2>1, InSettled
    <3> HIDE DEF u
    <3>3. rust' \in RustType BY <3>1, <3>2 DEF RustType
    <3>4. \A x \in InRequest : RequestInv(rust', x) BY <3>1, <3>2 DEF RustType, RequestInv
    <3>5. \A c \in RustCall : CallInv(rust', c) BY <3>1, <3>2 DEF RustType, CallInv
    <3> QED BY <3>3, <3>4, <3>5 DEF RustOK
  <2> QED BY <2>2, <2>3
<1>7. ASSUME NEW r \in InRequest, PayloadArrives(r)
      PROVE  RustOK(rust')
  <2>1. r \in rust.inbound /\ r \notin rust.inSettled /\ r \notin rust.claimed /\ rust.handler[r] # "none"
    BY <1>7, <1>q DEF PayloadArrives, RequestInv
  <2>2. CASE rust.buffered[r] >= StreamBuffer
    <3> DEFINE u == inSettledBy(rust, {r})
    <3>1. rust' = [u EXCEPT !.failed = @ \cup {r}, !.terminal[r] = "queued"]
      BY <1>7, <2>2 DEF PayloadArrives
    <3>2. u \in RustType /\ (\A x \in InRequest : RequestInv(u, x)) /\ (\A c \in RustCall : CallInv(u, c))
      BY <1>t, <1>q, <1>c, <2>1, InSettled
    <3>3. u.handler = rust.handler /\ u.claimed = rust.claimed BY <1>t DEF inSettledBy, RustType
    <3> HIDE DEF u
    <3>4. rust' \in RustType BY <3>1, <3>2 DEF RustType
    <3>5. ASSUME NEW x \in InRequest PROVE RequestInv(rust', x)
      <4>1. /\ rust'.failed = u.failed \cup {r} /\ rust'.terminal = [u.terminal EXCEPT ![r] = "queued"]
            /\ rust'.claimed = u.claimed /\ rust'.inSettled = u.inSettled /\ rust'.inbound = u.inbound
            /\ rust'.waiting = u.waiting /\ rust'.cancelled = u.cancelled /\ rust'.handler = u.handler
            /\ rust'.gate = u.gate /\ rust'.sent = u.sent
            /\ u.terminal \in [InRequest -> {"none", "queued", "over"}]
        BY <3>1, <3>2 DEF RustType
      <4>2. AnsweredLast(u.sent[x], x \in rust'.failed)
        <5>1. CASE x = r
          <6>1. Unanswered(u.sent[x]) BY <2>1, <3>2, <3>3, <5>1 DEF RequestInv
          <6> QED BY <6>1 DEF Unanswered, AnsweredLast
        <5>2. CASE x # r BY <3>2, <4>1, <5>2 DEF RequestInv
        <5> QED BY <5>1, <5>2
      <4> QED BY <2>1, <3>2, <3>3, <4>1, <4>2 DEF RequestInv
    <3>6. \A c \in RustCall : CallInv(rust', c) BY <3>1, <3>2 DEF RustType, CallInv
    <3> QED BY <3>4, <3>5, <3>6 DEF RustOK
  <2>3. CASE ~(rust.buffered[r] >= StreamBuffer)
    <3>1. rust' = [rust EXCEPT !.buffered[r] = @ + 1] BY <1>7, <2>3 DEF PayloadArrives
    <3>2. rust.buffered[r] + 1 \in 0..StreamBuffer BY <1>t, <2>3, RustAssumption DEF RustType
    <3>3. rust' \in RustType BY <1>t, <3>1, <3>2 DEF RustType
    <3>4. \A x \in InRequest : RequestInv(rust', x) BY <1>t, <1>q, <3>1 DEF RustType, RequestInv
    <3>5. \A c \in RustCall : CallInv(rust', c) BY <1>t, <1>c, <3>1 DEF RustType, CallInv
    <3> QED BY <3>3, <3>4, <3>5 DEF RustOK
  <2> QED BY <2>2, <2>3
<1>8. ASSUME NEW r \in InRequest, InboundSteps(r) PROVE RustOK(rust')
  BY <1>3, <1>5, <1>6, <1>8 DEF InboundSteps
<1>9. ASSUME NEW c \in RustCall, NEW s \in RustType, s.call = [rust.call EXCEPT ![c] = s.call[c]],
             \A x \in InRequest : RequestInv(rust, x) <=> RequestInv(s, x), \A x \in RustCall : x # c => CallInv(s, x), CallInv(s, c)
      PROVE  RustOK(s)
  BY <1>q, <1>9 DEF RustOK
<1>10. ASSUME NEW c \in RustCall, NEW why \in {"remote", "local", "closed"}, rust.call[c] # "none"
       PROVE  LET u == outSettledBy(rust, {c}, why)
              IN  /\ u \in RustType /\ (\A x \in InRequest : RequestInv(u, x)) /\ (\A x \in RustCall : CallInv(u, x))
                  /\ u.outbound = rust.outbound \ {c} /\ u.pinging = rust.pinging \ {c} /\ u.call = rust.call /\ u.asked = rust.asked
  BY <1>t, <1>q, <1>c, <1>10, OutSettled
<1>11. ASSUME NEW c \in RustCall, NEW u \in RustType, NEW now \in {"written", "open", "over"}, c \notin u.outbound \/ now # "over" \/ c \notin StreamCall,
              \A x \in InRequest : RequestInv(u, x), \A x \in RustCall : CallInv(u, x),
              rust' = [u EXCEPT !.call[c] = now]
       PROVE  RustOK(rust')
  <2>1. rust' \in RustType BY <1>11 DEF RustType
  <2>2. \A x \in InRequest : RequestInv(rust', x) BY <1>11 DEF RustType, RequestInv
  <2>3. \A x \in RustCall : CallInv(rust', x) BY <1>11 DEF RustType, CallInv
  <2> QED BY <2>1, <2>2, <2>3 DEF RustOK
<1>12. ASSUME NEW c \in RustCall, CallStarts(c) PROVE RustOK(rust')
  <2>1. rust' = [rust EXCEPT !.call[c] = "sending", !.outbound = @ \cup {c}] /\ rust.call[c] = "none"
    BY <1>12 DEF CallStarts
  <2>2. rust' \in RustType BY <1>t, <2>1, ZenonT(60) DEF RustType
  <2>3. \A x \in InRequest : RequestInv(rust', x) BY <1>t, <1>q, <2>1 DEF RustType, RequestInv
  <2>4. \A x \in RustCall : CallInv(rust', x) BY <1>t, <1>c, <2>1 DEF RustType, CallInv
  <2> QED BY <2>2, <2>3, <2>4 DEF RustOK
<1>13. ASSUME NEW c \in RustCall, RequestWritten(c) PROVE RustOK(rust')
  <2> DEFINE u == [rust EXCEPT !.asked = @ \cup {c}]
  <2>1. rust' = [u EXCEPT !.call[c] = "written"] BY <1>t, <1>13 DEF RequestWritten, RustType
  <2>t. u \in RustType BY <1>t DEF RustType
  <2>2. \A x \in InRequest : RequestInv(u, x) BY <1>t, <1>q DEF RustType, RequestInv
  <2>3. \A x \in RustCall : CallInv(u, x) BY <1>t, <1>c DEF RustType, CallInv
  <2> HIDE DEF u
  <2> QED BY <1>11, <2>1, <2>t, <2>2, <2>3
<1>14. ASSUME NEW c \in RustCall, SendReturns(c) PROVE RustOK(rust')
  BY <1>t, <1>q, <1>c, <1>11, <1>14 DEF SendReturns
<1>15. ASSUME NEW c \in RustCall, SendFails(c) \/ HandlesDropped(c) PROVE RustOK(rust')
  <2>1. PICK why \in {"remote", "local", "closed"} : rust' = [outSettledBy(rust, {c}, why) EXCEPT !.call[c] = "over"]
    BY <1>15 DEF SendFails, HandlesDropped
  <2>2. rust.call[c] # "none" BY <1>15 DEF SendFails, HandlesDropped
  <2> DEFINE u == outSettledBy(rust, {c}, why)
  <2>3. u \in RustType /\ (\A x \in InRequest : RequestInv(u, x)) /\ (\A x \in RustCall : CallInv(u, x)) /\ c \notin u.outbound
    BY <1>10, <2>2
  <2> HIDE DEF u
  <2>4. rust' = [u EXCEPT !.call[c] = "over"] BY <2>1 DEF u
  <2> QED BY <1>11, <2>3, <2>4
<1>16. ASSUME NEW c \in RustCall, CallAbandoned(c) PROVE RustOK(rust')
  <2>1. rust.call[c] # "none" BY <1>16 DEF CallAbandoned
  <2>2. CASE c \in StreamCall
    <3> DEFINE u == outSettledBy(rust, {c}, "local")
    <3>1. u \in RustType /\ (\A x \in InRequest : RequestInv(u, x)) /\ (\A x \in RustCall : CallInv(u, x)) /\ c \notin u.outbound
      BY <1>10, <2>1
    <3>2. rust' = [u EXCEPT !.call[c] = "over"] BY <1>16, <2>2 DEF CallAbandoned
    <3> HIDE DEF u
    <3> QED BY <1>11, <3>1, <3>2
  <2>3. CASE c \notin StreamCall
    <3>1. rust' = [rust EXCEPT !.call[c] = "over"] BY <1>16, <2>3 DEF CallAbandoned
    <3> QED BY <1>t, <1>q, <1>c, <1>11, <2>3, <3>1
  <2> QED BY <2>2, <2>3
<1>17. ASSUME NEW c \in RustCall, NEW why \in {"remote", "local", "closed"}, rust.call[c] # "none", rust' = outSettledBy(rust, {c}, why)
       PROVE  RustOK(rust')
  BY <1>10, <1>17 DEF RustOK
<1>18. ASSUME NEW c \in RustCall, CallDisposed(c) \/ CallFrameFails(c) PROVE RustOK(rust')
  <2>1. rust.call[c] # "none" /\ (rust' = outSettledBy(rust, {c}, "local") \/ rust' = outSettledBy(rust, {c}, "closed"))
    BY <1>18 DEF CallDisposed, CallFrameFails
  <2> QED BY <1>17, <2>1
<1>19. ASSUME NEW c \in RustCall, ResponseArrives(c) PROVE RustOK(rust')
  <2> DEFINE u == IF c \in rust.outbound THEN outSettledBy(rust, {c}, "remote") ELSE rust
  <2>1. rust' = [u EXCEPT !.asked = @ \ {c}] BY <1>19 DEF ResponseArrives
  <2>2. u \in RustType /\ (\A x \in InRequest : RequestInv(u, x)) /\ (\A x \in RustCall : CallInv(u, x))
    <3>1. c \in rust.outbound => rust.call[c] # "none" BY <1>c DEF CallInv
    <3> QED BY <1>t, <1>q, <1>c, <1>10, <3>1
  <2> HIDE DEF u
  <2>3. rust' \in RustType BY <2>1, <2>2 DEF RustType
  <2>4. \A x \in InRequest : RequestInv(rust', x) BY <2>1, <2>2 DEF RustType, RequestInv
  <2>5. \A x \in RustCall : CallInv(rust', x) BY <2>1, <2>2 DEF RustType, CallInv
  <2> QED BY <2>3, <2>4, <2>5 DEF RustOK
<1>20. ASSUME NEW c \in RustCall, CallPayloadArrives(c) \/ CallerReads(c) PROVE RustOK(rust')
  <2>1. CASE rust' = outSettledBy(rust, {c}, "local") /\ c \in rust.outbound
    <3>1. rust.call[c] # "none" BY <1>c, <2>1 DEF CallInv
    <3> QED BY <1>17, <2>1, <3>1
  <2>2. ASSUME NEW n \in 0..StreamBuffer, c \in StreamCall, rust' = [rust EXCEPT !.buffered[c] = n]
        PROVE  RustOK(rust')
    <3>1. rust' \in RustType BY <1>t, <2>2 DEF RustType
    <3>2. \A x \in InRequest : RequestInv(rust', x) BY <1>t, <1>q, <2>2 DEF RustType, RequestInv
    <3>3. \A x \in RustCall : CallInv(rust', x) BY <1>t, <1>c, <2>2 DEF RustType, CallInv
    <3> QED BY <3>1, <3>2, <3>3 DEF RustOK
  <2>3. CASE CallPayloadArrives(c) /\ rust.buffered[c] >= StreamBuffer
    BY <2>1, <2>3 DEF CallPayloadArrives
  <2>4. CASE CallPayloadArrives(c) /\ ~(rust.buffered[c] >= StreamBuffer)
    <3>1. c \in StreamCall /\ rust' = [rust EXCEPT !.buffered[c] = @ + 1]
      BY <2>4 DEF CallPayloadArrives
    <3>2. rust.buffered[c] \in 0..StreamBuffer BY <1>t, <3>1 DEF RustType
    <3>3. rust.buffered[c] + 1 \in 0..StreamBuffer BY <2>4, <3>2, RustAssumption
    <3> QED BY <2>2, <3>1, <3>3
  <2>5. CASE CallerReads(c)
    <3>1. c \in StreamCall /\ rust' = [rust EXCEPT !.buffered[c] = @ - 1] /\ rust.buffered[c] > 0
      BY <2>5 DEF CallerReads
    <3>2. rust.buffered[c] \in 0..StreamBuffer BY <1>t, <3>1 DEF RustType
    <3>3. rust.buffered[c] - 1 \in 0..StreamBuffer BY <3>1, <3>2, RustAssumption
    <3> QED BY <2>2, <3>1, <3>3
  <2> QED BY <1>20, <2>3, <2>4, <2>5
<1>21. ASSUME NEW c \in RustCall, PingAdded(c) \/ PongArrives(c) PROVE RustOK(rust')
  <2>1. ASSUME NEW pinging \in SUBSET StreamCall, \A x \in pinging : rust.result[x] = "waiting",
               rust' = [rust EXCEPT !.pinging = pinging]
        PROVE  RustOK(rust')
    <3>1. rust' \in RustType BY <1>t, <2>1 DEF RustType
    <3>2. \A x \in InRequest : RequestInv(rust', x) BY <1>t, <1>q, <2>1 DEF RustType, RequestInv
    <3>3. \A x \in RustCall : CallInv(rust', x) BY <1>t, <1>c, <2>1 DEF RustType, CallInv
    <3> QED BY <3>1, <3>2, <3>3 DEF RustOK
  <2>2. rust.pinging \in SUBSET StreamCall /\ \A x \in rust.pinging : rust.result[x] = "waiting"
    BY <1>t, <1>c DEF RustType, CallInv, RustCall
  <2>3. CASE PingAdded(c)
    <3>1. c \in StreamCall /\ rust.result[c] = "waiting" /\ rust' = [rust EXCEPT !.pinging = @ \cup {c}]
      BY <2>3 DEF PingAdded
    <3> QED BY <2>1, <2>2, <3>1
  <2>4. CASE PongArrives(c)
    <3>1. rust' = [rust EXCEPT !.pinging = @ \ {c}] BY <2>4 DEF PongArrives
    <3> QED BY <2>1, <2>2, <3>1
  <2> QED BY <1>21, <2>3, <2>4
<1>22. CASE TransportCloses
  <2>1. rust' = [rust EXCEPT !.open = FALSE] BY <1>22 DEF TransportCloses
  <2>2. rust' \in RustType BY <1>t, <2>1 DEF RustType
  <2>3. \A x \in InRequest : RequestInv(rust', x) BY <1>t, <1>q, <2>1 DEF RustType, RequestInv
  <2>4. \A x \in RustCall : CallInv(rust', x) BY <1>t, <1>c, <2>1 DEF RustType, CallInv
  <2> QED BY <2>2, <2>3, <2>4 DEF RustOK
<1>23. CASE LoopEnds
  <2> DEFINE cs == PlainCall \cap rust.outbound
             u == outSettledBy(rust, cs, "closed")
  <2>1. rust' = [u EXCEPT !.loop = "failing", !.doomed = rust.outbound \cap StreamCall]
    BY <1>23 DEF LoopEnds
  <2>2. cs \in SUBSET RustCall /\ \A c \in cs : rust.call[c] # "none"
    BY <1>t, <1>c DEF RustType, CallInv
  <2>3. u \in RustType /\ (\A x \in InRequest : RequestInv(u, x)) /\ (\A x \in RustCall : CallInv(u, x)) /\ u.call = rust.call
    <3> HIDE DEF cs
    <3> QED BY <1>t, <1>q, <1>c, <2>2, OutSettled
  <2> HIDE DEF u
  <2>4. rust' \in RustType BY <2>1, <2>3 DEF RustType
  <2>5. \A x \in InRequest : RequestInv(rust', x) BY <2>1, <2>3 DEF RustType, RequestInv
  <2>6. \A x \in RustCall : CallInv(rust', x)
    <3>1. \A x \in rust.outbound : rust.call[x] # "none" BY <1>t, <1>c DEF RustType, CallInv
    <3>2. /\ rust'.call = rust.call /\ rust'.result = u.result /\ rust'.pinging = u.pinging /\ rust'.outbound = u.outbound
          /\ rust'.doomed \subseteq rust.outbound
      BY <2>1, <2>3 DEF RustType
    <3> QED BY <2>3, <3>1, <3>2 DEF CallInv
  <2> QED BY <2>4, <2>5, <2>6 DEF RustOK
<1>24. CASE LoopFails
  <2> DEFINE u == outSettledBy(rust, rust.doomed, "closed")
             w == inSettledBy(u, rust.inbound)
             handlers == [r \in InRequest |-> IF w.handler[r] = "none" THEN "none" ELSE "over"]
             terminal == [r \in InRequest |-> "over"]
             gate == [r \in InRequest |-> IF w.gate[r] = "frame" THEN "frame" ELSE "free"]
  <2>1. rust.doomed \in SUBSET RustCall /\ \A c \in rust.doomed : rust.call[c] # "none"
    BY <1>t, <1>c DEF RustType, CallInv, RustCall
  <2>2. /\ u \in RustType /\ (\A x \in InRequest : RequestInv(u, x)) /\ (\A x \in RustCall : CallInv(u, x))
        /\ u.handler = rust.handler
    BY <1>t, <1>q, <1>c, <2>1, OutSettled
  <2>3. u.gate = rust.gate BY <1>t DEF outSettledBy, RustType
  <2>4. rust.inbound \in SUBSET InRequest /\ \A r \in rust.inbound : rust.handler[r] # "none"
    BY <1>t, <1>q DEF RustType, RequestInv
  <2> HIDE DEF u
  <2>5. w \in RustType /\ (\A x \in InRequest : RequestInv(w, x)) /\ (\A x \in RustCall : CallInv(w, x))
    BY <2>2, <2>4, InSettled
  <2>6. /\ w.handler = rust.handler /\ w.gate = rust.gate
        /\ w.waiting \cap rust.inbound = {} /\ w.inbound \cap rust.inbound = {}
    BY <2>2, <2>3 DEF inSettledBy, RustType
  <2>7. rust' = [w EXCEPT !.loop = "ended", !.doomed = {}, !.outbound = @ \ StreamCall, !.cancelled = @ \cup rust.inbound,
                          !.handler = handlers, !.terminal = terminal, !.gate = gate]
    BY <1>24 DEF LoopFails, u
  <2> HIDE DEF w
  <2>8. /\ handlers \in [InRequest -> {"none", "running", "returned", "over"}]
        /\ terminal \in [InRequest -> {"none", "queued", "over"}]
        /\ gate \in [InRequest -> {"free", "response", "terminal", "frame"}]
        /\ \A r \in InRequest : /\ (handlers[r] = "none") = (w.handler[r] = "none")
                                /\ terminal[r] = "over"
                                /\ gate[r] = IF w.gate[r] = "frame" THEN "frame" ELSE "free"
    OBVIOUS
  <2> HIDE DEF handlers, terminal, gate
  <2>9. rust' \in RustType
    <3> DEFINE v == [w EXCEPT !.loop = "ended", !.doomed = {}, !.outbound = @ \ StreamCall, !.cancelled = @ \cup rust.inbound]
    <3>1. v \in RustType BY <2>4, <2>5 DEF RustType
    <3>2. rust' = [v EXCEPT !.handler = handlers, !.terminal = terminal, !.gate = gate] BY <2>7
    <3> HIDE DEF v
    <3> QED BY <2>8, <3>1, <3>2 DEF RustType
  <2>10. /\ rust'.handler = handlers /\ rust'.terminal = terminal /\ rust'.gate = gate /\ rust'.cancelled = w.cancelled \cup rust.inbound
         /\ rust'.claimed = w.claimed /\ rust'.inSettled = w.inSettled /\ rust'.inbound = w.inbound /\ rust'.waiting = w.waiting
         /\ rust'.failed = w.failed /\ rust'.sent = w.sent
         /\ rust'.call = w.call /\ rust'.result = w.result /\ rust'.pinging = w.pinging
         /\ rust'.outbound = w.outbound \ StreamCall /\ rust'.doomed = {}
    BY <2>5, <2>7 DEF RustType
  <2>11. \A x \in InRequest : RequestInv(rust', x) BY <2>5, <2>6, <2>8, <2>10 DEF RequestInv
  <2>12. \A x \in RustCall : CallInv(rust', x) BY <2>5, <2>10 DEF CallInv
  <2> QED BY <2>9, <2>11, <2>12 DEF RustOK
<1>25. CASE UNCHANGED rust BY <1>25
<1> QED
  BY <1>1, <1>7, <1>8, <1>12, <1>13, <1>14, <1>15, <1>16, <1>18, <1>19, <1>20, <1>21, <1>22, <1>23, <1>24, <1>25
     DEF RustNext, CallSteps

\* Whichever of a handler, an overflow and the senders of other tasks comes first, a request
\* gets one answer and nothing after it; nobody is left to wait for what has happened, and only
\* calls that wait are registered (connection/channel.rs, connection/streaming.rs).
THEOREM RustChannelSafe ==
    RustLiveSpec => [](RustTypeOK /\ OneAnswerEach /\ WaitersAreTold /\ RegisteredIsWaiting)
<1>1. ASSUME RustOK(rust)
      PROVE  RustTypeOK /\ OneAnswerEach /\ WaitersAreTold /\ RegisteredIsWaiting
  <2>1. rust \in RustType /\ (\A r \in InRequest : RequestInv(rust, r)) /\ (\A c \in RustCall : CallInv(rust, c))
    BY <1>1 DEF RustOK
  <2>2. RustTypeOK BY <2>1 DEF RustType, RustTypeOK
  <2>3. OneAnswerEach
    <3>1. ASSUME NEW r \in InRequest PROVE DOMAIN rust.sent[r] = 1..Len(rust.sent[r])
      <4>1. rust.sent[r] \in Seq({"frame", "result", "error"}) BY <2>1 DEF RustType
      <4> QED BY <4>1
    <3>2. \A r \in InRequest : AnsweredLast(rust.sent[r], r \in rust.failed) BY <2>1 DEF RequestInv
    <3> QED BY <3>1, <3>2 DEF OneAnswerEach, answersOf, AnsweredLast
  <2>4. WaitersAreTold
    <3>1. rust.waiting \subseteq InRequest /\ rust.pinging \subseteq RustCall
      BY <2>1 DEF RustType, RustCall
    <3> QED BY <2>1, <3>1 DEF WaitersAreTold, RequestInv, CallInv
  <2>5. RegisteredIsWaiting
    <3>1. rust.outbound \subseteq RustCall BY <2>1 DEF RustType
    <3> QED BY <2>1, <3>1 DEF RegisteredIsWaiting, CallInv
  <2> QED BY <2>2, <2>3, <2>4, <2>5
<1> HIDE DEF RustOK
<1>2. RustOK(rust) /\ [RustNext]_rust => RustOK(rust)' BY RustHolds
<1>3. RustLiveSpec => RustInit /\ [][RustNext]_rust BY PTL DEF RustLiveSpec
<1> QED BY <1>1, <1>2, <1>3, RustInitial, PTL

=============================================================================
