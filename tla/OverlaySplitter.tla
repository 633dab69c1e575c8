--------------------------- MODULE OverlaySplitter ---------------------------
(***************************************************************************)
(* The overlay splitter (linkrpc-hub,                                      *)
(* hub/server/routing/overlaySplitter.ts): a participant P shares one      *)
(* transport with a local root C and an uplink H.  Requests of H and C get *)
(* an id that is tagged with their origin, so that P's responses and       *)
(* frames find their way back without a table; requests of P pass as they  *)
(* are, and only the port they went to is remembered, for the stream       *)
(* frames that P sends to the callee.                                      *)
(*                                                                         *)
(* An id is a number, a string, or a string that reads as a tagged id: P   *)
(* may itself be the uplink of another splitter.                           *)
(***************************************************************************)
EXTENDS Naturals, Sequences

CONSTANTS
    OwnId,       \* ids of P's own requests; some may read as a tag of this splitter
    UpstreamId,  \* ids of the requests of H and C
    MaxFromP,    \* bound: messages of P on their way to the splitter
    MaxOverlay   \* bound: messages sent by the three ports

ASSUME OverlayAssumption == MaxFromP \in Nat /\ MaxOverlay \in Nat

VARIABLE overlay

Origin == {"C", "H"}

numberId == [type |-> "n"]
stringId == [type |-> "s"]

\* Mutant: the tag does not say whether the id is a number or a string.
encodeId_untyped(origin, id) == [type |-> "tag", origin |-> origin, id |-> IF id = numberId THEN stringId ELSE id]

encodeId(origin, id) == [type |-> "tag", origin |-> origin, id |-> id]

isTagged(id) == id.type = "tag"

(***************************************************************************)
(* used are the ids of P's requests so far, calls those requests that have *)
(* no response yet, with the port they were addressed to; served are the   *)
(* requests P has from above, unanswered.                                  *)
(* arrived is the last message the splitter passed on, with the port (and  *)
(* the id) it was meant for; live says that its request was then open.     *)
(***************************************************************************)
OverlayInit ==
    overlay = [used |-> {}, calls |-> {}, pInitiated |-> {}, served |-> {}, fromP |-> << >>, sent |-> 0,
               disposed |-> FALSE, arrived |-> [kind |-> "none"]]

overlayBudget == overlay.sent < MaxOverlay

participantSends == Len(overlay.fromP) < MaxFromP /\ overlayBudget

\* A message of P to one of the ports, as it comes out.
overlayOut(kind, port, id, to, meantId, live) ==
    [kind |-> kind, port |-> port, id |-> id, to |-> to, meantId |-> meantId, live |-> live]

initiatedAt(id) == {t \in Origin : [id |-> id, target |-> t] \in overlay.pInitiated}

-----------------------------------------------------------------------------
\* P calls a root method (C) or a prefixed one (H); a channel uses no id twice.
PRequests(id, target) ==
    /\ id \notin overlay.used
    /\ participantSends
    /\ overlay' = [overlay EXCEPT
          !.used = @ \cup {id}, !.calls = @ \cup {[id |-> id, target |-> target]}, !.sent = @ + 1,
          !.fromP = Append(@, [kind |-> "request", id |-> id, to |-> target])]

\* P sends a frame to the callee of an open call of its own.
PStreamsToCallee(c) ==
    /\ c \in overlay.calls /\ participantSends
    /\ overlay' = [overlay EXCEPT !.sent = @ + 1,
          !.fromP = Append(@, [kind |-> "toCallee", id |-> c.id, to |-> c.target])]

\* P answers or sends a frame for a request it serves, under the id it was given.
PAnswers(r, kind) ==
    /\ r \in overlay.served /\ participantSends
    /\ overlay' = [overlay EXCEPT !.sent = @ + 1,
          !.served = IF kind = "response" THEN @ \ {r} ELSE @,
          !.fromP = Append(@, [kind |-> kind, id |-> r.seen, to |-> r.origin, meantId |-> r.id])]

-----------------------------------------------------------------------------
\* The port a frame of P for a callee goes to: where its request went, else the uplink.
streamTarget(m) == IF "C" \in initiatedAt(m.id) THEN "C" ELSE "H"

\* _onFromParticipant, for the first message on its way.
FromParticipant ==
    /\ overlay.fromP # << >> /\ ~overlay.disposed
    /\ LET m == Head(overlay.fromP)
           o == [overlay EXCEPT !.fromP = Tail(@)]
       IN  \/ /\ m.kind = "request"
              /\ overlay' = [o EXCEPT
                    !.pInitiated = {i \in @ : i.id # m.id} \cup {[id |-> m.id, target |-> m.to]},
                    !.arrived = overlayOut("request", m.to, m.id, m.to, m.id, TRUE)]
           \/ /\ m.kind = "toCallee"
              /\ overlay' = [o EXCEPT
                    !.arrived = overlayOut("toCallee", streamTarget(m), m.id, m.to, m.id,
                                           [id |-> m.id, target |-> m.to] \in overlay.calls)]
           \/ /\ m.kind \in {"response", "toCaller"}
              /\ overlay' = [o EXCEPT
                    !.arrived = overlayOut(m.kind, m.id.origin, m.id.id, m.to, m.meantId, TRUE)]

\* _onFromUpstream: a request of H or C reaches P under a tagged id.
UpstreamRequests(origin, id) ==
    /\ ~overlay.disposed /\ overlayBudget
    /\ \A r \in overlay.served : ~(r.origin = origin /\ r.id = id)
    /\ \A i \in 1..Len(overlay.fromP) :
          overlay.fromP[i].kind = "response" => ~(overlay.fromP[i].to = origin /\ overlay.fromP[i].meantId = id)
    /\ overlay' = [overlay EXCEPT !.sent = @ + 1,
          !.served = @ \cup {[origin |-> origin, id |-> id, seen |-> encodeId(origin, id)]},
          !.arrived = [kind |-> "none"]]

\* Mutant: the port of an answered request stays remembered.
UpstreamResponds_keeps(c) ==
    /\ ~overlay.disposed
    /\ c \in overlay.calls \cap overlay.pInitiated
    /\ overlay' = [overlay EXCEPT !.calls = @ \ {c}, !.arrived = [kind |-> "none"]]

\* Its response to P passes as it is and ends the entry.
UpstreamResponds(c) ==
    /\ ~overlay.disposed
    /\ c \in overlay.calls \cap overlay.pInitiated
    /\ overlay' = [overlay EXCEPT !.calls = @ \ {c}, !.pInitiated = {i \in @ : i.id # c.id},
                                  !.arrived = [kind |-> "none"]]

\* A frame for the callee P, tagged like the request it belongs to.
UpstreamStreams(r) ==
    /\ ~overlay.disposed /\ overlayBudget
    /\ r \in overlay.served
    /\ overlay' = [overlay EXCEPT !.sent = @ + 1,
          !.arrived = overlayOut("streamed", "P", encodeId(r.origin, r.id), "P", r.seen, TRUE)]

\* A frame for the caller P passes as it is.
UpstreamStreamsToCaller(c) ==
    /\ ~overlay.disposed /\ overlayBudget
    /\ c \in overlay.calls \cap overlay.pInitiated
    /\ overlay' = [overlay EXCEPT !.sent = @ + 1, !.arrived = overlayOut("streamed", "P", c.id, "P", c.id, TRUE)]

OverlayDispose ==
    /\ ~overlay.disposed
    /\ overlay' = [overlay EXCEPT !.disposed = TRUE, !.pInitiated = {}, !.arrived = [kind |-> "none"]]

OverlayNext ==
    \/ \E id \in OwnId, target \in Origin : PRequests(id, target)
    \/ \E c \in overlay.calls : PStreamsToCallee(c)
    \/ \E r \in overlay.served, kind \in {"response", "toCaller"} : PAnswers(r, kind)
    \/ FromParticipant
    \/ \E origin \in Origin, id \in UpstreamId : UpstreamRequests(origin, id)
    \/ \E c \in overlay.calls : UpstreamResponds(c)
    \/ \E r \in overlay.served : UpstreamStreams(r)
    \/ \E c \in overlay.calls : UpstreamStreamsToCaller(c)
    \/ OverlayDispose

OverlaySpec == OverlayInit /\ [][OverlayNext]_overlay

-----------------------------------------------------------------------------
\* A response or a frame reaches the port of the request it belongs to, under the id
\* that port used - also with the same ids open at both ports, and with ids of P that
\* look tagged.  Only a frame P sent before it saw the response of its call, and that
\* arrives after that response passed, goes elsewhere: to the uplink, never to C.
RoutedToItsCall ==
    overlay.arrived.kind # "none" =>
        /\ overlay.arrived.id = overlay.arrived.meantId
        /\ overlay.arrived.live => overlay.arrived.port = overlay.arrived.to
        /\ ~overlay.arrived.live => overlay.arrived.port \in {overlay.arrived.to, "H"}

\* What the splitter remembers is exactly the calls of P that it passed on and has seen
\* no response for: the table does not grow with the calls made.
InitiatedIsOpen ==
    /\ overlay.pInitiated \subseteq overlay.calls
    /\ \A c \in overlay.calls \ overlay.pInitiated :
          \/ overlay.disposed
          \/ \E i \in 1..Len(overlay.fromP) :
                overlay.fromP[i].kind = "request" /\ overlay.fromP[i].id = c.id

\* The splitter keeps the two ports apart, without a table that grows.
PortsKeptApart == RoutedToItsCall /\ InitiatedIsOpen
=============================================================================
