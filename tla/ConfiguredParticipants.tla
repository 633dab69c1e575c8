------------------------ MODULE ConfiguredParticipants ------------------------
(***************************************************************************)
(* A configured participant of a hub (linkrpc-hub,                         *)
(* engine/configuredParticipants.ts): a loop that opens a transport,       *)
(* attaches it to the hub, registers its service ids at the far end,       *)
(* claims its local routes, and starts over after a disconnect.  dispose() *)
(* may come between any two of its awaits; what it can reach then is       *)
(* whatever the loop has published by that time (connectingAttachment,     *)
(* current, the abort listener of the attempt).                            *)
(***************************************************************************)
EXTENDS Naturals

CONSTANTS
    InitialDelay,  \* INITIAL_BACKOFF_MS
    MaxDelay       \* MAX_BACKOFF_MS

ASSUME DelayAssumption ==
    /\ InitialDelay \in Nat \ {0}
    /\ MaxDelay \in Nat
    /\ InitialDelay <= MaxDelay

VARIABLE participant

(***************************************************************************)
(* pc is the await the loop is in; "opened", "registered" and "claimed"    *)
(* are awaits whose promise is settled and whose continuation is queued.   *)
(* linked and routed are the hub's side: the link is attached, and holds   *)
(* the configured prefixes and the default route.                          *)
(***************************************************************************)
ParticipantPlace ==
    {"loop", "delay", "opening", "opened", "registering", "registered", "claimed", "serving", "ended"}

ParticipantType ==
    [registers  : BOOLEAN,               \* claimServiceIds is not empty
     pc         : ParticipantPlace,
     stopped    : BOOLEAN,
     transport  : {"none", "open", "closed"},
     linked     : BOOLEAN,
     routed     : BOOLEAN,
     disposed   : BOOLEAN,               \* the attachment's handle was disposed
     connecting : BOOLEAN,               \* connectingAttachment is set
     current    : BOOLEAN,
     backoff    : InitialDelay..MaxDelay,
     delay      : 0..MaxDelay]           \* delayBeforeAttempt

ParticipantInit ==
    \E registers \in BOOLEAN :
        participant =
            [registers |-> registers, pc |-> "loop", stopped |-> FALSE, transport |-> "none",
             linked |-> FALSE, routed |-> FALSE, disposed |-> FALSE, connecting |-> FALSE,
             current |-> FALSE, backoff |-> InitialDelay, delay |-> 0]

participantAt(place) == participant.pc = place

\* The attachment's dispose: only the first call detaches the link.
linkDetached(p) ==
    [p EXCEPT !.linked = p.linked /\ p.disposed, !.routed = p.routed /\ p.disposed, !.disposed = TRUE]

participantReleased(p) == [linkDetached(p) EXCEPT !.transport = "closed"]

\* The catch block of the loop.
attemptFailed(p) ==
    IF p.stopped THEN [p EXCEPT !.pc = "ended", !.connecting = FALSE]
    ELSE [p EXCEPT !.pc = "loop", !.connecting = FALSE, !.delay = p.backoff,
                   !.backoff = IF 2 * p.backoff < MaxDelay THEN 2 * p.backoff ELSE MaxDelay]

-----------------------------------------------------------------------------
\* The head of the loop, and the delay before an attempt that is not the first.
ParticipantDials ==
    /\ participantAt("loop")
    /\ participant' = [participant EXCEPT
          !.pc = IF participant.stopped THEN "ended"
                 ELSE IF participant.delay > 0 THEN "delay" ELSE "opening"]

ParticipantDelayOver ==
    /\ participantAt("delay")
    /\ participant' = [participant EXCEPT !.pc = IF participant.stopped THEN "ended" ELSE "opening"]

\* _openParticipant: a socket, a web socket or a child process, and its handshake.
ParticipantOpenFails ==
    /\ participantAt("opening")
    /\ participant' = attemptFailed(participant)

ParticipantOpens ==
    /\ participantAt("opening")
    /\ participant' = [participant EXCEPT !.pc = "opened", !.transport = "open"]

\* The transport is attached, unless the participant was disposed meanwhile.  With
\* nothing to register remotely the routes are claimed in the same step.
ParticipantAttaches ==
    /\ participantAt("opened")
    /\ participant' =
          IF participant.stopped
          THEN attemptFailed([participant EXCEPT !.transport = "closed"])
          ELSE [participant EXCEPT
                  !.linked = TRUE, !.disposed = FALSE, !.connecting = participant.registers,
                  !.routed = ~participant.registers,
                  !.pc = IF participant.registers THEN "registering" ELSE "claimed"]

\* _registerOnRemote is answered; the continuation is queued.
ParticipantRegistered ==
    /\ participantAt("registering")
    /\ participant.transport = "open" /\ ~participant.disposed
    /\ participant' = [participant EXCEPT !.pc = "registered"]

\* Mutant: a failed attempt leaves its link attached.
ParticipantAttemptFails_keepsLink ==
    /\ participant.pc \in {"registering", "registered"}
    /\ participant' = attemptFailed([participant EXCEPT !.transport = "closed"])

\* The registration failed or timed out, or a route is taken: the catch block of
\* _connectParticipant disposes what the attempt made.
ParticipantAttemptFails ==
    /\ \/ participant.pc \in {"registering", "registered"}
       \/ participantAt("opened") /\ ~participant.registers /\ ~participant.stopped
    /\ participant' = attemptFailed(participantReleased(participant))

\* claimPrefix and setDefaultRoute; both attach the link they are given.
ParticipantClaims ==
    /\ participantAt("registered")
    /\ participant' = [participant EXCEPT
          !.pc = "claimed", !.linked = TRUE, !.routed = TRUE, !.connecting = FALSE]

\* Mutant: a dispose during the last tick of the attempt is not noticed.
ParticipantConnected_unchecked ==
    /\ participantAt("claimed")
    /\ participant' = [participant EXCEPT !.pc = "serving", !.current = TRUE, !.backoff = InitialDelay]

\* Mutant: the loop of a disposed participant returns without a look at what it has.
ParticipantConnected_returns ==
    /\ participantAt("claimed")
    /\ participant' =
          IF participant.stopped THEN [participant EXCEPT !.pc = "ended"]
          ELSE [participant EXCEPT !.pc = "serving", !.current = TRUE, !.backoff = InitialDelay]

\* The loop has the connection.
ParticipantConnected ==
    /\ participantAt("claimed")
    /\ participant' =
          IF participant.stopped
          THEN [participantReleased(participant) EXCEPT !.pc = "ended"]
          ELSE [participant EXCEPT !.pc = "serving", !.current = TRUE, !.backoff = InitialDelay]

ParticipantDisconnected ==
    /\ participantAt("serving")
    /\ participant.transport = "closed"
    /\ participant' = [participantReleased(participant) EXCEPT
          !.current = FALSE, !.delay = InitialDelay,
          !.pc = IF participant.stopped THEN "ended" ELSE "loop"]

\* The far end closes the transport.
ParticipantTransportCloses ==
    /\ participant.transport = "open"
    /\ participant' = [participant EXCEPT !.transport = "closed"]

\* dispose: abort (which disposes the transport of an attempt that is attached), the
\* attachment in progress, the current connection.
ParticipantDispose ==
    /\ ~participant.stopped
    /\ LET reach == participant.connecting \/ participant.current
       IN  participant' = [(IF reach THEN participantReleased(participant) ELSE participant) EXCEPT
                              !.stopped = TRUE, !.connecting = FALSE, !.current = FALSE]

ParticipantLoop ==
    \/ ParticipantDials
    \/ ParticipantDelayOver
    \/ ParticipantOpenFails
    \/ ParticipantOpens
    \/ ParticipantAttaches
    \/ ParticipantRegistered
    \/ ParticipantAttemptFails
    \/ ParticipantClaims
    \/ ParticipantConnected
    \/ ParticipantDisconnected

ParticipantNext == ParticipantLoop \/ ParticipantTransportCloses \/ ParticipantDispose

ParticipantSpec == ParticipantInit /\ [][ParticipantNext]_participant

\* The promises the loop awaits settle, its timers fire.
ParticipantLiveSpec == ParticipantSpec /\ WF_participant(ParticipantLoop)

-----------------------------------------------------------------------------
ParticipantTypeOK == participant \in ParticipantType

\* Between two attempts nothing of the last one is left: no link, no route that the
\* next attempt would find taken, no open transport.
AttemptCleanedUp ==
    participant.pc \in {"loop", "delay", "opening"} =>
        /\ ~participant.linked /\ ~participant.routed
        /\ participant.transport # "open"

\* A disposed participant whose loop has ended holds no transport.
DisposedClosesTransport == participantAt("ended") => participant.transport # "open"

\* ... and its link is not routed: attach "Returns a disposable that stops routing the
\* link ... when disposed" (routingHub.ts).
DisposedStopsRouting == participantAt("ended") => ~participant.linked /\ ~participant.routed

\* The participant seen as a ConnectionLoop: the far end is connected while it is served.
ParticipantLoopView == INSTANCE ConnectionLoop WITH
    stopped <- participant.stopped,
    phase <- IF participantAt("ended") THEN "ended"
             ELSE IF participantAt("serving") /\ participant.transport = "open" THEN "connected"
             ELSE "idle"

\* Like a connector, a participant connects to nothing once it is disposed, wherever
\* dispose() falls, and its loop then ends.
ParticipantImplementsLoop == ParticipantLoopView!LoopSpec

\* A participant leaves nothing of an attempt behind, and keeps the promise of a loop.
ParticipantIsTidy ==
    [](ParticipantTypeOK /\ AttemptCleanedUp /\ DisposedClosesTransport) /\ ParticipantImplementsLoop
=============================================================================
