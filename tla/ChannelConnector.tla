-------------------------- MODULE ChannelConnector ---------------------------
(***************************************************************************)
(* ChannelConnector.keepConnected (linkrpc, connection/channelConnector.ts):*)
(* one asynchronous loop that opens channels, and a stop() that may be     *)
(* called between any two of its awaits.  A channel is open from the       *)
(* moment its factory's promise is fulfilled, before the loop sees it.     *)
(* Channels without a close method (stdio) are left out.                   *)
(***************************************************************************)
EXTENDS Naturals

CONSTANTS
    InitialBackoff,  \* _initialBackoffMs
    MaxBackoff       \* _maxBackoffMs

ASSUME BackoffAssumption ==
    /\ InitialBackoff \in Nat
    /\ MaxBackoff \in Nat
    /\ InitialBackoff <= MaxBackoff

VARIABLES
    redial,    \* _redial: expBackoff() or once()
    pc,        \* the await the loop is in, see Place
    stopped,
    current,   \* whether current is the latest channel (otherwise undefined)
    channel,   \* the latest channel: "none", "open" or "closed"
    isClosed,  \* its onClose listener has been called
    backoff,
    outcome    \* of the promise done: "pending", "resolved" or "rejected"

vars == <<redial, pc, stopped, current, channel, isClosed, backoff, outcome>>

Place == {"loop", "opening", "opened", "connecting", "serving", "delay", "ended"}

Init ==
    /\ redial \in BOOLEAN
    /\ pc = "loop"
    /\ stopped \in BOOLEAN        \* the signal may be aborted already
    /\ current = FALSE
    /\ channel = "none"
    /\ isClosed = FALSE
    /\ backoff = InitialBackoff
    /\ outcome = "pending"

finish(result) == pc' = "ended" /\ outcome' = result

\* Where an attempt that is over leads: out of the loop, or to the next step.
leaveOr(place) ==
    IF stopped \/ ~redial THEN finish("resolved") ELSE pc' = place /\ UNCHANGED outcome

-----------------------------------------------------------------------------
Dial ==
    /\ pc = "loop"
    /\ ~stopped
    /\ pc' = "opening"
    /\ UNCHANGED <<redial, stopped, current, channel, isClosed, backoff, outcome>>

LoopExit ==
    /\ pc = "loop"
    /\ stopped
    /\ finish("resolved")
    /\ UNCHANGED <<redial, stopped, current, channel, isClosed, backoff>>

OpenFails ==
    /\ pc = "opening"
    /\ IF stopped \/ ~redial THEN finish("rejected") ELSE pc' = "delay" /\ UNCHANGED outcome
    /\ UNCHANGED <<redial, stopped, current, channel, isClosed, backoff>>

OpenResolves ==
    /\ pc = "opening"
    /\ pc' = "opened"
    /\ channel' = "open"
    /\ isClosed' = FALSE
    /\ UNCHANGED <<redial, stopped, current, backoff, outcome>>

\* Mutant: the channel is adopted without a look at stopped.
Adopt_unchecked ==
    /\ pc = "opened"
    /\ pc' = "connecting"
    /\ current' = TRUE
    /\ isClosed' = (channel = "closed")
    /\ UNCHANGED <<redial, stopped, channel, backoff, outcome>>

\* The loop has the channel: close it if stop() came first, else adopt it and listen.
\* A listener added to a closed channel is called before onConnect can fail.
Adopt ==
    /\ pc = "opened"
    /\ IF stopped
       THEN /\ finish("resolved")
            /\ channel' = "closed"
            /\ UNCHANGED <<current, isClosed>>
       ELSE /\ pc' = "connecting"
            /\ current' = TRUE
            /\ isClosed' = (channel = "closed")
            /\ UNCHANGED <<channel, outcome>>
    /\ UNCHANGED <<redial, stopped, backoff>>

OnConnectSucceeds ==
    /\ pc = "connecting"
    /\ pc' = "serving"
    /\ backoff' = InitialBackoff
    /\ UNCHANGED <<redial, stopped, current, channel, isClosed, outcome>>

\* Mutant: an error of the callback leaves its channel open.
OnConnectFails_keepsChannel ==
    /\ pc = "connecting"
    /\ IF isClosed
       THEN leaveOr("delay") /\ current' = FALSE
       ELSE finish("rejected") /\ UNCHANGED current
    /\ UNCHANGED <<redial, stopped, channel, isClosed, backoff>>

\* onConnect failed.  With the channel open that is a genuine error; otherwise it
\* is the close surfacing (the ordering contract of onClose).
OnConnectFails ==
    /\ pc = "connecting"
    /\ IF isClosed
       THEN leaveOr("delay") /\ current' = FALSE /\ UNCHANGED <<channel, isClosed>>
       ELSE /\ finish("rejected")
            /\ channel' = "closed"
            /\ isClosed' = TRUE
            /\ UNCHANGED current
    /\ UNCHANGED <<redial, stopped, backoff>>

ClosedSeen ==
    /\ pc = "serving"
    /\ isClosed
    /\ leaveOr("loop")
    /\ current' = FALSE
    /\ UNCHANGED <<redial, stopped, channel, isClosed, backoff>>

\* _delay returned, by its timer or by the signal.
DelayOver ==
    /\ pc = "delay"
    /\ pc' = "loop"
    /\ backoff' = IF 2 * backoff < MaxBackoff THEN 2 * backoff ELSE MaxBackoff
    /\ UNCHANGED <<redial, stopped, current, channel, isClosed, outcome>>

listening == pc \in {"connecting", "serving"}

\* The other side ends the channel.
PeerCloses ==
    /\ channel = "open"
    /\ channel' = "closed"
    /\ isClosed' = (listening \/ isClosed)
    /\ UNCHANGED <<redial, pc, stopped, current, backoff, outcome>>

\* stop(), also as the signal's abort listener.
Stop ==
    /\ ~stopped
    /\ stopped' = TRUE
    /\ current' = FALSE
    /\ IF current /\ channel = "open"
       THEN channel' = "closed" /\ isClosed' = TRUE
       ELSE UNCHANGED <<channel, isClosed>>
    /\ UNCHANGED <<redial, pc, backoff, outcome>>

LoopStep ==
    \/ Dial
    \/ LoopExit
    \/ OpenFails
    \/ OpenResolves
    \/ Adopt
    \/ OnConnectSucceeds
    \/ OnConnectFails
    \/ ClosedSeen
    \/ DelayOver

Next == LoopStep \/ PeerCloses \/ Stop

Spec == Init /\ [][Next]_vars

\* The promises the loop awaits settle and its timers fire; nobody has to close a
\* channel or call stop().
LiveSpec == Spec /\ WF_vars(LoopStep)

-----------------------------------------------------------------------------
TypeOK ==
    /\ redial \in BOOLEAN
    /\ pc \in Place
    /\ stopped \in BOOLEAN
    /\ current \in BOOLEAN
    /\ channel \in {"none", "open", "closed"}
    /\ isClosed \in BOOLEAN
    /\ backoff \in InitialBackoff..MaxBackoff
    /\ outcome \in {"pending", "resolved", "rejected"}

\* No channel is leaked: when the loop is between attempts, waits or has ended, the
\* channel of the last attempt is closed, whichever way the attempt ended.
NoLeak == channel = "open" => pc \in {"opened", "connecting", "serving"}

\* The loop waits for a close that will be reported: while a channel is served,
\* current names it until stop() took it, and isClosed tells whether it is closed.
CloseObserved == listening => (isClosed <=> channel = "closed") /\ (current <=> ~stopped)

\* The loop seen as a ConnectionLoop.
phase ==
    IF pc = "ended" THEN "ended"
    ELSE IF listening /\ channel = "open" THEN "connected"
    ELSE "idle"

Loop == INSTANCE ConnectionLoop WITH stopped <- stopped, phase <- phase

\* The connector keeps the promise of KeepConnectedHandle: no connection once it is
\* stopped, however stop() interleaves with open and onConnect, and the loop ends.
ImplementsLoop == Loop!LoopSpec

\* Its part without liveness.
ImplementsSafeLoop == Loop!LoopSafe

(***************************************************************************)
(* The inductive invariant behind NoLeak and the refinement.               *)
(***************************************************************************)
IInv ==
    /\ TypeOK
    /\ NoLeak
    /\ CloseObserved
=============================================================================
