---------------------------- MODULE PeerDiscovery ----------------------------
(***************************************************************************)
(* Finding out the identity of the peer behind a link (linkrpc-hub,        *)
(* hub/server/routing/peerDiscovery.ts).                                   *)
(*                                                                         *)
(* One link, attached and detached repeatedly: each attachment has its own *)
(* PeerState.  An attempt is a promise chain; it looks whether its state   *)
(* is still the link's before the request, after it, and when it fails.    *)
(***************************************************************************)
EXTENDS Naturals

CONSTANTS
    MaxPeerState,   \* bound: attachments of the link
    PeerDelayMin,   \* the first retry delay
    PeerDelayMax    \* its cap

ASSUME PeerAssumption ==
    /\ MaxPeerState \in Nat
    /\ PeerDelayMin \in Nat \ {0}
    /\ PeerDelayMax \in Nat
    /\ PeerDelayMin <= PeerDelayMax

VARIABLE peer

PeerState == 1..MaxPeerState

(***************************************************************************)
(* A PeerState is a number; now is the one in _peers, 0 if there is none.  *)
(* An attempt is "queued" (not dispatched), "asking", "failing" (the catch *)
(* handler is next) or "settled" (the finally handler is next).            *)
(***************************************************************************)
PeerType ==
    [now     : {0} \cup PeerState,
     made    : {0} \cup PeerState,
     info    : [PeerState -> BOOLEAN],
     status  : [PeerState -> {"pending", "identified", "unsupported", "error"}],
     attempt : [PeerState -> {"none", "queued", "asking", "failing", "settled"}],
     absent  : [PeerState -> BOOLEAN],     \* the failure is methodNotFound
     timer   : [PeerState -> BOOLEAN],
     delay   : [PeerState -> PeerDelayMin..PeerDelayMax],
     notice  : {0} \cup PeerState]          \* the state for which the last step called onDidChange

PeerInit ==
    peer = [now |-> 0, made |-> 0,
            info |-> [s \in PeerState |-> FALSE], status |-> [s \in PeerState |-> "pending"],
            attempt |-> [s \in PeerState |-> "none"], absent |-> [s \in PeerState |-> FALSE],
            timer |-> [s \in PeerState |-> FALSE], delay |-> [s \in PeerState |-> PeerDelayMin],
            notice |-> 0]

peerQuiet == [peer EXCEPT !.notice = 0]

-----------------------------------------------------------------------------
PeerAttach ==
    /\ peer.now = 0 /\ peer.made < MaxPeerState
    /\ LET s == peer.made + 1
       IN  peer' = [peerQuiet EXCEPT !.now = s, !.made = s, !.timer[s] = TRUE]

\* The hub then fails the request of an attempt that is asking.
PeerDetach ==
    /\ peer.now # 0
    /\ peer' = [peerQuiet EXCEPT !.now = 0, !.timer[peer.now] = FALSE]

\* identify, with nothing known and no attempt to share.
identifyBegun(p, s) ==
    IF p.info[s] \/ p.attempt[s] # "none" THEN p
    ELSE [p EXCEPT !.attempt[s] = "queued", !.timer[s] = FALSE]

Identify ==
    /\ peer.now # 0
    /\ peer' = identifyBegun(peerQuiet, peer.now)

PeerTimerFires(s) ==
    /\ peer.timer[s]
    /\ LET p == [peerQuiet EXCEPT !.timer[s] = FALSE]
       IN  peer' = IF peer.now = s THEN identifyBegun(p, s) ELSE p

AttemptDispatched(s) ==
    /\ peer.attempt[s] = "queued"
    /\ peer' = [peerQuiet EXCEPT !.attempt[s] = IF peer.now = s THEN "asking" ELSE "failing"]

\* Mutant: the late answer of a former attachment is taken.
AttemptAnswered_unchecked(s) ==
    /\ peer.attempt[s] = "asking"
    /\ peer' = [peer EXCEPT !.attempt[s] = "settled", !.info[s] = TRUE,
                            !.status[s] = "identified", !.notice = s]

\* The peer gave a valid answer.
AttemptAnswered(s) ==
    /\ peer.attempt[s] = "asking"
    /\ peer' = IF peer.now = s
               THEN [peer EXCEPT !.attempt[s] = "settled", !.info[s] = TRUE,
                                 !.status[s] = "identified", !.notice = s]
               ELSE [peerQuiet EXCEPT !.attempt[s] = "failing"]

\* It did not: the request failed or timed out, or the answer does not parse.
AttemptRefused(s, absent) ==
    /\ peer.attempt[s] = "asking"
    /\ peer' = [peerQuiet EXCEPT !.attempt[s] = "failing", !.absent[s] = absent]

\* Mutant: only errors are retried.
AttemptFailed_givesUp(s) ==
    /\ peer.attempt[s] = "failing"
    /\ LET status == IF peer.absent[s] THEN "unsupported" ELSE "error"
       IN  peer' = IF peer.now = s
                   THEN [peer EXCEPT
                           !.attempt[s] = "settled", !.status[s] = status, !.absent[s] = FALSE,
                           !.timer[s] = status = "error", !.notice = IF peer.status[s] # status THEN s ELSE 0,
                           !.delay[s] = IF 2 * @ < PeerDelayMax THEN 2 * @ ELSE PeerDelayMax]
                   ELSE [peerQuiet EXCEPT !.attempt[s] = "settled", !.absent[s] = FALSE]

\* The catch handler: the failure is noted and the next attempt scheduled.
AttemptFailed(s) ==
    /\ peer.attempt[s] = "failing"
    /\ LET status == IF peer.absent[s] THEN "unsupported" ELSE "error"
       IN  peer' = IF peer.now = s
                   THEN [peer EXCEPT
                           !.attempt[s] = "settled", !.status[s] = status, !.absent[s] = FALSE,
                           !.timer[s] = TRUE, !.notice = IF peer.status[s] # status THEN s ELSE 0,
                           !.delay[s] = IF 2 * @ < PeerDelayMax THEN 2 * @ ELSE PeerDelayMax]
                   ELSE [peerQuiet EXCEPT !.attempt[s] = "settled", !.absent[s] = FALSE]

\* The finally handler.  Promise reactions run before any timer.
AttemptOver(s) ==
    /\ peer.attempt[s] = "settled"
    /\ peer' = [peerQuiet EXCEPT !.attempt[s] = "none"]

PeerReactions == \E s \in PeerState : AttemptDispatched(s) \/ AttemptFailed(s) \/ AttemptOver(s)

\* No reaction of a promise is waiting to run.
peerReacted == \A s \in PeerState : peer.attempt[s] \in {"none", "asking"}

PeerTimer == peerReacted /\ \E s \in PeerState : PeerTimerFires(s)

PeerEvents ==
    \/ PeerAttach
    \/ PeerDetach
    \/ Identify
    \/ \E s \in PeerState : AttemptAnswered(s)
    \/ \E s \in PeerState, absent \in BOOLEAN : AttemptRefused(s, absent)
    \/ PeerTimer

PeerNext == PeerReactions \/ PeerEvents

PeerSpec == PeerInit /\ [][PeerNext]_peer

\* Promise reactions and timers run; requests time out, and a peer that is asked again
\* and again answers at last.
PeerLiveSpec ==
    /\ PeerSpec
    /\ WF_peer(PeerReactions)
    /\ WF_peer(PeerTimer)
    /\ \A s \in PeerState : SF_peer(AttemptAnswered(s))

-----------------------------------------------------------------------------
PeerTypeOK == peer \in PeerType

\* An attached link whose peer is not known yet is being asked or will be: neither a
\* failure, nor an answer that came for an earlier attachment, nor identify() taking
\* over from the timer ends the search.
SearchGoesOn ==
    peer.now # 0 /\ ~peer.info[peer.now] => peer.timer[peer.now] \/ peer.attempt[peer.now] # "none"

\* What an earlier attachment left behind - a timer, an attempt whose answer comes after
\* the link was detached and attached again - stays without effect: no timer, no
\* identity, no notice.
FormerPeerIsSilent ==
    /\ peer.notice \in {0, peer.now}
    /\ \A s \in PeerState : peer.timer[s] => s = peer.now

\* A peer that stays attached and sooner or later answers is found.
PeerFound == <>[](peer.now # 0) => <>(peer.now # 0 /\ peer.info[peer.now])

\* The search for a peer is about the peer that is there, and finds it.
PeerIsSearched == [](PeerTypeOK /\ SearchGoesOn /\ FormerPeerIsSilent) /\ PeerFound
=============================================================================
