------------------------- MODULE ConnectionAcceptor -------------------------
(***************************************************************************)
(* From an accepted socket to a link of the hub (linkrpc,                  *)
(* transport/initialize.ts; linkrpc-hub, hub/server: SocketServer,         *)
(* WebSocketServer, withProvenance, HubConnectionAcceptor,                 *)
(* boundTokenHandler, TokenIdentityStore).                                 *)
(*                                                                         *)
(* Connections that present the same single-use token go through the       *)
(* initialize handshake (which only peeks at the token), the optional      *)
(* attestation, and the acceptor (which redeems it), while their sockets   *)
(* may close and the acceptor may be disposed between any two of these     *)
(* steps.  A socket server gives the handshake an abort signal that fires  *)
(* when the socket closes; a web socket server does not.                   *)
(***************************************************************************)
EXTENDS Naturals, FiniteSets

CONSTANT Conn    \* incoming connections

VARIABLE acceptor

(***************************************************************************)
(* server     which of the two servers                                     *)
(* token      "live", "expired" or "redeemed" in the TokenIdentityStore    *)
(* pc         per connection: "new", "greeting" (nextMessage awaits the    *)
(*            initialize request), "checking" (isTokenAccepted),           *)
(*            "attesting" (provider.resolve), "accepted" or "dropped"      *)
(* open       connections whose socket is open                             *)
(* live       transports that the server disposes with itself              *)
(* hears      transports whose close the acceptor will be told of          *)
(* linked     connections with an upstream link and an overlay             *)
(* bound      connections that were given the token's identity             *)
(***************************************************************************)
AcceptorInit ==
    \E server \in {"socket", "websocket"} :
        acceptor = [server |-> server, token |-> "live", disposed |-> FALSE,
                    pc |-> [c \in Conn |-> "new"], open |-> {}, live |-> {}, hears |-> {},
                    linked |-> {}, bound |-> {}]

\* The transport is disposed and the connection goes nowhere.
connDropped(a, c) == [a EXCEPT !.pc[c] = "dropped", !.open = @ \ {c}, !.live = @ \ {c}]

-----------------------------------------------------------------------------
Connects(c) ==
    /\ acceptor.pc[c] = "new" /\ ~acceptor.disposed
    /\ acceptor' = [acceptor EXCEPT !.pc[c] = "greeting", !.open = @ \cup {c},
                       !.live = IF acceptor.server = "websocket" THEN @ \cup {c} ELSE @]

\* The first message is an initialize request ...
Greets(c) ==
    /\ acceptor.pc[c] = "greeting" /\ c \in acceptor.open
    /\ acceptor' = [acceptor EXCEPT !.pc[c] = "checking"]

\* ... or it is not, or does not come in time, or the close aborts the handshake.
HandshakeFails(c) ==
    /\ acceptor.pc[c] = "greeting" \/ (acceptor.pc[c] = "checking" /\ c \notin acceptor.open)
    /\ acceptor.pc[c] = "checking" => acceptor.server = "socket"
    /\ acceptor' = connDropped(acceptor, c)

\* peek, the answer to the client, and the handover to the connection handler.
TokenChecked(c) ==
    /\ acceptor.pc[c] = "checking"
    /\ acceptor.server = "socket" => c \in acceptor.open
    /\ acceptor' = IF acceptor.token # "live" \/ acceptor.disposed
                   THEN connDropped(acceptor, c)
                   ELSE [acceptor EXCEPT !.pc[c] = "attesting",
                            !.live = IF c \in acceptor.open THEN @ \cup {c} ELSE @]

\* Mutant: redeeming a token leaves it in the store.
tokenRedeemed_kept(a) == a

\* redeem
tokenRedeemed(a) == [a EXCEPT !.token = "redeemed"]

\* Mutant: a transport that is closed already never reports it.
listensForClose_open(a, c) == IF c \in a.open THEN [a EXCEPT !.hears = @ \cup {c}] ELSE a

\* onDidClose: a transport that is closed already reports it in a microtask.
listensForClose(a, c) == [a EXCEPT !.hears = @ \cup {c}]

\* Mutant: a disposed acceptor goes on accepting.
Accepts_disposed(c) ==
    /\ acceptor.pc[c] = "attesting"
    /\ acceptor' =
          IF acceptor.token # "live" THEN connDropped(acceptor, c)
          ELSE listensForClose([tokenRedeemed(acceptor) EXCEPT
                  !.pc[c] = "accepted", !.linked = @ \cup {c}, !.bound = @ \cup {c}], c)

\* _accept and _wire, after the attestation.  (An acceptor without attestation takes the
\* step right after TokenChecked.)
Accepts(c) ==
    /\ acceptor.pc[c] = "attesting"
    /\ acceptor' =
          IF acceptor.disposed \/ acceptor.token # "live" THEN connDropped(acceptor, c)
          ELSE listensForClose([tokenRedeemed(acceptor) EXCEPT
                  !.pc[c] = "accepted", !.linked = @ \cup {c}, !.bound = @ \cup {c}], c)

\* The handler that claimed the token throws after it was redeemed, or the attestation is
\* required and missing.
AcceptFails(c) ==
    /\ acceptor.pc[c] = "attesting"
    /\ \E a \in {acceptor, tokenRedeemed(acceptor)} :
          /\ a # acceptor => acceptor.token = "live" /\ ~acceptor.disposed
          /\ acceptor' = connDropped(a, c)

\* The peer closes, or the socket breaks.
SocketCloses(c) ==
    /\ c \in acceptor.open
    /\ acceptor' = [acceptor EXCEPT !.open = @ \ {c}]

\* The close event, or the microtask of a transport found closed.
CloseSeen(c) ==
    /\ c \in acceptor.hears /\ c \notin acceptor.open
    /\ acceptor' = [acceptor EXCEPT !.hears = @ \ {c}, !.linked = @ \ {c}, !.live = @ \ {c}]

\* Mutant: the server forgets its transports without disposing them.
AcceptorDispose_keepsSockets ==
    /\ ~acceptor.disposed
    /\ acceptor' = [acceptor EXCEPT !.disposed = TRUE, !.linked = {}, !.live = {}]

AcceptorDispose ==
    /\ ~acceptor.disposed
    /\ acceptor' = [acceptor EXCEPT !.disposed = TRUE, !.linked = {},
                       !.open = @ \ acceptor.live, !.live = {}]

TokenExpires ==
    /\ acceptor.token = "live"
    /\ acceptor' = [acceptor EXCEPT !.token = "expired"]

AcceptorStep(c) ==
    \/ HandshakeFails(c)
    \/ TokenChecked(c)
    \/ Accepts(c)
    \/ CloseSeen(c)

AcceptorNext ==
    \/ \E c \in Conn : Connects(c) \/ Greets(c) \/ SocketCloses(c) \/ AcceptFails(c) \/ AcceptorStep(c)
    \/ AcceptorDispose
    \/ TokenExpires

AcceptorSpec == AcceptorInit /\ [][AcceptorNext]_acceptor

\* The handshake has a timeout; promises, close events and the attestation's deadline
\* are not withheld.
AcceptorLiveSpec == AcceptorSpec /\ \A c \in Conn : WF_acceptor(AcceptorStep(c))

-----------------------------------------------------------------------------
\* "a token can bind exactly one connection" (tokenIdentityStore.ts), although several
\* connections may be past the check of the handshake with it.
TokenBindsOnce == Cardinality(acceptor.bound) <= 1

\* A link of a connection that has closed - also while it was still being checked or
\* attested - is going to be taken out of the hub.
ClosedIsUnlinked == acceptor.linked \ acceptor.open \subseteq acceptor.hears

\* A disposed acceptor has no link and takes none, wherever connections were.
DisposedUnlinks == acceptor.disposed => acceptor.linked = {}

\* After dispose every connection is closed, those in the middle of the handshake too.
DisposeClosesAll == acceptor.disposed ~> acceptor.open = {}

\* A connection becomes a link once and for as long as it lasts, wherever it, its socket
\* and the acceptor were when one of them ended.
ConnectionsAreTracked ==
    [](TokenBindsOnce /\ ClosedIsUnlinked /\ DisposedUnlinks) /\ DisposeClosesAll
=============================================================================
