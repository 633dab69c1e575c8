---------------------------- MODULE HubReconnect -----------------------------
(***************************************************************************)
(* serveOverHubWithReconnect and its prefix claimer (linkrpc,              *)
(* node/hubReconnect.ts): a participant that connects to its hub, claims   *)
(* its prefix, sets its handlers up and starts over when the socket        *)
(* closes.  On a hub that wants a capability for the claim, the claimer    *)
(* asks an issuer (a person approves) and keeps what it gets in memory and *)
(* on disk.  Capabilities do not expire here.                              *)
(***************************************************************************)
EXTENDS Naturals

CONSTANTS
    InitialRetry,   \* options.initialBackoffMs
    MaxRetry        \* options.maxBackoffMs

ASSUME RetryAssumption ==
    /\ InitialRetry \in Nat
    /\ MaxRetry \in Nat
    /\ InitialRetry <= MaxRetry

VARIABLE reconnect

\* The awaits inside the try block.
Trying == {"connecting", "register", "issuing", "persisting", "reregister", "setup"}

(***************************************************************************)
(* needsCap: the hub admits the claim only with a capability.  pc is the   *)
(* await the loop is in.  current: the variable of that name holds the     *)
(* latest handle.  registered: the hub routes the prefix to that handle.   *)
(* capLoaded, cachedCap: the claimer has read the disk, and has a          *)
(* capability.  disk: one is persisted.                                    *)
(***************************************************************************)
ReconnectType ==
    [needsCap : BOOLEAN, pc : Trying \cup {"loop", "serving", "delay", "ended"}, stopped : BOOLEAN,
     current : BOOLEAN, handle : {"none", "open", "closed"}, registered : BOOLEAN,
     capLoaded : BOOLEAN, cachedCap : BOOLEAN, disk : BOOLEAN, backoff : InitialRetry..MaxRetry]

\* An earlier process may have persisted a capability.
ReconnectInit ==
    \E needsCap, disk \in BOOLEAN :
        reconnect = [needsCap |-> needsCap, pc |-> "loop", stopped |-> FALSE, current |-> FALSE,
                     handle |-> "none", registered |-> FALSE, capLoaded |-> FALSE, cachedCap |-> FALSE,
                     disk |-> disk, backoff |-> InitialRetry]

loopAt(place) == reconnect.pc = place

\* The claimer's calls over the handle.
answeredAt(place) == loopAt(place) /\ reconnect.handle = "open"

\* current?.close(); current = undefined.  The hub drops the routes of the link.
handleClosed(r) ==
    [r EXCEPT !.handle = IF r.current THEN "closed" ELSE @,
              !.registered = @ /\ ~r.current,
              !.current = FALSE]

-----------------------------------------------------------------------------
(***************************************************************************)
(* The loop                                                                *)
(***************************************************************************)
ReconnectDials ==
    /\ loopAt("loop")
    /\ reconnect' = [reconnect EXCEPT !.pc = IF reconnect.stopped THEN "ended" ELSE "connecting"]

\* connectToHub is fulfilled.  The claimer reads the disk once.
HubConnected ==
    /\ loopAt("connecting")
    /\ reconnect' = [reconnect EXCEPT !.pc = "register", !.handle = "open", !.current = TRUE,
                                      !.registered = FALSE, !.capLoaded = TRUE,
                                      !.cachedCap = IF reconnect.capLoaded THEN @ ELSE reconnect.disk]

\* Mutant: the handle of a failed attempt stays open.
ReconnectCaught_keepsHandle ==
    /\ reconnect.pc \in Trying
    /\ reconnect' = IF reconnect.stopped
                    THEN [reconnect EXCEPT !.pc = "ended"]
                    ELSE [reconnect EXCEPT !.pc = "delay", !.current = FALSE]

\* The catch block: connecting, claiming or setup threw.
ReconnectCaught ==
    /\ reconnect.pc \in Trying
    /\ reconnect' = IF reconnect.stopped
                    THEN [reconnect EXCEPT !.pc = "ended"]
                    ELSE [handleClosed(reconnect) EXCEPT !.pc = "delay"]

SetupDone ==
    /\ loopAt("setup")
    /\ reconnect' = [reconnect EXCEPT !.pc = "serving", !.backoff = InitialRetry]

\* Mutant: the loop does not wait for an onClose that already fired.
HandleClosedSeen_missed ==
    /\ loopAt("serving") /\ reconnect.handle = "none"
    /\ UNCHANGED reconnect

\* onClose, also of a handle that was closed before the listener was added.
HandleClosedSeen ==
    /\ loopAt("serving") /\ reconnect.handle = "closed"
    /\ reconnect' = IF reconnect.stopped
                    THEN [reconnect EXCEPT !.pc = "ended"]
                    ELSE [reconnect EXCEPT !.pc = "loop", !.current = FALSE]

ReconnectDelayOver ==
    /\ loopAt("delay")
    /\ reconnect' = [reconnect EXCEPT !.pc = "loop",
                                      !.backoff = IF 2 * @ < MaxRetry THEN 2 * @ ELSE MaxRetry]

(***************************************************************************)
(* The claimer: register, and on permissionRequired get a capability first *)
(***************************************************************************)
PrefixRegistered ==
    /\ answeredAt("register")
    /\ reconnect.needsCap => reconnect.cachedCap
    /\ reconnect' = [reconnect EXCEPT !.pc = "setup", !.registered = TRUE]

PermissionRequired ==
    /\ answeredAt("register")
    /\ reconnect.needsCap /\ ~reconnect.cachedCap
    /\ reconnect' = [reconnect EXCEPT !.pc = "issuing"]

CapabilityIssued ==
    /\ answeredAt("issuing")
    /\ reconnect' = [reconnect EXCEPT !.pc = "persisting"]

\* Mutant: the capability is used but not persisted.
CapabilityPersisted_notReally ==
    /\ loopAt("persisting")
    /\ reconnect' = [reconnect EXCEPT !.pc = "reregister"]

CapabilityPersisted ==
    /\ loopAt("persisting")
    /\ reconnect' = [reconnect EXCEPT !.pc = "reregister", !.disk = TRUE]

\* The second attempt; the claimer keeps the capability that worked.
Reregistered ==
    /\ answeredAt("reregister")
    /\ reconnect' = [reconnect EXCEPT !.pc = "setup", !.registered = TRUE, !.cachedCap = TRUE]

(***************************************************************************)
(* Around it                                                               *)
(***************************************************************************)

\* The socket closes.
HandleCloses ==
    /\ reconnect.handle = "open"
    /\ reconnect' = [reconnect EXCEPT !.handle = "closed", !.registered = FALSE]

\* stop(), also as the signal's abort listener.
ReconnectStop ==
    /\ ~reconnect.stopped
    /\ reconnect' = [handleClosed(reconnect) EXCEPT !.stopped = TRUE]

ReconnectLoop ==
    \/ ReconnectDials
    \/ HubConnected
    \/ ReconnectCaught
    \/ SetupDone
    \/ HandleClosedSeen
    \/ ReconnectDelayOver
    \/ PrefixRegistered
    \/ PermissionRequired
    \/ CapabilityIssued
    \/ CapabilityPersisted
    \/ Reregistered

ReconnectNext == ReconnectLoop \/ HandleCloses \/ ReconnectStop

ReconnectSpec == ReconnectInit /\ [][ReconnectNext]_reconnect

\* Whatever the loop awaits settles, one way or the other; nobody has to close the
\* socket or call stop().
ReconnectLiveSpec == ReconnectSpec /\ WF_reconnect(ReconnectLoop)

-----------------------------------------------------------------------------
ReconnectTypeOK == reconnect \in ReconnectType

\* A redial never leaves the previous handle open behind it: the hub would keep
\* routing the prefix to a link nobody serves and refuse the new claim.
OneHandle == reconnect.handle = "open" => reconnect.pc \notin {"loop", "connecting", "delay"}

\* A capability that admitted this participant survives it: a restarted process
\* does not have to ask again.
CapSurvives == reconnect.registered /\ reconnect.needsCap => reconnect.disk /\ reconnect.cachedCap

\* Once the hub is stable (sockets stay open, calls do not fail), the prefix is
\* claimed again by a loop that has begun, after whatever went before, unless the
\* participant is stopped.
ClaimsAgain ==
    <>[][~HandleCloses /\ ~ReconnectCaught]_reconnect =>
        (~reconnect.registered /\ ~loopAt("loop") ~> reconnect.registered \/ reconnect.stopped)

\* Through every failure the participant leaves no handle behind, loses no capability and
\* comes back.
ReconnectKeepsClaim == [](ReconnectTypeOK /\ OneHandle /\ CapSurvives) /\ ClaimsAgain

\* "When the signal is aborted, the current handle is closed and the loop exits."
\* (ServeOverHubOptions.signal)
StopEndsLoop == reconnect.stopped ~> loopAt("ended")
=============================================================================
