-------------------------- MODULE RustMultiplexer ---------------------------
(***************************************************************************)
(* The multiplexed transport of the Rust implementation                    *)
(* (transport/multiplexed.rs), used from several threads: whoever adds     *)
(* channels, the pump, the channels' readers and owners, and whoever       *)
(* disposes.  Its state is behind three locks (`disposed`, `used`, `live`) *)
(* that are taken one after the other; every step is one of those critical *)
(* sections.                                                               *)
(***************************************************************************)
EXTENDS Naturals, FiniteSets

CONSTANTS MuxAdder,    \* threads that add a channel each
          MuxId,       \* channel ids
          MaxBuffered  \* bound on a channel's buffer

NoAdder == "none"

ASSUME MuxAssumption ==
    MaxBuffered \in Nat /\ NoAdder \notin MuxAdder /\ "ended" \notin MuxAdder

VARIABLE mux

MuxTypeOK ==
    /\ mux.adder \in [MuxAdder -> {"idle", "allowed", "reserved", "made", "refused"}]
    /\ mux.id \in [MuxAdder -> MuxId]
    /\ mux.used \subseteq MuxId
    /\ mux.live \in [MuxId -> MuxAdder \cup {NoAdder}]
    /\ mux.pump \in MuxAdder \cup {NoAdder, "ended"}
    /\ mux.state \in {"active", "disposed", "cleared"}
    /\ mux.closed \subseteq MuxAdder /\ mux.rxClosed \subseteq MuxAdder /\ mux.reading \subseteq MuxAdder
    /\ mux.ended \subseteq MuxAdder /\ mux.overlapped \subseteq MuxAdder
    /\ mux.buffer \in [MuxAdder -> 0..MaxBuffered]

\* The owner of a channel is called after the thread that added it.
MuxInit ==
    \E id \in [MuxAdder -> MuxId] :
        mux = [adder |-> [k \in MuxAdder |-> "idle"], id |-> id, used |-> {},
               live |-> [i \in MuxId |-> NoAdder], pump |-> NoAdder, state |-> "active",
               closed |-> {}, rxClosed |-> {}, reading |-> {}, ended |-> {}, overlapped |-> {},
               buffer |-> [k \in MuxAdder |-> 0]]

muxChannel(k) == mux.adder[k] = "made"

-----------------------------------------------------------------------------
(* create_channel, lock by lock.                                           *)

AddAllowed(k) ==
    /\ mux.adder[k] = "idle"
    /\ mux' = [mux EXCEPT !.adder[k] = IF mux.state = "active" THEN "allowed" ELSE "refused"]

\* Mutant: ids that are not live may be used again.
AddReserved_reuses(k) ==
    /\ mux.adder[k] = "allowed"
    /\ mux' = IF mux.live[mux.id[k]] # NoAdder
              THEN [mux EXCEPT !.adder[k] = "refused"]
              ELSE [mux EXCEPT !.adder[k] = "reserved", !.used = @ \cup {mux.id[k]}]

AddReserved(k) ==
    /\ mux.adder[k] = "allowed"
    /\ mux' = IF mux.id[k] \in mux.used
              THEN [mux EXCEPT !.adder[k] = "refused"]
              ELSE [mux EXCEPT !.adder[k] = "reserved", !.used = @ \cup {mux.id[k]}]

AddInserted(k) ==
    /\ mux.adder[k] = "reserved"
    /\ mux' = [mux EXCEPT !.adder[k] = "made", !.live[mux.id[k]] = k]

-----------------------------------------------------------------------------
(* The pump: route_next copies the sender under the lock and sends outside *)
(* of it, so that the channel may be retired in between.                   *)

RouteTakes(i) ==
    /\ mux.pump = NoAdder
    /\ mux' = [mux EXCEPT !.pump = mux.live[i]]

RouteSends ==
    /\ mux.pump \in MuxAdder
    /\ mux.buffer[mux.pump] < MaxBuffered
    /\ mux' = [mux EXCEPT !.pump = NoAdder,
                          !.buffer[mux.pump] = IF mux.pump \in mux.rxClosed THEN @ ELSE @ + 1]

\* The base has closed: run() ends, having disposed of the multiplexer (below).
PumpEnds ==
    /\ mux.pump = NoAdder /\ mux.state = "cleared"
    /\ mux' = [mux EXCEPT !.pump = "ended"]

\* dispose(), by the pump at the close of the base or by the owner.
MuxDisposed ==
    /\ mux.state = "active"
    /\ mux' = [mux EXCEPT !.state = "disposed",
                          !.overlapped = {k \in MuxAdder : mux.adder[k] \in {"allowed", "reserved"}}]

\* Mutant: the senders stay.
MuxCleared_keeps ==
    /\ mux.state = "disposed"
    /\ mux' = [mux EXCEPT !.state = "cleared"]

MuxCleared ==
    /\ mux.state = "disposed"
    /\ mux' = [mux EXCEPT !.state = "cleared", !.live = [i \in MuxId |-> NoAdder]]

-----------------------------------------------------------------------------
(* A channel.                                                              *)

\* recv holds the receiver's lock until there is a message, or no sender any more.
RecvStarts(k) ==
    /\ muxChannel(k) /\ k \notin mux.reading \cup mux.ended
    /\ mux' = [mux EXCEPT !.reading = @ \cup {k}]

RecvYields(k) ==
    /\ k \in mux.reading
    /\ mux.buffer[k] > 0
    /\ mux' = [mux EXCEPT !.reading = @ \ {k}, !.buffer[k] = @ - 1]

senderless(k) == mux.pump # k /\ mux.live[mux.id[k]] # k

RecvEnds(k) ==
    /\ k \in mux.reading
    /\ mux.buffer[k] = 0 /\ (senderless(k) \/ k \in mux.rxClosed)
    /\ mux' = [mux EXCEPT !.reading = @ \ {k}, !.ended = @ \cup {k}]

\* Mutant: the channel stays in `live`.
ChannelDisposed_live(k) ==
    /\ muxChannel(k) /\ k \notin mux.closed
    /\ mux' = [mux EXCEPT !.closed = @ \cup {k}]

\* MuxChannel::dispose, and Drop without the close of the receiver: retired by id; the
\* receiver is closed too unless a recv holds its lock.
ChannelDisposed(k) ==
    /\ muxChannel(k) /\ k \notin mux.closed
    /\ mux' = [mux EXCEPT !.closed = @ \cup {k}, !.live[mux.id[k]] = NoAdder,
                          !.rxClosed = IF k \in mux.reading THEN @ ELSE @ \cup {k}]

MuxNext ==
    \/ \E k \in MuxAdder :
        \/ AddAllowed(k) \/ AddReserved(k) \/ AddInserted(k)
        \/ RecvStarts(k) \/ RecvYields(k) \/ RecvEnds(k) \/ ChannelDisposed(k)
    \/ \E i \in MuxId : RouteTakes(i)
    \/ RouteSends \/ PumpEnds \/ MuxDisposed \/ MuxCleared

-----------------------------------------------------------------------------
\* "A channel id, once used, is retired forever" (multiplexed.rs:10), whichever threads add
\* channels at the same time: a late message is never for another channel of the same id.
IdsAreRetired ==
    \A j, k \in MuxAdder : muxChannel(j) /\ muxChannel(k) /\ mux.id[j] = mux.id[k] => j = k

\* Once the multiplexer, or a channel, is disposed of, nothing but a message on its way
\* keeps a reader waiting - except in a channel that was being added at the same time.
ReadersAreReleased ==
    \A k \in MuxAdder :
        /\ k \in mux.closed => mux.live[mux.id[k]] # k
        /\ mux.state = "cleared" /\ k \notin mux.overlapped => mux.live[mux.id[k]] # k

\* An id names one channel only, and the end of a channel or of the multiplexer frees its reader.
MultiplexerIsTidy == MuxTypeOK /\ IdsAreRetired /\ ReadersAreReleased
=============================================================================
