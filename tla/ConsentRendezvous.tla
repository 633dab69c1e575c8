------------------------- MODULE ConsentRendezvous --------------------------
(***************************************************************************)
(* The consent rendezvous of the hub: requests for access are parked at    *)
(* the manifest host (engine/hubAccessManifest.ts) until somebody decides  *)
(* about them.  The terminal approver (engine/manifestApprover.ts) follows *)
(* the host by way of the ApproveClient (approval/approveClient.ts):       *)
(* coarse ticks, whole snapshots, decisions written by id.  Consumers go,  *)
(* other approvers decide, watches end, reads and writes fail or are late. *)
(***************************************************************************)
EXTENDS Naturals, Sequences, FiniteSets, SequencesExt

CONSTANTS ConsentCall,  \* calls of hubAccess
          MaxSlots,     \* bound on the slots of one call
          MaxFaults     \* bound on watches that end, reads and writes that fail

ASSUME ConsentAssumption == {MaxSlots, MaxFaults} \subseteq Nat

VARIABLE consent

ParkedEntry == ConsentCall \X (1..MaxSlots)
Decision == {"granted", "denied"}

ConsentTypeOK ==
    /\ consent.slots \in [ConsentCall -> 0..MaxSlots]
    /\ \A f \in {"pending", "snap", "view", "inFlight", "aborted", "tried", "failed"} :
           consent[f] \subseteq ParkedEntry
    /\ consent.told \in [ParkedEntry -> Decision \cup {"none", "aborted"}]
    /\ consent.acked \in [ParkedEntry -> Decision \cup {"none"}]
    /\ consent.late \subseteq ParkedEntry \X Decision
    /\ \A f \in {"tick", "retry", "refreshPending", "behind", "disposed"} : consent[f] \in BOOLEAN
    /\ consent.watch \in {"down", "opening", "up"}
    /\ consent.drain \in {"idle", "asking", "answered", "leaving"}
    /\ consent.queue \in Seq(ParkedEntry)
    /\ consent.step \in {"idle", "resolving", "prompting", "minting", "writing", "accepted", "refused", "refreshing"}
    /\ consent.verdict \in Decision
    /\ consent.faults \in 0..MaxFaults

\* The constructor has opened the watch and asked for the first snapshot.
ConsentInit ==
    consent = [slots |-> [c \in ConsentCall |-> 0], pending |-> {}, told |-> [e \in ParkedEntry |-> "none"],
               tick |-> FALSE, watch |-> "opening", retry |-> FALSE, refreshPending |-> FALSE,
               drain |-> "asking", behind |-> TRUE, snap |-> {}, view |-> {},
               disposed |-> FALSE, queue |-> << >>, inFlight |-> {}, aborted |-> {}, tried |-> {}, failed |-> {},
               step |-> "idle", verdict |-> "denied", acked |-> [e \in ParkedEntry |-> "none"],
               late |-> {}, faults |-> 0]

-----------------------------------------------------------------------------
(* The host.                                                               *)

entriesOf(c) == {c} \X (1..consent.slots[c])

\* _bump: ticks on the watch; several on their way are as good as one.
bumped(s) == [s EXCEPT !.tick = @ \/ s.watch = "up"]

\* hubAccess::request, extend and requestAccess: all slots of a call are parked at once.
CallParked(c, n) ==
    /\ consent.slots[c] = 0
    /\ consent' = bumped([consent EXCEPT !.slots[c] = n, !.pending = @ \cup ({c} \X (1..n))])

\* Mutant: the entries of a consumer that has left stay pending.
unparked_aborted(s, es, how) ==
    [s EXCEPT !.pending = IF how = "aborted" THEN @ ELSE @ \ es,
              !.told = [e \in ParkedEntry |-> IF e \in es THEN how ELSE @[e]]]

\* settle and abort of _park
unparked(s, es, how) ==
    [s EXCEPT !.pending = @ \ es, !.told = [e \in ParkedEntry |-> IF e \in es THEN how ELSE @[e]]]

CallAborted(c) ==
    /\ entriesOf(c) \cap consent.pending # {}
    /\ consent' = bumped(unparked(consent, entriesOf(c) \cap consent.pending, "aborted"))

\* Another approver's decision, or one of this approver's that comes after its timeout.
OtherDecides(e, how) ==
    /\ e \in consent.pending
    /\ consent' = bumped(unparked(consent, {e}, how))

LateWriteArrives(e, how) ==
    /\ <<e, how>> \in consent.late
    /\ LET s == [consent EXCEPT !.late = @ \ {<<e, how>>}]
       IN consent' = IF e \in consent.pending THEN bumped(unparked(s, {e}, how)) ELSE s

-----------------------------------------------------------------------------
(* The ApproveClient.                                                      *)

asks(s) ==
    [s EXCEPT !.drain = "asking", !.refreshPending = FALSE, !.snap = {}, !.behind = s.watch = "opening"]

\* refresh(): starts the loop, or leaves a note for the one that runs.
refreshed(s) ==
    IF s.disposed THEN s ELSE IF s.drain = "idle" THEN asks(s) ELSE [s EXCEPT !.refreshPending = TRUE]

HostSubscribes ==
    /\ consent.watch = "opening"
    /\ consent' = [consent EXCEPT !.watch = "up"]

TickArrives ==
    /\ consent.tick
    /\ consent' = refreshed([consent EXCEPT !.tick = FALSE])

\* Messages are handled in order: a read that was sent after the watch is answered after it.
HostAnswers ==
    /\ consent.drain = "asking"
    /\ consent.behind => consent.watch # "opening"
    /\ consent' = [consent EXCEPT !.drain = "answered", !.behind = FALSE, !.snap = consent.pending]

\* The condition of the loop in _drainRefreshes.
looped(s) == IF s.refreshPending /\ ~s.disposed THEN asks(s) ELSE [s EXCEPT !.drain = "leaving", !.snap = {}]

\* Mutant: entries that are being handled are queued again.
shown_again(s) ==
    LET new == s.view
    IN [s EXCEPT !.aborted = (@ \cup (s.inFlight \ s.view)) \ new, !.inFlight = @ \cup new,
                 !.queue = @ \o SetToSeq(new), !.failed = @ \ new]

\* The autorun of runManifestApprover.
shown(s) ==
    LET new == s.view \ s.inFlight
    IN [s EXCEPT !.aborted = (@ \cup (s.inFlight \ s.view)) \ new, !.inFlight = @ \cup new,
                 !.queue = @ \o SetToSeq(new), !.failed = @ \ new]

ReadArrives ==
    /\ consent.drain = "answered"
    /\ consent' = IF consent.disposed THEN [consent EXCEPT !.drain = "leaving", !.snap = {}]
                  ELSE looped(shown([consent EXCEPT !.view = consent.snap]))

ReadFails ==
    /\ consent.drain \in {"asking", "answered"}
    /\ consent.faults < MaxFaults
    /\ LET s == [consent EXCEPT !.faults = @ + 1]
       IN consent' = IF consent.disposed THEN [s EXCEPT !.drain = "leaving", !.snap = {}]
                     ELSE looped([s EXCEPT !.retry = TRUE])

\* Mutant: what came between the end of the loop and its promise is forgotten.
DrainLeft_forgets ==
    /\ consent.drain = "leaving"
    /\ consent' = [consent EXCEPT !.drain = "idle"]

\* The promise of the loop is cleared; who called refresh meanwhile calls it again.
DrainLeft ==
    /\ consent.drain = "leaving"
    /\ LET s == [consent EXCEPT !.drain = "idle"]
       IN consent' = IF consent.refreshPending THEN refreshed(s) ELSE s

\* Mutant: the end of a watch goes unnoticed.
watchLost_silently(s) == [s EXCEPT !.watch = "down", !.tick = FALSE]

\* _watchEnded
watchLost(s) == [s EXCEPT !.watch = "down", !.tick = FALSE, !.retry = TRUE]

WatchEndsEarly ==
    /\ consent.watch # "down" /\ ~consent.disposed
    /\ consent.faults < MaxFaults
    /\ consent' = watchLost([consent EXCEPT !.faults = @ + 1])

\* The timer of _scheduleReconnect.
ReconnectFires ==
    /\ consent.retry
    /\ consent' = refreshed([consent EXCEPT !.retry = FALSE,
                                            !.watch = IF @ = "down" THEN "opening" ELSE @])

-----------------------------------------------------------------------------
(* The approver: one prompt after the other.                               *)

currentEntry == Head(consent.queue)

\* The finally of processEntry.
finished(s) ==
    [s EXCEPT !.step = "idle", !.verdict = "denied", !.queue = Tail(@), !.inFlight = @ \ {currentEntry},
              !.aborted = @ \ {currentEntry}, !.tried = @ \cup {currentEntry}]

EntryTaken ==
    /\ consent.step = "idle" /\ consent.queue # << >>
    /\ consent' = IF currentEntry \in consent.aborted THEN finished(consent)
                  ELSE [consent EXCEPT !.step = "resolving"]

\* ApproveClient.decide: only what is in the snapshot.
decided(s, how) ==
    IF currentEntry \in s.view THEN [s EXCEPT !.step = "writing", !.verdict = how] ELSE finished(s)

\* resolveEntry: no candidate service, or a prompt.
NoCandidate ==
    /\ consent.step = "resolving"
    /\ consent' = decided(consent, "denied")

Prompts ==
    /\ consent.step = "resolving"
    /\ consent' = IF currentEntry \in consent.aborted THEN finished(consent)
                  ELSE [consent EXCEPT !.step = "prompting"]

PromptAnswered(how) ==
    /\ consent.step = "prompting"
    /\ consent' = IF currentEntry \in consent.aborted THEN finished(consent)
                  ELSE IF how = "granted" THEN [consent EXCEPT !.step = "minting"]
                  ELSE decided(consent, "denied")

Minted ==
    /\ consent.step = "minting"
    /\ consent' = decided(consent, "granted")

\* The directory cannot be fetched, the prompt throws, or nothing can be minted: the entry is
\* logged, leaves the queue undecided, and nobody comes back to it before the next snapshot.
EntryFails ==
    /\ consent.step \in {"resolving", "prompting", "minting"} /\ consent.faults < MaxFaults
    /\ consent' = finished([consent EXCEPT !.faults = @ + 1, !.failed = @ \cup {currentEntry}])

\* Mutant: a decision about an entry that is gone is accepted as well.
WriteArrives_accepts ==
    /\ consent.step = "writing"
    /\ consent' = IF currentEntry \in consent.pending
                  THEN [bumped(unparked(consent, {currentEntry}, consent.verdict)) EXCEPT !.step = "accepted"]
                  ELSE [consent EXCEPT !.step = "accepted"]

\* setCurrent at the host: an entry that is no longer pending is an error.
WriteArrives ==
    /\ consent.step = "writing"
    /\ consent' = IF currentEntry \in consent.pending
                  THEN [bumped(unparked(consent, {currentEntry}, consent.verdict)) EXCEPT !.step = "accepted"]
                  ELSE [consent EXCEPT !.step = "refused"]

WriteTimesOut ==
    /\ consent.step \in {"writing", "accepted"}
    /\ consent.faults < MaxFaults
    /\ consent' = finished([consent EXCEPT !.faults = @ + 1, !.failed = @ \cup {currentEntry},
                                           !.late = @ \cup (IF consent.step = "writing" THEN {<<currentEntry, consent.verdict>>} ELSE {})])

WriteAnswered ==
    \/ /\ consent.step = "refused"
       /\ consent' = finished(consent)
    \/ /\ consent.step = "accepted"
       /\ consent' = refreshed([consent EXCEPT !.step = "refreshing", !.acked[currentEntry] = consent.verdict])

DecideReturns ==
    /\ consent.step = "refreshing"
    /\ consent.drain = "idle"
    /\ consent' = finished(consent)

ApproverDisposed ==
    /\ ~consent.disposed
    /\ consent' = [consent EXCEPT !.disposed = TRUE, !.aborted = @ \cup consent.inFlight,
                                  !.watch = "down", !.tick = FALSE, !.retry = FALSE]

ClientSteps ==
    \/ HostSubscribes \/ TickArrives \/ HostAnswers \/ ReadArrives \/ DrainLeft \/ ReconnectFires

ApproverSteps ==
    \/ EntryTaken \/ NoCandidate \/ Prompts \/ (\E how \in Decision : PromptAnswered(how))
    \/ Minted \/ WriteArrives \/ WriteAnswered \/ DecideReturns

ConsentNext ==
    \/ \E c \in ConsentCall : CallAborted(c) \/ \E n \in 1..MaxSlots : CallParked(c, n)
    \/ \E e \in ParkedEntry, how \in Decision : OtherDecides(e, how) \/ LateWriteArrives(e, how)
    \/ ClientSteps \/ ApproverSteps
    \/ ReadFails \/ WatchEndsEarly \/ EntryFails \/ WriteTimesOut \/ ApproverDisposed

\* Messages arrive, timers fire, tasks go on, and the operator answers.
ConsentSpec ==
    ConsentInit /\ [][ConsentNext]_consent /\ WF_consent(ClientSteps) /\ WF_consent(ApproverSteps)

-----------------------------------------------------------------------------
\* Whoever decides first decides: a decision that was accepted, before the write of another
\* approver, a retry or a consumer that leaves, is the one the consumer is told; and an entry
\* is shown exactly as long as its consumer waits for it.
DecisionIsExclusive ==
    /\ \A e \in ParkedEntry : consent.acked[e] # "none" => consent.told[e] = consent.acked[e]
    /\ consent.pending = {e \in UNION {entriesOf(c) : c \in ConsentCall} : consent.told[e] = "none"}

\* "older reads cannot overwrite newer state" and "a change during getDesired schedules
\* another pass instead of being lost" (approveClient.ts:36-37, 71-72): a snapshot that is not what
\* is pending is about to be replaced.
SnapshotIsFresh ==
    LET seen == IF consent.drain = "answered" THEN consent.snap ELSE consent.view
    IN ~consent.disposed /\ consent.drain # "asking" /\ seen # consent.pending
       => consent.tick \/ consent.refreshPending \/ consent.retry

\* "Prompts run serially" (manifestApprover.ts:18-19): an entry waits in the queue at most once, and every entry of the
\* snapshot is in it unless it was dealt with before.
QueuedOnce ==
    /\ \A i, j \in DOMAIN consent.queue : consent.queue[i] = consent.queue[j] => i = j
    /\ Range(consent.queue) = consent.inFlight
    /\ consent.disposed \/ consent.view \subseteq consent.inFlight \cup consent.tried

\* Every parked request is put to the operator, unless it is settled before, or the approver's own
\* attempt at it fails (the catch and the finally at manifestApprover.ts:192-196), which ends it until
\* the next snapshot brings it back: then it is asked again, whatever else ends or fails in between.
EveryRequestIsAsked ==
    \A e \in ParkedEntry :
        e \in consent.pending ~> \/ e \notin consent.pending \/ consent.disposed
                                 \/ consent.step = "prompting" /\ e = currentEntry
                                 \/ e \in consent.failed

\* Every parked request gets to a person who decides it once, on what is pending then.
ConsentIsReached ==
    [](ConsentTypeOK /\ DecisionIsExclusive /\ SnapshotIsFresh /\ QueuedOnce) /\ EveryRequestIsAsked
=============================================================================
