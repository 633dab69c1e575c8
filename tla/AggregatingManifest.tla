------------------------ MODULE AggregatingManifest -------------------------
(***************************************************************************)
(* The aggregate of the access manifests found in a hub                    *)
(* (approval/aggregatingManifest.ts, progressive as createHubApprovalClient *)
(* of approval/approval.ts uses it): one of its sources, seen through the  *)
(* directory, its watch and its cached entries; the consumer that reads    *)
(* the aggregate; and a decision that is written through it.  Sources are  *)
(* independent of each other: ids are prefixed with the source's tag.      *)
(***************************************************************************)
EXTENDS Naturals, FiniteSets

CONSTANTS ManifestEntry,   \* requests that are parked at the source in the course of time
          MaxMergeFaults   \* bound on reads that fail and watches that end

ASSUME MergeAssumption == MaxMergeFaults \in Nat

VARIABLE merge

MergeTypeOK ==
    /\ \A f \in {"listed", "watched", "tick", "retry", "reread", "behind", "settled", "failed", "lost",
                 "changed", "emitted", "same", "missed"} : merge[f] \in BOOLEAN
    /\ \A f \in {"unused", "doc", "snap", "cache", "view", "done", "writing"} : merge[f] \subseteq ManifestEntry
    /\ merge.orphans \subseteq SUBSET ManifestEntry
    /\ merge.call \in {"down", "opening", "up"}
    /\ merge.read \in {"none", "asking", "answered", "leaving"}
    /\ merge.decide \in {"none", "sent", "reading"}
    /\ merge.faults \in 0..MaxMergeFaults

\* view: what the consumer's last getDesired returned.  failed: the last read did.  lost: a
\* read was asked for after the loop of the last one had ended, and before its promise was
\* cleared.  same: the source that the decision is sent to is still the incarnation that is
\* watched.  missed: it was another one when the decision had been taken.  done: decisions
\* whose setCurrent has returned, unless their read was lost or they were missed.
MergeInit ==
    merge = [listed |-> FALSE, unused |-> ManifestEntry, doc |-> {}, watched |-> FALSE, call |-> "down",
             tick |-> FALSE, retry |-> FALSE, read |-> "none", snap |-> {}, reread |-> FALSE, behind |-> FALSE,
             settled |-> FALSE, cache |-> {}, failed |-> FALSE, lost |-> FALSE, orphans |-> {},
             changed |-> FALSE, emitted |-> FALSE, view |-> {}, decide |-> "none", writing |-> {}, done |-> {},
             same |-> TRUE, missed |-> FALSE, faults |-> 0]

-----------------------------------------------------------------------------
(* The source and the directory.                                           *)

sourceTicked(s) == [s EXCEPT !.tick = @ \/ s.call = "up"]

SourceListed ==
    /\ merge' = [merge EXCEPT !.listed = ~@, !.changed = TRUE]

EntryParked(e) ==
    /\ e \in merge.unused
    /\ merge' = sourceTicked([merge EXCEPT !.unused = @ \ {e}, !.doc = @ \cup {e}])

EntrySettled(e) ==
    /\ e \in merge.doc
    /\ merge' = sourceTicked([merge EXCEPT !.doc = @ \ {e}])

\* directoryChanged
DirectoryTells ==
    /\ merge.changed
    /\ merge' = [merge EXCEPT !.changed = FALSE, !.emitted = TRUE]

-----------------------------------------------------------------------------
(* Reading a source.                                                       *)

readAsked(s) ==
    [s EXCEPT !.read = "asking", !.reread = FALSE, !.lost = FALSE, !.snap = {}, !.behind = s.call = "opening"]

\* Mutant: a read that is running is taken for enough.
readInto_joins(s) == IF s.read = "none" THEN readAsked(s) ELSE s

readInto(s) ==
    IF s.read = "none" THEN readAsked(s) ELSE [s EXCEPT !.reread = TRUE, !.lost = s.read = "leaving"]

SourceSubscribes ==
    /\ merge.call = "opening"
    /\ merge' = [merge EXCEPT !.call = "up"]

SourceTicks ==
    /\ merge.tick
    /\ merge' = readInto([merge EXCEPT !.tick = FALSE])

SourceAnswers ==
    /\ merge.read = "asking"
    /\ merge.behind => merge.call # "opening"
    /\ merge' = [merge EXCEPT !.read = "answered", !.snap = merge.doc, !.behind = FALSE]

\* Mutant: no change is reported for a source that was not read before.
cached_silently(s, entries) ==
    LET t == [s EXCEPT !.cache = entries, !.settled = TRUE, !.emitted = @ \/ (s.settled /\ entries # s.cache)]
    IN IF s.reread THEN readAsked(t) ELSE [t EXCEPT !.read = "leaving", !.snap = {}]

\* One turn of the loop in _readInto, once the read is back.
cached(s, entries) ==
    LET t == [s EXCEPT !.cache = entries, !.settled = TRUE, !.emitted = @ \/ ~s.settled \/ entries # s.cache]
    IN IF s.reread THEN readAsked(t) ELSE [t EXCEPT !.read = "leaving", !.snap = {}]

SourceRead ==
    /\ merge.read = "answered"
    /\ merge' = cached([merge EXCEPT !.failed = FALSE], merge.snap)

\* "A failed read drops the source's entries rather than serving stale ones."
SourceReadFails ==
    /\ merge.read \in {"asking", "answered"}
    /\ merge.faults < MaxMergeFaults
    /\ merge' = cached([merge EXCEPT !.failed = TRUE, !.faults = @ + 1], {})

\* The promise of the read is cleared.
SourceReadLeft ==
    /\ merge.read = "leaving"
    /\ merge' = [merge EXCEPT !.read = "none"]

\* Mutant: a read of a watch that was closed still fills the cache.
OrphanRead_kept(entries) ==
    /\ entries \in merge.orphans
    /\ merge' = [merge EXCEPT !.orphans = @ \ {entries}, !.cache = IF merge.watched THEN entries ELSE @]

\* The read of a watch that was closed comes back: it is no longer the watch of the tag.
OrphanRead(entries) ==
    /\ entries \in merge.orphans
    /\ merge' = [merge EXCEPT !.orphans = @ \ {entries}]

-----------------------------------------------------------------------------
(* The watch of a source.                                                  *)

\* Mutant: the watch is opened again without a read.
ManifestRetryFires_only ==
    /\ merge.retry
    /\ merge' = [merge EXCEPT !.retry = FALSE, !.call = "opening"]

\* The timer of _watchEnded: _startWatch and _sourceChanged.
ManifestRetryFires ==
    /\ merge.retry
    /\ merge' = readInto([merge EXCEPT !.retry = FALSE, !.call = "opening"])

ManifestWatchEnds ==
    /\ merge.call # "down"
    /\ merge.faults < MaxMergeFaults
    /\ merge' = [merge EXCEPT !.call = "down", !.tick = FALSE, !.retry = TRUE, !.faults = @ + 1]

opened(s) == readInto([s EXCEPT !.watched = TRUE, !.call = "opening", !.emitted = TRUE])

\* _closeWatch: the entries go with the watch, and its read is on its own.
closedWatch(s) ==
    [s EXCEPT !.watched = FALSE, !.call = "down", !.tick = FALSE, !.retry = FALSE, !.settled = FALSE,
              !.cache = {}, !.failed = FALSE, !.lost = FALSE, !.read = "none", !.reread = FALSE,
              !.behind = FALSE, !.snap = {}, !.same = FALSE,
              !.orphans = IF s.read \in {"asking", "answered"} THEN @ \cup {s.snap} ELSE @,
              !.emitted = @ \/ s.cache # {}]

\* _doRefresh
sourcesRefreshed(s) ==
    IF s.listed /\ ~s.watched THEN opened(s)
    ELSE IF ~s.listed /\ s.watched THEN closedWatch(s)
    ELSE s

-----------------------------------------------------------------------------
(* The consumer.                                                           *)

\* It was told of a change and reads the aggregate: the sources are resolved anew and the
\* cached entries are returned.
AggregateRead ==
    /\ merge.emitted
    /\ LET s == sourcesRefreshed([merge EXCEPT !.emitted = FALSE])
       IN merge' = [s EXCEPT !.view = s.cache]

\* setCurrent of the aggregate, routed to the source.
DecisionSent(e) ==
    /\ merge.decide = "none" /\ e \in merge.view /\ merge.watched
    /\ merge' = [merge EXCEPT !.decide = "sent", !.writing = {e}, !.same = TRUE, !.missed = FALSE]

\* Mutant: the source is not read again.
decisionTaken_unread(s) == [s EXCEPT !.decide = "reading"]

\* What follows the await of the source's setCurrent: the source is read again if it is still
\* the one that is watched.
decisionTaken(s) ==
    LET t == [s EXCEPT !.decide = "reading"]
    IN  IF s.watched /\ s.same THEN readInto(t) ELSE [t EXCEPT !.missed = s.watched]

\* The source's setCurrent answers (an entry that is not pending is an error), or never does.
DecisionAnswered ==
    \/ /\ merge.decide = "sent" /\ merge.writing \subseteq merge.doc
       /\ merge' = decisionTaken(sourceTicked([merge EXCEPT !.doc = @ \ merge.writing]))
    \/ /\ merge.decide = "sent"
       /\ merge' = [merge EXCEPT !.decide = "none", !.writing = {}]

\* The await of _readInto is over, and with it setCurrent.
DecisionReturns ==
    /\ merge.decide = "reading" /\ merge.read \in {"leaving", "none"}
    /\ merge' = [merge EXCEPT !.decide = "none", !.writing = {},
                                 !.done = IF merge.lost \/ merge.missed THEN @ ELSE @ \cup merge.writing]

MergeNext ==
    \/ SourceListed \/ DirectoryTells
    \/ \E e \in ManifestEntry : EntryParked(e) \/ EntrySettled(e) \/ DecisionSent(e)
    \/ SourceSubscribes \/ SourceTicks \/ SourceAnswers \/ SourceRead \/ SourceReadFails \/ SourceReadLeft
    \/ \E entries \in merge.orphans : OrphanRead(entries)
    \/ ManifestRetryFires \/ ManifestWatchEnds
    \/ AggregateRead \/ DecisionAnswered \/ DecisionReturns

-----------------------------------------------------------------------------
\* "the cache always ends up at least as fresh as the latest request"
\* (aggregatingManifest.ts:235-236): a cache that is not what is parked at the source is about
\* to be read again, whatever came in between - except after a read that failed, which is
\* repeated only with the next tick, and after a request that fell into the gap at the end of
\* a read.
CacheIsFresh ==
    merge.watched /\ ~merge.failed /\ ~merge.lost /\ merge.read \in {"none", "leaving"} /\ merge.cache # merge.doc
    => merge.tick \/ merge.retry

\* A consumer whose document is not what the aggregate would return has been told so.
ConsumerIsTold ==
    /\ merge.view # merge.cache => merge.emitted
    /\ merge.listed # merge.watched => merge.changed \/ merge.emitted

\* "The caller's next getDesired must reflect the decision it just wrote"
\* (aggregatingManifest.ts:357), and so must all later ones - except after a read that fell
\* into the same gap, and after a decision whose source went and came back while it was being
\* written: that is not read again then (359), but with its next tick.
DecisionIsReflected ==
    merge.done \cap merge.cache = {}

\* The merged manifest follows its sources, its consumer follows it, and decisions last.
AggregateIsCurrent == MergeTypeOK /\ CacheIsFresh /\ ConsumerIsTold /\ DecisionIsReflected
=============================================================================
