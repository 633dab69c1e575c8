------------------------------ MODULE RootWatch -----------------------------
(***************************************************************************)
(* A watcher of the graph source (graph/rootWatch.ts): every root that is  *)
(* published is retained, sent, and released some time after its           *)
(* successor was sent, by a timer, by the client's hint or because too     *)
(* many are kept.  Operations run one after the other in a promise chain   *)
(* and await; the end of the watch does not wait for them.                 *)
(***************************************************************************)
EXTENDS Naturals, Sequences, FiniteSets, SequencesExt

CONSTANTS GraphRoot,      \* roots that are published
          NoRoot,
          MaxSuperseded,  \* options.maxSuperseded
          MaxOffer,       \* bound on offers
          MaxRootOps      \* bound on queued operations

ASSUME RootWatchAssumption == NoRoot \notin GraphRoot /\ {MaxSuperseded, MaxOffer} \subseteq Nat

VARIABLE rootWatch

Version == 1..MaxOffer
SendOp == [kind |-> "send", version |-> 0]

RootWatchTypeOK ==
    /\ rootWatch.published \in GraphRoot \cup {NoRoot} /\ rootWatch.wanted \in GraphRoot \cup {NoRoot}
    /\ rootWatch.queue \in Seq([kind : {"send", "accept", "release"}, version : 0..MaxOffer])
    /\ rootWatch.step \in {"idle", "retaining", "sending", "releasing"}
    /\ rootWatch.ref \in GraphRoot \cup {NoRoot}
    /\ rootWatch.todo \in Seq(Version) /\ rootWatch.retained \in Seq(Version)
    /\ rootWatch.offered \in [Version -> GraphRoot \cup {NoRoot}]
    /\ rootWatch.issued \in 0..MaxOffer
    /\ rootWatch.timers \subseteq Version /\ rootWatch.sent \subseteq Version
    /\ rootWatch.disposals \in [Version -> Nat]
    /\ rootWatch.settled \in BOOLEAN

\* A version stands for its offer and the lease of that offer.
RootWatchInit ==
    rootWatch = [published |-> NoRoot, wanted |-> NoRoot, queue |-> << >>, step |-> "idle", ref |-> NoRoot,
                 todo |-> << >>, retained |-> << >>, offered |-> [v \in Version |-> NoRoot], issued |-> 0,
                 timers |-> {}, sent |-> {}, disposals |-> [v \in Version |-> 0], settled |-> FALSE]

\* _enqueue
enqueued(s, op) == IF s.settled THEN s ELSE [s EXCEPT !.queue = Append(@, op)]

leasesDisposed(s, vs) == [s EXCEPT !.disposals = [v \in Version |-> IF v \in vs THEN @[v] + 1 ELSE @[v]]]

indexOf(s, v) == CHOOSE i \in DOMAIN s.retained : s.retained[i] = v

newest(s) == IF s.retained = << >> THEN NoRoot ELSE s.offered[Last(s.retained)]

-----------------------------------------------------------------------------
\* publish, and offer of the watcher; watch() itself offers what was published before it.
PublishRoot(ref) ==
    /\ Len(rootWatch.queue) < MaxRootOps
    /\ LET s == [rootWatch EXCEPT !.published = ref]
       IN rootWatch' = IF rootWatch.settled THEN s ELSE enqueued([s EXCEPT !.wanted = ref], SendOp)

\* Mutant: leases are left with the watcher.
watchFinished_keeps(s) ==
    IF s.settled THEN s ELSE [s EXCEPT !.settled = TRUE, !.retained = << >>, !.timers = {}, !.wanted = NoRoot]

\* _finish
watchFinished(s) ==
    IF s.settled THEN s
    ELSE [leasesDisposed(s, Range(s.retained)) EXCEPT
            !.settled = TRUE, !.retained = << >>, !.timers = {}, !.wanted = NoRoot]

RootWatchAborted ==
    /\ ~rootWatch.settled
    /\ rootWatch' = watchFinished(rootWatch)

operationOver(s) == [s EXCEPT !.step = "idle", !.ref = NoRoot, !.todo = << >>]

releasing(s, versions) ==
    IF versions = << >> THEN operationOver(s) ELSE [s EXCEPT !.step = "releasing", !.ref = NoRoot, !.todo = versions]

-----------------------------------------------------------------------------
(* _sendWanted                                                             *)

wantedTaken(s) ==
    LET t == [s EXCEPT !.wanted = NoRoot]
    IN IF s.settled \/ s.wanted = NoRoot \/ s.wanted = newest(s) THEN t
       ELSE [t EXCEPT !.step = "retaining", !.ref = s.wanted]

SendWanted ==
    /\ rootWatch.step = "idle" /\ rootWatch.queue # << >> /\ Head(rootWatch.queue).kind = "send"
    /\ rootWatch' = wantedTaken([rootWatch EXCEPT !.queue = Tail(@)])

\* Mutant: whether the watch has ended is not looked at.
ClosureRetained_unchecked ==
    /\ rootWatch.step = "retaining" /\ rootWatch.issued < MaxOffer
    /\ LET v == rootWatch.issued + 1
       IN rootWatch' = [rootWatch EXCEPT !.issued = v, !.offered[v] = rootWatch.ref,
                                         !.retained = Append(@, v), !.step = "sending"]

\* Mutant: the offers before it are released before the new one was sent.
ClosureRetained_early ==
    /\ rootWatch.step = "retaining" /\ rootWatch.issued < MaxOffer
    /\ LET v == rootWatch.issued + 1
           s == [rootWatch EXCEPT !.issued = v, !.offered[v] = rootWatch.ref]
       IN rootWatch' = IF rootWatch.settled THEN operationOver(leasesDisposed(s, {v}))
                       ELSE [leasesDisposed(s, Range(s.retained)) EXCEPT
                               !.retained = <<v>>, !.timers = {}, !.step = "sending"]

\* retainClosure has returned a lease.
ClosureRetained ==
    /\ rootWatch.step = "retaining" /\ rootWatch.issued < MaxOffer
    /\ LET v == rootWatch.issued + 1
           s == [rootWatch EXCEPT !.issued = v, !.offered[v] = rootWatch.ref]
       IN rootWatch' = IF rootWatch.settled THEN operationOver(leasesDisposed(s, {v}))
                       ELSE [s EXCEPT !.retained = Append(@, v), !.step = "sending"]

\* Mutant: one more is kept.
expiredOffers_fewer(s) == SubSeq(s.retained, 1, Len(s.retained) - 1 - MaxSuperseded - 1)

\* The oldest superseded offers beyond the limit.
expiredOffers(s) == SubSeq(s.retained, 1, Len(s.retained) - 1 - MaxSuperseded)

OfferSent ==
    /\ rootWatch.step = "sending"
    /\ LET s == [rootWatch EXCEPT !.sent = @ \cup {rootWatch.issued}]
       IN rootWatch' = IF rootWatch.settled \/ Len(rootWatch.retained) = 1 THEN operationOver(s)
                       ELSE releasing([s EXCEPT !.timers = @ \cup {s.retained[Len(s.retained) - 1]}],
                                      expiredOffers(s))

\* retainClosure, send or the dispose of a lease failed: the chain's catch.
OperationFails ==
    /\ rootWatch.step # "idle"
    /\ rootWatch' = operationOver(watchFinished(rootWatch))

-----------------------------------------------------------------------------
(* _accept and _release                                                    *)

RootTimerFires(v) ==
    /\ v \in rootWatch.timers /\ Len(rootWatch.queue) < MaxRootOps
    /\ rootWatch' = enqueued([rootWatch EXCEPT !.timers = @ \ {v}], [kind |-> "release", version |-> v])

AcceptArrives(v) ==
    /\ v \in rootWatch.sent /\ Len(rootWatch.queue) < MaxRootOps /\ ~rootWatch.settled
    /\ rootWatch' = enqueued(rootWatch, [kind |-> "accept", version |-> v])

AcceptRoot ==
    /\ rootWatch.step = "idle" /\ rootWatch.queue # << >> /\ Head(rootWatch.queue).kind = "accept"
    /\ rootWatch' = LET s == [rootWatch EXCEPT !.queue = Tail(@)]
                        version == Head(rootWatch.queue).version
                    IN IF version \in Range(s.retained)
                       THEN releasing(s, SubSeq(s.retained, 1, indexOf(s, version) - 1)) ELSE s

ReleaseQueued ==
    /\ rootWatch.step = "idle" /\ rootWatch.queue # << >> /\ Head(rootWatch.queue).kind = "release"
    /\ rootWatch' = releasing([rootWatch EXCEPT !.queue = Tail(@)], <<Head(rootWatch.queue).version>>)

\* Mutant: whether the offer is still retained is not looked at.
released_unchecked(s, v) ==
    leasesDisposed([s EXCEPT !.timers = @ \ {v}, !.retained = SelectSeq(@, LAMBDA w : w # v)], {v})

\* _release: not if it was released meanwhile, and never the newest.
released(s, v) ==
    IF s.settled \/ v \notin Range(s.retained) \/ v = Last(s.retained) THEN s
    ELSE leasesDisposed([s EXCEPT !.timers = @ \ {v}, !.retained = RemoveAt(@, indexOf(s, v))], {v})

ReleaseOffer ==
    /\ rootWatch.step = "releasing"
    /\ rootWatch' = releasing(released(rootWatch, Head(rootWatch.todo)), Tail(rootWatch.todo))

RootWatchNext ==
    \/ \E ref \in GraphRoot : PublishRoot(ref)
    \/ \E v \in Version : RootTimerFires(v) \/ AcceptArrives(v)
    \/ RootWatchAborted \/ SendWanted \/ ClosureRetained \/ OfferSent \/ OperationFails
    \/ AcceptRoot \/ ReleaseQueued \/ ReleaseOffer

-----------------------------------------------------------------------------
\* Every lease is disposed of exactly once, by whichever of timer, hint, limit and end comes
\* first, also one that is obtained when the watch has ended; and only the offers that are
\* kept have a timer.
LeasesAreDisposedOnce ==
    /\ \A v \in 1..rootWatch.issued :
        rootWatch.disposals[v] = IF v \in Range(rootWatch.retained) THEN 0 ELSE 1
    /\ rootWatch.timers \subseteq Range(rootWatch.retained)
    /\ rootWatch.settled => rootWatch.retained = << >>

\* "A superseded root is released only after its successor was sent" (rootWatch.ts:33), and
\* only a bounded number is kept.
SuccessorIsSentFirst ==
    ~rootWatch.settled =>
        /\ \A v \in 1..rootWatch.issued : rootWatch.disposals[v] > 0 => v + 1 \in rootWatch.sent
        /\ rootWatch.step \in {"idle", "retaining"} => Len(rootWatch.retained) <= MaxSuperseded + 1

\* When the chain has run dry the newest root that was published is the one that was sent last.
NewestRootIsSent ==
    ~rootWatch.settled /\ rootWatch.step = "idle" /\ rootWatch.queue = << >>
        => newest(rootWatch) = rootWatch.published
=============================================================================
