--------------------------- MODULE DirectoryScopes ---------------------------
(***************************************************************************)
(* The scopes of a directory walk (linkrpc, hub/common/directoryWalk.ts):  *)
(* the algebra of service-id patterns, and the worklist that computes from *)
(* the root which directories are reachable, under which scopes, with      *)
(* which inherited requirements and at which depth.                        *)
(*                                                                         *)
(* A service id is a sequence of segments, so a prefix pattern is about    *)
(* whole segments; an array of patterns that is normalized and sorted is   *)
(* the set of its patterns.  A requirement is a model value; inherited     *)
(* requirements are the ordered list of the code.                          *)
(***************************************************************************)
EXTENDS Naturals, Sequences, FiniteSets, SequencesExt

CONSTANTS
    WalkId,        \* the service ids that occur, prefixes of them included
    Referral,      \* [target, reach, requires]: directory items, with a set of patterns
    MaxListed,     \* bound: referrals listed by one directory
    MaxWalkDepth   \* maxDepth

ASSUME WalkAssumption == MaxWalkDepth \in Nat /\ <<>> \in WalkId

VARIABLE walk

\* The root directory has the empty id: a referral to it is skipped.
Root == <<>>

serviceIdMatchesPattern(id, p) == IF p.kind = "exact" THEN id = p.id ELSE IsPrefix(p.id, id)

serviceIdMatchesScopes(id, scopes) == \E p \in scopes : serviceIdMatchesPattern(id, p)

patternContains(container, candidate) ==
    IF container.kind = "exact" THEN candidate = container
    ELSE serviceIdMatchesPattern(candidate.id, container)

normalizeServiceIdScopes(scopes) ==
    {p \in scopes : ~\E other \in scopes \ {p} : patternContains(other, p)}

\* The intersection of two patterns is one of them, or nothing.
intersectPattern(left, right) ==
    IF left.kind = "exact"
    THEN IF IF right.kind = "exact" THEN left = right ELSE serviceIdMatchesPattern(left.id, right)
         THEN {left} ELSE {}
    ELSE IF right.kind = "exact"
    THEN IF serviceIdMatchesPattern(right.id, left) THEN {right} ELSE {}
    ELSE IF serviceIdMatchesPattern(left.id, right) THEN {left}
    ELSE IF serviceIdMatchesPattern(right.id, left) THEN {right} ELSE {}

intersectServiceIdScopes(left, right) ==
    normalizeServiceIdScopes(UNION {intersectPattern(a, b) : a \in left, b \in right})

\* mergePrincipalSets: the first occurrence of a requirement counts.
mergePrincipalSets(a, b) == a \o SelectSeq(b, LAMBDA r : r \notin Range(a))

-----------------------------------------------------------------------------
\* What a referral of a directory contributes to its target.
contribution(state, r) ==
    [scopes |-> intersectServiceIdScopes(state.scopes, r.reach),
     inherited |-> mergePrincipalSets(state.inherited, r.requires), depth |-> state.depth + 1]

mergeContributions(a, b) ==
    [scopes |-> normalizeServiceIdScopes(a.scopes \cup b.scopes),
     inherited |-> mergePrincipalSets(a.inherited, b.inherited),
     depth |-> IF a.depth < b.depth THEN a.depth ELSE b.depth]

\* The referrals that _outgoingFor follows: below the maximal depth, within the scopes,
\* with something left to reach.
followed(state, listing) ==
    {r \in listing : /\ state.depth < MaxWalkDepth
                     /\ serviceIdMatchesScopes(r.target, state.scopes)
                     /\ contribution(state, r).scopes # {}
                     /\ r.target # Root}

\* _outgoingFor: the contributions, per target, in the order of the listing.
outgoingFor(state, listing) ==
    LET rs == followed(state, Range(listing))
    IN  [t \in {r.target : r \in rs} |->
            LET mine == SelectSeq(listing, LAMBDA r : r \in rs /\ r.target = t)
            IN  FoldLeft(LAMBDA acc, r : mergeContributions(acc, contribution(state, r)),
                         contribution(state, mine[1]), Tail(mine))]

\* derivedStateFromParents, over the parents in the order in which they were met.
derivedStateFromParents(parents) ==
    FoldLeft(LAMBDA acc, p : mergeContributions(acc, p.gives), parents[1].gives, Tail(parents))

\* childParents.set: a known parent keeps its place.
parentSet(parents, key, gives) ==
    IF \E i \in DOMAIN parents : parents[i].key = key
    THEN [i \in DOMAIN parents |-> IF parents[i].key = key THEN [key |-> key, gives |-> gives] ELSE parents[i]]
    ELSE Append(parents, [key |-> key, gives |-> gives])

Directory == {Root} \cup {r.target : r \in Referral}

Unknown == [depth |-> MaxWalkDepth + 1]

RootState == [scopes |-> {[kind |-> "prefix", id |-> <<>>]}, inherited |-> <<>>, depth |-> 0]

\* Any listings; a directory lists a referral at most once.
Listing == {s \in SeqOf(Referral, MaxListed) : \A i, j \in DOMAIN s : s[i] = s[j] => i = j}

WalkInit ==
    \E listing \in [Directory -> Listing] :
        walk = [listing |-> listing, queue |-> <<Root>>, turns |-> 0,
                states |-> [d \in Directory |-> IF d = Root THEN RootState ELSE Unknown],
                parents |-> [d \in Directory |-> <<>>],
                processed |-> [d \in Directory |-> Unknown]]

\* Mutant: a target is queued whether or not it has learned something.
contributed_requeues(w, key, targets, gives) ==
    FoldLeft(LAMBDA acc, t :
                LET parents == parentSet(acc.parents[t], key, gives[t])
                IN  [acc EXCEPT !.parents[t] = parents, !.states[t] = derivedStateFromParents(parents),
                                !.processed[t] = Unknown, !.queue = Append(@, t)],
             w, targets)

\* The loop over the contributions of a processed directory.
contributed(w, key, targets, gives) ==
    FoldLeft(LAMBDA acc, t :
                LET parents == parentSet(acc.parents[t], key, gives[t])
                    state == derivedStateFromParents(parents)
                    h == [acc EXCEPT !.parents[t] = parents, !.states[t] = state]
                IN  IF state = acc.states[t] THEN h ELSE [h EXCEPT !.queue = Append(@, t)],
             w, targets)

\* The targets in the order of outgoing: that of their first referral.
targetsInOrder(listing, gives) ==
    LET firsts == {i \in DOMAIN listing :
                       /\ listing[i].target \in DOMAIN gives
                       /\ \A j \in 1..(i - 1) : listing[j].target # listing[i].target}
    IN  [i \in 1..Len(SetToSortSeq(firsts, <)) |-> listing[SetToSortSeq(firsts, <)[i]].target]

\* Mutant: a directory is processed once, whatever it learns later.
WalkStep_once ==
    /\ walk.queue # <<>>
    /\ LET key == Head(walk.queue)
           state == walk.states[key]
           w == [walk EXCEPT !.queue = Tail(@), !.turns = @ + 1, !.processed[key] = state]
           gives == outgoingFor(state, walk.listing[key])
       IN  walk' = IF walk.processed[key] # Unknown THEN [walk EXCEPT !.queue = Tail(@), !.turns = @ + 1]
                   ELSE contributed(w, key, targetsInOrder(walk.listing[key], gives), gives)

\* One turn of the worklist of _computeScopeFixedPoint.
WalkStep ==
    /\ walk.queue # <<>>
    /\ LET key == Head(walk.queue)
           state == walk.states[key]
           w == [walk EXCEPT !.queue = Tail(@), !.turns = @ + 1, !.processed[key] = state]
           gives == outgoingFor(state, walk.listing[key])
       IN  walk' = IF walk.processed[key] = state THEN [walk EXCEPT !.queue = Tail(@), !.turns = @ + 1]
                   ELSE contributed(w, key, targetsInOrder(walk.listing[key], gives), gives)

WalkSpec == WalkInit /\ [][WalkStep]_walk

-----------------------------------------------------------------------------
(***************************************************************************)
(* The reference: scopes as the sets of ids they match, all directories    *)
(* improved at once, starting with nothing but the root.                   *)
(***************************************************************************)
matchedIds(scopes) == {id \in WalkId : serviceIdMatchesScopes(id, scopes)}

RootKnown == [dir |-> Root, ids |-> WalkId, requires |-> {}, depth |-> 0]

\* The ways from what is known into directory d, along the listed referrals.
ways(known, listing, d) ==
    UNION {{[ids |-> k.ids \cap matchedIds(r.reach), requires |-> k.requires \cup Range(r.requires),
             depth |-> k.depth + 1] :
            r \in {r \in Range(listing[k.dir]) :
                       r.target = d /\ d \in k.ids /\ k.ids \cap matchedIds(r.reach) # {}}} :
           k \in {k \in known : k.depth < MaxWalkDepth}}

improved(known, listing) ==
    {RootKnown} \cup
    {[dir |-> d, ids |-> UNION {w.ids : w \in ways(known, listing, d)},
      requires |-> UNION {w.requires : w \in ways(known, listing, d)},
      depth |-> Min({w.depth : w \in ways(known, listing, d)})] :
     d \in {d \in Directory \ {Root} : ways(known, listing, d) # {}}}

\* Enough improvements: each before the last adds a directory, an id, a requirement or
\* shortens a way.
leastFixedPoint(listing) ==
    LET N == 2 * Cardinality(Directory) * MaxListed
        iterate[n \in 0..N] ==
            IF n = 0 THEN {RootKnown}
            ELSE UNION {improved(known, listing) : known \in {iterate[n - 1]}}
    IN  iterate[N]

\* When the worklist is empty, whatever cycles and shared directories the listings have,
\* each directory has the scopes, requirements and depth of the least fixed point ("a
\* disconnected or narrowed cycle cannot keep scopes", directoryWalk.ts), in canonical form.
WalkIsLeastFixedPoint ==
    walk.queue = <<>> =>
        LET reference == leastFixedPoint(walk.listing)
            found == {d \in Directory : walk.states[d] # Unknown}
        IN  /\ reference = improved(reference, walk.listing)
            /\ reference = {[dir |-> d, ids |-> matchedIds(walk.states[d].scopes),
                             requires |-> Range(walk.states[d].inherited),
                             depth |-> walk.states[d].depth] : d \in found}
            /\ \A d \in found :
                   \A p, q \in walk.states[d].scopes : p # q => ~(matchedIds({p}) \subseteq matchedIds({q}))

\* The worklist empties, although directories refer to each other in cycles and the order
\* of the inherited requirements is part of what is compared: a directory is processed
\* anew only for a referral or a requirement it has not seen.
WalkTerminates == walk.turns <= Cardinality(Directory) * Cardinality(Referral)

\* The walk comes to an end, and to the right one.
WalkIsCorrect == WalkTerminates /\ WalkIsLeastFixedPoint
=============================================================================
