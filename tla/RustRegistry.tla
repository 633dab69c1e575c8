---------------------------- MODULE RustRegistry ----------------------------
(***************************************************************************)
(* The live registry of the Rust implementation                            *)
(* (connection/hub_connection.rs) and a directory watch on it.  Threads    *)
(* register and unregister interfaces under the write lock of the state    *)
(* and tell the watchers under another lock afterwards; the watch handler  *)
(* is a task of its own; the client lists page by page, by an index into   *)
(* entries that may change between two pages.                              *)
(***************************************************************************)
EXTENDS Naturals, Sequences, FiniteSets, SequencesExt

CONSTANTS Registrar,       \* threads
          RegKey,          \* (service id, interface id)
          WatchedKey,      \* the keys the filter of the watch covers
          RegPrefix,       \* bare prefixes, as sequences
          BareMember,      \* bare methods, as sequences
          PageLimit,       \* `limit` of the client's list calls
          MaxRegistration  \* bound on registrations

NoWork == "none"

ASSUME RustRegistryAssumption ==
    /\ PageLimit \in Nat \ {0} /\ MaxRegistration \in Nat
    /\ WatchedKey \subseteq RegKey /\ NoWork \notin RegKey
    /\ \A p \in RegPrefix \cup BareMember : p \in Seq(Range(p))

VARIABLE live

LiveTypeOK ==
    /\ live.entries \in Seq([id : 1..MaxRegistration, key : RegKey])
    /\ live.bare \subseteq [id : 1..MaxRegistration, prefix : RegPrefix]
    /\ live.issued \in 0..MaxRegistration
    /\ live.refused \subseteq 1..MaxRegistration /\ live.gone \subseteq 1..MaxRegistration
    /\ live.telling \in [Registrar -> RegKey \cup {NoWork}]
    /\ live.watch \in {"none", "waiting", "sending", "over"}
    /\ live.watcher \in BOOLEAN /\ live.slot \in BOOLEAN
    /\ live.ticks \in Nat
    /\ live.listing \in {"none", "paging", "done"}
    /\ live.cursor \in 0..MaxRegistration
    /\ live.view \subseteq 1..MaxRegistration

\* made: what each registration was made for; opts.bare_prefix is a set of at most one prefix.
LiveInit ==
    live = [entries |-> << >>, bare |-> {}, issued |-> 0,
            made |-> [i \in 1..MaxRegistration |-> [key |-> NoWork, prefixes |-> {}]],
            refused |-> {}, gone |-> {}, telling |-> [t \in Registrar |-> NoWork], watch |-> "none",
            watcher |-> FALSE, slot |-> FALSE, ticks |-> 0, listing |-> "none", cursor |-> 0, view |-> {}]

entryIds == {e.id : e \in Range(live.entries)}

-----------------------------------------------------------------------------
(* Registrations.                                                          *)

made(s, id, key, prefixes) ==
    [s EXCEPT !.issued = id, !.made[id] = [key |-> key, prefixes |-> prefixes]]

bindingsOf(id, prefixes) == {[id |-> id, prefix |-> p] : p \in prefixes}

\* Mutant: the binding is made before the key is looked up.
interfaceRegistered_halfway(s, t, id, key, prefixes) ==
    IF \E e \in Range(s.entries) : e.key = key
    THEN [s EXCEPT !.refused = @ \cup {id}, !.bare = @ \cup bindingsOf(id, prefixes)]
    ELSE IF \E b \in s.bare : b.prefix \in prefixes
    THEN [s EXCEPT !.refused = @ \cup {id}]
    ELSE [s EXCEPT !.bare = @ \cup bindingsOf(id, prefixes),
                   !.entries = Append(@, [id |-> id, key |-> key]), !.telling[t] = key]

\* What register_impl does under the write lock.
interfaceRegistered(s, t, id, key, prefixes) ==
    IF (\E e \in Range(s.entries) : e.key = key) \/ (\E b \in s.bare : b.prefix \in prefixes)
    THEN [s EXCEPT !.refused = @ \cup {id}]
    ELSE [s EXCEPT !.bare = @ \cup bindingsOf(id, prefixes),
                   !.entries = Append(@, [id |-> id, key |-> key]), !.telling[t] = key]

RegisterImpl(t, key, prefixes) ==
    /\ live.telling[t] = NoWork
    /\ live.issued < MaxRegistration
    /\ LET id == live.issued + 1
       IN live' = interfaceRegistered(made(live, id, key, prefixes), t, id, key, prefixes)

\* Mutant: the entry is looked up by what it was registered for.
ownEntry_byKey(e, id) == e.key = live.made[id].key

\* position: the entry of this registration.
ownEntry(e, id) == e.id = id

ownPosition(id) == CHOOSE i \in DOMAIN live.entries : ownEntry(live.entries[i], id)

\* InterfaceRegistration::unregister; a second call finds nothing.
UnregisterImpl(t, id) ==
    /\ live.telling[t] = NoWork
    /\ id \in 1..live.issued \ live.refused
    /\ live' = IF \E e \in Range(live.entries) : ownEntry(e, id)
               THEN [live EXCEPT !.entries = RemoveAt(@, ownPosition(id)),
                                 !.bare = {b \in @ : b.id # id}, !.gone = @ \cup {id},
                                 !.telling[t] = live.made[id].key]
               ELSE [live EXCEPT !.gone = @ \cup {id}]

\* Mutant: a watcher that has a tick pending is dropped as well.
watcherTold_dropsFull(s, key) ==
    IF ~s.watcher \/ key \notin WatchedKey THEN s
    ELSE IF s.slot THEN [s EXCEPT !.watcher = FALSE] ELSE [s EXCEPT !.slot = TRUE]

\* notify_directory_watchers: try_send into a channel of one slot.
watcherTold(s, key) ==
    IF s.watcher /\ key \in WatchedKey THEN [s EXCEPT !.slot = TRUE] ELSE s

NotifyDirectoryWatchers(t) ==
    /\ live.telling[t] # NoWork
    /\ live' = [watcherTold(live, live.telling[t]) EXCEPT !.telling[t] = NoWork]

-----------------------------------------------------------------------------
(* Reflection::watch.                                                      *)

WatchBegins ==
    /\ live.watch = "none"
    /\ live' = [live EXCEPT !.watch = "waiting", !.watcher = TRUE]

WatchTakesTick ==
    /\ live.watch = "waiting" /\ live.slot
    /\ live' = [live EXCEPT !.watch = "sending", !.slot = FALSE]

WatchSendsTick ==
    /\ live.watch = "sending"
    /\ live' = [live EXCEPT !.watch = "waiting", !.ticks = @ + 1]

\* Cancelled, or the stream is gone; the guard unsubscribes.
WatchEnds ==
    /\ live.watch \in {"waiting", "sending"}
    /\ live' = [live EXCEPT !.watch = "over", !.watcher = FALSE]

-----------------------------------------------------------------------------
(* The client: it watches first, lists page by page, and starts anew with  *)
(* every tick.                                                             *)

\* The entries that match the filter, in their order.
filtered(entries) ==
    LET upTo[i \in 0..Len(entries)] ==
            IF i = 0 THEN << >>
            ELSE IF entries[i].key \in WatchedKey THEN Append(upTo[i - 1], entries[i]) ELSE upTo[i - 1]
    IN upTo[Len(entries)]

matching == filtered(live.entries)

ListStarts ==
    /\ live.watch # "none"
    /\ live.listing = "none" \/ live.ticks > 0
    /\ live' = [live EXCEPT !.ticks = IF live.listing = "none" THEN @ ELSE @ - 1,
                            !.listing = "paging", !.cursor = 0, !.view = {}]

\* Mutant: the page after the last one is asked for although entries are left.
listed_short(s, all) ==
    LET start == IF s.cursor < Len(all) THEN s.cursor ELSE Len(all)
        end == IF start + PageLimit < Len(all) THEN start + PageLimit ELSE Len(all)
    IN [s EXCEPT !.view = @ \cup {all[i].id : i \in start + 1..end},
                 !.cursor = end, !.listing = IF end + 1 < Len(all) THEN "paging" ELSE "done"]

\* Reflection::list: the page from the cursor on, and whether there is another.
listed(s, all) ==
    LET start == IF s.cursor < Len(all) THEN s.cursor ELSE Len(all)
        end == IF start + PageLimit < Len(all) THEN start + PageLimit ELSE Len(all)
    IN [s EXCEPT !.view = @ \cup {all[i].id : i \in start + 1..end},
                 !.cursor = end, !.listing = IF end < Len(all) THEN "paging" ELSE "done"]

ListPage ==
    /\ live.listing = "paging"
    /\ live' = listed(live, matching)

LiveNext ==
    \/ \E t \in Registrar :
        \/ \E key \in RegKey : \/ RegisterImpl(t, key, {})
                              \/ \E p \in RegPrefix : RegisterImpl(t, key, {p})
        \/ \E id \in 1..MaxRegistration : UnregisterImpl(t, id)
        \/ NotifyDirectoryWatchers(t)
    \/ WatchBegins \/ WatchTakesTick \/ WatchSendsTick \/ WatchEnds
    \/ ListStarts \/ ListPage

-----------------------------------------------------------------------------
fitting(m) == {b \in live.bare : IsPrefix(b.prefix, m)}

\* RegistryInner::route of a bare method: the registration it goes to, or none.
routedBare(m) ==
    {b.id : b \in {b \in fitting(m) : \A c \in fitting(m) : Len(c.prefix) <= Len(b.prefix)}} \cap entryIds

\* Whatever threads register and dispose, also twice and also what was refused: an
\* interface is there exactly until its own registration is disposed of, no two have one
\* key, and a bare method goes to the registration with the longest prefix that fits.
RegistrationsAreOwned ==
    /\ entryIds = 1..live.issued \ (live.refused \cup live.gone)
    /\ \A i, j \in DOMAIN live.entries : live.entries[i].key = live.entries[j].key => i = j
    /\ \A m \in BareMember :
        LET bound == {[id |-> id, prefix |-> p] : id \in entryIds, p \in RegPrefix}
            own == {b \in bound : b.prefix \in live.made[b.id].prefixes /\ IsPrefix(b.prefix, m)}
        IN /\ own # {} <=> routedBare(m) # {}
           /\ \A id \in routedBare(m) : \E b \in own : b.id = id /\ \A c \in own : Len(c.prefix) <= Len(b.prefix)
           /\ Cardinality(routedBare(m)) <= 1

\* "Over-emission is fine (consumers re-list); a tick already pending absorbs this one"
\* (hub_connection.rs:148-149): as long as the watch is up, a listing that is no longer
\* right - even one whose pages were taken before and after a change - is about to be
\* replaced.
RegistryWatchIsFresh ==
    live.listing = "done" /\ live.watch \in {"waiting", "sending"}
    /\ live.view # {e.id : e \in Range(matching)}
    => live.slot \/ live.watch = "sending" \/ live.ticks > 0 \/ \E t \in Registrar : live.telling[t] \in WatchedKey

\* An interface is there for as long as its registration, and a watch misses no change of them.
RustRegistryIsRight == LiveTypeOK /\ RegistrationsAreOwned /\ RegistryWatchIsFresh
=============================================================================
