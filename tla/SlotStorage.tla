----------------------------- MODULE SlotStorage -----------------------------
(***************************************************************************)
(* The file-backed storage of an identity slot (linkrpc-hub,               *)
(* hub/server/identityKeystore.ts, _FileBackedStorage and the slot's       *)
(* delete()).                                                              *)
(*                                                                         *)
(* The map of entries is cached.  set and delete of an entry go through a  *)
(* write chain: load, change the map, write it.  get and list load outside *)
(* of the chain, and delete() of the slot drops the cache and then removes *)
(* the file.  A map is an object that the cache and a writer may share:    *)
(* maps are numbered, and content says what each of them holds.            *)
(***************************************************************************)
EXTENDS Naturals, Sequences

CONSTANTS
    EntryKey,     \* the keys that are set
    MaxMap,       \* bound: maps made
    MaxStorageOp  \* bound: operations started

ASSUME StorageAssumption == {MaxMap, MaxStorageOp} \subseteq Nat

VARIABLE storage

MapId == 1..MaxMap

(***************************************************************************)
(* file is the map on disk (a set of keys), or absent.  cache is the       *)
(* cached map (0 if it is not loaded).  chain are the changes to make;     *)
(* step is the await of the writer at its head, map the map it works on.   *)
(* reader and reset are the awaits of a get and of delete(); read is what  *)
(* each of them found in the file.                                         *)
(* done are the keys that are set, by the operations that have returned    *)
(* without an error, and before delete() of the slot.  A read              *)
(* of the file while a writer is under way sets overlapped: it replaces    *)
(* the cached map by one without the writer's entry, which the next write  *)
(* then leaves out.                                                        *)
(***************************************************************************)
StorageInit ==
    storage = [file |-> {}, cache |-> 0, content |-> [m \in MapId |-> {}], maps |-> 0, ops |-> 0,
               chain |-> << >>, step |-> "idle", map |-> 0, read |-> {},
               reader |-> "idle", readerRead |-> {}, reset |-> "none", done |-> {}, overlapped |-> FALSE]

\* The end of _load: a new map is made and cached.
mapLoaded(s, keys) ==
    [s EXCEPT !.maps = @ + 1, !.cache = s.maps + 1, !.content[s.maps + 1] = keys]

\* What the writer at the head of the chain makes of the keys.
entryChanged(keys) ==
    LET m == Head(storage.chain) IN IF m.op = "set" THEN keys \cup {m.key} ELSE keys \ {m.key}

-----------------------------------------------------------------------------
\* set and delete of an entry: _mutate.
MutateCalled(op, key) ==
    /\ storage.ops < MaxStorageOp
    /\ storage' = [storage EXCEPT !.chain = Append(@, [op |-> op, key |-> key]), !.ops = @ + 1]

\* The writer at the head of the chain loads: from the cache, or from the file.
WriterStarts ==
    /\ storage.chain # << >> /\ storage.step = "idle"
    /\ storage' = IF storage.cache # 0
                  THEN [storage EXCEPT !.step = "loaded", !.map = storage.cache]
                  ELSE [storage EXCEPT !.step = "reading", !.read = storage.file,
                                       !.overlapped = @ \/ storage.reader = "reading"]

WriterLoads ==
    /\ storage.step = "reading" /\ storage.maps < MaxMap
    /\ storage' = [mapLoaded(storage, storage.read) EXCEPT !.step = "loaded", !.map = storage.maps + 1]

\* Mutant: set() returns before the map was written.
WriterChanges_returnsEarly ==
    /\ storage.step = "loaded"
    /\ storage' = [storage EXCEPT !.step = "writing", !.done = entryChanged(@),
                                  !.content[storage.map] = entryChanged(@)]

\* The entry is changed in the map, and the map is encrypted.
WriterChanges ==
    /\ storage.step = "loaded"
    /\ storage' = [storage EXCEPT !.step = "writing", !.content[storage.map] = entryChanged(@)]

WriterWrites ==
    /\ storage.step = "writing"
    /\ storage' = [storage EXCEPT !.step = "idle", !.file = storage.content[storage.map], !.map = 0,
                                  !.chain = Tail(@), !.done = entryChanged(@)]

\* _persist fails; the map, and with it the cache, keeps the change, which the next
\* write will store: nothing is promised of that entry.
WriterFails ==
    /\ storage.step = "writing"
    /\ storage' = [storage EXCEPT !.step = "idle", !.map = 0, !.chain = Tail(@),
                                  !.done = @ \ {Head(storage.chain).key}]

\* get and list.
ReaderStarts ==
    /\ storage.reader = "idle" /\ storage.cache = 0 /\ storage.ops < MaxStorageOp
    /\ storage' = [storage EXCEPT !.reader = "reading", !.readerRead = storage.file, !.ops = @ + 1,
                                  !.overlapped = @ \/ storage.step = "reading"]

ReaderLoads ==
    /\ storage.reader = "reading" /\ storage.maps < MaxMap
    /\ storage' = [mapLoaded(storage, storage.readerRead) EXCEPT !.reader = "idle", !.readerRead = {}]

\* delete() of the slot: the cache goes first, the file after further awaits.
ResetCalled ==
    /\ storage.reset = "none"
    /\ storage' = [storage EXCEPT !.reset = "called", !.cache = 0]

ResetUnlinks ==
    /\ storage.reset = "called"
    /\ storage' = [storage EXCEPT !.reset = "over", !.file = {}]

StorageNext ==
    \/ \E op \in {"set", "delete"}, key \in EntryKey : MutateCalled(op, key)
    \/ WriterStarts
    \/ WriterLoads
    \/ WriterChanges
    \/ WriterWrites
    \/ WriterFails
    \/ ReaderStarts
    \/ ReaderLoads
    \/ ResetCalled
    \/ ResetUnlinks

StorageSpec == StorageInit /\ [][StorageNext]_storage

-----------------------------------------------------------------------------
\* Writes queued behind each other keep each other's entries, and a set() that has
\* returned is on disk for whoever opens the slot next - until the slot is deleted, and
\* as long as no read overlaps a write.
StoredOnceDone ==
    storage.reset = "none" /\ ~storage.overlapped => storage.done \subseteq storage.file
=============================================================================
