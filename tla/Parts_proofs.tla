---------------------------- MODULE Parts_proofs ----------------------------
(***************************************************************************)
(* What the parts of a hub and its participants keep, for every value of   *)
(* their constants: an inductive invariant of each part.                   *)
(***************************************************************************)
EXTENDS IdentitySlot, SlotStorage, ParticipantRoots, RootsQuery, AggregatingManifest,
        ConnectionSupervisor, ManagedEndpoints, RustMultiplexer, TLAPS

-----------------------------------------------------------------------------
(* The identity slot (IdentitySlot).                                       *)

SlotPlace == {"start", "access", "load", "save", "import", "write", "rename", "peek", "create", "done"}

SlotType ==
    [legacy : BOOLEAN, row : Nat, file : Nat, backup : Nat, made : Nat, got : SUBSET Nat,
     pc : [Resolver -> SlotPlace], key : [Resolver -> Nat]]

\* As long as there is no row, the file of the older build is still there, whoever is on the
\* way to import it has read its key, and nobody makes another one.  A key that is made later,
\* because the file was renamed after it was found, meets the row and is dropped.
MigrationInv(s) ==
    s.legacy =>
        /\ s.row \in {0, LegacyKey} /\ s.got \subseteq {LegacyKey}
        /\ s.row = 0 => s.file = LegacyKey
        /\ \A r \in Resolver :
            /\ s.row = 0 => s.pc[r] \notin {"save", "peek", "rename"} /\ (s.pc[r] = "import" => s.key[r] = LegacyKey)
            /\ s.pc[r] \in {"write", "rename"} => s.key[r] = LegacyKey
            /\ s.pc[r] # "create"

SlotInv == slot \in SlotType /\ MigrationInv(slot)

LEMMA SlotInitial == SlotInit => SlotInv
BY DEF SlotInit, SlotInv, SlotType, MigrationInv, LegacyKey, SlotPlace

\* A resolver goes on with a key, or returns one; row and file are stored.
SlotMoves(r, row, file, got, place, key) ==
    /\ slot' \in SlotType /\ slot'.legacy = slot.legacy
    /\ slot'.row = row /\ slot'.file = file /\ slot'.got = got
    /\ slot'.pc = [slot.pc EXCEPT ![r] = place]
    /\ slot'.key = [slot.key EXCEPT ![r] = key]

LEMMA SlotMoved ==
    ASSUME SlotInv, NEW r \in Resolver, NEW row, NEW file, NEW got, NEW place, NEW key,
           SlotMoves(r, row, file, got, place, key),
           slot.legacy =>
               /\ row \in {slot.row, LegacyKey} /\ got \subseteq {LegacyKey}
               /\ row = 0 => file = LegacyKey /\ place \notin {"save", "peek", "rename"} /\ (place = "import" => key = LegacyKey)
               /\ place \in {"write", "rename"} => key = LegacyKey
               /\ place # "create"
    PROVE  SlotInv'
<1>1. \A q \in Resolver : q # r => slot'.pc[q] = slot.pc[q] /\ slot'.key[q] = slot.key[q]
  BY DEF SlotInv, SlotType, SlotMoves
<1>2. slot'.pc[r] = place /\ slot'.key[r] = key BY DEF SlotInv, SlotType, SlotMoves
<1> QED BY <1>1, <1>2 DEF SlotInv, MigrationInv, SlotMoves, LegacyKey

LEMMA SlotStep ==
    ASSUME SlotInv, [SlotNext]_slot
    PROVE  SlotInv'
<1> USE DEF SlotInv, LegacyKey
<1>1. CASE UNCHANGED slot BY <1>1 DEF MigrationInv
<1>2. CASE HubCrashes BY <1>2 DEF HubCrashes, SlotType, MigrationInv, SlotPlace
<1>3. ASSUME NEW r \in Resolver, Resolves(r)
      PROVE  SlotInv'
  <2>1. CASE slot.row # 0
    <3>1. SlotMoves(r, slot.row, slot.file, slot.got \cup {slot.row}, "done", slot.key[r])
      BY <1>3, <2>1 DEF Resolves, SlotMoves, SlotType, SlotPlace, slotResolving, slotReturns, slotGoes
    <3> QED BY <1>3, <2>1, <3>1, SlotMoved DEF Resolves, MigrationInv, slotResolving
  <2>2. CASE slot.row = 0
    <3>1. SlotMoves(r, slot.row, slot.file, slot.got, "access", 0)
      BY <1>3, <2>2 DEF Resolves, SlotMoves, SlotType, SlotPlace, slotResolving, slotReturns, slotGoes
    <3> QED BY <1>3, <2>2, <3>1, SlotMoved DEF Resolves, MigrationInv, slotResolving
  <2> QED BY <2>1, <2>2
<1>4. ASSUME NEW r \in Resolver, FileLookedUp(r)
      PROVE  SlotInv'
  <2>1. CASE slot.file # 0
    <3>1. SlotMoves(r, slot.row, slot.file, slot.got, "load", 0)
      BY <1>4, <2>1 DEF FileLookedUp, SlotMoves, SlotType, SlotPlace, slotResolving, slotReturns, slotGoes
    <3> QED BY <1>4, <2>1, <3>1, SlotMoved DEF FileLookedUp, MigrationInv, slotResolving
  <2>2. CASE slot.file = 0
    <3>1. SlotMoves(r, slot.row, slot.file, slot.got, "peek", 0)
      BY <1>4, <2>2 DEF FileLookedUp, SlotMoves, SlotType, SlotPlace, slotResolving, slotReturns, slotGoes
    <3> QED BY <1>4, <2>2, <3>1, SlotMoved DEF FileLookedUp, MigrationInv, slotResolving
  <2> QED BY <2>1, <2>2
<1>5. ASSUME NEW r \in Resolver, FileLoaded(r)
      PROVE  SlotInv'
  <2>1. CASE slot.file # 0
    <3>1. SlotMoves(r, slot.row, slot.file, slot.got, "import", slot.file)
      BY <1>5, <2>1 DEF FileLoaded, SlotMoves, SlotType, SlotPlace, slotResolving, slotReturns, slotGoes
    <3> QED BY <1>5, <2>1, <3>1, SlotMoved DEF FileLoaded, MigrationInv, slotResolving
  <2>2. CASE slot.file = 0
    <3> DEFINE m == [slot EXCEPT !.made = @ + 1]
    <3>1. SlotMoves(r, slot.row, slot.file, slot.got, "save", slot.made + 1)
      <4>1. slot' = slotGoes(m, r, "save", slot.made + 1) BY <1>5, <2>2 DEF FileLoaded
      <4>2. /\ m \in SlotType /\ m.legacy = slot.legacy /\ m.row = slot.row /\ m.file = slot.file
            /\ m.got = slot.got /\ m.pc = slot.pc /\ m.key = slot.key
        BY DEF SlotType
      <4>3. slot.made + 1 \in Nat BY DEF SlotType
      <4> HIDE DEF m
      <4> QED BY <4>1, <4>2, <4>3 DEF SlotMoves, SlotType, SlotPlace, slotGoes
    <3> QED BY <1>5, <2>2, <3>1, SlotMoved DEF FileLoaded, MigrationInv, slotResolving
  <2> QED BY <2>1, <2>2
<1>6. ASSUME NEW r \in Resolver, FileSaved(r)
      PROVE  SlotInv'
  <2>1. SlotMoves(r, slot.row, slot.key[r], slot.got, "import", slot.key[r])
    BY <1>6 DEF FileSaved, SlotMoves, SlotType, SlotPlace, slotResolving, slotReturns, slotGoes
  <2> QED BY <1>6, <2>1, SlotMoved DEF FileSaved, MigrationInv, slotResolving
<1>7. ASSUME NEW r \in Resolver, ImportPeeked(r)
      PROVE  SlotInv'
  <2>1. CASE slot.row # 0
    <3>1. SlotMoves(r, slot.row, slot.file, slot.got, "rename", slot.row)
      BY <1>7, <2>1 DEF ImportPeeked, SlotMoves, SlotType, SlotPlace, slotResolving, slotReturns, slotGoes
    <3> QED BY <1>7, <2>1, <3>1, SlotMoved DEF ImportPeeked, MigrationInv, slotResolving
  <2>2. CASE slot.row = 0
    <3>1. SlotMoves(r, slot.row, slot.file, slot.got, "write", slot.key[r])
      BY <1>7, <2>2 DEF ImportPeeked, SlotMoves, SlotType, SlotPlace, slotResolving, slotReturns, slotGoes
    <3> QED BY <1>7, <2>2, <3>1, SlotMoved DEF ImportPeeked, MigrationInv, slotResolving
  <2> QED BY <2>1, <2>2
<1>8. ASSUME NEW r \in Resolver, Imported(r)
      PROVE  SlotInv'
  <2>1. SlotMoves(r, slot.key[r], slot.file, slot.got, "rename", slot.key[r])
    BY <1>8 DEF Imported, SlotMoves, SlotType, SlotPlace, slotResolving, slotReturns, slotGoes
  <2> QED BY <1>8, <2>1, SlotMoved DEF Imported, MigrationInv, slotResolving
<1>9. ASSUME NEW r \in Resolver, FileRenamed(r)
      PROVE  SlotInv'
  <2>1. SlotMoves(r, slot.row, 0, slot.got \cup {slot.key[r]}, "done", slot.key[r])
    <3> DEFINE m == slotReturns(slot, r, slot.key[r])
               backup == IF slot.file # 0 THEN slot.file ELSE slot.backup
    <3>1. slot' = [m EXCEPT !.backup = backup, !.file = 0] /\ backup \in Nat
      BY <1>9 DEF FileRenamed, SlotType, slotReturns
    <3>2. /\ m \in SlotType /\ m.legacy = slot.legacy /\ m.row = slot.row /\ m.got = slot.got \cup {slot.key[r]}
          /\ m.pc = [slot.pc EXCEPT ![r] = "done"] /\ m.key = slot.key
      BY DEF SlotType, SlotPlace, slotReturns
    <3>3. m.key = [slot.key EXCEPT ![r] = slot.key[r]] BY <3>2 DEF SlotType
    <3> HIDE DEF m, backup
    <3> QED BY <3>1, <3>2, <3>3 DEF SlotMoves, SlotType
  <2> QED BY <1>9, <2>1, SlotMoved DEF FileRenamed, MigrationInv, slotResolving
<1>10. ASSUME NEW r \in Resolver, RowPeeked(r)
      PROVE  SlotInv'
  <2>1. CASE slot.row # 0
    <3>1. SlotMoves(r, slot.row, slot.file, slot.got \cup {slot.row}, "done", slot.key[r])
      BY <1>10, <2>1 DEF RowPeeked, SlotMoves, SlotType, SlotPlace, slotResolving, slotReturns, slotGoes
    <3> QED BY <1>10, <2>1, <3>1, SlotMoved DEF RowPeeked, MigrationInv, slotResolving
  <2>2. CASE slot.row = 0
    <3> DEFINE m == [slot EXCEPT !.made = @ + 1]
    <3>1. SlotMoves(r, slot.row, slot.file, slot.got, "create", slot.made + 1)
      <4>1. slot' = slotGoes(m, r, "create", slot.made + 1) BY <1>10, <2>2 DEF RowPeeked
      <4>2. /\ m \in SlotType /\ m.legacy = slot.legacy /\ m.row = slot.row /\ m.file = slot.file
            /\ m.got = slot.got /\ m.pc = slot.pc /\ m.key = slot.key
        BY DEF SlotType
      <4>3. slot.made + 1 \in Nat BY DEF SlotType
      <4> HIDE DEF m
      <4> QED BY <4>1, <4>2, <4>3 DEF SlotMoves, SlotType, SlotPlace, slotGoes
    <3> QED BY <1>10, <2>2, <3>1, SlotMoved DEF RowPeeked, MigrationInv, slotResolving
  <2> QED BY <2>1, <2>2
<1>11. ASSUME NEW r \in Resolver, RowWritten(r)
      PROVE  SlotInv'
  <2>1. SlotMoves(r, slot.key[r], slot.file, slot.got \cup {slot.key[r]}, "done", slot.key[r])
    BY <1>11 DEF RowWritten, SlotMoves, SlotType, SlotPlace, slotResolving, slotReturns, slotGoes
  <2> QED BY <1>11, <2>1, SlotMoved DEF RowWritten, MigrationInv, slotResolving
<1> QED BY <1>1, <1>2, <1>3, <1>4, <1>5, <1>6, <1>7, <1>8, <1>9, <1>10, <1>11 DEF SlotNext

-----------------------------------------------------------------------------
(* The storage of a slot (SlotStorage).                                    *)

MapRef == {0} \cup MapId

EntryChange == [op : {"set", "delete"}, key : EntryKey]

StorageType ==
    [file : SUBSET EntryKey, cache : MapRef, content : [MapId -> SUBSET EntryKey], maps : Nat,
     ops : Nat, chain : Seq(EntryChange),
     step : {"idle", "reading", "loaded", "writing"}, map : MapRef, read : SUBSET EntryKey,
     reader : {"idle", "reading"}, readerRead : SUBSET EntryKey, reset : {"none", "called", "over"},
     done : SUBSET EntryKey, overlapped : BOOLEAN]

\* While no read overlaps a write, the writer works on the cached map, whoever reads the file
\* has read all that was promised, and so has the cached map; once the writer has changed that,
\* it holds what is promised next.
PromiseInv(s) ==
    /\ s.step # "idle" => s.chain # << >>
    /\ s.step \in {"loaded", "writing"} => s.map \in MapId
    /\ s.reset = "none" /\ ~s.overlapped =>
        /\ s.done \subseteq s.file
        /\ s.reader = "reading" => s.cache = 0 /\ s.step = "idle" /\ s.done \subseteq s.readerRead
        /\ s.step = "reading" => s.cache = 0 /\ s.done \subseteq s.read
        /\ s.step \in {"loaded", "writing"} => s.cache = s.map
        /\ s.cache # 0 /\ s.step # "writing" => s.done \subseteq s.content[s.cache]
        /\ s.step = "writing" =>
            /\ s.done \ {Head(s.chain).key} \subseteq s.content[s.cache]
            /\ Head(s.chain).op = "set" => Head(s.chain).key \in s.content[s.cache]

StorageInv == storage \in StorageType /\ PromiseInv(storage)

LEMMA StorageInitial == StorageInit => StorageInv
BY DEF StorageInit, StorageInv, StorageType, PromiseInv, MapRef

\* The change at the head of the chain, and the chain without it.
LEMMA EntryChanged ==
    ASSUME storage \in StorageType, storage.chain # << >>, NEW keys \in SUBSET EntryKey
    PROVE  /\ entryChanged(keys) \in SUBSET EntryKey
           /\ keys \ {Head(storage.chain).key} \subseteq entryChanged(keys)
           /\ Head(storage.chain).op = "set" => Head(storage.chain).key \in entryChanged(keys)
           /\ entryChanged(keys) \subseteq
                  (keys \ {Head(storage.chain).key}) \cup
                      (IF Head(storage.chain).op = "set" THEN {Head(storage.chain).key} ELSE {})
           /\ Tail(storage.chain) \in Seq(EntryChange)
<1>1. storage.chain \in Seq(EntryChange) BY DEF StorageType
<1>2. Head(storage.chain) \in EntryChange /\ Tail(storage.chain) \in Seq(EntryChange) BY <1>1
<1> QED BY <1>2 DEF entryChanged, EntryChange

LEMMA StorageStep ==
    ASSUME StorageInv, [StorageNext]_storage
    PROVE  StorageInv'
<1> USE DEF StorageInv
<1>0. 0 \in MapRef /\ MapId \subseteq MapRef /\ 0 \notin MapId BY DEF MapRef, MapId
<1>1. CASE UNCHANGED storage BY <1>1 DEF PromiseInv
<1>2. ASSUME NEW op \in {"set", "delete"}, NEW key \in EntryKey, MutateCalled(op, key)
      PROVE  StorageInv'
  <2> DEFINE chain1 == Append(storage.chain, [op |-> op, key |-> key])
             ops1 == storage.ops + 1
  <2>1. storage' = [storage EXCEPT !.chain = chain1, !.ops = ops1]
    BY <1>0, <1>2 DEF MutateCalled, StorageType
  <2>2. chain1 \in Seq(EntryChange) /\ ops1 \in Nat
    BY <1>0, <1>2 DEF MutateCalled, StorageType, EntryChange, PromiseInv
  <2> HIDE DEF chain1, ops1
  <2>3. storage' \in StorageType BY <1>0, <2>1, <2>2 DEF StorageType
  <2>4. /\ storage'.file = storage.file /\ storage'.cache = storage.cache
        /\ storage'.content = storage.content /\ storage'.maps = storage.maps
        /\ storage'.ops = ops1 /\ storage'.chain = chain1 /\ storage'.step = storage.step
        /\ storage'.map = storage.map /\ storage'.read = storage.read
        /\ storage'.reader = storage.reader /\ storage'.readerRead = storage.readerRead
        /\ storage'.reset = storage.reset /\ storage'.done = storage.done
        /\ storage'.overlapped = storage.overlapped
    BY <2>1, <2>2 DEF StorageType
  <2> QED BY <1>0, <1>2, <2>3, <2>4 DEF chain1, ops1, MutateCalled, PromiseInv, StorageType
<1>3. CASE WriterStarts
  <2>1. CASE storage.cache # 0
    <3> DEFINE map1 == storage.cache
    <3>1. storage' = [storage EXCEPT !.step = "loaded", !.map = map1]
      BY <1>0, <1>3, <2>1 DEF WriterStarts, StorageType
    <3>2. map1 \in MapRef BY <1>0, <1>3, <2>1 DEF WriterStarts, StorageType, EntryChange, PromiseInv
    <3> HIDE DEF map1
    <3>3. storage' \in StorageType BY <1>0, <3>1, <3>2 DEF StorageType
    <3>4. /\ storage'.file = storage.file /\ storage'.cache = storage.cache
          /\ storage'.content = storage.content /\ storage'.maps = storage.maps
          /\ storage'.ops = storage.ops /\ storage'.chain = storage.chain
          /\ storage'.step = "loaded" /\ storage'.map = map1 /\ storage'.read = storage.read
          /\ storage'.reader = storage.reader /\ storage'.readerRead = storage.readerRead
          /\ storage'.reset = storage.reset /\ storage'.done = storage.done
          /\ storage'.overlapped = storage.overlapped
      BY <3>1, <3>2 DEF StorageType
    <3> QED BY <1>0, <1>3, <2>1, <3>3, <3>4 DEF map1, WriterStarts, PromiseInv, StorageType, MapRef
  <2>2. CASE storage.cache = 0
    <3> DEFINE overlapped1 == (storage.overlapped \/ storage.reader = "reading")
    <3>1. storage' = [storage EXCEPT !.step = "reading", !.read = storage.file, !.overlapped = overlapped1]
      BY <1>0, <1>3, <2>2 DEF WriterStarts, StorageType
    <3>2. overlapped1 \in BOOLEAN
      BY <1>0, <1>3, <2>2 DEF WriterStarts, StorageType, EntryChange, PromiseInv
    <3> HIDE DEF overlapped1
    <3>3. storage' \in StorageType BY <1>0, <3>1, <3>2 DEF StorageType
    <3>4. /\ storage'.file = storage.file /\ storage'.cache = storage.cache
          /\ storage'.content = storage.content /\ storage'.maps = storage.maps
          /\ storage'.ops = storage.ops /\ storage'.chain = storage.chain
          /\ storage'.step = "reading" /\ storage'.map = storage.map
          /\ storage'.read = storage.file /\ storage'.reader = storage.reader
          /\ storage'.readerRead = storage.readerRead /\ storage'.reset = storage.reset
          /\ storage'.done = storage.done /\ storage'.overlapped = overlapped1
      BY <3>1, <3>2 DEF StorageType
    <3> QED BY <1>0, <1>3, <2>2, <3>3, <3>4 DEF overlapped1, WriterStarts, PromiseInv, StorageType
  <2> QED BY <2>1, <2>2 DEF StorageType
<1>4. CASE WriterLoads
  <2> DEFINE maps1 == storage.maps + 1
             cache1 == storage.maps + 1
             content1 == [storage.content EXCEPT ![storage.maps + 1] = storage.read]
             map1 == storage.maps + 1
  <2>0. storage.maps + 1 \in MapId /\ storage.maps + 1 \in MapRef
    BY <1>4, StorageAssumption DEF WriterLoads, StorageType, MapId, MapRef
  <2>1. storage' = [storage EXCEPT !.maps = maps1, !.cache = cache1, !.content = content1, !.step = "loaded", !.map = map1]
    BY <1>0, <1>4, <2>0 DEF WriterLoads, StorageType, mapLoaded
  <2>2. maps1 \in Nat /\ cache1 \in MapRef /\ content1 \in [MapId -> SUBSET EntryKey] /\ map1 \in MapRef
    BY <1>0, <1>4, <2>0 DEF WriterLoads, StorageType, EntryChange, PromiseInv
  <2> HIDE DEF maps1, cache1, content1, map1
  <2>3. storage' \in StorageType BY <1>0, <2>1, <2>2 DEF StorageType
  <2>4. /\ storage'.file = storage.file /\ storage'.cache = cache1 /\ storage'.content = content1
        /\ storage'.maps = maps1 /\ storage'.ops = storage.ops /\ storage'.chain = storage.chain
        /\ storage'.step = "loaded" /\ storage'.map = map1 /\ storage'.read = storage.read
        /\ storage'.reader = storage.reader /\ storage'.readerRead = storage.readerRead
        /\ storage'.reset = storage.reset /\ storage'.done = storage.done
        /\ storage'.overlapped = storage.overlapped
    BY <2>1, <2>2 DEF StorageType
  <2> QED BY <1>0, <1>4, <2>0, <2>3, <2>4 DEF maps1, cache1, content1, map1, WriterLoads, PromiseInv, StorageType
<1>5. CASE WriterChanges
  <2> DEFINE content1 == [storage.content EXCEPT ![storage.map] = entryChanged(storage.content[storage.map])]
  <2>1. storage' = [storage EXCEPT !.step = "writing", !.content = content1]
    BY <1>0, <1>5 DEF WriterChanges, StorageType
  <2>2. content1 \in [MapId -> SUBSET EntryKey]
    BY <1>0, <1>5, EntryChanged DEF WriterChanges, StorageType, EntryChange, PromiseInv
  <2> HIDE DEF content1
  <2>3. storage' \in StorageType BY <1>0, <2>1, <2>2 DEF StorageType
  <2>4. /\ storage'.file = storage.file /\ storage'.cache = storage.cache
        /\ storage'.content = content1 /\ storage'.maps = storage.maps
        /\ storage'.ops = storage.ops /\ storage'.chain = storage.chain
        /\ storage'.step = "writing" /\ storage'.map = storage.map
        /\ storage'.read = storage.read /\ storage'.reader = storage.reader
        /\ storage'.readerRead = storage.readerRead /\ storage'.reset = storage.reset
        /\ storage'.done = storage.done /\ storage'.overlapped = storage.overlapped
    BY <2>1, <2>2 DEF StorageType
  <2> QED BY <1>0, <1>5, <2>3, <2>4, EntryChanged DEF content1, WriterChanges, PromiseInv, StorageType
<1>6. CASE WriterWrites
  <2> DEFINE file1 == storage.content[storage.map]
             chain1 == Tail(storage.chain)
             done1 == entryChanged(storage.done)
  <2>1. storage' = [storage EXCEPT !.step = "idle", !.file = file1, !.map = 0, !.chain = chain1, !.done = done1]
    BY <1>0, <1>6 DEF WriterWrites, StorageType
  <2>2. file1 \in SUBSET EntryKey /\ chain1 \in Seq(EntryChange) /\ done1 \in SUBSET EntryKey
    BY <1>0, <1>6, EntryChanged DEF WriterWrites, StorageType, EntryChange, PromiseInv
  <2> HIDE DEF file1, chain1, done1
  <2>3. storage' \in StorageType BY <1>0, <2>1, <2>2 DEF StorageType
  <2>4. /\ storage'.file = file1 /\ storage'.cache = storage.cache
        /\ storage'.content = storage.content /\ storage'.maps = storage.maps
        /\ storage'.ops = storage.ops /\ storage'.chain = chain1 /\ storage'.step = "idle"
        /\ storage'.map = 0 /\ storage'.read = storage.read /\ storage'.reader = storage.reader
        /\ storage'.readerRead = storage.readerRead /\ storage'.reset = storage.reset
        /\ storage'.done = done1 /\ storage'.overlapped = storage.overlapped
    BY <2>1, <2>2 DEF StorageType
  <2> QED BY <1>0, <1>6, <2>3, <2>4, EntryChanged DEF file1, chain1, done1, WriterWrites, PromiseInv, StorageType
<1>7. CASE WriterFails
  <2> DEFINE chain1 == Tail(storage.chain)
             done1 == (storage.done \ {Head(storage.chain).key})
  <2>1. storage' = [storage EXCEPT !.step = "idle", !.map = 0, !.chain = chain1, !.done = done1]
    BY <1>0, <1>7 DEF WriterFails, StorageType
  <2>2. chain1 \in Seq(EntryChange) /\ done1 \in SUBSET EntryKey
    BY <1>0, <1>7, EntryChanged DEF WriterFails, StorageType, EntryChange, PromiseInv
  <2> HIDE DEF chain1, done1
  <2>3. storage' \in StorageType BY <1>0, <2>1, <2>2 DEF StorageType
  <2>4. /\ storage'.file = storage.file /\ storage'.cache = storage.cache
        /\ storage'.content = storage.content /\ storage'.maps = storage.maps
        /\ storage'.ops = storage.ops /\ storage'.chain = chain1 /\ storage'.step = "idle"
        /\ storage'.map = 0 /\ storage'.read = storage.read /\ storage'.reader = storage.reader
        /\ storage'.readerRead = storage.readerRead /\ storage'.reset = storage.reset
        /\ storage'.done = done1 /\ storage'.overlapped = storage.overlapped
    BY <2>1, <2>2 DEF StorageType
  <2> QED BY <1>0, <1>7, <2>3, <2>4, EntryChanged DEF chain1, done1, WriterFails, PromiseInv, StorageType
<1>8. CASE ReaderStarts
  <2> DEFINE ops1 == storage.ops + 1
             overlapped1 == (storage.overlapped \/ storage.step = "reading")
  <2>1. storage' = [storage EXCEPT !.reader = "reading", !.readerRead = storage.file, !.ops = ops1, !.overlapped = overlapped1]
    BY <1>0, <1>8 DEF ReaderStarts, StorageType
  <2>2. ops1 \in Nat /\ overlapped1 \in BOOLEAN
    BY <1>0, <1>8 DEF ReaderStarts, StorageType, EntryChange, PromiseInv
  <2> HIDE DEF ops1, overlapped1
  <2>3. storage' \in StorageType BY <1>0, <2>1, <2>2 DEF StorageType
  <2>4. /\ storage'.file = storage.file /\ storage'.cache = storage.cache
        /\ storage'.content = storage.content /\ storage'.maps = storage.maps
        /\ storage'.ops = ops1 /\ storage'.chain = storage.chain /\ storage'.step = storage.step
        /\ storage'.map = storage.map /\ storage'.read = storage.read
        /\ storage'.reader = "reading" /\ storage'.readerRead = storage.file
        /\ storage'.reset = storage.reset /\ storage'.done = storage.done
        /\ storage'.overlapped = overlapped1
    BY <2>1, <2>2 DEF StorageType
  <2> QED BY <1>0, <1>8, <2>3, <2>4 DEF ops1, overlapped1, ReaderStarts, PromiseInv, StorageType
<1>9. CASE ReaderLoads
  <2> DEFINE maps1 == storage.maps + 1
             cache1 == storage.maps + 1
             content1 == [storage.content EXCEPT ![storage.maps + 1] = storage.readerRead]
  <2>0. storage.maps + 1 \in MapId /\ storage.maps + 1 \in MapRef
    BY <1>9, StorageAssumption DEF ReaderLoads, StorageType, MapId, MapRef
  <2>1. storage' = [storage EXCEPT !.maps = maps1, !.cache = cache1, !.content = content1, !.reader = "idle", !.readerRead = {}]
    BY <1>0, <1>9, <2>0 DEF ReaderLoads, StorageType, mapLoaded
  <2>2. maps1 \in Nat /\ cache1 \in MapRef /\ content1 \in [MapId -> SUBSET EntryKey]
    BY <1>0, <1>9, <2>0 DEF ReaderLoads, StorageType, EntryChange, PromiseInv
  <2> HIDE DEF maps1, cache1, content1
  <2>3. storage' \in StorageType BY <1>0, <2>1, <2>2 DEF StorageType
  <2>4. /\ storage'.file = storage.file /\ storage'.cache = cache1 /\ storage'.content = content1
        /\ storage'.maps = maps1 /\ storage'.ops = storage.ops /\ storage'.chain = storage.chain
        /\ storage'.step = storage.step /\ storage'.map = storage.map
        /\ storage'.read = storage.read /\ storage'.reader = "idle" /\ storage'.readerRead = {}
        /\ storage'.reset = storage.reset /\ storage'.done = storage.done
        /\ storage'.overlapped = storage.overlapped
    BY <2>1, <2>2 DEF StorageType
  <2> QED BY <1>0, <1>9, <2>0, <2>3, <2>4 DEF maps1, cache1, content1, ReaderLoads, PromiseInv, StorageType
<1>10. CASE ResetCalled
  <2>1. storage' = [storage EXCEPT !.reset = "called", !.cache = 0]
    BY <1>0, <1>10 DEF ResetCalled, StorageType
  <2>3. storage' \in StorageType BY <1>0, <2>1 DEF StorageType
  <2>4. /\ storage'.file = storage.file /\ storage'.cache = 0
        /\ storage'.content = storage.content /\ storage'.maps = storage.maps
        /\ storage'.ops = storage.ops /\ storage'.chain = storage.chain
        /\ storage'.step = storage.step /\ storage'.map = storage.map
        /\ storage'.read = storage.read /\ storage'.reader = storage.reader
        /\ storage'.readerRead = storage.readerRead /\ storage'.reset = "called"
        /\ storage'.done = storage.done /\ storage'.overlapped = storage.overlapped
    BY <2>1 DEF StorageType
  <2> QED BY <1>0, <1>10, <2>3, <2>4 DEF ResetCalled, PromiseInv, StorageType
<1>11. CASE ResetUnlinks
  <2>1. storage' = [storage EXCEPT !.reset = "over", !.file = {}]
    BY <1>0, <1>11 DEF ResetUnlinks, StorageType
  <2>3. storage' \in StorageType BY <1>0, <2>1 DEF StorageType
  <2>4. /\ storage'.file = {} /\ storage'.cache = storage.cache
        /\ storage'.content = storage.content /\ storage'.maps = storage.maps
        /\ storage'.ops = storage.ops /\ storage'.chain = storage.chain
        /\ storage'.step = storage.step /\ storage'.map = storage.map
        /\ storage'.read = storage.read /\ storage'.reader = storage.reader
        /\ storage'.readerRead = storage.readerRead /\ storage'.reset = "over"
        /\ storage'.done = storage.done /\ storage'.overlapped = storage.overlapped
    BY <2>1 DEF StorageType
  <2> QED BY <1>0, <1>11, <2>3, <2>4 DEF ResetUnlinks, PromiseInv, StorageType
<1> QED BY <1>1, <1>2, <1>3, <1>4, <1>5, <1>6, <1>7, <1>8, <1>9, <1>10, <1>11 DEF StorageNext

-----------------------------------------------------------------------------
(* The watches of the roots (ParticipantRoots), and a query (RootsQuery).  *)

\* The watch states made so far.
KnownState == 1..roots.made

\* A watch state belongs to one link; a link's state is the one last made for it, and no link
\* that has left has one.
WatchesInv ==
    /\ roots.live \cup roots.retry \cup roots.settled \subseteq KnownState
    /\ \A s \in KnownState : roots.of[s] \in RootLink
    /\ \A l \in RootLink :
        /\ roots.watches[l] \in {0} \cup KnownState
        /\ roots.watches[l] # 0 => l \in roots.links /\ roots.of[roots.watches[l]] = l
    /\ roots.settled \cap (roots.live \cup roots.retry) = {}

RootsInv == RootsCovered /\ WatchesInv

\* What is not in the answer was late, and has been awaited when the query is over.
QueryInv ==
    /\ query \in QueryType
    /\ query.results \subseteq rootsWith("result")
    /\ query.late \subseteq query.asked
    /\ query.results \cap query.late = {}
    /\ query.state # "open" => rootsWith("result") \cup rootsWith("pending") \subseteq query.results \cup query.late
    /\ query.state = "over" =>
        /\ query.late \cap rootsWith("pending") = {}
        /\ query.news <=> query.late \cap rootsWith("result") # {}

LEMMA RootsInitial == RootsInit => RootsInv
BY RetryAssumption DEF RootsInit, RootsInv, RootsCovered, RootsTypeOK, RootsType, RootsWatched, RootsWatchedOnce, WatchState, WatchesInv, KnownState

LEMMA RootsStep ==
    ASSUME RootsInv, [RootsNext]_roots
    PROVE  RootsInv'
<1> USE DEF RootsInv, RootsCovered, RootsTypeOK
<1>0. /\ 0 \notin KnownState /\ KnownState \subseteq WatchState
      /\ roots.links \subseteq RootLink /\ roots.disposed \in BOOLEAN
      /\ roots.watches \in [RootLink -> {0} \cup WatchState]
      /\ roots.of \in [WatchState -> {0} \cup RootLink]
  BY RetryAssumption DEF RootsType, KnownState, WatchState
<1>1. CASE UNCHANGED roots
  BY <1>1 DEF RootsType, RootsWatched, RootsWatchedOnce, WatchesInv, KnownState
<1>2. ASSUME NEW l \in RootLink, NEW sent \in BOOLEAN, RootAdded(l, sent)
      PROVE  RootsInv'
  <2>1. CASE roots.disposed
    <3> DEFINE links1 == roots.links \cup {l}
    <3>1. roots' = [roots EXCEPT !.links = links1]
      BY <1>2, <2>1 DEF RootAdded, watchStarted, RootsType
    <3>2. links1 \in SUBSET RootLink
      BY <1>2, <2>1, RetryAssumption DEF RootAdded, watchStarted, RootsType, WatchState
    <3> HIDE DEF links1
    <3>3. roots' \in RootsType BY <1>2, <2>1, RetryAssumption, <3>1, <3>2 DEF RootsType
    <3>4. /\ roots'.links = links1 /\ roots'.disposed = roots.disposed
          /\ roots'.watches = roots.watches /\ roots'.made = roots.made /\ roots'.of = roots.of
          /\ roots'.live = roots.live /\ roots'.settled = roots.settled
          /\ roots'.retry = roots.retry /\ roots'.delay = roots.delay
      BY <3>1, <3>2 DEF RootsType
    <3>5. KnownState' = KnownState BY <1>2, <2>1, <3>4 DEF KnownState
    <3> QED BY <1>2, <2>1, <3>3, <3>4, <1>0, <3>5 DEF links1, RootAdded, RootsWatched, RootsWatchedOnce, WatchesInv
  <2>2. CASE ~roots.disposed /\ sent
    <3> DEFINE made1 == roots.made + 1
               links1 == roots.links \cup {l}
               watches1 == [roots.watches EXCEPT ![l] = made1]
               of1 == [roots.of EXCEPT ![made1] = l]
               live1 == roots.live \cup {made1}
    <3>0. ~roots.disposed /\ made1 \in WatchState /\ made1 \notin KnownState /\ made1 # 0 /\ 1..made1 = KnownState \cup {made1}
      BY <1>2, <2>2, RetryAssumption DEF RootAdded, RootsType, WatchState, KnownState
    <3>1. roots' = [roots EXCEPT !.made = made1, !.links = links1, !.watches = watches1, !.of = of1, !.live = live1]
      BY <1>2, <2>2, <3>0 DEF RootAdded, watchStarted, RootsType
    <3>2. made1 \in {0} \cup WatchState /\ links1 \in SUBSET RootLink /\ watches1 \in [RootLink -> {0} \cup WatchState] /\ of1 \in [WatchState -> {0} \cup RootLink] /\ live1 \in SUBSET WatchState
      BY <1>2, <2>2, <3>0, RetryAssumption DEF RootAdded, watchStarted, RootsType, WatchState
    <3> HIDE DEF made1, links1, watches1, of1, live1
    <3>3. roots' \in RootsType BY <1>2, <2>2, <3>0, RetryAssumption, <3>1, <3>2 DEF RootsType
    <3>4. /\ roots'.links = links1 /\ roots'.disposed = roots.disposed /\ roots'.watches = watches1
          /\ roots'.made = made1 /\ roots'.of = of1 /\ roots'.live = live1
          /\ roots'.settled = roots.settled /\ roots'.retry = roots.retry
          /\ roots'.delay = roots.delay
      BY <3>1, <3>2 DEF RootsType
    <3>5. KnownState' = KnownState \cup {made1} BY <1>2, <2>2, <3>0, <3>4 DEF KnownState
    <3>6. /\ of1[made1] = l /\ watches1[l] = made1 /\ roots.watches[l] = 0
          /\ \A h \in RootLink \ {l} : watches1[h] = roots.watches[h]
          /\ \A k \in KnownState : of1[k] = roots.of[k]
      BY <1>2, <2>2, <3>0, <1>0 DEF of1, watches1, RootAdded, WatchesInv
    <3> QED
      <4>1. RootsWatched'
        BY <3>0, <3>4, <1>0, <3>5, <3>6 DEF links1, live1, RootsWatched, WatchesInv
      <4>2. RootsWatchedOnce'
        BY <3>0, <3>4, <1>0, <3>5, <3>6 DEF links1, live1, RootsWatchedOnce, WatchesInv
      <4>3. WatchesInv' BY <3>0, <3>4, <1>0, <3>5, <3>6 DEF links1, live1, WatchesInv
      <4> QED BY <3>3, <4>1, <4>2, <4>3
  <2>3. CASE ~roots.disposed /\ ~sent
    <3> DEFINE made1 == roots.made + 1
               links1 == roots.links \cup {l}
               watches1 == [roots.watches EXCEPT ![l] = made1]
               of1 == [roots.of EXCEPT ![made1] = l]
               settled1 == roots.settled \cup {made1}
    <3>0. ~roots.disposed /\ made1 \in WatchState /\ made1 \notin KnownState /\ made1 # 0 /\ 1..made1 = KnownState \cup {made1}
      BY <1>2, <2>3, RetryAssumption DEF RootAdded, RootsType, WatchState, KnownState
    <3>1. roots' = [roots EXCEPT !.made = made1, !.links = links1, !.watches = watches1, !.of = of1, !.settled = settled1]
      BY <1>2, <2>3, <3>0 DEF RootAdded, watchStarted, RootsType
    <3>2. made1 \in {0} \cup WatchState /\ links1 \in SUBSET RootLink /\ watches1 \in [RootLink -> {0} \cup WatchState] /\ of1 \in [WatchState -> {0} \cup RootLink] /\ settled1 \in SUBSET WatchState
      BY <1>2, <2>3, <3>0, RetryAssumption DEF RootAdded, watchStarted, RootsType, WatchState
    <3> HIDE DEF made1, links1, watches1, of1, settled1
    <3>3. roots' \in RootsType BY <1>2, <2>3, <3>0, RetryAssumption, <3>1, <3>2 DEF RootsType
    <3>4. /\ roots'.links = links1 /\ roots'.disposed = roots.disposed /\ roots'.watches = watches1
          /\ roots'.made = made1 /\ roots'.of = of1 /\ roots'.live = roots.live
          /\ roots'.settled = settled1 /\ roots'.retry = roots.retry /\ roots'.delay = roots.delay
      BY <3>1, <3>2 DEF RootsType
    <3>5. KnownState' = KnownState \cup {made1} BY <1>2, <2>3, <3>0, <3>4 DEF KnownState
    <3>6. /\ of1[made1] = l /\ watches1[l] = made1 /\ roots.watches[l] = 0
          /\ \A h \in RootLink \ {l} : watches1[h] = roots.watches[h]
          /\ \A k \in KnownState : of1[k] = roots.of[k]
      BY <1>2, <2>3, <3>0, <1>0 DEF of1, watches1, RootAdded, WatchesInv
    <3> QED
      <4>1. RootsWatched'
        BY <3>0, <3>4, <1>0, <3>5, <3>6 DEF links1, settled1, RootsWatched, WatchesInv
      <4>2. RootsWatchedOnce'
        BY <3>0, <3>4, <1>0, <3>5, <3>6 DEF links1, settled1, RootsWatchedOnce, WatchesInv
      <4>3. WatchesInv' BY <3>0, <3>4, <1>0, <3>5, <3>6 DEF links1, settled1, WatchesInv
      <4> QED BY <3>3, <4>1, <4>2, <4>3
  <2> QED BY <2>1, <2>2, <2>3 DEF RootsType
<1>3. ASSUME NEW l \in RootLink, NEW cut \in BOOLEAN, RootRemoved(l, cut)
      PROVE  RootsInv'
  <2>1. CASE roots.watches[l] = 0
    <3> DEFINE links1 == roots.links \ {l}
               watches1 == [roots.watches EXCEPT ![l] = 0]
               settled1 == IF cut THEN roots.settled \cup ({roots.watches[l]} \cap roots.live) ELSE roots.settled
    <3>1. roots' = [roots EXCEPT !.links = links1, !.watches = watches1, !.settled = settled1]
      BY <1>3, <2>1 DEF RootRemoved, watchStopped, RootsType
    <3>2. links1 \in SUBSET RootLink /\ watches1 \in [RootLink -> {0} \cup WatchState] /\ settled1 \in SUBSET WatchState
      BY <1>3, <2>1, RetryAssumption DEF RootRemoved, watchStopped, RootsType, WatchState
    <3> HIDE DEF links1, watches1, settled1
    <3>3. roots' \in RootsType BY <1>3, <2>1, RetryAssumption, <3>1, <3>2 DEF RootsType
    <3>4. /\ roots'.links = links1 /\ roots'.disposed = roots.disposed /\ roots'.watches = watches1
          /\ roots'.made = roots.made /\ roots'.of = roots.of /\ roots'.live = roots.live
          /\ roots'.settled = settled1 /\ roots'.retry = roots.retry /\ roots'.delay = roots.delay
      BY <3>1, <3>2 DEF RootsType
    <3>5. KnownState' = KnownState BY <1>3, <2>1, <3>4 DEF KnownState
    <3> QED
      BY <1>3, <2>1, <3>3, <3>4, <1>0, <3>5 DEF links1, watches1, settled1, RootRemoved, RootsWatched, RootsWatchedOnce, WatchesInv
  <2>2. CASE roots.watches[l] # 0
    <3> DEFINE links1 == roots.links \ {l}
               watches1 == [roots.watches EXCEPT ![l] = 0]
               settled1 == IF cut THEN roots.settled \cup ({roots.watches[l]} \cap roots.live) ELSE roots.settled
               live1 == roots.live \ {roots.watches[l]}
               retry1 == roots.retry \ {roots.watches[l]}
    <3>1. roots' = [roots EXCEPT !.links = links1, !.watches = watches1, !.settled = settled1, !.live = live1, !.retry = retry1]
      BY <1>3, <2>2 DEF RootRemoved, watchStopped, RootsType
    <3>2. links1 \in SUBSET RootLink /\ watches1 \in [RootLink -> {0} \cup WatchState] /\ settled1 \in SUBSET WatchState /\ live1 \in SUBSET WatchState /\ retry1 \in SUBSET WatchState
      BY <1>3, <2>2, RetryAssumption DEF RootRemoved, watchStopped, RootsType, WatchState
    <3> HIDE DEF links1, watches1, settled1, live1, retry1
    <3>3. roots' \in RootsType BY <1>3, <2>2, RetryAssumption, <3>1, <3>2 DEF RootsType
    <3>4. /\ roots'.links = links1 /\ roots'.disposed = roots.disposed /\ roots'.watches = watches1
          /\ roots'.made = roots.made /\ roots'.of = roots.of /\ roots'.live = live1
          /\ roots'.settled = settled1 /\ roots'.retry = retry1 /\ roots'.delay = roots.delay
      BY <3>1, <3>2 DEF RootsType
    <3>5. KnownState' = KnownState BY <1>3, <2>2, <3>4 DEF KnownState
    <3>6. /\ watches1[l] = 0 /\ roots.of[roots.watches[l]] = l
          /\ \A h \in RootLink \ {l} : watches1[h] = roots.watches[h]
      BY <1>3, <2>2, <1>0 DEF watches1, WatchesInv
    <3> QED
      <4>1. RootsWatched'
        BY <1>3, <2>2, <3>4, <1>0, <3>5, <3>6 DEF links1, settled1, live1, retry1, RootRemoved, RootsWatched, WatchesInv
      <4>2. RootsWatchedOnce'
        BY <1>3, <2>2, <3>4, <1>0, <3>5, <3>6 DEF links1, settled1, live1, retry1, RootRemoved, RootsWatchedOnce, WatchesInv
      <4>3. WatchesInv'
        <5>1. (roots.live \cup roots.retry \cup roots.settled \subseteq KnownState)'
          BY <3>4, <3>5 DEF settled1, live1, retry1, WatchesInv
        <5>2. \A k \in KnownState' : roots'.of[k] \in RootLink BY <3>4, <3>5 DEF WatchesInv
        <5>3. ASSUME NEW h \in RootLink
              PROVE  /\ roots'.watches[h] \in {0} \cup KnownState'
                     /\ roots'.watches[h] # 0 => h \in roots'.links /\ roots'.of[roots'.watches[h]] = h
          <6>1. CASE h = l BY <3>4, <3>6, <6>1
          <6>2. CASE h # l
            <7>1. roots'.watches[h] = roots.watches[h] /\ (h \in roots.links => h \in roots'.links)
              BY <3>4, <3>6, <6>2 DEF links1
            <7> QED BY <7>1, <3>4, <3>5 DEF WatchesInv
          <6> QED BY <6>1, <6>2
        <5>4. (roots.settled \cap (roots.live \cup roots.retry) = {})'
          BY <3>4 DEF settled1, live1, retry1, WatchesInv
        <5> QED BY <5>1, <5>2, <5>3, <5>4 DEF WatchesInv
      <4> QED BY <3>3, <4>1, <4>2, <4>3
  <2> QED BY <2>1, <2>2
<1>4. ASSUME NEW s \in WatchState, WatchSettled(s)
      PROVE  RootsInv'
  <2> DEFINE live1 == roots.live \ {s}
             settled1 == roots.settled \cup {s}
  <2>1. roots' = [roots EXCEPT !.live = live1, !.settled = settled1]
    BY <1>4 DEF WatchSettled, RootsType
  <2>2. live1 \in SUBSET WatchState /\ settled1 \in SUBSET WatchState
    BY <1>4, RetryAssumption DEF WatchSettled, RootsType, WatchState
  <2> HIDE DEF live1, settled1
  <2>3. roots' \in RootsType BY <1>4, RetryAssumption, <2>1, <2>2 DEF RootsType
  <2>4. /\ roots'.links = roots.links /\ roots'.disposed = roots.disposed
        /\ roots'.watches = roots.watches /\ roots'.made = roots.made /\ roots'.of = roots.of
        /\ roots'.live = live1 /\ roots'.settled = settled1 /\ roots'.retry = roots.retry
        /\ roots'.delay = roots.delay
    BY <2>1, <2>2 DEF RootsType
  <2>5. KnownState' = KnownState BY <1>4, <2>4 DEF KnownState
  <2> QED
    BY <1>4, <2>3, <2>4, <1>0, <2>5 DEF live1, settled1, WatchSettled, RootsWatched, RootsWatchedOnce, WatchesInv
<1>5. ASSUME NEW s \in WatchState, SettledSeen(s)
      PROVE  RootsInv'
  <2>1. CASE roots.disposed \/ roots.watches[roots.of[s]] # s
    <3> DEFINE settled1 == roots.settled \ {s}
    <3>1. roots' = [roots EXCEPT !.settled = settled1] BY <1>5, <2>1 DEF SettledSeen, RootsType
    <3>2. settled1 \in SUBSET WatchState
      BY <1>5, <2>1, RetryAssumption DEF SettledSeen, RootsType, WatchState
    <3> HIDE DEF settled1
    <3>3. roots' \in RootsType BY <1>5, <2>1, RetryAssumption, <3>1, <3>2 DEF RootsType
    <3>4. /\ roots'.links = roots.links /\ roots'.disposed = roots.disposed
          /\ roots'.watches = roots.watches /\ roots'.made = roots.made /\ roots'.of = roots.of
          /\ roots'.live = roots.live /\ roots'.settled = settled1 /\ roots'.retry = roots.retry
          /\ roots'.delay = roots.delay
      BY <3>1, <3>2 DEF RootsType
    <3>5. KnownState' = KnownState BY <1>5, <2>1, <3>4 DEF KnownState
    <3> QED
      <4>1. RootsWatched'
        BY <1>5, <2>1, <3>4, <1>0, <3>5 DEF settled1, SettledSeen, RootsWatched, WatchesInv
      <4>2. RootsWatchedOnce' BY <3>4, <1>0, <3>5 DEF settled1, RootsWatchedOnce, WatchesInv
      <4>3. WatchesInv' BY <3>4, <3>5 DEF settled1, WatchesInv
      <4> QED BY <3>3, <4>1, <4>2, <4>3
  <2>2. CASE ~(roots.disposed \/ roots.watches[roots.of[s]] # s)
    <3> DEFINE settled1 == roots.settled \ {s}
               retry1 == roots.retry \cup {s}
               delay1 == [roots.delay EXCEPT ![s] = IF 2 * @ < RetryMax THEN 2 * @ ELSE RetryMax]
    <3>1. roots' = [roots EXCEPT !.settled = settled1, !.retry = retry1, !.delay = delay1]
      BY <1>5, <2>2 DEF SettledSeen, RootsType
    <3>2. settled1 \in SUBSET WatchState /\ retry1 \in SUBSET WatchState /\ delay1 \in [WatchState -> RetryMin..RetryMax]
      BY <1>5, <2>2, RetryAssumption DEF SettledSeen, RootsType, WatchState
    <3> HIDE DEF settled1, retry1, delay1
    <3>3. roots' \in RootsType BY <1>5, <2>2, RetryAssumption, <3>1, <3>2 DEF RootsType
    <3>4. /\ roots'.links = roots.links /\ roots'.disposed = roots.disposed
          /\ roots'.watches = roots.watches /\ roots'.made = roots.made /\ roots'.of = roots.of
          /\ roots'.live = roots.live /\ roots'.settled = settled1 /\ roots'.retry = retry1
          /\ roots'.delay = delay1
      BY <3>1, <3>2 DEF RootsType
    <3>5. KnownState' = KnownState BY <1>5, <2>2, <3>4 DEF KnownState
    <3> QED
      BY <1>5, <2>2, <3>3, <3>4, <1>0, <3>5 DEF settled1, retry1, delay1, SettledSeen, RootsWatched, RootsWatchedOnce, WatchesInv
  <2> QED BY <2>1, <2>2
<1>6. ASSUME NEW s \in WatchState, NEW sent \in BOOLEAN, RetryFires(s, sent)
      PROVE  RootsInv'
  <2>1. CASE sent
    <3> DEFINE retry1 == roots.retry \ {s}
               live1 == roots.live \cup {s}
    <3>0. ~roots.disposed /\ roots.of[s] \in roots.links /\ roots.watches[roots.of[s]] = s /\ s # 0 /\ s \in KnownState /\ s \notin roots.live \cup roots.settled
      BY <1>6, <2>1, <1>0 DEF RetryFires, RootsWatchedOnce, WatchesInv
    <3>1. roots' = [roots EXCEPT !.retry = retry1, !.live = live1]
      BY <1>6, <2>1, <3>0 DEF RetryFires, watchStarted, RootsType
    <3>2. retry1 \in SUBSET WatchState /\ live1 \in SUBSET WatchState
      BY <1>6, <2>1, <3>0, RetryAssumption DEF RetryFires, watchStarted, RootsType, WatchState
    <3> HIDE DEF retry1, live1
    <3>3. roots' \in RootsType BY <1>6, <2>1, <3>0, RetryAssumption, <3>1, <3>2 DEF RootsType
    <3>4. /\ roots'.links = roots.links /\ roots'.disposed = roots.disposed
          /\ roots'.watches = roots.watches /\ roots'.made = roots.made /\ roots'.of = roots.of
          /\ roots'.live = live1 /\ roots'.settled = roots.settled /\ roots'.retry = retry1
          /\ roots'.delay = roots.delay
      BY <3>1, <3>2 DEF RootsType
    <3>5. KnownState' = KnownState BY <1>6, <2>1, <3>0, <3>4 DEF KnownState
    <3> QED
      <4>1. RootsWatched' BY <3>0, <3>4, <1>0, <3>5 DEF retry1, live1, RootsWatched, WatchesInv
      <4>2. RootsWatchedOnce'
        BY <3>0, <3>4, <1>0, <3>5 DEF retry1, live1, RootsWatchedOnce, WatchesInv
      <4>3. WatchesInv' BY <3>0, <3>4, <1>0, <3>5 DEF retry1, live1, WatchesInv
      <4> QED BY <3>3, <4>1, <4>2, <4>3
  <2>2. CASE ~sent
    <3> DEFINE retry1 == roots.retry \ {s}
               settled1 == roots.settled \cup {s}
    <3>0. ~roots.disposed /\ roots.of[s] \in roots.links /\ roots.watches[roots.of[s]] = s /\ s # 0 /\ s \in KnownState /\ s \notin roots.live \cup roots.settled
      BY <1>6, <2>2, <1>0 DEF RetryFires, RootsWatchedOnce, WatchesInv
    <3>1. roots' = [roots EXCEPT !.retry = retry1, !.settled = settled1]
      BY <1>6, <2>2, <3>0 DEF RetryFires, watchStarted, RootsType
    <3>2. retry1 \in SUBSET WatchState /\ settled1 \in SUBSET WatchState
      BY <1>6, <2>2, <3>0, RetryAssumption DEF RetryFires, watchStarted, RootsType, WatchState
    <3> HIDE DEF retry1, settled1
    <3>3. roots' \in RootsType BY <1>6, <2>2, <3>0, RetryAssumption, <3>1, <3>2 DEF RootsType
    <3>4. /\ roots'.links = roots.links /\ roots'.disposed = roots.disposed
          /\ roots'.watches = roots.watches /\ roots'.made = roots.made /\ roots'.of = roots.of
          /\ roots'.live = roots.live /\ roots'.settled = settled1 /\ roots'.retry = retry1
          /\ roots'.delay = roots.delay
      BY <3>1, <3>2 DEF RootsType
    <3>5. KnownState' = KnownState BY <1>6, <2>2, <3>0, <3>4 DEF KnownState
    <3> QED
      <4>1. RootsWatched' BY <3>0, <3>4, <1>0, <3>5 DEF retry1, settled1, RootsWatched, WatchesInv
      <4>2. RootsWatchedOnce'
        BY <3>0, <3>4, <1>0, <3>5 DEF retry1, settled1, RootsWatchedOnce, WatchesInv
      <4>3. WatchesInv' BY <3>0, <3>4, <1>0, <3>5 DEF retry1, settled1, WatchesInv
      <4> QED BY <3>3, <4>1, <4>2, <4>3
  <2> QED BY <2>1, <2>2
<1>7. ASSUME NEW s \in WatchState, WatchEstablished(s)
      PROVE  RootsInv'
  <2> DEFINE delay1 == [roots.delay EXCEPT ![s] = RetryMin]
  <2>1. roots' = [roots EXCEPT !.delay = delay1] BY <1>7 DEF WatchEstablished, RootsType
  <2>2. delay1 \in [WatchState -> RetryMin..RetryMax]
    BY <1>7, RetryAssumption DEF WatchEstablished, RootsType, WatchState
  <2> HIDE DEF delay1
  <2>3. roots' \in RootsType BY <1>7, RetryAssumption, <2>1, <2>2 DEF RootsType
  <2>4. /\ roots'.links = roots.links /\ roots'.disposed = roots.disposed
        /\ roots'.watches = roots.watches /\ roots'.made = roots.made /\ roots'.of = roots.of
        /\ roots'.live = roots.live /\ roots'.settled = roots.settled
        /\ roots'.retry = roots.retry /\ roots'.delay = delay1
    BY <2>1, <2>2 DEF RootsType
  <2>5. KnownState' = KnownState BY <1>7, <2>4 DEF KnownState
  <2> QED BY <1>7, <2>3, <2>4, <1>0, <2>5 DEF delay1, WatchEstablished, RootsWatched, RootsWatchedOnce, WatchesInv
<1>8. CASE RootsDispose
  <2> DEFINE watches1 == [l \in RootLink |-> 0]
  <2>1. roots' = [roots EXCEPT !.disposed = TRUE, !.watches = watches1, !.live = {}, !.retry = {}]
    BY <1>8 DEF RootsDispose, RootsType
  <2>2. watches1 \in [RootLink -> {0} \cup WatchState]
    BY <1>8, RetryAssumption DEF RootsDispose, RootsType, WatchState
  <2> HIDE DEF watches1
  <2>3. roots' \in RootsType BY <1>8, RetryAssumption, <2>1, <2>2 DEF RootsType
  <2>4. /\ roots'.links = roots.links /\ roots'.disposed = TRUE /\ roots'.watches = watches1
        /\ roots'.made = roots.made /\ roots'.of = roots.of /\ roots'.live = {}
        /\ roots'.settled = roots.settled /\ roots'.retry = {} /\ roots'.delay = roots.delay
    BY <2>1, <2>2 DEF RootsType
  <2>5. KnownState' = KnownState BY <1>8, <2>4 DEF KnownState
  <2> QED BY <1>8, <2>3, <2>4, <1>0, <2>5 DEF watches1, RootsDispose, RootsWatched, RootsWatchedOnce, WatchesInv
<1> QED BY <1>1, <1>2, <1>3, <1>4, <1>5, <1>6, <1>7, <1>8 DEF RootsNext

LEMMA QueryInitial == QueryInit => QueryInv
BY DEF QueryInit, QueryInv, QueryType, rootsWith

LEMMA QueryStep ==
    ASSUME QueryInv, [QueryNext]_query
    PROVE  QueryInv'
<1>1. CASE UNCHANGED query
  <2> USE DEF QueryInv, QueryType, rootsWith
  <2> QED BY <1>1
<1>2. ASSUME NEW l \in QueriedLink, NEW outcome \in {"result", "error"}, RootAnswers(l, outcome)
      PROVE  QueryInv'
  <2> USE DEF QueryInv, QueryType, rootsWith
  <2> QED BY <1>2 DEF RootAnswers
<1>3. CASE BudgetElapses
  <2> USE DEF QueryInv, QueryType, rootsWith
  <2> QED BY <1>3 DEF BudgetElapses
<1>4. CASE QueryAnswered
  <2> DEFINE got == rootsWith("result")
             open == rootsWith("pending")
  <2>1. got \in SUBSET QueriedLink /\ open \in SUBSET QueriedLink
    BY DEF QueryInv, QueryType, rootsWith
  <2>2. query' = [query EXCEPT !.state = "answered", !.results = got, !.late = open]
    BY <1>4 DEF QueryAnswered
  <2> HIDE DEF got, open
  <2>3. /\ query' \in QueryType /\ query'.asked = query.asked /\ query'.outcome = query.outcome
        /\ query'.state = "answered" /\ query'.results = got /\ query'.late = open /\ query'.news = query.news
    BY <2>1, <2>2 DEF QueryInv, QueryType
  <2>4. rootsWith("result")' = rootsWith("result") /\ rootsWith("pending")' = rootsWith("pending")
    BY <2>3 DEF rootsWith
  <2> QED BY <1>4, <2>3, <2>4 DEF got, open, QueryAnswered, QueryInv, rootsWith
<1>5. CASE LateAnswers
  <2> DEFINE told == (query.late \cap rootsWith("result") # {})
  <2>1. told \in BOOLEAN BY DEF QueryInv, QueryType, rootsWith
  <2>2. query' = [query EXCEPT !.state = "over", !.news = told] BY <1>5 DEF LateAnswers
  <2> HIDE DEF told
  <2>3. /\ query' \in QueryType /\ query'.asked = query.asked /\ query'.outcome = query.outcome
        /\ query'.state = "over" /\ query'.results = query.results /\ query'.late = query.late /\ query'.news = told
    BY <2>1, <2>2 DEF QueryInv, QueryType
  <2>4. rootsWith("result")' = rootsWith("result") /\ rootsWith("pending")' = rootsWith("pending")
    BY <2>3 DEF rootsWith
  <2> QED BY <1>5, <2>3, <2>4 DEF told, LateAnswers, QueryInv, rootsWith
<1> QED BY <1>1, <1>2, <1>3, <1>4, <1>5, Zenon DEF QueryNext

-----------------------------------------------------------------------------
(* The merged manifest (AggregatingManifest).                              *)

MergeType ==
    [listed : BOOLEAN, unused : SUBSET ManifestEntry, doc : SUBSET ManifestEntry, watched : BOOLEAN,
     call : {"down", "opening", "up"}, tick : BOOLEAN, retry : BOOLEAN,
     read : {"none", "asking", "answered", "leaving"}, snap : SUBSET ManifestEntry, reread : BOOLEAN,
     behind : BOOLEAN, settled : BOOLEAN, cache : SUBSET ManifestEntry, failed : BOOLEAN, lost : BOOLEAN,
     orphans : SUBSET SUBSET ManifestEntry, changed : BOOLEAN, emitted : BOOLEAN,
     view : SUBSET ManifestEntry, decide : {"none", "sent", "reading"}, writing : SUBSET ManifestEntry,
     done : SUBSET ManifestEntry, same : BOOLEAN, missed : BOOLEAN, faults : 0..MaxMergeFaults]

\* The watch: without one nothing is cached or read; a watch that is down will be retried, and
\* what changes while it opens is covered by a read that waits for it or will be repeated.
WatchInv(s) ==
    /\ ~s.watched => s.call = "down" /\ s.read = "none" /\ ~s.tick /\ ~s.retry /\ s.cache = {}
    /\ s.watched /\ s.call = "down" => s.retry
    /\ s.call = "opening" =>
        \/ s.read = "asking" /\ (s.behind \/ s.reread)
        \/ s.read = "answered" /\ s.reread
        \/ s.read \in {"none", "leaving"} /\ (s.lost \/ s.failed)
    /\ s.read # "answered" => s.snap = {}

\* What was read, or is cached, and is no longer right is about to be read again.
FreshInv(s) ==
    /\ s.watched /\ s.read = "answered" /\ s.snap # s.doc => s.tick \/ s.retry \/ s.reread
    /\ s.watched /\ ~s.failed /\ ~s.lost /\ s.read \in {"none", "leaving"} /\ s.cache # s.doc
       => s.tick \/ s.retry

ToldInv(s) ==
    /\ s.view # s.cache => s.emitted
    /\ s.listed # s.watched => s.changed \/ s.emitted

\* A decision that was taken never comes back, neither to the source nor, unless the source was
\* another one by then, through a read that was under way, because that one is repeated.
DecidedInv(s) ==
    /\ s.unused \cap s.doc = {}
    /\ s.done \cap (s.unused \cup s.doc \cup s.snap \cup s.cache) = {}
    /\ s.decide = "reading" =>
        /\ s.writing \cap (s.unused \cup s.doc) = {}
        /\ s.read \in {"none", "leaving"} /\ ~s.lost /\ ~s.missed => s.writing \cap s.cache = {}
        /\ s.read = "answered" /\ ~s.reread /\ ~s.missed => s.writing \cap s.snap = {}

MergeRest(s) == WatchInv(s) /\ FreshInv(s) /\ ToldInv(s) /\ DecidedInv(s)

MergeInv == merge \in MergeType /\ MergeRest(merge)

LEMMA MergeInitial == MergeInit => MergeInv
BY MergeAssumption DEF MergeInit, MergeInv, MergeType, MergeRest, WatchInv, FreshInv, ToldInv, DecidedInv

\* What holds when a read is asked for, although something was just consumed or changed.
Readable(s) ==
    /\ s.watched
    /\ s.call = "down" => s.retry
    /\ s.read # "answered" => s.snap = {}
    /\ ToldInv(s)
    /\ s.unused \cap s.doc = {}
    /\ s.done \cap (s.unused \cup s.doc \cup s.snap \cup s.cache) = {}
    /\ s.decide = "reading" => s.writing \cap (s.unused \cup s.doc) = {}

LEMMA AskedType ==
    ASSUME NEW t \in MergeType, NEW behind \in BOOLEAN
    PROVE  [t EXCEPT !.read = "asking", !.reread = FALSE, !.lost = FALSE, !.snap = {}, !.behind = behind]
             \in MergeType
BY DEF MergeType

\* The read that is asked for, or repeated, makes it right again; one that falls into the gap
\* at the end of a read is lost.
LEMMA ReadIntoKeeps ==
    ASSUME NEW s \in MergeType, Readable(s)
    PROVE  readInto(s) \in MergeType /\ MergeRest(readInto(s))
<1> DEFINE t == readInto(s)
<1>1. CASE s.read = "none"
  <2> DEFINE behind1 == (s.call = "opening")
  <2>1. t = [s EXCEPT !.read = "asking", !.reread = FALSE, !.lost = FALSE, !.snap = {},
             !.behind = behind1]
    BY <1>1 DEF readInto, readAsked
  <2> HIDE DEF t
  <2>2. behind1 \in BOOLEAN BY <1>1 DEF MergeType
  <2> HIDE DEF behind1
  <2>3. t \in MergeType BY <2>1, <2>2 DEF MergeType
  <2>4. /\ t.listed = s.listed /\ t.unused = s.unused /\ t.doc = s.doc /\ t.watched = s.watched
        /\ t.call = s.call /\ t.tick = s.tick /\ t.retry = s.retry /\ t.read = "asking"
        /\ t.snap = {} /\ t.reread = FALSE /\ t.behind = behind1 /\ t.settled = s.settled
        /\ t.cache = s.cache /\ t.failed = s.failed /\ t.lost = FALSE /\ t.orphans = s.orphans
        /\ t.changed = s.changed /\ t.emitted = s.emitted /\ t.view = s.view
        /\ t.decide = s.decide /\ t.writing = s.writing /\ t.done = s.done /\ t.faults = s.faults /\ t.missed = s.missed
    BY <2>1, <2>2 DEF MergeType
  <2>6. WatchInv(t) BY <1>1, <2>4 DEF behind1, WatchInv, Readable, MergeType
  <2>7. FreshInv(t) BY <1>1, <2>4 DEF behind1, FreshInv, Readable, MergeType
  <2>8. ToldInv(t) BY <2>4, Zenon DEF ToldInv, Readable
  <2>9. DecidedInv(t) BY <1>1, <2>4 DEF behind1, DecidedInv, Readable, MergeType
  <2> QED BY <2>3, <2>6, <2>7, <2>8, <2>9 DEF t, MergeRest
<1>2. CASE s.read # "none"
  <2> DEFINE lost1 == (s.read = "leaving")
  <2>1. t = [s EXCEPT !.reread = TRUE, !.lost = lost1] BY <1>2 DEF readInto
  <2> HIDE DEF t
  <2>2. lost1 \in BOOLEAN BY <1>2 DEF MergeType
  <2> HIDE DEF lost1
  <2>3. t \in MergeType BY <2>1, <2>2 DEF MergeType
  <2>4. /\ t.listed = s.listed /\ t.unused = s.unused /\ t.doc = s.doc /\ t.watched = s.watched
        /\ t.call = s.call /\ t.tick = s.tick /\ t.retry = s.retry /\ t.read = s.read
        /\ t.snap = s.snap /\ t.reread = TRUE /\ t.behind = s.behind /\ t.settled = s.settled
        /\ t.cache = s.cache /\ t.failed = s.failed /\ t.lost = lost1 /\ t.orphans = s.orphans
        /\ t.changed = s.changed /\ t.emitted = s.emitted /\ t.view = s.view
        /\ t.decide = s.decide /\ t.writing = s.writing /\ t.done = s.done /\ t.faults = s.faults /\ t.missed = s.missed
    BY <2>1, <2>2 DEF MergeType
  <2>6. WatchInv(t) BY <1>2, <2>4 DEF lost1, WatchInv, Readable, MergeType
  <2>7. FreshInv(t) BY <1>2, <2>4 DEF lost1, FreshInv, Readable, MergeType
  <2>8. ToldInv(t) BY <2>4, Zenon DEF ToldInv, Readable
  <2>9. DecidedInv(t) BY <1>2, <2>4 DEF lost1, DecidedInv, Readable, MergeType
  <2> QED BY <2>3, <2>6, <2>7, <2>8, <2>9 DEF t, MergeRest
<1> QED BY <1>1, <1>2

\* What holds when a read is back with entries: unless it is repeated, they are the document,
\* or something will have them read again.
Cachable(s, entries) ==
    /\ s.watched /\ s.read \in {"asking", "answered"}
    /\ s.call = "down" => s.retry
    /\ ToldInv(s)
    /\ s.unused \cap s.doc = {}
    /\ s.done \cap (s.unused \cup s.doc \cup entries) = {}
    /\ s.decide = "reading" => s.writing \cap (s.unused \cup s.doc) = {}
    /\ ~s.reread =>
        /\ s.call = "opening" => s.failed
        /\ ~s.failed /\ entries # s.doc => s.tick \/ s.retry
        /\ s.decide = "reading" /\ ~s.missed => s.writing \cap entries = {}

LEMMA CachedKeeps ==
    ASSUME NEW s \in MergeType, NEW entries \in SUBSET ManifestEntry, Cachable(s, entries)
    PROVE  cached(s, entries) \in MergeType /\ MergeRest(cached(s, entries))
<1> DEFINE t == [s EXCEPT !.cache = entries, !.settled = TRUE, !.emitted = @ \/ ~s.settled \/ entries # s.cache]
           c == cached(s, entries)
<1> DEFINE emitted1 == (s.emitted \/ ~s.settled \/ entries # s.cache)
<1>1. t = [s EXCEPT !.cache = entries, !.settled = TRUE, !.emitted = emitted1] BY DEF MergeType
<1> HIDE DEF t
<1>2. emitted1 \in BOOLEAN BY DEF MergeType
<1> HIDE DEF emitted1
<1>3. t \in MergeType BY <1>1, <1>2 DEF MergeType
<1>4. /\ t.listed = s.listed /\ t.unused = s.unused /\ t.doc = s.doc /\ t.watched = s.watched
      /\ t.call = s.call /\ t.tick = s.tick /\ t.retry = s.retry /\ t.read = s.read
      /\ t.snap = s.snap /\ t.reread = s.reread /\ t.behind = s.behind /\ t.settled = TRUE
      /\ t.cache = entries /\ t.failed = s.failed /\ t.lost = s.lost /\ t.orphans = s.orphans
      /\ t.changed = s.changed /\ t.emitted = emitted1 /\ t.view = s.view
      /\ t.decide = s.decide /\ t.writing = s.writing /\ t.done = s.done /\ t.faults = s.faults /\ t.missed = s.missed
  BY <1>1, <1>2 DEF MergeType
<1>5. CASE s.reread
  <2> DEFINE behind1 == (t.call = "opening")
  <2>1. c = [t EXCEPT !.read = "asking", !.reread = FALSE, !.lost = FALSE, !.snap = {},
             !.behind = behind1]
    BY <1>5, <1>4 DEF cached, readAsked, t
  <2> HIDE DEF c
  <2>2. behind1 \in BOOLEAN BY <1>5, <1>4, <1>3 DEF MergeType
  <2> HIDE DEF behind1
  <2>3. c \in MergeType BY <2>1, <2>2, <1>3, AskedType
  <2>4. /\ c.listed = t.listed /\ c.unused = t.unused /\ c.doc = t.doc /\ c.watched = t.watched
        /\ c.call = t.call /\ c.tick = t.tick /\ c.retry = t.retry /\ c.read = "asking"
        /\ c.snap = {} /\ c.reread = FALSE /\ c.behind = behind1 /\ c.settled = t.settled
        /\ c.cache = t.cache /\ c.failed = t.failed /\ c.lost = FALSE /\ c.orphans = t.orphans
        /\ c.changed = t.changed /\ c.emitted = t.emitted /\ c.view = t.view
        /\ c.decide = t.decide /\ c.writing = t.writing /\ c.done = t.done /\ c.faults = t.faults /\ c.missed = t.missed
    BY <2>1, <2>2, <1>3 DEF MergeType
  <2>5. c \in MergeType /\ MergeRest(c)
    <3>1. WatchInv(c)
      BY <1>3, <1>4, <1>5, <2>4, <2>2 DEF emitted1, behind1, WatchInv, Cachable, MergeType
    <3>2. FreshInv(c)
      BY <1>3, <1>4, <1>5, <2>4, <2>2 DEF emitted1, behind1, FreshInv, Cachable, MergeType
    <3>3. ToldInv(c)
      <4>1. (s.emitted => c.emitted) /\ (entries # s.cache => c.emitted)
        BY <1>4, <2>4, Zenon DEF emitted1
      <4> QED
        <5>1. (s.view # s.cache => s.emitted) /\ (s.listed # s.watched => s.changed \/ s.emitted)
          BY Zenon DEF Cachable, ToldInv
        <5>2. /\ c.view = s.view /\ c.cache = entries /\ c.listed = s.listed /\ c.watched = s.watched
              /\ c.changed = s.changed
          BY <1>4, <2>4, Zenon
        <5>3. c.view # c.cache => c.emitted BY <4>1, <5>1, <5>2, Zenon
        <5>4. c.listed # c.watched => c.changed \/ c.emitted BY <4>1, <5>1, <5>2, Zenon
        <5> QED BY <5>3, <5>4, Zenon DEF ToldInv
    <3>4. DecidedInv(c)
      BY <1>3, <1>4, <1>5, <2>4, <2>2 DEF emitted1, behind1, DecidedInv, Cachable, MergeType
    <3> QED BY <2>3, <3>1, <3>2, <3>3, <3>4 DEF MergeRest
  <2> QED BY <2>5 DEF c
<1>6. CASE ~s.reread
  <2>1. c = [t EXCEPT !.read = "leaving", !.snap = {}] BY <1>6, <1>4 DEF cached, t
  <2> HIDE DEF c
  <2>2. c \in MergeType BY <2>1, <1>3 DEF MergeType
  <2>3. /\ c.listed = t.listed /\ c.unused = t.unused /\ c.doc = t.doc /\ c.watched = t.watched
        /\ c.call = t.call /\ c.tick = t.tick /\ c.retry = t.retry /\ c.read = "leaving"
        /\ c.snap = {} /\ c.reread = t.reread /\ c.behind = t.behind /\ c.settled = t.settled
        /\ c.cache = t.cache /\ c.failed = t.failed /\ c.lost = t.lost /\ c.orphans = t.orphans
        /\ c.changed = t.changed /\ c.emitted = t.emitted /\ c.view = t.view
        /\ c.decide = t.decide /\ c.writing = t.writing /\ c.done = t.done /\ c.faults = t.faults /\ c.missed = t.missed
    BY <2>1, <1>3 DEF MergeType
  <2>5. c \in MergeType /\ MergeRest(c)
    <3>1. WatchInv(c) BY <1>3, <1>4, <1>6, <2>3 DEF emitted1, WatchInv, Cachable, MergeType
    <3>2. FreshInv(c) BY <1>3, <1>4, <1>6, <2>3 DEF emitted1, FreshInv, Cachable, MergeType
    <3>3. ToldInv(c)
      <4>1. (s.emitted => c.emitted) /\ (entries # s.cache => c.emitted)
        BY <1>4, <2>3, Zenon DEF emitted1
      <4> QED
        <5>1. (s.view # s.cache => s.emitted) /\ (s.listed # s.watched => s.changed \/ s.emitted)
          BY Zenon DEF Cachable, ToldInv
        <5>2. /\ c.view = s.view /\ c.cache = entries /\ c.listed = s.listed /\ c.watched = s.watched
              /\ c.changed = s.changed
          BY <1>4, <2>3, Zenon
        <5>3. c.view # c.cache => c.emitted BY <4>1, <5>1, <5>2, Zenon
        <5>4. c.listed # c.watched => c.changed \/ c.emitted BY <4>1, <5>1, <5>2, Zenon
        <5> QED BY <5>3, <5>4, Zenon DEF ToldInv
    <3>4. DecidedInv(c) BY <1>3, <1>4, <1>6, <2>3 DEF emitted1, DecidedInv, Cachable, MergeType
    <3> QED BY <2>2, <3>1, <3>2, <3>3, <3>4 DEF MergeRest
  <2> QED BY <2>5 DEF c
<1> QED BY <1>5, <1>6 DEF MergeType

LEMMA MergeStep ==
    ASSUME MergeInv, [MergeNext]_merge
    PROVE  MergeInv'
<1> USE DEF MergeInv
<1>1. CASE UNCHANGED merge BY <1>1 DEF MergeRest, WatchInv, FreshInv, ToldInv, DecidedInv
<1>2. CASE SourceListed
  <2> DEFINE listed1 == ~merge.listed
  <2>1. merge' = [merge EXCEPT !.listed = listed1, !.changed = TRUE] BY <1>2 DEF SourceListed
  <2>2. listed1 \in BOOLEAN BY <1>2, MergeAssumption DEF MergeType, SourceListed
  <2> HIDE DEF listed1
  <2>3. merge' \in MergeType BY <2>1, <2>2 DEF MergeType
  <2>4. /\ merge'.listed = listed1 /\ merge'.unused = merge.unused /\ merge'.doc = merge.doc
        /\ merge'.watched = merge.watched /\ merge'.call = merge.call /\ merge'.tick = merge.tick
        /\ merge'.retry = merge.retry /\ merge'.read = merge.read /\ merge'.snap = merge.snap
        /\ merge'.reread = merge.reread /\ merge'.behind = merge.behind
        /\ merge'.settled = merge.settled /\ merge'.cache = merge.cache
        /\ merge'.failed = merge.failed /\ merge'.lost = merge.lost
        /\ merge'.orphans = merge.orphans /\ merge'.changed = TRUE
        /\ merge'.emitted = merge.emitted /\ merge'.view = merge.view
        /\ merge'.decide = merge.decide /\ merge'.writing = merge.writing
        /\ merge'.done = merge.done /\ merge'.faults = merge.faults /\ merge'.missed = merge.missed
    BY <2>1, <2>2 DEF MergeType
  <2> QED
    BY <1>2, <2>3, <2>4, <2>2 DEF listed1, SourceListed, MergeRest, WatchInv, FreshInv, ToldInv, DecidedInv, MergeType
<1>3. CASE DirectoryTells
  <2>1. merge' = [merge EXCEPT !.changed = FALSE, !.emitted = TRUE] BY <1>3 DEF DirectoryTells
  <2>2. merge' \in MergeType BY <2>1 DEF MergeType
  <2>3. /\ merge'.listed = merge.listed /\ merge'.unused = merge.unused /\ merge'.doc = merge.doc
        /\ merge'.watched = merge.watched /\ merge'.call = merge.call /\ merge'.tick = merge.tick
        /\ merge'.retry = merge.retry /\ merge'.read = merge.read /\ merge'.snap = merge.snap
        /\ merge'.reread = merge.reread /\ merge'.behind = merge.behind
        /\ merge'.settled = merge.settled /\ merge'.cache = merge.cache
        /\ merge'.failed = merge.failed /\ merge'.lost = merge.lost
        /\ merge'.orphans = merge.orphans /\ merge'.changed = FALSE /\ merge'.emitted = TRUE
        /\ merge'.view = merge.view /\ merge'.decide = merge.decide
        /\ merge'.writing = merge.writing /\ merge'.done = merge.done
        /\ merge'.faults = merge.faults /\ merge'.missed = merge.missed
    BY <2>1 DEF MergeType
  <2> QED BY <1>3, <2>2, <2>3 DEF DirectoryTells, MergeRest, WatchInv, FreshInv, ToldInv, DecidedInv, MergeType
<1>4. ASSUME NEW e \in ManifestEntry, EntryParked(e)
      PROVE  MergeInv'
  <2> DEFINE unused1 == merge.unused \ {e}
             doc1 == merge.doc \cup {e}
             tick1 == (merge.tick \/ merge.call = "up")
  <2>1. merge' = [merge EXCEPT !.unused = unused1, !.doc = doc1, !.tick = tick1]
    BY <1>4 DEF EntryParked, sourceTicked, MergeType
  <2>2. unused1 \in SUBSET ManifestEntry /\ doc1 \in SUBSET ManifestEntry /\ tick1 \in BOOLEAN
    BY <1>4, MergeAssumption DEF MergeType, EntryParked
  <2> HIDE DEF unused1, doc1, tick1
  <2>3. merge' \in MergeType BY <2>1, <2>2 DEF MergeType
  <2>4. /\ merge'.listed = merge.listed /\ merge'.unused = unused1 /\ merge'.doc = doc1
        /\ merge'.watched = merge.watched /\ merge'.call = merge.call /\ merge'.tick = tick1
        /\ merge'.retry = merge.retry /\ merge'.read = merge.read /\ merge'.snap = merge.snap
        /\ merge'.reread = merge.reread /\ merge'.behind = merge.behind
        /\ merge'.settled = merge.settled /\ merge'.cache = merge.cache
        /\ merge'.failed = merge.failed /\ merge'.lost = merge.lost
        /\ merge'.orphans = merge.orphans /\ merge'.changed = merge.changed
        /\ merge'.emitted = merge.emitted /\ merge'.view = merge.view
        /\ merge'.decide = merge.decide /\ merge'.writing = merge.writing
        /\ merge'.done = merge.done /\ merge'.faults = merge.faults /\ merge'.missed = merge.missed
    BY <2>1, <2>2 DEF MergeType
  <2> QED
    BY <1>4, <2>3, <2>4, <2>2 DEF unused1, doc1, tick1, EntryParked, MergeRest, WatchInv, FreshInv, ToldInv, DecidedInv, MergeType
<1>5. ASSUME NEW e \in ManifestEntry, EntrySettled(e)
      PROVE  MergeInv'
  <2> DEFINE doc1 == merge.doc \ {e}
             tick1 == (merge.tick \/ merge.call = "up")
  <2>1. merge' = [merge EXCEPT !.doc = doc1, !.tick = tick1]
    BY <1>5 DEF EntrySettled, sourceTicked, MergeType
  <2>2. doc1 \in SUBSET ManifestEntry /\ tick1 \in BOOLEAN
    BY <1>5, MergeAssumption DEF MergeType, EntrySettled
  <2> HIDE DEF doc1, tick1
  <2>3. merge' \in MergeType BY <2>1, <2>2 DEF MergeType
  <2>4. /\ merge'.listed = merge.listed /\ merge'.unused = merge.unused /\ merge'.doc = doc1
        /\ merge'.watched = merge.watched /\ merge'.call = merge.call /\ merge'.tick = tick1
        /\ merge'.retry = merge.retry /\ merge'.read = merge.read /\ merge'.snap = merge.snap
        /\ merge'.reread = merge.reread /\ merge'.behind = merge.behind
        /\ merge'.settled = merge.settled /\ merge'.cache = merge.cache
        /\ merge'.failed = merge.failed /\ merge'.lost = merge.lost
        /\ merge'.orphans = merge.orphans /\ merge'.changed = merge.changed
        /\ merge'.emitted = merge.emitted /\ merge'.view = merge.view
        /\ merge'.decide = merge.decide /\ merge'.writing = merge.writing
        /\ merge'.done = merge.done /\ merge'.faults = merge.faults /\ merge'.missed = merge.missed
    BY <2>1, <2>2 DEF MergeType
  <2> QED
    <3>1. WatchInv(merge')
      BY <1>5, <2>4, <2>2 DEF doc1, tick1, EntrySettled, MergeRest, MergeType, WatchInv
    <3>2. FreshInv(merge')
      BY <1>5, <2>4, <2>2 DEF doc1, tick1, EntrySettled, MergeRest, MergeType, WatchInv, FreshInv
    <3>3. ToldInv(merge')
      BY <1>5, <2>4, <2>2 DEF doc1, tick1, EntrySettled, MergeRest, MergeType, ToldInv
    <3>4. DecidedInv(merge')
      BY <1>5, <2>4, <2>2 DEF doc1, tick1, EntrySettled, MergeRest, MergeType, DecidedInv
    <3> QED BY <2>3, <3>1, <3>2, <3>3, <3>4 DEF MergeRest
<1>6. ASSUME NEW e \in ManifestEntry, DecisionSent(e)
      PROVE  MergeInv'
  <2> DEFINE writing1 == {e}
  <2>1. merge' = [merge EXCEPT !.decide = "sent", !.writing = writing1, !.same = TRUE, !.missed = FALSE] BY <1>6 DEF DecisionSent
  <2>2. writing1 \in SUBSET ManifestEntry BY <1>6, MergeAssumption DEF MergeType, DecisionSent
  <2> HIDE DEF writing1
  <2>3. merge' \in MergeType BY <2>1, <2>2 DEF MergeType
  <2>4. /\ merge'.listed = merge.listed /\ merge'.unused = merge.unused /\ merge'.doc = merge.doc
        /\ merge'.watched = merge.watched /\ merge'.call = merge.call /\ merge'.tick = merge.tick
        /\ merge'.retry = merge.retry /\ merge'.read = merge.read /\ merge'.snap = merge.snap
        /\ merge'.reread = merge.reread /\ merge'.behind = merge.behind
        /\ merge'.settled = merge.settled /\ merge'.cache = merge.cache
        /\ merge'.failed = merge.failed /\ merge'.lost = merge.lost
        /\ merge'.orphans = merge.orphans /\ merge'.changed = merge.changed
        /\ merge'.emitted = merge.emitted /\ merge'.view = merge.view /\ merge'.decide = "sent"
        /\ merge'.writing = writing1 /\ merge'.done = merge.done /\ merge'.faults = merge.faults /\ merge'.missed = FALSE
    BY <2>1, <2>2 DEF MergeType
  <2> QED
    <3>1. WatchInv(merge') BY <2>4, Zenon DEF MergeRest, WatchInv
    <3>2. FreshInv(merge') BY <2>4, Zenon DEF MergeRest, FreshInv
    <3>3. ToldInv(merge') BY <2>4, Zenon DEF MergeRest, ToldInv
    <3>4. DecidedInv(merge') BY <2>4 DEF MergeRest, DecidedInv
    <3> QED BY <2>3, <3>1, <3>2, <3>3, <3>4 DEF MergeRest
<1>7. CASE SourceSubscribes
  <2>1. merge' = [merge EXCEPT !.call = "up"] BY <1>7 DEF SourceSubscribes
  <2>2. merge' \in MergeType BY <2>1 DEF MergeType
  <2>3. /\ merge'.listed = merge.listed /\ merge'.unused = merge.unused /\ merge'.doc = merge.doc
        /\ merge'.watched = merge.watched /\ merge'.call = "up" /\ merge'.tick = merge.tick
        /\ merge'.retry = merge.retry /\ merge'.read = merge.read /\ merge'.snap = merge.snap
        /\ merge'.reread = merge.reread /\ merge'.behind = merge.behind
        /\ merge'.settled = merge.settled /\ merge'.cache = merge.cache
        /\ merge'.failed = merge.failed /\ merge'.lost = merge.lost
        /\ merge'.orphans = merge.orphans /\ merge'.changed = merge.changed
        /\ merge'.emitted = merge.emitted /\ merge'.view = merge.view
        /\ merge'.decide = merge.decide /\ merge'.writing = merge.writing
        /\ merge'.done = merge.done /\ merge'.faults = merge.faults /\ merge'.missed = merge.missed
    BY <2>1 DEF MergeType
  <2> QED BY <1>7, <2>2, <2>3 DEF SourceSubscribes, MergeRest, WatchInv, FreshInv, ToldInv, DecidedInv, MergeType
<1>8. CASE SourceAnswers
  <2>1. merge' = [merge EXCEPT !.read = "answered", !.snap = merge.doc, !.behind = FALSE]
    BY <1>8 DEF SourceAnswers
  <2>2. merge' \in MergeType BY <2>1 DEF MergeType
  <2>3. /\ merge'.listed = merge.listed /\ merge'.unused = merge.unused /\ merge'.doc = merge.doc
        /\ merge'.watched = merge.watched /\ merge'.call = merge.call /\ merge'.tick = merge.tick
        /\ merge'.retry = merge.retry /\ merge'.read = "answered" /\ merge'.snap = merge.doc
        /\ merge'.reread = merge.reread /\ merge'.behind = FALSE
        /\ merge'.settled = merge.settled /\ merge'.cache = merge.cache
        /\ merge'.failed = merge.failed /\ merge'.lost = merge.lost
        /\ merge'.orphans = merge.orphans /\ merge'.changed = merge.changed
        /\ merge'.emitted = merge.emitted /\ merge'.view = merge.view
        /\ merge'.decide = merge.decide /\ merge'.writing = merge.writing
        /\ merge'.done = merge.done /\ merge'.faults = merge.faults /\ merge'.missed = merge.missed
    BY <2>1 DEF MergeType
  <2> QED BY <1>8, <2>2, <2>3 DEF SourceAnswers, MergeRest, WatchInv, FreshInv, ToldInv, DecidedInv, MergeType
<1>9. CASE SourceReadLeft
  <2>1. merge' = [merge EXCEPT !.read = "none"] BY <1>9 DEF SourceReadLeft
  <2>2. merge' \in MergeType BY <2>1 DEF MergeType
  <2>3. /\ merge'.listed = merge.listed /\ merge'.unused = merge.unused /\ merge'.doc = merge.doc
        /\ merge'.watched = merge.watched /\ merge'.call = merge.call /\ merge'.tick = merge.tick
        /\ merge'.retry = merge.retry /\ merge'.read = "none" /\ merge'.snap = merge.snap
        /\ merge'.reread = merge.reread /\ merge'.behind = merge.behind
        /\ merge'.settled = merge.settled /\ merge'.cache = merge.cache
        /\ merge'.failed = merge.failed /\ merge'.lost = merge.lost
        /\ merge'.orphans = merge.orphans /\ merge'.changed = merge.changed
        /\ merge'.emitted = merge.emitted /\ merge'.view = merge.view
        /\ merge'.decide = merge.decide /\ merge'.writing = merge.writing
        /\ merge'.done = merge.done /\ merge'.faults = merge.faults /\ merge'.missed = merge.missed
    BY <2>1 DEF MergeType
  <2> QED BY <1>9, <2>2, <2>3 DEF SourceReadLeft, MergeRest, WatchInv, FreshInv, ToldInv, DecidedInv, MergeType
<1>10. ASSUME NEW entries \in merge.orphans, OrphanRead(entries)
      PROVE  MergeInv'
  <2> DEFINE orphans1 == merge.orphans \ {entries}
  <2>1. merge' = [merge EXCEPT !.orphans = orphans1] BY <1>10 DEF OrphanRead
  <2>2. orphans1 \in SUBSET SUBSET ManifestEntry BY <1>10, MergeAssumption DEF MergeType, OrphanRead
  <2> HIDE DEF orphans1
  <2>3. merge' \in MergeType BY <2>1, <2>2 DEF MergeType
  <2>4. /\ merge'.listed = merge.listed /\ merge'.unused = merge.unused /\ merge'.doc = merge.doc
        /\ merge'.watched = merge.watched /\ merge'.call = merge.call /\ merge'.tick = merge.tick
        /\ merge'.retry = merge.retry /\ merge'.read = merge.read /\ merge'.snap = merge.snap
        /\ merge'.reread = merge.reread /\ merge'.behind = merge.behind
        /\ merge'.settled = merge.settled /\ merge'.cache = merge.cache
        /\ merge'.failed = merge.failed /\ merge'.lost = merge.lost /\ merge'.orphans = orphans1
        /\ merge'.changed = merge.changed /\ merge'.emitted = merge.emitted
        /\ merge'.view = merge.view /\ merge'.decide = merge.decide
        /\ merge'.writing = merge.writing /\ merge'.done = merge.done
        /\ merge'.faults = merge.faults /\ merge'.missed = merge.missed
    BY <2>1, <2>2 DEF MergeType
  <2> QED
    BY <1>10, <2>3, <2>4, <2>2 DEF orphans1, OrphanRead, MergeRest, WatchInv, FreshInv, ToldInv, DecidedInv, MergeType
<1>11. CASE ManifestWatchEnds
  <2> DEFINE faults1 == merge.faults + 1
  <2>1. merge' = [merge EXCEPT !.call = "down", !.tick = FALSE, !.retry = TRUE, !.faults = faults1]
    BY <1>11 DEF ManifestWatchEnds, MergeType
  <2>2. faults1 \in 0..MaxMergeFaults BY <1>11, MergeAssumption DEF MergeType, ManifestWatchEnds
  <2> HIDE DEF faults1
  <2>3. merge' \in MergeType BY <2>1, <2>2 DEF MergeType
  <2>4. /\ merge'.listed = merge.listed /\ merge'.unused = merge.unused /\ merge'.doc = merge.doc
        /\ merge'.watched = merge.watched /\ merge'.call = "down" /\ merge'.tick = FALSE
        /\ merge'.retry = TRUE /\ merge'.read = merge.read /\ merge'.snap = merge.snap
        /\ merge'.reread = merge.reread /\ merge'.behind = merge.behind
        /\ merge'.settled = merge.settled /\ merge'.cache = merge.cache
        /\ merge'.failed = merge.failed /\ merge'.lost = merge.lost
        /\ merge'.orphans = merge.orphans /\ merge'.changed = merge.changed
        /\ merge'.emitted = merge.emitted /\ merge'.view = merge.view
        /\ merge'.decide = merge.decide /\ merge'.writing = merge.writing
        /\ merge'.done = merge.done /\ merge'.faults = faults1 /\ merge'.missed = merge.missed
    BY <2>1, <2>2 DEF MergeType
  <2> QED
    BY <1>11, <2>3, <2>4, <2>2 DEF faults1, ManifestWatchEnds, MergeRest, WatchInv, FreshInv, ToldInv, DecidedInv, MergeType
<1>12. CASE DecisionReturns
  <2> DEFINE done1 == IF merge.lost \/ merge.missed THEN merge.done ELSE merge.done \cup merge.writing
  <2>1. merge' = [merge EXCEPT !.decide = "none", !.writing = {}, !.done = done1]
    BY <1>12 DEF DecisionReturns, MergeType
  <2>2. done1 \in SUBSET ManifestEntry BY <1>12, MergeAssumption DEF MergeType, DecisionReturns
  <2> HIDE DEF done1
  <2>3. merge' \in MergeType BY <2>1, <2>2 DEF MergeType
  <2>4. /\ merge'.listed = merge.listed /\ merge'.unused = merge.unused /\ merge'.doc = merge.doc
        /\ merge'.watched = merge.watched /\ merge'.call = merge.call /\ merge'.tick = merge.tick
        /\ merge'.retry = merge.retry /\ merge'.read = merge.read /\ merge'.snap = merge.snap
        /\ merge'.reread = merge.reread /\ merge'.behind = merge.behind
        /\ merge'.settled = merge.settled /\ merge'.cache = merge.cache
        /\ merge'.failed = merge.failed /\ merge'.lost = merge.lost
        /\ merge'.orphans = merge.orphans /\ merge'.changed = merge.changed
        /\ merge'.emitted = merge.emitted /\ merge'.view = merge.view /\ merge'.decide = "none"
        /\ merge'.writing = {} /\ merge'.done = done1 /\ merge'.faults = merge.faults /\ merge'.missed = merge.missed
    BY <2>1, <2>2 DEF MergeType
  <2> QED
    BY <1>12, <2>3, <2>4, <2>2 DEF done1, DecisionReturns, MergeRest, WatchInv, FreshInv, ToldInv, DecidedInv, MergeType
<1>13. CASE SourceTicks
  <2> DEFINE s == [merge EXCEPT !.tick = FALSE]
  <2>1. s = [merge EXCEPT !.tick = FALSE] OBVIOUS
  <2> HIDE DEF s
  <2>2. s \in MergeType BY <2>1 DEF MergeType
  <2>3. /\ s.listed = merge.listed /\ s.unused = merge.unused /\ s.doc = merge.doc
        /\ s.watched = merge.watched /\ s.call = merge.call /\ s.tick = FALSE
        /\ s.retry = merge.retry /\ s.read = merge.read /\ s.snap = merge.snap
        /\ s.reread = merge.reread /\ s.behind = merge.behind /\ s.settled = merge.settled
        /\ s.cache = merge.cache /\ s.failed = merge.failed /\ s.lost = merge.lost
        /\ s.orphans = merge.orphans /\ s.changed = merge.changed /\ s.emitted = merge.emitted
        /\ s.view = merge.view /\ s.decide = merge.decide /\ s.writing = merge.writing
        /\ s.done = merge.done /\ s.faults = merge.faults /\ s.missed = merge.missed
    BY <2>1 DEF MergeType
  <2>6. merge' = readInto(s) BY <1>13 DEF SourceTicks, s
  <2>7. Readable(s)
    BY <1>13, <2>2, <2>3 DEF SourceTicks, MergeRest, WatchInv, FreshInv, ToldInv, DecidedInv, Readable, MergeType
  <2> QED BY <2>2, <2>6, <2>7, ReadIntoKeeps DEF MergeType
<1>14. CASE ManifestRetryFires
  <2> DEFINE s == [merge EXCEPT !.retry = FALSE, !.call = "opening"]
  <2>1. s = [merge EXCEPT !.retry = FALSE, !.call = "opening"] OBVIOUS
  <2> HIDE DEF s
  <2>2. s \in MergeType BY <2>1 DEF MergeType
  <2>3. /\ s.listed = merge.listed /\ s.unused = merge.unused /\ s.doc = merge.doc
        /\ s.watched = merge.watched /\ s.call = "opening" /\ s.tick = merge.tick
        /\ s.retry = FALSE /\ s.read = merge.read /\ s.snap = merge.snap
        /\ s.reread = merge.reread /\ s.behind = merge.behind /\ s.settled = merge.settled
        /\ s.cache = merge.cache /\ s.failed = merge.failed /\ s.lost = merge.lost
        /\ s.orphans = merge.orphans /\ s.changed = merge.changed /\ s.emitted = merge.emitted
        /\ s.view = merge.view /\ s.decide = merge.decide /\ s.writing = merge.writing
        /\ s.done = merge.done /\ s.faults = merge.faults /\ s.missed = merge.missed
    BY <2>1 DEF MergeType
  <2>6. merge' = readInto(s) BY <1>14 DEF ManifestRetryFires, s
  <2>7. Readable(s)
    BY <1>14, <2>2, <2>3 DEF ManifestRetryFires, MergeRest, WatchInv, FreshInv, ToldInv, DecidedInv, Readable, MergeType
  <2> QED BY <2>2, <2>6, <2>7, ReadIntoKeeps DEF MergeType
<1>15. CASE SourceRead
  <2> DEFINE s == [merge EXCEPT !.failed = FALSE]
  <2>1. s = [merge EXCEPT !.failed = FALSE] OBVIOUS
  <2> HIDE DEF s
  <2>2. s \in MergeType BY <2>1 DEF MergeType
  <2>3. /\ s.listed = merge.listed /\ s.unused = merge.unused /\ s.doc = merge.doc
        /\ s.watched = merge.watched /\ s.call = merge.call /\ s.tick = merge.tick
        /\ s.retry = merge.retry /\ s.read = merge.read /\ s.snap = merge.snap
        /\ s.reread = merge.reread /\ s.behind = merge.behind /\ s.settled = merge.settled
        /\ s.cache = merge.cache /\ s.failed = FALSE /\ s.lost = merge.lost
        /\ s.orphans = merge.orphans /\ s.changed = merge.changed /\ s.emitted = merge.emitted
        /\ s.view = merge.view /\ s.decide = merge.decide /\ s.writing = merge.writing
        /\ s.done = merge.done /\ s.faults = merge.faults /\ s.missed = merge.missed
    BY <2>1 DEF MergeType
  <2>6. merge' = cached(s, merge.snap) BY <1>15 DEF SourceRead, s
  <2>7. Cachable(s, merge.snap)
    BY <1>15, <2>2, <2>3 DEF SourceRead, MergeRest, WatchInv, FreshInv, ToldInv, DecidedInv, Cachable, MergeType
  <2> QED BY <2>2, <2>6, <2>7, CachedKeeps DEF MergeType
<1>16. CASE SourceReadFails
  <2> DEFINE s == [merge EXCEPT !.failed = TRUE, !.faults = merge.faults + 1]
  <2> DEFINE faults1 == merge.faults + 1
  <2>1. s = [merge EXCEPT !.failed = TRUE, !.faults = faults1] OBVIOUS
  <2> HIDE DEF s
  <2>2. faults1 \in 0..MaxMergeFaults BY <1>16, MergeAssumption DEF MergeType, SourceReadFails
  <2> HIDE DEF faults1
  <2>3. s \in MergeType BY <2>1, <2>2 DEF MergeType
  <2>4. /\ s.listed = merge.listed /\ s.unused = merge.unused /\ s.doc = merge.doc
        /\ s.watched = merge.watched /\ s.call = merge.call /\ s.tick = merge.tick
        /\ s.retry = merge.retry /\ s.read = merge.read /\ s.snap = merge.snap
        /\ s.reread = merge.reread /\ s.behind = merge.behind /\ s.settled = merge.settled
        /\ s.cache = merge.cache /\ s.failed = TRUE /\ s.lost = merge.lost
        /\ s.orphans = merge.orphans /\ s.changed = merge.changed /\ s.emitted = merge.emitted
        /\ s.view = merge.view /\ s.decide = merge.decide /\ s.writing = merge.writing
        /\ s.done = merge.done /\ s.faults = faults1 /\ s.missed = merge.missed
    BY <2>1, <2>2 DEF MergeType
  <2>6. merge' = cached(s, {}) BY <1>16 DEF SourceReadFails, s, faults1
  <2>7. Cachable(s, {})
    BY <1>16, <2>3, <2>4, <2>2 DEF faults1, SourceReadFails, MergeRest, WatchInv, FreshInv, ToldInv, DecidedInv, Cachable, MergeType
  <2> QED BY <2>3, <2>6, <2>7, CachedKeeps DEF MergeType
<1>17. CASE AggregateRead
  <2> DEFINE q == [merge EXCEPT !.emitted = FALSE]
             s == sourcesRefreshed(q)
  <2>1. merge' = [s EXCEPT !.view = s.cache] BY <1>17 DEF AggregateRead
  <2>2. CASE merge.listed /\ ~merge.watched
    <3> DEFINE o == [q EXCEPT !.watched = TRUE, !.call = "opening", !.emitted = TRUE]
    <3>0. s = readInto(o) BY <2>2 DEF sourcesRefreshed, opened, MergeType
    <3>1. o = [merge EXCEPT !.watched = TRUE, !.call = "opening", !.emitted = TRUE] BY DEF MergeType
    <3> HIDE DEF o, s
    <3>2. o \in MergeType BY <3>1 DEF MergeType
    <3>3. /\ o.listed = merge.listed /\ o.unused = merge.unused /\ o.doc = merge.doc
          /\ o.watched = TRUE /\ o.call = "opening" /\ o.tick = merge.tick /\ o.retry = merge.retry
          /\ o.read = merge.read /\ o.snap = merge.snap /\ o.reread = merge.reread
          /\ o.behind = merge.behind /\ o.settled = merge.settled /\ o.cache = merge.cache
          /\ o.failed = merge.failed /\ o.lost = merge.lost /\ o.orphans = merge.orphans
          /\ o.changed = merge.changed /\ o.emitted = TRUE /\ o.view = merge.view
          /\ o.decide = merge.decide /\ o.writing = merge.writing /\ o.done = merge.done
          /\ o.faults = merge.faults /\ o.missed = merge.missed
      BY <3>1 DEF MergeType
    <3>5. Readable(o)
      BY <2>2, <3>2, <3>3 DEF MergeRest, WatchInv, FreshInv, ToldInv, DecidedInv, Readable, MergeType
    <3>6. s \in MergeType /\ MergeRest(s) BY <3>0, <3>2, <3>5, ReadIntoKeeps DEF s
    <3>7. merge' = [s EXCEPT !.view = s.cache] BY <2>1 DEF MergeType
    <3>8. merge' \in MergeType BY <3>7, <3>6 DEF MergeType
    <3>9. /\ merge'.listed = s.listed /\ merge'.unused = s.unused /\ merge'.doc = s.doc
          /\ merge'.watched = s.watched /\ merge'.call = s.call /\ merge'.tick = s.tick
          /\ merge'.retry = s.retry /\ merge'.read = s.read /\ merge'.snap = s.snap
          /\ merge'.reread = s.reread /\ merge'.behind = s.behind /\ merge'.settled = s.settled
          /\ merge'.cache = s.cache /\ merge'.failed = s.failed /\ merge'.lost = s.lost
          /\ merge'.orphans = s.orphans /\ merge'.changed = s.changed /\ merge'.emitted = s.emitted
          /\ merge'.view = s.cache /\ merge'.decide = s.decide /\ merge'.writing = s.writing
          /\ merge'.done = s.done /\ merge'.faults = s.faults /\ merge'.missed = s.missed
      BY <3>7, <3>6 DEF MergeType
    <3>10. s.listed /\ s.watched BY <2>2, <3>0, <3>3, <3>2 DEF readInto, readAsked, MergeType
    <3> QED BY <3>6, <3>10, <3>8, <3>9 DEF MergeRest, WatchInv, FreshInv, ToldInv, DecidedInv, MergeType
  <2>3. CASE ~merge.listed /\ merge.watched
    <3> DEFINE orphans1 == IF q.read \in {"asking", "answered"} THEN q.orphans \cup {q.snap} ELSE q.orphans
               emitted1 == (q.emitted \/ q.cache # {})
    <3>0. /\ q \in MergeType
          /\ q.listed = merge.listed /\ q.unused = merge.unused /\ q.doc = merge.doc
          /\ q.watched = merge.watched /\ q.emitted = FALSE /\ q.cache = merge.cache
          /\ q.changed = merge.changed /\ q.view = merge.view /\ q.decide = merge.decide
          /\ q.writing = merge.writing /\ q.done = merge.done /\ q.missed = merge.missed
      BY DEF MergeType
    <3> HIDE DEF q
    <3>1. s = [q EXCEPT !.watched = FALSE, !.call = "down", !.tick = FALSE, !.retry = FALSE,
               !.settled = FALSE, !.cache = {}, !.failed = FALSE, !.lost = FALSE, !.read = "none",
               !.reread = FALSE, !.behind = FALSE, !.snap = {}, !.same = FALSE, !.orphans = orphans1,
               !.emitted = emitted1]
      BY <2>3, <3>0 DEF sourcesRefreshed, closedWatch
    <3> HIDE DEF s
    <3>2. orphans1 \in SUBSET SUBSET ManifestEntry /\ emitted1 \in BOOLEAN BY <3>0 DEF MergeType
    <3> HIDE DEF orphans1, emitted1
    <3>3. s \in MergeType
      <4> DEFINE b == [q EXCEPT !.watched = FALSE, !.call = "down", !.tick = FALSE]
                 c == [b EXCEPT !.retry = FALSE, !.settled = FALSE, !.cache = {}, !.failed = FALSE]
                 d == [c EXCEPT !.lost = FALSE, !.read = "none", !.reread = FALSE, !.behind = FALSE, !.snap = {}, !.same = FALSE]
      <4>1. q \in MergeType BY <3>0
      <4>2. b \in MergeType BY <4>1 DEF MergeType
      <4>3. s = [d EXCEPT !.orphans = orphans1, !.emitted = emitted1] BY <3>1, <4>1, Zenon
      <4> HIDE DEF b
      <4>4. c \in MergeType BY <4>2 DEF MergeType
      <4> HIDE DEF c
      <4>5. d \in MergeType BY <4>4 DEF MergeType
      <4> HIDE DEF d
      <4> QED BY <3>2, <4>3, <4>5 DEF MergeType
    <3>4. /\ s.listed = q.listed /\ s.unused = q.unused /\ s.doc = q.doc
          /\ s.watched = FALSE /\ s.call = "down" /\ s.tick = FALSE /\ s.retry = FALSE
          /\ s.read = "none" /\ s.snap = {} /\ s.reread = FALSE /\ s.behind = FALSE
          /\ s.settled = FALSE /\ s.cache = {} /\ s.failed = FALSE /\ s.lost = FALSE
          /\ s.orphans = orphans1 /\ s.changed = q.changed /\ s.emitted = emitted1
          /\ s.view = q.view /\ s.decide = q.decide /\ s.writing = q.writing /\ s.done = q.done /\ s.missed = q.missed
      <4>1. q \in MergeType BY <3>0
      <4> QED BY <3>1, <4>1 DEF MergeType
    <3>5. merge' = [s EXCEPT !.view = s.cache] BY <2>1 DEF MergeType
    <3>6. merge' \in MergeType BY <3>5, <3>3 DEF MergeType
    <3>7. /\ merge'.listed = s.listed /\ merge'.unused = s.unused /\ merge'.doc = s.doc
          /\ merge'.watched = s.watched /\ merge'.call = s.call /\ merge'.tick = s.tick
          /\ merge'.retry = s.retry /\ merge'.read = s.read /\ merge'.snap = s.snap
          /\ merge'.reread = s.reread /\ merge'.behind = s.behind /\ merge'.settled = s.settled
          /\ merge'.cache = s.cache /\ merge'.failed = s.failed /\ merge'.lost = s.lost
          /\ merge'.orphans = s.orphans /\ merge'.changed = s.changed /\ merge'.emitted = s.emitted
          /\ merge'.view = s.cache /\ merge'.decide = s.decide /\ merge'.writing = s.writing
          /\ merge'.done = s.done /\ merge'.faults = s.faults /\ merge'.missed = s.missed
      BY <3>5, <3>3 DEF MergeType
    <3>8. WatchInv(merge') /\ FreshInv(merge') BY <3>4, <3>7 DEF WatchInv, FreshInv
    <3>9. ToldInv(merge')
      <4>1. merge.listed = FALSE BY <2>3 DEF MergeType
      <4>2. merge'.view = merge'.cache /\ merge'.listed = merge'.watched BY <4>1, <3>0, <3>4, <3>7
      <4> QED BY <4>2 DEF ToldInv
    <3>10. DecidedInv(merge') BY <3>0, <3>4, <3>7 DEF MergeRest, DecidedInv
    <3> QED BY <3>6, <3>8, <3>9, <3>10 DEF MergeRest
  <2>4. CASE merge.listed = merge.watched
    <3>1. merge' = [merge EXCEPT !.emitted = FALSE, !.view = merge.cache]
      BY <2>1, <2>4 DEF sourcesRefreshed, MergeType
    <3>2. merge' \in MergeType BY <3>1 DEF MergeType
    <3>3. /\ merge'.listed = merge.listed /\ merge'.unused = merge.unused /\ merge'.doc = merge.doc
          /\ merge'.watched = merge.watched /\ merge'.call = merge.call /\ merge'.tick = merge.tick
          /\ merge'.retry = merge.retry /\ merge'.read = merge.read /\ merge'.snap = merge.snap
          /\ merge'.reread = merge.reread /\ merge'.behind = merge.behind
          /\ merge'.settled = merge.settled /\ merge'.cache = merge.cache
          /\ merge'.failed = merge.failed /\ merge'.lost = merge.lost
          /\ merge'.orphans = merge.orphans /\ merge'.changed = merge.changed
          /\ merge'.emitted = FALSE /\ merge'.view = merge.cache /\ merge'.decide = merge.decide
          /\ merge'.writing = merge.writing /\ merge'.done = merge.done
          /\ merge'.faults = merge.faults /\ merge'.missed = merge.missed
      BY <3>1 DEF MergeType
    <3> QED BY <2>4, <3>2, <3>3 DEF MergeRest, WatchInv, FreshInv, ToldInv, DecidedInv, MergeType
  <2> QED BY <2>2, <2>3, <2>4 DEF MergeType
<1>18. CASE DecisionAnswered
  <2>1. CASE merge.decide = "sent" /\ merge' = [merge EXCEPT !.decide = "none", !.writing = {}]
    <3>1. merge' = [merge EXCEPT !.decide = "none", !.writing = {}] BY <2>1 DEF MergeType
    <3>2. merge' \in MergeType BY <3>1 DEF MergeType
    <3>3. /\ merge'.listed = merge.listed /\ merge'.unused = merge.unused /\ merge'.doc = merge.doc
          /\ merge'.watched = merge.watched /\ merge'.call = merge.call /\ merge'.tick = merge.tick
          /\ merge'.retry = merge.retry /\ merge'.read = merge.read /\ merge'.snap = merge.snap
          /\ merge'.reread = merge.reread /\ merge'.behind = merge.behind
          /\ merge'.settled = merge.settled /\ merge'.cache = merge.cache
          /\ merge'.failed = merge.failed /\ merge'.lost = merge.lost
          /\ merge'.orphans = merge.orphans /\ merge'.changed = merge.changed
          /\ merge'.emitted = merge.emitted /\ merge'.view = merge.view /\ merge'.decide = "none"
          /\ merge'.writing = {} /\ merge'.done = merge.done /\ merge'.faults = merge.faults /\ merge'.missed = merge.missed
      BY <3>1 DEF MergeType
    <3> QED BY <2>1, <3>2, <3>3 DEF MergeRest, WatchInv, FreshInv, ToldInv, DecidedInv, MergeType
  <2>2. CASE /\ merge.decide = "sent" /\ merge.writing \subseteq merge.doc
             /\ merge' = decisionTaken(sourceTicked([merge EXCEPT !.doc = @ \ merge.writing]))
    <3> DEFINE q == sourceTicked([merge EXCEPT !.doc = @ \ merge.writing])
               s == [q EXCEPT !.decide = "reading"]
    <3> DEFINE doc1 == merge.doc \ merge.writing
               tick1 == (merge.tick \/ merge.call = "up")
    <3>1. s = [merge EXCEPT !.doc = doc1, !.tick = tick1, !.decide = "reading"]
      BY <2>2 DEF sourceTicked, MergeType
    <3> HIDE DEF s
    <3>2. doc1 \in SUBSET ManifestEntry /\ tick1 \in BOOLEAN BY <2>2 DEF MergeType
    <3> HIDE DEF doc1, tick1
    <3>3. s \in MergeType BY <3>1, <3>2 DEF MergeType
    <3>4. /\ s.listed = merge.listed /\ s.unused = merge.unused /\ s.doc = doc1
          /\ s.watched = merge.watched /\ s.call = merge.call /\ s.tick = tick1
          /\ s.retry = merge.retry /\ s.read = merge.read /\ s.snap = merge.snap
          /\ s.reread = merge.reread /\ s.behind = merge.behind /\ s.settled = merge.settled
          /\ s.cache = merge.cache /\ s.failed = merge.failed /\ s.lost = merge.lost
          /\ s.orphans = merge.orphans /\ s.changed = merge.changed /\ s.emitted = merge.emitted
          /\ s.view = merge.view /\ s.decide = "reading" /\ s.writing = merge.writing
          /\ s.done = merge.done /\ s.faults = merge.faults /\ s.missed = merge.missed
      BY <3>1, <3>2 DEF MergeType
    <3>5. q.watched = merge.watched /\ q.same = merge.same BY DEF sourceTicked, MergeType
    <3>6. merge' = IF merge.watched /\ merge.same THEN readInto(s) ELSE [s EXCEPT !.missed = merge.watched]
      BY <2>2, <3>5 DEF decisionTaken, s
    <3> HIDE DEF q
    <3>7. CASE merge.watched /\ merge.same
      <4>1. s.watched /\ (s.call = "down" => s.retry) /\ (s.read # "answered" => s.snap = {})
        BY <3>7, <3>4 DEF MergeRest, WatchInv
      <4>2. ToldInv(s) BY <3>4, Zenon DEF MergeRest, ToldInv
      <4>3. /\ s.unused \cap s.doc = {}
            /\ s.done \cap (s.unused \cup s.doc \cup s.snap \cup s.cache) = {}
        BY <3>4 DEF doc1, MergeRest, DecidedInv, MergeType
      <4>4. s.writing \cap (s.unused \cup s.doc) = {}
        BY <2>2, <3>4 DEF doc1, MergeRest, DecidedInv, MergeType
      <4>5. Readable(s) BY <4>1, <4>2, <4>3, <4>4 DEF Readable
      <4> QED BY <3>6, <3>7, <3>3, <4>5, ReadIntoKeeps
    <3>8. CASE ~(merge.watched /\ merge.same)
      <4> DEFINE t == [s EXCEPT !.missed = merge.watched]
      <4>1. merge' = t BY <3>6, <3>8 DEF MergeType
      <4>2. t \in MergeType BY <3>3 DEF MergeType
      <4>3. /\ t.listed = s.listed /\ t.unused = s.unused /\ t.doc = s.doc
            /\ t.watched = s.watched /\ t.call = s.call /\ t.tick = s.tick
            /\ t.retry = s.retry /\ t.read = s.read /\ t.snap = s.snap
            /\ t.reread = s.reread /\ t.behind = s.behind
            /\ t.cache = s.cache /\ t.failed = s.failed /\ t.lost = s.lost
            /\ t.changed = s.changed /\ t.emitted = s.emitted /\ t.view = s.view
            /\ t.decide = s.decide /\ t.writing = s.writing /\ t.done = s.done
            /\ t.missed = merge.watched
        BY <3>3 DEF MergeType
      <4> HIDE DEF t
      <4>4. MergeRest(t)
        <5>1. WatchInv(t) BY <3>2, <3>4, <4>3 DEF tick1, MergeRest, MergeType, WatchInv
        <5>2. FreshInv(t) BY <3>4, <4>3, <2>2, <3>2 DEF tick1, doc1, MergeRest, WatchInv, FreshInv, MergeType
        <5>3. ToldInv(t)
          <6>1. ToldInv(s) BY <3>4, Zenon DEF MergeRest, ToldInv
          <6> QED BY <4>3, <6>1, Zenon DEF ToldInv
        <5>4. DecidedInv(t) BY <2>2, <3>4, <4>3 DEF doc1, MergeRest, WatchInv, DecidedInv, MergeType
        <5> QED BY <5>1, <5>2, <5>3, <5>4 DEF MergeRest
      <4> QED BY <4>1, <4>2, <4>4
    <3> QED BY <3>7, <3>8 DEF MergeType
  <2> QED BY <1>18, <2>1, <2>2 DEF DecisionAnswered
<1> QED
  BY <1>1, <1>2, <1>3, <1>4, <1>5, <1>6, <1>7, <1>8, <1>9, <1>10, <1>11, <1>12, <1>13, <1>14, <1>15, <1>16, <1>17, <1>18 DEF MergeNext

-----------------------------------------------------------------------------
(* A supervised connection (ConnectionSupervisor).                         *)

AttemptRef == {0} \cup ConnectionAttempt

AtWork == {"target", "socket", "local", "register"}

Disposing == {"dispose", "restart", "remove", "replace"}

ConnectionType ==
    [policy : {"always", "never"}, state : {"stopped", "starting", "running", "backoff", "failed"},
     generation : Nat, pending : AttemptRef, made : Nat, held : [ConnectionPart -> AttemptRef],
     open : SUBSET (ConnectionPart \X ConnectionAttempt),
     pc : [ConnectionAttempt -> AtWork \cup {"none", "relaying", "over"}], of : [ConnectionAttempt -> Nat],
     timer : Nat, enabled : BOOLEAN, removed : BOOLEAN, commands : Nat, overtaken : BOOLEAN, revived : BOOLEAN,
     caller : [Manager -> Disposing \cup {"idle", "sync", "resync", "gone"}], waits : [Manager -> AttemptRef]]

\* The attempts: those of an older generation only have to settle.
AttemptsInv(c) ==
    /\ c.made <= MaxAttempt /\ c.pending = c.made
    /\ \A a \in ConnectionAttempt :
        /\ c.of[a] <= c.generation
        /\ a > c.made => c.pc[a] = "none"
        /\ c.pc[a] \in AtWork => a = c.pending /\ c.state = "starting"
        /\ c.pc[a] = "relaying" /\ c.of[a] = c.generation => a = c.pending /\ c.state = "running"

\* What is open is held by the last attempt, which was not disposed of and has not failed.
OpenInv(c) ==
    /\ \A p \in ConnectionPart, a \in ConnectionAttempt : <<p, a>> \in c.open =>
        a = c.pending /\ c.held[p] = a /\ c.of[a] = c.generation /\ c.pc[a] \in AtWork \cup {"relaying"}
    /\ c.timer # 0 => c.state = "backoff" /\ c.timer = c.generation

\* The last attempt was disposed of, and so was its retry.
Dropped(c) == (c.pending # 0 => c.of[c.pending] < c.generation) /\ c.timer = 0

\* A manager that disposes waits for an attempt that is out of date, or for one that is not
\* the last.
ManagerWaits(c, m) ==
    /\ c.waits[m] <= c.made
    /\ c.caller[m] \in Disposing /\ c.waits[m] = c.pending => Dropped(c)
    /\ c.caller[m] \in {"remove", "gone"} => c.removed

ManagerOK(c, m) ==
    /\ ManagerWaits(c, m)
    /\ c.caller[m] = "gone" /\ ~c.revived => Dropped(c) /\ \A a \in ConnectionAttempt : c.pc[a] \notin AtWork

ManagerInv(c) == \A m \in Manager : ManagerOK(c, m)

ConnectionRest(c) == AttemptsInv(c) /\ OpenInv(c) /\ ManagerInv(c)

\* An attempt that nobody waits for is beyond it.
ConnectionInv == connection \in ConnectionType /\ (connection.overtaken \/ ConnectionRest(connection))

LEMMA AttemptRefs ==
    /\ 0 \in AttemptRef /\ ConnectionAttempt \subseteq AttemptRef /\ 0 \notin ConnectionAttempt /\ AttemptRef \subseteq Nat
    /\ MaxAttempt \in Nat /\ \A n \in Nat : 0 < n /\ n <= MaxAttempt => n \in ConnectionAttempt
BY ConnectionAssumption DEF AttemptRef, ConnectionAttempt

LEMMA ConnectionInitial == ConnectionInit => ConnectionInv
BY AttemptRefs, ConnectionAssumption
   DEF ConnectionInit, ConnectionInv, ConnectionType, ConnectionRest, AttemptsInv, OpenInv, ManagerInv, ManagerOK, ManagerWaits, AtWork,
       Disposing, ConnectionAttempt

SameAttempts(c, d) == c.generation = d.generation /\ c.pending = d.pending /\ c.made = d.made /\ c.of = d.of

SameOpen(c, d) == c.state = d.state /\ c.held = d.held /\ c.open = d.open /\ c.timer = d.timer

SameCalls(c, d) ==
    c.removed = d.removed /\ c.overtaken = d.overtaken /\ c.revived = d.revived /\ c.caller = d.caller /\ c.waits = d.waits

AttemptMade(d, c, gen) ==
    /\ c \in ConnectionType /\ SameCalls(c, d) /\ c.held = d.held /\ c.open = d.open /\ c.timer = d.timer
    /\ c.commands = d.commands /\ c.enabled = d.enabled /\ c.made = d.made + 1 /\ c.pending = d.made + 1
    /\ c.pending \in ConnectionAttempt /\ c.state = "starting" /\ c.generation = gen
    /\ AttemptsInv(d) /\ d.state # "running" /\ (\A a \in ConnectionAttempt : d.pc[a] \notin AtWork) => AttemptsInv(c)

\* A new attempt starts where no other is at work.
LEMMA AttemptStarts ==
    ASSUME NEW d \in ConnectionType, d.made < MaxAttempt, NEW gen \in Nat, d.generation <= gen
    PROVE  AttemptMade(d, attemptStarted(d, gen), gen)
<1> DEFINE c == attemptStarted(d, gen)
           n == d.made + 1
           pc1 == [d.pc EXCEPT ![n] = "target"]
           of1 == [d.of EXCEPT ![n] = gen]
<1>1. n \in ConnectionAttempt /\ n \in AttemptRef /\ n \in Nat /\ d.made < n /\ n <= MaxAttempt /\ MaxAttempt \in Nat
  BY ConnectionAssumption, AttemptRefs DEF ConnectionAttempt, ConnectionType
<1>2. c = [d EXCEPT !.made = n, !.pending = n, !.state = "starting", !.generation = gen, !.pc = pc1, !.of = of1]
  BY DEF attemptStarted
<1>3. /\ pc1 \in [ConnectionAttempt -> AtWork \cup {"none", "relaying", "over"}]
      /\ of1 \in [ConnectionAttempt -> Nat]
      /\ pc1[n] = "target" /\ of1[n] = gen
      /\ \A a \in ConnectionAttempt \ {n} : pc1[a] = d.pc[a] /\ of1[a] = d.of[a]
  BY <1>1 DEF ConnectionType, AtWork
<1>4. \A a \in ConnectionAttempt : a \in Nat /\ d.of[a] \in Nat /\ d.generation \in Nat /\ d.made \in Nat
  BY ConnectionAssumption DEF ConnectionType, ConnectionAttempt
<1> HIDE DEF c, pc1, of1
<1>5. c \in ConnectionType BY <1>1, <1>2, <1>3 DEF ConnectionType
<1>6. /\ c.made = n /\ c.pending = n /\ c.state = "starting" /\ c.generation = gen /\ c.pc = pc1 /\ c.of = of1
      /\ SameCalls(c, d) /\ c.held = d.held /\ c.open = d.open /\ c.timer = d.timer
      /\ c.commands = d.commands /\ c.enabled = d.enabled
  BY <1>2 DEF ConnectionType, SameCalls
<1>7. AttemptsInv(d) /\ d.state # "running" /\ (\A a \in ConnectionAttempt : d.pc[a] \notin AtWork) => AttemptsInv(c)
  BY <1>1, <1>3, <1>4, <1>6 DEF AttemptsInv, AtWork
<1> QED BY <1>1, <1>5, <1>6, <1>7 DEF c, AttemptMade

Cleaned(k, c) ==
    /\ k \in ConnectionType /\ k.pc = c.pc /\ SameAttempts(k, c) /\ SameCalls(k, c)
    /\ k.state = c.state /\ k.timer = c.timer /\ k.policy = c.policy /\ k.enabled = c.enabled /\ k.commands = c.commands
    /\ (\A p \in ConnectionPart, a \in ConnectionAttempt : <<p, a>> \in c.open => c.held[p] = a) => k.open = {}

\* _cleanup closes all that is held.
LEMMA Cleanup == ASSUME NEW c \in ConnectionType PROVE Cleaned(connectionCleanup(c), c)
<1> DEFINE open1 == {o \in c.open : c.held[o[1]] # o[2]}
           held1 == [p \in ConnectionPart |-> 0]
<1>1. connectionCleanup(c) = [c EXCEPT !.open = open1, !.held = held1] BY DEF connectionCleanup
<1>2. open1 \in SUBSET (ConnectionPart \X ConnectionAttempt) /\ held1 \in [ConnectionPart -> AttemptRef]
  BY AttemptRefs DEF ConnectionType
<1>3. ASSUME \A p \in ConnectionPart, a \in ConnectionAttempt : <<p, a>> \in c.open => c.held[p] = a PROVE open1 = {}
  <2> SUFFICES ASSUME NEW o \in open1 PROVE FALSE OBVIOUS
  <2>1. o[1] \in ConnectionPart /\ o[2] \in ConnectionAttempt /\ o = <<o[1], o[2]>> /\ o \in c.open BY <1>2
  <2>2. c.held[o[1]] = o[2] BY <1>3, <2>1, Zenon
  <2> QED BY <2>2
<1> HIDE DEF open1, held1
<1> QED BY <1>1, <1>2, <1>3 DEF Cleaned, ConnectionType, SameAttempts, SameCalls

CleanedUp(k, a) ==
    /\ k \in ConnectionType /\ k.pc = [connection.pc EXCEPT ![a] = "over"]
    /\ SameAttempts(k, connection) /\ SameCalls(k, connection) /\ k.policy = connection.policy
    /\ k.state = connection.state /\ k.timer = connection.timer

DisposedBy(k, m, method) ==
    /\ k \in ConnectionType /\ k.pc = connection.pc /\ k.of = connection.of /\ k.state = connection.state
    /\ k.pending = connection.pending /\ k.made = connection.made /\ k.generation = connection.generation + 1
    /\ k.timer = 0 /\ k.overtaken = connection.overtaken /\ k.revived = connection.revived
    /\ k.removed = connection.removed /\ k.caller = [connection.caller EXCEPT ![m] = method]
    /\ k.waits = [connection.waits EXCEPT ![m] = connection.pending]
    /\ ConnectionRest(connection) => k.open = {}

SyncedBy(s, m) ==
    /\ s \in ConnectionType /\ s.overtaken = connection.overtaken /\ s.removed = connection.removed
    /\ s.revived = connection.revived /\ (ConnectionRest(connection) =>
            AttemptsInv(s) /\ OpenInv(s) /\ \A n \in Manager : ManagerWaits(s, n))

LEMMA ConnectionStep ==
    ASSUME ConnectionInv, [ConnectionNext]_connection
    PROVE  ConnectionInv'
<1> USE DEF ConnectionInv
<1>a. /\ 0 \in AttemptRef /\ ConnectionAttempt \subseteq AttemptRef /\ 0 \notin ConnectionAttempt
      /\ \A a \in ConnectionAttempt : a \in Nat
      /\ MaxAttempt \in Nat /\ \A n \in Nat : 0 < n /\ n <= MaxAttempt => n \in ConnectionAttempt
  BY AttemptRefs, ConnectionAssumption DEF ConnectionAttempt
<1> USE DEF ConnectionType, AtWork, ConnectionPart, Disposing, SameAttempts, SameOpen, SameCalls, ConnectionRest,
            AttemptsInv, OpenInv, ManagerInv, ManagerOK, ManagerWaits, Dropped
<1>b. ASSUME NEW a \in ConnectionAttempt
      PROVE  LET k == connectionCleanup(attemptSettled(connection, a))
             IN  CleanedUp(k, a) /\ (ConnectionRest(connection) => k.open = {})
  <2> DEFINE s == attemptSettled(connection, a)
  <2>1. /\ s \in ConnectionType /\ s.pc = [connection.pc EXCEPT ![a] = "over"] /\ SameAttempts(s, connection)
        /\ SameOpen(s, connection) /\ SameCalls(s, connection) /\ s.policy = connection.policy
    BY DEF attemptSettled
  <2> HIDE DEF s
  <2>2. Cleaned(connectionCleanup(s), s) BY <2>1, Cleanup
  <2> QED BY <2>1, <2>2 DEF Cleaned, CleanedUp, s
<1>c. ASSUME NEW a \in ConnectionAttempt, connection.pc[a] = "socket", connection.of[a] # connection.generation
      PROVE  LET k == connectionCleanup(attemptSettled(
                        [connection EXCEPT !.held.socket = a, !.open = @ \cup {<<"socket", a>>}], a))
             IN  CleanedUp(k, a) /\ (ConnectionRest(connection) => k.open = {})
  <2> DEFINE held1 == [connection.held EXCEPT !.socket = a]
             open1 == connection.open \cup {<<"socket", a>>}
             c == [connection EXCEPT !.held.socket = a, !.open = @ \cup {<<"socket", a>>}]
             s == attemptSettled(c, a)
  <2>1. c = [connection EXCEPT !.held = held1, !.open = open1] OBVIOUS
  <2>2. held1 \in [ConnectionPart -> AttemptRef] /\ open1 \in SUBSET (ConnectionPart \X ConnectionAttempt)
        /\ (ConnectionRest(connection) => \A p \in ConnectionPart, b \in ConnectionAttempt : <<p, b>> \in open1 => held1[p] = b)
    BY <1>a, <1>c
  <2> HIDE DEF held1, open1, c
  <2>3. c \in ConnectionType /\ c.pc = connection.pc /\ SameAttempts(c, connection) /\ SameCalls(c, connection)
        /\ c.policy = connection.policy /\ c.state = connection.state /\ c.timer = connection.timer
        /\ c.held = held1 /\ c.open = open1
    BY <2>1, <2>2
  <2>4. /\ s \in ConnectionType /\ s.pc = [connection.pc EXCEPT ![a] = "over"] /\ SameAttempts(s, c)
        /\ SameOpen(s, c) /\ SameCalls(s, c) /\ s.policy = c.policy
    BY <2>3 DEF attemptSettled
  <2> HIDE DEF s
  <2>5. Cleaned(connectionCleanup(s), s) BY <2>4, Cleanup
  <2>6. CleanedUp(connectionCleanup(s), a) /\ (ConnectionRest(connection) => connectionCleanup(s).open = {})
    BY <2>2, <2>3, <2>4, <2>5 DEF Cleaned, CleanedUp
  <2> QED BY <2>6 DEF s, c
<1>d. ASSUME NEW m \in Manager, NEW method \in Disposing
      PROVE  DisposedBy(disposed(m, method), m, method)
  <2> DEFINE k == connectionCleanup(connection)
             caller1 == [connection.caller EXCEPT ![m] = method]
             waits1 == [connection.waits EXCEPT ![m] = connection.pending]
             generation1 == connection.generation + 1
             d == disposed(m, method)
  <2>1. Cleaned(k, connection) BY Cleanup
  <2>2. d = [k EXCEPT !.generation = @ + 1, !.timer = 0, !.caller[m] = method, !.waits[m] = connection.pending]
    BY DEF disposed
  <2> HIDE DEF k, d
  <2>3. d = [k EXCEPT !.generation = generation1, !.timer = 0, !.caller = caller1, !.waits = waits1]
    BY <2>1, <2>2 DEF Cleaned
  <2>4. caller1 \in [Manager -> Disposing \cup {"idle", "sync", "resync", "gone"}] /\ waits1 \in [Manager -> AttemptRef]
        /\ generation1 \in Nat
    OBVIOUS
  <2> HIDE DEF caller1, waits1, generation1
  <2>5. /\ d \in ConnectionType /\ d.generation = generation1 /\ d.timer = 0 /\ d.caller = caller1 /\ d.waits = waits1
        /\ d.pc = k.pc /\ d.of = k.of /\ d.state = k.state /\ d.pending = k.pending /\ d.made = k.made
        /\ d.overtaken = k.overtaken /\ d.revived = k.revived /\ d.removed = k.removed /\ d.open = k.open
    BY <2>1, <2>3, <2>4 DEF Cleaned
  <2>6. ConnectionRest(connection) => k.open = {} BY <2>1 DEF Cleaned
  <2>7. DisposedBy(d, m, method) BY <2>1, <2>5, <2>6 DEF Cleaned, DisposedBy, caller1, waits1, generation1
  <2> QED BY <2>7 DEF d
<1>e. ASSUME NEW m \in Manager, connection.made < MaxAttempt PROVE SyncedBy(synced(m), m)
  <2> DEFINE s == synced(m)
             caller1 == [connection.caller EXCEPT ![m] = "sync"]
  <2>1. CASE connection.state \notin {"running", "starting", "backoff"}
    <3> DEFINE c == attemptStarted(connection, connection.generation + 1)
               waits1 == [connection.waits EXCEPT ![m] = c.pending]
    <3>1. connection.generation + 1 \in Nat /\ connection.generation <= connection.generation + 1
          /\ connection.made \in Nat /\ connection.made + 1 # connection.made
      OBVIOUS
    <3>2. connectionSync(connection) = c BY <2>1 DEF connectionSync
    <3>3. AttemptMade(connection, c, connection.generation + 1) BY <1>e, <3>1, AttemptStarts
    <3> HIDE DEF c
    <3>4. s = [c EXCEPT !.caller[m] = "sync", !.waits[m] = c.pending] BY <3>1, <3>2, <3>3 DEF synced, AttemptMade
    <3> HIDE DEF s
    <3>5. s = [c EXCEPT !.caller = caller1, !.waits = waits1] BY <3>3, <3>4 DEF AttemptMade
    <3>6. /\ caller1 \in [Manager -> Disposing \cup {"idle", "sync", "resync", "gone"}] /\ caller1[m] = "sync"
          /\ waits1 \in [Manager -> AttemptRef] /\ waits1[m] = c.pending
          /\ \A n \in Manager \ {m} : caller1[n] = connection.caller[n] /\ waits1[n] = connection.waits[n]
      BY <1>a, <3>3 DEF AttemptMade
    <3> HIDE DEF caller1, waits1
    <3>7. /\ s \in ConnectionType /\ s.pc = c.pc /\ SameAttempts(s, c) /\ SameOpen(s, c) /\ s.caller = caller1
          /\ s.waits = waits1 /\ s.removed = c.removed /\ s.overtaken = c.overtaken /\ s.revived = c.revived
      BY <3>3, <3>5, <3>6 DEF AttemptMade
    <3>8. ASSUME ConnectionRest(connection) PROVE AttemptsInv(s) /\ OpenInv(s) /\ \A n \in Manager : ManagerWaits(s, n)
      <4>1. connection.timer = 0 /\ (\A a \in ConnectionAttempt : connection.pc[a] \notin AtWork)
        BY <2>1, <3>8
      <4>2. connection.open = {}
        <5> SUFFICES ASSUME NEW o \in connection.open PROVE FALSE OBVIOUS
        <5>1. o[1] \in ConnectionPart /\ o[2] \in ConnectionAttempt /\ <<o[1], o[2]>> \in connection.open OBVIOUS
        <5> QED BY <2>1, <3>8, <4>1, <5>1
      <4>3. AttemptsInv(s) BY <2>1, <3>3, <3>7, <3>8, <4>1 DEF AttemptMade
      <4>4. OpenInv(s) BY <3>3, <3>7, <4>1, <4>2 DEF AttemptMade
      <4>5. ASSUME NEW n \in Manager PROVE ManagerWaits(s, n)
        <5>1. CASE n = m BY <3>1, <3>3, <3>6, <3>7, <5>1 DEF AttemptMade
        <5>2. CASE n # m
          <6>1. ManagerWaits(connection, n) /\ s.caller[n] = connection.caller[n] /\ s.waits[n] = connection.waits[n]
            BY <3>6, <3>7, <3>8, <5>2
          <6>2. connection.waits[n] \in AttemptRef OBVIOUS
          <6>3. s.made = connection.made + 1 /\ s.pending = connection.made + 1 /\ s.removed = connection.removed
            BY <3>3, <3>7 DEF AttemptMade
          <6> QED BY <1>a, <3>1, <6>1, <6>2, <6>3 DEF AttemptRef
        <5> QED BY <5>1, <5>2
      <4> QED BY <4>3, <4>4, <4>5
    <3> QED BY <3>3, <3>7, <3>8 DEF AttemptMade, SyncedBy, s
  <2>2. CASE connection.state \in {"running", "starting", "backoff"}
    <3> DEFINE waits1 == [connection.waits EXCEPT ![m] = 0]
    <3>1. s = [connection EXCEPT !.caller = caller1, !.waits = waits1] BY <2>2 DEF synced, connectionSync
    <3>2. /\ caller1 \in [Manager -> Disposing \cup {"idle", "sync", "resync", "gone"}] /\ caller1[m] = "sync"
          /\ waits1 \in [Manager -> AttemptRef] /\ waits1[m] = 0
          /\ \A n \in Manager \ {m} : caller1[n] = connection.caller[n] /\ waits1[n] = connection.waits[n]
      BY <1>a
    <3> HIDE DEF s, caller1, waits1
    <3>3. /\ s \in ConnectionType /\ s.pc = connection.pc /\ SameAttempts(s, connection) /\ SameOpen(s, connection)
          /\ s.caller = caller1 /\ s.waits = waits1 /\ s.removed = connection.removed
          /\ s.overtaken = connection.overtaken /\ s.revived = connection.revived
      BY <3>1, <3>2
    <3>4. ASSUME ConnectionRest(connection) PROVE AttemptsInv(s) /\ OpenInv(s) /\ \A n \in Manager : ManagerWaits(s, n)
      <4>1. AttemptsInv(s) /\ OpenInv(s) BY <3>3, <3>4
      <4>2. \A n \in Manager : ManagerWaits(s, n) BY <3>2, <3>3, <3>4
      <4> QED BY <4>1, <4>2
    <3> QED BY <3>3, <3>4 DEF SyncedBy, s
  <2> QED BY <2>1, <2>2
<1>1. CASE UNCHANGED connection BY <1>1
<1>2. ASSUME NEW a \in ConnectionAttempt, TargetOpened(a) PROVE ConnectionInv'
  <2>1. CASE attemptIsCurrent(a)
    <3> DEFINE pc1 == [connection.pc EXCEPT ![a] = "socket"]
               held1 == [connection.held EXCEPT !.target = a]
               open1 == connection.open \cup {<<"target", a>>}
    <3>1. connection' = [connection EXCEPT !.pc = pc1, !.held = held1, !.open = open1]
      BY <1>2, <2>1, <1>a DEF TargetOpened, attemptIsCurrent, attemptSettled
    <3>2. pc1 \in [ConnectionAttempt -> AtWork \cup {"none", "relaying", "over"}] /\ held1 \in [ConnectionPart -> AttemptRef] /\ open1 \in SUBSET (ConnectionPart \X ConnectionAttempt)
      BY <1>2, <2>1, <1>a DEF TargetOpened, attemptIsCurrent, attemptSettled
    <3> HIDE DEF pc1, held1, open1
    <3>3. /\ connection' \in ConnectionType
          /\ connection'.pc = pc1 /\ SameAttempts(connection', connection) /\ connection'.state = connection.state
          /\ connection'.held = held1 /\ connection'.open = open1 /\ connection'.timer = connection.timer
          /\ SameCalls(connection', connection)
      BY <3>1, <3>2
    <3>4. SUFFICES ASSUME ~connection'.overtaken, ConnectionRest(connection) PROVE ConnectionRest(connection')
      BY <3>3
    <3>5. AttemptsInv(connection') BY <1>2, <2>1, <1>a, <3>3, <3>4 DEF pc1, held1, open1, TargetOpened, attemptIsCurrent, attemptSettled
    <3>6. OpenInv(connection') BY <1>2, <2>1, <1>a, <3>3, <3>4 DEF pc1, held1, open1, TargetOpened, attemptIsCurrent, attemptSettled
    <3>7. ManagerInv(connection') BY <1>2, <2>1, <1>a, <3>3, <3>4 DEF pc1, held1, open1, TargetOpened, attemptIsCurrent, attemptSettled
    <3> QED BY <3>5, <3>6, <3>7
  <2>2. CASE ~attemptIsCurrent(a)
    <3> DEFINE pc1 == [connection.pc EXCEPT ![a] = "over"]
    <3>1. connection' = [connection EXCEPT !.pc = pc1]
      BY <1>2, <2>2, <1>a DEF TargetOpened, attemptIsCurrent, attemptSettled
    <3>2. pc1 \in [ConnectionAttempt -> AtWork \cup {"none", "relaying", "over"}]
      BY <1>2, <2>2, <1>a DEF TargetOpened, attemptIsCurrent, attemptSettled
    <3> HIDE DEF pc1
    <3>3. /\ connection' \in ConnectionType
          /\ connection'.pc = pc1 /\ SameAttempts(connection', connection) /\ SameOpen(connection', connection)
          /\ SameCalls(connection', connection)
      BY <3>1, <3>2
    <3>4. SUFFICES ASSUME ~connection'.overtaken, ConnectionRest(connection) PROVE ConnectionRest(connection')
      BY <3>3
    <3>5. AttemptsInv(connection') BY <1>2, <2>2, <1>a, <3>3, <3>4 DEF pc1, TargetOpened, attemptIsCurrent, attemptSettled
    <3>6. OpenInv(connection') BY <1>2, <2>2, <1>a, <3>3, <3>4 DEF pc1, TargetOpened, attemptIsCurrent, attemptSettled
    <3>7. ManagerInv(connection') BY <1>2, <2>2, <1>a, <3>3, <3>4 DEF pc1, TargetOpened, attemptIsCurrent, attemptSettled
    <3> QED BY <3>5, <3>6, <3>7
  <2> QED BY <2>1, <2>2
<1>3. ASSUME NEW a \in ConnectionAttempt, SocketAssigned(a) PROVE ConnectionInv'
  <2>1. CASE attemptIsCurrent(a)
    <3> DEFINE pc1 == [connection.pc EXCEPT ![a] = "local"]
               held1 == [connection.held EXCEPT !.socket = a]
               open1 == connection.open \cup {<<"socket", a>>}
    <3>1. connection' = [connection EXCEPT !.pc = pc1, !.held = held1, !.open = open1]
      BY <1>3, <2>1, <1>a DEF SocketAssigned, attemptIsCurrent, attemptSettled
    <3>2. pc1 \in [ConnectionAttempt -> AtWork \cup {"none", "relaying", "over"}] /\ held1 \in [ConnectionPart -> AttemptRef] /\ open1 \in SUBSET (ConnectionPart \X ConnectionAttempt)
      BY <1>3, <2>1, <1>a DEF SocketAssigned, attemptIsCurrent, attemptSettled
    <3> HIDE DEF pc1, held1, open1
    <3>3. /\ connection' \in ConnectionType
          /\ connection'.pc = pc1 /\ SameAttempts(connection', connection) /\ connection'.state = connection.state
          /\ connection'.held = held1 /\ connection'.open = open1 /\ connection'.timer = connection.timer
          /\ SameCalls(connection', connection)
      BY <3>1, <3>2
    <3>4. SUFFICES ASSUME ~connection'.overtaken, ConnectionRest(connection) PROVE ConnectionRest(connection')
      BY <3>3
    <3>5. AttemptsInv(connection') BY <1>3, <2>1, <1>a, <3>3, <3>4 DEF pc1, held1, open1, SocketAssigned, attemptIsCurrent, attemptSettled
    <3>6. OpenInv(connection') BY <1>3, <2>1, <1>a, <3>3, <3>4 DEF pc1, held1, open1, SocketAssigned, attemptIsCurrent, attemptSettled
    <3>7. ManagerInv(connection') BY <1>3, <2>1, <1>a, <3>3, <3>4 DEF pc1, held1, open1, SocketAssigned, attemptIsCurrent, attemptSettled
    <3> QED BY <3>5, <3>6, <3>7
  <2>2. CASE ~attemptIsCurrent(a)
    <3> DEFINE k == connectionCleanup(attemptSettled([connection EXCEPT !.held.socket = a, !.open = @ \cup {<<"socket", a>>}], a))
    <3>0. connection.pc[a] = "socket" /\ connection.of[a] # connection.generation
      BY <1>3, <2>2 DEF SocketAssigned, attemptIsCurrent
    <3>1. CleanedUp(k, a) /\ (ConnectionRest(connection) => k.open = {})
      BY <3>0, <1>c
    <3> HIDE DEF k
    <3>2. connection' = k
      BY <1>3, <2>2, <1>a, <3>1 DEF k, SocketAssigned, attemptIsCurrent, attemptSettled
    <3>3. /\ connection' \in ConnectionType
          /\ connection'.pc = k.pc /\ SameAttempts(connection', k) /\ SameOpen(connection', k)
          /\ SameCalls(connection', k)
      BY <3>2, <3>1 DEF CleanedUp, DisposedBy
    <3>4. SUFFICES ASSUME ~connection'.overtaken, ConnectionRest(connection) PROVE ConnectionRest(connection')
      BY <3>3, <3>1 DEF CleanedUp, DisposedBy
    <3>5. AttemptsInv(connection') BY <3>0, <1>a, <3>3, <3>4, <3>1 DEF CleanedUp
    <3>6. OpenInv(connection') BY <3>0, <1>a, <3>3, <3>4, <3>1 DEF CleanedUp
    <3>7. ManagerInv(connection') BY <3>0, <1>a, <3>3, <3>4, <3>1 DEF CleanedUp
    <3> QED BY <3>5, <3>6, <3>7
  <2> QED BY <2>1, <2>2
<1>4. ASSUME NEW a \in ConnectionAttempt, LocalOpened(a) PROVE ConnectionInv'
  <2>1. CASE attemptIsCurrent(a)
    <3> DEFINE pc1 == [connection.pc EXCEPT ![a] = "register"]
               held1 == [connection.held EXCEPT !.local = a]
               open1 == connection.open \cup {<<"local", a>>}
    <3>1. connection' = [connection EXCEPT !.pc = pc1, !.held = held1, !.open = open1]
      BY <1>4, <2>1, <1>a DEF LocalOpened, attemptIsCurrent, attemptSettled
    <3>2. pc1 \in [ConnectionAttempt -> AtWork \cup {"none", "relaying", "over"}] /\ held1 \in [ConnectionPart -> AttemptRef] /\ open1 \in SUBSET (ConnectionPart \X ConnectionAttempt)
      BY <1>4, <2>1, <1>a DEF LocalOpened, attemptIsCurrent, attemptSettled
    <3> HIDE DEF pc1, held1, open1
    <3>3. /\ connection' \in ConnectionType
          /\ connection'.pc = pc1 /\ SameAttempts(connection', connection) /\ connection'.state = connection.state
          /\ connection'.held = held1 /\ connection'.open = open1 /\ connection'.timer = connection.timer
          /\ SameCalls(connection', connection)
      BY <3>1, <3>2
    <3>4. SUFFICES ASSUME ~connection'.overtaken, ConnectionRest(connection) PROVE ConnectionRest(connection')
      BY <3>3
    <3>5. AttemptsInv(connection') BY <1>4, <2>1, <1>a, <3>3, <3>4 DEF pc1, held1, open1, LocalOpened, attemptIsCurrent, attemptSettled
    <3>6. OpenInv(connection') BY <1>4, <2>1, <1>a, <3>3, <3>4 DEF pc1, held1, open1, LocalOpened, attemptIsCurrent, attemptSettled
    <3>7. ManagerInv(connection') BY <1>4, <2>1, <1>a, <3>3, <3>4 DEF pc1, held1, open1, LocalOpened, attemptIsCurrent, attemptSettled
    <3> QED BY <3>5, <3>6, <3>7
  <2>2. CASE ~attemptIsCurrent(a)
    <3> DEFINE k == connectionCleanup(attemptSettled(connection, a))
    <3>1. CleanedUp(k, a) /\ (ConnectionRest(connection) => k.open = {})
      BY <1>b
    <3> HIDE DEF k
    <3>2. connection' = k
      BY <1>4, <2>2, <1>a, <3>1 DEF k, LocalOpened, attemptIsCurrent
    <3>3. /\ connection' \in ConnectionType
          /\ connection'.pc = k.pc /\ SameAttempts(connection', k) /\ SameOpen(connection', k)
          /\ SameCalls(connection', k)
      BY <3>2, <3>1 DEF CleanedUp, DisposedBy
    <3>4. SUFFICES ASSUME ~connection'.overtaken, ConnectionRest(connection) PROVE ConnectionRest(connection')
      BY <3>3, <3>1 DEF CleanedUp, DisposedBy
    <3>5. AttemptsInv(connection') BY <1>4, <2>2, <1>a, <3>3, <3>4, <3>1 DEF LocalOpened, attemptIsCurrent, CleanedUp, DisposedBy
    <3>6. OpenInv(connection') BY <1>4, <2>2, <1>a, <3>3, <3>4, <3>1 DEF LocalOpened, attemptIsCurrent, CleanedUp, DisposedBy
    <3>7. ManagerInv(connection') BY <1>4, <2>2, <1>a, <3>3, <3>4, <3>1 DEF LocalOpened, attemptIsCurrent, CleanedUp, DisposedBy
    <3> QED BY <3>5, <3>6, <3>7
  <2> QED BY <2>1, <2>2
<1>5. ASSUME NEW a \in ConnectionAttempt, EndpointRegistered(a) PROVE ConnectionInv'
  <2> DEFINE pc1 == [connection.pc EXCEPT ![a] = "relaying"]
  <2>1. connection' = [connection EXCEPT !.pc = pc1, !.state = "running"]
    BY <1>5, <1>a DEF EndpointRegistered
  <2>2. pc1 \in [ConnectionAttempt -> AtWork \cup {"none", "relaying", "over"}]
    BY <1>5, <1>a DEF EndpointRegistered
  <2> HIDE DEF pc1
  <2>3. /\ connection' \in ConnectionType
        /\ connection'.pc = pc1 /\ SameAttempts(connection', connection) /\ connection'.state = "running"
        /\ connection'.held = connection.held /\ connection'.open = connection.open /\ connection'.timer = connection.timer
        /\ SameCalls(connection', connection)
    BY <2>1, <2>2
  <2>4. SUFFICES ASSUME ~connection'.overtaken, ConnectionRest(connection) PROVE ConnectionRest(connection')
    BY <2>3
  <2>5. AttemptsInv(connection') BY <1>5, <1>a, <2>3, <2>4 DEF pc1, EndpointRegistered
  <2>6. OpenInv(connection') BY <1>5, <1>a, <2>3, <2>4 DEF pc1, EndpointRegistered
  <2>7. ManagerInv(connection') BY <1>5, <1>a, <2>3, <2>4 DEF pc1, EndpointRegistered
  <2> QED BY <2>5, <2>6, <2>7
<1>6. ASSUME NEW a \in ConnectionAttempt, AttemptRejected(a) PROVE ConnectionInv'
  <2>1. CASE connection.of[a] = connection.generation
    <3> DEFINE k == connectionCleanup(attemptSettled(connection, a))
    <3>1. CleanedUp(k, a) /\ (ConnectionRest(connection) => k.open = {})
      BY <1>b
    <3>9. connection' = [k EXCEPT !.state = IF connection.policy = "never" THEN "failed" ELSE "backoff",
                                  !.timer = IF connection.policy = "never" THEN @ ELSE connection.generation]
      BY <1>6, <2>1 DEF AttemptRejected, connectionFailed
    <3> HIDE DEF k
    <3> DEFINE state1 == IF connection.policy = "never" THEN "failed" ELSE "backoff"
               timer1 == IF connection.policy = "never" THEN connection.timer ELSE connection.generation
    <3>2. connection' = [k EXCEPT !.state = state1, !.timer = timer1]
      BY <3>1, <3>9 DEF CleanedUp
    <3>3. state1 \in {"stopped", "starting", "running", "backoff", "failed"} /\ timer1 \in Nat
      BY <1>6, <2>1, <1>a, <3>1 DEF AttemptRejected, connectionFailed, CleanedUp, DisposedBy
    <3> HIDE DEF state1, timer1
    <3>4. /\ connection' \in ConnectionType
          /\ connection'.pc = k.pc /\ SameAttempts(connection', k) /\ connection'.state = state1
          /\ connection'.held = k.held /\ connection'.open = k.open /\ connection'.timer = timer1
          /\ SameCalls(connection', k)
      BY <3>2, <3>3, <3>1 DEF CleanedUp, DisposedBy
    <3>5. SUFFICES ASSUME ~connection'.overtaken, ConnectionRest(connection) PROVE ConnectionRest(connection')
      BY <3>4, <3>1 DEF CleanedUp, DisposedBy
    <3>6. AttemptsInv(connection') BY <1>6, <2>1, <1>a, <3>4, <3>5, <3>1 DEF state1, timer1, AttemptRejected, connectionFailed, CleanedUp, DisposedBy
    <3>7. OpenInv(connection') BY <1>6, <2>1, <1>a, <3>4, <3>5, <3>1 DEF state1, timer1, AttemptRejected, connectionFailed, CleanedUp, DisposedBy
    <3>8. ManagerInv(connection') BY <1>6, <2>1, <1>a, <3>4, <3>5, <3>1 DEF state1, timer1, AttemptRejected, connectionFailed, CleanedUp, DisposedBy
    <3> QED BY <3>6, <3>7, <3>8
  <2>2. CASE connection.of[a] # connection.generation
    <3> DEFINE pc1 == [connection.pc EXCEPT ![a] = "over"]
    <3>1. connection' = [connection EXCEPT !.pc = pc1]
      BY <1>6, <2>2, <1>a DEF AttemptRejected, connectionFailed, attemptSettled
    <3>2. pc1 \in [ConnectionAttempt -> AtWork \cup {"none", "relaying", "over"}]
      BY <1>6, <2>2, <1>a DEF AttemptRejected, connectionFailed, attemptSettled
    <3> HIDE DEF pc1
    <3>3. /\ connection' \in ConnectionType
          /\ connection'.pc = pc1 /\ SameAttempts(connection', connection) /\ SameOpen(connection', connection)
          /\ SameCalls(connection', connection)
      BY <3>1, <3>2
    <3>4. SUFFICES ASSUME ~connection'.overtaken, ConnectionRest(connection) PROVE ConnectionRest(connection')
      BY <3>3
    <3>5. AttemptsInv(connection') BY <1>6, <2>2, <1>a, <3>3, <3>4 DEF pc1, AttemptRejected, connectionFailed, attemptSettled
    <3>6. OpenInv(connection') BY <1>6, <2>2, <1>a, <3>3, <3>4 DEF pc1, AttemptRejected, connectionFailed, attemptSettled
    <3>7. ManagerInv(connection') BY <1>6, <2>2, <1>a, <3>3, <3>4 DEF pc1, AttemptRejected, connectionFailed, attemptSettled
    <3> QED BY <3>5, <3>6, <3>7
  <2> QED BY <2>1, <2>2
<1>7. ASSUME NEW a \in ConnectionAttempt, DisconnectSeen(a) PROVE ConnectionInv'
  <2>1. CASE connection.of[a] = connection.generation
    <3> DEFINE k == connectionCleanup(attemptSettled(connection, a))
    <3>1. CleanedUp(k, a) /\ (ConnectionRest(connection) => k.open = {})
      BY <1>b
    <3>9. connection' = [k EXCEPT !.state = IF connection.policy = "never" THEN "failed" ELSE "backoff",
                                  !.timer = IF connection.policy = "never" THEN @ ELSE connection.generation]
      BY <1>7, <2>1 DEF DisconnectSeen, connectionFailed
    <3> HIDE DEF k
    <3> DEFINE state1 == IF connection.policy = "never" THEN "failed" ELSE "backoff"
               timer1 == IF connection.policy = "never" THEN connection.timer ELSE connection.generation
    <3>2. connection' = [k EXCEPT !.state = state1, !.timer = timer1]
      BY <3>1, <3>9 DEF CleanedUp
    <3>3. state1 \in {"stopped", "starting", "running", "backoff", "failed"} /\ timer1 \in Nat
      BY <1>7, <2>1, <1>a, <3>1 DEF DisconnectSeen, connectionFailed, CleanedUp, DisposedBy
    <3> HIDE DEF state1, timer1
    <3>4. /\ connection' \in ConnectionType
          /\ connection'.pc = k.pc /\ SameAttempts(connection', k) /\ connection'.state = state1
          /\ connection'.held = k.held /\ connection'.open = k.open /\ connection'.timer = timer1
          /\ SameCalls(connection', k)
      BY <3>2, <3>3, <3>1 DEF CleanedUp, DisposedBy
    <3>5. SUFFICES ASSUME ~connection'.overtaken, ConnectionRest(connection) PROVE ConnectionRest(connection')
      BY <3>4, <3>1 DEF CleanedUp, DisposedBy
    <3>6. AttemptsInv(connection') BY <1>7, <2>1, <1>a, <3>4, <3>5, <3>1 DEF state1, timer1, DisconnectSeen, connectionFailed, CleanedUp, DisposedBy
    <3>7. OpenInv(connection') BY <1>7, <2>1, <1>a, <3>4, <3>5, <3>1 DEF state1, timer1, DisconnectSeen, connectionFailed, CleanedUp, DisposedBy
    <3>8. ManagerInv(connection') BY <1>7, <2>1, <1>a, <3>4, <3>5, <3>1 DEF state1, timer1, DisconnectSeen, connectionFailed, CleanedUp, DisposedBy
    <3> QED BY <3>6, <3>7, <3>8
  <2>2. CASE connection.of[a] # connection.generation
    <3> DEFINE pc1 == [connection.pc EXCEPT ![a] = "over"]
    <3>1. connection' = [connection EXCEPT !.pc = pc1]
      BY <1>7, <2>2, <1>a DEF DisconnectSeen, connectionFailed, attemptSettled
    <3>2. pc1 \in [ConnectionAttempt -> AtWork \cup {"none", "relaying", "over"}]
      BY <1>7, <2>2, <1>a DEF DisconnectSeen, connectionFailed, attemptSettled
    <3> HIDE DEF pc1
    <3>3. /\ connection' \in ConnectionType
          /\ connection'.pc = pc1 /\ SameAttempts(connection', connection) /\ SameOpen(connection', connection)
          /\ SameCalls(connection', connection)
      BY <3>1, <3>2
    <3>4. SUFFICES ASSUME ~connection'.overtaken, ConnectionRest(connection) PROVE ConnectionRest(connection')
      BY <3>3
    <3>5. AttemptsInv(connection') BY <1>7, <2>2, <1>a, <3>3, <3>4 DEF pc1, DisconnectSeen, connectionFailed, attemptSettled
    <3>6. OpenInv(connection') BY <1>7, <2>2, <1>a, <3>3, <3>4 DEF pc1, DisconnectSeen, connectionFailed, attemptSettled
    <3>7. ManagerInv(connection') BY <1>7, <2>2, <1>a, <3>3, <3>4 DEF pc1, DisconnectSeen, connectionFailed, attemptSettled
    <3> QED BY <3>5, <3>6, <3>7
  <2> QED BY <2>1, <2>2
<1>8. ASSUME NEW part \in ConnectionPart, NEW a \in ConnectionAttempt, ConnectionTransportCloses(part, a) PROVE ConnectionInv'
  <2> DEFINE open1 == connection.open \ {<<part, a>>}
  <2>1. connection' = [connection EXCEPT !.open = open1]
    BY <1>8, <1>a DEF ConnectionTransportCloses
  <2>2. open1 \in SUBSET (ConnectionPart \X ConnectionAttempt)
    BY <1>8, <1>a DEF ConnectionTransportCloses
  <2> HIDE DEF open1
  <2>3. /\ connection' \in ConnectionType
        /\ connection'.pc = connection.pc /\ SameAttempts(connection', connection) /\ connection'.state = connection.state
        /\ connection'.held = connection.held /\ connection'.open = open1 /\ connection'.timer = connection.timer
        /\ SameCalls(connection', connection)
    BY <2>1, <2>2
  <2>4. SUFFICES ASSUME ~connection'.overtaken, ConnectionRest(connection) PROVE ConnectionRest(connection')
    BY <2>3
  <2>5. AttemptsInv(connection') BY <1>8, <1>a, <2>3, <2>4 DEF open1, ConnectionTransportCloses
  <2>6. OpenInv(connection') BY <1>8, <1>a, <2>3, <2>4 DEF open1, ConnectionTransportCloses
  <2>7. ManagerInv(connection') BY <1>8, <1>a, <2>3, <2>4 DEF open1, ConnectionTransportCloses
  <2> QED BY <2>5, <2>6, <2>7
<1>9. CASE RetryDue
  <2> DEFINE d == [connection EXCEPT !.timer = 0]
             c == attemptStarted(d, connection.generation)
  <2>1. d \in ConnectionType /\ d.pc = connection.pc /\ SameAttempts(d, connection) /\ SameCalls(d, connection)
        /\ d.state = connection.state /\ d.held = connection.held /\ d.open = connection.open /\ d.timer = 0
        /\ d.generation <= connection.generation
    OBVIOUS
  <2>2. CASE connection.timer = connection.generation
    <3>1. connection' = c /\ d.made < MaxAttempt BY <1>9, <2>1, <2>2 DEF RetryDue
    <3> HIDE DEF d
    <3>2. AttemptMade(d, c, connection.generation) BY <2>1, <3>1, AttemptStarts
    <3> HIDE DEF c
    <3>3. SUFFICES ASSUME ~connection'.overtaken, ConnectionRest(connection) PROVE ConnectionRest(connection')
      BY <2>1, <3>1, <3>2 DEF AttemptMade
    <3>4. d.state = "backoff" /\ (\A a \in ConnectionAttempt : d.pc[a] \notin AtWork) /\ AttemptsInv(d)
      BY <1>9, <2>1, <2>2, <3>3 DEF RetryDue
    <3>5. AttemptsInv(connection') BY <3>1, <3>2, <3>4 DEF AttemptMade
    <3>6. OpenInv(connection') BY <1>9, <1>a, <2>1, <3>1, <3>2, <3>3, <3>4 DEF AttemptMade, RetryDue
    <3>7. ASSUME NEW n \in Manager PROVE ManagerOK(connection', n)
      <4>1. ManagerOK(connection, n) /\ connection.made \in Nat /\ connection.timer # 0 BY <1>9, <3>3 DEF RetryDue
      <4>3. connection.waits[n] \in AttemptRef OBVIOUS
      <4>2. /\ connection'.caller[n] = connection.caller[n] /\ connection'.waits[n] = connection.waits[n]
            /\ connection'.removed = connection.removed /\ connection'.revived = connection.revived
            /\ connection'.made = connection.made + 1 /\ connection'.pending = connection.made + 1
        BY <2>1, <3>1, <3>2 DEF AttemptMade
      <4> QED BY <1>a, <4>1, <4>2, <4>3 DEF AttemptRef
    <3> QED BY <3>5, <3>6, <3>7
  <2>3. CASE connection.timer # connection.generation
    <3>1. connection' = d BY <1>9, <2>3 DEF RetryDue
    <3> HIDE DEF d
    <3>2. SUFFICES ASSUME ~connection'.overtaken, ConnectionRest(connection) PROVE ConnectionRest(connection') BY <2>1, <3>1
    <3>3. AttemptsInv(connection') /\ OpenInv(connection') BY <2>1, <3>1, <3>2
    <3>4. ManagerInv(connection') BY <2>1, <3>1, <3>2
    <3> QED BY <3>3, <3>4
  <2> QED BY <2>2, <2>3
<1>10. ASSUME NEW m \in Manager, Syncs(m) PROVE ConnectionInv'
  <2> DEFINE s == synced(m)
             commands1 == s.commands + 1
  <2>1. SyncedBy(s, m) BY <1>e, <1>10 DEF Syncs
  <2>2. connection' = [s EXCEPT !.commands = commands1, !.enabled = TRUE] BY <1>10 DEF Syncs
  <2> HIDE DEF s
  <2>3. commands1 \in Nat BY <2>1 DEF SyncedBy
  <2> HIDE DEF commands1
  <2>4. /\ connection' \in ConnectionType /\ connection'.pc = s.pc /\ SameAttempts(connection', s)
        /\ SameOpen(connection', s) /\ SameCalls(connection', s)
    BY <2>1, <2>2, <2>3 DEF SyncedBy
  <2>5. ASSUME AttemptsInv(s), OpenInv(s), \A n \in Manager : ManagerWaits(s, n) PROVE ConnectionRest(connection')
    <3>1. s.removed = FALSE BY <1>10, <2>1 DEF Syncs, SyncedBy
    <3>2. AttemptsInv(connection') /\ OpenInv(connection') BY <2>4, <2>5
    <3>3. ManagerInv(connection') BY <2>4, <2>5, <3>1
    <3> QED BY <3>2, <3>3
  <2> QED BY <2>1, <2>4, <2>5 DEF SyncedBy
<1>11. ASSUME NEW m \in Manager, Resyncs(m) PROVE ConnectionInv'
  <2>1. CASE connection.enabled
    <3> DEFINE s == synced(m)
               revived1 == s.revived \/ connection.removed
    <3>1. SyncedBy(s, m) BY <1>e, <1>11, <2>1 DEF Resyncs
    <3>2. connection' = [s EXCEPT !.revived = revived1] BY <1>11, <2>1 DEF Resyncs
    <3> HIDE DEF s
    <3>3. revived1 \in BOOLEAN /\ (s.removed => revived1) BY <3>1 DEF SyncedBy
    <3> HIDE DEF revived1
    <3>4. /\ connection' \in ConnectionType /\ connection'.pc = s.pc /\ SameAttempts(connection', s)
          /\ SameOpen(connection', s) /\ connection'.removed = s.removed /\ connection'.overtaken = s.overtaken
          /\ connection'.revived = revived1 /\ connection'.caller = s.caller /\ connection'.waits = s.waits
      BY <3>1, <3>2, <3>3 DEF SyncedBy
    <3>5. ASSUME AttemptsInv(s), OpenInv(s), \A n \in Manager : ManagerWaits(s, n) PROVE ConnectionRest(connection')
      <4>1. AttemptsInv(connection') /\ OpenInv(connection') BY <3>4, <3>5
      <4>2. ManagerInv(connection') BY <3>3, <3>4, <3>5
      <4> QED BY <4>1, <4>2
    <3> QED BY <3>1, <3>4, <3>5 DEF SyncedBy
  <2>3. CASE ~connection.enabled
    <3> DEFINE k == disposed(m, "dispose")
    <3>1. DisposedBy(k, m, "dispose")
      BY <1>d
    <3> HIDE DEF k
    <3>2. connection' = k
      BY <1>11, <2>3, <1>a, <3>1 DEF k, Resyncs
    <3>3. /\ connection' \in ConnectionType
          /\ connection'.pc = k.pc /\ SameAttempts(connection', k) /\ SameOpen(connection', k)
          /\ SameCalls(connection', k)
      BY <3>2, <3>1 DEF CleanedUp, DisposedBy
    <3>4. SUFFICES ASSUME ~connection'.overtaken, ConnectionRest(connection) PROVE ConnectionRest(connection')
      BY <3>3, <3>1 DEF CleanedUp, DisposedBy
    <3>5. AttemptsInv(connection') BY <1>11, <2>3, <1>a, <3>3, <3>4, <3>1 DEF Resyncs, CleanedUp, DisposedBy
    <3>6. OpenInv(connection') BY <1>11, <2>3, <1>a, <3>3, <3>4, <3>1 DEF Resyncs, CleanedUp, DisposedBy
    <3>7. ManagerInv(connection') BY <1>11, <2>3, <1>a, <3>3, <3>4, <3>1 DEF Resyncs, CleanedUp, DisposedBy
    <3> QED BY <3>5, <3>6, <3>7
  <2> QED BY <2>1, <2>3
<1>12. ASSUME NEW m \in Manager, NEW method \in Disposing, Disposes(m, method) PROVE ConnectionInv'
  <2> DEFINE k == disposed(m, method)
  <2>1. DisposedBy(k, m, method) /\ connection.removed = FALSE BY <1>d, <1>12 DEF Disposes
  <2>9. connection' = [k EXCEPT !.removed = (method = "remove"), !.enabled = @ /\ method # "dispose", !.commands = @ + 1]
    BY <1>12 DEF Disposes
  <2> HIDE DEF k
  <2> DEFINE removed1 == (method = "remove")
             enabled1 == k.enabled /\ method # "dispose"
             commands1 == k.commands + 1
  <2>2. connection' = [k EXCEPT !.removed = removed1, !.enabled = enabled1, !.commands = commands1]
    BY <2>9
  <2>3. removed1 \in BOOLEAN /\ enabled1 \in BOOLEAN /\ commands1 \in Nat BY <2>1 DEF DisposedBy
  <2> HIDE DEF removed1, enabled1, commands1
  <2>4. /\ connection' \in ConnectionType /\ connection'.pc = k.pc /\ SameAttempts(connection', k)
        /\ SameOpen(connection', k) /\ connection'.removed = removed1 /\ connection'.overtaken = k.overtaken
        /\ connection'.revived = k.revived /\ connection'.caller = k.caller /\ connection'.waits = k.waits
    <3>1. k \in ConnectionType BY <2>1 DEF DisposedBy
    <3>2. connection' \in ConnectionType BY <2>2, <2>3, <3>1
    <3>3. /\ connection'.removed = removed1 /\ connection'.pc = k.pc /\ connection'.overtaken = k.overtaken
          /\ connection'.revived = k.revived /\ connection'.caller = k.caller /\ connection'.waits = k.waits
      BY <2>2, <2>3, <3>1
    <3>4. SameAttempts(connection', k) /\ SameOpen(connection', k) BY <2>2, <2>3, <3>1
    <3> QED BY <3>2, <3>3, <3>4
  <2>5. SUFFICES ASSUME ~connection'.overtaken, ConnectionRest(connection) PROVE ConnectionRest(connection')
    BY <2>4, <2>1 DEF DisposedBy
  <2>6. AttemptsInv(connection') BY <1>a, <2>1, <2>4, <2>5 DEF DisposedBy
  <2>7. OpenInv(connection') BY <1>a, <2>1, <2>4, <2>5 DEF DisposedBy
  <2>8. ASSUME NEW n \in Manager PROVE ManagerOK(connection', n)
    <3>1. Dropped(connection') BY <1>a, <2>1, <2>4, <2>5 DEF DisposedBy
    <3>2. ManagerOK(connection, n) /\ connection.caller[n] \notin {"remove", "gone"} BY <2>1, <2>5
    <3>3. CASE n = m BY <1>a, <2>1, <2>4, <2>5, <3>1, <3>3 DEF DisposedBy, removed1
    <3>4. CASE n # m BY <2>1, <2>4, <3>1, <3>2, <3>4 DEF DisposedBy
    <3> QED BY <3>3, <3>4
  <2> QED BY <2>6, <2>7, <2>8
<1>13. ASSUME NEW m \in Manager, ManagerResumes(m) PROVE ConnectionInv'
  <2> DEFINE waits1 == [connection.waits EXCEPT ![m] = 0]
             overtaken1 == connection.overtaken \/ connection.pending # connection.waits[m]
             removed1 == connection.removed \/ connection.caller[m] = "replace"
             caller1 == [connection.caller EXCEPT ![m] = [dispose |-> "idle", restart |-> "resync", remove |-> "gone", replace |-> "gone"][@]]
  <2>1. connection' = [connection EXCEPT !.state = "stopped", !.waits = waits1, !.overtaken = overtaken1, !.removed = removed1, !.caller = caller1]
    BY <1>13, <1>a DEF ManagerResumes, managerWaited
  <2>2. waits1 \in [Manager -> AttemptRef] /\ overtaken1 \in BOOLEAN /\ removed1 \in BOOLEAN /\ caller1 \in [Manager -> Disposing \cup {"idle", "sync", "resync", "gone"}]
    BY <1>13, <1>a DEF ManagerResumes, managerWaited
  <2> HIDE DEF waits1, overtaken1, removed1, caller1
  <2>3. /\ connection' \in ConnectionType
        /\ connection'.pc = connection.pc /\ SameAttempts(connection', connection) /\ connection'.state = "stopped"
        /\ connection'.held = connection.held /\ connection'.open = connection.open /\ connection'.timer = connection.timer
        /\ connection'.removed = removed1 /\ connection'.overtaken = overtaken1 /\ connection'.revived = connection.revived
        /\ connection'.caller = caller1 /\ connection'.waits = waits1
    BY <2>1, <2>2
  <2>4. SUFFICES ASSUME ~connection'.overtaken, ConnectionRest(connection) PROVE ConnectionRest(connection')
    BY <2>3 DEF overtaken1
  <2>5. /\ connection.waits[m] = connection.pending /\ connection.caller[m] \in Disposing
        /\ connection.waits[m] # 0 => connection.pc[connection.waits[m]] \in {"over", "relaying"}
    <3>1. ~overtaken1 /\ connection.caller[m] \in Disposing /\ managerWaited(m) BY <1>13, <2>3, <2>4 DEF ManagerResumes
    <3> QED BY <3>1 DEF managerWaited, overtaken1
  <2>6. Dropped(connection) BY <2>4, <2>5
  <2>7. \A a \in ConnectionAttempt : connection.pc[a] \notin AtWork BY <1>a, <2>4, <2>5
  <2>8. connection.open = {}
    <3> SUFFICES ASSUME NEW o \in connection.open PROVE FALSE OBVIOUS
    <3>1. o[1] \in ConnectionPart /\ o[2] \in ConnectionAttempt /\ <<o[1], o[2]>> \in connection.open OBVIOUS
    <3>2. o[2] = connection.pending /\ connection.of[o[2]] = connection.generation BY <2>4, <3>1
    <3> QED BY <1>a, <2>6, <3>1, <3>2
  <2>9. /\ \A n \in Manager \ {m} : caller1[n] = connection.caller[n] /\ waits1[n] = connection.waits[n]
        /\ waits1[m] = 0 /\ (connection.removed => removed1)
    BY DEF caller1, waits1, removed1
  <2>10. caller1[m] \in {"idle", "resync", "gone"} /\ (caller1[m] = "gone" => removed1)
    <3>1. connection.caller[m] = "remove" => connection.removed BY <2>4
    <3>2. caller1[m] = [dispose |-> "idle", restart |-> "resync", remove |-> "gone", replace |-> "gone"][connection.caller[m]]
      BY DEF caller1
    <3>3. \/ caller1[m] = "idle" \/ caller1[m] = "resync"
          \/ caller1[m] = "gone" /\ (connection.removed \/ connection.caller[m] = "replace")
      BY <2>5, <3>1, <3>2
    <3> HIDE DEF caller1
    <3>4. caller1[m] = "gone" => (connection.removed \/ connection.caller[m] = "replace") BY <3>3
    <3>5. caller1[m] \in {"idle", "resync", "gone"} BY <3>3
    <3> QED BY <3>4, <3>5 DEF removed1
  <2>11. AttemptsInv(connection')
    <3>1. ASSUME NEW a \in ConnectionAttempt, connection.pc[a] = "relaying" PROVE connection.of[a] # connection.generation
      <4>1. a # 0 /\ connection.of[a] \in Nat /\ connection.generation \in Nat BY <1>a
      <4> QED BY <2>4, <2>6, <3>1, <4>1
    <3> QED BY <2>3, <2>4, <2>7, <3>1
  <2>12. OpenInv(connection') BY <2>3, <2>6, <2>8
  <2>13. ASSUME NEW n \in Manager PROVE ManagerOK(connection', n)
    <3>1. Dropped(connection') /\ (\A a \in ConnectionAttempt : connection'.pc[a] \notin AtWork) BY <2>3, <2>6, <2>7
    <3>2. CASE n = m BY <2>3, <2>10, <2>9, <3>1, <3>2
    <3>3. CASE n # m BY <2>3, <2>4, <2>9, <3>1, <3>3
    <3> QED BY <3>2, <3>3
  <2> QED BY <2>11, <2>12, <2>13
<1>14. ASSUME NEW m \in Manager, SyncReturns(m) PROVE ConnectionInv'
  <2> DEFINE caller1 == [connection.caller EXCEPT ![m] = "idle"]
             waits1 == [connection.waits EXCEPT ![m] = 0]
  <2>1. connection' = [connection EXCEPT !.caller = caller1, !.waits = waits1]
    BY <1>14, <1>a DEF SyncReturns
  <2>2. caller1 \in [Manager -> Disposing \cup {"idle", "sync", "resync", "gone"}] /\ waits1 \in [Manager -> AttemptRef]
    BY <1>14, <1>a DEF SyncReturns
  <2> HIDE DEF caller1, waits1
  <2>3. /\ connection' \in ConnectionType
        /\ connection'.pc = connection.pc /\ SameAttempts(connection', connection) /\ SameOpen(connection', connection)
        /\ connection'.removed = connection.removed /\ connection'.overtaken = connection.overtaken /\ connection'.revived = connection.revived
        /\ connection'.caller = caller1 /\ connection'.waits = waits1
    BY <2>1, <2>2
  <2>4. SUFFICES ASSUME ~connection'.overtaken, ConnectionRest(connection) PROVE ConnectionRest(connection')
    BY <2>3
  <2>5. AttemptsInv(connection') BY <1>14, <1>a, <2>3, <2>4 DEF caller1, waits1, SyncReturns
  <2>6. OpenInv(connection') BY <1>14, <1>a, <2>3, <2>4 DEF caller1, waits1, SyncReturns
  <2>7. ManagerInv(connection') BY <1>14, <1>a, <2>3, <2>4 DEF caller1, waits1, SyncReturns
  <2> QED BY <2>5, <2>6, <2>7
<1> HIDE DEF ConnectionInv, ConnectionType, ConnectionPart
<1>15. ASSUME NEW a \in ConnectionAttempt, AttemptStep(a) PROVE ConnectionInv'
  BY <1>2, <1>3, <1>4, <1>5, <1>6, <1>7, <1>15 DEF AttemptStep
<1>16. ASSUME NEW m \in Manager, ManagerStep(m) PROVE ConnectionInv' BY <1>11, <1>13, <1>14, <1>16 DEF ManagerStep
<1> QED BY <1>1, <1>8, <1>9, <1>10, <1>12, <1>15, <1>16 DEF ConnectionNext, Disposing

LEMMA ConnectionContained == ConnectionInv => ConnectionIsContained
<1> SUFFICES ASSUME connection \in ConnectionType, ConnectionRest(connection) PROVE ConnectionIsContained
  BY DEF ConnectionInv, ConnectionIsContained
<1> USE DEF ConnectionRest
<1>1. \A a \in ConnectionAttempt : attemptAtWork(a) <=> connection.pc[a] \in AtWork
  BY DEF attemptAtWork, AtWork
<1>2. OneAttempt BY <1>1 DEF OneAttempt, AttemptsInv
<1>3. NothingStaysOpen BY <1>1 DEF NothingStaysOpen, AttemptsInv, OpenInv, ConnectionType
<1>4. ASSUME NEW m \in Manager, connection.caller[m] = "gone", ~connection.revived
      PROVE  connection.open = {} /\ \A a \in ConnectionAttempt : ~attemptAtWork(a)
  <2>1. Dropped(connection) /\ \A a \in ConnectionAttempt : connection.pc[a] \notin AtWork
    BY <1>4 DEF ManagerInv, ManagerOK
  <2>2. ASSUME NEW o \in connection.open PROVE FALSE
    <3>1. o[1] \in ConnectionPart /\ o[2] \in ConnectionAttempt /\ <<o[1], o[2]>> \in connection.open
      BY DEF ConnectionType
    <3>2. o[2] = connection.pending /\ connection.of[o[2]] = connection.generation BY <3>1 DEF OpenInv
    <3> QED BY <2>1, <3>1, <3>2, AttemptRefs DEF Dropped, ConnectionType
  <2> QED BY <1>1, <2>1, <2>2
<1> QED BY <1>2, <1>3, <1>4 DEF ConnectionIsContained, RemovedStaysDown

-----------------------------------------------------------------------------
(* The dynamic endpoints (ManagedEndpoints).                               *)

EndpointAnswer == {"none", "kept", "stopped", "removed"}

EndpointStep == {"idle", "replacing", "syncing", "stopping", "disposing"}

EndpointFile == [there : BOOLEAN, desired : BOOLEAN]

EndpointSnapshot == EndpointFile \cup [there : BOOLEAN, desired : BOOLEAN, persistent : BOOLEAN]

EndpointOp ==
    {op \in [kind : {"create"}, persistent : BOOLEAN, owned : BOOLEAN, replace : BOOLEAN] :
        ~(op.persistent /\ op.owned)}
    \cup [kind : {"cleanup"}, instance : Nat]
    \cup [kind : {"start", "stop", "remove", "configure"}]

EndpointsType ==
    [entry : Nat, made : Nat, persistent : SUBSET Nat, owned : SUBSET Nat, desired : SUBSET Nat,
     running : SUBSET Nat, file : EndpointFile, queue : Seq(EndpointOp), step : EndpointStep,
     subject : Nat, attached : SUBSET Nat, ops : Nat, closing : BOOLEAN, snapshot : EndpointSnapshot,
     acked : EndpointAnswer, raced : BOOLEAN, revived : SUBSET Nat]

\* An endpoint is not both owned by a call and kept, and what a create or a start is about
\* to run was made.
InstancesInv(e) ==
    /\ e.entry <= e.made
    /\ \A i \in e.persistent \cup e.owned \cup e.desired \cup e.running : 0 < i /\ i <= e.made
    /\ e.persistent \cap e.owned = {}
    /\ e.step \in {"syncing", "replacing"} => 0 < e.subject /\ e.subject <= e.made

\* The operation in progress: what it looked up is still listed, or has gone, and the file
\* holds what it is about to promise.
OperationInv(e) ==
    e.step # "idle" =>
        /\ e.queue # << >> /\ e.acked = "none"
        /\ Head(e.queue).kind = "create" /\ e.step = "replacing" => e.entry \in {0, e.subject}
        /\ Head(e.queue).kind = "create" /\ e.step = "syncing" => e.entry = e.subject /\ e.subject \notin e.running
        /\ e.step \in {"syncing", "stopping"} /\ e.entry \in e.persistent =>
             e.file.there /\ (e.file.desired <=> e.entry \in e.desired)
        /\ Head(e.queue).kind = "remove" => e.entry = 0 /\ ~e.file.there

\* What runs is listed.
ListedInv(e) ==
    \A i \in e.running \ e.revived : i = e.entry \/ (e.step \in {"disposing", "replacing"} /\ i = e.subject)

\* What was promised is in the list, in the file and in the snapshot.
PromisedInv(e) ==
    ~e.raced =>
        /\ e.acked \in {"kept", "stopped"} => e.entry \in e.persistent /\ e.file.there
        /\ e.acked = "stopped" => e.entry \notin e.desired /\ ~e.file.desired
        /\ e.acked = "removed" => e.entry = 0 /\ ~e.file.there
        /\ e.closing => e.queue = << >> /\ e.snapshot = snapshotOf(e)

EndpointsRest(e) == InstancesInv(e) /\ OperationInv(e) /\ ListedInv(e) /\ PromisedInv(e)

EndpointsInv == endpoints \in EndpointsType /\ EndpointsRest(endpoints)

\* What a helper of the endpoints leaves alone.
SameList(e, f) ==
    f.made = e.made /\ f.persistent = e.persistent /\ f.owned = e.owned /\ f.desired = e.desired

SameWork(e, f) ==
    f.queue = e.queue /\ f.step = e.step /\ f.subject = e.subject /\ f.acked = e.acked

SameRest(e, f) ==
    /\ f.attached = e.attached /\ f.ops = e.ops /\ f.closing = e.closing /\ f.snapshot = e.snapshot
    /\ f.raced = e.raced /\ f.revived = e.revived

LEMMA EntryRemoved ==
    ASSUME NEW e \in EndpointsType, NEW i
    PROVE  LET f == entryRemoved(e, i) IN
           /\ f \in EndpointsType /\ SameList(e, f) /\ SameWork(e, f) /\ SameRest(e, f)
           /\ f.file = e.file /\ f.running = e.running
           /\ f.entry = IF e.entry = i THEN 0 ELSE e.entry
<1> DEFINE f == entryRemoved(e, i)
           entry1 == IF e.entry = i THEN 0 ELSE e.entry
<1>1. f = [e EXCEPT !.entry = entry1] BY DEF entryRemoved, EndpointsType
<1>2. entry1 \in Nat BY DEF EndpointsType
<1> HIDE DEF f, entry1
<1>3. f \in EndpointsType BY <1>1, <1>2 DEF EndpointsType
<1> QED BY <1>1, <1>2, <1>3 DEF EndpointsType, SameList, SameWork, SameRest, f, entry1

LEMMA EntryFinished ==
    ASSUME NEW e \in EndpointsType, NEW i
    PROVE  LET f == finished(e, i) IN
           /\ f \in EndpointsType /\ SameList(e, f) /\ SameWork(e, f) /\ SameRest(e, f)
           /\ f.file = e.file /\ f.running = e.running \ {i}
           /\ f.entry = IF ~e.closing /\ i \notin e.persistent /\ e.entry = i THEN 0 ELSE e.entry
<1> DEFINE f == [e EXCEPT !.running = e.running \ {i}]
           running1 == e.running \ {i}
<1>1. f = [e EXCEPT !.running = running1] OBVIOUS
<1>2. running1 \in SUBSET Nat BY DEF EndpointsType
<1> HIDE DEF f, running1
<1>3. f \in EndpointsType BY <1>1, <1>2 DEF EndpointsType
<1>4. SameList(e, f) /\ SameWork(e, f) /\ SameRest(e, f) /\ f.file = e.file /\ f.running = running1 /\ f.entry = e.entry
  BY <1>1, <1>2 DEF EndpointsType, SameList, SameWork, SameRest
<1>5. finished(e, i) = IF e.closing \/ i \in e.persistent THEN f ELSE entryRemoved(f, i)
  BY DEF finished, f
<1>6. CASE e.closing \/ i \in e.persistent BY <1>3, <1>4, <1>5, <1>6 DEF running1
<1>7. CASE ~(e.closing \/ i \in e.persistent)
  <2> DEFINE g == entryRemoved(f, i)
  <2>1. /\ g \in EndpointsType /\ SameList(f, g) /\ SameWork(f, g) /\ SameRest(f, g)
        /\ g.file = f.file /\ g.running = f.running /\ g.entry = IF f.entry = i THEN 0 ELSE f.entry
    BY <1>3, EntryRemoved
  <2> HIDE DEF g
  <2>2. finished(e, i) = g BY <1>5, <1>7 DEF g
  <2> QED BY <1>4, <1>7, <2>1, <2>2 DEF running1, SameList, SameWork, SameRest
<1> QED BY <1>6, <1>7

LEMMA EntrySaved ==
    ASSUME NEW e \in EndpointsType
    PROVE  LET f == endpointsSaved(e) IN
           /\ f \in EndpointsType /\ SameList(e, f) /\ SameWork(e, f) /\ SameRest(e, f)
           /\ f.running = e.running /\ f.entry = e.entry
           /\ f.file.there <=> e.entry \in e.persistent
           /\ e.entry \in e.persistent => (f.file.desired <=> e.entry \in e.desired)
<1> DEFINE f == endpointsSaved(e)
           file1 == IF e.entry \in e.persistent THEN [there |-> TRUE, desired |-> e.entry \in e.desired] ELSE Absent
<1>1. f = [e EXCEPT !.file = file1] BY DEF endpointsSaved
<1>2. file1 \in EndpointFile /\ (file1.there <=> e.entry \in e.persistent)
      /\ (e.entry \in e.persistent => (file1.desired <=> e.entry \in e.desired))
  <2>1. CASE e.entry \notin e.persistent BY <2>1 DEF EndpointFile, Absent
  <2>2. CASE e.entry \in e.persistent /\ e.entry \in e.desired
    <3>1. file1 = [there |-> TRUE, desired |-> TRUE] BY <2>2, Zenon
    <3> QED BY <2>2, <3>1 DEF EndpointFile
  <2>3. CASE e.entry \in e.persistent /\ e.entry \notin e.desired
    <3>1. (e.entry \in e.desired) = FALSE BY <2>3
    <3>2. file1 = [there |-> TRUE, desired |-> FALSE] BY <2>3, <3>1, Zenon
    <3> QED BY <2>3, <3>2 DEF EndpointFile
  <2> QED BY <2>1, <2>2, <2>3
<1> HIDE DEF f, file1
<1>3. f \in EndpointsType BY <1>1, <1>2 DEF EndpointsType
<1>4. SameList(e, f) /\ SameWork(e, f) /\ SameRest(e, f) /\ f.file = file1 /\ f.running = e.running /\ f.entry = e.entry
  BY <1>1, <1>2 DEF EndpointsType, SameList, SameWork, SameRest
<1> QED BY <1>2, <1>3, <1>4 DEF f

LEMMA EndpointOver ==
    ASSUME NEW e \in EndpointsType, e.queue # << >>, NEW answer \in EndpointAnswer
    PROVE  LET f == opOver(e, answer) IN
           /\ f \in EndpointsType /\ SameList(e, f) /\ SameRest(e, f)
           /\ f.file = e.file /\ f.running = e.running /\ f.entry = e.entry
           /\ f.queue = Tail(e.queue) /\ f.step = "idle" /\ f.subject = 0 /\ f.acked = answer
<1> DEFINE f == opOver(e, answer)
           queue1 == Tail(e.queue)
<1>1. f = [e EXCEPT !.queue = queue1, !.step = "idle", !.subject = 0, !.acked = answer]
  BY DEF opOver
<1>2. queue1 \in Seq(EndpointOp) /\ "idle" \in EndpointStep BY DEF EndpointsType, EndpointStep
<1> HIDE DEF f, queue1
<1>3. f \in EndpointsType BY <1>1, <1>2 DEF EndpointsType
<1> QED BY <1>1, <1>2, <1>3 DEF EndpointsType, SameList, SameRest, f, queue1

AddedIf(condition, S, i) == IF condition THEN S \cup {i} ELSE S

LEMMA EntryAdded ==
    ASSUME NEW e \in EndpointsType, NEW persistent, NEW owned, NEW desired
    PROVE  LET f == added(e, persistent, owned, desired) IN
           /\ f \in EndpointsType /\ SameWork(e, f) /\ SameRest(e, f)
           /\ f.file = e.file /\ f.running = e.running
           /\ f.made = e.made + 1 /\ f.entry = e.made + 1
           /\ f.persistent = AddedIf(persistent, e.persistent, e.made + 1)
           /\ f.owned = AddedIf(owned, e.owned, e.made + 1)
           /\ f.desired = AddedIf(desired, e.desired, e.made + 1)
<1> DEFINE f == added(e, persistent, owned, desired)
           n == e.made + 1
           persistent1 == IF persistent THEN e.persistent \cup {n} ELSE e.persistent
           owned1 == IF owned THEN e.owned \cup {n} ELSE e.owned
           desired1 == IF desired THEN e.desired \cup {n} ELSE e.desired
<1>1. f = [e EXCEPT !.made = n, !.entry = n, !.persistent = persistent1, !.owned = owned1, !.desired = desired1]
  BY DEF added, EndpointsType
<1>2. n \in Nat /\ persistent1 \in SUBSET Nat /\ owned1 \in SUBSET Nat /\ desired1 \in SUBSET Nat
  BY DEF EndpointsType
<1> HIDE DEF f, n, persistent1, owned1, desired1
<1>3. f \in EndpointsType BY <1>1, <1>2 DEF EndpointsType
<1>4. /\ SameWork(e, f) /\ SameRest(e, f) /\ f.file = e.file /\ f.running = e.running
      /\ f.made = n /\ f.entry = n /\ f.persistent = persistent1 /\ f.owned = owned1 /\ f.desired = desired1
  BY <1>1, <1>2 DEF EndpointsType, SameWork, SameRest
<1> QED BY <1>3, <1>4 DEF f, n, persistent1, owned1, desired1, AddedIf

LEMMA EntryKept ==
    ASSUME NEW e
    PROVE  /\ kept(e) \in EndpointAnswer /\ kept(e) # "removed"
           /\ kept(e) \in {"kept", "stopped"} => e.entry \in e.persistent
           /\ kept(e) = "stopped" => e.entry \notin e.desired
BY DEF kept, EndpointAnswer

LEMMA EndpointOps ==
    ASSUME NEW op \in EndpointOp
    PROVE  /\ op.kind = "create" => /\ op.persistent \in BOOLEAN /\ op.owned \in BOOLEAN
                                    /\ ~(op.persistent /\ op.owned)
           /\ op.kind = "cleanup" => op.instance \in Nat
BY DEF EndpointOp

LEMMA EndpointsInitial == EndpointsInit => EndpointsInv
BY DEF EndpointsInit, EndpointsInv, EndpointsType, EndpointsRest, InstancesInv, OperationInv, ListedInv, PromisedInv,
       Absent, EndpointFile, EndpointSnapshot, EndpointStep, EndpointAnswer

Stepped(e, step, i) == [e EXCEPT !.step = step, !.subject = i]

Unacked(e) == [e EXCEPT !.acked = "none"]

LEMMA EndpointStepped ==
    ASSUME NEW e \in EndpointsType, NEW step \in EndpointStep, NEW i \in Nat
    PROVE  LET f == Stepped(e, step, i) IN
           /\ f \in EndpointsType /\ SameList(e, f) /\ SameRest(e, f)
           /\ f.file = e.file /\ f.running = e.running /\ f.entry = e.entry /\ f.queue = e.queue
           /\ f.acked = e.acked /\ f.step = step /\ f.subject = i
<1> DEFINE f == Stepped(e, step, i)
<1>1. f \in EndpointsType BY DEF EndpointsType, Stepped
<1> QED BY <1>1 DEF EndpointsType, Stepped, SameList, SameRest

LEMMA NothingAcked ==
    ASSUME NEW e \in EndpointsType
    PROVE  LET f == Unacked(e) IN
           /\ f \in EndpointsType /\ SameList(e, f) /\ SameRest(e, f)
           /\ f.file = e.file /\ f.running = e.running /\ f.entry = e.entry /\ f.queue = e.queue
           /\ f.acked = "none" /\ f.step = e.step /\ f.subject = e.subject
<1> DEFINE f == Unacked(e)
<1>1. "none" \in EndpointAnswer BY DEF EndpointAnswer
<1>2. f \in EndpointsType BY <1>1 DEF EndpointsType, Unacked
<1> QED BY <1>2 DEF EndpointsType, Unacked, SameList, SameRest

\* An operation ends: nothing but what is listed may run, and its answer has to hold.
LEMMA OverKeeps ==
    ASSUME NEW e \in EndpointsType, e.queue # << >>, NEW answer \in EndpointAnswer, InstancesInv(e),
           \A i \in e.running \ e.revived : i = e.entry,
           ~e.raced =>
               /\ ~e.closing
               /\ answer \in {"kept", "stopped"} => e.entry \in e.persistent /\ e.file.there
               /\ answer = "stopped" => e.entry \notin e.desired /\ ~e.file.desired
               /\ answer = "removed" => e.entry = 0 /\ ~e.file.there
    PROVE  opOver(e, answer) \in EndpointsType /\ EndpointsRest(opOver(e, answer))
<1> DEFINE f == opOver(e, answer)
<1>1. /\ f \in EndpointsType /\ SameList(e, f) /\ SameRest(e, f)
      /\ f.file = e.file /\ f.running = e.running /\ f.entry = e.entry
      /\ f.queue = Tail(e.queue) /\ f.step = "idle" /\ f.subject = 0 /\ f.acked = answer
  BY EndpointOver
<1> HIDE DEF f
<1>2. InstancesInv(f) BY <1>1 DEF InstancesInv, SameList
<1>3. OperationInv(f) /\ ListedInv(f) BY <1>1 DEF OperationInv, ListedInv, SameRest
<1>4. PromisedInv(f) BY <1>1 DEF PromisedInv, SameList, SameRest
<1> QED BY <1>1, <1>2, <1>3, <1>4 DEF EndpointsRest, f

\* The rest of a create, where nothing is listed and nothing runs.
LEMMA CreatedKeeps ==
    ASSUME NEW e \in EndpointsType, e.queue # << >>, Head(e.queue) = endpointOp, endpointOp \in EndpointOp,
           endpointOp.kind = "create", InstancesInv(e), e.entry = 0, e.acked = "none",
           e.running \ e.revived = {}, ~e.raced => ~e.closing,
           NEW c \in created(e)
    PROVE  c \in EndpointsType /\ EndpointsRest(c)
<1> DEFINE p == endpointOp.persistent
           o == endpointOp.owned
           d == TRUE
           f == added(e, p, o, d)
           n == e.made + 1
<1>1. p \in BOOLEAN /\ o \in BOOLEAN /\ d \in BOOLEAN /\ ~(p /\ o) BY EndpointOps
<1> HIDE DEF p, o, d
<1>2. /\ f \in EndpointsType /\ SameWork(e, f) /\ SameRest(e, f)
      /\ f.file = e.file /\ f.running = e.running
      /\ f.made = n /\ f.entry = n
      /\ f.persistent = AddedIf(p, e.persistent, n)
      /\ f.owned = AddedIf(o, e.owned, n)
      /\ f.desired = AddedIf(d, e.desired, n)
  BY EntryAdded
<1>a. /\ f.persistent \subseteq e.persistent \cup {n} /\ f.owned \subseteq e.owned \cup {n}
      /\ ~(p /\ o) /\ (~p => f.persistent = e.persistent) /\ (~o => f.owned = e.owned)
      /\ f.desired \subseteq e.desired \cup {n}
  BY <1>1, <1>2 DEF AddedIf
<1>3. n \in Nat /\ e.made \in Nat /\ e.made < n /\ 0 < n /\ e.running \subseteq Nat /\ e.persistent \subseteq Nat /\ e.owned \subseteq Nat /\ e.desired \subseteq Nat
  BY DEF EndpointsType
<1>4. c \in {[endpointsSaved(f) EXCEPT !.step = "syncing", !.subject = f.entry],
             opOver(entryRemoved(f, f.entry), "none")}
  BY DEF created, p, o, d
<1> HIDE DEF f, n
<1>5. InstancesInv(f)
  <2>1. \A i \in f.persistent \cup f.owned \cup f.desired \cup f.running : i \in Nat /\ 0 < i /\ i <= n
    BY <1>2, <1>3, <1>a DEF InstancesInv
  <2>2. f.persistent \cap f.owned = {} BY <1>a, <1>3 DEF InstancesInv
  <2>3. f.step \in {"syncing", "replacing"} => 0 < f.subject /\ f.subject <= n
    BY <1>2, <1>3 DEF InstancesInv, SameWork, EndpointsType
  <2>4. f.made = n /\ f.entry = n /\ n <= n BY <1>2, <1>3
  <2> QED BY <2>1, <2>2, <2>3, <2>4 DEF InstancesInv
<1>6. n \notin f.running BY <1>2, <1>3 DEF InstancesInv
<1>7. CASE c = [endpointsSaved(f) EXCEPT !.step = "syncing", !.subject = f.entry]
  <2> DEFINE s == endpointsSaved(f)
  <2>1. /\ s \in EndpointsType /\ SameList(f, s) /\ SameWork(f, s) /\ SameRest(f, s)
        /\ s.running = f.running /\ s.entry = f.entry
        /\ s.file.there <=> f.entry \in f.persistent
        /\ f.entry \in f.persistent => (s.file.desired <=> f.entry \in f.desired)
    BY <1>2, EntrySaved
  <2> HIDE DEF s
  <2>2. "syncing" \in EndpointStep /\ f.entry \in Nat BY <1>2, <1>3 DEF EndpointStep
  <2>c. c = Stepped(s, "syncing", f.entry) BY <1>7 DEF s, Stepped
  <2>3. /\ c \in EndpointsType /\ SameList(s, c) /\ SameRest(s, c)
        /\ c.file = s.file /\ c.running = s.running /\ c.entry = s.entry /\ c.queue = s.queue
        /\ c.acked = s.acked /\ c.step = "syncing" /\ c.subject = f.entry
    BY <2>c, <2>1, <2>2, EndpointStepped
  <2>4. InstancesInv(c) BY <1>2, <1>3, <1>5, <2>1, <2>3 DEF InstancesInv, SameList
  <2>5. OperationInv(c) BY <1>2, <1>6, <2>1, <2>3 DEF OperationInv, SameList, SameWork
  <2>6. ListedInv(c) BY <1>2, <2>1, <2>3 DEF ListedInv, SameRest
  <2>7. PromisedInv(c) BY <1>2, <2>1, <2>3 DEF PromisedInv, SameRest, SameWork
  <2> QED BY <2>3, <2>4, <2>5, <2>6, <2>7 DEF EndpointsRest
<1>8. CASE c = opOver(entryRemoved(f, f.entry), "none")
  <2> DEFINE g == entryRemoved(f, f.entry)
  <2>1. /\ g \in EndpointsType /\ SameList(f, g) /\ SameWork(f, g) /\ SameRest(f, g)
        /\ g.file = f.file /\ g.running = f.running /\ g.entry = 0
    BY <1>2, EntryRemoved
  <2> HIDE DEF g
  <2>2. g.queue # << >> /\ (~g.raced => ~g.closing) /\ (\A i \in g.running \ g.revived : i = g.entry)
    BY <1>2, <2>1 DEF SameWork, SameRest
  <2>n. f.made \in Nat /\ g.entry <= g.made BY <1>2, <1>3, <2>1 DEF SameList
  <2>3. InstancesInv(g) BY <1>5, <2>1, <2>n DEF InstancesInv, SameList, SameWork
  <2>4. "none" \in EndpointAnswer BY DEF EndpointAnswer
  <2>5. opOver(g, "none") \in EndpointsType /\ EndpointsRest(opOver(g, "none"))
    BY <2>1, <2>2, <2>3, <2>4, OverKeeps
  <2> QED BY <1>8, <2>5 DEF g
<1> QED BY <1>4, <1>7, <1>8

\* An operation that synced the workload, or stopped it, says what it has saved.
LEMMA AnsweredKeeps ==
    ASSUME NEW e \in EndpointsType, InstancesInv(e), OperationInv(e), e.queue # << >>,
           e.step \in {"syncing", "stopping"}, ~e.raced => ~e.closing,
           NEW f \in EndpointsType, SameList(e, f), SameWork(e, f), f.file = e.file,
           f.raced = e.raced, f.closing = e.closing, f.entry \in {0, e.entry},
           \A i \in f.running : 0 < i /\ i <= e.made, \A i \in f.running \ f.revived : i = f.entry
    PROVE  opOver(f, kept(f)) \in EndpointsType /\ EndpointsRest(opOver(f, kept(f)))
<1> DEFINE answer == kept(f)
<1>1. /\ answer \in EndpointAnswer /\ answer # "removed"
      /\ answer \in {"kept", "stopped"} => f.entry \in f.persistent
      /\ answer = "stopped" => f.entry \notin f.desired
  BY EntryKept
<1> HIDE DEF answer
<1>2. InstancesInv(f)
  <2>1. f.entry <= f.made BY DEF InstancesInv, SameList, EndpointsType
  <2> QED BY <2>1 DEF InstancesInv, SameList, SameWork
<1>3. f.entry \in f.persistent => f.file.there /\ (f.file.desired <=> f.entry \in f.desired)
  <2>1. 0 \notin e.persistent BY DEF InstancesInv
  <2> QED BY <2>1 DEF OperationInv, SameList
<1>4. opOver(f, answer) \in EndpointsType /\ EndpointsRest(opOver(f, answer))
  <2>1. f.queue # << >> BY DEF SameWork
  <2> QED BY <1>1, <1>2, <1>3, <2>1, OverKeeps
<1> QED BY <1>4 DEF answer

Started(e, i, revived) == [e EXCEPT !.running = e.running \cup {i}, !.revived = revived]

LEMMA EntryStarted ==
    ASSUME NEW e \in EndpointsType, NEW i \in Nat, NEW revived \in SUBSET Nat
    PROVE  LET f == Started(e, i, revived) IN
           /\ f \in EndpointsType /\ SameList(e, f) /\ SameWork(e, f)
           /\ f.file = e.file /\ f.entry = e.entry /\ f.closing = e.closing /\ f.raced = e.raced
           /\ f.running = e.running \cup {i} /\ f.revived = revived
<1> DEFINE f == Started(e, i, revived)
           running1 == e.running \cup {i}
<1>1. f = [e EXCEPT !.running = running1, !.revived = revived] BY DEF Started
<1>2. running1 \in SUBSET Nat BY DEF EndpointsType
<1> HIDE DEF f, running1
<1>3. f \in EndpointsType BY <1>1, <1>2 DEF EndpointsType
<1> QED BY <1>1, <1>2, <1>3 DEF EndpointsType, SameList, SameWork, f, running1

Attached(e, attached) == [e EXCEPT !.attached = attached]

LEMMA AttachedKeeps ==
    ASSUME NEW e \in EndpointsType, EndpointsRest(e), NEW attached \in SUBSET Nat
    PROVE  Attached(e, attached) \in EndpointsType /\ EndpointsRest(Attached(e, attached))
<1> DEFINE f == Attached(e, attached)
<1>1. f \in EndpointsType BY DEF EndpointsType, Attached
<1>2. /\ SameList(e, f) /\ SameWork(e, f) /\ f.file = e.file /\ f.entry = e.entry /\ f.closing = e.closing
      /\ f.raced = e.raced /\ f.running = e.running /\ f.revived = e.revived /\ f.snapshot = e.snapshot
  BY DEF EndpointsType, Attached, SameList, SameWork
<1> HIDE DEF f
<1>3. InstancesInv(f) /\ OperationInv(f)
  BY <1>2 DEF InstancesInv, OperationInv, SameList, SameWork, EndpointsRest
<1>4. ListedInv(f) BY <1>2 DEF ListedInv, SameWork, EndpointsRest
<1>5. PromisedInv(f) BY <1>2 DEF PromisedInv, snapshotOf, SameList, SameWork, EndpointsRest
<1> QED BY <1>1, <1>3, <1>4, <1>5 DEF f, EndpointsRest

Queued(e, op, ops, attached) == [e EXCEPT !.queue = Append(e.queue, op), !.ops = ops, !.attached = attached]

LEMMA QueuedKeeps ==
    ASSUME NEW e \in EndpointsType, EndpointsRest(e), ~e.closing,
           NEW op \in EndpointOp, NEW ops \in Nat, NEW attached \in SUBSET Nat
    PROVE  Queued(e, op, ops, attached) \in EndpointsType /\ EndpointsRest(Queued(e, op, ops, attached))
<1> DEFINE f == Queued(e, op, ops, attached)
           queue1 == Append(e.queue, op)
<1>1. f = [e EXCEPT !.queue = queue1, !.ops = ops, !.attached = attached] BY DEF Queued
<1>2. queue1 \in Seq(EndpointOp) /\ queue1 # << >> /\ (e.queue # << >> => Head(queue1) = Head(e.queue))
  BY DEF EndpointsType
<1> HIDE DEF f, queue1
<1>3. f \in EndpointsType BY <1>1, <1>2 DEF EndpointsType
<1>4. /\ SameList(e, f) /\ f.file = e.file /\ f.entry = e.entry /\ f.closing = e.closing
      /\ f.raced = e.raced /\ f.running = e.running /\ f.revived = e.revived /\ f.snapshot = e.snapshot
      /\ f.queue = queue1 /\ f.step = e.step /\ f.subject = e.subject /\ f.acked = e.acked
  BY <1>1, <1>2 DEF EndpointsType, SameList
<1>5. InstancesInv(f) BY <1>4 DEF InstancesInv, SameList, EndpointsRest
<1>6. OperationInv(f) BY <1>2, <1>4 DEF OperationInv, SameList, EndpointsRest
<1>7. ListedInv(f) BY <1>4 DEF ListedInv, EndpointsRest
<1>8. PromisedInv(f) BY <1>4 DEF PromisedInv, SameList, EndpointsRest
<1> QED BY <1>3, <1>5, <1>6, <1>7, <1>8 DEF f, EndpointsRest

LEMMA SnapshotTaken ==
    ASSUME NEW e
    PROVE  LET s == snapshotOf(e) IN
           /\ s \in EndpointSnapshot
           /\ s.there <=> e.entry # 0 /\ e.entry \notin e.owned
           /\ s.desired <=> e.entry \in e.desired
           /\ s.persistent <=> e.entry \in e.persistent
<1> DEFINE there == e.entry # 0 /\ e.entry \notin e.owned
           desired == e.entry \in e.desired
           persistent == e.entry \in e.persistent
           s == snapshotOf(e)
<1>1. there \in BOOLEAN /\ desired \in BOOLEAN /\ persistent \in BOOLEAN OBVIOUS
<1>2. s = [there |-> there, desired |-> desired, persistent |-> persistent] BY Zenon DEF snapshotOf
<1> HIDE DEF there, desired, persistent, s
<1>3. s \in EndpointSnapshot /\ s.there = there /\ s.desired = desired /\ s.persistent = persistent
  BY <1>1, <1>2 DEF EndpointSnapshot
<1> QED BY <1>1, <1>3 DEF there, desired, persistent, s

\* A new object starts from what it was given, of which the last answer has to hold.
LEMMA RestoredKeeps ==
    ASSUME NEW e \in EndpointsType, InstancesInv(e), e.queue = << >>, e.step = "idle",
           NEW there, NEW persistent, NEW desired,
           ~e.raced =>
               /\ e.acked \in {"kept", "stopped"} => there /\ persistent /\ e.file.there
               /\ e.acked = "stopped" => ~desired /\ ~e.file.desired
               /\ e.acked = "removed" => ~there /\ ~e.file.there
    PROVE  /\ restored(e, there, persistent, desired) \in EndpointsType
           /\ EndpointsRest(restored(e, there, persistent, desired))
<1> DEFINE f == [e EXCEPT !.closing = FALSE, !.running = {}, !.attached = {}, !.entry = 0, !.snapshot = Absent]
           owned == FALSE
           g == added(f, persistent, owned, desired)
           n == f.made + 1
           running1 == IF desired THEN {g.entry} ELSE {}
           h == [g EXCEPT !.running = running1]
           r == restored(e, there, persistent, desired)
<1>1. Absent \in EndpointSnapshot BY DEF EndpointSnapshot, EndpointFile, Absent
<1>2. f \in EndpointsType BY <1>1 DEF EndpointsType
<1>3. /\ SameList(e, f) /\ SameWork(e, f) /\ f.file = e.file /\ f.entry = 0 /\ f.closing = FALSE
      /\ f.raced = e.raced /\ f.running = {} /\ f.revived = e.revived
  BY <1>1 DEF EndpointsType, SameList, SameWork
<1>4. r = IF there THEN h ELSE f BY DEF restored
<1> HIDE DEF f, owned, r
<1>5. /\ g \in EndpointsType /\ SameWork(f, g) /\ SameRest(f, g)
      /\ g.file = f.file /\ g.running = f.running
      /\ g.made = n /\ g.entry = n
      /\ g.persistent = AddedIf(persistent, f.persistent, n)
      /\ g.owned = AddedIf(owned, f.owned, n)
      /\ g.desired = AddedIf(desired, f.desired, n)
  BY <1>2, EntryAdded
<1>6. /\ g.owned = f.owned /\ g.persistent \subseteq f.persistent \cup {n}
      /\ (persistent => n \in g.persistent) /\ g.desired \subseteq f.desired \cup {n} /\ (~desired => g.desired = f.desired)
  BY <1>5 DEF AddedIf, owned
<1>7. n \in Nat /\ f.made \in Nat /\ f.made < n /\ 0 < n /\ f.persistent \subseteq Nat /\ f.owned \subseteq Nat /\ f.desired \subseteq Nat
  BY <1>2 DEF EndpointsType
<1> HIDE DEF g, n
<1>8. running1 \in SUBSET Nat /\ running1 \subseteq {n} BY <1>5, <1>7
<1> HIDE DEF running1
<1>9. h \in EndpointsType BY <1>5, <1>8 DEF EndpointsType
<1>10. /\ SameList(g, h) /\ SameWork(g, h) /\ SameRest(g, h) /\ h.file = g.file /\ h.entry = g.entry
       /\ h.running = running1
  BY <1>5, <1>8 DEF EndpointsType, SameList, SameWork, SameRest
<1> HIDE DEF h
<1>11. CASE there
  <2>1. InstancesInv(h)
    <3>1. h.persistent = g.persistent /\ h.owned = f.owned /\ h.desired = g.desired /\ h.running \subseteq {n} /\ h.made = n /\ h.entry = n
      BY <1>5, <1>6, <1>8, <1>10 DEF SameList
    <3>2. \A i \in h.persistent \cup h.owned \cup h.desired \cup h.running : 0 < i /\ i <= n
      BY <1>3, <1>6, <1>7, <3>1 DEF InstancesInv, SameList
    <3>3. n \notin f.owned /\ f.persistent \cap f.owned = {}
      BY <1>3, <1>7 DEF InstancesInv, SameList
    <3>4. h.persistent \cap h.owned = {} BY <1>6, <3>1, <3>3
    <3>5. h.step = "idle" /\ n <= n BY <1>3, <1>5, <1>7, <1>10 DEF SameWork
    <3> QED BY <3>1, <3>2, <3>4, <3>5 DEF InstancesInv
  <2>2. OperationInv(h) BY <1>3, <1>5, <1>10 DEF OperationInv, SameWork
  <2>3. ListedInv(h) BY <1>5, <1>8, <1>10 DEF ListedInv
  <2>4. PromisedInv(h)
    <3>1. /\ h.acked = e.acked /\ h.file = e.file /\ h.raced = e.raced /\ ~h.closing
          /\ h.entry = n /\ h.persistent = g.persistent /\ h.desired = g.desired
      BY <1>3, <1>5, <1>10 DEF SameWork, SameRest, SameList
    <3>2. n \notin f.desired BY <1>3, <1>7 DEF InstancesInv, SameList
    <3> QED BY <1>6, <1>11, <3>1, <3>2 DEF PromisedInv
  <2> QED BY <1>4, <1>9, <1>11, <2>1, <2>2, <2>3, <2>4 DEF EndpointsRest, r
<1>12. CASE ~there
  <2>1. InstancesInv(f)
    <3>1. f.entry <= f.made BY <1>3, <1>7
    <3> QED BY <1>3, <3>1 DEF InstancesInv, SameList, SameWork
  <2>2. OperationInv(f) /\ ListedInv(f) BY <1>3 DEF OperationInv, ListedInv, SameWork
  <2>3. PromisedInv(f) BY <1>3, <1>12 DEF PromisedInv, SameWork
  <2> QED BY <1>2, <1>4, <1>12, <2>1, <2>2, <2>3 DEF EndpointsRest, r
<1> QED BY <1>11, <1>12

\* The desired state, or the list, is changed and saved before the supervisor is told.
Changed(e, entry, desired) == [e EXCEPT !.entry = entry, !.desired = desired, !.acked = "none"]

LEMMA ChangedKeeps ==
    ASSUME NEW e \in EndpointsType, EndpointsRest(e), e.queue # << >>, e.step = "idle", e.entry # 0,
           ~e.raced => ~e.closing, NEW entry \in {0, e.entry}, NEW desired \in SUBSET (e.desired \cup {e.entry}),
           NEW step \in {"syncing", "stopping", "disposing"}, entry = 0 <=> step = "disposing",
           Head(e.queue).kind # "create", Head(e.queue).kind = "remove" => step = "disposing"
    PROVE  LET f == Stepped(endpointsSaved(Changed(e, entry, desired)), step, e.entry) IN
           f \in EndpointsType /\ EndpointsRest(f)
<1> DEFINE c == Changed(e, entry, desired)
           s == endpointsSaved(c)
           f == Stepped(s, step, e.entry)
<1>1. /\ entry \in Nat /\ desired \in SUBSET Nat /\ "none" \in EndpointAnswer /\ step \in EndpointStep
      /\ e.entry \in Nat /\ e.made \in Nat /\ 0 < e.entry /\ e.entry <= e.made
  BY DEF EndpointsType, EndpointAnswer, EndpointStep, EndpointsRest, InstancesInv
<1>2. c \in EndpointsType BY <1>1 DEF EndpointsType, Changed
<1>3. /\ c.entry = entry /\ c.desired = desired /\ c.acked = "none"
      /\ c.made = e.made /\ c.persistent = e.persistent /\ c.owned = e.owned /\ c.queue = e.queue /\ c.running = e.running
      /\ SameRest(e, c)
  BY <1>1 DEF EndpointsType, Changed, SameRest
<1> HIDE DEF c
<1>4. /\ s \in EndpointsType /\ SameList(c, s) /\ SameWork(c, s) /\ SameRest(c, s)
      /\ s.running = c.running /\ s.entry = c.entry
      /\ s.file.there <=> c.entry \in c.persistent
      /\ c.entry \in c.persistent => (s.file.desired <=> c.entry \in c.desired)
  BY <1>2, EntrySaved
<1> HIDE DEF s
<1>5. /\ f \in EndpointsType /\ SameList(s, f) /\ SameRest(s, f)
      /\ f.file = s.file /\ f.running = s.running /\ f.entry = s.entry /\ f.queue = s.queue
      /\ f.acked = s.acked /\ f.step = step /\ f.subject = e.entry
  BY <1>1, <1>4, EndpointStepped
<1> HIDE DEF f
<1>6. InstancesInv(f)
  <2>1. f.made = e.made /\ f.persistent = e.persistent /\ f.owned = e.owned /\ f.running = e.running /\ f.desired = desired
    BY <1>3, <1>4, <1>5 DEF SameList
  <2>2. \A i \in f.persistent \cup f.owned \cup f.desired \cup f.running : 0 < i /\ i <= f.made
    BY <1>1, <2>1 DEF EndpointsRest, InstancesInv
  <2>3. f.entry <= f.made /\ f.persistent \cap f.owned = {}
    BY <1>1, <1>3, <1>4, <1>5, <2>1 DEF EndpointsRest, InstancesInv
  <2> QED BY <1>1, <1>5, <2>1, <2>2, <2>3 DEF InstancesInv
<1>7. OperationInv(f)
  <2>1. f.queue = e.queue /\ f.acked = "none" /\ f.entry = entry /\ f.persistent = e.persistent /\ f.desired = desired
    BY <1>3, <1>4, <1>5 DEF SameList, SameWork
  <2>2. 0 \notin e.persistent BY DEF EndpointsRest, InstancesInv
  <2> QED BY <1>3, <1>4, <1>5, <2>1, <2>2 DEF OperationInv
<1>8. ListedInv(f) BY <1>3, <1>4, <1>5 DEF ListedInv, SameRest, EndpointsRest
<1>9. PromisedInv(f) BY <1>3, <1>4, <1>5 DEF PromisedInv, SameRest, SameWork
<1> QED BY <1>5, <1>6, <1>7, <1>8, <1>9 DEF EndpointsRest, f, s, c

LEMMA EndpointsStep ==
    ASSUME EndpointsInv, [EndpointsNext]_endpoints
    PROVE  EndpointsInv'
<1> DEFINE e == endpoints
<1>e. e \in EndpointsType /\ InstancesInv(e) /\ OperationInv(e) /\ ListedInv(e) /\ PromisedInv(e)
  BY DEF EndpointsInv, EndpointsRest
<1>q. e.queue # << >> => Head(e.queue) \in EndpointOp /\ endpointOp = Head(e.queue) /\ (~e.raced => ~e.closing)
  BY <1>e DEF EndpointsType, endpointOp, PromisedInv
<1>n. "none" \in EndpointAnswer /\ "removed" \in EndpointAnswer /\ e.entry \in Nat /\ e.subject \in Nat /\ e.made \in Nat
  BY <1>e DEF EndpointAnswer, EndpointsType
<1>s. SUFFICES endpoints' \in EndpointsType /\ EndpointsRest(endpoints') BY DEF EndpointsInv
<1> DEFINE u == Unacked(e)
<1>u. /\ u \in EndpointsType /\ SameList(e, u) /\ SameRest(e, u)
      /\ u.file = e.file /\ u.running = e.running /\ u.entry = e.entry /\ u.queue = e.queue
      /\ u.acked = "none" /\ u.step = e.step /\ u.subject = e.subject
  BY <1>e, NothingAcked
<1>o. ASSUME e.queue # << >>, e.step = "idle"
      PROVE  opOver(u, "none") \in EndpointsType /\ EndpointsRest(opOver(u, "none"))
  <2> HIDE DEF u
  <2>1. InstancesInv(u) /\ (\A i \in u.running \ u.revived : i = u.entry) /\ (~u.raced => ~u.closing) /\ u.queue # << >>
    BY <1>e, <1>q, <1>u, <1>o DEF InstancesInv, ListedInv, SameList, SameRest
  <2> QED BY <1>u, <1>n, <2>1, OverKeeps
<1>f. \A i : LET f == finished(e, i) IN
           /\ f \in EndpointsType /\ SameList(e, f) /\ SameWork(e, f) /\ SameRest(e, f)
           /\ f.file = e.file /\ f.running = e.running \ {i}
           /\ f.entry = IF ~e.closing /\ i \notin e.persistent /\ e.entry = i THEN 0 ELSE e.entry
  BY <1>e, EntryFinished
<1>1. CASE UNCHANGED endpoints BY <1>1, <1>e DEF EndpointsRest
<1>2. CASE CreateStarts
  <2>1. endpointStep("create", "idle") BY <1>2 DEF CreateStarts
  <2>2. e.queue # << >> /\ endpointOp.kind = "create" /\ e.step = "idle" BY <2>1 DEF endpointStep
  <2>3. endpoints' \in IF u.entry = 0 THEN created(u)
                       ELSE IF endpointOp.replace THEN {Stepped(u, "replacing", u.entry)}
                       ELSE {opOver(u, "none")}
    BY <1>2 DEF CreateStarts, Unacked, Stepped
  <2> HIDE DEF u
  <2>4. CASE u.entry = 0
    <3>1. u.running \ u.revived = {}
      BY <1>e, <1>u, <2>2, <2>4 DEF ListedInv, InstancesInv, SameRest, SameList
    <3>2. InstancesInv(u) BY <1>e, <1>u DEF InstancesInv, SameList
    <3>3. ~u.raced => ~u.closing BY <1>u, <1>q, <2>2 DEF SameRest
    <3> QED BY <1>u, <1>q, <2>2, <2>3, <2>4, <3>1, <3>2, <3>3, CreatedKeeps
  <2>5. CASE endpoints' = Stepped(u, "replacing", u.entry) /\ u.entry # 0
    <3> DEFINE f == endpoints'
    <3>1. "replacing" \in EndpointStep /\ u.entry \in Nat BY <1>n, <1>u DEF EndpointStep
    <3>2. /\ f \in EndpointsType /\ SameList(u, f) /\ SameRest(u, f)
          /\ f.file = u.file /\ f.running = u.running /\ f.entry = u.entry /\ f.queue = u.queue
          /\ f.acked = u.acked /\ f.step = "replacing" /\ f.subject = u.entry
      BY <1>u, <2>5, <3>1, EndpointStepped
    <3> HIDE DEF f
    <3>3. InstancesInv(f) BY <1>e, <1>u, <1>n, <2>5, <3>2 DEF InstancesInv, SameList
    <3>4. OperationInv(f) BY <1>u, <1>q, <2>2, <3>2 DEF OperationInv
    <3>5. ListedInv(f) BY <1>e, <1>u, <2>2, <3>2 DEF ListedInv, SameRest
    <3>6. PromisedInv(f) BY <1>u, <1>q, <2>2, <3>2 DEF PromisedInv, SameRest
    <3> QED BY <3>2, <3>3, <3>4, <3>5, <3>6 DEF EndpointsRest, f
  <2>6. CASE endpoints' = opOver(u, "none") BY <1>o, <2>2, <2>6
  <2> QED BY <2>3, <2>4, <2>5, <2>6
<1>3. CASE CreateReplaces
  <2> DEFINE f == finished(e, e.subject)
             g == entryRemoved(f, e.subject)
  <2>1. e.queue # << >> /\ endpointOp.kind = "create" /\ e.step = "replacing"
    BY <1>3 DEF CreateReplaces, endpointStep
  <2>2. endpoints' \in created(g) BY <1>3 DEF CreateReplaces
  <2>3. /\ f \in EndpointsType /\ SameList(e, f) /\ SameWork(e, f) /\ SameRest(e, f)
        /\ f.file = e.file /\ f.running = e.running \ {e.subject}
        /\ f.entry = IF ~e.closing /\ e.subject \notin e.persistent /\ e.entry = e.subject THEN 0 ELSE e.entry
    BY <1>f
  <2> HIDE DEF f
  <2>4. /\ g \in EndpointsType /\ SameList(f, g) /\ SameWork(f, g) /\ SameRest(f, g)
        /\ g.file = f.file /\ g.running = f.running
        /\ g.entry = IF f.entry = e.subject THEN 0 ELSE f.entry
    BY <2>3, EntryRemoved
  <2> HIDE DEF g
  <2>5. e.entry \in {0, e.subject} /\ e.acked = "none" BY <1>e, <1>q, <2>1 DEF OperationInv
  <2>6. g.entry = 0 BY <2>3, <2>4, <2>5
  <2>7. g.running \ g.revived = {}
    BY <1>e, <2>1, <2>3, <2>4, <2>5 DEF ListedInv, InstancesInv, SameRest
  <2>8. InstancesInv(g)
    <3>1. g.made = e.made /\ g.entry <= g.made BY <1>n, <2>3, <2>4, <2>6 DEF SameList
    <3> QED BY <1>e, <2>3, <2>4, <3>1 DEF InstancesInv, SameList, SameWork
  <2>9. g.queue = e.queue /\ g.acked = "none" /\ (~g.raced => ~g.closing)
    BY <1>q, <2>1, <2>3, <2>4, <2>5 DEF SameWork, SameRest
  <2> QED BY <1>q, <2>1, <2>2, <2>4, <2>6, <2>7, <2>8, <2>9, CreatedKeeps
<1>4. ASSUME NEW starts \in BOOLEAN, CreateSynced(starts)
      PROVE  endpoints' \in EndpointsType /\ EndpointsRest(endpoints')
  <2> DEFINE i == e.subject
             f == IF starts THEN [endpoints EXCEPT !.running = @ \cup {i}] ELSE finished(endpoints, i)
             g == opOver(f, kept(f))
  <2>1. e.queue # << >> /\ endpointOp.kind = "create" /\ e.step = "syncing"
    BY <1>4 DEF CreateSynced, endpointStep
  <2>2. endpoints' = [g EXCEPT !.attached = IF i \in f.owned THEN @ \cup {i} ELSE @]
    BY <1>4 DEF CreateSynced
  <2>3. e.entry = i /\ i \notin e.running /\ 0 < i /\ i <= e.made
    BY <1>e, <1>q, <2>1 DEF OperationInv, InstancesInv
  <2>4. /\ f \in EndpointsType /\ SameList(e, f) /\ SameWork(e, f) /\ f.file = e.file
        /\ f.raced = e.raced /\ f.closing = e.closing /\ f.entry \in {0, e.entry}
        /\ f.running \subseteq e.running \cup {i} /\ \A j \in f.running \ f.revived : j = f.entry
    <3>1. CASE starts
      <4>1. f = Started(e, i, e.revived) BY <1>e, <3>1 DEF Started, EndpointsType
      <4>2. e.revived \in SUBSET Nat BY <1>e DEF EndpointsType
      <4> HIDE DEF f
      <4>3. /\ f \in EndpointsType /\ SameList(e, f) /\ SameWork(e, f)
            /\ f.file = e.file /\ f.entry = e.entry /\ f.closing = e.closing /\ f.raced = e.raced
            /\ f.running = e.running \cup {i} /\ f.revived = e.revived
        BY <1>e, <1>n, <4>1, <4>2, EntryStarted
      <4> QED BY <1>e, <2>1, <2>3, <4>3 DEF ListedInv
    <3>2. CASE ~starts
      <4>1. f = finished(e, i) BY <3>2
      <4> HIDE DEF f
      <4>2. /\ f \in EndpointsType /\ SameList(e, f) /\ SameWork(e, f) /\ SameRest(e, f)
            /\ f.file = e.file /\ f.running = e.running \ {i}
            /\ f.entry = IF ~e.closing /\ i \notin e.persistent /\ e.entry = i THEN 0 ELSE e.entry
        BY <1>f, <4>1
      <4> QED BY <1>e, <2>1, <2>3, <4>2 DEF ListedInv, SameRest
    <3> QED BY <3>1, <3>2
  <2> HIDE DEF f
  <2>5. \A j \in f.running : 0 < j /\ j <= e.made BY <1>e, <2>3, <2>4 DEF InstancesInv
  <2>6. g \in EndpointsType /\ EndpointsRest(g) BY <1>e, <1>q, <2>1, <2>4, <2>5, AnsweredKeeps
  <2> DEFINE attached == IF i \in f.owned THEN g.attached \cup {i} ELSE g.attached
  <2>7. attached \in SUBSET Nat BY <1>n, <2>6 DEF EndpointsType
  <2> HIDE DEF g
  <2>8. endpoints' = Attached(g, attached) BY <2>2, <2>6 DEF Attached, EndpointsType
  <2> QED BY <2>6, <2>7, <2>8, AttachedKeeps
<1>5. ASSUME NEW starts \in BOOLEAN, StartSynced(starts)
      PROVE  endpoints' \in EndpointsType /\ EndpointsRest(endpoints')
  <2> DEFINE i == e.subject
             f == IF starts
                  THEN [endpoints EXCEPT !.running = @ \cup {i},
                                         !.revived = IF endpoints.entry = i THEN @ ELSE @ \cup {i}]
                  ELSE finished(endpoints, i)
  <2>1. e.queue # << >> /\ e.step = "syncing" BY <1>5 DEF StartSynced, endpointStep
  <2>2. endpoints' = opOver(f, kept(f)) BY <1>5 DEF StartSynced
  <2>3. 0 < i /\ i <= e.made BY <1>e, <2>1 DEF InstancesInv
  <2>4. /\ f \in EndpointsType /\ SameList(e, f) /\ SameWork(e, f) /\ f.file = e.file
        /\ f.raced = e.raced /\ f.closing = e.closing /\ f.entry \in {0, e.entry}
        /\ f.running \subseteq e.running \cup {i} /\ \A j \in f.running \ f.revived : j = f.entry
    <3>1. CASE starts
      <4> DEFINE revived == IF e.entry = i THEN e.revived ELSE e.revived \cup {i}
      <4>1. f = Started(e, i, revived) BY <1>e, <3>1 DEF Started, EndpointsType
      <4>2. revived \in SUBSET Nat BY <1>e, <1>n DEF EndpointsType
      <4>3. e.revived \subseteq revived /\ (e.entry # i => i \in revived) OBVIOUS
      <4> HIDE DEF f, revived
      <4>4. /\ f \in EndpointsType /\ SameList(e, f) /\ SameWork(e, f)
            /\ f.file = e.file /\ f.entry = e.entry /\ f.closing = e.closing /\ f.raced = e.raced
            /\ f.running = e.running \cup {i} /\ f.revived = revived
        BY <1>e, <1>n, <4>1, <4>2, EntryStarted
      <4> QED BY <1>e, <2>1, <2>3, <4>3, <4>4 DEF ListedInv
    <3>2. CASE ~starts
      <4>1. f = finished(e, i) BY <3>2
      <4> HIDE DEF f
      <4>2. /\ f \in EndpointsType /\ SameList(e, f) /\ SameWork(e, f) /\ SameRest(e, f)
            /\ f.file = e.file /\ f.running = e.running \ {i}
            /\ f.entry = IF ~e.closing /\ i \notin e.persistent /\ e.entry = i THEN 0 ELSE e.entry
        BY <1>f, <4>1
      <4> QED BY <1>e, <2>1, <2>3, <4>2 DEF ListedInv, SameRest
    <3> QED BY <3>1, <3>2
  <2> HIDE DEF f
  <2>5. \A j \in f.running : 0 < j /\ j <= e.made BY <1>e, <2>3, <2>4 DEF InstancesInv
  <2> QED BY <1>e, <1>q, <2>1, <2>2, <2>4, <2>5, AnsweredKeeps
<1>6. CASE StopDone
  <2> DEFINE i == e.subject
             f == finished(e, i)
  <2>1. e.queue # << >> /\ e.step = "stopping" BY <1>6 DEF StopDone, endpointStep
  <2>2. endpoints' = opOver(f, kept(f)) BY <1>6 DEF StopDone
  <2>3. /\ f \in EndpointsType /\ SameList(e, f) /\ SameWork(e, f) /\ SameRest(e, f)
        /\ f.file = e.file /\ f.running = e.running \ {i}
        /\ f.entry = IF ~e.closing /\ i \notin e.persistent /\ e.entry = i THEN 0 ELSE e.entry
    BY <1>f
  <2> HIDE DEF f
  <2>4. /\ \A j \in f.running : 0 < j /\ j <= e.made
        /\ \A j \in f.running \ f.revived : j = f.entry
        /\ f.entry \in {0, e.entry} /\ f.raced = e.raced /\ f.closing = e.closing
    BY <1>e, <2>1, <2>3 DEF InstancesInv, ListedInv, SameRest
  <2> QED BY <1>e, <1>q, <2>1, <2>2, <2>3, <2>4, AnsweredKeeps
<1>7. ASSUME NEW i \in Instance, RunEnds(i)
      PROVE  endpoints' \in EndpointsType /\ EndpointsRest(endpoints')
  <2> DEFINE attached == e.attached \ {i}
             op == [kind |-> "cleanup", instance |-> i]
  <2>1. attached \in SUBSET Nat /\ i \in Nat /\ e.ops \in Nat
    BY <1>e, EndpointsAssumption DEF EndpointsType, Instance
  <2>2. op \in EndpointOp BY <2>1 DEF EndpointOp
  <2>3. CASE e.closing
    <3>1. endpoints' = Attached(e, attached)
      BY <1>7, <1>e, <2>3 DEF RunEnds, Attached, EndpointsType
    <3> QED BY <1>e, <2>1, <3>1, AttachedKeeps DEF EndpointsRest
  <2>4. CASE ~e.closing
    <3>1. endpoints' = Queued(e, op, e.ops, attached)
      BY <1>7, <1>e, <2>4 DEF RunEnds, Queued, EndpointsType
    <3> HIDE DEF op, attached
    <3> QED BY <1>e, <2>1, <2>2, <2>4, <3>1, QueuedKeeps DEF EndpointsRest
  <2> QED BY <2>3, <2>4
<1>8. ASSUME NEW i \in Instance, WorkloadEnds(i)
      PROVE  endpoints' \in EndpointsType /\ EndpointsRest(endpoints')
  <2> DEFINE f == finished(e, i)
  <2>1. endpoints' = f /\ i \in e.running BY <1>8 DEF WorkloadEnds
  <2>2. /\ f \in EndpointsType /\ SameList(e, f) /\ SameWork(e, f) /\ SameRest(e, f)
        /\ f.file = e.file /\ f.running = e.running \ {i}
        /\ f.entry = IF ~e.closing /\ i \notin e.persistent /\ e.entry = i THEN 0 ELSE e.entry
    BY <1>f
  <2> HIDE DEF f
  <2>3. 0 \notin e.persistent BY <1>e DEF InstancesInv
  <2>4. InstancesInv(f)
    <3>1. f.entry <= f.made BY <1>e, <1>n, <2>2 DEF InstancesInv, SameList
    <3> QED BY <1>e, <2>2, <3>1 DEF InstancesInv, SameList, SameWork
  <2>5. OperationInv(f) BY <1>e, <2>1, <2>2, <2>3 DEF OperationInv, SameList, SameWork
  <2>6. ListedInv(f) BY <1>e, <2>2 DEF ListedInv, SameWork, SameRest
  <2>7. PromisedInv(f)
    <3>1. e.entry \in e.persistent => f.entry = e.entry BY <2>2
    <3>2. e.closing => f.entry = e.entry BY <2>2
    <3>3. e.entry = 0 => f.entry = 0 BY <2>2
    <3>4. e.closing => snapshotOf(f) = snapshotOf(e) BY <2>2, <3>2 DEF snapshotOf, SameList
    <3> QED BY <1>e, <2>2, <3>1, <3>3, <3>4 DEF PromisedInv, SameList, SameWork, SameRest
  <2> QED BY <2>1, <2>2, <2>4, <2>5, <2>6, <2>7 DEF EndpointsRest
<1>9. CASE CleanupStarts
  <2> DEFINE f == Stepped(u, "disposing", endpointOp.instance)
  <2>1. e.queue # << >> /\ endpointOp.kind = "cleanup" /\ e.step = "idle"
    BY <1>9 DEF CleanupStarts, endpointStep
  <2>2. endpointOp.instance \in Nat /\ "disposing" \in EndpointStep
    BY <1>q, <2>1, EndpointOps DEF EndpointStep
  <2>3. endpoints' = f BY <1>9, <1>e DEF CleanupStarts, Stepped, Unacked, EndpointsType
  <2> HIDE DEF u
  <2>4. /\ f \in EndpointsType /\ SameList(u, f) /\ SameRest(u, f)
        /\ f.file = u.file /\ f.running = u.running /\ f.entry = u.entry /\ f.queue = u.queue
        /\ f.acked = u.acked /\ f.step = "disposing" /\ f.subject = endpointOp.instance
    BY <1>u, <2>2, EndpointStepped
  <2> HIDE DEF f
  <2>5. InstancesInv(f) BY <1>e, <1>u, <2>4 DEF InstancesInv, SameList
  <2>6. OperationInv(f) BY <1>u, <1>q, <2>1, <2>4 DEF OperationInv
  <2>7. ListedInv(f) BY <1>e, <1>u, <2>1, <2>4 DEF ListedInv, SameRest
  <2>8. PromisedInv(f) BY <1>u, <1>q, <2>1, <2>4 DEF PromisedInv, SameRest
  <2> QED BY <2>3, <2>4, <2>5, <2>6, <2>7, <2>8 DEF EndpointsRest
<1>10. ASSUME NEW kind, NEW acked \in EndpointAnswer, EntryDisposed(kind, acked),
              acked \in {"none", "removed"}, acked = "removed" => kind = "remove"
       PROVE  endpoints' \in EndpointsType /\ EndpointsRest(endpoints')
  <2> DEFINE f == finished(e, e.subject)
             g == entryRemoved(f, e.subject)
  <2>1. e.queue # << >> /\ endpointOp.kind = kind /\ e.step = "disposing" /\ endpoints' = opOver(g, acked)
    BY <1>10 DEF EntryDisposed, endpointStep
  <2>2. /\ f \in EndpointsType /\ SameList(e, f) /\ SameWork(e, f) /\ SameRest(e, f)
        /\ f.file = e.file /\ f.running = e.running \ {e.subject}
        /\ f.entry = IF ~e.closing /\ e.subject \notin e.persistent /\ e.entry = e.subject THEN 0 ELSE e.entry
    BY <1>f
  <2> HIDE DEF f
  <2>3. /\ g \in EndpointsType /\ SameList(f, g) /\ SameWork(f, g) /\ SameRest(f, g)
        /\ g.file = f.file /\ g.running = f.running
        /\ g.entry = IF f.entry = e.subject THEN 0 ELSE f.entry
    BY <2>2, EntryRemoved
  <2> HIDE DEF g
  <2>4. g.entry \in {0, e.entry} BY <2>2, <2>3
  <2>5. InstancesInv(g)
    <3>1. g.made = e.made /\ g.entry <= g.made
      BY <1>e, <1>n, <2>2, <2>3, <2>4 DEF SameList, InstancesInv
    <3> QED BY <1>e, <2>2, <2>3, <3>1 DEF InstancesInv, SameList, SameWork
  <2>6. \A i \in g.running \ g.revived : i = g.entry
    BY <1>e, <2>1, <2>2, <2>3 DEF ListedInv, SameRest
  <2>7. g.queue # << >> /\ (~g.raced => ~g.closing) BY <1>q, <2>1, <2>2, <2>3 DEF SameWork, SameRest
  <2>8. acked = "removed" => g.entry = 0 /\ ~g.file.there
    BY <1>10, <1>e, <1>q, <2>1, <2>2, <2>3, <2>4 DEF OperationInv
  <2> QED BY <1>10, <2>1, <2>3, <2>5, <2>6, <2>7, <2>8, OverKeeps
<1>p. ASSUME e.queue # << >>, e.step = "idle"
      PROVE  opOver(e, "none") \in EndpointsType /\ EndpointsRest(opOver(e, "none"))
  <2>1. (\A i \in e.running \ e.revived : i = e.entry) /\ (~e.raced => ~e.closing)
    BY <1>e, <1>q, <1>p DEF ListedInv
  <2> QED BY <1>e, <1>n, <1>p, <2>1, OverKeeps
<1>11. ASSUME NEW kind \in {"start", "stop", "remove"}, NEW entry \in {0, e.entry},
              NEW desired \in SUBSET (e.desired \cup {e.entry}), NEW step \in {"syncing", "stopping", "disposing"},
              NEW changed, Unacked(changed) = Changed(e, entry, desired),
              operates(kind, changed, step),
              kind = "remove" <=> step = "disposing", e.entry # 0 => (entry = 0 <=> step = "disposing")
       PROVE  endpoints' \in EndpointsType /\ EndpointsRest(endpoints')
  <2> DEFINE c == Changed(e, entry, desired)
  <2>1. e.queue # << >> /\ endpointOp.kind = kind /\ e.step = "idle"
    BY <1>11 DEF operates, endpointStep
  <2>2. CASE e.entry = 0 BY <1>11, <1>p, <2>1, <2>2 DEF operates
  <2>3. CASE e.entry # 0
    <3>1. endpoints' \in {Stepped(endpointsSaved(c), step, e.entry), opOver(u, "none")}
      BY <1>11, <2>3 DEF operates, saveOr, Unacked, Stepped
    <3>2. ASSUME endpoints' = Stepped(endpointsSaved(c), step, e.entry)
          PROVE  endpoints' \in EndpointsType /\ EndpointsRest(endpoints')
      BY <1>11, <1>e, <1>q, <2>1, <2>3, <3>2, ChangedKeeps DEF EndpointsRest
    <3> QED BY <1>o, <2>1, <3>1, <3>2
  <2> QED BY <2>2, <2>3
<1>12. CASE StartStarts
  <2> DEFINE d == e.desired \cup {e.entry}
             c == [endpoints EXCEPT !.desired = @ \cup {endpoints.entry}]
  <2>1. Unacked(c) = Changed(e, e.entry, d) BY <1>e DEF Unacked, Changed, EndpointsType
  <2>2. operates("start", c, "syncing") BY <1>12 DEF StartStarts
  <2>3. d \in SUBSET (e.desired \cup {e.entry}) OBVIOUS
  <2> HIDE DEF c, d
  <2> QED BY <1>11, <2>1, <2>2, <2>3
<1>13. CASE StopStarts
  <2> DEFINE d == e.desired \ {e.entry}
             c == [endpoints EXCEPT !.desired = @ \ {endpoints.entry}]
  <2>1. Unacked(c) = Changed(e, e.entry, d) BY <1>e DEF Unacked, Changed, EndpointsType
  <2>2. operates("stop", c, "stopping") BY <1>13 DEF StopStarts
  <2>3. d \in SUBSET (e.desired \cup {e.entry}) OBVIOUS
  <2> HIDE DEF c, d
  <2> QED BY <1>11, <2>1, <2>2, <2>3
<1>14. CASE RemoveStarts
  <2> DEFINE d == e.desired
             c == [endpoints EXCEPT !.entry = 0]
  <2>1. Unacked(c) = Changed(e, 0, d) BY <1>e DEF Unacked, Changed, EndpointsType
  <2>2. operates("remove", c, "disposing") BY <1>14 DEF RemoveStarts
  <2>3. d \in SUBSET (e.desired \cup {e.entry}) OBVIOUS
  <2> HIDE DEF c, d
  <2> QED BY <1>11, <2>1, <2>2, <2>3
<1>15. ASSUME NEW op \in EndpointOp, EndpointRequested(op)
       PROVE  endpoints' \in EndpointsType /\ EndpointsRest(endpoints')
  <2>1. endpoints' = Queued(e, op, e.ops + 1, e.attached) /\ ~e.closing
    BY <1>15, <1>e DEF EndpointRequested, Queued, EndpointsType
  <2>2. e.ops + 1 \in Nat /\ e.attached \in SUBSET Nat BY <1>e DEF EndpointsType
  <2> QED BY <1>e, <2>1, <2>2, QueuedKeeps DEF EndpointsRest
<1>16. ASSUME NEW persistent \in BOOLEAN, NEW owned \in BOOLEAN, NEW replace \in BOOLEAN,
              CreateRequested(persistent, owned, replace)
       PROVE  endpoints' \in EndpointsType /\ EndpointsRest(endpoints')
  <2> DEFINE op == [kind |-> "create", persistent |-> persistent, owned |-> owned, replace |-> replace]
  <2>1. op \in EndpointOp BY <1>16 DEF CreateRequested, EndpointOp
  <2>2. EndpointRequested(op) BY <1>16 DEF CreateRequested
  <2> QED BY <1>15, <2>1, <2>2
<1>17. ASSUME NEW kind \in {"start", "stop", "remove", "configure"}, EndpointRequested([kind |-> kind])
       PROVE  endpoints' \in EndpointsType /\ EndpointsRest(endpoints')
  <2>1. [kind |-> kind] \in EndpointOp BY DEF EndpointOp
  <2> QED BY <1>15, <1>17, <2>1
<1>18. CASE HubReplaced
  <2> DEFINE f == endpoints'
             raced == e.queue # << >>
             snapshot == snapshotOf(e)
  <2>1. f = [e EXCEPT !.closing = TRUE, !.snapshot = snapshot, !.raced = raced]
    BY <1>18 DEF HubReplaced
  <2>2. snapshot \in EndpointSnapshot /\ raced \in BOOLEAN /\ (~raced => e.queue = << >>) /\ ~e.raced
    BY <1>18, SnapshotTaken DEF HubReplaced
  <2> HIDE DEF f, raced, snapshot
  <2>3. f \in EndpointsType BY <1>e, <2>1, <2>2 DEF EndpointsType
  <2>4. /\ SameList(e, f) /\ SameWork(e, f) /\ f.file = e.file /\ f.entry = e.entry /\ f.closing = TRUE
        /\ f.raced = raced /\ f.running = e.running /\ f.revived = e.revived /\ f.snapshot = snapshot
    BY <1>e, <2>1, <2>2 DEF EndpointsType, SameList, SameWork
  <2>5. InstancesInv(f) BY <1>e, <2>4 DEF InstancesInv, SameList, SameWork
  <2>6. OperationInv(f) BY <1>e, <2>4 DEF OperationInv, SameList, SameWork
  <2>7. ListedInv(f) BY <1>e, <2>4 DEF ListedInv, SameWork
  <2>8. snapshotOf(f) = snapshot BY <2>4 DEF snapshotOf, SameList, snapshot
  <2>9. PromisedInv(f) BY <1>e, <2>2, <2>4, <2>8 DEF PromisedInv, SameList, SameWork
  <2> QED BY <2>3, <2>5, <2>6, <2>7, <2>9 DEF EndpointsRest, f
<1>19. CASE EndpointsRestored
  <2> DEFINE there == e.snapshot.there
             persistent == there /\ e.snapshot.persistent
             desired == e.snapshot.desired
  <2>1. e.closing /\ e.queue = << >> /\ endpoints' = restored(e, there, persistent, desired)
    BY <1>19 DEF EndpointsRestored
  <2>2. e.step = "idle" BY <1>e, <2>1 DEF OperationInv
  <2>3. ~e.raced =>
            /\ there <=> e.entry # 0 /\ e.entry \notin e.owned
            /\ persistent <=> e.entry # 0 /\ e.entry \in e.persistent
            /\ desired <=> e.entry \in e.desired
    <3>1. e.persistent \cap e.owned = {} /\ 0 \notin e.persistent BY <1>e DEF InstancesInv
    <3>2. ~e.raced => e.snapshot = snapshotOf(e) BY <1>e, <2>1 DEF PromisedInv
    <3> QED BY <3>1, <3>2, SnapshotTaken
  <2>4. ~e.raced =>
            /\ e.acked \in {"kept", "stopped"} => there /\ persistent /\ e.file.there
            /\ e.acked = "stopped" => ~desired /\ ~e.file.desired
            /\ e.acked = "removed" => ~there /\ ~e.file.there
    <3>1. e.persistent \cap e.owned = {} /\ 0 \notin e.persistent BY <1>e DEF InstancesInv
    <3> HIDE DEF there, persistent, desired
    <3> QED BY <1>e, <2>3, <3>1 DEF PromisedInv
  <2> HIDE DEF there, persistent, desired
  <2> QED BY <1>e, <2>1, <2>2, <2>4, RestoredKeeps
<1>20. ASSUME NEW policy \in {"never", "always"}, DaemonRestarts(policy)
       PROVE  endpoints' \in EndpointsType /\ EndpointsRest(endpoints')
  <2> DEFINE f == [endpoints EXCEPT !.queue = << >>, !.step = "idle", !.subject = 0]
             there == e.file.there
             persistent == TRUE
             desired == e.file.desired /\ policy # "never"
  <2>1. endpoints' = restored(f, there, persistent, desired) BY <1>20 DEF DaemonRestarts
  <2>2. << >> \in Seq(EndpointOp) /\ "idle" \in EndpointStep BY DEF EndpointStep
  <2>3. f \in EndpointsType BY <1>e, <2>2 DEF EndpointsType
  <2>4. /\ SameList(e, f) /\ f.file = e.file /\ f.entry = e.entry /\ f.running = e.running
        /\ f.raced = e.raced /\ f.acked = e.acked /\ f.queue = << >> /\ f.step = "idle"
    BY <1>e DEF EndpointsType, SameList
  <2> HIDE DEF f
  <2>5. InstancesInv(f) BY <1>e, <2>4 DEF InstancesInv, SameList
  <2>6. ~f.raced =>
            /\ f.acked \in {"kept", "stopped"} => there /\ persistent /\ f.file.there
            /\ f.acked = "stopped" => ~desired /\ ~f.file.desired
            /\ f.acked = "removed" => ~there /\ ~f.file.there
    BY <1>e, <2>4 DEF PromisedInv
  <2> HIDE DEF there, persistent, desired
  <2> QED BY <2>1, <2>3, <2>4, <2>5, <2>6, RestoredKeeps
<1>21. ASSUME NEW persistent \in BOOLEAN, Configured(persistent)
       PROVE  endpoints' \in EndpointsType /\ EndpointsRest(endpoints')
  <2> DEFINE i == e.entry
             P == IF persistent THEN e.persistent \cup {i} ELSE e.persistent \ {i}
             c == [e EXCEPT !.persistent = P]
             s == endpointsSaved(c)
             f == IF i \in s.running THEN s ELSE finished(s, i)
  <2>1. e.queue # << >> /\ e.step = "idle" BY <1>21 DEF Configured, endpointStep
  <2>2. endpoints' = opOver(u, "none") \/ (i # 0 /\ endpoints' = opOver(f, kept(f)))
    BY <1>21, <1>e DEF Configured, Unacked, EndpointsType
  <2>3. i # 0 => P \in SUBSET Nat /\ P \cap e.owned = {} /\ (\A j \in P : 0 < j /\ j <= e.made)
    BY <1>21, <1>e, <1>n DEF Configured, InstancesInv, EndpointsType
  <2> HIDE DEF P
  <2>4. ASSUME i # 0, endpoints' = opOver(f, kept(f))
        PROVE  endpoints' \in EndpointsType /\ EndpointsRest(endpoints')
    <3>1. c \in EndpointsType BY <1>e, <2>3, <2>4 DEF EndpointsType
    <3>2. /\ c.made = e.made /\ c.persistent = P /\ c.owned = e.owned /\ c.desired = e.desired
          /\ SameWork(e, c) /\ SameRest(e, c) /\ c.running = e.running /\ c.entry = i
      BY <1>e, <2>3, <2>4 DEF EndpointsType, SameWork, SameRest
    <3> HIDE DEF c
    <3>3. /\ s \in EndpointsType /\ SameList(c, s) /\ SameWork(c, s) /\ SameRest(c, s)
          /\ s.running = c.running /\ s.entry = c.entry
          /\ s.file.there <=> c.entry \in c.persistent
          /\ c.entry \in c.persistent => (s.file.desired <=> c.entry \in c.desired)
      BY <3>1, EntrySaved
    <3> HIDE DEF s
    <3>4. /\ f \in EndpointsType /\ SameList(s, f) /\ SameWork(s, f) /\ SameRest(s, f) /\ f.file = s.file
          /\ f.entry \in {0, i} /\ f.running \subseteq s.running
          /\ \A j \in f.running \ f.revived : j = f.entry
      <4>1. CASE i \in s.running
        <5>1. f = s BY <4>1
        <5> HIDE DEF f
        <5> QED BY <1>e, <2>1, <3>2, <3>3, <5>1 DEF SameList, SameWork, SameRest, ListedInv
      <4>2. CASE i \notin s.running
        <5>1. f = finished(s, i) BY <4>2
        <5> HIDE DEF f
        <5>2. /\ f \in EndpointsType /\ SameList(s, f) /\ SameWork(s, f) /\ SameRest(s, f)
              /\ f.file = s.file /\ f.running = s.running \ {i}
              /\ f.entry = IF ~s.closing /\ i \notin s.persistent /\ s.entry = i THEN 0 ELSE s.entry
          BY <3>3, <5>1, EntryFinished
        <5> QED BY <1>e, <2>1, <3>2, <3>3, <5>2, <4>2 DEF SameRest, ListedInv
      <4> QED BY <4>1, <4>2
    <3> HIDE DEF f
    <3> DEFINE answer == kept(f)
    <3>5. /\ answer \in EndpointAnswer /\ answer # "removed"
          /\ answer \in {"kept", "stopped"} => f.entry \in f.persistent
          /\ answer = "stopped" => f.entry \notin f.desired
      BY EntryKept
    <3> HIDE DEF answer
    <3>6. /\ f.made = e.made /\ f.persistent = P /\ f.owned = e.owned /\ f.desired = e.desired
          /\ f.queue # << >> /\ (~f.raced => ~f.closing) /\ f.step = "idle" /\ f.running \subseteq e.running
      BY <1>q, <2>1, <3>2, <3>3, <3>4 DEF SameList, SameWork, SameRest
    <3>7. InstancesInv(f)
      <4>1. f.entry <= f.made BY <1>e, <1>n, <3>4, <3>6 DEF InstancesInv
      <4> QED BY <1>e, <2>3, <2>4, <3>6, <4>1 DEF InstancesInv
    <3>8. f.entry \in f.persistent => f.file.there /\ (f.file.desired <=> f.entry \in f.desired)
      <4>1. 0 \notin P BY <2>3, <2>4
      <4> QED BY <3>2, <3>3, <3>4, <3>6, <4>1
    <3>9. opOver(f, answer) \in EndpointsType /\ EndpointsRest(opOver(f, answer))
      BY <3>4, <3>5, <3>6, <3>7, <3>8, OverKeeps
    <3> QED BY <2>4, <3>9 DEF answer
  <2> QED BY <1>o, <2>1, <2>2, <2>4
<1> QED
  BY <1>1, <1>2, <1>3, <1>4, <1>5, <1>6, <1>7, <1>8, <1>9, <1>10, <1>12, <1>13, <1>14, <1>16, <1>17, <1>18,
       <1>19, <1>20, <1>21, <1>n DEF EndpointsNext

LEMMA EndpointsKept == EndpointsInv => EndpointsAreKept
BY DEF EndpointsInv, EndpointsRest, ListedInv, PromisedInv, InstancesInv, EndpointsAreKept, RunningIsListed,
       AckedSurvives, ackedHolds

-----------------------------------------------------------------------------
(* The multiplexer (RustMultiplexer).                                      *)

AdderPlace == {"idle", "allowed", "reserved", "made", "refused"}

ChannelRef == MuxAdder \cup {NoAdder}

PumpPlace == MuxAdder \cup {NoAdder, "ended"}

BufferLevel == 0..MaxBuffered

MuxType ==
    [adder : [MuxAdder -> AdderPlace], id : [MuxAdder -> MuxId], used : SUBSET MuxId,
     live : [MuxId -> ChannelRef], pump : PumpPlace, state : {"active", "disposed", "cleared"},
     closed : SUBSET MuxAdder, rxClosed : SUBSET MuxAdder, reading : SUBSET MuxAdder,
     ended : SUBSET MuxAdder, overlapped : SUBSET MuxAdder, buffer : [MuxAdder -> BufferLevel]]

\* An id is reserved before its channel is made, by one thread only.
ReservedInv(s) ==
    \A k \in MuxAdder : s.adder[k] \in {"reserved", "made"} =>
        /\ s.id[k] \in s.used
        /\ \A j \in MuxAdder : s.adder[j] \in {"reserved", "made"} /\ s.id[j] = s.id[k] => j = k

\* A live channel is one that was made and not disposed of, and who is about to make one after
\* the multiplexer was disposed of began before that.
LiveInv(s) ==
    /\ \A k \in MuxAdder :
        /\ s.live[s.id[k]] = k => s.adder[k] = "made" /\ k \notin s.closed
        /\ k \in s.closed => s.adder[k] = "made"
        /\ s.state # "active" /\ s.adder[k] \in {"allowed", "reserved"} => k \in s.overlapped
        /\ s.state = "cleared" /\ s.live[s.id[k]] = k => k \in s.overlapped

MuxInv == mux \in MuxType /\ ReservedInv(mux) /\ LiveInv(mux)

LEMMA MuxInitial == MuxInit => MuxInv
<1> SUFFICES ASSUME MuxInit PROVE MuxInv
  OBVIOUS
<1>1. PICK id \in [MuxAdder -> MuxId] :
        mux = [adder |-> [k \in MuxAdder |-> "idle"], id |-> id, used |-> {},
               live |-> [i \in MuxId |-> NoAdder], pump |-> NoAdder, state |-> "active",
               closed |-> {}, rxClosed |-> {}, reading |-> {}, ended |-> {}, overlapped |-> {},
               buffer |-> [k \in MuxAdder |-> 0]]
  BY DEF MuxInit
<1>2. mux \in MuxType
  BY <1>1, MuxAssumption DEF MuxType, AdderPlace, ChannelRef, PumpPlace, BufferLevel
<1>3. \A k \in MuxAdder : mux.adder[k] = "idle" /\ mux.live[mux.id[k]] = NoAdder /\ k # NoAdder
  BY <1>1, MuxAssumption
<1>4. mux.state = "active" /\ mux.closed = {} BY <1>1
<1> QED BY <1>2, <1>3, <1>4 DEF MuxInv, ReservedInv, LiveInv

LEMMA MuxStep ==
    ASSUME MuxInv, [MuxNext]_mux
    PROVE  MuxInv'
<1>a. MaxBuffered \in Nat /\ NoAdder \notin MuxAdder /\ "ended" \notin MuxAdder BY MuxAssumption
<1>c. NoAdder \in PumpPlace /\ "ended" \in PumpPlace BY DEF PumpPlace
<1>b. mux \in MuxType /\ ReservedInv(mux) /\ LiveInv(mux) BY DEF MuxInv
<1>s. SUFFICES mux' \in MuxType /\ ReservedInv(mux') /\ LiveInv(mux') BY DEF MuxInv
<1>1. CASE UNCHANGED mux BY <1>1, <1>b
<1>2. ASSUME NEW k \in MuxAdder, AddAllowed(k)
      PROVE  mux' \in MuxType /\ ReservedInv(mux') /\ LiveInv(mux')
  <2>1. CASE mux.state = "active"
    <3> DEFINE adder1 == [mux.adder EXCEPT ![k] = "allowed"]
    <3>1. mux' = [mux EXCEPT !.adder = adder1] BY <1>2, <2>1, <1>b DEF AddAllowed, MuxType
    <3>2. adder1 \in [MuxAdder -> AdderPlace]
      BY <1>2, <2>1, <1>a, <1>c, <1>a, <1>b DEF MuxType, AdderPlace, ChannelRef, PumpPlace, BufferLevel, AddAllowed
    <3> HIDE DEF adder1
    <3>3. mux' \in MuxType BY <3>1, <3>2, <1>b, <1>2, <2>1, <1>a, <1>c DEF MuxType
    <3>4. /\ mux'.adder = adder1 /\ mux'.id = mux.id /\ mux'.used = mux.used
          /\ mux'.live = mux.live /\ mux'.pump = mux.pump /\ mux'.state = mux.state
          /\ mux'.closed = mux.closed /\ mux'.rxClosed = mux.rxClosed /\ mux'.reading = mux.reading
          /\ mux'.ended = mux.ended /\ mux'.overlapped = mux.overlapped /\ mux'.buffer = mux.buffer
      BY <3>1, <3>2, <1>b DEF MuxType
    <3>5. ReservedInv(mux')
      BY <1>2, <2>1, <1>a, <1>b, <3>3, <3>4, <3>2 DEF adder1, AddAllowed, ReservedInv, LiveInv, MuxType
    <3>6. LiveInv(mux')
      BY <1>2, <2>1, <1>a, <1>b, <3>3, <3>4, <3>2 DEF adder1, AddAllowed, ReservedInv, LiveInv, MuxType
    <3> QED BY <3>3, <3>5, <3>6
  <2>2. CASE mux.state # "active"
    <3> DEFINE adder1 == [mux.adder EXCEPT ![k] = "refused"]
    <3>1. mux' = [mux EXCEPT !.adder = adder1] BY <1>2, <2>2, <1>b DEF AddAllowed, MuxType
    <3>2. adder1 \in [MuxAdder -> AdderPlace]
      BY <1>2, <2>2, <1>a, <1>c, <1>a, <1>b DEF MuxType, AdderPlace, ChannelRef, PumpPlace, BufferLevel, AddAllowed
    <3> HIDE DEF adder1
    <3>3. mux' \in MuxType BY <3>1, <3>2, <1>b, <1>2, <2>2, <1>a, <1>c DEF MuxType
    <3>4. /\ mux'.adder = adder1 /\ mux'.id = mux.id /\ mux'.used = mux.used
          /\ mux'.live = mux.live /\ mux'.pump = mux.pump /\ mux'.state = mux.state
          /\ mux'.closed = mux.closed /\ mux'.rxClosed = mux.rxClosed /\ mux'.reading = mux.reading
          /\ mux'.ended = mux.ended /\ mux'.overlapped = mux.overlapped /\ mux'.buffer = mux.buffer
      BY <3>1, <3>2, <1>b DEF MuxType
    <3>5. ReservedInv(mux')
      BY <1>2, <2>2, <1>a, <1>b, <3>3, <3>4, <3>2 DEF adder1, AddAllowed, ReservedInv, LiveInv, MuxType
    <3>6. LiveInv(mux')
      BY <1>2, <2>2, <1>a, <1>b, <3>3, <3>4, <3>2 DEF adder1, AddAllowed, ReservedInv, LiveInv, MuxType
    <3> QED BY <3>3, <3>5, <3>6
  <2> QED BY <2>1, <2>2
<1>3. ASSUME NEW k \in MuxAdder, AddReserved(k)
      PROVE  mux' \in MuxType /\ ReservedInv(mux') /\ LiveInv(mux')
  <2>1. CASE mux.id[k] \in mux.used
    <3> DEFINE adder1 == [mux.adder EXCEPT ![k] = "refused"]
    <3>1. mux' = [mux EXCEPT !.adder = adder1] BY <1>3, <2>1, <1>b DEF AddReserved, MuxType
    <3>2. adder1 \in [MuxAdder -> AdderPlace]
      BY <1>3, <2>1, <1>a, <1>c, <1>a, <1>b DEF MuxType, AdderPlace, ChannelRef, PumpPlace, BufferLevel, AddReserved
    <3> HIDE DEF adder1
    <3>3. mux' \in MuxType BY <3>1, <3>2, <1>b, <1>3, <2>1, <1>a, <1>c DEF MuxType
    <3>4. /\ mux'.adder = adder1 /\ mux'.id = mux.id /\ mux'.used = mux.used
          /\ mux'.live = mux.live /\ mux'.pump = mux.pump /\ mux'.state = mux.state
          /\ mux'.closed = mux.closed /\ mux'.rxClosed = mux.rxClosed /\ mux'.reading = mux.reading
          /\ mux'.ended = mux.ended /\ mux'.overlapped = mux.overlapped /\ mux'.buffer = mux.buffer
      BY <3>1, <3>2, <1>b DEF MuxType
    <3>5. ReservedInv(mux')
      BY <1>3, <2>1, <1>a, <1>b, <3>3, <3>4, <3>2 DEF adder1, AddReserved, ReservedInv, LiveInv, MuxType
    <3>6. LiveInv(mux')
      BY <1>3, <2>1, <1>a, <1>b, <3>3, <3>4, <3>2 DEF adder1, AddReserved, ReservedInv, LiveInv, MuxType
    <3> QED BY <3>3, <3>5, <3>6
  <2>2. CASE mux.id[k] \notin mux.used
    <3> DEFINE adder1 == [mux.adder EXCEPT ![k] = "reserved"]
               used1 == mux.used \cup {mux.id[k]}
    <3>1. mux' = [mux EXCEPT !.adder = adder1, !.used = used1]
      BY <1>3, <2>2, <1>b DEF AddReserved, MuxType
    <3>2. adder1 \in [MuxAdder -> AdderPlace] /\ used1 \in SUBSET MuxId
      BY <1>3, <2>2, <1>a, <1>c, <1>a, <1>b DEF MuxType, AdderPlace, ChannelRef, PumpPlace, BufferLevel, AddReserved
    <3> HIDE DEF adder1, used1
    <3>3. mux' \in MuxType BY <3>1, <3>2, <1>b, <1>3, <2>2, <1>a, <1>c DEF MuxType
    <3>4. /\ mux'.adder = adder1 /\ mux'.id = mux.id /\ mux'.used = used1 /\ mux'.live = mux.live
          /\ mux'.pump = mux.pump /\ mux'.state = mux.state /\ mux'.closed = mux.closed
          /\ mux'.rxClosed = mux.rxClosed /\ mux'.reading = mux.reading /\ mux'.ended = mux.ended
          /\ mux'.overlapped = mux.overlapped /\ mux'.buffer = mux.buffer
      BY <3>1, <3>2, <1>b DEF MuxType
    <3>5. ReservedInv(mux')
      BY <1>3, <2>2, <1>a, <1>b, <3>3, <3>4, <3>2 DEF adder1, used1, AddReserved, ReservedInv, LiveInv, MuxType
    <3>6. LiveInv(mux')
      BY <1>3, <2>2, <1>a, <1>b, <3>3, <3>4, <3>2 DEF adder1, used1, AddReserved, ReservedInv, LiveInv, MuxType
    <3> QED BY <3>3, <3>5, <3>6
  <2> QED BY <2>1, <2>2
<1>4. ASSUME NEW k \in MuxAdder, AddInserted(k)
      PROVE  mux' \in MuxType /\ ReservedInv(mux') /\ LiveInv(mux')
  <2> DEFINE adder1 == [mux.adder EXCEPT ![k] = "made"]
             live1 == [mux.live EXCEPT ![mux.id[k]] = k]
  <2>1. mux' = [mux EXCEPT !.adder = adder1, !.live = live1] BY <1>4, <1>b DEF AddInserted, MuxType
  <2>2. adder1 \in [MuxAdder -> AdderPlace] /\ live1 \in [MuxId -> ChannelRef]
    BY <1>4, <1>a, <1>c, <1>a, <1>b DEF MuxType, AdderPlace, ChannelRef, PumpPlace, BufferLevel, AddInserted
  <2> HIDE DEF adder1, live1
  <2>3. mux' \in MuxType BY <2>1, <2>2, <1>b, <1>4, <1>a, <1>c DEF MuxType
  <2>4. /\ mux'.adder = adder1 /\ mux'.id = mux.id /\ mux'.used = mux.used /\ mux'.live = live1
        /\ mux'.pump = mux.pump /\ mux'.state = mux.state /\ mux'.closed = mux.closed
        /\ mux'.rxClosed = mux.rxClosed /\ mux'.reading = mux.reading /\ mux'.ended = mux.ended
        /\ mux'.overlapped = mux.overlapped /\ mux'.buffer = mux.buffer
    BY <2>1, <2>2, <1>b DEF MuxType
  <2>5. ReservedInv(mux')
    BY <1>4, <1>a, <1>b, <2>3, <2>4, <2>2 DEF adder1, live1, AddInserted, ReservedInv, LiveInv, MuxType
  <2>6. LiveInv(mux')
    BY <1>4, <1>a, <1>b, <2>3, <2>4, <2>2 DEF adder1, live1, AddInserted, ReservedInv, LiveInv, MuxType
  <2> QED BY <2>3, <2>5, <2>6
<1>5. ASSUME NEW k \in MuxAdder, RecvStarts(k)
      PROVE  mux' \in MuxType /\ ReservedInv(mux') /\ LiveInv(mux')
  <2> DEFINE reading1 == mux.reading \cup {k}
  <2>1. mux' = [mux EXCEPT !.reading = reading1] BY <1>5, <1>b DEF RecvStarts, MuxType
  <2>2. reading1 \in SUBSET MuxAdder
    BY <1>5, <1>a, <1>c, <1>a, <1>b DEF MuxType, AdderPlace, ChannelRef, PumpPlace, BufferLevel, RecvStarts
  <2> HIDE DEF reading1
  <2>3. mux' \in MuxType BY <2>1, <2>2, <1>b, <1>5, <1>a, <1>c DEF MuxType
  <2>4. /\ mux'.adder = mux.adder /\ mux'.id = mux.id /\ mux'.used = mux.used
        /\ mux'.live = mux.live /\ mux'.pump = mux.pump /\ mux'.state = mux.state
        /\ mux'.closed = mux.closed /\ mux'.rxClosed = mux.rxClosed /\ mux'.reading = reading1
        /\ mux'.ended = mux.ended /\ mux'.overlapped = mux.overlapped /\ mux'.buffer = mux.buffer
    BY <2>1, <2>2, <1>b DEF MuxType
  <2>5. ReservedInv(mux')
    BY <1>5, <1>a, <1>b, <2>3, <2>4, <2>2 DEF reading1, RecvStarts, ReservedInv, LiveInv, MuxType
  <2>6. LiveInv(mux')
    BY <1>5, <1>a, <1>b, <2>3, <2>4, <2>2 DEF reading1, RecvStarts, ReservedInv, LiveInv, MuxType
  <2> QED BY <2>3, <2>5, <2>6
<1>6. ASSUME NEW k \in MuxAdder, RecvYields(k)
      PROVE  mux' \in MuxType /\ ReservedInv(mux') /\ LiveInv(mux')
  <2> DEFINE reading1 == mux.reading \ {k}
             buffer1 == [mux.buffer EXCEPT ![k] = @ - 1]
  <2>1. mux' = [mux EXCEPT !.reading = reading1, !.buffer = buffer1]
    BY <1>6, <1>b DEF RecvYields, MuxType
  <2>2. reading1 \in SUBSET MuxAdder /\ buffer1 \in [MuxAdder -> BufferLevel]
    BY <1>6, <1>a, <1>c, <1>a, <1>b DEF MuxType, AdderPlace, ChannelRef, PumpPlace, BufferLevel, RecvYields
  <2> HIDE DEF reading1, buffer1
  <2>3. mux' \in MuxType BY <2>1, <2>2, <1>b, <1>6, <1>a, <1>c DEF MuxType
  <2>4. /\ mux'.adder = mux.adder /\ mux'.id = mux.id /\ mux'.used = mux.used
        /\ mux'.live = mux.live /\ mux'.pump = mux.pump /\ mux'.state = mux.state
        /\ mux'.closed = mux.closed /\ mux'.rxClosed = mux.rxClosed /\ mux'.reading = reading1
        /\ mux'.ended = mux.ended /\ mux'.overlapped = mux.overlapped /\ mux'.buffer = buffer1
    BY <2>1, <2>2, <1>b DEF MuxType
  <2>5. ReservedInv(mux')
    BY <1>6, <1>a, <1>b, <2>3, <2>4, <2>2 DEF reading1, buffer1, RecvYields, ReservedInv, LiveInv, MuxType
  <2>6. LiveInv(mux')
    BY <1>6, <1>a, <1>b, <2>3, <2>4, <2>2 DEF reading1, buffer1, RecvYields, ReservedInv, LiveInv, MuxType
  <2> QED BY <2>3, <2>5, <2>6
<1>7. ASSUME NEW k \in MuxAdder, RecvEnds(k)
      PROVE  mux' \in MuxType /\ ReservedInv(mux') /\ LiveInv(mux')
  <2> DEFINE reading1 == mux.reading \ {k}
             ended1 == mux.ended \cup {k}
  <2>1. mux' = [mux EXCEPT !.reading = reading1, !.ended = ended1]
    BY <1>7, <1>b DEF RecvEnds, MuxType
  <2>2. reading1 \in SUBSET MuxAdder /\ ended1 \in SUBSET MuxAdder
    BY <1>7, <1>a, <1>c, <1>a, <1>b DEF MuxType, AdderPlace, ChannelRef, PumpPlace, BufferLevel, RecvEnds
  <2> HIDE DEF reading1, ended1
  <2>3. mux' \in MuxType BY <2>1, <2>2, <1>b, <1>7, <1>a, <1>c DEF MuxType
  <2>4. /\ mux'.adder = mux.adder /\ mux'.id = mux.id /\ mux'.used = mux.used
        /\ mux'.live = mux.live /\ mux'.pump = mux.pump /\ mux'.state = mux.state
        /\ mux'.closed = mux.closed /\ mux'.rxClosed = mux.rxClosed /\ mux'.reading = reading1
        /\ mux'.ended = ended1 /\ mux'.overlapped = mux.overlapped /\ mux'.buffer = mux.buffer
    BY <2>1, <2>2, <1>b DEF MuxType
  <2>5. ReservedInv(mux')
    BY <1>7, <1>a, <1>b, <2>3, <2>4, <2>2 DEF reading1, ended1, RecvEnds, ReservedInv, LiveInv, MuxType
  <2>6. LiveInv(mux')
    BY <1>7, <1>a, <1>b, <2>3, <2>4, <2>2 DEF reading1, ended1, RecvEnds, ReservedInv, LiveInv, MuxType
  <2> QED BY <2>3, <2>5, <2>6
<1>8. ASSUME NEW k \in MuxAdder, ChannelDisposed(k)
      PROVE  mux' \in MuxType /\ ReservedInv(mux') /\ LiveInv(mux')
  <2> DEFINE closed1 == mux.closed \cup {k}
             live1 == [mux.live EXCEPT ![mux.id[k]] = NoAdder]
             rxClosed1 == IF k \in mux.reading THEN mux.rxClosed ELSE mux.rxClosed \cup {k}
  <2>1. mux' = [mux EXCEPT !.closed = closed1, !.live = live1, !.rxClosed = rxClosed1]
    BY <1>8, <1>b DEF ChannelDisposed, MuxType
  <2>2. closed1 \in SUBSET MuxAdder /\ live1 \in [MuxId -> ChannelRef] /\ rxClosed1 \in SUBSET MuxAdder
    BY <1>8, <1>a, <1>c, <1>a, <1>b DEF MuxType, AdderPlace, ChannelRef, PumpPlace, BufferLevel, ChannelDisposed, muxChannel
  <2> HIDE DEF closed1, live1, rxClosed1
  <2>3. mux' \in MuxType BY <2>1, <2>2, <1>b, <1>8, <1>a, <1>c DEF MuxType
  <2>4. /\ mux'.adder = mux.adder /\ mux'.id = mux.id /\ mux'.used = mux.used
        /\ mux'.live = live1 /\ mux'.pump = mux.pump /\ mux'.state = mux.state
        /\ mux'.closed = closed1 /\ mux'.rxClosed = rxClosed1 /\ mux'.reading = mux.reading
        /\ mux'.ended = mux.ended /\ mux'.overlapped = mux.overlapped /\ mux'.buffer = mux.buffer
    BY <2>1, <2>2, <1>b DEF MuxType
  <2>5. ReservedInv(mux')
    BY <1>8, <1>a, <1>b, <2>3, <2>4, <2>2 DEF closed1, live1, rxClosed1, ChannelDisposed, muxChannel, ReservedInv, LiveInv, MuxType
  <2>6. LiveInv(mux')
    BY <1>8, <1>a, <1>b, <2>3, <2>4, <2>2 DEF closed1, live1, rxClosed1, ChannelDisposed, muxChannel, ReservedInv, LiveInv, MuxType
  <2> QED BY <2>3, <2>5, <2>6
<1>9. ASSUME NEW i \in MuxId, RouteTakes(i)
      PROVE  mux' \in MuxType /\ ReservedInv(mux') /\ LiveInv(mux')
  <2> DEFINE pump1 == mux.live[i]
  <2>1. mux' = [mux EXCEPT !.pump = pump1] BY <1>9, <1>b DEF RouteTakes, MuxType
  <2>2. pump1 \in PumpPlace
    BY <1>9, <1>a, <1>c, <1>a, <1>b DEF MuxType, AdderPlace, ChannelRef, PumpPlace, BufferLevel, RouteTakes
  <2> HIDE DEF pump1
  <2>3. mux' \in MuxType BY <2>1, <2>2, <1>b, <1>9, <1>a, <1>c DEF MuxType
  <2>4. /\ mux'.adder = mux.adder /\ mux'.id = mux.id /\ mux'.used = mux.used
        /\ mux'.live = mux.live /\ mux'.pump = pump1 /\ mux'.state = mux.state
        /\ mux'.closed = mux.closed /\ mux'.rxClosed = mux.rxClosed /\ mux'.reading = mux.reading
        /\ mux'.ended = mux.ended /\ mux'.overlapped = mux.overlapped /\ mux'.buffer = mux.buffer
    BY <2>1, <2>2, <1>b DEF MuxType
  <2>5. ReservedInv(mux')
    BY <1>9, <1>a, <1>b, <2>3, <2>4, <2>2 DEF pump1, RouteTakes, ReservedInv, LiveInv, MuxType
  <2>6. LiveInv(mux')
    BY <1>9, <1>a, <1>b, <2>3, <2>4, <2>2 DEF pump1, RouteTakes, ReservedInv, LiveInv, MuxType
  <2> QED BY <2>3, <2>5, <2>6
<1>10. CASE RouteSends
  <2> DEFINE buffer1 == [mux.buffer EXCEPT ![mux.pump] = IF mux.pump \in mux.rxClosed THEN @ ELSE @ + 1]
  <2>1. mux' = [mux EXCEPT !.pump = NoAdder, !.buffer = buffer1]
    BY <1>10, <1>b DEF RouteSends, MuxType
  <2>2. buffer1 \in [MuxAdder -> BufferLevel]
    BY <1>10, <1>a, <1>c, <1>a, <1>b DEF MuxType, AdderPlace, ChannelRef, PumpPlace, BufferLevel, RouteSends
  <2> HIDE DEF buffer1
  <2>3. mux' \in MuxType BY <2>1, <2>2, <1>b, <1>10, <1>a, <1>c DEF MuxType
  <2>4. /\ mux'.adder = mux.adder /\ mux'.id = mux.id /\ mux'.used = mux.used
        /\ mux'.live = mux.live /\ mux'.pump = NoAdder /\ mux'.state = mux.state
        /\ mux'.closed = mux.closed /\ mux'.rxClosed = mux.rxClosed /\ mux'.reading = mux.reading
        /\ mux'.ended = mux.ended /\ mux'.overlapped = mux.overlapped /\ mux'.buffer = buffer1
    BY <2>1, <2>2, <1>b DEF MuxType
  <2>5. ReservedInv(mux')
    BY <1>10, <1>a, <1>b, <2>3, <2>4, <2>2 DEF buffer1, RouteSends, ReservedInv, LiveInv, MuxType
  <2>6. LiveInv(mux')
    BY <1>10, <1>a, <1>b, <2>3, <2>4, <2>2 DEF buffer1, RouteSends, ReservedInv, LiveInv, MuxType
  <2> QED BY <2>3, <2>5, <2>6
<1>11. CASE PumpEnds
  <2>1. mux' = [mux EXCEPT !.pump = "ended"] BY <1>11, <1>b DEF PumpEnds, MuxType
  <2>2. mux' \in MuxType BY <2>1, <1>b, <1>11, <1>a, <1>c DEF MuxType
  <2>3. /\ mux'.adder = mux.adder /\ mux'.id = mux.id /\ mux'.used = mux.used
        /\ mux'.live = mux.live /\ mux'.pump = "ended" /\ mux'.state = mux.state
        /\ mux'.closed = mux.closed /\ mux'.rxClosed = mux.rxClosed /\ mux'.reading = mux.reading
        /\ mux'.ended = mux.ended /\ mux'.overlapped = mux.overlapped /\ mux'.buffer = mux.buffer
    BY <2>1, <1>b DEF MuxType
  <2>4. ReservedInv(mux')
    BY <1>11, <1>a, <1>b, <2>2, <2>3 DEF PumpEnds, ReservedInv, LiveInv, MuxType
  <2>5. LiveInv(mux') BY <1>11, <1>a, <1>b, <2>2, <2>3 DEF PumpEnds, ReservedInv, LiveInv, MuxType
  <2> QED BY <2>2, <2>4, <2>5
<1>12. CASE MuxDisposed
  <2> DEFINE overlapped1 == {k \in MuxAdder : mux.adder[k] \in {"allowed", "reserved"}}
  <2>1. mux' = [mux EXCEPT !.state = "disposed", !.overlapped = overlapped1]
    BY <1>12, <1>b DEF MuxDisposed, MuxType
  <2>2. overlapped1 \in SUBSET MuxAdder
    BY <1>12, <1>a, <1>c, <1>a, <1>b DEF MuxType, AdderPlace, ChannelRef, PumpPlace, BufferLevel, MuxDisposed
  <2> HIDE DEF overlapped1
  <2>3. mux' \in MuxType BY <2>1, <2>2, <1>b, <1>12, <1>a, <1>c DEF MuxType
  <2>4. /\ mux'.adder = mux.adder /\ mux'.id = mux.id /\ mux'.used = mux.used
        /\ mux'.live = mux.live /\ mux'.pump = mux.pump /\ mux'.state = "disposed"
        /\ mux'.closed = mux.closed /\ mux'.rxClosed = mux.rxClosed /\ mux'.reading = mux.reading
        /\ mux'.ended = mux.ended /\ mux'.overlapped = overlapped1 /\ mux'.buffer = mux.buffer
    BY <2>1, <2>2, <1>b DEF MuxType
  <2>5. ReservedInv(mux')
    BY <1>12, <1>a, <1>b, <2>3, <2>4, <2>2 DEF overlapped1, MuxDisposed, ReservedInv, LiveInv, MuxType
  <2>6. LiveInv(mux')
    BY <1>12, <1>a, <1>b, <2>3, <2>4, <2>2 DEF overlapped1, MuxDisposed, ReservedInv, LiveInv, MuxType
  <2> QED BY <2>3, <2>5, <2>6
<1>13. CASE MuxCleared
  <2> DEFINE live1 == [i \in MuxId |-> NoAdder]
  <2>1. mux' = [mux EXCEPT !.state = "cleared", !.live = live1]
    BY <1>13, <1>b DEF MuxCleared, MuxType
  <2>2. live1 \in [MuxId -> ChannelRef]
    BY <1>13, <1>a, <1>c, <1>a, <1>b DEF MuxType, AdderPlace, ChannelRef, PumpPlace, BufferLevel, MuxCleared
  <2> HIDE DEF live1
  <2>3. mux' \in MuxType BY <2>1, <2>2, <1>b, <1>13, <1>a, <1>c DEF MuxType
  <2>4. /\ mux'.adder = mux.adder /\ mux'.id = mux.id /\ mux'.used = mux.used
        /\ mux'.live = live1 /\ mux'.pump = mux.pump /\ mux'.state = "cleared"
        /\ mux'.closed = mux.closed /\ mux'.rxClosed = mux.rxClosed /\ mux'.reading = mux.reading
        /\ mux'.ended = mux.ended /\ mux'.overlapped = mux.overlapped /\ mux'.buffer = mux.buffer
    BY <2>1, <2>2, <1>b DEF MuxType
  <2>5. ReservedInv(mux')
    BY <1>13, <1>a, <1>b, <2>3, <2>4, <2>2 DEF live1, MuxCleared, ReservedInv, LiveInv, MuxType
  <2>6. LiveInv(mux')
    BY <1>13, <1>a, <1>b, <2>3, <2>4, <2>2 DEF live1, MuxCleared, ReservedInv, LiveInv, MuxType
  <2> QED BY <2>3, <2>5, <2>6
<1> QED BY <1>1, <1>2, <1>3, <1>4, <1>5, <1>6, <1>7, <1>8, <1>9, <1>10, <1>11, <1>12, <1>13 DEF MuxNext

LEMMA MuxTidy == MuxInv => MultiplexerIsTidy
<1> SUFFICES ASSUME MuxInv PROVE MultiplexerIsTidy
  OBVIOUS
<1>1. MuxTypeOK BY DEF MuxInv, MuxType, MuxTypeOK, AdderPlace, ChannelRef, PumpPlace, BufferLevel
<1>2. IdsAreRetired /\ ReadersAreReleased
  BY DEF MuxInv, ReservedInv, LiveInv, IdsAreRetired, ReadersAreReleased, muxChannel
<1> QED BY <1>1, <1>2 DEF MultiplexerIsTidy

=============================================================================
