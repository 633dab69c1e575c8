----------------------------- MODULE IdentitySlot -----------------------------
(***************************************************************************)
(* The managed identity of a slot (linkrpc-hub, engine/runHub.ts,          *)
(* IdentityProvisioner; hub/server/sqliteIdentityKeystore.ts; linkrpc,     *)
(* node/hubClient.ts, loadOrCreateIdentity).                               *)
(*                                                                         *)
(* Connections of one slot resolve its identity at the same time: from the *)
(* row of the keystore, from a file of an older build (which is imported   *)
(* and renamed), or by making a new one.  The hub may crash and start      *)
(* again between any two steps; the row and the files are durable.         *)
(***************************************************************************)
EXTENDS Naturals

CONSTANTS
    Resolver,   \* connections that resolve the slot at the same time
    MaxKey      \* bound: keys made

ASSUME SlotAssumption == MaxKey \in Nat

VARIABLE slot

\* Keys are numbers; Legacy is the key of the older build's file, 0 stands for no key.
LegacyKey == 1

SlotKey == 1..MaxKey

(***************************************************************************)
(* row, file and backup are what is stored; made is the last key made; got *)
(* are the identities handed out so far.  pc is the await a resolver is    *)
(* in, key the key it holds.                                               *)
(***************************************************************************)
SlotInit ==
    \E legacy \in BOOLEAN :
        slot = [legacy |-> legacy, row |-> 0, file |-> IF legacy THEN LegacyKey ELSE 0, backup |-> 0,
                made |-> LegacyKey, got |-> {},
                pc |-> [r \in Resolver |-> "start"], key |-> [r \in Resolver |-> 0]]

slotResolving(r, place) == slot.pc[r] = place

slotReturns(s, r, key) == [s EXCEPT !.pc[r] = "done", !.got = @ \cup {key}]

slotGoes(s, r, place, key) == [s EXCEPT !.pc[r] = place, !.key[r] = key]

-----------------------------------------------------------------------------
\* _resolve: the first look at the row, then at the file.
Resolves(r) ==
    /\ slotResolving(r, "start")
    /\ slot' = IF slot.row # 0 THEN slotReturns(slot, r, slot.row) ELSE slotGoes(slot, r, "access", 0)

FileLookedUp(r) ==
    /\ slotResolving(r, "access")
    /\ slot' = slotGoes(slot, r, IF slot.file # 0 THEN "load" ELSE "peek", 0)

\* Mutant: the file is renamed before its key is stored.
FileLoaded_renames(r) ==
    /\ slotResolving(r, "load")
    /\ slot.file # 0 \/ slot.made < MaxKey
    /\ slot' = IF slot.file # 0 THEN [slotGoes(slot, r, "import", slot.file) EXCEPT !.backup = slot.file, !.file = 0]
               ELSE slotGoes([slot EXCEPT !.made = @ + 1], r, "save", slot.made + 1)

\* loadOrCreateIdentity: the file may be gone by now, and is then made again.
FileLoaded(r) ==
    /\ slotResolving(r, "load")
    /\ slot.file # 0 \/ slot.made < MaxKey
    /\ slot' = IF slot.file # 0 THEN slotGoes(slot, r, "import", slot.file)
               ELSE slotGoes([slot EXCEPT !.made = @ + 1], r, "save", slot.made + 1)

FileSaved(r) ==
    /\ slotResolving(r, "save")
    /\ slot' = [slotGoes(slot, r, "import", slot.key[r]) EXCEPT !.file = slot.key[r]]

\* importIdentity, which awaits its own look at the row.
ImportPeeked(r) ==
    /\ slotResolving(r, "import")
    /\ slot' = IF slot.row # 0 THEN slotGoes(slot, r, "rename", slot.row) ELSE slotGoes(slot, r, "write", slot.key[r])

Imported(r) ==
    /\ slotResolving(r, "write")
    /\ slot' = [slotGoes(slot, r, "rename", slot.key[r]) EXCEPT !.row = slot.key[r]]

\* A rename that fails is ignored.
FileRenamed(r) ==
    /\ slotResolving(r, "rename")
    /\ slot' = [slotReturns(slot, r, slot.key[r]) EXCEPT !.backup = IF slot.file # 0 THEN slot.file ELSE @, !.file = 0]

\* getOrCreateIdentity, which looks again, makes a key and stores it.
RowPeeked(r) ==
    /\ slotResolving(r, "peek")
    /\ slot.row # 0 \/ slot.made < MaxKey
    /\ slot' = IF slot.row # 0 THEN slotReturns(slot, r, slot.row)
               ELSE slotGoes([slot EXCEPT !.made = @ + 1], r, "create", slot.made + 1)

RowWritten(r) ==
    /\ slotResolving(r, "create")
    /\ slot' = [slotReturns(slot, r, slot.key[r]) EXCEPT !.row = slot.key[r]]

\* The hub crashes and is started again.
HubCrashes ==
    slot' = [slot EXCEPT !.pc = [r \in Resolver |-> "start"], !.key = [r \in Resolver |-> 0]]

SlotNext ==
    \/ \E r \in Resolver :
          \/ Resolves(r)
          \/ FileLookedUp(r)
          \/ FileLoaded(r)
          \/ FileSaved(r)
          \/ ImportPeeked(r)
          \/ Imported(r)
          \/ FileRenamed(r)
          \/ RowPeeked(r)
          \/ RowWritten(r)
    \/ HubCrashes

SlotSpec == SlotInit /\ [][SlotNext]_slot

-----------------------------------------------------------------------------
\* A slot that has an identity of the older build keeps it ("keeping the same principal",
\* runHub.ts): however many connections migrate it at once, and wherever the hub crashes,
\* no other key is stored or handed out.
MigrationKeepsPrincipal ==
    slot.legacy => slot.row \in {0, LegacyKey} /\ slot.got \subseteq {LegacyKey}

\* "so a slot resolves to the same identity ... everywhere" (runHub.ts).
OneIdentityPerSlot == \A a, b \in slot.got : a = b
=============================================================================
