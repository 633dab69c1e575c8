--------------------------- MODULE ForwardingTable ---------------------------
(***************************************************************************)
(* The hub's longest-prefix routing table                                  *)
(* (linkrpc-hub, hub/server/routing/forwardingTable.ts).                   *)
(*                                                                         *)
(* A service id "a/b/c" is the sequence of its segments <<a, b, c>>.  The  *)
(* table keeps two maps: _entries (prefix -> owner) and the reverse index  *)
(* _prefixesByValue (owner -> its prefixes), which deleteByValue trusts    *)
(* instead of scanning.  The operators below are functions on a table      *)
(* value, so that the hub's actions can apply several of them in one step. *)
(***************************************************************************)
EXTENDS Naturals, Sequences

CONSTANTS
    ServiceId,   \* the non-root service ids of the instance
    Link,       \* the owners a prefix can be bound to (the hub's links)
    None         \* an unclaimed prefix (a Map without that key)

\* Service ids are non-empty sequences, and every ancestor of one is one as well.
ASSUME ServiceIdAssumption ==
    \A s \in ServiceId :
        /\ s \in Seq({s[i] : i \in 1..Len(s)})
        /\ Len(s) \in Nat \ {0}
        /\ \A k \in 1..Len(s) : SubSeq(s, 1, k) \in ServiceId

ASSUME NoneAssumption == None \notin Link

VARIABLE table

(***************************************************************************)
(* The two maps.  A key that a Map does not hold is None in entries and    *)
(* the empty set in byValue (_dropFromIndex removes an emptied set).       *)
(***************************************************************************)
TableType ==
    [entries : [ServiceId -> Link \cup {None}],
     byValue : [Link -> SUBSET ServiceId]]

EmptyTable ==
    [entries |-> [p \in ServiceId |-> None],
     byValue |-> [v \in Link |-> {}]]

has(t, prefix) == t.entries[prefix] # None

dropFromIndex(idx, value, prefix) ==
    [idx EXCEPT ![value] = @ \ {prefix}]

\* Mutant: set forgets to take the prefix from the previous owner's index.
setEntry_keepsOldIndex(t, prefix, value) ==
    [entries |-> [t.entries EXCEPT ![prefix] = value],
     byValue |-> [t.byValue EXCEPT ![value] = @ \cup {prefix}]]

\* set: overwrites, and takes the prefix away from the previous owner's index.
setEntry(t, prefix, value) ==
    LET prev == t.entries[prefix]
        idx  == IF prev # None /\ prev # value
                THEN dropFromIndex(t.byValue, prev, prefix)
                ELSE t.byValue
    IN  [entries |-> [t.entries EXCEPT ![prefix] = value],
         byValue |-> [idx EXCEPT ![value] = @ \cup {prefix}]]

delete(t, prefix) ==
    LET value == t.entries[prefix]
    IN  IF value = None
        THEN t
        ELSE [entries |-> [t.entries EXCEPT ![prefix] = None],
              byValue |-> dropFromIndex(t.byValue, value, prefix)]

\* Mutant: only the index is cleared.
deleteByValue_indexOnly(t, value) ==
    [t EXCEPT !.byValue[value] = {}]

\* deleteByValue: removes what the index lists, without scanning the entries.
deleteByValue(t, value) ==
    [entries |-> [p \in ServiceId |->
                    IF p \in t.byValue[value] THEN None ELSE t.entries[p]],
     byValue |-> [t.byValue EXCEPT ![value] = {}]]

(***************************************************************************)
(* The lookup.  longestPrefixMatch is the loop of the code: it tries the   *)
(* id itself, then its ancestors, and stops at the first hit.              *)
(***************************************************************************)
NoMatch == [prefix |-> << >>, value |-> None]

\* Mutant: the loop starts at the parent and misses an exact claim.
longestPrefixMatch_skipsExact(t, serviceId) ==
    LET candidate(k) == SubSeq(serviceId, 1, k)
        walk[k \in 0..Len(serviceId)] ==
            IF k = 0 THEN NoMatch
            ELSE IF t.entries[candidate(k)] # None
                 THEN [prefix |-> candidate(k), value |-> t.entries[candidate(k)]]
                 ELSE walk[k - 1]
    IN  walk[Len(serviceId) - 1]

longestPrefixMatch(t, serviceId) ==
    LET candidate(k) == SubSeq(serviceId, 1, k)
        walk[k \in 0..Len(serviceId)] ==
            IF k = 0 THEN NoMatch
            ELSE IF t.entries[candidate(k)] # None
                 THEN [prefix |-> candidate(k), value |-> t.entries[candidate(k)]]
                 ELSE walk[k - 1]
    IN  walk[Len(serviceId)]

\* The lengths at which serviceId has a claimed ancestor (or is claimed itself).
ClaimedLengths(t, serviceId) ==
    {k \in 1..Len(serviceId) : t.entries[SubSeq(serviceId, 1, k)] # None}

\* The length of the longest of them (a singleton, or empty if nothing is claimed).
LongestClaimed(t, serviceId) ==
    {k \in ClaimedLengths(t, serviceId) :
        \A j \in ClaimedLengths(t, serviceId) : j <= k}

\* What the lookup promises: the owner of the longest claimed ancestor.
OwnerOf(t, serviceId) ==
    IF LongestClaimed(t, serviceId) = {}
    THEN None
    ELSE t.entries[SubSeq(serviceId, 1, CHOOSE k \in LongestClaimed(t, serviceId) : TRUE)]

-----------------------------------------------------------------------------
(***************************************************************************)
(* The table on its own: any sequence of calls, in any order.              *)
(***************************************************************************)
FTInit == table = EmptyTable

SetEntry(p, v) == table' = setEntry(table, p, v)

Delete(p) == table' = delete(table, p)

DeleteByValue(v) == table' = deleteByValue(table, v)

FTNext ==
    \/ \E p \in ServiceId, v \in Link : SetEntry(p, v)
    \/ \E p \in ServiceId : Delete(p)
    \/ \E v \in Link : DeleteByValue(v)

FTSpec == FTInit /\ [][FTNext]_table

-----------------------------------------------------------------------------
\* The table is a pair of total maps over the instance's ids and owners.
FTTypeOK == table \in TableType

\* "Kept in lock-step" (comment on _prefixesByValue): the reverse index of an
\* owner is exactly the set of prefixes whose entry is that owner, whatever
\* overwrites and deletions came before.  deleteByValue relies on it: a missing
\* index entry would leave a route to a detached link behind.
InLockStep(t) ==
    \A v \in Link : t.byValue[v] = {p \in ServiceId : t.entries[p] = v}

IndexInLockStep == InLockStep(table)

\* longestPrefixMatch returns the owner of the longest claimed ancestor of the
\* id (and no other), and that ancestor, in every table.
LookupIsLongest ==
    \A s \in ServiceId :
        LET m == longestPrefixMatch(table, s)
        IN  /\ m.value = OwnerOf(table, s)
            /\ m.value # None =>
                 /\ table.entries[m.prefix] = m.value
                 /\ \A k \in ClaimedLengths(table, s) : k <= Len(m.prefix)
=============================================================================
