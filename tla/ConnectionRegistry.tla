------------------------- MODULE ConnectionRegistry --------------------------
(***************************************************************************)
(* What a connection serves (linkrpc, connection/linkRpcConnection.ts):    *)
(* the registered interfaces of its services, the services' descriptions,  *)
(* the bare prefixes, the inspection interfaces that come and go with the  *)
(* services, and the watchers of its directory.                            *)
(*                                                                         *)
(* A service's inspection interfaces (node, topology, traffic) are one     *)
(* interface here, "inspection".  They are registered by the connection's  *)
(* own host while inspection is enabled, or by a foreign host, in whose    *)
(* presence the own registration fails and is rolled back.                 *)
(***************************************************************************)
EXTENDS Naturals

CONSTANTS
    Service,       \* service ids; Unnamed is the connection's root
    Unnamed,
    Business,      \* interface ids
    Description,
    BarePrefix,
    Nothing        \* no description, no binding, no filter

ASSUME RegistryAssumption ==
    /\ Unnamed \notin Service
    /\ "inspection" \notin Business
    /\ Nothing \notin Service \cup Business \cup {Unnamed, "inspection"}

VARIABLE registry

Interface == Business \cup {"inspection"}

Entry == [service : Service \cup {Unnamed}, iface : Interface]

ServiceEntry(s, i) == [service |-> s, iface |-> i]

(***************************************************************************)
(* entries is _registry, described _serviceDescriptions (which stands for  *)
(* _serviceRootPrincipalSets too), bare _bareBindings, installed the       *)
(* services in _serviceInspectionRegistrations.  watch is a watcher of the *)
(* directory: its filter, its microtask, and what its client listed last.  *)
(***************************************************************************)
RegistryInit ==
    registry = [entries |-> {}, described |-> [s \in Service |-> Nothing],
                bare |-> [p \in BarePrefix |-> Nothing], inspected |-> FALSE, installed |-> {},
                watching |-> FALSE, service |-> Nothing, iface |-> Nothing, pending |-> FALSE,
                listed |-> {}, closed |-> FALSE]

business(g, s) == {e \in g.entries : e.service = s /\ e.iface \in Business}

\* directoryWatcherMatchesEntry
watcherMatches(g, e) == g.service \in {Nothing, e.service} /\ g.iface \in {Nothing, e.iface}

\* The directory's list() under the watcher's filter (listRegisteredInterfaces).
listing(g) ==
    {[entry |-> e, description |-> IF e.service \in Service THEN g.described[e.service] ELSE Nothing] :
     e \in {e \in g.entries : watcherMatches(g, e)}}

\* Mutant: a change of a service's description is not told to those who see other
\* interfaces of that service.
watchersNotified_entryOnly(g, e, described) ==
    [g EXCEPT !.pending = @ \/ (g.watching /\ watcherMatches(g, e))]

\* _notifyDirectoryWatchers
watchersNotified(g, e, described) ==
    [g EXCEPT !.pending = @ \/ (g.watching /\
        \/ watcherMatches(g, e)
        \/ described /\ \E f \in g.entries : f.service = e.service /\ watcherMatches(g, f))]

\* The registrations of the own host for a service.
inspectionAdded(g, s) ==
    watchersNotified([g EXCEPT !.entries = @ \cup {ServiceEntry(s, "inspection")}, !.installed = @ \cup {s}],
                     ServiceEntry(s, "inspection"), FALSE)

\* _removeServiceInspection
inspectionRemoved(g, s) ==
    IF s \notin g.installed THEN g
    ELSE watchersNotified([g EXCEPT !.entries = @ \ {ServiceEntry(s, "inspection")}, !.installed = @ \ {s}],
                          ServiceEntry(s, "inspection"), FALSE)

\* Mutant: the inspection interfaces of a service stay when its last interface goes.
entryDisposed_keepsInspection(g, e) ==
    LET h == watchersNotified([g EXCEPT !.entries = @ \ {e},
                                        !.bare = [p \in BarePrefix |-> IF @[p] = e THEN Nothing ELSE @[p]]],
                              e, FALSE)
    IN  IF e.service = Unnamed \/ business(h, e.service) # {} THEN h
        ELSE [h EXCEPT !.described[e.service] = Nothing]

\* dispose() of a registration.
entryDisposed(g, e) ==
    LET h == watchersNotified([g EXCEPT !.entries = @ \ {e},
                                        !.bare = [p \in BarePrefix |-> IF @[p] = e THEN Nothing ELSE @[p]]],
                              e, FALSE)
    IN  IF e.service = Unnamed \/ business(h, e.service) # {} THEN h
        ELSE [inspectionRemoved(h, e.service) EXCEPT !.described[e.service] = Nothing]

-----------------------------------------------------------------------------
\* Mutant: the rollback leaves the description of the service.
registerUndone_keepsMetadata(g, e, p, wasDescribed) ==
    watchersNotified([g EXCEPT !.entries = @ \ {e}, !.bare = [q \in BarePrefix |-> IF q = p THEN Nothing ELSE @[q]]],
                     e, FALSE)

\* The rollback of _register, when the inspection interfaces cannot be installed.
registerUndone(g, e, p, wasDescribed) ==
    watchersNotified([g EXCEPT
        !.entries = @ \ {e}, !.bare = [q \in BarePrefix |-> IF q = p THEN Nothing ELSE @[q]],
        !.described = [s \in Service |-> IF s = e.service /\ ~wasDescribed THEN Nothing ELSE @[s]]],
        e, FALSE)

\* register: an interface that is new, a prefix that is free, a description that agrees.
Register(e, p, description) ==
    /\ e \notin registry.entries /\ e.iface \in Business
    /\ p # Nothing => registry.bare[p] = Nothing
    /\ description # Nothing => e.service \in Service /\ registry.described[e.service] \in {Nothing, description}
    /\ LET s == e.service
           added == description # Nothing /\ registry.described[s] = Nothing
           g == watchersNotified([registry EXCEPT
                   !.entries = @ \cup {e},
                   !.bare = [q \in BarePrefix |-> IF q = p THEN e ELSE @[q]],
                   !.described = [t \in Service |-> IF added /\ t = s THEN description ELSE @[t]]], e, added)
       IN  registry' =
               IF s = Unnamed \/ ~g.inspected \/ s \in g.installed THEN g
               ELSE IF ServiceEntry(s, "inspection") \in g.entries THEN registerUndone(g, e, p, ~added)
               ELSE inspectionAdded(g, s)

Unregister(e) ==
    /\ e \in registry.entries /\ e.iface \in Business
    /\ registry' = entryDisposed(registry, e)

\* A foreign host exposes a service over this connection, and takes that back.
ForeignExposes(s) ==
    /\ ~registry.closed /\ ServiceEntry(s, "inspection") \notin registry.entries
    /\ registry' = watchersNotified([registry EXCEPT !.entries = @ \cup {ServiceEntry(s, "inspection")}],
                                    ServiceEntry(s, "inspection"), FALSE)

ForeignDisposed(s) ==
    /\ ServiceEntry(s, "inspection") \in registry.entries /\ s \notin registry.installed
    /\ registry' = entryDisposed(registry, ServiceEntry(s, "inspection"))

-----------------------------------------------------------------------------
ownInspection(services) == {ServiceEntry(s, "inspection") : s \in services \cup {Unnamed}}

\* The host registers the interfaces of all these services, and that of the root.
installedAll(g, services) ==
    [g EXCEPT !.entries = @ \cup ownInspection(services), !.installed = @ \cup services,
              !.pending = @ \/ (g.watching /\ \E e \in ownInspection(services) : watcherMatches(g, e))]

\* It removes what it has registered.
removedAll(g) ==
    LET gone == g.entries \cap ownInspection(g.installed)
    IN  [g EXCEPT !.entries = @ \ gone, !.installed = {},
                  !.pending = @ \/ (g.watching /\ \E e \in gone : watcherMatches(g, e))]

servedServices(g) == {s \in Service : business(g, s) # {}}

\* enableInspection; a service exposed by a foreign host makes it fail, and what was
\* installed before that is removed again.
EnableInspection ==
    /\ ~registry.inspected /\ ~registry.closed
    /\ LET served == servedServices(registry)
           taken == {s \in served : ServiceEntry(s, "inspection") \in registry.entries}
       IN  \E first \in SUBSET (served \ taken) :
               registry' = IF taken = {} THEN [installedAll(registry, served) EXCEPT !.inspected = TRUE]
                           ELSE removedAll(installedAll(registry, first))

DisposeInspection ==
    /\ registry.inspected
    /\ registry' = [removedAll(registry) EXCEPT !.inspected = FALSE]

\* close(): inspection ends; the registrations stay with their owners.
CloseRegistry ==
    /\ ~registry.closed
    /\ registry' = [removedAll([registry EXCEPT !.entries =
                        @ \ {ServiceEntry(s, "inspection") : s \in Service \ registry.installed}])
                    EXCEPT !.inspected = FALSE, !.closed = TRUE, !.watching = FALSE, !.pending = FALSE, !.listed = {}]

-----------------------------------------------------------------------------
\* The watch of the directory; its client lists once it is established.
WatchDirectory(s, i) ==
    /\ ~registry.watching /\ ~registry.closed
    /\ registry' = LET g == [registry EXCEPT !.watching = TRUE, !.service = s, !.iface = i]
                   IN  [g EXCEPT !.listed = listing(g)]

\* The microtask: the watcher is told, and its client lists again.
WatcherTold ==
    /\ registry.pending
    /\ registry' = [registry EXCEPT !.pending = FALSE, !.listed = IF registry.watching THEN listing(registry) ELSE @]

WatchAborted ==
    /\ registry.watching
    /\ registry' = [registry EXCEPT !.watching = FALSE, !.pending = FALSE, !.listed = {},
                                    !.service = Nothing, !.iface = Nothing]

RegistryNext ==
    \/ \E e \in Entry, p \in BarePrefix \cup {Nothing}, d \in Description \cup {Nothing} : Register(e, p, d)
    \/ \E e \in Entry : Unregister(e)
    \/ \E s \in Service : ForeignExposes(s) \/ ForeignDisposed(s)
    \/ EnableInspection
    \/ DisposeInspection
    \/ CloseRegistry
    \/ \E s \in Service \cup {Nothing}, i \in Interface \cup {Nothing} : WatchDirectory(s, i)
    \/ WatcherTold
    \/ WatchAborted

RegistrySpec == RegistryInit /\ [][RegistryNext]_registry

-----------------------------------------------------------------------------
\* dispose() tells the watchers that the last interface of a service goes, and drops the
\* description of the service afterwards: those who see only the inspection interface of
\* a foreign host there are not told.
forgotten(g, e) ==
    e.iface = "inspection" /\ e.service \in Service \ g.installed /\ g.described[e.service] = Nothing

\* What a client knows from the rows it has listed, forgotten descriptions aside.
known(g, rows) ==
    {[entry |-> row.entry, description |-> IF forgotten(g, row.entry) THEN Nothing ELSE row.description] :
     row \in rows}

\* A watcher that has nothing pending has seen the directory as it is, under its filter,
\* whichever registration, rollback or change of a description came last; all it may
\* still have is the description of a service that a foreign host inspects and that has
\* none any more.
WatcherIsFresh ==
    registry.watching /\ ~registry.pending => known(registry, registry.listed) = listing(registry)

\* While inspection is enabled exactly the services with an interface of their own are
\* inspected, and never two hosts under one service; else none is.
InspectionFollowsServices ==
    registry.installed = IF registry.inspected THEN servedServices(registry) ELSE {}

\* A description and a bare prefix belong to something that is registered: a refused
\* registration leaves neither behind.
NothingOrphaned ==
    /\ \A s \in Service : registry.described[s] # Nothing => business(registry, s) # {}
    /\ \A p \in BarePrefix : registry.bare[p] # Nothing => registry.bare[p] \in registry.entries

\* What a connection serves, what it shows of it and what it tells its watchers agree,
\* after every sequence of registrations, failed ones included.
RegistryIsConsistent == WatcherIsFresh /\ InspectionFollowsServices /\ NothingOrphaned
=============================================================================
