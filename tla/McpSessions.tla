----------------------------- MODULE McpSessions -----------------------------
(***************************************************************************)
(* The session manager of the MCP bridge (linkrpc-mcp,                     *)
(* hub/sessionManager.ts): sessions are opened on demand, one creation     *)
(* after the other, evicted at the capacity limit, and closed by an idle   *)
(* timer, a lifetime timer, a call of close() or dispose().                *)
(*                                                                         *)
(* A key is a session id together with its identity.  With a capacity of   *)
(* one, the session that was used least recently is the only one.          *)
(***************************************************************************)
EXTENDS Naturals, Sequences, FiniteSets

CONSTANTS
    SessionKey,
    SessionUser,   \* the calls of use() and get()
    MaxSessions,   \* options.maxSessions
    MaxSession     \* bound: sessions created

ASSUME SessionsAssumption == {MaxSessions, MaxSession} \subseteq Nat /\ SessionKey # {}

VARIABLE sessions

Session == 1..MaxSession

(***************************************************************************)
(* entry is _entries (0: no entry); of is the key of a session.  state is  *)
(* its promise "opening" and what became of it.  closing are the sessions  *)
(* somebody waits to close.  idle and lifetime are the armed timers.       *)
(* chain are the users in the creation chain, pc is what a user awaits,    *)
(* asks the method it called and its the session it was given.  stray are, *)
(* for the properties, the sessions a get() touched when they were gone.   *)
(***************************************************************************)
SessionsInit ==
    sessions =
        [entry |-> [k \in SessionKey |-> 0], made |-> 0, of |-> << >>,
         state |-> [e \in Session |-> "none"], closing |-> {}, active |-> [e \in Session |-> 0],
         idle |-> {}, lifetime |-> {}, chain |-> << >>, evicting |-> 0,
         pc |-> [u \in SessionUser |-> "idle"], key |-> [u \in SessionUser |-> CHOOSE k \in SessionKey : TRUE],
         its |-> [u \in SessionUser |-> 0], asks |-> [u \in SessionUser |-> "use"], stray |-> {},
         disposed |-> FALSE]

inMap(s) == {e \in 1..s.made : s.entry[s.of[e]] = e}

\* _touch: the idle timer starts over, unless the session is in use.
touched(s, e) == IF s.active[e] > 0 THEN s ELSE [s EXCEPT !.idle = @ \cup {e}]

\* Mutant: a session that is still being opened is dropped without closing it.
closeEntry_opening(s, k) ==
    LET e == s.entry[k]
    IN  IF e = 0 THEN s
        ELSE [s EXCEPT !.entry[k] = 0, !.idle = @ \ {e}, !.lifetime = @ \ {e},
                       !.closing = IF s.state[e] = "opening" THEN @ ELSE @ \cup {e}]

\* _closeEntry, up to its await of the opening.
closeEntry(s, k) ==
    LET e == s.entry[k]
    IN  IF e = 0 THEN s
        ELSE [s EXCEPT !.entry[k] = 0, !.idle = @ \ {e}, !.lifetime = @ \ {e}, !.closing = @ \cup {e}]

-----------------------------------------------------------------------------
(***************************************************************************)
(* use() and get(), and their _getEntry                                    *)
(***************************************************************************)
EntryAsked(u, k, method) ==
    /\ sessions.pc[u] = "idle" /\ ~sessions.disposed
    /\ LET e == sessions.entry[k]
           s == [sessions EXCEPT !.key[u] = k, !.its[u] = e, !.asks[u] = method]
       IN  sessions' = IF e # 0 THEN [touched(s, e) EXCEPT !.pc[u] = "got"]
                       ELSE [s EXCEPT !.pc[u] = "chain", !.chain = Append(@, u)]

\* The head of the chain leaves it, with a session or (0) an error.
leavesChain(s, u, e) ==
    [s EXCEPT !.chain = Tail(@), !.pc[u] = IF e = 0 THEN "idle" ELSE "created", !.its[u] = e, !.evicting = 0]

\* _create
sessionCreated(s, k) ==
    LET e == s.made + 1
    IN  [s EXCEPT !.made = e, !.of = Append(@, k), !.entry[k] = e, !.state[e] = "opening",
                  !.idle = @ \cup {e}, !.lifetime = @ \cup {e}]

\* Mutant: disposal is not looked at again.
createFor_unchecked(s, u) ==
    LET c == sessionCreated(s, s.key[u]) IN leavesChain(c, u, c.made)

createFor(s, u) ==
    IF s.disposed THEN leavesChain(s, u, 0)
    ELSE LET c == sessionCreated(s, s.key[u]) IN leavesChain(c, u, c.made)

\* The first part of the serialized operation: the entry may be there by now, and an
\* old one may have to go.
CreationStarts ==
    /\ sessions.chain # << >> /\ sessions.evicting = 0 /\ sessions.made < MaxSession
    /\ LET u == Head(sessions.chain)
           e == sessions.entry[sessions.key[u]]
       IN  IF e # 0 THEN sessions' = leavesChain(sessions, u, e)
           ELSE IF Cardinality(inMap(sessions)) < MaxSessions THEN sessions' = createFor(sessions, u)
           ELSE \E old \in inMap(sessions) :
                   sessions' = [closeEntry(sessions, sessions.of[old]) EXCEPT !.evicting = old]

\* The evicted session is closed.
CreationResumes ==
    /\ sessions.evicting # 0 /\ sessions.evicting \notin sessions.closing /\ sessions.made < MaxSession
    /\ sessions' = createFor(sessions, Head(sessions.chain))

\* _touch after the creation; the session may be gone again by now.
EntryTouched(u) ==
    /\ sessions.pc[u] = "created"
    /\ LET e == sessions.its[u]
       IN  sessions' = [touched(sessions, e) EXCEPT !.pc[u] = "got",
                            !.stray = IF sessions.asks[u] = "get" /\ e \notin inMap(sessions) THEN @ \cup {e} ELSE @]

\* get() has its session, or the promise of it, and leaves the timer as it is.
GetReturns(u) ==
    /\ sessions.pc[u] = "got" /\ sessions.asks[u] = "get"
    /\ sessions' = [sessions EXCEPT !.pc[u] = "idle", !.its[u] = 0]

OperationBegins(u) ==
    /\ sessions.pc[u] = "got" /\ sessions.asks[u] = "use"
    /\ sessions' = [sessions EXCEPT !.pc[u] = "using", !.active[sessions.its[u]] = @ + 1,
                                    !.idle = @ \ {sessions.its[u]}]

\* Mutant: the idle timer starts over whether or not the session is still there.
OperationEnds_touches(u) ==
    /\ sessions.pc[u] = "using" /\ sessions.state[sessions.its[u]] # "opening"
    /\ LET e == sessions.its[u]
       IN  sessions' = touched([sessions EXCEPT !.pc[u] = "idle", !.active[e] = @ - 1, !.its[u] = 0], e)

\* The operation is over, or the session could not be opened.
OperationEnds(u) ==
    /\ sessions.pc[u] = "using" /\ sessions.state[sessions.its[u]] # "opening"
    /\ LET e == sessions.its[u]
           s == [sessions EXCEPT !.pc[u] = "idle", !.active[e] = @ - 1, !.its[u] = 0]
       IN  sessions' = IF e \in inMap(s) THEN touched(s, e) ELSE s

(***************************************************************************)
(* The life of a session                                                   *)
(***************************************************************************)
SessionOpens(e) ==
    /\ sessions.state[e] = "opening"
    /\ sessions' = [sessions EXCEPT !.state[e] = "open"]

\* The opening is rejected: a session that is in the map goes, with its timers.
OpeningFails(e) ==
    /\ sessions.state[e] = "opening"
    /\ LET s == [sessions EXCEPT !.state[e] = "failed"]
       IN  sessions' = IF e \in inMap(s)
                       THEN [s EXCEPT !.entry[s.of[e]] = 0, !.idle = @ \ {e}, !.lifetime = @ \ {e}]
                       ELSE s

\* The rest of _closeEntry, once the opening is settled.
SessionClosed(e) ==
    /\ e \in sessions.closing /\ sessions.state[e] # "opening"
    /\ sessions' = [sessions EXCEPT !.closing = @ \ {e},
                                    !.state[e] = IF @ = "open" THEN "closed" ELSE @]

\* Timers fire between the events, when no user is between two steps of use() or get().
usersAtRest == \A u \in SessionUser : sessions.pc[u] \notin {"created", "got"}

IdleTimerFires(e) ==
    /\ e \in sessions.idle /\ usersAtRest
    /\ sessions' = closeEntry([sessions EXCEPT !.idle = @ \ {e}], sessions.of[e])

LifetimeTimerFires(e) ==
    /\ e \in sessions.lifetime /\ usersAtRest
    /\ sessions' = closeEntry([sessions EXCEPT !.lifetime = @ \ {e}], sessions.of[e])

\* close(); closeIdentity() is several of them.
SessionCloseCalled(k) ==
    /\ sessions.entry[k] # 0
    /\ sessions' = closeEntry(sessions, k)

SessionsDispose ==
    /\ ~sessions.disposed
    /\ LET gone == inMap(sessions)
       IN  sessions' = [sessions EXCEPT
              !.disposed = TRUE, !.entry = [k \in SessionKey |-> 0], !.closing = @ \cup gone,
              !.idle = @ \ gone, !.lifetime = @ \ gone]

SessionsNext ==
    \/ CreationStarts
    \/ CreationResumes
    \/ \E u \in SessionUser :
          \/ \E k \in SessionKey, method \in {"use", "get"} : EntryAsked(u, k, method)
          \/ EntryTouched(u) \/ GetReturns(u) \/ OperationBegins(u) \/ OperationEnds(u)
    \/ \E e \in Session :
          \/ SessionOpens(e) \/ OpeningFails(e) \/ SessionClosed(e)
          \/ IdleTimerFires(e) \/ LifetimeTimerFires(e)
    \/ \E k \in SessionKey : SessionCloseCalled(k)
    \/ SessionsDispose

SessionsSpec == SessionsInit /\ [][SessionsNext]_sessions

-----------------------------------------------------------------------------
\* No session is leaked: one that is open is in the map or about to be closed,
\* whichever of the timers, evictions and calls took it from the map, and also when
\* that happened while it was being opened.
NoSessionLeak ==
    \A e \in 1..sessions.made : sessions.state[e] = "open" => e \in inMap(sessions) \cup sessions.closing

\* The capacity holds, and nothing is opened for a manager that is disposed.
SessionBounds ==
    /\ Cardinality(inMap(sessions)) <= MaxSessions
    /\ sessions.disposed => inMap(sessions) = {}

\* The timers close by key.  When one can fire, its session is the one in the map, not a
\* predecessor whose timer would close its successor, and the idle timer is not armed for a
\* session in use.  The exception is get(), which begins no operation: it leaves the idle
\* timer armed of a session that went before get() could touch it.
TimersOfSessions ==
    usersAtRest =>
        /\ sessions.lifetime \subseteq inMap(sessions)
        /\ sessions.idle \subseteq inMap(sessions) \cup sessions.stray
        /\ \A e \in sessions.idle : sessions.active[e] = 0

\* Sessions are opened within bounds and closed for good, by the timers that are theirs or,
\* after a get() of a session that was gone, by its.
SessionsAreContained == NoSessionLeak /\ SessionBounds /\ TimersOfSessions
=============================================================================
