----------------------------- MODULE RootsQuery -----------------------------
(***************************************************************************)
(* One query of the roots of all participants (linkrpc-hub,                *)
(* hub/server/routing/participantRoots.ts, query()): every link is asked,  *)
(* and the answer is given when all have settled or when the budget is     *)
(* spent.  What comes later is announced by lateAnswers.                   *)
(***************************************************************************)
EXTENDS Naturals

CONSTANT QueriedLink

VARIABLE query

QueryType ==
    [asked   : SUBSET QueriedLink,
     outcome : [QueriedLink -> {"pending", "result", "error"}],
     elapsed : BOOLEAN,                    \* the budget timer has fired
     state   : {"open", "answered", "over"},
     results : SUBSET QueriedLink,
     late    : SUBSET QueriedLink,
     news    : BOOLEAN]                    \* what lateAnswers resolved to

QueryInit ==
    \E links \in SUBSET QueriedLink :
        query = [asked |-> links, outcome |-> [l \in QueriedLink |-> "pending"], elapsed |-> FALSE,
                 state |-> "open", results |-> {}, late |-> {}, news |-> FALSE]

rootsWith(outcome) == {l \in query.asked : query.outcome[l] = outcome}

-----------------------------------------------------------------------------
\* requestOnLink settles; the request has a timeout of its own.
RootAnswers(l, outcome) ==
    /\ l \in rootsWith("pending")
    /\ query' = [query EXCEPT !.outcome[l] = outcome]

BudgetElapses ==
    /\ query.state = "open" /\ ~query.elapsed
    /\ query' = [query EXCEPT !.elapsed = TRUE]

\* The race is over.  The results are read when the continuation runs, which may be
\* after further answers.
QueryAnswered ==
    /\ query.state = "open"
    /\ query.elapsed \/ rootsWith("pending") = {}
    /\ query' = [query EXCEPT !.state = "answered", !.results = rootsWith("result"), !.late = rootsWith("pending")]

\* Mutant: lateAnswers resolves with the first late answer.
LateAnswers_race ==
    /\ query.state = "answered"
    /\ query.late = {} \/ query.late \ rootsWith("pending") # {}
    /\ query' = [query EXCEPT !.state = "over", !.news = query.late \cap rootsWith("result") # {}]

LateAnswers ==
    /\ query.state = "answered"
    /\ query.late \cap rootsWith("pending") = {}
    /\ query' = [query EXCEPT !.state = "over", !.news = query.late \cap rootsWith("result") # {}]

QueryNext ==
    \/ \E l \in QueriedLink, outcome \in {"result", "error"} : RootAnswers(l, outcome)
    \/ BudgetElapses
    \/ QueryAnswered
    \/ LateAnswers

QuerySpec == QueryInit /\ [][QueryNext]_query

-----------------------------------------------------------------------------
\* Whatever the order of answers and budget, a result is in the answer or lateAnswers
\* announces it, so that the caller knows when asking again is worth while.
NoRootMissed ==
    query.state = "over" =>
        /\ rootsWith("result") \subseteq query.results <=> ~query.news
        /\ query.late = {} => rootsWith("result") = query.results
=============================================================================
