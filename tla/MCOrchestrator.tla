--------------------------- MODULE MCOrchestrator ---------------------------
(* A small instance of module Orchestrator for TLC. *)
EXTENDS Orchestrator, TLC

CONSTANTS a, b, c, missing, x, y

\* Tasks named by their identifiers.
MCOwnId == [t \in Tasks |-> t]

\* Every graph on three tasks and one identifier no task has: cycles, self-loops
\* and missing dependencies included.
MCGraphs == [Tasks -> SUBSET Ids]

MCMatches == [i \in Ids |-> (x :> 1) @@ (y :> IF i = b THEN 1 ELSE 0)]
MCPrice == (x :> 2) @@ (y :> 1)

Graph(ofA, ofB, ofC) == (a :> ofA) @@ (b :> ofB) @@ (c :> ofC)
Assigned(toA, toB, toC) == (a :> toA) @@ (b :> toB) @@ (c :> toC)
Nobody == Assigned(NoAgent, NoAgent, NoAgent)

Setup(entry, strategy, graph, assigned, git, judge) ==
    [entry |-> entry, strategy |-> strategy, graph |-> graph, assigned |-> assigned,
     git |-> git, judge |-> judge]

\* Every graph without a repository; with one, two parallel tasks and a third
\* that depends on one or both, or a cycle, and tasks of two agents, of one or of
\* none; and prompts.
MCSetups ==
    {Setup("RunWithTasks", "best_fit", g, Nobody, FALSE, FALSE) : g \in MCGraphs}
    \cup {Setup("RunWithTasks", "best_fit", g, assigned, TRUE, FALSE) :
             g \in {Graph({}, {}, {a, b}), Graph({}, {}, {b}), Graph({}, {}, {c})},
             assigned \in {Assigned(x, y, y), Assigned(x, x, NoAgent)}}
    \cup {Setup("RunWithTasks", strategy, Graph({}, {}, {}), Nobody, FALSE, FALSE) :
             strategy \in {"cost_first", "consensus"}}
    \cup {Setup("Run", strategy, Graph({}, {}, {}), Nobody, FALSE, judge) :
             strategy \in {"best_fit", "cost_first", "consensus"}, judge \in BOOLEAN}

=============================================================================
