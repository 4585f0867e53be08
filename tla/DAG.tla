--------------------------------- MODULE DAG ---------------------------------
(***************************************************************************)
(* The DAG executor (internal/orchestrator/dag.go).  Build sorts the tasks *)
(* into layers (Kahn's algorithm); Execute runs one layer after another,   *)
(* the tasks of a layer in parallel goroutines of one errgroup, and feeds  *)
(* the results of finished layers into the prompts of later ones.          *)
(*                                                                         *)
(* Build is one goroutine: its step is one iteration of its outer loop.    *)
(* In Execute the launching loop and the launched goroutines interleave.   *)
(***************************************************************************)
EXTENDS Integers, Sequences, FiniteSets

CONSTANTS Tasks,    \* the tasks submitted
          Ids,      \* task identifiers, those of missing tasks included
          IdOf,     \* Task.ID
          NodeOf,   \* the last task submitted with an identifier: dag.nodes
          Graphs    \* the dependencies the tasks may have: [Tasks -> SUBSET Ids]

Known == {IdOf[t] : t \in Tasks}

ASSUME DAGAssumption ==
    /\ IsFiniteSet(Tasks)
    /\ IdOf \in [Tasks -> Ids]
    /\ NodeOf \in [Known -> Tasks]
    /\ \A i \in Known : IdOf[NodeOf[i]] = i
    /\ Graphs \subseteq [Tasks -> SUBSET Ids]
    /\ \A g \in Graphs, t \in Tasks : IsFiniteSet(g[t])

VARIABLES dependsOn,  \* Task.DependsOn
          noAgent,    \* tasks the router found no agent for
          phase,      \* what the calling goroutine is doing
          inDegree,   \* Build: dependencies not yet sorted
          queue,      \* Build: the layer being formed
          order,      \* dag.order
          layer,      \* Execute: the layer being run, 0 before the first
          run,        \* Execute: the state of each task
          blank,      \* tasks whose agent returned a result without content
          injected,   \* dependencies whose results are in the task's prompt
          results,    \* tasks with an entry in the results map
          cancelled   \* the context of the current errgroup is done

buildVars == <<inDegree, queue, order>>
graphVars == <<dependsOn, noAgent>>
vars == <<graphVars, phase, buildVars, layer, run, blank, injected, results, cancelled>>

DepsOf(i) == dependsOn[NodeOf[i]]

\* Entries of adjList that lead from the tasks of a set to i.  A task that
\* shares its identifier with a later one still has its edges here.
EdgesTo(i, from) ==
    {e \in from \X Tasks : IdOf[e[2]] = i /\ e[1] \in dependsOn[e[2]]}

Init ==
    /\ dependsOn \in Graphs
    /\ noAgent \in SUBSET Known
    /\ phase = "build"
    /\ inDegree = [i \in Known |-> Cardinality(DepsOf(i))]
    /\ queue = {i \in Known : DepsOf(i) = {}}
    /\ order = <<>>
    /\ layer = 0
    /\ run = [i \in Known |-> "waiting"]
    /\ blank = {}
    /\ injected = [i \in Known |-> {}]
    /\ results = {}
    /\ cancelled = FALSE

-----------------------------------------------------------------------------
(* Build                                                                   *)

\* Take the queue as a layer and count its edges down.  A task is queued when
\* its count reaches 0, which happens once.
SortLayer ==
    /\ phase = "build" /\ queue # {}
    /\ LET left == [i \in Known |-> Cardinality(EdgesTo(i, queue))] IN
       /\ inDegree' = [i \in Known |-> inDegree[i] - left[i]]
       /\ queue' = {i \in Known : inDegree[i] > 0 /\ left[i] >= inDegree[i]}
    /\ order' = Append(order, queue)
    /\ UNCHANGED <<graphVars, blank, phase, layer, run, injected, results, cancelled>>

Sorted == UNION {order[k] : k \in DOMAIN order}

\* Tasks are left over: a cycle, or a dependency that does not exist.
RejectGraph ==
    /\ phase = "build" /\ queue = {} /\ Sorted # Known
    /\ phase' = "rejected"
    /\ UNCHANGED <<graphVars, blank, buildVars, layer, run, injected, results, cancelled>>

\* (Variant) Nobody looks whether every task was sorted.
BuiltUnchecked ==
    /\ phase = "build" /\ queue = {}
    /\ phase' = "next"
    /\ UNCHANGED <<graphVars, blank, buildVars, layer, run, injected, results, cancelled>>

Built ==
    /\ phase = "build" /\ queue = {} /\ Sorted = Known
    /\ phase' = "next"
    /\ UNCHANGED <<graphVars, blank, buildVars, layer, run, injected, results, cancelled>>

-----------------------------------------------------------------------------
(* Execute                                                                 *)

\* Enter the next layer: inject results into its prompts, make its errgroup.
EnterLayer ==
    /\ phase = "next" /\ layer < Len(order)
    /\ layer' = layer + 1
    /\ injected' = [i \in Known |-> IF i \in order[layer + 1]
                                    THEN (DepsOf(i) \cap results) \ blank ELSE injected[i]]
    /\ cancelled' = FALSE
    /\ phase' = "launch"
    /\ UNCHANGED <<graphVars, blank, buildVars, run, results>>

Succeed ==
    /\ phase = "next" /\ layer = Len(order)
    /\ phase' = "ok"
    /\ UNCHANGED <<graphVars, blank, buildVars, layer, run, injected, results, cancelled>>

Unlaunched == {i \in order[layer] : run[i] = "waiting"}

\* (Variant) A task of the layer that has failed is tried again.
LaunchRetries(i) ==
    /\ phase = "launch" /\ i \in order[layer]
    /\ run[i] \in {"waiting", "failed"} /\ i \notin noAgent
    /\ run' = [run EXCEPT ![i] = "running"]
    /\ UNCHANGED <<graphVars, blank, phase, buildVars, layer, injected, results, cancelled>>

\* g.Go: the task's goroutine starts, even if a sibling failed already.
Launch(i) ==
    /\ phase = "launch" /\ i \in Unlaunched
    /\ i \notin noAgent
    /\ run' = [run EXCEPT ![i] = "running"]
    /\ UNCHANGED <<graphVars, blank, phase, buildVars, layer, injected, results, cancelled>>

\* A task without an agent makes Execute return at once: no g.Wait, and the
\* group's context stays alive.
LaunchFails(i) ==
    /\ phase = "launch" /\ i \in Unlaunched
    /\ i \in noAgent
    /\ phase' = "error"
    /\ UNCHANGED <<graphVars, blank, buildVars, layer, run, injected, results, cancelled>>

\* A goroutine's guard.Execute returns a result, which it sends ...
TaskSucceeds(i) ==
    /\ run[i] = "running"
    /\ run' = [run EXCEPT ![i] = "sent"]
    /\ blank' \in {blank, blank \cup {i}}
    /\ UNCHANGED <<graphVars, phase, buildVars, layer, injected, results, cancelled>>

\* ... then it broadcasts the result and ends.
Broadcast(i) ==
    /\ run[i] = "sent"
    /\ run' = [run EXCEPT ![i] = "ok"]
    /\ UNCHANGED <<graphVars, blank, phase, buildVars, layer, injected, results, cancelled>>

\* (Variant) A plain wait group: nobody is cancelled.
TaskFailsAlone(i) ==
    /\ run[i] = "running"
    /\ run' = [run EXCEPT ![i] = "failed"]
    /\ UNCHANGED <<graphVars, blank, phase, buildVars, layer, injected, results, cancelled>>

\* guard.Execute returns an error: the errgroup cancels its context.
TaskFails(i) ==
    /\ run[i] = "running"
    /\ run' = [run EXCEPT ![i] = "failed"]
    /\ cancelled' = TRUE
    /\ UNCHANGED <<graphVars, blank, phase, buildVars, layer, injected, results>>

\* (Variants) The first error is not waited out; or only the last layer's
\* results are kept.
CollectAtOnce ==
    /\ phase = "launch" /\ Unlaunched = {}
    /\ \/ \E i \in order[layer] : run[i] = "failed"
       \/ \A i \in order[layer] : run[i] = "ok"
    /\ results' = results \cup {i \in order[layer] : run[i] = "ok"}
    /\ phase' = IF \E i \in order[layer] : run[i] = "failed" THEN "error" ELSE "next"
    /\ UNCHANGED <<graphVars, blank, buildVars, layer, run, injected, cancelled>>
CollectForgets ==
    /\ phase = "launch" /\ Unlaunched = {}
    /\ \A i \in order[layer] : run[i] \in {"ok", "failed"}
    /\ results' = {i \in order[layer] : run[i] = "ok"}
    /\ phase' = IF \E i \in order[layer] : run[i] = "failed" THEN "error" ELSE "next"
    /\ UNCHANGED <<graphVars, blank, buildVars, layer, run, injected, cancelled>>

\* g.Wait returns when every task was launched and every goroutine ended; the
\* results are collected, and the first error ends Execute.
Collect ==
    /\ phase = "launch" /\ Unlaunched = {}
    /\ \A i \in order[layer] : run[i] \in {"ok", "failed"}
    /\ results' = results \cup {i \in order[layer] : run[i] = "ok"}
    /\ phase' = IF \E i \in order[layer] : run[i] = "failed" THEN "error" ELSE "next"
    /\ UNCHANGED <<graphVars, blank, buildVars, layer, run, injected, cancelled>>

-----------------------------------------------------------------------------
Caller ==
    \/ SortLayer \/ RejectGraph \/ Built \/ EnterLayer \/ Succeed
    \/ (\E i \in Known : Launch(i) \/ LaunchFails(i)) \/ Collect

AgentReturns(i) == TaskSucceeds(i) \/ TaskFails(i)

Next == Caller \/ \E i \in Known : AgentReturns(i) \/ Broadcast(i)

SafeSpec == Init /\ [][Next]_vars

\* Goroutines that can go on do.  An agent may run for ever, unless its context
\* is cancelled.
Spec ==
    /\ SafeSpec
    /\ WF_vars(Caller)
    /\ \A i \in Known : WF_vars(Broadcast(i)) /\ WF_vars(cancelled /\ AgentReturns(i))

-----------------------------------------------------------------------------
TypeOK ==
    /\ dependsOn \in [Tasks -> SUBSET Ids]
    /\ noAgent \subseteq Known
    /\ phase \in {"build", "rejected", "next", "launch", "ok", "error"}
    /\ inDegree \in [Known -> Int]
    /\ queue \subseteq Known
    /\ order \in Seq(SUBSET Known)
    /\ layer \in 0..Len(order)
    /\ run \in [Known -> {"waiting", "running", "sent", "ok", "failed"}]
    /\ blank \subseteq Known
    /\ injected \in [Known -> SUBSET Ids]
    /\ results \subseteq Known
    /\ cancelled \in BOOLEAN

\* Every set of tasks has one that depends on none of them, and every
\* dependency exists: the graph can be executed.
Executable ==
    /\ \A i \in Known : DepsOf(i) \subseteq Known
    /\ \A S \in (SUBSET Known) \ {{}} : \E i \in S : DepsOf(i) \cap S = {}

\* Build accepts the executable graphs and rejects the others, and its layers are
\* as early as they can be: each task depends on one of the layer before its
\* own, and none is in two layers.
BuildIsExact ==
    /\ phase = "rejected" => ~Executable
    /\ phase \notin {"build", "rejected"} => Executable
    /\ \A k \in DOMAIN order : \A i \in order[k] :
          /\ k > 1 => DepsOf(i) \cap order[k - 1] # {}
          /\ \A m \in DOMAIN order : i \in order[m] => m = k

\* The prompt of a task that was started holds the result of every task it
\* depends on, from whatever layer, unless that result is empty.
ContextIsComplete ==
    \A i \in Known : run[i] # "waiting" => injected[i] = DepsOf(i) \ blank

\* Execute leaves no goroutine behind, provided that the router found an agent
\* for every task or for none.
ReturnsQuiet ==
    phase \in {"ok", "error"} /\ noAgent \in {{}, Known} =>
        \A i \in Known : run[i] \notin {"running", "sent"}

\* A failed task ends Execute, though its siblings would run for ever if their
\* context were not cancelled.
FailureEndsExecute == (\E i \in Known : run[i] = "failed") ~> phase = "error"

\* Execute implements the order that dependencies promise.
Order == INSTANCE DependencyOrder WITH
    deps <- [i \in Known |-> DepsOf(i)],
    st   <- [i \in Known |-> IF run[i] = "sent" THEN "ok" ELSE run[i]]

ImplementsOrder == Order!Spec

=============================================================================
