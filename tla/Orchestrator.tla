---------------------------- MODULE Orchestrator ----------------------------
(***************************************************************************)
(* The orchestrator (internal/orchestrator): it starts the agents, routes  *)
(* work to them, runs a prompt on one agent or on all of them, or a graph  *)
(* of tasks in layers (module DAG) with a git worktree for each agent that *)
(* tasks are assigned to (module Workspace), adds up what the calls cost,  *)
(* and stops the agents.  An agent's call is one step, taken at any time   *)
(* after it is asked.  If it succeeds and was made through the guard,      *)
(* which prices its result, it costs 1.                                    *)
(***************************************************************************)
EXTENDS DAG, Workspace

CONSTANTS NoAgent,  \* nobody: a task's worktree or agent
          Judge,    \* the agent that judges the answers of a consensus
          Matches,  \* how many of a task's tags an agent has: [Ids -> [Agents -> Nat]]
          Price,    \* the profiled agents' price
          Setups    \* what is asked of the orchestrator, and how it is configured

ASSUME OrchestratorAssumption ==
    /\ IsFiniteSet(Agents)
    /\ NoAgent \notin Agents /\ Judge \notin Agents \cup {NoAgent}
    /\ Known = Work
    /\ Matches \in [Ids -> [Agents -> Nat]]
    /\ \A s \in Setups : s.assigned \in [Known -> Agents \cup {NoAgent}]

VARIABLES setup,    \* entry (Run or RunWithTasks), strategy, graph, assigned
                    \* agents, and whether there are a repository and a judge
          op,       \* where the call into the orchestrator is
          up,       \* agents that are started and not stopped
          todo,     \* agents the current loop has still to visit
          agentOf,  \* DAGNode.Agent
          workDir,  \* Task.WorkDir: whose worktree, NoAgent for the main directory
          made,     \* tasks that left changes behind
          answer,   \* runSingle, runConsensus: what each agent answered
          final     \* TotalCost of the FinalResult, -1 without one

controlVars == <<setup, op, up, todo, final>>
orchestratorVars == <<controlVars, agentOf, workDir, made, answer>>
allVars == <<vars, workspaceVars, orchestratorVars>>

\* New and RegisterAgent: the agents are known, and not started yet.  A merge
\* that conflicted may have been left in the repository before.
OrchestratorInit ==
    /\ setup \in Setups
    /\ dependsOn = setup.graph /\ noAgent = {} /\ Init
    /\ WorkspaceInit
    /\ op = "starting" /\ up = {} /\ todo = Agents
    /\ agentOf = [i \in Known |-> NoAgent]
    /\ workDir = [i \in Known |-> NoAgent]
    /\ made = {}
    /\ answer = [a \in Agents \cup {Judge} |-> "none"]
    /\ final = -1

-----------------------------------------------------------------------------
(* Start.  The agents that were started are stopped again if one fails.    *)

StartAgent(a) ==
    /\ op = "starting" /\ a \in todo
    /\ up' = up \cup {a}
    /\ todo' = todo \ {a}
    /\ op' = IF todo' = {} THEN "ready" ELSE op
    /\ UNCHANGED <<vars, workspaceVars, setup, agentOf, workDir, made, answer, final>>

StartFails(a) ==
    /\ op = "starting" /\ a \in todo
    /\ up' = {} /\ todo' = {}
    /\ op' = "exited"
    /\ UNCHANGED <<vars, workspaceVars, setup, agentOf, workDir, made, answer, final>>

-----------------------------------------------------------------------------
(* Routing.  Nothing else runs on the agents yet: all that are up are idle.  *)

Best(i) == {a \in up : \A b \in up : Matches[i][b] <= Matches[i][a]}

Cheapest ==
    {a \in up \cap DOMAIN Price : \A b \in up \cap DOMAIN Price : Price[a] <= Price[b]}

\* Route: the agents it may return, for the code iterates over a map.
Route(i) ==
    CASE setup.strategy = "consensus"  -> {}
      [] setup.strategy = "cost_first" -> IF Cheapest = {} THEN up ELSE Cheapest
      [] OTHER -> Best(i)

-----------------------------------------------------------------------------
(* RunWithTasks                                                            *)

\* The budget is spent already.
RefuseTasks ==
    /\ op = "ready" /\ setup.entry = "RunWithTasks"
    /\ op' = "exited"
    /\ UNCHANGED <<vars, workspaceVars, setup, up, todo, agentOf, workDir, made, answer, final>>

BeginTasks ==
    /\ op = "ready" /\ setup.entry = "RunWithTasks"
    /\ op' = "setup"
    /\ todo' = IF setup.git THEN {setup.assigned[i] : i \in Known} \ {NoAgent} ELSE {}
    /\ UNCHANGED <<vars, workspaceVars, setup, up, agentOf, workDir, made, answer, final>>

\* (Variant) Every task of an agent is given the agent's worktree.
SetupWorktreeForAll(i) ==
    /\ op = "setup" /\ setup.assigned[i] \in todo
    /\ todo' = todo \ {setup.assigned[i]}
    /\ \/ /\ CreateWorktree(setup.assigned[i])
          /\ workDir' = [j \in Known |-> IF setup.assigned[j] = setup.assigned[i]
                                         THEN setup.assigned[i] ELSE workDir[j]]
       \/ UNCHANGED <<workspaceVars, workDir>>
    /\ UNCHANGED <<vars, setup, op, up, agentOf, made, answer, final>>

\* The first of an agent's tasks is given the agent's worktree; it and the
\* agent's other tasks work in the main directory if that cannot be made.
SetupWorktree(i) ==
    /\ op = "setup" /\ setup.assigned[i] \in todo
    /\ todo' = todo \ {setup.assigned[i]}
    /\ \/ /\ CreateWorktree(setup.assigned[i])
          /\ workDir' = [workDir EXCEPT ![i] = setup.assigned[i]]
       \/ UNCHANGED <<workspaceVars, workDir>>
    /\ UNCHANGED <<vars, setup, op, up, agentOf, made, answer, final>>

\* Build, its first loop.  The assigned agents play no part in it.
RouteTasks ==
    /\ op = "setup" /\ todo = {}
    /\ op' = "dag"
    /\ noAgent' = {i \in Known : Route(i) = {}}
    /\ agentOf' \in {f \in [Known -> Agents \cup {NoAgent}] :
                        \A i \in Known : IF Route(i) = {} THEN f[i] = NoAgent ELSE f[i] \in Route(i)}
    /\ UNCHANGED <<dependsOn, phase, buildVars, layer, run, blank, injected, results, cancelled,
                   workspaceVars, setup, up, todo, workDir, made, answer, final>>

\* The rest of Build, and Execute.
Step == op = "dag" /\ Caller /\ UNCHANGED <<workspaceVars, orchestratorVars>>

\* An agent's call for a task ends, well or not, and leaves changes or none.
TaskReturns(i) ==
    /\ AgentReturns(i)
    /\ \/ UNCHANGED <<workspaceVars, made>>
       \/ /\ setup.git
          /\ made' = made \cup {i}
          /\ IF workDir[i] = NoAgent THEN LeaveWorkInMain(i) ELSE LeaveWork(workDir[i], i)
    /\ UNCHANGED <<controlVars, agentOf, workDir, answer>>

TaskBroadcasts(i) == Broadcast(i) /\ UNCHANGED <<workspaceVars, orchestratorVars>>

\* Build or Execute has returned; MergeResults adds the results up.  Without a
\* result the command exits, and nobody stops the agents.
ReturnTasks ==
    /\ op = "dag" /\ phase \in {"rejected", "ok", "error"}
    /\ final' = IF phase = "ok" THEN Cardinality(results) ELSE -1
    /\ op' = IF setup.git THEN "merging" ELSE IF phase = "ok" THEN "over" ELSE "exited"
    /\ todo' = trees
    /\ UNCHANGED <<vars, workspaceVars, setup, up, agentOf, workDir, made, answer>>

\* The deferred MergeAll and Cleanup.
MergeOne(a) ==
    /\ op = "merging" /\ a \in todo
    /\ todo' = todo \ {a}
    /\ MergeWorktree(a)
    /\ UNCHANGED <<vars, setup, op, up, agentOf, workDir, made, answer, final>>

CleanWorktrees ==
    /\ op = "merging" /\ todo = {}
    /\ Cleanup
    /\ op' = IF final >= 0 THEN "over" ELSE "exited"
    /\ UNCHANGED <<vars, setup, up, todo, agentOf, workDir, made, answer, final>>

-----------------------------------------------------------------------------
(* Run: runSingle and runConsensus                                         *)

\* Either asks the agents of a set, or returns an error if it is empty.
Ask(agents) ==
    /\ op' = IF agents = {} THEN "exited" ELSE "asked"
    /\ answer' = [a \in DOMAIN answer |-> IF a \in agents THEN "asked" ELSE "none"]
    /\ UNCHANGED <<vars, workspaceVars, setup, up, todo, agentOf, workDir, made, final>>

RunSingle ==
    /\ op = "ready" /\ setup.entry = "Run" /\ setup.strategy # "consensus"
    /\ \/ \E i \in Known : \E a \in Route(i) : Ask({a})
       \/ up = {} /\ Ask({})

RunConsensus ==
    /\ op = "ready" /\ setup.entry = "Run" /\ setup.strategy = "consensus"
    /\ Ask(up)

Answers(a) ==
    /\ answer[a] = "asked"
    /\ \E reply \in {"ok", "failed"} : answer' = [answer EXCEPT ![a] = reply]
    /\ UNCHANGED <<vars, workspaceVars, controlVars, agentOf, workDir, made>>

Answered == {a \in Agents : answer[a] = "ok"}

\* (Variant) An errgroup's first error ends the consensus.
CollectAnswersOrFail ==
    /\ op = "asked" /\ \A a \in Agents : answer[a] # "asked"
    /\ LET failed == \E a \in Agents : answer[a] = "failed"
           judged == setup.judge /\ Cardinality(Answered) > 1
       IN
       /\ op' = IF failed THEN "exited" ELSE IF judged THEN "judging" ELSE "over"
       /\ answer' = IF judged /\ ~failed THEN [answer EXCEPT ![Judge] = "asked"] ELSE answer
       /\ final' = IF failed \/ judged THEN -1 ELSE Cardinality(Answered)
    /\ UNCHANGED <<vars, workspaceVars, setup, up, todo, agentOf, workDir, made>>

\* Every agent asked has answered (GuardedParallelExecute waits for all).  No
\* success is an error; several are given to the judge, if there is one; else
\* BestOf takes the only answer or the longest.
CollectAnswers ==
    /\ op = "asked" /\ \A a \in Agents : answer[a] # "asked"
    /\ LET none == Answered = {}
           judged == setup.judge /\ Cardinality(Answered) > 1
       IN
       /\ op' = IF none THEN "exited" ELSE IF judged THEN "judging" ELSE "over"
       /\ answer' = IF judged THEN [answer EXCEPT ![Judge] = "asked"] ELSE answer
       /\ final' = IF none \/ judged THEN -1 ELSE Cardinality(Answered)
    /\ UNCHANGED <<vars, workspaceVars, setup, up, todo, agentOf, workDir, made>>

\* judgeResults: the first answer is taken if the judge fails.  The judge is called
\* past the guard, so that nobody prices its answer: the result.Cost added is 0.
JudgeReturns ==
    /\ op = "judging" /\ answer[Judge] # "asked"
    /\ op' = "over"
    /\ final' = Cardinality(Answered)
    /\ UNCHANGED <<vars, workspaceVars, setup, up, todo, agentOf, workDir, made, answer>>

-----------------------------------------------------------------------------
\* Stop, deferred by the command: every agent, one by one, then the worktrees.
Stop ==
    /\ op = "over"
    /\ op' = "stopped"
    /\ up' = {}
    /\ Cleanup
    /\ UNCHANGED <<vars, setup, todo, agentOf, workDir, made, answer, final>>

Main ==
    \/ \E a \in Agents : StartAgent(a) \/ StartFails(a)
    \/ RefuseTasks \/ BeginTasks
    \/ \E i \in Known : SetupWorktree(i)
    \/ RouteTasks \/ Step \/ ReturnTasks
    \/ \E a \in Agents : MergeOne(a)
    \/ CleanWorktrees
    \/ RunSingle \/ RunConsensus \/ CollectAnswers \/ JudgeReturns
    \/ Stop

OrchestratorNext ==
    \/ Main
    \/ \E i \in Known : TaskReturns(i) \/ TaskBroadcasts(i)
    \/ \E a \in DOMAIN answer : Answers(a)

\* The orchestrator's own steps are taken, a message is broadcast, and a call
\* whose context is cancelled ends; other calls may last for ever.
OrchestratorSpec ==
    /\ OrchestratorInit /\ [][OrchestratorNext]_allVars
    /\ WF_allVars(Main)
    /\ \A i \in Known : WF_allVars(TaskBroadcasts(i)) /\ WF_allVars(cancelled /\ TaskReturns(i))

-----------------------------------------------------------------------------
\* When a run has returned, the changes of each of its tasks are in the main
\* directory, or a failed commit or merge was logged for the worktree they were
\* in: Cleanup deletes nothing that was silently left out.  A conflict that
\* makes git refuse all later merges is logged for each of them.
LostWorkWasReported ==
    op \in {"over", "exited", "stopped"} =>
        \A i \in made : i \in main \/ (workDir[i] # NoAgent /\ workDir[i] \in reported)

\* A task that runs in a worktree has it to itself, and the worktree is not
\* removed while it runs.
WorktreeIsOwn ==
    \A i \in Known : run[i] = "running" /\ workDir[i] # NoAgent =>
        /\ workDir[i] \in trees
        /\ \A j \in Known : run[j] = "running" /\ workDir[j] = workDir[i] => j = i

\* Calls through the guard that succeeded, and cost money.
Paid == Cardinality({i \in Known : run[i] \in {"sent", "ok"}}) + Cardinality(Answered)

\* A result's total is the cost of every call the guard made for it, the unused
\* answers' included and whether or not the judge failed; and a prompt that any
\* agent answered has a result, however many of the others failed.
FinalAccountsForAll ==
    op \in {"over", "exited", "stopped"} =>
        /\ final >= 0 => final = Paid
        /\ final < 0 /\ setup.entry = "Run" => Paid = 0

=============================================================================
