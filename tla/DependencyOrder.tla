--------------------------- MODULE DependencyOrder ---------------------------
(***************************************************************************)
(* What executing tasks with dependencies promises, whatever the schedule: *)
(* a task starts at most once, and only when everything it depends on has  *)
(* succeeded; a started task ends once.  DAG and TaskPool implement this.  *)
(***************************************************************************)
CONSTANTS Ids,     \* task identifiers
          Known    \* the identifiers of the tasks submitted

VARIABLES deps,    \* the identifiers each task depends on
          st       \* the state of each task

Init ==
    /\ deps \in [Known -> SUBSET Ids]
    /\ st = [i \in Known |-> "waiting"]

Start(i) ==
    /\ st[i] = "waiting"
    /\ \A d \in deps[i] : d \in Known /\ st[d] = "ok"
    /\ st' = [st EXCEPT ![i] = "running"]
    /\ UNCHANGED deps

Finish(i) ==
    /\ st[i] = "running"
    /\ \E result \in {"ok", "failed"} : st' = [st EXCEPT ![i] = result]
    /\ UNCHANGED deps

Next == \E i \in Known : Start(i) \/ Finish(i)

Spec == Init /\ [][Next]_<<deps, st>>

\* What that amounts to at any time: everything that a task depends on was submitted
\* and has succeeded, if the task has started.
DependenciesDone ==
    \A i \in Known : st[i] # "waiting" => \A d \in deps[i] : d \in Known /\ st[d] = "ok"

=============================================================================
