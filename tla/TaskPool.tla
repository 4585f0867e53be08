------------------------------ MODULE TaskPool ------------------------------
(***************************************************************************)
(* The task pool (internal/task/task.go): tasks are added in any order,    *)
(* several agents claim them as their dependencies complete, and report    *)
(* the end of what they claimed.  Every method runs under Pool.mu and is   *)
(* one action.  Each task is added once.                                   *)
(***************************************************************************)
EXTENDS Naturals, Sequences, SequencesExt

CONSTANTS PoolTasks,    \* the tasks that may be added
          PoolIds,      \* task identifiers, those of missing tasks included
          PoolDeps,     \* the dependencies the tasks may have
          Workers,      \* the agents
          Nobody,       \* no agent
          NotifyCap     \* capacity of the notify channel

ASSUME TaskPoolAssumption ==
    /\ PoolTasks \subseteq PoolIds
    /\ PoolDeps \subseteq [PoolTasks -> SUBSET PoolIds]
    /\ Nobody \notin Workers
    /\ NotifyCap \in Nat

VARIABLES dependsOn,   \* Task.DependsOn
          pool,        \* Pool.tasks: the status of each task, "absent" if not added
          order,       \* Pool.order
          assignedTo,  \* Task.AssignedTo
          notify       \* identifiers in the notify channel

poolVars == <<dependsOn, pool, order, assignedTo, notify>>

PoolInit ==
    /\ dependsOn \in PoolDeps
    /\ pool = [t \in PoolTasks |-> "absent"]
    /\ order = <<>>
    /\ assignedTo = [t \in PoolTasks |-> Nobody]
    /\ notify = <<>>

\* The notification is dropped if the channel is full.
Add(t) ==
    /\ pool[t] = "absent"
    /\ pool' = [pool EXCEPT ![t] = "pending"]
    /\ order' = Append(order, t)
    /\ notify' = IF Len(notify) < NotifyCap THEN Append(notify, t) ELSE notify
    /\ UNCHANGED <<dependsOn, assignedTo>>

\* An agent takes a notification.
Notified ==
    /\ notify # <<>>
    /\ notify' = Tail(notify)
    /\ UNCHANGED <<dependsOn, pool, order, assignedTo>>

\* (Variant) A dependency that was never added does not count.
DepsResolvedIfKnown(t) ==
    \A d \in dependsOn[t] : d \in PoolTasks /\ pool[d] # "absent" => pool[d] = "completed"

\* Every dependency is in the pool and completed.
DepsResolved(t) == \A d \in dependsOn[t] : d \in PoolTasks /\ pool[d] = "completed"

Claimable(t) == pool[t] = "pending" /\ DepsResolved(t)

\* The first task in the order of insertion that can be claimed is.
Claim(w) ==
    \E k \in DOMAIN order :
        /\ Claimable(order[k])
        /\ \A m \in 1..(k - 1) : ~Claimable(order[m])
        /\ pool' = [pool EXCEPT ![order[k]] = "assigned"]
        /\ assignedTo' = [assignedTo EXCEPT ![order[k]] = w]
        /\ UNCHANGED <<dependsOn, order, notify>>

\* Neither asks whose task it is, or what has become of it.
Complete(t) ==
    /\ pool[t] # "absent"
    /\ pool' = [pool EXCEPT ![t] = "completed"]
    /\ UNCHANGED <<dependsOn, order, assignedTo, notify>>

Fail(t) ==
    /\ pool[t] # "absent"
    /\ pool' = [pool EXCEPT ![t] = "failed"]
    /\ UNCHANGED <<dependsOn, order, assignedTo, notify>>

\* An agent reports what it claimed, once.
Held(t) == pool[t] = "assigned" /\ assignedTo[t] \in Workers

PoolNext ==
    \/ \E t \in PoolTasks : Add(t)
    \/ Notified
    \/ \E w \in Workers : Claim(w)
    \/ \E t \in PoolTasks : Held(t) /\ (Complete(t) \/ Fail(t))

PoolSpec == PoolInit /\ [][PoolNext]_poolVars

-----------------------------------------------------------------------------
PoolState(t) ==
    CASE pool[t] \in {"absent", "pending"} -> "waiting"
      [] pool[t] = "assigned"  -> "running"
      [] pool[t] = "completed" -> "ok"
      [] pool[t] = "failed"    -> "failed"

\* The pool implements the order that dependencies promise, as the DAG executor
\* does: in whatever order tasks are added and agents claim and report, a task is
\* claimed once, and only when everything it depends on has completed.
PoolOrder == INSTANCE DependencyOrder WITH
    Ids   <- PoolIds,
    Known <- PoolTasks,
    deps  <- dependsOn,
    st    <- [t \in PoolTasks |-> PoolState(t)]

PoolImplementsOrder == PoolOrder!Spec

=============================================================================
