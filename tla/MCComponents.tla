---------------------------- MODULE MCComponents ----------------------------
(***************************************************************************)
(* Small instances of the components that work alone: the breaker, the     *)
(* cost tracker, the checkpoint manager, the session store, the task pool  *)
(* and the approval manager with one request.  They share no state, so     *)
(* each behaviour is one component's, and the others stay as they are.     *)
(* Nobody sets the approval manager's callback.                            *)
(***************************************************************************)
EXTENDS Breaker, CostTracker, Checkpoint, Session, TaskPool, TLC

CONSTANTS a, b, c, missing,
          Requests, Ids, Responders, None, PendingCap, HistoryCaps   \* of Approval

VARIABLES part,       \* the component of this behaviour
          idOf, pc, status, verdict, respCh, requests, responses, pending, history,
          maxHistory, announced, user, notified   \* of Approval

Approvals == INSTANCE Approval WITH callback <- announced

MCDeps ==
    {(a :> {}) @@ (b :> ofB) @@ (c :> ofC) :
        ofB \in {{}, {a}, {b}, {missing}}, ofC \in {{}, {a}, {b}, {a, b}}}

approvalVars == <<idOf, pc, status, verdict, respCh, requests, responses, pending, history,
                  maxHistory, announced, user, notified>>
allVars == <<part, breakerVars, costVars, checkpointVars, sessionVars, poolVars, approvalVars>>

\* What a component's initial states leave open is fixed for the others.
MCInit ==
    /\ part \in {"breaker", "cost", "checkpoint", "session", "pool", "approval"}
    /\ Init /\ CostInit /\ CheckpointInit /\ SessionInit /\ PoolInit
    /\ Approvals!Init
    /\ part # "cost" => maxRecords = 1
    /\ part # "checkpoint" => careful
    /\ part # "pool" => \A t \in PoolTasks : dependsOn[t] = {}

Others == UNCHANGED <<costVars, checkpointVars, sessionVars, poolVars, approvalVars>>
ButApproval == UNCHANGED <<breakerVars, costVars, checkpointVars, sessionVars, poolVars>>

MCNext ==
    /\ part' = part
    /\ \/ part = "breaker" /\ Next /\ Others
       \/ /\ part = "cost" /\ CostNext
          /\ UNCHANGED <<breakerVars, checkpointVars, sessionVars, poolVars, approvalVars>>
       \/ /\ part = "checkpoint" /\ CheckpointNext
          /\ UNCHANGED <<breakerVars, costVars, sessionVars, poolVars, approvalVars>>
       \/ /\ part = "session" /\ SessionNext
          /\ UNCHANGED <<breakerVars, costVars, checkpointVars, poolVars, approvalVars>>
       \/ /\ part = "pool" /\ PoolNext
          /\ UNCHANGED <<breakerVars, costVars, checkpointVars, sessionVars, approvalVars>>
       \/ part = "approval" /\ Approvals!Next /\ announced' = announced /\ ButApproval

\* The fairness is that of the breaker's clock, and what Approval assumes.
MCSpec ==
    /\ MCInit /\ [][MCNext]_allVars
    /\ WF_allVars(part = "breaker" /\ part' = part /\ Tick /\ Others)
    /\ \A r \in Requests :
          WF_allVars(part = "approval" /\ part' = part /\ Approvals!RequestApproval(r) /\ ButApproval)
    /\ \A u \in Responders :
          WF_allVars(/\ part = "approval" /\ part' = part
                     /\ \/ Approvals!Mark(u) \/ Approvals!Send(u)
                        \/ Approvals!SendFails(u) \/ Approvals!Notify(u)
                     /\ ButApproval)

-----------------------------------------------------------------------------
\* At most two of three users who answer one request are told that they were heard.
AcceptedAtMostTwice == Approvals!AcceptedAtMostTwice

\* A call past the queue returns, whether or not a user ever answers.
QueuedCallReturns == Approvals!QueuedCallReturns

\* A user's Respond returns, though the call it answers may be gone.
RespondReturns == Approvals!RespondReturns

=============================================================================
