------------------------------- MODULE Approval -------------------------------
(***************************************************************************)
(* The approval manager (internal/approval/approval.go).  An agent's       *)
(* goroutine calls RequestApproval and waits; users call Respond.  Both    *)
(* take Manager.mu several times in one call, so their steps interleave:   *)
(* several users may answer one request, and an answer may race with the   *)
(* request's timeout.  Each step between two lock or channel operations is *)
(* an action.                                                              *)
(***************************************************************************)
EXTENDS Naturals, Sequences, FiniteSets

CONSTANTS Requests,      \* calls of RequestApproval
          Ids,           \* request identifiers
          Responders,    \* calls of Respond
          None,          \* no entry in a map
          PendingCap,    \* capacity of the pending channel
          HistoryCaps    \* values SetMaxHistory may be given

ASSUME ApprovalAssumption ==
    /\ None \notin Requests
    /\ PendingCap \in Nat
    /\ HistoryCaps \subseteq Nat

VARIABLES idOf,        \* Request.ID of each call; two may be equal
          pc,          \* where each RequestApproval is
          status,      \* Request.Status
          verdict,     \* the decision each RequestApproval returns
          respCh,      \* its response channel, of capacity 1
          requests,    \* Manager.requests, by identifier
          responses,   \* Manager.responses: whose channel, by identifier
          pending,     \* number of requests in the pending channel
          history,     \* Manager.history: call and copied status
          maxHistory,  \* Manager.maxHistory
          callback,    \* whether a callback is set
          user,        \* each Respond: location, target call, decision
          notified     \* Responds whose callback was started

requestVars == <<pc, status, verdict>>
managerVars == <<requests, responses, history, maxHistory, callback>>
vars == <<idOf, requestVars, respCh, managerVars, pending, user, notified>>

Decisions == {"approved", "rejected"}
Statuses == Decisions \cup {"pending", "timeout"}
Verdicts == Decisions \cup {"none", "timeout", "cancelled"}

Idle == [at |-> "idle", req |-> None, decision |-> "approved"]

Init ==
    /\ idOf \in [Requests -> Ids]
    /\ pc = [r \in Requests |-> "start"]
    /\ status = [r \in Requests |-> "pending"]
    /\ verdict = [r \in Requests |-> "none"]
    /\ respCh = [r \in Requests |-> <<>>]
    /\ requests = [i \in Ids |-> None]
    /\ responses = [i \in Ids |-> None]
    /\ pending = 0
    /\ history = <<>>
    /\ maxHistory \in HistoryCaps
    /\ callback = FALSE
    /\ user = [u \in Responders |-> Idle]
    /\ notified = {}

-----------------------------------------------------------------------------
(* RequestApproval                                                         *)

\* (Variant) A channel that is there already is used again.
RegisterReuses(r) ==
    /\ pc[r] = "start"
    /\ pc' = [pc EXCEPT ![r] = "enqueue"]
    /\ requests' = [requests EXCEPT ![idOf[r]] = r]
    /\ responses' = [responses EXCEPT ![idOf[r]] = IF @ = None THEN r ELSE @]
    /\ UNCHANGED <<idOf, status, verdict, respCh, pending, history, maxHistory, callback,
                   user, notified>>

\* Publish the request and its channel under the lock.
Register(r) ==
    /\ pc[r] = "start"
    /\ pc' = [pc EXCEPT ![r] = "enqueue"]
    /\ requests' = [requests EXCEPT ![idOf[r]] = r]
    /\ responses' = [responses EXCEPT ![idOf[r]] = r]
    /\ UNCHANGED <<idOf, status, verdict, respCh, pending, history, maxHistory, callback,
                   user, notified>>

\* The first select: the pending channel has room.
Enqueue(r) ==
    /\ pc[r] = "enqueue" /\ pending < PendingCap
    /\ pending' = pending + 1
    /\ pc' = [pc EXCEPT ![r] = "wait"]
    /\ UNCHANGED <<idOf, status, verdict, respCh, managerVars, user, notified>>

\* (Variant) A cancelled call goes into the history as well.
CancelEnqueueRecords(r) ==
    /\ pc[r] = "enqueue"
    /\ verdict' = [verdict EXCEPT ![r] = "cancelled"]
    /\ pc' = [pc EXCEPT ![r] = "record"]
    /\ UNCHANGED <<idOf, status, respCh, managerVars, pending, user, notified>>

\* The first select: the context is done.  Only the deferred clean-up follows.
CancelEnqueue(r) ==
    /\ pc[r] = "enqueue"
    /\ verdict' = [verdict EXCEPT ![r] = "cancelled"]
    /\ pc' = [pc EXCEPT ![r] = "cleanup"]
    /\ UNCHANGED <<idOf, status, respCh, managerVars, pending, user, notified>>

\* (Variant) The channel only wakes the call, which then reads the status.
ReceiveStatus(r) ==
    /\ pc[r] = "wait" /\ respCh[r] # <<>>
    /\ verdict' = [verdict EXCEPT ![r] = status[r]]
    /\ respCh' = [respCh EXCEPT ![r] = Tail(@)]
    /\ pc' = [pc EXCEPT ![r] = "record"]
    /\ UNCHANGED <<idOf, status, managerVars, pending, user, notified>>

\* The second select: a decision arrived.
Receive(r) ==
    /\ pc[r] = "wait" /\ respCh[r] # <<>>
    /\ verdict' = [verdict EXCEPT ![r] = Head(respCh[r])]
    /\ respCh' = [respCh EXCEPT ![r] = Tail(@)]
    /\ pc' = [pc EXCEPT ![r] = "record"]
    /\ UNCHANGED <<idOf, status, managerVars, pending, user, notified>>

\* (Variant) No timer is set.
TimeOutNever(r) == FALSE /\ UNCHANGED vars

\* The second select: the timeout fired or the context is done, even if a
\* decision is waiting as well.
TimeOut(r) ==
    /\ pc[r] = "wait"
    /\ verdict' = [verdict EXCEPT ![r] = "timeout"]
    /\ status' = [status EXCEPT ![r] = "timeout"]
    /\ pc' = [pc EXCEPT ![r] = "record"]
    /\ UNCHANGED <<idOf, respCh, managerVars, pending, user, notified>>

\* Over the cap, the newest 80% of the cap are kept.
Trimmed(h) ==
    IF Len(h) > maxHistory
    THEN SubSeq(h, Len(h) - (maxHistory * 8) \div 10 + 1, Len(h))
    ELSE h

\* (Variant) The request stays in the map.
RecordHistoryOnly(r) ==
    /\ pc[r] = "record"
    /\ history' = Trimmed(Append(history, [req |-> r, status |-> status[r]]))
    /\ pc' = [pc EXCEPT ![r] = "cleanup"]
    /\ UNCHANGED <<idOf, status, verdict, respCh, requests, responses, maxHistory, callback,
                   pending, user, notified>>

\* recordHistory copies the request as it is now, not the decision received.
RecordHistory(r) ==
    /\ pc[r] = "record"
    /\ history' = Trimmed(Append(history, [req |-> r, status |-> status[r]]))
    /\ requests' = [requests EXCEPT ![idOf[r]] = None]
    /\ pc' = [pc EXCEPT ![r] = "cleanup"]
    /\ UNCHANGED <<idOf, status, verdict, respCh, responses, maxHistory, callback, pending,
                   user, notified>>

\* The deferred delete, then RequestApproval returns.
CleanUp(r) ==
    /\ pc[r] = "cleanup"
    /\ responses' = [responses EXCEPT ![idOf[r]] = None]
    /\ pc' = [pc EXCEPT ![r] = "done"]
    /\ UNCHANGED <<idOf, status, verdict, respCh, requests, history, maxHistory, callback,
                   pending, user, notified>>

-----------------------------------------------------------------------------
(* Respond                                                                 *)

\* Look the request up under the read lock.
Find(u, i, d) ==
    /\ user[u].at = "idle"
    /\ requests[i] # None /\ responses[i] # None
    /\ user' = [user EXCEPT ![u] = [at |-> "found", req |-> requests[i], decision |-> d]]
    /\ UNCHANGED <<idOf, requestVars, respCh, managerVars, pending, notified>>

\* Unknown, or already responded or expired.
FindNothing(u, i) ==
    /\ user[u].at = "idle"
    /\ requests[i] = None \/ responses[i] = None
    /\ user' = [user EXCEPT ![u].at = "error"]
    /\ UNCHANGED <<idOf, requestVars, respCh, managerVars, pending, notified>>

\* Set the status under the lock, whatever it has become since the look-up.
Mark(u) ==
    /\ user[u].at = "found"
    /\ status' = [status EXCEPT ![user[u].req] = user[u].decision]
    /\ user' = [user EXCEPT ![u].at = "marked"]
    /\ UNCHANGED <<idOf, pc, verdict, respCh, managerVars, pending, notified>>

\* (Variants) An earlier decision is overwritten; or, with a channel that has no
\* buffer, Respond waits for the call to receive.
SendOverwrites(u) ==
    /\ user[u].at = "marked"
    /\ respCh' = [respCh EXCEPT ![user[u].req] = <<user[u].decision>>]
    /\ user' = [user EXCEPT ![u].at = "sent"]
    /\ UNCHANGED <<idOf, requestVars, managerVars, pending, notified>>
SendUnbuffered(u) ==
    /\ user[u].at = "marked" /\ pc[user[u].req] = "wait"
    /\ respCh[user[u].req] = <<>>
    /\ respCh' = [respCh EXCEPT ![user[u].req] = <<user[u].decision>>]
    /\ user' = [user EXCEPT ![u].at = "sent"]
    /\ UNCHANGED <<idOf, requestVars, managerVars, pending, notified>>

\* The channel has room.  (responses[i] was set together with requests[i], so
\* the channel found is the one of the request found.)
Send(u) ==
    /\ user[u].at = "marked"
    /\ respCh[user[u].req] = <<>>
    /\ respCh' = [respCh EXCEPT ![user[u].req] = <<user[u].decision>>]
    /\ user' = [user EXCEPT ![u].at = "sent"]
    /\ UNCHANGED <<idOf, requestVars, managerVars, pending, notified>>

\* The channel is full: Respond fails, but the status stays as marked.
SendFails(u) ==
    /\ user[u].at = "marked"
    /\ respCh[user[u].req] # <<>>
    /\ user' = [user EXCEPT ![u].at = "error"]
    /\ UNCHANGED <<idOf, requestVars, respCh, managerVars, pending, notified>>

\* Start the callback, if one is set, and return nil.
Notify(u) ==
    /\ user[u].at = "sent"
    /\ user' = [user EXCEPT ![u].at = "ok"]
    /\ notified' = IF callback THEN notified \cup {u} ELSE notified
    /\ UNCHANGED <<idOf, requestVars, respCh, managerVars, pending>>

-----------------------------------------------------------------------------
\* A user interface takes a request off Pending().
Drain ==
    /\ pending > 0
    /\ pending' = pending - 1
    /\ UNCHANGED <<idOf, requestVars, respCh, managerVars, user, notified>>

SetCallback ==
    /\ callback' = TRUE
    /\ UNCHANGED <<idOf, requestVars, respCh, requests, responses, history, maxHistory,
                   pending, user, notified>>

SetMaxHistory(cap) ==
    /\ maxHistory' = cap
    /\ UNCHANGED <<idOf, requestVars, respCh, requests, responses, history, callback,
                   pending, user, notified>>

RequestApproval(r) ==
    \/ Register(r) \/ Enqueue(r) \/ Receive(r) \/ TimeOut(r)
    \/ RecordHistory(r) \/ CleanUp(r)

Respond(u) ==
    \/ \E i \in Ids : FindNothing(u, i) \/ \E d \in Decisions : Find(u, i, d)
    \/ Mark(u) \/ Send(u) \/ SendFails(u) \/ Notify(u)

Next ==
    \/ \E r \in Requests : RequestApproval(r) \/ CancelEnqueue(r)
    \/ \E u \in Responders : Respond(u)
    \/ Drain
    \/ SetCallback
    \/ \E cap \in HistoryCaps : SetMaxHistory(cap)

SafeSpec == Init /\ [][Next]_vars

\* Goroutines that can go on do, and timers fire.  Nobody need cancel, answer
\* or drain the pending channel; a Respond that has begun goes on.
Spec ==
    /\ SafeSpec
    /\ \A r \in Requests : WF_vars(RequestApproval(r))
    /\ \A u \in Responders : WF_vars(Mark(u) \/ Send(u) \/ SendFails(u) \/ Notify(u))

-----------------------------------------------------------------------------
TypeOK ==
    /\ idOf \in [Requests -> Ids]
    /\ pc \in [Requests -> {"start", "enqueue", "wait", "record", "cleanup", "done"}]
    /\ status \in [Requests -> Statuses]
    /\ verdict \in [Requests -> Verdicts]
    /\ respCh \in [Requests -> Seq(Decisions)]
    /\ requests \in [Ids -> Requests \cup {None}]
    /\ responses \in [Ids -> Requests \cup {None}]
    /\ pending \in 0..PendingCap
    /\ history \in Seq([req : Requests, status : Statuses])
    /\ maxHistory \in HistoryCaps
    /\ callback \in BOOLEAN
    /\ user \in [Responders ->
                    [at : {"idle", "found", "marked", "sent", "ok", "error"},
                     req : Requests \cup {None}, decision : Decisions]]
    /\ notified \subseteq Responders

\* The Responds that put their decision into r's channel.
Accepted(r) == {u \in Responders : user[u].req = r /\ user[u].at \in {"sent", "ok"}}

\* A look-up never pairs one call's request with another call's channel, even
\* when two calls use the same identifier.
EntriesAgree ==
    \A i \in Ids : requests[i] # None /\ responses[i] # None => requests[i] = responses[i]

\* A call is approved or rejected only by a user who answered that very call
\* with that decision: neither a timeout, nor an answer to another call, nor a
\* Respond that failed can decide it.
VerdictWasSent ==
    \A r \in Requests : verdict[r] \in Decisions =>
        \E u \in Accepted(r) : user[u].decision = verdict[r]

\* The channel holds one decision and the call takes one, so at most two users
\* are told that their answer was accepted, and one decision may be lost.
AcceptedAtMostTwice == \A r \in Requests : Cardinality(Accepted(r)) <= 2

\* The history has one entry for a call at most, none for a call cancelled
\* before it was queued, and no entry that is still pending.
HistoryOfDecided ==
    \A j \in DOMAIN history :
        /\ history[j].status # "pending"
        /\ verdict[history[j].req] \notin {"none", "cancelled"}
        /\ \A k \in DOMAIN history : history[k].req = history[j].req => k = j

\* A call that returned leaves no response channel behind, whichever way it
\* took; it leaves its request behind only if it was cancelled in the queue.
NothingLeftBehind ==
    \A r \in Requests : pc[r] = "done" =>
        /\ responses[idOf[r]] # r
        /\ requests[idOf[r]] = r => verdict[r] = "cancelled"

\* Once its request is in the pending channel a call returns, answered or not.
QueuedCallReturns == \A r \in Requests : pc[r] = "wait" ~> pc[r] = "done"

\* Respond never blocks: it returns even if the call it answers is gone.
RespondReturns ==
    \A u \in Responders : user[u].at = "found" ~> user[u].at \in {"ok", "error"}

-----------------------------------------------------------------------------
(* What comments and tests say of the manager and the code does not do.    *)

\* The history tells how each call was decided.
HistoryMatchesVerdict ==
    \A j \in DOMAIN history : history[j].status = verdict[history[j].req]

=============================================================================
