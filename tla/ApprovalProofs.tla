---------------------------- MODULE ApprovalProofs ----------------------------
(***************************************************************************)
(* Safety of the approval manager for every set of requests, identifiers   *)
(* and users: what a call returns, who is told that he was heard, what the *)
(* history holds and what is left in the maps.                             *)
(***************************************************************************)
EXTENDS Approval, FiniteSetTheorems, SequenceTheorems, TLAPS

HistoryEntry == [req : Requests, status : Statuses]

Locations == {"start", "enqueue", "wait", "record", "cleanup", "done"}
UserLocations == {"idle", "found", "marked", "sent", "ok", "error"}

\* What TypeOK says of the calls of RequestApproval, of the maps and of the users.
CallTypes ==
    /\ idOf \in [Requests -> Ids]
    /\ pc \in [Requests -> Locations]
    /\ status \in [Requests -> Statuses]
    /\ verdict \in [Requests -> Verdicts]

MapTypes ==
    /\ requests \in [Ids -> Requests \cup {None}]
    /\ responses \in [Ids -> Requests \cup {None}]

UserTypes ==
    user \in [Responders -> [at : UserLocations, req : Requests \cup {None},
                             decision : Decisions]]

\* A channel holds nothing or one decision.
ChannelTypes ==
    /\ respCh \in [Requests -> Seq(Decisions)]
    /\ \A r \in Requests : respCh[r] = <<>> \/ \E d \in Decisions : respCh[r] = <<d>>

\* A Respond that found a request has it in its hands.
FoundIsRequest ==
    \A u \in Responders : user[u].at \in {"found", "marked", "sent", "ok"} => user[u].req \in Requests

HistoryTypes == history \in Seq(HistoryEntry) /\ maxHistory \in HistoryCaps

OtherTypes == pending \in 0..PendingCap /\ callback \in BOOLEAN /\ notified \subseteq Responders

Types == /\ CallTypes /\ MapTypes /\ UserTypes /\ ChannelTypes /\ FoundIsRequest
         /\ HistoryTypes /\ OtherTypes

-----------------------------------------------------------------------------
(* Types                                                                   *)

\* Trimming keeps a suffix.
LEMMA TrimmedIsSuffix ==
    ASSUME NEW S, NEW h \in Seq(S), maxHistory \in Nat
    PROVE  /\ Trimmed(h) \in Seq(S)
           /\ \E off \in Nat :
                 /\ Len(Trimmed(h)) + off = Len(h)
                 /\ \A j \in 1..Len(Trimmed(h)) : Trimmed(h)[j] = h[j + off]
<1> DEFINE keep == (maxHistory * 8) \div 10
           from == Len(h) - keep + 1
<1>0. Len(h) \in Nat /\ h \in [1..Len(h) -> S]
  BY LenProperties
<1>1. keep \in Nat /\ keep <= maxHistory
  OBVIOUS
<1>2. CASE Len(h) > maxHistory
  <2>1. from \in Int /\ 1 <= from
    BY <1>0, <1>1, <1>2
  <2>2. Trimmed(h) = SubSeq(h, from, Len(h))
    BY <1>2 DEF Trimmed
  <2> HIDE DEF from
  <2>3. \A i \in from..Len(h) : h[i] \in S
    BY <1>0, <2>1
  <2>4. /\ Trimmed(h) \in Seq(S)
        /\ Len(Trimmed(h)) = IF from <= Len(h) THEN Len(h) - from + 1 ELSE 0
        /\ \A j \in 1..(Len(h) - from + 1) : Trimmed(h)[j] = h[from + j - 1]
    BY <1>0, <2>1, <2>2, <2>3, SubSeqProperties
  <2>5. from <= Len(h) + 1
    BY <1>0, <1>1 DEF from
  <2>6. /\ from - 1 \in Nat
        /\ Len(Trimmed(h)) + (from - 1) = Len(h)
        /\ \A j \in 1..Len(Trimmed(h)) : Trimmed(h)[j] = h[j + (from - 1)]
    <3>1. Len(Trimmed(h)) = Len(h) - from + 1
      BY <1>0, <2>1, <2>4, <2>5
    <3>2. \A j \in Int : from + j - 1 = j + (from - 1)
      BY <2>1
    <3> QED BY <1>0, <2>1, <2>4, <3>1, <3>2
  <2> QED BY <2>4, <2>6
<1>3. CASE ~(Len(h) > maxHistory)
  <2>1. Trimmed(h) = h
    BY <1>3 DEF Trimmed
  <2>2. 0 \in Nat /\ Len(h) + 0 = Len(h) /\ \A j \in 1..Len(h) : j + 0 = j
    BY <1>0
  <2>3. \A j \in 1..Len(h) : h[j] = h[j + 0]
    BY <2>2
  <2> QED BY <2>1, <2>2, <2>3
<1> QED BY <1>2, <1>3

\* The types hold before the first request.
LEMMA TypesInit == Init => Types
<1> SUFFICES ASSUME Init PROVE Types
  OBVIOUS
<1> USE DEF Init
<1>1. CallTypes
  BY DEF CallTypes, Locations, Statuses, Verdicts
<1>2. MapTypes
  BY DEF MapTypes
<1>3. UserTypes /\ FoundIsRequest
  BY DEF UserTypes, FoundIsRequest, Idle, UserLocations, Decisions
<1>4. ChannelTypes
  BY EmptySeq DEF ChannelTypes
<1>5. HistoryTypes
  BY EmptySeq DEF HistoryTypes
<1>6. OtherTypes
  <2>1. pending \in 0..PendingCap
    BY ApprovalAssumption
  <2>2. callback \in BOOLEAN /\ notified \subseteq Responders
    OBVIOUS
  <2> QED BY <2>1, <2>2 DEF OtherTypes
<1> QED BY <1>1, <1>2, <1>3, <1>4, <1>5, <1>6 DEF Types

\* Each step of a RequestApproval keeps the types.
LEMMA RequestTypes ==
    ASSUME Types, NEW r \in Requests, RequestApproval(r) \/ CancelEnqueue(r)
    PROVE  Types'
<1> USE DEF Types, CallTypes, MapTypes, UserTypes, ChannelTypes, FoundIsRequest, HistoryTypes,
            OtherTypes, Locations
<1>1. CASE Register(r)
  BY <1>1 DEF Register
<1>2. CASE Enqueue(r)
  BY <1>2, ApprovalAssumption DEF Enqueue, managerVars
<1>3. CASE CancelEnqueue(r)
  BY <1>3 DEF CancelEnqueue, managerVars, Verdicts
<1>4. CASE Receive(r)
  <2>1. PICK d \in Decisions : respCh[r] = <<d>>
    BY <1>4 DEF Receive
  <2>2. Head(respCh[r]) = d /\ Tail(respCh[r]) = <<>>
    BY <2>1
  <2> QED BY <1>4, <2>2 DEF Receive, managerVars, Verdicts
<1>5. CASE TimeOut(r)
  BY <1>5 DEF TimeOut, managerVars, Verdicts, Statuses
<1>6. CASE RecordHistory(r)
  <2>1. [req |-> r, status |-> status[r]] \in HistoryEntry
    BY DEF HistoryEntry
  <2>2. Append(history, [req |-> r, status |-> status[r]]) \in Seq(HistoryEntry)
    BY <2>1, AppendProperties
  <2>3. history' \in Seq(HistoryEntry)
    BY <1>6, <2>2, TrimmedIsSuffix, ApprovalAssumption DEF RecordHistory
  <2> QED BY <1>6, <2>3 DEF RecordHistory
<1>7. CASE CleanUp(r)
  BY <1>7 DEF CleanUp
<1> QED BY <1>1, <1>2, <1>3, <1>4, <1>5, <1>6, <1>7 DEF RequestApproval

\* Each step of a Respond keeps the types.
LEMMA RespondTypes ==
    ASSUME Types, NEW u \in Responders, Respond(u)
    PROVE  Types'
<1> USE DEF Types, CallTypes, MapTypes, UserTypes, ChannelTypes, FoundIsRequest, HistoryTypes,
            OtherTypes, UserLocations
<1>1. ASSUME NEW i \in Ids, FindNothing(u, i) PROVE Types'
  BY <1>1 DEF FindNothing, requestVars, managerVars
<1>2. ASSUME NEW i \in Ids, NEW d \in Decisions, Find(u, i, d) PROVE Types'
  BY <1>2 DEF Find, requestVars, managerVars
<1>3. CASE Mark(u)
  BY <1>3 DEF Mark, managerVars, Statuses
<1>4. CASE Send(u)
  <2>1. /\ user[u].req \in Requests /\ user[u].decision \in Decisions
        /\ <<user[u].decision>> \in Seq(Decisions)
    BY <1>4 DEF Send
  <2> QED BY <1>4, <2>1 DEF Send, requestVars, managerVars
<1>5. CASE SendFails(u)
  BY <1>5 DEF SendFails, requestVars, managerVars
<1>6. CASE Notify(u)
  BY <1>6 DEF Notify, requestVars, managerVars
<1> QED BY <1>1, <1>2, <1>3, <1>4, <1>5, <1>6 DEF Respond

\* Every step keeps the types.
LEMMA TypesNext == Types /\ [Next]_vars => Types'
<1> SUFFICES ASSUME Types, [Next]_vars PROVE Types'
  OBVIOUS
<1> USE DEF Types, CallTypes, MapTypes, UserTypes, ChannelTypes, FoundIsRequest, HistoryTypes,
            OtherTypes
<1>1. CASE Drain
  BY <1>1, ApprovalAssumption DEF Drain, requestVars, managerVars
<1>2. CASE SetCallback
  BY <1>2 DEF SetCallback, requestVars
<1>3. ASSUME NEW cap \in HistoryCaps, SetMaxHistory(cap) PROVE Types'
  BY <1>3 DEF SetMaxHistory, requestVars
<1>4. CASE UNCHANGED vars
  BY <1>4 DEF vars, requestVars, managerVars
<1> QED BY <1>1, <1>2, <1>3, <1>4, RequestTypes, RespondTypes DEF Next

\* The types hold in every behaviour.
LEMMA TypesHold == SafeSpec => []Types
BY TypesInit, TypesNext, PTL DEF SafeSpec

\* Every variable keeps its type, and the pending channel its capacity.
THEOREM TypeCorrect == SafeSpec => []TypeOK
<1>1. Types => TypeOK
  BY DEF Types, TypeOK, CallTypes, MapTypes, UserTypes, ChannelTypes, HistoryTypes,
              OtherTypes, Locations, UserLocations, HistoryEntry
<1> QED BY <1>1, TypesHold, PTL

-----------------------------------------------------------------------------
(* The maps                                                                *)

\* An entry is under its call's identifier, made by a call that has begun; a call
\* past its history has no request in the map unless it was cancelled, and one
\* that returned has no channel there.
MapsInv ==
    /\ \A i \in Ids : requests[i] # None => idOf[requests[i]] = i /\ pc[requests[i]] # "start"
    /\ \A i \in Ids : responses[i] # None => idOf[responses[i]] = i /\ pc[responses[i]] # "start"
    /\ EntriesAgree
    /\ \A r \in Requests : pc[r] \in {"cleanup", "done"} /\ requests[idOf[r]] = r
                           => verdict[r] = "cancelled"
    /\ \A r \in Requests : pc[r] = "done" => responses[idOf[r]] # r

\* Every step keeps MapsInv.
LEMMA MapsNext == Types /\ MapsInv /\ [Next]_vars => MapsInv'
<1> SUFFICES ASSUME Types, MapsInv, [Next]_vars PROVE MapsInv'
  OBVIOUS
<1> USE ApprovalAssumption DEF Types, CallTypes, MapTypes, MapsInv, EntriesAgree
<1>1. ASSUME NEW r \in Requests, Register(r) PROVE MapsInv'
  BY <1>1 DEF Register
<1>2. ASSUME NEW r \in Requests, Enqueue(r) PROVE MapsInv'
  BY <1>2 DEF Enqueue, managerVars
<1>3. ASSUME NEW r \in Requests, CancelEnqueue(r) PROVE MapsInv'
  BY <1>3 DEF CancelEnqueue, managerVars
<1>4. ASSUME NEW r \in Requests, Receive(r) PROVE MapsInv'
  BY <1>4 DEF Receive, managerVars
<1>5. ASSUME NEW r \in Requests, TimeOut(r) PROVE MapsInv'
  BY <1>5 DEF TimeOut, managerVars
<1>6. ASSUME NEW r \in Requests, RecordHistory(r) PROVE MapsInv'
  BY <1>6 DEF RecordHistory
<1>7. ASSUME NEW r \in Requests, CleanUp(r) PROVE MapsInv'
  BY <1>7 DEF CleanUp
<1>8. ASSUME UNCHANGED <<idOf, pc, verdict, requests, responses>> PROVE MapsInv'
  BY <1>8
<1>9. ASSUME NEW u \in Responders, Respond(u) PROVE UNCHANGED <<idOf, pc, verdict, requests, responses>>
  BY <1>9 DEF Respond, FindNothing, Find, Mark, Send, SendFails, Notify, requestVars, managerVars
<1>10. Drain \/ SetCallback \/ (\E cap \in HistoryCaps : SetMaxHistory(cap)) \/ UNCHANGED vars
       => UNCHANGED <<idOf, pc, verdict, requests, responses>>
  BY DEF Drain, SetCallback, SetMaxHistory, vars, requestVars, managerVars
<1> QED
  BY <1>1, <1>2, <1>3, <1>4, <1>5, <1>6, <1>7, <1>8, <1>9, <1>10 DEF Next, RequestApproval

\* So a request is in both maps or in none, in every behaviour.
LEMMA MapsHold == SafeSpec => []MapsInv
<1>1. Init => MapsInv
  BY DEF Init, MapsInv, EntriesAgree
<1> QED BY <1>1, MapsNext, TypesHold, PTL DEF SafeSpec

\* A look-up never pairs one call's request with another call's channel.
THEOREM LookUpsAgree == SafeSpec => []EntriesAgree
<1>1. MapsInv => EntriesAgree
  BY DEF MapsInv
<1> QED BY <1>1, MapsHold, PTL

\* A call that returned leaves nothing behind, but for its request if it was
\* cancelled in the queue.
THEOREM CallsCleanUp == SafeSpec => []NothingLeftBehind
<1>1. MapsInv => NothingLeftBehind
  BY DEF MapsInv, NothingLeftBehind
<1> QED BY <1>1, MapsHold, PTL

-----------------------------------------------------------------------------
(* Verdicts                                                                *)

\* A call has a verdict once it has left the second select, or the first one by
\* being cancelled; what is in a channel, or was received from it, was put there
\* by a Respond that found this very call.
VerdictInv ==
    /\ \A r \in Requests : verdict[r] = "none" <=> pc[r] \in {"start", "enqueue", "wait"}
    /\ \A r \in Requests : pc[r] = "record" => verdict[r] # "cancelled"
    /\ \A r \in Requests : respCh[r] # <<>> =>
          \E u \in Accepted(r) : respCh[r] = <<user[u].decision>>
    /\ VerdictWasSent

\* A step that leaves the verdicts, the locations and the channels, and every
\* Respond that was accepted, keeps VerdictInv.
LEMMA VerdictFrame ==
    ASSUME VerdictInv, UNCHANGED <<pc, verdict, respCh>>,
           \A u \in Responders : user[u].at \in {"sent", "ok"} =>
              user'[u].at \in {"sent", "ok"} /\ user'[u].req = user[u].req
              /\ user'[u].decision = user[u].decision
    PROVE  VerdictInv'
BY DEF VerdictInv, VerdictWasSent, Accepted

\* A request that is made, waits or gives up is given no verdict that was not sent.
LEMMA VerdictRequest ==
    ASSUME Types, VerdictInv, NEW r \in Requests, RequestApproval(r) \/ CancelEnqueue(r)
    PROVE  VerdictInv'
<1> USE DEF Types, CallTypes, VerdictInv, VerdictWasSent, Accepted
<1>1. CASE Register(r)
  BY <1>1 DEF Register
<1>2. CASE Enqueue(r)
  BY <1>2 DEF Enqueue, managerVars
<1>3. CASE CancelEnqueue(r)
  BY <1>3 DEF CancelEnqueue, managerVars, Decisions
<1>4. CASE Receive(r)
  <2>1. PICK u \in Responders : /\ user[u].req = r /\ user[u].at \in {"sent", "ok"}
                               /\ respCh[r] = <<user[u].decision>>
    BY <1>4 DEF Receive
  <2>2. Head(respCh[r]) = user[u].decision /\ Tail(respCh[r]) = <<>>
    BY <2>1
  <2>3. /\ pc' = [pc EXCEPT ![r] = "record"] /\ verdict' = [verdict EXCEPT ![r] = user[u].decision]
        /\ respCh' = [respCh EXCEPT ![r] = <<>>] /\ user' = user /\ pc[r] = "wait"
    BY <1>4, <2>2 DEF Receive
  <2>4. user[u].decision \in Decisions /\ \A q \in Requests : Accepted(q)' = Accepted(q)
    BY <2>3 DEF UserTypes, Accepted
  <2>5. \A q \in Requests : respCh'[q] = IF q = r THEN <<>> ELSE respCh[q]
    BY <2>3 DEF ChannelTypes
  <2> HIDE DEF Accepted
  <2>6. \A q \in Requests : respCh'[q] # <<>> => \E v \in Accepted(q)' : respCh'[q] = <<user'[v].decision>>
    BY <2>3, <2>4, <2>5
  <2>7. VerdictWasSent'
    BY <2>1, <2>3, <2>4 DEF Accepted
  <2> QED BY <2>3, <2>4, <2>6, <2>7 DEF Decisions
<1>5. CASE TimeOut(r)
  BY <1>5 DEF TimeOut, managerVars, Decisions
<1>6. CASE RecordHistory(r)
  BY <1>6 DEF RecordHistory
<1>7. CASE CleanUp(r)
  BY <1>7 DEF CleanUp
<1> QED BY <1>1, <1>2, <1>3, <1>4, <1>5, <1>6, <1>7 DEF RequestApproval

\* An answer on its way was given for the request it will find.
LEMMA VerdictRespond ==
    ASSUME Types, VerdictInv, NEW u \in Responders, Respond(u)
    PROVE  VerdictInv'
<1> USE DEF Types, UserTypes
<1>1. ASSUME NEW i \in Ids, FindNothing(u, i) PROVE VerdictInv'
  BY <1>1, VerdictFrame DEF FindNothing, requestVars, managerVars
<1>2. ASSUME NEW i \in Ids, NEW d \in Decisions, Find(u, i, d) PROVE VerdictInv'
  BY <1>2, VerdictFrame DEF Find, requestVars, managerVars
<1>3. CASE Mark(u)
  BY <1>3, VerdictFrame DEF Mark, managerVars
<1>4. CASE Send(u)
  <2>1. user[u].req \in Requests
    BY <1>4 DEF Send, FoundIsRequest
  <2>2. /\ respCh' = [respCh EXCEPT ![user[u].req] = <<user[u].decision>>]
        /\ user' = [user EXCEPT ![u].at = "sent"]
        /\ UNCHANGED <<pc, verdict>>
        /\ user[u].at = "marked"
    BY <1>4 DEF Send, requestVars
  <2>3. \A v \in Responders : /\ user'[v].req = user[v].req
                              /\ user'[v].decision = user[v].decision
                              /\ user[v].at \in {"sent", "ok"} => user'[v].at \in {"sent", "ok"}
    BY <2>2
  <2>4. u \in Accepted(user[u].req)'
    BY <2>1, <2>2 DEF Accepted
  <2>5. \A r \in Requests : Accepted(r) \subseteq Accepted(r)'
    BY <2>3 DEF Accepted
  <2>6. \A r \in Requests : respCh'[r] = IF r = user[u].req THEN <<user[u].decision>> ELSE respCh[r]
    BY <2>2 DEF ChannelTypes
  <2>7. \A r \in Requests : respCh'[r] # <<>> =>
           \E v \in Accepted(r)' : respCh'[r] = <<user'[v].decision>>
    BY <2>1, <2>3, <2>4, <2>5, <2>6 DEF VerdictInv, Accepted
  <2>8. VerdictWasSent'
    BY <2>2, <2>3, <2>5 DEF VerdictInv, VerdictWasSent, Accepted
  <2> QED BY <2>2, <2>7, <2>8 DEF VerdictInv
<1>5. CASE SendFails(u)
  BY <1>5, VerdictFrame DEF SendFails, requestVars, managerVars
<1>6. CASE Notify(u)
  BY <1>6, VerdictFrame DEF Notify, requestVars, managerVars
<1> QED BY <1>1, <1>2, <1>3, <1>4, <1>5, <1>6 DEF Respond

\* Every step keeps the verdicts accounted for.
LEMMA VerdictNext == Types /\ VerdictInv /\ [Next]_vars => VerdictInv'
<1> SUFFICES ASSUME Types, VerdictInv, [Next]_vars PROVE VerdictInv'
  OBVIOUS
<1>1. Drain \/ SetCallback \/ (\E cap \in HistoryCaps : SetMaxHistory(cap)) \/ UNCHANGED vars
      => UNCHANGED <<pc, verdict, respCh, user>>
  BY DEF Drain, SetCallback, SetMaxHistory, vars, requestVars, managerVars
<1>2. UNCHANGED <<pc, verdict, respCh, user>> => VerdictInv'
  BY VerdictFrame
<1> QED BY <1>1, <1>2, VerdictRequest, VerdictRespond DEF Next

\* They are accounted for in every behaviour.
LEMMA VerdictsHold == SafeSpec => []VerdictInv
<1>1. Init => VerdictInv
  BY DEF Init, VerdictInv, VerdictWasSent, Decisions
<1> QED BY <1>1, VerdictNext, TypesHold, PTL DEF SafeSpec

\* A call is approved or rejected only by a user who answered that very call
\* with that decision and was told that it was accepted.
THEOREM OnlyAnswersDecide == SafeSpec => []VerdictWasSent
<1>1. VerdictInv => VerdictWasSent
  BY DEF VerdictInv
<1> QED BY <1>1, VerdictsHold, PTL


-----------------------------------------------------------------------------
(* How many answers are accepted                                           *)

Waits(r) == IF respCh[r] = <<>> THEN 0 ELSE 1
Taken(r) == IF verdict[r] \in Decisions THEN 1 ELSE 0

\* Every answer accepted for a call lies in its channel or was received.
AcceptedInv ==
    \A r \in Requests : IsFiniteSet(Accepted(r)) /\ Cardinality(Accepted(r)) = Waits(r) + Taken(r)

\* A step that changes neither the answers accepted nor their sum keeps it.
LEMMA AcceptedFrame ==
    ASSUME AcceptedInv,
           \A r \in Requests : /\ Accepted(r)' = Accepted(r)
                              /\ (Waits(r) + Taken(r))' = Waits(r) + Taken(r)
    PROVE  AcceptedInv'
BY DEF AcceptedInv

\* No step of a request accepts an answer.
LEMMA AcceptedRequest ==
    ASSUME Types, VerdictInv, AcceptedInv, NEW r \in Requests, RequestApproval(r) \/ CancelEnqueue(r)
    PROVE  AcceptedInv'
<1> USE DEF Types, CallTypes
<1>1. \A q \in Requests : Accepted(q)' = Accepted(q)
  BY DEF RequestApproval, Register, Enqueue, CancelEnqueue, Receive, TimeOut, RecordHistory,
         CleanUp, Accepted
<1>2. CASE Receive(r)
  <2>1. PICK d \in Decisions : respCh[r] = <<d>>
    BY <1>2 DEF Receive, ChannelTypes
  <2>2. Head(respCh[r]) = d /\ Tail(respCh[r]) = <<>> /\ respCh[r] # <<>>
    BY <2>1
  <2>3. verdict[r] = "none"
    BY <1>2 DEF Receive, VerdictInv
  <2>4. \A q \in Requests : (Waits(q) + Taken(q))' = Waits(q) + Taken(q)
    BY <1>2, <2>2, <2>3 DEF Receive, Waits, Taken, ChannelTypes, Decisions
  <2> QED BY <1>1, <2>4, AcceptedFrame
<1>3. CASE CancelEnqueue(r) \/ TimeOut(r)
  <2>1. verdict[r] = "none"
    BY <1>3 DEF CancelEnqueue, TimeOut, VerdictInv
  <2>2. \A q \in Requests : (Waits(q) + Taken(q))' = Waits(q) + Taken(q)
    BY <1>3, <2>1 DEF CancelEnqueue, TimeOut, Waits, Taken, Decisions
  <2> QED BY <1>1, <2>2, AcceptedFrame
<1>4. CASE UNCHANGED <<verdict, respCh>>
  BY <1>1, <1>4, AcceptedFrame DEF Waits, Taken
<1> QED
  BY <1>2, <1>3, <1>4 DEF RequestApproval, Register, Enqueue, RecordHistory, CleanUp

\* A step of Respond accepts at most one answer more, while its request is known.
LEMMA AcceptedRespond ==
    ASSUME Types, AcceptedInv, NEW u \in Responders, Respond(u)
    PROVE  AcceptedInv'
<1>1. CASE Send(u)
  <2>0. PICK q \in Requests : q = user[u].req
    BY <1>1 DEF Send, Types, FoundIsRequest
  <2>1. respCh[q] = <<>> /\ u \notin Accepted(q)
    BY <1>1, <2>0 DEF Send, Accepted
  <2>2. /\ user' = [user EXCEPT ![u].at = "sent"]
        /\ respCh' = [respCh EXCEPT ![q] = <<user[u].decision>>]
        /\ UNCHANGED verdict
    BY <1>1, <2>0 DEF Send, requestVars
  <2>3. Accepted(q)' = Accepted(q) \cup {u}
    BY <2>0, <2>2 DEF Types, UserTypes, Accepted
  <2>4. \A r \in Requests \ {q} : Accepted(r)' = Accepted(r)
    BY <2>0, <2>2 DEF Types, UserTypes, Accepted
  <2>5. Waits(q)' = 1 /\ Waits(q) = 0 /\ Taken(q)' = Taken(q)
    BY <2>1, <2>2 DEF Types, ChannelTypes, Waits, Taken
  <2>6. \A r \in Requests \ {q} : Waits(r)' = Waits(r) /\ Taken(r)' = Taken(r)
    BY <2>2 DEF Types, ChannelTypes, Waits, Taken
  <2>7. IsFiniteSet(Accepted(q)') /\ Cardinality(Accepted(q)') = Cardinality(Accepted(q)) + 1
    BY <2>1, <2>3, FS_AddElement DEF AcceptedInv
  <2>8. IsFiniteSet(Accepted(q)') /\ Cardinality(Accepted(q)') = Waits(q)' + Taken(q)'
    <3>1. Cardinality(Accepted(q)) = Taken(q) /\ Taken(q) \in Nat
      BY <2>1, <2>5 DEF AcceptedInv, Taken
    <3> QED BY <2>5, <2>7, <3>1
  <2>9. \A r \in Requests \ {q} : IsFiniteSet(Accepted(r)') /\ Cardinality(Accepted(r)') = Waits(r)' + Taken(r)'
    BY <2>4, <2>6 DEF AcceptedInv
  <2> QED BY <2>8, <2>9 DEF AcceptedInv
<1>2. CASE ~Send(u)
  <2>1. UNCHANGED <<verdict, respCh>>
    BY <1>2 DEF Respond, FindNothing, Find, Mark, SendFails, Notify, requestVars
  <2>2. \A r \in Requests : Accepted(r)' = Accepted(r)
    BY <1>2 DEF Respond, FindNothing, Find, Mark, SendFails, Notify, Accepted, Types, UserTypes
  <2> QED BY <2>1, <2>2, AcceptedFrame DEF Waits, Taken
<1> QED BY <1>1, <1>2

\* Every step keeps the count of accepted answers.
LEMMA AcceptedNext == Types /\ VerdictInv /\ AcceptedInv /\ [Next]_vars => AcceptedInv'
<1> SUFFICES ASSUME Types, VerdictInv, AcceptedInv, [Next]_vars PROVE AcceptedInv'
  OBVIOUS
<1>1. Drain \/ SetCallback \/ (\E cap \in HistoryCaps : SetMaxHistory(cap)) \/ UNCHANGED vars
      => UNCHANGED <<verdict, respCh, user>>
  BY DEF Drain, SetCallback, SetMaxHistory, vars, requestVars, managerVars
<1>2. UNCHANGED <<verdict, respCh, user>> => AcceptedInv'
  BY AcceptedFrame DEF Accepted, Waits, Taken
<1> QED BY <1>1, <1>2, AcceptedRequest, AcceptedRespond DEF Next

\* However many users answer a call, at most two are told that they were heard.
THEOREM AtMostTwoHeard == SafeSpec => []AcceptedAtMostTwice
<1>1. Init => AcceptedInv
  <2> SUFFICES ASSUME Init, NEW r \in Requests
               PROVE  IsFiniteSet(Accepted(r)) /\ Cardinality(Accepted(r)) = Waits(r) + Taken(r)
    BY DEF AcceptedInv
  <2>1. Accepted(r) = {}
    BY DEF Init, Idle, Accepted
  <2>2. Waits(r) = 0 /\ Taken(r) = 0
    BY DEF Init, Waits, Taken, Decisions
  <2> QED BY <2>1, <2>2, FS_EmptySet
<1>2. AcceptedInv => AcceptedAtMostTwice
  <2>1. \A r \in Requests : Waits(r) \in {0, 1} /\ Taken(r) \in {0, 1}
    BY DEF Waits, Taken
  <2> QED BY <2>1 DEF AcceptedInv, AcceptedAtMostTwice
<1> QED BY <1>1, <1>2, AcceptedNext, VerdictsHold, TypesHold, PTL DEF SafeSpec

-----------------------------------------------------------------------------
(* The history                                                             *)

\* Where a decision was received or is on its way, the request is not pending.
StatusInv ==
    /\ \A u \in Responders : user[u].at \in {"marked", "sent", "ok"} => status[user[u].req] # "pending"
    /\ \A r \in Requests : pc[r] = "record" => status[r] # "pending"

\* An entry is of a call that has left its record step with a verdict.
HistoryInv ==
    /\ HistoryOfDecided
    /\ \A j \in DOMAIN history : pc[history[j].req] \in {"cleanup", "done"}

\* A status that is set is never pending again.
LEMMA StatusNext == Types /\ VerdictInv /\ StatusInv /\ [Next]_vars => StatusInv'
<1> SUFFICES ASSUME Types, VerdictInv, StatusInv, [Next]_vars PROVE StatusInv'
  OBVIOUS
<1> USE DEF Types, CallTypes, UserTypes, FoundIsRequest, StatusInv
<1>1. ASSUME NEW r \in Requests, RequestApproval(r) \/ CancelEnqueue(r) PROVE StatusInv'
  <2>1. CASE Receive(r)
    <3>1. status[r] # "pending"
      BY <2>1 DEF Receive, VerdictInv, Accepted
    <3> QED BY <2>1, <3>1 DEF Receive
  <2>2. CASE TimeOut(r)
    BY <2>2 DEF TimeOut
  <2>3. CASE ~(Receive(r) \/ TimeOut(r))
    <3>1. UNCHANGED <<user, status>> /\ \A q \in Requests : pc'[q] = "record" => pc[q] = "record"
      BY <1>1, <2>3 DEF RequestApproval, Register, Enqueue, CancelEnqueue, RecordHistory, CleanUp
    <3> QED BY <3>1
  <2> QED BY <2>1, <2>2, <2>3
<1>2. ASSUME NEW u \in Responders, Respond(u) PROVE StatusInv'
  <2>1. CASE Mark(u)
    BY <2>1 DEF Mark, Decisions
  <2>2. CASE ~Mark(u)
    <3>1. UNCHANGED <<pc, status>>
      BY <1>2, <2>2 DEF Respond, FindNothing, Find, Send, SendFails, Notify, requestVars
    <3>2. \A v \in Responders : user'[v].at \in {"marked", "sent", "ok"} =>
             user[v].at \in {"marked", "sent", "ok"} /\ user'[v].req = user[v].req
      BY <1>2, <2>2 DEF Respond, FindNothing, Find, Send, SendFails, Notify
    <3> QED BY <3>1, <3>2
  <2> QED BY <2>1, <2>2
<1>3. Drain \/ SetCallback \/ (\E cap \in HistoryCaps : SetMaxHistory(cap)) \/ UNCHANGED vars
      => UNCHANGED <<pc, status, user>>
  BY DEF Drain, SetCallback, SetMaxHistory, vars, requestVars, managerVars
<1>4. UNCHANGED <<pc, status, user>> => StatusInv'
  OBVIOUS
<1> QED BY <1>1, <1>2, <1>3, <1>4 DEF Next

\* Every step keeps the history one of decided requests.
LEMMA HistoryNext == Types /\ VerdictInv /\ StatusInv /\ HistoryInv /\ [Next]_vars => HistoryInv'
<1> SUFFICES ASSUME Types, VerdictInv, StatusInv, HistoryInv, [Next]_vars PROVE HistoryInv'
  OBVIOUS
<1>0. history \in Seq(HistoryEntry) /\ \A j \in DOMAIN history : history[j].req \in Requests
  <2>1. history \in Seq(HistoryEntry)
    BY DEF Types, HistoryTypes
  <2>2. \A j \in DOMAIN history : history[j] \in HistoryEntry
    BY <2>1
  <2> QED BY <2>1, <2>2 DEF HistoryEntry
<1>1. ASSUME NEW r \in Requests, RecordHistory(r) PROVE HistoryInv'
  <2> DEFINE e == [req |-> r, status |-> status[r]]
             h == Append(history, e)
  <2>1. e \in HistoryEntry /\ pc[r] = "record"
    BY <1>1 DEF RecordHistory, HistoryEntry, Types, CallTypes
  <2>2. /\ h \in Seq(HistoryEntry) /\ Len(h) = Len(history) + 1 /\ h[Len(history) + 1] = e
        /\ \A k \in 1..Len(history) : h[k] = history[k]
    BY <1>0, <2>1, AppendProperties
  <2>3. /\ history' = Trimmed(h) /\ pc' = [pc EXCEPT ![r] = "cleanup"]
        /\ UNCHANGED <<status, verdict>>
    BY <1>1 DEF RecordHistory
  <2>4. Len(history) \in Nat /\ DOMAIN history = 1..Len(history)
    BY <1>0, LenProperties
  <2> HIDE DEF h
  <2>5. PICK off \in Nat : /\ Len(history') + off = Len(h) /\ history' \in Seq(HistoryEntry)
                          /\ \A j \in 1..Len(history') : history'[j] = h[j + off]
    BY <2>2, <2>3, TrimmedIsSuffix, ApprovalAssumption DEF Types, HistoryTypes
  <2>6. DOMAIN history' = 1..Len(history') /\ Len(history') \in Nat
    BY <2>5, LenProperties
  <2>7. /\ verdict[r] \notin {"none", "cancelled"} /\ status[r] # "pending"
        /\ \A j \in 1..Len(history) : history[j].req # r
    BY <2>1, <2>4 DEF VerdictInv, StatusInv, HistoryInv
  <2>8. /\ \A k \in 1..Len(h) : /\ h[k].status # "pending"
                               /\ verdict[h[k].req] \notin {"none", "cancelled"}
        /\ \A k \in 1..Len(h) : pc'[h[k].req] \in {"cleanup", "done"}
    <3> SUFFICES ASSUME NEW k \in 1..Len(h)
                 PROVE  /\ h[k].status # "pending"
                        /\ verdict[h[k].req] \notin {"none", "cancelled"}
                        /\ pc'[h[k].req] \in {"cleanup", "done"}
      OBVIOUS
    <3>0. pc'[r] = "cleanup" /\ \A q \in Requests \ {r} : pc'[q] = pc[q]
      BY <2>3 DEF Types, CallTypes
    <3>1. CASE k = Len(history) + 1
      BY <2>2, <2>7, <3>0, <3>1
    <3>2. CASE k \in 1..Len(history)
      <4>1. h[k] = history[k] /\ k \in DOMAIN history
        BY <2>2, <2>4, <3>2
      <4>2. history[k].req \in Requests
        BY <1>0, <4>1
      <4>3. /\ history[k].status # "pending"
            /\ verdict[history[k].req] \notin {"none", "cancelled"}
            /\ pc[history[k].req] \in {"cleanup", "done"}
        BY <4>1 DEF HistoryInv, HistoryOfDecided
      <4> QED BY <3>0, <4>1, <4>2, <4>3
    <3> QED BY <2>2, <2>4, <3>1, <3>2
  <2>9. \A j, k \in 1..Len(h) : h[j].req = h[k].req => j = k
    <3> SUFFICES ASSUME NEW j \in 1..Len(h), NEW k \in 1..Len(h), h[j].req = h[k].req
                 PROVE  j = k
      OBVIOUS
    <3>1. CASE j \in 1..Len(history) /\ k \in 1..Len(history)
      BY <2>2, <2>4, <3>1 DEF HistoryInv, HistoryOfDecided
    <3>2. CASE ~(j \in 1..Len(history) /\ k \in 1..Len(history))
      <4>1. j = Len(history) + 1 \/ k = Len(history) + 1
        BY <2>2, <2>4, <3>2
      <4>2. \A i \in 1..Len(h) : h[i].req = r => i = Len(history) + 1
        BY <2>2, <2>4, <2>7
      <4> QED BY <2>2, <4>1, <4>2
    <3> QED BY <3>1, <3>2
  <2>10. \A j \in DOMAIN history' : j + off \in 1..Len(h) /\ history'[j] = h[j + off]
    BY <2>5, <2>6
  <2>11. \A j, k \in DOMAIN history' : j + off = k + off => j = k
    BY <2>6
  <2>12. HistoryOfDecided'
    <3>1. \A j \in DOMAIN history' : /\ history'[j].status # "pending"
                                     /\ verdict'[history'[j].req] \notin {"none", "cancelled"}
      <4>1. verdict' = verdict
        BY <2>3
      <4> QED BY <2>8, <2>10, <4>1
    <3>2. ASSUME NEW j \in DOMAIN history', NEW k \in DOMAIN history',
                 history'[k].req = history'[j].req
          PROVE  k = j
      <4>1. h[k + off].req = h[j + off].req
        BY <2>10, <3>2
      <4>2. k + off = j + off
        BY <2>9, <2>10, <4>1
      <4> QED BY <2>11, <4>2
    <3> QED BY <3>1, <3>2 DEF HistoryOfDecided
  <2>13. \A j \in DOMAIN history' : pc'[history'[j].req] \in {"cleanup", "done"}
    BY <2>8, <2>10
  <2> QED BY <2>12, <2>13 DEF HistoryInv
<1>2. ASSUME UNCHANGED history,
             \A r \in Requests : pc[r] \in {"cleanup", "done"} =>
                pc'[r] \in {"cleanup", "done"} /\ verdict'[r] = verdict[r]
      PROVE  HistoryInv'
  BY <1>0, <1>2 DEF HistoryInv, HistoryOfDecided
<1>3. ASSUME NEW r \in Requests, RequestApproval(r) \/ CancelEnqueue(r), ~RecordHistory(r)
      PROVE  HistoryInv'
  <2>1. UNCHANGED history
    BY <1>3 DEF RequestApproval, Register, Enqueue, CancelEnqueue, Receive, TimeOut, CleanUp, managerVars
  <2>2. \A q \in Requests : pc[q] \in {"cleanup", "done"} =>
           pc'[q] \in {"cleanup", "done"} /\ verdict'[q] = verdict[q]
    BY <1>3 DEF RequestApproval, Register, Enqueue, CancelEnqueue, Receive, TimeOut, CleanUp,
                Types, CallTypes
  <2> QED BY <1>2, <2>1, <2>2
<1>4. ASSUME NEW u \in Responders, Respond(u) PROVE UNCHANGED <<history, pc, verdict>>
  BY <1>4 DEF Respond, FindNothing, Find, Mark, Send, SendFails, Notify, requestVars, managerVars
<1>5. Drain \/ SetCallback \/ (\E cap \in HistoryCaps : SetMaxHistory(cap)) \/ UNCHANGED vars
      => UNCHANGED <<history, pc, verdict>>
  BY DEF Drain, SetCallback, SetMaxHistory, vars, requestVars, managerVars
<1>6. UNCHANGED <<history, pc, verdict>> => HistoryInv'
  BY <1>2
<1> QED BY <1>1, <1>3, <1>4, <1>5, <1>6 DEF Next, RequestApproval

\* The history holds each call at most once, none that was cancelled in the queue
\* and none that is still undecided.
THEOREM HistoryIsOfDecided == SafeSpec => []HistoryOfDecided
<1>1. Init => StatusInv
  BY DEF Init, StatusInv, Idle
<1>2. Init => HistoryInv
  BY DEF Init, HistoryInv, HistoryOfDecided
<1>3. HistoryInv => HistoryOfDecided
  BY DEF HistoryInv
<1> QED
  BY <1>1, <1>2, <1>3, StatusNext, HistoryNext, VerdictsHold, TypesHold, PTL DEF SafeSpec

=============================================================================
