------------------------------ MODULE Negotiator ------------------------------
(***************************************************************************)
(* Questions and answers between agents (internal/comm/negotiator.go) over *)
(* the mailbox.  Ask registers a channel for the answer, sends the         *)
(* question with Mailbox.Send and waits for the answer or its timeout.     *)
(* Answer finds the channel under the read lock and sends after releasing  *)
(* it, so the asker may be gone by then.  Question identifiers hold a      *)
(* clock reading in nanoseconds and are taken to be different.             *)
(***************************************************************************)
EXTENDS Mailbox

CONSTANTS Notices,     \* messages of plain Send and Broadcast calls
          Questions,   \* messages sent by Ask
          ToOf,        \* the recipients each message may be sent to
          Answers,     \* calls of Answer
          None

ASSUME NegotiatorAssumption ==
    /\ Messages = Notices \cup Questions
    /\ ToOf \in [Messages -> SUBSET (Agents \cup {All})]
    /\ \A q \in Questions : All \notin ToOf[q]
    /\ None \notin Questions \cup Answers

VARIABLES ask,         \* where each Ask is
          outcome,     \* what it returns: an answer, "error" or "timeout"
          pending,     \* Negotiator.pending: the questions with a channel
          answerCh,    \* the answer channel of each Ask, of capacity 1
          reply        \* each Answer: location and question found

askVars == <<ask, outcome, pending, answerCh, reply>>
vars == <<mailVars, askVars>>

Init ==
    /\ MailInit
    /\ ask = [q \in Questions |-> "idle"]
    /\ outcome = [q \in Questions |-> None]
    /\ pending = {}
    /\ answerCh = [q \in Questions |-> <<>>]
    /\ reply = [x \in Answers |-> [at |-> "idle", to |-> None]]

-----------------------------------------------------------------------------
\* A plain call of Send or Broadcast.
Notify(m) == (\E to \in ToOf[m] : Begin(m, to)) /\ UNCHANGED askVars

\* Register the answer channel.
AskBegins(q) ==
    /\ ask[q] = "idle"
    /\ ask' = [ask EXCEPT ![q] = "sending"]
    /\ pending' = pending \cup {q}
    /\ UNCHANGED <<mailVars, outcome, answerCh, reply>>

\* Mailbox.Send of the question.
AskSends(q) ==
    /\ ask[q] = "sending"
    /\ \E to \in ToOf[q] : Begin(q, to)
    /\ UNCHANGED askVars

AskUnsent(q) ==
    /\ ask[q] = "sending" /\ call[q].at = "error"
    /\ ask' = [ask EXCEPT ![q] = "leaving"]
    /\ outcome' = [outcome EXCEPT ![q] = "error"]
    /\ UNCHANGED <<mailVars, pending, answerCh, reply>>

Waiting(q) == ask[q] = "sending" /\ call[q].at = "ok"

AskAnswered(q) ==
    /\ Waiting(q) /\ answerCh[q] # <<>>
    /\ ask' = [ask EXCEPT ![q] = "leaving"]
    /\ outcome' = [outcome EXCEPT ![q] = Head(answerCh[q])]
    /\ answerCh' = [answerCh EXCEPT ![q] = Tail(@)]
    /\ UNCHANGED <<mailVars, pending, reply>>

\* (Variant) The asker waits as long as it takes.
AskTimesOutNever(q) == FALSE /\ UNCHANGED vars

\* The timeout or the caller's context, even with an answer waiting.
AskTimesOut(q) ==
    /\ Waiting(q)
    /\ ask' = [ask EXCEPT ![q] = "leaving"]
    /\ outcome' = [outcome EXCEPT ![q] = "timeout"]
    /\ UNCHANGED <<mailVars, pending, answerCh, reply>>

\* The deferred delete, then Ask returns.
AskReturns(q) ==
    /\ ask[q] = "leaving"
    /\ ask' = [ask EXCEPT ![q] = "done"]
    /\ pending' = pending \ {q}
    /\ UNCHANGED <<mailVars, outcome, answerCh, reply>>

AskStep(q) ==
    \/ AskSends(q) \/ AskUnsent(q) \/ AskAnswered(q)
    \/ AskTimesOut(q) \/ AskReturns(q)

-----------------------------------------------------------------------------
\* Answer a question whose identifier was read from its message.
FindQuestion(x, q) ==
    /\ reply[x].at = "idle" /\ call[q].at = "ok"
    /\ reply' = [reply EXCEPT ![x] =
                    [at |-> IF q \in pending THEN "found" ELSE "error", to |-> q]]
    /\ UNCHANGED <<mailVars, ask, outcome, pending, answerCh>>

\* The channel has room, or holds another answer already.
GiveAnswer(x) ==
    /\ reply[x].at = "found"
    /\ LET q == reply[x].to IN
       \/ /\ answerCh[q] = <<>>
          /\ answerCh' = [answerCh EXCEPT ![q] = <<x>>]
          /\ reply' = [reply EXCEPT ![x].at = "ok"]
       \/ /\ answerCh[q] # <<>>
          /\ reply' = [reply EXCEPT ![x].at = "error"]
          /\ UNCHANGED answerCh
    /\ UNCHANGED <<mailVars, ask, outcome, pending>>

-----------------------------------------------------------------------------
MailStep ==
    /\ \/ \E a \in Agents :
             Register(a) \/ Unregister(a) \/ \E n \in 1..MaxInboxes[a] : Read(a, n)
       \/ \E m \in Messages : SendStep(m)
       \/ LoopStep \/ CloseBegins \/ CloseStep
    /\ UNCHANGED askVars

\* A panic ends the program.
Next ==
    /\ ~panicked
    /\ \/ MailStep
       \/ \E m \in Notices : Notify(m)
       \/ \E q \in Questions : AskBegins(q) \/ AskStep(q)
       \/ \E x \in Answers : GiveAnswer(x) \/ \E q \in Questions : FindQuestion(x, q)

SafeSpec == Init /\ [][Next]_vars

\* Goroutines that can go on do, and the timer of Ask fires.  Nobody need
\* register, read an inbox, answer or close, nor any other sender go on.
Spec ==
    /\ SafeSpec
    /\ WF_vars(~panicked /\ LoopStep /\ UNCHANGED askVars)
    /\ WF_vars(~panicked /\ CloseStep /\ UNCHANGED askVars)
    /\ \A q \in Questions :
          WF_vars(~panicked /\ (AskStep(q) \/ (SendStep(q) /\ UNCHANGED askVars)))

-----------------------------------------------------------------------------
\* Broadcasts reach an inbox in the order in which they were accepted, once, and
\* never that of their sender, also while inboxes overflow, come and go.
Position(m) == CHOOSE k \in DOMAIN accepted : accepted[k] = m

BroadcastsInOrder ==
    \A a \in Agents : \A n \in 1..MaxInboxes[a] :
        LET put == inbox[a][n].put
            heard == {k \in DOMAIN put : call[put[k]].to = All}
        IN  /\ \A k \in heard : FromOf[put[k]] # a
            /\ \A k, l \in heard : k < l => Position(put[k]) < Position(put[l])

\* When the loop has done with a broadcast it is in the inbox of every agent
\* registered, its sender aside, unless that inbox was full when its turn came.
EveryoneHears ==
    [][loop.at = "deliver" /\ loop'.at # "deliver" =>
          \A a \in Registered \ {FromOf[loop.msg]} :
              \/ loop.msg \in dropped'[a]
              \/ \E j \in DOMAIN inbox'[a][boxes[a]].put :
                    inbox'[a][boxes[a]].put[j] = loop.msg]_vars

\* Ask returns, whether or not its question was delivered, read or answered.
AskComesBack ==
    \A q \in Questions : ask[q] = "sending" ~> ask[q] = "done" \/ panicked

\* Close returns and ends broadcastLoop, although nobody reads the inboxes.
CloseComesBack ==
    closing = "swapped" ~> (closing = "done" /\ loop.at = "ended") \/ panicked

-----------------------------------------------------------------------------
(* What the mailbox says of itself and the code does not do.               *)

\* A call that comes too late gets the error "mailbox is closed": closing the
\* mailbox never makes a Send or Broadcast panic.  (Inboxes closed by
\* Unregister are left aside.)
ClosingIsSafe ==
    [][panicked' /\ ~panicked => closing = "open"]_vars

=============================================================================
