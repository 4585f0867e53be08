-------------------------- MODULE NegotiatorProofs --------------------------
(***************************************************************************)
(* What the mailbox promises of broadcasts, for every number of agents,    *)
(* messages, questions and answers and for queues of every capacity:       *)
(* inboxes get them in the order in which they were accepted, once, and    *)
(* all that have room get them, however calls, registrations, the          *)
(* broadcast loop and Close interleave.                                    *)
(***************************************************************************)
EXTENDS Negotiator, SequenceTheorems, TLAPS

Locations == {"idle", "error", "publish", "lookup", "deliver", "ok"}

Inboxes(a) == 1..MaxInboxes[a]

Inbox == [put : Seq(Messages), taken : Nat]

\* A message that is to be put in an inbox has one.
CallTypes ==
    /\ call \in [Messages -> [at : Locations, to : Agents \cup {All}, box : Nat]]
    /\ \A m \in Messages :
          /\ call[m].at = "publish" => call[m].to = All
          /\ call[m].at \in {"lookup", "deliver"} => call[m].to \in Agents
          /\ call[m].at = "deliver" => call[m].box \in Inboxes(call[m].to)

InboxTypes ==
    /\ inbox = [a \in Agents |-> inbox[a]]
    /\ \A a \in Agents : inbox[a] \in [Inboxes(a) -> Inbox]

LoopTypes ==
    \/ loop = Receiving \/ loop = [at |-> "ended"]
    \/ \E m \in Messages, left \in SUBSET Agents :
          left # {} /\ loop = [at |-> "deliver", msg |-> m, left |-> left]

MailTypes ==
    /\ boxes \in [Agents -> Nat] /\ made \in [Agents -> Nat]
    /\ \A a \in Agents : boxes[a] <= made[a] /\ made[a] <= MaxInboxes[a]
    /\ InboxTypes /\ LoopTypes /\ CallTypes
    /\ broadcast \in Seq(Messages) /\ accepted \in Seq(Messages)
    /\ dropped \in [Agents -> SUBSET Messages]

\* Broadcasts that the loop has received.
Received == Len(accepted) - Len(broadcast)

\* Each broadcast is accepted once, and its call is over.
AcceptedInv ==
    /\ \A i \in DOMAIN accepted : call[accepted[i]].at = "ok" /\ call[accepted[i]].to = All
    /\ \A i, j \in DOMAIN accepted : accepted[i] = accepted[j] => i = j

\* The queue holds the last ones accepted.
QueueInv ==
    /\ Len(broadcast) <= Len(accepted)
    /\ \A i \in DOMAIN broadcast : broadcast[i] = accepted[Received + i]

\* The loop serves the last one it received, to agents that are registered.
LoopInv ==
    loop.at = "deliver" =>
        /\ Received > 0 /\ loop.msg = accepted[Received]
        /\ loop.left \subseteq Registered \ {FromOf[loop.msg]}

\* A broadcast in an inbox was received, and is not the one that is to come.
PutInv ==
    \A a \in Agents : \A n \in Inboxes(a) : \A k \in DOMAIN inbox[a][n].put :
        LET m == inbox[a][n].put[k] IN
        /\ call[m].at # "idle"
        /\ call[m].to = All =>
              /\ FromOf[m] # a
              /\ \E i \in 1..Received :
                    accepted[i] = m /\ (loop.at = "deliver" /\ a \in loop.left => i < Received)

\* An inbox's broadcasts are in the order of their acceptance.
SortedInv ==
    \A a \in Agents : \A n \in Inboxes(a) : \A k, l \in DOMAIN inbox[a][n].put :
        k < l => \A i, j \in DOMAIN accepted :
            accepted[i] = inbox[a][n].put[k] /\ accepted[j] = inbox[a][n].put[l] => i < j

\* Who has been served has the broadcast, or had no room.
ServedInv ==
    loop.at = "deliver" => \A a \in Registered \ {FromOf[loop.msg]} :
        \/ a \in loop.left
        \/ loop.msg \in dropped[a]
        \/ \E j \in DOMAIN inbox[a][boxes[a]].put : inbox[a][boxes[a]].put[j] = loop.msg

MailInv == AcceptedInv /\ QueueInv /\ LoopInv /\ PutInv /\ SortedInv /\ ServedInv

-----------------------------------------------------------------------------
(* Types                                                                   *)

InboxBecomes(a, n, box) == inbox' = [inbox EXCEPT ![a] = [inbox[a] EXCEPT ![n] = box]]

\* One inbox changes; the others stay as they are.
LEMMA InboxChanges ==
    ASSUME InboxTypes, NEW a \in Agents, NEW n \in Inboxes(a), NEW box \in Inbox,
           InboxBecomes(a, n, box)
    PROVE  /\ InboxTypes' /\ inbox'[a][n] = box
           /\ \A b \in Agents : \A k \in Inboxes(b) :
                 b # a \/ k # n => inbox'[b][k] = inbox[b][k]
<1>1. inbox = [b \in Agents |-> inbox[b]] /\ \A b \in Agents : inbox[b] \in [Inboxes(b) -> Inbox]
  BY DEF InboxTypes
<1> DEFINE row == [inbox[a] EXCEPT ![n] = box]
<1>2. row \in [Inboxes(a) -> Inbox] /\ row[n] = box /\ \A k \in Inboxes(a) : k # n => row[k] = inbox[a][k]
  BY <1>1
<1> HIDE DEF row
<1>3. inbox' = [b \in Agents |-> IF b = a THEN row ELSE inbox[b]]
  BY <1>1 DEF row, InboxBecomes
<1>4. inbox'[a] = row /\ \A b \in Agents : b # a => inbox'[b] = inbox[b]
  BY <1>3
<1>5. inbox' = [b \in Agents |-> inbox'[b]]
  BY <1>3
<1>6. \A b \in Agents : inbox'[b] \in [Inboxes(b) -> Inbox]
  BY <1>1, <1>2, <1>4
<1>7. InboxTypes'
  BY <1>5, <1>6 DEF InboxTypes, Inboxes, Inbox
<1> QED BY <1>2, <1>4, <1>7

\* A message is put at the end of one inbox.
LEMMA PutFacts ==
    ASSUME InboxTypes, NEW a \in Agents, NEW n \in Inboxes(a), NEW m \in Messages, PutIn(a, n, m)
    PROVE  /\ InboxTypes' /\ inbox[a][n].put \in Seq(Messages)
           /\ inbox'[a][n].put = Append(inbox[a][n].put, m)
           /\ \A b \in Agents : \A k \in Inboxes(b) :
                 b # a \/ k # n => inbox'[b][k] = inbox[b][k]
<1>1. inbox[a][n] \in Inbox
  BY DEF InboxTypes
<1> DEFINE longer == Append(inbox[a][n].put, m)
<1>2. inbox[a][n].put \in Seq(Messages) /\ longer \in Seq(Messages)
  BY <1>1, AppendProperties DEF Inbox
<1>3. inbox' = [inbox EXCEPT ![a] = [inbox[a] EXCEPT ![n] = [inbox[a][n] EXCEPT !.put = longer]]]
  BY DEF PutIn
<1> HIDE DEF longer
<1>4. PICK box \in Inbox :
         box.put = longer /\ InboxBecomes(a, n, box)
  BY <1>1, <1>2, <1>3 DEF Inbox, InboxBecomes
<1>5. /\ InboxTypes' /\ inbox'[a][n] = box
      /\ \A b \in Agents : \A k \in Inboxes(b) : b # a \/ k # n => inbox'[b][k] = inbox[b][k]
  BY <1>4, InboxChanges
<1>6. inbox'[a][n].put = Append(inbox[a][n].put, m)
  BY <1>4, <1>5 DEF longer
<1> QED BY <1>2, <1>5, <1>6

\* Reading takes nothing out of what was put in.
LEMMA ReadFacts ==
    ASSUME InboxTypes, NEW a \in Agents, NEW n \in Inboxes(a), Read(a, n)
    PROVE  /\ InboxTypes'
           /\ \A b \in Agents : \A k \in Inboxes(b) : inbox'[b][k].put = inbox[b][k].put
<1>1. inbox[a][n] \in Inbox
  BY DEF InboxTypes
<1> DEFINE box == [inbox[a][n] EXCEPT !.taken = inbox[a][n].taken + 1]
<1>2. box \in Inbox /\ box.put = inbox[a][n].put
  BY <1>1 DEF Inbox
<1>3. InboxBecomes(a, n, box)
  BY DEF Read, InboxBecomes
<1> HIDE DEF box
<1>4. /\ InboxTypes' /\ inbox'[a][n] = box
      /\ \A b \in Agents : \A k \in Inboxes(b) : b # a \/ k # n => inbox'[b][k] = inbox[b][k]
  BY <1>2, <1>3, InboxChanges
<1> QED BY <1>2, <1>4

\* One call goes on; its recipient stays.
LEMMA CallGoes ==
    ASSUME CallTypes, NEW m \in Messages, NEW loc \in Locations,
           call' = [call EXCEPT ![m].at = loc],
           loc = "publish" => call[m].to = All,
           loc \in {"lookup", "deliver"} => FALSE
    PROVE  /\ CallTypes' /\ call'[m].at = loc /\ call'[m].to = call[m].to
           /\ \A o \in Messages : o # m => call'[o] = call[o]
<1>1. call[m] \in [at : Locations, to : Agents \cup {All}, box : Nat]
  BY DEF CallTypes
<1> DEFINE c == [call[m] EXCEPT !.at = loc]
<1>2. c \in [at : Locations, to : Agents \cup {All}, box : Nat] /\ c.at = loc /\ c.to = call[m].to
  BY <1>1
<1>3. call' = [call EXCEPT ![m] = c]
  OBVIOUS
<1> HIDE DEF c
<1>4. /\ call' \in [Messages -> [at : Locations, to : Agents \cup {All}, box : Nat]]
      /\ call'[m] = c /\ \A o \in Messages : o # m => call'[o] = call[o]
  BY <1>2, <1>3 DEF CallTypes
<1>5. CallTypes'
  BY <1>2, <1>4 DEF CallTypes, Inboxes
<1> QED BY <1>2, <1>4, <1>5

\* A call begins, to one of its message's recipients.
LEMMA BeginFacts ==
    ASSUME CallTypes, NEW m \in Messages, NEW to \in ToOf[m], Begin(m, to)
    PROVE  /\ CallTypes' /\ call[m].at = "idle" /\ call'[m].at # "idle"
           /\ \A o \in Messages : o # m => call'[o] = call[o]
<1>1. call[m] \in [at : Locations, to : Agents \cup {All}, box : Nat] /\ to \in Agents \cup {All}
  BY NegotiatorAssumption DEF CallTypes
<1> DEFINE loc == IF closing # "open" THEN "error"
                  ELSE IF to = All THEN "publish" ELSE "lookup"
           c == [call[m] EXCEPT !.to = to, !.at = loc]
<1>2. loc \in Locations /\ loc \notin {"idle", "deliver", "ok"} /\ (loc = "publish" => to = All)
      /\ (loc = "lookup" => to \in Agents)
  BY <1>1 DEF Locations
<1>3. call' = [call EXCEPT ![m] = c] /\ call[m].at = "idle"
  BY DEF Begin
<1> HIDE DEF loc
<1>4. c \in [at : Locations, to : Agents \cup {All}, box : Nat] /\ c.at = loc /\ c.to = to
  BY <1>1, <1>2
<1> HIDE DEF c
<1>5. /\ call' \in [Messages -> [at : Locations, to : Agents \cup {All}, box : Nat]]
      /\ call'[m] = c /\ \A o \in Messages : o # m => call'[o] = call[o]
  BY <1>3, <1>4 DEF CallTypes
<1>6. CallTypes'
  BY <1>2, <1>4, <1>5 DEF CallTypes, Inboxes
<1> QED BY <1>2, <1>3, <1>4, <1>5, <1>6

\* The inbox looked up is one the agent was given.
LEMMA LookupFacts ==
    ASSUME MailTypes, NEW m \in Messages, Lookup(m)
    PROVE  /\ CallTypes' /\ call[m].at = "lookup" /\ call'[m].at \in {"error", "deliver"}
           /\ call'[m].to = call[m].to
           /\ \A o \in Messages : o # m => call'[o] = call[o]
<1> DEFINE n == boxes[call[m].to]
           loc == IF n = 0 THEN "error" ELSE "deliver"
           c == [call[m] EXCEPT !.at = loc, !.box = n]
<1>1. /\ call[m] \in [at : Locations, to : Agents \cup {All}, box : Nat]
      /\ call[m].at = "lookup" /\ call[m].to \in Agents
  BY DEF MailTypes, CallTypes, Lookup
<1>2. n \in Nat /\ (n # 0 => n \in Inboxes(call[m].to))
  BY <1>1, MailboxAssumption DEF MailTypes, Inboxes
<1>3. call' = [call EXCEPT ![m] = c]
  BY DEF Lookup
<1>4. loc \in Locations /\ loc \in {"error", "deliver"} /\ (loc = "deliver" => n # 0)
  BY DEF Locations
<1> HIDE DEF n, loc
<1>5. c \in [at : Locations, to : Agents \cup {All}, box : Nat] /\ c.at = loc /\ c.to = call[m].to /\ c.box = n
  BY <1>1, <1>2, <1>4
<1> HIDE DEF c
<1>6. /\ call' \in [Messages -> [at : Locations, to : Agents \cup {All}, box : Nat]]
      /\ call'[m] = c /\ \A o \in Messages : o # m => call'[o] = call[o]
  BY <1>3, <1>5 DEF MailTypes, CallTypes
<1>7. CallTypes'
  BY <1>1, <1>2, <1>4, <1>5, <1>6 DEF MailTypes, CallTypes, Inboxes
<1> QED BY <1>1, <1>4, <1>5, <1>6, <1>7

\* The loop serves a message to a set of agents, or has nothing to do.
LEMMA ServingTypes ==
    ASSUME NEW m \in Messages, NEW left \in SUBSET Agents, loop' = Serving(m, left)
    PROVE  LoopTypes'
<1>1. CASE left = {}
  BY <1>1 DEF Serving, LoopTypes
<1>2. CASE left # {}
  BY <1>2 DEF Serving, LoopTypes, Receiving
<1> QED BY <1>1, <1>2

\* A message under way.
LEMMA LoopFacts ==
    ASSUME LoopTypes, loop.at = "deliver"
    PROVE  loop.msg \in Messages /\ loop.left \in SUBSET Agents /\ loop.left # {}
<1>1. loop # Receiving /\ loop # [at |-> "ended"]
  BY DEF Receiving
<1>2. PICK m \in Messages, left \in SUBSET Agents :
         left # {} /\ loop = [at |-> "deliver", msg |-> m, left |-> left]
  BY <1>1 DEF LoopTypes
<1> QED BY <1>2

-----------------------------------------------------------------------------
(* Steps                                                                   *)

\* Calls go on; those that have begun keep their recipient.
CallsGoOn ==
    \A m \in Messages : call[m].at # "idle" =>
        /\ call'[m].at # "idle" /\ call'[m].to = call[m].to
        /\ call[m].at = "ok" => call'[m].at = "ok"

\* No broadcast moves.
Steady ==
    /\ UNCHANGED <<accepted, broadcast, dropped>>
    /\ loop' = loop \/ (loop.at # "deliver" /\ loop'.at # "deliver")
    /\ loop.at = "deliver" => boxes' = boxes
    /\ \A a \in Agents : \A n \in Inboxes(a) : inbox'[a][n].put = inbox[a][n].put
    /\ CallsGoOn

\* A message of Send is put in its inbox.
Delivers(m) ==
    /\ call[m].at = "deliver"
    /\ PutIn(call[m].to, call[m].box, m)
    /\ call' = [call EXCEPT ![m].at = "ok"]
    /\ UNCHANGED <<boxes, made, broadcast, loop, accepted, dropped>>

\* A broadcast is accepted.
Accepts(m) ==
    /\ call[m].at = "publish"
    /\ broadcast' = Append(broadcast, m)
    /\ accepted' = Append(accepted, m)
    /\ call' = [call EXCEPT ![m].at = "ok"]
    /\ UNCHANGED <<boxes, made, inbox, loop, dropped>>

\* When only calls go on nothing else changes.
LEMMA OnlyCalls ==
    ASSUME MailTypes, UNCHANGED <<boxes, made, inbox, broadcast, loop, accepted, dropped>>,
           CallTypes', CallsGoOn
    PROVE  MailTypes' /\ Steady
<1>1. InboxTypes' /\ LoopTypes'
  BY DEF MailTypes, InboxTypes, LoopTypes, Receiving
<1> QED BY <1>1 DEF MailTypes, Steady

\* When no call goes on.
LEMMA NoCall ==
    ASSUME CallTypes, call' = call
    PROVE  CallTypes' /\ CallsGoOn
BY DEF CallTypes, CallsGoOn

\* One call goes on, and it had begun.
LEMMA CallGoesOn ==
    ASSUME CallTypes, NEW m \in Messages, NEW loc \in {"error", "ok"}, call[m].at # "ok",
           call' = [call EXCEPT ![m].at = loc]
    PROVE  CallTypes' /\ CallsGoOn /\ call'[m].at = loc /\ call'[m].to = call[m].to
           /\ \A o \in Messages : o # m => call'[o] = call[o]
<1>1. loc \in Locations /\ loc # "publish" /\ loc \notin {"lookup", "deliver"}
  BY DEF Locations
<1>2. /\ CallTypes' /\ call'[m].at = loc /\ call'[m].to = call[m].to
      /\ \A o \in Messages : o # m => call'[o] = call[o]
  BY <1>1, CallGoes
<1> QED BY <1>2 DEF CallsGoOn

\* A call of Send or Broadcast goes on.
LEMMA SendMoves ==
    ASSUME MailTypes, NEW m \in Messages, SendStep(m)
    PROVE  \/ MailTypes' /\ Steady
           \/ Delivers(m) \/ Accepts(m)
<1>0. CallTypes
  BY DEF MailTypes
<1>1. CASE Lookup(m)
  <2>1. CallsGoOn
    BY <1>1, LookupFacts DEF CallsGoOn
  <2> QED BY <1>1, <2>1, LookupFacts, OnlyCalls DEF Lookup
<1>2. ASSUME call[m].at \in {"deliver", "publish"}, Panic \/ CallGoesTo(m, "error")
      PROVE  MailTypes' /\ Steady
  <2>1. CASE Panic
    BY <1>0, <2>1, NoCall, OnlyCalls DEF Panic
  <2>2. CASE CallGoesTo(m, "error")
    <3>1. CallTypes' /\ CallsGoOn
      BY <1>0, <1>2, <2>2, CallGoesOn DEF CallGoesTo
    <3> QED BY <2>2, <3>1, OnlyCalls DEF CallGoesTo
  <2> QED BY <1>2, <2>1, <2>2
<1>3. CASE Deliver(m)
  BY <1>2, <1>3 DEF Deliver, Delivers
<1>4. CASE Publish(m)
  BY <1>2, <1>4 DEF Publish, Accepts
<1> QED BY <1>1, <1>3, <1>4 DEF SendStep

\* A call begins.
LEMMA BeginMoves ==
    ASSUME MailTypes, NEW m \in Messages, NEW to \in ToOf[m], Begin(m, to)
    PROVE  MailTypes' /\ Steady
<1>1. CallTypes' /\ CallsGoOn
  BY BeginFacts DEF MailTypes, CallsGoOn
<1> QED BY <1>1, OnlyCalls DEF Begin

\* Inboxes come, go and are read, and Close goes on, while no broadcast is under way.
LEMMA BoxMoves ==
    ASSUME MailTypes, NEW a \in Agents,
           Register(a) \/ Unregister(a) \/ CloseBegins \/ CloseStep
           \/ \E n \in 1..MaxInboxes[a] : Read(a, n)
    PROVE  MailTypes' /\ Steady
<1>0. CallTypes /\ InboxTypes
  BY DEF MailTypes
<1>1. CASE \E n \in 1..MaxInboxes[a] : Read(a, n)
  <2>1. PICK n \in Inboxes(a) : Read(a, n)
    BY <1>1 DEF Inboxes
  <2>2. InboxTypes' /\ \A b \in Agents : \A k \in Inboxes(b) : inbox'[b][k].put = inbox[b][k].put
    BY <1>0, <2>1, ReadFacts
  <2>3. UNCHANGED <<boxes, made, broadcast, loop, call, accepted, dropped>>
    BY <2>1 DEF Read
  <2>4. CallTypes' /\ CallsGoOn
    BY <1>0, <2>3, NoCall
  <2>5. MailTypes'
    BY <2>2, <2>3, <2>4 DEF MailTypes, LoopTypes
  <2> QED BY <2>2, <2>3, <2>4, <2>5 DEF Steady
<1>2. ASSUME boxes' \in [Agents -> Nat], made' \in [Agents -> Nat],
             \A b \in Agents : boxes'[b] <= made'[b] /\ made'[b] <= MaxInboxes[b],
             loop.at # "deliver",
             UNCHANGED <<inbox, broadcast, loop, call, accepted, dropped>>
      PROVE  MailTypes' /\ Steady
  <2>1. CallTypes' /\ CallsGoOn
    BY <1>0, <1>2, NoCall
  <2>2. InboxTypes' /\ LoopTypes'
    BY <1>2 DEF MailTypes, InboxTypes, LoopTypes, Receiving
  <2> QED BY <1>2, <2>1, <2>2 DEF MailTypes, Steady
<1>3. \A b \in Agents : /\ boxes[b] \in Nat /\ made[b] \in Nat /\ MaxInboxes[b] \in Nat
                        /\ boxes[b] <= made[b] /\ made[b] <= MaxInboxes[b]
  BY MailboxAssumption DEF MailTypes
<1>4. CASE Register(a)
  <2>1. /\ boxes' = [boxes EXCEPT ![a] = made[a] + 1] /\ made' = [made EXCEPT ![a] = made[a] + 1]
        /\ made[a] < MaxInboxes[a]
    BY <1>4 DEF Register
  <2>2. boxes' \in [Agents -> Nat] /\ made' \in [Agents -> Nat]
    BY <1>3, <2>1 DEF MailTypes
  <2>3. \A b \in Agents : boxes'[b] <= made'[b] /\ made'[b] <= MaxInboxes[b]
    BY <1>3, <2>1 DEF MailTypes
  <2> QED BY <1>2, <1>4, <2>2, <2>3 DEF Register, Unlocked
<1>5. CASE Unregister(a)
  <2>1. boxes' = [boxes EXCEPT ![a] = 0] /\ made' = made
    BY <1>5 DEF Unregister
  <2>2. boxes' \in [Agents -> Nat] /\ made' \in [Agents -> Nat]
    BY <2>1 DEF MailTypes
  <2>3. \A b \in Agents : boxes'[b] <= made'[b] /\ made'[b] <= MaxInboxes[b]
    BY <1>3, <2>1 DEF MailTypes
  <2> QED BY <1>2, <1>5, <2>2, <2>3 DEF Unregister, Unlocked
<1>6. CASE CloseBegins \/ CloseBroadcast
  <2>1. UNCHANGED <<boxes, made, inbox, broadcast, loop, call, accepted, dropped>>
    BY <1>6 DEF CloseBegins, CloseBroadcast, CloseGoesTo
  <2> QED BY <1>0, <2>1, NoCall, OnlyCalls
<1>7. CASE CloseInboxes
  <2>1. boxes' = [b \in Agents |-> 0] /\ made' = made
    BY <1>7 DEF CloseInboxes, CloseGoesTo, NoInbox
  <2>2. boxes' \in [Agents -> Nat] /\ made' \in [Agents -> Nat]
    BY <2>1 DEF MailTypes
  <2>3. \A b \in Agents : boxes'[b] <= made'[b] /\ made'[b] <= MaxInboxes[b]
    BY <1>3, <2>1
  <2> QED BY <1>2, <1>7, <2>2, <2>3 DEF CloseInboxes, CloseGoesTo, Unlocked
<1> QED BY <1>1, <1>4, <1>5, <1>6, <1>7 DEF CloseStep

\* Every step leaves the broadcasts alone, or is one of four.
LEMMA NextMoves ==
    ASSUME MailTypes, [Next]_vars
    PROVE  \/ MailTypes' /\ Steady
           \/ \E m \in Messages : Delivers(m) \/ Accepts(m)
           \/ LoopReceive
           \/ \E a \in Agents : LoopDeliver(a)
<1>0. CallTypes
  BY DEF MailTypes
<1>1. CASE UNCHANGED mailVars
  BY <1>0, <1>1, NoCall, OnlyCalls DEF mailVars
<1>2. CASE UNCHANGED vars
  BY <1>1, <1>2 DEF vars
<1>3. CASE MailStep
  <2>1. CASE \E a \in Agents :
               Register(a) \/ Unregister(a) \/ \E n \in 1..MaxInboxes[a] : Read(a, n)
    BY <2>1, BoxMoves
  <2>2. CASE \E m \in Messages : SendStep(m)
    BY <2>2, SendMoves
  <2>3. CASE LoopEnds
    <3>1. /\ loop' = [at |-> "ended"]
          /\ UNCHANGED <<boxes, made, inbox, broadcast, call, accepted, dropped>>
      BY <2>3 DEF LoopEnds
    <3>2. loop'.at # "deliver" /\ LoopTypes' /\ InboxTypes'
      BY <3>1 DEF LoopTypes, MailTypes, InboxTypes
    <3>3. CallTypes' /\ CallsGoOn
      BY <1>0, <3>1, NoCall
    <3>4. MailTypes'
      BY <3>1, <3>2, <3>3 DEF MailTypes
    <3>5. loop.at # "deliver"
      BY <2>3 DEF LoopEnds
    <3> QED BY <3>1, <3>2, <3>3, <3>4, <3>5 DEF Steady
  <2>4. CASE CloseBegins \/ CloseStep
    <3>1. CASE Agents = {}
      <4>1. /\ UNCHANGED <<made, inbox, broadcast, loop, call, accepted, dropped>>
            /\ boxes' = boxes \/ boxes' = NoInbox
        BY <2>4 DEF CloseBegins, CloseStep, CloseBroadcast, CloseInboxes, CloseGoesTo
      <4>2. boxes' = boxes
        BY <3>1, <4>1 DEF MailTypes, NoInbox
      <4> QED BY <1>0, <4>1, <4>2, NoCall, OnlyCalls
    <3>2. CASE Agents # {}
      BY <2>4, <3>2, BoxMoves
    <3> QED BY <3>1, <3>2
  <2> QED BY <1>3, <2>1, <2>2, <2>3, <2>4 DEF MailStep, LoopStep
<1>4. CASE \E m \in Notices : Notify(m)
  BY <1>4, BeginMoves, NegotiatorAssumption DEF Notify
<1>5. CASE \E q \in Questions : AskSends(q)
  BY <1>5, BeginMoves, NegotiatorAssumption DEF AskSends
<1>6. CASE \E q \in Questions : AskBegins(q) \/ AskUnsent(q) \/ AskAnswered(q) \/ AskTimesOut(q) \/ AskReturns(q)
  BY <1>1, <1>6 DEF AskBegins, AskUnsent, AskAnswered, AskTimesOut, AskReturns
<1>7. CASE \E x \in Answers : GiveAnswer(x) \/ \E q \in Questions : FindQuestion(x, q)
  BY <1>1, <1>7 DEF GiveAnswer, FindQuestion
<1> QED BY <1>2, <1>3, <1>4, <1>5, <1>6, <1>7 DEF Next, AskStep

-----------------------------------------------------------------------------
(* The order of broadcasts                                                 *)

\* What inboxes and queues hold are messages, and positions are numbers.
LEMMA Elements ==
    ASSUME MailTypes
    PROVE  /\ \A a \in Agents : \A n \in Inboxes(a) :
                 /\ inbox[a][n].put \in Seq(Messages)
                 /\ \A k \in DOMAIN inbox[a][n].put : k \in Nat /\ inbox[a][n].put[k] \in Messages
           /\ \A i \in DOMAIN accepted : i \in Nat /\ accepted[i] \in Messages
           /\ DOMAIN accepted = 1..Len(accepted) /\ DOMAIN broadcast = 1..Len(broadcast)
           /\ Len(accepted) \in Nat /\ Len(broadcast) \in Nat /\ Received \in Int
<1>1. \A s \in Seq(Messages) : /\ Len(s) \in Nat /\ DOMAIN s = 1..Len(s)
                               /\ \A k \in DOMAIN s : k \in Nat /\ s[k] \in Messages
  OBVIOUS
<1>2. \A a \in Agents : \A n \in Inboxes(a) : inbox[a][n].put \in Seq(Messages)
  BY DEF MailTypes, InboxTypes, Inbox
<1>3. accepted \in Seq(Messages) /\ broadcast \in Seq(Messages)
  BY DEF MailTypes
<1> QED BY <1>1, <1>2, <1>3 DEF Received

\* A longer sequence has the same elements, and one more.
LEMMA Longer ==
    ASSUME NEW s \in Seq(Messages), NEW m \in Messages
    PROVE  /\ DOMAIN Append(s, m) = 1..(Len(s) + 1) /\ DOMAIN s = 1..Len(s) /\ Len(s) \in Nat
           /\ \A k \in DOMAIN s : k \in DOMAIN Append(s, m) /\ Append(s, m)[k] = s[k]
           /\ \A k \in DOMAIN Append(s, m) : k \in DOMAIN s \/ k = Len(s) + 1
           /\ Append(s, m)[Len(s) + 1] = m
OBVIOUS

\* A step that moves no broadcast keeps them in order.
LEMMA SteadyKeeps ==
    ASSUME MailTypes, MailInv, Steady
    PROVE  MailInv'
<1> USE DEF MailInv
<1>1. /\ accepted' = accepted /\ broadcast' = broadcast /\ dropped' = dropped /\ Received' = Received
      /\ \A a \in Agents : \A n \in Inboxes(a) : inbox'[a][n].put = inbox[a][n].put
      /\ \A m \in Messages : call[m].at # "idle" =>
            /\ call'[m].at # "idle" /\ call'[m].to = call[m].to
            /\ call[m].at = "ok" => call'[m].at = "ok"
  BY DEF Steady, CallsGoOn, Received
<1>2. loop'.at = "deliver" =>
        /\ loop.at = "deliver" /\ loop' = loop /\ boxes' = boxes /\ Registered' = Registered
  BY DEF Steady, Registered
<1>3. AcceptedInv'
  <2>1. \A i \in DOMAIN accepted : call'[accepted[i]].at = "ok" /\ call'[accepted[i]].to = All
    BY <1>1, Elements DEF AcceptedInv
  <2> QED BY <1>1, <2>1 DEF AcceptedInv
<1>4. QueueInv'
  BY <1>1 DEF QueueInv
<1>5. LoopInv'
  BY <1>1, <1>2 DEF LoopInv
<1>6. PutInv'
  <2> SUFFICES ASSUME NEW a \in Agents, NEW n \in Inboxes(a), NEW k \in DOMAIN inbox[a][n].put
               PROVE  LET m == inbox[a][n].put[k] IN
                      /\ call'[m].at # "idle"
                      /\ call'[m].to = All =>
                            /\ FromOf[m] # a
                            /\ \E i \in 1..Received :
                                  accepted[i] = m /\ (loop'.at = "deliver" /\ a \in loop'.left => i < Received)
    BY <1>1 DEF PutInv, Inboxes
  <2> DEFINE m == inbox[a][n].put[k]
  <2>1. m \in Messages
    BY Elements
  <2>2. /\ call[m].at # "idle"
        /\ call[m].to = All =>
              /\ FromOf[m] # a
              /\ \E i \in 1..Received :
                    accepted[i] = m /\ (loop.at = "deliver" /\ a \in loop.left => i < Received)
    BY DEF PutInv
  <2> HIDE DEF m
  <2>3. call'[m].at # "idle" /\ call'[m].to = call[m].to
    BY <1>1, <2>1, <2>2
  <2>4. call'[m].to = All =>
           /\ FromOf[m] # a
           /\ \E i \in 1..Received :
                 accepted[i] = m /\ (loop'.at = "deliver" /\ a \in loop'.left => i < Received)
    BY <1>2, <2>2, <2>3
  <2> QED BY <2>3, <2>4 DEF m
<1>7. SortedInv'
  BY <1>1 DEF SortedInv, Inboxes
<1>8. ServedInv'
  <2> SUFFICES ASSUME loop'.at = "deliver", NEW a \in Registered \ {FromOf[loop.msg]}
               PROVE  \/ a \in loop.left
                      \/ loop.msg \in dropped[a]
                      \/ \E j \in DOMAIN inbox'[a][boxes[a]].put : inbox'[a][boxes[a]].put[j] = loop.msg
    BY <1>1, <1>2 DEF ServedInv
  <2>1. a \in Agents /\ boxes[a] \in Inboxes(a)
    BY MailboxAssumption DEF Registered, MailTypes, Inboxes
  <2> QED BY <1>1, <1>2, <2>1 DEF ServedInv
<1> QED BY <1>3, <1>4, <1>5, <1>6, <1>7, <1>8

\* A message of Send is put behind the broadcasts of an inbox and is none.
LEMMA DeliversKeeps ==
    ASSUME MailTypes, MailInv, NEW m \in Messages, Delivers(m)
    PROVE  MailTypes' /\ MailInv'
<1> USE DEF MailInv
<1> DEFINE b == call[m].to
           x == call[m].box
           put == inbox[b][x].put
<1>1. b \in Agents /\ x \in Inboxes(b) /\ b # All /\ call[m].at = "deliver"
  BY MailboxAssumption DEF Delivers, MailTypes, CallTypes
<1>2. /\ InboxTypes' /\ put \in Seq(Messages) /\ inbox'[b][x].put = Append(put, m)
      /\ \A a \in Agents : \A n \in Inboxes(a) : a # b \/ n # x => inbox'[a][n] = inbox[a][n]
  BY <1>1, PutFacts DEF Delivers, MailTypes
<1>3. UNCHANGED <<boxes, made, broadcast, loop, accepted, dropped>>
  BY DEF Delivers
<1>4. /\ CallTypes' /\ CallsGoOn /\ call'[m].at = "ok" /\ call'[m].to = b
      /\ \A o \in Messages : o # m => call'[o] = call[o]
  BY <1>1, CallGoesOn DEF Delivers, MailTypes
<1>5. MailTypes'
  BY <1>2, <1>3, <1>4 DEF MailTypes, LoopTypes
<1> HIDE DEF put, b, x
<1>6. /\ \A k \in DOMAIN put : k \in DOMAIN Append(put, m) /\ Append(put, m)[k] = put[k]
      /\ \A k \in DOMAIN Append(put, m) : k \in DOMAIN put \/ k = Len(put) + 1
      /\ Append(put, m)[Len(put) + 1] = m
  BY <1>2, Longer
<1>7. ASSUME NEW a \in Agents, NEW n \in Inboxes(a)
      PROVE  /\ \A k \in DOMAIN inbox'[a][n].put :
                   \/ k \in DOMAIN inbox[a][n].put /\ inbox'[a][n].put[k] = inbox[a][n].put[k]
                   \/ a = b /\ n = x /\ k = Len(put) + 1 /\ inbox'[a][n].put[k] = m
             /\ \A k \in DOMAIN inbox[a][n].put :
                   k \in DOMAIN inbox'[a][n].put /\ inbox'[a][n].put[k] = inbox[a][n].put[k]
  <2>1. CASE a = b /\ n = x
    <3>1. inbox[a][n].put = put /\ inbox'[a][n].put = Append(put, m)
      BY <1>2, <2>1 DEF put
    <3> QED BY <1>6, <2>1, <3>1
  <2>2. CASE ~(a = b /\ n = x)
    BY <1>2, <1>7, <2>2
  <2> QED BY <2>1, <2>2
<1>9. \A i \in DOMAIN accepted : accepted[i] # m
  BY <1>1 DEF AcceptedInv
<1>10. AcceptedInv'
  <2>1. \A i \in DOMAIN accepted : call'[accepted[i]] = call[accepted[i]]
    BY <1>4, <1>9, Elements
  <2> QED BY <1>3, <2>1 DEF AcceptedInv
<1>11. QueueInv' /\ LoopInv' /\ Received' = Received
  BY <1>3 DEF QueueInv, LoopInv, Received, Registered
<1>12. PutInv'
  <2> SUFFICES ASSUME NEW a \in Agents, NEW n \in Inboxes(a), NEW k \in DOMAIN inbox'[a][n].put
               PROVE  LET o == inbox'[a][n].put[k] IN
                      /\ call'[o].at # "idle"
                      /\ call'[o].to = All =>
                            /\ FromOf[o] # a
                            /\ \E i \in 1..Received :
                                  accepted[i] = o /\ (loop.at = "deliver" /\ a \in loop.left => i < Received)
    BY <1>3, <1>11 DEF PutInv, Inboxes
  <2> DEFINE o == inbox'[a][n].put[k]
  <2>1. CASE o = m
    BY <1>1, <1>4, <2>1
  <2>2. CASE k \in DOMAIN inbox[a][n].put /\ o = inbox[a][n].put[k] /\ o # m
    <3>1. o \in Messages
      BY <2>2, Elements
    <3>2. call'[o] = call[o]
      BY <1>4, <2>2, <3>1
    <3>3. LET p == inbox[a][n].put[k] IN
          /\ call[p].at # "idle"
          /\ call[p].to = All =>
                /\ FromOf[p] # a
                /\ \E i \in 1..Received :
                      accepted[i] = p /\ (loop.at = "deliver" /\ a \in loop.left => i < Received)
      BY <2>2 DEF PutInv
    <3> QED BY <2>2, <3>2, <3>3
  <2> QED BY <1>7, <2>1, <2>2
<1>13. SortedInv'
  <2> SUFFICES ASSUME NEW a \in Agents, NEW n \in Inboxes(a),
                      NEW k \in DOMAIN inbox'[a][n].put, NEW l \in DOMAIN inbox'[a][n].put, k < l,
                      NEW i \in DOMAIN accepted, NEW j \in DOMAIN accepted,
                      accepted[i] = inbox'[a][n].put[k], accepted[j] = inbox'[a][n].put[l]
               PROVE  i < j
    BY <1>3 DEF SortedInv, Inboxes
  <2>1. /\ k \in DOMAIN inbox[a][n].put /\ inbox'[a][n].put[k] = inbox[a][n].put[k]
        /\ l \in DOMAIN inbox[a][n].put /\ inbox'[a][n].put[l] = inbox[a][n].put[l]
    BY <1>7, <1>9
  <2> QED BY <2>1 DEF SortedInv
<1>14. ServedInv'
  <2> SUFFICES ASSUME loop.at = "deliver", NEW a \in Registered \ {FromOf[loop.msg]}
               PROVE  \/ a \in loop.left
                      \/ loop.msg \in dropped[a]
                      \/ \E j \in DOMAIN inbox'[a][boxes[a]].put : inbox'[a][boxes[a]].put[j] = loop.msg
    BY <1>3 DEF ServedInv, Registered
  <2>1. a \in Agents /\ boxes[a] \in Inboxes(a)
    BY MailboxAssumption DEF Registered, MailTypes, Inboxes
  <2> QED BY <1>7, <2>1 DEF ServedInv
<1> QED BY <1>5, <1>10, <1>11, <1>12, <1>13, <1>14

\* A broadcast is accepted behind the others, and is in no inbox yet.
LEMMA AcceptsKeeps ==
    ASSUME MailTypes, MailInv, NEW m \in Messages, Accepts(m)
    PROVE  MailTypes' /\ MailInv'
<1> USE DEF MailInv
<1>1. /\ call[m].at = "publish" /\ broadcast' = Append(broadcast, m) /\ accepted' = Append(accepted, m)
      /\ UNCHANGED <<boxes, made, inbox, loop, dropped>>
  BY DEF Accepts
<1>2. /\ CallTypes' /\ CallsGoOn /\ call'[m].at = "ok" /\ call'[m].to = All
      /\ \A o \in Messages : o # m => call'[o] = call[o]
  BY <1>1, CallGoesOn DEF Accepts, MailTypes, CallTypes
<1>3. accepted \in Seq(Messages) /\ broadcast \in Seq(Messages)
  BY DEF MailTypes
<1>4. /\ Len(accepted') = Len(accepted) + 1 /\ DOMAIN accepted' = 1..(Len(accepted) + 1)
      /\ \A i \in DOMAIN accepted : accepted'[i] = accepted[i]
      /\ accepted'[Len(accepted) + 1] = m /\ accepted' \in Seq(Messages)
      /\ DOMAIN accepted = 1..Len(accepted) /\ Len(accepted) \in Nat
  BY <1>1, <1>3
<1>5. /\ Len(broadcast') = Len(broadcast) + 1 /\ DOMAIN broadcast' = 1..(Len(broadcast) + 1)
      /\ \A i \in DOMAIN broadcast : broadcast'[i] = broadcast[i]
      /\ broadcast'[Len(broadcast) + 1] = m /\ broadcast' \in Seq(Messages)
      /\ DOMAIN broadcast = 1..Len(broadcast) /\ Len(broadcast) \in Nat
  BY <1>1, <1>3
<1>6. Received' = Received /\ Received \in Int /\ Received <= Len(accepted) /\ Received >= 0
  BY <1>4, <1>5 DEF Received, QueueInv
<1>7. MailTypes'
  <2>1. InboxTypes' /\ LoopTypes'
    BY <1>1 DEF MailTypes, InboxTypes, LoopTypes
  <2> QED BY <1>1, <1>2, <1>4, <1>5, <2>1 DEF MailTypes
<1>8. \A i \in DOMAIN accepted : accepted[i] # m
  BY <1>1 DEF AcceptedInv
<1>9. \A i \in DOMAIN accepted' : i \in DOMAIN accepted \/ i = Len(accepted) + 1
  BY <1>4
<1>10. AcceptedInv'
  <2>1. \A i \in DOMAIN accepted' : call'[accepted'[i]].at = "ok" /\ call'[accepted'[i]].to = All
    <3>1. ASSUME NEW i \in DOMAIN accepted
          PROVE  call'[accepted'[i]].at = "ok" /\ call'[accepted'[i]].to = All
      <4>1. accepted'[i] = accepted[i] /\ accepted[i] \in Messages /\ accepted[i] # m
        BY <1>4, <1>8, Elements
      <4> QED BY <1>2, <4>1 DEF AcceptedInv
    <3> QED BY <1>2, <1>4, <1>9, <3>1
  <2>2. \A i, j \in DOMAIN accepted' : accepted'[i] = accepted'[j] => i = j
    BY <1>4, <1>8, <1>9 DEF AcceptedInv
  <2> QED BY <2>1, <2>2 DEF AcceptedInv
<1>11. QueueInv'
  <2>1. \A i \in DOMAIN broadcast' : broadcast'[i] = accepted'[Received + i]
    <3>1. ASSUME NEW i \in DOMAIN broadcast PROVE broadcast'[i] = accepted'[Received + i]
      <4>1. Received + i \in DOMAIN accepted
        BY <1>4, <1>5, <1>6 DEF Received
      <4> QED BY <1>4, <1>5, <4>1 DEF QueueInv
    <3>2. Received + (Len(broadcast) + 1) = Len(accepted) + 1
      BY <1>4, <1>5 DEF Received
    <3>3. \A i \in DOMAIN broadcast' : i \in DOMAIN broadcast \/ i = Len(broadcast) + 1
      BY <1>5
    <3> QED BY <1>4, <1>5, <3>1, <3>2, <3>3
  <2>2. Len(broadcast') <= Len(accepted')
    BY <1>4, <1>5 DEF QueueInv
  <2> QED BY <1>6, <2>1, <2>2 DEF QueueInv
<1>12. LoopInv'
  <2>1. Received > 0 => accepted'[Received] = accepted[Received]
    BY <1>4, <1>6
  <2> QED BY <1>1, <1>6, <2>1 DEF LoopInv, Registered
<1>13. PutInv'
  <2> SUFFICES ASSUME NEW a \in Agents, NEW n \in Inboxes(a), NEW k \in DOMAIN inbox[a][n].put
               PROVE  LET o == inbox[a][n].put[k] IN
                      /\ call'[o].at # "idle"
                      /\ call'[o].to = All =>
                            /\ FromOf[o] # a
                            /\ \E i \in 1..Received :
                                  accepted'[i] = o /\ (loop.at = "deliver" /\ a \in loop.left => i < Received)
    BY <1>1, <1>6 DEF PutInv, Inboxes
  <2> DEFINE o == inbox[a][n].put[k]
  <2>1. o \in Messages
    BY Elements
  <2>2. /\ call[o].at # "idle"
        /\ call[o].to = All =>
              /\ FromOf[o] # a
              /\ \E i \in 1..Received :
                    accepted[i] = o /\ (loop.at = "deliver" /\ a \in loop.left => i < Received)
    BY DEF PutInv
  <2> HIDE DEF o
  <2>3. call'[o].at # "idle" /\ call'[o].to = call[o].to
    BY <1>2, <2>1, <2>2 DEF CallsGoOn
  <2>4. \A i \in 1..Received : accepted'[i] = accepted[i]
    BY <1>4, <1>6
  <2>5. call'[o].to = All =>
              /\ FromOf[o] # a
              /\ \E i \in 1..Received :
                    accepted'[i] = o /\ (loop.at = "deliver" /\ a \in loop.left => i < Received)
    BY <2>2, <2>3, <2>4
  <2> QED BY <2>3, <2>5 DEF o
<1>14. SortedInv'
  <2>1. \A a \in Agents : \A n \in Inboxes(a) : \A k \in DOMAIN inbox[a][n].put : inbox[a][n].put[k] # m
    <3> SUFFICES ASSUME NEW a \in Agents, NEW n \in Inboxes(a), NEW k \in DOMAIN inbox[a][n].put,
                        inbox[a][n].put[k] = m
                 PROVE  FALSE
      OBVIOUS
    <3>1. call[m].to = All
      BY <1>1 DEF MailTypes, CallTypes
    <3>2. \E i \in 1..Received : accepted[i] = m
      BY <3>1 DEF PutInv
    <3> QED BY <1>4, <1>6, <1>8, <3>2
  <2> SUFFICES ASSUME NEW a \in Agents, NEW n \in Inboxes(a),
                      NEW k \in DOMAIN inbox[a][n].put, NEW l \in DOMAIN inbox[a][n].put, k < l,
                      NEW i \in DOMAIN accepted', NEW j \in DOMAIN accepted',
                      accepted'[i] = inbox[a][n].put[k], accepted'[j] = inbox[a][n].put[l]
               PROVE  i < j
    BY <1>1 DEF SortedInv, Inboxes
  <2>2. /\ i \in DOMAIN accepted /\ accepted[i] = inbox[a][n].put[k]
        /\ j \in DOMAIN accepted /\ accepted[j] = inbox[a][n].put[l]
    BY <1>4, <1>9, <2>1
  <2> QED BY <2>2 DEF SortedInv
<1>15. ServedInv'
  BY <1>1 DEF ServedInv, Registered
<1> QED BY <1>7, <1>10, <1>11, <1>12, <1>13, <1>14, <1>15

\* The loop takes the first of the queue, and all inboxes are behind it.
LEMMA ReceiveKeeps ==
    ASSUME MailTypes, MailInv, LoopReceive
    PROVE  MailTypes' /\ MailInv'
<1> USE DEF MailInv
<1> DEFINE h == Head(broadcast)
           left == Registered \ {FromOf[h]}
<1>1. /\ loop.at = "receive" /\ broadcast # <<>> /\ broadcast' = Tail(broadcast)
      /\ loop' = Serving(h, left)
      /\ UNCHANGED <<boxes, made, inbox, call, accepted, dropped>>
  BY DEF LoopReceive
<1>2. broadcast \in Seq(Messages) /\ accepted \in Seq(Messages)
  BY DEF MailTypes
<1>3. /\ h \in Messages /\ h = broadcast[1] /\ 1 \in DOMAIN broadcast
      /\ broadcast' \in Seq(Messages) /\ Len(broadcast') = Len(broadcast) - 1
      /\ DOMAIN broadcast' = 1..Len(broadcast') /\ DOMAIN broadcast = 1..Len(broadcast)
      /\ \A i \in DOMAIN broadcast' : i + 1 \in DOMAIN broadcast /\ broadcast'[i] = broadcast[i + 1]
  BY <1>1, <1>2
<1>4. Len(accepted) \in Nat /\ Len(broadcast) \in Nat /\ Received \in Int /\ DOMAIN accepted = 1..Len(accepted)
  BY Elements
<1>5. Received' = Received + 1 /\ Received >= 0 /\ Received + 1 <= Len(accepted)
  BY <1>1, <1>3, <1>4 DEF Received, QueueInv
<1>6. h = accepted[Received + 1]
  BY <1>3 DEF QueueInv
<1> HIDE DEF h
<1>7. left \in SUBSET Agents
  BY DEF Registered
<1>8. loop'.at = "deliver" => loop'.msg = h /\ loop'.left = left
  BY <1>1 DEF Serving, Receiving
<1>9. MailTypes'
  <2>1. LoopTypes'
    BY <1>1, <1>3, <1>7, ServingTypes
  <2>2. InboxTypes' /\ CallTypes'
    BY <1>1, NoCall DEF MailTypes, InboxTypes
  <2> QED BY <1>1, <1>2, <1>3, <2>1, <2>2 DEF MailTypes
<1>10. AcceptedInv'
  BY <1>1 DEF AcceptedInv
<1>11. QueueInv'
  <2>1. \A i \in DOMAIN broadcast' : broadcast'[i] = accepted[Received' + i]
    <3> SUFFICES ASSUME NEW i \in DOMAIN broadcast' PROVE broadcast'[i] = accepted[Received' + i]
      OBVIOUS
    <3>1. broadcast'[i] = accepted[Received + (i + 1)]
      BY <1>3 DEF QueueInv
    <3>2. Received + (i + 1) = Received' + i
      BY <1>3, <1>4, <1>5
    <3> QED BY <3>1, <3>2
  <2>2. Len(broadcast') <= Len(accepted)
    BY <1>3, <1>4 DEF QueueInv
  <2> QED BY <1>1, <2>1, <2>2 DEF QueueInv
<1>12. LoopInv'
  <2>1. Received' > 0 /\ h = accepted[Received']
    BY <1>4, <1>5, <1>6
  <2> QED BY <1>1, <1>8, <2>1 DEF LoopInv, Registered
<1>13. PutInv'
  <2>1. ASSUME NEW a \in Agents, NEW n \in Inboxes(a), NEW k \in DOMAIN inbox[a][n].put
        PROVE  LET o == inbox[a][n].put[k] IN
               /\ call[o].at # "idle"
               /\ call[o].to = All =>
                     FromOf[o] # a /\ \E i \in 1..Received' : accepted[i] = o /\ i < Received'
    <3> DEFINE o == inbox[a][n].put[k]
    <3>1. call[o].at # "idle" /\ (call[o].to = All => FromOf[o] # a)
      BY DEF PutInv
    <3>2. ASSUME call[o].to = All PROVE \E i \in 1..Received' : accepted[i] = o /\ i < Received'
      <4>1. PICK i \in 1..Received : accepted[i] = o
        BY <3>2 DEF PutInv
      <4>2. i \in 1..Received' /\ i < Received'
        BY <1>4, <1>5
      <4> QED BY <4>1, <4>2
    <3> QED BY <3>1, <3>2
  <2> HIDE DEF left
  <2> QED BY <1>1, <2>1 DEF PutInv, Inboxes
<1>14. SortedInv'
  BY <1>1 DEF SortedInv, Inboxes
<1>15. ServedInv'
  BY <1>1, <1>8 DEF ServedInv, Registered
<1> QED BY <1>9, <1>10, <1>11, <1>12, <1>13, <1>14, <1>15

\* The loop goes on to the inboxes that are left.
LEMMA GoesOn ==
    ASSUME MailTypes, LoopInv, NEW b \in Agents, LoopDeliver(b)
    PROVE  /\ loop.at = "deliver" /\ b \in loop.left /\ loop.msg \in Messages
           /\ boxes[b] \in Inboxes(b) /\ b # FromOf[loop.msg]
           /\ LoopTypes'
           /\ loop'.at = "deliver" => loop'.msg = loop.msg /\ loop'.left = loop.left \ {b}
           /\ loop'.at # "deliver" => loop.left = {b}
<1>1. /\ loop.at = "deliver" /\ b \in loop.left
      /\ loop' = Serving(loop.msg, loop.left \ {b})
  BY DEF LoopDeliver
<1>2. loop.msg \in Messages /\ loop.left \in SUBSET Agents
  BY <1>1, LoopFacts DEF MailTypes
<1>3. b \in Registered /\ b # FromOf[loop.msg]
  BY <1>1 DEF LoopInv
<1>4. boxes[b] \in Inboxes(b)
  BY <1>3, MailboxAssumption DEF Registered, MailTypes, Inboxes
<1>5. loop.left \ {b} \in SUBSET Agents
  BY <1>2
<1>6. LoopTypes'
  BY <1>1, <1>2, <1>5, ServingTypes
<1>7. loop'.at = "deliver" => loop'.msg = loop.msg /\ loop'.left = loop.left \ {b}
  BY <1>1 DEF Serving, Receiving
<1>8. loop'.at # "deliver" => loop.left = {b}
  BY <1>1 DEF Serving
<1> QED BY <1>1, <1>2, <1>3, <1>4, <1>6, <1>7, <1>8

\* Whom the loop has served has its broadcast, or had no room.
LEMMA Serves ==
    ASSUME MailTypes, LoopInv, ServedInv, NEW b \in Agents, LoopDeliver(b),
           NEW a \in Registered \ {FromOf[loop.msg]}, a \notin loop.left \ {b}
    PROVE  \/ loop.msg \in dropped'[a]
           \/ \E j \in DOMAIN inbox'[a][boxes[a]].put : inbox'[a][boxes[a]].put[j] = loop.msg
<1> DEFINE x == boxes[b]
           m == loop.msg
           put == inbox[b][x].put
<1>1. loop.at = "deliver" /\ b \in loop.left /\ m \in Messages /\ x \in Inboxes(b)
  BY GoesOn
<1>2. a \in Agents /\ boxes[a] \in Inboxes(a)
  BY MailboxAssumption DEF Registered, MailTypes, Inboxes
<1>3. CASE Full(b, x) /\ dropped' = [dropped EXCEPT ![b] = @ \cup {m}] /\ UNCHANGED inbox
  <2>1. m \in dropped'[b] /\ dropped[a] \subseteq dropped'[a]
    BY <1>1, <1>2, <1>3 DEF MailTypes
  <2> QED BY <1>1, <1>3, <2>1 DEF ServedInv
<1>4. CASE PutIn(b, x, m) /\ UNCHANGED dropped
  <2>1. /\ put \in Seq(Messages) /\ inbox'[b][x].put = Append(put, m)
        /\ \A c \in Agents : \A n \in Inboxes(c) : c # b \/ n # x => inbox'[c][n] = inbox[c][n]
    BY <1>1, <1>4, PutFacts DEF MailTypes
  <2>2. CASE a = b
    <3>1. inbox'[a][boxes[a]].put = Append(put, m)
      BY <2>1, <2>2
    <3> HIDE DEF put, m
    <3>2. Len(put) + 1 \in DOMAIN Append(put, m) /\ Append(put, m)[Len(put) + 1] = m
      BY <1>1, <2>1, Longer
    <3>3. \E j \in DOMAIN inbox'[a][boxes[a]].put : inbox'[a][boxes[a]].put[j] = m
      BY <3>1, <3>2
    <3> QED BY <3>3 DEF m
  <2>3. CASE a # b
    <3>1. inbox'[a][boxes[a]] = inbox[a][boxes[a]]
      BY <1>2, <2>1, <2>3
    <3> QED BY <1>1, <1>4, <2>3, <3>1 DEF ServedInv
  <2> QED BY <2>2, <2>3
<1> QED BY <1>3, <1>4 DEF LoopDeliver

\* The loop puts its broadcast in an inbox, behind the earlier ones, or skips it.
LEMMA DeliverKeeps ==
    ASSUME MailTypes, MailInv, NEW b \in Agents, LoopDeliver(b)
    PROVE  MailTypes' /\ MailInv'
<1> USE DEF MailInv
<1> DEFINE x == boxes[b]
           put == inbox[b][x].put
           m == loop.msg
<1>1. /\ loop.at = "deliver" /\ b \in loop.left /\ m \in Messages
      /\ x \in Inboxes(b) /\ b # FromOf[m]
      /\ LoopTypes'
      /\ loop'.at = "deliver" => loop'.msg = m /\ loop'.left = loop.left \ {b}
  BY GoesOn
<1>2. UNCHANGED <<boxes, made, broadcast, call, accepted>> /\ Received' = Received
  BY DEF LoopDeliver, Received
<1>3. /\ Received > 0 /\ m = accepted[Received] /\ Received \in DOMAIN accepted
      /\ Received \in Nat /\ call[m].at = "ok" /\ call[m].to = All
  <2>1. Received > 0 /\ m = accepted[Received]
    BY <1>1 DEF LoopInv
  <2>2. Received \in DOMAIN accepted /\ Received \in Nat
    BY <2>1, Elements DEF Received
  <2> QED BY <2>1, <2>2 DEF AcceptedInv
<1>4. AcceptedInv' /\ QueueInv'
  BY <1>2 DEF AcceptedInv, QueueInv
<1>5. LoopInv'
  BY <1>1, <1>2 DEF LoopInv, Registered
<1>6. \A a \in Agents : \A n \in Inboxes(a) : \A k \in DOMAIN inbox[a][n].put :
         LET o == inbox[a][n].put[k] IN
         /\ call[o].at # "idle"
         /\ call[o].to = All =>
               /\ FromOf[o] # a
               /\ \E i \in 1..Received :
                     accepted[i] = o /\ (loop'.at = "deliver" /\ a \in loop'.left => i < Received)
  <2> SUFFICES ASSUME NEW a \in Agents, NEW n \in Inboxes(a), NEW k \in DOMAIN inbox[a][n].put
               PROVE  LET o == inbox[a][n].put[k] IN
                      /\ call[o].at # "idle"
                      /\ call[o].to = All =>
                            /\ FromOf[o] # a
                            /\ \E i \in 1..Received :
                                  accepted[i] = o /\ (loop'.at = "deliver" /\ a \in loop'.left => i < Received)
    OBVIOUS
  <2>1. loop'.at = "deliver" /\ a \in loop'.left => loop.at = "deliver" /\ a \in loop.left
    BY <1>1
  <2> QED BY <2>1 DEF PutInv
<1>7. ServedInv'
  <2>1. Registered' = Registered
    BY <1>2 DEF Registered
  <2>2. loop'.at = "deliver" => \A a \in Registered \ {FromOf[m]} :
           \/ a \in loop.left \ {b}
           \/ m \in dropped'[a]
           \/ \E j \in DOMAIN inbox'[a][boxes[a]].put : inbox'[a][boxes[a]].put[j] = m
    BY Serves
  <2> QED BY <1>1, <1>2, <2>1, <2>2 DEF ServedInv
<1>8. CASE Full(b, x) /\ dropped' = [dropped EXCEPT ![b] = @ \cup {m}] /\ UNCHANGED inbox
  <2>1. /\ dropped' \in [Agents -> SUBSET Messages] /\ m \in dropped'[b]
        /\ \A a \in Agents : dropped[a] \subseteq dropped'[a]
    BY <1>1, <1>8 DEF MailTypes
  <2>2. MailTypes'
    <3>1. CallTypes' /\ InboxTypes'
      BY <1>2, <1>8, NoCall DEF MailTypes, InboxTypes
    <3> QED BY <1>1, <1>2, <2>1, <3>1 DEF MailTypes
  <2>3. PutInv'
    BY <1>2, <1>6, <1>8 DEF PutInv, Inboxes
  <2>4. SortedInv'
    BY <1>2, <1>8 DEF SortedInv, Inboxes
  <2> QED BY <1>4, <1>5, <1>7, <2>2, <2>3, <2>4
<1>9. CASE PutIn(b, x, m) /\ UNCHANGED dropped
  <2>1. /\ InboxTypes' /\ put \in Seq(Messages) /\ inbox'[b][x].put = Append(put, m)
        /\ \A a \in Agents : \A n \in Inboxes(a) : a # b \/ n # x => inbox'[a][n] = inbox[a][n]
    BY <1>1, <1>9, PutFacts DEF MailTypes
  <2>2. MailTypes'
    <3>1. CallTypes'
      BY <1>2, NoCall DEF MailTypes
    <3> QED BY <1>1, <1>2, <1>9, <2>1, <3>1 DEF MailTypes
  <2> HIDE DEF put, x, m
  <2>3. /\ \A k \in DOMAIN put : k \in DOMAIN Append(put, m) /\ Append(put, m)[k] = put[k]
        /\ \A k \in DOMAIN Append(put, m) : k \in DOMAIN put \/ k = Len(put) + 1
        /\ Append(put, m)[Len(put) + 1] = m
        /\ DOMAIN Append(put, m) = 1..(Len(put) + 1) /\ Len(put) \in Nat /\ DOMAIN put = 1..Len(put)
    BY <1>1, <2>1, Longer
  <2>4. ASSUME NEW a \in Agents, NEW n \in Inboxes(a)
        PROVE  /\ \A k \in DOMAIN inbox'[a][n].put :
                     \/ k \in DOMAIN inbox[a][n].put /\ inbox'[a][n].put[k] = inbox[a][n].put[k]
                     \/ a = b /\ n = x /\ k = Len(put) + 1 /\ inbox'[a][n].put[k] = m
               /\ \A k \in DOMAIN inbox[a][n].put :
                     k \in DOMAIN inbox'[a][n].put /\ inbox'[a][n].put[k] = inbox[a][n].put[k]
    <3>1. CASE a = b /\ n = x
      <4>1. inbox[a][n].put = put /\ inbox'[a][n].put = Append(put, m)
        BY <2>1, <3>1 DEF put
      <4> QED BY <2>3, <3>1, <4>1
    <3>2. CASE ~(a = b /\ n = x)
      BY <2>1, <2>4, <3>2
    <3> QED BY <3>1, <3>2
  <2>5. PutInv'
    <3> SUFFICES ASSUME NEW a \in Agents, NEW n \in Inboxes(a), NEW k \in DOMAIN inbox'[a][n].put
                 PROVE  LET o == inbox'[a][n].put[k] IN
                        /\ call[o].at # "idle"
                        /\ call[o].to = All =>
                              /\ FromOf[o] # a
                              /\ \E i \in 1..Received :
                                    accepted[i] = o /\ (loop'.at = "deliver" /\ a \in loop'.left => i < Received)
      BY <1>2 DEF PutInv, Inboxes
    <3>1. CASE k \in DOMAIN inbox[a][n].put /\ inbox'[a][n].put[k] = inbox[a][n].put[k]
      BY <1>6, <3>1
    <3>2. CASE a = b /\ inbox'[a][n].put[k] = m
      <4>1. ~(loop'.at = "deliver" /\ b \in loop'.left)
        BY <1>1
      <4>2. Received \in 1..Received /\ accepted[Received] = m
        BY <1>3
      <4> QED BY <1>1, <1>3, <3>2, <4>1, <4>2
    <3> QED BY <2>4, <3>1, <3>2
  <2>6. SortedInv'
    <3> SUFFICES ASSUME NEW a \in Agents, NEW n \in Inboxes(a),
                        NEW k \in DOMAIN inbox'[a][n].put, NEW l \in DOMAIN inbox'[a][n].put, k < l,
                        NEW i \in DOMAIN accepted, NEW j \in DOMAIN accepted,
                        accepted[i] = inbox'[a][n].put[k], accepted[j] = inbox'[a][n].put[l]
                 PROVE  i < j
      BY <1>2 DEF SortedInv, Inboxes
    <3>1. CASE /\ k \in DOMAIN inbox[a][n].put /\ inbox'[a][n].put[k] = inbox[a][n].put[k]
               /\ l \in DOMAIN inbox[a][n].put /\ inbox'[a][n].put[l] = inbox[a][n].put[l]
      BY <3>1 DEF SortedInv
    <3>2. CASE /\ k \in DOMAIN inbox[a][n].put /\ inbox'[a][n].put[k] = inbox[a][n].put[k]
               /\ a = b /\ inbox'[a][n].put[l] = m
      <4>1. j = Received
        BY <1>3, <3>2 DEF AcceptedInv
      <4>2. call[inbox[a][n].put[k]].to = All
        BY <3>2 DEF AcceptedInv
      <4>3. PICK h \in 1..Received : accepted[h] = inbox[a][n].put[k] /\ h < Received
        BY <1>1, <3>2, <4>2 DEF PutInv
      <4>4. h \in DOMAIN accepted
        BY <1>3, Elements
      <4>5. h = i
        BY <3>2, <4>3, <4>4 DEF AcceptedInv
      <4> QED BY <4>1, <4>3, <4>5
    <3>3. CASE a = b /\ n = x /\ k = Len(put) + 1
      <4>1. inbox'[a][n].put = Append(put, m)
        BY <2>1, <3>3
      <4> QED BY <2>3, <3>3, <4>1
    <3> QED BY <2>4, <3>1, <3>2, <3>3
  <2> QED BY <1>4, <1>5, <1>7, <2>2, <2>5, <2>6
<1> QED BY <1>8, <1>9 DEF LoopDeliver

\* Every step keeps the invariant; before the first there is nothing.
LEMMA MailNext == MailTypes /\ MailInv /\ [Next]_vars => MailTypes' /\ MailInv'
<1> SUFFICES ASSUME MailTypes, MailInv, [Next]_vars PROVE MailTypes' /\ MailInv'
  OBVIOUS
<1> QED BY NextMoves, SteadyKeeps, DeliversKeeps, AcceptsKeeps, ReceiveKeeps, DeliverKeeps

LEMMA MailStarts == Init => MailTypes /\ MailInv
<1> SUFFICES ASSUME Init PROVE MailTypes /\ MailInv
  OBVIOUS
<1> USE DEF Init, MailInit
<1>1. accepted = <<>> /\ broadcast = <<>> /\ <<>> \in Seq(Messages) /\ Len(<<>>) = 0 /\ DOMAIN <<>> = {}
  OBVIOUS
<1>2. loop.at # "deliver" /\ LoopTypes
  BY DEF Receiving, LoopTypes
<1>3. \A a \in Agents : \A n \in Inboxes(a) : inbox[a][n] = [put |-> <<>>, taken |-> 0]
  BY DEF Inboxes
<1>4. InboxTypes
  <2>1. [put |-> <<>>, taken |-> 0] \in Inbox
    BY <1>1 DEF Inbox
  <2> HIDE DEF Inbox
  <2> QED BY <2>1 DEF InboxTypes, Inboxes
<1>5. CallTypes
  BY DEF CallTypes, Locations
<1>6. MailTypes
  <2>1. boxes = [a \in Agents |-> 0] /\ made = [a \in Agents |-> 0]
    BY DEF NoInbox
  <2>2. \A a \in Agents : boxes[a] <= made[a] /\ made[a] <= MaxInboxes[a]
    BY <2>1, MailboxAssumption
  <2> QED BY <1>1, <1>2, <1>4, <1>5, <2>1, <2>2 DEF MailTypes
<1>7. AcceptedInv /\ QueueInv /\ LoopInv /\ ServedInv
  BY <1>1, <1>2 DEF AcceptedInv, QueueInv, LoopInv, ServedInv
<1>8. PutInv /\ SortedInv
  BY <1>1, <1>3 DEF PutInv, SortedInv
<1> QED BY <1>6, <1>7, <1>8 DEF MailInv

\* Inboxes hold broadcasts in the order of their acceptance, each once, and none of
\* their own agent (Mailbox.broadcastLoop).
THEOREM HeardInOrder == SafeSpec => []BroadcastsInOrder
<1>1. MailTypes /\ MailInv => BroadcastsInOrder
  <2> SUFFICES ASSUME MailTypes, MailInv, NEW a \in Agents, NEW n \in Inboxes(a)
               PROVE  LET put == inbox[a][n].put
                          heard == {k \in DOMAIN put : call[put[k]].to = All}
                      IN  /\ \A k \in heard : FromOf[put[k]] # a
                          /\ \A k, l \in heard : k < l => Position(put[k]) < Position(put[l])
    BY DEF BroadcastsInOrder, Inboxes
  <2> DEFINE put == inbox[a][n].put
             heard == {k \in DOMAIN put : call[put[k]].to = All}
  <2>1. ASSUME NEW k \in heard
        PROVE  FromOf[put[k]] # a /\ Position(put[k]) \in DOMAIN accepted
               /\ accepted[Position(put[k])] = put[k]
    <3>1. FromOf[put[k]] # a /\ \E i \in 1..Received : accepted[i] = put[k]
      BY DEF MailInv, PutInv
    <3>2. \A i \in 1..Received : i \in DOMAIN accepted
      BY Elements DEF Received
    <3> HIDE DEF put
    <3> QED BY <3>1, <3>2 DEF Position
  <2>2. ASSUME NEW k \in heard, NEW l \in heard, k < l PROVE Position(put[k]) < Position(put[l])
    BY <2>1, <2>2 DEF MailInv, SortedInv
  <2> QED BY <2>1, <2>2
<1> QED BY <1>1, MailStarts, MailNext, PTL DEF SafeSpec

\* When the loop has done with a broadcast it is in the inbox of every agent that is
\* registered, its sender aside, unless that was full (Mailbox.broadcastLoop).
THEOREM AllHear == SafeSpec => EveryoneHears
<1> DEFINE Done == loop.at = "deliver" /\ loop'.at # "deliver" =>
                     \A a \in Registered \ {FromOf[loop.msg]} :
                        \/ loop.msg \in dropped'[a]
                        \/ \E j \in DOMAIN inbox'[a][boxes[a]].put :
                              inbox'[a][boxes[a]].put[j] = loop.msg
<1>1. ASSUME MailTypes, MailInv, [Next]_vars PROVE Done
  <2> SUFFICES ASSUME loop.at = "deliver", loop'.at # "deliver", NEW a \in Registered \ {FromOf[loop.msg]}
               PROVE  \/ loop.msg \in dropped'[a]
                      \/ \E j \in DOMAIN inbox'[a][boxes[a]].put : inbox'[a][boxes[a]].put[j] = loop.msg
    OBVIOUS
  <2>1. PICK b \in Agents : LoopDeliver(b)
    <3>1. ~Steady /\ ~LoopReceive /\ \A m \in Messages : ~Delivers(m) /\ ~Accepts(m)
      BY DEF Steady, LoopReceive, Delivers, Accepts
    <3> QED BY <1>1, <3>1, NextMoves
  <2>2. loop.left = {b}
    BY <1>1, <2>1, GoesOn DEF MailInv
  <2>3. a \notin loop.left \ {b}
    BY <2>2
  <2> QED BY <1>1, <2>1, <2>3, Serves DEF MailInv
<1>2. MailTypes /\ MailInv /\ [Next]_vars => [Done]_vars
  BY <1>1
<1> QED BY <1>2, MailStarts, MailNext, PTL DEF SafeSpec, EveryoneHears

=============================================================================
