------------------------------- MODULE Mailbox -------------------------------
(***************************************************************************)
(* The agents' mailbox (internal/comm/mailbox.go): an inbox channel per    *)
(* agent, one broadcast channel, and the goroutine broadcastLoop that      *)
(* hands broadcasts to the inboxes.  Send looks an inbox up under the read *)
(* lock and sends after releasing it; Broadcast takes no lock at all.      *)
(* Unregister and Close close channels meanwhile, and a send on a closed   *)
(* channel panics, which ends the program.                                 *)
(*                                                                         *)
(* A message stands for the one call of Send or Broadcast that sends it.   *)
(* The list Mailbox.subs is left out: nothing reads it.                    *)
(***************************************************************************)
EXTENDS Naturals, Sequences, FiniteSets

CONSTANTS Agents,
          Messages,
          FromOf,         \* Message.From of each message, an agent or not
          All,            \* the recipient "*"
          InboxCap,       \* capacity of an inbox, 50 in the code
          BroadcastCap,   \* capacity of the broadcast channel, 100 in the code
          MaxInboxes      \* bound: how often each agent is registered

ASSUME MailboxAssumption ==
    /\ DOMAIN FromOf = Messages
    /\ All \notin Agents
    /\ InboxCap \in Nat /\ BroadcastCap \in Nat /\ MaxInboxes \in [Agents -> Nat]

VARIABLES boxes,       \* Mailbox.boxes: the number of an agent's inbox, 0 for none
          made,        \* how many inboxes were made for an agent
          inbox,       \* by agent and number: all that was put in, how many are taken
          shut,        \* the closed inboxes
          broadcast,   \* the broadcast channel
          closing,     \* how far Close is; Mailbox.closed once it has begun
          loop,        \* broadcastLoop: its message and the inboxes still to serve
          call,        \* each Send or Broadcast: location, recipient, inbox found
          panicked,    \* a goroutine sent on a closed channel
          accepted,    \* history: broadcasts accepted, in order
          dropped      \* history: broadcasts that found an agent's inbox full

mailVars == <<boxes, made, inbox, shut, broadcast, closing, loop, call, panicked,
              accepted, dropped>>

NoInbox == [a \in Agents |-> 0]

Receiving == [at |-> "receive"]

\* broadcastLoop holds the read lock until it has served these agents.
Serving(m, left) == IF left = {} THEN Receiving ELSE [at |-> "deliver", msg |-> m, left |-> left]

MailInit ==
    /\ boxes = NoInbox
    /\ made = NoInbox
    /\ inbox = [a \in Agents |-> [n \in 1..MaxInboxes[a] |-> [put |-> <<>>, taken |-> 0]]]
    /\ shut = {}
    /\ broadcast = <<>>
    /\ closing = "open"
    /\ loop = Receiving
    /\ call = [m \in Messages |-> [at |-> "idle", to |-> All, box |-> 0]]
    /\ panicked = FALSE
    /\ accepted = <<>>
    /\ dropped = [a \in Agents |-> {}]

\* Register, Unregister and Close wait for that.
Unlocked == loop.at # "deliver"

BroadcastClosed == closing \in {"channel", "done"}

Full(a, n) == Len(inbox[a][n].put) - inbox[a][n].taken = InboxCap

PutIn(a, n, m) == inbox' = [inbox EXCEPT ![a][n].put = Append(@, m)]

-----------------------------------------------------------------------------
\* Register replaces an inbox the agent has already; the old one stays open.
Register(a) ==
    /\ Unlocked /\ made[a] < MaxInboxes[a]
    /\ made' = [made EXCEPT ![a] = @ + 1]
    /\ boxes' = [boxes EXCEPT ![a] = made[a] + 1]
    /\ UNCHANGED <<inbox, shut, broadcast, closing, loop, call, panicked, accepted, dropped>>

Unregister(a) ==
    /\ Unlocked /\ boxes[a] # 0
    /\ shut' = shut \cup {<<a, boxes[a]>>}
    /\ boxes' = [boxes EXCEPT ![a] = 0]
    /\ UNCHANGED <<made, inbox, broadcast, closing, loop, call, panicked, accepted, dropped>>

\* The agent reads an inbox it was given, the current one or an older one.
Read(a, n) ==
    /\ inbox[a][n].taken < Len(inbox[a][n].put)
    /\ inbox' = [inbox EXCEPT ![a][n].taken = @ + 1]
    /\ UNCHANGED <<boxes, made, shut, broadcast, closing, loop, call, panicked, accepted, dropped>>

-----------------------------------------------------------------------------
(* Send and Broadcast                                                      *)

\* Only the call itself changes.
CallGoesTo(m, location) ==
    /\ call' = [call EXCEPT ![m].at = location]
    /\ UNCHANGED <<boxes, made, inbox, shut, broadcast, closing, loop, panicked, accepted, dropped>>

\* Begin a call: closed.Load, in Send or in Broadcast.  (Send checks again for
\* "*", which calls Broadcast; the later check decides.)
Begin(m, to) ==
    /\ call[m].at = "idle"
    /\ call' = [call EXCEPT ![m].to = to,
                           ![m].at = IF closing # "open" THEN "error"
                                     ELSE IF to = All THEN "publish" ELSE "lookup"]
    /\ UNCHANGED <<boxes, made, inbox, shut, broadcast, closing, loop, panicked, accepted, dropped>>

\* The inbox is looked up under the read lock.
Lookup(m) ==
    /\ call[m].at = "lookup"
    /\ LET n == boxes[call[m].to] IN
       call' = [call EXCEPT ![m].at = IF n = 0 THEN "error" ELSE "deliver", ![m].box = n]
    /\ UNCHANGED <<boxes, made, inbox, shut, broadcast, closing, loop, panicked, accepted, dropped>>

Panic ==
    /\ panicked' = TRUE
    /\ UNCHANGED <<boxes, made, inbox, shut, broadcast, closing, loop, call, accepted, dropped>>

\* The send of Send, which never blocks.
Deliver(m) ==
    /\ call[m].at = "deliver"
    /\ LET a == call[m].to
           n == call[m].box
       IN  \/ <<a, n>> \in shut /\ Panic
           \/ <<a, n>> \notin shut /\ Full(a, n) /\ CallGoesTo(m, "error")
           \/ /\ <<a, n>> \notin shut /\ ~Full(a, n)
              /\ PutIn(a, n, m)
              /\ call' = [call EXCEPT ![m].at = "ok"]
              /\ UNCHANGED <<boxes, made, shut, broadcast, closing, loop, panicked,
                             accepted, dropped>>

\* The send of Broadcast, which never blocks either.
Publish(m) ==
    /\ call[m].at = "publish"
    /\ \/ BroadcastClosed /\ Panic
       \/ ~BroadcastClosed /\ Len(broadcast) = BroadcastCap /\ CallGoesTo(m, "error")
       \/ /\ ~BroadcastClosed /\ Len(broadcast) < BroadcastCap
          /\ broadcast' = Append(broadcast, m)
          /\ accepted' = Append(accepted, m)
          /\ call' = [call EXCEPT ![m].at = "ok"]
          /\ UNCHANGED <<boxes, made, inbox, shut, closing, loop, panicked, dropped>>

SendStep(m) == Lookup(m) \/ Deliver(m) \/ Publish(m)

-----------------------------------------------------------------------------
(* broadcastLoop                                                           *)

Registered == {a \in Agents : boxes[a] # 0}

\* (Variant) The sender hears itself.
LoopReceiveEchoes ==
    /\ loop.at = "receive" /\ broadcast # <<>>
    /\ broadcast' = Tail(broadcast)
    /\ loop' = Serving(Head(broadcast), Registered)
    /\ UNCHANGED <<boxes, made, inbox, shut, closing, call, panicked, accepted, dropped>>

\* Receive a broadcast and take the read lock.
LoopReceive ==
    /\ loop.at = "receive" /\ broadcast # <<>>
    /\ broadcast' = Tail(broadcast)
    /\ loop' = Serving(Head(broadcast), Registered \ {FromOf[Head(broadcast)]})
    /\ UNCHANGED <<boxes, made, inbox, shut, closing, call, panicked, accepted, dropped>>

\* (Variants) The loop waits for room in a full inbox; or a full inbox ends the
\* round.
LoopDeliverBlocks(a) ==
    /\ loop.at = "deliver" /\ a \in loop.left
    /\ ~Full(a, boxes[a])
    /\ PutIn(a, boxes[a], loop.msg)
    /\ loop' = Serving(loop.msg, loop.left \ {a})
    /\ UNCHANGED <<boxes, made, shut, broadcast, closing, call, panicked, accepted, dropped>>
LoopDeliverBreaks(a) ==
    /\ loop.at = "deliver" /\ a \in loop.left
    /\ \/ /\ ~Full(a, boxes[a])
          /\ PutIn(a, boxes[a], loop.msg)
          /\ loop' = Serving(loop.msg, loop.left \ {a})
          /\ UNCHANGED dropped
       \/ /\ Full(a, boxes[a])
          /\ dropped' = [dropped EXCEPT ![a] = @ \cup {loop.msg}]
          /\ loop' = Receiving
          /\ UNCHANGED inbox
    /\ UNCHANGED <<boxes, made, shut, broadcast, closing, call, panicked, accepted>>

\* Serve one of the inboxes left; a full one is skipped.  (An inbox in the map
\* is never closed.)
LoopDeliver(a) ==
    /\ loop.at = "deliver" /\ a \in loop.left
    /\ loop' = Serving(loop.msg, loop.left \ {a})
    /\ \/ ~Full(a, boxes[a]) /\ PutIn(a, boxes[a], loop.msg) /\ UNCHANGED dropped
       \/ /\ Full(a, boxes[a])
          /\ dropped' = [dropped EXCEPT ![a] = @ \cup {loop.msg}]
          /\ UNCHANGED inbox
    /\ UNCHANGED <<boxes, made, shut, broadcast, closing, call, panicked, accepted>>

\* The broadcast channel is closed and empty.
LoopEnds ==
    /\ loop.at = "receive" /\ broadcast = <<>> /\ BroadcastClosed
    /\ loop' = [at |-> "ended"]
    /\ UNCHANGED <<boxes, made, inbox, shut, broadcast, closing, call, panicked, accepted, dropped>>

LoopStep == LoopReceive \/ (\E a \in Agents : LoopDeliver(a)) \/ LoopEnds

-----------------------------------------------------------------------------
(* Close: swap the flag, close the broadcast channel, then the inboxes.    *)

CloseGoesTo(from, to) ==
    /\ closing = from
    /\ closing' = to
    /\ UNCHANGED <<made, inbox, broadcast, loop, call, panicked, accepted, dropped>>

\* (A later Close finds the flag set and returns.)
CloseBegins == CloseGoesTo("open", "swapped") /\ UNCHANGED <<boxes, shut>>

CloseBroadcast == CloseGoesTo("swapped", "channel") /\ UNCHANGED <<boxes, shut>>

CloseInboxes ==
    /\ Unlocked
    /\ CloseGoesTo("channel", "done")
    /\ shut' = shut \cup {<<a, boxes[a]>> : a \in Registered}
    /\ boxes' = NoInbox

CloseStep == CloseBroadcast \/ CloseInboxes

=============================================================================
