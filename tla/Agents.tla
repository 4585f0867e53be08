------------------------------- MODULE Agents -------------------------------
(***************************************************************************)
(* An agent (internal/agent) and the calls other components make of it at  *)
(* the same time: Execute and Stream, in CLI mode with a child process per *)
(* call (module Process), in API mode with a request to the provider, and  *)
(* Stop.  The four providers differ in what they make of an answer, and    *)
(* Claude alone remembers the session of its last answer.                  *)
(*                                                                         *)
(* Each call owns the Process it creates, so Procs are also the calls.     *)
(* The last steps of a call (clean-up, status) each have an action.        *)
(***************************************************************************)
EXTENDS Process

CONSTANTS Stopper,   \* the goroutine that calls the agent's Stop
          Setups,    \* agents: provider, mode; the shape of its answers; its calls,
                     \* their kinds, and those whose context may end
          EventCap   \* capacity of Stream's channel

\* An output or a reply is known by the field that holds its text; the fields
\* are those the code looks for.
Shapes == {"result", "choices", "candidates", "parts", "none", "not JSON"}

ASSUME AgentsAssumption ==
    /\ Stopper \notin Procs
    /\ Threads = Procs \cup {Stopper}
    /\ EventCap \in Nat \ {0}
    /\ Setups \subseteq [provider : {"claude", "gemini", "openai", "ollama"},
                         mode : {"cli", "api"}, shape : Shapes, calls : SUBSET Procs,
                         kind : [Procs -> {"execute", "stream"}], ends : SUBSET Procs]

VARIABLES setup,    \* the agent and the kinds of its calls
          status,   \* BaseAgent.StatusVal
          session,  \* the session's ID: no session, none yet, or a call's answer
          call,     \* each call: kind, location, outcome
          events,   \* Stream: text events sent and received, consumer gone
          stopper   \* the agent's Stop: location, processes left, those listed

agentVars == <<setup, status, session, call, events, stopper>>
vars == <<processVars, agentVars>>

\* What a call returns: nothing yet, an error, or a Result with this content.
Outcomes == {"none", "error", "answer", "part", "raw", "empty"}

NewCall == [at |-> "new", out |-> "none", whole |-> FALSE]

Init ==
    /\ ProcessInit
    /\ setup \in Setups
    /\ status = "idle"
    /\ session \in IF setup.provider = "claude" THEN {"none", "new"} ELSE {"none"}
    /\ call = [c \in Procs |-> NewCall]
    /\ events = [c \in Procs |-> [sent |-> 0, got |-> 0, last |-> "none", gone |-> FALSE]]
    /\ stopper = [at |-> "out", todo |-> {}, listed |-> {}]

\* Calls whose Execute sets the status: all but those streaming from a child.
Executing(c) == ~(setup.mode = "cli" /\ setup.kind[c] = "stream")

At(c, loc) == call[c].at = loc
Go(c, loc) == call' = [call EXCEPT ![c].at = loc]
GoWith(c, loc, out) == call' = [call EXCEPT ![c].at = loc, ![c].out = out]

-----------------------------------------------------------------------------
(* What is made of an answer                                               *)

\* ParseSingleJSON: the first field that is there decides, of several parts the
\* first one; JSON without these is handed on as it is, other text refused.
ParseSingleJSON(shape) ==
    CASE shape \in {"result", "choices", "candidates"} -> "answer"
      [] shape = "parts" -> "part"
      [] shape = "none" -> "raw"
      [] shape = "not JSON" -> "error"

\* executeCLI of the three providers: what cannot be parsed is the answer.
CLIAnswer(shape) ==
    IF ParseSingleJSON(shape) = "error" THEN "raw" ELSE ParseSingleJSON(shape)

\* executeAPI of the four: a reply without the field the provider uses is an
\* empty answer.  Claude joins the blocks of text, Gemini takes the first part.
ClaudeAPI(shape) ==
    CASE shape = "not JSON" -> "error" [] shape = "result" -> "answer" [] OTHER -> "empty"
GeminiAPI(shape) ==
    CASE shape = "not JSON" -> "error" [] shape = "candidates" -> "answer"
      [] shape = "parts" -> "part" [] OTHER -> "empty"
OpenAIAPI(shape) ==
    CASE shape = "not JSON" -> "error" [] shape = "choices" -> "answer" [] OTHER -> "empty"
OllamaExecute(shape) ==
    CASE shape = "not JSON" -> "error" [] shape = "result" -> "answer" [] OTHER -> "empty"

APIAnswer(shape) ==
    CASE setup.provider = "claude" -> ClaudeAPI(shape)
      [] setup.provider = "gemini" -> GeminiAPI(shape)
      [] setup.provider = "openai" -> OpenAIAPI(shape)
      [] setup.provider = "ollama" -> OllamaExecute(shape)

-----------------------------------------------------------------------------
(* Execute, and what Stream shares with it                                 *)

\* The status is set before anything is tried, whatever it was; in CLI mode a
\* Process is registered.
Enter(c) ==
    /\ At(c, "new") /\ c \in setup.calls
    /\ status' = IF Executing(c) THEN "busy" ELSE status
    /\ IF setup.mode = "cli" THEN Create(c) /\ Go(c, "start")
                             ELSE Go(c, "request") /\ UNCHANGED processVars
    /\ UNCHANGED <<setup, session, events, stopper>>

\* (Variant) A Process whose call fails stays registered.
LeaveRegistered(c) ==
    /\ At(c, "leave")
    /\ IF setup.mode = "cli" /\ call[c].out # "error" THEN Remove(c) ELSE UNCHANGED processVars
    /\ status' = IF Executing(c) THEN "idle" ELSE status
    /\ call' = [call EXCEPT ![c] = [NewCall EXCEPT !.at = "over"]]
    /\ UNCHANGED <<setup, session, events, stopper>>

\* The deferred calls: a Process is removed, and the agent becomes idle, even a
\* stopped one.  In API mode Stream then sends the outcome of Execute, which its
\* channel has room for.
Leave(c) ==
    /\ At(c, "leave")
    /\ IF setup.mode = "cli" THEN Remove(c) ELSE UNCHANGED processVars
    /\ status' = IF Executing(c) THEN "idle" ELSE status
    /\ call' = [call EXCEPT ![c] = [NewCall EXCEPT !.at = "over"]]
    /\ events' = IF setup.mode = "api" /\ setup.kind[c] = "stream"
                 THEN [events EXCEPT ![c].last = IF call[c].out = "error" THEN "error" ELSE "done"]
                 ELSE events
    /\ UNCHANGED <<setup, session, stopper>>

\* executeAPI: the request fails, or a reply comes that can be read or not.
Reply(c) ==
    /\ At(c, "request")
    /\ \/ GoWith(c, "leave", "error")
       \/ ~cancelled[c] /\ GoWith(c, "leave", APIAnswer(setup.shape))
    /\ UNCHANGED <<processVars, setup, status, session, events, stopper>>

-----------------------------------------------------------------------------
(* executeCLI and streamCLI                                                *)

StartProc(c) ==
    /\ At(c, "start")
    /\ Start(c)
    /\ Go(c, IF Executing(c) THEN "collect" ELSE "listen")
    /\ UNCHANGED <<setup, status, session, events, stopper>>

StartProcFails(c) ==
    /\ At(c, "start")
    /\ StartFails(c)
    /\ GoWith(c, "leave", "error")
    /\ UNCHANGED <<setup, status, session, events, stopper>>

\* CollectOutput returns, with an error or not, and proc.Wait is called.
CollectOutput(c) ==
    /\ At(c, "collect") /\ OutputEnded(c)
    /\ WaitBegins(c, c)
    /\ call' = [call EXCEPT ![c].at = "waiting", ![c].whole = OutputWhole(c)]
    /\ UNCHANGED <<setup, status, session, events, stopper>>

\* Claude's session, if there is one, takes the ID an answer carries.
UpdateSessionID(c) ==
    session' \in IF setup.provider = "claude" /\ session # "none" THEN {session, c} ELSE {session}

\* (Variant) An output that could be read is an answer, whatever Wait says.
WaitedBlindly(c) ==
    /\ At(c, "waiting") /\ Woken(c)
    /\ IF ~Executing(c) THEN Go(c, "tell") /\ UNCHANGED session
       ELSE IF ~call[c].whole
       THEN GoWith(c, "leave", "error") /\ UNCHANGED session
       ELSE GoWith(c, "leave", CLIAnswer(setup.shape)) /\ UpdateSessionID(c)
    /\ UNCHANGED <<setup, status, events, stopper>>

\* proc.Wait returned: its error, or that of CollectOutput, or the answer.  A
\* stream does not look at the error.
Waited(c) ==
    /\ At(c, "waiting") /\ Woken(c)
    /\ IF ~Executing(c) THEN Go(c, "tell") /\ UNCHANGED session
       ELSE IF proc[c].waitErr \/ ~call[c].whole
       THEN GoWith(c, "leave", "error") /\ UNCHANGED session
       ELSE GoWith(c, "leave", CLIAnswer(setup.shape)) /\ UpdateSessionID(c)
    /\ UNCHANGED <<setup, status, events, stopper>>

Listen(c) ==
    /\ At(c, "listen")
    /\ StreamOutput(c)
    /\ Go(c, "forward")
    /\ UNCHANGED <<proc, child, closed, cancelled, thread, helper, managerVars, fatal,
                   setup, status, session, events, stopper>>

Room(c) == events[c].sent - events[c].got < EventCap

\* A line becomes an event.  The channel may be full, and nothing but a reader
\* of it lets the goroutine go on, not even its context.  Claude's JSON lines of
\* a type it does not know become none.
Forward(c) ==
    /\ At(c, "forward")
    /\ scan[c].taken < scan[c].read
    /\ scan' = [scan EXCEPT ![c].taken = @ + 1]
    /\ \/ /\ Room(c)
          /\ events' = [events EXCEPT ![c].sent = @ + 1]
          /\ UpdateSessionID(c)
       \/ setup.provider = "claude" /\ UNCHANGED <<events, session>>
    /\ UNCHANGED <<proc, child, closed, cancelled, thread, helper, managerVars, fatal,
                   setup, status, call, stopper>>

\* (Variant) The child is waited for while its output is still being read.
ForwardEndsEarly(c) ==
    /\ At(c, "forward")
    /\ WaitBegins(c, c)
    /\ Go(c, "waiting")
    /\ UNCHANGED <<setup, status, session, events, stopper>>

\* The channel of lines is closed and empty; proc.Wait is called.
ForwardEnds(c) ==
    /\ At(c, "forward")
    /\ scan[c].at \in {"done", "cut"} /\ scan[c].taken = scan[c].read
    /\ WaitBegins(c, c)
    /\ Go(c, "waiting")
    /\ UNCHANGED <<setup, status, session, events, stopper>>

\* The last event says done, however the child ended.
Tell(c) ==
    /\ At(c, "tell") /\ Room(c)
    /\ events' = [events EXCEPT ![c].sent = @ + 1, ![c].last = "done"]
    /\ Go(c, "leave")
    /\ UNCHANGED <<processVars, setup, status, session, stopper>>

ExecuteCLI(c) == StartProc(c) \/ StartProcFails(c) \/ CollectOutput(c) \/ Waited(c)
StreamCLI(c) == StartProc(c) \/ StartProcFails(c) \/ Listen(c) \/ Forward(c)
                \/ ForwardEnds(c) \/ Waited(c) \/ Tell(c)

\* Three providers, each with its own copy of the two functions.
ClaudeCLI(c) == setup.provider = "claude" /\ (ExecuteCLI(c) \/ StreamCLI(c))
GeminiExecuteCLI(c) == setup.provider = "gemini" /\ Executing(c) /\ ExecuteCLI(c)
GeminiStreamCLI(c) == setup.provider = "gemini" /\ ~Executing(c) /\ StreamCLI(c)
OpenAIExecuteCLI(c) == setup.provider = "openai" /\ Executing(c) /\ ExecuteCLI(c)
OpenAIStreamCLI(c) == setup.provider = "openai" /\ ~Executing(c) /\ StreamCLI(c)

CLISteps(c) == ClaudeCLI(c) \/ GeminiExecuteCLI(c) \/ GeminiStreamCLI(c)
               \/ OpenAIExecuteCLI(c) \/ OpenAIStreamCLI(c)

-----------------------------------------------------------------------------
(* The consumer of a stream, and the agent's Stop                          *)

Receive(c) ==
    /\ events[c].got < events[c].sent /\ ~events[c].gone
    /\ events' = [events EXCEPT ![c].got = @ + 1]
    /\ UNCHANGED <<processVars, setup, status, session, call, stopper>>

Abandon(c) ==
    /\ ~Executing(c) /\ ~At(c, "over") /\ ~events[c].gone
    /\ events' = [events EXCEPT ![c].gone = TRUE]
    /\ UNCHANGED <<processVars, setup, status, session, call, stopper>>

StopAgent ==
    /\ stopper.at = "out"
    /\ status' = "stopped"
    /\ stopper' = [stopper EXCEPT !.at = "list"]
    /\ UNCHANGED <<processVars, setup, session, call, events>>

\* StopAll takes a list of the processes under the manager's read lock.
ListProcs ==
    /\ stopper.at = "list" /\ mlock = NoThread
    /\ stopper' = [at |-> "each", todo |-> managed,
                   listed |-> {p \in managed : proc[p].state = "running"}]
    /\ UNCHANGED <<processVars, setup, status, session, call, events>>

\* The processes are stopped one after another, those that still run.
StopOne(p) ==
    /\ stopper.at = "each" /\ thread[Stopper].at = "out" /\ p \in stopper.todo
    /\ stopper' = [stopper EXCEPT !.todo = @ \ {p}]
    /\ IF proc[p].state = "running" THEN StopBegins(Stopper, p) ELSE UNCHANGED processVars
    /\ UNCHANGED <<setup, status, session, call, events>>

StopReturns ==
    /\ stopper.at = "each" /\ thread[Stopper].at = "out" /\ stopper.todo = {}
    /\ stopper' = [stopper EXCEPT !.at = "over"]
    /\ UNCHANGED <<processVars, setup, status, session, call, events>>

StopSteps ==
    \/ ListProcs \/ (\E p \in Procs : StopOne(p)) \/ StopReturns
    \/ (StopTimesOut(Stopper) \/ Woken(Stopper)) /\ UNCHANGED agentVars

-----------------------------------------------------------------------------
CallSteps(c) == Enter(c) \/ Reply(c) \/ CLISteps(c) \/ Leave(c)

\* What the program and the operating system do by themselves.  A child that
\* has not been killed may run for ever.
Progress ==
    \/ \E c \in Procs : CallSteps(c) \/ Receive(c)
    \/ StopSteps
    \/ /\ UNCHANGED agentVars
       /\ \/ \E t \in Threads, p \in Procs : HelperSteps(t, p)
          \/ \E p \in Procs :
                ScanLine(p) \/ ScanEnds(p) \/ (Child(p) = "dying" /\ ChildExits(p, 1, "bad"))

AgentsNext ==
    /\ ~fatal
    /\ \/ Progress
       \/ \E c \in Procs : Abandon(c)
       \/ StopAgent
       \/ /\ UNCHANGED agentVars
          /\ \E c \in Procs :
                \/ Child(c) = "alive" /\ (\E how \in {"ok", "bad"} : ChildExits(c, 1, how))
                \/ c \in setup.ends /\ call[c].at \notin {"new", "over"} /\ Cancel(c)

SafeSpec == Init /\ [][AgentsNext]_vars

\* Each step of Progress happens a bounded number of times, so that fairness to
\* all of them together leaves no goroutine behind.
Spec == SafeSpec /\ WF_vars(Progress /\ ~fatal)

-----------------------------------------------------------------------------
\* A call that has returned leaves no child behind: it has ended, somebody has
\* waited for it, and the manager has forgotten it.
NoOrphans ==
    \A c \in Procs : At(c, "over") => Child(c) \in {"none", "reaped"} /\ c \notin managed

\* An answer taken from a child is the whole output of one that ended well.  A
\* stream that says done has handled every line that was read; unless it was
\* cancelled, stopped or cut short at a line too long, that is all the output of
\* a child that ended well, and but for the lines Claude drops each was sent.
SuccessIsWhole ==
    \A c \in Procs : setup.mode = "cli" =>
        /\ call[c].out \in Outcomes \ {"none", "error"} => call[c].whole /\ ~proc[c].waitErr
        /\ ~Executing(c) /\ events[c].last = "done" =>
              /\ scan[c].taken = scan[c].read
              /\ setup.provider # "claude" => events[c].sent = scan[c].taken + 1
              /\ /\ ~proc[c].waitErr /\ ~cancelled[c]
                 /\ stopper.at = "out" /\ scan[c].at # "cut"
                 => scan[c].taken = Lines

\* When Stop returns, each child that ran when it listed them has ended and was
\* waited for, though the calls wait for the same children.
StopLeavesNothing ==
    stopper.at = "over" => \A p \in stopper.listed : Child(p) = "reaped"

\* In the end every call whose context ended has returned, unless nobody reads
\* its stream any more, and so has Stop, however stubborn the children.
CallsEnd ==
    <>[](/\ \A c \in Procs : cancelled[c] => At(c, "over") \/ events[c].gone
         /\ stopper.at \in {"out", "over"})

=============================================================================
