------------------------------- MODULE Process -------------------------------
(***************************************************************************)
(* Child processes (internal/process/manager.go).  A Process may be        *)
(* started, stopped and waited for by several goroutines.  Stop and Wait   *)
(* each start a goroutine that runs doWait and sleep on p.waitDone; doWait *)
(* is under a sync.Once, whose two halves (enter and leave) are steps of   *)
(* their own, because Start resets the Once.                               *)
(*                                                                         *)
(* p.cmd and p.waitDone are replaced together by Start; both are known by  *)
(* the number of that Start, 0 before the first one.  Signals only make a  *)
(* child end sooner; a killed child ends with an error.  Output is counted *)
(* in lines of stdout; stderr is read alongside and told from nothing.     *)
(***************************************************************************)
EXTENDS Naturals, FiniteSets

CONSTANTS Procs,      \* Process objects
          Threads,    \* goroutines that call Stop, Wait and Remove
          NoThread,   \* Manager.mu is free
          MaxStarts,  \* bound: successful Starts of a Process
          Lines,      \* lines of output of a child that ends well
          LineCap     \* capacity of StreamOutput's channel

ASSUME ProcessAssumption ==
    /\ NoThread \notin Threads
    /\ MaxStarts \in Nat \ {0} /\ Lines \in Nat /\ LineCap \in Nat \ {0}

VARIABLES proc,       \* Process: state, start (cmd, waitDone), once, waitErr
          child,      \* the operating system's process of each Start
          closed,     \* the waitDone channels that are closed
          scan,       \* StreamOutput: whether it runs, lines read and taken
          cancelled,  \* the context given to Start is done
          thread,     \* calls of Stop, Wait and Remove
          helper,     \* their goroutines in doWait
          managed,    \* Manager.processes
          mlock,      \* the Remove that holds Manager.mu
          fatal       \* the program has crashed

ioVars == <<scan, cancelled>>
managerVars == <<managed, mlock>>
processVars == <<proc, child, closed, ioVars, thread, helper, managerVars, fatal>>

Starts == 1..MaxStarts
NewProcess == [state |-> "idle", start |-> 0, done |-> FALSE, held |-> FALSE, waitErr |-> FALSE]
Outside == [at |-> "out", op |-> "wait", proc |-> CHOOSE p \in Procs : TRUE, chan |-> 0]
NoHelper == [at |-> "none", start |-> 0]

ProcessInit ==
    /\ proc = [p \in Procs |-> NewProcess]
    /\ child = [p \in Procs |-> [g \in Starts |-> "none"]]
    /\ closed = [p \in Procs |-> {}]
    /\ scan = [p \in Procs |-> [at |-> "off", read |-> 0, taken |-> 0]]
    /\ cancelled = [p \in Procs |-> FALSE]
    /\ thread = [t \in Threads |-> Outside]
    /\ helper = [t \in Threads |-> [p \in Procs |-> NoHelper]]
    /\ managed = {}
    /\ mlock = NoThread
    /\ fatal = FALSE

\* The child p.cmd stands for: none before the first Start.
Child(p) == IF proc[p].start = 0 THEN "none" ELSE child[p][proc[p].start]
Exited(p) == Child(p) \in {"ok", "bad", "reaped"}

-----------------------------------------------------------------------------
(* Process.Start                                                           *)

Start(p) ==
    /\ proc[p].state # "running" /\ ~cancelled[p]
    /\ proc[p].start < MaxStarts
    /\ LET g == proc[p].start + 1 IN
       /\ proc' = [proc EXCEPT ![p] = [@ EXCEPT !.state = "running", !.start = g,
                                                !.done = FALSE, !.held = FALSE]]
       /\ child' = [child EXCEPT ![p][g] = "alive"]
    /\ UNCHANGED <<closed, ioVars, thread, helper, managerVars, fatal>>

\* A pipe or the child cannot be made; a context that is done makes none.
StartFails(p) ==
    /\ proc[p].state # "running"
    /\ proc' = [proc EXCEPT ![p].state = "error"]
    /\ UNCHANGED <<child, closed, ioVars, thread, helper, managerVars, fatal>>

-----------------------------------------------------------------------------
(* doWait, on the goroutines of Stop and Wait                              *)

\* (Variant) No sync.Once: everybody waits for the child.
HelperEntersAlways(t, p) ==
    /\ helper[t][p].at = "spawned"
    /\ proc' = [proc EXCEPT ![p].held = TRUE]
    /\ helper' = [helper EXCEPT ![t][p] = [at |-> "waiting", start |-> proc[p].start]]
    /\ UNCHANGED <<child, closed, ioVars, thread, managerVars, fatal>>

\* Once.Do: nothing when it was done before, else enter unless somebody is in.
HelperEnters(t, p) ==
    /\ helper[t][p].at = "spawned"
    /\ proc[p].done \/ ~proc[p].held
    /\ IF proc[p].done
       THEN /\ helper' = [helper EXCEPT ![t][p] = NoHelper]
            /\ UNCHANGED proc
       ELSE /\ proc' = [proc EXCEPT ![p].held = TRUE]
            /\ helper' = [helper EXCEPT ![t][p] = [at |-> "waiting", start |-> proc[p].start]]
    /\ UNCHANGED <<child, closed, ioVars, thread, managerVars, fatal>>

\* cmd.Wait returns and closes the pipes; then p.waitDone is closed, which is
\* the current one and panics if it is closed already.
HelperReaps(t, p) ==
    LET g == helper[t][p].start IN
    /\ helper[t][p].at = "waiting"
    /\ child[p][g] \in {"ok", "bad", "reaped"}
    /\ proc' = [proc EXCEPT ![p].waitErr = child[p][g] # "ok"]
    /\ child' = [child EXCEPT ![p][g] = "reaped"]
    /\ closed' = [closed EXCEPT ![p] = @ \cup {proc[p].start}]
    /\ fatal' = (proc[p].start \in closed[p])
    /\ helper' = [helper EXCEPT ![t][p].at = "leaving"]
    /\ UNCHANGED <<ioVars, thread, managerVars>>

\* Once.Do ends: it is marked done and its mutex unlocked.  Unlocking a mutex
\* that is not locked, because Start has reset it, is a fatal error.
HelperLeaves(t, p) ==
    /\ helper[t][p].at = "leaving"
    /\ fatal' = ~proc[p].held
    /\ proc' = [proc EXCEPT ![p] = [@ EXCEPT !.done = TRUE, !.held = FALSE]]
    /\ helper' = [helper EXCEPT ![t][p] = NoHelper]
    /\ UNCHANGED <<child, closed, ioVars, thread, managerVars>>

-----------------------------------------------------------------------------
(* Process.Stop and Process.Wait                                           *)

\* The goroutine is started and p.waitDone read, after the lock was released; no
\* Start comes in between, here or in the modules that extend this one.
Calls(t, p, op) ==
    /\ thread[t].at = "out" /\ helper[t][p].at = "none"
    /\ thread' = [thread EXCEPT ![t] = [at |-> "sleep", op |-> op, proc |-> p,
                                            chan |-> proc[p].start]]
    /\ helper' = [helper EXCEPT ![t][p] = [at |-> "spawned", start |-> 0]]

\* Under the lock a running process becomes stopping and is interrupted.
\* (Stop of any other process returns at once.)
StopBegins(t, p) ==
    /\ proc[p].state = "running"
    /\ Calls(t, p, "stop")
    /\ proc' = [proc EXCEPT ![p].state = "stopping"]
    /\ UNCHANGED <<child, closed, ioVars, managerVars, fatal>>

\* Wait for a process that was started once.
WaitBegins(t, p) ==
    /\ proc[p].start > 0
    /\ Calls(t, p, "wait")
    /\ UNCHANGED <<proc, child, closed, ioVars, managerVars, fatal>>

\* (Variants) Stop gives up when its time is over; or it waits on all the same.
StopTimesOutQuietly(t) ==
    /\ thread[t].at = "sleep" /\ thread[t].op \in {"stop", "remove"}
    /\ thread' = [thread EXCEPT ![t] = Outside]
    /\ proc' = [proc EXCEPT ![thread[t].proc].state = "stopped"]
    /\ UNCHANGED <<child, closed, ioVars, helper, managerVars, fatal>>
StopTimesOutSpares(t) ==
    /\ thread[t].at = "sleep" /\ thread[t].op \in {"stop", "remove"}
    /\ thread' = [thread EXCEPT ![t].at = "late"]
    /\ UNCHANGED <<proc, child, closed, ioVars, helper, managerVars, fatal>>

\* Five seconds have passed: Stop kills the child and waits on.
StopTimesOut(t) ==
    LET p == thread[t].proc IN
    /\ thread[t].at = "sleep" /\ thread[t].op \in {"stop", "remove"}
    /\ thread' = [thread EXCEPT ![t].at = "late", ![t].chan = proc[p].start]
    /\ child' = [child EXCEPT ![p][proc[p].start] = IF @ = "alive" THEN "dying" ELSE @]
    /\ UNCHANGED <<proc, closed, ioVars, helper, managerVars, fatal>>

\* The channel is closed: the process is stopped, the call returns.
Woken(t) ==
    /\ thread[t].at \in {"sleep", "late"}
    /\ thread[t].chan \in closed[thread[t].proc]
    /\ proc' = [proc EXCEPT ![thread[t].proc].state = "stopped"]
    /\ thread' = [thread EXCEPT ![t] = Outside]
    /\ IF thread[t].op = "remove"
       THEN managed' = managed \ {thread[t].proc} /\ mlock' = NoThread
       ELSE UNCHANGED managerVars
    /\ UNCHANGED <<child, closed, ioVars, helper, fatal>>

-----------------------------------------------------------------------------
(* Manager                                                                 *)

Create(p) ==
    /\ mlock = NoThread
    /\ managed' = managed \cup {p}
    /\ UNCHANGED <<proc, child, closed, ioVars, thread, helper, mlock, fatal>>

\* Remove of a process that does not run, or that is not registered.
Remove(p) ==
    /\ mlock = NoThread
    /\ proc[p].state # "running" \/ p \notin managed
    /\ managed' = managed \ {p}
    /\ UNCHANGED <<proc, child, closed, ioVars, thread, helper, mlock, fatal>>

\* Remove stops a running process first, with Manager.mu held.
RemoveBegins(t, p) ==
    /\ mlock = NoThread
    /\ p \in managed /\ proc[p].state = "running"
    /\ mlock' = t
    /\ Calls(t, p, "remove")
    /\ proc' = [proc EXCEPT ![p].state = "stopping"]
    /\ UNCHANGED <<child, closed, ioVars, managed, fatal>>

-----------------------------------------------------------------------------
(* The child and its output                                                *)

\* A killed child does not end well.
ChildExits(p, g, how) ==
    /\ \/ child[p][g] = "alive"
       \/ child[p][g] = "dying" /\ how = "bad"
    /\ child' = [child EXCEPT ![p][g] = how]
    /\ UNCHANGED <<proc, closed, ioVars, thread, helper, managerVars, fatal>>

\* The context ends, and exec kills the child that was started with it.
Cancel(p) ==
    /\ ~cancelled[p]
    /\ cancelled' = [cancelled EXCEPT ![p] = TRUE]
    /\ child' = [child EXCEPT ![p] = [g \in Starts |-> IF @[g] = "alive" THEN "dying" ELSE @[g]]]
    /\ UNCHANGED <<proc, closed, scan, thread, helper, managerVars, fatal>>

\* CollectOutput returns at the end of the output.  Reading fails when cmd.Wait
\* has closed the pipe first.
OutputEnded(p) == Exited(p)
OutputWhole(p) == Child(p) \in {"ok", "bad"}

StreamOutput(p) == scan' = [scan EXCEPT ![p].at = "on"]

\* scanStream sends a line, which the child may just have written.  Lines read
\* before the pipe was closed are in the scanner's buffer.
ScanLine(p) ==
    /\ scan[p].at = "on"
    /\ scan[p].read < Lines /\ scan[p].read - scan[p].taken < LineCap
    /\ scan' = [scan EXCEPT ![p].read = @ + 1]
    /\ UNCHANGED <<proc, child, closed, cancelled, thread, helper, managerVars, fatal>>

\* scanStream ends and closes the channel: at the end of the output, which is
\* complete if the child ended well; when the pipe was closed; at the first line
\* after the context is done; or, cut short, at a line longer than the scanner's
\* buffer.  The scanner's error is not looked at: the four look the same.
ScanEnds(p) ==
    /\ scan[p].at = "on"
    /\ \E end \in {"done", "cut"} :
          /\ IF end = "cut"
             THEN scan[p].read < Lines
             ELSE \/ Child(p) = "ok" /\ scan[p].read = Lines
                  \/ Child(p) \in {"bad", "reaped"}
                  \/ cancelled[p] /\ scan[p].read < Lines
          /\ scan' = [scan EXCEPT ![p].at = end]
    /\ UNCHANGED <<proc, child, closed, cancelled, thread, helper, managerVars, fatal>>

-----------------------------------------------------------------------------
HelperSteps(t, p) == HelperEnters(t, p) \/ HelperReaps(t, p) \/ HelperLeaves(t, p)

\* A Process on its own, used with care: nobody starts it while a Stop, a Wait
\* or a Remove is under way.
Next ==
    /\ ~fatal
    /\ \/ \E p \in Procs :
             \/ (\A t \in Threads : thread[t].at = "out") /\ (Start(p) \/ StartFails(p))
             \/ Create(p) \/ Remove(p) \/ Cancel(p)
             \/ \E g \in Starts, how \in {"ok", "bad"} : ChildExits(p, g, how)
       \/ \E t \in Threads, p \in Procs :
             StopBegins(t, p) \/ WaitBegins(t, p) \/ RemoveBegins(t, p) \/ HelperSteps(t, p)
       \/ \E t \in Threads : StopTimesOut(t) \/ Woken(t)

ProcessSpec == ProcessInit /\ [][Next]_processVars

-----------------------------------------------------------------------------
\* However many goroutines stop a process and wait for it, one of them reaps
\* its child and closes its channel: the program never crashes.
OneReaper == ~fatal

=============================================================================
