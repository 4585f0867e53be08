----------------------------- MODULE AgentsProofs -----------------------------
(***************************************************************************)
(* Safety of processes and agents for every number of goroutines, calls    *)
(* and lines.  First a Process that is started once: however many          *)
(* goroutines stop it and wait for it, one reaps it.  Then the agents, who *)
(* start each Process once: no child is left behind, an answer is a whole  *)
(* output, and Stop ends the children it found.                            *)
(***************************************************************************)
EXTENDS Agents, TLAPS

ChildStates == {"none", "alive", "dying", "ok", "bad", "reaped"}

ProcessRecords == [state : {"idle", "running", "stopping", "stopped", "error"}, start : Nat,
                   done : BOOLEAN, held : BOOLEAN, waitErr : BOOLEAN]

ProcTypes ==
    /\ proc \in [Procs -> ProcessRecords]
    /\ child \in [Procs -> [Starts -> ChildStates]]
    /\ closed \in [Procs -> SUBSET Nat]

ScanPlaces == {"off", "on", "done", "cut"}

ScanTypes ==
    /\ scan \in [Procs -> [at : ScanPlaces, read : Nat, taken : Nat]]
    /\ cancelled \in [Procs -> BOOLEAN]

ThreadRecords == [at : {"out", "sleep", "late"}, op : {"stop", "wait", "remove"},
                  proc : Procs \cup {Outside.proc}, chan : Nat]

HelperRecords == [at : {"none", "spawned", "waiting", "leaving"}, start : Nat]

ThreadTypes ==
    /\ thread \in [Threads -> ThreadRecords]
    /\ helper \in [Threads -> [Procs -> HelperRecords]]
    /\ managed \subseteq Procs

ProcessTypes == ProcTypes /\ ScanTypes /\ ThreadTypes

-----------------------------------------------------------------------------
(* One Start                                                               *)

\* Goroutine t is inside the Once of process p.
Inside(t, p) == helper[t][p].at \in {"waiting", "leaving"}

\* Before its only Start there is no child and nobody is in doWait.  The channel
\* is closed exactly when the child is reaped.
StartedOnce(p) ==
    /\ proc[p].start \in {0, 1}
    /\ proc[p].start = 0 =>
          /\ child[p][1] = "none" /\ ~proc[p].done /\ ~proc[p].held
          /\ proc[p].state \in {"idle", "error"}
          /\ \A t \in Threads : helper[t][p].at = "none"
    /\ proc[p].start = 1 => child[p][1] # "none"
    /\ closed[p] = IF child[p][1] = "reaped" THEN {1} ELSE {}
    /\ proc[p].waitErr => child[p][1] = "reaped"

\* One goroutine at most is inside the Once, with its mutex held.  A child that
\* is reaped was reaped by one that is inside or has left.
OnceInv(p) ==
    /\ \A t \in Threads : Inside(t, p) => proc[p].held /\ ~proc[p].done /\ helper[t][p].start = 1
    /\ \A t, u \in Threads : Inside(t, p) /\ Inside(u, p) => t = u
    /\ \A t \in Threads : helper[t][p].at = "waiting" => child[p][1] # "reaped"
    /\ \A t \in Threads : helper[t][p].at = "leaving" => child[p][1] = "reaped"
    /\ child[p][1] = "reaped" => proc[p].done \/ proc[p].held

\* Who sleeps in Stop or Wait sleeps on the channel of that Start.
ThreadInv ==
    \A t \in Threads : thread[t].at # "out" =>
        thread[t].proc \in Procs /\ proc[thread[t].proc].start = 1 /\ thread[t].chan = 1

ProcessInv ==
    /\ ProcessTypes
    /\ \A p \in Procs : StartedOnce(p) /\ OnceInv(p)
    /\ ThreadInv
    /\ OneReaper

\* It holds before anything is started.
LEMMA ProcessInitInv == ProcessInit => ProcessInv
<1> SUFFICES ASSUME ProcessInit PROVE ProcessInv
  OBVIOUS
<1> USE ProcessAssumption DEF ProcessInit
<1>1. ProcTypes
  BY DEF ProcTypes, ProcessRecords, NewProcess, ChildStates
<1>2. ScanTypes
  BY DEF ScanTypes, ScanPlaces
<1>3. ThreadTypes
  BY DEF ThreadTypes, ThreadRecords, HelperRecords, Outside, NoHelper
<1>4. \A p \in Procs : StartedOnce(p) /\ OnceInv(p)
  BY DEF StartedOnce, OnceInv, Inside, NewProcess, NoHelper, Starts
<1>5. ThreadInv
  BY DEF ThreadInv, Outside
<1>6. OneReaper
  BY DEF OneReaper
<1> QED BY <1>1, <1>2, <1>3, <1>4, <1>5, <1>6 DEF ProcessInv, ProcessTypes

\* A step on one process leaves the others as they are.
LEMMA OtherProcess ==
    ASSUME NEW q \in Procs, StartedOnce(q), OnceInv(q),
           proc'[q] = proc[q], child'[q] = child[q], closed'[q] = closed[q],
           \A t \in Threads : helper'[t][q] = helper[t][q]
    PROVE  StartedOnce(q)' /\ OnceInv(q)'
<1>1. StartedOnce(q)'
  BY DEF StartedOnce
<1>2. OnceInv(q)'
  BY DEF OnceInv, Inside
<1> QED BY <1>1, <1>2

\* A Process that was never started is.
LEMMA StartInv ==
    ASSUME ProcessInv, NEW p \in Procs, proc[p].start = 0, Start(p)
    PROVE  ProcessInv'
<1> USE ProcessAssumption DEF ProcessInv, ProcessTypes
<1>1. ProcTypes'
  <2>1. proc[p] \in ProcessRecords
    BY DEF ProcTypes
  <2>2. /\ proc' = [proc EXCEPT ![p] = [proc[p] EXCEPT !.state = "running", !.start = 1,
                                                      !.done = FALSE, !.held = FALSE]]
        /\ child' = [child EXCEPT ![p][1] = "alive"] /\ closed' = closed
    BY DEF Start
  <2>3. [proc[p] EXCEPT !.state = "running", !.start = 1, !.done = FALSE, !.held = FALSE]
            \in ProcessRecords
    BY <2>1 DEF ProcessRecords
  <2>4. proc' \in [Procs -> ProcessRecords]
    BY <2>2, <2>3 DEF ProcTypes
  <2>5. child' \in [Procs -> [Starts -> ChildStates]]
    BY <2>2 DEF ProcTypes, ChildStates
  <2> QED BY <2>2, <2>4, <2>5 DEF ProcTypes
<1>2. ScanTypes' /\ ThreadTypes'
  BY DEF Start, ScanTypes, ThreadTypes, ioVars, managerVars
<1>3. ASSUME NEW q \in Procs PROVE StartedOnce(q)' /\ OnceInv(q)'
  <2>1. CASE q # p
    <3>1. proc'[q] = proc[q] /\ child'[q] = child[q] /\ closed'[q] = closed[q] /\ helper' = helper
      BY <2>1 DEF Start, ProcTypes
    <3> QED BY <3>1, OtherProcess
  <2>2. CASE q = p
    <3>1. /\ proc'[p] = [proc[p] EXCEPT !.state = "running", !.start = 1, !.done = FALSE,
                                        !.held = FALSE]
          /\ child'[p][1] = "alive" /\ closed' = closed /\ helper' = helper
      BY DEF Start, ProcTypes, Starts
    <3>2. /\ proc'[p].start = 1 /\ proc'[p].waitErr = proc[p].waitErr
      BY <3>1 DEF ProcTypes, ProcessRecords
    <3>3. StartedOnce(p) /\ OnceInv(p)
      OBVIOUS
    <3>4. child[p][1] = "none" /\ \A t \in Threads : helper[t][p].at = "none"
      BY <3>3 DEF StartedOnce
    <3>5. StartedOnce(p)'
      BY <3>1, <3>2, <3>3, <3>4 DEF StartedOnce
    <3>6. OnceInv(p)'
      BY <3>1, <3>4 DEF OnceInv, Inside
    <3> QED BY <2>2, <3>5, <3>6
  <2> QED BY <2>1, <2>2
<1>4. ThreadInv' /\ OneReaper'
  BY DEF Start, ThreadInv, OneReaper, ProcTypes
<1> QED BY <1>1, <1>2, <1>3, <1>4

\* Start fails before it makes a child.
LEMMA StartFailsInv ==
    ASSUME ProcessInv, NEW p \in Procs, StartFails(p)
    PROVE  ProcessInv'
<1> USE ProcessAssumption DEF ProcessInv, ProcessTypes
<1>1. proc[p] \in ProcessRecords
  BY DEF ProcTypes
<1>2. proc' = [proc EXCEPT ![p].state = "error"]
  BY DEF StartFails
<1>3. ProcTypes'
  BY <1>1, <1>2 DEF StartFails, ProcTypes, ProcessRecords
<1>4. ScanTypes' /\ ThreadTypes'
  BY DEF StartFails, ScanTypes, ThreadTypes, ioVars, managerVars
<1>5. ASSUME NEW q \in Procs PROVE StartedOnce(q)' /\ OnceInv(q)'
  <2>1. /\ proc'[q].start = proc[q].start /\ proc'[q].done = proc[q].done
        /\ proc'[q].held = proc[q].held /\ proc'[q].waitErr = proc[q].waitErr
        /\ q # p => proc'[q].state = proc[q].state
        /\ q = p => proc'[q].state = "error"
    BY <1>1, <1>2 DEF ProcTypes, ProcessRecords
  <2>2. child' = child /\ closed' = closed /\ helper' = helper
    BY DEF StartFails
  <2>3. StartedOnce(q) /\ OnceInv(q)
    OBVIOUS
  <2>4. StartedOnce(q)'
    BY <2>1, <2>2, <2>3 DEF StartedOnce
  <2>5. OnceInv(q)'
    BY <2>1, <2>2, <2>3 DEF OnceInv, Inside
  <2> QED BY <2>4, <2>5
<1>6. ThreadInv' /\ OneReaper'
  BY <1>1 DEF StartFails, ThreadInv, OneReaper, ProcTypes, ProcessRecords
<1> QED BY <1>3, <1>4, <1>5, <1>6

\* A step of a goroutine in doWait on one process leaves the others alone.
LEMMA OtherHelper ==
    ASSUME NEW t \in Threads, NEW p \in Procs, NEW q \in Procs, q # p,
           ProcessTypes, HelperSteps(t, p)
    PROVE  /\ proc'[q] = proc[q] /\ child'[q] = child[q] /\ closed'[q] = closed[q]
           /\ \A u \in Threads : helper'[u][q] = helper[u][q]
<1> USE DEF ProcessTypes, ProcTypes, ThreadTypes
<1>1. CASE HelperEnters(t, p)
  BY <1>1 DEF HelperEnters
<1>2. CASE HelperReaps(t, p)
  BY <1>2 DEF HelperReaps
<1>3. CASE HelperLeaves(t, p)
  BY <1>3 DEF HelperLeaves
<1> QED BY <1>1, <1>2, <1>3 DEF HelperSteps

\* Nobody moves but the goroutine itself, and it stays in doWait or leaves it.
LEMMA HelperTypes ==
    ASSUME NEW t \in Threads, NEW p \in Procs, ProcessTypes, HelperSteps(t, p)
    PROVE  ScanTypes' /\ ThreadTypes'
<1> USE DEF ProcessTypes
<1>1. scan' = scan /\ cancelled' = cancelled /\ thread' = thread /\ managed' = managed
  BY DEF HelperSteps, HelperEnters, HelperReaps, HelperLeaves, ioVars, managerVars
<1>2. \E h \in HelperRecords : helper' = [helper EXCEPT ![t][p] = h]
  <2>1. helper[t][p] \in HelperRecords /\ proc[p] \in ProcessRecords
    BY DEF ThreadTypes, ProcTypes
  <2>2. NoHelper \in HelperRecords
    BY DEF NoHelper, HelperRecords
  <2>3. [at |-> "waiting", start |-> proc[p].start] \in HelperRecords
    BY <2>1 DEF HelperRecords, ProcessRecords
  <2>4. [helper[t][p] EXCEPT !.at = "leaving"] \in HelperRecords
    BY <2>1 DEF HelperRecords
  <2>5. CASE HelperEnters(t, p)
    BY <2>5, <2>2, <2>3 DEF HelperEnters
  <2>6. CASE HelperReaps(t, p)
    <3>1. helper' = [helper EXCEPT ![t][p] = [helper[t][p] EXCEPT !.at = "leaving"]]
      BY <2>6 DEF HelperReaps
    <3> QED BY <3>1, <2>4
  <2>7. CASE HelperLeaves(t, p)
    BY <2>7, <2>2 DEF HelperLeaves
  <2> QED BY <2>5, <2>6, <2>7 DEF HelperSteps
<1>3. helper' \in [Threads -> [Procs -> HelperRecords]]
  BY <1>2 DEF ThreadTypes
<1> QED BY <1>1, <1>3 DEF ScanTypes, ThreadTypes

\* A goroutine in doWait finds the Once done, or enters it when nobody is in.
LEMMA HelperEntersInv ==
    ASSUME ProcessInv, NEW t \in Threads, NEW p \in Procs, HelperEnters(t, p)
    PROVE  ProcessInv'
<1> USE ProcessAssumption DEF ProcessInv, ProcessTypes
<1>1. proc[p] \in ProcessRecords
  BY DEF ProcTypes
<1>2. ScanTypes' /\ ThreadTypes'
  BY HelperTypes DEF HelperSteps
<1>3. ProcTypes'
  <2>1. CASE proc[p].done
    BY <2>1 DEF HelperEnters, ProcTypes
  <2>2. CASE ~proc[p].done
    <3>1. proc' = [proc EXCEPT ![p].held = TRUE] /\ child' = child /\ closed' = closed
      BY <2>2 DEF HelperEnters
    <3>2. proc' \in [Procs -> ProcessRecords]
      BY <1>1, <3>1 DEF ProcTypes, ProcessRecords
    <3> QED BY <3>1, <3>2 DEF ProcTypes
  <2> QED BY <2>1, <2>2
<1>4. ASSUME NEW q \in Procs PROVE StartedOnce(q)' /\ OnceInv(q)'
  <2>1. CASE q # p
    BY <2>1, OtherProcess, OtherHelper DEF HelperSteps
  <2>2. CASE q = p
    <3>1. StartedOnce(p) /\ OnceInv(p) /\ child' = child /\ closed' = closed
      BY DEF HelperEnters
    <3>2. helper[t][p].at = "spawned" /\ proc[p].start = 1
      BY <3>1 DEF HelperEnters, StartedOnce
    <3>3. CASE proc[p].done
      <4>1. /\ proc' = proc /\ helper'[t][p].at = "none"
            /\ \A u \in Threads : u # t => helper'[u][p] = helper[u][p]
        BY <3>3 DEF HelperEnters, ThreadTypes, NoHelper
      <4>2. StartedOnce(p)'
        BY <3>1, <3>2, <4>1 DEF StartedOnce
      <4>3. OnceInv(p)'
        BY <3>1, <4>1 DEF OnceInv, Inside
      <4> QED BY <2>2, <4>2, <4>3
    <3>4. CASE ~proc[p].done
      <4>1. ~proc[p].held
        BY <3>4 DEF HelperEnters
      <4>2. /\ proc'[p].start = 1 /\ proc'[p].held /\ ~proc'[p].done
            /\ proc'[p].waitErr = proc[p].waitErr
        BY <3>2, <3>4, <1>1 DEF HelperEnters, ProcTypes, ProcessRecords
      <4>3. /\ helper'[t][p].at = "waiting" /\ helper'[t][p].start = 1
            /\ \A u \in Threads : u # t => helper'[u][p] = helper[u][p]
        BY <3>2, <3>4 DEF HelperEnters, ThreadTypes
      <4>4. \A u \in Threads : ~Inside(u, p)
        BY <3>1, <4>1 DEF OnceInv
      <4>5. child[p][1] # "reaped"
        BY <3>1, <3>4, <4>1 DEF OnceInv
      <4>6. StartedOnce(p)'
        BY <3>1, <3>2, <4>2 DEF StartedOnce
      <4>7. OnceInv(p)'
        BY <3>1, <4>2, <4>3, <4>4, <4>5 DEF OnceInv, Inside
      <4> QED BY <2>2, <4>6, <4>7
    <3> QED BY <3>3, <3>4
  <2> QED BY <2>1, <2>2
<1>5. ThreadInv' /\ OneReaper'
  <2>1. \A q \in Procs : proc'[q].start = proc[q].start
    BY <1>1 DEF HelperEnters, ProcTypes, ProcessRecords
  <2> QED BY <2>1 DEF HelperEnters, ThreadInv, OneReaper
<1> QED BY <1>2, <1>3, <1>4, <1>5

\* The one that is inside waits for the only child there is, and its channel is
\* still open.
LEMMA HelperReapsInv ==
    ASSUME ProcessInv, NEW t \in Threads, NEW p \in Procs, HelperReaps(t, p)
    PROVE  ProcessInv'
<1> USE ProcessAssumption DEF ProcessInv, ProcessTypes
<1>1. proc[p] \in ProcessRecords /\ StartedOnce(p) /\ OnceInv(p)
  BY DEF ProcTypes
<1>2. Inside(t, p) /\ helper[t][p].at = "waiting"
  BY DEF Inside, HelperReaps
<1>3. /\ helper[t][p].start = 1 /\ proc[p].held /\ ~proc[p].done
      /\ child[p][1] # "reaped"
  BY <1>1, <1>2 DEF OnceInv
<1>4. proc[p].start = 1
  BY <1>1, <1>2 DEF StartedOnce
<1>5. closed[p] = {}
  BY <1>1, <1>3 DEF StartedOnce
<1>6. /\ proc' = [proc EXCEPT ![p].waitErr = child[p][1] # "ok"]
      /\ child' = [child EXCEPT ![p][1] = "reaped"]
      /\ closed' = [closed EXCEPT ![p] = {1}]
      /\ fatal' = FALSE
  <2>1. {} \cup {1} = {1} /\ (1 \in {}) = FALSE
    OBVIOUS
  <2>2. fatal' = (1 \in {})
    BY <1>4, <1>5 DEF HelperReaps
  <2>3. closed' = [closed EXCEPT ![p] = {} \cup {1}]
    BY <1>4, <1>5 DEF HelperReaps
  <2>4. /\ proc' = [proc EXCEPT ![p].waitErr = child[p][1] # "ok"]
        /\ child' = [child EXCEPT ![p][1] = "reaped"]
    BY <1>3 DEF HelperReaps
  <2> QED BY <2>1, <2>2, <2>3, <2>4
<1>7. ScanTypes' /\ ThreadTypes'
  BY HelperTypes DEF HelperSteps
<1>8. ProcTypes'
  <2>1. proc' \in [Procs -> ProcessRecords]
    BY <1>1, <1>6 DEF ProcTypes, ProcessRecords
  <2>2. child' \in [Procs -> [Starts -> ChildStates]]
    BY <1>6 DEF ProcTypes, ChildStates
  <2>3. closed' \in [Procs -> SUBSET Nat]
    BY <1>6 DEF ProcTypes
  <2> QED BY <2>1, <2>2, <2>3 DEF ProcTypes
<1>9. ASSUME NEW q \in Procs PROVE StartedOnce(q)' /\ OnceInv(q)'
  <2>1. CASE q # p
    BY <2>1, OtherProcess, OtherHelper DEF HelperSteps
  <2>2. CASE q = p
    <3>1. /\ proc'[p].start = 1 /\ proc'[p].held /\ ~proc'[p].done
      BY <1>1, <1>3, <1>4, <1>6 DEF ProcTypes, ProcessRecords
    <3>2. child'[p][1] = "reaped" /\ closed'[p] = {1}
      BY <1>6 DEF ProcTypes, Starts
    <3>3. /\ helper'[t][p].at = "leaving" /\ helper'[t][p].start = 1
          /\ \A u \in Threads : u # t => helper'[u][p] = helper[u][p]
      BY <1>3 DEF HelperReaps, ThreadTypes, HelperRecords
    <3>4. \A u \in Threads : u # t => ~Inside(u, p)
      BY <1>1, <1>2 DEF OnceInv
    <3>5. StartedOnce(p)'
      BY <3>1, <3>2 DEF StartedOnce
    <3>6. OnceInv(p)'
      BY <3>1, <3>2, <3>3, <3>4 DEF OnceInv, Inside
    <3> QED BY <2>2, <3>5, <3>6
  <2> QED BY <2>1, <2>2
<1>10. ThreadInv' /\ OneReaper'
  <2>1. \A q \in Procs : proc'[q].start = proc[q].start
    BY <1>1, <1>6 DEF ProcTypes, ProcessRecords
  <2> QED BY <1>6, <2>1 DEF HelperReaps, ThreadInv, OneReaper
<1> QED BY <1>7, <1>8, <1>9, <1>10

\* Its mutex is held until it leaves.
LEMMA HelperLeavesInv ==
    ASSUME ProcessInv, NEW t \in Threads, NEW p \in Procs, HelperLeaves(t, p)
    PROVE  ProcessInv'
<1> USE ProcessAssumption DEF ProcessInv, ProcessTypes
<1>1. proc[p] \in ProcessRecords /\ StartedOnce(p) /\ OnceInv(p)
  BY DEF ProcTypes
<1>2. Inside(t, p) /\ helper[t][p].at = "leaving"
  BY DEF Inside, HelperLeaves
<1>3. proc[p].held /\ child[p][1] = "reaped" /\ proc[p].start = 1
  BY <1>1, <1>2 DEF OnceInv, StartedOnce
<1>4. /\ proc' = [proc EXCEPT ![p] = [proc[p] EXCEPT !.done = TRUE, !.held = FALSE]]
      /\ child' = child /\ closed' = closed /\ fatal' = FALSE
  BY <1>3 DEF HelperLeaves
<1>5. ScanTypes' /\ ThreadTypes'
  BY HelperTypes DEF HelperSteps
<1>6. [proc[p] EXCEPT !.done = TRUE, !.held = FALSE] \in ProcessRecords
  BY <1>1 DEF ProcessRecords
<1>7. ProcTypes'
  BY <1>4, <1>6 DEF ProcTypes
<1>8. /\ proc'[p].start = 1 /\ proc'[p].done /\ ~proc'[p].held
      /\ proc'[p].waitErr = proc[p].waitErr
  BY <1>1, <1>3, <1>4 DEF ProcTypes, ProcessRecords
<1>9. ASSUME NEW q \in Procs PROVE StartedOnce(q)' /\ OnceInv(q)'
  <2>1. CASE q # p
    BY <2>1, OtherProcess, OtherHelper DEF HelperSteps
  <2>2. CASE q = p
    <3>1. /\ helper'[t][p].at = "none"
          /\ \A u \in Threads : u # t => helper'[u][p] = helper[u][p]
      BY DEF HelperLeaves, ThreadTypes, NoHelper
    <3>2. \A u \in Threads : u # t => ~Inside(u, p)
      BY <1>1, <1>2 DEF OnceInv
    <3>3. StartedOnce(p)'
      BY <1>1, <1>3, <1>4, <1>8 DEF StartedOnce
    <3>4. OnceInv(p)'
      BY <1>3, <1>4, <1>8, <3>1, <3>2 DEF OnceInv, Inside
    <3> QED BY <2>2, <3>3, <3>4
  <2> QED BY <2>1, <2>2
<1>10. ThreadInv' /\ OneReaper'
  <2>1. \A q \in Procs : proc'[q].start = proc[q].start
    BY <1>1, <1>3, <1>4, <1>8
  <2> QED BY <1>4, <2>1 DEF HelperLeaves, ThreadInv, OneReaper
<1> QED BY <1>5, <1>7, <1>9, <1>10

-----------------------------------------------------------------------------
(* The other steps                                                         *)

\* What a step may do to a process without touching its Once: change the state
\* of one that was started, let a child that runs end or be killed, and send a
\* goroutine that will be in doWait.
LEMMA OnceKept ==
    ASSUME NEW q \in Procs, StartedOnce(q), OnceInv(q),
           proc'[q].start = proc[q].start, proc'[q].done = proc[q].done,
           proc'[q].held = proc[q].held, proc'[q].waitErr = proc[q].waitErr,
           proc[q].start = 1 \/ proc'[q].state = proc[q].state,
           \/ child'[q][1] = child[q][1]
           \/ child[q][1] \notin {"none", "reaped"} /\ child'[q][1] \notin {"none", "reaped"},
           closed'[q] = closed[q],
           \A t \in Threads : \/ helper'[t][q] = helper[t][q]
                              \/ /\ helper[t][q].at = "none" /\ helper'[t][q].at = "spawned"
                                 /\ proc[q].start = 1
    PROVE  StartedOnce(q)' /\ OnceInv(q)'
<1>1. \A t \in Threads : \/ helper'[t][q] = helper[t][q]
                         \/ helper'[t][q].at = "spawned" /\ proc[q].start = 1
  OBVIOUS
<1>2. \A t \in Threads : Inside(t, q)' => Inside(t, q) /\ helper'[t][q] = helper[t][q]
  BY <1>1 DEF Inside
<1>3. child'[q][1] = "reaped" <=> child[q][1] = "reaped"
  OBVIOUS
<1>4. child'[q][1] = "none" <=> child[q][1] = "none"
  OBVIOUS
<1>5. StartedOnce(q)'
  BY <1>1, <1>3, <1>4 DEF StartedOnce
<1>6. OnceInv(q)'
  <2>1. \A t \in Threads : Inside(t, q)' =>
           proc'[q].held /\ ~proc'[q].done /\ helper'[t][q].start = 1
    BY <1>2 DEF OnceInv
  <2>2. \A t, u \in Threads : Inside(t, q)' /\ Inside(u, q)' => t = u
    BY <1>2 DEF OnceInv
  <2>3. \A t \in Threads : helper'[t][q].at = "waiting" => child'[q][1] # "reaped"
    BY <1>1, <1>3 DEF OnceInv
  <2>4. \A t \in Threads : helper'[t][q].at = "leaving" => child'[q][1] = "reaped"
    BY <1>1, <1>3 DEF OnceInv
  <2>5. child'[q][1] = "reaped" => proc'[q].done \/ proc'[q].held
    BY <1>3 DEF OnceInv
  <2> QED BY <2>1, <2>2, <2>3, <2>4, <2>5 DEF OnceInv, Inside
<1> QED BY <1>5, <1>6

\* A goroutine goes to sleep on the channel of the only Start, and another one is
\* sent to doWait; a running process may become stopping.
LEMMA CallsInv ==
    ASSUME ProcessInv, NEW t \in Threads, NEW p \in Procs,
           NEW op \in {"stop", "wait", "remove"}, Calls(t, p, op), proc[p].start = 1,
           proc' = proc \/ proc' = [proc EXCEPT ![p].state = "stopping"],
           UNCHANGED <<child, closed, ioVars, managed, fatal>>
    PROVE  ProcessInv'
<1> USE ProcessAssumption DEF ProcessInv, ProcessTypes
<1>1. \A q \in Procs :
         /\ proc'[q] \in ProcessRecords
         /\ proc'[q].start = proc[q].start /\ proc'[q].done = proc[q].done
         /\ proc'[q].held = proc[q].held /\ proc'[q].waitErr = proc[q].waitErr
         /\ q # p => proc'[q].state = proc[q].state
  BY DEF ProcTypes, ProcessRecords
<1>2. ProcTypes'
  <2>1. proc' \in [Procs -> ProcessRecords]
    BY <1>1 DEF ProcTypes
  <2> QED BY <2>1 DEF ProcTypes
<1>3. ScanTypes'
  BY DEF ScanTypes, ioVars
<1>4. ThreadTypes'
  <2>1. [at |-> "sleep", op |-> op, proc |-> p, chan |-> proc[p].start] \in ThreadRecords
    BY DEF ThreadRecords
  <2>2. thread' \in [Threads -> ThreadRecords]
    BY <2>1 DEF Calls, ThreadTypes
  <2>3. [at |-> "spawned", start |-> 0] \in HelperRecords
    BY DEF HelperRecords
  <2>4. helper' \in [Threads -> [Procs -> HelperRecords]]
    BY <2>3 DEF Calls, ThreadTypes
  <2> QED BY <2>2, <2>4 DEF ThreadTypes
<1>5. ASSUME NEW q \in Procs PROVE StartedOnce(q)' /\ OnceInv(q)'
  <2>1. \A u \in Threads : \/ helper'[u][q] = helper[u][q]
                           \/ /\ helper[u][q].at = "none" /\ helper'[u][q].at = "spawned"
                              /\ q = p
    BY DEF Calls, ThreadTypes
  <2> QED BY <1>1, <2>1, OnceKept
<1>6. ThreadInv' /\ OneReaper'
  BY <1>1 DEF Calls, ThreadInv, OneReaper, ThreadTypes
<1> QED BY <1>2, <1>3, <1>4, <1>5, <1>6

\* A process that runs was started.
LEMMA RunningStarted ==
    ASSUME ProcessInv, NEW p \in Procs, proc[p].state = "running" \/ proc[p].start > 0
    PROVE  proc[p].start = 1
  BY DEF ProcessInv, StartedOnce

\* Stop, Wait and Remove begin.
LEMMA StopBeginsInv ==
    ASSUME ProcessInv, NEW t \in Threads, NEW p \in Procs,
           StopBegins(t, p) \/ WaitBegins(t, p) \/ RemoveBegins(t, p)
    PROVE  ProcessInv'
<1>1. proc[p].start = 1
  BY RunningStarted DEF StopBegins, WaitBegins, RemoveBegins
<1>2. CASE StopBegins(t, p)
  BY <1>1, <1>2, CallsInv DEF StopBegins, managerVars
<1>3. CASE WaitBegins(t, p)
  BY <1>1, <1>3, CallsInv DEF WaitBegins, managerVars
<1>4. CASE RemoveBegins(t, p)
  BY <1>1, <1>4, CallsInv DEF RemoveBegins
<1> QED BY <1>2, <1>3, <1>4

\* A child that ends, or is killed, is there still and was not waited for.
LEMMA ChildMovesInv ==
    ASSUME ProcessInv, child' \in [Procs -> [Starts -> ChildStates]],
           \A q \in Procs : \/ child'[q][1] = child[q][1]
                            \/ /\ child[q][1] \in {"alive", "dying"}
                               /\ child'[q][1] \in {"dying", "ok", "bad"},
           cancelled' \in [Procs -> BOOLEAN], thread' \in [Threads -> ThreadRecords],
           \A u \in Threads : \/ thread'[u] = thread[u]
                              \/ /\ thread[u].at # "out" /\ thread'[u].proc = thread[u].proc
                                 /\ thread'[u].chan = proc[thread[u].proc].start,
           UNCHANGED <<proc, closed, scan, helper, managed, fatal>>
    PROVE  ProcessInv'
<1> USE DEF ProcessInv, ProcessTypes
<1>1. ProcTypes' /\ ScanTypes' /\ ThreadTypes'
  BY DEF ProcTypes, ScanTypes, ThreadTypes
<1>2. ASSUME NEW q \in Procs PROVE StartedOnce(q)' /\ OnceInv(q)'
  BY OnceKept
<1>3. ThreadInv'
  BY DEF ThreadInv
<1>4. OneReaper'
  BY DEF OneReaper
<1> QED BY <1>1, <1>2, <1>3, <1>4

\* Stop kills the child and sleeps on.
LEMMA StopTimesOutInv ==
    ASSUME ProcessInv, NEW t \in Threads, StopTimesOut(t)
    PROVE  ProcessInv'
<1> USE ProcessAssumption DEF ProcessInv, ProcessTypes
<1> PICK p \in Procs : p = thread[t].proc
  BY DEF StopTimesOut, ThreadInv
<1>1. proc[p].start = 1 /\ thread[t] \in ThreadRecords
  BY DEF StopTimesOut, ThreadInv, ThreadTypes
<1>2. /\ thread' = [thread EXCEPT ![t].at = "late", ![t].chan = 1]
      /\ child' = [child EXCEPT ![p][1] = IF child[p][1] = "alive" THEN "dying" ELSE child[p][1]]
  BY <1>1 DEF StopTimesOut
<1>3. child' \in [Procs -> [Starts -> ChildStates]]
  <2>1. child[p][1] \in ChildStates
    BY DEF ProcTypes, Starts
  <2>2. (IF child[p][1] = "alive" THEN "dying" ELSE child[p][1]) \in ChildStates
    BY <2>1 DEF ChildStates
  <2> QED BY <1>2, <2>2 DEF ProcTypes
<1>4. \A q \in Procs : \/ child'[q][1] = child[q][1]
                       \/ child[q][1] = "alive" /\ child'[q][1] = "dying"
  BY <1>2 DEF ProcTypes, Starts
<1>5. thread' \in [Threads -> ThreadRecords]
  <2>1. [thread[t] EXCEPT !.at = "late", !.chan = 1] \in ThreadRecords
    BY <1>1 DEF ThreadRecords
  <2>2. thread' = [thread EXCEPT ![t] = [thread[t] EXCEPT !.at = "late", !.chan = 1]]
    BY <1>2 DEF ThreadTypes
  <2> QED BY <2>1, <2>2 DEF ThreadTypes
<1>6. \A u \in Threads : u # t => thread'[u] = thread[u]
  BY <1>2 DEF ThreadTypes
<1>7. thread[t].at # "out" /\ thread'[t].proc = p /\ thread'[t].chan = 1
  BY <1>1, <1>2 DEF StopTimesOut, ThreadTypes, ThreadRecords
<1>8. \A u \in Threads : \/ thread'[u] = thread[u]
                         \/ /\ thread[u].at # "out" /\ thread'[u].proc = thread[u].proc
                            /\ thread'[u].chan = proc[thread[u].proc].start
  BY <1>1, <1>6, <1>7
<1>9. cancelled' \in [Procs -> BOOLEAN] /\ UNCHANGED <<proc, closed, scan, helper, managed, fatal>>
  BY DEF StopTimesOut, ScanTypes, ioVars, managerVars
<1> QED BY <1>3, <1>4, <1>5, <1>8, <1>9, ChildMovesInv

\* A child ends.
LEMMA ChildExitsInv ==
    ASSUME ProcessInv, NEW p \in Procs, NEW g \in Starts, NEW how \in {"ok", "bad"},
           ChildExits(p, g, how)
    PROVE  ProcessInv'
<1> USE ProcessAssumption DEF ProcessInv, ProcessTypes
<1>1. child' = [child EXCEPT ![p][g] = how] /\ child[p][g] \in {"alive", "dying"}
  BY DEF ChildExits
<1>2. child' \in [Procs -> [Starts -> ChildStates]]
  BY <1>1 DEF ProcTypes, ChildStates
<1>3. \A q \in Procs : \/ child'[q][1] = child[q][1]
                       \/ child[q][1] \in {"alive", "dying"} /\ child'[q][1] = how
  BY <1>1 DEF ProcTypes, Starts
<1>4. /\ cancelled' \in [Procs -> BOOLEAN] /\ thread' = thread
      /\ UNCHANGED <<proc, closed, scan, helper, managed, fatal>>
  BY DEF ChildExits, ScanTypes, ioVars, managerVars
<1>5. thread' \in [Threads -> ThreadRecords]
  BY <1>4 DEF ThreadTypes
<1> QED BY <1>2, <1>3, <1>4, <1>5, ChildMovesInv

\* The context of a process ends, and its child is killed.
LEMMA CancelInv ==
    ASSUME ProcessInv, NEW p \in Procs, Cancel(p)
    PROVE  ProcessInv'
<1> USE ProcessAssumption DEF ProcessInv, ProcessTypes
<1>1. child' = [child EXCEPT ![p] = [g \in Starts |-> IF child[p][g] = "alive" THEN "dying"
                                                                             ELSE child[p][g]]]
  BY DEF Cancel
<1>2. child' \in [Procs -> [Starts -> ChildStates]]
  BY <1>1 DEF ProcTypes, ChildStates
<1>3. \A q \in Procs : \/ child'[q][1] = child[q][1]
                       \/ child[q][1] = "alive" /\ child'[q][1] = "dying"
  BY <1>1 DEF ProcTypes, Starts
<1>4. /\ cancelled' \in [Procs -> BOOLEAN] /\ thread' = thread
      /\ UNCHANGED <<proc, closed, scan, helper, managed, fatal>>
  BY DEF Cancel, ScanTypes, managerVars
<1>5. thread' \in [Threads -> ThreadRecords]
  BY <1>4 DEF ThreadTypes
<1> QED BY <1>2, <1>3, <1>4, <1>5, ChildMovesInv

\* Who is woken leaves the process stopped.
LEMMA WokenInv ==
    ASSUME ProcessInv, NEW t \in Threads, Woken(t)
    PROVE  ProcessInv'
<1> USE ProcessAssumption DEF ProcessInv, ProcessTypes
<1> PICK p \in Procs : p = thread[t].proc
  BY DEF Woken, ThreadInv
<1>1. proc[p].start = 1 /\ thread[t] \in ThreadRecords
  BY DEF Woken, ThreadInv, ThreadTypes
<1>2. /\ proc' = [proc EXCEPT ![p].state = "stopped"]
      /\ thread' = [thread EXCEPT ![t] = Outside]
      /\ UNCHANGED <<child, closed, scan, cancelled, helper, fatal>>
  BY DEF Woken, ioVars
<1>3. \A q \in Procs :
         /\ proc'[q] \in ProcessRecords
         /\ proc'[q].start = proc[q].start /\ proc'[q].done = proc[q].done
         /\ proc'[q].held = proc[q].held /\ proc'[q].waitErr = proc[q].waitErr
         /\ q # p => proc'[q].state = proc[q].state
  BY <1>2 DEF ProcTypes, ProcessRecords
<1>4. ProcTypes'
  <2>1. proc' \in [Procs -> ProcessRecords]
    BY <1>2, <1>3 DEF ProcTypes
  <2> QED BY <1>2, <2>1 DEF ProcTypes
<1>5. ThreadTypes'
  <2>1. Outside \in ThreadRecords
    BY DEF ThreadRecords, Outside
  <2>2. thread' \in [Threads -> ThreadRecords]
    BY <1>2, <2>1 DEF ThreadTypes
  <2>3. managed' \subseteq Procs
    BY DEF Woken, managerVars, ThreadTypes
  <2> QED BY <1>2, <2>2, <2>3 DEF ThreadTypes
<1>6. ASSUME NEW q \in Procs PROVE StartedOnce(q)' /\ OnceInv(q)'
  BY <1>1, <1>2, <1>3, OnceKept
<1>7. ThreadInv'
  BY <1>2, <1>3 DEF ThreadInv, ThreadTypes, Outside
<1> QED BY <1>2, <1>4, <1>5, <1>6, <1>7 DEF ScanTypes, OneReaper

\* The output is read and the manager's list kept without a word to a process.
LEMMA OutputInv ==
    ASSUME ProcessInv, UNCHANGED <<proc, child, closed, cancelled, thread, helper, fatal>>,
           managed' \subseteq Procs,
           scan' \in [Procs -> [at : ScanPlaces, read : Nat, taken : Nat]]
    PROVE  ProcessInv'
<1> USE DEF ProcessInv, ProcessTypes
<1>1. ProcTypes' /\ ScanTypes' /\ ThreadTypes'
  BY DEF ProcTypes, ScanTypes, ThreadTypes
<1>2. ASSUME NEW q \in Procs PROVE StartedOnce(q)' /\ OnceInv(q)'
  BY OnceKept
<1>3. ThreadInv' /\ OneReaper'
  BY DEF ThreadInv, OneReaper
<1> QED BY <1>1, <1>2, <1>3

\* The manager registers a process or forgets one.
LEMMA ManagerInv ==
    ASSUME ProcessInv, NEW p \in Procs, Create(p) \/ Remove(p)
    PROVE  ProcessInv'
<1>1. /\ UNCHANGED <<proc, child, closed, cancelled, thread, helper, fatal>>
      /\ managed' \subseteq Procs
      /\ scan' \in [Procs -> [at : ScanPlaces, read : Nat, taken : Nat]]
  BY DEF Create, Remove, ioVars, ProcessInv, ProcessTypes, ScanTypes, ThreadTypes
<1> QED BY <1>1, OutputInv

\* scanStream reads a line or ends.
LEMMA ScanInv ==
    ASSUME ProcessInv, NEW p \in Procs, ScanLine(p) \/ ScanEnds(p)
    PROVE  ProcessInv'
<1>1. scan[p] \in [at : ScanPlaces, read : Nat, taken : Nat]
  BY DEF ProcessInv, ProcessTypes, ScanTypes
<1>2. \/ scan' = [scan EXCEPT ![p].read = scan[p].read + 1]
      \/ \E end \in {"done", "cut"} : scan' = [scan EXCEPT ![p].at = end]
  BY DEF ScanLine, ScanEnds
<1>3. scan' \in [Procs -> [at : ScanPlaces, read : Nat, taken : Nat]]
  BY <1>1, <1>2 DEF ProcessInv, ProcessTypes, ScanTypes, ScanPlaces
<1>4. /\ UNCHANGED <<proc, child, closed, cancelled, thread, helper, fatal>>
      /\ managed' \subseteq Procs
  BY DEF ScanLine, ScanEnds, managerVars, ProcessInv, ProcessTypes, ThreadTypes
<1> QED BY <1>3, <1>4, OutputInv

\* Every step of a goroutine in doWait.
LEMMA HelperInv ==
    ASSUME ProcessInv, NEW t \in Threads, NEW p \in Procs, HelperSteps(t, p)
    PROVE  ProcessInv'
  BY HelperEntersInv, HelperReapsInv, HelperLeavesInv DEF HelperSteps

\* A Process that is started once is reaped by one goroutine, and its channel
\* closed once, however many goroutines stop it, wait for it and remove it.
THEOREM ReapedByOne ==
    ASSUME MaxStarts = 1
    PROVE  ProcessSpec => []OneReaper
<1>1. ProcessInit => ProcessInv
  BY ProcessInitInv
<1>2. ProcessInv /\ [Next]_processVars => ProcessInv'
  <2> SUFFICES ASSUME ProcessInv, [Next]_processVars PROVE ProcessInv'
    OBVIOUS
  <2>1. ASSUME NEW p \in Procs, Start(p) PROVE ProcessInv'
    <3>1. proc[p].start < 1 /\ proc[p].start \in {0, 1}
      BY <2>1 DEF Start, ProcessInv, StartedOnce
    <3> QED BY <2>1, <3>1, StartInv
  <2>2. ASSUME NEW p \in Procs, NEW g \in Starts, NEW how \in {"ok", "bad"},
               ChildExits(p, g, how)
        PROVE  ProcessInv'
    BY <2>2, ChildExitsInv
  <2>3. CASE UNCHANGED processVars
    BY <2>3, OutputInv DEF processVars, ioVars, managerVars, ProcessInv, ProcessTypes,
                           ScanTypes, ThreadTypes
  <2>4. CASE \E p \in Procs : StartFails(p) \/ Create(p) \/ Remove(p) \/ Cancel(p)
    BY <2>4, StartFailsInv, ManagerInv, CancelInv
  <2>5. CASE \E t \in Threads, p \in Procs :
               StopBegins(t, p) \/ WaitBegins(t, p) \/ RemoveBegins(t, p) \/ HelperSteps(t, p)
    BY <2>5, StopBeginsInv, HelperInv
  <2>6. CASE \E t \in Threads : StopTimesOut(t) \/ Woken(t)
    BY <2>6, StopTimesOutInv, WokenInv
  <2> QED BY <2>1, <2>2, <2>3, <2>4, <2>5, <2>6 DEF Next
<1>3. ProcessInv => OneReaper
  BY DEF ProcessInv
<1> QED BY <1>1, <1>2, <1>3, PTL DEF ProcessSpec

-----------------------------------------------------------------------------
(* Agents                                                                  *)

Places == {"new", "request", "start", "collect", "listen", "forward", "waiting", "tell",
           "leave", "over"}
CallRecords == [at : Places, out : Outcomes, whole : BOOLEAN]
EventRecords == [sent : Nat, got : Nat, last : {"none", "error", "done"}, gone : BOOLEAN]

AgentTypes ==
    /\ setup \in Setups
    /\ call \in [Procs -> CallRecords]
    /\ events \in [Procs -> EventRecords]
    /\ stopper \in [at : {"out", "list", "each", "over"}, todo : SUBSET Procs,
                    listed : SUBSET Procs]

CLI == setup.mode = "cli"
Late(c) == call[c].at \in {"waiting", "tell", "leave", "over"}
Stopping == stopper.at \in {"each", "over"}
StopperSleepsOn(c) == thread[Stopper].at # "out" /\ thread[Stopper].proc = c

\* Where a call stands says whether it has started its child; from tell on it has
\* seen the end of it.
PlaceInv(c) ==
    /\ thread[c].at # "out" => thread[c].proc = c
    /\ call[c].at \in {"new", "start", "request"} \/ ~CLI => proc[c].start = 0
    /\ call[c].at \in {"collect", "listen", "forward", "waiting", "tell"} => proc[c].start = 1
    /\ At(c, "start") => CLI
    /\ At(c, "request") => ~CLI
    /\ call[c].at \in {"tell", "leave", "over"} => child[c][1] \in {"none", "reaped"}
    /\ c \in managed => CLI /\ call[c].at \notin {"new", "over"}

\* Only the agent's Stop makes a process stop running before it is reaped.
RunInv(c) ==
    proc[c].start = 1 /\ proc[c].state # "running" =>
        StopperSleepsOn(c) \/ child[c][1] = "reaped"

\* A child is reaped for its own call, when that waits, or for the agent's Stop;
\* its output is read in between.
HelperInvOf(c) ==
    /\ \A t \in Threads : helper[t][c].at # "none" =>
           (t = c /\ Late(c)) \/ (t = Stopper /\ Stopping)
    /\ child[c][1] = "reaped" => Late(c) \/ Stopping
    /\ scan[c].at = "on" => At(c, "forward")

OutcomeInv(c) ==
    CLI /\ call[c].out \notin {"none", "error"} =>
        call[c].whole /\ ~proc[c].waitErr /\ At(c, "leave")

\* Claude apart, a stream has sent an event for each line taken, and this many more.
SendsAll(c, more) ==
    setup.provider # "claude" => events[c].sent = scan[c].taken + more

\* A stream takes all that was read.
StreamInv(c) ==
    CLI /\ ~Executing(c) =>
        /\ ~At(c, "collect")
        /\ call[c].at \in {"new", "start", "listen"} => events[c].sent = 0 /\ scan[c].taken = 0
        /\ At(c, "forward") => SendsAll(c, 0)
        /\ call[c].at \in {"waiting", "tell"} =>
              /\ SendsAll(c, 0) /\ scan[c].taken = scan[c].read
              /\ scan[c].at \in {"done", "cut"}
        /\ events[c].last = "done" =>
              /\ call[c].at \in {"leave", "over"} /\ scan[c].at \in {"done", "cut"}
              /\ SendsAll(c, 1) /\ scan[c].taken = scan[c].read
        /\ scan[c].at = "done" /\ ~cancelled[c] /\ stopper.at = "out" =>
              scan[c].read = Lines \/ child[c][1] = "bad" \/ proc[c].waitErr

\* What Stop has listed it still has to stop, or waits for, or has been reaped.
StopInv ==
    /\ thread[Stopper].at # "out" => stopper.at = "each"
    /\ stopper.at = "over" => stopper.todo = {}
    /\ Stopping => \A p \in stopper.listed :
          /\ proc[p].start = 1
          /\ p \in stopper.todo \/ StopperSleepsOn(p) \/ child[p][1] = "reaped"

CallInv(c) == PlaceInv(c) /\ RunInv(c) /\ HelperInvOf(c) /\ OutcomeInv(c) /\ StreamInv(c)

AgentsInv ==
    /\ ProcessInv
    /\ AgentTypes
    /\ \A c \in Procs : CallInv(c)
    /\ StopInv

\* It holds before any call is made.
LEMMA AgentsInitInv == Init => AgentsInv
<1> SUFFICES ASSUME Init PROVE AgentsInv
  OBVIOUS
<1> USE AgentsAssumption DEF Init
<1>1. ProcessInv
  BY ProcessInitInv
<1>2. AgentTypes
  BY DEF AgentTypes, CallRecords, EventRecords, Places, NewCall, Outcomes
<1>3. ASSUME NEW c \in Procs PROVE CallInv(c)
  <2>1. call[c] = NewCall /\ events[c].sent = 0 /\ events[c].last = "none"
    OBVIOUS
  <2>2. /\ proc[c].start = 0 /\ child[c][1] = "none" /\ scan[c].at = "off" /\ scan[c].taken = 0
        /\ managed = {} /\ \A t \in Threads : thread[t].at = "out" /\ helper[t][c].at = "none"
    BY ProcessAssumption DEF ProcessInit, NewProcess, Starts, Outside, NoHelper
  <2>3. c \in Threads
    OBVIOUS
  <2> QED BY <2>1, <2>2, <2>3 DEF CallInv, PlaceInv, RunInv, HelperInvOf, OutcomeInv, StreamInv,
                                 NewCall, At
<1>4. StopInv
  BY DEF StopInv, Stopping, ProcessInit, Outside
<1> QED BY <1>1, <1>2, <1>3, <1>4 DEF AgentsInv

\* The steps of one call, whoever the provider is.
CallStep(c) ==
    \/ Enter(c) \/ Reply(c) \/ StartProc(c) \/ StartProcFails(c) \/ CollectOutput(c)
    \/ Waited(c) \/ Listen(c) \/ Forward(c) \/ ForwardEnds(c) \/ Tell(c) \/ Leave(c)

\* What each of them does to the processes.
ProcessStep(c) ==
    \/ UNCHANGED processVars
    \/ Create(c) \/ Remove(c) \/ StartFails(c) \/ WaitBegins(c, c) \/ Woken(c)
    \/ At(c, "start") /\ Start(c)
    \/ /\ scan' = [scan EXCEPT ![c].at = "on"] \/ scan' = [scan EXCEPT ![c].taken = @ + 1]
       /\ UNCHANGED <<proc, child, closed, cancelled, thread, helper, managerVars, fatal>>

\* The copies of executeCLI and streamCLI take the same steps.
LEMMA CallStepsAreSteps ==
    ASSUME NEW c \in Procs, CallSteps(c)
    PROVE  CallStep(c)
  BY DEF CallSteps, CLISteps, ClaudeCLI, GeminiExecuteCLI, GeminiStreamCLI, OpenAIExecuteCLI,
         OpenAIStreamCLI, ExecuteCLI, StreamCLI, CallStep

\* Each step of a call does one of these things to the processes.
LEMMA CallStepOnProcesses ==
    ASSUME NEW c \in Procs, CallStep(c)
    PROVE  ProcessStep(c)
<1>1. CASE Enter(c)
  BY <1>1 DEF Enter, ProcessStep
<1>2. CASE Reply(c)
  BY <1>2 DEF Reply, ProcessStep
<1>3. CASE StartProc(c) \/ StartProcFails(c)
  BY <1>3 DEF StartProc, StartProcFails, ProcessStep
<1>4. CASE CollectOutput(c) \/ ForwardEnds(c)
  BY <1>4 DEF CollectOutput, ForwardEnds, ProcessStep
<1>5. CASE Waited(c)
  BY <1>5 DEF Waited, ProcessStep
<1>6. CASE Listen(c) \/ Forward(c)
  BY <1>6 DEF Listen, StreamOutput, Forward, ProcessStep
<1>7. CASE Tell(c) \/ Leave(c)
  BY <1>7 DEF Tell, Leave, ProcessStep
<1> QED BY <1>1, <1>2, <1>3, <1>4, <1>5, <1>6, <1>7 DEF CallStep

\* A step of a call keeps the invariant of the processes: it starts its own once.
LEMMA CallProcessInv ==
    ASSUME AgentsInv, NEW c \in Procs, CallStep(c)
    PROVE  ProcessInv'
<1> USE AgentsAssumption
<1>1. ProcessInv /\ PlaceInv(c) /\ ProcessStep(c) /\ c \in Threads
  BY CallStepOnProcesses DEF AgentsInv, CallInv
<1>2. CASE UNCHANGED processVars
  BY <1>1, <1>2, OutputInv DEF processVars, ioVars, managerVars, ProcessInv, ProcessTypes,
                               ScanTypes, ThreadTypes
<1>3. CASE Create(c) \/ Remove(c)
  BY <1>1, <1>3, ManagerInv
<1>4. CASE At(c, "start") /\ Start(c)
  BY <1>1, <1>4, StartInv DEF PlaceInv, At
<1>5. CASE StartFails(c) \/ WaitBegins(c, c) \/ Woken(c)
  BY <1>1, <1>5, StartFailsInv, StopBeginsInv, WokenInv
<1>6. CASE /\ scan' = [scan EXCEPT ![c].at = "on"] \/ scan' = [scan EXCEPT ![c].taken = @ + 1]
           /\ UNCHANGED <<proc, child, closed, cancelled, thread, helper, managerVars, fatal>>
  <2>1. scan[c] \in [at : ScanPlaces, read : Nat, taken : Nat]
    BY <1>1 DEF ProcessInv, ProcessTypes, ScanTypes
  <2>2. scan' \in [Procs -> [at : ScanPlaces, read : Nat, taken : Nat]]
    BY <1>1, <1>6, <2>1 DEF ProcessInv, ProcessTypes, ScanTypes, ScanPlaces
  <2>3. managed' \subseteq Procs
    BY <1>1, <1>6 DEF managerVars, ProcessInv, ProcessTypes, ThreadTypes
  <2> QED BY <1>1, <1>6, <2>2, <2>3, OutputInv
<1> QED BY <1>1, <1>2, <1>3, <1>4, <1>5, <1>6 DEF ProcessStep

\* It leaves the processes of the other calls, and the agent's Stop, alone.
LEMMA OtherCalls ==
    ASSUME ProcessTypes, NEW c \in Procs, NEW d \in Procs, c # d, ProcessStep(c), PlaceInv(c)
    PROVE  /\ proc'[d] = proc[d] /\ child'[d] = child[d] /\ scan'[d] = scan[d]
           /\ cancelled' = cancelled /\ (d \in managed' => d \in managed)
           /\ \A u \in Threads : u # c => thread'[u] = thread[u]
           /\ \A u \in Threads : helper'[u][d] = helper[u][d]
<1> USE AgentsAssumption DEF ProcessTypes, ProcTypes, ThreadTypes, ScanTypes, ioVars, managerVars
<1>1. CASE UNCHANGED processVars
  BY <1>1 DEF processVars
<1>2. CASE Create(c) \/ Remove(c)
  BY <1>2 DEF Create, Remove
<1>3. CASE Start(c) \/ StartFails(c)
  BY <1>3 DEF Start, StartFails
<1>4. CASE WaitBegins(c, c)
  BY <1>4 DEF WaitBegins, Calls
<1>5. CASE Woken(c)
  <2>1. thread[c].proc = c
    BY <1>5 DEF Woken, PlaceInv
  <2> QED BY <1>5, <2>1 DEF Woken
<1>6. CASE /\ scan' = [scan EXCEPT ![c].at = "on"] \/ scan' = [scan EXCEPT ![c].taken = @ + 1]
           /\ UNCHANGED <<proc, child, closed, cancelled, thread, helper, managerVars, fatal>>
  BY <1>6
<1> QED BY <1>1, <1>2, <1>3, <1>4, <1>5, <1>6 DEF ProcessStep

\* What a step may do elsewhere without touching call c: end or kill its child,
\* end its context, forget its process, and get on with the agent's Stop.
Untouched(c) ==
    /\ setup' = setup /\ call'[c] = call[c]
    /\ events'[c].sent = events[c].sent /\ events'[c].last = events[c].last
    /\ scan'[c] = scan[c] /\ (cancelled[c] => cancelled'[c])
    /\ thread'[c] = thread[c]
    /\ proc'[c].start = proc[c].start /\ proc'[c].waitErr = proc[c].waitErr
    /\ \/ child'[c][1] = child[c][1]
       \/ child[c][1] \in {"alive", "dying"} /\ child'[c][1] \in {"dying", "ok", "bad"}
    /\ \A t \in Threads : helper'[t][c].at # "none" =>
           helper[t][c].at # "none" \/ (t = Stopper /\ Stopping')
    /\ c \in managed' => c \in managed
    /\ (Stopping => Stopping') /\ (stopper'.at = "out" => stopper.at = "out")

\* Then what is known of the call stays true.
LEMMA CallKept ==
    ASSUME NEW c \in Procs, CallInv(c), Untouched(c), RunInv(c)'
    PROVE  CallInv(c)'
<1> USE DEF CallInv
<1>1. (Late(c)' <=> Late(c)) /\ (CLI' <=> CLI) /\ (Executing(c)' <=> Executing(c))
  BY DEF Untouched, Late, CLI, Executing
<1>2. \A loc : At(c, loc)' <=> At(c, loc)
  BY DEF Untouched, At
<1>3. PlaceInv(c)'
  BY <1>1, <1>2 DEF PlaceInv, Untouched
<1>4. HelperInvOf(c)'
  BY <1>1, <1>2 DEF HelperInvOf, Untouched
<1>5. OutcomeInv(c)'
  BY <1>1, <1>2 DEF OutcomeInv, Untouched
<1>6. StreamInv(c)'
  BY <1>1, <1>2 DEF StreamInv, SendsAll, Untouched
<1> QED BY <1>3, <1>4, <1>5, <1>6

\* Who is not stopped runs on.
LEMMA RunKept ==
    ASSUME NEW c \in Procs, RunInv(c), proc'[c].start = proc[c].start,
           proc'[c].state = proc[c].state, child[c][1] = "reaped" => child'[c][1] = "reaped",
           StopperSleepsOn(c) => StopperSleepsOn(c)'
    PROVE  RunInv(c)'
  BY DEF RunInv

\* Stop's list stays right while children end, are reaped and are started.
LEMMA StopKept ==
    ASSUME StopInv, stopper' = stopper,
           thread'[Stopper].at # "out" <=> thread[Stopper].at # "out",
           thread'[Stopper].proc = thread[Stopper].proc, AgentTypes,
           \A p \in Procs : proc[p].start = 1 => proc'[p].start = 1,
           \A p \in Procs : child[p][1] = "reaped" => child'[p][1] = "reaped"
    PROVE  StopInv'
<1>1. stopper.listed \subseteq Procs
  BY DEF AgentTypes, CallRecords, EventRecords, Places
<1>2. Stopping' <=> Stopping
  BY DEF Stopping
<1> QED BY <1>1, <1>2 DEF StopInv, StopperSleepsOn

-----------------------------------------------------------------------------
(* The steps of a call, for the call itself                                *)

\* What every provider makes of any answer is one of the outcomes.
LEMMA AnswersTyped ==
    ASSUME AgentTypes
    PROVE  APIAnswer(setup.shape) \in Outcomes /\ CLIAnswer(setup.shape) \in Outcomes
<1>1. setup.shape \in Shapes /\ setup.provider \in {"claude", "gemini", "openai", "ollama"}
  BY AgentsAssumption DEF AgentTypes
<1>2. CLIAnswer(setup.shape) \in Outcomes
  BY <1>1 DEF CLIAnswer, ParseSingleJSON, Shapes, Outcomes
<1>3. /\ ClaudeAPI(setup.shape) \in Outcomes /\ GeminiAPI(setup.shape) \in Outcomes
      /\ OpenAIAPI(setup.shape) \in Outcomes /\ OllamaExecute(setup.shape) \in Outcomes
  BY <1>1 DEF ClaudeAPI, GeminiAPI, OpenAIAPI, OllamaExecute, Shapes, Outcomes
<1>4. APIAnswer(setup.shape) \in Outcomes
  BY <1>1, <1>3 DEF APIAnswer
<1> QED BY <1>2, <1>4

\* A call goes from place to place, and sends at most one event.
LEMMA CallTypes ==
    ASSUME AgentTypes, NEW c \in Procs, CallStep(c)
    PROVE  /\ AgentTypes' /\ setup' = setup /\ stopper' = stopper
           /\ \A d \in Procs : d # c => call'[d] = call[d] /\ events'[d] = events[d]
<1>1. call[c] \in CallRecords /\ events[c] \in EventRecords
  BY DEF AgentTypes
<1>2. setup' = setup /\ stopper' = stopper
  BY DEF CallStep, Enter, Reply, StartProc, StartProcFails, CollectOutput, Waited, Listen,
         Forward, ForwardEnds, Tell, Leave
<1>3. ASSUME NEW loc \in Places, NEW out \in Outcomes
      PROVE  [call[c] EXCEPT !.at = loc, !.out = out] \in CallRecords
  BY <1>1 DEF CallRecords
<1>4. \E r \in CallRecords : call' = [call EXCEPT ![c] = r]
  <2>1. CASE Forward(c)
    BY <1>1, <2>1 DEF Forward, AgentTypes
  <2>2. CASE Leave(c)
    <3>1. [NewCall EXCEPT !.at = "over"] \in CallRecords
      BY DEF NewCall, CallRecords, Places, Outcomes
    <3> QED BY <2>2, <3>1 DEF Leave
  <2>3. CASE CollectOutput(c)
    <3>1. OutputWhole(c) \in BOOLEAN /\ "waiting" \in Places
      BY DEF OutputWhole, Places
    <3>2. call' = [call EXCEPT ![c] = [call[c] EXCEPT !.at = "waiting", !.whole = OutputWhole(c)]]
      BY <2>3 DEF CollectOutput, AgentTypes
    <3>3. [call[c] EXCEPT !.at = "waiting", !.whole = OutputWhole(c)] \in CallRecords
      BY <3>1, <1>1 DEF CallRecords
    <3> QED BY <3>2, <3>3
  <2>4. ASSUME NEW loc \in Places, Go(c, loc)
        PROVE  \E r \in CallRecords : call' = [call EXCEPT ![c] = r]
    <3>1. [call[c] EXCEPT !.at = loc] \in CallRecords
      BY <1>1 DEF CallRecords
    <3> QED BY <2>4, <3>1 DEF Go
  <2>5. ASSUME NEW loc \in Places, NEW out \in Outcomes, GoWith(c, loc, out)
        PROVE  \E r \in CallRecords : call' = [call EXCEPT ![c] = r]
    <3>1. call' = [call EXCEPT ![c] = [call[c] EXCEPT !.at = loc, !.out = out]]
      BY <2>5 DEF GoWith, AgentTypes
    <3> QED BY <1>3, <3>1
  <2>6. CASE Enter(c) \/ StartProc(c) \/ Listen(c) \/ ForwardEnds(c) \/ Tell(c)
    <3>1. \E loc \in Places : Go(c, loc)
      BY <2>6 DEF Enter, StartProc, Listen, ForwardEnds, Tell, Places
    <3> QED BY <3>1, <2>4
  <2>7. CASE Reply(c) \/ StartProcFails(c) \/ Waited(c)
    <3>1. /\ {"leave", "tell"} \subseteq Places
          /\ {"error", APIAnswer(setup.shape), CLIAnswer(setup.shape)} \subseteq Outcomes
      BY AnswersTyped DEF Places, Outcomes
    <3>2. CASE Reply(c) \/ StartProcFails(c)
      BY <2>5, <3>1, <3>2 DEF Reply, StartProcFails
    <3>3. CASE Waited(c)
      BY <2>4, <2>5, <3>1, <3>3 DEF Waited
    <3> QED BY <2>7, <3>2, <3>3
  <2> QED BY <2>1, <2>2, <2>3, <2>6, <2>7 DEF CallStep
<1>5. \E e \in EventRecords : events' = [events EXCEPT ![c] = e]
  <2>1. CASE events' = events
    BY <1>1, <2>1 DEF AgentTypes
  <2>2. CASE events' # events
    <3>1. \/ events' = [events EXCEPT ![c].sent = @ + 1]
          \/ events' = [events EXCEPT ![c].sent = @ + 1, ![c].last = "done"]
          \/ \E last \in {"error", "done"} : events' = [events EXCEPT ![c].last = last]
      <4>1. CASE Forward(c) \/ Tell(c)
        BY <2>2, <4>1 DEF Forward, Tell
      <4>2. CASE Leave(c)
        BY <2>2, <4>2 DEF Leave
      <4> QED BY <2>2, <4>1, <4>2 DEF CallStep, Enter, Reply, StartProc, StartProcFails,
                CollectOutput, Waited, Listen, ForwardEnds
    <3>2. ASSUME NEW last \in {"none", "error", "done"}, NEW sent \in Nat
          PROVE  /\ [events[c] EXCEPT !.sent = sent] \in EventRecords
                 /\ [events[c] EXCEPT !.last = last] \in EventRecords
                 /\ [events[c] EXCEPT !.sent = sent, !.last = last] \in EventRecords
      BY <1>1 DEF EventRecords
    <3>3. events[c].sent + 1 \in Nat
      BY <1>1 DEF EventRecords
    <3>4. CASE events' = [events EXCEPT ![c].sent = @ + 1]
      BY <3>2, <3>3, <3>4
    <3>5. CASE events' = [events EXCEPT ![c].sent = @ + 1, ![c].last = "done"]
      <4>1. events' = [events EXCEPT ![c] = [events[c] EXCEPT !.sent = events[c].sent + 1,
                                                            !.last = "done"]]
        BY <3>5 DEF AgentTypes
      <4> QED BY <3>2, <3>3, <4>1
    <3>6. CASE \E last \in {"error", "done"} : events' = [events EXCEPT ![c].last = last]
      BY <3>2, <3>6
    <3> QED BY <3>1, <3>4, <3>5, <3>6
  <2> QED BY <2>1, <2>2
<1>6. AgentTypes'
  <2>1. call' \in [Procs -> CallRecords]
    BY <1>4 DEF AgentTypes
  <2>2. events' \in [Procs -> EventRecords]
    BY <1>5 DEF AgentTypes
  <2> QED BY <1>2, <2>1, <2>2 DEF AgentTypes
<1>7. \A d \in Procs : d # c => call'[d] = call[d] /\ events'[d] = events[d]
  BY <1>4, <1>5 DEF AgentTypes
<1> QED BY <1>2, <1>6, <1>7

\* Before its child is started.
LEMMA EnterInv ==
    ASSUME AgentsInv, NEW c \in Procs, Enter(c)
    PROVE  CallInv(c)'
<1> USE DEF AgentsInv, CallInv, ProcessInv, ProcessTypes
<1>1. /\ At(c, "new") /\ setup' = setup /\ events' = events /\ stopper' = stopper
      /\ proc' = proc /\ child' = child /\ scan' = scan /\ cancelled' = cancelled
      /\ thread' = thread /\ helper' = helper
      /\ c \in managed' => CLI \/ c \in managed
  BY DEF Enter, Create, ioVars, managerVars, processVars, CLI
<1>2. call'[c] = [call[c] EXCEPT !.at = IF CLI THEN "start" ELSE "request"]
  BY DEF Enter, Go, CLI, AgentTypes, CallRecords, EventRecords, Places
<1>3. /\ call'[c].at = IF CLI THEN "start" ELSE "request"
      /\ call'[c].out = call[c].out /\ call'[c].whole = call[c].whole
  BY <1>2 DEF AgentTypes, CallRecords, EventRecords, Places
<1>4. PlaceInv(c)'
  BY <1>1, <1>3 DEF PlaceInv, At, CLI
<1>5. RunInv(c)'
  BY <1>1 DEF RunInv, StopperSleepsOn
<1>6. HelperInvOf(c)'
  BY <1>1, <1>3 DEF HelperInvOf, At, Late, Stopping
<1>7. OutcomeInv(c)'
  BY <1>1, <1>3 DEF OutcomeInv, At, CLI
<1>8. StreamInv(c)'
  BY <1>1, <1>3 DEF StreamInv, At, CLI, Executing
<1> QED BY <1>4, <1>5, <1>6, <1>7, <1>8

\* A request to the provider has no child.
LEMMA ReplyInv ==
    ASSUME AgentsInv, NEW c \in Procs, Reply(c)
    PROVE  CallInv(c)'
<1> USE DEF AgentsInv, CallInv
<1>1. /\ At(c, "request") /\ setup' = setup /\ stopper' = stopper
      /\ proc' = proc /\ child' = child /\ thread' = thread /\ helper' = helper
      /\ scan' = scan /\ managed' = managed
  BY DEF Reply, ioVars, managerVars, processVars
<1>2. call'[c].at = "leave"
  BY DEF Reply, GoWith, AgentTypes, CallRecords, EventRecords, Places
<1>3. ~CLI /\ proc[c].start = 0 /\ child[c][1] = "none"
  BY <1>1 DEF PlaceInv, At, ProcessInv, StartedOnce
<1>4. PlaceInv(c)'
  BY <1>1, <1>2, <1>3 DEF PlaceInv, At, CLI
<1>5. RunInv(c)'
  BY <1>1 DEF RunInv, StopperSleepsOn
<1>6. HelperInvOf(c)'
  BY <1>1, <1>2 DEF HelperInvOf, At, Late, Stopping
<1>7. OutcomeInv(c)' /\ StreamInv(c)'
  BY <1>1, <1>3 DEF OutcomeInv, StreamInv, CLI
<1> QED BY <1>4, <1>5, <1>6, <1>7

\* The child is started.
LEMMA StartProcInv ==
    ASSUME AgentsInv, NEW c \in Procs, StartProc(c)
    PROVE  CallInv(c)'
<1> USE ProcessAssumption DEF AgentsInv, CallInv
<1>1. /\ At(c, "start") /\ setup' = setup /\ stopper' = stopper /\ events' = events
      /\ thread' = thread /\ helper' = helper /\ scan' = scan /\ cancelled' = cancelled
      /\ managed' = managed
  BY DEF StartProc, Start, ioVars, managerVars
<1>2. proc[c].start = 0 /\ CLI
  BY <1>1 DEF PlaceInv, At
<1>3. /\ proc' = [proc EXCEPT ![c] = [proc[c] EXCEPT !.state = "running", !.start = 1,
                                                    !.done = FALSE, !.held = FALSE]]
      /\ child' = [child EXCEPT ![c][1] = "alive"]
  BY <1>2 DEF StartProc, Start
<1>4. /\ proc'[c].start = 1 /\ proc'[c].state = "running"
      /\ proc'[c].waitErr = proc[c].waitErr
  BY <1>3 DEF ProcessInv, ProcessTypes, ProcTypes, ProcessRecords
<1>5. child'[c][1] = "alive"
  BY <1>3 DEF ProcessInv, ProcessTypes, ProcTypes, Starts
<1>6. /\ call'[c].at = IF Executing(c) THEN "collect" ELSE "listen"
      /\ call'[c].out = call[c].out
  BY DEF StartProc, Go, AgentTypes, CallRecords, EventRecords, Places
<1>7. PlaceInv(c)'
  BY <1>1, <1>2, <1>4, <1>5, <1>6 DEF PlaceInv, At, CLI
<1>8. RunInv(c)'
  BY <1>4 DEF RunInv
<1>9. HelperInvOf(c)'
  BY <1>1, <1>5, <1>6 DEF HelperInvOf, At, Late, Stopping
<1>10. OutcomeInv(c)'
  BY <1>1, <1>2, <1>6 DEF OutcomeInv, At, CLI
<1>11. StreamInv(c)'
  <2>1. scan[c].at # "done" \/ cancelled[c] \/ stopper.at # "out"
        \/ scan[c].read = Lines \/ Executing(c)
    <3>1. child[c][1] = "none"
      BY <1>2 DEF ProcessInv, StartedOnce
    <3>2. ~proc[c].waitErr
      BY <3>1 DEF ProcessInv, StartedOnce
    <3> QED BY <1>2, <3>1, <3>2 DEF StreamInv
  <2> QED BY <1>1, <1>2, <1>6, <2>1 DEF StreamInv, At, CLI, Executing
<1> QED BY <1>7, <1>8, <1>9, <1>10, <1>11

\* No child could be started: the call is over but for its clean-up.
LEMMA StartProcFailsInv ==
    ASSUME AgentsInv, NEW c \in Procs, StartProcFails(c)
    PROVE  CallInv(c)'
<1> USE DEF AgentsInv, CallInv
<1>1. /\ At(c, "start") /\ setup' = setup /\ stopper' = stopper /\ events' = events
      /\ thread' = thread /\ helper' = helper /\ scan' = scan /\ cancelled' = cancelled
      /\ managed' = managed /\ child' = child
  BY DEF StartProcFails, StartFails, ioVars, managerVars
<1>2. proc[c].start = 0 /\ CLI /\ child[c][1] = "none"
  BY <1>1 DEF PlaceInv, At, ProcessInv, StartedOnce
<1>3. proc'[c].start = 0 /\ proc'[c].waitErr = proc[c].waitErr
  BY <1>2 DEF StartProcFails, StartFails, ProcessInv, ProcessTypes, ProcTypes, ProcessRecords
<1>4. call'[c].at = "leave" /\ call'[c].out = "error"
  BY DEF StartProcFails, GoWith, AgentTypes, CallRecords, EventRecords, Places
<1>5. PlaceInv(c)'
  BY <1>1, <1>2, <1>3, <1>4 DEF PlaceInv, At, CLI
<1>6. RunInv(c)'
  BY <1>3 DEF RunInv
<1>7. HelperInvOf(c)'
  BY <1>1, <1>4 DEF HelperInvOf, At, Late, Stopping
<1>8. OutcomeInv(c)'
  BY <1>4 DEF OutcomeInv
<1>9. StreamInv(c)'
  BY <1>1, <1>2, <1>3, <1>4 DEF StreamInv, At, CLI, Executing
<1> QED BY <1>5, <1>6, <1>7, <1>8, <1>9

\* The call asks for the end of its child, which may have come already.
LEMMA WaitsInv ==
    ASSUME AgentsInv, NEW c \in Procs, CollectOutput(c) \/ ForwardEnds(c)
    PROVE  CallInv(c)'
<1> USE AgentsAssumption DEF AgentsInv, CallInv
<1>1. /\ setup' = setup /\ stopper' = stopper /\ events' = events
      /\ scan' = scan /\ cancelled' = cancelled /\ managed' = managed /\ child' = child
      /\ proc' = proc /\ proc[c].start > 0
  BY DEF CollectOutput, ForwardEnds, WaitBegins, ioVars, managerVars
<1>2. /\ At(c, "collect") \/ At(c, "forward")
      /\ call'[c].at = "waiting" /\ call'[c].out = call[c].out
  BY DEF CollectOutput, ForwardEnds, Go, AgentTypes, CallRecords, EventRecords, Places
<1>3. proc[c].start = 1 /\ CLI
  BY <1>2 DEF PlaceInv, At
<1>4. /\ thread'[c].proc = c /\ thread'[Stopper] = thread[Stopper]
      /\ \A t \in Threads : t # c => helper'[t][c] = helper[t][c]
  BY DEF CollectOutput, ForwardEnds, WaitBegins, Calls, ProcessInv, ProcessTypes, ThreadTypes
<1>5. PlaceInv(c)'
  BY <1>1, <1>2, <1>3, <1>4 DEF PlaceInv, At, CLI
<1>6. RunInv(c)'
  BY <1>1, <1>4 DEF RunInv, StopperSleepsOn
<1>7. HelperInvOf(c)'
  <2>1. Late(c)' /\ (Stopping' <=> Stopping)
    BY <1>1, <1>2 DEF Late, Stopping
  <2>2. scan[c].at # "on"
    <3>1. CASE ForwardEnds(c)
      BY <3>1 DEF ForwardEnds
    <3>2. CASE CollectOutput(c)
      BY <3>2 DEF CollectOutput, HelperInvOf, At
    <3> QED BY <3>1, <3>2
  <2> QED BY <1>1, <1>4, <2>1, <2>2 DEF HelperInvOf
<1>8. OutcomeInv(c)'
  BY <1>1, <1>2, <1>3 DEF OutcomeInv, At, CLI
<1>9. StreamInv(c)'
  <2>1. CASE Executing(c)
    BY <1>1, <2>1 DEF StreamInv, Executing
  <2>2. CASE ~Executing(c)
    <3>1. ForwardEnds(c) /\ At(c, "forward")
      BY <1>3, <2>2 DEF StreamInv, CollectOutput, ForwardEnds
    <3>2. scan[c].at \in {"done", "cut"} /\ scan[c].taken = scan[c].read
      BY <3>1 DEF ForwardEnds
    <3> QED BY <1>1, <1>2, <1>3, <2>2, <3>1, <3>2 DEF StreamInv, SendsAll, At, CLI, Executing
  <2> QED BY <2>1, <2>2
<1> QED BY <1>5, <1>6, <1>7, <1>8, <1>9

\* The channel a call sleeps on is closed when its child was reaped.
LEMMA WokenReaped ==
    ASSUME ProcessInv, NEW t \in Threads, Woken(t)
    PROVE  /\ thread[t].proc \in Procs
           /\ proc[thread[t].proc].start = 1 /\ child[thread[t].proc][1] = "reaped"
<1>1. /\ thread[t].proc \in Procs /\ proc[thread[t].proc].start = 1
      /\ closed[thread[t].proc] # {}
  BY DEF ProcessInv, ThreadInv, Woken
<1> QED BY <1>1 DEF ProcessInv, StartedOnce

\* The child was reaped, so that its error is final.
LEMMA WaitedInv ==
    ASSUME AgentsInv, NEW c \in Procs, Waited(c)
    PROVE  CallInv(c)'
<1> USE AgentsAssumption DEF AgentsInv, CallInv
<1>1. /\ At(c, "waiting") /\ Woken(c) /\ thread[c].proc = c
  BY DEF Waited, Woken, PlaceInv
<1>2. child[c][1] = "reaped" /\ proc[c].start = 1 /\ CLI
  BY <1>1, WokenReaped DEF PlaceInv, At
<1>3. /\ setup' = setup /\ stopper' = stopper /\ events' = events /\ child' = child
      /\ scan' = scan /\ cancelled' = cancelled /\ helper' = helper
      /\ (c \in managed' => c \in managed)
  BY DEF Waited, Woken, ioVars, managerVars
<1>4. proc'[c].start = 1 /\ proc'[c].waitErr = proc[c].waitErr
  BY <1>1, <1>2 DEF Woken, ProcessInv, ProcessTypes, ProcTypes, ProcessRecords
<1>5. thread'[c].at = "out" /\ thread'[Stopper] = thread[Stopper]
  BY <1>1 DEF Woken, ProcessInv, ProcessTypes, ThreadTypes, Outside
<1>6. CASE ~Executing(c)
  <2>1. call'[c].at = "tell" /\ call'[c].out = call[c].out
    BY <1>6 DEF Waited, Go, AgentTypes, CallRecords, EventRecords, Places
  <2>2. call[c].out \in {"none", "error"}
    BY <1>1, <1>2 DEF OutcomeInv, At
  <2>3. PlaceInv(c)'
    BY <1>1, <1>2, <1>3, <1>4, <1>5, <2>1 DEF PlaceInv, At, CLI
  <2>4. RunInv(c)' /\ HelperInvOf(c)'
    BY <1>1, <1>2, <1>3, <2>1 DEF RunInv, HelperInvOf, At, Late, Stopping
  <2>5. OutcomeInv(c)'
    BY <2>1, <2>2 DEF OutcomeInv
  <2>6. StreamInv(c)'
    BY <1>1, <1>2, <1>3, <1>4, <1>6, <2>1 DEF StreamInv, SendsAll, At, CLI, Executing
  <2> QED BY <2>3, <2>4, <2>5, <2>6
<1>7. CASE Executing(c)
  <2>1. /\ call'[c].at = "leave"
        /\ call'[c].out # "error" => call[c].whole /\ ~proc[c].waitErr /\ call'[c].whole
    <3>1. CASE proc[c].waitErr \/ ~call[c].whole
      BY <1>7, <3>1 DEF Waited, GoWith, AgentTypes, CallRecords, EventRecords, Places
    <3>2. CASE ~(proc[c].waitErr \/ ~call[c].whole)
      <4>1. call' = [call EXCEPT ![c].at = "leave", ![c].out = CLIAnswer(setup.shape)]
        BY <1>7, <3>2 DEF Waited, GoWith
      <4>2. call'[c].at = "leave" /\ call'[c].whole = call[c].whole
        BY <4>1 DEF AgentTypes, CallRecords, EventRecords, Places
      <4> QED BY <3>2, <4>2
    <3> QED BY <3>1, <3>2
  <2>2. PlaceInv(c)'
    BY <1>1, <1>2, <1>3, <1>4, <1>5, <2>1 DEF PlaceInv, At, CLI
  <2>3. RunInv(c)' /\ HelperInvOf(c)'
    BY <1>1, <1>2, <1>3, <2>1 DEF RunInv, HelperInvOf, At, Late, Stopping
  <2>4. OutcomeInv(c)'
    BY <1>4, <2>1 DEF OutcomeInv, At
  <2>5. StreamInv(c)'
    BY <1>3, <1>7 DEF StreamInv, Executing
  <2> QED BY <2>2, <2>3, <2>4, <2>5
<1> QED BY <1>6, <1>7

\* A stream begins to read, or sends a line.
LEMMA ForwardInv ==
    ASSUME AgentsInv, NEW c \in Procs, Listen(c) \/ Forward(c)
    PROVE  CallInv(c)'
<1> USE DEF AgentsInv, CallInv
<1>1. /\ setup' = setup /\ stopper' = stopper /\ thread' = thread /\ helper' = helper
      /\ proc' = proc /\ child' = child /\ cancelled' = cancelled /\ managed' = managed
  BY DEF Listen, Forward, managerVars
<1>2. scan[c] \in [at : ScanPlaces, read : Nat, taken : Nat]
  BY DEF ProcessInv, ProcessTypes, ScanTypes
<1>3. /\ At(c, "listen") \/ At(c, "forward")
      /\ call'[c].at = "forward" /\ call'[c].out = call[c].out
  BY DEF Listen, Forward, Go, At, AgentTypes, CallRecords, EventRecords, Places
<1>4. PlaceInv(c)'
  BY <1>1, <1>3 DEF PlaceInv, At, CLI
<1>5. RunInv(c)'
  BY <1>1 DEF RunInv, StopperSleepsOn
<1>6. HelperInvOf(c)'
  BY <1>1, <1>3 DEF HelperInvOf, At, Late, Stopping
<1>7. OutcomeInv(c)'
  BY <1>1, <1>3 DEF OutcomeInv, At, CLI
<1>8. ASSUME CLI, ~Executing(c) PROVE StreamInv(c)'
  <2>1. CASE Listen(c)
    <3>1. scan'[c].at = "on" /\ scan'[c].taken = scan[c].taken /\ events' = events
      BY <1>2, <2>1 DEF Listen, StreamOutput, ProcessInv, ProcessTypes, ScanTypes
    <3>2. At(c, "listen")
      BY <2>1 DEF Listen
    <3> QED BY <1>1, <1>3, <1>8, <3>1, <3>2 DEF StreamInv, SendsAll, At, CLI, Executing
  <2>2. CASE Forward(c)
    <3>1. /\ scan'[c].at = scan[c].at /\ scan'[c].taken = scan[c].taken + 1
          /\ scan'[c].read = scan[c].read
      BY <1>2, <2>2 DEF Forward, ProcessInv, ProcessTypes, ScanTypes
    <3>2. /\ events'[c].last = events[c].last
          /\ setup.provider # "claude" => events'[c].sent = events[c].sent + 1
      BY <2>2 DEF Forward, AgentTypes, CallRecords, EventRecords, Places
    <3>3. At(c, "forward") /\ events[c].sent \in Nat
      BY <2>2 DEF Forward, AgentTypes, EventRecords
    <3> QED BY <1>1, <1>2, <1>3, <1>8, <3>1, <3>2, <3>3 DEF StreamInv, SendsAll, At, CLI, Executing
  <2> QED BY <2>1, <2>2
<1>9. (CLI' <=> CLI) /\ (Executing(c)' <=> Executing(c))
  BY <1>1 DEF CLI, Executing
<1> QED BY <1>4, <1>5, <1>6, <1>7, <1>8, <1>9 DEF StreamInv

\* A stream says done when its child was reaped.
LEMMA TellInv ==
    ASSUME AgentsInv, NEW c \in Procs, Tell(c)
    PROVE  CallInv(c)'
<1> USE DEF AgentsInv, CallInv
<1>1. /\ setup' = setup /\ stopper' = stopper /\ thread' = thread /\ helper' = helper
      /\ proc' = proc /\ child' = child /\ scan' = scan /\ cancelled' = cancelled
      /\ managed' = managed
  BY DEF Tell, processVars, ioVars, managerVars
<1>2. /\ At(c, "tell") /\ call'[c].at = "leave" /\ call'[c].out = call[c].out
      /\ call'[c].whole = call[c].whole
  BY DEF Tell, Go, AgentTypes, CallRecords, EventRecords, Places
<1>3. events'[c].sent = events[c].sent + 1 /\ scan[c].taken \in Nat
  BY DEF Tell, AgentTypes, CallRecords, EventRecords, Places, ProcessInv, ProcessTypes, ScanTypes
<1>4. PlaceInv(c)'
  BY <1>1, <1>2 DEF PlaceInv, At, CLI
<1>5. RunInv(c)'
  BY <1>1 DEF RunInv, StopperSleepsOn
<1>6. HelperInvOf(c)'
  BY <1>1, <1>2 DEF HelperInvOf, At, Late, Stopping
<1>7. OutcomeInv(c)'
  BY <1>1, <1>2 DEF OutcomeInv, At, CLI
<1>8. StreamInv(c)'
  BY <1>1, <1>2, <1>3 DEF StreamInv, SendsAll, At, CLI, Executing
<1> QED BY <1>4, <1>5, <1>6, <1>7, <1>8

\* The deferred calls forget the process of the call, whose child has ended.
LEMMA LeaveInv ==
    ASSUME AgentsInv, NEW c \in Procs, Leave(c)
    PROVE  CallInv(c)'
<1> USE DEF AgentsInv, CallInv
<1>1. /\ setup' = setup /\ stopper' = stopper /\ thread' = thread /\ helper' = helper
      /\ proc' = proc /\ child' = child /\ scan' = scan /\ cancelled' = cancelled
      /\ CLI => events' = events
  BY DEF Leave, Remove, processVars, ioVars, managerVars, CLI
<1>2. c \notin managed'
  <2>1. CASE CLI
    BY <2>1 DEF Leave, Remove, CLI
  <2>2. CASE ~CLI
    BY <2>2 DEF Leave, processVars, managerVars, PlaceInv, CLI
  <2> QED BY <2>1, <2>2
<1>3. At(c, "leave") /\ call'[c].at = "over" /\ call'[c].out = "none"
  BY DEF Leave, AgentTypes, CallRecords, EventRecords, Places, NewCall
<1>4. PlaceInv(c)'
  BY <1>1, <1>2, <1>3 DEF PlaceInv, At, CLI
<1>5. RunInv(c)'
  BY <1>1 DEF RunInv, StopperSleepsOn
<1>6. HelperInvOf(c)'
  BY <1>1, <1>3 DEF HelperInvOf, At, Late, Stopping
<1>7. OutcomeInv(c)'
  BY <1>3 DEF OutcomeInv
<1>8. StreamInv(c)'
  BY <1>1, <1>3 DEF StreamInv, SendsAll, At, CLI, Executing
<1> QED BY <1>4, <1>5, <1>6, <1>7, <1>8

\* A step of one call keeps the invariant of all of them.
LEMMA CallStepInv ==
    ASSUME AgentsInv, NEW c \in Procs, CallStep(c)
    PROVE  AgentsInv'
<1> USE AgentsAssumption DEF AgentsInv
<1>1. ProcessInv' /\ ProcessStep(c) /\ ProcessTypes /\ PlaceInv(c)
  BY CallProcessInv, CallStepOnProcesses DEF ProcessInv, CallInv
<1>2. /\ AgentTypes' /\ setup' = setup /\ stopper' = stopper
      /\ \A d \in Procs : d # c => call'[d] = call[d] /\ events'[d] = events[d]
  BY CallTypes
<1>3. thread'[Stopper] = thread[Stopper]
  <2>1. Stopper \in Threads /\ Stopper # c
    OBVIOUS
  <2>2. CASE WaitBegins(c, c)
    BY <1>1, <2>1, <2>2 DEF WaitBegins, Calls, ProcessTypes, ThreadTypes
  <2>3. CASE Woken(c)
    BY <1>1, <2>1, <2>3 DEF Woken, ProcessTypes, ThreadTypes
  <2>4. CASE thread' = thread
    BY <2>4
  <2> QED BY <1>1, <2>2, <2>3, <2>4 DEF ProcessStep, processVars, Create, Remove, StartFails, Start
<1>4. ASSUME NEW d \in Procs, d # c PROVE CallInv(d)'
  <2>1. /\ proc'[d] = proc[d] /\ child'[d] = child[d] /\ scan'[d] = scan[d]
        /\ cancelled' = cancelled /\ (d \in managed' => d \in managed)
        /\ \A u \in Threads : u # c => thread'[u] = thread[u]
        /\ \A u \in Threads : helper'[u][d] = helper[u][d]
    BY <1>1, <1>4, OtherCalls
  <2>2. Untouched(d)
    BY <1>2, <1>4, <2>1 DEF Untouched, Stopping
  <2>3. RunInv(d)'
    BY <1>3, <2>1 DEF RunInv, StopperSleepsOn, CallInv
  <2> QED BY <2>2, <2>3, CallKept
<1>5. CallInv(c)'
  BY EnterInv, ReplyInv, StartProcInv, StartProcFailsInv, WaitsInv, WaitedInv, ForwardInv,
     TellInv, LeaveInv DEF CallStep
<1>6. StopInv'
  <2>1. ASSUME NEW p \in Procs
        PROVE  /\ proc[p].start = 1 => proc'[p].start = 1
               /\ child[p][1] = "reaped" => child'[p][1] = "reaped"
    <3>1. CASE p # c
      BY <1>1, <3>1, OtherCalls
    <3>2. CASE p = c
      <4>1. CASE At(c, "start") /\ Start(c)
        <5>1. proc[c].start = 0 /\ child[c][1] = "none"
          BY <1>1, <4>1 DEF PlaceInv, At, ProcessInv, StartedOnce
        <5> QED BY <3>2, <5>1
      <4>2. CASE UNCHANGED <<proc, child>>
        BY <3>2, <4>2
      <4>3. CASE StartFails(c) \/ Woken(c)
        <5>1. child' = child /\ proc[c] \in ProcessRecords
          BY <1>1, <4>3 DEF StartFails, Woken, ProcessTypes, ProcTypes
        <5>2. \/ proc' = [proc EXCEPT ![c].state = "error"]
              \/ proc' = [proc EXCEPT ![thread[c].proc].state = "stopped"]
          BY <4>3 DEF StartFails, Woken
        <5>3. proc'[c].start = proc[c].start
          BY <1>1, <5>1, <5>2 DEF ProcessTypes, ProcTypes, ProcessRecords
        <5> QED BY <3>2, <5>1, <5>3
      <4> QED BY <1>1, <4>1, <4>2, <4>3 DEF ProcessStep, processVars, Create, Remove, WaitBegins
    <3> QED BY <3>1, <3>2
  <2> QED BY <1>2, <1>3, <2>1, StopKept
<1> QED BY <1>1, <1>2, <1>4, <1>5, <1>6

-----------------------------------------------------------------------------
(* The consumer of a stream, and the agent's Stop                          *)

\* What changes nothing of the processes keeps their invariant.
LEMMA ProcessesAlone ==
    ASSUME ProcessInv, UNCHANGED processVars
    PROVE  ProcessInv'
  BY OutputInv DEF processVars, ioVars, managerVars, ProcessInv, ProcessTypes, ScanTypes, ThreadTypes

\* What the consumer does is not seen by the calls.
LEMMA ConsumerInv ==
    ASSUME AgentsInv, NEW c \in Procs, Receive(c) \/ Abandon(c)
    PROVE  AgentsInv'
<1> USE DEF AgentsInv
<1>1. UNCHANGED <<processVars, setup, call, stopper>>
  BY DEF Receive, Abandon
<1>2. events[c] \in EventRecords
  BY DEF AgentTypes
<1>3. \E e \in {[events[c] EXCEPT !.got = events[c].got + 1], [events[c] EXCEPT !.gone = TRUE]} :
         events' = [events EXCEPT ![c] = e]
  BY DEF Receive, Abandon
<1>4. AgentTypes'
  <2>1. events[c].got + 1 \in Nat
    BY <1>2 DEF EventRecords
  <2>2. [events[c] EXCEPT !.got = events[c].got + 1] \in EventRecords
    BY <1>2, <2>1 DEF EventRecords
  <2>3. [events[c] EXCEPT !.gone = TRUE] \in EventRecords
    BY <1>2 DEF EventRecords
  <2>4. events' \in [Procs -> EventRecords]
    BY <1>3, <2>2, <2>3 DEF AgentTypes
  <2> QED BY <1>1, <2>4 DEF AgentTypes
<1>5. ASSUME NEW d \in Procs PROVE CallInv(d)'
  <2>1. events'[d].sent = events[d].sent /\ events'[d].last = events[d].last
    BY <1>2, <1>3 DEF AgentTypes, EventRecords
  <2>2. Untouched(d)
    BY <1>1, <2>1 DEF Untouched, processVars, ioVars, managerVars, Stopping
  <2>3. RunInv(d)'
    BY <1>1 DEF RunInv, CallInv, processVars, StopperSleepsOn
  <2> QED BY <2>2, <2>3, CallKept
<1>6. StopInv'
  BY <1>1, StopKept DEF processVars
<1>7. ProcessInv'
  BY <1>1, ProcessesAlone
<1> QED BY <1>4, <1>5, <1>6, <1>7

\* Stop begins, lists the processes, and returns when none is left.
LEMMA StopListsInv ==
    ASSUME AgentsInv, StopAgent \/ ListProcs \/ StopReturns
    PROVE  AgentsInv'
<1> USE DEF AgentsInv
<1>1. UNCHANGED <<processVars, setup, call, events>>
  BY DEF StopAgent, ListProcs, StopReturns
<1>2. ProcessInv'
  BY <1>1, ProcessesAlone
<1>3. AgentTypes'
  BY <1>1 DEF StopAgent, ListProcs, StopReturns, AgentTypes, ProcessInv, ProcessTypes, ThreadTypes
<1>4. (Stopping => Stopping') /\ (stopper'.at = "out" => stopper.at = "out")
  BY DEF StopAgent, ListProcs, StopReturns, AgentTypes, Stopping
<1>5. ASSUME NEW d \in Procs PROVE CallInv(d)'
  <2>1. Untouched(d)
    BY <1>1, <1>4 DEF Untouched, processVars, ioVars, managerVars
  <2>2. RunInv(d)'
    BY <1>1 DEF RunInv, CallInv, processVars, StopperSleepsOn
  <2> QED BY <2>1, <2>2, CallKept
<1>6. StopInv'
  <2>1. CASE StopAgent
    BY <1>1, <2>1 DEF StopAgent, StopInv, Stopping, AgentTypes, processVars
  <2>2. CASE ListProcs
    <3>1. \A p \in managed : proc[p].state = "running" => proc[p].start = 1
      BY RunningStarted DEF ProcessInv, ProcessTypes, ThreadTypes
    <3>2. \A p \in stopper'.listed : proc[p].start = 1 /\ p \in stopper'.todo
      BY <2>2, <3>1 DEF ListProcs
    <3>3. thread[Stopper].at = "out" /\ stopper'.at = "each"
      BY <2>2 DEF ListProcs, StopInv
    <3> QED BY <1>1, <3>2, <3>3 DEF StopInv, processVars
  <2>3. CASE StopReturns
    <3>1. /\ stopper'.at = "over" /\ stopper'.todo = {} /\ stopper.todo = {}
          /\ stopper'.listed = stopper.listed /\ Stopping /\ thread[Stopper].at = "out"
      BY <2>3 DEF StopReturns, AgentTypes, Stopping
    <3> QED BY <1>1, <3>1 DEF StopInv, StopperSleepsOn, processVars
  <2> QED BY <2>1, <2>2, <2>3
<1> QED BY <1>2, <1>3, <1>5, <1>6

\* Stop turns to a process: it waits for one that runs; one that was started and
\* runs no more was reaped, for nobody else stops it before that.
LEMMA StopOneInv ==
    ASSUME AgentsInv, NEW p \in Procs, StopOne(p)
    PROVE  AgentsInv'
<1> USE AgentsAssumption DEF AgentsInv
<1>1. /\ UNCHANGED <<setup, call, events>> /\ stopper.at = "each"
      /\ thread[Stopper].at = "out" /\ p \in stopper.todo
      /\ stopper' = [stopper EXCEPT !.todo = stopper.todo \ {p}]
  BY DEF StopOne
<1>2. /\ stopper'.at = "each" /\ stopper'.todo = stopper.todo \ {p}
      /\ stopper'.listed = stopper.listed /\ Stopping /\ Stopping'
  BY <1>1 DEF AgentTypes, Stopping
<1>3. AgentTypes'
  BY <1>1 DEF AgentTypes
<1>4. CASE proc[p].state = "running"
  <2>1. StopBegins(Stopper, p) /\ proc[p].start = 1
    BY <1>4, RunningStarted DEF StopOne
  <2>2. /\ proc' = [proc EXCEPT ![p].state = "stopping"] /\ child' = child
        /\ scan' = scan /\ cancelled' = cancelled /\ managed' = managed
    BY <2>1 DEF StopBegins, ioVars, managerVars
  <2>3. /\ thread'[Stopper].at = "sleep" /\ thread'[Stopper].proc = p
        /\ \A u \in Threads : u # Stopper => thread'[u] = thread[u]
    BY <2>1 DEF StopBegins, Calls, ProcessInv, ProcessTypes, ThreadTypes
  <2>4. \A u \in Threads, q \in Procs : u # Stopper => helper'[u][q] = helper[u][q]
    BY <2>1 DEF StopBegins, Calls, ProcessInv, ProcessTypes, ThreadTypes
  <2>5. \A q \in Procs : /\ proc'[q].start = proc[q].start /\ proc'[q].waitErr = proc[q].waitErr
                         /\ q # p => proc'[q].state = proc[q].state
    BY <2>2 DEF ProcessInv, ProcessTypes, ProcTypes, ProcessRecords
  <2>6. ProcessInv'
    BY <2>1, StopBeginsInv
  <2>7. ASSUME NEW d \in Procs PROVE CallInv(d)'
    <3>1. d \in Threads /\ d # Stopper
      OBVIOUS
    <3>2. Untouched(d)
      BY <1>1, <1>2, <2>2, <2>3, <2>4, <2>5, <3>1 DEF Untouched
    <3>3. RunInv(d)'
      BY <1>1, <2>2, <2>3, <2>5 DEF RunInv, CallInv, StopperSleepsOn
    <3> QED BY <3>2, <3>3, CallKept
  <2>8. StopInv'
    <3>1. \A q \in stopper.listed :
             proc[q].start = 1 /\ (q \in stopper.todo \/ child[q][1] = "reaped")
      BY <1>1, <1>2 DEF StopInv, StopperSleepsOn
    <3>2. stopper.listed \subseteq Procs
      BY DEF AgentTypes
    <3> QED BY <1>2, <2>2, <2>3, <2>5, <3>1, <3>2 DEF StopInv, StopperSleepsOn
  <2> QED BY <1>3, <2>6, <2>7, <2>8
<1>5. CASE proc[p].state # "running"
  <2>1. UNCHANGED processVars
    BY <1>5 DEF StopOne
  <2>2. ProcessInv'
    BY <2>1, ProcessesAlone
  <2>3. ASSUME NEW d \in Procs PROVE CallInv(d)'
    <3>1. Untouched(d)
      BY <1>1, <1>2, <2>1 DEF Untouched, processVars, ioVars, managerVars
    <3>2. RunInv(d)'
      BY <2>1 DEF RunInv, CallInv, processVars, StopperSleepsOn
    <3> QED BY <3>1, <3>2, CallKept
  <2>4. StopInv'
    <3>1. \A q \in stopper.listed :
             proc[q].start = 1 /\ (q \in stopper.todo \/ child[q][1] = "reaped")
      BY <1>1, <1>2 DEF StopInv, StopperSleepsOn
    <3>2. p \in stopper.listed => child[p][1] = "reaped"
      BY <1>1, <1>5, <3>1 DEF CallInv, RunInv, StopperSleepsOn
    <3> QED BY <1>1, <1>2, <2>1, <3>1, <3>2 DEF StopInv, processVars
  <2> QED BY <1>3, <2>2, <2>3, <2>4
<1> QED BY <1>4, <1>5

\* Stop gives up its patience, or the process it waits for is reaped.
LEMMA StopWaitsInv ==
    ASSUME AgentsInv, StopTimesOut(Stopper) \/ Woken(Stopper), UNCHANGED agentVars
    PROVE  AgentsInv'
<1> USE AgentsAssumption DEF AgentsInv
<1>1. UNCHANGED <<setup, call, events, stopper>> /\ AgentTypes'
  BY DEF agentVars, AgentTypes
<1> PICK p \in Procs : p = thread[Stopper].proc
  BY DEF StopTimesOut, Woken, ProcessInv, ThreadInv
<1>2. /\ thread[Stopper].at # "out" /\ StopperSleepsOn(p)
      /\ scan' = scan /\ cancelled' = cancelled /\ helper' = helper
  BY DEF StopTimesOut, Woken, ioVars, StopperSleepsOn
<1>3. /\ \A u \in Threads : u # Stopper => thread'[u] = thread[u]
      /\ \A d \in Procs : d \in managed' => d \in managed
  BY DEF StopTimesOut, Woken, managerVars, ProcessInv, ProcessTypes, ThreadTypes
<1>4. ProcessInv'
  BY StopTimesOutInv, WokenInv
<1>5. CASE StopTimesOut(Stopper)
  <2>1. /\ proc' = proc /\ proc[p].start = 1
        /\ child' = [child EXCEPT ![p][1] = IF child[p][1] = "alive" THEN "dying" ELSE child[p][1]]
    BY <1>2, <1>5 DEF StopTimesOut, ProcessInv, ThreadInv
  <2>2. \A q \in Procs : \/ child'[q][1] = child[q][1]
                         \/ child[q][1] = "alive" /\ child'[q][1] = "dying"
    BY <2>1 DEF ProcessInv, ProcessTypes, ProcTypes, Starts
  <2>3. thread'[Stopper].at = "late" /\ thread'[Stopper].proc = p
    BY <1>5 DEF StopTimesOut, ProcessInv, ProcessTypes, ThreadTypes, ThreadRecords
  <2>4. ASSUME NEW d \in Procs PROVE CallInv(d)'
    <3>1. Untouched(d)
      BY <1>1, <1>2, <1>3, <2>1, <2>2 DEF Untouched, Stopping
    <3>2. RunInv(d)'
      BY <1>2, <2>1, <2>2, <2>3 DEF RunInv, CallInv, StopperSleepsOn
    <3> QED BY <3>1, <3>2, CallKept
  <2>5. StopInv'
    <3>1. \A q \in Procs : child[q][1] = "reaped" => child'[q][1] = "reaped"
      BY <2>2
    <3> QED BY <1>1, <1>2, <2>1, <2>3, <3>1, StopKept
  <2> QED BY <1>1, <1>4, <2>4, <2>5
<1>6. CASE Woken(Stopper)
  <2>1. child[p][1] = "reaped" /\ child' = child
    BY <1>6, WokenReaped DEF Woken
  <2>2. \A q \in Procs : /\ proc'[q].start = proc[q].start /\ proc'[q].waitErr = proc[q].waitErr
                         /\ q # p => proc'[q].state = proc[q].state
    BY <1>6 DEF Woken, ProcessInv, ProcessTypes, ProcTypes, ProcessRecords
  <2>3. thread'[Stopper].at = "out"
    BY <1>6 DEF Woken, Outside, ProcessInv, ProcessTypes, ThreadTypes
  <2>4. ASSUME NEW d \in Procs PROVE CallInv(d)'
    <3>1. Untouched(d)
      BY <1>1, <1>2, <1>3, <2>1, <2>2 DEF Untouched, Stopping
    <3>2. RunInv(d)'
      BY <2>1, <2>2 DEF RunInv, CallInv, StopperSleepsOn
    <3> QED BY <3>1, <3>2, CallKept
  <2>5. StopInv'
    <3>1. stopper.listed \subseteq Procs /\ (Stopping' <=> Stopping)
      BY <1>1 DEF AgentTypes, Stopping
    <3> QED BY <1>1, <2>1, <2>2, <2>3, <3>1 DEF StopInv, StopperSleepsOn
  <2> QED BY <1>1, <1>4, <2>4, <2>5
<1> QED BY <1>5, <1>6

-----------------------------------------------------------------------------
(* The children, their output and the goroutines in doWait                 *)

\* What changes nothing of the agent keeps its types.
LEMMA AgentAlone ==
    ASSUME AgentTypes, UNCHANGED agentVars
    PROVE  /\ AgentTypes' /\ UNCHANGED <<setup, call, events, stopper>>
           /\ (Stopping' <=> Stopping)
  BY DEF agentVars, AgentTypes, Stopping

\* A child ends, or is killed with its context.
LEMMA ChildrenInv ==
    ASSUME AgentsInv, UNCHANGED agentVars, NEW p \in Procs,
           (\E how \in {"ok", "bad"} : ChildExits(p, 1, how)) \/ Cancel(p)
    PROVE  AgentsInv'
<1> USE DEF AgentsInv
<1>1. /\ AgentTypes' /\ UNCHANGED <<setup, call, events, stopper>>
      /\ (Stopping' <=> Stopping)
  BY AgentAlone
<1>2. UNCHANGED <<proc, scan, thread, helper, managed>>
  BY DEF ChildExits, Cancel, ioVars, managerVars
<1>3. \A q \in Procs : \/ child'[q][1] = child[q][1]
                       \/ child[q][1] \in {"alive", "dying"} /\ child'[q][1] \in {"dying", "ok", "bad"}
  <2>1. CASE \E how \in {"ok", "bad"} : ChildExits(p, 1, how)
    BY <2>1, ProcessAssumption DEF ChildExits, ProcessInv, ProcessTypes, ProcTypes, Starts
  <2>2. CASE Cancel(p)
    <3>1. child' = [child EXCEPT ![p] = [g \in Starts |-> IF child[p][g] = "alive" THEN "dying"
                                                                             ELSE child[p][g]]]
      BY <2>2 DEF Cancel
    <3>2. 1 \in Starts
      BY ProcessAssumption DEF Starts
    <3> QED BY <3>1, <3>2 DEF ProcessInv, ProcessTypes, ProcTypes
  <2> QED BY <2>1, <2>2
<1>4. \A d \in Procs : cancelled[d] => cancelled'[d]
  BY DEF ChildExits, Cancel, ioVars, ProcessInv, ProcessTypes, ScanTypes
<1>5. ProcessInv'
  <2>1. 1 \in Starts
    BY ProcessAssumption DEF Starts
  <2> QED BY <2>1, ChildExitsInv, CancelInv
<1>6. ASSUME NEW d \in Procs PROVE CallInv(d)'
  <2>1. Untouched(d)
    BY <1>1, <1>2, <1>3, <1>4 DEF Untouched
  <2>2. RunInv(d)'
    BY <1>2, <1>3 DEF RunInv, CallInv, StopperSleepsOn
  <2> QED BY <2>1, <2>2, CallKept
<1>7. StopInv'
  BY <1>1, <1>2, <1>3, StopKept
<1> QED BY <1>1, <1>5, <1>6, <1>7

\* A line is read, or the output ends.  The child of a stream that is still read
\* was reaped only if the agent was stopped.
LEMMA OutputsInv ==
    ASSUME AgentsInv, UNCHANGED agentVars, NEW p \in Procs, ScanLine(p) \/ ScanEnds(p)
    PROVE  AgentsInv'
<1> USE DEF AgentsInv
<1>1. /\ AgentTypes' /\ UNCHANGED <<setup, call, events, stopper>>
      /\ (Stopping' <=> Stopping)
  BY AgentAlone
<1>2. UNCHANGED <<proc, child, cancelled, thread, helper, managed>>
  BY DEF ScanLine, ScanEnds, managerVars
<1>3. scan[p] \in [at : ScanPlaces, read : Nat, taken : Nat]
  BY DEF ProcessInv, ProcessTypes, ScanTypes
<1>4. /\ \A q \in Procs : q # p => scan'[q] = scan[q]
      /\ scan'[p].taken = scan[p].taken /\ scan[p].at = "on"
  BY <1>3 DEF ScanLine, ScanEnds, ProcessInv, ProcessTypes, ScanTypes
<1>5. \/ scan'[p].at = "on"
      \/ scan'[p].at = "cut" /\ scan'[p].read = scan[p].read
      \/ /\ scan'[p].at = "done" /\ scan'[p].read = scan[p].read
         /\ \/ scan[p].read = Lines
            \/ child[p][1] \in {"bad", "reaped"}
            \/ cancelled[p]
  <2>1. CASE ScanLine(p)
    BY <1>3, <2>1 DEF ScanLine, ProcessInv, ProcessTypes, ScanTypes
  <2>2. CASE ScanEnds(p)
    <3>1. Child(p) = "none" \/ Child(p) = child[p][1]
      BY DEF Child, ProcessInv, StartedOnce
    <3>2. scan'[p].at \in {"done", "cut"} /\ scan'[p].read = scan[p].read
      BY <1>3, <2>2 DEF ScanEnds, ProcessInv, ProcessTypes, ScanTypes, ScanPlaces
    <3>3. scan'[p].at = "done" =>
             scan[p].read = Lines \/ Child(p) \in {"bad", "reaped"} \/ cancelled[p]
      BY <1>3, <2>2 DEF ScanEnds, ProcessInv, ProcessTypes, ScanTypes, ScanPlaces
    <3> QED BY <2>2, <3>1, <3>2 DEF ScanEnds
  <2> QED BY <2>1, <2>2
<1>6. At(p, "forward")
  BY <1>4 DEF CallInv, HelperInvOf
<1>7. ASSUME NEW d \in Procs, d # p PROVE CallInv(d)'
  <2>1. Untouched(d)
    BY <1>1, <1>2, <1>4, <1>7 DEF Untouched
  <2>2. RunInv(d)'
    BY <1>2 DEF RunInv, CallInv, StopperSleepsOn
  <2> QED BY <2>1, <2>2, CallKept
<1>8. CallInv(p)'
  <2>1. PlaceInv(p)'
    BY <1>1, <1>2 DEF CallInv, PlaceInv, At, CLI
  <2>2. RunInv(p)'
    BY <1>2 DEF RunInv, CallInv, StopperSleepsOn
  <2>3. HelperInvOf(p)'
    BY <1>1, <1>2, <1>6 DEF CallInv, HelperInvOf, At, Late
  <2>4. OutcomeInv(p)'
    BY <1>1, <1>2 DEF CallInv, OutcomeInv, At, CLI
  <2>5. ASSUME CLI, ~Executing(p) PROVE StreamInv(p)'
    <3>1. child[p][1] # "reaped" \/ stopper.at # "out"
      BY <1>6 DEF CallInv, HelperInvOf, Late, Stopping, At
    <3>2. SendsAll(p, 0) /\ events[p].last # "done"
      BY <1>6, <2>5 DEF CallInv, StreamInv, At
    <3> QED BY <1>1, <1>2, <1>4, <1>5, <1>6, <3>1, <3>2 DEF StreamInv, SendsAll, At
  <2>6. (CLI' <=> CLI) /\ (Executing(p)' <=> Executing(p))
    BY <1>1 DEF CLI, Executing
  <2> QED BY <2>1, <2>2, <2>3, <2>4, <2>5, <2>6 DEF CallInv, StreamInv
<1>9. ProcessInv'
  BY ScanInv
<1>10. StopInv'
  BY <1>1, <1>2, StopKept
<1> QED BY <1>1, <1>7, <1>8, <1>9, <1>10

\* A goroutine in doWait, for a call that waits or for the agent's Stop, reaps
\* the child before the call has seen the end of it.
LEMMA HelpersInv ==
    ASSUME AgentsInv, UNCHANGED agentVars, NEW t \in Threads, NEW p \in Procs, HelperSteps(t, p)
    PROVE  AgentsInv'
<1> USE DEF AgentsInv
<1>1. /\ AgentTypes' /\ UNCHANGED <<setup, call, events, stopper>>
      /\ (Stopping' <=> Stopping)
  BY AgentAlone
<1>2. UNCHANGED <<scan, cancelled, thread, managed>>
  BY DEF HelperSteps, HelperEnters, HelperReaps, HelperLeaves, ioVars, managerVars
<1>3. ProcessInv'
  BY HelperInv
<1>4. ASSUME NEW d \in Procs, d # p
      PROVE  CallInv(d)' /\ proc'[d] = proc[d] /\ child'[d] = child[d]
  <2>1. /\ proc'[d] = proc[d] /\ child'[d] = child[d]
        /\ \A u \in Threads : helper'[u][d] = helper[u][d]
    BY <1>4, OtherHelper DEF ProcessInv
  <2>2. Untouched(d)
    BY <1>1, <1>2, <2>1 DEF Untouched
  <2>3. RunInv(d)'
    BY <1>2, <2>1 DEF RunInv, CallInv, StopperSleepsOn
  <2> QED BY <2>1, <2>2, <2>3, CallKept
<1>5. /\ helper[t][p].at # "none" /\ (Late(p) \/ Stopping)
      /\ \A u \in Threads : u # t => helper'[u][p] = helper[u][p]
  <2>1. helper[t][p].at # "none"
    BY DEF HelperSteps, HelperEnters, HelperReaps, HelperLeaves
  <2>2. \A u \in Threads : u # t => helper'[u][p] = helper[u][p]
    BY DEF HelperSteps, HelperEnters, HelperReaps, HelperLeaves, ProcessInv, ProcessTypes, ThreadTypes
  <2> QED BY <2>1, <2>2 DEF CallInv, HelperInvOf
<1>6. proc[p] \in ProcessRecords /\ StartedOnce(p) /\ OnceInv(p)
  BY DEF ProcessInv, ProcessTypes, ProcTypes
<1>7. proc'[p].start = proc[p].start /\ proc'[p].state = proc[p].state
  <2>1. \/ proc' = proc \/ proc' = [proc EXCEPT ![p].held = TRUE]
        \/ proc' = [proc EXCEPT ![p].waitErr = child[p][helper[t][p].start] # "ok"]
        \/ proc' = [proc EXCEPT ![p] = [proc[p] EXCEPT !.done = TRUE, !.held = FALSE]]
    BY <1>6 DEF HelperSteps, HelperEnters, HelperReaps, HelperLeaves, ProcessRecords
  <2>2. proc \in [Procs -> ProcessRecords]
    BY DEF ProcessInv, ProcessTypes, ProcTypes
  <2>3. CASE proc' = proc
    BY <2>3
  <2>4. CASE proc' = [proc EXCEPT ![p].held = TRUE]
    BY <2>2, <2>4 DEF ProcessRecords
  <2>5. CASE proc' = [proc EXCEPT ![p].waitErr = child[p][helper[t][p].start] # "ok"]
    BY <2>2, <2>5 DEF ProcessRecords
  <2>6. CASE proc' = [proc EXCEPT ![p] = [proc[p] EXCEPT !.done = TRUE, !.held = FALSE]]
    BY <2>2, <2>6 DEF ProcessRecords
  <2> QED BY <2>1, <2>3, <2>4, <2>5, <2>6
<1>8. CASE HelperReaps(t, p)
  <2>1. /\ helper[t][p].start = 1 /\ child[p][1] \in {"ok", "bad"}
    BY <1>6, <1>8 DEF HelperReaps, OnceInv, Inside
  <2>2. child'[p][1] = "reaped" /\ proc'[p].waitErr = (child[p][1] # "ok")
    BY <1>8, <2>1, <1>6, ProcessAssumption
       DEF HelperReaps, ProcessInv, ProcessTypes, ProcTypes, ProcessRecords, Starts
  <2>3. call[p].at \notin {"tell", "leave", "over"}
    BY <2>1 DEF CallInv, PlaceInv
  <2>4. PlaceInv(p)'
    BY <1>1, <1>2, <1>7, <2>3 DEF CallInv, PlaceInv, At, CLI
  <2>5. RunInv(p)' /\ HelperInvOf(p)'
    BY <1>1, <1>2, <1>5, <2>2 DEF CallInv, RunInv, HelperInvOf, Late, Stopping, At
  <2>6. OutcomeInv(p)'
    BY <1>1, <2>3 DEF CallInv, OutcomeInv, At, CLI
  <2>7. StreamInv(p)'
    <3>1. ~proc[p].waitErr
      BY <1>6, <2>1 DEF StartedOnce
    <3> QED BY <1>1, <1>2, <2>1, <2>2, <3>1 DEF CallInv, StreamInv, SendsAll, At, CLI, Executing
  <2>8. StopInv'
    <3>1. \A q \in Procs : /\ proc'[q].start = proc[q].start
                           /\ child[q][1] = "reaped" => child'[q][1] = "reaped"
      BY <1>4, <1>7, <2>2
    <3> QED BY <1>1, <1>2, <3>1, StopKept
  <2> QED BY <1>1, <1>3, <1>4, <2>4, <2>5, <2>6, <2>7, <2>8 DEF CallInv
<1>9. CASE ~HelperReaps(t, p)
  <2>1. child' = child /\ proc'[p].waitErr = proc[p].waitErr
    <3>1. HelperEnters(t, p) \/ HelperLeaves(t, p)
      BY <1>9 DEF HelperSteps
    <3>2. \/ proc' = proc \/ proc' = [proc EXCEPT ![p].held = TRUE]
          \/ proc' = [proc EXCEPT ![p] = [proc[p] EXCEPT !.done = TRUE, !.held = FALSE]]
      BY <1>6, <3>1 DEF HelperEnters, HelperLeaves, ProcessRecords
    <3>3. proc'[p].waitErr = proc[p].waitErr
      BY <1>6, <3>2 DEF ProcessRecords, ProcessInv, ProcessTypes, ProcTypes
    <3> QED BY <3>1, <3>3 DEF HelperEnters, HelperLeaves
  <2>2. Untouched(p)
    BY <1>1, <1>2, <1>5, <1>7, <2>1 DEF Untouched
  <2>3. RunInv(p)'
    BY <1>2, <1>7, <2>1 DEF RunInv, CallInv, StopperSleepsOn
  <2>4. CallInv(p)'
    BY <2>2, <2>3, CallKept
  <2>5. StopInv'
    <3>1. \A q \in Procs : proc'[q].start = proc[q].start
      BY <1>4, <1>7
    <3> QED BY <1>1, <1>2, <2>1, <3>1, StopKept
  <2> QED BY <1>1, <1>3, <1>4, <2>4, <2>5
<1> QED BY <1>8, <1>9

\* Every step of the agent, its calls and their children keeps the invariant.
LEMMA AgentsNextInv == AgentsInv /\ [AgentsNext]_vars => AgentsInv'
<1> SUFFICES ASSUME AgentsInv, [AgentsNext]_vars PROVE AgentsInv'
  OBVIOUS
<1>1. ASSUME NEW c \in Procs, CallSteps(c) PROVE AgentsInv'
  BY <1>1, CallStepsAreSteps, CallStepInv
<1>2. ASSUME NEW c \in Procs, Receive(c) \/ Abandon(c) PROVE AgentsInv'
  BY <1>2, ConsumerInv
<1>3. CASE StopSteps
  BY <1>3, StopListsInv, StopOneInv, StopWaitsInv DEF StopSteps
<1>4. CASE StopAgent
  BY <1>4, StopListsInv
<1>5. ASSUME UNCHANGED agentVars, NEW t \in Threads, NEW p \in Procs, HelperSteps(t, p)
      PROVE  AgentsInv'
  BY <1>5, HelpersInv
<1>6. ASSUME UNCHANGED agentVars, NEW p \in Procs, ScanLine(p) \/ ScanEnds(p)
      PROVE  AgentsInv'
  BY <1>6, OutputsInv
<1>7. ASSUME UNCHANGED agentVars, NEW p \in Procs,
             (\E how \in {"ok", "bad"} : ChildExits(p, 1, how)) \/ Cancel(p)
      PROVE  AgentsInv'
  BY <1>7, ChildrenInv
<1>8. CASE UNCHANGED vars
  <2>1. ProcessInv' /\ AgentTypes' /\ UNCHANGED <<setup, call, events, stopper>>
        /\ (Stopping' <=> Stopping)
    BY <1>8, AgentAlone, ProcessesAlone DEF vars, AgentsInv
  <2>2. ASSUME NEW d \in Procs PROVE CallInv(d)'
    <3>1. Untouched(d)
      BY <1>8, <2>1 DEF Untouched, vars, processVars, ioVars, managerVars
    <3>2. RunInv(d)'
      BY <1>8 DEF AgentsInv, RunInv, CallInv, StopperSleepsOn, vars, processVars
    <3> QED BY <3>1, <3>2, CallKept DEF AgentsInv
  <2>3. StopInv'
    BY <1>8, <2>1, StopKept DEF AgentsInv, vars, processVars
  <2> QED BY <2>1, <2>2, <2>3 DEF AgentsInv
<1>9. CASE Progress
  BY <1>1, <1>2, <1>3, <1>5, <1>6, <1>7, <1>9 DEF Progress
<1>10. CASE /\ UNCHANGED agentVars
            /\ \E c \in Procs :
                  \/ Child(c) = "alive" /\ (\E how \in {"ok", "bad"} : ChildExits(c, 1, how))
                  \/ c \in setup.ends /\ call[c].at \notin {"new", "over"} /\ Cancel(c)
  BY <1>7, <1>10
<1> QED BY <1>2, <1>4, <1>8, <1>9, <1>10 DEF AgentsNext

\* Whatever calls, consumers, children and the agent's Stop do, the invariant of
\* all of them holds.
LEMMA AgentsAlwaysInv == SafeSpec => []AgentsInv
  BY AgentsInitInv, AgentsNextInv, PTL DEF SafeSpec

\* The calls of an agent and its Stop wait for the same children; one goroutine
\* reaps each, and none closes a channel twice or unlocks a mutex that is free.
THEOREM AgentsReapOnce == SafeSpec => []OneReaper
<1>1. AgentsInv => OneReaper
  BY DEF AgentsInv, ProcessInv
<1> QED BY <1>1, AgentsAlwaysInv, PTL

\* A call that has returned leaves neither a child nor its registration.
THEOREM NoneOrphaned == SafeSpec => []NoOrphans
<1>1. AgentsInv => NoOrphans
  <2> SUFFICES ASSUME AgentsInv, NEW c \in Procs, At(c, "over")
               PROVE  Child(c) \in {"none", "reaped"} /\ c \notin managed
    BY DEF NoOrphans
  <2>1. child[c][1] \in {"none", "reaped"} /\ c \notin managed
    BY DEF AgentsInv, CallInv, PlaceInv, At
  <2>2. proc[c].start \in {0, 1}
    BY DEF AgentsInv, ProcessInv, StartedOnce
  <2> QED BY <2>1, <2>2 DEF Child
<1> QED BY <1>1, AgentsAlwaysInv, PTL

\* An answer of executeCLI is the whole output of a child that ended well, and a
\* stream that says done has handled all of it, unless it was cancelled, stopped
\* or cut short; but for the lines Claude drops it has sent an event for each.
THEOREM AnswersAreWhole == SafeSpec => []SuccessIsWhole
<1>1. AgentsInv => SuccessIsWhole
  <2> SUFFICES ASSUME AgentsInv, NEW c \in Procs, CLI
               PROVE  /\ call[c].out \in Outcomes \ {"none", "error"} =>
                             call[c].whole /\ ~proc[c].waitErr
                      /\ ~Executing(c) /\ events[c].last = "done" =>
                            /\ scan[c].taken = scan[c].read
                            /\ setup.provider # "claude" => events[c].sent = scan[c].taken + 1
                            /\ /\ ~proc[c].waitErr /\ ~cancelled[c]
                               /\ stopper.at = "out" /\ scan[c].at # "cut"
                               => scan[c].taken = Lines
    BY DEF SuccessIsWhole, CLI
  <2>1. OutcomeInv(c) /\ StreamInv(c) /\ PlaceInv(c)
    BY DEF AgentsInv, CallInv
  <2>2. call[c].out \in Outcomes \ {"none", "error"} => call[c].whole /\ ~proc[c].waitErr
    BY <2>1 DEF OutcomeInv
  <2>3. ASSUME ~Executing(c), events[c].last = "done"
        PROVE  /\ call[c].at \in {"leave", "over"} /\ scan[c].at \in {"done", "cut"}
               /\ scan[c].taken = scan[c].read
               /\ setup.provider # "claude" => events[c].sent = scan[c].taken + 1
    BY <2>1, <2>3 DEF StreamInv, SendsAll
  <2>4. ASSUME ~Executing(c), events[c].last = "done", ~proc[c].waitErr, ~cancelled[c],
               stopper.at = "out", scan[c].at # "cut"
        PROVE  scan[c].taken = Lines
    <3>1. child[c][1] # "bad"
      BY <2>1, <2>3, <2>4 DEF PlaceInv
    <3> QED BY <2>1, <2>3, <2>4, <3>1 DEF StreamInv
  <2> QED BY <2>2, <2>3, <2>4
<1> QED BY <1>1, AgentsAlwaysInv, PTL

\* When the agent's Stop returns, the children it found have ended, whoever
\* waited for them.
THEOREM StopEndsChildren == SafeSpec => []StopLeavesNothing
<1>1. AgentsInv => StopLeavesNothing
  <2> SUFFICES ASSUME AgentsInv, stopper.at = "over", NEW p \in stopper.listed
               PROVE  Child(p) = "reaped"
    BY DEF StopLeavesNothing
  <2>1. proc[p].start = 1 /\ child[p][1] = "reaped"
    BY DEF AgentsInv, StopInv, Stopping, StopperSleepsOn
  <2> QED BY <2>1 DEF Child
<1> QED BY <1>1, AgentsAlwaysInv, PTL

=============================================================================
