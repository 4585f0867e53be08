------------------------------- MODULE Session -------------------------------
(***************************************************************************)
(* The session store (internal/session/session.go) for one key, an agent   *)
(* and its working directory.  Every method but GetOrCreate runs under     *)
(* Store.mu and is one action.  Sessions are numbered in the order they    *)
(* are created, which is also the order of their file names.               *)
(***************************************************************************)
EXTENDS Naturals, FiniteSets, FiniteSetsExt

CONSTANTS Users,        \* goroutines that call GetOrCreate
          MaxSessions,  \* bound on the number of sessions created
          MaxTurns      \* bound on the number of turns recorded

ASSUME SessionAssumption == MaxSessions \in Nat \ {0} /\ MaxTurns \in Nat

VARIABLES current,   \* Store.sessions[key], 0 for none
          turns,     \* turns in the current session's history
          onDisk,    \* each session's file: turns saved plus 1, 0 without a file
          created,   \* number of sessions created
          missed,    \* users whose Get found nothing and who have yet to create
          gone,      \* sessions that Delete or Cleanup removed
          leftover   \* those of them whose file could not be removed

sessionVars == <<current, turns, onDisk, created, missed, gone, leftover>>

Sessions == 1..MaxSessions

SessionInit ==
    /\ current = 0 /\ turns = 0
    /\ onDisk = [i \in Sessions |-> 0]
    /\ created = 0 /\ missed = {} /\ gone = {} /\ leftover = {}

\* Create: a new session takes the place of the old one, whose file stays.
Create ==
    /\ created < MaxSessions
    /\ created' = created + 1
    /\ current' = created'
    /\ turns' = 0
    /\ UNCHANGED <<onDisk, gone, leftover>>

\* GetOrCreate: two locks, one for Get and one for Create.
Get(u) ==
    /\ u \notin missed /\ current = 0
    /\ missed' = missed \cup {u}
    /\ UNCHANGED <<current, turns, onDisk, created, gone, leftover>>

CreateMissed(u) == u \in missed /\ missed' = missed \ {u} /\ Create

CreateAnew == Create /\ UNCHANGED missed

AppendTurn ==
    /\ current # 0 /\ turns < MaxTurns
    /\ turns' = turns + 1
    /\ UNCHANGED <<current, onDisk, created, missed, gone, leftover>>

Save ==
    /\ current # 0
    /\ onDisk' = [onDisk EXCEPT ![current] = turns + 1]
    /\ UNCHANGED <<current, turns, created, missed, gone, leftover>>

\* Save fails: the session's file is lost.
SaveTears ==
    /\ current # 0
    /\ onDisk' = [onDisk EXCEPT ![current] = 0]
    /\ UNCHANGED <<current, turns, created, missed, gone, leftover>>

Stored == {i \in Sessions : onDisk[i] # 0}

\* Load: of several files for the key the last one counts.
Load ==
    /\ Stored # {}
    /\ current' = Max(Stored)
    /\ turns' = onDisk[current'] - 1
    /\ UNCHANGED <<onDisk, created, missed, gone, leftover>>

\* Delete, and Cleanup of a session that is too old, forget the session.
Forget ==
    /\ current # 0
    /\ gone' = gone \cup {current}
    /\ current' = 0 /\ turns' = 0
    /\ UNCHANGED <<created, missed>>

\* (Variant) The file is left where it is.
RemoveSessionOnly == Forget /\ UNCHANGED <<onDisk, leftover>>

\* The file goes as well, unless os.Remove fails, whose error is dropped.
RemoveSession ==
    /\ Forget
    /\ \/ /\ onDisk' = [onDisk EXCEPT ![current] = 0]
          /\ leftover' = leftover \ {current}
       \/ /\ onDisk[current] # 0 /\ UNCHANGED onDisk
          /\ leftover' = leftover \cup {current}

\* The program ends, and a new one makes a store of the same directory.
Restart ==
    /\ current' = 0 /\ turns' = 0 /\ missed' = {}
    /\ UNCHANGED <<onDisk, created, gone, leftover>>

SessionNext ==
    \/ \E u \in Users : Get(u) \/ CreateMissed(u)
    \/ CreateAnew \/ AppendTurn \/ Save \/ SaveTears \/ Load \/ RemoveSession \/ Restart

SessionSpec == SessionInit /\ [][SessionNext]_sessionVars

-----------------------------------------------------------------------------
\* A session that Delete or Cleanup removed is a session again only if its file
\* could not be removed the last time: no Save in between, no Load and no restart
\* brings back another.
RemovedStaysRemoved == current \in gone => current \in leftover

=============================================================================
