----------------------------- MODULE Checkpoint -----------------------------
(***************************************************************************)
(* The checkpoint manager (internal/checkpoint/checkpoint.go) for one task *)
(* whose checkpoints several goroutines save.  The latest checkpoint is    *)
(* kept in memory under Manager.mu; each version has a file, which is read *)
(* and written after unlocking.  A crash loses the memory and may tear the *)
(* file that is being written.                                             *)
(*                                                                         *)
(* A checkpoint is known by the serial number of its Save.  A file's name  *)
(* and content agree on the version.  A directory is read, and files are   *)
(* removed, in one step and without failure.                               *)
(***************************************************************************)
EXTENDS Naturals, FiniteSets, FiniteSetsExt

CONSTANTS Savers,         \* goroutines that use the manager
          MaxSaves,       \* bound on the number of Saves
          AutoSaveCount,  \* Manager.autoSaveCount
          Careful         \* the ways the program may use the manager: see Quiet

ASSUME CheckpointAssumption ==
    /\ IsFiniteSet(Savers)
    /\ MaxSaves \in Nat \ {0} /\ AutoSaveCount \in Nat \ {0}
    /\ Careful \subseteq BOOLEAN

VARIABLES careful,  \* LoadAll is called first, and Delete while nobody else is there
          fresh,    \* a careful program has yet to call LoadAll
          mem,      \* Manager.checkpoints: version and serial, serial 0 for none
          counter,  \* Manager.taskCounters
          files,    \* the serial in each version's file, 0 without a file
          torn,     \* versions whose file cannot be parsed
          saver,    \* each goroutine: location, and the checkpoint in its hands
          serial,   \* number of Saves begun
          done,     \* the latest serial whose Save returned nil, 0 once removed
          unsaved   \* AutoSaves since the last Save began that did not save

checkpointVars == <<careful, fresh, mem, counter, files, torn, saver, serial, done, unsaved>>

Versions == 1..MaxSaves
NoCheckpoint == [version |-> 0, serial |-> 0]
Out == [at |-> "out", cp |-> NoCheckpoint]

CheckpointInit ==
    /\ careful \in Careful
    /\ fresh = careful
    /\ mem = NoCheckpoint /\ counter = 0
    /\ files = [v \in Versions |-> 0] /\ torn = {}
    /\ saver = [s \in Savers |-> Out]
    /\ serial = 0 /\ done = 0 /\ unsaved = 0

At(s, loc) == saver[s].at = loc
Moved(s, loc, cp) == saver' = [saver EXCEPT ![s] = [at |-> loc, cp |-> cp]]

Quiet(s) == \A o \in Savers \ {s} : At(o, "out")

\* A goroutine may begin to do something else than LoadAll.
Free(s) ==
    /\ At(s, "out") /\ ~fresh
    /\ careful => \A o \in Savers : ~At(o, "delete")

-----------------------------------------------------------------------------
(* Save and AutoSave                                                       *)

\* Number the checkpoint and keep it, under the lock.
SaveBegins(s) ==
    /\ Free(s) \/ At(s, "save")
    /\ serial < MaxSaves /\ mem.version < MaxSaves
    /\ LET cp == [version |-> mem.version + 1, serial |-> serial + 1] IN
       mem' = cp /\ Moved(s, "write", cp)
    /\ serial' = serial + 1
    /\ unsaved' = 0
    /\ UNCHANGED <<careful, fresh, counter, files, torn, done>>

\* Write its file.
SaveWrites(s) ==
    /\ At(s, "write")
    /\ files' = [files EXCEPT ![saver[s].cp.version] = saver[s].cp.serial]
    /\ torn' = torn \ {saver[s].cp.version}
    /\ done' = IF saver[s].cp.serial > done THEN saver[s].cp.serial ELSE done
    /\ saver' = [saver EXCEPT ![s] = Out]
    /\ UNCHANGED <<careful, fresh, mem, counter, serial, unsaved>>

\* Save returns the error; what is left of the file cannot be parsed, unless the
\* file was not even opened.
SaveFails(s) ==
    /\ At(s, "write")
    /\ \/ UNCHANGED <<files, torn>>
       \/ /\ files' = [files EXCEPT ![saver[s].cp.version] = saver[s].cp.serial]
          /\ torn' = torn \cup {saver[s].cp.version}
    /\ saver' = [saver EXCEPT ![s] = Out]
    /\ UNCHANGED <<careful, fresh, mem, counter, serial, done, unsaved>>

\* (Variant) The count has to be exceeded.
AutoSaveCountsLate(s) ==
    /\ Free(s)
    /\ counter' = counter + 1
    /\ \/ counter' > AutoSaveCount /\ Moved(s, "reset", NoCheckpoint) /\ UNCHANGED unsaved
       \/ counter' <= AutoSaveCount /\ Moved(s, "save", NoCheckpoint) /\ UNCHANGED unsaved
       \/ counter' <= AutoSaveCount /\ unsaved' = unsaved + 1 /\ UNCHANGED saver
    /\ UNCHANGED <<careful, fresh, mem, files, torn, serial, done>>

\* Count the operation and read the time of the last Save, under the lock.  The
\* count is reached; or the interval is over; or nothing is saved.
AutoSaveCounts(s) ==
    /\ Free(s)
    /\ counter' = counter + 1
    /\ \/ counter' >= AutoSaveCount /\ Moved(s, "reset", NoCheckpoint) /\ UNCHANGED unsaved
       \/ counter' < AutoSaveCount /\ Moved(s, "save", NoCheckpoint) /\ UNCHANGED unsaved
       \/ counter' < AutoSaveCount /\ unsaved' = unsaved + 1 /\ UNCHANGED saver
    /\ UNCHANGED <<careful, fresh, mem, files, torn, serial, done>>

\* The count is set to 0, whatever it has become; Save follows.
AutoSaveResets(s) ==
    /\ At(s, "reset")
    /\ counter' = 0
    /\ Moved(s, "save", NoCheckpoint)
    /\ UNCHANGED <<careful, fresh, mem, files, torn, serial, done, unsaved>>

-----------------------------------------------------------------------------
(* Load and LoadAll                                                        *)

Files == {v \in Versions : files[v] # 0}

\* File names are compared as strings: v1 < v10 < v11 < v2.  (Below 100.)
NameKey(v) == IF v < 10 THEN 100 * v ELSE 100 * (v \div 10) + (v % 10) + 1
LastByName == CHOOSE v \in Files : \A w \in Files : NameKey(w) <= NameKey(v)

FileOf(v) == [version |-> v, serial |-> files[v]]

\* Load, when the task is not in memory: read the last file by name.  There may
\* be none, and it may be torn.
LoadReads(s) ==
    /\ Free(s) /\ mem = NoCheckpoint
    /\ Files # {} /\ LastByName \notin torn
    /\ Moved(s, "loaded", FileOf(LastByName))
    /\ UNCHANGED <<careful, fresh, mem, counter, files, torn, serial, done, unsaved>>

\* ... and keep it, whatever is there by now.
LoadKeeps(s) ==
    /\ At(s, "loaded")
    /\ mem' = saver[s].cp
    /\ saver' = [saver EXCEPT ![s] = Out]
    /\ UNCHANGED <<careful, fresh, counter, files, torn, serial, done, unsaved>>

\* (Variant) The first file found is taken.
LoadAllReadsAny(s) ==
    /\ At(s, "out") /\ (careful => fresh /\ Quiet(s))
    /\ IF Files \ torn = {}
       THEN fresh' = FALSE /\ UNCHANGED saver
       ELSE /\ \E v \in Files \ torn : Moved(s, "found", FileOf(v))
            /\ UNCHANGED fresh
    /\ UNCHANGED <<careful, mem, counter, files, torn, serial, done, unsaved>>

\* LoadAll finds the file with the highest version among those it can parse.
LoadAllReads(s) ==
    /\ At(s, "out") /\ (careful => fresh /\ Quiet(s))
    /\ IF Files \ torn = {}
       THEN fresh' = FALSE /\ UNCHANGED saver
       ELSE Moved(s, "found", FileOf(Max(Files \ torn))) /\ UNCHANGED fresh
    /\ UNCHANGED <<careful, mem, counter, files, torn, serial, done, unsaved>>

\* It reads the file again and keeps it, whatever is there by now.
LoadAllKeeps(s) ==
    /\ At(s, "found")
    /\ LET v == saver[s].cp.version IN
       mem' = IF v \in Files \ torn THEN FileOf(v) ELSE mem
    /\ saver' = [saver EXCEPT ![s] = Out]
    /\ fresh' = FALSE
    /\ UNCHANGED <<careful, counter, files, torn, serial, done, unsaved>>

-----------------------------------------------------------------------------
(* Delete and Cleanup                                                      *)

DeleteForgets(s) ==
    /\ Free(s) /\ (careful => Quiet(s))
    /\ mem' = NoCheckpoint /\ counter' = 0
    /\ Moved(s, "delete", NoCheckpoint)
    /\ done' = 0 /\ unsaved' = 0
    /\ UNCHANGED <<careful, fresh, files, torn, serial>>

DeleteFiles(s) ==
    /\ At(s, "delete")
    /\ files' = [v \in Versions |-> 0] /\ torn' = {}
    /\ saver' = [saver EXCEPT ![s] = Out]
    /\ UNCHANGED <<careful, fresh, mem, counter, serial, done, unsaved>>

\* Files written before the cutoff go, the latest among them; memory stays.
CleanupFiles(s) ==
    /\ Free(s)
    /\ \E cutoff \in 1..serial :
          /\ files' = [v \in Versions |-> IF files[v] <= cutoff THEN 0 ELSE files[v]]
          /\ torn' = {v \in torn : files[v] > cutoff}
          /\ done' = IF done > cutoff THEN done ELSE 0
    /\ UNCHANGED <<careful, fresh, mem, counter, saver, serial, unsaved>>

\* The process dies; files being written may be torn.  A new manager is made.
Crash ==
    /\ \E partial \in SUBSET {s \in Savers : At(s, "write")} :
          LET cut == {saver[s].cp.version : s \in partial} IN
          /\ torn' = torn \cup cut
          /\ files' = [v \in Versions |->
                          IF v \in cut
                          THEN Max({saver[s].cp.serial : s \in {p \in partial : saver[p].cp.version = v}})
                          ELSE files[v]]
    /\ mem' = NoCheckpoint /\ counter' = 0 /\ unsaved' = 0
    /\ saver' = [s \in Savers |-> Out]
    /\ fresh' = careful
    /\ UNCHANGED <<careful, serial, done>>

CheckpointNext ==
    \/ \E s \in Savers :
          \/ SaveBegins(s) \/ SaveWrites(s) \/ SaveFails(s)
          \/ AutoSaveCounts(s) \/ AutoSaveResets(s)
          \/ LoadReads(s) \/ LoadKeeps(s) \/ LoadAllReads(s) \/ LoadAllKeeps(s)
          \/ DeleteForgets(s) \/ DeleteFiles(s) \/ CleanupFiles(s)
    \/ Crash

CheckpointSpec == CheckpointInit /\ [][CheckpointNext]_checkpointVars

-----------------------------------------------------------------------------
\* In a program that calls LoadAll before anything else, and Delete only while
\* nobody else uses the manager, the last checkpoint whose Save returned nil, or
\* a later one, is on disk in a file that can be parsed, and is what the manager
\* answers with: through concurrent Saves, failed writes and crashes.
NothingSavedIsLost ==
    careful /\ done > 0 =>
        /\ \E v \in Files \ torn : files[v] >= done
        /\ fresh \/ mem.serial >= done

\* AutoSave lets at most autoSaveCount - 1 operations go by without a Save, and
\* as many again for each goroutine that reset the count and has yet to save.
UnsavedBounded ==
    unsaved <= (AutoSaveCount - 1) * (1 + Cardinality({s \in Savers : At(s, "save")}))

-----------------------------------------------------------------------------
(* What a comment says of Load and the code does not do.                   *)

\* Load takes the latest version whose file is whole: "file names sort by
\* version number, take the last one".
LoadTakesLatest ==
    [][\A s \in Savers :
          At(s, "out") /\ saver'[s].at = "loaded" => saver'[s].cp.version = Max(Files \ torn)
      ]_checkpointVars

=============================================================================
