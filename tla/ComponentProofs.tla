--------------------------- MODULE ComponentProofs ---------------------------
(***************************************************************************)
(* Three components that keep state across calls: no number of concurrent  *)
(* Saves, failed writes and crashes makes the checkpoint manager lose what *)
(* it has saved; a removed session stays removed; and the task pool        *)
(* implements the order that dependencies promise.                         *)
(***************************************************************************)
EXTENDS Checkpoint, Session, TaskPool, FiniteSetTheorems, SequenceTheorems, TLAPS

\* Of finitely many things one has the greatest weight: the set of those that
\* weigh more cannot shrink for ever.
LEMMA GreatestExists ==
    ASSUME NEW S, IsFiniteSet(S), S # {}, NEW weight \in [S -> Nat]
    PROVE  \E x \in S : \A y \in S : weight[y] <= weight[x]
<1> DEFINE above(x) == {y \in S : weight[y] > weight[x]}
           T == {above(x) : x \in S}
<1>1. T \subseteq FiniteSubsetsOf(S) /\ T # {}
  <2>1. \A x \in S : above(x) \in SUBSET S /\ IsFiniteSet(above(x))
    BY FS_Subset
  <2>2. T # {}
    <3>1. PICK x \in S : TRUE
      OBVIOUS
    <3>2. above(x) \in T
      OBVIOUS
    <3> QED BY <3>2
  <2> HIDE DEF above
  <2>3. T \subseteq FiniteSubsetsOf(S)
    BY <2>1 DEF FiniteSubsetsOf
  <2> QED BY <2>2, <2>3
<1>2. \E t \in T : \A u \in T : <<u, t>> \notin StrictSubsetOrdering(S)
  <2> HIDE DEF T
  <2> QED BY <1>1, FS_StrictSubsetOrderingWellFounded, WFMin
<1>3. PICK x \in S : \A u \in T : <<u, above(x)>> \notin StrictSubsetOrdering(S)
  BY <1>2
<1>4. above(x) = {}
  <2> SUFFICES ASSUME NEW y \in S, weight[y] > weight[x] PROVE FALSE
    OBVIOUS
  <2>1. y \in above(x) /\ y \notin above(y) /\ above(y) \subseteq above(x)
    OBVIOUS
  <2>2. <<above(y), above(x)>> \in StrictSubsetOrdering(S)
    BY <2>1 DEF StrictSubsetOrdering
  <2> QED BY <1>3, <2>2
<1>5. \A y \in S : weight[y] <= weight[x]
  BY <1>4
<1> QED BY <1>5

\* A finite set of numbers has a greatest one.
LEMMA MaxExists ==
    ASSUME NEW S \in SUBSET Nat, IsFiniteSet(S), S # {}
    PROVE  Max(S) \in S /\ \A x \in S : x <= Max(S)
<1> DEFINE weight == [x \in S |-> x]
<1>1. weight \in [S -> Nat]
  OBVIOUS
<1>2. PICK x \in S : \A y \in S : weight[y] <= weight[x]
  <2> HIDE DEF weight
  <2> QED BY <1>1, GreatestExists
<1>3. \A y \in S : x >= y
  BY <1>2
<1>4. Max(S) \in S /\ \A y \in S : Max(S) >= y
  BY <1>3 DEF Max
<1> QED BY <1>4

-----------------------------------------------------------------------------
(* The session store                                                       *)

\* What was removed has no file, unless that could not be removed, and is older
\* than the next session.
SessionInv ==
    /\ created \in Nat /\ current \in 0..created
    /\ onDisk \in [Sessions -> Nat] /\ turns \in Nat
    /\ created <= MaxSessions
    /\ \A i \in Sessions : onDisk[i] # 0 => i <= created
    /\ gone \subseteq 1..created
    /\ leftover \subseteq gone
    /\ \A i \in (gone \ leftover) \cap Sessions : onDisk[i] = 0
    /\ RemovedStaysRemoved

\* Every step of the store keeps it.
LEMMA SessionStep ==
    ASSUME SessionInv, [SessionNext]_sessionVars PROVE SessionInv'
<1> USE SessionAssumption DEF SessionInv, RemovedStaysRemoved, Sessions
<1>1. ASSUME Create PROVE SessionInv'
  BY <1>1 DEF Create
<1>2. ASSUME NEW u \in Users, Get(u) PROVE SessionInv'
  BY <1>2 DEF Get
<1>3. CASE AppendTurn
  BY <1>3 DEF AppendTurn
<1>4. CASE Save
  <2>1. current \in Sessions /\ onDisk' = [onDisk EXCEPT ![current] = turns + 1]
    BY <1>4 DEF Save
  <2>2. \A i \in Sessions : i # current => onDisk'[i] = onDisk[i]
    BY <2>1
  <2>3. onDisk' \in [Sessions -> Nat]
    BY <2>1
  <2> QED BY <1>4, <2>1, <2>2, <2>3 DEF Save
<1>5. CASE SaveTears
  <2>1. current \in Sessions /\ onDisk' = [onDisk EXCEPT ![current] = 0]
    BY <1>5 DEF SaveTears
  <2>2. \A i \in Sessions : onDisk'[i] = onDisk[i] \/ onDisk'[i] = 0
    BY <2>1
  <2>3. onDisk' \in [Sessions -> Nat]
    BY <2>1
  <2> QED BY <1>5, <2>2, <2>3 DEF SaveTears
<1>6. CASE Load
  <2>1. Stored \in SUBSET Nat /\ IsFiniteSet(Stored) /\ Stored # {}
    <3>1. IsFiniteSet(1..MaxSessions)
      BY FS_Interval
    <3> QED BY <1>6, <3>1, FS_Subset DEF Load, Stored
  <2>2. current' \in Stored
    BY <1>6, <2>1, MaxExists DEF Load
  <2>3. /\ current' \in Sessions /\ onDisk[current'] # 0 /\ onDisk[current'] \in Nat
        /\ turns' = onDisk[current'] - 1
        /\ UNCHANGED <<onDisk, created, gone, leftover>>
    BY <1>6, <2>2 DEF Load, Stored
  <2> QED BY <2>3
<1>7. CASE RemoveSession
  <2>1. /\ current \in Sessions
        /\ gone' = gone \cup {current} /\ current' = 0 /\ turns' = 0 /\ created' = created
    BY <1>7 DEF RemoveSession, Forget
  <2>2. CASE onDisk' = [onDisk EXCEPT ![current] = 0] /\ leftover' = leftover \ {current}
    <3>1. \A i \in Sessions : onDisk'[i] = onDisk[i] \/ onDisk'[i] = 0
      BY <2>1, <2>2
    <3>2. onDisk' \in [Sessions -> Nat] /\ onDisk'[current] = 0
      BY <2>1, <2>2
    <3> QED BY <2>1, <2>2, <3>1, <3>2
  <2>3. CASE UNCHANGED onDisk /\ leftover' = leftover \cup {current}
    BY <2>1, <2>3
  <2> QED BY <1>7, <2>2, <2>3 DEF RemoveSession
<1>8. CASE Restart
  BY <1>8 DEF Restart
<1>9. CASE UNCHANGED sessionVars
  BY <1>9 DEF sessionVars
<1> QED
  BY <1>1, <1>2, <1>3, <1>4, <1>5, <1>6, <1>7, <1>8, <1>9 DEF SessionNext, CreateMissed, CreateAnew

\* A session that was removed is current again only if its file could not be
\* removed (Store.Delete, Cleanup, Load).
THEOREM RemovalIsFinal == SessionSpec => []RemovedStaysRemoved
<1>1. SessionInit => SessionInv
  BY SessionAssumption DEF SessionInit, SessionInv, RemovedStaysRemoved, Sessions
<1>2. SessionInv /\ [SessionNext]_sessionVars => SessionInv'
  BY SessionStep
<1>3. SessionInv => RemovedStaysRemoved
  BY DEF SessionInv
<1> QED BY <1>1, <1>2, <1>3, PTL DEF SessionSpec

-----------------------------------------------------------------------------
(* The task pool                                                           *)

PoolInv ==
    /\ dependsOn \in [PoolTasks -> SUBSET PoolIds]
    /\ pool \in [PoolTasks -> {"absent", "pending", "assigned", "completed", "failed"}]
    /\ order \in Seq(PoolTasks)

AbstractPool == [t \in PoolTasks |-> PoolState(t)]

\* One task's status changes, and so does its abstract state, if that is another.
LEMMA PoolMoves ==
    ASSUME PoolInv, NEW t \in PoolTasks, NEW status, NEW state,
           pool' = [pool EXCEPT ![t] = status],
           \/ status \in {"absent", "pending"} /\ state = "waiting"
           \/ status = "assigned" /\ state = "running"
           \/ status = "completed" /\ state = "ok"
           \/ status = "failed" /\ state = "failed"
    PROVE  AbstractPool' = [AbstractPool EXCEPT ![t] = state]
<1>1. pool'[t] = status /\ \A u \in PoolTasks : u # t => pool'[u] = pool[u]
  BY DEF PoolInv
<1>2. PoolState(t)' = state
  BY <1>1 DEF PoolState
<1>3. \A u \in PoolTasks : u # t => PoolState(u)' = PoolState(u)
  BY <1>1 DEF PoolState
<1> QED BY <1>2, <1>3 DEF AbstractPool

\* Every step keeps the types, and is a step of the abstract order or none.
LEMMA PoolStep ==
    ASSUME PoolInv, [PoolNext]_poolVars
    PROVE  PoolInv' /\ (PoolOrder!Next \/ UNCHANGED <<dependsOn, AbstractPool>>)
<1>1. ASSUME NEW t \in PoolTasks, Add(t)
      PROVE  PoolInv' /\ UNCHANGED <<dependsOn, AbstractPool>>
  <2>1. /\ pool[t] = "absent" /\ pool' = [pool EXCEPT ![t] = "pending"]
        /\ order' = Append(order, t) /\ dependsOn' = dependsOn
    BY <1>1 DEF Add
  <2>2. AbstractPool' = [AbstractPool EXCEPT ![t] = "waiting"]
    BY <2>1, PoolMoves
  <2>3. AbstractPool[t] = "waiting"
    BY <2>1 DEF AbstractPool, PoolState
  <2>4. AbstractPool' = AbstractPool
    BY <2>2, <2>3 DEF AbstractPool
  <2> QED BY <2>1, <2>4 DEF PoolInv
<1>2. CASE Notified \/ UNCHANGED poolVars
  <2>1. UNCHANGED <<dependsOn, pool, order>>
    BY <1>2 DEF Notified, poolVars
  <2>2. \A t \in PoolTasks : PoolState(t)' = PoolState(t)
    BY <2>1 DEF PoolState
  <2> QED BY <2>1, <2>2 DEF PoolInv, AbstractPool
<1>3. ASSUME NEW w \in Workers, Claim(w)
      PROVE  PoolInv' /\ PoolOrder!Next
  <2>1. PICK k \in DOMAIN order :
           Claimable(order[k]) /\ pool' = [pool EXCEPT ![order[k]] = "assigned"]
    BY <1>3 DEF Claim
  <2> DEFINE t == order[k]
  <2>2. t \in PoolTasks
    BY <2>1 DEF PoolInv
  <2>3. UNCHANGED <<dependsOn, order>>
    BY <1>3 DEF Claim
  <2>4. AbstractPool' = [AbstractPool EXCEPT ![t] = "running"]
    BY <2>1, <2>2, PoolMoves
  <2>5. AbstractPool[t] = "waiting"
    BY <2>1, <2>2 DEF Claimable, AbstractPool, PoolState
  <2>6. \A d \in dependsOn[t] : d \in PoolTasks /\ AbstractPool[d] = "ok"
    BY <2>1 DEF Claimable, DepsResolved, AbstractPool, PoolState
  <2>7. PoolOrder!Start(t)
    BY <2>3, <2>4, <2>5, <2>6 DEF PoolOrder!Start, AbstractPool
  <2>8. PoolInv'
    BY <2>1, <2>2, <2>3 DEF PoolInv
  <2> QED BY <2>2, <2>7, <2>8 DEF PoolOrder!Next
<1>4. ASSUME NEW t \in PoolTasks, Held(t), Complete(t) \/ Fail(t)
      PROVE  PoolInv' /\ PoolOrder!Next
  <2>1. pool[t] = "assigned" /\ UNCHANGED <<dependsOn, order>>
    BY <1>4 DEF Held, Complete, Fail
  <2>2. AbstractPool[t] = "running"
    BY <2>1 DEF AbstractPool, PoolState
  <2>3. \/ /\ pool' = [pool EXCEPT ![t] = "completed"]
           /\ AbstractPool' = [AbstractPool EXCEPT ![t] = "ok"]
        \/ /\ pool' = [pool EXCEPT ![t] = "failed"]
           /\ AbstractPool' = [AbstractPool EXCEPT ![t] = "failed"]
    <3>1. CASE Complete(t)
      BY <3>1, PoolMoves DEF Complete
    <3>2. CASE Fail(t)
      BY <3>2, PoolMoves DEF Fail
    <3> QED BY <1>4, <3>1, <3>2
  <2>4. PoolOrder!Finish(t)
    BY <2>1, <2>2, <2>3 DEF PoolOrder!Finish, AbstractPool
  <2>5. PoolInv'
    BY <2>1, <2>3 DEF PoolInv
  <2> QED BY <2>4, <2>5 DEF PoolOrder!Next
<1> QED BY <1>1, <1>2, <1>3, <1>4 DEF PoolNext

\* The pool implements the order that dependencies promise: a task is claimed once,
\* when everything it depends on has completed, and reported once (Pool.Claim).
THEOREM PoolKeepsOrder == PoolSpec => PoolImplementsOrder
<1>1. PoolInit => PoolInv /\ PoolOrder!Init
  BY TaskPoolAssumption, EmptySeq DEF PoolInit, PoolInv, PoolOrder!Init, PoolState
<1>2. PoolInv /\ [PoolNext]_poolVars => PoolInv'
  BY PoolStep
<1>3. PoolInv /\ [PoolNext]_poolVars
      => [PoolOrder!Next]_<<dependsOn, [t \in PoolTasks |-> PoolState(t)]>>
  BY PoolStep DEF AbstractPool
<1> QED BY <1>1, <1>2, <1>3, PTL DEF PoolSpec, PoolImplementsOrder, PoolOrder!Spec

\* Hence no task is claimed before its dependencies, whichever order they come in.
THEOREM PoolWaitsForDependencies == PoolSpec => []PoolOrder!DependenciesDone
<1> DEFINE Done == \A t \in PoolTasks : AbstractPool[t] # "waiting" =>
                      \A d \in dependsOn[t] : d \in PoolTasks /\ AbstractPool[d] = "ok"
<1>1. PoolInit => Done
  BY DEF PoolInit, AbstractPool, PoolState
<1>2. PoolInv /\ Done /\ [PoolNext]_poolVars => Done'
  <2> SUFFICES ASSUME PoolInv, Done, [PoolNext]_poolVars PROVE Done'
    OBVIOUS
  <2>1. AbstractPool = [t \in PoolTasks |-> AbstractPool[t]]
    BY DEF AbstractPool
  <2>2. CASE \E t \in PoolTasks : PoolOrder!Start(t)
    <3>1. PICK t \in PoolTasks :
             /\ AbstractPool[t] = "waiting"
             /\ \A d \in dependsOn[t] : d \in PoolTasks /\ AbstractPool[d] = "ok"
             /\ AbstractPool' = [AbstractPool EXCEPT ![t] = "running"]
             /\ dependsOn' = dependsOn
      BY <2>2 DEF PoolOrder!Start, AbstractPool
    <3>2. AbstractPool'[t] = "running" /\ \A o \in PoolTasks : o # t => AbstractPool'[o] = AbstractPool[o]
      BY <2>1, <3>1
    <3> QED BY <3>1, <3>2
  <2>3. CASE \E t \in PoolTasks : PoolOrder!Finish(t)
    <3>1. PICK t \in PoolTasks :
             /\ AbstractPool[t] = "running"
             /\ \E result \in {"ok", "failed"} : AbstractPool' = [AbstractPool EXCEPT ![t] = result]
             /\ dependsOn' = dependsOn
      BY <2>3 DEF PoolOrder!Finish, AbstractPool
    <3>2. AbstractPool'[t] # "waiting" /\ \A o \in PoolTasks : o # t => AbstractPool'[o] = AbstractPool[o]
      BY <2>1, <3>1
    <3> QED BY <3>1, <3>2
  <2>4. CASE UNCHANGED <<dependsOn, AbstractPool>>
    BY <2>4
  <2> QED BY <2>2, <2>3, <2>4, PoolStep DEF PoolOrder!Next
<1>3. Done => PoolOrder!DependenciesDone
  BY DEF PoolOrder!DependenciesDone, AbstractPool
<1>4. PoolInit => PoolInv
  BY TaskPoolAssumption, EmptySeq DEF PoolInit, PoolInv
<1>5. PoolInv /\ [PoolNext]_poolVars => PoolInv'
  BY PoolStep
<1> QED BY <1>1, <1>2, <1>3, <1>4, <1>5, PTL DEF PoolSpec

-----------------------------------------------------------------------------
(* The checkpoint manager                                                  *)

Checkpoints == [version : 0..MaxSaves, serial : Nat]

Places == {"out", "write", "save", "reset", "loaded", "found", "delete"}

\* Versions whose file can be parsed.
Whole == Files \ torn

\* A version that is being written has a file name.
SaverTypes ==
    /\ saver \in [Savers -> [at : Places, cp : Checkpoints]]
    /\ \A s \in Savers : At(s, "write") => saver[s].cp.version \in Versions

CheckpointTypes ==
    /\ careful \in BOOLEAN /\ fresh \in BOOLEAN
    /\ mem \in Checkpoints
    /\ files \in [Versions -> Nat] /\ torn \subseteq Versions
    /\ SaverTypes
    /\ counter \in Nat /\ serial \in Nat /\ done \in Nat /\ unsaved \in Nat

\* Where the goroutines of a careful program may be: LoadAll comes before anything
\* else, Delete has the manager to itself, and Load never reads a file.
StageInv ==
    /\ fresh => mem = NoCheckpoint /\ \A s \in Savers : At(s, "out") \/ At(s, "found")
    /\ \A s \in Savers : At(s, "found") =>
          /\ fresh /\ Quiet(s)
          /\ saver[s].cp.version \in Whole /\ \A v \in Whole : v <= saver[s].cp.version
    /\ \A s \in Savers : At(s, "delete") => Quiet(s) /\ ~fresh /\ done = 0
    /\ \A s \in Savers : ~At(s, "loaded")

\* Later versions are later Saves, on disk and on the way there; and a version
\* that is on the way is not on disk yet.
OrderInv ==
    /\ \A v \in Whole : files[v] <= serial
    /\ \A v, w \in Whole : v < w => files[v] < files[w]
    /\ \A s \in Savers : At(s, "write") =>
          /\ saver[s].cp.version \notin Whole /\ saver[s].cp.serial \in 1..serial
          /\ \A v \in Whole :
                /\ v < saver[s].cp.version => files[v] < saver[s].cp.serial
                /\ saver[s].cp.version < v => saver[s].cp.serial < files[v]
    /\ \A s, t \in Savers : At(s, "write") /\ At(t, "write") /\ s # t =>
          /\ saver[s].cp.version # saver[t].cp.version
          /\ saver[s].cp.version < saver[t].cp.version => saver[s].cp.serial < saver[t].cp.serial

\* What is in memory is as late as all that is on disk or on the way there.
MemInv ==
    /\ mem.serial <= serial
    /\ ~fresh /\ (\A s \in Savers : ~At(s, "delete")) =>
          \A v \in Whole : v <= mem.version /\ files[v] <= mem.serial
    /\ \A s \in Savers : At(s, "write") =>
          saver[s].cp.version <= mem.version /\ saver[s].cp.serial <= mem.serial
    /\ ~fresh => done <= mem.serial

DoneInv == done > 0 => \E v \in Whole : files[v] >= done

CarefulInv == careful => StageInv /\ OrderInv /\ MemInv /\ DoneInv

\* The operations since the last Save are those counted, up to the limit, and a
\* limit's worth for each goroutine that has reset the count.
UnsavedInv ==
    unsaved <= (IF counter < AutoSaveCount THEN counter ELSE AutoSaveCount - 1)
               + (AutoSaveCount - 1) * Cardinality({s \in Savers : At(s, "save")})

\* A file's name and content make a checkpoint, and files are finitely many.
LEMMA FileFacts ==
    ASSUME CheckpointTypes
    PROVE  /\ \A v \in Versions : v \in Nat /\ v > 0 /\ FileOf(v) \in Checkpoints
           /\ Files \in SUBSET Versions /\ Whole \in SUBSET Versions /\ Versions \in SUBSET Nat
           /\ IsFiniteSet(Files) /\ IsFiniteSet(Whole)
           /\ NoCheckpoint \in Checkpoints
<1> USE CheckpointAssumption DEF Versions
<1>1. \A v \in Versions : v \in Nat /\ v > 0 /\ v <= MaxSaves
  OBVIOUS
<1>2. \A v \in Versions : FileOf(v) \in Checkpoints
  BY <1>1 DEF FileOf, Checkpoints, CheckpointTypes
<1>3. Files \in SUBSET Versions /\ Whole \in SUBSET Versions /\ Versions \in SUBSET Nat
  BY <1>1 DEF Files, Whole
<1>4. IsFiniteSet(Versions)
  BY FS_Interval
<1>5. IsFiniteSet(Files) /\ IsFiniteSet(Whole)
  BY <1>3, <1>4, FS_Subset
<1>6. NoCheckpoint \in Checkpoints
  BY DEF NoCheckpoint, Checkpoints
<1> QED BY <1>1, <1>2, <1>3, <1>5, <1>6

\* LoadAll takes the last whole file, and Load the last by name.
LEMMA LastExists ==
    ASSUME CheckpointTypes
    PROVE  /\ Whole # {} => Max(Whole) \in Whole /\ \A v \in Whole : v <= Max(Whole)
           /\ Files # {} => LastByName \in Files
<1>1. Whole # {} => Max(Whole) \in Whole /\ \A v \in Whole : v <= Max(Whole)
  <2>1. Whole \in SUBSET Nat /\ IsFiniteSet(Whole)
    BY FileFacts
  <2> QED BY <2>1, MaxExists
<1>2. ASSUME Files # {} PROVE LastByName \in Files
  <2> DEFINE weight == [v \in Files |-> NameKey(v)]
  <2>1. weight \in [Files -> Nat]
    <3>1. \A v \in Nat : NameKey(v) \in Nat
      BY DEF NameKey
    <3> QED BY <3>1, FileFacts
  <2>2. PICK v \in Files : \A w \in Files : weight[w] <= weight[v]
    <3> HIDE DEF weight
    <3> QED BY <1>2, <2>1, FileFacts, GreatestExists
  <2>3. \A w \in Files : NameKey(w) <= NameKey(v)
    BY <2>2
  <2> QED BY <2>3 DEF LastByName
<1> QED BY <1>1, <1>2

\* Every step keeps the types.
LEMMA CheckpointTypesNext ==
    ASSUME CheckpointTypes, [CheckpointNext]_checkpointVars PROVE CheckpointTypes'
<1> USE CheckpointAssumption
<1>1. ASSUME NEW s \in Savers, NEW loc \in Places, NEW cp \in Checkpoints, Moved(s, loc, cp),
             loc = "write" => cp.version \in Versions
      PROVE  SaverTypes'
  <2>1. saver' \in [Savers -> [at : Places, cp : Checkpoints]]
    BY <1>1 DEF CheckpointTypes, SaverTypes, Moved
  <2>2. saver'[s] = [at |-> loc, cp |-> cp] /\ \A o \in Savers : o # s => saver'[o] = saver[o]
    BY <1>1 DEF CheckpointTypes, SaverTypes, Moved
  <2> QED BY <1>1, <2>1, <2>2 DEF CheckpointTypes, SaverTypes, At
<1>2. /\ NoCheckpoint \in Checkpoints
      /\ \A s \in Savers : saver' = [saver EXCEPT ![s] = Out] => SaverTypes'
  <2>1. NoCheckpoint \in Checkpoints /\ "out" \in Places /\ "out" # "write"
    BY FileFacts DEF Places
  <2>2. \A s \in Savers : saver' = [saver EXCEPT ![s] = Out] => Moved(s, "out", NoCheckpoint)
    BY DEF Moved, Out
  <2> QED BY <1>1, <2>1, <2>2
<1>3. \A s \in Savers : saver[s].cp \in Checkpoints
  BY DEF CheckpointTypes, SaverTypes
<1>4. ASSUME NEW s \in Savers, SaveBegins(s) PROVE CheckpointTypes'
  <2> DEFINE cp == [version |-> mem.version + 1, serial |-> serial + 1]
  <2>1. cp \in Checkpoints
    <3>1. mem.version \in 0..MaxSaves /\ mem.version < MaxSaves
      BY <1>4 DEF SaveBegins, CheckpointTypes, Checkpoints
    <3>2. mem.version + 1 \in 0..MaxSaves /\ serial + 1 \in Nat
      BY <3>1 DEF CheckpointTypes
    <3> QED BY <3>2 DEF Checkpoints
  <2>2. mem' = cp /\ Moved(s, "write", cp)
    BY <1>4 DEF SaveBegins
  <2>3. cp.version \in Versions
    BY <1>4, <2>1 DEF Checkpoints, Versions, SaveBegins, CheckpointTypes
  <2>4. SaverTypes'
    BY <1>1, <2>1, <2>2, <2>3 DEF Places
  <2> HIDE DEF cp
  <2> QED BY <1>4, <2>1, <2>2, <2>4 DEF SaveBegins, CheckpointTypes
<1>5. ASSUME NEW s \in Savers, SaveWrites(s) \/ SaveFails(s) PROVE CheckpointTypes'
  <2>1. saver' = [saver EXCEPT ![s] = Out]
    BY <1>5 DEF SaveWrites, SaveFails
  <2>2. SaverTypes'
    BY <1>2, <2>1
  <2> DEFINE v == saver[s].cp.version
             n == saver[s].cp.serial
  <2>3. v \in 0..MaxSaves /\ n \in Nat
    BY <1>3 DEF Checkpoints
  <2>4. files' = files \/ files' = [files EXCEPT ![v] = n]
    BY <1>5 DEF SaveWrites, SaveFails
  <2>5. files' \in [Versions -> Nat]
    BY <2>3, <2>4 DEF CheckpointTypes
  <2>6. torn' \subseteq Versions
    <3>1. CASE torn' \subseteq torn
      BY <3>1 DEF CheckpointTypes
    <3>2. CASE torn' = torn \cup {v} /\ SaveFails(s)
      <4>1. v \in Versions
        BY <3>2 DEF SaveFails, CheckpointTypes, SaverTypes
      <4> QED BY <3>2, <4>1 DEF CheckpointTypes
    <3> QED BY <1>5, <3>1, <3>2 DEF SaveWrites, SaveFails
  <2>7. done' \in Nat /\ UNCHANGED <<careful, fresh, mem, counter, serial, unsaved>>
    BY <1>5, <2>3 DEF SaveWrites, SaveFails, CheckpointTypes
  <2> QED BY <2>2, <2>5, <2>6, <2>7 DEF CheckpointTypes
<1>6. ASSUME NEW s \in Savers, AutoSaveCounts(s) \/ AutoSaveResets(s) PROVE CheckpointTypes'
  <2>1. \/ saver' = saver
        \/ \E loc \in {"reset", "save"} : Moved(s, loc, NoCheckpoint)
    BY <1>6 DEF AutoSaveCounts, AutoSaveResets
  <2>2. SaverTypes'
    BY <1>1, <1>2, <2>1 DEF CheckpointTypes, SaverTypes, At, Places
  <2> QED BY <1>6, <2>2 DEF AutoSaveCounts, AutoSaveResets, CheckpointTypes
<1>7. ASSUME NEW s \in Savers, LoadReads(s) PROVE CheckpointTypes'
  <2>1. FileOf(LastByName) \in Checkpoints
    BY <1>7, LastExists, FileFacts DEF LoadReads
  <2>2. SaverTypes'
    BY <1>1, <1>7, <2>1 DEF LoadReads, Places
  <2> QED BY <1>7, <2>2 DEF LoadReads, CheckpointTypes
<1>8. ASSUME NEW s \in Savers, LoadAllReads(s) PROVE CheckpointTypes'
  <2>1. Whole # {} => FileOf(Max(Whole)) \in Checkpoints
    BY LastExists, FileFacts
  <2>2. fresh' \in BOOLEAN /\ UNCHANGED <<careful, mem, counter, files, torn, serial, done, unsaved>>
    BY <1>8 DEF LoadAllReads, CheckpointTypes
  <2>3. CASE Whole = {}
    <3>1. saver' = saver
      BY <1>8, <2>3 DEF LoadAllReads, Whole
    <3> QED BY <2>2, <3>1 DEF CheckpointTypes, SaverTypes, At
  <2>4. CASE Whole # {}
    <3>1. Moved(s, "found", FileOf(Max(Whole)))
      BY <1>8, <2>4 DEF LoadAllReads, Whole
    <3>2. SaverTypes'
      BY <1>1, <2>1, <2>4, <3>1 DEF Places
    <3> QED BY <2>2, <3>2 DEF CheckpointTypes
  <2> QED BY <2>3, <2>4
<1>9. ASSUME NEW s \in Savers, LoadKeeps(s) \/ LoadAllKeeps(s) PROVE CheckpointTypes'
  <2>1. mem' \in Checkpoints
    BY <1>3, <1>9, FileFacts DEF LoadKeeps, LoadAllKeeps, CheckpointTypes, Whole
  <2>2. saver' = [saver EXCEPT ![s] = Out]
    BY <1>9 DEF LoadKeeps, LoadAllKeeps
  <2>3. SaverTypes'
    BY <1>2, <2>2
  <2> QED BY <1>9, <2>1, <2>3 DEF LoadKeeps, LoadAllKeeps, CheckpointTypes
<1>10. ASSUME NEW s \in Savers, DeleteForgets(s) PROVE CheckpointTypes'
  <2>1. SaverTypes'
    BY <1>1, <1>2, <1>10 DEF DeleteForgets, Places
  <2> QED BY <1>2, <1>10, <2>1 DEF DeleteForgets, CheckpointTypes
<1>11. ASSUME NEW s \in Savers, DeleteFiles(s) PROVE CheckpointTypes'
  <2>1. saver' = [saver EXCEPT ![s] = Out] /\ files' = [v \in Versions |-> 0]
    BY <1>11 DEF DeleteFiles
  <2>2. SaverTypes'
    BY <1>2, <2>1
  <2> QED BY <1>11, <2>1, <2>2 DEF DeleteFiles, CheckpointTypes
<1>12. ASSUME NEW s \in Savers, CleanupFiles(s) PROVE CheckpointTypes'
  <2>1. files' \in [Versions -> Nat]
    BY <1>12 DEF CleanupFiles, CheckpointTypes
  <2> QED BY <1>12, <2>1 DEF CleanupFiles, CheckpointTypes, SaverTypes, At
<1>13. CASE Crash
  <2>1. PICK partial \in SUBSET {s \in Savers : At(s, "write")} :
          LET cut == {saver[s].cp.version : s \in partial} IN
          /\ torn' = torn \cup cut
          /\ files' = [v \in Versions |->
                          IF v \in cut
                          THEN Max({saver[s].cp.serial : s \in {p \in partial : saver[p].cp.version = v}})
                          ELSE files[v]]
    BY <1>13 DEF Crash
  <2> DEFINE writers(v) == {p \in partial : saver[p].cp.version = v}
             serials(v) == {saver[s].cp.serial : s \in writers(v)}
             cut == {saver[s].cp.version : s \in partial}
  <2>2. ASSUME NEW v \in cut PROVE Max(serials(v)) \in Nat
    <3> DEFINE f == [s \in writers(v) |-> saver[s].cp.serial]
    <3>1. f \in Surjection(writers(v), serials(v))
      BY DEF Surjection
    <3>2. IsFiniteSet(writers(v))
      <4>1. writers(v) \in SUBSET Savers
        OBVIOUS
      <4> QED BY <4>1, FS_Subset
    <3>3. IsFiniteSet(serials(v))
      <4> HIDE DEF f, serials, writers
      <4> QED BY <3>1, <3>2, FS_Surjection
    <3>4. serials(v) \in SUBSET Nat
      BY <1>3 DEF Checkpoints
    <3>5. serials(v) # {}
      BY <2>2
    <3> HIDE DEF serials
    <3> QED BY <3>3, <3>4, <3>5, MaxExists
  <2>3. files' \in [Versions -> Nat]
    BY <2>1, <2>2 DEF CheckpointTypes
  <2>4. torn' \subseteq Versions
    <3>1. cut \subseteq Versions
      BY DEF CheckpointTypes, SaverTypes
    <3> QED BY <2>1, <3>1 DEF CheckpointTypes
  <2>5. saver' = [s \in Savers |-> [at |-> "out", cp |-> NoCheckpoint]]
    BY <1>13 DEF Crash, Out
  <2>6. SaverTypes'
    BY <1>2, <2>5 DEF SaverTypes, At, Places
  <2> QED BY <1>2, <1>13, <2>3, <2>4, <2>6 DEF Crash, CheckpointTypes
<1>14. CASE UNCHANGED checkpointVars
  BY <1>14 DEF checkpointVars, CheckpointTypes, SaverTypes, At
<1> QED
  BY <1>4, <1>5, <1>6, <1>7, <1>8, <1>9, <1>10, <1>11, <1>12, <1>13, <1>14 DEF CheckpointNext

\* All that is compared are numbers.
LEMMA Numbers ==
    ASSUME CheckpointTypes
    PROVE  /\ \A s \in Savers : saver[s].cp.version \in Nat /\ saver[s].cp.serial \in Nat
           /\ \A v \in Versions : v \in Nat /\ files[v] \in Nat
           /\ \A v \in Whole : v \in Versions /\ v \in Nat /\ v > 0 /\ files[v] \in Nat
           /\ mem.version \in Nat /\ mem.serial \in Nat /\ serial \in Nat /\ done \in Nat
<1>1. \A s \in Savers : saver[s].cp \in Checkpoints
  BY DEF CheckpointTypes, SaverTypes
<1>2. \A c \in Checkpoints : c.version \in Nat /\ c.serial \in Nat
  BY DEF Checkpoints
<1> QED BY <1>1, <1>2, FileFacts DEF CheckpointTypes

\* One goroutine moves; the others stay where they are.
LEMMA MovedFacts ==
    ASSUME CheckpointTypes, NEW s \in Savers, NEW loc, NEW cp,
           Moved(s, loc, cp) \/ (loc = "out" /\ cp = NoCheckpoint /\ saver' = [saver EXCEPT ![s] = Out])
    PROVE  /\ saver'[s].at = loc /\ saver'[s].cp = cp
           /\ \A o \in Savers : o # s => saver'[o] = saver[o]
BY DEF CheckpointTypes, SaverTypes, Moved, Out

\* In a careful program whoever uses the manager knows that LoadAll is over, and
\* that nobody is deleting.
Busy == ~fresh /\ \A s \in Savers : At(s, "delete") = FALSE /\ At(s, "found") = FALSE

LEMMA BusyWhenUsed ==
    ASSUME careful, StageInv, NEW s \in Savers,
           Free(s) \/ At(s, "write") \/ At(s, "save") \/ At(s, "reset")
    PROVE  Busy
<1>1. ~fresh /\ \A o \in Savers : ~At(o, "delete")
  <2>1. CASE Free(s)
    BY <2>1 DEF Free
  <2>2. CASE At(s, "write") \/ At(s, "save") \/ At(s, "reset")
    <3>1. ~At(s, "out") /\ ~At(s, "found") /\ ~At(s, "delete")
      BY <2>2 DEF At
    <3> QED BY <3>1 DEF StageInv, Quiet
  <2> QED BY <2>1, <2>2
<1>2. \A o \in Savers : ~At(o, "found")
  BY <1>1 DEF StageInv
<1> QED BY <1>1, <1>2 DEF Busy, At

Kept == StageInv /\ OrderInv /\ MemInv /\ DoneInv

\* AutoSave decides: nothing that was saved is touched.
LEMMA CarefulAutoSave ==
    ASSUME careful, CheckpointTypes, Kept, NEW s \in Savers,
           AutoSaveCounts(s) \/ AutoSaveResets(s)
    PROVE  Kept'
<1>1. Busy
  BY BusyWhenUsed DEF AutoSaveCounts, AutoSaveResets, Kept
<1>2. UNCHANGED <<fresh, mem, files, torn, serial, done>>
  BY DEF AutoSaveCounts, AutoSaveResets
<1>3. \/ saver' = saver
      \/ \E loc \in {"reset", "save"} : Moved(s, loc, NoCheckpoint)
  BY DEF AutoSaveCounts, AutoSaveResets
<1>4. \A o \in Savers : saver'[o] = saver[o] \/ saver'[o].at \in {"reset", "save"}
  BY <1>3, MovedFacts
<1>5. Whole' = Whole
  BY <1>2 DEF Whole, Files
<1>6. \A o \in Savers : ~At(o, "delete")' /\ ~At(o, "found")' /\ ~At(o, "loaded")'
  BY <1>1, <1>4 DEF Busy, At, Kept, StageInv
<1>7. \A o \in Savers : At(o, "write")' => At(o, "write") /\ saver'[o] = saver[o]
  BY <1>4 DEF At
<1>8. StageInv'
  BY <1>1, <1>2, <1>6 DEF Busy, StageInv
<1>9. OrderInv'
  BY <1>2, <1>5, <1>7 DEF Kept, OrderInv
<1>10. MemInv'
  BY <1>1, <1>2, <1>5, <1>7 DEF Kept, MemInv, Busy
<1>11. DoneInv'
  BY <1>2, <1>5 DEF Kept, DoneInv
<1> QED BY <1>8, <1>9, <1>10, <1>11 DEF Kept

\* A Save takes the next version and the next serial.
LEMMA CarefulSaveBegins ==
    ASSUME careful, CheckpointTypes, Kept, NEW s \in Savers, SaveBegins(s)
    PROVE  Kept'
<1> USE DEF Kept
<1> DEFINE cp == [version |-> mem.version + 1, serial |-> serial + 1]
<1>1. Busy
  BY BusyWhenUsed DEF SaveBegins
<1>2. mem' = cp /\ serial' = serial + 1 /\ UNCHANGED <<fresh, files, torn, done>>
  BY DEF SaveBegins
<1>3. saver'[s].at = "write" /\ saver'[s].cp = cp /\ \A o \in Savers : o # s => saver'[o] = saver[o]
  BY MovedFacts DEF SaveBegins
<1>4. Whole' = Whole
  BY <1>2 DEF Whole, Files
<1>5. \A o \in Savers : ~At(o, "delete")' /\ ~At(o, "found")' /\ ~At(o, "loaded")'
  BY <1>1, <1>3 DEF Busy, At, StageInv
<1>6. StageInv'
  BY <1>1, <1>2, <1>5 DEF Busy, StageInv
<1>7. cp.version = mem.version + 1 /\ cp.serial = serial + 1
  OBVIOUS
<1> HIDE DEF cp
<1>8. \A v \in Whole : v < cp.version /\ files[v] < cp.serial
  <2>1. \A v \in Whole : v <= mem.version /\ files[v] <= serial
    BY <1>1 DEF Busy, MemInv, OrderInv
  <2> QED BY <1>7, <2>1, Numbers
<1>9. \A o \in Savers : At(o, "write") =>
         saver[o].cp.version < cp.version /\ saver[o].cp.serial < cp.serial
  <2>1. \A o \in Savers : At(o, "write") =>
           saver[o].cp.version <= mem.version /\ saver[o].cp.serial <= mem.serial
    BY DEF MemInv
  <2>2. mem.serial <= serial
    BY DEF MemInv
  <2> QED BY <1>7, <2>1, <2>2, Numbers
<1>10. \A o \in Savers : o # s => (At(o, "write")' <=> At(o, "write"))
  BY <1>3 DEF At
<1>11. OrderInv'
  <2>1. \A v \in Whole : files[v] <= serial + 1
    BY Numbers DEF OrderInv
  <2>2. \A v, w \in Whole : v < w => files[v] < files[w]
    BY DEF OrderInv
  <2>3. ASSUME NEW o \in Savers, At(o, "write")'
        PROVE  /\ saver'[o].cp.version \notin Whole /\ saver'[o].cp.serial \in 1..(serial + 1)
               /\ \A v \in Whole :
                     /\ v < saver'[o].cp.version => files[v] < saver'[o].cp.serial
                     /\ saver'[o].cp.version < v => saver'[o].cp.serial < files[v]
    <3>1. CASE o = s
      <4>1. cp.version \notin Whole /\ cp.serial \in 1..(serial + 1)
        BY <1>7, <1>8, Numbers
      <4>2. \A v \in Whole : ~(cp.version < v)
        BY <1>7, <1>8, Numbers
      <4> QED BY <1>3, <1>8, <3>1, <4>1, <4>2
    <3>2. CASE o # s
      <4>1. At(o, "write") /\ saver'[o] = saver[o]
        BY <1>3, <1>10, <2>3, <3>2
      <4>2. saver[o].cp.serial \in 1..serial
        BY <4>1 DEF OrderInv
      <4>3. saver[o].cp.serial \in 1..(serial + 1)
        BY <4>2, Numbers
      <4> QED BY <4>1, <4>3 DEF OrderInv
    <3> QED BY <3>1, <3>2
  <2>4. ASSUME NEW o \in Savers, NEW t \in Savers, At(o, "write")', At(t, "write")', o # t
        PROVE  /\ saver'[o].cp.version # saver'[t].cp.version
               /\ saver'[o].cp.version < saver'[t].cp.version
                  => saver'[o].cp.serial < saver'[t].cp.serial
    <3>1. CASE o = s
      <4>1. saver'[t] = saver[t] /\ At(t, "write")
        BY <1>3, <1>10, <2>4, <3>1
      <4> QED BY <1>3, <1>7, <1>9, <3>1, <4>1, Numbers
    <3>2. CASE t = s
      <4>1. saver'[o] = saver[o] /\ At(o, "write")
        BY <1>3, <1>10, <2>4, <3>2
      <4> QED BY <1>3, <1>7, <1>9, <3>2, <4>1, Numbers
    <3>3. CASE o # s /\ t # s
      BY <1>3, <1>10, <2>4, <3>3 DEF OrderInv
    <3> QED BY <3>1, <3>2, <3>3
  <2> QED BY <1>2, <1>4, <2>1, <2>2, <2>3, <2>4 DEF OrderInv
<1>12. MemInv'
  <2>1. mem'.version = mem.version + 1 /\ mem'.serial = serial + 1
    BY <1>2, <1>7
  <2>2. \A v \in Whole : v <= mem'.version /\ files[v] <= mem'.serial
    BY <1>2, <1>7, <1>8, Numbers
  <2>3. ASSUME NEW o \in Savers, At(o, "write")'
        PROVE  saver'[o].cp.version <= mem'.version /\ saver'[o].cp.serial <= mem'.serial
    <3>1. CASE o = s
      BY <1>2, <1>3, <1>7, <3>1, Numbers
    <3>2. CASE o # s
      BY <1>2, <1>3, <1>7, <1>9, <1>10, <2>3, <3>2, Numbers
    <3> QED BY <3>1, <3>2
  <2>4. done <= mem'.serial
    <3>1. done <= mem.serial /\ mem.serial <= serial
      BY <1>1 DEF Busy, MemInv
    <3> QED BY <2>1, <3>1, Numbers
  <2>5. mem'.serial <= serial'
    BY <1>2, <2>1, Numbers
  <2> QED BY <1>2, <1>4, <2>2, <2>3, <2>4, <2>5 DEF MemInv
<1>13. DoneInv'
  BY <1>2, <1>4 DEF DoneInv
<1> QED BY <1>6, <1>11, <1>12, <1>13

\* A version that was on its way is on disk, between the earlier and the later.
LEMMA CarefulSaveWrites ==
    ASSUME careful, CheckpointTypes, Kept, NEW s \in Savers, SaveWrites(s)
    PROVE  Kept'
<1> USE DEF Kept
<1> DEFINE v == saver[s].cp.version
           n == saver[s].cp.serial
<1>1. Busy /\ At(s, "write")
  BY BusyWhenUsed DEF SaveWrites
<1>2. /\ files' = [files EXCEPT ![v] = n] /\ torn' = torn \ {v}
      /\ done' = IF n > done THEN n ELSE done
      /\ UNCHANGED <<fresh, mem, serial>>
  BY DEF SaveWrites
<1>3. saver'[s].at = "out" /\ \A o \in Savers : o # s => saver'[o] = saver[o]
  BY MovedFacts DEF SaveWrites
<1>4. v \in Versions /\ v \notin Whole /\ n \in 1..serial
  BY <1>1 DEF CheckpointTypes, SaverTypes, OrderInv
<1>5. files'[v] = n /\ \A w \in Versions : w # v => files'[w] = files[w]
  BY <1>2, <1>4 DEF CheckpointTypes
<1>6. Whole' = Whole \cup {v}
  <2>1. n # 0
    BY <1>4
  <2> QED BY <1>2, <1>4, <1>5, <2>1 DEF Whole, Files
<1>7. \A w \in Whole : w # v /\ files'[w] = files[w]
  BY <1>4, <1>5, Numbers
<1>8. \A o \in Savers : At(o, "write")' => o # s /\ At(o, "write") /\ saver'[o] = saver[o]
  BY <1>3 DEF At
<1>9. \A o \in Savers : ~At(o, "delete")' /\ ~At(o, "found")' /\ ~At(o, "loaded")'
  BY <1>1, <1>3 DEF Busy, At, StageInv
<1>10. StageInv'
  BY <1>1, <1>2, <1>9 DEF Busy, StageInv
<1>11. OrderInv'
  <2>1. \A w \in Whole' : files'[w] <= serial
    BY <1>4, <1>5, <1>6, <1>7 DEF OrderInv
  <2>2. ASSUME NEW w \in Whole', NEW x \in Whole', w < x PROVE files'[w] < files'[x]
    <3>1. CASE w = v
      BY <1>1, <1>4, <1>5, <1>6, <1>7, <2>2, <3>1, Numbers DEF OrderInv
    <3>2. CASE x = v
      BY <1>1, <1>4, <1>5, <1>6, <1>7, <2>2, <3>2, Numbers DEF OrderInv
    <3>3. CASE w # v /\ x # v
      BY <1>6, <1>7, <2>2, <3>3 DEF OrderInv
    <3> QED BY <3>1, <3>2, <3>3
  <2>3. ASSUME NEW o \in Savers, At(o, "write")'
        PROVE  /\ saver'[o].cp.version \notin Whole' /\ saver'[o].cp.serial \in 1..serial
               /\ \A w \in Whole' :
                     /\ w < saver'[o].cp.version => files'[w] < saver'[o].cp.serial
                     /\ saver'[o].cp.version < w => saver'[o].cp.serial < files'[w]
    <3>1. o # s /\ At(o, "write") /\ saver'[o] = saver[o]
      BY <1>8, <2>3
    <3>2. saver[o].cp.version # v
      BY <1>1, <3>1 DEF OrderInv
    <3>3. /\ v < saver[o].cp.version => n < saver[o].cp.serial
          /\ saver[o].cp.version < v => saver[o].cp.serial < n
      BY <1>1, <3>1 DEF OrderInv
    <3>4. /\ saver[o].cp.version \notin Whole /\ saver[o].cp.serial \in 1..serial
          /\ \A w \in Whole :
                /\ w < saver[o].cp.version => files[w] < saver[o].cp.serial
                /\ saver[o].cp.version < w => saver[o].cp.serial < files[w]
      BY <3>1 DEF OrderInv
    <3> HIDE DEF v, n
    <3> QED BY <1>5, <1>6, <1>7, <3>1, <3>2, <3>3, <3>4
  <2>4. \A o, t \in Savers : At(o, "write")' /\ At(t, "write")' /\ o # t =>
           /\ saver'[o].cp.version # saver'[t].cp.version
           /\ saver'[o].cp.version < saver'[t].cp.version
              => saver'[o].cp.serial < saver'[t].cp.serial
    BY <1>8 DEF OrderInv
  <2> QED BY <1>2, <2>1, <2>2, <2>3, <2>4 DEF OrderInv
<1>12. v <= mem.version /\ n <= mem.serial
  BY <1>1 DEF MemInv
<1>13. MemInv'
  <2>1. \A w \in Whole' : w <= mem.version /\ files'[w] <= mem.serial
    BY <1>1, <1>5, <1>6, <1>7, <1>12 DEF MemInv, Busy
  <2>2. done' <= mem.serial
    BY <1>1, <1>2, <1>12 DEF MemInv, Busy
  <2>3. \A o \in Savers : At(o, "write")' =>
           saver'[o].cp.version <= mem.version /\ saver'[o].cp.serial <= mem.serial
    BY <1>8 DEF MemInv
  <2>4. mem.serial <= serial
    BY DEF MemInv
  <2> QED BY <1>2, <2>1, <2>2, <2>3, <2>4 DEF MemInv
<1>14. DoneInv'
  <2>1. CASE n > done
    BY <1>2, <1>4, <1>5, <1>6, <2>1, Numbers DEF DoneInv
  <2>2. CASE ~(n > done)
    BY <1>2, <1>6, <1>7, <2>2 DEF DoneInv
  <2> QED BY <2>1, <2>2
<1> QED BY <1>10, <1>11, <1>13, <1>14

\* Fewer whole files, and fewer on the way, are in order as well.
LEMMA FewerInOrder ==
    ASSUME OrderInv, Whole' \subseteq Whole, serial' = serial,
           \A v \in Whole' : files'[v] = files[v],
           \A o \in Savers : At(o, "write")' => At(o, "write") /\ saver'[o] = saver[o]
    PROVE  OrderInv'
<1>1. \A v \in Whole' : v \in Whole /\ files'[v] = files[v]
  OBVIOUS
<1>2. \A v \in Whole' : files'[v] <= serial'
  BY <1>1 DEF OrderInv
<1>3. \A v, w \in Whole' : v < w => files'[v] < files'[w]
  BY <1>1 DEF OrderInv
<1>4. ASSUME NEW s \in Savers, At(s, "write")'
      PROVE  /\ saver'[s].cp.version \notin Whole' /\ saver'[s].cp.serial \in 1..serial'
             /\ \A v \in Whole' :
                   /\ v < saver'[s].cp.version => files'[v] < saver'[s].cp.serial
                   /\ saver'[s].cp.version < v => saver'[s].cp.serial < files'[v]
  <2>1. At(s, "write") /\ saver'[s] = saver[s]
    BY <1>4
  <2> QED BY <1>1, <2>1 DEF OrderInv
<1>5. \A s, t \in Savers : At(s, "write")' /\ At(t, "write")' /\ s # t =>
         /\ saver'[s].cp.version # saver'[t].cp.version
         /\ saver'[s].cp.version < saver'[t].cp.version => saver'[s].cp.serial < saver'[t].cp.serial
  BY DEF OrderInv
<1> QED BY <1>2, <1>3, <1>4, <1>5 DEF OrderInv

\* The file of a Save that fails is torn, or as it was: it counts for nothing.
LEMMA CarefulSaveFails ==
    ASSUME careful, CheckpointTypes, Kept, NEW s \in Savers, SaveFails(s)
    PROVE  Kept'
<1> USE DEF Kept
<1> DEFINE v == saver[s].cp.version
<1>1. Busy /\ At(s, "write")
  BY BusyWhenUsed DEF SaveFails
<1>2. UNCHANGED <<fresh, mem, serial, done>>
  BY DEF SaveFails
<1>3. saver'[s].at = "out" /\ \A o \in Savers : o # s => saver'[o] = saver[o]
  BY MovedFacts DEF SaveFails
<1>4. v \in Versions /\ v \notin Whole
  BY <1>1 DEF CheckpointTypes, SaverTypes, OrderInv
<1>5. \A w \in Versions : w # v => files'[w] = files[w] /\ (w \in torn' <=> w \in torn)
  BY <1>4 DEF SaveFails, CheckpointTypes
<1>6. v \notin Whole'
  <2>1. CASE UNCHANGED <<files, torn>>
    BY <1>4, <2>1 DEF Whole, Files
  <2>2. CASE torn' = torn \cup {v}
    BY <2>2 DEF Whole
  <2> QED BY <2>1, <2>2 DEF SaveFails
<1>7. Whole' = Whole
  <2> HIDE DEF v
  <2> QED BY <1>4, <1>5, <1>6 DEF Whole, Files
<1>8. \A w \in Whole : files'[w] = files[w]
  BY <1>4, <1>5, Numbers
<1>9. \A o \in Savers : At(o, "write")' => At(o, "write") /\ saver'[o] = saver[o]
  BY <1>3 DEF At
<1>10. \A o \in Savers : ~At(o, "delete")' /\ ~At(o, "found")' /\ ~At(o, "loaded")'
  BY <1>1, <1>3 DEF Busy, At, StageInv
<1> HIDE DEF v
<1>11. StageInv'
  BY <1>1, <1>2, <1>10 DEF Busy, StageInv
<1>12. OrderInv'
  BY <1>2, <1>7, <1>8, <1>9, FewerInOrder
<1>13. MemInv'
  BY <1>1, <1>2, <1>7, <1>8, <1>9 DEF Busy, MemInv
<1>14. DoneInv'
  BY <1>2, <1>7, <1>8 DEF DoneInv
<1> QED BY <1>11, <1>12, <1>13, <1>14

\* A careful program's Load finds the checkpoint in memory, or no file.
LEMMA CarefulNeverReads ==
    ASSUME careful, CheckpointTypes, Kept, NEW s \in Savers, LoadReads(s) \/ LoadKeeps(s)
    PROVE  FALSE
<1>1. CASE LoadKeeps(s)
  BY <1>1 DEF LoadKeeps, Kept, StageInv
<1>2. CASE LoadReads(s)
  <2>1. Busy /\ mem = NoCheckpoint
    BY <1>2, BusyWhenUsed DEF LoadReads, Kept
  <2>2. LastByName \in Whole
    BY <1>2, LastExists DEF LoadReads, Whole
  <2>3. LastByName <= 0
    BY <2>1, <2>2 DEF Kept, MemInv, Busy, NoCheckpoint
  <2> QED BY <2>2, <2>3, Numbers
<1> QED BY <1>1, <1>2

\* LoadAll finds nothing, and nothing had been saved; or the last whole file.
LEMMA CarefulLoadAllReads ==
    ASSUME careful, CheckpointTypes, Kept, NEW s \in Savers, LoadAllReads(s)
    PROVE  Kept'
<1> USE DEF Kept
<1>1. fresh /\ Quiet(s) /\ At(s, "out") /\ mem = NoCheckpoint
  BY DEF LoadAllReads, StageInv
<1>2. UNCHANGED <<mem, files, torn, serial, done>>
  BY DEF LoadAllReads
<1>3. Whole' = Whole
  BY <1>2 DEF Whole, Files
<1>4. \A o \in Savers : At(o, "out")
  BY <1>1 DEF Quiet
<1>5. \A o \in Savers : o # s => saver'[o] = saver[o] /\ At(o, "out")'
  <2>1. \A o \in Savers : o # s => saver'[o] = saver[o]
    BY MovedFacts DEF LoadAllReads
  <2> QED BY <1>4, <2>1 DEF At
<1>6. CASE Whole = {}
  <2>1. fresh' = FALSE /\ saver' = saver
    BY <1>6 DEF LoadAllReads, Whole
  <2>2. \A o \in Savers : At(o, "out")'
    BY <1>4, <2>1 DEF At
  <2>3. done = 0
    BY <1>6, Numbers DEF DoneInv
  <2>4. StageInv'
    BY <2>1, <2>2 DEF StageInv, At
  <2>5. OrderInv'
    BY <1>2, <1>3, <2>2, FewerInOrder DEF At
  <2>6. MemInv'
    <3>1. mem.serial <= serial /\ done <= mem.serial
      BY <2>3, Numbers DEF MemInv
    <3> QED BY <1>2, <1>3, <1>6, <2>2, <3>1 DEF MemInv, At
  <2> QED BY <1>2, <1>3, <2>4, <2>5, <2>6 DEF DoneInv
<1>7. CASE Whole # {}
  <2> DEFINE v == Max(Whole)
  <2>1. fresh' = fresh /\ Moved(s, "found", FileOf(v))
    BY <1>7 DEF LoadAllReads, Whole
  <2>2. saver'[s].at = "found" /\ saver'[s].cp.version = v
    BY <2>1, MovedFacts DEF FileOf
  <2>3. v \in Whole /\ \A w \in Whole : w <= v
    BY <1>7, LastExists
  <2>4. Quiet(s)' /\ \A o \in Savers : o # s => ~At(o, "found")'
    BY <1>5 DEF Quiet, At
  <2> HIDE DEF v
  <2>5. StageInv'
    <3>1. \A o \in Savers : o # s => At(o, "out")' /\ ~At(o, "found")' /\ ~At(o, "delete")' /\ ~At(o, "loaded")'
      BY <1>5 DEF At
    <3>2. At(s, "found")' /\ ~At(s, "delete")' /\ ~At(s, "loaded")'
      BY <2>2 DEF At
    <3>3. fresh' /\ mem' = NoCheckpoint
      BY <1>1, <1>2, <2>1
    <3>4. saver'[s].cp.version \in Whole' /\ \A w \in Whole' : w <= saver'[s].cp.version
      BY <1>3, <2>2, <2>3
    <3> QED BY <2>4, <3>1, <3>2, <3>3, <3>4 DEF StageInv
  <2>6. \A o \in Savers : ~At(o, "write")'
    BY <1>5, <2>2 DEF At
  <2>7. OrderInv'
    BY <1>2, <1>3, <2>6, FewerInOrder
  <2>8. MemInv'
    BY <1>1, <1>2, <1>3, <2>1, <2>6 DEF MemInv
  <2> QED BY <1>2, <1>3, <2>5, <2>7, <2>8 DEF DoneInv
<1> QED BY <1>6, <1>7

\* LoadAll keeps the last whole file: the latest of what had been saved.
LEMMA CarefulLoadAllKeeps ==
    ASSUME careful, CheckpointTypes, Kept, NEW s \in Savers, LoadAllKeeps(s)
    PROVE  Kept'
<1> USE DEF Kept
<1> DEFINE v == saver[s].cp.version
<1>1. /\ fresh /\ Quiet(s) /\ At(s, "found")
      /\ v \in Whole /\ \A w \in Whole : w <= v
  BY DEF LoadAllKeeps, StageInv
<1>2. /\ mem' = FileOf(v) /\ fresh' = FALSE
      /\ UNCHANGED <<files, torn, serial, done>>
  BY <1>1 DEF LoadAllKeeps, Whole
<1>3. \A o \in Savers : At(o, "out")'
  <2>1. saver'[s].at = "out" /\ \A o \in Savers : o # s => saver'[o] = saver[o]
    BY MovedFacts DEF LoadAllKeeps
  <2> QED BY <1>1, <2>1 DEF Quiet, At
<1>4. Whole' = Whole
  BY <1>2 DEF Whole, Files
<1>5. mem'.version = v /\ mem'.serial = files[v]
  BY <1>2 DEF FileOf
<1> HIDE DEF v
<1>6. \A w \in Whole : w <= v /\ files[w] <= files[v]
  <2>1. ASSUME NEW w \in Whole PROVE files[w] <= files[v]
    <3>1. CASE w = v
      BY <3>1, <2>1, Numbers
    <3>2. CASE w # v
      <4>1. w < v
        BY <1>1, <2>1, <3>2, Numbers
      <4>2. files[w] < files[v]
        BY <1>1, <2>1, <4>1 DEF OrderInv
      <4> QED BY <1>1, <2>1, <4>2, Numbers
    <3> QED BY <3>1, <3>2
  <2> QED BY <1>1, <2>1
<1>7. done <= files[v]
  <2>1. CASE done > 0
    <3>1. PICK w \in Whole : files[w] >= done
      BY <2>1 DEF DoneInv
    <3> QED BY <1>1, <1>6, <3>1, Numbers
  <2>2. CASE ~(done > 0)
    BY <1>1, <2>2, Numbers
  <2> QED BY <2>1, <2>2
<1>8. StageInv'
  BY <1>2, <1>3 DEF StageInv, At
<1>9. OrderInv'
  BY <1>2, <1>3, <1>4, FewerInOrder DEF At
<1>10. MemInv'
  <2>1. files[v] <= serial
    BY <1>1 DEF OrderInv
  <2> QED BY <1>2, <1>3, <1>4, <1>5, <1>6, <1>7, <2>1 DEF MemInv, At
<1>11. DoneInv'
  BY <1>2, <1>4 DEF DoneInv
<1> QED BY <1>8, <1>9, <1>10, <1>11

\* A careful program forgets the task while nobody else uses the manager.
LEMMA CarefulDeleteForgets ==
    ASSUME careful, CheckpointTypes, Kept, NEW s \in Savers, DeleteForgets(s)
    PROVE  Kept'
<1> USE DEF Kept
<1>1. Busy /\ Quiet(s)
  BY BusyWhenUsed DEF DeleteForgets
<1>2. mem' = NoCheckpoint /\ done' = 0 /\ UNCHANGED <<fresh, files, torn, serial>>
  BY DEF DeleteForgets
<1>3. saver'[s].at = "delete" /\ \A o \in Savers : o # s => saver'[o] = saver[o]
  BY MovedFacts DEF DeleteForgets
<1>4. \A o \in Savers : o # s => At(o, "out")'
  BY <1>1, <1>3 DEF Quiet, At
<1>5. Whole' = Whole
  BY <1>2 DEF Whole, Files
<1>6. At(s, "delete")' /\ \A o \in Savers : ~At(o, "write")' /\ ~At(o, "found")' /\ ~At(o, "loaded")'
  BY <1>3, <1>4 DEF At
<1>7. \A o \in Savers : o # s => ~At(o, "delete")'
  BY <1>4 DEF At
<1>8. StageInv'
  BY <1>1, <1>2, <1>4, <1>6, <1>7 DEF Busy, StageInv, Quiet
<1>9. OrderInv'
  BY <1>2, <1>5, <1>6, FewerInOrder
<1>10. MemInv'
  <2>1. mem'.serial = 0 /\ 0 <= serial /\ done' <= 0
    BY <1>2, Numbers DEF NoCheckpoint
  <2> QED BY <1>2, <1>6, <2>1 DEF MemInv
<1>11. DoneInv'
  BY <1>2 DEF DoneInv
<1> QED BY <1>8, <1>9, <1>10, <1>11

\* Then its files go.
LEMMA CarefulDeleteFiles ==
    ASSUME careful, CheckpointTypes, Kept, NEW s \in Savers, DeleteFiles(s)
    PROVE  Kept'
<1> USE DEF Kept
<1>1. At(s, "delete") /\ Quiet(s) /\ ~fresh /\ done = 0
  BY DEF DeleteFiles, StageInv
<1>2. files' = [v \in Versions |-> 0] /\ UNCHANGED <<fresh, mem, serial, done>>
  BY DEF DeleteFiles
<1>3. \A o \in Savers : At(o, "out")'
  <2>1. saver'[s].at = "out" /\ \A o \in Savers : o # s => saver'[o] = saver[o]
    BY MovedFacts DEF DeleteFiles
  <2> QED BY <1>1, <2>1 DEF Quiet, At
<1>4. Whole' = {}
  BY <1>2 DEF Whole, Files
<1>5. StageInv'
  BY <1>1, <1>2, <1>3 DEF StageInv, At
<1>6. OrderInv'
  BY <1>2, <1>3, <1>4, FewerInOrder DEF At
<1>7. MemInv'
  <2>1. mem.serial <= serial /\ done <= mem.serial
    BY <1>1, Numbers DEF MemInv
  <2> QED BY <1>2, <1>3, <1>4, <2>1 DEF MemInv, At
<1>8. DoneInv'
  BY <1>1, <1>2 DEF DoneInv
<1> QED BY <1>5, <1>6, <1>7, <1>8

\* Cleanup takes the earlier files first, and the latest last.
LEMMA CarefulCleanup ==
    ASSUME careful, CheckpointTypes, Kept, NEW s \in Savers, CleanupFiles(s)
    PROVE  Kept'
<1> USE DEF Kept
<1>1. Busy
  BY BusyWhenUsed DEF CleanupFiles
<1>2. UNCHANGED <<fresh, mem, saver, serial>>
  BY DEF CleanupFiles
<1>3. PICK cutoff \in 1..serial :
         /\ files' = [v \in Versions |-> IF files[v] <= cutoff THEN 0 ELSE files[v]]
         /\ torn' = {v \in torn : files[v] > cutoff}
         /\ done' = IF done > cutoff THEN done ELSE 0
  BY DEF CleanupFiles
<1>4. \A v \in Versions : files'[v] = IF files[v] <= cutoff THEN 0 ELSE files[v]
  BY <1>3
<1>5. cutoff \in Nat
  BY <1>3
<1>6. \A v \in Versions : (files'[v] # 0 <=> files[v] > cutoff) /\ (files[v] > cutoff => files[v] # 0)
  BY <1>4, <1>5, Numbers
<1>7. Whole' = {v \in Whole : files[v] > cutoff}
  <2>1. Versions' = Versions
    BY DEF Versions
  <2>2. \A v \in Versions : v \in torn' <=> v \in torn /\ files[v] > cutoff
    BY <1>3
  <2>3. Whole' = {v \in Versions : files'[v] # 0 /\ v \notin torn'}
    BY <2>1 DEF Whole, Files
  <2>4. Whole = {v \in Versions : files[v] # 0 /\ v \notin torn}
    BY DEF Whole, Files
  <2> QED BY <1>6, <2>2, <2>3, <2>4
<1>8. \A v \in Whole' : v \in Whole /\ files'[v] = files[v]
  BY <1>4, <1>5, <1>7, Numbers
<1>9. \A o \in Savers, loc \in Places : At(o, loc)' = At(o, loc)
  BY <1>2 DEF At
<1>10. done' <= done
  BY <1>3, <1>5, Numbers
<1>11. StageInv'
  <2>1. \A o \in Savers : ~At(o, "delete")' /\ ~At(o, "found")' /\ ~At(o, "loaded")'
    BY <1>1, <1>9 DEF Busy, StageInv, Places
  <2> QED BY <1>1, <1>2, <2>1 DEF Busy, StageInv
<1>12. OrderInv'
  BY <1>2, <1>8, FewerInOrder DEF At
<1>13. MemInv'
  <2>1. done' <= mem.serial
    BY <1>1, <1>3, <1>5, <1>10, Numbers DEF Busy, MemInv
  <2>2. \A o \in Savers : At(o, "write")' => saver'[o].cp.version <= mem'.version
                                           /\ saver'[o].cp.serial <= mem'.serial
    BY <1>2 DEF MemInv, At
  <2>3. \A v \in Whole' : v <= mem'.version /\ files'[v] <= mem'.serial
    BY <1>1, <1>2, <1>8 DEF Busy, MemInv
  <2>4. mem'.serial <= serial'
    BY <1>2 DEF MemInv
  <2> QED BY <1>2, <2>1, <2>2, <2>3, <2>4 DEF MemInv
<1>14. DoneInv'
  <2>1. CASE done > cutoff
    <3>1. PICK v \in Whole : files[v] >= done
      BY <1>5, <2>1, Numbers DEF DoneInv
    <3>2. v \in Whole'
      BY <1>5, <1>7, <2>1, <3>1, Numbers
    <3> QED BY <1>3, <1>8, <2>1, <3>1, <3>2 DEF DoneInv
  <2>2. CASE ~(done > cutoff)
    BY <1>3, <2>2 DEF DoneInv
  <2> QED BY <2>1, <2>2
<1> QED BY <1>11, <1>12, <1>13, <1>14

\* A crash tears only files that were not whole.
LEMMA CarefulCrash ==
    ASSUME careful, CheckpointTypes, Kept, Crash
    PROVE  Kept'
<1> USE DEF Kept
<1>1. /\ mem' = NoCheckpoint /\ fresh' = careful /\ saver' = [s \in Savers |-> Out]
      /\ UNCHANGED <<serial, done>>
  BY DEF Crash
<1>2. \A o \in Savers : At(o, "out")'
  BY <1>1 DEF At, Out
<1>3. PICK cut \in SUBSET Versions :
         /\ \A v \in cut : v \notin Whole
         /\ torn' = torn \cup cut
         /\ \A v \in Versions : v \notin cut => files'[v] = files[v]
  <2>1. PICK partial \in SUBSET {s \in Savers : At(s, "write")} :
          /\ torn' = torn \cup {saver[s].cp.version : s \in partial}
          /\ \A v \in Versions : v \notin {saver[s].cp.version : s \in partial} => files'[v] = files[v]
    BY DEF Crash
  <2>2. \A s \in partial : saver[s].cp.version \in Versions /\ saver[s].cp.version \notin Whole
    BY DEF CheckpointTypes, SaverTypes, OrderInv
  <2>3. {saver[s].cp.version : s \in partial} \in SUBSET Versions
    BY <2>2
  <2> QED BY <2>1, <2>2, <2>3
<1>4. Whole' = Whole
  <2>1. Whole' = {v \in Versions : files'[v] # 0 /\ v \notin torn'}
    BY DEF Whole, Files, Versions
  <2>2. Whole = {v \in Versions : files[v] # 0 /\ v \notin torn}
    BY DEF Whole, Files
  <2>3. \A v \in Versions : (files'[v] # 0 /\ v \notin torn') <=> (files[v] # 0 /\ v \notin torn)
    BY <1>3, <2>2
  <2> QED BY <2>1, <2>2, <2>3
<1>5. \A v \in Whole : files'[v] = files[v]
  BY <1>3, Numbers
<1>6. StageInv'
  BY <1>1, <1>2 DEF StageInv, At
<1>7. OrderInv'
  BY <1>1, <1>2, <1>4, <1>5, FewerInOrder DEF At
<1>8. MemInv'
  <2>1. mem'.serial = 0 /\ 0 <= serial
    BY <1>1, Numbers DEF NoCheckpoint
  <2> QED BY <1>1, <1>2, <2>1 DEF MemInv, At
<1>9. DoneInv'
  BY <1>1, <1>4, <1>5 DEF DoneInv
<1> QED BY <1>6, <1>7, <1>8, <1>9

\* Every step of a careful program keeps what was saved.
LEMMA CarefulNext ==
    ASSUME CheckpointTypes, CarefulInv, [CheckpointNext]_checkpointVars
    PROVE  CarefulInv'
<1>1. careful' = careful
  BY DEF CheckpointNext, checkpointVars, SaveBegins, SaveWrites, SaveFails, AutoSaveCounts,
         AutoSaveResets, LoadReads, LoadKeeps, LoadAllReads, LoadAllKeeps, DeleteForgets,
         DeleteFiles, CleanupFiles, Crash
<1>2. ASSUME careful PROVE Kept'
  <2>1. Kept
    BY <1>2 DEF CarefulInv, Kept
  <2>2. CASE UNCHANGED checkpointVars
    BY <2>1, <2>2 DEF checkpointVars, Kept, StageInv, OrderInv, MemInv, DoneInv, At, Quiet,
                      Whole, Files
  <2>3. CASE Crash
    BY <1>2, <2>1, <2>3, CarefulCrash
  <2>4. ASSUME NEW s \in Savers,
               \/ SaveBegins(s) \/ SaveWrites(s) \/ SaveFails(s)
               \/ AutoSaveCounts(s) \/ AutoSaveResets(s)
               \/ LoadReads(s) \/ LoadKeeps(s) \/ LoadAllReads(s) \/ LoadAllKeeps(s)
               \/ DeleteForgets(s) \/ DeleteFiles(s) \/ CleanupFiles(s)
        PROVE  Kept'
    BY <1>2, <2>1, <2>4, CarefulSaveBegins, CarefulSaveWrites, CarefulSaveFails, CarefulAutoSave,
       CarefulNeverReads, CarefulLoadAllReads, CarefulLoadAllKeeps, CarefulDeleteForgets,
       CarefulDeleteFiles, CarefulCleanup
  <2> QED BY <2>2, <2>3, <2>4 DEF CheckpointNext
<1> QED BY <1>1, <1>2 DEF CarefulInv, Kept

\* Nothing is there at first.
LEMMA CheckpointStarts == CheckpointInit => CheckpointTypes /\ CarefulInv /\ UnsavedInv
<1> SUFFICES ASSUME CheckpointInit PROVE CheckpointTypes /\ CarefulInv /\ UnsavedInv
  OBVIOUS
<1>1. NoCheckpoint \in Checkpoints /\ "out" \in Places
  BY CheckpointAssumption DEF NoCheckpoint, Checkpoints, Places
<1>2. \A s \in Savers : saver[s] = Out /\ At(s, "out") /\ ~At(s, "write") /\ ~At(s, "found")
                      /\ ~At(s, "delete") /\ ~At(s, "loaded") /\ ~At(s, "save")
  BY DEF CheckpointInit, At, Out
<1>3. SaverTypes
  BY <1>1, <1>2 DEF CheckpointInit, SaverTypes, Out
<1>4. CheckpointTypes
  BY <1>1, <1>3, CheckpointAssumption DEF CheckpointInit, CheckpointTypes
<1>5. Whole = {}
  BY DEF CheckpointInit, Whole, Files
<1>6. CarefulInv
  BY <1>2, <1>5 DEF CheckpointInit, CarefulInv, StageInv, OrderInv, MemInv, DoneInv, NoCheckpoint
<1>7. UnsavedInv
  <2>1. {s \in Savers : At(s, "save")} = {}
    BY <1>2
  <2>2. Cardinality({s \in Savers : At(s, "save")}) = 0
    BY <2>1, FS_EmptySet
  <2>3. AutoSaveCount \in Nat /\ AutoSaveCount > 0 /\ unsaved = 0 /\ counter = 0
    BY CheckpointAssumption DEF CheckpointInit
  <2> QED BY <2>2, <2>3 DEF UnsavedInv
<1> QED BY <1>4, <1>6, <1>7

\* In a program that calls LoadAll first and Delete alone, what was saved is on disk,
\* and what the manager answers with is as late (checkpoint.Manager).
THEOREM SavedStaysSaved == CheckpointSpec => []NothingSavedIsLost
<1>1. CheckpointTypes /\ CarefulInv => NothingSavedIsLost
  <2> SUFFICES ASSUME CheckpointTypes, CarefulInv, careful, done > 0
               PROVE  /\ \E v \in Files \ torn : files[v] >= done
                      /\ fresh \/ mem.serial >= done
    BY DEF NothingSavedIsLost
  <2>1. DoneInv /\ MemInv
    BY DEF CarefulInv
  <2> QED BY <2>1, Numbers DEF DoneInv, MemInv, Whole
<1>2. CheckpointTypes /\ CarefulInv /\ [CheckpointNext]_checkpointVars
      => CheckpointTypes' /\ CarefulInv'
  BY CheckpointTypesNext, CarefulNext
<1> QED BY <1>1, <1>2, CheckpointStarts, PTL DEF CheckpointSpec

\* Goroutines about to Save because of AutoSave.
Saving == {s \in Savers : At(s, "save")}

\* The number of them changes with the one that moves.
LEMMA SavingFacts ==
    ASSUME CheckpointTypes
    PROVE  /\ Cardinality(Saving) \in Nat
           /\ \A s \in Savers : ~At(s, "save") =>
                 Cardinality(Saving \cup {s}) = Cardinality(Saving) + 1
<1>1. IsFiniteSet(Saving)
  <2>1. Saving \in SUBSET Savers
    BY DEF Saving
  <2> QED BY <2>1, CheckpointAssumption, FS_Subset
<1>2. \A s \in Savers : ~At(s, "save") => s \notin Saving
  BY DEF Saving
<1> HIDE DEF Saving
<1> QED BY <1>1, <1>2, FS_CardinalityType, FS_AddElement

\* What the count allows for, and how it grows with the goroutines that reset it.
LEMMA Allowed ==
    ASSUME NEW n \in Nat
    PROVE  /\ AutoSaveCount - 1 \in Nat /\ (AutoSaveCount - 1) * n \in Nat
           /\ (AutoSaveCount - 1) * (n + 1) = (AutoSaveCount - 1) * n + (AutoSaveCount - 1)
           /\ (AutoSaveCount - 1) * (1 + n) = (AutoSaveCount - 1) * n + (AutoSaveCount - 1)
<1>1. AutoSaveCount - 1 \in Nat
  BY CheckpointAssumption
<1>2. \A k \in Nat : k * n \in Nat /\ k * (n + 1) = k * n + k /\ k * (1 + n) = k * n + k
  OBVIOUS
<1> QED BY <1>1, <1>2

\* Every step keeps the operations that were not saved within the limit.
LEMMA UnsavedStep ==
    ASSUME CheckpointTypes, UnsavedInv, [CheckpointNext]_checkpointVars
    PROVE  UnsavedInv'
<1> DEFINE K == AutoSaveCount - 1
           n == Cardinality(Saving)
           c == IF counter < AutoSaveCount THEN counter ELSE K
<1>1. n \in Nat /\ K \in Nat /\ K * n \in Nat /\ K * (n + 1) = K * n + K
  BY SavingFacts, Allowed
<1>2. unsaved <= c + K * n
  BY DEF UnsavedInv, Saving
<1>3. unsaved \in Nat /\ counter \in Nat /\ AutoSaveCount \in Nat /\ AutoSaveCount > 0 /\ c \in Nat /\ c <= K
  BY <1>1, CheckpointAssumption DEF CheckpointTypes
<1>4. ASSUME UNCHANGED <<unsaved, counter>>, Saving' = Saving PROVE UnsavedInv'
  BY <1>4 DEF UnsavedInv, Saving
<1>5. ASSUME unsaved' = 0 PROVE UnsavedInv'
  <2>1. CheckpointTypes'
    BY CheckpointTypesNext
  <2>2. Cardinality(Saving)' \in Nat /\ counter' \in Nat
    <3>1. IsFiniteSet(Saving')
      <4>1. Saving' \in SUBSET Savers
        BY DEF Saving
      <4> QED BY <4>1, CheckpointAssumption, FS_Subset
    <3> QED BY <2>1, <3>1, FS_CardinalityType DEF CheckpointTypes
  <2>3. K * Cardinality(Saving)' \in Nat
    BY <2>2, Allowed
  <2> HIDE DEF K
  <2> QED BY <1>1, <1>5, <2>2, <2>3, CheckpointAssumption DEF UnsavedInv, Saving, K
<1>6. ASSUME NEW s \in Savers, NEW loc \in Places, NEW cp,
             Moved(s, loc, cp) \/ (loc = "out" /\ cp = NoCheckpoint /\ saver' = [saver EXCEPT ![s] = Out]),
             ~At(s, "save")
      PROVE  Saving' = IF loc = "save" THEN Saving \cup {s} ELSE Saving
  <2>1. saver'[s].at = loc /\ \A o \in Savers : o # s => saver'[o] = saver[o]
    BY <1>6, MovedFacts
  <2>2. \A o \in Savers : o # s => (At(o, "save")' <=> At(o, "save"))
    BY <2>1 DEF At
  <2>3. At(s, "save")' <=> loc = "save"
    BY <2>1 DEF At
  <2> QED BY <1>6, <2>2, <2>3 DEF Saving
<1>7. ASSUME NEW s \in Savers, SaveWrites(s) \/ SaveFails(s) PROVE UnsavedInv'
  <2>1. Saving' = Saving
    BY <1>6, <1>7 DEF SaveWrites, SaveFails, At, Places
  <2> QED BY <1>4, <1>7, <2>1 DEF SaveWrites, SaveFails
<1>8. ASSUME NEW s \in Savers, AutoSaveCounts(s) PROVE UnsavedInv'
  <2>1. ~At(s, "save")
    BY <1>8 DEF AutoSaveCounts, Free, At
  <2>2. counter' = counter + 1
    BY <1>8 DEF AutoSaveCounts
  <2>3. CASE counter' >= AutoSaveCount /\ Moved(s, "reset", NoCheckpoint) /\ UNCHANGED unsaved
    <3>1. Saving' = Saving
      BY <1>6, <2>1, <2>3 DEF Places
    <3>2. unsaved' <= K + K * n
      BY <1>1, <1>2, <1>3, <2>3
    <3>3. ~(counter' < AutoSaveCount)
      BY <1>3, <2>2, <2>3
    <3> QED BY <3>1, <3>2, <3>3 DEF UnsavedInv, Saving
  <2>4. CASE counter' < AutoSaveCount /\ Moved(s, "save", NoCheckpoint) /\ UNCHANGED unsaved
    <3>1. Saving' = Saving \cup {s}
      BY <1>6, <2>1, <2>4 DEF Places
    <3>2. Cardinality(Saving') = n + 1
      BY <2>1, <3>1, SavingFacts
    <3>3. unsaved' <= counter' + K * (n + 1)
      BY <1>1, <1>2, <1>3, <2>2, <2>4
    <3> QED BY <2>4, <3>2, <3>3 DEF UnsavedInv, Saving
  <2>5. CASE counter' < AutoSaveCount /\ unsaved' = unsaved + 1 /\ UNCHANGED saver
    <3>1. Saving' = Saving
      BY <2>5 DEF Saving, At
    <3>2. unsaved' <= counter' + K * n
      BY <1>1, <1>2, <1>3, <2>2, <2>5
    <3> QED BY <2>5, <3>1, <3>2 DEF UnsavedInv, Saving
  <2> QED BY <1>8, <2>3, <2>4, <2>5 DEF AutoSaveCounts
<1>9. ASSUME NEW s \in Savers, AutoSaveResets(s) PROVE UnsavedInv'
  <2>1. ~At(s, "save") /\ Moved(s, "save", NoCheckpoint) /\ counter' = 0 /\ unsaved' = unsaved
    BY <1>9 DEF AutoSaveResets, At
  <2>2. Saving' = Saving \cup {s}
    BY <1>6, <2>1 DEF Places
  <2>3. Cardinality(Saving') = n + 1
    BY <2>1, <2>2, SavingFacts
  <2>4. unsaved' <= counter' + K * (n + 1)
    BY <1>1, <1>2, <1>3, <2>1
  <2>5. counter' < AutoSaveCount
    BY <1>3, <2>1
  <2> QED BY <2>3, <2>4, <2>5 DEF UnsavedInv, Saving
<1>10. ASSUME NEW s \in Savers, LoadReads(s) \/ LoadAllReads(s) PROVE UnsavedInv'
  <2>1. ~At(s, "save")
    BY <1>10 DEF LoadReads, LoadAllReads, Free, At
  <2>2. saver' = saver \/ \E loc \in {"loaded", "found"} : \E cp : Moved(s, loc, cp)
    BY <1>10 DEF LoadReads, LoadAllReads
  <2>3. Saving' = Saving
    <3>1. CASE saver' = saver
      BY <3>1 DEF Saving, At
    <3>2. CASE \E loc \in {"loaded", "found"} : \E cp : Moved(s, loc, cp)
      BY <1>6, <2>1, <3>2 DEF Places
    <3> QED BY <2>2, <3>1, <3>2
  <2> QED BY <1>4, <1>10, <2>3 DEF LoadReads, LoadAllReads
<1>11. ASSUME NEW s \in Savers, LoadKeeps(s) \/ LoadAllKeeps(s) \/ DeleteFiles(s) PROVE UnsavedInv'
  <2>1. Saving' = Saving
    BY <1>6, <1>11 DEF LoadKeeps, LoadAllKeeps, DeleteFiles, At, Places
  <2> QED BY <1>4, <1>11, <2>1 DEF LoadKeeps, LoadAllKeeps, DeleteFiles
<1>12. ASSUME NEW s \in Savers, CleanupFiles(s) PROVE UnsavedInv'
  BY <1>4, <1>12 DEF CleanupFiles, Saving, At
<1>13. ASSUME NEW s \in Savers, SaveBegins(s) \/ DeleteForgets(s) PROVE UnsavedInv'
  BY <1>5, <1>13 DEF SaveBegins, DeleteForgets
<1>14. CASE Crash
  BY <1>5, <1>14 DEF Crash
<1>15. CASE UNCHANGED checkpointVars
  BY <1>4, <1>15 DEF checkpointVars, Saving, At
<1> QED
  BY <1>7, <1>8, <1>9, <1>10, <1>11, <1>12, <1>13, <1>14, <1>15 DEF CheckpointNext

\* AutoSave lets at most a limit's worth of operations go by, and as many for each
\* goroutine that reset the count and has yet to save (Manager.AutoSave).
THEOREM UnsavedIsBounded == CheckpointSpec => []UnsavedBounded
<1>1. CheckpointTypes /\ UnsavedInv => UnsavedBounded
  <2> SUFFICES ASSUME CheckpointTypes, UnsavedInv PROVE UnsavedBounded
    OBVIOUS
  <2> DEFINE n == Cardinality({s \in Savers : At(s, "save")})
             K == AutoSaveCount - 1
  <2>1. n \in Nat
    BY SavingFacts DEF Saving
  <2>2. K \in Nat /\ K * n \in Nat /\ K * (1 + n) = K * n + K
    BY <2>1, Allowed
  <2>3. unsaved <= (IF counter < AutoSaveCount THEN counter ELSE K) + K * n
    BY DEF UnsavedInv
  <2>4. (IF counter < AutoSaveCount THEN counter ELSE K) <= K
    BY CheckpointAssumption DEF CheckpointTypes
  <2>5. counter \in Nat /\ unsaved \in Nat
    BY DEF CheckpointTypes
  <2>6. unsaved <= K * (1 + n)
    <3>1. \A m \in Nat, x \in Nat : unsaved <= x + m /\ x <= K /\ K \in Nat => unsaved <= m + K
      BY <2>5
    <3> HIDE DEF n, K
    <3> QED BY <2>2, <2>3, <2>4, <2>5, <3>1
  <2> QED BY <2>6 DEF UnsavedBounded
<1>2. CheckpointTypes /\ UnsavedInv /\ [CheckpointNext]_checkpointVars
      => CheckpointTypes' /\ UnsavedInv'
  BY CheckpointTypesNext, UnsavedStep
<1> QED BY <1>1, <1>2, CheckpointStarts, PTL DEF CheckpointSpec

=============================================================================
