-------------------------- MODULE OrchestratorProofs --------------------------
(***************************************************************************)
(* Safety of the DAG executor, alone and inside the orchestrator, for      *)
(* every graph of tasks with different identifiers: Build accepts exactly  *)
(* the graphs that can be executed, Execute implements the order that      *)
(* dependencies promise, gives each task the results it depends on and     *)
(* leaves no goroutine behind.                                             *)
(***************************************************************************)
EXTENDS Orchestrator, FiniteSetTheorems, SequenceTheorems, TLAPS

\* No two tasks share an identifier.  (With duplicates one node takes the edges
\* of several tasks, and Build counts some of them twice.)
UniqueIds == \A t, u \in Tasks : IdOf[t] = IdOf[u] => t = u

RunStates == {"waiting", "running", "sent", "ok", "failed"}

-----------------------------------------------------------------------------
(* Build                                                                   *)

GraphTypes ==
    /\ dependsOn \in Graphs
    /\ order \in Seq(SUBSET Known)
    /\ queue \subseteq Known

\* The layers: what a task depends on lies in earlier ones, some of it in the
\* one just before; no task is in two.
LayersInv ==
    /\ \A k \in DOMAIN order : \A i \in order[k] : \A d \in DepsOf(i) :
          \E j \in DOMAIN order : j < k /\ d \in order[j]
    /\ \A k \in DOMAIN order : \A i \in order[k] : k > 1 => DepsOf(i) \cap order[k - 1] # {}
    /\ \A k, m \in DOMAIN order : order[k] \cap order[m] # {} => m = k

\* Every set of sorted tasks has one that depends on none of them.
SortedInv == \A S \in SUBSET Sorted : S # {} => \E i \in S : DepsOf(i) \cap S = {}

\* While Build sorts, a task's in-degree counts its dependencies that are not
\* sorted yet, and the queue holds the tasks for which that is none.
QueueInv ==
    phase = "build" =>
        /\ \A i \in Known : inDegree[i] = Cardinality(DepsOf(i) \ Sorted)
        /\ queue = {i \in Known \ Sorted : DepsOf(i) \subseteq Sorted}
        /\ Len(order) > 0 => \A i \in queue : DepsOf(i) \cap order[Len(order)] # {}

VerdictInv ==
    /\ phase = "rejected" => ~Executable
    /\ phase \notin {"build", "rejected"} => Sorted = Known

BuildInv == GraphTypes /\ LayersInv /\ SortedInv /\ QueueInv /\ VerdictInv

\* A node is the only task with its identifier, and its dependencies are finite
\* in number.
LEMMA NodeFacts ==
    ASSUME UniqueIds, dependsOn \in Graphs, NEW i \in Known
    PROVE  /\ NodeOf[i] \in Tasks /\ IdOf[NodeOf[i]] = i
           /\ \A t \in Tasks : IdOf[t] = i => t = NodeOf[i]
           /\ IsFiniteSet(DepsOf(i)) /\ DepsOf(i) \subseteq Ids
<1>1. NodeOf[i] \in Tasks /\ IdOf[NodeOf[i]] = i
  BY DAGAssumption
<1>2. \A t \in Tasks : IdOf[t] = i => t = NodeOf[i]
  BY <1>1 DEF UniqueIds
<1>3. IsFiniteSet(DepsOf(i)) /\ DepsOf(i) \subseteq Ids
  BY <1>1, DAGAssumption DEF DepsOf
<1> QED BY <1>1, <1>2, <1>3

\* The edges from a set of tasks to one task are as many as those it depends on.
LEMMA EdgesCounted ==
    ASSUME UniqueIds, dependsOn \in Graphs, NEW i \in Known, NEW from
    PROVE  Cardinality(EdgesTo(i, from)) = Cardinality(DepsOf(i) \cap from)
<1> DEFINE D == DepsOf(i) \cap from
           f == [d \in D |-> <<d, NodeOf[i]>>]
<1>1. IsFiniteSet(D)
  BY NodeFacts, FS_Subset
<1>2. EdgesTo(i, from) = {<<d, NodeOf[i]>> : d \in D}
  <2>1. ASSUME NEW e \in EdgesTo(i, from) PROVE e \in {<<d, NodeOf[i]>> : d \in D}
    <3>1. e \in from \X Tasks /\ IdOf[e[2]] = i /\ e[1] \in dependsOn[e[2]]
      BY <2>1 DEF EdgesTo
    <3>2. e[2] = NodeOf[i]
      BY <3>1, NodeFacts
    <3>3. e = <<e[1], NodeOf[i]>> /\ e[1] \in D
      BY <3>1, <3>2 DEF DepsOf
    <3> QED BY <3>3
  <2>2. ASSUME NEW d \in D PROVE <<d, NodeOf[i]>> \in EdgesTo(i, from)
    BY NodeFacts DEF EdgesTo, DepsOf
  <2> QED BY <2>1, <2>2
<1>3. f \in Bijection(D, EdgesTo(i, from))
  <2>1. f \in [D -> EdgesTo(i, from)]
    BY <1>2
  <2>2. \A a, b \in DOMAIN f : f[a] = f[b] => a = b
    OBVIOUS
  <2>3. \A e \in EdgesTo(i, from) : \E d \in D : f[d] = e
    BY <1>2
  <2> QED BY <2>1, <2>2, <2>3 DEF Bijection, Injection, Surjection, IsInjective
<1> HIDE DEF f
<1>4. ExistsBijection(D, EdgesTo(i, from))
  BY <1>3 DEF ExistsBijection
<1> QED BY <1>1, <1>4, FS_Bijection

\* A layer is appended: it joins what is sorted.
LEMMA SortedAppend ==
    ASSUME order \in Seq(SUBSET Known), queue \subseteq Known, order' = Append(order, queue)
    PROVE  /\ order' \in Seq(SUBSET Known) /\ Len(order') = Len(order) + 1
           /\ order'[Len(order) + 1] = queue
           /\ \A k \in DOMAIN order : order'[k] = order[k]
           /\ DOMAIN order' = DOMAIN order \cup {Len(order) + 1}
           /\ Sorted' = Sorted \cup queue
<1>1. /\ order' \in Seq(SUBSET Known) /\ Len(order') = Len(order) + 1
      /\ order'[Len(order) + 1] = queue
      /\ \A k \in 1..Len(order) : order'[k] = order[k]
  BY AppendProperties
<1>2. DOMAIN order = 1..Len(order) /\ DOMAIN order' = 1..(Len(order) + 1) /\ Len(order) \in Nat
  BY <1>1, LenProperties
<1>3. DOMAIN order' = DOMAIN order \cup {Len(order) + 1}
  BY <1>2
<1>4. Sorted' = Sorted \cup queue
  BY <1>1, <1>2, <1>3 DEF Sorted
<1> QED BY <1>1, <1>2, <1>3, <1>4

\* What a sorted task depends on is sorted, and the tasks of the queue are not.
LEMMA SortedFacts ==
    ASSUME BuildInv
    PROVE  /\ Sorted \subseteq Known
           /\ \A i \in Sorted : DepsOf(i) \subseteq Sorted
           /\ phase = "build" => queue \cap Sorted = {}
<1>1. \A k \in DOMAIN order : order[k] \subseteq Known
  BY DEF BuildInv, GraphTypes
<1>2. \A i \in Sorted : DepsOf(i) \subseteq Sorted
  BY DEF BuildInv, LayersInv, Sorted
<1>3. phase = "build" => queue \cap Sorted = {}
  BY DEF BuildInv, QueueInv
<1> QED BY <1>1, <1>2, <1>3 DEF Sorted

\* Build starts with no layer, and queues the tasks without dependencies.
LEMMA BuildInit == ASSUME UniqueIds, Init PROVE BuildInv
<1>1. order = <<>> /\ DOMAIN order = {} /\ Len(order) = 0
  BY DEF Init
<1>2. Sorted = {}
  BY <1>1 DEF Sorted
<1>3. GraphTypes
  BY <1>1, EmptySeq DEF Init, GraphTypes
<1>4. LayersInv /\ SortedInv
  BY <1>1, <1>2 DEF LayersInv, SortedInv
<1>5. QueueInv
  BY <1>1, <1>2 DEF Init, QueueInv
<1>6. VerdictInv
  BY DEF Init, VerdictInv
<1> QED BY <1>3, <1>4, <1>5, <1>6 DEF BuildInv

\* A layer's edges are taken off the in-degrees, which then count what is left.
LEMMA SortLayerCounts ==
    ASSUME UniqueIds, BuildInv, SortLayer, NEW i \in Known
    PROVE  /\ inDegree'[i] = Cardinality(DepsOf(i) \ (Sorted \cup queue))
           /\ i \in queue' <=> /\ i \notin Sorted \cup queue
                               /\ DepsOf(i) \subseteq Sorted \cup queue
<1> DEFINE rest == DepsOf(i) \ Sorted
           hit  == DepsOf(i) \cap queue
<1>1. dependsOn \in Graphs /\ phase = "build"
  BY DEF BuildInv, GraphTypes, SortLayer
<1>2. IsFiniteSet(DepsOf(i))
  BY <1>1, NodeFacts
<1>3. IsFiniteSet(rest) /\ IsFiniteSet(hit)
  BY <1>2, FS_Subset
<1>4. hit \subseteq rest /\ rest \cap hit = hit /\ rest \ hit = DepsOf(i) \ (Sorted \cup queue)
  BY <1>1, SortedFacts
<1>5. Cardinality(rest \ hit) = Cardinality(rest) - Cardinality(hit)
  <2> HIDE DEF rest, hit
  <2>1. Cardinality(rest \ hit) = Cardinality(rest) - Cardinality(rest \cap hit)
    BY <1>3, FS_Difference
  <2> QED BY <1>4, <2>1
<1>6. Cardinality(rest) \in Nat /\ Cardinality(hit) \in Nat /\ Cardinality(rest \ hit) \in Nat
  BY <1>3, FS_CardinalityType, FS_Difference
<1>7. Cardinality(EdgesTo(i, queue)) = Cardinality(hit)
  BY <1>1, EdgesCounted
<1>8. inDegree[i] = Cardinality(rest)
  BY <1>1 DEF BuildInv, QueueInv
<1>9. /\ inDegree'[i] = inDegree[i] - Cardinality(EdgesTo(i, queue))
      /\ i \in queue' <=> inDegree[i] > 0 /\ Cardinality(EdgesTo(i, queue)) >= inDegree[i]
  BY DEF SortLayer
<1>10. inDegree'[i] = Cardinality(DepsOf(i) \ (Sorted \cup queue))
  BY <1>4, <1>5, <1>7, <1>8, <1>9
<1>11. i \in queue' <=> Cardinality(rest) # 0 /\ Cardinality(rest \ hit) = 0
  BY <1>5, <1>6, <1>7, <1>8, <1>9
<1>12. i \in queue' <=> rest # {} /\ rest \ hit = {}
  BY <1>3, <1>11, FS_EmptySet, FS_Difference
<1>13. rest # {} <=> i \notin Sorted \cup queue
  <2>1. i \in queue <=> i \notin Sorted /\ DepsOf(i) \subseteq Sorted
    BY <1>1 DEF BuildInv, QueueInv
  <2>2. i \in Sorted => DepsOf(i) \subseteq Sorted
    BY SortedFacts
  <2> QED BY <2>1, <2>2
<1>14. rest \ hit = {} <=> DepsOf(i) \subseteq Sorted \cup queue
  BY <1>4
<1> QED BY <1>10, <1>12, <1>13, <1>14

\* Build sorts one more layer.
LEMMA SortLayerStep == ASSUME UniqueIds, BuildInv, SortLayer PROVE BuildInv'
<1> DEFINE n == Len(order) + 1
<1>1. phase = "build" /\ phase' = "build" /\ dependsOn' = dependsOn /\ order' = Append(order, queue)
  BY DEF SortLayer, graphVars
<1>2. order \in Seq(SUBSET Known) /\ queue \subseteq Known /\ dependsOn \in Graphs
  BY DEF BuildInv, GraphTypes
<1>3. /\ order' \in Seq(SUBSET Known) /\ Len(order') = n
      /\ order'[n] = queue
      /\ \A k \in DOMAIN order : order'[k] = order[k]
      /\ DOMAIN order' = DOMAIN order \cup {n}
      /\ Sorted' = Sorted \cup queue
  BY <1>1, <1>2, SortedAppend
<1>4. DOMAIN order = 1..Len(order) /\ Len(order) \in Nat
  BY <1>2, LenProperties
<1>5. \A i : DepsOf(i)' = DepsOf(i)
  BY <1>1 DEF DepsOf
<1>6. \A i \in queue : i \notin Sorted /\ DepsOf(i) \subseteq Sorted
  BY <1>1 DEF BuildInv, QueueInv
<1>7. GraphTypes'
  BY <1>1, <1>2, <1>3 DEF GraphTypes, SortLayer
<1>8. LayersInv'
  <2>1. ASSUME NEW k \in DOMAIN order', NEW i \in order'[k], NEW d \in DepsOf(i)
        PROVE  \E j \in DOMAIN order' : j < k /\ d \in order'[j]
    <3>1. CASE k = n
      <4>1. PICK j \in DOMAIN order : d \in order[j]
        BY <1>3, <1>6, <2>1, <3>1 DEF Sorted
      <4> QED BY <1>3, <1>4, <3>1, <4>1
    <3>2. CASE k \in DOMAIN order
      <4>1. PICK j \in DOMAIN order : j < k /\ d \in order[j]
        BY <1>3, <2>1, <3>2 DEF BuildInv, LayersInv
      <4> QED BY <1>3, <4>1
    <3> QED BY <1>3, <3>1, <3>2
  <2>2. ASSUME NEW k \in DOMAIN order', NEW i \in order'[k], k > 1
        PROVE  DepsOf(i) \cap order'[k - 1] # {}
    <3>1. CASE k = n
      <4>1. DepsOf(i) \cap order[Len(order)] # {}
        BY <1>1, <1>3, <1>4, <2>2, <3>1 DEF BuildInv, QueueInv
      <4> QED BY <1>3, <1>4, <2>2, <3>1, <4>1
    <3>2. CASE k \in DOMAIN order
      <4>1. DepsOf(i) \cap order[k - 1] # {}
        BY <1>3, <2>2, <3>2 DEF BuildInv, LayersInv
      <4>2. k - 1 \in DOMAIN order
        BY <1>4, <2>2, <3>2
      <4> QED BY <1>3, <4>1, <4>2
    <3> QED BY <1>3, <3>1, <3>2
  <2>3. ASSUME NEW k \in DOMAIN order', NEW m \in DOMAIN order', order'[k] \cap order'[m] # {}
        PROVE  m = k
    <3>1. \A l \in DOMAIN order : order[l] \cap queue = {}
      BY <1>6 DEF Sorted
    <3>2. CASE k \in DOMAIN order /\ m \in DOMAIN order
      BY <1>3, <2>3, <3>2 DEF BuildInv, LayersInv
    <3> QED BY <1>3, <2>3, <3>1, <3>2
  <2> QED BY <1>5, <2>1, <2>2, <2>3 DEF LayersInv
<1>9. SortedInv'
  <2> SUFFICES ASSUME NEW S \in SUBSET (Sorted \cup queue), S # {}
               PROVE  \E i \in S : DepsOf(i) \cap S = {}
    BY <1>3, <1>5 DEF SortedInv
  <2>1. CASE S \cap Sorted # {}
    <3>1. PICK i \in S \cap Sorted : DepsOf(i) \cap (S \cap Sorted) = {}
      BY <2>1 DEF BuildInv, SortedInv
    <3>2. DepsOf(i) \subseteq Sorted
      BY SortedFacts
    <3> QED BY <3>1, <3>2
  <2>2. CASE S \cap Sorted = {}
    BY <1>6, <2>2
  <2> QED BY <2>1, <2>2
<1>10. QueueInv'
  <2>1. \A i \in Known : inDegree'[i] = Cardinality(DepsOf(i) \ Sorted')
    BY <1>3, SortLayerCounts
  <2>2. queue' \subseteq Known
    BY DEF SortLayer
  <2>3. queue' = {i \in Known \ Sorted' : DepsOf(i) \subseteq Sorted'}
    BY <1>3, <2>2, SortLayerCounts
  <2>4. ASSUME NEW i \in queue' PROVE DepsOf(i) \cap queue # {}
    <3>1. i \in Known /\ i \notin Sorted \cup queue /\ DepsOf(i) \subseteq Sorted \cup queue
      BY <2>2, <2>4, SortLayerCounts
    <3>2. ~(DepsOf(i) \subseteq Sorted)
      BY <1>1, <3>1 DEF BuildInv, QueueInv
    <3> QED BY <3>1, <3>2
  <2> QED BY <1>3, <1>5, <2>1, <2>3, <2>4 DEF QueueInv
<1>11. VerdictInv'
  BY <1>1 DEF VerdictInv
<1> QED BY <1>7, <1>8, <1>9, <1>10, <1>11 DEF BuildInv

\* Once the queue is empty, the tasks that are left over each depend on another
\* of them or on a task that does not exist.
LEMMA RejectGraphStep == ASSUME BuildInv, RejectGraph PROVE ~Executable
<1> DEFINE S == Known \ Sorted
<1>1. phase = "build" /\ queue = {} /\ S # {}
  BY SortedFacts DEF RejectGraph
<1>2. ASSUME Executable PROVE FALSE
  <2>1. PICK i \in S : DepsOf(i) \cap S = {}
    BY <1>1, <1>2 DEF Executable
  <2>2. DepsOf(i) \subseteq Sorted
    BY <1>2, <2>1 DEF Executable
  <2> QED BY <1>1, <2>2 DEF BuildInv, QueueInv
<1> QED BY <1>2

\* What the other steps leave of Build.
LEMMA BuildKept ==
    ASSUME BuildInv, UNCHANGED <<dependsOn, buildVars>>,
           \/ phase' = phase
           \/ phase' = "rejected" /\ ~Executable
           \/ phase' \notin {"build", "rejected"} /\ Sorted = Known
    PROVE  BuildInv'
<1>1. dependsOn' = dependsOn /\ inDegree' = inDegree /\ queue' = queue /\ order' = order
  BY DEF buildVars
<1>2. Sorted' = Sorted /\ \A i : DepsOf(i)' = DepsOf(i)
  BY <1>1 DEF Sorted, DepsOf
<1>3. Executable' <=> Executable
  BY <1>2 DEF Executable
<1>4. GraphTypes' /\ LayersInv' /\ SortedInv'
  BY <1>1, <1>2 DEF BuildInv, GraphTypes, LayersInv, SortedInv
<1>5. QueueInv'
  BY <1>1, <1>2 DEF BuildInv, QueueInv
<1>6. VerdictInv'
  BY <1>2, <1>3 DEF BuildInv, VerdictInv
<1> QED BY <1>4, <1>5, <1>6 DEF BuildInv

\* Every step of the executor keeps what Build has found.
LEMMA BuildNext == ASSUME UniqueIds, BuildInv, [Next]_vars PROVE BuildInv'
<1>1. CASE SortLayer
  BY <1>1, SortLayerStep
<1>2. CASE RejectGraph
  BY <1>2, RejectGraphStep, BuildKept DEF RejectGraph, graphVars
<1>3. CASE Built
  BY <1>3, BuildKept DEF Built, graphVars
<1>4. phase \notin {"build", "rejected"} => Sorted = Known
  BY DEF BuildInv, VerdictInv
<1>5. CASE EnterLayer
  BY <1>4, <1>5, BuildKept DEF EnterLayer, graphVars
<1>6. CASE Succeed
  BY <1>4, <1>6, BuildKept DEF Succeed, graphVars
<1>7. ASSUME NEW i \in Known, Launch(i) \/ Broadcast(i) \/ TaskSucceeds(i) \/ TaskFails(i)
      PROVE  BuildInv'
  BY <1>7, BuildKept DEF Launch, Broadcast, TaskSucceeds, TaskFails, graphVars
<1>8. ASSUME NEW i \in Known, LaunchFails(i) PROVE BuildInv'
  BY <1>4, <1>8, BuildKept DEF LaunchFails, graphVars
<1>9. CASE Collect
  BY <1>4, <1>9, BuildKept DEF Collect, graphVars
<1>10. CASE UNCHANGED vars
  BY <1>10, BuildKept DEF vars, graphVars
<1> QED
  BY <1>1, <1>2, <1>3, <1>5, <1>6, <1>7, <1>8, <1>9, <1>10 DEF Next, Caller, AgentReturns

\* The layers hold the answer: a rejected graph cannot be executed, one that is
\* accepted can, and the layers are as early as they can be.
LEMMA ExactWhenBuilt == ASSUME BuildInv PROVE BuildIsExact
<1>1. phase = "rejected" => ~Executable
  BY DEF BuildInv, VerdictInv
<1>2. ASSUME Sorted = Known PROVE Executable
  BY <1>2, SortedFacts DEF BuildInv, SortedInv, Executable
<1>3. phase \notin {"build", "rejected"} => Executable
  BY <1>2 DEF BuildInv, VerdictInv
<1>4. ASSUME NEW k \in DOMAIN order, NEW i \in order[k]
      PROVE  /\ k > 1 => DepsOf(i) \cap order[k - 1] # {}
             /\ \A m \in DOMAIN order : i \in order[m] => m = k
  BY DEF BuildInv, LayersInv
<1> QED BY <1>1, <1>3, <1>4 DEF BuildIsExact

-----------------------------------------------------------------------------
(* Execute                                                                 *)

ExecuteTypes ==
    /\ phase \in {"build", "rejected", "next", "launch", "ok", "error"}
    /\ layer \in 0..Len(order)
    /\ run \in [Known -> RunStates]
    /\ injected \in [Known -> SUBSET Ids]
    /\ blank \subseteq Known /\ results \subseteq Known

\* Layers that are behind have succeeded, and their results are collected; the
\* tasks of those ahead wait.
LayerInv ==
    /\ phase \in {"build", "rejected"} => layer = 0
    /\ phase = "launch" => layer \in DOMAIN order
    /\ phase = "ok" => layer = Len(order)
    /\ \A k \in DOMAIN order : k < layer => \A i \in order[k] : run[i] = "ok" /\ i \in results
    /\ phase \in {"next", "ok"} =>
          \A k \in DOMAIN order : k = layer => \A i \in order[k] : run[i] = "ok" /\ i \in results
    /\ \A i \in Known : run[i] # "waiting" => \E k \in DOMAIN order : k <= layer /\ i \in order[k]
    /\ \A i \in results : run[i] = "ok"

InjectedInv ==
    \A k \in DOMAIN order : k <= layer => \A i \in order[k] : injected[i] = DepsOf(i) \ blank

QuietInv ==
    /\ \A i \in Known : run[i] # "waiting" => i \notin noAgent
    /\ ReturnsQuiet

ExecuteInv == ExecuteTypes /\ LayerInv /\ InjectedInv /\ QuietInv

DAGInv == BuildInv /\ ExecuteInv

\* A layer is a set of tasks, and the layers are numbered from 1.
LEMMA LayerFacts ==
    ASSUME BuildInv, ExecuteInv
    PROVE  /\ DOMAIN order = 1..Len(order) /\ Len(order) \in Nat /\ layer \in Nat
           /\ layer <= Len(order)
           /\ \A k \in DOMAIN order : k \in Nat /\ k > 0 /\ order[k] \subseteq Known
<1>1. order \in Seq(SUBSET Known)
  BY DEF BuildInv, GraphTypes
<1>2. DOMAIN order = 1..Len(order) /\ Len(order) \in Nat
  BY <1>1, LenProperties
<1>3. \A k \in DOMAIN order : order[k] \subseteq Known
  BY <1>1
<1>4. layer \in 0..Len(order)
  BY DEF ExecuteInv, ExecuteTypes
<1> QED BY <1>2, <1>3, <1>4

\* Nothing is launched until Build is done.
LEMMA NothingLaunched ==
    ASSUME BuildInv, ExecuteInv, phase \in {"build", "rejected"}
    PROVE  \A i \in Known : run[i] = "waiting"
<1>1. layer = 0
  BY DEF ExecuteInv, LayerInv
<1>2. \A k \in DOMAIN order : ~(k <= layer)
  BY <1>1, LayerFacts
<1> QED BY <1>2 DEF ExecuteInv, LayerInv

\* What a task of the layer that is run, or of an earlier one, depends on has
\* succeeded and is collected.
LEMMA DepsDone ==
    ASSUME BuildInv, ExecuteInv, NEW k \in DOMAIN order,
           k <= layer \/ (phase = "next" /\ k = layer + 1),
           NEW i \in order[k], NEW d \in DepsOf(i)
    PROVE  d \in Known /\ run[d] = "ok" /\ d \in results
<1>1. PICK j \in DOMAIN order : j < k /\ d \in order[j]
  BY DEF BuildInv, LayersInv
<1>2. d \in Known
  BY <1>1, LayerFacts
<1>3. j < layer \/ (phase = "next" /\ j = layer)
  BY <1>1, LayerFacts
<1>4. j < layer => run[d] = "ok" /\ d \in results
  BY <1>1 DEF ExecuteInv, LayerInv
<1>5. phase = "next" /\ j = layer => run[d] = "ok" /\ d \in results
  BY <1>1 DEF ExecuteInv, LayerInv
<1> QED BY <1>2, <1>3, <1>4, <1>5

\* Execute starts before its first layer.
LEMMA ExecuteInit == ASSUME Init PROVE ExecuteInv
<1>1. order = <<>> /\ Len(order) = 0 /\ DOMAIN order = {} /\ layer = 0
  BY DEF Init
<1>2. ExecuteTypes
  BY <1>1 DEF Init, ExecuteTypes, RunStates
<1>3. LayerInv /\ InjectedInv
  BY <1>1 DEF Init, LayerInv, InjectedInv
<1>4. QuietInv
  BY DEF Init, QuietInv, ReturnsQuiet
<1> QED BY <1>2, <1>3, <1>4 DEF ExecuteInv

\* While Build runs, its layers do not matter to Execute.
LEMMA ExecuteWaits ==
    ASSUME BuildInv, BuildInv', ExecuteInv, phase = "build",
           phase' \in {"build", "rejected", "next"},
           noAgent' = noAgent \/ noAgent' \subseteq Known,
           UNCHANGED <<layer, run, blank, injected, results, cancelled>>
    PROVE  ExecuteInv'
<1>1. layer = 0 /\ \A i \in Known : run[i] = "waiting"
  BY NothingLaunched DEF ExecuteInv, LayerInv
<1>2. /\ DOMAIN order' = 1..Len(order') /\ Len(order') \in Nat
      /\ \A k \in DOMAIN order' : k > 0
  <2>1. order' \in Seq(SUBSET Known)
    BY DEF BuildInv, GraphTypes
  <2>2. DOMAIN order' = 1..Len(order') /\ Len(order') \in Nat
    BY <2>1, LenProperties
  <2> QED BY <2>2
<1>3. ExecuteTypes'
  BY <1>1, <1>2 DEF ExecuteInv, ExecuteTypes
<1>4. results' = {}
  BY <1>1 DEF ExecuteInv, ExecuteTypes, LayerInv
<1>5. \A k \in DOMAIN order' : ~(k <= 0) /\ ~(k < 0) /\ k # 0
  BY <1>2
<1>6. layer' = 0 /\ \A i \in Known : run'[i] = "waiting"
  BY <1>1
<1>7. LayerInv'
  BY <1>4, <1>5, <1>6 DEF LayerInv
<1>8. InjectedInv'
  BY <1>5, <1>6 DEF InjectedInv
<1>9. QuietInv'
  BY <1>6 DEF QuietInv, ReturnsQuiet
<1> QED BY <1>3, <1>7, <1>8, <1>9 DEF ExecuteInv

\* The next layer's prompts get the results of all that its tasks depend on.
LEMMA EnterLayerStep == ASSUME BuildInv, ExecuteInv, EnterLayer PROVE ExecuteInv'
<1>1. /\ phase = "next" /\ phase' = "launch" /\ layer' = layer + 1
      /\ layer + 1 \in DOMAIN order
      /\ UNCHANGED <<dependsOn, noAgent, order, run, blank, results>>
  BY LayerFacts DEF EnterLayer, graphVars, buildVars
<1>2. \A i : DepsOf(i)' = DepsOf(i)
  BY <1>1 DEF DepsOf
<1>3. injected' = [i \in Known |-> IF i \in order[layer + 1]
                                   THEN (DepsOf(i) \cap results) \ blank ELSE injected[i]]
  BY DEF EnterLayer
<1>4. ExecuteTypes'
  <2>1. layer' \in 0..Len(order)
    BY <1>1, LayerFacts
  <2>2. results \subseteq Ids
    <3>1. Known \subseteq Ids
      BY DAGAssumption DEF Known
    <3> QED BY <3>1 DEF ExecuteInv, ExecuteTypes
  <2>3. injected' \in [Known -> SUBSET Ids]
    BY <1>3, <2>2 DEF ExecuteInv, ExecuteTypes
  <2> QED BY <1>1, <2>1, <2>3 DEF ExecuteInv, ExecuteTypes
<1>5. \A k \in DOMAIN order : k < layer + 1 => k < layer \/ k = layer
  BY LayerFacts
<1>6. \A k \in DOMAIN order : k < layer + 1 => \A i \in order[k] : run[i] = "ok" /\ i \in results
  BY <1>1, <1>5 DEF ExecuteInv, LayerInv
<1>7. \A i \in Known : run[i] # "waiting" => \E k \in DOMAIN order : k <= layer + 1 /\ i \in order[k]
  BY LayerFacts DEF ExecuteInv, LayerInv
<1>8. LayerInv'
  BY <1>1, <1>6, <1>7 DEF ExecuteInv, LayerInv
<1>9. InjectedInv'
  <2> SUFFICES ASSUME NEW k \in DOMAIN order, k <= layer + 1, NEW i \in order[k]
               PROVE  injected'[i] = DepsOf(i) \ blank
    BY <1>1, <1>2 DEF InjectedInv
  <2>1. i \in Known
    BY LayerFacts
  <2>2. CASE k = layer + 1
    <3>1. DepsOf(i) \subseteq results
      BY <1>1, <2>2, DepsDone
    <3> QED BY <1>3, <2>1, <2>2, <3>1
  <2>3. CASE k # layer + 1
    <3>1. k <= layer
      BY <2>3, LayerFacts
    <3>2. i \notin order[layer + 1]
      BY <1>1, <2>3 DEF BuildInv, LayersInv
    <3> QED BY <1>3, <2>1, <3>1, <3>2 DEF ExecuteInv, InjectedInv
  <2> QED BY <2>2, <2>3
<1>10. QuietInv'
  BY <1>1 DEF ExecuteInv, QuietInv, ReturnsQuiet
<1> QED BY <1>4, <1>8, <1>9, <1>10 DEF ExecuteInv

\* A task of the current layer, or one that still runs, changes its state: those
\* that have succeeded do not.
LEMMA TaskMoves ==
    ASSUME BuildInv, ExecuteInv, NEW i \in Known, run[i] # "ok", i \notin noAgent,
           \E k \in DOMAIN order : k <= layer /\ i \in order[k],
           ~(phase \in {"ok", "error"} /\ noAgent \in {{}, Known}),
           NEW s \in RunStates, run' = [run EXCEPT ![i] = s],
           blank' \subseteq Known,
           blank' = blank \/ (run[i] # "waiting" /\ blank' = blank \cup {i}),
           UNCHANGED <<dependsOn, noAgent, phase, order, layer, injected, results>>
    PROVE  ExecuteInv'
<1>1. run' \in [Known -> RunStates] /\ \A j \in Known : j # i => run'[j] = run[j]
  BY DEF ExecuteInv, ExecuteTypes
<1>2. ExecuteTypes'
  BY <1>1 DEF ExecuteInv, ExecuteTypes
<1>3. \A j \in Known : run[j] = "ok" => run'[j] = "ok"
  BY <1>1
<1>4. LayerInv'
  <2>1. \A k \in DOMAIN order : k < layer => \A j \in order[k] : run'[j] = "ok" /\ j \in results
    BY <1>3, LayerFacts DEF ExecuteInv, LayerInv
  <2>2. phase \in {"next", "ok"} =>
           \A k \in DOMAIN order : k = layer => \A j \in order[k] : run'[j] = "ok" /\ j \in results
    BY <1>3, LayerFacts DEF ExecuteInv, LayerInv
  <2>3. \A j \in Known : run'[j] # "waiting" => \E k \in DOMAIN order : k <= layer /\ j \in order[k]
    BY <1>1 DEF ExecuteInv, LayerInv
  <2>4. \A j \in results : run'[j] = "ok"
    BY <1>3 DEF ExecuteInv, ExecuteTypes, LayerInv
  <2>5. phase \in {"build", "rejected"} => layer = 0
    BY DEF ExecuteInv, LayerInv
  <2>6. (phase = "launch" => layer \in DOMAIN order) /\ (phase = "ok" => layer = Len(order))
    BY DEF ExecuteInv, LayerInv
  <2> QED BY <2>1, <2>2, <2>3, <2>4, <2>5, <2>6 DEF LayerInv
<1>5. InjectedInv'
  <2> SUFFICES ASSUME NEW k \in DOMAIN order, k <= layer, NEW j \in order[k]
               PROVE  injected[j] = DepsOf(j) \ blank'
    BY DEF InjectedInv, DepsOf
  <2>1. injected[j] = DepsOf(j) \ blank
    BY DEF ExecuteInv, InjectedInv
  <2>2. i \notin DepsOf(j)
    BY DepsDone
  <2> QED BY <2>1, <2>2
<1>6. QuietInv'
  <2>1. \A j \in Known : run'[j] # "waiting" => j \notin noAgent
    BY <1>1 DEF ExecuteInv, QuietInv
  <2> QED BY <2>1 DEF QuietInv, ReturnsQuiet
<1> QED BY <1>2, <1>4, <1>5, <1>6 DEF ExecuteInv

\* A goroutine that still runs was launched, in this layer or an earlier one.
LEMMA TaskRuns ==
    ASSUME BuildInv, ExecuteInv, NEW i \in Known, run[i] \in {"running", "sent"}
    PROVE  /\ run[i] # "ok" /\ run[i] # "waiting" /\ i \notin noAgent
           /\ \E k \in DOMAIN order : k <= layer /\ i \in order[k]
           /\ ~(phase \in {"ok", "error"} /\ noAgent \in {{}, Known})
<1>1. run[i] # "waiting" => i \notin noAgent /\ \E k \in DOMAIN order : k <= layer /\ i \in order[k]
  BY DEF ExecuteInv, LayerInv, QuietInv
<1>2. ~(phase \in {"ok", "error"} /\ noAgent \in {{}, Known})
  BY DEF ExecuteInv, QuietInv, ReturnsQuiet
<1> QED BY <1>1, <1>2

\* A goroutine is launched, or goes on.
LEMMA TaskStep ==
    ASSUME BuildInv, ExecuteInv, NEW i \in Known,
           Launch(i) \/ TaskSucceeds(i) \/ TaskFails(i) \/ Broadcast(i)
    PROVE  ExecuteInv'
<1>1. CASE Launch(i)
  <2>1. /\ phase = "launch" /\ i \in order[layer] /\ run[i] = "waiting" /\ i \notin noAgent
        /\ run' = [run EXCEPT ![i] = "running"] /\ "running" \in RunStates
        /\ blank' = blank /\ blank \subseteq Known
        /\ UNCHANGED <<dependsOn, noAgent, phase, order, layer, injected, results>>
    BY <1>1 DEF Launch, Unlaunched, graphVars, buildVars, RunStates, ExecuteInv, ExecuteTypes
  <2>2. layer \in DOMAIN order /\ layer <= layer
    BY <2>1, LayerFacts DEF ExecuteInv, LayerInv
  <2> QED BY <2>1, <2>2, TaskMoves
<1>2. CASE TaskSucceeds(i)
  <2>1. /\ run[i] = "running"
        /\ run' = [run EXCEPT ![i] = "sent"] /\ "sent" \in RunStates
        /\ blank' = blank \/ blank' = blank \cup {i}
        /\ blank \subseteq Known
        /\ UNCHANGED <<dependsOn, noAgent, phase, order, layer, injected, results>>
    BY <1>2 DEF TaskSucceeds, graphVars, buildVars, RunStates, ExecuteInv, ExecuteTypes
  <2> QED BY <2>1, TaskRuns, TaskMoves
<1>3. CASE TaskFails(i)
  <2>1. /\ run[i] = "running"
        /\ run' = [run EXCEPT ![i] = "failed"] /\ "failed" \in RunStates
        /\ blank' = blank /\ blank \subseteq Known
        /\ UNCHANGED <<dependsOn, noAgent, phase, order, layer, injected, results>>
    BY <1>3 DEF TaskFails, graphVars, buildVars, RunStates, ExecuteInv, ExecuteTypes
  <2> QED BY <2>1, TaskRuns, TaskMoves
<1>4. CASE Broadcast(i)
  <2>1. /\ run[i] = "sent"
        /\ run' = [run EXCEPT ![i] = "ok"] /\ "ok" \in RunStates
        /\ blank' = blank /\ blank \subseteq Known
        /\ UNCHANGED <<dependsOn, noAgent, phase, order, layer, injected, results>>
    BY <1>4 DEF Broadcast, graphVars, buildVars, RunStates, ExecuteInv, ExecuteTypes
  <2> QED BY <2>1, TaskRuns, TaskMoves
<1> QED BY <1>1, <1>2, <1>3, <1>4

\* The layer's group has ended: every task up to this layer has.
LEMMA CollectStep == ASSUME BuildInv, ExecuteInv, Collect PROVE ExecuteInv'
<1>1. /\ phase = "launch"
      /\ \A i \in order[layer] : run[i] \in {"ok", "failed"}
      /\ results' = results \cup {i \in order[layer] : run[i] = "ok"}
      /\ phase' = IF \E i \in order[layer] : run[i] = "failed" THEN "error" ELSE "next"
      /\ UNCHANGED <<dependsOn, noAgent, order, layer, run, blank, injected>>
  BY DEF Collect, graphVars, buildVars
<1>2. layer \in DOMAIN order /\ order[layer] \subseteq Known
  BY <1>1, LayerFacts DEF ExecuteInv, LayerInv
<1>3. phase' = "error" \/ (phase' = "next" /\ \A i \in order[layer] : run[i] = "ok")
  BY <1>1
<1>4. ExecuteTypes'
  BY <1>1, <1>2, <1>3 DEF ExecuteInv, ExecuteTypes
<1>5. LayerInv'
  <2>1. \A k \in DOMAIN order : k < layer => \A i \in order[k] : run[i] = "ok" /\ i \in results'
    BY <1>1 DEF ExecuteInv, LayerInv
  <2>2. phase' \in {"next", "ok"} => \A i \in order[layer] : run[i] = "ok" /\ i \in results'
    BY <1>1, <1>3
  <2>3. \A i \in results' : run[i] = "ok"
    BY <1>1 DEF ExecuteInv, LayerInv
  <2>4. \A i \in Known : run[i] # "waiting" => \E k \in DOMAIN order : k <= layer /\ i \in order[k]
    BY DEF ExecuteInv, LayerInv
  <2> QED BY <1>1, <1>2, <1>3, <2>1, <2>2, <2>3, <2>4 DEF LayerInv
<1>6. InjectedInv'
  BY <1>1 DEF ExecuteInv, InjectedInv, DepsOf
<1>7. QuietInv'
  <2>1. ASSUME NEW i \in Known, run[i] \in {"running", "sent"} PROVE FALSE
    <3>1. PICK k \in DOMAIN order : k <= layer /\ i \in order[k]
      BY <2>1, TaskRuns
    <3>2. k < layer \/ k = layer
      BY <3>1, LayerFacts
    <3>3. run[i] \in {"ok", "failed"}
      BY <1>1, <3>1, <3>2 DEF ExecuteInv, LayerInv
    <3> QED BY <2>1, <3>3
  <2> QED BY <1>1, <2>1 DEF ExecuteInv, QuietInv, ReturnsQuiet
<1> QED BY <1>4, <1>5, <1>6, <1>7 DEF ExecuteInv

\* After the last layer every task has succeeded.
LEMMA SucceedStep == ASSUME BuildInv, ExecuteInv, Succeed PROVE ExecuteInv'
<1>1. /\ phase = "next" /\ layer = Len(order) /\ phase' = "ok"
      /\ UNCHANGED <<dependsOn, noAgent, order, layer, run, blank, injected, results>>
  BY DEF Succeed, graphVars, buildVars
<1>2. ExecuteTypes'
  BY <1>1 DEF ExecuteInv, ExecuteTypes
<1>3. LayerInv'
  BY <1>1 DEF ExecuteInv, LayerInv
<1>4. InjectedInv'
  BY <1>1 DEF ExecuteInv, InjectedInv, DepsOf
<1>5. QuietInv'
  <2>1. ASSUME NEW i \in Known, run[i] \in {"running", "sent"} PROVE FALSE
    <3>1. PICK k \in DOMAIN order : k <= layer /\ i \in order[k]
      BY <2>1, TaskRuns
    <3>2. k < layer \/ k = layer
      BY <3>1, LayerFacts
    <3>3. run[i] = "ok"
      BY <1>1, <3>1, <3>2 DEF ExecuteInv, LayerInv
    <3> QED BY <2>1, <3>3
  <2> QED BY <1>1, <2>1 DEF ExecuteInv, QuietInv, ReturnsQuiet
<1> QED BY <1>2, <1>3, <1>4, <1>5 DEF ExecuteInv

\* A task without an agent ends Execute at once.  If no task has one, it is the
\* first, and nothing was launched.
LEMMA LaunchFailsStep ==
    ASSUME BuildInv, ExecuteInv, NEW i \in Known, LaunchFails(i) PROVE ExecuteInv'
<1>1. /\ phase = "launch" /\ phase' = "error" /\ i \in noAgent
      /\ UNCHANGED <<dependsOn, noAgent, order, layer, run, blank, injected, results>>
  BY DEF LaunchFails, graphVars, buildVars
<1>2. ExecuteTypes'
  BY <1>1 DEF ExecuteInv, ExecuteTypes
<1>3. LayerInv'
  BY <1>1 DEF ExecuteInv, LayerInv
<1>4. InjectedInv'
  BY <1>1 DEF ExecuteInv, InjectedInv, DepsOf
<1>5. QuietInv'
  BY <1>1 DEF ExecuteInv, QuietInv, ReturnsQuiet
<1> QED BY <1>2, <1>3, <1>4, <1>5 DEF ExecuteInv

\* Nothing that Build or Execute looks at changes.
LEMMA ExecuteKept ==
    ASSUME ExecuteInv,
           UNCHANGED <<dependsOn, noAgent, phase, order, layer, run, blank, injected, results>>
    PROVE  ExecuteInv'
<1>1. ExecuteTypes' /\ LayerInv'
  BY DEF ExecuteInv, ExecuteTypes, LayerInv
<1>2. InjectedInv'
  BY DEF ExecuteInv, InjectedInv, DepsOf
<1>3. QuietInv'
  BY DEF ExecuteInv, QuietInv, ReturnsQuiet
<1> QED BY <1>1, <1>2, <1>3 DEF ExecuteInv

\* Every step of the executor keeps DAGInv.
LEMMA DAGNext == ASSUME UniqueIds, DAGInv, [Next]_vars PROVE DAGInv'
<1> USE DEF DAGInv
<1>1. BuildInv'
  BY BuildNext
<1>2. CASE SortLayer
  BY <1>1, <1>2, ExecuteWaits DEF SortLayer, graphVars
<1>3. CASE RejectGraph
  BY <1>1, <1>3, ExecuteWaits DEF RejectGraph, graphVars
<1>4. CASE Built
  BY <1>1, <1>4, ExecuteWaits DEF Built, graphVars
<1>5. CASE EnterLayer
  BY <1>1, <1>5, EnterLayerStep
<1>6. CASE Succeed
  BY <1>1, <1>6, SucceedStep
<1>7. CASE Collect
  BY <1>1, <1>7, CollectStep
<1>8. ASSUME NEW i \in Known, Launch(i) \/ LaunchFails(i) \/ AgentReturns(i) \/ Broadcast(i)
      PROVE  ExecuteInv'
  BY <1>8, TaskStep, LaunchFailsStep DEF AgentReturns
<1>9. CASE UNCHANGED vars
  <2>1. UNCHANGED <<dependsOn, noAgent, phase, order, layer, run, blank, injected, results>>
    BY <1>9 DEF vars, graphVars, buildVars
  <2> QED BY <1>1, <2>1, ExecuteKept
<1> QED
  BY <1>1, <1>2, <1>3, <1>4, <1>5, <1>6, <1>7, <1>8, <1>9 DEF Next, Caller

\* A task that was started lies in a layer that was entered, when its prompt was
\* completed.
LEMMA CompleteContext == ASSUME ExecuteInv PROVE ContextIsComplete
<1> SUFFICES ASSUME NEW i \in Known, run[i] # "waiting" PROVE injected[i] = DepsOf(i) \ blank
  BY DEF ContextIsComplete
<1>1. PICK k \in DOMAIN order : k <= layer /\ i \in order[k]
  BY DEF ExecuteInv, LayerInv
<1> QED BY <1>1 DEF ExecuteInv, InjectedInv

\* DAGInv holds in every behaviour of the executor.
LEMMA DAGInvariant == ASSUME UniqueIds PROVE SafeSpec => []DAGInv
<1>1. Init => DAGInv
  BY BuildInit, ExecuteInit DEF DAGInv
<1>2. DAGInv /\ [Next]_vars => DAGInv'
  BY DAGNext
<1> QED BY <1>1, <1>2, PTL DEF SafeSpec

-----------------------------------------------------------------------------
(* The executor implements the order of dependencies                       *)

AbstractDeps == [i \in Known |-> DepsOf(i)]
AbstractStates == [i \in Known |-> IF run[i] = "sent" THEN "ok" ELSE run[i]]

\* Before Build, every task waits.
LEMMA OrderInit == ASSUME UniqueIds, Init PROVE Order!Init
<1>1. \A i \in Known : DepsOf(i) \subseteq Ids
  BY NodeFacts DEF Init
<1>2. \A i \in Known : run[i] = "waiting"
  BY DEF Init
<1> QED BY <1>1, <1>2 DEF Order!Init

\* A task is launched when all it depends on has succeeded.
LEMMA OrderStarts ==
    ASSUME DAGInv, NEW i \in Known, Launch(i)
    PROVE  Order!Start(i)
<1>1. /\ phase = "launch" /\ i \in order[layer] /\ run[i] = "waiting"
      /\ run' = [run EXCEPT ![i] = "running"] /\ UNCHANGED dependsOn
  BY DEF Launch, Unlaunched, graphVars
<1>2. layer \in DOMAIN order /\ layer <= layer
  BY <1>1, LayerFacts DEF DAGInv, ExecuteInv, LayerInv
<1>3. \A d \in DepsOf(i) : d \in Known /\ run[d] = "ok"
  BY <1>1, <1>2, DepsDone DEF DAGInv
<1>4. AbstractStates[i] = "waiting" /\ AbstractDeps[i] = DepsOf(i)
  BY <1>1 DEF AbstractStates, AbstractDeps
<1>5. \A d \in AbstractDeps[i] : d \in Known /\ AbstractStates[d] = "ok"
  BY <1>3, <1>4 DEF AbstractStates
<1>6. AbstractStates' = [AbstractStates EXCEPT ![i] = "running"]
  BY <1>1 DEF AbstractStates, DAGInv, ExecuteInv, ExecuteTypes
<1>7. AbstractDeps' = AbstractDeps
  BY <1>1 DEF AbstractDeps, DepsOf
<1> QED BY <1>4, <1>5, <1>6, <1>7 DEF Order!Start, AbstractStates, AbstractDeps

\* A call's end ends its task.
LEMMA OrderFinishes ==
    ASSUME DAGInv, NEW i \in Known, AgentReturns(i)
    PROVE  Order!Finish(i)
<1>1. /\ run[i] = "running" /\ UNCHANGED dependsOn
      /\ run' = [run EXCEPT ![i] = "sent"] \/ run' = [run EXCEPT ![i] = "failed"]
  BY DEF AgentReturns, TaskSucceeds, TaskFails, graphVars
<1>2. AbstractStates[i] = "running"
  BY <1>1 DEF AbstractStates
<1>3. \E result \in {"ok", "failed"} : AbstractStates' = [AbstractStates EXCEPT ![i] = result]
  <2>1. CASE run' = [run EXCEPT ![i] = "sent"]
    <3>1. AbstractStates' = [AbstractStates EXCEPT ![i] = "ok"]
      BY <2>1 DEF AbstractStates, DAGInv, ExecuteInv, ExecuteTypes
    <3> QED BY <3>1
  <2>2. CASE run' = [run EXCEPT ![i] = "failed"]
    <3>1. AbstractStates' = [AbstractStates EXCEPT ![i] = "failed"]
      BY <2>2 DEF AbstractStates, DAGInv, ExecuteInv, ExecuteTypes
    <3> QED BY <3>1
  <2> QED BY <1>1, <2>1, <2>2
<1>4. AbstractDeps' = AbstractDeps
  BY <1>1 DEF AbstractDeps, DepsOf
<1> QED BY <1>2, <1>3, <1>4 DEF Order!Finish, AbstractStates, AbstractDeps

\* No other step moves the abstract states.
LEMMA OrderStutters ==
    ASSUME DAGInv, UNCHANGED dependsOn,
           run' = run \/ \E i \in Known : Broadcast(i)
    PROVE  UNCHANGED <<AbstractDeps, AbstractStates>>
<1>1. AbstractDeps' = AbstractDeps
  BY DEF AbstractDeps, DepsOf
<1>2. ASSUME run' = run PROVE AbstractStates' = AbstractStates
  BY <1>2 DEF AbstractStates
<1>3. ASSUME NEW i \in Known, Broadcast(i) PROVE AbstractStates' = AbstractStates
  <2>1. run[i] = "sent" /\ run' = [run EXCEPT ![i] = "ok"]
    BY <1>3 DEF Broadcast
  <2> QED BY <2>1 DEF AbstractStates, DAGInv, ExecuteInv, ExecuteTypes
<1>4. AbstractStates' = AbstractStates
  BY <1>2, <1>3
<1> QED BY <1>1, <1>4

\* Every step of the executor is a step of the abstract order, or none.
LEMMA OrderNext ==
    ASSUME DAGInv, [Next]_vars
    PROVE  Order!Next \/ UNCHANGED <<AbstractDeps, AbstractStates>>
<1>1. ASSUME NEW i \in Known, Launch(i) \/ AgentReturns(i) PROVE Order!Next
  BY <1>1, OrderStarts, OrderFinishes DEF Order!Next
<1>2. ASSUME NEW i \in Known, Broadcast(i) PROVE UNCHANGED <<AbstractDeps, AbstractStates>>
  <2>1. UNCHANGED dependsOn
    BY <1>2 DEF Broadcast, graphVars
  <2> QED BY <1>2, <2>1, OrderStutters
<1>3. CASE \/ SortLayer \/ RejectGraph \/ Built \/ EnterLayer \/ Succeed \/ Collect
           \/ \E i \in Known : LaunchFails(i)
           \/ UNCHANGED vars
  <2>1. run' = run /\ UNCHANGED dependsOn
    BY <1>3 DEF SortLayer, RejectGraph, Built, EnterLayer, Succeed, Collect, LaunchFails,
                vars, graphVars
  <2> QED BY <2>1, OrderStutters
<1> QED BY <1>1, <1>2, <1>3 DEF Next, Caller

-----------------------------------------------------------------------------
(* Inside the orchestrator                                                 *)

\* Until the tasks are routed, Build has not begun.
RoutingInv == op \in {"starting", "ready", "setup"} => phase = "build"

OrchestratorInv == DAGInv /\ RoutingInv

\* The orchestrator's steps, as the executor sees them.
LEMMA ExecutorSteps ==
    ASSUME [OrchestratorNext]_allVars
    PROVE  \/ Step \/ RouteTasks
           \/ (\E i \in Known : TaskReturns(i) \/ TaskBroadcasts(i))
           \/ /\ UNCHANGED vars
              /\ op' = op \/ op' \notin {"starting", "ready", "setup"}
                 \/ op \in {"starting", "ready"}
<1>1. ASSUME NEW a \in Agents, StartAgent(a) \/ StartFails(a) \/ MergeOne(a)
      PROVE  UNCHANGED vars /\ (op' = op \/ op \in {"starting", "ready"})
  BY <1>1 DEF StartAgent, StartFails, MergeOne
<1>2. ASSUME RefuseTasks \/ BeginTasks \/ RunSingle \/ RunConsensus
      PROVE  UNCHANGED vars /\ op \in {"starting", "ready"}
  BY <1>2 DEF RefuseTasks, BeginTasks, RunSingle, RunConsensus, Ask
<1>3. ASSUME NEW i \in Known, SetupWorktree(i) PROVE UNCHANGED vars /\ op' = op
  BY <1>3 DEF SetupWorktree
<1>4. ASSUME ReturnTasks \/ CleanWorktrees \/ CollectAnswers \/ JudgeReturns \/ Stop
      PROVE  UNCHANGED vars /\ op' \notin {"starting", "ready", "setup"}
  BY <1>4 DEF ReturnTasks, CleanWorktrees, CollectAnswers, JudgeReturns, Stop
<1>5. ASSUME NEW a \in DOMAIN answer, Answers(a) PROVE UNCHANGED vars /\ op' = op
  BY <1>5 DEF Answers, controlVars
<1>6. ASSUME UNCHANGED allVars PROVE UNCHANGED vars /\ op' = op
  BY <1>6 DEF allVars, orchestratorVars, controlVars
<1> QED BY <1>1, <1>2, <1>3, <1>4, <1>5, <1>6 DEF OrchestratorNext, Main

\* The orchestrator runs the executor as it is: only routing changes what it is
\* given, before Build sorts.
LEMMA OrchestratorStep ==
    ASSUME UniqueIds, OrchestratorInv, [OrchestratorNext]_allVars
    PROVE  OrchestratorInv'
<1> USE DEF OrchestratorInv
<1>1. CASE UNCHANGED vars /\ (op' = op \/ op' \notin {"starting", "ready", "setup"}
                                 \/ op \in {"starting", "ready"})
  <2>1. DAGInv'
    BY <1>1, DAGNext
  <2>2. phase' = phase
    BY <1>1 DEF vars
  <2> QED BY <1>1, <2>1, <2>2 DEF RoutingInv
<1>2. CASE Step
  <2>1. op = "dag" /\ op' = op /\ Caller
    BY <1>2 DEF Step, orchestratorVars, controlVars
  <2>2. DAGInv'
    BY <2>1, DAGNext DEF Next
  <2> QED BY <2>1, <2>2 DEF RoutingInv
<1>3. ASSUME NEW i \in Known, TaskReturns(i) \/ TaskBroadcasts(i) PROVE OrchestratorInv'
  <2>1. AgentReturns(i) \/ Broadcast(i)
    BY <1>3 DEF TaskReturns, TaskBroadcasts
  <2>2. DAGInv'
    BY <2>1, DAGNext DEF Next
  <2>3. op' = op
    BY <1>3 DEF TaskReturns, TaskBroadcasts, orchestratorVars, controlVars
  <2>4. phase' = phase
    BY <2>1 DEF AgentReturns, TaskSucceeds, TaskFails, Broadcast
  <2> QED BY <2>2, <2>3, <2>4 DEF RoutingInv
<1>4. CASE RouteTasks
  <2>1. /\ op' = "dag" /\ phase = "build" /\ noAgent' \subseteq Known
        /\ UNCHANGED <<dependsOn, phase, buildVars, layer, run, blank, injected, results, cancelled>>
    BY <1>4 DEF RouteTasks, RoutingInv
  <2>2. BuildInv'
    BY <2>1, BuildKept DEF DAGInv
  <2>3. ExecuteInv'
    BY <2>1, <2>2, ExecuteWaits DEF DAGInv
  <2> QED BY <2>1, <2>2, <2>3 DEF DAGInv, RoutingInv
<1> QED BY <1>1, <1>2, <1>3, <1>4, ExecutorSteps

\* What the executor keeps, it keeps inside the orchestrator.
LEMMA OrchestratorInvariant == ASSUME UniqueIds PROVE OrchestratorSpec => []OrchestratorInv
<1>1. OrchestratorInit => OrchestratorInv
  BY BuildInit, ExecuteInit DEF OrchestratorInit, OrchestratorInv, DAGInv, RoutingInv, Init
<1>2. OrchestratorInv /\ [OrchestratorNext]_allVars => OrchestratorInv'
  BY OrchestratorStep
<1> QED BY <1>1, <1>2, PTL DEF OrchestratorSpec

\* Inside the orchestrator, too, each step is one of the abstract order or none.
LEMMA OrchestratorOrderNext ==
    ASSUME OrchestratorInv, [OrchestratorNext]_allVars
    PROVE  Order!Next \/ UNCHANGED <<AbstractDeps, AbstractStates>>
<1>1. CASE UNCHANGED vars
  BY <1>1, OrderNext DEF OrchestratorInv
<1>2. CASE Step \/ \E i \in Known : TaskReturns(i) \/ TaskBroadcasts(i)
  <2>1. Next
    BY <1>2 DEF Step, TaskReturns, TaskBroadcasts, Next
  <2> QED BY <2>1, OrderNext DEF OrchestratorInv
<1>3. CASE RouteTasks
  <2>1. run' = run /\ UNCHANGED dependsOn
    BY <1>3 DEF RouteTasks
  <2> QED BY <2>1, OrderStutters DEF OrchestratorInv
<1> QED BY <1>1, <1>2, <1>3, ExecutorSteps

-----------------------------------------------------------------------------
(* Worktrees, work and costs                                               *)

WorkTypes ==
    /\ setup \in Setups
    /\ up \subseteq Agents
    /\ trees \subseteq Agents
    /\ todo \subseteq Agents
    /\ workDir \in [Known -> Agents \cup {NoAgent}]
    /\ made \subseteq Known
    /\ changed \in [Agents -> SUBSET Known] /\ branch \in [Agents -> SUBSET Known]
    /\ answer \in [Agents \cup {Judge} -> {"none", "asked", "ok", "failed"}]

\* The router finds an agent for every task or for none, so that outside of
\* Execute no goroutine runs.
IdleInv ==
    /\ noAgent \in {{}, Known}
    /\ op # "dag" => \A i \in Known : run[i] \notin {"running", "sent"}

\* A worktree is given to one task, and kept until the merge.
TreesInv ==
    /\ op \in {"starting", "ready"} => \A i \in Known : workDir[i] = NoAgent
    /\ op = "setup" => \A i \in Known : workDir[i] \notin todo
    /\ op \in {"setup", "dag", "merging"} =>
          \A i \in Known : workDir[i] # NoAgent => workDir[i] \in trees
    /\ \A i, j \in Known : workDir[i] # NoAgent /\ workDir[j] = workDir[i] => j = i

\* Work that lies in its task's worktree or on its branch.
Held(i) == workDir[i] # NoAgent /\ i \in changed[workDir[i]] \cup branch[workDir[i]]

Reported(i) == workDir[i] # NoAgent /\ workDir[i] \in reported

\* Work is held until its worktree's turn to merge comes.
WorkInv ==
    /\ op \in {"starting", "ready", "setup", "asked", "judging"} \/ ~setup.git => made = {}
    /\ op = "dag" => \A i \in made : i \in main \/ Held(i)
    /\ op = "merging" =>
          \A i \in made : i \in main \/ Reported(i) \/ (Held(i) /\ workDir[i] \in todo)
    /\ LostWorkWasReported

\* Tasks run for one entry of the orchestrator, prompts are asked for the other,
\* and there is no result before the last call was made.
AccountInv ==
    /\ op \in {"setup", "dag", "merging"} => setup.entry = "RunWithTasks"
    /\ op \in {"asked", "judging"} => setup.entry = "Run"
    /\ \A i \in Known : run[i] # "waiting" => setup.entry = "RunWithTasks"
    /\ \A a \in DOMAIN answer : answer[a] # "none" => setup.entry = "Run"
    /\ op \in {"starting", "ready"} => \A a \in DOMAIN answer : answer[a] = "none"
    /\ \A a \in Agents : answer[a] = "asked" => op = "asked"
    /\ answer[Judge] = "asked" => op = "judging"
    /\ op = "asked" => answer[Judge] = "none"
    /\ op \notin {"merging", "over", "exited", "stopped"} => final = -1
    /\ op \in {"merging", "over", "exited", "stopped"} =>
          /\ final >= 0 => final = Paid
          /\ final < 0 /\ setup.entry = "Run" => Paid = 0

ResultInv == WorkTypes /\ IdleInv /\ TreesInv /\ WorkInv /\ AccountInv

\* Among agents that are up, one has the most matching tags.
LEMMA BestExists ==
    ASSUME NEW i \in Known, up \subseteq Agents, up # {}
    PROVE  Best(i) # {}
<1> DEFINE better(a) == {b \in up : Matches[i][b] > Matches[i][a]}
           T == {better(a) : a \in up}
<1>1. i \in Ids /\ \A a \in up : Matches[i][a] \in Nat
  BY DAGAssumption, OrchestratorAssumption DEF Known
<1>2. IsFiniteSet(up)
  BY OrchestratorAssumption, FS_Subset
<1>3. T \subseteq FiniteSubsetsOf(up) /\ T # {}
  <2>1. \A a \in up : better(a) \in SUBSET up /\ IsFiniteSet(better(a))
    BY <1>2, FS_Subset
  <2> QED BY <2>1 DEF FiniteSubsetsOf
<1>4. \E t \in T : \A u \in T : <<u, t>> \notin StrictSubsetOrdering(up)
  <2> HIDE DEF T
  <2> QED BY <1>3, FS_StrictSubsetOrderingWellFounded, WFMin
<1>5. PICK a \in up : \A u \in T : <<u, better(a)>> \notin StrictSubsetOrdering(up)
  BY <1>4
<1>6. better(a) = {}
  <2> SUFFICES ASSUME NEW b \in better(a) PROVE FALSE
    OBVIOUS
  <2>1. b \in up /\ Matches[i][b] > Matches[i][a]
    OBVIOUS
  <2>2. better(b) \subseteq better(a)
    BY <1>1, <2>1
  <2>3. b \notin better(b)
    BY <1>1
  <2>4. better(b) # better(a)
    BY <2>3
  <2>5. <<better(b), better(a)>> \in StrictSubsetOrdering(up)
    BY <2>2, <2>4 DEF StrictSubsetOrdering
  <2>6. better(b) \in T
    BY <2>1
  <2> QED BY <1>5, <2>5, <2>6
<1>7. \A b \in up : Matches[i][b] <= Matches[i][a]
  BY <1>1, <1>6
<1> QED BY <1>7 DEF Best

\* The router finds an agent for every task, or for none: none is up, or the
\* strategy does not route.
LEMMA RouteAllOrNone ==
    ASSUME up \subseteq Agents
    PROVE  {i \in Known : Route(i) = {}} \in {{}, Known}
<1>1. CASE up = {} \/ setup.strategy = "consensus"
  <2>1. \A i \in Known : Route(i) = {}
    BY <1>1 DEF Route, Best, Cheapest
  <2> QED BY <2>1
<1>2. CASE up # {} /\ setup.strategy # "consensus"
  <2>1. \A i \in Known : Route(i) # {}
    BY <1>2, BestExists DEF Route
  <2> QED BY <2>1
<1> QED BY <1>1, <1>2

\* Every step keeps the types of what the orchestrator has.
LEMMA WorkTypesNext ==
    ASSUME WorkTypes, [OrchestratorNext]_allVars
    PROVE  WorkTypes'
<1> USE DEF WorkTypes
<1>1. ASSUME NEW a \in Agents, StartAgent(a) \/ StartFails(a) PROVE WorkTypes'
  BY <1>1 DEF StartAgent, StartFails, workspaceVars
<1>2. CASE BeginTasks
  <2>1. todo' \subseteq {setup.assigned[i] : i \in Known} \ {NoAgent}
    BY <1>2 DEF BeginTasks
  <2>2. \A i \in Known : setup.assigned[i] \in Agents \cup {NoAgent}
    BY OrchestratorAssumption
  <2>3. todo' \subseteq Agents
    BY <2>1, <2>2
  <2> QED BY <1>2, <2>3 DEF BeginTasks, workspaceVars
<1>3. CASE RefuseTasks \/ RouteTasks \/ Step \/ ReturnTasks
  BY <1>3 DEF RefuseTasks, RouteTasks, Step, ReturnTasks, workspaceVars, orchestratorVars,
              controlVars
<1>4. ASSUME NEW i \in Known, SetupWorktree(i) PROVE WorkTypes'
  <2> DEFINE a == setup.assigned[i]
  <2>1. a \in todo /\ todo' = todo \ {a} /\ UNCHANGED <<setup, up, made, answer>>
    BY <1>4 DEF SetupWorktree
  <2>2. CASE UNCHANGED <<workspaceVars, workDir>>
    BY <2>1, <2>2 DEF workspaceVars
  <2>3. CASE CreateWorktree(a) /\ workDir' = [workDir EXCEPT ![i] = a]
    <3>1. trees' = trees \cup {a} /\ trees' \subseteq Agents
      BY <2>1, <2>3 DEF CreateWorktree
    <3>2. changed' \in [Agents -> SUBSET Known] /\ branch' \in [Agents -> SUBSET Known]
      BY <2>3 DEF CreateWorktree, RemoveWorktreeDir
    <3>3. workDir' \in [Known -> Agents \cup {NoAgent}]
      BY <2>1, <2>3
    <3> QED BY <2>1, <3>1, <3>2, <3>3
  <2> QED BY <1>4, <2>2, <2>3 DEF SetupWorktree
<1>5. ASSUME NEW i \in Known, TaskReturns(i) PROVE WorkTypes'
  <2>1. UNCHANGED <<setup, up, todo, workDir, answer>>
    BY <1>5 DEF TaskReturns, controlVars
  <2>2. CASE UNCHANGED <<workspaceVars, made>>
    BY <2>1, <2>2 DEF workspaceVars
  <2>3. CASE made' = made \cup {i} /\ LeaveWorkInMain(i)
    BY <2>1, <2>3 DEF LeaveWorkInMain
  <2>4. CASE made' = made \cup {i} /\ LeaveWork(workDir[i], i) /\ workDir[i] # NoAgent
    <3>1. workDir[i] \in Agents
      BY <2>4
    <3>2. changed' \in [Agents -> SUBSET Known]
      BY <2>4, <3>1 DEF LeaveWork
    <3> QED BY <2>1, <2>4, <3>2 DEF LeaveWork
  <2> QED BY <1>5, <2>2, <2>3, <2>4 DEF TaskReturns
<1>6. ASSUME NEW i \in Known, TaskBroadcasts(i) PROVE WorkTypes'
  BY <1>6 DEF TaskBroadcasts, workspaceVars, orchestratorVars, controlVars
<1>7. ASSUME NEW a \in Agents, MergeOne(a) PROVE WorkTypes'
  <2>1. UNCHANGED <<setup, up, trees, workDir, made, answer>> /\ todo' \subseteq todo
    BY <1>7 DEF MergeOne, MergeWorktree
  <2>2. PICK commits \in BOOLEAN : CommitChanges(a, commits)
    BY <1>7 DEF MergeOne, MergeWorktree
  <2>3. branch' \in [Agents -> SUBSET Known]
    BY <2>2 DEF CommitChanges
  <2>4. changed' \in [Agents -> SUBSET Known]
    BY <2>2 DEF CommitChanges
  <2> QED BY <2>1, <2>3, <2>4
<1>8. CASE CleanWorktrees \/ Stop
  <2>1. UNCHANGED <<setup, todo, workDir, made, answer>> /\ up' \subseteq up /\ Cleanup
    BY <1>8 DEF CleanWorktrees, Stop
  <2>2. trees' = {} /\ changed' \in [Agents -> SUBSET Known] /\ branch' \in [Agents -> SUBSET Known]
    BY <2>1 DEF Cleanup, RemoveWorktreeDir
  <2> QED BY <2>1, <2>2
<1>9. ASSUME NEW agents, Ask(agents) PROVE WorkTypes'
  BY <1>9 DEF Ask, workspaceVars
<1>10. ASSUME NEW a \in DOMAIN answer, Answers(a) PROVE WorkTypes'
  BY <1>10 DEF Answers, workspaceVars, controlVars
<1>11. CASE CollectAnswers
  <2>1. answer' = answer \/ answer' = [answer EXCEPT ![Judge] = "asked"]
    BY <1>11 DEF CollectAnswers
  <2>2. answer' \in [Agents \cup {Judge} -> {"none", "asked", "ok", "failed"}]
    BY <2>1
  <2> QED BY <1>11, <2>2 DEF CollectAnswers, workspaceVars
<1>12. CASE JudgeReturns
  BY <1>12 DEF JudgeReturns, workspaceVars
<1>13. CASE UNCHANGED allVars
  BY <1>13 DEF allVars, workspaceVars, orchestratorVars, controlVars
<1>14. RunSingle \/ RunConsensus => \E agents : Ask(agents)
  BY DEF RunSingle, RunConsensus
<1> QED
  BY <1>1, <1>2, <1>3, <1>4, <1>5, <1>6, <1>7, <1>8, <1>9, <1>10, <1>11, <1>12, <1>13, <1>14
  DEF OrchestratorNext, Main

\* Where a call into the orchestrator goes, step by step: routing begins Execute,
\* and ReturnTasks ends it.
LEMMA Entering ==
    ASSUME [OrchestratorNext]_allVars
    PROVE  \/ op' = op
           \/ op = "dag" /\ ReturnTasks
           \/ op' = "dag" /\ RouteTasks
           \/ op # "dag" /\ op' # "dag"
<1>1. ASSUME NEW a \in Agents, StartAgent(a) \/ StartFails(a) \/ MergeOne(a)
      PROVE  op' = op \/ (op # "dag" /\ op' # "dag")
  BY <1>1 DEF StartAgent, StartFails, MergeOne
<1>2. ASSUME RefuseTasks \/ BeginTasks \/ RunSingle \/ RunConsensus \/ CleanWorktrees
             \/ CollectAnswers \/ JudgeReturns \/ Stop
      PROVE  op # "dag" /\ op' # "dag"
  BY <1>2 DEF RefuseTasks, BeginTasks, RunSingle, RunConsensus, Ask, CleanWorktrees,
              CollectAnswers, JudgeReturns, Stop
<1>3. ASSUME NEW i \in Known, SetupWorktree(i) \/ TaskReturns(i) \/ TaskBroadcasts(i)
      PROVE  op' = op
  BY <1>3 DEF SetupWorktree, TaskReturns, TaskBroadcasts, orchestratorVars, controlVars
<1>4. ASSUME (\E a \in DOMAIN answer : Answers(a)) \/ Step \/ UNCHANGED allVars
      PROVE  op' = op
  BY <1>4 DEF Answers, Step, allVars, orchestratorVars, controlVars
<1>5. (ReturnTasks => op = "dag") /\ (RouteTasks => op' = "dag")
  BY DEF ReturnTasks, RouteTasks
<1> QED BY <1>1, <1>2, <1>3, <1>4, <1>5 DEF OrchestratorNext, Main

\* Every step keeps the goroutines inside Execute.
LEMMA IdleNext ==
    ASSUME OrchestratorInv, WorkTypes, IdleInv, [OrchestratorNext]_allVars
    PROVE  IdleInv'
<1>1. CASE RouteTasks
  <2>1. op' = "dag" /\ noAgent' = {i \in Known : Route(i) = {}}
    BY <1>1 DEF RouteTasks
  <2>2. noAgent' \in {{}, Known}
    BY <2>1, RouteAllOrNone DEF WorkTypes
  <2> QED BY <2>1, <2>2 DEF IdleInv
<1>2. CASE Step
  <2>1. op' = "dag" /\ noAgent' = noAgent
    BY <1>2 DEF Step, Caller, SortLayer, RejectGraph, Built, EnterLayer, Succeed, Launch,
                LaunchFails, Collect, graphVars, orchestratorVars, controlVars
  <2> QED BY <2>1 DEF IdleInv
<1>3. ASSUME NEW i \in Known, TaskReturns(i) \/ TaskBroadcasts(i) PROVE IdleInv'
  <2>1. run[i] \in {"running", "sent"} /\ noAgent' = noAgent /\ op' = op
    BY <1>3 DEF TaskReturns, AgentReturns, TaskSucceeds, TaskFails, TaskBroadcasts, Broadcast,
                graphVars, orchestratorVars, controlVars
  <2> QED BY <2>1 DEF IdleInv
<1>4. CASE ReturnTasks
  <2>1. phase \in {"rejected", "ok", "error"} /\ UNCHANGED vars
    BY <1>4 DEF ReturnTasks
  <2>2. \A i \in Known : run[i] \notin {"running", "sent"}
    <3>1. CASE phase = "rejected"
      BY <3>1, NothingLaunched DEF OrchestratorInv, DAGInv
    <3>2. CASE phase \in {"ok", "error"}
      BY <3>2 DEF OrchestratorInv, DAGInv, ExecuteInv, QuietInv, ReturnsQuiet, IdleInv
    <3> QED BY <2>1, <3>1, <3>2
  <2>3. noAgent' = noAgent /\ run' = run
    BY <2>1 DEF vars, graphVars
  <2> QED BY <2>2, <2>3 DEF IdleInv
<1>5. CASE UNCHANGED vars /\ ~ReturnTasks /\ ~RouteTasks
  <2>1. noAgent' = noAgent /\ run' = run
    BY <1>5 DEF vars, graphVars
  <2>2. op' = op \/ (op # "dag" /\ op' # "dag")
    BY <1>5, Entering
  <2> QED BY <2>1, <2>2 DEF IdleInv
<1> QED BY <1>1, <1>2, <1>3, <1>4, <1>5, ExecutorSteps

\* Nothing happens to the worktrees.
LEMMA TreesKept ==
    ASSUME WorkTypes, TreesInv, UNCHANGED <<workDir, trees>>,
           \/ op' = op /\ todo' = todo
           \/ op' = op /\ op # "setup"
           \/ op' = "ready" /\ op = "starting"
           \/ op' = "setup" /\ op = "ready" /\ NoAgent \notin todo'
           \/ op' = "dag" /\ op = "setup"
           \/ op' = "merging" /\ op = "dag"
           \/ op' \in {"over", "exited", "stopped", "asked", "judging"}
    PROVE  TreesInv'
BY DEF TreesInv

\* Every step gives a worktree to one task, and keeps it.
LEMMA TreesNext ==
    ASSUME WorkTypes, TreesInv, [OrchestratorNext]_allVars
    PROVE  TreesInv'
<1>1. ASSUME NEW a \in Agents, StartAgent(a) \/ StartFails(a) \/ MergeOne(a) PROVE TreesInv'
  <2>1. UNCHANGED <<workDir, trees>>
    BY <1>1 DEF StartAgent, StartFails, MergeOne, MergeWorktree, workspaceVars
  <2>2. \/ op' = op /\ op # "setup"
        \/ op' = "ready" /\ op = "starting"
        \/ op' = "exited"
    BY <1>1 DEF StartAgent, StartFails, MergeOne
  <2> QED BY <2>1, <2>2, TreesKept
<1>2. CASE BeginTasks
  BY <1>2, TreesKept DEF BeginTasks, workspaceVars
<1>3. CASE RouteTasks
  BY <1>3, TreesKept DEF RouteTasks, workspaceVars
<1>4. CASE ReturnTasks
  BY <1>4, TreesKept DEF ReturnTasks, workspaceVars
<1>5. CASE Step \/ \E i \in Known : TaskBroadcasts(i)
  BY <1>5, TreesKept DEF Step, TaskBroadcasts, workspaceVars, orchestratorVars, controlVars
<1>6. ASSUME NEW i \in Known, TaskReturns(i) PROVE TreesInv'
  <2>1. UNCHANGED <<op, todo, workDir>>
    BY <1>6 DEF TaskReturns, controlVars
  <2>2. trees' = trees
    BY <1>6 DEF TaskReturns, LeaveWork, LeaveWorkInMain, workspaceVars
  <2> QED BY <2>1, <2>2, TreesKept
<1>7. ASSUME NEW i \in Known, SetupWorktree(i) PROVE TreesInv'
  <2> DEFINE a == setup.assigned[i]
  <2>1. a \in todo /\ todo' = todo \ {a} /\ op = "setup" /\ op' = "setup"
    BY <1>7 DEF SetupWorktree
  <2>2. CASE UNCHANGED <<workspaceVars, workDir>>
    BY <2>1, <2>2 DEF TreesInv, workspaceVars
  <2>3. CASE CreateWorktree(a) /\ workDir' = [workDir EXCEPT ![i] = a]
    <3>1. trees' = trees \cup {a}
      BY <2>3 DEF CreateWorktree
    <3>2. workDir'[i] = a /\ \A j \in Known : j # i => workDir'[j] = workDir[j]
      BY <2>3 DEF WorkTypes
    <3>3. \A j \in Known : workDir[j] # a
      BY <2>1 DEF TreesInv
    <3>4. \A j \in Known : workDir'[j] \notin todo'
      BY <2>1, <3>2 DEF TreesInv
    <3>5. \A j \in Known : workDir'[j] # NoAgent => workDir'[j] \in trees'
      BY <2>1, <3>1, <3>2 DEF TreesInv
    <3>6. \A j, k \in Known : workDir'[j] # NoAgent /\ workDir'[k] = workDir'[j] => k = j
      BY <3>2, <3>3 DEF TreesInv
    <3> QED BY <2>1, <3>4, <3>5, <3>6 DEF TreesInv
  <2> QED BY <1>7, <2>2, <2>3 DEF SetupWorktree
<1>8. CASE CleanWorktrees \/ Stop
  <2>1. op' \in {"over", "exited", "stopped"} /\ workDir' = workDir
    BY <1>8 DEF CleanWorktrees, Stop
  <2> QED BY <2>1 DEF TreesInv
<1>9. CASE RefuseTasks \/ CollectAnswers \/ JudgeReturns
  BY <1>9, TreesKept DEF RefuseTasks, CollectAnswers, JudgeReturns, workspaceVars
<1>10. ASSUME NEW agents, Ask(agents) PROVE TreesInv'
  BY <1>10, TreesKept DEF Ask, workspaceVars
<1>11. ASSUME NEW a \in DOMAIN answer, Answers(a) PROVE TreesInv'
  BY <1>11, TreesKept DEF Answers, workspaceVars, controlVars
<1>12. CASE UNCHANGED allVars
  BY <1>12, TreesKept DEF allVars, workspaceVars, orchestratorVars, controlVars
<1>13. RunSingle \/ RunConsensus => \E agents : Ask(agents)
  BY DEF RunSingle, RunConsensus
<1> QED
  BY <1>1, <1>2, <1>3, <1>4, <1>5, <1>6, <1>7, <1>8, <1>9, <1>10, <1>11, <1>12, <1>13
  DEF OrchestratorNext, Main

\* Nothing happens to the work.
LEMMA WorkKept ==
    ASSUME WorkInv, UNCHANGED <<setup, op, todo, workDir, made, main, reported, changed, branch>>
    PROVE  WorkInv'
BY DEF WorkInv, LostWorkWasReported, Held, Reported

\* A call leaves its changes in its task's worktree, which is there.
LEMMA WorkLeft ==
    ASSUME IdleInv, WorkTypes, TreesInv, WorkInv, NEW i \in Known, TaskReturns(i)
    PROVE  WorkInv'
<1>1. run[i] = "running" /\ UNCHANGED <<setup, op, todo, workDir>>
  BY DEF TaskReturns, AgentReturns, TaskSucceeds, TaskFails, controlVars
<1>2. op = "dag"
  BY <1>1 DEF IdleInv
<1>3. CASE UNCHANGED <<workspaceVars, made>>
  BY <1>1, <1>3, WorkKept DEF workspaceVars
<1>4. CASE setup.git /\ made' = made \cup {i} /\ LeaveWorkInMain(i)
  <2>1. main' = main \cup {i} /\ UNCHANGED <<changed, branch>>
    BY <1>4 DEF LeaveWorkInMain
  <2>2. \A j \in made' : j \in main' \/ Held(j)'
    BY <1>1, <1>2, <1>4, <2>1 DEF WorkInv, Held
  <2> QED BY <1>1, <1>2, <1>4, <2>2 DEF WorkInv, LostWorkWasReported
<1>5. CASE /\ setup.git /\ made' = made \cup {i}
           /\ LeaveWork(workDir[i], i) /\ workDir[i] # NoAgent
  <2>1. workDir[i] \in Agents /\ workDir[i] \in trees
    BY <1>2, <1>5 DEF WorkTypes, TreesInv
  <2>2. /\ changed' = [changed EXCEPT ![workDir[i]] = @ \cup {i}]
        /\ UNCHANGED <<branch, main>>
    BY <1>5, <2>1 DEF LeaveWork
  <2>3. i \in changed'[workDir[i]] /\ \A a \in Agents : changed[a] \subseteq changed'[a]
    BY <2>1, <2>2 DEF WorkTypes
  <2>4. ASSUME NEW j \in made' PROVE j \in main' \/ Held(j)'
    <3>1. CASE j = i
      BY <1>1, <1>5, <2>3, <3>1 DEF Held
    <3>2. CASE j # i
      <4>1. j \in made /\ j \in Known
        BY <1>5, <2>4, <3>2 DEF WorkTypes
      <4>2. j \in main \/ Held(j)
        BY <1>2, <4>1 DEF WorkInv
      <4>3. workDir[j] # NoAgent => workDir[j] \in Agents
        BY <4>1 DEF WorkTypes
      <4> QED BY <1>1, <2>2, <2>3, <4>2, <4>3 DEF Held
    <3> QED BY <3>1, <3>2
  <2> QED BY <1>1, <1>2, <1>5, <2>4 DEF WorkInv, LostWorkWasReported
<1> QED BY <1>3, <1>4, <1>5 DEF TaskReturns

\* A worktree's turn: all its work is merged, or its agent is reported.
LEMMA WorkMerged ==
    ASSUME WorkTypes, WorkInv, NEW a \in Agents, MergeOne(a)
    PROVE  WorkInv'
<1>1. /\ op = "merging" /\ todo' = todo \ {a}
      /\ UNCHANGED <<setup, op, workDir, made>>
  BY DEF MergeOne
<1>2. PICK commits \in BOOLEAN, merges \in BOOLEAN, conflict \in BOOLEAN :
        LET merged == merges /\ ~merging /\ ~conflict IN
        /\ CommitChanges(a, commits)
        /\ main' = IF merged THEN main \cup branch'[a] ELSE main
        /\ reported' = IF commits /\ merged THEN reported ELSE reported \cup {a}
  BY DEF MergeOne, MergeWorktree
<1>3. main \subseteq main' /\ reported \subseteq reported'
  BY <1>2
<1>4. \/ a \in reported'
      \/ changed[a] \cup branch[a] \subseteq main'
  <2>1. CASE commits /\ merges /\ ~merging /\ ~conflict
    <3>1. branch'[a] = branch[a] \cup changed[a]
      BY <1>2, <2>1 DEF CommitChanges, WorkTypes
    <3> QED BY <1>2, <2>1, <3>1
  <2>2. CASE ~(commits /\ merges /\ ~merging /\ ~conflict)
    BY <1>2, <2>2
  <2> QED BY <2>1, <2>2
<1>5. \A b \in Agents : b # a => changed'[b] = changed[b] /\ branch'[b] = branch[b]
  BY <1>2 DEF CommitChanges, WorkTypes
<1>6. ASSUME NEW i \in made'
      PROVE  i \in main' \/ Reported(i)' \/ (Held(i)' /\ workDir'[i] \in todo')
  <2>1. i \in Known /\ (i \in main \/ Reported(i) \/ (Held(i) /\ workDir[i] \in todo))
    BY <1>1, <1>6 DEF WorkInv, WorkTypes
  <2>2. CASE i \in main
    BY <1>3, <2>2
  <2>3. CASE Reported(i)
    BY <1>1, <1>3, <2>3 DEF Reported
  <2>4. CASE Held(i) /\ workDir[i] = a
    BY <1>1, <1>4, <2>4 DEF Held, Reported
  <2>5. CASE Held(i) /\ workDir[i] \in todo /\ workDir[i] # a
    <3>1. workDir[i] \in Agents
      BY <2>1, <2>5 DEF WorkTypes, Held
    <3> QED BY <1>1, <1>5, <2>5, <3>1 DEF Held
  <2> QED BY <2>1, <2>2, <2>3, <2>4, <2>5
<1>7. made' # {} => setup'.git
  BY <1>1 DEF WorkInv
<1> QED BY <1>1, <1>6, <1>7 DEF WorkInv, LostWorkWasReported

\* Every step keeps track of the work.
LEMMA WorkNext ==
    ASSUME WorkTypes, IdleInv, TreesInv, WorkInv, [OrchestratorNext]_allVars
    PROVE  WorkInv'
<1>1. ASSUME made' = {} PROVE WorkInv'
  BY <1>1 DEF WorkInv, LostWorkWasReported
<1>2. ASSUME made' = made, op \in {"starting", "ready", "setup", "asked", "judging"}
      PROVE  WorkInv'
  BY <1>1, <1>2 DEF WorkInv
<1>3. ASSUME NEW a \in Agents, StartAgent(a) \/ StartFails(a) PROVE WorkInv'
  BY <1>2, <1>3 DEF StartAgent, StartFails
<1>4. CASE RefuseTasks \/ BeginTasks \/ RouteTasks \/ CollectAnswers \/ JudgeReturns
           \/ RunSingle \/ RunConsensus
  BY <1>2, <1>4 DEF RefuseTasks, BeginTasks, RouteTasks, CollectAnswers, JudgeReturns,
                    RunSingle, RunConsensus, Ask
<1>5. ASSUME NEW i \in Known, SetupWorktree(i) PROVE WorkInv'
  BY <1>2, <1>5 DEF SetupWorktree
<1>6. CASE Step \/ (\E i \in Known : TaskBroadcasts(i)) \/ UNCHANGED allVars
  <2>1. UNCHANGED <<workspaceVars, orchestratorVars>>
    BY <1>6 DEF Step, TaskBroadcasts, allVars
  <2>2. UNCHANGED <<setup, op, todo, workDir, made, main, reported, changed, branch>>
    BY <2>1 DEF workspaceVars, orchestratorVars, controlVars
  <2> QED BY <2>2, WorkKept
<1>7. ASSUME NEW a \in DOMAIN answer, Answers(a) PROVE WorkInv'
  BY <1>7, WorkKept DEF Answers, workspaceVars, controlVars
<1>8. ASSUME NEW i \in Known, TaskReturns(i) PROVE WorkInv'
  BY <1>8, WorkLeft
<1>9. CASE ReturnTasks
  <2>1. /\ op = "dag" /\ todo' = trees
        /\ op' \in {"merging", "over", "exited"} /\ (setup.git => op' = "merging")
        /\ UNCHANGED <<setup, workDir, made, main, reported, changed, branch>>
    BY <1>9 DEF ReturnTasks, workspaceVars
  <2>2. CASE made = {}
    BY <1>1, <2>1, <2>2
  <2>3. CASE made # {}
    <3>1. setup.git /\ op' = "merging"
      BY <2>1, <2>3 DEF WorkInv
    <3>2. \A i \in made : i \in main \/ (Held(i) /\ workDir[i] \in trees)
      BY <2>1 DEF WorkInv, TreesInv, WorkTypes, Held
    <3> QED BY <2>1, <3>1, <3>2 DEF WorkInv, LostWorkWasReported, Held
  <2> QED BY <2>2, <2>3
<1>10. ASSUME NEW a \in Agents, MergeOne(a) PROVE WorkInv'
  BY <1>10, WorkMerged
<1>11. CASE CleanWorktrees
  <2>1. /\ op = "merging" /\ todo = {} /\ op' \in {"over", "exited"}
        /\ UNCHANGED <<setup, workDir, made, main, reported>>
    BY <1>11 DEF CleanWorktrees, Cleanup
  <2>2. \A i \in made : i \in main \/ Reported(i)
    BY <2>1 DEF WorkInv
  <2> QED BY <2>1, <2>2 DEF WorkInv, LostWorkWasReported, Reported
<1>12. CASE Stop
  <2>1. op = "over" /\ op' = "stopped" /\ UNCHANGED <<setup, workDir, made, main, reported>>
    BY <1>12 DEF Stop, Cleanup
  <2> QED BY <2>1 DEF WorkInv, LostWorkWasReported
<1> QED
  BY <1>3, <1>4, <1>5, <1>6, <1>7, <1>8, <1>9, <1>10, <1>11, <1>12 DEF OrchestratorNext, Main

\* What a prompt has cost: the agents' answers.
LEMMA PaidForPrompt ==
    ASSUME WorkTypes, \A i \in Known : run[i] = "waiting"
    PROVE  Paid = Cardinality(Answered) /\ Cardinality(Answered) \in Nat
<1>1. IsFiniteSet(Answered) /\ Cardinality(Answered) \in Nat
  BY OrchestratorAssumption, FS_Subset, FS_CardinalityType DEF Answered
<1>2. {i \in Known : run[i] \in {"sent", "ok"}} = {}
  OBVIOUS
<1>3. Paid = 0 + Cardinality(Answered)
  BY <1>2, FS_EmptySet DEF Paid
<1> QED BY <1>1, <1>3

\* After the last layer every task has been paid for, and is in the results.
LEMMA PaidForTasks ==
    ASSUME DAGInv, WorkTypes, phase = "ok", \A a \in DOMAIN answer : answer[a] = "none"
    PROVE  Paid = Cardinality(results) /\ Cardinality(results) \in Nat
<1>1. Sorted = Known /\ results \subseteq Known
  BY DEF DAGInv, BuildInv, VerdictInv, ExecuteInv, ExecuteTypes
<1>2. ASSUME NEW i \in Known PROVE run[i] = "ok" /\ i \in results
  <2>1. PICK k \in DOMAIN order : i \in order[k]
    BY <1>1, <1>2 DEF Sorted
  <2>2. k < layer \/ k = layer
    <3>1. layer = Len(order) /\ DOMAIN order = 1..Len(order) /\ Len(order) \in Nat
      BY LayerFacts DEF DAGInv, ExecuteInv, LayerInv
    <3> QED BY <3>1
  <2> QED BY <2>1, <2>2 DEF DAGInv, ExecuteInv, LayerInv
<1>3. {i \in Known : run[i] \in {"sent", "ok"}} = Known /\ results = Known
  BY <1>1, <1>2
<1>4. Answered = {}
  BY DEF Answered, WorkTypes
<1>5. IsFiniteSet(Known) /\ Cardinality(Known) \in Nat
  <2>1. IdOf \in Surjection(Tasks, Known)
    BY DAGAssumption DEF Known, Surjection
  <2> QED BY <2>1, DAGAssumption, FS_Surjection, FS_CardinalityType
<1>6. Paid = Cardinality(Known) + 0
  BY <1>3, <1>4, FS_EmptySet DEF Paid
<1> QED BY <1>3, <1>5, <1>6

\* Nothing happens to the calls or to the result.
LEMMA AccountKept ==
    ASSUME AccountInv, UNCHANGED <<setup, answer, final, run>>,
           \/ op' = op
           \/ op' = "ready" /\ op = "starting"
           \/ op' = "setup" /\ op = "ready" /\ setup.entry = "RunWithTasks"
           \/ op' = "dag" /\ op = "setup"
           \/ op \in {"merging", "over"} /\ op' \in {"over", "exited", "stopped"}
    PROVE  AccountInv'
<1>1. Paid' = Paid
  BY DEF Paid, Answered
<1> QED BY <1>1 DEF AccountInv

\* The call ends before anything was asked.
LEMMA AccountOfNothing ==
    ASSUME OrchestratorInv, WorkTypes, AccountInv, op \in {"starting", "ready"}, op' = "exited",
           UNCHANGED <<setup, answer, final, run>>
    PROVE  AccountInv'
<1>1. \A i \in Known : run[i] = "waiting"
  BY NothingLaunched DEF OrchestratorInv, RoutingInv, DAGInv
<1>2. \A a \in DOMAIN answer : answer[a] = "none"
  BY DEF AccountInv
<1>3. final = -1 /\ Judge \in DOMAIN answer
  BY DEF AccountInv, WorkTypes
<1>4. Answered = {}
  BY <1>2 DEF Answered, WorkTypes
<1>5. Paid = 0
  BY <1>1, <1>2, <1>3, <1>4, PaidForPrompt, FS_EmptySet
<1>6. Paid' = Paid
  BY DEF Paid, Answered
<1> QED BY <1>1, <1>2, <1>3, <1>5, <1>6 DEF AccountInv, WorkTypes

\* Agents are asked, or there is none to ask.
LEMMA AccountAsk ==
    ASSUME OrchestratorInv, WorkTypes, AccountInv, op = "ready", setup.entry = "Run",
           NEW agents \in SUBSET Agents, Ask(agents)
    PROVE  AccountInv'
<1>1. /\ op' = IF agents = {} THEN "exited" ELSE "asked"
      /\ answer' = [a \in DOMAIN answer |-> IF a \in agents THEN "asked" ELSE "none"]
      /\ UNCHANGED <<setup, final, run>>
  BY DEF Ask, vars
<1>2. DOMAIN answer = Agents \cup {Judge} /\ Judge \notin Agents
  BY OrchestratorAssumption DEF WorkTypes
<1>3. CASE agents = {}
  <2>1. \A a \in DOMAIN answer : answer'[a] = answer[a]
    BY <1>1, <1>3 DEF AccountInv
  <2>2. answer' = answer
    BY <1>1, <2>1 DEF WorkTypes
  <2> QED BY <1>1, <1>3, <2>2, AccountOfNothing
<1>4. CASE agents # {}
  <2>1. op' = "asked" /\ answer'[Judge] = "none" /\ DOMAIN answer' = Agents \cup {Judge}
    BY <1>1, <1>2, <1>4
  <2>2. \A i \in Known : run'[i] # "waiting" => setup'.entry = "RunWithTasks"
    BY <1>1 DEF AccountInv
  <2> QED BY <1>1, <2>1, <2>2 DEF AccountInv
<1> QED BY <1>3, <1>4

\* The answers are in: they are the result, or go to the judge.
LEMMA AccountCollect ==
    ASSUME WorkTypes, AccountInv, CollectAnswers PROVE AccountInv'
<1> DEFINE none == Answered = {}
           judged == setup.judge /\ Cardinality(Answered) > 1
<1>1. /\ op = "asked" /\ \A a \in Agents : answer[a] # "asked"
      /\ op' = IF none THEN "exited" ELSE IF judged THEN "judging" ELSE "over"
      /\ answer' = IF judged THEN [answer EXCEPT ![Judge] = "asked"] ELSE answer
      /\ final' = IF none \/ judged THEN -1 ELSE Cardinality(Answered)
      /\ UNCHANGED <<setup, run>>
  BY DEF CollectAnswers, vars
<1>2. setup.entry = "Run" /\ answer[Judge] = "none" /\ \A i \in Known : run[i] = "waiting"
  BY <1>1 DEF AccountInv
<1>3. Paid = Cardinality(Answered) /\ Cardinality(Answered) \in Nat
  BY <1>2, PaidForPrompt
<1>4. none => Cardinality(Answered) = 0
  BY FS_EmptySet
<1>5. CASE judged
  <2>1. ~none
    BY <1>4, <1>5
  <2>2. op' = "judging" /\ final' = -1 /\ answer' = [answer EXCEPT ![Judge] = "asked"]
    BY <1>1, <1>5, <2>1
  <2>3. \A a \in Agents : answer'[a] # "asked"
    BY <1>1, <2>2, OrchestratorAssumption DEF WorkTypes
  <2> QED BY <1>1, <1>2, <2>2, <2>3 DEF AccountInv
<1>6. CASE ~judged
  <2>1. answer' = answer /\ Paid' = Paid
    BY <1>1, <1>6 DEF Paid, Answered
  <2>2. CASE none
    <3>1. op' = "exited" /\ final' = -1
      BY <1>1, <2>2
    <3> QED BY <1>1, <1>2, <1>3, <1>4, <2>1, <2>2, <3>1 DEF AccountInv
  <2>3. CASE ~none
    <3>1. op' = "over" /\ final' = Cardinality(Answered)
      BY <1>1, <1>6, <2>3
    <3> QED BY <1>1, <1>2, <1>3, <2>1, <3>1 DEF AccountInv
  <2> QED BY <2>2, <2>3
<1> QED BY <1>5, <1>6

\* The judge takes nothing from the account and adds nothing.
LEMMA AccountJudge == ASSUME WorkTypes, AccountInv, JudgeReturns PROVE AccountInv'
<1>1. /\ op = "judging" /\ answer[Judge] # "asked" /\ op' = "over"
      /\ final' = Cardinality(Answered)
      /\ UNCHANGED <<setup, run, answer>>
  BY DEF JudgeReturns, vars
<1>2. setup.entry = "Run" /\ \A i \in Known : run[i] = "waiting"
  BY <1>1 DEF AccountInv
<1>3. final' = Paid /\ final' \in Nat
  BY <1>1, <1>2, PaidForPrompt
<1>4. Paid' = Paid
  BY <1>1 DEF Paid, Answered
<1>5. \A a \in Agents : answer[a] # "asked"
  BY <1>1 DEF AccountInv
<1> QED BY <1>1, <1>2, <1>3, <1>4, <1>5 DEF AccountInv

\* Every step keeps the account.
LEMMA AccountNext ==
    ASSUME OrchestratorInv, WorkTypes, IdleInv, AccountInv, [OrchestratorNext]_allVars
    PROVE  AccountInv'
<1>1. ASSUME NEW a \in Agents, StartAgent(a) PROVE AccountInv'
  <2>1. op = "starting" /\ op' \in {"starting", "ready"} /\ UNCHANGED <<setup, answer, final, run>>
    BY <1>1 DEF StartAgent, vars
  <2> QED BY <2>1, AccountKept
<1>2. ASSUME NEW a \in Agents, StartFails(a) PROVE AccountInv'
  <2>1. op = "starting" /\ op' = "exited" /\ UNCHANGED <<setup, answer, final, run>>
    BY <1>2 DEF StartFails, vars
  <2> QED BY <2>1, AccountOfNothing
<1>3. CASE RefuseTasks
  <2>1. op = "ready" /\ op' = "exited" /\ UNCHANGED <<setup, answer, final, run>>
    BY <1>3 DEF RefuseTasks, vars
  <2> QED BY <2>1, AccountOfNothing
<1>4. CASE BeginTasks \/ RouteTasks \/ CleanWorktrees \/ Stop
  <2>1. UNCHANGED <<setup, answer, final, run>>
    BY <1>4 DEF BeginTasks, RouteTasks, CleanWorktrees, Stop, vars
  <2> QED BY <1>4, <2>1, AccountKept DEF BeginTasks, RouteTasks, CleanWorktrees, Stop
<1>5. ASSUME NEW i \in Known, SetupWorktree(i) PROVE AccountInv'
  <2>1. UNCHANGED <<setup, answer, final, run, op>>
    BY <1>5 DEF SetupWorktree, vars
  <2> QED BY <2>1, AccountKept
<1>6. ASSUME NEW a \in Agents, MergeOne(a) PROVE AccountInv'
  <2>1. UNCHANGED <<setup, answer, final, run, op>>
    BY <1>6 DEF MergeOne, vars
  <2> QED BY <2>1, AccountKept
<1>7. CASE UNCHANGED allVars
  <2>1. UNCHANGED <<setup, answer, final, run, op>>
    BY <1>7 DEF allVars, vars, orchestratorVars, controlVars
  <2> QED BY <2>1, AccountKept
<1>8. CASE Step \/ \E i \in Known : TaskReturns(i) \/ TaskBroadcasts(i)
  <2>1. op = "dag"
    BY <1>8 DEF Step, TaskReturns, AgentReturns, TaskSucceeds, TaskFails, TaskBroadcasts, Broadcast,
                IdleInv
  <2>2. UNCHANGED <<setup, answer, final, op>>
    BY <1>8 DEF Step, TaskReturns, TaskBroadcasts, orchestratorVars, controlVars
  <2> QED BY <2>1, <2>2 DEF AccountInv
<1>9. CASE ReturnTasks
  <2>1. /\ op = "dag" /\ op' \in {"merging", "over", "exited"}
        /\ final' = IF phase = "ok" THEN Cardinality(results) ELSE -1
        /\ UNCHANGED <<setup, answer, run>>
    BY <1>9 DEF ReturnTasks, vars
  <2>2. setup.entry = "RunWithTasks" /\ \A a \in DOMAIN answer : answer[a] = "none"
    <3>1. setup.entry = "RunWithTasks"
      BY <2>1 DEF AccountInv
    <3> QED BY <3>1 DEF AccountInv
  <2>3. phase = "ok" => Paid = Cardinality(results)
    BY <2>2, PaidForTasks DEF OrchestratorInv
  <2>4. final' >= 0 => final' = Paid
    BY <2>1, <2>3
  <2>5. Paid' = Paid /\ Judge \in DOMAIN answer /\ Agents \subseteq DOMAIN answer
    BY <2>1 DEF Paid, Answered, WorkTypes
  <2> QED BY <2>1, <2>2, <2>4, <2>5 DEF AccountInv
<1>10. CASE RunSingle
  <2>1. op = "ready" /\ setup.entry = "Run"
    BY <1>10 DEF RunSingle
  <2>2. \A i \in Known : Route(i) \subseteq up
    BY DEF Route, Best, Cheapest
  <2>3. PICK agents \in SUBSET Agents : Ask(agents)
    BY <1>10, <2>2 DEF RunSingle, WorkTypes
  <2> QED BY <2>1, <2>3, AccountAsk
<1>11. CASE RunConsensus
  <2>1. op = "ready" /\ setup.entry = "Run" /\ up \in SUBSET Agents /\ Ask(up)
    BY <1>11 DEF RunConsensus, WorkTypes
  <2> QED BY <2>1, AccountAsk
<1>12. ASSUME NEW a \in DOMAIN answer, Answers(a) PROVE AccountInv'
  <2>1. PICK reply \in {"ok", "failed"} : answer' = [answer EXCEPT ![a] = reply]
    BY <1>12 DEF Answers
  <2>2. answer[a] = "asked" /\ UNCHANGED <<setup, op, final, run>>
    BY <1>12 DEF Answers, vars, controlVars
  <2>3. setup.entry = "Run" /\ op \in {"asked", "judging"} /\ (op = "asked" => a # Judge)
    BY <2>2 DEF AccountInv, WorkTypes
  <2>4. /\ answer'[Judge] = "asked" => answer[Judge] = "asked"
        /\ a # Judge => answer'[Judge] = answer[Judge]
        /\ \A b \in Agents : answer'[b] = "asked" => answer[b] = "asked"
    BY <2>1 DEF WorkTypes
  <2> QED BY <2>2, <2>3, <2>4 DEF AccountInv
<1>13. CASE CollectAnswers
  BY <1>13, AccountCollect
<1>14. CASE JudgeReturns
  BY <1>14, AccountJudge
<1> QED
  BY <1>1, <1>2, <1>3, <1>4, <1>5, <1>6, <1>7, <1>8, <1>9, <1>10, <1>11, <1>12, <1>13, <1>14
  DEF OrchestratorNext, Main

\* ResultInv holds when the orchestrator is made.
LEMMA ResultInit == ASSUME OrchestratorInit PROVE ResultInv
<1>1. WorkTypes
  BY DEF OrchestratorInit, WorkspaceInit, WorkTypes
<1>2. IdleInv /\ TreesInv
  BY DEF OrchestratorInit, Init, WorkspaceInit, IdleInv, TreesInv
<1>3. WorkInv
  BY DEF OrchestratorInit, WorkInv, LostWorkWasReported
<1>4. AccountInv
  BY DEF OrchestratorInit, Init, AccountInv
<1> QED BY <1>1, <1>2, <1>3, <1>4 DEF ResultInv

\* Both invariants hold in every behaviour of the orchestrator.
LEMMA ResultInvariant ==
    ASSUME UniqueIds PROVE OrchestratorSpec => [](OrchestratorInv /\ ResultInv)
<1>1. OrchestratorInit => ResultInv
  BY ResultInit
<1>2. OrchestratorInv /\ ResultInv /\ [OrchestratorNext]_allVars => ResultInv'
  BY WorkTypesNext, IdleNext, TreesNext, WorkNext, AccountNext DEF ResultInv
<1> QED BY <1>1, <1>2, OrchestratorInvariant, PTL DEF OrchestratorSpec

-----------------------------------------------------------------------------
(* The theorems                                                            *)

\* Build accepts exactly the graphs that can be executed, and its layers are as
\* early as they can be (DAG.Build and Execute, whatever the router finds).
THEOREM ExecutorSortsExactly == ASSUME UniqueIds PROVE SafeSpec => []BuildIsExact
<1>1. DAGInv => BuildIsExact
  BY ExactWhenBuilt DEF DAGInv
<1> QED BY <1>1, DAGInvariant, PTL

\* The same where the orchestrator runs it.
THEOREM SortsExactly == ASSUME UniqueIds PROVE OrchestratorSpec => []BuildIsExact
<1>1. OrchestratorInv => BuildIsExact
  BY ExactWhenBuilt DEF DAGInv, OrchestratorInv
<1> QED BY <1>1, OrchestratorInvariant, PTL

\* The prompt of a task that was started has the result of every task it depends
\* on that is not blank (Execute's injection of results).
THEOREM PromptsAreComplete == ASSUME UniqueIds PROVE OrchestratorSpec => []ContextIsComplete
<1>1. OrchestratorInv => ContextIsComplete
  BY CompleteContext DEF DAGInv, OrchestratorInv
<1> QED BY <1>1, OrchestratorInvariant, PTL

\* Execute returns when its goroutines have ended, unless some tasks have an agent
\* and others have none.
THEOREM NoGoroutineLeft == ASSUME UniqueIds PROVE OrchestratorSpec => []ReturnsQuiet
<1>1. OrchestratorInv => ReturnsQuiet
  BY DEF DAGInv, OrchestratorInv, ExecuteInv, QuietInv
<1> QED BY <1>1, OrchestratorInvariant, PTL

\* The executor implements the order that dependencies promise: a task starts
\* once, after all it depends on has succeeded, and ends once.
THEOREM ExecutorImplementsOrder == ASSUME UniqueIds PROVE SafeSpec => ImplementsOrder
<1>1. Init => Order!Init
  BY OrderInit
<1>2. DAGInv /\ [Next]_vars => Order!Next \/ UNCHANGED <<AbstractDeps, AbstractStates>>
  BY OrderNext
<1>3. DAGInv /\ [Next]_vars => [Order!Next]_<<[i \in Known |-> DepsOf(i)],
                                   [i \in Known |-> IF run[i] = "sent" THEN "ok" ELSE run[i]]>>
  BY <1>2 DEF AbstractDeps, AbstractStates
<1> QED BY <1>1, <1>3, DAGInvariant, PTL DEF SafeSpec, ImplementsOrder, Order!Spec

\* So does the orchestrator, whatever it routes and whenever the agents answer.
THEOREM OrchestratorImplementsOrder == ASSUME UniqueIds PROVE OrchestratorSpec => ImplementsOrder
<1>1. OrchestratorInit => Order!Init
  BY OrderInit DEF OrchestratorInit
<1>2. OrchestratorInv /\ [OrchestratorNext]_allVars
      => Order!Next \/ UNCHANGED <<AbstractDeps, AbstractStates>>
  BY OrchestratorOrderNext
<1>3. OrchestratorInv /\ [OrchestratorNext]_allVars
      => [Order!Next]_<<[i \in Known |-> DepsOf(i)],
                        [i \in Known |-> IF run[i] = "sent" THEN "ok" ELSE run[i]]>>
  BY <1>2 DEF AbstractDeps, AbstractStates
<1> QED BY <1>1, <1>3, OrchestratorInvariant, PTL DEF OrchestratorSpec, ImplementsOrder, Order!Spec

\* A step of the abstract order starts no task early.
Started == \A i \in Known : AbstractStates[i] # "waiting" =>
              \A d \in AbstractDeps[i] : d \in Known /\ AbstractStates[d] = "ok"

LEMMA StartedStep ==
    ASSUME Started, Order!Next \/ UNCHANGED <<AbstractDeps, AbstractStates>>
    PROVE  Started'
<1>1. AbstractStates = [i \in Known |-> AbstractStates[i]]
  BY DEF AbstractStates
<1>2. CASE \E i \in Known : Order!Start(i)
  <2>1. PICK i \in Known :
           /\ AbstractStates[i] = "waiting"
           /\ \A d \in AbstractDeps[i] : d \in Known /\ AbstractStates[d] = "ok"
           /\ AbstractStates' = [AbstractStates EXCEPT ![i] = "running"]
           /\ AbstractDeps' = AbstractDeps
    BY <1>2 DEF Order!Start, AbstractStates, AbstractDeps
  <2>2. /\ AbstractStates'[i] = "running"
        /\ \A o \in Known : o # i => AbstractStates'[o] = AbstractStates[o]
    BY <1>1, <2>1
  <2> QED BY <2>1, <2>2 DEF Started
<1>3. CASE \E i \in Known : Order!Finish(i)
  <2>1. PICK i \in Known :
           /\ AbstractStates[i] = "running"
           /\ \E result \in {"ok", "failed"} :
                 AbstractStates' = [AbstractStates EXCEPT ![i] = result]
           /\ AbstractDeps' = AbstractDeps
    BY <1>3 DEF Order!Finish, AbstractStates, AbstractDeps
  <2>2. /\ AbstractStates'[i] # "waiting"
        /\ \A o \in Known : o # i => AbstractStates'[o] = AbstractStates[o]
    BY <1>1, <2>1
  <2> QED BY <2>1, <2>2 DEF Started
<1>4. CASE UNCHANGED <<AbstractDeps, AbstractStates>>
  BY <1>4 DEF Started
<1> QED BY <1>2, <1>3, <1>4 DEF Order!Next

\* Hence whatever has started in the orchestrator, and all the more what has
\* succeeded, had every task it depends on submitted and done before it.
THEOREM NothingStartsEarly ==
    ASSUME UniqueIds PROVE OrchestratorSpec => []Order!DependenciesDone
<1>1. OrchestratorInit => Started
  <2> SUFFICES ASSUME OrchestratorInit PROVE Started
    OBVIOUS
  <2>1. Order!Init
    BY OrderInit DEF OrchestratorInit
  <2>2. \A i \in Known : AbstractStates[i] = "waiting"
    BY <2>1 DEF Order!Init, AbstractStates
  <2> QED BY <2>2 DEF Started
<1>2. OrchestratorInv /\ Started /\ [OrchestratorNext]_allVars => Started'
  BY OrchestratorOrderNext, StartedStep
<1>3. Started => Order!DependenciesDone
  BY DEF Started, Order!DependenciesDone, AbstractStates, AbstractDeps
<1> QED BY <1>1, <1>2, <1>3, OrchestratorInvariant, PTL DEF OrchestratorSpec

\* A task that runs in a worktree has it to itself, and the worktree stays while it
\* runs (setupWorktrees, RunWithTasks and the deferred Cleanup).
THEOREM OneTaskPerWorktree == ASSUME UniqueIds PROVE OrchestratorSpec => []WorktreeIsOwn
<1>1. OrchestratorInv /\ ResultInv => WorktreeIsOwn
  BY DEF ResultInv, IdleInv, TreesInv, WorktreeIsOwn
<1> QED BY <1>1, ResultInvariant, PTL

\* What a task changed reaches the main directory, or a failure was logged for the
\* worktree it was in (MergeAll and Cleanup).
THEOREM NoWorkSilentlyLost == ASSUME UniqueIds PROVE OrchestratorSpec => []LostWorkWasReported
<1>1. OrchestratorInv /\ ResultInv => LostWorkWasReported
  BY DEF ResultInv, WorkInv
<1> QED BY <1>1, ResultInvariant, PTL

\* A result's total is the cost of all the calls that the guard made for it, and a
\* prompt that was answered has a result (MergeResults, BestOf and judgeResults).
THEOREM TotalsAreComplete == ASSUME UniqueIds PROVE OrchestratorSpec => []FinalAccountsForAll
<1>1. OrchestratorInv /\ ResultInv => FinalAccountsForAll
  <2>1. ASSUME OrchestratorInv, ResultInv, op \in {"over", "exited", "stopped"}
        PROVE  /\ final >= 0 => final = Paid
               /\ final < 0 /\ setup.entry = "Run" => Paid = 0
    BY <2>1 DEF ResultInv, AccountInv
  <2> QED BY <2>1 DEF FinalAccountsForAll
<1> QED BY <1>1, ResultInvariant, PTL

=============================================================================
