-------------------------- MODULE DynamicDagProofs --------------------------
(***************************************************************************)
(* Proofs about DynamicDag for every set of definitions, every batch size  *)
(* and every page limit. The invariants come in layers, each inductive     *)
(* relative to the ones before it: types, the plan, the level loop, the    *)
(* verdict and the commits.                                                *)
(***************************************************************************)
EXTENDS DynamicDag, FiniteSetTheorems, TLAPS

LEMMA DefTyped ==
  ASSUME TypeOK
  PROVE  /\ def.nodes \subseteq NodeID /\ def.edges \subseteq Edges
         /\ def.type \in [NodeID -> NodeTypes] /\ def.dedupe \subseteq NodeID
         /\ def.payload \in BOOLEAN
  <1>1. def \in PipelineDefinition
    BY DefinitionsAssumption DEF TypeOK
  <1> QED BY <1>1 DEF PipelineDefinition

LEMMA NodeStageTyped ==
  ASSUME TypeOK, NEW n \in NodeID
  PROVE  NodeStage(n) \in Stages \cup {"success"}
  <1>1. def.type[n] \in NodeTypes
    BY DefTyped
  <1> QED BY <1>1 DEF NodeStage, NodeTypes, Stages

LEMMA FirstStageTyped ==
  ASSUME TypeOK, NEW n \in NodeID
  PROVE  FirstStage(n) \in Stages \cup {"success", "skipped"}
  BY NodeStageTyped DEF FirstStage, Stages

LEMMA ConditionalEdgesTyped ==
  ASSUME TypeOK, NEW n \in NodeID
  PROVE  ConditionalEdges(n) \subseteq Edges
  BY DefTyped DEF ConditionalEdges, Incoming

LEMMA InitTypeOK == Init => TypeOK
  <1> SUFFICES ASSUME Init PROVE TypeOK
    OBVIOUS
  <1>1. pc \in PCs /\ trigger \in Triggers
    BY DEF Init, PCs
  <1>2. ref \in [NodeID -> BOOLEAN] /\ paused \in BOOLEAN /\ cancelled \in BOOLEAN
    BY DEF Init
  <1>3. sent \in 0..MaxSignals
    BY BoundsAssumption DEF Init
  <1> QED BY <1>1, <1>2, <1>3 DEF Init, TypeOK

LEMMA NextTypeOK == TypeOK /\ [Next]_vars => TypeOK'
  <1> SUFFICES ASSUME TypeOK, [Next]_vars PROVE TypeOK'
    OBVIOUS
  <1> USE BoundsAssumption
  <1> USE DEF input, plan, loop, nodes, channels, flags, durable
  <1>1. CASE PrepareScheduledExecution
    BY <1>1 DEF PrepareScheduledExecution, TypeOK, PCs, Closed
  <1>2. CASE ValidateEdges
    <2>1. ZeroInDegree({}) \subseteq NodeID
      BY DefTyped DEF ZeroInDegree
    <2> QED BY <1>2, <2>1 DEF ValidateEdges, TypeOK, PCs, Closed
  <1>3. CASE PlanLevel
    <2>1. ZeroInDegree(Placed \cup queue) \subseteq NodeID
      BY DefTyped DEF ZeroInDegree
    <2>2. levels + 1 \in Nat
      BY DEF TypeOK
    <2>3. depth' \in [NodeID -> Nat] /\ levels' \in Nat
      BY <1>3, <2>2 DEF PlanLevel, TypeOK
    <2> QED BY <1>3, <2>1, <2>3 DEF PlanLevel, TypeOK
  <1>4. CASE EndPlan
    BY <1>4 DEF EndPlan, TypeOK, PCs, Closed
  <1>5. CASE DrainSignals
    <2>1. PausedAfterDrain \in BOOLEAN /\ CancelledAfterDrain \in BOOLEAN
      BY DEF PausedAfterDrain, CancelledAfterDrain, TypeOK
    <2>2. paused' \in BOOLEAN /\ cancelled' \in BOOLEAN
      BY <1>5, <2>1 DEF DrainSignals
    <2>3. pending' \subseteq NodeID
      BY <1>5 DEF DrainSignals, LevelNodes
    <2>4. pc' \in PCs
      BY <1>5, <2>2 DEF DrainSignals, PCs
    <2> QED BY <1>5, <2>2, <2>3, <2>4 DEF DrainSignals, TypeOK
  <1>6. CASE LevelsDone
    BY <1>6 DEF LevelsDone, TypeOK, PCs
  <1>7. CASE ReceiveResume
    <2>1. resumeCh' \in Nat
      BY <1>7 DEF ReceiveResume, TypeOK
    <2>2. paused' \in BOOLEAN
      BY <1>7 DEF ReceiveResume
    <2> QED BY <1>7, <2>1, <2>2 DEF ReceiveResume, TypeOK, PCs
  <1>8. CASE ReceiveCancel
    BY <1>8 DEF ReceiveCancel, TypeOK, PCs
  <1>9. CASE StartBatch
    <2>1. PICK b \in SUBSET pending :
            /\ batch' = b /\ pending' = pending \ b
            /\ run' = [n \in NodeID |-> IF n \in b THEN FirstStage(n) ELSE run[n]]
            /\ conds' = [n \in NodeID |-> IF n \in b THEN ConditionalEdges(n) ELSE conds[n]]
            /\ ref' = [n \in NodeID |-> IF n \in b /\ FirstStage(n) = "success"
                                        THEN HasInput(n) ELSE ref[n]]
      BY <1>9 DEF StartBatch
    <2>2. run' \in [NodeID -> Stages \cup Statuses \cup {"idle"}]
      BY <2>1, FirstStageTyped DEF TypeOK, Statuses
    <2>3. conds' \in [NodeID -> SUBSET Edges]
      BY <2>1, ConditionalEdgesTyped DEF TypeOK
    <2>4. \A n \in NodeID : HasInput(n) \in BOOLEAN
      BY DEF HasInput
    <2>5. ref' \in [NodeID -> BOOLEAN]
      BY <2>1, <2>4 DEF TypeOK
    <2> QED BY <1>9, <2>1, <2>2, <2>3, <2>5 DEF StartBatch, TypeOK, PCs
  <1>10. ASSUME NEW n \in NodeID, NodeActivity(n) PROVE TypeOK'
    <2>1. ASSUME NEW e \in Edges, EvalEdgeCondition(n, e) PROVE TypeOK'
      <3>1. HasInput(n) \in BOOLEAN
        BY DEF HasInput
      <3>2. run' \in [NodeID -> Stages \cup Statuses \cup {"idle"}]
        BY <2>1, NodeStageTyped DEF EvalEdgeCondition, TypeOK, Statuses
      <3>3. ref' \in [NodeID -> BOOLEAN]
        BY <2>1, <3>1 DEF EvalEdgeCondition, TypeOK
      <3>4. conds' \in [NodeID -> SUBSET Edges]
        BY <2>1 DEF EvalEdgeCondition, TypeOK
      <3> QED BY <2>1, <3>2, <3>3, <3>4 DEF EvalEdgeCondition, TypeOK
    <2>2. CASE FetchSourcePage(n)
      <3>1. NextPage(n) \in Nat
        BY DEF NextPage, TypeOK
      <3>2. \A hasMore \in BOOLEAN : AfterPage(NextPage(n), hasMore) \in Stages \cup Statuses
        BY <3>1 DEF AfterPage, Stages, Statuses
      <3>3. run' \in [NodeID -> Stages \cup Statuses \cup {"idle"}]
        BY <2>2, <3>2 DEF FetchSourcePage, TypeOK, Statuses
      <3>4. page' \in [NodeID -> Nat] /\ cp' \in [NodeID -> Nat]
        BY <2>2, <3>1 DEF FetchSourcePage, TypeOK
      <3>5. ref' \in [NodeID -> BOOLEAN]
        BY <2>2 DEF FetchSourcePage, TypeOK
      <3> QED BY <2>2, <3>3, <3>4, <3>5 DEF FetchSourcePage, TypeOK
    <2>3. CASE MergeRefs(n)
      BY <2>3 DEF MergeRefs, TypeOK, Statuses
    <2>4. CASE DispatchNode(n)
      BY <2>4 DEF DispatchNode, TypeOK, Statuses
    <2> QED BY <1>10, <2>1, <2>2, <2>3, <2>4 DEF NodeActivity, Activity
  <1>11. ASSUME NEW n \in NodeID, CollectFuture(n) PROVE TypeOK'
    BY <1>11 DEF CollectFuture, TypeOK, PCs
  <1>12. CASE Decide
    <2>1. Verdict \in Verdicts
      BY DEF Verdict, Verdicts
    <2> QED BY <1>12, <2>1 DEF Decide, TypeOK, PCs
  <1>13. CASE CommitSourceCursors
    BY <1>13 DEF CommitSourceCursors, TypeOK, PCs, Closed
  <1>14. CASE CommitDedupeKeys
    <2>1. Deduped \subseteq NodeID
      BY DefTyped DEF Deduped
    <2> QED BY <1>14, <2>1 DEF CommitDedupeKeys, TypeOK, PCs, Closed
  <1>15. CASE MarkExecution
    BY <1>15 DEF MarkExecution, TypeOK, PCs, Closed
  <1>16. ASSUME NEW s \in {"pause", "resume", "cancel"}, Signal(s) PROVE TypeOK'
    BY <1>16 DEF Signal, TypeOK
  <1>17. CASE InsertExecutionRow
    BY <1>17 DEF InsertExecutionRow, TypeOK, PCs, Closed
  <1>18. CASE UNCHANGED vars
    BY <1>18 DEF vars, TypeOK
  <1> QED
    BY <1>1, <1>2, <1>3, <1>4, <1>5, <1>6, <1>7, <1>8, <1>9, <1>10, <1>11, <1>12, <1>13,
       <1>14, <1>15, <1>16, <1>17, <1>18 DEF Next, WorkflowStep

(* Every state of every execution is well typed: pages, cursors, results   *)
(* and channels stay in range whatever the definition.                     *)
THEOREM TypeCorrect == Safety => []TypeOK
  BY InitTypeOK, NextTypeOK, PTL DEF Safety
-----------------------------------------------------------------------------
(* The plan.                                                               *)

Planning == {"prepare", "validate", "kahn"}
Planned  == PCs \ (Planning \cup {"errored", "terminated"})

(* Kahn's loop: the queue holds exactly the unplaced nodes without an      *)
(* unplaced upstream, and each of them has an upstream in the last level.  *)
PlanInv ==
  /\ pc \in {"prepare", "validate"} => levels = 0 /\ \A n \in NodeID : depth[n] = 0
  /\ pc = "kahn" => queue = ZeroInDegree(Placed)
  /\ pc = "kahn" /\ levels > 0 => \A n \in queue : \E u \in Upstream(n) : depth[u] = levels
  /\ \A n \in NodeID : depth[n] <= levels
  /\ \A n \in NodeID : depth[n] # 0 =>
       n \in def.nodes /\ \A u \in Upstream(n) : depth[u] \in 1..(depth[n] - 1)
  /\ \A n \in NodeID : depth[n] > 1 => \E u \in Upstream(n) : depth[u] = depth[n] - 1
  /\ pc \in Planned => Placed = def.nodes

LEMMA UpstreamTyped ==
  ASSUME TypeOK, NEW n
  PROVE  Upstream(n) \subseteq NodeID
  BY DefTyped DEF Upstream, Incoming, Edges

(* Every other step leaves the plan alone and does not go back to planning.*)
PlanFrame ==
  /\ UNCHANGED <<def, depth, levels, queue>>
  /\ pc' = "kahn" => pc = "kahn"
  /\ pc' \in {"prepare", "validate"} => pc \in {"prepare", "validate"}
  /\ pc' \in Planned => pc \in Planned

LEMMA StepPlanFrame ==
  ASSUME TypeOK, [Next]_vars, ~ValidateEdges, ~PlanLevel, ~EndPlan
  PROVE  PlanFrame
  <1> USE DEF input, plan, loop, nodes, channels, flags, durable, PlanFrame, Planned, Planning,
              PCs, Closed
  <1>1. CASE PrepareScheduledExecution
    BY <1>1 DEF PrepareScheduledExecution
  <1>2. CASE DrainSignals
    BY <1>2 DEF DrainSignals
  <1>3. CASE LevelsDone \/ ReceiveResume \/ ReceiveCancel
    BY <1>3 DEF LevelsDone, ReceiveResume, ReceiveCancel
  <1>4. CASE StartBatch
    BY <1>4 DEF StartBatch
  <1>5. ASSUME NEW n \in NodeID, NodeActivity(n) PROVE PlanFrame
    BY <1>5 DEF NodeActivity, Activity, EvalEdgeCondition, FetchSourcePage, MergeRefs, DispatchNode
  <1>6. ASSUME NEW n \in NodeID, CollectFuture(n) PROVE PlanFrame
    BY <1>6 DEF CollectFuture
  <1>7. CASE Decide
    BY <1>7 DEF Decide
  <1>8. CASE CommitSourceCursors \/ CommitDedupeKeys \/ MarkExecution
    BY <1>8 DEF CommitSourceCursors, CommitDedupeKeys, MarkExecution
  <1>9. ASSUME NEW s \in {"pause", "resume", "cancel"}, Signal(s) PROVE PlanFrame
    BY <1>9 DEF Signal
  <1>10. CASE InsertExecutionRow
    BY <1>10 DEF InsertExecutionRow, TypeOK
  <1>11. CASE UNCHANGED vars
    BY <1>11 DEF vars
  <1> QED
    BY <1>1, <1>2, <1>3, <1>4, <1>5, <1>6, <1>7, <1>8, <1>9, <1>10, <1>11 DEF Next, WorkflowStep

LEMMA InitPlanInv == Init => PlanInv
  BY DEF Init, PlanInv, Planned, Planning, PCs, Closed

LEMMA NextPlanInv == TypeOK /\ PlanInv /\ [Next]_vars => PlanInv'
  <1> SUFFICES ASSUME TypeOK, PlanInv, [Next]_vars PROVE PlanInv'
    OBVIOUS
  <1>1. CASE ValidateEdges
    <2>1. UNCHANGED <<def, depth, levels>> /\ pc = "validate" /\ pc' \in {"errored", "kahn"}
      BY <1>1 DEF ValidateEdges, input
    <2>2. Placed' = {} /\ levels = 0
      BY <2>1 DEF PlanInv, Placed
    <2>3. pc' = "kahn" => queue' = ZeroInDegree(Placed)'
      BY <1>1, <2>1, <2>2 DEF ValidateEdges, ZeroInDegree, Upstream, Incoming
    <2> QED BY <2>1, <2>2, <2>3
            DEF PlanInv, Placed, Planned, Planning, PCs, Closed, Upstream, Incoming
  <1>2. CASE PlanLevel
    <2>1. /\ pc = "kahn" /\ pc' = "kahn" /\ def' = def /\ levels' = levels + 1
          /\ depth' = [n \in NodeID |-> IF n \in queue THEN levels + 1 ELSE depth[n]]
          /\ queue' = ZeroInDegree(Placed \cup queue)
      BY <1>2 DEF PlanLevel, input
    <2>2. queue = ZeroInDegree(Placed)
      BY <2>1 DEF PlanInv
    <2>3. \A n : Upstream(n)' = Upstream(n) /\ Upstream(n) \subseteq NodeID
      BY <2>1, UpstreamTyped DEF Upstream, Incoming
    <2>4. queue \subseteq def.nodes /\ queue \subseteq NodeID /\ levels \in Nat
          /\ depth \in [NodeID -> Nat]
      BY <2>2 DEF ZeroInDegree, TypeOK
    <2>5. Placed' = Placed \cup queue
      BY <2>1, <2>4 DEF Placed
    <2>6. queue' = ZeroInDegree(Placed)'
      BY <2>1, <2>3, <2>5 DEF ZeroInDegree
    <2>7. ASSUME NEW n \in queue' PROVE \E u \in Upstream(n)' : depth'[u] = levels'
      <3>1. n \in def.nodes \ (Placed \cup queue) /\ Upstream(n) \subseteq Placed \cup queue
        BY <2>1, <2>7 DEF ZeroInDegree
      <3>2. ~(Upstream(n) \subseteq Placed)
        BY <3>1, <2>2 DEF ZeroInDegree
      <3>3. PICK u \in Upstream(n) : u \in queue
        BY <3>1, <3>2
      <3> QED BY <3>3, <2>1, <2>3
    <2>8. ASSUME NEW n \in NodeID PROVE depth'[n] <= levels'
      BY <2>1, <2>4 DEF PlanInv
    <2>9. ASSUME NEW n \in NodeID, depth'[n] # 0
          PROVE  n \in def'.nodes /\ \A u \in Upstream(n)' : depth'[u] \in 1..(depth'[n] - 1)
      <3>1. CASE n \in queue
        <4>1. Upstream(n) \subseteq Placed
          BY <3>1, <2>2 DEF ZeroInDegree
        <4>2. \A u \in Upstream(n) : u \notin queue /\ depth[u] \in 1..levels
          BY <4>1, <2>2, <2>3, <2>4 DEF ZeroInDegree, Placed, PlanInv
        <4> QED BY <3>1, <4>2, <2>1, <2>3, <2>4
      <3>2. CASE n \notin queue
        <4>1. depth[n] # 0 /\ depth'[n] = depth[n]
          BY <3>2, <2>9, <2>1
        <4>2. \A u \in Upstream(n) : depth[u] \in 1..(depth[n] - 1)
          BY <4>1 DEF PlanInv
        <4>3. \A u \in Upstream(n) : u \notin queue
          BY <4>2, <2>2, <2>3, <2>4 DEF ZeroInDegree, Placed
        <4> QED BY <4>1, <4>2, <4>3, <2>1, <2>3 DEF PlanInv
      <3> QED BY <3>1, <3>2
    <2>10. ASSUME NEW n \in NodeID, depth'[n] > 1
           PROVE  \E u \in Upstream(n)' : depth'[u] = depth'[n] - 1
      <3>1. CASE n \in queue
        <4>1. depth'[n] = levels + 1 /\ levels > 0
          BY <3>1, <2>10, <2>1, <2>4
        <4>2. PICK u \in Upstream(n) : depth[u] = levels
          BY <3>1, <4>1, <2>1 DEF PlanInv
        <4>3. u \notin queue /\ u \in NodeID
          BY <4>1, <4>2, <2>2, <2>3, <2>4 DEF ZeroInDegree, Placed
        <4> QED BY <4>1, <4>2, <4>3, <2>1, <2>3, <2>4
      <3>2. CASE n \notin queue
        <4>1. depth[n] > 1 /\ depth'[n] = depth[n]
          BY <3>2, <2>10, <2>1
        <4>2. PICK u \in Upstream(n) : depth[u] = depth[n] - 1
          BY <4>1 DEF PlanInv
        <4>3. u \notin queue /\ u \in NodeID
          BY <4>1, <4>2, <2>2, <2>3, <2>4 DEF ZeroInDegree, Placed
        <4> QED BY <4>1, <4>2, <4>3, <2>1, <2>3, <2>4
      <3> QED BY <3>1, <3>2
    <2> QED BY <2>1, <2>6, <2>7, <2>8, <2>9, <2>10 DEF PlanInv, Planned, Planning, PCs, Closed
  <1>3. CASE EndPlan
    <2>1. UNCHANGED <<def, depth, levels, queue>> /\ pc' \in {"boundary", "errored"}
      BY <1>3 DEF EndPlan, input, plan
    <2>2. pc' = "boundary" => Placed' = def'.nodes
      BY <1>3, <2>1 DEF EndPlan, PlanComplete, Placed
    <2> QED BY <2>1, <2>2 DEF PlanInv, Placed, Planned, Planning, PCs, Closed, Upstream, Incoming
  <1>4. CASE ~ValidateEdges /\ ~PlanLevel /\ ~EndPlan
    <2>1. PlanFrame
      BY <1>4, StepPlanFrame
    <2> QED BY <2>1 DEF PlanFrame, PlanInv, ZeroInDegree, Placed, Upstream, Incoming
  <1> QED BY <1>1, <1>2, <1>3, <1>4

LEMMA PlanCorrect == Safety => [](TypeOK /\ PlanInv)
  <1>1. TypeOK /\ PlanInv /\ [Next]_vars => (TypeOK /\ PlanInv)'
    BY NextTypeOK, NextPlanInv
  <1> QED BY <1>1, InitTypeOK, InitPlanInv, PTL DEF Safety

(* buildPlan is right on every graph: a definition it accepts is layered,  *)
(* every edge leads to a later level and no node waits longer than needed. *)
THEOREM PlanIsLayeringAlways == Safety => []PlanIsLayering
  <1>1. TypeOK /\ PlanInv => PlanIsLayering
    <2> SUFFICES ASSUME TypeOK, PlanInv, pc \in Planned, NEW n \in def.nodes
                 PROVE  /\ depth[n] \in 1..levels
                        /\ \A u \in Upstream(n) : depth[u] \in 1..(depth[n] - 1)
                        /\ depth[n] > 1 => \E u \in Upstream(n) : depth[u] = depth[n] - 1
      BY DEF PlanIsLayering, Planned, Planning, TypeOK
    <2>1. n \in NodeID /\ depth[n] # 0 /\ depth[n] \in Nat /\ levels \in Nat
      BY DEF PlanInv, Placed, TypeOK
    <2> QED BY <2>1 DEF PlanInv
  <1> QED BY <1>1, PlanCorrect, PTL
-----------------------------------------------------------------------------
(* The level loop.                                                         *)

InLevel == {"paused", "batch", "await"}
InLoop  == InLevel \cup {"boundary"}

(* The levels before the current one have all their results, the levels    *)
(* after it have not started, and each node of the current one is pending, *)
(* in the batch, or has a result. A result is what its coroutine returned. *)
LoopInv ==
  /\ \A n \in NodeID :
       /\ results[n] # "none" => run[n] = results[n]
       /\ run[n] # "idle" => depth[n] # 0 /\ (n \in batch \/ results[n] # "none")
       /\ run[n] # "idle" => \A u \in Upstream(n) : results[u] # "none"
       /\ n \in batch => run[n] # "idle" /\ results[n] = "none"
       /\ n \in pending => run[n] = "idle"
  /\ pc \in Planning \cup {"boundary"} => pending = {}
  /\ pc \in Planning \cup {"boundary", "paused", "batch"} => batch = {}
  /\ pc \in Planning => \A n \in NodeID : run[n] = "idle"
  /\ pc \in InLoop =>
       /\ lvl > 0
       /\ \A n \in NodeID : depth[n] \in 1..(lvl - 1) => results[n] # "none"
       /\ \A n \in NodeID : depth[n] > lvl => run[n] = "idle"
  /\ pc = "boundary" => \A n \in NodeID : depth[n] = lvl => run[n] = "idle"
  /\ pc \in InLevel =>
       /\ \A n \in pending \cup batch : depth[n] = lvl
       /\ \A n \in NodeID : depth[n] = lvl => n \in pending \cup batch \/ results[n] # "none"


(* A step of an activity changes the coroutine of its node and no other.   *)
LEMMA NodeActivityStep ==
  ASSUME TypeOK, NEW n \in NodeID, NodeActivity(n)
  PROVE  /\ run[n] \in Stages /\ run'[n] \in Stages \cup Statuses
         /\ \A m \in NodeID : m # n => run'[m] = run[m]
         /\ pc = "await" /\ pc' = pc
         /\ UNCHANGED <<input, phase, plan, loop, results, channels, flags, durable>>
  <1> USE DEF input, plan, loop, nodes, channels, flags, durable
  <1> DEFINE Moves == /\ run[n] \in Stages /\ run'[n] \in Stages \cup Statuses
                      /\ \A m \in NodeID : m # n => run'[m] = run[m]
  <1>1. ASSUME NEW e \in Edges, EvalEdgeCondition(n, e) PROVE Moves
    BY <1>1, NodeStageTyped DEF EvalEdgeCondition, TypeOK, Statuses, Stages
  <1>2. ASSUME FetchSourcePage(n) PROVE Moves
    <2>1. NextPage(n) \in Nat
      BY DEF NextPage, TypeOK
    <2>2. \A hasMore \in BOOLEAN : AfterPage(NextPage(n), hasMore) \in Stages \cup Statuses
      BY <2>1, BoundsAssumption DEF AfterPage, Stages, Statuses
    <2> QED BY <1>2, <2>2 DEF FetchSourcePage, TypeOK, Statuses, Stages
  <1>3. ASSUME MergeRefs(n) PROVE Moves
    BY <1>3 DEF MergeRefs, TypeOK, Statuses, Stages
  <1>4. ASSUME DispatchNode(n) PROVE Moves
    BY <1>4 DEF DispatchNode, TypeOK, Statuses, Stages
  <1>5. pc = "await"
    BY DEF NodeActivity
  <1>6. UNCHANGED <<input, pc, phase, plan, loop, results, channels, flags, durable>>
    BY DEF NodeActivity, Activity, EvalEdgeCondition, FetchSourcePage, MergeRefs, DispatchNode
  <1>7. Moves
    BY <1>1, <1>2, <1>3, <1>4 DEF NodeActivity, Activity
  <1> QED BY <1>5, <1>6, <1>7

LEMMA InitLoopInv == Init => LoopInv
  <1> SUFFICES ASSUME Init PROVE LoopInv
    OBVIOUS
  <1>1. pc \in Planning
    BY DEF Init, Planning
  <1> QED BY <1>1 DEF Init, LoopInv, Planning, InLoop, InLevel

Done == PCs \ (Planning \cup InLoop)

(* Steps that move neither the loop nor a coroutine.                       *)
LoopFrame ==
  /\ UNCHANGED <<def, depth, lvl, pending, batch, run, results>>
  /\ \/ pc' = pc
     \/ pc' \in Done
     \/ pc \in Planning /\ pc' \in Planning
     \/ pc = "paused" /\ pc' = "batch"

LEMMA StepLoopFrame ==
  ASSUME TypeOK, [Next]_vars, ~PlanLevel, ~EndPlan, ~DrainSignals, ~ReceiveCancel, ~StartBatch,
         \A n \in NodeID : ~NodeActivity(n) /\ ~CollectFuture(n)
  PROVE  LoopFrame
  <1> USE DEF input, plan, loop, nodes, channels, flags, durable, LoopFrame, Done, Planning,
              PCs, Closed, InLoop, InLevel
  <1>1. CASE PrepareScheduledExecution
    BY <1>1 DEF PrepareScheduledExecution
  <1>2. CASE ValidateEdges
    BY <1>2 DEF ValidateEdges
  <1>3. CASE LevelsDone \/ ReceiveResume
    BY <1>3 DEF LevelsDone, ReceiveResume
  <1>4. CASE Decide
    BY <1>4 DEF Decide
  <1>5. CASE CommitSourceCursors \/ CommitDedupeKeys \/ MarkExecution
    BY <1>5 DEF CommitSourceCursors, CommitDedupeKeys, MarkExecution
  <1>6. ASSUME NEW s \in {"pause", "resume", "cancel"}, Signal(s) PROVE LoopFrame
    BY <1>6 DEF Signal
  <1>7. CASE InsertExecutionRow
    BY <1>7 DEF InsertExecutionRow, TypeOK
  <1>8. CASE UNCHANGED vars
    BY <1>8 DEF vars
  <1> QED BY <1>1, <1>2, <1>3, <1>4, <1>5, <1>6, <1>7, <1>8 DEF Next, WorkflowStep

LEMMA NextLoopInv == TypeOK /\ PlanInv /\ LoopInv /\ [Next]_vars => LoopInv'
  <1> SUFFICES ASSUME TypeOK, PlanInv, LoopInv, [Next]_vars PROVE LoopInv'
    OBVIOUS
  <1> USE DEF input, plan, loop, nodes, channels, flags, durable, Planning, InLoop, InLevel
  <1>0. \A n \in NodeID : /\ Upstream(n) \subseteq NodeID
                          /\ def' = def => Upstream(n)' = Upstream(n)
                          /\ run[n] = "idle" => results[n] = "none"
    <2>1. \A n \in NodeID : run[n] = "idle" => results[n] = "none"
      BY DEF LoopInv, TypeOK, Statuses
    <2> QED BY <2>1, UpstreamTyped DEF Upstream, Incoming
  <1>1. CASE PlanLevel
    <2>1. /\ pc = "kahn" /\ pc' = "kahn"
          /\ UNCHANGED <<def, lvl, pending, batch, run, results>>
      BY <1>1 DEF PlanLevel
    <2> QED BY <2>1, <1>0 DEF LoopInv
  <1>2. CASE EndPlan
    <2>1. /\ pc = "kahn" /\ (pc' = "errored" \/ (pc' = "boundary" /\ lvl' = 1))
          /\ UNCHANGED <<def, depth, pending, batch, run, results>>
      BY <1>2 DEF EndPlan
    <2> QED BY <2>1, <1>0 DEF LoopInv, TypeOK
  <1>3. CASE DrainSignals
    <2>1. /\ pc = "boundary" /\ UNCHANGED <<def, depth, lvl, batch, run, results>>
          /\ \/ pc' = "decide" /\ pending' = {}
             \/ pc' \in {"paused", "batch"} /\ pending' = LevelNodes(lvl)
      BY <1>3 DEF DrainSignals
    <2> QED BY <2>1, <1>0 DEF LoopInv, LevelNodes, TypeOK
  <1>4. CASE ReceiveCancel
    <2>1. /\ pc' = "decide" /\ pending' = {} /\ UNCHANGED <<def, depth, lvl, batch, run, results>>
      BY <1>4 DEF ReceiveCancel
    <2> QED BY <2>1, <1>0 DEF LoopInv
  <1>5. CASE StartBatch
    <2>1. PICK b \in SUBSET pending :
            /\ batch' = b /\ pending' = pending \ b
            /\ run' = [n \in NodeID |-> IF n \in b THEN FirstStage(n) ELSE run[n]]
      BY <1>5 DEF StartBatch
    <2>2. pc = "batch" /\ pc' = "await" /\ UNCHANGED <<def, depth, lvl, results>>
      BY <1>5 DEF StartBatch
    <2>3. \A n \in NodeID : FirstStage(n) # "idle"
      BY FirstStageTyped DEF Stages
    <2>4. b \subseteq NodeID /\ batch = {} /\ pending \subseteq NodeID
      BY <2>1, <2>2 DEF LoopInv, TypeOK
    <2>5. \A n \in b : depth[n] = lvl /\ run[n] = "idle" /\ results[n] = "none"
      BY <1>0, <2>1, <2>2, <2>4 DEF LoopInv
    <2>6. ASSUME NEW n \in b, NEW u \in Upstream(n) PROVE results[u] # "none"
      <3>1. depth[n] # 0 /\ n \in NodeID /\ u \in NodeID
        BY <2>2, <2>4, <2>5, <1>0 DEF LoopInv, TypeOK
      <3>2. depth[u] \in 1..(lvl - 1)
        BY <3>1, <2>5 DEF PlanInv
      <3> QED BY <3>1, <3>2, <2>2 DEF LoopInv
    <2>7. \A n \in NodeID :
            /\ results'[n] # "none" => run'[n] = results'[n]
            /\ run'[n] # "idle" => depth'[n] # 0 /\ (n \in batch' \/ results'[n] # "none")
            /\ run'[n] # "idle" => \A u \in Upstream(n)' : results'[u] # "none"
            /\ n \in batch' => run'[n] # "idle" /\ results'[n] = "none"
            /\ n \in pending' => run'[n] = "idle"
      <3> SUFFICES ASSUME NEW n \in NodeID
                   PROVE  /\ results[n] # "none" => run'[n] = results[n]
                          /\ run'[n] # "idle" => depth[n] # 0 /\ (n \in b \/ results[n] # "none")
                          /\ run'[n] # "idle" => \A u \in Upstream(n) : results[u] # "none"
                          /\ n \in b => run'[n] # "idle" /\ results[n] = "none"
                          /\ n \in pending \ b => run'[n] = "idle"
        BY <2>1, <2>2, <1>0
      <3>1. CASE n \in b
        <4>1. depth[n] # 0
          BY <3>1, <2>2, <2>5 DEF LoopInv, TypeOK
        <4> QED BY <3>1, <4>1, <2>1, <2>3, <2>5, <2>6
      <3>2. CASE n \notin b
        BY <3>2, <2>1, <2>4 DEF LoopInv
      <3> QED BY <3>1, <3>2
    <2>8. \A n \in NodeID : depth'[n] > lvl' => run'[n] = "idle"
      BY <2>1, <2>2, <2>4, <2>5 DEF LoopInv, TypeOK
    <2> QED BY <2>1, <2>2, <2>4, <2>7, <2>8 DEF LoopInv
  <1>6. ASSUME NEW n \in NodeID, NodeActivity(n) PROVE LoopInv'
    <2>1. /\ run[n] \in Stages /\ run'[n] \in Stages \cup Statuses
          /\ \A m \in NodeID : m # n => run'[m] = run[m]
          /\ pc = "await" /\ pc' = pc
          /\ UNCHANGED <<def, depth, lvl, pending, batch, results>>
      BY <1>6, NodeActivityStep
    <2>2. run[n] # "idle" /\ run'[n] # "idle" /\ results[n] = "none" /\ n \in batch
      BY <2>1 DEF LoopInv, TypeOK, Stages, Statuses
    <2>3. \A m \in NodeID : run'[m] = "idle" <=> run[m] = "idle"
      BY <2>1, <2>2
    <2>4. \A m \in NodeID : results'[m] # "none" => run'[m] = results'[m]
      BY <2>1, <2>2 DEF LoopInv
    <2> QED BY <2>1, <2>3, <2>4, <1>0 DEF LoopInv
  <1>7. ASSUME NEW n \in NodeID, CollectFuture(n) PROVE LoopInv'
    <2>1. /\ pc = "await" /\ n \in batch /\ run[n] \in Statuses
          /\ results' = [results EXCEPT ![n] = run[n]] /\ batch' = batch \ {n}
          /\ UNCHANGED <<def, depth, pending, run>>
      BY <1>7 DEF CollectFuture
    <2>2. \/ batch' # {} /\ pc' = "await" /\ lvl' = lvl
          \/ batch' = {} /\ pc' = "batch" /\ lvl' = lvl
          \/ batch' = {} /\ pending = {} /\ pc' = "boundary" /\ lvl' = lvl + 1
      BY <1>7 DEF CollectFuture
    <2>3. results[n] = "none" /\ depth[n] = lvl /\ run[n] # "none"
      BY <2>1 DEF LoopInv, Statuses
    <2>4. \A m \in NodeID : /\ results'[m] = IF m = n THEN run[n] ELSE results[m]
                            /\ results[m] # "none" => results'[m] = results[m]
                            /\ results[m] # "none" => results'[m] # "none"
      BY <2>1, <2>3 DEF TypeOK
    <2>5. \A m \in NodeID :
            /\ results'[m] # "none" => run'[m] = results'[m]
            /\ run'[m] # "idle" => depth'[m] # 0 /\ (m \in batch' \/ results'[m] # "none")
            /\ run'[m] # "idle" => \A u \in Upstream(m)' : results'[u] # "none"
            /\ m \in batch' => run'[m] # "idle" /\ results'[m] = "none"
            /\ m \in pending' => run'[m] = "idle"
      BY <2>1, <2>3, <2>4, <1>0 DEF LoopInv
    <2>6. \A m \in NodeID : depth[m] = lvl => m \in pending \cup batch' \/ results'[m] # "none"
      BY <2>1, <2>3, <2>4 DEF LoopInv
    <2>7. /\ lvl > 0 /\ lvl \in Nat /\ depth \in [NodeID -> Nat]
          /\ \A m \in NodeID : depth[m] \in 1..(lvl - 1) => results'[m] # "none"
          /\ \A m \in NodeID : depth[m] > lvl => run[m] = "idle"
          /\ \A m \in pending \cup batch' : depth[m] = lvl
      BY <2>1, <2>4 DEF LoopInv, TypeOK
    <2>8. CASE lvl' = lvl /\ pc' \in {"await", "batch"} /\ (pc' = "batch" => batch' = {})
      BY <2>8, <2>1, <2>5, <2>6, <2>7 DEF LoopInv
    <2>9. CASE batch' = {} /\ pending = {} /\ pc' = "boundary" /\ lvl' = lvl + 1
      <3>1. \A m \in NodeID : depth[m] \in 1..lvl => results'[m] # "none"
        BY <2>6, <2>7, <2>9
      <3>2. \A m \in NodeID : /\ depth'[m] \in 1..(lvl' - 1) => results'[m] # "none"
                              /\ depth'[m] > lvl' => run'[m] = "idle"
                              /\ depth'[m] = lvl' => run'[m] = "idle"
        BY <2>1, <2>7, <2>9, <3>1
      <3> QED BY <2>1, <2>5, <2>7, <2>9, <3>2 DEF LoopInv
    <2> QED BY <2>2, <2>8, <2>9
  <1>8. CASE /\ ~PlanLevel /\ ~EndPlan /\ ~DrainSignals /\ ~ReceiveCancel /\ ~StartBatch
             /\ \A n \in NodeID : ~NodeActivity(n) /\ ~CollectFuture(n)
    <2>1. LoopFrame
      BY <1>8, StepLoopFrame
    <2> QED BY <2>1, <1>0 DEF LoopFrame, LoopInv, Done, PCs, Closed
  <1> QED BY <1>1, <1>2, <1>3, <1>4, <1>5, <1>6, <1>7, <1>8

LEMMA LoopCorrect == Safety => [](TypeOK /\ PlanInv /\ LoopInv)
  <1>1. TypeOK /\ PlanInv /\ LoopInv /\ [Next]_vars => (TypeOK /\ PlanInv /\ LoopInv)'
    BY NextTypeOK, NextPlanInv, NextLoopInv
  <1> QED BY <1>1, InitTypeOK, InitPlanInv, InitLoopInv, PTL DEF Safety

(* Whatever the graph, the batch size and the activities do, a node starts *)
(* only once the result of every upstream node has been collected.         *)
THEOREM DependencyOrderAlways == Safety => []DependencyOrder
  <1>1. TypeOK /\ PlanInv /\ LoopInv => DependencyOrder
    BY DEF PlanInv, LoopInv, DependencyOrder
  <1> QED BY <1>1, LoopCorrect, PTL
-----------------------------------------------------------------------------
(* The coroutines of the nodes.                                            *)

(* What a coroutine has seen: it works only behind a successful upstream,  *)
(* is skipped only behind some upstream, and its pages are counted.        *)
NodeInv ==
  /\ WorkNeedsSuccessfulUpstream
  /\ \A n \in NodeID :
       /\ conds[n] \subseteq Incoming(n)
       /\ run[n] = "skipped" => Upstream(n) # {}
       /\ run[n] \in {"idle", "conditions"} => page[n] = 0
       /\ run[n] = "fetch" => page[n] < MaxPages
       /\ page[n] <= MaxPages
       /\ cp[n] <= page[n]
  /\ Cardinality(batch) <= MaxParallel

LEMMA InitNodeInv == Init => NodeInv
  <1> SUFFICES ASSUME Init PROVE NodeInv
    OBVIOUS
  <1>1. Cardinality(batch) = 0
    BY FS_EmptySet DEF Init
  <1>2. WorkNeedsSuccessfulUpstream
    BY DEF Init, WorkNeedsSuccessfulUpstream
  <1> QED BY <1>1, <1>2, BoundsAssumption DEF Init, NodeInv

LEMMA BatchFinite ==
  ASSUME TypeOK, NEW S \in SUBSET NodeID
  PROVE  IsFiniteSet(S) /\ Cardinality(S) \in Nat
  BY NodesFinite, FS_Subset, FS_CardinalityType

(* Steps that touch no coroutine, no result and no batch.                  *)
LEMMA StepNodeFrame ==
  ASSUME [Next]_vars, ~StartBatch, \A n \in NodeID : ~NodeActivity(n) /\ ~CollectFuture(n)
  PROVE  UNCHANGED <<def, batch, run, conds, page, cp, results>>
  <1> USE DEF input, plan, loop, nodes, channels, flags, durable
  <1>1. CASE PrepareScheduledExecution \/ ValidateEdges \/ PlanLevel \/ EndPlan
    BY <1>1 DEF PrepareScheduledExecution, ValidateEdges, PlanLevel, EndPlan
  <1>2. CASE DrainSignals \/ LevelsDone \/ ReceiveResume \/ ReceiveCancel
    BY <1>2 DEF DrainSignals, LevelsDone, ReceiveResume, ReceiveCancel
  <1>3. CASE Decide \/ CommitSourceCursors \/ CommitDedupeKeys \/ MarkExecution
    BY <1>3 DEF Decide, CommitSourceCursors, CommitDedupeKeys, MarkExecution
  <1>4. CASE InsertExecutionRow \/ \E s \in {"pause", "resume", "cancel"} : Signal(s)
    BY <1>4 DEF InsertExecutionRow, Signal
  <1>5. CASE UNCHANGED vars
    BY <1>5 DEF vars
  <1> QED BY <1>1, <1>2, <1>3, <1>4, <1>5 DEF Next, WorkflowStep

LEMMA NextNodeInv == TypeOK /\ LoopInv /\ NodeInv /\ [Next]_vars => NodeInv'
  <1> SUFFICES ASSUME TypeOK, LoopInv, NodeInv, [Next]_vars PROVE NodeInv'
    OBVIOUS
  <1> USE DEF input, plan, loop, nodes, channels, flags, durable
  <1>0. \A n \in NodeID : /\ Upstream(n) \subseteq NodeID
                          /\ def' = def => Upstream(n)' = Upstream(n) /\ Incoming(n)' = Incoming(n)
                          /\ ConditionalEdges(n) \subseteq Incoming(n)
    BY UpstreamTyped DEF Upstream, Incoming, ConditionalEdges
  <1>1. CASE StartBatch
    <2>1. PICK b \in SUBSET pending :
            /\ Cardinality(b) = BatchSize(Cardinality(pending))
            /\ batch' = b /\ pending' = pending \ b
            /\ run' = [n \in NodeID |-> IF n \in b THEN FirstStage(n) ELSE run[n]]
            /\ conds' = [n \in NodeID |-> IF n \in b THEN ConditionalEdges(n) ELSE conds[n]]
      BY <1>1 DEF StartBatch
    <2>2. UNCHANGED <<def, page, cp, results>>
      BY <1>1 DEF StartBatch
    <2>3. Cardinality(batch') <= MaxParallel
      <3>1. Cardinality(pending) \in Nat
        BY BatchFinite DEF TypeOK
      <3> QED BY <2>1, <3>1, BoundsAssumption DEF BatchSize
    <2>4. \A n \in b : run[n] = "idle" /\ page[n] = 0 /\ n \in NodeID
      BY <2>1 DEF TypeOK, LoopInv, NodeInv
    <2>5. \A n \in NodeID : FirstStage(n) # "skipped" /\ Upstream(n) # {} => HasSuccessfulUpstream(n)
      BY DEF FirstStage
    <2>6. \A n \in NodeID : FirstStage(n) = "skipped" => Upstream(n) # {}
      <3> SUFFICES ASSUME NEW n \in NodeID, FirstStage(n) = "skipped" PROVE Upstream(n) # {}
        OBVIOUS
      <3>1. NodeStage(n) # "skipped"
        BY NodeStageTyped DEF Stages
      <3> QED BY <3>1 DEF FirstStage
    <2>7. WorkNeedsSuccessfulUpstream'
      BY <1>0, <2>1, <2>2, <2>5 DEF NodeInv, WorkNeedsSuccessfulUpstream, HasSuccessfulUpstream, Succeeded
    <2>8. \A n \in NodeID : /\ conds'[n] \subseteq Incoming(n)'
                            /\ run'[n] = "skipped" => Upstream(n)' # {}
      BY <1>0, <2>1, <2>2, <2>6 DEF NodeInv
    <2>9. \A n \in NodeID : /\ run'[n] \in {"idle", "conditions"} => page[n] = 0
                            /\ run'[n] = "fetch" => page[n] < MaxPages
      BY <2>1, <2>4, BoundsAssumption DEF NodeInv
    <2> QED BY <2>2, <2>3, <2>7, <2>8, <2>9 DEF NodeInv
  <1>2. ASSUME NEW n \in NodeID, NodeActivity(n) PROVE NodeInv'
    <2>1. /\ run[n] \in Stages /\ run'[n] \in Stages \cup Statuses
          /\ \A m \in NodeID : m # n => run'[m] = run[m]
          /\ UNCHANGED <<def, batch, results>>
      BY <1>2, NodeActivityStep
    <2>2. WorkNeedsSuccessfulUpstream'
      BY <1>0, <2>1 DEF NodeInv, WorkNeedsSuccessfulUpstream, HasSuccessfulUpstream, Succeeded, Stages
    <2> DEFINE Counted == \A m \in NodeID : 
                 /\ conds'[m] \subseteq Incoming(m)
                 /\ run'[m] = "skipped" => Upstream(m) # {}
                 /\ run'[m] \in {"idle", "conditions"} => page'[m] = 0
                 /\ run'[m] = "fetch" => page'[m] < MaxPages
                 /\ page'[m] <= MaxPages
                 /\ cp'[m] <= page'[m]
    <2>3. ASSUME NEW e \in Edges, EvalEdgeCondition(n, e) PROVE Counted
      <3>1. /\ run[n] = "conditions" /\ e \in conds[n] /\ conds' = [conds EXCEPT ![n] = @ \ {e}]
            /\ UNCHANGED <<page, cp>>
        BY <2>3 DEF EvalEdgeCondition
      <3>2. page[n] = 0 /\ 0 < MaxPages /\ Upstream(n) # {}
        BY <3>1, BoundsAssumption DEF NodeInv, Upstream
      <3>3. \A m \in NodeID : conds'[m] \subseteq Incoming(m)
        BY <3>1 DEF TypeOK, NodeInv
      <3> QED BY <2>1, <3>1, <3>2, <3>3 DEF NodeInv, Stages, Statuses
    <2>4. ASSUME FetchSourcePage(n) PROVE Counted
      <3>1. run[n] = "fetch" /\ UNCHANGED conds
        BY <2>4 DEF FetchSourcePage
      <3>2. page[n] \in Nat /\ cp[n] \in Nat /\ page[n] < MaxPages /\ cp[n] <= page[n] /\ MaxPages \in Nat
        BY <3>1, BoundsAssumption DEF NodeInv, TypeOK
      <3>3. CASE run' = [run EXCEPT ![n] = "failed"] /\ UNCHANGED <<page, cp>>
        BY <3>1, <3>3 DEF NodeInv, TypeOK
      <3>4. ASSUME NEW hasMore \in BOOLEAN, NEW checkpoint \in BOOLEAN,
                   page' = [page EXCEPT ![n] = NextPage(n)],
                   cp' = [cp EXCEPT ![n] = IF checkpoint THEN NextPage(n) ELSE @],
                   run' = [run EXCEPT ![n] = AfterPage(NextPage(n), hasMore)]
            PROVE  Counted
        <4>1. page'[n] = page[n] + 1 /\ \A m \in NodeID : m # n => page'[m] = page[m] /\ cp'[m] = cp[m]
          BY <3>4 DEF TypeOK, NextPage
        <4>2. cp'[n] = page[n] + 1 \/ cp'[n] = cp[n]
          BY <3>4 DEF TypeOK, NextPage
        <4>3. /\ run'[n] \in {"failed", "fetch", "concat", "success"}
              /\ run'[n] = "fetch" => page[n] + 1 < MaxPages
          BY <3>2, <3>4 DEF AfterPage, NextPage, TypeOK
        <4> QED BY <2>1, <3>1, <3>2, <4>1, <4>2, <4>3 DEF NodeInv
      <3> QED BY <2>4, <3>3, <3>4 DEF FetchSourcePage
    <2>5. ASSUME MergeRefs(n) \/ DispatchNode(n) PROVE Counted
      <3>1. run'[n] \in {"success", "failed"} /\ UNCHANGED <<conds, page, cp>>
        BY <2>5 DEF MergeRefs, DispatchNode, TypeOK
      <3> QED BY <2>1, <3>1 DEF NodeInv
    <2>6. Counted
      BY <1>2, <2>3, <2>4, <2>5 DEF NodeActivity, Activity
    <2> QED BY <2>1, <2>2, <2>6, <1>0 DEF NodeInv
  <1>3. ASSUME NEW n \in NodeID, CollectFuture(n) PROVE NodeInv'
    <2>1. /\ n \in batch /\ batch' = batch \ {n} /\ results' = [results EXCEPT ![n] = run[n]]
          /\ UNCHANGED <<def, run, conds, page, cp>>
      BY <1>3 DEF CollectFuture
    <2>2. Cardinality(batch') <= MaxParallel
      <3>1. IsFiniteSet(batch) /\ Cardinality(batch) \in Nat /\ Cardinality(batch') \in Nat
        BY <2>1, BatchFinite DEF TypeOK
      <3>2. Cardinality(batch') <= Cardinality(batch)
        BY <2>1, <3>1, FS_Subset
      <3> QED BY <3>1, <3>2, BoundsAssumption DEF NodeInv
    <2>3. \A m \in NodeID : results[m] = "success" => results'[m] = "success"
      BY <2>1 DEF LoopInv, TypeOK
    <2>4. WorkNeedsSuccessfulUpstream'
      BY <1>0, <2>1, <2>3 DEF NodeInv, WorkNeedsSuccessfulUpstream, HasSuccessfulUpstream, Succeeded
    <2> QED BY <2>1, <2>2, <2>4, <1>0 DEF NodeInv
  <1>4. CASE ~StartBatch /\ \A n \in NodeID : ~NodeActivity(n) /\ ~CollectFuture(n)
    <2>1. UNCHANGED <<def, batch, run, conds, page, cp, results>>
      BY <1>4, StepNodeFrame
    <2> QED BY <2>1, <1>0 DEF NodeInv, WorkNeedsSuccessfulUpstream, HasSuccessfulUpstream, Succeeded
  <1> QED BY <1>1, <1>2, <1>3, <1>4

RunInv == TypeOK /\ PlanInv /\ LoopInv /\ NodeInv

LEMMA RunCorrect == Safety => []RunInv
  <1>1. Init => RunInv
    BY InitTypeOK, InitPlanInv, InitLoopInv, InitNodeInv DEF RunInv
  <1>2. RunInv /\ [Next]_vars => RunInv'
    BY NextTypeOK, NextPlanInv, NextLoopInv, NextNodeInv DEF RunInv
  <1> QED BY <1>1, <1>2, PTL DEF Safety

(* maxParallelNodes bounds the coroutines that wait for activities, over   *)
(* all batches and levels, and the page limit bounds every source.         *)
THEOREM ResourceBoundsAlways == Safety => []ResourceBounds
  <1>1. RunInv => ResourceBounds
    <2> SUFFICES ASSUME RunInv PROVE ResourceBounds
      OBVIOUS
    <2> DEFINE waiting == {n \in NodeID : run[n] \in Stages}
    <2>1. waiting \subseteq batch
      BY DEF RunInv, LoopInv, TypeOK, Stages, Statuses
    <2>2. Cardinality(waiting) \in Nat /\ Cardinality(batch) \in Nat /\ IsFiniteSet(batch)
      BY BatchFinite DEF RunInv, TypeOK
    <2>3. Cardinality(waiting) <= Cardinality(batch)
      BY <2>1, <2>2, FS_Subset
    <2>4. Cardinality(waiting) <= MaxParallel
      BY <2>2, <2>3, BoundsAssumption DEF RunInv, NodeInv
    <2> QED BY <2>4 DEF ResourceBounds, RunInv, NodeInv
  <1> QED BY <1>1, RunCorrect, PTL

(* No node with inbound edges works behind upstreams that all failed or    *)
(* were skipped.                                                           *)
THEOREM WorkNeedsSuccessfulUpstreamAlways == Safety => []WorkNeedsSuccessfulUpstream
  <1>1. RunInv => WorkNeedsSuccessfulUpstream
    BY DEF RunInv, NodeInv
  <1> QED BY <1>1, RunCorrect, PTL
-----------------------------------------------------------------------------
(* The verdict and the commits.                                            *)

Clean == \A n \in def.nodes : results[n] \in {"success", "skipped"}
CursorsDurable == \A n \in Checkpointed : cursor[n] = cp[n]
KeysDurable == Deduped \subseteq dedupeKeys
Undecided == Planning \cup InLoop \cup {"decide"}

(* The verdict is the truth about the results, nothing durable moves       *)
(* before it is completed, and the row gets it after the commits.          *)
VerdictInv ==
  /\ pc \in Undecided => phase = "running"
  /\ pc \in {"cursors", "dedupe"} => phase = "completed"
  /\ pc = "mark" => phase \in Verdicts
  /\ cancelled => pc \notin Planning \cup InLoop
  /\ pc = "decide" /\ ~cancelled => \A n \in def.nodes : results[n] # "none"
  /\ phase = "completed" => ~cancelled /\ Clean
  /\ phase = "failed" => ~cancelled /\ Failures # {}
  /\ phase = "cancelled" => cancelled
  /\ dedupeKeys # {} => phase = "completed"
  /\ \A n \in NodeID : cursor[n] # 0 => phase = "completed" /\ n \in Checkpointed /\ cursor[n] = cp[n]
  /\ pc \in {"dedupe", "mark"} /\ phase = "completed" => CursorsDurable
  /\ pc = "mark" /\ phase = "completed" => KeysDurable
  /\ row \in Verdicts =>
       pc \in Closed /\ row = phase /\ (phase = "completed" => CursorsDurable /\ KeysDurable)

LEMMA InitVerdictInv == Init => VerdictInv
  <1> SUFFICES ASSUME Init PROVE VerdictInv
    OBVIOUS
  <1>1. pc \in Planning /\ ~cancelled
    BY DEF Init, Planning
  <1> QED BY <1>1 DEF Init, VerdictInv, Planning, InLoop, InLevel, Closed, Verdicts, Undecided

(* A step before the verdict keeps everything durable as it was.           *)
LEMMA EarlyStep ==
  ASSUME TypeOK, VerdictInv, pc \in Undecided,
         UNCHANGED <<phase, cursor, dedupeKeys>>, row' \notin Verdicts,
         pc' \in Undecided \cup {"errored", "terminated"},
         cancelled' => pc' \notin Planning \cup InLoop,
         pc' = "decide" /\ ~cancelled' => \A n \in def'.nodes : results'[n] # "none"
  PROVE  VerdictInv'
  BY DEF VerdictInv, Undecided, Planning, InLoop, InLevel, Verdicts

LEMMA NextVerdictInv == RunInv /\ VerdictInv /\ [Next]_vars => VerdictInv'
  <1> SUFFICES ASSUME RunInv, VerdictInv, [Next]_vars PROVE VerdictInv'
    OBVIOUS
  <1> USE DEF input, plan, loop, nodes, channels, flags, durable
  <1>0. TypeOK /\ PlanInv /\ LoopInv
    BY DEF RunInv
  <1> DEFINE Kept == UNCHANGED <<phase, cursor, dedupeKeys>>
  <1>1. ASSUME pc \in Planning \cup InLoop PROVE row \notin Verdicts /\ ~cancelled /\ pc \in Undecided
    BY <1>1 DEF VerdictInv, Closed, Planning, InLoop, InLevel, Undecided
  <1>2. CASE PrepareScheduledExecution
    <2>1. /\ Kept /\ pc = "prepare" /\ pc' \in {"errored", "validate"} /\ cancelled' = cancelled
          /\ row' \in {row, "running"}
      BY <1>2 DEF PrepareScheduledExecution
    <2> QED BY <2>1, <1>0, <1>1, EarlyStep DEF Planning, InLoop, InLevel, Undecided, Verdicts
  <1>3. CASE ValidateEdges \/ PlanLevel \/ EndPlan
    <2>1. /\ Kept /\ pc \in Planning /\ pc' \in {"errored", "kahn", "boundary"}
          /\ cancelled' = cancelled /\ row' = row
      BY <1>3 DEF ValidateEdges, PlanLevel, EndPlan, Planning
    <2> QED BY <2>1, <1>0, <1>1, EarlyStep DEF Planning, InLoop, InLevel, Undecided
  <1>4. CASE DrainSignals
    <2>1. Kept /\ pc = "boundary" /\ row' = row
      BY <1>4 DEF DrainSignals
    <2>2. pc' \in {"decide", "paused", "batch"} /\ (pc' = "decide" <=> cancelled')
      <3>1. CancelledAfterDrain \in BOOLEAN /\ PausedAfterDrain \in BOOLEAN
        BY <1>0 DEF CancelledAfterDrain, PausedAfterDrain, TypeOK
      <3> QED BY <1>4, <3>1 DEF DrainSignals
    <2> QED BY <2>1, <2>2, <1>0, <1>1, EarlyStep DEF Planning, InLoop, InLevel, Undecided
  <1>5. CASE LevelsDone
    <2>1. /\ Kept /\ pc = "boundary" /\ pc' = "decide" /\ cancelled' = cancelled /\ row' = row
          /\ UNCHANGED <<def, results>> /\ lvl > levels
      BY <1>5 DEF LevelsDone
    <2>2. ASSUME NEW n \in def.nodes PROVE results[n] # "none"
      <3>1. n \in NodeID /\ depth[n] # 0
        BY <2>1, <1>0 DEF PlanInv, Planned, Planning, PCs, Closed, Placed
      <3>2. depth[n] \in 1..(lvl - 1)
        BY <3>1, <2>1, <1>0 DEF PlanInv, TypeOK
      <3> QED BY <3>1, <3>2, <2>1, <1>0 DEF LoopInv, InLoop
    <2> QED BY <2>1, <2>2, <1>0, <1>1, EarlyStep DEF Planning, InLoop, InLevel, Undecided
  <1>6. CASE ReceiveResume \/ ReceiveCancel
    <2>1. /\ Kept /\ pc = "paused" /\ row' = row
          /\ \/ pc' = "batch" /\ cancelled' = cancelled
             \/ pc' = "decide" /\ cancelled'
      BY <1>6 DEF ReceiveResume, ReceiveCancel
    <2> QED BY <2>1, <1>0, <1>1, EarlyStep DEF Planning, InLoop, InLevel, Undecided
  <1>7. CASE StartBatch \/ \E n \in NodeID : NodeActivity(n) \/ CollectFuture(n)
    <2>1. /\ Kept /\ pc \in {"batch", "await"} /\ pc' \in {"await", "batch", "boundary"}
          /\ cancelled' = cancelled /\ row' = row
      <3>1. CASE StartBatch
        BY <3>1 DEF StartBatch
      <3>2. ASSUME NEW n \in NodeID, NodeActivity(n) PROVE <2>1!:
        BY <3>2, <1>0, NodeActivityStep
      <3>3. ASSUME NEW n \in NodeID, CollectFuture(n) PROVE <2>1!:
        BY <3>3 DEF CollectFuture
      <3> QED BY <1>7, <3>1, <3>2, <3>3
    <2> QED BY <2>1, <1>0, <1>1, EarlyStep DEF Planning, InLoop, InLevel, Undecided
  <1>8. CASE Decide
    <2>1. /\ pc = "decide" /\ phase' = Verdict
          /\ UNCHANGED <<def, results, cp, cancelled, row, cursor, dedupeKeys>>
      BY <1>8 DEF Decide
    <2>2. /\ pc' \in {"cursors", "dedupe", "mark"}
          /\ pc' \in {"cursors", "dedupe"} => Verdict = "completed"
          /\ pc' \in {"dedupe", "mark"} /\ Verdict = "completed" => Checkpointed = {}
          /\ pc' = "mark" /\ Verdict = "completed" => Deduped = {}
      BY <1>8 DEF Decide
    <2>3. Checkpointed' = Checkpointed /\ Deduped' = Deduped /\ Failures' = Failures
      BY <2>1 DEF Checkpointed, Deduped, Failures, Succeeded
    <2>4. cancelled \in BOOLEAN /\ Verdict \in Verdicts
      BY <1>0 DEF TypeOK, Verdict, Verdicts
    <2>5. /\ Verdict = "cancelled" => cancelled
          /\ Verdict = "failed" => ~cancelled /\ Failures # {}
          /\ Verdict = "completed" => ~cancelled /\ Failures = {}
      BY <2>4 DEF Verdict
    <2>6. Verdict = "completed" => Clean
      <3> SUFFICES ASSUME Verdict = "completed", NEW n \in def.nodes
                   PROVE  results[n] \in {"success", "skipped"}
        BY DEF Clean
      <3>1. results[n] # "none" /\ n \in NodeID
        BY <2>1, <2>5, <1>0, DefTyped DEF VerdictInv
      <3> QED BY <3>1, <2>5, <1>0 DEF Failures, TypeOK, Statuses
    <2>7. Clean' = Clean
      BY <2>1 DEF Clean
    <2>8. row \notin Verdicts /\ dedupeKeys = {} /\ \A n \in NodeID : cursor[n] = 0
      BY <2>1 DEF VerdictInv, Closed, Undecided
    <2>9. pc' \notin Undecided /\ pc' \notin Planning \cup InLoop
      BY <2>2 DEF Undecided, Planning, InLoop, InLevel
    <2> QED BY <2>1, <2>2, <2>3, <2>4, <2>5, <2>6, <2>7, <2>8, <2>9
            DEF VerdictInv, CursorsDurable, KeysDurable
  <1> DEFINE Late == UNCHANGED <<def, phase, results, cp, cancelled>>
  <1>9. ASSUME Late PROVE /\ Checkpointed' = Checkpointed /\ Deduped' = Deduped
                          /\ Failures' = Failures /\ Clean' = Clean
    BY <1>9 DEF Checkpointed, Deduped, Failures, Succeeded, Clean
  <1>10. CASE CommitSourceCursors
    <2>1. /\ pc = "cursors" /\ Late /\ UNCHANGED <<row, dedupeKeys>>
          /\ pc' \in {"dedupe", "mark", "errored"}
      BY <1>10 DEF CommitSourceCursors
    <2>2. phase = "completed" /\ row \notin Verdicts
      BY <2>1 DEF VerdictInv, Closed
    <2>3. \A n \in NodeID : /\ cursor'[n] # cursor[n] => n \in Checkpointed /\ cursor'[n] = cp[n]
                            /\ pc' # "errored" /\ n \in Checkpointed => cursor'[n] = cp[n]
      BY <1>10, <1>0 DEF CommitSourceCursors, TypeOK
    <2>4. pc' = "mark" => Deduped = {}
      BY <1>10 DEF CommitSourceCursors
    <2>5. /\ pc' \notin Undecided /\ pc' \notin Planning \cup InLoop
          /\ Checkpointed \subseteq NodeID
      BY <2>1 DEF Undecided, Planning, InLoop, InLevel, Checkpointed
    <2> QED BY <2>1, <2>2, <2>3, <2>4, <2>5, <1>9
            DEF VerdictInv, CursorsDurable, KeysDurable, Verdicts, Undecided
  <1>11. CASE CommitDedupeKeys
    <2>1. /\ pc = "dedupe" /\ Late /\ UNCHANGED <<row, cursor>> /\ pc' \in {"mark", "errored"}
          /\ pc' = "mark" => Deduped \subseteq dedupeKeys'
      BY <1>11 DEF CommitDedupeKeys
    <2>2. phase = "completed" /\ row \notin Verdicts
      BY <2>1 DEF VerdictInv, Closed
    <2>3. pc' \notin Undecided /\ pc' \notin Planning \cup InLoop
      BY <2>1 DEF Undecided, Planning, InLoop, InLevel
    <2> QED BY <2>1, <2>2, <2>3, <1>9 DEF VerdictInv, CursorsDurable, KeysDurable, Verdicts, Undecided
  <1>12. CASE MarkExecution
    <2>1. /\ pc = "mark" /\ Late /\ UNCHANGED <<cursor, dedupeKeys>>
          /\ pc' \in {"returned", "errored"} /\ row' \in {row, phase}
      BY <1>12 DEF MarkExecution
    <2>2. row \notin Verdicts
      BY <2>1 DEF VerdictInv, Closed
    <2>3. pc' \notin Undecided /\ pc' \notin Planning \cup InLoop /\ pc' \in Closed
      BY <2>1 DEF Undecided, Planning, InLoop, InLevel, Closed
    <2> QED BY <2>1, <2>2, <2>3, <1>9 DEF VerdictInv, CursorsDurable, KeysDurable, Undecided
  <1>13. CASE InsertExecutionRow
    <2>1. /\ Late /\ UNCHANGED <<cursor, dedupeKeys>> /\ row' \in {"running", "lost"}
          /\ pc' \in {pc, "terminated"}
      BY <1>13 DEF InsertExecutionRow
    <2>2. row' \notin Verdicts
      BY <2>1 DEF Verdicts
    <2>3. "terminated" \notin Undecided \cup Planning \cup InLoop \cup {"cursors", "dedupe", "mark"}
      BY DEF Undecided, Planning, InLoop, InLevel
    <2> QED BY <2>1, <2>2, <2>3, <1>9 DEF VerdictInv, CursorsDurable, KeysDurable, Undecided
  <1>14. CASE UNCHANGED vars \/ \E s \in {"pause", "resume", "cancel"} : Signal(s)
    <2>1. Late /\ UNCHANGED <<pc, row, cursor, dedupeKeys>>
      BY <1>14 DEF vars, Signal
    <2> QED BY <2>1, <1>9 DEF VerdictInv, CursorsDurable, KeysDurable
  <1> QED
    BY <1>2, <1>3, <1>4, <1>5, <1>6, <1>7, <1>8, <1>10, <1>11, <1>12, <1>13, <1>14
    DEF Next, WorkflowStep

LEMMA VerdictCorrect == Safety => [](RunInv /\ VerdictInv)
  <1>1. Init => RunInv /\ VerdictInv
    BY InitTypeOK, InitPlanInv, InitLoopInv, InitNodeInv, InitVerdictInv DEF RunInv
  <1>2. RunInv /\ VerdictInv /\ [Next]_vars => (RunInv /\ VerdictInv)'
    BY NextTypeOK, NextPlanInv, NextLoopInv, NextNodeInv, NextVerdictInv DEF RunInv
  <1> QED BY <1>1, <1>2, PTL DEF Safety

(* Source cursors and dedupe keys become durable only after every node of  *)
(* the definition succeeded or was skipped, in a run nobody cancelled, and *)
(* a cursor never passes the pages the run has read.                       *)
THEOREM CommitOnlyAfterFullSuccessAlways == Safety => []CommitOnlyAfterFullSuccess
  <1>1. RunInv /\ VerdictInv => CommitOnlyAfterFullSuccess
    <2> SUFFICES ASSUME RunInv, VerdictInv PROVE CommitOnlyAfterFullSuccess
      OBVIOUS
    <2>1. \A n \in NodeID : cursor[n] # 0 => Succeeded(n) /\ cursor[n] <= page[n]
      BY DEF VerdictInv, RunInv, NodeInv, Checkpointed
    <2>2. (\E n \in NodeID : cursor[n] # 0) \/ dedupeKeys # {} => phase = "completed"
      BY DEF VerdictInv
    <2> QED BY <2>1, <2>2 DEF VerdictInv, CommitOnlyAfterFullSuccess, Clean
  <1> QED BY <1>1, VerdictCorrect, PTL

(* The phase in the executions row is never a lie about the run: completed *)
(* also means that every checkpoint and every dedupe key is durable.       *)
THEOREM RecordedPhaseIsTrueAlways == Safety => []RecordedPhaseIsTrue
  <1>1. VerdictInv => RecordedPhaseIsTrue
    BY DEF VerdictInv, RecordedPhaseIsTrue, CursorsDurable, KeysDurable, Clean, Verdicts
  <1> QED BY <1>1, VerdictCorrect, PTL

LEMMA CancelStep ==
  ASSUME RunInv, VerdictInv, [Next]_vars, cancelled \/ (pc = "boundary" /\ cancelCh > 0)
  PROVE  pc' # "batch" /\ UNCHANGED <<run, results>>
  <1> USE DEF input, plan, loop, nodes, channels, flags, durable
  <1>0. TypeOK /\ pc \notin {"paused", "batch", "await"}
    BY DEF RunInv, VerdictInv, InLoop, InLevel
  <1>1. CASE DrainSignals
    <2>1. pc = "boundary" /\ UNCHANGED <<run, results>>
      BY <1>1 DEF DrainSignals
    <2>2. cancelCh > 0
      BY <2>1 DEF VerdictInv, InLoop
    <2>3. cancelled' = TRUE
      BY <1>1, <2>2 DEF DrainSignals, CancelledAfterDrain
    <2> QED BY <1>1, <2>1, <2>3 DEF DrainSignals
  <1>2. CASE PrepareScheduledExecution \/ ValidateEdges \/ PlanLevel \/ EndPlan \/ LevelsDone
    BY <1>2 DEF PrepareScheduledExecution, ValidateEdges, PlanLevel, EndPlan, LevelsDone
  <1>3. CASE Decide \/ CommitSourceCursors \/ CommitDedupeKeys \/ MarkExecution
    BY <1>3 DEF Decide, CommitSourceCursors, CommitDedupeKeys, MarkExecution
  <1>4. CASE InsertExecutionRow \/ \E s \in {"pause", "resume", "cancel"} : Signal(s)
    BY <1>0, <1>4 DEF InsertExecutionRow, Signal
  <1>5. CASE UNCHANGED vars
    BY <1>0, <1>5 DEF vars
  <1>6. ~ReceiveResume /\ ~ReceiveCancel /\ ~StartBatch
    BY <1>0 DEF ReceiveResume, ReceiveCancel, StartBatch
  <1>7. \A n \in NodeID : ~NodeActivity(n) /\ ~CollectFuture(n)
    BY <1>0 DEF NodeActivity, CollectFuture
  <1> QED BY <1>1, <1>2, <1>3, <1>4, <1>5, <1>6, <1>7 DEF Next, WorkflowStep

(* A cancel signal that waits at a boundary stops the run there, and after *)
(* it nothing starts, works or is recorded, whatever happens next.         *)
THEOREM CancelStopsWorkAlways == Safety => CancelStopsWork
  <1>1. RunInv /\ VerdictInv /\ [Next]_vars =>
          [cancelled \/ (pc = "boundary" /\ cancelCh > 0) =>
             pc' # "batch" /\ UNCHANGED <<run, results>>]_vars
    BY CancelStep
  <1> QED BY <1>1, VerdictCorrect, PTL DEF Safety, CancelStopsWork
-----------------------------------------------------------------------------
(* The executor implements RunContract.                                    *)

Committed == (\E n \in NodeID : cursor[n] # 0) \/ dedupeKeys # {}
Reported == IF row \in Verdicts THEN row ELSE "open"

LEMMA InitContract == Init => Contract!Init
  <1> SUFFICES ASSUME Init PROVE Contract!Init
    OBVIOUS
  <1>1. ~Committed /\ row \notin Verdicts
    BY DEF Init, Committed, Verdicts
  <1>2. def \in Definitions /\ results = [n \in NodeID |-> "none"]
    BY DEF Init
  <1> QED BY <1>1, <1>2 DEF Contract!Init, Committed

LEMMA CollectSettles ==
  ASSUME RunInv, VerdictInv, NEW n \in NodeID, CollectFuture(n)
  PROVE  Contract!Settle(n, run[n])
  <1> USE DEF input, plan, loop, nodes, channels, flags, durable
  <1>1. /\ pc = "await" /\ n \in batch /\ run[n] \in Statuses
        /\ results' = [results EXCEPT ![n] = run[n]]
        /\ UNCHANGED <<def, row, cursor, dedupeKeys>>
    BY DEF CollectFuture
  <1>2. phase = "running" /\ row \notin Verdicts
    BY <1>1 DEF VerdictInv, Undecided, InLoop, InLevel, Closed
  <1>3. ~Committed
    BY <1>2 DEF VerdictInv, Committed
  <1>4. n \in def.nodes /\ results[n] = "none" /\ \A u \in Upstream(n) : results[u] # "none"
    BY <1>1 DEF RunInv, LoopInv, PlanInv
  <1>5. run[n] # "skipped" /\ Upstream(n) # {} => \E u \in Upstream(n) : results[u] = "success"
    BY <1>1 DEF RunInv, NodeInv, WorkNeedsSuccessfulUpstream, HasSuccessfulUpstream, Succeeded, Statuses
  <1>6. Upstream(n) = {} => run[n] # "skipped"
    BY DEF RunInv, NodeInv
  <1>7. Contract!UpstreamOf(n) = Upstream(n)
    BY DEF Contract!UpstreamOf, Upstream, Incoming
  <1> QED BY <1>1, <1>2, <1>3, <1>4, <1>5, <1>6, <1>7 DEF Contract!Settle, Committed

(* A commit makes the run committed when it was not, and is a stutter of   *)
(* the contract otherwise.                                                 *)
LEMMA CommitCommits ==
  ASSUME RunInv, VerdictInv, CommitSourceCursors \/ CommitDedupeKeys
  PROVE  Contract!Commit \/ UNCHANGED Contract!cvars
  <1> USE DEF input, plan, loop, nodes, channels, flags, durable
  <1>1. pc \in {"cursors", "dedupe"} /\ UNCHANGED <<def, results, row>>
    BY DEF CommitSourceCursors, CommitDedupeKeys
  <1>2. Clean /\ row \notin Verdicts
    BY <1>1 DEF VerdictInv, Closed
  <1>3. Committed => Committed'
    <2>1. CASE CommitSourceCursors
      <3>1. dedupeKeys' = dedupeKeys
        BY <2>1 DEF CommitSourceCursors
      <3>2. \A n \in NodeID : cursor[n] # 0 => cursor'[n] # 0
        BY <2>1 DEF CommitSourceCursors, Checkpointed, RunInv, TypeOK
      <3> QED BY <3>1, <3>2 DEF Committed
    <2>2. CASE CommitDedupeKeys
      BY <2>2 DEF CommitDedupeKeys, Committed
    <2> QED BY <2>1, <2>2
  <1>4. CASE Committed' <=> Committed
    BY <1>1, <1>4 DEF Contract!cvars, Committed
  <1>5. CASE ~Committed /\ Committed'
    BY <1>1, <1>2, <1>5 DEF Contract!Commit, Contract!Clean, Committed, Clean
  <1> QED BY <1>3, <1>4, <1>5

LEMMA MarkReports ==
  ASSUME RunInv, VerdictInv, MarkExecution
  PROVE  (\E verdict \in Verdicts : Contract!Report(verdict)) \/ UNCHANGED Contract!cvars
  <1> USE DEF input, plan, loop, nodes, channels, flags, durable
  <1>1. /\ pc = "mark" /\ row' \in {row, phase}
        /\ UNCHANGED <<def, results, cursor, dedupeKeys>>
    BY DEF MarkExecution
  <1>2. row \notin Verdicts /\ phase \in Verdicts
    BY <1>1 DEF VerdictInv, Closed
  <1>3. /\ phase = "completed" => Clean
        /\ phase = "failed" => \E n \in def.nodes : results[n] = "failed"
        /\ phase = "cancelled" => ~Committed
    <2>1. phase = "failed" => \E n \in def.nodes : results[n] = "failed"
      <3> SUFFICES ASSUME phase = "failed" PROVE \E n \in def.nodes : results[n] = "failed"
        OBVIOUS
      <3>1. PICK n \in NodeID : results[n] = "failed"
        BY DEF VerdictInv, Failures
      <3>2. n \in def.nodes
        BY <3>1 DEF RunInv, LoopInv, PlanInv
      <3> QED BY <3>1, <3>2
    <2> QED BY <2>1 DEF VerdictInv, Committed
  <1>4. CASE row' = row
    BY <1>1, <1>4 DEF Contract!cvars
  <1>5. CASE row' = phase
    <2>1. Contract!Report(phase)
      BY <1>1, <1>2, <1>3, <1>5 DEF Contract!Report, Contract!Clean, Clean, Committed, Verdicts
    <2> QED BY <2>1, <1>2
  <1> QED BY <1>1, <1>4, <1>5

(* No other step changes what the contract sees.                           *)
LEMMA OtherSteps ==
  ASSUME RunInv, VerdictInv, [Next]_vars, ~CommitSourceCursors, ~CommitDedupeKeys, ~MarkExecution,
         \A n \in NodeID : ~CollectFuture(n)
  PROVE  UNCHANGED Contract!cvars
  <1> USE DEF input, plan, loop, nodes, channels, flags, durable
  <1>1. UNCHANGED <<def, results, cursor, dedupeKeys>>
    <2>1. CASE PrepareScheduledExecution \/ ValidateEdges \/ PlanLevel \/ EndPlan
      BY <2>1 DEF PrepareScheduledExecution, ValidateEdges, PlanLevel, EndPlan
    <2>2. CASE DrainSignals \/ LevelsDone \/ ReceiveResume \/ ReceiveCancel
      BY <2>2 DEF DrainSignals, LevelsDone, ReceiveResume, ReceiveCancel
    <2>3. CASE StartBatch \/ Decide
      BY <2>3 DEF StartBatch, Decide
    <2>4. CASE \E n \in NodeID : NodeActivity(n)
      BY <2>4, NodeActivityStep DEF RunInv
    <2>5. CASE InsertExecutionRow \/ \E s \in {"pause", "resume", "cancel"} : Signal(s)
      BY <2>5 DEF InsertExecutionRow, Signal
    <2>6. CASE UNCHANGED vars
      BY <2>6 DEF vars
    <2> QED BY <2>1, <2>2, <2>3, <2>4, <2>5, <2>6 DEF Next, WorkflowStep
  <1>2. row' = row \/ (row \notin Verdicts /\ row' \notin Verdicts)
    <2>1. CASE PrepareScheduledExecution
      <3>1. pc = "prepare" /\ row' \in {row, "running"}
        BY <2>1 DEF PrepareScheduledExecution
      <3>2. row \notin Verdicts
        BY <3>1 DEF VerdictInv, Closed
      <3> QED BY <3>1, <3>2 DEF Verdicts
    <2>2. CASE ValidateEdges \/ PlanLevel \/ EndPlan
      BY <2>2 DEF ValidateEdges, PlanLevel, EndPlan
    <2>3. CASE DrainSignals \/ LevelsDone \/ ReceiveResume \/ ReceiveCancel
      BY <2>3 DEF DrainSignals, LevelsDone, ReceiveResume, ReceiveCancel
    <2>4. CASE StartBatch \/ Decide
      BY <2>4 DEF StartBatch, Decide
    <2>5. CASE \E n \in NodeID : NodeActivity(n)
      BY <2>5, NodeActivityStep DEF RunInv
    <2>6. CASE InsertExecutionRow
      BY <2>6 DEF InsertExecutionRow, Verdicts
    <2>7. CASE UNCHANGED vars \/ \E s \in {"pause", "resume", "cancel"} : Signal(s)
      BY <2>7 DEF Signal, vars
    <2> QED BY <2>1, <2>2, <2>3, <2>4, <2>5, <2>6, <2>7 DEF Next, WorkflowStep
  <1> QED BY <1>1, <1>2 DEF Contract!cvars

(* The executor implements the contract of a run for every definition:     *)
(* results settle once and in edge order, commits need a clean graph and   *)
(* the reported phase is final and true.                                   *)
THEOREM ExecutorImplementsContract == Safety => ImplementsContract
  <1>1. RunInv /\ VerdictInv /\ [Next]_vars => [Contract!Next]_(Contract!cvars)
    <2> SUFFICES ASSUME RunInv, VerdictInv, [Next]_vars
                 PROVE  Contract!Next \/ UNCHANGED Contract!cvars
      OBVIOUS
    <2>1. ASSUME NEW n \in NodeID, CollectFuture(n) PROVE Contract!Next
      <3>1. Contract!Settle(n, run[n]) /\ run[n] \in {"success", "failed", "skipped"}
        BY <2>1, CollectSettles DEF CollectFuture, Statuses
      <3> QED BY <3>1 DEF Contract!Next
    <2>2. CASE CommitSourceCursors \/ CommitDedupeKeys
      BY <2>2, CommitCommits DEF Contract!Next
    <2>3. CASE MarkExecution
      BY <2>3, MarkReports DEF Contract!Next, Verdicts
    <2>4. CASE /\ ~CommitSourceCursors /\ ~CommitDedupeKeys /\ ~MarkExecution
               /\ \A n \in NodeID : ~CollectFuture(n)
      BY <2>4, OtherSteps
    <2> QED BY <2>1, <2>2, <2>3, <2>4
  <1> QED BY <1>1, InitContract, VerdictCorrect, PTL DEF Safety, ImplementsContract, Contract!Spec
=============================================================================
