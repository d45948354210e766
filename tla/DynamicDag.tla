----------------------------- MODULE DynamicDag -----------------------------
(***************************************************************************)
(* One execution of DynamicDAGWorkflow (workflows/dynamic_dag.go): the     *)
(* plan built by Kahn's algorithm, the levels run in bounded batches, the  *)
(* coroutine of every node with the activities it waits for, the pause,    *)
(* resume and cancel signals, the commit of source cursors and dedupe keys *)
(* after a fully successful run and the terminal phase written to the      *)
(* executions row, which the API inserts concurrently (api/temporal.go).   *)
(*                                                                         *)
(* An activity is one step: Temporal retries it up to five times and the   *)
(* workflow sees the last answer, so a failed activity may or may not have *)
(* taken effect (an attempt can commit and lose its answer).               *)
(***************************************************************************)
EXTENDS Integers, FiniteSets

CONSTANTS
  NodeID,       (* identifiers that nodes and edges of a definition use      *)
  Definitions,  (* the pipeline definitions an execution may be started with *)
  MaxPages,     (* pages a source may fetch in one execution (50 in the code)*)
  MaxParallel,  (* concurrency.maxParallelNodes, or its default              *)
  MaxSignals    (* bound on the signals users send to the execution          *)

NodeTypes == {"source", "merge", "fork", "task"}

Edges == [source: NodeID, target: NodeID, condition: BOOLEAN]

(* A definition: its nodes and edges, the node types, the task nodes that  *)
(* run transform.dedupe with pipeline scope, and whether the trigger came  *)
(* with a payload.                                                         *)
PipelineDefinition ==
  [nodes: SUBSET NodeID, edges: SUBSET Edges, type: [NodeID -> NodeTypes],
   dedupe: SUBSET NodeID, payload: BOOLEAN]

ASSUME DefinitionsAssumption == Definitions \subseteq PipelineDefinition
ASSUME NodesFinite == IsFiniteSet(NodeID)
ASSUME BoundsAssumption ==
  /\ MaxPages \in Nat \ {0}
  /\ MaxParallel \in Nat \ {0}
  /\ MaxSignals \in Nat

VARIABLES
  def, trigger,                    \* the workflow input
  pc, phase,                       \* where the workflow is, its verdict
  depth, levels, queue,            \* executionPlan: level of a node (0 = none)
  lvl, pending, batch,             \* current level, nodes not started, futures
  run, conds, page, cp, ref,       \* the coroutine of each node
  results,                         \* state.Results
  pauseCh, resumeCh, cancelCh,     \* undelivered signals per channel
  paused, cancelled,               \* state.Paused, state.Cancelled
  sent,                            \* history: signals sent
  row, cursor, dedupeKeys          \* executions.phase, connector_state, dedupe_keys

input    == <<def, trigger>>
plan     == <<depth, levels, queue>>
loop     == <<lvl, pending, batch>>
nodes    == <<run, conds, page, cp, ref>>
channels == <<pauseCh, resumeCh, cancelCh, sent>>
flags    == <<paused, cancelled>>
durable  == <<row, cursor, dedupeKeys>>
vars     == <<input, pc, phase, plan, loop, nodes, results, channels, flags, durable>>

Triggers == {"api", "cron", "cronWithoutRow"}
Verdicts == {"completed", "failed", "cancelled"}
Statuses == {"success", "failed", "skipped"}
Stages   == {"conditions", "fetch", "concat", "merge", "dispatch"}
Closed   == {"returned", "errored", "terminated"}
PCs      == {"prepare", "validate", "kahn", "boundary", "paused", "batch", "await", "decide",
             "cursors", "dedupe", "mark"} \cup Closed

TypeOK ==
  /\ def \in Definitions /\ trigger \in Triggers
  /\ pc \in PCs /\ phase \in Verdicts \cup {"running"}
  /\ depth \in [NodeID -> Nat] /\ levels \in Nat /\ queue \in SUBSET NodeID
  /\ lvl \in Nat /\ pending \in SUBSET NodeID /\ batch \in SUBSET NodeID
  /\ run \in [NodeID -> Stages \cup Statuses \cup {"idle"}]
  /\ conds \in [NodeID -> SUBSET Edges]
  /\ page \in [NodeID -> Nat] /\ cp \in [NodeID -> Nat]
  /\ ref \in [NodeID -> BOOLEAN]
  /\ results \in [NodeID -> Statuses \cup {"none"}]
  /\ pauseCh \in Nat /\ resumeCh \in Nat /\ cancelCh \in Nat
  /\ paused \in BOOLEAN /\ cancelled \in BOOLEAN
  /\ sent \in 0..MaxSignals
  /\ row \in Verdicts \cup {"absent", "running", "lost"}
  /\ cursor \in [NodeID -> Nat] /\ dedupeKeys \in SUBSET NodeID

Incoming(n) == {e \in def.edges : e.target = n}
Upstream(n) == {e.source : e \in Incoming(n)}

(* The executions row is in the database.                                  *)
Recorded == row \notin {"absent", "lost"}

Init ==
  /\ def \in Definitions /\ trigger \in Triggers
  /\ pc = (IF trigger = "api" THEN "validate" ELSE "prepare") /\ phase = "running"
  /\ depth = [n \in NodeID |-> 0] /\ levels = 0 /\ queue = {}
  /\ lvl = 0 /\ pending = {} /\ batch = {}
  /\ run = [n \in NodeID |-> "idle"] /\ conds = [n \in NodeID |-> {}]
  /\ page = [n \in NodeID |-> 0] /\ cp = [n \in NodeID |-> 0]
  /\ ref = [n \in NodeID |-> FALSE] /\ results = [n \in NodeID |-> "none"]
  /\ pauseCh = 0 /\ resumeCh = 0 /\ cancelCh = 0 /\ paused = FALSE /\ cancelled = FALSE
  /\ sent = 0
  /\ row = "absent" /\ cursor = [n \in NodeID |-> 0] /\ dedupeKeys = {}

-----------------------------------------------------------------------------
(* The scheduled start and the plan.                                       *)

(* A cron firing has no row yet: prepareScheduledExecution counts it       *)
(* against the quota and inserts the row in one transaction. It fails      *)
(* without effect (quota, database) or after its commit (answers lost).    *)
PrepareScheduledExecution ==
  /\ pc = "prepare"
  /\ \/ /\ trigger = "cronWithoutRow" /\ pc' = "errored" /\ UNCHANGED row
     \/ /\ trigger = "cron"
        /\ \/ pc' = "validate" /\ row' = "running"
           \/ pc' = "errored" /\ row' \in {row, "running"}
  /\ UNCHANGED <<input, phase, plan, loop, nodes, results, channels, flags, cursor, dedupeKeys>>

(* Nodes not placed yet whose in-degree has dropped to zero once the nodes *)
(* of `placed` have released their outgoing edges.                         *)
ZeroInDegreeEager(placed) == {n \in def.nodes \ placed : Upstream(n) = {} \/ Upstream(n) \cap placed # {}}
ZeroInDegree(placed) == {n \in def.nodes \ placed : Upstream(n) \subseteq placed}

(* buildPlan: edges with unknown endpoints are refused; the first queue    *)
(* holds the roots.                                                        *)
ValidateEdges ==
  /\ pc = "validate"
  /\ IF \E e \in def.edges : {e.source, e.target} \ def.nodes # {}
     THEN pc' = "errored" /\ UNCHANGED queue
     ELSE pc' = "kahn" /\ queue' = ZeroInDegree({})
  /\ UNCHANGED <<input, phase, depth, levels, loop, nodes, results, channels, flags, durable>>

Placed == {n \in NodeID : depth[n] # 0}

(* buildPlan: one round of Kahn's algorithm turns the queue into a level;  *)
(* an empty queue ends the plan, with an error when a cycle left nodes out.*)
PlanLevel ==
  /\ pc = "kahn" /\ queue # {}
  /\ levels' = levels + 1
  /\ depth' = [n \in NodeID |-> IF n \in queue THEN levels + 1 ELSE depth[n]]
  /\ queue' = ZeroInDegree(Placed \cup queue)
  /\ UNCHANGED <<input, pc, phase, loop, nodes, results, channels, flags, durable>>

PlanCompleteUnchecked == TRUE
PlanComplete == Placed = def.nodes

EndPlan ==
  /\ pc = "kahn" /\ queue = {}
  /\ IF PlanComplete
     THEN pc' = "boundary" /\ lvl' = 1
     ELSE pc' = "errored" /\ UNCHANGED lvl
  /\ UNCHANGED <<input, phase, plan, pending, batch, nodes, results, channels, flags, durable>>

-----------------------------------------------------------------------------
(* Level boundaries and signals.                                           *)

LevelNodes(l) == {n \in NodeID : depth[n] = l}

(* The head of the level loop. drainSignals empties the pause channel,     *)
(* then resume, then cancel, so the order in which they arrived is lost.   *)
PausedAfterDrain == IF resumeCh > 0 THEN FALSE ELSE paused \/ pauseCh > 0
CancelledAfterDrainDropped == cancelled
CancelledAfterDrain == cancelled \/ cancelCh > 0

DrainSignals ==
  /\ pc = "boundary" /\ lvl <= levels
  /\ paused' = PausedAfterDrain /\ cancelled' = CancelledAfterDrain
  /\ pauseCh' = 0 /\ resumeCh' = 0 /\ cancelCh' = 0
  /\ pc' = (CASE cancelled' -> "decide" [] paused' /\ ~cancelled' -> "paused" [] OTHER -> "batch")
  /\ pending' = (IF cancelled' THEN {} ELSE LevelNodes(lvl))
  /\ UNCHANGED <<input, phase, plan, lvl, batch, nodes, results, sent, durable>>

LevelsDone ==
  /\ pc = "boundary" /\ lvl > levels /\ pc' = "decide"
  /\ UNCHANGED <<input, phase, plan, loop, nodes, results, channels, flags, durable>>

(* The selector of a paused workflow takes whichever of resume and cancel  *)
(* arrives first; pause signals stay in their channel.                     *)
ReceiveResume ==
  /\ pc = "paused" /\ resumeCh > 0
  /\ resumeCh' = resumeCh - 1 /\ paused' = FALSE /\ pc' = "batch"
  /\ UNCHANGED <<input, phase, plan, loop, nodes, results, pauseCh, cancelCh, sent,
                 cancelled, durable>>

ReceiveCancel ==
  /\ pc = "paused" /\ cancelCh > 0
  /\ cancelCh' = cancelCh - 1 /\ cancelled' = TRUE /\ pc' = "decide" /\ pending' = {}
  /\ UNCHANGED <<input, phase, plan, lvl, batch, nodes, results, pauseCh, resumeCh, sent,
                 paused, durable>>

(* executionSignal looks the execution up by its row; the signal reaches   *)
(* the workflow while it is open.                                          *)
Signal(s) ==
  /\ Recorded /\ pc \notin Closed /\ sent < MaxSignals
  /\ sent' = sent + 1
  /\ pauseCh'  = pauseCh  + (IF s = "pause"  THEN 1 ELSE 0)
  /\ resumeCh' = resumeCh + (IF s = "resume" THEN 1 ELSE 0)
  /\ cancelCh' = cancelCh + (IF s = "cancel" THEN 1 ELSE 0)
  /\ UNCHANGED <<input, pc, phase, plan, loop, nodes, results, flags, durable>>

-----------------------------------------------------------------------------
(* Batches and the coroutines of their nodes (runNode, runSource).         *)

Succeeded(n) == results[n] = "success"
ConditionalEdges(n) == {e \in Incoming(n) : e.condition}
HasSuccessfulUpstreamIgnored(n) == TRUE
HasSuccessfulUpstream(n) == \E u \in Upstream(n) : Succeeded(u)

(* The references a node receives: those of upstream nodes that have one,  *)
(* else the trigger's payload.                                             *)
HasInput(n) == (\E u \in Upstream(n) : ref[u]) \/ def.payload

(* Where a coroutine waits once its conditions allow the node to run.      *)
NodeStageWithoutFork(n) ==
  CASE def.type[n] = "source" -> "fetch"
    [] def.type[n] = "merge"  -> "merge"
    [] def.type[n] = "fork"   -> "none"
    [] def.type[n] = "task"   -> "dispatch"
NodeStage(n) ==
  CASE def.type[n] = "source" -> "fetch"
    [] def.type[n] = "merge"  -> "merge"
    [] def.type[n] = "fork"   -> "success"
    [] def.type[n] = "task"   -> "dispatch"

(* A coroutine up to the first activity it waits for.                      *)
FirstStageWithoutSkip(n) ==
  CASE Upstream(n) # {} /\ ~HasSuccessfulUpstream(n) -> "idle"
    [] (Upstream(n) = {} \/ HasSuccessfulUpstream(n)) /\ ConditionalEdges(n) # {} -> "conditions"
    [] OTHER -> NodeStage(n)
FirstStage(n) ==
  CASE Upstream(n) # {} /\ ~HasSuccessfulUpstream(n) -> "skipped"
    [] (Upstream(n) = {} \/ HasSuccessfulUpstream(n)) /\ ConditionalEdges(n) # {} -> "conditions"
    [] OTHER -> NodeStage(n)

BatchSizeOffByOne(k) == IF k <= MaxParallel + 1 THEN k ELSE MaxParallel + 1
BatchSize(k) == IF k <= MaxParallel THEN k ELSE MaxParallel

(* level[start:end]: the next maxParallel nodes of the level start. Their  *)
(* order in the level comes from the definition and is left open.          *)
StartBatch ==
  /\ pc = "batch" /\ pending # {}
  /\ \E b \in SUBSET pending :
       /\ Cardinality(b) = BatchSize(Cardinality(pending))
       /\ batch' = b /\ pending' = pending \ b
       /\ run' = [n \in NodeID |-> IF n \in b THEN FirstStage(n) ELSE run[n]]
       /\ conds' = [n \in NodeID |-> IF n \in b THEN ConditionalEdges(n) ELSE conds[n]]
       /\ ref' = [n \in NodeID |-> IF n \in b /\ FirstStage(n) = "success" THEN HasInput(n) ELSE ref[n]]
  /\ pc' = "await"
  /\ UNCHANGED <<input, phase, plan, lvl, page, cp, results, channels, flags, durable>>

(* evalEdgeCondition for one conditional edge. An upstream without output  *)
(* answers true without evaluating the condition.                          *)
EvalEdgeCondition(n, e) ==
  /\ run[n] = "conditions" /\ e \in conds[n]
  /\ conds' = [conds EXCEPT ![n] = @ \ {e}]
  /\ \/ /\ run' = [run EXCEPT ![n] = IF conds[n] = {e} THEN NodeStage(n) ELSE @]
        /\ ref' = [ref EXCEPT ![n] = IF conds[n] = {e} /\ NodeStage(n) = "success" THEN HasInput(n) ELSE @]
     \/ ref[e.source] /\ run' = [run EXCEPT ![n] = "skipped"] /\ UNCHANGED ref
     \/ run' = [run EXCEPT ![n] = "failed"] /\ UNCHANGED ref
  /\ UNCHANGED <<input, pc, phase, plan, loop, page, cp, results, channels, flags, durable>>

(* What runSource does after a page: fail at the page limit, fetch the     *)
(* next page, or go on to the concatenation of more than one page.         *)
AfterPage(number, hasMore) ==
  CASE hasMore /\ number >= MaxPages -> "failed"
    [] hasMore /\ number < MaxPages -> "fetch"
    [] ~hasMore /\ number > 1 -> "concat"
    [] OTHER -> "success"

NextPage(n) == page[n] + 1

(* fetchSourcePage: a page, with or without a checkpoint, or an error.     *)
FetchSourcePage(n) ==
  LET number == NextPage(n)
  IN /\ run[n] = "fetch"
     /\ \/ /\ run' = [run EXCEPT ![n] = "failed"] /\ UNCHANGED <<page, cp, ref>>
        \/ \E hasMore, checkpoint \in BOOLEAN :
             /\ page' = [page EXCEPT ![n] = number]
             /\ cp' = [cp EXCEPT ![n] = IF checkpoint THEN number ELSE @]
             /\ run' = [run EXCEPT ![n] = AfterPage(number, hasMore)]
             /\ ref' = [ref EXCEPT ![n] = AfterPage(number, hasMore) = "success"]
     /\ UNCHANGED <<input, pc, phase, plan, loop, conds, results, channels, flags, durable>>

(* mergeRefs, for the pages of a source or for a merge node.               *)
MergeRefs(n) ==
  /\ run[n] \in {"concat", "merge"}
  /\ \E ok \in BOOLEAN :
       /\ run' = [run EXCEPT ![n] = IF ok THEN "success" ELSE "failed"]
       /\ ref' = [ref EXCEPT ![n] = ok]
  /\ UNCHANGED <<input, pc, phase, plan, loop, conds, page, cp, results, channels, flags, durable>>

(* dispatchNode: a handler may succeed without output. Deduplication       *)
(* across runs finds its pipeline through the executions row, so it fails  *)
(* when the row is not there; it always has an output.                     *)
DispatchNode(n) ==
  /\ run[n] = "dispatch"
  /\ \/ run' = [run EXCEPT ![n] = "failed"] /\ UNCHANGED ref
     \/ /\ n \in def.dedupe => Recorded
        /\ run' = [run EXCEPT ![n] = "success"]
        /\ \E output \in BOOLEAN :
             /\ n \in def.dedupe => output
             /\ ref' = [ref EXCEPT ![n] = output]
  /\ UNCHANGED <<input, pc, phase, plan, loop, conds, page, cp, results, channels, flags, durable>>

(* The main coroutine collects the futures of the batch; after the last    *)
(* one it starts the next batch or goes on to the next level.              *)
CollectFuture(n) ==
  /\ pc = "await" /\ n \in batch /\ run[n] \in Statuses
  /\ results' = [results EXCEPT ![n] = run[n]]
  /\ batch' = batch \ {n}
  /\ IF batch # {n} THEN UNCHANGED <<pc, lvl>>
     ELSE IF pending # {} THEN pc' = "batch" /\ UNCHANGED lvl
     ELSE pc' = "boundary" /\ lvl' = lvl + 1
  /\ UNCHANGED <<input, phase, plan, pending, nodes, channels, flags, durable>>

-----------------------------------------------------------------------------
(* The verdict, the commits and the terminal phase.                        *)

Failures == {n \in NodeID : results[n] = "failed"}
VerdictIgnoringFailures == IF cancelled THEN "cancelled" ELSE "completed"
VerdictIgnoringCancel == IF Failures # {} THEN "failed" ELSE "completed"
Verdict ==
  CASE cancelled -> "cancelled"
    [] ~cancelled /\ Failures # {} -> "failed"
    [] OTHER -> "completed"

(* Candidate checkpoints and dedupe keys of the results.                   *)
Checkpointed == {n \in NodeID : Succeeded(n) /\ def.type[n] = "source" /\ cp[n] # 0}
Deduped == {n \in def.dedupe : Succeeded(n) /\ def.type[n] = "task"}

Decide ==
  /\ pc = "decide" /\ phase' = Verdict
  /\ pc' = (CASE Verdict = "completed" /\ Checkpointed # {} -> "cursors"
              [] Verdict = "completed" /\ Checkpointed = {} /\ Deduped # {} -> "dedupe"
              [] OTHER -> "mark")
  /\ UNCHANGED <<input, plan, loop, nodes, results, channels, flags, durable>>

(* commitSourceCursors writes all cursors in one transaction. When its     *)
(* attempts are used up the workflow returns before markExecution.         *)
CommitSourceCursors ==
  /\ pc = "cursors"
  /\ LET advanced == [n \in NodeID |-> IF n \in Checkpointed THEN cp[n] ELSE cursor[n]]
     IN \/ cursor' = advanced /\ pc' = (IF Deduped # {} THEN "dedupe" ELSE "mark")
        \/ cursor' \in {cursor, advanced} /\ pc' = "errored"
  /\ UNCHANGED <<input, phase, plan, loop, nodes, results, channels, flags, row, dedupeKeys>>

(* commitDedupeKeys inserts checkpoint by checkpoint, each on its own.     *)
CommitDedupeKeys ==
  /\ pc = "dedupe"
  /\ \/ dedupeKeys' = dedupeKeys \cup Deduped /\ pc' = "mark"
     \/ pc' = "errored" /\ \E some \in SUBSET Deduped : dedupeKeys' = dedupeKeys \cup some
  /\ UNCHANGED <<input, phase, plan, loop, nodes, results, channels, flags, row, cursor>>

(* markExecution updates the row if the API has inserted it by now.        *)
MarkExecution ==
  /\ pc = "mark"
  /\ LET marked == IF Recorded THEN phase ELSE row
     IN \/ row' = marked /\ pc' = "returned"
        \/ row' \in {row, marked} /\ pc' = "errored"
  /\ UNCHANGED <<input, phase, plan, loop, nodes, results, channels, flags, cursor, dedupeKeys>>

-----------------------------------------------------------------------------
(* fireExecution inserts the executions row after it has started the       *)
(* workflow. When that fails, or its answer is lost, it terminates the     *)
(* workflow if it is still open, and ignores a failure to do so.           *)
InsertExecutionRow ==
  /\ trigger = "api" /\ row = "absent"
  /\ \/ row' = "running" /\ UNCHANGED pc
     \/ row' \in {"lost", "running"} /\ pc' \in {pc, IF pc \in Closed THEN pc ELSE "terminated"}
  /\ UNCHANGED <<input, phase, plan, loop, nodes, results, channels, flags, cursor, dedupeKeys>>

Activity(n) ==
  \/ \E e \in Edges : EvalEdgeCondition(n, e)
  \/ FetchSourcePage(n)
  \/ MergeRefs(n)
  \/ DispatchNode(n)

(* The coroutine of a node stops with the workflow.                        *)
NodeActivity(n) == pc = "await" /\ Activity(n)

WorkflowStep ==
  \/ PrepareScheduledExecution \/ ValidateEdges \/ PlanLevel \/ EndPlan
  \/ DrainSignals \/ LevelsDone \/ ReceiveResume \/ ReceiveCancel \/ StartBatch
  \/ Decide \/ CommitSourceCursors \/ CommitDedupeKeys \/ MarkExecution

Next ==
  \/ WorkflowStep
  \/ \E n \in NodeID : NodeActivity(n) \/ CollectFuture(n)
  \/ \E s \in {"pause", "resume", "cancel"} : Signal(s)
  \/ InsertExecutionRow

(* Temporal drives an open workflow and bounds every activity by timeouts  *)
(* and attempts. Nothing obliges a user to send a signal or the API to     *)
(* survive until it has inserted the row.                                  *)
Fairness ==
  /\ WF_vars(WorkflowStep)
  /\ \A n \in NodeID : WF_vars(NodeActivity(n)) /\ WF_vars(CollectFuture(n))

Safety == Init /\ [][Next]_vars
Spec == Safety /\ Fairness
-----------------------------------------------------------------------------
(* Properties.                                                             *)

(* The plan of buildPlan is a layering of the graph: once planning is over *)
(* without an error, every edge leads to a strictly later level, and a     *)
(* node that is not a root stands right after one of its upstream nodes.   *)
(* A cyclic definition has no such plan, so it never runs.                 *)
PlanIsLayering ==
  pc \notin {"prepare", "validate", "kahn", "errored", "terminated"} =>
    \A n \in def.nodes :
      /\ depth[n] \in 1..levels
      /\ \A u \in Upstream(n) : depth[u] \in 1..(depth[n] - 1)
      /\ depth[n] > 1 => \E u \in Upstream(n) : depth[u] = depth[n] - 1

(* runNode reads state.Results without waiting: a node has been started    *)
(* only when the result of every upstream node has been collected.         *)
DependencyOrder ==
  \A n \in NodeID : run[n] # "idle" =>
    n \in def.nodes /\ \A u \in Upstream(n) : results[u] # "none"

(* At most maxParallelNodes coroutines wait for an activity at a time, and *)
(* no source fetches more pages than the limit that bounds the history.    *)
ResourceBounds ==
  /\ Cardinality({n \in NodeID : run[n] \in Stages}) <= MaxParallel
  /\ \A n \in NodeID : page[n] <= MaxPages

(* A node with inbound edges does work only when an upstream succeeded.    *)
WorkNeedsSuccessfulUpstream ==
  \A n \in NodeID : run[n] \notin {"idle", "skipped"} /\ Upstream(n) # {} =>
    \E u \in Upstream(n) : results[u] = "success"

(* Checkpoints advance only after the full DAG succeeded: nothing durable  *)
(* moves while a node has failed, has no result, or the run was cancelled, *)
(* and a cursor only moves to a position whose pages reached the results.  *)
CommitOnlyAfterFullSuccess ==
  /\ (\E n \in NodeID : cursor[n] # 0) \/ dedupeKeys # {} =>
       ~cancelled /\ \A n \in def.nodes : results[n] \in {"success", "skipped"}
  /\ \A n \in NodeID : cursor[n] # 0 => Succeeded(n) /\ cursor[n] <= page[n]

(* The phase recorded for users agrees with what happened: a completed row *)
(* means that no node failed and that every candidate checkpoint and       *)
(* dedupe key is durable; failed, that a node failed; cancelled, that a    *)
(* cancel signal was honoured.                                             *)
RecordedPhaseIsTrue ==
  /\ row = "completed" =>
       /\ ~cancelled /\ \A n \in def.nodes : results[n] \in {"success", "skipped"}
       /\ \A n \in Checkpointed : cursor[n] = cp[n]
       /\ Deduped \subseteq dedupeKeys
  /\ row = "failed" => Failures # {} /\ ~cancelled
  /\ row = "cancelled" => cancelled

(* Cancel takes effect at the next boundary and for good: no node of a     *)
(* later level starts, and nothing is fetched, dispatched or recorded.     *)
CancelStopsWork ==
  [][cancelled \/ (pc = "boundary" /\ cancelCh > 0) =>
       pc' # "batch" /\ UNCHANGED <<run, results>>]_vars

(* Every execution ends, or waits for a signal in the paused state: paging *)
(* is bounded, no coroutine is lost and no level is waited for in vain.    *)
Termination == <>(pc \in Closed) \/ <>[](pc = "paused")

(* A run whose workflow returned has its terminal phase in its row.        *)
ReturnedRunIsRecorded == pc = "returned" /\ Recorded => row = phase

-----------------------------------------------------------------------------
(* What the executor promises, without plan, batches and coroutines.       *)
Contract == INSTANCE RunContract WITH
  settled <- results,
  committed <- (\E n \in NodeID : cursor[n] # 0) \/ dedupeKeys # {},
  reported <- IF row \in Verdicts THEN row ELSE "open"

(* The executor implements the contract of a run.                          *)
ImplementsContract == Contract!Spec
=============================================================================
