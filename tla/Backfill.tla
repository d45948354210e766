------------------------------ MODULE Backfill ------------------------------
(***************************************************************************)
(* A backfill job: the partitions a user asked for, the dispatchers of the *)
(* API processes that claim and fire them (api/backfills.go, the database  *)
(* function claim_next_backfill_partition in db/016_backfills.sql), the    *)
(* start of an execution with its compensation (fireExecution), the end of *)
(* an execution (MarkExecution), and cancel and retry by a user. A process *)
(* may crash between any two steps and is restarted.                       *)
(*                                                                         *)
(* Database statements run at read committed: a statement decides on the   *)
(* snapshot taken when it starts, waits for or skips rows locked by others *)
(* and checks its condition again on the rows that changed meanwhile, but  *)
(* not the subqueries over other rows. The model follows one job: jobs     *)
(* share nothing but the order in which dispatchers serve them.            *)
(***************************************************************************)
EXTENDS Integers, FiniteSets

CONSTANTS
  Dispatchers,     (* API processes that run backfillDispatcher             *)
  PartitionCount,  (* partitions of the job, numbered by their ordinal      *)
  MaxConcurrency,  (* max_concurrency of the job                            *)
  Outcomes,        (* phases a workflow may report                          *)
  MaxExecutions,   (* bound on the workflows started for the job            *)
  MaxAttempts,     (* attempts of the markExecution activity                *)
  MaxCrashes,      (* bound on the crashes of API processes                 *)
  MaxRetries       (* bound on the retries a user asks for                  *)

ASSUME DispatchersFinite == IsFiniteSet(Dispatchers) /\ Dispatchers # {}
ASSUME OutcomesAssumption == Outcomes \subseteq {"completed", "failed", "cancelled"}
ASSUME CountsAssumption ==
  /\ PartitionCount \in Nat \ {0} /\ MaxConcurrency \in Nat \ {0}
  /\ MaxExecutions \in Nat /\ MaxAttempts \in Nat /\ MaxCrashes \in Nat /\ MaxRetries \in Nat

Partitions == 1..PartitionCount
Executions == 1..MaxExecutions

VARIABLES
  job, part,           \* backfill_jobs.status, backfill_partitions.status, where
                       \* overdue is starting since more than five minutes
  step,                \* where each dispatcher is
  stale, candidates,   \* claim statement: rows it resets, rows its snapshot offers
  held, exec,          \* partition and execution a dispatcher is working on
  fired, target,       \* workflows started so far and their partitions
  wf, verdict, tries,  \* state of a workflow, phase it reports, attempts to report
  phase,               \* executions.phase of a workflow's row, none without a row
  crashes, retries,    \* bounded events
  reissued             \* history: partitions that were put back to pending

claims    == <<stale, candidates>>
firing    == <<held, exec>>
workflows == <<target, wf, verdict, tries>>
bounded   == <<crashes, retries>>
vars == <<job, part, step, claims, firing, fired, workflows, phase, bounded, reissued>>

JobStatuses  == {"queued", "running", "completed", "failed", "cancelled"}
Statuses     == {"pending", "starting", "overdue", "running", "completed", "failed", "cancelled"}
Ended        == {"completed", "failed", "cancelled"}
OpenJob      == {"queued", "running"}
Started      == {"starting", "overdue"}
FiringSteps  == {"fire", "insert", "terminate", "fail"}

TypeOK ==
  /\ job \in JobStatuses /\ part \in [Partitions -> Statuses]
  /\ step \in [Dispatchers -> {"idle", "claim"} \cup FiringSteps]
  /\ stale \in [Dispatchers -> SUBSET Partitions]
  /\ candidates \in [Dispatchers -> SUBSET Partitions]
  /\ held \in [Dispatchers -> Partitions \cup {0}]
  /\ exec \in [Dispatchers -> Executions \cup {0}]
  /\ fired \in Executions \cup {0}
  /\ target \in [Executions -> Partitions \cup {0}]
  /\ wf \in [Executions -> {"none", "open", "marked", "closed"}]
  /\ verdict \in [Executions -> Ended \cup {"none"}] /\ tries \in [Executions -> 0..MaxAttempts]
  /\ phase \in [Executions -> Ended \cup {"none", "running"}]
  /\ crashes \in 0..MaxCrashes /\ retries \in 0..MaxRetries
  /\ reissued \in SUBSET Partitions

(* backfillCreate inserts the job and its partitions in one transaction.   *)
Init ==
  /\ job = "queued" /\ part = [p \in Partitions |-> "pending"]
  /\ step = [d \in Dispatchers |-> "idle"]
  /\ stale = [d \in Dispatchers |-> {}] /\ candidates = [d \in Dispatchers |-> {}]
  /\ held = [d \in Dispatchers |-> 0] /\ exec = [d \in Dispatchers |-> 0]
  /\ fired = 0 /\ target = [e \in Executions |-> 0]
  /\ wf = [e \in Executions |-> "none"] /\ verdict = [e \in Executions |-> "none"]
  /\ tries = [e \in Executions |-> 0] /\ phase = [e \in Executions |-> "none"]
  /\ crashes = 0 /\ retries = 0 /\ reissued = {}

-----------------------------------------------------------------------------
(* Claiming a partition.                                                   *)

(* Rows that an unfinished claim has reset stay locked until it commits.   *)
Locked == UNION {stale[d] : d \in Dispatchers}

(* The five minutes of a claim are over.                                   *)
Expire(p) ==
  /\ part[p] = "starting" /\ p \notin Locked
  /\ part' = [part EXCEPT ![p] = "overdue"]
  /\ UNCHANGED <<job, step, claims, firing, fired, workflows, phase, bounded, reissued>>

ExpiredClaimsNever == {}
ExpiredClaims == {p \in Partitions : part[p] = "overdue"}
ActiveRunningOnly == {p \in Partitions : part[p] = "running"}
Active == {p \in Partitions : part[p] \in Started \cup {"running"}}

(* The first statement resets expired claims and waits for rows another    *)
(* claim has locked. The second one takes its snapshot: it offers pending  *)
(* partitions of an open job with fewer active ones than its limit.        *)
ClaimBegin(d) ==
  /\ step[d] = "idle" /\ ExpiredClaims \cap Locked = {}
  /\ step' = [step EXCEPT ![d] = "claim"]
  /\ stale' = [stale EXCEPT ![d] = ExpiredClaims]
  /\ candidates' = [candidates EXCEPT ![d] =
       IF job \in OpenJob /\ Cardinality(Active \ ExpiredClaims) < MaxConcurrency
       THEN {p \in Partitions : part[p] = "pending"} \cup ExpiredClaims
       ELSE {}]
  /\ UNCHANGED <<job, part, firing, fired, workflows, phase, bounded, reissued>>

(* What is left of the snapshot's rows when they are locked: rows and jobs *)
(* changed since then are checked again, the number of active rows is not. *)
ClaimableUncheckedRow(d) == IF job \in OpenJob THEN candidates[d] ELSE {}
ClaimableUncheckedJob(d) == {p \in candidates[d] : part[p] \in {"pending", "cancelled"} \/ p \in stale[d]}
Claimable(d) ==
  IF job \in OpenJob THEN {p \in candidates[d] : part[p] = "pending" \/ p \in stale[d]} ELSE {}

Reset(d) == [p \in Partitions |-> IF p \in stale[d] THEN "pending" ELSE part[p]]

(* The claim locks the first claimable row and commits.                    *)
ClaimPartition(d) ==
  /\ step[d] = "claim"
  /\ \E p \in Claimable(d) :
       /\ \A q \in Claimable(d) : p <= q
       /\ part' = [Reset(d) EXCEPT ![p] = "starting"]
       /\ held' = [held EXCEPT ![d] = p]
  /\ job' = "running"
  /\ reissued' = reissued \cup stale[d]
  /\ step' = [step EXCEPT ![d] = "fire"]
  /\ stale' = [stale EXCEPT ![d] = {}] /\ candidates' = [candidates EXCEPT ![d] = {}]
  /\ UNCHANGED <<exec, fired, workflows, phase, bounded>>

(* Nothing to claim, or the job row is locked by another claim and skipped.*)
ClaimNothing(d) ==
  /\ step[d] = "claim"
  /\ Claimable(d) = {} \/ \E other \in Dispatchers \ {d} : step[other] = "claim"
  /\ part' = Reset(d)
  /\ reissued' = reissued \cup stale[d]
  /\ step' = [step EXCEPT ![d] = "idle"]
  /\ stale' = [stale EXCEPT ![d] = {}] /\ candidates' = [candidates EXCEPT ![d] = {}]
  /\ UNCHANGED <<job, firing, fired, workflows, phase, bounded>>

-----------------------------------------------------------------------------
(* Firing the claimed partition.                                           *)

(* The dispatcher is done with its partition.                              *)
Forget(d) == held' = [held EXCEPT ![d] = 0] /\ exec' = [exec EXCEPT ![d] = 0]

HasRow(p) == \E e \in Executions : target[e] = p /\ phase[e] # "none"

(* consumeQuota and ExecuteWorkflow: refused, or started, and a start may  *)
(* still be answered with an error.                                        *)
StartWorkflow(d) ==
  /\ step[d] = "fire"
  /\ \/ step' = [step EXCEPT ![d] = "fail"] /\ UNCHANGED <<fired, exec, target, wf>>
     \/ /\ fired < MaxExecutions
        /\ fired' = fired + 1
        /\ exec' = [exec EXCEPT ![d] = fired + 1]
        /\ target' = [target EXCEPT ![fired + 1] = held[d]]
        /\ wf' = [wf EXCEPT ![fired + 1] = "open"]
        /\ \E answer \in {"insert", "fail"} : step' = [step EXCEPT ![d] = answer]
  /\ UNCHANGED <<job, part, claims, held, verdict, tries, phase, bounded, reissued>>

(* One transaction inserts the executions row and sets the partition to    *)
(* running, whatever its status is by now. The unique index refuses a      *)
(* second row for a partition; the commit may be answered with an error.   *)
InsertExecutionRow(d) ==
  /\ step[d] = "insert" /\ held[d] \notin Locked
  /\ \/ step' = [step EXCEPT ![d] = "terminate"] /\ UNCHANGED <<part, phase, firing>>
     \/ /\ ~HasRow(held[d])
        /\ phase' = [phase EXCEPT ![exec[d]] = "running"]
        /\ part' = [part EXCEPT ![held[d]] = "running"]
        /\ \/ step' = [step EXCEPT ![d] = "idle"] /\ Forget(d)
           \/ step' = [step EXCEPT ![d] = "terminate"] /\ UNCHANGED firing
  /\ UNCHANGED <<job, claims, fired, workflows, bounded, reissued>>

(* The compensation of fireExecution; its failure is ignored.              *)
TerminateWorkflow(d) ==
  /\ step[d] = "terminate" /\ step' = [step EXCEPT ![d] = "fail"]
  /\ wf' \in {wf, [wf EXCEPT ![exec[d]] = "closed"]}
  /\ UNCHANGED <<job, part, claims, firing, fired, target, verdict, tries, phase, bounded,
                 reissued>>

(* dispatchBackfills records the error; a failure to do so is ignored.     *)
FailPartition(d) ==
  /\ step[d] = "fail" /\ held[d] \notin Locked
  /\ step' = [step EXCEPT ![d] = "idle"]
  /\ part' \in {part, [part EXCEPT ![held[d]] = "failed"]}
  /\ Forget(d)
  /\ UNCHANGED <<job, claims, fired, workflows, phase, bounded, reissued>>

(* The process dies: an open transaction is rolled back, a started         *)
(* workflow goes on. A new process takes its place.                        *)
Crash(d) ==
  /\ step[d] # "idle" /\ crashes < MaxCrashes
  /\ crashes' = crashes + 1
  /\ step' = [step EXCEPT ![d] = "idle"]
  /\ stale' = [stale EXCEPT ![d] = {}] /\ candidates' = [candidates EXCEPT ![d] = {}]
  /\ Forget(d)
  /\ UNCHANGED <<job, part, fired, workflows, phase, retries, reissued>>

-----------------------------------------------------------------------------
(* The end of an execution.                                                *)

(* MarkExecution, first statement: the row if it is there by now.          *)
MarkRow(e) ==
  /\ wf[e] = "open" /\ tries[e] < MaxAttempts
  /\ \E v \in Outcomes :
       /\ verdict[e] \in {"none", v}
       /\ verdict' = [verdict EXCEPT ![e] = v]
       /\ phase' = [phase EXCEPT ![e] = IF @ = "none" THEN @ ELSE v]
  /\ wf' = [wf EXCEPT ![e] = "marked"]
  /\ tries' = [tries EXCEPT ![e] = @ + 1]
  /\ UNCHANGED <<job, part, step, claims, firing, fired, target, bounded, reissued>>

(* What the second statement makes of the job. Its subqueries see the      *)
(* partitions as they were before the statement.                           *)
JobVerdictPartial == IF \E p \in Partitions : part[p] = "failed" THEN "partial" ELSE "completed"
JobVerdictIgnoringFailed == IF \E p \in Partitions : part[p] = "cancelled" THEN "cancelled" ELSE "completed"
JobVerdict ==
  CASE \E p \in Partitions : part[p] = "failed" -> "failed"
    [] (\A p \in Partitions : part[p] # "failed") /\ (\E p \in Partitions : part[p] = "cancelled") -> "cancelled"
    [] OTHER -> "completed"

(* MarkExecution, second statement: the partition of the row and, when no  *)
(* partition is left, the job. An error is ignored. The activity may run   *)
(* again although it succeeded.                                            *)
MarkPartition(e) ==
  /\ wf[e] = "marked" /\ target[e] \notin Locked
  /\ \/ UNCHANGED <<job, part>>
     \/ /\ phase[e] # "none"
        /\ part' = [part EXCEPT ![target[e]] = verdict[e]]
        /\ job' = (IF \A p \in Partitions : part[p] \in Ended THEN JobVerdict ELSE job)
  /\ \E next \in {"closed", "open"} : wf' = [wf EXCEPT ![e] = next]
  /\ UNCHANGED <<step, claims, firing, fired, target, verdict, tries, phase, bounded, reissued>>

(* A workflow that ends without a mark: its commits failed, its attempts   *)
(* are used up, or it was terminated.                                      *)
AbandonWorkflow(e) ==
  /\ wf[e] = "open" /\ wf' = [wf EXCEPT ![e] = "closed"]
  /\ UNCHANGED <<job, part, step, claims, firing, fired, target, verdict, tries, phase,
                 bounded, reissued>>

-----------------------------------------------------------------------------
(* Users.                                                                  *)

BackfillCancel ==
  /\ job \in OpenJob /\ Locked = {}
  /\ job' = "cancelled"
  /\ part' = [p \in Partitions |-> IF part[p] \in Started \cup {"pending"} THEN "cancelled" ELSE part[p]]
  /\ UNCHANGED <<step, claims, firing, fired, workflows, phase, bounded, reissued>>

BackfillRetry ==
  /\ retries < MaxRetries /\ \E p \in Partitions : part[p] = "failed"
  /\ retries' = retries + 1
  /\ job' = "running"
  /\ part' = [p \in Partitions |-> IF part[p] = "failed" THEN "pending" ELSE part[p]]
  /\ reissued' = reissued \cup {p \in Partitions : part[p] = "failed"}
  /\ UNCHANGED <<step, claims, firing, fired, workflows, phase, crashes>>

Dispatch(d) ==
  \/ ClaimBegin(d) \/ ClaimPartition(d) \/ ClaimNothing(d)
  \/ StartWorkflow(d) \/ InsertExecutionRow(d) \/ TerminateWorkflow(d) \/ FailPartition(d)

WorkflowEnds(e) == MarkRow(e) \/ MarkPartition(e) \/ AbandonWorkflow(e)

Next ==
  \/ \E d \in Dispatchers : Dispatch(d) \/ Crash(d)
  \/ \E p \in Partitions : Expire(p)
  \/ \E e \in Executions : WorkflowEnds(e)
  \/ BackfillCancel
  \/ BackfillRetry

(* A dispatcher ticks as long as its process lives, time passes, and every *)
(* workflow ends. Users owe nothing, and nothing owes a crash.             *)
Fairness ==
  /\ \A d \in Dispatchers : WF_vars(Dispatch(d))
  /\ \A p \in Partitions : WF_vars(Expire(p))
  /\ \A e \in Executions : WF_vars(WorkflowEnds(e))

Safety == Init /\ [][Next]_vars
Spec == Safety /\ Fairness
-----------------------------------------------------------------------------
(* Properties.                                                             *)

(* Partitions that count against the limit of the job.                     *)
Occupied == {p \in Partitions : part[p] \in Started \cup {"running"}}

(* The job never has more active partitions than its limit and one for     *)
(* every further dispatcher: a claim may decide on an outdated count, and  *)
(* a late start revives a cancelled partition, but each dispatcher does so *)
(* for one partition at a time. One dispatcher alone keeps to the limit.   *)
SlotOverrunBounded ==
  Cardinality(Occupied) <= MaxConcurrency + Cardinality(Dispatchers) - 1

(* Two dispatchers never work on the same partition unless its claim       *)
(* expired or a user asked for a retry: SKIP LOCKED and the second check   *)
(* of the row make the claim exclusive.                                    *)
ClaimExclusive ==
  \A d1, d2 \in Dispatchers :
    d1 # d2 /\ step[d1] \in FiringSteps /\ step[d2] \in FiringSteps /\ held[d1] = held[d2] =>
      held[d1] \in reissued

(* A partition shown as completed, and every partition of a job shown as   *)
(* completed, was loaded by a recorded execution that reported completed.  *)
CompletedMeansLoaded ==
  LET Loaded(p) == \E e \in Executions :
        target[e] = p /\ verdict[e] = "completed" /\ phase[e] # "none"
  IN /\ \A p \in Partitions : part[p] = "completed" => Loaded(p)
     /\ job = "completed" => \A p \in Partitions : Loaded(p)

(* No partition is claimed for a job that has been cancelled, also by a    *)
(* claim that took its snapshot before the cancel.                         *)
NoClaimAfterCancel ==
  [][job = "cancelled" => \A p \in Partitions : part'[p] \in Started => part[p] \in Started]_vars

(* A claim that a crash or an ignored error left behind is recovered: the  *)
(* partition is claimed again, goes back to pending or is cancelled.       *)
Abandoned(p) ==
  part[p] \in Started /\ ~\E d \in Dispatchers : step[d] \in FiringSteps /\ held[d] = p
AbandonedClaimRecovered == \A p \in Partitions : Abandoned(p) ~> ~Abandoned(p)

(* A background dispatcher starts partitions subject to the configured     *)
(* concurrency: the limit of the job holds at all times.                   *)
ConcurrencyLimit == Cardinality(Occupied) <= MaxConcurrency

(* MarkExecution ends the job with its last partition: a job whose         *)
(* partitions are all completed does not stay queued or running.           *)
JobCompletes ==
  (\A p \in Partitions : part[p] = "completed") ~>
    (job \in Ended \/ \E p \in Partitions : part[p] # "completed")
=============================================================================
