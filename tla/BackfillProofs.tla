--------------------------- MODULE BackfillProofs ---------------------------
(***************************************************************************)
(* Proofs about Backfill for every number of dispatchers, partitions,      *)
(* executions, crashes and retries, and every limit of a job.              *)
(***************************************************************************)
EXTENDS Backfill, FiniteSetTheorems, TLAPS

(* What a dispatcher knows where it is, what a workflow is that has not    *)
(* been started, and that a reported verdict is one.                       *)
StepInv ==
  /\ \A d \in Dispatchers :
       /\ step[d] \in FiringSteps => held[d] \in Partitions
       /\ step[d] # "claim" => stale[d] = {} /\ candidates[d] = {}
  /\ \A e \in Executions :
       /\ e > fired => wf[e] = "none" /\ phase[e] = "none" /\ target[e] = 0
       /\ wf[e] = "marked" => verdict[e] # "none"
  /\ \A d \in Dispatchers : step[d] \in {"insert", "terminate"} => exec[d] \in 1..fired

(* A row that a claim has reset stays expired until the claim commits, and *)
(* one claim at a time has reset rows.                                     *)
LockInv ==
  /\ \A d \in Dispatchers : \A p \in stale[d] : part[p] = "overdue"
  /\ \A d1, d2 \in Dispatchers : stale[d1] # {} /\ stale[d2] # {} => d1 = d2

(* The partitions dispatchers are firing, and the claims that may still    *)
(* take one.                                                               *)
Firing == {d \in Dispatchers : step[d] \in FiringSteps}
Claiming == {d \in Dispatchers : step[d] = "claim"}
HeldParts == {held[d] : d \in Firing}
Chances == {d \in Dispatchers : candidates[d] # {}}
Bound == MaxConcurrency + Cardinality(Dispatchers) - 1

(* Every partition that is active or may yet become active counts, and     *)
(* every claim that may add one; the first part is what holds if a claim   *)
(* with reset rows commits, the second what holds if it is rolled back.    *)
Sure == (Occupied \ Locked) \cup HeldParts
Counted == Occupied \cup HeldParts
LimitInv ==
  /\ Cardinality(Sure) + Cardinality(Chances) <= Bound
  /\ \A d \in Dispatchers : stale[d] # {} =>
       Cardinality(Counted) + Cardinality(Chances \ {d}) <= Bound

(* A partition in the hands of a dispatcher is pending again only because  *)
(* it was put back.                                                        *)
ExclusiveInv ==
  /\ ClaimExclusive
  /\ \A d \in Dispatchers : step[d] \in FiringSteps /\ part[held[d]] = "pending" => held[d] \in reissued

-----------------------------------------------------------------------------
(* Types                                                                   *)

LEMMA TypeInit == Init => TypeOK /\ StepInv
  BY CountsAssumption DEF Init, TypeOK, StepInv, Partitions, Executions, JobStatuses, Statuses,
     FiringSteps, Ended

LEMMA TypeStep == TypeOK /\ StepInv /\ [Next]_vars => TypeOK'
  <1> SUFFICES ASSUME TypeOK, StepInv, [Next]_vars PROVE TypeOK'
    OBVIOUS
  <1> USE CountsAssumption, OutcomesAssumption
      DEF TypeOK, Executions, JobStatuses, Statuses, FiringSteps, Ended, claims, firing,
          workflows, bounded
  <1>1. ASSUME NEW d \in Dispatchers, ClaimBegin(d) PROVE TypeOK'
    BY <1>1 DEF ClaimBegin, ExpiredClaims
  <1>2. ASSUME NEW d \in Dispatchers, ClaimPartition(d) PROVE TypeOK'
    BY <1>2 DEF ClaimPartition, Claimable, Reset
  <1>3. ASSUME NEW d \in Dispatchers, ClaimNothing(d) PROVE TypeOK'
    BY <1>3 DEF ClaimNothing, Reset
  <1>4. ASSUME NEW d \in Dispatchers, StartWorkflow(d) PROVE TypeOK'
    <2>1. CASE fired' = fired
      BY <1>4, <2>1 DEF StartWorkflow
    <2>2. CASE fired' # fired
      <3>1. fired + 1 \in Executions /\ fired' = fired + 1
        BY <1>4, <2>2 DEF StartWorkflow
      <3>2. PICK answer \in {"insert", "fail"} : step' = [step EXCEPT ![d] = answer]
        BY <1>4, <2>2 DEF StartWorkflow
      <3>3. /\ exec' = [exec EXCEPT ![d] = fired + 1]
            /\ target' = [target EXCEPT ![fired + 1] = held[d]]
            /\ wf' = [wf EXCEPT ![fired + 1] = "open"]
            /\ UNCHANGED <<job, part, claims, held, verdict, tries, phase, bounded, reissued>>
        BY <1>4, <2>2 DEF StartWorkflow
      <3>4. /\ exec' \in [Dispatchers -> Executions \cup {0}]
            /\ target' \in [Executions -> Partitions \cup {0}]
            /\ wf' \in [Executions -> {"none", "open", "marked", "closed"}]
        BY <3>1, <3>3
      <3> QED
        BY <3>1, <3>2, <3>3, <3>4
    <2> QED
      BY <2>1, <2>2
  <1>5. ASSUME NEW d \in Dispatchers, InsertExecutionRow(d) PROVE TypeOK'
    <2>0. /\ part' = part \/ part' = [part EXCEPT ![held[d]] = "running"]
          /\ phase' = phase \/ phase' = [phase EXCEPT ![exec[d]] = "running"]
      BY <1>5 DEF InsertExecutionRow
    <2>1. /\ part' \in [Partitions -> Statuses]
          /\ phase' \in [Executions -> Ended \cup {"none", "running"}]
      <3>1. part \in [Partitions -> Statuses] /\ "running" \in Statuses
        OBVIOUS
      <3>2. [part EXCEPT ![held[d]] = "running"] \in [Partitions -> Statuses]
        BY <3>1
      <3>3. [phase EXCEPT ![exec[d]] = "running"] \in [Executions -> Ended \cup {"none", "running"}]
        OBVIOUS
      <3> QED
        BY <2>0, <3>1, <3>2, <3>3
    <2>2. PICK next \in {"idle", "terminate"} : step' = [step EXCEPT ![d] = next]
      BY <1>5 DEF InsertExecutionRow
    <2>3. /\ held' \in [Dispatchers -> Partitions \cup {0}]
          /\ exec' \in [Dispatchers -> Executions \cup {0}]
      BY <1>5 DEF InsertExecutionRow, Forget
    <2> QED
      BY <1>5, <2>1, <2>2, <2>3 DEF InsertExecutionRow
  <1>6. ASSUME NEW d \in Dispatchers, TerminateWorkflow(d) PROVE TypeOK'
    BY <1>6 DEF TerminateWorkflow
  <1>7. ASSUME NEW d \in Dispatchers, FailPartition(d) PROVE TypeOK'
    BY <1>7 DEF FailPartition, Forget
  <1>8. ASSUME NEW d \in Dispatchers, Crash(d) PROVE TypeOK'
    BY <1>8 DEF Crash, Forget
  <1>9. ASSUME NEW p \in Partitions, Expire(p) PROVE TypeOK'
    BY <1>9 DEF Expire
  <1>10. ASSUME NEW e \in Executions, MarkRow(e) PROVE TypeOK'
    BY <1>10 DEF MarkRow
  <1>11. ASSUME NEW e \in Executions, MarkPartition(e) PROVE TypeOK'
    <2>1. JobVerdict \in Ended
      BY DEF JobVerdict
    <2>2. verdict[e] \in Ended
      BY <1>11 DEF MarkPartition, StepInv
    <2>3a. /\ part' = part \/ part' = [part EXCEPT ![target[e]] = verdict[e]]
           /\ job' = job \/ job' = JobVerdict
      BY <1>11 DEF MarkPartition
    <2>3. job' \in JobStatuses /\ part' \in [Partitions -> Statuses]
      <3>1. part \in [Partitions -> Statuses] /\ verdict[e] \in Statuses /\ job \in JobStatuses
        BY <2>2
      <3>2. [part EXCEPT ![target[e]] = verdict[e]] \in [Partitions -> Statuses]
        BY <3>1
      <3> QED
        BY <2>1, <2>3a, <3>1, <3>2
    <2>4. PICK next \in {"closed", "open"} : wf' = [wf EXCEPT ![e] = next]
      BY <1>11 DEF MarkPartition
    <2> QED
      BY <1>11, <2>3, <2>4 DEF MarkPartition
  <1>12. ASSUME NEW e \in Executions, AbandonWorkflow(e) PROVE TypeOK'
    BY <1>12 DEF AbandonWorkflow
  <1>13. CASE BackfillCancel
    BY <1>13 DEF BackfillCancel
  <1>14. CASE BackfillRetry
    BY <1>14 DEF BackfillRetry
  <1>15. CASE UNCHANGED vars
    BY <1>15 DEF vars
  <1> QED
    BY <1>1, <1>2, <1>3, <1>4, <1>5, <1>6, <1>7, <1>8, <1>9, <1>10, <1>11, <1>12, <1>13, <1>14, <1>15 DEF Next, Dispatch, WorkflowEnds

LEMMA StepStep == TypeOK /\ StepInv /\ [Next]_vars => StepInv'
  <1> SUFFICES ASSUME TypeOK, StepInv, [Next]_vars PROVE StepInv'
    OBVIOUS
  <1> USE CountsAssumption, OutcomesAssumption
      DEF TypeOK, StepInv, Executions, FiringSteps, Ended, claims, firing, workflows, bounded
  <1>1. ASSUME NEW d \in Dispatchers, ClaimBegin(d) PROVE StepInv'
    BY <1>1 DEF ClaimBegin, ExpiredClaims
  <1>2. ASSUME NEW d \in Dispatchers, ClaimPartition(d) PROVE StepInv'
    BY <1>2 DEF ClaimPartition, Claimable, Reset
  <1>3. ASSUME NEW d \in Dispatchers, ClaimNothing(d) PROVE StepInv'
    BY <1>3 DEF ClaimNothing, Reset
  <1>4. ASSUME NEW d \in Dispatchers, StartWorkflow(d) PROVE StepInv'
    BY <1>4 DEF StartWorkflow
  <1>5. ASSUME NEW d \in Dispatchers, InsertExecutionRow(d) PROVE StepInv'
    <2>1. exec[d] \in 1..fired
      BY <1>5 DEF InsertExecutionRow
    <2>2. UNCHANGED <<stale, candidates, fired, target, wf, verdict>>
      BY <1>5 DEF InsertExecutionRow
    <2>3. \A e \in Executions : e > fired => phase'[e] = phase[e]
      BY <1>5, <2>1 DEF InsertExecutionRow
    <2>4. \/ step' = [step EXCEPT ![d] = "idle"] /\ Forget(d)
          \/ step' = [step EXCEPT ![d] = "terminate"] /\ UNCHANGED firing
      BY <1>5 DEF InsertExecutionRow
    <2>5. \A o \in Dispatchers : o # d =>
            step'[o] = step[o] /\ held'[o] = held[o] /\ exec'[o] = exec[o]
      BY <2>4 DEF Forget
    <2>6. \/ step'[d] = "idle"
          \/ step'[d] = "terminate" /\ held'[d] = held[d] /\ exec'[d] = exec[d]
      BY <2>4
    <2>7. step[d] = "insert" /\ held[d] \in Partitions
      BY <1>5 DEF InsertExecutionRow
    <2>8. \A o \in Dispatchers :
            /\ step'[o] \in FiringSteps => held'[o] \in Partitions
            /\ step'[o] # "claim" => stale'[o] = {} /\ candidates'[o] = {}
            /\ step'[o] \in {"insert", "terminate"} => exec'[o] \in 1..fired'
      BY <2>1, <2>2, <2>5, <2>6, <2>7
    <2> QED
      BY <2>2, <2>3, <2>8
  <1>6. ASSUME NEW d \in Dispatchers, TerminateWorkflow(d) PROVE StepInv'
    BY <1>6 DEF TerminateWorkflow
  <1>7. ASSUME NEW d \in Dispatchers, FailPartition(d) PROVE StepInv'
    BY <1>7 DEF FailPartition, Forget
  <1>8. ASSUME NEW d \in Dispatchers, Crash(d) PROVE StepInv'
    BY <1>8 DEF Crash, Forget
  <1>9. ASSUME NEW p \in Partitions, Expire(p) PROVE StepInv'
    BY <1>9 DEF Expire
  <1>10. ASSUME NEW e \in Executions, MarkRow(e) PROVE StepInv'
    BY <1>10 DEF MarkRow
  <1>11. ASSUME NEW e \in Executions, MarkPartition(e) PROVE StepInv'
    BY <1>11 DEF MarkPartition, JobVerdict
  <1>12. ASSUME NEW e \in Executions, AbandonWorkflow(e) PROVE StepInv'
    BY <1>12 DEF AbandonWorkflow
  <1>13. CASE BackfillCancel
    BY <1>13 DEF BackfillCancel
  <1>14. CASE BackfillRetry
    BY <1>14 DEF BackfillRetry
  <1>15. CASE UNCHANGED vars
    BY <1>15 DEF vars
  <1> QED
    BY <1>1, <1>2, <1>3, <1>4, <1>5, <1>6, <1>7, <1>8, <1>9, <1>10, <1>11, <1>12, <1>13, <1>14, <1>15 DEF Next, Dispatch, WorkflowEnds

(* The tables, dispatchers and workflows keep their shape.                 *)
THEOREM BackfillTypeCorrect == Safety => []TypeOK
  BY TypeInit, TypeStep, StepStep, PTL DEF Safety

-----------------------------------------------------------------------------
(* Completed partitions                                                    *)

Loaded(p) == \E e \in Executions :
  target[e] = p /\ verdict[e] = "completed" /\ phase[e] # "none"

(* A record of a loaded partition is never taken back: the execution of a  *)
(* row keeps its partition and its verdict, and the row stays.             *)
LEMMA RecordKept ==
    ASSUME TypeOK, StepInv, [Next]_vars, NEW e \in Executions,
           verdict[e] = "completed", phase[e] # "none"
    PROVE  target'[e] = target[e] /\ verdict'[e] = "completed" /\ phase'[e] # "none"
  <1> DEFINE Goal == target'[e] = target[e] /\ verdict'[e] = "completed" /\ phase'[e] # "none"
  <1> USE DEF workflows, claims, firing, bounded
  <1>1. ASSUME NEW d \in Dispatchers, StartWorkflow(d) PROVE Goal
    <2>1. e # fired + 1
      BY CountsAssumption DEF TypeOK, StepInv, Executions
    <2> QED
      BY <1>1, <2>1 DEF StartWorkflow, TypeOK
  <1>2. ASSUME NEW d \in Dispatchers, InsertExecutionRow(d) PROVE Goal
    <2>1. phase' = phase \/ phase' = [phase EXCEPT ![exec[d]] = "running"]
      BY <1>2 DEF InsertExecutionRow
    <2> QED
      BY <1>2, <2>1 DEF InsertExecutionRow, TypeOK
  <1>3. ASSUME NEW f \in Executions, MarkRow(f) PROVE Goal
    <2>1. PICK v \in Outcomes :
            /\ verdict[f] \in {"none", v} /\ verdict' = [verdict EXCEPT ![f] = v]
            /\ phase' = [phase EXCEPT ![f] = IF phase[f] = "none" THEN phase[f] ELSE v]
      BY <1>3 DEF MarkRow
    <2>2. v # "none"
      BY OutcomesAssumption
    <2> QED
      BY <1>3, <2>1, <2>2 DEF MarkRow, TypeOK
  <1>4. ASSUME NEW d \in Dispatchers,
               \/ ClaimBegin(d) \/ ClaimPartition(d) \/ ClaimNothing(d)
               \/ TerminateWorkflow(d) \/ FailPartition(d) \/ Crash(d)
        PROVE  Goal
    BY <1>4 DEF ClaimBegin, ClaimPartition, ClaimNothing, TerminateWorkflow, FailPartition, Crash
  <1>5. ASSUME NEW f \in Executions, MarkPartition(f) \/ AbandonWorkflow(f) PROVE Goal
    BY <1>5 DEF MarkPartition, AbandonWorkflow
  <1>6. ASSUME NEW p \in Partitions, Expire(p) PROVE Goal
    BY <1>6 DEF Expire
  <1>7. CASE BackfillCancel \/ BackfillRetry \/ UNCHANGED vars
    BY <1>7 DEF BackfillCancel, BackfillRetry, vars
  <1> QED
    BY <1>1, <1>2, <1>3, <1>4, <1>5, <1>6, <1>7 DEF Next, Dispatch, WorkflowEnds

LEMMA LoadedKept ==
    ASSUME TypeOK, StepInv, [Next]_vars, NEW p \in Partitions, Loaded(p)
    PROVE  Loaded(p)'
  <1>1. PICK e \in Executions : target[e] = p /\ verdict[e] = "completed" /\ phase[e] # "none"
    BY DEF Loaded
  <1>2. target'[e] = p /\ verdict'[e] = "completed" /\ phase'[e] # "none"
    BY <1>1, RecordKept
  <1> QED
    BY <1>2 DEF Loaded

(* Only the second statement of MarkExecution completes a partition, and   *)
(* only when no partition was left does it complete the job.               *)
LEMMA NewlyCompleted ==
    ASSUME TypeOK, StepInv, [Next]_vars
    PROVE  /\ \A p \in Partitions : part'[p] = "completed" => part[p] = "completed" \/ Loaded(p)
           /\ job' = "completed" =>
                job = "completed" \/ \A p \in Partitions : part[p] = "completed"
  <1> DEFINE Goal ==
        /\ \A p \in Partitions : part'[p] = "completed" => part[p] = "completed" \/ Loaded(p)
        /\ job' = "completed" =>
             job = "completed" \/ \A p \in Partitions : part[p] = "completed"
  <1> USE DEF workflows, claims, firing, bounded
  <1>1. ASSUME NEW d \in Dispatchers, ClaimPartition(d) \/ ClaimNothing(d) PROVE Goal
    <2>1. \A q \in Partitions : part'[q] \in {"starting", "pending", part[q]}
      <3>1. CASE part' = Reset(d)
        BY <3>1 DEF Reset
      <3>2. CASE \E p \in Claimable(d) : part' = [Reset(d) EXCEPT ![p] = "starting"]
        BY <3>2 DEF Reset
      <3> QED
        BY <1>1, <3>1, <3>2 DEF ClaimPartition, ClaimNothing
    <2>2. job' \in {job, "running"}
      BY <1>1 DEF ClaimPartition, ClaimNothing
    <2> QED
      BY <2>1, <2>2
  <1>2. ASSUME NEW d \in Dispatchers, InsertExecutionRow(d) \/ FailPartition(d) PROVE Goal
    <2>1. part' = part \/ \E s \in {"running", "failed"} : part' = [part EXCEPT ![held[d]] = s]
      BY <1>2 DEF InsertExecutionRow, FailPartition
    <2> QED
      BY <1>2, <2>1 DEF InsertExecutionRow, FailPartition, TypeOK
  <1>3. ASSUME NEW e \in Executions, MarkPartition(e) PROVE Goal
    <2>1. CASE UNCHANGED <<job, part>>
      BY <2>1
    <2>2. CASE /\ phase[e] # "none" /\ part' = [part EXCEPT ![target[e]] = verdict[e]]
               /\ job' = (IF \A p \in Partitions : part[p] \in Ended THEN JobVerdict ELSE job)
      <3>1. ASSUME NEW p \in Partitions, part'[p] = "completed"
            PROVE  part[p] = "completed" \/ Loaded(p)
        BY <2>2, <3>1 DEF TypeOK, Loaded
      <3>2. ASSUME job' = "completed", job # "completed"
            PROVE  \A p \in Partitions : part[p] = "completed"
        BY <2>2, <3>2 DEF JobVerdict, Ended
      <3> QED
        BY <3>1, <3>2
    <2> QED
      BY <1>3, <2>1, <2>2 DEF MarkPartition
  <1>4. ASSUME NEW p \in Partitions, Expire(p) PROVE Goal
    BY <1>4 DEF Expire, TypeOK
  <1>5. CASE BackfillCancel \/ BackfillRetry \/ UNCHANGED vars
    BY <1>5 DEF BackfillCancel, BackfillRetry, vars
  <1>6. ASSUME NEW d \in Dispatchers,
               ClaimBegin(d) \/ StartWorkflow(d) \/ TerminateWorkflow(d) \/ Crash(d)
        PROVE  Goal
    BY <1>6 DEF ClaimBegin, StartWorkflow, TerminateWorkflow, Crash
  <1>7. ASSUME NEW e \in Executions, MarkRow(e) \/ AbandonWorkflow(e) PROVE Goal
    BY <1>7 DEF MarkRow, AbandonWorkflow
  <1> QED
    BY <1>1, <1>2, <1>3, <1>4, <1>5, <1>6, <1>7 DEF Next, Dispatch, WorkflowEnds

(* What is shown as completed was loaded: no crash, retry, expired claim   *)
(* or repeated report completes a partition or a job without a recorded    *)
(* execution that reported completed, and no record of one is lost.        *)
THEOREM CompletedIsLoaded == Safety => []CompletedMeansLoaded
  <1> DEFINE Shown == /\ \A p \in Partitions : part[p] = "completed" => Loaded(p)
                      /\ job = "completed" => \A p \in Partitions : Loaded(p)
  <1>1. Init => Shown
    BY DEF Init
  <1>2. TypeOK /\ StepInv /\ Shown /\ [Next]_vars => Shown'
    <2> SUFFICES ASSUME TypeOK, StepInv, Shown, [Next]_vars PROVE Shown'
      OBVIOUS
    <2>1. ASSUME NEW p \in Partitions, part'[p] = "completed" PROVE Loaded(p)'
      BY <2>1, NewlyCompleted, LoadedKept
    <2>2. ASSUME NEW p \in Partitions, job' = "completed" PROVE Loaded(p)'
      BY <2>2, NewlyCompleted, LoadedKept
    <2> QED
      BY <2>1, <2>2
  <1>3. Shown => CompletedMeansLoaded
    BY DEF CompletedMeansLoaded, Loaded
  <1> HIDE DEF Shown
  <1> QED
    BY TypeInit, TypeStep, StepStep, <1>1, <1>2, <1>3, PTL DEF Safety

-----------------------------------------------------------------------------
(* Claims                                                                  *)

(* No step of a cancelled job claims a partition.                          *)
THEOREM CancelStopsClaims == Safety => NoClaimAfterCancel
  <1> DEFINE A == job = "cancelled" =>
                    \A p \in Partitions : part'[p] \in Started => part[p] \in Started
  <1>1. TypeOK /\ StepInv /\ [Next]_vars => [A]_vars
    <2> SUFFICES ASSUME TypeOK, StepInv, Next, job = "cancelled", NEW p \in Partitions,
                        part'[p] \in Started
                 PROVE  part[p] \in Started
      OBVIOUS
    <2> USE DEF workflows, claims, firing, bounded
    <2>1. ASSUME NEW d \in Dispatchers, ClaimPartition(d) PROVE FALSE
      BY <2>1 DEF ClaimPartition, Claimable, OpenJob
    <2>2. ASSUME NEW d \in Dispatchers, ClaimNothing(d) PROVE part[p] \in Started
      BY <2>2 DEF ClaimNothing, Reset, Started
    <2>3. ASSUME NEW d \in Dispatchers, InsertExecutionRow(d) \/ FailPartition(d)
          PROVE  part[p] \in Started
      <3>1. part' = part \/ \E s \in {"running", "failed"} : part' = [part EXCEPT ![held[d]] = s]
        BY <2>3 DEF InsertExecutionRow, FailPartition
      <3> QED
        BY <3>1 DEF TypeOK, Started
    <2>4. ASSUME NEW e \in Executions, MarkPartition(e) PROVE part[p] \in Started
      <3>1. part' = part \/ part' = [part EXCEPT ![target[e]] = verdict[e]]
        BY <2>4 DEF MarkPartition
      <3>2. verdict[e] \notin Started
        BY DEF TypeOK, Started, Ended
      <3> QED
        BY <3>1, <3>2 DEF TypeOK
    <2>5. ASSUME NEW q \in Partitions, Expire(q) PROVE part[p] \in Started
      BY <2>5 DEF Expire, TypeOK, Started
    <2>6. CASE BackfillCancel \/ BackfillRetry
      BY <2>6 DEF BackfillCancel, BackfillRetry, Started
    <2>7. ASSUME NEW d \in Dispatchers,
                 ClaimBegin(d) \/ StartWorkflow(d) \/ TerminateWorkflow(d) \/ Crash(d)
          PROVE  part[p] \in Started
      BY <2>7 DEF ClaimBegin, StartWorkflow, TerminateWorkflow, Crash
    <2>8. ASSUME NEW e \in Executions, MarkRow(e) \/ AbandonWorkflow(e) PROVE part[p] \in Started
      BY <2>8 DEF MarkRow, AbandonWorkflow
    <2> QED
      BY <2>1, <2>2, <2>3, <2>4, <2>5, <2>6, <2>7, <2>8 DEF Next, Dispatch, WorkflowEnds
  <1> QED
    BY TypeInit, TypeStep, StepStep, <1>1, PTL DEF Safety, NoClaimAfterCancel

(* A dispatcher that fires after a step fired the same partition before    *)
(* it, except for the one that a claim has just got.                       *)
LEMMA FiringFrom ==
    ASSUME TypeOK, StepInv, [Next]_vars, NEW d \in Dispatchers, step'[d] \in FiringSteps,
           ~ClaimPartition(d)
    PROVE  step[d] \in FiringSteps /\ held'[d] = held[d]
  <1> DEFINE Goal == step[d] \in FiringSteps /\ held'[d] = held[d]
  <1> USE DEF workflows, claims, firing, bounded, FiringSteps
  <1>1. ASSUME NEW o \in Dispatchers,
               ClaimBegin(o) \/ ClaimPartition(o) \/ ClaimNothing(o) \/ FailPartition(o) \/ Crash(o)
        PROVE  Goal
    BY <1>1 DEF ClaimBegin, ClaimPartition, ClaimNothing, FailPartition, Crash, Forget, TypeOK
  <1>2. ASSUME NEW o \in Dispatchers,
               StartWorkflow(o) \/ InsertExecutionRow(o) \/ TerminateWorkflow(o)
        PROVE  Goal
    BY <1>2 DEF StartWorkflow, InsertExecutionRow, TerminateWorkflow, Forget, TypeOK
  <1>3. ASSUME NEW e \in Executions, MarkRow(e) \/ MarkPartition(e) \/ AbandonWorkflow(e)
        PROVE  Goal
    BY <1>3 DEF MarkRow, MarkPartition, AbandonWorkflow
  <1>4. ASSUME NEW p \in Partitions, Expire(p) PROVE Goal
    BY <1>4 DEF Expire
  <1>5. CASE BackfillCancel \/ BackfillRetry \/ UNCHANGED vars
    BY <1>5 DEF BackfillCancel, BackfillRetry, vars
  <1> QED
    BY <1>1, <1>2, <1>3, <1>4, <1>5 DEF Next, Dispatch, WorkflowEnds

(* A partition becomes pending only by being put back.                     *)
LEMMA PendingFrom ==
    ASSUME TypeOK, StepInv, [Next]_vars
    PROVE  /\ reissued \subseteq reissued'
           /\ \A p \in Partitions : part'[p] = "pending" => part[p] = "pending" \/ p \in reissued'
  <1> DEFINE Goal ==
        /\ reissued \subseteq reissued'
        /\ \A p \in Partitions : part'[p] = "pending" => part[p] = "pending" \/ p \in reissued'
  <1> USE DEF workflows, claims, firing, bounded
  <1>1. ASSUME NEW d \in Dispatchers, ClaimPartition(d) PROVE Goal
    <2>1. PICK p \in Claimable(d) : part' = [Reset(d) EXCEPT ![p] = "starting"]
      BY <1>1 DEF ClaimPartition
    <2>2. \A q \in Partitions : part'[q] = "pending" => q \in stale[d] \/ part[q] = "pending"
      BY <2>1 DEF Reset
    <2> QED
      BY <1>1, <2>2 DEF ClaimPartition
  <1>2. ASSUME NEW d \in Dispatchers, ClaimNothing(d) PROVE Goal
    BY <1>2 DEF ClaimNothing, Reset
  <1>3. ASSUME NEW d \in Dispatchers, InsertExecutionRow(d) \/ FailPartition(d) PROVE Goal
    <2>1. part' = part \/ \E s \in {"running", "failed"} : part' = [part EXCEPT ![held[d]] = s]
      BY <1>3 DEF InsertExecutionRow, FailPartition
    <2> QED
      BY <1>3, <2>1 DEF InsertExecutionRow, FailPartition, TypeOK
  <1>4. ASSUME NEW e \in Executions, MarkPartition(e) PROVE Goal
    <2>1. part' = part \/ part' = [part EXCEPT ![target[e]] = verdict[e]]
      BY <1>4 DEF MarkPartition
    <2>2. verdict[e] # "pending"
      BY DEF TypeOK, Ended
    <2> QED
      BY <1>4, <2>1, <2>2 DEF MarkPartition, TypeOK
  <1>5. ASSUME NEW p \in Partitions, Expire(p) PROVE Goal
    BY <1>5 DEF Expire, TypeOK
  <1>6. CASE BackfillCancel \/ BackfillRetry \/ UNCHANGED vars
    BY <1>6 DEF BackfillCancel, BackfillRetry, vars
  <1>7. ASSUME NEW d \in Dispatchers,
               ClaimBegin(d) \/ StartWorkflow(d) \/ TerminateWorkflow(d) \/ Crash(d)
        PROVE  Goal
    BY <1>7 DEF ClaimBegin, StartWorkflow, TerminateWorkflow, Crash
  <1>8. ASSUME NEW e \in Executions, MarkRow(e) \/ AbandonWorkflow(e) PROVE Goal
    BY <1>8 DEF MarkRow, AbandonWorkflow
  <1> QED
    BY <1>1, <1>2, <1>3, <1>4, <1>5, <1>6, <1>7, <1>8 DEF Next, Dispatch, WorkflowEnds

LEMMA ExclusiveStep == TypeOK /\ StepInv /\ ExclusiveInv /\ [Next]_vars => ExclusiveInv'
  <1> SUFFICES ASSUME TypeOK, StepInv, ExclusiveInv, [Next]_vars PROVE ExclusiveInv'
    OBVIOUS
  <1>1. CASE \E d \in Dispatchers : ClaimPartition(d)
    <2>1. PICK d \in Dispatchers : ClaimPartition(d)
      BY <1>1
    <2>2. PICK p \in Claimable(d) :
            part' = [Reset(d) EXCEPT ![p] = "starting"] /\ held' = [held EXCEPT ![d] = p]
      BY <2>1 DEF ClaimPartition
    <2>3. /\ step' = [step EXCEPT ![d] = "fire"] /\ reissued' = reissued \cup stale[d]
          /\ p \in Partitions /\ (part[p] = "pending" \/ p \in stale[d])
      BY <2>1, <2>2 DEF ClaimPartition, Claimable, TypeOK
    <2>4. \A o \in Dispatchers : o # d => step'[o] = step[o] /\ held'[o] = held[o]
      BY <2>2, <2>3 DEF TypeOK
    <2>5. held'[d] = p
      BY <2>2 DEF TypeOK
    <2>6. ASSUME NEW o \in Dispatchers, o # d, step[o] \in FiringSteps, held[o] = p
          PROVE  p \in reissued'
      BY <2>3, <2>6 DEF ExclusiveInv
    <2>7. ClaimExclusive'
      <3> SUFFICES ASSUME NEW d1 \in Dispatchers, NEW d2 \in Dispatchers, d1 # d2,
                          step'[d1] \in FiringSteps, step'[d2] \in FiringSteps,
                          held'[d1] = held'[d2]
                   PROVE  held'[d1] \in reissued'
        BY DEF ClaimExclusive
      <3>1. CASE d1 = d
        BY <2>4, <2>5, <2>6, <3>1
      <3>2. CASE d2 = d
        BY <2>4, <2>5, <2>6, <3>2
      <3>3. CASE d1 # d /\ d2 # d
        BY <2>3, <2>4, <3>3 DEF ExclusiveInv, ClaimExclusive
      <3> QED
        BY <3>1, <3>2, <3>3
    <2>8. ASSUME NEW o \in Dispatchers, step'[o] \in FiringSteps, part'[held'[o]] = "pending"
          PROVE  held'[o] \in reissued'
      <3>1. part'[p] = "starting"
        BY <2>2, <2>3 DEF Reset
      <3>2. o # d
        BY <2>5, <2>8, <3>1
      <3>3. step[o] \in FiringSteps /\ held'[o] = held[o] /\ held[o] \in Partitions
        BY <2>4, <2>8, <3>2 DEF StepInv
      <3> QED
        BY <2>8, <3>3, PendingFrom DEF ExclusiveInv
    <2> QED
      BY <2>7, <2>8 DEF ExclusiveInv
  <1>2. CASE ~\E d \in Dispatchers : ClaimPartition(d)
    <2>1. \A o \in Dispatchers : step'[o] \in FiringSteps =>
            step[o] \in FiringSteps /\ held'[o] = held[o] /\ held[o] \in Partitions
      BY <1>2, FiringFrom DEF StepInv
    <2> QED
      BY <2>1, PendingFrom DEF ExclusiveInv, ClaimExclusive
  <1> QED
    BY <1>1, <1>2

(* Two dispatchers fire the same partition only if it was put back to      *)
(* pending by an expired claim or a retry, for any number of processes.    *)
THEOREM ClaimsAreExclusive == Safety => []ClaimExclusive
  <1>1. Init => ExclusiveInv
    BY DEF Init, ExclusiveInv, ClaimExclusive, FiringSteps
  <1>2. ExclusiveInv => ClaimExclusive
    BY DEF ExclusiveInv
  <1> QED
    BY TypeInit, TypeStep, StepStep, ExclusiveStep, <1>1, <1>2, PTL DEF Safety

-----------------------------------------------------------------------------
(* The limit of a job                                                      *)

LEMMA LockStep == TypeOK /\ StepInv /\ LockInv /\ [Next]_vars => LockInv'
  <1> SUFFICES ASSUME TypeOK, StepInv, LockInv, [Next]_vars PROVE LockInv'
    OBVIOUS
  <1> USE DEF workflows, claims, firing, bounded
  <1>1. ASSUME NEW d \in Dispatchers, ClaimBegin(d) PROVE LockInv'
    <2>1. \A o \in Dispatchers : stale[o] = {}
      BY <1>1 DEF ClaimBegin, ExpiredClaims, Locked, LockInv, TypeOK
    <2> QED
      BY <1>1, <2>1 DEF ClaimBegin, ExpiredClaims, LockInv, TypeOK
  <1>2. ASSUME NEW d \in Dispatchers, ClaimPartition(d) \/ ClaimNothing(d) PROVE LockInv'
    <2>1. /\ stale'[d] = {} /\ \A o \in Dispatchers : o # d => stale'[o] = stale[o]
      BY <1>2 DEF ClaimPartition, ClaimNothing, TypeOK
    <2>2. ASSUME NEW o \in Dispatchers, o # d, NEW q \in stale[o] PROVE part'[q] = part[q]
      <3>1. q \notin stale[d] /\ part[q] = "overdue" /\ q \in Partitions
        BY <2>2 DEF LockInv, TypeOK
      <3>2. CASE part' = Reset(d)
        BY <3>1, <3>2 DEF Reset
      <3>3. CASE \E p \in Claimable(d) : part' = [Reset(d) EXCEPT ![p] = "starting"]
        <4>1. PICK p \in Claimable(d) : part' = [Reset(d) EXCEPT ![p] = "starting"]
          BY <3>3
        <4>2. p # q
          BY <3>1, <4>1 DEF Claimable
        <4> QED
          BY <3>1, <4>1, <4>2 DEF Reset
      <3> QED
        BY <1>2, <3>2, <3>3 DEF ClaimPartition, ClaimNothing
    <2> QED
      BY <2>1, <2>2 DEF LockInv
  <1>3. ASSUME NEW d \in Dispatchers, InsertExecutionRow(d) \/ FailPartition(d) PROVE LockInv'
    <2>1. /\ held[d] \notin Locked /\ stale' = stale
          /\ part' = part \/ \E s \in {"running", "failed"} : part' = [part EXCEPT ![held[d]] = s]
      BY <1>3 DEF InsertExecutionRow, FailPartition
    <2>2. \A q \in Locked : part'[q] = part[q]
      BY <2>1 DEF TypeOK, Locked
    <2> QED
      BY <2>1, <2>2 DEF LockInv, Locked
  <1>4. ASSUME NEW e \in Executions, MarkPartition(e) PROVE LockInv'
    <2>1. /\ target[e] \notin Locked /\ stale' = stale
          /\ part' = part \/ part' = [part EXCEPT ![target[e]] = verdict[e]]
      BY <1>4 DEF MarkPartition
    <2>2. \A q \in Locked : part'[q] = part[q]
      BY <2>1 DEF TypeOK, Locked
    <2> QED
      BY <2>1, <2>2 DEF LockInv, Locked
  <1>5. ASSUME NEW p \in Partitions, Expire(p) PROVE LockInv'
    BY <1>5 DEF Expire, LockInv, TypeOK
  <1>6. CASE BackfillCancel
    BY <1>6 DEF BackfillCancel, LockInv, Locked
  <1>7. CASE BackfillRetry
    BY <1>7 DEF BackfillRetry, LockInv, TypeOK
  <1>8. ASSUME NEW d \in Dispatchers, Crash(d) PROVE LockInv'
    BY <1>8 DEF Crash, LockInv, TypeOK
  <1>9. ASSUME NEW d \in Dispatchers, StartWorkflow(d) \/ TerminateWorkflow(d) PROVE LockInv'
    BY <1>9 DEF StartWorkflow, TerminateWorkflow, LockInv
  <1>10. ASSUME NEW e \in Executions, MarkRow(e) \/ AbandonWorkflow(e) PROVE LockInv'
    BY <1>10 DEF MarkRow, AbandonWorkflow, LockInv
  <1>11. CASE UNCHANGED vars
    BY <1>11 DEF vars, LockInv
  <1> QED
    BY <1>1, <1>2, <1>3, <1>4, <1>5, <1>6, <1>7, <1>8, <1>9, <1>10, <1>11
       DEF Next, Dispatch, WorkflowEnds

LEMMA Sizes ==
    ASSUME TypeOK, StepInv
    PROVE  /\ IsFiniteSet(Partitions)
           /\ Sure \subseteq Partitions /\ Counted \subseteq Partitions
           /\ IsFiniteSet(Sure) /\ IsFiniteSet(Counted) /\ IsFiniteSet(HeldParts)
           /\ IsFiniteSet(Chances) /\ IsFiniteSet(Firing) /\ IsFiniteSet(Claiming)
           /\ Cardinality(Sure) \in Nat /\ Cardinality(Counted) \in Nat
           /\ Cardinality(Chances) \in Nat /\ Cardinality(Dispatchers) \in Nat
           /\ Bound \in Int
  <1>1. IsFiniteSet(Partitions)
    BY CountsAssumption, FS_Interval DEF Partitions
  <1>2. HeldParts \subseteq Partitions
    BY DEF StepInv, HeldParts, Firing
  <1>3. Sure \subseteq Partitions /\ Counted \subseteq Partitions
    BY <1>2 DEF Sure, Counted, Occupied
  <1>4. Chances \subseteq Dispatchers /\ Firing \subseteq Dispatchers /\ Claiming \subseteq Dispatchers
    BY DEF Chances, Firing, Claiming
  <1>5. IsFiniteSet(Sure) /\ IsFiniteSet(Counted) /\ IsFiniteSet(HeldParts)
    BY <1>1, <1>2, <1>3, FS_Subset
  <1>6. IsFiniteSet(Chances) /\ IsFiniteSet(Firing) /\ IsFiniteSet(Claiming)
    BY <1>4, DispatchersFinite, FS_Subset
  <1>7. /\ Cardinality(Sure) \in Nat /\ Cardinality(Counted) \in Nat
        /\ Cardinality(Chances) \in Nat /\ Cardinality(Dispatchers) \in Nat
    BY <1>5, <1>6, DispatchersFinite, FS_CardinalityType
  <1> QED
    BY <1>1, <1>3, <1>5, <1>6, <1>7, CountsAssumption DEF Bound

LEMMA Fewer ==
    ASSUME NEW S, NEW T, IsFiniteSet(T), S \subseteq T
    PROVE  IsFiniteSet(S) /\ Cardinality(S) <= Cardinality(T) /\ Cardinality(S) \in Nat
                          /\ Cardinality(T) \in Nat
  BY FS_Subset, FS_CardinalityType

LEMMA OneMore ==
    ASSUME NEW T, NEW x, IsFiniteSet(T)
    PROVE  IsFiniteSet(T \cup {x}) /\ Cardinality(T \cup {x}) <= Cardinality(T) + 1
  <1>1. Cardinality(T \cup {x}) = IF x \in T THEN Cardinality(T) ELSE Cardinality(T) + 1
    BY FS_AddElement
  <1>2. Cardinality(T) \in Nat /\ IsFiniteSet(T \cup {x})
    BY FS_CardinalityType, FS_AddElement
  <1> QED
    BY <1>1, <1>2

(* A step that adds no partition, no holder and no claim keeps the limit.  *)
LEMMA QuietStep ==
    ASSUME TypeOK, StepInv, LimitInv, Sure' \subseteq Sure, Counted' \subseteq Counted,
           Chances' \subseteq Chances,
           \A d \in Dispatchers : stale'[d] # {} => stale[d] # {}
    PROVE  LimitInv'
  <1> USE Sizes
  <1>1. /\ Cardinality(Sure') <= Cardinality(Sure) /\ Cardinality(Sure') \in Nat
        /\ Cardinality(Chances') <= Cardinality(Chances) /\ Cardinality(Chances') \in Nat
        /\ Cardinality(Counted') <= Cardinality(Counted) /\ Cardinality(Counted') \in Nat
    BY Fewer
  <1>2. Cardinality(Sure') + Cardinality(Chances') <= Bound
    BY <1>1 DEF LimitInv
  <1>3. ASSUME NEW d \in Dispatchers, stale'[d] # {}
        PROVE  Cardinality(Counted') + Cardinality(Chances' \ {d}) <= Bound
    <2>1. IsFiniteSet(Chances \ {d}) /\ Chances' \ {d} \subseteq Chances \ {d}
      BY FS_RemoveElement
    <2>2. /\ Cardinality(Chances' \ {d}) <= Cardinality(Chances \ {d})
          /\ Cardinality(Chances' \ {d}) \in Nat /\ Cardinality(Chances \ {d}) \in Nat
      BY <2>1, Fewer
    <2>3. Cardinality(Counted) + Cardinality(Chances \ {d}) <= Bound
      BY <1>3 DEF LimitInv
    <2> QED
      BY <1>1, <2>2, <2>3
  <1> QED
    BY <1>2, <1>3 DEF LimitInv, Bound

(* The steps that may occupy a partition: a claim and the insertion of a   *)
(* row, which takes the partition its dispatcher holds.                    *)
LEMMA OccupiedFrom ==
    ASSUME TypeOK, StepInv, [Next]_vars, \A d \in Dispatchers : ~ClaimPartition(d)
    PROVE  Occupied' \subseteq Counted
  <1> SUFFICES ASSUME NEW q \in Partitions, part'[q] \in Started \cup {"running"}
               PROVE  part[q] \in Started \cup {"running"} \/ q \in HeldParts
    BY DEF Occupied, Counted
  <1> DEFINE Goal == part[q] \in Started \cup {"running"} \/ q \in HeldParts
  <1> USE DEF workflows, claims, firing, bounded, Started
  <1>1. ASSUME NEW d \in Dispatchers, ClaimNothing(d) PROVE Goal
    BY <1>1 DEF ClaimNothing, Reset
  <1>2. ASSUME NEW d \in Dispatchers, InsertExecutionRow(d) PROVE Goal
    <2>1. held[d] \in HeldParts
      BY <1>2 DEF InsertExecutionRow, HeldParts, Firing, FiringSteps
    <2>2. part' = part \/ part' = [part EXCEPT ![held[d]] = "running"]
      BY <1>2 DEF InsertExecutionRow
    <2> QED
      BY <2>1, <2>2 DEF TypeOK
  <1>3. ASSUME NEW d \in Dispatchers, FailPartition(d) PROVE Goal
    <2>1. part' = part \/ part' = [part EXCEPT ![held[d]] = "failed"]
      BY <1>3 DEF FailPartition
    <2> QED
      BY <2>1 DEF TypeOK
  <1>4. ASSUME NEW e \in Executions, MarkPartition(e) PROVE Goal
    <2>1. part' = part \/ part' = [part EXCEPT ![target[e]] = verdict[e]]
      BY <1>4 DEF MarkPartition
    <2>2. verdict[e] \notin Started \cup {"running"}
      BY DEF TypeOK, Ended
    <2> QED
      BY <2>1, <2>2 DEF TypeOK
  <1>5. ASSUME NEW p \in Partitions, Expire(p) PROVE Goal
    BY <1>5 DEF Expire, TypeOK
  <1>6. CASE BackfillCancel \/ BackfillRetry \/ UNCHANGED vars
    BY <1>6 DEF BackfillCancel, BackfillRetry, vars
  <1>7. ASSUME NEW d \in Dispatchers,
               ClaimBegin(d) \/ StartWorkflow(d) \/ TerminateWorkflow(d) \/ Crash(d)
        PROVE  Goal
    BY <1>7 DEF ClaimBegin, StartWorkflow, TerminateWorkflow, Crash
  <1>8. ASSUME NEW e \in Executions, MarkRow(e) \/ AbandonWorkflow(e) PROVE Goal
    BY <1>8 DEF MarkRow, AbandonWorkflow
  <1> QED
    BY <1>1, <1>2, <1>3, <1>4, <1>5, <1>6, <1>7, <1>8 DEF Next, Dispatch, WorkflowEnds

LEMMA HeldFrom ==
    ASSUME TypeOK, StepInv, [Next]_vars, \A d \in Dispatchers : ~ClaimPartition(d)
    PROVE  HeldParts' \subseteq HeldParts
  BY FiringFrom DEF HeldParts, Firing

(* As many partitions are held as dispatchers are firing, at most.         *)
LEMMA HeldAtMost ==
    ASSUME TypeOK, StepInv
    PROVE  /\ Cardinality(HeldParts) <= Cardinality(Firing)
           /\ Cardinality(Firing) + Cardinality(Claiming) <= Cardinality(Dispatchers)
           /\ Cardinality(HeldParts) \in Nat /\ Cardinality(Firing) \in Nat
           /\ Cardinality(Claiming) \in Nat
  <1> DEFINE f == [d \in Firing |-> held[d]]
  <1>1. f \in Surjection(Firing, HeldParts)
    BY DEF Surjection, HeldParts
  <1>2. Cardinality(HeldParts) <= Cardinality(Firing)
    BY <1>1, Sizes, FS_Surjection
  <1>3. /\ Cardinality(HeldParts) \in Nat /\ Cardinality(Firing) \in Nat
        /\ Cardinality(Claiming) \in Nat
    BY Sizes, FS_CardinalityType
  <1>4. Firing \cap Claiming = {} /\ Firing \cup Claiming \subseteq Dispatchers
    BY DEF Firing, Claiming, FiringSteps
  <1>5. Cardinality(Firing \cup Claiming) =
          Cardinality(Firing) + Cardinality(Claiming) - Cardinality(Firing \cap Claiming)
    BY Sizes, FS_Union
  <1>6. Cardinality(Firing \cap Claiming) = 0
    BY <1>4, FS_EmptySet
  <1>7. Cardinality(Firing \cup Claiming) <= Cardinality(Dispatchers)
    BY <1>4, DispatchersFinite, Fewer
  <1> QED
    BY <1>2, <1>3, <1>5, <1>6, <1>7

LEMMA LimitStep == TypeOK /\ StepInv /\ LockInv /\ LimitInv /\ [Next]_vars => LimitInv'
  <1> SUFFICES ASSUME TypeOK, StepInv, LockInv, LimitInv, [Next]_vars PROVE LimitInv'
    OBVIOUS
  <1> USE DEF workflows, claims, firing, bounded
  <1>t. TypeOK' /\ StepInv'
    BY TypeStep, StepStep
  <1>b. Bound \in Int /\ Bound' = Bound
    BY Sizes DEF Bound
  <1>1. ASSUME NEW d \in Dispatchers, ClaimBegin(d) PROVE LimitInv'
    <2>0. /\ \A o \in Dispatchers : stale[o] = {} 
          /\ Locked = {} /\ Locked' = ExpiredClaims
      <3>1. \A o \in Dispatchers : stale[o] = {}
        BY <1>1 DEF ClaimBegin, ExpiredClaims, Locked, LockInv, TypeOK
      <3>2. \A o \in Dispatchers : stale'[o] = IF o = d THEN ExpiredClaims ELSE {}
        BY <1>1, <3>1 DEF ClaimBegin, TypeOK
      <3> QED
        BY <3>1, <3>2 DEF Locked
    <2>1. Occupied' = Occupied /\ Occupied = Active /\ HeldParts' = HeldParts /\ Firing' = Firing
      BY <1>1 DEF ClaimBegin, Occupied, Active, HeldParts, Firing, FiringSteps, TypeOK
    <2>2. Sure = Counted /\ Counted' = Counted /\ Sure' = (Occupied \ ExpiredClaims) \cup HeldParts
      BY <2>0, <2>1 DEF Sure, Counted
    <2>3. candidates[d] = {} /\ \A o \in Dispatchers : o # d => candidates'[o] = candidates[o]
      BY <1>1 DEF ClaimBegin, StepInv, TypeOK
    <2>4. Chances' \ {d} \subseteq Chances
      BY <2>3 DEF Chances
    <2>5. ASSUME NEW o \in Dispatchers, stale'[o] # {}
          PROVE  Cardinality(Counted') + Cardinality(Chances' \ {o}) <= Bound
      <3>1. o = d
        BY <1>1, <2>0, <2>5 DEF ClaimBegin, TypeOK
      <3>2. /\ Cardinality(Chances' \ {d}) <= Cardinality(Chances)
            /\ Cardinality(Chances' \ {d}) \in Nat
        BY <2>4, Sizes, Fewer
      <3> QED
        BY <2>2, <3>1, <3>2, <1>b, Sizes DEF LimitInv
    <2>6. Cardinality(Sure') + Cardinality(Chances') <= Bound
      <3>1. CASE candidates'[d] = {}
        <4>1. Chances' \subseteq Chances
          BY <2>4, <3>1 DEF Chances
        <4>2. Sure' \subseteq Sure
          BY <2>2 DEF Counted
        <4>3. /\ Cardinality(Sure') <= Cardinality(Sure) /\ Cardinality(Sure') \in Nat
              /\ Cardinality(Chances') <= Cardinality(Chances) /\ Cardinality(Chances') \in Nat
          BY <4>1, <4>2, Sizes, Fewer
        <4> QED
          BY <4>3, <1>b, Sizes DEF LimitInv
      <3>2. CASE candidates'[d] # {}
        <4>1. Cardinality(Occupied \ ExpiredClaims) < MaxConcurrency
          BY <1>1, <2>1, <3>2 DEF ClaimBegin, TypeOK
        <4>2. IsFiniteSet(Occupied \ ExpiredClaims) /\ IsFiniteSet(HeldParts)
          <5>1. Occupied \ ExpiredClaims \subseteq Partitions
            BY DEF Occupied
          <5> QED
            BY <5>1, Sizes, FS_Subset
        <4>3. /\ Cardinality(Sure') <= Cardinality(Occupied \ ExpiredClaims) + Cardinality(HeldParts)
              /\ Cardinality(Occupied \ ExpiredClaims) \in Nat /\ Cardinality(Sure') \in Nat
          <5> DEFINE A == Occupied \ ExpiredClaims
          <5>1. Cardinality(A \cup HeldParts) =
                  Cardinality(A) + Cardinality(HeldParts) - Cardinality(A \cap HeldParts)
            BY <4>2, FS_Union
          <5>2. IsFiniteSet(A \cap HeldParts) /\ IsFiniteSet(A \cup HeldParts)
            BY <4>2, FS_Intersection, FS_Union
          <5>3. /\ Cardinality(A) \in Nat /\ Cardinality(HeldParts) \in Nat
                /\ Cardinality(A \cap HeldParts) \in Nat /\ Cardinality(A \cup HeldParts) \in Nat
            BY <4>2, <5>2, FS_CardinalityType
          <5> HIDE DEF A
          <5>4. /\ Cardinality(A \cup HeldParts) <= Cardinality(A) + Cardinality(HeldParts)
                /\ Cardinality(A) \in Nat /\ Cardinality(A \cup HeldParts) \in Nat
            BY <5>1, <5>3
          <5> USE DEF A
          <5> QED
            BY <2>2, <5>4
        <4>4. Chances' \subseteq Claiming'
          BY <1>t DEF Chances, Claiming, StepInv
        <4>5. /\ Cardinality(Chances') <= Cardinality(Claiming') /\ Cardinality(Chances') \in Nat
              /\ Cardinality(Claiming') \in Nat
          <5>1. Claiming' \subseteq Dispatchers
            BY DEF Claiming
          <5>2. IsFiniteSet(Claiming')
            BY <5>1, DispatchersFinite, FS_Subset
          <5> QED
            BY <4>4, <5>2, Fewer
        <4>6. /\ Cardinality(HeldParts) <= Cardinality(Firing) /\ Cardinality(HeldParts) \in Nat
              /\ Cardinality(Firing) \in Nat
          BY HeldAtMost
        <4>7. Cardinality(Firing) + Cardinality(Claiming') <= Cardinality(Dispatchers)
          <5>1. (TypeOK /\ StepInv => Cardinality(Firing) + Cardinality(Claiming) <= Cardinality(Dispatchers))'
            BY HeldAtMost, PTL
          <5> QED
            BY <1>t, <2>1, <5>1
        <4> QED
          BY <4>1, <4>3, <4>5, <4>6, <4>7, CountsAssumption, Sizes DEF Bound
      <3> QED
        BY <3>1, <3>2
    <2> QED
      BY <2>5, <2>6, <1>b DEF LimitInv
  <1>2. ASSUME NEW d \in Dispatchers, ClaimPartition(d) PROVE LimitInv'
    <2>1. PICK p \in Claimable(d) :
            part' = [Reset(d) EXCEPT ![p] = "starting"] /\ held' = [held EXCEPT ![d] = p]
      BY <1>2 DEF ClaimPartition
    <2>2. /\ step' = [step EXCEPT ![d] = "fire"]
          /\ stale' = [stale EXCEPT ![d] = {}] /\ candidates' = [candidates EXCEPT ![d] = {}]
          /\ p \in candidates[d] /\ p \in Partitions
      BY <1>2, <2>1 DEF ClaimPartition, Claimable, TypeOK
    <2>3. Chances' = Chances \ {d} /\ d \in Chances
      BY <2>2 DEF Chances, TypeOK
    <2>4. HeldParts' \subseteq HeldParts \cup {p}
      BY <1>2, <2>1, <2>2 DEF HeldParts, Firing, FiringSteps, TypeOK
    <2>5. \A q \in Partitions : q # p => part'[q] = IF q \in stale[d] THEN "pending" ELSE part[q]
      BY <2>1 DEF Reset
    <2>6. Occupied' \subseteq Occupied \cup {p} /\ \A q \in Occupied' : q # p => q \notin stale[d]
      BY <2>5 DEF Occupied, Started
    <2>7. Locked \subseteq Locked' \cup stale[d]
      BY <2>2 DEF Locked, TypeOK
    <2>8. Sure' \subseteq Sure \cup {p} /\ Counted' \subseteq Counted \cup {p}
      BY <2>4, <2>6, <2>7 DEF Sure, Counted
    <2>9. /\ Cardinality(Sure') <= Cardinality(Sure) + 1 /\ Cardinality(Sure') \in Nat
          /\ Cardinality(Counted') <= Cardinality(Counted) + 1 /\ Cardinality(Counted') \in Nat
      <3>1. /\ IsFiniteSet(Sure \cup {p}) /\ Cardinality(Sure \cup {p}) <= Cardinality(Sure) + 1
            /\ IsFiniteSet(Counted \cup {p}) /\ Cardinality(Counted \cup {p}) <= Cardinality(Counted) + 1
        BY Sizes, OneMore
      <3>2. /\ Cardinality(Sure') <= Cardinality(Sure \cup {p}) /\ Cardinality(Sure') \in Nat
            /\ Cardinality(Counted') <= Cardinality(Counted \cup {p}) /\ Cardinality(Counted') \in Nat
            /\ Cardinality(Sure \cup {p}) \in Nat /\ Cardinality(Counted \cup {p}) \in Nat
        BY <2>8, <3>1, Fewer
      <3> QED
        BY <3>1, <3>2, Sizes
    <2>10. Cardinality(Chances') = Cardinality(Chances) - 1
      BY <2>3, Sizes, FS_RemoveElement
    <2>11. Cardinality(Sure') + Cardinality(Chances') <= Bound
      BY <2>9, <2>10, <1>b, Sizes DEF LimitInv
    <2>12. ASSUME NEW o \in Dispatchers, stale'[o] # {}
           PROVE  Cardinality(Counted') + Cardinality(Chances' \ {o}) <= Bound
      <3>1. o # d /\ stale[o] # {}
        BY <2>2, <2>12 DEF TypeOK
      <3>2. IsFiniteSet(Chances \ {o}) /\ Cardinality(Chances \ {o}) \in Nat
        BY Sizes, FS_RemoveElement, FS_CardinalityType
      <3>3. Chances' \ {o} = (Chances \ {o}) \ {d} /\ d \in Chances \ {o}
        BY <2>3, <3>1
      <3>4. Cardinality(Chances' \ {o}) = Cardinality(Chances \ {o}) - 1
        BY <3>2, <3>3, FS_RemoveElement
      <3>5. Cardinality(Counted) + Cardinality(Chances \ {o}) <= Bound
        BY <3>1 DEF LimitInv
      <3> QED
        BY <2>9, <3>2, <3>4, <3>5, <1>b, Sizes
    <2> QED
      BY <2>11, <2>12, <1>b DEF LimitInv
  <1>3. ASSUME NEW d \in Dispatchers, ClaimNothing(d) PROVE LimitInv'
    <2>1. \A o \in Dispatchers : ~ClaimPartition(o)
      BY <1>3 DEF ClaimNothing, ClaimPartition, TypeOK
    <2>2. Counted' \subseteq Counted /\ HeldParts' \subseteq HeldParts
      BY <2>1, OccupiedFrom, HeldFrom DEF Counted
    <2>3. Locked \subseteq Locked' \cup stale[d]
      BY <1>3 DEF ClaimNothing, Locked, TypeOK
    <2>4. \A q \in Occupied' : q \in Occupied /\ q \notin stale[d]
      BY <1>3 DEF ClaimNothing, Occupied, Reset, Started
    <2>5. Sure' \subseteq Sure
      BY <2>2, <2>3, <2>4 DEF Sure
    <2>6. Chances' \subseteq Chances /\ \A o \in Dispatchers : stale'[o] # {} => stale[o] # {}
      BY <1>3 DEF ClaimNothing, Chances, TypeOK
    <2> QED
      BY <2>2, <2>5, <2>6, QuietStep
  <1>4. ASSUME NEW d \in Dispatchers, Crash(d) PROVE LimitInv'
    <2>1. \A o \in Dispatchers : ~ClaimPartition(o)
      BY <1>4 DEF Crash, ClaimPartition
    <2>2. Counted' \subseteq Counted /\ HeldParts' \subseteq HeldParts
      BY <2>1, OccupiedFrom, HeldFrom DEF Counted
    <2>3. Chances' \subseteq Chances \ {d} /\ \A o \in Dispatchers : stale'[o] # {} => stale[o] # {}
      BY <1>4 DEF Crash, Chances, TypeOK
    <2>4. CASE stale[d] = {}
      <3>1. Locked' = Locked /\ Occupied' = Occupied
        BY <1>4, <2>4 DEF Crash, Locked, Occupied, TypeOK
      <3>2. Sure' \subseteq Sure
        BY <2>2, <3>1 DEF Sure
      <3> QED
        BY <2>2, <2>3, <3>2, QuietStep
    <2>5. CASE stale[d] # {}
      <3>1. Sure' \subseteq Counted
        BY <2>2 DEF Sure, Counted
      <3>2. IsFiniteSet(Chances \ {d})
        BY Sizes, FS_RemoveElement
      <3>3. /\ Cardinality(Sure') <= Cardinality(Counted) /\ Cardinality(Sure') \in Nat
            /\ Cardinality(Chances') <= Cardinality(Chances \ {d}) /\ Cardinality(Chances') \in Nat
            /\ Cardinality(Chances \ {d}) \in Nat
        BY <2>3, <3>1, <3>2, Sizes, Fewer
      <3>4. Cardinality(Sure') + Cardinality(Chances') <= Bound
        BY <2>5, <3>3, <1>b, Sizes DEF LimitInv
      <3>5. \A o \in Dispatchers : stale'[o] = {}
        BY <1>4, <2>5 DEF Crash, LockInv, TypeOK
      <3> QED
        BY <3>4, <3>5, <1>b DEF LimitInv
    <2> QED
      BY <2>4, <2>5
  <1>5. CASE /\ \A d \in Dispatchers : ~ClaimPartition(d)
             /\ UNCHANGED <<stale, candidates>>
    <2>1. Occupied' \subseteq Counted /\ HeldParts' \subseteq HeldParts
      BY <1>5, OccupiedFrom, HeldFrom
    <2>2. Locked' = Locked /\ Chances' = Chances
      BY <1>5 DEF Locked, Chances
    <2>3. Sure' \subseteq Sure /\ Counted' \subseteq Counted
      BY <2>1, <2>2 DEF Sure, Counted
    <2> QED
      BY <1>5, <2>2, <2>3, QuietStep
  <1>6. ASSUME ~UNCHANGED <<stale, candidates>>
        PROVE  \E d \in Dispatchers :
                 ClaimBegin(d) \/ ClaimPartition(d) \/ ClaimNothing(d) \/ Crash(d)
    BY <1>6 DEF Next, Dispatch, WorkflowEnds, vars, Expire, StartWorkflow, InsertExecutionRow,
       TerminateWorkflow, FailPartition, MarkRow, MarkPartition, AbandonWorkflow,
       BackfillCancel, BackfillRetry
  <1> QED
    BY <1>1, <1>2, <1>3, <1>4, <1>5, <1>6

LEMMA LimitInit == Init => LockInv /\ LimitInv
  <1> SUFFICES ASSUME Init PROVE LockInv /\ LimitInv
    OBVIOUS
  <1>1. LockInv
    BY DEF Init, LockInv
  <1>2. Sure = {} /\ Chances = {}
    BY DEF Init, Sure, Chances, Occupied, HeldParts, Firing, FiringSteps, Started
  <1>3. Cardinality(Dispatchers) \in Nat \ {0}
    BY DispatchersFinite, FS_EmptySet, FS_CardinalityType
  <1>4. Cardinality(Sure) + Cardinality(Chances) <= Bound
    BY <1>2, <1>3, FS_EmptySet, CountsAssumption DEF Bound
  <1>5. \A d \in Dispatchers : stale[d] = {}
    BY DEF Init
  <1> QED
    BY <1>1, <1>4, <1>5 DEF LimitInv

LEMMA LimitFollows == TypeOK /\ StepInv /\ LimitInv => SlotOverrunBounded
  <1> SUFFICES ASSUME TypeOK, StepInv, LimitInv PROVE SlotOverrunBounded
    OBVIOUS
  <1> USE Sizes
  <1>1. Occupied \subseteq Counted
    BY DEF Counted
  <1>2. Cardinality(Occupied) <= Cardinality(Counted) /\ Cardinality(Occupied) \in Nat
    BY <1>1, Fewer
  <1>3. CASE \E d \in Dispatchers : stale[d] # {}
    <2>1. PICK d \in Dispatchers : stale[d] # {}
      BY <1>3
    <2>2. Cardinality(Chances \ {d}) \in Nat
      BY FS_RemoveElement, FS_CardinalityType
    <2> QED
      BY <1>2, <2>1, <2>2 DEF LimitInv, Bound, SlotOverrunBounded
  <1>4. CASE \A d \in Dispatchers : stale[d] = {}
    <2>1. Sure = Counted
      BY <1>4 DEF Sure, Counted, Locked
    <2> QED
      BY <1>2, <2>1 DEF LimitInv, Bound, SlotOverrunBounded
  <1> QED
    BY <1>3, <1>4

(* The limit of a job is overrun by one partition for every further        *)
(* dispatcher at most, whatever crashes, expires, is cancelled or retried. *)
THEOREM OverrunIsBounded == Safety => []SlotOverrunBounded
  BY TypeInit, TypeStep, StepStep, LimitInit, LockStep, LimitStep, LimitFollows, PTL DEF Safety

(* A single API process keeps to the limit of the job.                     *)
THEOREM OneDispatcherKeepsLimit ==
    ASSUME Cardinality(Dispatchers) = 1
    PROVE  Safety => []ConcurrencyLimit
  <1>1. SlotOverrunBounded => ConcurrencyLimit
    BY CountsAssumption DEF SlotOverrunBounded, ConcurrencyLimit
  <1> QED
    BY <1>1, OverrunIsBounded, PTL
=============================================================================
