----------------------------- MODULE Regression -----------------------------
(***************************************************************************)
(* The regression of one impact analysis: those of its affected cases that *)
(* are still active become an execution task, and the row of the analysis  *)
(* records which (src/app/services/impact_service.py).  Cases are reviewed *)
(* and tasks executed meanwhile; both are taken as their abstract          *)
(* specifications promise, CaseLifecycle and TaskLifecycle.                *)
(***************************************************************************)
EXTENDS Naturals, FiniteSetsExt

CONSTANTS
  Cases,       \* ids of test cases
  Regressors,  \* threads of the web process that answer regressions
  Workers,     \* workers that run tasks
  MaxCaseIds,  \* cases an execution task may have
  MaxAsked     \* bound: how many regressions are asked for

ASSUME CasesAssumption == IsFiniteSet(Cases)
ASSUME NumbersAssumption == MaxCaseIds \in Nat /\ MaxAsked \in Nat

VARIABLES
  cases,     \* status of each case
  tasks,     \* status of the execution task of each set of cases
  work,      \* task a worker is about to start, and the cases it has read
  ran,       \* cases the task ran when it was last started (history)
  analysis,  \* the row of the analysis
  reg,       \* regression each thread is in
  asked,     \* how many regressions were asked for
  raced      \* the record is of a writer that had not seen the one before (history)

vars == <<cases, tasks, work, ran, analysis, reg, asked, raced>>

\* The run_id of a task is a hash of its sorted case ids and its timeout; a
\* regression always takes the default timeout.
Batches == (SUBSET Cases) \ {{}}

NoTask == {}

Review == INSTANCE CaseLifecycle WITH status <- cases
Execution == INSTANCE TaskLifecycle WITH Tasks <- Batches, status <- tasks

Active == {id \in Cases : cases[id] = "active"}

\* affected_case_ids and the last_regression columns.
NoAnalysis == [affected |-> {}, task |-> NoTask, count |-> 0]

\* The columns that a regression writes.
Record == [task |-> analysis.task, count |-> analysis.count]

Idle == [pc |-> "idle"]

NoWork == [batch |-> {}, read |-> {}]

Init ==
  /\ Review!Init
  /\ Execution!Init
  /\ work = [w \in Workers |-> NoWork]
  /\ ran = [b \in Batches |-> {}]
  /\ analysis = NoAnalysis
  /\ reg = [r \in Regressors |-> Idle]
  /\ asked = 0
  /\ raced = FALSE

Step(r, from, job) ==
  /\ reg[r].pc = from
  /\ reg' = [reg EXCEPT ![r] = job]

-----------------------------------------------------------------------------
(* ImpactService *)

\* analyze: the active cases of the operations that broke, whichever.
Analyze ==
  /\ analysis = NoAnalysis
  /\ \E S \in (SUBSET Active) \ {{}} :
       analysis' = [NoAnalysis EXCEPT !.affected = S]
  /\ UNCHANGED <<cases, tasks, work, ran, reg, asked, raced>>

Load(r) ==
  /\ analysis # NoAnalysis
  /\ asked < MaxAsked
  /\ asked' = asked + 1
  /\ Step(r, "idle", [pc |-> "select", seen |-> Record])
  /\ UNCHANGED <<cases, tasks, work, ran, analysis, raced>>

\* Refused if none is active by now, or too many.
Select(r) ==
  LET active == analysis.affected \cap Active
  IN /\ Step(r, "select",
             IF active # {} /\ Cardinality(active) <= MaxCaseIds
             THEN [pc |-> "create", seen |-> reg[r].seen, batch |-> active]
             ELSE Idle)
     /\ UNCHANGED <<cases, tasks, work, ran, analysis, asked, raced>>

\* create_execution_task is refused if a case is no longer active.  A task
\* that exists is the answer, reset first if it has failed.
LookUp(r) ==
  LET batch == reg[r].batch
      next == CASE tasks[batch] = "absent" -> "insert"
                [] tasks[batch] = "failed" -> "reset"
                [] OTHER -> "mark"
  IN /\ Step(r, "create",
             IF batch \subseteq Active THEN [reg[r] EXCEPT !.pc = next] ELSE Idle)
     /\ UNCHANGED <<cases, tasks, work, ran, analysis, asked, raced>>

InsertTask(r) ==
  /\ Step(r, "insert", [reg[r] EXCEPT !.pc = "publish"])
  /\ Execution!Create(reg[r].batch)
  /\ UNCHANGED <<cases, work, ran, analysis, asked, raced>>

\* Another thread has inserted the task: the rollback expires what the session
\* has loaded, so the row of the analysis is read again.
InsertTaskLost(r) ==
  /\ Step(r, "insert", [reg[r] EXCEPT !.pc = "mark", !.seen = Record])
  /\ tasks[reg[r].batch] # "absent"
  /\ UNCHANGED <<cases, tasks, work, ran, analysis, asked, raced>>

\* Whatever has become of the failed task meanwhile.
ResetTask(r) ==
  /\ Step(r, "reset", [reg[r] EXCEPT !.pc = "publish"])
  /\ tasks' = [tasks EXCEPT ![reg[r].batch] = "pending"]
  /\ UNCHANGED <<cases, work, ran, analysis, asked, raced>>

Publish(r) ==
  /\ Step(r, "publish", [reg[r] EXCEPT !.pc = "mark"])
  /\ UNCHANGED <<cases, tasks, work, ran, analysis, asked, raced>>

\* A task that cannot be published fails, and the regression with it.  Where a
\* cancel came before the refresh of its insertion and a retry after it, the
\* row stays pending: this step and Execution!Retry.
PublishFails(r) ==
  /\ Step(r, "publish", Idle)
  /\ tasks' = [tasks EXCEPT ![reg[r].batch] = "failed"]
  /\ UNCHANGED <<cases, work, ran, analysis, asked, raced>>

\* Variant: the count of the snapshot.
CountedAsAffected(batch) == Cardinality(analysis.affected)

\* executed_count is that of the cases in the task.
Counted(batch) == Cardinality(batch)

\* mark_regression: the commit writes the columns that differ from those
\* loaded.
Mark(r) ==
  LET batch == reg[r].batch
      seen == reg[r].seen
      count == Counted(batch)
  IN /\ Step(r, "mark", Idle)
     /\ analysis' = [analysis EXCEPT
          !.task = IF batch = seen.task THEN analysis.task ELSE batch,
          !.count = IF count = seen.count THEN analysis.count ELSE count]
     /\ raced' = (Record # seen)
     /\ UNCHANGED <<cases, tasks, work, ran, asked>>

-----------------------------------------------------------------------------
(* Review and execution *)

ReviewMoves ==
  Review!Next /\ UNCHANGED <<tasks, work, ran, analysis, reg, asked, raced>>

\* The worker takes a pending task and reads those of its cases that are
\* active; with none it fails the task, which is one of TaskMoves.
WorkerReads(w, batch) ==
  /\ work[w] = NoWork
  /\ tasks[batch] = "pending"
  /\ batch \cap Active # {}
  /\ work' = [work EXCEPT ![w] = [batch |-> batch, read |-> batch \cap Active]]
  /\ UNCHANGED <<cases, tasks, ran, analysis, reg, asked, raced>>

\* pytest runs what was read, however the cases are by now, if the task is
\* still pending, or pending again.
WorkerStarts(w) ==
  /\ work[w] # NoWork
  /\ Execution!Start(work[w].batch)
  /\ ran' = [ran EXCEPT ![work[w].batch] = work[w].read]
  /\ work' = [work EXCEPT ![w] = NoWork]
  /\ UNCHANGED <<cases, analysis, reg, asked, raced>>

WorkerGivesUp(w) ==
  /\ work[w] # NoWork
  /\ tasks[work[w].batch] # "pending"
  /\ work' = [work EXCEPT ![w] = NoWork]
  /\ UNCHANGED <<cases, tasks, ran, analysis, reg, asked, raced>>

\* Results, cancels, time limits and retries.
TaskMoves(batch) ==
  /\ Execution!Succeed(batch) \/ Execution!Fail({batch}) \/ Execution!Retry(batch)
  /\ UNCHANGED <<cases, work, ran, analysis, reg, asked, raced>>

Next ==
  \/ Analyze
  \/ \E r \in Regressors :
       \/ Load(r) \/ Select(r) \/ LookUp(r)
       \/ InsertTask(r) \/ InsertTaskLost(r) \/ ResetTask(r)
       \/ Publish(r) \/ PublishFails(r) \/ Mark(r)
  \/ ReviewMoves
  \/ \E w \in Workers : WorkerStarts(w) \/ WorkerGivesUp(w)
  \/ \E batch \in Batches : TaskMoves(batch) \/ \E w \in Workers : WorkerReads(w, batch)

Spec == Init /\ [][Next]_vars

-----------------------------------------------------------------------------
(* Properties *)

\* The record of a regression explains what ran for it: the task it names
\* exists and ran cases of the snapshot only, at most the recorded number, and
\* a recorded number below the snapshot's tells of cases that were dropped,
\* although cases are edited and deleted between any two steps and tasks are
\* retried later.  Regressions that overlap may leave the task of one with the
\* count of the other (impact_service: regression; mark_regression).
RegressionIsTraceable ==
  LET task == analysis.task
  IN task # NoTask =>
       /\ tasks[task] # "absent"
       /\ ran[task] \subseteq analysis.affected
       /\ ~raced => /\ Cardinality(ran[task]) <= analysis.count
                    /\ analysis.count = Cardinality(task)
=============================================================================
