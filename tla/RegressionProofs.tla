-------------------------- MODULE RegressionProofs --------------------------
(***************************************************************************)
(* RegressionIsTraceable for any cases and any number of threads.          *)
(***************************************************************************)
EXTENDS Regression, FiniteSetTheorems, TLAPS

Statuses == {"absent", "pending", "running", "success", "failed"}

Seen == [task : SUBSET Cases, count : Nat]

Selecting == [pc : {"select"}, seen : Seen]
Working == [pc : {"create", "insert", "reset", "publish", "mark"},
            seen : Seen, batch : Batches]

Types ==
  /\ tasks \in [Batches -> Statuses]
  /\ work \in [Workers -> [batch : SUBSET Cases, read : SUBSET Cases]]
  /\ ran \in [Batches -> SUBSET Cases]
  /\ analysis \in [affected : SUBSET Cases, task : SUBSET Cases, count : Nat]
  /\ reg \in [Regressors -> {Idle} \cup Selecting \cup Working]

\* A worker reads, and a task runs, only cases of the task.
RunsItsOwn ==
  /\ \A w \in Workers : work[w].read \subseteq work[w].batch
  /\ \A b \in Batches : ran[b] \subseteq b

\* The batch of a regression belongs to the snapshot; from a certain point on
\* its task exists.
BatchesAreAffected ==
  \A r \in Regressors :
    reg[r] \in Working =>
      /\ reg[r].batch \subseteq analysis.affected
      /\ reg[r].pc \in {"reset", "publish", "mark"} => tasks[reg[r].batch] # "absent"

\* Nobody regresses before there is an analysis.
AnalysisComesFirst ==
  analysis = NoAnalysis => \A r \in Regressors : reg[r] = Idle

RecordIsTrue ==
  analysis.task # NoTask =>
    /\ tasks[analysis.task] # "absent"
    /\ analysis.task \subseteq analysis.affected
    /\ ~raced => analysis.count = Cardinality(analysis.task)

TraceInv ==
  Types /\ RunsItsOwn /\ BatchesAreAffected /\ AnalysisComesFirst /\ RecordIsTrue

\* The cases that ran are no more than those of the task.
LEMMA TraceInvImplies == TraceInv => RegressionIsTraceable
  <1> SUFFICES ASSUME TraceInv, analysis.task # NoTask
               PROVE  /\ tasks[analysis.task] # "absent"
                      /\ ran[analysis.task] \subseteq analysis.affected
                      /\ ~raced => /\ Cardinality(ran[analysis.task]) <= analysis.count
                                   /\ analysis.count = Cardinality(analysis.task)
    BY DEF RegressionIsTraceable
  <1>1. analysis.task \in Batches
    BY DEF TraceInv, Types, Batches, NoTask
  <1>2. ran[analysis.task] \subseteq analysis.task
    BY <1>1 DEF TraceInv, RunsItsOwn
  <1>3. IsFiniteSet(analysis.task)
    BY <1>1, CasesAssumption, FS_Subset DEF Batches
  <1>4. Cardinality(ran[analysis.task]) <= Cardinality(analysis.task)
    BY <1>2, <1>3, FS_Subset
  <1> QED BY <1>2, <1>4 DEF TraceInv, RecordIsTrue

LEMMA TraceInvInit == Init => TraceInv
  <1> SUFFICES ASSUME Init PROVE TraceInv
    OBVIOUS
  <1>1. Types
    BY DEF Init, Types, Execution!Init, NoAnalysis, NoTask, NoWork, Statuses
  <1>2. RunsItsOwn
    BY DEF Init, RunsItsOwn, NoWork
  <1>3. \A r \in Regressors : reg[r] = Idle /\ Idle \notin Working
    BY DEF Init, Idle, Working
  <1>4. analysis.task = NoTask
    BY DEF Init, NoAnalysis
  <1> QED
    BY <1>1, <1>2, <1>3, <1>4
    DEF TraceInv, BatchesAreAffected, AnalysisComesFirst, RecordIsTrue

\* No task disappears, whichever step its row takes.
LEMMA TasksMove ==
  ASSUME Types, NEW batch \in Batches, NEW to \in Statuses \ {"absent"},
         tasks' = [tasks EXCEPT ![batch] = to]
  PROVE  /\ tasks' \in [Batches -> Statuses]
         /\ tasks'[batch] # "absent"
         /\ \A b \in Batches : tasks[b] # "absent" => tasks'[b] # "absent"
  BY DEF Types

LEMMA TasksFail ==
  ASSUME Types, NEW batch \in Batches, Execution!Fail({batch})
  PROVE  tasks' = [tasks EXCEPT ![batch] = "failed"]
  BY DEF Types, Execution!Fail

\* A regression that takes a step: its own job and the tasks that exist.
LEMMA JobReplaced ==
  ASSUME TraceInv, NEW r \in Regressors,
         NEW job \in {Idle} \cup Selecting \cup Working,
         reg' = [reg EXCEPT ![r] = job],
         analysis' = analysis, raced' = raced, ran' = ran, work' = work,
         analysis # NoAnalysis,
         tasks' \in [Batches -> Statuses],
         \A b \in Batches : tasks[b] # "absent" => tasks'[b] # "absent",
         job \in Working =>
           /\ job.batch \subseteq analysis.affected
           /\ job.pc \in {"reset", "publish", "mark"} => tasks'[job.batch] # "absent"
  PROVE  TraceInv'
  <1>1. Types' /\ RunsItsOwn' /\ AnalysisComesFirst'
    BY DEF TraceInv, Types, RunsItsOwn, AnalysisComesFirst
  <1>2. BatchesAreAffected'
    <2> SUFFICES ASSUME NEW q \in Regressors, reg'[q] \in Working
                 PROVE  /\ reg'[q].batch \subseteq analysis.affected
                        /\ reg'[q].pc \in {"reset", "publish", "mark"}
                             => tasks'[reg'[q].batch] # "absent"
      BY DEF BatchesAreAffected, Working, Seen, Batches
    <2>1. CASE q = r
      BY <2>1 DEF TraceInv, Types
    <2>2. CASE q # r
      <3>1. reg'[q] = reg[q] /\ reg[q].batch \in Batches
        BY <2>2 DEF TraceInv, Types, Working
      <3> QED BY <3>1 DEF TraceInv, BatchesAreAffected
    <2> QED BY <2>1, <2>2
  <1>3. RecordIsTrue'
    <2>1. analysis.task # NoTask => analysis.task \in Batches
      BY DEF TraceInv, Types, Batches, NoTask
    <2> QED BY <2>1 DEF TraceInv, RecordIsTrue
  <1> QED BY <1>1, <1>2, <1>3 DEF TraceInv

\* The steps of others: the rows of tasks move, none disappears.
LEMMA OthersMove ==
  ASSUME TraceInv, reg' = reg, analysis' = analysis, raced' = raced,
         tasks' \in [Batches -> Statuses],
         work' \in [Workers -> [batch : SUBSET Cases, read : SUBSET Cases]],
         ran' \in [Batches -> SUBSET Cases],
         RunsItsOwn',
         \A b \in Batches : tasks[b] # "absent" => tasks'[b] # "absent"
  PROVE  TraceInv'
  <1>1. Types' /\ RunsItsOwn' /\ AnalysisComesFirst'
    BY DEF TraceInv, Types, RunsItsOwn, AnalysisComesFirst
  <1>2. \A r \in Regressors : reg[r] \in Working => reg[r].batch \in Batches
    BY DEF Working
  <1>3. BatchesAreAffected'
    BY <1>2 DEF TraceInv, BatchesAreAffected, Working, Seen, Batches
  <1>4. analysis.task # NoTask => analysis.task \in Batches
    BY DEF TraceInv, Types, Batches, NoTask
  <1>5. RecordIsTrue'
    BY <1>4 DEF TraceInv, RecordIsTrue
  <1> QED BY <1>1, <1>3, <1>5 DEF TraceInv

\* The job of a thread and what its pc tells of it.
LEMMA JobKinds ==
  ASSUME TraceInv, NEW r \in Regressors
  PROVE  /\ Record \in Seen
         /\ reg[r].pc # "idle" => analysis # NoAnalysis
         /\ reg[r].pc = "select" => reg[r] \in Selecting
         /\ reg[r].pc \notin {"idle", "select"} =>
              /\ reg[r] \in Working
              /\ reg[r].batch \in Batches
              /\ reg[r].batch \subseteq analysis.affected
              /\ reg[r].pc \in {"reset", "publish", "mark"}
                   => tasks[reg[r].batch] # "absent"
  <1>1. reg[r] \in {Idle} \cup Selecting \cup Working
    BY DEF TraceInv, Types
  <1>2. reg[r].pc \notin {"idle", "select"} => reg[r] \in Working /\ reg[r].batch \in Batches
    BY <1>1 DEF Idle, Selecting, Working
  <1>3. reg[r].pc = "select" => reg[r] \in Selecting
    BY <1>1 DEF Idle, Working
  <1>4. reg[r].pc # "idle" => analysis # NoAnalysis
    BY DEF TraceInv, AnalysisComesFirst, Idle
  <1>5. Record \in Seen
    BY DEF TraceInv, Types, Record, Seen
  <1> QED BY <1>2, <1>3, <1>4, <1>5 DEF TraceInv, BatchesAreAffected

\* A step that takes the job on to another pc.
LEMMA JobKeepsSeen ==
  ASSUME TraceInv, NEW r \in Regressors, NEW to,
         reg[r].pc \notin {"idle", "select"},
         to \in {"create", "insert", "reset", "publish", "mark"}
  PROVE  LET job == [reg[r] EXCEPT !.pc = to]
         IN job \in Working /\ job.batch = reg[r].batch /\ job.pc = to
  <1>1. reg[r] \in Working
    BY JobKinds
  <1> QED BY <1>1 DEF Working

LEMMA IdleIsIdle == Idle \notin Working
  BY DEF Idle, Working

LEMMA AnalyzeKeeps ==
  ASSUME TraceInv, Analyze
  PROVE  TraceInv'
  <1>1. PICK S \in (SUBSET Active) \ {{}} :
          analysis' = [NoAnalysis EXCEPT !.affected = S]
    BY DEF Analyze
  <1>2. S \subseteq Cases /\ S # {}
    BY <1>1 DEF Active
  <1>3. /\ analysis' = [affected |-> S, task |-> NoTask, count |-> 0]
        /\ analysis' # NoAnalysis
    BY <1>1, <1>2 DEF NoAnalysis
  <1>4. \A r \in Regressors : reg'[r] = Idle
    BY DEF TraceInv, AnalysisComesFirst, Analyze
  <1>5. Types' /\ RunsItsOwn'
    BY <1>2, <1>3 DEF TraceInv, Types, RunsItsOwn, Analyze, NoTask
  <1>6. BatchesAreAffected' /\ AnalysisComesFirst' /\ RecordIsTrue'
    BY <1>3, <1>4, IdleIsIdle
    DEF BatchesAreAffected, AnalysisComesFirst, RecordIsTrue, Working, Seen, Batches
  <1> QED BY <1>5, <1>6 DEF TraceInv

LEMMA LoadKeeps ==
  ASSUME TraceInv, NEW r \in Regressors, Load(r)
  PROVE  TraceInv'
  <1> DEFINE job == [pc |-> "select", seen |-> Record]
  <1>1. job \in Selecting /\ job \notin Working
    BY JobKinds DEF Selecting, Working
  <1>2. reg' = [reg EXCEPT ![r] = job]
    BY DEF Load, Step
  <1>3. tasks' = tasks /\ analysis' = analysis /\ raced' = raced /\ ran' = ran /\ work' = work
    BY DEF Load
  <1>4. tasks' \in [Batches -> Statuses] /\ analysis # NoAnalysis
    BY <1>3 DEF TraceInv, Types, Load
  <1> HIDE DEF job
  <1> QED BY <1>1, <1>2, <1>3, <1>4, JobReplaced

LEMMA SelectKeeps ==
  ASSUME TraceInv, NEW r \in Regressors, Select(r)
  PROVE  TraceInv'
  <1> DEFINE active == analysis.affected \cap Active
             job == [pc |-> "create", seen |-> reg[r].seen, batch |-> active]
  <1>1. reg[r] \in Selecting /\ analysis # NoAnalysis
    BY JobKinds DEF Select, Step
  <1>2. /\ tasks' = tasks /\ analysis' = analysis /\ raced' = raced /\ ran' = ran /\ work' = work
        /\ tasks' \in [Batches -> Statuses]
    BY DEF Select, TraceInv, Types
  <1>3. active \subseteq Cases
    BY DEF Active
  <1>4. active # {} => job \in Working /\ job.batch \subseteq analysis.affected
                      /\ job.pc \notin {"reset", "publish", "mark"}
    BY <1>1, <1>3 DEF Selecting, Working, Batches
  <1>5. \/ active # {} /\ reg' = [reg EXCEPT ![r] = job]
        \/ reg' = [reg EXCEPT ![r] = Idle]
    BY DEF Select, Step
  <1> HIDE DEF job, active
  <1>6. CASE active # {} /\ reg' = [reg EXCEPT ![r] = job]
    BY <1>1, <1>2, <1>4, <1>6, JobReplaced
  <1>7. CASE reg' = [reg EXCEPT ![r] = Idle]
    BY <1>1, <1>2, <1>7, IdleIsIdle, JobReplaced
  <1> QED BY <1>5, <1>6, <1>7

LEMMA LookUpKeeps ==
  ASSUME TraceInv, NEW r \in Regressors, LookUp(r)
  PROVE  TraceInv'
  <1> DEFINE next == CASE tasks[reg[r].batch] = "absent" -> "insert"
                       [] tasks[reg[r].batch] = "failed" -> "reset"
                       [] OTHER -> "mark"
             job == [reg[r] EXCEPT !.pc = next]
  <1>1. reg[r].pc = "create"
    BY DEF LookUp, Step
  <1>2. /\ tasks' = tasks /\ analysis' = analysis /\ raced' = raced /\ ran' = ran /\ work' = work
        /\ tasks' \in [Batches -> Statuses]
    BY DEF LookUp, TraceInv, Types
  <1>3. /\ next \in {"insert", "reset", "mark"}
        /\ next # "insert" => tasks[reg[r].batch] # "absent"
    OBVIOUS
  <1> HIDE DEF next
  <1>4. job \in Working /\ job.batch = reg[r].batch /\ job.pc = next
    BY <1>1, <1>3, JobKeepsSeen
  <1>5. reg' = [reg EXCEPT ![r] = job] \/ reg' = [reg EXCEPT ![r] = Idle]
    BY DEF LookUp, Step, next
  <1> HIDE DEF job
  <1>6. CASE reg' = [reg EXCEPT ![r] = job]
    BY <1>1, <1>2, <1>3, <1>4, <1>6, JobKinds, JobReplaced
  <1>7. CASE reg' = [reg EXCEPT ![r] = Idle]
    BY <1>1, <1>2, <1>7, JobKinds, IdleIsIdle, JobReplaced
  <1> QED BY <1>5, <1>6, <1>7

\* The steps that write the row of a task.
LEMMA TaskWritesKeep ==
  ASSUME TraceInv, NEW r \in Regressors,
         InsertTask(r) \/ ResetTask(r) \/ PublishFails(r)
  PROVE  TraceInv'
  <1> DEFINE batch == reg[r].batch
             job == [reg[r] EXCEPT !.pc = "publish"]
  <1>1. reg[r].pc \in {"insert", "reset", "publish"}
    BY DEF InsertTask, ResetTask, PublishFails, Step
  <1>2. /\ batch \in Batches /\ batch \subseteq analysis.affected
        /\ analysis # NoAnalysis
    BY <1>1, JobKinds
  <1>3. job \in Working /\ job.batch = batch /\ job.pc = "publish"
    BY <1>1, JobKeepsSeen
  <1>4. analysis' = analysis /\ raced' = raced /\ ran' = ran /\ work' = work
    BY DEF InsertTask, ResetTask, PublishFails
  <1>5. \/ /\ tasks' = [tasks EXCEPT ![batch] = "pending"]
           /\ reg' = [reg EXCEPT ![r] = job]
        \/ /\ tasks' = [tasks EXCEPT ![batch] = "failed"]
           /\ reg' = [reg EXCEPT ![r] = Idle]
    BY DEF InsertTask, ResetTask, PublishFails, Step,
           Execution!Create, Execution!Move
  <1>6. /\ tasks' \in [Batches -> Statuses] /\ tasks'[batch] # "absent"
        /\ \A b \in Batches : tasks[b] # "absent" => tasks'[b] # "absent"
    <2> HIDE DEF batch
    <2> QED BY <1>2, <1>5, TasksMove DEF TraceInv, Statuses
  <1> HIDE DEF job, batch
  <1>7. CASE reg' = [reg EXCEPT ![r] = job]
    BY <1>2, <1>3, <1>4, <1>6, <1>7, JobReplaced
  <1>8. CASE reg' = [reg EXCEPT ![r] = Idle]
    BY <1>2, <1>4, <1>6, <1>8, IdleIsIdle, JobReplaced
  <1> QED BY <1>5, <1>7, <1>8

LEMMA InsertTaskLostKeeps ==
  ASSUME TraceInv, NEW r \in Regressors, InsertTaskLost(r)
  PROVE  TraceInv'
  <1> DEFINE job == [reg[r] EXCEPT !.pc = "mark", !.seen = Record]
  <1>1. reg[r].pc = "insert"
    BY DEF InsertTaskLost, Step
  <1>r. Record \in Seen
    BY JobKinds
  <1>2. job \in Working /\ job.batch = reg[r].batch /\ job.pc = "mark"
    <2> DEFINE loaded == Record
    <2> HIDE DEF loaded
    <2>1. [reg[r] EXCEPT !.pc = "mark", !.seen = loaded] \in Working
      BY <1>1, <1>r, JobKinds DEF loaded, Working
    <2>2. reg[r] \in Working
      BY <1>1, JobKinds
    <2> QED BY <2>1, <2>2 DEF loaded, Working
  <1>3. /\ reg' = [reg EXCEPT ![r] = job]
        /\ tasks' = tasks /\ analysis' = analysis /\ raced' = raced /\ ran' = ran /\ work' = work
        /\ tasks' \in [Batches -> Statuses]
        /\ tasks'[reg[r].batch] # "absent"
    BY DEF InsertTaskLost, Step, TraceInv, Types
  <1> HIDE DEF job
  <1> QED BY <1>1, <1>2, <1>3, JobKinds, JobReplaced

LEMMA PublishKeeps ==
  ASSUME TraceInv, NEW r \in Regressors, Publish(r)
  PROVE  TraceInv'
  <1> DEFINE job == [reg[r] EXCEPT !.pc = "mark"]
  <1>1. reg[r].pc = "publish"
    BY DEF Publish, Step
  <1>2. job \in Working /\ job.batch = reg[r].batch /\ job.pc = "mark"
    BY <1>1, JobKeepsSeen
  <1>3. /\ reg' = [reg EXCEPT ![r] = job]
        /\ tasks' = tasks /\ analysis' = analysis /\ raced' = raced /\ ran' = ran /\ work' = work
        /\ tasks' \in [Batches -> Statuses]
    BY DEF Publish, Step, TraceInv, Types
  <1> HIDE DEF job
  <1> QED BY <1>1, <1>2, <1>3, JobKinds, JobReplaced

\* A record written over what its writer has seen is the writer's.
LEMMA MarkKeeps ==
  ASSUME TraceInv, NEW r \in Regressors, Mark(r)
  PROVE  TraceInv'
  <1> DEFINE batch == reg[r].batch
             seen == reg[r].seen
             count == Cardinality(batch)
  <1>1. /\ batch \in Batches /\ batch \subseteq analysis.affected
        /\ tasks[batch] # "absent" /\ analysis # NoAnalysis
    BY JobKinds DEF Mark, Step
  <1>2. count \in Nat
    BY <1>1, CasesAssumption, FS_Subset, FS_CardinalityType DEF Batches
  <1>3. /\ reg' = [reg EXCEPT ![r] = Idle]
        /\ raced' = (Record # seen)
        /\ tasks' = tasks /\ ran' = ran /\ work' = work
    BY DEF Mark, Step
  <1>4. analysis' = [analysis EXCEPT
          !.task = IF batch = seen.task THEN analysis.task ELSE batch,
          !.count = IF count = seen.count THEN analysis.count ELSE count]
    BY DEF Mark, Counted
  <1> HIDE DEF count, batch, seen
  <1>5. /\ analysis' \in [affected : SUBSET Cases, task : SUBSET Cases, count : Nat]
        /\ analysis'.affected = analysis.affected
        /\ analysis'.task \in {analysis.task, batch}
        /\ Record = seen => analysis'.task = batch /\ analysis'.count = count
    <2> DEFINE t == IF batch = seen.task THEN analysis.task ELSE batch
               n == IF count = seen.count THEN analysis.count ELSE count
    <2>1. analysis \in [affected : SUBSET Cases, task : SUBSET Cases, count : Nat]
      BY DEF TraceInv, Types
    <2>2. t \in SUBSET Cases /\ t \in {analysis.task, batch}
      BY <1>1, <2>1 DEF Batches
    <2>3. n \in Nat
      BY <1>2, <2>1
    <2>4. Record = seen => t = batch /\ n = count
      BY DEF Record
    <2>5. analysis' = [analysis EXCEPT !.task = t, !.count = n]
      BY <1>4
    <2> HIDE DEF t, n
    <2> QED BY <2>1, <2>2, <2>3, <2>4, <2>5
  <1>6. Types' /\ RunsItsOwn'
    BY <1>3, <1>5 DEF TraceInv, Types, RunsItsOwn
  <1>7. analysis.affected # {}
    BY <1>1 DEF Batches
  <1>8. AnalysisComesFirst'
    BY <1>5, <1>7 DEF AnalysisComesFirst, NoAnalysis
  <1>9. BatchesAreAffected'
    <2> SUFFICES ASSUME NEW q \in Regressors, reg'[q] \in Working
                 PROVE  /\ reg'[q].batch \subseteq analysis'.affected
                        /\ reg'[q].pc \in {"reset", "publish", "mark"}
                             => tasks'[reg'[q].batch] # "absent"
      BY DEF BatchesAreAffected, Working, Seen, Batches
    <2>1. reg'[q] = reg[q]
      BY <1>3, IdleIsIdle DEF TraceInv, Types
    <2> QED BY <1>3, <1>5, <2>1 DEF TraceInv, BatchesAreAffected
  <1>10. RecordIsTrue'
    <2>1. CASE analysis'.task = batch
      BY <1>1, <1>3, <1>5, <2>1 DEF RecordIsTrue, count
    <2>2. CASE analysis'.task # batch
      BY <1>3, <1>5, <2>2 DEF TraceInv, RecordIsTrue
    <2> QED BY <2>1, <2>2
  <1> QED BY <1>6, <1>8, <1>9, <1>10 DEF TraceInv

\* A worker runs what it has read of the task it starts.
LEMMA WorkerStartsKeeps ==
  ASSUME TraceInv, NEW w \in Workers, WorkerStarts(w)
  PROVE  TraceInv'
  <1> DEFINE batch == work[w].batch
             read == work[w].read
  <1>1. /\ batch \in SUBSET Cases /\ read \subseteq batch
        /\ work \in [Workers -> [batch : SUBSET Cases, read : SUBSET Cases]]
        /\ ran \in [Batches -> SUBSET Cases]
        /\ RunsItsOwn
    BY DEF TraceInv, Types, RunsItsOwn
  <1>2. /\ tasks' = [tasks EXCEPT ![batch] = "running"]
        /\ tasks[batch] = "pending"
        /\ ran' = [ran EXCEPT ![batch] = read]
        /\ work' = [work EXCEPT ![w] = NoWork]
        /\ reg' = reg /\ analysis' = analysis /\ raced' = raced
    BY DEF WorkerStarts, Execution!Start, Execution!Move
  <1>3. NoWork \in [batch : SUBSET Cases, read : SUBSET Cases] /\ NoWork.read \subseteq NoWork.batch
    BY DEF NoWork
  <1> HIDE DEF batch, read
  <1>4. work' \in [Workers -> [batch : SUBSET Cases, read : SUBSET Cases]]
    BY <1>1, <1>2, <1>3
  <1>5. \A q \in Workers : work'[q].read \subseteq work'[q].batch
    BY <1>1, <1>2, <1>3 DEF RunsItsOwn
  <1>6. ran' \in [Batches -> SUBSET Cases] /\ \A b \in Batches : ran'[b] \subseteq b
    BY <1>1, <1>2 DEF RunsItsOwn
  <1>7. /\ tasks' \in [Batches -> Statuses]
        /\ \A b \in Batches : tasks[b] # "absent" => tasks'[b] # "absent"
    BY <1>2 DEF TraceInv, Types, Statuses
  <1> QED BY <1>2, <1>4, <1>5, <1>6, <1>7, OthersMove DEF RunsItsOwn

LEMMA WorkerWaitsKeeps ==
  ASSUME TraceInv, NEW w \in Workers,
         WorkerGivesUp(w) \/ \E batch \in Batches : WorkerReads(w, batch)
  PROVE  TraceInv'
  <1>1. PICK job \in [batch : SUBSET Cases, read : SUBSET Cases] :
          job.read \subseteq job.batch /\ work' = [work EXCEPT ![w] = job]
    <2>1. CASE WorkerGivesUp(w)
      <3>1. NoWork \in [batch : SUBSET Cases, read : SUBSET Cases] /\ NoWork.read \subseteq NoWork.batch
        BY DEF NoWork
      <3> QED BY <2>1, <3>1 DEF WorkerGivesUp
    <2>2. ASSUME NEW batch \in Batches, WorkerReads(w, batch)
          PROVE  \E job \in [batch : SUBSET Cases, read : SUBSET Cases] :
                   job.read \subseteq job.batch /\ work' = [work EXCEPT ![w] = job]
      <3> DEFINE job == [batch |-> batch, read |-> batch \cap Active]
      <3>1. job \in [batch : SUBSET Cases, read : SUBSET Cases] /\ job.read \subseteq job.batch
        BY DEF Batches
      <3>2. work' = [work EXCEPT ![w] = job]
        BY <2>2 DEF WorkerReads
      <3> QED BY <3>1, <3>2
    <2> QED BY <2>1, <2>2
  <1>2. /\ reg' = reg /\ analysis' = analysis /\ raced' = raced /\ ran' = ran /\ tasks' = tasks
    BY DEF WorkerGivesUp, WorkerReads
  <1>3. /\ work \in [Workers -> [batch : SUBSET Cases, read : SUBSET Cases]]
        /\ tasks \in [Batches -> Statuses] /\ ran \in [Batches -> SUBSET Cases] /\ RunsItsOwn
    BY DEF TraceInv, Types
  <1>4. work' \in [Workers -> [batch : SUBSET Cases, read : SUBSET Cases]]
    BY <1>1, <1>3
  <1>5. RunsItsOwn'
    BY <1>1, <1>2, <1>3 DEF RunsItsOwn
  <1> QED BY <1>2, <1>3, <1>4, <1>5, OthersMove

LEMMA TraceInvStep ==
  ASSUME TraceInv, [Next]_vars
  PROVE  TraceInv'
  <1>0. /\ Types /\ tasks \in [Batches -> Statuses] /\ RunsItsOwn
        /\ ran \in [Batches -> SUBSET Cases]
        /\ work \in [Workers -> [batch : SUBSET Cases, read : SUBSET Cases]]
    BY DEF TraceInv, Types
  <1>1. CASE UNCHANGED vars
    BY <1>0, <1>1, OthersMove DEF vars, RunsItsOwn
  <1>2. CASE Analyze
    BY <1>2, AnalyzeKeeps
  <1>3. ASSUME NEW r \in Regressors,
               \/ Load(r) \/ Select(r) \/ LookUp(r)
               \/ InsertTask(r) \/ InsertTaskLost(r) \/ ResetTask(r)
               \/ Publish(r) \/ PublishFails(r) \/ Mark(r)
        PROVE  TraceInv'
    BY <1>3, LoadKeeps, SelectKeeps, LookUpKeeps, TaskWritesKeep,
       InsertTaskLostKeeps, PublishKeeps, MarkKeeps
  <1>4. CASE ReviewMoves
    BY <1>0, <1>4, OthersMove DEF ReviewMoves, RunsItsOwn
  <1>5. ASSUME NEW w \in Workers, WorkerStarts(w) \/ WorkerGivesUp(w)
        PROVE  TraceInv'
    BY <1>5, WorkerStartsKeeps, WorkerWaitsKeeps
  <1>6. ASSUME NEW batch \in Batches, NEW w \in Workers, WorkerReads(w, batch)
        PROVE  TraceInv'
    BY <1>6, WorkerWaitsKeeps
  <1>7. ASSUME NEW batch \in Batches, TaskMoves(batch)
        PROVE  TraceInv'
    <2>1. reg' = reg /\ analysis' = analysis /\ raced' = raced /\ ran' = ran /\ work' = work
      BY <1>7 DEF TaskMoves
    <2>2. PICK to \in Statuses \ {"absent"} : tasks' = [tasks EXCEPT ![batch] = to]
      BY <1>0, <1>7, TasksFail
      DEF TaskMoves, Execution!Succeed, Execution!Retry, Execution!Move, Statuses
    <2>3. /\ tasks' \in [Batches -> Statuses]
          /\ \A b \in Batches : tasks[b] # "absent" => tasks'[b] # "absent"
      BY <1>0, <2>2, TasksMove
    <2> QED BY <1>0, <2>1, <2>3, OthersMove DEF RunsItsOwn
  <1> QED BY <1>1, <1>2, <1>3, <1>4, <1>5, <1>6, <1>7 DEF Next

\* What an analysis records of its last regression is what may run for it,
\* for any cases and any number of regressions at a time.
THEOREM RegressionsAreTraceable == Spec => []RegressionIsTraceable
  <1> QED BY TraceInvInit, TraceInvStep, TraceInvImplies, PTL DEF Spec
=============================================================================
