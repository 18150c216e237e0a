--------------------------- MODULE ExecutionTasks ---------------------------
(***************************************************************************)
(* Life of the execution tasks (table `tasks`): the web handlers that      *)
(* create, retry and cancel a task, the Celery broker, the workers that    *)
(* run pytest for it, and the scan that recovers stale rows.               *)
(*                                                                         *)
(* SQLite gives a handler no snapshot: a SELECT and the UPDATE that relies *)
(* on it are two steps, and any other process may run between them.  One   *)
(* UPDATE ... WHERE with its commit is one step.  A task stands for one    *)
(* run_id, that is for one input (case_ids, timeout_seconds).              *)
(***************************************************************************)
EXTENDS Naturals, Sequences, FiniteSets

CONSTANTS
  Clients,      \* threads of the web process
  Workers,      \* Celery worker processes
  Tasks,        \* run_ids
  MaxRequests,  \* bound: how often a row is set to pending
  MaxFaults,    \* bound: how many faults happen
  EnvKinds      \* what the environment may do in this instance

Faults == {"crash", "webcrash", "loss", "dup", "refused", "lostreply", "kill"}

ASSUME BoundsAssumption == MaxRequests \in Nat /\ MaxFaults \in Nat
ASSUME EnvAssumption == EnvKinds \subseteq Faults \cup {"age", "soft"}

VARIABLES
  row,       \* the table: Tasks -> Row
  requests,  \* history: the i-th time a row became pending, it was requests[i]'s
  queue,     \* execute_cases messages waiting in the broker, by request number
  revoked,   \* messages revoked by control.revoke
  scans,     \* scan_stale_tasks messages waiting in the broker
  web,       \* handler each web thread is in
  wk,        \* task function each worker is in
  spawned,   \* history: the pytest with pid p was started for spawned[p]
  live,      \* pids of the pytest processes alive
  att,       \* history: the request that last made the row pending
  runs,      \* history: how often the current attempt became running
  faults     \* faults so far

vars == <<row, requests, queue, revoked, scans, web, wk, spawned, live,
          att, runs, faults>>

dbVars     == <<row, requests, att, runs>>
brokerVars == <<queue, revoked, scans>>
procVars   == <<spawned, live>>

-----------------------------------------------------------------------------
(* Types *)

Status == {"absent", "pending", "running", "success", "failed"}

\* error_stage; "none" is NULL.
Stage == {"none", "parse", "command", "internal", "subprocess", "timeout",
          "cancelled", "dispatch", "pending_timeout"}

\* pid and mid (celery_task_id) are 0 for NULL.  aged: the time the scan
\* compares has passed, started_at of a running row or updated_at of a
\* pending one.
Row == [status : Status, stage : Stage, pid : Nat, mid : Nat, aged : BOOLEAN]

Absent == [status |-> "absent", stage |-> "none", pid |-> 0, mid |-> 0,
           aged |-> FALSE]

\* A handler holds the columns it loaded (status, stage, pid, mid) until it
\* ends.
WebIdle == [pc |-> "idle"]
WebJob == [pc : {"insert", "reset", "refresh", "dispatch", "refused", "record",
                 "kill", "cancel", "revoke"},
           task : Tasks, req : Nat, status : Status, stage : Stage, pid : Nat,
           mid : Nat]
WebState == {WebIdle} \cup WebJob

WkIdle == [pc |-> "idle"]
WkDown == [pc |-> "down"]
ExecPC == {"guard", "launch", "mark", "run", "fail", "finish", "stop",
           "stopped", "ack"}
\* att: the attempt the worker believes it executes (history).
ExecJob == [pc : ExecPC, req : Nat, task : Tasks, att : Nat, pid : Nat,
            stage : Stage]
\* stale, pids, pending: the lists the first session of the scan leaves.
\* settled, staged: rows whose status, whose error_stage, already had the
\* value to write when the second session loaded them.
ScanJob == [pc : {"scanKill", "scanGet", "scanWrite"},
            stale : SUBSET Tasks, pids : SUBSET Nat, pending : SUBSET Tasks,
            settled : SUBSET Tasks, staged : SUBSET Tasks]
WkState == {WkIdle, WkDown} \cup ExecJob \cup ScanJob

Executing(w) == wk[w].pc \in ExecPC
Scanning(w)  == wk[w].pc \in {"scanKill", "scanGet", "scanWrite"}

TypeOK ==
  /\ row \in [Tasks -> Row]
  /\ requests \in Seq(Tasks)
  /\ queue \subseteq 1..Len(requests)
  /\ revoked \subseteq 1..Len(requests)
  /\ scans \in Nat
  /\ web \in [Clients -> WebState]
  /\ wk \in [Workers -> WkState]
  /\ spawned \in Seq(Tasks)
  /\ live \subseteq 1..Len(spawned)
  /\ att \in [Tasks -> 0..Len(requests)]
  /\ runs \in [Tasks -> Nat]
  /\ faults \in 0..MaxFaults

\* A fresh deployment: no rows, and the scan of the first start is over.
Init ==
  /\ row = [t \in Tasks |-> Absent]
  /\ requests = <<>>
  /\ queue = {}
  /\ revoked = {}
  /\ scans = 0
  /\ web = [c \in Clients |-> WebIdle]
  /\ wk = [w \in Workers |-> WkIdle]
  /\ spawned = <<>>
  /\ live = {}
  /\ att = [t \in Tasks |-> 0]
  /\ runs = [t \in Tasks |-> 0]
  /\ faults = 0

-----------------------------------------------------------------------------
(* Helpers *)

Fault(kind) ==
  /\ kind \in EnvKinds
  /\ faults < MaxFaults
  /\ faults' = faults + 1

\* kill_process_tree: best effort, its result is only logged.
KillTrees(pids) ==
  \/ live' = live \ pids /\ UNCHANGED faults
  \/ pids \cap live # {} /\ Fault("kill") /\ live' = live

FailedRow(r, stage) ==
  [r EXCEPT !.status = "failed", !.stage = stage, !.aged = FALSE]
RecordedRow(r, m) ==
  [r EXCEPT !.mid = m, !.aged = IF r.status = "running" THEN r.aged ELSE FALSE]

WebGoto(c, pc) == web' = [web EXCEPT ![c] = [@ EXCEPT !.pc = pc]]
WebDone(c)     == web' = [web EXCEPT ![c] = WebIdle]
WkGoto(w, pc)  == wk' = [wk EXCEPT ![w] = [@ EXCEPT !.pc = pc]]
\* The outcome of the job is decided: only the message is left to acknowledge.
WkReturn(w) ==
  wk' = [wk EXCEPT ![w] =
           [pc |-> "ack", req |-> @.req, task |-> @.task, att |-> 0, pid |-> 0,
            stage |-> "none"]]
WkFail(w, stage) ==
  wk' = [wk EXCEPT ![w] = [@ EXCEPT !.pc = "fail", !.stage = stage]]

\* The handler goes on with the columns of the row it just loaded; n is the
\* request it has made pending, 0 before.
WebLoad(c, t, n, pc) ==
  web' = [web EXCEPT ![c] =
            [pc |-> pc, task |-> t, req |-> n, status |-> row[t].status,
             stage |-> row[t].stage, pid |-> row[t].pid, mid |-> row[t].mid]]

\* A commit of the ORM writes a column if its new value differs from the one
\* loaded, whatever is stored by then.
Flushed(new, loaded, stored) == IF new = loaded THEN stored ELSE new

\* The bound on requests counts the handlers about to use one.
MayRequest ==
  Len(requests) + Cardinality({c \in Clients : web[c].pc \in {"insert", "reset"}})
    < MaxRequests

-----------------------------------------------------------------------------
(* POST /tasks, POST /tasks/{id}/retry: TaskService, dispatcher *)

\* create_execution_task looks the run_id up: a failed task is reset, a new
\* one inserted.  A pending, running or successful one is returned as it is.
CreateLookup(c, t) ==
  /\ web[c].pc = "idle"
  /\ MayRequest
  /\ \/ row[t].status = "absent" /\ WebLoad(c, t, 0, "insert")
     \/ row[t].status = "failed" /\ WebLoad(c, t, 0, "reset")
  /\ UNCHANGED <<dbVars, brokerVars, wk, procVars, faults>>

\* Variant: the check that the row is failed is forgotten.
RetryAny(c, t) ==
  /\ web[c].pc = "idle"
  /\ MayRequest
  /\ row[t].status # "absent"
  /\ WebLoad(c, t, 0, "reset")
  /\ UNCHANGED <<dbVars, brokerVars, wk, procVars, faults>>

\* retry_task: only a failed row, otherwise 409.
RetryLookup(c, t) ==
  /\ web[c].pc = "idle"
  /\ MayRequest
  /\ row[t].status = "failed"
  /\ WebLoad(c, t, 0, "reset")
  /\ UNCHANGED <<dbVars, brokerVars, wk, procVars, faults>>

\* The row r, pending from now on, is attempt Len(requests) + 1 of its task.
\* The handler holds what it has just written.
MakePending(c, r, pc) ==
  LET t == web[c].task
      n == Len(requests) + 1
  IN  /\ row' = [row EXCEPT ![t] = r]
      /\ requests' = Append(requests, t)
      /\ att' = [att EXCEPT ![t] = n]
      /\ runs' = [runs EXCEPT ![t] = 0]
      /\ web' = [web EXCEPT ![c] =
                   [pc |-> pc, task |-> t, req |-> n, status |-> "pending",
                    stage |-> "none", pid |-> 0, mid |-> 0]]

\* BaseRepository.add: INSERT and commit ...
Insert(c) ==
  /\ web[c].pc = "insert"
  /\ row[web[c].task].status = "absent"
  /\ MakePending(c, [Absent EXCEPT !.status = "pending"], "refresh")
  /\ UNCHANGED <<brokerVars, wk, procVars, faults>>

\* ... and a SELECT that loads the row again, whatever it is by then.
Refresh(c) ==
  /\ web[c].pc = "refresh"
  /\ WebLoad(c, web[c].task, web[c].req, "dispatch")
  /\ UNCHANGED <<dbVars, brokerVars, wk, procVars, faults>>

\* UNIQUE(run_id): the row of the request that won is returned.
InsertLost(c) ==
  /\ web[c].pc = "insert"
  /\ row[web[c].task].status # "absent"
  /\ WebDone(c)
  /\ UNCHANGED <<dbVars, brokerVars, wk, procVars, faults>>

\* Variant: error_stage is not cleared.
ResetRowKeepsStage(r, loaded) ==
  [r EXCEPT !.status = "pending", !.aged = FALSE]

\* _reset_and_dispatch: UPDATE ... WHERE id = ?, with no condition on the
\* status, which was failed when it was loaded.
ResetRow(r, loaded) ==
  [status |-> "pending", aged |-> FALSE,
   stage |-> Flushed("none", loaded.stage, r.stage),
   pid |-> Flushed(0, loaded.pid, r.pid),
   mid |-> Flushed(0, loaded.mid, r.mid)]

Reset(c) ==
  /\ web[c].pc = "reset"
  /\ MakePending(c, ResetRow(row[web[c].task], web[c]), "dispatch")
  /\ UNCHANGED <<brokerVars, wk, procVars, faults>>

\* dispatch_or_fail: apply_async publishes the message.
Publish(c) ==
  /\ web[c].pc = "dispatch"
  /\ queue' = queue \cup {web[c].req}
  /\ WebGoto(c, "record")
  /\ UNCHANGED <<dbVars, revoked, scans, wk, procVars, faults>>

\* apply_async raises: nothing was published, or only the reply was lost.
PublishRaises(c) ==
  /\ web[c].pc = "dispatch"
  /\ \/ Fault("refused") /\ queue' = queue
     \/ Fault("lostreply") /\ queue' = queue \cup {web[c].req}
  /\ WebGoto(c, "refused")
  /\ UNCHANGED <<dbVars, revoked, scans, wk, procVars>>

\* Variant: the exception is only logged.
FailDispatchIgnored(c) ==
  /\ web[c].pc = "refused"
  /\ WebDone(c)
  /\ UNCHANGED <<dbVars, brokerVars, wk, procVars, faults>>

\* ... and the row is failed(dispatch), with no condition on its status: where
\* the handler did not load failed, or not dispatch, the column is written.
RefusedRow(r, loaded) ==
  LET status == Flushed("failed", loaded.status, r.status)
  IN  [r EXCEPT !.status = status,
                !.stage = Flushed("dispatch", loaded.stage, @),
                !.aged = IF status = "running" THEN @ ELSE FALSE]

FailDispatch(c) ==
  /\ web[c].pc = "refused"
  /\ row' = [row EXCEPT ![web[c].task] = RefusedRow(@, web[c])]
  /\ WebDone(c)
  /\ UNCHANGED <<requests, att, runs, brokerVars, wk, procVars, faults>>

\* celery_task_id is stored after the message went out; the write moves
\* updated_at, which is the clock of a pending row only.
RecordMessage(c) ==
  /\ web[c].pc = "record"
  /\ row' = [row EXCEPT ![web[c].task] = RecordedRow(@, web[c].req)]
  /\ WebDone(c)
  /\ UNCHANGED <<requests, att, runs, brokerVars, wk, procVars, faults>>

-----------------------------------------------------------------------------
(* POST /tasks/{id}/cancel: TaskService.cancel_task *)

CancelLookup(c, t) ==
  /\ web[c].pc = "idle"
  /\ row[t].status \in {"pending", "running"}
  /\ WebLoad(c, t, 0, IF row[t].status = "running" /\ row[t].pid # 0
                        THEN "kill" ELSE "cancel")
  /\ UNCHANGED <<dbVars, brokerVars, wk, procVars, faults>>

\* A running task is killed before its row is touched.
CancelKill(c) ==
  /\ web[c].pc = "kill"
  /\ KillTrees({web[c].pid})
  /\ WebGoto(c, "cancel")
  /\ UNCHANGED <<dbVars, brokerVars, wk, spawned>>

\* UPDATE ... WHERE status = <the status loaded>.  Only the message of a
\* pending task is revoked afterwards.
CancelWrite(c) ==
  /\ web[c].pc = "cancel"
  /\ row[web[c].task].status = web[c].status
  /\ row' = [row EXCEPT ![web[c].task] = FailedRow(@, "cancelled")]
  /\ IF web[c].status = "pending" THEN WebGoto(c, "revoke") ELSE WebDone(c)
  /\ UNCHANGED <<requests, att, runs, brokerVars, wk, procVars, faults>>

\* rowcount = 0: 409, nothing written.
CancelRefused(c) ==
  /\ web[c].pc = "cancel"
  /\ row[web[c].task].status # web[c].status
  /\ WebDone(c)
  /\ UNCHANGED <<dbVars, brokerVars, wk, procVars, faults>>

\* Variant: a NULL celery_task_id is revoked too.
CancelRevokeNull(c) ==
  /\ web[c].pc = "revoke"
  /\ revoked' = revoked \cup {web[c].mid}
  /\ WebDone(c)
  /\ UNCHANGED <<dbVars, queue, scans, wk, procVars, faults>>

\* revoke_task with the celery_task_id loaded at first; NULL is ignored.
CancelRevoke(c) ==
  /\ web[c].pc = "revoke"
  /\ revoked' = revoked \cup ({web[c].mid} \ {0})
  /\ WebDone(c)
  /\ UNCHANGED <<dbVars, queue, scans, wk, procVars, faults>>

-----------------------------------------------------------------------------
(* execute_cases_task: ExecutionService, run_cmd *)

Receive(w, m) ==
  /\ wk[w].pc = "idle"
  /\ m \in queue
  /\ queue' = queue \ {m}
  /\ wk' = [wk EXCEPT ![w] =
              [pc |-> "guard", req |-> m, task |-> requests[m],
               att |-> 0, pid |-> 0, stage |-> "none"]]
  /\ UNCHANGED <<dbVars, revoked, scans, web, procVars, faults>>

\* A worker that heard the revocation drops the message; one that missed the
\* broadcast, or was restarted since, runs it as any other.
Discard(w, m) ==
  /\ wk[w].pc = "idle"
  /\ m \in queue \cap revoked
  /\ queue' = queue \ {m}
  /\ UNCHANGED <<dbVars, revoked, scans, web, wk, procVars, faults>>

\* _execute_cases reads the row and goes on only if it is pending.
Accept(w) ==
  /\ wk[w].pc = "guard"
  /\ row[wk[w].task].status = "pending"
  /\ wk' = [wk EXCEPT ![w] =
              [@ EXCEPT !.pc = "launch", !.att = att[wk[w].task]]]
  /\ UNCHANGED <<dbVars, brokerVars, web, procVars, faults>>

Skip(w) ==
  /\ wk[w].pc = "guard"
  /\ row[wk[w].task].status # "pending"
  /\ WkReturn(w)
  /\ UNCHANGED <<dbVars, brokerVars, web, procVars, faults>>

\* No active case left, the whitelist refuses the command, or anything raises
\* while the workspace is written and pytest started.
LaunchFails(w) ==
  /\ wk[w].pc = "launch"
  /\ \E stage \in {"parse", "command", "internal"} : WkFail(w, stage)
  /\ UNCHANGED <<dbVars, brokerVars, web, procVars, faults>>

\* run_cmd: Popen, before on_start has told the database.
Launch(w) ==
  /\ wk[w].pc = "launch"
  /\ spawned' = Append(spawned, wk[w].task)
  /\ live' = live \cup {Len(spawned')}
  /\ wk' = [wk EXCEPT ![w] =
              [@ EXCEPT !.pc = "mark", !.pid = Len(spawned')]]
  /\ UNCHANGED <<dbVars, brokerVars, web, faults>>

\* Variant: the UPDATE has no condition on the status.
MarkAlways(w) ==
  LET t == wk[w].task IN
  /\ wk[w].pc = "mark"
  /\ row' = [row EXCEPT ![t] = [@ EXCEPT !.status = "running", !.stage = "none",
                                         !.pid = wk[w].pid, !.aged = FALSE]]
  /\ runs' = [runs EXCEPT ![t] = @ + 1]
  /\ wk' = [wk EXCEPT ![w] = [@ EXCEPT !.pc = "run", !.att = att[t]]]
  /\ UNCHANGED <<requests, att, brokerVars, web, procVars, faults>>

\* Variant: the UPDATE has no condition on the id.
MarkEveryPending(w) ==
  LET pending == {t \in Tasks : row[t].status = "pending"} IN
  /\ wk[w].pc = "mark"
  /\ wk[w].task \in pending
  /\ row' = [t \in Tasks |->
               IF t \in pending
                 THEN [row[t] EXCEPT !.status = "running", !.pid = wk[w].pid,
                                     !.aged = FALSE]
                 ELSE row[t]]
  /\ runs' = [t \in Tasks |-> IF t \in pending THEN runs[t] + 1 ELSE runs[t]]
  /\ wk' = [wk EXCEPT ![w] = [@ EXCEPT !.pc = "run", !.att = att[wk[w].task]]]
  /\ UNCHANGED <<requests, att, brokerVars, web, procVars, faults>>

\* on_start = _mark_running: UPDATE ... WHERE status = 'pending'.
MarkRunning(w) ==
  LET t == wk[w].task IN
  /\ wk[w].pc = "mark"
  /\ row[t].status = "pending"
  /\ row' = [row EXCEPT ![t] = [@ EXCEPT !.status = "running",
                                         !.pid = wk[w].pid, !.aged = FALSE]]
  /\ runs' = [runs EXCEPT ![t] = @ + 1]
  /\ wk' = [wk EXCEPT ![w] = [@ EXCEPT !.pc = "run", !.att = att[t]]]
  /\ UNCHANGED <<requests, att, brokerVars, web, procVars, faults>>

\* Variant: on_start raises and the child is left running.
MarkRefusedLeaks(w) ==
  /\ wk[w].pc = "mark"
  /\ row[wk[w].task].status # "pending"
  /\ WkReturn(w)
  /\ UNCHANGED <<dbVars, brokerVars, web, procVars, faults>>

\* rowcount = 0: TASK_CANCELLED.  run_cmd kills and reaps its own child, and
\* nothing is written.
MarkRefused(w) ==
  /\ wk[w].pc = "mark"
  /\ row[wk[w].task].status # "pending"
  /\ live' = live \ {wk[w].pid}
  /\ WkReturn(w)
  /\ UNCHANGED <<dbVars, brokerVars, web, spawned, faults>>

\* pytest ends by itself: its report is usable, or its exit code is not 0 or
\* 1 (subprocess), or the report cannot be parsed (parse).
RunEnds(w) ==
  /\ wk[w].pc = "run"
  /\ wk[w].pid \in live
  /\ live' = live \ {wk[w].pid}
  /\ \/ WkGoto(w, "finish")
     \/ \E stage \in {"subprocess", "parse"} : WkFail(w, stage)
  /\ UNCHANGED <<dbVars, brokerVars, web, spawned, faults>>

\* Somebody killed it: exit code -9.
RunKilled(w) ==
  /\ wk[w].pc = "run"
  /\ wk[w].pid \notin live
  /\ WkFail(w, "subprocess")
  /\ UNCHANGED <<dbVars, brokerVars, web, procVars, faults>>

\* communicate(timeout) expires: run_cmd kills and reaps its child.
RunTimesOut(w) ==
  /\ wk[w].pc = "run"
  /\ wk[w].pid \in live
  /\ live' = live \ {wk[w].pid}
  /\ WkFail(w, "timeout")
  /\ UNCHANGED <<dbVars, brokerVars, web, spawned, faults>>

\* Variants: no condition; only a running row.
FailAlways(t, stage) == row' = [row EXCEPT ![t] = FailedRow(@, stage)]

FailIfRunning(t, stage) ==
  IF row[t].status = "running"
    THEN row' = [row EXCEPT ![t] = FailedRow(@, stage)]
    ELSE row' = row

\* _fail: UPDATE ... WHERE status IN ('pending', 'running').
FailIfOpen(t, stage) ==
  IF row[t].status \in {"pending", "running"}
    THEN row' = [row EXCEPT ![t] = FailedRow(@, stage)]
    ELSE row' = row

FailWrite(w) ==
  /\ wk[w].pc = "fail"
  /\ FailIfOpen(wk[w].task, wk[w].stage)
  /\ WkReturn(w)
  /\ UNCHANGED <<requests, att, runs, brokerVars, web, procVars, faults>>

\* Variant: the condition of _fail.
SuccessIfOpen(t) ==
  IF row[t].status \in {"pending", "running"}
    THEN row' = [row EXCEPT ![t] = [@ EXCEPT !.status = "success",
                                             !.aged = FALSE]]
    ELSE row' = row

\* _finish_success: UPDATE ... WHERE status = 'running'.
SuccessIfRunning(t) ==
  IF row[t].status = "running"
    THEN row' = [row EXCEPT ![t] = [@ EXCEPT !.status = "success",
                                             !.aged = FALSE]]
    ELSE row' = row

FinishWrite(w) ==
  /\ wk[w].pc = "finish"
  /\ SuccessIfRunning(wk[w].task)
  /\ WkReturn(w)
  /\ UNCHANGED <<requests, att, runs, brokerVars, web, procVars, faults>>

\* SoftTimeLimitExceeded, raised wherever the task function is (a pool that
\* enforces time limits).  Inside on_start, run_cmd kills its child first.
SoftTimeout(w) ==
  /\ "soft" \in EnvKinds
  /\ wk[w].pc \in {"launch", "mark", "run", "fail", "finish"}
  /\ live' = IF wk[w].pc = "mark" THEN live \ {wk[w].pid} ELSE live
  /\ WkGoto(w, "stop")
  /\ UNCHANGED <<dbVars, brokerVars, web, spawned, faults>>

\* force_fail_timeout: kills the pid of the row, then the same UPDATE as _fail.
StopKill(w) ==
  /\ wk[w].pc = "stop"
  /\ KillTrees({row[wk[w].task].pid} \ {0})
  /\ WkGoto(w, "stopped")
  /\ UNCHANGED <<dbVars, brokerVars, web, spawned>>

StopWrite(w) ==
  /\ wk[w].pc = "stopped"
  /\ FailIfOpen(wk[w].task, "timeout")
  /\ WkReturn(w)
  /\ UNCHANGED <<requests, att, runs, brokerVars, web, procVars, faults>>

\* acks_late: the message is acknowledged when the task function returns.
Ack(w) ==
  /\ wk[w].pc = "ack"
  /\ wk' = [wk EXCEPT ![w] = WkIdle]
  /\ UNCHANGED <<dbVars, brokerVars, web, procVars, faults>>

-----------------------------------------------------------------------------
(* scan_stale_tasks, sent by every worker that gets ready *)

Stale(status) == {t \in Tasks : row[t].status = status /\ row[t].aged}

\* First session: list the stale rows; nothing stale ends the scan.
ScanRead(w) ==
  /\ wk[w].pc = "idle"
  /\ scans > 0
  /\ scans' = scans - 1
  /\ IF Stale("running") \cup Stale("pending") = {}
       THEN wk' = wk
       ELSE wk' = [wk EXCEPT ![w] =
                     [pc |-> "scanKill",
                      stale |-> Stale("running"),
                      pids |-> {row[t].pid : t \in Stale("running")} \ {0},
                      pending |-> Stale("pending"),
                      settled |-> {}, staged |-> {}]]
  /\ UNCHANGED <<dbVars, queue, revoked, web, procVars, faults>>

\* Variant: the pids are gone with the first session.
ScanKillsNothing(w) ==
  /\ wk[w].pc = "scanKill"
  /\ WkGoto(w, "scanGet")
  /\ UNCHANGED <<dbVars, brokerVars, web, procVars, faults>>

\* Between the sessions: kill the process trees listed.
ScanKill(w) ==
  /\ wk[w].pc = "scanKill"
  /\ KillTrees(wk[w].pids)
  /\ WkGoto(w, "scanGet")
  /\ UNCHANGED <<dbVars, brokerVars, web, spawned>>

ScanStage(w, t) == IF t \in wk[w].stale THEN "timeout" ELSE "pending_timeout"

\* Second session: load the rows listed, whatever they are by now, and revoke
\* the messages of those that were pending.
ScanGet(w) ==
  LET listed == wk[w].stale \cup wk[w].pending IN
  /\ wk[w].pc = "scanGet"
  /\ revoked' = revoked \cup ({row[t].mid : t \in wk[w].pending} \ {0})
  /\ wk' = [wk EXCEPT ![w] =
              [@ EXCEPT !.pc = "scanWrite",
                 !.settled = {t \in listed : row[t].status = "failed"},
                 !.staged = {t \in listed : row[t].stage = ScanStage(w, t)}]]
  /\ UNCHANGED <<dbVars, queue, scans, web, procVars, faults>>

\* ... and fail them: the ORM writes the columns that differ from those just
\* loaded, with no condition on the row.
ScannedRow(w, t) ==
  LET status == IF t \in wk[w].settled THEN row[t].status ELSE "failed"
  IN  [row[t] EXCEPT !.status = status,
                     !.stage = IF t \in wk[w].staged THEN @ ELSE ScanStage(w, t),
                     !.aged = IF status = "running" THEN @ ELSE FALSE]

ScanWrite(w) ==
  /\ wk[w].pc = "scanWrite"
  /\ row' = [t \in Tasks |-> IF t \in wk[w].stale \cup wk[w].pending
                               THEN ScannedRow(w, t) ELSE row[t]]
  /\ wk' = [wk EXCEPT ![w] = WkIdle]
  /\ UNCHANGED <<requests, att, runs, brokerVars, web, procVars, faults>>

-----------------------------------------------------------------------------
(* Environment *)

\* The worker process dies; its message is delivered again, its pytest, which
\* has a session of its own, lives on.
Crash(w) ==
  /\ wk[w].pc # "down"
  /\ Fault("crash")
  /\ queue' = IF Executing(w) THEN queue \cup {wk[w].req} ELSE queue
  /\ scans' = IF Scanning(w) THEN scans + 1 ELSE scans
  /\ wk' = [wk EXCEPT ![w] = WkDown]
  /\ UNCHANGED <<dbVars, revoked, web, procVars>>

\* worker_ready sends scan_stale_tasks.
Boot(w) ==
  /\ wk[w].pc = "down"
  /\ scans' = scans + 1
  /\ wk' = [wk EXCEPT ![w] = WkIdle]
  /\ UNCHANGED <<dbVars, queue, revoked, web, procVars, faults>>

WebCrash(c) ==
  /\ web[c].pc # "idle"
  /\ Fault("webcrash")
  /\ WebDone(c)
  /\ UNCHANGED <<dbVars, brokerVars, wk, procVars>>

\* At-least-once delivery: a message in hand is delivered again.
Redeliver(w) ==
  /\ Executing(w)
  /\ Fault("dup")
  /\ queue' = queue \cup {wk[w].req}
  /\ UNCHANGED <<dbVars, revoked, scans, web, wk, procVars>>

Lose(m) ==
  /\ m \in queue
  /\ Fault("loss")
  /\ queue' = queue \ {m}
  /\ UNCHANGED <<dbVars, revoked, scans, web, wk, procVars>>

\* Time passes: the row is older than its timeout.
Age(t) ==
  /\ "age" \in EnvKinds
  /\ row[t].status \in {"pending", "running"}
  /\ ~row[t].aged
  /\ row' = [row EXCEPT ![t] = [@ EXCEPT !.aged = TRUE]]
  /\ UNCHANGED <<requests, att, runs, brokerVars, web, wk, procVars, faults>>

\* A pytest whose worker is gone ends by itself.
OrphanExit(p) ==
  /\ p \in live
  /\ \A w \in Workers : Executing(w) => wk[w].pid # p
  /\ live' = live \ {p}
  /\ UNCHANGED <<dbVars, brokerVars, web, wk, spawned, faults>>

-----------------------------------------------------------------------------
(* Specification *)

Request(c) ==
  \E t \in Tasks : CreateLookup(c, t) \/ RetryLookup(c, t) \/ CancelLookup(c, t)

WebStep(c) ==
  \/ Insert(c) \/ Refresh(c) \/ InsertLost(c) \/ Reset(c)
  \/ Publish(c) \/ PublishRaises(c) \/ FailDispatch(c) \/ RecordMessage(c)
  \/ CancelKill(c) \/ CancelWrite(c) \/ CancelRefused(c) \/ CancelRevoke(c)

ExecStep(w) ==
  \/ \E m \in queue : Receive(w, m) \/ Discard(w, m)
  \/ Accept(w) \/ Skip(w) \/ LaunchFails(w) \/ Launch(w)
  \/ MarkRunning(w) \/ MarkRefused(w)
  \/ RunEnds(w) \/ RunKilled(w) \/ RunTimesOut(w)
  \/ FailWrite(w) \/ FinishWrite(w)
  \/ StopKill(w) \/ StopWrite(w) \/ Ack(w)

ScanStep(w) == ScanRead(w) \/ ScanKill(w) \/ ScanGet(w) \/ ScanWrite(w)

Environment ==
  \/ \E w \in Workers : Crash(w) \/ Redeliver(w) \/ SoftTimeout(w)
  \/ \E c \in Clients : WebCrash(c)
  \/ \E m \in queue : Lose(m)
  \/ \E t \in Tasks : Age(t)
  \/ \E p \in live : OrphanExit(p)

Next ==
  \/ \E c \in Clients : Request(c) \/ WebStep(c)
  \/ \E w \in Workers : ExecStep(w) \/ ScanStep(w) \/ Boot(w)
  \/ Environment

Spec == Init /\ [][Next]_vars

\* A handler that started goes on, a worker takes the messages there are and
\* goes on, a dead worker is restarted and time passes.  Nobody has to send a
\* request, and no fault has to happen.
Fairness ==
  /\ \A c \in Clients : WF_vars(WebStep(c))
  /\ \A w \in Workers : /\ WF_vars(ExecStep(w))
                        /\ WF_vars(ScanStep(w))
                        /\ WF_vars(Boot(w))
  /\ \A t \in Tasks : WF_vars(Age(t))

FairSpec == Spec /\ Fairness

-----------------------------------------------------------------------------
(* Properties *)

Open(t)   == row[t].status \in {"pending", "running"}
Closed(t) == row[t].status \in {"success", "failed"}

\* A running row names a pytest started for that very task, so that cancel,
\* scan_stale_tasks and force_fail_timeout, which kill the pid of the row, have
\* something to kill and never kill the pytest of another task.
RunningRowNamesItsPytest ==
  \A t \in Tasks :
    row[t].status = "running" =>
      row[t].pid \in 1..Len(spawned) /\ spawned[row[t].pid] = t

\* While the attempt a worker runs is the current one of a running row, the
\* pid in the row is that worker's pytest, whatever duplicate deliveries,
\* late resets and other workers did to the row meanwhile.
KillReachesTheRunner ==
  \A w \in Workers :
    LET t == wk[w].task IN
    wk[w].pc = "run" /\ row[t].status = "running" /\ wk[w].att = att[t]
      => row[t].pid = wk[w].pid

\* However often a message is delivered, and to however many workers, each time
\* a row is set to pending leads to at most one move to running: the UPDATE ...
\* WHERE status = 'pending' of _mark_running.
OneRunPerAttempt == \A t \in Tasks : runs[t] <= 1

\* A request that will publish a message for t, or fail the row of t.
Dispatching(c, t) ==
  /\ web[c].pc \in {"refresh", "dispatch", "refused"}
  /\ web[c].task = t /\ web[c].status # "failed"

\* dispatch_or_fail leaves no orphan: a pending row always has a request that
\* is still dispatching, a message nobody revoked, or a worker that has taken
\* its message and will find it pending.
PendingHasMessage ==
  \A t \in Tasks : row[t].status = "pending" =>
    \/ \E c \in Clients : Dispatching(c, t)
    \/ \E m \in queue \ revoked : requests[m] = t
    \/ \E w \in Workers :
         /\ wk[w].pc \in {"guard", "launch", "mark", "fail", "stop", "stopped"}
         /\ wk[w].task = t

\* The n-th of the requests rs is the first of t: it created the row.
Creates(rs, n, t) ==
  /\ n \in 1..Len(rs) /\ rs[n] = t
  /\ \A m \in 1..(n - 1) : rs[m] # t

\* A failed row has an error_stage, and only a failed row has one, although
\* status and error_stage are written by seven handlers that do not know of
\* each other.  The one exception: the request that created the row was
\* overtaken by a cancel and a retry, and its refused publish has marked the
\* attempt of the retry (base.py:57, dispatcher.py:89).
FailureIsExplained ==
  \A t \in Tasks :
    /\ row[t].status = "failed" => row[t].stage # "none"
    /\ row[t].stage # "none" =>
         \/ row[t].status = "failed"
         \/ row[t].stage = "dispatch" /\ ~Creates(requests, att[t], t)

\* A cancelled attempt stays failed(cancelled) until a retry starts another:
\* neither the end of its pytest, a failure, a timeout nor a duplicate of its
\* message rewrites it.
CancelSticks ==
  [][\A t \in Tasks :
       row[t].status = "failed" /\ row[t].stage = "cancelled"
         => \/ row'[t].status = "failed" /\ row'[t].stage = "cancelled"
            \/ att'[t] # att[t]]_vars

\* A row becomes successful only through the worker that ran its current
\* attempt: a result that comes late is dropped.
SuccessIsItsOwn ==
  [][\A t \in Tasks :
       row[t].status # "success" /\ row'[t].status = "success"
         => \E w \in Workers : /\ wk[w].pc = "finish"
                               /\ wk[w].task = t
                               /\ wk[w].att = att[t]]_vars

\* No two pytest processes of one task are alive at once; they would write to
\* the same workspace.
OnePytestPerTask ==
  \A p, q \in live : spawned[p] = spawned[q] => p = q

RowStatus == [t \in Tasks |-> row[t].status]

Lifecycle == INSTANCE TaskLifecycle WITH status <- RowStatus

\* The rows move as the state diagram says: with one request at a time, no
\* handler resets or fails a row on the strength of a stale read.
RowsFollowTheDiagram == Lifecycle!Spec

\* Every attempt ends: a pending or running row becomes successful or failed.
EveryAttemptEnds == \A t \in Tasks : Open(t) ~> Closed(t)

\* A running row that is too old when a scan is due ends, and its pytest too,
\* even if the worker that ran it is gone.
AgedRunIsRecovered ==
  \A t \in Tasks : \A p \in 1..(MaxRequests + MaxFaults) :
    (row[t].status = "running" /\ row[t].pid = p /\ row[t].aged /\ scans > 0)
      ~> (p \notin live /\ ~(row[t].status = "running" /\ row[t].pid = p))

-----------------------------------------------------------------------------
(* What documents and comments of the repository say and the code does not *)

\* task_service.py:64: dispatching a task again is safe, so a run of an earlier
\* attempt does not end the attempt that came after it.
RunEndsItsOwnAttempt ==
  [][\A w \in Workers :
       wk[w].pc \in {"fail", "finish", "stopped"} /\ wk'[w] # wk[w]
         => \/ row'[wk[w].task] = row[wk[w].task]
            \/ wk[w].att = att[wk[w].task]]_vars
=============================================================================
