--------------------------- MODULE GenerationTasks ---------------------------
(***************************************************************************)
(* Life of one generation task (a row of `generation_tasks`): the request  *)
(* that creates or repeats it, the worker that drafts cases operation by   *)
(* operation, the soft time limit, and the scan that fails a stale row.    *)
(*                                                                         *)
(* Other than for execution tasks, every write goes through the ORM: the   *)
(* row is loaded, columns are assigned, and the commit updates WHERE id =  *)
(* ? the columns that differ from those loaded.  Another process may write *)
(* between the load and the commit.  Messages carry the task id alone, so  *)
(* only their number matters.                                              *)
(***************************************************************************)
EXTENDS Naturals, FiniteSets

CONSTANTS
  Clients,      \* threads of the web process
  Workers,      \* Celery worker processes
  NumOps,       \* operations of the document that are to be drafted
  MaxRequests,  \* bound: how often the row is set to pending
  MaxFaults,    \* bound: how many faults happen
  EnvKinds      \* what the environment may do in this instance

Faults == {"crash", "webcrash", "loss", "dup", "refused", "lostreply"}

ASSUME BoundsAssumption ==
  NumOps \in Nat /\ MaxRequests \in Nat /\ MaxFaults \in Nat
ASSUME EnvAssumption == EnvKinds \subseteq Faults \cup {"age", "soft"}

VARIABLES
  row,     \* the row
  drafts,  \* <<run, op>>: the draft cases run committed for op
  logs,    \* <<run, op>>: the entry of generation_logs run committed for op
  queue,   \* number of generate_cases messages waiting in the broker
  scans,   \* number of scan_stale_tasks messages waiting in the broker
  web,     \* handler each web thread is in
  wk,      \* task function each worker is in
  att,     \* history: how often the row became pending
  runs,    \* history: how often the row became running
  claims,  \* history: how often it did since it last became pending
  faults   \* faults so far

vars == <<row, drafts, logs, queue, scans, web, wk, att, runs, claims, faults>>

caseVars   == <<drafts, logs>>
brokerVars == <<queue, scans>>
history    == <<att, runs, claims>>

-----------------------------------------------------------------------------
(* Types *)

Ops == 1..NumOps

Status == {"absent", "pending", "running", "success", "failed"}

\* error_stage; "none" is NULL.
Stage == {"none", "parse", "internal", "timeout", "dispatch"}

\* result_summary: the run that counted, the operations it counted as
\* generated and as rejected.  Run 0 stands for NULL.
Summary == [run : Nat, done : SUBSET Ops, rejected : SUBSET Ops]
NoSummary == [run |-> 0, done |-> {}, rejected |-> {}]

\* aged: started_at of the running row is longer ago than the time limit.
Row == [status : Status, stage : Stage, summary : Summary, aged : BOOLEAN]
Absent == [status |-> "absent", stage |-> "none", summary |-> NoSummary,
           aged |-> FALSE]

\* What a handler assigns to the row it has loaded: "none" and NoSummary
\* leave the column alone.
Outcome == [status : {"failed", "success"}, stage : Stage, summary : Summary]
Failed(stage) == [status |-> "failed", stage |-> stage, summary |-> NoSummary]

WebIdle == [pc |-> "idle"]
WebJob == [pc : {"insert", "reset", "dispatch", "refused"}, seen : Row]

WkIdle == [pc |-> "idle"]
WkDown == [pc |-> "down"]
\* run and att: the claim and the attempt it was made for (history); seen: the
\* row as loaded before it is written.
Job == [pc : {"guard", "claim", "parse", "loop", "load", "write", "ack"},
        kind : {"generate", "scan"}, run : Nat, att : Nat,
        done : SUBSET Ops, rejected : SUBSET Ops, out : Outcome, seen : Row]
NewJob(pc, kind) ==
  [pc |-> pc, kind |-> kind, run |-> 0, att |-> 0, done |-> {}, rejected |-> {},
   out |-> Failed("timeout"), seen |-> Absent]

Busy(w)       == wk[w].pc \notin {"idle", "down"}
Generating(w) == Busy(w) /\ wk[w].kind = "generate"

TypeOK ==
  /\ row \in Row
  /\ drafts \subseteq (1..runs) \X Ops
  /\ logs \subseteq (1..runs) \X Ops
  /\ queue \in Nat /\ scans \in Nat
  /\ web \in [Clients -> {WebIdle} \cup WebJob]
  /\ wk \in [Workers -> {WkIdle, WkDown} \cup Job]
  /\ att \in Nat /\ runs \in Nat /\ claims \in Nat
  /\ faults \in 0..MaxFaults

Init ==
  /\ row = Absent
  /\ drafts = {} /\ logs = {}
  /\ queue = 0 /\ scans = 0
  /\ web = [c \in Clients |-> WebIdle]
  /\ wk = [w \in Workers |-> WkIdle]
  /\ att = 0 /\ runs = 0 /\ claims = 0
  /\ faults = 0

-----------------------------------------------------------------------------
(* Helpers *)

Fault(kind) ==
  /\ kind \in EnvKinds
  /\ faults < MaxFaults
  /\ faults' = faults + 1

\* The commit of an ORM session that loaded `seen` and assigned `new`.
Flush(seen, new) ==
  LET status == IF new.status = seen.status THEN row.status ELSE new.status
  IN  row' = [status  |-> status,
              stage   |-> IF new.stage = seen.stage
                            THEN row.stage ELSE new.stage,
              summary |-> IF new.summary = seen.summary
                            THEN row.summary ELSE new.summary,
              aged    |-> status = "running" /\ row.aged]

Assigned(seen, out) ==
  [status  |-> out.status,
   stage   |-> IF out.stage = "none" THEN seen.stage ELSE out.stage,
   summary |-> IF out.summary = NoSummary THEN seen.summary ELSE out.summary]

\* What a handler has loaded is needed up to its next write.
WebGoto(c, pc) == web' = [web EXCEPT ![c] = [pc |-> pc, seen |-> Absent]]
WebDone(c)     == web' = [web EXCEPT ![c] = WebIdle]
WkGoto(w, pc)  == wk' = [wk EXCEPT ![w] = [@ EXCEPT !.pc = pc]]
\* The row will be loaded and get this outcome.
WkSettle(w, out) ==
  wk' = [wk EXCEPT ![w] = [@ EXCEPT !.pc = "load", !.done = {},
                             !.rejected = {}, !.out = out, !.seen = Absent]]

\* The bound on requests counts the handlers about to use one.
MayRequest ==
  att + Cardinality({c \in Clients : web[c].pc \in {"insert", "reset"}})
    < MaxRequests

-----------------------------------------------------------------------------
(* POST /generate: GenerationService, dispatcher *)

\* Variant: a running task is reset too, as if it were stuck.
LookupResetsRunning(c) ==
  /\ web[c].pc = "idle"
  /\ MayRequest
  /\ row.status \in {"absent", "failed", "running"}
  /\ web' = [web EXCEPT ![c] =
               [pc |-> IF row.status = "absent" THEN "insert" ELSE "reset",
                seen |-> row]]
  /\ UNCHANGED <<row, caseVars, brokerVars, wk, history, faults>>

\* create_generation_task looks the run_id up: none is inserted, a failed one
\* reset.  A pending, running or successful one is returned as it is.
CreateLookup(c) ==
  /\ web[c].pc = "idle"
  /\ MayRequest
  /\ row.status \in {"absent", "failed"}
  /\ web' = [web EXCEPT ![c] =
               [pc |-> IF row.status = "absent" THEN "insert" ELSE "reset",
                seen |-> row]]
  /\ UNCHANGED <<row, caseVars, brokerVars, wk, history, faults>>

NewAttempt == att' = att + 1 /\ claims' = 0 /\ runs' = runs

Insert(c) ==
  /\ web[c].pc = "insert"
  /\ row.status = "absent"
  /\ row' = [Absent EXCEPT !.status = "pending"]
  /\ NewAttempt
  /\ WebGoto(c, "dispatch")
  /\ UNCHANGED <<caseVars, brokerVars, wk, faults>>

\* UNIQUE(run_id): the row of the request that won is returned.
InsertLost(c) ==
  /\ web[c].pc = "insert"
  /\ row.status # "absent"
  /\ WebDone(c)
  /\ UNCHANGED <<row, caseVars, brokerVars, wk, history, faults>>

\* The reset clears error_stage and leaves result_summary to the next run.
Reset(c) ==
  /\ web[c].pc = "reset"
  /\ Flush(web[c].seen,
           [web[c].seen EXCEPT !.status = "pending", !.stage = "none"])
  /\ NewAttempt
  /\ WebGoto(c, "dispatch")
  /\ UNCHANGED <<caseVars, brokerVars, wk, faults>>

\* dispatch_or_fail: the id of the message, stored after it was published, is
\* read by nothing.
Publish(c) ==
  /\ web[c].pc = "dispatch"
  /\ queue' = queue + 1
  /\ WebDone(c)
  /\ UNCHANGED <<row, caseVars, scans, wk, history, faults>>

\* delay raises: nothing was published, or only the reply was lost.
PublishRaises(c) ==
  /\ web[c].pc = "dispatch"
  /\ \/ Fault("refused") /\ queue' = queue
     \/ Fault("lostreply") /\ queue' = queue + 1
  /\ WebGoto(c, "refused")
  /\ UNCHANGED <<row, caseVars, scans, wk, history>>

\* ... and the row, known to this session as pending, is failed(dispatch).
FailDispatch(c) ==
  /\ web[c].pc = "refused"
  /\ row' = [row EXCEPT !.status = "failed", !.stage = "dispatch",
                        !.aged = FALSE]
  /\ WebDone(c)
  /\ UNCHANGED <<caseVars, brokerVars, wk, history, faults>>

-----------------------------------------------------------------------------
(* generate_cases_task: run_generation *)

Receive(w) ==
  /\ wk[w].pc = "idle"
  /\ queue > 0
  /\ queue' = queue - 1
  /\ wk' = [wk EXCEPT ![w] = NewJob("guard", "generate")]
  /\ UNCHANGED <<row, caseVars, scans, web, history, faults>>

\* Variant: anything that has not succeeded may start.
AcceptUnfinished(w) ==
  /\ wk[w].pc = "guard"
  /\ row.status # "success"
  /\ WkGoto(w, "claim")
  /\ UNCHANGED <<row, caseVars, brokerVars, web, history, faults>>

\* _run_generation reads the row and goes on only if it is pending.
Accept(w) ==
  /\ wk[w].pc = "guard"
  /\ row.status = "pending"
  /\ WkGoto(w, "claim")
  /\ UNCHANGED <<row, caseVars, brokerVars, web, history, faults>>

Skip(w) ==
  /\ wk[w].pc = "guard"
  /\ row.status # "pending"
  /\ WkGoto(w, "ack")
  /\ UNCHANGED <<row, caseVars, brokerVars, web, history, faults>>

\* The commit of the claim: the row read is made running, whatever it is now.
Claim(w) ==
  /\ wk[w].pc = "claim"
  /\ row' = [row EXCEPT !.status = "running", !.aged = FALSE]
  /\ runs' = runs + 1
  /\ claims' = claims + 1
  /\ wk' = [wk EXCEPT ![w] =
              [@ EXCEPT !.pc = "parse", !.run = runs + 1, !.att = att]]
  /\ UNCHANGED <<caseVars, brokerVars, web, att, faults>>

ParseFails(w) ==
  /\ wk[w].pc = "parse"
  /\ WkSettle(w, Failed("parse"))
  /\ UNCHANGED <<row, caseVars, brokerVars, web, history, faults>>

Parse(w) ==
  /\ wk[w].pc = "parse"
  /\ WkGoto(w, "loop")
  /\ UNCHANGED <<row, caseVars, brokerVars, web, history, faults>>

\* Anything else that raises: failed(internal), without a summary.
Unexpected(w) ==
  /\ wk[w].pc \in {"parse", "loop"}
  /\ WkSettle(w, Failed("internal"))
  /\ UNCHANGED <<row, caseVars, brokerVars, web, history, faults>>

\* The operations are taken in the order of the document.
NextOp(w) == Cardinality(wk[w].done \cup wk[w].rejected) + 1

OpsLeft(w) == NextOp(w) <= NumOps

Snapshot(w) == [run |-> wk[w].run, done |-> wk[w].done,
                rejected |-> wk[w].rejected]

CountDone(j, op)     == [j EXCEPT !.done = j.done \cup {op}]
CountRejected(j, op) == [j EXCEPT !.rejected = j.rejected \cup {op}]

\* Variant: the loop is left, not the function.
DeadlineLeavesLoop(w) ==
  /\ wk[w].pc = "loop"
  /\ OpsLeft(w)
  /\ WkSettle(w, [status |-> "success", stage |-> "none",
                  summary |-> Snapshot(w)])
  /\ UNCHANGED <<row, caseVars, brokerVars, web, history, faults>>

\* The time budget is looked at before each operation.
Deadline(w) ==
  /\ wk[w].pc = "loop"
  /\ OpsLeft(w)
  /\ WkSettle(w, [status |-> "failed", stage |-> "timeout",
                  summary |-> Snapshot(w)])
  /\ UNCHANGED <<row, caseVars, brokerVars, web, history, faults>>

\* Variant: a branch of the loop forgets the log.
RejectUnlogged(w) ==
  /\ wk[w].pc = "loop"
  /\ OpsLeft(w)
  /\ wk' = [wk EXCEPT ![w] = CountRejected(@, NextOp(w))]
  /\ UNCHANGED <<row, caseVars, brokerVars, web, history, faults>>

\* The prompt is risky, the LLM failed, ran out of budget or answered
\* something invalid: the operation is logged and counted as rejected.
Reject(w) ==
  /\ wk[w].pc = "loop"
  /\ OpsLeft(w)
  /\ logs' = logs \cup {<<wk[w].run, NextOp(w)>>}
  /\ wk' = [wk EXCEPT ![w] = CountRejected(@, NextOp(w))]
  /\ UNCHANGED <<row, drafts, brokerVars, web, history, faults>>

\* The drafts of an operation and its log are one commit.
Draft(w) ==
  /\ wk[w].pc = "loop"
  /\ OpsLeft(w)
  /\ drafts' = drafts \cup {<<wk[w].run, NextOp(w)>>}
  /\ logs' = logs \cup {<<wk[w].run, NextOp(w)>>}
  /\ wk' = [wk EXCEPT ![w] = CountDone(@, NextOp(w))]
  /\ UNCHANGED <<row, brokerVars, web, history, faults>>

Finish(w) ==
  /\ wk[w].pc = "loop"
  /\ ~OpsLeft(w)
  /\ WkSettle(w, [status |-> "success", stage |-> "none",
                  summary |-> Snapshot(w)])
  /\ UNCHANGED <<row, caseVars, brokerVars, web, history, faults>>

\* _fail, force_fail_timeout, the end of _run_generation and the second
\* session of the scan: load the row, whatever it is by now ...
Load(w) ==
  /\ wk[w].pc = "load"
  /\ wk' = [wk EXCEPT ![w] = [@ EXCEPT !.pc = "write", !.seen = row]]
  /\ UNCHANGED <<row, caseVars, brokerVars, web, history, faults>>

\* ... assign the outcome and commit, with no condition on the status.
Write(w) ==
  /\ wk[w].pc = "write"
  /\ Flush(wk[w].seen, Assigned(wk[w].seen, wk[w].out))
  /\ wk' = [wk EXCEPT ![w] = [@ EXCEPT !.pc = "ack", !.seen = Absent]]
  /\ UNCHANGED <<caseVars, brokerVars, web, history, faults>>

\* Variant: the exception ends the function.
SoftTimeoutUnhandled(w) ==
  /\ "soft" \in EnvKinds
  /\ Generating(w)
  /\ wk[w].pc \in {"parse", "loop", "load", "write"}
  /\ WkGoto(w, "ack")
  /\ UNCHANGED <<row, caseVars, brokerVars, web, history, faults>>

\* SoftTimeLimitExceeded, raised once, wherever the claimed run is, even after
\* its last commit (a pool that enforces time limits).
SoftTimeout(w) ==
  /\ "soft" \in EnvKinds
  /\ Generating(w)
  /\ wk[w].run # 0
  /\ wk[w].pc \in {"parse", "loop"} \/ wk[w].out # Failed("timeout")
  /\ WkSettle(w, Failed("timeout"))
  /\ UNCHANGED <<row, caseVars, brokerVars, web, history, faults>>

\* acks_late: the message is acknowledged when the task function returns.
Ack(w) ==
  /\ wk[w].pc = "ack"
  /\ wk' = [wk EXCEPT ![w] = WkIdle]
  /\ UNCHANGED <<row, caseVars, brokerVars, web, history, faults>>

-----------------------------------------------------------------------------
(* scan_stale_tasks, sent by every worker that gets ready *)

\* Variant: only execution tasks are scanned.
ScanSkips(w) ==
  /\ wk[w].pc = "idle"
  /\ scans > 0
  /\ scans' = scans - 1
  /\ wk' = wk
  /\ UNCHANGED <<row, caseVars, queue, web, history, faults>>

\* First session: a running row that is too old is listed, and will be failed
\* by the second.  Pending rows of this table are not looked at.
ScanRead(w) ==
  /\ wk[w].pc = "idle"
  /\ scans > 0
  /\ scans' = scans - 1
  /\ IF row.status = "running" /\ row.aged
       THEN wk' = [wk EXCEPT ![w] = NewJob("load", "scan")]
       ELSE wk' = wk
  /\ UNCHANGED <<row, caseVars, queue, web, history, faults>>

-----------------------------------------------------------------------------
(* Environment *)

\* The worker process dies; the message in its hands is delivered again.
Crash(w) ==
  /\ wk[w].pc # "down"
  /\ Fault("crash")
  /\ queue' = IF Generating(w) THEN queue + 1 ELSE queue
  /\ scans' = IF Busy(w) /\ ~Generating(w) THEN scans + 1 ELSE scans
  /\ wk' = [wk EXCEPT ![w] = WkDown]
  /\ UNCHANGED <<row, caseVars, web, history>>

\* worker_ready sends scan_stale_tasks.
Boot(w) ==
  /\ wk[w].pc = "down"
  /\ scans' = scans + 1
  /\ wk' = [wk EXCEPT ![w] = WkIdle]
  /\ UNCHANGED <<row, caseVars, queue, web, history, faults>>

WebCrash(c) ==
  /\ web[c].pc # "idle"
  /\ Fault("webcrash")
  /\ WebDone(c)
  /\ UNCHANGED <<row, caseVars, brokerVars, wk, history>>

\* At-least-once delivery: a message in hand is delivered again.
Redeliver(w) ==
  /\ Generating(w)
  /\ Fault("dup")
  /\ queue' = queue + 1
  /\ UNCHANGED <<row, caseVars, scans, web, wk, history>>

Lose ==
  /\ queue > 0
  /\ Fault("loss")
  /\ queue' = queue - 1
  /\ UNCHANGED <<row, caseVars, scans, web, wk, history>>

\* Time passes: the run is older than its time limit.
Age ==
  /\ "age" \in EnvKinds
  /\ row.status = "running"
  /\ ~row.aged
  /\ row' = [row EXCEPT !.aged = TRUE]
  /\ UNCHANGED <<caseVars, brokerVars, web, wk, history, faults>>

-----------------------------------------------------------------------------
(* Specification *)

WebStep(c) ==
  Insert(c) \/ InsertLost(c) \/ Reset(c) \/ Publish(c) \/ PublishRaises(c)
    \/ FailDispatch(c)

WorkerStep(w) ==
  \/ Receive(w) \/ Accept(w) \/ Skip(w) \/ Claim(w)
  \/ ParseFails(w) \/ Parse(w) \/ Unexpected(w)
  \/ Deadline(w) \/ Reject(w) \/ Draft(w) \/ Finish(w)
  \/ Load(w) \/ Write(w) \/ Ack(w)

Environment ==
  \/ \E w \in Workers : Crash(w) \/ Redeliver(w) \/ SoftTimeout(w)
  \/ \E c \in Clients : WebCrash(c)
  \/ Lose
  \/ Age

Next ==
  \/ \E c \in Clients : CreateLookup(c) \/ WebStep(c)
  \/ \E w \in Workers : WorkerStep(w) \/ ScanRead(w) \/ Boot(w)
  \/ Environment

Spec == Init /\ [][Next]_vars

\* A handler that started goes on, a worker takes the messages there are, of
\* either kind, and goes on, a dead worker is restarted and time passes.
Fairness ==
  /\ \A c \in Clients : WF_vars(WebStep(c))
  /\ \A w \in Workers : /\ WF_vars(WorkerStep(w))
                        /\ WF_vars(ScanRead(w))
                        /\ WF_vars(Boot(w))
  /\ WF_vars(Age)

FairSpec == Spec /\ Fairness

-----------------------------------------------------------------------------
(* Properties *)

Of(records, run) == {op \in Ops : <<run, op>> \in records}

\* The summary a reader sees, in a row of whatever status, agrees with the
\* drafts and the logs that its run committed one by one: nothing counted that
\* was not stored, nothing stored that was not counted.
SummaryIsTrue ==
  LET s == row.summary IN
  s.run # 0 =>
    /\ Of(drafts, s.run) = s.done
    /\ Of(logs, s.run) = s.done \cup s.rejected

\* A successful row accounts for every operation that was asked for: a run the
\* deadline cut short is not a success.
SuccessIsComplete ==
  row.status = "success" => row.summary.done \cup row.summary.rejected = Ops

\* However often its message is delivered, an attempt is drafted once: the LLM
\* is not paid twice for it.
OneClaimPerAttempt == claims <= 1

\* Drafts are only written while the task is running, for the attempt it is
\* in: none appears after somebody was told that the task has ended.
DraftsBelongToTheAttempt ==
  [][drafts' # drafts =>
       /\ row.status = "running"
       /\ \E w \in Workers : wk'[w] # wk[w] /\ wk[w].att = att]_vars

RowStatus == [t \in {"generation"} |-> row.status]

Lifecycle == INSTANCE TaskLifecycle
  WITH Tasks <- {"generation"}, status <- RowStatus

\* Whoever writes the row, it moves only as the state diagram of
\* docs/database.md allows.
RowFollowsTheDiagram == Lifecycle!Spec

\* A running row that is too old when a scan is due ends, even if the worker
\* that ran it is gone.
AgedGenerationIsRecovered ==
  (row.status = "running" /\ row.aged /\ scans > 0) ~> (row.status # "running")

\* Every attempt ends, also when the soft time limit strikes.
EveryGenerationEnds ==
  row.status \in {"pending", "running"} ~> row.status \in {"success", "failed"}
=============================================================================
