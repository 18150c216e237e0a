# Verification of the API test platform backend

TLA+ models of the state machines in `src/app`, the TLC instances that check
them and the theorems TLAPS proves about them. The reference is the code: where
a document or a comment says something else, the disagreement is a run that TLC
finds violated (see "Where the code and its documents disagree").

## The system

A FastAPI process writes rows and publishes Celery messages; worker processes
consume the messages, call pytest or an LLM and write the same rows. The
database (SQLite in WAL mode, or PostgreSQL) is the only shared state; the
broker is Redis. There are no locks: every guard against another process is a
`UNIQUE` constraint, a condition in an `UPDATE`, or a status read earlier.

| Component | State it keeps | Operations | Hard behaviour |
|---|---|---|---|
| Execution tasks (`task_service`, `dispatcher`) | row of `tasks`: status, error_stage, pid, celery_task_id, times | create, retry, cancel, dispatch | reads and writes are separate; a task is published after its commit and its message id stored after that |
| Execution worker (`execution_service`, `execute_cases`, `subprocess_util`) | pytest process, workspace directory | guard, spawn, mark running, finish, fail, soft time limit | duplicates, cancels and retries between any two steps; late results |
| Stale task scan (`supervisor`, `celery_app`) | lists held between two sessions | list, kill, fail, revoke | lists are stale when written; only sent when a worker starts |
| Case generation (`generation_service`) | row of `generation_tasks`, drafts, logs | create, run, retry of LLM calls, fail | per-item commits, unconditional writes, one deadline for all items |
| Case review (`case_service`) | `test_cases` | create, update, confirm, delete | decisions on columns another request may change |
| API versions and impact (`swagger_service`, `impact_service`, `api_definition_repository`) | `api_definitions`, `impact_analyses` | parse, analyze, regression, hints | upsert races, snapshots that age |
| LLM client (`llm_client`) | none | calls, retries, pauses | one deadline for a run, repeats of the SDK |
| Parser, converter, JUnit parser (`openapi_parser`, `convert_swagger2`, `junit_parser`), time limits (`dispatcher`) | none | pure functions | cycles of references, walks that must agree, equalities |
| Rate limit (`rate_limit`, `deps`) | a counter in Redis for each window | count, refuse | two commands that fail apart, window boundaries |

How they meet: `TaskService` and `dispatcher` publish `execute_cases`;
`ExecutionService` consumes it; `scan_stale_tasks` fails rows of both kinds of
task and kills pids it reads from rows; `ImpactService.regression` creates
execution tasks from cases that `CaseService` reviews and `GenerationService`
drafts, found by the operations `SwaggerService` stored.

What makes each correct: an execution task is run at most once per attempt, is
never left open for ever, keeps a cancel, takes its result from its own attempt
and names the process to kill; a generation task ends, and its drafts agree with
its outcome; an active case is a validated one; a version is stored once and an
analysis compares the versions it names; the pure functions agree with their
definitions.

## Modules

| Module | What it models |
|---|---|
| `ExecutionTasks` | create, retry, cancel, dispatch, the worker, the scan, the broker and the faults: one row per run_id |
| `TaskLifecycle` | the abstract specification: the state diagram of `README.md` and `docs/database.md` |
| `MCExecutionTasks` | the instances |
| `ExecutionTasksProofs` | theorems about `ExecutionTasks`, among them that it refines `TaskLifecycle` (`RowsFollowTheDiagram`) |
| `GenerationTasks`, `MCGenerationTasks`, `GenerationTasksProofs` | the same for the generation of cases: the row, the drafts and logs it commits operation by operation, the soft time limit, the scan; also refines `TaskLifecycle` (`RowFollowsTheDiagram`) |
| `ImpactDiff` | the comparison of two versions of an API: pure operators |
| `ApiVersions`, `MCApiVersions`, `ApiVersionsProofs` | parse and analyze: racing requests on the stored versions; uses `ImpactDiff`, whose theorems are in the same proof module |
| `CaseReview`, `MCCaseReview`, `CaseReviewProofs` | create, generate, update, confirm and delete of cases |
| `CaseLifecycle` | the abstract specification of cases, which `CaseReview` refines |
| `Regression`, `MCRegression`, `RegressionProofs` | the regression of an analysis, over the two abstract specifications |
| `LlmBudget`, `LlmBudgetProofs` | the calls a generation run makes to the LLM, their retries and the deadline they share |
| `RateLimit`, `RateLimitProofs` | the fixed window of one client: concurrent requests, the two commands they send to Redis, and their failures |
| `SchemaWalks` | one level of each walk over a schema, given what it returns for the schemas inside |
| `ApiHash` | hashes, contracts and ids of parsed operations, over any walks |
| `OpenApi`, `SchemaMeaning` | the OpenAPI parser, which closes the recursion of the walks; what a JSON schema accepts, the definition it is checked against |
| `GenerationChoice`, `GenerationPrompt` | the choice of operations for a generation task; the body of an operation in the prompt |
| `JunitReport`, `TimeLimits`, `Swagger2` | the reading of a report, the time limits of a message, the conversion of Swagger 2 documents |
| `Inputs`, `InputsProofs` | calls of `ApiHash`, `ImpactDiff`, `GenerationChoice`, `JunitReport` and `TimeLimits`, with the parser and the walks as parameters, and the theorems |
| `Parsing`, `MCInputs` | the calls of the recursive functions; the inputs, and the instance of `RateLimit` |

`Regression` composes cases and execution tasks through their abstract
specifications, `CaseLifecycle` and `TaskLifecycle`: the first is what
`CaseReview` is proved to implement, the second what `ExecutionTasks` is proved
to implement as long as requests do not overlap, no publish fails, and there is
one worker or no scan (see "Theorems"). The
other modules touch different tables; what one needs of another is an action of
its own (`GenerateCase` in `CaseReview`). The scan appears twice, once for each
kind of row.

### ExecutionTasks

A step is what the code does between two points where another process can be
seen: a SELECT is one, an `UPDATE ... WHERE` with its commit is one, a kill, a
spawn and a publish are each one. Handlers keep the columns they loaded, as
SQLAlchemy does (`expire_on_commit=False`).

| State | In the code |
|---|---|
| `row[t]` | the row of `tasks` with run_id `t`; `stage` is error_stage, `mid` celery_task_id, `aged` says that the time the scan compares (started_at of a running row, updated_at of a pending one) is too long ago |
| `queue`, `revoked`, `scans` | messages in the broker, revocations the workers heard, `scan_stale_tasks` messages |
| `web[c]` | the request handler a thread of the web process is in |
| `wk[w]` | the task function a worker process is in, `down` if the process is dead |
| `live`, `spawned` | pytest processes alive, and for which task each was started (history) |
| `requests`, `att`, `runs` | history: each time a row becomes pending is an attempt; `att[t]` is the current one, `runs[t]` how often it became running |

Actions, in the order of the code: `CreateLookup`, `Insert`, `Refresh`,
`InsertLost` (`create_execution_task`), `RetryLookup` (`retry_task`), `Reset`
(`_reset_and_dispatch`), `Publish`, `PublishRaises`, `FailDispatch`,
`RecordMessage` (`dispatch_or_fail`), `CancelLookup`, `CancelKill`,
`CancelWrite`, `CancelRefused`, `CancelRevoke` (`cancel_task`); `Receive`,
`Discard`, `Accept`, `Skip`, `LaunchFails`, `Launch`, `MarkRunning`,
`MarkRefused`, `RunEnds`, `RunKilled`, `RunTimesOut`, `FailWrite`,
`FinishWrite`, `Ack` (the execution of a message), `SoftTimeout`, `StopKill`,
`StopWrite` (the soft time limit); `ScanRead`, `ScanKill`, `ScanGet`,
`ScanWrite` (`scan_stale_tasks`); the rest is the environment. Definitions
commented "Variant" are plausible mistakes in the one below them; no
specification uses them, they show that the properties can fail.

Choices of abstraction:

- A message carries its request number. The order of delivery is free, as
  several workers and redelivery make it.
- A revocation reaches a worker or not: `Discard` may drop a revoked message,
  `Receive` may take it (a worker started later does not know of it).
- `Reset`, `FailDispatch` and `ScanWrite` write only the columns that differ from
  those loaded (`Flushed`), as the ORM does, because it decides what a racing
  writer finds. With several rows, the scan loads all before it writes any; SQLite
  allows less.
- `BaseRepository.add` commits (`Insert`) and loads the row again (`Refresh`): what
  it finds decides what a refused publish writes. The other modules have one step
  for both. Nothing else can touch a new generation row before its message is
  published, nothing is written to a new case or analysis after the second load,
  and in `Regression` the outcome is that of `PublishFails` and a retry.
- A kill can fail (`kill_process_tree` only logs it) and is a fault then. On
  Windows the exit code of a killed pytest may differ from -9; like -9, it is
  neither 0 nor 1.
- The broker may publish and lose the reply. Both outcomes are faults, as is
  any crash, loss, duplicate.
- `autoretry_for` of the Celery task has no step: `execute_cases` turns every
  exception of its work into a failed row.

Not modelled here: commits that fail in a handler (the row stays as it was and
looks like one whose worker died), the hard time limit (a crash of the worker
process), the files of the workspace and of the report, the content of
`result_summary`, deletion (tasks are never deleted).

### GenerationTasks

| State | In the code |
|---|---|
| `row` | one row of `generation_tasks`: status, error_stage, result_summary; `aged` as above |
| `drafts`, `logs` | pairs of a run and an operation: the drafts and the log entry the run has committed for it |
| `queue`, `scans` | how many messages of each kind wait |
| `web[c]`, `wk[w]` | handlers and task functions, with the columns they loaded |
| `att`, `runs`, `claims` | history: how often the row became pending, how often running, and how often running since it last became pending |

`_run_generation` claims the row (`Claim`), loads the document (`Parse`,
`ParseFails`), and for every operation commits drafts and a log (`Draft`) or a
log of a rejection (`Reject`); the deadline (`Deadline`) ends the loop, `Finish`
writes the outcome with the counts of the summary. `_fail` and
`force_fail_timeout` load and write (`Load`, `Write`, `SoftTimeout`). A commit
writes the assigned columns that differ from those loaded (`Flush`): this
decides what is left when two of them race. LLM calls and their retries take no
step here; they end in `Draft`, `Reject` or `Unexpected`. `LlmBudget` opens them.

### ImpactDiff and ApiVersions

A version is its hash_version and a function from operation ids to the hash and
the contract of the operation, as `parse_openapi` extracts them; documents are
given by the instance. A request reads the base and resolves a label, looks the
label up, deletes and inserts in one transaction, and analyze stores its result
in another: `ParseStart`, `AnalyzeStart`, `Resolve` or `Collide`, `Lookup`,
`Write` or `WriteLost`, `Store`. Resolving a label takes several SELECTs and is
one step here, as are the case lookups of analyze with the insertion of the
analysis. `ReuseIds` tells the databases apart: SQLite gives the highest id
again after a deletion, a PostgreSQL sequence never does.
`since` and `analysed` in a version are history: what was reported since it was
stored, and whether every later version was analysed against the latest one.

### CaseReview

Columns are abstract, and a value is one that `CaseCreate` accepts or not. A
handler loads the row and decides (`UpdateLoad`, `ConfirmLoad`, `DeleteLoad`);
its commit updates, WHERE id = ?, the columns that differ from those loaded
(`UpdateWrite`, `ConfirmWrite`, `DeleteWrite`), or finds no row (`WriteFails`).
`approved` is history: the contents the reviewer was shown. A confirm of an
active case changes nothing and has no step. An explicit null in an update of a
draft, for a column that may not be null, fails in the database and changes
nothing either.

`CasesFollowTheLifecycle` says that it implements `CaseLifecycle`, where a case
that has been deleted stays deleted: what a regression may suppose of the ids it
keeps. It needs ids that are never given again.

### Regression

| State | In the code |
|---|---|
| `cases`, `tasks` | the status of every case, of the task of every set of cases (run_id is a hash of the sorted ids and the default timeout) |
| `analysis` | the row of one analysis: affected_case_ids, last_regression_task_id, last_regression_executed_count |
| `reg[r]` | where the request of a thread is, the record it loaded, the cases it found active |
| `work[w]` | the task a worker has taken and the cases it has read of it |
| `ran`, `raced` | history: what the task ran when it was last started; whether the record was written over one its writer had not seen |

`Analyze` stores the snapshot; `Load`, `Select` are the first SELECTs of
`regression`, `LookUp`, `InsertTask`, `InsertTaskLost`, `ResetTask`, `Publish`,
`PublishFails` what `create_execution_task` does for it, `Mark` is
`mark_regression`. `ResetTask` writes pending over whatever the row has become,
as in `ExecutionTasks`. `WorkerReads`, `WorkerStarts`, `WorkerGivesUp` are the
worker as far as cases matter to it: it reads those that are active when it takes
the task, and starts later. `ReviewMoves` and `TaskMoves` are the steps of the
abstract specifications.

### RateLimit

| State | In the code |
|---|---|
| `now` | the clock, one for the web processes and Redis |
| `count[b]`, `expires[b]` | the counter of window `b` in Redis and when it goes; `Never` until EXPIRE |
| `web[t]` | a request in progress: before INCR or before EXPIRE, with the time it read |
| `log` | history: every INCR, the time of its request, when it was counted and what the request was told |

`Arrive` reads the time and thereby fixes the window (`window_key`); `Incr` and
`Expire` are the two commands of `hit_count`; `IncrUnheard` is an INCR that Redis
performs and whose reply is lost, `Fails` a command that never arrives or a web
process that dies. Either lets the request through. After a lost reply the command may be sent
again: redis-py 6 repeats commands by default, and `pyproject.toml` admits it.
The key of a window that never got its expiry stays, and no later window uses
it. `MaxDelay` is the longest time between reading the clock and INCR: the socket
timeouts of the client, its repeats, and what the thread waits. A limit of 0 is
off and touches nothing; a window of 0 seconds limits nothing, because EXPIRE 0
deletes the counter.

### The functions: SchemaWalks, ApiHash, OpenApi, GenerationChoice, GenerationPrompt, JunitReport, TimeLimits, Swagger2

A JSON object is a sequence of pairs, because the resolver walks objects in the
order of the text and later keys overwrite what earlier ones contributed. Lists
whose order no comparison sees are sets, a SHA-256 is the value it digests.
`Resolve` is `_resolve_schema` with its four ways out (too deep, external,
circular, broken) and the warnings it leaves; `SignedBy` and `NormalizedBy` are
the two other walks over a schema, for the contract and for the hash.
Both keep some keys of a schema, as does `DroppedBy`, which keeps the ones that no
hash knows of and that say something of values (`DroppedKeys`; not, minProperties
and maxProperties are of the same kind). `SchemaMeaning!Accepts` says what a schema
accepts, with references looked up where they stand, all keywords read and not only
hashed ones; `InliningKeepsTheMeaning`, `NarrowingIsSeen` and
`ConversionKeepsTheRequests` compare with it. The place of a field in a signature is
a tuple of names where the code joins them with dots (`openapi_parser.py:318-320`),
so that fields whose names have dots may collide there and not in the model.

Walks over schemas recurse, and nothing can be proved in a module that reaches a
RECURSIVE operator. So each walk is split: `SchemaWalks` says what one level
does with the results for the schemas inside, `OpenApi` and `SchemaMeaning` close
the recursion. `Inputs` takes the walks and the parser as constants. Its
assumptions say that the walks satisfy the equations of `SchemaWalks`
(`WalksAssumption`), that resolved schemas are finite trees
(`SchemasAssumption`), and that the parser returns an error or at least one operation, each
with the contract of its own schemas, and what `ApiHash` makes of them
(`ParsedAssumption`). In `inputs` the constants are the definitions of `OpenApi`
and `SchemaMeaning`, and TLC evaluates the assumptions on all documents and all
schemas of the instance.

### LlmBudget

One run of `_run_generation` with the time as an integer. `now` is the time since
the run started, `ops` and `results` say what became of the operations so far,
`attempt`, `pause`, `read` and `sent` belong to the current `chat_json`: calls
made, the pause if this one fails, its read timeout, and how often the SDK has
repeated its request. `NextOp`, `Block`, `TimedOut`, `Finish` are the loop;
`Call`, `Sleep`, `Answer`, `CallFails` are `chat_json`; `SdkRetry` is external:
the client is built without `max_retries` (`llm_client.py:38-42`), so the SDK
repeats a failed request twice on its own, with the timeout computed for the
first. A request takes at most `SetupTime + read`. That supposes an answer that
comes in one read: the timeout limits each read of the socket, and an endpoint
that keeps sending has no limit in the code (`llm_client.py:101`). `Lag` is
what prompts, commits and oversleeping add between two looks at the deadline.

## Runs

| Run | Instance | Result |
|---|---|---|
| `exec_solo` | 2 web threads, 1 worker, 2 tasks, 3 requests, 1 failed publish or lost reply | holds: types, `RunningRowNamesItsPytest`, `PendingHasMessage`, `FailureIsExplained`, `OnePytestPerTask`, `SuccessIsItsOwn` |
| `exec_pool` | 1 web thread, 2 workers, 2 requests, 1 of: duplicate, failed kill; soft time limits | holds: `KillReachesTheRunner`, `OneRunPerAttempt`, `CancelSticks`, `RowsFollowTheDiagram`, `EveryAttemptEnds` |
| `exec_recovery` | 1 web thread, 1 worker, 2 requests, 2 of: worker crash, web crash, lost message; ageing | holds: `AgedRunIsRecovered`, `RowsFollowTheDiagram` |
| `exec_stale_run` | 1 web thread, 1 worker, 2 requests, no fault | `RunEndsItsOwnAttempt` violated |
| `gen_solo` | 1 web thread, 1 worker, 2 operations, 3 requests, 2 of: worker crash, web crash, lost or doubled message; ageing | holds: `SuccessIsComplete`, `OneClaimPerAttempt`, `DraftsBelongToTheAttempt`, `RowFollowsTheDiagram`, `AgedGenerationIsRecovered` |
| `gen_pool` | 2 web threads, 2 workers, 1 operation, 2 requests, 2 of: failed publish, lost reply; soft time limits | holds: `SummaryIsTrue`, `EveryGenerationEnds` |
| `versions_pool` | 2 web threads, 4 documents, 3 requests, 2 hash versions, 1 death of a thread, SQLite ids | holds: types, `NoBreakIsMissed`, `KeepsItsBaseline` |
| `review_pool` | 3 web threads, 2 cases, 1 column, 2 valid values and 1 invalid, PostgreSQL ids | holds: `ActiveIsValid`, `SignedIfActive`, `CasesFollowTheLifecycle` |
| `regression_pool` | 2 threads, 3 regressions, 1 worker, 2 cases | holds: `RegressionIsTraceable` |
| `llm_budget` | 3 operations, 4 calls each, 3 requests a call, a budget of 24 | holds: `EndsNearTheBudget`, `GivenUpForTheBudget` |
| `inputs` | every pair of documents, every schema, request, Swagger 2 document, report and timeout of the sets in `MCInputs`; beside them 2 requests at a time, a limit of 1, windows and delays of 2, 3 INCRs, times up to 4 | holds: `HashDeterminesContract`, `NarrowingIsSeen`, `InliningKeepsTheMeaning`, `CopiesAreShallow`, `TargetsAreNotEmpty`, `ConversionKeepsTheRequests`, `CountersMatchTheEntries`, `TimeIsOrdered`; `QuotaIsExact`, `LateOnesAreBounded`, `RefusalsAreEarned` |
| `prompt_fields` | the same documents | `PromptKeepsTheFields` violated |

Bounds. `MaxRequests` counts how often a row is set to pending: two give a
cancelled or failed attempt and the one after it, three a retry of a retry,
which is what a stale read needs. `MaxFaults` counts faults; `exec_recovery`
has two so that a crash during the recovery from a crash happens. `exec_solo` has
two tasks, because a pid, a message or an attempt of the other task must be there
to be taken for one's own. One task is enough in `exec_pool` and `exec_recovery`,
whose properties are about one row: handlers of different tasks share only the
workers, and a worker is busy or not. No action is disabled by a bound
except a new request and a new fault, so a run does not lose the end of an
attempt. The runs switch deadlock off because the system may rest: all requests
used, all messages gone.

Some properties need what an instance leaves out. `CancelSticks`,
`RowsFollowTheDiagram` and `SuccessIsItsOwn` do not hold with everything at
once: a failed publish overwrites any status (`FailDispatch`), a scan writes
from stale lists, and a second worker may finish a stale attempt. The instances
say where they do hold: `exec_solo` has one worker and no scan, `exec_pool` no
failed publish and no scan, `exec_recovery` one request at a time.
`FailureIsExplained` holds only without the scan, which may leave a retried row
pending with an error_stage (`supervisor.py:87`), and with one exception: the
request that created the row is overtaken by a cancel, which its `Refresh` sees, and
by a retry, which it does not; its refused publish then writes error_stage and no
status, and the attempt of the retry is pending with stage dispatch. `exec_solo`
reaches such rows: without the exception TLC finds the property violated.

One generation row is enough, as its handlers share only workers with others;
two operations let a run be cut short after the first. The generation runs divide their questions in the same way. `gen_solo` has one
worker, because two that hold one message both claim the attempt (the guard
reads the status and commits without a condition), so `OneClaimPerAttempt` and
`RowFollowsTheDiagram` do not hold for two; and no failed publish, because
`FailDispatch` overwrites any status. `gen_pool` has both and checks what
remains true: `SummaryIsTrue` and `EveryGenerationEnds`. What no property claims
because the code does not do it: a pending row whose message was lost is never
recovered, and later requests for the same input are answered with it; a soft
time limit after the last commit turns a success into failed(timeout); a reset
keeps the old summary until the run writes its own; a run whose operations were
all rejected succeeds and is reused.

`versions_pool` needs three requests: a version that has a field, one that drops
it and one that gives it another type is the shortest way to miss a break by
comparing neighbours. The documents differ in one field and in the operations
they have; labels are one number and one that is no number. In `review_pool` one
column is enough, because validity is column by column, three threads allow an
edit and a confirm to straddle a third write, and a second case shows that
nothing passes from one row to another. `ActiveIsValid` supposes ids that are
never given again: on SQLite a confirm that straddles a deletion and a
generation finds another case under the id it validated.

`llm_budget` has a budget in which three operations can succeed, fail after all
their calls, or run out of time at any point; the numbers are small but keep the
order of the settings (pauses below the read timeout, all far below the budget).
Three operations let the deadline meet the first, a middle one and the last.

`regression_pool` has three regressions so that two overlap and a third finds
what they left, and two cases so that one can be dropped. One worker that may
hold what it read through a cancel, a reset and a retry is enough to run a task
with a reading older than the record.

`inputs` has small sets of each kind. Documents differ in one place at a time: a
type, an enum, a required name, a field, a response, a reference, the name of a
path parameter, an id used twice. Schemas nest to the depth limit and refer to
themselves, to each other, to nothing and out of the document; some have bounds,
constants and additional properties (`Bounded`), parts of an allOf that are scalars
or share a field (`Merging`), components that lead back to themselves (`Cycles`).
The values asked
about are scalars, arrays and objects of two fields. `MaxDepth` is 5 where the
code has 50. What the parser and the converter lose is in the inputs, and the
properties name what they except: without a premise of `InliningKeepsTheMeaning`
(no warning, no way back, no allOf but of disjoint objects) or of `NarrowingIsSeen` (the same
`Dropped`), TLC finds them violated.
Swagger 2 documents have own, shared and path-level parameters, bodies, form
parameters, and operations that take JSON or only something else.
Reports have up to
two suites of up to two cases. Timeouts run from none to past the visibility timeout.

The same run checks `RateLimit`, beside the calls: a behaviour is a call or one
of the rate limit (`MCSpec`). Times up to 4 are two windows of 2 and the start of
a third. With a limit of 1, three INCRs exceed a quota and twice a quota; two
requests at a time let one come between the two commands of the other, and a
delay as long as a window lets one be counted after its window, when the counter may
have gone.

Fairness. A handler that has started goes on (`WF(WebStep)`): a thread of a
running process; crashes are faults, not unfairness. A worker takes a message
when there is one and goes on (`WF(ExecStep)`, `WF(ScanStep)`): a Celery worker
loops, and `communicate(timeout)` bounds the run of pytest. A dead worker is
restarted (`WF(Boot)`): the deployment's duty, assumed because without it
nothing can recover. Time passes (`WF(Age)`). Requests, revocations heard and
faults are never fair. `LlmBudget` has no fairness: its properties bound the time of
what happens.

### Where the code and its documents disagree

1. `exec_stale_run`: `task_service.py:64` calls dispatching again safe because of
   the pending guard. `_fail` and `_finish_success` look at the status only, so
   the worker of a cancelled and retried attempt ends the new one.
2. `prompt_fields`: `_strip_doc_fields` (`generation_service.py:124-125`) filters
   every dict by the names of schema keywords, the mapping under `properties`
   too, so the prompt of an operation lacks every field whose name is no keyword,
   though its docstring (`:120`) keeps the structure and
   `docs/ai-generation.md:35` builds the prompt from it.

Without a run, because the runs go to other questions. In the protocols:

- `execution_service.py:169-171` says that a cancel writes the row and then
  kills; `task_service.py:131-135` kills first, so the worker may record
  failed(subprocess) and the cancel answers 409.
- The state diagram ends at SUCCESS (`README.md:120`); two retries that both read
  failed reset the row twice, the second time after the first has succeeded
  (`task_service.py:177-184`), which is why `RowsFollowTheDiagram` is checked
  with one web thread.
- `README.md:73` promises that a restart recovers zombie tasks. The scan runs
  once per start and skips rows that are not too old yet, so a quick restart
  leaves the row running until some later restart.
- `api_definition_repository.py:22-23` and `:47` promise a free number and the
  outcome of a serial execution. Two requests without a version resolve the same
  number; the second finds the first one's version in `upsert` and replaces it.
- `docs/database.md:148` says that a change of the contents makes an active case
  a draft again. `update_case` looks at the status it loaded, so an edit that
  loaded the draft and commits after the confirm leaves an active case with
  contents its reviewer never saw (`ActiveIsReviewed` states it).
- `docs/impact-analysis.md:77` and `docs/database.md:94` call regressions
  traceable. Two that overlap may leave the task of one with the count of the
  other, and one that finds an earlier success of the same cases runs nothing and
  counts them as executed, edited since or not (`impact_service.py:247-255`). The
  count is an upper bound: cases demoted before the worker reads them do not run.
- `llm_client.py:74` counts four requests for an operation; with the SDK's own
  there may be twelve. `docs/ai-generation.md:45` fails a run for its deadline;
  when only the last operation meets it, the run succeeds with that operation
  rejected.
- `dispatcher.py:82-83` fails a row whose publish is refused. If the creating
  request found its new row cancelled (`base.py:57`) and a retry came since, only
  error_stage is written: the row is pending, with its message, and says dispatch.
- `docs/database.md:167` still says that only pending tasks can be cancelled; the
  code and the other documents cancel running ones.

In the functions:

- The parser promises to degrade with a warning (`openapi_parser.py:2`). Without
  one, an allOf over a scalar or an enum becomes an empty object, an allOf keeps
  the last schema of a field that its parts share and overwrites `properties` next
  to it (204-212), circular references are cut (187-188), parameters of
  a path item are not read, and a `$ref` in place of a body or a response is
  taken for an empty one.
- `docs/impact-analysis.md:21` promises that every changed constraint is hit.
  `additionalProperties` is resolved and not hashed (`openapi_parser.py:197`, `:232`),
  and multipleOf, const, not, minProperties and maxProperties are no structure keys
  either (`:13-31`): a change of these alone leaves the operation unchanged. So does
  a change in any branch of a oneOf or anyOf but the first (213-216), which a warning
  tells. An operation that moves to another path under its operationId is unchanged.
- `docs/impact-analysis.md:34` counts a body where there was none as breaking; the
  code does if it requires a field. A `required` or an enum inside a nested
  object changes the hash and is not breaking. Names of parameters and of body
  fields share one set of required names.
- `convert_swagger2` appends the parameters of a path after those of the
  operation, which Swagger 2 lets override them. Keywords of a parameter other than
  eight (`_PARAM_SCHEMA_KEYS`, `:15`) are dropped, minLength and maxItems among them.
  Form parameters become a form body and leave the list (75-76, 100-108), and which
  of them are required is lost. As the parser reads application/json only
  (`openapi_parser.py:117`), a form or a body of another type is a body without a
  single field to it; `ConversionKeepsTheRequests` says so (`KeepsTheBody`,
  `KeepsTheForm`).
- A report whose counters do not add up may have a negative number of passed
  cases. pytest writes none.
- An INCR that comes after its window's key has expired starts a new count: a
  window may admit twice its quota, and no more (`LateOnesAreBounded`).
- A rate window of 0 seconds limits nothing (`EXPIRE key 0` deletes the counter),
  although `window_key` takes it for one second.

## Theorems

A theorem holds for every value of the constants that satisfies the assumptions
of its module and the hypotheses in its statement. Hypotheses restrict
concurrency (`OneWorker`, `OneClient`: no two worker processes, no two web
threads) or events ("no `age`": `age` is not in `EnvKinds`). They are few and
needed: drop any of them, allow the other events, and TLC finds the property
violated on an instance of one task. `OneWorker` and no `soft` describe the
deployment: `docker-compose.yml:3` fixes `--pool=solo --concurrency=1`, a pool
that ignores soft time limits (`docs/execution-engine.md:35`).

### ExecutionTasks

`ExecutionTasksProofs`, for any sets of clients, workers and tasks, any bounds
and any faults, from `BoundsAssumption` (the bounds are natural numbers):

| Theorem | Hypotheses | Property |
|---|---|---|
| `TypeCorrect` | | `[]TypeOK` |
| `RunningRowsNameTheirPytest` | | `[]RunningRowNamesItsPytest` |
| `AtMostOneRunPerAttempt` | | `[]OneRunPerAttempt` |
| `RowNamesTheRunner` | | `[]KillReachesTheRunner` |
| `FailuresAreExplained` | no `age` | `[]FailureIsExplained` |
| `PendingRowsHaveAMessage` | no `loss`, `webcrash`, `age` | `[]PendingHasMessage` |
| `OnePytestAtATime` | `OneWorker`, no `crash`, `soft` | `[]OnePytestPerTask` |
| `ResultsAreOfTheirAttempt` | `OneWorker` | `SuccessIsItsOwn` |
| `CancelledStaysCancelled` | no `age`, `refused`, `lostreply` | `CancelSticks` |
| `RowsImplementTheDiagram` | `OneClient`, no `refused`, `lostreply`; `OneWorker` or no `age` | `RowsFollowTheDiagram` |

`TypeOK` is not inductive: a message is published for the request a handler
holds, so `KnownIds` adds that handlers, jobs and rows hold numbers of requests
made; `Typed` is the conjunction. The three guards of `_mark_running` are proved
from one invariant `IInv`: a worker about to mark holds a pid of its own task
(`HeldPidIsItsTask`), a pending row has not run (`PendingHasNotRun`), and a
worker in its run whose attempt is still the current one has used up that
attempt's one run and owns the row's pid (`RunnerOwnsItsAttempt`). The last is
what excludes a second worker: it could mark only a pending row, whose `runs` is
0. Nearly every action is `Quiet` (it closes rows or leaves their status and pid
alone, and moves no worker into mark or run), which keeps `IInv` by one lemma;
`Launch`, `MarkRunning` and the two that make a row pending have lemmas of their
own.

Why the hypotheses:

- `age`: a scan fails the rows it listed, whatever has become of them when it
  writes. Without ageing nothing is listed (`Calm`).
- `refused`, `lostreply`: a publish that raises makes `FailDispatch` fail the row,
  although its message, or one of an earlier attempt, may have been taken.
- `OneWorker`: two workers may hold messages of one task; the later one starts a
  second pytest before its `UPDATE` is refused, and ends an attempt that is not its own.
- `OneClient`: two resets may be decided on the same failure.
- `crash`, `soft`: the pytest of a dead worker lives on; the soft limit kills the
  pid in the row, which a late cancel and a retry may have cleared by then.
- `loss`, `webcrash`: what the message of a pending row is lost with.

How they are proved:

- `FailureIsExplained`: a worker about to write a failure has a stage
  (`FailsWithAReason`). For handlers it matters what they loaded, because columns
  that do not differ are not written: one that is to publish did not load stage
  dispatch unless it loaded failed (`LoadsExplained`). One that loaded failed is
  the creator of its row (`CreatorsKnown`), since requests are told apart
  (`RequestsDiffer`), and the row is still failed or in a later attempt
  (`FailedOrPast`): the exception in the property.
- `PendingHasMessage` says little of which message. The inductive form
  (`PendingIsCarried`) says that the number of the current attempt is about to be
  published, in the broker or with a worker, and that nobody revoked it
  (`PendingNotRevoked`). A cancel that is about to revoke holds the number of an
  attempt that is over (`RevokesThePast`), which rests on numbers belonging to
  tasks and growing with attempts (`Numbers`).
- `OnePytestPerTask`: a pytest that is alive is the one its worker is about to
  record or waits for (`LiveIsHeld`).
- `SuccessIsItsOwn`: a worker in its run, or about to record a success, whose row
  is running works for the current attempt (`OwnAttempt`).
- `CancelSticks` is a property of steps: given `Calm` and that no handler has had
  its publish refused (`NoRefusal`), every action either leaves a cancelled
  row alone or starts an attempt.
- The refinement goes through the actions that write rows. It needs that the row
  a handler is about to reset is still failed (`ResetsFailed`), that a cancel
  loaded an open row (`CancelsOpen`), and that no row a scan has listed has become
  successful (`ScansUnfinished`): a single worker cannot scan and finish.

### GenerationTasks

`GenerationTasksProofs`, for any sets and bounds, from `BoundsAssumption`:

| Theorem | Hypotheses | Property |
|---|---|---|
| `TypeCorrect` | | `[]TypeOK` |
| `SummariesAreTrue` | | `[]SummaryIsTrue` |
| `SuccessesAreComplete` | `OneWorker` | `[]SuccessIsComplete` |
| `AttemptsAreClaimedOnce` | `OneWorker` | `[]OneClaimPerAttempt` |
| `DraftsAreOfTheAttempt` | `OneWorker`, `OneClient`, no `refused`, `lostreply` | `DraftsBelongToTheAttempt` |
| `RowImplementsTheDiagram` | the same, and no `soft` | `RowFollowsTheDiagram` |

A summary is written by `Flush` from what a handler assigned, and the handler
may be any worker that holds the attempt. The strengthening says that workers in
a run have numbers of their own, that their counts agree with `drafts` and
`logs` of that number, and that every summary held by a row or by a handler
about to write is sealed: the drafts and logs of its run will not change again.

The other four need one worker, because the claim checks the status it read and
commits without a condition. `SuccessIsComplete` relates two columns that a commit
may write apart: the worker about to write a success has a complete
summary (`OutcomesAreComplete`), what a worker loaded before it writes is still
in the row (`SeenSummary`), and a reset was decided on a failed row
(`ResetsFailedRow`). `OneClaimPerAttempt` needs only that a pending row, and a
worker about to claim, has no claim yet (`ClaimsCounted`). `Owned` is the invariant of
the last two: with one request at a time the row is the worker's, pending while it
is about to claim (`ClaimsPending`), running in its attempt while it drafts
(`DraftsRunning`), running until it writes the outcome (`SettlesRunning`). The
soft limit may strike after the last commit and take a success back, which the
diagram does not allow.

### ImpactDiff and ApiVersions

`ApiVersionsProofs` begins with two theorems about `ImpactDiff`, for any versions:

| Theorem | Statement |
|---|---|
| `NonBreakingIsTransitive` | two changes that are not breaking make one that is not |
| `StepsMissNothing` | what is broken or removed between two versions was reported on the way, if hashes tell contracts apart (`HashesAgree`) |

This is why `analyze` may compare with the latest version only. `HashesAgree` is
what `_hash_op` is for, with sha256 taken to be injective; `ParsedHashesTell`
proves it of the parser (see "Inputs").

Then, for any threads, documents, labels, hash versions and bounds,
from the assumptions of `ApiVersions`:

| Theorem | Hypotheses | Property |
|---|---|---|
| `TypeCorrect` | | `[]TypeOK` |
| `NoBreakEscapes` | `HashesTell(Documents)` | `[]NoBreakIsMissed` |
| `BaselinesAreKept` | | `KeepsItsBaseline` |

`HashesTell` says of all documents what `HashesAgree` says of two versions. All
three hold for both kinds of database.

- `TypeOK` says that ids and labels tell versions apart, so a new version must get
  a free id and a free label. `Typed` adds that ids in use are positive and not
  above the last one given (`IdsGiven`); `NewIdIsNew` is about both ways to give
  ids, `AutoLabelIsFree` is a pigeonhole argument: there are more numbers to try
  than versions.
- `NoBreakIsMissed` looks at moments when no analysis is about to be stored. The
  inductive form speaks of all moments: what is broken between a version and the
  latest is in its history or held by a request about to store
  it (`ReportedOrAboutToBe`), and what a request holds compares its base with its
  own document (`ReportsAreOfTheStep`). `StepsMissNothing` carries it over a new latest
  version.
- `KeepsItsBaseline`: an id that a request remembers, of its base or of the version
  to replace, stands for its label for good (`BindingsHold`). Where a database
  gives the highest id again, that takes two more facts: an id is given again only
  to a version that replaces its last owner, because there is no gap below the
  highest (`TopsAdjacent`); and an analysis never stores under the label of its
  base (`LabelsDiffer`), the collision guard of `analyze`.

### CaseReview and Regression

`CaseReviewProofs`, for any sets and bounds, from `BoundsAssumption` and
`ReviewersAssumption` (no reviewer is called like the absence of one):

| Theorem | Statement |
|---|---|
| `TypeCorrect` | `Spec => []TypeOK` |
| `ActiveCasesAreSigned` | `Spec => []SignedIfActive` |
| `ActiveCasesAreValid` | `~ReuseIds` implies `Spec => []ActiveIsValid` |
| `CasesImplementTheLifecycle` | `~ReuseIds` implies `Spec => CasesFollowTheLifecycle` |

`SignedIfActive` is inductive with the types, since every write of the status
writes the reviewer too. `ActiveIsValid` is not: a confirm activates a row it
validated earlier. `ValidInv` adds that the row a confirm is about to activate
is valid if it is still there (`ConfirmsAreValid`), which updates keep because
they only write accepted values, and that ids in use are ids given earlier
(`IdsAreGiven`), so that no insertion replaces that row. The refinement maps each commit to one
step of `CaseLifecycle` or to none: the same `IdsAreGiven` makes an insertion a
`Create` of an id that was never used.

`RegressionProofs`, for any cases, threads and workers, from `CasesAssumption`
(the cases are finitely many) and `NumbersAssumption`:

| Theorem | Statement |
|---|---|
| `RegressionsAreTraceable` | `Spec => []RegressionIsTraceable` |

`TraceInv` adds that a task's runs and a worker's readings stay within its cases
(`RunsItsOwn`), that the batch of a request lies in the snapshot and has a task
once it was looked up (`BatchesAreAffected`), and that nobody regresses before
there is a snapshot. A write over the record its writer had seen makes both
columns the writer's (`MarkKeeps`), although the ORM writes only what differs.

### Inputs

`InputsProofs`, for any documents, schemas, JSON values, requests, reports,
timeouts and settings that satisfy the assumptions of `Inputs`:

| Theorem | Property |
|---|---|
| `HashesDetermineContracts` | `[]HashDeterminesContract` |
| `NarrowingsAreSeen` | `[]NarrowingIsSeen` |
| `AcceptedTasksHaveTargets` | `[]TargetsAreNotEmpty` |
| `CountersAgree` | `[]CountersMatchTheEntries` |
| `LimitsAreAlwaysOrdered` | `[]TimeIsOrdered` |

A state is one call, so each theorem is about what a function returns and the
argument is in the lemmas.

- The first two rest on `EqualFormsSignAlike` and `EqualFormsAreAlike`: schemas with
  the same normal form have the same signature, and accept the same JSON values if
  the hash drops the same of both. Each goes by a least
  counterexample on the rank of the schema: equal normal forms have the
  same keys as far as they are hashed, equal values there, and equal normal forms below
  `properties` and `items` (`FormsAgree`); what is dropped agrees likewise
  (`DropsAgree`), additional properties with all there is inside. The other walks look at
  nothing else (`FormsSignAlike`, `FormsAreAlike`). A key that a walk reads and
  `_STRUCT_KEYS` lacks breaks the proof where it breaks the code.
  `EqualContracts` and `EqualMeanings` carry
  it over to operations; that several operations may share an id changes nothing
  (`LastIsOne`). `ParsedHashesTell` states the same of the operations of parsed
  documents, in the words of `NoBreakEscapes`: what that theorem supposes, the
  parser provides.
- `NarrowingsAreSeen` is about bodies after resolution, and not about narrowings by
  additionalProperties, const or multipleOf alone: those the code does not see.
  What resolution itself loses is the question of `InliningKeepsTheMeaning`.
- `CountersAgree`: the counters are sums over suites, the entries a set of places.
  Totals are a recursive function on a finite range (`TotalIsSum`); a set of
  places has as many elements as its rows together (`GridCount`), both by a least
  counterexample. `passed` is what remains because every case has exactly one of
  four statuses (`StatusesAddUp`). `ReportsAssumption` says what pytest writes:
  the report is read only after exit codes 0 and 1 (`execution_service.py:132`),
  so every case was collected, and the rendered tests have no fixtures that could
  fail after the test, so each has one outcome.
- `AcceptedTasksHaveTargets` needs that a parsed document has an operation
  (`ParsedHasIds`): the list of untested operations is cut to the document, and
  an empty rest means all.
- `LimitsOfATask`: the soft limit is below the hard one, the hard one below the
  redelivery, and pytest has its whole time when it ends 90 seconds before that.

### RateLimit

`RateLimitProofs`, for any number of threads and any numbers, from
`RateAssumption` (they are natural):

| Theorem | Hypotheses | Property |
|---|---|---|
| `QuotasAreExact` | `Window > 0` | `[]QuotaIsExact` |
| `LateOnesAreFew` | `Window > 0`, `MaxDelay <= Window` | `[]LateOnesAreBounded` |
| `RefusalsFollowTheQuota` | | `[]RefusalsAreEarned` |

`QuotaIsExact` says nothing of counters. What is inductive does, window by window
(`InTimeInv`): a counter with an expiry stays until its window has ended, because
EXPIRE comes after the time that its request read; until then the window has
admitted no more than its counter and no more than the limit. A stretch of a
window's length meets at most two windows. Late requests find the old counter or the one
that the first of them started; `LateInv` says that the second cannot expire before
the last of them is counted, since `MaxDelay` is at most a window. Both hypotheses are needed: with
a window of 0, or with a delay of 3 for a window of 2, TLC finds the
property violated.

### LlmBudget

`LlmBudgetProofs`, for any settings and number of operations, from
`NumbersAssumption` (they are natural numbers):

| Theorem | Statement |
|---|---|
| `TypeCorrect` | `Spec => []TypeOK` |
| `RunsEndNearTheBudget` | `Spec => []EndsNearTheBudget` |
| `BudgetIsUsed` | `Spec => []GivenUpForTheBudget` |

A run lasts at most `Budget + Overrun`, where `Overrun` is the time of the
`SdkRetries + 1` requests of the call that started just in time, all but one of
them with the full read timeout, and the pauses between. The bound alone is not inductive: `InTime`
adds that the requests a call may still send fit before it (`Left`), which holds
at the first because its read timeout is clamped to what remains, and that a
pause ends before the deadline.

`BudgetIsUsed` needs that the pause to come is the one after as many failed calls
(`PausesFollow`) and that no pause is longer than `LongestPause` (`PausesGrow`).
Pauses are a recursive function on a finite range; facts about it are proved by
its least counterexample, as the induction theorems of the library cannot be
instantiated. `TypeOK`, which bounds the calls of an operation by
`MaxRetries + 1`, holds with `CallsLeft`: a call yet to be made is one of those
allowed.

### Model-checked only

- Liveness (`EveryAttemptEnds`, `AgedRunIsRecovered`, `EveryGenerationEnds`,
  `AgedGenerationIsRecovered`), which is out of the prover's reach.
- What the recursive definitions return: `InliningKeepsTheMeaning`,
  `CopiesAreShallow`, `ConversionKeepsTheRequests` (and `PromptKeepsTheFields`, which is violated).
  They are RECURSIVE operators over folds; what they do to every schema is an
  induction over data. That `OpenApi` and `SchemaMeaning` satisfy the assumptions of `Inputs` is
  evaluated by TLC on the schemas and documents of `inputs`.

Every other property of a passing run is stated by a theorem, and the run checks
it on an instance that satisfies the hypotheses of that theorem.

## Plan

Done: the modules above, their instances and the proofs.

1. Proofs: what remains true of a cancelled row when a scan or a failed publish
   is at work.
2. Fix hints: `suggest_fix_hints` calls the LLM between two commits of its session
   and writes the hint over whatever is there; on a failure it returns none and
   keeps an old hint, where `docs/impact-analysis.md` sets it to none.
3. The rendering of test files, as far as a case decides which assertions run.

## Not modelled

HTML reports, prompts beyond the body of an operation, cleaning and risk scan of
texts: text. Configuration, logging, request ids, database set-up, health checks
and application start: no state of a protocol lives there. Tokens and JWTs:
comparisons of strings and a library. `doc_check`, `mock_target`,
`verify_container`: tools run by hand. Listings, results and reports of tasks:
reads that change nothing.
