------------------------- MODULE GenerationTasksProofs -------------------------
(***************************************************************************)
(* Theorems about GenerationTasks.  The types and SummaryIsTrue hold for    *)
(* any number of web threads, workers and operations, any bounds and any   *)
(* choice of EnvKinds: in particular when two workers draft the same       *)
(* attempt and a soft time limit, a scan and a retry write the row in any  *)
(* order.  The rest holds with one worker process, and where a theorem     *)
(* says so with one request at a time and a broker that refuses nothing;   *)
(* those hypotheses are stated in each theorem.                            *)
(***************************************************************************)
EXTENDS GenerationTasks, FiniteSetTheorems, TLAPS

(* Types *)

LEMMA JobType ==
  ASSUME TypeOK, NEW w \in Workers, Busy(w)
  PROVE  wk[w] \in Job
<1>1. wk[w] \in {WkIdle, WkDown} \cup Job
  BY DEF TypeOK
<1>2. wk[w] # WkIdle /\ wk[w] # WkDown
  BY DEF Busy, WkIdle, WkDown
<1> QED
  BY <1>1, <1>2

LEMMA WebJobType ==
  ASSUME TypeOK, NEW c \in Clients, web[c].pc # "idle"
  PROVE  web[c] \in WebJob
BY DEF TypeOK, WebIdle

LEMMA AbsentType == Absent \in Row /\ NoSummary \in Summary
BY DEF Absent, Row, NoSummary, Summary, Status, Stage

LEMMA FailedType ==
  ASSUME NEW stage \in Stage
  PROVE  Failed(stage) \in Outcome
BY AbsentType DEF Failed, Outcome

LEMMA NewJobType ==
  ASSUME NEW pc \in {"guard", "load"}, NEW kind \in {"generate", "scan"}
  PROVE  NewJob(pc, kind) \in Job
<1>1. Failed("timeout") \in Outcome
  BY FailedType DEF Stage
<1> QED
  BY <1>1, AbsentType DEF NewJob, Job

LEMMA WebGotoType ==
  ASSUME TypeOK, NEW c \in Clients, NEW pc \in {"dispatch", "refused"},
         WebGoto(c, pc)
  PROVE  web' \in [Clients -> {WebIdle} \cup WebJob]
BY AbsentType DEF TypeOK, WebGoto, WebJob

LEMMA WebDoneType ==
  ASSUME TypeOK, NEW c \in Clients, WebDone(c)
  PROVE  web' \in [Clients -> {WebIdle} \cup WebJob]
BY DEF TypeOK, WebDone

\* A worker that replaces its job by another job keeps wk well typed.
LEMMA WkType ==
  ASSUME TypeOK, NEW w \in Workers, NEW j \in {WkIdle, WkDown} \cup Job,
         wk' = [wk EXCEPT ![w] = j]
  PROVE  wk' \in [Workers -> {WkIdle, WkDown} \cup Job]
BY DEF TypeOK

LEMMA WkGotoType ==
  ASSUME TypeOK, NEW w \in Workers, Busy(w),
         NEW pc \in {"claim", "loop", "ack"}, WkGoto(w, pc)
  PROVE  wk' \in [Workers -> {WkIdle, WkDown} \cup Job]
<1>1. wk[w] \in Job
  BY JobType
<1>2. [wk[w] EXCEPT !.pc = pc] \in Job
  BY <1>1 DEF Job
<1> QED
  BY <1>2 DEF TypeOK, WkGoto

LEMMA WkSettleType ==
  ASSUME TypeOK, NEW w \in Workers, Busy(w), NEW out \in Outcome,
         WkSettle(w, out)
  PROVE  wk' \in [Workers -> {WkIdle, WkDown} \cup Job]
<1>1. wk[w] \in Job
  BY JobType
<1>2. {} \in SUBSET Ops
  OBVIOUS
<1>3. [wk[w] EXCEPT !.pc = "load", !.done = {}, !.rejected = {},
                    !.out = out, !.seen = Absent] \in Job
  BY <1>1, <1>2, AbsentType DEF Job
<1> QED
  BY <1>3 DEF TypeOK, WkSettle

LEMMA SnapshotType ==
  ASSUME TypeOK, NEW w \in Workers, Busy(w)
  PROVE  Snapshot(w) \in Summary
BY JobType DEF Snapshot, Summary, Job

LEMMA FlushType ==
  ASSUME TypeOK, NEW seen \in Row, NEW new, new.status \in Status,
         new.stage \in Stage, new.summary \in Summary, Flush(seen, new)
  PROVE  /\ row' \in Row
         /\ row'.summary = row.summary \/ row'.summary = new.summary
         /\ new.summary = seen.summary => row'.summary = row.summary
<1> DEFINE status == IF new.status = seen.status THEN row.status ELSE new.status
           stage == IF new.stage = seen.stage THEN row.stage ELSE new.stage
           summary == IF new.summary = seen.summary
                        THEN row.summary ELSE new.summary
           aged == status = "running" /\ row.aged
<1>1. status \in Status /\ stage \in Stage /\ summary \in Summary
  BY DEF TypeOK, Row
<1>2. aged \in BOOLEAN
  OBVIOUS
<1>3. row' = [status |-> status, stage |-> stage, summary |-> summary,
              aged |-> aged]
  BY DEF Flush
<1>4. row'.summary = summary
  BY <1>3
<1>5. row' \in Row
  <2> HIDE DEF status, stage, summary, aged
  <2> QED
    BY <1>1, <1>2, <1>3 DEF Row
<1> QED
  BY <1>4, <1>5

LEMMA FaultType ==
  ASSUME TypeOK, NEW kind, Fault(kind)
  PROVE  faults' \in 0..MaxFaults
BY BoundsAssumption DEF TypeOK, Fault

\* The next operation of a run that is not through is one of the document.
LEMMA NextOpType ==
  ASSUME TypeOK, NEW w \in Workers, Busy(w), OpsLeft(w)
  PROVE  NextOp(w) \in Ops
<1>1. wk[w].done \cup wk[w].rejected \in SUBSET Ops
  BY JobType DEF Job
<1>2. IsFiniteSet(Ops)
  BY FS_Interval, BoundsAssumption DEF Ops
<1>3. IsFiniteSet(wk[w].done \cup wk[w].rejected)
  BY <1>1, <1>2, FS_Subset
<1>4. Cardinality(wk[w].done \cup wk[w].rejected) \in Nat
  BY <1>3, FS_CardinalityType
<1> QED
  BY <1>4, BoundsAssumption DEF NextOp, OpsLeft, Ops

-----------------------------------------------------------------------------
(* The inductive invariant *)

Active(w) == wk[w].pc \in {"parse", "loop"}

\* A summary agrees with what its run has committed.
Matches(s) ==
  /\ Of(drafts, s.run) = s.done
  /\ Of(logs, s.run) = s.done \cup s.rejected

\* ... and that run commits nothing more.
Sealed(s) ==
  s.run # 0 =>
    /\ s.run \in 1..runs
    /\ Matches(s)
    /\ \A w \in Workers : Active(w) => wk[w].run # s.run

ActiveRunsAreCounted ==
  \A w \in Workers : Active(w) => wk[w].run \in 1..runs /\ Matches(Snapshot(w))

ActiveRunsDiffer ==
  \A v, w \in Workers : Active(v) /\ Active(w) /\ v # w => wk[v].run # wk[w].run

NewJobsAreFresh ==
  \A w \in Workers :
    wk[w].pc \in {"guard", "claim"} => wk[w].done = {} /\ wk[w].rejected = {}

OutcomesAreSealed ==
  \A w \in Workers : wk[w].pc \in {"load", "write"} => Sealed(wk[w].out.summary)

IInv ==
  /\ TypeOK
  /\ ActiveRunsAreCounted
  /\ ActiveRunsDiffer
  /\ NewJobsAreFresh
  /\ OutcomesAreSealed
  /\ Sealed(row.summary)

-----------------------------------------------------------------------------
(* Every step keeps the types *)

WkTyped == wk' \in [Workers -> {WkIdle, WkDown} \cup Job]

LEMMA WebStepType ==
  ASSUME IInv, NEW c \in Clients, CreateLookup(c) \/ WebStep(c)
  PROVE  TypeOK'
<1> USE DEF IInv, caseVars, brokerVars, history
<1>1. CASE CreateLookup(c)
  BY <1>1 DEF CreateLookup, TypeOK, WebJob
<1>2. CASE Insert(c)
  <2>1. [Absent EXCEPT !.status = "pending"] \in Row
    BY AbsentType DEF Row, Status
  <2> QED
    BY <1>2, <2>1, WebGotoType DEF Insert, NewAttempt, TypeOK
<1>3. CASE InsertLost(c)
  BY <1>3, WebDoneType DEF InsertLost, TypeOK
<1>4. CASE Reset(c)
  <2> DEFINE new == [web[c].seen EXCEPT !.status = "pending", !.stage = "none"]
  <2>1. web[c].seen \in Row
    BY <1>4, WebJobType DEF Reset, WebJob
  <2>2. new.status \in Status /\ new.stage \in Stage /\ new.summary \in Summary
    BY <2>1 DEF Row, Status, Stage
  <2>3. Flush(web[c].seen, new)
    BY <1>4 DEF Reset
  <2>4. row' \in Row
    <3> HIDE DEF new
    <3> QED
      BY <2>1, <2>2, <2>3, FlushType
  <2> QED
    BY <1>4, <2>4, WebGotoType DEF Reset, NewAttempt, TypeOK
<1>5. CASE Publish(c)
  BY <1>5, WebDoneType DEF Publish, TypeOK
<1>6. CASE PublishRaises(c)
  BY <1>6, WebGotoType, FaultType DEF PublishRaises, TypeOK
<1>7. CASE FailDispatch(c)
  <2>1. [row EXCEPT !.status = "failed", !.stage = "dispatch", !.aged = FALSE] \in Row
    BY DEF TypeOK, Row, Status, Stage
  <2> QED
    BY <1>7, <2>1, WebDoneType DEF FailDispatch, TypeOK
<1> QED
  BY <1>1, <1>2, <1>3, <1>4, <1>5, <1>6, <1>7 DEF WebStep

LEMMA WriteSummary ==
  ASSUME IInv, NEW w \in Workers, Write(w)
  PROVE  /\ row' \in Row
         /\ row'.summary \in {row.summary, wk[w].out.summary}
<1> DEFINE seen == wk[w].seen
           out == wk[w].out
           new == Assigned(seen, out)
<1>1. seen \in Row /\ out \in Outcome
  BY JobType DEF IInv, Write, Busy, Job
<1>2. new.status \in Status /\ new.stage \in Stage /\ new.summary \in Summary
  BY <1>1 DEF Assigned, Row, Outcome, Status
<1>3. new.summary \in {seen.summary, out.summary}
  BY DEF Assigned
<1>4. Flush(seen, new)
  BY DEF Write
<1> HIDE DEF seen, new
<1> QED
  BY <1>1, <1>2, <1>3, <1>4, FlushType DEF IInv

LEMMA SuccessType ==
  ASSUME TypeOK, NEW w \in Workers, Busy(w), NEW status \in {"failed", "success"},
         NEW stage \in Stage
  PROVE  [status |-> status, stage |-> stage, summary |-> Snapshot(w)] \in Outcome
BY SnapshotType DEF Outcome

LEMMA WorkerStepType ==
  ASSUME IInv, NEW w \in Workers, WorkerStep(w) \/ ScanRead(w) \/ Boot(w)
  PROVE  TypeOK'
<1> USE DEF IInv, caseVars, brokerVars, history
<1>1. CASE Receive(w)
  <2>1. NewJob("guard", "generate") \in Job
    BY NewJobType
  <2> QED
    BY <1>1, <2>1, WkType DEF Receive, TypeOK
<1>2. CASE Accept(w)
  BY <1>2, WkGotoType DEF Accept, Busy, TypeOK
<1>3. CASE Skip(w)
  BY <1>3, WkGotoType DEF Skip, Busy, TypeOK
<1>4. CASE Claim(w)
  <2>1. wk[w] \in Job
    BY <1>4, JobType DEF Claim, Busy
  <2>2. [wk[w] EXCEPT !.pc = "parse", !.run = runs + 1, !.att = att] \in Job
    <3>1. runs + 1 \in Nat /\ att \in Nat
      BY DEF TypeOK
    <3> QED
      BY <2>1, <3>1 DEF Job
  <2>3. WkTyped
    BY <1>4, <2>2 DEF Claim, TypeOK, WkTyped
  <2>4. [row EXCEPT !.status = "running", !.aged = FALSE] \in Row
    BY DEF TypeOK, Row, Status
  <2>5. 1..runs \subseteq 1..(runs + 1)
    BY DEF TypeOK
  <2> QED
    BY <1>4, <2>3, <2>4, <2>5 DEF Claim, TypeOK, WkTyped
<1>5. CASE ParseFails(w)
  <2>1. Failed("parse") \in Outcome
    BY FailedType DEF Stage
  <2> QED
    BY <1>5, <2>1, WkSettleType DEF ParseFails, Busy, TypeOK
<1>6. CASE Parse(w)
  BY <1>6, WkGotoType DEF Parse, Busy, TypeOK
<1>7. CASE Unexpected(w)
  <2>1. Failed("internal") \in Outcome
    BY FailedType DEF Stage
  <2> QED
    BY <1>7, <2>1, WkSettleType DEF Unexpected, Busy, TypeOK
<1>8. CASE Deadline(w)
  <2>1. Busy(w)
    BY <1>8 DEF Deadline, Busy
  <2>2. [status |-> "failed", stage |-> "timeout", summary |-> Snapshot(w)] \in Outcome
    BY <2>1, SuccessType DEF Stage
  <2> QED
    BY <1>8, <2>1, <2>2, WkSettleType DEF Deadline, TypeOK
<1>9. CASE Reject(w)
  <2>1. wk[w] \in Job /\ NextOp(w) \in Ops /\ wk[w].run \in 1..runs
    BY <1>9, JobType, NextOpType DEF Reject, Busy, ActiveRunsAreCounted, Active
  <2>2. CountRejected(wk[w], NextOp(w)) \in Job
    BY <2>1 DEF Job, CountRejected
  <2> QED
    BY <1>9, <2>1, <2>2 DEF Reject, TypeOK
<1>10. CASE Draft(w)
  <2>1. wk[w] \in Job /\ NextOp(w) \in Ops /\ wk[w].run \in 1..runs
    BY <1>10, JobType, NextOpType DEF Draft, Busy, ActiveRunsAreCounted, Active
  <2>2. CountDone(wk[w], NextOp(w)) \in Job
    BY <2>1 DEF Job, CountDone
  <2> QED
    BY <1>10, <2>1, <2>2 DEF Draft, TypeOK
<1>11. CASE Finish(w)
  <2>1. Busy(w)
    BY <1>11 DEF Finish, Busy
  <2>2. [status |-> "success", stage |-> "none", summary |-> Snapshot(w)] \in Outcome
    BY <2>1, SuccessType DEF Stage
  <2> QED
    BY <1>11, <2>1, <2>2, WkSettleType DEF Finish, TypeOK
<1>12. CASE Load(w)
  <2>1. wk[w] \in Job
    BY <1>12, JobType DEF Load, Busy
  <2>2. [wk[w] EXCEPT !.pc = "write", !.seen = row] \in Job
    BY <2>1 DEF Job, TypeOK
  <2> QED
    BY <1>12, <2>2 DEF Load, TypeOK
<1>13. CASE Write(w)
  <2>1. wk[w] \in Job
    BY <1>13, JobType DEF Write, Busy
  <2>2. [wk[w] EXCEPT !.pc = "ack", !.seen = Absent] \in Job
    BY <2>1, AbsentType DEF Job
  <2> QED
    BY <1>13, <2>2, WriteSummary DEF Write, TypeOK
<1>14. CASE Ack(w)
  BY <1>14 DEF Ack, TypeOK
<1>15. CASE ScanRead(w)
  <2>1. NewJob("load", "scan") \in Job
    BY NewJobType
  <2> QED
    BY <1>15, <2>1, WkType DEF ScanRead, TypeOK
<1>16. CASE Boot(w)
  BY <1>16 DEF Boot, TypeOK
<1> QED
  BY <1>1, <1>2, <1>3, <1>4, <1>5, <1>6, <1>7, <1>8, <1>9, <1>10, <1>11, <1>12,
     <1>13, <1>14, <1>15, <1>16 DEF WorkerStep

LEMMA EnvironmentType ==
  ASSUME IInv, Environment
  PROVE  TypeOK'
<1> USE DEF IInv, caseVars, brokerVars, history
<1>1. CASE \E w \in Workers : Crash(w)
  BY <1>1, FaultType DEF Crash, TypeOK
<1>2. CASE \E w \in Workers : Redeliver(w)
  BY <1>2, FaultType DEF Redeliver, TypeOK
<1>3. CASE \E w \in Workers : SoftTimeout(w)
  <2>1. PICK w \in Workers : SoftTimeout(w)
    BY <1>3
  <2>2. Failed("timeout") \in Outcome /\ Busy(w)
    BY <2>1, FailedType DEF Stage, SoftTimeout, Generating
  <2> QED
    BY <2>1, <2>2, WkSettleType DEF SoftTimeout, TypeOK
<1>4. CASE \E c \in Clients : WebCrash(c)
  BY <1>4, WebDoneType, FaultType DEF WebCrash, TypeOK
<1>5. CASE Lose
  BY <1>5, FaultType DEF Lose, TypeOK
<1>6. CASE Age
  <2>1. [row EXCEPT !.aged = TRUE] \in Row
    BY DEF TypeOK, Row
  <2> QED
    BY <1>6, <2>1 DEF Age, TypeOK
<1> QED
  BY <1>1, <1>2, <1>3, <1>4, <1>5, <1>6 DEF Environment

LEMMA TypeStep ==
  ASSUME IInv, [Next]_vars
  PROVE  TypeOK'
<1>1. CASE UNCHANGED vars
  BY <1>1 DEF IInv, TypeOK, vars
<1> QED
  BY <1>1, WebStepType, WorkerStepType, EnvironmentType DEF Next

-----------------------------------------------------------------------------
(* Every step keeps the invariant *)

LEMMA OfAdded ==
  ASSUME NEW records, NEW run, NEW op \in Ops
  PROVE  Of(records \cup {<<run, op>>}, run) = Of(records, run) \cup {op}
BY DEF Of

LEMMA OfNothing ==
  ASSUME TypeOK
  PROVE  Of(drafts, runs + 1) = {} /\ Of(logs, runs + 1) = {}
BY DEF TypeOK, Of

\* What a step that commits no draft may do to a worker: a run goes on as it
\* was or stops, and an outcome is the old one, a snapshot or no summary.
Kept(w) ==
  /\ Active(w)' => /\ Active(w)
                   /\ wk'[w].run = wk[w].run
                   /\ wk'[w].done = wk[w].done
                   /\ wk'[w].rejected = wk[w].rejected
  /\ wk'[w].pc \in {"guard", "claim"} => wk'[w].done = {} /\ wk'[w].rejected = {}
  /\ wk'[w].pc \in {"load", "write"} =>
       \/ wk'[w].out.summary.run = 0
       \/ wk[w].pc \in {"load", "write"} /\ wk'[w].out = wk[w].out
       \/ Active(w) /\ wk'[w].out.summary = Snapshot(w)

LEMMA SealedKept ==
  ASSUME IInv, UNCHANGED <<drafts, logs, runs>>, \A w \in Workers : Kept(w),
         NEW s, Sealed(s)
  PROVE  s.run # 0 =>
           /\ s.run \in 1..runs'
           /\ Of(drafts', s.run) = s.done
           /\ Of(logs', s.run) = s.done \cup s.rejected
           /\ \A w \in Workers : Active(w)' => wk'[w].run # s.run
<1> SUFFICES ASSUME s.run # 0
             PROVE  /\ s.run \in 1..runs'
                    /\ Of(drafts', s.run) = s.done
                    /\ Of(logs', s.run) = s.done \cup s.rejected
                    /\ \A w \in Workers : Active(w)' => wk'[w].run # s.run
  OBVIOUS
<1>1. \A w \in Workers : Active(w) => wk[w].run # s.run
  BY DEF Sealed
<1>2. \A w \in Workers : Active(w)' => Active(w) /\ wk'[w].run = wk[w].run
  BY DEF Kept
<1>3. s.run \in 1..runs /\ Of(drafts, s.run) = s.done
        /\ Of(logs, s.run) = s.done \cup s.rejected
  BY DEF Sealed, Matches
<1> QED
  BY <1>1, <1>2, <1>3

LEMMA SnapshotSealed ==
  ASSUME IInv, UNCHANGED <<drafts, logs, runs>>, \A w \in Workers : Kept(w),
         NEW u \in Workers, Active(u), ~Active(u)'
  PROVE  /\ Snapshot(u).run \in 1..runs'
         /\ Of(drafts', Snapshot(u).run) = Snapshot(u).done
         /\ Of(logs', Snapshot(u).run) = Snapshot(u).done \cup Snapshot(u).rejected
         /\ \A w \in Workers : Active(w)' => wk'[w].run # Snapshot(u).run
<1>1. wk[u].run \in 1..runs /\ Matches(Snapshot(u))
  BY DEF IInv, ActiveRunsAreCounted
<1>2. Snapshot(u).run = wk[u].run
  BY DEF Snapshot
<1>3. ASSUME NEW w \in Workers, Active(w)'
      PROVE  wk'[w].run # wk[u].run
  <2>1. Active(w) /\ wk'[w].run = wk[w].run /\ w # u
    BY <1>3 DEF Kept
  <2> QED
    BY <2>1 DEF IInv, ActiveRunsDiffer
<1> QED
  BY <1>1, <1>2, <1>3 DEF Matches

LEMMA Quiet ==
  ASSUME IInv, TypeOK', UNCHANGED <<drafts, logs, runs>>,
         \A w \in Workers : Kept(w),
         \/ row'.summary = row.summary
         \/ row'.summary.run = 0
         \/ \E w \in Workers : /\ wk[w].pc = "write"
                               /\ row'.summary = wk[w].out.summary
  PROVE  IInv'
<1>1. ActiveRunsAreCounted'
  <2> SUFFICES ASSUME NEW w \in Workers, Active(w)'
               PROVE  wk'[w].run \in 1..runs' /\ Matches(Snapshot(w))'
    BY DEF ActiveRunsAreCounted
  <2>1. /\ Active(w)
        /\ wk'[w].run = wk[w].run
        /\ wk'[w].done = wk[w].done
        /\ wk'[w].rejected = wk[w].rejected
    BY DEF Kept
  <2>2. wk[w].run \in 1..runs /\ Matches(Snapshot(w))
    BY <2>1 DEF IInv, ActiveRunsAreCounted
  <2> QED
    BY <2>1, <2>2 DEF Matches, Snapshot, Of
<1>2. ActiveRunsDiffer'
  <2>1. \A w \in Workers : Active(w)' => Active(w) /\ wk'[w].run = wk[w].run
    BY DEF Kept
  <2> QED
    BY <2>1 DEF IInv, ActiveRunsDiffer
<1>3. NewJobsAreFresh'
  BY DEF Kept, NewJobsAreFresh
<1>4. OutcomesAreSealed'
  <2> SUFFICES ASSUME NEW w \in Workers, wk'[w].pc \in {"load", "write"}
               PROVE  Sealed(wk[w].out.summary)'
    BY DEF OutcomesAreSealed
  <2>1. CASE wk'[w].out.summary.run = 0
    BY <2>1 DEF Sealed
  <2>2. CASE wk[w].pc \in {"load", "write"} /\ wk'[w].out = wk[w].out
    <3>1. Sealed(wk[w].out.summary)
      BY <2>2 DEF IInv, OutcomesAreSealed
    <3> QED
      BY <3>1, <2>2, SealedKept DEF Sealed, Matches, Of
  <2>3. CASE Active(w) /\ wk'[w].out.summary = Snapshot(w)
    <3>1. ~Active(w)'
      BY DEF Active
    <3> QED
      BY <3>1, <2>3, SnapshotSealed DEF Sealed, Matches, Of
  <2> QED
    BY <2>1, <2>2, <2>3 DEF Kept
<1>5. Sealed(row.summary)'
  <2>1. CASE row'.summary = row.summary
    <3>1. Sealed(row.summary)
      BY DEF IInv
    <3> QED
      BY <3>1, <2>1, SealedKept DEF Sealed, Matches, Of
  <2>2. CASE \E w \in Workers : wk[w].pc = "write" /\ row'.summary = wk[w].out.summary
    <3>1. PICK w \in Workers : wk[w].pc = "write" /\ row'.summary = wk[w].out.summary
      BY <2>2
    <3>2. Sealed(wk[w].out.summary)
      BY <3>1 DEF IInv, OutcomesAreSealed
    <3> QED
      BY <3>1, <3>2, SealedKept DEF Sealed, Matches, Of
  <2>3. CASE row'.summary.run = 0
    BY <2>3 DEF Sealed
  <2> QED
    BY <2>1, <2>2, <2>3
<1> QED
  BY <1>1, <1>2, <1>3, <1>4, <1>5 DEF IInv

\* A worker that a step leaves alone is kept.
LEMMA SameKept ==
  ASSUME IInv, NEW w \in Workers, wk'[w] = wk[w]
  PROVE  Kept(w)
BY DEF IInv, NewJobsAreFresh, Kept, Active

\* A web handler inserts a row without a summary or leaves it alone.
LEMMA WebStepQuiet ==
  ASSUME IInv, TypeOK', NEW c \in Clients, CreateLookup(c) \/ WebStep(c)
  PROVE  IInv'
<1>1. UNCHANGED <<drafts, logs, runs, wk>>
  BY DEF CreateLookup, WebStep, Insert, InsertLost, Reset, Publish,
         PublishRaises, FailDispatch, NewAttempt, caseVars, history
<1>2. \A w \in Workers : Kept(w)
  BY <1>1, SameKept
<1>3. row'.summary = row.summary \/ row'.summary.run = 0
  <2>1. CASE Insert(c)
    <3>1. [Absent EXCEPT !.status = "pending"].summary = NoSummary
      BY DEF Absent
    <3> QED
      BY <2>1, <3>1 DEF Insert, NoSummary
  <2>2. CASE Reset(c)
    <3> DEFINE new == [web[c].seen EXCEPT !.status = "pending", !.stage = "none"]
    <3>1. web[c].seen \in Row
      BY <2>2, WebJobType DEF IInv, Reset, WebJob
    <3>2. /\ new.status \in Status /\ new.stage \in Stage
          /\ new.summary \in Summary /\ new.summary = web[c].seen.summary
      BY <3>1 DEF Row, Status, Stage
    <3>3. Flush(web[c].seen, new)
      BY <2>2 DEF Reset
    <3> HIDE DEF new
    <3> QED
      BY <3>1, <3>2, <3>3, FlushType DEF IInv
  <2>3. CASE FailDispatch(c)
    BY <2>3 DEF FailDispatch, IInv, TypeOK, Row
  <2>4. CASE CreateLookup(c) \/ InsertLost(c) \/ Publish(c) \/ PublishRaises(c)
    BY <2>4 DEF CreateLookup, InsertLost, Publish, PublishRaises
  <2> QED
    BY <2>1, <2>2, <2>3, <2>4 DEF WebStep
<1> QED
  BY <1>1, <1>2, <1>3, Quiet

LEMMA SettleKept ==
  ASSUME IInv, NEW w \in Workers, Busy(w), NEW out, WkSettle(w, out),
         \/ out.summary.run = 0
         \/ Active(w) /\ out.summary = Snapshot(w)
  PROVE  \A v \in Workers : Kept(v)
<1>1. \A v \in Workers : v # w => wk'[v] = wk[v]
  BY DEF WkSettle, IInv, TypeOK
<1>2. wk'[w].pc = "load" /\ wk'[w].out = out
  <2>1. wk[w] \in Job
    BY JobType DEF IInv
  <2> QED
    BY <2>1 DEF WkSettle, IInv, TypeOK, Job
<1>3. Kept(w)
  BY <1>2 DEF Kept, Active
<1> QED
  BY <1>1, <1>3, SameKept

LEMMA FailedHasNoSummary == \A stage : Failed(stage).summary.run = 0
BY DEF Failed, NoSummary

\* The steps of a worker that neither claim nor commit drafts or logs.
LEMMA WorkerKept ==
  ASSUME IInv, NEW w \in Workers,
         \/ Receive(w) \/ Accept(w) \/ Skip(w) \/ ParseFails(w) \/ Parse(w)
         \/ Unexpected(w) \/ Deadline(w) \/ Finish(w) \/ Load(w) \/ Write(w)
         \/ Ack(w) \/ ScanRead(w) \/ Boot(w) \/ Crash(w) \/ SoftTimeout(w)
  PROVE  \A v \in Workers : Kept(v)
<1>1. CASE Receive(w) \/ ScanRead(w)
  <2>1. /\ NewJob("guard", "generate").pc = "guard"
        /\ NewJob("guard", "generate").done = {}
        /\ NewJob("guard", "generate").rejected = {}
        /\ NewJob("load", "scan").pc = "load"
        /\ NewJob("load", "scan").out.summary.run = 0
    BY FailedHasNoSummary DEF NewJob
  <2>2. \A v \in Workers : \/ wk'[v] = wk[v]
                            \/ wk'[v] = NewJob("guard", "generate")
                            \/ wk'[v] = NewJob("load", "scan")
    BY <1>1 DEF Receive, ScanRead, IInv, TypeOK
  <2>3. ASSUME NEW v \in Workers
        PROVE  Kept(v)
    <3>1. CASE wk'[v] = wk[v]
      BY <3>1, SameKept
    <3>2. CASE wk'[v] \in {NewJob("guard", "generate"), NewJob("load", "scan")}
      BY <3>2, <2>1 DEF Kept, Active
    <3> QED
      BY <3>1, <3>2, <2>2
  <2> QED
    BY <2>3
<1>2. CASE Accept(w) \/ Skip(w) \/ Parse(w) \/ Load(w) \/ Write(w)
  <2>1. wk[w] \in Job
    BY <1>2, JobType DEF IInv, Accept, Skip, Parse, Load, Write, Busy
  <2>2. \A v \in Workers : v # w => wk'[v] = wk[v]
    BY <1>2 DEF Accept, Skip, Parse, Load, Write, WkGoto, IInv, TypeOK
  <2>3. /\ wk'[w].run = wk[w].run /\ wk'[w].done = wk[w].done
        /\ wk'[w].rejected = wk[w].rejected /\ wk'[w].out = wk[w].out
        /\ \/ wk[w].pc = "guard" /\ wk'[w].pc \in {"claim", "ack"}
           \/ wk[w].pc = "parse" /\ wk'[w].pc = "loop"
           \/ wk[w].pc = "load" /\ wk'[w].pc = "write"
           \/ wk[w].pc = "write" /\ wk'[w].pc = "ack"
    <3>1. wk[w] \in Job /\ wk \in [Workers -> {WkIdle, WkDown} \cup Job]
      BY <2>1 DEF IInv, TypeOK
    <3>2. CASE Accept(w) \/ Skip(w)
      BY <3>1, <3>2 DEF Accept, Skip, WkGoto, Job
    <3>3. CASE Parse(w)
      BY <3>1, <3>3 DEF Parse, WkGoto, Job
    <3>4. CASE Load(w)
      BY <3>1, <3>4 DEF Load, Job
    <3>5. CASE Write(w)
      BY <3>1, <3>5 DEF Write, Job
    <3> QED
      BY <1>2, <3>2, <3>3, <3>4, <3>5
  <2>4. Kept(w)
    BY <2>3 DEF Kept, Active, IInv, NewJobsAreFresh
  <2> QED
    BY <2>2, <2>4, SameKept
<1>3. CASE ParseFails(w) \/ Unexpected(w) \/ SoftTimeout(w)
  <2>1. Busy(w)
    BY <1>3 DEF ParseFails, Unexpected, SoftTimeout, Busy, Generating
  <2>2. PICK out : WkSettle(w, out) /\ out.summary.run = 0
    <3>1. \E stage : WkSettle(w, Failed(stage))
      BY <1>3 DEF ParseFails, Unexpected, SoftTimeout
    <3> QED
      BY <3>1, FailedHasNoSummary
  <2> QED
    BY <2>1, <2>2, SettleKept
<1>4. CASE Deadline(w) \/ Finish(w)
  <2>1. Busy(w) /\ Active(w)
    BY <1>4 DEF Deadline, Finish, Busy, Active
  <2>2. PICK out : WkSettle(w, out) /\ out.summary = Snapshot(w)
    BY <1>4 DEF Deadline, Finish
  <2> QED
    BY <2>1, <2>2, SettleKept
<1>5. CASE Ack(w) \/ Boot(w) \/ Crash(w)
  <2>1. \A v \in Workers : wk'[v] = wk[v] \/ wk'[v] \in {WkIdle, WkDown}
    BY <1>5 DEF Ack, Boot, Crash, IInv, TypeOK
  <2>2. ASSUME NEW v \in Workers
        PROVE  Kept(v)
    <3>1. CASE wk'[v] = wk[v]
      BY <3>1, SameKept
    <3>2. CASE wk'[v] \in {WkIdle, WkDown}
      BY <3>2 DEF Kept, Active, WkIdle, WkDown
    <3> QED
      BY <3>1, <3>2, <2>1
  <2> QED
    BY <2>2
<1> QED
  BY <1>1, <1>2, <1>3, <1>4, <1>5

LEMMA WorkerQuiet ==
  ASSUME IInv, TypeOK', NEW w \in Workers,
         \/ Receive(w) \/ Accept(w) \/ Skip(w) \/ ParseFails(w) \/ Parse(w)
         \/ Unexpected(w) \/ Deadline(w) \/ Finish(w) \/ Load(w) \/ Write(w)
         \/ Ack(w) \/ ScanRead(w) \/ Boot(w) \/ Crash(w) \/ SoftTimeout(w)
  PROVE  IInv'
<1>1. UNCHANGED <<drafts, logs, runs>>
  BY DEF Receive, Accept, Skip, ParseFails, Parse, Unexpected, Deadline, Finish,
         Load, Write, Ack, ScanRead, Boot, Crash, SoftTimeout, caseVars, history
<1>2. \/ row'.summary = row.summary
      \/ wk[w].pc = "write" /\ row'.summary = wk[w].out.summary
  <2>1. CASE Write(w)
    BY <2>1, WriteSummary DEF Write
  <2>2. CASE ~Write(w)
    BY <2>2 DEF Receive, Accept, Skip, ParseFails, Parse, Unexpected, Deadline,
                Finish, Load, Ack, ScanRead, Boot, Crash, SoftTimeout
  <2> QED
    BY <2>1, <2>2
<1>3. \A v \in Workers : Kept(v)
  BY WorkerKept
<1> QED
  BY <1>1, <1>2, <1>3, Quiet

\* The claim opens a run that has nothing to its name yet.
LEMMA ClaimKeeps ==
  ASSUME IInv, TypeOK', NEW w \in Workers, Claim(w)
  PROVE  IInv'
<1>1. wk[w] \in Job /\ wk \in [Workers -> {WkIdle, WkDown} \cup Job]
  BY JobType DEF IInv, TypeOK, Claim, Busy
<1>2. \A v \in Workers : v # w => wk'[v] = wk[v]
  BY <1>1 DEF Claim
<1>3. /\ wk'[w].pc = "parse" /\ wk'[w].run = runs + 1
      /\ wk'[w].done = {} /\ wk'[w].rejected = {}
  BY <1>1 DEF Claim, Job, IInv, NewJobsAreFresh
<1>4. runs' = runs + 1 /\ UNCHANGED <<drafts, logs>> /\ runs \in Nat
  BY DEF Claim, caseVars, IInv, TypeOK
<1>5. row'.summary = row.summary
  BY DEF Claim, IInv, TypeOK, Row
<1>6. ASSUME NEW s, Sealed(s)
      PROVE  s.run # 0 =>
               /\ s.run \in 1..runs'
               /\ Of(drafts', s.run) = s.done
               /\ Of(logs', s.run) = s.done \cup s.rejected
               /\ \A v \in Workers : Active(v)' => wk'[v].run # s.run
  BY <1>2, <1>3, <1>4, <1>6 DEF Sealed, Matches, Active
<1>7. ActiveRunsAreCounted'
  <2> SUFFICES ASSUME NEW v \in Workers, Active(v)'
               PROVE  wk'[v].run \in 1..runs' /\ Matches(Snapshot(v))'
    BY DEF ActiveRunsAreCounted
  <2>1. CASE v = w
    BY <2>1, <1>3, <1>4, OfNothing DEF IInv, Matches, Snapshot, Of
  <2>2. CASE v # w
    <3>1. wk'[v] = wk[v] /\ Active(v)
      BY <2>2, <1>2 DEF Active
    <3>2. wk[v].run \in 1..runs /\ Matches(Snapshot(v))
      BY <3>1 DEF IInv, ActiveRunsAreCounted
    <3> QED
      BY <3>1, <3>2, <1>4 DEF Matches, Snapshot, Of
  <2> QED
    BY <2>1, <2>2
<1>8. ActiveRunsDiffer'
  <2>1. \A v \in Workers : v # w /\ Active(v)' => wk'[v].run \in 1..runs
    BY <1>2 DEF Active, IInv, ActiveRunsAreCounted
  <2> QED
    BY <2>1, <1>2, <1>3, <1>4 DEF ActiveRunsDiffer, IInv, Active
<1>9. NewJobsAreFresh'
  BY <1>2, <1>3 DEF NewJobsAreFresh, IInv
<1>10. OutcomesAreSealed'
  <2> SUFFICES ASSUME NEW v \in Workers, wk'[v].pc \in {"load", "write"}
               PROVE  Sealed(wk[v].out.summary)'
    BY DEF OutcomesAreSealed
  <2>1. wk'[v] = wk[v]
    BY <1>2, <1>3
  <2>2. Sealed(wk[v].out.summary)
    BY <2>1 DEF IInv, OutcomesAreSealed
  <2> QED
    BY <2>1, <2>2, <1>6 DEF Sealed, Matches, Of
<1>11. Sealed(row.summary)'
  <2>1. Sealed(row.summary)
    BY DEF IInv
  <2> QED
    BY <2>1, <1>5, <1>6 DEF Sealed, Matches, Of
<1> QED
  BY <1>7, <1>8, <1>9, <1>10, <1>11 DEF IInv

\* A commit is counted by the run that makes it and concerns no other run.
LEMMA CommitKeeps ==
  ASSUME IInv, TypeOK', NEW w \in Workers, Draft(w) \/ Reject(w)
  PROVE  IInv'
<1> DEFINE op == NextOp(w)
           run == wk[w].run
<1>1. /\ wk[w] \in Job /\ wk \in [Workers -> {WkIdle, WkDown} \cup Job]
      /\ wk[w].pc = "loop" /\ op \in Ops
  BY JobType, NextOpType DEF IInv, TypeOK, Draft, Reject, Busy
<1>2. \A v \in Workers : v # w => wk'[v] = wk[v]
  BY <1>1 DEF Draft, Reject
<1>3. logs' = logs \cup {<<run, op>>} /\ row' = row /\ runs' = runs
  BY DEF Draft, Reject, history
<1>4. /\ wk'[w].pc = "loop" /\ wk'[w].run = run
      /\ \/ /\ drafts' = drafts \cup {<<run, op>>}
            /\ wk'[w].done = wk[w].done \cup {op}
            /\ wk'[w].rejected = wk[w].rejected
         \/ /\ drafts' = drafts
            /\ wk'[w].done = wk[w].done
            /\ wk'[w].rejected = wk[w].rejected \cup {op}
  <2>1. CASE Draft(w)
    BY <1>1, <2>1 DEF Draft, CountDone, Job
  <2>2. CASE Reject(w)
    BY <1>1, <2>2 DEF Reject, CountRejected, Job
  <2> QED
    BY <2>1, <2>2
<1>5. run \in 1..runs /\ Matches(Snapshot(w))
  BY <1>1 DEF IInv, ActiveRunsAreCounted, Active
<1> HIDE DEF op, run
<1>6. ASSUME NEW other, other # run
      PROVE  Of(drafts', other) = Of(drafts, other) /\ Of(logs', other) = Of(logs, other)
  <2>1. Of(logs \cup {<<run, op>>}, other) = Of(logs, other)
    BY <1>6 DEF Of
  <2>2. Of(drafts \cup {<<run, op>>}, other) = Of(drafts, other)
    BY <1>6 DEF Of
  <2> QED
    BY <2>1, <2>2, <1>3, <1>4
<1>7. Of(logs', run) = Of(logs, run) \cup {op}
  BY <1>1, <1>3, OfAdded
<1>8. \/ /\ Of(drafts', run) = Of(drafts, run) \cup {op}
         /\ wk'[w].done = wk[w].done \cup {op}
         /\ wk'[w].rejected = wk[w].rejected
      \/ /\ Of(drafts', run) = Of(drafts, run)
         /\ wk'[w].done = wk[w].done
         /\ wk'[w].rejected = wk[w].rejected \cup {op}
  <2>1. Of(drafts \cup {<<run, op>>}, run) = Of(drafts, run) \cup {op}
    BY <1>1, OfAdded
  <2> QED
    BY <2>1, <1>4
<1>9. \A v \in Workers : Active(v)' => Active(v) /\ wk'[v].run = wk[v].run
  BY <1>1, <1>2, <1>4 DEF Active, run
<1>10. ASSUME NEW s, Sealed(s)
       PROVE  s.run # 0 =>
                /\ s.run \in 1..runs'
                /\ Of(drafts', s.run) = s.done
                /\ Of(logs', s.run) = s.done \cup s.rejected
                /\ \A v \in Workers : Active(v)' => wk'[v].run # s.run
  <2> SUFFICES ASSUME s.run # 0
               PROVE  /\ s.run \in 1..runs'
                      /\ Of(drafts', s.run) = s.done
                      /\ Of(logs', s.run) = s.done \cup s.rejected
                      /\ \A v \in Workers : Active(v)' => wk'[v].run # s.run
    OBVIOUS
  <2>1. /\ s.run \in 1..runs /\ Of(drafts, s.run) = s.done
        /\ Of(logs, s.run) = s.done \cup s.rejected
        /\ \A v \in Workers : Active(v) => wk[v].run # s.run
    BY <1>10 DEF Sealed, Matches
  <2>2. s.run # run
    BY <2>1, <1>1 DEF Active, run
  <2> QED
    BY <2>1, <2>2, <1>3, <1>6, <1>9
<1>11. ActiveRunsAreCounted'
  <2> SUFFICES ASSUME NEW v \in Workers, Active(v)'
               PROVE  wk'[v].run \in 1..runs' /\ Matches(Snapshot(v))'
    BY DEF ActiveRunsAreCounted
  <2>1. CASE v = w
    <3>1. Of(drafts, run) = wk[w].done /\ Of(logs, run) = wk[w].done \cup wk[w].rejected
      BY <1>5 DEF Matches, Snapshot, run
    <3>2. Of(drafts', run) = wk'[w].done
      BY <3>1, <1>8
    <3>3. Of(logs', run) = wk'[w].done \cup wk'[w].rejected
      BY <3>1, <1>7, <1>8
    <3> QED
      BY <2>1, <3>2, <3>3, <1>3, <1>4, <1>5 DEF Matches, Snapshot, Of
  <2>2. CASE v # w
    <3>1. wk'[v] = wk[v] /\ Active(v)
      BY <2>2, <1>2 DEF Active
    <3>2. wk[v].run \in 1..runs /\ Matches(Snapshot(v)) /\ wk[v].run # run
      BY <3>1, <2>2, <1>1
         DEF IInv, ActiveRunsAreCounted, ActiveRunsDiffer, Active, run
    <3> QED
      BY <3>1, <3>2, <1>3, <1>6 DEF Matches, Snapshot, Of
  <2> QED
    BY <2>1, <2>2
<1>12. ActiveRunsDiffer'
  BY <1>9 DEF IInv, ActiveRunsDiffer
<1>13. NewJobsAreFresh'
  BY <1>2, <1>4 DEF NewJobsAreFresh, IInv
<1>14. OutcomesAreSealed'
  <2> SUFFICES ASSUME NEW v \in Workers, wk'[v].pc \in {"load", "write"}
               PROVE  Sealed(wk[v].out.summary)'
    BY DEF OutcomesAreSealed
  <2>1. wk'[v] = wk[v]
    BY <1>2, <1>4
  <2>2. Sealed(wk[v].out.summary)
    BY <2>1 DEF IInv, OutcomesAreSealed
  <2> QED
    BY <2>1, <2>2, <1>10 DEF Sealed, Matches, Of
<1>15. Sealed(row.summary)'
  <2>1. Sealed(row.summary)
    BY DEF IInv
  <2> QED
    BY <2>1, <1>3, <1>10 DEF Sealed, Matches, Of
<1> QED
  BY <1>11, <1>12, <1>13, <1>14, <1>15 DEF IInv

LEMMA IInvInit == Init => IInv
<1> SUFFICES ASSUME Init PROVE IInv
  OBVIOUS
<1>1. TypeOK
  BY AbsentType, BoundsAssumption DEF Init, TypeOK
<1>2. \A w \in Workers : wk[w] = WkIdle
  BY DEF Init
<1>3. row.summary.run = 0
  BY DEF Init, Absent, NoSummary
<1> QED
  BY <1>1, <1>2, <1>3
     DEF IInv, ActiveRunsAreCounted, ActiveRunsDiffer, NewJobsAreFresh,
         OutcomesAreSealed, Sealed, Active, WkIdle

LEMMA IInvStep == IInv /\ [Next]_vars => IInv'
<1> SUFFICES ASSUME IInv, [Next]_vars PROVE IInv'
  OBVIOUS
<1>1. TypeOK'
  BY TypeStep
<1>2. ASSUME UNCHANGED <<row, drafts, logs, runs, wk>>
      PROVE  IInv'
  <2>1. \A w \in Workers : Kept(w)
    BY <1>2, SameKept
  <2> QED
    BY <1>1, <1>2, <2>1, Quiet
<1>3. CASE UNCHANGED vars
  BY <1>2, <1>3 DEF vars
<1>4. CASE \E c \in Clients : CreateLookup(c) \/ WebStep(c)
  BY <1>1, <1>4, WebStepQuiet
<1>5. CASE \E w \in Workers : WorkerStep(w) \/ ScanRead(w) \/ Boot(w)
  BY <1>1, <1>5, WorkerQuiet, ClaimKeeps, CommitKeeps DEF WorkerStep
<1>6. CASE \E w \in Workers : Crash(w) \/ SoftTimeout(w)
  BY <1>1, <1>6, WorkerQuiet
<1>7. CASE \/ \E w \in Workers : Redeliver(w)
           \/ \E c \in Clients : WebCrash(c)
           \/ Lose
  BY <1>2, <1>7 DEF Redeliver, WebCrash, Lose, caseVars, history
<1>8. CASE Age
  <2>1. \A w \in Workers : Kept(w)
    BY <1>8, SameKept DEF Age
  <2>2. row'.summary = row.summary
    BY <1>8 DEF Age, IInv, TypeOK, Row
  <2> QED
    BY <1>1, <1>8, <2>1, <2>2, Quiet DEF Age, caseVars, history
<1> QED
  BY <1>3, <1>4, <1>5, <1>6, <1>7, <1>8 DEF Next, Environment

LEMMA IInvAlways == Spec => []IInv
BY IInvInit, IInvStep, PTL DEF Spec

-----------------------------------------------------------------------------
(* Theorems *)

\* Every reachable state is well typed: no draft or log names a run that was
\* not claimed or an operation that is not in the document.
THEOREM TypeCorrect == Spec => []TypeOK
<1>1. IInv => TypeOK
  BY DEF IInv
<1> QED
  BY <1>1, IInvAlways, PTL

\* The summary in the row agrees with the drafts and logs of its run, whoever
\* wrote the row last and however many runs raced for it.
THEOREM SummariesAreTrue == Spec => []SummaryIsTrue
<1>1. IInv => SummaryIsTrue
  BY DEF IInv, Sealed, Matches, SummaryIsTrue
<1> QED
  BY <1>1, IInvAlways, PTL

-----------------------------------------------------------------------------
(* What a step does to the row, to a job and to a handler.                   *)

\* How the row may change: status, summary and what they come from.
RowMoved ==
  \/ row' = row
  \/ /\ row'.summary = row.summary
     /\ \/ \E c \in Clients :
             \/ Reset(c) /\ (web[c].seen.status = "failed" => row'.status = "pending")
             \/ FailDispatch(c) /\ row'.status = "failed"
        \/ \E w \in Workers : Claim(w) /\ row'.status = "running"
        \/ Age /\ row'.status = row.status
  \/ \E c \in Clients : Insert(c) /\ row'.status = "pending" /\ row.status = "absent"
  \/ \E w \in Workers :
       LET seen == wk[w].seen
           out == wk[w].out
           new == IF out.summary = NoSummary THEN seen.summary ELSE out.summary
       IN
       /\ Write(w)
       /\ row'.status = IF out.status = seen.status THEN row.status ELSE out.status
       /\ row'.summary = IF new = seen.summary THEN row.summary ELSE new

LEMMA RowSteps ==
  ASSUME TypeOK, [Next]_vars
  PROVE  RowMoved
<1>1. row \in Row
  BY DEF TypeOK
<1>2. CASE row' = row
  BY <1>2 DEF RowMoved
<1>3. ASSUME NEW c \in Clients, Insert(c)
      PROVE  RowMoved
  <2>1. row'.status = "pending" /\ row.status = "absent"
    BY <1>3 DEF Insert, Absent
  <2> QED
    BY <1>3, <2>1 DEF RowMoved
<1>4. ASSUME NEW c \in Clients, Reset(c)
      PROVE  RowMoved
  <2> DEFINE seen == web[c].seen
             new == [seen EXCEPT !.status = "pending", !.stage = "none"]
  <2>1. seen \in Row
    BY <1>4, WebJobType DEF Reset, WebJob
  <2>2. new.status = "pending" /\ new.summary = seen.summary
    BY <2>1 DEF Row
  <2>3. Flush(seen, new)
    BY <1>4 DEF Reset
  <2> HIDE DEF new
  <2>4. row'.summary = row.summary
    BY <2>2, <2>3 DEF Flush
  <2>5. seen.status = "failed" => row'.status = "pending"
    BY <2>2, <2>3 DEF Flush
  <2> QED
    BY <1>4, <2>4, <2>5 DEF RowMoved
<1>5. ASSUME NEW c \in Clients, FailDispatch(c)
      PROVE  RowMoved
  <2>1. row'.status = "failed" /\ row'.summary = row.summary
    BY <1>1, <1>5 DEF FailDispatch, Row
  <2> QED
    BY <1>5, <2>1 DEF RowMoved
<1>6. ASSUME NEW w \in Workers, Claim(w)
      PROVE  RowMoved
  <2>1. row'.status = "running" /\ row'.summary = row.summary
    BY <1>1, <1>6 DEF Claim, Row
  <2> QED
    BY <1>6, <2>1 DEF RowMoved
<1>7. ASSUME NEW w \in Workers, Write(w)
      PROVE  RowMoved
  <2> DEFINE seen == wk[w].seen
             out == wk[w].out
             new == IF out.summary = NoSummary THEN seen.summary ELSE out.summary
             full == Assigned(seen, out)
  <2>1. full.status = out.status /\ full.summary = new
    BY DEF Assigned
  <2>2. Flush(seen, full)
    BY <1>7 DEF Write
  <2> HIDE DEF full, new
  <2>3. /\ row'.status = IF out.status = seen.status THEN row.status ELSE out.status
        /\ row'.summary = IF new = seen.summary THEN row.summary ELSE new
    BY <2>1, <2>2 DEF Flush
  <2> QED
    BY <1>7, <2>3 DEF RowMoved, new
<1>8. CASE Age
  <2>1. row'.status = row.status /\ row'.summary = row.summary
    BY <1>1, <1>8 DEF Age, Row
  <2> QED
    BY <1>8, <2>1 DEF RowMoved
<1>9. \/ row' = row
      \/ \E c \in Clients : Insert(c) \/ Reset(c) \/ FailDispatch(c)
      \/ \E w \in Workers : Claim(w) \/ Write(w)
      \/ Age
  BY DEF Next, vars, WebStep, WorkerStep, Environment, CreateLookup, InsertLost,
         Publish, PublishRaises, Receive, Accept, Skip, ParseFails, Parse,
         Unexpected, Deadline, Reject, Draft, Finish, Load, Ack, ScanRead, Crash,
         Boot, WebCrash, Redeliver, Lose, SoftTimeout
<1> QED
  BY <1>2, <1>3, <1>4, <1>5, <1>6, <1>7, <1>8, <1>9

\* How the job of worker v may change.
JobMoved(v) ==
  \/ wk'[v] = wk[v]
  \/ wk'[v].pc \in {"idle", "down"}
  \/ Receive(v) /\ wk'[v].pc = "guard" /\ wk'[v].out.status = "failed"
  \/ /\ ScanRead(v) /\ wk'[v].pc = "load" /\ wk'[v].out.status = "failed"
     /\ row.status = "running"
  \/ /\ Busy(v) /\ wk'[v].out = wk[v].out
     /\ \/ Accept(v) /\ wk'[v].pc = "claim"
        \/ Skip(v) /\ wk'[v].pc = "ack"
        \/ Claim(v) /\ wk'[v].pc = "parse" /\ wk'[v].att = att
        \/ Parse(v) /\ wk'[v].pc = "loop" /\ wk'[v].att = wk[v].att
        \/ /\ Draft(v) \/ Reject(v)
           /\ wk'[v].pc = "loop" /\ wk'[v].att = wk[v].att
        \/ Load(v) /\ wk'[v].pc = "write" /\ wk'[v].seen = row
        \/ Write(v) /\ wk'[v].pc = "ack"
  \/ /\ Busy(v) /\ wk'[v].pc = "load"
     /\ \/ /\ wk'[v].out.status = "failed"
           /\ ParseFails(v) \/ Unexpected(v) \/ Deadline(v) \/ SoftTimeout(v)
        \/ /\ wk'[v].out.status = "success" /\ wk'[v].out.summary = Snapshot(v)
           /\ Finish(v)

LEMMA JobSteps ==
  ASSUME TypeOK, [Next]_vars, NEW v \in Workers
  PROVE  JobMoved(v)
<1>1. wk \in [Workers -> {WkIdle, WkDown} \cup Job]
  BY DEF TypeOK
<1>2. CASE wk'[v] = wk[v]
  BY <1>2 DEF JobMoved
<1>3. CASE Receive(v) \/ (ScanRead(v) /\ wk'[v] # wk[v])
  <2>1. /\ NewJob("guard", "generate").pc = "guard"
        /\ NewJob("guard", "generate").out.status = "failed"
        /\ NewJob("load", "scan").pc = "load"
        /\ NewJob("load", "scan").out.status = "failed"
    BY DEF NewJob, Failed
  <2>2. CASE Receive(v)
    <3>1. wk'[v] = NewJob("guard", "generate")
      BY <1>1, <2>2 DEF Receive
    <3> QED
      BY <2>1, <2>2, <3>1 DEF JobMoved
  <2>3. CASE ScanRead(v) /\ wk'[v] # wk[v]
    <3>1. wk'[v] = NewJob("load", "scan") /\ row.status = "running"
      BY <1>1, <2>3 DEF ScanRead
    <3> QED
      BY <2>1, <2>3, <3>1 DEF JobMoved
  <2> QED
    BY <1>3, <2>2, <2>3
<1>4. CASE Ack(v) \/ Crash(v) \/ Boot(v)
  BY <1>1, <1>4 DEF JobMoved, Ack, Crash, Boot, WkIdle, WkDown
<1>5. CASE \/ Accept(v) \/ Skip(v) \/ Claim(v) \/ Parse(v) \/ Draft(v) \/ Reject(v)
           \/ Load(v) \/ Write(v)
  <2>1. Busy(v) /\ wk[v] \in Job
    BY <1>5, JobType DEF Accept, Skip, Claim, Parse, Draft, Reject, Load, Write, Busy
  <2>2. CASE Accept(v) \/ Skip(v) \/ Parse(v)
    <3>1. ASSUME NEW pc, WkGoto(v, pc)
          PROVE  wk'[v].pc = pc /\ wk'[v].out = wk[v].out /\ wk'[v].att = wk[v].att
      BY <1>1, <2>1, <3>1 DEF WkGoto, Job
    <3> QED
      BY <2>1, <2>2, <3>1 DEF JobMoved, Accept, Skip, Parse
  <2>3. CASE Claim(v)
    <3>1. wk'[v] = [wk[v] EXCEPT !.pc = "parse", !.run = runs + 1, !.att = att]
      BY <1>1, <2>3 DEF Claim
    <3>2. wk'[v].pc = "parse" /\ wk'[v].att = att /\ wk'[v].out = wk[v].out
      BY <2>1, <3>1 DEF Job
    <3> QED
      BY <2>1, <2>3, <3>2 DEF JobMoved
  <2>4. CASE Draft(v) \/ Reject(v)
    <3>1. PICK op : wk'[v] = CountDone(wk[v], op) \/ wk'[v] = CountRejected(wk[v], op)
      BY <1>1, <2>4 DEF Draft, Reject
    <3>2. /\ wk'[v].pc = wk[v].pc /\ wk'[v].att = wk[v].att
          /\ wk'[v].out = wk[v].out
      BY <2>1, <3>1 DEF CountDone, CountRejected, Job
    <3>3. wk[v].pc = "loop"
      BY <2>4 DEF Draft, Reject
    <3> QED
      BY <2>1, <2>4, <3>2, <3>3 DEF JobMoved
  <2>5. CASE Load(v)
    <3>1. wk'[v] = [wk[v] EXCEPT !.pc = "write", !.seen = row]
      BY <1>1, <2>5 DEF Load
    <3>2. wk'[v].pc = "write" /\ wk'[v].seen = row /\ wk'[v].out = wk[v].out
      BY <2>1, <3>1 DEF Job
    <3> QED
      BY <2>1, <2>5, <3>2 DEF JobMoved
  <2>6. CASE Write(v)
    <3>1. wk'[v] = [wk[v] EXCEPT !.pc = "ack", !.seen = Absent]
      BY <1>1, <2>6 DEF Write
    <3>2. wk'[v].pc = "ack" /\ wk'[v].out = wk[v].out
      BY <2>1, <3>1 DEF Job
    <3> QED
      BY <2>1, <2>6, <3>2 DEF JobMoved
  <2> QED
    BY <1>5, <2>2, <2>3, <2>4, <2>5, <2>6
<1>6. CASE ParseFails(v) \/ Unexpected(v) \/ Deadline(v) \/ SoftTimeout(v) \/ Finish(v)
  <2>1. Busy(v) /\ wk[v] \in Job
    BY <1>6, JobType DEF ParseFails, Unexpected, Deadline, SoftTimeout, Finish,
       Busy, Generating
  <2>2. ASSUME NEW out, WkSettle(v, out)
        PROVE  wk'[v].pc = "load" /\ wk'[v].out = out
    BY <1>1, <2>1, <2>2 DEF WkSettle, Job
  <2>3. \A stage : Failed(stage).status = "failed"
    BY DEF Failed
  <2>4. CASE ParseFails(v) \/ Unexpected(v) \/ SoftTimeout(v)
    <3>1. \E stage : WkSettle(v, Failed(stage))
      BY <2>4 DEF ParseFails, Unexpected, SoftTimeout
    <3> QED
      BY <2>1, <2>2, <2>3, <2>4, <3>1 DEF JobMoved
  <2>5. CASE Deadline(v)
    BY <2>1, <2>2, <2>5 DEF JobMoved, Deadline
  <2>6. CASE Finish(v)
    BY <2>1, <2>2, <2>6 DEF JobMoved, Finish
  <2> QED
    BY <1>6, <2>4, <2>5, <2>6
<1>7. \/ wk'[v] = wk[v]
      \/ Receive(v) \/ ScanRead(v) \/ Ack(v) \/ Crash(v) \/ Boot(v)
      \/ Accept(v) \/ Skip(v) \/ Claim(v) \/ Parse(v) \/ Draft(v) \/ Reject(v)
      \/ Load(v) \/ Write(v)
      \/ ParseFails(v) \/ Unexpected(v) \/ Deadline(v) \/ SoftTimeout(v) \/ Finish(v)
  <2>1. ASSUME NEW w \in Workers, w # v,
               \/ WorkerStep(w) \/ ScanRead(w) \/ Boot(w) \/ Crash(w)
               \/ Redeliver(w) \/ SoftTimeout(w)
        PROVE  wk'[v] = wk[v]
    BY <1>1, <2>1 DEF WorkerStep, Receive, Accept, Skip, Claim, ParseFails, Parse,
       Unexpected, Deadline, Reject, Draft, Finish, Load, Write, Ack, ScanRead,
       Boot, Crash, Redeliver, SoftTimeout, WkGoto, WkSettle
  <2>2. CASE \/ UNCHANGED vars
             \/ \E c \in Clients : CreateLookup(c) \/ WebStep(c) \/ WebCrash(c)
             \/ Lose \/ Age
    BY <2>2 DEF vars, CreateLookup, WebStep, Insert, InsertLost, Reset, Publish,
       PublishRaises, FailDispatch, WebCrash, Lose, Age
  <2>3. CASE \/ WorkerStep(v) \/ ScanRead(v) \/ Boot(v) \/ Crash(v)
             \/ Redeliver(v) \/ SoftTimeout(v)
    BY <2>3 DEF WorkerStep, Redeliver
  <2> QED
    BY <2>1, <2>2, <2>3 DEF Next, Environment
<1> QED
  BY <1>2, <1>3, <1>4, <1>5, <1>6, <1>7

\* How the handler of thread c may change.
LEMMA HandlerSteps ==
  ASSUME TypeOK, [Next]_vars, NEW c \in Clients
  PROVE  \/ web'[c] = web[c]
         \/ web'[c].pc \in {"idle", "insert", "dispatch"}
         \/ /\ CreateLookup(c) /\ web'[c].pc = "reset"
            /\ web'[c].seen = row /\ row.status = "failed"
         \/ PublishRaises(c)
<1>1. web \in [Clients -> {WebIdle} \cup WebJob]
  BY DEF TypeOK
<1>2. ASSUME NEW d \in Clients, d # c, CreateLookup(d) \/ WebStep(d) \/ WebCrash(d)
      PROVE  web'[c] = web[c]
  BY <1>1, <1>2 DEF CreateLookup, WebStep, Insert, InsertLost, Reset, Publish,
     PublishRaises, FailDispatch, WebCrash, WebGoto, WebDone
<1>3. CASE \/ UNCHANGED vars
           \/ \E w \in Workers : \/ WorkerStep(w) \/ ScanRead(w) \/ Boot(w)
                                 \/ Crash(w) \/ Redeliver(w) \/ SoftTimeout(w)
           \/ Lose \/ Age
  BY <1>3 DEF vars, WorkerStep, Receive, Accept, Skip, Claim, ParseFails, Parse,
     Unexpected, Deadline, Reject, Draft, Finish, Load, Write, Ack, ScanRead,
     Boot, Crash, Redeliver, SoftTimeout, Lose, Age
<1>4. CASE InsertLost(c) \/ Publish(c) \/ FailDispatch(c) \/ WebCrash(c)
           \/ Insert(c) \/ Reset(c)
  BY <1>1, <1>4 DEF InsertLost, Publish, FailDispatch, WebCrash, Insert, Reset,
     WebGoto, WebDone, WebIdle
<1>5. CASE CreateLookup(c)
  <2>1. /\ web'[c].pc = IF row.status = "absent" THEN "insert" ELSE "reset"
        /\ web'[c].seen = row /\ row.status \in {"absent", "failed"}
    BY <1>1, <1>5 DEF CreateLookup
  <2> QED
    BY <1>5, <2>1
<1> QED
  BY <1>2, <1>3, <1>4, <1>5 DEF Next, Environment, WebStep

\* How the histories change.
LEMMA HistorySteps ==
  ASSUME [Next]_vars
  PROVE  \/ att' = att /\ claims' = claims
         \/ \E c \in Clients : (Insert(c) \/ Reset(c)) /\ claims' = 0
         \/ \E w \in Workers : Claim(w) /\ att' = att /\ claims' = claims + 1
BY DEF Next, vars, WebStep, WorkerStep, Environment, CreateLookup, InsertLost,
       Insert, Reset, NewAttempt, Publish, PublishRaises, FailDispatch, Receive,
       Accept, Skip, Claim, ParseFails, Parse, Unexpected, Deadline, Reject, Draft,
       Finish, Load, Write, Ack, ScanRead, Crash, Boot, WebCrash, Redeliver, Lose,
       Age, SoftTimeout, history

-----------------------------------------------------------------------------
(* One worker: what the row holds when it is written                         *)

\* One worker process with one slot, the arrangement README.md documents.
OneWorker == \A v, w \in Workers : v = w

\* No request in flight but one, and every publish that raises published
\* nothing that anybody would know of.
OneClient == \A c, d \in Clients : c = d

\* A run that ends as a success has been through every operation.
OutcomesAreComplete ==
  \A w \in Workers :
    Busy(w) /\ wk[w].out.status = "success" =>
      /\ wk[w].out.summary.done \cup wk[w].out.summary.rejected = Ops
      /\ wk[w].out.summary.run # 0

\* A handler resets a row that it has seen failed.
ResetsFailedRow ==
  \A c \in Clients : web[c].pc = "reset" => web[c].seen.status = "failed"

\* No worker has claimed a row that does not exist.
AbsentIsUntouched ==
  row.status = "absent" =>
    \A w \in Workers : Busy(w) => wk[w].pc \in {"guard", "ack"} /\ wk[w].run = 0

\* What a worker loaded before it writes: the summary is still in the row, and
\* no success has come in between.
SeenSummary ==
  \A w \in Workers :
    wk[w].pc = "write" =>
      /\ row.summary = wk[w].seen.summary
      /\ row.status = "success" => wk[w].seen.status = "success"

\* A run that has nothing left has counted every operation.
LEMMA NothingLeft ==
  ASSUME TypeOK, NEW w \in Workers, Busy(w), ~OpsLeft(w)
  PROVE  wk[w].done \cup wk[w].rejected = Ops
<1> DEFINE counted == wk[w].done \cup wk[w].rejected
<1>1. counted \in SUBSET Ops
  BY JobType DEF Job
<1>2. IsFiniteSet(Ops) /\ Cardinality(Ops) = NumOps
  <2>1. NumOps \in Nat /\ NumOps \in Int /\ 1 \in Int
    BY BoundsAssumption
  <2>2. IsFiniteSet(1..NumOps)
        /\ Cardinality(1..NumOps) = IF 1 > NumOps THEN 0 ELSE NumOps - 1 + 1
    BY <2>1, FS_Interval
  <2>3. (IF 1 > NumOps THEN 0 ELSE NumOps - 1 + 1) = NumOps
    BY <2>1
  <2> QED
    BY <2>2, <2>3 DEF Ops
<1>3. Cardinality(counted) \in Nat /\ Cardinality(counted) <= NumOps
  BY <1>1, <1>2, FS_Subset, FS_CardinalityType
<1>4. ~(Cardinality(counted) + 1 <= NumOps)
  BY DEF OpsLeft, NextOp
<1>5. Cardinality(counted) = NumOps
  BY <1>3, <1>4, BoundsAssumption
<1> QED
  BY <1>1, <1>2, <1>5, FS_Subset

LEMMA OutcomesAreCompleteStep ==
  ASSUME IInv, OutcomesAreComplete, [Next]_vars
  PROVE  OutcomesAreComplete'
<1> SUFFICES ASSUME NEW w \in Workers, Busy(w)', wk'[w].out.status = "success"
             PROVE  /\ wk'[w].out.summary.done \cup wk'[w].out.summary.rejected = Ops
                    /\ wk'[w].out.summary.run # 0
  BY DEF OutcomesAreComplete
<1>1. JobMoved(w)
  BY JobSteps DEF IInv
<1>2. CASE Finish(w) /\ wk'[w].out.summary = Snapshot(w)
  <2>1. Busy(w) /\ Active(w) /\ ~OpsLeft(w)
    BY <1>2 DEF Finish, Busy, Active
  <2>2. wk[w].run \in 1..runs
    BY <2>1 DEF IInv, ActiveRunsAreCounted
  <2>3. wk[w].run # 0
    BY <2>2 DEF IInv, TypeOK
  <2> QED
    BY <1>2, <2>1, <2>3, NothingLeft DEF IInv, Snapshot
<1>3. CASE Busy(w) /\ wk'[w].out = wk[w].out
  BY <1>3 DEF OutcomesAreComplete
<1>4. CASE wk'[w] = wk[w]
  BY <1>4 DEF OutcomesAreComplete, Busy
<1> QED
  BY <1>1, <1>2, <1>3, <1>4 DEF JobMoved, Busy

LEMMA ResetsFailedRowStep ==
  ASSUME TypeOK, ResetsFailedRow, [Next]_vars
  PROVE  ResetsFailedRow'
<1> SUFFICES ASSUME NEW c \in Clients, web'[c].pc = "reset"
             PROVE  web'[c].seen.status = "failed"
  BY DEF ResetsFailedRow
<1>1. ~PublishRaises(c)
  BY DEF PublishRaises, WebGoto, TypeOK
<1> QED
  BY <1>1, HandlerSteps DEF ResetsFailedRow

\* A reset leaves the row pending.
LEMMA ResetMakesPending ==
  ASSUME TypeOK, ResetsFailedRow, RowMoved
  PROVE  \/ row' = row
         \/ /\ row'.summary = row.summary
            /\ \/ \E c \in Clients : Reset(c) /\ row'.status = "pending"
               \/ \E c \in Clients : FailDispatch(c) /\ row'.status = "failed"
               \/ \E w \in Workers : Claim(w) /\ row'.status = "running"
               \/ Age /\ row'.status = row.status
         \/ row'.status = "pending" /\ row.status = "absent"
         \/ \E w \in Workers : Write(w)
BY DEF RowMoved, Reset, ResetsFailedRow

\* A write leaves the status or makes it the outcome's.
LEMMA WriteStatus ==
  ASSUME TypeOK, NEW w \in Workers, Write(w)
  PROVE  /\ row'.status = IF wk[w].out.status = wk[w].seen.status
                            THEN row.status ELSE wk[w].out.status
         /\ wk[w].out.status \in {"failed", "success"}
<1>1. Assigned(wk[w].seen, wk[w].out).status = wk[w].out.status
  BY DEF Assigned
<1>2. Flush(wk[w].seen, Assigned(wk[w].seen, wk[w].out))
  BY DEF Write
<1>3. wk[w] \in Job
  BY JobType DEF Write, Busy
<1> QED
  BY <1>1, <1>2, <1>3 DEF Flush, Job, Outcome

LEMMA AbsentIsUntouchedStep ==
  ASSUME TypeOK, ResetsFailedRow, AbsentIsUntouched, [Next]_vars
  PROVE  AbsentIsUntouched'
<1> SUFFICES ASSUME NEW w \in Workers, row'.status = "absent", Busy(w)'
             PROVE  wk'[w].pc \in {"guard", "ack"} /\ wk'[w].run = 0
  BY DEF AbsentIsUntouched
<1>1. wk \in [Workers -> {WkIdle, WkDown} \cup Job]
  BY DEF TypeOK
<1>2. CASE row.status = "absent"
  <2>1. Busy(w) => wk[w] \in Job /\ wk[w].pc \in {"guard", "ack"} /\ wk[w].run = 0
    BY <1>2, JobType DEF AbsentIsUntouched
  <2>2. CASE Receive(w)
    <3>1. wk'[w] = NewJob("guard", "generate")
      BY <1>1, <2>2 DEF Receive
    <3> QED
      BY <3>1 DEF NewJob
  <2>3. CASE Skip(w)
    <3>1. Busy(w)
      BY <2>3 DEF Skip, Busy
    <3>2. wk'[w] = [wk[w] EXCEPT !.pc = "ack"]
      BY <1>1, <2>3 DEF Skip, WkGoto
    <3> QED
      BY <2>1, <3>1, <3>2 DEF Job
  <2>4. CASE wk'[w] = wk[w]
    BY <2>1, <2>4 DEF Busy
  <2>5. /\ ~Accept(w) /\ ~SoftTimeout(w)
        /\ Busy(w) => /\ ~Claim(w) /\ ~Parse(w) /\ ~Draft(w) /\ ~Reject(w)
                      /\ ~Load(w) /\ ~Write(w) /\ ~ParseFails(w)
                      /\ ~Unexpected(w) /\ ~Deadline(w) /\ ~Finish(w)
    BY <1>2, <2>1 DEF Accept, Claim, Parse, Draft, Reject, Load, Write,
       ParseFails, Unexpected, Deadline, Finish, SoftTimeout, Generating
  <2> QED
    BY <1>2, <2>2, <2>3, <2>4, <2>5, JobSteps DEF JobMoved, Busy
<1>3. CASE row.status # "absent"
  <2>1. ~(\E v \in Workers : Write(v) /\ row'.status = "absent")
    BY <1>3, WriteStatus
  <2>2. RowMoved
    BY RowSteps
  <2> QED
    BY <1>3, <2>1, <2>2, ResetMakesPending
<1> QED
  BY <1>2, <1>3

LEMMA SeenSummaryStep ==
  ASSUME OneWorker, TypeOK, ResetsFailedRow, AbsentIsUntouched, SeenSummary,
         [Next]_vars
  PROVE  SeenSummary'
<1> SUFFICES ASSUME NEW w \in Workers, wk'[w].pc = "write"
             PROVE  /\ row'.summary = wk'[w].seen.summary
                    /\ row'.status = "success" => wk'[w].seen.status = "success"
  BY DEF SeenSummary
<1>1. JobMoved(w) /\ RowMoved
  BY JobSteps, RowSteps
<1>2. CASE Load(w) /\ wk'[w].seen = row
  BY <1>2 DEF Load
<1>3. CASE wk'[w] = wk[w]
  <2>1. /\ row.summary = wk'[w].seen.summary
        /\ row.status = "success" => wk'[w].seen.status = "success"
    BY <1>3 DEF SeenSummary
  <2>2. row.status # "absent"
    BY <1>3 DEF AbsentIsUntouched, Busy
  <2>3. ~(\E v \in Workers : Claim(v) \/ Write(v))
    <3>1. SUFFICES ASSUME NEW v \in Workers, Claim(v) \/ Write(v)
                   PROVE  FALSE
      OBVIOUS
    <3>2. v = w
      BY DEF OneWorker
    <3>3. wk[v].pc = "write" /\ Write(v)
      BY <1>3, <3>1, <3>2 DEF Claim
    <3>4. wk[v] \in Job
      BY <3>3, JobType DEF Busy
    <3>5. wk'[v] = [wk[v] EXCEPT !.pc = "ack", !.seen = Absent]
      BY <3>3 DEF Write, TypeOK
    <3>6. wk'[v].pc = "ack"
      BY <3>4, <3>5 DEF Job
    <3> QED
      BY <3>2, <3>6
  <2> QED
    BY <1>1, <2>1, <2>2, <2>3, ResetMakesPending
<1> QED
  BY <1>1, <1>2, <1>3 DEF JobMoved

LEMMA SuccessIsCompleteStep ==
  ASSUME TypeOK, ResetsFailedRow, OutcomesAreComplete, SeenSummary,
         SuccessIsComplete, [Next]_vars
  PROVE  SuccessIsComplete'
<1> SUFFICES ASSUME row'.status = "success"
             PROVE  row'.summary.done \cup row'.summary.rejected = Ops
  BY DEF SuccessIsComplete
<1>1. RowMoved
  BY RowSteps
<1>2. ASSUME NEW w \in Workers, Write(w)
      PROVE  row'.summary.done \cup row'.summary.rejected = Ops
  <2> DEFINE seen == wk[w].seen
             out == wk[w].out
             new == Assigned(seen, out)
  <2>1. wk[w].pc = "write" /\ Busy(w)
    BY <1>2 DEF Write, Busy
  <2>2. row.summary = seen.summary /\ (row.status = "success" => seen.status = "success")
    BY <2>1 DEF SeenSummary
  <2>3. out.status = "success"
    BY <1>2, <2>2, WriteStatus
  <2>4. out.summary.done \cup out.summary.rejected = Ops /\ out.summary.run # 0
    BY <2>1, <2>3 DEF OutcomesAreComplete
  <2>5. out.summary # NoSummary
    BY <2>4 DEF NoSummary
  <2>6. new.summary = out.summary
    BY <2>5 DEF Assigned
  <2>7. Flush(seen, new)
    BY <1>2 DEF Write
  <2> HIDE DEF new
  <2>8. row'.summary = IF new.summary = seen.summary
                         THEN row.summary ELSE new.summary
    BY <2>7 DEF Flush
  <2> QED
    BY <2>2, <2>4, <2>6, <2>8
<1>3. CASE row.status = "success" /\ row'.summary = row.summary
  BY <1>3 DEF SuccessIsComplete
<1> QED
  BY <1>1, <1>2, <1>3, ResetMakesPending

\* A task that succeeded has counted every operation that was asked for, under
\* any losses, duplicates, crashes, soft time limits and stale-row scans; with
\* two workers the write of one may mix with what the other wrote.
THEOREM SuccessesAreComplete ==
  ASSUME OneWorker
  PROVE  Spec => []SuccessIsComplete
<1> DEFINE Inv == /\ OutcomesAreComplete /\ ResetsFailedRow /\ AbsentIsUntouched
                  /\ SeenSummary /\ SuccessIsComplete
<1>1. Init => Inv
  BY DEF Init, OutcomesAreComplete, ResetsFailedRow, AbsentIsUntouched,
     SeenSummary, SuccessIsComplete, Absent, Busy, WebIdle, WkIdle
<1>2. IInv /\ Inv /\ [Next]_vars => Inv'
  BY OutcomesAreCompleteStep, ResetsFailedRowStep, AbsentIsUntouchedStep,
     SeenSummaryStep, SuccessIsCompleteStep DEF IInv
<1> QED
  BY <1>1, <1>2, IInvAlways, PTL DEF Spec

-----------------------------------------------------------------------------
(* One worker: an attempt is claimed once                                    *)

\* A pending attempt has not been claimed, nor the one a worker is about to.
ClaimsCounted ==
  /\ row.status = "pending" => claims = 0
  /\ \A w \in Workers : wk[w].pc = "claim" => claims = 0

LEMMA ClaimsCountedStep ==
  ASSUME OneWorker, TypeOK, ResetsFailedRow, ClaimsCounted, OneClaimPerAttempt,
         [Next]_vars
  PROVE  ClaimsCounted' /\ OneClaimPerAttempt'
<1>1. RowMoved /\ \A w \in Workers : JobMoved(w)
  BY JobSteps, RowSteps
<1>2. CASE \E c \in Clients : (Insert(c) \/ Reset(c)) /\ claims' = 0
  BY <1>2 DEF ClaimsCounted, OneClaimPerAttempt
<1>3. ASSUME NEW v \in Workers, Claim(v)
      PROVE  ClaimsCounted' /\ OneClaimPerAttempt'
  <2>1. claims = 0 /\ claims' = 1
    BY <1>3 DEF ClaimsCounted, Claim
  <2>2. row' = [row EXCEPT !.status = "running", !.aged = FALSE] /\ row \in Row
    BY <1>3 DEF Claim, TypeOK
  <2>3. row'.status = "running"
    BY <2>2 DEF Row
  <2>4. wk'[v] = [wk[v] EXCEPT !.pc = "parse", !.run = runs + 1, !.att = att]
    BY <1>3 DEF Claim, TypeOK
  <2>5. wk[v] \in Job
    BY <1>3, JobType DEF Claim, Busy
  <2>6. wk'[v].pc = "parse"
    BY <2>4, <2>5 DEF Job
  <2>7. \A w \in Workers : wk'[w].pc # "claim"
    BY <2>6 DEF OneWorker
  <2> QED
    BY <2>1, <2>3, <2>7 DEF ClaimsCounted, OneClaimPerAttempt
<1>4. CASE claims' = claims /\ ~(\E c \in Clients : Insert(c) \/ Reset(c))
           /\ ~(\E w \in Workers : Claim(w))
  <2>1. row'.status = "pending" => row.status = "pending"
    <3>1. ASSUME NEW w \in Workers, Write(w)
          PROVE  row'.status = "pending" => row.status = "pending"
      BY <3>1, WriteStatus
    <3> QED
      BY <1>1, <1>4, <3>1 DEF RowMoved
  <2>2. ASSUME NEW w \in Workers, wk'[w].pc = "claim"
        PROVE  wk[w].pc = "claim" \/ row.status = "pending"
    <3>1. JobMoved(w)
      BY <1>1
    <3> QED
      BY <2>2, <3>1 DEF JobMoved, Accept
  <2> QED
    BY <1>4, <2>1, <2>2 DEF ClaimsCounted, OneClaimPerAttempt
<1>5. \/ claims' = claims
      \/ \E c \in Clients : (Insert(c) \/ Reset(c)) /\ claims' = 0
      \/ \E w \in Workers : Claim(w)
  BY HistorySteps
<1>6. \A c \in Clients : Insert(c) \/ Reset(c) => claims' = 0
  BY DEF Insert, Reset, NewAttempt
<1> QED
  BY <1>2, <1>3, <1>4, <1>5, <1>6

\* However often its message is delivered, lost or redelivered after a crash, an
\* attempt is claimed once, so its operations are paid for once.
THEOREM AttemptsAreClaimedOnce ==
  ASSUME OneWorker
  PROVE  Spec => []OneClaimPerAttempt
<1> DEFINE Inv == ResetsFailedRow /\ ClaimsCounted /\ OneClaimPerAttempt
<1>1. Init => Inv
  BY DEF Init, ResetsFailedRow, ClaimsCounted, OneClaimPerAttempt, WebIdle, WkIdle
<1>2. IInv /\ Inv /\ [Next]_vars => Inv'
  BY ResetsFailedRowStep, ClaimsCountedStep DEF IInv
<1> QED
  BY <1>1, <1>2, IInvAlways, PTL DEF Spec

-----------------------------------------------------------------------------
(* One worker, one request at a time: the row is the worker's while it works *)

NoRefusal == \A c \in Clients : web[c].pc # "refused"

\* Between the lookup and the reset nobody starts the task again.
ResetsFailed == \A c \in Clients : web[c].pc = "reset" => row.status = "failed"

\* A worker about to claim the row still finds it pending ...
ClaimsPending == \A w \in Workers : wk[w].pc = "claim" => row.status = "pending"

\* ... it stays running, in the attempt that was claimed, while it drafts ...
DraftsRunning ==
  \A w \in Workers : Active(w) => row.status = "running" /\ wk[w].att = att

\* ... and until the outcome is written, unless the soft time limit, which may
\* strike after the last commit, has taken the outcome back.
SettlesRunning ==
  \A w \in Workers :
    /\ wk[w].pc \in {"load", "write"}
    /\ wk[w].out.status = "success" \/ "soft" \notin EnvKinds
    => row.status = "running"

Owned == /\ NoRefusal /\ ResetsFailedRow /\ ResetsFailed
         /\ ClaimsPending /\ DraftsRunning /\ SettlesRunning

\* Which steps change the row of a task, and from which status to which.
LEMMA OwnedMoves ==
  ASSUME TypeOK, Owned, [Next]_vars
  PROVE  \/ row' = row
         \/ Age /\ row'.status = row.status
         \/ \E c \in Clients :
              \/ Insert(c) /\ row.status = "absent" /\ row'.status = "pending"
              \/ Reset(c) /\ row.status = "failed" /\ row'.status = "pending"
         \/ \E w \in Workers :
              \/ Claim(w) /\ row.status = "pending" /\ row'.status = "running"
              \/ /\ Write(w)
                 /\ \/ row.status = "running"
                       /\ row'.status \in {"running", "success", "failed"}
                    \/ "soft" \in EnvKinds /\ wk[w].out.status = "failed"
                       /\ row'.status \in {row.status, "failed"}
<1>1. RowMoved
  BY RowSteps
<1>2. ASSUME NEW c \in Clients, FailDispatch(c)
      PROVE  FALSE
  BY <1>2 DEF FailDispatch, Owned, NoRefusal
<1>3. ASSUME NEW c \in Clients, Reset(c)
      PROVE  row.status = "failed" /\ web[c].seen.status = "failed"
  BY <1>3 DEF Reset, Owned, ResetsFailed, ResetsFailedRow
<1>4. ASSUME NEW w \in Workers, Claim(w)
      PROVE  row.status = "pending"
  BY <1>4 DEF Claim, Owned, ClaimsPending
<1>5. ASSUME NEW w \in Workers, Write(w)
      PROVE  \/ row.status = "running"
                /\ row'.status \in {"running", "success", "failed"}
             \/ "soft" \in EnvKinds /\ wk[w].out.status = "failed"
                /\ row'.status \in {row.status, "failed"}
  <2>1. wk[w].out.status = "success" \/ "soft" \notin EnvKinds
          => row.status = "running"
    BY <1>5 DEF Write, Owned, SettlesRunning
  <2> QED
    BY <1>5, <2>1, WriteStatus
<1> QED
  BY <1>1, <1>2, <1>3, <1>4, <1>5 DEF RowMoved, Insert

LEMMA OwnedWebStep ==
  ASSUME OneClient, {"refused", "lostreply"} \cap EnvKinds = {}, TypeOK, Owned,
         [Next]_vars
  PROVE  NoRefusal' /\ ResetsFailedRow' /\ ResetsFailed'
<1>1. ASSUME NEW c \in Clients
      PROVE  ~PublishRaises(c)
  BY DEF PublishRaises, Fault
<1>2. NoRefusal'
  <2> SUFFICES ASSUME NEW c \in Clients
               PROVE  web'[c].pc # "refused"
    BY DEF NoRefusal
  <2> QED
    BY <1>1, HandlerSteps DEF Owned, NoRefusal
<1>3. ResetsFailedRow'
  BY ResetsFailedRowStep DEF Owned
<1>4. ASSUME NEW c \in Clients, web'[c].pc = "reset"
      PROVE  row'.status = "failed"
  <2>1. CASE CreateLookup(c) /\ row.status = "failed"
    BY <2>1 DEF CreateLookup
  <2>2. CASE web'[c] = web[c]
    <3>1. row.status = "failed"
      BY <1>4, <2>2 DEF Owned, ResetsFailed
    <3>2. ASSUME NEW d \in Clients, Reset(d)
          PROVE  FALSE
      <4>1. d = c
        BY DEF OneClient
      <4>2. web'[c].pc = "dispatch"
        BY <3>2, <4>1 DEF Reset, WebGoto, TypeOK
      <4> QED
        BY <1>4, <4>2
    <3> QED
      BY <3>1, <3>2, OwnedMoves
  <2> QED
    BY <1>1, <1>4, <2>1, <2>2, HandlerSteps
<1> QED
  BY <1>2, <1>3, <1>4 DEF ResetsFailed

\* A job that is not writing keeps its row: nobody else changes it.
LEMMA RowKept ==
  ASSUME OneWorker, TypeOK, Owned, [Next]_vars, NEW w \in Workers,
         ~Claim(w), ~Write(w), row.status \in {"pending", "running"}
  PROVE  row'.status = row.status /\ att' = att
<1>1. row'.status = row.status
  BY OwnedMoves DEF OneWorker
<1>2. ASSUME NEW c \in Clients
      PROVE  ~Insert(c) /\ ~Reset(c)
  BY DEF Insert, Reset, Owned, ResetsFailed
<1> QED
  BY <1>1, <1>2, HistorySteps

LEMMA OwnedJobStep ==
  ASSUME OneWorker, TypeOK, Owned, [Next]_vars
  PROVE  ClaimsPending' /\ DraftsRunning' /\ SettlesRunning'
<1> SUFFICES ASSUME NEW w \in Workers
             PROVE  /\ wk'[w].pc = "claim" => row'.status = "pending"
                    /\ wk'[w].pc \in {"parse", "loop"}
                         => row'.status = "running" /\ wk'[w].att = att'
                    /\ /\ wk'[w].pc \in {"load", "write"}
                       /\ wk'[w].out.status = "success" \/ "soft" \notin EnvKinds
                       => row'.status = "running"
  BY DEF ClaimsPending, DraftsRunning, SettlesRunning, Active
<1>1. JobMoved(w)
  BY JobSteps
<1>2. /\ wk[w].pc = "claim" => row.status = "pending"
      /\ wk[w].pc \in {"parse", "loop"} => row.status = "running" /\ wk[w].att = att
      /\ /\ wk[w].pc \in {"load", "write"}
         /\ wk[w].out.status = "success" \/ "soft" \notin EnvKinds
         => row.status = "running"
  BY DEF Owned, ClaimsPending, DraftsRunning, SettlesRunning, Active
<1>3. CASE wk'[w].pc \notin {"claim", "parse", "loop", "load", "write"}
  BY <1>3
<1>4. CASE Claim(w)
  <2>1. wk'[w].pc = "parse" /\ wk'[w].att = att
    <3>1. wk'[w] = [wk[w] EXCEPT !.pc = "parse", !.run = runs + 1, !.att = att]
      BY <1>4 DEF Claim, TypeOK
    <3>2. wk[w] \in Job
      BY <1>4, JobType DEF Claim, Busy
    <3> QED
      BY <3>1, <3>2 DEF Job
  <2>2. row' = [row EXCEPT !.status = "running", !.aged = FALSE] /\ row \in Row
        /\ att' = att
    BY <1>4 DEF Claim, TypeOK
  <2>3. row'.status = "running" /\ att' = att
    BY <2>2 DEF Row
  <2> QED
    BY <2>1, <2>3
<1>5. CASE Write(w)
  <2>1. wk'[w].pc = "ack"
    <3>1. wk'[w] = [wk[w] EXCEPT !.pc = "ack", !.seen = Absent]
      BY <1>5 DEF Write, TypeOK
    <3>2. wk[w] \in Job
      BY <1>5, JobType DEF Write, Busy
    <3> QED
      BY <3>1, <3>2 DEF Job
  <2> QED
    BY <2>1
<1>6. CASE /\ ~Claim(w) /\ ~Write(w)
           /\ wk'[w].pc \in {"claim", "parse", "loop", "load", "write"}
  <2>1. row.status \in {"pending", "running"} => row'.status = row.status /\ att' = att
    BY <1>6, RowKept
  <2>2. CASE wk'[w] = wk[w]
    BY <1>2, <2>1, <2>2
  <2>3. CASE ScanRead(w) /\ row.status = "running" /\ wk'[w].pc = "load"
    BY <2>1, <2>3
  <2>4. CASE Accept(w) /\ wk'[w].pc = "claim"
    BY <2>1, <2>4 DEF Accept
  <2>5. CASE /\ Parse(w) \/ Draft(w) \/ Reject(w)
             /\ wk'[w].pc = "loop" /\ wk'[w].att = wk[w].att
    BY <1>2, <2>1, <2>5 DEF Parse, Draft, Reject
  <2>6. CASE Load(w) /\ wk'[w].out = wk[w].out /\ wk'[w].pc = "write"
    BY <1>2, <2>1, <2>6 DEF Load
  <2>7. CASE /\ ParseFails(w) \/ Unexpected(w) \/ Deadline(w) \/ Finish(w)
             /\ wk'[w].pc = "load"
    BY <1>2, <2>1, <2>7 DEF ParseFails, Unexpected, Deadline, Finish
  <2>8. CASE SoftTimeout(w) /\ wk'[w].out.status = "failed" /\ wk'[w].pc = "load"
    BY <2>8 DEF SoftTimeout
  <2> QED
    BY <1>1, <1>6, <2>2, <2>3, <2>4, <2>5, <2>6, <2>7, <2>8 DEF JobMoved
<1> QED
  BY <1>3, <1>4, <1>5, <1>6

LEMMA OwnedInit == Init => Owned
BY DEF Init, Owned, NoRefusal, ResetsFailedRow, ResetsFailed, ClaimsPending,
   DraftsRunning, SettlesRunning, Active, WebIdle, WkIdle

LEMMA OwnedStep ==
  ASSUME OneWorker, OneClient, {"refused", "lostreply"} \cap EnvKinds = {},
         TypeOK, Owned, [Next]_vars
  PROVE  Owned'
BY OwnedWebStep, OwnedJobStep DEF Owned

\* A step that stores drafts is one of the worker that claimed the attempt.
LEMMA DraftSteps ==
  ASSUME IInv, Owned, [Next]_vars, drafts' # drafts
  PROVE  /\ row.status = "running"
         /\ \E w \in Workers : wk'[w] # wk[w] /\ wk[w].att = att
<1>1. PICK w \in Workers : Draft(w)
  BY DEF Next, vars, WebStep, WorkerStep, Environment, CreateLookup, Insert,
     InsertLost, Reset, Publish, PublishRaises, FailDispatch, Receive, Accept,
     Skip, Claim, ParseFails, Parse, Unexpected, Deadline, Reject, Draft, Finish,
     Load, Write, Ack, ScanRead, Crash, Boot, WebCrash, Redeliver, Lose, Age,
     SoftTimeout, caseVars
<1>2. Active(w) /\ Busy(w) /\ OpsLeft(w)
  BY <1>1 DEF Draft, Active, Busy
<1>3. row.status = "running" /\ wk[w].att = att
  BY <1>2 DEF Owned, DraftsRunning
<1>4. wk[w] \in Job /\ NextOp(w) \in Ops
  BY <1>2, JobType, NextOpType DEF IInv
<1>5. NextOp(w) \notin wk[w].done
  <2>1. <<wk[w].run, NextOp(w)>> \notin drafts
    BY <1>1 DEF Draft
  <2>2. Of(drafts, wk[w].run) = wk[w].done
    BY <1>2 DEF IInv, ActiveRunsAreCounted, Matches, Snapshot
  <2> QED
    BY <2>1, <2>2 DEF Of
<1>6. wk'[w] = CountDone(wk[w], NextOp(w))
  BY <1>1 DEF Draft, IInv, TypeOK
<1>7. wk'[w].done = wk[w].done \cup {NextOp(w)}
  BY <1>4, <1>6 DEF CountDone, Job
<1> QED
  BY <1>3, <1>5, <1>7

\* Drafts are stored only while the row is running and by the worker that
\* claimed the attempt it is in, also under a soft time limit and stale-row scans.
\* With a second worker or request, or an attempt failed although its message
\* was published, an older run may still be drafting.
THEOREM DraftsAreOfTheAttempt ==
  ASSUME OneWorker, OneClient, {"refused", "lostreply"} \cap EnvKinds = {}
  PROVE  Spec => DraftsBelongToTheAttempt
<1>1. IInv /\ Owned /\ [Next]_vars => Owned'
  BY OwnedStep DEF IInv
<1>2. IInv /\ Owned /\ [Next]_vars =>
        [drafts' # drafts =>
           /\ row.status = "running"
           /\ \E w \in Workers : wk'[w] # wk[w] /\ wk[w].att = att]_vars
  BY DraftSteps
<1> QED
  BY <1>1, <1>2, OwnedInit, IInvAlways, PTL DEF Spec, DraftsBelongToTheAttempt

-----------------------------------------------------------------------------
(* The state diagram                                                         *)

LEMMA StatusChange ==
  ASSUME NEW s \in Status, row'.status = s
  PROVE  RowStatus' = [RowStatus EXCEPT !["generation"] = s]
BY DEF RowStatus

LEMMA LifecycleStep ==
  ASSUME "soft" \notin EnvKinds, TypeOK, Owned, [Next]_vars
  PROVE  [Lifecycle!Next]_RowStatus
<1>1. RowStatus["generation"] = row.status
  BY DEF RowStatus
<1>2. CASE row'.status = row.status
  BY <1>2 DEF RowStatus
<1>3. ASSUME NEW from, NEW to \in Status, row.status = from, row'.status = to
      PROVE  Lifecycle!Move("generation", {from}, to)
  BY <1>1, <1>3, StatusChange DEF Lifecycle!Move
<1>4. CASE row.status = "absent" /\ row'.status = "pending"
  BY <1>3, <1>4 DEF Lifecycle!Next, Lifecycle!Create, Status
<1>5. CASE row.status = "failed" /\ row'.status = "pending"
  BY <1>3, <1>5 DEF Lifecycle!Next, Lifecycle!Retry, Status
<1>6. CASE row.status = "pending" /\ row'.status = "running"
  BY <1>3, <1>6 DEF Lifecycle!Next, Lifecycle!Start, Status
<1>7. CASE row.status = "running" /\ row'.status = "success"
  BY <1>3, <1>7 DEF Lifecycle!Next, Lifecycle!Succeed, Status
<1>8. CASE row.status = "running" /\ row'.status = "failed"
  <2>1. Lifecycle!Fail({"generation"})
    BY <1>1, <1>8 DEF Lifecycle!Fail, RowStatus
  <2> QED
    BY <2>1 DEF Lifecycle!Next
<1> QED
  BY <1>2, <1>4, <1>5, <1>6, <1>7, <1>8, OwnedMoves

\* The row of a generation task follows the state diagram of docs/database.md,
\* with one request at a time, one worker that no soft time limit interrupts and
\* a broker that accepts what is published.
THEOREM RowImplementsTheDiagram ==
  ASSUME OneWorker, OneClient, {"refused", "lostreply", "soft"} \cap EnvKinds = {}
  PROVE  Spec => RowFollowsTheDiagram
<1>1. Init => Lifecycle!Init
  BY DEF Init, Lifecycle!Init, RowStatus, Absent
<1>2. IInv /\ Owned /\ [Next]_vars => Owned'
  BY OwnedStep DEF IInv
<1>3. IInv /\ Owned /\ [Next]_vars => [Lifecycle!Next]_RowStatus
  BY LifecycleStep DEF IInv
<1> QED
  BY <1>1, <1>2, <1>3, OwnedInit, IInvAlways, PTL
  DEF Spec, RowFollowsTheDiagram, Lifecycle!Spec
=============================================================================
