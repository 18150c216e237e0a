------------------------- MODULE ExecutionTasksProofs -------------------------
(***************************************************************************)
(* Theorems about ExecutionTasks, for any number of web threads, workers   *)
(* and tasks, any bounds and any choice of EnvKinds.  Those that hold only *)
(* for one thread, one worker or without some kind of event say so in      *)
(* their hypotheses.                                                       *)
(***************************************************************************)
EXTENDS ExecutionTasks, TLAPS

\* Where a handler has a request of its own.
HoldsRequest == {"refresh", "dispatch", "refused", "record"}

(* Types of the handlers, by their program counters. *)

LEMMA WebJobType ==
  ASSUME TypeOK, NEW c \in Clients, web[c].pc # "idle"
  PROVE  web[c] \in WebJob
BY DEF TypeOK, WebState, WebIdle, WebJob

LEMMA ExecJobType ==
  ASSUME TypeOK, NEW w \in Workers, wk[w].pc \in ExecPC
  PROVE  wk[w] \in ExecJob
<1>1. wk[w] \in {WkIdle, WkDown} \cup ExecJob \cup ScanJob
  BY DEF TypeOK, WkState
<1>2. wk[w] # WkIdle /\ wk[w] # WkDown
  BY DEF WkIdle, WkDown, ExecPC
<1>3. wk[w] \notin ScanJob
  BY DEF ScanJob, ExecPC
<1> QED
  BY <1>1, <1>2, <1>3

LEMMA ScanJobType ==
  ASSUME TypeOK, NEW w \in Workers, wk[w].pc \in {"scanKill", "scanGet", "scanWrite"}
  PROVE  wk[w] \in ScanJob
<1>1. wk[w] \in {WkIdle, WkDown} \cup ExecJob \cup ScanJob
  BY DEF TypeOK, WkState
<1>2. wk[w] # WkIdle /\ wk[w] # WkDown
  BY DEF WkIdle, WkDown
<1>3. wk[w] \notin ExecJob
  BY DEF ExecJob, ExecPC
<1> QED
  BY <1>1, <1>2, <1>3

LEMMA WebGotoType ==
  ASSUME TypeOK, NEW c \in Clients, web[c].pc # "idle",
         NEW pc \in {"insert", "reset", "refresh", "dispatch", "refused",
                     "record", "kill", "cancel", "revoke"},
         WebGoto(c, pc)
  PROVE  web' \in [Clients -> WebState]
<1>1. web[c] \in WebJob
  BY WebJobType
<1>2. [web[c] EXCEPT !.pc = pc] \in WebJob
  BY <1>1 DEF WebJob
<1> QED
  BY <1>2 DEF TypeOK, WebGoto, WebState

LEMMA WebDoneType ==
  ASSUME TypeOK, NEW c \in Clients, WebDone(c)
  PROVE  web' \in [Clients -> WebState]
BY DEF TypeOK, WebDone, WebState

LEMMA WebLoadType ==
  ASSUME TypeOK, NEW c \in Clients, NEW t \in Tasks, NEW n \in Nat,
         NEW pc \in {"insert", "reset", "dispatch", "kill", "cancel"},
         WebLoad(c, t, n, pc)
  PROVE  web' \in [Clients -> WebState]
BY DEF TypeOK, WebLoad, WebState, WebJob, Row

LEMMA WkGotoExecType ==
  ASSUME TypeOK, NEW w \in Workers, wk[w].pc \in ExecPC, NEW pc \in ExecPC,
         WkGoto(w, pc)
  PROVE  wk' \in [Workers -> WkState]
<1>1. wk[w] \in ExecJob
  BY ExecJobType
<1>2. [wk[w] EXCEPT !.pc = pc] \in ExecJob
  BY <1>1 DEF ExecJob
<1> QED
  BY <1>2 DEF TypeOK, WkGoto, WkState

LEMMA WkFailType ==
  ASSUME TypeOK, NEW w \in Workers, wk[w].pc \in ExecPC, NEW stage \in Stage,
         WkFail(w, stage)
  PROVE  wk' \in [Workers -> WkState]
<1>1. wk[w] \in ExecJob
  BY ExecJobType
<1>2. [wk[w] EXCEPT !.pc = "fail", !.stage = stage] \in ExecJob
  BY <1>1 DEF ExecJob, ExecPC
<1> QED
  BY <1>2 DEF TypeOK, WkFail, WkState

LEMMA WkReturnType ==
  ASSUME TypeOK, NEW w \in Workers, wk[w].pc \in ExecPC, WkReturn(w)
  PROVE  wk' \in [Workers -> WkState]
<1>1. wk[w] \in ExecJob
  BY ExecJobType
<1>2. [pc |-> "ack", req |-> wk[w].req, task |-> wk[w].task, att |-> 0,
       pid |-> 0, stage |-> "none"] \in ExecJob
  BY <1>1 DEF ExecJob, ExecPC, Stage
<1> QED
  BY <1>2 DEF TypeOK, WkReturn, WkState

LEMMA FailedRowType ==
  ASSUME NEW r \in Row, NEW stage \in Stage
  PROVE  FailedRow(r, stage) \in Row
BY DEF FailedRow, Row, Status

LEMMA RefusedRowType ==
  ASSUME NEW r \in Row, NEW c \in Clients
  PROVE  RefusedRow(r, web[c]) \in Row /\ RefusedRow(r, web[c]).mid = r.mid
<1> DEFINE status == Flushed("failed", web[c].status, r.status)
           stage == Flushed("dispatch", web[c].stage, r.stage)
           aged == IF status = "running" THEN r.aged ELSE FALSE
<1>1. status \in Status /\ stage \in Stage /\ aged \in BOOLEAN
  BY DEF Flushed, Row, Status, Stage
<1>2. RefusedRow(r, web[c]) =
        [r EXCEPT !.status = status, !.stage = stage, !.aged = aged]
  BY DEF RefusedRow
<1> HIDE DEF status, stage, aged
<1> QED
  BY <1>1, <1>2 DEF Row

LEMMA RecordedRowType ==
  ASSUME NEW r \in Row, NEW n \in Nat, NEW m \in 1..n
  PROVE  RecordedRow(r, m) \in Row /\ RecordedRow(r, m).mid <= n
<1> DEFINE aged == IF r.status = "running" THEN r.aged ELSE FALSE
<1>1. aged \in BOOLEAN
  BY DEF Row
<1>2. m \in Nat /\ m <= n
  OBVIOUS
<1> HIDE DEF aged
<1>3. [r EXCEPT !.mid = m, !.aged = aged] \in Row
  BY <1>1, <1>2 DEF Row
<1>4. [r EXCEPT !.mid = m, !.aged = aged].mid = m
  BY DEF Row
<1> QED
  BY <1>2, <1>3, <1>4 DEF RecordedRow, aged

LEMMA ScannedRowType ==
  ASSUME TypeOK, NEW w \in Workers, NEW t \in Tasks
  PROVE  ScannedRow(w, t) \in Row /\ ScannedRow(w, t).mid = row[t].mid
<1> DEFINE status == IF t \in wk[w].settled THEN row[t].status ELSE "failed"
           stage == IF t \in wk[w].staged THEN row[t].stage ELSE ScanStage(w, t)
           aged == IF status = "running" THEN row[t].aged ELSE FALSE
<1>1. row[t] \in Row
  BY DEF TypeOK
<1>2. status \in Status /\ stage \in Stage /\ aged \in BOOLEAN
  BY <1>1 DEF Row, Status, Stage, ScanStage
<1>3. ScannedRow(w, t) =
        [row[t] EXCEPT !.status = status, !.stage = stage, !.aged = aged]
  BY DEF ScannedRow
<1> HIDE DEF status, stage, aged
<1> QED
  BY <1>1, <1>2, <1>3 DEF Row

LEMMA FaultType ==
  ASSUME TypeOK, NEW kind, Fault(kind)
  PROVE  faults' \in 0..MaxFaults
BY BoundsAssumption DEF TypeOK, Fault

LEMMA KillTreesType ==
  ASSUME TypeOK, NEW pids, KillTrees(pids)
  PROVE  live' \subseteq live /\ faults' \in 0..MaxFaults
BY FaultType DEF TypeOK, KillTrees

-----------------------------------------------------------------------------
(* Every step keeps the types.  TypeOK alone does not survive Publish and    *)
(* Receive: the request numbers that rows and handlers hold must be those of *)
(* requests made.                                                            *)

KnownIds ==
  /\ \A t \in Tasks : row[t].mid <= Len(requests)
  /\ \A c \in Clients : web[c].pc # "idle" => web[c].mid <= Len(requests)
  /\ \A c \in Clients :
       web[c].pc \in HoldsRequest => web[c].req \in 1..Len(requests)
  /\ \A w \in Workers : wk[w].pc \in ExecPC => wk[w].req \in 1..Len(requests)

Typed == TypeOK /\ KnownIds

\* What a step does to the workers' jobs: it keeps the message of each job.
SameMessages ==
  \A v \in Workers :
    wk'[v].pc \in ExecPC => wk[v].pc \in ExecPC /\ wk'[v].req = wk[v].req

LEMMA WkHelpersKeepMessages ==
  ASSUME TypeOK, NEW w \in Workers, wk[w].pc \in ExecPC
  PROVE  /\ \A pc : WkGoto(w, pc) => SameMessages
         /\ \A stage : WkFail(w, stage) => SameMessages
         /\ WkReturn(w) => SameMessages
<1>1. wk[w] \in ExecJob /\ wk \in [Workers -> WkState]
  BY ExecJobType DEF TypeOK
<1>2. ASSUME NEW pc, WkGoto(w, pc) PROVE SameMessages
  BY <1>1, <1>2 DEF WkGoto, SameMessages, ExecJob
<1>3. ASSUME NEW stage, WkFail(w, stage) PROVE SameMessages
  BY <1>1, <1>3 DEF WkFail, SameMessages, ExecJob
<1>4. ASSUME WkReturn(w) PROVE SameMessages
  BY <1>1, <1>4 DEF WkReturn, SameMessages, ExecJob
<1> QED
  BY <1>2, <1>3, <1>4

\* A step that makes no request keeps KnownIds if it keeps the message of each
\* job and the handlers only move on, and puts known numbers in the rows.
LEMMA KnownIdsKept ==
  ASSUME Typed, requests' = requests,
         \/ wk' = wk
         \/ SameMessages,
         \/ web' = web
         \/ \E c \in Clients : WebDone(c)
         \/ \E c \in Clients : \E pc \in {"record", "refused"} :
              web[c].pc = "dispatch" /\ WebGoto(c, pc)
         \/ \E c \in Clients : \E pc \in {"cancel", "revoke"} :
              web[c].pc # "idle" /\ WebGoto(c, pc),
         \A t \in Tasks : row'[t].mid <= Len(requests)
  PROVE  KnownIds'
<1> USE DEF Typed, KnownIds, HoldsRequest
<1>1. \A w \in Workers : wk'[w].pc \in ExecPC => wk'[w].req \in 1..Len(requests)
  BY DEF SameMessages
<1>2. \A c \in Clients :
        /\ web'[c].pc # "idle" => web'[c].mid <= Len(requests)
        /\ web'[c].pc \in HoldsRequest
             => web'[c].req \in 1..Len(requests)
  <2>1. CASE web' = web
    BY <2>1
  <2>2. ASSUME NEW c \in Clients, WebDone(c)
        PROVE  <1>2
    BY <2>2 DEF WebDone, WebIdle, TypeOK
  <2>3. ASSUME NEW c \in Clients, NEW pc \in {"record", "refused"},
               web[c].pc = "dispatch", WebGoto(c, pc)
        PROVE  <1>2
    <3>1. web[c] \in WebJob
      BY <2>3, WebJobType
    <3> QED
      BY <2>3, <3>1 DEF WebGoto, WebJob, TypeOK
  <2>4. ASSUME NEW c \in Clients, NEW pc \in {"cancel", "revoke"},
               web[c].pc # "idle", WebGoto(c, pc)
        PROVE  <1>2
    <3>1. web[c] \in WebJob
      BY <2>4, WebJobType
    <3> QED
      BY <2>4, <3>1 DEF WebGoto, WebJob, TypeOK
  <2> QED
    BY <2>1, <2>2, <2>3, <2>4
<1> QED
  BY <1>1, <1>2

LEMMA MakePendingType ==
  ASSUME Typed, NEW c \in Clients, web[c].pc # "idle",
         NEW r \in Row, r.mid <= Len(requests),
         NEW pc \in {"refresh", "dispatch"}, MakePending(c, r, pc),
         UNCHANGED <<brokerVars, wk, procVars, faults>>
  PROVE  Typed'
<1> USE DEF Typed
<1>1. web[c].task \in Tasks
  BY WebJobType DEF WebJob
<1>2. /\ requests' \in Seq(Tasks)
      /\ Len(requests') = Len(requests) + 1
      /\ Len(requests) \in Nat
  BY <1>1 DEF TypeOK, MakePending
<1>3. row' \in [Tasks -> Row] /\ runs' \in [Tasks -> Nat]
  BY <1>1 DEF TypeOK, MakePending
<1>4. att' \in [Tasks -> 0..Len(requests')]
  BY <1>1, <1>2 DEF TypeOK, MakePending
<1>5. [pc |-> pc, task |-> web[c].task, req |-> Len(requests) + 1,
       status |-> "pending", stage |-> "none", pid |-> 0, mid |-> 0] \in WebJob
  BY <1>1, <1>2 DEF WebJob, Status, Stage
<1>6. web' \in [Clients -> WebState]
  BY <1>5 DEF TypeOK, MakePending, WebState
<1>7. queue' \subseteq 1..Len(requests') /\ revoked' \subseteq 1..Len(requests')
  BY <1>2 DEF TypeOK, brokerVars
<1>8. TypeOK'
  BY <1>2, <1>3, <1>4, <1>6, <1>7 DEF TypeOK, brokerVars, procVars
<1>9. KnownIds'
  <2>1. \A t \in Tasks : row'[t].mid <= Len(requests')
    BY <1>1, <1>2 DEF KnownIds, MakePending, TypeOK, Row
  <2>2. \A d \in Clients :
          /\ web'[d].pc # "idle" => web'[d].mid <= Len(requests')
          /\ web'[d].pc \in HoldsRequest
               => web'[d].req \in 1..Len(requests')
    <3> TAKE d \in Clients
    <3>1. CASE d = c
      BY <1>2, <3>1 DEF MakePending, TypeOK
    <3>2. CASE d # c
      <4>1. web'[d] = web[d]
        BY <3>2 DEF MakePending, TypeOK
      <4>2. web[d].pc # "idle" => web[d].mid \in Nat /\ web[d].req \in Nat
        BY WebJobType DEF WebJob
      <4> QED
        BY <1>2, <4>1, <4>2 DEF KnownIds
    <3> QED
      BY <3>1, <3>2
  <2>3. \A w \in Workers : wk'[w].pc \in ExecPC => wk'[w].req \in 1..Len(requests')
    BY <1>2 DEF KnownIds
  <2> QED
    BY <2>1, <2>2, <2>3 DEF KnownIds
<1> QED
  BY <1>8, <1>9

LEMMA RequestType ==
  ASSUME Typed, NEW c \in Clients, Request(c)
  PROVE  Typed'
<1> USE DEF Typed
<1>1. PICK t \in Tasks : CreateLookup(c, t) \/ RetryLookup(c, t) \/ CancelLookup(c, t)
  BY DEF Request
<1>2. PICK pc \in {"insert", "reset", "kill", "cancel"} : WebLoad(c, t, 0, pc)
  BY <1>1 DEF CreateLookup, RetryLookup, CancelLookup
<1>3. UNCHANGED <<dbVars, brokerVars, wk, procVars, faults>>
  BY <1>1 DEF CreateLookup, RetryLookup, CancelLookup
<1>4. TypeOK'
  BY <1>2, <1>3, WebLoadType DEF TypeOK, dbVars, brokerVars, procVars
<1>5. KnownIds'
  BY <1>2, <1>3 DEF KnownIds, TypeOK, WebLoad, HoldsRequest, dbVars
<1> QED
  BY <1>4, <1>5

LEMMA WebStepType ==
  ASSUME Typed, NEW c \in Clients, WebStep(c)
  PROVE  Typed'
<1> USE DEF Typed
<1>1. web[c].pc # "idle" => web[c] \in WebJob
  BY WebJobType
<1>2. CASE Insert(c)
  <2> DEFINE r == [Absent EXCEPT !.status = "pending"]
  <2>1. r \in Row /\ r.mid = 0
    BY DEF Absent, Row, Status, Stage
  <2>2. r.mid <= Len(requests)
    BY <2>1 DEF TypeOK
  <2> QED
    BY <1>2, <2>1, <2>2, MakePendingType DEF Insert
<1>3. CASE InsertLost(c)
  <2>1. TypeOK'
    BY <1>3, WebDoneType DEF InsertLost, TypeOK, dbVars, brokerVars, procVars
  <2> QED
    BY <1>3, <2>1, KnownIdsKept DEF InsertLost, dbVars, KnownIds
<1>4. CASE Reset(c)
  <2> DEFINE r == ResetRow(row[web[c].task], web[c])
  <2>1. web[c] \in WebJob /\ row[web[c].task] \in Row
    BY <1>1, <1>4 DEF Reset, WebJob, TypeOK
  <2>2. r \in Row
    BY <2>1 DEF ResetRow, Flushed, Row, Status, Stage
  <2>3. r.mid <= Len(requests)
    BY <2>1 DEF ResetRow, Flushed, KnownIds, WebJob, TypeOK
  <2> QED
    BY <1>4, <2>2, <2>3, MakePendingType DEF Reset
<1>5. CASE Publish(c)
  <2>1. web' \in [Clients -> WebState]
    BY <1>5, WebGotoType DEF Publish
  <2>2. TypeOK'
    BY <1>5, <2>1 DEF Publish, TypeOK, KnownIds, HoldsRequest, dbVars, procVars
  <2> QED
    BY <1>5, <2>2, KnownIdsKept DEF Publish, dbVars, KnownIds
<1>6. CASE PublishRaises(c)
  <2>1. web' \in [Clients -> WebState] /\ faults' \in 0..MaxFaults
    BY <1>6, WebGotoType, FaultType DEF PublishRaises
  <2>2. TypeOK'
    BY <1>6, <2>1 DEF PublishRaises, TypeOK, KnownIds, HoldsRequest, dbVars, procVars
  <2> QED
    BY <1>6, <2>2, KnownIdsKept DEF PublishRaises, dbVars, KnownIds
<1>7. CASE FailDispatch(c)
  <2>1. web[c].task \in Tasks /\ row[web[c].task] \in Row
    BY <1>1, <1>7 DEF FailDispatch, WebJob, TypeOK
  <2>2. /\ RefusedRow(row[web[c].task], web[c]) \in Row
        /\ RefusedRow(row[web[c].task], web[c]).mid = row[web[c].task].mid
    BY <2>1, RefusedRowType
  <2>3. TypeOK'
    BY <1>7, <2>2, WebDoneType DEF FailDispatch, TypeOK, brokerVars, procVars
  <2>4. \A t \in Tasks : row'[t].mid <= Len(requests)
    BY <1>7, <2>1, <2>2 DEF FailDispatch, KnownIds, TypeOK
  <2> QED
    BY <1>7, <2>3, <2>4, KnownIdsKept DEF FailDispatch
<1>8. CASE RecordMessage(c)
  <2> DEFINE r == RecordedRow(row[web[c].task], web[c].req)
  <2>1. /\ web[c].task \in Tasks /\ row[web[c].task] \in Row
        /\ web[c].req \in 1..Len(requests)
    BY <1>1, <1>8 DEF RecordMessage, WebJob, TypeOK, KnownIds, HoldsRequest
  <2>2. r \in Row /\ r.mid <= Len(requests)
    <3>1. Len(requests) \in Nat
      BY DEF TypeOK
    <3> QED
      BY <2>1, <3>1, RecordedRowType
  <2>3. row' = [row EXCEPT ![web[c].task] = r]
    BY <1>8 DEF RecordMessage
  <2>4. TypeOK'
    BY <1>8, <2>1, <2>2, <2>3, WebDoneType DEF RecordMessage, TypeOK, brokerVars, procVars
  <2>5. \A t \in Tasks : row'[t].mid <= Len(requests)
    BY <2>1, <2>2, <2>3 DEF KnownIds, TypeOK
  <2> QED
    BY <1>8, <2>4, <2>5, KnownIdsKept DEF RecordMessage
<1>9. CASE CancelKill(c)
  <2>1. web' \in [Clients -> WebState]
    BY <1>9, WebGotoType DEF CancelKill
  <2>2. live' \subseteq live /\ faults' \in 0..MaxFaults
    BY <1>9, KillTreesType DEF CancelKill
  <2>3. TypeOK'
    BY <1>9, <2>1, <2>2 DEF CancelKill, TypeOK, dbVars, brokerVars
  <2> QED
    BY <1>9, <2>3, KnownIdsKept DEF CancelKill, dbVars, KnownIds
<1>10. CASE CancelWrite(c)
  <2>1. web[c].task \in Tasks /\ row[web[c].task] \in Row
    BY <1>1, <1>10 DEF CancelWrite, WebJob, TypeOK
  <2>2. FailedRow(row[web[c].task], "cancelled") \in Row
    BY <2>1, FailedRowType DEF Stage
  <2>3. web' \in [Clients -> WebState]
    BY <1>10, WebGotoType, WebDoneType DEF CancelWrite
  <2>4. TypeOK'
    BY <1>10, <2>2, <2>3 DEF CancelWrite, TypeOK, brokerVars, procVars
  <2>5. \A t \in Tasks : row'[t].mid <= Len(requests)
    BY <1>10, <2>1 DEF CancelWrite, FailedRow, Row, KnownIds, TypeOK
  <2>6. web' = web \/ WebDone(c) \/ WebGoto(c, "revoke")
    BY <1>10 DEF CancelWrite
  <2> QED
    BY <1>10, <2>4, <2>5, <2>6, KnownIdsKept DEF CancelWrite
<1>11. CASE CancelRefused(c)
  <2>1. TypeOK'
    BY <1>11, WebDoneType DEF CancelRefused, TypeOK, dbVars, brokerVars, procVars
  <2> QED
    BY <1>11, <2>1, KnownIdsKept DEF CancelRefused, dbVars, KnownIds
<1>12. CASE CancelRevoke(c)
  <2>1. web[c] \in WebJob /\ web[c].mid <= Len(requests)
    BY <1>1, <1>12 DEF CancelRevoke, KnownIds
  <2>2. {web[c].mid} \ {0} \subseteq 1..Len(requests)
    BY <2>1 DEF WebJob, TypeOK
  <2>3. TypeOK'
    BY <1>12, <2>2, WebDoneType DEF CancelRevoke, TypeOK, dbVars, procVars
  <2> QED
    BY <1>12, <2>3, KnownIdsKept DEF CancelRevoke, dbVars, KnownIds
<1>13. CASE Refresh(c)
  <2>1. web[c] \in WebJob /\ web[c].req \in 1..Len(requests) /\ Len(requests) \in Nat
    BY <1>1, <1>13 DEF Refresh, KnownIds, HoldsRequest, TypeOK
  <2>2. web[c].task \in Tasks /\ web[c].req \in Nat
    BY <2>1 DEF WebJob
  <2>3. TypeOK'
    BY <1>13, <2>2, WebLoadType DEF Refresh, TypeOK, dbVars, brokerVars, procVars
  <2>4. KnownIds'
    BY <1>13, <2>1, <2>2 DEF Refresh, KnownIds, TypeOK, WebLoad, HoldsRequest, dbVars
  <2> QED
    BY <2>3, <2>4
<1> QED
  BY <1>2, <1>3, <1>4, <1>5, <1>6, <1>7, <1>8, <1>9, <1>10, <1>11, <1>12, <1>13
  DEF WebStep

\* FailIfOpen and SuccessIfRunning write well-typed rows and no message number.
LEMMA OutcomeType ==
  ASSUME Typed, NEW t \in Tasks, NEW stage \in Stage,
         FailIfOpen(t, stage) \/ SuccessIfRunning(t)
  PROVE  row' \in [Tasks -> Row] /\ \A u \in Tasks : row'[u].mid <= Len(requests)
<1> USE DEF Typed
<1>1. row[t] \in Row
  BY DEF TypeOK
<1>2. FailedRow(row[t], stage) \in Row
  BY <1>1, FailedRowType
<1>3. FailedRow(row[t], stage).mid = row[t].mid
  BY <1>1 DEF FailedRow, Row
<1>4. CASE FailIfOpen(t, stage)
  BY <1>2, <1>3, <1>4 DEF FailIfOpen, TypeOK, KnownIds
<1>5. CASE SuccessIfRunning(t)
  <2>1. [row[t] EXCEPT !.status = "success", !.aged = FALSE] \in Row
    BY <1>1 DEF Row, Status
  <2>2. [row[t] EXCEPT !.status = "success", !.aged = FALSE].mid = row[t].mid
    BY <1>1 DEF Row
  <2> QED
    BY <1>5, <2>1, <2>2 DEF SuccessIfRunning, TypeOK, KnownIds
<1> QED
  BY <1>4, <1>5

\* Steps that leave the table and the broker alone and only move a job on.
LEMMA MovesOnType ==
  ASSUME Typed, NEW w \in Workers, wk[w].pc \in ExecPC,
         \/ \E pc \in ExecPC : WkGoto(w, pc)
         \/ \E stage \in Stage : WkFail(w, stage)
         \/ WkReturn(w)
  PROVE  wk' \in [Workers -> WkState] /\ SameMessages
BY WkGotoExecType, WkFailType, WkReturnType, WkHelpersKeepMessages DEF Typed

LEMMA ExecStepType ==
  ASSUME Typed, NEW w \in Workers, ExecStep(w)
  PROVE  Typed'
<1> USE DEF Typed
<1>1. wk[w].pc \in ExecPC => wk[w] \in ExecJob
  BY ExecJobType
<1>2. ASSUME NEW m \in queue, Receive(w, m)
      PROVE  Typed'
  <2> DEFINE job == [pc |-> "guard", req |-> m, task |-> requests[m],
                     att |-> 0, pid |-> 0, stage |-> "none"]
  <2>1. m \in 1..Len(requests) /\ m \in Nat /\ requests[m] \in Tasks
    BY DEF TypeOK
  <2>2. job \in ExecJob
    BY <2>1 DEF ExecJob, ExecPC, Stage
  <2>3. wk' = [wk EXCEPT ![w] = job]
    BY <1>2 DEF Receive
  <2>4. TypeOK'
    BY <1>2, <2>2, <2>3 DEF Receive, TypeOK, WkState, dbVars, procVars
  <2>5. \A v \in Workers : wk'[v].pc \in ExecPC => wk'[v].req \in 1..Len(requests)
    BY <2>1, <2>3 DEF KnownIds, TypeOK
  <2> QED
    BY <1>2, <2>4, <2>5 DEF Receive, KnownIds, dbVars
<1>3. ASSUME NEW m \in queue, Discard(w, m)
      PROVE  Typed'
  <2>1. TypeOK'
    BY <1>3 DEF Discard, TypeOK, dbVars, procVars
  <2> QED
    BY <1>3, <2>1, KnownIdsKept DEF Discard, dbVars, KnownIds
<1>4. CASE Accept(w)
  <2>1. wk[w] \in ExecJob /\ att[wk[w].task] \in Nat
    BY <1>1, <1>4 DEF Accept, ExecPC, ExecJob, TypeOK
  <2>2. [wk[w] EXCEPT !.pc = "launch", !.att = att[wk[w].task]] \in ExecJob
    BY <2>1 DEF ExecJob, ExecPC
  <2>3. TypeOK'
    BY <1>4, <2>2 DEF Accept, TypeOK, WkState, dbVars, brokerVars, procVars
  <2>4. SameMessages
    BY <1>4, <2>1 DEF Accept, SameMessages, ExecJob, TypeOK
  <2> QED
    BY <1>4, <2>3, <2>4, KnownIdsKept DEF Accept, dbVars, KnownIds
<1>5. CASE Skip(w)
  <2>1. wk' \in [Workers -> WkState] /\ SameMessages
    BY <1>5, MovesOnType DEF Skip, ExecPC
  <2>2. TypeOK'
    BY <1>5, <2>1 DEF Skip, TypeOK, dbVars, brokerVars, procVars
  <2> QED
    BY <1>5, <2>1, <2>2, KnownIdsKept DEF Skip, dbVars, KnownIds
<1>6. CASE LaunchFails(w)
  <2>1. wk' \in [Workers -> WkState] /\ SameMessages
    BY <1>6, MovesOnType DEF LaunchFails, ExecPC, Stage
  <2>2. TypeOK'
    BY <1>6, <2>1 DEF LaunchFails, TypeOK, dbVars, brokerVars, procVars
  <2> QED
    BY <1>6, <2>1, <2>2, KnownIdsKept DEF LaunchFails, dbVars, KnownIds
<1>7. CASE Launch(w)
  <2>1. wk[w] \in ExecJob
    BY <1>1, <1>7 DEF Launch, ExecPC
  <2>2. /\ spawned' \in Seq(Tasks)
        /\ Len(spawned') = Len(spawned) + 1
        /\ Len(spawned) \in Nat
    BY <1>7, <2>1 DEF Launch, ExecJob, TypeOK
  <2>3. live' \subseteq 1..Len(spawned')
    BY <1>7, <2>2 DEF Launch, TypeOK
  <2>4. [wk[w] EXCEPT !.pc = "mark", !.pid = Len(spawned')] \in ExecJob
    <3>1. \A p \in Nat : [wk[w] EXCEPT !.pc = "mark", !.pid = p] \in ExecJob
      BY <2>1 DEF ExecJob, ExecPC
    <3>2. Len(spawned') \in Nat
      BY <2>2
    <3> HIDE DEF Typed
    <3> QED
      BY <3>1, <3>2, Zenon
  <2>5. TypeOK'
    BY <1>7, <2>2, <2>3, <2>4 DEF Launch, TypeOK, WkState, dbVars, brokerVars
  <2>6. SameMessages
    BY <1>7, <2>1 DEF Launch, SameMessages, ExecJob, TypeOK
  <2> QED
    BY <1>7, <2>5, <2>6, KnownIdsKept DEF Launch, dbVars, KnownIds
<1>8. CASE MarkRunning(w)
  <2> DEFINE t == wk[w].task
             r == [row[t] EXCEPT !.status = "running", !.pid = wk[w].pid,
                                 !.aged = FALSE]
  <2>1. wk[w] \in ExecJob /\ t \in Tasks /\ row[t] \in Row
    BY <1>1, <1>8 DEF MarkRunning, ExecPC, ExecJob, TypeOK
  <2>2. r \in Row /\ r.mid = row[t].mid
    BY <2>1 DEF Row, Status, ExecJob
  <2>3. row' = [row EXCEPT ![t] = r]
    BY <1>8 DEF MarkRunning
  <2>4. [wk[w] EXCEPT !.pc = "run", !.att = att[t]] \in ExecJob
    <3>1. \A n \in Nat : [wk[w] EXCEPT !.pc = "run", !.att = n] \in ExecJob
      BY <2>1 DEF ExecJob, ExecPC
    <3>2. att[t] \in Nat
      BY <2>1 DEF TypeOK
    <3> QED
      BY <3>1, <3>2
  <2>5. wk' \in [Workers -> WkState] /\ runs' \in [Tasks -> Nat]
    BY <1>8, <2>1, <2>4 DEF MarkRunning, TypeOK, WkState
  <2>6. TypeOK'
    BY <1>8, <2>2, <2>3, <2>5 DEF MarkRunning, TypeOK, brokerVars, procVars
  <2>7. SameMessages
    BY <1>8, <2>1 DEF MarkRunning, SameMessages, ExecJob, TypeOK
  <2>8. \A u \in Tasks : row'[u].mid <= Len(requests)
    BY <2>1, <2>2, <2>3 DEF KnownIds, TypeOK
  <2>9. requests' = requests /\ web' = web
    BY <1>8 DEF MarkRunning
  <2> QED
    BY <2>6, <2>7, <2>8, <2>9, KnownIdsKept
<1>9. CASE MarkRefused(w)
  <2>1. wk' \in [Workers -> WkState] /\ SameMessages
    BY <1>9, MovesOnType DEF MarkRefused, ExecPC
  <2>2. TypeOK'
    BY <1>9, <2>1 DEF MarkRefused, TypeOK, dbVars, brokerVars
  <2> QED
    BY <1>9, <2>1, <2>2, KnownIdsKept DEF MarkRefused, dbVars, KnownIds
<1>10. CASE RunEnds(w)
  <2>1. wk' \in [Workers -> WkState] /\ SameMessages
    BY <1>10, MovesOnType DEF RunEnds, ExecPC, Stage
  <2>2. TypeOK'
    BY <1>10, <2>1 DEF RunEnds, TypeOK, dbVars, brokerVars
  <2> QED
    BY <1>10, <2>1, <2>2, KnownIdsKept DEF RunEnds, dbVars, KnownIds
<1>11. CASE RunKilled(w)
  <2>1. wk' \in [Workers -> WkState] /\ SameMessages
    BY <1>11, MovesOnType DEF RunKilled, ExecPC, Stage
  <2>2. TypeOK'
    BY <1>11, <2>1 DEF RunKilled, TypeOK, dbVars, brokerVars, procVars
  <2> QED
    BY <1>11, <2>1, <2>2, KnownIdsKept DEF RunKilled, dbVars, KnownIds
<1>12. CASE RunTimesOut(w)
  <2>1. wk' \in [Workers -> WkState] /\ SameMessages
    BY <1>12, MovesOnType DEF RunTimesOut, ExecPC, Stage
  <2>2. TypeOK'
    BY <1>12, <2>1 DEF RunTimesOut, TypeOK, dbVars, brokerVars
  <2> QED
    BY <1>12, <2>1, <2>2, KnownIdsKept DEF RunTimesOut, dbVars, KnownIds
<1>13. CASE FailWrite(w)
  <2>1. wk[w] \in ExecJob
    BY <1>1, <1>13 DEF FailWrite, ExecPC
  <2>2. row' \in [Tasks -> Row] /\ \A u \in Tasks : row'[u].mid <= Len(requests)
    BY <1>13, <2>1, OutcomeType DEF FailWrite, ExecJob
  <2>3. wk' \in [Workers -> WkState] /\ SameMessages
    BY <1>13, MovesOnType DEF FailWrite, ExecPC
  <2>4. TypeOK'
    BY <1>13, <2>2, <2>3 DEF FailWrite, TypeOK, brokerVars, procVars
  <2> QED
    BY <1>13, <2>2, <2>3, <2>4, KnownIdsKept DEF FailWrite
<1>14. CASE FinishWrite(w)
  <2>1. wk[w] \in ExecJob
    BY <1>1, <1>14 DEF FinishWrite, ExecPC
  <2>2. row' \in [Tasks -> Row] /\ \A u \in Tasks : row'[u].mid <= Len(requests)
    BY <1>14, <2>1, OutcomeType DEF FinishWrite, ExecJob, Stage
  <2>3. wk' \in [Workers -> WkState] /\ SameMessages
    BY <1>14, MovesOnType DEF FinishWrite, ExecPC
  <2>4. TypeOK'
    BY <1>14, <2>2, <2>3 DEF FinishWrite, TypeOK, brokerVars, procVars
  <2> QED
    BY <1>14, <2>2, <2>3, <2>4, KnownIdsKept DEF FinishWrite
<1>15. CASE StopKill(w)
  <2>1. wk' \in [Workers -> WkState] /\ SameMessages
    BY <1>15, MovesOnType DEF StopKill, ExecPC
  <2>2. live' \subseteq live /\ faults' \in 0..MaxFaults
    BY <1>15, KillTreesType DEF StopKill
  <2>3. TypeOK'
    BY <1>15, <2>1, <2>2 DEF StopKill, TypeOK, dbVars, brokerVars
  <2> QED
    BY <1>15, <2>1, <2>3, KnownIdsKept DEF StopKill, dbVars, KnownIds
<1>16. CASE StopWrite(w)
  <2>1. wk[w] \in ExecJob
    BY <1>1, <1>16 DEF StopWrite, ExecPC
  <2>2. row' \in [Tasks -> Row] /\ \A u \in Tasks : row'[u].mid <= Len(requests)
    BY <1>16, <2>1, OutcomeType DEF StopWrite, ExecJob, Stage
  <2>3. wk' \in [Workers -> WkState] /\ SameMessages
    BY <1>16, MovesOnType DEF StopWrite, ExecPC
  <2>4. TypeOK'
    BY <1>16, <2>2, <2>3 DEF StopWrite, TypeOK, brokerVars, procVars
  <2> QED
    BY <1>16, <2>2, <2>3, <2>4, KnownIdsKept DEF StopWrite
<1>17. CASE Ack(w)
  <2>1. TypeOK'
    BY <1>17 DEF Ack, TypeOK, WkState, dbVars, brokerVars, procVars
  <2>2. SameMessages
    BY <1>17 DEF Ack, SameMessages, WkIdle, ExecPC, TypeOK
  <2> QED
    BY <1>17, <2>1, <2>2, KnownIdsKept DEF Ack, dbVars, KnownIds
<1> QED
  BY <1>2, <1>3, <1>4, <1>5, <1>6, <1>7, <1>8, <1>9, <1>10, <1>11, <1>12,
     <1>13, <1>14, <1>15, <1>16, <1>17 DEF ExecStep

LEMMA ScanStepType ==
  ASSUME Typed, NEW w \in Workers, ScanStep(w)
  PROVE  Typed'
<1> USE DEF Typed
<1>1. CASE ScanRead(w)
  <2> DEFINE job == [pc |-> "scanKill",
                     stale |-> Stale("running"),
                     pids |-> {row[t].pid : t \in Stale("running")} \ {0},
                     pending |-> Stale("pending"),
                     settled |-> {}, staged |-> {}]
  <2>1. job \in ScanJob
    BY DEF ScanJob, Stale, Row, TypeOK
  <2>2. wk' = wk \/ wk' = [wk EXCEPT ![w] = job]
    BY <1>1 DEF ScanRead
  <2>3. wk' \in [Workers -> WkState]
    BY <2>1, <2>2 DEF TypeOK, WkState
  <2>4. scans' \in Nat
    BY <1>1 DEF ScanRead, TypeOK
  <2>5. TypeOK'
    BY <1>1, <2>3, <2>4 DEF ScanRead, TypeOK, dbVars, procVars
  <2>6. SameMessages \/ wk' = wk
    <3>1. job.pc \notin ExecPC
      BY DEF ExecPC
    <3> HIDE DEF job
    <3> QED
      BY <2>2, <3>1 DEF SameMessages, TypeOK
  <2> QED
    BY <1>1, <2>5, <2>6, KnownIdsKept DEF ScanRead, dbVars, KnownIds
<1>2. CASE ScanKill(w)
  <2>1. wk[w] \in ScanJob
    BY <1>2, ScanJobType DEF ScanKill
  <2>2. [wk[w] EXCEPT !.pc = "scanGet"] \in ScanJob
    BY <2>1 DEF ScanJob
  <2>3. live' \subseteq live /\ faults' \in 0..MaxFaults
    BY <1>2, KillTreesType DEF ScanKill
  <2>4. TypeOK'
    BY <1>2, <2>2, <2>3 DEF ScanKill, WkGoto, WkState, TypeOK, dbVars, brokerVars
  <2>5. SameMessages
    BY <1>2, <2>1 DEF ScanKill, WkGoto, SameMessages, ScanJob, ExecPC, TypeOK
  <2> QED
    BY <1>2, <2>4, <2>5, KnownIdsKept DEF ScanKill, dbVars, KnownIds
<1>3. CASE ScanGet(w)
  <2> DEFINE settled == {t \in wk[w].stale \cup wk[w].pending :
                           row[t].status = "failed"}
             staged == {t \in wk[w].stale \cup wk[w].pending :
                          row[t].stage = ScanStage(w, t)}
  <2>1. wk[w] \in ScanJob
    BY <1>3, ScanJobType DEF ScanGet
  <2>2. settled \subseteq Tasks /\ staged \subseteq Tasks
    BY <2>1 DEF ScanJob
  <2>3. wk' = [wk EXCEPT ![w] = [wk[w] EXCEPT !.pc = "scanWrite",
                                   !.settled = settled, !.staged = staged]]
    BY <1>3 DEF ScanGet
  <2> HIDE DEF settled, staged
  <2>4. [wk[w] EXCEPT !.pc = "scanWrite", !.settled = settled,
                      !.staged = staged] \in ScanJob
    BY <2>1, <2>2 DEF ScanJob
  <2>5. {row[t].mid : t \in wk[w].pending} \ {0} \subseteq 1..Len(requests)
    BY <2>1 DEF ScanJob, Row, TypeOK, KnownIds
  <2>6. TypeOK'
    BY <1>3, <2>3, <2>4, <2>5 DEF ScanGet, WkState, TypeOK, dbVars, procVars
  <2>7. wk'[w].pc = "scanWrite" /\ \A v \in Workers \ {w} : wk'[v] = wk[v]
    BY <2>1, <2>3 DEF ScanJob, TypeOK
  <2>8. SameMessages
    BY <2>7 DEF SameMessages, ExecPC
  <2> QED
    BY <1>3, <2>6, <2>8, KnownIdsKept DEF ScanGet, dbVars, KnownIds
<1>4. CASE ScanWrite(w)
  <2>1. wk[w] \in ScanJob
    BY <1>4, ScanJobType DEF ScanWrite
  <2>2. \A t \in Tasks : ScannedRow(w, t) \in Row /\ ScannedRow(w, t).mid = row[t].mid
    BY ScannedRowType
  <2>3. row' \in [Tasks -> Row] /\ \A t \in Tasks : row'[t].mid <= Len(requests)
    BY <1>4, <2>2 DEF ScanWrite, TypeOK, KnownIds
  <2>4. TypeOK'
    BY <1>4, <2>3 DEF ScanWrite, WkState, TypeOK, brokerVars, procVars
  <2>5. SameMessages
    BY <1>4 DEF ScanWrite, SameMessages, WkIdle, ExecPC, TypeOK
  <2> QED
    BY <1>4, <2>3, <2>4, <2>5, KnownIdsKept DEF ScanWrite
<1> QED
  BY <1>1, <1>2, <1>3, <1>4 DEF ScanStep

LEMMA EnvironmentType ==
  ASSUME Typed, Environment \/ \E w \in Workers : Boot(w)
  PROVE  Typed'
<1> USE DEF Typed
<1>1. ASSUME NEW w \in Workers, Crash(w)
      PROVE  Typed'
  <2>1. Executing(w) => wk[w].req \in 1..Len(requests)
    BY DEF Executing, KnownIds
  <2>2. scans' \in Nat
    BY <1>1 DEF Crash, TypeOK
  <2>3. faults' \in 0..MaxFaults
    BY <1>1, FaultType DEF Crash
  <2>4. TypeOK'
    BY <1>1, <2>1, <2>2, <2>3 DEF Crash, WkState, TypeOK, dbVars, procVars
  <2>5. SameMessages
    BY <1>1 DEF Crash, SameMessages, WkDown, ExecPC, TypeOK
  <2> QED
    BY <1>1, <2>4, <2>5, KnownIdsKept DEF Crash, dbVars, KnownIds
<1>2. ASSUME NEW w \in Workers, Boot(w)
      PROVE  Typed'
  <2>1. TypeOK'
    BY <1>2 DEF Boot, WkState, TypeOK, dbVars, procVars
  <2>2. SameMessages
    BY <1>2 DEF Boot, SameMessages, WkIdle, ExecPC, TypeOK
  <2> QED
    BY <1>2, <2>1, <2>2, KnownIdsKept DEF Boot, dbVars, KnownIds
<1>3. ASSUME NEW w \in Workers, Redeliver(w)
      PROVE  Typed'
  <2>1. wk[w].req \in 1..Len(requests)
    BY <1>3 DEF Redeliver, Executing, KnownIds
  <2>2. TypeOK'
    BY <1>3, <2>1, FaultType DEF Redeliver, TypeOK, dbVars, procVars
  <2> QED
    BY <1>3, <2>2, KnownIdsKept DEF Redeliver, dbVars, KnownIds
<1>4. ASSUME NEW w \in Workers, SoftTimeout(w)
      PROVE  Typed'
  <2>1. wk' \in [Workers -> WkState] /\ SameMessages
    BY <1>4, MovesOnType DEF SoftTimeout, ExecPC
  <2>2. TypeOK'
    BY <1>4, <2>1 DEF SoftTimeout, TypeOK, dbVars, brokerVars
  <2> QED
    BY <1>4, <2>1, <2>2, KnownIdsKept DEF SoftTimeout, dbVars, KnownIds
<1>5. ASSUME NEW c \in Clients, WebCrash(c)
      PROVE  Typed'
  <2>1. TypeOK'
    BY <1>5, WebDoneType, FaultType DEF WebCrash, TypeOK, dbVars, brokerVars, procVars
  <2> QED
    BY <1>5, <2>1, KnownIdsKept DEF WebCrash, dbVars, KnownIds
<1>6. ASSUME NEW m \in queue, Lose(m)
      PROVE  Typed'
  <2>1. TypeOK'
    BY <1>6, FaultType DEF Lose, TypeOK, dbVars, procVars
  <2> QED
    BY <1>6, <2>1, KnownIdsKept DEF Lose, dbVars, KnownIds
<1>7. ASSUME NEW t \in Tasks, Age(t)
      PROVE  Typed'
  <2>1. row[t] \in Row /\ [row[t] EXCEPT !.aged = TRUE] \in Row
    BY DEF TypeOK, Row
  <2>2. TypeOK'
    BY <1>7, <2>1 DEF Age, TypeOK, brokerVars, procVars
  <2>3. \A u \in Tasks : row'[u].mid <= Len(requests)
    BY <1>7, <2>1 DEF Age, KnownIds, TypeOK, Row
  <2> QED
    BY <1>7, <2>2, <2>3, KnownIdsKept DEF Age
<1>8. ASSUME NEW p \in live, OrphanExit(p)
      PROVE  Typed'
  <2>1. TypeOK'
    BY <1>8 DEF OrphanExit, TypeOK, dbVars, brokerVars
  <2> QED
    BY <1>8, <2>1, KnownIdsKept DEF OrphanExit, dbVars, KnownIds
<1> QED
  BY <1>1, <1>2, <1>3, <1>4, <1>5, <1>6, <1>7, <1>8 DEF Environment

LEMMA TypedInit == Init => Typed
<1> SUFFICES ASSUME Init PROVE Typed
  OBVIOUS
<1>1. Absent \in Row
  BY DEF Absent, Row, Status, Stage
<1>2. TypeOK
  BY <1>1, BoundsAssumption DEF Init, TypeOK, WebState, WkState
<1>3. KnownIds
  BY DEF Init, KnownIds, HoldsRequest, Absent, WebIdle, WkIdle, ExecPC
<1> QED
  BY <1>2, <1>3 DEF Typed

LEMMA TypedStep == Typed /\ [Next]_vars => Typed'
<1> SUFFICES ASSUME Typed, [Next]_vars PROVE Typed'
  OBVIOUS
<1>1. CASE UNCHANGED vars
  BY <1>1 DEF vars, Typed, TypeOK, KnownIds
<1>2. CASE Next
  BY <1>2, RequestType, WebStepType, ExecStepType, ScanStepType, EnvironmentType
  DEF Next
<1> QED
  BY <1>1, <1>2

\* The types hold, and with them the numbers: no message, row or handler ever
\* names a request that was not made (dispatcher.py, task_service.py).
THEOREM TypeCorrect == Spec => []TypeOK
<1>1. Typed => TypeOK
  BY DEF Typed
<1> QED
  BY <1>1, TypedInit, TypedStep, PTL DEF Spec

-----------------------------------------------------------------------------
(* The guards of _mark_running.  The three invariants are not inductive: a   *)
(* worker about to store a pid must hold one of its own task, a pending row  *)
(* must not have run yet, and a worker in its run must know that its attempt *)
(* has had its only move to running.                                         *)

HeldPidIsItsTask ==
  \A w \in Workers :
    wk[w].pc = "mark" =>
      wk[w].pid \in 1..Len(spawned) /\ spawned[wk[w].pid] = wk[w].task

PendingHasNotRun == \A t \in Tasks : row[t].status = "pending" => runs[t] = 0

RunnerOwnsItsAttempt ==
  \A w \in Workers :
    wk[w].pc = "run" =>
      /\ wk[w].att <= Len(requests)
      /\ wk[w].att = att[wk[w].task] =>
           /\ runs[wk[w].task] = 1
           /\ row[wk[w].task].status = "running"
                => row[wk[w].task].pid = wk[w].pid

IInv ==
  /\ Typed
  /\ RunningRowNamesItsPytest
  /\ OneRunPerAttempt
  /\ HeldPidIsItsTask
  /\ PendingHasNotRun
  /\ RunnerOwnsItsAttempt

\* Steps that close rows, or leave their status and pid alone, and let workers
\* only leave mark and run.
Quiet ==
  /\ UNCHANGED <<requests, att, runs, spawned>>
  /\ \A v \in Workers : wk'[v] = wk[v] \/ wk'[v].pc \notin {"mark", "run"}
  /\ \A t \in Tasks :
       \/ row'[t].status \notin {"pending", "running"}
       \/ row'[t].status = row[t].status /\ row'[t].pid = row[t].pid

LEMMA QuietKeeps ==
  ASSUME IInv, Typed', Quiet
  PROVE  IInv'
<1>1. RunningRowNamesItsPytest'
  BY DEF IInv, Quiet, RunningRowNamesItsPytest
<1>2. OneRunPerAttempt'
  BY DEF IInv, Quiet, OneRunPerAttempt
<1>3. HeldPidIsItsTask'
  BY DEF IInv, Quiet, HeldPidIsItsTask
<1>4. PendingHasNotRun'
  BY DEF IInv, Quiet, PendingHasNotRun
<1>5. RunnerOwnsItsAttempt'
  <2> SUFFICES ASSUME NEW w \in Workers, wk'[w].pc = "run"
               PROVE  /\ wk'[w].att <= Len(requests')
                      /\ wk'[w].att = att'[wk'[w].task] =>
                           /\ runs'[wk'[w].task] = 1
                           /\ row'[wk'[w].task].status = "running"
                                => row'[wk'[w].task].pid = wk'[w].pid
    BY DEF RunnerOwnsItsAttempt
  <2>1. wk'[w] = wk[w] /\ wk[w].pc = "run"
    BY DEF Quiet
  <2>2. wk[w].task \in Tasks
    BY <2>1, ExecJobType DEF IInv, Typed, ExecPC, ExecJob
  <2> QED
    BY <2>1, <2>2 DEF IInv, Quiet, RunnerOwnsItsAttempt
<1> QED
  BY <1>1, <1>2, <1>3, <1>4, <1>5 DEF IInv

LEMMA MakePendingKeeps ==
  ASSUME IInv, Typed', NEW c \in Clients, web[c].pc # "idle", NEW r \in Row,
         r.status = "pending", NEW pc, MakePending(c, r, pc),
         UNCHANGED <<brokerVars, wk, procVars, faults>>
  PROVE  IInv'
<1> DEFINE t == web[c].task
<1>1. t \in Tasks
  BY WebJobType DEF IInv, Typed, WebJob
<1>2. /\ row' = [row EXCEPT ![t] = r] /\ row \in [Tasks -> Row]
      /\ runs' = [runs EXCEPT ![t] = 0] /\ runs \in [Tasks -> Nat]
      /\ att' = [att EXCEPT ![t] = Len(requests) + 1]
      /\ att \in [Tasks -> 0..Len(requests)]
      /\ wk' = wk /\ spawned' = spawned
  BY DEF MakePending, procVars, IInv, Typed, TypeOK
<1>3. Len(requests') = Len(requests) + 1 /\ Len(requests) \in Nat
  BY <1>1 DEF MakePending, IInv, Typed, TypeOK
<1>4. RunningRowNamesItsPytest' /\ HeldPidIsItsTask'
  BY <1>1, <1>2 DEF IInv, RunningRowNamesItsPytest, HeldPidIsItsTask
<1>5. OneRunPerAttempt' /\ PendingHasNotRun'
  BY <1>1, <1>2 DEF IInv, OneRunPerAttempt, PendingHasNotRun
<1>6. RunnerOwnsItsAttempt'
  <2> SUFFICES ASSUME NEW w \in Workers, wk[w].pc = "run"
               PROVE  /\ wk[w].att <= Len(requests')
                      /\ wk[w].att = att'[wk[w].task] =>
                           /\ runs'[wk[w].task] = 1
                           /\ row'[wk[w].task].status = "running"
                                => row'[wk[w].task].pid = wk[w].pid
    BY <1>2 DEF RunnerOwnsItsAttempt
  <2>1. wk[w].task \in Tasks /\ wk[w].att \in Nat
    BY ExecJobType DEF IInv, Typed, ExecPC, ExecJob
  <2>2. wk[w].att <= Len(requests)
    BY DEF IInv, RunnerOwnsItsAttempt
  <2>3. CASE wk[w].task = t
    BY <1>1, <1>2, <1>3, <2>1, <2>2, <2>3
  <2>4. CASE wk[w].task # t
    BY <1>1, <1>2, <1>3, <2>1, <2>2, <2>4 DEF IInv, RunnerOwnsItsAttempt
  <2> QED
    BY <2>3, <2>4
<1> QED
  BY <1>4, <1>5, <1>6 DEF IInv

LEMMA LaunchKeeps ==
  ASSUME IInv, Typed', NEW w \in Workers, Launch(w)
  PROVE  IInv'
<1>1. wk[w] \in ExecJob
  BY ExecJobType DEF Launch, ExecPC, IInv, Typed
<1>2. spawned \in Seq(Tasks) /\ wk \in [Workers -> WkState] /\ Len(spawned) \in Nat
  BY DEF IInv, Typed, TypeOK
<1>3. /\ Len(spawned') = Len(spawned) + 1
      /\ spawned'[Len(spawned')] = wk[w].task
      /\ \A p \in 1..Len(spawned) : spawned'[p] = spawned[p]
  BY <1>1, <1>2 DEF Launch, ExecJob
<1>4. /\ wk'[w].pc = "mark" /\ wk'[w].task = wk[w].task
      /\ wk'[w].pid = Len(spawned')
      /\ \A v \in Workers \ {w} : wk'[v] = wk[v]
  BY <1>1, <1>2 DEF Launch, ExecJob
<1>5. UNCHANGED <<row, requests, att, runs>>
  BY DEF Launch, dbVars
<1>6. RunningRowNamesItsPytest'
  BY <1>2, <1>3, <1>5 DEF IInv, RunningRowNamesItsPytest
<1>7. HeldPidIsItsTask'
  <2> SUFFICES ASSUME NEW v \in Workers, wk'[v].pc = "mark"
               PROVE  /\ wk'[v].pid \in 1..Len(spawned')
                      /\ spawned'[wk'[v].pid] = wk'[v].task
    BY DEF HeldPidIsItsTask
  <2>1. CASE v = w
    BY <1>2, <1>3, <1>4, <2>1
  <2>2. CASE v # w
    BY <1>2, <1>3, <1>4, <2>2 DEF IInv, HeldPidIsItsTask
  <2> QED
    BY <2>1, <2>2
<1>8. OneRunPerAttempt' /\ PendingHasNotRun'
  BY <1>5 DEF IInv, OneRunPerAttempt, PendingHasNotRun
<1>9. RunnerOwnsItsAttempt'
  BY <1>4, <1>5 DEF IInv, RunnerOwnsItsAttempt
<1> QED
  BY <1>6, <1>7, <1>8, <1>9 DEF IInv

LEMMA MarkRunningKeeps ==
  ASSUME IInv, Typed', NEW w \in Workers, MarkRunning(w)
  PROVE  IInv'
<1> DEFINE t == wk[w].task
<1>1. wk[w] \in ExecJob /\ t \in Tasks
  BY ExecJobType DEF MarkRunning, ExecPC, ExecJob, IInv, Typed
<1>2. /\ wk \in [Workers -> WkState] /\ row \in [Tasks -> Row]
      /\ runs \in [Tasks -> Nat] /\ att \in [Tasks -> 0..Len(requests)]
      /\ Len(requests) \in Nat
  BY DEF IInv, Typed, TypeOK
<1>3. /\ wk'[w].pc = "run" /\ wk'[w].task = t /\ wk'[w].pid = wk[w].pid
      /\ wk'[w].att = att[t]
      /\ \A v \in Workers \ {w} : wk'[v] = wk[v]
  BY <1>1, <1>2 DEF MarkRunning, ExecJob
<1>4. /\ row'[t].status = "running" /\ row'[t].pid = wk[w].pid
      /\ \A u \in Tasks \ {t} : row'[u] = row[u]
  BY <1>1, <1>2 DEF MarkRunning, Row
<1>5. runs[t] = 0
  BY <1>1 DEF MarkRunning, IInv, PendingHasNotRun
<1>6. runs'[t] = 1 /\ \A u \in Tasks \ {t} : runs'[u] = runs[u]
  BY <1>1, <1>2, <1>5 DEF MarkRunning
<1>7. UNCHANGED <<requests, att, spawned>>
  BY DEF MarkRunning, procVars
<1>8. RunningRowNamesItsPytest'
  BY <1>1, <1>4, <1>7 DEF MarkRunning, IInv, RunningRowNamesItsPytest, HeldPidIsItsTask
<1>9. OneRunPerAttempt' /\ PendingHasNotRun'
  BY <1>4, <1>6 DEF IInv, OneRunPerAttempt, PendingHasNotRun
<1>10. HeldPidIsItsTask'
  BY <1>3, <1>7 DEF IInv, HeldPidIsItsTask
<1>11. RunnerOwnsItsAttempt'
  <2> SUFFICES ASSUME NEW v \in Workers, wk'[v].pc = "run"
               PROVE  /\ wk'[v].att <= Len(requests')
                      /\ wk'[v].att = att'[wk'[v].task] =>
                           /\ runs'[wk'[v].task] = 1
                           /\ row'[wk'[v].task].status = "running"
                                => row'[wk'[v].task].pid = wk'[v].pid
    BY DEF RunnerOwnsItsAttempt
  <2>1. CASE v = w
    BY <1>1, <1>2, <1>3, <1>4, <1>6, <1>7, <2>1
  <2>2. CASE v # w
    <3>1. wk'[v] = wk[v] /\ wk[v].pc = "run" /\ wk[v].task \in Tasks
      BY <1>3, <2>2, ExecJobType DEF IInv, Typed, ExecPC, ExecJob
    \* Another worker in its run of the same attempt would have runs[t] = 1.
    <3>2. wk[v].task = t => wk[v].att # att[t]
      BY <1>5, <3>1 DEF IInv, RunnerOwnsItsAttempt
    <3> QED
      BY <1>4, <1>6, <1>7, <3>1, <3>2 DEF IInv, RunnerOwnsItsAttempt
  <2> QED
    BY <2>1, <2>2
<1> QED
  BY <1>8, <1>9, <1>10, <1>11 DEF IInv

\* The rows after the two conditional updates of a worker.
LEMMA OutcomeQuiet ==
  ASSUME TypeOK, NEW t \in Tasks, NEW stage \in Stage,
         FailIfOpen(t, stage) \/ SuccessIfRunning(t)
  PROVE  \A u \in Tasks :
           \/ row'[u].status \notin {"pending", "running"}
           \/ row'[u].status = row[u].status /\ row'[u].pid = row[u].pid
<1>1. row[t] \in Row /\ row \in [Tasks -> Row]
  BY DEF TypeOK
<1>2. FailedRow(row[t], stage).status = "failed"
  BY <1>1 DEF FailedRow, Row
<1>3. [row[t] EXCEPT !.status = "success", !.aged = FALSE].status = "success"
  BY <1>1 DEF Row
<1> QED
  BY <1>1, <1>2, <1>3 DEF FailIfOpen, SuccessIfRunning

\* A refused publish closes the row, or leaves its status as it is.
LEMMA RefusedFields ==
  ASSUME NEW r \in Row, NEW c \in Clients
  PROVE  LET n == RefusedRow(r, web[c]) IN
         /\ n.status = Flushed("failed", web[c].status, r.status)
         /\ n.stage = Flushed("dispatch", web[c].stage, r.stage)
         /\ n.mid = r.mid /\ n.pid = r.pid
         /\ n.aged => r.aged
         /\ \/ n.status \notin {"pending", "running"}
            \/ n.status = r.status
<1> DEFINE status == Flushed("failed", web[c].status, r.status)
           stage == Flushed("dispatch", web[c].stage, r.stage)
           aged == IF status = "running" THEN r.aged ELSE FALSE
<1>1. aged => r.aged
  OBVIOUS
<1>2. status = "failed" \/ status = r.status
  BY DEF Flushed
<1>3. RefusedRow(r, web[c]) =
        [r EXCEPT !.status = status, !.stage = stage, !.aged = aged]
  BY DEF RefusedRow
<1> HIDE DEF status, stage, aged
<1>4. /\ RefusedRow(r, web[c]).status = status /\ RefusedRow(r, web[c]).stage = stage
      /\ RefusedRow(r, web[c]).aged = aged /\ RefusedRow(r, web[c]).mid = r.mid
      /\ RefusedRow(r, web[c]).pid = r.pid
  BY <1>3 DEF Row
<1> QED
  BY <1>1, <1>2, <1>4 DEF status, stage

LEMMA WebStepQuiet ==
  ASSUME Typed, NEW c \in Clients, WebStep(c), ~Insert(c), ~Reset(c)
  PROVE  Quiet
<1> USE DEF Typed
<1>1. web[c].pc # "idle" => web[c].task \in Tasks /\ row[web[c].task] \in Row
  BY WebJobType DEF WebJob, TypeOK
<1>2. CASE InsertLost(c) \/ Publish(c) \/ PublishRaises(c) \/ CancelKill(c)
           \/ CancelRefused(c) \/ CancelRevoke(c) \/ Refresh(c)
  BY <1>2 DEF InsertLost, Refresh, Publish, PublishRaises, CancelKill, CancelRefused,
              CancelRevoke, Refresh, Quiet, dbVars, procVars
<1>3. CASE FailDispatch(c)
  <2> DEFINE r == RefusedRow(row[web[c].task], web[c])
  <2>1. \/ r.status \notin {"pending", "running"}
        \/ r.status = row[web[c].task].status /\ r.pid = row[web[c].task].pid
    BY <1>1, <1>3, RefusedFields DEF FailDispatch
  <2>2. row' = [row EXCEPT ![web[c].task] = r]
    BY <1>3 DEF FailDispatch
  <2>3. UNCHANGED <<requests, att, runs, spawned, wk>>
    BY <1>3 DEF FailDispatch, procVars
  <2> HIDE DEF r
  <2> QED
    BY <1>1, <1>3, <2>1, <2>2, <2>3 DEF FailDispatch, Quiet, TypeOK
<1>4. CASE RecordMessage(c)
  <2> DEFINE r == RecordedRow(row[web[c].task], web[c].req)
  <2>1. r.status = row[web[c].task].status /\ r.pid = row[web[c].task].pid
    BY <1>1, <1>4 DEF RecordMessage, RecordedRow, Row
  <2>2. row' = [row EXCEPT ![web[c].task] = r]
    BY <1>4 DEF RecordMessage
  <2>3. UNCHANGED <<requests, att, runs, spawned, wk>>
    BY <1>4 DEF RecordMessage, procVars
  <2> HIDE DEF r
  <2> QED
    BY <2>1, <2>2, <2>3 DEF Quiet, TypeOK
<1>5. CASE CancelWrite(c)
  <2>1. FailedRow(row[web[c].task], "cancelled").status = "failed"
    BY <1>1, <1>5 DEF CancelWrite, FailedRow, Row
  <2> QED
    BY <1>1, <1>5, <2>1 DEF CancelWrite, Quiet, procVars, TypeOK
<1> QED
  BY <1>2, <1>3, <1>4, <1>5 DEF WebStep

LEMMA ExecStepQuiet ==
  ASSUME Typed, NEW w \in Workers, ExecStep(w), ~Launch(w), ~MarkRunning(w)
  PROVE  Quiet
<1> USE DEF Typed
<1>1. wk[w].pc \in ExecPC => wk[w] \in ExecJob
  BY ExecJobType
<1>2. wk \in [Workers -> WkState]
  BY DEF TypeOK
<1>3. ASSUME NEW m \in queue, Receive(w, m) \/ Discard(w, m)
      PROVE  Quiet
  BY <1>2, <1>3 DEF Receive, Discard, Quiet, dbVars, procVars
<1>4. CASE Accept(w)
  BY <1>1, <1>2, <1>4 DEF Accept, Quiet, dbVars, procVars, ExecPC, ExecJob
<1>5. CASE Skip(w)
  BY <1>2, <1>5 DEF Skip, WkReturn, Quiet, dbVars, procVars
<1>6. CASE LaunchFails(w)
  BY <1>1, <1>2, <1>6 DEF LaunchFails, WkFail, Quiet, dbVars, procVars, ExecPC, ExecJob
<1>7. CASE MarkRefused(w)
  BY <1>2, <1>7 DEF MarkRefused, WkReturn, Quiet, dbVars
<1>8. CASE RunEnds(w)
  BY <1>1, <1>2, <1>8 DEF RunEnds, WkGoto, WkFail, Quiet, dbVars, ExecPC, ExecJob
<1>9. CASE RunKilled(w)
  BY <1>1, <1>2, <1>9 DEF RunKilled, WkFail, Quiet, dbVars, procVars, ExecPC, ExecJob
<1>10. CASE RunTimesOut(w)
  BY <1>1, <1>2, <1>10 DEF RunTimesOut, WkFail, Quiet, dbVars, ExecPC, ExecJob
<1>11. CASE FailWrite(w) \/ StopWrite(w) \/ FinishWrite(w)
  <2>1. wk[w] \in ExecJob
    BY <1>1, <1>11 DEF FailWrite, StopWrite, FinishWrite, ExecPC
  <2>2. \/ \E stage \in Stage : FailIfOpen(wk[w].task, stage)
        \/ SuccessIfRunning(wk[w].task)
    BY <1>11, <2>1 DEF FailWrite, StopWrite, FinishWrite, ExecJob, Stage
  <2>3. \A u \in Tasks :
          \/ row'[u].status \notin {"pending", "running"}
          \/ row'[u].status = row[u].status /\ row'[u].pid = row[u].pid
    BY <2>1, <2>2, OutcomeQuiet DEF ExecJob, Stage
  <2>4. UNCHANGED <<requests, att, runs, spawned>> /\ WkReturn(w)
    BY <1>11 DEF FailWrite, StopWrite, FinishWrite, procVars
  <2> QED
    BY <1>2, <2>3, <2>4 DEF WkReturn, Quiet
<1>12. CASE StopKill(w)
  BY <1>1, <1>2, <1>12 DEF StopKill, WkGoto, Quiet, dbVars, ExecPC, ExecJob
<1>13. CASE Ack(w)
  BY <1>2, <1>13 DEF Ack, WkIdle, Quiet, dbVars, procVars
<1> QED
  BY <1>3, <1>4, <1>5, <1>6, <1>7, <1>8, <1>9, <1>10, <1>11, <1>12, <1>13
  DEF ExecStep

LEMMA ScanStepQuiet ==
  ASSUME Typed, NEW w \in Workers, ScanStep(w)
  PROVE  Quiet
<1> USE DEF Typed
<1>1. wk[w].pc \in {"scanKill", "scanGet", "scanWrite"} => wk[w] \in ScanJob
  BY ScanJobType
<1>2. wk \in [Workers -> WkState] /\ row \in [Tasks -> Row]
  BY DEF TypeOK
<1>3. CASE ScanRead(w)
  <2>1. \A v \in Workers : wk'[v] = wk[v] \/ wk'[v].pc = "scanKill"
    BY <1>2, <1>3 DEF ScanRead
  <2> QED
    BY <1>3, <2>1 DEF ScanRead, Quiet, dbVars, procVars
<1>4. CASE ScanKill(w)
  BY <1>1, <1>2, <1>4 DEF ScanKill, WkGoto, Quiet, dbVars, ScanJob
<1>5. CASE ScanGet(w)
  <2>1. wk[w] \in ScanJob
    BY <1>1, <1>5 DEF ScanGet
  <2>2. \A v \in Workers : wk'[v] = wk[v] \/ wk'[v].pc = "scanWrite"
    BY <1>2, <1>5, <2>1 DEF ScanGet, ScanJob
  <2> QED
    BY <1>5, <2>2 DEF ScanGet, Quiet, dbVars, procVars
<1>6. CASE ScanWrite(w)
  <2>1. \A t \in Tasks :
          \/ ScannedRow(w, t).status \notin {"pending", "running"}
          \/ /\ ScannedRow(w, t).status = row[t].status
             /\ ScannedRow(w, t).pid = row[t].pid
    BY <1>2 DEF ScannedRow, Row
  <2> QED
    BY <1>2, <1>6, <2>1 DEF ScanWrite, WkIdle, Quiet, procVars
<1> QED
  BY <1>3, <1>4, <1>5, <1>6 DEF ScanStep

LEMMA EnvironmentQuiet ==
  ASSUME Typed, Environment \/ \E w \in Workers : Boot(w)
  PROVE  Quiet
<1> USE DEF Typed
<1>1. wk \in [Workers -> WkState] /\ row \in [Tasks -> Row]
  BY DEF TypeOK
<1>2. ASSUME NEW w \in Workers, Crash(w) \/ Boot(w) \/ Redeliver(w)
      PROVE  Quiet
  BY <1>1, <1>2 DEF Crash, Boot, Redeliver, WkDown, WkIdle, Quiet, dbVars, procVars
<1>3. ASSUME NEW w \in Workers, SoftTimeout(w)
      PROVE  Quiet
  <2>1. wk[w] \in ExecJob
    BY <1>3, ExecJobType DEF SoftTimeout, ExecPC
  <2> QED
    BY <1>1, <1>3, <2>1 DEF SoftTimeout, WkGoto, ExecJob, Quiet, dbVars
<1>4. ASSUME NEW t \in Tasks, Age(t)
      PROVE  Quiet
  <2>1. row'[t].status = row[t].status /\ row'[t].pid = row[t].pid
    BY <1>1, <1>4 DEF Age, Row
  <2> QED
    BY <1>1, <1>4, <2>1 DEF Age, Quiet, procVars
<1>5. CASE \/ \E c \in Clients : WebCrash(c)
           \/ \E m \in queue : Lose(m)
           \/ \E p \in live : OrphanExit(p)
  BY <1>5 DEF WebCrash, Lose, OrphanExit, Quiet, dbVars, procVars
<1> QED
  BY <1>2, <1>3, <1>4, <1>5 DEF Environment

LEMMA IInvInit == Init => IInv
<1> SUFFICES ASSUME Init PROVE IInv
  OBVIOUS
<1>1. \A t \in Tasks : row[t].status = "absent" /\ runs[t] = 0
  BY DEF Init, Absent
<1>2. \A w \in Workers : wk[w].pc = "idle"
  BY DEF Init, WkIdle
<1> QED
  BY <1>1, <1>2, TypedInit
  DEF IInv, RunningRowNamesItsPytest, OneRunPerAttempt, HeldPidIsItsTask,
      PendingHasNotRun, RunnerOwnsItsAttempt

LEMMA IInvStep == IInv /\ [Next]_vars => IInv'
<1> SUFFICES ASSUME IInv, [Next]_vars PROVE IInv'
  OBVIOUS
<1>1. Typed /\ Typed'
  BY TypedStep DEF IInv
<1>2. CASE UNCHANGED vars
  BY <1>1, <1>2, QuietKeeps DEF vars, Quiet
<1>3. ASSUME NEW c \in Clients, Request(c)
      PROVE  IInv'
  <2>1. UNCHANGED <<dbVars, wk, procVars>>
    BY <1>3 DEF Request, CreateLookup, RetryLookup, CancelLookup
  <2> QED
    BY <1>1, <2>1, QuietKeeps DEF Quiet, dbVars, procVars
<1>4. ASSUME NEW c \in Clients, WebStep(c)
      PROVE  IInv'
  <2>1. CASE Insert(c)
    <3> DEFINE r == [Absent EXCEPT !.status = "pending"]
    <3>1. r \in Row /\ r.status = "pending"
      BY DEF Absent, Row, Status, Stage
    <3> QED
      BY <1>1, <2>1, <3>1, MakePendingKeeps DEF Insert
  <2>2. CASE Reset(c)
    <3> DEFINE r == ResetRow(row[web[c].task], web[c])
    <3>1. web[c] \in WebJob /\ row[web[c].task] \in Row
      BY <1>1, <2>2, WebJobType DEF Reset, WebJob, Typed, TypeOK
    <3>2. r \in Row /\ r.status = "pending"
      BY <3>1 DEF ResetRow, Flushed, Row, Status, Stage
    <3> QED
      BY <1>1, <2>2, <3>2, MakePendingKeeps DEF Reset
  <2>3. CASE ~Insert(c) /\ ~Reset(c)
    BY <1>1, <1>4, <2>3, WebStepQuiet, QuietKeeps
  <2> QED
    BY <2>1, <2>2, <2>3
<1>5. ASSUME NEW w \in Workers, ExecStep(w)
      PROVE  IInv'
  BY <1>1, <1>5, LaunchKeeps, MarkRunningKeeps, ExecStepQuiet, QuietKeeps
<1>6. ASSUME NEW w \in Workers, ScanStep(w)
      PROVE  IInv'
  BY <1>1, <1>6, ScanStepQuiet, QuietKeeps
<1>7. CASE Environment \/ \E w \in Workers : Boot(w)
  BY <1>1, <1>7, EnvironmentQuiet, QuietKeeps
<1> QED
  BY <1>2, <1>3, <1>4, <1>5, <1>6, <1>7 DEF Next

LEMMA IInvAlways == Spec => []IInv
BY IInvInit, IInvStep, PTL DEF Spec

\* The pid of a running row was given to a pytest of that task: the row never
\* sends cancel_task, scan_stale_tasks or force_fail_timeout to the process of
\* another task.
THEOREM RunningRowsNameTheirPytest == Spec => []RunningRowNamesItsPytest
<1>1. IInv => RunningRowNamesItsPytest
  BY DEF IInv
<1> QED
  BY <1>1, IInvAlways, PTL

\* With any number of workers, deliveries, crashes and scans, _mark_running
\* lets an attempt become running at most once.
THEOREM AtMostOneRunPerAttempt == Spec => []OneRunPerAttempt
<1>1. IInv => OneRunPerAttempt
  BY DEF IInv
<1> QED
  BY <1>1, IInvAlways, PTL

\* The pid in a running row is that of the worker whose run its attempt is.
THEOREM RowNamesTheRunner == Spec => []KillReachesTheRunner
<1>1. IInv => KillReachesTheRunner
  BY DEF IInv, RunnerOwnsItsAttempt, KillReachesTheRunner
<1> QED
  BY <1>1, IInvAlways, PTL

-----------------------------------------------------------------------------
(* What a step does to one row, to one job and to one handler.  The proofs   *)
(* below look at steps through these three lemmas.                           *)

\* The columns that updates of one row leave.
LEMMA FailedFields ==
  ASSUME NEW r \in Row, NEW stage
  PROVE  LET n == FailedRow(r, stage) IN
         n.status = "failed" /\ n.stage = stage /\ ~n.aged /\ n.mid = r.mid
BY DEF FailedRow, Row

LEMMA RecordedFields ==
  ASSUME NEW r \in Row, NEW m
  PROVE  LET n == RecordedRow(r, m) IN
         /\ n.status = r.status /\ n.stage = r.stage /\ n.mid = m
         /\ n.aged => r.aged
<1> DEFINE aged == IF r.status = "running" THEN r.aged ELSE FALSE
<1>1. RecordedRow(r, m) = [r EXCEPT !.mid = m, !.aged = aged] /\ (aged => r.aged)
  BY DEF RecordedRow
<1> HIDE DEF aged
<1> QED
  BY <1>1 DEF Row

LEMMA ScannedFields ==
  ASSUME TypeOK, NEW w \in Workers, NEW t \in Tasks
  PROVE  LET n == ScannedRow(w, t) IN
         /\ n.mid = row[t].mid
         /\ n.status = IF t \in wk[w].settled THEN row[t].status ELSE "failed"
<1> DEFINE status == IF t \in wk[w].settled THEN row[t].status ELSE "failed"
           stage == IF t \in wk[w].staged THEN row[t].stage ELSE ScanStage(w, t)
           aged == IF status = "running" THEN row[t].aged ELSE FALSE
<1>1. row[t] \in Row
  BY DEF TypeOK
<1>2. ScannedRow(w, t) =
        [row[t] EXCEPT !.status = status, !.stage = stage, !.aged = aged]
  BY DEF ScannedRow
<1> HIDE DEF status, stage, aged
<1>3. ScannedRow(w, t).mid = row[t].mid /\ ScannedRow(w, t).status = status
  BY <1>1, <1>2 DEF Row
<1> QED
  BY <1>3 DEF status

\* How the row of t may change.
Written(t, status, stage) ==
  row'[t].status = status /\ row'[t].stage = stage /\ ~row'[t].aged

RowMoved(t) ==
  \/ row'[t] = row[t]
  \/ /\ row'[t].mid \in {0, row[t].mid}
     /\ \/ \E c \in Clients :
             /\ web[c].task = t
             /\ \/ Insert(c) /\ row[t].status = "absent"
                             /\ Written(t, "pending", "none")
                \/ /\ Reset(c)
                   /\ Written(t, "pending", Flushed("none", web[c].stage, row[t].stage))
                \/ /\ FailDispatch(c)
                   /\ row'[t].status = Flushed("failed", web[c].status, row[t].status)
                   /\ row'[t].status \in {"failed", row[t].status}
                   /\ row'[t].stage = Flushed("dispatch", web[c].stage, row[t].stage)
                   /\ row'[t].aged => row[t].aged
                \/ CancelWrite(c) /\ Written(t, "failed", "cancelled")
                                  /\ row[t].status = web[c].status
        \/ \E w \in Workers :
             /\ wk[w].task = t
             /\ \/ MarkRunning(w) /\ row[t].status = "pending"
                                  /\ Written(t, "running", row[t].stage)
                \/ /\ row[t].status \in {"pending", "running"}
                   /\ \/ FailWrite(w) /\ Written(t, "failed", wk[w].stage)
                      \/ StopWrite(w) /\ Written(t, "failed", "timeout")
                \/ FinishWrite(w) /\ row[t].status = "running"
                                  /\ Written(t, "success", row[t].stage)
        \/ \E w \in Workers :
             /\ ScanWrite(w) /\ t \in wk[w].stale \cup wk[w].pending
             /\ row'[t].status = IF t \in wk[w].settled THEN row[t].status
                                                        ELSE "failed"
        \/ /\ Age(t) /\ row'[t].status = row[t].status
           /\ row'[t].stage = row[t].stage
  \/ \E c \in Clients :
       /\ RecordMessage(c) /\ web[c].task = t
       /\ row'[t].mid = web[c].req
       /\ row'[t].status = row[t].status /\ row'[t].stage = row[t].stage
       /\ row'[t].aged => row[t].aged

LEMMA RowSteps ==
  ASSUME Typed, [Next]_vars, NEW t \in Tasks
  PROVE  RowMoved(t)
<1>1. row \in [Tasks -> Row] /\ row[t] \in Row
  BY DEF Typed, TypeOK
<1>2. CASE row'[t] = row[t]
  BY <1>2 DEF RowMoved
<1>3. ASSUME NEW c \in Clients, web[c].task = t, Insert(c) \/ Reset(c)
      PROVE  RowMoved(t)
  <2>1. CASE Insert(c)
    <3>1. row'[t] = [Absent EXCEPT !.status = "pending"] /\ row[t].status = "absent"
      BY <1>1, <1>3, <2>1 DEF Insert, MakePending
    <3>2. Written(t, "pending", "none") /\ row'[t].mid = 0
      BY <3>1 DEF Written, Absent
    <3> QED
      BY <1>3, <2>1, <3>1, <3>2 DEF RowMoved
  <2>2. CASE Reset(c)
    <3>1. row'[t] = ResetRow(row[t], web[c])
      BY <1>1, <1>3, <2>2 DEF Reset, MakePending
    <3>2. /\ Written(t, "pending", Flushed("none", web[c].stage, row[t].stage))
          /\ row'[t].mid \in {0, row[t].mid}
      BY <3>1 DEF Written, ResetRow, Flushed
    <3> QED
      BY <1>3, <2>2, <3>2 DEF RowMoved
  <2> QED
    BY <1>3, <2>1, <2>2
<1>4. ASSUME NEW c \in Clients, web[c].task = t, FailDispatch(c) \/ CancelWrite(c)
      PROVE  RowMoved(t)
  <2>1. CASE FailDispatch(c)
    <3>1. row'[t] = RefusedRow(row[t], web[c])
      BY <1>1, <1>4, <2>1 DEF FailDispatch
    <3>2. /\ row'[t].status = Flushed("failed", web[c].status, row[t].status)
          /\ row'[t].stage = Flushed("dispatch", web[c].stage, row[t].stage)
          /\ row'[t].aged => row[t].aged
          /\ row'[t].mid = row[t].mid
          /\ row'[t].status \in {"failed", row[t].status}
      BY <1>1, <3>1, RefusedFields DEF Flushed
    <3> QED
      BY <1>4, <2>1, <3>2 DEF RowMoved
  <2>2. CASE CancelWrite(c)
    <3>1. row'[t] = FailedRow(row[t], "cancelled") /\ row[t].status = web[c].status
      BY <1>1, <1>4, <2>2 DEF CancelWrite
    <3>2. Written(t, "failed", "cancelled") /\ row'[t].mid = row[t].mid
      BY <1>1, <3>1, FailedFields DEF Written
    <3> QED
      BY <1>4, <2>2, <3>1, <3>2 DEF RowMoved
  <2> QED
    BY <1>4, <2>1, <2>2
<1>5. ASSUME NEW c \in Clients, web[c].task = t, RecordMessage(c)
      PROVE  RowMoved(t)
  <2>1. row'[t] = RecordedRow(row[t], web[c].req)
    BY <1>1, <1>5 DEF RecordMessage
  <2>2. /\ row'[t].status = row[t].status /\ row'[t].stage = row[t].stage
        /\ row'[t].mid = web[c].req
        /\ row'[t].aged => row[t].aged
    BY <1>1, <2>1, RecordedFields
  <2> QED
    BY <1>5, <2>2 DEF RowMoved
<1>6. ASSUME NEW w \in Workers, wk[w].task = t, MarkRunning(w)
      PROVE  RowMoved(t)
  <2>1. /\ row[t].status = "pending"
        /\ row'[t] = [row[t] EXCEPT !.status = "running", !.pid = wk[w].pid,
                                    !.aged = FALSE]
    BY <1>1, <1>6 DEF MarkRunning
  <2>2. Written(t, "running", row[t].stage) /\ row'[t].mid = row[t].mid
    BY <1>1, <2>1 DEF Written, Row
  <2> QED
    BY <1>6, <2>1, <2>2 DEF RowMoved
<1>7. ASSUME NEW w \in Workers, wk[w].task = t, FailWrite(w) \/ StopWrite(w),
             row'[t] # row[t]
      PROVE  RowMoved(t)
  BY <1>1, <1>7, FailedFields DEF RowMoved, Written, FailWrite, StopWrite, FailIfOpen
<1>8. ASSUME NEW w \in Workers, wk[w].task = t, FinishWrite(w), row'[t] # row[t]
      PROVE  RowMoved(t)
  <2>1. /\ row[t].status = "running"
        /\ row'[t] = [row[t] EXCEPT !.status = "success", !.aged = FALSE]
    BY <1>1, <1>8 DEF FinishWrite, SuccessIfRunning
  <2>2. Written(t, "success", row[t].stage) /\ row'[t].mid = row[t].mid
    BY <1>1, <2>1 DEF Written, Row
  <2> QED
    BY <1>8, <2>1, <2>2 DEF RowMoved
<1>9. ASSUME NEW w \in Workers, ScanWrite(w), row'[t] # row[t]
      PROVE  RowMoved(t)
  <2>1. row'[t] = ScannedRow(w, t) /\ t \in wk[w].stale \cup wk[w].pending
    BY <1>9 DEF ScanWrite
  <2> QED
    BY <1>9, <2>1, ScannedFields DEF RowMoved, Typed
<1>10. ASSUME Age(t)
       PROVE  RowMoved(t)
  <2>1. row'[t] = [row[t] EXCEPT !.aged = TRUE]
    BY <1>1, <1>10 DEF Age
  <2>2. /\ row'[t].status = row[t].status /\ row'[t].stage = row[t].stage
        /\ row'[t].mid = row[t].mid
    BY <1>1, <2>1 DEF Row
  <2> QED
    BY <1>10, <2>2 DEF RowMoved
<1>11. \/ row'[t] = row[t]
       \/ \E c \in Clients :
            /\ web[c].task = t
            /\ \/ Insert(c) \/ Reset(c) \/ FailDispatch(c) \/ RecordMessage(c)
               \/ CancelWrite(c)
       \/ \E w \in Workers :
            /\ wk[w].task = t
            /\ MarkRunning(w) \/ FailWrite(w) \/ StopWrite(w) \/ FinishWrite(w)
       \/ \E w \in Workers : ScanWrite(w)
       \/ Age(t)
  <2>1. ASSUME NEW c \in Clients, web[c].task # t,
               \/ Insert(c) \/ Reset(c) \/ FailDispatch(c) \/ RecordMessage(c)
               \/ CancelWrite(c)
        PROVE  row'[t] = row[t]
    BY <1>1, <2>1 DEF Insert, Reset, FailDispatch, RecordMessage, CancelWrite,
                      MakePending
  <2>2. ASSUME NEW w \in Workers, wk[w].task # t,
               MarkRunning(w) \/ FailWrite(w) \/ StopWrite(w) \/ FinishWrite(w)
        PROVE  row'[t] = row[t]
    BY <1>1, <2>2 DEF MarkRunning, FailWrite, StopWrite, FinishWrite, FailIfOpen,
                      SuccessIfRunning
  <2>3. ASSUME NEW u \in Tasks, u # t, Age(u)
        PROVE  row'[t] = row[t]
    BY <1>1, <2>3 DEF Age
  <2>4. \/ row' = row
        \/ \E c \in Clients : Insert(c) \/ Reset(c) \/ FailDispatch(c)
                                \/ RecordMessage(c) \/ CancelWrite(c)
        \/ \E w \in Workers : MarkRunning(w) \/ FailWrite(w) \/ StopWrite(w)
                                \/ FinishWrite(w) \/ ScanWrite(w)
        \/ \E u \in Tasks : Age(u)
    BY DEF Next, vars, Request, WebStep, ExecStep, ScanStep, Environment, dbVars,
           CreateLookup, RetryLookup, CancelLookup, InsertLost, Refresh, Publish,
           PublishRaises, CancelKill, CancelRefused, CancelRevoke, Receive,
           Discard, Accept, Skip, LaunchFails, Launch, MarkRefused, RunEnds,
           RunKilled, RunTimesOut, StopKill, Ack, ScanRead, ScanKill, ScanGet,
           Crash, Boot, WebCrash, Redeliver, Lose, OrphanExit, SoftTimeout
  <2> QED
    BY <2>1, <2>2, <2>3, <2>4
<1> QED
  BY <1>2, <1>3, <1>4, <1>5, <1>6, <1>7, <1>8, <1>9, <1>10, <1>11

\* How the job of worker v may change.
JobMoved(v) ==
  \/ wk'[v] = wk[v]
  \/ /\ wk'[v].pc = "idle"
     /\ Ack(v) \/ Boot(v) \/ ScanWrite(v)
  \/ wk'[v].pc = "down" /\ Crash(v)
  \/ /\ wk'[v].pc = "ack" /\ wk'[v].task = wk[v].task /\ wk'[v].req = wk[v].req
     /\ Skip(v) \/ MarkRefused(v) \/ FailWrite(v) \/ FinishWrite(v) \/ StopWrite(v)
  \/ \E m \in queue : /\ Receive(v, m)
                      /\ wk'[v].pc = "guard" /\ wk'[v].req = m
                      /\ wk'[v].task = requests[m]
  \/ /\ wk[v].pc \in ExecPC
     /\ wk'[v].task = wk[v].task /\ wk'[v].req = wk[v].req
     /\ \/ Accept(v) /\ wk'[v].pc = "launch"
        \/ Launch(v) /\ wk'[v].pc = "mark" /\ wk'[v].pid = Len(spawned')
        \/ /\ MarkRunning(v) /\ wk'[v].pc = "run"
           /\ wk'[v].att = att[wk[v].task] /\ wk'[v].pid = wk[v].pid
        \/ RunEnds(v) /\ wk'[v].pc = "finish" /\ wk'[v].att = wk[v].att
        \/ /\ LaunchFails(v) \/ RunEnds(v) \/ RunKilled(v) \/ RunTimesOut(v)
           /\ wk'[v].pc = "fail" /\ wk'[v].stage # "none"
        \/ SoftTimeout(v) /\ wk'[v].pc = "stop"
        \/ StopKill(v) /\ wk'[v].pc = "stopped"
  \/ /\ wk'[v].pc = "scanKill" /\ ScanRead(v)
     /\ wk'[v].stale = Stale("running") /\ wk'[v].pending = Stale("pending")
     /\ Stale("running") \cup Stale("pending") # {}
  \/ /\ Scanning(v) /\ wk'[v].pc \in {"scanGet", "scanWrite"}
     /\ wk'[v].stale = wk[v].stale /\ wk'[v].pending = wk[v].pending
     /\ \/ ScanKill(v) /\ wk'[v].pc = "scanGet"
        \/ /\ ScanGet(v) /\ wk'[v].pc = "scanWrite"
           /\ wk'[v].settled = {t \in wk[v].stale \cup wk[v].pending :
                                  row[t].status = "failed"}

LEMMA JobSteps ==
  ASSUME Typed, [Next]_vars, NEW v \in Workers
  PROVE  JobMoved(v)
<1>1. wk \in [Workers -> WkState]
  BY DEF Typed, TypeOK
<1>2. CASE wk'[v] = wk[v]
  BY <1>2 DEF JobMoved
<1>3. ASSUME NEW m \in queue, Receive(v, m)
      PROVE  JobMoved(v)
  BY <1>1, <1>3 DEF JobMoved, Receive
<1>4. CASE Skip(v) \/ MarkRefused(v) \/ FailWrite(v) \/ FinishWrite(v)
           \/ StopWrite(v)
  BY <1>1, <1>4 DEF JobMoved, Skip, MarkRefused, FailWrite, FinishWrite,
       StopWrite, WkReturn
<1>5. CASE Ack(v) \/ ScanWrite(v) \/ Crash(v) \/ Boot(v)
  BY <1>1, <1>5 DEF JobMoved, Ack, ScanWrite, Crash, Boot, WkIdle, WkDown
<1>6. CASE Accept(v) \/ Launch(v) \/ MarkRunning(v) \/ LaunchFails(v)
           \/ RunEnds(v) \/ RunKilled(v) \/ RunTimesOut(v) \/ SoftTimeout(v)
           \/ StopKill(v)
  <2>1. wk[v].pc \in ExecPC
    BY <1>6 DEF Accept, Launch, MarkRunning, LaunchFails, RunEnds, RunKilled,
                RunTimesOut, SoftTimeout, StopKill, ExecPC
  <2>2. wk[v] \in ExecJob
    BY <2>1, ExecJobType DEF Typed
  <2>3. CASE Accept(v)
    <3>1. wk'[v] = [wk[v] EXCEPT !.pc = "launch", !.att = att[wk[v].task]]
      BY <1>1, <2>3 DEF Accept
    <3>2. /\ wk'[v].pc = "launch" /\ wk'[v].task = wk[v].task
          /\ wk'[v].req = wk[v].req
      BY <2>2, <3>1 DEF ExecJob
    <3> QED
      BY <2>1, <2>3, <3>2 DEF JobMoved
  <2>4. CASE Launch(v)
    <3>1. wk'[v] = [wk[v] EXCEPT !.pc = "mark", !.pid = Len(spawned')]
      BY <1>1, <2>4 DEF Launch
    <3>2. /\ wk'[v].pc = "mark" /\ wk'[v].task = wk[v].task
          /\ wk'[v].req = wk[v].req /\ wk'[v].pid = Len(spawned')
      BY <2>2, <3>1 DEF ExecJob
    <3> QED
      BY <2>1, <2>4, <3>2 DEF JobMoved
  <2>5. CASE MarkRunning(v)
    <3>1. wk'[v] = [wk[v] EXCEPT !.pc = "run", !.att = att[wk[v].task]]
      BY <1>1, <2>5 DEF MarkRunning
    <3>2. /\ wk'[v].pc = "run" /\ wk'[v].task = wk[v].task
          /\ wk'[v].req = wk[v].req /\ wk'[v].pid = wk[v].pid
          /\ wk'[v].att = att[wk[v].task]
      BY <2>2, <3>1 DEF ExecJob
    <3> QED
      BY <2>1, <2>5, <3>2 DEF JobMoved
  <2>6. ASSUME NEW stage, stage # "none", WkFail(v, stage),
               LaunchFails(v) \/ RunEnds(v) \/ RunKilled(v) \/ RunTimesOut(v)
        PROVE  JobMoved(v)
    <3>1. wk'[v] = [wk[v] EXCEPT !.pc = "fail", !.stage = stage]
      BY <1>1, <2>6 DEF WkFail
    <3>2. /\ wk'[v].pc = "fail" /\ wk'[v].task = wk[v].task
          /\ wk'[v].req = wk[v].req /\ wk'[v].stage = stage
      BY <2>2, <3>1 DEF ExecJob
    <3> QED
      BY <2>1, <2>6, <3>2 DEF JobMoved
  <2>7. CASE LaunchFails(v) \/ RunKilled(v) \/ RunTimesOut(v)
    BY <2>6, <2>7 DEF LaunchFails, RunKilled, RunTimesOut
  <2>8. CASE RunEnds(v)
    <3>1. CASE WkGoto(v, "finish")
      <4>1. /\ wk'[v].pc = "finish" /\ wk'[v].task = wk[v].task
            /\ wk'[v].req = wk[v].req /\ wk'[v].att = wk[v].att
        BY <1>1, <2>2, <3>1 DEF WkGoto, ExecJob
      <4> QED
        BY <2>1, <2>8, <4>1 DEF JobMoved
    <3>2. CASE \E stage \in {"subprocess", "parse"} : WkFail(v, stage)
      BY <2>6, <2>8, <3>2
    <3> QED
      BY <2>8, <3>1, <3>2 DEF RunEnds
  <2>9. CASE SoftTimeout(v) \/ StopKill(v)
    BY <1>1, <2>1, <2>2, <2>9 DEF JobMoved, SoftTimeout, StopKill, WkGoto, ExecJob
  <2> QED
    BY <1>6, <2>3, <2>4, <2>5, <2>7, <2>8, <2>9
<1>7. CASE ScanRead(v)
  BY <1>1, <1>7 DEF JobMoved, ScanRead
<1>8. CASE ScanKill(v) \/ ScanGet(v)
  <2>1. wk[v] \in ScanJob /\ Scanning(v)
    BY <1>8, ScanJobType DEF ScanKill, ScanGet, Typed, Scanning
  <2>2. CASE ScanKill(v)
    <3>1. /\ wk'[v].pc = "scanGet" /\ wk'[v].stale = wk[v].stale
          /\ wk'[v].pending = wk[v].pending
      BY <1>1, <2>1, <2>2 DEF ScanKill, WkGoto, ScanJob
    <3> QED
      BY <2>1, <2>2, <3>1 DEF JobMoved
  <2>3. CASE ScanGet(v)
    <3> DEFINE settled == {t \in wk[v].stale \cup wk[v].pending :
                             row[t].status = "failed"}
               staged == {t \in wk[v].stale \cup wk[v].pending :
                            row[t].stage = ScanStage(v, t)}
    <3>1. wk'[v] = [wk[v] EXCEPT !.pc = "scanWrite", !.settled = settled,
                                 !.staged = staged]
      BY <1>1, <2>3 DEF ScanGet
    <3> HIDE DEF settled, staged
    <3>2. /\ wk'[v].pc = "scanWrite" /\ wk'[v].stale = wk[v].stale
          /\ wk'[v].pending = wk[v].pending /\ wk'[v].settled = settled
      BY <2>1, <3>1 DEF ScanJob
    <3> QED
      BY <2>1, <2>3, <3>2 DEF JobMoved, settled
  <2> QED
    BY <1>8, <2>2, <2>3
<1>9. \/ wk'[v] = wk[v]
      \/ \E m \in queue : Receive(v, m)
      \/ Skip(v) \/ MarkRefused(v) \/ FailWrite(v) \/ FinishWrite(v)
      \/ StopWrite(v) \/ Ack(v) \/ ScanWrite(v) \/ Crash(v) \/ Boot(v)
      \/ Accept(v) \/ Launch(v) \/ MarkRunning(v) \/ LaunchFails(v)
      \/ RunEnds(v) \/ RunKilled(v) \/ RunTimesOut(v) \/ SoftTimeout(v)
      \/ StopKill(v) \/ ScanRead(v) \/ ScanKill(v) \/ ScanGet(v)
  <2>1. ASSUME NEW w \in Workers, w # v,
               ExecStep(w) \/ ScanStep(w) \/ Boot(w) \/ Crash(w)
                 \/ Redeliver(w) \/ SoftTimeout(w)
        PROVE  wk'[v] = wk[v]
    BY <1>1, <2>1 DEF ExecStep, ScanStep, Receive, Discard, Accept, Skip,
         LaunchFails, Launch, MarkRunning, MarkRefused, RunEnds, RunKilled,
         RunTimesOut, FailWrite, FinishWrite, StopKill, StopWrite, Ack, ScanRead,
         ScanKill, ScanGet, ScanWrite, Boot, Crash, Redeliver, SoftTimeout,
         WkGoto, WkFail, WkReturn
  <2>2. CASE \/ UNCHANGED vars
             \/ \E c \in Clients : Request(c) \/ WebStep(c) \/ WebCrash(c)
             \/ \E m \in queue : Lose(m)
             \/ \E t \in Tasks : Age(t)
             \/ \E p \in live : OrphanExit(p)
    BY <2>2 DEF vars, Request, WebStep, CreateLookup, RetryLookup, CancelLookup,
         Insert, InsertLost, Refresh, Reset, Publish, PublishRaises, FailDispatch,
         RecordMessage, CancelKill, CancelWrite, CancelRefused, CancelRevoke,
         WebCrash, Lose, Age, OrphanExit
  <2>3. CASE ExecStep(v) \/ ScanStep(v) \/ Boot(v) \/ Crash(v)
             \/ Redeliver(v) \/ SoftTimeout(v)
    BY <2>3 DEF ExecStep, ScanStep, Discard, Redeliver
  <2> QED
    BY <2>1, <2>2, <2>3 DEF Next, Environment
<1> QED
  BY <1>2, <1>3, <1>4, <1>5, <1>6, <1>7, <1>8, <1>9

\* How the handler of thread c may change, with the columns it holds.
HandlerMoved(c) ==
  LET same == /\ web'[c].task = web[c].task /\ web'[c].mid = web[c].mid
              /\ web'[c].req = web[c].req /\ web'[c].status = web[c].status
              /\ web'[c].stage = web[c].stage
  IN
  \/ web'[c] = web[c]
  \/ /\ web'[c].pc = "idle"
     /\ \/ InsertLost(c) \/ FailDispatch(c) \/ RecordMessage(c) \/ CancelWrite(c)
        \/ CancelRefused(c) \/ CancelRevoke(c) \/ WebCrash(c)
  \/ \E t \in Tasks :
       /\ web[c].pc = "idle" /\ web'[c].task = t
       /\ web'[c].mid = row[t].mid /\ web'[c].status = row[t].status
       /\ web'[c].stage = row[t].stage
       /\ \/ web'[c].pc = "insert" /\ row[t].status = "absent"
          \/ web'[c].pc = "reset" /\ row[t].status = "failed"
          \/ /\ web'[c].pc \in {"kill", "cancel"}
             /\ row[t].status \in {"pending", "running"}
  \/ /\ \/ Insert(c) /\ web'[c].pc = "refresh"
        \/ Reset(c) /\ web'[c].pc = "dispatch"
     /\ web'[c].task = web[c].task /\ web'[c].req = Len(requests) + 1
     /\ web'[c].status = "pending" /\ web'[c].stage = "none" /\ web'[c].mid = 0
  \/ /\ Refresh(c) /\ web[c].pc = "refresh" /\ web'[c].pc = "dispatch"
     /\ web'[c].task = web[c].task /\ web'[c].req = web[c].req
     /\ LET r == row[web[c].task] IN
        /\ web'[c].status = r.status /\ web'[c].stage = r.stage
        /\ web'[c].mid = r.mid
  \/ Publish(c) /\ web'[c].pc = "record" /\ same
  \/ PublishRaises(c) /\ web'[c].pc = "refused" /\ same
  \/ CancelKill(c) /\ web'[c].pc = "cancel" /\ same
  \/ CancelWrite(c) /\ web'[c].pc = "revoke" /\ same

LEMMA HandlerSteps ==
  ASSUME Typed, [Next]_vars, NEW c \in Clients
  PROVE  HandlerMoved(c)
<1>1. web \in [Clients -> WebState] /\ row \in [Tasks -> Row]
  BY DEF Typed, TypeOK
<1>2. CASE web'[c] = web[c]
  BY <1>2 DEF HandlerMoved
<1>3. CASE WebDone(c) /\ (\/ InsertLost(c) \/ FailDispatch(c) \/ RecordMessage(c)
                          \/ CancelWrite(c) \/ CancelRefused(c)
                          \/ CancelRevoke(c) \/ WebCrash(c))
  <2>1. web'[c].pc = "idle"
    BY <1>1, <1>3 DEF WebDone, WebIdle
  <2> QED
    BY <1>3, <2>1 DEF HandlerMoved
<1>4. ASSUME NEW t \in Tasks,
             CreateLookup(c, t) \/ RetryLookup(c, t) \/ CancelLookup(c, t)
      PROVE  HandlerMoved(c)
  <2>1. /\ web[c].pc = "idle"
        /\ \E pc \in {"insert", "reset", "kill", "cancel"} :
             /\ WebLoad(c, t, 0, pc)
             /\ pc = "insert" => row[t].status = "absent"
             /\ pc = "reset" => row[t].status = "failed"
             /\ pc \in {"kill", "cancel"} => row[t].status \in {"pending", "running"}
    BY <1>4 DEF CreateLookup, RetryLookup, CancelLookup
  <2>2. PICK pc \in {"insert", "reset", "kill", "cancel"} :
             /\ WebLoad(c, t, 0, pc)
             /\ pc = "insert" => row[t].status = "absent"
             /\ pc = "reset" => row[t].status = "failed"
             /\ pc \in {"kill", "cancel"} => row[t].status \in {"pending", "running"}
    BY <2>1
  <2>3. /\ web'[c].pc = pc /\ web'[c].task = t
        /\ web'[c].mid = row[t].mid /\ web'[c].status = row[t].status
        /\ web'[c].stage = row[t].stage
    BY <1>1, <2>2 DEF WebLoad
  <2> QED
    BY <2>1, <2>2, <2>3 DEF HandlerMoved
<1>5. CASE Insert(c) \/ Reset(c)
  BY <1>1, <1>5 DEF HandlerMoved, Insert, Reset, MakePending
<1>6. CASE Publish(c) \/ PublishRaises(c) \/ CancelKill(c)
           \/ (CancelWrite(c) /\ WebGoto(c, "revoke"))
  <2>1. web[c] \in WebJob
    BY <1>6, WebJobType DEF Publish, PublishRaises, CancelKill, CancelWrite, Typed
  <2>2. ASSUME NEW pc, WebGoto(c, pc)
        PROVE  /\ web'[c].pc = pc
               /\ web'[c].task = web[c].task /\ web'[c].mid = web[c].mid
               /\ web'[c].req = web[c].req /\ web'[c].status = web[c].status
               /\ web'[c].stage = web[c].stage
    BY <1>1, <2>1, <2>2 DEF WebGoto, WebJob
  <2> QED
    BY <1>6, <2>2 DEF HandlerMoved, Publish, PublishRaises, CancelKill
<1>7. \/ web'[c] = web[c]
      \/ /\ WebDone(c)
         /\ \/ InsertLost(c) \/ FailDispatch(c) \/ RecordMessage(c)
            \/ CancelWrite(c) \/ CancelRefused(c)
            \/ CancelRevoke(c) \/ WebCrash(c)
      \/ \E t \in Tasks :
           CreateLookup(c, t) \/ RetryLookup(c, t) \/ CancelLookup(c, t)
      \/ Insert(c) \/ Reset(c) \/ Refresh(c)
      \/ Publish(c) \/ PublishRaises(c) \/ CancelKill(c)
      \/ CancelWrite(c) /\ WebGoto(c, "revoke")
  <2>1. ASSUME NEW d \in Clients, d # c, Request(d) \/ WebStep(d) \/ WebCrash(d)
        PROVE  web'[c] = web[c]
    BY <1>1, <2>1 DEF Request, WebStep, CreateLookup, RetryLookup, CancelLookup,
         Insert, InsertLost, Refresh, Reset, Publish, PublishRaises, FailDispatch,
         RecordMessage, CancelKill, CancelWrite, CancelRefused, CancelRevoke,
         WebCrash, WebGoto, WebDone, WebLoad, MakePending
  <2>2. CASE \/ UNCHANGED vars
             \/ \E w \in Workers : \/ ExecStep(w) \/ ScanStep(w) \/ Boot(w)
                                   \/ Crash(w) \/ Redeliver(w) \/ SoftTimeout(w)
             \/ \E m \in queue : Lose(m)
             \/ \E t \in Tasks : Age(t)
             \/ \E p \in live : OrphanExit(p)
    BY <2>2 DEF vars, ExecStep, ScanStep, Receive, Discard, Accept, Skip,
         LaunchFails, Launch, MarkRunning, MarkRefused, RunEnds, RunKilled,
         RunTimesOut, FailWrite, FinishWrite, StopKill, StopWrite, Ack, ScanRead,
         ScanKill, ScanGet, ScanWrite, Boot, Crash, Redeliver, SoftTimeout,
         Lose, Age, OrphanExit
  <2>3. CASE Request(c) \/ WebStep(c) \/ WebCrash(c)
    BY <2>3 DEF Request, WebStep, InsertLost, FailDispatch, RecordMessage,
         CancelWrite, CancelRefused, CancelRevoke, WebCrash
  <2> QED
    BY <2>1, <2>2, <2>3 DEF Next, Environment
<1>8. CASE Refresh(c)
  BY <1>1, <1>8 DEF HandlerMoved, Refresh, WebLoad
<1> QED
  BY <1>2, <1>3, <1>4, <1>5, <1>6, <1>7, <1>8

-----------------------------------------------------------------------------
(* Without "age" no scan takes a row up.                                     *)

\* Nothing is stale, so no scan goes beyond its first session.
Calm ==
  /\ \A t \in Tasks : ~row[t].aged
  /\ \A w \in Workers : ~Scanning(w)

LEMMA CalmInit == Init => Calm
BY DEF Init, Calm, Scanning, Absent, WkIdle

LEMMA CalmStep ==
  ASSUME "age" \notin EnvKinds, Typed, Calm, [Next]_vars
  PROVE  Calm'
<1>1. ASSUME NEW t \in Tasks
      PROVE  ~row'[t].aged
  <2>1. row[t] \in Row /\ ~row[t].aged
    BY DEF Typed, TypeOK, Calm
  <2>2. ~Age(t) /\ \A w \in Workers : ~ScanWrite(w)
    BY DEF Age, ScanWrite, Calm, Scanning
  <2>3. RowMoved(t)
    BY RowSteps
  <2> QED
    BY <2>1, <2>2, <2>3 DEF RowMoved, Written
<1>2. ASSUME NEW w \in Workers
      PROVE  ~Scanning(w)'
  <2>1. JobMoved(w) /\ ~Scanning(w) /\ Stale("running") \cup Stale("pending") = {}
    BY JobSteps DEF Calm, Stale
  <2> QED
    BY <2>1 DEF JobMoved, Scanning
<1> QED
  BY <1>1, <1>2 DEF Calm

-----------------------------------------------------------------------------
(* Attempts: att changes only when the row becomes pending.                  *)

LEMMA AttemptSteps ==
  ASSUME Typed, [Next]_vars
  PROVE  \/ UNCHANGED <<requests, att>>
         \/ \E c \in Clients :
              /\ Insert(c) \/ Reset(c)
              /\ requests' = Append(requests, web[c].task)
              /\ att' = [att EXCEPT ![web[c].task] = Len(requests) + 1]
<1>1. ASSUME NEW c \in Clients, WebStep(c) \/ Request(c) \/ WebCrash(c),
             ~(Insert(c) \/ Reset(c))
      PROVE  UNCHANGED <<requests, att>>
  BY <1>1 DEF Request, WebStep, CreateLookup, RetryLookup, CancelLookup,
       InsertLost, Refresh, Publish, PublishRaises, FailDispatch, RecordMessage,
       CancelKill, CancelWrite, CancelRefused, CancelRevoke, WebCrash, dbVars
<1>2. CASE \/ UNCHANGED vars
           \/ \E w \in Workers : \/ ExecStep(w) \/ ScanStep(w) \/ Boot(w)
                                 \/ Crash(w) \/ Redeliver(w) \/ SoftTimeout(w)
           \/ \E m \in queue : Lose(m)
           \/ \E t \in Tasks : Age(t)
           \/ \E p \in live : OrphanExit(p)
  BY <1>2 DEF vars, dbVars, ExecStep, ScanStep, Receive, Discard, Accept, Skip,
       LaunchFails, Launch, MarkRunning, MarkRefused, RunEnds, RunKilled,
       RunTimesOut, FailWrite, FinishWrite, StopKill, StopWrite, Ack, ScanRead,
       ScanKill, ScanGet, ScanWrite, Boot, Crash, Redeliver, SoftTimeout,
       Lose, Age, OrphanExit
<1>3. ASSUME NEW c \in Clients, Insert(c) \/ Reset(c)
      PROVE  /\ requests' = Append(requests, web[c].task)
             /\ att' = [att EXCEPT ![web[c].task] = Len(requests) + 1]
  BY <1>3 DEF Insert, Reset, MakePending
<1> QED
  BY <1>1, <1>2, <1>3 DEF Next, Environment

LEMMA AttemptBegins ==
  ASSUME Typed, [Next]_vars, NEW c \in Clients, Insert(c) \/ Reset(c)
  PROVE  /\ web[c].task \in Tasks
         /\ row'[web[c].task].status = "pending"
         /\ att'[web[c].task] = Len(requests) + 1
<1>1. web[c].task \in Tasks
  BY WebJobType DEF Typed, WebJob, Insert, Reset
<1>2. row \in [Tasks -> Row] /\ att \in [Tasks -> 0..Len(requests)]
  BY DEF Typed, TypeOK
<1>3. att'[web[c].task] = Len(requests) + 1
  BY <1>1, <1>2 DEF Insert, Reset, MakePending
<1>4. row'[web[c].task].status = "pending"
  BY <1>1, <1>2 DEF Insert, Reset, MakePending, ResetRow, Absent
<1> QED
  BY <1>1, <1>3, <1>4

LEMMA AttemptKept ==
  ASSUME Typed, [Next]_vars, NEW t \in Tasks, row'[t].status # "pending"
  PROVE  att'[t] = att[t]
<1>1. ASSUME NEW c \in Clients, Insert(c) \/ Reset(c),
             att' = [att EXCEPT ![web[c].task] = Len(requests) + 1]
      PROVE  att'[t] = att[t]
  BY <1>1, AttemptBegins DEF Typed, TypeOK
<1> QED
  BY <1>1, AttemptSteps

-----------------------------------------------------------------------------
(* Why a row failed.  Without "age" no scan takes a row up; the hypothesis   *)
(* is needed, as a scan may rewrite a row that was reset after it was        *)
(* listed, and leave it pending with an error_stage.                         *)

FailsWithAReason == \A w \in Workers : wk[w].pc = "fail" => wk[w].stage # "none"

\* A row that is absent has not been requested.
Uncreated ==
  \A t \in Tasks :
    row[t].status = "absent" => \A n \in 1..Len(requests) : requests[n] # t

\* No two handlers have the same request.
RequestsDiffer ==
  \A c, d \in Clients :
    web[c].pc \in HoldsRequest /\ web[d].pc \in HoldsRequest
      /\ web[c].req = web[d].req => c = d

\* A handler that is to load its row again, or found it failed then, has
\* created it.
Created(c) ==
  \/ web[c].pc = "refresh"
  \/ web[c].pc \in {"dispatch", "refused"} /\ web[c].status = "failed"

CreatorsKnown ==
  \A c \in Clients : Created(c) => Creates(requests, web[c].req, web[c].task)

\* The error_stage that handlers hold: failed rows had one, and "dispatch" was
\* that of a failed row.
LoadsExplained ==
  \A c \in Clients :
    /\ web[c].pc = "reset" => web[c].stage # "none"
    /\ web[c].pc = "refresh" /\ row[web[c].task].stage = "dispatch"
         => row[web[c].task].status = "failed"
    /\ web[c].pc \in {"dispatch", "refused"} /\ web[c].stage = "dispatch"
         => web[c].status = "failed"

\* A row that was found failed is, unless a retry has begun another attempt.
FailedOrPast ==
  \A c \in Clients :
    web[c].pc \in {"dispatch", "refused"} /\ web[c].status = "failed"
      => \/ row[web[c].task].status = "failed"
         \/ att[web[c].task] # web[c].req

LEMMA FailsWithAReasonStep ==
  ASSUME Typed, FailsWithAReason, [Next]_vars
  PROVE  FailsWithAReason'
<1> SUFFICES ASSUME NEW w \in Workers, wk'[w].pc = "fail"
             PROVE  wk'[w].stage # "none"
  BY DEF FailsWithAReason
<1>1. JobMoved(w)
  BY JobSteps
<1> QED
  BY <1>1 DEF JobMoved, FailsWithAReason

\* The numbers of the requests stay theirs.
LEMMA CreatesStays ==
  ASSUME Typed, [Next]_vars, NEW t \in Tasks, NEW n \in 1..Len(requests)
  PROVE  Creates(requests', n, t) <=> Creates(requests, n, t)
<1>1. requests \in Seq(Tasks) /\ Len(requests) \in Nat
  BY DEF Typed, TypeOK
<1>2. CASE requests' = requests
  BY <1>2 DEF Creates
<1>3. ASSUME NEW u \in Tasks, requests' = Append(requests, u)
      PROVE  Creates(requests', n, t) <=> Creates(requests, n, t)
  <2>1. \A m \in 1..n : m \in 1..Len(requests) /\ requests'[m] = requests[m]
    BY <1>1, <1>3
  <2>2. n \in 1..Len(requests') /\ n \in 1..n /\ \A m \in 1..(n - 1) : m \in 1..n
    BY <1>1, <1>3
  <2> QED
    BY <2>1, <2>2 DEF Creates
<1> QED
  BY <1>2, <1>3, AttemptSteps, AttemptBegins

LEMMA OneCreates ==
  ASSUME Typed, NEW t, NEW m, NEW n, Creates(requests, m, t), Creates(requests, n, t)
  PROVE  m = n
<1>1. Len(requests) \in Nat
  BY DEF Typed, TypeOK
<1>2. m \in Nat /\ n \in Nat /\ m >= 1 /\ n >= 1
  BY <1>1 DEF Creates
<1>3. ~ (m < n) /\ ~ (n < m)
  BY <1>2 DEF Creates
<1> QED
  BY <1>2, <1>3

LEMMA UncreatedStep ==
  ASSUME Typed, Uncreated, [Next]_vars
  PROVE  Uncreated'
<1> SUFFICES ASSUME NEW t \in Tasks, row'[t].status = "absent",
                    NEW n \in 1..Len(requests')
             PROVE  requests'[n] # t
  BY DEF Uncreated
<1>1. row[t].status = "absent"
  BY RowSteps DEF RowMoved, Written
<1>2. requests \in Seq(Tasks) /\ Len(requests) \in Nat
  BY DEF Typed, TypeOK
<1>3. CASE requests' = requests
  BY <1>1, <1>3 DEF Uncreated
<1>4. ASSUME NEW c \in Clients, Insert(c) \/ Reset(c),
             requests' = Append(requests, web[c].task)
      PROVE  requests'[n] # t
  <2>1. web[c].task \in Tasks /\ web[c].task # t
    BY <1>4, AttemptBegins
  <2> QED
    BY <1>1, <1>2, <1>4, <2>1 DEF Uncreated
<1> QED
  BY <1>3, <1>4, AttemptSteps

\* A handler gets its request from a commit, and keeps it.
LEMMA RequestKept ==
  ASSUME Typed, [Next]_vars, NEW c \in Clients, web'[c].pc \in HoldsRequest
  PROVE  \/ web'[c].req = Len(requests) + 1 /\ (Insert(c) \/ Reset(c))
         \/ web[c].pc \in HoldsRequest /\ web'[c].req = web[c].req
<1>1. HandlerMoved(c)
  BY HandlerSteps
<1>2. Publish(c) \/ PublishRaises(c) => web[c].pc = "dispatch"
  BY DEF Publish, PublishRaises
<1> QED
  BY <1>1, <1>2 DEF HandlerMoved, HoldsRequest

LEMMA RequestsDifferStep ==
  ASSUME Typed, RequestsDiffer, [Next]_vars
  PROVE  RequestsDiffer'
<1> SUFFICES ASSUME NEW c \in Clients, NEW d \in Clients, c # d,
                    web'[c].pc \in HoldsRequest, web'[d].pc \in HoldsRequest
             PROVE  web'[c].req # web'[d].req
  BY DEF RequestsDiffer
<1>1. Len(requests) \in Nat
  BY DEF Typed, TypeOK
<1>2. \A e \in {c, d} : web[e].pc \in HoldsRequest => web[e].req # Len(requests) + 1
  BY <1>1 DEF Typed, KnownIds
<1>3. ~ (/\ Insert(c) \/ Reset(c)
         /\ Insert(d) \/ Reset(d))
  <2>1. web[d].pc # "idle" /\ web'[c] # web[c] /\ (Insert(d) \/ Reset(d))
          /\ (Insert(c) \/ Reset(c)) => FALSE
    <3> SUFFICES ASSUME Insert(d) \/ Reset(d), Insert(c) \/ Reset(c)
                 PROVE  FALSE
      OBVIOUS
    <3>1. web'[c].pc \in {"refresh", "dispatch"}
      BY DEF Insert, Reset, MakePending, Typed, TypeOK
    <3>2. web'[c] = web[c]
      BY DEF Insert, Reset, MakePending, Typed, TypeOK
    <3>3. web[c].pc \in {"insert", "reset"}
      BY DEF Insert, Reset
    <3> QED
      BY <3>1, <3>2, <3>3
  <2>2. ASSUME Insert(d) \/ Reset(d), Insert(c) \/ Reset(c)
        PROVE  web[d].pc # "idle" /\ web'[c] # web[c]
    <3>1. web'[c].pc \in {"refresh", "dispatch"}
      BY <2>2 DEF Insert, Reset, MakePending, Typed, TypeOK
    <3> QED
      BY <2>2, <3>1 DEF Insert, Reset
  <2> QED
    BY <2>1, <2>2
<1> QED
  BY <1>2, <1>3, RequestKept DEF RequestsDiffer

\* The row of a request that has just been committed.
LEMMA BegunRow ==
  ASSUME Typed, LoadsExplained, [Next]_vars, NEW c \in Clients,
         Insert(c) \/ Reset(c)
  PROVE  row'[web[c].task].status = "pending" /\ row'[web[c].task].stage = "none"
<1>1. web[c].task \in Tasks /\ row \in [Tasks -> Row]
  BY AttemptBegins DEF Typed, TypeOK
<1>2. CASE Insert(c)
  <2>1. row'[web[c].task] = [Absent EXCEPT !.status = "pending"]
    BY <1>1, <1>2 DEF Insert, MakePending
  <2> QED
    BY <2>1 DEF Absent
<1>3. CASE Reset(c)
  <2>1. web[c].stage # "none"
    BY <1>3 DEF LoadsExplained, Reset
  <2>2. row'[web[c].task] = ResetRow(row[web[c].task], web[c])
    BY <1>1, <1>3 DEF Reset, MakePending
  <2> QED
    BY <2>1, <2>2 DEF ResetRow, Flushed
<1> QED
  BY <1>2, <1>3

\* The rows of the other requests keep their attempt, and move otherwise.
RowKeptAttempt(t) ==
  /\ att'[t] = att[t]
  /\ \A c \in Clients : web[c].task = t => ~Insert(c) /\ ~Reset(c)

LEMMA BegunOrKept ==
  ASSUME Typed, LoadsExplained, [Next]_vars, NEW t \in Tasks
  PROVE  \/ /\ row'[t].status = "pending" /\ row'[t].stage = "none"
            /\ att'[t] = Len(requests) + 1
         \/ RowKeptAttempt(t)
<1>1. CASE \E c \in Clients : web[c].task = t /\ (Insert(c) \/ Reset(c))
  BY <1>1, BegunRow, AttemptBegins
<1>2. CASE ~ \E c \in Clients : web[c].task = t /\ (Insert(c) \/ Reset(c))
  <2>1. att \in [Tasks -> 0..Len(requests)]
    BY DEF Typed, TypeOK
  <2> QED
    BY <1>2, <2>1, AttemptSteps, AttemptBegins DEF RowKeptAttempt
<1> QED
  BY <1>1, <1>2

LEMMA CreatorsKnownStep ==
  ASSUME Typed, Uncreated, CreatorsKnown, [Next]_vars
  PROVE  CreatorsKnown'
<1> SUFFICES ASSUME NEW c \in Clients,
                    \/ web'[c].pc = "refresh"
                    \/ /\ web'[c].pc \in {"dispatch", "refused"}
                       /\ web'[c].status = "failed"
             PROVE  Creates(requests', web'[c].req, web'[c].task)
  BY DEF CreatorsKnown, Created
<1>1. requests \in Seq(Tasks) /\ Len(requests) \in Nat
  BY DEF Typed, TypeOK
<1>2. CASE /\ Insert(c) /\ web'[c].task = web[c].task
           /\ web'[c].req = Len(requests) + 1
  <2>1. requests' = Append(requests, web[c].task) /\ web[c].task \in Tasks
    BY <1>2, AttemptBegins DEF Insert, MakePending
  <2>2. \A m \in 1..Len(requests) : requests[m] # web[c].task
    BY <1>2, <2>1 DEF Insert, Uncreated
  <2>3. /\ Len(requests') = Len(requests) + 1
        /\ requests'[Len(requests) + 1] = web[c].task
        /\ \A m \in 1..Len(requests) : requests'[m] = requests[m]
    BY <1>1, <2>1
  <2>4. Len(requests) + 1 - 1 = Len(requests)
          /\ Len(requests) + 1 \in 1..(Len(requests) + 1)
    BY <1>1
  <2> QED
    BY <1>2, <2>2, <2>3, <2>4 DEF Creates
<1>3. CASE /\ web'[c].task = web[c].task /\ web'[c].req = web[c].req
           /\ \/ web[c].pc = "refresh"
              \/ web[c].pc \in {"dispatch", "refused"} /\ web[c].status = "failed"
  <2>1. web[c].pc \in HoldsRequest /\ web[c].pc # "idle"
    BY <1>3 DEF HoldsRequest
  <2>2. web[c].req \in 1..Len(requests) /\ web[c].task \in Tasks
    BY <2>1, WebJobType DEF Typed, KnownIds, WebJob
  <2>3. Creates(requests, web[c].req, web[c].task)
    BY <1>3 DEF CreatorsKnown, Created
  <2> QED
    BY <1>3, <2>2, <2>3, CreatesStays DEF Creates
<1>4. HandlerMoved(c)
  BY HandlerSteps
<1>5. /\ Publish(c) \/ PublishRaises(c) => web[c].pc = "dispatch"
  BY DEF Publish, PublishRaises
<1> QED
  BY <1>2, <1>3, <1>4, <1>5 DEF HandlerMoved

LEMMA FailedOrPastStep ==
  ASSUME Typed, LoadsExplained, FailedOrPast, [Next]_vars
  PROVE  FailedOrPast'
<1> SUFFICES ASSUME NEW c \in Clients, web'[c].pc \in {"dispatch", "refused"},
                    web'[c].status = "failed"
             PROVE  \/ row'[web'[c].task].status = "failed"
                    \/ att'[web'[c].task] # web'[c].req
  BY DEF FailedOrPast
<1>1. HandlerMoved(c)
  BY HandlerSteps
<1>2. CASE Refresh(c)
  <2>1. row' = row /\ web'[c].task = web[c].task
          /\ web'[c].status = row[web[c].task].status
    BY <1>2 DEF Refresh, WebLoad, dbVars, Typed, TypeOK
  <2> QED
    BY <2>1
<1>3. CASE /\ web'[c].task = web[c].task /\ web'[c].req = web[c].req
           /\ web[c].pc \in {"dispatch", "refused"} /\ web[c].status = "failed"
  <2> DEFINE t == web[c].task
  <2>1. t \in Tasks /\ web[c].req \in 1..Len(requests) /\ Len(requests) \in Nat
    <3>1. web[c].pc # "idle" /\ web[c].pc \in HoldsRequest
      BY <1>3 DEF HoldsRequest
    <3>2. web[c] \in WebJob
      BY <3>1, WebJobType DEF Typed
    <3>3. Len(requests) \in Nat
      BY DEF Typed, TypeOK
    <3> QED
      BY <3>1, <3>2, <3>3 DEF Typed, KnownIds, WebJob
  <2>2. CASE att'[t] = Len(requests) + 1
    BY <1>3, <2>1, <2>2
  <2>3. CASE RowKeptAttempt(t)
    <3>1. CASE att[t] # web[c].req
      BY <1>3, <2>3, <3>1 DEF RowKeptAttempt
    <3>2. CASE row[t].status = "failed"
      <4>1. RowMoved(t)
        BY <2>1, RowSteps
      <4>2. row'[t].status = "failed"
        BY <2>3, <3>2, <4>1 DEF RowMoved, Written, RowKeptAttempt
      <4> QED
        BY <1>3, <4>2
    <3> QED
      BY <1>3, <3>1, <3>2 DEF FailedOrPast
  <2> QED
    BY <2>1, <2>2, <2>3, BegunOrKept
<1>4. PublishRaises(c) => web[c].pc = "dispatch"
  BY DEF PublishRaises
<1> QED
  BY <1>1, <1>2, <1>3, <1>4 DEF HandlerMoved

LEMMA LoadsExplainedStep ==
  ASSUME "age" \notin EnvKinds, Typed, Calm, FailureIsExplained, RequestsDiffer,
         CreatorsKnown, LoadsExplained, [Next]_vars
  PROVE  LoadsExplained'
<1> SUFFICES ASSUME NEW c \in Clients
             PROVE  /\ web'[c].pc = "reset" => web'[c].stage # "none"
                    /\ web'[c].pc = "refresh" /\ row'[web'[c].task].stage = "dispatch"
                         => row'[web'[c].task].status = "failed"
                    /\ web'[c].pc \in {"dispatch", "refused"}
                         /\ web'[c].stage = "dispatch" => web'[c].status = "failed"
  BY DEF LoadsExplained
<1>1. HandlerMoved(c)
  BY HandlerSteps
<1>2. web'[c].pc = "reset" => web'[c].stage # "none"
  BY <1>1 DEF HandlerMoved, LoadsExplained, FailureIsExplained
<1>3. web'[c].pc \in {"dispatch", "refused"} /\ web'[c].stage = "dispatch"
        => web'[c].status = "failed"
  <2>1. PublishRaises(c) => web[c].pc = "dispatch"
    BY DEF PublishRaises
  <2> QED
    BY <1>1, <2>1 DEF HandlerMoved, LoadsExplained
<1>4. ASSUME web'[c].pc = "refresh", row'[web'[c].task].stage = "dispatch"
      PROVE  row'[web'[c].task].status = "failed"
  <2>1. CASE Insert(c)
    <3>1. web'[c].task = web[c].task
      BY <2>1 DEF Insert, MakePending, Typed, TypeOK
    <3> QED
      BY <1>4, <2>1, <3>1, BegunRow
  <2>2. CASE web'[c] = web[c]
    <3> DEFINE t == web[c].task
    <3>1. t \in Tasks /\ web[c].pc = "refresh" /\ Creates(requests, web[c].req, t)
      BY <1>4, <2>2, WebJobType DEF Typed, WebJob, CreatorsKnown, Created
    <3>2. row[t].stage = "dispatch" => row[t].status = "failed"
      BY <3>1 DEF LoadsExplained
    <3>3. RowKeptAttempt(t)
      BY <1>4, <2>2, <3>1, BegunOrKept
    <3>4. ASSUME NEW d \in Clients, FailDispatch(d), web[d].task = t
          PROVE  web[d].status # "failed"
      <4>1. SUFFICES ASSUME web[d].status = "failed" PROVE FALSE
        OBVIOUS
      <4>2. web[d].pc = "refused" /\ Creates(requests, web[d].req, t)
        BY <3>4, <4>1 DEF FailDispatch, CreatorsKnown, Created
      <4>3. web[c].req = web[d].req
        BY <3>1, <4>2, OneCreates
      <4> QED
        BY <3>1, <4>2, <4>3 DEF RequestsDiffer, HoldsRequest
    <3>5. ~Age(t) /\ \A w \in Workers : ~ScanWrite(w)
      BY DEF Age, ScanWrite, Calm, Scanning
    <3>6. RowMoved(t)
      BY <3>1, RowSteps
    <3>7. row'[t].stage = "dispatch"
      BY <1>4, <2>2
    <3>8. row'[t].status = "failed"
      BY <3>2, <3>3, <3>4, <3>5, <3>6, <3>7
      DEF RowMoved, Written, RowKeptAttempt, Flushed
    <3> QED
      BY <2>2, <3>8
  <2> QED
    BY <1>1, <1>4, <2>1, <2>2 DEF HandlerMoved
<1> QED
  BY <1>2, <1>3, <1>4

\* What the step of a handler or of a worker leaves of status and error_stage.
LEMMA FailureIsExplainedStep ==
  ASSUME "age" \notin EnvKinds, Typed, Calm, FailsWithAReason, CreatorsKnown,
         LoadsExplained, FailedOrPast, FailureIsExplained, [Next]_vars
  PROVE  FailureIsExplained'
<1> SUFFICES ASSUME NEW t \in Tasks
             PROVE  /\ row'[t].status = "failed" => row'[t].stage # "none"
                    /\ row'[t].stage # "none" =>
                         \/ row'[t].status = "failed"
                         \/ row'[t].stage = "dispatch" /\ ~Creates(requests', att'[t], t)
  BY DEF FailureIsExplained
<1>1. CASE row'[t].status = "pending" /\ row'[t].stage = "none"
  BY <1>1
<1>2. CASE RowKeptAttempt(t)
  <2> DEFINE Later == ~Creates(requests, att[t], t)
  <2>1. Creates(requests', att'[t], t) => Creates(requests, att[t], t)
    <3>1. att'[t] = att[t] /\ att[t] \in 0..Len(requests) /\ Len(requests) \in Nat
      BY <1>2 DEF RowKeptAttempt, Typed, TypeOK
    <3>2. CASE att[t] = 0
      BY <3>1, <3>2 DEF Creates
    <3>3. CASE att[t] \in 1..Len(requests)
      BY <3>1, <3>3, CreatesStays DEF Creates
    <3> QED
      BY <3>1, <3>2, <3>3
  <2>2. /\ row[t].status = "failed" => row[t].stage # "none"
        /\ row[t].stage # "none" =>
             row[t].status = "failed" \/ (row[t].stage = "dispatch" /\ Later)
    BY DEF FailureIsExplained
  <2>3. ~Age(t) /\ \A w \in Workers : ~ScanWrite(w)
    BY DEF Age, ScanWrite, Calm, Scanning
  <2>4. \A w \in Workers : FailWrite(w) => wk[w].stage # "none"
    BY DEF FailWrite, FailsWithAReason
  <2>5. ASSUME NEW c \in Clients, FailDispatch(c), web[c].task = t
        PROVE  \/ web[c].status # "failed" /\ web[c].stage # "dispatch"
               \/ web[c].status = "failed" /\ (row[t].status = "failed" \/ Later)
    <3>1. web[c].pc = "refused"
      BY <2>5 DEF FailDispatch
    <3>2. CASE web[c].status # "failed"
      BY <3>1, <3>2 DEF LoadsExplained
    <3>3. CASE web[c].status = "failed"
      <4>1. Creates(requests, web[c].req, t)
        BY <2>5, <3>1, <3>3 DEF CreatorsKnown, Created
      <4>2. row[t].status = "failed" \/ att[t] # web[c].req
        BY <2>5, <3>1, <3>3 DEF FailedOrPast
      <4> QED
        BY <3>3, <4>1, <4>2, OneCreates
    <3> QED
      BY <3>2, <3>3
  <2>6. RowMoved(t)
    BY RowSteps
  <2> HIDE DEF Later
  <2>7. /\ row'[t].status = "failed" => row'[t].stage # "none"
        /\ row'[t].stage # "none" =>
             row'[t].status = "failed" \/ (row'[t].stage = "dispatch" /\ Later)
    BY <1>2, <2>2, <2>3, <2>4, <2>5, <2>6
    DEF RowMoved, Written, RowKeptAttempt, Flushed
  <2> QED
    BY <2>1, <2>7 DEF Later
<1> QED
  BY <1>1, <1>2, BegunOrKept

\* The handlers that end an attempt and those that begin one agree on status
\* and error_stage, for any threads, workers, tasks and faults, where no row
\* grows older than its timeout; with the one exception of a row whose creator
\* reloads it after a cancel (base.py:57) and fails a later attempt.
THEOREM FailuresAreExplained ==
  ASSUME "age" \notin EnvKinds
  PROVE  Spec => []FailureIsExplained
<1> DEFINE Inv == /\ Calm /\ FailsWithAReason /\ Uncreated /\ RequestsDiffer
                  /\ CreatorsKnown /\ LoadsExplained /\ FailedOrPast
                  /\ FailureIsExplained
<1>1. Init => Inv
  <2> SUFFICES ASSUME Init PROVE Inv
    OBVIOUS
  <2>1. /\ \A c \in Clients : web[c].pc = "idle"
        /\ \A w \in Workers : wk[w].pc = "idle"
        /\ \A t \in Tasks : row[t].status = "absent" /\ row[t].stage = "none"
        /\ Len(requests) = 0
    BY DEF Init, WebIdle, WkIdle, Absent
  <2>2. Calm /\ FailsWithAReason /\ Uncreated
    BY <2>1, CalmInit DEF FailsWithAReason, Uncreated
  <2>3. RequestsDiffer /\ CreatorsKnown /\ LoadsExplained /\ FailedOrPast
    BY <2>1 DEF RequestsDiffer, CreatorsKnown, Created, LoadsExplained,
                FailedOrPast, HoldsRequest
  <2>4. FailureIsExplained
    BY <2>1 DEF FailureIsExplained
  <2> QED
    BY <2>2, <2>3, <2>4
<1>2. Typed /\ Inv /\ [Next]_vars => Inv'
  BY CalmStep, FailsWithAReasonStep, UncreatedStep, RequestsDifferStep,
     CreatorsKnownStep, LoadsExplainedStep, FailedOrPastStep, FailureIsExplainedStep
<1>3. Inv => FailureIsExplained
  OBVIOUS
<1> QED
  BY <1>1, <1>2, <1>3, TypedInit, TypedStep, PTL DEF Spec

-----------------------------------------------------------------------------
(* Results of one worker process.  With two, the first may finish an attempt *)
(* that a duplicate delivery let the second start.                           *)

OneWorker == \A v, w \in Workers : v = w

OwnAttempt ==
  \A w \in Workers :
    wk[w].pc \in {"run", "finish"} /\ row[wk[w].task].status = "running"
      => wk[w].att = att[wk[w].task]

LEMMA OwnAttemptStep ==
  ASSUME OneWorker, Typed, OwnAttempt, [Next]_vars
  PROVE  OwnAttempt'
<1> SUFFICES ASSUME NEW w \in Workers, wk'[w].pc \in {"run", "finish"},
                    row'[wk'[w].task].status = "running"
             PROVE  wk'[w].att = att'[wk'[w].task]
  BY DEF OwnAttempt
<1>1. JobMoved(w)
  BY JobSteps
<1>2. wk[w].pc \in {"run", "finish", "mark"} => wk[w].task \in Tasks
  BY ExecJobType DEF Typed, ExecJob, ExecPC
<1>3. CASE wk'[w] = wk[w]
  <2>1. wk[w].pc \in {"run", "finish"} /\ wk[w].task \in Tasks
    BY <1>2, <1>3
  <2>2. ~MarkRunning(w) /\ ~ScanWrite(w)
    BY <2>1 DEF MarkRunning, ScanWrite
  <2>3. \A v \in Workers : ~MarkRunning(v) /\ ~ScanWrite(v)
    BY <2>2 DEF OneWorker
  <2>4. RowMoved(wk[w].task)
    BY <2>1, RowSteps
  <2>5. row[wk[w].task].status = "running"
    BY <1>3, <2>3, <2>4 DEF RowMoved, Written
  <2>6. att'[wk[w].task] = att[wk[w].task]
    BY <1>3, <2>1, AttemptKept
  <2> QED
    BY <1>3, <2>1, <2>5, <2>6 DEF OwnAttempt
<1>4. CASE wk'[w].pc = "run" /\ wk'[w] # wk[w]
  <2>1. /\ MarkRunning(w) /\ wk'[w].task = wk[w].task
        /\ wk'[w].att = att[wk[w].task]
    BY <1>1, <1>4 DEF JobMoved
  <2> QED
    BY <2>1 DEF MarkRunning
<1>5. CASE wk'[w].pc = "finish" /\ wk'[w] # wk[w]
  <2>1. /\ RunEnds(w) /\ wk'[w].task = wk[w].task /\ wk'[w].att = wk[w].att
    BY <1>1, <1>5 DEF JobMoved
  <2> QED
    BY <2>1 DEF RunEnds, OwnAttempt, dbVars
<1> QED
  BY <1>3, <1>4, <1>5

\* Whatever duplicates, resets, cancels, crashes and scans do meanwhile, one
\* worker process ends with success only the attempt it ran.
THEOREM ResultsAreOfTheirAttempt ==
  ASSUME OneWorker
  PROVE  Spec => SuccessIsItsOwn
<1>1. Init => OwnAttempt
  BY DEF Init, OwnAttempt, WkIdle
<1>2. Typed /\ OwnAttempt /\ [Next]_vars => OwnAttempt'
  BY OwnAttemptStep
<1>3. ASSUME Typed, OwnAttempt, [Next]_vars, NEW t \in Tasks,
             row[t].status # "success", row'[t].status = "success"
      PROVE  \E w \in Workers : /\ wk[w].pc = "finish"
                                /\ wk[w].task = t
                                /\ wk[w].att = att[t]
  <2>1. RowMoved(t)
    BY <1>3, RowSteps
  <2>2. \E w \in Workers : FinishWrite(w) /\ wk[w].task = t /\ row[t].status = "running"
    BY <1>3, <2>1 DEF RowMoved, Written
  <2> QED
    BY <1>3, <2>2 DEF FinishWrite, OwnAttempt
<1>4. Typed /\ OwnAttempt /\ [Next]_vars =>
        [\A t \in Tasks :
           row[t].status # "success" /\ row'[t].status = "success"
             => \E w \in Workers : /\ wk[w].pc = "finish"
                                   /\ wk[w].task = t
                                   /\ wk[w].att = att[t]]_vars
  BY <1>3
<1> QED
  BY <1>1, <1>2, <1>4, TypedInit, TypedStep, PTL DEF Spec, SuccessIsItsOwn

-----------------------------------------------------------------------------
(* The pytest processes of one worker that neither dies nor is interrupted   *)
(* by a soft time limit, both of which leave pytest behind.                  *)

LiveIsHeld ==
  live \subseteq {wk[w].pid : w \in {v \in Workers : wk[v].pc \in {"mark", "run"}}}

\* Only Launch starts a pytest.
LEMMA LiveSteps ==
  ASSUME [Next]_vars
  PROVE  \/ live' \subseteq live
         \/ \E w \in Workers : Launch(w)
<1>1. ASSUME NEW pids, KillTrees(pids)
      PROVE  live' \subseteq live
  BY <1>1 DEF KillTrees
<1>2. ASSUME NEW c \in Clients, WebStep(c) \/ Request(c) \/ WebCrash(c)
      PROVE  live' \subseteq live
  BY <1>1, <1>2 DEF Request, WebStep, CreateLookup, RetryLookup, CancelLookup,
       Insert, Reset, InsertLost, Refresh, Publish, PublishRaises, FailDispatch,
       RecordMessage, CancelKill, CancelWrite, CancelRefused, CancelRevoke,
       WebCrash, procVars
<1>3. ASSUME NEW w \in Workers, ~Launch(w),
             \/ ExecStep(w) \/ ScanStep(w) \/ Boot(w)
             \/ Crash(w) \/ Redeliver(w) \/ SoftTimeout(w)
      PROVE  live' \subseteq live
  BY <1>1, <1>3 DEF ExecStep, ScanStep, Receive, Discard, Accept, Skip,
       LaunchFails, MarkRunning, MarkRefused, RunEnds, RunKilled,
       RunTimesOut, FailWrite, FinishWrite, StopKill, StopWrite, Ack, ScanRead,
       ScanKill, ScanGet, ScanWrite, Boot, Crash, Redeliver, SoftTimeout, procVars
<1>4. CASE \/ UNCHANGED vars
           \/ \E m \in queue : Lose(m)
           \/ \E t \in Tasks : Age(t)
           \/ \E p \in live : OrphanExit(p)
  BY <1>4 DEF vars, Lose, Age, OrphanExit, procVars
<1> QED
  BY <1>2, <1>3, <1>4 DEF Next, Environment

LEMMA LiveIsHeldStep ==
  ASSUME OneWorker, "crash" \notin EnvKinds, "soft" \notin EnvKinds,
         Typed, LiveIsHeld, [Next]_vars
  PROVE  LiveIsHeld'
<1> SUFFICES ASSUME NEW p \in live'
             PROVE  \E w \in Workers : wk'[w].pc \in {"mark", "run"} /\ wk'[w].pid = p
  BY DEF LiveIsHeld
<1>1. ASSUME NEW w \in Workers, Launch(w)
      PROVE  \E v \in Workers : wk'[v].pc \in {"mark", "run"} /\ wk'[v].pid = p
  <2>1. live = {}
    BY <1>1 DEF LiveIsHeld, OneWorker, Launch
  <2>2. p = Len(spawned')
    BY <1>1, <2>1 DEF Launch
  <2>3. wk'[w].pc = "mark" /\ wk'[w].pid = Len(spawned')
    BY <1>1, ExecJobType DEF Launch, ExecPC, ExecJob, Typed, TypeOK
  <2> QED
    BY <2>2, <2>3
<1>2. CASE live' \subseteq live
  <2>1. PICK w \in Workers : wk[w].pc \in {"mark", "run"} /\ wk[w].pid = p
    BY <1>2 DEF LiveIsHeld
  <2>2. JobMoved(w)
    BY JobSteps
  <2>3. ~SoftTimeout(w) /\ ~Crash(w)
    BY DEF SoftTimeout, Crash, Fault
  \* Of the steps that leave mark or run, two kill the pytest and one finds it
  \* gone.
  <2>4. ~MarkRefused(w) /\ ~RunEnds(w) /\ ~RunTimesOut(w) /\ ~RunKilled(w)
    BY <1>2, <2>1 DEF MarkRefused, RunEnds, RunTimesOut, RunKilled
  <2>5. /\ ~Ack(w) /\ ~Boot(w) /\ ~ScanWrite(w) /\ ~Skip(w) /\ ~FailWrite(w)
        /\ ~FinishWrite(w) /\ ~StopWrite(w) /\ ~Accept(w) /\ ~LaunchFails(w)
        /\ ~StopKill(w) /\ ~ScanRead(w) /\ ~Scanning(w) /\ ~Launch(w)
        /\ \A m \in queue : ~Receive(w, m)
    BY <2>1 DEF Ack, Boot, ScanWrite, Skip, FailWrite, FinishWrite, StopWrite,
       Accept, LaunchFails, StopKill, ScanRead, Scanning, Launch, Receive
  <2>6. wk'[w] = wk[w] \/ (wk'[w].pc = "run" /\ wk'[w].pid = wk[w].pid)
    BY <2>2, <2>3, <2>4, <2>5 DEF JobMoved
  <2> QED
    BY <2>1, <2>6
<1> QED
  BY <1>1, <1>2, LiveSteps

\* A worker that is alone, is not killed and has no soft time limit starts no
\* pytest while one it started is alive: no two of them write to a workspace.
THEOREM OnePytestAtATime ==
  ASSUME OneWorker, "crash" \notin EnvKinds, "soft" \notin EnvKinds
  PROVE  Spec => []OnePytestPerTask
<1>1. Init => LiveIsHeld
  BY DEF Init, LiveIsHeld
<1>2. Typed /\ LiveIsHeld /\ [Next]_vars => LiveIsHeld'
  BY LiveIsHeldStep
<1>3. LiveIsHeld => OnePytestPerTask
  BY DEF LiveIsHeld, OnePytestPerTask, OneWorker
<1> QED
  BY <1>1, <1>2, <1>3, TypedInit, TypedStep, PTL DEF Spec

-----------------------------------------------------------------------------
(* Cancelled attempts, where apply_async never raises and no row grows older *)
(* than its timeout: FailDispatch and the scan fail a row whatever it is.    *)

NoRefusal == \A c \in Clients : web[c].pc # "refused"

LEMMA NoRefusalStep ==
  ASSUME {"refused", "lostreply"} \cap EnvKinds = {}, Typed, NoRefusal, [Next]_vars
  PROVE  NoRefusal'
<1> SUFFICES ASSUME NEW c \in Clients
             PROVE  web'[c].pc # "refused"
  BY DEF NoRefusal
<1>1. HandlerMoved(c) /\ ~PublishRaises(c)
  BY HandlerSteps DEF PublishRaises, Fault
<1> QED
  BY <1>1 DEF HandlerMoved, NoRefusal

\* Nothing but a retry moves a cancelled row, with any number of threads and
\* workers, and whatever messages are delivered twice.
THEOREM CancelledStaysCancelled ==
  ASSUME {"age", "refused", "lostreply"} \cap EnvKinds = {}
  PROVE  Spec => CancelSticks
<1> DEFINE Inv == Calm /\ NoRefusal
<1>1. Init => Inv
  BY CalmInit DEF Init, NoRefusal, WebIdle
<1>2. Typed /\ Inv /\ [Next]_vars => Inv'
  BY CalmStep, NoRefusalStep
<1>3. ASSUME Typed, Inv, [Next]_vars, NEW t \in Tasks,
             row[t].status = "failed", row[t].stage = "cancelled"
      PROVE  \/ row'[t].status = "failed" /\ row'[t].stage = "cancelled"
             \/ att'[t] # att[t]
  <2>1. /\ \A w \in Workers : ~ScanWrite(w)
        /\ \A c \in Clients : ~FailDispatch(c)
    BY <1>3 DEF ScanWrite, Scanning, Calm, FailDispatch, NoRefusal
  <2>2. CASE \E c \in Clients : web[c].task = t /\ (Insert(c) \/ Reset(c))
    <3>1. att'[t] = Len(requests) + 1
      BY <1>3, <2>2, AttemptBegins
    <3>2. att[t] \in 0..Len(requests) /\ Len(requests) \in Nat
      BY <1>3 DEF Typed, TypeOK
    <3> QED
      BY <3>1, <3>2
  <2>3. CASE ~ \E c \in Clients : web[c].task = t /\ (Insert(c) \/ Reset(c))
    BY <1>3, <2>1, <2>3, RowSteps DEF RowMoved, Written
  <2> QED
    BY <2>2, <2>3
<1>4. Typed /\ Inv /\ [Next]_vars =>
        [\A t \in Tasks :
           row[t].status = "failed" /\ row[t].stage = "cancelled"
             => \/ row'[t].status = "failed" /\ row'[t].stage = "cancelled"
                \/ att'[t] # att[t]]_vars
  BY <1>3
<1> QED
  BY <1>1, <1>2, <1>4, TypedInit, TypedStep, PTL DEF Spec, CancelSticks

-----------------------------------------------------------------------------
(* Messages of pending rows, where none is lost, no web process dies between *)
(* the commit and apply_async, and no row grows older than its timeout.      *)

\* By requests rs and attempts as, m is the number of a request for t, and not
\* of one after its latest.
Names(rs, as, m, t) == m \in 1..as[t] /\ rs[m] = t

Numbers ==
  /\ \A t \in Tasks : /\ row[t].mid # 0 => Names(requests, att, row[t].mid, t)
                      /\ att[t] # 0 => requests[att[t]] = t
                      /\ row[t].status = "pending" => att[t] # 0
  /\ \A c \in Clients :
       /\ web[c].pc # "idle" /\ web[c].mid # 0
            => Names(requests, att, web[c].mid, web[c].task)
       /\ web[c].pc \in HoldsRequest
            => Names(requests, att, web[c].req, web[c].task)
  /\ \A w \in Workers : wk[w].pc \in ExecPC => requests[wk[w].req] = wk[w].task

\* A cancel revokes the message of an attempt that is over.
RevokesThePast ==
  \A c \in Clients :
    web[c].pc = "revoke" =>
      \/ row[web[c].task].status # "pending"
      \/ web[c].mid < att[web[c].task]

PendingNotRevoked ==
  \A t \in Tasks : row[t].status = "pending" => att[t] \notin revoked

\* The message of the current attempt is about to be published, waits in the
\* broker, or is with a worker.
Carried(t) ==
  \/ \E c \in Clients : Dispatching(c, t) /\ web[c].req = att[t]
  \/ att[t] \in queue
  \/ \E w \in Workers :
       /\ wk[w].pc \in {"guard", "launch", "mark", "fail", "stop", "stopped"}
       /\ wk[w].task = t /\ wk[w].req = att[t]

PendingIsCarried ==
  \A t \in Tasks : row[t].status = "pending" => Carried(t)

\* Requests are only added, and attempts only counted up.
LEMMA NamesStay ==
  ASSUME Typed, [Next]_vars
  PROVE  /\ \A t \in Tasks : att[t] \in Nat /\ att[t] <= Len(requests)
                              /\ att'[t] \in Nat /\ att[t] <= att'[t]
         /\ \A m \in 1..Len(requests) : requests'[m] = requests[m]
         /\ \A t \in Tasks : \A m :
                Names(requests, att, m, t) => Names(requests', att', m, t)
<1>1. /\ requests \in Seq(Tasks) /\ Len(requests) \in Nat
      /\ att \in [Tasks -> 0..Len(requests)]
  BY DEF Typed, TypeOK
<1>2. \A t \in Tasks : att[t] \in Nat /\ att[t] <= Len(requests)
  BY <1>1
<1>3. /\ \A t \in Tasks : att'[t] \in Nat /\ att[t] <= att'[t]
      /\ \A m \in 1..Len(requests) : requests'[m] = requests[m]
  <2>1. CASE UNCHANGED <<requests, att>>
    BY <1>2, <2>1
  <2>2. ASSUME NEW c \in Clients, Insert(c) \/ Reset(c),
               requests' = Append(requests, web[c].task),
               att' = [att EXCEPT ![web[c].task] = Len(requests) + 1]
        PROVE  /\ \A t \in Tasks : att'[t] \in Nat /\ att[t] <= att'[t]
               /\ \A m \in 1..Len(requests) : requests'[m] = requests[m]
    <3>1. web[c].task \in Tasks
      BY <2>2, AttemptBegins
    <3> QED
      BY <1>1, <1>2, <2>2, <3>1
  <2> QED
    BY <2>1, <2>2, AttemptSteps
<1>4. \A t \in Tasks : \A m :
                Names(requests, att, m, t) => Names(requests', att', m, t)
  BY <1>2, <1>3 DEF Names
<1> QED
  BY <1>2, <1>3, <1>4

LEMMA NumbersStep ==
  ASSUME Typed, Typed', Numbers, [Next]_vars
  PROVE  Numbers'
<1>1. /\ requests \in Seq(Tasks) /\ Len(requests) \in Nat
      /\ att \in [Tasks -> 0..Len(requests)]
  BY DEF Typed, TypeOK
<1>2. ASSUME NEW c \in Clients, Insert(c) \/ Reset(c)
      PROVE  /\ web[c].task \in Tasks
             /\ att'[web[c].task] = Len(requests) + 1
             /\ requests'[Len(requests) + 1] = web[c].task
  <2>1. web[c].task \in Tasks /\ att'[web[c].task] = Len(requests) + 1
    BY <1>2, AttemptBegins
  <2>2. requests' = Append(requests, web[c].task)
    BY <1>2 DEF Insert, Reset, MakePending
  <2> QED
    BY <1>1, <2>1, <2>2
<1>3. ASSUME NEW t \in Tasks
      PROVE  /\ row'[t].mid # 0 => Names(requests', att', row'[t].mid, t)
             /\ att'[t] # 0 => requests'[att'[t]] = t
             /\ row'[t].status = "pending" => att'[t] # 0
  <2>1. RowMoved(t)
    BY RowSteps
  <2>2. row'[t].mid # 0 => Names(requests', att', row'[t].mid, t)
    <3>1. CASE row'[t].mid \in {0, row[t].mid}
      BY <3>1, NamesStay DEF Numbers
    <3>2. ASSUME NEW c \in Clients, RecordMessage(c), web[c].task = t,
                 row'[t].mid = web[c].req
          PROVE  Names(requests', att', row'[t].mid, t)
      BY <3>2, NamesStay DEF Numbers, HoldsRequest, RecordMessage
    <3> QED
      BY <2>1, <3>1, <3>2 DEF RowMoved
  <2>3. att'[t] # 0 => requests'[att'[t]] = t
    <3>1. CASE att'[t] = att[t]
      BY <1>1, <3>1, NamesStay DEF Numbers
    <3>2. ASSUME NEW c \in Clients, Insert(c) \/ Reset(c),
                 att' = [att EXCEPT ![web[c].task] = Len(requests) + 1],
                 att'[t] # att[t]
          PROVE  requests'[att'[t]] = t
      BY <1>1, <1>2, <3>2
    <3> QED
      BY <3>1, <3>2, AttemptSteps
  <2>4. row'[t].status = "pending" => att'[t] # 0
    <3>1. CASE row[t].status = "pending"
      BY <3>1, NamesStay DEF Numbers
    <3>2. CASE row[t].status # "pending" /\ row'[t].status = "pending"
      <4>1. \E c \in Clients : web[c].task = t /\ (Insert(c) \/ Reset(c))
        BY <2>1, <3>2 DEF RowMoved, Written
      <4> QED
        BY <1>1, <1>2, <4>1
    <3> QED
      BY <3>1, <3>2
  <2> QED
    BY <2>2, <2>3, <2>4
<1>4. ASSUME NEW c \in Clients
      PROVE  /\ web'[c].pc # "idle" /\ web'[c].mid # 0
                  => Names(requests', att', web'[c].mid, web'[c].task)
             /\ web'[c].pc \in HoldsRequest
                  => Names(requests', att', web'[c].req, web'[c].task)
  <2>1. HandlerMoved(c) /\ (web[c].pc # "idle" => web[c].task \in Tasks)
    BY HandlerSteps, WebJobType DEF Typed, WebJob
  <2>2. CASE web'[c] = web[c]
    BY <2>1, <2>2, NamesStay DEF Numbers, HoldsRequest
  <2>3. ASSUME NEW t \in Tasks, web[c].pc = "idle", web'[c].task = t,
               web'[c].mid = row[t].mid,
               web'[c].pc \in {"insert", "reset", "kill", "cancel"}
        PROVE  /\ web'[c].mid # 0 => Names(requests', att', web'[c].mid, web'[c].task)
               /\ web'[c].pc \notin HoldsRequest
    BY <2>3, NamesStay DEF Numbers, HoldsRequest
  <2>4. CASE /\ Insert(c) \/ Reset(c)
             /\ web'[c].task = web[c].task
             /\ web'[c].req = Len(requests) + 1 /\ web'[c].mid = 0
    BY <1>1, <1>2, <2>4 DEF Names
  <2>5. CASE /\ web'[c].task = web[c].task /\ web'[c].mid = web[c].mid
             /\ web'[c].req = web[c].req
             /\ \/ Publish(c) /\ web'[c].pc = "record"
                \/ PublishRaises(c) /\ web'[c].pc = "refused"
                \/ CancelKill(c) /\ web'[c].pc = "cancel"
                \/ CancelWrite(c) /\ web'[c].pc = "revoke"
    <3>1. web[c].pc # "idle" /\ web[c].task \in Tasks
      BY <2>1, <2>5 DEF Publish, PublishRaises, CancelKill, CancelWrite
    <3>2. web'[c].pc \in HoldsRequest => web[c].pc \in HoldsRequest
      BY <2>5 DEF Publish, PublishRaises, CancelKill, CancelWrite, HoldsRequest
    <3> QED
      BY <2>5, <3>1, <3>2, NamesStay DEF Numbers
  <2>6. CASE web'[c].pc = "idle"
    BY <2>6 DEF HoldsRequest
  <2>7. CASE /\ web[c].pc = "refresh" /\ web'[c].task = web[c].task
             /\ web'[c].req = web[c].req /\ web'[c].mid = row[web[c].task].mid
    BY <2>1, <2>7, NamesStay DEF Numbers, HoldsRequest
  <2> QED
    BY <2>1, <2>2, <2>3, <2>4, <2>5, <2>6, <2>7 DEF HandlerMoved
<1>5. ASSUME NEW w \in Workers, wk'[w].pc \in ExecPC
      PROVE  requests'[wk'[w].req] = wk'[w].task
  <2>1. JobMoved(w) /\ queue \subseteq 1..Len(requests)
    BY JobSteps DEF Typed, TypeOK
  <2>2. ASSUME NEW m \in queue, wk'[w].req = m, wk'[w].task = requests[m]
        PROVE  requests'[wk'[w].req] = wk'[w].task
    BY <2>1, <2>2, NamesStay
  <2>3. CASE wk[w].pc \in ExecPC /\ wk'[w].task = wk[w].task /\ wk'[w].req = wk[w].req
    <3>1. wk[w].req \in 1..Len(requests)
      BY <2>3 DEF Typed, KnownIds
    <3> QED
      BY <2>3, <3>1, NamesStay DEF Numbers
  <2>4. CASE /\ wk'[w].pc = "ack" /\ wk'[w].task = wk[w].task
             /\ wk'[w].req = wk[w].req
             /\ \/ Skip(w) \/ MarkRefused(w) \/ FailWrite(w) \/ FinishWrite(w)
                \/ StopWrite(w)
    BY <2>3, <2>4 DEF Skip, MarkRefused, FailWrite, FinishWrite, StopWrite, ExecPC
  <2> QED
    BY <1>5, <2>1, <2>2, <2>3, <2>4 DEF JobMoved, ExecPC
<1> QED
  BY <1>3, <1>4, <1>5 DEF Numbers

LEMMA RevokesThePastStep ==
  ASSUME Typed, Typed', Numbers, RevokesThePast, [Next]_vars
  PROVE  RevokesThePast'
<1> SUFFICES ASSUME NEW c \in Clients, web'[c].pc = "revoke",
                    row'[web'[c].task].status = "pending"
             PROVE  web'[c].mid < att'[web'[c].task]
  BY DEF RevokesThePast
<1>1. HandlerMoved(c)
  BY HandlerSteps
<1>2. CASE web'[c] = web[c]
  <2> DEFINE t == web[c].task
  <2>1. t \in Tasks /\ web[c].mid \in Nat /\ web[c].mid <= Len(requests)
    BY <1>2, WebJobType DEF Typed, KnownIds, WebJob
  <2>2. CASE row[t].status = "pending"
    <3>1. web[c].mid < att[t]
      BY <1>2, <2>2 DEF RevokesThePast
    <3>2. att[t] \in Nat /\ att'[t] \in Nat /\ att[t] <= att'[t]
      BY <2>1, NamesStay
    <3> QED
      BY <1>2, <2>1, <3>1, <3>2
  \* A retry has made the row pending again.
  <2>3. CASE row[t].status # "pending"
    <3>1. \E d \in Clients : web[d].task = t /\ (Insert(d) \/ Reset(d))
      BY <1>2, <2>1, <2>3, RowSteps DEF RowMoved, Written
    <3>2. att'[t] = Len(requests) + 1
      BY <3>1, AttemptBegins
    <3>3. Len(requests) \in Nat
      BY DEF Typed, TypeOK
    <3> QED
      BY <1>2, <2>1, <3>2, <3>3
  <2> QED
    BY <2>2, <2>3
<1>3. CASE CancelWrite(c) /\ web'[c].task = web[c].task
  <2>1. web[c].task \in Tasks /\ row[web[c].task] \in Row /\ row \in [Tasks -> Row]
    BY <1>3, WebJobType DEF CancelWrite, Typed, TypeOK, WebJob
  <2>2. row'[web[c].task].status = "failed"
    BY <1>3, <2>1, FailedFields DEF CancelWrite
  <2> QED
    BY <1>3, <2>2
<1> QED
  BY <1>1, <1>2, <1>3 DEF HandlerMoved

\* What a step revokes: the message of a cancelled attempt.
LEMMA RevokedSteps ==
  ASSUME Calm, [Next]_vars
  PROVE  \/ revoked' = revoked
         \/ \E c \in Clients :
              web[c].pc = "revoke" /\ revoked' = revoked \cup ({web[c].mid} \ {0})
<1>1. ASSUME NEW c \in Clients, WebStep(c) \/ Request(c) \/ WebCrash(c),
             ~CancelRevoke(c)
      PROVE  revoked' = revoked
  BY <1>1 DEF Request, WebStep, CreateLookup, RetryLookup, CancelLookup,
       Insert, Reset, InsertLost, Refresh, Publish, PublishRaises, FailDispatch,
       RecordMessage, CancelKill, CancelWrite, CancelRefused,
       WebCrash, brokerVars
<1>2. ASSUME NEW w \in Workers,
             \/ ExecStep(w) \/ ScanStep(w) \/ Boot(w)
             \/ Crash(w) \/ Redeliver(w) \/ SoftTimeout(w)
      PROVE  revoked' = revoked
  <2>1. ~ScanGet(w)
    BY DEF Calm, Scanning, ScanGet
  <2> QED
    BY <1>2, <2>1 DEF ExecStep, ScanStep, Receive, Discard, Accept, Skip,
       LaunchFails, Launch, MarkRunning, MarkRefused, RunEnds, RunKilled,
       RunTimesOut, FailWrite, FinishWrite, StopKill, StopWrite, Ack, ScanRead,
       ScanKill, ScanWrite, Boot, Crash, Redeliver, SoftTimeout, brokerVars
<1>3. CASE \/ UNCHANGED vars
           \/ \E m \in queue : Lose(m)
           \/ \E t \in Tasks : Age(t)
           \/ \E p \in live : OrphanExit(p)
  BY <1>3 DEF vars, Lose, Age, OrphanExit, brokerVars
<1>4. ASSUME NEW c \in Clients, CancelRevoke(c)
      PROVE  web[c].pc = "revoke" /\ revoked' = revoked \cup ({web[c].mid} \ {0})
  BY <1>4 DEF CancelRevoke
<1> QED
  BY <1>1, <1>2, <1>3, <1>4 DEF Next, Environment

LEMMA PendingNotRevokedStep ==
  ASSUME Typed, Calm, Numbers, RevokesThePast, PendingNotRevoked, [Next]_vars
  PROVE  PendingNotRevoked'
<1> SUFFICES ASSUME NEW t \in Tasks, row'[t].status = "pending"
             PROVE  att'[t] \notin revoked'
  BY DEF PendingNotRevoked
<1>1. /\ revoked \subseteq 1..Len(requests) /\ Len(requests) \in Nat
      /\ att[t] \in 0..Len(requests)
  BY DEF Typed, TypeOK
<1>2. CASE \E c \in Clients : web[c].task = t /\ (Insert(c) \/ Reset(c))
  <2>1. PICK c \in Clients : web[c].task = t /\ (Insert(c) \/ Reset(c))
    BY <1>2
  <2>2. att'[t] = Len(requests) + 1
    BY <2>1, AttemptBegins
  <2>3. revoked' = revoked
    BY <2>1 DEF Insert, Reset, brokerVars
  <2> QED
    BY <1>1, <2>2, <2>3
<1>3. CASE ~ \E c \in Clients : web[c].task = t /\ (Insert(c) \/ Reset(c))
  <2>1. row[t].status = "pending"
    BY <1>3, RowSteps DEF RowMoved, Written
  <2>2. att'[t] = att[t]
    BY <1>3, AttemptSteps DEF Typed, TypeOK
  <2>3. att[t] \notin revoked
    BY <2>1 DEF PendingNotRevoked
  <2>4. ASSUME NEW c \in Clients, web[c].pc = "revoke", web[c].mid # 0,
               web[c].mid = att[t]
        PROVE  FALSE
    <3>1. requests[web[c].mid] = web[c].task /\ requests[att[t]] = t
      BY <2>1, <2>4 DEF Numbers, Names
    <3> QED
      BY <1>1, <2>1, <2>4, <3>1 DEF RevokesThePast
  <2> QED
    BY <2>2, <2>3, <2>4, RevokedSteps
<1> QED
  BY <1>2, <1>3

\* What a step takes out of the queue.
LEMMA QueueSteps ==
  ASSUME "loss" \notin EnvKinds, Calm, [Next]_vars, NEW m \in queue
  PROVE  \/ m \in queue'
         \/ m \in revoked
         \/ \E w \in Workers : Receive(w, m)
<1>1. ASSUME NEW c \in Clients, WebStep(c) \/ Request(c) \/ WebCrash(c)
      PROVE  m \in queue'
  BY <1>1 DEF Request, WebStep, CreateLookup, RetryLookup, CancelLookup,
       Insert, Reset, InsertLost, Refresh, Publish, PublishRaises, FailDispatch,
       RecordMessage, CancelKill, CancelWrite, CancelRefused, CancelRevoke,
       WebCrash, brokerVars
<1>2. ASSUME NEW w \in Workers, NEW n \in queue, Receive(w, n) \/ Discard(w, n)
      PROVE  m \in queue' \/ m \in revoked \/ Receive(w, m)
  BY <1>2 DEF Receive, Discard
<1>3. ASSUME NEW w \in Workers,
             \/ ExecStep(w) /\ ~ \E n \in queue : Receive(w, n) \/ Discard(w, n)
             \/ ScanStep(w) \/ Boot(w) \/ Crash(w) \/ Redeliver(w) \/ SoftTimeout(w)
      PROVE  m \in queue'
  BY <1>3 DEF ExecStep, ScanStep, Accept, Skip,
       LaunchFails, Launch, MarkRunning, MarkRefused, RunEnds, RunKilled,
       RunTimesOut, FailWrite, FinishWrite, StopKill, StopWrite, Ack, ScanRead,
       ScanKill, ScanGet, ScanWrite, Boot, Crash, Redeliver, SoftTimeout, brokerVars
<1>4. CASE \/ UNCHANGED vars
           \/ \E n \in queue : Lose(n)
           \/ \E t \in Tasks : Age(t)
           \/ \E p \in live : OrphanExit(p)
  BY <1>4 DEF vars, Lose, Fault, Age, OrphanExit, brokerVars
<1> QED
  BY <1>1, <1>2, <1>3, <1>4 DEF Next, Environment

LEMMA PendingIsCarriedStep ==
  ASSUME {"loss", "webcrash", "age"} \cap EnvKinds = {}, Typed, Typed', Calm,
         Numbers, PendingNotRevoked, PendingIsCarried, [Next]_vars
  PROVE  PendingIsCarried'
<1> SUFFICES ASSUME NEW t \in Tasks, row'[t].status = "pending"
             PROVE  Carried(t)'
  BY DEF PendingIsCarried
<1>1. CASE \E c \in Clients : web[c].task = t /\ (Insert(c) \/ Reset(c))
  <2>1. PICK c \in Clients : web[c].task = t /\ (Insert(c) \/ Reset(c))
    BY <1>1
  <2>2. att'[t] = Len(requests) + 1
    BY <2>1, AttemptBegins
  <2>3. /\ web'[c].pc \in {"refresh", "dispatch"} /\ web'[c].task = t
        /\ web'[c].req = Len(requests) + 1 /\ web'[c].status = "pending"
    BY <2>1 DEF Insert, Reset, MakePending, Typed, TypeOK
  <2> QED
    BY <2>2, <2>3 DEF Carried, Dispatching
<1>2. CASE ~ \E c \in Clients : web[c].task = t /\ (Insert(c) \/ Reset(c))
  <2>1. row[t].status = "pending"
    BY <1>2, RowSteps DEF RowMoved, Written
  <2>2. att'[t] = att[t] /\ requests[att[t]] = t
    BY <1>2, <2>1, AttemptSteps DEF Typed, TypeOK, Numbers
  <2>3. att[t] \notin revoked
    BY <2>1 DEF PendingNotRevoked
  <2>4. ASSUME NEW c \in Clients, Dispatching(c, t), web[c].req = att[t]
        PROVE  Carried(t)'
    <3> USE DEF Dispatching
    <3>1. HandlerMoved(c) /\ ~WebCrash(c)
      BY HandlerSteps DEF WebCrash, Fault
    <3>2. CASE web'[c] = web[c]
      BY <2>2, <2>4, <3>2 DEF Carried
    <3>3. CASE Publish(c)
      BY <2>2, <2>4, <3>3 DEF Publish, Carried
    <3>4. CASE /\ web'[c].pc = "refused" /\ web'[c].task = web[c].task
               /\ web'[c].req = web[c].req /\ web'[c].status = web[c].status
      BY <2>2, <2>4, <3>4 DEF Carried
    <3>5. CASE FailDispatch(c)
      <4>1. row \in [Tasks -> Row] /\ row[t] \in Row
        BY DEF Typed, TypeOK
      <4>2. row'[t] = RefusedRow(row[t], web[c])
        BY <2>4, <3>5, <4>1 DEF FailDispatch
      <4>3. row'[t].status = "failed"
        BY <2>4, <4>1, <4>2, RefusedFields DEF Flushed
      <4> QED
        BY <4>3
    \* The row is still pending when it is loaded again.
    <3>7. CASE /\ Refresh(c) /\ web'[c].pc = "dispatch"
               /\ web'[c].task = web[c].task /\ web'[c].req = web[c].req
               /\ web'[c].status = row[web[c].task].status
      BY <2>1, <2>2, <2>4, <3>7 DEF Carried
    <3>6. /\ ~InsertLost(c) /\ ~RecordMessage(c) /\ ~CancelWrite(c)
          /\ ~CancelRefused(c) /\ ~CancelRevoke(c) /\ ~CancelKill(c)
          /\ ~Insert(c) /\ ~Reset(c) /\ web[c].pc # "idle"
      BY <2>4 DEF InsertLost, RecordMessage, CancelWrite, CancelRefused,
         CancelRevoke, CancelKill, Insert, Reset
    <3> QED
      BY <3>1, <3>2, <3>3, <3>4, <3>5, <3>6, <3>7 DEF HandlerMoved
  <2>5. CASE att[t] \in queue
    <3>1. ASSUME NEW w \in Workers, Receive(w, att[t])
          PROVE  Carried(t)'
      <4>1. wk'[w].pc = "guard" /\ wk'[w].task = t /\ wk'[w].req = att[t]
        BY <2>2, <3>1 DEF Receive, Typed, TypeOK
      <4> QED
        BY <2>2, <4>1 DEF Carried
    <3>2. att[t] \in queue' => Carried(t)'
      BY <2>2 DEF Carried
    <3> QED
      BY <2>3, <2>5, <3>1, <3>2, QueueSteps
  <2>6. ASSUME NEW w \in Workers, wk[w].task = t, wk[w].req = att[t],
               wk[w].pc \in {"guard", "launch", "mark", "fail", "stop", "stopped"}
        PROVE  Carried(t)'
    <3>1. JobMoved(w)
      BY JobSteps
    <3>2. CASE wk'[w].pc \in {"guard", "launch", "mark", "fail", "stop", "stopped"}
               /\ wk'[w].task = t /\ wk'[w].req = att[t]
      BY <2>2, <3>2 DEF Carried
    <3>3. CASE Crash(w)
      <4>1. att[t] \in queue'
        BY <2>6, <3>3 DEF Crash, Executing, ExecPC
      <4> QED
        BY <2>2, <4>1 DEF Carried
    \* These close the row, or find it closed.
    <3>4. CASE FailWrite(w) \/ StopWrite(w) \/ MarkRunning(w)
      <4>1. row \in [Tasks -> Row] /\ row[t] \in Row
        BY DEF Typed, TypeOK
      <4>2. CASE FailWrite(w) \/ StopWrite(w)
        BY <2>1, <2>6, <4>1, <4>2, FailedFields DEF FailWrite, StopWrite, FailIfOpen
      <4>3. CASE MarkRunning(w)
        BY <2>6, <4>1, <4>3 DEF MarkRunning, Row
      <4> QED
        BY <3>4, <4>2, <4>3
    <3>5. /\ ~Skip(w) /\ ~MarkRefused(w) /\ ~FinishWrite(w) /\ ~Ack(w) /\ ~Boot(w)
          /\ ~ScanWrite(w) /\ ~RunEnds(w) /\ ~ScanRead(w) /\ ~Scanning(w)
          /\ \A m \in queue : ~Receive(w, m)
      BY <2>1, <2>6 DEF Skip, MarkRefused, FinishWrite, Ack, Boot, ScanWrite,
         RunEnds, ScanRead, Scanning, Receive
    <3>6. \/ wk'[w] = wk[w]
          \/ Crash(w)
          \/ FailWrite(w) \/ StopWrite(w) \/ MarkRunning(w)
          \/ /\ wk'[w].pc \in {"launch", "mark", "fail", "stop", "stopped"}
             /\ wk'[w].task = wk[w].task /\ wk'[w].req = wk[w].req
      BY <3>1, <3>5 DEF JobMoved
    <3> QED
      BY <2>6, <3>2, <3>3, <3>4, <3>6
  <2>7. Carried(t)
    BY <2>1 DEF PendingIsCarried
  <2> QED
    BY <2>4, <2>5, <2>6, <2>7 DEF Carried
<1> QED
  BY <1>1, <1>2

\* A row that is pending is on its way to a worker, however often messages are
\* delivered, workers die or replies of the broker get lost, where the broker
\* keeps what it accepted and the web process lives: nothing is left pending
\* that nobody will take up.
THEOREM PendingRowsHaveAMessage ==
  ASSUME {"loss", "webcrash", "age"} \cap EnvKinds = {}
  PROVE  Spec => []PendingHasMessage
<1> DEFINE Inv == /\ Calm /\ Numbers /\ RevokesThePast /\ PendingNotRevoked
                  /\ PendingIsCarried
<1>1. Init => Inv
  <2>1. /\ Init => \A t \in Tasks : /\ row[t].status = "absent" /\ row[t].mid = 0
                                    /\ att[t] = 0
        /\ Init => \A c \in Clients : web[c].pc = "idle"
        /\ Init => \A w \in Workers : wk[w].pc = "idle"
    BY DEF Init, Absent, WebIdle, WkIdle
  <2> QED
    BY <2>1, CalmInit DEF Numbers, RevokesThePast, PendingNotRevoked,
       PendingIsCarried, HoldsRequest, ExecPC
<1>2. Typed /\ Typed' /\ Inv /\ [Next]_vars => Inv'
  BY CalmStep, NumbersStep, RevokesThePastStep, PendingNotRevokedStep,
     PendingIsCarriedStep
<1>3. Typed /\ Inv => PendingHasMessage
  <2> SUFFICES ASSUME Typed, Inv, NEW t \in Tasks, row[t].status = "pending"
               PROVE  \/ \E c \in Clients : Dispatching(c, t)
                      \/ \E m \in queue \ revoked : requests[m] = t
                      \/ \E w \in Workers :
                           /\ wk[w].pc \in {"guard", "launch", "mark", "fail",
                                             "stop", "stopped"}
                           /\ wk[w].task = t
    BY DEF PendingHasMessage
  <2>1. Carried(t) /\ att[t] \notin revoked /\ requests[att[t]] = t
    BY DEF PendingIsCarried, PendingNotRevoked, Numbers
  <2> QED
    BY <2>1 DEF Carried
<1> QED
  BY <1>1, <1>2, <1>3, TypedInit, TypedStep, PTL DEF Spec

-----------------------------------------------------------------------------
(* ExecutionTasks implements TaskLifecycle, for one web thread (with two, a  *)
(* Reset may hit a row that another handler has made pending meanwhile) and  *)
(* where apply_async never raises (FailDispatch has no condition).  Rows may *)
(* age with one worker only: the scan of a second fails rows that the first  *)
(* has ended.                                                                *)

OneClient == \A c, d \in Clients : c = d

ResetsFailed ==
  \A c \in Clients : web[c].pc = "reset" => row[web[c].task].status = "failed"

CancelsOpen ==
  \A c \in Clients :
    web[c].pc \in {"kill", "cancel"} => web[c].status \in {"pending", "running"}

\* The rows a scan has listed were not ended with success meanwhile.
ScansUnfinished ==
  \A w \in Workers : Scanning(w) =>
    \A t \in wk[w].stale \cup wk[w].pending : row[t].status \notin {"absent", "success"}

LEMMA ResetsFailedStep ==
  ASSUME OneClient, Typed, NoRefusal, ResetsFailed, [Next]_vars
  PROVE  ResetsFailed'
<1> SUFFICES ASSUME NEW c \in Clients, web'[c].pc = "reset"
             PROVE  row'[web'[c].task].status = "failed"
  BY DEF ResetsFailed
<1>1. ASSUME NEW t \in Tasks, row[t].status = "failed", web[c].pc \in {"idle", "reset"},
             ~Reset(c)
      PROVE  row'[t].status = "failed"
  <2>1. \A d \in Clients : /\ ~Insert(d) /\ ~Reset(d) /\ ~FailDispatch(d)
                           /\ ~CancelWrite(d)
    BY <1>1 DEF OneClient, Insert, FailDispatch, CancelWrite
  <2> QED
    BY <1>1, <2>1, RowSteps DEF RowMoved, Written
<1>2. HandlerMoved(c) /\ ~Reset(c)
  BY HandlerSteps DEF Reset, MakePending, Typed, TypeOK
<1>3. CASE web'[c] = web[c]
  <2>1. web[c].task \in Tasks
    BY <1>3, WebJobType DEF Typed, WebJob
  <2> QED
    BY <1>1, <1>2, <1>3, <2>1 DEF ResetsFailed
<1>4. CASE web'[c] # web[c]
  <2>1. \E t \in Tasks : /\ web[c].pc = "idle" /\ web'[c].task = t
                         /\ row[t].status = "failed"
    BY <1>2, <1>4 DEF HandlerMoved
  <2> QED
    BY <1>1, <1>2, <2>1
<1> QED
  BY <1>3, <1>4

LEMMA CancelsOpenStep ==
  ASSUME Typed, CancelsOpen, [Next]_vars
  PROVE  CancelsOpen'
<1> SUFFICES ASSUME NEW c \in Clients, web'[c].pc \in {"kill", "cancel"}
             PROVE  web'[c].status \in {"pending", "running"}
  BY DEF CancelsOpen
<1>1. HandlerMoved(c)
  BY HandlerSteps
<1>2. CancelKill(c) => web[c].pc = "kill"
  BY DEF CancelKill
<1> QED
  BY <1>1, <1>2 DEF HandlerMoved, CancelsOpen

LEMMA ScansUnfinishedStep ==
  ASSUME OneWorker, Typed, ScansUnfinished, [Next]_vars
  PROVE  ScansUnfinished'
<1> SUFFICES ASSUME NEW w \in Workers, Scanning(w)',
                    NEW t \in wk'[w].stale \cup wk'[w].pending
             PROVE  row'[t].status \notin {"absent", "success"}
  BY DEF ScansUnfinished
<1>1. JobMoved(w)
  BY JobSteps
<1>2. CASE wk'[w] = wk[w]
  <2>1. Scanning(w)
    BY <1>2 DEF Scanning
  <2>2. t \in Tasks /\ row[t].status \notin {"absent", "success"}
    BY <1>2, <2>1, ScanJobType DEF Scanning, ScanJob, Typed, ScansUnfinished
  <2>3. \A v \in Workers : ~FinishWrite(v)
    BY <2>1 DEF OneWorker, FinishWrite, Scanning
  <2> QED
    BY <2>2, <2>3, RowSteps DEF RowMoved, Written
<1>3. CASE ScanRead(w) /\ wk'[w].stale = Stale("running")
                       /\ wk'[w].pending = Stale("pending")
  BY <1>3 DEF ScanRead, Stale, dbVars
<1>4. CASE Scanning(w) /\ (ScanKill(w) \/ ScanGet(w))
           /\ wk'[w].stale = wk[w].stale /\ wk'[w].pending = wk[w].pending
  BY <1>4 DEF ScanKill, ScanGet, dbVars, ScansUnfinished
<1> QED
  BY <1>1, <1>2, <1>3, <1>4 DEF JobMoved, Scanning

LEMMA OneRowMoves ==
  ASSUME Typed, [Next]_vars, \A w \in Workers : ~ScanWrite(w), row' # row
  PROVE  \E t \in Tasks : \A u \in Tasks \ {t} : row'[u] = row[u]
<1>1. row \in [Tasks -> Row]
  BY DEF Typed, TypeOK
<1>2. ASSUME NEW c \in Clients,
             \/ Insert(c) \/ Reset(c) \/ FailDispatch(c) \/ RecordMessage(c)
             \/ CancelWrite(c)
      PROVE  \E t \in Tasks : \A u \in Tasks \ {t} : row'[u] = row[u]
  <2>1. web[c].task \in Tasks
    BY <1>2, WebJobType DEF Insert, Reset, FailDispatch, RecordMessage,
       CancelWrite, Typed, WebJob
  <2>2. \A u \in Tasks \ {web[c].task} : row'[u] = row[u]
    BY <1>1, <1>2 DEF Insert, Reset, FailDispatch, RecordMessage, CancelWrite,
       MakePending
  <2> QED
    BY <2>1, <2>2
<1>3. ASSUME NEW w \in Workers,
             MarkRunning(w) \/ FailWrite(w) \/ StopWrite(w) \/ FinishWrite(w)
      PROVE  \E t \in Tasks : \A u \in Tasks \ {t} : row'[u] = row[u]
  <2>1. wk[w].task \in Tasks
    BY <1>3, ExecJobType DEF MarkRunning, FailWrite, StopWrite, FinishWrite,
       Typed, ExecPC, ExecJob
  <2>2. \A u \in Tasks \ {wk[w].task} : row'[u] = row[u]
    BY <1>1, <1>3 DEF MarkRunning, FailWrite, StopWrite, FinishWrite, FailIfOpen,
       SuccessIfRunning
  <2> QED
    BY <2>1, <2>2
<1>4. ASSUME NEW t \in Tasks, Age(t)
      PROVE  \E u \in Tasks : \A v \in Tasks \ {u} : row'[v] = row[v]
  BY <1>1, <1>4 DEF Age
<1>5. \/ \E c \in Clients : Insert(c) \/ Reset(c) \/ FailDispatch(c)
                              \/ RecordMessage(c) \/ CancelWrite(c)
      \/ \E w \in Workers : MarkRunning(w) \/ FailWrite(w) \/ StopWrite(w)
                              \/ FinishWrite(w)
      \/ \E t \in Tasks : Age(t)
  BY DEF Next, vars, Request, WebStep, ExecStep, ScanStep, Environment, dbVars,
         CreateLookup, RetryLookup, CancelLookup, InsertLost, Refresh, Publish,
         PublishRaises, CancelKill, CancelRefused, CancelRevoke, Receive,
         Discard, Accept, Skip, LaunchFails, Launch, MarkRefused, RunEnds,
         RunKilled, RunTimesOut, StopKill, Ack, ScanRead, ScanKill, ScanGet,
         Crash, Boot, WebCrash, Redeliver, Lose, OrphanExit, SoftTimeout
<1> QED
  BY <1>2, <1>3, <1>4, <1>5

LEMMA LifecycleInit == Init => Lifecycle!Init
BY DEF Init, Lifecycle!Init, RowStatus, Absent

\* One row moves along an edge of the diagram.
LEMMA LifecycleMove ==
  ASSUME NEW t \in Tasks, NEW to,
         RowStatus' = [RowStatus EXCEPT ![t] = to],
         \/ RowStatus[t] = to
         \/ RowStatus[t] = "absent" /\ to = "pending"
         \/ RowStatus[t] = "pending" /\ to = "running"
         \/ RowStatus[t] = "running" /\ to = "success"
         \/ RowStatus[t] = "failed" /\ to = "pending"
         \/ RowStatus[t] \in {"pending", "running"} /\ to = "failed"
  PROVE  [Lifecycle!Next]_RowStatus
<1>1. CASE RowStatus[t] = to
  <2>1. RowStatus' = RowStatus
    BY <1>1 DEF RowStatus
  <2> QED
    BY <2>1
<1>2. CASE RowStatus[t] \in {"pending", "running"} /\ to = "failed"
  <2>1. RowStatus' = [u \in Tasks |-> IF u \in {t} THEN "failed" ELSE RowStatus[u]]
    BY <1>2 DEF RowStatus
  <2>2. Lifecycle!Fail({t})
    BY <1>2, <2>1 DEF Lifecycle!Fail
  <2> QED
    BY <2>2 DEF Lifecycle!Next
<1>3. CASE \/ RowStatus[t] = "absent" /\ to = "pending"
           \/ RowStatus[t] = "pending" /\ to = "running"
           \/ RowStatus[t] = "running" /\ to = "success"
           \/ RowStatus[t] = "failed" /\ to = "pending"
  <2>1. Lifecycle!Create(t) \/ Lifecycle!Start(t) \/ Lifecycle!Succeed(t)
          \/ Lifecycle!Retry(t)
    BY <1>3 DEF Lifecycle!Create, Lifecycle!Start, Lifecycle!Succeed,
       Lifecycle!Retry, Lifecycle!Move
  <2> QED
    BY <2>1 DEF Lifecycle!Next
<1> QED
  BY <1>1, <1>2, <1>3

LEMMA LifecycleStep ==
  ASSUME Typed, NoRefusal, ResetsFailed, CancelsOpen, ScansUnfinished, [Next]_vars
  PROVE  [Lifecycle!Next]_RowStatus
<1>1. row \in [Tasks -> Row] /\ wk \in [Workers -> WkState]
  BY DEF Typed, TypeOK
<1>2. CASE row' = row
  BY <1>2 DEF RowStatus
<1>3. ASSUME NEW w \in Workers, ScanWrite(w)
      PROVE  [Lifecycle!Next]_RowStatus
  <2> DEFINE S == {t \in (wk[w].stale \cup wk[w].pending) \ wk[w].settled :
                     row[t].status \in {"pending", "running"}}
  <2>1. wk[w] \in ScanJob /\ Scanning(w)
    BY <1>3, ScanJobType DEF ScanWrite, Typed, Scanning
  <2>2. S \subseteq Tasks
    BY <2>1 DEF ScanJob
  <2>3. ASSUME NEW t \in Tasks
        PROVE  row'[t].status = IF t \in S THEN "failed" ELSE row[t].status
    <3>1. CASE t \notin wk[w].stale \cup wk[w].pending
      BY <1>3, <3>1 DEF ScanWrite
    <3>2. CASE t \in wk[w].stale \cup wk[w].pending
      <4>1. row'[t] = ScannedRow(w, t)
        BY <1>3, <3>2 DEF ScanWrite
      <4>2. row'[t].status = IF t \in wk[w].settled THEN row[t].status ELSE "failed"
        BY <4>1, ScannedFields DEF Typed
      <4>3. row[t].status \in {"pending", "running", "failed"}
        BY <1>1, <2>1, <3>2 DEF ScansUnfinished, Row, Status
      <4> QED
        BY <3>2, <4>2, <4>3
    <3> QED
      BY <3>1, <3>2
  <2>4. \A t \in S : RowStatus[t] \in {"pending", "running"}
    BY <2>2 DEF RowStatus
  <2> HIDE DEF S
  <2>5. RowStatus' = [t \in Tasks |-> IF t \in S THEN "failed" ELSE RowStatus[t]]
    BY <2>3 DEF RowStatus
  <2>6. Lifecycle!Fail(S)
    BY <2>4, <2>5 DEF Lifecycle!Fail
  <2> QED
    BY <2>2, <2>6 DEF Lifecycle!Next
<1>4. CASE row' # row /\ \A w \in Workers : ~ScanWrite(w)
  <2>1. PICK t \in Tasks : \A u \in Tasks \ {t} : row'[u] = row[u]
    BY <1>4, OneRowMoves
  <2>2. RowStatus' = [RowStatus EXCEPT ![t] = row'[t].status]
    BY <2>1 DEF RowStatus
  <2>3. RowStatus[t] = row[t].status
    BY DEF RowStatus
  <2>4. RowMoved(t)
    BY RowSteps
  <2>5. /\ \A c \in Clients : ~FailDispatch(c)
        /\ \A c \in Clients : Reset(c) => row[web[c].task].status = "failed"
        /\ \A c \in Clients : CancelWrite(c) => web[c].status \in {"pending", "running"}
    BY DEF FailDispatch, NoRefusal, Reset, ResetsFailed, CancelWrite, CancelsOpen
  <2>6. \/ row[t].status = row'[t].status
        \/ row[t].status = "absent" /\ row'[t].status = "pending"
        \/ row[t].status = "pending" /\ row'[t].status = "running"
        \/ row[t].status = "running" /\ row'[t].status = "success"
        \/ row[t].status = "failed" /\ row'[t].status = "pending"
        \/ row[t].status \in {"pending", "running"} /\ row'[t].status = "failed"
    BY <1>4, <2>4, <2>5 DEF RowMoved, Written
  <2> QED
    BY <2>2, <2>3, <2>6, LifecycleMove
<1> QED
  BY <1>2, <1>3, <1>4

\* The rows that the handlers, the workers and the scan write follow the state
\* diagram of the documents, for any number of tasks and any losses, crashes,
\* duplicates and failed kills, under the hypotheses named above.
THEOREM RowsImplementTheDiagram ==
  ASSUME OneClient, {"refused", "lostreply"} \cap EnvKinds = {},
         OneWorker \/ "age" \notin EnvKinds
  PROVE  Spec => RowsFollowTheDiagram
<1> DEFINE Inv == /\ NoRefusal /\ ResetsFailed /\ CancelsOpen /\ ScansUnfinished
                  /\ "age" \notin EnvKinds => Calm
<1>1. Init => Inv
  BY CalmInit DEF Init, NoRefusal, ResetsFailed, CancelsOpen, ScansUnfinished,
     Scanning, WebIdle, WkIdle
<1>2. Calm' => ScansUnfinished'
  BY DEF Calm, ScansUnfinished
<1>3. Typed /\ Inv /\ [Next]_vars => Inv'
  BY <1>2, CalmStep, NoRefusalStep, ResetsFailedStep, CancelsOpenStep,
     ScansUnfinishedStep
<1>4. Typed /\ Inv /\ [Next]_vars => [Lifecycle!Next]_RowStatus
  BY LifecycleStep
<1> QED
  BY <1>1, <1>3, <1>4, LifecycleInit, TypedInit, TypedStep, PTL
  DEF Spec, RowsFollowTheDiagram, Lifecycle!Spec
=============================================================================
