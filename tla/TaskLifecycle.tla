---------------------------- MODULE TaskLifecycle ----------------------------
(***************************************************************************)
(* What the state diagram of README.md and docs/database.md promises of an *)
(* execution task, whoever writes its row.                                 *)
(***************************************************************************)
CONSTANT Tasks
VARIABLE status

Init == status = [t \in Tasks |-> "absent"]

Move(t, from, to) ==
  /\ status[t] \in from
  /\ status' = [status EXCEPT ![t] = to]

Create(t)  == Move(t, {"absent"}, "pending")
Start(t)   == Move(t, {"pending"}, "running")
Succeed(t) == Move(t, {"running"}, "success")
Retry(t)   == Move(t, {"failed"}, "pending")

\* One scan may fail several tasks at once.
Fail(S) ==
  /\ \A t \in S : status[t] \in {"pending", "running"}
  /\ status' = [t \in Tasks |-> IF t \in S THEN "failed" ELSE status[t]]

Next ==
  \/ \E t \in Tasks : Create(t) \/ Start(t) \/ Succeed(t) \/ Retry(t)
  \/ \E S \in SUBSET Tasks : Fail(S)

Spec == Init /\ [][Next]_status
=============================================================================
