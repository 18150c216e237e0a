---------------------------- MODULE CaseLifecycle ----------------------------
(***************************************************************************)
(* What the rest of the platform may suppose of test cases, whoever edits, *)
(* confirms and deletes them: a case starts as a draft, becomes active     *)
(* only from there, and once deleted it stays deleted.                     *)
(***************************************************************************)
CONSTANT Cases
VARIABLE status

Init == status = [id \in Cases |-> "none"]

Move(id, from, to) ==
  /\ status[id] \in from
  /\ status' = [status EXCEPT ![id] = to]

Create(id)  == Move(id, {"none"}, "draft")
Confirm(id) == Move(id, {"draft"}, "active")
Demote(id)  == Move(id, {"active"}, "draft")
Delete(id)  == Move(id, {"draft", "active"}, "deleted")

Next == \E id \in Cases : Create(id) \/ Confirm(id) \/ Demote(id) \/ Delete(id)

Spec == Init /\ [][Next]_status
=============================================================================
