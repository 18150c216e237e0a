----------------------------- MODULE TimeLimits -----------------------------
(***************************************************************************)
(* The time limits a message carries (task_time_limits in                  *)
(* src/app/services/dispatcher.py): pytest's own timeout, then the soft    *)
(* and the hard limit of the worker, then the broker's redelivery.         *)
(***************************************************************************)
EXTENDS Integers

\* PytestTimeout is the configured default for a task without a timeout, which
\* is 0 here; VisibilityTimeout the time after which the broker delivers again.
CONSTANTS PytestTimeout, VisibilityTimeout
ASSUME TimeLimitsAssumption == PytestTimeout \in Nat /\ VisibilityTimeout \in Nat

Lesser(a, b) == IF a <= b THEN a ELSE b

\* Variant: a limit equal to the redelivery is short enough.
IsTooLongButEqual(hard) == hard > VisibilityTimeout

IsTooLong(hard) == hard >= VisibilityTimeout

TaskTimeLimits(timeout) ==
    LET base == IF timeout = 0 THEN PytestTimeout ELSE timeout
        hard == base + 60
    IN IF IsTooLong(hard)
       THEN [soft |-> Lesser(base + 30, VisibilityTimeout - 60 - 30),
             hard |-> VisibilityTimeout - 60]
       ELSE [soft |-> base + 30, hard |-> hard]

\* Soft before hard, hard before the broker delivers again; and pytest has all
\* of its time wherever the three can be told apart.
LimitsAreOrdered(timeout) ==
    LET limits == TaskTimeLimits(timeout)
        base == IF timeout = 0 THEN PytestTimeout ELSE timeout
    IN /\ limits.soft < limits.hard
       /\ limits.hard < VisibilityTimeout
       /\ base <= VisibilityTimeout - 90 => base <= limits.soft
=============================================================================
