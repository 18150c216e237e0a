------------------------------ MODULE LlmBudget ------------------------------
(***************************************************************************)
(* The time a generation run spends on the LLM.  _run_generation asks for  *)
(* one operation after the other under one deadline; chat_json calls the   *)
(* SDK, backs off and calls again; the SDK repeats a request by itself.    *)
(* Time is counted from the start of the run and passes in requests, in    *)
(* sleeps, and by at most Lag where the process is late for its next step. *)
(***************************************************************************)
EXTENDS Integers

CONSTANTS
  NumOps,          \* operations to ask for
  Budget,          \* llm.task_timeout_seconds: the deadline
  MaxRetries,      \* llm.max_retries
  Backoff,         \* llm.retry_backoff
  SetupTime,       \* for a connection and the request, from llm.connect_timeout
  ReadTimeout,     \* llm.read_timeout
  MinRead,         \* lower limit of a read timeout, 1 s
  SdkRetries,      \* requests the SDK repeats by itself
  SdkSleep,        \* longest pause of the SDK before it does (Retry-After)
  Lag              \* work between two calls, oversleeping

ASSUME NumbersAssumption ==
  /\ NumOps \in Nat /\ Budget \in Nat /\ MaxRetries \in Nat
  /\ Backoff \in Nat /\ SetupTime \in Nat /\ ReadTimeout \in Nat
  /\ MinRead \in Nat /\ SdkRetries \in Nat /\ SdkSleep \in Nat
  /\ Lag \in Nat

VARIABLES
  now,       \* time
  pc,        \* where the run is
  ops,       \* operations disposed of
  attempt,   \* calls of the SDK made for the current operation
  pause,     \* the pause if the current call fails
  read,      \* read timeout of the current call
  sent,      \* requests sent in the current call
  results    \* operation -> what became of it

vars == <<now, pc, ops, attempt, pause, read, sent, results>>

-----------------------------------------------------------------------------

Smaller(a, b) == IF a <= b THEN a ELSE b
Larger(a, b)  == IF a >= b THEN a ELSE b

LongestRead == Larger(MinRead, ReadTimeout)

Results ==
  {"drafted", "blocked", "invalid", "refused", "exhausted", "deadline"}

TypeOK ==
  /\ now \in Nat
  /\ pc \in {"loop", "call", "request", "backoff", "success", "timeout"}
  /\ ops \in 0..NumOps
  /\ attempt \in 0..(MaxRetries + 1)
  /\ pause \in Nat
  /\ read \in 0..LongestRead
  /\ sent \in 0..SdkRetries
  /\ results \in [1..ops -> Results]

Init ==
  /\ now = 0
  /\ pc = "loop"
  /\ ops = 0 /\ attempt = 0 /\ pause = 0 /\ read = 0 /\ sent = 0
  /\ results = [op \in {} |-> "drafted"]

\* The current operation ends so, and the loop goes on.
Dispose(result) ==
  /\ pc' = "loop"
  /\ ops' = ops + 1
  /\ results' = [op \in 1..(ops + 1) |-> IF op > ops THEN result
                                         ELSE results[op]]
  /\ attempt' = 0 /\ pause' = 0 /\ read' = 0 /\ sent' = 0

Remaining == Budget - now

-----------------------------------------------------------------------------
(* _run_generation *)

NextOp ==
  /\ pc = "loop" /\ ops < NumOps
  /\ now < Budget
  /\ \E lag \in 0..Lag : now' = now + lag
  /\ pc' = "call"
  /\ UNCHANGED <<ops, attempt, pause, read, sent, results>>

\* The prompt is blocked by the scan or too long: no call.
Block ==
  /\ pc = "loop" /\ ops < NumOps
  /\ now < Budget
  /\ \E lag \in 0..Lag : now' = now + lag
  /\ Dispose("blocked")

TimedOut ==
  /\ pc = "loop" /\ ops < NumOps
  /\ now >= Budget
  /\ pc' = "timeout"
  /\ UNCHANGED <<now, ops, attempt, pause, read, sent, results>>

Finish ==
  /\ pc = "loop" /\ ops = NumOps
  /\ pc' = "success"
  /\ UNCHANGED <<now, ops, attempt, pause, read, sent, results>>

-----------------------------------------------------------------------------
(* LlmClient.chat_json *)

\* Variant: the read timeout is not clamped.
ReadLimitFixed == ReadTimeout

ReadLimit == Larger(MinRead, Smaller(ReadTimeout, Remaining))

\* Each call has its own read timeout; the deadline may have come before it.
Call ==
  /\ pc = "call"
  /\ IF Remaining <= 0
       THEN Dispose("deadline")
       ELSE /\ pc' = "request"
            /\ attempt' = attempt + 1
            /\ pause' = IF attempt = 0 THEN Backoff ELSE 3 * pause
            /\ read' = ReadLimit
            /\ UNCHANGED <<ops, sent, results>>
  /\ now' = now

\* No call is left.
Exhausted == attempt > MaxRetries

\* Variant: the pause after the next call.
PauseTooLongNext(t) == Budget <= t + 3 * pause

\* The pause would last past the deadline.
PauseTooLong(t) == Budget <= t + pause

\* What a call that failed for the moment is followed by, at time t.
AfterFailure(t) ==
  \/ Exhausted /\ Dispose("exhausted")
  \/ ~Exhausted /\ PauseTooLong(t) /\ Dispose("deadline")
  \/ /\ ~Exhausted /\ ~PauseTooLong(t)
     /\ pc' = "backoff" /\ read' = 0 /\ sent' = 0
     /\ UNCHANGED <<ops, attempt, pause, results>>

Sleep ==
  /\ pc = "backoff"
  /\ \E lag \in 0..Lag : now' = now + pause + lag
  /\ pc' = "call"
  /\ UNCHANGED <<ops, attempt, pause, read, sent, results>>

-----------------------------------------------------------------------------
(* The SDK and the LLM *)

\* A request takes at most its timeouts.  The one for reading limits every
\* read of the socket: an answer is taken to come in one.
Durations == 0..(SetupTime + read)

\* Drafts, an answer that fits no schema, or a refusal (4xx, no choices).
Answer ==
  /\ pc = "request"
  /\ \E d \in Durations : now' = now + d
  /\ \E result \in {"drafted", "invalid", "refused"} : Dispose(result)

\* Rate limit, connection, timeout or 5xx: the SDK tries again ...
SdkRetry ==
  /\ pc = "request"
  /\ sent < SdkRetries
  /\ sent' = sent + 1
  /\ \E d \in Durations, s \in 0..SdkSleep : now' = now + d + s
  /\ UNCHANGED <<pc, ops, attempt, pause, read, results>>

\* ... until it raises, at once or when no retry is left.
CallFails ==
  /\ pc = "request"
  /\ \E d \in Durations : now' = now + d /\ AfterFailure(now + d)

Next ==
  \/ NextOp \/ Block \/ TimedOut \/ Finish
  \/ Call \/ Sleep
  \/ Answer \/ SdkRetry \/ CallFails

Spec == Init /\ [][Next]_vars

-----------------------------------------------------------------------------
(* Properties *)

\* How much longer than its budget a run can take: the last call starts just
\* in time, and each of its requests may use all of its timeouts.
Overrun ==
  (SdkRetries + 1) * SetupTime + SdkRetries * (LongestRead + SdkSleep)
  + MinRead + Lag

\* However the calls fail, and however many operations there are, a run is
\* over soon after its budget is spent.
EndsNearTheBudget == now <= Budget + Overrun

\* The pause after the n-th call that fails, up to the last that is repeated.
PauseAfter[n \in 1..MaxRetries] ==
  IF n = 1 THEN Backoff ELSE 3 * PauseAfter[n - 1]

LongestPause == IF MaxRetries = 0 THEN 0 ELSE PauseAfter[MaxRetries]

\* No operation is given up for lack of budget while there is time for any
\* pause there may be between two calls.
GivenUpForTheBudget ==
  \A op \in 1..ops :
    results[op] = "deadline" => now + LongestPause >= Budget
=============================================================================
