----------------------------- MODULE RateLimit -----------------------------
(***************************************************************************)
(* The fixed-window rate limit of one client (src/app/utils/rate_limit.py  *)
(* and _enforce_rate_limit in src/app/api/v1/deps.py).  Threads of the web *)
(* processes count its requests in Redis, which keeps one counter for each *)
(* window, with the time at which it expires.  A request reads the time,   *)
(* then sends INCR and, for the first of a window, EXPIRE: others, and the *)
(* end of the window, may come between.                                    *)
(***************************************************************************)
EXTENDS Integers, Sequences, FiniteSets

CONSTANTS Threads,   \* requests in progress at a time
          Limit,     \* requests of a window; 0 switches the limit off
          Window,    \* length of a window in seconds
          MaxDelay,  \* longest time from the clock to INCR, repeats included
          MaxTime,   \* bound on the time
          MaxHits    \* bound on the INCRs

ASSUME RateAssumption == {Limit, Window, MaxDelay, MaxTime, MaxHits} \subseteq Nat

VARIABLES now,
          count,    \* Redis: the counter of each window
          expires,  \* Redis: when it goes; Never before EXPIRE
          web,      \* requests in progress, with the time they read
          log       \* history: every INCR, with what the request was told

rateVars == <<now, count, expires, web, log>>

Length == IF Window > 1 THEN Window ELSE 1

Bucket(time) == time \div Length

WindowEnd(b) == (b + 1) * Length

Times == 0..MaxTime
Buckets == {Bucket(time) : time \in Times}

Never == -1
Verdicts == {"admitted", "refused", "unheard"}
Idle == [pc |-> "idle", at |-> 0]

TypeOK ==
    /\ now \in Times
    /\ count \in [Buckets -> Nat]
    /\ expires \in [Buckets -> {Never} \cup Nat]
    /\ web \in [Threads -> [pc : {"idle", "incr", "expire"}, at : Times]]
    /\ log \in Seq([at : Times, counted : Times, verdict : Verdicts])

RateInit ==
    /\ now = 0
    /\ count = [b \in Buckets |-> 0]
    /\ expires = [b \in Buckets |-> Never]
    /\ web = [t \in Threads |-> Idle]
    /\ log = <<>>

-----------------------------------------------------------------------------
\* Redis.

Alive(b) == count[b] > 0 /\ (expires[b] = Never \/ expires[b] > now)

Counted(b) == IF Alive(b) THEN count[b] + 1 ELSE 1

Hit(b) ==
    /\ count' = [count EXCEPT ![b] = Counted(b)]
    /\ expires' = IF Alive(b) THEN expires ELSE [expires EXCEPT ![b] = Never]

\* Variant: the counter goes before its window.
ExpiryBefore(time) == time + Window - 1

Expiry(time) == time + Window

-----------------------------------------------------------------------------
\* A request.

\* Variant: the last of the quota is refused.
ExceedsAtLimit(n) == n >= Limit

\* Variant: one more than the quota.
ExceedsButOne(n) == n > Limit + 1

Exceeds(n) == n > Limit

Log(t, verdict) ==
    log' = Append(log, [at |-> web[t].at, counted |-> now, verdict |-> verdict])

\* The request knows its window from here on.  A limit that is switched off
\* touches nothing.
Arrive(t) ==
    /\ web[t].pc = "idle" /\ Limit > 0
    /\ web' = [web EXCEPT ![t] = [pc |-> "incr", at |-> now]]
    /\ UNCHANGED <<now, count, expires, log>>

Incr(t) ==
    /\ web[t].pc = "incr" /\ Len(log) < MaxHits
    /\ LET b == Bucket(web[t].at)
       IN /\ Hit(b)
          /\ Log(t, IF Exceeds(Counted(b)) THEN "refused" ELSE "admitted")
          /\ web' = [web EXCEPT ![t] = IF Counted(b) = 1 THEN [@ EXCEPT !.pc = "expire"]
                                       ELSE Idle]
    /\ UNCHANGED now

\* Redis counts and the reply is lost: the request goes through, or the
\* client library repeats the command (redis-py 6 does by default).
IncrUnheard(t) ==
    /\ web[t].pc = "incr" /\ Len(log) < MaxHits
    /\ Hit(Bucket(web[t].at))
    /\ Log(t, "unheard")
    /\ web' \in {web, [web EXCEPT ![t] = Idle]}
    /\ UNCHANGED now

Expire(t) ==
    /\ web[t].pc = "expire"
    /\ LET b == Bucket(web[t].at)
       IN expires' = IF Alive(b) THEN [expires EXCEPT ![b] = Expiry(now)] ELSE expires
    /\ web' \in {web, [web EXCEPT ![t] = Idle]}
    /\ UNCHANGED <<now, count, log>>

\* Redis does not answer, or the web process dies: nothing is counted, or the
\* counter never expires.
Fails(t) ==
    /\ web[t].pc # "idle"
    /\ web' = [web EXCEPT ![t] = Idle]
    /\ UNCHANGED <<now, count, expires, log>>

Tick ==
    /\ now < MaxTime
    /\ \A t \in Threads : web[t].pc = "incr" => now < web[t].at + MaxDelay
    /\ now' = now + 1
    /\ UNCHANGED <<count, expires, web, log>>

RateNext ==
    \/ \E t \in Threads :
         Arrive(t) \/ Incr(t) \/ IncrUnheard(t) \/ Expire(t) \/ Fails(t)
    \/ Tick

RateSpec == RateInit /\ [][RateNext]_rateVars

-----------------------------------------------------------------------------
\* What the limit promises.

Of(b) == {i \in DOMAIN log : Bucket(log[i].at) = b}

Admitted(b) == {i \in Of(b) : log[i].verdict = "admitted"}

\* Counted before the window of the request ended.
OnTime(i) == log[i].counted < WindowEnd(Bucket(log[i].at))

\* Of the requests counted in time, a window admits Limit, and any stretch of
\* a window's length twice as many: a counter never goes before its window,
\* whoever sets its expiry and whatever fails (rate_limit: hit_count,
\* window_key; deps: _enforce_rate_limit).
QuotaIsExact ==
    /\ \A b \in Buckets : Cardinality({i \in Admitted(b) : OnTime(i)}) <= Limit
    /\ \A from \in Times :
         Cardinality({i \in DOMAIN log : /\ log[i].verdict = "admitted" /\ OnTime(i)
                                         /\ from <= log[i].at /\ log[i].at < from + Window})
           <= 2 * Limit

\* A request that reads the time in one window and is counted after it may
\* find the counter expired and start a new one.  It can only happen once: a
\* window admits twice its quota at most (rate_limit: hit_count).
LateOnesAreBounded == \A b \in Buckets : Cardinality(Admitted(b)) <= 2 * Limit

\* Nobody is refused before Limit commands of the same window were counted,
\* and so never because Redis failed, nor for what another window counted
\* (rate_limit: hit_count; deps: _enforce_rate_limit).
RefusalsAreEarned ==
    \A i \in DOMAIN log :
        log[i].verdict = "refused" =>
          Cardinality({j \in Of(Bucket(log[i].at)) : j < i}) >= Limit
=============================================================================
