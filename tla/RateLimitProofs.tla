---------------------------- MODULE RateLimitProofs ----------------------------
(***************************************************************************)
(* Theorems about RateLimit, for any number of requests, limit and window. *)
(***************************************************************************)
EXTENDS RateLimit, FiniteSetTheorems, TLAPS

USE RateAssumption

-----------------------------------------------------------------------------
\* Windows.

LEMMA LengthIsPositive ==
  /\ Length \in Nat \ {0}
  /\ Window > 0 => Length = Window
BY DEF Length

LEMMA TimesMonotone ==
  ASSUME NEW n \in Nat, NEW a \in Int, NEW b \in Int, a <= b
  PROVE  a * n <= b * n
<1>1. PICK d \in Nat : b = a + d
  <2>1. b - a \in Nat /\ b = a + (b - a)
    OBVIOUS
  <2> QED
    BY <2>1
<1>2. b * n = a * n + d * n
  BY <1>1
<1>3. d * n >= 0
  BY <1>1
<1> QED
  BY <1>2, <1>3

\* A time lies in its window.
LEMMA TimeInWindow ==
  ASSUME NEW time \in Nat
  PROVE  /\ Bucket(time) \in Nat /\ WindowEnd(Bucket(time)) \in Nat
         /\ time < WindowEnd(Bucket(time))
         /\ WindowEnd(Bucket(time)) <= time + Length
<1> DEFINE q == time \div Length
<1>1. /\ q \in Nat /\ Length \in Nat
      /\ q * Length <= time /\ time < q * Length + Length
  BY LengthIsPositive
<1>2. (q + 1) * Length = q * Length + Length
  BY <1>1
<1>3. q * Length \in Nat
  BY <1>1
<1>4. Bucket(time) = q /\ WindowEnd(q) = (q + 1) * Length
  BY DEF Bucket, WindowEnd
<1> HIDE DEF q
<1> QED
  BY <1>1, <1>2, <1>3, <1>4

\* A stretch of a window's length meets two windows.
LEMMA StretchMeetsTwo ==
  ASSUME NEW from \in Nat, NEW at \in Nat, from <= at, at < from + Length
  PROVE  Bucket(at) = Bucket(from) \/ Bucket(at) = Bucket(from) + 1
<1> DEFINE p == Bucket(from)  q == Bucket(at)
<1>1. /\ p \in Nat /\ q \in Nat
      /\ p * Length + Length > from /\ q * Length + Length > at
      /\ p * Length <= from /\ q * Length <= at
      /\ p * Length \in Nat /\ q * Length \in Nat
  BY LengthIsPositive DEF Bucket
<1> HIDE DEF p, q
<1>2. ~(q < p)
  <2>1. SUFFICES ASSUME q < p PROVE FALSE
    OBVIOUS
  <2>2. (q + 1) * Length <= p * Length
    BY <2>1, <1>1, TimesMonotone, LengthIsPositive
  <2>3. (q + 1) * Length = q * Length + Length
    BY <1>1, LengthIsPositive
  <2> QED
    BY <2>2, <2>3, <1>1, LengthIsPositive
<1>3. ~(q > p + 1)
  <2>1. SUFFICES ASSUME q > p + 1 PROVE FALSE
    OBVIOUS
  <2>2. (p + 2) * Length <= q * Length
    BY <2>1, <1>1, TimesMonotone, LengthIsPositive
  <2>3. (p + 2) * Length = p * Length + Length + Length
    BY <1>1, LengthIsPositive
  <2> QED
    BY <2>2, <2>3, <1>1, LengthIsPositive
<1> QED
  BY <1>1, <1>2, <1>3 DEF p, q

-----------------------------------------------------------------------------
\* The log.

Entry == [at : Times, counted : Times, verdict : Verdicts]

\* Of, and Admitted in time, as functions of the log.
OfLog(l, b) == {i \in DOMAIN l : Bucket(l[i].at) = b}
AdmittedIn(l, b) == {i \in OfLog(l, b) : l[i].verdict = "admitted"}
OnTimeIn(l, b) == {i \in AdmittedIn(l, b) : l[i].counted < WindowEnd(b)}

LEMMA OfLogIsFinite ==
  ASSUME NEW l \in Seq(Entry), NEW b, NEW S, S \subseteq OfLog(l, b)
  PROVE  IsFiniteSet(S) /\ Cardinality(S) \in Nat
         /\ Cardinality(S) <= Cardinality(OfLog(l, b))
<1>1. IsFiniteSet(1..Len(l))
  BY FS_Interval
<1>2. IsFiniteSet(OfLog(l, b))
  BY <1>1, FS_Subset DEF OfLog
<1> QED
  BY <1>2, FS_Subset, FS_CardinalityType

\* One entry more is one more of its window, or of none.
LEMMA LogGrows ==
  ASSUME NEW l \in Seq(Entry), NEW e \in Entry, NEW b
  PROVE  LET n == Len(l) + 1
             m == Append(l, e)
         IN /\ OfLog(m, b) = IF Bucket(e.at) = b THEN OfLog(l, b) \cup {n} ELSE OfLog(l, b)
            /\ AdmittedIn(m, b) = IF Bucket(e.at) = b /\ e.verdict = "admitted"
                                  THEN AdmittedIn(l, b) \cup {n} ELSE AdmittedIn(l, b)
            /\ OnTimeIn(m, b) = IF /\ Bucket(e.at) = b /\ e.verdict = "admitted"
                                   /\ e.counted < WindowEnd(b)
                                THEN OnTimeIn(l, b) \cup {n} ELSE OnTimeIn(l, b)
<1> DEFINE n == Len(l) + 1
           m == Append(l, e)
<1>1. /\ DOMAIN m = 1..n /\ DOMAIN l = 1..Len(l) /\ Len(l) \in Nat
      /\ m[n] = e /\ \A i \in DOMAIN l : m[i] = l[i]
  OBVIOUS
<1> HIDE DEF m
<1>2. DOMAIN m = DOMAIN l \cup {n} /\ n \notin DOMAIN l
  BY <1>1
<1> HIDE DEF n
<1>3. OfLog(m, b) = IF Bucket(e.at) = b THEN OfLog(l, b) \cup {n} ELSE OfLog(l, b)
  BY <1>1, <1>2, Zenon DEF OfLog
<1>4. \A i \in OfLog(m, b) : i = n \/ i \in OfLog(l, b)
  BY <1>3
<1>5. \A i \in OfLog(l, b) : i # n /\ m[i] = l[i]
  BY <1>1, <1>2 DEF OfLog
<1>6. AdmittedIn(m, b) = IF Bucket(e.at) = b /\ e.verdict = "admitted"
                         THEN AdmittedIn(l, b) \cup {n} ELSE AdmittedIn(l, b)
  BY <1>1, <1>3, <1>5 DEF AdmittedIn
<1>7. \A i \in AdmittedIn(l, b) : i # n /\ m[i] = l[i]
  BY <1>5 DEF AdmittedIn
<1>8. OnTimeIn(m, b) = IF /\ Bucket(e.at) = b /\ e.verdict = "admitted"
                          /\ e.counted < WindowEnd(b)
                       THEN OnTimeIn(l, b) \cup {n} ELSE OnTimeIn(l, b)
  BY <1>1, <1>6, <1>7 DEF OnTimeIn
<1> QED
  BY <1>3, <1>6, <1>8 DEF m, n

LEMMA OneMoreEntry ==
  ASSUME NEW l \in Seq(Entry), NEW b, NEW S, S \subseteq OfLog(l, b)
  PROVE  Cardinality(S \cup {Len(l) + 1}) = Cardinality(S) + 1
<1>1. IsFiniteSet(S)
  BY OfLogIsFinite
<1>2. Len(l) + 1 \notin S
  BY DEF OfLog
<1> QED
  BY <1>1, <1>2, FS_AddElement

-----------------------------------------------------------------------------
\* Types and times.

LEMMA BucketsAreNumbers ==
  /\ Times \subseteq Nat /\ Buckets \subseteq Nat
  /\ \A time \in Times : Bucket(time) \in Buckets
BY TimeInWindow DEF Times, Buckets

Handler == [pc : {"idle", "incr", "expire"}, at : Times]

\* A handler past its clock read a time that is not in the future, and an INCR
\* follows its clock within MaxDelay.
InOrder(h, time) ==
    /\ h.pc # "idle" => h.at <= time
    /\ h.pc = "incr" => time <= h.at + MaxDelay

Ordered(e, time) ==
    e.at <= e.counted /\ e.counted <= time /\ e.counted <= e.at + MaxDelay

TimesInOrder ==
    /\ \A t \in Threads : InOrder(web[t], now)
    /\ \A i \in DOMAIN log : Ordered(log[i], now)

Typed == TypeOK /\ TimesInOrder

\* What a command of INCR does, whoever hears of it.
Hits(t, verdict) ==
    /\ web[t].pc = "incr"
    /\ Hit(Bucket(web[t].at))
    /\ Log(t, verdict)
    /\ now' = now

LEMMA IncrsHit ==
  ASSUME TypeOK, NEW t \in Threads, Incr(t) \/ IncrUnheard(t)
  PROVE  /\ \E v \in Verdicts :
              /\ Hits(t, v)
              /\ v = "admitted" => ~Exceeds(Counted(Bucket(web[t].at)))
              /\ v = "refused" => Exceeds(Counted(Bucket(web[t].at)))
         /\ web' \in {web, [web EXCEPT ![t] = Idle], [web EXCEPT ![t].pc = "expire"]}
BY SMT DEF Incr, IncrUnheard, Hits, Log, Verdicts

LEMMA HitIsTyped ==
  ASSUME Typed, NEW t \in Threads, NEW v \in Verdicts, Hits(t, v)
  PROVE  LET e == [at |-> web[t].at, counted |-> now, verdict |-> v]
         IN /\ e \in Entry /\ log \in Seq(Entry) /\ log' = Append(log, e)
            /\ Bucket(web[t].at) \in Buckets
            /\ Counted(Bucket(web[t].at)) \in Nat \ {0}
<1>1. web[t] \in [pc : {"idle", "incr", "expire"}, at : Times] /\ now \in Times
  BY DEF Typed, TypeOK
<1>2. Bucket(web[t].at) \in Buckets
  BY <1>1, BucketsAreNumbers
<1> QED
  BY <1>1, <1>2 DEF Hits, Log, Entry, Typed, TypeOK, Counted

LEMMA HitKeepsTypes ==
  ASSUME Typed, NEW t \in Threads, NEW v \in Verdicts, Hits(t, v)
  PROVE  /\ count' \in [Buckets -> Nat]
         /\ expires' \in [Buckets -> {Never} \cup Nat]
         /\ log' \in Seq(Entry)
         /\ \A i \in DOMAIN log' : Ordered(log'[i], now)
<1> DEFINE e == [at |-> web[t].at, counted |-> now, verdict |-> v]
<1>1. /\ e \in Entry /\ log \in Seq(Entry) /\ log' = Append(log, e)
      /\ Bucket(web[t].at) \in Buckets /\ Counted(Bucket(web[t].at)) \in Nat
  BY HitIsTyped
<1>2. count' \in [Buckets -> Nat] /\ expires' \in [Buckets -> {Never} \cup Nat]
  BY <1>1 DEF Hits, Hit, Typed, TypeOK
<1>3. Ordered(e, now)
  <2>1. InOrder(web[t], now) /\ web[t].pc = "incr" /\ now \in Nat
    BY BucketsAreNumbers DEF Hits, Typed, TypeOK, TimesInOrder
  <2> QED
    BY <2>1 DEF Ordered, InOrder
<1> HIDE DEF e
<1>4. \A i \in DOMAIN log' : log'[i] = e \/ (i \in DOMAIN log /\ log'[i] = log[i])
  BY <1>1
<1> QED
  BY <1>1, <1>2, <1>3, <1>4 DEF Typed, TimesInOrder

LEMMA HandlerMoves ==
  ASSUME Typed, NEW t \in Threads, NEW h \in Handler, InOrder(h, now),
         web' = [web EXCEPT ![t] = h] \/ web' = web
  PROVE  /\ web' \in [Threads -> Handler]
         /\ \A u \in Threads : InOrder(web'[u], now)
BY DEF Typed, TypeOK, TimesInOrder, Handler

LEMMA IdleIsInOrder == Idle \in Handler /\ InOrder(Idle, now)
BY DEF Idle, Handler, InOrder, Times

LEMMA TypedIsInductive ==
  ASSUME Typed, [RateNext]_rateVars
  PROVE  Typed'
<1>0. /\ Times \subseteq Nat /\ now \in Nat /\ Idle \in Handler /\ InOrder(Idle, now)
      /\ now \in Times /\ web \in [Threads -> Handler] /\ log \in Seq(Entry)
  BY BucketsAreNumbers, IdleIsInOrder DEF Typed, TypeOK, Handler, Entry
<1> DEFINE WebKept == /\ web' \in [Threads -> Handler]
                      /\ \A u \in Threads : InOrder(web'[u], now)
           LogKept == log' \in Seq(Entry) /\ \A i \in DOMAIN log' : Ordered(log'[i], now)
           KeysKept == /\ count' \in [Buckets -> Nat]
                       /\ expires' \in [Buckets -> {Never} \cup Nat]
<1>1. ASSUME WebKept, LogKept, KeysKept, now' = now
      PROVE  Typed'
  BY <1>0, <1>1 DEF Typed, TypeOK, TimesInOrder, Handler, Entry
<1>2. /\ web' = web => WebKept
      /\ log' = log => LogKept
      /\ count' = count /\ expires' = expires => KeysKept
  BY <1>0 DEF Typed, TypeOK, TimesInOrder
<1>3. CASE UNCHANGED rateVars
  BY <1>1, <1>2, <1>3 DEF rateVars
<1>4. ASSUME NEW t \in Threads, Arrive(t) \/ Fails(t)
      PROVE  Typed'
  <2>1. [pc |-> "incr", at |-> now] \in Handler /\ InOrder([pc |-> "incr", at |-> now], now)
    BY <1>0 DEF Handler, InOrder
  <2>2. WebKept
    BY <1>0, <1>4, <2>1, HandlerMoves DEF Arrive, Fails
  <2> QED
    BY <1>1, <1>2, <1>4, <2>2 DEF Arrive, Fails
<1>5. ASSUME NEW t \in Threads, Incr(t) \/ IncrUnheard(t)
      PROVE  Typed'
  <2>1. PICK v \in Verdicts : Hits(t, v)
    BY <1>5, IncrsHit DEF Typed
  <2>2. LogKept /\ KeysKept /\ now' = now
    BY <2>1, HitKeepsTypes DEF Hits
  <2> DEFINE h == [web[t] EXCEPT !.pc = "expire"]
  <2>3. h \in Handler /\ InOrder(h, now)
    BY <1>0, <2>1 DEF Handler, InOrder, Typed, TimesInOrder, Hits
  <2>4. web' = web \/ web' = [web EXCEPT ![t] = Idle] \/ web' = [web EXCEPT ![t] = h]
    BY <1>5 DEF Incr, IncrUnheard
  <2> HIDE DEF h
  <2>5. WebKept
    BY <1>0, <2>3, <2>4, HandlerMoves
  <2> QED
    BY <1>1, <2>2, <2>5
<1>6. ASSUME NEW t \in Threads, Expire(t)
      PROVE  Typed'
  <2>1. Expiry(now) \in Nat
    BY <1>0 DEF Expiry
  <2>2. KeysKept
    BY <1>6, <2>1 DEF Expire, Typed, TypeOK
  <2>3. WebKept
    BY <1>0, <1>6, HandlerMoves DEF Expire
  <2> QED
    BY <1>1, <1>2, <1>6, <2>2, <2>3 DEF Expire
<1>7. CASE Tick
  <2>1. now' \in Times /\ now' = now + 1
    BY <1>0, <1>7 DEF Tick, Times
  <2>2. ASSUME NEW t \in Threads PROVE InOrder(web[t], now + 1)
    <3>1. /\ web[t].at \in Nat /\ InOrder(web[t], now)
          /\ web[t].pc = "incr" => now < web[t].at + MaxDelay
      BY <1>0, <1>7 DEF Tick, Typed, TimesInOrder, Handler
    <3> QED
      BY <1>0, <3>1 DEF InOrder
  <2>3. ASSUME NEW i \in DOMAIN log PROVE Ordered(log[i], now + 1)
    <3>1. log[i] \in Entry /\ Ordered(log[i], now)
      BY <1>0 DEF Typed, TimesInOrder
    <3>2. log[i].counted \in Nat /\ log[i].at \in Nat
      BY <1>0, <3>1 DEF Entry
    <3> QED
      BY <1>0, <3>1, <3>2 DEF Ordered
  <2>4. TypeOK'
    BY <1>7, <2>1 DEF Tick, Typed, TypeOK
  <2>5. TimesInOrder'
    BY <1>7, <2>1, <2>2, <2>3 DEF Tick, TimesInOrder
  <2> QED
    BY <2>4, <2>5 DEF Typed
<1> QED
  BY <1>3, <1>4, <1>5, <1>6, <1>7 DEF RateNext

LEMMA TypedAtFirst == RateInit => Typed
BY DEF RateInit, Typed, TypeOK, TimesInOrder, InOrder, Times, Idle

\* Every value has its type, and times come in order.
LEMMA TypedHolds == RateSpec => []Typed
<1>1. RateInit => Typed
  BY TypedAtFirst
<1>2. Typed /\ [RateNext]_rateVars => Typed'
  BY TypedIsInductive
<1> QED
  BY <1>1, <1>2, PTL DEF RateSpec

-----------------------------------------------------------------------------
\* What is known of one window: the time, its end, its counter and expiry, the
\* size of its log, how many it admitted and how many of them in time.

WindowOf(b) ==
    [now |-> now, end |-> WindowEnd(b), count |-> count[b], expires |-> expires[b],
     logged |-> Cardinality(OfLog(log, b)),
     admitted |-> Cardinality(AdmittedIn(log, b)),
     inTime |-> Cardinality(OnTimeIn(log, b))]

WindowState ==
    [now : Nat, end : Nat, count : Nat, expires : {Never} \cup Nat,
     logged : Nat, admitted : Nat, inTime : Nat]

Lives(w) == w.count > 0 /\ (w.expires = Never \/ w.expires > w.now)

\* The steps that a window can see: an INCR, with its verdict admitted or not,
\* an EXPIRE that finds the counter, and the passing of time.
Incremented(w, v, admits) ==
    /\ v.now = w.now /\ v.end = w.end
    /\ v.count = (IF Lives(w) THEN w.count + 1 ELSE 1)
    /\ v.expires = (IF Lives(w) THEN w.expires ELSE Never)
    /\ v.logged = w.logged + 1
    /\ v.admitted = (IF admits THEN w.admitted + 1 ELSE w.admitted)
    /\ v.inTime = (IF admits /\ w.now < w.end THEN w.inTime + 1 ELSE w.inTime)
    /\ admits => v.count <= Limit

ExpirySet(w, v) ==
    /\ Window > 0 => w.end <= w.now + Window
    /\ v = [w EXCEPT !.expires = Expiry(w.now)]

Passed(w, v) == v = [w EXCEPT !.now = w.now + 1]

Seen(w) ==
    /\ w.inTime <= w.admitted /\ w.admitted <= w.logged /\ w.count <= w.logged
    /\ w.count = 0 => w.logged = 0

\* A counter with an expiry outlives its window; a window that lasts has
\* admitted no more than it counted and no more than the limit.
InTimeInv(w) ==
    /\ Seen(w)
    /\ w.expires = Never \/ w.expires >= w.end
    /\ w.inTime <= Limit
    /\ w.now < w.end => w.admitted <= w.count /\ w.admitted <= Limit

\* Until the counter that the window started with is gone for good, it bounds
\* what the window admits.  One that is started after the window's end lives
\* until no late request is left.
Early(w) == w.now < w.end \/ (w.expires # Never /\ w.expires < w.end + Window)

LateInv(w) ==
    /\ InTimeInv(w)
    /\ Early(w) => w.admitted <= w.count /\ w.admitted <= Limit
    /\ w.admitted <= w.count + Limit /\ w.admitted <= 2 * Limit

LEMMA SeenKept ==
  ASSUME NEW w \in WindowState, NEW v \in WindowState, Seen(w),
         \/ \E admits \in BOOLEAN : Incremented(w, v, admits)
         \/ ExpirySet(w, v)
         \/ Passed(w, v)
  PROVE  Seen(v)
BY DEF Seen, WindowState, Incremented, ExpirySet, Passed

LEMMA InTimeKept ==
  ASSUME NEW w \in WindowState, NEW v \in WindowState, InTimeInv(w), Window > 0,
         \/ \E admits \in BOOLEAN : Incremented(w, v, admits)
         \/ ExpirySet(w, v)
         \/ Passed(w, v)
  PROVE  InTimeInv(v)
<1> USE DEF InTimeInv, Seen, WindowState, Never
<1>1. ASSUME NEW admits \in BOOLEAN, Incremented(w, v, admits)
      PROVE  InTimeInv(v)
  BY <1>1 DEF Incremented, Lives
<1>2. CASE ExpirySet(w, v)
  BY <1>2 DEF ExpirySet, Expiry
<1>3. CASE Passed(w, v)
  BY <1>3 DEF Passed
<1> QED
  BY <1>1, <1>2, <1>3

LEMMA LateKept ==
  ASSUME NEW w \in WindowState, NEW v \in WindowState, LateInv(w), Window > 0,
         \/ \E admits \in BOOLEAN : /\ Incremented(w, v, admits)
                                    /\ w.now < w.end + Window
         \/ ExpirySet(w, v)
         \/ Passed(w, v)
  PROVE  LateInv(v)
<1>1. InTimeInv(v)
  BY InTimeKept DEF LateInv
<1> USE DEF LateInv, InTimeInv, Seen, Early, WindowState, Never
<1>2. ASSUME NEW admits \in BOOLEAN, Incremented(w, v, admits), w.now < w.end + Window
      PROVE  LateInv(v)
  <2>1. CASE Lives(w)
    BY <1>1, <1>2, <2>1 DEF Incremented, Lives
  <2>2. CASE ~Lives(w)
    BY <1>1, <1>2, <2>2 DEF Incremented, Lives
  <2> QED
    BY <2>1, <2>2
<1>3. CASE ExpirySet(w, v)
  BY <1>1, <1>3 DEF ExpirySet, Expiry
<1>4. CASE Passed(w, v)
  BY <1>1, <1>4 DEF Passed
<1> QED
  BY <1>2, <1>3, <1>4

-----------------------------------------------------------------------------
\* Every step of the specification is such a step for each window, or none.

LEMMA WindowIsTyped ==
  ASSUME Typed, NEW b \in Buckets
  PROVE  WindowOf(b) \in WindowState
<1>1. now \in Nat /\ count[b] \in Nat /\ expires[b] \in {Never} \cup Nat /\ log \in Seq(Entry)
  BY BucketsAreNumbers DEF Typed, TypeOK, Entry
<1>2. WindowEnd(b) \in Nat
  BY TimeInWindow, BucketsAreNumbers DEF Buckets
<1>3. /\ AdmittedIn(log, b) \subseteq OfLog(log, b)
      /\ OnTimeIn(log, b) \subseteq OfLog(log, b)
  BY DEF AdmittedIn, OnTimeIn
<1>4. /\ Cardinality(OfLog(log, b)) \in Nat
      /\ Cardinality(AdmittedIn(log, b)) \in Nat
      /\ Cardinality(OnTimeIn(log, b)) \in Nat
  BY <1>1, <1>3, OfLogIsFinite
<1> QED
  BY <1>1, <1>2, <1>4 DEF WindowOf, WindowState

LEMMA HitIsIncremented ==
  ASSUME Typed, NEW t \in Threads, NEW v \in Verdicts, Hits(t, v),
         v = "admitted" => ~Exceeds(Counted(Bucket(web[t].at))),
         NEW b \in Buckets
  PROVE  \/ WindowOf(b)' = WindowOf(b)
         \/ /\ b = Bucket(web[t].at)
            /\ Incremented(WindowOf(b), WindowOf(b)', v = "admitted")
<1> DEFINE e == [at |-> web[t].at, counted |-> now, verdict |-> v]
<1>1. /\ e \in Entry /\ log \in Seq(Entry) /\ log' = Append(log, e)
      /\ Bucket(web[t].at) \in Buckets
  BY HitIsTyped
<1>2. e.at = web[t].at /\ e.counted = now /\ e.verdict = v
  OBVIOUS
<1>3. /\ count \in [Buckets -> Nat] /\ expires \in [Buckets -> {Never} \cup Nat]
      /\ now' = now
  BY DEF Typed, TypeOK, Hits
<1> HIDE DEF e
<1>4. CASE b # Bucket(web[t].at)
  <2>1. /\ OfLog(log', b) = OfLog(log, b) /\ AdmittedIn(log', b) = AdmittedIn(log, b)
        /\ OnTimeIn(log', b) = OnTimeIn(log, b)
    BY <1>1, <1>2, <1>4, LogGrows
  <2>2. count'[b] = count[b] /\ expires'[b] = expires[b]
    BY <1>1, <1>3, <1>4 DEF Hits, Hit
  <2> QED
    BY <2>1, <2>2, <1>3 DEF WindowOf
<1>5. CASE b = Bucket(web[t].at)
  <2> DEFINE n == Len(log) + 1
  <2>1. /\ OfLog(log', b) = OfLog(log, b) \cup {n}
        /\ AdmittedIn(log', b) = IF v = "admitted" THEN AdmittedIn(log, b) \cup {n}
                                 ELSE AdmittedIn(log, b)
        /\ OnTimeIn(log', b) = IF v = "admitted" /\ now < WindowEnd(b)
                               THEN OnTimeIn(log, b) \cup {n} ELSE OnTimeIn(log, b)
    <3>1. Bucket(e.at) = b
      BY <1>2, <1>5
    <3>2. /\ OfLog(log', b) = OfLog(log, b) \cup {n}
          /\ AdmittedIn(log', b) = IF e.verdict = "admitted" THEN AdmittedIn(log, b) \cup {n}
                                   ELSE AdmittedIn(log, b)
          /\ OnTimeIn(log', b) = IF e.verdict = "admitted" /\ e.counted < WindowEnd(b)
                                 THEN OnTimeIn(log, b) \cup {n} ELSE OnTimeIn(log, b)
      BY <1>1, <3>1, LogGrows
    <3> QED
      BY <1>2, <3>2
  <2>2. /\ AdmittedIn(log, b) \subseteq OfLog(log, b)
        /\ OnTimeIn(log, b) \subseteq OfLog(log, b)
    BY DEF AdmittedIn, OnTimeIn
  <2>3. \A S \in {OfLog(log, b), AdmittedIn(log, b), OnTimeIn(log, b)} :
           Cardinality(S \cup {n}) = Cardinality(S) + 1
    BY <1>1, <2>2, OneMoreEntry
  <2> HIDE DEF n
  <2>4. /\ count'[b] = (IF Alive(b) THEN count[b] + 1 ELSE 1)
        /\ expires'[b] = (IF Alive(b) THEN expires[b] ELSE Never)
        /\ v = "admitted" => count'[b] <= Limit
    BY <1>1, <1>3, <1>5 DEF Hits, Hit, Counted, Exceeds
  <2> DEFINE w == WindowOf(b)
             x == WindowOf(b)'
  <2>5. /\ w.now = now /\ w.end = WindowEnd(b) /\ w.count = count[b]
        /\ w.expires = expires[b] /\ w.logged = Cardinality(OfLog(log, b))
        /\ w.admitted = Cardinality(AdmittedIn(log, b))
        /\ w.inTime = Cardinality(OnTimeIn(log, b))
    BY DEF WindowOf
  <2>6. /\ x.now = now /\ x.end = WindowEnd(b) /\ x.count = count'[b]
        /\ x.expires = expires'[b] /\ x.logged = Cardinality(OfLog(log', b))
        /\ x.admitted = Cardinality(AdmittedIn(log', b))
        /\ x.inTime = Cardinality(OnTimeIn(log', b))
    BY <1>3 DEF WindowOf
  <2>7. Lives(w) = Alive(b)
    BY <2>5 DEF Lives, Alive
  <2> HIDE DEF w, x
  <2>8. /\ x.logged = w.logged + 1
        /\ x.admitted = IF v = "admitted" THEN w.admitted + 1 ELSE w.admitted
        /\ x.inTime = IF v = "admitted" /\ now < WindowEnd(b) THEN w.inTime + 1
                      ELSE w.inTime
    BY <2>1, <2>3, <2>5, <2>6
  <2>9. Incremented(w, x, v = "admitted")
    BY <2>4, <2>5, <2>6, <2>7, <2>8 DEF Incremented
  <2> QED
    BY <1>5, <2>9 DEF w, x
<1> QED
  BY <1>4, <1>5

LEMMA WindowStep ==
  ASSUME Typed, [RateNext]_rateVars, NEW b \in Buckets
  PROVE  \/ WindowOf(b)' = WindowOf(b)
         \/ \E admits \in BOOLEAN : /\ Incremented(WindowOf(b), WindowOf(b)', admits)
                                    /\ now < WindowEnd(b) + MaxDelay
         \/ ExpirySet(WindowOf(b), WindowOf(b)')
         \/ Passed(WindowOf(b), WindowOf(b)')
<1>0. /\ now \in Nat /\ Times \subseteq Nat /\ \A time \in Times : Bucket(time) \in Buckets
      /\ web \in [Threads -> Handler] /\ expires \in [Buckets -> {Never} \cup Nat]
  BY BucketsAreNumbers DEF Typed, TypeOK, Handler
<1>1. ASSUME UNCHANGED <<now, count, expires, log>>
      PROVE  WindowOf(b)' = WindowOf(b)
  BY <1>1 DEF WindowOf
<1>2. CASE UNCHANGED rateVars
  BY <1>1, <1>2 DEF rateVars
<1>3. ASSUME NEW t \in Threads, Arrive(t) \/ Fails(t)
      PROVE  WindowOf(b)' = WindowOf(b)
  BY <1>1, <1>3 DEF Arrive, Fails
<1>4. ASSUME NEW t \in Threads, Incr(t) \/ IncrUnheard(t)
      PROVE  \/ WindowOf(b)' = WindowOf(b)
             \/ \E admits \in BOOLEAN : /\ Incremented(WindowOf(b), WindowOf(b)', admits)
                                        /\ now < WindowEnd(b) + MaxDelay
  <2>1. PICK v \in Verdicts :
           Hits(t, v) /\ (v = "admitted" => ~Exceeds(Counted(Bucket(web[t].at))))
    BY <1>4, IncrsHit DEF Typed
  <2>2. \/ WindowOf(b)' = WindowOf(b)
        \/ /\ b = Bucket(web[t].at)
           /\ Incremented(WindowOf(b), WindowOf(b)', v = "admitted")
    BY <2>1, HitIsIncremented
  <2>3. now <= web[t].at + MaxDelay /\ web[t].at \in Nat
    BY <1>0, <2>1 DEF Hits, Typed, TimesInOrder, InOrder, Handler
  <2>4. /\ web[t].at < WindowEnd(Bucket(web[t].at))
        /\ WindowEnd(Bucket(web[t].at)) \in Nat
    BY <2>3, TimeInWindow
  <2>5. b = Bucket(web[t].at) => now < WindowEnd(b) + MaxDelay
    BY <1>0, <2>3, <2>4
  <2>6. (v = "admitted") \in BOOLEAN
    OBVIOUS
  <2> QED
    BY <2>2, <2>5, <2>6
<1>5. ASSUME NEW t \in Threads, Expire(t)
      PROVE  \/ WindowOf(b)' = WindowOf(b)
             \/ ExpirySet(WindowOf(b), WindowOf(b)')
  <2>1. now' = now /\ count' = count /\ log' = log
    BY <1>5 DEF Expire
  <2>2. CASE expires'[b] = expires[b]
    BY <2>1, <2>2 DEF WindowOf
  <2>3. CASE expires'[b] # expires[b]
    <3>1. b = Bucket(web[t].at) /\ expires'[b] = Expiry(now)
      BY <1>0, <1>5, <2>3 DEF Expire
    <3>2. web[t].at \in Nat /\ web[t].at <= now
      BY <1>0, <1>5 DEF Expire, Typed, TimesInOrder, InOrder, Handler
    <3>3. /\ WindowEnd(b) \in Nat
          /\ Window > 0 => WindowEnd(b) <= web[t].at + Window
      BY <3>1, <3>2, TimeInWindow, LengthIsPositive
    <3>4. Window > 0 => WindowEnd(b) <= now + Window
      BY <1>0, <3>2, <3>3
    <3>5. WindowOf(b)' = [WindowOf(b) EXCEPT !.expires = Expiry(now)]
      BY <2>1, <3>1 DEF WindowOf
    <3>6. WindowOf(b).end = WindowEnd(b) /\ WindowOf(b).now = now
      BY DEF WindowOf
    <3> QED
      BY <3>4, <3>5, <3>6 DEF ExpirySet
  <2> QED
    BY <2>2, <2>3
<1>6. CASE Tick
  BY <1>6 DEF Tick, Passed, WindowOf
<1> QED
  BY <1>2, <1>3, <1>4, <1>5, <1>6 DEF RateNext

-----------------------------------------------------------------------------
\* The properties.

LEMMA WindowsStartEmpty ==
  ASSUME RateInit, NEW b \in Buckets
  PROVE  Seen(WindowOf(b)) /\ InTimeInv(WindowOf(b)) /\ LateInv(WindowOf(b))
<1>1. OfLog(log, b) = {} /\ AdmittedIn(log, b) = {} /\ OnTimeIn(log, b) = {}
  BY DEF RateInit, OfLog, AdmittedIn, OnTimeIn
<1>2. /\ Cardinality(OfLog(log, b)) = 0 /\ Cardinality(AdmittedIn(log, b)) = 0
      /\ Cardinality(OnTimeIn(log, b)) = 0 /\ count[b] = 0 /\ expires[b] = Never
  BY <1>1, FS_EmptySet DEF RateInit
<1> QED
  BY <1>2 DEF WindowOf, Seen, InTimeInv, LateInv, Early

WindowsTyped == \A b \in Buckets : WindowOf(b) \in WindowState

LEMMA WindowsTypedHold == RateSpec => [](Typed /\ WindowsTyped)
<1>1. Typed => WindowsTyped
  BY WindowIsTyped DEF WindowsTyped
<1> QED
  BY <1>1, TypedHolds, PTL

AllSeen == \A b \in Buckets : Seen(WindowOf(b))
AllInTime == \A b \in Buckets : InTimeInv(WindowOf(b))
AllLate == \A b \in Buckets : LateInv(WindowOf(b))

LEMMA AllSeenHolds == RateSpec => []AllSeen
<1>1. RateInit => AllSeen
  BY WindowsStartEmpty DEF AllSeen
<1>2. ASSUME Typed, WindowsTyped, WindowsTyped', AllSeen, [RateNext]_rateVars
      PROVE  AllSeen'
  <2>1. SUFFICES ASSUME NEW b \in Buckets PROVE Seen(WindowOf(b)')
    BY DEF AllSeen
  <2> DEFINE w == WindowOf(b)
             v == WindowOf(b)'
  <2>2. w \in WindowState /\ v \in WindowState /\ Seen(w)
    BY <1>2 DEF WindowsTyped, AllSeen
  <2>3. v = w \/ (\E admits \in BOOLEAN : Incremented(w, v, admits))
        \/ ExpirySet(w, v) \/ Passed(w, v)
    BY <1>2, WindowStep
  <2> HIDE DEF w, v
  <2>4. Seen(v)
    BY <2>2, <2>3, SeenKept
  <2> QED
    BY <2>4 DEF v
<1> QED
  BY <1>1, <1>2, WindowsTypedHold, PTL DEF RateSpec

LEMMA AllInTimeHolds == Window > 0 => (RateSpec => []AllInTime)
<1> SUFFICES ASSUME Window > 0 PROVE RateSpec => []AllInTime
  OBVIOUS
<1>1. RateInit => AllInTime
  BY WindowsStartEmpty DEF AllInTime
<1>2. ASSUME Typed, WindowsTyped, WindowsTyped', AllInTime, [RateNext]_rateVars
      PROVE  AllInTime'
  <2>1. SUFFICES ASSUME NEW b \in Buckets PROVE InTimeInv(WindowOf(b)')
    BY DEF AllInTime
  <2> DEFINE w == WindowOf(b)
             v == WindowOf(b)'
  <2>2. w \in WindowState /\ v \in WindowState /\ InTimeInv(w)
    BY <1>2 DEF WindowsTyped, AllInTime
  <2>3. v = w \/ (\E admits \in BOOLEAN : Incremented(w, v, admits))
        \/ ExpirySet(w, v) \/ Passed(w, v)
    BY <1>2, WindowStep
  <2> HIDE DEF w, v
  <2>4. InTimeInv(v)
    BY <2>2, <2>3, InTimeKept
  <2> QED
    BY <2>4 DEF v
<1> QED
  BY <1>1, <1>2, WindowsTypedHold, PTL DEF RateSpec

LEMMA AllLateHolds == Window > 0 /\ MaxDelay <= Window => (RateSpec => []AllLate)
<1> SUFFICES ASSUME Window > 0, MaxDelay <= Window PROVE RateSpec => []AllLate
  OBVIOUS
<1>1. RateInit => AllLate
  BY WindowsStartEmpty DEF AllLate
<1>2. ASSUME Typed, WindowsTyped, WindowsTyped', AllLate, [RateNext]_rateVars
      PROVE  AllLate'
  <2>1. SUFFICES ASSUME NEW b \in Buckets PROVE LateInv(WindowOf(b)')
    BY DEF AllLate
  <2> DEFINE w == WindowOf(b)
             v == WindowOf(b)'
  <2>2. w \in WindowState /\ v \in WindowState /\ LateInv(w)
    BY <1>2 DEF WindowsTyped, AllLate
  <2>3. \/ v = w
        \/ \E admits \in BOOLEAN : /\ Incremented(w, v, admits)
                                   /\ now < WindowEnd(b) + MaxDelay
        \/ ExpirySet(w, v) \/ Passed(w, v)
    BY <1>2, WindowStep
  <2>4. w.now = now /\ w.end = WindowEnd(b)
    BY DEF WindowOf
  <2> HIDE DEF w, v
  <2>5. now < WindowEnd(b) + MaxDelay => w.now < w.end + Window
    BY <2>2, <2>4 DEF WindowState
  <2>6. LateInv(v)
    BY <2>2, <2>3, <2>5, LateKept
  <2> QED
    BY <2>6 DEF v
<1> QED
  BY <1>1, <1>2, WindowsTypedHold, PTL DEF RateSpec

\* Whatever fails, is lost or repeated, a window admits no more requests in
\* time than its limit, and any stretch of its length no more than twice that:
\* INCR and EXPIRE may be apart, but no counter goes before its window.  A
\* window of 0 seconds has no such limit: EXPIRE 0 removes the counter.
THEOREM QuotasAreExact == Window > 0 => (RateSpec => []QuotaIsExact)
<1> SUFFICES ASSUME Window > 0 PROVE RateSpec => []QuotaIsExact
  OBVIOUS
<1>1. ASSUME Typed, AllInTime PROVE QuotaIsExact
  <2>0. log \in Seq(Entry) /\ Times \subseteq Nat
    BY <1>1, BucketsAreNumbers DEF Typed, TypeOK, Entry
  <2>1. \A b \in Buckets : Cardinality(OnTimeIn(log, b)) <= Limit
    BY <1>1 DEF AllInTime, InTimeInv, WindowOf
  <2>2. ASSUME NEW b
        PROVE  {i \in Admitted(b) : OnTime(i)} = OnTimeIn(log, b)
    BY Zenon DEF Admitted, AdmittedIn, Of, OfLog, OnTime, OnTimeIn
  <2>3. ASSUME NEW from \in Times
        PROVE  Cardinality({i \in DOMAIN log :
                              /\ log[i].verdict = "admitted" /\ OnTime(i)
                              /\ from <= log[i].at /\ log[i].at < from + Window}) <= 2 * Limit
    <3> DEFINE S == {i \in DOMAIN log :
                       /\ log[i].verdict = "admitted" /\ OnTime(i)
                       /\ from <= log[i].at /\ log[i].at < from + Window}
               In(b) == IF b \in Buckets THEN OnTimeIn(log, b) ELSE {}
               p == Bucket(from)
    <3>1. \A b : /\ IsFiniteSet(In(b)) /\ Cardinality(In(b)) \in Nat
                 /\ Cardinality(In(b)) <= Limit
      <4>1. \A b : OnTimeIn(log, b) \subseteq OfLog(log, b)
        BY DEF OnTimeIn, AdmittedIn
      <4> QED
        BY <2>0, <2>1, <4>1, OfLogIsFinite, FS_EmptySet
    <3>2. ASSUME NEW i \in S
          PROVE  i \in In(p) \/ i \in In(p + 1)
      <4>1. log[i].at \in Times
        <5>1. i \in DOMAIN log
          OBVIOUS
        <5> HIDE DEF S
        <5>2. log[i] \in Entry
          BY <2>0, <5>1
        <5> QED
          BY <5>2 DEF Entry
      <4>2. Bucket(log[i].at) = p \/ Bucket(log[i].at) = p + 1
        BY <2>0, <4>1, StretchMeetsTwo, LengthIsPositive
      <4>3. Bucket(log[i].at) \in Buckets
        BY <4>1, BucketsAreNumbers
      <4>4. i \in OnTimeIn(log, Bucket(log[i].at))
        BY DEF OnTime, OnTimeIn, AdmittedIn, OfLog
      <4> QED
        BY <4>2, <4>3, <4>4
    <3> HIDE DEF S, In, p
    <3>3. S \subseteq In(p) \cup In(p + 1)
      BY <3>2
    <3>4. /\ IsFiniteSet(In(p) \cup In(p + 1))
          /\ Cardinality(In(p) \cup In(p + 1))
               = Cardinality(In(p)) + Cardinality(In(p + 1))
                 - Cardinality(In(p) \cap In(p + 1))
      BY <3>1, FS_Union
    <3>5. Cardinality(In(p) \cap In(p + 1)) \in Nat
      BY <3>1, FS_Subset, FS_CardinalityType
    <3>6. Cardinality(S) \in Nat /\ Cardinality(S) <= Cardinality(In(p) \cup In(p + 1))
      BY <3>3, <3>4, FS_Subset, FS_CardinalityType
    <3>7. Cardinality(S) <= 2 * Limit
      BY <3>1, <3>4, <3>5, <3>6
    <3> QED
      BY <3>7 DEF S
  <2> QED
    BY <2>1, <2>2, <2>3 DEF QuotaIsExact
<1> QED
  BY <1>1, TypedHolds, AllInTimeHolds, PTL

\* Requests counted after their window at most double what it admits, for any
\* number of threads, if a request is counted within a window's length of
\* reading the clock.
THEOREM LateOnesAreFew ==
  Window > 0 /\ MaxDelay <= Window => (RateSpec => []LateOnesAreBounded)
<1> SUFFICES ASSUME Window > 0, MaxDelay <= Window PROVE RateSpec => []LateOnesAreBounded
  OBVIOUS
<1>1. AllLate => LateOnesAreBounded
  BY Zenon DEF AllLate, LateInv, LateOnesAreBounded, WindowOf, Admitted, AdmittedIn, Of, OfLog
<1> QED
  BY <1>1, AllLateHolds, PTL

EarlierIn(l, i) == {j \in OfLog(l, Bucket(l[i].at)) : j < i}

EarnedIn(l) ==
    \A i \in DOMAIN l : l[i].verdict = "refused" => Cardinality(EarlierIn(l, i)) >= Limit

\* Nobody is refused for what another window counted or because Redis failed,
\* for any limit and window.
THEOREM RefusalsFollowTheQuota == RateSpec => []RefusalsAreEarned
<1>0. /\ RefusalsAreEarned <=> EarnedIn(log)
      /\ RefusalsAreEarned' <=> EarnedIn(log')
  BY DEF RefusalsAreEarned, Of, OfLog, EarnedIn, EarlierIn
<1>1. RateInit => RefusalsAreEarned
  BY <1>0 DEF RateInit, EarnedIn
<1>2. ASSUME Typed, AllSeen, RefusalsAreEarned, [RateNext]_rateVars
      PROVE  RefusalsAreEarned'
  <2>0. EarnedIn(log)
    BY <1>0, <1>2
  <2>1. CASE log' = log
    BY <1>0, <2>0, <2>1
  <2>2. ASSUME NEW t \in Threads, Incr(t) \/ IncrUnheard(t)
        PROVE  EarnedIn(log')
    <3>1. PICK v \in Verdicts :
             Hits(t, v) /\ (v = "refused" => Exceeds(Counted(Bucket(web[t].at))))
      BY <1>2, <2>2, IncrsHit DEF Typed
    <3> DEFINE e == [at |-> web[t].at, counted |-> now, verdict |-> v]
               b == Bucket(web[t].at)
    <3>2. /\ e \in Entry /\ log \in Seq(Entry) /\ log' = Append(log, e) /\ b \in Buckets
      BY <1>2, <3>1, HitIsTyped
    <3>3. e.at = web[t].at /\ e.verdict = v
      OBVIOUS
    <3> HIDE DEF e, b
    <3>4. ASSUME NEW i \in DOMAIN log
          PROVE  log'[i] = log[i] /\ EarlierIn(log', i) = EarlierIn(log, i)
      <4>1. i \in 1..Len(log) /\ Len(log) \in Nat /\ log'[i] = log[i]
        BY <3>2
      <4>2. \A c : OfLog(log', c) \in {OfLog(log, c), OfLog(log, c) \cup {Len(log) + 1}}
        BY <3>2, LogGrows
      <4> QED
        BY <4>1, <4>2 DEF EarlierIn
    <3>5. ASSUME v = "refused"
          PROVE  Cardinality(EarlierIn(log', Len(log) + 1)) >= Limit
      <4>1. log'[Len(log) + 1] = e /\ Len(log) \in Nat
        BY <3>2
      <4>2. Bucket(e.at) = b
        BY <3>3 DEF b
      <4>3. OfLog(log', b) = OfLog(log, b) \cup {Len(log) + 1}
        BY <3>2, <4>2, LogGrows
      <4>4. \A j \in OfLog(log, b) : j < Len(log) + 1
        BY <3>2 DEF OfLog
      <4>5. EarlierIn(log', Len(log) + 1) = OfLog(log, b)
        BY <4>1, <4>2, <4>3, <4>4 DEF EarlierIn
      <4>6. count[b] \in Nat /\ count[b] <= Cardinality(OfLog(log, b))
        BY <1>2, <3>2 DEF AllSeen, Seen, WindowOf, Typed, TypeOK
      <4>7. Cardinality(OfLog(log, b)) \in Nat
        BY <3>2, OfLogIsFinite
      <4>8. Counted(b) > Limit
        BY <3>1, <3>5 DEF b, Exceeds
      <4>9. count[b] >= Limit
        BY <4>6, <4>7, <4>8 DEF Counted
      <4> QED
        BY <4>5, <4>6, <4>7, <4>9
    <3>6. \A i \in DOMAIN log' : i \in DOMAIN log \/ (i = Len(log) + 1 /\ log'[i] = e)
      BY <3>2
    <3> QED
      BY <2>0, <3>3, <3>4, <3>5, <3>6 DEF EarnedIn
  <2> QED
    BY <1>0, <1>2, <2>1, <2>2 DEF RateNext, rateVars, Arrive, Fails, Expire, Tick
<1> QED
  BY <1>1, <1>2, TypedHolds, AllSeenHolds, PTL DEF RateSpec
=============================================================================
