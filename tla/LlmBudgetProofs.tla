--------------------------- MODULE LlmBudgetProofs ---------------------------
(* How long a generation run may last, and how much of its budget it has   *)
(* used when it gives an operation up, for any settings.                   *)
EXTENDS LlmBudget, WellFoundedInduction, TLAPS

\* The longest a call may still take: the requests not yet sent, and a pause
\* before each but the next.
Left(limit, n) ==
  (SdkRetries + 1 - n) * (SetupTime + limit)
    + (SdkRetries - n) * SdkSleep

\* What the run still may need, depending on where it is.
InTime ==
  /\ now \in Nat /\ attempt \in Nat /\ pause \in Nat /\ read \in Nat
  /\ sent \in Nat /\ sent <= SdkRetries
  /\ pc # "request" => sent = 0
  /\ now <= Budget + Overrun
  /\ pc = "request" => now + Left(read, sent) <= Budget + Overrun
  /\ pc = "backoff" => now + pause <= Budget

LEMMA Product ==
  ASSUME NEW a \in Nat, NEW b \in Nat, NEW c \in Nat, b <= c
  PROVE  a * b \in Nat /\ a * b <= a * c
  OBVIOUS

LEMMA NotAbove ==
  ASSUME NEW a \in Nat, NEW b \in Nat, NEW c \in Nat, ~(c <= a + b)
  PROVE  a + b <= c
  OBVIOUS

LEMMA OverrunType == Overrun \in Nat /\ Lag \in Nat /\ Lag <= Overrun
  <1>1. (SdkRetries + 1) * SetupTime \in Nat
    BY NumbersAssumption
  <1>2. SdkRetries * (LongestRead + SdkSleep) \in Nat
    BY NumbersAssumption DEF LongestRead, Larger
  <1> DEFINE a == (SdkRetries + 1) * SetupTime
             b == SdkRetries * (LongestRead + SdkSleep)
  <1>3. Overrun = a + b + MinRead + Lag
    BY DEF Overrun
  <1>4. MinRead \in Nat /\ Lag \in Nat
    BY NumbersAssumption
  <1> HIDE DEF a, b
  <1> QED BY <1>1, <1>2, <1>3, <1>4 DEF a, b

\* A call that starts before the deadline ends in time, because its read
\* timeout is clamped.
LEMMA CallFits ==
  ASSUME InTime, Remaining > 0
  PROVE  ReadLimit \in Nat /\ now + Left(ReadLimit, 0) <= Budget + Overrun
  <1> DEFINE S == SdkRetries
             C == SetupTime
             R == LongestRead
             P == SdkSleep
             M == MinRead
             G == Lag
             L == ReadLimit
             r == Remaining
  <1>1. /\ S \in Nat /\ C \in Nat /\ R \in Nat /\ P \in Nat /\ M \in Nat
        /\ G \in Nat /\ M <= R /\ Budget \in Nat /\ now \in Nat
    BY NumbersAssumption DEF InTime, LongestRead, Larger
  <1>2. r \in Nat /\ r > 0 /\ now = Budget - r
    BY <1>1 DEF Remaining
  <1>3. L \in Nat /\ L <= R /\ (L = M \/ L <= r)
    BY <1>1, <1>2, NumbersAssumption DEF ReadLimit, LongestRead, Larger, Smaller
  <1>4. Left(L, 0) = (S + 1) * (C + L) + S * P
    BY <1>1 DEF Left
  <1>5. Overrun = (S + 1) * C + S * (R + P) + M + G
    BY DEF Overrun
  <1> HIDE DEF S, C, R, P, M, G, L, r
  <1>6. S * L \in Nat /\ S * L <= S * R
    BY <1>1, <1>3, Product
  <1>7. (S + 1) * (C + L) = (S + 1) * C + S * L + L
    BY <1>1, <1>3
  <1>8. S * (R + P) = S * R + S * P
    BY <1>1
  <1>9. (S + 1) * C \in Nat /\ S * P \in Nat /\ S * R \in Nat
    BY <1>1
  <1>10. L - r <= M
    BY <1>1, <1>2, <1>3
  <1> DEFINE SC == (S + 1) * C
             SL == S * L
             SP == S * P
             SR == S * R
  <1>11. /\ Left(L, 0) = SC + SL + L + SP
         /\ Overrun = SC + SR + SP + M + G
    <2>1. Left(L, 0) = SC + SL + L + SP
      BY <1>4, <1>7
    <2>2. Overrun = SC + (SR + SP) + M + G
      BY <1>5, <1>8
    <2> QED BY <1>1, <1>9, <2>1, <2>2
  <1>12. /\ SC \in Nat /\ SL \in Nat /\ SP \in Nat /\ SR \in Nat
         /\ SL <= SR
    BY <1>6, <1>9
  <1> HIDE DEF SC, SL, SP, SR
  <1>13. now + (SC + SL + L + SP) <= Budget + (SC + SR + SP + M + G)
    BY <1>1, <1>2, <1>3, <1>10, <1>12
  <1>14. now + Left(L, 0) <= Budget + Overrun
    BY <1>11, <1>13
  <1> QED BY <1>3, <1>14 DEF L

\* One request of a call, with the pause after it.
LEMMA RequestFits ==
  ASSUME InTime, pc = "request", NEW d \in Durations, NEW s \in 0..SdkSleep
  PROVE  /\ now + d \in Nat /\ now + d <= Budget + Overrun
         /\ sent < SdkRetries =>
              /\ now + d + s \in Nat /\ now + d + s <= Budget + Overrun
              /\ now + d + s + Left(read, sent + 1) <= Budget + Overrun
  <1> DEFINE D == SetupTime + read
             P == SdkSleep
             k == SdkRetries - sent
             End == Budget + Overrun
  <1>1. /\ D \in Nat /\ P \in Nat /\ k \in Nat /\ End \in Nat
        /\ now \in Nat /\ d \in Nat /\ d <= D /\ s \in Nat /\ s <= P
    BY NumbersAssumption, OverrunType DEF InTime, Durations
  <1>2. Left(read, sent) = (k + 1) * D + k * P
    BY NumbersAssumption DEF Left, InTime
  <1>3. sent < SdkRetries => Left(read, sent + 1) = k * D + (k - 1) * P /\ k >= 1
    BY NumbersAssumption DEF Left, InTime
  <1>4. now + Left(read, sent) <= End
    BY DEF InTime
  <1> HIDE DEF D, P, k, End
  <1>5. k * D \in Nat /\ k * P \in Nat /\ (k + 1) * D = k * D + D
    BY <1>1
  <1>6. now + (k * D + D + k * P) <= End
    BY <1>2, <1>4, <1>5
  <1>7. now + d \in Nat /\ now + d <= End
    BY <1>1, <1>5, <1>6
  <1>8. ASSUME sent < SdkRetries
        PROVE  /\ now + d + s \in Nat /\ now + d + s <= End
               /\ now + d + s + Left(read, sent + 1) <= End
    <2>1. (k - 1) * P \in Nat /\ k * P = (k - 1) * P + P
      BY <1>1, <1>3, <1>8
    <2> DEFINE kD == k * D
               kP == (k - 1) * P
    <2>2. kD \in Nat /\ kP \in Nat /\ Left(read, sent + 1) = kD + kP
      BY <1>3, <1>5, <1>8, <2>1
    <2>3. now + (kD + D + (kP + P)) <= End
      BY <1>6, <2>1
    <2> HIDE DEF kD, kP
    <2> QED BY <1>1, <2>2, <2>3
  <1> QED BY <1>7, <1>8 DEF End

\* Whatever a call leads to, an operation disposed of leaves the run between
\* calls.
LEMMA Disposed ==
  ASSUME InTime, NEW result, Dispose(result), now' \in Nat,
         now' <= Budget + Overrun
  PROVE  InTime'
  BY NumbersAssumption DEF InTime, Dispose, Overrun

LEMMA InTimeInit == Init => InTime
  BY NumbersAssumption, OverrunType DEF Init, InTime

LEMMA InTimeStep ==
  ASSUME InTime, [Next]_vars
  PROVE  InTime'
  <1>0. ASSUME NEW t \in Nat, t <= Budget, NEW lag \in 0..Lag
        PROVE  t + lag \in Nat /\ t + lag <= Budget + Overrun
    <2> DEFINE o == Overrun
    <2>1. Lag \in Nat /\ Budget \in Nat /\ o \in Nat /\ Lag <= o
      BY NumbersAssumption, OverrunType
    <2>2. lag \in Nat /\ lag <= Lag
      BY <2>1
    <2> HIDE DEF o
    <2>3. t + lag <= Budget + o
      BY <1>0, <2>1, <2>2
    <2> QED BY <1>0, <2>2, <2>3 DEF o
  <1>1. CASE NextOp
    <2>1. PICK lag \in 0..Lag :
            /\ pc = "loop" /\ pc' = "call" /\ now < Budget /\ now' = now + lag
            /\ UNCHANGED <<attempt, pause, read, sent>>
      BY <1>1 DEF NextOp
    <2>2. now \in Nat /\ now <= Budget
      BY <2>1, NumbersAssumption DEF InTime
    <2>3. now' \in Nat /\ now' <= Budget + Overrun
      BY <1>0, <2>1, <2>2
    <2> QED BY <2>1, <2>3 DEF InTime, Overrun
  <1>2. CASE Block
    <2>1. PICK lag \in 0..Lag : now < Budget /\ now' = now + lag
      BY <1>2 DEF Block
    <2>2. now \in Nat /\ now <= Budget
      BY <2>1, NumbersAssumption DEF InTime
    <2>3. now' \in Nat /\ now' <= Budget + Overrun
      BY <1>0, <2>1, <2>2
    <2> QED BY <1>2, <2>3, Disposed DEF Block
  <1>3. CASE TimedOut \/ Finish
    BY <1>3 DEF TimedOut, Finish, InTime, Overrun
  <1>4. CASE Call
    <2>1. CASE Remaining <= 0
      BY <1>4, <2>1, Disposed DEF Call, InTime
    <2>2. CASE ~(Remaining <= 0)
      <3>1. Remaining > 0
        BY <2>2, NumbersAssumption DEF Remaining, InTime
      <3>2. ReadLimit \in Nat /\ now + Left(ReadLimit, 0) <= Budget + Overrun
        BY <3>1, CallFits
      <3>3. /\ pc = "call" /\ pc' = "request" /\ attempt' = attempt + 1
            /\ pause' = (IF attempt = 0 THEN Backoff ELSE 3 * pause)
            /\ read' = ReadLimit /\ sent' = sent /\ now' = now
        BY <1>4, <2>2 DEF Call
      <3>4. sent = 0
        BY <3>3 DEF InTime
      <3>5. pause' \in Nat /\ attempt' \in Nat
        BY <3>3, NumbersAssumption DEF InTime
      <3> QED BY <3>2, <3>3, <3>4, <3>5 DEF InTime, Left, Overrun
    <2> QED BY <2>1, <2>2
  <1>5. CASE Sleep
    <2>1. PICK lag \in 0..Lag :
            /\ pc = "backoff" /\ pc' = "call" /\ now' = now + pause + lag
            /\ UNCHANGED <<attempt, pause, read, sent>>
      BY <1>5 DEF Sleep
    <2>2. now + pause \in Nat /\ now + pause <= Budget
      BY <2>1 DEF InTime
    <2>3. now' \in Nat /\ now' <= Budget + Overrun
      BY <1>0, <2>1, <2>2
    <2> QED BY <2>1, <2>3 DEF InTime, Overrun
  <1>6. CASE Answer
    <2>1. PICK d \in Durations : pc = "request" /\ now' = now + d
      BY <1>6 DEF Answer
    <2>2. 0 \in 0..SdkSleep
      BY NumbersAssumption
    <2>3. now' \in Nat /\ now' <= Budget + Overrun
      BY <2>1, <2>2, RequestFits
    <2> QED BY <1>6, <2>3, Disposed DEF Answer
  <1>7. CASE SdkRetry
    <2>1. PICK d \in Durations, s \in 0..SdkSleep :
            /\ pc = "request" /\ sent < SdkRetries /\ sent' = sent + 1
            /\ now' = now + d + s /\ UNCHANGED <<pc, attempt, pause, read>>
      BY <1>7 DEF SdkRetry
    <2>2. /\ now' \in Nat /\ now' <= Budget + Overrun
          /\ now' + Left(read, sent + 1) <= Budget + Overrun
      BY <2>1, RequestFits
    <2>3. sent' \in Nat /\ sent' <= SdkRetries
      BY <2>1, NumbersAssumption DEF InTime
    <2> QED BY <2>1, <2>2, <2>3 DEF InTime, Left, Overrun
  <1>8. CASE CallFails
    <2>1. PICK d \in Durations :
            pc = "request" /\ now' = now + d /\ AfterFailure(now + d)
      BY <1>8 DEF CallFails
    <2>2. 0 \in 0..SdkSleep
      BY NumbersAssumption
    <2>3. now' \in Nat /\ now' <= Budget + Overrun
      BY <2>1, <2>2, RequestFits
    <2>4. CASE \E result \in {"exhausted", "deadline"} : Dispose(result)
      BY <2>3, <2>4, Disposed
    <2>5. CASE /\ ~PauseTooLong(now + d)
               /\ pc' = "backoff" /\ read' = 0 /\ sent' = 0
               /\ attempt' = attempt /\ pause' = pause
      <3>1. pause \in Nat /\ Budget \in Nat /\ now' \in Nat
        BY <2>3, NumbersAssumption DEF InTime
      <3>2. ~(Budget <= now' + pause)
        BY <2>1, <2>5 DEF PauseTooLong
      <3>3. now' + pause <= Budget
        BY <3>1, <3>2, NotAbove
      <3>4. now' + pause' <= Budget
        BY <2>5, <3>3
      <3>5. /\ attempt' \in Nat /\ pause' \in Nat /\ read' = 0 /\ sent' = 0
            /\ 0 <= SdkRetries /\ 0 \in Nat
        BY <2>5, NumbersAssumption DEF InTime
      <3> QED BY <2>3, <2>5, <3>4, <3>5 DEF InTime, Overrun
    <2> QED BY <2>1, <2>4, <2>5 DEF AfterFailure
  <1>9. CASE UNCHANGED vars
    BY <1>9 DEF vars, InTime, Left, Overrun
  <1> QED BY <1>1, <1>2, <1>3, <1>4, <1>5, <1>6, <1>7, <1>8, <1>9 DEF Next

\* For any settings, any number of operations and any failures, a run is over
\* within Overrun of its budget.
THEOREM RunsEndNearTheBudget == Spec => []EndsNearTheBudget
  <1>1. InTime => EndsNearTheBudget
    BY DEF InTime, EndsNearTheBudget
  <1> QED BY <1>1, InTimeInit, InTimeStep, PTL DEF Spec

-----------------------------------------------------------------------------
(* The pauses between the calls                                              *)

LEMMA LeastNumber ==
  ASSUME NEW T, T \subseteq Nat, T # {}
  PROVE  \E x \in T : \A y \in T : x <= y
  <1>1. PICK x \in T : \A y \in T : <<y, x>> \notin OpToRel(<, Nat)
    BY NatLessThanWellFounded, WFMin
  <1>2. ASSUME NEW y \in T
        PROVE  x <= y
    <2>1. x \in Nat /\ y \in Nat /\ ~(y < x)
      BY <1>1 DEF OpToRel
    <2> QED BY <2>1
  <1> QED BY <1>2

\* f holds the first n pauses.
Pauses(f, n) ==
  /\ f \in [1..n -> Nat]
  /\ \A k \in 1..n : f[k] = IF k = 1 THEN Backoff ELSE 3 * f[k - 1]

LEMMA PausesExist == \A n \in Nat : \E f : Pauses(f, n)
  <1> DEFINE Missing == {n \in Nat : ~\E f : Pauses(f, n)}
  <1> SUFFICES ASSUME Missing # {}
               PROVE  FALSE
    OBVIOUS
  <1>1. PICK n \in Missing : \A m \in Missing : n <= m
    <2>1. Missing \subseteq Nat
      OBVIOUS
    <2> HIDE DEF Missing
    <2> QED BY <2>1, LeastNumber
  <1>2. n \in Nat /\ ~\E f : Pauses(f, n)
    OBVIOUS
  <1>3. CASE n = 0
    <2>1. Pauses([k \in 1..n |-> Backoff], n)
      BY <1>3 DEF Pauses
    <2> QED BY <1>2, <2>1
  <1>4. CASE n # 0
    <2>1. n - 1 \in Nat /\ ~(n <= n - 1)
      BY <1>2, <1>4
    <2>2. PICK f : Pauses(f, n - 1)
      BY <1>1, <2>1
    <2> DEFINE g == [k \in 1..n |-> IF k < n THEN f[k]
                                    ELSE IF n = 1 THEN Backoff ELSE 3 * f[n - 1]]
    <2>3. Backoff \in Nat /\ \A k \in 1..(n - 1) : f[k] \in Nat
      BY <2>2, NumbersAssumption DEF Pauses
    <2>4. ASSUME NEW k \in 1..n
          PROVE  g[k] \in Nat /\ g[k] = IF k = 1 THEN Backoff ELSE 3 * g[k - 1]
      <3>1. CASE k < n
        <4>1. k \in 1..(n - 1) /\ (k # 1 => k - 1 \in 1..n /\ k - 1 < n)
          BY <1>2, <3>1
        <4>2. g[k] = f[k] /\ (k # 1 => g[k - 1] = f[k - 1])
          BY <3>1, <4>1
        <4>3. f[k] \in Nat /\ f[k] = IF k = 1 THEN Backoff ELSE 3 * f[k - 1]
          BY <2>2, <2>3, <4>1 DEF Pauses
        <4> HIDE DEF g
        <4> QED BY <4>2, <4>3
      <3>2. CASE k = n
        <4>1. n # 1 => n - 1 \in 1..(n - 1) /\ n - 1 \in 1..n /\ n - 1 < n
          BY <1>2, <1>4
        <4>2. /\ g[n] = IF n = 1 THEN Backoff ELSE 3 * f[n - 1]
              /\ n # 1 => g[n - 1] = f[n - 1]
          BY <1>2, <3>2, <4>1
        <4>3. n # 1 => f[n - 1] \in Nat
          BY <2>3, <4>1
        <4> HIDE DEF g
        <4>4. n # 1 => 3 * f[n - 1] \in Nat
          BY <4>3
        <4> QED BY <2>3, <3>2, <4>2, <4>4
      <3> QED BY <1>2, <3>1, <3>2
    <2>5. Pauses(g, n)
      <3> DEFINE h == [k \in 1..n |-> g[k]]
      <3>1. g = h
        OBVIOUS
      <3> HIDE DEF g
      <3>2. h \in [1..n -> Nat]
        BY <2>4
      <3> QED BY <2>4, <3>1, <3>2 DEF Pauses
    <2> QED BY <1>2, <2>5
  <1> QED BY <1>3, <1>4

LEMMA PauseAfterIs == Pauses(PauseAfter, MaxRetries)
  <1> DEFINE F(f) == [n \in 1..MaxRetries |->
                        IF n = 1 THEN Backoff ELSE 3 * f[n - 1]]
  <1>1. PICK f : Pauses(f, MaxRetries)
    BY PausesExist, NumbersAssumption
  <1>2. f = F(f)
    BY <1>1 DEF Pauses
  <1>3. PauseAfter = CHOOSE g : g = F(g)
    BY DEF PauseAfter
  <1>4. PauseAfter = F(PauseAfter)
    BY <1>2, <1>3
  <1>5. ASSUME NEW k \in 1..MaxRetries
        PROVE  PauseAfter[k] = IF k = 1 THEN Backoff ELSE 3 * PauseAfter[k - 1]
    <2>1. F(PauseAfter)[k] = IF k = 1 THEN Backoff ELSE 3 * PauseAfter[k - 1]
      OBVIOUS
    <2> HIDE DEF F
    <2> QED BY <1>4, <2>1
  <1>6. \A k \in 1..MaxRetries : PauseAfter[k] \in Nat
    <2> DEFINE Bad == {k \in 1..MaxRetries : PauseAfter[k] \notin Nat}
    <2> SUFFICES ASSUME Bad # {}
                 PROVE  FALSE
      OBVIOUS
    <2>1. PICK k \in Bad : \A j \in Bad : k <= j
      <3>1. Bad \subseteq Nat
        BY NumbersAssumption
      <3> HIDE DEF Bad
      <3> QED BY <3>1, LeastNumber
    <2>2. CASE k = 1
      BY <1>5, <2>2, NumbersAssumption
    <2>3. CASE k # 1
      <3>1. k - 1 \in 1..MaxRetries /\ ~(k <= k - 1)
        BY <2>3, NumbersAssumption
      <3>2. PauseAfter[k - 1] \in Nat
        BY <2>1, <3>1
      <3>3. PauseAfter[k] = 3 * PauseAfter[k - 1]
        BY <1>5, <2>3
      <3> QED BY <3>2, <3>3
    <2> QED BY <2>2, <2>3
  <1>7. PauseAfter \in [1..MaxRetries -> Nat]
    <2>1. PauseAfter = [k \in 1..MaxRetries |-> PauseAfter[k]]
      <3>1. \A x : F(x) = [k \in 1..MaxRetries |-> F(x)[k]]
        OBVIOUS
      <3> HIDE DEF F
      <3> QED BY <1>4, <3>1
    <2> QED BY <1>6, <2>1
  <1> QED BY <1>5, <1>7 DEF Pauses

\* The last pause is the longest.
LEMMA PausesGrow ==
  \A k \in 1..MaxRetries : PauseAfter[k] \in Nat /\ PauseAfter[k] <= LongestPause
  <1> DEFINE last == PauseAfter[MaxRetries]
             Over == {j \in Nat : /\ j < MaxRetries
                                  /\ ~(PauseAfter[MaxRetries - j] <= last)}
  <1>1. \A k \in 1..MaxRetries : PauseAfter[k] \in Nat
    BY PauseAfterIs DEF Pauses
  <1>2. Over = {}
    <2> SUFFICES ASSUME Over # {}
                 PROVE  FALSE
      OBVIOUS
    <2>1. PICK j \in Over : \A i \in Over : j <= i
      <3>1. Over \subseteq Nat
        OBVIOUS
      <3> HIDE DEF Over
      <3> QED BY <3>1, LeastNumber
    <2>2. j \in Nat /\ j < MaxRetries /\ MaxRetries \in Nat
      BY NumbersAssumption
    <2>3. CASE j = 0
      <3>1. MaxRetries - j = MaxRetries /\ MaxRetries \in 1..MaxRetries
        BY <2>2, <2>3
      <3>2. last \in Nat
        BY <1>1, <3>1
      <3> QED BY <3>1, <3>2
    <2>4. CASE j # 0
      <3> DEFINE k == MaxRetries - j
      <3>1. /\ k \in 1..MaxRetries /\ k + 1 \in 1..MaxRetries /\ k + 1 # 1
            /\ (k + 1) - 1 = k /\ k + 1 = MaxRetries - (j - 1)
            /\ j - 1 \in Nat /\ j - 1 < MaxRetries /\ ~(j <= j - 1)
            /\ MaxRetries \in 1..MaxRetries
        BY <2>2, <2>4
      <3>2. PauseAfter[k + 1] <= last
        BY <2>1, <3>1
      <3> HIDE DEF k
      <3>3. PauseAfter[k + 1] = 3 * PauseAfter[k]
        BY <3>1, PauseAfterIs DEF Pauses
      <3>4. PauseAfter[k] \in Nat /\ last \in Nat
        BY <1>1, <3>1
      <3> HIDE DEF last
      <3>5. PauseAfter[k] <= last
        BY <3>2, <3>3, <3>4
      <3> QED BY <3>5 DEF k, last
    <2> QED BY <2>3, <2>4
  <1>3. ASSUME NEW k \in 1..MaxRetries
        PROVE  PauseAfter[k] <= LongestPause
    <2>1. /\ MaxRetries - k \in Nat /\ MaxRetries - k < MaxRetries
          /\ MaxRetries - (MaxRetries - k) = k /\ MaxRetries # 0
      BY NumbersAssumption
    <2>2. PauseAfter[k] <= last
      BY <1>2, <2>1
    <2> QED BY <2>1, <2>2 DEF LongestPause
  <1> QED BY <1>1, <1>3

LEMMA LongestPauseType == LongestPause \in Nat
  <1>1. MaxRetries # 0 => MaxRetries \in 1..MaxRetries
    BY NumbersAssumption
  <1> QED BY <1>1, PausesGrow DEF LongestPause

-----------------------------------------------------------------------------
(* Operations given up for the budget                                        *)

\* The pause of a call that may be repeated is the one that follows as many
\* failures, and an operation was given up only when that pause did not fit.
PausesFollow ==
  /\ ops \in Nat
  /\ pc = "request" => attempt # 0
  /\ attempt # 0 /\ attempt <= MaxRetries => pause = PauseAfter[attempt]

LEMMA Longer ==
  ASSUME NEW t \in Nat, NEW p \in Nat, NEW q \in Nat, NEW end \in Nat,
         p <= q, end <= t + p
  PROVE  t + q >= end
  OBVIOUS

LEMMA Later ==
  ASSUME NEW t \in Nat, NEW u \in Nat, NEW p \in Nat, NEW end \in Nat,
         t <= u, t + p >= end
  PROVE  u + p >= end
  OBVIOUS

LEMMA Sooner ==
  ASSUME InTime, now' \in Nat, now <= now', now + LongestPause >= Budget
  PROVE  now' + LongestPause >= Budget
  <1> DEFINE p == LongestPause
  <1>1. now \in Nat /\ p \in Nat /\ Budget \in Nat
    BY LongestPauseType, NumbersAssumption DEF InTime
  <1>2. now + p >= Budget
    OBVIOUS
  <1> HIDE DEF p
  <1>3. now' + p >= Budget
    BY <1>1, <1>2, Later
  <1> QED BY <1>3 DEF p

\* What a step that disposes of an operation does to the results.
LEMMA Given ==
  ASSUME InTime, PausesFollow, GivenUpForTheBudget, NEW result, Dispose(result),
         now' \in Nat, now <= now',
         result = "deadline" => now' + LongestPause >= Budget
  PROVE  PausesFollow' /\ GivenUpForTheBudget'
  <1>1. PausesFollow'
    BY DEF PausesFollow, Dispose
  <1>2. ASSUME NEW op \in 1..ops', results'[op] = "deadline"
        PROVE  now' + LongestPause >= Budget
    <2>1. /\ ops' = ops + 1 /\ ops \in Nat
          /\ results' = [o \in 1..(ops + 1) |-> IF o > ops THEN result ELSE results[o]]
      BY DEF Dispose, PausesFollow
    <2>2. results'[op] = IF op > ops THEN result ELSE results[op]
      BY <2>1
    <2>3. CASE op > ops
      BY <1>2, <2>2, <2>3
    <2>4. CASE ~(op > ops)
      <3>1. op \in 1..ops /\ results[op] = "deadline"
        BY <1>2, <2>1, <2>2, <2>4
      <3>2. now + LongestPause >= Budget
        BY <3>1 DEF GivenUpForTheBudget
      <3> QED BY <3>2, Sooner
    <2> QED BY <2>3, <2>4
  <1> QED BY <1>1, <1>2 DEF GivenUpForTheBudget

\* Time that passes without an operation being disposed of changes nothing.
LEMMA Waited ==
  ASSUME InTime, PausesFollow, GivenUpForTheBudget,
         now' \in Nat, now <= now', UNCHANGED <<ops, results>>
  PROVE  GivenUpForTheBudget'
  <1>1. now + LongestPause >= Budget => now' + LongestPause >= Budget
    BY Sooner
  <1> QED BY <1>1 DEF GivenUpForTheBudget

LEMMA GivenUpStep ==
  ASSUME InTime, InTime', PausesFollow, GivenUpForTheBudget, [Next]_vars
  PROVE  PausesFollow' /\ GivenUpForTheBudget'
  <1>1. now \in Nat /\ now' \in Nat /\ attempt \in Nat /\ pause \in Nat
    BY DEF InTime
  <1>2. now <= now'
    <2>1. \A d \in Durations : d \in Nat
      BY NumbersAssumption DEF Durations, InTime
    <2>2. /\ \A lag \in 0..Lag : lag \in Nat
          /\ \A s \in 0..SdkSleep : s \in Nat
      BY NumbersAssumption
    <2>3. \/ now' = now
          \/ \E d \in Nat : now' = now + d
          \/ \E d, e \in Nat : now' = now + d + e
      BY <1>1, <2>1, <2>2 DEF Next, vars, NextOp, Block, TimedOut, Finish, Call, Sleep,
         Answer, SdkRetry, CallFails
    <2> QED BY <1>1, <2>3
  <1>3. ASSUME UNCHANGED <<ops, results>>, PausesFollow'
        PROVE  PausesFollow' /\ GivenUpForTheBudget'
    BY <1>1, <1>2, <1>3, Waited
  <1>4. ASSUME NEW result, Dispose(result),
               result = "deadline" => now' + LongestPause >= Budget
        PROVE  PausesFollow' /\ GivenUpForTheBudget'
    BY <1>1, <1>2, <1>4, Given
  <1>5. CASE NextOp \/ TimedOut \/ Finish \/ Sleep
    <2>1. UNCHANGED <<ops, results, attempt, pause>> /\ pc' # "request"
      BY <1>5 DEF NextOp, TimedOut, Finish, Sleep
    <2> QED BY <1>3, <2>1 DEF PausesFollow
  <1>6. CASE Block
    BY <1>4, <1>6 DEF Block
  <1>7. CASE Call
    <2>1. CASE Remaining <= 0
      <3>1. Dispose("deadline") /\ now' = now
        BY <1>7, <2>1 DEF Call
      <3>2. Budget \in Nat /\ LongestPause \in Nat /\ Budget - now <= 0
        BY <2>1, NumbersAssumption, LongestPauseType DEF Remaining
      <3>3. now' + LongestPause >= Budget
        BY <1>1, <3>1, <3>2
      <3> QED BY <1>4, <3>1, <3>3
    <2>2. CASE ~(Remaining <= 0)
      <3>1. /\ attempt' = attempt + 1 /\ ops' = ops /\ results' = results
            /\ pause' = IF attempt = 0 THEN Backoff ELSE 3 * pause
        BY <1>7, <2>2 DEF Call
      <3>2. attempt' # 0
        BY <1>1, <3>1
      <3>3. ASSUME attempt' <= MaxRetries
            PROVE  pause' = PauseAfter[attempt']
        <4>1. attempt' \in 1..MaxRetries /\ attempt' - 1 = attempt
                /\ attempt <= MaxRetries /\ (attempt = 0 <=> attempt' = 1)
          BY <1>1, <3>1, <3>3, NumbersAssumption
        <4>2. PauseAfter[attempt']
                = IF attempt' = 1 THEN Backoff ELSE 3 * PauseAfter[attempt]
          BY <4>1, PauseAfterIs DEF Pauses
        <4>3. attempt # 0 => pause = PauseAfter[attempt]
          BY <4>1 DEF PausesFollow
        <4> QED BY <3>1, <4>1, <4>2, <4>3
      <3>4. PausesFollow'
        BY <3>1, <3>2, <3>3 DEF PausesFollow
      <3> QED BY <1>3, <3>1, <3>4
    <2> QED BY <2>1, <2>2
  <1>8. CASE Answer
    <2>1. PICK result \in {"drafted", "invalid", "refused"} : Dispose(result)
      BY <1>8 DEF Answer
    <2> QED BY <1>4, <2>1
  <1>9. CASE SdkRetry
    <2>1. UNCHANGED <<ops, results, attempt, pause, pc>>
      BY <1>9 DEF SdkRetry
    <2> QED BY <1>3, <2>1 DEF PausesFollow
  <1>10. CASE CallFails
    <2>1. pc = "request" /\ AfterFailure(now')
      BY <1>10 DEF CallFails
    <2>2. CASE Dispose("exhausted")
      BY <1>4, <2>2
    <2>3. CASE ~Exhausted /\ PauseTooLong(now') /\ Dispose("deadline")
      <3>1. attempt # 0 /\ (attempt <= MaxRetries => pause = PauseAfter[attempt])
        BY <2>1 DEF PausesFollow
      <3>2. attempt \in 1..MaxRetries
        BY <1>1, <2>3, <3>1, NumbersAssumption DEF Exhausted
      <3>3. pause <= LongestPause
        BY <3>1, <3>2, PausesGrow
      <3>4. Budget <= now' + pause /\ Budget \in Nat /\ LongestPause \in Nat
        BY <2>3, NumbersAssumption, LongestPauseType DEF PauseTooLong
      <3>5. now' + LongestPause >= Budget
        <4> DEFINE p == LongestPause
        <4>1. p \in Nat /\ pause <= p
          BY <3>3, <3>4
        <4> HIDE DEF p
        <4>2. Budget \in Nat /\ Budget <= now' + pause
          BY <3>4
        <4>3. now' + p >= Budget
          BY <1>1, <4>1, <4>2, Longer
        <4> QED BY <4>3 DEF p
      <3> QED BY <1>4, <2>3, <3>5
    <2>4. CASE pc' = "backoff" /\ UNCHANGED <<ops, attempt, pause, results>>
      BY <1>3, <2>4 DEF PausesFollow
    <2> QED BY <2>1, <2>2, <2>3, <2>4 DEF AfterFailure
  <1>11. CASE UNCHANGED vars
    BY <1>3, <1>11 DEF vars, PausesFollow
  <1> QED
    BY <1>5, <1>6, <1>7, <1>8, <1>9, <1>10, <1>11 DEF Next

\* For any settings and any failures, an operation is given up for the budget only
\* when the budget is spent but for the longest pause between two calls.
THEOREM BudgetIsUsed == Spec => []GivenUpForTheBudget
  <1>1. Init => PausesFollow /\ GivenUpForTheBudget
    BY DEF Init, PausesFollow, GivenUpForTheBudget
  <1>2. InTime /\ PausesFollow /\ GivenUpForTheBudget /\ [Next]_vars
          => InTime' /\ PausesFollow' /\ GivenUpForTheBudget'
    BY InTimeStep, GivenUpStep
  <1> QED BY <1>1, <1>2, InTimeInit, PTL DEF Spec

-----------------------------------------------------------------------------
(* Types                                                                     *)

\* A call yet to be made is one of those allowed, for an operation that is left.
CallsLeft ==
  /\ TypeOK
  /\ pc \in {"call", "backoff"} => attempt <= MaxRetries
  /\ pc \in {"call", "request", "backoff"} => ops < NumOps
  /\ pc = "loop" => attempt = 0

LEMMA Recorded ==
  ASSUME CallsLeft, NEW result \in Results, Dispose(result), ops < NumOps,
         now' \in Nat
  PROVE  CallsLeft'
  <1>1. ops \in Nat /\ NumOps \in Nat /\ ops + 1 \in 0..NumOps
    BY NumbersAssumption DEF CallsLeft, TypeOK
  <1>2. results' \in [1..ops' -> Results]
    <2>1. \A op \in 1..(ops + 1) : ~(op > ops) => op \in 1..ops
      BY <1>1
    <2>2. \A op \in 1..(ops + 1) :
            (IF op > ops THEN result ELSE results[op]) \in Results
      BY <2>1 DEF CallsLeft, TypeOK
    <2> QED BY <2>2 DEF Dispose
  <1>3. /\ 0 \in 0..(MaxRetries + 1) /\ 0 \in 0..LongestRead /\ 0 \in 0..SdkRetries
    BY NumbersAssumption DEF LongestRead, Larger
  <1>4. TypeOK'
    BY <1>1, <1>2, <1>3 DEF Dispose, TypeOK
  <1> QED BY <1>4 DEF CallsLeft, Dispose

LEMMA CallsLeftStep ==
  ASSUME InTime', CallsLeft, [Next]_vars
  PROVE  CallsLeft'
  <1> now' \in Nat
    BY DEF InTime
  <1>1. CASE NextOp \/ TimedOut \/ Finish \/ Sleep
    <2>1. /\ UNCHANGED <<ops, attempt, pause, read, sent, results>>
          /\ pc' \in {"call", "success", "timeout"}
      BY <1>1 DEF NextOp, TimedOut, Finish, Sleep
    <2>2. pc' = "call" => attempt <= MaxRetries /\ ops < NumOps
      BY <1>1, NumbersAssumption DEF CallsLeft, NextOp, TimedOut, Finish, Sleep
    <2> QED BY <2>1, <2>2 DEF CallsLeft, TypeOK
  <1>2. CASE Block
    BY <1>2, Recorded DEF Block, Results
  <1>3. CASE Call
    <2>1. pc = "call" /\ attempt <= MaxRetries /\ ops < NumOps
      BY <1>3 DEF Call, CallsLeft
    <2>2. CASE Remaining <= 0
      BY <1>3, <2>1, <2>2, Recorded DEF Call, Results
    <2>3. CASE ~(Remaining <= 0)
      <3>1. /\ pc' = "request" /\ attempt' = attempt + 1 /\ read' = ReadLimit
            /\ pause' = IF attempt = 0 THEN Backoff ELSE 3 * pause
            /\ UNCHANGED <<ops, sent, results>>
        BY <1>3, <2>3 DEF Call
      <3>2. attempt' \in 0..(MaxRetries + 1)
        BY <2>1, <3>1, NumbersAssumption DEF CallsLeft, TypeOK
      <3>3. pause' \in Nat
        BY <3>1, NumbersAssumption DEF CallsLeft, TypeOK
      <3>4. read' \in 0..LongestRead
        <4>1. Remaining \in Int /\ Remaining > 0
          BY <2>3, NumbersAssumption DEF Remaining, CallsLeft, TypeOK
        <4> QED BY <3>1, <4>1, NumbersAssumption
                DEF ReadLimit, LongestRead, Larger, Smaller
      <3> QED BY <2>1, <3>1, <3>2, <3>3, <3>4 DEF CallsLeft, TypeOK
    <2> QED BY <2>2, <2>3
  <1>4. CASE Answer
    <2>1. PICK result \in {"drafted", "invalid", "refused"} : Dispose(result)
      BY <1>4 DEF Answer
    <2>2. ops < NumOps /\ result \in Results
      BY <1>4 DEF Answer, CallsLeft, Results
    <2> QED BY <2>1, <2>2, Recorded
  <1>5. CASE SdkRetry
    <2>1. sent' \in 0..SdkRetries
      BY <1>5, NumbersAssumption DEF SdkRetry, CallsLeft, TypeOK
    <2>2. pc = "request" /\ UNCHANGED <<pc, ops, attempt, pause, read, results>>
      BY <1>5 DEF SdkRetry
    <2> QED BY <2>1, <2>2 DEF CallsLeft, TypeOK
  <1>6. CASE CallFails
    <2>1. PICK d \in Durations : AfterFailure(now + d)
      BY <1>6 DEF CallFails
    <2>2. ops < NumOps
      BY <1>6 DEF CallFails, CallsLeft
    <2>3. CASE \E result \in {"exhausted", "deadline"} : Dispose(result)
      BY <2>2, <2>3, Recorded DEF Results
    <2>4. CASE /\ ~Exhausted /\ pc' = "backoff" /\ read' = 0 /\ sent' = 0
               /\ UNCHANGED <<ops, attempt, pause, results>>
      <3>1. attempt <= MaxRetries
        BY <2>4, NumbersAssumption DEF Exhausted, CallsLeft, TypeOK
      <3>2. 0 \in 0..LongestRead /\ 0 \in 0..SdkRetries
        BY NumbersAssumption DEF LongestRead, Larger
      <3> QED BY <2>2, <2>4, <3>1, <3>2 DEF CallsLeft, TypeOK
    <2> QED BY <2>1, <2>3, <2>4 DEF AfterFailure
  <1>7. CASE UNCHANGED vars
    BY <1>7 DEF vars, CallsLeft, TypeOK
  <1> QED
    BY <1>1, <1>2, <1>3, <1>4, <1>5, <1>6, <1>7 DEF Next

\* Every variable keeps its type; in particular an operation never takes more
\* calls than max_retries allows, and no read timeout exceeds the configured one
\* or the least.
THEOREM TypeCorrect == Spec => []TypeOK
  <1>1. Init => CallsLeft
    BY NumbersAssumption DEF Init, CallsLeft, TypeOK, LongestRead, Larger
  <1>2. InTime /\ CallsLeft /\ [Next]_vars => InTime' /\ CallsLeft'
    BY InTimeStep, CallsLeftStep
  <1>3. CallsLeft => TypeOK
    BY DEF CallsLeft
  <1> QED BY <1>1, <1>2, <1>3, InTimeInit, PTL DEF Spec
=============================================================================
