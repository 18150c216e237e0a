---------------------------- MODULE InputsProofs ----------------------------
(***************************************************************************)
(* Theorems about Inputs, for any documents, requests, reports and         *)
(* timeouts.                                                               *)
(***************************************************************************)
EXTENDS Inputs, FiniteSetTheorems, WellFoundedInduction, TLAPS

-----------------------------------------------------------------------------
\* The limits of any task are in order, whatever the configuration: a running
\* task is stopped before its message is delivered again.
LEMMA LimitsOfATask ==
  ASSUME NEW timeout \in Nat
  PROVE  LimitsAreOrdered(timeout)
<1> DEFINE base == IF timeout = 0 THEN PytestTimeout ELSE timeout
<1>1. base \in Nat /\ VisibilityTimeout \in Nat
  BY TimeLimitsAssumption
<1>2. CASE IsTooLong(base + 60)
  BY <1>1, <1>2 DEF LimitsAreOrdered, TaskTimeLimits, IsTooLong, Lesser
<1>3. CASE ~IsTooLong(base + 60)
  BY <1>1, <1>3 DEF LimitsAreOrdered, TaskTimeLimits, IsTooLong, Lesser
<1> QED
  BY <1>2, <1>3

\* The limits of a message are in order for any timeout and any configuration.
THEOREM LimitsAreAlwaysOrdered == Spec => []TimeIsOrdered
<1>1. Init => TimeIsOrdered
  BY DEF Init, NoCall, TimeIsOrdered
<1>2. TimeIsOrdered /\ [Next]_call => TimeIsOrdered'
  <2> SUFFICES ASSUME TimeIsOrdered, [Next]_call PROVE TimeIsOrdered'
    OBVIOUS
  <2>1. CASE LimitTime
    <3>1. PICK t \in Timeouts : call' = [of |-> "timeout", timeout |-> t]
      BY <2>1 DEF LimitTime
    <3>2. t \in Nat
      BY TimeoutsAssumption
    <3>3. LimitsAreOrdered(t)
      BY <3>2, LimitsOfATask
    <3> QED
      BY <3>1, <3>3 DEF TimeIsOrdered
  <2>2. CASE call' = call
    BY <2>2 DEF TimeIsOrdered
  <2>3. CASE CompareDocuments \/ CreateTask \/ ReadReport
    <3>1. call'.of \in {"documents", "request", "report"}
      BY <2>3 DEF CompareDocuments, CreateTask, ReadReport
    <3> QED
      BY <3>1 DEF TimeIsOrdered
  <2> QED
    BY <2>1, <2>2, <2>3 DEF Next
<1> QED
  BY <1>1, <1>2, PTL DEF Spec

-----------------------------------------------------------------------------
\* What the parser returns.

LEMMA ParserReturns ==
  ASSUME NEW d \in Documents
  PROVE  \/ Parsed(d) = Invalid /\ Parsed(d).error
         \/ LET operations == Parsed(d).operations
            IN /\ operations \in Seq(Range(operations)) /\ operations # <<>>
               /\ \A op \in Range(operations) : IsResolved(op)
               /\ ~Parsed(d).error
               /\ Parsed(d) = ParsedApi(operations)
<1>1. CASE Parsed(d) = Invalid
  BY <1>1 DEF Invalid
<1>2. CASE Parsed(d) # Invalid
  <2> DEFINE operations == Parsed(d).operations
  <2>1. /\ operations \in Seq(Range(operations)) /\ operations # <<>>
        /\ \A op \in Range(operations) : IsResolved(op)
        /\ Parsed(d) = ParsedApi(operations)
    BY <1>2, ParsedAssumption
  <2> HIDE DEF operations
  <2>2. Parsed(d).error = FALSE
    BY <2>1 DEF ParsedApi
  <2> QED
    BY <2>1, <2>2 DEF operations
<1> QED
  BY <1>1, <1>2

LEMMA ParsedHasIds ==
  ASSUME NEW d \in Documents
  PROVE  /\ Parsed(d).error \in BOOLEAN
         /\ ~Parsed(d).error => Parsed(d).ids # {}
<1>1. CASE Parsed(d) = Invalid
  BY <1>1 DEF Invalid
<1>2. CASE Parsed(d) # Invalid
  <2>1. PICK operations : /\ operations \in Seq(Range(operations)) /\ operations # <<>>
                          /\ Parsed(d) = ParsedApi(operations)
    BY <1>2, ParserReturns
  <2>2. 1 \in DOMAIN operations
    BY <2>1
  <2> QED
    BY <2>1, <2>2 DEF ParsedApi
<1> QED
  BY <1>1, <1>2

-----------------------------------------------------------------------------
\* Generation requests.

LEMMA ChoiceHasTargets ==
  ASSUME NEW r \in Requests,
         Choice(r.document, r.operationIds, r.forceFull, r.latest).error = "none"
  PROVE  LET work == Work(Choice(r.document, r.operationIds, r.forceFull, r.latest))
         IN work.error \/ work.targets # {}
<1> DEFINE d == r.document
           ids == r.operationIds
           row == Choice(d, ids, r.forceFull, r.latest)
           parsed == Parsed(d)
<1>1. d \in Documents /\ ids.listed \in BOOLEAN /\ r.forceFull \in BOOLEAN
  BY RequestsAssumption
<1>2. parsed.error \in BOOLEAN /\ (~parsed.error => parsed.ids # {})
  BY <1>1, ParsedHasIds
\* The row names every operation, or some that the document has.
<1>3. \E chosen : /\ row = Chosen(d, chosen)
                  /\ \/ ~chosen.listed
                     \/ chosen.listed /\ chosen.ids = {}
                     \/ chosen.listed /\ ~parsed.error /\ chosen.ids \cap parsed.ids # {}
  <2> HIDE DEF parsed, d, ids
  <2>1. CASE ~ids.listed /\ r.forceFull
    BY <2>1 DEF Choice, NoList, Chosen
  <2>2. CASE ~(~ids.listed /\ r.forceFull) /\ ids.listed
    <3>1. ~parsed.error
      BY <1>2, <2>2 DEF Choice, Refused, parsed, row, d, ids
    <3>2. row = IF ids.ids # {} /\ ids.ids \cap parsed.ids = {}
                THEN Refused("INVALID_OPERATION_IDS") ELSE Chosen(d, ids)
      BY <2>2, <3>1 DEF Choice, parsed
    <3>3. ids.ids = {} \/ ids.ids \cap parsed.ids # {}
      BY <3>2 DEF Refused, d, ids
    <3> QED
      BY <2>2, <3>1, <3>2, <3>3
  <2>3. CASE ~ids.listed /\ ~r.forceFull
    <3>1. ~parsed.error
      BY <1>2, <2>3 DEF Choice, Refused, parsed, row, d, ids
    <3>2. row = IF r.latest = NoAnalysis THEN Chosen(d, NoList)
                ELSE IF r.latest = <<{}>> THEN Refused("NO_UNTESTED_OPS")
                ELSE Chosen(d, ListOrAll(Untested(r.latest, parsed.ids)))
      BY <2>3, <3>1 DEF Choice, parsed
    <3>3. CASE r.latest = NoAnalysis
      BY <3>2, <3>3 DEF NoList
    <3>4. CASE r.latest # NoAnalysis
      <4> DEFINE u == Untested(r.latest, parsed.ids)
      <4>1. row = Chosen(d, ListOrAll(u))
        BY <3>2, <3>4 DEF Refused, d, ids
      <4>2. u \cap parsed.ids = u
        BY DEF Untested
      <4> HIDE DEF u
      <4> QED
        BY <3>1, <4>1, <4>2 DEF ListOrAll, NoList, Listed
    <3> QED
      BY <3>3, <3>4
  <2> QED
    BY <1>1, <2>1, <2>2, <2>3
<1>4. PICK chosen : /\ row = Chosen(d, chosen)
                    /\ \/ ~chosen.listed
                       \/ chosen.listed /\ chosen.ids = {}
                       \/ chosen.listed /\ ~parsed.error /\ chosen.ids \cap parsed.ids # {}
  BY <1>3
<1>5. row.document = d /\ row.operationIds = chosen
  BY <1>4 DEF Chosen
<1> HIDE DEF row
<1>6. ASSUME parsed.error
      PROVE  Work(row).error
  BY <1>2, <1>5, <1>6 DEF Work
<1>7. ASSUME ~parsed.error
      PROVE  Work(row).targets # {}
  <2>1. CASE Selects(row)
    <3>1. Work(row).targets = parsed.ids \cap chosen.ids
      BY <1>5, <1>7, <2>1 DEF Work
    <3> QED
      BY <1>4, <1>5, <2>1, <3>1 DEF Selects
  <2>2. CASE ~Selects(row)
    BY <1>2, <1>5, <1>7, <2>2 DEF Work
  <2> QED
    BY <2>1, <2>2
<1> QED
  BY <1>2, <1>6, <1>7 DEF row

\* Whatever the document, the list of the request and the latest analysis: a
\* generation that is accepted has operations to work on.
THEOREM AcceptedTasksHaveTargets == Spec => []TargetsAreNotEmpty
<1>1. Init => TargetsAreNotEmpty
  BY DEF Init, NoCall, TargetsAreNotEmpty
<1>2. TargetsAreNotEmpty /\ [Next]_call => TargetsAreNotEmpty'
  <2> SUFFICES ASSUME TargetsAreNotEmpty, [Next]_call PROVE TargetsAreNotEmpty'
    OBVIOUS
  <2>1. CASE CreateTask
    <3>1. PICK r \in Requests :
            call' = [of |-> "request",
                     row |-> Choice(r.document, r.operationIds, r.forceFull, r.latest)]
      BY <2>1 DEF CreateTask
    <3>2. call'.row = Choice(r.document, r.operationIds, r.forceFull, r.latest)
      BY <3>1
    <3> QED
      BY <3>2, ChoiceHasTargets DEF TargetsAreNotEmpty
  <2>2. CASE call' = call
    BY <2>2 DEF TargetsAreNotEmpty
  <2>3. CASE CompareDocuments \/ LimitTime \/ ReadReport
    <3>1. call'.of \in {"documents", "timeout", "report"}
      BY <2>3 DEF CompareDocuments, LimitTime, ReadReport
    <3> QED
      BY <3>1 DEF TargetsAreNotEmpty
  <2> QED
    BY <2>1, <2>2, <2>3 DEF Next
<1> QED
  BY <1>1, <1>2, PTL DEF Spec

-----------------------------------------------------------------------------
\* The walks over schemas.

LEMMA LeastNumber ==
  ASSUME NEW T, T \subseteq Nat, T # {}
  PROVE  \E x \in T : \A y \in T : x <= y
<1>1. PICK x \in T : \A y \in T : <<y, x>> \notin OpToRel(<, Nat)
  BY NatLessThanWellFounded, WFMin
<1>2. ASSUME NEW y \in T
      PROVE  x <= y
  <2>1. x \in Nat /\ y \in Nat /\ ~(y < x)
    BY <1>1 DEF OpToRel
  <2> QED
    BY <2>1
<1> QED
  BY <1>2

HashedKeys == StructKeys \cup ExtraKeys

UnhashedKeys == {"properties", "items"} \cup DroppedKeys

\* What a walk keeps of a schema, given a function for the schemas inside.
Kept(keys, w, u) ==
    [k \in Keys(u) \cap keys |->
        LET v == Get(u, k)
        IN CASE k = "properties" -> [n \in Keys(v) |-> w[Get(v, n)]]
             [] k = "items" -> w[v]
             [] OTHER -> v]

\* Schemas of which a walk keeps the same agree in what it goes through.
LEMMA KeptAgree ==
  ASSUME NEW keys, {"properties", "items"} \subseteq keys, NEW w, NEW s, NEW t,
         Kept(keys, w, s) = Kept(keys, w, t)
  PROVE  /\ \A k \in keys : k \in Keys(s) <=> k \in Keys(t)
         /\ \A k \in keys \ {"properties", "items"} :
              k \in Keys(s) => Get(s, k) = Get(t, k)
         /\ "items" \in Keys(s) => w[Get(s, "items")] = w[Get(t, "items")]
         /\ "properties" \in Keys(s) =>
              LET p == Get(s, "properties")
                  q == Get(t, "properties")
              IN Keys(p) = Keys(q) /\ \A n \in Keys(p) : w[Get(p, n)] = w[Get(q, n)]
<1> DEFINE F(u) == Kept(keys, w, u)
<1>1. F(s) = F(t)
  OBVIOUS
<1>2. ASSUME NEW u
      PROVE  /\ DOMAIN F(u) = Keys(u) \cap keys
             /\ \A k \in Keys(u) \cap keys :
                  /\ k \notin {"properties", "items"} => F(u)[k] = Get(u, k)
                  /\ k = "items" => F(u)[k] = w[Get(u, k)]
                  /\ k = "properties" =>
                       F(u)[k] = [n \in Keys(Get(u, k)) |-> w[Get(Get(u, k), n)]]
  BY DEF Kept
<1> HIDE DEF F
<1>3. Keys(s) \cap keys = Keys(t) \cap keys
  BY <1>1, <1>2
<1>4. ASSUME NEW k \in keys, k \in Keys(s)
      PROVE  k \in Keys(t) /\ F(s)[k] = F(t)[k]
  BY <1>1, <1>3, <1>4
<1>5. ASSUME NEW k \in Keys(s) \cap keys
       PROVE  /\ k \notin {"properties", "items"} => F(s)[k] = Get(s, k) /\ F(t)[k] = Get(t, k)
              /\ k = "items" => /\ F(s)[k] = w[Get(s, k)]
                               /\ F(t)[k] = w[Get(t, k)]
              /\ k = "properties" =>
                   /\ F(s)[k] = [n \in Keys(Get(s, k)) |-> w[Get(Get(s, k), n)]]
                   /\ F(t)[k] = [n \in Keys(Get(t, k)) |-> w[Get(Get(t, k), n)]]
  <2>1. k \in Keys(t) \cap keys
    BY <1>3
  <2>2. /\ k \notin {"properties", "items"} => F(s)[k] = Get(s, k)
        /\ k = "items" => F(s)[k] = w[Get(s, k)]
        /\ k = "properties" =>
             F(s)[k] = [n \in Keys(Get(s, k)) |-> w[Get(Get(s, k), n)]]
    BY <1>2
  <2>3. /\ k \notin {"properties", "items"} => F(t)[k] = Get(t, k)
        /\ k = "items" => F(t)[k] = w[Get(t, k)]
        /\ k = "properties" =>
             F(t)[k] = [n \in Keys(Get(t, k)) |-> w[Get(Get(t, k), n)]]
    BY <1>2, <2>1
  <2> QED
    BY <2>2, <2>3
<1>6. \A k \in keys : k \in Keys(s) <=> k \in Keys(t)
  BY <1>3
<1>7. ASSUME NEW k \in keys \ {"properties", "items"}, k \in Keys(s)
      PROVE  Get(s, k) = Get(t, k)
  BY <1>4, <1>5, <1>7
<1>8. "items" \in keys /\ "properties" \in keys
  OBVIOUS
<1>9. ASSUME "items" \in Keys(s)
      PROVE  w[Get(s, "items")] = w[Get(t, "items")]
  BY <1>4, <1>5, <1>8, <1>9
<1>10. ASSUME "properties" \in Keys(s)
      PROVE  LET p == Get(s, "properties")
                 q == Get(t, "properties")
             IN /\ Keys(p) = Keys(q)
                /\ \A n \in Keys(p) : w[Get(p, n)] = w[Get(q, n)]
  <2> DEFINE p == Get(s, "properties")
             q == Get(t, "properties")
             fp == [n \in Keys(p) |-> w[Get(p, n)]]
             fq == [n \in Keys(q) |-> w[Get(q, n)]]
  <2>1. fp = fq
    <3>1. F(s)["properties"] = F(t)["properties"]
      BY <1>4, <1>8, <1>10
    <3>2. F(s)["properties"] = fp /\ F(t)["properties"] = fq
      BY <1>5, <1>8, <1>10
    <3> QED
      BY <3>1, <3>2
  <2>2. DOMAIN fp = DOMAIN fq /\ \A n \in Keys(p) : fp[n] = fq[n]
    BY <2>1
  <2>3. Keys(p) = Keys(q)
    BY <2>2
  <2>4. ASSUME NEW n \in Keys(p) PROVE w[Get(p, n)] = w[Get(q, n)]
    BY <2>2, <2>3
  <2> QED
    BY <2>3, <2>4
<1> QED
  BY <1>6, <1>7, <1>9, <1>10

\* Schemas of the same normal form agree in what is hashed of them.
LEMMA FormsAgree ==
  ASSUME NEW s \in Schemas, NEW t \in Schemas, NormalForm(s) = NormalForm(t)
  PROVE  /\ \A k \in HashedKeys : k \in Keys(s) <=> k \in Keys(t)
         /\ \A k \in HashedKeys \ {"properties", "items"} :
              k \in Keys(s) => Get(s, k) = Get(t, k)
         /\ "items" \in Keys(s) => NormalForm(Get(s, "items")) = NormalForm(Get(t, "items"))
         /\ "properties" \in Keys(s) =>
              LET p == Get(s, "properties")
                  q == Get(t, "properties")
              IN /\ Keys(p) = Keys(q)
                 /\ \A n \in Keys(p) : NormalForm(Get(p, n)) = NormalForm(Get(q, n))
<1> DEFINE w == [u \in Schemas |-> NormalForm(u)]
           p == Get(s, "properties")
           q == Get(t, "properties")
<1>1. ASSUME NEW u \in Schemas
      PROVE  /\ "items" \in Keys(u) => w[Get(u, "items")] = NormalForm(Get(u, "items"))
             /\ "properties" \in Keys(u) =>
                  \A n \in Keys(Get(u, "properties")) :
                     w[Get(Get(u, "properties"), n)] = NormalForm(Get(Get(u, "properties"), n))
  BY SchemasAssumption DEF Subschemas, GetOr
<1> HIDE DEF w
<1>2. ASSUME NEW u \in Schemas
      PROVE  NormalForm(u) = Kept(HashedKeys, w, u)
  <2>1. NormalForm(u) = NormalizedBy(NormalForm, u)
    BY WalksAssumption
  <2> QED
    BY <1>1, <2>1 DEF NormalizedBy, KeptBy, Kept, HashedKeys
<1>3. {"properties", "items"} \subseteq HashedKeys
  BY DEF HashedKeys, StructKeys
<1>4. Kept(HashedKeys, w, s) = Kept(HashedKeys, w, t)
  BY <1>2
<1>5. /\ \A k \in HashedKeys : k \in Keys(s) <=> k \in Keys(t)
      /\ \A k \in HashedKeys \ {"properties", "items"} :
           k \in Keys(s) => Get(s, k) = Get(t, k)
      /\ "items" \in Keys(s) => w[Get(s, "items")] = w[Get(t, "items")]
      /\ "properties" \in Keys(s) =>
           Keys(p) = Keys(q) /\ \A n \in Keys(p) : w[Get(p, n)] = w[Get(q, n)]
  BY <1>3, <1>4, KeptAgree
<1>6. ASSUME "items" \in Keys(s)
      PROVE  NormalForm(Get(s, "items")) = NormalForm(Get(t, "items"))
  <2>1. "items" \in Keys(t)
    BY <1>3, <1>5, <1>6
  <2> QED
    BY <1>1, <1>5, <1>6, <2>1
<1>7. ASSUME "properties" \in Keys(s)
      PROVE  Keys(p) = Keys(q) /\ \A n \in Keys(p) : NormalForm(Get(p, n)) = NormalForm(Get(q, n))
  <2>1. "properties" \in Keys(t)
    BY <1>3, <1>5, <1>7
  <2>2. /\ \A n \in Keys(p) : w[Get(p, n)] = NormalForm(Get(p, n))
        /\ \A n \in Keys(q) : w[Get(q, n)] = NormalForm(Get(q, n))
    BY <1>1, <1>7, <2>1
  <2> QED
    BY <1>5, <1>7, <2>2
<1> QED
  BY <1>5, <1>6, <1>7

\* Schemas that are dropped the same of agree in what no hash knows.
LEMMA DropsAgree ==
  ASSUME NEW s \in Schemas, NEW t \in Schemas, Dropped(s) = Dropped(t)
  PROVE  /\ \A k \in UnhashedKeys : k \in Keys(s) <=> k \in Keys(t)
         /\ \A k \in UnhashedKeys \ {"properties", "items"} :
              k \in Keys(s) => Get(s, k) = Get(t, k)
         /\ "items" \in Keys(s) => Dropped(Get(s, "items")) = Dropped(Get(t, "items"))
         /\ "properties" \in Keys(s) =>
              LET p == Get(s, "properties")
                  q == Get(t, "properties")
              IN /\ Keys(p) = Keys(q)
                 /\ \A n \in Keys(p) : Dropped(Get(p, n)) = Dropped(Get(q, n))
<1> DEFINE w == [u \in Schemas |-> Dropped(u)]
           p == Get(s, "properties")
           q == Get(t, "properties")
<1>1. ASSUME NEW u \in Schemas
      PROVE  /\ "items" \in Keys(u) => w[Get(u, "items")] = Dropped(Get(u, "items"))
             /\ "properties" \in Keys(u) =>
                  \A n \in Keys(Get(u, "properties")) :
                     w[Get(Get(u, "properties"), n)] = Dropped(Get(Get(u, "properties"), n))
  BY SchemasAssumption DEF Subschemas, GetOr
<1> HIDE DEF w
<1>2. ASSUME NEW u \in Schemas
      PROVE  Dropped(u) = Kept(UnhashedKeys, w, u)
  <2>1. Dropped(u) = DroppedBy(Dropped, u)
    BY WalksAssumption
  <2> QED
    BY <1>1, <2>1 DEF DroppedBy, KeptBy, Kept, UnhashedKeys
<1>3. {"properties", "items"} \subseteq UnhashedKeys
  BY DEF UnhashedKeys
<1>4. Kept(UnhashedKeys, w, s) = Kept(UnhashedKeys, w, t)
  BY <1>2
<1>5. /\ \A k \in UnhashedKeys : k \in Keys(s) <=> k \in Keys(t)
      /\ \A k \in UnhashedKeys \ {"properties", "items"} :
           k \in Keys(s) => Get(s, k) = Get(t, k)
      /\ "items" \in Keys(s) => w[Get(s, "items")] = w[Get(t, "items")]
      /\ "properties" \in Keys(s) =>
           Keys(p) = Keys(q) /\ \A n \in Keys(p) : w[Get(p, n)] = w[Get(q, n)]
  BY <1>3, <1>4, KeptAgree
<1>6. ASSUME "items" \in Keys(s)
      PROVE  Dropped(Get(s, "items")) = Dropped(Get(t, "items"))
  <2>1. "items" \in Keys(t)
    BY <1>3, <1>5, <1>6
  <2> QED
    BY <1>1, <1>5, <1>6, <2>1
<1>7. ASSUME "properties" \in Keys(s)
      PROVE  Keys(p) = Keys(q) /\ \A n \in Keys(p) : Dropped(Get(p, n)) = Dropped(Get(q, n))
  <2>1. "properties" \in Keys(t)
    BY <1>3, <1>5, <1>7
  <2>2. /\ \A n \in Keys(p) : w[Get(p, n)] = Dropped(Get(p, n))
        /\ \A n \in Keys(q) : w[Get(q, n)] = Dropped(Get(q, n))
    BY <1>1, <1>7, <2>1
  <2> QED
    BY <1>5, <1>7, <2>2
<1> QED
  BY <1>5, <1>6, <1>7

\* Schemas that a validator cannot tell apart.
Alike(s, t) == \A x \in JsonValues : Meets(s, x) <=> Meets(t, x)

SameForms(s, t) == NormalForm(s) = NormalForm(t) /\ Dropped(s) = Dropped(t)

\* If schemas inside have equal fields, so have those around them: everything
\* that is read for a contract is hashed.
LEMMA FormsSignAlike ==
  ASSUME NEW s \in Schemas, NEW t \in Schemas, NormalForm(s) = NormalForm(t),
         \A a \in Subschemas(s), b \in Subschemas(t) :
            NormalForm(a) = NormalForm(b) => SignatureOf(a) = SignatureOf(b)
  PROVE  SignatureOf(s) = SignatureOf(t)
<1> DEFINE p == Get(s, "properties")
           q == Get(t, "properties")
<1>1. \A k \in {"type", "enum", "items", "properties"} : k \in HashedKeys
  BY DEF HashedKeys, StructKeys
<1>2. \A k \in {"type", "enum", "items", "properties"} : k \in Keys(s) <=> k \in Keys(t)
  BY <1>1, FormsAgree
<1>3. \A k \in {"type", "enum"} : k \in Keys(s) => Get(s, k) = Get(t, k)
  BY <1>1, FormsAgree
<1>4. ASSUME "items" \in Keys(s)
      PROVE  SignatureOf(Get(s, "items")) = SignatureOf(Get(t, "items"))
  <2>1. Get(s, "items") \in Subschemas(s) /\ Get(t, "items") \in Subschemas(t)
    BY <1>2, <1>4 DEF Subschemas
  <2> QED
    BY <1>4, <2>1, FormsAgree
<1>5. ASSUME "properties" \in Keys(s)
      PROVE  /\ Keys(p) = Keys(q)
             /\ \A n \in Keys(p) : SignatureOf(Get(p, n)) = SignatureOf(Get(q, n))
  <2>1. Keys(p) = Keys(q) /\ \A n \in Keys(p) : NormalForm(Get(p, n)) = NormalForm(Get(q, n))
    BY <1>5, FormsAgree
  <2>2. /\ \A n \in Keys(p) : Get(p, n) \in Subschemas(s)
        /\ \A n \in Keys(q) : Get(q, n) \in Subschemas(t)
    BY <1>2, <1>5 DEF Subschemas, GetOr
  <2> HIDE DEF p, q
  <2> QED
    BY <2>1, <2>2
<1> HIDE DEF p, q
<1>6. SignatureOf(s) = SignedBy(SignatureOf, s) /\ SignatureOf(t) = SignedBy(SignatureOf, t)
  BY WalksAssumption
<1>7. CASE "properties" \in Keys(s)
  <2>1. /\ SignatureOf(s) = UNION {Under(<<n>>, SignatureOf(Get(p, n))) : n \in Keys(p)}
        /\ SignatureOf(t) = UNION {Under(<<n>>, SignatureOf(Get(q, n))) : n \in Keys(q)}
    BY <1>2, <1>6, <1>7 DEF SignedBy, p, q
  <2>2. \A n \in Keys(p) : Under(<<n>>, SignatureOf(Get(p, n)))
                             = Under(<<n>>, SignatureOf(Get(q, n)))
    BY <1>5, <1>7
  <2>3. {Under(<<n>>, SignatureOf(Get(p, n))) : n \in Keys(p)}
          = {Under(<<n>>, SignatureOf(Get(q, n))) : n \in Keys(q)}
    BY <1>5, <1>7, <2>2
  <2> QED
    BY <2>1, <2>3
<1>8. CASE "properties" \notin Keys(s) /\ "items" \in Keys(s)
  <2>1. /\ SignatureOf(s) = Under(<<"[]">>, SignatureOf(Get(s, "items")))
        /\ SignatureOf(t) = Under(<<"[]">>, SignatureOf(Get(t, "items")))
    BY <1>2, <1>6, <1>8 DEF SignedBy
  <2> QED
    BY <1>4, <1>8, <2>1
<1>9. CASE "properties" \notin Keys(s) /\ "items" \notin Keys(s)
  <2>1. GetOr(s, "type", "none") = GetOr(t, "type", "none")
    BY <1>2, <1>3 DEF GetOr
  <2>2. GetOr(s, "enum", {}) = GetOr(t, "enum", {})
    BY <1>2, <1>3 DEF GetOr
  <2> QED
    BY <1>2, <1>6, <1>9, <2>1, <2>2 DEF SignedBy
<1> QED
  BY <1>7, <1>8, <1>9

\* If schemas inside mean the same, so do those around them: what a validator
\* reads is hashed or dropped.
LEMMA FormsAreAlike ==
  ASSUME NEW s \in Schemas, NEW t \in Schemas, SameForms(s, t),
         \A a \in Subschemas(s), b \in Subschemas(t) :
            SameForms(a, b) => Alike(a, b)
  PROVE  Alike(s, t)
<1> DEFINE p == Get(s, "properties")
           q == Get(t, "properties")
           hashed == {"type", "enum", "required", "$ref", "items", "properties", "minimum"}
           dropped == {"additionalProperties", "const", "multipleOf"}
<1>1. hashed \subseteq HashedKeys /\ dropped \subseteq UnhashedKeys
  BY DEF HashedKeys, StructKeys, Bounds, ExtraKeys, UnhashedKeys, DroppedKeys
<1>2. \A k \in hashed \cup dropped : k \in Keys(s) <=> k \in Keys(t)
  BY <1>1, FormsAgree, DropsAgree DEF SameForms
<1>3. \A k \in (hashed \cup dropped) \ {"items", "properties"} :
         k \in Keys(s) => Get(s, k) = Get(t, k)
  BY <1>1, FormsAgree, DropsAgree DEF SameForms
<1>4. ASSUME "items" \in Keys(s)
      PROVE  Alike(Get(s, "items"), Get(t, "items"))
  <2>1. Get(s, "items") \in Subschemas(s) /\ Get(t, "items") \in Subschemas(t)
    BY <1>2, <1>4 DEF Subschemas
  <2>2. SameForms(Get(s, "items"), Get(t, "items"))
    BY <1>4, FormsAgree, DropsAgree DEF SameForms
  <2> QED
    BY <2>1, <2>2
<1>5. ASSUME "properties" \in Keys(s)
      PROVE  Keys(p) = Keys(q) /\ \A n \in Keys(p) : Alike(Get(p, n), Get(q, n))
  <2>1. Keys(p) = Keys(q) /\ \A n \in Keys(p) : SameForms(Get(p, n), Get(q, n))
    BY <1>5, FormsAgree, DropsAgree DEF SameForms
  <2>2. /\ \A n \in Keys(p) : Get(p, n) \in Subschemas(s)
        /\ \A n \in Keys(q) : Get(q, n) \in Subschemas(t)
    BY <1>2, <1>5 DEF Subschemas, GetOr
  <2> HIDE DEF p, q
  <2> QED
    BY <2>1, <2>2
<1>6. \A k \in ValueKeys : k \in Keys(s) <=> k \in Keys(t)
  BY <1>2 DEF ValueKeys
<1>7. \A k \in ValueKeys \cap Keys(s) : Get(s, k) = Get(t, k)
  BY <1>3 DEF ValueKeys
<1>8. GetOr(s, "properties", <<>>) = IF "properties" \in Keys(s) THEN p ELSE <<>>
  BY DEF GetOr
<1>9. GetOr(t, "properties", <<>>) = IF "properties" \in Keys(s) THEN q ELSE <<>>
  BY <1>2 DEF GetOr
<1>10. Keys(GetOr(s, "properties", <<>>)) = Keys(GetOr(t, "properties", <<>>))
  BY <1>5, <1>8, <1>9
<1>11. /\ "$ref" \in Keys(s) <=> "$ref" \in Keys(t)
       /\ "type" \in Keys(s) <=> "type" \in Keys(t)
       /\ "enum" \in Keys(s) <=> "enum" \in Keys(t)
       /\ "required" \in Keys(s) <=> "required" \in Keys(t)
       /\ "properties" \in Keys(s) <=> "properties" \in Keys(t)
       /\ "additionalProperties" \in Keys(s) <=> "additionalProperties" \in Keys(t)
       /\ "items" \in Keys(s) <=> "items" \in Keys(t)
       /\ "type" \in Keys(s) => Get(s, "type") = Get(t, "type")
       /\ "enum" \in Keys(s) => Get(s, "enum") = Get(t, "enum")
       /\ "required" \in Keys(s) => Get(s, "required") = Get(t, "required")
       /\ "additionalProperties" \in Keys(s) =>
            Get(s, "additionalProperties") = Get(t, "additionalProperties")
  BY <1>2, <1>3
<1> HIDE DEF p, q, hashed, dropped
<1>12. ASSUME NEW x \in JsonValues
       PROVE  AcceptedBy(Meets, s, x) <=> AcceptedBy(Meets, t, x)
  <2>1. ASSUME "properties" \in Keys(s), x.is = "object"
        PROVE  (\A n \in Keys(p) \cap DOMAIN x.of : Meets(Get(p, n), x.of[n]))
                 <=> (\A n \in Keys(q) \cap DOMAIN x.of : Meets(Get(q, n), x.of[n]))
    <3>1. \A n \in DOMAIN x.of : x.of[n] \in JsonValues
      BY <2>1, JsonAssumption
    <3>2. \A n \in Keys(p) \cap DOMAIN x.of :
             Meets(Get(p, n), x.of[n]) <=> Meets(Get(q, n), x.of[n])
      BY <1>5, <2>1, <3>1 DEF Alike
    <3> QED
      BY <1>5, <2>1, <3>2
  <2>2. ASSUME "items" \in Keys(s), x.is = "array"
        PROVE  (\A j \in DOMAIN x.of : Meets(Get(s, "items"), x.of[j]))
                 <=> (\A j \in DOMAIN x.of : Meets(Get(t, "items"), x.of[j]))
    <3>1. \A n \in DOMAIN x.of : x.of[n] \in JsonValues
      BY <2>2, JsonAssumption
    <3> QED
      BY <1>4, <2>2, <3>1 DEF Alike
  <2>3. (\A k \in Keys(s) \cap ValueKeys : Holds(k, Get(s, k), x))
          <=> (\A k \in Keys(t) \cap ValueKeys : Holds(k, Get(t, k), x))
    BY <1>6, <1>7
  <2>4. ASSUME "additionalProperties" \in Keys(s)
        PROVE  (\A n \in DOMAIN x.of \ Keys(GetOr(s, "properties", <<>>)) :
                  Meets(Get(s, "additionalProperties"), x.of[n]))
                 <=> (\A n \in DOMAIN x.of \ Keys(GetOr(t, "properties", <<>>)) :
                        Meets(Get(t, "additionalProperties"), x.of[n]))
    BY <1>10, <1>11, <2>4
  <2> QED
    BY <1>11, <2>1, <2>2, <2>3, <2>4 DEF AcceptedBy, p, q
<1>13. ASSUME NEW x \in JsonValues
       PROVE  Meets(s, x) <=> Meets(t, x)
  BY <1>12, WalksAssumption
<1> QED
  BY <1>13 DEF Alike

\* A pair that differs would have a pair inside that differs, and so on.
LEMMA EqualFormsSignAlike ==
  ASSUME NEW s \in Schemas, NEW t \in Schemas, NormalForm(s) = NormalForm(t)
  PROVE  SignatureOf(s) = SignatureOf(t)
<1> DEFINE Differ(u) == \E v \in Schemas :
                          NormalForm(u) = NormalForm(v) /\ SignatureOf(u) # SignatureOf(v)
           T == {Rank(u) : u \in {w \in Schemas : Differ(w)}}
<1> SUFFICES ASSUME SignatureOf(s) # SignatureOf(t) PROVE FALSE
  OBVIOUS
<1>1. T \subseteq Nat /\ T # {}
  BY SchemasAssumption
<1>2. PICK n \in T : \A m \in T : n <= m
  BY <1>1, LeastNumber
<1>3. PICK u \in Schemas, v \in Schemas :
         Rank(u) = n /\ NormalForm(u) = NormalForm(v) /\ SignatureOf(u) # SignatureOf(v)
  BY <1>2
<1>4. ASSUME NEW a \in Subschemas(u), NEW b \in Subschemas(v), NormalForm(a) = NormalForm(b)
      PROVE  SignatureOf(a) = SignatureOf(b)
  <2>1. /\ a \in Schemas /\ b \in Schemas /\ Rank(a) < n
        /\ Rank(a) \in Nat /\ n \in Nat
    BY <1>1, <1>3, SchemasAssumption
  <2>2. Rank(a) \notin T
    BY <1>2, <2>1
  <2> QED
    BY <1>4, <2>1, <2>2
<1> QED
  BY <1>3, <1>4, FormsSignAlike

\* So it is with meanings.
LEMMA EqualFormsAreAlike ==
  ASSUME NEW s \in Schemas, NEW t \in Schemas, SameForms(s, t)
  PROVE  Alike(s, t)
<1> DEFINE Differ(u) == \E v \in Schemas : SameForms(u, v) /\ ~Alike(u, v)
           T == {Rank(u) : u \in {w \in Schemas : Differ(w)}}
<1> SUFFICES ASSUME ~Alike(s, t) PROVE FALSE
  OBVIOUS
<1>1. T \subseteq Nat /\ T # {}
  BY SchemasAssumption
<1>2. PICK n \in T : \A m \in T : n <= m
  BY <1>1, LeastNumber
<1>3. PICK u \in Schemas, v \in Schemas :
         Rank(u) = n /\ SameForms(u, v) /\ ~Alike(u, v)
  BY <1>2
<1>4. ASSUME NEW a \in Subschemas(u), NEW b \in Subschemas(v), SameForms(a, b)
      PROVE  Alike(a, b)
  <2>1. /\ a \in Schemas /\ b \in Schemas /\ Rank(a) < n
        /\ Rank(a) \in Nat /\ n \in Nat
    BY <1>1, <1>3, SchemasAssumption
  <2>2. Rank(a) \notin T
    BY <1>2, <2>1
  <2> QED
    BY <1>4, <2>1, <2>2
<1> QED
  BY <1>3, <1>4, FormsAreAlike

-----------------------------------------------------------------------------
\* Hashes and contracts.

\* What two lists of records have in common when they hash alike.
LEMMA CoresAgree ==
  ASSUME NEW p, NEW q, IsParameter(p), IsParameter(q), Core(p) = Core(q)
  PROVE  /\ p.name = q.name /\ p.in = q.in /\ p.required = q.required
         /\ NormalForm(p.schema) = NormalForm(q.schema)
<1>1. /\ Core(p).name = p.name /\ Core(p).in = p.in /\ Core(p).required = p.required
      /\ Core(p).schema = NormalForm(p.schema)
  BY DEF Core, IsParameter
<1>2. /\ Core(q).name = q.name /\ Core(q).in = q.in /\ Core(q).required = q.required
      /\ Core(q).schema = NormalForm(q.schema)
  BY DEF Core, IsParameter
<1> QED
  BY <1>1, <1>2

LEMMA BodyCoresAgree ==
  ASSUME NEW p \in [required : BOOLEAN, schema : Schemas],
         NEW q \in [required : BOOLEAN, schema : Schemas],
         Core(p) = Core(q)
  PROVE  NormalForm(p.schema) = NormalForm(q.schema)
<1>1. Core(p).schema = NormalForm(p.schema) /\ Core(q).schema = NormalForm(q.schema)
  BY DEF Core
<1> QED
  BY <1>1

LEMMA EmptySeq ==
  ASSUME NEW S, NEW f \in Seq(S), NEW g \in Seq(S), DOMAIN f = DOMAIN g
  PROVE  /\ f = <<>> <=> g = <<>>
         /\ f # <<>> => 1 \in DOMAIN f
<1>1. f = <<>> <=> DOMAIN f = {}
  BY Len(f) \in Nat
<1>2. g = <<>> <=> DOMAIN g = {}
  BY Len(g) \in Nat
<1>3. f # <<>> => 1 \in DOMAIN f
  BY Len(f) \in Nat
<1> QED
  BY <1>1, <1>2, <1>3

\* Two operations hash alike.
Equal(a, b) == IsResolved(a) /\ IsResolved(b) /\ HashOf(a) = HashOf(b)

LEMMA EqualOperations ==
  ASSUME NEW a, NEW b, Equal(a, b)
  PROVE  /\ DOMAIN a.parameters = DOMAIN b.parameters
         /\ \A i \in DOMAIN a.parameters :
              LET p == a.parameters[i]
                  q == b.parameters[i]
              IN /\ p.name = q.name /\ p.in = q.in /\ p.required = q.required
                 /\ p.schema \in Schemas /\ q.schema \in Schemas
                 /\ SignatureOf(p.schema) = SignatureOf(q.schema)
         /\ DOMAIN a.body = DOMAIN b.body
         /\ \A i \in DOMAIN a.body :
              /\ a.body[i].schema \in Schemas /\ b.body[i].schema \in Schemas
              /\ NormalForm(a.body[i].schema) = NormalForm(b.body[i].schema)
              /\ SignatureOf(a.body[i].schema) = SignatureOf(b.body[i].schema)
         /\ Keys(a.responses) = Keys(b.responses)
<1> DEFINE Params(op) == [i \in DOMAIN op.parameters |-> Core(op.parameters[i])]
           Bodies(op) == [i \in DOMAIN op.body |-> Core(op.body[i])]
           Answers(op) == [code \in Keys(op.responses) |-> NormalForm(Get(op.responses, code))]
<1>1. \A op : /\ HashOf(op).request.parameters = Params(op)
              /\ HashOf(op).request.body = Bodies(op)
              /\ HashOf(op).response = Answers(op)
  BY DEF HashOf
<1>2. Params(a) = Params(b) /\ Bodies(a) = Bodies(b) /\ Answers(a) = Answers(b)
  <2> HIDE DEF Params, Bodies, Answers
  <2> QED
    BY <1>1 DEF Equal
<1>3. Keys(a.responses) = Keys(b.responses)
  <2>1. DOMAIN Answers(a) = DOMAIN Answers(b)
    BY <1>2
  <2> QED
    BY <2>1
<1>4. /\ DOMAIN a.parameters = DOMAIN b.parameters
      /\ \A i \in DOMAIN a.parameters : Core(a.parameters[i]) = Core(b.parameters[i])
  <2>1. /\ DOMAIN Params(a) = DOMAIN Params(b)
        /\ \A i \in DOMAIN Params(a) : Params(a)[i] = Params(b)[i]
    BY <1>2
  <2>2. DOMAIN a.parameters = DOMAIN b.parameters
    BY <2>1
  <2> QED
    BY <2>1, <2>2
<1>5. /\ DOMAIN a.body = DOMAIN b.body
      /\ \A i \in DOMAIN a.body : Core(a.body[i]) = Core(b.body[i])
  <2>1. /\ DOMAIN Bodies(a) = DOMAIN Bodies(b)
        /\ \A i \in DOMAIN Bodies(a) : Bodies(a)[i] = Bodies(b)[i]
    BY <1>2
  <2>2. DOMAIN a.body = DOMAIN b.body
    BY <2>1
  <2> QED
    BY <2>1, <2>2
<1>6. ASSUME NEW i \in DOMAIN a.parameters
      PROVE  LET p == a.parameters[i]
                 q == b.parameters[i]
             IN /\ p.name = q.name /\ p.in = q.in /\ p.required = q.required
                /\ p.schema \in Schemas /\ q.schema \in Schemas
                /\ SignatureOf(p.schema) = SignatureOf(q.schema)
  <2> DEFINE p == a.parameters[i]
             q == b.parameters[i]
  <2>1. p \in Range(a.parameters) /\ q \in Range(b.parameters)
    BY <1>4 DEF Range
  <2>2. IsParameter(p) /\ IsParameter(q)
    BY <2>1 DEF Equal, IsResolved
  <2>3. Core(p) = Core(q)
    BY <1>4
  <2> HIDE DEF p, q
  <2>4. /\ p.name = q.name /\ p.in = q.in /\ p.required = q.required
        /\ NormalForm(p.schema) = NormalForm(q.schema)
    BY <2>2, <2>3, CoresAgree
  <2>5. p.schema \in Schemas /\ q.schema \in Schemas
    BY <2>2 DEF IsParameter
  <2>6. SignatureOf(p.schema) = SignatureOf(q.schema)
    BY <2>4, <2>5, EqualFormsSignAlike
  <2> QED
    BY <2>4, <2>5, <2>6 DEF p, q
<1>7. ASSUME NEW i \in DOMAIN a.body
      PROVE  /\ a.body[i].schema \in Schemas /\ b.body[i].schema \in Schemas
             /\ NormalForm(a.body[i].schema) = NormalForm(b.body[i].schema)
             /\ SignatureOf(a.body[i].schema) = SignatureOf(b.body[i].schema)
  <2> DEFINE p == a.body[i]
             q == b.body[i]
  <2>1. /\ a.body \in Seq([required : BOOLEAN, schema : Schemas])
        /\ b.body \in Seq([required : BOOLEAN, schema : Schemas])
    BY DEF Equal, IsResolved
  <2>2. p \in [required : BOOLEAN, schema : Schemas] /\ q \in [required : BOOLEAN, schema : Schemas]
    <3>1. i \in DOMAIN b.body
      BY <1>5
    <3> DEFINE R == [required : BOOLEAN, schema : Schemas]
               f == a.body
               g == b.body
    <3>2. f \in Seq(R) /\ g \in Seq(R) /\ i \in DOMAIN f /\ i \in DOMAIN g
      BY <2>1, <3>1
    <3> HIDE DEF R, f, g
    <3>3. f[i] \in R /\ g[i] \in R
      BY <3>2
    <3> QED
      BY <3>3 DEF R, f, g
  <2>3. Core(p) = Core(q)
    BY <1>5
  <2> HIDE DEF p, q
  <2>4. p.schema \in Schemas /\ q.schema \in Schemas /\ NormalForm(p.schema) = NormalForm(q.schema)
    BY <2>2, <2>3, BodyCoresAgree
  <2>5. SignatureOf(p.schema) = SignatureOf(q.schema)
    BY <2>4, EqualFormsSignAlike
  <2> QED
    BY <2>4, <2>5 DEF p, q
<1> QED
  BY <1>3, <1>4, <1>5, <1>6, <1>7

\* Equal hashes, equal contracts.
LEMMA EqualContracts ==
  ASSUME NEW a, NEW b, Equal(a, b)
  PROVE  a.contract = b.contract
<1> DEFINE p == a.parameters
           q == b.parameters
           Names(f) == {r.name : r \in {o \in Range(f) : o.required}}
           Fields(f) == UNION {GetOr(r.schema, "required", {}) : r \in Range(f)}
           OfParams(f) == [i \in DOMAIN f |-> Under(<<"param", f[i].in, f[i].name>>,
                                                   SignatureOf(f[i].schema))]
           OfBody(f) == [i \in DOMAIN f |-> Under(<<"body">>, SignatureOf(f[i].schema))]
<1>1. /\ DOMAIN p = DOMAIN q
      /\ \A i \in DOMAIN p : /\ p[i].name = q[i].name /\ p[i].in = q[i].in
                              /\ p[i].required = q[i].required
                              /\ SignatureOf(p[i].schema) = SignatureOf(q[i].schema)
  BY EqualOperations
<1>2. /\ DOMAIN a.body = DOMAIN b.body
      /\ \A i \in DOMAIN a.body : SignatureOf(a.body[i].schema) = SignatureOf(b.body[i].schema)
  BY EqualOperations
<1>3. \A i \in DOMAIN a.body :
         GetOr(a.body[i].schema, "required", {}) = GetOr(b.body[i].schema, "required", {})
  <2>1. "required" \in HashedKeys \ {"properties", "items"}
    BY DEF HashedKeys, StructKeys
  <2> SUFFICES ASSUME NEW i \in DOMAIN a.body
               PROVE  GetOr(a.body[i].schema, "required", {})
                        = GetOr(b.body[i].schema, "required", {})
    OBVIOUS
  <2>2. /\ a.body[i].schema \in Schemas /\ b.body[i].schema \in Schemas
        /\ NormalForm(a.body[i].schema) = NormalForm(b.body[i].schema)
    BY EqualOperations
  <2> QED
    BY <2>1, <2>2, FormsAgree DEF GetOr
<1>4. Keys(a.responses) = Keys(b.responses)
  BY EqualOperations
<1>5. Names(p) = Names(q)
  <2> HIDE DEF p, q
  <2> QED
    BY <1>1 DEF Range
<1>6. Fields(a.body) = Fields(b.body)
  <2>1. {GetOr(r.schema, "required", {}) : r \in Range(a.body)}
          = {GetOr(r.schema, "required", {}) : r \in Range(b.body)}
    BY <1>2, <1>3 DEF Range
  <2> QED
    BY <2>1
<1>7. OfParams(p) = OfParams(q) /\ OfBody(a.body) = OfBody(b.body)
  BY <1>1, <1>2
<1>8. /\ a.contract = Contract(a.parameters, a.body, a.responses)
      /\ b.contract = Contract(b.parameters, b.body, b.responses)
  BY DEF Equal, IsResolved
<1>9. ASSUME NEW f, NEW g, NEW r
      PROVE  Contract(f, g, r)
               = [required |-> Names(f) \cup Fields(g),
                  signature |-> Placed(FoldLeft(Written, {}, OfParams(f) \o OfBody(g))),
                  codes |-> Keys(r)]
  BY DEF Contract
<1> HIDE DEF Names, Fields, OfParams, OfBody
<1> QED
  BY <1>4, <1>5, <1>6, <1>7, <1>8, <1>9

LEMMA EqualMeanings ==
  ASSUME NEW a, NEW b, Equal(a, b), DropTheSame(a, b), NEW x \in JsonValues
  PROVE  Takes(a, x) <=> Takes(b, x)
<1>1. /\ DOMAIN a.body = DOMAIN b.body
      /\ \A i \in DOMAIN a.body : Meets(a.body[i].schema, x) <=> Meets(b.body[i].schema, x)
  <2>1. /\ DOMAIN a.body = DOMAIN b.body
        /\ \A i \in DOMAIN a.body :
             /\ a.body[i].schema \in Schemas /\ b.body[i].schema \in Schemas
             /\ NormalForm(a.body[i].schema) = NormalForm(b.body[i].schema)
    BY EqualOperations
  <2>2. \A i \in DOMAIN a.body : SameForms(a.body[i].schema, b.body[i].schema)
    BY <2>1 DEF SameForms, DropTheSame
  <2> QED
    BY <2>1, <2>2, EqualFormsAreAlike DEF Alike
<1>2. /\ a.body \in Seq([required : BOOLEAN, schema : Schemas])
      /\ b.body \in Seq([required : BOOLEAN, schema : Schemas])
  BY DEF Equal, IsResolved
<1>3. /\ a.body = <<>> <=> b.body = <<>>
      /\ a.body # <<>> => 1 \in DOMAIN a.body
  BY <1>1, <1>2, EmptySeq
<1> QED
  BY <1>1, <1>3 DEF Takes

LEMMA LastIsOne ==
  ASSUME NEW operations, operations \in Seq(Range(operations)),
         NEW id \in {operations[i].id : i \in DOMAIN operations}
  PROVE  LastOf(operations, id) \in Range(operations)
<1> DEFINE W == WithId(operations, id)
           T == {Len(operations) - i : i \in W}
<1>1. W \subseteq 1..Len(operations) /\ Len(operations) \in Nat /\ W # {}
  BY DEF WithId
<1>2. T \subseteq Nat /\ T # {}
  BY <1>1
<1>3. PICK n \in T : \A m \in T : n <= m
  BY <1>2, LeastNumber
<1>4. PICK i \in W : n = Len(operations) - i
  BY <1>3
<1>5. ASSUME NEW j \in W PROVE j <= i
  <2>1. Len(operations) - i <= Len(operations) - j
    BY <1>3, <1>4
  <2> QED
    BY <1>1, <2>1
<1> HIDE DEF W
<1>6. (CHOOSE k \in W : \A j \in W : j <= k) \in W
  BY <1>4, <1>5
<1> QED
  BY <1>6 DEF LastOf, WithId, W, Range

\* Documents of the two kinds of calls, by their parsed operations.
LEMMA OfTwoDocuments ==
  ASSUME NEW d \in Documents, ~Parsed(d).error, NEW id \in Parsed(d).ids
  PROVE  LET op == LastOf(Parsed(d).operations, id)
         IN /\ IsResolved(op)
            /\ Parsed(d).hashes[id] = HashOf(op)
            /\ Parsed(d).contracts[id] = op.contract
<1> DEFINE operations == Parsed(d).operations
<1>1. /\ operations \in Seq(Range(operations))
      /\ \A op \in Range(operations) : IsResolved(op)
      /\ Parsed(d) = ParsedApi(operations)
  BY ParserReturns
<1> HIDE DEF operations
<1>2. /\ Parsed(d).ids = {operations[i].id : i \in DOMAIN operations}
      /\ Parsed(d).hashes[id] = HashOf(LastOf(operations, id))
      /\ Parsed(d).contracts[id] = LastOf(operations, id).contract
  BY <1>1 DEF ParsedApi
<1>3. LastOf(operations, id) \in Range(operations)
  BY <1>1, <1>2, LastIsOne
<1> QED
  BY <1>1, <1>2, <1>3 DEF operations

\* Two parsed documents, one operation in both, with equal hashes.
LEMMA SameOperation ==
  ASSUME NEW d \in Documents, NEW e \in Documents, ~Parsed(d).error, ~Parsed(e).error,
         NEW id \in Parsed(d).ids \cap Parsed(e).ids,
         Parsed(d).hashes[id] = Parsed(e).hashes[id]
  PROVE  /\ Parsed(d).contracts[id] = Parsed(e).contracts[id]
         /\ DropTheSame(LastOf(Parsed(d).operations, id), LastOf(Parsed(e).operations, id)) =>
              \A x \in JsonValues :
                Takes(LastOf(Parsed(d).operations, id), x)
                  <=> Takes(LastOf(Parsed(e).operations, id), x)
<1> DEFINE a == LastOf(Parsed(d).operations, id)
           b == LastOf(Parsed(e).operations, id)
<1>1. /\ IsResolved(a) /\ Parsed(d).hashes[id] = HashOf(a)
      /\ Parsed(d).contracts[id] = a.contract
  BY OfTwoDocuments
<1>2. /\ IsResolved(b) /\ Parsed(e).hashes[id] = HashOf(b)
      /\ Parsed(e).contracts[id] = b.contract
  BY OfTwoDocuments
<1> HIDE DEF a, b
<1>3. Equal(a, b)
  BY <1>1, <1>2 DEF Equal
<1> QED
  BY <1>1, <1>2, <1>3, EqualContracts, EqualMeanings DEF a, b

\* What a comparison keeps of its two documents.
LEMMA ComparedOrNot ==
  ASSUME [Next]_call
  PROVE  \/ call' = call
         \/ call'.of \in {"request", "report", "timeout"}
         \/ \E d, e \in Documents :
               call' = [of |-> "documents", old |-> Parsed(d), new |-> Parsed(e)]
BY DEF Next, CompareDocuments, CreateTask, ReadReport, LimitTime

\* Whatever two documents say, operations with equal hashes have equal
\* contracts: everything a contract is made of is hashed, at any depth.
THEOREM HashesDetermineContracts == Spec => []HashDeterminesContract
<1>1. Init => HashDeterminesContract
  BY DEF Init, NoCall, HashDeterminesContract
<1>2. HashDeterminesContract /\ [Next]_call => HashDeterminesContract'
  <2> SUFFICES ASSUME HashDeterminesContract, [Next]_call PROVE HashDeterminesContract'
    OBVIOUS
  <2>1. CASE call' = call
    BY <2>1 DEF HashDeterminesContract
  <2>2. CASE call'.of \in {"request", "report", "timeout"}
    BY <2>2 DEF HashDeterminesContract
  <2>3. ASSUME NEW d \in Documents, NEW e \in Documents,
               call' = [of |-> "documents", old |-> Parsed(d), new |-> Parsed(e)]
        PROVE  HashDeterminesContract'
    <3>1. call'.old = Parsed(d) /\ call'.new = Parsed(e)
      BY <2>3
    <3> QED
      BY <3>1, SameOperation DEF HashDeterminesContract
  <2> QED
    BY <2>1, <2>2, <2>3, ComparedOrNot
<1> QED
  BY <1>1, <1>2, PTL DEF Spec

\* The operations of parsed documents are what NoBreakEscapes and
\* StepsMissNothing suppose of documents: the comparison of versions loses no
\* break to the parser.
THEOREM ParsedHashesTell ==
  HashesTell({VersionOf(Parsed(d)).ops : d \in {e \in Documents : ~Parsed(e).error}})
<1> SUFFICES ASSUME NEW d \in Documents, NEW e \in Documents,
                    ~Parsed(d).error, ~Parsed(e).error,
                    NEW id \in Parsed(d).ids \cap Parsed(e).ids,
                    Parsed(d).hashes[id] = Parsed(e).hashes[id]
             PROVE  Parsed(d).contracts[id] = Parsed(e).contracts[id]
  BY DEF HashesTell, VersionOf
<1> QED
  BY SameOperation

\* Whatever two documents say, an operation whose resolved body no longer takes
\* what it took is among the changed ones, or what it no longer takes is up to
\* additionalProperties, const or multipleOf, which the hash drops.
THEOREM NarrowingsAreSeen == Spec => []NarrowingIsSeen
<1>1. Init => NarrowingIsSeen
  BY DEF Init, NoCall, NarrowingIsSeen
<1>2. NarrowingIsSeen /\ [Next]_call => NarrowingIsSeen'
  <2> SUFFICES ASSUME NarrowingIsSeen, [Next]_call PROVE NarrowingIsSeen'
    OBVIOUS
  <2>1. CASE call' = call
    BY <2>1 DEF NarrowingIsSeen
  <2>2. CASE call'.of \in {"request", "report", "timeout"}
    BY <2>2 DEF NarrowingIsSeen
  <2>3. ASSUME NEW d \in Documents, NEW e \in Documents,
               call' = [of |-> "documents", old |-> Parsed(d), new |-> Parsed(e)]
        PROVE  NarrowingIsSeen'
    <3>1. call'.old = Parsed(d) /\ call'.new = Parsed(e)
      BY <2>3
    <3>2. SUFFICES ASSUME ~Parsed(d).error, ~Parsed(e).error,
                          NEW id \in Parsed(d).ids \cap Parsed(e).ids,
                          DropTheSame(LastOf(Parsed(d).operations, id),
                                      LastOf(Parsed(e).operations, id)),
                          NEW x \in JsonValues,
                          Takes(LastOf(Parsed(d).operations, id), x),
                          ~Takes(LastOf(Parsed(e).operations, id), x)
                   PROVE  id \in Changed(VersionOf(Parsed(d)), VersionOf(Parsed(e)))
      BY <3>1 DEF NarrowingIsSeen
    <3>3. Parsed(d).hashes[id] # Parsed(e).hashes[id]
      BY <3>2, SameOperation
    <3> QED
      BY <3>3 DEF Changed, VersionOf
  <2> QED
    BY <2>1, <2>2, <2>3, ComparedOrNot
<1> QED
  BY <1>1, <1>2, PTL DEF Spec

-----------------------------------------------------------------------------
\* Reports.  The counters are sums over the suites, the entries a set of places:
\* both are counted suite by suite.

Row(i, R) == {<<i, j>> : j \in R}

Grid(n, B) == UNION {Row(i, B[i]) : i \in 1..n}

\* A sum that is made step by step.
Sums(sum, suites, attribute) ==
  /\ sum[0] = 0
  /\ \A n \in 1..Len(suites) : sum[n] = sum[n - 1] + suites[n][attribute]

LEMMA SumsExist ==
  ASSUME NEW S, NEW suites \in Seq(S), NEW attribute
  PROVE  \E f : Sums(f, suites, attribute) /\ DOMAIN f = 0..Len(suites)
                  /\ f = [n \in 0..Len(suites) |-> f[n]]
<1> DEFINE Upto(m) == \E f : /\ f = [n \in 0..m |-> f[n]] /\ f[0] = 0
                             /\ \A n \in 1..m : f[n] = f[n - 1] + suites[n][attribute]
           Missing == {m \in Nat : ~Upto(m)}
<1>1. Missing = {}
  <2> SUFFICES ASSUME Missing # {}
               PROVE  FALSE
    OBVIOUS
  <2>1. PICK m \in Missing : \A k \in Missing : m <= k
    <3>1. Missing \subseteq Nat
      OBVIOUS
    <3> HIDE DEF Missing
    <3> QED
      BY <3>1, LeastNumber
  <2>2. m \in Nat /\ ~Upto(m)
    OBVIOUS
  <2>3. CASE m = 0
    <3> DEFINE f == [n \in 0..0 |-> 0]
    <3>1. f = [n \in 0..0 |-> f[n]] /\ f[0] = 0
      OBVIOUS
    <3>2. \A n \in 1..0 : f[n] = f[n - 1] + suites[n][attribute]
      OBVIOUS
    <3> HIDE DEF f
    <3>3. Upto(0)
      BY <3>1, <3>2
    <3> QED
      BY <2>2, <2>3, <3>3
  <2>4. CASE m # 0
    <3>1. m - 1 \in Nat /\ ~(m <= m - 1)
      BY <2>2, <2>4
    <3>2. Upto(m - 1)
      BY <2>1, <3>1
    <3>3. PICK f : /\ f = [n \in 0..(m - 1) |-> f[n]] /\ f[0] = 0
                   /\ \A n \in 1..(m - 1) : f[n] = f[n - 1] + suites[n][attribute]
      BY <3>2
    <3> DEFINE g == [n \in 0..m |-> IF n < m THEN f[n] ELSE f[m - 1] + suites[m][attribute]]
    <3>4. g = [n \in 0..m |-> g[n]] /\ g[0] = 0
      BY <2>2, <2>4, <3>3
    <3>5. ASSUME NEW n \in 1..m
          PROVE  g[n] = g[n - 1] + suites[n][attribute]
      <4>1. n - 1 \in 0..m /\ n - 1 < m /\ n \in 0..m
        BY <2>2
      <4>2. g[n - 1] = f[n - 1]
        BY <4>1
      <4>3. CASE n < m
        <5>1. n \in 1..(m - 1)
          BY <2>2, <4>3
        <5>2. g[n] = f[n]
          BY <4>1, <4>3
        <5> HIDE DEF g
        <5> QED
          BY <3>3, <4>2, <5>1, <5>2
      <4>4. CASE n = m
        <5>1. g[n] = f[m - 1] + suites[m][attribute]
          BY <4>1, <4>4
        <5> HIDE DEF g
        <5> QED
          BY <4>2, <4>4, <5>1
      <4> QED
        BY <2>2, <4>3, <4>4
    <3> HIDE DEF g
    <3>6. Upto(m)
      BY <3>4, <3>5
    <3> QED
      BY <2>2, <3>6
  <2> QED
    BY <2>3, <2>4
<1>2. Len(suites) \in Nat
  OBVIOUS
<1>3. Upto(Len(suites))
  BY <1>1, <1>2
<1> HIDE DEF Missing
<1> QED
  BY <1>3 DEF Sums

LEMMA TotalIsSum ==
  ASSUME NEW S, NEW suites \in Seq(S), NEW attribute
  PROVE  \E sum : Sums(sum, suites, attribute) /\ Total(suites, attribute) = sum[Len(suites)]
<1> DEFINE F(f) == [n \in 0..Len(suites) |->
                      IF n = 0 THEN 0 ELSE f[n - 1] + suites[n][attribute]]
           sum == CHOOSE f : f = F(f)
<1>1. PICK f : Sums(f, suites, attribute) /\ f = [n \in 0..Len(suites) |-> f[n]]
  BY SumsExist
<1>2. f = F(f)
  <2>1. Len(suites) \in Nat
    OBVIOUS
  <2>2. \A n \in 0..Len(suites) :
          f[n] = IF n = 0 THEN 0 ELSE f[n - 1] + suites[n][attribute]
    BY <1>1, <2>1 DEF Sums
  <2> QED
    BY <1>1, <2>2
<1>3. sum = F(sum)
  BY <1>2
<1>4. Total(suites, attribute) = sum[Len(suites)]
  BY DEF Total
<1>5. \A n \in 0..Len(suites) :
        F(sum)[n] = IF n = 0 THEN 0 ELSE sum[n - 1] + suites[n][attribute]
  OBVIOUS
<1>6. Sums(sum, suites, attribute)
  <2> HIDE DEF sum, F
  <2>1. \A n \in 0..Len(suites) :
          sum[n] = IF n = 0 THEN 0 ELSE sum[n - 1] + suites[n][attribute]
    BY <1>3, <1>5
  <2>2. Len(suites) \in Nat
    OBVIOUS
  <2> QED
    BY <2>1, <2>2 DEF Sums
<1> HIDE DEF sum
<1> QED
  BY <1>4, <1>6

LEMMA FirstNumbers ==
  ASSUME NEW k \in Nat
  PROVE  IsFiniteSet(1..k) /\ Cardinality(1..k) = k
<1>1. IsFiniteSet(1..k)
  BY FS_Interval
<1>2. CASE k = 0
  <2>1. 1..k = {}
    BY <1>2
  <2> QED
    BY <1>2, <2>1, FS_EmptySet
<1>3. CASE k # 0
  <2>1. ~(1 > k) /\ k - 1 + 1 = k
    BY <1>3
  <2> QED
    BY <1>1, <2>1, FS_Interval
<1> QED
  BY <1>2, <1>3

LEMMA DisjointCount ==
  ASSUME NEW S, NEW T, IsFiniteSet(S), IsFiniteSet(T), S \cap T = {}
  PROVE  /\ IsFiniteSet(S \cup T)
         /\ Cardinality(S \cup T) = Cardinality(S) + Cardinality(T)
<1>1. /\ IsFiniteSet(S \cup T)
      /\ Cardinality(S \cup T) = Cardinality(S) + Cardinality(T) - Cardinality(S \cap T)
  BY FS_Union
<1>2. Cardinality(S) \in Nat /\ Cardinality(T) \in Nat
  BY FS_CardinalityType
<1>3. Cardinality(S \cap T) = 0
  BY FS_EmptySet
<1> QED
  BY <1>1, <1>2, <1>3

\* Suite by suite, the cells of a row are counted once.
LEMMA RowCount ==
  ASSUME NEW i, NEW R, IsFiniteSet(R)
  PROVE  IsFiniteSet(Row(i, R)) /\ Cardinality(Row(i, R)) = Cardinality(R)
<1> DEFINE f == [j \in R |-> <<i, j>>]
<1>1. f \in [R -> Row(i, R)]
  BY DEF Row
<1>2. \A a, b \in R : f[a] = f[b] => a = b
  OBVIOUS
<1>3. \A t \in Row(i, R) : \E s \in R : f[s] = t
  BY DEF Row
<1> HIDE DEF f
<1>4. f \in Bijection(R, Row(i, R))
  BY <1>1, <1>2, <1>3 DEF Bijection, Injection, Surjection, IsInjective
<1>5. ExistsBijection(R, Row(i, R))
  BY <1>4 DEF ExistsBijection
<1> QED
  BY <1>5, FS_Bijection

LEMMA GridGrows ==
  ASSUME NEW n \in Nat, n # 0, NEW B
  PROVE  /\ Grid(n, B) = Grid(n - 1, B) \cup Row(n, B[n])
         /\ Grid(n - 1, B) \cap Row(n, B[n]) = {}
<1>1. \A i : i \in 1..n <=> i \in 1..(n - 1) \/ i = n
  OBVIOUS
<1>2. n \notin 1..(n - 1)
  OBVIOUS
<1>3. Grid(n, B) = Grid(n - 1, B) \cup Row(n, B[n])
  BY <1>1 DEF Grid
<1>4. Grid(n - 1, B) \cap Row(n, B[n]) = {}
  BY <1>2 DEF Grid, Row
<1> QED
  BY <1>3, <1>4

LEMMA GridCount ==
  ASSUME NEW n \in Nat, NEW B, NEW sum, sum[0] = 0,
         \A k \in 1..n : IsFiniteSet(B[k]) /\ sum[k] = sum[k - 1] + Cardinality(B[k])
  PROVE  IsFiniteSet(Grid(n, B)) /\ Cardinality(Grid(n, B)) = sum[n]
<1> DEFINE Counted_(k) == IsFiniteSet(Grid(k, B)) /\ Cardinality(Grid(k, B)) = sum[k]
           Bad == {k \in 0..n : ~Counted_(k)}
<1>1. Bad = {}
  <2> SUFFICES ASSUME Bad # {}
               PROVE  FALSE
    OBVIOUS
  <2>1. PICK m \in Bad : \A k \in Bad : m <= k
    <3>1. Bad \subseteq Nat
      OBVIOUS
    <3> HIDE DEF Bad
    <3> QED
      BY <3>1, LeastNumber
  <2>2. m \in 0..n /\ ~Counted_(m)
    OBVIOUS
  <2>3. CASE m = 0
    <3>1. Grid(0, B) = {}
      BY DEF Grid
    <3> QED
      BY <2>2, <2>3, <3>1, FS_EmptySet
  <2>4. CASE m # 0
    <3> DEFINE row == Row(m, B[m])
    <3>1. m \in Nat /\ m \in 1..n /\ m - 1 \in 0..n /\ ~(m <= m - 1)
      BY <2>2, <2>4
    <3>2. Counted_(m - 1)
      BY <2>1, <3>1
    <3>3. IsFiniteSet(row) /\ Cardinality(row) = Cardinality(B[m])
      BY <3>1, RowCount
    <3>4. Grid(m, B) = Grid(m - 1, B) \cup row /\ Grid(m - 1, B) \cap row = {}
      BY <2>4, <3>1, GridGrows
    <3> HIDE DEF row
    <3>5. /\ IsFiniteSet(Grid(m, B))
          /\ Cardinality(Grid(m, B)) = Cardinality(Grid(m - 1, B)) + Cardinality(row)
      BY <3>2, <3>3, <3>4, DisjointCount
    <3>6. Counted_(m)
      BY <3>1, <3>2, <3>3, <3>5
    <3> QED
      BY <2>2, <3>6
  <2> QED
    BY <2>3, <2>4
<1> HIDE DEF Counted_
<1>2. Counted_(n)
  BY <1>1
<1> QED
  BY <1>2 DEF Counted_

LEMMA CountedBySuites ==
  ASSUME NEW S, NEW suites \in Seq(S), NEW attribute, NEW B,
         \A i \in 1..Len(suites) :
            IsFiniteSet(B[i]) /\ suites[i][attribute] = Cardinality(B[i])
  PROVE  /\ IsFiniteSet(Grid(Len(suites), B))
         /\ Cardinality(Grid(Len(suites), B)) = Total(suites, attribute)
<1>1. PICK sum : Sums(sum, suites, attribute) /\ Total(suites, attribute) = sum[Len(suites)]
  BY TotalIsSum
<1>2. Len(suites) \in Nat
  OBVIOUS
<1> DEFINE n == Len(suites)
<1>3. /\ sum[0] = 0
      /\ \A k \in 1..n : IsFiniteSet(B[k]) /\ sum[k] = sum[k - 1] + Cardinality(B[k])
  BY <1>1 DEF Sums
<1> HIDE DEF n
<1>4. IsFiniteSet(Grid(n, B)) /\ Cardinality(Grid(n, B)) = sum[n]
  BY <1>2, <1>3, GridCount DEF n
<1> QED
  BY <1>1, <1>4 DEF n

\* Every case of a report has a name, one outcome and thus one status.
LEMMA ReportIs ==
  ASSUME NEW suites \in Reports, NEW i \in 1..Len(suites)
  PROVE  /\ suites \in Seq(Range(suites))
         /\ IsOfPytest(suites[i])
         /\ DOMAIN suites[i].cases = 1..Len(suites[i].cases)
         /\ Len(suites[i].cases) \in Nat
         /\ \A j \in DOMAIN suites[i].cases :
               /\ suites[i].cases[j].name # NoCase
               /\ suites[i].cases[j].marks \in {{}, {"failure"}, {"error"}, {"skipped"}}
<1>1. suites \in Seq(Range(suites)) /\ suites[i] \in Range(suites)
  BY ReportsAssumption DEF Range
<1>2. IsOfPytest(suites[i])
  BY <1>1, ReportsAssumption
<1> DEFINE cases == suites[i].cases
<1>3. /\ cases \in Seq(Range(cases))
      /\ \A tc \in Range(cases) :
            tc.name # NoCase /\ tc.marks \in {{}, {"failure"}, {"error"}, {"skipped"}}
  BY <1>2 DEF IsOfPytest
<1> HIDE DEF cases
<1>4. DOMAIN cases = 1..Len(cases) /\ Len(cases) \in Nat
  BY <1>3
<1>5. \A j \in DOMAIN cases : cases[j] \in Range(cases)
  BY DEF Range
<1> QED
  BY <1>1, <1>2, <1>3, <1>4, <1>5 DEF cases

LEMMA StatusIs ==
  ASSUME NEW marks \in {{}, {"failure"}, {"error"}, {"skipped"}}
  PROVE  /\ Status(marks) \in {"pass", "fail", "error", "skipped"}
         /\ Status(marks) = "fail" <=> "failure" \in marks
         /\ Status(marks) = "error" <=> "error" \in marks
         /\ Status(marks) = "skipped" <=> "skipped" \in marks
<1>1. CASE marks = {}
  BY <1>1 DEF Status
<1>2. CASE marks = {"failure"}
  BY <1>2 DEF Status
<1>3. CASE marks = {"error"}
  BY <1>3 DEF Status
<1>4. CASE marks = {"skipped"}
  BY <1>4 DEF Status
<1> QED
  BY <1>1, <1>2, <1>3, <1>4

\* The status at a place, and the places of some statuses.
StatusAt(suites, p) == Status(suites[p[1]].cases[p[2]].marks)

PlacesOf(suites, statuses) == {p \in Places(suites) : StatusAt(suites, p) \in statuses}

RowsOf(suites, statuses) ==
  [i \in 1..Len(suites) |->
     {j \in DOMAIN suites[i].cases : Status(suites[i].cases[j].marks) \in statuses}]

LEMMA PlacesAreGrid ==
  ASSUME NEW suites \in Reports, NEW statuses
  PROVE  PlacesOf(suites, statuses) = Grid(Len(suites), RowsOf(suites, statuses))
<1> DEFINE B == RowsOf(suites, statuses)
           n == Len(suites)
<1>1. DOMAIN suites = 1..n
  BY ReportsAssumption
<1>2. \A i \in 1..n : NamedCases(suites[i]) = DOMAIN suites[i].cases
  BY ReportIs DEF NamedCases
<1>3. Places(suites) = UNION {{<<i, j>> : j \in DOMAIN suites[i].cases} : i \in 1..n}
  BY <1>1, <1>2 DEF Places
<1>4. \A i \in 1..n : B[i] = {j \in DOMAIN suites[i].cases :
                                 Status(suites[i].cases[j].marks) \in statuses}
  BY DEF RowsOf
<1> HIDE DEF B, n
<1>5. ASSUME NEW p \in PlacesOf(suites, statuses)
      PROVE  p \in Grid(n, B)
  <2>1. PICK i \in 1..n : p \in {<<i, j>> : j \in DOMAIN suites[i].cases}
    BY <1>3 DEF PlacesOf
  <2>2. PICK j \in DOMAIN suites[i].cases : p = <<i, j>>
    BY <2>1
  <2>3. j \in B[i]
    BY <1>4, <2>2 DEF PlacesOf, StatusAt
  <2> QED
    BY <2>2, <2>3 DEF Grid, Row
<1>6. ASSUME NEW p \in Grid(n, B)
      PROVE  p \in PlacesOf(suites, statuses)
  <2>1. PICK i \in 1..n : p \in Row(i, B[i])
    BY DEF Grid
  <2>2. PICK j \in B[i] : p = <<i, j>>
    BY <2>1 DEF Row
  <2>3. j \in DOMAIN suites[i].cases /\ Status(suites[i].cases[j].marks) \in statuses
    BY <1>4, <2>2
  <2> QED
    BY <1>3, <2>2, <2>3 DEF PlacesOf, StatusAt
<1>7. PlacesOf(suites, statuses) = Grid(n, B)
  BY <1>5, <1>6
<1> QED
  BY <1>7 DEF n, B

LEMMA CountedByStatus ==
  ASSUME NEW suites \in Reports, NEW attribute, NEW statuses,
         \A i \in 1..Len(suites) :
            suites[i][attribute] = Cardinality(RowsOf(suites, statuses)[i])
  PROVE  /\ IsFiniteSet(PlacesOf(suites, statuses))
         /\ Cardinality(PlacesOf(suites, statuses)) = Total(suites, attribute)
<1>1. ASSUME NEW i \in 1..Len(suites)
      PROVE  IsFiniteSet(RowsOf(suites, statuses)[i])
  <2>1. IsFiniteSet(DOMAIN suites[i].cases)
    BY ReportIs, FirstNumbers
  <2>2. RowsOf(suites, statuses)[i] \subseteq DOMAIN suites[i].cases
    BY DEF RowsOf
  <2> QED
    BY <2>1, <2>2, FS_Subset
<1>2. suites \in Seq(Range(suites))
  BY ReportsAssumption
<1> DEFINE B == RowsOf(suites, statuses)
<1>3. \A i \in 1..Len(suites) :
         IsFiniteSet(B[i]) /\ suites[i][attribute] = Cardinality(B[i])
  BY <1>1
<1> HIDE DEF B
<1>4. /\ IsFiniteSet(Grid(Len(suites), B))
      /\ Cardinality(Grid(Len(suites), B)) = Total(suites, attribute)
  BY <1>2, <1>3, CountedBySuites
<1> QED
  BY <1>4, PlacesAreGrid DEF B

AllStatuses == {"pass", "fail", "error", "skipped"}

\* Each attribute counts the places of its status.
LEMMA AttributesCount ==
  ASSUME NEW suites \in Reports
  PROVE  /\ IsFiniteSet(PlacesOf(suites, AllStatuses))
         /\ Cardinality(PlacesOf(suites, AllStatuses)) = Total(suites, "tests")
         /\ Cardinality(PlacesOf(suites, {"fail"})) = Total(suites, "failures")
         /\ Cardinality(PlacesOf(suites, {"error"})) = Total(suites, "errors")
         /\ Cardinality(PlacesOf(suites, {"skipped"})) = Total(suites, "skipped")
<1>1. ASSUME NEW i \in 1..Len(suites)
      PROVE  /\ suites[i]["tests"] = Cardinality(RowsOf(suites, AllStatuses)[i])
             /\ suites[i]["failures"] = Cardinality(RowsOf(suites, {"fail"})[i])
             /\ suites[i]["errors"] = Cardinality(RowsOf(suites, {"error"})[i])
             /\ suites[i]["skipped"] = Cardinality(RowsOf(suites, {"skipped"})[i])
  <2> DEFINE cases == suites[i].cases
  <2>1. /\ suites[i].tests = Len(cases)
        /\ suites[i].failures = With(cases, "failure")
        /\ suites[i].errors = With(cases, "error")
        /\ suites[i].skipped = With(cases, "skipped")
    BY ReportIs DEF IsOfPytest
  <2>2. \A j \in DOMAIN cases :
           /\ Status(cases[j].marks) \in AllStatuses
           /\ Status(cases[j].marks) = "fail" <=> "failure" \in cases[j].marks
           /\ Status(cases[j].marks) = "error" <=> "error" \in cases[j].marks
           /\ Status(cases[j].marks) = "skipped" <=> "skipped" \in cases[j].marks
    BY ReportIs, StatusIs DEF AllStatuses
  <2>3. Len(cases) = Cardinality(DOMAIN cases)
    BY ReportIs, FirstNumbers
  <2>4. /\ RowsOf(suites, AllStatuses)[i] = DOMAIN cases
        /\ RowsOf(suites, {"fail"})[i] = {j \in DOMAIN cases : "failure" \in cases[j].marks}
        /\ RowsOf(suites, {"error"})[i] = {j \in DOMAIN cases : "error" \in cases[j].marks}
        /\ RowsOf(suites, {"skipped"})[i] = {j \in DOMAIN cases : "skipped" \in cases[j].marks}
    BY <2>2 DEF RowsOf
  <2> QED
    BY <2>1, <2>3, <2>4 DEF With
<1> QED
  BY <1>1, CountedByStatus

\* What has neither failed, nor ended in an error, nor been skipped has passed.
LEMMA StatusesAddUp ==
  ASSUME NEW suites \in Reports
  PROVE  /\ PlacesOf(suites, AllStatuses) = Places(suites)
         /\ Cardinality(PlacesOf(suites, {"fail", "error"}))
              = Total(suites, "failures") + Total(suites, "errors")
         /\ Cardinality(PlacesOf(suites, {"pass"}))
              = Total(suites, "tests") - Total(suites, "failures")
                  - Total(suites, "errors") - Total(suites, "skipped")
<1> DEFINE Of(statuses) == PlacesOf(suites, statuses)
<1>1. Of(AllStatuses) = Places(suites)
  <2>1. ASSUME NEW p \in Places(suites)
        PROVE  StatusAt(suites, p) \in AllStatuses
    <3>1. PICK i \in DOMAIN suites : p \in {<<i, j>> : j \in NamedCases(suites[i])}
      BY DEF Places
    <3>2. PICK j \in DOMAIN suites[i].cases : p = <<i, j>>
      BY <3>1 DEF NamedCases
    <3>3. i \in 1..Len(suites)
      BY ReportsAssumption
    <3> QED
      BY <3>2, <3>3, ReportIs, StatusIs DEF StatusAt, AllStatuses
  <2> QED
    BY <2>1 DEF PlacesOf
<1>2. /\ Of({"fail", "error"}) = Of({"fail"}) \cup Of({"error"})
      /\ Of({"fail"}) \cap Of({"error"}) = {}
      /\ Of(AllStatuses) = (Of({"fail", "error"}) \cup Of({"skipped"})) \cup Of({"pass"})
      /\ Of({"fail", "error"}) \cap Of({"skipped"}) = {}
      /\ (Of({"fail", "error"}) \cup Of({"skipped"})) \cap Of({"pass"}) = {}
  BY DEF PlacesOf, AllStatuses
<1>3. \A statuses \in SUBSET AllStatuses : Of(statuses) \subseteq Of(AllStatuses)
  BY DEF PlacesOf
<1>4. \A statuses \in SUBSET AllStatuses :
         IsFiniteSet(Of(statuses)) /\ Cardinality(Of(statuses)) \in Nat
  BY <1>3, AttributesCount, FS_Subset, FS_CardinalityType
<1>5. /\ IsFiniteSet(Of({"fail"})) /\ IsFiniteSet(Of({"error"}))
      /\ IsFiniteSet(Of({"skipped"})) /\ IsFiniteSet(Of({"pass"}))
      /\ IsFiniteSet(Of({"fail", "error"}))
      /\ Cardinality(Of({"fail"})) \in Nat /\ Cardinality(Of({"error"})) \in Nat
      /\ Cardinality(Of({"skipped"})) \in Nat /\ Cardinality(Of({"pass"})) \in Nat
  BY <1>4 DEF AllStatuses
<1> HIDE DEF Of
<1>6. Cardinality(Of({"fail", "error"}))
        = Cardinality(Of({"fail"})) + Cardinality(Of({"error"}))
  BY <1>2, <1>5, DisjointCount
<1> DEFINE most == Of({"fail", "error"}) \cup Of({"skipped"})
<1>7. /\ IsFiniteSet(most)
      /\ Cardinality(most) = Cardinality(Of({"fail", "error"})) + Cardinality(Of({"skipped"}))
  BY <1>2, <1>5, DisjointCount
<1>8. Of(AllStatuses) = most \cup Of({"pass"}) /\ most \cap Of({"pass"}) = {}
  BY <1>2
<1> HIDE DEF most
<1>9. Cardinality(most) \in Nat
  BY <1>7, FS_CardinalityType
<1>10. Cardinality(Of(AllStatuses)) = Cardinality(most) + Cardinality(Of({"pass"}))
  BY <1>5, <1>7, <1>8, DisjointCount
<1>11. /\ Cardinality(Of(AllStatuses)) = Total(suites, "tests")
       /\ Cardinality(Of({"fail"})) = Total(suites, "failures")
       /\ Cardinality(Of({"error"})) = Total(suites, "errors")
       /\ Cardinality(Of({"skipped"})) = Total(suites, "skipped")
  BY AttributesCount DEF Of
<1>12. Cardinality(Of({"pass"}))
         = Total(suites, "tests") - Total(suites, "failures")
             - Total(suites, "errors") - Total(suites, "skipped")
  BY <1>5, <1>6, <1>7, <1>9, <1>10, <1>11
<1> QED
  BY <1>1, <1>6, <1>11, <1>12 DEF Of

LEMMA ReportCounts ==
  ASSUME NEW suites \in Reports, ~ParseJunit(suites).error
  PROVE  LET r == ParseJunit(suites)
             Are(statuses) ==
               Cardinality({p \in DOMAIN r.entries : r.entries[p].status \in statuses})
         IN /\ r.total = Cardinality(DOMAIN r.entries)
            /\ r.passed = Are({"pass"})
            /\ r.failed = Are({"fail", "error"})
            /\ r.skipped = Are({"skipped"})
<1> DEFINE r == ParseJunit(suites)
<1>1. ~\E i \in DOMAIN suites : suites[i].malformed
  BY DEF ParseJunit, Failed
<1>2. /\ r.total = Total(suites, "tests")
      /\ r.failed = Total(suites, "failures") + Total(suites, "errors")
      /\ r.skipped = Total(suites, "skipped")
      /\ r.passed = Total(suites, "tests") - Total(suites, "failures")
                      - Total(suites, "errors") - Total(suites, "skipped")
      /\ r.entries = [p \in Places(suites) |->
                        [case |-> suites[p[1]].cases[p[2]].name,
                         status |-> Status(suites[p[1]].cases[p[2]].marks)]]
  BY <1>1 DEF ParseJunit, Passed
<1> HIDE DEF r
<1>3. DOMAIN r.entries = Places(suites)
  BY <1>2
<1>4. \A p \in Places(suites) : r.entries[p].status = StatusAt(suites, p)
  BY <1>2 DEF StatusAt
<1>5. ASSUME NEW statuses
      PROVE  {p \in DOMAIN r.entries : r.entries[p].status \in statuses}
               = PlacesOf(suites, statuses)
  BY <1>3, <1>4 DEF PlacesOf
<1> QED
  BY <1>2, <1>3, <1>5, AttributesCount, StatusesAddUp DEF r

\* The counters that a task keeps agree with its results, whatever the report
\* of pytest: any number of suites, of cases and of skipped ones.
THEOREM CountersAgree == Spec => []CountersMatchTheEntries
<1>1. Init => CountersMatchTheEntries
  BY DEF Init, NoCall, CountersMatchTheEntries
<1>2. CountersMatchTheEntries /\ [Next]_call => CountersMatchTheEntries'
  <2> SUFFICES ASSUME CountersMatchTheEntries, [Next]_call
               PROVE  CountersMatchTheEntries'
    OBVIOUS
  <2>1. CASE ReadReport
    <3>1. PICK suites \in Reports : call' = [of |-> "report", report |-> ParseJunit(suites)]
      BY <2>1 DEF ReadReport
    <3>2. call'.report = ParseJunit(suites)
      BY <3>1
    <3> QED
      BY <3>2, ReportCounts DEF CountersMatchTheEntries
  <2>2. CASE call' = call
    BY <2>2 DEF CountersMatchTheEntries
  <2>3. CASE CompareDocuments \/ CreateTask \/ LimitTime
    <3>1. call'.of \in {"documents", "request", "timeout"}
      BY <2>3 DEF CompareDocuments, CreateTask, LimitTime
    <3> QED
      BY <3>1 DEF CountersMatchTheEntries
  <2> QED
    BY <2>1, <2>2, <2>3 DEF Next
<1> QED
  BY <1>1, <1>2, PTL DEF Spec
=============================================================================
