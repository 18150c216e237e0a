-------------------------- MODULE ApiVersionsProofs --------------------------
(***************************************************************************)
(* Theorems about ApiVersions, for any number of requests and web threads, *)
(* any documents and labels, any number of hash versions, and databases    *)
(* that give the highest id again as well as those that do not.            *)
(*                                                                         *)
(* Typed is what every step keeps by itself: ids and labels tell versions  *)
(* apart, so that there are finitely many and a latest one.  On it rest    *)
(* the two arguments: what a request has compared is still about the       *)
(* latest version when it writes (ReportedOrAboutToBe), and an id that a   *)
(* request remembers is never given to a version of another label          *)
(* (BindingsHold).                                                         *)
(***************************************************************************)
EXTENDS ApiVersions, FiniteSetTheorems, WellFoundedInduction, TLAPS

-----------------------------------------------------------------------------
\* Comparing versions one after the other misses nothing that comparing the
\* first with the last would report.

\* The hash determines the contract: the keys the contract is made of are all
\* hashed (openapi_parser: _hash_op, _extract_contract).
HashesAgree(v1, v2) ==
  \A op \in DOMAIN v1.ops \cap DOMAIN v2.ops :
    v1.hv = v2.hv /\ v1.ops[op].hash = v2.ops[op].hash
      => v1.ops[op].contract = v2.ops[op].contract

\* Two changes that break nobody break nobody together: a client of the first
\* contract is served by the third (_is_breaking).
THEOREM NonBreakingIsTransitive ==
  ASSUME NEW a, NEW b, NEW c, ~IsBreaking(a, b), ~IsBreaking(b, c)
  PROVE  ~IsBreaking(a, c)
<1>1. a # NoContract /\ c # NoContract
  BY DEF IsBreaking
<1>2. ~RequiredTightened(a, c)
  BY DEF IsBreaking, RequiredTightened
<1>3. ~CodesLost(a, c)
  BY DEF IsBreaking, CodesLost
<1>4. /\ DOMAIN a.signature \subseteq DOMAIN b.signature
      /\ DOMAIN b.signature \subseteq DOMAIN c.signature
  BY DEF IsBreaking, FieldsLost
<1>5. ~FieldsLost(a, c)
  BY <1>4 DEF FieldsLost
<1>6. ~FieldChanged(a, c)
  <2> SUFFICES ASSUME NEW f \in DOMAIN a.signature
               PROVE  /\ a.signature[f].type = c.signature[f].type
                      /\ a.signature[f].enum \subseteq c.signature[f].enum
    BY DEF FieldChanged
  <2>1. f \in DOMAIN b.signature /\ f \in DOMAIN c.signature
    BY <1>4
  <2>2. /\ a.signature[f].type = b.signature[f].type
        /\ a.signature[f].enum \subseteq b.signature[f].enum
    BY <2>1 DEF IsBreaking, FieldChanged
  <2>3. /\ b.signature[f].type = c.signature[f].type
        /\ b.signature[f].enum \subseteq c.signature[f].enum
    BY <2>1 DEF IsBreaking, FieldChanged
  <2> QED
    BY <2>2, <2>3
<1> QED
  BY <1>1, <1>2, <1>3, <1>5, <1>6 DEF IsBreaking

\* What two consecutive analyses report covers what one analysis over both
\* versions would: an operation that breaks between v1 and v3 breaks on the
\* way, or was removed on the way (ImpactService.analyze compares with the
\* latest version only).
THEOREM StepsMissNothing ==
  ASSUME NEW v1, NEW v2, NEW v3, HashesAgree(v1, v2), HashesAgree(v2, v3)
  PROVE  Reported(v1, v3) \subseteq Reported(v1, v2) \cup Reported(v2, v3)
<1> SUFFICES ASSUME NEW op \in Reported(v1, v3),
                    op \notin Reported(v1, v2), op \notin Reported(v2, v3)
             PROVE  FALSE
  OBVIOUS
<1>1. op \in DOMAIN v1.ops
  BY DEF Reported, Breaking, Changed, Removed
<1>2. op \in DOMAIN v2.ops /\ op \in DOMAIN v3.ops
  BY <1>1 DEF Reported, Removed
<1>3. /\ op \in Changed(v1, v3)
      /\ IsBreaking(v1.ops[op].contract, v3.ops[op].contract)
  BY <1>2 DEF Reported, Removed, Breaking
<1>4. \/ v1.hv = v2.hv /\ v1.ops[op].hash = v2.ops[op].hash
      \/ ~IsBreaking(v1.ops[op].contract, v2.ops[op].contract)
  BY <1>1, <1>2 DEF Reported, Breaking, Changed
<1>5. \/ v2.hv = v3.hv /\ v2.ops[op].hash = v3.ops[op].hash
      \/ ~IsBreaking(v2.ops[op].contract, v3.ops[op].contract)
  BY <1>1, <1>2 DEF Reported, Breaking, Changed
<1>6. \/ v1.hv = v2.hv /\ v1.ops[op].hash = v2.ops[op].hash
           /\ v1.ops[op].contract = v2.ops[op].contract
      \/ ~IsBreaking(v1.ops[op].contract, v2.ops[op].contract)
  BY <1>1, <1>2, <1>4 DEF HashesAgree
<1>7. \/ v2.hv = v3.hv /\ v2.ops[op].hash = v3.ops[op].hash
           /\ v2.ops[op].contract = v3.ops[op].contract
      \/ ~IsBreaking(v2.ops[op].contract, v3.ops[op].contract)
  BY <1>2, <1>5 DEF HashesAgree
<1>8. ~(/\ v1.hv = v2.hv /\ v1.ops[op].hash = v2.ops[op].hash
        /\ v2.hv = v3.hv /\ v2.ops[op].hash = v3.ops[op].hash)
  BY <1>3 DEF Changed
<1> QED
  BY <1>3, <1>6, <1>7, <1>8, NonBreakingIsTransitive

-----------------------------------------------------------------------------
(* Least and greatest numbers                                                *)

LEMMA LeastNumber ==
  ASSUME NEW T, T \subseteq Nat, T # {}
  PROVE  \E x \in T : \A y \in T : x <= y
<1>1. PICK x \in T : \A y \in T : <<y, x>> \notin OpToRel(<, Nat)
  BY NatLessThanWellFounded, WFMin
<1>2. ASSUME NEW y \in T
      PROVE  x <= y
  <2>1. x \in Nat /\ y \in Nat /\ ~(y < x)
    BY <1>1 DEF OpToRel
  <2> QED
    BY <2>1
<1> QED
  BY <1>2

LEMMA GreatestNumber ==
  ASSUME NEW T, T \subseteq Nat, T # {}, NEW bound \in Nat,
         \A y \in T : y <= bound
  PROVE  Max(T) \in T /\ \A y \in T : y <= Max(T)
<1> DEFINE above == {n \in Nat : \A y \in T : y <= n}
<1>1. PICK top \in above : \A n \in above : top <= n
  <2>1. bound \in above
    OBVIOUS
  <2> QED
    BY <2>1, LeastNumber
<1>2. top \in T
  <2> SUFFICES ASSUME top \notin T
               PROVE  FALSE
    OBVIOUS
  <2>1. PICK y \in T : TRUE
    OBVIOUS
  <2>2. top \in Nat /\ y \in Nat /\ y <= top /\ y # top
    BY <2>1
  <2>3. top - 1 \in Nat
    BY <2>2
  <2>4. ASSUME NEW z \in T
        PROVE  z <= top - 1
    <3>1. z \in Nat /\ z <= top /\ z # top
      OBVIOUS
    <3> QED
      BY <2>2, <3>1
  <2>5. top - 1 \in above
    BY <2>3, <2>4
  <2>6. top <= top - 1
    BY <1>1, <2>5
  <2> QED
    BY <2>2, <2>6
<1>3. \A y \in T : top >= y
  BY <1>1
<1>4. Max(T) \in T /\ \A y \in T : Max(T) >= y
  BY <1>2, <1>3 DEF Max
<1> QED
  BY <1>4

-----------------------------------------------------------------------------
(* The versions that are stored                                              *)

\* Ids and labels tell versions apart, and ids were given from 1 on.
Stored ==
  /\ defs \subseteq Version
  /\ \A d, e \in defs : d.id = e.id \/ d.label = e.label => d = e
  /\ lastId \in Nat
  /\ \A d \in defs : 0 < d.id /\ d.id <= lastId

LastOf(S) == IF S = {} THEN NoVersion
             ELSE CHOOSE d \in S : \A e \in S : e.id <= d.id

\* Among finitely many versions there is one with the highest id.
LEMMA LastIsLast ==
  ASSUME NEW S, NEW bound \in Nat, \A d \in S : d.id \in Nat /\ d.id <= bound
  PROVE  /\ S # {} => LastOf(S) \in S
         /\ \A e \in S : e.id <= LastOf(S).id
<1>1. ASSUME S # {}
      PROVE  \E d \in S : \A e \in S : e.id <= d.id
  <2> DEFINE ids == {d.id : d \in S}
  <2>1. ids \subseteq Nat /\ ids # {} /\ \A n \in ids : n <= bound
    BY <1>1
  <2>2. Max(ids) \in ids /\ \A n \in ids : n <= Max(ids)
    <3> HIDE DEF ids
    <3> QED
      BY <2>1, GreatestNumber
  <2> QED
    BY <2>2
<1> QED
  BY <1>1 DEF LastOf

\* get_latest finds the version with the highest id.
LEMMA LatestIsLast ==
  ASSUME Stored
  PROVE  /\ defs = {} => Latest = NoVersion
         /\ defs # {} => Latest \in defs
         /\ \A e \in defs : e.id <= Latest.id
<1>1. \A d \in defs : d.id \in Nat /\ d.id <= lastId
  BY DEF Stored, Version
<1>2. lastId \in Nat
  BY DEF Stored
<1>3. Latest = LastOf(defs)
  BY DEF Latest, LastOf
<1> QED
  BY <1>1, <1>2, <1>3, LastIsLast DEF Latest

LEMMA NoVersionType == NoVersion.ops = [op \in {} |-> 0]
BY DEF NoVersion

LEMMA LatestType ==
  ASSUME Stored
  PROVE  /\ Latest \in Version \cup {NoVersion}
         /\ Latest.id \in Nat /\ Latest.label \in Nat
         /\ Latest.id <= lastId
<1>1. Latest \in Version \cup {NoVersion}
  BY LatestIsLast DEF Stored
<1>2. NoVersion.id = 0 /\ NoVersion.label = 0
  BY DEF NoVersion
<1>3. Latest.id \in Nat /\ Latest.label \in Nat
  BY <1>1, <1>2 DEF Version
<1>4. Latest.id <= lastId
  BY <1>2, LatestIsLast DEF Stored
<1> QED
  BY <1>1, <1>3, <1>4

\* The database holds finitely many versions.
LEMMA DefsFinite ==
  ASSUME Stored
  PROVE  IsFiniteSet(defs) /\ Cardinality(defs) \in Nat
<1> DEFINE f == [d \in defs |-> d.id]
<1>1. f \in Injection(defs, 0..lastId)
  BY DEF Stored, Version, Injection, IsInjective
<1>2. IsFiniteSet(0..lastId)
  BY FS_Interval DEF Stored
<1> HIDE DEF f
<1> QED
  BY <1>1, <1>2, FS_Injection, FS_CardinalityType

\* resolve_version always finds a number that no version has.
LEMMA AutoLabelIsFree ==
  ASSUME Stored
  PROVE  AutoLabel \in Nat /\ \A d \in defs : d.label # AutoLabel
<1> DEFINE first == IF Latest.label = 0 THEN 1 ELSE Latest.label + 1
           last  == first + Cardinality(defs)
           free  == {n \in first..last : \A d \in defs : d.label # n}
<1>1. first \in Nat /\ Cardinality(defs) \in Nat /\ last \in Nat
  BY LatestType, DefsFinite
<1>2. free # {}
  <2> SUFFICES ASSUME free = {}
               PROVE  FALSE
    OBVIOUS
  <2> DEFINE g == [n \in first..last |-> CHOOSE d \in defs : d.label = n]
  <2>1. ASSUME NEW n \in first..last
        PROVE  g[n] \in defs /\ g[n].label = n
    <3>1. \E d \in defs : d.label = n
      OBVIOUS
    <3> QED
      BY <3>1
  <2>2. g \in [first..last -> defs]
    BY <2>1
  <2>3. IsFiniteSet(first..last) /\ Cardinality(first..last) = Cardinality(defs) + 1
    <3>1. IsFiniteSet(first..last)
          /\ Cardinality(first..last) = IF first > last THEN 0 ELSE last - first + 1
      <4> HIDE DEF first, last
      <4> QED
        BY <1>1, FS_Interval
    <3>2. first <= last /\ last - first = Cardinality(defs)
      <4> HIDE DEF first
      <4> QED
        BY <1>1
    <3> HIDE DEF first, last
    <3> QED
      BY <1>1, <3>1, <3>2
  <2>4. \E m, n \in first..last : m # n /\ g[m] = g[n]
    <3>1. Cardinality(defs) < Cardinality(first..last)
      BY <1>1, <2>3
    <3> DEFINE S == first..last
    <3>2. IsFiniteSet(S) /\ IsFiniteSet(defs) /\ g \in [S -> defs]
      BY <2>2, <2>3, DefsFinite
    <3>3. Cardinality(defs) < Cardinality(S)
      BY <3>1
    <3> HIDE DEF g, S
    <3>4. \E m, n \in S : m # n /\ g[m] = g[n]
      BY <3>2, <3>3, FS_PigeonHole
    <3> QED
      BY <3>4 DEF S
  <2> HIDE DEF g, first, last
  <2> QED
    BY <2>1, <2>4
<1>3. free \subseteq Nat
  <2> HIDE DEF first, last
  <2> QED
    BY <1>1
<1>4. \E n \in free : \A m \in free : n <= m
  <2> HIDE DEF free
  <2> QED
    BY <1>2, <1>3, LeastNumber
<1>5. AutoLabel = CHOOSE n \in free : \A m \in free : n <= m
  BY DEF AutoLabel
<1>6. AutoLabel \in free
  <2> HIDE DEF free
  <2> QED
    BY <1>4, <1>5
<1> QED
  BY <1>3, <1>6

\* The id of an insert: new among the rows that are kept.
LEMMA NewIdIsNew ==
  ASSUME Stored, NEW kept \in SUBSET defs
  PROVE  /\ NewId(kept) \in Nat /\ NewId(kept) > 0 /\ NewId(kept) <= lastId + 1
         /\ \A d \in kept : d.id < NewId(kept)
         /\ ReuseIds => NewId(kept) = 1 \/ \E d \in kept : NewId(kept) = d.id + 1
         /\ ~ReuseIds => NewId(kept) = lastId + 1
<1> DEFINE ids == {d.id : d \in kept} \cup {0}
<1>1. ids \subseteq Nat /\ ids # {} /\ \A n \in ids : n <= lastId
  BY DEF Stored, Version
<1>2. Max(ids) \in ids /\ \A n \in ids : n <= Max(ids)
  <2> HIDE DEF ids
  <2> QED
    BY <1>1, GreatestNumber DEF Stored
<1>3. \A d \in kept : d.id \in Nat /\ d.id <= Max(ids) /\ d.id <= lastId
  BY <1>2 DEF Stored, Version
<1>4. Max(ids) = 0 \/ \E d \in kept : Max(ids) = d.id
  BY <1>2
<1>5. Max(ids) \in Nat /\ Max(ids) <= lastId /\ lastId \in Nat
  BY <1>1, <1>2 DEF Stored
<1>6. NewId(kept) = IF ReuseIds THEN Max(ids) + 1 ELSE lastId + 1
  BY DEF NewId
<1> HIDE DEF ids
<1> QED
  BY <1>3, <1>4, <1>5, <1>6

-----------------------------------------------------------------------------
(* Types *)

IdsGiven == \A d \in defs : 0 < d.id /\ d.id <= lastId

Typed == TypeOK /\ IdsGiven

LEMMA TypedStored == Typed => Stored
BY DEF Typed, TypeOK, IdsGiven, Stored

LEMMA JobType ==
  ASSUME TypeOK, NEW c \in Clients, web[c].pc # "idle"
  PROVE  web[c] \in Job
BY DEF TypeOK, Idle

\* upsert finds the version of the label, if there is one.
LEMMA ByLabelFinds ==
  ASSUME NEW label
  PROVE  \/ ByLabel(label) \in defs /\ ByLabel(label).label = label
         \/ ByLabel(label) = NoVersion /\ \A d \in defs : d.label # label
BY DEF ByLabel

LEMMA ColumnsType ==
  ASSUME NEW d \in Version \cup {NoVersion}
  PROVE  /\ Columns(d) \in Version \cup {NoVersion}
         /\ Columns(d).id = d.id /\ Columns(d).label = d.label
         /\ Columns(d).hv = d.hv /\ Columns(d).ops = d.ops
<1>1. CASE d = NoVersion
  <2>1. Columns(d) = NoVersion
    <3> DEFINE none == NoVersion.ops
               Blank == [id : Nat, label : Nat, hv : Nat, ops : {none},
                         since : {{}}, analysed : {FALSE}]
    <3>1. NoVersion \in Blank
      BY DEF NoVersion
    <3> HIDE DEF none
    <3>2. [NoVersion EXCEPT !.since = {}, !.analysed = FALSE] = NoVersion
      BY <3>1
    <3> QED
      BY <1>1, <3>2 DEF Columns
  <2> QED
    BY <1>1, <2>1
<1>2. CASE d \in Version /\ d # NoVersion
  <2>1. Columns(d) \in Version
    BY <1>2 DEF Columns, Version
  <2>2. /\ Columns(d).id = d.id /\ Columns(d).label = d.label
        /\ Columns(d).hv = d.hv /\ Columns(d).ops = d.ops
    BY <1>2 DEF Columns, Version
  <2> QED
    BY <1>2, <2>1, <2>2
<1> QED
  BY <1>1, <1>2

LEMMA ReportedType ==
  ASSUME NEW old \in Version \cup {NoVersion}, NEW new
  PROVE  Reported(old, new) \in SUBSET AllOps
<1>1. Reported(old, new) \subseteq DOMAIN old.ops
  BY DEF Reported, Breaking, Changed, Removed
<1>2. CASE old = NoVersion
  BY <1>1, <1>2, NoVersionType
<1>3. CASE old \in Version
  BY <1>1, <1>3 DEF Version, AllOps
<1> QED
  BY <1>2, <1>3

LEMMA LabelType ==
  ASSUME Typed, NEW c \in Clients, web[c].pc = "resolve"
  PROVE  Label(c) \in Nat
<1>1. web[c].want \in SUBSET Nat
  BY JobType DEF Typed, Job
<1> QED
  BY <1>1, TypedStored, AutoLabelIsFree DEF Label

\* A request that moves to another job, or ends, keeps the type of web.
LEMMA WebTypes ==
  ASSUME TypeOK, NEW c \in Clients, NEW j \in {Idle} \cup Job,
         web' = [web EXCEPT ![c] = j]
  PROVE  web' \in [Clients -> {Idle} \cup Job]
BY DEF TypeOK

LEMMA WantsType ==
  ASSUME NEW want \in Wants
  PROVE  want \in SUBSET Nat
BY LabelsAssumption DEF Wants

LEMMA NewJobType ==
  ASSUME NEW kind \in {"parse", "analyze"}, NEW doc \in Documents,
         NEW want \in Wants, NEW old \in Version \cup {NoVersion},
         NEW reported \in SUBSET AllOps
  PROVE  NewJob(kind, doc, want, old, reported) \in Job
BY WantsType DEF NewJob, Job

\* A step of a request within its job.
LEMMA GotoType ==
  ASSUME TypeOK, NEW c \in Clients, web[c].pc # "idle"
  PROVE  /\ Done(c) => web' \in [Clients -> {Idle} \cup Job]
         /\ Goto(c, "store") => web' \in [Clients -> {Idle} \cup Job]
<1>1. Done(c) => web' \in [Clients -> {Idle} \cup Job]
  BY DEF TypeOK, Done
<1>2. [web[c] EXCEPT !.pc = "store"] \in Job
  BY JobType DEF Job
<1>3. Goto(c, "store") => web' \in [Clients -> {Idle} \cup Job]
  BY <1>2, WebTypes DEF Goto
<1> QED
  BY <1>1, <1>3

\* An update of every version that leaves the columns alone.
LEMMA RewriteType ==
  ASSUME Typed, NEW F,
         F \in [defs -> Version],
         \A d \in defs : F[d].id = d.id /\ F[d].label = d.label
                           /\ F[d].hv = d.hv /\ F[d].ops = d.ops,
         NEW kept \in SUBSET defs
  PROVE  LET all == {F[d] : d \in kept} IN
           /\ all \subseteq Version
           /\ \A d, e \in all : d.id = e.id \/ d.label = e.label => d = e
           /\ \A d \in all : 0 < d.id /\ d.id <= lastId
BY DEF Typed, TypeOK, IdsGiven

LEMMA SinceType ==
  ASSUME NEW d \in Version, NEW more \in SUBSET AllOps
  PROVE  /\ [d EXCEPT !.since = @ \cup more] \in Version
         /\ [d EXCEPT !.since = @ \cup more].id = d.id
         /\ [d EXCEPT !.since = @ \cup more].label = d.label
         /\ [d EXCEPT !.since = @ \cup more].hv = d.hv
         /\ [d EXCEPT !.since = @ \cup more].ops = d.ops
BY DEF Version

LEMMA AnalysedType ==
  ASSUME NEW d \in Version, NEW b \in BOOLEAN
  PROVE  /\ [d EXCEPT !.analysed = @ /\ b] \in Version
         /\ [d EXCEPT !.analysed = @ /\ b].id = d.id
         /\ [d EXCEPT !.analysed = @ /\ b].label = d.label
         /\ [d EXCEPT !.analysed = @ /\ b].hv = d.hv
         /\ [d EXCEPT !.analysed = @ /\ b].ops = d.ops
BY DEF Version

-----------------------------------------------------------------------------
(* What the steps do to the stored versions                                  *)

\* Versions of other columns than the history.
SameColumns(d, e) ==
  d.id = e.id /\ d.label = e.label /\ d.hv = e.hv /\ d.ops = e.ops

\* F rewrites the history of the versions in S.
Rewrites(F, S) ==
  /\ F \in [S -> Version]
  /\ \A d \in S : SameColumns(F[d], d)

\* Kept versions, with the history updated.
Marked(d, b) == [d EXCEPT !.analysed = @ /\ b]
Updated(b)   == [d \in defs |-> Marked(d, b)]

Extended(more) == [d \in defs |-> [d EXCEPT !.since = @ \cup more]]

LEMMA UpdatedRewrites ==
  ASSUME Typed, NEW b \in BOOLEAN
  PROVE  Rewrites(Updated(b), defs)
BY AnalysedType DEF Typed, TypeOK, Updated, Marked, Rewrites, SameColumns

LEMMA ExtendedRewrites ==
  ASSUME Typed, NEW more \in SUBSET AllOps
  PROVE  Rewrites(Extended(more), defs)
BY SinceType DEF Typed, TypeOK, Extended, Rewrites, SameColumns

\* The version a request inserts.
Inserted(c) ==
  [id |-> NewId({d \in defs : d.id # web[c].existing}), label |-> web[c].label,
   hv |-> hv, ops |-> web[c].ops, since |-> {}, analysed |-> TRUE]

Survivors(c) == {d \in defs : d.id # web[c].existing}

\* A write keeps all versions but the one it found, and inserts its own.
LEMMA WriteSteps ==
  ASSUME Typed, NEW c \in Clients, Write(c)
  PROVE  /\ defs' = {Updated(Continues(c))[d] : d \in Survivors(c)} \cup {Inserted(c)}
         /\ Continues(c) \in BOOLEAN
         /\ Inserted(c) \in Version
         /\ Inserted(c).id = NewId(Survivors(c))
         /\ Inserted(c).label = web[c].label
         /\ Inserted(c).hv = hv /\ Inserted(c).ops = web[c].ops
         /\ Inserted(c).since = {}
         /\ lastId' = lastId + 1
         /\ \A d \in Survivors(c) : d.label # web[c].label
<1> DEFINE b == Continues(c)
           new == Inserted(c)
<1>1. web[c] \in Job /\ web[c].pc = "write" /\ ~Conflict(c)
  BY JobType DEF Typed, Write
<1>2. b \in BOOLEAN
  BY DEF Continues, SameVersion
<1>3. defs' = {Marked(d, b) : d \in Survivors(c)} \cup {new}
  BY DEF Write, Survivors, Inserted, Marked
<1>4. {Marked(d, b) : d \in Survivors(c)} = {Updated(b)[d] : d \in Survivors(c)}
  <2> DEFINE f == Updated(b)
  <2>1. \A d \in Survivors(c) : f[d] = Marked(d, b)
    BY DEF Updated, Survivors
  <2> HIDE DEF b, f
  <2>2. {Marked(d, b) : d \in Survivors(c)} = {f[d] : d \in Survivors(c)}
    BY <2>1
  <2> QED
    BY <2>2 DEF f
<1>5. Inserted(c).since = {}
  BY DEF Inserted
<1>6. Stored /\ Survivors(c) \in SUBSET defs
  BY TypedStored DEF Survivors
<1>7. new.id = NewId(Survivors(c)) /\ new.id \in Nat
  BY <1>6, NewIdIsNew DEF Inserted, Survivors
<1>8. new \in Version
  <2>1. web[c].label \in Nat /\ web[c].ops \in Documents /\ hv \in 1..HashVersions
    BY <1>1 DEF Job, Typed, TypeOK
  <2>2. NewId({d \in defs : d.id # web[c].existing}) \in Nat
    BY <1>7 DEF Survivors
  <2> QED
    BY <2>1, <2>2 DEF Inserted, Version
<1>9. \A d \in Survivors(c) : d.label # web[c].label
  BY <1>1 DEF Conflict, Survivors
<1> QED
  BY <1>2, <1>3, <1>4, <1>5, <1>7, <1>8, <1>9 DEF Inserted, Write

\* What else happens to the versions: their history is rewritten.
LEMMA DefsSteps ==
  ASSUME Typed, [Next]_vars
  PROVE  \/ defs' = defs /\ lastId' = lastId
         \/ \E c \in Clients :
              /\ Store(c) /\ lastId' = lastId
              /\ web[c].reported \in SUBSET AllOps
              /\ defs' = {Extended(web[c].reported)[d] : d \in defs}
         \/ \E c \in Clients :
              /\ Crash(c) /\ lastId' = lastId
              /\ defs' = {Updated(web[c].pc # "store")[d] : d \in defs}
         \/ \E c \in Clients : Write(c)
<1>1. ASSUME NEW c \in Clients, Store(c)
      PROVE  /\ lastId' = lastId /\ web[c].reported \in SUBSET AllOps
             /\ defs' = {Extended(web[c].reported)[d] : d \in defs}
  <2>1. web[c].reported \in SUBSET AllOps
    BY <1>1, JobType DEF Store, Typed, Job
  <2>2. defs' = {[d EXCEPT !.since = @ \cup web[c].reported] : d \in defs}
    BY <1>1 DEF Store
  <2> QED
    BY <1>1, <2>1, <2>2 DEF Store, Extended
<1>2. ASSUME NEW c \in Clients, Crash(c)
      PROVE  /\ lastId' = lastId
             /\ defs' = {Updated(web[c].pc # "store")[d] : d \in defs}
  BY <1>2 DEF Crash, Updated, Marked
<1>3. CASE \E c \in Clients : ParseStart(c) \/ AnalyzeStart(c) \/ Resolve(c)
                               \/ Collide(c) \/ Lookup(c) \/ WriteLost(c)
  BY <1>3 DEF ParseStart, AnalyzeStart, Resolve, Collide, Lookup, WriteLost
<1>4. CASE Upgrade \/ UNCHANGED vars
  BY <1>4 DEF Upgrade, vars
<1> QED
  BY <1>1, <1>2, <1>3, <1>4 DEF Next

LEMMA RewriteKeeps ==
  ASSUME Typed, NEW F, NEW S \in SUBSET defs, Rewrites(F, defs)
  PROVE  /\ {F[d] : d \in S} \subseteq Version
         /\ \A d, e \in {F[x] : x \in S} : d.id = e.id \/ d.label = e.label => d = e
         /\ \A d \in {F[x] : x \in S} : 0 < d.id /\ d.id <= lastId
BY DEF Rewrites, SameColumns, Typed, TypeOK, IdsGiven

LEMMA StoredStep ==
  ASSUME Typed, [Next]_vars
  PROVE  Stored'
<1>1. ASSUME NEW F, Rewrites(F, defs), defs' = {F[d] : d \in defs}, lastId' = lastId
      PROVE  Stored'
  <2>1. defs \in SUBSET defs /\ lastId \in Nat
    BY DEF Typed, TypeOK
  <2> DEFINE all == {F[d] : d \in defs}
  <2>2. /\ all \subseteq Version
        /\ \A d, e \in all : d.id = e.id \/ d.label = e.label => d = e
        /\ \A d \in all : 0 < d.id /\ d.id <= lastId
    BY <1>1, <2>1, RewriteKeeps
  <2>3. defs' = all
    BY <1>1
  <2> HIDE DEF all
  <2> QED
    BY <1>1, <2>1, <2>2, <2>3 DEF Stored
<1>2. ASSUME NEW c \in Clients, Write(c)
      PROVE  Stored'
  <2> DEFINE F == Updated(Continues(c))
             new == Inserted(c)
             old == {F[d] : d \in Survivors(c)}
  <2>1. /\ defs' = old \cup {new} /\ new \in Version /\ lastId' = lastId + 1
        /\ new.id = NewId(Survivors(c)) /\ new.label = web[c].label
        /\ \A d \in Survivors(c) : d.label # web[c].label
        /\ Rewrites(F, defs)
    BY <1>2, WriteSteps, UpdatedRewrites
  <2>2. Survivors(c) \in SUBSET defs /\ lastId \in Nat
    BY DEF Survivors, Typed, TypeOK
  <2>3. /\ old \subseteq Version
        /\ \A d, e \in old : d.id = e.id \/ d.label = e.label => d = e
        /\ \A d \in old : 0 < d.id /\ d.id <= lastId
    <3> HIDE DEF F
    <3> QED
      BY <2>1, <2>2, RewriteKeeps
  <2>4. ASSUME NEW e \in old
        PROVE  e.id # new.id /\ e.label # new.label
    <3>1. PICK d \in Survivors(c) : e = F[d]
      OBVIOUS
    <3>2. e.id = d.id /\ e.label = d.label /\ d \in defs
      <4> HIDE DEF F
      <4> QED
        BY <2>1, <2>2, <3>1 DEF Rewrites, SameColumns
    <3>3. d.id < NewId(Survivors(c)) /\ d.id \in Nat
      BY <2>2, <3>2, TypedStored, NewIdIsNew DEF Typed, TypeOK, Version
    <3>4. NewId(Survivors(c)) \in Nat
      BY <2>2, TypedStored, NewIdIsNew
    <3>5. d.id # NewId(Survivors(c))
      BY <3>3, <3>4
    <3> QED
      BY <2>1, <3>2, <3>5
  <2>5. 0 < new.id /\ new.id <= lastId + 1
    BY <2>1, <2>2, TypedStored, NewIdIsNew
  <2>6. \A d \in old : d.id <= lastId + 1
    BY <2>2, <2>3 DEF Version
  <2> HIDE DEF old, new
  <2>7. lastId + 1 \in Nat
    BY <2>2
  <2>8. defs' \subseteq Version
    BY <2>1, <2>3
  <2>9. \A d, e \in defs' : d.id = e.id \/ d.label = e.label => d = e
    BY <2>1, <2>3, <2>4
  <2>10. \A d \in defs' : 0 < d.id /\ d.id <= lastId'
    BY <2>1, <2>3, <2>5, <2>6
  <2> QED
    BY <2>1, <2>7, <2>8, <2>9, <2>10 DEF Stored
<1>3. CASE defs' = defs /\ lastId' = lastId
  BY <1>3, TypedStored DEF Stored
<1>4. ASSUME NEW c \in Clients, lastId' = lastId, web[c].reported \in SUBSET AllOps,
             defs' = {Extended(web[c].reported)[d] : d \in defs}
      PROVE  Stored'
  BY <1>1, <1>4, ExtendedRewrites
<1>5. ASSUME NEW c \in Clients, lastId' = lastId,
             defs' = {Updated(web[c].pc # "store")[d] : d \in defs}
      PROVE  Stored'
  <2>1. (web[c].pc # "store") \in BOOLEAN
    OBVIOUS
  <2> QED
    BY <1>1, <1>5, <2>1, UpdatedRewrites
<1> QED
  BY <1>2, <1>3, <1>4, <1>5, DefsSteps

\* What a step does to the request of thread c.
Moved(c) ==
  \/ web'[c] = web[c]
  \/ web'[c] = Idle
  \/ \E doc \in Documents, want \in Wants :
       /\ web[c].pc = "idle"
       /\ web'[c] = NewJob("parse", doc, want, NoVersion, {})
  \/ \E doc \in Documents, want \in Wants, old \in defs \cup {NoVersion} :
       /\ web[c].pc = "idle"
       /\ web'[c] = NewJob("analyze", doc, want, Columns(old),
                           Reported(old, [hv |-> hv, ops |-> doc]))
  \/ /\ Resolve(c) /\ Label(c) \in Nat
     /\ web'[c] = [web[c] EXCEPT !.pc = "lookup", !.label = Label(c)]
  \/ /\ Lookup(c)
     /\ web'[c] = [web[c] EXCEPT !.pc = "write",
                                 !.existing = ByLabel(web[c].label).id]
  \/ /\ Write(c) \/ WriteLost(c)
     /\ web[c].kind = "analyze"
     /\ web'[c] = [web[c] EXCEPT !.pc = "store"]

LEMMA WebSteps ==
  ASSUME Typed, [Next]_vars
  PROVE  \A c \in Clients : Moved(c)
<1> SUFFICES ASSUME NEW c \in Clients
             PROVE  Moved(c)
  OBVIOUS
<1>1. web \in [Clients -> {Idle} \cup Job]
  BY DEF Typed, TypeOK
<1>2. ASSUME NEW b \in Clients, b # c,
             \/ ParseStart(b) \/ AnalyzeStart(b) \/ Resolve(b) \/ Collide(b)
             \/ Lookup(b) \/ Write(b) \/ WriteLost(b) \/ Store(b) \/ Crash(b)
      PROVE  web'[c] = web[c]
  BY <1>1, <1>2 DEF ParseStart, AnalyzeStart, Resolve, Collide, Lookup, Write,
     WriteLost, Store, Crash, Done, Goto, Proceed
<1>3. CASE ParseStart(c)
  <2>1. PICK doc \in Documents, want \in Wants :
          web' = [web EXCEPT ![c] = NewJob("parse", doc, want, NoVersion, {})]
    BY <1>3 DEF ParseStart
  <2>2. web'[c] = NewJob("parse", doc, want, NoVersion, {})
    BY <1>1, <2>1
  <2> QED
    BY <1>3, <2>2 DEF Moved, ParseStart
<1>4. CASE AnalyzeStart(c)
  <2>1. PICK doc \in Documents, want \in Wants, base \in Wants :
          LET old == IF base = {} THEN Latest ELSE ByLabel(CHOOSE n \in base : TRUE)
              new == [hv |-> hv, ops |-> doc]
          IN  web' = [web EXCEPT ![c] =
                        NewJob("analyze", doc, want, Columns(old), Reported(old, new))]
    BY <1>4 DEF AnalyzeStart
  <2> DEFINE old == IF base = {} THEN Latest ELSE ByLabel(CHOOSE n \in base : TRUE)
  <2>2. old \in defs \cup {NoVersion}
    BY TypedStored, LatestIsLast, ByLabelFinds
  <2> HIDE DEF old
  <2>3. web'[c] = NewJob("analyze", doc, want, Columns(old),
                         Reported(old, [hv |-> hv, ops |-> doc]))
    BY <1>1, <2>1 DEF old
  <2>4. web[c].pc = "idle"
    BY <1>4 DEF AnalyzeStart
  <2> QED
    BY <2>2, <2>3, <2>4 DEF Moved
<1>5. CASE Resolve(c)
  <2>1. web'[c] = [web[c] EXCEPT !.pc = "lookup", !.label = Label(c)]
    BY <1>1, <1>5 DEF Resolve
  <2>2. Label(c) \in Nat
    BY <1>5, LabelType DEF Resolve
  <2> QED
    BY <1>5, <2>1, <2>2 DEF Moved
<1>6. CASE Lookup(c)
  <2>1. web'[c] = [web[c] EXCEPT !.pc = "write",
                                 !.existing = ByLabel(web[c].label).id]
    BY <1>1, <1>6 DEF Lookup
  <2> QED
    BY <1>6, <2>1 DEF Moved
<1>7. CASE Collide(c) \/ Store(c) \/ Crash(c)
  BY <1>1, <1>7 DEF Collide, Store, Crash, Done, Moved
<1>8. CASE Write(c) \/ WriteLost(c)
  <2>1. Proceed(c) /\ web[c].pc = "write"
    BY <1>8 DEF Write, WriteLost
  <2>2. web[c].kind \in {"parse", "analyze"}
    BY <2>1, JobType DEF Typed, Job
  <2>3. CASE web[c].kind = "parse"
    <3>1. web'[c] = Idle
      BY <1>1, <2>1, <2>3 DEF Proceed, Done
    <3> QED
      BY <3>1 DEF Moved
  <2>4. CASE web[c].kind = "analyze"
    <3>1. web'[c] = [web[c] EXCEPT !.pc = "store"]
      BY <1>1, <2>1, <2>4 DEF Proceed, Goto
    <3> QED
      BY <1>8, <2>4, <3>1 DEF Moved
  <2> QED
    BY <2>2, <2>3, <2>4
<1>9. CASE Upgrade \/ UNCHANGED vars
  BY <1>9 DEF Upgrade, vars, Moved
<1> QED
  BY <1>2, <1>3, <1>4, <1>5, <1>6, <1>7, <1>8, <1>9 DEF Next, Moved

LEMMA MovedType ==
  ASSUME Typed, NEW c \in Clients, Moved(c)
  PROVE  web'[c] \in {Idle} \cup Job
<1>1. web[c] \in {Idle} \cup Job
  BY DEF Typed, TypeOK
<1>2. ASSUME NEW doc \in Documents, NEW want \in Wants
      PROVE  NewJob("parse", doc, want, NoVersion, {}) \in Job
  BY <1>2, NewJobType
<1>3. ASSUME NEW doc \in Documents, NEW want \in Wants,
             NEW old \in defs \cup {NoVersion}, NEW new
      PROVE  NewJob("analyze", doc, want, Columns(old), Reported(old, new)) \in Job
  <2>1. old \in Version \cup {NoVersion}
    BY DEF Typed, TypeOK
  <2>2. Columns(old) \in Version \cup {NoVersion}
    BY <2>1, ColumnsType
  <2>3. Reported(old, new) \in SUBSET AllOps
    BY <2>1, ReportedType
  <2> QED
    BY <2>2, <2>3, NewJobType
<1>4. CASE Resolve(c) /\ Label(c) \in Nat
           /\ web'[c] = [web[c] EXCEPT !.pc = "lookup", !.label = Label(c)]
  <2>1. web[c] \in Job
    BY <1>4, JobType DEF Typed, Resolve
  <2> QED
    BY <1>4, <2>1 DEF Job
<1>5. CASE /\ Lookup(c)
           /\ web'[c] = [web[c] EXCEPT !.pc = "write",
                                       !.existing = ByLabel(web[c].label).id]
  <2>1. web[c] \in Job
    BY <1>5, JobType DEF Typed, Lookup
  <2>2. ByLabel(web[c].label).id \in Nat
    BY ByLabelFinds DEF Typed, TypeOK, Version, NoVersion
  <2> QED
    BY <1>5, <2>1, <2>2 DEF Job
<1>6. CASE /\ Write(c) \/ WriteLost(c)
           /\ web'[c] = [web[c] EXCEPT !.pc = "store"]
  <2>1. web[c] \in Job
    BY <1>6, JobType DEF Typed, Write, WriteLost
  <2> QED
    BY <1>6, <2>1 DEF Job
<1> QED
  BY <1>1, <1>2, <1>3, <1>4, <1>5, <1>6 DEF Moved

LEMMA WebDomain ==
  ASSUME Typed, [Next]_vars
  PROVE  \E S : web' \in [Clients -> S]
<1>1. web \in [Clients -> {web[c] : c \in Clients}]
  BY DEF Typed, TypeOK
<1>2. web' = web \/ \E c \in Clients : \E j : web' = [web EXCEPT ![c] = j]
  BY DEF Next, vars, ParseStart, AnalyzeStart, Resolve, Collide, Lookup, Write,
     WriteLost, Store, Crash, Upgrade, Done, Goto, Proceed
<1>3. ASSUME NEW c \in Clients, NEW j, web' = [web EXCEPT ![c] = j]
      PROVE  web' \in [Clients -> {web[b] : b \in Clients} \cup {j}]
  BY <1>1, <1>3
<1> QED
  BY <1>1, <1>2, <1>3

LEMMA TypedStep == Typed /\ [Next]_vars => Typed'
<1> SUFFICES ASSUME Typed, [Next]_vars
             PROVE  Typed'
  OBVIOUS
<1>1. Stored'
  BY StoredStep
<1>2. web' \in [Clients -> {Idle} \cup Job]
  <2>1. \A c \in Clients : web'[c] \in {Idle} \cup Job
    BY WebSteps, MovedType
  <2> QED
    BY <2>1, WebDomain
<1>3. hv' \in 1..HashVersions
  <2>1. CASE Upgrade
    BY <2>1, HashVersionsAssumption DEF Upgrade, Typed, TypeOK
  <2>2. CASE hv' = hv
    BY <2>2 DEF Typed, TypeOK
  <2> QED
    BY <2>1, <2>2 DEF Next, vars, ParseStart, AnalyzeStart, Resolve, Collide,
       Lookup, Write, WriteLost, Store, Crash
<1>4. analyses' \in Seq(Analysis)
  <2>1. ASSUME NEW c \in Clients, Store(c)
        PROVE  analyses' \in Seq(Analysis)
    <3>1. web[c] \in Job
      BY <2>1, JobType DEF Typed, Store
    <3>2. [old |-> web[c].old, label |-> web[c].label, ops |-> web[c].ops,
           reported |-> web[c].reported] \in Analysis
      BY <3>1 DEF Job, Analysis
    <3>3. analyses \in Seq(Analysis)
      BY DEF Typed, TypeOK
    <3> QED
      BY <2>1, <3>2, <3>3 DEF Store
  <2>2. CASE analyses' = analyses
    BY <2>2 DEF Typed, TypeOK
  <2> QED
    BY <2>1, <2>2 DEF Next, vars, ParseStart, AnalyzeStart, Resolve, Collide,
       Lookup, Write, WriteLost, Crash, Upgrade
<1>5. requests' \in 0..MaxRequests
  <2>1. CASE Request
    BY <2>1, BoundsAssumption DEF Request, Typed, TypeOK
  <2>2. CASE requests' = requests
    BY <2>2 DEF Typed, TypeOK
  <2> QED
    BY <2>1, <2>2 DEF Next, vars, ParseStart, AnalyzeStart, Resolve, Collide,
       Lookup, Write, WriteLost, Store, Crash, Upgrade
<1>6. faults' \in 0..MaxFaults
  <2>1. CASE faults < MaxFaults /\ faults' = faults + 1
    BY <2>1, BoundsAssumption DEF Typed, TypeOK
  <2>2. CASE faults' = faults
    BY <2>2 DEF Typed, TypeOK
  <2> QED
    BY <2>1, <2>2 DEF Next, vars, ParseStart, AnalyzeStart, Resolve, Collide,
       Lookup, Write, WriteLost, Store, Crash, Upgrade
<1> QED
  BY <1>1, <1>2, <1>3, <1>4, <1>5, <1>6 DEF Typed, TypeOK, Stored, IdsGiven

LEMMA TypedInit == Init => Typed
BY BoundsAssumption, HashVersionsAssumption DEF Init, Typed, TypeOK, IdsGiven

\* Every reachable state is well typed: no two versions ever share an id or a
\* label, whichever requests replace which versions and however ids are given.
THEOREM TypeCorrect == Spec => []TypeOK
<1>1. Typed => TypeOK
  BY DEF Typed
<1> QED
  BY <1>1, TypedInit, TypedStep, PTL DEF Spec

-----------------------------------------------------------------------------
(* The history                                                               *)

LEMMA UpdatedFields ==
  ASSUME Typed, NEW b \in BOOLEAN, NEW d \in defs
  PROVE  /\ Updated(b)[d].analysed <=> d.analysed /\ b
         /\ Updated(b)[d].since = d.since
         /\ SameColumns(Updated(b)[d], d)
<1>1. d \in Version /\ Updated(b)[d] = [d EXCEPT !.analysed = @ /\ b]
  BY DEF Updated, Marked, Typed, TypeOK
<1>2. [d EXCEPT !.analysed = @ /\ b].analysed <=> d.analysed /\ b
  BY <1>1 DEF Version
<1>3. [d EXCEPT !.analysed = @ /\ b].since = d.since
  BY <1>1 DEF Version
<1> QED
  BY <1>1, <1>2, <1>3, UpdatedRewrites DEF Rewrites

LEMMA ExtendedFields ==
  ASSUME Typed, NEW more \in SUBSET AllOps, NEW d \in defs
  PROVE  /\ Extended(more)[d].analysed = d.analysed
         /\ Extended(more)[d].since = d.since \cup more
         /\ SameColumns(Extended(more)[d], d)
<1>1. d \in Version /\ Extended(more)[d] = [d EXCEPT !.since = @ \cup more]
  BY DEF Extended, Typed, TypeOK
<1>2. /\ [d EXCEPT !.since = @ \cup more].since = d.since \cup more
      /\ [d EXCEPT !.since = @ \cup more].analysed = d.analysed
  BY <1>1 DEF Version
<1> QED
  BY <1>1, <1>2, ExtendedRewrites DEF Rewrites

\* While only the history is rewritten, the latest version stays the latest.
LEMMA LatestKept ==
  ASSUME Typed, Stored', NEW F, Rewrites(F, defs), defs' = {F[d] : d \in defs}
  PROVE  defs # {} => SameColumns(Latest', Latest)
<1> SUFFICES ASSUME defs # {}
             PROVE  SameColumns(Latest', Latest)
  OBVIOUS
<1>1. Latest \in defs /\ \A d \in defs : d.id <= Latest.id
  BY TypedStored, LatestIsLast
<1>2. Latest' = LastOf(defs')
  BY DEF Latest, LastOf
<1>3. Latest' \in defs' /\ \A e \in defs' : e.id <= Latest'.id
  <2>1. lastId' \in Nat /\ \A e \in defs' : e.id \in Nat /\ e.id <= lastId'
    BY DEF Stored, Version
  <2>2. defs' # {}
    OBVIOUS
  <2> QED
    BY <1>2, <2>1, <2>2, LastIsLast
<1>4. PICK d \in defs : Latest' = F[d]
  BY <1>3
<1>5. SameColumns(Latest', d) /\ SameColumns(F[Latest], Latest)
  BY <1>1, <1>4 DEF Rewrites
<1>6. d.id <= Latest.id /\ Latest.id <= d.id
  BY <1>1, <1>3, <1>5 DEF SameColumns
<1>7. d.id \in Nat /\ Latest.id \in Nat
  BY <1>1 DEF Typed, TypeOK, Version
<1>8. d = Latest
  <2>1. d.id = Latest.id
    BY <1>6, <1>7
  <2> QED
    BY <1>1, <2>1 DEF Typed, TypeOK
<1> QED
  BY <1>5, <1>8

\* After a write the inserted version is the latest.
LEMMA WrittenIsLatest ==
  ASSUME Typed, Stored', NEW c \in Clients, Write(c)
  PROVE  Latest' = Inserted(c)
<1> DEFINE new == Inserted(c)
<1>1. Latest' = LastOf(defs')
  BY DEF Latest, LastOf
<1>2. new \in defs' /\ new.id = NewId(Survivors(c))
  BY WriteSteps
<1>3. Latest' \in defs' /\ \A e \in defs' : e.id <= Latest'.id
  <2>1. lastId' \in Nat /\ \A e \in defs' : e.id \in Nat /\ e.id <= lastId'
    BY DEF Stored, Version
  <2> HIDE DEF new
  <2> QED
    BY <1>1, <1>2, <2>1, LastIsLast
<1>4. ASSUME NEW e \in defs', e # new
      PROVE  e.id < new.id
  <2>1. Continues(c) \in BOOLEAN
    BY WriteSteps
  <2>2. PICK d \in Survivors(c) : e = Updated(Continues(c))[d]
    BY <1>4, WriteSteps
  <2>3. d \in defs /\ Survivors(c) \in SUBSET defs
    BY DEF Survivors
  <2>4. e.id = d.id
    BY <2>1, <2>2, <2>3, UpdatedFields DEF SameColumns
  <2>5. d.id < NewId(Survivors(c))
    BY <2>3, TypedStored, NewIdIsNew
  <2> QED
    BY <1>2, <2>4, <2>5
<1>5. new.id \in Nat /\ Latest'.id \in Nat
  BY <1>2, <1>3 DEF Stored, Version
<1> HIDE DEF new
<1>6. new.id <= Latest'.id
  BY <1>2, <1>3
<1> QED
  BY <1>3, <1>4, <1>5, <1>6 DEF new

-----------------------------------------------------------------------------
(* What was reported                                                         *)

LEMMA VersionsAgree ==
  ASSUME HashesTell(Documents), NEW v1, NEW v2,
         v1.ops \in Documents, v2.ops \in Documents
  PROVE  HashesAgree(v1, v2)
BY DEF HashesTell, HashesAgree

\* A comparison looks at the hash version and the operations.
LEMMA ReportedOf ==
  ASSUME NEW u1, NEW u2, NEW v1, NEW v2,
         u1.hv = u2.hv, u1.ops = u2.ops, v1.hv = v2.hv, v1.ops = v2.ops
  PROVE  Reported(u1, v1) = Reported(u2, v2)
BY DEF Reported, Breaking, Changed, Removed

LEMMA NothingReported ==
  ASSUME NEW v
  PROVE  Reported(v, v) = {}
BY DEF Reported, Breaking, Changed, Removed

\* A request reports what the step from its base to its own version breaks,
\* under the hash version of the deployment that serves it.
ReportsAreOfTheStep ==
  \A c \in Clients :
    web[c].pc # "idle" /\ web[c].kind = "analyze" =>
      web[c].reported = Reported(web[c].old, [hv |-> hv, ops |-> web[c].ops])

\* What an unbroken chain of analyses has found since a version was stored is
\* in its history, or in the hands of a request about to store it.
ReportedOrAboutToBe ==
  \A d \in defs :
    d.analysed =>
      \A op \in Reported(d, Latest) :
        \/ op \in d.since
        \/ \E c \in Clients : web[c].pc = "store" /\ op \in web[c].reported

LEMMA ReportsStep ==
  ASSUME Typed, ReportsAreOfTheStep, [Next]_vars
  PROVE  ReportsAreOfTheStep'
<1> SUFFICES ASSUME NEW c \in Clients, web'[c].pc # "idle", web'[c].kind = "analyze"
             PROVE  web'[c].reported
                      = Reported(web'[c].old, [hv |-> hv', ops |-> web'[c].ops])
  BY DEF ReportsAreOfTheStep
<1>1. CASE Upgrade
  <2>1. web'[c].pc = "idle"
    BY <1>1 DEF Upgrade
  <2> QED
    BY <2>1
<1>2. CASE hv' = hv
  <2>1. Moved(c)
    BY WebSteps
  <2>2. ASSUME web[c].pc # "idle", web'[c].kind = web[c].kind,
               web'[c].old = web[c].old, web'[c].ops = web[c].ops,
               web'[c].reported = web[c].reported
        PROVE  web'[c].reported
                 = Reported(web'[c].old, [hv |-> hv', ops |-> web'[c].ops])
    BY <1>2, <2>2 DEF ReportsAreOfTheStep
  <2>3. CASE web'[c] = web[c]
    BY <2>2, <2>3
  <2>4. CASE web'[c] = Idle
    BY <2>4 DEF Idle
  <2>5. ASSUME NEW doc, NEW want, web'[c] = NewJob("parse", doc, want, NoVersion, {})
        PROVE  FALSE
    BY <2>5 DEF NewJob
  <2>6. ASSUME NEW doc, NEW want, NEW old \in defs \cup {NoVersion},
               web'[c] = NewJob("analyze", doc, want, Columns(old),
                                Reported(old, [hv |-> hv, ops |-> doc]))
        PROVE  web'[c].reported
                 = Reported(web'[c].old, [hv |-> hv', ops |-> web'[c].ops])
    <3> DEFINE new == [hv |-> hv, ops |-> doc]
    <3>1. web'[c].old = Columns(old) /\ web'[c].ops = doc
            /\ web'[c].reported = Reported(old, new)
      BY <2>6 DEF NewJob
    <3>2. Columns(old).hv = old.hv /\ Columns(old).ops = old.ops
      BY ColumnsType DEF Typed, TypeOK
    <3>3. Reported(Columns(old), new) = Reported(old, new)
      BY <3>2, ReportedOf
    <3> QED
      BY <1>2, <3>1, <3>3
  <2>7. CASE Resolve(c)
             /\ web'[c] = [web[c] EXCEPT !.pc = "lookup", !.label = Label(c)]
    <3>1. web[c] \in Job /\ web[c].pc # "idle"
      BY <2>7, JobType DEF Resolve, Typed
    <3> QED
      BY <2>2, <2>7, <3>1 DEF Job
  <2>8. CASE Lookup(c)
             /\ web'[c] = [web[c] EXCEPT !.pc = "write",
                                         !.existing = ByLabel(web[c].label).id]
    <3>1. web[c] \in Job /\ web[c].pc # "idle"
      BY <2>8, JobType DEF Lookup, Typed
    <3> QED
      BY <2>2, <2>8, <3>1 DEF Job
  <2>9. CASE (Write(c) \/ WriteLost(c)) /\ web'[c] = [web[c] EXCEPT !.pc = "store"]
    <3>1. web[c] \in Job /\ web[c].pc # "idle"
      BY <2>9, JobType DEF Write, WriteLost, Typed
    <3> QED
      BY <2>2, <2>9, <3>1 DEF Job
  <2> QED
    BY <2>1, <2>3, <2>4, <2>5, <2>6, <2>7, <2>8, <2>9 DEF Moved
<1> QED
  BY <1>1, <1>2 DEF Next, vars, ParseStart, AnalyzeStart, Resolve, Collide,
     Lookup, Write, WriteLost, Store, Crash

\* A request about to store its result stays there until it does, or dies.
LEMMA StoresStay ==
  ASSUME Typed, [Next]_vars, NEW c \in Clients, web[c].pc = "store",
         ~Store(c), ~Crash(c)
  PROVE  web'[c] = web[c]
<1>1. ASSUME NEW b \in Clients, b # c,
             \/ ParseStart(b) \/ AnalyzeStart(b) \/ Resolve(b) \/ Collide(b)
             \/ Lookup(b) \/ Write(b) \/ WriteLost(b) \/ Store(b) \/ Crash(b)
      PROVE  web'[c] = web[c]
  BY <1>1 DEF ParseStart, AnalyzeStart, Resolve, Collide, Lookup, Write,
     WriteLost, Store, Crash, Done, Goto, Proceed, Typed, TypeOK
<1>2. ~(\/ ParseStart(c) \/ AnalyzeStart(c) \/ Resolve(c) \/ Collide(c)
        \/ Lookup(c) \/ Write(c) \/ WriteLost(c))
  BY DEF ParseStart, AnalyzeStart, Resolve, Collide, Lookup, Write, WriteLost
<1>3. CASE Upgrade \/ UNCHANGED vars
  BY <1>3 DEF Upgrade, vars
<1> QED
  BY <1>1, <1>2, <1>3 DEF Next

LEMMA HistoryStep ==
  ASSUME HashesTell(Documents), Typed, Stored', ReportsAreOfTheStep, ReportedOrAboutToBe,
         [Next]_vars
  PROVE  ReportedOrAboutToBe'
<1> SUFFICES ASSUME NEW e \in defs', e.analysed, NEW op \in Reported(e, Latest')
             PROVE  \/ op \in e.since
                    \/ \E c \in Clients : web'[c].pc = "store"
                                            /\ op \in web'[c].reported
  BY DEF ReportedOrAboutToBe
\* What holds of an old version compared with the old latest one.
<1>1. ASSUME NEW d \in defs, d.analysed, op \in Reported(d, Latest)
      PROVE  \/ op \in d.since
             \/ \E c \in Clients : web[c].pc = "store" /\ op \in web[c].reported
  BY <1>1 DEF ReportedOrAboutToBe
<1>2. ASSUME NEW d \in defs, SameColumns(e, d), SameColumns(Latest', Latest)
      PROVE  op \in Reported(d, Latest)
  <2>1. e.hv = d.hv /\ e.ops = d.ops /\ Latest'.hv = Latest.hv
          /\ Latest'.ops = Latest.ops
    BY <1>2 DEF SameColumns
  <2>2. Reported(e, Latest') = Reported(d, Latest)
    BY <2>1, ReportedOf
  <2> QED
    BY <2>2
<1>3. ASSUME NEW b \in Clients, Store(b), web[b].reported \in SUBSET AllOps,
             defs' = {Extended(web[b].reported)[d] : d \in defs}
      PROVE  \/ op \in e.since
             \/ \E c \in Clients : web'[c].pc = "store" /\ op \in web'[c].reported
  <2>1. PICK d \in defs : e = Extended(web[b].reported)[d]
    BY <1>3
  <2>2. /\ e.analysed = d.analysed /\ SameColumns(e, d)
        /\ e.since = d.since \cup web[b].reported
    BY <1>3, <2>1, ExtendedFields
  <2>3. SameColumns(Latest', Latest)
    BY <1>3, ExtendedRewrites, LatestKept
  <2>4. d.analysed
    BY <2>2
  <2>5. \/ op \in d.since
        \/ \E c \in Clients : web[c].pc = "store" /\ op \in web[c].reported
    BY <1>1, <1>2, <2>2, <2>3, <2>4
  <2>6. ASSUME NEW c \in Clients, c # b, web[c].pc = "store"
        PROVE  web'[c] = web[c]
    BY <1>3, <2>6 DEF Store, Done, Typed, TypeOK
  <2> QED
    BY <2>2, <2>5, <2>6
<1>4. ASSUME NEW b \in Clients, Crash(b),
             defs' = {Updated(web[b].pc # "store")[d] : d \in defs}
      PROVE  \/ op \in e.since
             \/ \E c \in Clients : web'[c].pc = "store" /\ op \in web'[c].reported
  <2> DEFINE alive == web[b].pc # "store"
  <2>1. PICK d \in defs : e = Updated(alive)[d]
    BY <1>4
  <2>2. alive \in BOOLEAN
    OBVIOUS
  <2> HIDE DEF alive
  <2>3. (e.analysed <=> d.analysed /\ alive) /\ e.since = d.since
          /\ SameColumns(e, d)
    BY <2>1, <2>2, UpdatedFields
  <2>4. SameColumns(Latest', Latest)
    BY <1>4, <2>2, UpdatedRewrites, LatestKept DEF alive
  <2>5. d.analysed /\ alive
    BY <2>3
  <2>6. \/ op \in d.since
        \/ \E c \in Clients : web[c].pc = "store" /\ op \in web[c].reported
    BY <1>1, <1>2, <2>3, <2>4, <2>5
  <2>7. ASSUME NEW c \in Clients, web[c].pc = "store"
        PROVE  web'[c] = web[c]
    BY <1>4, <2>5, <2>7 DEF Crash, Done, Typed, TypeOK, alive
  <2> QED
    BY <2>3, <2>6, <2>7
<1>5. ASSUME NEW b \in Clients, Write(b)
      PROVE  \/ op \in e.since
             \/ \E c \in Clients : web'[c].pc = "store" /\ op \in web'[c].reported
  <2> DEFINE new == Inserted(b)
  <2>1. Latest' = new
    BY <1>5, WrittenIsLatest
  <2>2. e # new
    BY <2>1, NothingReported
  <2>3. PICK d \in Survivors(b) : e = Updated(Continues(b))[d]
    BY <1>5, <2>2, WriteSteps
  <2>4. d \in defs /\ Continues(b) \in BOOLEAN
    BY <1>5, WriteSteps DEF Survivors
  <2>5. (e.analysed <=> d.analysed /\ Continues(b)) /\ e.since = d.since
          /\ SameColumns(e, d)
    BY <2>3, <2>4, UpdatedFields
  <2>6. /\ d.analysed /\ web[b].kind = "analyze"
        /\ web[b].old.hv = Latest.hv /\ web[b].old.ops = Latest.ops
    BY <2>5 DEF Continues, SameVersion
  <2>7. web[b].pc = "write" /\ web[b] \in Job
    BY <1>5, JobType DEF Write, Typed
  <2>8. web'[b].pc = "store" /\ web'[b].reported = web[b].reported
    <3>1. web'[b] = [web[b] EXCEPT !.pc = "store"]
      BY <1>5, <2>6 DEF Write, Proceed, Goto, Typed, TypeOK
    <3> QED
      BY <2>7, <3>1 DEF Job
  <2>9. Reported(Latest, new) = web[b].reported
    <3>1. web[b].reported = Reported(web[b].old, [hv |-> hv, ops |-> web[b].ops])
      BY <2>6, <2>7 DEF ReportsAreOfTheStep
    <3>2. new.hv = hv /\ new.ops = web[b].ops
      BY <1>5, WriteSteps
    <3> HIDE DEF new
    <3>3. Reported(Latest, new)
            = Reported(web[b].old, [hv |-> hv, ops |-> web[b].ops])
      BY <2>6, <3>2, ReportedOf
    <3> QED
      BY <3>1, <3>3
  <2>10. op \in Reported(d, new)
    <3>1. Reported(e, new) = Reported(d, new)
      BY <2>5, ReportedOf DEF SameColumns
    <3> QED
      BY <2>1, <3>1
  <2>11. op \in Reported(d, Latest) \/ op \in Reported(Latest, new)
    <3>1. d.ops \in Documents /\ Latest.ops \in Documents /\ new.ops \in Documents
      <4>1. Latest \in defs
        BY <2>4, TypedStored, LatestIsLast
      <4>2. new \in Version
        BY <1>5, WriteSteps
      <4> QED
        BY <2>4, <4>1, <4>2 DEF Typed, TypeOK, Version
    <3>2. HashesAgree(d, Latest) /\ HashesAgree(Latest, new)
      BY <3>1, VersionsAgree
    <3> HIDE DEF new
    <3> QED
      BY <2>10, <3>2, StepsMissNothing
  <2>12. ASSUME NEW c \in Clients, web[c].pc = "store"
         PROVE  web'[c] = web[c]
    <3>1. c # b
      BY <2>7, <2>12
    <3> QED
      BY <1>5, <3>1 DEF Write, Proceed, Goto, Done, Typed, TypeOK
  <2> QED
    BY <1>1, <2>4, <2>5, <2>6, <2>8, <2>9, <2>11, <2>12
<1>6. CASE /\ defs' = defs
           /\ ~(\E c \in Clients : Store(c) \/ Crash(c))
  <2>1. Latest' = Latest
    BY <1>6 DEF Latest
  <2>2. \/ op \in e.since
        \/ \E c \in Clients : web[c].pc = "store" /\ op \in web[c].reported
    BY <1>1, <1>6, <2>1
  <2>3. \A c \in Clients : web[c].pc = "store" => web'[c] = web[c]
    BY <1>6, StoresStay
  <2> QED
    BY <2>2, <2>3
<1>7. ASSUME NEW b \in Clients, Store(b)
      PROVE  /\ web[b].reported \in SUBSET AllOps
             /\ defs' = {Extended(web[b].reported)[d] : d \in defs}
  <2>1. web[b].reported \in SUBSET AllOps
    BY <1>7, JobType DEF Store, Typed, Job
  <2> QED
    BY <1>7, <2>1 DEF Store, Extended
<1>8. ASSUME NEW b \in Clients, Crash(b)
      PROVE  defs' = {Updated(web[b].pc # "store")[d] : d \in defs}
  BY <1>8 DEF Crash, Updated, Marked
<1> QED
  BY <1>3, <1>4, <1>5, <1>6, <1>7, <1>8, DefsSteps

\* As long as every new version is analysed against the latest one, and when no
\* result is still to be stored, whatever is broken or gone between any stored
\* version and the latest was reported in between, for any number of requests
\* that store and replace versions, under any labels, in any order, with changes
\* of the hash version and requests that die.
THEOREM NoBreakEscapes ==
  ASSUME HashesTell(Documents)
  PROVE  Spec => []NoBreakIsMissed
<1> DEFINE Inv == ReportsAreOfTheStep /\ ReportedOrAboutToBe
<1>1. Init => Inv
  BY DEF Init, ReportsAreOfTheStep, ReportedOrAboutToBe, Idle
<1>2. Typed /\ Inv /\ [Next]_vars => Inv'
  BY StoredStep, ReportsStep, HistoryStep
<1>3. Inv => NoBreakIsMissed
  BY DEF ReportedOrAboutToBe, NoBreakIsMissed
<1> QED
  BY <1>1, <1>2, <1>3, TypedInit, TypedStep, PTL DEF Spec

-----------------------------------------------------------------------------
(* Ids and labels                                                            *)

\* The highest id in use, or given.
Top == IF ReuseIds THEN Latest.id ELSE lastId

BoundIn(id, label, versions, top) ==
  /\ id <= top
  /\ \A d \in versions : d.id = id => d.label = label

\* An id that a request remembers stands for its label for good.
Bound(id, label) == BoundIn(id, label, defs, Top)

BindingsHold ==
  \A c \in Clients :
    /\ web[c].pc # "idle" => Bound(web[c].old.id, web[c].old.label)
    /\ web[c].pc = "write" => Bound(web[c].existing, web[c].label)

\* No id between the last two is free, so that an id is given again only to the
\* version that replaces its last owner.
TopsAdjacent ==
  ReuseIds /\ Latest.id > 1 => \E d \in defs : d.id = Latest.id - 1

\* The collision guard: an analysis does not store its version under the label
\* of its base.
LabelsDiffer ==
  \A c \in Clients :
    /\ web[c].pc \in {"lookup", "write"} /\ web[c].kind = "analyze"
    /\ web[c].old # NoVersion
    => web[c].old.label # web[c].label

LEMMA TopType == Stored => Top \in Nat
BY LatestType DEF Top, Stored

\* Versions are of positive ids: no version is stored under the id of none.
LEMMA NoneIsBound ==
  ASSUME Stored
  PROVE  \A label : Bound(0, label)
<1>1. Top \in Nat
  BY TopType
<1>2. \A d \in defs : d.id # 0
  BY DEF Stored, Version
<1> QED
  BY <1>1, <1>2 DEF Bound, BoundIn

LEMMA StoredIsBound ==
  ASSUME Stored, NEW d \in defs
  PROVE  Bound(d.id, d.label)
<1>1. d.id <= Top
  BY LatestIsLast DEF Top, Stored
<1> QED
  BY <1>1 DEF Bound, BoundIn, Stored

\* The id a write gives is the next, or that of the version it replaces.
LEMMA NextIdOrReplaced ==
  ASSUME Typed, TopsAdjacent, NEW c \in Clients, Write(c)
  PROVE  \/ NewId(Survivors(c)) = Top + 1
         \/ /\ ReuseIds /\ NewId(Survivors(c)) = Top
            /\ Latest \in defs /\ Latest.id = web[c].existing
<1> DEFINE n == NewId(Survivors(c))
<1>1. /\ n \in Nat /\ n > 0
      /\ \A d \in Survivors(c) : d.id < n
      /\ ReuseIds => n = 1 \/ \E d \in Survivors(c) : n = d.id + 1
      /\ ~ReuseIds => n = lastId + 1
  <2>1. Survivors(c) \in SUBSET defs
    BY DEF Survivors
  <2> QED
    BY <2>1, TypedStored, NewIdIsNew
<1> HIDE DEF n
<1>2. Stored /\ Top \in Nat /\ Latest.id \in Nat /\ \A d \in defs : d.id <= Latest.id
  BY TypedStored, TopType, LatestType, LatestIsLast
<1>3. \A d \in defs : d.id \in Nat /\ d.id > 0
  BY <1>2 DEF Stored, Version
<1>4. CASE ~ReuseIds
  BY <1>1, <1>4 DEF Top, n
<1>5. CASE ReuseIds /\ defs = {}
  <2>1. Latest.id = 0
    BY <1>5, <1>2, LatestIsLast DEF NoVersion
  <2>2. n = 1
    BY <1>1, <1>5 DEF Survivors
  <2>3. n = Top + 1
    BY <1>5, <2>1, <2>2 DEF Top
  <2> QED
    BY <2>3 DEF n
<1>6. CASE ReuseIds /\ defs # {} /\ Latest.id # web[c].existing
  <2>1. Latest \in Survivors(c)
    BY <1>2, <1>6, LatestIsLast DEF Survivors
  <2>2. Latest.id < n /\ Latest.id > 0
    BY <1>1, <1>3, <2>1 DEF Survivors
  <2>3. n # 1
    BY <1>2, <2>2
  <2>4. PICK d \in Survivors(c) : n = d.id + 1
    BY <1>1, <1>6, <2>3
  <2>5. d.id \in Nat /\ d.id <= Latest.id
    BY <1>2, <1>3 DEF Survivors
  <2>6. n = Latest.id + 1
    BY <1>2, <2>2, <2>4, <2>5
  <2> QED
    BY <1>6, <2>6 DEF Top, n
<1>7. CASE ReuseIds /\ defs # {} /\ Latest.id = web[c].existing
  <2>1. Latest \in defs /\ Latest.id > 0
    BY <1>2, <1>3, <1>7, LatestIsLast
  <2>2. ASSUME NEW d \in Survivors(c)
        PROVE  d.id \in Nat /\ d.id + 1 <= Latest.id
    <3>1. d.id \in Nat /\ d.id <= Latest.id /\ d.id # Latest.id
      BY <1>2, <1>3, <1>7 DEF Survivors
    <3> QED
      BY <1>2, <3>1
  <2>3. n <= Latest.id
    BY <1>1, <1>2, <1>7, <2>1, <2>2
  <2>4. CASE Latest.id = 1
    <3>1. n = Latest.id
      BY <1>1, <2>3, <2>4
    <3> QED
      BY <1>7, <2>1, <3>1 DEF Top, n
  <2>5. CASE Latest.id > 1
    <3>1. PICK d \in defs : d.id = Latest.id - 1
      BY <1>7, <2>5 DEF TopsAdjacent
    <3>2. d \in Survivors(c)
      BY <1>2, <1>7, <3>1 DEF Survivors
    <3>3. d.id < n
      BY <1>1, <3>2
    <3>4. n = Latest.id
      BY <1>1, <1>2, <2>3, <3>1, <3>3
    <3> QED
      BY <1>7, <2>1, <3>4 DEF Top, n
  <2> QED
    BY <1>2, <2>1, <2>4, <2>5
<1> QED
  BY <1>4, <1>5, <1>6, <1>7

\* The latest id of the next state, and what it is bound to.
LEMMA TopStep ==
  ASSUME Typed, Stored', TopsAdjacent, [Next]_vars
  PROVE  /\ TopsAdjacent'
         /\ \/ Top' = Top /\ \A e \in defs' : \E d \in defs : SameColumns(e, d)
            \/ \E c \in Clients :
                 /\ Write(c) /\ Top' = NewId(Survivors(c))
                 /\ \A e \in defs' : \/ \E d \in defs : SameColumns(e, d)
                                     \/ e.id = Top' /\ e.label = web[c].label
<1>1. ASSUME NEW F, Rewrites(F, defs), defs' = {F[d] : d \in defs}, lastId' = lastId
      PROVE  /\ TopsAdjacent'
             /\ Top' = Top /\ \A e \in defs' : \E d \in defs : SameColumns(e, d)
  <2>1. \A d \in defs : F[d] \in defs' /\ SameColumns(F[d], d)
    BY <1>1 DEF Rewrites
  <2>2. Latest'.id = Latest.id
    <3>1. CASE defs = {}
      BY <1>1, <3>1 DEF Latest
    <3>2. CASE defs # {}
      BY <1>1, <3>2, LatestKept DEF SameColumns
    <3> QED
      BY <3>1, <3>2
  <2>3. TopsAdjacent'
    <3> SUFFICES ASSUME ReuseIds, Latest'.id > 1
                 PROVE  \E e \in defs' : e.id = Latest'.id - 1
      BY DEF TopsAdjacent
    <3>1. PICK d \in defs : d.id = Latest.id - 1
      BY <2>2 DEF TopsAdjacent
    <3> QED
      BY <2>1, <2>2, <3>1 DEF SameColumns
  <2> QED
    BY <1>1, <2>1, <2>2, <2>3 DEF Top
<1>2. ASSUME NEW c \in Clients, Write(c)
      PROVE  /\ TopsAdjacent' /\ Top' = NewId(Survivors(c))
             /\ \A e \in defs' : \/ \E d \in defs : SameColumns(e, d)
                                 \/ e.id = Top' /\ e.label = web[c].label
  <2> DEFINE n == NewId(Survivors(c))
             F == Updated(Continues(c))
  <2>1. /\ Latest' = Inserted(c) /\ Inserted(c).id = n
        /\ Inserted(c).label = web[c].label /\ lastId' = lastId + 1
        /\ Continues(c) \in BOOLEAN
        /\ defs' = {F[d] : d \in Survivors(c)} \cup {Inserted(c)}
    BY <1>2, WrittenIsLatest, WriteSteps
  <2>2. Survivors(c) \in SUBSET defs
    BY DEF Survivors
  <2>3. /\ n \in Nat
        /\ ReuseIds => n = 1 \/ \E d \in Survivors(c) : n = d.id + 1
        /\ ~ReuseIds => n = lastId + 1
    BY <2>2, TypedStored, NewIdIsNew
  <2>4. Top' = n
    BY <2>1, <2>3 DEF Top
  <2>5. \A d \in Survivors(c) : F[d] \in defs' /\ SameColumns(F[d], d)
    BY <2>1, <2>2, UpdatedFields
  <2> HIDE DEF n, F
  <2>6. TopsAdjacent'
    <3> SUFFICES ASSUME ReuseIds, n > 1
                 PROVE  \E e \in defs' : e.id = n - 1
      BY <2>1 DEF TopsAdjacent
    <3>1. PICK d \in Survivors(c) : n = d.id + 1
      BY <2>3
    <3>2. d.id \in Nat
      BY <2>2 DEF Typed, TypeOK, Version
    <3>3. d.id = n - 1
      BY <3>1, <3>2
    <3> QED
      BY <2>5, <3>3 DEF SameColumns
  <2>7. \A e \in defs' : \/ \E d \in defs : SameColumns(e, d)
                         \/ e.id = n /\ e.label = web[c].label
    BY <2>1, <2>2, <2>5
  <2> QED
    BY <2>4, <2>6, <2>7 DEF n
<1>3. CASE defs' = defs /\ lastId' = lastId
  <2>1. Latest' = Latest
    BY <1>3 DEF Latest
  <2> QED
    BY <1>3, <2>1 DEF Top, TopsAdjacent, SameColumns
<1>4. ASSUME NEW c \in Clients, lastId' = lastId, web[c].reported \in SUBSET AllOps,
             defs' = {Extended(web[c].reported)[d] : d \in defs}
      PROVE  /\ TopsAdjacent'
             /\ Top' = Top /\ \A e \in defs' : \E d \in defs : SameColumns(e, d)
  BY <1>1, <1>4, ExtendedRewrites
<1>5. ASSUME NEW c \in Clients, lastId' = lastId,
             defs' = {Updated(web[c].pc # "store")[d] : d \in defs}
      PROVE  /\ TopsAdjacent'
             /\ Top' = Top /\ \A e \in defs' : \E d \in defs : SameColumns(e, d)
  <2>1. (web[c].pc # "store") \in BOOLEAN
    OBVIOUS
  <2> QED
    BY <1>1, <1>5, <2>1, UpdatedRewrites
<1> QED
  BY <1>2, <1>3, <1>4, <1>5, DefsSteps

\* Whatever the step, an id stays bound to its label.
LEMMA BoundKept ==
  ASSUME Typed, Stored', TopsAdjacent, BindingsHold, [Next]_vars,
         NEW id \in Nat, NEW label, Bound(id, label)
  PROVE  BoundIn(id, label, defs', Top')
<1>1. id <= Top /\ \A d \in defs : d.id = id => d.label = label
  BY DEF Bound, BoundIn
<1>2. CASE Top' = Top /\ \A e \in defs' : \E d \in defs : SameColumns(e, d)
  BY <1>1, <1>2 DEF BoundIn, SameColumns
<1>3. ASSUME NEW c \in Clients, Write(c), Top' = NewId(Survivors(c)),
             \A e \in defs' : \/ \E d \in defs : SameColumns(e, d)
                              \/ e.id = Top' /\ e.label = web[c].label
      PROVE  BoundIn(id, label, defs', Top')
  <2>1. Top \in Nat
    BY TypedStored, TopType
  <2>2. CASE Top' = Top + 1
    <3>1. id <= Top' /\ id # Top'
      BY <1>1, <2>1, <2>2
    <3> QED
      BY <1>1, <1>3, <3>1 DEF BoundIn, SameColumns
  <2>3. CASE ReuseIds /\ Top' = Top /\ Latest \in defs /\ Latest.id = web[c].existing
    <3>1. Latest.label = web[c].label
      BY <1>3, <2>3 DEF Write, BindingsHold, Bound, BoundIn
    <3>2. Latest.id = Top
      BY <2>3 DEF Top
    <3>3. id = Top' => label = web[c].label
      BY <1>1, <2>3, <3>1, <3>2
    <3> QED
      BY <1>1, <1>3, <2>3, <3>3 DEF BoundIn, SameColumns
  <2> QED
    BY <1>3, <2>2, <2>3, NextIdOrReplaced
<1> QED
  BY <1>2, <1>3, TopStep

LEMMA BindingsStep ==
  ASSUME Typed, Stored', TopsAdjacent, BindingsHold, [Next]_vars
  PROVE  BindingsHold'
<1> SUFFICES ASSUME NEW c \in Clients
             PROVE  /\ web'[c].pc # "idle"
                         => BoundIn(web'[c].old.id, web'[c].old.label, defs', Top')
                    /\ web'[c].pc = "write"
                         => BoundIn(web'[c].existing, web'[c].label, defs', Top')
  BY DEF BindingsHold, Bound
<1>1. ASSUME NEW id \in Nat, NEW label, Bound(id, label)
      PROVE  BoundIn(id, label, defs', Top')
  BY <1>1, BoundKept
<1>2. Moved(c) /\ Stored
  BY WebSteps, TypedStored
<1>3. ASSUME web[c].pc # "idle"
      PROVE  /\ web[c] \in Job
             /\ BoundIn(web[c].old.id, web[c].old.label, defs', Top')
             /\ web[c].pc = "write"
                  => BoundIn(web[c].existing, web[c].label, defs', Top')
  <2>1. web[c] \in Job
    BY <1>3, JobType DEF Typed
  <2>2. web[c].old.id \in Nat /\ web[c].existing \in Nat
    BY <2>1 DEF Job, Version, NoVersion
  <2>3. /\ Bound(web[c].old.id, web[c].old.label)
        /\ web[c].pc = "write" => Bound(web[c].existing, web[c].label)
    BY <1>3 DEF BindingsHold
  <2> QED
    BY <1>1, <2>1, <2>2, <2>3
<1>4. ASSUME NEW old \in defs \cup {NoVersion}
      PROVE  /\ BoundIn(old.id, old.label, defs', Top')
             /\ Columns(old).id = old.id /\ Columns(old).label = old.label
  <2>1. old.id \in Nat
    BY DEF Typed, TypeOK, Version, NoVersion
  <2>2. Bound(old.id, old.label)
    BY <1>2, StoredIsBound, NoneIsBound DEF NoVersion
  <2>3. old \in Version \cup {NoVersion}
    BY DEF Typed, TypeOK
  <2> QED
    BY <1>1, <2>1, <2>2, <2>3, ColumnsType
<1>5. CASE web'[c] = web[c]
  BY <1>3, <1>5
<1>6. CASE web'[c] = Idle
  BY <1>6 DEF Idle
<1>7. ASSUME NEW doc, NEW want, web'[c] = NewJob("parse", doc, want, NoVersion, {})
      PROVE  /\ BoundIn(web'[c].old.id, web'[c].old.label, defs', Top')
             /\ web'[c].pc # "write"
  <2>1. web'[c].old = NoVersion /\ web'[c].pc = "resolve"
    BY <1>7 DEF NewJob
  <2> QED
    BY <1>4, <2>1
<1>8. ASSUME NEW doc, NEW want, NEW old \in defs \cup {NoVersion}, NEW reported,
             web'[c] = NewJob("analyze", doc, want, Columns(old), reported)
      PROVE  /\ BoundIn(web'[c].old.id, web'[c].old.label, defs', Top')
             /\ web'[c].pc # "write"
  <2>1. web'[c].old = Columns(old) /\ web'[c].pc = "resolve"
    BY <1>8 DEF NewJob
  <2> QED
    BY <1>4, <2>1
<1>9. CASE Resolve(c) /\ web'[c] = [web[c] EXCEPT !.pc = "lookup", !.label = Label(c)]
  <2>1. web[c] \in Job /\ BoundIn(web[c].old.id, web[c].old.label, defs', Top')
    BY <1>3, <1>9 DEF Resolve
  <2>2. web'[c].pc = "lookup" /\ web'[c].old = web[c].old
    BY <1>9, <2>1 DEF Job
  <2> QED
    BY <2>1, <2>2
<1>10. CASE /\ Lookup(c)
            /\ web'[c] = [web[c] EXCEPT !.pc = "write",
                                        !.existing = ByLabel(web[c].label).id]
  <2> DEFINE found == ByLabel(web[c].label)
  <2>1. web[c] \in Job /\ BoundIn(web[c].old.id, web[c].old.label, defs', Top')
    BY <1>3, <1>10 DEF Lookup
  <2>2. /\ web'[c].old = web[c].old /\ web'[c].label = web[c].label
        /\ web'[c].existing = found.id
    BY <1>10, <2>1 DEF Job
  <2>3. found.id \in Nat /\ Bound(found.id, web[c].label)
    <3>1. CASE found \in defs /\ found.label = web[c].label
      BY <1>2, <3>1, StoredIsBound DEF Stored, Version
    <3>2. CASE found = NoVersion
      BY <1>2, <3>2, NoneIsBound DEF NoVersion
    <3> QED
      BY <3>1, <3>2, ByLabelFinds
  <2>4. BoundIn(found.id, web[c].label, defs', Top')
    BY <1>1, <2>3
  <2> QED
    BY <2>1, <2>2, <2>4
<1>11. CASE (Write(c) \/ WriteLost(c)) /\ web'[c] = [web[c] EXCEPT !.pc = "store"]
  <2>1. web[c] \in Job /\ BoundIn(web[c].old.id, web[c].old.label, defs', Top')
    BY <1>3, <1>11 DEF Write, WriteLost
  <2>2. web'[c].pc = "store" /\ web'[c].old = web[c].old
    BY <1>11, <2>1 DEF Job
  <2> QED
    BY <2>1, <2>2
<1> QED
  BY <1>2, <1>5, <1>6, <1>7, <1>8, <1>9, <1>10, <1>11 DEF Moved

LEMMA LabelsDifferStep ==
  ASSUME Typed, LabelsDiffer, [Next]_vars
  PROVE  LabelsDiffer'
<1> SUFFICES ASSUME NEW c \in Clients, web'[c].pc \in {"lookup", "write"},
                    web'[c].kind = "analyze", web'[c].old # NoVersion
             PROVE  web'[c].old.label # web'[c].label
  BY DEF LabelsDiffer
<1>1. Moved(c)
  BY WebSteps
<1>2. CASE web'[c] = web[c]
  BY <1>2 DEF LabelsDiffer
<1>3. \A kind, doc, want, old, reported :
        web'[c] # NewJob(kind, doc, want, old, reported)
  BY DEF NewJob
<1>4. CASE Resolve(c) /\ web'[c] = [web[c] EXCEPT !.pc = "lookup", !.label = Label(c)]
  <2>1. web[c] \in Job
    BY <1>4, JobType DEF Resolve, Typed
  <2>2. /\ web'[c].kind = web[c].kind /\ web'[c].old = web[c].old
        /\ web'[c].label = Label(c)
    BY <1>4, <2>1 DEF Job
  <2> QED
    BY <1>4, <2>2 DEF Resolve, Collides
<1>5. CASE /\ Lookup(c)
           /\ web'[c] = [web[c] EXCEPT !.pc = "write",
                                       !.existing = ByLabel(web[c].label).id]
  <2>1. web[c] \in Job /\ web[c].pc = "lookup"
    BY <1>5, JobType DEF Lookup, Typed
  <2>2. /\ web'[c].kind = web[c].kind /\ web'[c].old = web[c].old
        /\ web'[c].label = web[c].label
    BY <1>5, <2>1 DEF Job
  <2> QED
    BY <2>1, <2>2 DEF LabelsDiffer
<1>6. CASE (Write(c) \/ WriteLost(c)) /\ web'[c] = [web[c] EXCEPT !.pc = "store"]
  <2>1. web[c] \in Job
    BY <1>6, JobType DEF Write, WriteLost, Typed
  <2> QED
    BY <1>6, <2>1 DEF Job
<1>7. web'[c] # Idle
  BY DEF Idle
<1> QED
  BY <1>1, <1>2, <1>3, <1>4, <1>5, <1>6, <1>7 DEF Moved

\* A request that moves on from its write has left its base in place.
LEMMA BaselineStep ==
  ASSUME Typed, BindingsHold, LabelsDiffer, [Next]_vars, NEW c \in Clients,
         web[c] # web'[c], web[c].pc = "write", web[c].kind = "analyze",
         NEW d \in defs, SameVersion(d, web[c].old)
  PROVE  \E e \in defs' : SameVersion(d, e)
<1>1. ASSUME NEW F, NEW S \in SUBSET defs, Rewrites(F, defs), d \in S,
             {F[x] : x \in S} \subseteq defs'
      PROVE  \E e \in defs' : SameVersion(d, e)
  <2>1. F[d] \in defs' /\ SameColumns(F[d], d)
    BY <1>1 DEF Rewrites
  <2> QED
    BY <2>1 DEF SameColumns, SameVersion
<1>2. ASSUME NEW b \in Clients, Write(b)
      PROVE  \E e \in defs' : SameVersion(d, e)
  <2>1. b = c
    BY <1>2 DEF Write, Proceed, Done, Goto, Typed, TypeOK
  <2>2. d.id # web[c].existing
    <3> SUFFICES ASSUME d.id = web[c].existing
                 PROVE  FALSE
      OBVIOUS
    <3>1. d.label = web[c].label
      BY DEF BindingsHold, Bound, BoundIn
    <3>2. d.id = web[c].old.id
      BY DEF SameVersion
    <3>3. d.label = web[c].old.label
      BY <3>2 DEF BindingsHold, Bound, BoundIn
    <3>4. web[c].old # NoVersion
      BY <3>2 DEF Typed, IdsGiven, NoVersion
    <3> QED
      BY <3>1, <3>3, <3>4 DEF LabelsDiffer
  <2>3. d \in Survivors(c) /\ Survivors(c) \in SUBSET defs
    BY <2>2 DEF Survivors
  <2>4. /\ Rewrites(Updated(Continues(c)), defs)
        /\ {Updated(Continues(c))[x] : x \in Survivors(c)} \subseteq defs'
    BY <1>2, <2>1, WriteSteps, UpdatedRewrites
  <2> QED
    BY <1>1, <2>3, <2>4
<1>3. CASE defs' = defs
  BY <1>3 DEF SameVersion
<1>4. ASSUME NEW b \in Clients, web[b].reported \in SUBSET AllOps,
             defs' = {Extended(web[b].reported)[x] : x \in defs}
      PROVE  \E e \in defs' : SameVersion(d, e)
  BY <1>1, <1>4, ExtendedRewrites
<1>5. ASSUME NEW b \in Clients,
             defs' = {Updated(web[b].pc # "store")[x] : x \in defs}
      PROVE  \E e \in defs' : SameVersion(d, e)
  <2>1. (web[b].pc # "store") \in BOOLEAN
    OBVIOUS
  <2> QED
    BY <1>1, <1>5, <2>1, UpdatedRewrites
<1> QED
  BY <1>2, <1>3, <1>4, <1>5, DefsSteps

\* An analysis never deletes the version it was made against: not although other
\* requests store and replace versions between its statements, and not although
\* the database gives the highest id a second time.
THEOREM BaselinesAreKept == Spec => KeepsItsBaseline
<1> DEFINE Inv == TopsAdjacent /\ BindingsHold /\ LabelsDiffer
<1>1. Init => Inv
  <2>1. Init => Latest.id = 0
    BY DEF Init, Latest, NoVersion
  <2> QED
    BY <2>1 DEF Init, TopsAdjacent, BindingsHold, LabelsDiffer, Idle
<1>2. Typed /\ Inv /\ [Next]_vars => Inv'
  BY StoredStep, TopStep, BindingsStep, LabelsDifferStep
<1>3. Typed /\ Inv /\ [Next]_vars =>
        [\A c \in Clients :
           web[c] # web'[c] /\ web[c].pc = "write" /\ web[c].kind = "analyze" =>
             \A d \in defs : SameVersion(d, web[c].old) =>
               \E e \in defs' : SameVersion(d, e)]_vars
  BY BaselineStep
<1> QED
  BY <1>1, <1>2, <1>3, TypedInit, TypedStep, PTL DEF Spec, KeepsItsBaseline
=============================================================================
