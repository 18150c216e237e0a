------------------------------- MODULE Inputs -------------------------------
(***************************************************************************)
(* The parts of the platform that keep no state, called one at a time:     *)
(* documents compared, generation requests answered, reports read, times   *)
(* limited.  A behaviour is one call, which the state keeps with its       *)
(* result; the properties say what the two have to do with each other.     *)
(*                                                                         *)
(* The walks over schemas and the parser are parameters, with what they    *)
(* satisfy as assumptions; Parsing gives them their definitions.           *)
(***************************************************************************)
EXTENDS ApiHash, GenerationChoice, JunitReport, TimeLimits, ImpactDiff

CONSTANTS Schemas,      \* resolved schemas
          Rank(_),      \* their depth
          JsonValues,   \* values they are asked about
          Meets(_, _),  \* what a schema says of a value
          Dropped(_),   \* what no hash knows of a schema
          Documents,    \* OpenAPI documents
          Requests,     \* generation requests
          Reports,      \* reports of pytest, as sequences of suites
          Timeouts      \* timeouts of execution tasks

\* A resolved schema is a finite tree.
ASSUME SchemasAssumption ==
    \A s \in Schemas :
       /\ Rank(s) \in Nat
       /\ \A t \in Subschemas(s) : t \in Schemas /\ Rank(t) < Rank(s)

ASSUME JsonAssumption ==
    \A x \in JsonValues :
       x.is \in {"object", "array"} => \A n \in DOMAIN x.of : x.of[n] \in JsonValues

\* The walks over schemas.
ASSUME WalksAssumption ==
    \A s \in Schemas :
       /\ NormalForm(s) = NormalizedBy(NormalForm, s)
       /\ SignatureOf(s) = SignedBy(SignatureOf, s)
       /\ Dropped(s) = DroppedBy(Dropped, s)
       /\ \A x \in JsonValues : Meets(s, x) <=> AcceptedBy(Meets, s, x)

\* An operation whose schemas are resolved, with its contract.
IsParameter(p) ==
    p \in [name : {p.name}, in : {p.in}, required : BOOLEAN, schema : Schemas]

IsResolved(op) ==
    /\ \A p \in Range(op.parameters) : IsParameter(p)
    /\ op.body \in Seq([required : BOOLEAN, schema : Schemas])
    /\ op.contract = Contract(op.parameters, op.body, op.responses)

\* What the parser returns: an error, or its operations, one at least.
ASSUME ParsedAssumption ==
    \A d \in Documents :
       LET operations == Parsed(d).operations
       IN \/ Parsed(d) = Invalid
          \/ /\ operations \in Seq(Range(operations)) /\ operations # <<>>
             /\ \A op \in Range(operations) : IsResolved(op)
             /\ Parsed(d) = ParsedApi(operations)

ASSUME RequestsAssumption ==
    \A r \in Requests :
       r.document \in Documents /\ r.operationIds.listed \in BOOLEAN /\ r.forceFull \in BOOLEAN

With(cases, mark) == Cardinality({j \in DOMAIN cases : mark \in cases[j].marks})

\* A suite as pytest writes it when it ends with 0 or 1, and only then is the
\* report read: every case was collected, has one outcome and is counted once.
IsOfPytest(suite) ==
    /\ suite.malformed \in BOOLEAN
    /\ suite.cases \in Seq(Range(suite.cases))
    /\ \A tc \in Range(suite.cases) :
          tc.name # NoCase /\ tc.marks \in {{}, {"failure"}, {"error"}, {"skipped"}}
    /\ suite.tests = Len(suite.cases)
    /\ suite.failures = With(suite.cases, "failure")
    /\ suite.errors = With(suite.cases, "error")
    /\ suite.skipped = With(suite.cases, "skipped")

ASSUME ReportsAssumption ==
    \A suites \in Reports :
       /\ suites \in Seq(Range(suites))
       /\ \A suite \in Range(suites) : IsOfPytest(suite)

ASSUME TimeoutsAssumption == Timeouts \subseteq Nat

-----------------------------------------------------------------------------
VARIABLE call

NoCall == [of |-> "nothing"]

Init == call = NoCall

CompareDocuments ==
    \E old, new \in Documents :
        call' = [of |-> "documents", old |-> Parsed(old), new |-> Parsed(new)]

\* The row that a request leaves, if it is accepted.
CreateTask ==
    \E r \in Requests :
        call' = [of |-> "request",
                 row |-> Choice(r.document, r.operationIds, r.forceFull, r.latest)]

ReadReport ==
    \E suites \in Reports : call' = [of |-> "report", report |-> ParseJunit(suites)]

LimitTime == \E t \in Timeouts : call' = [of |-> "timeout", timeout |-> t]

Next ==
    /\ call = NoCall
    /\ CompareDocuments \/ CreateTask \/ ReadReport \/ LimitTime

Spec == Init /\ [][Next]_call

-----------------------------------------------------------------------------
\* Documents.

VersionOf(parsed) ==
    [hv |-> 1, ops |-> [id \in parsed.ids |-> [hash |-> parsed.hashes[id],
                                               contract |-> parsed.contracts[id]]]]

\* The operation takes a request with this JSON body, or none of it.
Takes(op, x) == op.body # <<>> => Meets(op.body[1].schema, x)

\* The names in a contract and the hash of an operation come from the same
\* schema but by different walks.  Whatever the two documents, operations with
\* the same hash have the same contract, so that a break never hides behind an
\* equal hash (openapi_parser: _normalize, _collect_signature; the assumption
\* of the theorems about impact_diff).
HashDeterminesContract ==
    call.of = "documents" /\ ~call.old.error /\ ~call.new.error =>
      \A id \in call.old.ids \cap call.new.ids :
        call.old.hashes[id] = call.new.hashes[id] => call.old.contracts[id] = call.new.contracts[id]

\* Two operations have bodies that no hash drops different things of.
DropTheSame(a, b) ==
    \A i \in DOMAIN a.body \cap DOMAIN b.body :
        Dropped(a.body[i].schema) = Dropped(b.body[i].schema)

\* Of the bodies as they are resolved: an operation that rejects a body that the
\* older document let it take is among the changed ones of the comparison, if
\* the two schemas have the same additionalProperties, const and multipleOf at
\* the same places.  A narrowing by one of these alone goes unseen
\* (openapi_parser: _STRUCT_KEYS, _normalize, _hash_op; impact_diff:
\* diff_operations).
NarrowingIsSeen ==
    call.of = "documents" /\ ~call.old.error /\ ~call.new.error =>
      \A id \in call.old.ids \cap call.new.ids :
        LET old == LastOf(call.old.operations, id)
            new == LastOf(call.new.operations, id)
        IN DropTheSame(old, new) /\ (\E x \in JsonValues : Takes(old, x) /\ ~Takes(new, x))
             => id \in Changed(VersionOf(call.old), VersionOf(call.new))

-----------------------------------------------------------------------------
\* Generation requests.

\* A request that is accepted and whose document can be read gives the worker
\* something to do: a stale analysis or unknown ids never end in a success
\* without operations (generation_service: create_generation_task).
TargetsAreNotEmpty ==
    call.of = "request" /\ call.row.error = "none" =>
      \E work \in {Work(call.row)} : work.error \/ work.targets # {}

-----------------------------------------------------------------------------
\* Reports and time.

\* The counters of a report agree with its entries, also when the suites are
\* several and cases are skipped (junit_parser: parse_junit_xml).
CountersMatchTheEntries ==
    call.of = "report" =>
      LET r == call.report
          Are(statuses) == Cardinality({p \in DOMAIN r.entries : r.entries[p].status \in statuses})
      IN ~r.error => /\ r.total = Cardinality(DOMAIN r.entries)
                     /\ r.passed = Are({"pass"})
                     /\ r.failed = Are({"fail", "error"})
                     /\ r.skipped = Are({"skipped"})

\* The limits of a message come in the order that their owners rely on
\* (dispatcher: task_time_limits).
TimeIsOrdered == call.of = "timeout" => LimitsAreOrdered(call.timeout)
=============================================================================
