------------------------------ MODULE MCInputs ------------------------------
(* Small inputs for every call of Parsing.  The rate limit, which shares    *)
(* nothing with the calls, is checked beside them: a behaviour makes a call *)
(* or is one of RateLimit.                                                  *)
EXTENDS Parsing, RateLimit

\* Schemas as the texts write them.
Typed(type) == << <<"type", type>> >>
OneOfThese(names) == Append(Typed("string"), <<"enum", names>>)
Ref(name) == << <<"$ref", name>> >>
ArrayOf(items) == Append(Typed("array"), <<"items", items>>)
Closed(props, required) ==
  << <<"type", "object">>, <<"properties", props>>, <<"required", required>> >>
Open(props) == << <<"properties", props>>, <<"description", "text">> >>
AllOf(parts) == << <<"allOf", parts>> >>
Also(schema, k, v) == Append(schema, <<k, v>>)
\* A schema that is false.
Nothing == << <<"enum", {}>> >>

Prop(name, schema) == << <<name, schema>> >>

Simple == {Typed("string"), Typed("integer"), OneOfThese({"x"}), OneOfThese({"x", "y"}),
           Ref("Text")}

Objects == {Closed(Prop("a", s), r) : s \in Simple, r \in {{}, {"a"}}}
           \cup {Closed(Prop("a", s) \o Prop("b", Typed("string")), r) :
                   s \in {Typed("string"), Ref("Text")}, r \in {{}, {"b"}}}
           \cup {Open(Prop("a", Typed("string")))}

Nested == {ArrayOf(s) : s \in Simple}
          \cup {Closed(Prop("a", o), {}) : o \in Objects}
          \cup {Closed(Prop("a", ArrayOf(Ref("Item"))), {"a"}), ArrayOf(Ref("Item"))}

Together == {AllOf(<<Ref("Item"), Closed(Prop("b", s), r)>>) : s \in Simple, r \in {{}, {"b"}}}

\* Components: a plain one and one that refers to it.
Components(text, item) ==
  [n \in {"Text", "Item"} |-> IF n = "Text" THEN text ELSE item]
Usual == Components(OneOfThese({"x"}), Closed(Prop("a", Ref("Text")), {"a"}))

\* What a schema may say beside its structure.
Bounded == {Also(Typed("integer"), k, 2) : k \in {"minimum", "multipleOf"}}
           \cup {<< <<"const", [is |-> "string", of |-> t]>> >> : t \in {"x", "y"}}
           \cup {Also(Closed(Prop("a", Typed("string")), {}), "additionalProperties", s) :
                   s \in {Nothing, Typed("string"), Ref("Text")}}

\* Parts of an allOf that are no disjoint objects: the parser warns of nothing.
Merging == {AllOf(<<s>>) : s \in Simple \cup Bounded}
           \cup {AllOf(<<Ref("Item"), Closed(Prop("a", s), {})>>) : s \in Simple}
           \cup {AllOf(<<AllOf(<<Ref("Item")>>), Closed(Prop("b", Typed("string")), {"b"})>>)}
           \cup {Also(AllOf(<<Ref("Item")>>), "properties", Prop("b", Typed("string"))),
                 AllOf(<<>>)}

\* Where it does: choices, and references that lead nowhere.
Warned == {<< <<"oneOf", <<s, Typed("integer")>> >> >> : s \in {Typed("string"), Ref("Item")}}
          \cup {Ref("Missing"), Ref(External), Closed(Prop("a", Ref("Missing")), {})}

RECURSIVE Deep(_)
Deep(n) == IF n = 0 THEN Typed("string") ELSE Closed(Prop("a", Deep(n - 1)), {})

\* Components that lead to themselves, alone or through each other.
Cycles == {Components(Closed(Prop("a", Ref(n)), {}), item) :
             n \in {"Text", "Item"},
             item \in {ArrayOf(Ref("Text")), Closed(Prop("b", Ref("Item")), {"b"}),
                      Also(Typed("object"), "additionalProperties", Ref("Text")),
                      AllOf(<<Ref("Text"), Closed(Prop("b", Ref("Item")), {})>>)}}
          \cup {Components(Ref("Item"), Ref("Text"))}

MCBodies ==
  {[schema |-> s, schemas |-> Usual] :
     s \in Simple \cup Objects \cup Nested \cup Together \cup Bounded \cup Merging \cup Warned}
  \cup {[schema |-> Deep(n), schemas |-> Usual] : n \in 1..8}
  \cup {[schema |-> s, schemas |-> c] : s \in {Ref("Text"), ArrayOf(Ref("Item"))}, c \in Cycles}

Text(t) == [is |-> "string", of |-> t]
Number == [is |-> "integer", of |-> 1]
Array(s) == [is |-> "array", of |-> s]
Object(f) == [is |-> "object", of |-> f]
Scalars == {Text("x"), Text("y"), Number}
Flat == {Object([n \in {} |-> Number])}
        \cup {Object([n \in {"a"} |-> s]) : s \in Scalars}
        \cup {Object([n \in {"b"} |-> s]) : s \in Scalars}
        \cup {Object([n \in {"a", "b"} |-> IF n = "a" THEN s ELSE t]) : s, t \in Scalars}
MCJsonValues == Scalars \cup Flat \cup {Array(<<v>>) : v \in Scalars \cup Flat}
                \cup {Object([n \in {"a"} |-> v]) : v \in Flat}
                \cup {Object([n \in {"a"} |-> Array(<<v>>)]) : v \in Flat}

-----------------------------------------------------------------------------
Json(schema) == [content |-> [m \in {"json"} |-> [schema |-> schema]]]
Body(schema, required) == [content |-> Json(schema).content, required |-> required]
Answer(code, schema) == << <<code, Json(schema)>> >>
Param(name, schema) == [name |-> name, in |-> "query", required |-> TRUE, schema |-> schema]

Post(schema) == [operationId |-> <<"save">>, requestBody |-> Body(schema, TRUE),
                 responses |-> Answer("200", Ref("Item"))]
Find(params) == [parameters |-> params, responses |-> Answer("200", Ref("Item"))]

Document(paths, schemas) ==
  [openapi |-> "3", paths |-> paths, schemas |-> schemas,
   params |-> [n \in {"P", "Q"} |-> IF n = "P" THEN Param("p", Ref("Text")) ELSE [ref |-> "Q"]]]
On(path, ops) == <<[path |-> path, ops |-> ops]>>
Posting(schema) == Document(On(<<"orders">>, << <<"post", Post(schema)>> >>), Usual)
Finding(params, segment) ==
  Document(On(<<"orders", segment>>, << <<"get", Find(params)>>, <<"x-note", Find(<<>>)>> >>), Usual)

Bodyless == [operationId |-> <<"save">>, responses |-> Answer("200", Ref("Item"))]
Answering(code) == [Bodyless EXCEPT !.responses = Answer(code, Ref("Item"))]

MCDocuments ==
  {Posting(s) : s \in Objects \cup Nested \cup Bounded \cup {Typed("string"), Typed("integer")}}
  \cup {Posting(Closed(Prop("a", s), {})) : s \in Bounded}
  \cup {Posting(AllOf(<<Ref("Item"), Closed(Prop("b", Typed("string")), {"b"})>>))}
  \cup {Document(On(<<"orders">>, << <<"post", Post(Ref("Item"))>> >>),
                 Components(t, Closed(Prop("a", Ref("Text")), {"a"}))) :
          t \in {Typed("string"), OneOfThese({"x", "y"}), Ref("Item")}}
  \cup {Finding(params, segment) : segment \in {"{id}", "{userId}"},
          params \in {<<>>, <<Param("q", Typed("string"))>>, <<[ref |-> "P"]>>, <<[ref |-> "Q"]>>,
                      <<[ref |-> "P"], Param("p", Typed("integer"))>>}}
  \cup {Document(On(<<"orders">>, << <<"post", op>> >>), Usual) :
          op \in {Bodyless, Answering("201")}}
  \cup {Document(On(<<"orders">>, << <<"post", Post(Ref("Item"))>>, <<"put", Bodyless>> >>), Usual),
        Document(<<>>, Usual),
        [Posting(Ref("Item")) EXCEPT !.openapi = "2"]}

-----------------------------------------------------------------------------
\* Generation requests: two operations, one of them known only to an analysis.
TwoOps == Document(On(<<"orders">>, << <<"post", Bodyless>>, <<"get", Find(<<>>)>> >>), Usual)
OneOp == Document(On(<<"orders">>, << <<"post", Bodyless>> >>), Usual)
Save == <<"save">>
Get_ == <<"get", "orders">>
Gone == <<"gone">>

\* An explicit list is not looked up in the latest analysis: one is enough.
MCRequests ==
 {r \in [document : {TwoOps, OneOp, Document(<<>>, Usual)},
         operationIds : {NoList} \cup {Listed(ids) : ids \in SUBSET {Save, Get_, Gone}},
         forceFull : BOOLEAN,
         latest : {NoAnalysis} \cup {<<s>> : s \in SUBSET {Save, Gone}}] :
  r.operationIds.listed => r.latest = <<{}>>}

-----------------------------------------------------------------------------
\* Swagger 2 documents: own, common and path-level parameters, bodies.
Definition(name) == << <<"$definition", name>> >>
OldParam(name, keys) == [name |-> name, in |-> "query", required |-> TRUE, keys |-> keys]
OldBody(schema) == [name |-> "body", in |-> "body", required |-> TRUE, schema |-> schema]

OldForm(name, keys) == [OldParam(name, keys) EXCEPT !.in = "formData"]

OldSchemas == {Typed("string"), Definition("Item"), ArrayOf(Definition("Item")),
               Closed(Prop("a", Definition("Text")), {"a"}),
               Closed(Prop("a", ArrayOf(Definition("Item"))), {}),
               Also(Typed("object"), "additionalProperties", Definition("Text")),
               AllOf(<<Definition("Item"), Closed(Prop("b", Typed("string")), {"b"})>>)}

OldLists == {<<>>, <<OldParam("q", <<>>)>>, <<[ref |-> "Common"]>>,
             <<[ref |-> "Unknown"], OldParam("q", Typed("integer"))>>,
             <<[ref |-> "Body"], OldParam("q", <<>>)>>,
             <<OldForm("f", <<>>), OldForm("g", Typed("integer")), [ref |-> "Common"]>>,
             <<[ref |-> "Form"]>>, <<OldForm("f", <<>>), OldBody(Definition("Item"))>>}
            \cup {<<OldBody(s), [ref |-> "Common"]>> : s \in OldSchemas}

OldOps == {[parameters |-> params, responses |-> << <<"200", [schema |-> Definition("Item")]>>,
                                                     <<"404", [description |-> ""]>> >>] :
             params \in OldLists}
          \cup {[operationId |-> <<"save">>, consumes |-> types, produces |-> <<"*">>,
                 parameters |-> params] :
                   types \in {<<"xml", "json">>, <<"xml">>, <<"form">>},
                   params \in {<<OldBody(Definition("Item"))>>, <<OldForm("f", <<>>)>>}}

MCSwaggers ==
  {[paths |-> <<[path |-> <<"orders">>, params |-> pathLevel,
                 ops |-> << <<"post", op>>, <<"x-note", op>> >>],
                [path |-> <<"empty">>, params |-> <<>>, ops |-> <<>>]>>,
    definitions |-> Components(OneOfThese({"x"}), Closed(Prop("a", Definition("Text")), {"a"})),
    params |-> [n \in {"Common", "Form", "Body"} |->
                  CASE n = "Common" -> OldParam("c", Typed("string"))
                    [] n = "Form" -> OldForm("h", Typed("integer"))
                    [] n = "Body" -> OldBody(Definition("Item"))],
    consumes |-> consumes] :
     op \in OldOps,
     pathLevel \in {<<>>, <<OldParam("t", Typed("string"))>>, <<OldForm("t", <<>>)>>},
     consumes \in {<<>>, <<"json">>, <<"xml">>}}

-----------------------------------------------------------------------------
\* Suites as pytest writes them: each case has one outcome and is counted once.
Outcomes == {{}, {"failure"}, {"error"}, {"skipped"}}
Suite(cases) ==
  [tests |-> Len(cases), failures |-> With(cases, "failure"), errors |-> With(cases, "error"),
   skipped |-> With(cases, "skipped"), cases |-> cases, malformed |-> FALSE]
Case(name, marks) == [name |-> name, marks |-> marks]
MCSuites ==
  {Suite(<<>>)} \cup {Suite(<<Case(1, m)>>) : m \in Outcomes}
  \cup {Suite(<<Case(1, m), Case(2, n)>>) : m, n \in Outcomes}
  \cup {[Suite(<<Case(1, {})>>) EXCEPT !.malformed = TRUE]}
MCReports == {<<>>} \cup (MCSuites \X MCSuites)

MCTimeouts == 0..400

-----------------------------------------------------------------------------
\* The schemas of the documents, and those inside.
RECURSIVE Within(_)
Within(schemas) ==
  IF schemas = {} THEN {} ELSE schemas \cup Within(UNION {Subschemas(s) : s \in schemas})

SchemasOf(parsed) ==
  IF parsed.error THEN {}
  ELSE UNION {{p.schema : p \in Range(op.parameters) \cup Range(op.body)} :
                op \in Range(parsed.operations)}

AllDocuments == MCDocuments \cup {r.document : r \in MCRequests}
MCSchemas == Within(UNION {SchemasOf(Parse(d)) : d \in AllDocuments})
MCMeets(s, x) == Accepts(s, x, Empty)

-----------------------------------------------------------------------------
MCInit == Init /\ RateInit

MCNext ==
  \/ RateInit /\ ParsingNext /\ UNCHANGED rateVars
  \/ call = NoCall /\ RateNext /\ UNCHANGED call

MCSpec == MCInit /\ [][MCNext]_<<call, rateVars>>
=============================================================================
