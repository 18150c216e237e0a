------------------------------ MODULE OpenApi ------------------------------
(***************************************************************************)
(* The parser of OpenAPI 3 documents (src/app/utils/openapi_parser.py) as  *)
(* functions: references are inlined, hashes and contracts extracted.      *)
(* Values of the wrong JSON type are left out.  SchemaWalks says how       *)
(* objects are written.                                                    *)
(***************************************************************************)
EXTENDS SchemaWalks

CONSTANT MaxDepth
ASSUME MaxDepthAssumption == MaxDepth \in Nat

Methods == {"get", "post", "put", "patch", "delete", "head", "options"}

\* The path parameters that documents use: {id} and {userId}, say.
PathParams == {"{id}", "{userId}"}

\* A $ref that leaves the document.
External == "other.yaml"

-----------------------------------------------------------------------------
\* Objects.

Put(o, kv) ==
    IF kv[1] \in Keys(o)
    THEN [i \in DOMAIN o |-> IF o[i][1] = kv[1] THEN kv ELSE o[i]]
    ELSE Append(o, kv)

Update(o, p) == FoldLeft(Put, o, p)

\* A record without fields, and a field of a record that may lack it.
Empty == [f \in {} |-> f]

Field(r, f, default) == IF f \in DOMAIN r THEN r[f] ELSE default

-----------------------------------------------------------------------------
\* References.

Result(out, told) == [out |-> out, told |-> told]

ObjectSchema == << <<"type", "object">> >>

\* Variant: nothing is deeper than the document.
DeeperNever(depth) == depth

\* A schema inside a schema, or behind a reference.
Deeper(depth) == depth + 1

\* Variant: the last part says what is required.
MergedLastRequired(parts) ==
    << <<"type", "object">>,
       <<"properties", FoldLeft(LAMBDA o, p : Update(o, GetOr(p, "properties", <<>>)),
                                <<>>, parts)>>,
       <<"required", FoldLeft(LAMBDA r, p : GetOr(p, "required", {}), {}, parts)>> >>

\* The parts of an allOf become one object.
Merged(parts) ==
    << <<"type", "object">>,
       <<"properties", FoldLeft(LAMBDA o, p : Update(o, GetOr(p, "properties", <<>>)),
                                <<>>, parts)>>,
       <<"required", UNION {GetOr(parts[i], "required", {}) : i \in DOMAIN parts}>> >>

RECURSIVE Resolve(_, _, _, _)

\* What one key of a schema contributes to the resolved schema.
ResolvedPart(k, v, schemas, visited, depth) ==
    LET Sub(s) == Resolve(s, schemas, visited, depth)
    IN CASE k \in {"items", "additionalProperties"} ->
              Result(<< <<k, Sub(v).out>> >>, Sub(v).told)
         [] k = "properties" ->
              Result(<< <<k, [i \in DOMAIN v |-> <<v[i][1], Sub(v[i][2]).out>>]>> >>,
                     UNION {Sub(v[i][2]).told : i \in DOMAIN v})
         [] k = "allOf" ->
              Result(Merged([i \in DOMAIN v |-> Sub(v[i]).out]),
                     UNION {Sub(v[i]).told : i \in DOMAIN v})
         [] k \in {"oneOf", "anyOf"} ->
              IF v = <<>> THEN Result(<<>>, {})
              ELSE Result(Sub(v[1]).out, Sub(v[1]).told \cup {"first branch"})
         [] OTHER -> Result(<< <<k, v>> >>, {})

\* A resolved schema, and what the parser warns of on the way.
Resolve(schema, schemas, visited, depth) ==
    LET name == Get(schema, "$ref")
    IN CASE depth > MaxDepth -> Result(ObjectSchema, {"too deep"})
         [] depth <= MaxDepth /\ "$ref" \in Keys(schema) ->
              IF name = External THEN Result(<< <<"$ref", name>> >>, {"external"})
              ELSE IF name \in visited
              THEN Result(Append(ObjectSchema, <<"x-circular", TRUE>>), {})
              ELSE IF name \notin DOMAIN schemas
              THEN Result(Append(ObjectSchema, <<"x-broken-ref", TRUE>>), {"broken"})
              ELSE Resolve(schemas[name], schemas, visited \cup {name}, Deeper(depth))
         [] OTHER ->
              FoldLeft(LAMBDA acc, kv :
                           LET r == ResolvedPart(kv[1], kv[2], schemas, visited, Deeper(depth))
                           IN Result(Update(acc.out, r.out), acc.told \cup r.told),
                       Result(<<>>, {}), schema)

\* A parameter behind its references; a cycle of them is left as it is.
RECURSIVE Target(_, _, _)
Target(p, params, visited) ==
    IF "ref" \notin DOMAIN p \/ Field(p, "ref", External) \in visited
    THEN Result(p, {})
    ELSE IF p.ref \notin DOMAIN params THEN Result(p, {"no parameter"})
    ELSE Target(params[p.ref], params, visited \cup {p.ref})

\* A parameter p with its schema s, both resolved.
Parameter(p, s) ==
    Result([name |-> Field(p.out, "name", ""), in |-> Field(p.out, "in", ""),
            required |-> Field(p.out, "required", FALSE), schema |-> s.out],
           p.told \cup s.told)

ResolvedParameter(p, doc) ==
    LET WithSchema(t) ==
            Parameter(t, Resolve(Field(t.out, "schema", <<>>), doc.schemas, {}, 0))
    IN WithSchema(Target(p, doc.params, {}))

-----------------------------------------------------------------------------
\* Operations.

AutogenId(method, path) ==
    <<method>> \o [i \in DOMAIN path |->
                       IF path[i] \in PathParams THEN ":param" ELSE path[i]]

\* The JSON schema of a body or a response.
JsonSchema(r) == Field(Field(Field(r, "content", Empty), "json", Empty), "schema", <<>>)

RECURSIVE Normalize(_)
Normalize(schema) == NormalizedBy(Normalize, schema)

RECURSIVE Unhashed(_)
Unhashed(schema) == DroppedBy(Unhashed, schema)

RECURSIVE Signature(_)
Signature(schema) == SignedBy(Signature, schema)

Api == INSTANCE ApiHash WITH NormalForm <- Normalize, SignatureOf <- Signature

Outs(results) == [i \in DOMAIN results |-> results[i].out]

Tolds(results) == UNION {results[i].told : i \in DOMAIN results}

\* An operation of its resolved parameters, body and responses.
Operation(path, method, op, params, body, responses) ==
    [id |-> Field(op, "operationId", AutogenId(method, path)),
     method |-> method, path |-> path,
     parameters |-> Outs(params), body |-> Outs(body), responses |-> Outs(responses),
     contract |-> Api!Contract(Outs(params), Outs(body), Outs(responses)),
     told |-> Tolds(params) \cup Tolds(body) \cup Tolds(responses)]

\* One operation of a document.
Extracted(path, method, op, doc) ==
    LET Resolved(r) == Resolve(JsonSchema(r), doc.schemas, {}, 0)
        Body(r, s) == Result([required |-> Field(r, "required", FALSE), schema |-> s.out], s.told)
        Response(code, s) == Result(<<code, s.out>>, s.told)
    IN Operation(path, method, op,
                 [i \in DOMAIN Field(op, "parameters", <<>>) |->
                     ResolvedParameter(op.parameters[i], doc)],
                 IF "requestBody" \in DOMAIN op
                 THEN <<Body(op.requestBody, Resolved(op.requestBody))>> ELSE <<>>,
                 [i \in DOMAIN Field(op, "responses", <<>>) |->
                     Response(op.responses[i][1], Resolved(op.responses[i][2]))])

-----------------------------------------------------------------------------
\* Documents.

Parse(doc) ==
    LET OfOps(path, ops) ==
            [i \in DOMAIN ops |-> Extracted(path, ops[i][1], ops[i][2], doc)]
        OfItem(item) == OfOps(item.path, SelectSeq(item.ops, LAMBDA e : e[1] \in Methods))
        Checked(operations) == IF operations = <<>> THEN Api!Invalid ELSE Api!ParsedApi(operations)
    IN IF doc.openapi # "3" THEN Api!Invalid
       ELSE Checked(FlattenSeq([i \in DOMAIN doc.paths |-> OfItem(doc.paths[i])]))
=============================================================================
