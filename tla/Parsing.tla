------------------------------ MODULE Parsing ------------------------------
(***************************************************************************)
(* The calls of Inputs together with those that the recursive definitions  *)
(* of the parser are checked by: schemas inlined, Swagger 2 documents      *)
(* converted, bodies shown in a prompt.                                    *)
(***************************************************************************)
EXTENDS Inputs, SchemaMeaning, GenerationPrompt, Swagger2

CONSTANTS Bodies,    \* schemas of bodies, with the components they refer to
          Swaggers   \* Swagger 2 documents

InlineBody ==
    \E b \in Bodies :
        call' = [of |-> "body", body |-> b, resolved |-> Resolve(b.schema, b.schemas, {}, 0)]

ConvertDocument ==
    \E d \in Swaggers :
        call' = [of |-> "swagger", document |-> d, converted |-> Convert(d),
                 parsed |-> Parse(Convert(d))]

ParsingNext ==
    \/ Next
    \/ /\ call = NoCall
       /\ InlineBody \/ ConvertDocument

ParsingSpec == Init /\ [][ParsingNext]_call

-----------------------------------------------------------------------------
\* Schemas.

\* A schema that is inlined without a word of warning, in which no reference
\* leads back and every allOf puts disjoint objects together, keeps its meaning:
\* the resolved schema accepts what the schema accepts with its references
\* looked up (openapi_parser: _resolve_schema).  A reference back (187) and what
\* else an allOf says (204-212) are lost without a warning.
InliningKeepsTheMeaning ==
    call.of = "body" /\ call.resolved.told = {} =>
      (IsMergeable(call.body.schema, call.body.schemas, {}) =>
         \A x \in JsonValues :
           Accepts(call.resolved.out, x, Empty) <=> Accepts(call.body.schema, x, call.body.schemas))

\* Whatever refers to whatever, what the parser copies stays shallow: it ends
\* at the limit, and each component is unfolded once on the way to any place
\* (openapi_parser: _MAX_SCHEMA_DEPTH, visited).
CopiesAreShallow ==
    call.of = "body" =>
      /\ Levels(call.resolved.out) <= MaxDepth + 1
      /\ Levels(call.resolved.out) <=
           Levels(call.body.schema)
             + MapThenSumSet(LAMBDA n : Levels(call.body.schemas[n]), DOMAIN call.body.schemas)

\* Every field of a body of the contract is shown to the model that writes the
\* cases (generation_service: _operation_to_json keeps the structure).
RECURSIVE FieldsShown(_)
FieldsShown(stripped) ==
    IF "properties" \in DOMAIN stripped
    THEN DOMAIN stripped.properties \cup
         UNION {FieldsShown(stripped.properties[n]) : n \in DOMAIN stripped.properties}
    ELSE IF "items" \in DOMAIN stripped THEN FieldsShown(stripped.items)
    ELSE {}

PromptKeepsTheFields ==
    call.of = "documents" /\ ~call.old.error =>
      \A op \in Range(call.old.operations) : \A at \in DOMAIN op.contract.signature :
        at[1] = "body" =>
          Range(at) \ {"body", "[]"} \subseteq FieldsShown(PromptBody(op)[1].schema)

-----------------------------------------------------------------------------
\* Swagger 2.

\* What an operation and its path list is sent with a request.
Sent(op, item, doc) ==
    LET listed == Range(Field(op, "parameters", <<>>)) \cup Range(item.params)
        names  == {p.ref : p \in {q \in listed : "ref" \in DOMAIN q}}
    IN {p \in listed : "ref" \notin DOMAIN p}
       \cup {doc.params[n] : n \in names \cap DOMAIN doc.params}

In(places, sent) == {p \in sent : p.in \in places}

\* A body may be JSON if the types say so, or nothing.
ConsumesJson(op, doc) ==
    LET types == OrElse(Field(op, "consumes", <<>>), doc.consumes)
    IN types = <<>> \/ "json" \in Range(types)

\* A schema takes the values that a parameter takes, a string by default.
SaysTheSame(schema, p) ==
    LET declared == OrElse(Field(p, "keys", <<>>), << <<"type", "string">> >>)
    IN \A x \in JsonValues : Accepts(schema, x, Empty) <=> Accepts(declared, x, Empty)

\* Parameters that are neither body nor form stay what they are, with those of
\* the path that an operation overrides.
KeepsTheParameters(op, sent) ==
    LET plain == {p \in sent : p.in \notin {"body", "formData"}}
    IN /\ {<<q.in, q.name, q.required>> : q \in Range(op.parameters)}
            = {<<p.in, p.name, Field(p, "required", FALSE)>> : p \in plain}
       /\ \A p \in plain : \E q \in Range(op.parameters) :
             q.in = p.in /\ q.name = p.name /\ SaysTheSame(q.schema, p)

\* The operation takes a request with this JSON body, or none of it.
TakesBody(op, x) == op.body # <<>> => Accepts(op.body[1].schema, x, Empty)

\* A JSON body says what it said.  The parser reads only JSON (117): of other
\* bodies and of forms it knows that they are there, but no field.
KeepsTheBody(op, sent, isJson, definitions) ==
    /\ (op.body # <<>>) <=> In({"body", "formData"}, sent) # {}
    /\ \A x \in JsonValues :
          TakesBody(op, x) <=>
            (isJson => \A p \in In({"body"}, sent) : Accepts(p.schema, x, definitions))

\* Form parameters become the fields of a form, unless there is a body; which
\* of them are required is lost (106).
KeepsTheForm(converted, sent) ==
    LET form == In({"formData"}, sent)
    IN In({"body"}, sent) = {} /\ form # {} =>
         LET fields == Get(converted.requestBody.content["form"].schema, "properties")
         IN /\ Keys(fields) = {p.name : p \in form}
            /\ \A p \in form : SaysTheSame(Get(fields, p.name), p)

\* A document converted and parsed has the operations of the original, with
\* their parameters, bodies and forms as far as the definitions above say
\* (convert_swagger2: convert; openapi_parser: _extract_operation).
ConversionKeepsTheRequests ==
    call.of = "swagger" =>
      LET doc == call.document
      IN \A item \in Range(doc.paths) : \A e \in Range(item.ops) : e[1] \in Methods =>
           /\ \E op \in Range(call.parsed.operations) :
                 /\ op.method = e[1] /\ op.path = item.path
                 /\ KeepsTheParameters(op, Sent(e[2], item, doc))
                 /\ KeepsTheBody(op, Sent(e[2], item, doc), ConsumesJson(e[2], doc),
                                 doc.definitions)
           /\ \E new \in Range(call.converted.paths) : \E o \in Range(new.ops) :
                 /\ o[1] = e[1] /\ new.path = item.path
                 /\ KeepsTheForm(o[2], Sent(e[2], item, doc))
=============================================================================
