------------------------------ MODULE Swagger2 ------------------------------
(***************************************************************************)
(* The conversion of a Swagger 2 document into an OpenAPI 3 document that  *)
(* the parser reads (src/scripts/convert_swagger2.py).                     *)
(*                                                                         *)
(* A "$ref": "#/definitions/X" is the pair <<"$definition", "X">>.  A      *)
(* parameter is a record with what is present of name, in, required, keys  *)
(* (its own type, enum ...), schema (of a body) and ref.  Security, tags,  *)
(* servers and descriptions, which the parser does not read, are left out. *)
(***************************************************************************)
EXTENDS OpenApi

ParamSchemaKeys == {"type", "format", "items", "enum", "minimum", "maximum", "default", "pattern"}

\* References to common parameters are looked up once; unknown ones dropped.
InlineParams(params, common) ==
    LET known == SelectSeq(params, LAMBDA p : "ref" \in DOMAIN p => p.ref \in DOMAIN common)
    IN [i \in DOMAIN known |->
           IF "ref" \in DOMAIN known[i] THEN common[known[i].ref] ELSE known[i]]

ParamSchema(p) ==
    LET own == SelectSeq(Field(p, "keys", <<>>), LAMBDA kv : kv[1] \in ParamSchemaKeys)
    IN IF own = <<>> THEN << <<"type", "string">> >> ELSE own

\* References in a schema, however deep, become references to components.
RECURSIVE RewriteRefs(_)

\* Variant: the items of arrays are left out.
RewriteRefsButItems(schema) ==
    [i \in DOMAIN schema |->
        LET k == schema[i][1]
            v == schema[i][2]
        IN CASE k = "$definition" -> <<"$ref", v>>
             [] k = "properties" -> <<k, [j \in DOMAIN v |-> <<v[j][1], RewriteRefs(v[j][2])>>]>>
             [] k = "allOf" -> <<k, [j \in DOMAIN v |-> RewriteRefs(v[j])]>>
             [] OTHER -> <<k, v>>]

RewriteRefs(schema) ==
    [i \in DOMAIN schema |->
        LET k == schema[i][1]
            v == schema[i][2]
        IN CASE k = "$definition" -> <<"$ref", v>>
             [] k \in {"items", "additionalProperties"} -> <<k, RewriteRefs(v)>>
             [] k = "properties" -> <<k, [j \in DOMAIN v |-> <<v[j][1], RewriteRefs(v[j][2])>>]>>
             [] k = "allOf" -> <<k, [j \in DOMAIN v |-> RewriteRefs(v[j])]>>
             [] OTHER -> <<k, v>>]

Content(media, schema) == [m \in {media} |-> [schema |-> RewriteRefs(schema)]]

OrElse(list, default) == IF list = <<>> THEN default ELSE list

ConvertOperation(op, pathLevel, doc) ==
    LET params == InlineParams(Field(op, "parameters", <<>>), doc.params) \o pathLevel
        In(place) == SelectSeq(params, LAMBDA p : p.in = place)
        others == SelectSeq(params, LAMBDA p : p.in \notin {"body", "formData"})
        consumes == OrElse(OrElse(Field(op, "consumes", <<>>), doc.consumes), <<"json">>)
        media == IF "json" \in Range(consumes) THEN "json" ELSE consumes[1]
        produces == Field(op, "produces", <<>>)
        answers == IF produces = <<>> \/ "*" \in Range(produces) THEN "json" ELSE produces[1]
        form == In("formData")
        body == CASE In("body") # <<>> ->
                       LET p == Last(In("body"))
                       IN <<[required |-> Field(p, "required", FALSE),
                             content |-> Content(media, OrElse(Field(p, "schema", <<>>), ObjectSchema))]>>
                  [] In("body") = <<>> /\ form # <<>> ->
                       <<[required |-> TRUE,
                          content |-> Content("form",
                              Append(ObjectSchema,
                                     <<"properties", Update(<<>>, [i \in DOMAIN form |->
                                                         <<Field(form[i], "name", ""), ParamSchema(form[i])>>])>>))]>>
                  [] OTHER -> <<>>
        responses == Field(op, "responses", <<>>)
    IN [f \in ({"operationId"} \cap DOMAIN op) \cup {"parameters", "responses"}
                 \cup {"requestBody" : b \in Range(body)} |->
          CASE f = "operationId" -> op.operationId
            [] f = "parameters" ->
                 [i \in DOMAIN others |->
                    [name |-> Field(others[i], "name", ""), in |-> others[i].in,
                     required |-> Field(others[i], "required", FALSE),
                     schema |-> RewriteRefs(ParamSchema(others[i]))]]
            [] f = "requestBody" -> body[1]
            [] f = "responses" ->
                 [i \in DOMAIN responses |->
                    <<responses[i][1],
                      IF "schema" \in DOMAIN responses[i][2]
                      THEN [content |-> Content(answers, responses[i][2].schema)]
                      ELSE [description |-> ""]>>]]

\* A path without operations is left out.
Convert(doc) ==
    LET Converted(item) ==
            LET ops == SelectSeq(item.ops, LAMBDA e : e[1] \in Methods)
                pathLevel == InlineParams(item.params, doc.params)
            IN [path |-> item.path,
                ops |-> [i \in DOMAIN ops |->
                           <<ops[i][1], ConvertOperation(ops[i][2], pathLevel, doc)>>]]
        items == [i \in DOMAIN doc.paths |-> Converted(doc.paths[i])]
    IN [openapi |-> "3",
        paths   |-> SelectSeq(items, LAMBDA item : item.ops # <<>>),
        schemas |-> [n \in DOMAIN doc.definitions |-> RewriteRefs(doc.definitions[n])],
        params  |-> [n \in {} |-> {}]]
=============================================================================
