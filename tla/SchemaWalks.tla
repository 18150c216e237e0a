---------------------------- MODULE SchemaWalks ----------------------------
(***************************************************************************)
(* One level of each walk that the parser (src/app/utils/openapi_parser.py)*)
(* makes over a resolved schema, given what the walk returns for the       *)
(* schemas inside; OpenApi and SchemaMeaning close the recursion.          *)
(*                                                                         *)
(* A JSON object is a sequence of <<key, value>> pairs: the parser walks   *)
(* objects in the order of the text, and it matters (a key may overwrite   *)
(* what an earlier one contributed).  What it builds and only compares is  *)
(* a function of its keys.  Lists of required names and of enum values are *)
(* sets: what compares them asks for members only.                         *)
(***************************************************************************)
EXTENDS Naturals, SequencesExt

Keys(o) == {o[i][1] : i \in DOMAIN o}

Get(o, k) == o[CHOOSE i \in DOMAIN o : o[i][1] = k][2]

GetOr(o, k, default) == IF k \in Keys(o) THEN Get(o, k) ELSE default

\* _STRUCT_KEYS.  The bounds of a value are as many keywords of one kind.
Bounds == {"minimum", "maximum", "exclusiveMinimum", "exclusiveMaximum", "minLength",
           "maxLength", "pattern", "minItems", "maxItems", "uniqueItems"}

\* Variant: enums are no structure.
StructKeysButEnum ==
    {"type", "properties", "items", "required", "format", "nullable"} \cup Bounds

\* Variant: nor is what is required.
StructKeysButRequired ==
    {"type", "properties", "items", "enum", "format", "nullable"} \cup Bounds

StructKeys ==
    {"type", "properties", "items", "required", "enum", "format", "nullable"} \cup Bounds

ExtraKeys == {"$ref", "x-circular", "x-broken-ref"}

\* Keywords that say something of values and are in neither list.  Beside
\* these there are not, minProperties and maxProperties, which are const's kind.
DroppedKeys == {"additionalProperties", "const", "multipleOf"}

\* The schemas inside a resolved schema.
Subschemas(schema) ==
    {Get(schema, k) : k \in Keys(schema) \cap {"items", "additionalProperties"}}
    \cup {Get(Get(schema, "properties"), n) : n \in Keys(GetOr(schema, "properties", <<>>))}

-----------------------------------------------------------------------------
\* What is left of a schema when only some keys count.
KeptBy(keys, W(_), schema) ==
    [k \in Keys(schema) \cap keys |->
        LET v == Get(schema, k)
        IN CASE k = "properties" -> [n \in Keys(v) |-> W(Get(v, n))]
             [] k = "items" -> W(v)
             [] OTHER -> v]

\* For hashes: its structure.
NormalizedBy(N(_), schema) == KeptBy(StructKeys \cup ExtraKeys, N, schema)

\* What no hash knows of it.
DroppedBy(D(_), schema) == KeptBy({"properties", "items"} \cup DroppedKeys, D, schema)

\* For contracts: the fields of a schema, by their places in it.  Names of
\* properties and items of arrays lead to places; the code joins them with
\* dots, so that a name with a dot in it may meet another place there.
Under(place, fields) == {[f EXCEPT !.at = place \o @] : f \in fields}

SignedBy(S(_), schema) ==
    IF "properties" \in Keys(schema)
    THEN LET props == Get(schema, "properties")
         IN UNION {Under(<<n>>, S(Get(props, n))) : n \in Keys(props)}
    ELSE IF "items" \in Keys(schema)
    THEN Under(<<"[]">>, S(Get(schema, "items")))
    ELSE {[at |-> <<>>, type |-> GetOr(schema, "type", "none"),
           enum |-> GetOr(schema, "enum", {})]}

\* What one keyword says of a JSON value, which is a record
\* [is |-> kind, of |-> contents].  The other bounds are like minimum.
ValueKeys == {"const", "multipleOf", "minimum"}

Holds(k, v, x) ==
    CASE k = "const"      -> x.is = v.is /\ x.of = v.of
      [] k = "multipleOf" -> x.is = "integer" => x.of % v = 0
      [] k = "minimum"    -> x.is = "integer" => x.of >= v

\* What a schema without references says of a JSON value.  A schema that is
\* false is written as one whose enum is empty.
AcceptedBy(A(_, _), schema, x) ==
    /\ "$ref" \notin Keys(schema)
    /\ "type" \in Keys(schema) => x.is = Get(schema, "type")
    /\ "enum" \in Keys(schema) => x.is = "string" /\ x.of \in Get(schema, "enum")
    /\ \A k \in Keys(schema) \cap ValueKeys : Holds(k, Get(schema, k), x)
    /\ "required" \in Keys(schema) /\ x.is = "object" =>
          Get(schema, "required") \subseteq DOMAIN x.of
    /\ "properties" \in Keys(schema) /\ x.is = "object" =>
          LET props == Get(schema, "properties")
          IN \A n \in Keys(props) \cap DOMAIN x.of : A(Get(props, n), x.of[n])
    /\ "additionalProperties" \in Keys(schema) /\ x.is = "object" =>
          \A n \in DOMAIN x.of \ Keys(GetOr(schema, "properties", <<>>)) :
             A(Get(schema, "additionalProperties"), x.of[n])
    /\ "items" \in Keys(schema) /\ x.is = "array" =>
          \A j \in DOMAIN x.of : A(Get(schema, "items"), x.of[j])
=============================================================================
