--------------------------- MODULE SchemaMeaning ---------------------------
(***************************************************************************)
(* What a schema says of a JSON value, with its references looked up when  *)
(* they are met: the reference against which the parser's inlining is      *)
(* checked.  It follows OpenAPI 3.0, where a $ref replaces its siblings.   *)
(***************************************************************************)
EXTENDS OpenApi

RECURSIVE Accepts(_, _, _)
Accepts(schema, x, schemas) ==
    IF Keys(schema) \cap {"$ref", "$definition"} # {}
    THEN \E ref \in Keys(schema) \cap {"$ref", "$definition"} :
           /\ Get(schema, ref) \in DOMAIN schemas
           /\ Accepts(schemas[Get(schema, ref)], x, schemas)
    ELSE /\ AcceptedBy(LAMBDA s, y : Accepts(s, y, schemas), schema, x)
         /\ LET parts == GetOr(schema, "allOf", <<>>)
            IN \A i \in DOMAIN parts : Accepts(parts[i], x, schemas)

-----------------------------------------------------------------------------
\* Schemas that inlining leaves what they are.

\* The schemas that an allOf puts together, behind references.
RECURSIVE ObjectParts(_, _)
ObjectParts(schema, schemas) ==
    CASE "$ref" \in Keys(schema) -> ObjectParts(schemas[Get(schema, "$ref")], schemas)
      [] Keys(schema) = {"allOf"} ->
           LET parts == Get(schema, "allOf")
           IN FlattenSeq([i \in DOMAIN parts |-> ObjectParts(parts[i], schemas)])
      [] OTHER -> <<schema>>

\* They are objects with fields of their own, and say nothing else.
AreDisjointObjects(parts) ==
    /\ parts # <<>>
    /\ \A i \in DOMAIN parts :
          /\ Keys(parts[i]) \subseteq {"type", "properties", "required", "description"}
          /\ GetOr(parts[i], "type", "none") = "object"
    /\ \A i, j \in DOMAIN parts : i # j =>
          Keys(GetOr(parts[i], "properties", <<>>))
            \cap Keys(GetOr(parts[j], "properties", <<>>)) = {}

\* No reference leads back to a component it is in, and what an allOf puts
\* together are disjoint objects.
RECURSIVE IsMergeable(_, _, _)
IsMergeable(schema, schemas, within) ==
    IF "$ref" \in Keys(schema)
    THEN LET name == Get(schema, "$ref")
         IN /\ name \in DOMAIN schemas \ within
            /\ IsMergeable(schemas[name], schemas, within \cup {name})
    ELSE /\ \A s \in Subschemas(schema) \cup Range(GetOr(schema, "allOf", <<>>)) :
               IsMergeable(s, schemas, within)
         /\ "allOf" \in Keys(schema) => AreDisjointObjects(ObjectParts(schema, schemas))

-----------------------------------------------------------------------------
\* Levels of objects and arrays in a schema; a reference has none.
RECURSIVE Levels(_)
Levels(schema) ==
    LET subs == Subschemas(schema)
                \cup UNION {Range(GetOr(schema, k, <<>>)) : k \in {"allOf", "oneOf", "anyOf"}}
    IN IF subs = {} THEN 0
       ELSE 1 + CHOOSE n \in {Levels(s) : s \in subs} : \A s \in subs : Levels(s) <= n
=============================================================================
