-------------------------- MODULE GenerationPrompt --------------------------
(***************************************************************************)
(* What the prompt shows of an operation                                   *)
(* (src/app/services/generation_service.py).                               *)
(***************************************************************************)
EXTENDS SchemaWalks

PromptStructKeys == StructKeys

\* Everything that is no structure is stripped at every level; the names of
\* properties are filtered like the keys of a schema.
RECURSIVE StripDocFields(_)
StripDocFields(schema) ==
    [k \in Keys(schema) \cap PromptStructKeys |->
        LET v == Get(schema, k)
        IN CASE k = "properties" ->
                  [n \in Keys(v) \cap PromptStructKeys |-> StripDocFields(Get(v, n))]
             [] k = "items" -> StripDocFields(v)
             [] OTHER -> v]

\* The body an operation shows in the prompt.
PromptBody(op) ==
    [i \in DOMAIN op.body |-> [required |-> op.body[i].required,
                               schema |-> StripDocFields(op.body[i].schema)]]
=============================================================================
