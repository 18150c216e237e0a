----------------------------- MODULE ImpactDiff -----------------------------
(***************************************************************************)
(* The comparison of two versions of an API (`impact_diff`).  A version is *)
(* a record of its hash_version and a function from operation ids to the   *)
(* hash and the contract of the operation, as parse_openapi extracts them. *)
(***************************************************************************)
EXTENDS FiniteSets

CONSTANT NoContract   \* None: an operation without a contract

\* A contract: required names, response codes, and for every field of the
\* signature its type and enum ({} where the field has none).
RequiredTightened(old, new) == new.required \ old.required # {}
CodesLost(old, new)         == old.codes \ new.codes # {}
FieldsLost(old, new)        == DOMAIN old.signature \ DOMAIN new.signature # {}
FieldChanged(old, new) ==
  \E f \in DOMAIN old.signature \cap DOMAIN new.signature :
    \/ old.signature[f].type # new.signature[f].type
    \/ old.signature[f].enum \ new.signature[f].enum # {}

\* Variant: a deleted field is taken for a relaxed one.
IsBreakingButForFields(old, new) ==
  \/ old = NoContract \/ new = NoContract
  \/ RequiredTightened(old, new)
  \/ CodesLost(old, new)
  \/ FieldChanged(old, new)

IsBreaking(old, new) ==
  \/ old = NoContract \/ new = NoContract
  \/ RequiredTightened(old, new)
  \/ CodesLost(old, new)
  \/ FieldChanged(old, new)
  \/ FieldsLost(old, new)

\* Hashes compare only if one algorithm made them: otherwise every common
\* operation counts as changed.
Changed(old, new) ==
  {op \in DOMAIN old.ops \cap DOMAIN new.ops :
     old.hv # new.hv \/ old.ops[op].hash # new.ops[op].hash}

Added(old, new)   == DOMAIN new.ops \ DOMAIN old.ops
Removed(old, new) == DOMAIN old.ops \ DOMAIN new.ops
Breaking(old, new) ==
  {op \in Changed(old, new) :
     IsBreaking(old.ops[op].contract, new.ops[op].contract)}

\* What an analysis sends to somebody: cases to run again, cases to migrate.
Reported(old, new) == Breaking(old, new) \cup Removed(old, new)

\* Operations of one hash have one contract, whichever documents they are in:
\* what the comparison needs of the parser (openapi_parser: _hash_op,
\* _extract_contract).  A document is given by its operations.
HashesTell(documents) ==
  \A doc1, doc2 \in documents :
    \A op \in DOMAIN doc1 \cap DOMAIN doc2 :
      doc1[op].hash = doc2[op].hash => doc1[op].contract = doc2[op].contract
=============================================================================
