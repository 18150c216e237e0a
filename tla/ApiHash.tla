------------------------------ MODULE ApiHash ------------------------------
(***************************************************************************)
(* What the parser keeps of the operations of a document to compare them   *)
(* with those of another: hashes and contracts (src/app/utils/             *)
(* openapi_parser.py).  They are made from the same schemas by different   *)
(* walks.  A SHA-256 is taken as the value it digests.                     *)
(***************************************************************************)
EXTENDS SchemaWalks

CONSTANTS NormalForm(_),  \* what a hash keeps of a schema
          SignatureOf(_)  \* the fields a contract has of it

\* Fields written later replace those written at the same place before.
Written(fields, more) ==
    {f \in fields : \A g \in more : f.at # g.at} \cup more

\* The signature as a function of the places.
Placed(fields) ==
    [at \in {f.at : f \in fields} |->
        LET f == CHOOSE g \in fields : g.at = at IN [type |-> f.type, enum |-> f.enum]]

\* An absent body is <<>>, a body a sequence of one record.
Contract(parameters, body, responses) ==
    [required  |-> {p.name : p \in {q \in Range(parameters) : q.required}}
                   \cup UNION {GetOr(b.schema, "required", {}) : b \in Range(body)},
     signature |-> Placed(FoldLeft(Written, {},
                       [i \in DOMAIN parameters |->
                           Under(<<"param", parameters[i].in, parameters[i].name>>,
                                 SignatureOf(parameters[i].schema))]
                       \o [i \in DOMAIN body |->
                              Under(<<"body">>, SignatureOf(body[i].schema))])),
     codes     |-> Keys(responses)]

Core(r) == [r EXCEPT !.schema = NormalForm(r.schema)]

HashOf(op) ==
    [request  |-> [parameters |-> [i \in DOMAIN op.parameters |-> Core(op.parameters[i])],
                   body       |-> [i \in DOMAIN op.body |-> Core(op.body[i])]],
     response |-> [code \in Keys(op.responses) |-> NormalForm(Get(op.responses, code))]]

-----------------------------------------------------------------------------
\* Documents.

Invalid == [error |-> TRUE]

\* Operations that share an id are told; the last of them stands for the id.
WithId(operations, id) == {i \in DOMAIN operations : operations[i].id = id}

LastOf(operations, id) ==
    operations[CHOOSE i \in WithId(operations, id) : \A j \in WithId(operations, id) : j <= i]

Duplicates(operations) ==
    {"duplicate" : i \in {j \in DOMAIN operations : WithId(operations, operations[j].id) # {j}}}

ParsedApi(operations) ==
    LET ids == {operations[i].id : i \in DOMAIN operations}
    IN [error      |-> FALSE,
        operations |-> operations,
        ids        |-> ids,
        hashes     |-> [id \in ids |-> HashOf(LastOf(operations, id))],
        contracts  |-> [id \in ids |-> LastOf(operations, id).contract],
        told       |-> UNION {operations[i].told : i \in DOMAIN operations}
                       \cup Duplicates(operations)]
=============================================================================
