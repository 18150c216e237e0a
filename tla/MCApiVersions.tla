--------------------------- MODULE MCApiVersions ---------------------------
(* Instances of ApiVersions: four small documents.                         *)
EXTENDS ApiVersions, TLC

Typed(type) == [f \in {"f"} |-> [type |-> type, enum |-> {}]]
Operation(name, signature) ==
  [hash |-> name,
   contract |-> [required |-> {}, codes |-> {"200"}, signature |-> signature]]

\* Operation a answers with a string, without the field, or with a number; it
\* is gone from the last document.
MCDocuments ==
  {[op \in {"a"} |-> Operation("string", Typed("string"))],
   [op \in {"a"} |-> Operation("without", [f \in {} |-> 0])],
   [op \in {"a"} |-> Operation("number", Typed("number"))],
   [op \in {"b"} |-> Operation("string", Typed("string"))]}

\* No property tells the clients apart.
ClientSymmetry == Permutations(Clients)
=============================================================================
