-------------------------- MODULE GenerationChoice --------------------------
(***************************************************************************)
(* What a generation task works on: which operations a request selects,    *)
(* and which of them the worker finds in the document                      *)
(* (src/app/services/generation_service.py).  Lists of operation ids are   *)
(* sets: what reads them asks for members only.                            *)
(***************************************************************************)

CONSTANT Parsed(_)   \* a document as the parser returns it

\* operation_ids of a request or of a row: a list, or no list at all.
NoList == [listed |-> FALSE]
Listed(ids) == [listed |-> TRUE, ids |-> ids]

\* The latest analysis: a sequence of at most one set, its untested_ops.
NoAnalysis == <<>>

\* Variant: the untested operations as the analysis recorded them.
UntestedAsRecorded(latest, ids) == latest[1]

\* The untested operations that the document has.
Untested(latest, ids) == latest[1] \cap ids

Refused(code) == [error |-> code]

Chosen(document, operationIds) ==
    [error |-> "none", document |-> document, operationIds |-> operationIds]

ListOrAll(ids) == IF ids = {} THEN NoList ELSE Listed(ids)

\* create_generation_task up to the look-up of the run_id.  With force_full the
\* document is not read.
Choice(document, operationIds, forceFull, latest) ==
    LET OfParsed(parsed) ==
            CASE parsed.error -> Refused("INVALID_SWAGGER")
              [] ~parsed.error /\ operationIds.listed ->
                   IF operationIds.ids # {} /\ operationIds.ids \cap parsed.ids = {}
                   THEN Refused("INVALID_OPERATION_IDS")
                   ELSE Chosen(document, operationIds)
              [] OTHER ->
                   IF latest = NoAnalysis THEN Chosen(document, NoList)
                   ELSE IF latest = <<{}>> THEN Refused("NO_UNTESTED_OPS")
                   ELSE Chosen(document, ListOrAll(Untested(latest, parsed.ids)))
    IN IF ~operationIds.listed /\ forceFull THEN Chosen(document, NoList)
       ELSE OfParsed(Parsed(document))

\* A list that selects nothing is like none.
Selects(row) == row.operationIds.listed /\ row.operationIds.ids # {}

\* The operations the worker generates for, and the ones it skips.
Work(row) ==
    LET OfParsed(parsed) ==
            CASE parsed.error -> [error |-> TRUE]
              [] ~parsed.error /\ ~Selects(row) ->
                   [error |-> FALSE, targets |-> parsed.ids, skipped |-> {}]
              [] OTHER ->
                   [error |-> FALSE, targets |-> parsed.ids \cap row.operationIds.ids,
                    skipped |-> row.operationIds.ids \ parsed.ids]
    IN OfParsed(Parsed(row.document))
=============================================================================
