----------------------------- MODULE CaseReview -----------------------------
(***************************************************************************)
(* The review of test cases (rows of `test_cases`): a case is inserted as  *)
(* a draft, by hand or by the generation, edited, confirmed by a reviewer  *)
(* and deleted.  Only active cases are executed.  Every handler loads the  *)
(* row, decides, and commits; the commit updates WHERE id = ? the columns  *)
(* that differ from those loaded.                                          *)
(***************************************************************************)
EXTENDS Naturals, FiniteSetsExt

CONSTANTS
  Clients,    \* threads of the web process
  Columns,    \* columns a request may change
  Values,     \* values the schema CaseCreate accepts for them
  BadValues,  \* values it does not accept
  Reviewers,
  ReuseIds,   \* the database gives the highest id again after a deletion
  MaxCases    \* bound: how many cases are inserted

NoReviewer == "none"

ASSUME ReviewersAssumption == NoReviewer \notin Reviewers
ASSUME BoundsAssumption == MaxCases \in Nat
ASSUME ReuseAssumption == ReuseIds \in BOOLEAN
ASSUME ValuesAssumption == Values \cap BadValues = {}

VARIABLES
  cases,    \* the rows
  lastId,   \* how many cases were inserted so far
  web       \* request each web thread is in

vars == <<cases, lastId, web>>

-----------------------------------------------------------------------------
(* Types *)

Ids == 1..MaxCases
Content == [Columns -> Values \cup BadValues]
IsValid(content) == \A k \in Columns : content[k] \in Values

Absent == [status |-> "absent"]
\* approved: the contents its reviewer was shown (history).
Row == [status : {"draft", "active"}, content : Content,
        reviewer : {NoReviewer} \cup Reviewers, approved : SUBSET Content]

\* The body of an update: the columns it names, with values that passed
\* CaseUpdate.
Changes == UNION {[K -> Values] : K \in SUBSET Columns}

Idle == [pc |-> "idle"]
Update  == [pc : {"update"}, id : Ids, seen : Row, changes : Changes]
Confirm == [pc : {"confirm"}, id : Ids, seen : Row, reviewer : Reviewers]
Delete  == [pc : {"delete"}, id : Ids]

TypeOK ==
  /\ cases \in [Ids -> {Absent} \cup Row]
  /\ lastId \in 0..MaxCases
  /\ web \in [Clients -> {Idle} \cup Update \cup Confirm \cup Delete]

Init ==
  /\ cases = [id \in Ids |-> Absent]
  /\ lastId = 0
  /\ web = [c \in Clients |-> Idle]

-----------------------------------------------------------------------------
(* Helpers *)

Present == {id \in Ids : cases[id] # Absent}

NewId == IF ReuseIds THEN Max(Present \cup {0}) + 1 ELSE lastId + 1

Insert(content) ==
  /\ lastId < MaxCases
  /\ lastId' = lastId + 1
  /\ cases' = [cases EXCEPT ![NewId] =
       [status |-> "draft", content |-> content, reviewer |-> NoReviewer,
        approved |-> {}]]
  /\ web' = web

Start(c, job) ==
  /\ web[c].pc = "idle"
  /\ web' = [web EXCEPT ![c] = job]
  /\ UNCHANGED <<cases, lastId>>

Done(c) == web' = [web EXCEPT ![c] = Idle] /\ lastId' = lastId

-----------------------------------------------------------------------------
(* CaseService *)

\* POST /cases: the payload passed CaseCreate.
CreateCase == \E content \in [Columns -> Values] : Insert(content)

\* The generation inserts what it made of an answer of the LLM: cleaned after
\* it was validated, so perhaps no longer valid.
GenerateCase == \E content \in Content : Insert(content)

Merged(row, changes) ==
  [k \in Columns |-> IF k \in DOMAIN changes THEN changes[k] ELSE row.content[k]]

\* update_case loads the row; an active one must stay valid.
UpdateLoad(c) ==
  \E id \in Present, changes \in Changes :
    /\ cases[id].status = "active" => IsValid(Merged(cases[id], changes))
    /\ Start(c, [pc |-> "update", id |-> id, seen |-> cases[id],
                 changes |-> changes])

\* The columns that differ from those loaded.
Dirty(c) ==
  {k \in DOMAIN web[c].changes :
     web[c].changes[k] # web[c].seen.content[k]}

Edited(row, c) ==
  [row EXCEPT !.content =
     [k \in Columns |-> IF k \in Dirty(c) THEN web[c].changes[k]
                        ELSE row.content[k]]]

\* Variant: the signature outlives the contents it was given for.
UpdateKeepsReviewer(c) ==
  /\ web[c].pc = "update"
  /\ cases[web[c].id] # Absent
  /\ cases' = [cases EXCEPT ![web[c].id] =
       IF web[c].seen.status = "active" /\ Dirty(c) # {}
         THEN [Edited(cases[web[c].id], c) EXCEPT !.status = "draft"]
         ELSE Edited(cases[web[c].id], c)]
  /\ Done(c)

\* A change of a row loaded as active takes it back to draft, unsigned; one
\* of a row loaded as draft leaves the status as it is by now.
UpdateWrite(c) ==
  /\ web[c].pc = "update"
  /\ cases[web[c].id] # Absent
  /\ cases' = [cases EXCEPT ![web[c].id] =
       IF web[c].seen.status = "active" /\ Dirty(c) # {}
         THEN [Edited(cases[web[c].id], c) EXCEPT
                 !.status = "draft", !.reviewer = NoReviewer]
         ELSE Edited(cases[web[c].id], c)]
  /\ Done(c)

\* Variant: no validation before the activation.
ConfirmAnyDraft(c) ==
  \E id \in Present, r \in Reviewers :
    /\ cases[id].status = "draft"
    /\ Start(c, [pc |-> "confirm", id |-> id, seen |-> cases[id],
                 reviewer |-> r])

\* confirm_case loads a draft and validates what it loaded.
ConfirmLoad(c) ==
  \E id \in Present, r \in Reviewers :
    /\ cases[id].status = "draft"
    /\ IsValid(cases[id].content)
    /\ Start(c, [pc |-> "confirm", id |-> id, seen |-> cases[id],
                 reviewer |-> r])

\* Variant: the commit stores the row that was loaded.
ConfirmStoresSeen(c) ==
  /\ web[c].pc = "confirm"
  /\ cases' = [cases EXCEPT ![web[c].id] =
       [web[c].seen EXCEPT !.status = "active",
                           !.reviewer = web[c].reviewer,
                           !.approved = {web[c].seen.content}]]
  /\ Done(c)

\* The commit: status and reviewer, whatever the row holds by now.
ConfirmWrite(c) ==
  /\ web[c].pc = "confirm"
  /\ cases[web[c].id] # Absent
  /\ cases' = [cases EXCEPT ![web[c].id] =
       [cases[web[c].id] EXCEPT !.status = "active",
                                !.reviewer = web[c].reviewer,
                                !.approved = {web[c].seen.content}]]
  /\ Done(c)

\* The row is gone: StaleDataError, rolled back.
WriteFails(c) ==
  /\ web[c].pc \in {"update", "confirm"}
  /\ cases[web[c].id] = Absent
  /\ Done(c)
  /\ cases' = cases

DeleteLoad(c) ==
  \E id \in Present : Start(c, [pc |-> "delete", id |-> id])

\* Deleting what somebody else has deleted is no error.
DeleteWrite(c) ==
  /\ web[c].pc = "delete"
  /\ cases' = [cases EXCEPT ![web[c].id] = Absent]
  /\ Done(c)

Next ==
  \/ CreateCase
  \/ GenerateCase
  \/ \E c \in Clients :
       \/ UpdateLoad(c) \/ UpdateWrite(c)
       \/ ConfirmLoad(c) \/ ConfirmWrite(c)
       \/ WriteFails(c)
       \/ DeleteLoad(c) \/ DeleteWrite(c)

Spec == Init /\ [][Next]_vars

-----------------------------------------------------------------------------
(* Properties *)

\* A row that is absent has been deleted or not yet been inserted.
CaseStatus ==
  [id \in Ids |-> IF cases[id] # Absent THEN cases[id].status
                  ELSE IF id <= lastId THEN "deleted" ELSE "none"]

Lifecycle == INSTANCE CaseLifecycle WITH Cases <- Ids, status <- CaseStatus

\* Handlers that race on one case never bring a deleted case back and activate
\* drafts only, which is what other components suppose of cases.  (It holds
\* where ids are not given again.)
CasesFollowTheLifecycle == Lifecycle!Spec

Active(id) == cases[id] # Absent /\ cases[id].status = "active"

\* What may be executed is valid, although a confirm activates a row that it
\* validated earlier and others edit it or delete it meanwhile.  (Where ids
\* are given again, a confirm may hit another case.)
ActiveIsValid == \A id \in Ids : Active(id) => IsValid(cases[id].content)

\* A case is active exactly if somebody signs for it, whatever handlers race.
SignedIfActive ==
  \A id \in Present : Active(id) <=> cases[id].reviewer # NoReviewer

\* An active case holds the contents that its reviewer was shown.  This is no
\* invariant: an edit that loaded a draft may commit after the confirm.
ActiveIsReviewed ==
  \A id \in Ids : Active(id) => cases[id].content \in cases[id].approved
=============================================================================
