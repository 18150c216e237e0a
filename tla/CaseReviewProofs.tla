-------------------------- MODULE CaseReviewProofs --------------------------
(***************************************************************************)
(* Theorems about CaseReview, for any clients, columns, values and cases.  *)
(***************************************************************************)
EXTENDS CaseReview, TLAPS

Jobs == {Idle} \cup Update \cup Confirm \cup Delete

\* The conjunct of SignedIfActive about one row.
Signed(row) == (row.status = "active") <=> (row.reviewer # NoReviewer)

\* A fresh draft, whatever its contents.
Fresh(content) == [status |-> "draft", content |-> content,
                   reviewer |-> NoReviewer, approved |-> {}]

\* The rows UpdateWrite and ConfirmWrite store.
Updated(row, c) ==
  IF web[c].seen.status = "active" /\ Dirty(c) # {}
    THEN [Edited(row, c) EXCEPT !.status = "draft", !.reviewer = NoReviewer]
    ELSE Edited(row, c)
Confirmed(row, c) ==
  [row EXCEPT !.status = "active", !.reviewer = web[c].reviewer,
              !.approved = {web[c].seen.content}]

\* Rows as a set of functions over fixed fields, and what tells an absent one.
LEMMA RowIsPresent == Absent \notin Row
  BY DEF Absent, Row

\* The pc tells the kind of a request.
LEMMA JobKinds ==
  ASSUME NEW job \in Jobs
  PROVE  /\ job.pc = "update" => job \in Update
         /\ job.pc = "confirm" => job \in Confirm
         /\ job.pc = "delete" => job \in Delete
  BY DEF Jobs, Idle, Update, Confirm, Delete

LEMMA FreshIsDraft ==
  ASSUME NEW content \in Content
  PROVE  /\ Fresh(content) \in Row
         /\ Fresh(content).status = "draft"
         /\ Fresh(content).content = content
         /\ Signed(Fresh(content))
  BY DEF Fresh, Row, Signed

\* The contents after an update: the changed columns hold valid values.
LEMMA EditedContent ==
  ASSUME TypeOK, NEW c \in Clients, web[c] \in Update, NEW row \in Row
  PROVE  /\ Edited(row, c) \in Row
         /\ Edited(row, c).status = row.status
         /\ Edited(row, c).reviewer = row.reviewer
         /\ IsValid(row.content) => IsValid(Edited(row, c).content)
  <1> DEFINE text == [k \in Columns |-> IF k \in Dirty(c)
                                          THEN web[c].changes[k]
                                          ELSE row.content[k]]
  <1>1. row.content \in Content
    BY DEF Row
  <1>2. web[c].changes \in Changes
    BY DEF Update
  <1>3. \A k \in Dirty(c) : web[c].changes[k] \in Values
    <2> SUFFICES ASSUME NEW k \in Dirty(c)
                 PROVE  web[c].changes[k] \in Values
      OBVIOUS
    <2>1. PICK K \in SUBSET Columns : web[c].changes \in [K -> Values]
      BY <1>2 DEF Changes
    <2> QED BY <2>1 DEF Dirty
  <1>4. /\ text \in Content
        /\ IsValid(row.content) => IsValid(text)
    BY <1>1, <1>3 DEF Content, IsValid
  <1>5. Edited(row, c) = [row EXCEPT !.content = text]
    BY DEF Edited
  <1> HIDE DEF text
  <1> QED BY <1>4, <1>5 DEF Row

LEMMA UpdatedRow ==
  ASSUME TypeOK, NEW c \in Clients, web[c] \in Update, NEW row \in Row
  PROVE  /\ Updated(row, c) \in Row
         /\ Signed(row) => Signed(Updated(row, c))
         /\ Updated(row, c).status = "active" => row.status = "active"
         /\ IsValid(row.content) => IsValid(Updated(row, c).content)
  <1> DEFINE edited == Edited(row, c)
  <1>1. /\ edited \in Row
        /\ edited.status = row.status
        /\ edited.reviewer = row.reviewer
        /\ IsValid(row.content) => IsValid(edited.content)
    BY EditedContent
  <1>2. \/ Updated(row, c) = edited
        \/ Updated(row, c) =
             [edited EXCEPT !.status = "draft", !.reviewer = NoReviewer]
    BY DEF Updated
  <1> HIDE DEF edited
  <1>3. CASE Updated(row, c) = edited
    BY <1>1, <1>3 DEF Signed
  <1>4. CASE Updated(row, c) =
               [edited EXCEPT !.status = "draft", !.reviewer = NoReviewer]
    <2>1. /\ Updated(row, c) \in Row
          /\ Updated(row, c).status = "draft"
          /\ Updated(row, c).reviewer = NoReviewer
          /\ Updated(row, c).content = edited.content
      BY <1>1, <1>4 DEF Row
    <2> QED BY <1>1, <2>1 DEF Signed
  <1> QED BY <1>2, <1>3, <1>4

LEMMA ConfirmedRow ==
  ASSUME NEW c \in Clients, web[c] \in Confirm, NEW row \in Row
  PROVE  /\ Confirmed(row, c) \in Row
         /\ Signed(Confirmed(row, c))
         /\ Confirmed(row, c).content = row.content
  <1>1. /\ web[c].reviewer \in Reviewers
        /\ web[c].seen.content \in Content
    BY DEF Confirm, Row
  <1> QED BY <1>1, ReviewersAssumption DEF Confirmed, Row, Signed

-----------------------------------------------------------------------------
(* What the steps do to the rows and to the requests. *)

\* A row that a step changes: a fresh draft at the new id, an update, a
\* confirm or a deletion.
RowStep ==
  \/ \E content \in Content :
       /\ lastId < MaxCases
       /\ lastId' = lastId + 1
       /\ cases' = [cases EXCEPT ![NewId] = Fresh(content)]
       /\ web' = web
  \/ \E c \in Clients :
       /\ web[c] \in Update
       /\ cases[web[c].id] \in Row
       /\ cases' = [cases EXCEPT ![web[c].id] = Updated(cases[web[c].id], c)]
       /\ Done(c)
  \/ \E c \in Clients :
       /\ web[c] \in Confirm
       /\ cases[web[c].id] \in Row
       /\ cases' = [cases EXCEPT ![web[c].id] = Confirmed(cases[web[c].id], c)]
       /\ Done(c)
  \/ \E c \in Clients :
       /\ web[c] \in Delete
       /\ cases' = [cases EXCEPT ![web[c].id] = Absent]
       /\ Done(c)

\* A row that a request loads.
WebStep ==
  \/ \E c \in Clients :
       /\ cases' = cases
       /\ Done(c)
  \/ \E c \in Clients, job \in Update \cup Confirm \cup Delete :
       /\ job.id \in Present
       /\ job.pc = "confirm" => IsValid(cases[job.id].content)
       /\ Start(c, job)

\* Every step is one of these.
LEMMA StepForms ==
  ASSUME TypeOK, Next
  PROVE  RowStep \/ WebStep
  <1>1. CASE CreateCase \/ GenerateCase
    <2>1. PICK content \in Content : Insert(content)
      BY <1>1 DEF CreateCase, GenerateCase, Content
    <2> QED BY <2>1 DEF Insert, Fresh, RowStep
  <1>2. ASSUME NEW c \in Clients, UpdateLoad(c)
        PROVE  WebStep
    <2>1. PICK id \in Present, changes \in Changes :
            Start(c, [pc |-> "update", id |-> id, seen |-> cases[id],
                      changes |-> changes])
      BY <1>2 DEF UpdateLoad
    <2> DEFINE job == [pc |-> "update", id |-> id, seen |-> cases[id],
                       changes |-> changes]
    <2>2. id \in Ids /\ cases[id] \in Row
      BY DEF TypeOK, Present
    <2>3. job \in Update /\ job.id \in Present /\ job.pc # "confirm"
      BY <2>2 DEF Update
    <2>4. Start(c, job)
      BY <2>1
    <2> HIDE DEF job
    <2> QED BY <2>3, <2>4 DEF WebStep
  <1>3. ASSUME NEW c \in Clients, ConfirmLoad(c)
        PROVE  WebStep
    <2>1. PICK id \in Present, r \in Reviewers :
            /\ IsValid(cases[id].content)
            /\ Start(c, [pc |-> "confirm", id |-> id, seen |-> cases[id],
                         reviewer |-> r])
      BY <1>3 DEF ConfirmLoad
    <2> DEFINE job == [pc |-> "confirm", id |-> id, seen |-> cases[id],
                       reviewer |-> r]
    <2>2. id \in Ids /\ cases[id] \in Row
      BY DEF TypeOK, Present
    <2>3. job \in Confirm /\ job.id = id
      BY <2>2 DEF Confirm
    <2>4. Start(c, job)
      BY <2>1
    <2> HIDE DEF job
    <2> QED BY <2>1, <2>3, <2>4 DEF WebStep
  <1>4. ASSUME NEW c \in Clients, DeleteLoad(c)
        PROVE  WebStep
    <2>1. PICK id \in Present : Start(c, [pc |-> "delete", id |-> id])
      BY <1>4 DEF DeleteLoad
    <2> DEFINE job == [pc |-> "delete", id |-> id]
    <2>2. job \in Delete /\ job.id \in Present /\ job.pc # "confirm"
      BY DEF Delete, Present
    <2>3. Start(c, job)
      BY <2>1
    <2> HIDE DEF job
    <2> QED BY <2>2, <2>3 DEF WebStep
  <1>5. ASSUME NEW c \in Clients, UpdateWrite(c)
        PROVE  RowStep
    <2>1. web[c] \in Update
      BY <1>5, JobKinds DEF TypeOK, Jobs, UpdateWrite
    <2>2. cases[web[c].id] \in Row
      BY <1>5, <2>1 DEF TypeOK, Update, UpdateWrite
    <2> QED BY <1>5, <2>1, <2>2 DEF UpdateWrite, Updated, RowStep
  <1>6. ASSUME NEW c \in Clients, ConfirmWrite(c)
        PROVE  RowStep
    <2>1. web[c] \in Confirm
      BY <1>6, JobKinds DEF TypeOK, Jobs, ConfirmWrite
    <2>2. cases[web[c].id] \in Row
      BY <1>6, <2>1 DEF TypeOK, Confirm, ConfirmWrite
    <2> QED BY <1>6, <2>1, <2>2 DEF ConfirmWrite, Confirmed, RowStep
  <1>7. ASSUME NEW c \in Clients, WriteFails(c)
        PROVE  WebStep
    BY <1>7 DEF WriteFails, WebStep
  <1>8. ASSUME NEW c \in Clients, DeleteWrite(c)
        PROVE  RowStep
    <2>1. web[c] \in Delete
      BY <1>8, JobKinds DEF TypeOK, Jobs, DeleteWrite
    <2> QED BY <1>8, <2>1 DEF DeleteWrite, RowStep
  <1> QED
    BY <1>1, <1>2, <1>3, <1>4, <1>5, <1>6, <1>7, <1>8 DEF Next

-----------------------------------------------------------------------------
(* Types and signatures *)

SignInv == TypeOK /\ SignedIfActive

LEMMA SignedRows ==
  ASSUME TypeOK
  PROVE  SignedIfActive <=> \A id \in Present : Signed(cases[id])
  BY DEF SignedIfActive, Signed, Active, Present

LEMMA SignInvInit == Init => SignInv
  <1> SUFFICES ASSUME Init PROVE SignInv
    OBVIOUS
  <1>1. TypeOK
    BY BoundsAssumption DEF Init, TypeOK
  <1>2. Present = {}
    BY DEF Init, Present
  <1> QED BY <1>1, <1>2 DEF SignInv, SignedIfActive

LEMMA SignInvStep ==
  ASSUME SignInv, [Next]_vars
  PROVE  SignInv'
  <1> USE DEF SignInv
  <1>1. CASE UNCHANGED vars
    BY <1>1 DEF vars, TypeOK, SignedIfActive, Active, Present
  <1>2. CASE Next
    <2>0. RowStep \/ WebStep
      BY <1>2, StepForms
    <2>1. \A id \in Present : Signed(cases[id])
      BY SignedRows
    <2>2. ASSUME NEW row \in {Absent} \cup Row, NEW id,
                 cases' = [cases EXCEPT ![id] = row],
                 row # Absent => Signed(row),
                 (lastId \in 0..MaxCases)', (web \in [Clients -> Jobs])'
          PROVE  SignInv'
      <3>1. TypeOK'
        BY <2>2 DEF TypeOK, Jobs
      <3>2. \A i \in Present' : Signed(cases'[i])
        BY <2>1, <2>2 DEF TypeOK, Present
      <3> QED BY <3>1, <3>2 DEF SignedIfActive, Signed, Active, Present
    <2>3. ASSUME NEW c \in Clients, Done(c)
          PROVE  (lastId \in 0..MaxCases)' /\ (web \in [Clients -> Jobs])'
      BY <2>3 DEF Done, TypeOK, Jobs
    <2>4. CASE \E content \in Content :
                 /\ lastId < MaxCases
                 /\ lastId' = lastId + 1
                 /\ cases' = [cases EXCEPT ![NewId] = Fresh(content)]
                 /\ web' = web
      <3>1. PICK content \in Content :
              /\ lastId < MaxCases
              /\ lastId' = lastId + 1
              /\ cases' = [cases EXCEPT ![NewId] = Fresh(content)]
              /\ web' = web
        BY <2>4
      <3>2. Fresh(content) \in Row /\ Signed(Fresh(content))
        BY FreshIsDraft
      <3>3. (lastId \in 0..MaxCases)'
        BY <3>1, BoundsAssumption DEF TypeOK
      <3>4. (web \in [Clients -> Jobs])'
        BY <3>1 DEF TypeOK, Jobs
      <3> QED BY <2>2, <3>1, <3>2, <3>3, <3>4
    <2>5. ASSUME NEW c \in Clients, web[c] \in Update,
                 cases[web[c].id] \in Row, Done(c),
                 cases' = [cases EXCEPT ![web[c].id] =
                             Updated(cases[web[c].id], c)]
          PROVE  SignInv'
      <3>1. Signed(cases[web[c].id])
        BY <2>1, <2>5, RowIsPresent DEF Update, Present
      <3>2. /\ Updated(cases[web[c].id], c) \in Row
            /\ Signed(Updated(cases[web[c].id], c))
        BY <2>5, <3>1, UpdatedRow
      <3> QED BY <2>2, <2>3, <2>5, <3>2
    <2>6. ASSUME NEW c \in Clients, web[c] \in Confirm,
                 cases[web[c].id] \in Row, Done(c),
                 cases' = [cases EXCEPT ![web[c].id] =
                             Confirmed(cases[web[c].id], c)]
          PROVE  SignInv'
      <3>1. /\ Confirmed(cases[web[c].id], c) \in Row
            /\ Signed(Confirmed(cases[web[c].id], c))
        BY <2>6, ConfirmedRow
      <3> QED BY <2>2, <2>3, <2>6, <3>1
    <2>7. ASSUME NEW c \in Clients, web[c] \in Delete, Done(c),
                 cases' = [cases EXCEPT ![web[c].id] = Absent]
          PROVE  SignInv'
      BY <2>2, <2>3, <2>7
    <2>8. CASE WebStep
      <3>1. cases' = cases /\ (lastId \in 0..MaxCases)'
        BY <2>8 DEF WebStep, Done, Start, TypeOK
      <3>2. (web \in [Clients -> Jobs])'
        BY <2>8 DEF WebStep, Done, Start, TypeOK, Jobs
      <3> QED
        BY <3>1, <3>2 DEF TypeOK, Jobs, SignedIfActive, Active, Present
    <2> QED BY <2>0, <2>4, <2>5, <2>6, <2>7, <2>8 DEF RowStep
  <1> QED BY <1>1, <1>2 DEF vars

\* Every row and every request keeps its type, whatever the clients do.
THEOREM TypeCorrect == Spec => []TypeOK
  <1>1. SignInv => TypeOK
    BY DEF SignInv
  <1> QED BY <1>1, SignInvInit, SignInvStep, PTL DEF Spec

\* A case is active exactly if somebody signs for it, even where the database
\* gives ids again.
THEOREM ActiveCasesAreSigned == Spec => []SignedIfActive
  <1>1. SignInv => SignedIfActive
    BY DEF SignInv
  <1> QED BY <1>1, SignInvInit, SignInvStep, PTL DEF Spec

-----------------------------------------------------------------------------
(* Only valid cases are active.  A confirm writes to the row it validated,  *)
(* and what happens to that row meanwhile keeps it valid or deletes it, as  *)
(* long as no other case gets its id.                                       *)

IdsAreGiven ==
  /\ \A id \in Present : id <= lastId
  /\ \A c \in Clients : web[c] # Idle => web[c].id <= lastId

ConfirmsAreValid ==
  \A c \in Clients :
    web[c].pc = "confirm" /\ web[c].id \in Present
      => IsValid(cases[web[c].id].content)

ValidInv == TypeOK /\ IdsAreGiven /\ ConfirmsAreValid /\ ActiveIsValid

LEMMA ValidInvInit == Init => ValidInv
  <1> SUFFICES ASSUME Init PROVE ValidInv
    OBVIOUS
  <1>1. TypeOK
    BY SignInvInit DEF SignInv
  <1>2. Present = {} /\ \A id \in Ids : ~Active(id)
    BY DEF Init, Present, Active
  <1>3. \A c \in Clients : web[c] = Idle /\ web[c].pc # "confirm"
    BY DEF Init, Idle
  <1> QED
    BY <1>1, <1>2, <1>3
    DEF ValidInv, IdsAreGiven, ConfirmsAreValid, ActiveIsValid

LEMMA JobsHaveIds ==
  ASSUME TypeOK, NEW c \in Clients
  PROVE  web[c] # Idle => web[c].id \in Ids
  BY DEF TypeOK, Update, Confirm, Delete

\* A step that replaces one row keeps the invariant if the new row is valid
\* wherever it must be.
LEMMA RowReplaced ==
  ASSUME ValidInv, TypeOK',
         NEW id \in Ids, NEW row \in {Absent} \cup Row,
         cases' = [cases EXCEPT ![id] = row],
         lastId <= lastId', row # Absent => id <= lastId',
         row # Absent /\ row.status = "active" => IsValid(row.content),
         \A c \in Clients : web'[c] = Idle \/ web'[c] = web[c],
         \A c \in Clients :
           web'[c].pc = "confirm" /\ web'[c].id = id /\ row # Absent
             => IsValid(row.content)
  PROVE  ValidInv'
  <1> USE DEF ValidInv
  <1>1. \A i \in Ids : cases'[i] = IF i = id THEN row ELSE cases[i]
    BY DEF TypeOK
  <1>2. \A i \in Present' : \/ i = id /\ row # Absent
                            \/ i # id /\ i \in Present
    BY <1>1 DEF Present
  <1>3. lastId \in Nat /\ lastId' \in Nat /\ Ids \subseteq Nat
    BY BoundsAssumption DEF TypeOK, Ids
  <1>4. IdsAreGiven'
    <2>1. ASSUME NEW i \in Present'
          PROVE  i <= lastId'
      <3>1. CASE i = id /\ row # Absent
        BY <3>1
      <3>2. CASE i \in Present
        <4>1. i <= lastId
          BY <3>2 DEF IdsAreGiven
        <4>2. i \in Nat
          BY <1>3, <3>2 DEF Present
        <4> QED BY <1>3, <4>1, <4>2
      <3> QED BY <1>2, <3>1, <3>2
    <2>2. ASSUME NEW c \in Clients, web'[c] # Idle
          PROVE  web'[c].id <= lastId'
      <3>1. web'[c] = web[c] /\ web[c].id \in Ids
        BY <2>2, JobsHaveIds
      <3>2. web[c].id <= lastId
        BY <2>2, <3>1 DEF IdsAreGiven
      <3>3. web[c].id \in Nat
        BY <1>3, <3>1
      <3>4. web[c].id <= lastId'
        BY <1>3, <3>2, <3>3
      <3> QED BY <3>1, <3>4
    <2> QED BY <2>1, <2>2 DEF IdsAreGiven
  <1>5. ConfirmsAreValid'
    <2> SUFFICES ASSUME NEW c \in Clients, web'[c].pc = "confirm",
                        web'[c].id \in Present'
                 PROVE  IsValid(cases'[web'[c].id].content)
      BY DEF ConfirmsAreValid, IsValid
    <2>1. web'[c] = web[c]
      BY DEF Idle
    <2>2. web[c].id \in Ids
      BY <2>1, JobsHaveIds DEF Idle
    <2>3. CASE web[c].id = id
      BY <1>1, <1>2, <2>1, <2>2, <2>3
    <2>4. CASE web[c].id # id
      <3>1. web[c].id \in Present
        BY <1>2, <2>1, <2>4
      <3>2. IsValid(cases[web[c].id].content)
        BY <2>1, <3>1 DEF ConfirmsAreValid
      <3> QED BY <1>1, <2>1, <2>2, <2>4, <3>2
    <2> QED BY <2>3, <2>4
  <1>6. ActiveIsValid'
    <2> SUFFICES ASSUME NEW i \in Ids, cases'[i] # Absent,
                        cases'[i].status = "active"
                 PROVE  IsValid(cases'[i].content)
      BY DEF ActiveIsValid, Active, IsValid
    <2> QED BY <1>1 DEF ActiveIsValid, Active
  <1> QED BY <1>4, <1>5, <1>6

LEMMA ValidInvStep ==
  ASSUME ~ReuseIds, ValidInv, [Next]_vars, TypeOK'
  PROVE  ValidInv'
  <1> USE DEF ValidInv
  <1>0. /\ \A id \in Present : id \in Ids /\ cases[id] \in Row
        /\ \A id \in Ids : cases[id] \in Row => id \in Present
        /\ \A id \in Present :
             cases[id].status = "active" => IsValid(cases[id].content)
    BY RowIsPresent DEF Present, TypeOK, ActiveIsValid, Active
  <1>N. lastId \in Nat /\ MaxCases \in Nat
    BY BoundsAssumption DEF TypeOK
  <1>1. CASE UNCHANGED vars
    BY <1>1 DEF vars, IdsAreGiven, ConfirmsAreValid, ActiveIsValid, Active,
                Present, IsValid
  <1>2. CASE Next
    <2>0. RowStep \/ WebStep
      BY <1>2, StepForms
    <2>1. CASE \E content \in Content :
                 /\ lastId < MaxCases
                 /\ lastId' = lastId + 1
                 /\ cases' = [cases EXCEPT ![NewId] = Fresh(content)]
                 /\ web' = web
      <3>1. PICK content \in Content :
              /\ lastId < MaxCases
              /\ lastId' = lastId + 1
              /\ cases' = [cases EXCEPT ![NewId] = Fresh(content)]
              /\ web' = web
        BY <2>1
      <3>2. NewId = lastId + 1
        BY DEF NewId
      <3>3. /\ NewId \in Ids /\ NewId <= lastId' /\ lastId <= lastId'
            /\ ~(NewId <= lastId)
        BY <1>N, <3>1, <3>2 DEF Ids
      <3>4. Fresh(content) \in Row /\ Fresh(content).status # "active"
        BY FreshIsDraft
      <3>5. \A c \in Clients : web'[c].pc = "confirm" => web'[c].id # NewId
        BY <3>1, <3>3 DEF IdsAreGiven, Idle
      <3> QED BY <3>1, <3>3, <3>4, <3>5, RowReplaced
    <2>2. ASSUME NEW c \in Clients, web[c] \in Update \cup Confirm \cup Delete,
                 Done(c)
          PROVE  /\ web[c].id \in Ids /\ web[c].id <= lastId
                 /\ lastId' = lastId /\ lastId <= lastId'
                 /\ \A d \in Clients : web'[d] = Idle \/ web'[d] = web[d]
                 /\ web'[c] = Idle
      <3>1. web[c] # Idle
        BY <2>2 DEF Idle, Update, Confirm, Delete
      <3>2. web[c].id \in Ids /\ web[c].id <= lastId
        BY <3>1, JobsHaveIds DEF IdsAreGiven
      <3>3. lastId' = lastId /\ lastId <= lastId'
        BY <1>N, <2>2 DEF Done
      <3> QED BY <2>2, <3>2, <3>3 DEF Done, TypeOK
    <2>3. ASSUME NEW c \in Clients, web[c] \in Update,
                 cases[web[c].id] \in Row, Done(c),
                 cases' = [cases EXCEPT ![web[c].id] =
                             Updated(cases[web[c].id], c)]
          PROVE  ValidInv'
      <3> DEFINE old == cases[web[c].id]
                 new == Updated(old, c)
      <3>1. /\ new \in Row
            /\ new.status = "active" => old.status = "active"
            /\ IsValid(old.content) => IsValid(new.content)
        BY <2>3, UpdatedRow
      <3>2. web[c].id \in Present
        BY <1>0, <2>2, <2>3
      <3>3. old.status = "active" => IsValid(old.content)
        BY <1>0, <3>2
      <3>4. ASSUME NEW d \in Clients, web'[d].pc = "confirm",
                   web'[d].id = web[c].id
            PROVE  IsValid(old.content)
        <4>1. web'[d] = web[d]
          BY <2>2, <2>3, <3>4 DEF Idle
        <4> QED BY <3>2, <3>4, <4>1 DEF ConfirmsAreValid
      <3>5. cases' = [cases EXCEPT ![web[c].id] = new]
        BY <2>3
      <3>6. /\ web[c].id \in Ids /\ lastId <= lastId' /\ web[c].id <= lastId'
            /\ \A d \in Clients : web'[d] = Idle \/ web'[d] = web[d]
        BY <2>2, <2>3
      <3>7. new.status = "active" => IsValid(new.content)
        BY <3>1, <3>3
      <3>8. \A d \in Clients :
              web'[d].pc = "confirm" /\ web'[d].id = web[c].id
                => IsValid(new.content)
        BY <3>1, <3>4
      <3> HIDE DEF old, new
      <3> QED BY <3>1, <3>5, <3>6, <3>7, <3>8, RowReplaced
    <2>4. ASSUME NEW c \in Clients, web[c] \in Confirm,
                 cases[web[c].id] \in Row, Done(c),
                 cases' = [cases EXCEPT ![web[c].id] =
                             Confirmed(cases[web[c].id], c)]
          PROVE  ValidInv'
      <3> DEFINE old == cases[web[c].id]
                 new == Confirmed(old, c)
      <3>1. new \in Row /\ new.content = old.content
        BY <2>4, ConfirmedRow
      <3>2. web[c].id \in Present /\ web[c].pc = "confirm"
        BY <1>0, <2>2, <2>4 DEF Confirm
      <3>3. IsValid(old.content)
        BY <3>2 DEF ConfirmsAreValid
      <3>4. IsValid(new.content)
        BY <3>1, <3>3
      <3>5. cases' = [cases EXCEPT ![web[c].id] = new]
        BY <2>4
      <3> HIDE DEF old, new
      <3> QED BY <2>2, <2>4, <3>1, <3>4, <3>5, RowReplaced
    <2>5. ASSUME NEW c \in Clients, web[c] \in Delete, Done(c),
                 cases' = [cases EXCEPT ![web[c].id] = Absent]
          PROVE  ValidInv'
      BY <2>2, <2>5, RowReplaced
    <2>6. CASE \E c \in Clients : cases' = cases /\ Done(c)
      <3>1. PICK c \in Clients : cases' = cases /\ Done(c)
        BY <2>6
      <3>2. lastId' = lastId
        BY <3>1 DEF Done
      <3>3. \A d \in Clients : web'[d] = Idle \/ web'[d] = web[d]
        BY <3>1 DEF Done, TypeOK
      <3>4. IdsAreGiven'
        BY <3>1, <3>2, <3>3 DEF IdsAreGiven, Present
      <3>5. ConfirmsAreValid'
        BY <3>1, <3>3 DEF ConfirmsAreValid, Present, IsValid, Idle
      <3>6. ActiveIsValid'
        BY <3>1 DEF ActiveIsValid, Active, IsValid
      <3> QED BY <3>4, <3>5, <3>6
    <2>7. CASE \E c \in Clients, job \in Update \cup Confirm \cup Delete :
                 /\ job.id \in Present
                 /\ job.pc = "confirm" => IsValid(cases[job.id].content)
                 /\ Start(c, job)
      <3>1. PICK c \in Clients, job \in Update \cup Confirm \cup Delete :
                 /\ job.id \in Present
                 /\ job.pc = "confirm" => IsValid(cases[job.id].content)
                 /\ Start(c, job)
        BY <2>7
      <3>2. cases' = cases /\ lastId' = lastId
        BY <3>1 DEF Start
      <3>3. \A d \in Clients : web'[d] = IF d = c THEN job ELSE web[d]
        BY <3>1 DEF Start, TypeOK
      <3>4. IdsAreGiven'
        BY <3>1, <3>2, <3>3 DEF IdsAreGiven, Present
      <3>5. ConfirmsAreValid'
        BY <3>1, <3>2, <3>3 DEF ConfirmsAreValid, Present, IsValid
      <3>6. ActiveIsValid'
        BY <3>2 DEF ActiveIsValid, Active, IsValid
      <3> QED BY <3>4, <3>5, <3>6
    <2> QED
      BY <2>0, <2>1, <2>3, <2>4, <2>5, <2>6, <2>7 DEF RowStep, WebStep
  <1> QED BY <1>1, <1>2 DEF vars

\* With ids that are never given again (a PostgreSQL sequence), whatever is
\* executable is valid, however edits, confirms and deletions interleave.
THEOREM ActiveCasesAreValid ==
  ASSUME ~ReuseIds
  PROVE  Spec => []ActiveIsValid
  <1>1. ValidInv /\ [Next]_vars /\ TypeOK' => ValidInv'
    BY ValidInvStep
  <1>2. ValidInv => ActiveIsValid
    BY DEF ValidInv
  <1> QED BY <1>1, <1>2, ValidInvInit, TypeCorrect, PTL DEF Spec

-----------------------------------------------------------------------------
(* Cases follow their abstract specification.                              *)

LEMMA LifecycleInit == Init => Lifecycle!Init
  <1> SUFFICES ASSUME Init PROVE CaseStatus = [id \in Ids |-> "none"]
    BY DEF Lifecycle!Init
  <1>1. \A id \in Ids : cases[id] = Absent /\ ~(id <= lastId)
    BY BoundsAssumption DEF Init, Ids
  <1> QED BY <1>1 DEF CaseStatus

\* A step that replaces one row changes one status.
LEMMA StatusReplaced ==
  ASSUME TypeOK, NEW id \in Ids, NEW row, NEW to,
         cases' = [cases EXCEPT ![id] = row],
         \/ lastId' = lastId
         \/ lastId' = lastId + 1 /\ id = lastId + 1,
         row # Absent => to = row.status,
         row = Absent => id <= lastId' /\ to = "deleted"
  PROVE  CaseStatus' = [CaseStatus EXCEPT ![id] = to]
  <1>1. lastId \in Nat /\ Ids \subseteq Nat
    BY BoundsAssumption DEF TypeOK, Ids
  <1>2. \A i \in Ids : i # id => (i <= lastId' <=> i <= lastId)
    BY <1>1
  <1>3. \A i \in Ids : cases'[i] = IF i = id THEN row ELSE cases[i]
    BY DEF TypeOK
  <1>4. cases'[id] = row
    BY <1>3
  <1>5. CaseStatus'[id] = to
    BY <1>4 DEF CaseStatus
  <1>6. \A i \in Ids : i # id => CaseStatus'[i] = CaseStatus[i]
    BY <1>2, <1>3 DEF CaseStatus
  <1>7. \A i \in Ids : CaseStatus'[i] = [CaseStatus EXCEPT ![id] = to][i]
    BY <1>5, <1>6 DEF CaseStatus
  <1> QED BY <1>7 DEF CaseStatus

\* What may become of the status of a case in one step.
LifecycleMove(from, to) ==
  \/ from = to
  \/ from = "none" /\ to = "draft"
  \/ from = "draft" /\ to = "active"
  \/ from = "active" /\ to = "draft"
  \/ from \in {"draft", "active"} /\ to = "deleted"

LEMMA MovesAreSteps ==
  ASSUME NEW id \in Ids, NEW to, CaseStatus' = [CaseStatus EXCEPT ![id] = to],
         LifecycleMove(CaseStatus[id], to)
  PROVE  [Lifecycle!Next]_CaseStatus
  <1>1. CASE CaseStatus[id] = to
    BY <1>1 DEF CaseStatus
  <1>2. CASE CaseStatus[id] # to
    <2>1. \/ Lifecycle!Create(id) \/ Lifecycle!Confirm(id)
          \/ Lifecycle!Demote(id) \/ Lifecycle!Delete(id)
      BY <1>2 DEF LifecycleMove, Lifecycle!Create, Lifecycle!Confirm,
                  Lifecycle!Demote, Lifecycle!Delete, Lifecycle!Move
    <2> QED BY <2>1 DEF Lifecycle!Next
  <1> QED BY <1>1, <1>2

LEMMA LifecycleStep ==
  ASSUME ~ReuseIds, ValidInv, [Next]_vars
  PROVE  [Lifecycle!Next]_CaseStatus
  <1> USE DEF ValidInv
  <1>0. \A id \in Ids :
          CaseStatus[id] = IF cases[id] # Absent THEN cases[id].status
                           ELSE IF id <= lastId THEN "deleted" ELSE "none"
    BY DEF CaseStatus
  <1>R. \A row \in Row : row # Absent /\ row.status \in {"draft", "active"}
    BY RowIsPresent DEF Row
  <1>N. lastId \in Nat /\ MaxCases \in Nat
    BY BoundsAssumption DEF TypeOK
  <1>1. CASE UNCHANGED vars
    BY <1>1 DEF vars, CaseStatus
  <1>2. CASE Next
    <2>0. RowStep \/ WebStep
      BY <1>2, StepForms
    <2>1. CASE \E content \in Content :
                 /\ lastId < MaxCases
                 /\ lastId' = lastId + 1
                 /\ cases' = [cases EXCEPT ![NewId] = Fresh(content)]
                 /\ web' = web
      <3>1. PICK content \in Content :
              /\ lastId < MaxCases
              /\ lastId' = lastId + 1
              /\ cases' = [cases EXCEPT ![NewId] = Fresh(content)]
        BY <2>1
      <3>2. NewId = lastId + 1 /\ NewId \in Ids /\ ~(NewId <= lastId)
        BY <1>N, <3>1 DEF NewId, Ids
      <3>3. CaseStatus[NewId] = "none"
        BY <1>0, <3>2 DEF IdsAreGiven, Present
      <3>4. Fresh(content) # Absent /\ Fresh(content).status = "draft"
        BY <1>R, FreshIsDraft
      <3>5. CaseStatus' = [CaseStatus EXCEPT ![NewId] = "draft"]
        BY <3>1, <3>2, <3>4, StatusReplaced
      <3>6. LifecycleMove(CaseStatus[NewId], "draft")
        BY <3>3 DEF LifecycleMove
      <3> QED BY <3>2, <3>5, <3>6, MovesAreSteps
    <2>2. ASSUME NEW c \in Clients, web[c] \in Update \cup Confirm \cup Delete,
                 Done(c)
          PROVE  web[c].id \in Ids /\ web[c].id <= lastId /\ lastId' = lastId
      <3>1. web[c] # Idle
        BY <2>2 DEF Idle, Update, Confirm, Delete
      <3> QED BY <2>2, <3>1, JobsHaveIds DEF IdsAreGiven, Done
    <2>3. ASSUME NEW id \in Ids, NEW row \in Row, cases[id] \in Row,
                 lastId' = lastId, cases' = [cases EXCEPT ![id] = row]
          PROVE  [Lifecycle!Next]_CaseStatus
      <3>1. CaseStatus' = [CaseStatus EXCEPT ![id] = row.status]
        BY <1>R, <2>3, StatusReplaced
      <3>2. /\ CaseStatus[id] \in {"draft", "active"}
            /\ row.status \in {"draft", "active"}
        BY <1>0, <1>R, <2>3
      <3>3. LifecycleMove(CaseStatus[id], row.status)
        BY <3>2 DEF LifecycleMove
      <3> QED BY <3>1, <3>3, MovesAreSteps
    <2>4. ASSUME NEW c \in Clients, web[c] \in Update,
                 cases[web[c].id] \in Row, Done(c),
                 cases' = [cases EXCEPT ![web[c].id] =
                             Updated(cases[web[c].id], c)]
          PROVE  [Lifecycle!Next]_CaseStatus
      <3>1. Updated(cases[web[c].id], c) \in Row
        BY <2>4, UpdatedRow
      <3> QED BY <2>2, <2>3, <2>4, <3>1
    <2>5. ASSUME NEW c \in Clients, web[c] \in Confirm,
                 cases[web[c].id] \in Row, Done(c),
                 cases' = [cases EXCEPT ![web[c].id] =
                             Confirmed(cases[web[c].id], c)]
          PROVE  [Lifecycle!Next]_CaseStatus
      <3>1. Confirmed(cases[web[c].id], c) \in Row
        BY <2>5, ConfirmedRow
      <3> QED BY <2>2, <2>3, <2>5, <3>1
    <2>6. ASSUME NEW c \in Clients, web[c] \in Delete, Done(c),
                 cases' = [cases EXCEPT ![web[c].id] = Absent]
          PROVE  [Lifecycle!Next]_CaseStatus
      <3>1. web[c].id \in Ids /\ web[c].id <= lastId /\ lastId' = lastId
        BY <2>2, <2>6
      <3>2. CaseStatus' = [CaseStatus EXCEPT ![web[c].id] = "deleted"]
        BY <2>6, <3>1, StatusReplaced
      <3>3. CaseStatus[web[c].id] \in {"draft", "active", "deleted"}
        <4>1. cases[web[c].id] = Absent \/ cases[web[c].id] \in Row
          BY <3>1 DEF TypeOK
        <4> QED BY <1>0, <1>R, <3>1, <4>1
      <3>4. LifecycleMove(CaseStatus[web[c].id], "deleted")
        BY <3>3 DEF LifecycleMove
      <3> QED BY <3>1, <3>2, <3>4, MovesAreSteps
    <2>7. CASE WebStep
      <3>1. cases' = cases /\ lastId' = lastId
        BY <2>7 DEF WebStep, Done, Start
      <3> QED BY <3>1 DEF CaseStatus
    <2> QED BY <2>0, <2>1, <2>4, <2>5, <2>6, <2>7 DEF RowStep
  <1> QED BY <1>1, <1>2 DEF vars

\* What other components suppose of cases, that only drafts become active and
\* what is deleted stays so, holds for any clients, columns, values and cases,
\* with ids that are never given again.
THEOREM CasesImplementTheLifecycle ==
  ASSUME ~ReuseIds
  PROVE  Spec => CasesFollowTheLifecycle
  <1>1. ValidInv /\ [Next]_vars /\ TypeOK' => ValidInv'
    BY ValidInvStep
  <1>2. ValidInv /\ [Next]_vars => [Lifecycle!Next]_CaseStatus
    BY LifecycleStep
  <1> QED
    BY <1>1, <1>2, ValidInvInit, LifecycleInit, TypeCorrect, PTL
    DEF Spec, CasesFollowTheLifecycle, Lifecycle!Spec
=============================================================================
