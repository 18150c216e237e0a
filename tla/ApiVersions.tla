----------------------------- MODULE ApiVersions -----------------------------
(***************************************************************************)
(* The versions of the API under test (rows of `api_definitions`) and the  *)
(* analyses that compare a new version with a stored one.  POST /parse     *)
(* stores a version; POST /impact/analyze compares, stores the version and *)
(* then stores the analysis.  A request reads, decides and writes in       *)
(* several statements; other requests come in between, and only            *)
(* UNIQUE(version) stops them.                                             *)
(***************************************************************************)
EXTENDS Naturals, Sequences, FiniteSetsExt, ImpactDiff

CONSTANTS
  Clients,      \* threads of the web process
  Documents,    \* parsed documents: operation id -> [hash, contract]
  Labels,       \* labels a request may name: n > 0 is "v<n>", 0 any other
  HashVersions, \* settings.swagger.hash_version of the deployments, in order
  ReuseIds,     \* the database gives the highest id again after a deletion
  MaxRequests,  \* bound: how many requests are made
  MaxFaults     \* bound: how many web threads die

ASSUME BoundsAssumption == MaxRequests \in Nat /\ MaxFaults \in Nat
ASSUME LabelsAssumption == Labels \subseteq Nat
ASSUME HashVersionsAssumption == HashVersions \in Nat \ {0}

VARIABLES
  defs,      \* the stored versions
  lastId,    \* the highest id given so far
  hv,        \* hash_version of the running deployment
  analyses,  \* the stored analyses, oldest first
  web,       \* request each web thread is in
  requests,  \* requests so far
  faults     \* faults so far

vars == <<defs, lastId, hv, analyses, web, requests, faults>>

-----------------------------------------------------------------------------
(* Types *)

AllOps == UNION {DOMAIN doc : doc \in Documents}

\* since, analysed: history: what was reported since this version was stored,
\* and whether every later one was analysed against the one before it.
Version == [id : Nat, label : Nat, hv : 1..HashVersions, ops : Documents,
            since : SUBSET AllOps, analysed : BOOLEAN]
NoVersion == [id |-> 0, label |-> 0, hv |-> 1, ops |-> [op \in {} |-> 0],
              since |-> {}, analysed |-> FALSE]

Analysis == [old : Version \cup {NoVersion}, label : Nat, ops : Documents,
             reported : SUBSET AllOps]

Idle == [pc |-> "idle"]
\* want: the requested label, {} for none; existing: the id found to replace.
Job == [pc : {"resolve", "lookup", "write", "store"},
        kind : {"parse", "analyze"}, ops : Documents, want : SUBSET Nat,
        old : Version \cup {NoVersion}, label : Nat, existing : Nat,
        reported : SUBSET AllOps]

TypeOK ==
  /\ defs \subseteq Version
  /\ \A d, e \in defs : d.id = e.id \/ d.label = e.label => d = e
  /\ lastId \in Nat
  /\ hv \in 1..HashVersions
  /\ analyses \in Seq(Analysis)
  /\ web \in [Clients -> {Idle} \cup Job]
  /\ requests \in 0..MaxRequests
  /\ faults \in 0..MaxFaults

Init ==
  /\ defs = {} /\ lastId = 0 /\ hv = 1
  /\ analyses = <<>>
  /\ web = [c \in Clients |-> Idle]
  /\ requests = 0 /\ faults = 0

-----------------------------------------------------------------------------
(* ApiDefinitionRepository *)

\* get_latest: by id, the time of creation is too coarse.
Latest == IF defs = {} THEN NoVersion
          ELSE CHOOSE d \in defs : \A e \in defs : e.id <= d.id

ByLabel(label) ==
  IF \E d \in defs : d.label = label
    THEN CHOOSE d \in defs : d.label = label
    ELSE NoVersion

\* resolve_version: the first free v<n> from the number after the latest, or
\* from 1 if the latest has no number.
AutoLabel ==
  LET first == IF Latest.label = 0 THEN 1 ELSE Latest.label + 1
      free  == {n \in first..(first + Cardinality(defs)) :
                  \A d \in defs : d.label # n}
  IN  CHOOSE n \in free : \A m \in free : n <= m

\* What a request sees of a version: not the history.
Columns(d) == [d EXCEPT !.since = {}, !.analysed = FALSE]

NewId(kept) == IF ReuseIds THEN Max({d.id : d \in kept} \cup {0}) + 1
               ELSE lastId + 1

Goto(c, pc) == web' = [web EXCEPT ![c] = [@ EXCEPT !.pc = pc]]
Done(c)     == web' = [web EXCEPT ![c] = Idle]
\* After the version: parse returns, analyze stores its result.
Proceed(c) == IF web[c].kind = "parse" THEN Done(c) ELSE Goto(c, "store")

NewJob(kind, doc, want, old, reported) ==
  [pc |-> "resolve", kind |-> kind, ops |-> doc, want |-> want, old |-> old,
   label |-> 0, existing |-> 0, reported |-> reported]

Request ==
  /\ requests < MaxRequests
  /\ requests' = requests + 1

Wants == {{}} \cup {{n} : n \in Labels}

-----------------------------------------------------------------------------
(* SwaggerService.parse_document, ImpactService.analyze *)

ParseStart(c) ==
  /\ web[c].pc = "idle"
  /\ Request
  /\ \E doc \in Documents, want \in Wants :
       web' = [web EXCEPT ![c] = NewJob("parse", doc, want, NoVersion, {})]
  /\ UNCHANGED <<defs, lastId, hv, analyses, faults>>

\* The base is the version asked for, none if that does not exist, or else the
\* latest one.
AnalyzeStart(c) ==
  /\ web[c].pc = "idle"
  /\ Request
  /\ \E doc \in Documents, want \in Wants, base \in Wants :
       LET old == IF base = {} THEN Latest
                  ELSE ByLabel(CHOOSE n \in base : TRUE)
           new == [hv |-> hv, ops |-> doc]
       IN  web' = [web EXCEPT ![c] =
                     NewJob("analyze", doc, want, Columns(old),
                            Reported(old, new))]
  /\ UNCHANGED <<defs, lastId, hv, analyses, faults>>

Label(c) == IF web[c].want = {} THEN AutoLabel
            ELSE CHOOSE n \in web[c].want : TRUE

Collides(c) ==
  /\ web[c].kind = "analyze"
  /\ web[c].old # NoVersion
  /\ web[c].old.label = Label(c)

\* Variant: without the collision guard.
ResolveAny(c) ==
  /\ web[c].pc = "resolve"
  /\ web' = [web EXCEPT ![c] =
               [@ EXCEPT !.pc = "lookup", !.label = Label(c)]]
  /\ UNCHANGED <<defs, lastId, hv, analyses, requests, faults>>

Resolve(c) ==
  /\ web[c].pc = "resolve"
  /\ ~Collides(c)
  /\ web' = [web EXCEPT ![c] =
               [@ EXCEPT !.pc = "lookup", !.label = Label(c)]]
  /\ UNCHANGED <<defs, lastId, hv, analyses, requests, faults>>

\* 409 VERSION_COLLISION: the new version would replace its own base.
Collide(c) ==
  /\ web[c].pc = "resolve"
  /\ Collides(c)
  /\ Done(c)
  /\ UNCHANGED <<defs, lastId, hv, analyses, requests, faults>>

\* upsert looks for a version of this label ...
Lookup(c) ==
  /\ web[c].pc = "lookup"
  /\ web' = [web EXCEPT ![c] =
               [@ EXCEPT !.pc = "write", !.existing = ByLabel(web[c].label).id]]
  /\ UNCHANGED <<defs, lastId, hv, analyses, requests, faults>>

\* Variant: without UNIQUE(version).
NoConflict(c) == c \notin Clients

Conflict(c) ==
  \E d \in defs : d.label = web[c].label /\ d.id # web[c].existing

SameVersion(d, e) == d.id = e.id /\ d.hv = e.hv /\ d.ops = e.ops

\* Is this the analysis of the step from the latest version to the new one?
Continues(c) == web[c].kind = "analyze" /\ SameVersion(web[c].old, Latest)

\* ... deletes the one it found and inserts the new one, in one transaction,
Write(c) ==
  /\ web[c].pc = "write"
  /\ ~Conflict(c)
  /\ LET kept == {d \in defs : d.id # web[c].existing}
     IN  defs' = {[d EXCEPT !.analysed = @ /\ Continues(c)] : d \in kept}
                 \cup {[id |-> NewId(kept), label |-> web[c].label, hv |-> hv,
                        ops |-> web[c].ops, since |-> {}, analysed |-> TRUE]}
  /\ lastId' = lastId + 1
  /\ Proceed(c)
  /\ UNCHANGED <<hv, analyses, requests, faults>>

\* or violates UNIQUE(version) and returns the version that won.
WriteLost(c) ==
  /\ web[c].pc = "write"
  /\ Conflict(c)
  /\ Proceed(c)
  /\ UNCHANGED <<defs, lastId, hv, analyses, requests, faults>>

\* The analysis is a transaction of its own.
Store(c) ==
  /\ web[c].pc = "store"
  /\ analyses' = Append(analyses,
       [old |-> web[c].old, label |-> web[c].label, ops |-> web[c].ops,
        reported |-> web[c].reported])
  /\ defs' = {[d EXCEPT !.since = @ \cup web[c].reported] : d \in defs}
  /\ Done(c)
  /\ UNCHANGED <<lastId, hv, requests, faults>>

-----------------------------------------------------------------------------
(* Environment *)

\* The web process dies.  A version whose analysis was about to be stored
\* stays, and nobody will compare it with the one before.
Crash(c) ==
  /\ web[c].pc # "idle"
  /\ faults < MaxFaults
  /\ faults' = faults + 1
  /\ defs' = {[d EXCEPT !.analysed = @ /\ web[c].pc # "store"] : d \in defs}
  /\ Done(c)
  /\ UNCHANGED <<lastId, hv, analyses, requests>>

\* A deployment with a new hash algorithm starts.
Upgrade ==
  /\ hv < HashVersions
  /\ \A c \in Clients : web[c].pc = "idle"
  /\ hv' = hv + 1
  /\ UNCHANGED <<defs, lastId, analyses, web, requests, faults>>

Next ==
  \/ \E c \in Clients :
       \/ ParseStart(c) \/ AnalyzeStart(c)
       \/ Resolve(c) \/ Collide(c) \/ Lookup(c)
       \/ Write(c) \/ WriteLost(c) \/ Store(c)
       \/ Crash(c)
  \/ Upgrade

Spec == Init /\ [][Next]_vars

-----------------------------------------------------------------------------
(* Properties *)

\* As long as every new version is analysed against the latest one, an
\* operation that is broken or gone in the latest version, compared with any
\* version still stored, was reported since that version was stored: no case
\* that needs another run is missed by comparing neighbours only.
NoBreakIsMissed ==
  (\A c \in Clients : web[c].pc # "store") =>
    \A d \in defs : d.analysed => Reported(d, Latest) \subseteq d.since

\* An analysis never replaces the version it was made against, although others
\* store and replace versions between its look at the base and its write.
KeepsItsBaseline ==
  [][\A c \in Clients :
       web[c] # web'[c] /\ web[c].pc = "write" /\ web[c].kind = "analyze" =>
         \A d \in defs : SameVersion(d, web[c].old) =>
           \E e \in defs' : SameVersion(d, e)]_vars
=============================================================================
