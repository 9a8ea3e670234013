----------------------------- MODULE Recruitment ----------------------------
(***************************************************************************)
(* Candidates: recruitmentCreateCandidate, recruitmentBulkImport and       *)
(* recruitmentSearch.                                                      *)
(*                                                                         *)
(* A creation is one transaction.  An import goes through its candidates   *)
(* one by one, and the statements of each commit on their own, under one   *)
(* context of sixty seconds for the whole import.  Phone and id number are *)
(* encrypted with a fresh nonce before they are compared and stored.  A    *)
(* text that is encrypted stands for its length, zero for none.            *)
(***************************************************************************)
EXTENDS Scoring, Sequences, FiniteSets

CONSTANTS
  Creates,       \* calls of POST /recruitment/candidates
  Imports,       \* calls of POST /recruitment/bulk
  Searches,      \* calls of GET /recruitment/search
  Institutions,  \* values of scope.InstitutionID
  Persons,       \* candidates in a request body
  Targets,       \* skill and education that a search asks for
  MaxRows,       \* bound on the candidates of an import
  Faults         \* may statements fail or time out and the process crash?

ASSUME ConstantsAssumption ==
  /\ Creates \cap Imports = {} /\ Creates \cap Searches = {} /\ Imports \cap Searches = {}
  /\ MaxRows \in Nat \ {0}
  /\ \A p \in Persons :
       /\ p.named \in BOOLEAN
       /\ p.phone \in Nat /\ p.id \in Nat /\ p.experienceYears \in Int
  /\ Faults \in BOOLEAN

VARIABLES
  inst,     \* call -> institution of its caller
  people,   \* call -> the candidates in its body
  target,   \* search -> what it asks for
  pc,       \* call -> where its handler stands
  at,       \* import -> index of the candidate it is at
  outcome,  \* import -> what became of each candidate so far
  expired,  \* imports whose context is over
  rows,     \* candidates in the table, each <<call, index in its body>>
  profile,  \* candidate -> education, experience_years and skills_json
  late,     \* INSERTs of imports under way that nobody waits for
  trail,    \* how many rows of audit_records hold each record
  reply,    \* call -> status code it answered, or "none"
  shown,    \* search -> its results
  delayed   \* history: candidates inserted by a statement of late

vars == <<inst, people, target, pc, at, outcome, expired, rows, profile, late, trail, reply,
          shown, delayed>>
given == <<inst, people, target>>
table == <<rows, profile, late, delayed>>
imports == <<at, outcome, expired>>

Calls == Creates \cup Imports \cup Searches
Bodies == UNION {[1 .. n -> Persons] : n \in 1 .. MaxRows}
Candidates == (Creates \cup Imports) \X (1 .. MaxRows)
InFlight == {c \in Calls : pc[c] \notin {"idle", "done"}}

Body(b) == people[b[1]][b[2]]
Count(j, what) == Cardinality({i \in DOMAIN outcome[j] : outcome[j][i] = what})

Records ==
  [by : Imports, action : {"BULK_IMPORT"}, created : 1 .. MaxRows, duplicates : 0 .. MaxRows]
  \cup [by : Creates, action : {"CREATE", "MERGE_UPDATE"}]

TypeOK ==
  /\ inst \in [Calls -> Institutions]
  /\ people \in [Creates \cup Imports -> Bodies]
  /\ target \in [Searches -> Targets]
  /\ pc \in [Calls -> {"idle", "query", "insert", "merge", "audit", "done"}]
  /\ at \in [Imports -> 1 .. MaxRows + 1]
  /\ \A j \in Imports :
       /\ DOMAIN outcome[j] = 1 .. at[j] - 1
       /\ \A i \in DOMAIN outcome[j] : outcome[j][i] \in {"created", "duplicate", "error"}
  /\ expired \subseteq Imports
  /\ rows \subseteq Candidates
  /\ \A b \in rows :
       /\ profile[b].experienceYears \in {p.experienceYears : p \in Persons}
       /\ profile[b].skills \subseteq UNION {p.skills : p \in Persons}
  /\ late \subseteq Imports \X (1 .. MaxRows)
  /\ trail \in [Records -> Nat]
  /\ reply \in [Calls -> {"none", "200", "201", "500"}]
  /\ delayed \subseteq rows

Init ==
  /\ inst \in [Calls -> Institutions]
  /\ people \in [Creates \cup Imports -> Bodies]
  /\ \A c \in Creates : Len(people[c]) = 1 /\ people[c][1].named
  /\ target \in [Searches -> Targets]
  /\ pc = [c \in Calls |-> "idle"]
  /\ at = [j \in Imports |-> 1]
  /\ outcome = [j \in Imports |-> <<>>]
  /\ expired = {}
  /\ rows = {}
  /\ profile = [b \in Candidates |-> <<>>]
  /\ late = {}
  /\ trail = [rec \in Records |-> 0]
  /\ reply = [c \in Calls |-> "none"]
  /\ shown = [v \in Searches |-> {}]
  /\ delayed = {}

Goto(c, step) == pc' = [pc EXCEPT ![c] = step]
Answer(c, code) == Goto(c, "done") /\ reply' = [reply EXCEPT ![c] = code]

\* Each row of audit_records has an id of its own, so nothing keeps a record from
\* being there twice.
AppendAudit(rec) == trail' = [trail EXCEPT ![rec] = @ + 1]

-----------------------------------------------------------------------------
\* encryptData and the two duplicate queries

\* What is sealed for the candidate b: the text and a nonce drawn for b alone,
\* so no two candidates have equal ciphertexts; an empty text stays empty.
Seal(b, text) == IF text = 0 THEN <<>> ELSE <<text, b>>

\* Length of the base64 form of nonce, text and tag.
SealedLength(text) == IF text = 0 THEN 0 ELSE 4 * ((12 + text + 16 + 2) \div 3)

\* candidates.phone and candidates.id_number
Fits(b) == SealedLength(Body(b).phone) <= 32 /\ SealedLength(Body(b).id) <= 64

Same(b, d, column) ==
  Body(b)[column] # 0 /\ Seal(b, Body(b)[column]) = Seal(d, Body(d)[column])

\* WHERE institution_id = ? AND phone = ?, or id_number = ?
Found(b) ==
  {d \in rows : inst[d[1]] = inst[b[1]] /\ (Same(b, d, "phone") \/ Same(b, d, "id"))}

Profile(b) ==
  [education |-> Body(b).education, experienceYears |-> Body(b).experienceYears,
   skills |-> Body(b).skills]

Inserted(b) == rows' = rows \cup {b} /\ profile' = [profile EXCEPT ![b] = Profile(b)]

-----------------------------------------------------------------------------
\* POST /recruitment/candidates

\* The INSERT names eleven columns and has twelve values.
Columns == 11
Placeholders == 12

\* BeginTx and the duplicate queries; a failing query finds nothing.
QueryCreate(c) ==
  /\ c \in Creates /\ pc[c] = "idle"
  /\ \/ Goto(c, IF Found(<<c, 1>>) = {} THEN "insert" ELSE "merge")
     \/ Faults /\ Goto(c, "insert")
  /\ UNCHANGED <<given, table, imports, trail, reply, shown>>

\* Education and experience are replaced, the skills united.  Only the error of
\* the commit is looked at; the record is appended, or lost, before it.
MergeCreate(c) ==
  /\ \/ \E d \in Found(<<c, 1>>) :
          /\ profile' = [profile EXCEPT ![d] = [Profile(<<c, 1>>) EXCEPT !.skills =
                                                  @ \cup profile[d].skills]]
          /\ Answer(c, "200")
     \/ Faults /\ UNCHANGED profile /\ \E code \in {"200", "500"} : Answer(c, code)
  /\ \/ AppendAudit([by |-> c, action |-> "MERGE_UPDATE"])
     \/ Faults /\ UNCHANGED trail
  /\ UNCHANGED <<rows, late, delayed>>

\* INSERT, commit and audit record, or the rollback.
InsertCreate(c) ==
  \/ /\ Columns = Placeholders /\ Fits(<<c, 1>>)
     /\ Inserted(<<c, 1>>)
     /\ AppendAudit([by |-> c, action |-> "CREATE"]) \/ (Faults /\ UNCHANGED trail)
     /\ Answer(c, "201")
     /\ UNCHANGED <<late, delayed>>
  \/ /\ Columns # Placeholders \/ ~ Fits(<<c, 1>>) \/ Faults
     /\ Answer(c, "500")
     /\ UNCHANGED <<table, trail>>

FinishCreate(c) ==
  /\ c \in Creates /\ pc[c] \in {"insert", "merge"}
  /\ IF pc[c] = "merge" THEN MergeCreate(c) ELSE InsertCreate(c)
  /\ UNCHANGED <<given, imports, shown>>

-----------------------------------------------------------------------------
\* POST /recruitment/bulk

Current(j) == <<j, at[j]>>

StartImport(j) ==
  /\ j \in Imports /\ pc[j] = "idle"
  /\ Goto(j, "query")
  /\ UNCHANGED <<given, imports, table, trail, reply, shown>>

\* Mutant: the error of a candidate is left out of the answer.
RecordNoErrors(j, what) ==
  /\ outcome' = IF what = "error" THEN outcome ELSE [outcome EXCEPT ![j] = Append(@, what)]
  /\ at' = [at EXCEPT ![j] = @ + 1]
  /\ Goto(j, "query")

\* The loop goes on to the next candidate.
Record(j, what) ==
  /\ outcome' = [outcome EXCEPT ![j] = Append(@, what)]
  /\ at' = [at EXCEPT ![j] = @ + 1]
  /\ Goto(j, "query")

AtCandidate(j) == j \in Imports /\ pc[j] = "query" /\ at[j] <= Len(people[j])

SkipUnnamed(j) ==
  /\ AtCandidate(j)
  /\ ~ Body(Current(j)).named
  /\ Record(j, "error")
  /\ UNCHANGED <<given, expired, table, trail, reply, shown>>

\* The errors of the two queries are dropped: nothing found.
QueryImport(j) ==
  /\ AtCandidate(j)
  /\ Body(Current(j)).named
  /\ IF Found(Current(j)) # {} /\ j \notin expired
     THEN Record(j, "duplicate")
     ELSE Goto(j, "insert") /\ UNCHANGED <<at, outcome>>
  /\ UNCHANGED <<given, expired, table, trail, reply, shown>>

InsertImport(j) ==
  /\ j \in Imports /\ pc[j] = "insert"
  /\ j \notin expired /\ Fits(Current(j))
  /\ Inserted(Current(j))
  /\ Record(j, "created")
  /\ UNCHANGED <<given, expired, late, delayed, trail, reply, shown>>

\* Mutant: a failed INSERT is retried at once instead of being recorded.
InsertImportRetried(j) ==
  /\ j \in Imports /\ pc[j] = "insert"
  /\ j \in expired \/ ~ Fits(Current(j)) \/ Faults
  /\ Goto(j, "query")
  /\ UNCHANGED <<given, imports, table, trail, reply, shown>>

\* Mutant: the error of the INSERT is not looked at.
InsertImportIgnored(j) ==
  /\ j \in Imports /\ pc[j] = "insert"
  /\ j \in expired \/ ~ Fits(Current(j)) \/ Faults
  /\ Record(j, "created")
  /\ UNCHANGED <<given, expired, table, trail, reply, shown>>

\* A ciphertext is too long for its column, the context is over, or the
\* statement failed: the error goes into the answer, and the loop goes on.
InsertImportFails(j) ==
  /\ j \in Imports /\ pc[j] = "insert"
  /\ j \in expired \/ ~ Fits(Current(j)) \/ Faults
  /\ Record(j, "error")
  /\ UNCHANGED <<given, expired, table, trail, reply, shown>>

\* The sixty seconds are over, or the client has gone, between statements ...
ContextExpires(j) ==
  /\ Faults
  /\ pc[j] = "query" /\ j \notin expired
  /\ expired' = expired \cup {j}
  /\ UNCHANGED <<given, pc, at, outcome, table, trail, reply, shown>>

\* ... or while an INSERT is under way, or the connection breaks under it: the
\* INSERT may have its effect all the same.
InsertImportUnanswered(j) ==
  /\ Faults
  /\ j \in Imports /\ pc[j] = "insert"
  /\ j \notin expired /\ Fits(Current(j))
  /\ expired' \in {expired, expired \cup {j}}
  /\ late' = late \cup {Current(j)}
  /\ Record(j, "error")
  /\ UNCHANGED <<given, rows, profile, delayed, trail, reply, shown>>

CommitLate(b) ==
  /\ b \in late
  /\ late' = late \ {b}
  /\ Inserted(b)
  /\ delayed' = delayed \cup {b}
  /\ UNCHANGED <<given, pc, imports, trail, reply, shown>>

\* The loop is over; with nothing created there is no audit record.
FinishImport(j) ==
  /\ j \in Imports /\ pc[j] = "query" /\ at[j] > Len(people[j])
  /\ IF Count(j, "created") > 0 THEN Goto(j, "audit") /\ UNCHANGED reply
                                ELSE Answer(j, "200")
  /\ UNCHANGED <<given, imports, table, trail, shown>>

AuditRecord(j) ==
  [by |-> j, action |-> "BULK_IMPORT",
   created |-> Count(j, "created"), duplicates |-> Count(j, "duplicate")]

\* Mutant: a record whose INSERT got no answer is appended once more.
AuditImportRetried(j) ==
  /\ pc[j] = "audit"
  /\ AppendAudit(AuditRecord(j))
  /\ Answer(j, "200") \/ (Faults /\ trail[AuditRecord(j)] = 0 /\ UNCHANGED <<pc, reply>>)
  /\ UNCHANGED <<given, imports, table, shown>>

\* _ = store.AppendAudit(auditRec): appended, or lost.
AuditImport(j) ==
  /\ pc[j] = "audit"
  /\ AppendAudit(AuditRecord(j)) \/ (Faults /\ UNCHANGED trail)
  /\ Answer(j, "200")
  /\ UNCHANGED <<given, imports, table, shown>>

-----------------------------------------------------------------------------
\* GET /recruitment/search without a keyword, over fewer candidates of the
\* institution than its LIMIT.

Hit(b, v) ==
  LET p == profile[b]
      t == target[v]
  IN  [who     |-> b,
       score   |-> Score(p.experienceYears, p.education, p.skills, t.skill, t.education),
       reasons |-> Reasons(p.experienceYears, p.education, p.skills, t.skill, t.education)]

Own(v) == {b \in rows : inst[b[1]] = inst[v]}

\* rows.Err() is not looked at, so a loop over the rows that breaks off answers
\* with those it has read.
Search(v) ==
  /\ v \in Searches /\ pc[v] = "idle"
  /\ \/ /\ \E read \in (IF Faults THEN SUBSET Own(v) ELSE {Own(v)}) :
             shown' = [shown EXCEPT ![v] = {Hit(b, v) : b \in read}]
        /\ Answer(v, "200")
     \/ Faults /\ UNCHANGED shown /\ Answer(v, "500")
  /\ UNCHANGED <<given, imports, table, trail>>

-----------------------------------------------------------------------------
Crash ==
  /\ Faults
  /\ InFlight # {}
  /\ pc' = [c \in Calls |-> IF c \in InFlight THEN "done" ELSE pc[c]]
  /\ late' = late \cup {Current(j) : j \in {i \in Imports \ expired :
                                              pc[i] = "insert" /\ Fits(Current(i))}}
  /\ UNCHANGED <<given, imports, rows, profile, delayed, trail, reply, shown>>

Handle(c) ==
  \/ QueryCreate(c) \/ FinishCreate(c)
  \/ StartImport(c) \/ SkipUnnamed(c) \/ QueryImport(c) \/ InsertImport(c)
  \/ InsertImportFails(c) \/ InsertImportUnanswered(c) \/ FinishImport(c) \/ AuditImport(c)
  \/ Search(c)

Next ==
  \/ Crash
  \/ \E c \in Calls : Handle(c)
  \/ \E j \in Imports : ContextExpires(j)
  \/ \E b \in late : CommitLate(b)

Spec == Init /\ [][Next]_vars

\* An import that was received has a context of sixty seconds, and its handler
\* is scheduled.
Fairness == \A j \in Imports : WF_vars(pc[j] # "idle" /\ Handle(j))
FairSpec == Spec /\ Fairness

-----------------------------------------------------------------------------
\* What an import answers is true: a candidate counted as created is in the
\* table, one counted otherwise is not, unless its INSERT outlived the import's
\* context, and an answer accounts for every candidate of the body; this holds of
\* an import that was cut short as far as it came.
ImportAccounted ==
  \A j \in Imports :
    /\ \A i \in DOMAIN outcome[j] :
         /\ outcome[j][i] = "created" => <<j, i>> \in rows \ delayed
         /\ <<j, i>> \in rows /\ outcome[j][i] # "created" => <<j, i>> \in delayed
    /\ \A i \in 1 .. MaxRows : <<j, i>> \in rows \ delayed => i \in DOMAIN outcome[j]
    /\ reply[j] = "200" => Len(outcome[j]) = Len(people[j])

Audited == {rec \in Records : trail[rec] > 0}

\* The trail is true: no import and no creation is audited twice, and the number
\* an import is audited with is the number of candidates it put into the table,
\* save those whose INSERT outlived its context.
AuditTrue ==
  \A rec \in Audited :
    /\ trail[rec] = 1
    /\ \A other \in Audited : other.by = rec.by => other = rec
    /\ rec.action = "BULK_IMPORT" =>
         rec.created = Cardinality({b \in rows \ delayed : b[1] = rec.by})

\* A search shows candidates of the caller's institution, each with a score that
\* its reasons add up to and between 0 and 100.
SearchExplained ==
  \A v \in Searches : \A hit \in shown[v] :
    /\ hit.who \in rows /\ inst[hit.who[1]] = inst[v]
    /\ hit.score \in 0 .. 100 /\ hit.score = Explained(hit.reasons)

\* An import that was received is answered, or its process died.
ImportsEnd == \A j \in Imports : pc[j] # "idle" ~> pc[j] = "done"

\* What the README promises: no two candidates of an institution share a phone
\* or an id number, and what api-spec.md does of a repeated import.
Deduplicated ==
  \A b, d \in rows :
    inst[b[1]] = inst[d[1]] /\ b # d =>
      /\ Body(b).id = 0 \/ Body(b).id # Body(d).id
      /\ Body(b).phone = 0 \/ Body(b).phone # Body(d).phone

\* What the README promises of a creation: a new candidate is stored.
CreationStores == \A c \in Creates : ~ Faults /\ pc[c] = "done" => reply[c] \in {"200", "201"}
=============================================================================
