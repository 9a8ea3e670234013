-------------------------------- MODULE Tags --------------------------------
(***************************************************************************)
(* Tags and their assignment to candidates and cases: tagCreate,           *)
(* tagDelete, tagAssign and what tagGetByEntity shows.                     *)
(*                                                                         *)
(* tagAssign is the one handler that changes several rows in a             *)
(* transaction: it deletes the rows of the entity and inserts the tags of  *)
(* the body one by one.  InnoDB runs it under REPEATABLE READ, so the      *)
(* DELETE locks the rows it removes and the gap they lie in; gap locks do  *)
(* not exclude one another, they keep INSERTs out.  The gap may take in    *)
(* entities next to it in the index.  A tag is named by the call that      *)
(* created it.  candidate_tags and case_tags are alike: the module has one *)
(* of them, and the callers are of one institution.                        *)
(***************************************************************************)
EXTENDS Naturals, Sequences, FiniteSets

CONSTANTS
  Tags,      \* calls of POST /tags, each the id of the tag it creates
  Names,     \* values of name
  Entities,  \* values of entityId
  Assigns,   \* calls of POST /tags/assign
  MaxTags    \* bound on the length of tagIds

ASSUME ConstantsAssumption == MaxTags \in Nat

VARIABLES
  name,      \* tag -> the name in its body
  task,      \* assignment -> its entity and tagIds
  tags,      \* tags with a row in table tags
  created,   \* tags whose POST was answered, 201 or 500
  rows,      \* committed rows of candidate_tags
  pc,        \* assignment -> where its handler stands
  inserted,  \* assignment -> how many of its tagIds it has inserted
  deleted,   \* assignment -> rows its DELETE removed
  gap,       \* assignment -> entities whose INSERTs its gap lock keeps out
  reply,     \* assignment -> status code it answered, or "none"
  last       \* history: entity -> tagIds of its last assignment to commit

vars == <<name, task, tags, created, rows, pc, inserted, deleted, gap, reply, last>>
given == <<name, task>>
tagTable == <<tags, created>>

TagIds == UNION {[1 .. n -> Tags] : n \in 0 .. MaxTags}
Injective(ids) == \A i, j \in DOMAIN ids : ids[i] = ids[j] => i = j

Open == {a \in Assigns : pc[a] \in {"insert", "commit"}}

RowsOf(e) == {row \in rows : row[1] = e}

\* The rows the transaction of a has inserted so far.
Added(a) == {<<task[a].entity, task[a].ids[i]>> : i \in 1 .. inserted[a]}

TypeOK ==
  /\ name \in [Tags -> Names]
  /\ task \in [Assigns -> [entity : Entities, ids : TagIds]]
  /\ tags \subseteq created /\ created \subseteq Tags
  /\ rows \subseteq Entities \X Tags
  /\ pc \in [Assigns -> {"idle", "delete", "insert", "commit", "done"}]
  /\ inserted \in [Assigns -> 0 .. MaxTags]
  /\ deleted \in [Assigns -> SUBSET (Entities \X Tags)]
  /\ gap \in [Assigns -> SUBSET Entities]
  /\ reply \in [Assigns -> {"none", "200", "500"}]
  /\ last \in [Entities -> TagIds]

\* The entities start with what earlier assignments left them.
Init ==
  /\ name \in [Tags -> Names]
  /\ task \in [Assigns -> [entity : Entities, ids : TagIds]]
  /\ tags = {}
  /\ created = {}
  /\ last \in [Entities -> {ids \in TagIds : Injective(ids)}]
  /\ rows = {row \in Entities \X Tags : \E i \in DOMAIN last[row[1]] : last[row[1]][i] = row[2]}
  /\ pc = [a \in Assigns |-> "idle"]
  /\ inserted = [a \in Assigns |-> 0]
  /\ deleted = [a \in Assigns |-> {}]
  /\ gap = [a \in Assigns |-> {}]
  /\ reply = [a \in Assigns |-> "none"]

-----------------------------------------------------------------------------
\* POST /tags: unique_tag_name refuses a second tag of that name.
CreateTag(t) ==
  /\ t \notin created
  /\ created' = created \cup {t}
  /\ tags' = IF \E u \in tags : name[u] = name[t] THEN tags ELSE tags \cup {t}
  /\ UNCHANGED <<given, rows, pc, inserted, deleted, gap, reply, last>>

\* DELETE /tags/:id removes the tag and leaves the rows that name it.
DeleteTag(t) ==
  /\ tags' = tags \ {t}
  /\ t \in tags
  /\ UNCHANGED <<given, created, rows, pc, inserted, deleted, gap, reply, last>>

-----------------------------------------------------------------------------
\* POST /tags/assign.

Goto(a, step) == pc' = [pc EXCEPT ![a] = step]

NextStep(a, n) == IF n < Len(task[a].ids) THEN "insert" ELSE "commit"

\* The transaction of b holds locks on rows of a's entity, or on the gap that
\* a's next row goes to.
WaitsFor(a, b) ==
  LET e == task[a].entity
  IN  /\ a # b /\ b \in Open
      /\ \/ pc[a] = "delete" /\ \E row \in deleted[b] \cup Added(b) : row[1] = e
         \/ pc[a] = "insert" /\ e \in gap[b]

Blocked(a) == \E b \in Assigns : WaitsFor(a, b)

BeginTx(a) ==
  /\ pc[a] = "idle"
  /\ Goto(a, "delete")
  /\ UNCHANGED <<given, tagTable, rows, inserted, deleted, gap, reply, last>>

\* Mutant: the statements run on the pool and commit one by one.
DeleteRowsAutocommits(a) ==
  /\ pc[a] = "delete"
  /\ ~ Blocked(a)
  /\ rows' = rows \ RowsOf(task[a].entity)
  /\ Goto(a, NextStep(a, 0))
  /\ UNCHANGED <<given, tagTable, inserted, deleted, gap, reply, last>>

\* DELETE FROM candidate_tags WHERE candidate_id = ?
DeleteRows(a) ==
  /\ pc[a] = "delete"
  /\ ~ Blocked(a)
  /\ deleted' = [deleted EXCEPT ![a] = RowsOf(task[a].entity)]
  /\ \E neighbours \in SUBSET Entities :
       gap' = [gap EXCEPT ![a] = neighbours \cup {task[a].entity}]
  /\ Goto(a, NextStep(a, 0))
  /\ UNCHANGED <<given, tagTable, rows, inserted, reply, last>>

\* The row is there, left by the DELETE or inserted by this call: tagIds repeats.
DuplicateKey(a) ==
  <<task[a].entity, task[a].ids[inserted[a] + 1]>>
    \in (rows \ deleted[a]) \cup Added(a)

InsertTag(a) ==
  /\ pc[a] = "insert"
  /\ ~ Blocked(a)
  /\ ~ DuplicateKey(a)
  /\ inserted' = [inserted EXCEPT ![a] = @ + 1]
  /\ Goto(a, NextStep(a, inserted[a] + 1))
  /\ UNCHANGED <<given, tagTable, rows, deleted, gap, reply, last>>

\* The locks go with the transaction; what it wrote is undone.
Rollback(a) ==
  /\ inserted' = [inserted EXCEPT ![a] = 0]
  /\ deleted' = [deleted EXCEPT ![a] = {}]
  /\ gap' = [gap EXCEPT ![a] = {}]
  /\ UNCHANGED <<given, tagTable, rows, last>>

\* defer tx.Rollback() after a statement that failed on a duplicate key.
InsertTagFails(a) ==
  /\ pc[a] = "insert"
  /\ DuplicateKey(a) /\ ~ Blocked(a)
  /\ Rollback(a)
  /\ Goto(a, "done")
  /\ reply' = [reply EXCEPT ![a] = "500"]

\* Mutant: a transaction that InnoDB refused is begun again, with no limit.
LosesWaitRetries(a) ==
  /\ Blocked(a)
  /\ Rollback(a)
  /\ Goto(a, "delete")
  /\ UNCHANGED reply

\* InnoDB ends the wait with an error, as the victim of a deadlock or after
\* innodb_lock_wait_timeout, and the handler answers.
LosesWait(a) ==
  /\ Blocked(a)
  /\ Rollback(a)
  /\ Goto(a, "done")
  /\ reply' = [reply EXCEPT ![a] = "500"]

Apply(a) ==
  /\ rows' = (rows \ deleted[a]) \cup Added(a)
  /\ last' = [last EXCEPT ![task[a].entity] = task[a].ids]
  /\ inserted' = [inserted EXCEPT ![a] = 0]
  /\ deleted' = [deleted EXCEPT ![a] = {}]
  /\ gap' = [gap EXCEPT ![a] = {}]
  /\ UNCHANGED <<given, tagTable>>

Commit(a) ==
  /\ pc[a] = "commit"
  /\ Apply(a)
  /\ Goto(a, "done")
  /\ reply' = [reply EXCEPT ![a] = "200"]

\* The client hangs up, which cancels the context, the connection to MySQL
\* breaks, or the process dies: the transaction is rolled back, or a COMMIT that
\* was sent takes effect.
Break(a) ==
  /\ pc[a] \in {"delete", "insert", "commit"}
  /\ Rollback(a) \/ (pc[a] = "commit" /\ Apply(a))
  /\ Goto(a, "done")
  /\ reply' \in {reply, [reply EXCEPT ![a] = "500"]}

-----------------------------------------------------------------------------
Handle(a) ==
  \/ BeginTx(a) \/ DeleteRows(a) \/ InsertTag(a) \/ InsertTagFails(a) \/ LosesWait(a) \/ Commit(a)

Next ==
  \/ \E t \in Tags : CreateTag(t) \/ DeleteTag(t)
  \/ \E a \in Assigns : Handle(a) \/ Break(a)

Spec == Init /\ [][Next]_vars

\* The database goes on with a transaction that can go on, and does not leave
\* one waiting for ever.
Fairness == \A a \in Assigns : WF_vars(pc[a] # "idle" /\ Handle(a))

FairSpec == Spec /\ Fairness

-----------------------------------------------------------------------------
\* tagGetByEntity: the join with the tags that still exist.
Shown(e) == {t \in tags : <<e, t>> \in rows}

\* An entity has the tags of the last assignment that committed, all of them and
\* no other, however assignments overlap, repeat a tag, lose a deadlock or are
\* broken off.
AssignedWhole ==
  \A e \in Entities :
    {row[2] : row \in RowsOf(e)} = {last[e][i] : i \in DOMAIN last[e]}

\* The tags shown of an entity change only when an assignment of it ends, or for
\* tags created or deleted: no reader that comes to the last row meets it half
\* assigned.
ChangesAtOnce ==
  [][\A e \in Entities : Shown(e)' # Shown(e) =>
       \/ tags' # tags
       \/ \E a \in Assigns : task[a].entity = e /\ pc[a] # "done" /\ pc'[a] = "done"]_vars

\* An assignment that was received ends, although two of them may each wait for
\* the gap the other has locked.
AssignmentsEnd == \A a \in Assigns : pc[a] # "idle" ~> pc[a] = "done"
=============================================================================
