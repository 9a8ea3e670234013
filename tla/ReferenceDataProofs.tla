------------------------- MODULE ReferenceDataProofs -------------------------
(***************************************************************************)
(* Proofs about the small tables recruiters keep beside their cases: Tags, *)
(* for any number of tags, entities and assignments and any length of      *)
(* tagIds, and Positions, for any number of calls, institutions and        *)
(* entries, any limit of a list and any run of the clock.                  *)
(***************************************************************************)
EXTENDS Tags, Positions, FiniteSetTheorems, TLAPS

\* A list of tagIds is a sequence of tags no longer than the bound.
LEMMA TagIdsType ==
  ASSUME NEW ids \in TagIds
  PROVE  /\ Len(ids) \in 0 .. MaxTags /\ Len(ids) \in Nat
         /\ DOMAIN ids = 1 .. Len(ids)
         /\ \A i \in 1 .. Len(ids) : ids[i] \in Tags
<1>1. PICK n \in 0 .. MaxTags : ids \in [1 .. n -> Tags]
  BY DEF TagIds
<1>2. n \in Nat
  BY <1>1, ConstantsAssumption
<1>3. ids \in Seq(Tags) /\ Len(ids) = n /\ DOMAIN ids = 1 .. n
  BY <1>1, <1>2
<1> QED BY <1>1, <1>2, <1>3

-----------------------------------------------------------------------------
\* The transactions in the invariant.  An open transaction has deleted all rows
\* of its entity and keeps the gap locked; what it has inserted are the first of
\* its tagIds.  Two open transactions of one entity exclude each other: neither
\* has deleted or inserted anything.
OpenHoldsEntity ==
  \A a \in Open :
    /\ deleted[a] = RowsOf(task[a].entity)
    /\ task[a].entity \in gap[a]

OpenExcludes ==
  \A a, b \in Open :
    a # b /\ task[a].entity = task[b].entity => deleted[a] = {} /\ inserted[a] = 0

Progress ==
  \A a \in Assigns :
    /\ pc[a] \in {"idle", "delete", "done"} => inserted[a] = 0
    /\ pc[a] = "insert" => inserted[a] < Len(task[a].ids)
    /\ pc[a] = "commit" => inserted[a] = Len(task[a].ids)

RowsAreLast ==
  \A e \in Entities : \A t \in Tags :
    <<e, t>> \in rows <=> \E i \in DOMAIN last[e] : last[e][i] = t

TagsInv == TypeOK /\ OpenHoldsEntity /\ OpenExcludes /\ Progress /\ RowsAreLast

\* The invariant holds of what earlier assignments left.
LEMMA TagsInit == Init => TagsInv
<1> SUFFICES ASSUME Init PROVE TagsInv
  OBVIOUS
<1>1. TypeOK
  BY ConstantsAssumption DEF Init, TypeOK
<1>2. RowsAreLast
  BY DEF Init, RowsAreLast
<1> QED BY <1>1, <1>2 DEF Init, TagsInv, OpenHoldsEntity, OpenExcludes, Progress, Open

\* The rows of one entity are not those of another.
LEMMA RowsOfMember ==
  ASSUME NEW e, NEW r
  PROVE  r \in RowsOf(e) <=> r \in rows /\ r[1] = e
  BY DEF RowsOf

\* The locks keep the invariant when a transaction ends without effect.
LEMMA RollbackKeeps ==
  ASSUME TagsInv, NEW a \in Assigns, Rollback(a), pc' = [pc EXCEPT ![a] = "done"],
         reply' \in [Assigns -> {"none", "200", "500"}]
  PROVE  TagsInv'
<1> USE DEF TagsInv, Rollback, TypeOK, given, tagTable
<1>1. TypeOK'
  <2>1. /\ inserted' \in [Assigns -> 0 .. MaxTags]
        /\ deleted' \in [Assigns -> SUBSET (Entities \X Tags)]
        /\ gap' \in [Assigns -> SUBSET Entities]
    BY ConstantsAssumption
  <2>2. pc' \in [Assigns -> {"idle", "delete", "insert", "commit", "done"}]
    OBVIOUS
  <2>3. UNCHANGED <<name, task, tags, created, rows, last>>
    OBVIOUS
  <2> QED BY <2>1, <2>2, <2>3
<1>2. Open' = Open \ {a}
  BY DEF Open
<1>3. OpenHoldsEntity'
  BY <1>2 DEF OpenHoldsEntity, RowsOf, Open
<1>4. OpenExcludes'
  BY <1>2 DEF OpenExcludes, Open
<1>5. Progress'
  BY DEF Progress
<1>6. RowsAreLast'
  BY DEF RowsAreLast
<1> QED BY <1>1, <1>3, <1>4, <1>5, <1>6

\* What an assignment that commits leaves: its tags and no other.
LEMMA ApplyKeeps ==
  ASSUME TagsInv, NEW a \in Assigns, pc[a] = "commit", Apply(a),
         pc' = [pc EXCEPT ![a] = "done"],
         reply' \in [Assigns -> {"none", "200", "500"}]
  PROVE  TagsInv'
<1> DEFINE e == task[a].entity
           ids == task[a].ids
<1> USE DEF TagsInv, Apply, given, tagTable
<1>1. ids \in TagIds /\ e \in Entities /\ a \in Open
  BY DEF TypeOK, Open
<1>2. inserted[a] = Len(ids) /\ DOMAIN ids = 1 .. Len(ids) /\ Len(ids) \in Nat
      /\ \A i \in 1 .. Len(ids) : ids[i] \in Tags
  BY <1>1, TagIdsType DEF Progress
<1>3. Added(a) = {<<e, ids[i]>> : i \in 1 .. Len(ids)}
  BY <1>2 DEF Added
<1>4. deleted[a] = RowsOf(e)
  BY <1>1 DEF OpenHoldsEntity
<1>5. rows' = (rows \ RowsOf(e)) \cup Added(a)
  BY <1>4
<1>6. TypeOK'
  <2>1. Added(a) \subseteq Entities \X Tags
    BY <1>1, <1>2, <1>3
  <2>2. rows' \subseteq Entities \X Tags
    BY <1>5, <2>1 DEF TypeOK
  <2>3. last' \in [Entities -> TagIds]
    BY <1>1 DEF TypeOK
  <2>4. /\ inserted' \in [Assigns -> 0 .. MaxTags]
        /\ deleted' \in [Assigns -> SUBSET (Entities \X Tags)]
        /\ gap' \in [Assigns -> SUBSET Entities]
    BY ConstantsAssumption DEF TypeOK
  <2> QED BY <2>2, <2>3, <2>4 DEF TypeOK
<1>7. Open' = Open \ {a}
  BY DEF Open, TypeOK
<1>8. ASSUME NEW b \in Open', task[b].entity = e
      PROVE  /\ deleted[b] = {} /\ RowsOf(e)' = {}
  <2>1. b \in Open /\ b # a
    BY <1>7
  <2>2. deleted[b] = {} /\ deleted[a] = {} /\ inserted[a] = 0
    BY <2>1, <1>1, <1>8 DEF OpenExcludes
  <2>3. Added(a) = {}
    BY <2>2, <1>2, <1>3
  <2>4. rows' = rows /\ RowsOf(e) = {}
    BY <2>2, <2>3, <1>4, <1>5
  <2> QED BY <2>2, <2>4 DEF RowsOf
<1>9. ASSUME NEW f, f # e PROVE RowsOf(f)' = RowsOf(f)
  BY <1>5, <1>3, <1>9 DEF RowsOf
<1>10. OpenHoldsEntity'
  <2> SUFFICES ASSUME NEW b \in Open'
               PROVE  /\ deleted'[b] = RowsOf(task[b].entity)'
                      /\ task[b].entity \in gap'[b]
    BY DEF OpenHoldsEntity
  <2>1. b \in Open /\ b # a /\ deleted'[b] = deleted[b] /\ gap'[b] = gap[b]
    BY <1>7 DEF TypeOK, Open
  <2>2. CASE task[b].entity = e
    BY <2>1, <2>2, <1>8 DEF OpenHoldsEntity
  <2>3. CASE task[b].entity # e
    BY <2>1, <2>3, <1>9 DEF OpenHoldsEntity
  <2> QED BY <2>2, <2>3
<1>11. OpenExcludes'
  BY <1>7 DEF OpenExcludes, Open, TypeOK
<1>12. Progress'
  BY DEF Progress, TypeOK
<1>13. RowsAreLast'
  <2> SUFFICES ASSUME NEW f \in Entities, NEW t \in Tags
               PROVE  <<f, t>> \in rows' <=> \E i \in DOMAIN last'[f] : last'[f][i] = t
    BY DEF RowsAreLast
  <2>1. CASE f = e
    <3>1. last'[f] = ids
      BY <2>1, <1>1 DEF TypeOK
    <3>2. <<f, t>> \in rows' <=> <<f, t>> \in Added(a)
      BY <2>1, <1>5, RowsOfMember
    <3>3. <<f, t>> \in Added(a) <=> \E i \in 1 .. Len(ids) : ids[i] = t
      BY <1>3, <2>1
    <3> QED BY <3>1, <3>2, <3>3, <1>2
  <2>2. CASE f # e
    <3>1. last'[f] = last[f]
      BY <2>2, <1>1 DEF TypeOK
    <3>2. <<f, t>> \in rows' <=> <<f, t>> \in rows
      BY <2>2, <1>5, <1>3, RowsOfMember
    <3> QED BY <3>1, <3>2 DEF RowsAreLast
  <2> QED BY <2>1, <2>2
<1> QED BY <1>6, <1>10, <1>11, <1>12, <1>13

\* The locks of the DELETE are what keeps the invariant.
LEMMA DeleteKeeps ==
  ASSUME TagsInv, NEW a \in Assigns, DeleteRows(a)
  PROVE  TagsInv'
<1> DEFINE e == task[a].entity
<1> USE DEF TagsInv, given, tagTable
<1>1. /\ pc[a] = "delete" /\ ~ Blocked(a) /\ inserted[a] = 0
      /\ e \in Entities /\ task[a].ids \in TagIds
  BY DEF DeleteRows, Progress, TypeOK
<1>2. PICK neighbours \in SUBSET Entities :
        gap' = [gap EXCEPT ![a] = neighbours \cup {e}]
  BY DEF DeleteRows
<1>3. /\ deleted' = [deleted EXCEPT ![a] = RowsOf(e)]
      /\ pc' = [pc EXCEPT ![a] = NextStep(a, 0)]
      /\ UNCHANGED <<name, task, tags, created, rows, inserted, reply, last>>
  BY DEF DeleteRows, Goto
<1>4. NextStep(a, 0) \in {"insert", "commit"}
  BY DEF NextStep
<1>5. Open' = Open \cup {a}
  BY <1>3, <1>4 DEF Open, TypeOK
<1>6. TypeOK'
  BY <1>1, <1>2, <1>3, <1>4 DEF TypeOK, RowsOf
<1>7. OpenHoldsEntity'
  BY <1>1, <1>2, <1>3, <1>5 DEF OpenHoldsEntity, RowsOf, TypeOK, Open
<1>8. ASSUME NEW b \in Open, b # a, task[b].entity = e
      PROVE  deleted[b] = {} /\ inserted[b] = 0 /\ RowsOf(e) = {}
  <2>1. ~ WaitsFor(a, b) /\ b \in Assigns
    BY <1>1 DEF Blocked, Open
  <2>2. ~ \E r \in deleted[b] \cup Added(b) : r[1] = e
    BY <2>1, <1>1, <1>8 DEF WaitsFor
  <2>3. deleted[b] = RowsOf(e)
    BY <1>8 DEF OpenHoldsEntity
  <2>4. deleted[b] = {}
    BY <2>2, <2>3, RowsOfMember
  <2>5. inserted[b] = 0
    <3> SUFFICES ASSUME inserted[b] # 0 PROVE FALSE
      OBVIOUS
    <3>1. inserted[b] \in Nat /\ 1 \in 1 .. inserted[b]
      BY <2>1, ConstantsAssumption DEF TypeOK
    <3>2. <<e, task[b].ids[1]>> \in Added(b)
      BY <3>1, <1>8 DEF Added
    <3> QED BY <2>2, <3>2
  <2> QED BY <2>3, <2>4, <2>5
<1>9. OpenExcludes'
  <2> SUFFICES ASSUME NEW b \in Open', NEW c \in Open', b # c,
                      task[b].entity = task[c].entity
               PROVE  deleted'[b] = {} /\ inserted[b] = 0
    BY <1>3 DEF OpenExcludes
  <2>1. CASE b = a
    BY <2>1, <1>1, <1>3, <1>5, <1>8 DEF TypeOK
  <2>2. CASE c = a
    BY <2>2, <1>3, <1>5, <1>8 DEF TypeOK
  <2>3. CASE b # a /\ c # a
    BY <2>3, <1>3, <1>5 DEF OpenExcludes, TypeOK
  <2> QED BY <2>1, <2>2, <2>3
<1>10. Progress'
  <2>1. Len(task[a].ids) \in Nat
    BY <1>1, TagIdsType
  <2> QED BY <2>1, <1>1, <1>3 DEF Progress, NextStep, TypeOK
<1>11. RowsAreLast'
  BY <1>3 DEF RowsAreLast
<1> QED BY <1>6, <1>7, <1>9, <1>10, <1>11

\* An INSERT goes on only where no other transaction has the gap locked.
LEMMA InsertKeeps ==
  ASSUME TagsInv, NEW a \in Assigns, InsertTag(a)
  PROVE  TagsInv'
<1> USE DEF TagsInv, given, tagTable
<1>1. /\ pc[a] = "insert" /\ ~ Blocked(a)
      /\ inserted' = [inserted EXCEPT ![a] = @ + 1]
      /\ pc' = [pc EXCEPT ![a] = NextStep(a, inserted[a] + 1)]
      /\ UNCHANGED <<name, task, tags, created, rows, deleted, gap, reply, last>>
  BY DEF InsertTag, Goto
<1>2. /\ Len(task[a].ids) \in 0 .. MaxTags /\ Len(task[a].ids) \in Nat
      /\ inserted[a] \in Nat /\ inserted[a] < Len(task[a].ids)
  BY <1>1, TagIdsType, ConstantsAssumption DEF TypeOK, Progress
<1>3. NextStep(a, inserted[a] + 1) \in {"insert", "commit"}
  BY DEF NextStep
<1>4. Open' = Open /\ a \in Open
  BY <1>1, <1>3 DEF Open, TypeOK
<1>5. TypeOK'
  BY <1>1, <1>2, <1>3, ConstantsAssumption DEF TypeOK
<1>6. OpenHoldsEntity'
  BY <1>1, <1>4 DEF OpenHoldsEntity, RowsOf
<1>7. \A b \in Open : b # a => task[b].entity # task[a].entity
  BY <1>1 DEF Blocked, WaitsFor, OpenHoldsEntity, Open
<1>8. OpenExcludes'
  BY <1>1, <1>4, <1>7 DEF OpenExcludes, Open, TypeOK
<1>9. Progress'
  BY <1>1, <1>2 DEF Progress, NextStep, TypeOK
<1>10. RowsAreLast'
  BY <1>1 DEF RowsAreLast
<1> QED BY <1>5, <1>6, <1>8, <1>9, <1>10

\* Every step keeps the invariant.
LEMMA TagsStep == TagsInv /\ [Next]_vars => TagsInv'
<1> SUFFICES ASSUME TagsInv, [Next]_vars PROVE TagsInv'
  OBVIOUS
<1> USE DEF given, tagTable
<1>1. ASSUME NEW t \in Tags, CreateTag(t) \/ DeleteTag(t) PROVE TagsInv'
  <2>1. TypeOK'
    BY <1>1 DEF TagsInv, TypeOK, CreateTag, DeleteTag
  <2>2. UNCHANGED <<task, rows, pc, inserted, deleted, gap, last>>
    BY <1>1 DEF CreateTag, DeleteTag
  <2> QED BY <2>1, <2>2
          DEF TagsInv, OpenHoldsEntity, OpenExcludes, Progress, RowsAreLast, Open, RowsOf
<1>2. ASSUME NEW a \in Assigns, Handle(a) \/ Break(a) PROVE TagsInv'
  <2> USE DEF Goto
  <2>1. CASE BeginTx(a)
    <3>1. /\ UNCHANGED <<task, rows, inserted, deleted, gap, last>>
          /\ pc' = [pc EXCEPT ![a] = "delete"] /\ pc[a] = "idle"
      BY <2>1 DEF BeginTx
    <3>2. TypeOK' /\ Open' = Open
      BY <2>1, <3>1 DEF BeginTx, TagsInv, TypeOK, Open
    <3> QED BY <3>1, <3>2
            DEF TagsInv, OpenHoldsEntity, OpenExcludes, Progress, RowsAreLast, RowsOf, TypeOK
  <2>2. CASE DeleteRows(a)
    BY <2>2, DeleteKeeps
  <2>3. CASE InsertTag(a)
    BY <2>3, InsertKeeps
  <2>4. CASE InsertTagFails(a)
    BY <2>4, RollbackKeeps DEF InsertTagFails, TagsInv, TypeOK
  <2>5. CASE LosesWait(a)
    BY <2>5, RollbackKeeps DEF LosesWait, TagsInv, TypeOK
  <2>6. CASE Commit(a)
    BY <2>6, ApplyKeeps DEF Commit, TagsInv, TypeOK
  <2>7. CASE Break(a)
    BY <2>7, RollbackKeeps, ApplyKeeps DEF Break, TagsInv, TypeOK
  <2> QED BY <1>2, <2>1, <2>2, <2>3, <2>4, <2>5, <2>6, <2>7 DEF Handle
<1>3. CASE UNCHANGED vars
  BY <1>3 DEF vars, TagsInv, TypeOK, OpenHoldsEntity, OpenExcludes, Progress, RowsAreLast,
     Open, RowsOf
<1> QED BY <1>1, <1>2, <1>3 DEF Next

-----------------------------------------------------------------------------
\* The locks of InnoDB make overlapping assignments exclude one another, in
\* every reachable state.
THEOREM LocksExclude == Spec => []TagsInv
<1>1. Init => TagsInv BY TagsInit
<1>2. TagsInv /\ [Next]_vars => TagsInv' BY TagsStep
<1> QED BY <1>1, <1>2, PTL DEF Spec

\* The variables keep their types: rows and locks name entities and tags, and an
\* assignment inserts no more tags than its body has.
THEOREM TagsTypeCorrect == Spec => []TypeOK
<1>1. TagsInv => TypeOK
  BY DEF TagsInv
<1> QED BY <1>1, LocksExclude, PTL

\* tagAssign leaves an entity exactly the tags of the last assignment that
\* committed, for any number of assignments.
THEOREM AssignmentsAreWhole == Spec => []AssignedWhole
<1>1. TagsInv => AssignedWhole
  <2> SUFFICES ASSUME TagsInv, NEW e \in Entities
               PROVE  {r[2] : r \in RowsOf(e)} = {last[e][i] : i \in DOMAIN last[e]}
    BY DEF AssignedWhole
  <2>1. last[e] \in TagIds /\ rows \subseteq Entities \X Tags
    BY DEF TagsInv, TypeOK
  <2>2. \A i \in DOMAIN last[e] : last[e][i] \in Tags
    BY <2>1, TagIdsType
  <2>3. \A t : t \in {r[2] : r \in RowsOf(e)} <=> t \in Tags /\ <<e, t>> \in rows
    BY <2>1, RowsOfMember
  <2>4. \A t \in Tags : <<e, t>> \in rows <=> \E i \in DOMAIN last[e] : last[e][i] = t
    BY DEF TagsInv, RowsAreLast
  <2> QED BY <2>2, <2>3, <2>4
<1> QED BY <1>1, LocksExclude, PTL

\* A reader of tagGetByEntity sees an entity's tags change only where an
\* assignment of it ends, or with the tags themselves: never half assigned.
THEOREM ChangesAreAtOnce == Spec => ChangesAtOnce
<1> DEFINE AtOnce == \A e \in Entities : Shown(e)' # Shown(e) =>
             \/ tags' # tags
             \/ \E a \in Assigns : task[a].entity = e /\ pc[a] # "done" /\ pc'[a] = "done"
<1>1. TagsInv /\ [Next]_vars => AtOnce
  <2> SUFFICES ASSUME TagsInv, [Next]_vars, NEW e \in Entities,
                      Shown(e)' # Shown(e), tags' = tags
               PROVE  \E a \in Assigns : task[a].entity = e /\ pc[a] # "done" /\ pc'[a] = "done"
    OBVIOUS
  <2>1. PICK t \in tags : <<e, t>> \in rows' <=> <<e, t>> \notin rows
    BY DEF Shown
  <2>2. rows' # rows
    BY <2>1
  <2>3. PICK a \in Assigns : Apply(a) /\ pc[a] = "commit" /\ pc' = [pc EXCEPT ![a] = "done"]
    <3>1. ~ UNCHANGED vars
      BY <2>2 DEF vars
    <3>2. ~ \E u \in Tags : CreateTag(u) \/ DeleteTag(u)
      BY <2>2 DEF CreateTag, DeleteTag
    <3>3. PICK b \in Assigns : Handle(b) \/ Break(b)
      BY <3>1, <3>2 DEF Next
    <3>4. Commit(b) \/ Break(b)
      BY <3>3, <2>2 DEF Handle, BeginTx, DeleteRows, InsertTag, InsertTagFails, LosesWait,
         Rollback
    <3> QED BY <3>4, <2>2 DEF Commit, Break, Goto, Rollback
  <2>4. a \in Open /\ deleted[a] = RowsOf(task[a].entity)
    BY <2>3 DEF Open, TagsInv, OpenHoldsEntity
  <2>5. task[a].entity = e
    <3> SUFFICES ASSUME task[a].entity # e PROVE FALSE
      OBVIOUS
    <3>1. <<e, t>> \notin deleted[a] /\ <<e, t>> \notin Added(a)
      BY <2>4 DEF RowsOf, Added
    <3> QED BY <3>1, <2>1, <2>3 DEF Apply
  <2>6. pc'[a] = "done"
    BY <2>3 DEF TagsInv, TypeOK
  <2> QED BY <2>3, <2>5, <2>6
<1> QED BY <1>1, LocksExclude, PTL DEF ChangesAtOnce, Spec
-----------------------------------------------------------------------------
\* Positions.  Each call stands only where its own handler can, and has answered
\* with success only when it is done.
CallsTyped ==
  \A c \in Calls :
    /\ at[c] = "insert" => c \in Creates
    /\ at[c] = "update" => c \in Closes
    /\ at[c] = "query" => c \in Lists
    /\ at[c] \in {"audit", "late"} => c \in Creates \cup Closes
    /\ result[c] \in {"200", "201"} => at[c] = "done"
    /\ result[c] = "201" => c \in Creates
    /\ result[c] = "200" => c \notin Creates

\* An entry is in its table from its INSERT on; it is closed only when a call of
\* its institution has begun to close it.
EntriesAreCreated ==
  \A p \in Creates :
    /\ p \in entries => at[p] \in {"audit", "done"}
    /\ at[p] = "audit" \/ result[p] = "201" => p \in entries
    /\ row[p].status = "closed" =>
         p \in entries /\ \E k \in ClosesOf(p) : at[k] # "idle"

\* A closing that has changed its row found it in scope, and nothing opens the
\* row again.
ClosedStaysClosed ==
  \A k \in Closes :
    at[k] = "audit" \/ result[k] = "200" \/ trail[k] > 0 =>
      InScope(k) /\ row[position[k]].status = "closed"

\* Only a handler that is done has a record in the trail.
TrailIsDone == \A c \in Creates \cup Closes : trail[c] > 0 => at[c] = "done"

\* A handler has read its time in the past.
StampsArePast == \A c \in Calls : stamp[c] <= now

\* What was answered when a list arrived stays answered.
BeforeIsAnswered == \A l \in Lists : before[l] \subseteq Answered

\* A position that nothing disturbed: one call at a time closes it, none after
\* its handler is gone, that one has read a time no earlier than those with a
\* record, and between the UPDATE and its record the row has the time of the call
\* that is about to append it.
Undisturbed(p) ==
  /\ \A j, k \in ClosesOf(p) \cap InFlight : j = k
  /\ \A k \in ClosesOf(p) \cap InFlight : \A j \in ClosingsOf(p) : stamp[j] <= stamp[k]
  /\ \A k \in Closes : position[k] = p => at[k] # "late"
  /\ \A k \in ClosesOf(p) : at[k] = "audit" => row[p].closed = Stored(stamp[k])
  /\ (\A k \in ClosesOf(p) : at[k] # "audit") => Dated(p)

ClosingsAreDated == \A p \in Positions \ disturbed : Undisturbed(p)

PositionsInv ==
  /\ PositionsTypeOK /\ IsFiniteSet(entries) /\ IsFiniteSet(InFlight) /\ CallsTyped
  /\ EntriesAreCreated /\ ClosedStaysClosed /\ TrailIsDone /\ StampsArePast
  /\ BeforeIsAnswered /\ ListsTrue /\ ClosingsAreDated

LEMMA AfterCloseType ==
  ASSUME PositionsTypeOK, NEW k \in Closes
  PROVE  /\ AfterClose(k) \in Row
         /\ AfterClose(k).status = "closed" /\ AfterClose(k).closed = Stored(stamp[k])
         /\ AfterClose(k).created = row[position[k]].created
<1>1. row[position[k]] \in Row /\ stamp[k] \in Nat
  BY PositionsAssumption DEF PositionsTypeOK, Calls, Times
<1>2. Stored(stamp[k]) \in Nat
  BY <1>1 DEF Stored
<1> QED BY <1>1, <1>2 DEF AfterClose, Row

\* A new row, of the creation p.
LEMMA NewRowType ==
  ASSUME PositionsTypeOK, NEW p \in Creates
  PROVE  [status |-> "open", created |-> Stored(stamp[p]), closed |-> Never] \in Row
<1>1. stamp[p] \in Nat
  BY PositionsAssumption DEF PositionsTypeOK, Calls, Times
<1>2. Stored(stamp[p]) \in Nat
  BY <1>1 DEF Stored
<1> QED BY <1>2 DEF Row, Never

\* The invariant holds of empty tables.
LEMMA PositionsInitially == PositionsInit => PositionsInv
<1> SUFFICES ASSUME PositionsInit PROVE PositionsInv
  OBVIOUS
<1> USE DEF PositionsInit
<1>1. PositionsTypeOK
  BY PositionsAssumption DEF PositionsTypeOK, Times, Row, Never
<1>2. InFlight = {} /\ IsFiniteSet(InFlight) /\ IsFiniteSet(entries)
  <2>1. InFlight = {}
    BY DEF InFlight
  <2> QED BY <2>1, FS_EmptySet
<1>3. CallsTyped /\ TrailIsDone /\ StampsArePast /\ BeforeIsAnswered /\ ListsTrue
  BY DEF CallsTyped, TrailIsDone, StampsArePast, BeforeIsAnswered, ListsTrue, Calls
<1>4. EntriesAreCreated
  BY DEF EntriesAreCreated, Calls
<1>5. ClosedStaysClosed
  BY DEF ClosedStaysClosed, Calls
<1>6. ClosingsAreDated
  <2> SUFFICES ASSUME NEW p \in Positions PROVE Undisturbed(p)
    BY DEF ClosingsAreDated
  <2>1. ClosesOf(p) = {}
    BY DEF ClosesOf, InScope
  <2>2. ClosingsOf(p) = {} /\ row[p].status = "open"
    BY <2>1 DEF ClosingsOf, Positions
  <2>3. Dated(p)
    BY <2>2 DEF Dated
  <2> QED BY <2>1, <2>3 DEF Undisturbed, Calls
<1> QED BY <1>1, <1>2, <1>3, <1>4, <1>5, <1>6 DEF PositionsInv

\* What a call of handler c does to the other calls: nothing.
LEMMA OneMoves ==
  ASSUME PositionsInv, NEW c \in Calls, HandleCall(c)
  PROVE  \A d \in Calls : d # c =>
           at'[d] = at[d] /\ result'[d] = result[d] /\ stamp'[d] = stamp[d]
<1> USE DEF PositionsInv, PositionsTypeOK, MoveTo, Answer
<1>1. CASE ReadClock(c) BY <1>1 DEF ReadClock
<1>2. CASE Insert(c) BY <1>2 DEF Insert
<1>3. CASE Close(c) BY <1>3 DEF Close
<1>4. CASE CloseNotFound(c) BY <1>4 DEF CloseNotFound
<1>5. CASE StatementFails(c) BY <1>5 DEF StatementFails
<1>6. CASE CommitLate(c) BY <1>6 DEF CommitLate
<1>7. CASE AppendAudit(c) BY <1>7 DEF AppendAudit
<1>8. CASE Arrive(c) BY <1>8 DEF Arrive
<1>9. CASE Query(c) BY <1>9 DEF Query, AnswerList
<1>10. CASE QueryFails(c) BY <1>10 DEF QueryFails
<1>11. CASE QueryBreaksOff(c) BY <1>11 DEF QueryBreaksOff, AnswerList
<1> QED BY <1>1, <1>2, <1>3, <1>4, <1>5, <1>6, <1>7, <1>8, <1>9, <1>10, <1>11 DEF HandleCall

\* The variables keep their types and each call its place.
LEMMA PositionsTypes ==
  ASSUME PositionsInv, Step, disturbed' \subseteq Creates
  PROVE  PositionsTypeOK' /\ CallsTyped'
<1> USE DEF PositionsInv, MoveTo, Answer, asked, lists
<1>0. PositionsTypeOK /\ CallsTyped
  OBVIOUS
<1>1. CASE Tick
  <2>1. now' \in Times
    BY <1>1, <1>0, PositionsAssumption DEF Tick, PositionsTypeOK, Times
  <2> QED BY <1>1, <1>0, <2>1 DEF Tick, PositionsTypeOK, CallsTyped, Calls
<1>2. CASE Crash
  BY <1>2, <1>0 DEF Crash, PositionsTypeOK, CallsTyped, InFlight
<1>3. ASSUME NEW c \in Calls, HandleCall(c) PROVE PositionsTypeOK' /\ CallsTyped'
  <2>0. \A d \in Calls : d # c =>
           at'[d] = at[d] /\ result'[d] = result[d] /\ stamp'[d] = stamp[d]
    BY <1>3, OneMoves
  <2>d. /\ Creates \cap Closes = {} /\ Creates \cap Lists = {} /\ Closes \cap Lists = {}
        /\ Calls = Creates \cup Closes \cup Lists
    BY PositionsAssumption DEF Calls
  <2>1. CASE ReadClock(c)
    BY <2>1, <1>0, <2>d DEF ReadClock, PositionsTypeOK, CallsTyped
  <2>2. CASE Insert(c)
    <3>1. c \in Creates /\ row' \in [Creates -> Row] /\ entries' = entries \cup {c}
      BY <2>2, <1>0, NewRowType DEF Insert, WriteNew, PositionsTypeOK, CallsTyped
    <3>2. shown' \in [Lists -> SUBSET entries']
      BY <2>2, <1>0, <3>1 DEF Insert, PositionsTypeOK
    <3>3. PositionsTypeOK'
      BY <2>2, <1>0, <3>1, <3>2 DEF Insert, PositionsTypeOK
    <3>4. CallsTyped'
      BY <2>2, <1>0, <3>1 DEF Insert, PositionsTypeOK, CallsTyped
    <3> QED BY <3>3, <3>4
  <2>3. CASE Close(c)
    <3>1. c \in Closes /\ row' \in [Creates -> Row]
      BY <2>3, <1>0, AfterCloseType DEF Close, WriteClose, PositionsTypeOK, CallsTyped
    <3>2. PositionsTypeOK'
      BY <2>3, <1>0, <3>1 DEF Close, PositionsTypeOK
    <3>3. CallsTyped'
      BY <2>3, <1>0, <3>1 DEF Close, PositionsTypeOK, CallsTyped
    <3> QED BY <3>2, <3>3
  <2>4. CASE CloseNotFound(c)
    BY <2>4, <1>0, <2>d DEF CloseNotFound, PositionsTypeOK, CallsTyped
  <2>5. CASE StatementFails(c)
    <3>1. c \in Creates \cup Closes
      BY <2>5, <1>0 DEF StatementFails, CallsTyped
    <3>2. PositionsTypeOK'
      BY <2>5, <1>0 DEF StatementFails, PositionsTypeOK
    <3>3. CallsTyped'
      BY <2>5, <1>0, <3>1 DEF StatementFails, PositionsTypeOK, CallsTyped
    <3> QED BY <3>2, <3>3
  <2>6. CASE CommitLate(c)
    <3>1. row' \in [Creates -> Row] /\ entries' \subseteq Creates /\ entries \subseteq entries'
      BY <2>6, <1>0, AfterCloseType, NewRowType
         DEF CommitLate, WriteNew, WriteClose, PositionsTypeOK
    <3>2. shown' \in [Lists -> SUBSET entries']
      BY <2>6, <1>0, <3>1 DEF CommitLate, PositionsTypeOK
    <3>3. PositionsTypeOK'
      BY <2>6, <1>0, <3>1, <3>2 DEF CommitLate, PositionsTypeOK
    <3>4. CallsTyped'
      BY <2>6, <1>0, <2>d DEF CommitLate, PositionsTypeOK, CallsTyped
    <3> QED BY <3>3, <3>4
  <2>7. CASE AppendAudit(c)
    <3>1. c \in Creates \cup Closes
      BY <2>7, <1>0 DEF AppendAudit, CallsTyped
    <3>2. trail' \in [Creates \cup Closes -> Nat]
      BY <2>7, <1>0, <3>1 DEF AppendAudit, PositionsTypeOK
    <3>3. PositionsTypeOK'
      BY <2>7, <1>0, <3>2 DEF AppendAudit, PositionsTypeOK
    <3>4. CallsTyped'
      BY <2>7, <1>0, <3>1 DEF AppendAudit, PositionsTypeOK, CallsTyped
    <3> QED BY <3>3, <3>4
  <2>8. CASE Arrive(c)
    <3>1. Answered \ Lists \in SUBSET (Creates \cup Closes)
      BY <2>d DEF Answered
    <3>2. PositionsTypeOK'
      BY <2>8, <1>0, <3>1 DEF Arrive, PositionsTypeOK
    <3>3. CallsTyped'
      BY <2>8, <1>0, <2>d DEF Arrive, PositionsTypeOK, CallsTyped
    <3> QED BY <3>2, <3>3
  <2>9. CASE Query(c) \/ QueryBreaksOff(c)
    <3>1. c \in Lists /\ cut' \subseteq Lists
      BY <2>9, <1>0 DEF Query, QueryBreaksOff, PositionsTypeOK, CallsTyped
    <3>2. PICK t \in SUBSET entries : AnswerList(c, t)
      BY <2>9 DEF Query, QueryBreaksOff, Matches
    <3>3. PositionsTypeOK'
      BY <1>0, <3>1, <3>2 DEF AnswerList, PositionsTypeOK
    <3>4. CallsTyped'
      BY <1>0, <2>d, <3>1, <3>2 DEF AnswerList, PositionsTypeOK, CallsTyped
    <3> QED BY <3>3, <3>4
  <2>10. CASE QueryFails(c)
    BY <2>10, <1>0, <2>d DEF QueryFails, PositionsTypeOK, CallsTyped
  <2> QED BY <1>3, <2>1, <2>2, <2>3, <2>4, <2>5, <2>6, <2>7, <2>8, <2>9, <2>10
          DEF HandleCall
<1> QED BY <1>1, <1>2, <1>3 DEF Step

\* What a step may do.  Entries are never taken away, closed ones stay closed,
\* success stays answered and handlers go one way;
GoesOn ==
  /\ UNCHANGED asked
  /\ entries \subseteq entries'
  /\ \A p \in entries :
       /\ row'[p].created = row[p].created
       /\ row[p].status = "closed" => row'[p].status = "closed"
  /\ \A c \in Answered : result'[c] = result[c]
  /\ \A c \in Calls :
       /\ at[c] # "idle" => at'[c] # "idle" /\ stamp'[c] = stamp[c]
       /\ at[c] \in {"audit", "done"} => at'[c] \in {"audit", "done"}
       /\ at[c] = "done" => at'[c] = "done"

\* a new entry is open, a row is changed by a call that closes it, and a call
\* comes to its record, and to success, by way of its statement;
HasCause ==
  /\ \A p \in entries' \ entries :
       at[p] \in {"insert", "late"} /\ at'[p] \in {"audit", "done"}
       /\ row'[p].status = "open"
  /\ \A p \in Creates : row'[p] # row[p] =>
       \/ p \in entries' \ entries
       \/ \E k \in Closes : position[k] = p /\ InScope(k) /\ at'[k] # "idle"
  /\ \A c \in Calls : at'[c] = "audit" /\ at[c] # "audit" =>
       \/ c \in entries'
       \/ c \in Closes /\ InScope(c) /\ row'[position[c]].status = "closed"
  /\ \A c \in Calls \ Lists : result'[c] \in {"200", "201"} /\ result'[c] # result[c] =>
       at[c] = "audit" /\ at'[c] = "done"

\* and the trail grows by the record of the call that is done with it.
TrailGrows ==
  \/ trail' = trail
  \/ \E c \in Creates \cup Closes :
       at[c] = "audit" /\ at'[c] = "done" /\ trail' = [trail EXCEPT ![c] = @ + 1]

LEMMA StepsGoOn ==
  ASSUME PositionsInv, Step
  PROVE  GoesOn /\ HasCause /\ TrailGrows
<1> USE DEF MoveTo, Answer, asked, lists
<1>0. PositionsTypeOK /\ CallsTyped /\ EntriesAreCreated
  BY DEF PositionsInv
<1>d. /\ Creates \cap Closes = {} /\ Creates \cap Lists = {} /\ Closes \cap Lists = {}
      /\ Calls = Creates \cup Closes \cup Lists
  BY PositionsAssumption DEF Calls
<1>1. CASE Tick
  BY <1>1 DEF Tick, GoesOn, HasCause, TrailGrows, Answered
<1>2. CASE Crash
  <2>1. GoesOn
    BY <1>2, <1>0 DEF Crash, GoesOn, InFlight, PositionsTypeOK, Answered
  <2>2. HasCause /\ TrailGrows
    BY <1>2, <1>0 DEF Crash, HasCause, TrailGrows, InFlight, PositionsTypeOK
  <2> QED BY <2>1, <2>2
<1>3. ASSUME NEW c \in Calls, HandleCall(c) PROVE GoesOn /\ HasCause /\ TrailGrows
  <2>0. \A d \in Calls : d # c =>
           at'[d] = at[d] /\ result'[d] = result[d] /\ stamp'[d] = stamp[d]
    BY <1>3, OneMoves
  <2>1. CASE ReadClock(c)
    BY <2>1, <1>0, <2>0 DEF ReadClock, GoesOn, HasCause, TrailGrows, CallsTyped,
       PositionsTypeOK, Answered
  <2>2. CASE Insert(c)
    <3>1. c \in Creates /\ c \notin entries /\ entries' = entries \cup {c}
          /\ row'[c].status = "open" /\ at'[c] = "audit"
      BY <2>2, <1>0 DEF Insert, WriteNew, CallsTyped, EntriesAreCreated, PositionsTypeOK
    <3>2. \A p \in Creates : p # c => row'[p] = row[p]
      BY <2>2, <1>0 DEF Insert, WriteNew, PositionsTypeOK
    <3>3. GoesOn
      BY <2>2, <1>0, <3>1, <3>2, <2>0 DEF Insert, GoesOn, Answered, PositionsTypeOK
    <3>4. HasCause
      BY <2>2, <1>0, <3>1, <3>2, <2>0 DEF Insert, HasCause, PositionsTypeOK
    <3> QED BY <2>2, <3>3, <3>4 DEF Insert, TrailGrows
  <2>3. CASE Close(c)
    <3>1. c \in Closes /\ InScope(c) /\ position[c] \in Creates /\ at'[c] = "audit"
      BY <2>3, <1>0 DEF Close, RowsAffected, CallsTyped, PositionsTypeOK
    <3>2. row'[position[c]] = AfterClose(c)
      BY <2>3, <1>0, <3>1 DEF Close, WriteClose, PositionsTypeOK
    <3>3. \A p \in Creates : p # position[c] => row'[p] = row[p]
      BY <2>3, <1>0 DEF Close, WriteClose, PositionsTypeOK
    <3>4. /\ AfterClose(c).status = "closed"
          /\ AfterClose(c).created = row[position[c]].created
      BY <1>0, <3>1, AfterCloseType
    <3>5. GoesOn
      BY <2>3, <1>0, <3>1, <3>2, <3>3, <3>4, <2>0 DEF Close, GoesOn, Answered, PositionsTypeOK
    <3>6. HasCause
      BY <2>3, <1>0, <3>1, <3>2, <3>3, <3>4, <2>0 DEF Close, HasCause, PositionsTypeOK
    <3> QED BY <2>3, <3>5, <3>6 DEF Close, TrailGrows
  <2>4. CASE CloseNotFound(c)
    BY <2>4, <1>0, <2>0 DEF CloseNotFound, GoesOn, HasCause, TrailGrows, CallsTyped,
       PositionsTypeOK, Answered
  <2>5. CASE StatementFails(c)
    <3>1. at'[c] \in {"done", "late"} /\ at[c] \in {"insert", "update"} /\ result'[c] = "500"
          /\ UNCHANGED <<asked, stamp, entries, row, trail>>
      BY <2>5, <1>0 DEF StatementFails, PositionsTypeOK
    <3> QED BY <3>1, <1>0, <2>0 DEF GoesOn, HasCause, TrailGrows, CallsTyped, Answered,
               PositionsTypeOK
  <2>6. CASE CommitLate(c)
    <3>1. at'[c] = "done" /\ at[c] = "late" /\ UNCHANGED <<asked, stamp, trail, result>>
      BY <2>6, <1>0 DEF CommitLate, PositionsTypeOK
    <3>2. CASE c \in Creates /\ WriteNew(c)
      <4>1. c \notin entries /\ entries' = entries \cup {c} /\ row'[c].status = "open"
        BY <3>1, <3>2, <1>0 DEF WriteNew, EntriesAreCreated, PositionsTypeOK
      <4>2. \A p \in Creates : p # c => row'[p] = row[p]
        BY <3>2, <1>0 DEF WriteNew, PositionsTypeOK
      <4> QED BY <3>1, <3>2, <4>1, <4>2, <1>0, <2>0
              DEF GoesOn, HasCause, TrailGrows, Answered, PositionsTypeOK
    <3>3. CASE c \in Closes /\ InScope(c) /\ WriteClose(c) /\ UNCHANGED entries
      <4>1. row'[position[c]] = AfterClose(c) /\ position[c] \in Creates
        BY <1>0, <3>3 DEF WriteClose, PositionsTypeOK
      <4>2. \A p \in Creates : p # position[c] => row'[p] = row[p]
        BY <3>3, <1>0 DEF WriteClose, PositionsTypeOK
      <4>3. /\ AfterClose(c).status = "closed"
            /\ AfterClose(c).created = row[position[c]].created
        BY <1>0, <3>3, AfterCloseType
      <4> QED BY <3>1, <3>3, <4>1, <4>2, <4>3, <1>0, <2>0
              DEF GoesOn, HasCause, TrailGrows, Answered, PositionsTypeOK
    <3> QED BY <2>6, <3>2, <3>3 DEF CommitLate
  <2>7. CASE AppendAudit(c)
    <3>1. /\ at[c] = "audit" /\ at'[c] = "done" /\ result[c] \notin {"200", "201"}
          /\ UNCHANGED <<asked, stamp, entries, row>> /\ c \in Creates \cup Closes
          /\ trail' = [trail EXCEPT ![c] = @ + 1] \/ trail' = trail
      BY <2>7, <1>0 DEF AppendAudit, CallsTyped, PositionsTypeOK
    <3> QED BY <3>1, <1>0, <2>0 DEF GoesOn, HasCause, TrailGrows, Answered
  <2>8. CASE Arrive(c)
    BY <2>8, <1>0, <2>0 DEF Arrive, GoesOn, HasCause, TrailGrows, CallsTyped,
       PositionsTypeOK, Answered
  <2>9. CASE Query(c) \/ QueryBreaksOff(c)
    <3>1. c \in Lists /\ at[c] = "query" /\ at'[c] = "done" /\ result[c] \notin {"200", "201"}
          /\ UNCHANGED <<asked, stamp, entries, row, trail>>
      BY <2>9, <1>0 DEF Query, QueryBreaksOff, AnswerList, CallsTyped, PositionsTypeOK
    <3> QED BY <3>1, <1>0, <2>0 DEF GoesOn, HasCause, TrailGrows, Answered
  <2>10. CASE QueryFails(c)
    <3>1. c \in Lists /\ at[c] = "query" /\ at'[c] = "done" /\ result[c] \notin {"200", "201"}
          /\ UNCHANGED <<asked, stamp, entries, row, trail>>
      BY <2>10, <1>0 DEF QueryFails, CallsTyped, PositionsTypeOK
    <3> QED BY <3>1, <1>0, <2>0 DEF GoesOn, HasCause, TrailGrows, Answered
  <2> QED BY <1>3, <2>1, <2>2, <2>3, <2>4, <2>5, <2>6, <2>7, <2>8, <2>9, <2>10
          DEF HandleCall
<1> QED BY <1>1, <1>2, <1>3 DEF Step

\* Which calls close an entry does not change once it is in its table.
LEMMA ClosesOfEntry ==
  ASSUME PositionsTypeOK, GoesOn
  PROVE  /\ \A p \in entries : ClosesOf(p)' = ClosesOf(p)
         /\ \A k \in Closes : InScope(k) => InScope(k)'
  BY DEF PositionsTypeOK, GoesOn, ClosesOf, InScope, Positions, asked

\* Only finitely many entries and calls under way.
LEMMA PositionsFinite ==
  ASSUME PositionsInv, Step
  PROVE  IsFiniteSet(entries)' /\ IsFiniteSet(InFlight)'
<1> USE DEF PositionsInv
<1>1. CASE Tick
  BY <1>1 DEF Tick, InFlight, lists, asked
<1>2. CASE Crash
  <2>1. InFlight' = {}
    BY <1>2 DEF Crash, InFlight, PositionsTypeOK
  <2>2. UNCHANGED entries
    BY <1>2 DEF Crash
  <2> QED BY <2>1, <2>2, FS_EmptySet
<1>3. ASSUME NEW c \in Calls, HandleCall(c) PROVE IsFiniteSet(entries)' /\ IsFiniteSet(InFlight)'
  <2>1. \A d \in Calls : d # c => at'[d] = at[d]
    BY <1>3, OneMoves
  <2>2. InFlight' \subseteq InFlight \cup {c}
    BY <2>1 DEF InFlight
  <2>3. entries' \subseteq entries \cup {c}
    BY <1>3 DEF HandleCall, ReadClock, Insert, Close, CloseNotFound, StatementFails,
       CommitLate, AppendAudit, Arrive, Query, QueryBreaksOff, AnswerList, QueryFails, WriteNew
  <2>4. IsFiniteSet(InFlight \cup {c}) /\ IsFiniteSet(entries \cup {c})
    BY FS_AddElement
  <2> QED BY <2>2, <2>3, <2>4, FS_Subset
<1> QED BY <1>1, <1>2, <1>3 DEF Step

\* An entry is where its creation put it, and closed because a call closed it.
LEMMA EntriesStayCreated ==
  ASSUME PositionsInv, Step, PositionsTypeOK', CallsTyped'
  PROVE  EntriesAreCreated'
<1> SUFFICES ASSUME NEW p \in Creates
             PROVE  /\ p \in entries' => at'[p] \in {"audit", "done"}
                    /\ at'[p] = "audit" \/ result'[p] = "201" => p \in entries'
                    /\ row'[p].status = "closed" =>
                         p \in entries' /\ \E k \in ClosesOf(p)' : at'[k] # "idle"
  BY DEF EntriesAreCreated
<1>0. GoesOn /\ HasCause
  BY StepsGoOn
<1>d. /\ PositionsTypeOK /\ EntriesAreCreated
      /\ p \in Calls /\ p \notin Lists /\ p \notin Closes /\ Closes \subseteq Calls
  BY PositionsAssumption DEF PositionsInv, Calls
<1>1. p \in entries' => at'[p] \in {"audit", "done"}
  BY <1>0, <1>d DEF GoesOn, HasCause, EntriesAreCreated
<1>2. at'[p] = "audit" \/ result'[p] = "201" => p \in entries'
  BY <1>0, <1>d DEF GoesOn, HasCause, EntriesAreCreated
<1>3. ASSUME row'[p].status = "closed"
      PROVE  p \in entries' /\ \E k \in ClosesOf(p)' : at'[k] # "idle"
  <2>1. CASE row'[p] = row[p]
    <3>1. PICK k \in ClosesOf(p) : at[k] # "idle"
      BY <2>1, <1>3, <1>d DEF EntriesAreCreated
    <3>2. p \in entries
      BY <2>1, <1>3, <1>d DEF EntriesAreCreated
    <3>3. k \in ClosesOf(p)' /\ k \in Calls
      BY <3>1, <3>2, <1>0, <1>d, ClosesOfEntry DEF ClosesOf
    <3> QED BY <3>1, <3>2, <3>3, <1>0 DEF GoesOn
  <2>2. CASE row'[p] # row[p]
    <3>1. p \notin entries' \ entries
      BY <1>3, <1>0 DEF HasCause
    <3>2. PICK k \in Closes : position[k] = p /\ InScope(k) /\ at'[k] # "idle"
      BY <2>2, <3>1, <1>0 DEF HasCause
    <3>3. p \in entries /\ k \in ClosesOf(p)
      BY <3>2 DEF InScope, ClosesOf
    <3>4. p \in entries' /\ k \in ClosesOf(p)'
      BY <3>3, <1>0, <1>d, ClosesOfEntry DEF GoesOn
    <3> QED BY <3>2, <3>4
  <2> QED BY <2>1, <2>2
<1> QED BY <1>1, <1>2, <1>3

\* Records are appended by calls that are done, and those stay done.
LEMMA TrailStaysDone ==
  ASSUME PositionsInv, Step
  PROVE  TrailIsDone'
<1>0. /\ GoesOn /\ TrailGrows /\ PositionsTypeOK /\ TrailIsDone
      /\ Creates \cup Closes \subseteq Calls
  BY StepsGoOn DEF PositionsInv, Calls
<1>1. CASE trail' = trail
  BY <1>1, <1>0 DEF TrailIsDone, GoesOn
<1>2. ASSUME NEW c \in Creates \cup Closes, at'[c] = "done",
             trail' = [trail EXCEPT ![c] = @ + 1]
      PROVE  TrailIsDone'
  <2>1. \A d \in Creates \cup Closes : d # c => trail'[d] = trail[d]
    BY <1>2, <1>0 DEF PositionsTypeOK
  <2> QED BY <2>1, <1>0, <1>2 DEF TrailIsDone, GoesOn
<1> QED BY <1>0, <1>1, <1>2 DEF TrailGrows

\* Time goes on, and a handler reads the time it is.
LEMMA StampsStayPast ==
  ASSUME PositionsInv, Step
  PROVE  /\ StampsArePast'
         /\ \A k \in Closes : k \notin InFlight /\ k \in InFlight' =>
              stamp'[k] = now /\ trail' = trail
<1> USE DEF MoveTo, Answer, asked, lists
<1>0. /\ PositionsTypeOK /\ CallsTyped /\ StampsArePast /\ MaxTime \in Nat
      /\ Closes \subseteq Calls /\ now \in Nat /\ stamp \in [Calls -> Nat]
  BY PositionsAssumption DEF PositionsInv, PositionsTypeOK, Calls, Times
<1>1. CASE Tick
  BY <1>0, <1>1 DEF Tick, StampsArePast, InFlight
<1>2. CASE Crash
  BY <1>0, <1>2 DEF Crash, StampsArePast, InFlight, PositionsTypeOK
<1>3. ASSUME NEW c \in Calls, HandleCall(c)
      PROVE  /\ StampsArePast'
             /\ \A k \in Closes : k \notin InFlight /\ k \in InFlight' =>
                  stamp'[k] = now /\ trail' = trail
  <2>0. \A d \in Calls : d # c =>
           at'[d] = at[d] /\ result'[d] = result[d] /\ stamp'[d] = stamp[d]
    BY <1>3, OneMoves
  <2>1. CASE ReadClock(c)
    BY <2>0, <2>1, <1>0 DEF ReadClock, StampsArePast, InFlight
  <2>2. CASE ~ ReadClock(c)
    <3>1. stamp' = stamp /\ now' = now
      BY <1>3, <2>2 DEF HandleCall, Insert, Close, CloseNotFound, StatementFails, CommitLate,
         AppendAudit, Arrive, Query, QueryBreaksOff, AnswerList, QueryFails
    <3>2. c \in Closes => c \in InFlight \/ c \notin InFlight'
      <4> SUFFICES ASSUME c \in Closes, c \notin InFlight PROVE c \notin InFlight'
        OBVIOUS
      <4>1. c \notin Lists /\ at[c] \in {"idle", "late", "done"}
        BY PositionsAssumption DEF InFlight
      <4>2. CommitLate(c)
        BY <1>3, <2>2, <4>1 DEF HandleCall, Insert, Close, CloseNotFound, StatementFails,
           AppendAudit, Arrive, Query, QueryBreaksOff, QueryFails
      <4> QED BY <4>2, <1>0 DEF CommitLate, InFlight, PositionsTypeOK
    <3> QED BY <2>0, <3>1, <3>2, <1>0 DEF StampsArePast, InFlight
  <2> QED BY <2>1, <2>2
<1> QED BY <1>1, <1>2, <1>3 DEF Step

\* A closing with effect is in scope of its caller, and leaves the row closed.
LEMMA ClosedIsKept ==
  ASSUME PositionsInv, Step, PositionsTypeOK'
  PROVE  ClosedStaysClosed'
<1> SUFFICES ASSUME NEW k \in Closes,
                    at'[k] = "audit" \/ result'[k] = "200" \/ trail'[k] > 0
             PROVE  InScope(k)' /\ row'[position'[k]].status = "closed"
  BY DEF ClosedStaysClosed
<1>0. GoesOn /\ HasCause /\ TrailGrows
  BY StepsGoOn
<1>d. /\ PositionsTypeOK /\ ClosedStaysClosed
      /\ k \in Calls /\ k \notin Lists /\ position'[k] = position[k]
  BY <1>0, PositionsAssumption DEF PositionsInv, PositionsTypeOK, Calls, GoesOn, asked
<1>1. CASE InScope(k) /\ row[position[k]].status = "closed"
  <2>1. position[k] \in entries /\ InScope(k)'
    BY <1>1, <1>0, <1>d, ClosesOfEntry DEF InScope
  <2> QED BY <1>1, <2>1, <1>0, <1>d DEF GoesOn
<1>2. CASE at[k] = "audit" \/ result[k] = "200" \/ trail[k] > 0
  BY <1>1, <1>2, <1>d DEF ClosedStaysClosed
<1>3. CASE at'[k] = "audit"
  <2>1. at[k] = "audit" \/ (InScope(k) /\ row'[position[k]].status = "closed") \/ k \in entries'
    BY <1>3, <1>0, <1>d DEF HasCause
  <2>2. k \notin entries'
    <3>1. entries' \subseteq Creates
      BY DEF PositionsTypeOK
    <3> QED BY <3>1, PositionsAssumption
  <2>3. InScope(k) => InScope(k)'
    BY <1>0, <1>d, ClosesOfEntry
  <2> QED BY <2>1, <2>2, <2>3, <1>2, <1>d
<1>4. CASE result'[k] = "200"
  BY <1>4, <1>2, <1>0, <1>d DEF HasCause
<1>5. ASSUME trail'[k] > 0 PROVE at[k] = "audit" \/ trail[k] > 0
  BY <1>5, <1>0, <1>d DEF TrailGrows, PositionsTypeOK
<1> QED BY <1>2, <1>3, <1>4, <1>5

\* Success stays answered.
LEMMA BeforeStaysAnswered ==
  ASSUME PositionsInv, Step
  PROVE  BeforeIsAnswered'
<1>0. GoesOn /\ BeforeIsAnswered /\ PositionsTypeOK
  BY StepsGoOn DEF PositionsInv
<1>1. Answered \subseteq Answered'
  BY <1>0 DEF GoesOn, Answered
<1>2. CASE before' = before
  BY <1>0, <1>1, <1>2 DEF BeforeIsAnswered
<1>3. ASSUME NEW c \in Calls, Arrive(c) PROVE BeforeIsAnswered'
  <2> SUFFICES ASSUME NEW l \in Lists PROVE before'[l] \subseteq Answered'
    BY DEF BeforeIsAnswered
  <2>1. before'[l] = before[l] \/ before'[l] = Answered \ Lists
    BY <1>3, <1>0 DEF Arrive, PositionsTypeOK
  <2> QED BY <2>1, <1>0, <1>1 DEF BeforeIsAnswered
<1>4. before' = before \/ \E c \in Calls : Arrive(c)
  BY DEF Step, HandleCall, Tick, Crash, ReadClock, Insert, Close, CloseNotFound,
     StatementFails, CommitLate, AppendAudit, Query, QueryBreaksOff, AnswerList, QueryFails,
     lists
<1> QED BY <1>2, <1>3, <1>4

-----------------------------------------------------------------------------
\* What list l has answered.
ListTrue(l) ==
  /\ \A p \in shown[l] : ShownRightly(p, l)
  /\ \A p \in before[l] \cap Creates :
       table[p] = table[l] /\ inst[p] = inst[l] => p \in shown[l] \/ LeftOutRightly(p, l)

\* An answered list stays true: what it has shown, and what was created before it
\* arrived, are entries, and neither what closes them nor their creation changes.
LEMMA AnsweredListStaysTrue ==
  ASSUME PositionsInv, GoesOn, BeforeIsAnswered, NEW l \in Lists, ListTrue(l),
         shown'[l] = shown[l], before'[l] = before[l], begun'[l] = begun[l],
         (l \in cut') <=> (l \in cut)
  PROVE  ListTrue(l)'
<1>0. /\ PositionsTypeOK /\ EntriesAreCreated /\ CallsTyped
      /\ UNCHANGED <<inst, table, position, filter>>
  BY DEF PositionsInv, GoesOn, asked
<1>1. \A p \in entries : ClosesOf(p)' = ClosesOf(p)
  BY <1>0, ClosesOfEntry
<1>2. shown[l] \subseteq entries
  BY <1>0 DEF PositionsTypeOK
<1>3. before[l] \cap Creates \subseteq entries
  <2> SUFFICES ASSUME NEW p \in before[l] \cap Creates PROVE p \in entries
    OBVIOUS
  <2>1. p \in Answered /\ p \in Calls
    BY DEF BeforeIsAnswered, Calls
  <2>2. result[p] = "201"
    BY <2>1, <1>0 DEF Answered, CallsTyped
  <2> QED BY <2>2, <1>0 DEF EntriesAreCreated
<1>4. ASSUME NEW p \in entries
      PROVE  /\ Closing(p, l)' <=> Closing(p, l)
             /\ ClosedBefore(p, l)' <=> ClosedBefore(p, l)
  BY <1>1 DEF Closing, ClosedBefore
<1>5. ASSUME NEW p \in shown[l] PROVE ShownRightly(p, l)'
  BY <1>0, <1>2, <1>4 DEF ShownRightly, ListTrue
<1>6. ASSUME NEW p \in entries
      PROVE  /\ CrowdedOut(p, l)' <=> CrowdedOut(p, l)
             /\ NotReached(p, l)' <=> NotReached(p, l)
  <2>1. \A q \in shown[l] : (row'[q].created >= row'[p].created) <=>
                            (row[q].created >= row[p].created)
    BY <1>2 DEF GoesOn
  <2>2. {q \in shown[l] : row'[q].created >= row'[p].created} =
        {q \in shown[l] : row[q].created >= row[p].created}
    BY <2>1
  <2> QED BY <2>1, <2>2, <1>0 DEF CrowdedOut, NotReached
<1>7. ASSUME NEW p \in before[l] \cap Creates, table[p] = table[l], inst[p] = inst[l]
      PROVE  p \in shown[l] \/ LeftOutRightly(p, l)'
  <2>1. p \in shown[l] \/ LeftOutRightly(p, l)
    BY <1>7 DEF ListTrue
  <2>2. LeftOutRightly(p, l) => LeftOutRightly(p, l)'
    BY <1>0, <1>3, <1>4, <1>6 DEF LeftOutRightly
  <2> QED BY <2>1, <2>2
<1> QED BY <1>0, <1>5, <1>7 DEF ListTrue

\* The query itself answers what is true.
LEMMA QueryAnswersTrue ==
  ASSUME PositionsInv, BeforeIsAnswered, NEW l \in Lists, Query(l) \/ QueryBreaksOff(l)
  PROVE  ListTrue(l)'
<1>0. /\ PositionsTypeOK /\ EntriesAreCreated /\ CallsTyped /\ ClosedStaysClosed
      /\ IsFiniteSet(entries)
      /\ UNCHANGED <<inst, table, position, filter, entries, row, before>>
  BY DEF PositionsInv, Query, QueryBreaksOff, AnswerList, asked
<1>1. PICK s \in SUBSET entries :
         /\ NewestFirst(s, Matches(l)) /\ AnswerList(l, s)
         /\ Cardinality(s) = Length(Matches(l), l) \/ l \in cut'
  <2>1. Query(l) => \E s \in SUBSET entries : ShownTo(l, s) /\ AnswerList(l, s)
    BY DEF Query
  <2>2. QueryBreaksOff(l) => l \in cut' /\ \E s \in SUBSET Matches(l) :
                               NewestFirst(s, Matches(l)) /\ AnswerList(l, s)
    BY DEF QueryBreaksOff
  <2>3. Matches(l) \subseteq entries
    BY DEF Matches
  <2> QED BY <2>1, <2>2, <2>3 DEF ShownTo, Newest
<1>2. shown'[l] = s /\ begun'[l] = {k \in Closes : at[k] # "idle"}
  BY <1>0, <1>1 DEF AnswerList, PositionsTypeOK
<1>3. /\ s \subseteq Matches(l)
      /\ \A p \in s, q \in Matches(l) \ s : row[p].created >= row[q].created
  BY <1>1 DEF NewestFirst
<1>4. \A p : ClosesOf(p)' = ClosesOf(p)
  BY <1>0 DEF ClosesOf, InScope, Positions
<1>5. /\ \A p : Closing(p, l)' <=> \E k \in ClosesOf(p) : at[k] # "idle"
      /\ \A p : ClosedBefore(p, l)' <=> ClosedBefore(p, l)
  BY <1>0, <1>2, <1>4 DEF Closing, ClosedBefore, ClosesOf
<1>6. \A p : ClosedBefore(p, l) => row[p].status = "closed"
  <2> SUFFICES ASSUME NEW p, NEW k \in before[l] \cap Closes, k \in ClosesOf(p)
               PROVE  row[p].status = "closed"
    BY DEF ClosedBefore
  <2>1. k \in Answered /\ k \in Calls /\ k \notin Creates
    BY PositionsAssumption DEF BeforeIsAnswered, Calls
  <2>2. result[k] = "200"
    BY <2>1, <1>0 DEF Answered, CallsTyped
  <2> QED BY <2>2, <1>0 DEF ClosedStaysClosed, ClosesOf
<1>7. \A p \in entries : row[p].status = "closed" => \E k \in ClosesOf(p) : at[k] # "idle"
  BY <1>0 DEF EntriesAreCreated, PositionsTypeOK
<1>8. ASSUME NEW p \in s PROVE ShownRightly(p, l)'
  <2>1. p \in Matches(l) /\ p \in entries
    BY <1>3
  <2>2. table[l] = "positions" =>
          IF filter[l] = "closed" THEN row[p].status = "closed" ELSE row[p].status # "closed"
    BY <2>1, <1>0 DEF Matches, PositionsTypeOK
  <2>3. inst[p] = inst[l]
    BY <2>1 DEF Matches
  <2> QED BY <2>1, <2>2, <2>3, <1>0, <1>5, <1>6, <1>7 DEF ShownRightly
<1>9. ASSUME NEW p \in before[l] \cap Creates, table[p] = table[l], inst[p] = inst[l],
             p \notin s
      PROVE  LeftOutRightly(p, l)'
  <2>1. p \in entries
    <3>1. p \in Answered /\ p \in Calls
      BY <1>9 DEF BeforeIsAnswered, Calls
    <3>2. result[p] = "201"
      BY <3>1, <1>0, <1>9 DEF Answered, CallsTyped
    <3> QED BY <3>2, <1>0, <1>9 DEF EntriesAreCreated
  <2>2. CASE p \in Matches(l)
    <3>1. IsFiniteSet(Matches(l)) /\ IsFiniteSet(s)
      BY <1>0, <1>1, FS_Subset DEF Matches
    <3>2. Cardinality(s) # Cardinality(Matches(l))
      BY <3>1, <2>2, <1>3, <1>9, FS_Subset
    <3>3. \A q \in s : row[q].created >= row[p].created
      BY <2>2, <1>3, <1>9
    <3>4. CASE l \in cut'
      <4>1. NotReached(p, l)'
        BY <3>3, <3>4, <1>0, <1>2 DEF NotReached
      <4> QED BY <4>1 DEF LeftOutRightly
    <3>5. CASE Cardinality(s) = Length(Matches(l), l)
      <4>1. table[l] = "positions" /\ Cardinality(s) = Limit
        BY <3>2, <3>5 DEF Length
      <4>2. {q \in s : row[q].created >= row[p].created} = s
        BY <3>3
      <4>3. CrowdedOut(p, l)'
        BY <4>1, <4>2, <1>0, <1>2 DEF CrowdedOut
      <4> QED BY <4>3 DEF LeftOutRightly
    <3> QED BY <1>1, <3>4, <3>5
  <2>3. CASE p \notin Matches(l)
    <3>1. /\ table[l] = "positions"
          /\ IF filter[l] = "closed" THEN row[p].status # "closed" ELSE row[p].status = "closed"
      <4>1. filter[l] \in {"none", "open", "closed"} /\ row[p].status \in {"open", "closed"}
        BY <1>0, <1>9 DEF PositionsTypeOK, Row
      <4> QED BY <4>1, <2>1, <2>3, <1>9 DEF Matches
    <3> QED BY <3>1, <2>1, <1>0, <1>5, <1>6, <1>7 DEF LeftOutRightly
  <2> QED BY <2>2, <2>3
<1> QED BY <1>0, <1>2, <1>8, <1>9 DEF ListTrue

LEMMA ListsStayTrue ==
  ASSUME PositionsInv, Step
  PROVE  ListsTrue'
<1>0. /\ GoesOn /\ PositionsTypeOK /\ CallsTyped /\ BeforeIsAnswered /\ ListsTrue
      /\ Lists \subseteq Calls
  BY StepsGoOn DEF PositionsInv, Calls
<1> SUFFICES ASSUME NEW l \in Lists, result'[l] = "200" PROVE ListTrue(l)'
  BY DEF ListsTrue, ListTrue
<1>1. ASSUME shown'[l] = shown[l], before'[l] = before[l], begun'[l] = begun[l],
             (l \in cut') <=> (l \in cut), result'[l] = result[l]
      PROVE  ListTrue(l)'
  <2>1. ListTrue(l)
    BY <1>0, <1>1 DEF ListsTrue, ListTrue
  <2> QED BY <2>1, <1>0, <1>1, AnsweredListStaysTrue
<1>2. CASE Tick \/ Crash
  BY <1>1, <1>2 DEF Tick, Crash, lists
<1>3. ASSUME NEW c \in Calls, HandleCall(c) PROVE ListTrue(l)'
  <2>1. CASE (Query(c) \/ QueryBreaksOff(c)) /\ c = l
    BY <2>1, <1>0, QueryAnswersTrue
  <2>2. CASE (Query(c) \/ QueryBreaksOff(c)) /\ c # l
    <3>1. \E s : AnswerList(c, s)
      BY <2>2 DEF Query, QueryBreaksOff
    <3>2. l \in cut' <=> l \in cut
      BY <2>2 DEF Query, QueryBreaksOff
    <3> QED BY <2>2, <3>1, <3>2, <1>0, <1>1 DEF AnswerList, Answer, PositionsTypeOK
  <2>3. CASE Arrive(c)
    <3>1. c # l
      BY <2>3, <1>0 DEF Arrive, CallsTyped
    <3> QED BY <2>3, <3>1, <1>0, <1>1 DEF Arrive, PositionsTypeOK
  <2>4. CASE ReadClock(c) \/ Insert(c) \/ Close(c) \/ CloseNotFound(c) \/ StatementFails(c)
             \/ CommitLate(c) \/ AppendAudit(c) \/ QueryFails(c)
    <3>1. UNCHANGED <<shown, before, begun, cut>>
      BY <2>4 DEF ReadClock, Insert, Close, CloseNotFound, StatementFails, CommitLate,
         AppendAudit, QueryFails, lists
    <3>2. result'[l] = result[l]
      <4>1. CASE c = l
        <5>1. ~ (\/ ReadClock(c) \/ Insert(c) \/ Close(c) \/ CloseNotFound(c)
                 \/ StatementFails(c) \/ CommitLate(c) \/ AppendAudit(c))
          BY <4>1, <1>0, PositionsAssumption
             DEF ReadClock, Insert, Close, CloseNotFound, StatementFails, CommitLate,
                 AppendAudit, CallsTyped
        <5>2. result'[c] = "500"
          BY <2>4, <5>1, <1>0 DEF QueryFails, Answer, PositionsTypeOK
        <5> QED BY <4>1, <5>2
      <4>2. CASE c # l
        BY <4>2, <1>0, <1>3, OneMoves
      <4> QED BY <4>1, <4>2
    <3> QED BY <3>1, <3>2, <1>1
  <2> QED BY <1>3, <2>1, <2>2, <2>3, <2>4 DEF HandleCall
<1> QED BY <1>2, <1>3 DEF Step

-----------------------------------------------------------------------------
\* The two ways to write a time are at most a second apart.
LEMMA TimesApart ==
  ASSUME NEW t \in Nat
  PROVE  Stored(t) - Formatted(t) \in {0, 2}
  BY DEF Stored, Formatted

LEMMA AtMostOne ==
  ASSUME NEW S, IsFiniteSet(S), ~ (Cardinality(S) > 1), NEW j \in S, NEW k \in S
  PROVE  j = k
<1> SUFFICES ASSUME j # k PROVE FALSE
  OBVIOUS
<1>1. IsFiniteSet({j}) /\ Cardinality({j}) = 1
  BY FS_Singleton
<1>2. IsFiniteSet({j, k}) /\ Cardinality({j, k}) = 2
  <2>1. k \notin {j} /\ {j} \cup {k} = {j, k}
    OBVIOUS
  <2> QED BY <1>1, <2>1, FS_AddElement
<1>3. Cardinality({j, k}) \leq Cardinality(S)
  BY FS_Subset
<1>4. Cardinality(S) \in Nat
  BY FS_CardinalityType
<1> QED BY <1>2, <1>3, <1>4

\* A step leaves alone the row of p, its closings at their records and its part of
\* the trail.
LeftAlone(p) ==
  /\ row'[p] = row[p]
  /\ \A k \in ClosesOf(p) : at'[k] = "audit" => at[k] = "audit"
  /\ \A k \in ClosesOf(p) : trail'[k] = trail[k]
  /\ trail' = trail \/ \A k \in ClosesOf(p) : at'[k] = at[k]

\* So does every step but the UPDATE and the record of a closing of p.
LEMMA EntryLeftAlone ==
  ASSUME PositionsInv, Step, NEW p \in entries,
         \A k \in Closes : position[k] = p => at[k] # "late"
  PROVE  \/ \E k \in Closes : position[k] = p /\ (Close(k) \/ AppendAudit(k))
         \/ LeftAlone(p)
<1> USE DEF MoveTo, Answer
<1>0. /\ PositionsTypeOK /\ CallsTyped /\ EntriesAreCreated
      /\ Closes \subseteq Calls /\ Creates \cap Closes = {}
      /\ p \in Creates /\ at[p] \in {"audit", "done"} /\ ClosesOf(p) \subseteq Closes
      /\ \A k \in ClosesOf(p) : position[k] = p
  BY PositionsAssumption
     DEF PositionsInv, PositionsTypeOK, EntriesAreCreated, Calls, ClosesOf
<1> SUFFICES ASSUME ~ \E k \in Closes : position[k] = p /\ (Close(k) \/ AppendAudit(k))
             PROVE  LeftAlone(p)
  OBVIOUS
<1> USE DEF LeftAlone
<1>1. CASE Tick
  BY <1>1 DEF Tick
<1>2. CASE Crash
  BY <1>2, <1>0 DEF Crash
<1>3. ASSUME NEW c \in Calls, HandleCall(c) PROVE LeftAlone(p)
  <2>0. \A d \in Calls : d # c => at'[d] = at[d]
    BY <1>3, OneMoves
  <2>1. CASE ReadClock(c) \/ CloseNotFound(c) \/ StatementFails(c) \/ Arrive(c) \/ Query(c)
             \/ QueryBreaksOff(c) \/ QueryFails(c)
    <3>1. UNCHANGED <<row, trail>>
      BY <2>1 DEF ReadClock, CloseNotFound, StatementFails, Arrive, Query, QueryBreaksOff,
         AnswerList, QueryFails
    <3>2. at'[c] # "audit"
      BY <2>1, <1>0 DEF ReadClock, CloseNotFound, StatementFails, Arrive, Query, QueryBreaksOff,
         AnswerList, QueryFails, PositionsTypeOK
    <3> QED BY <3>1, <3>2, <2>0, <1>0
  <2>2. CASE Insert(c)
    <3>1. c \in Creates /\ c # p
      BY <2>2, <1>0 DEF Insert, CallsTyped
    <3>2. row'[p] = row[p] /\ trail' = trail
      BY <2>2, <3>1, <1>0 DEF Insert, WriteNew, PositionsTypeOK
    <3> QED BY <3>1, <3>2, <2>0, <1>0
  <2>3. CASE Close(c)
    <3>1. c \in Closes /\ position[c] # p
      BY <2>3, <1>0 DEF Close, CallsTyped
    <3>2. row'[p] = row[p] /\ trail' = trail
      BY <2>3, <3>1, <1>0 DEF Close, WriteClose, PositionsTypeOK
    <3> QED BY <3>1, <3>2, <2>0, <1>0
  <2>4. CASE CommitLate(c)
    <3>1. at[c] = "late" /\ at'[c] = "done" /\ trail' = trail
      BY <2>4, <1>0 DEF CommitLate, PositionsTypeOK
    <3>2. CASE c \in Creates /\ WriteNew(c)
      BY <3>1, <3>2, <2>0, <1>0 DEF WriteNew, PositionsTypeOK
    <3>3. CASE c \in Closes /\ WriteClose(c)
      <4>1. position[c] # p
        BY <3>1, <3>3
      <4>2. row'[p] = row[p]
        BY <3>3, <4>1, <1>0 DEF WriteClose, PositionsTypeOK
      <4> QED BY <3>1, <4>2, <2>0, <1>0
    <3> QED BY <2>4, <3>2, <3>3 DEF CommitLate
  <2>5. CASE AppendAudit(c)
    <3>1. c \notin ClosesOf(p) /\ row' = row
          /\ (trail' = trail \/ trail' = [trail EXCEPT ![c] = @ + 1])
      BY <2>5, <1>0 DEF AppendAudit
    <3>2. \A k \in ClosesOf(p) : at'[k] = at[k] /\ trail'[k] = trail[k]
      BY <3>1, <2>0, <1>0 DEF PositionsTypeOK
    <3> QED BY <3>1, <3>2
  <2> QED BY <1>3, <2>1, <2>2, <2>3, <2>4, <2>5 DEF HandleCall
<1> QED BY <1>1, <1>2, <1>3 DEF Step

\* What is dated stays dated while its row and its part of the trail stay.
LEMMA StaysDated ==
  ASSUME PositionsInv, GoesOn, NEW p \in entries, row'[p] = row[p], Dated(p),
         \A k \in ClosesOf(p) : trail'[k] = trail[k]
  PROVE  Dated(p)'
<1>0. PositionsTypeOK /\ TrailIsDone /\ ClosesOf(p)' = ClosesOf(p)
  BY ClosesOfEntry DEF PositionsInv
<1>1. ClosingsOf(p)' = ClosingsOf(p)
  BY <1>0 DEF ClosingsOf
<1>2. \A k \in ClosingsOf(p) : stamp'[k] = stamp[k]
  BY <1>0 DEF ClosingsOf, ClosesOf, TrailIsDone, GoesOn, Calls
<1> QED BY <1>1, <1>2 DEF Dated

\* A position that stays undisturbed has the closings its row tells of: the step
\* that changes the row is the UPDATE of the only call that closes it, the step
\* that adds a record is that call's, and the row still has its time.
LEMMA ClosingsStayDated ==
  ASSUME PositionsInv, Step, Observe, PositionsTypeOK', IsFiniteSet(InFlight)',
         EntriesAreCreated', ClosedStaysClosed', TrailIsDone'
  PROVE  ClosingsAreDated'
<1> SUFFICES ASSUME NEW p \in Positions', p \notin disturbed' PROVE Undisturbed(p)'
  BY DEF ClosingsAreDated
<1>0. /\ PositionsTypeOK /\ CallsTyped /\ EntriesAreCreated /\ ClosedStaysClosed
      /\ TrailIsDone /\ StampsArePast /\ ClosingsAreDated /\ GoesOn /\ HasCause /\ TrailGrows
      /\ Closes \subseteq Calls
  BY StepsGoOn DEF PositionsInv, PositionsTypeOK, Calls
<1>1. /\ p \in Creates /\ p \in Positions /\ p \notin disturbed
      /\ ~ (Cardinality((ClosesOf(p) \cap InFlight)') > 1)
      /\ \A k \in Closes : position[k] = p => ~ CutOff(k)
  BY <1>0 DEF Observe, Positions, GoesOn, asked
<1>2. Undisturbed(p)
  BY <1>0, <1>1 DEF ClosingsAreDated
<1>3. \A j, k \in (ClosesOf(p) \cap InFlight)' : j = k
  <2>1. IsFiniteSet((ClosesOf(p) \cap InFlight)')
    BY FS_Subset
  <2> QED BY <2>1, <1>1, AtMostOne
<1>4. \A k \in Closes : position'[k] = p => at'[k] # "late"
  BY <1>0, <1>1 DEF CutOff, GoesOn, asked
<1>5. SUFFICES /\ \A k \in (ClosesOf(p) \cap InFlight)' : \A j \in ClosingsOf(p)' :
                    stamp'[j] <= stamp'[k]
               /\ \A k \in ClosesOf(p)' : at'[k] = "audit" => row'[p].closed = Stored(stamp'[k])
               /\ (\A k \in ClosesOf(p)' : at'[k] # "audit") => Dated(p)'
  BY <1>3, <1>4 DEF Undisturbed
<1>6. CASE row'[p].status # "closed"
  <2>1. \A k \in ClosesOf(p)' : at'[k] # "audit"
    BY <1>6 DEF ClosedStaysClosed, ClosesOf
  <2>2. ClosingsOf(p)' = {}
    BY <1>6 DEF ClosedStaysClosed, ClosesOf, ClosingsOf
  <2>3. Dated(p)'
    BY <1>6, <2>2 DEF Dated
  <2> QED BY <2>1, <2>2, <2>3
<1>7. CASE row'[p].status = "closed"
  <2>1. p \in entries
    <3>1. p \in entries'
      BY <1>1, <1>7 DEF EntriesAreCreated
    <3> QED BY <3>1, <1>0, <1>7 DEF HasCause
  <2>2. ClosesOf(p)' = ClosesOf(p)
    BY <2>1, <1>0, ClosesOfEntry
  <2>3. \A k \in ClosesOf(p) : k \in Closes /\ k \in Calls /\ position[k] = p
    BY <1>0 DEF ClosesOf
  <2>4. \A k \in Closes : position[k] = p => at[k] # "late"
    BY <1>2 DEF Undisturbed
  <2>o. \A k \in (ClosesOf(p) \cap InFlight)' : \A j \in ClosingsOf(p)' : stamp'[j] <= stamp'[k]
    <3> SUFFICES ASSUME NEW k \in ClosesOf(p), k \in InFlight', NEW j \in ClosesOf(p), trail'[j] > 0
                 PROVE  stamp'[j] <= stamp'[k]
      BY <2>2 DEF ClosingsOf
    <3>1. k \in Closes /\ j \in Closes /\ at'[j] = "done" /\ j # k /\ at'[k] # "done"
      BY <2>3 DEF TrailIsDone, InFlight
    <3>2. CASE trail[j] > 0
      <4>1. stamp'[j] = stamp[j] /\ j \in ClosingsOf(p) /\ stamp[j] <= now
        BY <3>1, <3>2, <2>3, <1>0 DEF TrailIsDone, GoesOn, ClosingsOf, StampsArePast
      <4>2. CASE k \in InFlight
        <5>1. stamp'[k] = stamp[k]
          BY <4>2, <1>0 DEF InFlight, GoesOn
        <5> QED BY <4>1, <4>2, <5>1, <1>2 DEF Undisturbed
      <4>3. CASE k \notin InFlight
        BY <3>1, <4>1, <4>3, StampsStayPast
      <4> QED BY <4>2, <4>3
    <3>3. CASE ~ (trail[j] > 0)
      <4>1. at[j] = "audit" /\ trail' # trail
        BY <3>1, <3>3, <1>0 DEF TrailGrows, PositionsTypeOK
      <4>2. j \in InFlight /\ k \in InFlight
        BY <3>1, <4>1, <2>3, StampsStayPast DEF InFlight
      <4> QED BY <3>1, <4>2, <1>2 DEF Undisturbed
    <3> QED BY <3>2, <3>3
  <2>5. CASE \E k \in Closes : position[k] = p /\ Close(k)
    <3>1. PICK k \in Closes : position[k] = p /\ Close(k)
      BY <2>5
    <3>2. k \in ClosesOf(p)
      BY <3>1 DEF Close, RowsAffected, ClosesOf
    <3>3. row'[p].closed = Stored(stamp[k]) /\ stamp' = stamp
      BY <3>1, <1>0, <1>1, AfterCloseType DEF Close, WriteClose, PositionsTypeOK
    <3>4. at'[k] = "audit"
      BY <3>1, <3>2, <2>3, <1>0 DEF Close, MoveTo, PositionsTypeOK
    <3>5. \A j \in ClosesOf(p) : at'[j] = "audit" => j = k
      BY <3>2, <3>4, <2>2, <2>3, <1>3 DEF InFlight
    <3> QED BY <3>2, <3>3, <3>4, <3>5, <2>2, <2>o
  <2>6. CASE \E k \in Closes : position[k] = p /\ AppendAudit(k)
    <3>1. PICK k \in Closes : position[k] = p /\ AppendAudit(k)
      BY <2>6
    <3>2. at[k] = "audit" /\ at'[k] = "done" /\ stamp' = stamp /\ row' = row
      BY <3>1, <1>0 DEF AppendAudit, Answer, MoveTo, PositionsTypeOK
    <3>3. k \in ClosesOf(p)
      BY <3>1, <3>2, <1>0 DEF ClosedStaysClosed, ClosesOf
    <3>4. trail' = [trail EXCEPT ![k] = @ + 1]
      BY <3>1, <3>2, <1>1 DEF AppendAudit, CutOff
    <3>5. row[p].closed = Stored(stamp[k]) /\ row[p].status = "closed"
      BY <3>2, <3>3, <1>2, <1>7 DEF Undisturbed
    <3>6. \A j \in ClosesOf(p) : at'[j] # "audit"
      <4> SUFFICES ASSUME NEW j \in ClosesOf(p), at'[j] = "audit" PROVE FALSE
        OBVIOUS
      <4>1. j # k
        BY <3>2
      <4>2. at[j] = "audit"
        BY <4>1, <2>3, <3>1, <3>3, OneMoves DEF HandleCall
      <4>3. j \in InFlight /\ k \in InFlight
        BY <4>2, <3>2, <3>3, <2>3 DEF InFlight
      <4> QED BY <4>1, <4>3, <3>3, <1>2 DEF Undisturbed
    <3>7. ClosingsOf(p)' = ClosingsOf(p) \cup {k}
      BY <3>1, <3>3, <3>4, <1>0, <2>2, <2>3 DEF ClosingsOf, PositionsTypeOK
    <3>8. \A j \in ClosingsOf(p)' : j \in Calls /\ stamp[j] \in Nat /\ stamp[j] <= stamp[k]
      <4>1. k \in ClosesOf(p) \cap InFlight
        BY <3>2, <3>3, <2>3 DEF InFlight
      <4>2. \A j \in ClosingsOf(p)' : j \in Calls
        BY <3>3, <3>7, <2>3 DEF ClosingsOf
      <4>3. \A j \in Calls : stamp[j] \in Nat
        BY <1>0, PositionsAssumption DEF PositionsTypeOK, Times
      <4> QED BY <4>1, <4>2, <4>3, <3>7, <1>2 DEF Undisturbed
    <3>9. ASSUME NEW j \in ClosingsOf(p)', Formatted(stamp[k]) <= Formatted(stamp[j])
          PROVE  row[p].closed - Formatted(stamp[j]) \in {0, 2}
      <4>1. stamp[k] \in Nat /\ stamp[j] \in Nat /\ stamp[j] <= stamp[k]
        BY <3>7, <3>8, <3>9
      <4>2. Formatted(stamp[j]) = Formatted(stamp[k])
        BY <4>1, <3>9 DEF Formatted
      <4> QED BY <4>1, <4>2, <3>5, TimesApart
    <3>10. k \in ClosingsOf(p)'
      BY <3>7
    <3>11. Dated(p)'
      BY <3>2, <3>5, <3>9, <3>10 DEF Dated
    <3> QED BY <3>6, <3>11, <2>2, <2>o
  <2>7. CASE ~ \E k \in Closes : position[k] = p /\ (Close(k) \/ AppendAudit(k))
    <3>1. LeftAlone(p)
      BY <2>1, <2>4, <2>7, EntryLeftAlone
    <3>2. \A k \in ClosesOf(p) : at[k] = "audit" => at'[k] = "audit"
      BY <3>1, <2>3, <1>1 DEF CutOff, LeftAlone
    <3>3. \A k \in ClosesOf(p) : at'[k] = "audit" => row'[p].closed = Stored(stamp'[k])
      <4> SUFFICES ASSUME NEW k \in ClosesOf(p), at'[k] = "audit"
                   PROVE  row'[p].closed = Stored(stamp'[k])
        OBVIOUS
      <4>1. at[k] = "audit" /\ stamp'[k] = stamp[k]
        BY <3>1, <2>3, <1>0 DEF GoesOn, LeftAlone
      <4> QED BY <4>1, <3>1, <1>2 DEF Undisturbed, LeftAlone
    <3>4. ASSUME \A k \in ClosesOf(p) : at'[k] # "audit" PROVE Dated(p)'
      <4>1. Dated(p)
        BY <3>2, <3>4, <1>2 DEF Undisturbed
      <4> QED BY <4>1, <3>1, <2>1, <1>0, StaysDated DEF LeftAlone
    <3> QED BY <3>3, <3>4, <2>2, <2>o
  <2> QED BY <2>5, <2>6, <2>7
<1> QED BY <1>6, <1>7

\* Every step keeps the invariant.
LEMMA PositionsStep == PositionsInv /\ [PositionsNext]_positionsVars => PositionsInv'
<1>1. ASSUME PositionsInv, PositionsNext PROVE PositionsInv'
  <2>1. Step /\ Observe /\ disturbed' \subseteq Creates
    BY <1>1 DEF PositionsNext, Observe, PositionsInv, PositionsTypeOK
  <2>2. PositionsTypeOK' /\ CallsTyped'
    BY <1>1, <2>1, PositionsTypes
  <2>3. IsFiniteSet(entries)' /\ IsFiniteSet(InFlight)'
    BY <1>1, <2>1, PositionsFinite
  <2>4. EntriesAreCreated' /\ ClosedStaysClosed' /\ TrailIsDone' /\ StampsArePast'
        /\ BeforeIsAnswered'
    BY <1>1, <2>1, <2>2, EntriesStayCreated, ClosedIsKept, TrailStaysDone, StampsStayPast,
       BeforeStaysAnswered
  <2>5. ListsTrue' /\ ClosingsAreDated'
    BY <1>1, <2>1, <2>2, <2>3, <2>4, ListsStayTrue, ClosingsStayDated
  <2> QED BY <2>2, <2>3, <2>4, <2>5 DEF PositionsInv
<1>2. ASSUME PositionsInv, UNCHANGED positionsVars PROVE PositionsInv'
  <2>1. \A p : ClosesOf(p)' = ClosesOf(p) /\ ClosingsOf(p)' = ClosingsOf(p)
    BY <1>2 DEF positionsVars, ClosesOf, ClosingsOf, InScope, Positions
  <2>2. InFlight' = InFlight /\ Answered' = Answered /\ Positions' = Positions
    BY <1>2 DEF positionsVars, InFlight, Answered, Positions
  <2>3. PositionsTypeOK' /\ CallsTyped' /\ TrailIsDone' /\ StampsArePast'
    BY <1>2 DEF positionsVars, PositionsInv, PositionsTypeOK, CallsTyped, TrailIsDone,
       StampsArePast
  <2>4. IsFiniteSet(entries)' /\ IsFiniteSet(InFlight)'
    BY <1>2, <2>2 DEF positionsVars, PositionsInv
  <2>5. EntriesAreCreated' /\ ClosedStaysClosed' /\ BeforeIsAnswered'
    BY <1>2, <2>1, <2>2 DEF positionsVars, PositionsInv, EntriesAreCreated,
       ClosedStaysClosed, BeforeIsAnswered, InScope, Positions
  <2>6. ListsTrue'
    BY <1>2, <2>1 DEF positionsVars, PositionsInv, ListsTrue, ShownRightly, LeftOutRightly,
       CrowdedOut, NotReached, Closing, ClosedBefore
  <2>7. ClosingsAreDated'
    BY <1>2, <2>1, <2>2 DEF positionsVars, PositionsInv, ClosingsAreDated, Undisturbed, Dated
  <2> QED BY <2>3, <2>4, <2>5, <2>6, <2>7 DEF PositionsInv
<1> QED BY <1>1, <1>2

\* Closings, lists and faults in any order keep tables, answers and trail together.
THEOREM PositionsInvariant == PositionsSpec => []PositionsInv
<1>1. PositionsInit => PositionsInv BY PositionsInitially
<1>2. PositionsInv /\ [PositionsNext]_positionsVars => PositionsInv' BY PositionsStep
<1> QED BY <1>1, <1>2, PTL DEF PositionsSpec

\* The variables keep their types: a list shows entries, rows have the columns of
\* their table, the trail counts records of creations and closings.
THEOREM PositionsTypeCorrect == PositionsSpec => []PositionsTypeOK
<1>1. PositionsInv => PositionsTypeOK
  BY DEF PositionsInv
<1> QED BY <1>1, PositionsInvariant, PTL

\* positionList and qualificationProfileList answer what is true of the table
\* between their arrival and their answer, whatever creations, closings, late
\* commits and crashes overlap them, as far as their limit, or a loop over the
\* rows that breaks off, lets them come.
THEOREM ListsAreTrue == PositionsSpec => []ListsTrue
<1>1. PositionsInv => ListsTrue
  BY DEF PositionsInv
<1> QED BY <1>1, PositionsInvariant, PTL

\* positionClose dates a row as the records of its latest closing date it, wherever
\* no two calls closed it at once and no fault came between.
THEOREM TrailTellsClosings == PositionsSpec => []TrailDatesClosing
<1>1. PositionsInv => TrailDatesClosing
  <2> SUFFICES ASSUME PositionsInv, NEW p \in Positions \ disturbed,
                      ClosesOf(p) \cap InFlight = {}
               PROVE  Dated(p)
    BY DEF TrailDatesClosing
  <2>1. Undisturbed(p)
    BY DEF PositionsInv, ClosingsAreDated
  <2>2. \A k \in ClosesOf(p) : at[k] # "audit"
    BY DEF InFlight, ClosesOf, Calls
  <2> QED BY <2>1, <2>2 DEF Undisturbed
<1> QED BY <1>1, PositionsInvariant, PTL
=============================================================================
