------------------------- MODULE CaseWorkflowProofs -------------------------
(***************************************************************************)
(* Proofs about CaseWorkflow, for any number of cases, institutions, users *)
(* and requests, any length of the active view, any bound on the clock,    *)
(* with faults or without.                                                 *)
(***************************************************************************)
EXTENDS CaseWorkflow, FiniteSetTheorems, TLAPS

\* A statement that was sent, and may still commit, carries a status that
\* RejectStatus let through.
AskedIsValid ==
  \A r \in Requests :
    pc[r] \in {"update", "late"} /\ IsStatus(r) => task[r].ask[2] \in ValidStatuses

\* An audit record is written by a handler whose UPDATE changed a row, or whose
\* SELECT found one: a case of the caller's institution.
AuditsInScope ==
  \A r \in Requests :
    pc[r] \in {"audit", "history"} \/ (pc[r] = "update" /\ IsAssign(r)) => InScope(r)

\* A record is in the trail once at most, and its request is past its first
\* one; the second one of a status change is not yet there while the handler
\* stands before it.
TrailBehindHandler ==
  \A e \in Entries : trail[e] > 0 =>
    /\ trail[e] = 1
    /\ pc[e.by] \in {"history", "done"}
    /\ pc[e.by] = "history" => e.action # "STATUS_CHANGE"

\* The handler of a change without a record is past it too, and will not come
\* back to write it.
MissingBehindHandler ==
  \A r \in unrecorded : pc[r] \in {"history", "done"} /\ ~ Recorded(r)

\* closed_at is NULL just when the status is not closed.
ClosedExactly == \A c \in Cases : row[c].closed = Never <=> row[c].status # "closed"

WorkflowInv ==
  TypeOK /\ AskedIsValid /\ AuditsInScope /\ TrailBehindHandler /\ MissingBehindHandler
    /\ ClosedExactly

\* Rounding to the second keeps a time a natural number, never "no time".
LEMMA StoredType == \A t \in Times : Stored(t) \in Nat /\ Stored(t) # Never
<1>1. ASSUME NEW n \in Nat PROVE n \div 2 \in Nat
  OBVIOUS
<1>2. \A t \in Nat : 2 * ((t + 1) \div 2) \in Nat
  <2> TAKE t \in Nat
  <2>1. t + 1 \in Nat
    OBVIOUS
  <2>2. (t + 1) \div 2 \in Nat
    BY <1>1, <2>1
  <2> QED BY <2>2
<1>3. \A n \in Nat : n # Never
  BY DEF Never
<1>4. \A t \in Times : t \in Nat
  BY ConstantsAssumption DEF Times
<1> QED BY <1>2, <1>3, <1>4 DEF Stored

\* What a request asks is a status of the body or a user, by its kind.
LEMMA TaskType ==
  ASSUME TypeOK, NEW r \in Requests
  PROVE  /\ task[r].case \in Cases
         /\ IsStatus(r) => task[r].ask[2] \in StatusBodies
         /\ ~ IsStatus(r) => task[r].ask[2] \in Users
         /\ IsAssign(r) <=> ~ IsStatus(r)
  BY DEF TypeOK, Tasks, IsStatus, IsAssign

\* The first record of a request is an entry of the trail, told from its second
\* one and from those of others.
LEMMA RecordType ==
  ASSUME NEW r \in Requests
  PROVE  /\ Record(r) \in Entries
         /\ Record(r).by = r
         /\ Record(r).action # "STATUS_CHANGE"
  BY DEF Record, Entries

\* A request whose handler has not come to its audit record has none.
LEMMA NotRecorded ==
  ASSUME TypeOK, TrailBehindHandler, NEW r \in Requests, pc[r] \notin {"history", "done"}
  PROVE  ~ Recorded(r)
  BY RecordType DEF TrailBehindHandler, Recorded

\* What the UPDATE of a request sets, in time or late.
Writes(r) == IF IsStatus(r) THEN WriteStatus(r) ELSE WriteAssignee(r)

\* It sets the columns its request is about and updated_at, of one case, and
\* closed_at just when the status is closed.
LEMMA WriteEffect ==
  ASSUME TypeOK, NEW r \in Requests, Writes(r),
         IsStatus(r) => task[r].ask[2] \in ValidStatuses
  PROVE  /\ row' \in [Cases -> Row]
         /\ \A d \in Cases \ {task[r].case} : row'[d] = row[d]
         /\ row'[task[r].case].updated = Stored(stamp[r])
         /\ IsStatus(r) =>
              /\ row'[task[r].case].status = task[r].ask[2]
              /\ row'[task[r].case].assignee = row[task[r].case].assignee
              /\ row'[task[r].case].closed = Never <=> task[r].ask[2] # "closed"
         /\ IsAssign(r) =>
              /\ row'[task[r].case].assignee = task[r].ask[2]
              /\ row'[task[r].case].status = row[task[r].case].status
              /\ row'[task[r].case].closed = row[task[r].case].closed
<1> DEFINE c == task[r].case
           s == task[r].ask[2]
<1>1. c \in Cases /\ stamp[r] \in Times
  BY TaskType DEF TypeOK
<1>2. Stored(stamp[r]) \in Nat /\ Stored(stamp[r]) # Never
  BY <1>1, StoredType
<1>3. row[c] \in Row
  BY <1>1 DEF TypeOK
<1>4. CASE IsStatus(r)
  <2>1. AfterStatus(r) \in Row
    BY <1>2, <1>3, <1>4 DEF AfterStatus, Row
  <2>2. /\ AfterStatus(r).status = s
        /\ AfterStatus(r).assignee = row[c].assignee
        /\ AfterStatus(r).updated = Stored(stamp[r])
        /\ AfterStatus(r).closed = Never <=> s # "closed"
    BY <1>2, <1>3 DEF AfterStatus, Row
  <2>3. /\ row' \in [Cases -> Row]
        /\ row'[c] = AfterStatus(r)
        /\ \A d \in Cases \ {c} : row'[d] = row[d]
    BY <1>1, <1>4, <2>1 DEF Writes, WriteStatus, TypeOK
  <2>4. ~ IsAssign(r)
    BY <1>4, TaskType
  <2> QED BY <1>4, <2>2, <2>3, <2>4
<1>5. CASE ~ IsStatus(r)
  <2> DEFINE new == [row[c] EXCEPT !.assignee = s, !.updated = Stored(stamp[r])]
  <2>1. s \in Users
    BY <1>5, TaskType
  <2>2. /\ new \in Row /\ new.status = row[c].status /\ new.closed = row[c].closed
        /\ new.assignee = s /\ new.updated = Stored(stamp[r])
    BY <1>2, <1>3, <2>1 DEF Row
  <2>3. row' = [row EXCEPT ![c] = new]
    BY <1>1, <1>3, <1>5 DEF Writes, WriteAssignee, TypeOK, Row
  <2>4. /\ row' \in [Cases -> Row]
        /\ row'[c] = new
        /\ \A d \in Cases \ {c} : row'[d] = row[d]
    BY <1>1, <2>2, <2>3 DEF TypeOK
  <2> QED BY <1>5, <2>2, <2>4
<1> QED BY <1>4, <1>5

\* A write keeps closed_at in step with the status.
LEMMA WriteKeepsClosed ==
  ASSUME TypeOK, ClosedExactly, NEW r \in Requests, Writes(r),
         IsStatus(r) => task[r].ask[2] \in ValidStatuses
  PROVE  row' \in [Cases -> Row] /\ ClosedExactly'
<1>1. /\ task[r].case \in Cases
      /\ IsStatus(r) \/ IsAssign(r)
  BY TaskType
<1> QED BY <1>1, WriteEffect DEF ClosedExactly

-----------------------------------------------------------------------------
\* The invariant holds before any request.
LEMMA InvInit == Init => WorkflowInv
<1> SUFFICES ASSUME Init PROVE WorkflowInv
  OBVIOUS
<1>1. TypeOK
  <2>1. 0 \in Times /\ 0 \in Nat /\ Never \in Nat \cup {Never}
    BY ConstantsAssumption DEF Times
  <2>2. row \in [Cases -> Row]
    BY <2>1 DEF Init, Row, ValidStatuses
  <2> QED BY <2>1, <2>2 DEF Init, TypeOK, Steps
<1>2. ClosedExactly
  BY DEF Init, ClosedExactly
<1>3. \A e \in Entries : ~ trail[e] > 0
  BY DEF Init
<1> QED
  BY <1>1, <1>2, <1>3 DEF Init, WorkflowInv, AskedIsValid, AuditsInScope, TrailBehindHandler,
                          MissingBehindHandler

\* What of the invariant speaks of the handlers and the trail.
Control == AskedIsValid /\ AuditsInScope /\ TrailBehindHandler /\ MissingBehindHandler

\* Kind and scope of a request do not change.
LEMMA SameTask ==
  ASSUME UNCHANGED <<owner, task>>
  PROVE  \A q : /\ IsStatus(q)' = IsStatus(q)
                /\ IsAssign(q)' = IsAssign(q)
                /\ InScope(q)' = InScope(q)
                /\ Record(q)' = Record(q)
  BY DEF IsStatus, IsAssign, InScope, Record

\* A step that leaves the trail alone and moves one handler on, to where the
\* invariant allows it to stand.
LEMMA ControlKeeps ==
  ASSUME WorkflowInv, UNCHANGED <<owner, task, trail>>,
         NEW r \in Requests, NEW step \in Steps, Goto(r, step),
         step \in {"update", "late"} /\ IsStatus(r) => task[r].ask[2] \in ValidStatuses,
         step = "audit" \/ (step = "update" /\ IsAssign(r)) => InScope(r),
         step # "history",
         step = "done" \/ pc[r] \in {"idle", "update"},
         \/ UNCHANGED unrecorded
         \/ pc[r] = "late" /\ step = "done" /\ unrecorded' = unrecorded \cup {r}
  PROVE  Control'
<1> USE DEF WorkflowInv
<1>1. /\ pc'[r] = step
      /\ \A q \in Requests \ {r} : pc'[q] = pc[q]
  BY DEF Goto, TypeOK
<1>2. AskedIsValid'
  BY <1>1, SameTask DEF AskedIsValid
<1>3. AuditsInScope'
  BY <1>1, SameTask DEF AuditsInScope
<1>4. TrailBehindHandler'
  <2> SUFFICES ASSUME NEW e \in Entries, trail[e] > 0
               PROVE  /\ trail[e] = 1
                      /\ pc'[e.by] \in {"history", "done"}
                      /\ pc'[e.by] = "history" => e.action # "STATUS_CHANGE"
    BY DEF TrailBehindHandler
  <2>1. e.by \in Requests
    BY DEF Entries
  <2>2. /\ trail[e] = 1
        /\ pc[e.by] \in {"history", "done"}
        /\ pc[e.by] = "history" => e.action # "STATUS_CHANGE"
    BY DEF TrailBehindHandler
  <2> QED BY <1>1, <2>1, <2>2
<1>5. MissingBehindHandler'
  <2>1. \A q \in Requests : Recorded(q)' <=> Recorded(q)
    BY SameTask DEF Recorded
  <2>2. pc[r] = "late" => ~ Recorded(r)
    BY NotRecorded
  <2>3. unrecorded \subseteq Requests
    BY DEF TypeOK
  <2>4. \A q \in unrecorded : pc'[q] \in {"history", "done"} /\ ~ Recorded(q)
    BY <1>1, <2>3 DEF MissingBehindHandler
  <2> QED BY <1>1, <2>1, <2>2, <2>3, <2>4 DEF MissingBehindHandler
<1> QED BY <1>2, <1>3, <1>4, <1>5 DEF Control

\* An audit record, inserted or lost, of a handler that has none of the kind.
LEMMA LogKeeps ==
  ASSUME WorkflowInv, UNCHANGED <<owner, task>>, NEW r \in Requests,
         NEW action \in {"UPDATE_STATUS", "STATUS_CHANGE", "ASSIGN"}, Log(r, action),
         NEW step \in {"history", "done"}, Goto(r, step),
         \/ pc[r] = "audit" /\ action = Record(r).action /\ (step = "history" => IsStatus(r))
         \/ pc[r] = "history" /\ step = "done" /\ action = "STATUS_CHANGE"
  PROVE  trail' \in [Entries -> Nat] /\ unrecorded' \subseteq Requests /\ Control'
<1> DEFINE new == [action |-> action, by |-> r]
<1> USE DEF WorkflowInv
<1>1. /\ pc'[r] = step
      /\ \A q \in Requests \ {r} : pc'[q] = pc[q]
  BY DEF Goto, TypeOK
<1>2. AskedIsValid'
  BY <1>1, SameTask DEF AskedIsValid
<1>3. InScope(r)
  BY DEF AuditsInScope
<1>4. AuditsInScope'
  BY <1>1, <1>3, SameTask DEF AuditsInScope
<1>5. new \in Entries /\ new.by = r /\ new.action = action
  BY DEF Entries
<1>6. \/ trail' = [trail EXCEPT ![new] = trail[new] + 1] /\ UNCHANGED unrecorded
      \/ trail' = trail /\ unrecorded' = unrecorded /\ action = "STATUS_CHANGE"
      \/ trail' = trail /\ unrecorded' = unrecorded \cup {r} /\ action # "STATUS_CHANGE"
  BY DEF Log
<1>7. /\ trail' \in [Entries -> Nat]
      /\ trail'[new] = trail[new] \/ trail'[new] = trail[new] + 1
      /\ \A e \in Entries \ {new} : trail'[e] = trail[e]
  BY <1>5, <1>6 DEF TypeOK
<1>8. \A e \in Entries : e.by = r /\ e.action = action => e = new
  BY DEF Entries
<1>9. \A e \in Entries : trail[e] > 0 =>
        /\ trail[e] = 1
        /\ e # new
        /\ pc'[e.by] \in {"history", "done"}
        /\ pc'[e.by] = "history" => e.action # "STATUS_CHANGE"
  <2> TAKE e \in Entries
  <2> HAVE trail[e] > 0
  <2>1. e.by \in Requests
    BY DEF Entries
  <2>2. /\ trail[e] = 1
        /\ pc[e.by] \in {"history", "done"}
        /\ pc[e.by] = "history" => e.action # "STATUS_CHANGE"
    BY DEF TrailBehindHandler
  <2>3. e.by = r => pc[r] = "history" /\ e.action # "STATUS_CHANGE"
    BY <2>2
  <2> QED BY <1>1, <1>5, <2>1, <2>2, <2>3
<1>10. trail[new] = 0 /\ trail'[new] \in {0, 1}
  <2>1. trail[new] \in Nat
    BY <1>5 DEF TypeOK
  <2>2. ~ trail[new] > 0
    BY <1>5, <1>9
  <2> QED BY <1>7, <2>1, <2>2
<1>11. TrailBehindHandler'
  <2> SUFFICES ASSUME NEW e \in Entries, trail'[e] > 0
               PROVE  /\ trail'[e] = 1
                      /\ pc'[e.by] \in {"history", "done"}
                      /\ pc'[e.by] = "history" => e.action # "STATUS_CHANGE"
    BY DEF TrailBehindHandler
  <2>1. CASE e # new
    BY <1>7, <1>9, <2>1
  <2>2. CASE e = new
    <3>1. step = "history" => action # "STATUS_CHANGE"
      BY RecordType
    <3> QED BY <1>1, <1>5, <1>10, <2>2, <3>1
  <2> QED BY <2>1, <2>2
<1>12. unrecorded \subseteq Requests /\ unrecorded' \subseteq Requests
  BY <1>6 DEF TypeOK
<1>13. MissingBehindHandler'
  <2> SUFFICES ASSUME NEW q \in unrecorded'
               PROVE  pc'[q] \in {"history", "done"} /\ ~ trail'[Record(q)] > 0
    BY SameTask DEF MissingBehindHandler, Recorded
  <2>1. q \in Requests /\ Record(q) \in Entries /\ Record(q).by = q
    BY <1>12, RecordType
  <2>2. CASE q \in unrecorded /\ q # r
    <3>1. pc[q] \in {"history", "done"} /\ ~ trail[Record(q)] > 0 /\ Record(q) # new
      BY <1>5, <2>1, <2>2 DEF MissingBehindHandler, Recorded
    <3> QED BY <1>1, <1>7, <2>1, <2>2, <3>1
  <2>3. CASE q \in unrecorded /\ q = r
    <3>1. pc[q] \in {"history", "done"} /\ ~ trail[Record(q)] > 0
      BY <2>3 DEF MissingBehindHandler, Recorded
    <3>2. action = "STATUS_CHANGE"
      BY <2>3, <3>1
    <3>3. Record(q) # new
      BY <1>5, <2>1, <3>2, RecordType
    <3> QED BY <1>1, <1>7, <2>1, <2>3, <3>1, <3>3
  <2>4. CASE q \notin unrecorded
    <3>1. q = r /\ trail' = trail /\ action # "STATUS_CHANGE"
      BY <1>6, <2>4
    <3>2. ~ trail[Record(q)] > 0
      BY <3>1, NotRecorded DEF Recorded
    <3> QED BY <1>1, <3>1, <3>2
  <2> QED BY <2>2, <2>3, <2>4
<1> QED BY <1>2, <1>4, <1>7, <1>11, <1>12, <1>13 DEF Control

-----------------------------------------------------------------------------
\* Every step of every handler, a late commit, a crash and the clock keep the
\* invariant.
LEMMA InvStep == WorkflowInv /\ [Next]_vars => WorkflowInv'
<1> SUFFICES ASSUME WorkflowInv, [Next]_vars PROVE WorkflowInv'
  OBVIOUS
<1> USE DEF WorkflowInv
\* What a step that leaves the rows alone has to show.
<1>1. ASSUME UNCHANGED row, TypeOK', Control' PROVE WorkflowInv'
  BY <1>1 DEF ClosedExactly, Control
<1>2. overtaken' \subseteq Requests
  BY DEF Next, Observe, vars, TypeOK
<1>3. ASSUME NEW r \in Requests, RejectStatus(r) PROVE WorkflowInv'
  <2>1. TypeOK'
    BY <1>2, <1>3 DEF RejectStatus, Answer, Goto, TypeOK, Steps
  <2>2. Control'
    BY <1>3, ControlKeeps DEF RejectStatus, Answer, Steps
  <2> QED BY <1>1, <1>3, <2>1, <2>2 DEF RejectStatus
<1>4. ASSUME NEW r \in Requests, StampStatus(r) PROVE WorkflowInv'
  <2>1. TypeOK'
    BY <1>2, <1>4 DEF StampStatus, Goto, TypeOK, Steps
  <2>2. Control'
    <3>1. ~ IsAssign(r)
      BY <1>4, TaskType DEF StampStatus
    <3> QED BY <1>4, <3>1, ControlKeeps DEF StampStatus, Steps
  <2> QED BY <1>1, <1>4, <2>1, <2>2 DEF StampStatus
<1>5. ASSUME NEW r \in Requests, UpdateStatus(r) PROVE WorkflowInv'
  <2>1. row' \in [Cases -> Row] /\ ClosedExactly'
    BY <1>5, WriteKeepsClosed DEF UpdateStatus, AskedIsValid, Writes
  <2>2. TypeOK'
    BY <1>2, <1>5, <2>1 DEF UpdateStatus, Goto, TypeOK, Steps
  <2>3. Control'
    BY <1>5, ControlKeeps DEF UpdateStatus, StatusRowsAffected, Steps
  <2> QED BY <2>1, <2>2, <2>3 DEF Control
<1>6. ASSUME NEW r \in Requests, UpdateStatusNotFound(r) PROVE WorkflowInv'
  <2>1. TypeOK'
    BY <1>2, <1>6 DEF UpdateStatusNotFound, Answer, Goto, TypeOK, Steps
  <2>2. Control'
    BY <1>6, ControlKeeps DEF UpdateStatusNotFound, Answer, Steps
  <2> QED BY <1>1, <1>6, <2>1, <2>2 DEF UpdateStatusNotFound
<1>7. ASSUME NEW r \in Requests, ReadAssignee(r) PROVE WorkflowInv'
  <2>1. row[task[r].case].assignee \in Users \cup {Unassigned}
    BY <1>7, TaskType DEF TypeOK, Row
  <2>2. TypeOK'
    BY <1>2, <1>7, <2>1 DEF ReadAssignee, Goto, TypeOK, Steps
  <2>3. Control'
    <3>1. ~ IsStatus(r)
      BY <1>7, TaskType DEF ReadAssignee
    <3> QED BY <1>7, <3>1, ControlKeeps DEF ReadAssignee, Steps
  <2> QED BY <1>1, <1>7, <2>2, <2>3 DEF ReadAssignee
<1>8. ASSUME NEW r \in Requests, ReadAssigneeNotFound(r) PROVE WorkflowInv'
  <2>1. TypeOK'
    BY <1>2, <1>8 DEF ReadAssigneeNotFound, Answer, Goto, TypeOK, Steps
  <2>2. Control'
    BY <1>8, ControlKeeps DEF ReadAssigneeNotFound, Answer, Steps
  <2> QED BY <1>1, <1>8, <2>1, <2>2 DEF ReadAssigneeNotFound
<1>9. ASSUME NEW r \in Requests, AssignCase(r) PROVE WorkflowInv'
  <2>1. ~ IsStatus(r)
    BY <1>9, TaskType DEF AssignCase
  <2>2. row' \in [Cases -> Row] /\ ClosedExactly'
    BY <1>9, <2>1, WriteKeepsClosed DEF AssignCase, Writes
  <2>3. TypeOK'
    BY <1>2, <1>9, <2>2 DEF AssignCase, Goto, TypeOK, Steps
  <2>4. Control'
    BY <1>9, <2>1, ControlKeeps DEF AssignCase, AuditsInScope, Steps
  <2> QED BY <2>2, <2>3, <2>4 DEF Control
<1>10. ASSUME NEW r \in Requests, UpdateFails(r) PROVE WorkflowInv'
  <2>1. PICK step \in {"done", "late"} : Goto(r, step)
    BY <1>10 DEF UpdateFails, Answer
  <2>2. reply' = [reply EXCEPT ![r] = "500"] /\ pc[r] = "update"
    BY <1>10 DEF UpdateFails, Answer
  <2>3. TypeOK'
    BY <1>2, <1>10, <2>1, <2>2 DEF UpdateFails, Goto, TypeOK, Steps
  <2>4. Control'
    BY <1>10, <2>1, <2>2, ControlKeeps DEF UpdateFails, AskedIsValid, Steps
  <2> QED BY <1>1, <1>10, <2>3, <2>4 DEF UpdateFails
<1>11. ASSUME NEW r \in Requests, CommitLate(r) PROVE WorkflowInv'
  <2>1. row' \in [Cases -> Row] /\ ClosedExactly'
    BY <1>11, WriteKeepsClosed DEF CommitLate, AskedIsValid, Writes
  <2>2. TypeOK'
    BY <1>2, <1>11, <2>1 DEF CommitLate, Goto, TypeOK, Steps
  <2>3. Control'
    BY <1>11, ControlKeeps DEF CommitLate, Steps
  <2> QED BY <2>1, <2>2, <2>3 DEF Control
<1>12. ASSUME NEW r \in Requests, AuditAssign(r) PROVE WorkflowInv'
  <2>1. Record(r).action = "ASSIGN"
    BY <1>12, TaskType DEF AuditAssign, Record
  <2>2. trail' \in [Entries -> Nat] /\ unrecorded' \subseteq Requests /\ Control'
    BY <1>12, <2>1, LogKeeps DEF AuditAssign, Answer
  <2>3. TypeOK'
    BY <1>2, <1>12, <2>2 DEF AuditAssign, Answer, Goto, TypeOK, Steps
  <2> QED BY <1>1, <1>12, <2>2, <2>3 DEF AuditAssign
<1>13. ASSUME NEW r \in Requests, AuditStatus(r) PROVE WorkflowInv'
  <2>1. Record(r).action = "UPDATE_STATUS"
    BY <1>13 DEF AuditStatus, Record
  <2>2. trail' \in [Entries -> Nat] /\ unrecorded' \subseteq Requests /\ Control'
    BY <1>13, <2>1, LogKeeps DEF AuditStatus
  <2>3. TypeOK'
    BY <1>2, <1>13, <2>2 DEF AuditStatus, Goto, TypeOK, Steps
  <2> QED BY <1>1, <1>13, <2>2, <2>3 DEF AuditStatus
<1>14. ASSUME NEW r \in Requests, AuditHistory(r) PROVE WorkflowInv'
  <2>1. trail' \in [Entries -> Nat] /\ unrecorded' \subseteq Requests /\ Control'
    BY <1>14, LogKeeps DEF AuditHistory, Answer
  <2>2. TypeOK'
    BY <1>2, <1>14, <2>1 DEF AuditHistory, Answer, Goto, TypeOK, Steps
  <2> QED BY <1>1, <1>14, <2>1, <2>2 DEF AuditHistory
<1>15. ASSUME Crash PROVE WorkflowInv'
  <2>1. \A r \in Requests :
          /\ pc[r] \in Steps
          /\ pc'[r] = IF r \in InFlight THEN IF pc[r] = "update" THEN "late" ELSE "done"
                                        ELSE pc[r]
    BY <1>15 DEF Crash, TypeOK
  <2>2. pc' \in [Requests -> Steps]
    BY <1>15, <2>1 DEF Crash, Steps
  <2>3. TypeOK'
    BY <1>2, <1>15, <2>2 DEF Crash, TypeOK
  <2>4. AskedIsValid'
    BY <1>15, <2>1, SameTask DEF Crash, AskedIsValid, InFlight
  <2>5. AuditsInScope'
    BY <1>15, <2>1, SameTask DEF Crash, AuditsInScope, InFlight, Steps
  <2>6. TrailBehindHandler'
    <3> SUFFICES ASSUME NEW e \in Entries, trail[e] > 0
                 PROVE  /\ trail[e] = 1
                        /\ pc'[e.by] \in {"history", "done"}
                        /\ pc'[e.by] = "history" => e.action # "STATUS_CHANGE"
      BY <1>15 DEF Crash, TrailBehindHandler
    <3>1. e.by \in Requests
      BY DEF Entries
    <3> QED BY <2>1, <3>1 DEF TrailBehindHandler, InFlight
  <2>7. MissingBehindHandler'
    <3>1. \A q \in Requests : Recorded(q)' <=> Recorded(q)
      BY <1>15, SameTask DEF Crash, Recorded
    <3>2. \A q \in Requests : pc[q] = "audit" => ~ Recorded(q)
      BY NotRecorded
    <3>3. /\ unrecorded \subseteq Requests
          /\ unrecorded' = unrecorded \cup {q \in Requests : pc[q] = "audit"}
      BY <1>15 DEF Crash, TypeOK
    <3> QED BY <2>1, <3>1, <3>2, <3>3 DEF MissingBehindHandler, InFlight
  <2> QED BY <1>1, <1>15, <2>3, <2>4, <2>5, <2>6, <2>7 DEF Crash, Control
<1>16. ASSUME Tick PROVE WorkflowInv'
  <2>1. now' \in Times
    BY <1>16, ConstantsAssumption DEF Tick, TypeOK, Times
  <2>2. TypeOK'
    BY <1>2, <1>16, <2>1 DEF Tick, TypeOK
  <2>3. Control'
    BY <1>16, SameTask DEF Tick, Control, AskedIsValid, AuditsInScope, TrailBehindHandler,
                           MissingBehindHandler, Recorded
  <2> QED BY <1>1, <1>16, <2>2, <2>3 DEF Tick
<1>17. ASSUME UNCHANGED vars PROVE WorkflowInv'
  <2>1. Control'
    BY <1>17, SameTask DEF vars, Control, AskedIsValid, AuditsInScope, TrailBehindHandler,
                           MissingBehindHandler, Recorded
  <2>2. TypeOK'
    BY <1>17 DEF vars, TypeOK
  <2> QED BY <1>1, <1>17, <2>1, <2>2 DEF vars
<1> QED
  BY <1>3, <1>4, <1>5, <1>6, <1>7, <1>8, <1>9, <1>10, <1>11, <1>12, <1>13, <1>14,
     <1>15, <1>16, <1>17 DEF Next, Step, Handle

\* The invariant holds in every state of every behaviour of the handlers.
THEOREM WorkflowInvariant == Spec => []WorkflowInv
  BY InvInit, InvStep, PTL DEF Spec

\* The variables keep their types: a status stored is a valid one.
THEOREM TypeCorrect == Spec => []TypeOK
<1>1. WorkflowInv => TypeOK
  BY DEF WorkflowInv
<1> QED BY <1>1, WorkflowInvariant, PTL

\* No closed case is in the active view, and an open one is left out only
\* behind a full view of cases at least as new, or behind such cases when
\* reading the rows broke off, for any length of the view and however status
\* changes and assignments interleave, time out and commit late.
THEOREM ActiveViewExact == Spec => []ActiveViewHidesClosed
<1>1. ASSUME ClosedExactly, NEW c \in Cases,
             NEW v \in ActiveViews(owner[c]) \cup BrokenViews(owner[c])
      PROVE  IF row[c].status = "closed"
             THEN c \notin v
             ELSE c \notin v => /\ \A d \in v : created[c] <= created[d]
                                /\ v \in BrokenViews(owner[c]) \/ Cardinality(v) = ViewLimit
  <2>1. v \in NewestOf(owner[c])
    BY <1>1 DEF ActiveViews, BrokenViews
  <2>2. /\ v \subseteq Open(owner[c])
        /\ \A d \in v, e \in Open(owner[c]) \ v : created[e] <= created[d]
    BY <2>1 DEF NewestOf
  <2>3. c \in Open(owner[c]) <=> row[c].status # "closed"
    BY <1>1 DEF Open, ClosedExactly
  <2>4. v \in BrokenViews(owner[c]) \/ v = Open(owner[c]) \/ Cardinality(v) = ViewLimit
    BY <1>1 DEF ActiveViews
  <2> QED BY <2>2, <2>3, <2>4
<1>2. WorkflowInv => ActiveViewHidesClosed
  BY <1>1 DEF WorkflowInv, ActiveViewHidesClosed
<1> QED BY <1>2, WorkflowInvariant, PTL

\* The answers 404 of a status change: no such case in the institution, or a
\* case already in the status asked for.
THEOREM NotFoundExplained == Spec => NotFoundOrAlreadySo
<1> DEFINE Explained(r) ==
             reply[r] = "none" /\ reply'[r] = "404" /\ IsStatus(r) =>
               /\ row' = row
               /\ InScope(r) => row[task[r].case].status = task[r].ask[2]
\* The one step that answers a status change with 404.
<1>1. ASSUME WorkflowInv, NEW r \in Requests, NEW q \in Requests, UpdateStatusNotFound(q)
      PROVE  Explained(r)
  <2> SUFFICES ASSUME reply[r] = "none", reply'[r] = "404", InScope(r)
               PROVE  row[task[r].case].status = task[r].ask[2]
    BY <1>1 DEF UpdateStatusNotFound
  <2>1. r = q
    BY <1>1 DEF UpdateStatusNotFound, Answer, WorkflowInv, TypeOK
  <2>2. AfterStatus(r) = row[task[r].case]
    BY <1>1, <2>1 DEF UpdateStatusNotFound, StatusRowsAffected
  <2>3. row[task[r].case] \in Row
    BY <1>1, TaskType DEF WorkflowInv, TypeOK
  <2>4. AfterStatus(r).status = task[r].ask[2]
    BY <2>3 DEF AfterStatus, Row
  <2> QED BY <2>2, <2>4
\* Every other step leaves the answers alone or gives another one.
<1>2. ASSUME WorkflowInv, NEW r \in Requests, NEW q \in Requests, Handle(q),
             ~ UpdateStatusNotFound(q)
      PROVE  Explained(r)
  <2> SUFFICES ASSUME reply[r] = "none", reply'[r] = "404", IsStatus(r) PROVE FALSE
    OBVIOUS
  <2>1. reply \in [Requests -> {"none", "200", "400", "404", "500"}]
    BY <1>2 DEF WorkflowInv, TypeOK
  <2>2. CASE ReadAssigneeNotFound(q)
    <3>1. r = q
      BY <2>1, <2>2 DEF ReadAssigneeNotFound, Answer
    <3> QED BY <2>2, <3>1 DEF ReadAssigneeNotFound, IsStatus, IsAssign
  <2>3. CASE ~ ReadAssigneeNotFound(q)
    BY <1>2, <2>1, <2>3 DEF Handle, RejectStatus, StampStatus, UpdateStatus, ReadAssignee,
       AssignCase, AuditAssign, AuditStatus, AuditHistory, UpdateFails, Answer
  <2> QED BY <2>2, <2>3
<1>3. ASSUME WorkflowInv, NEW r \in Requests,
             Tick \/ Crash \/ UNCHANGED vars \/ \E q \in Requests : CommitLate(q)
      PROVE  Explained(r)
  BY <1>3 DEF Tick, Crash, CommitLate, vars
<1>4. WorkflowInv /\ [Next]_vars => \A r \in Requests : Explained(r)
  BY <1>1, <1>2, <1>3 DEF Next, Step
<1>5. WorkflowInv /\ [Next]_vars => [\A r \in Requests : Explained(r)]_vars
  BY <1>4
<1> QED BY <1>5, WorkflowInvariant, PTL DEF Spec, NotFoundOrAlreadySo

\* No step of a request of another institution changes a row or the trail, or
\* answers 200.
THEOREM ForeignersAreHarmless == Spec => ForeignersChangeNothing
<1> DEFINE Harmless(r) ==
             ~ InScope(r) /\ pc'[r] # pc[r] =>
               UNCHANGED <<row, trail>> /\ reply'[r] \in {reply[r], "400", "404", "500"}
\* Its handler stops at the UPDATE or before it.
<1>1. ASSUME WorkflowInv, NEW r \in Requests, ~ InScope(r), Handle(r)
      PROVE  Harmless(r)
  <2>1. pc[r] \notin {"audit", "history"} /\ ~ (pc[r] = "update" /\ IsAssign(r))
    BY <1>1 DEF WorkflowInv, AuditsInScope
  <2>2. reply \in [Requests -> {"none", "200", "400", "404", "500"}]
    BY <1>1 DEF WorkflowInv, TypeOK
  <2>3. RejectStatus(r) \/ StampStatus(r) \/ UpdateStatusNotFound(r)
          \/ ReadAssigneeNotFound(r) \/ UpdateFails(r)
    BY <1>1, <2>1 DEF Handle, UpdateStatus, StatusRowsAffected, ReadAssignee, AssignCase,
                      AuditAssign, AuditStatus, AuditHistory
  <2> QED BY <2>2, <2>3 DEF RejectStatus, StampStatus, UpdateStatusNotFound,
                            ReadAssigneeNotFound, UpdateFails, Answer
\* The steps of others leave it where it is.
<1>2. ASSUME WorkflowInv, NEW r \in Requests, NEW q \in Requests \ {r},
             Handle(q) \/ CommitLate(q)
      PROVE  pc'[r] = pc[r]
  BY <1>2 DEF WorkflowInv, TypeOK, Handle, CommitLate, RejectStatus, StampStatus, UpdateStatus,
     UpdateStatusNotFound, ReadAssignee, ReadAssigneeNotFound, AssignCase, AuditAssign,
     AuditStatus, AuditHistory, UpdateFails, Answer, Goto
<1>3. ASSUME NEW r \in Requests, Tick \/ Crash \/ UNCHANGED vars \/ CommitLate(r)
      PROVE  Harmless(r)
  BY <1>3 DEF Tick, Crash, CommitLate, vars
<1>4. WorkflowInv /\ [Next]_vars => \A r \in Requests : Harmless(r)
  BY <1>1, <1>2, <1>3 DEF Next, Step
<1>5. WorkflowInv /\ [Next]_vars => [\A r \in Requests : Harmless(r)]_vars
  BY <1>4
<1> QED BY <1>5, WorkflowInvariant, PTL DEF Spec, ForeignersChangeNothing

-----------------------------------------------------------------------------
\* What a step does to the changes that took effect.  Either none is added and
\* the rows stay, or one is, and its request wrote its row.
Wrote(q) ==
  /\ ~ TookEffect(q) /\ TookEffect(q)'
  /\ \/ pc[q] = "update" /\ UNCHANGED unrecorded
     \/ pc[q] = "late" /\ unrecorded' = unrecorded \cup {q}
  /\ pc'[q] # "update"
  /\ Writes(q)
  /\ UNCHANGED <<stamp, previous>>
  /\ \A r \in Requests \ {q} : TookEffect(r)' <=> TookEffect(r)

WroteNothing ==
  /\ UNCHANGED row
  /\ unrecorded \subseteq unrecorded'
  /\ \A r \in Requests :
       /\ TookEffect(r)' <=> TookEffect(r)
       /\ pc[r] # "idle" => stamp'[r] = stamp[r] /\ previous'[r] = previous[r]

\* A change that took effect belongs to a handler past its UPDATE.
LEMMA EffectBehindHandler ==
  ASSUME WorkflowInv, NEW r \in Requests, TookEffect(r)
  PROVE  pc[r] \in {"audit", "history", "done"}
<1> USE DEF WorkflowInv
<1>1. Recorded(r) => pc[r] \in {"history", "done"}
  BY RecordType DEF TrailBehindHandler, Recorded
<1>2. r \in unrecorded => pc[r] \in {"history", "done"}
  BY DEF MissingBehindHandler
<1> QED BY <1>1, <1>2 DEF TookEffect

\* The steps of one handler that come before its UPDATE, or answer instead.
LEMMA BeforeWriting ==
  ASSUME WorkflowInv, NEW q \in Requests,
         UNCHANGED <<owner, task, row, trail, unrecorded>>,
         NEW step \in {"update", "late", "done"}, Goto(q, step), pc[q] \in {"idle", "update"},
         \A r \in Requests \ {q} : stamp'[r] = stamp[r] /\ previous'[r] = previous[r],
         pc[q] = "idle" \/ UNCHANGED <<stamp, previous>>
  PROVE  WroteNothing
<1>1. \A r \in Requests : Recorded(r)' <=> Recorded(r)
  BY SameTask DEF Recorded
<1>2. /\ pc'[q] = step
      /\ \A r \in Requests \ {q} : pc'[r] = pc[r]
  BY DEF WorkflowInv, TypeOK, Goto
<1>3. \A r \in Requests : TookEffect(r)' <=> TookEffect(r)
  BY <1>1, <1>2 DEF TookEffect
<1> QED BY <1>2, <1>3 DEF WroteNothing

\* A record inserted or lost leaves the change counted as one that took effect.
LEMMA LoggedStill ==
  ASSUME WorkflowInv, NEW q \in Requests, UNCHANGED <<owner, task, row, stamp, previous>>,
         NEW action \in {"UPDATE_STATUS", "STATUS_CHANGE", "ASSIGN"}, Log(q, action),
         NEW step \in {"history", "done"}, Goto(q, step),
         \/ pc[q] = "audit" /\ action = Record(q).action
         \/ pc[q] = "history" /\ action = "STATUS_CHANGE"
  PROVE  WroteNothing
<1> DEFINE new == [action |-> action, by |-> q]
<1>1. /\ pc'[q] = step
      /\ \A r \in Requests \ {q} : pc'[r] = pc[r]
  BY DEF WorkflowInv, TypeOK, Goto
<1>2. new \in Entries
  BY DEF Entries
<1>3. /\ trail \in [Entries -> Nat]
      /\ unrecorded \subseteq Requests
  BY DEF WorkflowInv, TypeOK
<1>4. \A r \in Requests : Record(r) \in Entries /\ (r # q => Record(r) # new)
  BY RecordType
<1>5. \A r \in Requests \ {q} : TookEffect(r)' <=> TookEffect(r)
  <2> TAKE r \in Requests \ {q}
  <2>1. trail'[Record(r)] = trail[Record(r)]
    BY <1>2, <1>3, <1>4 DEF Log
  <2>2. r \in unrecorded' <=> r \in unrecorded
    BY DEF Log
  <2> QED BY <1>1, <2>1, <2>2, SameTask DEF TookEffect, Recorded
<1>6. unrecorded \subseteq unrecorded'
  BY DEF Log
<1>7. CASE pc[q] = "audit"
  <2>1. new = Record(q) /\ action # "STATUS_CHANGE"
    BY <1>7, RecordType DEF Record
  <2>2. TookEffect(q)
    BY <1>7 DEF TookEffect
  <2>3. trail'[Record(q)] = trail[Record(q)] + 1 \/ q \in unrecorded'
    BY <1>2, <1>3, <2>1 DEF Log
  <2>4. trail[Record(q)] \in Nat
    BY <1>3, <1>4
  <2>5. TookEffect(q)'
    BY <2>3, <2>4, SameTask DEF TookEffect, Recorded
  <2> QED BY <1>5, <1>6, <2>2, <2>5 DEF WroteNothing
<1>8. CASE pc[q] = "history" /\ action = "STATUS_CHANGE"
  <2>1. Record(q) # new
    BY <1>8, RecordType
  <2>2. trail'[Record(q)] = trail[Record(q)] /\ unrecorded' = unrecorded
    BY <1>2, <1>3, <1>4, <1>8, <2>1 DEF Log
  <2>3. TookEffect(q)' <=> TookEffect(q)
    BY <1>1, <1>8, <2>2, SameTask DEF TookEffect, Recorded
  <2> QED BY <1>5, <1>6, <2>3 DEF WroteNothing
<1> QED BY <1>7, <1>8

\* An UPDATE that changes a row, in time or late.
LEMMA WritingCounts ==
  ASSUME WorkflowInv, NEW q \in Requests, Writes(q),
         UNCHANGED <<owner, task, trail, stamp, previous>>,
         NEW step \in {"audit", "done"}, Goto(q, step),
         \/ pc[q] = "update" /\ step = "audit" /\ UNCHANGED unrecorded
         \/ pc[q] = "late" /\ step = "done" /\ unrecorded' = unrecorded \cup {q}
  PROVE  Wrote(q)
<1>1. /\ pc'[q] = step
      /\ \A r \in Requests \ {q} : pc'[r] = pc[r]
  BY DEF WorkflowInv, TypeOK, Goto
<1>2. \A r \in Requests : Recorded(r)' <=> Recorded(r)
  BY SameTask DEF Recorded
<1>3. \A r \in Requests \ {q} : TookEffect(r)' <=> TookEffect(r)
  BY <1>1, <1>2 DEF TookEffect
<1>4. ~ TookEffect(q)
  BY EffectBehindHandler
<1>5. TookEffect(q)'
  BY <1>1 DEF TookEffect
<1> QED BY <1>1, <1>3, <1>4, <1>5 DEF Wrote

\* Every step writes one row for one request, or none.
LEMMA OneWriter ==
  ASSUME WorkflowInv, [Next]_vars
  PROVE  /\ UNCHANGED <<owner, task>>
         /\ WroteNothing \/ \E q \in Requests : Wrote(q)
<1> USE DEF WorkflowInv
<1>1. UNCHANGED <<owner, task>>
  BY DEF Next, Step, Tick, Crash, vars, Handle, CommitLate, RejectStatus, StampStatus,
     UpdateStatus, UpdateStatusNotFound, ReadAssignee, ReadAssigneeNotFound, AssignCase,
     AuditAssign, AuditStatus, AuditHistory, UpdateFails
<1>2. CASE Tick \/ UNCHANGED vars
  <2>1. \A r \in Requests : Recorded(r)' <=> Recorded(r)
    BY <1>1, <1>2, SameTask DEF Tick, vars, Recorded
  <2> QED BY <1>1, <1>2, <2>1 DEF Tick, vars, WroteNothing, TookEffect
<1>3. CASE Crash
  <2>1. \A r \in Requests : Recorded(r)' <=> Recorded(r)
    BY <1>1, <1>3, SameTask DEF Crash, Recorded
  <2>2. \A r \in Requests :
          pc'[r] = IF r \in InFlight THEN IF pc[r] = "update" THEN "late" ELSE "done"
                                     ELSE pc[r]
    BY <1>3 DEF Crash
  <2>3. unrecorded' = unrecorded \cup {r \in Requests : pc[r] = "audit"}
    BY <1>3 DEF Crash
  <2>4. \A r \in Requests : TookEffect(r)' <=> TookEffect(r)
    BY <2>1, <2>2, <2>3 DEF TookEffect, InFlight
  <2> QED BY <1>1, <1>3, <2>4 DEF Crash, WroteNothing
<1>4. ASSUME NEW q \in Requests, Handle(q) \/ CommitLate(q)
      PROVE  WroteNothing \/ Wrote(q)
  <2>1. CASE RejectStatus(q) \/ UpdateStatusNotFound(q) \/ ReadAssigneeNotFound(q)
    BY <2>1, BeforeWriting
       DEF RejectStatus, UpdateStatusNotFound, ReadAssigneeNotFound, Answer
  <2>2. CASE StampStatus(q)
    <3>1. \A r \in Requests \ {q} : stamp'[r] = stamp[r] /\ previous'[r] = previous[r]
      BY <2>2 DEF StampStatus, TypeOK
    <3> QED BY <2>2, <3>1, BeforeWriting DEF StampStatus
  <2>3. CASE ReadAssignee(q)
    <3>1. \A r \in Requests \ {q} : stamp'[r] = stamp[r] /\ previous'[r] = previous[r]
      BY <2>3 DEF ReadAssignee, TypeOK
    <3> QED BY <2>3, <3>1, BeforeWriting DEF ReadAssignee
  <2>4. CASE UpdateFails(q)
    <3>1. PICK step \in {"done", "late"} : Goto(q, step)
      BY <2>4 DEF UpdateFails, Answer
    <3> QED BY <2>4, <3>1, BeforeWriting DEF UpdateFails
  <2>5. CASE UpdateStatus(q)
    BY <2>5, WritingCounts DEF UpdateStatus, Writes
  <2>6. CASE AssignCase(q)
    BY <2>6, TaskType, WritingCounts DEF AssignCase, Writes
  <2>7. CASE CommitLate(q)
    BY <2>7, WritingCounts DEF CommitLate, Writes
  <2>8. CASE AuditAssign(q)
    <3>1. Record(q).action = "ASSIGN"
      BY <2>8, TaskType DEF AuditAssign, Record
    <3> QED BY <2>8, <3>1, LoggedStill DEF AuditAssign, Answer
  <2>9. CASE AuditStatus(q)
    <3>1. Record(q).action = "UPDATE_STATUS"
      BY <2>9 DEF AuditStatus, Record
    <3> QED BY <2>9, <3>1, LoggedStill DEF AuditStatus
  <2>10. CASE AuditHistory(q)
    BY <2>10, LoggedStill DEF AuditHistory, Answer
  <2> QED BY <1>4, <2>1, <2>2, <2>3, <2>4, <2>5, <2>6, <2>7, <2>8, <2>9, <2>10 DEF Handle
<1> QED BY <1>1, <1>2, <1>3, <1>4 DEF Next, Step

\* What RowIsRecorded says of one case, told with the requests themselves.
StatusTold(c) ==
  IF \E r \in Effective(c) : IsStatus(r)
  THEN \E r \in Effective(c) : IsStatus(r) /\ task[r].ask[2] = row[c].status
  ELSE row[c].status = "pending"
AssigneeTold(c) ==
  IF \E r \in Effective(c) : IsAssign(r)
  THEN \E r \in Effective(c) : IsAssign(r) /\ task[r].ask[2] = row[c].assignee
  ELSE row[c].assignee = Unassigned
Kept(r, c) ==
  /\ row[c].updated = Stored(stamp[r])
  /\ task[r].ask[2] = IF IsStatus(r) THEN row[c].status ELSE row[c].assignee
TimeTold(c) ==
  IF Effective(c) = {} THEN row[c].updated = 0 ELSE \E r \in Effective(c) : Kept(r, c)

Told == \A c \in Cases : StatusTold(c) /\ AssigneeTold(c) /\ TimeTold(c)

LEMMA ToldIsRecorded == Told => RowIsRecorded
<1> SUFFICES ASSUME Told PROVE RowIsRecorded
  OBVIOUS
<1> DEFINE asked(c, kind) ==
             {task[r].ask[2] : r \in {q \in Effective(c) : task[q].ask[1] = kind}}
<1>1. ASSUME NEW c \in Cases
      PROVE  row[c].status \in IF asked(c, "status") = {} THEN {"pending"} ELSE asked(c, "status")
  <2>1. CASE \E r \in Effective(c) : IsStatus(r)
    BY <1>1, <2>1 DEF Told, StatusTold, IsStatus
  <2>2. CASE ~ \E r \in Effective(c) : IsStatus(r)
    BY <1>1, <2>2 DEF Told, StatusTold, IsStatus
  <2> QED BY <2>1, <2>2
<1>2. ASSUME NEW c \in Cases
      PROVE  row[c].assignee \in IF asked(c, "assign") = {} THEN {Unassigned} ELSE asked(c, "assign")
  <2>1. CASE \E r \in Effective(c) : IsAssign(r)
    BY <1>2, <2>1 DEF Told, AssigneeTold, IsAssign
  <2>2. CASE ~ \E r \in Effective(c) : IsAssign(r)
    BY <1>2, <2>2 DEF Told, AssigneeTold, IsAssign
  <2> QED BY <2>1, <2>2
<1>3. ASSUME NEW c \in Cases PROVE TimeTold(c)
  BY <1>3 DEF Told
<1> QED BY <1>1, <1>2, <1>3 DEF RowIsRecorded, TimeTold, Kept

LEMMA ToldInit == Init => Told
<1> SUFFICES ASSUME Init PROVE Told
  OBVIOUS
<1>1. \A r \in Requests : ~ TookEffect(r)
  BY RecordType DEF Init, TookEffect, Recorded
<1>2. \A c \in Cases : Effective(c) = {}
  BY <1>1 DEF Effective
<1> QED BY <1>2 DEF Init, Told, StatusTold, AssigneeTold, TimeTold

\* A write that takes effect explains the columns it set; those it left are
\* explained as they were.
LEMMA ToldStep == WorkflowInv /\ Told /\ [Next]_vars => Told'
<1> SUFFICES ASSUME WorkflowInv, Told, [Next]_vars, NEW c \in Cases
             PROVE  StatusTold(c)' /\ AssigneeTold(c)' /\ TimeTold(c)'
  BY DEF Told
<1>1. UNCHANGED <<owner, task>>
  BY OneWriter
<1>2. StatusTold(c) /\ AssigneeTold(c) /\ TimeTold(c)
  BY DEF Told
<1>3. \A r \in Requests : TookEffect(r) => pc[r] # "idle"
  BY EffectBehindHandler
<1>4. \A r \in Requests : IsAssign(r) <=> ~ IsStatus(r)
  BY TaskType DEF WorkflowInv
<1>5. CASE WroteNothing
  <2>1. Effective(c)' = Effective(c) /\ row'[c] = row[c]
    BY <1>1, <1>5 DEF WroteNothing, Effective
  <2>2. \A r \in Effective(c) : stamp'[r] = stamp[r] /\ r \in Requests
    BY <1>3, <1>5 DEF WroteNothing, Effective
  <2>3. \A r \in Effective(c) : Kept(r, c)' <=> Kept(r, c)
    BY <1>1, <2>1, <2>2, SameTask DEF Kept
  <2>4. StatusTold(c)'
    BY <1>1, <1>2, <2>1, SameTask DEF StatusTold
  <2>5. AssigneeTold(c)'
    BY <1>1, <1>2, <2>1, SameTask DEF AssigneeTold
  <2>6. TimeTold(c)'
    BY <1>2, <2>1, <2>3 DEF TimeTold
  <2> QED BY <2>4, <2>5, <2>6
<1>6. ASSUME NEW q \in Requests, Wrote(q)
      PROVE  StatusTold(c)' /\ AssigneeTold(c)' /\ TimeTold(c)'
  <2>1. IsStatus(q) => task[q].ask[2] \in ValidStatuses
    BY <1>6 DEF WorkflowInv, AskedIsValid, Wrote
  <2>2. CASE task[q].case # c
    <3>1. row'[c] = row[c]
      BY <1>6, <2>1, <2>2, WriteEffect DEF WorkflowInv, Wrote
    <3>2. Effective(c)' = Effective(c)
      BY <1>1, <1>6, <2>2 DEF Wrote, Effective
    <3>3. \A r \in Effective(c) : Kept(r, c)' <=> Kept(r, c)
      BY <1>1, <1>6, <3>1, SameTask DEF Kept, Wrote
    <3>4. StatusTold(c)'
      BY <1>1, <1>2, <3>1, <3>2, SameTask DEF StatusTold
    <3>5. AssigneeTold(c)'
      BY <1>1, <1>2, <3>1, <3>2, SameTask DEF AssigneeTold
    <3>6. TimeTold(c)'
      BY <1>2, <3>1, <3>2, <3>3 DEF TimeTold
    <3> QED BY <3>4, <3>5, <3>6
  <2>3. CASE task[q].case = c
    <3>1. Effective(c)' = Effective(c) \cup {q}
      BY <1>1, <1>6, <2>3 DEF Wrote, Effective
    <3>2. row'[c].updated = Stored(stamp[q])
      BY <1>6, <2>1, <2>3, WriteEffect DEF WorkflowInv, Wrote
    <3>3. IsStatus(q) =>
            row'[c].status = task[q].ask[2] /\ row'[c].assignee = row[c].assignee
      BY <1>6, <2>1, <2>3, WriteEffect DEF WorkflowInv, Wrote
    <3>4. IsAssign(q) =>
            row'[c].assignee = task[q].ask[2] /\ row'[c].status = row[c].status
      BY <1>6, <2>1, <2>3, WriteEffect DEF WorkflowInv, Wrote
    <3>5. Kept(q, c)'
      BY <1>1, <1>4, <1>6, <3>2, <3>3, <3>4, SameTask DEF Kept, Wrote
    <3>6. StatusTold(c)'
      BY <1>1, <1>2, <1>4, <3>1, <3>3, <3>4, SameTask DEF StatusTold
    <3>7. AssigneeTold(c)'
      BY <1>1, <1>2, <1>4, <3>1, <3>3, <3>4, SameTask DEF AssigneeTold
    <3>8. TimeTold(c)'
      BY <3>1, <3>5 DEF TimeTold
    <3> QED BY <3>6, <3>7, <3>8
  <2> QED BY <2>2, <2>3
<1> QED BY <1>5, <1>6, OneWriter

\* Status, assignee and updated_at of every case are accounted for by changes
\* whose record is in the trail, about to be, or known to be missing.
THEOREM RowsAreRecorded == Spec => []RowIsRecorded
  BY ToldInit, ToldStep, ToldIsRecorded, WorkflowInvariant, PTL DEF Spec

-----------------------------------------------------------------------------
\* How many requests of S have u in f.
Count(S, f, u) == Cardinality({r \in S : f[r] = u})

\* The surplus of u over the assignments S, when the case is with a now.
Balance(S, asks, from, u, a) ==
    Count(S, asks, u) + (IF u = Unassigned THEN 1 ELSE 0)
  - Count(S, from, u) - (IF u = a THEN 1 ELSE 0)

LEMMA CountSplit ==
  ASSUME NEW S, IsFiniteSet(S), NEW L \in SUBSET S, NEW f, NEW u
  PROVE  /\ Count(S, f, u) \in Nat /\ Count(S \ L, f, u) \in Nat /\ Count(L, f, u) \in Nat
         /\ Cardinality(L) \in Nat
         /\ Count(S, f, u) = Count(S \ L, f, u) + Count(L, f, u)
         /\ Count(L, f, u) <= Cardinality(L)
<1> DEFINE A == {r \in S \ L : f[r] = u}
           B == {r \in L : f[r] = u}
           C == {r \in S : f[r] = u}
<1>1. IsFiniteSet(L)
  BY FS_Subset
<1>2. A \in SUBSET S /\ C \in SUBSET S /\ B \in SUBSET L
  OBVIOUS
<1>3. IsFiniteSet(A) /\ IsFiniteSet(C)
  BY <1>2, FS_Subset
<1>4. IsFiniteSet(B) /\ Cardinality(B) <= Cardinality(L)
  BY <1>1, <1>2, FS_Subset
<1>5. C = A \cup B /\ A \cap B = {}
  OBVIOUS
<1>6. Cardinality(A \cap B) = 0
  BY <1>5, FS_EmptySet
<1>7. Cardinality(A \cup B) = Cardinality(A) + Cardinality(B) - Cardinality(A \cap B)
  BY <1>3, <1>4, FS_Union
<1>8. /\ Cardinality(A) \in Nat /\ Cardinality(B) \in Nat /\ Cardinality(C) \in Nat
      /\ Cardinality(L) \in Nat
  BY <1>1, <1>3, <1>4, FS_CardinalityType
<1>9. Cardinality(C) = Cardinality(A) + Cardinality(B)
  <2>1. Cardinality(C) = Cardinality(A \cup B)
    BY <1>5
  <2> HIDE DEF A, B, C
  <2> QED BY <1>6, <1>7, <1>8, <2>1
<1> QED BY <1>4, <1>8, <1>9 DEF Count

\* Leaving assignments out moves the surplus by no more than their number.
LEMMA BalanceWithout ==
  ASSUME NEW S, IsFiniteSet(S), NEW L \in SUBSET S, NEW asks, NEW from, NEW u, NEW a,
         NEW n \in Nat, Balance(S, asks, from, u, a) \in -n .. n
  PROVE  Balance(S \ L, asks, from, u, a) \in -(n + Cardinality(L)) .. n + Cardinality(L)
<1>1. /\ Count(S, asks, u) \in Nat /\ Count(S \ L, asks, u) \in Nat /\ Count(L, asks, u) \in Nat
      /\ Cardinality(L) \in Nat
      /\ Count(S, asks, u) = Count(S \ L, asks, u) + Count(L, asks, u)
      /\ Count(L, asks, u) <= Cardinality(L)
  BY CountSplit
<1>2. /\ Count(S, from, u) \in Nat /\ Count(S \ L, from, u) \in Nat /\ Count(L, from, u) \in Nat
      /\ Count(S, from, u) = Count(S \ L, from, u) + Count(L, from, u)
      /\ Count(L, from, u) <= Cardinality(L)
  BY CountSplit
<1>3. PICK k \in 0 .. 1 : k = IF u = Unassigned THEN 1 ELSE 0
  OBVIOUS
<1>4. PICK m \in 0 .. 1 : m = IF u = a THEN 1 ELSE 0
  OBVIOUS
<1>5. /\ Balance(S, asks, from, u, a) = Count(S, asks, u) + k - Count(S, from, u) - m
      /\ Balance(S \ L, asks, from, u, a)
           = Count(S \ L, asks, u) + k - Count(S \ L, from, u) - m
  BY <1>3, <1>4 DEF Balance
<1> HIDE DEF Balance
<1> QED BY <1>1, <1>2, <1>5

\* One more assignment q, which takes the case from b to asks[q], moves the
\* surplus by one at most, and not at all when it tells b as the assignee it
\* takes the case from.
LEMMA BalanceWith ==
  ASSUME NEW S, IsFiniteSet(S), NEW q, q \notin S, NEW asks, NEW from, NEW u, NEW b
  PROVE  /\ Balance(S \cup {q}, asks, from, u, asks[q]) - Balance(S, asks, from, u, b) \in -1 .. 1
         /\ from[q] = b => Balance(S \cup {q}, asks, from, u, asks[q])
                             = Balance(S, asks, from, u, b)
         /\ Balance(S, asks, from, u, b) \in Int
         /\ Balance(S \cup {q}, asks, from, u, asks[q]) \in Int
<1>1. IsFiniteSet(S \cup {q}) /\ {q} \in SUBSET (S \cup {q}) /\ (S \cup {q}) \ {q} = S
  BY FS_AddElement
<1>2. \A f : Count({q}, f, u) = IF f[q] = u THEN 1 ELSE 0
  <2> TAKE f
  <2>1. CASE f[q] = u
    <3>1. {r \in {q} : f[r] = u} = {q}
      BY <2>1
    <3> QED BY <2>1, <3>1, FS_Singleton DEF Count
  <2>2. CASE f[q] # u
    <3>1. {r \in {q} : f[r] = u} = {}
      BY <2>2
    <3> QED BY <2>2, <3>1, FS_EmptySet DEF Count
  <2> QED BY <2>1, <2>2
<1>3. /\ Count(S \cup {q}, asks, u) \in Nat /\ Count(S, asks, u) \in Nat
      /\ Count(S \cup {q}, asks, u) = Count(S, asks, u) + Count({q}, asks, u)
  BY <1>1, CountSplit
<1>4. /\ Count(S \cup {q}, from, u) \in Nat /\ Count(S, from, u) \in Nat
      /\ Count(S \cup {q}, from, u) = Count(S, from, u) + Count({q}, from, u)
  BY <1>1, CountSplit
<1>5. PICK k \in 0 .. 1 : k = IF u = Unassigned THEN 1 ELSE 0
  OBVIOUS
<1>6. PICK m \in 0 .. 1 : m = IF u = b THEN 1 ELSE 0
  OBVIOUS
<1>7. PICK x \in 0 .. 1 : x = IF asks[q] = u THEN 1 ELSE 0
  OBVIOUS
<1>8. PICK y \in 0 .. 1 : y = IF from[q] = u THEN 1 ELSE 0
  OBVIOUS
<1>9. (IF u = asks[q] THEN 1 ELSE 0) = x
  BY <1>7
<1>10. Balance(S, asks, from, u, b) = Count(S, asks, u) + k - Count(S, from, u) - m
  BY <1>5, <1>6 DEF Balance
<1>11. Balance(S \cup {q}, asks, from, u, asks[q])
         = (Count(S, asks, u) + x) + k - (Count(S, from, u) + y) - x
  BY <1>2, <1>3, <1>4, <1>5, <1>7, <1>8, <1>9 DEF Balance
<1>12. from[q] = b => y = m
  BY <1>6, <1>8
<1> HIDE DEF Balance
<1> QED BY <1>3, <1>4, <1>10, <1>11, <1>12

\* The case going from b to another assignee without an assignment in S moves
\* the surplus by one at most.
LEMMA BalanceMoved ==
  ASSUME NEW S, IsFiniteSet(S), NEW asks, NEW from, NEW u, NEW a, NEW b
  PROVE  /\ Balance(S, asks, from, u, a) - Balance(S, asks, from, u, b) \in -1 .. 1
         /\ Balance(S, asks, from, u, a) \in Int
         /\ Balance(S, asks, from, u, b) \in Int
<1>1. Count(S, asks, u) \in Nat /\ Count(S, from, u) \in Nat
  BY CountSplit
<1>2. PICK k \in 0 .. 1 : k = IF u = Unassigned THEN 1 ELSE 0
  OBVIOUS
<1>3. PICK m \in 0 .. 1 : m = IF u = b THEN 1 ELSE 0
  OBVIOUS
<1>4. PICK x \in 0 .. 1 : x = IF u = a THEN 1 ELSE 0
  OBVIOUS
<1>5. /\ Balance(S, asks, from, u, b) = Count(S, asks, u) + k - Count(S, from, u) - m
      /\ Balance(S, asks, from, u, a) = Count(S, asks, u) + k - Count(S, from, u) - x
  BY <1>2, <1>3, <1>4 DEF Balance
<1> HIDE DEF Balance
<1> QED BY <1>1, <1>5

\* The assignments counted at every step: those of the case with a record or
\* about to write one.
Asks == [r \in Requests |-> task[r].ask[2]]
Counted(c) == Assignments(c) \ unrecorded
Debt(c) == Cardinality(Assignments(c) \cap overtaken) + Cardinality(Assignments(c) \cap unrecorded)

\* An assignment that was not overtaken knows the assignee it will take the
\* case from.
FreshReads ==
  \A r \in Requests :
    IsAssign(r) /\ pc[r] = "update" /\ r \notin overtaken =>
      previous[r] = row[task[r].case].assignee

FewStarted == IsFiniteSet({r \in Requests : pc[r] # "idle"})

Balanced(c) ==
  \A u \in Users \cup {Unassigned} :
    Balance(Counted(c), Asks, previous, u, row[c].assignee) \in -Debt(c) .. Debt(c)

BalanceInv == FreshReads /\ FewStarted /\ \A c \in Cases : Balanced(c)

LEMMA FewEffects ==
  ASSUME WorkflowInv, FewStarted, NEW c
  PROVE  /\ IsFiniteSet(Assignments(c)) /\ IsFiniteSet(Counted(c))
         /\ Cardinality(Assignments(c) \cap overtaken) \in Nat
         /\ Cardinality(Assignments(c) \cap unrecorded) \in Nat
         /\ Debt(c) \in Nat
<1>1. Assignments(c) \in SUBSET {r \in Requests : pc[r] # "idle"}
  BY EffectBehindHandler DEF Assignments, Effective
<1>2. IsFiniteSet(Assignments(c))
  BY <1>1, FS_Subset DEF FewStarted
<1>3. /\ IsFiniteSet(Counted(c))
      /\ IsFiniteSet(Assignments(c) \cap overtaken)
      /\ IsFiniteSet(Assignments(c) \cap unrecorded)
  BY <1>2, FS_Subset, FS_Intersection, FS_Difference DEF Counted
<1>4. /\ Cardinality(Assignments(c) \cap overtaken) \in Nat
      /\ Cardinality(Assignments(c) \cap unrecorded) \in Nat
  BY <1>3, FS_CardinalityType
<1> QED BY <1>2, <1>3, <1>4 DEF Debt

LEMMA BalanceInit == Init => BalanceInv
<1> SUFFICES ASSUME Init PROVE BalanceInv
  OBVIOUS
<1>1. \A r \in Requests : ~ TookEffect(r)
  BY RecordType DEF Init, TookEffect, Recorded
<1>2. \A c \in Cases : Assignments(c) = {}
  BY <1>1 DEF Assignments, Effective
<1>3. {r \in Requests : pc[r] # "idle"} = {}
  BY DEF Init
<1>4. FewStarted
  BY <1>3, FS_EmptySet DEF FewStarted
<1>5. ASSUME NEW c \in Cases PROVE Balanced(c)
  <2>1. Counted(c) = {} /\ Assignments(c) \cap overtaken = {} /\ Assignments(c) \cap unrecorded = {}
    BY <1>2 DEF Counted
  <2>2. Debt(c) = 0
    BY <2>1, FS_EmptySet DEF Debt
  <2>3. \A f, u : Count(Counted(c), f, u) = 0
    <3> TAKE f, u
    <3>1. {r \in Counted(c) : f[r] = u} = {}
      BY <2>1
    <3> QED BY <3>1, FS_EmptySet DEF Count
  <2>4. row[c].assignee = Unassigned
    BY DEF Init
  <2>5. \A u : Balance(Counted(c), Asks, previous, u, row[c].assignee) = 0
    BY <2>3, <2>4 DEF Balance
  <2> QED BY <2>2, <2>5 DEF Balanced
<1> QED BY <1>4, <1>5 DEF Init, BalanceInv, FreshReads

\* Few requests are started by a step, and one that comes to its UPDATE has
\* just read the assignee.
LEMMA FewMoreStarted ==
  ASSUME WorkflowInv, FewStarted, [Next]_vars PROVE FewStarted'
<1> DEFINE S == {r \in Requests : pc[r] # "idle"}
           T == {r \in Requests : pc'[r] # "idle"}
<1>1. CASE Tick \/ UNCHANGED vars
  BY <1>1 DEF Tick, vars, FewStarted
<1>2. CASE Crash
  <2>1. T \in SUBSET S
    BY <1>2 DEF Crash, InFlight
  <2> QED BY <2>1, FS_Subset DEF FewStarted
<1>3. ASSUME NEW q \in Requests, Handle(q) \/ CommitLate(q) PROVE FewStarted'
  <2>1. \A r \in Requests \ {q} : pc'[r] = pc[r]
    BY <1>3 DEF WorkflowInv, TypeOK, Handle, CommitLate, RejectStatus, StampStatus, UpdateStatus,
       UpdateStatusNotFound, ReadAssignee, ReadAssigneeNotFound, AssignCase, AuditAssign,
       AuditStatus, AuditHistory, UpdateFails, Answer, Goto
  <2>2. T \in SUBSET (S \cup {q})
    BY <2>1
  <2>3. IsFiniteSet(S \cup {q})
    BY FS_AddElement DEF FewStarted
  <2> QED BY <2>2, <2>3, FS_Subset DEF FewStarted
<1> QED BY <1>1, <1>2, <1>3 DEF Next, Step

LEMMA ReadsStayFresh ==
  ASSUME WorkflowInv, FreshReads, [Next]_vars PROVE FreshReads'
<1>1. UNCHANGED <<owner, task>>
  BY OneWriter
<1> SUFFICES ASSUME NEW r \in Requests, IsAssign(r), pc'[r] = "update", r \notin overtaken'
             PROVE  previous'[r] = row'[task[r].case].assignee
  BY <1>1, SameTask DEF FreshReads
<1> DEFINE c == task[r].case
<1>2. CASE UNCHANGED vars
  BY <1>2 DEF vars, FreshReads
<1>3. CASE Next
  <2>1. r \notin overtaken /\ ~ Overtakes(r)
    BY <1>3 DEF Next, Observe
  <2>2. CASE pc[r] = "update"
    <3>1. row'[c].assignee = row[c].assignee
      BY <2>1, <2>2 DEF Overtakes
    <3>2. previous'[r] = previous[r]
      BY <2>2, OneWriter DEF WroteNothing, Wrote
    <3> QED BY <2>1, <2>2, <3>1, <3>2 DEF FreshReads
  <2>3. CASE pc[r] # "update"
    <3>1. ~ (Tick \/ Crash)
      BY <2>3 DEF Tick, Crash
    <3>2. PICK q \in Requests : Handle(q) \/ CommitLate(q)
      BY <1>3, <3>1 DEF Next, Step
    <3>3. ~ IsStatus(r)
      BY TaskType DEF WorkflowInv
    <3>4. CASE ReadAssignee(q)
      <4>1. q = r
        BY <2>3, <3>4 DEF ReadAssignee, Goto, WorkflowInv, TypeOK
      <4> QED BY <3>4, <4>1 DEF ReadAssignee, WorkflowInv, TypeOK
    <3>5. CASE ~ ReadAssignee(q)
      BY <2>3, <3>2, <3>3, <3>5 DEF WorkflowInv, TypeOK, Handle, CommitLate, RejectStatus,
         StampStatus, UpdateStatus, UpdateStatusNotFound, ReadAssigneeNotFound, AssignCase,
         AuditAssign, AuditStatus, AuditHistory, UpdateFails, Answer, Goto
    <3> QED BY <3>4, <3>5
  <2> QED BY <2>2, <2>3
<1> QED BY <1>2, <1>3

\* A request is not overtaken any more once it has written.
LEMMA OvertakenBefore ==
  ASSUME WorkflowInv, [Next]_vars, NEW r \in Requests, TookEffect(r) \/ pc'[r] # "update"
  PROVE  r \in overtaken' <=> r \in overtaken
<1>1. pc[r] # "update" \/ pc'[r] # "update"
  BY EffectBehindHandler
<1> QED BY <1>1 DEF Next, Observe, Overtakes, vars

LEMMA BalanceStep == WorkflowInv /\ BalanceInv /\ [Next]_vars => BalanceInv'
<1> SUFFICES ASSUME WorkflowInv, BalanceInv, [Next]_vars PROVE BalanceInv'
  OBVIOUS
<1>1. UNCHANGED <<owner, task>>
  BY OneWriter
<1>2. FewStarted' /\ FreshReads'
  BY FewMoreStarted, ReadsStayFresh DEF BalanceInv
<1> SUFFICES ASSUME NEW c \in Cases, NEW u \in Users \cup {Unassigned}
             PROVE  Balance(Counted(c)', Asks, previous', u, row'[c].assignee)
                      \in -(Debt(c)') .. Debt(c)'
  BY <1>1, <1>2 DEF BalanceInv, Balanced, Asks
<1> DEFINE EA == Assignments(c)
           W == Counted(c)
           a == row[c].assignee
           D == Balance(W, Asks, previous, u, a)
           debt == Debt(c)
<1>3. D \in -debt .. debt
  BY DEF BalanceInv, Balanced
<1>4. /\ IsFiniteSet(EA) /\ IsFiniteSet(W) /\ debt \in Nat
      /\ Cardinality(EA \cap overtaken) \in Nat /\ Cardinality(EA \cap unrecorded) \in Nat
      /\ IsFiniteSet(EA \cap overtaken) /\ IsFiniteSet(EA \cap unrecorded)
  BY FewEffects, FS_Intersection DEF BalanceInv
<1>5. \A r \in EA : r \in Requests /\ TookEffect(r) /\ IsAssign(r) /\ pc[r] # "idle"
  BY EffectBehindHandler DEF Assignments, Effective
<1>6. EA \cap overtaken' = EA \cap overtaken
  BY <1>5, OvertakenBefore
\* No row is written: changes may only turn out to be without a record.
<1>7. CASE WroteNothing
  <2> DEFINE L == W \cap unrecorded'
  <2>1. Assignments(c)' = EA /\ row'[c] = row[c] /\ unrecorded \subseteq unrecorded'
    BY <1>1, <1>7, SameTask DEF WroteNothing, Assignments, Effective
  <2>2. Counted(c)' = W \ L /\ L \in SUBSET W
    BY <2>1 DEF Counted
  <2>3. /\ EA \cap unrecorded' = (EA \cap unrecorded) \cup L
        /\ (EA \cap unrecorded) \cap L = {}
    BY <2>1 DEF Counted
  <2>4. IsFiniteSet(L) /\ Cardinality(L) \in Nat
    BY <1>4, <2>2, FS_Subset, FS_CardinalityType
  <2>5. Cardinality(EA \cap unrecorded') = Cardinality(EA \cap unrecorded) + Cardinality(L)
    <3>1. Cardinality((EA \cap unrecorded) \cap L) = 0
      BY <2>3, FS_EmptySet
    <3>2. Cardinality((EA \cap unrecorded) \cup L)
            = Cardinality(EA \cap unrecorded) + Cardinality(L)
              - Cardinality((EA \cap unrecorded) \cap L)
      BY <1>4, <2>4, FS_Union
    <3>3. Cardinality(EA \cap unrecorded') = Cardinality((EA \cap unrecorded) \cup L)
      BY <2>3
    <3> HIDE DEF L, EA
    <3> QED BY <1>4, <2>4, <3>1, <3>2, <3>3
  <2>6. Debt(c)' = debt + Cardinality(L)
    <3>1. Debt(c)' = Cardinality(EA \cap overtaken') + Cardinality(EA \cap unrecorded')
      BY <2>1 DEF Debt
    <3>2. Cardinality(EA \cap overtaken') = Cardinality(EA \cap overtaken)
      BY <1>6
    <3>3. debt = Cardinality(EA \cap overtaken) + Cardinality(EA \cap unrecorded)
      BY DEF Debt
    <3> HIDE DEF L, EA, debt
    <3> QED BY <1>4, <2>4, <2>5, <3>1, <3>2, <3>3
  <2>7. \A r \in W : previous'[r] = previous[r]
    BY <1>5, <1>7 DEF WroteNothing, Counted
  <2>8. Balance(W \ L, Asks, previous', u, a) = Balance(W \ L, Asks, previous, u, a)
    <3>1. {r \in W \ L : previous'[r] = u} = {r \in W \ L : previous[r] = u}
      BY <2>7
    <3>2. Count(W \ L, previous', u) = Count(W \ L, previous, u)
      BY <3>1 DEF Count
    <3> QED BY <3>2 DEF Balance
  <2>9. Balance(W \ L, Asks, previous, u, a) \in -(debt + Cardinality(L)) .. debt + Cardinality(L)
    <3> HIDE DEF L, W, a, debt
    <3> QED BY <1>3, <1>4, <2>2, BalanceWithout
  <2> QED BY <2>1, <2>2, <2>6, <2>8, <2>9
<1>8. ASSUME NEW q \in Requests, Wrote(q)
      PROVE  Balance(Counted(c)', Asks, previous', u, row'[c].assignee)
               \in -(Debt(c)') .. Debt(c)'
  <2>1. IsStatus(q) => task[q].ask[2] \in ValidStatuses
    BY <1>8 DEF WorkflowInv, AskedIsValid, Wrote
  <2>2. IsAssign(q) <=> ~ IsStatus(q)
    BY TaskType DEF WorkflowInv
  <2>3. q \notin EA /\ previous' = previous /\ q \notin unrecorded
    BY <1>5, <1>8 DEF Wrote, TookEffect
  <2>4. q \in overtaken' <=> q \in overtaken
    BY <1>8, OvertakenBefore DEF Wrote
\* Another case, or another column.
  <2>5. CASE ~ (task[q].case = c /\ IsAssign(q))
    <3>1. row'[c].assignee = a
      BY <1>8, <2>1, <2>2, <2>5, WriteEffect DEF WorkflowInv, Wrote
    <3>2. Assignments(c)' = EA
      BY <1>1, <1>8, <2>5, SameTask DEF Wrote, Assignments, Effective
    <3>3. EA \cap unrecorded' = EA \cap unrecorded
      BY <1>8, <2>3 DEF Wrote
    <3>4. Counted(c)' = W
      BY <3>2, <3>3 DEF Counted
    <3>5. Debt(c)' = debt
      BY <1>6, <3>2, <3>3 DEF Debt
    <3> QED BY <1>3, <2>3, <3>1, <3>4, <3>5
\* An assignment of the case.
  <2>6. CASE task[q].case = c /\ IsAssign(q)
    <3>1. row'[c].assignee = Asks[q]
      BY <1>8, <2>1, <2>6, WriteEffect DEF WorkflowInv, Wrote, Asks
    <3>2. Assignments(c)' = EA \cup {q}
      BY <1>1, <1>8, <2>6, SameTask DEF Wrote, Assignments, Effective
    <3>3. Cardinality((EA \cup {q}) \cap overtaken')
            = Cardinality(EA \cap overtaken) + (IF q \in overtaken THEN 1 ELSE 0)
      <4>1. CASE q \in overtaken
        <5>1. (EA \cup {q}) \cap overtaken' = (EA \cap overtaken) \cup {q}
          BY <1>6, <2>4, <4>1
        <5>2. Cardinality((EA \cap overtaken) \cup {q}) = Cardinality(EA \cap overtaken) + 1
          BY <1>4, <2>3, FS_AddElement
        <5> QED BY <4>1, <5>1, <5>2
      <4>2. CASE q \notin overtaken
        <5>1. (EA \cup {q}) \cap overtaken' = EA \cap overtaken
          BY <1>6, <2>4, <4>2
        <5> QED BY <1>4, <4>2, <5>1
      <4> QED BY <4>1, <4>2
    <3>4. CASE pc[q] = "update" /\ UNCHANGED unrecorded
      <4>1. Counted(c)' = W \cup {q} /\ q \notin W
        BY <2>3, <3>2, <3>4 DEF Counted
      <4>2. Cardinality((EA \cup {q}) \cap unrecorded') = Cardinality(EA \cap unrecorded)
        <5>1. (EA \cup {q}) \cap unrecorded' = EA \cap unrecorded
          BY <2>3, <3>4
        <5> QED BY <5>1
      <4>3. Debt(c)' = debt + (IF q \in overtaken THEN 1 ELSE 0)
        <5>1. Debt(c)' = Cardinality((EA \cup {q}) \cap overtaken')
                         + Cardinality((EA \cup {q}) \cap unrecorded')
          BY <3>2 DEF Debt
        <5>2. debt = Cardinality(EA \cap overtaken) + Cardinality(EA \cap unrecorded)
          BY DEF Debt
        <5>3. PICK k \in 0 .. 1 : k = IF q \in overtaken THEN 1 ELSE 0
          OBVIOUS
        <5> HIDE DEF debt, EA
        <5> QED BY <1>4, <3>3, <4>2, <5>1, <5>2, <5>3
      <4>4. q \notin overtaken => previous[q] = a
        BY <2>6, <3>4 DEF BalanceInv, FreshReads
      <4> DEFINE E == Balance(W \cup {q}, Asks, previous, u, Asks[q])
      <4>5. /\ E - D \in -1 .. 1 /\ E \in Int /\ D \in Int
            /\ previous[q] = a => E = D
        <5>1. IsFiniteSet(W) /\ q \notin W
          BY <1>4, <4>1
        <5> HIDE DEF W, a
        <5>2. /\ E - D \in -1 .. 1
              /\ previous[q] = a => E = D
              /\ D \in Int
              /\ E \in Int
          BY <5>1, BalanceWith
        <5> QED BY <5>2
      <4>6. CASE q \in overtaken
        <5>1. Debt(c)' = debt + 1
          BY <4>3, <4>6
        <5>2. E \in -(debt + 1) .. debt + 1
          <6> HIDE DEF D, E, debt
          <6> QED BY <1>3, <1>4, <4>5
        <5> QED BY <2>3, <3>1, <4>1, <5>1, <5>2
      <4>7. CASE q \notin overtaken
        <5>1. Debt(c)' = debt
          BY <1>4, <4>3, <4>7
        <5>2. E = D
          BY <4>4, <4>5, <4>7
        <5> QED BY <1>3, <2>3, <3>1, <4>1, <5>1, <5>2
      <4> QED BY <4>6, <4>7
    <3>5. CASE unrecorded' = unrecorded \cup {q}
      <4>1. Counted(c)' = W
        BY <2>3, <3>2, <3>5 DEF Counted
      <4>2. Cardinality((EA \cup {q}) \cap unrecorded') = Cardinality(EA \cap unrecorded) + 1
        <5>1. (EA \cup {q}) \cap unrecorded' = (EA \cap unrecorded) \cup {q}
          BY <2>3, <3>5
        <5> QED BY <1>4, <2>3, <5>1, FS_AddElement
      <4>3. Debt(c)' \in Nat /\ Debt(c)' >= debt + 1
        <5>1. Debt(c)' = Cardinality((EA \cup {q}) \cap overtaken')
                         + Cardinality((EA \cup {q}) \cap unrecorded')
          BY <3>2 DEF Debt
        <5>2. debt = Cardinality(EA \cap overtaken) + Cardinality(EA \cap unrecorded)
          BY DEF Debt
        <5>3. PICK k \in 0 .. 1 : k = IF q \in overtaken THEN 1 ELSE 0
          OBVIOUS
        <5> HIDE DEF debt, EA
        <5> QED BY <1>4, <3>3, <4>2, <5>1, <5>2, <5>3
      <4> DEFINE E == Balance(W, Asks, previous, u, Asks[q])
      <4>4. E - D \in -1 .. 1 /\ E \in Int /\ D \in Int
        <5> HIDE DEF W, a
        <5> QED BY <1>4, BalanceMoved
      <4>5. \A n \in Nat : n >= debt + 1 => E \in -n .. n
        <5> HIDE DEF D, E, debt
        <5> QED BY <1>3, <1>4, <4>4
      <4>6. Balance(Counted(c)', Asks, previous', u, row'[c].assignee) = E
        BY <2>3, <3>1, <4>1
      <4> HIDE DEF E, debt
      <4> QED BY <4>3, <4>5, <4>6
    <3> QED BY <1>8, <3>4, <3>5 DEF Wrote
  <2> QED BY <2>5, <2>6
<1> QED BY <1>7, <1>8, OneWriter

\* What holds of the counted assignments gives what the records say: those
\* still without a record are left out.
LEMMA BalanceOfRecords == WorkflowInv /\ BalanceInv => AssignmentsBalance
<1> SUFFICES ASSUME WorkflowInv, BalanceInv, NEW c \in Cases
             PROVE  /\ \A r \in Assignments(c) : trail[Record(r)] <= 1
                    /\ \A u \in Users \cup {Unassigned} :
                         Surplus(c, u) \in
                           -(Cardinality(Assignments(c) \cap overtaken)
                             + Cardinality({r \in Assignments(c) : ~ Recorded(r)}))
                           .. Cardinality(Assignments(c) \cap overtaken)
                              + Cardinality({r \in Assignments(c) : ~ Recorded(r)})
  BY DEF AssignmentsBalance
<1> DEFINE EA == Assignments(c)
           W == Counted(c)
           a == row[c].assignee
           L == {r \in W : ~ Recorded(r)}
           moves == {r \in EA : Recorded(r)}
           missing == {r \in EA : ~ Recorded(r)}
<1>1. /\ IsFiniteSet(EA) /\ IsFiniteSet(W) /\ Debt(c) \in Nat
      /\ Cardinality(EA \cap overtaken) \in Nat /\ Cardinality(EA \cap unrecorded) \in Nat
      /\ IsFiniteSet(EA \cap unrecorded)
  BY FewEffects, FS_Intersection DEF BalanceInv
<1>2. \A r \in EA : r \in Requests
  BY DEF Assignments, Effective
<1>3. ASSUME NEW r \in EA PROVE trail[Record(r)] <= 1
  <2>1. Record(r) \in Entries
    BY <1>2, RecordType
  <2>2. trail[Record(r)] \in Nat /\ (trail[Record(r)] > 0 => trail[Record(r)] = 1)
    BY <2>1 DEF WorkflowInv, TypeOK, TrailBehindHandler
  <2> QED BY <2>2
<1>4. \A r \in EA : r \in unrecorded => ~ Recorded(r)
  BY DEF WorkflowInv, MissingBehindHandler
<1>5. moves = W \ L /\ L \in SUBSET W
  BY <1>4 DEF Counted
<1>6. missing = (EA \cap unrecorded) \cup L /\ (EA \cap unrecorded) \cap L = {}
  BY <1>4 DEF Counted
<1>7. IsFiniteSet(L) /\ Cardinality(L) \in Nat
  BY <1>1, <1>5, FS_Subset, FS_CardinalityType
<1>8. Cardinality(missing) = Cardinality(EA \cap unrecorded) + Cardinality(L)
  <2>1. Cardinality((EA \cap unrecorded) \cap L) = 0
    BY <1>6, FS_EmptySet
  <2>2. Cardinality((EA \cap unrecorded) \cup L)
          = Cardinality(EA \cap unrecorded) + Cardinality(L)
            - Cardinality((EA \cap unrecorded) \cap L)
    BY <1>1, <1>7, FS_Union
  <2> HIDE DEF L, EA, missing
  <2> QED BY <1>1, <1>6, <1>7, <2>1, <2>2
<1>9. Cardinality(EA \cap overtaken) + Cardinality(missing) = Debt(c) + Cardinality(L)
  <2>1. Debt(c) = Cardinality(EA \cap overtaken) + Cardinality(EA \cap unrecorded)
    BY DEF Debt
  <2> HIDE DEF L, EA, missing
  <2> QED BY <1>1, <1>7, <1>8, <2>1
<1>10. ASSUME NEW u \in Users \cup {Unassigned}
       PROVE  Surplus(c, u) \in -(Debt(c) + Cardinality(L)) .. Debt(c) + Cardinality(L)
  <2>1. Balance(W, Asks, previous, u, a) \in -Debt(c) .. Debt(c)
    BY DEF BalanceInv, Balanced
  <2>2. Balance(W \ L, Asks, previous, u, a) \in -(Debt(c) + Cardinality(L)) .. Debt(c) + Cardinality(L)
    <3> HIDE DEF L, W, a
    <3> QED BY <1>1, <1>5, <2>1, BalanceWithout
  <2>3. {r \in moves : Asks[r] = u} = {r \in moves : task[r].ask[2] = u}
    BY <1>2 DEF Asks
  <2>4. Surplus(c, u) = Balance(moves, Asks, previous, u, a)
    BY <2>3 DEF Surplus, Balance, Count
  <2> QED BY <1>5, <2>2, <2>4
<1> QED BY <1>3, <1>9, <1>10

\* The recorded assignments of every case lead from nobody to the assignee in
\* its row, up to one for each that was overtaken and one for each without a
\* record, for any number of overlapping requests.
THEOREM AssignmentsAreBalanced == Spec => []AssignmentsBalance
  BY BalanceInit, BalanceStep, BalanceOfRecords, WorkflowInvariant, PTL DEF Spec
=============================================================================
