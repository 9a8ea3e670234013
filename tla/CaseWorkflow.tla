---------------------------- MODULE CaseWorkflow ----------------------------
(***************************************************************************)
(* What happens to a case after it is created: caseLedgerUpdateStatus,     *)
(* caseLedgerAssign, the list of active cases and the case history.        *)
(*                                                                         *)
(* A request is a goroutine whose SQL statements each commit on their own: *)
(* an assignment reads the previous assignee, updates the row and appends  *)
(* its audit record in three steps, a status change updates the row and    *)
(* appends two audit records.  Time is in half seconds; updated_at and     *)
(* closed_at are TIMESTAMP columns, rounded to the second.                 *)
(* Audit records have random keys and a created_at cut to the second, so   *)
(* the trail is kept without an order: how often each record is in it.     *)
(***************************************************************************)
EXTENDS Integers, FiniteSets

CONSTANTS
  Cases,         \* ids of existing cases
  Institutions,  \* values of scope.InstitutionID and cases.institution_id
  Users,         \* values of assignedTo
  StatusBodies,  \* values of status in the request body, valid or not
  Requests,      \* HTTP calls, each a status change or an assignment
  CreationTimes, \* values of cases.created_at
  ViewLimit,     \* rows the list of active cases holds at most: 100
  MaxTime,       \* bound on the clock
  Faults         \* may statements fail or time out and the process crash?

ValidStatuses == {"pending", "in_progress", "resolved", "closed"}
Unassigned == ""

ASSUME ConstantsAssumption ==
  /\ MaxTime \in Nat
  /\ ViewLimit \in Nat
  /\ CreationTimes \subseteq Int
  /\ Faults \in BOOLEAN
  /\ Unassigned \notin Users
  /\ StatusBodies \cap ValidStatuses # {}

VARIABLES
  now,          \* the wall clock
  owner,        \* case -> cases.institution_id
  created,      \* case -> cases.created_at
  row,          \* case -> the columns the handlers change
  task,         \* request -> case id, caller's institution, what it asks
  pc,           \* request -> where its handler stands
  stamp,        \* request -> the time it sends as updated_at
  previous,     \* request -> assignee read before the UPDATE
  trail,        \* record -> how many rows of audit_records hold it
  caseHistory,  \* case_history, which GET /cases/:id/history reads
  reply,        \* request -> status code it answered, or "none"
  unrecorded,   \* history: requests whose change took effect and whose record
                \* is lost or never sent
  overtaken     \* history: assignments that lost the assignee they had read to
                \* another one, before their own UPDATE

vars == <<now, owner, created, row, task, pc, stamp, previous, trail, caseHistory, reply,
          unrecorded, overtaken>>

Times == 0 .. MaxTime
Never == -1     \* closed_at IS NULL
Stored(t) == 2 * ((t + 1) \div 2)

Row == [status : ValidStatuses, assignee : Users \cup {Unassigned},
        updated : Nat, closed : Nat \cup {Never}]
Tasks == [case : Cases, inst : Institutions,
          ask : {"status"} \X StatusBodies \cup {"assign"} \X Users]
Steps == {"idle", "update", "audit", "history", "late", "done"}
Entries == [action : {"UPDATE_STATUS", "STATUS_CHANGE", "ASSIGN"}, by : Requests]

IsStatus(r) == task[r].ask[1] = "status"
IsAssign(r) == task[r].ask[1] = "assign"
InScope(r) == owner[task[r].case] = task[r].inst
InFlight == {r \in Requests : pc[r] \notin {"idle", "late", "done"}}

TypeOK ==
  /\ now \in Times
  /\ owner \in [Cases -> Institutions]
  /\ created \in [Cases -> CreationTimes]
  /\ row \in [Cases -> Row]
  /\ task \in [Requests -> Tasks]
  /\ pc \in [Requests -> Steps]
  /\ stamp \in [Requests -> Times]
  /\ previous \in [Requests -> Users \cup {Unassigned}]
  /\ trail \in [Entries -> Nat]
  /\ caseHistory \subseteq Requests
  /\ reply \in [Requests -> {"none", "200", "400", "404", "500"}]
  /\ unrecorded \subseteq Requests
  /\ overtaken \subseteq Requests

Init ==
  /\ now = 0
  /\ owner \in [Cases -> Institutions]
  /\ created \in [Cases -> CreationTimes]
  /\ row = [c \in Cases |-> [status |-> "pending", assignee |-> Unassigned,
                             updated |-> 0, closed |-> Never]]
  /\ task \in [Requests -> Tasks]
  /\ pc = [r \in Requests |-> "idle"]
  /\ stamp = [r \in Requests |-> 0]
  /\ previous = [r \in Requests |-> Unassigned]
  /\ trail = [e \in Entries |-> 0]
  /\ caseHistory = {}
  /\ reply = [r \in Requests |-> "none"]
  /\ unrecorded = {}
  /\ overtaken = {}

Goto(r, step) == pc' = [pc EXCEPT ![r] = step]

Answer(r, code) == Goto(r, "done") /\ reply' = [reply EXCEPT ![r] = code]

-----------------------------------------------------------------------------
\* PATCH /cases/:id/status

RejectStatus(r) ==
  /\ pc[r] = "idle" /\ IsStatus(r)
  /\ task[r].ask[2] \notin ValidStatuses
  /\ Answer(r, "400")
  /\ UNCHANGED <<now, owner, created, row, task, stamp, previous, trail, caseHistory, unrecorded>>

\* now := time.Now().UTC(), used for updated_at and closed_at.
StampStatus(r) ==
  /\ pc[r] = "idle" /\ IsStatus(r)
  /\ task[r].ask[2] \in ValidStatuses
  /\ stamp' = [stamp EXCEPT ![r] = now]
  /\ Goto(r, "update")
  /\ UNCHANGED <<now, owner, created, row, task, previous, trail, caseHistory, reply, unrecorded>>

\* Mutant: reopening a case keeps its closed_at.
AfterStatusKeepsClosed(r) ==
  LET c == task[r].case
      s == task[r].ask[2]
  IN  [row[c] EXCEPT !.status = s, !.updated = Stored(stamp[r]),
                     !.closed = IF s = "closed" THEN Stored(stamp[r]) ELSE @]

\* The columns UPDATE ... SET status, updated_at, closed_at leaves in the row.
AfterStatus(r) ==
  LET c == task[r].case
      s == task[r].ask[2]
  IN  [row[c] EXCEPT !.status = s, !.updated = Stored(stamp[r]),
                     !.closed = IF s = "closed" THEN Stored(stamp[r]) ELSE Never]

WriteStatus(r) == row' = [row EXCEPT ![task[r].case] = AfterStatus(r)]

\* Mutant: UPDATE cases ... WHERE id = ?, without the institution.
StatusRowsAffectedAnywhere(r) == AfterStatus(r) # row[task[r].case]

\* Mutant: an UPDATE with a condition on updated_at, to keep out late writers.
StatusRowsAffectedIfNewer(r) ==
  InScope(r) /\ Stored(stamp[r]) > row[task[r].case].updated

\* MySQL counts the rows an UPDATE changed, not those it matched, so zero
\* means no such case in the institution or nothing to change.
StatusRowsAffected(r) == InScope(r) /\ AfterStatus(r) # row[task[r].case]

UpdateStatus(r) ==
  /\ pc[r] = "update" /\ IsStatus(r)
  /\ StatusRowsAffected(r)
  /\ WriteStatus(r)
  /\ Goto(r, "audit")
  /\ UNCHANGED <<now, owner, created, task, stamp, previous, trail, caseHistory, reply, unrecorded>>

\* Mutant: the handler starts over until the UPDATE changes a row.
UpdateStatusRetries(r) ==
  /\ pc[r] = "update" /\ IsStatus(r)
  /\ ~ StatusRowsAffected(r)
  /\ Goto(r, "idle")
  /\ UNCHANGED <<now, owner, created, row, task, stamp, previous, trail, caseHistory, reply, unrecorded>>

UpdateStatusNotFound(r) ==
  /\ pc[r] = "update" /\ IsStatus(r)
  /\ ~ StatusRowsAffected(r)
  /\ Answer(r, "404")
  /\ UNCHANGED <<now, owner, created, row, task, stamp, previous, trail, caseHistory, unrecorded>>

-----------------------------------------------------------------------------
\* POST /cases/:id/assign

\* Mutant: the previous assignee is taken from the request.
ReadAssigneeWanted(r) ==
  /\ pc[r] = "idle" /\ IsAssign(r)
  /\ InScope(r)
  /\ previous' = [previous EXCEPT ![r] = task[r].ask[2]]
  /\ stamp' = [stamp EXCEPT ![r] = now]
  /\ Goto(r, "update")
  /\ UNCHANGED <<now, owner, created, row, task, trail, caseHistory, reply, unrecorded>>

\* SELECT assigned_to; the clock for updated_at is read when it returns.
ReadAssignee(r) ==
  /\ pc[r] = "idle" /\ IsAssign(r)
  /\ InScope(r)
  /\ previous' = [previous EXCEPT ![r] = row[task[r].case].assignee]
  /\ stamp' = [stamp EXCEPT ![r] = now]
  /\ Goto(r, "update")
  /\ UNCHANGED <<now, owner, created, row, task, trail, caseHistory, reply, unrecorded>>

\* No row, or the SELECT failed: both answer 404.
ReadAssigneeNotFound(r) ==
  /\ pc[r] = "idle" /\ IsAssign(r)
  /\ ~ InScope(r) \/ Faults
  /\ Answer(r, "404")
  /\ UNCHANGED <<now, owner, created, row, task, stamp, previous, trail, caseHistory, unrecorded>>

WriteAssignee(r) ==
  row' = [row EXCEPT ![task[r].case].assignee = task[r].ask[2],
                     ![task[r].case].updated = Stored(stamp[r])]

AssignCase(r) ==
  /\ pc[r] = "update" /\ IsAssign(r)
  /\ WriteAssignee(r)
  /\ Goto(r, "audit")
  /\ UNCHANGED <<now, owner, created, task, stamp, previous, trail, caseHistory, reply, unrecorded>>

-----------------------------------------------------------------------------
\* Both handlers: an UPDATE that fails or outlives its three seconds, and the
\* audit records, whose errors are dropped.

UpdateFails(r) ==
  /\ Faults
  /\ pc[r] = "update"
  /\ \/ Answer(r, "500")
     \/ Goto(r, "late") /\ reply' = [reply EXCEPT ![r] = "500"]
  /\ UNCHANGED <<now, owner, created, row, task, stamp, previous, trail, caseHistory, unrecorded>>

CommitLate(r) ==
  /\ pc[r] = "late"
  /\ InScope(r)
  /\ IF IsStatus(r) THEN WriteStatus(r) ELSE WriteAssignee(r)
  /\ unrecorded' = unrecorded \cup {r}
  /\ Goto(r, "done")
  /\ UNCHANGED <<now, owner, created, task, stamp, previous, trail, caseHistory, reply>>

\* _ = store.AppendAudit(rec): one more row with a key of its own, or none.
Log(r, action) ==
  \/ trail' = [trail EXCEPT ![[action |-> action, by |-> r]] = @ + 1] /\ UNCHANGED unrecorded
  \/ /\ Faults
     /\ unrecorded' = IF action = "STATUS_CHANGE" THEN unrecorded ELSE unrecorded \cup {r}
     /\ UNCHANGED trail

\* Mutant: an assignment to the user who has the case already is not audited.
AuditAssignIfChanged(r) ==
  /\ pc[r] = "audit" /\ IsAssign(r)
  /\ IF previous[r] = task[r].ask[2] THEN UNCHANGED <<trail, unrecorded>> ELSE Log(r, "ASSIGN")
  /\ Answer(r, "200")
  /\ UNCHANGED <<now, owner, created, row, task, stamp, previous, caseHistory>>

AuditAssign(r) ==
  /\ pc[r] = "audit" /\ IsAssign(r)
  /\ Log(r, "ASSIGN")
  /\ Answer(r, "200")
  /\ UNCHANGED <<now, owner, created, row, task, stamp, previous, caseHistory>>

AuditStatus(r) ==
  /\ pc[r] = "audit" /\ IsStatus(r)
  /\ Log(r, "UPDATE_STATUS")
  /\ Goto(r, "history")
  /\ UNCHANGED <<now, owner, created, row, task, stamp, previous, caseHistory, reply>>

\* The history record goes to audit_records; case_history gets nothing.
AuditHistory(r) ==
  /\ pc[r] = "history"
  /\ Log(r, "STATUS_CHANGE")
  /\ Answer(r, "200")
  /\ UNCHANGED <<now, owner, created, row, task, stamp, previous, caseHistory>>

-----------------------------------------------------------------------------
Crash ==
  /\ Faults
  /\ InFlight # {}
  /\ pc' = [r \in Requests |->
              IF r \in InFlight THEN IF pc[r] = "update" THEN "late" ELSE "done"
                                ELSE pc[r]]
  /\ unrecorded' = unrecorded \cup {r \in Requests : pc[r] = "audit"}
  /\ UNCHANGED <<now, owner, created, row, task, stamp, previous, trail, caseHistory, reply>>

Tick ==
  /\ now < MaxTime
  /\ now' = now + 1
  /\ UNCHANGED <<owner, created, row, task, pc, stamp, previous, trail, caseHistory, reply, unrecorded>>

\* What the handler of r does next by itself.
Handle(r) ==
  \/ RejectStatus(r) \/ StampStatus(r) \/ UpdateStatus(r) \/ UpdateStatusNotFound(r)
  \/ ReadAssignee(r) \/ ReadAssigneeNotFound(r) \/ AssignCase(r)
  \/ AuditAssign(r) \/ AuditStatus(r) \/ AuditHistory(r)
  \/ UpdateFails(r)

Step == Tick \/ Crash \/ \E r \in Requests : Handle(r) \/ CommitLate(r)

\* Another request changes the assignee while r stands between its SELECT and
\* its UPDATE.
Overtakes(r) ==
  /\ IsAssign(r) /\ pc[r] = "update" /\ pc'[r] = "update"
  /\ row'[task[r].case].assignee # row[task[r].case].assignee

Observe == overtaken' = overtaken \cup {r \in Requests : Overtakes(r)}

Next == Step /\ Observe

Spec == Init /\ [][Next]_vars

\* Every statement of these handlers runs under a three-second context, so a
\* handler that has started never waits for ever.
Fairness == \A r \in Requests : WF_vars(pc[r] # "idle" /\ Handle(r) /\ Observe)
FairSpec == Spec /\ Fairness

-----------------------------------------------------------------------------
\* caseLedgerListCases: what it may answer of the open cases of an institution.
Open(i) == {c \in Cases : owner[c] = i /\ row[c].closed = Never}

\* ORDER BY created_at DESC: none left out is newer than one in the view.
NewestOf(i) ==
  {v \in SUBSET Open(i) : \A c \in v, d \in Open(i) \ v : created[d] <= created[c]}

\* LIMIT 100: all of the open cases, or as many of the newest as the view holds.
ActiveViews(i) ==
  {v \in NewestOf(i) : IF v = Open(i) THEN Cardinality(v) <= ViewLimit
                                      ELSE Cardinality(v) = ViewLimit}

\* The loop over the rows ends on a broken connection as on the last row, and
\* the answer is 200 with what it has read.
BrokenViews(i) == {v \in NewestOf(i) : Faults /\ Cardinality(v) <= ViewLimit}

\* The first record of a change, and whether the trail has it.
Record(r) == [action |-> IF IsStatus(r) THEN "UPDATE_STATUS" ELSE "ASSIGN", by |-> r]
Recorded(r) == trail[Record(r)] > 0

\* The change of r took effect: its record is in the trail, or about to be
\* written, or known to be missing.
TookEffect(r) == Recorded(r) \/ pc[r] = "audit" \/ r \in unrecorded

Effective(c) == {r \in Requests : task[r].case = c /\ TookEffect(r)}
Assignments(c) == {r \in Effective(c) : IsAssign(r)}

\* How much oftener u was given the case (nobody has it first) than it was
\* taken from u or is with u now, as the recorded assignments tell it.
Surplus(c, u) ==
  LET moves == {r \in Assignments(c) : Recorded(r)}
  IN    Cardinality({r \in moves : task[r].ask[2] = u}) + (IF u = Unassigned THEN 1 ELSE 0)
      - Cardinality({r \in moves : previous[r] = u}) - (IF u = row[c].assignee THEN 1 ELSE 0)

\* The active view shows no closed case, and an open one is missing only behind
\* a full view of cases that are at least as new, or, when reading the rows
\* broke off, behind such cases: whatever status changes and assignments
\* interleave, time out or are cut short.
ActiveViewHidesClosed ==
  \A c \in Cases : \A v \in ActiveViews(owner[c]) \cup BrokenViews(owner[c]) :
    IF row[c].status = "closed"
    THEN c \notin v
    ELSE c \notin v => /\ \A d \in v : created[c] <= created[d]
                       /\ v \in BrokenViews(owner[c]) \/ Cardinality(v) = ViewLimit

\* A caller of another institution leaves every row and the audit trail as they
\* are, at each step of its request and at a late commit, and is never told 200.
ForeignersChangeNothing ==
  [][\A r \in Requests : ~ InScope(r) /\ pc'[r] # pc[r] =>
        UNCHANGED <<row, trail>> /\ reply'[r] \in {reply[r], "400", "404", "500"}]_vars

\* A status change of a case in scope that is answered 404 found the case in
\* the very status it asked for (UPDATE counts changed rows), and changed
\* nothing.
NotFoundOrAlreadySo ==
  [][\A r \in Requests :
       reply[r] = "none" /\ reply'[r] = "404" /\ IsStatus(r) =>
         /\ row' = row
         /\ InScope(r) => row[task[r].case].status = task[r].ask[2]]_vars

\* Every column of a case is accounted for by the changes that took effect:
\* its status and its assignee are what one of them asked for, or the first
\* ones when there was none of the kind, and updated_at is the rounded time of
\* one whose own column the row still has.  No change goes unrecorded but by a
\* dropped error, a late commit or a crash, however the requests overlap.
RowIsRecorded ==
  \A c \in Cases :
    LET asked(kind) == {task[r].ask[2] : r \in {q \in Effective(c) : task[q].ask[1] = kind}}
        kept(r) == row[c].updated = Stored(stamp[r]) /\
                   task[r].ask[2] = IF IsStatus(r) THEN row[c].status ELSE row[c].assignee
    IN  /\ row[c].status \in IF asked("status") = {} THEN {"pending"} ELSE asked("status")
        /\ row[c].assignee \in IF asked("assign") = {} THEN {Unassigned} ELSE asked("assign")
        /\ IF Effective(c) = {} THEN row[c].updated = 0 ELSE \E r \in Effective(c) : kept(r)

\* The records of a case's assignments (previousAssignee, newAssignee) lead from
\* nobody to the assignee in its row: every user is given the case as often as
\* it is taken from them.  Each assignment that was overtaken between its SELECT
\* and its UPDATE may put that out by one, and so may each whose record is
\* missing.  No assignment is recorded twice.
AssignmentsBalance ==
  \A c \in Cases :
    LET slack == Cardinality(Assignments(c) \cap overtaken)
                 + Cardinality({r \in Assignments(c) : ~ Recorded(r)})
    IN  /\ \A r \in Assignments(c) : trail[Record(r)] <= 1
        /\ \A u \in Users \cup {Unassigned} : Surplus(c, u) \in -slack .. slack

\* A request that was received is answered, or its process died.
EveryRequestEnds ==
  \A r \in Requests : pc[r] # "idle" ~> pc[r] \in {"late", "done"}

\* The workflow table of the tests: what each status may be followed by.
Transitions == [pending     |-> {"in_progress", "closed"},
                in_progress |-> {"resolved", "pending"},
                resolved    |-> {"closed", "in_progress"},
                closed      |-> {}]

FollowsWorkflow ==
  [][\A c \in Cases : row'[c].status # row[c].status =>
        row'[c].status \in Transitions[row[c].status]]_vars

\* What the README promises of GET /cases/:id/history: a status change that was
\* answered 200 is in the case history.
HistoryTracked ==
  \A r \in Requests : IsStatus(r) /\ reply[r] = "200" => r \in caseHistory
=============================================================================
