---------------------------- MODULE CaseCreation ----------------------------
(***************************************************************************)
(* POST /api/v1/cases: caseLedgerCreateCase and the two helpers it calls,  *)
(* checkCaseDuplicateWindow and generateCaseNumber.                        *)
(*                                                                         *)
(* A request runs as a goroutine that talks to MySQL over a pool of        *)
(* autocommit connections, so each SQL statement is a step of its own and  *)
(* the clock is read again between statements.  Nothing is locked between  *)
(* the duplicate query, the MAX query and the INSERT.  Time is counted in  *)
(* half seconds: created_at is TIMESTAMP without fraction, which MySQL     *)
(* rounds to the nearest second, so the half second is what it can tell.   *)
(*                                                                         *)
(* A request creates at most one case, so a case is named by its request.  *)
(* Requests refused by validation or by a missing scope (400, 403) touch   *)
(* nothing and are left out.                                               *)
(***************************************************************************)
EXTENDS Integers, FiniteSets

CONSTANTS
  Requests,       \* create requests, each from one HTTP call
  Institutions,   \* values of scope.InstitutionID
  Keys,           \* values of (candidateId, caseType, subject)
  Window,         \* DedupeWindowMinutes, in ticks
  DayTicks,       \* ticks in a UTC day
  SeqModulus,     \* 10^6: what RIGHT(case_number, 6) keeps of a serial
  MaxTime,        \* bound on the clock
  Faults          \* may statements fail, time out, or the process crash?

ASSUME ConstantsAssumption ==
  /\ Window \in Nat
  /\ DayTicks \in Nat \ {0}
  /\ SeqModulus \in Nat \ {0}
  /\ MaxTime \in Nat
  /\ Faults \in BOOLEAN

VARIABLES
  now,          \* the wall clock of the API process and the database
  body,         \* request -> its institution and duplicate key
  pc,           \* request -> where its handler stands
  found,        \* request -> cases its duplicate query returned
  at,           \* request -> clock when the duplicate check was over
  date,         \* request -> day in its case number
  seq,          \* request -> serial in its case number
  stamp,        \* request -> the time it sends as created_at
  cases,        \* requests whose row is in table cases
  audited,      \* requests whose CREATE record is in audit_records
  reply,        \* request -> status code it answered, or "none"
  numberedFrom  \* history: request -> cases visible to its MAX query

vars == <<now, body, pc, found, at, date, seq, stamp, cases, audited, reply,
          numberedFrom>>

number == <<date, seq, at, numberedFrom>>

Times == 0 .. MaxTime
Steps == {"idle", "evaluate", "number", "stamp", "insert", "late", "audit", "done"}
Replies == {"none", "201", "409", "500"}

DayOf(t) == t \div DayTicks

\* A TIMESTAMP column keeps whole seconds, rounded to the nearest one.
Stored(t) == 2 * ((t + 1) \div 2)

\* RIGHT(case_number, 6) of a number whose serial is n.
RightSix(n) == n % SeqModulus

InFlight == {r \in Requests : pc[r] \notin {"idle", "done", "late"}}

TypeOK ==
  /\ now \in Times
  /\ body \in [Requests -> [inst : Institutions, key : Keys]]
  /\ pc \in [Requests -> Steps]
  /\ found \in [Requests -> SUBSET Requests]
  /\ at \in [Requests -> Times]
  /\ date \in [Requests -> Int]
  /\ seq \in [Requests -> Int]
  /\ stamp \in [Requests -> Times]
  /\ cases \subseteq Requests
  /\ audited \subseteq Requests
  /\ reply \in [Requests -> Replies]
  /\ numberedFrom \in [Requests -> SUBSET Requests]

Init ==
  /\ now = 0
  /\ body \in [Requests -> [inst : Institutions, key : Keys]]
  /\ pc = [r \in Requests |-> "idle"]
  /\ found = [r \in Requests |-> {}]
  /\ at = [r \in Requests |-> 0]
  /\ date = [r \in Requests |-> 0]
  /\ seq = [r \in Requests |-> 0]
  /\ stamp = [r \in Requests |-> 0]
  /\ cases = {}
  /\ audited = {}
  /\ reply = [r \in Requests |-> "none"]
  /\ numberedFrom = [r \in Requests |-> {}]

-----------------------------------------------------------------------------
\* The duplicate check.

SameKey(c, r) == body[c] = body[r]

\* Mutant: the comparison after the query forgets the window.
IsDuplicateNow(c, r) == SameKey(c, r) /\ Stored(stamp[c]) > now

\* CheckCaseDuplicate: after the query returned, the rows are compared again,
\* against a window that starts at a new reading of the clock.
IsDuplicate(c, r) == SameKey(c, r) /\ Stored(stamp[c]) > now - Window

\* checkCaseDuplicateWindow sends its query.  Its WHERE clause keeps a superset
\* of what CheckCaseDuplicate keeps, an earlier clock only widening the window.
\* The loop over the rows ends on a broken connection as on the last row.
QueryDuplicates(r) ==
  /\ pc[r] = "idle"
  /\ pc' = [pc EXCEPT ![r] = "evaluate"]
  /\ \E seen \in SUBSET cases :
       /\ seen = cases \/ Faults
       /\ found' = [found EXCEPT ![r] = seen]
  /\ UNCHANGED <<now, body, number, stamp, cases, audited, reply>>

\* A failed query is ignored (err == nil && isDup): the handler goes on as if
\* no row had been found.
QueryDuplicatesFails(r) ==
  /\ Faults
  /\ pc[r] = "idle"
  /\ pc' = [pc EXCEPT ![r] = "number"]
  /\ at' = [at EXCEPT ![r] = now]
  /\ UNCHANGED <<now, body, found, date, seq, stamp, cases, audited, reply,
                 numberedFrom>>

RefuseDuplicate(r) ==
  /\ pc[r] = "evaluate"
  /\ \E c \in found[r] : IsDuplicate(c, r)
  /\ pc' = [pc EXCEPT ![r] = "done"]
  /\ reply' = [reply EXCEPT ![r] = "409"]
  /\ UNCHANGED <<now, body, found, number, stamp, cases, audited>>

PassDuplicateCheck(r) ==
  /\ pc[r] = "evaluate"
  /\ \A c \in found[r] : ~ IsDuplicate(c, r)
  /\ pc' = [pc EXCEPT ![r] = "number"]
  /\ at' = [at EXCEPT ![r] = now]
  /\ UNCHANGED <<now, body, found, date, seq, stamp, cases, audited, reply,
                 numberedFrom>>

-----------------------------------------------------------------------------
\* generateCaseNumber: the date comes from the clock, the serial from a MAX
\* over the rows of the institution whose created_at falls on that date.

\* Mutant: the MAX query without its institution condition.
SerialsOfAll(i, d) ==
  {RightSix(seq[c]) : c \in {c \in cases : DayOf(Stored(stamp[c])) = d}}

Serials(i, d) ==
  {RightSix(seq[c]) : c \in {c \in cases : body[c].inst = i /\ DayOf(Stored(stamp[c])) = d}}

IsCoalescedMax(m, S) == m \in S \cup {0} /\ \A s \in S : s <= m

\* Mutant: the first serial of a day is 1, later ones repeat the maximum.
NextSerialStuck(m) == IF m = 0 THEN 1 ELSE m

NextSerial(m) == m + 1

GenerateCaseNumber(r) ==
  /\ pc[r] = "number"
  /\ \E t \in Times :
       LET serials == Serials(body[r].inst, DayOf(t))
       IN  /\ at[r] <= t /\ t <= now
           /\ date' = [date EXCEPT ![r] = DayOf(t)]
           /\ \E m \in serials \cup {0} :
                /\ IsCoalescedMax(m, serials)
                /\ seq' = [seq EXCEPT ![r] = NextSerial(m)]
  /\ numberedFrom' = [numberedFrom EXCEPT ![r] = cases]
  /\ pc' = [pc EXCEPT ![r] = "stamp"]
  /\ UNCHANGED <<now, body, found, at, stamp, cases, audited, reply>>

GenerateCaseNumberFails(r) ==
  /\ Faults
  /\ pc[r] = "number"
  /\ pc' = [pc EXCEPT ![r] = "done"]
  /\ reply' = [reply EXCEPT ![r] = "500"]
  /\ UNCHANGED <<now, body, found, number, stamp, cases, audited>>

-----------------------------------------------------------------------------
\* The INSERT and the audit record.

\* now := time.Now().UTC(), the value of created_at.
ReadClock(r) ==
  /\ pc[r] = "stamp"
  /\ stamp' = [stamp EXCEPT ![r] = now]
  /\ pc' = [pc EXCEPT ![r] = "insert"]
  /\ UNCHANGED <<now, body, found, number, cases, audited, reply>>

\* Mutant: the handler answers right after the INSERT.
InsertCaseUnaudited(r) ==
  /\ pc[r] = "insert"
  /\ cases' = cases \cup {r}
  /\ pc' = [pc EXCEPT ![r] = "done"]
  /\ reply' = [reply EXCEPT ![r] = "201"]
  /\ UNCHANGED <<now, body, found, number, stamp, audited>>

InsertCase(r) ==
  /\ pc[r] = "insert"
  /\ cases' = cases \cup {r}
  /\ pc' = [pc EXCEPT ![r] = "audit"]
  /\ UNCHANGED <<now, body, found, number, stamp, audited, reply>>

InsertCaseFails(r) ==
  /\ Faults
  /\ pc[r] = "insert"
  /\ pc' = [pc EXCEPT ![r] = "done"]
  /\ reply' = [reply EXCEPT ![r] = "500"]
  /\ UNCHANGED <<now, body, found, number, stamp, cases, audited>>

\* Mutant: a timeout of the INSERT is taken for success.
InsertCaseTimeoutIgnored(r) ==
  /\ Faults
  /\ pc[r] = "insert"
  /\ pc' = [pc EXCEPT ![r] = "late"]
  /\ reply' = [reply EXCEPT ![r] = "201"]
  /\ UNCHANGED <<now, body, found, number, stamp, cases, audited>>

\* The three-second context of the handler expires while the INSERT is under
\* way: the client gets 500 and the statement may still commit.
InsertCaseTimesOut(r) ==
  /\ Faults
  /\ pc[r] = "insert"
  /\ pc' = [pc EXCEPT ![r] = "late"]
  /\ reply' = [reply EXCEPT ![r] = "500"]
  /\ UNCHANGED <<now, body, found, number, stamp, cases, audited>>

\* The database commits a statement whose handler is gone.
CommitLate(r) ==
  /\ pc[r] = "late"
  /\ cases' = cases \cup {r}
  /\ pc' = [pc EXCEPT ![r] = "done"]
  /\ UNCHANGED <<now, body, found, number, stamp, audited, reply>>

AppendAudit(r) ==
  /\ pc[r] = "audit"
  /\ audited' = audited \cup {r}
  /\ pc' = [pc EXCEPT ![r] = "done"]
  /\ reply' = [reply EXCEPT ![r] = "201"]
  /\ UNCHANGED <<now, body, found, number, stamp, cases>>

\* _ = store.AppendAudit(auditRec): the error is dropped, the answer is 201.
AppendAuditFails(r) ==
  /\ Faults
  /\ pc[r] = "audit"
  /\ pc' = [pc EXCEPT ![r] = "done"]
  /\ reply' = [reply EXCEPT ![r] = "201"]
  /\ UNCHANGED <<now, body, found, number, stamp, cases, audited>>

-----------------------------------------------------------------------------
\* The process dies: every handler stops without an answer; an INSERT already
\* sent may still commit.  The restarted process keeps nothing of them.
Crash ==
  /\ Faults
  /\ InFlight # {}
  /\ pc' = [r \in Requests |->
              IF r \in InFlight THEN IF pc[r] = "insert" THEN "late" ELSE "done"
                                ELSE pc[r]]
  /\ UNCHANGED <<now, body, found, number, stamp, cases, audited, reply>>

Tick ==
  /\ now < MaxTime
  /\ now' = now + 1
  /\ UNCHANGED <<body, pc, found, number, stamp, cases, audited, reply>>

Handle(r) ==
  \/ QueryDuplicates(r)
  \/ QueryDuplicatesFails(r)
  \/ RefuseDuplicate(r)
  \/ PassDuplicateCheck(r)
  \/ GenerateCaseNumber(r)
  \/ GenerateCaseNumberFails(r)
  \/ ReadClock(r)
  \/ InsertCase(r)
  \/ InsertCaseFails(r)
  \/ InsertCaseTimesOut(r)
  \/ CommitLate(r)
  \/ AppendAudit(r)
  \/ AppendAuditFails(r)

Next == Tick \/ Crash \/ \E r \in Requests : Handle(r)

Spec == Init /\ [][Next]_vars

\* One request at a time: what the handler does when no other overlaps it.
SerialNext == Next /\ Cardinality(InFlight') <= 1

SerialSpec == Init /\ [][SerialNext]_vars

-----------------------------------------------------------------------------
CaseNumber(r) == <<date[r], body[r].inst, seq[r]>>

\* The day in the number is the day the row is stored under.
NumberedOnStoredDay(c) == DayOf(Stored(stamp[c])) = date[c]

\* Two cases share a number only if neither handler saw the other's row when
\* it chose its serial, or one of them is stored under a day that is not the
\* day in its number, or the serials outgrew six digits.
UniqueNumbers ==
  \A c, d \in cases :
    c # d /\ CaseNumber(c) = CaseNumber(d) =>
      \/ c \notin numberedFrom[d] /\ d \notin numberedFrom[c]
      \/ ~ NumberedOnStoredDay(c) \/ ~ NumberedOnStoredDay(d)
      \/ seq[c] >= SeqModulus

\* Serials of an institution and day leave no gap (MAX + 1 of committed rows):
\* a failed or timed-out INSERT does not burn a number.
NoGaps ==
  \A d \in cases : seq[d] > 1 =>
    \E c \in numberedFrom[d] :
      /\ body[c].inst = body[d].inst
      /\ DayOf(Stored(stamp[c])) = date[d]
      /\ RightSix(seq[c]) = seq[d] - 1

\* A case is at least the five-minute window younger than every case with the
\* same key that its duplicate query returned (checkCaseDuplicateWindow),
\* also when the row it saw was left by a request that had answered 500.
DedupeWindow ==
  \A d \in cases : \A c \in found[d] :
    SameKey(c, d) => stamp[d] - Stored(stamp[c]) >= Window

\* The client is never told 201, and the audit trail never says CREATE, of a
\* case that is not in the table; 409 is said only where such a case is.
AnswersAreTrue ==
  \A r \in Requests :
    /\ reply[r] = "201" \/ r \in audited => r \in cases
    /\ reply[r] = "409" => \E c \in cases \ {r} : SameKey(c, r)

\* When no handler is running every case has its CREATE record.
AuditComplete == InFlight = {} => cases \subseteq audited

\* What design.md and questions.md promise: no two cases share a number.
NoSharedNumbers ==
  \A c, d \in cases : CaseNumber(c) = CaseNumber(d) => c = d

\* What api-spec.md promises: no two cases with one key within the window.
NoDuplicatesInWindow ==
  \A c, d \in cases :
    c # d /\ SameKey(c, d) /\ stamp[c] <= stamp[d] => stamp[d] - stamp[c] >= Window

-----------------------------------------------------------------------------
\* One request at a time, and with no fault, the handler implements the atomic
\* register of cases.
Register == INSTANCE CaseRegister WITH
  clock <- now,
  register <- {[id |-> c, inst |-> body[c].inst, key |-> body[c].key,
                date |-> date[c], seq |-> seq[c],
                created |-> Stored(stamp[c])] : c \in cases}

ImplementsRegister == Register!Spec
=============================================================================
