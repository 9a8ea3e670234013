----------------------------- MODULE Positions -----------------------------
(***************************************************************************)
(* Positions and qualification profiles: positionCreate, positionClose,    *)
(* positionList, qualificationProfileCreate and qualificationProfileList.  *)
(*                                                                         *)
(* Both kinds of entry are INSERTed and audited alike; only positions are  *)
(* closed, and only their list ends after so many rows.  Time is in half   *)
(* seconds: a TIMESTAMP column rounds to the second, the RFC 3339 text of  *)
(* an audit record drops the fraction.                                     *)
(***************************************************************************)
EXTENDS Integers, FiniteSets

CONSTANTS
  Creates,       \* calls of POST /positions and POST /profiles/qualifications
  Closes,        \* calls of POST /positions/:id/close
  Lists,         \* calls of GET /positions and GET /profiles/qualifications
  Institutions,  \* values of scope.InstitutionID
  Limit,         \* 100
  MaxTime,       \* bound on the clock
  Faults         \* may statements fail or time out and the process crash?

ASSUME PositionsAssumption ==
  /\ Creates \cap Closes = {} /\ Creates \cap Lists = {} /\ Closes \cap Lists = {}
  /\ Limit \in Nat \ {0}
  /\ MaxTime \in Nat
  /\ Faults \in BOOLEAN

VARIABLES
  now,        \* the wall clock
  inst,       \* call -> its caller's institution
  table,      \* creation or list -> what it creates or lists
  position,   \* closing -> the position it names
  filter,     \* list of positions -> its status parameter, or "none"
  at,         \* call -> where its handler stands
  stamp,      \* call -> the time its handler read
  entries,    \* entries in the tables, named by the calls that created them
  row,        \* entry -> the columns the handlers change
  trail,      \* call -> how many rows of audit_records it appended
  result,     \* call -> status code it answered, or "none"
  shown,      \* list -> entries of its answer
  before,     \* history: list -> creations and closings answered when it arrived
  begun,      \* history: list -> closings that had begun when it was answered
  cut,        \* history: lists whose loop over the rows broke off
  disturbed   \* history: positions two calls closed at once, or whose closing a
              \* fault cut off from its record

positionsVars == <<now, inst, table, position, filter, at, stamp, entries, row, trail,
                   result, shown, before, begun, cut, disturbed>>
asked == <<inst, table, position, filter>>
lists == <<shown, before, begun, cut>>

Times == 0 .. MaxTime
Never == -1     \* closed_at IS NULL
Stored(t) == 2 * ((t + 1) \div 2)
Formatted(t) == 2 * (t \div 2)

Calls == Creates \cup Closes \cup Lists
Tables == {"positions", "profiles"}

Row == [status : {"open", "closed"}, created : Nat, closed : Nat \cup {Never}]

InFlight == {c \in Calls : at[c] \notin {"idle", "late", "done"}}
Answered == {c \in Calls : result[c] \in {"200", "201"}}
Positions == {p \in Creates : table[p] = "positions"}

\* WHERE id = ? AND institution_id = ?
InScope(k) ==
  position[k] \in entries \cap Positions /\ inst[position[k]] = inst[k]

PositionsTypeOK ==
  /\ now \in Times
  /\ inst \in [Calls -> Institutions]
  /\ table \in [Creates \cup Lists -> Tables]
  /\ position \in [Closes -> Creates]
  /\ filter \in [Lists -> {"none", "open", "closed"}]
  /\ at \in [Calls -> {"idle", "insert", "update", "query", "audit", "late", "done"}]
  /\ stamp \in [Calls -> Times]
  /\ entries \subseteq Creates
  /\ row \in [Creates -> Row]
  /\ trail \in [Creates \cup Closes -> Nat]
  /\ result \in [Calls -> {"none", "200", "201", "404", "500"}]
  /\ shown \in [Lists -> SUBSET entries]
  /\ before \in [Lists -> SUBSET (Creates \cup Closes)] /\ begun \in [Lists -> SUBSET Closes]
  /\ cut \subseteq Lists
  /\ disturbed \subseteq Creates

PositionsInit ==
  /\ now = 0
  /\ inst \in [Calls -> Institutions]
  /\ table \in [Creates \cup Lists -> Tables]
  /\ position \in [Closes -> Creates]
  /\ filter \in [Lists -> {"none", "open", "closed"}]
  /\ at = [c \in Calls |-> "idle"]
  /\ stamp = [c \in Calls |-> 0]
  /\ entries = {}
  /\ row = [p \in Creates |-> [status |-> "open", created |-> 0, closed |-> Never]]
  /\ trail = [c \in Creates \cup Closes |-> 0]
  /\ result = [c \in Calls |-> "none"]
  /\ shown = [l \in Lists |-> {}]
  /\ before = [l \in Lists |-> {}] /\ begun = [l \in Lists |-> {}]
  /\ cut = {}
  /\ disturbed = {}

MoveTo(c, step) == at' = [at EXCEPT ![c] = step]
Answer(c, code) == MoveTo(c, "done") /\ result' = [result EXCEPT ![c] = code]

-----------------------------------------------------------------------------
\* now := time.Now().UTC(), in the create and close handlers.
ReadClock(c) ==
  /\ c \in Creates \cup Closes /\ at[c] = "idle"
  /\ stamp' = [stamp EXCEPT ![c] = now]
  /\ MoveTo(c, IF c \in Creates THEN "insert" ELSE "update")
  /\ UNCHANGED <<now, asked, entries, row, trail, result, lists>>

WriteNew(p) ==
  /\ entries' = entries \cup {p}
  /\ row' = [row EXCEPT ![p] = [status |-> "open", created |-> Stored(stamp[p]),
                                closed |-> Never]]

Insert(p) ==
  /\ at[p] = "insert"
  /\ WriteNew(p)
  /\ MoveTo(p, "audit")
  /\ UNCHANGED <<now, asked, stamp, trail, result, lists>>

\* SET status = 'closed', closed_at = ?, updated_at = ?
AfterClose(k) ==
  [row[position[k]] EXCEPT !.status = "closed", !.closed = Stored(stamp[k])]

WriteClose(k) == row' = [row EXCEPT ![position[k]] = AfterClose(k)]

\* Mutant: UPDATE positions ... WHERE id = ?, without the institution.
RowsAffectedAnywhere(k) == position[k] \in entries /\ AfterClose(k) # row[position[k]]

\* MySQL counts changed rows.
RowsAffected(k) == InScope(k) /\ AfterClose(k) # row[position[k]]

Close(k) ==
  /\ at[k] = "update"
  /\ RowsAffected(k)
  /\ WriteClose(k)
  /\ MoveTo(k, "audit")
  /\ UNCHANGED <<now, asked, stamp, entries, trail, result, lists>>

CloseNotFound(k) ==
  /\ at[k] = "update"
  /\ ~ RowsAffected(k)
  /\ Answer(k, "404")
  /\ UNCHANGED <<now, asked, stamp, entries, row, trail, lists>>

\* Mutant: a timeout is answered as a conflict.
StatementFailsAsConflict(c) ==
  /\ Faults
  /\ at[c] \in {"insert", "update"}
  /\ \/ Answer(c, "500")
     \/ MoveTo(c, "late") /\ result' = [result EXCEPT ![c] = "409"]
  /\ UNCHANGED <<now, asked, stamp, entries, row, trail, lists>>

\* The INSERT or UPDATE fails, or outlives its three seconds.
StatementFails(c) ==
  /\ Faults
  /\ at[c] \in {"insert", "update"}
  /\ \/ Answer(c, "500")
     \/ MoveTo(c, "late") /\ result' = [result EXCEPT ![c] = "500"]
  /\ UNCHANGED <<now, asked, stamp, entries, row, trail, lists>>

CommitLate(c) ==
  /\ at[c] = "late"
  /\ \/ c \in Creates /\ WriteNew(c)
     \/ c \in Closes /\ InScope(c) /\ WriteClose(c) /\ UNCHANGED entries
  /\ MoveTo(c, "done")
  /\ UNCHANGED <<now, asked, stamp, trail, result, lists>>

\* _ = store.AppendAudit(auditRec): appended, or lost.  The rows of audit_records have
\* random keys and the time of their call, without its fraction, and no other order.
AppendAudit(c) ==
  /\ at[c] = "audit"
  /\ trail' = [trail EXCEPT ![c] = @ + 1] \/ (Faults /\ UNCHANGED trail)
  /\ Answer(c, IF c \in Creates THEN "201" ELSE "200")
  /\ UNCHANGED <<now, asked, stamp, entries, row, lists>>

-----------------------------------------------------------------------------
Arrive(l) ==
  /\ l \in Lists /\ at[l] = "idle"
  /\ before' = [before EXCEPT ![l] = Answered \ Lists]
  /\ MoveTo(l, "query")
  /\ UNCHANGED <<now, asked, stamp, entries, row, trail, result, shown, begun, cut>>

\* The WHERE clause of the two lists.
Matches(l) ==
  {p \in entries :
     /\ table[p] = table[l]
     /\ inst[p] = inst[l]
     /\ table[l] = "positions" =>
          IF filter[l] = "none" THEN row[p].status # "closed"
                                 ELSE row[p].status = filter[l]}

\* ORDER BY created_at DESC LIMIT 100, which the list of profiles has not.
NewestFirst(s, m) == s \subseteq m /\ \A p \in s, q \in m \ s : row[p].created >= row[q].created

Length(m, l) ==
  IF table[l] = "positions" /\ Cardinality(m) > Limit THEN Limit ELSE Cardinality(m)

Newest(s, m, l) == NewestFirst(s, m) /\ Cardinality(s) = Length(m, l)

\* Mutant: the list is cut off before the closed positions are left out.
ShownOfNewest(l, s) == \E t \in SUBSET entries :
  /\ Newest(t, {p \in entries : table[p] = table[l] /\ inst[p] = inst[l]}, l)
  /\ s = t \cap Matches(l)

ShownTo(l, s) == Newest(s, Matches(l), l)

AnswerList(l, s) ==
  /\ shown' = [shown EXCEPT ![l] = s]
  /\ begun' = [begun EXCEPT ![l] = {k \in Closes : at[k] # "idle"}]
  /\ Answer(l, "200")
  /\ UNCHANGED <<now, asked, stamp, entries, row, trail, before>>

Query(l) ==
  /\ at[l] = "query"
  /\ \E s \in SUBSET entries : ShownTo(l, s) /\ AnswerList(l, s)
  /\ UNCHANGED cut

\* The context ends or the connection breaks while rows are read: rows.Next() is
\* false, rows.Err() is not looked at, and what was read so far is the answer.
QueryBreaksOff(l) ==
  /\ Faults
  /\ at[l] = "query"
  /\ \E s \in SUBSET Matches(l) :
       /\ NewestFirst(s, Matches(l)) /\ Cardinality(s) < Length(Matches(l), l)
       /\ AnswerList(l, s)
  /\ cut' = cut \cup {l}

QueryFails(l) ==
  /\ Faults
  /\ at[l] = "query"
  /\ Answer(l, "500")
  /\ UNCHANGED <<now, asked, stamp, entries, row, trail, lists>>

-----------------------------------------------------------------------------
Crash ==
  /\ Faults
  /\ InFlight # {}
  /\ at' = [c \in Calls |->
              IF c \in InFlight
              THEN IF at[c] \in {"insert", "update"} THEN "late" ELSE "done"
              ELSE at[c]]
  /\ UNCHANGED <<now, asked, stamp, entries, row, trail, result, lists>>

Tick ==
  /\ now < MaxTime
  /\ now' = now + 1
  /\ UNCHANGED <<asked, at, stamp, entries, row, trail, result, lists>>

HandleCall(c) ==
  \/ ReadClock(c) \/ Insert(c) \/ Close(c) \/ CloseNotFound(c) \/ StatementFails(c)
  \/ CommitLate(c) \/ AppendAudit(c)
  \/ Arrive(c) \/ Query(c) \/ QueryBreaksOff(c) \/ QueryFails(c)

Step == Tick \/ Crash \/ \E c \in Calls : HandleCall(c)

\* A closing may still take effect after its handler is gone, or has taken
\* effect and its record is lost.
CutOff(k) ==
  \/ at'[k] = "late"
  \/ at[k] = "audit" /\ at'[k] # "audit" /\ trail' = trail

ClosesOf(p) == {k \in Closes : position[k] = p /\ InScope(k)}

Observe ==
  disturbed' = disturbed \cup
    {p \in Creates : \/ Cardinality((ClosesOf(p) \cap InFlight)') > 1
                     \/ \E k \in Closes : position[k] = p /\ CutOff(k)}

PositionsNext == Step /\ Observe

PositionsSpec == PositionsInit /\ [][PositionsNext]_positionsVars

-----------------------------------------------------------------------------
\* A call closed p, or was about to, when list l was answered.
Closing(p, l) == \E k \in begun[l] : k \in ClosesOf(p)

\* An answered closing was known to be when list l arrived.
ClosedBefore(p, l) == \E k \in before[l] \cap Closes : k \in ClosesOf(p)

\* Full of entries at least as new.
CrowdedOut(p, l) ==
  /\ table[l] = "positions"
  /\ Cardinality({q \in shown[l] : row[q].created >= row[p].created}) = Limit

\* The loop broke off before it came to p.
NotReached(p, l) == l \in cut /\ \A q \in shown[l] : row[q].created >= row[p].created

\* What list l shows of entry p, which is in its table: unless it asks for closed
\* positions, none whose closing was answered before it arrived, and otherwise
\* only what a call closed or was about to close.
ShownRightly(p, l) ==
  /\ inst[p] = inst[l]
  /\ table[l] = "positions" =>
       IF filter[l] = "closed" THEN Closing(p, l) ELSE ~ ClosedBefore(p, l)

\* And what it need not show of its table and institution.
LeftOutRightly(p, l) ==
  \/ CrowdedOut(p, l) \/ NotReached(p, l)
  \/ /\ table[l] = "positions"
     /\ IF filter[l] = "closed" THEN ~ ClosedBefore(p, l) ELSE Closing(p, l)

\* A list shows no entry of another institution and, unless it asks for closed
\* positions, none whose closing was answered before it arrived; and it shows
\* every entry whose creation was answered before it arrived, unless a call was
\* closing it, a full list of entries at least as new has crowded it out, or the
\* loop over the rows broke off after entries at least as new.  A list of closed
\* positions shows, but for the same two reasons, those closed before it arrived.
ListsTrue ==
  \A l \in Lists : result[l] = "200" =>
    /\ \A p \in shown[l] : ShownRightly(p, l)
    /\ \A p \in before[l] \cap Creates :
         table[p] = table[l] /\ inst[p] = inst[l] => p \in shown[l] \/ LeftOutRightly(p, l)

\* The closings of p that the trail has.
ClosingsOf(p) == {k \in ClosesOf(p) : trail[k] > 0}

\* p is closed just when the trail has a closing of it; and the records of the
\* latest second, whichever of them is taken, give it a closed_at at most a second
\* from the row's.
Dated(p) ==
  /\ row[p].status = "closed" <=> ClosingsOf(p) # {}
  /\ \A k \in ClosingsOf(p) :
       (\A j \in ClosingsOf(p) : Formatted(stamp[j]) <= Formatted(stamp[k])) =>
         row[p].closed - Formatted(stamp[k]) \in {0, 2}

\* A position that is at rest, and was never disturbed, is closed just when the
\* trail has a closing by its institution, and the records of the latest closing
\* date it at most a second from the row, the fraction dropped here and rounded
\* there.
TrailDatesClosing ==
  \A p \in Positions \ disturbed : ClosesOf(p) \cap InFlight = {} => Dated(p)
=============================================================================
