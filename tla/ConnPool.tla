------------------------------ MODULE ConnPool ------------------------------
(***************************************************************************)
(* The handlers and the ten connections of the pool that OpenMySQL limits. *)
(*                                                                         *)
(* A statement takes a connection and gives it back; a transaction keeps   *)
(* its connection to the end.  AppendAudit always takes one of its own, so *)
(* a completed upload, which audits inside its transaction, needs two.     *)
(* database/sql is external: a connection that is given back goes straight *)
(* to one of those who wait, in no fixed order.                            *)
(***************************************************************************)
EXTENDS Integers, FiniteSets

CONSTANTS
  Plains,       \* calls that send a statement and then audit it
  Completions,  \* calls of POST /attachments/complete
  Assigns,      \* calls of POST /tags/assign
  Size          \* 10

ASSUME PoolAssumption ==
  /\ Plains \cap Completions = {} /\ Plains \cap Assigns = {}
  /\ Completions \cap Assigns = {}
  /\ Size \in Nat \ {0}

VARIABLES
  at,        \* request -> the operation its handler is at
  phase,     \* request -> about to begin it, waiting for a connection, in it
  held,      \* request -> connections it holds
  free,      \* connections nobody holds
  inTx,      \* requests whose transaction is open
  recorded,  \* requests whose record is in audit_records
  result     \* request -> what it was answered, or "none"

poolVars == <<at, phase, held, free, inTx, recorded, result>>

Callers == Plains \cup Completions \cup Assigns
Waiting == {r \in Callers : phase[r] = "waiting"}

PoolTypeOK ==
  /\ at \in [Callers -> {"idle", "statement", "begin", "audit", "commit", "done"}]
  /\ phase \in [Callers -> {"ready", "waiting", "running"}]
  /\ held \in [Callers -> 0 .. 2]
  /\ free \in 0 .. Size
  /\ inTx \subseteq Completions \cup Assigns
  /\ recorded \subseteq Plains \cup Completions
  /\ result \in [Callers -> {"none", "ok", "500"}]

PoolInit ==
  /\ at = [r \in Callers |-> "idle"]
  /\ phase = [r \in Callers |-> "ready"]
  /\ held = [r \in Callers |-> 0]
  /\ free = Size
  /\ inTx = {}
  /\ recorded = {}
  /\ result = [r \in Callers |-> "none"]

First(r) == IF r \in Assigns THEN "begin" ELSE "statement"

\* What the handler of r does after the operation it is at.
Following(r) ==
  CASE at[r] = "statement" -> IF r \in Completions THEN "begin" ELSE "audit"
    [] at[r] = "begin" -> IF r \in Completions THEN "audit" ELSE "commit"
    [] at[r] = "audit" -> IF r \in Completions THEN "commit" ELSE "done"

\* The handler of r stands at step, ready to begin it; there it has answered.
Proceed(r, step) ==
  /\ at' = [at EXCEPT ![r] = step]
  /\ result' = [result EXCEPT ![r] = IF step = "done" THEN "ok" ELSE @]

Abort(r) ==
  /\ at' = [at EXCEPT ![r] = "done"]
  /\ result' = [result EXCEPT ![r] = "500"]

\* r gives a connection back and is in the phase given.
GiveBack(r, then) ==
  \/ /\ Waiting = {}
     /\ free' = free + 1
     /\ held' = [held EXCEPT ![r] = @ - 1]
     /\ phase' = [phase EXCEPT ![r] = then]
  \/ \E w \in Waiting :
       /\ held' = [held EXCEPT ![r] = @ - 1, ![w] = @ + 1]
       /\ phase' = [phase EXCEPT ![r] = then, ![w] = "running"]
       /\ UNCHANGED free

-----------------------------------------------------------------------------
Enter(r) ==
  /\ at[r] = "idle"
  /\ at' = [at EXCEPT ![r] = First(r)]
  /\ UNCHANGED <<phase, held, free, inTx, recorded, result>>

NeedsConnection(r) == phase[r] = "ready" /\ at[r] \in {"statement", "begin", "audit"}

Take(r) ==
  /\ NeedsConnection(r) /\ free > 0
  /\ free' = free - 1
  /\ held' = [held EXCEPT ![r] = @ + 1]
  /\ phase' = [phase EXCEPT ![r] = "running"]
  /\ UNCHANGED <<at, inTx, recorded, result>>

Wait(r) ==
  /\ NeedsConnection(r) /\ free = 0
  /\ phase' = [phase EXCEPT ![r] = "waiting"]
  /\ UNCHANGED <<at, held, free, inTx, recorded, result>>

\* Mutant: the rows of a query are left open while its record is appended.
FinishKeepingRows(r) ==
  /\ phase[r] = "running" /\ at[r] = "statement"
  /\ phase' = [phase EXCEPT ![r] = "ready"]
  /\ Proceed(r, Following(r))
  /\ UNCHANGED <<held, free, inTx, recorded>>

\* A statement on a connection of its own has returned, its rows are closed.
Finish(r) ==
  /\ phase[r] = "running" /\ at[r] = "statement"
  /\ GiveBack(r, "ready")
  /\ Proceed(r, Following(r))
  /\ UNCHANGED <<inTx, recorded>>

\* BeginTx and the statements of the transaction up to its commit or audit.
OpenTx(r) ==
  /\ phase[r] = "running" /\ at[r] = "begin"
  /\ inTx' = inTx \cup {r}
  /\ phase' = [phase EXCEPT ![r] = "ready"]
  /\ Proceed(r, Following(r))
  /\ UNCHANGED <<held, free, recorded>>

\* A statement, or one of the transaction, fails: the handler answers 500 and
\* its deferred Rollback frees the connection.
Fail(r) ==
  /\ phase[r] = "running" /\ at[r] \in {"statement", "begin"}
  /\ GiveBack(r, "ready")
  /\ Abort(r)
  /\ UNCHANGED <<inTx, recorded>>

\* AppendAudit appends the record or fails; the handler goes on.
Audit(r) ==
  /\ phase[r] = "running" /\ at[r] = "audit"
  /\ GiveBack(r, "ready")
  /\ Proceed(r, Following(r))
  /\ recorded' = recorded \cup {r} \/ UNCHANGED recorded
  /\ UNCHANGED inTx

\* The context of a wait is done: three seconds, thirty for a completion, or the
\* client has gone.
WaitEnds(r) ==
  /\ phase[r] = "waiting"
  /\ phase' = [phase EXCEPT ![r] = "ready"]
  /\ IF at[r] = "audit" THEN Proceed(r, Following(r)) ELSE Abort(r)
  /\ UNCHANGED <<held, free, inTx, recorded>>

\* The context of an open transaction is done: it is rolled back and its
\* connection given back behind the handler.
TxExpires(r) ==
  /\ r \in inTx
  /\ inTx' = inTx \ {r}
  /\ GiveBack(r, phase[r])
  /\ UNCHANGED <<at, recorded, result>>

\* Mutant: a commit that does not look whether its transaction is still open.
CommitRegardless(r) ==
  /\ at[r] = "commit"
  /\ inTx' = inTx \ {r}
  /\ GiveBack(r, "ready")
  /\ Proceed(r, "done") \/ Abort(r)
  /\ UNCHANGED recorded

Commit(r) ==
  /\ at[r] = "commit" /\ r \in inTx
  /\ inTx' = inTx \ {r}
  /\ GiveBack(r, "ready")
  /\ Proceed(r, "done") \/ Abort(r)
  /\ UNCHANGED recorded

CommitTooLate(r) ==
  /\ at[r] = "commit" /\ r \notin inTx
  /\ Abort(r)
  /\ UNCHANGED <<phase, held, free, inTx, recorded>>

\* What the handler of r and its statements do in the end.
Serve(r) ==
  \/ Take(r) \/ Wait(r) \/ Finish(r) \/ OpenTx(r) \/ Fail(r) \/ Audit(r)
  \/ Commit(r) \/ CommitTooLate(r)

PoolNext == \E r \in Callers : Enter(r) \/ Serve(r) \/ WaitEnds(r) \/ TxExpires(r)

PoolSpec == PoolInit /\ [][PoolNext]_poolVars

\* Mutant: AppendAudit takes the context of its request.
HasDeadlineOfRequest(r) == r \notin Assigns /\ at[r] # "audit"

\* tagAssign has the request's context alone, which only its client ends;
\* AppendAudit has three seconds whoever calls it.
HasDeadline(r) == r \notin Assigns \/ at[r] = "audit"

\* A statement returns in the end, since InnoDB ends every wait of its own, and
\* a deadline passes.
PoolFairSpec ==
  /\ PoolSpec
  /\ \A r \in Callers : WF_poolVars(Serve(r)) /\ WF_poolVars(HasDeadline(r) /\ WaitEnds(r))

-----------------------------------------------------------------------------
\* A request that was received is answered, tag assignments included, which wait
\* for a connection without a deadline.
EveryoneAnswered == \A r \in Callers : at[r] # "idle" ~> at[r] = "done"

Open == {r \in Callers : at[r] \notin {"idle", "done"}}

\* The handlers all wait for one another only when so many completions as there
\* are connections each hold one in a transaction and want a second one for
\* their record.
StallTakesPool ==
  Open # {} /\ Open \subseteq Waiting =>
    Cardinality({r \in Completions : r \in inTx /\ at[r] = "audit"}) = Size

\* What the README promises of every operation: a completion that was answered
\* 201 has its record.
CompletionsRecorded == \A r \in Completions : result[r] = "ok" => r \in recorded
=============================================================================
