# A verification project for the talent and compliance back end

TLA+ models of the Go API under `repo/backend`, TLC runs that check them on
small instances, and TLAPS proofs about them for every value of the constants.
Paths below are relative to `src/`; `caseledger.go:41` means
`repo/backend/internal/httpserver/caseledger.go`, line 41, and `schema.go` is
`repo/backend/internal/persistence/schema.go`.

Parse a module with `tlasany M.tla`, run a configuration with
`tlc -workers 2 -config X.cfg M.tla`, check proofs with `tlapm M.tla`.

## 1. The system

One Go process (gin) serves a JSON API to an Angular client and keeps all its
state in MySQL and, for attachments, in files below `/app/storage`. Each HTTP
request is a goroutine. Handlers share no memory: they meet in the database.
Except for two transactions (`tagAssign`, the end of `attachmentCompleteUpload`)
and the creation of a candidate, each SQL statement commits by itself on
whatever pooled connection is free. So between any two statements of a handler,
any statement of any other handler, a change of the clock, the expiry of the
handler's context (three seconds as a rule) or the death of the process may
come. That is the interleaving the models explore.

Five facts about the platform and the code bite in several places, and the models state them
where they use them:

- `TIMESTAMP` columns keep whole seconds and round to the nearest one. Time is
  counted in half seconds, or thirds, and `Stored(t)` is what the column keeps.
- The MySQL driver runs without `clientFoundRows`: `RowsAffected` counts changed
  rows, not matched ones.
- A context that expires stops the wait of the client, not the statement: the
  handler answers 500 and the row may still be written (steps named `late`).
- No handler looks at `rows.Err()`: a loop over rows ends on a broken connection or an
  expired context as on the last row, and the handler goes on with what it has read.
- Records in `audit_records` have random keys and a `created_at` cut to the second: two of
  one second have no order in the table. A trail is therefore a count of each record, a
  bag, and no property orders it more finely than the table does.

### Inventory

| Component | State | Operations | What is hard | What makes it correct |
|---|---|---|---|---|
| Case creation (`caseledger.go:36-211`, `integration_logic.go:45`) | `cases`, `audit_records` | `POST /cases`: duplicate query, MAX query, INSERT, audit | check-then-act twice, clock read four times, midnight, rounding, late commits, dropped errors | numbers unique and gapless per institution and day; five-minute duplicate window; answers and trail true |
| Case workflow (`caseledger.go:83-129, 213-414`) | columns of `cases`, `audit_records`, `case_history` | status change, assignment, active list, history | read-then-write of the assignee, audit after commit, changed-rows count, late commits, a list that ends after 100 rows or where it breaks off | no closed case in the active view, no open one missing but behind newer ones; rows accounted for by the trail; foreigners change nothing; 404 means what it says; every request ends |
| Attachments (`attachments.go`) | `attachment_chunks`, `attachments`, chunk files, `reassembled.dat`, `attachments/<hash>` | init, chunk, complete, list, download | file system and database change separately; truncate-then-write; writes cut short and their dropped errors; rename of a shared temporary file; crash between rename and commit | what is recorded can be read back; one attachment per content; completion repeatable |
| Identity and start-up (`auth.go`, `authorization.go`, `me.go`, `audit.go`, `store.go`, `schema.go`, `router.go`) | `users`, `roles`, `user_roles`, `sessions` | seeding, session clean-up, login, session check, role guard, logout, their audit | crash while seeding, restart while serving, rounding of the expiry, dropped errors of logout | nobody admitted past the TTL or with a revoked token; a restart logs nobody out |
| Qualifications (`compliance.go:41-176, 282-422`) | `qualifications` | create, list, sweep, reactivate, check on arrival | dates as text, two readings of "expired", late and reordered sweeps, read-then-write of the status | never expired early; a sweep expires the overdue ones and no other; nobody is shown an overdue one |
| Tags (`tags.go`) | `tags`, `candidate_tags`, `case_tags` | create, delete, assign, show | a transaction of many statements, gap locks, deadlock, partial failure | an entity has the tags of one assignment; every assignment ends |
| Purchase restrictions (`compliance.go:178-280`) | `restrictions` | apply, check | fail-open check, rounding, overflow of the window's length | a restricted candidate is refused until the window ends; what a refusal says stands |
| Recruitment (`recruitment.go`) | `candidates` | create and merge, bulk import, list, search | randomised encryption of the key of the duplicate query, partial import, a context that ends midway, retry | what an import answers is what it stored; a candidate is stored once |
| Match scoring (`recruitment_logic.go`) | none | `CalculateMatchScore` | boundaries | 50/30/20 as the documentation says, monotone in what matches |
| Positions and profiles (`positions.go`) | `positions`, `qualification_profiles` | create, list, close | late and repeated closings, rounding beside truncation, a list that ends after 100 rows or where it breaks off | lists show what was answered before; the trail dates the closing |
| Connection pool (`mysql.go`) | ten connections | every statement | transactions that need a second connection, waits without a deadline | everyone is answered in the end |
| Idempotency (`idempotency.go`) | `idempotency_keys` | Get, Set | check-then-act | wired into no route |
| Audit listing (`audit.go`, `sql_adapters.go`) | none | list | - | a query |
| Client (`api.service.ts`, `app.component.ts`, pages) | token, user, last answers | login, logout, calls | late answers after logout | the page shows the user's own data |

How they interact: `router.go` puts the check on arrival before every route, then
`RequireAuth` and the role guard, then the handler. Qualifications and cases name
candidates by id. Attachments name cases. Tags name cases and candidates. All
append to `audit_records` through `sqlAuditWriter`, after the change they record
(a completed upload before its commit) and always through a connection of its own.

## 2. The modules

| Module | Extends / instances | Models |
|---|---|---|
| `CaseRegister` | | the abstract specification of case creation: test, numbering and insertion in one step |
| `CaseCreation` | instances `CaseRegister` | `caseLedgerCreateCase` with `checkCaseDuplicateWindow`, `CheckCaseDuplicate`, `generateCaseNumber` |
| `CaseCreationProofs` | `CaseCreation`, `TLAPS` | proofs |
| `CaseWorkflow` | | `caseLedgerUpdateStatus`, `caseLedgerAssign`, `caseLedgerListCases`, `caseLedgerHistory` |
| `CaseWorkflowProofs` | `CaseWorkflow`, `TLAPS` | proofs |
| `Attachments` | | `attachmentInitUpload`, `attachmentUploadChunk`, `attachmentCompleteUpload`, what a download reads |
| `AttachmentsProofs` | `Attachments`, `TLAPS` | proofs |
| `Identity` | | `EnsureSchema` after its `CREATE TABLE`s, `authHandler`, `requireRole`, `auditAppendMiddleware` |
| `Qualifications` | | the four qualification routes and `complianceCheckExpiryOnArrival` |
| `QualificationsProofs` | `Qualifications`, `TLAPS` | proofs |
| `Restrictions` | | `complianceApplyRestriction`, `complianceCheckRestriction`, `check168HourRestriction` |
| `RestrictionsProofs` | `Restrictions`, `TLAPS` | proofs |
| `Scoring` | | `CalculateMatchScore` |
| `Recruitment` | `Scoring` | `recruitmentCreateCandidate`, `recruitmentBulkImport`, `recruitmentSearch` |
| `RecruitmentProofs` | `Recruitment`, `TLAPS` | proofs about the score and about recruitment |
| `Positions` | | the five routes of positions and qualification profiles |
| `Tags` | | `tagCreate`, `tagDelete`, `tagAssign`, `tagGetByEntity` |
| `ConnPool` | | the pool of `OpenMySQL` under `attachmentCompleteUpload`, `tagAssign` and plain calls, with `sqlAuditWriter` |
| `PlatformProofs` | `Identity`, `ConnPool`, `TLAPS` | proofs about what every handler runs on: sessions and connections |
| `ReferenceDataProofs` | `Tags`, `Positions`, `TLAPS` | proofs about the small tables beside the cases |
| `MC...` | the module of the same name | symmetry and reductions for TLC |

Two components that share no state share a module of proofs where each is short. The
names of `ConnPool` and of `Positions` therefore differ from those of `Identity` and
`Tags` (`PoolSpec`, `PoolTypeOK`, `PositionsSpec`, `PositionsTypeOK`, `at` for the place
of a handler, `result` for its answer).

Conventions. A request is a value of a constant set; `pc[r]` (or `at[r]`) is the statement its
handler sends next, and each action is one statement (or one system call) with
every assignment up to the next one. `Fails` actions are the error path of a
statement, `TimesOut` the expiry of the context while it is under way, `CommitLate`
a statement that takes effect after that. `Crash` stops all running handlers.
Variables marked *history* in a module are read by no guard. Operators marked
*Mutant* are the module's definitions with one plausible bug; nothing uses them in
the specifications. An audit INSERT that times out counts as lost: that it may commit
after its handler has answered is left out everywhere.

**CaseCreation.** Steps `idle` (duplicate query) → `evaluate` (the comparison in
Go, against a newer clock) → `number` (MAX) → `stamp` (created_at) → `insert` →
`audit`. The rows a query returned are kept in `found` and `numberedFrom`, so the
properties can say what a handler could know; the duplicate query may break off and
return a part. `Window`, `DayTicks` and `SeqModulus`
stand for 5 minutes, a UTC day and 10^6. Validation and scope errors change nothing
and are left out; so is the department fallback.

**CaseWorkflow.** `row` holds status, assignee, updated_at and closed_at of each
case, `created` the creation time the active list is ordered by; `task` is what a request
asks, of which case, for which institution. The status in a body may be valid or not.
Both handlers share the error actions. `StatusRowsAffected` is the changed-rows rule.
`ActiveViews` are the answers the active list may give (`ORDER BY created_at DESC`,
`ViewLimit` standing for 100; cases of one second in any order), `BrokenViews` those it
gives when reading the rows breaks off. `trail` counts the rows of `audit_records`. Two
history variables: `unrecorded` are the requests whose change took effect with its record
lost to a dropped error, a late commit or a crash, `overtaken` the assignments whose case
got another assignee between their SELECT and their UPDATE. `Observe` keeps the latter,
beside `Step`, which is the program's.

**Attachments.** Files are inodes: `os.Create` empties, `os.Rename` moves, an open
descriptor keeps its inode and writes from its start. A content is a sequence of bytes and
stands for its hash. A chunk request carries any body, whatever an earlier request for
the chunk carried. Two completions of one upload share `reassembled.dat`, and the model lets
them. `Faults` says whether statements fail, system calls on files fail, and the process
dies. A write or a read is one step that moves all of its bytes or, on a failing disk, any
first part of them (`Written`); its error is answered or dropped as in the code. `hurt` is
history: the completions that went on after an error they dropped. Three specifications
say what the clients do: with `Spec` anything; `SteadySpec` has them send each chunk of
their file only as it is (again and again, at any time); `PatientSpec` has them complete an
upload again only when the last completion of it is over, and send anything; `SerialSpec`
has one completion at a time.

**Identity.** `boot` walks through the seeding, statement by statement, at every
start. `expires` is the rounded expiry, `issued` when login computed it. One user,
one role, one process.

**Qualifications.** Time is days, the unit of `expiry_date`. `Dates` has the three
kinds of text a client can send: read by Go and MySQL, by MySQL only, by neither.
`ScopeOnArrival` is FALSE because the middleware runs before `RequireAuth`: the model
keeps the handler's two branches and this one fact. `writer` remembers who last
wrote a row and the latest date of a sweep since.

**Restrictions.** Time is in thirds of a second, so that a `TIMESTAMP` rounds both
ways. `Duration` is the product of two int64, wrapped; an end that is no `TIMESTAMP`
makes the INSERT fail. Nothing in the code withdraws a restriction, so `is_active` is
no state. `before` and `failed` are history: who was answered when a check read its
clock, and whose query failed.

**Scoring and Recruitment.** A text that is encrypted stands for its length: `Seal`
pairs it with a nonce of its own, so that equality of ciphertexts is what it is in the
code, and `SealedLength` is what the columns have to hold. The INSERT of a creation has
eleven columns and twelve values, and the model compares the two numbers: it never
succeeds, so there is no CREATE record to state anything about. The merge is
there although no ciphertext is ever found. An import has one context for all its
candidates; once it is over, every further statement fails and the loop goes on. An
INSERT that was sent may take effect although its import counts an error, because the
context ended or the connection broke with the context still alive
(`InsertImportUnanswered`). `trail` counts records, so that auditing an import twice shows.

**Positions.** Positions and profiles are entries of two tables, created alike. A
closing reads the clock and then updates; `AfterClose` changes a row that is closed
already, so MySQL may count it or not. `Query` answers the whole list,
`QueryBreaksOff` a newest part of it when reading the rows ends early (remembered in
`cut`), `QueryFails` 500. `disturbed` is history: the positions that two calls in scope
closed at once, or one of whose closings a fault cut off from its record.

**ConnPool.** What a handler does with its statements is left out; what it does with
connections is kept: a statement takes and gives back one, a transaction keeps one,
and `AppendAudit` takes its own wherever it is called. A connection that is given back
goes to any of those who wait. `WaitEnds` and `TxExpires` are the deadlines, or the
client leaving.

**Tags.** InnoDB is external: `WaitsFor` says that a DELETE waits for locked rows of
its entity and an INSERT for a gap another transaction has locked; gap locks do not
exclude one another and may reach to neighbours (any set of them). `LosesWait` is the
deadlock victim and the lock wait timeout. candidate_tags and case_tags are alike
and one stands for both.

## 3. The runs

Every constant set in a configuration is a bound; `MaxTime`/`LastDay` bound the
clock. Sizes are TLC's distinct states.

| Run | Specification, bounds | What it shows |
|---|---|---|
| `CreationFaults` | `Spec`; 2 requests, 2 institutions, 2 keys, window 3, day 3, clock 0..5, faults; 561k | `UniqueNumbers`, `NoGaps`, `DedupeWindow`, `AnswersAreTrue` under every overlap and fault |
| `CreationSerial` | `SerialSpec`; 3 requests, 1 institution, serials modulo 2, clock 0..6; 197k | the handler implements `CaseRegister`; every case has its audit record |
| `WorkflowFaults` | `MCFairSpec`; 2 requests, 2 cases, 2 institutions, 2 users, 3 status bodies, a view of 1 row, clock 0..2, faults; 332k | `ActiveViewHidesClosed`, `RowIsRecorded`, `AssignmentsBalance`, `NotFoundOrAlreadySo`, `ForeignersChangeNothing`, `EveryRequestEnds` |
| `AttachmentsConcurrent` | `MCSteadySpec`; 2 uploads of one chunk of 2 bytes that differ in the last, 1 chunk call at a time, 2 completions, all faults; 3.7M | `NeverForeign` |
| `AttachmentsSerial` | `MCSerialSpec`; 2 uploads, any bodies of up to 1 byte, 1 chunk call at a time, 3 completions, failing system calls, crashes; 4.6M | `StoredIntact`, `OnePerContent`, `CompletionIdempotent` |
| `IdentityFaults` | `Spec`; 1 login, 2 calls, TTL 2, clock 0..5, all faults; 612k | `AdmittedWithinTTL`, `RevocationHolds`, `RestartKeepsSessions` |
| `QualificationsOverlap` | `MCSpec`; 1 creation, 2 sweeps, 1 reactivation, 1 list, 2 institutions, days 0..1, faults; 5.5M | `NeverExpiredEarly`, `SweepsExact` |
| `RestrictionsOverlap` | `MCSpec`; 2 applications, 2 checks, 2 institutions, windows of 0, 2 and 3 hours of 3 ticks, default 1, int64 of 7, clock 6..9, faults; 6.4M | `RestrictionBinds`, `RefusalStands`, `RefusalsJustified` |
| `RecruitmentFaults` | `MCSpec`; 1 creation, 2 imports of up to 2 candidates, 1 search, 2 institutions, faults; 465k | `ImportAccounted`, `AuditTrue`, `SearchExplained`, `ImportsEnd` |
| `PositionsFaults` | `MCSpec`; 2 creations, 2 closings, 1 list of 1 row, 2 institutions, clock 0..1, at most 2 calls under way or late, faults; 5.5M | `ListsTrue`, `TrailDatesClosing` |
| `TagsOverlap` | `MCSpec`; 2 assignments of up to 2 tags to 2 entities, 2 tags of one name; 473k | `AssignedWhole`, `ChangesAtOnce`, `AssignmentsEnd` |
| `PoolExhausted` | `PoolFairSpec`; 2 connections, 2 completions, 1 plain call, 1 tag assignment; 18k | `StallTakesPool`, `EveryoneAnswered` |

The type invariant is checked too in `AttachmentsConcurrent`, `QualificationsOverlap`,
`RecruitmentFaults`, `PositionsFaults` and `PoolExhausted`; that of the other modules is
proved alone. Deadlock is not checked: requests are finite and
the system may come to rest.

Why the bounds are enough to meet the cases of interest:

- *Two requests, `CreationFaults`*: a shared number, a double submission, a retry
  after a late commit and a gap are all between two requests. The clock reaches two
  days and past the window, so both sides of each comparison occur, and a row may
  round into the second day. `CreationSerial` has a third request and a serial space
  of two, so that the maximum of six digits wraps (the serial past the modulus
  falls back, as 1000000 would).
- *Workflow*: two requests are every pair of status change and assignment, in and
  out of scope, of one case or of two, in sequence or overlapping. A view of one row is full
  with the first of two cases, older, newer or of the same second.
- *Attachments*: two completions of one upload, or of two uploads with one content,
  or of two contents; a chunk call re-opens a chunk during a completion. Where clients send
  their files (`AttachmentsConcurrent`), files of two bytes that agree in the first make a
  mixture of two files visible, and a part of one. In `AttachmentsSerial` a content is empty
  or one byte: they differ, and the first is what a cut-short write makes of the second.
  Three completions in sequence are an interrupted one, its repetition, and a later one
  of the same content or of the other. Only chunk 0 has a row, so no completion
  reads another chunk.
- *Identity*: one token with a logout and another call; the clock passes the
  expiry and the half second rounding adds; restart and boot crash at every step.
- *Qualifications*: two sweeps may commit in the order opposite to their dates, and
  on either side of a creation and a reactivation, across one midnight.
- *Restrictions*: two that overlap each other and both checks, the second shorter,
  of another kind or of another institution; 3 hours of 3 ticks overflow an int64 of 7
  into the past, 2 hours end on both sides of the checks, and the first may commit
  after the second.
- *Recruitment*: an import of two has a first, a last and a candidate in between two
  outcomes; the other import is of one that has the same id number. The four persons
  are one without a name, one whose phone does not fit and two of one id number that
  differ in all a search sees.
- *Positions*: a list of one row is full with the first; two closings of one position
  order in every way, also late. `MaxOverlap` leaves out a third call at the same time,
  which finds no state of a row or of the trail that two do not make.
- *Pool*: as many completions as connections are what exhausts it; a plain call and an
  assignment wait beside them.
- *Tags*: one entity contended by both, or neighbours, starting from none or one tag
  left before; a repeated tag in a body.

Symmetry is used only with invariants and step properties, over sets whose
members the module treats alike; the four runs with liveness use none.
The `MC...Spec`s fix what loses nothing: those of `MCAttachments` the files of the uploads
(in general position where clients send them, any where they send anything) and when chunk
calls run: only the step in which a completion reads the chunk sees what they do, so a call
is put off until a completion of its upload is about to read, and once begun goes on
unless one reads (`PutOff`); `MCCaseWorkflow` gives the cases one institution, lets one
request name the first case and leaves open which case is newer; `MCTags` the entity of one
assignment, entities
being interchangeable; `MCQualifications` leaves out lists of institutions without
qualifications, which are empty; `MCRestrictions` has both checks ask for one candidate,
and gives an application that cannot bind it the default length; `MCPositions` has two
entries, of which the closings name one, and a list that could show both; `MCRecruitment` has one
import, and the
creation, be of one person.

**Fairness.** `CaseWorkflow!FairSpec`: weak fairness of `Handle(r)` of each request
that was received. Every statement of the two handlers runs under a three-second
context, so each returns or fails; the Go scheduler runs every goroutine. Nothing is
assumed of clients, the clock, crashes or late commits. `Tags!FairSpec`: the same for
an assignment that was received; `tagAssign` has no timeout of its own, and what
ends its waits is InnoDB, by deadlock detection or `innodb_lock_wait_timeout`, which is
why `LosesWait` is among the fair steps. `Recruitment!Fairness`: the same for an import
that was received, under its sixty seconds. `ConnPool!PoolFairSpec`: a handler goes on when
it can, and a wait with a deadline ends (`HasDeadline`); a connection that is given back
to a waiter is given to *some* waiter, and a tag assignment's wait has no deadline, so
that it ends is a result and not an assumption.

### Statements the code does not meet

These are defined in the modules, and TLC refutes them; no run is spent on them. To
reproduce one, take the configuration named, change it as said and check the property
alone.

| Property | Said in | Configuration | Why |
|---|---|---|---|
| `NoSharedNumbers` | `design.md:151` | `CreationFaults.cfg`, `Faults = FALSE` | both requests read MAX before either inserts |
| `NoSharedNumbers` (serial) | `design.md:149` | `CreationSerial.cfg` | created_at rounds over midnight: the row leaves the day its number was counted in |
| `NoDuplicatesInWindow` | `api-spec.md:43` | `CreationFaults.cfg` | both duplicate queries run before either INSERT |
| `AuditComplete` with faults | `README.md:68` | `CreationFaults.cfg` | the audit record's error is dropped |
| `FollowsWorkflow` (step property) | `business_test.go:237` | `WorkflowFaults.cfg` | any valid status is accepted after any other; the tests check a table of their own |
| `HistoryTracked` | `README.md:54` | `WorkflowFaults.cfg` | nothing writes `case_history` |
| `WholeFile` | `README.md:55` | `AttachmentsSerial.cfg`, `SteadySpec`, `MaxChunks = 2`, one completion, `Faults = {}` | `attachmentInitUpload` inserts a row for chunk 0 only and completion goes by rows, so a file is stored as its first chunk |
| `CompletionIdempotent` (overlapping) | `api-spec.md:44` | `AttachmentsConcurrent.cfg` | both completions find no attachment |
| `Relinked` | `08-verification-strategy.md:13` | `AttachmentsSerial.cfg`, two cases | the second case gets the id of the first one's attachment and no row |
| `AdminHasRole` | `schema.go:256` | `IdentityFaults.cfg` | a death between the user and its role is not repaired, since only the user is looked for |
| `LogoutInvalidates` | `api-spec.md:20` | `IdentityFaults.cfg` | logout answers 204 whether or not the token was revoked; it holds with `Faults = {"crash"}` |
| `CheckedOnArrival` | `README.md:48`, `api-spec.md:48` | `QualificationsOverlap.cfg` | the check on arrival has no scope yet and does nothing; the list's own test cannot read the date as the driver returns it, so an overdue qualification is shown as active until an administrator sweeps |
| `ReactivatesOnlyExpired` (overlapping) | `compliance.go:385` | `QualificationsOverlap.cfg`, two renewals, no symmetry | the status is read before the UPDATE, which does not test it again |
| `ReactivatedIsValid` | `design.md:141` | `QualificationsOverlap.cfg` | the new date is not looked at |
| `AlwaysEnforced` | `README.md:47` | `RestrictionsOverlap.cfg` | a failing query allows, the end is rounded down, a long window overflows |
| `CreationStores` | `README.md:39` | `RecruitmentFaults.cfg`, `Faults = FALSE` | the INSERT has eleven columns and twelve values |
| `Deduplicated` | `README.md:42`, `api-spec.md:45` | `RecruitmentFaults.cfg` | the ciphertexts that are compared have nonces of their own; a repeated import inserts again |
| `CompletionsRecorded` | `README.md:68` | `PoolExhausted.cfg` | with every connection held in a transaction, the audit record's wait ends at its deadline and its error is dropped |

## 4. The proofs

Every invariant and every step property that a run checks is proved here for all values
of the constants, of the specification the run restricts; a theorem that holds only
without some fault says so. Each module of proofs goes the same way: a named invariant
stronger than the property, lemmas that say what one action does to it, and theorems
that read the property off. The assumptions on constants are the named ones of the
modules, which TLC evaluates in every run.

### CaseCreationProofs

For any number of requests, institutions and keys, any window, day and modulus, with
faults. Assumed: `ConstantsAssumption` (natural numbers, a day and a modulus of at
least one). Theorems:

| Theorem | Statement |
|---|---|
| `TypeCorrect` | `Spec => []TypeOK` |
| `NumberingInvariant`, `NumbersUniqueUnlessConcurrent`, `SerialsLeaveNoGap` | `[]NumberingInv`, `[]UniqueNumbers`, `[]NoGaps` |
| `WindowInvariant`, `WindowSeparatesSeenCases`, `AnswersTrue` | `[]WindowInv`, `[]DedupeWindow`, `[]AnswersAreTrue` |
| `AuditTrailComplete` | without faults, `Spec => []AuditComplete` |
| `HandlerImplementsRegister` | without faults, `SerialSpec => ImplementsRegister` |

*Numbering.* `UniqueNumbers` is not inductive: it speaks of committed rows, while
what makes it true happens when MAX returns. `NumberingInv` says that a row, once
committed, stands still (`RowsSettled`), that every request's serial lies above
those its MAX query saw on its day (`SerialAboveSeen`), and that a serial above one
follows one it saw (`SerialFollows`). Only `GenerateCaseNumber` disturbs these; every
other action goes through the lemma `NumbersUntouched`. If two rows share a number
and one had seen the other's row, its serial would lie above itself, unless the row
is stored under another day than its number says or the serial outgrew six digits:
the exceptions `UniqueNumbers` names and the only ones there are.

*Window.* `WindowInv` says that a handler past its check passed it, against every row
it had found, at the time `at` (`OutOfWindow`), and that created_at is read later
(`StampAfterCheck`). `DedupeWindow` is the sum of the two inequalities. The same
invariant carries `Answered`: who was answered 201 has a row, who was answered 409
was told of one that is still there.

*Audit.* Without faults a handler whose row is in the table is about to append its
record or has appended it (`AuditInv`). With faults `AuditComplete` is false: the error
is dropped (section 3).

*Refinement.* `Register` reads the table as entries of the abstract register. Every
step of the handler but the INSERT leaves them alone (`RegisterKept`); the INSERT is
`Create` (`InsertCreates`). That needs what the handler found some statements ago to be
still true, which it is when nobody else runs: at most one request is in flight
(`Alone`), the rows its duplicate query returned are all there are (`FoundIsAll`), and
its number is the one MAX would give now for a time between its check and its stamp
(`NumberIsNext`). That time is the witness for the register's clock. The theorem is
about every run without overlap and without faults; with either, `CreationFaults` and
`UniqueNumbers` say what remains of it.

### CaseWorkflowProofs

For any number of cases, institutions, users and requests, any creation times and limit of
the view and any bound on the clock, with faults. Assumed: `ConstantsAssumption`
(`MaxTime` and `ViewLimit` are natural numbers, times integers, nobody is no user).

| Theorem | Statement |
|---|---|
| `WorkflowInvariant`, `TypeCorrect` | `Spec => []WorkflowInv`, `Spec => []TypeOK` |
| `ActiveViewExact` | `Spec => []ActiveViewHidesClosed` |
| `NotFoundExplained`, `ForeignersAreHarmless` | `Spec => NotFoundOrAlreadySo`, `Spec => ForeignersChangeNothing` |
| `RowsAreRecorded` | `Spec => []RowIsRecorded` |
| `AssignmentsAreBalanced` | `Spec => []AssignmentsBalance` |

`TypeOK` is not inductive: that the row's status stays a valid one rests on the
handler that wrote it, perhaps after its request was answered 500, having passed
validation (`AskedIsValid`). `WorkflowInv` also says where the handlers of the recorded
requests stand: past their first record (`TrailBehindHandler`), never there outside the
caller's institution (`AuditsInScope`), and nobody is both recorded and unrecorded
(`MissingBehindHandler`). Each action goes through one of two lemmas, `ControlKeeps` for
those that only move a handler on and `LogKeeps` for those that append a record.
`ActiveViewExact` joins `ClosedExactly` (closed_at is set just while the status is
closed) with the order and the length of a view. The two properties of steps look at what
one action does in the state the invariant describes.

`RowIsRecorded` is not inductive because a change may be overwritten, and overwritten
again, by changes of the other columns. `Told` says column by column whose change it shows:
status, assignee and updated_at (`StatusTold`, `AssigneeTold`, `TimeTold`); the one that
updated_at names still has its own column, since a later write of that column would have
set updated_at too. `OneWriter` is the lemma all of this goes through: a step writes at
most one row, for one request, which from then on counts among those that took effect.

`AssignmentsBalance` counts. For each user, `Balance` is how often the case was given to
them less how often it was taken and whether they have it now. Every UPDATE of an
assignment that read a fresh assignee (`FreshReads`) moves one unit from the one it
names as previous to the one it names as new, and so leaves every balance at zero; one that
was overtaken, or that will never have a record, may put a balance out by one, and is
itself counted in the `Debt`. The sums are over the requests that have started, which are
finite (`FewStarted`). `BalanceWith` is the lemma about one request more, `BalanceMoved`
the one about a late commit, which moves the case without ever being counted. The property
is about the records there are, so the assignments between UPDATE and record are left
out again and added to the slack (`BalanceWithout`).

### AttachmentsProofs

For any number of uploads, chunk calls and completions, any bytes, `MaxLength` and
`MaxChunks`. Assumed: `ConstantsAssumption` (an inode is not `None`, neither is a content
or an attachment).

| Theorem | Statement |
|---|---|
| `UploadInvariant`, `TypeCorrect` | `Spec => []UploadInv`, `Spec => []TypeOK` |
| `SteadyInvariant`, `StoredFilesAreTheirOwn` | `SteadySpec => [](UploadInv /\ SteadyInv)`, `SteadySpec => []NeverForeign` |
| `PatientInvariant`, `StoredFilesAreIntact`, `PatientFilesAreTheirOwn` | `PatientSpec` implies `[](UploadInv /\ PatientInv)`, `[]StoredIntact`, `[]NeverForeign` |
| `IntactWithoutDiskFaults` | if no system call on files fails, `PatientSpec` implies that every attachment is `Intact` |
| `SerialInvariant` | `SerialSpec => [](TypeOK /\ SerialInv)` |
| `NewInvariant`, `OneAttachmentPerContent`, `CompletionsAgree` | if no statement fails, `SerialSpec` implies `[]NewInv`, `[]OnePerContent`, `[]CompletionIdempotent` |

Both properties are about the content of an inode, and who writes an inode is whoever
has a descriptor of it, perhaps since before it was renamed. `PathInv` keeps
paths apart (`TempsApart`, `StoresApart`, `TempsNotStored`); an inode that is yet to be
made has no path and no descriptor (`TempUnmade`, `CopyUnmade`), and the copy that a
fallback makes has one writer (`CopyApart`).

*Whose bytes.* When completions of one upload overlap, one of them may empty, shorten or
write from the start an inode that another has renamed into the store. What saves the
stored file is that all of them write bytes of one file: under `SteadySpec` every buffer
and inode on the way (`PostData`, `ChunkData`, `CallData`, `TempData`, `StoreData`) agrees
with the upload's first piece as far as it goes. Without that assumption the property is
false: a client that sends other data for a chunk while two completions overlap gets a
mixture stored.

*Intact files.* Under `PatientSpec` any bodies may be sent, completions of different uploads
overlap and any call may fail. `PatientInv`: the temporary file of an upload belongs to the
one completion of it that runs (`OneEach`), which is building it or has been hurt
(`Assembled`); whatever is stored under a hash is its content, unless a completion of that
content that was hurt answers for it, for good or until it has written the whole of it
(`StoredWell` with `AnswersFor`); and what is about to be inserted, or is, is stored
or answered for (`Kept`). `StoredIntact` exempts contents for which a
completion went on after an error it dropped, since there the code does store a short file:
a failing `out.Write` (`attachments.go:266`), or a failing rename followed by a failing read
or write (`293-297`). `IntactWithoutDiskFaults` says that there is no other way.

*One attachment per content.* With one completion at a time what was answered is inserted
(`AnswerTrue`), and a completion past its duplicate query has a content no attachment
has (`NewContent`). With failing statements `OnePerContent` is false: a failing duplicate
query lets a second attachment in. The last three theorems therefore assume that
statements work; they hold over deaths of the process at every point.

### RestrictionsProofs

For any number of calls, institutions and candidates, any windowHours, any hour and
int64, any bounds of the clock, with faults.

| Theorem | Statement |
|---|---|
| `RestrictionsInvariant`, `TypeCorrect` | `Spec => []RestrictionsInv`, `Spec => []TypeOK` |
| `RestrictionsBind` | `Spec => []RestrictionBinds` |
| `RefusalsStand` | `Spec => []RefusalStands` |
| `RefusalsAreJustified` | `Spec => []RefusalsJustified` |

A check's answer is right by what its query sees, and the properties speak of what
earlier callers were told. `ControlInv` joins the two: who was answered 201 has a row
(`AnsweredDone`), rows and windows stand still (`RowsSettled`, lemmas `WindowsKept`),
a row that will appear late has a window that can be stored (`LateStorable`), and a
refusal names the end of a row that was ahead of the check (`UntilOfRow`).
`WindowEndType` is the arithmetic: no wrap below the largest int64 (`NoWrap`), a
shorter window above it (`WrapShortens`), rounding by a third of a second
(`StoredNear`).

### QualificationsProofs

For any number of calls and institutions and any `LastDay`, with faults. Assumed:
`ConstantsAssumption` (`LastDay \in Nat`).

| Theorem | Statement |
|---|---|
| `QualificationsInvariant`, `TypeCorrect` | `Spec => []QualificationsInv`, `Spec => []TypeOK` |
| `SweepsAreExact` | `Spec => []SweepsExact` |
| `ExpiredInTime` | `Spec => []NeverExpiredEarly` |

Both properties speak of a date a handler read some time before its statement takes
effect, so the invariant adds that no handler holds a date, or a status computed from
one, that has not come (`DatesRead`), and that the status of a row is not computed
again (`RowsComputed`). Then each property is kept by the three writing statements, of
which the sweep is the one with work to do (`SweepKeeps`); everything else only moves
a handler on (`MoveKeeps`).

### RecruitmentProofs

For any number of creations, imports and searches, any persons and institutions and
imports of any length, with faults. Assumed: `ConstantsAssumption` (a call is of one
kind, an import has at least one candidate, lengths are natural numbers).

| Theorem | Statement |
|---|---|
| `ScoreInRange`, `ScoreIsExplained`, `ScoreMonotone` | for every candidate and search: a score is a sum of some of 50, 30 and 20, its reasons add up to it, and more of anything never scores less |
| `RecruitmentInvariant`, `TypeCorrect` | `Spec => []RecruitmentInv`, `Spec => []TypeOK` |
| `ImportsAreAccounted` | `Spec => []ImportAccounted` |
| `AuditIsTrue` | `Spec => []AuditTrue` |
| `SearchesAreExplained` | `Spec => []SearchExplained` |

`ImportAccounted` is not inductive because it says nothing of an INSERT that its import
has given up and that will still take effect. `RecruitmentInv` says of which candidate
such an INSERT is (`LeftBehind`: one that was counted as an error, or the one a process
that died was at), that the other rows are exactly the candidates counted as created
(`TableInv`), where an import stands in its body (`LoopInv`), and that a record counts
what the answer counts and is there once at most (`TrailInv`). The number in a record is compared
with the table by counting: the positions counted as created map one to one to the rows
of the import, save those that took effect late.

### PlatformProofs: identity

For any number of logins and calls, any TTL and clock, any faults, starts and deaths.

| Theorem | Statement |
|---|---|
| `IdentityInvariant`, `IdentityTypeCorrect` | `Spec => []IdentityInv`, `Spec => []TypeOK` |
| `RevocationIsFinal` | `Spec => []RevocationHolds` |
| `SessionsEnd` | `Spec => []AdmittedWithinTTL` |
| `CleanupSpares` | `Spec => RestartKeepsSessions` |

`SessionsIssued` ties the rounded expiry in the table to the time login computed,
`AdmittedLater` keeps that time fixed once a call was let in, and `BarredRevoked` says
that nothing undoes a revocation a later call has to meet.

### PlatformProofs: connections

For any number of requests and any size of the pool. Assumed: `PoolAssumption`
(a request is of one kind, `Size` is at least one).

| Theorem | Statement |
|---|---|
| `PoolInvariant`, `PoolTypeCorrect` | `PoolSpec => []PoolInv`, `PoolSpec => []PoolTypeOK` |
| `OnlyCompletionsStall` | `PoolSpec => []StallTakesPool` |

`StallTakesPool` counts transactions, the steps move connections. `PoolInv` joins
them: the free connections, the running operations and the open transactions add up to
`Size` (`Accounted`), each request holds those of its own (`HoldsItsOwn`), nobody waits
while one is free (`WaitersMeetNone`), and only a completion waits inside a transaction,
for its record (`Stand`). If everyone waits, nothing is free and nothing runs, so the
transactions alone make up the pool. The lemmas `ReturnOfOperation` and
`ReturnOfTransaction` are about a connection that is given back, to the pool or to one
of those who wait.

### ReferenceDataProofs: tags

For any number of tags, entities and assignments and any length of tagIds. Assumed:
`MaxTags \in Nat`, and of InnoDB what `WaitsFor` says.

| Theorem | Statement |
|---|---|
| `LocksExclude`, `TagsTypeCorrect` | `Spec => []TagsInv`, `Spec => []TypeOK` |
| `AssignmentsAreWhole` | `Spec => []AssignedWhole` |
| `ChangesAreAtOnce` | `Spec => ChangesAtOnce` |

`AssignedWhole` is not inductive because an open transaction's set of deleted rows
could be out of date when it commits. `TagsInv` adds that it never is
(`OpenHoldsEntity`), and that of two open transactions of one entity neither has
deleted or inserted anything (`OpenExcludes`): a DELETE that meets rows excludes the
next DELETE, and two that met none exclude each other's INSERTs. So the one that
commits among several inserts nothing. `ChangesAtOnce` follows: only a
transaction that commits changes rows, and those of its own entity.

### ReferenceDataProofs: positions and profiles

For any number of creations, closings, lists and institutions, any `Limit` and `MaxTime`,
with faults. Assumed: `PositionsAssumption` (a call is of one kind, the limit is at least
one).

| Theorem | Statement |
|---|---|
| `PositionsInvariant`, `PositionsTypeCorrect` | `PositionsSpec => []PositionsInv`, `PositionsSpec => []PositionsTypeOK` |
| `ListsAreTrue` | `PositionsSpec => []ListsTrue` |
| `TrailTellsClosings` | `PositionsSpec => []TrailDatesClosing` |

`ListsTrue` compares an answer with calls that were answered before; `PositionsInv` ties
those to the tables: a creation answered 201 has its entry and a row is closed only if
a call in scope began to close it (`EntriesAreCreated`), and a closing that was
answered, or recorded, found its row in scope and left it closed (`ClosedStaysClosed`).
A query is then right by what it sees (`QueryAnswersTrue`; an entry that is left
out of a full list is counted out by the cardinality of the rows shown, one that a broken
read did not reach is older than those it did), and an answer
stays right because entries, their creation and their closings only grow
(`GoesOn`, `AnsweredListStaysTrue`).

`TrailDatesClosing` fails between an UPDATE and its record. `ClosingsAreDated` says what
holds there: in a position that was never disturbed one call at a time is at work, none
is late, and as long as one stands before its record the row has that call's time;
otherwise the latest record dates it, the times that handlers read being in the past and
so no later than the next one (`StampsArePast`, lemma `StampsStayPast`). Every step but the UPDATE
and the record of such a
call leaves the entry alone (`EntryLeftAlone`), and the two roundings are at most a
second apart (`TimesApart`).

### Only model-checked

- Liveness under fairness (`EveryRequestEnds`, `AssignmentsEnd`, `ImportsEnd`,
  `EveryoneAnswered`): out of reach of the prover.

Conversely, `PatientSpec` has proofs and no run of its own: `AttachmentsSerial` checks
`StoredIntact` of the part of it that has one completion at a time. To check the rest take
`AttachmentsSerial.cfg` with `MCPatientSpec`, two completions, `MaxLength = 2`, all three
faults and `StoredIntact` alone (1.1M states).

The proofs are about the models, as the runs are: that an action is what the code does is
a matter of reading the two side by side, for which PROJECT.json gives the lines.

## 5. What is not modelled

- The client: its token and the last answers it shows. The idempotency middleware, which
  is in no route.
- bcrypt, AES, SHA-256 and UUIDs: hashes are injective, nonces, ids and tokens are
  fresh.
- `CREATE TABLE IF NOT EXISTS` at start; the two-second health check.
- Limits on the size and type of attachments; the institution of a download.
- Lists that are queries and nothing else: attachments, audit records, tags, candidates;
  the keyword and the 200 rows of a search, the 200 rows of the list of qualifications.
- Reading rows that breaks off, where nothing else depends on it: in the lists of
  qualifications (`compliance.go:77`), of an entity's tags (`tags.go:213`), of attachments
  and of audit records. `caseledger.go:70`, the active list, positions, profiles and the
  search have it. In `attachments.go:231` there is one row to read.
- An audit INSERT that times out and commits later: it counts as lost.
- Power loss: what a write or a rename did survives the death of the process, and nothing
  in the code calls `fsync`. Reads and writes that are cut into pieces other calls get
  between: each `os.WriteFile`, `out.Write` and `os.ReadFile` moves its bytes at once, after
  the opening that empties the file.
- The statuses `expiring_soon` and `inactive` that `api-spec.md:155` and `questions.md:11`
  name for qualifications: the code never writes them.
- `inMemoryStore` and `IsWithinRestrictionWindow` of `recruitment_logic.go`, which only
  tests call.
- Several API processes: the deployment (`docker-compose.yml`) starts one. For the
  modules whose state is in tables alone nothing would change but `Crash`.
- Reads that a replica or another isolation level would make stale: every
  statement sees what committed before it.
- Of the tag handlers `ConnPool` has `tagAssign`; `tagCreate`, `tagDelete`, `tagList` and
  `tagGetByEntity` have no deadline of their own either, hold one connection and no transaction,
  and wait as an assignment that has not begun.
- The pool and the handlers are not composed: every module but `ConnPool` gives a
  statement its connection, and a wait that ends at its deadline is there the failure of
  the statement.

## 6. Plan

Done: every component of section 2 modelled and checked; every invariant and step
property of the runs proved, and the refinement of the case register.

Left:

1. `Attachments`: what remains of `OnePerContent` when completions overlap or statements
   fail: at most one attachment more for each overlap or failed query.
2. `CaseCreation`: how far the register is implemented when requests overlap, with a
   register that may repeat a number for the reasons `UniqueNumbers` names.
3. `Tags`: an abstract specification in which an assignment is one step, implemented by
   the transaction; `AssignedWhole` and `ChangesAtOnce` are most of the way.
4. `ConnPool` under the handlers of the other modules.
