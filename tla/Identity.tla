------------------------------ MODULE Identity ------------------------------
(***************************************************************************)
(* Start-up, login, the session check of every protected route, the role   *)
(* guard and logout: EnsureSchema, authHandler, requireRole and the audit  *)
(* middleware around login and logout, over the tables users, user_roles,  *)
(* roles and sessions.                                                     *)
(*                                                                         *)
(* There is one API process.  When it starts it seeds the administrator    *)
(* and removes expired sessions, statement by statement, before it serves; *)
(* when it dies its handlers vanish and the tables stay.  Time is in half  *)
(* seconds; expires_at is a TIMESTAMP, rounded to the second.              *)
(***************************************************************************)
EXTENDS Integers, FiniteSets

CONSTANTS
  Logins,   \* calls of POST /auth/login; each makes a token of its own
  Calls,    \* calls with a bearer token, logout among them
  TTL,      \* getTokenTTL, in ticks
  MaxTime,  \* bound on the clock
  Faults    \* what may happen: "statement" errors, "crash" while serving,
            \* "bootcrash" while starting

ASSUME ConstantsAssumption ==
  /\ TTL \in Nat \ {0}
  /\ MaxTime \in Nat
  /\ Faults \subseteq {"statement", "crash", "bootcrash"}
  /\ Logins \cap Calls = {}

VARIABLES
  now,        \* the wall clock
  boot,       \* where the process stands in EnsureSchema, or "serving"
  seeded,     \* rows of roles, users and user_roles that seeding inserts
  session,    \* tokens with a row in sessions
  expires,    \* token -> expires_at
  revoked,    \* tokens whose revoked_at is set
  pc,         \* request -> where its handler stands
  token,      \* call -> the token it carries
  op,         \* call -> the route it is for
  reply,      \* request -> status code it answered, or "none"
  audited,    \* requests with a LOGIN or LOGOUT record
  issued,     \* history: token -> clock when its login computed the expiry
  admittedAt, \* history: call -> clock when the session check let it pass
  loggedOut,  \* history: call -> tokens whose logout was answered before it came
  barred      \* history: call -> tokens revoked before it came

vars == <<now, boot, seeded, session, expires, revoked, pc, token, op, reply,
          audited, issued, admittedAt, loggedOut, barred>>
tables == <<seeded, session, expires, revoked>>
history == <<issued, admittedAt, loggedOut, barred>>

Times == 0 .. MaxTime
Stored(t) == 2 * ((t + 1) \div 2)
Requests == Logins \cup Calls
Ops == {"me", "admin", "logout"}
BootSteps == {"role", "count", "userRole", "cleanup", "serving"}
Steps == {"idle", "session", "user", "run", "audit", "done"}
Unset == -1

InFlight == {r \in Requests : pc[r] \notin {"idle", "done"}}

TypeOK ==
  /\ now \in Times
  /\ boot \in BootSteps
  /\ seeded \subseteq {"role", "user", "userRole"}
  /\ session \subseteq Logins
  /\ expires \in [Logins -> Nat]
  /\ revoked \subseteq Logins
  /\ pc \in [Requests -> Steps]
  /\ token \in [Calls -> Logins]
  /\ op \in [Calls -> Ops]
  /\ reply \in [Requests -> {"none", "200", "204", "401", "403", "500"}]
  /\ audited \subseteq Requests
  /\ issued \in [Logins -> Times \cup {Unset}]
  /\ admittedAt \in [Calls -> Times \cup {Unset}]
  /\ loggedOut \in [Calls -> SUBSET Logins]
  /\ barred \in [Calls -> SUBSET Logins]

Init ==
  /\ now = 0
  /\ boot = "role"
  /\ seeded = {}
  /\ session = {}
  /\ expires = [l \in Logins |-> 0]
  /\ revoked = {}
  /\ pc = [r \in Requests |-> "idle"]
  /\ token \in [Calls -> Logins]
  /\ op \in [Calls -> Ops]
  /\ reply = [r \in Requests |-> "none"]
  /\ audited = {}
  /\ issued = [l \in Logins |-> Unset]
  /\ admittedAt = [c \in Calls |-> Unset]
  /\ loggedOut = [c \in Calls |-> {}]
  /\ barred = [c \in Calls |-> {}]

Goto(r, step) == pc' = [pc EXCEPT ![r] = step]
Answer(r, code) == Goto(r, "done") /\ reply' = [reply EXCEPT ![r] = code]

-----------------------------------------------------------------------------
\* EnsureSchema, once the CREATE TABLE IF NOT EXISTS statements are done.

unbooted == <<now, session, expires, revoked, pc, token, op, reply, audited, history>>

SeedRole ==
  /\ boot = "role"
  /\ seeded' = seeded \cup {"role"}
  /\ boot' = "count"
  /\ UNCHANGED unbooted

\* SELECT COUNT(*) FROM users WHERE username='admin', and the insertion of the
\* user if there is none.  A user that is there skips both insertions.
SeedUser ==
  /\ boot = "count"
  /\ IF "user" \in seeded
     THEN boot' = "cleanup" /\ UNCHANGED seeded
     ELSE boot' = "userRole" /\ seeded' = seeded \cup {"user"}
  /\ UNCHANGED unbooted

SeedUserRole ==
  /\ boot = "userRole"
  /\ seeded' = seeded \cup {"userRole"}
  /\ boot' = "cleanup"
  /\ UNCHANGED unbooted

\* Mutant: the clean-up removes sessions in their last instant.
ExpiredOrLast(l) == expires[l] <= now

Expired(l) == expires[l] < now

\* DELETE FROM sessions WHERE expires_at < now; its error is dropped.
CleanupSessions ==
  /\ boot = "cleanup"
  /\ \/ session' = {l \in session : ~ Expired(l)}
     \/ "statement" \in Faults /\ UNCHANGED session
  /\ boot' = "serving"
  /\ UNCHANGED <<now, seeded, expires, revoked, pc, token, op, reply, audited, history>>

\* A failed statement panics, which is the same as dying here.
CrashWhileStarting ==
  /\ "bootcrash" \in Faults
  /\ boot # "serving"
  /\ boot' = "role"
  /\ UNCHANGED <<seeded, unbooted>>

Restart ==
  /\ "crash" \in Faults
  /\ boot = "serving"
  /\ boot' = "role"
  /\ pc' = [r \in Requests |-> IF r \in InFlight THEN "done" ELSE pc[r]]
  /\ UNCHANGED <<now, tables, token, op, reply, audited, history>>

-----------------------------------------------------------------------------
\* POST /auth/login

\* The user is found and the password matches; the expiry is computed.
VerifyPassword(l) ==
  /\ boot = "serving" /\ pc[l] = "idle"
  /\ "user" \in seeded
  /\ issued' = [issued EXCEPT ![l] = now]
  /\ Goto(l, "session")
  /\ UNCHANGED <<now, boot, tables, token, op, reply, audited, admittedAt,
                 loggedOut, barred>>

RejectLogin(l) ==
  /\ boot = "serving" /\ pc[l] = "idle"
  /\ \/ Answer(l, "401")
     \/ "statement" \in Faults /\ Answer(l, "500")
  /\ UNCHANGED <<now, boot, tables, token, op, audited, history>>

CreateSession(l) ==
  /\ l \in Logins /\ pc[l] = "session"
  /\ \/ /\ session' = session \cup {l}
        /\ expires' = [expires EXCEPT ![l] = Stored(issued[l] + TTL)]
        /\ Goto(l, "audit")
        /\ UNCHANGED reply
     \/ /\ "statement" \in Faults
        /\ Answer(l, "500")
        /\ UNCHANGED <<session, expires>>
  /\ UNCHANGED <<now, boot, seeded, revoked, token, op, audited, history>>

\* auditAppendMiddleware, after the handler returned with a 2xx status; the
\* error is dropped.
AppendAudit(r, code) ==
  /\ pc[r] = "audit"
  /\ audited' = audited \cup {r} \/ ("statement" \in Faults /\ UNCHANGED audited)
  /\ Answer(r, code)
  /\ UNCHANGED <<now, boot, tables, token, op, history>>

-----------------------------------------------------------------------------
\* A call with a bearer token: RequireAuth, requireRole, the handler.

LogoutAnswered(l) ==
  \E c \in Calls : op[c] = "logout" /\ token[c] = l /\ reply[c] = "204"

\* A client has a token once its login was answered.
Arrive(c) ==
  /\ boot = "serving" /\ pc[c] = "idle"
  /\ reply[token[c]] = "200"
  /\ loggedOut' = [loggedOut EXCEPT ![c] = {l \in Logins : LogoutAnswered(l)}]
  /\ barred' = [barred EXCEPT ![c] = revoked]
  /\ Goto(c, "session")
  /\ UNCHANGED <<now, boot, tables, token, op, reply, audited, issued, admittedAt>>

\* Mutants: the session check forgets the expiry, or the revocation.
SessionValidForEver(l) == l \in session /\ l \notin revoked
SessionValidRevoked(l) == l \in session /\ now <= expires[l]

SessionValid(l) == l \in session /\ l \notin revoked /\ now <= expires[l]

PassSession(c) ==
  /\ c \in Calls /\ pc[c] = "session"
  /\ SessionValid(token[c])
  /\ admittedAt' = [admittedAt EXCEPT ![c] = now]
  /\ Goto(c, "user")
  /\ UNCHANGED <<now, boot, tables, token, op, reply, audited, issued,
                 loggedOut, barred>>

RefuseSession(c) ==
  /\ c \in Calls /\ pc[c] = "session"
  /\ \/ ~ SessionValid(token[c]) /\ Answer(c, "401")
     \/ "statement" \in Faults /\ Answer(c, "500")
  /\ UNCHANGED <<now, boot, tables, token, op, audited, history>>

\* FindUserByID, then the role guard of the administrator's routes.
LoadUser(c) ==
  /\ pc[c] = "user"
  /\ \/ Goto(c, "run") /\ (op[c] = "admin" => "userRole" \in seeded) /\ UNCHANGED reply
     \/ op[c] = "admin" /\ "userRole" \notin seeded /\ Answer(c, "403")
     \/ "statement" \in Faults /\ Answer(c, "401")
  /\ UNCHANGED <<now, boot, tables, token, op, audited, history>>

RunHandler(c) ==
  /\ pc[c] = "run" /\ op[c] # "logout"
  /\ Answer(c, "200")
  /\ UNCHANGED <<now, boot, tables, token, op, audited, history>>

\* _ = RevokeSession(...): the answer is 204 whether or not it worked.
Logout(c) ==
  /\ pc[c] = "run" /\ op[c] = "logout"
  /\ \/ revoked' = revoked \cup {token[c]}
     \/ "statement" \in Faults /\ UNCHANGED revoked
  /\ Goto(c, "audit")
  /\ UNCHANGED <<now, boot, seeded, session, expires, token, op, reply, audited, history>>

-----------------------------------------------------------------------------
Tick ==
  /\ now < MaxTime
  /\ now' = now + 1
  /\ UNCHANGED <<boot, tables, pc, token, op, reply, audited, history>>

Boot == SeedRole \/ SeedUser \/ SeedUserRole \/ CleanupSessions

Handle(r) ==
  \/ r \in Logins /\ (VerifyPassword(r) \/ RejectLogin(r) \/ CreateSession(r)
                        \/ AppendAudit(r, "200"))
  \/ r \in Calls /\ (Arrive(r) \/ PassSession(r) \/ RefuseSession(r) \/ LoadUser(r)
                       \/ RunHandler(r) \/ Logout(r) \/ AppendAudit(r, "204"))

Next ==
  \/ Boot \/ CrashWhileStarting \/ Restart \/ Tick
  \/ \E r \in Requests : Handle(r)

Spec == Init /\ [][Next]_vars

-----------------------------------------------------------------------------
Admitted(c) == admittedAt[c] # Unset

\* A call that came after the logout of its token was answered is refused.
LogoutInvalidates == \A c \in Calls : Admitted(c) => token[c] \notin loggedOut[c]

\* A call that came after its token was revoked is refused, also after the
\* process died and the sessions were cleaned up, and whatever other calls with
\* the token are still running.
RevocationHolds == \A c \in Calls : Admitted(c) => token[c] \notin barred[c]

\* No call is let in later than the TTL after the login computed the expiry,
\* but for the half second the rounding of expires_at may add.
AdmittedWithinTTL ==
  \A c \in Calls : Admitted(c) => admittedAt[c] <= issued[token[c]] + TTL + 1

\* A client is not logged out by a restart: only sessions that the check would
\* refuse are removed.
RestartKeepsSessions ==
  [][\A l \in session : now <= expires[l] => l \in session']_vars

\* When the API serves, the administrator exists and has the role (the seeding
\* comment of EnsureSchema, the default credentials of the README).
AdminHasRole == boot = "serving" => {"role", "user", "userRole"} \subseteq seeded
=============================================================================
